\* One open: two attempts, old answers, two passwords and BMC keys.
SPECIFICATION Spec
CONSTANTS
    Keys = {k1, k2}
    NoKey = NoKey
    LanRetry = 2
    MaxOpens = 1
    MaxIds = 2
    MaxRands = 2
SYMMETRY KeySymmetry
INVARIANTS TypeOK ActiveAgreement MutualAuthentication
CHECK_DEADLOCK FALSE
