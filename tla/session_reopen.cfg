\* Opened, closed and opened again; the BMC has two sessions.
SPECIFICATION FairSpec
CONSTANTS
    Keys = {k1}
    NoKey = NoKey
    LanRetry = 1
    MaxOpens = 2
    MaxIds = 2
    MaxRands = 2
INVARIANT ActiveAgreement
PROPERTIES ClosesWhatItOpened OpenReturns
CHECK_DEADLOCK FALSE
