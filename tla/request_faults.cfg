\* All faults: send errors, SOL traffic, a cold reset, bad authcodes.
SPECIFICATION FairSpec
CONSTANTS
    Cmds = {c1}
    SendMessage = SendMessage
    SeqMod = 2
    Retry = 2
    BaseTimeout = 1
    MaxCalls = 3
    Faults = {"bad_auth", "sol", "send_fails", "cold_reset"}
INVARIANTS RequestInvariant ResponseMatches TimeoutRestored
PROPERTY CallReturns
CHECK_DEADLOCK FALSE
