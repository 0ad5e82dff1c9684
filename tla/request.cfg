\* Datagrams are lost, late or repeated, or have a wrong authcode.
SPECIFICATION FairSpec
CONSTANTS
    Cmds = {c1, c2}
    SendMessage = SendMessage
    SeqMod = 3
    Retry = 2
    BaseTimeout = 1
    MaxCalls = 4
    Faults = {"bad_auth"}
INVARIANTS TypeOK BridgedAnswerIsTargets
PROPERTY RpcSpec
CHECK_DEADLOCK FALSE
