\* Events are logged, listed and removed while the daemon polls the log.
SPECIFICATION FairSpec
CONSTANTS
    MaxEvents = 4
    MaxFaults = 1
    MaxCommands = 1
    Counts <- MCCounts
    DeleteLists <- MCDeleteLists
INVARIANTS TypeOK ReportedOnce ReportedWithoutGap ListedLast RemovedWhatWasAsked
PROPERTY EventReported
CHECK_DEADLOCK FALSE
