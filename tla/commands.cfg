CONSTANTS
    Rounds = 2
    Unreported <- MCUnreported
    LeftLocked <- MCLeftLocked
    Stale <- MCStale
    Endless <- MCEndless
    Unchecked <- MCUnchecked
    Reached <- MCReached
    May <- MCMay
    Cleared <- MCCleared
    Forgets <- MCForgets
    Quits <- MCQuits
    Shifted <- MCShifted
SPECIFICATION FairSpec
INVARIANTS TypeOK ExitHonest LocksReleased TargetRestored NoCrash
PROPERTY CommandEnds
