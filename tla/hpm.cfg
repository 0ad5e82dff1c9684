\* Two components of eight bytes, blocks of five bytes or less.
SPECIFICATION FairSpec
CONSTANTS
    Length = 8
    MaxData = 5
    BlockSize = 2
    ResizeLimit = 6
    RetryMax = 3
    BlockMod = 3
    Components = 2
    Patience = 2
    Sections <- MCSections
    MaxSections = 2
INVARIANTS TypeOK ImageWhole
PROPERTY UploadEnds
CHECK_DEADLOCK FALSE
