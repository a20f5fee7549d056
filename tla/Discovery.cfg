SPECIFICATION FairSpec
CONSTANTS
    a = a
    b = b
    c = c
    d = d
    e = e
    lamp = lamp
    tree = tree
    both = both
    none = none
    None = none
    Files <- MCFiles
    Texts <- MCTexts
    Batch = 1
    Path <- MCPath
    Copy <- MCCopy
    Base <- MCBase
    Shared <- MCShared
    RefersTo <- MCRefersTo
    Close <- MCClose
    Near <- MCNear
    LinkMin = 50
    LinksPerNode = 2
    MinDocuments = 2
    MaxSize = 3
    Resolutions <- MCResolutions
    Ids <- MCIds
    InitialTexts <- MCInitialTexts
    Changing <- MCChanging
    Loads <- MCLoads
    MaxLoad = 2
INVARIANTS IndexFollowsTheStore NewMeansNew
PROPERTIES EveryFileGetsAVector OwnersWordStands RequestsAreAnswered GroupsCatchUp
