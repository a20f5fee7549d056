SPECIFICATION FairSpec
CONSTANTS
    p = p
    q = q
    Files = {f}
    Places = {p, q}
    InitialPlaces <- AllAtP
    MaxPoint = 2
    MaxNew = 2
    Batch = 2
    DeadPart = 2
    FaultKinds = {"request", "server", "emptied", "crash"}
    MaxFaults = 2
    MaxWrites = 2
INVARIANTS LocalIsCurrent CleanMeansMirrored
PROPERTIES MirrorCatchesUp
CHECK_DEADLOCK FALSE
