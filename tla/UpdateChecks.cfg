SPECIFICATION FairSpec
CONSTANTS
    Components <- ImageAndPackage
    Pypi <- Package
    Unreliable <- Image
    Notifiers <- TwoNotifiers
    Versions <- SomeVersions
    InitialLive <- LiveAtFirst
    InitialPins <- PinnedAtFirst
    Advisories = {"PYSEC-1"}
    MaxNotes = 2
    FaultKinds = {"registry", "store", "notify", "crash", "stop"}
    MaxFaults = 2
    MaxChanges = 1
INVARIANTS NeverSentAgain AnnouncedWasHeard NeverPaysTwice
PROPERTIES EveryUpdateIsAnnounced LatestCatchesUp
CHECK_DEADLOCK FALSE
