SPECIFICATION FairSpec
CONSTANTS
    n1 = n1
    p1 = p1
    p2 = p2
    top = top
    sub = sub
    d1 = d1
    d2 = d2
    o1 = o1
    o2 = o2
    scheduler = scheduler
    none = none
    Names <- MCNames
    Places <- MCPlaces
    Overlaps <- MCOverlaps
    Engine <- MCEngine
    Cloud <- MCCloud
    Files <- MCFiles
    TopFiles <- MCTopFiles
    Disks <- MCDisks
    Drives <- MCDrives
    PlaceOn <- MCPlaceOn
    Owners = {o1, o2}
    Scheduler = scheduler
    None = none
    Loads <- MCLoads
    MaxLoad = 3
INVARIANTS BaselineIsTheFirstLook RowsFollowTheFolder
PROPERTIES KeptThroughUnmounts TargetsFollowTheChoices
