SPECIFICATION FairSpec
CONSTANTS
    w1 = w1
    w2 = w2
    tokA = tokA
    tokB = tokB
    tokC = tokC
    fsX = fsX
    fsY = fsY
    nameP = nameP
    nameQ = nameQ
    none = none
    None = none
    Jobs = {j1, j2, j3}
    Workspaces = {w1, w2}
    Tokens = {tokA, tokB, tokC}
    Names = {nameP, nameQ}
    Filespaces = {fsX, fsY}
    MaxClients = 1
    MaxLinks = 1
    InitialTokens <- SomeTokens
    InitialNames <- SomeNames
    Wants <- SomeWants
    FaultKinds = {"login", "list", "link", "unlink"}
    MaxLeases = 3
    MaxEvents = 1
INVARIANTS RegistryIsBounded
PROPERTIES KeepsPool EveryLeaseEnds
CHECK_DEADLOCK FALSE
