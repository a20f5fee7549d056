SPECIFICATION FairSpec
CONSTANTS
    w1 = w1
    w2 = w2
    tokA = tokA
    tokB = tokB
    none = none
    star = star
    fsX = fsX
    fsY = fsY
    nameP = nameP
    jwt = jwt
    None = None
    Blank = Blank
    Workspaces = {w1, w2}
    Tokens = {tokA, tokB}
    Lists = {none, star}
    EmptyList = none
    Editors = {e1, e2}
    Puts <- SomePuts
    Stored <- SomeRecords
    MaxSaves = 3
    MaxStarts = 1
    Requests = {r1, r2}
    Jwts = {jwt}
    Names = {nameP}
    Filespaces = {fsX, fsY}
    PositiveTTL = 2
    NegativeTTL = 1
    ListTTL = 2
    Patience = 1
    CacheMax = 1
    MaxClients = 1
    MaxLinks = 1
    InitialNames <- SomeNames
    FaultKinds = {"supabase", "login", "listing", "link", "operation", "release"}
    MaxFaults = 1
    Asks <- SomeAsks
    Loads <- SomeLoads
    MaxClock = 4
INVARIANTS TypeOK VaultIsAsSaved AnswersAreRecent RightFilespace HintsNameTheirWorkspace
PROPERTIES KeepsPool EveryRequestIsAnswered
CHECK_DEADLOCK FALSE
