SPECIFICATION Spec

CONSTANTS
    Server = {s1, s2, s3}
    MaxRecords = 3
    MaxCrashes = 2
    MaxUpgrades = 1
    MaxEvents = 3
    BufferSize = 2
    MaxRestarts = 1
    MaxCuts = 1
    Process = {p1, p2}
    MaxTokens = 3
    Prompt = {a, b, c}
    MaxOwn = 1
    Op = {a, b, c, d}
    Period = 2
    Jitter = 1
    StaleAge = 5
    MaxCoalesce = 2
    MaxTime = 9
    MaxStops = 2
    Request = {r1, r2}
    MaxItems = 2
    MaxReads = 2
    Agent = {a1, a2}
    MaxTurns = 2
    Member = {m1, m2}
    MaxAssignments = 2

INVARIANTS
    TypeOK
    
    LogKept
    JournalExact
    StoredTokenUsable
    
    
    OccurrencesOnce
    SnapshotFresh
    RequestsFollowTurns
    


    

CHECK_DEADLOCK FALSE
