SPECIFICATION Spec
CONSTANTS
    r1 = r1  r2 = r2  p1 = p1  p2 = p2
    Requests = {r1}
    Passwords = {p1, p2}
    Weak = {}
    InitialFiles <- MCInitialFiles
    InitialTokens = 1
    MaxSessions = 2
    Lifetime = 1
    MaxTokens = 2  MaxTime = 0  MaxCrashes = 0  MaxRemovals = 1  MaxLapses = 0
PROPERTIES RemovedStaysRemoved
CHECK_DEADLOCK FALSE
