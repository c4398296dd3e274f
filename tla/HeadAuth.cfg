SPECIFICATION Spec
CONSTANTS
    r1 = r1  r2 = r2  p1 = p1  p2 = p2
    Requests = {r1, r2}
    Passwords = {p1, p2}
    Weak = {}
    InitialFiles <- MCInitialFiles
    InitialTokens = 1
    MaxSessions = 2
    Lifetime = 1
    MaxTokens = 3  MaxTime = 1  MaxCrashes = 1  MaxRemovals = 1  MaxLapses = 1
SYMMETRY Symmetry
INVARIANTS Durable RevokedForGood
PROPERTIES StaysReadable PasswordHeld SessionsKept
CHECK_DEADLOCK FALSE
