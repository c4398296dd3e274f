SPECIFICATION Spec
CONSTANTS
    r1 = r1  r2 = r2  r3 = r3  x = x  y = y
    Entry = Entry
    Requests = {r1, r2}
    UserLines = {x, y}
    InitialLines <- MCInitialLines
    MayFail = FALSE
    MayRestart = FALSE
INVARIANTS BuildExcludes
