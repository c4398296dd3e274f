SPECIFICATION Spec
CONSTANTS
    a = a  b = b  r1 = r1  r2 = r2  r3 = r3
    Names <- MCNames
    Requests = {r1, r2}
    Calls <- SaveRunCalls
    InitialFiles <- SaveRunFiles
    HandFiles <- SaveRunEdits
    Keep = 2
    EditAnyTime = FALSE
    ComposeMayFail = TRUE
    ClockMayStepBack = FALSE
    MaxCalls = 4
    MaxEdits = 1
    MaxCrashes = 2
SYMMETRY Symmetry
CHECK_DEADLOCK FALSE
INVARIANTS NoLostUpdate NoPortClash BackupsBounded NewestRetained
PROPERTIES ReadOnlyKept PreviousBackedUp
