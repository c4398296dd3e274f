SPECIFICATION Spec
CONSTANTS
    a = a  b = b  r1 = r1  r2 = r2  r3 = r3
    Names <- MCNames
    Requests = {r1, r2}
    Calls <- AnswerRunCalls
    InitialFiles <- AnswerRunFiles
    HandFiles <- EditRunEdits
    Keep = 1
    EditAnyTime = FALSE
    ComposeMayFail = FALSE
    ClockMayStepBack = FALSE
    MaxCalls = 4
    MaxEdits = 0
    MaxCrashes = 0
SYMMETRY Symmetry
CHECK_DEADLOCK FALSE
INVARIANTS AppliedAnswerHasNoOrphan
