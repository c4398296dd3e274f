SPECIFICATION FairSpec
CONSTANTS
    a = a  b = b  r1 = r1  r2 = r2  r3 = r3
    Names <- MCNames
    Requests = {r1, r2}
    Calls <- ApplyRunCalls
    InitialFiles <- ApplyRunFiles
    HandFiles <- EditRunEdits
    Keep = 1
    EditAnyTime = FALSE
    ComposeMayFail = TRUE
    ClockMayStepBack = FALSE
    MaxCalls = 3
    MaxEdits = 1
    MaxCrashes = 1
CHECK_DEADLOCK FALSE
INVARIANTS MarkedWhenDeployed
PROPERTIES Answered StoreSpec
