SPECIFICATION FairSpec
CONSTANTS
    a = a  r1 = r1  r2 = r2  h1 = h1  h2 = h2  h3 = h3
    Names <- MCNames
    Requests = {r1, r2}
    Hosts = {h1, h2, h3}
    Listed = {h1, h2}
    Accepting = {h1}
    Calls <- MCCalls
    Submissions <- MCSubmissions
    InitialFiles <- MCFiles
    HandFiles <- MCHandFiles
    Pool = 1
CHECK_DEADLOCK FALSE
INVARIANTS TypeOK RowsCurrent
PROPERTIES KeepsPromise PageComes
