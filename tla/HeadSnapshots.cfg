SPECIFICATION Spec
CONSTANTS
    a = a  b = b  x = x
    Nodes = {a, b}
    Order <- MCOrder
    Reports <- MCReports
    Timeout = 1  MostParts = 2  Interval = 1  DnsMost = 0  StaleAfter = 8  Skew = 1
    MaxTime = 14
CHECK_DEADLOCK FALSE
INVARIANTS OnlineWasHeard AnsweringIsOnline
