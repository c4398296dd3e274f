SPECIFICATION Spec
CONSTANTS
    a = a  b = b  pc = pc  box = box  ia = ia  ib = ib  pub = pub
    far = far  other = other  user = user  docs = docs  home = home
    Relative = Relative  Up = Up  None = None
    Nodes = {a, b}
    Order <- MCOrder
    ByName <- MCOrder
    Reports <- MCReports
    Ip <- MCIp
    Devices <- MCDevices
    Addresses = {ia, ib, pub, far, other}
    Timeout = 0  MostParts = 1  Interval = 1  DnsMost = 0  StaleAfter = 1  Skew = 1
    MaxTime = 4
CHECK_DEADLOCK FALSE
INVARIANTS DetailsJustified MountsComplete MatchedToHolder
