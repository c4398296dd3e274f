SPECIFICATION Spec
CONSTANTS
    h = h  m = m  a = a  b = b  c = c  i1 = i1  i2 = i2  i3 = i3  d = d  x = x
    HeadId = h
    Targets <- MCTargets
    Topologies <- MCTopologies
    ClientFiles <- MCClientFiles
    NotText <- MCNotText
    TooLong <- MCTooLong
    Subnet = {i1, i2, i3}
    Domains = {d}
    Hostnames = {}
    Answers <- MCAnswers
    MaxEdits = 1  MaxFaults = 1  MaxFatal = 1  MaxOutages = 1  MaxRestarts = 1
INVARIANTS TypeOK DevicesHaveNodes
PROPERTIES PollsGoOn InventoryCatchesUp
CHECK_DEADLOCK FALSE
