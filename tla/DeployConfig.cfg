SPECIFICATION Spec
CONSTANTS
    Hosts <- MCHosts
    Locals <- MCLocals
    Blind <- MCBlind
    Topologies <- MCTopologies
    Dirs = {"d"}
    OtherConfig = TRUE
    MaxRuns = 1
    MaxFaults = 1
    MaxEdits = 0
CHECK_DEADLOCK FALSE
INVARIANTS ConfigDeployed
