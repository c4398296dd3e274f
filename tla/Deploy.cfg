SPECIFICATION FairSpec
CONSTANTS
    Hosts <- MCHosts
    Locals <- MCLocals
    Blind <- MCBlind
    Topologies <- MCTopologies
    Dirs = {"d", "e"}
    OtherConfig = TRUE
    MaxRuns = 2
    MaxFaults = 2
    MaxEdits = 1
CHECK_DEADLOCK FALSE
INVARIANTS RoleDeployed OldRoleStopped RerunRepairs OneHostDown
PROPERTIES RunEnds
