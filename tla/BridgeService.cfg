SPECIFICATION ServiceSpec
CONSTANTS
    Name = "a"
    Null = Null
    Hosts <- MCHosts
    RawServices <- MCRawServices
    Edits <- MCEdits
CHECK_DEADLOCK FALSE
PROPERTIES SavedReadsBack
