CONSTANTS
    HostPaths <- MCHostPaths
    Specs <- MCSpecs
    Hosts <- MCHosts
    LiveAt <- MCLiveAt
    Files <- MCFiles
    Lowers <- MCLowers
    WaylandKnown = FALSE
    Pasta = TRUE
    SessionBus = TRUE
    MaxDepth = 3
    Sockets <- MCSockets
    FailAt <- MCFailAt
    MaxLive = 2
    MaxGen = 2
    MaxDocs = 1
    Nothing = Nothing
SPECIFICATION Spec
INVARIANTS ShownAsPlanned LiveKept ExposedSeen
CHECK_DEADLOCK FALSE
CONSTRAINT Bounded
