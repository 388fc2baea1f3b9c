CONSTANTS
    HostPaths <- MCHostPaths
    Specs <- MCAudio
    Hosts <- MCHosts
    LiveAt <- MCLiveAt
    Files <- MCFiles
    Lowers <- MCLowers
    WaylandKnown = FALSE
    Pasta = TRUE
    SessionBus = TRUE
    MaxDepth = 3
    Sockets <- MCSockets
    FailAt <- MCFailAt
    MaxLive = 0
    MaxGen = 3
    MaxDocs = 1
    Nothing = Nothing
SPECIFICATION Spec
INVARIANT SocketsShown
CHECK_DEADLOCK FALSE
CONSTRAINT Bounded
