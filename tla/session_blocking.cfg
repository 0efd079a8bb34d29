\* An accepted, hence blocking, socket; post_shutdown from every thread; one packet per writev.
SPECIFICATION SessionSafety
CONSTANTS
    a1 = a1
    a2 = a2
    io_thread = io_thread
    AppThreads <- MCOneApp
    Io <- io_thread
    TaskKind <- MCTaskKind
    SendSites <- AllSites
    MayShutdown = TRUE
    Blocking = TRUE
    MaxPackets = 2
    PacketLen = 2
    MaxIov = 1
    RecvCap = 1
    MaxData = 1
INVARIANTS
    SessionInMapAtClose
\* Undefined behaviour ends the program (fault).
CHECK_DEADLOCK FALSE
