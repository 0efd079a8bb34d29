\* An application thread sends on a session that is closing.
SPECIFICATION SessionSafety
CONSTANTS
    a1 = a1
    a2 = a2
    io_thread = io_thread
    AppThreads <- MCOneApp
    Io <- io_thread
    TaskKind <- MCTaskKind
    SendSites <- AppSite
    MayShutdown = FALSE
    Blocking = FALSE
    MaxPackets = 1
    PacketLen = 1
    MaxIov = 2
    RecvCap = 2
    MaxData = 0
INVARIANTS
    FlushTaskTargetAlive
\* Undefined behaviour ends the program (fault).
CHECK_DEADLOCK FALSE
