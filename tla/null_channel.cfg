\* The enter and data callbacks send; the socket closes while its event is handled.
SPECIFICATION SessionSafety
CONSTANTS
    a1 = a1
    a2 = a2
    io_thread = io_thread
    AppThreads <- MCOneApp
    Io <- io_thread
    TaskKind <- MCTaskKind
    SendSites <- HandlerSites
    MayShutdown = FALSE
    Blocking = FALSE
    MaxPackets = 2
    PacketLen = 2
    MaxIov = 2
    RecvCap = 1
    MaxData = 1
INVARIANTS
    FlushOnLiveChannel
\* Undefined behaviour ends the program (fault).
CHECK_DEADLOCK FALSE
