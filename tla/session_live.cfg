\* Sends from the enter and data callbacks, as in the examples; a slow peer that sends more than one readv takes.
SPECIFICATION SessionSpec
CONSTANTS
    a1 = a1
    a2 = a2
    io_thread = io_thread
    AppThreads <- MCOneApp
    Io <- io_thread
    TaskKind <- MCTaskKind
    SendSites <- HandlerSites
    MayShutdown = FALSE
    Blocking = FALSE
    MaxPackets = 2
    PacketLen = 2
    MaxIov = 2
    RecvCap = 2
    MaxData = 3
PROPERTIES
    QueuedPacketLeaves
    DataIsRead
    DisconnectIsNoticed
INVARIANT FlushTaskTargetAlive
\* Undefined behaviour ends the program (fault).
CHECK_DEADLOCK FALSE
