\* One application thread and every callback send; partial writes, one unit of data.
SPECIFICATION SessionSpec
CONSTANTS
    a1 = a1
    a2 = a2
    io_thread = io_thread
    AppThreads <- MCOneApp
    Io <- io_thread
    TaskKind <- MCTaskKind
    SendSites <- AllSites
    MayShutdown = FALSE
    Blocking = FALSE
    MaxPackets = 2
    PacketLen = 2
    MaxIov = 2
    RecvCap = 2
    MaxData = 1
INVARIANTS
    SessionTypeOK
    PacketFifo
    ByteAccounting
    ChannelAliveInUse
    FlagHasFlush
PROPERTIES
    ImplementsOrderedChannel
    FlushFlagClears
    ClosedSessionFreed
\* Undefined behaviour ends the program (fault).
CHECK_DEADLOCK FALSE
