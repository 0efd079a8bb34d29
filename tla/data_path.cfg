\* MinBufferSize, StackSize and Wrap scaled down from 1024, 65536 and 2^64.
SPECIFICATION Spec
CONSTANTS
    MinBufferSize = 2
    Wrap = 64
    StackSize = 3
    DefaultMaxSize = 4
    MaxSizes = {1, 2, 6}
    Channels = {"epoll", "iocp"}
    MaxBytes = 12
    Buffers = {b1, b2}
    Allocators = {app1, app2}
    Sizes = {1, 3, 4}
    Classes = 2
    Null = Null
    SendSites = {"app", "io"}
    MaxPackets = 4
    PacketLen = 2
    MaxBufCnt = 2
    MaxData = 1
SYMMETRY Sym
CHECK_DEADLOCK FALSE
INVARIANTS
    StreamKept
    BlockNotOverrun
    OneOwner
    WireInOrder
    PacketHasCarrier
