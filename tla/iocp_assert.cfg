\* One application thread sends.
SPECIFICATION IocpSpec
CONSTANTS
    SendSites = {"app"}
    MaxPackets = 2
    PacketLen = 1
    MaxBufCnt = 2
    MaxData = 0
CHECK_DEADLOCK FALSE
INVARIANT FlushHasPackets
