SPECIFICATION CutsSpec
CONSTANTS
    Inputs <- AllInputs
    MaxHeaderSize = 80
    MaxLength = 40
    OffsetMod = 100
    MaxPort = 99
INVARIANTS
    TypeOK
    AssertsHold
    DeliveredAsSent
    CutsDoNotMatter
    BlocksAreBounded
    UrlIsSplitRight
PROPERTY ErrorsAreFinal
\* The peer may stop sending.
CHECK_DEADLOCK FALSE
