\* A posting thread, the IO thread and the owner; two kinds of task, lists of up to two.
SPECIFICATION MCSpec
CONSTANTS
    a1 = a1
    io = io
    k1 = k1
    k2 = k2
    AppThreads = {a1}
    Io <- io
    TaskKind <- MCTaskKind
    MaxQueue = 2
    Limit = 3
    MaxClients = 3
    MaxForeign = 2
INVARIANTS
    ThreadTypeOK
    SwapsAreClean
    IdleFdComesBack
PROPERTIES
    ImplementsMailbox
    PostedTaskRuns
    StopTerminates
    ClientIsAnswered
\* After Join, and once every post is over, nothing is left to do.
CHECK_DEADLOCK FALSE
