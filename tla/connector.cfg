SPECIFICATION Spec
CONSTANTS
    Conns = {c1, c2}
    Threads = {t1, t2}
    Fds = {3, 4}
    None = None
SYMMETRY Sym
CHECK_DEADLOCK FALSE
INVARIANTS
    CallbackSeesLiveConnector
    
    ContextOutlivesEvents
