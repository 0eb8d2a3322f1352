\* Two connections that use the same descriptor one after the other.
SPECIFICATION Spec
CONSTANTS
    Conns = {c1, c2}
    MaxFd = 2
    N = 2
    MaxData = 1
    None = None
CHECK_DEADLOCK FALSE
INVARIANTS NoUseAfterFree
