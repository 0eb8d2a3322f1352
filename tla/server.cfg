\* Two connections for two descriptors, a wheel of two buckets.
SPECIFICATION Spec
CONSTANTS
    Conns = {c1, c2}
    MaxFd = 2
    N = 2
    MaxData = 1
    None = None
CHECK_DEADLOCK FALSE
INVARIANTS TypeOK OpenIsOwned
PROPERTIES WheelWaits DescriptorsReturned
