\* Three coroutines on two processors, readers and writers, one locks twice.
SPECIFICATION Spec
CONSTANTS
    c1 = c1
    c2 = c2
    c3 = c3
    p1 = p1
    p2 = p2
    Processors = {p1, p2}
    Coroutines = {c1, c2, c3}
    Home <- TwoAndOne
    Modes = {"r", "w"}
    Rounds <- OneTwice
    None = None
INVARIANTS TypeOK MutualExclusion StateCountsHolders WaitersKept WaitersHaveHolder
PROPERTIES LockTaken
