\* Two threads meet in the first call, two processors, two calls each.
SPECIFICATION SchedSpec
CONSTANTS
    Threads = {t1, t2}
    ProCnt = 2
    Calls = 2
    NoThread = NoThread
INVARIANTS SchedTypeOK StartedOnce MutexMeansStarted
