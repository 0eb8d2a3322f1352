\* Two coroutine objects and two descriptors: c1 calls over f1, with a timer
\* beside its waits, and f2 reports odd events to c2.
SPECIFICATION Spec
CONSTANTS
    c1 = c1
    c2 = c2
    f1 = f1
    f2 = f2
    Coroutines = {c1, c2}
    Fds = {f1, f2}
    Users <- Shared
    Callers <- OneCaller
    OddFds = {f2}
    None = None
INVARIANTS TypeOK AssertionsHold RunsOnlyLiving TasksAlive
PROPERTIES WaitFull ReadyServed
