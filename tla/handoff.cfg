\* Another thread hands four coroutines over through a buffer that holds two:
\* it fills, wraps and empties.
SPECIFICATION Spec
CONSTANTS
    Producers = {t1}
    LoopThread = loop
    Items = {c1, c2, c3, c4}
    Capacity = 3
    NoItem = NoItem
INVARIANTS TypeOK NoSlotRace NoSleepWithWork
PROPERTIES ImplementsFIFO AcceptedRuns
