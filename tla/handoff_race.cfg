\* Another thread and the loop's coroutines, two coroutines and room for three:
\* nothing is ever refused.
SPECIFICATION Spec
CONSTANTS
    Producers = {loop, t1}
    LoopThread = loop
    Items = {c1, c2}
    Capacity = 4
    NoItem = NoItem
PROPERTIES EverySpawnRuns
