\* Two threads log, one twice and one once; the file is too large from two lines
\* on, the queue full with two.
SPECIFICATION Spec
CONSTANTS
    Threads = {1, 2}
    MaxCalls <- Twice
    Levels = {"Error", "Debug"}
    AllSettings <- Settings
    Earlier <- OldLines
    MaxQueue = 2
    MaxSize = 1
    MaxSecond = 2
CHECK_DEADLOCK FALSE
INVARIANTS LinesKept
PROPERTIES CallReturns
