\* Another thread adds events and deletes pending ones; the coroutines of the
\* loop delete theirs wherever they are: pending, about to run, or long since run.
SPECIFICATION Spec
CONSTANTS
    Events = {e1, r}
    Repeating = {r}
    Intervals = {0, 2}
    Grace = 1
    Remotes = {main}
    Deletable = {"pending", "batch", "fired"}
    RemoteDeletable = {"pending"}
    Recycle = FALSE
    None = None
INVARIANTS NoEventLost DeletedNotRun
PROPERTIES EventRuns
