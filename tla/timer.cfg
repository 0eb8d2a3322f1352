\* The coroutines of the loop add events without end and delete them wherever
\* they are: pending, about to run, or long since run.
SPECIFICATION Safety
CONSTANTS
    Events = {e1, e2, r}
    Repeating = {r}
    Intervals = {0, 2}
    Grace = 1
    Remotes = {}
    Deletable = {"pending", "batch", "fired"}
    RemoteDeletable = {}
    Recycle = TRUE
    None = None
INVARIANTS TypeOK ArmedForHead
