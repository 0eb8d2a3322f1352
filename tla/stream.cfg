\* Two messages at a time, cut anywhere but right behind an HTTP request line
\* (LineCuts); buffers that begin small.
SPECIFICATION Spec
CONSTANTS
    Blank = 0
    InitSize = 8
    Radix <- Digits
    Junk <- JunkCells
    Services <- PbServices
    Servlets <- HttpServlets
    BadData <- Broken
    PbScripts <- Pbs
    HttpScripts <- Https
    LineCuts = FALSE
    Parts = {1}
    MaxCuts = 6
INVARIANTS TypeOK DispatchedInOrder RepliesInOrder QuietMeansDone
PROPERTIES BuffersAreQueues
