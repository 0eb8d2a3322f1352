\* Two calls of one coroutine, message numbers of two digits.
SPECIFICATION Spec
CONSTANTS
    MaxCalls = 2
    Radix = 2
    Len_ = 2
CHECK_DEADLOCK FALSE
INVARIANTS OutcomeHonest TimersEnd
PROPERTIES NumbersCount CallEnds
