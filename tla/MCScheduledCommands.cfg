SPECIFICATION FairSpec
CONSTANTS
    c1 = c1
    c2 = c2
    c3 = c3
    Commands = {c1, c2, c3}
    NoCommand = NoCommand
    Times = {0, 2, 5}
    HalfRange = 4
    MaxTime = 5
CHECK_DEADLOCK FALSE
INVARIANTS OnceAndNotEarly
PROPERTIES WaitIsBounded DueIsExecuted
