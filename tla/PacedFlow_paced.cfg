SPECIFICATION Spec
CONSTANTS
    ReqRate = {0, 2, 3, 9}
    ReqDur = {0, 2, 7}
    MaxRate = 5
    MaxDur = 4
    PktSize = 2
    Horizon = 6
CHECK_DEADLOCK FALSE
INVARIANTS NeverOversends StartIsBounded CatchesUp
