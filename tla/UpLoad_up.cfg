SPECIFICATION FairSpec
CONSTANTS
    Interval = 2
    MaxNow = 6
    MaxSent = 5
    NoStat = NoStat
CHECK_DEADLOCK FALSE
INVARIANTS NeverOverstates ReportsSpaced IInv
PROPERTIES QuietWhenOff StopReturns
