SPECIFICATION FairSpec
CONSTANTS
    MaxSerial = 2
    MaxDup = 0
CHECK_DEADLOCK FALSE
PROPERTIES LongRunRenews
