SPECIFICATION FairSpec
CONSTANTS
    MaxSerial = 4
    MaxDup = 1
CHECK_DEADLOCK FALSE
INVARIANTS IInv Converges RateIsOwn HandshakeUndisturbed
PROPERTIES CallsReturn GhostsEnd QuietWhenStopped
