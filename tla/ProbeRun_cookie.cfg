SPECIFICATION Spec
CONSTANTS
    BaselineProbes = 1
    LoadedProbes = 1
    ProbesPerClass = 1
    Propagation = 1
    StandingQueueMin = 1
    Conditions <- MCLateCookie
CHECK_DEADLOCK FALSE
INVARIANTS NotAborted
