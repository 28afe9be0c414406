SPECIFICATION FairSpec
CONSTANTS
    BaselineProbes = 1
    LoadedProbes = 2
    ProbesPerClass = 1
    Propagation = 1
    StandingQueueMin = 1
    Conditions <- MCConditions
CHECK_DEADLOCK FALSE
INVARIANTS TypeOK SamplesOwn ClassesApart JudgedUnderLoad SurvivalHonest JudgedFromIdle
PROPERTIES Terminates
