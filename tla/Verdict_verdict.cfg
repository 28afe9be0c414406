SPECIFICATION Spec
CONSTANTS
    Edges <- MCEdges
    PctN = 1
    PctD = 2
    Rtt = {1, 10, 40, 50, 90}
    Bases <- MCBases
    Profiles <- MCProfiles
    Scalars <- MCScalars
    QN = 2
    QD = 3
    SurvivalN = 2
    SurvivalD = 3
    LLMax = 20
    ClassicMin = 100
    LatencyMargin = 10
    QueueMin = 60
CHECK_DEADLOCK FALSE
INVARIANTS QuantileInBin CdfAgrees MergedBetween PassIsEarned FieldAgrees
PROPERTIES NoRewardForWorse
