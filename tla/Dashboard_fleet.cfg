SPECIFICATION FairSpec
CONSTANTS
    DefaultLimit = 2
    Uploads <- MCUploads
    Queries <- MCQueries
    MaxPosts = 2
    MaxRefreshes = 2
    Workloads <- MCWorkloads
CHECK_DEADLOCK FALSE
INVARIANTS AckedStored OneCohort ListCoversChart
PROPERTIES KeepsPromise RequestsEnd
