CONSTANTS
    Maps = {m1}
    MaxActs = 2
    QueueCapacity = 1
SPECIFICATION FairSpec
INVARIANTS ShowsDatabase MatchesDirectory
PROPERTIES RemovedOnlyIfGone ContinuationSeesImport ComesToRest
