CONSTANTS
    MaxStarts = 2
    QueueCapacity = 1
    PipeCapacity = 1
SPECIFICATION LiveSpec
INVARIANTS RunsApart CleanExit
PROPERTIES GracePeriodKept CancelEnds
