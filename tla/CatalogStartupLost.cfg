CONSTANTS
    Maps = {m1}
    MaxActs = 2
    QueueCapacity = 1
SPECIFICATION Spec
INVARIANT StartupContinues
