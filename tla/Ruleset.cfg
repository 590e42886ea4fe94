CONSTANTS
    W50 = 2
    HittableRange = 3
    Leniency = 1
    Tolerance2B = 0
    SpinBonusGap = 0
    Scenarios <- MCScenarios
    Preempt = 4
    Gaps = {1, 3}
    SeekTimes = {5}
    Horizon = 20
SPECIFICATION Spec
INVARIANTS
    Accounted
    NoteOrder
    FullCombo
    Isolation
    EndsInTime
