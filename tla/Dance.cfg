SPECIFICATION Spec
CONSTANTS
  MergeGap = 2
  SpinnerGap = 2
  TailLead = 2
  Maps <- MCMaps
  Configs <- MCConfigs
  Hold = 5
  SingleTap = 9
  HitWindow = 3
  SeekTimes <- MCSeekTimes
INVARIANTS Untangled Timely EveryNoteTapped HeldThrough
