CONSTANTS
  Second = 12
  MinUpdates = 6
  Durations <- MCDurations
  OutputRates = {1, 2, 3, 5}
  SampleRates = {5, 8, 11, 20}
  MaxRate = 20
  Blurs <- MCBlurs
SPECIFICATION Spec
INVARIANT StreamsMatch
PROPERTIES CenteredShutter RenderedInSync
