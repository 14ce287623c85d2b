\* Two packets in flight in each direction; samples of up to seven bytes, each a zero, a byte
\* that could be the code of a block or one that could not, in blocks of three bytes at most.
SPECIFICATION FairSpec
CONSTANTS
  MaxInFlight = 2
  BlockLimit = 4
  SampleLength = 7
  SampleBytes = {0, 4, 200}
  Samples <- MCSamples
INVARIANTS
  FramesComeBack
  DamageIsNoticed
PROPERTIES
  EmergencyTakesHold
  ReleaseTakesHold
  ReleaseIsForgotten
