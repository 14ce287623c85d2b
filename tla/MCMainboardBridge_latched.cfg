SPECIFICATION Spec
CONSTANTS
  MaxInFlight = 1
  BlockLimit = 4
  SampleLength = 0
  SampleBytes = {0}
  Samples <- MCSamples
INVARIANT HeartbeatKeepsRequest
