-------------------------- MODULE MCMainboardBridge -------------------------
(* Small instances of MainboardBridge for TLC, with the bytes of its line   *)
(* and samples for the codec.                                               *)
EXTENDS BridgeLine

CONSTANTS
  SampleLength,   \* bound: bytes of an input that is encoded and decoded
  SampleBytes     \* bound: values of these bytes

MCSamples == UNION {[1..n -> SampleBytes] : n \in 0..SampleLength}
=============================================================================
