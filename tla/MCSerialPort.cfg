\* Two descriptors, of which a stranger may take one; frames of two bytes in a buffer that holds one.
SPECIFICATION FairSpec
CONSTANTS
  Descriptors = {f1, f2}
  None = None
  MaxFrame = 2
  MaxWire = 3
  Room = 1
INVARIANTS
  OwnsDescriptor
  NoDescriptorLeaks
PROPERTIES
  StrangersAreLeftAlone
  NextFrameArrives
  ShutdownEnds
  Reconnects
  LineIsRead
CHECK_DEADLOCK FALSE
