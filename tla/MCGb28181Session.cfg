CONSTANTS
  Ssrcs = {s1, s2}
  Other = Other
  Sizes = {0, 1, 3}
  Half = 3
  None = None
  MaxFrames = 3
SPECIFICATION FairSpec
CHECK_DEADLOCK FALSE
INVARIANTS
  ParserIsAligned
PROPERTIES
  ImplementsStream
  FrameIsDelivered
