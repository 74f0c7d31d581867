CONSTANTS
  MaxMessages = 1
  MaxAgain = 0
  None = None
SPECIFICATION Spec
PROPERTIES
  SegmentIsParsed
CHECK_DEADLOCK FALSE
