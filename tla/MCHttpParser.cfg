CONSTANTS
  MaxMessages = 3
  MaxAgain = 1
  None = None
SPECIFICATION Spec
INVARIANTS
  TypeOK
  
  
PROPERTIES
  SegmentIsParsedUnlessCut
CHECK_DEADLOCK FALSE
