CONSTANTS
  Readers = {r1}
  WindowSize = 5
  PlaylistLength = 5
  PlaylistLeast = 3
  MinSize = 1
  MaxSize = 2
  None = None
  MaxFragments = 9
  MaxClock = 2
SPECIFICATION Spec
CHECK_DEADLOCK FALSE
INVARIANTS
  OneOwner
  PlaylistIsServable
PROPERTIES
  SealedFragmentsStay
  ImplementsStream
