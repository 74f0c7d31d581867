SPECIFICATION Spec
CONSTANTS
  Tracks <- MCTracks
  MaxFrames = 3
  MaxStale = 1
CHECK_DEADLOCK FALSE
INVARIANTS
  PacketsAreSignalled
  PlayIsLast
PROPERTIES
  DialogueReachesPlay
