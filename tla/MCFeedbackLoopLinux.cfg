SPECIFICATION Spec
CONSTANTS
  ByteBits = 3
  LinuxLayout = TRUE
  SeqSpace = 8
  LoopDelta = 5
  MaxSeqSize = 2
  MaxTimeDelta = 12
  HistoryWindow = 12
  Packets <- MCPackets
  Gaps <- MCGaps
  Start = 2036
  End = 2092
  Skew = 5000
  MaxDuplicates = 1
  MaxTasks = 2
CHECK_DEADLOCK FALSE
INVARIANTS
  FeedbackIsUnderstood
