SPECIFICATION Spec
CONSTANTS
  Ssrcs <- MCSsrcs
  MaxLeadingSize = 4
  PausedProcessInterval = 4
  MaxDebtInTime = 4
  MaxElapsedTime = 8
  QueueTimeLimit = 3
  PaddingTarget = 1
  HoldBackWindow = 1
  StatsInterval = 2
  MinStatsInterval = 1
  InitialRate = 2
  SeqSpan = 8
  NumberToStore = 2
  MaxCapacity = 4
  MinPacketDuration = 3
  MinPacketDurationRtt = 1
  PacketCullingDelayFactor = 2
  SizeOf <- MCSizeOf
  FirstSeq = 6
  FrameSizes = {1, 2}
  Rates <- MCRates
  Rtts = {2}
  Nacks <- MCNacks
  MaxTime = 5
  MaxCalls = 3
  Lateness = 1
CHECK_DEADLOCK FALSE
INVARIANTS
  TypeOK
  OneCopyWhileMarked
  WakeupIsInTime
PROPERTIES
  ResendsAreSpaced
  ImplementsQueue
