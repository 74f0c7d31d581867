SPECIFICATION Spec
CONSTANTS
  Sids <- MCSids
  SendSpace <- MCSendSpace
  MaxFaults = 1
  MaxReplies = 3
  MaxCalls = 4
  MessageSizes <- MCMessageSizes
  MaxFragments = 2
  MaxSends = 1
  MaxOpens = 2
  MaxMessage = 3
  ReceiveLimit = 2
  InitialOs = 2
  NegotiatedOs = 1
  AddedOs = 1
  MaxSctpStreams = 2
CHECK_DEADLOCK FALSE
INVARIANT
  InitiatedWasRequested
