SPECIFICATION Spec
CONSTANTS
  c1 = c1
  c2 = c2
  Certs <- MCCerts
  NoCert = NoCert
  MaxRetries = 2
  MaxRuns = 2
  MaxInput = 3
INVARIANTS
  KeysAreOfThisHandshake
  NoHandshakeLeftUnprocessed
  RetransmissionStaysArmed
PROPERTIES
  OutcomesFollowTheirHandshake
  LostFlightIsRetransmitted
CHECK_DEADLOCK FALSE
