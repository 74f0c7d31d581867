--------------------------- MODULE MCFeedbackLoop ---------------------------
(***************************************************************************)
(* The instance of FeedbackLoop that TLC checks: four packets across the   *)
(* wrap of eight sequence numbers, one of them or of the messages          *)
(* duplicated, while the receiver's reference time changes its sign.       *)
(* Bytes of three bits make runs of two, vectors of four or two symbols    *)
(* and deltas that are large from 8 on; a pause of 40 once is more than a  *)
(* delta can say, which is 31.                                             *)
(***************************************************************************)
EXTENDS FeedbackLoop

MCPackets == 5..8
MCGaps == {4, 40}
=============================================================================
