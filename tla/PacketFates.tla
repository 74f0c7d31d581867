---------------------------- MODULE PacketFates -----------------------------
(***************************************************************************)
(* What congestion control is owed by its feedback: packets are sent, some *)
(* arrive, and reports say of some that they were received, of some that   *)
(* they were not.  A report of a reception is true, is made of a packet at *)
(* most once, and is the last word about it.  A report of a loss may be    *)
(* made before the packet arrives, and again.                              *)
(***************************************************************************)
EXTENDS Naturals

CONSTANT Packets

VARIABLES
  sent, arrived,
  acked,   \* how often each packet was reported as received
  lost     \* the packets last reported as lost

Init == sent = {} /\ arrived = {} /\ acked = [p \in Packets |-> 0] /\ lost = {}

Send == \E p \in Packets \ sent : sent' = sent \cup {p} /\ UNCHANGED <<arrived, acked, lost>>

Arrive == \E p \in sent : arrived' = arrived \cup {p} /\ UNCHANGED <<sent, acked, lost>>

(* What a report says is seen from what it changes.                        *)
Report ==
  LET received == {p \in Packets : acked'[p] # acked[p]}
      missing == lost' \ lost
  IN  /\ received \subseteq arrived /\ missing \subseteq sent
      /\ \A p \in received \cup missing : acked[p] = 0
      /\ acked' = [p \in Packets |-> IF p \in received THEN 1 ELSE acked[p]]
      /\ lost' = (lost \cup missing) \ received
      /\ UNCHANGED <<sent, arrived>>

Next == Send \/ Arrive \/ Report

Spec == Init /\ [][Next]_<<sent, arrived, acked, lost>>
=============================================================================
