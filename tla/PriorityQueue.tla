--------------------------- MODULE PriorityQueue ---------------------------
(***************************************************************************)
(* What the pacer's queue promises to whoever sends through it: a packet   *)
(* leaves only when none of a higher priority waits, and behind those of   *)
(* its stream and priority that came before it.  How the streams of one    *)
(* priority take turns is left open.                                       *)
(***************************************************************************)
EXTENDS Naturals

VARIABLE queued   \* the packets in the queue, with priority, ssrc and order of arrival

Before(p, q) == \/ p.priority < q.priority
                \/ p.priority = q.priority /\ p.ssrc = q.ssrc /\ p.order < q.order

Push == /\ queued \subseteq queued'
        /\ \A new \in queued' \ queued : \A old \in queued : old.order < new.order

Pop == \E p \in queued : /\ \A q \in queued : ~Before(q, p)
                         /\ queued' = queued \ {p}

Spec == queued = {} /\ [][Push \/ Pop]_queued
=============================================================================
