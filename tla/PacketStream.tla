---------------------------- MODULE PacketStream ----------------------------
(***************************************************************************)
(* What a media session promises the player behind it, whatever the        *)
(* transport does to its bytes: of the first source that sends video the   *)
(* player gets every packet, once and in the order sent, and of no other.  *)
(***************************************************************************)
EXTENDS Integers, Sequences

CONSTANTS Ssrcs,   \* sources of video
          Other    \* the kind of every packet that is not video

VARIABLES kinds,   \* the kind of each packet sent
          last     \* the packet the player got last, 0 if none

vars == <<kinds, last>>

(* Packet n is of the source that sent video first.                        *)
OfStream(n) ==
  \E m \in 1..n :
    /\ kinds[m] \in Ssrcs
    /\ kinds[m] = kinds[n]
    /\ \A k \in 1..(m - 1) : kinds[k] \notin Ssrcs

Init == kinds = <<>> /\ last = 0

Send ==
  /\ \E k \in Ssrcs \cup {Other} : kinds' = Append(kinds, k)
  /\ UNCHANGED last

(* The next packet of the stream, none left out.                           *)
Deliver ==
  /\ last' \in (last + 1)..Len(kinds)
  /\ OfStream(last')
  /\ \A n \in (last + 1)..(last' - 1) : ~OfStream(n)
  /\ UNCHANGED kinds

Next == Send \/ Deliver

Spec == Init /\ [][Next]_vars

=============================================================================
