----------------------------- MODULE HlsStream -----------------------------
(***************************************************************************)
(* What a live HLS stream promises its players, whoever cuts it: fragments *)
(* are numbered without gaps, a playlist names a run of the newest ones    *)
(* and only moves forward, and a fragment is withdrawn only after the      *)
(* playlist has left it behind.                                            *)
(*                                                                         *)
(* Fragments oldest .. next-1 can be fetched; the playlist published last  *)
(* lists from .. to-1 of them.                                             *)
(***************************************************************************)
EXTENDS Naturals

CONSTANTS Length, Least   \* a playlist lists at most Length, at least Least

VARIABLES oldest, next, from, to

vars == <<oldest, next, from, to>>

Init == oldest = 0 /\ next = 0 /\ from = 0 /\ to = 0

(* A fragment is complete and can be fetched.                              *)
Seal ==
  /\ next' = next + 1
  /\ UNCHANGED <<oldest, from, to>>

(* The playlist of the newest fragments replaces the last one.             *)
Publish ==
  /\ to' = next
  /\ from' \in from..next
  /\ next - from' \in Least..Length
  /\ UNCHANGED <<oldest, next>>

(* Fragments that are no longer listed are withdrawn.                      *)
Withdraw ==
  /\ oldest' \in oldest..from
  /\ UNCHANGED <<next, from, to>>

Next == Seal \/ Publish \/ Withdraw

Spec == Init /\ [][Next]_vars

=============================================================================
