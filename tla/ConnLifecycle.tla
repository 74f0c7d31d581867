---------------------------- MODULE ConnLifecycle ----------------------------
(***************************************************************************)
(* What the TCP layer promises the protocol layers above it (HTTP, FLV,    *)
(* GB28181): a connection is announced once, its bytes are handed over     *)
(* only between the announcement and the farewell, never more of them than *)
(* the peer wrote, and the farewell comes once, while the object is still  *)
(* usable.  TcpServer.tla implements this module.                          *)
(***************************************************************************)
EXTENDS Naturals

CONSTANT Conns

VARIABLES
  stage,      \* what the application knows of each connection
  arrived,    \* bytes the peer has written so far
  delivered   \* bytes handed to the application so far

lifecycleVars == <<stage, arrived, delivered>>

Stages == {"absent", "announced", "retired"}

Init ==
  /\ stage     = [c \in Conns |-> "absent"]
  /\ arrived   = [c \in Conns |-> 0]
  /\ delivered = [c \in Conns |-> 0]

Announce(c) ==
  /\ stage[c] = "absent"
  /\ stage' = [stage EXCEPT ![c] = "announced"]
  /\ UNCHANGED <<arrived, delivered>>

Write(c) ==
  /\ stage[c] # "absent"
  /\ arrived' = [arrived EXCEPT ![c] = @ + 1]
  /\ UNCHANGED <<stage, delivered>>

Deliver(c) ==
  /\ stage[c] = "announced"
  /\ delivered' = [delivered EXCEPT ![c] = arrived[c]]
  /\ UNCHANGED <<stage, arrived>>

Retire(c) ==
  /\ stage[c] = "announced"
  /\ stage' = [stage EXCEPT ![c] = "retired"]
  /\ UNCHANGED <<arrived, delivered>>

Next == \E c \in Conns : Announce(c) \/ Write(c) \/ Deliver(c) \/ Retire(c)

Spec == Init /\ [][Next]_lifecycleVars

=============================================================================
