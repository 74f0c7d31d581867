-------------------------- MODULE MessageChannels ---------------------------
(***************************************************************************)
(* What the data channels of one association promise their two             *)
(* applications, whatever the stack does in between: on each stream the    *)
(* server is handed every message, whole, once and in the order sent, and  *)
(* an identifier is only given up for use by another channel when all that *)
(* was sent on it has been handed over.                                    *)
(***************************************************************************)
EXTENDS Naturals, Sequences

CONSTANTS Sids, Messages

VARIABLES open,       \* identifiers in use
          sent,       \* messages accepted on each stream
          delivered   \* messages handed over

vars == <<open, sent, delivered>>

Init ==
  /\ open = {}
  /\ sent = [s \in Sids |-> <<>>]
  /\ delivered = [s \in Sids |-> <<>>]

Open(s) ==
  /\ s \notin open
  /\ open' = open \cup {s}
  /\ UNCHANGED <<sent, delivered>>

Send(s, m) ==
  /\ s \in open
  /\ sent' = [sent EXCEPT ![s] = Append(@, m)]
  /\ UNCHANGED <<open, delivered>>

Deliver(s) ==
  /\ Len(delivered[s]) < Len(sent[s])
  /\ delivered' = [delivered EXCEPT ![s] = Append(@, sent[s][Len(@) + 1])]
  /\ UNCHANGED <<open, sent>>

Close(closed) ==
  /\ closed \subseteq open
  /\ \A s \in closed : delivered[s] = sent[s]
  /\ open' = open \ closed
  /\ UNCHANGED <<sent, delivered>>

Next ==
  \/ \E s \in Sids : Open(s) \/ Deliver(s) \/ \E m \in Messages : Send(s, m)
  \/ \E closed \in SUBSET Sids : Close(closed)

Spec == Init /\ [][Next]_vars
=============================================================================
