----------------------------- MODULE SctpStack ------------------------------
(***************************************************************************)
(* External: usrsctp and the DTLS transport below it, modelled from how    *)
(* sctp/usrsctp_transport.cpp (the "client") and librtc/                   *)
(* sctp_association.cpp (the "server") use them.  One association: each    *)
(* end's chunks reach the other in order and none is lost (usrsctp         *)
(* retransmits), but any of them may take any time, and an end may be gone *)
(* when they arrive.                                                       *)
(*                                                                         *)
(* A message is a number of fragments; the stack takes as many as its send *)
(* buffer has room for.  Streams are reset, and added, by requests that    *)
(* the other end answers; usrsctp allows one request at a time, as the     *)
(* comment in SendQueuedStreamResets says.                                 *)
(***************************************************************************)
EXTENDS Naturals, Sequences, FiniteSets

CONSTANTS
  Sids,        \* stream identifiers in use, from 0
  SendSpace,   \* send buffer of each end, in fragments
  MaxFaults,   \* bound on failures (of a connect, of a request, of the association,
               \* of an end)
  MaxReplies   \* bound on calls of the server's application

ASSUME StackAssumption == /\ Sids \subseteq Nat
                          /\ SendSpace \in [{"client", "server"} -> Nat \ {0}]
                          /\ MaxFaults \in Nat /\ MaxReplies \in Nat

VARIABLES
  sock,         \* the ends that have called usrsctp_connect
  assoc,        \* the association as each end's stack sees it
  wire,         \* chunks on their way from each end to the other
  outstanding,  \* the request an end waits to have answered
  ssn,          \* the client's next stream sequence number of each stream
  denied,       \* the server's stack has denied a request
  faults,       \* failures so far
  replies       \* calls of the server's application so far

stackVars == <<sock, assoc, wire, outstanding, ssn, denied, faults, replies>>

Ends == {"client", "server"}
Peer(e) == IF e = "client" THEN "server" ELSE "client"

DataChunks == [t : {"data"}, sid : Sids, ssn : Nat, id : Nat, i : Nat, eor : BOOLEAN]
Resets == [t : {"reset"}, sids : SUBSET Sids]
Adds == [t : {"add"}, n : Nat]
Requests == Resets \cup Adds
Sack == [t |-> "sack"]
Response(ok) == [t |-> "response", ok |-> ok]
Abort == [t |-> "abort"]
NoRequest == [t |-> "none"]
Chunks == DataChunks \cup Requests \cup {Sack, Abort}
            \cup [t : {"response"}, ok : BOOLEAN]

StackTypeOK ==
  /\ sock \subseteq Ends
  /\ assoc \in [Ends -> {"closed", "up", "lost"}]
  /\ wire \in [Ends -> Seq(Chunks)]
  /\ outstanding \in [Ends -> Requests \cup {NoRequest}]
  /\ ssn \in [Sids -> Nat]
  /\ denied \in BOOLEAN
  /\ faults \in 0..MaxFaults /\ replies \in 0..MaxReplies

StackInit ==
  /\ sock = {}
  /\ assoc = [e \in Ends |-> "closed"]
  /\ wire = [e \in Ends |-> <<>>]
  /\ outstanding = [e \in Ends |-> NoRequest]
  /\ ssn = [s \in Sids |-> 0]
  /\ denied = FALSE
  /\ faults = 0 /\ replies = 0

(* One failure more; one call more.                                        *)
Fault == faults < MaxFaults /\ faults' = faults + 1 /\ UNCHANGED replies
Reply == replies < MaxReplies /\ replies' = replies + 1 /\ UNCHANGED faults

(* Chunks of type t in the queue q.                                        *)
Count(q, t) == Cardinality({k \in DOMAIN q : q[k].t = t})

(* Room in e's send buffer when its queue is q: what is on the wire counts *)
(* and, for the client, what is acknowledged by a SACK still to arrive.    *)
Unacked(e, q) == Count(q, "data") + Count(wire[Peer(e)], "sack")
Room(e, q) == SendSpace[e] - Unacked(e, q)

(* The fragments from..to of message m, of m.n fragments.                  *)
Fragments(m, from, to) ==
  [k \in 1..((to + 1) - from) |->
     [t |-> "data", sid |-> m.sid, ssn |-> m.ssn, id |-> m.id,
      i |-> (from + k) - 1, eor |-> (from + k) - 1 = m.n]]

(* The streams e has asked the other end to reset.                         *)
Requested(e) == IF outstanding[e].t = "reset" THEN outstanding[e].sids ELSE {}

(* May e ask its stack for a reset or for streams?                         *)
MayRequest(e) == assoc[e] = "up" /\ outstanding[e] = NoRequest

(* The handshake ends for e: both ends have called connect, so that no     *)
(* packet of it is dropped any more.                                       *)
StackUp(e) ==
  /\ sock = Ends /\ assoc[e] = "closed" /\ assoc[Peer(e)] # "lost"
  /\ assoc' = [assoc EXCEPT ![e] = "up"]

(* The retransmissions of e, of the handshake or later, run out: usrsctp   *)
(* tells on its timer thread.                                              *)
StackLost(e) ==
  /\ Fault /\ e \in sock /\ assoc[e] # "lost"
  /\ assoc' = [assoc EXCEPT ![e] = "lost"]

(* usrsctp_close with SO_LINGER: what is queued is dropped and the other   *)
(* end is sent an ABORT.                                                   *)
StackClose(e) ==
  /\ sock' = sock \ {e}
  /\ assoc' = [assoc EXCEPT ![e] = "lost"]
  /\ wire' = [wire EXCEPT ![e] = IF assoc[e] = "up" THEN <<Abort>> ELSE <<>>]

(* Does e's stack take chunks from the wire?                               *)
Receives(e) == wire[Peer(e)] # <<>> /\ assoc[e] = "up"
Arriving(e) == Head(wire[Peer(e)])
=============================================================================
