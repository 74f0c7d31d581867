-------------------------- MODULE SctpAssociation ---------------------------
(***************************************************************************)
(* librtc/sctp_association.cpp: the server end of the data channels.       *)
(*                                                                         *)
(* usrsctp's callbacks run at once when usrsctp is entered on the worker   *)
(* thread, as it is for every packet, and are posted to it otherwise: only *)
(* the timer thread's news that the association is lost is.                *)
(*                                                                         *)
(* isDataChannel is TRUE (what librtc makes it for): both kinds of close   *)
(* reset the outgoing stream.  Left out: PPIDs, the reliability            *)
(* parameters, an association that restarts or is shut down gracefully     *)
(* (the client does neither), control chunks, notifications that are only logged, and the  *)
(* options the constructor sets.                                           *)
(***************************************************************************)
EXTENDS SctpStack

CONSTANTS
  MaxMessage,       \* maxSctpMessageSize, in fragments
  MessageSizes,     \* fragments of the messages the application sends
  InitialOs,        \* outgoing streams asked for at construction
  NegotiatedOs,     \* outgoing streams the handshake grants
  AddedOs,          \* streams added at a time (32)
  MaxSctpStreams    \* 65535

ASSUME AssociationAssumption ==
  /\ MaxMessage \in Nat \ {0} /\ MessageSizes \subseteq Nat \ {0}
  /\ InitialOs \in Nat /\ NegotiatedOs \in 0..InitialOs
  /\ AddedOs \in Nat \ {0} /\ MaxSctpStreams \in Nat /\ InitialOs <= MaxSctpStreams

VARIABLES
  state,            \* SctpState; or "destroyed"
  os,
  desiredOs,
  messageBuffer,    \* chunks of a message without its end
  lastSsnReceived,
  worker_tasks,     \* notifications posted to the worker thread
  delivered,        \* chunks of each message given to the listener, by stream
  unanswered        \* streams the peer reset and usrsctp did not take our reset of

serverVars == <<state, os, desiredOs, messageBuffer, lastSsnReceived, worker_tasks,
                delivered, unanswered>>

States == {"NEW", "CONNECTING", "CONNECTED", "FAILED", "CLOSED", "destroyed"}

ServerTypeOK ==
  /\ state \in States
  /\ os \in 0..MaxSctpStreams /\ desiredOs \in 0..MaxSctpStreams
  /\ messageBuffer \in Seq(DataChunks)
  /\ lastSsnReceived \in Nat
  /\ worker_tasks \in Seq({"CLOSED", "FAILED"})
  /\ delivered \in [Sids -> Seq(Seq(DataChunks))]
  /\ unanswered \subseteq Sids

ServerInit ==
  /\ state = "NEW" /\ os = InitialOs /\ desiredOs = 0
  /\ messageBuffer = <<>> /\ lastSsnReceived = 0
  /\ worker_tasks = <<>>
  /\ delivered = [s \in Sids |-> <<>>]
  /\ unanswered = {}

-----------------------------------------------------------------------------
Exists == state # "destroyed"

(* usrsctp_connect and the path's parameters; when the latter fail the     *)
(* state is FAILED with the handshake under way all the same.              *)
TransportConnected ==
  /\ state = "NEW"
  /\ \/ state' = "CONNECTING" /\ sock' = sock \cup {"server"} /\ UNCHANGED <<faults, replies>>
     \/ Fault /\ state' = "FAILED" /\ sock' \in {sock, sock \cup {"server"}}
  /\ UNCHANGED <<os, desiredOs, messageBuffer, lastSsnReceived, worker_tasks, delivered,
                 unanswered, assoc, wire, outstanding, ssn, denied>>

(* AddOutgoingStreams, given os and the queue as the handler leaves them.  *)
(* When it is called before the association is connected it only notes     *)
(* what is wanted.                                                         *)
AddOutgoingStreams(force, has, queue) ==
  LET additionalOs == IF MaxSctpStreams - has >= AddedOs THEN AddedOs
                                                         ELSE MaxSctpStreams - has
      request == [t |-> "add", n |-> additionalOs]
      wanted == additionalOs # 0 /\ (force \/ has + additionalOs # desiredOs)
  IN  /\ desiredOs' = IF wanted THEN has + additionalOs ELSE desiredOs
      /\ IF wanted /\ state = "CONNECTED" /\ MayRequest("server")
         THEN /\ outstanding' = [outstanding EXCEPT !["server"] = request]
              /\ wire' = [wire EXCEPT !["server"] = Append(queue, request)]
         ELSE /\ wire' = [wire EXCEPT !["server"] = queue]
              /\ UNCHANGED outstanding

HandleDataConsumer(s) ==
  /\ Exists /\ Reply /\ s >= os
  /\ AddOutgoingStreams(FALSE, os, wire["server"])
  /\ UNCHANGED <<state, os, messageBuffer, lastSsnReceived, worker_tasks, delivered,
                 unanswered, sock, assoc, ssn, denied>>

(* ResetSctpStream(OUTGOING) of the streams sids one after the other, the  *)
(* lowest first: usrsctp takes the first and refuses the others.  A stream *)
(* that is not ours is skipped.  What was refused or skipped is not tried  *)
(* again.                                                                  *)
Takes(sids) == {s \in sids : s < os /\ MayRequest("server")
                               /\ \A r \in sids : r < os => s <= r}

ResetSctpStreams(sids, base) ==
  LET taken == Takes(sids)
      request == [t |-> "reset", sids |-> taken]
  IN  IF taken # {}
      THEN /\ wire' = [base EXCEPT !["server"] = Append(@, request)]
           /\ outstanding' = [outstanding EXCEPT !["server"] = request]
      ELSE wire' = base /\ UNCHANGED outstanding

(* DataProducerClosed and DataConsumerClosed, of a stream usrsctp is asked *)
(* to reset; of another stream they change nothing.                        *)
DataChannelClosed(s) ==
  /\ Exists /\ Takes({s}) # {} /\ Reply
  /\ ResetSctpStreams({s}, wire)
  /\ UNCHANGED <<state, os, desiredOs, messageBuffer, lastSsnReceived, worker_tasks,
                 delivered, unanswered, sock, assoc, ssn, denied>>

(* SendSctpMessage: usrsctp takes the whole message or none of it.  A      *)
(* message it does not take is lost with a warning, which changes nothing. *)
SendSctpMessage(s, n) ==
  /\ Exists /\ n <= MaxMessage
  /\ "server" \in sock /\ assoc["server"] = "up" /\ s < os
  /\ n <= Room("server", wire["server"])
  /\ Reply
  /\ LET m == [sid |-> s, ssn |-> 0, id |-> replies + 1, n |-> n]
     IN  wire' = [wire EXCEPT !["server"] = @ \o Fragments(m, 1, n)]
  /\ UNCHANGED <<state, os, desiredOs, messageBuffer, lastSsnReceived, worker_tasks,
                 delivered, unanswered, sock, assoc, outstanding, ssn, denied>>

-----------------------------------------------------------------------------
(* OnUsrSctpReceiveSctpData that keeps the buffer of a delivered message.  *)
OnDataUncleared(c) ==
  /\ lastSsnReceived' = c.ssn
  /\ messageBuffer' = Append(messageBuffer, c)
  /\ delivered' = IF c.eor THEN [delivered EXCEPT ![c.sid] = Append(@, messageBuffer')]
                  ELSE delivered

(* OnUsrSctpReceiveSctpData of chunk c.                                    *)
OnData(c) ==
  LET kept == IF messageBuffer # <<>> /\ c.ssn # lastSsnReceived
              THEN <<>> ELSE messageBuffer
  IN  IF Len(kept) + 1 > MaxMessage
      THEN /\ lastSsnReceived' = 0 /\ messageBuffer' = kept
           /\ UNCHANGED delivered
      ELSE /\ lastSsnReceived' = c.ssn
           /\ IF c.eor
              THEN /\ delivered' = [delivered EXCEPT ![c.sid] = Append(@, Append(kept, c))]
                   /\ messageBuffer' = <<>>
              ELSE /\ messageBuffer' = Append(kept, c)
                   /\ UNCHANGED delivered

(* ProcessSctpData: usrsctp_conninput, and the callbacks it makes here and *)
(* now.                                                                    *)
ReceiveData(c, rest) ==
  /\ c.t = "data"
  /\ OnData(c)
  /\ wire' = [rest EXCEPT !["server"] = Append(@, Sack)]
  /\ UNCHANGED <<state, os, outstanding, unanswered, assoc>>

(* SCTP_STREAM_RESET_EVENT: an incoming reset is answered, and our own     *)
(* stream is reset in turn; usrsctp may also deny the peer's request.      *)
ReceiveReset(c, rest) ==
  /\ c.t = "reset"
  /\ ResetSctpStreams(c.sids, [rest EXCEPT !["server"] = Append(@, Response(TRUE))])
  /\ unanswered' = unanswered \cup (c.sids \ Takes(c.sids))
  /\ UNCHANGED <<state, os, messageBuffer, lastSsnReceived, delivered, assoc>>

ReceiveResponse(c, rest) ==
  /\ c.t = "response"
  /\ os' = IF outstanding["server"].t = "add" THEN os + outstanding["server"].n ELSE os
  /\ outstanding' = [outstanding EXCEPT !["server"] = NoRequest]
  /\ wire' = rest
  /\ UNCHANGED <<state, messageBuffer, lastSsnReceived, delivered, unanswered, assoc>>

ReceiveAbort(c, rest) ==
  /\ c.t = "abort"
  /\ state' = "CLOSED"
  /\ assoc' = [assoc EXCEPT !["server"] = "lost"]
  /\ wire' = rest
  /\ UNCHANGED <<os, messageBuffer, lastSsnReceived, delivered, outstanding, unanswered>>

ProcessSctpData ==
  /\ Exists /\ Receives("server")
  /\ LET c == Arriving("server")
         rest == [wire EXCEPT !["client"] = Tail(@)]
     IN  \/ ReceiveData(c, rest) \/ ReceiveReset(c, rest)
         \/ ReceiveResponse(c, rest) \/ ReceiveAbort(c, rest)
  /\ UNCHANGED <<desiredOs, worker_tasks, sock, ssn, denied, faults, replies>>

(* The client's request is denied: the failure the client's handler of     *)
(* SCTP_STREAM_RESET_FAILED is for.                                        *)
DenyReset ==
  /\ Exists /\ Receives("server") /\ Arriving("server").t = "reset"
  /\ Fault
  /\ wire' = [client |-> Tail(wire["client"]),
              server |-> Append(wire["server"], Response(FALSE))]
  /\ denied' = TRUE
  /\ UNCHANGED <<serverVars, sock, assoc, outstanding, ssn>>

(* SCTP_COMM_UP: the negotiated number of streams, then the increase asked *)
(* for before, then the new state.                                         *)
ServerUp ==
  /\ Exists /\ StackUp("server")
  /\ os' = NegotiatedOs
  /\ IF desiredOs > NegotiatedOs
     THEN AddOutgoingStreams(TRUE, NegotiatedOs, wire["server"])
     ELSE UNCHANGED <<desiredOs, wire, outstanding>>
  /\ state' = "CONNECTED"
  /\ UNCHANGED <<messageBuffer, lastSsnReceived, worker_tasks, delivered, unanswered,
                 sock, ssn, denied, faults, replies>>

(* SCTP_COMM_LOST and SCTP_CANT_STR_ASSOC, from the timer thread: posted,  *)
(* then handled.                                                           *)
ServerLost ==
  /\ Exists /\ StackLost("server")
  /\ worker_tasks' = Append(worker_tasks,
                            IF assoc["server"] = "up" THEN "CLOSED" ELSE "FAILED")
  /\ UNCHANGED <<state, os, desiredOs, messageBuffer, lastSsnReceived, delivered,
                 unanswered, sock, wire, outstanding, ssn, denied>>

OnServerCommLost ==
  /\ Exists /\ worker_tasks # <<>>
  /\ worker_tasks' = Tail(worker_tasks)
  /\ state' = Head(worker_tasks)
  /\ UNCHANGED <<os, desiredOs, messageBuffer, lastSsnReceived, delivered, unanswered,
                 stackVars>>

DestroyAssociation ==
  /\ Exists /\ Fault
  /\ state' = "destroyed" /\ worker_tasks' = <<>>
  /\ StackClose("server")
  /\ UNCHANGED <<os, desiredOs, messageBuffer, lastSsnReceived, delivered, unanswered,
                 outstanding, ssn, denied>>

ServerNext ==
  \/ TransportConnected \/ ServerUp \/ ServerLost \/ OnServerCommLost
  \/ \E s \in Sids : HandleDataConsumer(s) \/ DataChannelClosed(s)
  \/ \E s \in Sids, n \in MessageSizes : SendSctpMessage(s, n)
  \/ ProcessSctpData \/ DenyReset \/ DestroyAssociation
=============================================================================
