-------------------------- MODULE UsrsctpTransport --------------------------
(***************************************************************************)
(* sctp/usrsctp_transport.cpp: the client end of the data channels.        *)
(*                                                                         *)
(* Every method runs on the network thread.  usrsctp's callbacks come from *)
(* any thread and post a task to it (PostToTransportThread), so between    *)
(* what the stack does and what the transport learns the application may   *)
(* call it: tasks holds what is posted.  A data channel is closed by       *)
(* resetting both directions of its stream, each end its outgoing one.     *)
(*                                                                         *)
(* The flags of StreamStatus are sets of streams.  Left out: ports, sizes  *)
(* in bytes (a message is at most MaxFragments), PPIDs (every message is   *)
(* of data), partial reliability, the outbound packet tasks (the stack     *)
(* retransmits a packet that an unwritable transport drops), the global    *)
(* reference count of usrsctp.                                             *)
(***************************************************************************)
EXTENDS SctpStack

CONSTANTS
  MaxFragments,  \* fragments of the longest message
  ReceiveLimit,  \* kSctpSendBufferSize, in fragments
  MaxSends,      \* bound on messages of one stream
  MaxOpens       \* bound on calls of OpenStream

ASSUME TransportAssumption == /\ MaxFragments \in Nat \ {0} /\ ReceiveLimit \in Nat \ {0}
                              /\ MaxSends \in Nat /\ MaxOpens \in Nat

VARIABLES
  alive,                      \* the transport is not destroyed
  was_ever_writable_,
  started_,
  ready_to_send_data_,
  streams,                    \* keys of stream_status_by_sid_
  closure_initiated,
  outgoing_reset_initiated,
  outgoing_reset_complete,
  incoming_reset_complete,
  partial_outgoing_message_,  \* message the stack took a part of, and its rest
  partial_incoming_message_,  \* chunks of a message without its end
  tasks,                      \* posted to the network thread
  sent,                       \* messages SendData said were accepted, by stream
  received,                   \* messages handed to the application
  opens                       \* bounded counter

statusVars == <<streams, closure_initiated, outgoing_reset_initiated,
                outgoing_reset_complete, incoming_reset_complete>>
clientVars == <<alive, was_ever_writable_, started_, ready_to_send_data_, statusVars,
                partial_outgoing_message_, partial_incoming_message_, tasks, sent,
                received, opens>>

Messages == [sid : Sids, ssn : Nat, id : Nat, n : 1..MaxFragments]
Partials == [m : Messages, next : 1..MaxFragments]
NoMessage == [next |-> 0]
Task(t) == [t |-> t]
Tasks == DataChunks \cup Resets \cup [t : {"outgoing"}, sids : SUBSET Sids]
           \cup {Task("threshold"), Task("dry"), Task("failed"), Task("commup"),
                    Task("commlost")}

ClientTypeOK ==
  /\ alive \in BOOLEAN /\ was_ever_writable_ \in BOOLEAN /\ started_ \in BOOLEAN
  /\ ready_to_send_data_ \in BOOLEAN
  /\ streams \subseteq Sids
  /\ closure_initiated \subseteq streams
  /\ outgoing_reset_initiated \subseteq streams
  /\ outgoing_reset_complete \subseteq streams
  /\ incoming_reset_complete \subseteq streams
  /\ partial_outgoing_message_ \in Partials \cup {NoMessage}
  /\ partial_incoming_message_ \in Seq(DataChunks)
  /\ tasks \in Seq(Tasks)
  /\ sent \in [Sids -> Seq(Messages)]
  /\ received \in Seq(Seq(DataChunks))
  /\ opens \in 0..MaxOpens

ClientInit ==
  /\ alive = TRUE /\ was_ever_writable_ = FALSE /\ started_ = FALSE
  /\ ready_to_send_data_ = FALSE
  /\ streams = {} /\ closure_initiated = {}
  /\ outgoing_reset_initiated = {} /\ outgoing_reset_complete = {}
  /\ incoming_reset_complete = {}
  /\ partial_outgoing_message_ = NoMessage
  /\ partial_incoming_message_ = <<>>
  /\ tasks = <<>>
  /\ sent = [s \in Sids |-> <<>>]
  /\ received = <<>>
  /\ opens = 0

-----------------------------------------------------------------------------
is_open(s) == s \in streams \ (closure_initiated \cup incoming_reset_complete
                                 \cup outgoing_reset_complete)

(* SendQueuedStreamResets without the look at the partial message.         *)
SendQueuedStreamResetsOfAll(closure, initiated, incoming, partial, queue) ==
  LET need == (incoming \cup closure) \ initiated
      request == [t |-> "reset", sids |-> need]
  IN  IF need # {} /\ MayRequest("client")
      THEN /\ outgoing_reset_initiated' = initiated \cup need
           /\ outstanding' = [outstanding EXCEPT !["client"] = request]
           /\ wire' = [wire EXCEPT !["client"] = Append(queue, request)]
      ELSE /\ outgoing_reset_initiated' = initiated
           /\ wire' = [wire EXCEPT !["client"] = queue]
           /\ UNCHANGED outstanding

(* SendQueuedStreamResets, given the status sets, the partial message and  *)
(* the queue as the handler leaves them.  A stream with a partial message  *)
(* is not asked for, but every stream that needs a reset is marked.        *)
SendQueuedStreamResets(closure, initiated, incoming, partial, queue) ==
  LET need == (incoming \cup closure) \ initiated
      ask == {s \in need : partial # NoMessage => partial.m.sid # s}
      request == [t |-> "reset", sids |-> ask]
  IN  IF ask # {} /\ MayRequest("client")
      THEN /\ outgoing_reset_initiated' = initiated \cup need
           /\ outstanding' = [outstanding EXCEPT !["client"] = request]
           /\ wire' = [wire EXCEPT !["client"] = Append(queue, request)]
      ELSE /\ outgoing_reset_initiated' = initiated
           /\ wire' = [wire EXCEPT !["client"] = queue]
           /\ UNCHANGED outstanding

(* Connect: a socket, bound and connecting; or a failure, after which      *)
(* nothing tries again.                                                    *)
Connect ==
  \/ /\ sock' = sock \cup {"client"}
     /\ ready_to_send_data_' = TRUE
     /\ UNCHANGED <<faults, replies>>
  \/ /\ Fault
     /\ UNCHANGED <<sock, ready_to_send_data_>>

Start ==
  /\ alive /\ ~started_
  /\ started_' = TRUE
  /\ IF was_ever_writable_ THEN Connect ELSE UNCHANGED <<sock, ready_to_send_data_, faults, replies>>
  /\ UNCHANGED <<alive, was_ever_writable_, statusVars, partial_outgoing_message_,
                 partial_incoming_message_, tasks, sent, received, opens, assoc, wire,
                 outstanding, ssn, denied>>

OnWritableState ==
  /\ alive /\ ~was_ever_writable_
  /\ was_ever_writable_' = TRUE
  /\ IF started_ THEN Connect ELSE UNCHANGED <<sock, ready_to_send_data_, faults, replies>>
  /\ UNCHANGED <<alive, started_, statusVars, partial_outgoing_message_,
                 partial_incoming_message_, tasks, sent, received, opens, assoc, wire,
                 outstanding, ssn, denied>>

OpenStream(s) ==
  /\ alive /\ opens < MaxOpens /\ s \notin streams
  /\ streams' = streams \cup {s}
  /\ opens' = opens + 1
  /\ UNCHANGED <<alive, was_ever_writable_, started_, ready_to_send_data_,
                 closure_initiated, outgoing_reset_initiated, outgoing_reset_complete,
                 incoming_reset_complete, partial_outgoing_message_,
                 partial_incoming_message_, tasks, sent, received, stackVars>>

ResetStream(s) ==
  /\ alive /\ is_open(s)
  /\ closure_initiated' = closure_initiated \cup {s}
  /\ SendQueuedStreamResets(closure_initiated \cup {s}, outgoing_reset_initiated,
                            incoming_reset_complete, partial_outgoing_message_,
                            wire["client"])
  /\ UNCHANGED <<alive, was_ever_writable_, started_, ready_to_send_data_, streams,
                 outgoing_reset_complete, incoming_reset_complete,
                 partial_outgoing_message_, partial_incoming_message_, tasks, sent,
                 received, opens, sock, assoc, ssn, denied, faults, replies>>

(* usrsctp_sendv of the rest of message m, from fragment `from` on: what   *)
(* the stack has room for goes out, the rest is the partial message.       *)
Sendv(m, from) ==
  LET room == Room("client", wire["client"])
      to == IF (m.n + 1) - from <= room THEN m.n ELSE (from + room) - 1
  IN  [wire |-> wire["client"] \o Fragments(m, from, to),
       partial |-> IF to = m.n THEN NoMessage ELSE [m |-> m, next |-> to + 1]]

(* The sequence number of a stream counts whole messages.                  *)
Advance(m, partial) ==
  ssn' = IF partial = NoMessage THEN [ssn EXCEPT ![m.sid] = @ + 1] ELSE ssn

CanSend == "client" \in sock /\ assoc["client"] # "lost"

(* SendData on an open stream that the stack takes all or part of.         *)
SendData(s, n) ==
  /\ alive /\ partial_outgoing_message_ = NoMessage /\ is_open(s)
  /\ CanSend /\ Room("client", wire["client"]) > 0
  /\ Len(sent[s]) < MaxSends
  /\ LET m == [sid |-> s, ssn |-> ssn[s], id |-> Len(sent[s]) + 1, n |-> n]
         out == Sendv(m, 1)
     IN  /\ wire' = [wire EXCEPT !["client"] = out.wire]
         /\ partial_outgoing_message_' = out.partial
         /\ Advance(m, out.partial)
         /\ sent' = [sent EXCEPT ![s] = Append(@, m)]
  /\ UNCHANGED <<alive, was_ever_writable_, started_, ready_to_send_data_, statusVars,
                 partial_incoming_message_, tasks, received, opens, sock, assoc,
                 outstanding, denied, faults, replies>>

(* SendData that returns SDR_BLOCK: behind a partial message, or because   *)
(* the stack has no room.                                                  *)
SendDataBlocked(s) ==
  /\ alive
  /\ \/ partial_outgoing_message_ # NoMessage
     \/ is_open(s) /\ CanSend /\ Room("client", wire["client"]) = 0
  /\ ready_to_send_data_' = FALSE
  /\ UNCHANGED <<alive, was_ever_writable_, started_, statusVars,
                 partial_outgoing_message_, partial_incoming_message_, tasks, sent,
                 received, opens, stackVars>>

-----------------------------------------------------------------------------
(* What the stack makes of a chunk from the wire; its callbacks post.      *)
Post(new) == tasks' = tasks \o new

DataRead(c, rest) ==
  /\ c.t = "data"
  /\ Post(<<c>>)
  /\ wire' = rest
  /\ UNCHANGED <<assoc, outstanding, ssn>>

(* A SACK that leaves room calls the threshold callback; the last one also *)
(* tells that the sender is dry.                                           *)
SackRead(c, rest) ==
  /\ c.t = "sack"
  /\ Post(IF Unacked("client", wire["client"]) = 1
          THEN <<Task("dry"), Task("threshold")>> ELSE <<Task("threshold")>>)
  /\ wire' = rest
  /\ UNCHANGED <<assoc, outstanding, ssn>>

RequestRead(c, rest) ==
  /\ c.t \in {"reset", "add"}
  /\ IF c.t = "reset" THEN Post(<<c>>) ELSE UNCHANGED tasks
  /\ wire' = [rest EXCEPT !["client"] = Append(@, Response(TRUE))]
  /\ UNCHANGED <<assoc, outstanding, ssn>>

(* Our reset is done, and the sequence numbers start again; or denied.     *)
ResponseRead(c, rest) ==
  /\ c.t = "response"
  /\ Post(IF c.ok THEN <<[t |-> "outgoing", sids |-> Requested("client")]>>
                  ELSE <<Task("failed")>>)
  /\ ssn' = [s \in Sids |-> IF c.ok /\ s \in Requested("client") THEN 0 ELSE ssn[s]]
  /\ outstanding' = [outstanding EXCEPT !["client"] = NoRequest]
  /\ wire' = rest
  /\ UNCHANGED assoc

AbortRead(c, rest) ==
  /\ c.t = "abort"
  /\ Post(<<Task("commlost")>>)
  /\ assoc' = [assoc EXCEPT !["client"] = "lost"]
  /\ wire' = rest
  /\ UNCHANGED <<outstanding, ssn>>

(* OnPacketRead: usrsctp_conninput, with the callbacks it makes.           *)
OnPacketRead ==
  /\ alive /\ Receives("client")
  /\ LET c == Arriving("client")
         rest == [wire EXCEPT !["server"] = Tail(@)]
     IN  \/ DataRead(c, rest) \/ SackRead(c, rest) \/ RequestRead(c, rest)
         \/ ResponseRead(c, rest) \/ AbortRead(c, rest)
  /\ UNCHANGED <<alive, was_ever_writable_, started_, ready_to_send_data_, statusVars,
                 partial_outgoing_message_, partial_incoming_message_, sent, received,
                 opens, sock, denied, faults, replies>>

(* The handshake ends, or the association is lost, on the client's side.   *)
ClientNotified ==
  /\ alive
  /\ \/ StackUp("client") /\ Post(<<Task("commup")>>) /\ UNCHANGED <<faults, replies>>
     \/ StackLost("client") /\ Post(<<Task("commlost")>>)
  /\ UNCHANGED <<alive, was_ever_writable_, started_, ready_to_send_data_, statusVars,
                 partial_outgoing_message_, partial_incoming_message_, sent, received,
                 opens, sock, wire, outstanding, ssn, denied>>

-----------------------------------------------------------------------------
(* The posted tasks, run in order.                                         *)
Runs(t) == alive /\ tasks # <<>> /\ Head(tasks).t = t /\ tasks' = Tail(tasks)

(* OnSendThresholdCallback that leaves the partial message to SendData.    *)
OnSendThresholdCallbackOnlyReady ==
  /\ Runs("threshold")
  /\ ready_to_send_data_' = TRUE
  /\ UNCHANGED <<alive, was_ever_writable_, started_, statusVars,
                 partial_outgoing_message_, partial_incoming_message_, sent, received,
                 opens, stackVars>>

(* SendBufferedMessage: the rest of the partial message, then resets that  *)
(* waited for it.  Ready only when the whole message is out.               *)
SendBufferedMessage ==
  LET m == partial_outgoing_message_.m
      out == Sendv(m, partial_outgoing_message_.next)
      waited == m.sid \in (closure_initiated \cup incoming_reset_complete)
                           \ outgoing_reset_initiated
      may == CanSend /\ m.sid \in streams
  IN  IF may /\ Room("client", wire["client"]) > 0
      THEN /\ partial_outgoing_message_' = out.partial
           /\ Advance(m, out.partial)
           /\ ready_to_send_data_' = (ready_to_send_data_ \/ out.partial = NoMessage)
           /\ IF out.partial = NoMessage /\ waited
              THEN SendQueuedStreamResets(closure_initiated, outgoing_reset_initiated,
                                          incoming_reset_complete, NoMessage, out.wire)
              ELSE /\ wire' = [wire EXCEPT !["client"] = out.wire]
                   /\ UNCHANGED <<outgoing_reset_initiated, outstanding>>
      ELSE /\ ready_to_send_data_' = (ready_to_send_data_ /\ ~may)
           /\ UNCHANGED <<partial_outgoing_message_, outgoing_reset_initiated, wire,
                          outstanding, ssn>>

OnSendThresholdCallback ==
  /\ Runs("threshold")
  /\ IF partial_outgoing_message_ # NoMessage
     THEN SendBufferedMessage
     ELSE /\ ready_to_send_data_' = TRUE
          /\ UNCHANGED <<partial_outgoing_message_, outgoing_reset_initiated, wire,
                         outstanding, ssn>>
  /\ UNCHANGED <<alive, was_ever_writable_, started_, streams, closure_initiated,
                 outgoing_reset_complete, incoming_reset_complete,
                 partial_incoming_message_, sent, received, opens, sock, assoc, denied,
                 faults, replies>>

(* SCTP_SENDER_DRY_EVENT.                                                  *)
OnSenderDry ==
  /\ Runs("dry")
  /\ ready_to_send_data_' = TRUE
  /\ UNCHANGED <<alive, was_ever_writable_, started_, statusVars,
                 partial_outgoing_message_, partial_incoming_message_, sent, received,
                 opens, stackVars>>

(* SCTP_COMM_UP: resets asked for before the association was up go out.    *)
OnCommUp ==
  /\ Runs("commup")
  /\ SendQueuedStreamResets(closure_initiated, outgoing_reset_initiated,
                            incoming_reset_complete, partial_outgoing_message_,
                            wire["client"])
  /\ UNCHANGED <<alive, was_ever_writable_, started_, ready_to_send_data_, streams,
                 closure_initiated, outgoing_reset_complete, incoming_reset_complete,
                 partial_outgoing_message_, partial_incoming_message_, sent, received,
                 opens, sock, assoc, ssn, denied, faults, replies>>

(* SCTP_COMM_LOST only signals: nothing of the transport changes.          *)
OnCommLost ==
  /\ Runs("commlost")
  /\ UNCHANGED <<alive, was_ever_writable_, started_, ready_to_send_data_, statusVars,
                 partial_outgoing_message_, partial_incoming_message_, sent, received,
                 opens, stackVars>>

(* OnDataOrNotificationFromSctp without the early return for a chunk that  *)
(* does not end its message.                                               *)
OnDataFromSctpAtOnce ==
  /\ Runs("data")
  /\ received' = Append(received, Append(partial_incoming_message_, Head(tasks)))
  /\ partial_incoming_message_' = <<>>
  /\ UNCHANGED <<alive, was_ever_writable_, started_, ready_to_send_data_, statusVars,
                 partial_outgoing_message_, sent, opens, stackVars>>

(* OnDataOrNotificationFromSctp of a data chunk.  What reaches the limit   *)
(* is handed out without the end of its message.                           *)
OnDataFromSctp ==
  /\ Runs("data")
  /\ LET c == Head(tasks)
         kept == IF partial_incoming_message_ # <<>>
                    /\ c.sid # partial_incoming_message_[1].sid
                 THEN <<>> ELSE partial_incoming_message_
     IN  IF c.eor \/ Len(kept) + 1 >= ReceiveLimit
         THEN /\ received' = Append(received, Append(kept, c))
              /\ partial_incoming_message_' = <<>>
         ELSE /\ partial_incoming_message_' = Append(kept, c)
              /\ UNCHANGED received
  /\ UNCHANGED <<alive, was_ever_writable_, started_, ready_to_send_data_, statusVars,
                 partial_outgoing_message_, sent, opens, stackVars>>

(* Slips to guard against: no queued reset is sent; a stream is forgotten  *)
(* when either reset is complete.                                          *)
OnStreamResetWithoutQueued(incoming, outgoing) ==
  LET done == incoming \cap outgoing
  IN  /\ streams' = streams \ done
      /\ closure_initiated' = closure_initiated \ done
      /\ incoming_reset_complete' = incoming \ done
      /\ outgoing_reset_complete' = outgoing \ done
      /\ outgoing_reset_initiated' = outgoing_reset_initiated \ done
      /\ UNCHANGED <<wire, outstanding>>
      /\ UNCHANGED <<alive, was_ever_writable_, started_, ready_to_send_data_,
                     partial_outgoing_message_, partial_incoming_message_, sent,
                     received, opens, sock, assoc, ssn, denied, faults, replies>>

OnStreamResetOfEither(incoming, outgoing) ==
  LET done == incoming \cup outgoing
  IN  /\ streams' = streams \ done
      /\ closure_initiated' = closure_initiated \ done
      /\ incoming_reset_complete' = {}
      /\ outgoing_reset_complete' = {}
      /\ SendQueuedStreamResets(closure_initiated \ done, outgoing_reset_initiated \ done,
                                {}, partial_outgoing_message_, wire["client"])
      /\ UNCHANGED <<alive, was_ever_writable_, started_, ready_to_send_data_,
                     partial_outgoing_message_, partial_incoming_message_, sent,
                     received, opens, sock, assoc, ssn, denied, faults, replies>>

(* OnStreamResetEvent for the streams sids whose incoming, or outgoing,    *)
(* reset is complete: a stream with both is removed, and queued resets go. *)
OnStreamReset(incoming, outgoing) ==
  LET done == incoming \cap outgoing
  IN  /\ streams' = streams \ done
      /\ closure_initiated' = closure_initiated \ done
      /\ incoming_reset_complete' = incoming \ done
      /\ outgoing_reset_complete' = outgoing \ done
      /\ SendQueuedStreamResets(closure_initiated \ done, outgoing_reset_initiated \ done,
                                incoming \ done, partial_outgoing_message_, wire["client"])
      /\ UNCHANGED <<alive, was_ever_writable_, started_, ready_to_send_data_,
                     partial_outgoing_message_, partial_incoming_message_, sent,
                     received, opens, sock, assoc, ssn, denied, faults, replies>>

OnIncomingReset ==
  /\ Runs("reset")
  /\ OnStreamReset(incoming_reset_complete \cup (Head(tasks).sids \cap streams),
                   outgoing_reset_complete)

OnOutgoingReset ==
  /\ Runs("outgoing")
  /\ OnStreamReset(incoming_reset_complete,
                   outgoing_reset_complete \cup (Head(tasks).sids \cap streams))

(* SCTP_STREAM_RESET_FAILED: every stream still closing is asked for again. *)
OnResetFailed ==
  /\ Runs("failed")
  /\ SendQueuedStreamResets(closure_initiated, {}, incoming_reset_complete,
                            partial_outgoing_message_, wire["client"])
  /\ UNCHANGED <<alive, was_ever_writable_, started_, ready_to_send_data_, streams,
                 closure_initiated, outgoing_reset_complete, incoming_reset_complete,
                 partial_outgoing_message_, partial_incoming_message_, sent, received,
                 opens, sock, assoc, ssn, denied, faults, replies>>

(* The destructor: the socket is closed and posted tasks are not run.      *)
DestroyTransport ==
  /\ alive /\ Fault
  /\ alive' = FALSE
  /\ tasks' = <<>>
  /\ StackClose("client")
  /\ ready_to_send_data_' = (ready_to_send_data_ /\ "client" \notin sock)
  /\ UNCHANGED <<was_ever_writable_, started_, statusVars, partial_outgoing_message_,
                 partial_incoming_message_, sent, received, opens, outstanding, ssn, denied>>

RunTask == \/ OnSendThresholdCallback \/ OnSenderDry \/ OnCommUp \/ OnCommLost
           \/ OnDataFromSctp \/ OnIncomingReset \/ OnOutgoingReset
           \/ OnResetFailed

ClientNext ==
  \/ Start \/ OnWritableState
  \/ \E s \in Sids : OpenStream(s) \/ ResetStream(s) \/ SendDataBlocked(s)
  \/ \E s \in Sids, n \in 1..MaxFragments : SendData(s, n)
  \/ OnPacketRead \/ ClientNotified \/ RunTask \/ DestroyTransport
=============================================================================
