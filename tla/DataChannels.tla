---------------------------- MODULE DataChannels ----------------------------
(***************************************************************************)
(* The two ends of the data channels over one association: the client of   *)
(* UsrsctpTransport and the server of SctpAssociation, with usrsctp        *)
(* between them.  Each end's threads run on their own, so a step of one    *)
(* leaves the state of the other alone.                                    *)
(***************************************************************************)
EXTENDS UsrsctpTransport, SctpAssociation

CONSTANT MaxCalls   \* bound on opens, messages sent, failures and server calls together

ASSUME CallsAssumption == MaxCalls \in Nat

vars == <<stackVars, clientVars, serverVars>>

Init == StackInit /\ ClientInit /\ ServerInit

Calls == opens + faults + replies
           + Cardinality({p \in Sids \X (1..MaxSends) : p[2] <= Len(sent[p[1]])})

Client(A) == A /\ UNCHANGED serverVars
Server(A) == A /\ UNCHANGED clientVars

Next ==
  /\ Client(ClientNext) \/ Server(ServerNext)
  /\ Calls' <= MaxCalls

(* Packets go on arriving, both stacks go on working and the network       *)
(* thread runs what is posted to it.  Neither application has to act, and  *)
(* no failure has to happen.                                               *)
Fairness ==
  /\ WF_vars(Client(OnPacketRead))
  /\ WF_vars(Client(RunTask))
  /\ WF_vars(Client(ClientNotified /\ StackUp("client")))
  /\ WF_vars(Server(ProcessSctpData))
  /\ WF_vars(Server(ServerUp))

Spec == Init /\ [][Next]_vars /\ Fairness

-----------------------------------------------------------------------------
(* Every value stays in its range; the flags of StreamStatus only exist    *)
(* for streams in the map.                                                 *)
TypeOK == StackTypeOK /\ ClientTypeOK /\ ServerTypeOK

(* What the listener is given as one message: the message whose fragments  *)
(* it is, or none if fragments of several messages, or not all, are in it. *)
Reassembled(s, chunks) ==
  LET m == chunks[1]
  IN  IF \A k \in DOMAIN chunks : /\ chunks[k].sid = s /\ chunks[k].id = m.id
                                  /\ chunks[k].i = k
                                  /\ chunks[k].eor = (k = Len(chunks))
      THEN [id |-> m.id, n |-> Len(chunks)] ELSE [id |-> 0, n |-> 0]

Channels == INSTANCE MessageChannels WITH
  Messages <- [id : 1..MaxSends, n : 1..MaxFragments],
  open <- streams,
  sent <- [s \in Sids |-> [k \in DOMAIN sent[s] |->
                             [id |-> sent[s][k].id, n |-> sent[s][k].n]]],
  delivered <- [s \in Sids |-> [k \in DOMAIN delivered[s] |->
                                  Reassembled(s, delivered[s][k])]]

(* The two ends together implement reliable, ordered channels: what the    *)
(* server's listener gets is what SendData accepted, reassembled from      *)
(* fragments in OnUsrSctpReceiveSctpData and possibly sent in two parts    *)
(* around a full send buffer; and the transport forgets a stream, so that  *)
(* its identifier can be used again, only when both resets are complete    *)
(* and nothing sent on it is still under way.  Excepted is what follows a  *)
(* request that was denied: OnStreamResetEvent then asks again for streams *)
(* whose reset is complete, and a channel opened under such an identifier  *)
(* in the meantime may be forgotten while its data is under way.           *)
ImplementsChannels == Channels!Init /\ [][~denied' => Channels!Next]_(Channels!vars)

Final(s) == s[Len(s)]

(* What goes back arrives whole and in order as well: every message the    *)
(* server sent is handed to the client's application with all of its       *)
(* fragments and no other, and none comes before an earlier one.  A longer *)
(* message than ReceiveLimit is handed out in pieces of that size, one     *)
(* behind the other (what OnDataOrNotificationFromSctp calls undesirable). *)
RepliesAreWhole ==
  \A j \in DOMAIN received :
    LET piece == received[j]
        before == received[j - 1]
    IN  /\ \A k \in DOMAIN piece :
             /\ piece[k].sid = piece[1].sid /\ piece[k].id = piece[1].id
             /\ piece[k].i = piece[1].i + (k - 1)
             /\ piece[k].eor => k = Len(piece)
        /\ Final(piece).eor \/ Len(piece) = ReceiveLimit
        /\ IF j > 1 /\ ~Final(before).eor
           THEN piece[1].id = before[1].id /\ piece[1].i = Final(before).i + 1
           ELSE piece[1].i = 1 /\ (j > 1 => before[1].id < piece[1].id)

(* A reset is behind everything the client sends on its streams: once it   *)
(* is on its way no fragment follows it, not even the rest of a message of *)
(* which the stack took a part (the check in SendQueuedStreamResets).      *)
(* Excepted is what follows a request that was denied: OnStreamResetEvent  *)
(* then unmarks the streams whose reset is complete too, and asks again.   *)
ResetAfterData ==
  ~denied => \A j \in DOMAIN wire["client"] : wire["client"][j].t = "reset" =>
    \A s \in wire["client"][j].sids :
      /\ \A k \in (j + 1)..Len(wire["client"]) :
           wire["client"][k].t = "data" => wire["client"][k].sid # s
      /\ partial_outgoing_message_ # NoMessage => partial_outgoing_message_.m.sid # s

(* A stream is not forgotten while the rest of one of its messages waits:  *)
(* SendMessageInternal would refuse the rest for ever, and every message   *)
(* of every other stream waits behind it.  Excepted as above.              *)
PartialStreamKnown ==
  ~denied /\ partial_outgoing_message_ # NoMessage => partial_outgoing_message_.m.sid \in streams

Posted(t) == \E k \in DOMAIN tasks : tasks[k].t = t
InFlight == \/ \E k \in DOMAIN wire["client"] : wire["client"][k].t = "data"
            \/ \E k \in DOMAIN wire["server"] : wire["server"][k].t = "sack"

(* A transport that has told its application to wait, or that keeps the    *)
(* rest of a message, will be woken: a threshold callback is posted, or    *)
(* data whose acknowledgement posts one is in flight.  Excepted as above.  *)
NoLostWakeup ==
  (/\ alive /\ "client" \in sock /\ "lost" \notin {assoc["client"], assoc["server"]}
   /\ ~denied
   /\ ~ready_to_send_data_ \/ partial_outgoing_message_ # NoMessage)
  => Posted("threshold") \/ InFlight

-----------------------------------------------------------------------------
(* Is s marked as if its reset were under way, and nobody was asked?       *)
Unasked(s) ==
  /\ s \in outgoing_reset_initiated \ outgoing_reset_complete
  /\ s \notin Requested("client")
  /\ \A k \in DOMAIN tasks : tasks[k].t = "outgoing" => s \notin tasks[k].sids

(* A stream is marked as having its outgoing reset initiated only when     *)
(* usrsctp was asked to reset it ("update our stream status map to note    *)
(* that we started the outgoing reset").                                   *)
InitiatedWasRequested ==
  assoc["client"] = "lost" \/ Posted("failed") \/ \A s \in Sids : ~Unasked(s)

Closing(s) == s \in streams /\ ~is_open(s)

(* The closing procedure of a stream, begun by ResetStream or by a reset   *)
(* from the server, completes, and the stream can be used again: resets    *)
(* wait for the association, for the request under way and for a partial   *)
(* message, and something later must let each of them go.  Excepted are a  *)
(* failure, a stream the server's end did not reset in its turn (usrsctp   *)
(* takes one request at a time, and SctpAssociation does not ask again),   *)
(* and the streams of InitiatedWasRequested.                               *)
ClosingCompletes ==
  \A s \in Sids :
    Closing(s) /\ sock = Ends
      ~> s \notin streams \/ faults > 0 \/ s \in unanswered \/ Unasked(s)
=============================================================================
