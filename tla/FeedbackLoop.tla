---------------------------- MODULE FeedbackLoop ----------------------------
(***************************************************************************)
(* The feedback loop of congestion control: packets numbered by            *)
(* PacketRouter go out over a network that loses, delays, reorders and     *)
(* duplicates; TwccContext reports on them; RtpTransportControllerSend     *)
(* runs what happens to them as tasks of one queue, in which Transport-    *)
(* FeedbackAdapter turns the reports into results for the controller.      *)
(***************************************************************************)
EXTENDS TransportFeedbackAdapter

CONSTANTS
  Packets,         \* transport_seq_ of the packets sent, an interval
  Gaps,            \* times between arrivals
  Start, End,      \* bounds of the receiver's clock
  Skew,            \* how far the sender's clock is ahead
  MaxDuplicates,   \* bound on duplicates of packets and of messages
  MaxTasks         \* bound on the tasks waiting

ASSUME LoopAssumption ==
  /\ Packets \subseteq Nat /\ Gaps \subseteq Nat /\ Start \in Nat \ {0}
  /\ End \in Nat
  /\ Skew \in Nat /\ MaxDuplicates \in Nat /\ MaxTasks \in Nat

VARIABLES
  sent,          \* packets handed to the socket
  unconfirmed,   \* those whose OnSentPacket is still to come
  wire,          \* packets on their way to the receiver
  now,           \* the receiver's clock
  duplicates,    \* duplicates so far
  tasks,         \* task_queue_
  network_ok,    \* network_ok_
  controller,    \* controller_ is there
  crashed,       \* controller_ was used while it was null
  arrived,       \* when each packet reached the receiver
  acked,         \* how often the controller was told that a packet was received
  lost,          \* the packets it was last told are lost
  receive_time   \* when, as far as it was told

loopVars == <<sent, unconfirmed, wire, now, duplicates, tasks, network_ok, controller,
              crashed, arrived, acked, lost, receive_time>>
vars == <<twccVars, adapterVars, loopVars>>

NoTime == [time |-> None, whole |-> FALSE, exact |-> FALSE]

Init ==
  /\ TwccInit /\ AdapterInit
  /\ sent = {} /\ unconfirmed = {} /\ wire = {} /\ now = Start /\ duplicates = 0
  /\ tasks = <<>> /\ network_ok = FALSE /\ controller = FALSE /\ crashed = FALSE
  /\ arrived = [p \in Packets |-> {}] /\ acked = [p \in Packets |-> 0] /\ lost = {}
  /\ receive_time = [p \in Packets |-> NoTime]

Running == ~crashed
Post(task) == Len(tasks) < MaxTasks /\ tasks' = Append(tasks, task)

-----------------------------------------------------------------------------
(* What the sender's other threads post.                                   *)

(* PacketRouter::SendPacket takes the next number; RtpSenderEgress tells   *)
(* the transport controller of the packet, then hands it to the socket.    *)
SendPacket ==
  \E p \in Packets \ sent :
    /\ Running
    /\ \A q \in Packets \ sent : p <= q
    /\ Post([type |-> "add", packet |-> p, time |-> now + Skew])
    /\ sent' = sent \cup {p} /\ unconfirmed' = unconfirmed \cup {p}
    /\ UNCHANGED <<twccVars, adapterVars, wire, now, duplicates, network_ok,
                   controller, crashed, arrived, acked, lost, receive_time>>

(* The socket sends a packet and reports it.                               *)
OnSentPacket ==
  \E p \in unconfirmed :
    /\ Running
    /\ \A q \in unconfirmed : p <= q
    /\ Post([type |-> "sent", packet |-> p])
    /\ unconfirmed' = unconfirmed \ {p} /\ wire' = wire \cup {p}
    /\ UNCHANGED <<twccVars, adapterVars, sent, now, duplicates, network_ok,
                   controller, crashed, arrived, acked, lost, receive_time>>

(* A call that tells nothing new returns at once, and once the controller  *)
(* is there none changes anything; one waits at a time.                    *)
OnNetworkOk ==
  \E ok \in BOOLEAN :
    /\ Running /\ ok # network_ok /\ ~controller
    /\ \A k \in DOMAIN tasks : tasks[k].type # "network"
    /\ Post([type |-> "network", ok |-> ok])
    /\ UNCHANGED <<twccVars, adapterVars, sent, unconfirmed, wire, now, duplicates,
                   network_ok, controller, crashed, arrived, acked, lost, receive_time>>

(* A feedback message arrives; a duplicate of it may be left behind.  What *)
(* Parse refuses goes no further.  `exact' records whether every distance  *)
(* of the message could be written.                                        *)
OnTransportFeedback ==
  \E reply \in replies, again \in BOOLEAN :
    /\ Running
    /\ again => duplicates < MaxDuplicates
    /\ IF Parse(reply.fci).packets = <<>> THEN UNCHANGED tasks
       ELSE Post([type |-> "feedback", feedback |-> Parse(reply.fci),
                  time |-> now + Skew,
                  exact |-> \A seq \in DOMAIN reply.about :
                              Fits(Distance(reply.about, seq))])
    /\ replies' = IF again THEN replies ELSE replies \ {reply}
    /\ duplicates' = duplicates + (IF again THEN 1 ELSE 0)
    /\ UNCHANGED <<rtp_recv_status, min_stamp, max_stamp, adapterVars, sent,
                   unconfirmed, wire, now, network_ok, controller, crashed, arrived,
                   acked, lost, receive_time>>

-----------------------------------------------------------------------------
(* The tasks, run in the order they were posted.                           *)
RunTask(type) ==
  /\ Running /\ tasks # <<>> /\ Head(tasks).type = type
  /\ tasks' = Tail(tasks)
  /\ UNCHANGED <<twccVars, sent, unconfirmed, wire, now, duplicates, arrived>>

AddTask ==
  /\ RunTask("add")
  /\ AddPacket(Head(tasks).packet, Head(tasks).time)
  /\ UNCHANGED <<network_ok, controller, crashed, acked, lost, receive_time>>

(* controller_ is used without a test.                                     *)
SentTask ==
  LET packet_id == Head(tasks).packet % SeqSpace
  IN  /\ RunTask("sent")
      /\ ProcessSentPacket(packet_id)
      /\ crashed' = (FirstSent(packet_id) /\ ~controller)
      /\ UNCHANGED <<network_ok, controller, acked, lost, receive_time>>

(* MaybeCreateController creates it if the network is up.                  *)
NetworkTask ==
  /\ RunTask("network")
  /\ network_ok' = Head(tasks).ok
  /\ controller' = (controller \/ Head(tasks).ok)
  /\ crashed' = (network_ok # Head(tasks).ok /\ ~controller /\ ~Head(tasks).ok)
  /\ UNCHANGED <<adapterVars, acked, lost, receive_time>>

(* The results go to the controller if there is one.  `whole' records      *)
(* whether the sender knew every packet the message lists as received.     *)
FeedbackTask ==
  LET feedback == Head(tasks).feedback
      received == IF controller THEN Results(feedback, TRUE) ELSE {}
      missing == IF controller THEN Results(feedback, FALSE) ELSE {}
      Packet(k) == history[Key(feedback, k)].packet
      Of(p) == {k \in received : Packet(k) = p}
      whole == \A k \in DOMAIN feedback.packets :
                 feedback.packets[k].received => Known(feedback, k)
  IN  /\ RunTask("feedback")
      /\ ProcessTransportFeedback(feedback, Head(tasks).time)
      /\ acked' = [p \in Packets |-> acked[p] + Cardinality(Of(p))]
      /\ lost' = (lost \cup {Packet(k) : k \in missing}) \ {Packet(k) : k \in received}
      /\ receive_time' =
           [p \in Packets |->
              IF Of(p) = {} THEN receive_time[p]
              ELSE [time |-> ReceiveTime(feedback, Max(Of(p)), Head(tasks).time),
                    whole |-> whole, exact |-> Head(tasks).exact]]
      /\ UNCHANGED <<network_ok, controller, crashed>>

-----------------------------------------------------------------------------
(* A packet arrives, some time after the last; a duplicate of it may be    *)
(* left on the wire.  A packet that never arrives is lost.                 *)
ReceivePacket ==
  \E p \in wire, gap \in Gaps, again \in BOOLEAN :
    /\ again => duplicates < MaxDuplicates
    /\ now + gap <= End
    /\ OnRtp(p % SeqSpace, now + gap)
    /\ now' = now + gap
    /\ wire' = IF again THEN wire ELSE wire \ {p}
    /\ duplicates' = duplicates + (IF again THEN 1 ELSE 0)
    /\ arrived' = [arrived EXCEPT ![p] = @ \cup {now + gap}]
    /\ UNCHANGED <<adapterVars, sent, unconfirmed, tasks, network_ok, controller,
                   crashed, acked, lost, receive_time>>

Next ==
  \/ SendPacket \/ OnSentPacket \/ OnNetworkOk \/ OnTransportFeedback
  \/ AddTask \/ SentTask \/ NetworkTask \/ FeedbackTask
  \/ ReceivePacket

Spec == Init /\ [][Next]_vars

-----------------------------------------------------------------------------
Tasks == [type : {"add"}, packet : Packets, time : Nat]
           \cup [type : {"sent"}, packet : Packets]
           \cup [type : {"network"}, ok : BOOLEAN]

IsFci(fci) == /\ fci.base_seq \in Seqs /\ fci.count \in 1..SeqSpace
              /\ fci.ref_time \in 0..(RefTimes - 1)
              /\ \A k \in DOMAIN fci.bytes : fci.bytes[k] \in 0..(Byte - 1)

(* Every value stays in its range: the bytes of a message are bytes, and   *)
(* the map never holds as many packets as a message has room for.          *)
TypeOK ==
  /\ DOMAIN rtp_recv_status \subseteq Seqs
  /\ Cardinality(DOMAIN rtp_recv_status) < MaxSeqSize
  /\ min_stamp \in 0..now /\ max_stamp \in 0..now
  /\ \A reply \in replies : IsFci(reply.fci)
  /\ \A s \in DOMAIN history : history[s].packet \in Packets
  /\ \A k \in DOMAIN tasks : \/ tasks[k] \in Tasks
                             \/ tasks[k].type = "feedback"
  /\ sent \subseteq Packets /\ unconfirmed \subseteq sent /\ wire \subseteq sent
  /\ lost \subseteq sent /\ duplicates \in 0..MaxDuplicates

Fates == INSTANCE PacketFates WITH
  arrived <- {p \in Packets : arrived[p] # {}}

(* Whatever the network does to packets and messages, and across the wrap  *)
(* of the numbers, the controller is told of a packet's reception only if  *)
(* it was received, once, and hears no more of it afterwards               *)
(* (ProcessTransportFeedbackInner).                                        *)
ImplementsFates == Fates!Spec

(* What Parse reads from a message is what the receiver collected: the     *)
(* packets received, and their times up to the wrap of the reference time  *)
(* (FCI_TWCC::create), until two packets of the message are a distance     *)
(* apart that an int16_t does not hold.  rtcp_feedback.cpp:424 and         *)
(* transport_feedback.cc:346 ask for a new message there; onSendTwcc casts *)
(* the distance, and the times read from that packet on are wrong, that of *)
(* the packet itself always, by a multiple of the range of an int16_t.     *)
FeedbackIsUnderstood ==
  \A reply \in replies :
    LET packets == ParsePackets(reply.fci)
        About(k) == reply.fci.base_seq + k - 1
        got == {k \in DOMAIN packets : packets[k].received}
        Time(k) == BaseTime(reply.fci)
                     + MapThenSumSet(LAMBDA j : packets[j].delta, {j \in got : j <= k})
        Error(k) == Signed(Time(k) - reply.about[About(k)], RefTimes * Byte)
        apart == {k \in got : ~Fits(Distance(reply.about, About(k)))}
        Exact(k) == \A j \in apart : k < j
    IN  /\ {About(k) : k \in got} = DOMAIN reply.about
        /\ \A k \in got : IF Exact(k) THEN Error(k) = 0
                                      ELSE Error(k) % DeltaRange = 0
        /\ apart # {} => Error(Min(apart)) # 0

(* The receive times the controller is given are the receiver's, moved by  *)
(* one offset, across messages lost and reordered and the wrap of the      *)
(* reference time; those of a message with a distance that did not fit are *)
(* so up to multiples of the range of an int16_t.  Not so the times of a   *)
(* message that also lists a packet the sender does not know any more      *)
(* (ProcessTransportFeedbackInner).                                        *)
ReceiveTimesAreReal ==
  LET told == {p \in Packets : receive_time[p].whole}
      Error(p, t, offset) == receive_time[p].time - (t + offset)
      Real(p, offset) ==
        \E t \in arrived[p] : IF receive_time[p].exact THEN Error(p, t, offset) = 0
                              ELSE Error(p, t, offset) % DeltaRange = 0
  IN  told = {} \/ \E p \in told : \E t \in arrived[p] :
                     \A q \in told : Real(q, Error(p, t, 0))
=============================================================================
