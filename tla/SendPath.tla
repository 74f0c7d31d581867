------------------------------ MODULE SendPath ------------------------------
(***************************************************************************)
(* The way of an RTP packet out: a thread of the application hands media   *)
(* to RTPSender and switches sending on and off, the thread of RTCP asks   *)
(* for lost packets again, and the pacer's queue sends both through Packet-*)
(* Router, the sequencer and RtpSenderEgress, which store and mark them in *)
(* RtpPacketHistory.  One module sends video and stores it, another sends  *)
(* audio.  RTX is off, as it is unless an application sets it: a packet is *)
(* sent again as it was, and padding takes the numbers of the video.  The  *)
(* header extension of the bandwidth estimator is registered for the video *)
(* alone, throughout (supports_bwe_extension_): a router that gets no      *)
(* padding from the video module asks the audio module for none.           *)
(***************************************************************************)
EXTENDS PacedSender, RtpPacketHistory

CONSTANTS
  SizeOf,          \* sizes of "video", "audio" and "padding" packets
  FirstSeq,        \* media_sequence_number_ at the start, which SetRtpState may set
  FrameSizes,      \* packets of a video frame
  Rates,           \* pacing and padding rates the controller may ask for
  Rtts,            \* what OnReceivedNack may pass to SetRtt
  Nacks,           \* the lists of lost packets, by distance from FirstSeq
  MaxTime,         \* bound on the clock
  MaxCalls,        \* bound on what other threads ask of the path
  Lateness         \* how late a delayed task may run

ASSUME SendPathAssumption ==
  /\ SizeOf \in [{"video", "audio", "padding"} -> Nat \ {0}]
  /\ FirstSeq \in 0..SeqSpan - 1 /\ FrameSizes \subseteq Nat \ {0}
  /\ Rates \subseteq (Nat \ {0}) \X Nat /\ Rtts \subseteq Nat /\ Rtts # {}
  /\ Ssrcs = {"video", "audio"} /\ Nacks \subseteq Seq(Nat)
  /\ {MaxTime, MaxCalls, Lateness} \subseteq Nat

VARIABLES
  sending_media,   \* sending_media_ of the video module
  sequencer,       \* media_sequence_number_ and last_packet_marker_bit_ of its sequencer
  nack,            \* the packets OnReceivedNack still has to send again, and its stage
  calls,           \* what other threads have asked so far
  rejected,        \* packets whose retransmission the video module refused to send
  resent           \* when each packet was last sent again, by its number

senderVars == <<sending_media, sequencer>>
ghosts == <<rejected, resent>>
vars == <<clock, pacerVars, historyVars, senderVars, nack, calls, ghosts>>

NoNack == [left |-> <<>>, stage |-> "state"]

Init ==
  /\ PacerInit
  /\ packet_history = <<>> /\ rtt = -1
  /\ sending_media = TRUE
  /\ sequencer = [next |-> FirstSeq, marker |-> FALSE]
  /\ nack = NoNack
  /\ calls = 0
  /\ rejected = {} /\ resent = <<>>

Packet(type, ssrc, seq, marker) ==
  [type |-> type, ssrc |-> ssrc, seq |-> seq, marker |-> marker,
   size |-> SizeOf[IF type = "retransmission" THEN "video" ELSE type],
   priority |-> 0, order |-> 0, enqueue_time |-> 0]

Call == calls < MaxCalls /\ calls' = calls + 1

-----------------------------------------------------------------------------
(* The application's thread.  What it posts while the pacer is busy runs   *)
(* when the pacer is done, at the same time of the clock: nothing is lost  *)
(* if it waits for that.                                                   *)
Quiet == loop = Idle /\ tasks = <<>>

(* A frame goes as one list, with the marker on its last packet.           *)
EnqueuePackets(type, n) ==
  /\ Quiet /\ Call
  /\ Post([t |-> "enqueue", packets |-> [i \in 1..n |-> Packet(type, type, 0, i = n)]])
  /\ UNCHANGED <<clock, pacing_controller, next_process_time, stats, timers, loop,
                 historyVars, senderVars, nack, ghosts>>

Event(task) ==
  /\ Quiet /\ Call
  /\ Post(task)
  /\ UNCHANGED <<clock, pacing_controller, next_process_time, stats, timers, loop,
                 historyVars, senderVars, nack, ghosts>>

PostPause == ~pacing_controller.paused /\ Event([t |-> "pause"])
PostResume == pacing_controller.paused /\ Event([t |-> "resume"])
PostPacingRates == \E r \in Rates : Event([t |-> "rates", rate |-> r[1], padding |-> r[2]])

SetSendingMediaStatus ==
  /\ sending_media' = ~sending_media
  /\ Call
  /\ UNCHANGED <<clock, pacerVars, historyVars, sequencer, nack, ghosts>>

-----------------------------------------------------------------------------
(* The thread of RTCP.                                                     *)
OnReceivedNack ==
  /\ nack = NoNack /\ Call
  /\ \E list \in Nacks, r \in Rtts :
       /\ \A d \in Range(list) : d < Sequenced(sequencer.next - FirstSeq)
       /\ nack' = [NoNack EXCEPT !.left =
                     [i \in DOMAIN list |-> Sequenced(FirstSeq + list[i])]]
       /\ SetRtt(r, clock)
  /\ UNCHANGED <<clock, pacerVars, senderVars, ghosts>>

(* ReSendPacket looks at the packet's state, and passes over one that is   *)
(* gone, on its way or sent again too recently, ...                        *)
GetPacketState ==
  /\ nack.left # <<>> /\ nack.stage = "state"
  /\ nack' = IF MayResend(nack.left[1], clock) THEN [nack EXCEPT !.stage = "mark"]
             ELSE [nack EXCEPT !.left = Tail(@)]
  /\ UNCHANGED <<clock, pacerVars, historyVars, senderVars, calls, ghosts>>

(* ... and in a second critical section, if nothing has changed and the    *)
(* limiter of retransmissions lets it pass, marks it and posts a copy.     *)
GetPacketAndMarkAsPending ==
  /\ nack.stage = "mark" /\ MayResend(nack.left[1], clock)
  /\ MarkPacketAsPending(nack.left[1])
  /\ Post([t |-> "enqueue",
           packets |-> <<Packet("retransmission", "video", nack.left[1], FALSE)>>])
  /\ nack' = [left |-> Tail(nack.left), stage |-> "state"]
  /\ UNCHANGED <<clock, pacing_controller, next_process_time, stats, timers, loop, rtt,
                 senderVars, calls, ghosts>>

(* The limiter refuses, or the packet may not be sent any more: the rest   *)
(* of the NACK is given up.                                                *)
GiveUpNack ==
  /\ nack.stage = "mark"
  /\ nack' = NoNack
  /\ UNCHANGED <<clock, pacerVars, historyVars, senderVars, calls, ghosts>>

OnPacketsAcknowledged ==
  /\ Call
  /\ \E d \in 0..Sequenced(sequencer.next - FirstSeq) - 1 :
       CullAcknowledgedPacket(Sequenced(FirstSeq + d))
  /\ UNCHANGED <<clock, pacerVars, rtt, senderVars, nack, ghosts>>

-----------------------------------------------------------------------------
(* The pacer's queue.                                                      *)
GeneratePadding(size) ==
  LET n == (size + SizeOf["padding"] - 1) \div SizeOf["padding"]
  IN IF sending_media /\ sequencer.marker
       THEN [i \in 1..n |-> Packet("padding", "video", 0, FALSE)] ELSE <<>>

(* PacketRouter::SendPacket for a packet the video module takes.           *)
Egress(p) ==
  LET seq == IF p.type = "retransmission" THEN p.seq ELSE sequencer.next
  IN /\ sequencer' = CASE p.type = "retransmission" -> sequencer
                       [] p.type = "padding" -> [sequencer EXCEPT !.next = Sequenced(@ + 1)]
                       [] p.type = "video" ->
                            [next |-> Sequenced(sequencer.next + 1), marker |-> p.marker]
     /\ CASE p.type = "retransmission" -> MarkPacketAsSent(seq, clock)
          [] p.type = "padding" -> UNCHANGED packet_history
          [] p.type = "video" -> PutRtpPacket(seq, clock)
     /\ resent' = CASE p.type = "retransmission" ->
                            [s \in DOMAIN resent \cup {seq} |->
                               IF s = seq THEN clock ELSE resent[s]]
                    [] p.type = "padding" -> resent
                    [] p.type = "video" -> [s \in DOMAIN resent \ {seq} |-> resent[s]]
     /\ UNCHANGED rejected

(* TrySendPacket of the module the packet is for.                          *)
SendPacket(p) ==
  IF p.ssrc = "audio" THEN UNCHANGED <<sequencer, packet_history, ghosts>>
  ELSE IF ~sending_media \/ (p.type = "padding" /\ ~sequencer.marker)
    THEN /\ rejected' = IF p.type = "retransmission" THEN rejected \cup {p.seq} ELSE rejected
         /\ UNCHANGED <<sequencer, packet_history, resent>>
  ELSE Egress(p)

(* ProcessPackets or MaybeProcessPackets may begin with a keep-alive.      *)
Keepalive(sends) ==
  LET padding == GeneratePadding(1)
  IN IF sends /\ padding # <<>> THEN SendPacket(padding[1])
     ELSE UNCHANGED <<sequencer, packet_history, ghosts>>

KeepaliveSize == IF GeneratePadding(1) = <<>> THEN 0 ELSE SizeOf["padding"]

Maybe(c, scheduled, pending) ==
  /\ MaybeProcessPackets(c, scheduled, pending, KeepaliveSize)
  /\ Keepalive(MustProcess(c, scheduled) /\ SendsKeepalive(c))

RunTask ==
  /\ loop = Idle /\ tasks # <<>> /\ tasks' = Tail(tasks)
  /\ LET task == tasks[1]
     IN \/ task.t = "start" /\ Maybe(pacing_controller, Never, timers)
        \/ /\ task.t = "enqueue"
           /\ Maybe(EnqueueAll(pacing_controller, task.packets, clock), Never, timers)
        \/ /\ task.t = "pause"
           /\ pacing_controller' = Pause(pacing_controller, clock)
           /\ UNCHANGED <<next_process_time, stats, timers, loop, sequencer, packet_history, ghosts>>
        \/ task.t = "resume" /\ Maybe(Resume(pacing_controller, clock), Never, timers)
        \/ /\ task.t = "rates"
           /\ Maybe(SetPacingRates(pacing_controller, task.rate, task.padding), Never, timers)
  /\ UNCHANGED <<clock, rtt, sending_media, nack, calls>>

RunProcessTimer ==
  /\ loop = Idle
  /\ \E tm \in timers : /\ tm.t = "process" /\ tm.due <= clock
                        /\ Maybe(pacing_controller, tm.at, timers \ {tm})
  /\ UNCHANGED <<clock, tasks, rtt, sending_media, nack, calls>>

RunStatsTimer ==
  /\ loop = Idle
  /\ \E tm \in timers :
       /\ tm.t = "stats" /\ tm.due <= clock
       /\ ProcessPackets(pacing_controller, "stats", next_process_time, timers \ {tm},
                         KeepaliveSize)
       /\ Keepalive(SendsKeepalive(pacing_controller))
  /\ UNCHANGED <<clock, tasks, rtt, sending_media, nack, calls>>

SendPending ==
  /\ SendTurn
  /\ SendPacket(Top(Turning.packet_queue))
  /\ UNCHANGED <<rtt, sending_media, nack, calls>>

AddPadding ==
  /\ PaddingTurn(GeneratePadding(PaddingToAdd(Turning)))
  /\ UNCHANGED <<historyVars, senderVars, nack, calls, ghosts>>

EndProcessing ==
  /\ LastTurn(GeneratePadding(PaddingToAdd(Turning)))
  /\ UNCHANGED <<historyVars, senderVars, nack, calls, ghosts>>

(* What is posted runs within the tick, what is delayed at most Lateness   *)
(* ticks late.                                                             *)
Tick ==
  /\ clock < MaxTime /\ loop = Idle /\ tasks = <<>>
  /\ \A tm \in timers : clock < tm.due + Lateness
  /\ clock' = clock + 1
  /\ UNCHANGED <<pacerVars, historyVars, senderVars, nack, calls, ghosts>>

App == \/ \E n \in FrameSizes : EnqueuePackets("video", n)
       \/ EnqueuePackets("audio", 1)
       \/ PostPause \/ PostResume \/ PostPacingRates \/ SetSendingMediaStatus

Rtcp == \/ OnReceivedNack \/ GetPacketState \/ GetPacketAndMarkAsPending
        \/ GiveUpNack \/ OnPacketsAcknowledged

Pacer == \/ RunTask \/ RunProcessTimer \/ RunStatsTimer
         \/ SendPending \/ AddPadding \/ EndProcessing

Next == App \/ Rtcp \/ Pacer \/ Tick

Spec == Init /\ [][Next]_vars
-----------------------------------------------------------------------------
(* Types, and a queue whose counters, time of waiting and order of streams *)
(* are those of the packets in it, whatever pauses, promotions of a single *)
(* packet and moves of a stream came before: what the RTC_CHECKs of        *)
(* round_robin_packet_queue.cpp rely on.                                   *)
TypeOK ==
  /\ clock \in 0..MaxTime /\ rtt \in Rtts \cup {-1}
  /\ pacing_controller.media_debt >= 0 /\ pacing_controller.padding_debt >= 0
  /\ \A tm \in timers : tm.due <= clock => clock <= tm.due + Lateness
  /\ rejected \subseteq 0..SeqSpan - 1
  /\ Consistent(pacing_controller.packet_queue)

(* How many copies of the packet wait to be sent again.                    *)
UnderWay(seq) ==
  Cardinality({i \in DOMAIN tasks : /\ tasks[i].t = "enqueue"
                                    /\ tasks[i].packets[1].type = "retransmission"
                                    /\ tasks[i].packets[1].seq = seq})
  + Cardinality({p \in QueuedPackets(pacing_controller.packet_queue) :
                   p.type = "retransmission" /\ p.seq = seq})

(* However NACKs race with the pacer's queue, a packet of the history is   *)
(* queued once at most, and while it is queued it is marked.  The converse *)
(* is what rtp_packet_history.h:177 says a mark means, and the code does   *)
(* not keep it: when TrySendPacket refuses a copy because sending is off   *)
(* (rtp_rtcp_impl2.cc:369) the copy is gone, nobody takes the mark off,    *)
(* and the packet is never sent again.  The last conjunct says that this   *)
(* is the only way the code breaks that comment.                           *)
OneCopyWhileMarked ==
  \A e \in Range(packet_history) \ {Hole} :
     /\ UnderWay(e.seq) <= 1
     /\ UnderWay(e.seq) = 1 => e.pending
     /\ e.pending => UnderWay(e.seq) = 1 \/ e.seq \in rejected

(* A packet is sent again at most once per round trip, though its time is  *)
(* checked when it is asked for, twice, and set when it is sent            *)
(* (RtpPacketHistory::VerifyRtt, MarkPacketAsSent).                        *)
ResendsAreSpaced ==
  [][\A s \in DOMAIN resent \cap DOMAIN resent' :
       resent'[s] # resent[s] => resent'[s] >= resent[s] + Min(Rtts)]_resent

(* The pacer never sleeps through the time of its next packet: whenever    *)
(* its queue is quiet, the task for next_process_time_ is on its way, and  *)
(* that is set less than the hold-back window too late, whichever tasks    *)
(* have been overtaken and whatever the stats' task has sent in between.   *)
(* (How late a task runs that is due is the queue's affair: Lateness.)     *)
WakeupIsInTime ==
  Quiet => /\ \E tm \in timers : tm.t = "process" /\ tm.at = next_process_time
           /\ next_process_time < NextSendTime(pacing_controller) + HoldBackWindow

ToSend == {[ssrc |-> p.ssrc, priority |-> p.priority, order |-> p.order] :
             p \in QueuedPackets(pacing_controller.packet_queue)}

Queue == INSTANCE PriorityQueue WITH queued <- ToSend

(* Through the single packet kept apart, the queues of the streams and the *)
(* map that orders them, packets leave by priority and, in a stream, in    *)
(* the order they came.                                                    *)
ImplementsQueue == Queue!Spec
=============================================================================
