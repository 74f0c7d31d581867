----------------------- MODULE RoundRobinPacketQueue -----------------------
(***************************************************************************)
(* The pacer's queue (pacing/round_robin_packet_queue.cpp) as operators on *)
(* a record of its members: a queue of packets for every SSRC and a map    *)
(* that orders the SSRCs by the priority of their first packet and by the  *)
(* bytes they have sent.  A packet alone in the queue is kept beside both, *)
(* in `single', and moved into them when the next one comes.               *)
(*                                                                         *)
(* The multiset enqueue_times_, read by statistics only, is left out, and  *)
(* so is the overhead of headers, which the owner never includes.          *)
(***************************************************************************)
EXTENDS Integers, SequencesExt, FiniteSetsExt

CONSTANTS
  Ssrcs,            \* the streams that send
  MaxLeadingSize    \* kMaxLeadingSize

ASSUME QueueAssumption == MaxLeadingSize \in Nat

EmptyQueue(now) ==
  [streams |-> [s \in Ssrcs |-> [size |-> 0, packets |-> <<>>]],
   stream_priorities |-> <<>>, single |-> <<>>, size_packets |-> 0, size |-> 0,
   max_size |-> MaxLeadingSize, queue_time_sum |-> 0, pause_time_sum |-> 0,
   time_last_updated |-> now, paused |-> FALSE]

UpdateQueueTime(q, now) ==
  LET delta == now - q.time_last_updated
  IN [q EXCEPT !.time_last_updated = now,
               !.pause_time_sum = IF q.paused THEN @ + delta ELSE @,
               !.queue_time_sum = IF q.paused THEN @ ELSE @ + delta * q.size_packets]

SetPauseState(q, paused, now) ==
  IF q.paused = paused THEN q ELSE [UpdateQueueTime(q, now) EXCEPT !.paused = paused]

(* A slip to guard against: the packets of a stream in the order they came. *)
PacketLessByOrder(p, q) == p.order < q.order

PacketLess(p, q) ==
  \/ p.priority < q.priority
  \/ p.priority = q.priority /\ p.order < q.order

KeyLess(k, l) ==
  \/ k.priority < l.priority
  \/ k.priority = l.priority /\ k.size < l.size

Key(priority, size, ssrc) == [priority |-> priority, size |-> size, ssrc |-> ssrc]

(* Where a priority_queue or a multimap puts an element: behind its equals. *)
PacketInserted(s, p) ==
  InsertAt(s, Cardinality({i \in DOMAIN s : ~PacketLess(p, s[i])}) + 1, p)

KeyInserted(s, k) ==
  InsertAt(s, Cardinality({i \in DOMAIN s : ~KeyLess(k, s[i])}) + 1, k)

(* A slip to guard against: a stream that is scheduled stays where it is.  *)
RescheduledOnce(q, p) ==
  IF \E k \in Range(q.stream_priorities) : k.ssrc = p.ssrc THEN q.stream_priorities
  ELSE KeyInserted(q.stream_priorities, Key(p.priority, q.streams[p.ssrc].size, p.ssrc))

(* The stream is scheduled, or moved forward if p is of a higher priority  *)
(* than what it was scheduled for.                                         *)
Rescheduled(q, p) ==
  LET keys == q.stream_priorities
      at == {i \in DOMAIN keys : keys[i].ssrc = p.ssrc}
      key == Key(p.priority, q.streams[p.ssrc].size, p.ssrc)
  IN IF at = {} THEN KeyInserted(keys, key)
     ELSE IF p.priority >= keys[Min(at)].priority THEN keys
     ELSE KeyInserted(RemoveAt(keys, Min(at)), key)

(* The private Push: the promoted packet is counted already.               *)
PushToStream(q, p) ==
  [q EXCEPT !.stream_priorities = Rescheduled(q, p),
            !.streams[p.ssrc].packets = PacketInserted(@, p)]

MaybePromoteSinglePacketToNormalQueue(q) ==
  IF q.single = <<>> THEN q ELSE PushToStream([q EXCEPT !.single = <<>>], q.single[1])

Push(q, p) ==
  LET u == UpdateQueueTime(q, p.enqueue_time)
      packet == [p EXCEPT !.enqueue_time = @ - u.pause_time_sum]
      r == IF q.size_packets = 0
             THEN [u EXCEPT !.single = <<packet>>]
             ELSE PushToStream(MaybePromoteSinglePacketToNormalQueue(u), packet)
  IN [r EXCEPT !.size_packets = @ + 1, !.size = @ + p.size]

Empty(q) == q.size_packets = 0

Top(q) == IF q.single # <<>> THEN q.single[1]
          ELSE q.streams[q.stream_priorities[1].ssrc].packets[1]

PopSingle(q) ==
  [q EXCEPT !.single = <<>>, !.queue_time_sum = 0, !.size_packets = 0, !.size = 0]

PopFromStream(q) ==
  LET p == Top(q)
      rest == Tail(q.streams[p.ssrc].packets)
      others == Tail(q.stream_priorities)
      sent == Max({q.streams[p.ssrc].size + p.size, q.max_size - MaxLeadingSize})
  IN [q EXCEPT !.streams[p.ssrc] = [size |-> sent, packets |-> rest],
               !.stream_priorities =
                  IF rest = <<>> THEN others
                  ELSE KeyInserted(others, Key(rest[1].priority, sent, p.ssrc)),
               !.max_size = Max({@, sent}),
               !.queue_time_sum = @ - (q.time_last_updated - p.enqueue_time - q.pause_time_sum),
               !.size = @ - p.size,
               !.size_packets = @ - 1]

Pop(q) == IF q.single # <<>> THEN PopSingle(q) ELSE PopFromStream(q)

LeadingAudio(q) == ~Empty(q) /\ Top(q).type = "audio"

AverageQueueTime(q) == q.queue_time_sum \div q.size_packets

QueuedPackets(q) ==
  Range(q.single) \cup UNION {Range(q.streams[s].packets) : s \in Ssrcs}

-----------------------------------------------------------------------------
(* The counters are those of the packets that are there, the time they     *)
(* have waited outside of pauses included, and the map lists exactly the   *)
(* streams that have packets, in order, each under the priority of its     *)
(* first packet and the bytes it has sent: what the RTC_CHECKs of          *)
(* round_robin_packet_queue.cpp rely on.                                   *)
Consistent(q) ==
  LET all == QueuedPackets(q)
      keys == q.stream_priorities
  IN /\ q.size_packets = Cardinality(all)
     /\ q.size = MapThenSumSet(LAMBDA p : p.size, all)
     /\ q.queue_time_sum =
          MapThenSumSet(LAMBDA p : q.time_last_updated - p.enqueue_time - q.pause_time_sum, all)
     /\ q.single # <<>> => Len(q.single) = 1 /\ all = Range(q.single)
     /\ {k.ssrc : k \in Range(keys)} = {s \in Ssrcs : q.streams[s].packets # <<>>}
     /\ \A i, j \in DOMAIN keys : i < j => /\ keys[i].ssrc # keys[j].ssrc
                                           /\ ~KeyLess(keys[j], keys[i])
     /\ \A k \in Range(keys) : /\ k.priority = q.streams[k.ssrc].packets[1].priority
                               /\ k.size = q.streams[k.ssrc].size
=============================================================================
