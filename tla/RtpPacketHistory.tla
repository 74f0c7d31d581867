-------------------------- MODULE RtpPacketHistory --------------------------
(***************************************************************************)
(* The packets kept for retransmission (rtp_rtcp/rtp_packet_history.cc):   *)
(* a deque indexed by the distance of the sequence numbers from its first  *)
(* packet, with holes.  Each operator is the body of one critical section  *)
(* of lock_.  Storage is on (kStoreAndCull) and padding is never made of   *)
(* stored packets, as without RTX, so the padding priorities and the       *)
(* functions nobody calls are left out.                                    *)
(***************************************************************************)
EXTENDS Integers, SequencesExt, FiniteSetsExt

CONSTANTS
  SeqSpan,                   \* 2^16, the sequence numbers
  NumberToStore,             \* number_to_store_
  MaxCapacity,               \* kMaxCapacity
  MinPacketDuration,         \* kMinPacketDurationMs
  MinPacketDurationRtt,      \* kMinPacketDurationRtt
  PacketCullingDelayFactor   \* kPacketCullingDelayFactor

ASSUME HistoryAssumption ==
  /\ SeqSpan \in Nat \ {0} /\ SeqSpan % 2 = 0
  /\ NumberToStore \in Nat /\ MaxCapacity \in Nat \ {0} /\ MinPacketDuration \in Nat
  /\ MinPacketDurationRtt \in Nat /\ PacketCullingDelayFactor \in Nat

VARIABLES
  packet_history,   \* packet_history_
  rtt               \* rtt_ms_

historyVars == <<packet_history, rtt>>

Hole == [seq |-> -1, send_time |-> -1, pending |-> FALSE, times |-> 0]

Sequenced(n) == n % SeqSpan

IsNewer(a, b) ==
  LET d == Sequenced(a - b) IN d # 0 /\ (2 * d < SeqSpan \/ (2 * d = SeqSpan /\ a > b))

GetPacketIndex(h, seq) ==
  IF h = <<>> THEN 0
  ELSE IF IsNewer(seq, h[1].seq) THEN Sequenced(seq - h[1].seq)
  ELSE -Sequenced(h[1].seq - seq)

Stored(h, seq) ==
  LET i == GetPacketIndex(h, seq) IN i \in 0..Len(h) - 1 /\ h[i + 1] # Hole

At(h, seq) == GetPacketIndex(h, seq) + 1

RemovePacket(h, i) ==
  LET g == [h EXCEPT ![i] = Hole]
      left == {j \in DOMAIN g : g[j] # Hole}
  IN IF i > 1 THEN g
     ELSE IF left = {} THEN <<>> ELSE SubSeq(g, Min(left), Len(g))

PacketDuration == Max({MinPacketDurationRtt * rtt, MinPacketDuration})

(* The first packet is old enough to go, or the deque is full.             *)
Removable(h, now, duration) ==
  \/ Len(h) >= MaxCapacity
  \/ /\ ~h[1].pending
     /\ h[1].send_time + duration <= now
     /\ \/ Len(h) >= NumberToStore
        \/ h[1].send_time + duration * PacketCullingDelayFactor <= now

(* CullOldPackets: packets go from the front until the first may stay;     *)
(* the holes behind a packet go with it.                                   *)
Culled(h, now, duration) ==
  LET From(j) == SubSeq(h, j, Len(h))
      mayStay == {j \in DOMAIN h : h[j] # Hole /\ ~Removable(From(j), now, duration)}
  IN IF mayStay = {} THEN <<>> ELSE From(Min(mayStay))

PutRtpPacket(seq, now) ==
  LET c == Culled(packet_history, now, PacketDuration)
      h == IF Stored(c, seq) THEN RemovePacket(c, At(c, seq)) ELSE c
      i == GetPacketIndex(h, seq)
      front == [j \in 1..(IF i < 0 THEN -i ELSE 0) |-> Hole]
      back == [j \in 1..(IF i >= Len(h) THEN i + 1 - Len(h) ELSE 0) |-> Hole]
  IN packet_history' = [front \o h \o back EXCEPT ![IF i < 0 THEN 1 ELSE i + 1] =
                          [seq |-> seq, send_time |-> now, pending |-> FALSE, times |-> 0]]

(* A slip to guard against: the first time a packet is sent again is free. *)
VerifyRttLate(p, now) == p.times > 1 => now >= p.send_time + rtt

VerifyRtt(p, now) == p.times > 0 => now >= p.send_time + rtt

(* A slip to guard against: a packet on its way may be asked for again.    *)
MayResendPending(seq, now) ==
  Stored(packet_history, seq) /\ VerifyRtt(packet_history[At(packet_history, seq)], now)

MayResend(seq, now) ==
  /\ Stored(packet_history, seq)
  /\ LET p == packet_history[At(packet_history, seq)] IN ~p.pending /\ VerifyRtt(p, now)

MarkPacketAsPending(seq) ==
  packet_history' = [packet_history EXCEPT ![At(packet_history, seq)].pending = TRUE]

SentAgain(p, now) == [p EXCEPT !.send_time = now, !.pending = FALSE, !.times = @ + 1]

MarkPacketAsSent(seq, now) ==
  packet_history' =
    IF Stored(packet_history, seq)
      THEN [packet_history EXCEPT ![At(packet_history, seq)] = SentAgain(@, now)]
      ELSE packet_history

SetRtt(r, now) ==
  /\ rtt' = r
  /\ packet_history' =
       Culled(packet_history, now, Max({MinPacketDurationRtt * r, MinPacketDuration}))

CullAcknowledgedPacket(seq) ==
  packet_history' =
    LET i == GetPacketIndex(packet_history, seq)
    IN IF i \in 0..Len(packet_history) - 1 THEN RemovePacket(packet_history, i + 1)
       ELSE packet_history
=============================================================================
