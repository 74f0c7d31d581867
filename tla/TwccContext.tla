---------------------------- MODULE TwccContext -----------------------------
(***************************************************************************)
(* The receiving end of transport-wide congestion control: TwccContext of  *)
(* librtcp collects the transport sequence numbers of arriving packets and *)
(* gives the application a feedback message about them, to be sent back.   *)
(* There is no timer: only an arriving packet makes a message.             *)
(***************************************************************************)
EXTENDS TwccFci, FiniteSets, TLC

CONSTANTS
  SeqSpace,       \* number of transport sequence numbers, 2^16 in the code
  LoopDelta,      \* 0xFF00: a step back by more than this is a wrap-around
  MaxSeqSize,     \* kMaxSeqSize: packets in a message
  MaxTimeDelta    \* kMaxTimeDelta: time covered by a message

ASSUME TwccAssumption == /\ SeqSpace \in Nat /\ SeqSpace > 2
                         /\ LoopDelta \in Nat /\ MaxTimeDelta \in Nat \ {0}
                         /\ MaxSeqSize \in Nat /\ MaxSeqSize > 1

VARIABLES
  rtp_recv_status,  \* _rtp_recv_status: when each number collected arrived
  min_stamp,        \* _min_stamp, 0 if none
  max_stamp,        \* _max_stamp, the last arrival
  replies           \* what the callback was given and is on its way to the sender

twccVars == <<rtp_recv_status, min_stamp, max_stamp, replies>>

Seqs == 0..(SeqSpace - 1)
Empty == << >>

TwccInit ==
  /\ rtp_recv_status = Empty /\ min_stamp = 0 /\ max_stamp = 0
  /\ replies = {}

-----------------------------------------------------------------------------
First(status) == Min(DOMAIN status)
Highest(status) == Max(DOMAIN status)

CheckSeqStatus(seq) ==
  LET delta == seq - Highest(rtp_recv_status)
  IN  IF rtp_recv_status = Empty THEN "normal"
      ELSE IF delta > 0 /\ delta < (SeqSpace - 1) \div 2 THEN "normal"
      ELSE IF delta < -LoopDelta THEN "looped"
      ELSE IF delta > LoopDelta THEN "jumped"
      ELSE IF \/ First(rtp_recv_status) <= seq
              \/ seq <= Highest(rtp_recv_status) THEN "normal"
      ELSE "jumped"

(* The distance of an arrival from the one before it, the first one's from *)
(* the base time, and whether it can be written as an int16_t.             *)
Distance(status, seq) ==
  LET before == {s \in DOMAIN status : s < seq}
  IN  IF before = {} THEN status[seq] % Byte
      ELSE status[seq] - status[Max(before)]

Fits(distance) == Signed(distance, DeltaRange) = distance

(* The status of every number of the range.  A distance that does not fit  *)
(* is cast all the same.                                                   *)
PacketStatus(status) ==
  LET Of(seq) == IF seq \notin DOMAIN status
                 THEN [symbol |-> NotReceived, delta |-> 0]
                 ELSE LET delta == Signed(Distance(status, seq), DeltaRange)
                      IN  [symbol |-> IF delta < 0 \/ delta >= Byte
                                      THEN LargeDelta ELSE SmallDelta,
                           delta |-> delta]
  IN  [k \in 1..(Highest(status) - First(status) + 1) |-> Of(First(status) + k - 1)]

(* A message on its way, with what it is about.                            *)
Reply(status) ==
  [fci |-> Create(First(status), status[First(status)] \div Byte, PacketStatus(status)),
   about |-> status]

(* Mutant of Store: the message is due one packet late.                    *)
StoreLate(status, first, seq, stamp) ==
  LET new == (seq :> stamp) @@ status
      since == IF first = 0 THEN stamp ELSE first
      due == \/ Cardinality(DOMAIN new) > MaxSeqSize
             \/ stamp - since >= MaxTimeDelta
  IN  /\ max_stamp' = stamp
      /\ rtp_recv_status' = IF due THEN Empty ELSE new
      /\ min_stamp' = IF due THEN 0 ELSE since
      /\ replies' = IF due THEN replies \cup {Reply(new)} ELSE replies

(* The end of onRtp: the packet is stored; the message is sent if it is    *)
(* due, and clearStatus starts the next.                                   *)
Store(status, first, seq, stamp) ==
  LET new == (seq :> stamp) @@ status
      since == IF first = 0 THEN stamp ELSE first
      due == \/ Cardinality(DOMAIN new) >= MaxSeqSize
             \/ stamp - since >= MaxTimeDelta
  IN  /\ max_stamp' = stamp
      /\ rtp_recv_status' = IF due THEN Empty ELSE new
      /\ min_stamp' = IF due THEN 0 ELSE since
      /\ replies' = IF due THEN replies \cup {Reply(new)} ELSE replies

(* onRtp.  After a wrap-around what was collected is sent before the       *)
(* packet is stored; the map then holds this packet only, so no second     *)
(* message is due.                                                         *)
OnRtp(seq, stamp) ==
  \/ /\ CheckSeqStatus(seq) = "looped"
     /\ rtp_recv_status' = (seq :> stamp)
     /\ min_stamp' = stamp /\ max_stamp' = stamp
     /\ replies' = replies \cup {Reply(rtp_recv_status)}
  \/ /\ CheckSeqStatus(seq) = "normal" /\ seq \notin DOMAIN rtp_recv_status
     /\ Store(rtp_recv_status, min_stamp, seq, stamp)
  \/ /\ \/ CheckSeqStatus(seq) = "jumped"
        \/ CheckSeqStatus(seq) = "normal" /\ seq \in DOMAIN rtp_recv_status
     /\ UNCHANGED twccVars
=============================================================================
