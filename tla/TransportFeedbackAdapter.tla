---------------------- MODULE TransportFeedbackAdapter ----------------------
(***************************************************************************)
(* The sending end's record of the packets under way: TransportFeedback-   *)
(* Adapter of rtp/.  It matches sent packets and feedback with the packets *)
(* it was told of, by their unwrapped transport sequence numbers, and      *)
(* turns the receiver's times into its own.                                *)
(***************************************************************************)
EXTENDS TwccContext

CONSTANTS HistoryWindow   \* kSendTimeHistoryWindow

ASSUME HistoryWindow \in Nat

VARIABLES
  history,           \* history_: packets by unwrapped number
  last_value,        \* the last value of seq_num_unwrapper_, or None
  last_ack_seq_num,  \* last_ack_seq_num_
  current_offset,    \* current_offset_, or None
  last_timestamp     \* last_timestamp_, the base time of the last feedback, or None

adapterVars == <<history, last_value, last_ack_seq_num, current_offset, last_timestamp>>

None == -1000000   \* "infinite", no number of the model

AdapterInit ==
  /\ history = Empty /\ last_value = None /\ last_ack_seq_num = -1
  /\ current_offset = None /\ last_timestamp = None

(* External: SequenceNumberUnwrapper::Unwrap and IsNewerSequenceNumber.    *)
IsNewer(value, prev) ==
  LET ahead == (value - prev) % SeqSpace
  IN  IF 2 * ahead = SeqSpace THEN value > prev
      ELSE ahead # 0 /\ 2 * ahead < SeqSpace

Unwrap(last, value) ==
  LET cropped == last % SeqSpace
      delta == value - cropped
  IN  IF last = None THEN value
      ELSE IF IsNewer(value, cropped) THEN last + ((value - cropped) % SeqSpace)
      ELSE IF delta > 0 /\ last + delta - SeqSpace >= 0 THEN last + delta - SeqSpace
      ELSE last + delta

(* AddPacket.  What is older than the window leaves the history, from its  *)
(* beginning on; insert keeps an entry that is there.  `packet' is the     *)
(* packet the entry was made for.                                          *)
AddPacket(packet, creation_time) ==
  LET seq == Unwrap(last_value, packet % SeqSpace)
      Young(s) == creation_time - history[s].creation_time <= HistoryWindow
      kept == {s \in DOMAIN history : \E y \in DOMAIN history : y <= s /\ Young(y)}
      entry == [packet |-> packet, creation_time |-> creation_time, sent |-> FALSE]
  IN  /\ history' = [s \in kept |-> history[s]] @@ (seq :> entry)
      /\ last_value' = seq
      /\ UNCHANGED <<last_ack_seq_num, current_offset, last_timestamp>>

(* ProcessSentPacket; it returns the packet if it is sent for the first    *)
(* time.                                                                   *)
SentKey(packet_id) == Unwrap(last_value, packet_id)
FirstSent(packet_id) ==
  SentKey(packet_id) \in DOMAIN history /\ ~history[SentKey(packet_id)].sent

ProcessSentPacket(packet_id) ==
  LET seq == SentKey(packet_id)
  IN  /\ last_value' = seq
      /\ history' = IF seq \in DOMAIN history
                    THEN [history EXCEPT ![seq].sent = TRUE] ELSE history
      /\ UNCHANGED <<last_ack_seq_num, current_offset, last_timestamp>>

-----------------------------------------------------------------------------
(* ProcessTransportFeedback.  The numbers of a message follow each other,  *)
(* so only the first needs the unwrapper.                                  *)
Key(feedback, k) == Unwrap(last_value, feedback.base_seq) + k - 1

Known(feedback, k) ==
  Key(feedback, k) \in DOMAIN history /\ history[Key(feedback, k)].sent

(* current_offset_: the sender's time of the message's base time.          *)
NewOffset(feedback, feedback_time) ==
  LET delta == BaseDelta(feedback, last_timestamp)
  IN  IF last_timestamp = None \/ delta < -current_offset THEN feedback_time
      ELSE current_offset + delta

(* Mutant of ReceiveTime: the distances are not summed up.                 *)
ReceiveTimeOfOwnDelta(feedback, k, feedback_time) ==
  NewOffset(feedback, feedback_time) + feedback.packets[k].delta

(* receive_time of the k-th packet.  The distance of a received packet the *)
(* history does not know is not added.                                     *)
ReceiveTime(feedback, k, feedback_time) ==
  NewOffset(feedback, feedback_time)
    + MapThenSumSet(LAMBDA j : feedback.packets[j].delta,
                    {j \in 1..k : Known(feedback, j) /\ feedback.packets[j].received})

(* The result for the controller: the packets by what the message says of  *)
(* them; received ones leave the history, lost ones stay.                  *)
Results(feedback, received) ==
  {k \in DOMAIN feedback.packets :
     Known(feedback, k) /\ feedback.packets[k].received = received}

(* Mutant of ProcessTransportFeedback: received packets stay in the history. *)
ProcessTransportFeedbackKeepingAll(feedback, feedback_time) ==
  LET last == Key(feedback, Len(feedback.packets))
  IN  /\ UNCHANGED history
      /\ last_value' = last
      /\ last_ack_seq_num' = IF last > last_ack_seq_num THEN last ELSE last_ack_seq_num
      /\ current_offset' = NewOffset(feedback, feedback_time)
      /\ last_timestamp' = feedback.base_time

ProcessTransportFeedback(feedback, feedback_time) ==
  LET gone == {Key(feedback, k) : k \in Results(feedback, TRUE)}
      last == Key(feedback, Len(feedback.packets))
  IN  /\ history' = [s \in DOMAIN history \ gone |-> history[s]]
      /\ last_value' = last
      /\ last_ack_seq_num' = IF last > last_ack_seq_num THEN last ELSE last_ack_seq_num
      /\ current_offset' = NewOffset(feedback, feedback_time)
      /\ last_timestamp' = feedback.base_time
=============================================================================
