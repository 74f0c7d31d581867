-------------------------- MODULE PacingController --------------------------
(***************************************************************************)
(* The leaky bucket of the pacer (pacing/pacing_controller.cpp, dynamic    *)
(* mode), as operators on a record of its members.  Sizes are in units of  *)
(* data, times in ticks, rates in units per tick; quotients are rounded    *)
(* down as the code's are.                                                 *)
(*                                                                         *)
(* No probe runs, and no caller ever sets a congestion window, so          *)
(* Congested() is FALSE throughout.                                        *)
(***************************************************************************)
EXTENDS RoundRobinPacketQueue

CONSTANTS
  PausedProcessInterval,   \* kPausedProcessInterval and kCongestedPacketInterval
  MaxDebtInTime,           \* kMaxDebtInTime
  MaxElapsedTime,          \* kMaxElapsedTime
  QueueTimeLimit,          \* queue_time_limit
  PaddingTarget            \* padding_target_duration_

ASSUME PacingAssumption ==
  /\ PausedProcessInterval \in Nat \ {0} /\ MaxDebtInTime \in Nat
  /\ MaxElapsedTime \in Nat /\ QueueTimeLimit \in Nat /\ PaddingTarget \in Nat

NewController(now, rate) ==
  [paused |-> FALSE, media_debt |-> 0, padding_debt |-> 0, media_rate |-> rate,
   pacing_bitrate |-> rate, padding_rate |-> rate, last_process_time |-> now,
   last_send_time |-> now, packet_counter |-> 0, packet_queue |-> EmptyQueue(now)]

Priority(type) == CASE type = "audio" -> 1
                    [] type = "retransmission" -> 2
                    [] type = "video" -> 3
                    [] type = "padding" -> 4

AtLeastZero(n) == Max({n, 0})

UpdateBudgetWithElapsedTime(c, delta) ==
  [c EXCEPT !.media_debt = AtLeastZero(@ - c.media_rate * delta),
            !.padding_debt = AtLeastZero(@ - c.padding_rate * delta)]

UpdateBudgetWithSentData(c, size) ==
  [c EXCEPT !.media_debt = Min({@ + size, c.media_rate * MaxDebtInTime}),
            !.padding_debt = Min({@ + size, c.padding_rate * MaxDebtInTime})]

(* UpdateTimeAndGetElapsed returns Elapsed and leaves Processed behind.    *)
Elapsed(c, now) == Min({AtLeastZero(now - c.last_process_time), MaxElapsedTime})
Processed(c, now) == [c EXCEPT !.last_process_time = Max({@, now})]

DrainUntil(c, now) == UpdateBudgetWithElapsedTime(Processed(c, now), Elapsed(c, now))

(* How long until the debts are paid that hold the next packet back.       *)
DrainTime(c) ==
  IF Empty(c.packet_queue)
    THEN Max({c.media_debt \div c.media_rate, c.padding_debt \div c.padding_rate})
    ELSE c.media_debt \div c.media_rate

NextSendTime(c) ==
  LET silence == c.last_send_time + PausedProcessInterval
  IN IF ~c.paused /\ LeadingAudio(c.packet_queue) THEN Top(c.packet_queue).enqueue_time
     ELSE IF c.paused \/ c.packet_counter = 0
             \/ (Empty(c.packet_queue) /\ c.padding_rate = 0) THEN silence
     ELSE Min({silence, c.last_process_time + DrainTime(c)})

Pause(c, now) ==
  [c EXCEPT !.paused = TRUE, !.packet_queue = SetPauseState(@, TRUE, now)]

Resume(c, now) ==
  [c EXCEPT !.paused = FALSE, !.packet_queue = SetPauseState(@, FALSE, now)]

SetPacingRates(c, rate, padding) ==
  [c EXCEPT !.media_rate = rate, !.pacing_bitrate = rate, !.padding_rate = padding]

(* A packet that ends a silence does not get the silence as its budget.    *)
FastForward(c, now) ==
  LET target == Min({now, NextSendTime(c)})
  IN [DrainUntil(c, target) EXCEPT !.last_process_time = target]

EnqueuePacket(c, p, now) ==
  LET f == IF Empty(c.packet_queue) THEN FastForward(c, now) ELSE c
  IN [f EXCEPT
       !.packet_counter = @ + 1,
       !.packet_queue = Push(@, [p EXCEPT !.priority = Priority(p.type), !.order = c.packet_counter,
                                          !.enqueue_time = now])]

EnqueueAll(c, packets, now) ==
  FoldLeft(LAMBDA d, p : EnqueuePacket(d, p, now), c, packets)

OnPacketSent(c, p, send_time) ==
  LET b == IF p.type = "audio" THEN c ELSE UpdateBudgetWithSentData(c, p.size)
  IN [b EXCEPT !.last_send_time = send_time, !.last_process_time = send_time]

OnPaddingSent(c, size, now) ==
  LET b == IF size > 0 THEN UpdateBudgetWithSentData(c, size) ELSE c
  IN [b EXCEPT !.last_send_time = now, !.last_process_time = now]

-----------------------------------------------------------------------------
(* ProcessPackets.  It returns at once when it is TooEarly, else runs      *)
(* Begun, with the padding sent if one is due to keep the path alive, and, *)
(* unless it is paused, the loop.                                          *)
TooEarly(c, now) == now < NextSendTime(c)

KeepaliveDue(c, now) == now - c.last_send_time >= PausedProcessInterval

(* A queue too long for its packets to be in time raises the rate.         *)
RateNeeded(c) ==
  LET q == c.packet_queue
  IN IF q.size = 0 THEN c.pacing_bitrate
     ELSE Max({c.pacing_bitrate,
               q.size \div Max({1, QueueTimeLimit - AverageQueueTime(q)})})

AdjustedRate(c, now) ==
  LET u == IF c.packet_queue.size = 0 THEN c
           ELSE [c EXCEPT !.packet_queue = UpdateQueueTime(@, now)]
  IN [u EXCEPT !.media_rate = RateNeeded(u)]

(* A send time before the last one processed: the debt is paid for the     *)
(* difference.                                                             *)
Rewound(c) ==
  UpdateBudgetWithElapsedTime(c, AtLeastZero(c.last_process_time - NextSendTime(c)))

FirstTarget(c) == Max({NextSendTime(c), c.last_process_time})

Begun(c, now, padding) ==
  LET r == Rewound(c)
      p == Processed(r, now)
      k == IF ~KeepaliveDue(p, now) THEN p
           ELSE IF p.packet_counter = 0 THEN [p EXCEPT !.last_send_time = now]
           ELSE OnPaddingSent(p, padding, now)
  IN IF c.paused \/ Elapsed(r, now) = 0 THEN k ELSE AdjustedRate(k, now)

(* One turn of the loop first pays for the time up to the target.          *)
Turned(c, l) == UpdateBudgetWithElapsedTime(c, AtLeastZero(l.target - l.previous))

GetPendingPacket(c, l) ==
  /\ ~Empty(c.packet_queue)
  /\ \/ LeadingAudio(c.packet_queue)
     \/ l.now > l.target
     \/ l.now + c.media_debt \div c.media_rate <= l.target

PaddingToAdd(c) ==
  IF Empty(c.packet_queue) /\ c.packet_counter # 0 /\ c.padding_debt = 0
    THEN PaddingTarget * c.padding_rate ELSE 0

NextTarget(c, now) == Min({now, NextSendTime(c)})
=============================================================================
