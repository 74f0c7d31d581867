---------------------------- MODULE PacedSender ----------------------------
(***************************************************************************)
(* TaskQueuePacedSender (pacing/task_queue_paced_sender.cpp): the tasks of *)
(* the pacer's queue, posted by other threads or delayed by itself, and    *)
(* PacingController::ProcessPackets with a step for each turn of its loop, *)
(* so that other threads run between two packets.  `clock' does not move   *)
(* while a task runs.                                                      *)
(***************************************************************************)
EXTENDS PacingController

CONSTANTS
  HoldBackWindow,          \* hold_back_window_
  StatsInterval,           \* kMaxTimeBetweenStatsUpdates
  MinStatsInterval,        \* kMinTimeBetweenStatsUpdates
  InitialRate              \* what the constructor sets

ASSUME PacedSenderAssumption ==
  /\ HoldBackWindow \in Nat \ {0} /\ StatsInterval \in Nat \ {0} /\ MinStatsInterval \in Nat
  /\ InitialRate \in Nat \ {0}

VARIABLES
  clock,               \* clock_, shared by all threads
  pacing_controller,   \* pacing_controller_
  next_process_time,   \* next_process_time_, or Never
  stats,               \* stats_update_scheduled_ and last_stats_time_
  tasks,               \* task_queue_: the tasks posted
  timers,              \* and the delayed ones
  loop                 \* the run of ProcessPackets under way, or Idle

pacerVars == <<pacing_controller, next_process_time, stats, tasks, timers, loop>>

Never == -1
Idle == [for |-> "none", now |-> 0, target |-> 0, previous |-> 0]

StartTask == [t |-> "start"]

PacerInit ==
  /\ clock = 0
  /\ pacing_controller = NewController(0, InitialRate)
  /\ next_process_time = Never
  /\ stats = [scheduled |-> FALSE, last |-> Never]
  /\ tasks = <<StartTask>> /\ timers = {}
  /\ loop = Idle

Post(task) == tasks' = Append(tasks, task)

(* Of two delayed tasks for the same time, one stands for both: the second *)
(* would run right behind the first.                                       *)
ProcessTimer(at) == [t |-> "process", at |-> at, due |-> clock + Max({at - clock, HoldBackWindow})]
StatsTimer == [t |-> "stats", at |-> Never, due |-> clock + StatsInterval]

(* The timers after MaybeUpdateStats, and what it leaves of `stats'.       *)
UpdateStats(c, scheduled_call, pending) ==
  LET skipped == /\ ~scheduled_call /\ stats.last # Never
                 /\ clock - stats.last < MinStatsInterval
      drained == /\ Empty(c.packet_queue) /\ c.media_debt = 0 /\ c.padding_debt = 0
      again == ~drained /\ (scheduled_call \/ ~stats.scheduled)
  IN IF skipped THEN timers' = pending /\ UNCHANGED stats
     ELSE /\ timers' = IF again THEN pending \cup {StatsTimer} ELSE pending
          /\ stats' = [scheduled |-> IF drained /\ scheduled_call THEN FALSE
                                     ELSE stats.scheduled \/ again,
                       last |-> clock]

(* A slip to guard against: no task is posted ahead of one that is there.  *)
RescheduleOnce(c, scheduled, pending) ==
  LET next == NextSendTime(c)
      first == scheduled = Never
  IN /\ next_process_time' = IF first THEN next ELSE scheduled
     /\ UpdateStats(c, FALSE, IF first THEN pending \cup {ProcessTimer(next)} ELSE pending)

(* The end of MaybeProcessPackets, when `scheduled' is next_process_time_: *)
(* another process task is posted if none is, or not early enough.         *)
Reschedule(c, scheduled, pending) ==
  LET next == NextSendTime(c)
      early == scheduled = Never \/ next <= scheduled - HoldBackWindow
  IN /\ next_process_time' = IF early THEN next ELSE scheduled
     /\ UpdateStats(c, FALSE, IF early THEN pending \cup {ProcessTimer(next)} ELSE pending)

(* What follows ProcessPackets in the task that called it.                 *)
Finish(c, for, scheduled, pending) ==
  /\ pacing_controller' = c
  /\ loop' = Idle
  /\ IF for = "stats" THEN /\ next_process_time' = scheduled
                           /\ UpdateStats(c, TRUE, pending)
     ELSE Reschedule(c, scheduled, pending)

(* ProcessPackets up to its loop.  `padding' is what GeneratePadding and   *)
(* SendPacket made of a due keep-alive.                                    *)
ProcessPackets(c, for, scheduled, pending, padding) ==
  IF TooEarly(c, clock) THEN Finish(DrainUntil(c, clock), for, scheduled, pending)
  ELSE LET b == Begun(c, clock, padding)
       IN IF c.paused THEN Finish(b, for, scheduled, pending)
          ELSE /\ pacing_controller' = b
               /\ loop' = [for |-> for, now |-> clock, target |-> FirstTarget(c),
                           previous |-> Rewound(c).last_process_time]
               /\ next_process_time' = scheduled /\ timers' = pending
               /\ UNCHANGED stats

MustProcess(c, scheduled_process_time) ==
  LET left == IF next_process_time = scheduled_process_time THEN Never ELSE next_process_time
  IN \/ next_process_time = scheduled_process_time
     \/ clock >= NextSendTime(c) /\ (left = Never \/ NextSendTime(c) < left)

MaybeProcessPackets(c, scheduled_process_time, pending, padding) ==
  LET left == IF next_process_time = scheduled_process_time THEN Never ELSE next_process_time
  IN IF MustProcess(c, scheduled_process_time)
       THEN ProcessPackets(c, "process", left, pending, padding)
       ELSE Finish(c, "process", left, pending)

(* A keep-alive is sent by the task that starts from c.                    *)
SendsKeepalive(c) ==
  ~TooEarly(c, clock) /\ KeepaliveDue(c, clock) /\ c.packet_counter # 0

-----------------------------------------------------------------------------
Turning == Turned(pacing_controller, loop)
Previous == Max({loop.previous, loop.target})

(* The turn sends the packet at the top of the queue.                      *)
SendTurn ==
  /\ loop # Idle /\ GetPendingPacket(Turning, loop)
  /\ LET p == Top(Turning.packet_queue)
         c == OnPacketSent([Turning EXCEPT !.packet_queue = Pop(@)], p, loop.target)
     IN /\ pacing_controller' = c
        /\ loop' = [loop EXCEPT !.previous = Previous, !.target = NextTarget(c, loop.now)]
  /\ UNCHANGED <<clock, next_process_time, stats, tasks, timers>>

(* The turn finds the queue empty and adds padding.                        *)
PaddingTurn(padding) ==
  /\ loop # Idle /\ ~GetPendingPacket(Turning, loop)
  /\ PaddingToAdd(Turning) > 0 /\ padding # <<>>
  /\ pacing_controller' = EnqueueAll(Turning, padding, clock)
  /\ loop' = [loop EXCEPT !.previous = Previous]
  /\ UNCHANGED <<clock, next_process_time, stats, tasks, timers>>

LastTurn(padding) ==
  /\ loop # Idle /\ ~GetPendingPacket(Turning, loop)
  /\ PaddingToAdd(Turning) = 0 \/ padding = <<>>
  /\ Finish([Turning EXCEPT !.last_process_time = Max({@, Previous})], loop.for,
            next_process_time, timers)
  /\ UNCHANGED <<clock, tasks>>
=============================================================================
