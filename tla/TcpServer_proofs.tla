--------------------------- MODULE TcpServer_proofs ---------------------------
(***************************************************************************)
(* Proofs about TcpServer.tla, for any set of connections, any number of   *)
(* application threads and any bounds.                                     *)
(***************************************************************************)
EXTENDS TcpServer, TLAPS

(* A socket outlives its Connection: it exists from the Accept on, when    *)
(* the application hears of it, and is dead when the Connection is freed.  *)
SocketOutlivesConn ==
  \A c \in Conns :
    /\ conn[c] = "unborn" <=> sock[c] = "none"
    /\ conn[c] = "unborn" <=> told[c] = "absent"
    /\ conn[c] = "freed" => sock[c] = "dead"

(* available_write is set only on a socket that is open, or that was       *)
(* closed behind the Connection's back (a Connection that is not built yet *)
(* has no flag).                                                           *)
WritableIsOpen ==
  \A c \in Conns : conn[c] # "unborn" /\ available_write[c] => sock[c] \in {"open", "cut"}

(* The strengthening of OneDestroyPerClose that is inductive: a destroy    *)
(* task waits for a Connection just while it exists on a dead socket.      *)
DestroyExactly ==
  \A c \in Conns :
    /\ \A i, j \in DestroyTasks(c) : i = j
    /\ DestroyTasks(c) # {} <=> conn[c] = "live" /\ sock[c] = "dead"

(* Tasks and calls in progress concern Connections that were built.        *)
WorkIsOnBuiltConns ==
  /\ \A i \in DOMAIN tasks : conn[tasks[i].conn] # "unborn"
  /\ \A t \in AppThreads : calling[t] # NoConn => conn[calling[t]] # "unborn"

(* In the queue, a send of the network thread stands before the clean-up   *)
(* of its Connection.                                                      *)
SendsBeforeDestroy ==
  \A i, j \in DOMAIN tasks :
    /\ tasks[i].op = "destroy"
    /\ tasks[j].op = "send"
    /\ tasks[j].from = "network"
    /\ tasks[i].conn = tasks[j].conn
    => j < i

(* The inductive invariant.                                                *)
IInv ==
  /\ TypeOK
  /\ SessionsAreLive
  /\ SocketOutlivesConn
  /\ WritableIsOpen
  /\ WorkIsOnBuiltConns
  /\ DestroyExactly
  /\ SendsBeforeDestroy
  /\ NetworkSendsNeverDangle

-----------------------------------------------------------------------------
(* The queue: what posting appends and running removes.                    *)

LEMMA QueueFacts ==
  ASSUME TypeOK
  PROVE  /\ Len(tasks) \in Nat
         /\ DOMAIN tasks = 1..Len(tasks)
         /\ \A i \in DOMAIN tasks : tasks[i] \in Tasks
  BY DEF TypeOK

LEMMA PostFacts ==
  ASSUME TypeOK, NEW op \in Ops, NEW c \in Conns,
         NEW from \in {"network", "application"}, Post(op, c, from)
  PROVE  /\ tasks' \in Seq(Tasks)
         /\ DOMAIN tasks' = 1..(Len(tasks) + 1)
         /\ \A i \in 1..Len(tasks) : tasks'[i] = tasks[i]
         /\ tasks'[Len(tasks) + 1].op = op
         /\ tasks'[Len(tasks) + 1].conn = c
         /\ tasks'[Len(tasks) + 1].from = from
  BY DEF TypeOK, Post, Tasks

LEMMA RunFacts ==
  ASSUME TypeOK, NEW op \in Ops, NEW c \in Conns, Running(op, c)
  PROVE  /\ tasks' \in Seq(Tasks)
         /\ Len(tasks) >= 1
         /\ DOMAIN tasks' = 1..(Len(tasks) - 1)
         /\ \A i \in 1..(Len(tasks) - 1) : tasks'[i] = tasks[i + 1]
         /\ tasks[1].op = op
         /\ tasks[1].conn = c
  BY DEF TypeOK, Running, Tasks

(* DestroyExactly, in terms of positions in the queue.                     *)
LEMMA DestroyByPosition ==
  DestroyExactly <=>
    \A c \in Conns :
      /\ \A i, j \in DOMAIN tasks :
           /\ tasks[i].op = "destroy" /\ tasks[i].conn = c
           /\ tasks[j].op = "destroy" /\ tasks[j].conn = c
           => i = j
      /\ (\E i \in DOMAIN tasks : tasks[i].op = "destroy" /\ tasks[i].conn = c)
           <=> conn[c] = "live" /\ sock[c] = "dead"
  BY DEF DestroyExactly, DestroyTasks

LEMMA DestroyByPositionNext ==
  DestroyExactly' <=>
    \A c \in Conns :
      /\ \A i, j \in DOMAIN tasks' :
           /\ tasks'[i].op = "destroy" /\ tasks'[i].conn = c
           /\ tasks'[j].op = "destroy" /\ tasks'[j].conn = c
           => i = j
      /\ (\E i \in DOMAIN tasks' : tasks'[i].op = "destroy" /\ tasks'[i].conn = c)
           <=> conn'[c] = "live" /\ sock'[c] = "dead"
  BY DEF DestroyExactly, DestroyTasks

-----------------------------------------------------------------------------
(* The type invariant.                                                     *)

LEMMA TypeInit == Init => TypeOK
<1> SUFFICES ASSUME Init PROVE TypeOK
  OBVIOUS
<1>1. tasks \in Seq(Tasks) BY DEF Init
<1>2. available_write \in [Conns -> BOOLEAN] BY DEF Init
<1>3. QED BY <1>1, <1>2 DEF Init, TypeOK

LEMMA TypeStep == TypeOK /\ [Next]_vars => TypeOK'
<1> SUFFICES ASSUME TypeOK, [Next]_vars PROVE TypeOK'
  OBVIOUS
<1> USE DEF TypeOK, Ops
<1>1. ASSUME NEW c \in Conns, SocketEvent(c) PROVE TypeOK'
  <2>1. CASE OnRead(c) BY <2>1 DEF OnRead
  <2>2. CASE PeerWrite(c) BY <2>2 DEF PeerWrite
  <2>3. CASE ConnOnRead(c) BY <2>3 DEF ConnOnRead
  <2>4. CASE ConnOnWrite(c) BY <2>4 DEF ConnOnWrite
  <2>5. CASE ConnOnClose(c) BY <2>5, PostFacts DEF ConnOnClose
  <2>6. QED BY <1>1, <2>1, <2>2, <2>3, <2>4, <2>5 DEF SocketEvent
<1>2. ASSUME NEW c \in Conns, Call(c) PROVE TypeOK'
  <2>1. CASE AsyncSend(c) BY <2>1, PostFacts, BoundsAssumption DEF AsyncSend, Calling
  <2>2. CASE CloseSession(c) BY <2>2, PostFacts, BoundsAssumption DEF CloseSession, Calling
  <2>3. ASSUME NEW t \in AppThreads, AppCheck(t, c) PROVE TypeOK'
    BY <2>3, BoundsAssumption DEF AppCheck, Calling
  <2>4. CASE AyncSend(c) BY <2>4, BoundsAssumption DEF AyncSend, Calling
  <2>5. CASE CloseSocket(c) BY <2>5, BoundsAssumption DEF CloseSocket, Calling
  <2>6. QED BY <1>2, <2>1, <2>2, <2>3, <2>4, <2>5 DEF Call
<1>3. ASSUME NEW c \in Conns, RunTask(c) PROVE TypeOK'
  <2>1. CASE RunSend(c)
    <3>1. tasks' \in Seq(Tasks) BY <2>1, RunFacts DEF RunSend
    <3>2. wire' \in [Conns -> Nat] BY <2>1 DEF RunSend
    <3>3. QED BY <2>1, <3>1, <3>2 DEF RunSend
  <2>2. CASE RunClose(c) BY <2>2, RunFacts DEF RunClose
  <2>3. CASE RunDestroy(c) BY <2>3, RunFacts DEF RunDestroy
  <2>4. CASE RunDangling(c) BY <2>4, RunFacts DEF RunDangling
  <2>5. QED BY <1>3, <2>1, <2>2, <2>3, <2>4 DEF RunTask
<1>4. ASSUME NEW t \in AppThreads, AppPost(t) PROVE TypeOK'
  <2>1. calling[t] \in Conns BY <1>4 DEF AppPost
  <2>2. tasks' \in Seq(Tasks) BY <1>4, <2>1, PostFacts DEF AppPost
  <2>3. QED BY <1>4, <2>2 DEF AppPost
<1>5. CASE UNCHANGED vars BY <1>5 DEF vars
<1>6. QED BY <1>1, <1>2, <1>3, <1>4, <1>5 DEF Next

(* Every variable of the server and its connections keeps its type.        *)
THEOREM TypeCorrect == Safety => []TypeOK
  BY TypeInit, TypeStep, PTL DEF Safety

-----------------------------------------------------------------------------
(* The inductive invariant, action by action.                              *)

LEMMA InvInit == Init => IInv
<1> SUFFICES ASSUME Init PROVE IInv
  OBVIOUS
<1>1. TypeOK BY TypeInit
<1>2. DOMAIN tasks = {} BY DEF Init
<1>3. SessionsAreLive /\ SocketOutlivesConn /\ WritableIsOpen
  BY DEF Init, SessionsAreLive, SocketOutlivesConn, WritableIsOpen
<1>4. WorkIsOnBuiltConns BY <1>2 DEF Init, WorkIsOnBuiltConns
<1>5. DestroyExactly BY <1>2, DestroyByPosition DEF Init
<1>6. SendsBeforeDestroy /\ NetworkSendsNeverDangle
  BY <1>2 DEF SendsBeforeDestroy, NetworkSendsNeverDangle
<1>7. QED BY <1>1, <1>3, <1>4, <1>5, <1>6 DEF IInv

(* Steps that touch neither the objects nor the queue: a write or a read   *)
(* of data, a writable event, the first half of a call.                    *)
LEMMA QuietStep ==
  ASSUME IInv, TypeOK',
         UNCHANGED <<conn, sock, tcp_sessions, tasks, told>>,
         \/ UNCHANGED available_write
         \/ \E c \in Conns : /\ sock[c] = "open"
                             /\ available_write' = [available_write EXCEPT ![c] = TRUE],
         \/ UNCHANGED calling
         \/ \E t \in AppThreads : calling'[t] = NoConn /\ calling' = [calling EXCEPT ![t] = NoConn]
         \/ \E t \in AppThreads, c \in Conns :
              told[c] = "announced" /\ calling' = [calling EXCEPT ![t] = c]
  PROVE  IInv'
<1> USE DEF IInv
<1>1. SessionsAreLive' /\ SocketOutlivesConn'
  BY DEF SessionsAreLive, SocketOutlivesConn
<1>2. WritableIsOpen' BY DEF WritableIsOpen, TypeOK
<1>3. WorkIsOnBuiltConns'
  <2>1. \A u \in AppThreads :
          \/ calling'[u] \in {NoConn, calling[u]}
          \/ calling'[u] \in Conns /\ told[calling'[u]] = "announced"
    BY DEF TypeOK
  <2>2. \A c \in Conns : told[c] = "announced" => conn[c] # "unborn"
    BY DEF SessionsAreLive
  <2>3. QED BY <2>1, <2>2 DEF WorkIsOnBuiltConns
<1>4. DestroyExactly' BY DestroyByPosition, DestroyByPositionNext
<1>5. SendsBeforeDestroy' /\ NetworkSendsNeverDangle'
  BY DEF SendsBeforeDestroy, NetworkSendsNeverDangle
<1>6. QED BY <1>1, <1>2, <1>3, <1>4, <1>5

(* A socket closed behind the Connection's back: it was open, and neither  *)
(* the flag nor the queue hears of it.                                     *)
LEMMA CloseSocketStep ==
  ASSUME IInv, TypeOK', NEW c \in Conns, CloseSocket(c)
  PROVE  IInv'
<1> USE DEF IInv, CloseSocket
<1>1. \A d \in Conns : /\ sock'[d] = "dead" <=> sock[d] = "dead"
                       /\ sock'[d] = "none" <=> sock[d] = "none"
                       /\ sock[d] \in {"open", "cut"} => sock'[d] \in {"open", "cut"}
  BY DEF TypeOK
<1>2. SessionsAreLive' BY DEF SessionsAreLive
<1>3. SocketOutlivesConn' BY <1>1 DEF SocketOutlivesConn
<1>4. WritableIsOpen' BY <1>1 DEF WritableIsOpen
<1>5. WorkIsOnBuiltConns' BY DEF WorkIsOnBuiltConns
<1>6. DestroyExactly' BY <1>1, DestroyByPosition, DestroyByPositionNext
<1>7. SendsBeforeDestroy' /\ NetworkSendsNeverDangle'
  BY DEF SendsBeforeDestroy, NetworkSendsNeverDangle
<1>8. QED BY <1>2, <1>3, <1>4, <1>5, <1>6, <1>7

LEMMA OnReadStep ==
  ASSUME IInv, TypeOK', NEW c \in Conns, OnRead(c)
  PROVE  IInv'
<1> USE DEF IInv, OnRead
<1>1. conn[c] = "unborn" BY DEF SocketOutlivesConn
<1>2. \A d \in Conns : d # c => conn'[d] = conn[d] /\ sock'[d] = sock[d] /\ told'[d] = told[d]
  BY DEF TypeOK
<1>3. conn'[c] = "live" /\ sock'[c] = "open" /\ told'[c] = "announced"
  BY DEF TypeOK
<1>4. SessionsAreLive' BY <1>2, <1>3 DEF SessionsAreLive
<1>5. SocketOutlivesConn' BY <1>2, <1>3 DEF SocketOutlivesConn
<1>6. WritableIsOpen' BY <1>2, <1>3 DEF WritableIsOpen
<1>7. \A i \in DOMAIN tasks : tasks[i].conn \in Conns /\ tasks[i].conn # c
  BY <1>1, QueueFacts DEF WorkIsOnBuiltConns, Tasks
<1>8. WorkIsOnBuiltConns'
  BY <1>1, <1>2, <1>3, <1>7 DEF WorkIsOnBuiltConns, TypeOK
<1>9. DestroyExactly'
  BY <1>1, <1>2, <1>3, DestroyByPosition, DestroyByPositionNext
<1>10. SendsBeforeDestroy' BY DEF SendsBeforeDestroy
<1>11. NetworkSendsNeverDangle' BY <1>2, <1>7 DEF NetworkSendsNeverDangle
<1>12. QED BY <1>4, <1>5, <1>6, <1>8, <1>9, <1>10, <1>11

(* Posting a send or a close changes nothing but the queue; a send of the  *)
(* network thread is posted only while the flag says the socket is open.   *)
LEMMA PostStep ==
  ASSUME IInv, TypeOK', NEW op \in {"send", "close"}, NEW c \in Conns,
         NEW from \in {"network", "application"}, Post(op, c, from),
         conn[c] # "unborn",
         op = "send" /\ from = "network" => conn[c] = "live" /\ available_write[c],
         UNCHANGED <<conn, sock, tcp_sessions, available_write, told>>,
         \/ UNCHANGED calling
         \/ \E t \in AppThreads : calling' = [calling EXCEPT ![t] = NoConn]
  PROVE  IInv'
<1> USE DEF IInv
<1> DEFINE n == Len(tasks) + 1
<1>1. /\ n \in Nat
      /\ DOMAIN tasks = 1..(n - 1)
      /\ DOMAIN tasks' = 1..n
      /\ \A i \in 1..(n - 1) : tasks'[i] = tasks[i]
      /\ tasks'[n].op = op /\ tasks'[n].conn = c /\ tasks'[n].from = from
  BY QueueFacts, PostFacts DEF Ops
<1> HIDE DEF n
<1>2. SessionsAreLive' /\ SocketOutlivesConn' /\ WritableIsOpen'
  BY DEF SessionsAreLive, SocketOutlivesConn, WritableIsOpen
<1>3. WorkIsOnBuiltConns'
  <2>1. \A u \in AppThreads : calling'[u] \in {NoConn, calling[u]}
    BY DEF TypeOK
  <2>2. \A i \in DOMAIN tasks' : conn[tasks'[i].conn] # "unborn"
    BY <1>1 DEF WorkIsOnBuiltConns
  <2>3. QED BY <2>1, <2>2 DEF WorkIsOnBuiltConns
<1>4. DestroyExactly' BY <1>1, DestroyByPosition, DestroyByPositionNext
<1>5. SendsBeforeDestroy'
  <2>1. ASSUME op = "send", from = "network",
               NEW i \in 1..(n - 1), tasks[i].op = "destroy"
        PROVE  tasks[i].conn # c
    BY <1>1, <2>1, DestroyByPosition DEF WritableIsOpen
  <2>2. QED BY <1>1, <2>1 DEF SendsBeforeDestroy
<1>6. NetworkSendsNeverDangle' BY <1>1 DEF NetworkSendsNeverDangle
<1>7. QED BY <1>2, <1>3, <1>4, <1>5, <1>6

(* The close event: the flag goes down and the clean-up is queued.         *)
LEMMA CloseEventStep ==
  ASSUME IInv, TypeOK', NEW c \in Conns, ConnOnClose(c)
  PROVE  IInv'
<1> USE DEF IInv, ConnOnClose
<1> DEFINE n == Len(tasks) + 1
<1>1. /\ n \in Nat \ {0}
      /\ DOMAIN tasks = 1..(n - 1)
      /\ DOMAIN tasks' = 1..n
      /\ \A i \in 1..(n - 1) : tasks'[i] = tasks[i]
      /\ tasks'[n].op = "destroy" /\ tasks'[n].conn = c
  BY QueueFacts, PostFacts DEF Ops
<1> HIDE DEF n
<1>2. conn[c] = "live" BY DEF SocketOutlivesConn, TypeOK
<1>3. /\ sock'[c] = "dead" /\ ~available_write'[c]
      /\ \A d \in Conns : d # c => sock'[d] = sock[d] /\ available_write'[d] = available_write[d]
  BY DEF TypeOK
<1>4. SessionsAreLive' BY DEF SessionsAreLive
<1>5. SocketOutlivesConn' BY <1>2, <1>3 DEF SocketOutlivesConn
<1>6. WritableIsOpen' BY <1>3 DEF WritableIsOpen
<1>7. WorkIsOnBuiltConns'
  <2>1. \A i \in DOMAIN tasks' : conn[tasks'[i].conn] # "unborn"
    BY <1>1, <1>2 DEF WorkIsOnBuiltConns
  <2>2. QED BY <2>1 DEF WorkIsOnBuiltConns
<1>8. \A i \in 1..(n - 1) : ~(tasks[i].op = "destroy" /\ tasks[i].conn = c)
  BY <1>1, DestroyByPosition
<1>9. DestroyExactly'
  <2>1. ASSUME NEW d \in Conns, NEW i \in 1..n, NEW j \in 1..n,
               tasks'[i].op = "destroy", tasks'[i].conn = d,
               tasks'[j].op = "destroy", tasks'[j].conn = d
        PROVE  i = j
    BY <1>1, <1>8, <2>1, DestroyByPosition
  <2>2. ASSUME NEW d \in Conns
        PROVE  (\E i \in 1..n : tasks'[i].op = "destroy" /\ tasks'[i].conn = d)
                 <=> conn'[d] = "live" /\ sock'[d] = "dead"
    <3>1. CASE d = c BY <1>1, <1>2, <1>3, <3>1
    <3>2. CASE d # c BY <1>1, <1>3, <3>2, DestroyByPosition
    <3>3. QED BY <3>1, <3>2
  <2>3. QED BY <1>1, <2>1, <2>2, DestroyByPositionNext
<1>10. SendsBeforeDestroy' BY <1>1 DEF SendsBeforeDestroy
<1>11. NetworkSendsNeverDangle' BY <1>1 DEF NetworkSendsNeverDangle
<1>12. QED BY <1>4, <1>5, <1>6, <1>7, <1>9, <1>10, <1>11

(* What every task run keeps: positions move up by one.                    *)
LEMMA PopKeepsOrder ==
  ASSUME IInv, NEW op \in Ops, NEW c \in Conns, Running(op, c)
  PROVE  SendsBeforeDestroy'
<1> USE DEF IInv
<1>1. /\ Len(tasks) \in Nat
      /\ DOMAIN tasks = 1..Len(tasks)
      /\ DOMAIN tasks' = 1..(Len(tasks) - 1)
      /\ \A i \in 1..(Len(tasks) - 1) : tasks'[i] = tasks[i + 1]
  BY QueueFacts, RunFacts
<1>2. QED BY <1>1 DEF SendsBeforeDestroy

(* A send or close task, or any task on a freed Connection, leaves every   *)
(* object in place; a close may shut the socket and takes the flag down.   *)
LEMMA RunOtherStep ==
  ASSUME IInv, TypeOK', NEW op \in Ops, NEW c \in Conns, Running(op, c),
         op = "destroy" => conn[c] = "freed",
         UNCHANGED <<conn, tcp_sessions, told, calling>>,
         \/ UNCHANGED <<sock, available_write>>
         \/ /\ available_write' = [available_write EXCEPT ![c] = FALSE]
            /\ sock' = [sock EXCEPT ![c] = IF @ \in {"open", "cut"} THEN "closed" ELSE @]
  PROVE  IInv'
<1> USE DEF IInv
<1>1. /\ Len(tasks) \in Nat
      /\ DOMAIN tasks = 1..Len(tasks)
      /\ Len(tasks) >= 1
      /\ DOMAIN tasks' = 1..(Len(tasks) - 1)
      /\ \A i \in 1..(Len(tasks) - 1) : tasks'[i] = tasks[i + 1]
      /\ tasks[1].op = op /\ tasks[1].conn = c
  BY QueueFacts, RunFacts
<1>2. \A d \in Conns : /\ sock'[d] = "dead" <=> sock[d] = "dead"
                       /\ sock'[d] = "none" <=> sock[d] = "none"
                       /\ available_write'[d] => available_write[d] /\ sock'[d] = sock[d]
  <2>1. CASE UNCHANGED <<sock, available_write>> BY <2>1
  <2>2. CASE /\ available_write' = [available_write EXCEPT ![c] = FALSE]
             /\ sock' = [sock EXCEPT ![c] = IF @ \in {"open", "cut"} THEN "closed" ELSE @]
    <3>1. \A d \in Conns \ {c} : sock'[d] = sock[d] /\ available_write'[d] = available_write[d]
      BY <2>2 DEF TypeOK
    <3>2. /\ sock'[c] = IF sock[c] \in {"open", "cut"} THEN "closed" ELSE sock[c]
          /\ ~available_write'[c]
      BY <2>2 DEF TypeOK
    <3>3. QED BY <3>1, <3>2
  <2>3. QED BY <2>1, <2>2
<1>3. SessionsAreLive' BY DEF SessionsAreLive
<1>4. SocketOutlivesConn' BY <1>2 DEF SocketOutlivesConn
<1>5. WritableIsOpen' BY <1>2 DEF WritableIsOpen
<1>6. WorkIsOnBuiltConns' BY <1>1 DEF WorkIsOnBuiltConns
<1>7. ~(tasks[1].op = "destroy") BY <1>1, DestroyByPosition
<1>8. DestroyExactly'
  <2>1. ASSUME NEW d \in Conns, NEW i \in DOMAIN tasks', NEW j \in DOMAIN tasks',
               tasks'[i].op = "destroy", tasks'[i].conn = d,
               tasks'[j].op = "destroy", tasks'[j].conn = d
        PROVE  i = j
    <3>1. i + 1 \in DOMAIN tasks /\ j + 1 \in DOMAIN tasks BY <1>1
    <3>2. i + 1 = j + 1 BY <1>1, <2>1, <3>1, DestroyByPosition
    <3>3. QED BY <1>1, <3>2
  <2>2. ASSUME NEW d \in Conns
        PROVE  (\E i \in DOMAIN tasks' : tasks'[i].op = "destroy" /\ tasks'[i].conn = d)
                 <=> \E i \in DOMAIN tasks : tasks[i].op = "destroy" /\ tasks[i].conn = d
    <3>1. ASSUME NEW i \in DOMAIN tasks, tasks[i].op = "destroy", tasks[i].conn = d
          PROVE  /\ i - 1 \in DOMAIN tasks'
                 /\ tasks'[i - 1] = tasks[i]
      BY <1>1, <1>7, <3>1
    <3>2. QED BY <1>1, <3>1
  <2>3. QED BY <1>2, <2>1, <2>2, DestroyByPosition, DestroyByPositionNext
<1>9. SendsBeforeDestroy' BY PopKeepsOrder
<1>10. NetworkSendsNeverDangle' BY <1>1 DEF NetworkSendsNeverDangle
<1>11. QED BY <1>3, <1>4, <1>5, <1>6, <1>8, <1>9, <1>10

(* The clean-up: no send of the network thread and no other clean-up of    *)
(* this Connection is left behind it.                                      *)
LEMMA RunDestroyStep ==
  ASSUME IInv, TypeOK', NEW c \in Conns, RunDestroy(c)
  PROVE  IInv'
<1> USE DEF IInv, RunDestroy
<1>1. /\ Len(tasks) \in Nat
      /\ DOMAIN tasks = 1..Len(tasks)
      /\ Len(tasks) >= 1
      /\ DOMAIN tasks' = 1..(Len(tasks) - 1)
      /\ \A i \in 1..(Len(tasks) - 1) : tasks'[i] = tasks[i + 1]
      /\ tasks[1].op = "destroy" /\ tasks[1].conn = c
  BY QueueFacts, RunFacts DEF Ops
<1>2. sock[c] = "dead" BY <1>1, DestroyByPosition
<1>3. /\ conn'[c] = "freed" /\ told'[c] = "retired" /\ c \notin tcp_sessions'
      /\ \A d \in Conns : d # c => /\ conn'[d] = conn[d] /\ told'[d] = told[d]
                                   /\ d \in tcp_sessions' <=> d \in tcp_sessions
  BY DEF TypeOK, SessionsAreLive
<1>4. SessionsAreLive' BY <1>3 DEF SessionsAreLive
<1>5. SocketOutlivesConn' BY <1>2, <1>3 DEF SocketOutlivesConn
<1>6. WritableIsOpen' BY <1>2, <1>3 DEF WritableIsOpen
<1>7. WorkIsOnBuiltConns'
  <2>1. \A d \in Conns : conn[d] # "unborn" => conn'[d] # "unborn" BY <1>3
  <2>2. \A i \in DOMAIN tasks' : tasks'[i].conn \in Conns /\ conn[tasks'[i].conn] # "unborn"
    BY <1>1, QueueFacts DEF WorkIsOnBuiltConns, Tasks
  <2>3. QED BY <2>1, <2>2 DEF WorkIsOnBuiltConns, TypeOK
<1>8. \A i \in DOMAIN tasks' : ~(tasks'[i].op = "destroy" /\ tasks'[i].conn = c)
  <2>1. ASSUME NEW i \in DOMAIN tasks', tasks'[i].op = "destroy", tasks'[i].conn = c
        PROVE  FALSE
    <3>1. i + 1 \in DOMAIN tasks /\ 1 \in DOMAIN tasks /\ i + 1 # 1 BY <1>1
    <3>2. QED BY <1>1, <2>1, <3>1, DestroyByPosition
  <2>2. QED BY <2>1
<1>9. DestroyExactly'
  <2>1. ASSUME NEW d \in Conns, NEW i \in DOMAIN tasks', NEW j \in DOMAIN tasks',
               tasks'[i].op = "destroy", tasks'[i].conn = d,
               tasks'[j].op = "destroy", tasks'[j].conn = d
        PROVE  i = j
    <3>1. i + 1 \in DOMAIN tasks /\ j + 1 \in DOMAIN tasks BY <1>1
    <3>2. i + 1 = j + 1 BY <1>1, <2>1, <3>1, DestroyByPosition
    <3>3. QED BY <1>1, <3>2
  <2>2. ASSUME NEW d \in Conns, d # c
        PROVE  (\E i \in DOMAIN tasks' : tasks'[i].op = "destroy" /\ tasks'[i].conn = d)
                 <=> \E i \in DOMAIN tasks : tasks[i].op = "destroy" /\ tasks[i].conn = d
    <3>1. ASSUME NEW i \in DOMAIN tasks, tasks[i].op = "destroy", tasks[i].conn = d
          PROVE  i - 1 \in DOMAIN tasks' /\ tasks'[i - 1] = tasks[i]
      BY <1>1, <2>2, <3>1
    <3>2. QED BY <1>1, <3>1
  <2>3. QED BY <1>3, <1>8, <2>1, <2>2, DestroyByPosition, DestroyByPositionNext
<1>10. SendsBeforeDestroy' BY PopKeepsOrder DEF Ops
<1>11. NetworkSendsNeverDangle'
  <2>1. ASSUME NEW i \in DOMAIN tasks', tasks'[i].op = "send", tasks'[i].from = "network"
        PROVE  tasks'[i].conn # c
    <3>1. i + 1 \in DOMAIN tasks /\ 1 \in DOMAIN tasks /\ ~(i + 1 < 1) BY <1>1
    <3>2. /\ tasks[i + 1] = tasks'[i]
          /\ tasks[i + 1].op = "send" /\ tasks[i + 1].from = "network"
          /\ tasks[1].op = "destroy" /\ tasks[1].conn = c
      BY <1>1, <2>1
    <3>3. tasks[1].conn # tasks[i + 1].conn BY <3>1, <3>2 DEF SendsBeforeDestroy
    <3>4. QED BY <3>2, <3>3
  <2>2. ASSUME NEW i \in DOMAIN tasks' PROVE tasks'[i].conn \in Conns
    <3>1. i + 1 \in DOMAIN tasks /\ tasks'[i] = tasks[i + 1] BY <1>1
    <3>2. tasks[i + 1] \in Tasks BY <3>1, QueueFacts
    <3>3. QED BY <3>1, <3>2 DEF Tasks
  <2>3. QED BY <1>1, <1>3, <2>1, <2>2 DEF NetworkSendsNeverDangle
<1>12. QED BY <1>4, <1>5, <1>6, <1>7, <1>9, <1>10, <1>11

LEMMA InvStep == IInv /\ [Next]_vars => IInv'
<1> SUFFICES ASSUME IInv, [Next]_vars PROVE IInv'
  OBVIOUS
<1>1. TypeOK' BY TypeStep DEF IInv
<1>2. ASSUME NEW c \in Conns, SocketEvent(c) PROVE IInv'
  <2>1. CASE OnRead(c) BY <1>1, <2>1, OnReadStep
  <2>2. CASE PeerWrite(c) BY <1>1, <2>2, QuietStep DEF PeerWrite
  <2>3. CASE ConnOnRead(c) BY <1>1, <2>3, QuietStep DEF ConnOnRead
  <2>4. CASE ConnOnWrite(c) BY <1>1, <2>4, QuietStep DEF ConnOnWrite
  <2>5. CASE ConnOnClose(c) BY <1>1, <2>5, CloseEventStep
  <2>6. QED BY <1>2, <2>1, <2>2, <2>3, <2>4, <2>5 DEF SocketEvent
<1>3. ASSUME NEW c \in Conns, Call(c) PROVE IInv'
  <2>1. ASSUME told[c] = "announced" PROVE conn[c] = "live" /\ conn[c] # "unborn"
    BY <2>1 DEF IInv, SessionsAreLive
  <2>2. CASE AsyncSend(c) BY <1>1, <2>1, <2>2, PostStep DEF AsyncSend
  <2>3. CASE CloseSession(c) BY <1>1, <2>1, <2>3, PostStep DEF CloseSession
  <2>4. ASSUME NEW t \in AppThreads, AppCheck(t, c) PROVE IInv'
    BY <1>1, <2>4, QuietStep DEF AppCheck
  <2>5. CASE AyncSend(c) BY <1>1, <2>5, QuietStep DEF AyncSend
  <2>6. CASE CloseSocket(c) BY <1>1, <2>6, CloseSocketStep
  <2>7. QED BY <1>3, <2>2, <2>3, <2>4, <2>5, <2>6 DEF Call
<1>4. ASSUME NEW c \in Conns, RunTask(c) PROVE IInv'
  <2>1. CASE RunSend(c) BY <1>1, <2>1, RunOtherStep DEF RunSend, Ops
  <2>2. CASE RunClose(c) BY <1>1, <2>2, RunOtherStep DEF RunClose, Ops
  <2>3. CASE RunDestroy(c) BY <1>1, <2>3, RunDestroyStep
  <2>4. CASE RunDangling(c)
    <3>1. PICK op \in Ops : Running(op, c) BY <2>4 DEF RunDangling
    <3>2. QED BY <1>1, <2>4, <3>1, RunOtherStep DEF RunDangling
  <2>5. QED BY <1>4, <2>1, <2>2, <2>3, <2>4 DEF RunTask
<1>5. ASSUME NEW t \in AppThreads, AppPost(t) PROVE IInv'
  <2>1. calling[t] \in Conns /\ conn[calling[t]] # "unborn"
    BY <1>5 DEF AppPost, IInv, TypeOK, WorkIsOnBuiltConns
  <2>2. CASE Post("send", calling[t], "application")
    BY <1>1, <1>5, <2>1, <2>2, PostStep DEF AppPost
  <2>3. CASE UNCHANGED tasks
    <3>1. calling'[t] = NoConn BY <1>5 DEF AppPost, IInv, TypeOK
    <3>2. QED BY <1>1, <1>5, <2>3, <3>1, QuietStep DEF AppPost
  <2>4. QED BY <1>5, <2>2, <2>3 DEF AppPost
<1>6. CASE UNCHANGED vars BY <1>1, <1>6, QuietStep DEF vars
<1>7. QED BY <1>2, <1>3, <1>4, <1>5, <1>6 DEF Next

-----------------------------------------------------------------------------
(* The theorems.                                                           *)

LEMMA Invariance == Safety => []IInv
  BY InvInit, InvStep, PTL DEF Safety

(* The server's map holds exactly the Connections that exist, and the      *)
(* application knows exactly those.                                        *)
THEOREM SessionsCorrect == Safety => []SessionsAreLive
  BY Invariance, PTL DEF IInv

(* A Connection whose socket the peer closed has exactly one clean-up      *)
(* waiting, and no Connection ever has two, or one when it is freed.       *)
THEOREM DestroyOnce == Safety => []OneDestroyPerClose
<1>1. IInv => OneDestroyPerClose
  BY DEF IInv, DestroyExactly, OneDestroyPerClose
<1>2. QED BY <1>1, Invariance, PTL

(* A send asked for on the network thread runs on a Connection that exists. *)
THEOREM NetworkSendsSafe == Safety => []NetworkSendsNeverDangle
  BY Invariance, PTL DEF IInv

(* A send that available_write guards never reaches a socket that the peer *)
(* or Connection::Close has closed: AyncSend alone does that.              *)
THEOREM GuardedSendsStopAtClose == Safety => LateSendsPassTheFlagBy
<1>1. ASSUME IInv, [Next]_vars
      PROVE  [\A c \in Conns :
                wire'[c] # wire[c] =>
                  \/ sock[c] \in {"open", "cut"}
                  \/ direct'[c] # direct[c]]_vars
  <2> USE <1>1 DEF IInv
  <2> DEFINE Late == \A c \in Conns :
               wire'[c] # wire[c] => sock[c] \in {"open", "cut"} \/ direct'[c] # direct[c]
  <2>1. ASSUME NEW d \in Conns, RunSend(d) PROVE Late
    BY <2>1 DEF RunSend, WritableIsOpen, TypeOK
  <2>2. ASSUME NEW d \in Conns, AyncSend(d) PROVE Late
    BY <2>2 DEF AyncSend, TypeOK
  <2>3. CASE UNCHANGED wire BY <2>3
  <2>4. CASE UNCHANGED vars BY <2>4
  <2>5. \/ \E d \in Conns : RunSend(d) \/ AyncSend(d)
        \/ UNCHANGED wire
    BY DEF Next, SocketEvent, Call, RunTask, OnRead, PeerWrite, ConnOnRead,
           ConnOnWrite, ConnOnClose, AsyncSend, AppCheck, CloseSession, CloseSocket,
           RunClose, RunDestroy, RunDangling, AppPost, vars
  <2>6. QED BY <2>1, <2>2, <2>3, <2>4, <2>5
<1>2. QED BY <1>1, Invariance, PTL DEF Safety, LateSendsPassTheFlagBy

(* Every behaviour of the server is one that ConnLifecycle allows.         *)
THEOREM Implementation == Safety => ImplementsLifecycle
<1>1. Init => Lifecycle!Init BY DEF Init, Lifecycle!Init
<1>2. ASSUME IInv, [Next]_vars PROVE [Lifecycle!Next]_(Lifecycle!lifecycleVars)
  <2> USE <1>2 DEF IInv
  (* The four steps the application can tell apart. *)
  <2>1. ASSUME NEW c \in Conns, OnRead(c) PROVE Lifecycle!Announce(c)
    <3>1. told[c] = "absent"
      BY <2>1 DEF OnRead, SessionsAreLive, SocketOutlivesConn, TypeOK
    <3>2. QED BY <2>1, <3>1 DEF OnRead, Lifecycle!Announce
  <2>2. ASSUME NEW c \in Conns, PeerWrite(c) PROVE Lifecycle!Write(c)
    BY <2>2 DEF PeerWrite, SocketOutlivesConn, Lifecycle!Write
  <2>3. ASSUME NEW c \in Conns, ConnOnRead(c) PROVE Lifecycle!Deliver(c)
    BY <2>3 DEF ConnOnRead, SessionsAreLive, SocketOutlivesConn, TypeOK, Lifecycle!Deliver
  <2>4. ASSUME NEW c \in Conns, RunDestroy(c) PROVE Lifecycle!Retire(c)
    BY <2>4 DEF RunDestroy, SessionsAreLive, Lifecycle!Retire
  (* No other step touches what it sees. *)
  <2>5. \/ \E c \in Conns : OnRead(c) \/ PeerWrite(c) \/ ConnOnRead(c) \/ RunDestroy(c)
        \/ UNCHANGED <<told, arrived, received>>
    BY DEF Next, SocketEvent, Call, RunTask, ConnOnWrite, ConnOnClose, AsyncSend,
           AyncSend, CloseSession, CloseSocket, AppCheck, AppPost, RunSend, RunClose, RunDangling, vars
  <2> QED BY <2>5, <2>1, <2>2, <2>3, <2>4 DEF Lifecycle!Next, Lifecycle!lifecycleVars
<1>3. QED BY <1>1, <1>2, Invariance, PTL DEF Safety, ImplementsLifecycle, Lifecycle!Spec

=============================================================================
