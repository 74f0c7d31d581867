------------------------------ MODULE TcpServer ------------------------------
(***************************************************************************)
(* libnetwork/tcp_server.cpp and libnetwork/connection.cpp: the objects a  *)
(* listening server owns, one Connection per accepted socket, and the      *)
(* network thread that runs every socket event and every posted task.      *)
(*                                                                         *)
(* A posted task captures the Connection by raw pointer, and the server    *)
(* frees the Connection in a task of its own, so what matters is the order *)
(* of events, posts and task runs: every action below is one callback or   *)
(* one task of the network thread, or one half of a call another thread    *)
(* makes.                                                                  *)
(*                                                                         *)
(* External, modelled from how src/ uses it: rtc::Thread runs its posted   *)
(* tasks first in first out; rtc::Socket delivers its close event at most  *)
(* once, on behalf of the peer or the network, and no event after it or    *)
(* after a local Close().  A socket is never deleted by this code, so a    *)
(* socket pointer is not reused and stands for its connection.             *)
(*                                                                         *)
(* Left out: addresses, buffer contents, the context map, UDP connections, *)
(* a failed Accept (it returns without a state change) and a read that     *)
(* stops at a full buffer of 8 MB (ConnOnRead reads all there is).         *)
(***************************************************************************)
EXTENDS Naturals, Sequences

CONSTANTS
  Conns,        \* sockets the listener will accept, and their Connections
  AppThreads,   \* application threads that call AsyncSend on a Connection
  NoConn,       \* "no call in progress"
  MaxData,      \* bound on the bytes a peer writes
  MaxCalls      \* bound on the calls of AsyncSend and CloseSession

ASSUME ConnsAssumption == NoConn \notin Conns
ASSUME BoundsAssumption == MaxData \in Nat /\ MaxCalls \in Nat

VARIABLES
  conn,             \* the Connection object: not built, usable, or freed
  sock,             \* its socket: none, open, closed by Connection::Close, cut (closed
                    \* behind the Connection's back), dead (close event seen)
  tcp_sessions,     \* the server's map, by the connections in it
  available_write,  \* Connection::available_write
  tasks,            \* the network thread's queue of posted tasks
  told,             \* what SignalOnNewConnection / SignalOnDestory said to the application
  arrived,          \* bytes written by the peer
  received,         \* bytes handed on by SignalOnRecv
  calls,            \* calls the application has made, to bound them
  wire,             \* calls of Socket::Send on the socket
  direct,           \* those of them that AyncSend made, with no check
  calling,          \* application threads inside AsyncSend, past its first check
  crashed           \* a freed Connection was used and the process is gone

vars == <<conn, sock, tcp_sessions, available_write, tasks, told, arrived,
          received, calls, wire, direct, calling, crashed>>

Ops == {"send", "close", "destroy"}
Tasks == [op : Ops, conn : Conns, from : {"network", "application"}]

TypeOK ==
  /\ conn \in [Conns -> {"unborn", "live", "freed"}]
  /\ sock \in [Conns -> {"none", "open", "closed", "cut", "dead"}]
  /\ tcp_sessions \in SUBSET Conns
  /\ available_write \in [Conns -> BOOLEAN]
  /\ tasks \in Seq(Tasks)
  /\ told \in [Conns -> {"absent", "announced", "retired"}]
  /\ arrived \in [Conns -> Nat]
  /\ received \in [Conns -> Nat]
  /\ calls \in Nat
  /\ wire \in [Conns -> Nat]
  /\ direct \in [Conns -> Nat]
  /\ calling \in [AppThreads -> Conns \cup {NoConn}]
  /\ crashed \in BOOLEAN

Init ==
  /\ conn = [c \in Conns |-> "unborn"]
  /\ sock = [c \in Conns |-> "none"]
  /\ tcp_sessions = {}
  /\ available_write = [c \in Conns |-> TRUE]
  /\ tasks = <<>>
  /\ told = [c \in Conns |-> "absent"]
  /\ arrived = [c \in Conns |-> 0]
  /\ received = [c \in Conns |-> 0]
  /\ calls = 0
  /\ wire = [c \in Conns |-> 0]
  /\ direct = [c \in Conns |-> 0]
  /\ calling = [t \in AppThreads |-> NoConn]
  /\ crashed = FALSE

-----------------------------------------------------------------------------
(* The queue of the network thread.                                        *)

Post(op, c, from) == tasks' = Append(tasks, [op |-> op, conn |-> c, from |-> from])

Running(op, c) ==
  /\ tasks # <<>>
  /\ Head(tasks).op = op
  /\ Head(tasks).conn = c
  /\ tasks' = Tail(tasks)

(* One more call, while the bound allows it.                               *)
Calling ==
  /\ calls < MaxCalls
  /\ calls' = calls + 1

-----------------------------------------------------------------------------
(* Socket events, run by the network thread.                               *)

(* TcpServer::OnRead: accept, build the Connection, connect its signals,   *)
(* put it in the map, announce it.                                         *)
OnRead(c) ==
  /\ ~crashed
  /\ sock[c] = "none"
  /\ sock' = [sock EXCEPT ![c] = "open"]
  /\ conn' = [conn EXCEPT ![c] = "live"]
  /\ tcp_sessions' = tcp_sessions \cup {c}
  /\ told' = [told EXCEPT ![c] = "announced"]
  /\ UNCHANGED <<available_write, tasks, arrived, received, calls, wire,
                 direct, calling, crashed>>

(* The peer writes; its bytes wait in the socket.                          *)
PeerWrite(c) ==
  /\ ~crashed
  /\ sock[c] \in {"open", "closed", "cut"}
  /\ arrived[c] < MaxData
  /\ arrived' = [arrived EXCEPT ![c] = @ + 1]
  /\ UNCHANGED <<conn, sock, tcp_sessions, available_write, tasks, told,
                 received, calls, wire, direct, calling, crashed>>

(* A slip to guard against: the destructor leaves the signals connected.   *)
ConnOnReadStillConnected(c) ==
  /\ ~crashed
  /\ sock[c] # "none"
  /\ received' = [received EXCEPT ![c] = arrived[c]]
  /\ UNCHANGED <<conn, sock, tcp_sessions, available_write, tasks, told,
                 arrived, calls, wire, direct, calling, crashed>>

(* Connection::OnRead reads until the socket has nothing left, and         *)
(* OnSessionRecv hands the buffer on.                                      *)
ConnOnRead(c) ==
  /\ ~crashed
  /\ sock[c] = "open"
  /\ received' = [received EXCEPT ![c] = arrived[c]]
  /\ UNCHANGED <<conn, sock, tcp_sessions, available_write, tasks, told,
                 arrived, calls, wire, direct, calling, crashed>>

(* Connection::OnWrite.                                                    *)
ConnOnWrite(c) ==
  /\ ~crashed
  /\ sock[c] = "open"
  /\ available_write' = [available_write EXCEPT ![c] = TRUE]
  /\ UNCHANGED <<conn, sock, tcp_sessions, tasks, told, arrived, received,
                 calls, wire, direct, calling, crashed>>

(* A slip to guard against: the clean-up is posted, the flag forgotten.    *)
ConnOnCloseKeepsWriting(c) ==
  /\ ~crashed
  /\ sock[c] = "open"
  /\ sock' = [sock EXCEPT ![c] = "dead"]
  /\ Post("destroy", c, "network")
  /\ UNCHANGED <<conn, tcp_sessions, available_write, told, arrived, received,
                 calls, wire, direct, calling, crashed>>

(* A slip to guard against: both close handlers are connected.             *)
ConnOnCloseTwice(c) ==
  /\ ~crashed
  /\ sock[c] = "open"
  /\ sock' = [sock EXCEPT ![c] = "dead"]
  /\ available_write' = [available_write EXCEPT ![c] = FALSE]
  /\ tasks' = tasks \o [i \in 1..2 |-> [op |-> "destroy", conn |-> c, from |-> "network"]]
  /\ UNCHANGED <<conn, tcp_sessions, told, arrived, received, calls, wire,
                 direct, calling, crashed>>

(* A slip to guard against: the flag goes down, the server is not signalled. *)
ConnOnCloseUnsignalled(c) ==
  /\ ~crashed
  /\ sock[c] = "open"
  /\ sock' = [sock EXCEPT ![c] = "dead"]
  /\ available_write' = [available_write EXCEPT ![c] = FALSE]
  /\ UNCHANGED <<conn, tcp_sessions, tasks, told, arrived, received, calls,
                 wire, direct, calling, crashed>>

(* Connection::OnClose, and TcpServer::OnSessionClose that it signals: no  *)
(* more sends, and a task that will free the Connection.                   *)
ConnOnClose(c) ==
  /\ ~crashed
  /\ sock[c] = "open"
  /\ sock' = [sock EXCEPT ![c] = "dead"]
  /\ available_write' = [available_write EXCEPT ![c] = FALSE]
  /\ Post("destroy", c, "network")
  /\ UNCHANGED <<conn, tcp_sessions, told, arrived, received, calls, wire,
                 direct, calling, crashed>>

-----------------------------------------------------------------------------
(* Calls of the application, on a connection it has not been told to drop. *)

(* Connection::AsyncSend from a callback of the network thread: the check  *)
(* and the post are one step, for no other event runs in between.          *)
AsyncSend(c) ==
  /\ ~crashed
  /\ told[c] = "announced"
  /\ available_write[c]
  /\ Calling
  /\ Post("send", c, "network")
  /\ UNCHANGED <<conn, sock, tcp_sessions, available_write, told, arrived,
                 received, wire, direct, calling, crashed>>

(* Connection::AsyncSend from another thread, up to its first check.       *)
AppCheck(t, c) ==
  /\ ~crashed
  /\ calling[t] = NoConn
  /\ told[c] = "announced"
  /\ available_write[c]
  /\ Calling
  /\ calling' = [calling EXCEPT ![t] = c]
  /\ UNCHANGED <<conn, sock, tcp_sessions, available_write, tasks, told,
                 arrived, received, wire, direct, crashed>>

(* ... and its post, which reads the Connection again: undefined when the  *)
(* Connection has been freed, so it crashes or posts what it captured.     *)
AppPost(t) ==
  /\ ~crashed
  /\ calling[t] # NoConn
  /\ calling' = [calling EXCEPT ![t] = NoConn]
  /\ \/ /\ Post("send", calling[t], "application")
        /\ UNCHANGED crashed
     \/ /\ conn[calling[t]] = "freed"
        /\ crashed' = TRUE
        /\ UNCHANGED tasks
  /\ UNCHANGED <<conn, sock, tcp_sessions, available_write, told, arrived,
                 received, calls, wire, direct>>

(* TcpServer::CloseSession and Connection::Close: no check, one post.      *)
CloseSession(c) ==
  /\ ~crashed
  /\ told[c] = "announced"
  /\ Calling
  /\ Post("close", c, "application")
  /\ UNCHANGED <<conn, sock, tcp_sessions, available_write, told, arrived,
                 received, wire, direct, calling, crashed>>

(* Connection::AyncSend, the send that is not queued: on the caller's      *)
(* thread, with no look at available_write.  Its own two reads of the      *)
(* Connection are one step here; a free between them is AppPost's case.    *)
AyncSend(c) ==
  /\ ~crashed
  /\ told[c] = "announced"
  /\ Calling
  /\ wire' = [wire EXCEPT ![c] = @ + 1]
  /\ direct' = [direct EXCEPT ![c] = @ + 1]
  /\ UNCHANGED <<conn, sock, tcp_sessions, available_write, tasks, told,
                 arrived, received, calling, crashed>>

(* TcpServer::Close: the socket alone is closed, on the caller's thread;   *)
(* the Connection is not told and its flag stays as it was.                *)
CloseSocket(c) ==
  /\ ~crashed
  /\ told[c] = "announced"
  /\ Calling
  /\ sock' = [sock EXCEPT ![c] = IF @ = "open" THEN "cut" ELSE @]
  /\ UNCHANGED <<conn, tcp_sessions, available_write, tasks, told, arrived,
                 received, wire, direct, calling, crashed>>

-----------------------------------------------------------------------------
(* Posted tasks, run by the network thread.                                *)

(* A slip to guard against: the flag is trusted as it was at the call.     *)
RunSendUnchecked(c) ==
  /\ ~crashed
  /\ Running("send", c)
  /\ conn[c] = "live"
  /\ wire' = [wire EXCEPT ![c] = @ + 1]
  /\ UNCHANGED <<conn, sock, tcp_sessions, available_write, told, arrived,
                 received, calls, direct, calling, crashed>>

(* The task of AsyncSend: check available_write again, then send.          *)
RunSend(c) ==
  /\ ~crashed
  /\ Running("send", c)
  /\ conn[c] = "live"
  /\ wire' = [wire EXCEPT ![c] = IF available_write[c] THEN @ + 1 ELSE @]
  /\ UNCHANGED <<conn, sock, tcp_sessions, available_write, told, arrived,
                 received, calls, direct, calling, crashed>>

(* The task of Close: no more sends, and close the socket.                 *)
RunClose(c) ==
  /\ ~crashed
  /\ Running("close", c)
  /\ conn[c] = "live"
  /\ available_write' = [available_write EXCEPT ![c] = FALSE]
  /\ sock' = [sock EXCEPT ![c] = IF @ \in {"open", "cut"} THEN "closed" ELSE @]
  /\ UNCHANGED <<conn, tcp_sessions, told, arrived, received, calls, wire,
                 direct, calling, crashed>>

(* A slip to guard against: the session is erased, the application not told. *)
RunDestroySilent(c) ==
  /\ ~crashed
  /\ Running("destroy", c)
  /\ conn[c] = "live"
  /\ conn' = [conn EXCEPT ![c] = "freed"]
  /\ tcp_sessions' = tcp_sessions \ {c}
  /\ UNCHANGED <<sock, available_write, told, arrived, received, calls, wire,
                 direct, calling, crashed>>

(* The task of OnSessionClose: say farewell, free the Connection, and drop *)
(* it from the map.  The branch for a socket that is not in the map only   *)
(* says farewell.                                                          *)
RunDestroy(c) ==
  /\ ~crashed
  /\ Running("destroy", c)
  /\ conn[c] = "live"
  /\ told' = [told EXCEPT ![c] = "retired"]
  /\ conn' = [conn EXCEPT ![c] = IF c \in tcp_sessions THEN "freed" ELSE @]
  /\ tcp_sessions' = tcp_sessions \ {c}
  /\ UNCHANGED <<sock, available_write, arrived, received, calls, wire,
                 direct, calling, crashed>>

(* Any task on a freed Connection is undefined: the process dies, or the   *)
(* stale available_write still reads false and nothing happens.            *)
RunDangling(c) ==
  /\ ~crashed
  /\ \E op \in Ops : Running(op, c)
  /\ conn[c] = "freed"
  /\ crashed' \in BOOLEAN
  /\ UNCHANGED <<conn, sock, tcp_sessions, available_write, told, arrived,
                 received, calls, wire, direct, calling>>

-----------------------------------------------------------------------------

SocketEvent(c) ==
  OnRead(c) \/ PeerWrite(c) \/ ConnOnRead(c) \/ ConnOnWrite(c) \/ ConnOnClose(c)

Call(c) ==
  \/ AsyncSend(c) \/ AyncSend(c) \/ CloseSession(c) \/ CloseSocket(c)
  \/ \E t \in AppThreads : AppCheck(t, c)

RunTask(c) == RunSend(c) \/ RunClose(c) \/ RunDestroy(c) \/ RunDangling(c)

Next ==
  \/ \E c \in Conns : SocketEvent(c) \/ Call(c) \/ RunTask(c)
  \/ \E t \in AppThreads : AppPost(t)

(* rtc::Thread::Run keeps taking tasks from its queue.                     *)
Fairness == WF_vars(\E c \in Conns : RunTask(c))

Safety == Init /\ [][Next]_vars
Spec == Safety /\ Fairness

-----------------------------------------------------------------------------
(* Properties.                                                             *)

DestroyTasks(c) == {i \in DOMAIN tasks : tasks[i].op = "destroy" /\ tasks[i].conn = c}

(* The map owns exactly the Connections that exist, and the application    *)
(* holds a pointer to exactly those: SignalOnDestory is the last word on a *)
(* Connection, and no Connection is freed without it (OnRead emplaces and  *)
(* announces, the task of OnSessionClose says farewell, frees and erases). *)
SessionsAreLive ==
  \A c \in Conns :
    /\ c \in tcp_sessions <=> conn[c] = "live"
    /\ told[c] = "announced" <=> conn[c] = "live"

(* A close event queues the clean-up, and queues it once: the Connection   *)
(* of a dead socket has exactly one destroy task waiting, none ever has    *)
(* two, and a freed one has none left that would find it gone.  It is the  *)
(* peer's close that is spoken of.  connection.cpp:229-232 and             *)
(* connection.h:231 say that a local Close() raises OnClose too; the code  *)
(* raises nothing, so a Connection closed here stays in the map for good   *)
(* (see the README), and this promises no clean-up for it.                 *)
OneDestroyPerClose ==
  \A c \in Conns :
    /\ \A i, j \in DestroyTasks(c) : i = j
    /\ conn[c] = "live" /\ sock[c] = "dead" => DestroyTasks(c) # {}
    /\ conn[c] # "live" => DestroyTasks(c) = {}

(* A send that a callback of the network thread calls for never runs on a  *)
(* freed Connection: OnClose clears available_write before it posts the    *)
(* clean-up, and the queue is first in first out.                          *)
NetworkSendsNeverDangle ==
  \A i \in DOMAIN tasks :
    tasks[i].op = "send" /\ tasks[i].from = "network" => conn[tasks[i].conn] = "live"

(* connection.h:163 says that nothing can be sent after the close, for     *)
(* available_write forbids it.  The flag keeps that promise for every send *)
(* it guards, however many were accepted before the close; what the code   *)
(* still sends on a socket that is not open comes from the two calls that  *)
(* pass the flag by: an AyncSend, or a send behind TcpServer::Close, which *)
(* closes the socket and leaves the flag up.                               *)
LateSendsPassTheFlagBy ==
  [][\A c \in Conns :
       wire'[c] # wire[c] =>
         \/ sock[c] \in {"open", "cut"}
         \/ direct'[c] # direct[c]]_vars

(* A connection the peer closed is cleaned up and its owner told, unless   *)
(* the process died of a dangling task first.                              *)
PeerCloseIsCleanedUp ==
  \A c \in Conns : sock[c] = "dead" ~> told[c] = "retired" \/ crashed

(* The server implements the promise ConnLifecycle states.                 *)
Lifecycle == INSTANCE ConnLifecycle WITH stage <- told, delivered <- received
ImplementsLifecycle == Lifecycle!Spec

=============================================================================
