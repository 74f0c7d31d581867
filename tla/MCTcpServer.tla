----------------------------- MODULE MCTcpServer -----------------------------
(***************************************************************************)
(* Two sockets and one application thread: enough for a clean-up of one    *)
(* connection to overtake, or be overtaken by, every kind of task of       *)
(* either.                                                                 *)
(***************************************************************************)
EXTENDS TcpServer

=============================================================================
