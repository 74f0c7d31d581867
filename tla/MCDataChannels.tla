--------------------------- MODULE MCDataChannels ---------------------------
(***************************************************************************)
(* The instance of DataChannels that TLC checks: two streams, messages of  *)
(* up to two fragments against a send buffer of one, so that every longer  *)
(* message is sent in parts, answers of two and three fragments where the  *)
(* client takes two at a time, and one failure, at any point.  The         *)
(* handshake grants one of the two streams the server asks for, so that it *)
(* has to add one.                                                         *)
(***************************************************************************)
EXTENDS DataChannels

MCSids == {0, 1}
MCMessageSizes == {2, 3}
MCSendSpace == [client |-> 1, server |-> 3]
=============================================================================
