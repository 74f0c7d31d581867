-------------------------- MODULE MCGb28181Session --------------------------
(***************************************************************************)
(* The instance of Gb28181Session that TLC checks.  Lengths are scaled     *)
(* down: 3 stands for 32768, the first length that is read as negative.    *)
(***************************************************************************)
EXTENDS Gb28181Session
=============================================================================
