---------------------------- MODULE MCHttpParser ----------------------------
(***************************************************************************)
(* The instance of HttpParser that TLC checks: every sequence of up to     *)
(* MaxMessages messages of the five kinds, cut in every way.               *)
(***************************************************************************)
EXTENDS HttpParser
=============================================================================
