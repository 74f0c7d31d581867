------------------------------- MODULE MCDtls -------------------------------
(***************************************************************************)
(* The instance of Dtls that TLC checks.  One certificate is the peer's,   *)
(* the other an impostor's: with both as inputs of SetRemoteFingerprint    *)
(* and of the handshake every match and mismatch occurs.                   *)
(***************************************************************************)
EXTENDS Dtls

CONSTANTS c1, c2
MCCerts == {c1, c2}
=============================================================================
