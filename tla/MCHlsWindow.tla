---------------------------- MODULE MCHlsWindow ----------------------------
(***************************************************************************)
(* The instance of HlsWindow that TLC checks: window and playlist have the *)
(* code's own lengths, and enough fragments are cut for the window to fill *)
(* up, recycle an object and evict a recycled one's neighbours.            *)
(***************************************************************************)
EXTENDS HlsWindow
=============================================================================
