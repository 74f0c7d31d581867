--------------------------- MODULE MCRtspSession ---------------------------
(***************************************************************************)
(* The instance of RtspSession that TLC checks: a camera with video, or    *)
(* with video and audio, and any order of frames.                          *)
(***************************************************************************)
EXTENDS RtspSession

MCTracks == <<"video", "audio">>
=============================================================================
