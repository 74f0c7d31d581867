---------------------------- MODULE RtspSession ----------------------------
(***************************************************************************)
(* librtsp/rtsp_session.cpp: the client asks a camera for its stream over  *)
(* one TCP connection, OPTIONS, DESCRIBE, a SETUP for each track, PLAY, and*)
(* then reads interleaved RTP from the same connection.  Every reply       *)
(* leads to the next request; nothing is ever sent again.                  *)
(*                                                                         *)
(* TCP delivers any number of pieces at a time.  A reply is its first two  *)
(* lines, the rest of its head (the third line decides what it is) and, if *)
(* it describes the stream, a piece for each track; a frame is the         *)
(* beginning of its header, the rest of it, and the packet.  Lines are not *)
(* cut, and come in the order player.rtsp shows.                           *)
(*                                                                         *)
(* The network thread runs one handler at a time, and an iteration of the  *)
(* loop in OnRead is one action.  Where the loop stands inside a frame, or *)
(* at bytes that were never read, what it does depends on their values:    *)
(* Astray does anything the code may.                                      *)
(*                                                                         *)
(* Left out: the parsing of the URL, name resolution, a failed connect,    *)
(* OnClose (which does nothing), RTP outside frames, and the tasks         *)
(* that take the packets to the work thread in the order of the signals.   *)
(***************************************************************************)
EXTENDS Naturals, Sequences, FiniteSets, Functions

CONSTANTS
  Tracks,       \* what a camera may describe, in this order
  MaxFrames,    \* bound on frames of each camera
  MaxStale      \* bound on nonces that expire during the dialogue

ASSUME RtspAssumption == /\ Tracks \in Seq(STRING) /\ Len(Tracks) \in 1..2
                         /\ \A i, j \in DOMAIN Tracks : Tracks[i] = Tracks[j] => i = j
                         /\ MaxFrames \in Nat /\ MaxStale \in Nat

VARIABLES
  requests,        \* on their way to the camera
  wire,            \* pieces on their way to the client
  reading,         \* OnRead is in its loop
  buffer,          \* and has these pieces left
  recv_buffer_,    \* pieces kept from one read to the next
  cseq_,
  realm_,          \* a challenge was received
  track_control_,  \* tracks still to be set up
  crashed,         \* the process died, or OnRead never returns
  signalled,       \* frames given to SignalRtpPacket
  stray,           \* and once one that no camera sent
  dropped,         \* frames read together with a reply, behind it
  passed,          \* frames lost to a loop that stood where nothing begins
  torn,            \* a header was cut, or bytes were parsed that are none
  cut,             \* a reply was read in two parts
  camera           \* the other end

reader == <<reading, buffer, recv_buffer_, crashed>>
dialogue == <<cseq_, realm_, track_control_>>
history == <<signalled, stray, dropped, passed, torn, cut>>
vars == <<requests, wire, reader, dialogue, history, camera>>

Replies == {"401", "Public", "Content-Type", "Session"}
Channels == {"0-1", "2-3"}
Uninitialized == [t |-> "uninitialized"]

-----------------------------------------------------------------------------
(* External: the camera.  It may demand authorization of no request, of    *)
(* all, or of all but OPTIONS, and forget the nonce it gave.               *)
Methods == {"OPTIONS", "DESCRIBE", "SETUP", "PLAY"}

Cameras == [guarded : {{}, Methods \ {"OPTIONS"}, Methods}, tracks : 1..Len(Tracks),
            setup : {{}}, playing : {FALSE}, stale : {0}, frames : {<<>>}]

(* The constructor leaves recv_buffer_size_ alone: the first read may find *)
(* that bytes of an earlier one were kept.                                 *)
Init ==
  /\ requests = <<>> /\ wire = <<>> /\ reading = FALSE /\ buffer = <<>>
  /\ recv_buffer_ \in {<<>>, <<Uninitialized>>}
  /\ cseq_ = 1 /\ realm_ = FALSE /\ track_control_ = <<>>
  /\ crashed = FALSE /\ signalled = <<>> /\ stray = FALSE
  /\ dropped = {} /\ passed = {} /\ torn = FALSE /\ cut = FALSE
  /\ camera \in Cameras

Text(what) == <<[t |-> "status", what |-> what], [t |-> "head", what |-> what]>>
Described == SubSeq(Tracks, 1, camera.tracks)

AnswersTo(r) ==
  LET setup == {s \in camera.setup : s.track # r.track}
  IN  IF r.method \in camera.guarded /\ ~r.authorized THEN {<<Text("401"), camera>>}
      ELSE {CASE r.method = "OPTIONS" -> <<Text("Public"), camera>>
              [] r.method = "DESCRIBE" ->
                   <<Text("Content-Type") \o [i \in DOMAIN Described |->
                                               [t |-> "track", what |-> Described[i]]], camera>>
              [] r.method = "SETUP" ->
                   <<Text("Session"),
                     [camera EXCEPT !.setup = setup \cup {[track |-> r.track, channels |-> r.channels]}]>>
              [] r.method = "PLAY" -> <<Text("Session"), [camera EXCEPT !.playing = TRUE]>>}
           \cup (IF r.authorized /\ camera.stale < MaxStale
                 THEN {<<Text("401"), [camera EXCEPT !.stale = @ + 1]>>} ELSE {})

CameraAnswers ==
  /\ requests # <<>>
  /\ \E a \in AnswersTo(Head(requests)) : wire' = wire \o a[1] /\ camera' = a[2]
  /\ requests' = Tail(requests)
  /\ UNCHANGED <<reader, dialogue, history>>

(* Frame i begins with '$' and carries video, or else audio or RTCP.       *)
CameraSends ==
  /\ camera.playing /\ Len(camera.frames) < MaxFrames
  /\ \E video \in BOOLEAN :
       LET f == [n |-> Len(camera.frames) + 1, video |-> video]
       IN  /\ camera' = [camera EXCEPT !.frames = Append(@, video)]
           /\ wire' = wire \o <<[t |-> "magic", f |-> f], [t |-> "length", f |-> f],
                                [t |-> "packet", f |-> f]>>
  /\ UNCHANGED <<requests, reader, dialogue, history>>

-----------------------------------------------------------------------------
(* The requests.  Each is a step of the dialogue that sets dialogue' and   *)
(* requests'.                                                              *)

Request(method, track, channels, realm) ==
  /\ cseq_' = cseq_ + 1
  /\ requests' = Append(requests, [method |-> method, track |-> track, channels |-> channels,
                                   authorized |-> realm])

SendOptions == Request("OPTIONS", "", "", FALSE)

SendDescribe(realm) == Request("DESCRIBE", "", "", realm)

(* A slip to guard against: the tracks are counted when this one is gone.  *)
SendSetupCountedLate(tracks) ==
  IF tracks = <<>> THEN UNCHANGED <<cseq_, requests, track_control_>>
  ELSE /\ track_control_' = Tail(tracks)
       /\ Request("SETUP", Head(tracks), IF Len(Tail(tracks)) > 1 THEN "0-1" ELSE "2-3", realm_)

(* The next track is on the first pair of channels if more than one is     *)
(* left, and on the second if it is the last.                              *)
SendSetup(tracks) ==
  IF tracks = <<>> THEN UNCHANGED <<cseq_, requests>> /\ track_control_' = tracks
  ELSE /\ track_control_' = Tail(tracks)
       /\ Request("SETUP", Head(tracks), IF Len(tracks) > 1 THEN "0-1" ELSE "2-3", realm_)

SendPlay == Request("PLAY", "", "", realm_)

(* The socket is connected and can be written to, once: a request never    *)
(* fills it.                                                               *)
OnWrite ==
  /\ cseq_ = 1
  /\ SendOptions
  /\ UNCHANGED <<wire, reader, realm_, track_control_, history, camera>>

-----------------------------------------------------------------------------
(* What a reply does.                                                      *)

OnUnauthorized ==
  /\ realm_' = TRUE
  /\ SendDescribe(TRUE)
  /\ UNCHANGED track_control_

OnPublic ==
  /\ SendDescribe(realm_)
  /\ UNCHANGED <<realm_, track_control_>>

(* The tracks found behind the head, however many were read with it.       *)
HandlerContentType(pieces) ==
  LET found == Cardinality({k \in DOMAIN pieces : pieces[k].t = "track"})
  IN  /\ SendSetup(track_control_ \o [i \in 1..found |-> pieces[2 + i].what])
      /\ UNCHANGED realm_

(* A slip to guard against: the sixth request is the last one.             *)
HandlerSessionShort ==
  /\ UNCHANGED realm_
  /\ IF track_control_ = <<>> /\ cseq_ < 6 THEN SendPlay /\ UNCHANGED track_control_
     ELSE SendSetup(track_control_)

(* All tracks are set up, or the next one is due.  PLAY's own reply comes  *)
(* here as well, and cseq_ keeps it from asking for ever.                  *)
HandlerSession ==
  /\ UNCHANGED realm_
  /\ IF track_control_ = <<>> /\ cseq_ < 7 THEN SendPlay /\ UNCHANGED track_control_
     ELSE SendSetup(track_control_)

-----------------------------------------------------------------------------
(* OnRead: what was kept and all the socket has, then its loop.            *)

OnRead ==
  /\ ~crashed /\ ~reading
  /\ \E n \in 1..Len(wire) :
       /\ buffer' = recv_buffer_ \o SubSeq(wire, 1, n)
       /\ wire' = SubSeq(wire, n + 1, Len(wire))
  /\ reading' = TRUE /\ recv_buffer_' = <<>>
  /\ UNCHANGED <<requests, crashed, dialogue, history, camera>>

First == buffer[1]
Parsing(t) == reading /\ ~crashed /\ First.t = t

(* The loop goes on with rest, or ends.                                    *)
GoOn(rest) == buffer' = rest /\ reading' = (rest # <<>>)

(* The frames of video whose packets are among pieces.                     *)
VideoIn(pieces) ==
  {pieces[k].f.n : k \in {j \in DOMAIN pieces : pieces[j].t = "packet" /\ pieces[j].f.video}}

(* A frame whose packet has not all been read waits for the next read.     *)
KeepFrame ==
  /\ Parsing("magic") /\ Len(buffer) = 2
  /\ recv_buffer_' = buffer
  /\ GoOn(<<>>)
  /\ UNCHANGED <<requests, wire, crashed, dialogue, history, camera>>

(* A header that has not all been read does not wait: its size is taken    *)
(* from beyond the bytes read, rtsp_magic.length_ is never greater than    *)
(* read_bytes - paser_size - 4 in an unsigned type, and the loop ends      *)
(* behind its buffer.  What lies there may look like a packet.             *)
TearHeader ==
  /\ Parsing("magic") /\ Len(buffer) = 1
  /\ GoOn(<<>>)
  /\ torn' = TRUE /\ stray' \in {stray, TRUE}
  /\ UNCHANGED <<requests, wire, recv_buffer_, crashed, dialogue, signalled, dropped,
                 passed, cut, camera>>

Signal(f) == signalled' = IF f.video THEN Append(signalled, f.n) ELSE signalled

(* A slip to guard against: one frame of each read.                        *)
ParseFrameOnly ==
  /\ Parsing("magic") /\ Len(buffer) > 2
  /\ Signal(buffer[3].f)
  /\ GoOn(<<>>)
  /\ UNCHANGED <<requests, wire, recv_buffer_, crashed, dialogue, stray, dropped, passed,
                 torn, cut, camera>>

ParseFrame ==
  /\ Parsing("magic") /\ Len(buffer) > 2
  /\ Signal(buffer[3].f)
  /\ GoOn(SubSeq(buffer, 4, Len(buffer)))
  /\ UNCHANGED <<requests, wire, recv_buffer_, crashed, dialogue, stray, dropped, passed,
                 torn, cut, camera>>

(* The text takes with it all that was read behind it, half a frame too.   *)
Discard ==
  /\ dropped' = dropped \cup VideoIn(buffer)
  /\ torn' = (torn \/ buffer[Len(buffer)].t \in {"magic", "length"})
  /\ GoOn(<<>>)
  /\ UNCHANGED <<wire, recv_buffer_, crashed, signalled, stray, passed, camera>>

ParseReply ==
  /\ Parsing("status") /\ Len(buffer) > 1
  /\ CASE First.what = "401" -> OnUnauthorized
       [] First.what = "Public" -> OnPublic
       [] First.what = "Content-Type" -> HandlerContentType(buffer)
       [] First.what = "Session" -> HandlerSession
  /\ cut' = (cut \/ (First.what = "Content-Type" /\ Len(buffer) < 2 + camera.tracks))
  /\ Discard

(* Two lines are too few for a reply, and what follows is none.            *)
ParsePartOfReply ==
  /\ \/ Parsing("status") /\ Len(buffer) = 1
     \/ Parsing("head")
     \/ Parsing("track")
  /\ cut' = TRUE
  /\ Discard
  /\ UNCHANGED <<requests, dialogue>>

(* Inside a frame, and at bytes that were never kept, anything may be taken*)
(* for anything: for text or a packet up to the end of the buffer, for a   *)
(* packet or a frame that ends earlier, for a frame that waits for more,   *)
(* or for a packet that does not parse, at which the loop stays for ever.  *)
(* Of bytes never kept there may be more than the buffer holds.            *)
Astray ==
  /\ Parsing("length") \/ Parsing("packet") \/ Parsing("uninitialized")
  /\ torn' = TRUE /\ stray' \in {stray, TRUE}
  /\ \/ \E n \in 1..Len(buffer) :
          /\ passed' = passed \cup VideoIn(SubSeq(buffer, 1, n))
          /\ GoOn(SubSeq(buffer, n + 1, Len(buffer)))
          /\ UNCHANGED <<recv_buffer_, crashed>>
     \/ /\ recv_buffer_' = buffer
        /\ GoOn(<<>>)
        /\ UNCHANGED <<crashed, passed>>
     \/ /\ crashed' = TRUE
        /\ UNCHANGED <<reading, buffer, recv_buffer_, passed>>
  /\ UNCHANGED <<requests, wire, dialogue, signalled, dropped, cut, camera>>

(* Bytes that were never kept may also do no harm: a reply behind zeros is *)
(* read as if they were not there.                                         *)
PassOver ==
  /\ Parsing("uninitialized")
  /\ GoOn(SubSeq(buffer, 2, Len(buffer)))
  /\ UNCHANGED <<requests, wire, recv_buffer_, crashed, dialogue, history, camera>>

Loop ==
  \/ KeepFrame \/ TearHeader \/ ParseFrame
  \/ ParseReply \/ ParsePartOfReply
  \/ Astray \/ PassOver

Next == OnWrite \/ OnRead \/ Loop \/ CameraAnswers \/ CameraSends

(* The camera answers, TCP delivers, and the thread goes on running.       *)
Spec ==
  /\ Init /\ [][Next]_vars
  /\ WF_vars(OnWrite) /\ WF_vars(CameraAnswers) /\ WF_vars(OnRead) /\ WF_vars(Loop)

-----------------------------------------------------------------------------
(* What the camera has sent and OnRead has not parsed, and what it sent of *)
(* video in all.                                                           *)
Unread == recv_buffer_ \o buffer \o wire
Video == {i \in DOMAIN camera.frames : camera.frames[i]}

(* Every packet of video is signalled once and in the order the camera     *)
(* sent them, however TCP cuts the frames, and none before one sent        *)
(* earlier that is still to be parsed; those read behind a reply are lost  *)
(* with it (OnRead's loop and recv_buffer_).  OnRead's comment has an      *)
(* incomplete packet wait for the next read (rtsp_session.cpp:735-740),    *)
(* and one whose header has been read does; a header the read cuts does    *)
(* not.  Only then, or when a reply took half a frame along, is a packet   *)
(* passed over for it, does the loop come to stand inside a frame, and is  *)
(* one signalled that was never sent.                                      *)
PacketsAreSignalled ==
  /\ \A i, j \in DOMAIN signalled : i < j => signalled[i] < signalled[j]
  /\ \A i \in Range(signalled), j \in VideoIn(Unread) : i < j
  /\ Range(signalled) \cup VideoIn(Unread) = Video \ (dropped \cup passed)
  /\ \/ passed # {} \/ stray
     \/ Unread # <<>> /\ Unread[1].t \in {"length", "packet"}
     => torn

(* When PLAY is asked for, the camera has set up every track it described, *)
(* each on channels of its own, unless the description was read in parts   *)
(* (SendSetup, HandlerSession).                                            *)
PlayIsLast ==
  \A i \in DOMAIN requests : requests[i].method = "PLAY" =>
    \/ cut
    \/ /\ {s.track : s \in camera.setup} = Range(Described)
       /\ Cardinality({s.channels : s \in camera.setup}) = camera.tracks

(* The camera is brought to play, with or without a challenge, unless a    *)
(* reply is read in parts, a nonce expires or the first reply is lost to   *)
(* bytes that were never kept (OnRead, and the limit of cseq_ in           *)
(* HandlerSession).                                                        *)
DialogueReachesPlay ==
  <>(camera.playing \/ cut \/ torn \/ camera.stale > 0)
=============================================================================
