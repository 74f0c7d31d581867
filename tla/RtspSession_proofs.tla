-------------------------- MODULE RtspSession_proofs --------------------------
(***************************************************************************)
(* Proofs about RtspSession.tla, for any tracks and bounds.                *)
(***************************************************************************)
EXTENDS RtspSession, SequenceTheorems, FiniteSetTheorems, TLAPS

(***************************************************************************)
(* The inductive invariant.                                                *)
(***************************************************************************)

(* The pieces TCP carries, and what the two ends keep.                     *)
Frame == [n : Nat, video : BOOLEAN]
Names == Range(Tracks)
Pieces == [t : {"status", "head"}, what : Replies] \cup [t : {"track"}, what : Names]
            \cup [t : {"magic", "length", "packet"}, f : Frame] \cup {Uninitialized}
Requests ==
  [method : {"SETUP"}, track : Names, channels : Channels, authorized : BOOLEAN]
    \cup [method : Methods \ {"SETUP"}, track : {""}, channels : {""}, authorized : BOOLEAN]
CameraStates == [guarded : SUBSET Methods, tracks : 1..Len(Tracks),
                 setup : SUBSET [track : Names, channels : Channels],
                 playing : BOOLEAN, stale : Nat, frames : Seq(BOOLEAN)]

TypeOK ==
  /\ requests \in Seq(Requests) /\ wire \in Seq(Pieces)
  /\ reading \in BOOLEAN /\ buffer \in Seq(Pieces) /\ recv_buffer_ \in Seq(Pieces)
  /\ cseq_ \in Nat \ {0} /\ realm_ \in BOOLEAN /\ track_control_ \in Seq(Names)
  /\ crashed \in BOOLEAN /\ signalled \in Seq(Nat) /\ stray \in BOOLEAN
  /\ dropped \subseteq Nat /\ passed \subseteq Nat
  /\ torn \in BOOLEAN /\ cut \in BOOLEAN /\ camera \in CameraStates

(* What was kept waits outside the loop; the loop ends with its buffer.    *)
Buffers == /\ reading => recv_buffer_ = <<>> /\ buffer # <<>>
           /\ ~reading => buffer = <<>>

IsText(p) == p.t \in {"status", "head", "track"}
NoStatus(Q) == \A k \in DOMAIN Q : Q[k].t # "status"

(* A frame that has begun is followed by the rest of it.                   *)
Framed(Q) == \A k \in DOMAIN Q : Q[k].t = "magic" =>
               k + 2 \in DOMAIN Q /\ Q[k + 1].t = "length" /\ Q[k + 2].t = "packet"

(* What is inside a frame follows what comes before it there.              *)
Follows(Q) == \A k \in DOMAIN Q : k > 1 =>
                /\ Q[k].t = "length" => Q[k - 1].t = "magic"
                /\ Q[k].t = "packet" => Q[k - 1].t = "length"
Inside(Q) == Q # <<>> /\ Q[1].t \in {"length", "packet"}

IsVideo(p) == p.t = "packet" /\ p.f.video
InOrder(Q) == \A j, k \in DOMAIN Q : IsVideo(Q[j]) /\ IsVideo(Q[k]) /\ j < k => Q[j].f.n < Q[k].f.n

(* The reply `what` begins at k, and no other text follows.                *)
Size(what) == IF what = "Content-Type" THEN 2 + camera.tracks ELSE 2
ReplyAt(Q, k, what) ==
  /\ \A j \in DOMAIN Q : j >= k => (IsText(Q[j]) <=> j < k + Size(what))
  /\ k + Size(what) - 1 \in DOMAIN Q
  /\ Q[k].t = "status" /\ Q[k].what = what /\ Q[k + 1].t = "head"
  /\ what = "Content-Type" =>
       \A i \in 1..camera.tracks : Q[k + 1 + i].t = "track" /\ Q[k + 1 + i].what = Tracks[i]

(* One request or one reply is under way.                                  *)
Replied(Q) == \A k \in DOMAIN Q : Q[k].t = "status" => ReplyAt(Q, k, Q[k].what)
OneTurn ==
  /\ Replied(Unread) /\ Len(requests) <= 1
  /\ cseq_ = 1 => requests = <<>> /\ NoStatus(Unread)
  /\ requests # <<>> => NoStatus(Unread)

(* The first m tracks are set up.                                          *)
SetUp(m) == \A j \in 1..m :
  [track |-> Tracks[j], channels |-> IF j < camera.tracks THEN "0-1" ELSE "2-3"] \in camera.setup

(* The tracks left end with those described last.                          *)
Aligned(left) == \A j \in 1..camera.tracks : j <= Len(left) =>
                   left[(Len(left) + 1) - j] = Tracks[(camera.tracks + 1) - j]

Due == camera.tracks - Len(track_control_)
Asked(r) ==
  /\ r.method = "SETUP" => /\ SetUp(Due - 1)
                           /\ Due > 0 => /\ r.track = Tracks[Due]
                                         /\ r.channels = IF Due < camera.tracks THEN "0-1" ELSE "2-3"
                           /\ r.track \in Range(Described)
  /\ r.method = "PLAY" => track_control_ = <<>> /\ SetUp(camera.tracks)

(* What is asked for, or was granted, is next.                             *)
Dialogue ==
  /\ \A i \in DOMAIN requests : Asked(requests[i])
  /\ \A k \in DOMAIN Unread :
       Unread[k].t = "status" /\ Unread[k].what = "Session" => SetUp(Due)
  /\ Aligned(track_control_)
  /\ \A k \in DOMAIN track_control_ : track_control_[k] \in Range(Described)
  /\ \A s \in camera.setup : s.track \in Range(Described)
  /\ \A r, s \in camera.setup : r.track = s.track => r = s

Packets ==
  /\ Framed(Unread) /\ InOrder(Unread) /\ Follows(Unread)
  /\ \A i, j \in DOMAIN signalled : i < j => signalled[i] < signalled[j]
  /\ \A i \in Range(signalled), j \in VideoIn(Unread) : i < j
  /\ Range(signalled) \cup VideoIn(Unread) = Video \ (dropped \cup passed)
  /\ dropped \cup passed \subseteq DOMAIN camera.frames
  /\ passed # {} \/ stray \/ Inside(Unread) => torn

IInv == TypeOK /\ Buffers /\ Packets /\ OneTurn /\ (~cut => Dialogue)

-----------------------------------------------------------------------------
(* Sequences, by position.                                                 *)

LEMMA ConcatFacts ==
  ASSUME NEW S, NEW q \in Seq(S), NEW x \in Seq(S)
  PROVE  /\ q \o x \in Seq(S) /\ Len(q \o x) = Len(q) + Len(x)
         /\ \A k \in DOMAIN q : k \in DOMAIN (q \o x) /\ (q \o x)[k] = q[k]
         /\ \A k \in DOMAIN x : Len(q) + k \in DOMAIN (q \o x) /\ (q \o x)[Len(q) + k] = x[k]
         /\ \A k \in DOMAIN (q \o x) :
              k \in DOMAIN q \/ (k - Len(q) \in DOMAIN x /\ (q \o x)[k] = x[k - Len(q)])
<1>1. /\ q \o x \in Seq(S) /\ Len(q \o x) = Len(q) + Len(x)
      /\ \A i \in 1 .. Len(q) + Len(x) :
           (q \o x)[i] = IF i <= Len(q) THEN q[i] ELSE x[i - Len(q)]
  BY ConcatProperties
<1>2. /\ Len(q) \in Nat /\ Len(x) \in Nat /\ DOMAIN q = 1..Len(q) /\ DOMAIN x = 1..Len(x)
      /\ DOMAIN (q \o x) = 1..(Len(q) + Len(x))
  BY <1>1, LenProperties
<1> DEFINE w == q \o x
<1> HIDE DEF w
<1>3. /\ DOMAIN w = 1..(Len(q) + Len(x))
      /\ \A i \in 1 .. Len(q) + Len(x) : w[i] = IF i <= Len(q) THEN q[i] ELSE x[i - Len(q)]
  BY <1>1, <1>2 DEF w
<1>4. \A k \in DOMAIN q : k \in DOMAIN w /\ w[k] = q[k] BY <1>2, <1>3
<1>5. \A k \in DOMAIN x : Len(q) + k \in DOMAIN w /\ w[Len(q) + k] = x[k] BY <1>2, <1>3
<1>6. \A k \in DOMAIN w : k \in DOMAIN q \/ (k - Len(q) \in DOMAIN x /\ w[k] = x[k - Len(q)])
  BY <1>2, <1>3
<1> QED BY <1>1, <1>4, <1>5, <1>6 DEF w

(* P is Q without its first m pieces.                                      *)
Rest(P, Q, m) == /\ m \in Nat /\ Len(Q) = m + Len(P)
                 /\ \A j \in DOMAIN P : m + j \in DOMAIN Q /\ P[j] = Q[m + j]
                 /\ \A j \in DOMAIN Q : j > m => j - m \in DOMAIN P

LEMMA PiecesFacts ==
  ASSUME NEW Q \in Seq(Pieces)
  PROVE  /\ Len(Q) \in Nat /\ DOMAIN Q = 1..Len(Q) /\ \A k \in DOMAIN Q : Q[k] \in Pieces
         /\ \A k \in DOMAIN Q : IsVideo(Q[k]) => Q[k].f.n \in Nat
         /\ \A k \in DOMAIN Q : Q[k].t = "packet" => Q[k].f \in Frame
         /\ Q = <<>> <=> Len(Q) = 0
<1>1. Len(Q) \in Nat /\ DOMAIN Q = 1..Len(Q) /\ (Q = <<>> <=> Len(Q) = 0)
  BY LenProperties, EmptySeq
<1>2. \A k \in DOMAIN Q : Q[k] \in Pieces BY <1>1, ElementOfSeq
<1>3. \A p \in Pieces : p.t = "packet" => p.f \in Frame BY DEF Pieces, Uninitialized
<1>4. \A p \in Pieces : IsVideo(p) => p.f.n \in Nat BY <1>3 DEF IsVideo, Frame
<1> QED BY <1>1, <1>2, <1>3, <1>4

LEMMA RestOfConcat ==
  ASSUME NEW S, NEW q \in Seq(S), NEW x \in Seq(S)
  PROVE  Rest(x, q \o x, Len(q))
<1>1. /\ Len(q \o x) = Len(q) + Len(x)
      /\ \A k \in DOMAIN x : Len(q) + k \in DOMAIN (q \o x) /\ (q \o x)[Len(q) + k] = x[k]
      /\ DOMAIN (q \o x) = 1..(Len(q) + Len(x)) /\ DOMAIN x = 1..Len(x)
      /\ Len(q) \in Nat /\ Len(x) \in Nat
  BY ConcatFacts, LenProperties
<1> DEFINE w == q \o x
<1> HIDE DEF w
<1>2. \A j \in DOMAIN w : j > Len(q) => j - Len(q) \in DOMAIN x BY <1>1 DEF w
<1> QED BY <1>1, <1>2 DEF Rest, w

LEMMA RestKeeps ==
  ASSUME NEW P \in Seq(Pieces), NEW Q \in Seq(Pieces), NEW m, Rest(P, Q, m)
  PROVE  /\ Framed(Q) => Framed(P)
         /\ InOrder(Q) => InOrder(P)
         /\ NoStatus(Q) => NoStatus(P)
         /\ Follows(Q) => Follows(P)
<1>1. m \in Nat /\ DOMAIN P \subseteq Nat /\ DOMAIN P = 1..Len(P) /\ DOMAIN Q = 1..Len(Q)
  BY PiecesFacts DEF Rest
<1>2. ASSUME Framed(Q), NEW k \in DOMAIN P, P[k].t = "magic"
      PROVE  k + 2 \in DOMAIN P /\ P[k + 1].t = "length" /\ P[k + 2].t = "packet"
  <2>1. m + k \in DOMAIN Q /\ Q[m + k].t = "magic" BY <1>2 DEF Rest
  <2>2. /\ (m + k) + 2 \in DOMAIN Q /\ Q[(m + k) + 1].t = "length"
        /\ Q[(m + k) + 2].t = "packet"
    BY <1>2, <2>1 DEF Framed
  <2>3. ((m + k) + 2) - m = k + 2 /\ (m + k) + 2 > m BY <1>1
  <2>4. k + 2 \in DOMAIN P BY <2>2, <2>3 DEF Rest
  <2>5. k + 1 \in DOMAIN P BY <1>1, <2>4, PiecesFacts
  <2>6. m + (k + 1) = (m + k) + 1 /\ m + (k + 2) = (m + k) + 2 BY <1>1
  <2>7. P[k + 1] = Q[(m + k) + 1] /\ P[k + 2] = Q[(m + k) + 2]
    BY <2>4, <2>5, <2>6 DEF Rest
  <2> QED BY <2>2, <2>4, <2>7
<1>3. ASSUME InOrder(Q), NEW j \in DOMAIN P, NEW k \in DOMAIN P, IsVideo(P[j]), IsVideo(P[k]),
             j < k
      PROVE  P[j].f.n < P[k].f.n
  <2>1. /\ m + j \in DOMAIN Q /\ P[j] = Q[m + j] /\ m + k \in DOMAIN Q /\ P[k] = Q[m + k]
        /\ m + j < m + k
    BY <1>1, <1>3 DEF Rest
  <2> QED BY <1>3, <2>1 DEF InOrder
<1>4. NoStatus(Q) => NoStatus(P) BY DEF NoStatus, Rest
<1>5. ASSUME Follows(Q), NEW k \in DOMAIN P, k > 1
      PROVE  /\ P[k].t = "length" => P[k - 1].t = "magic"
             /\ P[k].t = "packet" => P[k - 1].t = "length"
  <2>1. k - 1 \in DOMAIN P BY <1>1, <1>5, PiecesFacts
  <2>2. m + k \in DOMAIN Q /\ P[k] = Q[m + k] /\ P[k - 1] = Q[m + (k - 1)]
    BY <1>5, <2>1 DEF Rest
  <2>3. m + (k - 1) = (m + k) - 1 /\ m + k > 1 BY <1>1, <1>5
  <2> QED BY <1>5, <2>2, <2>3 DEF Follows
<1> QED BY <1>2, <1>3, <1>4, <1>5 DEF Framed, InOrder, Follows

(* What of video is among the first m pieces comes before what is behind.  *)
VideoAmong(Q, m) == {Q[j].f.n : j \in {i \in DOMAIN Q : i <= m /\ IsVideo(Q[i])}}
AllBefore(F, G) == \A i \in F, n \in G : i < n /\ i \in Nat /\ n \in Nat

LEMMA VideoSplit ==
  ASSUME NEW P \in Seq(Pieces), NEW Q \in Seq(Pieces), NEW m, Rest(P, Q, m)
  PROVE  /\ VideoIn(Q) = VideoAmong(Q, m) \cup VideoIn(P)
         /\ InOrder(Q) => AllBefore(VideoAmong(Q, m), VideoIn(P))
<1> DEFINE F == {Q[j].f.n : j \in {i \in DOMAIN Q : i <= m /\ IsVideo(Q[i])}}
<1>1. m \in Nat /\ DOMAIN P = 1..Len(P) /\ DOMAIN Q = 1..Len(Q) /\ Len(P) \in Nat /\ Len(Q) \in Nat
  BY PiecesFacts DEF Rest
<1>2. VideoIn(P) \subseteq VideoIn(Q)
  BY DEF Rest, VideoIn
<1>3. F \subseteq VideoIn(Q) BY DEF VideoIn, IsVideo
<1>4. VideoIn(Q) \subseteq F \cup VideoIn(P)
  <2> SUFFICES ASSUME NEW j \in DOMAIN Q, IsVideo(Q[j]), j > m PROVE Q[j].f.n \in VideoIn(P)
    BY <1>1 DEF VideoIn, IsVideo
  <2>1. j - m \in DOMAIN P BY DEF Rest
  <2>2. m + (j - m) = j BY <1>1
  <2>3. P[j - m] = Q[j] BY <2>1, <2>2 DEF Rest
  <2> QED BY <2>1, <2>3 DEF VideoIn, IsVideo
<1>5. ASSUME InOrder(Q), NEW j \in DOMAIN Q, j <= m, IsVideo(Q[j]), NEW k \in DOMAIN P, IsVideo(P[k])
      PROVE  Q[j].f.n < P[k].f.n /\ Q[j].f.n \in Nat /\ P[k].f.n \in Nat
  <2>1. m + k \in DOMAIN Q /\ P[k] = Q[m + k] /\ j < m + k BY <1>1, <1>5 DEF Rest
  <2> QED BY <1>5, <2>1, PiecesFacts DEF InOrder
<1>6. ASSUME InOrder(Q), NEW i \in F, NEW n \in VideoIn(P) PROVE i < n /\ i \in Nat /\ n \in Nat
  <2>1. PICK j \in DOMAIN Q : j <= m /\ IsVideo(Q[j]) /\ i = Q[j].f.n OBVIOUS
  <2>2. PICK k \in DOMAIN P : IsVideo(P[k]) /\ n = P[k].f.n BY DEF VideoIn, IsVideo
  <2> QED BY <1>5, <1>6, <2>1, <2>2
<1> QED BY <1>2, <1>3, <1>4, <1>6 DEF VideoAmong, AllBefore

(* What OnRead has not parsed, by the buffer it is in.                     *)
LEMMA UnreadFacts ==
  ASSUME TypeOK, Buffers
  PROVE  /\ Unread \in Seq(Pieces)
         /\ reading => /\ Unread = buffer \o wire /\ Rest(wire, Unread, Len(buffer))
                       /\ \A j \in DOMAIN buffer : j \in DOMAIN Unread /\ Unread[j] = buffer[j]
                       /\ 1 \in DOMAIN buffer
         /\ ~reading => Unread = recv_buffer_ \o wire
<1>1. recv_buffer_ \in Seq(Pieces) /\ buffer \in Seq(Pieces) /\ wire \in Seq(Pieces)
  BY DEF TypeOK
<1>2. recv_buffer_ \o buffer \in Seq(Pieces) BY <1>1, ConcatProperties
<1>3. Unread \in Seq(Pieces) BY <1>1, <1>2, ConcatProperties DEF Unread
<1>4. ASSUME reading
      PROVE  /\ Unread = buffer \o wire /\ Rest(wire, Unread, Len(buffer))
             /\ \A j \in DOMAIN buffer : j \in DOMAIN Unread /\ Unread[j] = buffer[j]
             /\ 1 \in DOMAIN buffer
  <2>1. recv_buffer_ = <<>> /\ buffer # <<>> BY <1>4 DEF Buffers
  <2>2. recv_buffer_ \o buffer = buffer BY <1>1, <2>1, ConcatEmptySeq
  <2>3. Unread = buffer \o wire BY <2>2 DEF Unread
  <2>4. 1 \in DOMAIN buffer BY <1>1, <2>1, PiecesFacts
  <2> QED BY <1>1, <2>3, <2>4, ConcatFacts, RestOfConcat
<1>5. ASSUME ~reading PROVE Unread = recv_buffer_ \o wire
  <2>1. buffer = <<>> BY <1>5 DEF Buffers
  <2> QED BY <1>1, <2>1, ConcatEmptySeq DEF Unread
<1> QED BY <1>3, <1>4, <1>5
-----------------------------------------------------------------------------
(* The camera.                                                             *)

LEMMA DescribedFacts ==
  ASSUME RtspAssumption, camera \in CameraStates
  PROVE  /\ Described \in Seq(Names) /\ Len(Described) = camera.tracks
         /\ DOMAIN Described = 1..camera.tracks /\ camera.tracks \in {1, 2}
         /\ \A i \in 1..camera.tracks : Described[i] = Tracks[i] /\ Tracks[i] \in Names
                                        /\ i \in DOMAIN Tracks
         /\ \A i \in 1..camera.tracks : Tracks[i] \in Range(Described)
         /\ Range(Described) \subseteq Names
<1>1. /\ Tracks \in Seq(STRING) /\ Len(Tracks) \in {1, 2} /\ camera.tracks \in 1..Len(Tracks)
      /\ DOMAIN Tracks = 1..Len(Tracks)
  BY LenProperties DEF RtspAssumption, CameraStates
<1>2. Tracks \in Seq(Names)
  BY <1>1, SeqDef DEF Names, Range
<1>3. camera.tracks \in {1, 2} BY <1>1
<1>4. /\ Described \in Seq(Names) /\ Len(Described) = camera.tracks
      /\ \A i \in 1..camera.tracks : Described[i] = Tracks[i]
  BY <1>1, <1>2, <1>3, SubSeqProperties DEF Described
<1>5. DOMAIN Described = 1..camera.tracks BY <1>4, LenProperties
<1>6. \A i \in 1..camera.tracks : i \in DOMAIN Tracks /\ Tracks[i] \in Names
  BY <1>1, <1>3 DEF Names, Range
<1>7. \A i \in 1..camera.tracks : Tracks[i] \in Range(Described)
  BY <1>4, <1>5 DEF Range
<1>8. Range(Described) \subseteq Names BY <1>4, <1>5, <1>6 DEF Range
<1> QED BY <1>3, <1>4, <1>5, <1>6, <1>7, <1>8

(* Answer a to request r, of kind `what`.                                  *)
IsAnswer(a, r, what) ==
  /\ a[1] \in Seq(Pieces) /\ Len(a[1]) = Size(what) /\ ReplyAt(a[1], 1, what)
  /\ a[2] \in CameraStates /\ a[2].tracks = camera.tracks /\ a[2].frames = camera.frames
  /\ what = "Session" => r.method \in {"SETUP", "PLAY"}
  /\ a[2].setup = IF what = "Session" /\ r.method = "SETUP"
                  THEN {s \in camera.setup : s.track # r.track}
                         \cup {[track |-> r.track, channels |-> r.channels]}
                  ELSE camera.setup

IsTextOf(q, what) ==
  /\ q \in Seq(Pieces) /\ Len(q) = 2 /\ DOMAIN q = 1..2
  /\ q[1].t = "status" /\ q[1].what = what /\ q[2].t = "head"

LEMMA TextFacts ==
  ASSUME NEW what \in Replies
  PROVE  IsTextOf(Text(what), what)
<1> DEFINE one == [t |-> "status", what |-> what]
           two == [t |-> "head", what |-> what]
<1>1. one \in Pieces /\ two \in Pieces BY DEF Pieces
<1>2. one.t = "status" /\ one.what = what /\ two.t = "head" OBVIOUS
<1> HIDE DEF one, two
<1>3. <<one, two>> \in Seq(Pieces) /\ Len(<<one, two>>) = 2 /\ DOMAIN <<one, two>> = 1..2
      /\ <<one, two>>[1] = one /\ <<one, two>>[2] = two
  BY <1>1
<1>4. IsTextOf(<<one, two>>, what) BY <1>2, <1>3 DEF IsTextOf
<1> QED BY <1>4 DEF Text, one, two

LEMMA ShortReply ==
  ASSUME NEW what \in Replies \ {"Content-Type"}, NEW q, IsTextOf(q, what)
  PROVE  Len(q) = Size(what) /\ ReplyAt(q, 1, what)
<1>1. Size(what) = 2 BY DEF Size
<1>2. 1 + Size(what) = 3 /\ (1 + Size(what)) - 1 = 2 BY <1>1
<1>3. 1 + 1 = 2 /\ 1 \in 1..2 /\ 2 \in 1..2 /\ 1 \in Nat \ {0} /\ \A j \in 1..2 : j \in {1, 2}
  OBVIOUS
<1>4. /\ q[1].t = "status" /\ q[1].what = what /\ q[2].t = "head" /\ DOMAIN q = 1..2 /\ Len(q) = 2
  BY DEF IsTextOf
<1>5. \A j \in DOMAIN q : IsText(q[j]) /\ j < 3 BY <1>3, <1>4 DEF IsText
<1> QED BY <1>1, <1>2, <1>3, <1>4, <1>5 DEF ReplyAt

LEMMA Description ==
  ASSUME RtspAssumption, camera \in CameraStates
  PROVE  LET d == Text("Content-Type") \o [i \in DOMAIN Described |->
                                            [t |-> "track", what |-> Described[i]]]
         IN  d \in Seq(Pieces) /\ Len(d) = Size("Content-Type") /\ ReplyAt(d, 1, "Content-Type")
<1> DEFINE K == camera.tracks
           x == [i \in DOMAIN Described |-> [t |-> "track", what |-> Described[i]]]
           q == Text("Content-Type")
           d == q \o x
<1>1. /\ K \in {1, 2} /\ DOMAIN Described = 1..K
      /\ \A i \in 1..K : Described[i] = Tracks[i] /\ Tracks[i] \in Names
  BY DescribedFacts
<1>2. \A i \in 1..K : [t |-> "track", what |-> Described[i]] \in Pieces
  BY <1>1 DEF Pieces
<1>3. x \in [1..K -> Pieces] BY <1>1, <1>2
<1>4. x \in Seq(Pieces) /\ Len(x) = K /\ DOMAIN x = 1..K BY <1>1, <1>3, SeqDef
<1>5. \A i \in 1..K : x[i].t = "track" /\ x[i].what = Tracks[i] BY <1>1
<1>6. "Content-Type" \in Replies BY DEF Replies
<1>7. /\ q \in Seq(Pieces) /\ Len(q) = 2 /\ DOMAIN q = 1..2
      /\ q[1].t = "status" /\ q[1].what = "Content-Type" /\ q[2].t = "head"
  <2>1. IsTextOf(q, "Content-Type") BY <1>6, TextFacts
  <2> QED BY <2>1 DEF IsTextOf
<1> HIDE DEF x, q
<1>8. /\ d \in Seq(Pieces) /\ Len(d) = Len(q) + Len(x)
      /\ \A k \in DOMAIN q : k \in DOMAIN d /\ d[k] = q[k]
      /\ \A k \in DOMAIN x : Len(q) + k \in DOMAIN d /\ d[Len(q) + k] = x[k]
  BY ONLY <1>4, <1>7, ConcatFacts
<1> HIDE DEF d
<1>9. Len(d) = 2 + K /\ DOMAIN d = 1..(2 + K)
  <2>1. Len(d) = 2 + K BY <1>4, <1>7, <1>8
  <2> QED BY <1>8, <2>1, LenProperties
<1>10. d[1].t = "status" /\ d[1].what = "Content-Type" /\ d[2].t = "head" BY <1>7, <1>8
<1>11. \A i \in 1..K : d[2 + i].t = "track" /\ d[2 + i].what = Tracks[i]
  <2> TAKE i \in 1..K
  <2>1. d[Len(q) + i] = x[i] BY <1>4, <1>8
  <2>2. Len(q) + i = 2 + i BY <1>7
  <2> QED BY <1>5, <2>1, <2>2
<1>12. \A j \in 1..(2 + K) : IsText(d[j])
  <2> SUFFICES ASSUME NEW j \in 1..(2 + K) PROVE IsText(d[j]) OBVIOUS
  <2>1. CASE j \in {1, 2} BY <2>1, <1>10 DEF IsText
  <2>2. CASE j > 2
    <3>1. j - 2 \in 1..K /\ 2 + (j - 2) = j BY <1>1, <2>2
    <3> QED BY <3>1, <1>11 DEF IsText
  <2> QED BY <1>1, <2>1, <2>2
<1>13. Size("Content-Type") = 2 + K BY DEF Size
<1>14. (1 + (2 + K)) - 1 = 2 + K /\ 1 + 1 = 2 /\ 2 + K \in 1..(2 + K) BY <1>1
<1>15. 1 + (2 + K) = 3 + K /\ (\A j \in 1..(2 + K) : j < 3 + K) /\ \A i \in 1..K : (1 + 1) + i = 2 + i
  BY <1>1
<1>16. ReplyAt(d, 1, "Content-Type") BY <1>9, <1>10, <1>11, <1>12, <1>13, <1>14, <1>15 DEF ReplyAt
<1> QED BY <1>8, <1>9, <1>13, <1>16 DEF d, q, x

LEMMA AnswerFacts ==
  ASSUME RtspAssumption, camera \in CameraStates, NEW r \in Requests, NEW a \in AnswersTo(r)
  PROVE  \E what \in Replies : IsAnswer(a, r, what)
<1>1. r.method \in Methods /\ (r.method = "SETUP" => r.track \in Names /\ r.channels \in Channels)
  BY DEF Requests, Methods
<1>2. CASE a[1] = Text("401") /\ a[2] \in {camera, [camera EXCEPT !.stale = @ + 1]}
  <2>1. "401" \in Replies \ {"Content-Type"} BY DEF Replies
  <2>2. /\ a[2] \in CameraStates /\ a[2].tracks = camera.tracks /\ a[2].frames = camera.frames
        /\ a[2].setup = camera.setup
    BY <1>2 DEF CameraStates
  <2>3. IsAnswer(a, r, "401") BY <1>2, <2>1, <2>2, ShortReply, TextFacts DEF IsAnswer, IsTextOf
  <2> QED BY <2>1, <2>3
<1>3. CASE r.method = "OPTIONS" /\ a = <<Text("Public"), camera>>
  <2>1. "Public" \in Replies \ {"Content-Type"} BY DEF Replies
  <2>2. IsAnswer(a, r, "Public") BY <1>3, <2>1, ShortReply, TextFacts DEF IsAnswer, IsTextOf
  <2> QED BY <2>1, <2>2
<1>4. CASE /\ r.method = "DESCRIBE" /\ a[2] = camera
           /\ a[1] = Text("Content-Type") \o [i \in DOMAIN Described |->
                                               [t |-> "track", what |-> Described[i]]]
  <2>1. IsAnswer(a, r, "Content-Type") BY <1>4, Description DEF IsAnswer
  <2> QED BY <2>1 DEF Replies
<1>5. CASE /\ r.method = "SETUP" /\ a[1] = Text("Session")
           /\ a[2] = [camera EXCEPT !.setup = {s \in camera.setup : s.track # r.track}
                                       \cup {[track |-> r.track, channels |-> r.channels]}]
  <2>1. "Session" \in Replies \ {"Content-Type"} BY DEF Replies
  <2>2. [track |-> r.track, channels |-> r.channels] \in [track : Names, channels : Channels]
    BY <1>1, <1>5
  <2> DEFINE new == {s \in camera.setup : s.track # r.track}
                      \cup {[track |-> r.track, channels |-> r.channels]}
  <2>3. new \in SUBSET [track : Names, channels : Channels] BY <2>2 DEF CameraStates
  <2> HIDE DEF new
  <2>4. a[2] = [camera EXCEPT !.setup = new] BY <1>5 DEF new
  <2>5. /\ a[2] \in CameraStates /\ a[2].tracks = camera.tracks /\ a[2].frames = camera.frames
        /\ a[2].setup = new
    BY <2>3, <2>4 DEF CameraStates
  <2>6. IsAnswer(a, r, "Session")
    BY <1>5, <2>1, <2>5, ShortReply, TextFacts DEF IsAnswer, IsTextOf, new
  <2> QED BY <2>1, <2>6
<1>6. CASE r.method = "PLAY" /\ a = <<Text("Session"), [camera EXCEPT !.playing = TRUE]>>
  <2>1. "Session" \in Replies \ {"Content-Type"} BY DEF Replies
  <2>2. /\ a[2] \in CameraStates /\ a[2].tracks = camera.tracks /\ a[2].frames = camera.frames
        /\ a[2].setup = camera.setup
    BY <1>6 DEF CameraStates
  <2>3. IsAnswer(a, r, "Session") BY <1>6, <2>1, <2>2, ShortReply, TextFacts DEF IsAnswer, IsTextOf
  <2> QED BY <2>1, <2>3
<1>7. \/ a = <<Text("401"), camera>>
      \/ r.method = "OPTIONS" /\ a = <<Text("Public"), camera>>
      \/ /\ r.method = "DESCRIBE"
         /\ a = <<Text("Content-Type") \o [i \in DOMAIN Described |->
                                            [t |-> "track", what |-> Described[i]]], camera>>
      \/ /\ r.method = "SETUP"
         /\ a = <<Text("Session"),
                  [camera EXCEPT !.setup = {s \in camera.setup : s.track # r.track}
                                       \cup {[track |-> r.track, channels |-> r.channels]}]>>
      \/ r.method = "PLAY" /\ a = <<Text("Session"), [camera EXCEPT !.playing = TRUE]>>
      \/ a = <<Text("401"), [camera EXCEPT !.stale = @ + 1]>>
  BY <1>1 DEF AnswersTo, Methods
<1>8. a = <<Text("401"), camera>> \/ a = <<Text("401"), [camera EXCEPT !.stale = @ + 1]>>
        => \E what \in Replies : IsAnswer(a, r, what)
  BY ONLY <1>2
<1>9. ASSUME r.method = "DESCRIBE",
             a = <<Text("Content-Type") \o [i \in DOMAIN Described |->
                                            [t |-> "track", what |-> Described[i]]], camera>>
      PROVE  \E what \in Replies : IsAnswer(a, r, what)
  <2> DEFINE d == Text("Content-Type") \o [i \in DOMAIN Described |->
                                            [t |-> "track", what |-> Described[i]]]
  <2> HIDE DEF d
  <2>1. a = <<d, camera>> BY <1>9 DEF d
  <2>2. a[1] = d /\ a[2] = camera BY ONLY <2>1
  <2> QED BY <1>4, <1>9, <2>2 DEF d
<1>10. ASSUME r.method = "SETUP",
              a = <<Text("Session"),
                  [camera EXCEPT !.setup = {s \in camera.setup : s.track # r.track}
                                       \cup {[track |-> r.track, channels |-> r.channels]}]>>
       PROVE  \E what \in Replies : IsAnswer(a, r, what)
  <2> DEFINE d == [camera EXCEPT !.setup = {s \in camera.setup : s.track # r.track}
                                       \cup {[track |-> r.track, channels |-> r.channels]}]
  <2> HIDE DEF d
  <2>1. a = <<Text("Session"), d>> BY <1>10 DEF d
  <2>2. a[1] = Text("Session") /\ a[2] = d BY ONLY <2>1
  <2> QED BY <1>5, <1>10, <2>2 DEF d
<1> QED BY <1>3, <1>6, <1>7, <1>8, <1>9, <1>10

-----------------------------------------------------------------------------
(* What each step does to the pieces that are unread.                      *)

LEMMA RestThen ==
  ASSUME NEW P \in Seq(Pieces), NEW Q \in Seq(Pieces), NEW m, Rest(P, Q, m),
         NEW x \in Seq(Pieces)
  PROVE  Rest(P \o x, Q \o x, m)
<1> DEFINE p == P \o x
           q == Q \o x
<1>1. /\ m \in Nat /\ Len(Q) = m + Len(P) /\ Len(P) \in Nat /\ Len(x) \in Nat
      /\ DOMAIN P = 1..Len(P) /\ DOMAIN Q = 1..Len(Q) /\ DOMAIN x = 1..Len(x)
      /\ \A j \in DOMAIN P : m + j \in DOMAIN Q /\ P[j] = Q[m + j]
  BY LenProperties DEF Rest
<1>2. /\ p \in Seq(Pieces) /\ Len(p) = Len(P) + Len(x)
      /\ \A k \in DOMAIN P : p[k] = P[k]
      /\ \A k \in DOMAIN x : p[Len(P) + k] = x[k]
  BY ONLY P \in Seq(Pieces), x \in Seq(Pieces), ConcatFacts
<1>3. /\ q \in Seq(Pieces) /\ Len(q) = Len(Q) + Len(x)
      /\ \A k \in DOMAIN Q : q[k] = Q[k]
      /\ \A k \in DOMAIN x : q[Len(Q) + k] = x[k]
  BY ONLY Q \in Seq(Pieces), x \in Seq(Pieces), ConcatFacts
<1> HIDE DEF p, q
<1>4. DOMAIN p = 1..Len(p) /\ DOMAIN q = 1..Len(q) BY <1>2, <1>3, LenProperties
<1>5. \A j \in DOMAIN p : m + j \in DOMAIN q /\ p[j] = q[m + j]
  <2> TAKE j \in DOMAIN p
  <2>1. m + j \in DOMAIN q BY <1>1, <1>2, <1>3, <1>4
  <2>2. CASE j \in DOMAIN P BY <2>2, <1>1, <1>2, <1>3
  <2>3. CASE j \notin DOMAIN P
    <3>1. j - Len(P) \in DOMAIN x /\ Len(P) + (j - Len(P)) = j
          /\ Len(Q) + (j - Len(P)) = m + j
      BY <2>3, <1>1, <1>2, <1>4
    <3> QED BY <3>1, <1>2, <1>3, <2>1
  <2> QED BY <2>2, <2>3
<1>6. \A j \in DOMAIN q : j > m => j - m \in DOMAIN p BY <1>1, <1>2, <1>3, <1>4
<1>7. Len(q) = m + Len(p) BY <1>1, <1>2, <1>3
<1> QED BY <1>1, <1>5, <1>6, <1>7 DEF Rest, p, q

LEMMA PiecesAssociate ==
  \A a, b, c \in Seq(Pieces) : (a \o b) \o c = a \o (b \o c)
<1> SUFFICES ASSUME NEW S PROVE \A a, b, c \in Seq(S) : (a \o b) \o c = a \o (b \o c)
  OBVIOUS
<1> QED BY ConcatAssociative

LEMMA UnreadByRead ==
  ASSUME TypeOK, Buffers, OnRead
  PROVE  /\ wire' \in Seq(Pieces) /\ buffer' \in Seq(Pieces) /\ recv_buffer_' \in Seq(Pieces)
         /\ buffer' # <<>> /\ Unread' = Unread
<1>1. recv_buffer_ \in Seq(Pieces) /\ wire \in Seq(Pieces) BY DEF TypeOK
<1>2. PICK n \in 1..Len(wire) : /\ buffer' = recv_buffer_ \o SubSeq(wire, 1, n)
                                /\ wire' = SubSeq(wire, n + 1, Len(wire))
  BY DEF OnRead
<1> DEFINE a == SubSeq(wire, 1, n)
           b == SubSeq(wire, n + 1, Len(wire))
<1>3. Len(wire) \in Nat /\ DOMAIN wire = 1..Len(wire) BY <1>1, LenProperties
<1>4. \A i \in 1..Len(wire) : wire[i] \in Pieces BY <1>1, ElementOfSeq
<1>5. a \in Seq(Pieces) /\ Len(a) = n
  <2>1. \A i \in 1..n : wire[i] \in Pieces BY <1>3, <1>4
  <2> QED BY <1>3, <2>1, SubSeqProperties
<1>6. b \in Seq(Pieces)
  <2>1. \A i \in n + 1 .. Len(wire) : wire[i] \in Pieces BY <1>3, <1>4
  <2> QED BY <1>3, <2>1, SubSeqProperties
<1>7. a \o b = wire
  <2>1. 1 \in 1..(Len(wire) + 1) /\ n \in 1 - 1 .. Len(wire) /\ Len(wire) \in n..Len(wire)
    BY <1>3
  <2>2. a \o b = SubSeq(wire, 1, Len(wire)) BY <1>1, <2>1, ConcatAdjacentSubSeq
  <2> QED BY <1>1, <2>2, SubSeqFull
<1> HIDE DEF a, b
<1>8. buffer' = recv_buffer_ \o a /\ wire' = b /\ recv_buffer_' = <<>>
  BY <1>2 DEF a, b, OnRead
<1>9. recv_buffer_ \o a \in Seq(Pieces) /\ Len(recv_buffer_ \o a) = Len(recv_buffer_) + n
  BY <1>1, <1>5, ConcatProperties
<1>10. buffer' # <<>>
  <2>1. Len(buffer') > 0 BY <1>1, <1>3, <1>8, <1>9, LenProperties
  <2> QED BY <2>1, <1>8, <1>9, EmptySeq
<1>11. Unread' = buffer' \o wire'
  BY <1>8, <1>9, ConcatEmptySeq DEF Unread
<1>12. (recv_buffer_ \o a) \o b = recv_buffer_ \o wire
  <2>1. (recv_buffer_ \o a) \o b = recv_buffer_ \o (a \o b)
    BY <1>1, <1>5, <1>6, PiecesAssociate
  <2> QED BY <1>7, <2>1
<1>13. Unread = recv_buffer_ \o wire BY UnreadFacts DEF OnRead
<1>14. <<>> \in Seq(Pieces) BY EmptySeq
<1> QED BY <1>6, <1>8, <1>9, <1>10, <1>11, <1>12, <1>13, <1>14

LEMMA UnreadByKeep ==
  ASSUME TypeOK, Buffers, KeepFrame
  PROVE  /\ wire' \in Seq(Pieces) /\ buffer' \in Seq(Pieces) /\ recv_buffer_' \in Seq(Pieces)
         /\ Unread' = Unread
<1>1. buffer \in Seq(Pieces) /\ wire \in Seq(Pieces) BY DEF TypeOK
<1>2. recv_buffer_' = buffer /\ buffer' = <<>> /\ wire' = wire BY DEF KeepFrame, GoOn
<1>3. Unread = buffer \o wire BY UnreadFacts DEF KeepFrame, Parsing
<1>4. Unread' = (buffer \o <<>>) \o wire BY <1>2 DEF Unread
<1>5. buffer \o <<>> = buffer BY <1>1, ConcatEmptySeq
<1> QED BY <1>1, <1>2, <1>3, <1>4, <1>5, EmptySeq

LEMMA UnreadByPass ==
  ASSUME TypeOK, Buffers, reading, NEW n \in 1..Len(buffer),
         GoOn(SubSeq(buffer, n + 1, Len(buffer))), UNCHANGED <<wire, recv_buffer_>>
  PROVE  /\ buffer' \in Seq(Pieces) /\ Unread' = buffer' \o wire /\ Unread' \in Seq(Pieces)
         /\ Rest(buffer', buffer, n) /\ Rest(Unread', Unread, n)
         /\ reading' = (buffer' # <<>>) /\ recv_buffer_' = <<>>
<1>1. buffer \in Seq(Pieces) /\ wire \in Seq(Pieces) /\ recv_buffer_ = <<>>
  BY DEF TypeOK, Buffers
<1>2. /\ buffer' = SubSeq(buffer, n + 1, Len(buffer)) /\ wire' = wire
      /\ recv_buffer_' = recv_buffer_ /\ reading' = (buffer' # <<>>)
  BY DEF GoOn
<1>3. Len(buffer) \in Nat /\ DOMAIN buffer = 1..Len(buffer) BY <1>1, LenProperties
<1>4. \A i \in n + 1 .. Len(buffer) : buffer[i] \in Pieces
  <2>1. n + 1 .. Len(buffer) \subseteq DOMAIN buffer BY <1>3
  <2> QED BY <1>1, <2>1, PiecesFacts
<1>5. /\ buffer' \in Seq(Pieces)
      /\ Len(buffer') = IF n + 1 <= Len(buffer) THEN Len(buffer) - (n + 1) + 1 ELSE 0
      /\ \A i \in 1 .. Len(buffer) - (n + 1) + 1 : buffer'[i] = buffer[(n + 1) + i - 1]
  BY <1>2, <1>3, <1>4, SubSeqProperties
<1>0. n \in Nat /\ n >= 1 /\ n <= Len(buffer) BY <1>3
<1>6. Len(buffer') = Len(buffer) - n /\ DOMAIN buffer' = 1..(Len(buffer) - n)
  <2>1. Len(buffer') = Len(buffer) - n
    <3> DEFINE l == Len(buffer)
    <3>1. Len(buffer') = IF n + 1 <= l THEN l - (n + 1) + 1 ELSE 0 BY <1>5, Zenon
    <3>2. l \in Nat /\ n \in Nat /\ n <= l BY <1>0, <1>3
    <3> HIDE DEF l
    <3>3. CASE n + 1 <= l
      <4>1. l - (n + 1) + 1 = l - n BY <3>2
      <4> QED BY <3>1, <3>3, <4>1, Zenon DEF l
    <3>4. CASE ~(n + 1 <= l)
      <4>1. 0 = l - n BY <3>2, <3>4
      <4> QED BY <3>1, <3>4, <4>1, Zenon DEF l
    <3> QED BY <3>3, <3>4
  <2>2. DOMAIN buffer' = 1..Len(buffer') BY <1>5, LenProperties
  <2> QED BY <2>1, <2>2
<1>7. \A j \in DOMAIN buffer' : n + j \in DOMAIN buffer /\ buffer'[j] = buffer[n + j]
  <2> TAKE j \in DOMAIN buffer'
  <2>1. j \in 1 .. Len(buffer) - (n + 1) + 1 /\ (n + 1) + j - 1 = n + j
    BY <1>0, <1>3, <1>6
  <2>2. buffer'[j] = buffer[n + j] BY <1>5, <2>1
  <2>3. n + j \in 1..Len(buffer) BY <1>0, <1>3, <1>6
  <2> QED BY <1>3, <2>2, <2>3
<1>8. Rest(buffer', buffer, n)
  <2>1. \A j \in DOMAIN buffer : j > n => j - n \in DOMAIN buffer' BY <1>3, <1>6
  <2> QED BY <1>3, <1>6, <1>7, <2>1 DEF Rest
<1>9. Unread = buffer \o wire BY UnreadFacts
<1>10. Unread' = buffer' \o wire BY <1>1, <1>2, <1>5, ConcatEmptySeq DEF Unread
<1>11. Rest(buffer' \o wire, buffer \o wire, n) BY <1>1, <1>5, <1>8, RestThen
<1>12. buffer' \o wire \in Seq(Pieces) BY <1>1, <1>5, ConcatProperties
<1> QED BY <1>1, <1>2, <1>5, <1>8, <1>9, <1>10, <1>11, <1>12

LEMMA UnreadByFrame ==
  ASSUME TypeOK, Buffers, ParseFrame
  PROVE  /\ buffer' \in Seq(Pieces) /\ Unread' \in Seq(Pieces) /\ Rest(Unread', Unread, 3)
<1>1. /\ reading /\ Len(buffer) > 2 /\ GoOn(SubSeq(buffer, 4, Len(buffer)))
      /\ UNCHANGED <<wire, recv_buffer_>>
  BY DEF ParseFrame, Parsing
<1>2. Len(buffer) \in Nat BY LenProperties DEF TypeOK
<1>3. 3 \in 1..Len(buffer) /\ 3 + 1 = 4 BY <1>1, <1>2
<1> QED BY <1>1, <1>3, UnreadByPass

LEMMA UnreadByDiscard ==
  ASSUME TypeOK, Buffers, reading, Discard \/ TearHeader
  PROVE  /\ Unread' = wire /\ buffer' = <<>> /\ reading' = FALSE /\ recv_buffer_' = <<>>
         /\ wire' = wire /\ Unread = buffer \o wire /\ Rest(wire, Unread, Len(buffer))
<1>1. wire \in Seq(Pieces) /\ recv_buffer_ = <<>> BY DEF TypeOK, Buffers
<1>2. buffer' = <<>> /\ reading' = FALSE /\ wire' = wire /\ recv_buffer_' = recv_buffer_
  BY DEF Discard, TearHeader, GoOn
<1>3. Unread' = (<<>> \o <<>>) \o wire BY <1>1, <1>2 DEF Unread
<1>4. <<>> \o <<>> = <<>> /\ <<>> \in Seq(Pieces) BY ConcatEmptySeq, EmptySeq
<1>5. Unread' = wire BY <1>1, <1>3, <1>4, ConcatEmptySeq
<1> QED BY <1>1, <1>2, <1>5, UnreadFacts

(* The loop that stands where nothing begins passes over n pieces, keeps   *)
(* them all, or is never done.                                             *)
LEMMA UnreadAstray ==
  ASSUME TypeOK, Buffers, Astray
  PROVE  \/ \E n \in 1..Len(buffer) :
               /\ passed' = passed \cup VideoIn(SubSeq(buffer, 1, n))
               /\ GoOn(SubSeq(buffer, n + 1, Len(buffer)))
               /\ UNCHANGED <<wire, recv_buffer_, crashed>>
         \/ /\ Unread' = Unread /\ passed' = passed /\ TypeOK' /\ Buffers'
<1>1. CASE \E n \in 1..Len(buffer) :
             /\ passed' = passed \cup VideoIn(SubSeq(buffer, 1, n))
             /\ GoOn(SubSeq(buffer, n + 1, Len(buffer)))
             /\ UNCHANGED <<recv_buffer_, crashed>>
  BY <1>1 DEF Astray
<1>2. /\ reading /\ wire' = wire /\ torn' \in BOOLEAN /\ stray' \in BOOLEAN
      /\ UNCHANGED <<requests, cseq_, realm_, track_control_, signalled, dropped, cut, camera>>
  BY DEF Astray, Parsing, dialogue, TypeOK
<1>3. buffer \in Seq(Pieces) /\ <<>> \in Seq(Pieces) BY EmptySeq DEF TypeOK
<1>4. CASE recv_buffer_' = buffer /\ GoOn(<<>>) /\ UNCHANGED <<crashed, passed>>
  <2>1. buffer' = <<>> /\ reading' = FALSE BY <1>4 DEF GoOn
  <2>2. Unread = buffer \o wire BY <1>2, UnreadFacts
  <2>3. Unread' = (buffer \o <<>>) \o wire BY <1>2, <1>4, <2>1 DEF Unread
  <2>4. buffer \o <<>> = buffer BY <1>3, ConcatEmptySeq
  <2>5. TypeOK' BY <1>2, <1>3, <1>4, <2>1 DEF TypeOK
  <2>6. Buffers' BY <2>1 DEF Buffers
  <2> QED BY <1>4, <2>2, <2>3, <2>4, <2>5, <2>6
<1>5. CASE crashed' = TRUE /\ UNCHANGED <<reading, buffer, recv_buffer_, passed>>
  <2>1. Unread' = Unread BY <1>2, <1>5 DEF Unread
  <2>2. TypeOK' /\ Buffers' BY <1>2, <1>5 DEF TypeOK, Buffers
  <2> QED BY <1>5, <2>1, <2>2
<1> QED BY <1>1, <1>4, <1>5 DEF Astray

LEMMA UnreadOtherwise ==
  ASSUME TypeOK, Buffers, TearHeader \/ Astray \/ PassOver
  PROVE  Unread' = Unread \/ \E n : Rest(Unread', Unread, n)
<1>1. CASE TearHeader
  <2>1. reading BY <1>1 DEF TearHeader, Parsing
  <2> QED BY <1>1, <2>1, UnreadByDiscard
<1>2. CASE Astray
  <2>1. reading BY <1>2 DEF Astray, Parsing
  <2> QED BY <1>2, <2>1, UnreadAstray, UnreadByPass
<1>3. CASE PassOver
  <2>1. reading /\ GoOn(SubSeq(buffer, 2, Len(buffer))) /\ UNCHANGED <<wire, recv_buffer_>>
    BY <1>3 DEF PassOver, Parsing
  <2>2. 1 \in 1..Len(buffer) /\ 1 + 1 = 2 BY <2>1, PiecesFacts DEF TypeOK, Buffers
  <2> QED BY <2>1, <2>2, UnreadByPass
<1> QED BY <1>1, <1>2, <1>3

LEMMA UnreadByCamera ==
  ASSUME TypeOK, NEW x \in Seq(Pieces), wire' = wire \o x, UNCHANGED reader
  PROVE  wire' \in Seq(Pieces) /\ Unread' = Unread \o x
<1>1. recv_buffer_ \in Seq(Pieces) /\ buffer \in Seq(Pieces) /\ wire \in Seq(Pieces)
  BY DEF TypeOK
<1>2. recv_buffer_ \o buffer \in Seq(Pieces) BY <1>1, ConcatProperties
<1>3. wire \o x \in Seq(Pieces) BY <1>1, ConcatProperties
<1>4. Unread' = (recv_buffer_ \o buffer) \o (wire \o x) BY DEF Unread, reader
<1>5. (recv_buffer_ \o buffer) \o (wire \o x) = ((recv_buffer_ \o buffer) \o wire) \o x
  <2> DEFINE q == recv_buffer_ \o buffer
  <2> HIDE DEF q
  <2>1. q \in Seq(Pieces) BY <1>2 DEF q
  <2>2. q \o (wire \o x) = (q \o wire) \o x
    BY <1>1, <2>1, PiecesAssociate
  <2> QED BY <2>2 DEF q
<1> QED BY <1>3, <1>4, <1>5 DEF Unread

LEMMA RestReplied ==
  ASSUME NEW P \in Seq(Pieces), NEW Q \in Seq(Pieces), NEW m, Rest(P, Q, m), Replied(Q),
         camera.tracks \in Nat
  PROVE  Replied(P)
<1>1. /\ m \in Nat /\ DOMAIN P = 1..Len(P) /\ DOMAIN Q = 1..Len(Q) /\ Len(P) \in Nat
      /\ Len(Q) = m + Len(P)
      /\ \A j \in DOMAIN P : m + j \in DOMAIN Q /\ P[j] = Q[m + j]
  BY PiecesFacts DEF Rest
<1> SUFFICES ASSUME NEW k \in DOMAIN P, P[k].t = "status" PROVE ReplyAt(P, k, P[k].what)
  BY DEF Replied
<1> DEFINE what == P[k].what
           z == Size(what)
<1>2. z \in Nat /\ z >= 2 /\ (what = "Content-Type" => z = 2 + camera.tracks) BY DEF Size
<1>3. m + k \in DOMAIN Q /\ Q[m + k] = P[k] BY <1>1
<1>4. ReplyAt(Q, m + k, what) BY <1>3 DEF Replied
<1> HIDE DEF what, z
<1>5. /\ \A j \in DOMAIN Q : j >= m + k => (IsText(Q[j]) <=> j < (m + k) + z)
      /\ ((m + k) + z) - 1 \in DOMAIN Q /\ Q[m + k].what = what /\ Q[(m + k) + 1].t = "head"
      /\ what = "Content-Type" =>
           \A i \in 1..camera.tracks : /\ Q[((m + k) + 1) + i].t = "track"
                                       /\ Q[((m + k) + 1) + i].what = Tracks[i]
  BY <1>1, <1>2, <1>3, <1>4 DEF ReplyAt, z
<1>6. k \in Nat /\ k > 0 /\ (k + z) - 1 \in DOMAIN P /\ k + 1 \in DOMAIN P
  <2>1. k \in Nat /\ k > 0 /\ k <= Len(P) /\ ((m + k) + z) - 1 <= Len(Q) BY <1>1, <1>5
  <2>2. (k + z) - 1 \in 1..Len(P) /\ k + 1 \in 1..Len(P) BY ONLY <1>1, <1>2, <2>1
  <2> QED BY <1>1, <2>1, <2>2
<1>7. \A j \in DOMAIN P : j >= k => (IsText(P[j]) <=> j < k + z)
  <2> TAKE j \in DOMAIN P
  <2> HAVE j >= k
  <2>1. m + j \in DOMAIN Q /\ P[j] = Q[m + j] /\ m + j >= m + k
        /\ (m + j < (m + k) + z <=> j < k + z)
    BY <1>1, <1>2
  <2> QED BY <1>5, <2>1
<1>8. P[k + 1].t = "head"
  <2>1. m + (k + 1) = (m + k) + 1 BY <1>1, <1>6
  <2> QED BY <1>1, <1>5, <1>6, <2>1
<1>9. ASSUME what = "Content-Type", NEW i \in 1..camera.tracks
      PROVE  P[k + 1 + i].t = "track" /\ P[k + 1 + i].what = Tracks[i]
  <2>0. /\ m \in Nat /\ k \in Nat /\ i \in Nat /\ i >= 1 /\ Len(P) \in Nat
        /\ (k + z) - 1 <= Len(P) /\ i <= z - 2 /\ z \in Nat
    <3>1. i \in Nat /\ i >= 1 /\ i <= camera.tracks BY i \in 1..camera.tracks, camera.tracks \in Nat
    <3>2. i <= z - 2 /\ z \in Nat BY <1>2, <1>9, <3>1
    <3>3. (k + z) - 1 <= Len(P)
      <4>1. (k + z) - 1 \in 1..Len(P) BY <1>1, <1>6
      <4> QED BY <4>1
    <3> QED BY <1>1, <1>6, <3>1, <3>2, <3>3
  <2>1. (k + 1) + i \in DOMAIN P
    <3>1. (k + 1) + i \in 1..Len(P) BY ONLY <2>0
    <3> QED BY <1>1, <3>1
  <2>2. m + ((k + 1) + i) = ((m + k) + 1) + i BY ONLY <2>0
  <2>3. P[(k + 1) + i] = Q[((m + k) + 1) + i] BY <1>1, <2>1, <2>2
  <2> QED BY <1>5, <1>9, <2>3
<1>10. ReplyAt(P, k, what) BY <1>2, <1>3, <1>6, <1>7, <1>8, <1>9, P[k].t = "status" DEF ReplyAt, what, z
<1> QED BY <1>10 DEF what

(* Frames behind a reply leave it as it is.                                *)
LEMMA RepliedThenFrames ==
  ASSUME NEW Q \in Seq(Pieces), NEW x \in Seq(Pieces), Replied(Q), camera.tracks \in Nat,
         \A k \in DOMAIN x : ~IsText(x[k])
  PROVE  Replied(Q \o x) /\ (NoStatus(Q) => NoStatus(Q \o x))
<1> DEFINE q == Q \o x
<1>1. /\ Len(q) = Len(Q) + Len(x)
      /\ \A k \in DOMAIN Q : k \in DOMAIN q /\ q[k] = Q[k]
      /\ \A k \in DOMAIN q : k \in DOMAIN Q \/ (k - Len(Q) \in DOMAIN x /\ q[k] = x[k - Len(Q)])
  BY ONLY Q \in Seq(Pieces), x \in Seq(Pieces), ConcatFacts
<1>2. DOMAIN Q = 1..Len(Q) /\ Len(Q) \in Nat BY PiecesFacts
<1> HIDE DEF q
<1>3. \A k \in DOMAIN q : k \notin DOMAIN Q => ~IsText(q[k]) BY <1>1
<1>4. \A p : p.t = "status" => IsText(p) BY DEF IsText
<1>5. NoStatus(Q) => NoStatus(q)
  <2> SUFFICES ASSUME NoStatus(Q), NEW k \in DOMAIN q PROVE q[k].t # "status" BY DEF NoStatus
  <2>1. CASE k \in DOMAIN Q BY <1>1, <2>1 DEF NoStatus
  <2>2. CASE k \notin DOMAIN Q BY <1>3, <1>4, <2>2
  <2> QED BY <2>1, <2>2
<1>6. ASSUME NEW k \in DOMAIN q, q[k].t = "status" PROVE ReplyAt(q, k, q[k].what)
  <2>1. k \in DOMAIN Q /\ q[k] = Q[k] BY <1>1, <1>3, <1>4, <1>6
  <2> DEFINE what == q[k].what
             z == Size(what)
  <2>2. ReplyAt(Q, k, what) BY <1>6, <2>1 DEF Replied
  <2>3. z \in Nat /\ z >= 2 /\ (what = "Content-Type" => z = 2 + camera.tracks) BY DEF Size
  <2> HIDE DEF what, z
  <2>4. /\ \A j \in DOMAIN Q : j >= k => (IsText(Q[j]) <=> j < k + z)
        /\ (k + z) - 1 \in DOMAIN Q /\ Q[k].what = what /\ Q[k + 1].t = "head"
        /\ what = "Content-Type" =>
             \A i \in 1..camera.tracks : Q[(k + 1) + i].t = "track" /\ Q[(k + 1) + i].what = Tracks[i]
    BY <1>2, <2>1, <2>2, <2>3 DEF ReplyAt, z
  <2>5. /\ k + 1 \in DOMAIN Q
        /\ what = "Content-Type" => \A i \in 1..camera.tracks : (k + 1) + i \in DOMAIN Q
        /\ \A j \in 1..Len(q) : j \notin DOMAIN Q => ~(j < k + z)
    BY <1>2, <2>1, <2>3, <2>4
  <2>6. \A j \in DOMAIN q : j >= k => (IsText(q[j]) <=> j < k + z)
    <3> TAKE j \in DOMAIN q
    <3> HAVE j >= k
    <3>1. CASE j \in DOMAIN Q BY <3>1, <1>1, <2>4
    <3>2. CASE j \notin DOMAIN Q
      <4>1. DOMAIN q = 1..Len(q)
        BY ConcatProperties, LenProperties DEF q
      <4> QED BY <4>1, <3>2, <1>3, <2>5
    <3> QED BY <3>1, <3>2
  <2>7. /\ (k + z) - 1 \in DOMAIN q /\ q[k + 1].t = "head"
        /\ what = "Content-Type" =>
             \A i \in 1..camera.tracks : q[(k + 1) + i].t = "track" /\ q[(k + 1) + i].what = Tracks[i]
    BY <1>1, <2>4, <2>5
  <2>8. ReplyAt(q, k, what) BY <1>2, <1>6, <2>1, <2>3, <2>6, <2>7 DEF ReplyAt, z, what
  <2> QED BY <2>8 DEF what
<1>7. Replied(q) BY <1>6 DEF Replied
<1> QED BY <1>5, <1>7 DEF q

(* A reply is appended where there is none.                                *)
LEMMA RepliedThenReply ==
  ASSUME NEW Q \in Seq(Pieces), NEW x \in Seq(Pieces), NoStatus(Q), camera.tracks \in 1..2,
         NEW what, Len(x) = Size(what), ReplyAt(x, 1, what)
  PROVE  /\ Replied(Q \o x)
         /\ \A k \in DOMAIN (Q \o x) : (Q \o x)[k].t = "status" => (Q \o x)[k].what = what
<1> DEFINE q == Q \o x
           n == Len(Q)
           z == Size(what)
<1>1. /\ Len(q) = n + Len(x)
      /\ \A k \in DOMAIN Q : k \in DOMAIN q /\ q[k] = Q[k]
      /\ \A k \in DOMAIN x : n + k \in DOMAIN q /\ q[n + k] = x[k]
      /\ \A k \in DOMAIN q : k \in DOMAIN Q \/ (k - n \in DOMAIN x /\ q[k] = x[k - n])
  BY ONLY Q \in Seq(Pieces), x \in Seq(Pieces), ConcatFacts
<1>2. DOMAIN Q = 1..n /\ n \in Nat /\ DOMAIN x = 1..Len(x) BY PiecesFacts
<1>3. z \in Nat /\ z >= 2 /\ (what = "Content-Type" => z = 2 + camera.tracks)
      /\ (what # "Content-Type" => z = 2)
  BY DEF Size
<1>4. Len(x) = z /\ DOMAIN x = 1..z BY <1>2
<1> HIDE DEF q, n, z
<1>5. /\ \A j \in DOMAIN x : j >= 1 => (IsText(x[j]) <=> j < 1 + z)
      /\ x[1].t = "status" /\ x[1].what = what /\ x[1 + 1].t = "head"
      /\ what = "Content-Type" =>
           \A i \in 1..camera.tracks : x[(1 + 1) + i].t = "track" /\ x[(1 + 1) + i].what = Tracks[i]
  BY DEF ReplyAt, z
<1>6. \A j \in DOMAIN x : IsText(x[j]) BY <1>3, <1>4, <1>5
<1>7. \A j \in DOMAIN x : x[j].t = "status" => j = 1
  <2> SUFFICES ASSUME NEW j \in DOMAIN x, j # 1 PROVE x[j].t # "status" OBVIOUS
  <2>1. CASE j = 2 BY <2>1, <1>5
  <2>2. CASE j > 2
    <3>1. what = "Content-Type" /\ j - 2 \in 1..camera.tracks /\ (1 + 1) + (j - 2) = j
      BY <1>3, <1>4, <2>2
    <3> QED BY <3>1, <1>5
  <2> QED BY <1>3, <1>4, <2>1, <2>2
<1>8. \A k \in DOMAIN q : q[k].t = "status" => k = n + 1
  <2> SUFFICES ASSUME NEW k \in DOMAIN q, q[k].t = "status" PROVE k = n + 1 OBVIOUS
  <2>1. k \notin DOMAIN Q BY <1>1 DEF NoStatus
  <2>2. k - n \in DOMAIN x /\ q[k] = x[k - n] BY <1>1, <2>1
  <2>3. k - n = 1 BY <1>7, <2>2
  <2>4. k \in Int
    <3>1. DOMAIN q = 1..Len(q) BY ConcatProperties, LenProperties DEF q
    <3> QED BY <3>1
  <2> QED BY <1>2, <2>3, <2>4
<1>9. q[n + 1] = x[1] /\ n + 1 \in DOMAIN q /\ DOMAIN q = 1..(n + z)
  <2>1. DOMAIN q = 1..Len(q) BY ConcatProperties, LenProperties DEF q
  <2>2. 1 \in DOMAIN x BY <1>3, <1>4
  <2> QED BY <1>1, <1>4, <2>1, <2>2
<1>10. \A j \in DOMAIN q : j >= n + 1 => (IsText(q[j]) <=> j < (n + 1) + z)
  <2> TAKE j \in DOMAIN q
  <2> HAVE j >= n + 1
  <2>1. j \notin DOMAIN Q BY <1>2
  <2>2. IsText(q[j]) BY <1>1, <1>6, <2>1
  <2> QED BY <1>2, <1>3, <1>9, <2>2
<1>11. q[(n + 1) + 1].t = "head"
  <2>1. 2 \in DOMAIN x /\ n + 2 = (n + 1) + 1 /\ 1 + 1 = 2 BY <1>2, <1>3, <1>4
  <2> QED BY <1>1, <1>5, <2>1
<1>12. ASSUME what = "Content-Type", NEW i \in 1..camera.tracks
       PROVE  q[((n + 1) + 1) + i].t = "track" /\ q[((n + 1) + 1) + i].what = Tracks[i]
  <2>1. (1 + 1) + i \in DOMAIN x /\ n + ((1 + 1) + i) = ((n + 1) + 1) + i
    BY <1>2, <1>3, <1>4, <1>12
  <2>2. q[((n + 1) + 1) + i] = x[(1 + 1) + i] BY <1>1, <2>1
  <2> QED BY <1>5, <1>12, <2>2
<1>13. ((n + 1) + z) - 1 \in DOMAIN q BY <1>2, <1>3, <1>9
<1>14. ReplyAt(q, n + 1, what)
  BY <1>2, <1>3, <1>5, <1>9, <1>10, <1>11, <1>12, <1>13 DEF ReplyAt, z
<1>15. \A k \in DOMAIN q : q[k].t = "status" => q[k].what = what BY <1>5, <1>8, <1>9
<1>16. Replied(q) BY <1>5, <1>8, <1>9, <1>14 DEF Replied
<1> QED BY <1>15, <1>16 DEF q

-----------------------------------------------------------------------------
(* What the client asks for.                                               *)

IsRequest(method, track, channels) ==
  \/ method = "SETUP" /\ track \in Names /\ channels \in Channels
  \/ method \in Methods \ {"SETUP"} /\ track = "" /\ channels = ""

(* The next request, if the one before is answered.                        *)
IsNext(method, track, channels) ==
  requests = <<>> => /\ Len(requests') = 1
                     /\ \A i \in DOMAIN requests' : /\ requests'[i].method = method
                                                    /\ requests'[i].track = track
                                                    /\ requests'[i].channels = channels

LEMMA RequestFacts ==
  ASSUME TypeOK, NEW m, NEW t, NEW c, NEW z \in BOOLEAN, IsRequest(m, t, c), Request(m, t, c, z)
  PROVE  /\ requests' \in Seq(Requests) /\ cseq_' \in Nat \ {0} /\ cseq_' > 1
         /\ IsNext(m, t, c) /\ cseq_' >= cseq_
<1> DEFINE r == [method |-> m, track |-> t, channels |-> c, authorized |-> z]
<1>1. r \in Requests BY DEF IsRequest, Requests
<1>2. r.method = m /\ r.track = t /\ r.channels = c OBVIOUS
<1>3. requests' = Append(requests, r) /\ cseq_' = cseq_ + 1 BY DEF Request
<1> HIDE DEF r
<1>4. requests \in Seq(Requests) /\ cseq_ \in Nat \ {0} BY DEF TypeOK
<1>5. /\ Append(requests, r) \in Seq(Requests) /\ Len(Append(requests, r)) = Len(requests) + 1
      /\ Append(requests, r)[Len(requests) + 1] = r
  BY ONLY <1>1, <1>4, AppendProperties
<1>6. ASSUME requests = <<>>
      PROVE  Len(requests') = 1 /\ \A i \in DOMAIN requests' : requests'[i] = r
  <2>1. Len(requests) = 0 BY <1>4, <1>6, EmptySeq
  <2>2. Len(requests') = 1 /\ requests'[1] = r BY <1>3, <1>5, <2>1
  <2>3. DOMAIN requests' = 1..1 BY <1>3, <1>5, <2>2, LenProperties
  <2> QED BY <2>2, <2>3
<1>7. IsNext(m, t, c) BY <1>2, <1>6 DEF IsNext
<1> QED BY <1>3, <1>4, <1>5, <1>7

LEMMA SetupFacts ==
  ASSUME TypeOK, NEW tracks \in Seq(Names), SendSetup(tracks)
  PROVE  /\ requests' \in Seq(Requests) /\ cseq_' \in Nat \ {0} /\ cseq_' >= cseq_
         /\ track_control_' \in Seq(Names)
         /\ tracks = <<>> => requests' = requests /\ cseq_' = cseq_ /\ track_control_' = <<>>
         /\ tracks # <<>> =>
              /\ Len(tracks) \in Nat /\ Len(tracks) > 0 /\ Len(track_control_') = Len(tracks) - 1
              /\ \A i \in 1..Len(track_control_') : track_control_'[i] = tracks[i + 1]
              /\ IsNext("SETUP", tracks[1], IF Len(tracks) > 1 THEN "0-1" ELSE "2-3")
              /\ cseq_' > 1
<1>1. requests \in Seq(Requests) /\ cseq_ \in Nat \ {0} /\ realm_ \in BOOLEAN BY DEF TypeOK
<1>2. CASE tracks = <<>> BY <1>1, <1>2 DEF SendSetup
<1>3. CASE tracks # <<>>
  <2> DEFINE c == IF Len(tracks) > 1 THEN "0-1" ELSE "2-3"
  <2>1. track_control_' = Tail(tracks) /\ Request("SETUP", Head(tracks), c, realm_)
    BY <1>3 DEF SendSetup
  <2>2. c \in Channels BY DEF Channels
  <2> HIDE DEF c
  <2>3. /\ Head(tracks) \in Names /\ Tail(tracks) \in Seq(Names)
        /\ Len(Tail(tracks)) = Len(tracks) - 1
        /\ \A i \in 1 .. Len(Tail(tracks)) : Tail(tracks)[i] = tracks[i+1]
    BY <1>3, HeadTailProperties
  <2>4. IsRequest("SETUP", Head(tracks), c) BY <2>2, <2>3 DEF IsRequest
  <2>5. /\ requests' \in Seq(Requests) /\ cseq_' \in Nat \ {0} /\ cseq_' > 1
        /\ IsNext("SETUP", Head(tracks), c)
    BY <1>1, <2>1, <2>4, RequestFacts
  <2>6. Head(tracks) = tracks[1] BY <1>3
  <2>7. Len(tracks) \in Nat /\ Len(tracks) > 0 BY <1>3, LenProperties, EmptySeq
  <2>8. cseq_' = cseq_ + 1 BY <2>1 DEF Request
  <2> QED BY <1>1, <1>3, <2>1, <2>3, <2>5, <2>6, <2>7, <2>8 DEF c
<1> QED BY <1>2, <1>3

(* The tracks HandlerContentType finds are the first the camera described. *)
Found == Cardinality({k \in DOMAIN buffer : buffer[k].t = "track"})
FoundTracks == [i \in 1..Found |-> buffer[2 + i].what]

LEMMA TracksFound ==
  ASSUME RtspAssumption, TypeOK, Buffers, Replied(Unread), reading, Len(buffer) > 1,
         First.t = "status", First.what = "Content-Type"
  PROVE  /\ FoundTracks \in Seq(Names) /\ Len(FoundTracks) \in 0..camera.tracks
         /\ \A i \in 1..Len(FoundTracks) : FoundTracks[i] = Tracks[i]
         /\ Len(buffer) >= 2 + camera.tracks => Len(FoundTracks) = camera.tracks
<1> DEFINE K == camera.tracks
           L == IF Len(buffer) >= 2 + K THEN 2 + K ELSE Len(buffer)
<1>1. /\ K \in {1, 2} /\ \A i \in 1..K : Tracks[i] \in Names
  BY DescribedFacts DEF TypeOK
<1>2. Len(buffer) \in Nat /\ DOMAIN buffer = 1..Len(buffer) BY PiecesFacts DEF TypeOK
<1>3. \A j \in DOMAIN buffer : j \in DOMAIN Unread /\ Unread[j] = buffer[j]
  BY UnreadFacts
<1>4. ReplyAt(Unread, 1, "Content-Type")
  <2>1. 1 \in DOMAIN buffer BY <1>2
  <2>2. 1 \in DOMAIN Unread /\ Unread[1].t = "status" /\ Unread[1].what = "Content-Type"
    BY <1>3, <2>1 DEF First
  <2> QED BY <2>2 DEF Replied
<1>5. /\ \A j \in DOMAIN Unread : j >= 1 => (IsText(Unread[j]) <=> j < 3 + K)
      /\ Unread[2].t = "head"
      /\ \A i \in 1..K : Unread[2 + i].t = "track" /\ Unread[2 + i].what = Tracks[i]
  <2>1. Size("Content-Type") = 2 + K /\ 1 + 1 = 2 /\ 1 + (2 + K) = 3 + K BY <1>1 DEF Size
  <2> QED BY <1>4, <2>1 DEF ReplyAt
<1> HIDE DEF K
<1>6. ASSUME NEW j \in DOMAIN buffer PROVE buffer[j].t = "track" <=> j \in 3..(2 + K)
  <2>1. j \in Nat /\ j >= 1 /\ buffer[j] = Unread[j] /\ j \in DOMAIN Unread BY <1>2, <1>3
  <2>2. CASE j = 1 BY <1>1, <2>2 DEF First
  <2>3. CASE j = 2 BY <1>1, <1>5, <2>1, <2>3
  <2>4. CASE j \in 3..(2 + K)
    <3>1. j - 2 \in 1..K /\ 2 + (j - 2) = j BY <1>1, <2>4
    <3> QED BY <3>1, <1>5, <2>1, <2>4
  <2>5. CASE j > 2 + K
    <3>1. ~IsText(buffer[j]) BY <1>1, <1>5, <2>1, <2>5
    <3> QED BY <1>1, <2>1, <2>5, <3>1 DEF IsText
  <2> QED BY <1>1, <2>1, <2>2, <2>3, <2>4, <2>5
<1>7. {k \in DOMAIN buffer : buffer[k].t = "track"} = 3..L
  BY <1>1, <1>2, <1>6
<1>8. L \in Int /\ L >= 2 /\ L <= 2 + K /\ L <= Len(buffer)
      /\ (Len(buffer) >= 2 + K => L = 2 + K)
  BY <1>1, <1>2
<1> HIDE DEF L
<1>9. Found = L - 2
  <2>1. Cardinality(3..L) = IF 3 <= L THEN L - 3 + 1 ELSE 0 BY <1>8, FS_Interval
  <2>2. Found = Cardinality(3..L) BY <1>7 DEF Found
  <2> QED BY <1>8, <2>1, <2>2
<1>10. \A i \in 1..Found : buffer[2 + i].what = Tracks[i] /\ Tracks[i] \in Names
  <2> TAKE i \in 1..Found
  <2>1. 2 + i \in DOMAIN buffer /\ i \in 1..K BY <1>1, <1>2, <1>8, <1>9
  <2>2. buffer[2 + i] = Unread[2 + i] BY <1>3, <2>1
  <2> QED BY <1>1, <1>5, <2>1, <2>2 DEF K
<1>11. FoundTracks \in [1..Found -> Names] BY <1>10 DEF FoundTracks
<1>12. Found \in Nat BY <1>8, <1>9
<1>13. FoundTracks \in Seq(Names) /\ Len(FoundTracks) = Found
  <2>1. FoundTracks \in Seq(Names) BY <1>11, <1>12, SeqDef
  <2>2. DOMAIN FoundTracks = 1..Found BY DEF FoundTracks
  <2> QED BY <1>12, <2>1, <2>2
<1>14. \A i \in 1..Found : FoundTracks[i] = Tracks[i] BY <1>10 DEF FoundTracks
<1> QED BY <1>1, <1>8, <1>9, <1>12, <1>13, <1>14 DEF K

(* A reply and the request it leads to, or none.                           *)
LEMMA ReplyFacts ==
  ASSUME RtspAssumption, TypeOK, Buffers, Replied(Unread), ParseReply
  PROVE  /\ requests' \in Seq(Requests) /\ cseq_' \in Nat \ {0} /\ cseq_' >= cseq_
         /\ realm_' \in BOOLEAN /\ track_control_' \in Seq(Names)
         /\ \/ /\ First.what \in {"401", "Public"} /\ track_control_' = track_control_
               /\ IsNext("DESCRIBE", "", "") /\ cseq_' > 1
            \/ /\ First.what = "Content-Type"
               /\ SendSetup(track_control_ \o FoundTracks)
            \/ /\ First.what = "Session" /\ track_control_ = <<>> /\ track_control_' = <<>>
               /\ IsNext("PLAY", "", "") /\ cseq_' > 1
            \/ /\ First.what = "Session" /\ SendSetup(track_control_)
<1>1. /\ reading /\ First.t = "status" /\ Len(buffer) > 1
      /\ realm_ \in BOOLEAN /\ track_control_ \in Seq(Names)
  BY DEF ParseReply, Parsing, TypeOK
<1>2. First.what \in Replies
  <2>1. buffer[1] \in Pieces BY <1>1, UnreadFacts, PiecesFacts DEF TypeOK
  <2> QED BY <1>1, <2>1 DEF First, Pieces, Uninitialized
<1>3. IsRequest("DESCRIBE", "", "") /\ IsRequest("PLAY", "", "")
  BY DEF IsRequest, Methods
<1>4. CASE First.what = "401"
  <2>1. realm_' = TRUE /\ Request("DESCRIBE", "", "", TRUE) /\ track_control_' = track_control_
    BY <1>4 DEF ParseReply, OnUnauthorized, SendDescribe
  <2>2. /\ requests' \in Seq(Requests) /\ cseq_' \in Nat \ {0} /\ cseq_' > 1
        /\ IsNext("DESCRIBE", "", "")
    BY <1>3, <2>1, RequestFacts
  <2>3. cseq_' >= cseq_ BY <1>1, <1>3, <2>1, RequestFacts
  <2> QED BY <1>1, <1>4, <2>1, <2>2, <2>3
<1>5. CASE First.what = "Public"
  <2>1. realm_' = realm_ /\ Request("DESCRIBE", "", "", realm_) /\ track_control_' = track_control_
    BY <1>5 DEF ParseReply, OnPublic, SendDescribe
  <2>2. /\ requests' \in Seq(Requests) /\ cseq_' \in Nat \ {0} /\ cseq_' > 1
        /\ IsNext("DESCRIBE", "", "")
    BY <1>1, <1>3, <2>1, RequestFacts
  <2>3. cseq_' >= cseq_ BY <1>1, <1>3, <2>1, RequestFacts
  <2> QED BY <1>1, <1>5, <2>1, <2>2, <2>3
<1>6. CASE First.what = "Content-Type"
  <2>1. HandlerContentType(buffer) BY <1>6 DEF ParseReply
  <2>2. SendSetup(track_control_ \o FoundTracks) /\ realm_' = realm_
    BY <2>1 DEF HandlerContentType, FoundTracks, Found
  <2>3. FoundTracks \in Seq(Names) BY <1>1, <1>6, TracksFound
  <2>4. track_control_ \o FoundTracks \in Seq(Names) BY <1>1, <2>3, ConcatProperties
  <2> DEFINE tracks == track_control_ \o FoundTracks
  <2> HIDE DEF tracks
  <2>5. /\ requests' \in Seq(Requests) /\ cseq_' \in Nat \ {0} /\ cseq_' >= cseq_
        /\ track_control_' \in Seq(Names)
    <3>1. tracks \in Seq(Names) /\ SendSetup(tracks) BY <2>2, <2>4 DEF tracks
    <3> QED BY <3>1, SetupFacts
  <2> QED BY <1>1, <1>6, <2>2, <2>5
<1>7. CASE First.what = "Session"
  <2>1. HandlerSession BY <1>7 DEF ParseReply
  <2>2. realm_' = realm_ BY <2>1 DEF HandlerSession
  <2>3. CASE track_control_ = <<>> /\ cseq_ < 7
    <3>1. Request("PLAY", "", "", realm_) /\ track_control_' = track_control_
      BY <2>1, <2>3 DEF HandlerSession, SendPlay
    <3>2. /\ requests' \in Seq(Requests) /\ cseq_' \in Nat \ {0} /\ cseq_' > 1
          /\ IsNext("PLAY", "", "")
      BY <1>1, <1>3, <3>1, RequestFacts
    <3>3. cseq_' >= cseq_ BY <1>1, <1>3, <3>1, RequestFacts
    <3> QED BY <1>1, <1>7, <2>2, <2>3, <3>1, <3>2, <3>3
  <2>4. CASE ~(track_control_ = <<>> /\ cseq_ < 7)
    <3>1. SendSetup(track_control_) BY <2>1, <2>4 DEF HandlerSession
    <3>2. /\ requests' \in Seq(Requests) /\ cseq_' \in Nat \ {0} /\ cseq_' >= cseq_
          /\ track_control_' \in Seq(Names)
      BY <1>1, <3>1, SetupFacts
    <3> QED BY <1>1, <1>7, <2>2, <3>1, <3>2
  <2> QED BY <2>3, <2>4
<1> QED BY <1>2, <1>4, <1>5, <1>6, <1>7 DEF Replies

-----------------------------------------------------------------------------
(* Every step keeps the types.                                             *)

(* What the camera sends of a frame.                                       *)
FramePieces(f) == <<[t |-> "magic", f |-> f], [t |-> "length", f |-> f], [t |-> "packet", f |-> f]>>

LEMMA FrameFacts ==
  ASSUME NEW f \in Frame
  PROVE  /\ FramePieces(f) \in Seq(Pieces) /\ Len(FramePieces(f)) = 3
         /\ DOMAIN FramePieces(f) = 1..3
         /\ FramePieces(f)[1] = [t |-> "magic", f |-> f]
         /\ FramePieces(f)[2] = [t |-> "length", f |-> f]
         /\ FramePieces(f)[3] = [t |-> "packet", f |-> f]
<1> DEFINE a == [t |-> "magic", f |-> f]
           b == [t |-> "length", f |-> f]
           c == [t |-> "packet", f |-> f]
<1>1. a \in Pieces /\ b \in Pieces /\ c \in Pieces BY DEF Pieces
<1> HIDE DEF a, b, c
<1>2. /\ <<a, b, c>> \in Seq(Pieces) /\ Len(<<a, b, c>>) = 3 /\ DOMAIN <<a, b, c>> = 1..3
      /\ <<a, b, c>>[1] = a /\ <<a, b, c>>[2] = b /\ <<a, b, c>>[3] = c
  BY <1>1
<1> QED BY <1>2 DEF FramePieces, a, b, c

LEMMA SendsFacts ==
  ASSUME TypeOK, CameraSends
  PROVE  \E video \in BOOLEAN :
           LET f == [n |-> Len(camera.frames) + 1, video |-> video]
           IN  /\ f \in Frame /\ wire' = wire \o FramePieces(f)
               /\ camera' \in CameraStates /\ camera'.tracks = camera.tracks
               /\ camera'.setup = camera.setup
               /\ camera'.frames = Append(camera.frames, video)
<1>1. PICK video \in BOOLEAN :
        LET f == [n |-> Len(camera.frames) + 1, video |-> video]
        IN  /\ camera' = [camera EXCEPT !.frames = Append(@, video)]
            /\ wire' = wire \o <<[t |-> "magic", f |-> f], [t |-> "length", f |-> f],
                                 [t |-> "packet", f |-> f]>>
  BY DEF CameraSends
<1> DEFINE f == [n |-> Len(camera.frames) + 1, video |-> video]
           fs == Append(camera.frames, video)
<1>2. camera \in CameraStates /\ camera.frames \in Seq(BOOLEAN) BY DEF TypeOK, CameraStates
<1>3. Len(camera.frames) \in Nat BY <1>2, LenProperties
<1>4. f \in Frame BY <1>3 DEF Frame
<1>5. fs \in Seq(BOOLEAN) BY <1>2, AppendProperties
<1> HIDE DEF fs
<1>6. camera' = [camera EXCEPT !.frames = fs] BY <1>1 DEF fs
<1>7. /\ camera' \in CameraStates /\ camera'.tracks = camera.tracks
      /\ camera'.setup = camera.setup /\ camera'.frames = fs
  BY <1>2, <1>5, <1>6 DEF CameraStates
<1>8. wire' = wire \o FramePieces(f) BY <1>1 DEF FramePieces
<1> QED BY <1>4, <1>7, <1>8 DEF fs

LEMMA AnswersFacts ==
  ASSUME RtspAssumption, TypeOK, CameraAnswers
  PROVE  \E a : \E r \in Requests, what \in Replies :
           /\ r = requests[1] /\ 1 \in DOMAIN requests /\ IsAnswer(a, r, what)
           /\ wire' = wire \o a[1] /\ camera' = a[2]
<1>1. requests \in Seq(Requests) /\ requests # <<>> BY DEF TypeOK, CameraAnswers
<1>2. Head(requests) = requests[1] /\ Head(requests) \in Requests BY <1>1, HeadTailProperties
<1>3. 1 \in DOMAIN requests BY <1>1, EmptySeq, LenProperties
<1>4. PICK a \in AnswersTo(Head(requests)) : wire' = wire \o a[1] /\ camera' = a[2]
  BY DEF CameraAnswers
<1>5. PICK what \in Replies : IsAnswer(a, requests[1], what)
  BY <1>2, <1>4, AnswerFacts DEF TypeOK
<1> QED BY <1>2, <1>3, <1>4, <1>5

(* The packet of the frame is the third piece.                             *)
LEMMA FrameRead ==
  ASSUME TypeOK, Buffers, Framed(Unread), ParseFrame
  PROVE  /\ \A j \in 1..3 : j \in DOMAIN Unread /\ j \in DOMAIN buffer /\ buffer[j] = Unread[j]
         /\ buffer[1].t = "magic" /\ buffer[2].t = "length" /\ buffer[3].t = "packet"
         /\ buffer[3].f \in Frame
<1>1. buffer \in Seq(Pieces) /\ buffer[1].t = "magic" /\ Len(buffer) > 2
  BY DEF TypeOK, ParseFrame, Parsing, First
<1>2. \A j \in 1..3 : j \in DOMAIN buffer BY <1>1, LenProperties
<1>3. \A j \in DOMAIN buffer : j \in DOMAIN Unread /\ Unread[j] = buffer[j]
  BY UnreadFacts DEF ParseFrame, Parsing
<1>4. 1 \in 1..3 /\ 2 \in 1..3 /\ 3 \in 1..3 /\ 1 + 1 = 2 /\ 1 + 2 = 3 OBVIOUS
<1>5. Unread[2].t = "length" /\ Unread[3].t = "packet"
  BY <1>1, <1>2, <1>3, <1>4 DEF Framed
<1> QED BY <1>1, <1>2, <1>3, <1>4, <1>5, PiecesFacts

(* The video among the first n pieces of the buffer.                       *)
LEMMA PassedVideo ==
  ASSUME TypeOK, Buffers, reading, NEW n \in 1..Len(buffer)
  PROVE  /\ VideoIn(SubSeq(buffer, 1, n)) = VideoAmong(Unread, n)
         /\ VideoIn(SubSeq(buffer, 1, n)) \subseteq Nat
<1> DEFINE a == SubSeq(buffer, 1, n)
<1>1. buffer \in Seq(Pieces) /\ Unread \in Seq(Pieces) BY UnreadFacts DEF TypeOK
<1>2. Len(buffer) \in Nat /\ DOMAIN buffer = 1..Len(buffer) /\ DOMAIN Unread = 1..Len(Unread)
  BY <1>1, PiecesFacts
<1>3. a \in Seq(Pieces) /\ Len(a) = n /\ \A i \in 1..n : a[i] = buffer[i]
  <2>1. \A i \in 1..n : buffer[i] \in Pieces
    <3>1. 1..n \subseteq DOMAIN buffer BY <1>2
    <3> QED BY <1>1, <3>1, PiecesFacts
  <2>2. /\ a \in Seq(Pieces) /\ Len(a) = IF 1 <= n THEN n - 1 + 1 ELSE 0
        /\ \A i \in 1 .. n - 1 + 1 : a[i] = buffer[1 + i - 1]
    BY <1>2, <2>1, SubSeqProperties
  <2>3. n - 1 + 1 = n /\ 1 <= n /\ \A i \in 1..n : 1 + i - 1 = i BY <1>2
  <2> QED BY <2>2, <2>3
<1> HIDE DEF a
<1>4. DOMAIN a = 1..n BY <1>3, PiecesFacts
<1>5. \A i \in 1..n : i \in DOMAIN Unread /\ a[i] = Unread[i]
  BY <1>2, <1>3, UnreadFacts
<1>6. \A i \in DOMAIN Unread : i <= n <=> i \in DOMAIN a BY <1>2, <1>4, <1>5
<1>7. VideoIn(a) = VideoAmong(Unread, n)
  BY <1>4, <1>5, <1>6 DEF VideoIn, VideoAmong, IsVideo
<1>8. VideoIn(a) \subseteq Nat BY <1>3, PiecesFacts DEF VideoIn, IsVideo
<1> QED BY <1>7, <1>8 DEF a

LEMMA TypeStep ==
  ASSUME RtspAssumption, TypeOK, Buffers, Replied(Unread), Framed(Unread), [Next]_vars
  PROVE  TypeOK' /\ Buffers'
<1>1. CASE UNCHANGED vars
  BY <1>1 DEF TypeOK, Buffers, vars, reader, dialogue, history
<1>2. CASE OnWrite
  <2>1. IsRequest("OPTIONS", "", "") BY DEF IsRequest, Methods
  <2>2. requests' \in Seq(Requests) /\ cseq_' \in Nat \ {0}
    BY <1>2, <2>1, RequestFacts DEF OnWrite, SendOptions
  <2> QED BY <1>2, <2>2 DEF OnWrite, TypeOK, Buffers, reader, history
<1>3. CASE OnRead
  BY <1>3, UnreadByRead DEF OnRead, TypeOK, Buffers, dialogue, history
<1>4. CASE KeepFrame
  BY <1>4, UnreadByKeep DEF KeepFrame, GoOn, TypeOK, Buffers, dialogue, history
<1>5. CASE ParseFrame
  <2>1. buffer' \in Seq(Pieces) BY <1>5, UnreadByFrame
  <2>2. signalled' \in Seq(Nat)
    <3>1. buffer[3].f.n \in Nat /\ signalled \in Seq(Nat)
      BY <1>5, FrameRead DEF Frame, TypeOK
    <3>2. Append(signalled, buffer[3].f.n) \in Seq(Nat) BY <3>1, AppendProperties
    <3> QED BY <1>5, <3>1, <3>2 DEF ParseFrame, Signal
  <2>3. /\ reading /\ recv_buffer_' = recv_buffer_ /\ reading' = (buffer' # <<>>)
        /\ UNCHANGED <<requests, wire, recv_buffer_, crashed, cseq_, realm_, track_control_,
                       stray, dropped, passed, torn, cut, camera>>
    BY <1>5 DEF ParseFrame, GoOn, Parsing, dialogue
  <2>4. TypeOK' BY <2>1, <2>2, <2>3 DEF TypeOK
  <2>5. recv_buffer_ = <<>> BY <2>3 DEF Buffers
  <2>6. Buffers' BY <2>3, <2>5 DEF Buffers
  <2> QED BY <2>4, <2>6
<1>6. ASSUME Discard, reading,
             requests' \in Seq(Requests), cseq_' \in Nat \ {0}, realm_' \in BOOLEAN,
             track_control_' \in Seq(Names), cut' \in BOOLEAN
      PROVE  TypeOK' /\ Buffers'
  <2>1. VideoIn(buffer) \subseteq Nat
    BY PiecesFacts DEF TypeOK, VideoIn, IsVideo
  <2>2. /\ buffer' = <<>> /\ reading' = FALSE /\ recv_buffer_' = <<>>
        /\ UNCHANGED <<wire, crashed, signalled, stray, passed, camera>>
        /\ dropped' = dropped \cup VideoIn(buffer) /\ torn' \in BOOLEAN
    BY <1>6, UnreadByDiscard DEF Discard, TypeOK
  <2>3. <<>> \in Seq(Pieces) BY EmptySeq
  <2> QED BY <1>6, <2>1, <2>2, <2>3 DEF TypeOK, Buffers
<1>7. CASE ParseReply
  <2>1. /\ requests' \in Seq(Requests) /\ cseq_' \in Nat \ {0} /\ realm_' \in BOOLEAN
        /\ track_control_' \in Seq(Names)
    BY <1>7, ReplyFacts
  <2>2. Discard /\ reading /\ cut' \in BOOLEAN
    BY <1>7 DEF ParseReply, Parsing, TypeOK
  <2> QED BY <1>6, <2>1, <2>2
<1>8. CASE ParsePartOfReply
  <2>1. /\ requests' \in Seq(Requests) /\ cseq_' \in Nat \ {0} /\ realm_' \in BOOLEAN
        /\ track_control_' \in Seq(Names)
    BY <1>8 DEF ParsePartOfReply, dialogue, TypeOK
  <2>2. Discard /\ reading /\ cut' \in BOOLEAN
    BY <1>8 DEF ParsePartOfReply, Parsing
  <2> QED BY <1>6, <2>1, <2>2
<1>9. CASE TearHeader
  <2>1. reading /\ torn' \in BOOLEAN /\ stray' \in BOOLEAN
    BY <1>9 DEF TearHeader, Parsing, TypeOK
  <2>2. buffer' = <<>> /\ reading' = FALSE /\ recv_buffer_' = <<>> /\ wire' = wire
    BY <1>9, <2>1, UnreadByDiscard
  <2>3. <<>> \in Seq(Pieces) BY EmptySeq
  <2> QED BY <1>9, <2>1, <2>2, <2>3 DEF TearHeader, TypeOK, Buffers, dialogue
<1>12. ASSUME NEW n \in 1..Len(buffer), GoOn(SubSeq(buffer, n + 1, Len(buffer))), reading,
              UNCHANGED <<wire, recv_buffer_, crashed, requests, dialogue, signalled, dropped,
                          cut, camera>>,
              torn' \in BOOLEAN, stray' \in BOOLEAN, passed' \subseteq Nat
       PROVE  TypeOK' /\ Buffers'
  <2>1. buffer' \in Seq(Pieces) /\ reading' = (buffer' # <<>>) /\ recv_buffer_' = <<>>
    BY <1>12, UnreadByPass
  <2>2. <<>> \in Seq(Pieces) BY EmptySeq
  <2> QED BY <1>12, <2>1, <2>2 DEF TypeOK, Buffers, dialogue
<1>13. CASE Astray
  <2>1. /\ reading /\ torn' \in BOOLEAN /\ stray' \in BOOLEAN
        /\ UNCHANGED <<requests, wire, dialogue, signalled, dropped, cut, camera>>
    BY <1>13 DEF Astray, Parsing, TypeOK
  <2>2. ASSUME NEW n \in 1..Len(buffer), passed' = passed \cup VideoIn(SubSeq(buffer, 1, n)),
               GoOn(SubSeq(buffer, n + 1, Len(buffer))), UNCHANGED <<wire, recv_buffer_, crashed>>
        PROVE  TypeOK' /\ Buffers'
    <3>1. passed' \subseteq Nat
      <4>1. VideoIn(SubSeq(buffer, 1, n)) \subseteq Nat BY <2>1, PassedVideo
      <4> QED BY <2>2, <4>1 DEF TypeOK
    <3> QED BY <1>12, <2>1, <2>2, <3>1
  <2> QED BY <1>13, <2>2, UnreadAstray
<1>14. CASE PassOver
  <2>1. reading /\ GoOn(SubSeq(buffer, 2, Len(buffer)))
        /\ UNCHANGED <<wire, recv_buffer_, crashed, requests, dialogue, signalled, stray, dropped,
                       passed, torn, cut, camera>>
    BY <1>14 DEF PassOver, Parsing, history
  <2>2. 1 \in 1..Len(buffer) /\ 1 + 1 = 2 BY <2>1, PiecesFacts DEF TypeOK, Buffers
  <2>3. torn' \in BOOLEAN /\ stray' \in BOOLEAN /\ passed' \subseteq Nat BY <2>1 DEF TypeOK
  <2> QED BY <1>12, <2>1, <2>2, <2>3
<1>10. CASE CameraAnswers
  <2>1. PICK a : \E r \in Requests, what \in Replies :
           /\ r = requests[1] /\ 1 \in DOMAIN requests /\ IsAnswer(a, r, what)
           /\ wire' = wire \o a[1] /\ camera' = a[2]
    BY <1>10, AnswersFacts
  <2>2. wire' \in Seq(Pieces) /\ camera' \in CameraStates
    <3>1. a[1] \in Seq(Pieces) /\ a[2] \in CameraStates BY <2>1 DEF IsAnswer
    <3> QED BY <1>10, <2>1, <3>1, UnreadByCamera DEF CameraAnswers
  <2>3. requests' \in Seq(Requests)
    BY <1>10, HeadTailProperties DEF CameraAnswers, TypeOK
  <2> QED BY <1>10, <2>2, <2>3 DEF CameraAnswers, TypeOK, Buffers, reader, dialogue, history
<1>11. CASE CameraSends
  <2>1. PICK f \in Frame : wire' = wire \o FramePieces(f) /\ camera' \in CameraStates
    BY <1>11, SendsFacts
  <2>2. wire' \in Seq(Pieces)
    <3>1. FramePieces(f) \in Seq(Pieces) BY FrameFacts
    <3> QED BY <1>11, <2>1, <3>1, UnreadByCamera DEF CameraSends
  <2> QED BY <1>11, <2>1, <2>2 DEF CameraSends, TypeOK, Buffers, reader, dialogue, history
<1> QED
  BY <1>1, <1>2, <1>3, <1>4, <1>5, <1>7, <1>8, <1>9, <1>10, <1>11, <1>13, <1>14
     DEF Next, Loop

-----------------------------------------------------------------------------
(* Every step keeps one request or one reply under way.                    *)

LEMMA RepliedPrime ==
  ASSUME NEW Q, Replied(Q), Unread' = Q, camera'.tracks = camera.tracks
  PROVE  Replied(Unread)'
<1>1. \A k, what : ReplyAt(Q, k, what) => ReplyAt(Unread, k, what)'
  BY DEF ReplyAt, Size, IsText
<1> QED BY <1>1 DEF Replied

(* No reply is behind the one the loop stands at.                          *)
LEMMA NoneBehind ==
  ASSUME NEW P \in Seq(Pieces), NEW Q \in Seq(Pieces), NEW m, Rest(P, Q, m), Replied(Q),
         1 \in DOMAIN Q, Q[1].t = "status", m > 0, camera.tracks \in Nat
  PROVE  NoStatus(P)
<1>1. /\ m \in Nat /\ DOMAIN P = 1..Len(P) /\ DOMAIN Q = 1..Len(Q) /\ Len(P) \in Nat
      /\ \A j \in DOMAIN P : m + j \in DOMAIN Q /\ P[j] = Q[m + j]
  BY PiecesFacts DEF Rest
<1> DEFINE what == Q[1].what
           z == Size(what)
<1>2. z \in Nat /\ z >= 2 /\ (what = "Content-Type" => z = 2 + camera.tracks)
      /\ (what # "Content-Type" => z = 2)
  BY DEF Size
<1>3. ReplyAt(Q, 1, what) BY DEF Replied
<1> HIDE DEF what, z
<1>4. /\ \A j \in DOMAIN Q : j >= 1 => (IsText(Q[j]) <=> j < 1 + z)
      /\ Q[1 + 1].t = "head"
      /\ what = "Content-Type" => \A i \in 1..camera.tracks : Q[(1 + 1) + i].t = "track"
  BY <1>3 DEF ReplyAt, z
<1> SUFFICES ASSUME NEW j \in DOMAIN P, P[j].t = "status" PROVE FALSE BY DEF NoStatus
<1>5. m + j \in DOMAIN Q /\ Q[m + j].t = "status" /\ m + j >= 2 BY <1>1
<1>6. m + j < 1 + z BY <1>1, <1>4, <1>5 DEF IsText
<1>7. CASE m + j = 2 BY <1>4, <1>5, <1>7
<1>8. CASE m + j # 2
  <2>1. /\ what = "Content-Type" /\ (m + j) - 2 \in 1..camera.tracks
        /\ (1 + 1) + ((m + j) - 2) = m + j
    BY <1>1, <1>2, <1>5, <1>6, <1>8
  <2> QED BY <2>1, <1>4, <1>5
<1> QED BY <1>7, <1>8

LEMMA OneTurnStep ==
  ASSUME RtspAssumption, IInv, [Next]_vars
  PROVE  OneTurn'
<1>1. /\ TypeOK /\ Buffers /\ Replied(Unread) /\ Framed(Unread) /\ OneTurn
      /\ requests \in Seq(Requests) /\ cseq_ \in Nat /\ camera.tracks \in 1..2
      /\ Unread \in Seq(Pieces)
  <2>1. TypeOK /\ Buffers /\ Replied(Unread) /\ Framed(Unread) /\ OneTurn
    BY DEF IInv, OneTurn, Packets
  <2>2. requests \in Seq(Requests) /\ cseq_ \in Nat /\ camera \in CameraStates
    BY <2>1 DEF TypeOK
  <2>3. camera.tracks \in 1..2
    <3>1. camera.tracks \in {1, 2} BY <2>2, DescribedFacts
    <3> QED BY <3>1
  <2> QED BY <2>1, <2>2, <2>3, UnreadFacts
<1>2. TypeOK' /\ Buffers' BY <1>1, TypeStep
<1>3. Unread' \in Seq(Pieces)
  <2>1. recv_buffer_' \in Seq(Pieces) /\ buffer' \in Seq(Pieces) /\ wire' \in Seq(Pieces)
    BY <1>2 DEF TypeOK
  <2>2. recv_buffer_' \o buffer' \in Seq(Pieces) BY <2>1, ConcatProperties
  <2>3. (recv_buffer_' \o buffer') \o wire' \in Seq(Pieces) BY <2>1, <2>2, ConcatProperties
  <2> QED BY <2>3 DEF Unread
<1>4. ASSUME Unread' = Unread, UNCHANGED <<requests, cseq_, camera>>
      PROVE  OneTurn'
  <2>1. Replied(Unread)' BY <1>1, <1>4, RepliedPrime
  <2>2. NoStatus(Unread) => NoStatus(Unread)' BY <1>4 DEF NoStatus
  <2> QED BY <1>1, <1>4, <2>1, <2>2 DEF OneTurn
<1>5. ASSUME NEW m, Rest(Unread', Unread, m), UNCHANGED <<requests, cseq_, camera>>
      PROVE  OneTurn'
  <2>1. Replied(Unread') BY <1>1, <1>3, <1>5, RestReplied
  <2>2. Replied(Unread)' BY <1>5, <2>1, RepliedPrime
  <2>3. NoStatus(Unread) => NoStatus(Unread)' BY <1>1, <1>3, <1>5, RestKeeps DEF NoStatus
  <2> QED BY <1>1, <1>5, <2>2, <2>3 DEF OneTurn
<1>6. CASE UNCHANGED vars
  BY <1>4, <1>6 DEF vars, reader, dialogue, Unread
<1>7. CASE OnWrite
  <2>1. IsRequest("OPTIONS", "", "") BY DEF IsRequest, Methods
  <2>2. IsNext("OPTIONS", "", "") /\ cseq_' > 1 /\ cseq_' \in Nat \ {0}
    BY <1>1, <1>7, <2>1, RequestFacts DEF OnWrite, SendOptions
  <2>3. requests = <<>> /\ NoStatus(Unread) BY <1>1, <1>7 DEF OneTurn, OnWrite
  <2>4. Len(requests') = 1 /\ cseq_' # 1
    <3>1. Len(requests') = 1 BY ONLY <2>2, <2>3 DEF IsNext
    <3>2. \A n \in Nat : n > 1 => n # 1 OBVIOUS
    <3> QED BY <2>2, <3>1, <3>2
  <2>5. Unread' = Unread /\ camera' = camera BY <1>7 DEF OnWrite, Unread, reader
  <2>6. Replied(Unread)' BY <1>1, <2>5, RepliedPrime
  <2>7. NoStatus(Unread)' BY <2>3, <2>5 DEF NoStatus
  <2> QED BY <2>4, <2>6, <2>7 DEF OneTurn
<1>8. CASE OnRead
  BY <1>1, <1>4, <1>8, UnreadByRead DEF OnRead, dialogue
<1>9. CASE KeepFrame
  BY <1>1, <1>4, <1>9, UnreadByKeep DEF KeepFrame, dialogue
<1>10. CASE ParseFrame
  BY <1>1, <1>5, <1>10, UnreadByFrame DEF ParseFrame, dialogue
<1>11. CASE ParseReply
  <2>1. reading /\ Discard /\ First.t = "status" /\ Len(buffer) > 1 /\ camera' = camera
    BY <1>11 DEF ParseReply, Parsing, Discard
  <2>2. Unread' = wire /\ Rest(wire, Unread, Len(buffer)) /\ wire \in Seq(Pieces)
    BY <1>1, <2>1, UnreadByDiscard DEF TypeOK
  <2>3. 1 \in DOMAIN Unread /\ Unread[1].t = "status"
    BY <1>1, <2>1, UnreadFacts DEF First
  <2>4. requests = <<>> /\ cseq_ # 1 BY <1>1, <2>3 DEF OneTurn, NoStatus
  <2>5. NoStatus(wire) BY <1>1, <2>1, <2>2, <2>3, NoneBehind
  <2>6. Replied(Unread)'
    <3>1. Replied(wire) BY <2>5 DEF Replied, NoStatus
    <3> QED BY <2>1, <2>2, <3>1, RepliedPrime
  <2>7. NoStatus(Unread)' BY <2>2, <2>5 DEF NoStatus
  <2>8. cseq_' \in Nat \ {0} /\ cseq_' >= cseq_ BY <1>1, <1>11, ReplyFacts
  <2>9. cseq_' # 1 BY <1>1, <2>4, <2>8 DEF TypeOK
  <2>10. Len(requests') <= 1
    <3>1. \A m, t, c : IsNext(m, t, c) => Len(requests') <= 1 BY <2>4 DEF IsNext
    <3>2. ASSUME NEW tracks \in Seq(Names), SendSetup(tracks) PROVE Len(requests') <= 1
      <4>1. Len(requests) = 0 BY <2>4
      <4> QED BY <1>1, <3>1, <3>2, <4>1, SetupFacts
    <3>3. First.what = "Content-Type" => track_control_ \o FoundTracks \in Seq(Names)
      BY <1>1, <2>1, TracksFound, ConcatProperties DEF TypeOK
    <3>4. track_control_ \in Seq(Names) BY <1>1 DEF TypeOK
    <3> QED BY <1>1, <1>11, <3>1, <3>2, <3>3, <3>4, ReplyFacts
  <2> QED BY <2>6, <2>7, <2>9, <2>10 DEF OneTurn
<1>12. CASE ParsePartOfReply
  <2>1. reading /\ Discard /\ UNCHANGED <<requests, cseq_, camera>>
    BY <1>12 DEF ParsePartOfReply, Parsing, Discard, dialogue
  <2> QED BY <1>1, <1>5, <2>1, UnreadByDiscard
<1>13. CASE TearHeader \/ Astray \/ PassOver
  <2>1. UNCHANGED <<requests, cseq_, camera>>
    BY <1>13 DEF TearHeader, Astray, PassOver, dialogue
  <2> QED BY <1>1, <1>4, <1>5, <1>13, <2>1, UnreadOtherwise
<1>14. CASE CameraAnswers
  <2>1. PICK a : \E r \in Requests, what \in Replies :
           /\ r = requests[1] /\ 1 \in DOMAIN requests /\ IsAnswer(a, r, what)
           /\ wire' = wire \o a[1] /\ camera' = a[2]
    BY <1>1, <1>14, AnswersFacts
  <2>2. PICK what \in Replies :
           /\ a[1] \in Seq(Pieces) /\ Len(a[1]) = Size(what) /\ ReplyAt(a[1], 1, what)
           /\ camera'.tracks = camera.tracks
    BY <2>1 DEF IsAnswer
  <2>3. Unread' = Unread \o a[1]
    BY <1>1, <1>14, <2>1, <2>2, UnreadByCamera DEF CameraAnswers
  <2>4. requests # <<>> /\ requests' = Tail(requests) /\ cseq_' = cseq_
    BY <1>14 DEF CameraAnswers, dialogue
  <2>5. NoStatus(Unread) /\ cseq_ # 1 /\ Len(requests) = 1
    <3>1. Len(requests) <= 1 /\ Len(requests) \in Nat /\ Len(requests) # 0
      BY <1>1, <2>4, LenProperties, EmptySeq DEF OneTurn
    <3>2. \A n \in Nat : n <= 1 /\ n # 0 => n = 1 OBVIOUS
    <3>3. Len(requests) = 1 BY <3>1, <3>2
    <3> QED BY <1>1, <2>4, <3>3 DEF OneTurn
  <2>6. requests' = <<>>
    <3>1. Tail(requests) \in Seq(Requests) /\ Len(Tail(requests)) = 0
      BY <1>1, <2>4, <2>5, HeadTailProperties
    <3> QED BY <2>4, <3>1, EmptySeq
  <2>7. Replied(Unread \o a[1])
    BY <1>1, <2>2, <2>5, RepliedThenReply
  <2>8. Replied(Unread)' BY <2>2, <2>3, <2>7, RepliedPrime
  <2>9. Len(requests') <= 1 BY <2>6
  <2> QED BY <2>4, <2>5, <2>6, <2>8, <2>9 DEF OneTurn
<1>15. CASE CameraSends
  <2>1. PICK f \in Frame : wire' = wire \o FramePieces(f) /\ camera'.tracks = camera.tracks
    BY <1>1, <1>15, SendsFacts
  <2>2. FramePieces(f) \in Seq(Pieces) /\ \A k \in DOMAIN FramePieces(f) : ~IsText(FramePieces(f)[k])
    <3>1. \A k \in 1..3 : k \in {1, 2, 3} OBVIOUS
    <3>2. FramePieces(f) \in Seq(Pieces) /\ DOMAIN FramePieces(f) = 1..3 BY FrameFacts
    <3>3. /\ FramePieces(f)[1] = [t |-> "magic", f |-> f]
          /\ FramePieces(f)[2] = [t |-> "length", f |-> f]
          /\ FramePieces(f)[3] = [t |-> "packet", f |-> f]
      BY FrameFacts
    <3> QED BY <3>1, <3>2, <3>3 DEF IsText
  <2>3. Unread' = Unread \o FramePieces(f) BY <1>1, <1>15, <2>1, <2>2, UnreadByCamera DEF CameraSends
  <2>4. Replied(Unread \o FramePieces(f)) /\ (NoStatus(Unread) => NoStatus(Unread \o FramePieces(f)))
    BY <1>1, <2>2, RepliedThenFrames
  <2>5. Replied(Unread)' BY <2>1, <2>3, <2>4, RepliedPrime
  <2>6. NoStatus(Unread) => NoStatus(Unread)' BY <2>3, <2>4 DEF NoStatus
  <2>7. requests' = requests /\ cseq_' = cseq_ BY <1>15 DEF CameraSends, dialogue
  <2> QED BY <1>1, <2>5, <2>6, <2>7 DEF OneTurn
<1> QED
  BY <1>6, <1>7, <1>8, <1>9, <1>10, <1>11, <1>12, <1>13, <1>14, <1>15 DEF Next, Loop

-----------------------------------------------------------------------------
(* Every step keeps account of the packets.                                *)

LEMMA PacketsSame ==
  ASSUME Packets, Unread' = Unread, UNCHANGED <<signalled, dropped, passed>>,
         torn' = TRUE \/ UNCHANGED <<stray, torn>>, camera'.frames = camera.frames
  PROVE  Packets'
<1>1. Range(signalled)' = Range(signalled) /\ VideoIn(Unread)' = VideoIn(Unread) /\ Video' = Video
  BY DEF Range, VideoIn, Video
<1>2. (passed # {} \/ stray \/ Inside(Unread) => torn)' BY DEF Packets, Inside
<1>3. (Framed(Unread) /\ InOrder(Unread) /\ Follows(Unread))'
  BY DEF Packets, Framed, InOrder, Follows, IsVideo
<1> QED BY <1>1, <1>2, <1>3 DEF Packets

(* Two sequences of pieces, the second sent later.                         *)
LEMMA ThenPieces ==
  ASSUME NEW Q \in Seq(Pieces), NEW x \in Seq(Pieces), Framed(Q), Framed(x),
         InOrder(Q), InOrder(x), Follows(Q), Follows(x), ~Inside(x),
         \A i \in VideoIn(Q), n \in VideoIn(x) : i < n
  PROVE  /\ Framed(Q \o x) /\ InOrder(Q \o x) /\ Follows(Q \o x)
         /\ Inside(Q \o x) => Inside(Q)
         /\ VideoIn(Q \o x) = VideoIn(Q) \cup VideoIn(x)
<1> DEFINE q == Q \o x
           n == Len(Q)
<1>1. /\ Len(q) = n + Len(x)
      /\ \A k \in DOMAIN Q : k \in DOMAIN q /\ q[k] = Q[k]
      /\ \A k \in DOMAIN x : n + k \in DOMAIN q /\ q[n + k] = x[k]
      /\ \A k \in DOMAIN q : k \in DOMAIN Q \/ (k - n \in DOMAIN x /\ q[k] = x[k - n])
      /\ q \in Seq(Pieces)
  BY ONLY Q \in Seq(Pieces), x \in Seq(Pieces), ConcatFacts
<1>2. DOMAIN Q = 1..n /\ n \in Nat /\ DOMAIN x = 1..Len(x) /\ Len(x) \in Nat BY PiecesFacts
<1>3. DOMAIN q = 1..(n + Len(x)) BY <1>1, PiecesFacts
<1> HIDE DEF q, n
<1>4. ASSUME NEW k \in DOMAIN q, q[k].t = "magic"
      PROVE  k + 2 \in DOMAIN q /\ q[k + 1].t = "length" /\ q[k + 2].t = "packet"
  <2>1. CASE k \in DOMAIN Q
    <3>1. k + 2 \in DOMAIN Q /\ Q[k + 1].t = "length" /\ Q[k + 2].t = "packet"
      BY <1>1, <1>4, <2>1 DEF Framed
    <3>2. k + 1 \in DOMAIN Q BY <1>2, <2>1, <3>1
    <3> QED BY <1>1, <3>1, <3>2
  <2>2. CASE k \notin DOMAIN Q
    <3>1. k - n \in DOMAIN x /\ x[k - n].t = "magic" BY <1>1, <1>4, <2>2
    <3>2. /\ (k - n) + 2 \in DOMAIN x /\ x[(k - n) + 1].t = "length"
          /\ x[(k - n) + 2].t = "packet"
      BY <3>1 DEF Framed
    <3>3. (k - n) + 1 \in DOMAIN x BY <1>2, <3>1, <3>2
    <3>4. k \in Nat BY <1>3, <1>4
    <3>5. n + ((k - n) + 1) = k + 1 /\ n + ((k - n) + 2) = k + 2 BY <1>2, <3>4
    <3>6. q[k + 1] = x[(k - n) + 1] /\ q[k + 2] = x[(k - n) + 2] /\ k + 2 \in DOMAIN q
      BY <1>1, <3>2, <3>3, <3>5
    <3> QED BY <3>2, <3>6
  <2> QED BY <2>1, <2>2
<1>5. ASSUME NEW j \in DOMAIN q, NEW k \in DOMAIN q, IsVideo(q[j]), IsVideo(q[k]), j < k
      PROVE  q[j].f.n < q[k].f.n
  <2>1. j \in Nat /\ k \in Nat BY <1>3
  <2>2. CASE j \in DOMAIN Q /\ k \in DOMAIN Q BY <2>2, <1>1, <1>5 DEF InOrder
  <2>3. CASE j \in DOMAIN Q /\ k \notin DOMAIN Q
    <3>1. k - n \in DOMAIN x /\ q[k] = x[k - n] /\ q[j] = Q[j] BY <2>3, <1>1
    <3>2. q[j].f.n \in VideoIn(Q) /\ q[k].f.n \in VideoIn(x)
      BY <1>5, <2>3, <3>1 DEF VideoIn, IsVideo
    <3> QED BY <3>2
  <2>4. CASE j \notin DOMAIN Q /\ k \in DOMAIN Q BY <2>4, <2>1, <1>2, <1>3, <1>5
  <2>5. CASE j \notin DOMAIN Q /\ k \notin DOMAIN Q
    <3>1. /\ k - n \in DOMAIN x /\ q[k] = x[k - n] /\ j - n \in DOMAIN x /\ q[j] = x[j - n]
      BY <2>5, <1>1
    <3>2. j - n < k - n BY <1>2, <1>5, <2>1
    <3> QED BY <1>5, <3>1, <3>2 DEF InOrder
  <2> QED BY <2>2, <2>3, <2>4, <2>5
<1>6. VideoIn(Q) \subseteq VideoIn(q) BY <1>1 DEF VideoIn
<1>7. VideoIn(x) \subseteq VideoIn(q) BY <1>1 DEF VideoIn
<1>8. VideoIn(q) \subseteq VideoIn(Q) \cup VideoIn(x)
  <2> SUFFICES ASSUME NEW k \in DOMAIN q, IsVideo(q[k])
               PROVE  q[k].f.n \in VideoIn(Q) \cup VideoIn(x)
    BY DEF VideoIn, IsVideo
  <2>1. CASE k \in DOMAIN Q BY <2>1, <1>1 DEF VideoIn, IsVideo
  <2>2. CASE k \notin DOMAIN Q
    <3>1. k - n \in DOMAIN x /\ q[k] = x[k - n] BY <2>2, <1>1
    <3> QED BY <3>1 DEF VideoIn, IsVideo
  <2> QED BY <2>1, <2>2
<1>9. ASSUME NEW k \in DOMAIN q, k > 1
      PROVE  /\ q[k].t = "length" => q[k - 1].t = "magic"
             /\ q[k].t = "packet" => q[k - 1].t = "length"
  <2>1. CASE k \in DOMAIN Q
    <3>1. k - 1 \in DOMAIN Q BY <1>2, <1>9, <2>1
    <3> QED BY <1>1, <1>9, <2>1, <3>1 DEF Follows
  <2>2. CASE k \notin DOMAIN Q
    <3>1. k - n \in DOMAIN x /\ q[k] = x[k - n] /\ k \in Nat BY <1>1, <1>3, <1>9, <2>2
    <3>2. CASE k - n = 1 BY <3>1, <3>2, PiecesFacts DEF Inside
    <3>3. CASE k - n # 1
      <4>1. (k - n) - 1 \in DOMAIN x /\ k - n > 1 /\ n + ((k - n) - 1) = k - 1
        BY <1>2, <3>1, <3>3
      <4>2. q[k - 1] = x[(k - n) - 1] BY <1>1, <4>1
      <4> QED BY <3>1, <4>1, <4>2 DEF Follows
    <3> QED BY <3>2, <3>3
  <2> QED BY <2>1, <2>2
<1>10. ASSUME Inside(q) PROVE Inside(Q)
  <2>1. 1 \in DOMAIN q BY <1>1, <1>10, PiecesFacts DEF Inside
  <2>2. CASE 1 \in DOMAIN Q BY <1>1, <1>10, <2>2, PiecesFacts DEF Inside
  <2>3. CASE 1 \notin DOMAIN Q
    <3>1. 1 - n \in DOMAIN x /\ q[1] = x[1 - n] BY <1>1, <2>1, <2>3
    <3>2. 1 - n = 1 BY <1>2, <3>1
    <3> QED BY <1>10, <3>1, <3>2, PiecesFacts DEF Inside
  <2> QED BY <2>2, <2>3
<1> QED BY <1>4, <1>5, <1>6, <1>7, <1>8, <1>9, <1>10 DEF Framed, InOrder, Follows, q

LEMMA TextCarriesNothing ==
  ASSUME NEW x \in Seq(Pieces), \A k \in DOMAIN x : IsText(x[k])
  PROVE  Framed(x) /\ InOrder(x) /\ VideoIn(x) = {} /\ Follows(x) /\ ~Inside(x)
<1>1. Framed(x) /\ InOrder(x) /\ VideoIn(x) = {} /\ Follows(x)
  BY DEF Framed, InOrder, VideoIn, IsVideo, IsText, Follows
<1>2. ~Inside(x) BY PiecesFacts DEF Inside, IsText
<1> QED BY <1>1, <1>2

LEMMA FrameCarries ==
  ASSUME NEW f \in Frame
  PROVE  /\ Framed(FramePieces(f)) /\ InOrder(FramePieces(f))
         /\ Follows(FramePieces(f)) /\ ~Inside(FramePieces(f))
         /\ VideoIn(FramePieces(f)) = IF f.video THEN {f.n} ELSE {}
<1> DEFINE x == FramePieces(f)
<1>1. DOMAIN x = 1..3 /\ \A k \in 1..3 : k \in {1, 2, 3}
  <2>1. \A k \in 1..3 : k \in {1, 2, 3} OBVIOUS
  <2>2. DOMAIN x = 1..3 BY FrameFacts
  <2> QED BY <2>1, <2>2
<1>2. /\ x[1].t = "magic" /\ x[2].t = "length" /\ x[3].t = "packet" /\ x[3].f = f
  <2>1. /\ x[1] = [t |-> "magic", f |-> f] /\ x[2] = [t |-> "length", f |-> f]
        /\ x[3] = [t |-> "packet", f |-> f]
    BY FrameFacts
  <2> QED BY <2>1
<1> HIDE DEF x
<1>3. \A k \in DOMAIN x : x[k].t = "packet" <=> k = 3 BY <1>1, <1>2
<1>4. Framed(x)
  <2> SUFFICES ASSUME NEW k \in DOMAIN x, x[k].t = "magic"
               PROVE  k + 2 \in DOMAIN x /\ x[k + 1].t = "length" /\ x[k + 2].t = "packet"
    BY DEF Framed
  <2>1. k = 1 BY <1>1, <1>2
  <2>2. k + 1 = 2 /\ k + 2 = 3 /\ 3 \in DOMAIN x BY <1>1, <2>1
  <2> QED BY <1>2, <2>2
<1>5. InOrder(x) BY <1>3 DEF InOrder, IsVideo
<1>6. 3 \in DOMAIN x BY <1>1
<1>7. VideoIn(x) = IF f.video THEN {f.n} ELSE {} BY <1>2, <1>3, <1>6 DEF VideoIn
<1>8. Follows(x)
  <2>1. 2 - 1 = 1 /\ 3 - 1 = 2 OBVIOUS
  <2> QED BY <1>1, <1>2, <2>1 DEF Follows
<1>9. ~Inside(x) BY <1>2 DEF Inside
<1> QED BY <1>4, <1>5, <1>7, <1>8, <1>9 DEF x

LEMMA SignalledMore ==
  ASSUME NEW s \in Seq(Nat), NEW n \in Nat,
         \A i, j \in DOMAIN s : i < j => s[i] < s[j], \A i \in Range(s) : i < n
  PROVE  /\ \A i, j \in DOMAIN Append(s, n) : i < j => Append(s, n)[i] < Append(s, n)[j]
         /\ Range(Append(s, n)) = Range(s) \cup {n}
<1> DEFINE t == Append(s, n)
<1>1. Len(s) \in Nat /\ DOMAIN s = 1..Len(s) BY LenProperties
<1>2. /\ t \in Seq(Nat) /\ Len(t) = Len(s) + 1 /\ \A i \in 1..Len(s) : t[i] = s[i]
      /\ t[Len(s) + 1] = n
  BY AppendProperties
<1>3. DOMAIN t = 1..(Len(s) + 1) BY <1>2, LenProperties
<1> HIDE DEF t
<1>4. \A i \in 1..(Len(s) + 1) : i \in 1..Len(s) \/ i = Len(s) + 1 BY <1>1
<1>5. ASSUME NEW i \in DOMAIN t, NEW j \in DOMAIN t, i < j PROVE t[i] < t[j]
  <2>1. i \in 1..Len(s) BY <1>1, <1>3, <1>5
  <2>2. CASE j \in 1..Len(s) BY <1>1, <1>2, <1>5, <2>1, <2>2
  <2>3. CASE j = Len(s) + 1
    <3>1. t[i] \in Range(s) BY <1>1, <1>2, <2>1 DEF Range
    <3> QED BY <1>2, <2>3, <3>1
  <2> QED BY <1>3, <1>4, <2>2, <2>3
<1>6. Range(t) = Range(s) \cup {n}
  <2>1. Range(t) \subseteq Range(s) \cup {n} BY <1>1, <1>2, <1>3, <1>4 DEF Range
  <2>2. Range(s) \subseteq Range(t)
    <3> SUFFICES ASSUME NEW i \in DOMAIN s PROVE s[i] \in Range(t) BY DEF Range
    <3>1. i \in DOMAIN t /\ t[i] = s[i] BY <1>1, <1>2, <1>3
    <3> QED BY <3>1 DEF Range
  <2>3. n \in Range(t)
    <3>1. Len(s) + 1 \in DOMAIN t BY <1>1, <1>3
    <3> QED BY <1>2, <3>1 DEF Range
  <2> QED BY <2>1, <2>2, <2>3
<1> QED BY <1>5, <1>6 DEF t

LEMMA PacketsStep ==
  ASSUME RtspAssumption, IInv, [Next]_vars
  PROVE  Packets'
<1>1. /\ TypeOK /\ Buffers /\ Packets /\ Framed(Unread) /\ InOrder(Unread) /\ Unread \in Seq(Pieces)
      /\ signalled \in Seq(Nat) /\ Follows(Unread)
  BY UnreadFacts DEF IInv, Packets, TypeOK
<1>2. CASE UNCHANGED vars
  BY <1>1, <1>2, PacketsSame DEF vars, reader, history, Unread
<1>3. CASE OnWrite
  BY <1>1, <1>3, PacketsSame DEF OnWrite, reader, history, Unread
<1>4. CASE OnRead
  BY <1>1, <1>4, UnreadByRead, PacketsSame DEF OnRead, history
<1>5. CASE KeepFrame
  BY <1>1, <1>5, UnreadByKeep, PacketsSame DEF KeepFrame, history
<1>6. CASE ParseFrame
  <2> DEFINE P == Unread'
             f == buffer[3].f
             F == VideoAmong(Unread, 3)
  <2>1. P \in Seq(Pieces) /\ Rest(P, Unread, 3)
    BY <1>1, <1>6, UnreadByFrame
  <2>2. Framed(P) /\ InOrder(P) /\ Follows(P) BY <1>1, <2>1, RestKeeps
  <2>12. ~Inside(P)
    <3> SUFFICES ASSUME Inside(P) PROVE FALSE OBVIOUS
    <3>1. 1 \in DOMAIN P BY <2>1, PiecesFacts DEF Inside
    <3>2. 3 + 1 \in DOMAIN Unread /\ P[1] = Unread[3 + 1] BY <2>1, <3>1 DEF Rest
    <3>3. Unread[3].t = "packet"
      <4>1. 3 \in 1..3 OBVIOUS
      <4> QED BY <4>1, <1>1, <1>6, FrameRead
    <3>4. 3 + 1 > 1 /\ (3 + 1) - 1 = 3 OBVIOUS
    <3> QED BY <1>1, <3>2, <3>3, <3>4 DEF Follows, Inside
  <2>3. VideoIn(Unread) = F \cup VideoIn(P)
    BY <1>1, <2>1, VideoSplit
  <2>4. \A i \in F, n \in VideoIn(P) : i < n
    <3>1. AllBefore(F, VideoIn(P)) BY <1>1, <2>1, VideoSplit
    <3> QED BY <3>1 DEF AllBefore
  <2>5. F = IF f.video THEN {f.n} ELSE {}
    <3>1. /\ 3 \in DOMAIN Unread /\ Unread[3] = buffer[3] /\ buffer[3].t = "packet"
          /\ Unread[1].t = "magic" /\ Unread[2].t = "length" /\ DOMAIN Unread = 1..Len(Unread)
      <4>1. 1 \in 1..3 /\ 2 \in 1..3 /\ 3 \in 1..3 OBVIOUS
      <4> QED BY <4>1, <1>1, <1>6, FrameRead, PiecesFacts
    <3>2. \A i \in DOMAIN Unread : i <= 3 => i \in {1, 2, 3} BY <1>1, <3>1, PiecesFacts
    <3>3. \A i \in DOMAIN Unread : i <= 3 /\ IsVideo(Unread[i]) => i = 3
      BY <3>1, <3>2 DEF IsVideo
    <3> QED BY <3>1, <3>3 DEF IsVideo, VideoAmong
  <2> HIDE DEF P, F
  <2>6. \A i \in Range(signalled), n \in VideoIn(Unread) : i < n BY <1>1 DEF Packets
  <2>7. \A i, j \in DOMAIN signalled : i < j => signalled[i] < signalled[j] BY <1>1 DEF Packets
  <2>8. /\ \A i, j \in DOMAIN signalled' : i < j => signalled'[i] < signalled'[j]
        /\ Range(signalled') = Range(signalled) \cup F
    <3>1. CASE f.video
      <4>1. f.n \in Nat /\ f.n \in VideoIn(Unread)
        BY <1>1, <1>6, <2>3, <2>5, <3>1, FrameRead DEF Frame
      <4>2. signalled' = Append(signalled, f.n) BY <1>6, <3>1 DEF ParseFrame, Signal
      <4>3. F = {f.n} BY <2>5, <3>1
      <4>4. \A i \in Range(signalled) : i < f.n BY <2>6, <4>1
      <4> HIDE DEF f
      <4> QED BY <1>1, <2>7, <4>1, <4>2, <4>3, <4>4, SignalledMore
    <3>2. CASE ~f.video
      <4>1. signalled' = signalled /\ F = {} BY <1>6, <2>5, <3>2 DEF ParseFrame, Signal
      <4> QED BY <2>7, <4>1
    <3> QED BY <3>1, <3>2
  <2>9. \A i \in Range(signalled'), n \in VideoIn(P) : i < n BY <2>3, <2>4, <2>6, <2>8
  <2>10. dropped' = dropped /\ camera' = camera /\ UNCHANGED <<passed, stray, torn>>
    BY <1>6 DEF ParseFrame
  <2>11. Range(signalled') \cup VideoIn(P) = Video \ (dropped \cup passed)
    BY <1>1, <2>3, <2>8 DEF Packets
  <2>13. (passed # {} \/ stray \/ Inside(Unread) => torn)'
    BY <1>1, <2>10, <2>12 DEF Packets, P, Inside
  <2>14. (Framed(Unread) /\ InOrder(Unread) /\ Follows(Unread))'
    BY <2>2 DEF P, Framed, InOrder, Follows, IsVideo
  <2>15. VideoIn(Unread)' = VideoIn(P) /\ Video' = Video BY <2>10 DEF P, VideoIn, Video
  <2> QED BY <1>1, <2>8, <2>9, <2>10, <2>11, <2>13, <2>14, <2>15 DEF Packets, Range
<1>14. ASSUME NEW m, Unread' \in Seq(Pieces), Rest(Unread', Unread, m),
              dropped' \cup passed' = (dropped \cup passed) \cup VideoAmong(Unread, m),
              passed' # {} \/ stray' \/ Inside(Unread') => torn',
              UNCHANGED <<signalled, camera>>
       PROVE  Packets'
  <2> DEFINE F == VideoAmong(Unread, m)
             P == Unread'
  <2>2. Framed(P) /\ InOrder(P) /\ Follows(P) BY <1>1, <1>14, RestKeeps
  <2>3. VideoIn(Unread) = F \cup VideoIn(P) BY <1>1, <1>14, VideoSplit
  <2>4. \A i \in F, n \in VideoIn(P) : i < n /\ i \in Nat /\ n \in Nat
    <3>1. AllBefore(F, VideoIn(P)) BY <1>1, <1>14, VideoSplit
    <3> QED BY <3>1 DEF AllBefore
  <2>5. dropped' \cup passed' = (dropped \cup passed) \cup F BY <1>14
  <2> HIDE DEF F, P
  <2>6. /\ \A i \in Range(signalled), n \in VideoIn(Unread) : i < n
        /\ \A i, j \in DOMAIN signalled : i < j => signalled[i] < signalled[j]
        /\ Range(signalled) \cup VideoIn(Unread) = Video \ (dropped \cup passed)
        /\ dropped \cup passed \subseteq DOMAIN camera.frames
    BY <1>1 DEF Packets
  <2>8. Range(signalled) \subseteq Nat BY <1>1, RangeOfSeq
  <2>9. F \cap VideoIn(P) = {} BY <2>4
  <2>10. F \cap Range(signalled) = {}
    <3>1. VideoIn(Unread) \subseteq Nat BY <1>1, PiecesFacts DEF VideoIn, IsVideo
    <3>2. \A i \in Range(signalled), n \in F : i < n /\ i \in Nat BY <2>3, <2>6, <2>8
    <3> QED BY <2>8, <3>1, <3>2
  <2>11. Range(signalled) \cup VideoIn(P) = Video \ (dropped' \cup passed')
    BY <2>3, <2>5, <2>6, <2>9, <2>10
  <2>12. dropped' \cup passed' \subseteq DOMAIN camera.frames BY <2>3, <2>5, <2>6 DEF Video
  <2>13. \A i \in Range(signalled), n \in VideoIn(P) : i < n BY <2>3, <2>6
  <2>14. (Framed(Unread) /\ InOrder(Unread) /\ Follows(Unread))'
    BY <2>2 DEF P, Framed, InOrder, Follows, IsVideo
  <2>15. VideoIn(Unread)' = VideoIn(P) /\ Video' = Video /\ Range(signalled)' = Range(signalled)
    BY <1>14 DEF P, VideoIn, Video, Range
  <2>16. (passed # {} \/ stray \/ Inside(Unread) => torn)' BY <1>14 DEF Inside
  <2> QED BY <1>14, <2>6, <2>11, <2>12, <2>13, <2>14, <2>15, <2>16 DEF Packets
<1>15. buffer \in Seq(Pieces) /\ wire \in Seq(Pieces) BY <1>1 DEF TypeOK
<1>7. ASSUME Discard, reading PROVE Packets'
  <2>1. Unread' = wire /\ Rest(wire, Unread, Len(buffer))
    BY <1>1, <1>7, UnreadByDiscard
  <2>2. /\ Len(buffer) \in 1..Len(buffer) /\ Len(buffer) \in DOMAIN buffer
        /\ buffer = SubSeq(buffer, 1, Len(buffer))
    BY <1>1, <1>7, <1>15, PiecesFacts, SubSeqFull DEF Buffers
  <2>3. VideoIn(buffer) = VideoAmong(Unread, Len(buffer)) BY <1>1, <1>7, <2>2, PassedVideo
  <2>4. /\ dropped' = dropped \cup VideoIn(buffer)
        /\ torn' = (torn \/ buffer[Len(buffer)].t \in {"magic", "length"})
        /\ UNCHANGED <<signalled, stray, passed, camera>>
    BY <1>7 DEF Discard
  <2>5. Inside(wire) => torn'
    <3> SUFFICES ASSUME Inside(wire) PROVE buffer[Len(buffer)].t \in {"magic", "length"}
      BY <2>4
    <3> DEFINE n == Len(buffer)
    <3>1. n \in Nat /\ n >= 1 /\ n \in DOMAIN buffer BY <1>15, <2>2, PiecesFacts
    <3>2. 1 \in DOMAIN wire BY <1>15, PiecesFacts DEF Inside
    <3>3. n + 1 \in DOMAIN Unread /\ wire[1] = Unread[n + 1] BY <2>1, <3>2 DEF Rest
    <3>4. Unread[n] = buffer[n] BY <1>1, <1>7, <3>1, UnreadFacts
    <3>5. n + 1 > 1 /\ (n + 1) - 1 = n BY <3>1
    <3> HIDE DEF n
    <3>6. buffer[n].t \in {"magic", "length"} BY <1>1, <3>3, <3>4, <3>5 DEF Follows, Inside
    <3> QED BY <3>6 DEF n
  <2>6. passed' # {} \/ stray' \/ Inside(Unread') => torn' BY <1>1, <2>1, <2>4, <2>5 DEF Packets
  <2>7. dropped' \cup passed' = (dropped \cup passed) \cup VideoAmong(Unread, Len(buffer))
    BY <2>3, <2>4
  <2> QED BY <1>14, <1>15, <2>1, <2>4, <2>6, <2>7
<1>8. CASE ParseReply BY <1>7, <1>8 DEF ParseReply, Parsing
<1>9. CASE ParsePartOfReply BY <1>7, <1>9 DEF ParsePartOfReply, Parsing
<1>10. CASE TearHeader
  <2>1. /\ reading /\ Len(buffer) = 1 /\ buffer[1].t = "magic" /\ torn' = TRUE
        /\ UNCHANGED <<signalled, dropped, passed, camera>>
    BY <1>10 DEF TearHeader, Parsing, First
  <2>2. Unread' = wire /\ Rest(wire, Unread, 1)
    BY <1>1, <1>10, <2>1, UnreadByDiscard
  <2>3. VideoAmong(Unread, 1) = {}
    <3>1. \A j \in DOMAIN Unread : j <= 1 => j = 1 BY <1>1, PiecesFacts
    <3>2. Unread[1].t = "magic" BY <1>1, <2>1, UnreadFacts
    <3> QED BY <3>1, <3>2 DEF VideoAmong, IsVideo
  <2> QED BY <1>14, <1>15, <2>1, <2>2, <2>3
<1>16. CASE Astray
  <2>1. reading /\ torn' = TRUE /\ UNCHANGED <<signalled, dropped, camera>>
    BY <1>16 DEF Astray, Parsing
  <2>2. ASSUME NEW n \in 1..Len(buffer), passed' = passed \cup VideoIn(SubSeq(buffer, 1, n)),
               GoOn(SubSeq(buffer, n + 1, Len(buffer))), UNCHANGED <<wire, recv_buffer_, crashed>>
        PROVE  Packets'
    <3>1. Unread' \in Seq(Pieces) /\ Rest(Unread', Unread, n)
      BY <1>1, <2>1, <2>2, UnreadByPass
    <3>2. VideoIn(SubSeq(buffer, 1, n)) = VideoAmong(Unread, n) BY <1>1, <2>1, PassedVideo
    <3>3. dropped' \cup passed' = (dropped \cup passed) \cup VideoAmong(Unread, n)
      BY <2>1, <2>2, <3>2
    <3> QED BY <1>14, <2>1, <3>1, <3>3
  <2> QED BY <1>1, <1>16, <2>1, <2>2, UnreadAstray, PacketsSame
<1>17. CASE PassOver
  <2>1. /\ reading /\ GoOn(SubSeq(buffer, 2, Len(buffer))) /\ UNCHANGED <<wire, recv_buffer_>>
        /\ UNCHANGED <<signalled, stray, dropped, passed, torn, camera>>
        /\ buffer[1].t = "uninitialized"
    BY <1>17 DEF PassOver, Parsing, First, history
  <2>2. 1 \in 1..Len(buffer) /\ 1 + 1 = 2 BY <1>1, <1>15, <2>1, PiecesFacts DEF Buffers
  <2>3. Unread' \in Seq(Pieces) /\ Rest(Unread', Unread, 1)
    BY <1>1, <2>1, <2>2, UnreadByPass
  <2>4. Unread[1].t = "uninitialized" BY <1>1, <2>1, UnreadFacts
  <2>5. VideoAmong(Unread, 1) = {}
    <3>1. \A j \in DOMAIN Unread : j <= 1 => j = 1 BY <1>1, PiecesFacts
    <3> QED BY <2>4, <3>1 DEF VideoAmong, IsVideo
  <2> DEFINE P == Unread'
  <2>6. ~Inside(P)
    <3> SUFFICES ASSUME Inside(P) PROVE FALSE OBVIOUS
    <3>1. 1 \in DOMAIN P BY <2>3, PiecesFacts DEF Inside
    <3>2. 1 + 1 \in DOMAIN Unread /\ P[1] = Unread[1 + 1] BY <2>3, <3>1 DEF Rest
    <3>3. 1 + 1 > 1 /\ (1 + 1) - 1 = 1 OBVIOUS
    <3> QED BY <1>1, <2>4, <3>2, <3>3 DEF Follows, Inside
  <2>7. passed' # {} \/ stray' \/ Inside(Unread') => torn'
    BY <1>1, <2>1, <2>6 DEF Packets
  <2> QED BY <1>14, <2>1, <2>3, <2>5, <2>7
<1>11. ASSUME NEW x \in Seq(Pieces), Framed(x), InOrder(x), Follows(x), ~Inside(x),
              wire' = wire \o x,
              UNCHANGED reader, UNCHANGED history, camera' \in CameraStates,
              Video' = Video \cup VideoIn(x), VideoIn(x) \cap DOMAIN camera.frames = {},
              \A i \in DOMAIN camera.frames, n \in VideoIn(x) : i < n,
              DOMAIN camera.frames \subseteq DOMAIN camera'.frames
       PROVE  Packets'
  <2>1. Unread' = Unread \o x BY <1>1, <1>11, UnreadByCamera
  <2>2. Range(signalled) \cup VideoIn(Unread) = Video \ (dropped \cup passed)
    BY <1>1 DEF Packets
  <2>3. Video \subseteq DOMAIN camera.frames BY DEF Video
  <2>4. \A i \in VideoIn(Unread), n \in VideoIn(x) : i < n BY <1>11, <2>2, <2>3
  <2>5. \A i \in Range(signalled), n \in VideoIn(x) : i < n BY <1>11, <2>2, <2>3
  <2> DEFINE q == Unread \o x
  <2>6. /\ Framed(q) /\ InOrder(q) /\ Follows(q) /\ (Inside(q) => Inside(Unread))
        /\ VideoIn(q) = VideoIn(Unread) \cup VideoIn(x)
    BY <1>1, <1>11, <2>4, ThenPieces
  <2> HIDE DEF q
  <2>7. UNCHANGED <<signalled, dropped, passed, stray, torn>> BY <1>11 DEF history
  <2>8. dropped \cup passed \subseteq DOMAIN camera.frames BY <1>1 DEF Packets
  <2>9. Range(signalled) \cup VideoIn(q) = Video' \ (dropped \cup passed)
    BY <1>11, <2>2, <2>6, <2>8
  <2>10. \A i \in Range(signalled), n \in VideoIn(q) : i < n
    BY <1>1, <2>5, <2>6 DEF Packets
  <2>11. Unread' = q BY <2>1 DEF q
  <2>12. VideoIn(Unread)' = VideoIn(q) BY <2>11 DEF VideoIn
  <2>13. Framed(Unread)' /\ InOrder(Unread)' /\ Follows(Unread)'
    BY <2>6, <2>11 DEF Framed, InOrder, Follows, IsVideo
  <2>14. Range(signalled)' = Range(signalled) BY <2>7 DEF Range
  <2>15. (passed # {} \/ stray \/ Inside(Unread) => torn)'
    BY <1>1, <2>6, <2>7, <2>11 DEF Packets, Inside
  <2> QED BY <1>1, <1>11, <2>7, <2>8, <2>9, <2>10, <2>12, <2>13, <2>14, <2>15 DEF Packets
<1>12. CASE CameraAnswers
  <2>1. PICK a : \E r \in Requests, what \in Replies :
           /\ r = requests[1] /\ 1 \in DOMAIN requests /\ IsAnswer(a, r, what)
           /\ wire' = wire \o a[1] /\ camera' = a[2]
    BY <1>1, <1>12, AnswersFacts
  <2> DEFINE x == a[1]
  <2>2. /\ x \in Seq(Pieces) /\ camera' \in CameraStates /\ camera'.frames = camera.frames
        /\ \E what \in Replies : Len(x) = Size(what) /\ ReplyAt(x, 1, what)
    BY <2>1 DEF IsAnswer
  <2> HIDE DEF x
  <2>3. \A k \in DOMAIN x : IsText(x[k])
    <3>1. PICK what \in Replies : Len(x) = Size(what) /\ ReplyAt(x, 1, what) BY <2>2
    <3>2. DOMAIN x = 1..Size(what) BY <2>2, <3>1, LenProperties
    <3>3. Size(what) \in Nat BY <1>1, DescribedFacts DEF Size, TypeOK
    <3> QED BY <3>1, <3>2, <3>3 DEF ReplyAt
  <2>4. Framed(x) /\ InOrder(x) /\ VideoIn(x) = {} /\ Follows(x) /\ ~Inside(x)
    BY <2>2, <2>3, TextCarriesNothing
  <2>5. Video' = Video BY <2>2 DEF Video
  <2>6. wire' = wire \o x BY <2>1 DEF x
  <2> QED BY <1>11, <1>12, <2>2, <2>4, <2>5, <2>6 DEF CameraAnswers
<1>13. CASE CameraSends
  <2>1. PICK video \in BOOLEAN :
           LET f == [n |-> Len(camera.frames) + 1, video |-> video]
           IN  /\ f \in Frame /\ wire' = wire \o FramePieces(f)
               /\ camera' \in CameraStates
               /\ camera'.frames = Append(camera.frames, video)
    BY <1>1, <1>13, SendsFacts
  <2> DEFINE N == Len(camera.frames) + 1
             f == [n |-> N, video |-> video]
             x == FramePieces(f)
  <2>2. f \in Frame /\ f.n = N /\ f.video = video /\ wire' = wire \o x BY <2>1
  <2>3. x \in Seq(Pieces) BY <2>2, FrameFacts
  <2>4. /\ Framed(x) /\ InOrder(x) /\ Follows(x) /\ ~Inside(x)
        /\ VideoIn(x) = IF video THEN {N} ELSE {}
    BY <2>2, FrameCarries
  <2>5. camera.frames \in Seq(BOOLEAN) BY <1>1 DEF TypeOK, CameraStates
  <2>6. /\ N \in Nat /\ DOMAIN camera.frames = 1..(N - 1) /\ DOMAIN camera'.frames = 1..N
        /\ \A i \in 1..(N - 1) : camera'.frames[i] = camera.frames[i]
        /\ camera'.frames[N] = video
    <3>1. Len(camera.frames) \in Nat /\ DOMAIN camera.frames = 1..Len(camera.frames)
      BY <2>5, LenProperties
    <3>2. /\ camera'.frames \in Seq(BOOLEAN) /\ Len(camera'.frames) = N
          /\ \A i \in 1..Len(camera.frames) : camera'.frames[i] = camera.frames[i]
          /\ camera'.frames[N] = video
      BY <2>1, <2>5, AppendProperties
    <3>3. DOMAIN camera'.frames = 1..N BY <3>2, LenProperties
    <3> QED BY <3>1, <3>2, <3>3
  <2> HIDE DEF N, f, x
  <2>7. Video' = Video \cup VideoIn(x)
    <3>1. \A i \in 1..N : i \in 1..(N - 1) \/ i = N BY <2>6
    <3>0. N >= 1
      <4>1. Len(camera.frames) \in Nat BY <2>5, LenProperties
      <4> QED BY <4>1 DEF N
    <3>2. 1..(N - 1) \subseteq 1..N /\ N \in 1..N /\ N \notin 1..(N - 1) BY <2>6, <3>0
    <3> QED BY <2>4, <2>6, <3>1, <3>2 DEF Video
  <2>8. VideoIn(x) \cap DOMAIN camera.frames = {} BY <2>4, <2>6
  <2>9. \A i \in DOMAIN camera.frames, n \in VideoIn(x) : i < n BY <2>4, <2>6
  <2>10. DOMAIN camera.frames \subseteq DOMAIN camera'.frames BY <2>6
  <2> QED BY <1>11, <1>13, <2>1, <2>2, <2>3, <2>4, <2>7, <2>8, <2>9, <2>10 DEF CameraSends
<1> QED
  BY <1>2, <1>3, <1>4, <1>5, <1>6, <1>8, <1>9, <1>10, <1>12, <1>13, <1>16, <1>17
     DEF Next, Loop

-----------------------------------------------------------------------------
(* Every step keeps the dialogue in order, while no reply is cut.          *)

(* What Dialogue says of the camera and of the tracks left.                *)
Known == /\ \A k \in DOMAIN track_control_ : track_control_[k] \in Range(Described)
         /\ \A s \in camera.setup : s.track \in Range(Described)
         /\ \A r, s \in camera.setup : r.track = s.track => r = s

LEMMA SamePlace ==
  ASSUME camera'.tracks = camera.tracks, camera'.setup = camera.setup,
         track_control_' = track_control_
  PROVE  /\ (Known => Known') /\ (Aligned(track_control_) => Aligned(track_control_)')
         /\ Due' = Due /\ (SetUp(Due) => SetUp(Due)')
         /\ \A r : Asked(r) => Asked(r)'
<1>1. Described' = Described BY DEF Described
<1>2. Known => Known' BY <1>1 DEF Known, Range
<1>3. Aligned(track_control_) => Aligned(track_control_)' BY DEF Aligned
<1>4. Due' = Due BY DEF Due
<1>5. SetUp(Due) => SetUp(Due)' BY <1>4 DEF SetUp
<1>6. SetUp(Due - 1) => SetUp(Due - 1)' BY <1>4 DEF SetUp
<1>7. SetUp(camera.tracks) => SetUp(camera.tracks)' BY DEF SetUp
<1>8. Range(Described)' = Range(Described) BY <1>1 DEF Range
<1>9. \A r : Asked(r) => Asked(r)' BY <1>4, <1>6, <1>7, <1>8 DEF Asked
<1> QED BY <1>2, <1>3, <1>4, <1>5, <1>9

LEMMA DialogueSame ==
  ASSUME Dialogue, requests' \in {requests, <<>>},
         camera'.tracks = camera.tracks, camera'.setup = camera.setup,
         track_control_' = track_control_,
         \A k \in DOMAIN Unread' :
           Unread'[k].t = "status" /\ Unread'[k].what = "Session" => SetUp(Due)
  PROVE  Dialogue'
<1>1. (Known => Known') /\ (Aligned(track_control_) => Aligned(track_control_)') BY SamePlace
<1>2. (SetUp(Due) => SetUp(Due)') /\ \A r : Asked(r) => Asked(r)' BY SamePlace
<1>3. \A i \in DOMAIN requests' : Asked(requests[i])' BY <1>2 DEF Dialogue
<1> QED BY <1>1, <1>2, <1>3 DEF Dialogue, Known

LEMMA SetupAsked ==
  ASSUME RtspAssumption, TypeOK, Dialogue, camera' = camera, requests = <<>>,
         NEW tracks \in Seq(Names), SendSetup(tracks),
         Aligned(tracks), \A k \in DOMAIN tracks : tracks[k] \in Range(Described),
         SetUp(camera.tracks - Len(tracks)), NoStatus(Unread)'
  PROVE  Dialogue'
<1> DEFINE K == camera.tracks
           L == Len(tracks)
<1>1. K \in {1, 2} BY DescribedFacts DEF TypeOK
<1>2. L \in Nat /\ DOMAIN tracks = 1..L BY LenProperties
<1>3. /\ camera'.tracks = K /\ Described' = Described
      /\ Range(Described)' = Range(Described)
  BY DEF Described, Range
<1>4. CASE tracks = <<>>
  <2>1. requests' = <<>> /\ track_control_' = <<>> BY <1>4, SetupFacts
  <2>2. Aligned(track_control_)'
    <3>1. \A j \in 1..K : ~(j <= Len(<<>>)) BY <1>1
    <3> QED BY <1>3, <2>1, <3>1 DEF Aligned
  <2> QED BY <1>3, <2>1, <2>2 DEF Dialogue, NoStatus
<1>5. CASE tracks # <<>>
  <2> DEFINE c == IF L > 1 THEN "0-1" ELSE "2-3"
  <2>1. /\ L > 0 /\ Len(track_control_') = L - 1
        /\ \A i \in 1..Len(track_control_') : track_control_'[i] = tracks[i + 1]
        /\ IsNext("SETUP", tracks[1], c) /\ track_control_' \in Seq(Names)
    BY <1>5, SetupFacts
  <2>2. \A i \in DOMAIN requests' : /\ requests'[i].method = "SETUP"
                                    /\ requests'[i].track = tracks[1]
                                    /\ requests'[i].channels = c
    BY <2>1 DEF IsNext
  <2>3. DOMAIN track_control_' = 1..(L - 1) BY <2>1, LenProperties
  <2>4. Due' = (K - L) + 1 BY <1>1, <1>2, <1>3, <2>1 DEF Due
  <2>5. SetUp(Due - 1)'
    <3>1. Due' - 1 = K - L BY <1>1, <1>2, <2>4
    <3> QED BY <3>1 DEF SetUp
  <2>6. Due' > 0 => tracks[1] = Tracks[Due'] /\ c = IF Due' < K THEN "0-1" ELSE "2-3"
    <3> SUFFICES ASSUME Due' > 0
                 PROVE  tracks[1] = Tracks[Due'] /\ c = IF Due' < K THEN "0-1" ELSE "2-3"
      OBVIOUS
    <3>1. L \in 1..K /\ (L + 1) - L = 1 /\ (K + 1) - L = Due' BY <1>1, <1>2, <2>1, <2>4
    <3>2. tracks[1] = Tracks[Due'] BY <3>1 DEF Aligned
    <3>3. L > 1 <=> Due' < K BY <1>1, <1>2, <2>4
    <3> QED BY <3>2, <3>3
  <2>7. tracks[1] \in Range(Described) BY <1>2, <2>1
  <2> HIDE DEF c, L
  <2>8. \A i \in DOMAIN requests' : Asked(requests[i])'
    BY <1>3, <2>2, <2>5, <2>6, <2>7 DEF Asked
  <2>9. Aligned(track_control_)'
    <3> SUFFICES ASSUME NEW j \in 1..K, j <= L - 1
                 PROVE  track_control_'[((L - 1) + 1) - j] = Tracks[(K + 1) - j]
      BY <1>3, <2>1 DEF Aligned
    <3>1. /\ ((L - 1) + 1) - j \in 1..(L - 1) /\ (((L - 1) + 1) - j) + 1 = (L + 1) - j /\ j <= L
      BY <1>1, <1>2
    <3>2. track_control_'[((L - 1) + 1) - j] = tracks[(L + 1) - j] BY <2>1, <3>1
    <3> QED BY <3>1, <3>2 DEF Aligned, L
  <2>10. \A k \in DOMAIN track_control_' : track_control_'[k] \in Range(Described)
    BY <1>2, <2>1, <2>3
  <2> QED BY <1>3, <2>8, <2>9, <2>10 DEF Dialogue, NoStatus
<1> QED BY <1>4, <1>5

(* A request that is neither SETUP nor PLAY, or PLAY when all is set up.   *)
LEMMA OtherAsked ==
  ASSUME Dialogue, camera' = camera, requests = <<>>, NEW m, NEW t, NEW c, IsNext(m, t, c),
         m # "SETUP", m = "PLAY" => track_control_ = <<>> /\ SetUp(camera.tracks),
         track_control_' = track_control_, NoStatus(Unread)'
  PROVE  Dialogue'
<1>1. (Known => Known') /\ (Aligned(track_control_) => Aligned(track_control_)') BY SamePlace
<1>2. \A i \in DOMAIN requests' : requests'[i].method = m BY DEF IsNext
<1>3. SetUp(camera.tracks) => SetUp(camera.tracks)' BY DEF SetUp
<1>4. \A i \in DOMAIN requests' : Asked(requests[i])' BY <1>2, <1>3 DEF Asked
<1> QED BY <1>1, <1>4 DEF Dialogue, Known, NoStatus

LEMMA DialogueStep ==
  ASSUME RtspAssumption, IInv, [Next]_vars, ~cut'
  PROVE  Dialogue'
<1>1. /\ TypeOK /\ Buffers /\ OneTurn /\ Replied(Unread) /\ Framed(Unread)
      /\ Unread \in Seq(Pieces) /\ track_control_ \in Seq(Names) /\ requests \in Seq(Requests)
  BY UnreadFacts DEF IInv, OneTurn, Packets, TypeOK
<1> DEFINE K == camera.tracks
<1>2. /\ K \in {1, 2} /\ \A i \in 1..K : /\ Tracks[i] \in Range(Described)
                                         /\ Tracks[i] \in Names /\ i \in DOMAIN Tracks
  BY <1>1, DescribedFacts DEF TypeOK
<1>3. ~cut
  BY DEF Next, Loop, OnWrite, OnRead, KeepFrame, ParseFrame, ParseReply, ParsePartOfReply, TearHeader,
         Astray, PassOver, CameraAnswers, CameraSends, vars, history
<1>4. Dialogue /\ Known BY <1>3 DEF IInv, Dialogue, Known
<1>5. ASSUME Unread' = Unread, UNCHANGED <<requests, track_control_, camera>>
      PROVE  Dialogue'
  BY <1>4, <1>5, DialogueSame DEF Dialogue
<1>6. CASE UNCHANGED vars
  BY <1>5, <1>6 DEF vars, reader, dialogue, Unread
<1>7. CASE OnWrite
  <2>1. IsRequest("OPTIONS", "", "") BY DEF IsRequest, Methods
  <2>2. IsNext("OPTIONS", "", "")
    BY <1>1, <1>7, <2>1, RequestFacts DEF OnWrite, SendOptions
  <2>3. /\ requests = <<>> /\ NoStatus(Unread) /\ Unread' = Unread /\ camera' = camera
        /\ track_control_' = track_control_
    BY <1>1, <1>7 DEF OneTurn, OnWrite, Unread, reader
  <2>4. NoStatus(Unread)' BY <2>3 DEF NoStatus
  <2> QED BY <1>4, <2>2, <2>3, <2>4, OtherAsked
<1>8. CASE OnRead
  BY <1>1, <1>5, <1>8, UnreadByRead DEF OnRead, dialogue
<1>9. CASE KeepFrame
  BY <1>1, <1>5, <1>9, UnreadByKeep DEF KeepFrame, dialogue
<1>16. ASSUME NEW n, Rest(Unread', Unread, n), UNCHANGED <<requests, track_control_, camera>>
       PROVE  Dialogue'
  <2>1. \A k \in DOMAIN Unread' : \E j \in DOMAIN Unread : Unread'[k] = Unread[j]
    BY <1>16 DEF Rest
  <2>2. \A k \in DOMAIN Unread' :
          Unread'[k].t = "status" /\ Unread'[k].what = "Session" => SetUp(Due)
    BY <1>4, <2>1 DEF Dialogue
  <2> QED BY <1>4, <1>16, <2>2, DialogueSame
<1>10. CASE ParseFrame
  <2>1. Rest(Unread', Unread, 3) BY <1>1, <1>10, UnreadByFrame
  <2>2. UNCHANGED <<requests, track_control_, camera>> BY <1>10 DEF ParseFrame, dialogue
  <2> QED BY <1>16, <2>1, <2>2
<1>11. CASE ParseReply
  <2>1. reading /\ Discard /\ First.t = "status" /\ Len(buffer) > 1 /\ camera' = camera
    BY <1>11 DEF ParseReply, Parsing, Discard
  <2>2. Unread' = wire /\ Rest(wire, Unread, Len(buffer)) /\ wire \in Seq(Pieces)
    BY <1>1, <2>1, UnreadByDiscard DEF TypeOK
  <2>3. 1 \in DOMAIN Unread /\ Unread[1] = First
    BY <1>1, <2>1, UnreadFacts DEF First
  <2>4. requests = <<>> BY <1>1, <2>1, <2>3 DEF OneTurn, NoStatus
  <2>5. NoStatus(Unread)'
    <3>1. NoStatus(wire) BY <1>1, <1>2, <2>1, <2>2, <2>3, NoneBehind
    <3> QED BY <2>2, <3>1 DEF NoStatus
  <2>6. First.what = "Session" => SetUp(Due) BY <1>4, <2>1, <2>3 DEF Dialogue
  <2>7. CASE track_control_' = track_control_ /\ IsNext("DESCRIBE", "", "")
    BY <1>4, <2>1, <2>4, <2>5, <2>7, OtherAsked
  <2>8. CASE First.what = "Session" /\ track_control_ = <<>> /\ track_control_' = <<>>
             /\ IsNext("PLAY", "", "")
    <3>0. track_control_ = <<>> /\ track_control_' = track_control_ /\ Len(<<>>) = 0 BY <2>8
    <3>1. Due = K /\ track_control_' = track_control_ BY ONLY <1>2, <3>0 DEF Due
    <3>2. SetUp(K) BY <2>6, <2>8, <3>1
    <3> QED BY <1>4, <2>1, <2>4, <2>5, <2>8, <3>1, <3>2, OtherAsked
  <2>9. CASE First.what = "Session" /\ SendSetup(track_control_)
    <3>1. SetUp(camera.tracks - Len(track_control_)) BY <2>6, <2>9 DEF Due
    <3>2. /\ Aligned(track_control_)
          /\ \A k \in DOMAIN track_control_ : track_control_[k] \in Range(Described)
      BY <1>4 DEF Dialogue
    <3> QED BY <1>1, <1>4, <2>1, <2>4, <2>5, <2>9, <3>1, <3>2, SetupAsked
  <2>10. CASE First.what = "Content-Type" /\ SendSetup(track_control_ \o FoundTracks)
    <3>1. Len(buffer) >= 2 + K
      <4>1. cut' = (cut \/ (First.what = "Content-Type" /\ Len(buffer) < 2 + camera.tracks))
        BY <1>11 DEF ParseReply
      <4>2. ~(Len(buffer) < 2 + K) BY <2>10, <4>1
      <4>3. Len(buffer) \in Nat BY <1>1, LenProperties DEF TypeOK
      <4> QED BY <1>2, <4>2, <4>3
    <3> DEFINE D == FoundTracks
               T == track_control_ \o D
    <3>2. D \in Seq(Names) /\ Len(D) = K /\ \A i \in 1..K : D[i] = Tracks[i]
      BY <1>1, <2>1, <2>10, <3>1, TracksFound
    <3> HIDE DEF D
    <3>3. /\ T \in Seq(Names) /\ Len(T) = Len(track_control_) + Len(D)
          /\ \A k \in DOMAIN track_control_ : T[k] = track_control_[k]
          /\ \A k \in DOMAIN D : T[Len(track_control_) + k] = D[k]
          /\ \A k \in DOMAIN T : k \in DOMAIN track_control_
                                 \/ (k - Len(track_control_) \in DOMAIN D
                                     /\ T[k] = D[k - Len(track_control_)])
      <4>1. track_control_ \in Seq(Names) /\ D \in Seq(Names) BY <1>1, <3>2
      <4> QED BY ONLY <4>1, ConcatFacts
    <3>4. SendSetup(T) BY <2>10 DEF D
    <3> HIDE DEF T
    <3>5. Len(track_control_) \in Nat /\ DOMAIN D = 1..K /\ Len(T) = Len(track_control_) + K
      BY <1>1, <3>2, <3>3, LenProperties
    <3>6. Aligned(T)
      <4> SUFFICES ASSUME NEW j \in 1..K PROVE T[(Len(T) + 1) - j] = Tracks[(K + 1) - j]
        BY DEF Aligned
      <4>1. (K + 1) - j \in 1..K /\ Len(track_control_) + ((K + 1) - j) = (Len(T) + 1) - j
        BY <1>2, <3>5
      <4> QED BY <3>2, <3>3, <3>5, <4>1
    <3>7. \A k \in DOMAIN T : T[k] \in Range(Described)
      <4> TAKE k \in DOMAIN T
      <4>1. CASE k \in DOMAIN track_control_ BY <1>4, <3>3, <4>1 DEF Dialogue
      <4>2. CASE k \notin DOMAIN track_control_ BY <1>2, <3>2, <3>3, <3>5, <4>2
      <4> QED BY <4>1, <4>2
    <3>8. SetUp(camera.tracks - Len(T))
      <4>1. \A j \in 1..(K - Len(T)) : FALSE BY <1>2, <3>5
      <4> QED BY <4>1 DEF SetUp
    <3> QED BY <1>1, <1>4, <2>1, <2>4, <2>5, <3>3, <3>4, <3>6, <3>7, <3>8, SetupAsked
  <2> QED BY <1>1, <1>11, <2>7, <2>8, <2>9, <2>10, ReplyFacts
<1>12. CASE ParsePartOfReply BY <1>12 DEF ParsePartOfReply
<1>13. CASE TearHeader \/ Astray \/ PassOver
  <2>1. UNCHANGED <<requests, track_control_, camera>>
    BY <1>13 DEF TearHeader, Astray, PassOver, dialogue
  <2> QED BY <1>1, <1>5, <1>13, <1>16, <2>1, UnreadOtherwise
<1>14. CASE CameraAnswers
  <2>1. PICK a : \E r \in Requests, what \in Replies :
           /\ r = requests[1] /\ 1 \in DOMAIN requests /\ IsAnswer(a, r, what)
           /\ wire' = wire \o a[1] /\ camera' = a[2]
    BY <1>1, <1>14, AnswersFacts
  <2> DEFINE r == requests[1]
  <2>2. PICK what \in Replies : IsAnswer(a, r, what) BY <2>1
  <2>3. /\ 1 \in DOMAIN requests /\ r \in Requests /\ Asked(r) /\ camera' = a[2]
        /\ wire' = wire \o a[1]
    BY <1>4, <2>1 DEF Dialogue
  <2>4. /\ a[1] \in Seq(Pieces) /\ Len(a[1]) = Size(what) /\ ReplyAt(a[1], 1, what)
        /\ camera' \in CameraStates /\ camera'.tracks = K
        /\ what = "Session" => r.method \in {"SETUP", "PLAY"}
        /\ camera'.setup = IF what = "Session" /\ r.method = "SETUP"
                           THEN {s \in camera.setup : s.track # r.track}
                                  \cup {[track |-> r.track, channels |-> r.channels]}
                           ELSE camera.setup
    BY <2>2, <2>3 DEF IsAnswer
  <2>5. Unread' = Unread \o a[1]
    BY <1>1, <1>14, <2>3, <2>4, UnreadByCamera DEF CameraAnswers
  <2>6. requests # <<>> /\ requests' = Tail(requests) /\ track_control_' = track_control_
    BY <1>14 DEF CameraAnswers, dialogue
  <2>7. requests' = <<>>
    <3>1. Len(requests) <= 1 /\ Len(requests) \in Nat /\ Len(requests) # 0
      BY <1>1, <2>6, LenProperties, EmptySeq DEF OneTurn
    <3>2. \A n \in Nat : n <= 1 /\ n # 0 => n - 1 = 0 OBVIOUS
    <3>3. Tail(requests) \in Seq(Requests) /\ Len(Tail(requests)) = Len(requests) - 1
      BY <1>1, <2>6, HeadTailProperties
    <3>4. Len(Tail(requests)) = 0 BY <3>1, <3>2, <3>3
    <3> QED BY <2>6, <3>3, <3>4, EmptySeq
  <2>8. \A k \in DOMAIN Unread' : Unread'[k].t = "status" => Unread'[k].what = what
    <3>1. NoStatus(Unread) BY <1>1, <2>6 DEF OneTurn
    <3>2. K \in 1..2 BY <1>2
    <3> QED BY <1>1, <2>4, <2>5, <3>1, <3>2, RepliedThenReply
  <2> HIDE DEF r
  <2>9. CASE what = "Session" /\ r.method = "SETUP"
    <3> DEFINE new == [track |-> r.track, channels |-> r.channels]
    <3>1. camera'.setup = {s \in camera.setup : s.track # r.track} \cup {new} BY <2>4, <2>9
    <3>2. /\ SetUp(Due - 1) /\ r.track \in Range(Described)
          /\ Due > 0 => /\ r.track = Tracks[Due]
                        /\ r.channels = IF Due < K THEN "0-1" ELSE "2-3"
      BY <2>3, <2>9 DEF Asked
    <3>3. Due' = Due /\ Due \in Int /\ Due <= K /\ Described' = Described
          /\ Range(Described)' = Range(Described)
      <4>1. Len(track_control_) \in Nat BY <1>1, LenProperties
      <4> QED BY <1>2, <2>4, <2>6, <4>1 DEF Due, Described, Range
    <3>4. SetUp(Due)'
      <4> DEFINE at(j) == [track |-> Tracks[j], channels |-> IF j < K THEN "0-1" ELSE "2-3"]
      <4> SUFFICES ASSUME NEW j \in 1..Due PROVE at(j) \in camera'.setup
        BY <2>4, <3>3 DEF SetUp
      <4>1. j \in 1..K /\ Due \in 1..K /\ Due > 0 BY <1>2, <3>3
      <4>2. CASE j = Due
        <5>1. at(j) = new BY <3>2, <4>1, <4>2
        <5> QED BY <3>1, <5>1
      <4>3. CASE j # Due
        <5>1. j \in 1..(Due - 1) BY <3>3, <4>3
        <5>2. at(j) \in camera.setup BY <3>2, <5>1 DEF SetUp
        <5>3. Tracks[j] # r.track BY <1>2, <3>2, <4>1, <4>3 DEF RtspAssumption
        <5>4. at(j).track = Tracks[j] OBVIOUS
        <5> HIDE DEF at, new
        <5> QED BY <3>1, <5>2, <5>3, <5>4
      <4> QED BY <4>2, <4>3
    <3>5. new.track = r.track OBVIOUS
    <3> HIDE DEF new
    <3>6. Known'
      <4>1. \A s \in camera'.setup : s.track \in Range(Described)
        BY <1>4, <3>1, <3>2, <3>5 DEF Known
      <4>2. \A s1, s2 \in camera'.setup : s1.track = s2.track => s1 = s2
        BY <1>4, <3>1, <3>5 DEF Known
      <4> QED BY <1>4, <2>6, <3>3, <4>1, <4>2 DEF Known
    <3>7. Aligned(track_control_)' BY <1>4, <2>4, <2>6 DEF Aligned, Dialogue
    <3> QED BY <2>7, <3>4, <3>6, <3>7 DEF Dialogue, Known
  <2>10. CASE ~(what = "Session" /\ r.method = "SETUP")
    <3>1. camera'.setup = camera.setup BY <2>4, <2>10
    <3>2. what = "Session" => SetUp(Due)
      <4> SUFFICES ASSUME what = "Session" PROVE SetUp(Due) OBVIOUS
      <4>1. r.method = "PLAY" BY <2>4, <2>10
      <4>2. track_control_ = <<>> /\ SetUp(K) BY <2>3, <4>1 DEF Asked
      <4>3. Due = K BY <1>2, <4>2 DEF Due
      <4> QED BY <4>2, <4>3
    <3> QED BY <1>4, <2>4, <2>6, <2>7, <2>8, <3>1, <3>2, DialogueSame
  <2> QED BY <2>9, <2>10
<1>15. CASE CameraSends
  <2>1. PICK f \in Frame : /\ wire' = wire \o FramePieces(f) /\ camera'.tracks = camera.tracks
                           /\ camera'.setup = camera.setup
    BY <1>1, <1>15, SendsFacts
  <2> DEFINE x == FramePieces(f)
  <2>2. x \in Seq(Pieces) /\ \A k \in DOMAIN x : x[k].t # "status"
    <3>1. \A k \in 1..3 : k \in {1, 2, 3} OBVIOUS
    <3>2. x \in Seq(Pieces) /\ DOMAIN x = 1..3 BY FrameFacts
    <3>3. /\ x[1] = [t |-> "magic", f |-> f] /\ x[2] = [t |-> "length", f |-> f]
          /\ x[3] = [t |-> "packet", f |-> f]
      BY FrameFacts
    <3> QED BY <3>1, <3>2, <3>3
  <2>3. Unread' = Unread \o x BY <1>1, <1>15, <2>1, <2>2, UnreadByCamera DEF CameraSends
  <2> HIDE DEF x
  <2>4. \A k \in DOMAIN (Unread \o x) :
          \/ k \in DOMAIN Unread /\ (Unread \o x)[k] = Unread[k]
          \/ (Unread \o x)[k].t # "status"
    BY <1>1, <2>2, ConcatFacts
  <2>5. \A k \in DOMAIN Unread' :
          Unread'[k].t = "status" /\ Unread'[k].what = "Session" => SetUp(Due)
    BY <1>4, <2>3, <2>4 DEF Dialogue
  <2>6. requests' = requests /\ track_control_' = track_control_
    BY <1>15 DEF CameraSends, dialogue
  <2> QED BY <1>4, <2>1, <2>5, <2>6, DialogueSame
<1> QED
  BY <1>6, <1>7, <1>8, <1>9, <1>10, <1>11, <1>12, <1>13, <1>14, <1>15 DEF Next, Loop

-----------------------------------------------------------------------------
(* The invariant, and what it says.                                        *)

LEMMA InvInit ==
  ASSUME RtspAssumption, Init
  PROVE  IInv
<1>1. /\ requests = <<>> /\ wire = <<>> /\ reading = FALSE /\ buffer = <<>>
      /\ recv_buffer_ \in {<<>>, <<Uninitialized>>}
      /\ cseq_ = 1 /\ realm_ = FALSE /\ track_control_ = <<>>
      /\ crashed = FALSE /\ signalled = <<>> /\ stray = FALSE
      /\ dropped = {} /\ passed = {} /\ torn = FALSE /\ cut = FALSE
      /\ camera \in Cameras
  BY DEF Init
<1>2. camera \in CameraStates /\ camera.frames = <<>> /\ camera.setup = {}
  <2>1. <<>> \in Seq(BOOLEAN) BY EmptySeq
  <2>2. {} \in SUBSET [track : Names, channels : Channels] OBVIOUS
  <2>3. /\ camera = [guarded |-> camera.guarded, tracks |-> camera.tracks,
                     setup |-> camera.setup, playing |-> camera.playing,
                     stale |-> camera.stale, frames |-> camera.frames]
        /\ camera.guarded \in {{}, Methods \ {"OPTIONS"}, Methods}
        /\ camera.tracks \in 1..Len(Tracks)
        /\ camera.setup = {} /\ camera.playing = FALSE /\ camera.stale = 0
        /\ camera.frames = <<>>
    BY <1>1 DEF Cameras
  <2>4. camera.guarded \in SUBSET Methods BY <2>3
  <2>5. /\ camera.setup \in SUBSET [track : Names, channels : Channels]
        /\ camera.playing \in BOOLEAN /\ camera.stale \in Nat /\ camera.frames \in Seq(BOOLEAN)
    <3>1. camera.stale \in Nat BY <2>3
    <3>2. camera.frames \in Seq(BOOLEAN) BY <2>1, <2>3, Zenon
    <3>3. camera.playing \in BOOLEAN BY <2>3, Zenon
    <3>4. camera.setup \in SUBSET [track : Names, channels : Channels] BY <2>2, <2>3, Zenon
    <3> QED BY <3>1, <3>2, <3>3, <3>4, Zenon
  <2> QED BY <2>3, <2>4, <2>5 DEF CameraStates
<1>3. recv_buffer_ \in Seq(Pieces) /\ \A k \in DOMAIN recv_buffer_ : recv_buffer_[k] = Uninitialized
  <2>1. CASE recv_buffer_ = <<>> BY <2>1, EmptySeq
  <2>2. CASE recv_buffer_ = <<Uninitialized>>
    <3>1. Uninitialized \in Pieces BY DEF Pieces
    <3> DEFINE u == Uninitialized
    <3> HIDE DEF u
    <3>2. <<u>> \in Seq(Pieces) /\ DOMAIN <<u>> = 1..1 /\ <<u>>[1] = u BY <3>1 DEF u
    <3> QED BY <2>2, <3>2 DEF u
  <2> QED BY <1>1, <2>1, <2>2
<1>4. TypeOK
  <2>1. <<>> \in Seq(Requests) /\ <<>> \in Seq(Pieces) /\ <<>> \in Seq(Names) /\ <<>> \in Seq(Nat)
    BY EmptySeq
  <2>2. /\ requests \in Seq(Requests) /\ wire \in Seq(Pieces) /\ buffer \in Seq(Pieces)
        /\ track_control_ \in Seq(Names) /\ signalled \in Seq(Nat)
    BY <1>1, <2>1, Zenon
  <2>3. /\ reading \in BOOLEAN /\ realm_ \in BOOLEAN /\ crashed \in BOOLEAN
        /\ cut \in BOOLEAN /\ stray \in BOOLEAN /\ torn \in BOOLEAN
    BY <1>1, Zenon
  <2>4. cseq_ \in Nat \ {0} /\ dropped \subseteq Nat /\ passed \subseteq Nat BY <1>1
  <2> QED BY <1>2, <1>3, <2>2, <2>3, <2>4 DEF TypeOK
<1>5. Buffers BY <1>1 DEF Buffers
<1>6. Unread = recv_buffer_
  <2>1. <<>> \in Seq(Pieces) BY EmptySeq
  <2>2. Unread = (recv_buffer_ \o <<>>) \o <<>> BY <1>1 DEF Unread
  <2> QED BY <1>3, <2>2, ConcatEmptySeq
<1>7. \A k \in DOMAIN Unread : Unread[k].t = "uninitialized"
  BY <1>3, <1>6 DEF Uninitialized
<1>8. Framed(Unread) /\ InOrder(Unread) /\ VideoIn(Unread) = {} /\ NoStatus(Unread)
      /\ Replied(Unread)
  BY <1>7 DEF Framed, InOrder, IsVideo, VideoIn, NoStatus, Replied
<1>9. DOMAIN <<>> = {} OBVIOUS
<1>10. Packets
  <2>1. Range(signalled) = {} BY <1>1, <1>9 DEF Range
  <2>2. Video = {} BY <1>2, <1>9 DEF Video
  <2>3. Follows(Unread) BY <1>7 DEF Follows
  <2>4. ~Inside(Unread)
    <3>1. Unread \in Seq(Pieces) BY <1>3, <1>6
    <3> QED BY <1>7, <3>1, PiecesFacts DEF Inside
  <2> QED BY <1>1, <1>8, <1>9, <2>1, <2>2, <2>3, <2>4 DEF Packets
<1>11. OneTurn
  <2>1. Len(requests) <= 1 BY <1>1
  <2> QED BY <1>1, <1>8, <2>1 DEF OneTurn
<1>12. Dialogue
  <2>1. Aligned(track_control_)
    <3>1. camera.tracks \in {1, 2} BY <1>2, DescribedFacts
    <3>2. \A j \in 1..camera.tracks : ~(j <= Len(<<>>)) BY <3>1
    <3> QED BY <1>1, <3>2 DEF Aligned
  <2> QED BY <1>1, <1>2, <1>8, <1>9, <2>1 DEF Dialogue, NoStatus
<1> QED BY <1>4, <1>5, <1>10, <1>11, <1>12 DEF IInv

LEMMA InvStep ==
  ASSUME RtspAssumption, IInv, [Next]_vars
  PROVE  IInv'
<1>1. TypeOK' /\ Buffers'
  BY TypeStep DEF IInv, OneTurn, Packets
<1>2. Packets' BY PacketsStep
<1>3. OneTurn' BY OneTurnStep
<1>4. ~cut' => Dialogue' BY DialogueStep
<1> QED BY <1>1, <1>2, <1>3, <1>4 DEF IInv

(* The invariant holds throughout, for any tracks and bounds.              *)
THEOREM Invariance ==
  ASSUME RtspAssumption
  PROVE  Spec => []IInv
<1>1. Init => IInv BY InvInit
<1>2. IInv /\ [Next]_vars => IInv' BY InvStep
<1> QED BY <1>1, <1>2, PTL DEF Spec

(* Every packet of video is signalled once and in the order the camera     *)
(* sent them.  Lost are those read behind a reply and, once a read has cut *)
(* a header or a reply has taken half a frame along, those the loop passes *)
(* over until it stands at a beginning again; before that it passes over   *)
(* none, signals none that was not sent, and never stands inside a frame   *)
(* (OnRead's loop and recv_buffer_).                                       *)
THEOREM VideoIsSignalled ==
  ASSUME RtspAssumption
  PROVE  Spec => []PacketsAreSignalled
<1>1. IInv => PacketsAreSignalled BY DEF IInv, Packets, PacketsAreSignalled, Inside
<1> QED BY <1>1, Invariance, PTL

(* The channels of two tracks at most.                                     *)
LEMMA PairCard ==
  ASSUME NEW a, NEW b
  PROVE  /\ Cardinality({a}) = 1
         /\ a # b => Cardinality({a, b}) = 2
<1>1. IsFiniteSet({a}) /\ Cardinality({a}) = 1 BY FS_Singleton
<1>2. ASSUME a # b PROVE Cardinality({a, b}) = 2
  <2>1. b \notin {a} BY <1>2
  <2>2. Cardinality({a} \cup {b}) = Cardinality({a}) + 1 BY <1>1, <2>1, FS_AddElement
  <2>3. {a} \cup {b} = {a, b} OBVIOUS
  <2> QED BY <1>1, <2>2, <2>3
<1> QED BY <1>1, <1>2

LEMMA AllSetUp ==
  ASSUME RtspAssumption, TypeOK, Dialogue, SetUp(camera.tracks)
  PROVE  /\ {s.track : s \in camera.setup} = Range(Described)
         /\ Cardinality({s.channels : s \in camera.setup}) = camera.tracks
<1> DEFINE K == camera.tracks
           at(j) == [track |-> Tracks[j], channels |-> IF j < K THEN "0-1" ELSE "2-3"]
<1>1. /\ K \in {1, 2} /\ DOMAIN Described = 1..K
      /\ \A i \in 1..K : Described[i] = Tracks[i] /\ Tracks[i] \in Range(Described)
  BY DescribedFacts DEF TypeOK
<1>2. \A j \in 1..K : at(j) \in camera.setup BY DEF SetUp
<1>3. \A j : at(j).track = Tracks[j] /\ at(j).channels = IF j < K THEN "0-1" ELSE "2-3" OBVIOUS
<1> HIDE DEF at
<1>4. \A s \in camera.setup : \E j \in 1..K : s = at(j)
  <2> SUFFICES ASSUME NEW s \in camera.setup PROVE \E j \in 1..K : s = at(j) OBVIOUS
  <2>1. s.track \in Range(Described) BY DEF Dialogue
  <2>2. PICK j \in 1..K : s.track = Tracks[j] BY <1>1, <2>1 DEF Range
  <2>3. s = at(j) BY <1>2, <1>3, <2>2 DEF Dialogue
  <2> QED BY <2>3
<1>5. {s.track : s \in camera.setup} = Range(Described)
  <2>1. {s.track : s \in camera.setup} \subseteq Range(Described) BY DEF Dialogue
  <2>2. Range(Described) \subseteq {s.track : s \in camera.setup}
    <3> SUFFICES ASSUME NEW j \in 1..K PROVE Tracks[j] \in {s.track : s \in camera.setup}
      BY <1>1 DEF Range
    <3> QED BY <1>2, <1>3
  <2> QED BY <2>1, <2>2
<1>6. {s.channels : s \in camera.setup} = {at(j).channels : j \in 1..K} BY <1>2, <1>4
<1>7. CASE K = 1
  <2>1. 1..K = {1} BY <1>7
  <2>2. {at(j).channels : j \in 1..K} = {"2-3"} BY <1>3, <1>7, <2>1
  <2> QED BY <1>5, <1>6, <1>7, <2>2, PairCard
<1>8. CASE K = 2
  <2>1. 1..K = {1, 2} BY <1>8
  <2>2. at(1).channels = "0-1" /\ at(2).channels = "2-3" BY <1>3, <1>8
  <2>3. {at(j).channels : j \in 1..K} = {"0-1", "2-3"} BY <2>1, <2>2
  <2>4. Cardinality({"0-1", "2-3"}) = 2
    <3>1. "0-1" # "2-3" OBVIOUS
    <3> QED BY <3>1, PairCard
  <2> QED BY <1>5, <1>6, <1>8, <2>3, <2>4
<1> QED BY <1>1, <1>7, <1>8

(* PLAY is asked for when the camera has set up every track it described,  *)
(* each on channels of its own, unless a description was cut (SendSetup,   *)
(* HandlerSession).                                                        *)
THEOREM PlayComesLast ==
  ASSUME RtspAssumption
  PROVE  Spec => []PlayIsLast
<1>1. IInv => PlayIsLast
  <2> SUFFICES ASSUME IInv, ~cut, NEW i \in DOMAIN requests, requests[i].method = "PLAY"
               PROVE  /\ {s.track : s \in camera.setup} = Range(Described)
                      /\ Cardinality({s.channels : s \in camera.setup}) = camera.tracks
    BY DEF PlayIsLast
  <2>1. TypeOK /\ Dialogue BY DEF IInv
  <2>2. SetUp(camera.tracks) BY <2>1 DEF Dialogue, Asked
  <2> QED BY <2>1, <2>2, AllSetUp
<1> QED BY <1>1, Invariance, PTL

(* One request or one reply is under way, whatever TCP cuts: the client    *)
(* never asks before it was answered (HandlerSession, OnUnauthorized).     *)
THEOREM OneAtATime ==
  ASSUME RtspAssumption
  PROVE  Spec => []OneTurn
<1>1. IInv => OneTurn BY DEF IInv
<1> QED BY <1>1, Invariance, PTL

=============================================================================
