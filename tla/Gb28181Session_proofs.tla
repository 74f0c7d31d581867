------------------------ MODULE Gb28181Session_proofs ------------------------
(***************************************************************************)
(* Proofs about Gb28181Session.tla, for any sources, lengths and number of *)
(* packets.  What is known of the bytes and the tasks is known until a     *)
(* length is read as negative.                                             *)
(***************************************************************************)
EXTENDS Gb28181Session, SequenceTheorems, TLAPS

(* Where packet n + 1 begins, or will.                                     *)
After(n) == IF n = 0 THEN 0 ELSE End(sent[n])

(* Packets follow each other without a gap.                                *)
FramesLineUp ==
  /\ \A i \in DOMAIN sent : sent[i].at = After(i - 1)
  /\ \A i, j \in DOMAIN sent : i < j => End(sent[i]) <= sent[j].at

(* The counters of the parser.                                             *)
BytesAddUp ==
  /\ arrived <= Total
  /\ recv_buffer_size_ <= arrived
  /\ reading => /\ parse_size \in 0..read_bytes
                /\ read_bytes <= arrived

IsVideo(n) == sent[n].kind \in Ssrcs
IsFirstVideo(m) == IsVideo(m) /\ \A k \in 1..(m - 1) : ~IsVideo(k)
IsOfStream(n) == \E m \in 1..n : IsFirstVideo(m) /\ sent[m].kind = sent[n].kind

Last == IF received = <<>> THEN 0 ELSE received[Len(received)]
IsPacket(j) == tasks[j].op = "packet"

(* The packets posted are those parsed, in order, and none that the stream *)
(* must get is neither posted nor with it.                                 *)
PostedInOrder(n) ==
  /\ \A j \in DOMAIN tasks : IsPacket(j) =>
       tasks[j].frame \in (Last + 1)..n /\ IsVideo(tasks[j].frame)
  /\ \A i, j \in DOMAIN tasks :
       i < j /\ IsPacket(i) /\ IsPacket(j) => tasks[i].frame < tasks[j].frame
  /\ \A m \in (Last + 1)..n : IsOfStream(m) =>
       \E j \in DOMAIN tasks : IsPacket(j) /\ tasks[j].frame = m
  /\ Last \in 0..n

(* The stream is, or the first task makes it, of the first video's source. *)
StreamIsFirst(n) ==
  /\ video_receive_stream_ # None =>
       \E m \in 1..n : IsFirstVideo(m) /\ sent[m].kind = video_receive_stream_
  /\ video_receive_stream_ = None /\ tasks # <<>> =>
       /\ tasks[1].op = "create"
       /\ \E m \in 1..n : IsFirstVideo(m) /\ sent[m].kind = tasks[1].ssrc
  /\ video_receive_stream_ = None /\ tasks = <<>> => \A m \in 1..n : ~IsVideo(m)

Parsed(n) ==
  /\ n \in 0..Len(sent)
  /\ Cursor = After(n)
  /\ PostedInOrder(n)
  /\ StreamIsFirst(n)

(* The inductive invariant.                                                *)
IInv ==
  /\ TypeOK
  /\ FramesLineUp
  /\ ~misled => BytesAddUp /\ \E n \in Nat : Parsed(n)
  /\ misled => \E i \in DOMAIN sent : sent[i].size >= Half

-----------------------------------------------------------------------------
(* The types alone.                                                        *)

LEMMA SizeFacts ==
  /\ Half \in Nat \ {0}
  /\ \A size \in Sizes : size \in Nat /\ Signed(size) \in Int
  /\ PrefixSize = 2
  BY SizesAssumption DEF Signed, PrefixSize

LEMMA SentFacts ==
  ASSUME TypeOK
  PROVE  /\ Len(sent) \in Nat
         /\ DOMAIN sent = 1..Len(sent)
         /\ \A i \in 1..Len(sent) :
              /\ sent[i] \in Frames
              /\ sent[i].at \in Nat /\ sent[i].size \in Sizes /\ sent[i].size \in Nat
              /\ sent[i].kind \in Kinds
              /\ End(sent[i]) \in Nat
              /\ End(sent[i]) = sent[i].at + 2 + sent[i].size
         /\ sent = <<>> <=> Len(sent) = 0
         /\ Total \in Nat
         /\ Total = After(Len(sent))
         /\ \A n \in 0..Len(sent) : After(n) \in Nat
<1>1. /\ Len(sent) \in Nat
      /\ DOMAIN sent = 1..Len(sent)
      /\ \A i \in 1..Len(sent) : sent[i] \in Frames
      /\ sent = <<>> <=> Len(sent) = 0
  BY EmptySeq DEF TypeOK
<1>2. \A i \in 1..Len(sent) :
        /\ sent[i].at \in Nat /\ sent[i].size \in Sizes /\ sent[i].size \in Nat
        /\ sent[i].kind \in Kinds
  BY <1>1, SizeFacts DEF Frames
<1>3. \A i \in 1..Len(sent) :
        /\ End(sent[i]) \in Nat
        /\ End(sent[i]) = sent[i].at + 2 + sent[i].size
  BY <1>2 DEF End, PrefixSize
<1>4. \A n \in 0..Len(sent) : After(n) \in Nat
  BY <1>1, <1>3 DEF After
<1>5. Total = After(Len(sent))
  BY <1>1 DEF Total, After
<1>. QED
  BY <1>1, <1>2, <1>3, <1>4, <1>5

LEMMA TaskFacts ==
  ASSUME TypeOK
  PROVE  /\ Len(tasks) \in Nat
         /\ DOMAIN tasks = 1..Len(tasks)
         /\ \A j \in 1..Len(tasks) :
              /\ tasks[j] \in Tasks
              /\ tasks[j].op = "packet" => tasks[j].frame \in Nat
              /\ tasks[j].op # "packet" => tasks[j].op = "create" /\ tasks[j].ssrc \in Ssrcs
         /\ tasks = <<>> <=> Len(tasks) = 0
<1>1. /\ Len(tasks) \in Nat
      /\ DOMAIN tasks = 1..Len(tasks)
      /\ \A j \in 1..Len(tasks) : tasks[j] \in Tasks
      /\ tasks = <<>> <=> Len(tasks) = 0
  BY EmptySeq DEF TypeOK
<1>. QED
  BY <1>1 DEF Tasks

LEMMA ReceivedFacts ==
  ASSUME TypeOK
  PROVE  /\ Len(received) \in Nat
         /\ DOMAIN received = 1..Len(received)
         /\ received = <<>> <=> Len(received) = 0
         /\ Last \in Nat
<1>1. /\ Len(received) \in Nat
      /\ DOMAIN received = 1..Len(received)
      /\ \A j \in 1..Len(received) : received[j] \in Nat
      /\ received = <<>> <=> Len(received) = 0
  BY EmptySeq DEF TypeOK
<1>. QED
  BY <1>1 DEF Last

(* What running the head of the queue removes.                             *)
LEMMA RunFacts ==
  ASSUME TypeOK, tasks # <<>>
  PROVE  /\ Len(tasks) >= 1 /\ 1 \in DOMAIN tasks
         /\ Head(tasks) = tasks[1]
         /\ Tail(tasks) \in Seq(Tasks)
         /\ Len(Tail(tasks)) = Len(tasks) - 1
         /\ DOMAIN Tail(tasks) = 1..(Len(tasks) - 1)
         /\ \A j \in 1..(Len(tasks) - 1) : Tail(tasks)[j] = tasks[j + 1]
<1>1. tasks \in Seq(Tasks) /\ Len(tasks) \in Nat /\ Len(tasks) # 0
  BY TaskFacts DEF TypeOK
<1>2. /\ Tail(tasks) \in Seq(Tasks)
      /\ Len(Tail(tasks)) = Len(tasks) - 1
      /\ \A j \in 1..(Len(tasks) - 1) : Tail(tasks)[j] = tasks[j + 1]
      /\ Head(tasks) = tasks[1]
  BY <1>1, HeadTailProperties
<1>3. DOMAIN Tail(tasks) = 1..(Len(tasks) - 1)
  BY <1>2, LenProperties
<1>. QED
  BY <1>1, <1>2, <1>3, TaskFacts

(* Two tasks in a row, by position.                                        *)
LEMMA PairFacts ==
  ASSUME NEW S, NEW c \in S, NEW p \in S
  PROVE  /\ <<c>> \o <<p>> \in Seq(S)
         /\ Len(<<c>> \o <<p>>) = 2
         /\ (<<c>> \o <<p>>)[1] = c
         /\ (<<c>> \o <<p>>)[2] = p
<1>1. /\ <<c>> \in Seq(S) /\ Len(<<c>>) = 1 /\ <<c>>[1] = c
      /\ <<p>> \in Seq(S) /\ Len(<<p>>) = 1 /\ <<p>>[1] = p
  OBVIOUS
<1>. QED
  BY <1>1, ConcatProperties

(* What parsing packet i posts.                                            *)
LEMMA PostsFacts ==
  ASSUME TypeOK, NEW i \in 1..Len(sent)
  PROVE  /\ Posts(i) \in Seq(Tasks)
         /\ ~IsVideo(i) => Len(Posts(i)) = 0
         /\ IsVideo(i) /\ video_receive_stream_ # None =>
              /\ Len(Posts(i)) = 1
              /\ Posts(i)[1].op = "packet" /\ Posts(i)[1].frame = i
         /\ IsVideo(i) /\ video_receive_stream_ = None =>
              /\ Len(Posts(i)) = 2
              /\ Posts(i)[1].op = "create" /\ Posts(i)[1].ssrc = sent[i].kind
              /\ Posts(i)[2].op = "packet" /\ Posts(i)[2].frame = i
<1>. DEFINE c == [op |-> "create", ssrc |-> sent[i].kind]
            p == [op |-> "packet", frame |-> i]
<1>1. p \in Tasks
  BY SentFacts DEF Tasks
<1>2. IsVideo(i) => c \in Tasks
  BY DEF Tasks, IsVideo
<1>0. c.op = "create" /\ c.ssrc = sent[i].kind /\ p.op = "packet" /\ p.frame = i
  OBVIOUS
<1>. HIDE DEF c, p
<1>3. CASE ~IsVideo(i)
  BY <1>3, EmptySeq DEF Posts, IsVideo
<1>4. CASE IsVideo(i) /\ video_receive_stream_ # None
  <2>1. Posts(i) = <<>> \o <<p>>
    BY <1>4 DEF Posts, IsVideo, p
  <2>2. Posts(i) = <<p>>
    BY <1>1, <2>1
  <2>. QED
    BY <1>0, <1>1, <1>4, <2>2
<1>5. CASE IsVideo(i) /\ video_receive_stream_ = None
  <2>1. Posts(i) = <<c>> \o <<p>>
    BY <1>5 DEF Posts, IsVideo, c, p
  <2>. QED
    BY <1>0, <1>1, <1>2, <1>5, <2>1, PairFacts
<1>. QED
  BY <1>3, <1>4, <1>5

LEMMA TypesInit == Init => TypeOK
<1>. SUFFICES ASSUME Init PROVE TypeOK
  OBVIOUS
<1>1. sent \in Seq(Frames) /\ tasks \in Seq(Tasks) /\ received \in Seq(Nat)
  BY EmptySeq DEF Init
<1>2. reading \in BOOLEAN /\ crashed \in BOOLEAN /\ misled \in BOOLEAN
  BY DEF Init
<1>3. /\ arrived \in Nat /\ recv_buffer_size_ \in Nat /\ read_bytes \in Nat
      /\ parse_size \in Int
  BY DEF Init
<1>4. video_receive_stream_ \in Ssrcs \cup {None}
  BY DEF Init
<1>. QED
  BY <1>1, <1>2, <1>3, <1>4 DEF TypeOK

LEMMA TypesStep == TypeOK /\ [Next]_vars => TypeOK'
<1>. SUFFICES ASSUME TypeOK, [Next]_vars PROVE TypeOK'
  OBVIOUS
<1>1. CASE Send
  <2>1. PICK size \in Sizes, kind \in Kinds :
          sent' = Append(sent, [at |-> Total, size |-> size, kind |-> kind])
    BY <1>1 DEF Send
  <2>2. [at |-> Total, size |-> size, kind |-> kind] \in Frames
    BY SentFacts DEF Frames
  <2>3. sent' \in Seq(Frames)
    BY <2>1, <2>2, AppendProperties DEF TypeOK
  <2>. QED
    BY <1>1, <2>3 DEF TypeOK, Send, parser, worker
<1>2. ASSUME NEW n \in Nat, OnRead(n)
      PROVE  TypeOK'
  <2>1. /\ arrived' \in Nat /\ read_bytes' \in Nat
        /\ recv_buffer_size_' \in Nat /\ parse_size' \in Int
    BY <1>2 DEF TypeOK, OnRead
  <2>2. reading' \in BOOLEAN /\ crashed' \in BOOLEAN
    BY <1>2 DEF TypeOK, OnRead
  <2>. QED
    BY <1>2, <2>1, <2>2 DEF TypeOK, OnRead, worker
<1>3. CASE KeepRest
  <2>1. Rest \in Int
    BY DEF TypeOK, Rest
  <2>2. recv_buffer_size_' \in Nat
    BY <1>3, <2>1 DEF KeepRest
  <2>3. reading' \in BOOLEAN
    BY <1>3 DEF KeepRest
  <2>. QED
    BY <1>3, <2>2, <2>3 DEF TypeOK, KeepRest, worker
<1>4. ASSUME NEW i \in DOMAIN sent, ParseFrame(i)
      PROVE  TypeOK'
  <2>1. i \in 1..Len(sent) /\ Signed(sent[i].size) \in Int
    BY SentFacts, SizeFacts
  <2>2. parse_size' \in Int
    BY <1>4, <2>1, SizeFacts DEF ParseFrame, TypeOK
  <2>3. tasks \o Posts(i) \in Seq(Tasks)
    BY <2>1, PostsFacts, ConcatProperties DEF TypeOK
  <2>4. tasks' \in Seq(Tasks)
    BY <1>4, <2>3 DEF ParseFrame, TypeOK
  <2>5. crashed' \in BOOLEAN /\ misled' \in BOOLEAN
    <3>1. CASE Signed(sent[i].size) >= 0
      BY <1>4, <3>1 DEF ParseFrame, TypeOK
    <3>2. CASE ~(Signed(sent[i].size) >= 0)
      <4>1. crashed' \in {FALSE, sent[i].kind \in Ssrcs} /\ misled' = TRUE
        BY <1>4, <3>2 DEF ParseFrame
      <4>2. (sent[i].kind \in Ssrcs) \in BOOLEAN
        OBVIOUS
      <4>. QED
        BY ONLY <4>1, <4>2, Zenon
    <3>. QED
      BY <3>1, <3>2
  <2>. QED
    BY <1>4, <2>2, <2>4, <2>5 DEF ParseFrame, TypeOK
<1>9. CASE ParseAnything
  <2>1. tasks' = tasks \/ \E ssrc \in Ssrcs : tasks' =
          <<[op |-> "create", ssrc |-> ssrc], [op |-> "packet", frame |-> 0]>>
    BY <1>9 DEF ParseAnything
  <2>2. \A ssrc \in Ssrcs :
          /\ [op |-> "create", ssrc |-> ssrc] \in Tasks
          /\ [op |-> "packet", frame |-> 0] \in Tasks
    BY DEF Tasks
  <2>3. tasks' \in Seq(Tasks)
    <3>1. \A c, p \in Tasks : <<c, p>> \in Seq(Tasks)
      OBVIOUS
    <3>. QED
      BY <2>1, <2>2, <3>1, Zenon DEF TypeOK
  <2>4. crashed' \in BOOLEAN
    BY <1>9 DEF ParseAnything, TypeOK
  <2>. QED
    BY <1>9, <2>3, <2>4 DEF ParseAnything, TypeOK
<1>5. CASE RunCreate
  <2>1. tasks # <<>> /\ tasks' = Tail(tasks) /\ Head(tasks).op = "create"
    BY <1>5 DEF RunCreate
  <2>2. tasks' \in Seq(Tasks) /\ Head(tasks).ssrc \in Ssrcs
    BY <2>1, RunFacts, TaskFacts
  <2>3. video_receive_stream_' \in Ssrcs \cup {None}
    BY <1>5, <2>2 DEF RunCreate, TypeOK
  <2>. QED
    BY <1>5, <2>2, <2>3 DEF RunCreate, TypeOK, parser
<1>6. CASE RunPacket
  <2>1. tasks # <<>> /\ tasks' = Tail(tasks) /\ Head(tasks).op = "packet"
    BY <1>6 DEF RunPacket
  <2>2. tasks' \in Seq(Tasks) /\ Head(tasks).frame \in Nat
    BY <2>1, RunFacts, TaskFacts
  <2>3. received' \in Seq(Nat)
    <3>1. \/ received' = received
          \/ received' = Append(received, 0)
          \/ received' = Append(received, Head(tasks).frame)
      BY <1>6 DEF RunPacket
    <3>2. received \in Seq(Nat) /\ 0 \in Nat
      BY DEF TypeOK
    <3>3. \A f \in Nat : Append(received, f) \in Seq(Nat)
      BY <3>2, AppendProperties
    <3>. QED
      BY ONLY <2>2, <3>1, <3>2, <3>3, Zenon
  <2>. QED
    BY <1>6, <2>2, <2>3 DEF RunPacket, TypeOK, parser
<1>7. CASE UNCHANGED vars
  BY <1>7 DEF vars, parser, worker, TypeOK
<1>8. Read => \E n \in Nat : OnRead(n)
  BY SentFacts DEF Read, TypeOK
<1>. QED
  BY <1>1, <1>2, <1>3, <1>4, <1>5, <1>6, <1>7, <1>8, <1>9 DEF Next, Parse, Work

(* Whatever lengths are sent, every reachable state is well typed.         *)
THEOREM TypeCorrect == Spec => []TypeOK
  BY TypesInit, TypesStep, PTL DEF Spec

-----------------------------------------------------------------------------
(* The stream is kept.                                                     *)

(* Once made, the stream is neither replaced nor given another source,     *)
(* however many requests for one are in the queue.                         *)
THEOREM StreamKept == Spec => StreamIsKept
<1>1. ASSUME [Next]_vars, video_receive_stream_ # None
      PROVE  video_receive_stream_' = video_receive_stream_
  <2>1. CASE Send
    BY <2>1 DEF Send, worker
  <2>2. CASE Read
    BY <2>2 DEF Read, OnRead, worker
  <2>3. CASE Parse
    BY <2>3 DEF Parse, KeepRest, ParseFrame, ParseAnything, worker
  <2>4. CASE RunCreate
    BY <1>1, <2>4 DEF RunCreate
  <2>5. CASE RunPacket
    BY <2>5 DEF RunPacket
  <2>6. CASE UNCHANGED vars
    BY <2>6 DEF vars, worker
  <2>. QED
    BY <1>1, <2>1, <2>2, <2>3, <2>4, <2>5, <2>6 DEF Next, Work
<1>. QED
  BY <1>1, PTL DEF Spec, StreamIsKept

-----------------------------------------------------------------------------
(* The bytes.                                                              *)

(* Only one packet begins at a byte, and it begins after the one before.   *)
LEMMA FrameFacts ==
  ASSUME TypeOK, FramesLineUp,
         NEW n \in 0..Len(sent), NEW i \in 1..Len(sent), sent[i].at = After(n),
         n # Len(sent)
  PROVE  i = n + 1
<1>0. Len(sent) \in Nat /\ n \in Nat /\ i \in Nat
  <2>1. Len(sent) \in Nat
    BY SentFacts
  <2>. QED
    BY <2>1
<1>1. n + 1 \in 1..Len(sent) /\ sent[n + 1].at = After(n)
  <2>1. n + 1 \in 1..Len(sent) /\ (n + 1) - 1 = n
    BY <1>0
  <2>. QED
    BY <2>1, SentFacts DEF FramesLineUp
<1>2. /\ i < n + 1 => End(sent[i]) <= sent[n + 1].at
      /\ n + 1 < i => End(sent[n + 1]) <= sent[i].at
  BY <1>1, SentFacts DEF FramesLineUp
<1>3. \A k \in 1..Len(sent) : sent[k].at \in Nat /\ End(sent[k]) > sent[k].at
  <2>. SUFFICES ASSUME NEW k \in 1..Len(sent)
                PROVE  sent[k].at \in Nat /\ End(sent[k]) > sent[k].at
    OBVIOUS
  <2>1. /\ sent[k].at \in Nat /\ sent[k].size \in Nat
        /\ End(sent[k]) = sent[k].at + 2 + sent[k].size
    BY SentFacts
  <2>. QED
    BY <2>1
<1>4. /\ sent[i].at \in Nat /\ End(sent[i]) > sent[i].at
      /\ End(sent[n + 1]) > sent[n + 1].at
      /\ sent[n + 1].at = sent[i].at
  BY <1>1, <1>3
<1>5. /\ i < n + 1 => End(sent[i]) <= sent[i].at
      /\ n + 1 < i => End(sent[n + 1]) <= sent[i].at
  BY <1>2, <1>4
<1>6. ~(End(sent[i]) <= sent[i].at) /\ ~(End(sent[n + 1]) <= sent[i].at)
  <2>1. End(sent[i]) \in Nat /\ End(sent[n + 1]) \in Nat
    BY <1>1, SentFacts
  <2>. QED
    BY <1>4, <2>1
<1>7. ~(i < n + 1) /\ ~(n + 1 < i)
  BY <1>5, <1>6
<1>. QED
  BY <1>0, <1>7

(* Where the parser stands with packet i in its buffer, and after it.      *)
LEMMA ParseFacts ==
  ASSUME TypeOK, FramesLineUp, BytesAddUp,
         NEW n \in 0..Len(sent), Cursor = After(n),
         NEW i \in 1..Len(sent), ParseFrame(i), sent[i].size < Half
  PROVE  /\ i = n + 1
         /\ BytesAddUp'
         /\ Cursor' = After(i)
         /\ tasks' = tasks \o Posts(i) /\ ~misled'
<1>1. /\ reading /\ ~misled /\ Rest > PrefixSize /\ sent[i].at = Position /\ Complete(i)
      /\ parse_size' = parse_size + PrefixSize + Signed(sent[i].size)
      /\ Signed(sent[i].size) >= 0 => tasks' = tasks \o Posts(i) /\ misled' = misled
      /\ UNCHANGED <<sent, arrived, recv_buffer_size_, reading, read_bytes>>
  BY DEF ParseFrame
<1>2. /\ arrived \in Nat /\ read_bytes \in Nat /\ parse_size \in Int
      /\ recv_buffer_size_ \in Nat
      /\ PrefixSize = 2
      /\ Signed(sent[i].size) = sent[i].size /\ sent[i].size \in Nat
      /\ sent[i].at \in Nat /\ End(sent[i]) = sent[i].at + 2 + sent[i].size
  BY SentFacts DEF TypeOK, PrefixSize, Signed
<1>3. sent[i].at = After(n)
  BY <1>1 DEF Cursor
<1>4. n # Len(sent)
  <2>1. Position < arrived /\ arrived <= Total
    BY <1>1, <1>2 DEF BytesAddUp, Position, Rest
  <2>2. Total \in Nat /\ Total = After(Len(sent))
    BY SentFacts
  <2>3. After(n) < Total
    BY <1>1, <1>2, <1>3, <2>1, <2>2
  <2>. QED
    BY <2>2, <2>3
<1>5. i = n + 1
  BY <1>3, <1>4, FrameFacts
<1>6. tasks' = tasks \o Posts(i) /\ ~misled'
  BY <1>1, <1>2
<1>7. parse_size' \in 0..read_bytes
  BY <1>1, <1>2 DEF BytesAddUp, Complete, Rest
<1>8. BytesAddUp'
  BY <1>1, <1>7 DEF BytesAddUp, Total
<1>9. Cursor' = After(i)
  <2>1. Cursor' = arrived - read_bytes + parse_size'
    BY <1>1 DEF Cursor, Position
  <2>2. sent[i].at = arrived - read_bytes + parse_size
    BY <1>1 DEF Position
  <2>3. After(i) = End(sent[i])
    BY DEF After
  <2>4. parse_size' = parse_size + 2 + sent[i].size
    BY <1>1, <1>2
  <2>5. arrived - read_bytes + (parse_size + 2 + sent[i].size)
          = (arrived - read_bytes + parse_size) + 2 + sent[i].size
    <3>1. \A a, b, p, s \in Int : a - b + (p + 2 + s) = (a - b + p) + 2 + s
      OBVIOUS
    <3>. QED
      BY <1>2, <3>1
  <2>6. Cursor' = sent[i].at + 2 + sent[i].size
    BY <2>1, <2>2, <2>4, <2>5
  <2>. QED
    BY <1>2, <2>3, <2>6
<1>. QED
  BY <1>5, <1>6, <1>8, <1>9

(* What was sent before stays as it was.                                   *)
LEMMA SendFacts ==
  ASSUME TypeOK, FramesLineUp, Send
  PROVE  /\ Len(sent') = Len(sent) + 1
         /\ \A i \in 1..Len(sent) : sent'[i] = sent[i]
         /\ FramesLineUp'
         /\ Total <= Total' /\ Total' \in Nat
<1>0. PICK L \in Nat : L = Len(sent)
  BY SentFacts
<1>1. PICK size \in Sizes, kind \in Kinds :
        sent' = Append(sent, [at |-> Total, size |-> size, kind |-> kind])
  BY DEF Send
<1>. DEFINE f == [at |-> Total, size |-> size, kind |-> kind]
<1>2. f.at = Total /\ f.size = size /\ f \in Frames
  BY SentFacts DEF Frames
<1>. HIDE DEF f
<1>3. L \in Nat /\ sent \in Seq(Frames)
  BY DEF TypeOK
<1>4. /\ Len(sent') = L + 1
      /\ \A i \in 1..L : sent'[i] = sent[i]
      /\ sent'[L + 1] = f
      /\ DOMAIN sent' = 1..(L + 1)
  <2>1. sent' = Append(sent, f)
    BY <1>1 DEF f
  <2>. QED
    BY <1>2, <1>3, <2>1, <1>0, AppendProperties
<1>5. \A i \in 1..L : End(sent[i]) <= Total
  <2>. SUFFICES ASSUME NEW i \in 1..L PROVE End(sent[i]) <= Total
    OBVIOUS
  <2>1. L \in 1..L /\ Total = End(sent[L])
    BY <1>3, <1>0, SentFacts DEF Total
  <2>2. i < L => End(sent[i]) <= sent[L].at
    BY <1>3, <2>1, <1>0, SentFacts DEF FramesLineUp
  <2>3. /\ End(sent[i]) \in Nat /\ sent[L].at \in Nat
        /\ End(sent[L]) = sent[L].at + 2 + sent[L].size /\ sent[L].size \in Nat
    BY <2>1, <1>0, SentFacts
  <2>. QED
    BY <1>3, <2>1, <2>2, <2>3
<1>6. \A i \in 1..(L + 1) : sent'[i].at = After(i - 1)'
  <2>1. ASSUME NEW i \in 1..L PROVE sent'[i].at = After(i - 1)'
    <3>1. sent[i].at = After(i - 1)
      BY <1>0, SentFacts DEF FramesLineUp
    <3>. QED
      BY <1>3, <1>4, <3>1 DEF After, End
  <2>2. sent'[L + 1].at = After(L)'
    <3>1. Total = After(L)
      BY <1>0, SentFacts
    <3>2. CASE L = 0
      BY <1>2, <1>4, <3>1, <3>2 DEF After
    <3>3. CASE L # 0
      <4>1. L \in 1..L
        BY <1>3, <3>3
      <4>2. sent'[L] = sent[L]
        BY <1>4, <4>1
      <4>3. After(L)' = After(L)
        BY <3>3, <4>2 DEF After, End
      <4>. QED
        BY <1>2, <1>4, <3>1, <4>3
    <3>. QED
      BY <3>2, <3>3
  <2>3. (L + 1) - 1 = L /\ \A i \in 1..(L + 1) : i \in 1..L \/ i = L + 1
    BY <1>3
  <2>. QED
    BY <2>1, <2>2, <2>3
<1>7. \A i, j \in 1..(L + 1) : i < j => End(sent'[i]) <= sent'[j].at
  <2>1. \A i, j \in 1..L : i < j => End(sent[i]) <= sent[j].at
    BY <1>0, SentFacts DEF FramesLineUp
  <2>. QED
    BY <1>2, <1>3, <1>4, <1>5, <2>1
<1>8. FramesLineUp'
  <2>1. \A i, j \in 1..(L + 1) : i < j => End(sent[i])' <= sent'[j].at
    BY <1>7 DEF End
  <2>. QED
    BY <1>4, <1>6, <1>7, <2>1 DEF FramesLineUp
<1>9. Total <= Total' /\ Total' \in Nat
  <2>1. Total' = End(f)
    BY <1>3, <1>4, EmptySeq DEF Total, End
  <2>2. Total \in Nat /\ size \in Nat
    BY SentFacts, SizeFacts
  <2>. QED
    BY <1>2, <2>1, <2>2, SizeFacts DEF End
<1>. QED
  BY <1>0, <1>4, <1>8, <1>9

-----------------------------------------------------------------------------
(* The packets.                                                            *)

(* What is known of the packets up to n depends on these alone.            *)
LEMMA SameVideos ==
  ASSUME NEW n \in Nat, \A k \in 1..n : sent'[k] = sent[k]
  PROVE  \A m \in 1..n : /\ IsVideo(m)' <=> IsVideo(m)
                         /\ IsFirstVideo(m)' <=> IsFirstVideo(m)
                         /\ IsOfStream(m)' <=> IsOfStream(m)
<1>1. \A m \in 1..n : IsVideo(m)' <=> IsVideo(m)
  BY DEF IsVideo
<1>2. \A m \in 1..n : IsFirstVideo(m)' <=> IsFirstVideo(m)
  <2>. SUFFICES ASSUME NEW m \in 1..n PROVE IsFirstVideo(m)' <=> IsFirstVideo(m)
    OBVIOUS
  <2>1. \A k \in 1..(m - 1) : k \in 1..n
    OBVIOUS
  <2>. QED
    BY <1>1, <2>1 DEF IsFirstVideo
<1>3. \A m \in 1..n : IsOfStream(m)' <=> IsOfStream(m)
  <2>. SUFFICES ASSUME NEW m \in 1..n PROVE IsOfStream(m)' <=> IsOfStream(m)
    OBVIOUS
  <2>1. \A k \in 1..m : k \in 1..n
    OBVIOUS
  <2>. QED
    BY <1>2, <2>1 DEF IsOfStream
<1>. QED
  BY <1>1, <1>2, <1>3

LEMMA OneFirstVideo ==
  ASSUME NEW a \in Nat \ {0}, NEW b \in Nat \ {0}, IsFirstVideo(a), IsFirstVideo(b)
  PROVE  a = b
<1>1. ~(a < b) /\ ~(b < a)
  BY DEF IsFirstVideo
<1>. QED
  BY <1>1

(* A packet of the stream is video, of the source that was first.          *)
LEMMA OfStreamFacts ==
  ASSUME NEW m \in Nat \ {0}
  PROVE  /\ IsOfStream(m) => IsVideo(m)
         /\ \A a \in Nat \ {0} :
              IsFirstVideo(a) /\ IsOfStream(m) => sent[m].kind = sent[a].kind
         /\ \A a \in Nat \ {0} :
              IsFirstVideo(a) /\ IsVideo(m) /\ sent[m].kind = sent[a].kind => IsOfStream(m)
<1>1. ASSUME IsOfStream(m) PROVE IsVideo(m)
  <2>1. PICK a \in 1..m : IsFirstVideo(a) /\ sent[a].kind = sent[m].kind
    BY <1>1 DEF IsOfStream
  <2>. QED
    BY <2>1 DEF IsFirstVideo, IsVideo
<1>2. ASSUME NEW a \in Nat \ {0}, IsFirstVideo(a), IsOfStream(m)
      PROVE  sent[m].kind = sent[a].kind
  <2>1. PICK b \in 1..m : IsFirstVideo(b) /\ sent[b].kind = sent[m].kind
    BY <1>2 DEF IsOfStream
  <2>. QED
    BY <1>2, <2>1, OneFirstVideo
<1>3. ASSUME NEW a \in Nat \ {0}, IsFirstVideo(a), IsVideo(m), sent[m].kind = sent[a].kind
      PROVE  IsOfStream(m)
  <2>1. ~(m < a)
    BY <1>3 DEF IsFirstVideo
  <2>2. a \in 1..m
    BY <2>1
  <2>. QED
    BY <1>3, <2>2 DEF IsOfStream
<1>. QED
  BY <1>1, <1>2, <1>3

(* Steps of the camera and of the parser that post nothing.                *)
LEMMA NothingPosted ==
  ASSUME TypeOK, NEW n \in Nat, \A k \in 1..n : sent'[k] = sent[k],
         UNCHANGED worker, PostedInOrder(n), StreamIsFirst(n)
  PROVE  PostedInOrder(n)' /\ StreamIsFirst(n)'
<1>1. tasks' = tasks /\ video_receive_stream_' = video_receive_stream_
      /\ received' = received
  BY DEF worker
<1>2. Last' = Last /\ Last \in Nat
  BY <1>1, ReceivedFacts DEF Last
<1>3. \A j \in DOMAIN tasks : IsPacket(j)' <=> IsPacket(j)
  BY <1>1 DEF IsPacket
<1>4. \A m \in (Last + 1)..n : m \in 1..n
  BY <1>2
<1>5. PostedInOrder(n)'
  <2>1. ASSUME NEW j \in DOMAIN tasks, IsPacket(j)
        PROVE  tasks[j].frame \in (Last + 1)..n /\ sent'[tasks[j].frame].kind \in Ssrcs
    <3>1. tasks[j].frame \in (Last + 1)..n /\ IsVideo(tasks[j].frame)
      BY <2>1 DEF PostedInOrder
    <3>. QED
      BY <1>4, <3>1 DEF IsVideo
  <2>2. \A m \in (Last + 1)..n : IsOfStream(m)' =>
          \E j \in DOMAIN tasks : IsPacket(j) /\ tasks[j].frame = m
    BY <1>4, SameVideos DEF PostedInOrder
  <2>3. /\ Last \in 0..n
        /\ \A i, j \in DOMAIN tasks :
             i < j /\ IsPacket(i) /\ IsPacket(j) => tasks[i].frame < tasks[j].frame
    BY DEF PostedInOrder
  <2>. QED
    BY <1>1, <1>2, <1>3, <2>1, <2>2, <2>3 DEF PostedInOrder, IsVideo
<1>6. StreamIsFirst(n)'
  BY <1>1, SameVideos DEF StreamIsFirst
<1>. QED
  BY <1>5, <1>6

(* Parsing the next packet.                                                *)
LEMMA PacketPosted ==
  ASSUME TypeOK, NEW n \in Nat, n + 1 \in 1..Len(sent),
         tasks' = tasks \o Posts(n + 1),
         UNCHANGED <<sent, video_receive_stream_, received>>,
         PostedInOrder(n), StreamIsFirst(n)
  PROVE  PostedInOrder(n + 1)' /\ StreamIsFirst(n + 1)'
<1>0. PICK i \in Nat : i = n + 1
  OBVIOUS
<1>1. PICK T \in Nat : T = Len(tasks)
  BY TaskFacts
<1>2. PICK P \in Nat : P = Len(Posts(i))
  BY <1>0, PostsFacts
<1>3. /\ Len(tasks') = T + P /\ DOMAIN tasks' = 1..(T + P)
      /\ \A j \in 1..T : tasks'[j] = tasks[j]
      /\ \A j \in 1..P : tasks'[T + j] = Posts(i)[j]
  <2>1. Posts(i) \in Seq(Tasks) /\ tasks \in Seq(Tasks)
    BY <1>0, PostsFacts DEF TypeOK
  <2>2. tasks' = tasks \o Posts(i)
    BY <1>0
  <2>3. /\ tasks' \in Seq(Tasks)
        /\ Len(tasks') = Len(tasks) + Len(Posts(i))
        /\ \A j \in 1..(Len(tasks) + Len(Posts(i))) :
             tasks'[j] = IF j <= Len(tasks) THEN tasks[j] ELSE Posts(i)[j - Len(tasks)]
    BY <2>1, <2>2, ConcatProperties
  <2>4. DOMAIN tasks' = 1..(T + P)
    BY <1>1, <1>2, <2>3, LenProperties
  <2>5. \A j \in 1..(T + P) :
          tasks'[j] = IF j <= T THEN tasks[j] ELSE Posts(i)[j - T]
    BY <1>1, <1>2, <2>3
  <2>6. \A j \in 1..T : j \in 1..(T + P) /\ j <= T
    OBVIOUS
  <2>7. \A j \in 1..P : T + j \in 1..(T + P) /\ ~(T + j <= T) /\ (T + j) - T = j
    OBVIOUS
  <2>8. \A j \in 1..T : tasks'[j] = tasks[j]
    BY <2>5, <2>6
  <2>9. \A j \in 1..P : tasks'[T + j] = Posts(i)[j]
    <3>. SUFFICES ASSUME NEW j \in 1..P PROVE tasks'[T + j] = Posts(i)[j]
      OBVIOUS
    <3>1. tasks'[T + j] = Posts(i)[(T + j) - T]
      BY <2>5, <2>7
    <3>. QED
      BY <2>7, <3>1
  <2>. QED
    BY <1>1, <1>2, <2>3, <2>4, <2>8, <2>9
<1>4. /\ ~IsVideo(i) => P = 0
      /\ IsVideo(i) /\ video_receive_stream_ # None =>
           P = 1 /\ Posts(i)[1].op = "packet" /\ Posts(i)[1].frame = i
      /\ IsVideo(i) /\ video_receive_stream_ = None =>
           /\ P = 2
           /\ Posts(i)[1].op = "create" /\ Posts(i)[1].ssrc = sent[i].kind
           /\ Posts(i)[2].op = "packet" /\ Posts(i)[2].frame = i
  BY <1>0, <1>2, PostsFacts
<1>5. \A j \in 1..(T + P) : j \in 1..T \/ \E k \in 1..P : j = T + k
  <2>. SUFFICES ASSUME NEW j \in 1..(T + P), j \notin 1..T
                PROVE  \E k \in 1..P : j = T + k
    OBVIOUS
  <2>1. j - T \in 1..P /\ j = T + (j - T)
    OBVIOUS
  <2>. QED
    BY <2>1
<1>6. \A j \in 1..(T + P) : j \notin 1..T /\ tasks'[j].op = "packet" =>
        j = T + P /\ tasks'[j].frame = i /\ IsVideo(i)
  <2>. SUFFICES ASSUME NEW j \in 1..(T + P), j \notin 1..T, tasks'[j].op = "packet"
                PROVE  j = T + P /\ tasks'[j].frame = i /\ IsVideo(i)
    OBVIOUS
  <2>1. PICK k \in 1..P : j = T + k
    BY <1>5
  <2>2. tasks'[j] = Posts(i)[k]
    BY <1>3, <2>1
  <2>3. P # 0
    BY <2>1
  <2>4. IsVideo(i)
    BY <1>4, <2>3
  <2>5. CASE video_receive_stream_ # None
    <3>1. P = 1 /\ Posts(i)[1].frame = i
      BY <1>4, <2>4, <2>5
    <3>2. k = P /\ k = 1
      BY <2>1, <3>1
    <3>3. tasks'[j].frame = i /\ j = T + P
      <4>1. tasks'[j].frame = i
        BY <2>2, <3>1, <3>2
      <4>. QED
        BY <2>1, <3>2, <4>1
    <3>. QED
      BY <2>4, <3>3
  <2>6. CASE video_receive_stream_ = None
    <3>1. /\ P = 2
          /\ Posts(i)[1].op = "create"
          /\ Posts(i)[2].frame = i
      BY <1>4, <2>4, <2>6
    <3>2. k # 1
      BY <2>2, <3>1
    <3>3. k = P /\ k = 2
      BY <2>1, <3>1, <3>2
    <3>4. tasks'[j].frame = i /\ j = T + P
      <4>1. tasks'[j].frame = i
        BY <2>2, <3>1, <3>3
      <4>. QED
        BY <2>1, <3>3, <4>1
    <3>. QED
      BY <2>4, <3>4
  <2>. QED
    BY <2>5, <2>6
<1>7. IsVideo(i) => /\ T + P \in 1..(T + P)
                    /\ tasks'[T + P].op = "packet" /\ tasks'[T + P].frame = i
  <2>. SUFFICES ASSUME IsVideo(i)
                PROVE  /\ T + P \in 1..(T + P)
                       /\ tasks'[T + P].op = "packet" /\ tasks'[T + P].frame = i
    OBVIOUS
  <2>1. P \in 1..P /\ Posts(i)[P].op = "packet" /\ Posts(i)[P].frame = i
    BY <1>4
  <2>. QED
    BY <1>3, <2>1
<1>8. IsVideo(i) /\ video_receive_stream_ = None =>
        /\ T + 1 \in 1..(T + P)
        /\ tasks'[T + 1].op = "create" /\ tasks'[T + 1].ssrc = sent[i].kind
  BY <1>3, <1>4
<1>9. /\ sent' = sent /\ Last' = Last /\ Last \in 0..n
      /\ video_receive_stream_' = video_receive_stream_
      /\ DOMAIN tasks = 1..T
  BY <1>1, TaskFacts DEF Last, PostedInOrder
<1>10. /\ \A m \in 1..i : /\ IsVideo(m)' <=> IsVideo(m)
                          /\ IsFirstVideo(m)' <=> IsFirstVideo(m)
                          /\ IsOfStream(m)' <=> IsOfStream(m)
  BY <1>9, SameVideos
<1>11. PostedInOrder(i)'
  <2>1. ASSUME NEW j \in 1..(T + P), tasks'[j].op = "packet"
        PROVE  tasks'[j].frame \in (Last + 1)..i /\ IsVideo(tasks'[j].frame)
    <3>1. CASE j \in 1..T
      <4>1. tasks[j].frame \in (Last + 1)..n /\ IsVideo(tasks[j].frame)
        BY <1>3, <1>9, <2>1, <3>1 DEF PostedInOrder, IsPacket
      <4>2. tasks[j].frame \in 1..i /\ tasks[j].frame \in (Last + 1)..i
        BY <1>0, <1>9, <4>1
      <4>. QED
        BY <1>3, <3>1, <4>1, <4>2
    <3>2. CASE j \notin 1..T
      <4>1. tasks'[j].frame = i /\ IsVideo(i)
        BY <1>6, <2>1, <3>2
      <4>2. i \in (Last + 1)..i
        BY <1>0, <1>9
      <4>. QED
        BY <4>1, <4>2
    <3>. QED
      BY <3>1, <3>2
  <2>2. ASSUME NEW j \in 1..(T + P), NEW k \in 1..(T + P), j < k,
               tasks'[j].op = "packet", tasks'[k].op = "packet"
        PROVE  tasks'[j].frame < tasks'[k].frame
    <3>1. j \in 1..T
      <4>1. j # T + P
        BY <2>2
      <4>. QED
        BY <1>6, <2>2, <4>1
    <3>2. CASE k \in 1..T
      BY <1>3, <1>9, <2>2, <3>1, <3>2 DEF PostedInOrder, IsPacket
    <3>3. CASE k \notin 1..T
      <4>1. tasks'[k].frame = i
        BY <1>6, <2>2, <3>3
      <4>2. tasks'[j].frame \in (Last + 1)..n
        BY <1>3, <1>9, <2>2, <3>1 DEF PostedInOrder, IsPacket
      <4>3. \A f \in (Last + 1)..n : f < i
        BY <1>0, <1>9
      <4>. QED
        BY <4>1, <4>2, <4>3
    <3>. QED
      BY <3>2, <3>3
  <2>3. ASSUME NEW m \in (Last + 1)..i, IsOfStream(m)'
        PROVE  \E j \in 1..(T + P) : tasks'[j].op = "packet" /\ tasks'[j].frame = m
    <3>1. m \in 1..i /\ IsOfStream(m) /\ m \in Nat \ {0}
      <4>1. m \in 1..i /\ m \in Nat \ {0}
        BY <1>9
      <4>. QED
        BY <1>10, <2>3, <4>1
    <3>2. CASE m = i
      <4>1. IsVideo(i)
        BY <3>1, <3>2, OfStreamFacts
      <4>2. /\ T + P \in 1..(T + P)
            /\ tasks'[T + P].op = "packet" /\ tasks'[T + P].frame = i
        BY <1>7, <4>1
      <4>. QED
        BY <3>2, <4>2
    <3>3. CASE m # i
      <4>1. m \in (Last + 1)..n
        BY <1>0, <1>9, <3>3
      <4>2. PICK j \in 1..T : tasks[j].op = "packet" /\ tasks[j].frame = m
        BY <1>9, <3>1, <4>1 DEF PostedInOrder, IsPacket
      <4>3. j \in 1..(T + P) /\ tasks'[j] = tasks[j]
        BY <1>3, <4>2
      <4>. QED
        BY <4>2, <4>3
    <3>. QED
      BY <3>2, <3>3
  <2>4. Last' \in 0..i
    BY <1>0, <1>9
  <2>. QED
    BY <1>3, <1>9, <2>1, <2>2, <2>3, <2>4 DEF PostedInOrder, IsPacket, IsVideo
<1>12. StreamIsFirst(i)'
  <2>1. ASSUME video_receive_stream_ # None
        PROVE  \E m \in 1..i : IsFirstVideo(m)' /\ sent[m].kind = video_receive_stream_
    <3>1. PICK m \in 1..n : IsFirstVideo(m) /\ sent[m].kind = video_receive_stream_
      BY <2>1 DEF StreamIsFirst
    <3>2. m \in 1..i
      BY <1>0
    <3>. QED
      BY <1>10, <3>1, <3>2
  <2>2. ASSUME video_receive_stream_ = None, T + P # 0
        PROVE  /\ tasks'[1].op = "create"
               /\ \E m \in 1..i : IsFirstVideo(m)' /\ sent[m].kind = tasks'[1].ssrc
    <3>1. CASE T = 0
      <4>1. IsVideo(i) /\ tasks = <<>>
        BY <1>1, <1>4, <2>2, <3>1, TaskFacts
      <4>2. \A m \in 1..(i - 1) : ~IsVideo(m)
        BY <1>0, <2>2, <4>1 DEF StreamIsFirst
      <4>3. i \in 1..i /\ IsFirstVideo(i)
        BY <1>0, <4>1, <4>2 DEF IsFirstVideo
      <4>4. tasks'[1].op = "create" /\ sent[i].kind = tasks'[1].ssrc
        BY <1>8, <2>2, <3>1, <4>1
      <4>5. IsFirstVideo(i)'
        BY <1>10, <4>3
      <4>. QED
        BY <4>3, <4>4, <4>5
    <3>2. CASE T # 0
      <4>1. 1 \in 1..T /\ tasks'[1] = tasks[1] /\ tasks # <<>>
        BY <1>1, <1>3, <3>2, TaskFacts
      <4>2. /\ tasks[1].op = "create"
            /\ \E m \in 1..n : IsFirstVideo(m) /\ sent[m].kind = tasks[1].ssrc
        BY <2>2, <4>1 DEF StreamIsFirst
      <4>3. \A m \in 1..n : m \in 1..i
        BY <1>0
      <4>. QED
        BY <1>10, <4>1, <4>2, <4>3
    <3>. QED
      BY <3>1, <3>2
  <2>3. ASSUME video_receive_stream_ = None, T + P = 0
        PROVE  \A m \in 1..i : ~IsVideo(m)'
    <3>1. T = 0 /\ P = 0
      BY <2>3
    <3>2. ~IsVideo(i) /\ tasks = <<>>
      BY <1>1, <1>4, <2>3, <3>1, TaskFacts
    <3>3. \A m \in 1..n : ~IsVideo(m)
      BY <2>3, <3>2 DEF StreamIsFirst
    <3>4. \A m \in 1..i : m \in 1..n \/ m = i
      BY <1>0
    <3>. QED
      BY <1>10, <3>2, <3>3, <3>4
  <2>4. tasks' = <<>> <=> T + P = 0
    <3>1. tasks' \in Seq(Tasks)
      BY <1>0, PostsFacts, ConcatProperties DEF TypeOK
    <3>. QED
      BY <1>3, <3>1, EmptySeq
  <2>. QED
    BY <1>9, <2>1, <2>2, <2>3, <2>4 DEF StreamIsFirst
<1>. QED
  BY <1>0, <1>11, <1>12

(* The queue moved up by one.                                              *)
LEMMA QueueMoves ==
  ASSUME TypeOK, tasks # <<>>, tasks' = Tail(tasks), NEW T \in Nat, T = Len(tasks)
  PROVE  /\ 1 \in 1..T
         /\ DOMAIN tasks = 1..T
         /\ DOMAIN tasks' = 1..(T - 1)
         /\ \A j \in 1..(T - 1) : /\ tasks'[j] = tasks[j + 1]
                                  /\ j + 1 \in 1..T /\ 1 < j + 1
         /\ \A j \in 1..T : j # 1 => /\ j - 1 \in 1..(T - 1)
                                     /\ tasks'[j - 1] = tasks[j]
<1>1. /\ 1 \in 1..T /\ DOMAIN tasks = 1..T
  BY RunFacts, TaskFacts
<1>2. /\ DOMAIN tasks' = 1..(T - 1)
      /\ \A j \in 1..(T - 1) : tasks'[j] = tasks[j + 1]
  BY RunFacts
<1>3. \A j \in 1..(T - 1) : j + 1 \in 1..T /\ 1 < j + 1
  OBVIOUS
<1>4. \A j \in 1..T : j # 1 => j - 1 \in 1..(T - 1) /\ (j - 1) + 1 = j
  OBVIOUS
<1>5. \A j \in 1..T : j # 1 => tasks'[j - 1] = tasks[j]
  <2>. SUFFICES ASSUME NEW j \in 1..T, j # 1 PROVE tasks'[j - 1] = tasks[j]
    OBVIOUS
  <2>1. tasks'[j - 1] = tasks[(j - 1) + 1]
    BY <1>2, <1>4
  <2>. QED
    BY <1>4, <2>1
<1>. QED
  BY <1>1, <1>2, <1>3, <1>4, <1>5

(* The request is answered: the stream is of the first source of video.    *)
LEMMA CreateRuns ==
  ASSUME TypeOK, NEW n \in Nat, RunCreate, PostedInOrder(n), StreamIsFirst(n)
  PROVE  PostedInOrder(n)' /\ StreamIsFirst(n)'
<1>1. PICK T \in Nat : T = Len(tasks)
  BY TaskFacts
<1>2. /\ tasks # <<>> /\ Head(tasks).op = "create" /\ tasks' = Tail(tasks)
      /\ video_receive_stream_' =
           IF video_receive_stream_ = None THEN Head(tasks).ssrc
           ELSE video_receive_stream_
      /\ sent' = sent /\ received' = received
  BY DEF RunCreate
<1>3. /\ 1 \in 1..T
      /\ DOMAIN tasks = 1..T
      /\ DOMAIN tasks' = 1..(T - 1)
      /\ \A j \in 1..(T - 1) : /\ tasks'[j] = tasks[j + 1]
                               /\ j + 1 \in 1..T /\ 1 < j + 1
      /\ \A j \in 1..T : j # 1 => j - 1 \in 1..(T - 1) /\ tasks'[j - 1] = tasks[j]
  BY <1>1, <1>2, QueueMoves
<1>4. tasks[1].op = "create" /\ tasks[1] = Head(tasks)
  BY <1>2, RunFacts
<1>5. Last' = Last
  BY <1>2 DEF Last
<1>6. /\ \A m \in 1..n : IsVideo(m)' <=> IsVideo(m)
      /\ \A m \in 1..n : IsFirstVideo(m)' <=> IsFirstVideo(m)
      /\ \A m \in 1..n : IsOfStream(m)' <=> IsOfStream(m)
  BY <1>2, SameVideos
<1>7. PostedInOrder(n)'
  <2>1. \A j \in 1..T : tasks[j].op = "packet" =>
          tasks[j].frame \in (Last + 1)..n /\ sent[tasks[j].frame].kind \in Ssrcs
    BY <1>3 DEF PostedInOrder, IsPacket, IsVideo
  <2>2. \A j \in 1..(T - 1) : tasks'[j].op = "packet" =>
          tasks'[j].frame \in (Last + 1)..n /\ sent[tasks'[j].frame].kind \in Ssrcs
    BY <1>3, <2>1
  <2>3. \A i, j \in 1..T :
          i < j /\ tasks[i].op = "packet" /\ tasks[j].op = "packet" =>
            tasks[i].frame < tasks[j].frame
    BY <1>3 DEF PostedInOrder, IsPacket
  <2>4. ASSUME NEW i \in 1..(T - 1), NEW j \in 1..(T - 1), i < j,
               tasks'[i].op = "packet", tasks'[j].op = "packet"
        PROVE  tasks'[i].frame < tasks'[j].frame
    <3>1. i + 1 < j + 1
      BY <2>4
    <3>. QED
      BY <1>3, <2>3, <2>4, <3>1
  <2>5. ASSUME NEW m \in (Last + 1)..n, IsOfStream(m)'
        PROVE  \E j \in 1..(T - 1) : tasks'[j].op = "packet" /\ tasks'[j].frame = m
    <3>1. m \in 1..n
      BY ReceivedFacts
    <3>2. PICK j \in 1..T : tasks[j].op = "packet" /\ tasks[j].frame = m
      BY <1>3, <1>6, <2>5, <3>1 DEF PostedInOrder, IsPacket
    <3>3. j # 1
      BY <1>4, <3>2
    <3>. QED
      BY <1>3, <3>2, <3>3
  <2>6. Last \in 0..n
    BY DEF PostedInOrder
  <2>. QED
    BY <1>2, <1>3, <1>5, <2>2, <2>4, <2>5, <2>6 DEF PostedInOrder, IsPacket, IsVideo
<1>8. StreamIsFirst(n)'
  <2>1. /\ video_receive_stream_' # None
        /\ \E m \in 1..n : IsFirstVideo(m) /\ sent[m].kind = video_receive_stream_'
    <3>1. CASE video_receive_stream_ = None
      <4>1. \E m \in 1..n : IsFirstVideo(m) /\ sent[m].kind = tasks[1].ssrc
        BY <1>2, <3>1 DEF StreamIsFirst
      <4>2. video_receive_stream_' = tasks[1].ssrc
        BY <1>2, <1>4, <3>1
      <4>3. tasks[1].ssrc # None
        BY <1>3, <1>4, <1>1, TaskFacts, KindsAssumption
      <4>. QED
        BY <4>1, <4>2, <4>3
    <3>2. CASE video_receive_stream_ # None
      BY <1>2, <3>2 DEF StreamIsFirst
    <3>. QED
      BY <3>1, <3>2
  <2>2. \E m \in 1..n : IsFirstVideo(m)' /\ sent[m].kind = video_receive_stream_'
    BY <1>6, <2>1
  <2>. QED
    BY <1>2, <2>1, <2>2 DEF StreamIsFirst
<1>. QED
  BY <1>7, <1>8

(* The head of the queue is a packet: what is known of it, and whether it  *)
(* is of the stream.                                                       *)
LEMMA HeadPacket ==
  ASSUME TypeOK, NEW n \in Nat, tasks # <<>>, Head(tasks).op = "packet",
         PostedInOrder(n), StreamIsFirst(n), NEW f, f = Head(tasks).frame
  PROVE  /\ f \in (Last + 1)..n /\ f \in Nat \ {0} /\ IsVideo(f)
         /\ video_receive_stream_ # None
         /\ sent[f].kind = video_receive_stream_ <=> IsOfStream(f)
         /\ \A k \in (Last + 1)..(f - 1) : ~IsOfStream(k)
<1>1. /\ 1 \in DOMAIN tasks /\ Head(tasks) = tasks[1] /\ tasks[1].op = "packet"
      /\ DOMAIN tasks = 1..Len(tasks) /\ Len(tasks) \in Nat
  BY RunFacts, TaskFacts
<1>2. f \in (Last + 1)..n /\ IsVideo(f)
  BY <1>1 DEF PostedInOrder, IsPacket
<1>3. f \in Nat \ {0} /\ Last \in Nat
  BY <1>2, ReceivedFacts
<1>4. video_receive_stream_ # None
  BY <1>1 DEF StreamIsFirst
<1>5. PICK a \in 1..n : IsFirstVideo(a) /\ sent[a].kind = video_receive_stream_
  BY <1>4 DEF StreamIsFirst
<1>6. sent[f].kind = video_receive_stream_ <=> IsOfStream(f)
  <2>1. a \in Nat \ {0}
    OBVIOUS
  <2>. QED
    BY <1>2, <1>3, <1>5, <2>1, OfStreamFacts
<1>7. \A k \in (Last + 1)..(f - 1) : ~IsOfStream(k)
  <2>. SUFFICES ASSUME NEW k \in (Last + 1)..(f - 1), IsOfStream(k) PROVE FALSE
    OBVIOUS
  <2>1. k \in (Last + 1)..n /\ k < f
    BY <1>2, <1>3
  <2>2. PICK j \in DOMAIN tasks : IsPacket(j) /\ tasks[j].frame = k
    BY <2>1 DEF PostedInOrder
  <2>3. j # 1
    BY <1>1, <1>3, <2>1, <2>2
  <2>4. 1 < j
    BY <1>1, <2>2, <2>3
  <2>5. f < k
    BY <1>1, <2>2, <2>4 DEF PostedInOrder, IsPacket
  <2>. QED
    BY <1>3, <2>1, <2>5
<1>. QED
  BY <1>2, <1>3, <1>4, <1>6, <1>7

(* The head of the queue is handed over, or dropped.                       *)
LEMMA PacketRuns ==
  ASSUME TypeOK, NEW n \in Nat, RunPacket, PostedInOrder(n), StreamIsFirst(n)
  PROVE  PostedInOrder(n)' /\ StreamIsFirst(n)'
<1>1. PICK T \in Nat : T = Len(tasks)
  BY TaskFacts
<1>2. /\ tasks # <<>> /\ Head(tasks).op = "packet" /\ tasks' = Tail(tasks)
      /\ sent' = sent /\ video_receive_stream_' = video_receive_stream_
  BY DEF RunPacket
<1>3. /\ 1 \in 1..T
      /\ DOMAIN tasks = 1..T
      /\ DOMAIN tasks' = 1..(T - 1)
      /\ \A j \in 1..(T - 1) : /\ tasks'[j] = tasks[j + 1]
                               /\ j + 1 \in 1..T /\ 1 < j + 1
      /\ \A j \in 1..T : j # 1 => j - 1 \in 1..(T - 1) /\ tasks'[j - 1] = tasks[j]
  BY <1>1, <1>2, QueueMoves
<1>4. PICK f \in Nat \ {0} :
        /\ f = Head(tasks).frame
        /\ f \in (Last + 1)..n /\ IsVideo(f)
        /\ video_receive_stream_ # None
        /\ sent[f].kind = video_receive_stream_ <=> IsOfStream(f)
  BY <1>2, HeadPacket
<1>5. tasks[1].op = "packet" /\ tasks[1].frame = f
  BY <1>2, <1>4, RunFacts
<1>6. /\ sent[f].kind = video_receive_stream_ => Last' = f
      /\ sent[f].kind # video_receive_stream_ => Last' = Last
      /\ Last \in Nat
  <2>1. sent[f].kind = video_receive_stream_ => received' = Append(received, f)
    BY <1>4 DEF RunPacket
  <2>2. sent[f].kind # video_receive_stream_ => received' = received
    BY <1>4 DEF RunPacket
  <2>3. /\ Append(received, f) # <<>>
        /\ Append(received, f)[Len(Append(received, f))] = f
    <3>1. received \in Seq(Nat) /\ f \in Nat
      BY DEF TypeOK
    <3>2. /\ Append(received, f) \in Seq(Nat)
          /\ Len(Append(received, f)) = Len(received) + 1
          /\ Append(received, f)[Len(received) + 1] = f
          /\ Len(received) \in Nat
      BY <3>1, AppendProperties, ReceivedFacts
    <3>. QED
      BY <3>2, EmptySeq
  <2>. QED
    BY <2>1, <2>2, <2>3, ReceivedFacts DEF Last
<1>7. Last <= Last' /\ Last' <= f /\ Last' \in Nat
  BY <1>4, <1>6
<1>8. \A m \in 1..n : IsOfStream(m)' <=> IsOfStream(m)
  BY <1>2, SameVideos
<1>9. PostedInOrder(n)'
  <2>1. \A i, j \in 1..T :
          i < j /\ tasks[i].op = "packet" /\ tasks[j].op = "packet" =>
            tasks[i].frame < tasks[j].frame
    BY <1>3 DEF PostedInOrder, IsPacket
  <2>2. ASSUME NEW j \in 1..(T - 1), tasks'[j].op = "packet"
        PROVE  /\ tasks'[j].frame \in (Last' + 1)..n
               /\ sent[tasks'[j].frame].kind \in Ssrcs
    <3>1. tasks'[j] = tasks[j + 1] /\ j + 1 \in 1..T /\ 1 < j + 1
      BY <1>3
    <3>2. f < tasks[j + 1].frame
      BY <1>3, <1>5, <2>1, <2>2, <3>1
    <3>3. /\ tasks[j + 1].frame \in (Last + 1)..n
          /\ sent[tasks[j + 1].frame].kind \in Ssrcs
      BY <1>3, <2>2, <3>1 DEF PostedInOrder, IsPacket, IsVideo
    <3>4. \A a, b, c \in Nat : \A k \in (a + 1)..n : b <= c /\ c < k => k \in (b + 1)..n
      OBVIOUS
    <3>5. tasks[j + 1].frame \in (Last' + 1)..n
      BY <1>6, <1>7, <3>2, <3>3, <3>4
    <3>. QED
      BY <3>1, <3>3, <3>5
  <2>3. ASSUME NEW i \in 1..(T - 1), NEW j \in 1..(T - 1), i < j,
               tasks'[i].op = "packet", tasks'[j].op = "packet"
        PROVE  tasks'[i].frame < tasks'[j].frame
    <3>1. i + 1 < j + 1
      BY <2>3
    <3>2. /\ tasks'[i] = tasks[i + 1] /\ i + 1 \in 1..T
          /\ tasks'[j] = tasks[j + 1] /\ j + 1 \in 1..T
      BY <1>3
    <3>3. tasks[i + 1].frame < tasks[j + 1].frame
      BY <2>1, <2>3, <3>1, <3>2
    <3>. QED
      BY <3>2, <3>3
  <2>4. ASSUME NEW m \in (Last' + 1)..n, IsOfStream(m)'
        PROVE  \E j \in 1..(T - 1) : tasks'[j].op = "packet" /\ tasks'[j].frame = m
    <3>1. m \in 1..n /\ m \in (Last + 1)..n
      <4>1. \A a, b \in Nat : \A k \in (b + 1)..n :
              a <= b => k \in 1..n /\ k \in (a + 1)..n
        OBVIOUS
      <4>. QED
        BY <1>6, <1>7, <4>1
    <3>2. IsOfStream(m)
      BY <1>8, <2>4, <3>1
    <3>3. PICK j \in 1..T : tasks[j].op = "packet" /\ tasks[j].frame = m
      BY <1>3, <3>1, <3>2 DEF PostedInOrder, IsPacket
    <3>4. m # f
      <4>1. CASE sent[f].kind = video_receive_stream_
        BY <1>6, <4>1
      <4>2. CASE sent[f].kind # video_receive_stream_
        BY <1>4, <3>2, <4>2
      <4>. QED
        BY <4>1, <4>2
    <3>5. j # 1
      BY <1>5, <3>3, <3>4
    <3>. QED
      BY <1>3, <3>3, <3>5
  <2>5. Last' \in 0..n
    BY <1>4, <1>7
  <2>. QED
    BY <1>2, <1>3, <2>2, <2>3, <2>4, <2>5 DEF PostedInOrder, IsPacket, IsVideo
<1>10. StreamIsFirst(n)'
  <2>1. \E m \in 1..n : IsFirstVideo(m)' /\ sent[m].kind = video_receive_stream_
    BY <1>2, <1>4, SameVideos DEF StreamIsFirst
  <2>. QED
    BY <1>2, <1>4, <2>1 DEF StreamIsFirst
<1>. QED
  BY <1>9, <1>10

-----------------------------------------------------------------------------
(* The invariant.                                                          *)

LEMMA InvInit == Init => IInv
<1>. SUFFICES ASSUME Init PROVE IInv
  OBVIOUS
<1>1. TypeOK
  BY TypesInit
<1>2. /\ sent = <<>> /\ DOMAIN sent = {} /\ Len(sent) = 0 /\ Total = 0
      /\ tasks = <<>> /\ DOMAIN tasks = {} /\ Last = 0
      /\ video_receive_stream_ = None
      /\ arrived = 0 /\ recv_buffer_size_ = 0 /\ ~reading /\ ~misled
  BY DEF Init, Total, Last
<1>3. FramesLineUp /\ BytesAddUp
  BY <1>2 DEF FramesLineUp, BytesAddUp
<1>4. PostedInOrder(0)
  BY <1>2 DEF PostedInOrder
<1>5. StreamIsFirst(0)
  BY <1>2 DEF StreamIsFirst
<1>6. Cursor = After(0)
  BY <1>2 DEF Cursor, After
<1>. QED
  BY <1>1, <1>2, <1>3, <1>4, <1>5, <1>6 DEF IInv, Parsed

(* Steps that leave the camera's packets alone keep what is known of them. *)
LEMMA SameSent ==
  ASSUME sent' = sent, FramesLineUp
  PROVE  /\ FramesLineUp' /\ Total' = Total
         /\ \A n \in Nat : After(n)' = After(n)
         /\ \A n \in Nat : \A k \in 1..n : sent'[k] = sent[k]
  BY DEF FramesLineUp, Total, After, End

(* Once a length of Half or more is sent, it stays sent.                   *)
LEMMA StaysMisled ==
  ASSUME TypeOK, FramesLineUp, FramesLineUp', [Next]_vars,
         \E i \in DOMAIN sent : sent[i].size >= Half
  PROVE  \E i \in DOMAIN sent' : sent'[i].size >= Half
<1>1. CASE Send
  <2>1. /\ Len(sent') = Len(sent) + 1
        /\ \A i \in 1..Len(sent) : sent'[i] = sent[i]
    BY <1>1, SendFacts
  <2>2. sent' \in Seq(Frames)
    BY TypesStep DEF TypeOK
  <2>. QED
    BY <2>1, <2>2, SentFacts
<1>2. CASE ~Send
  BY <1>2 DEF Next, Read, OnRead, Parse, KeepRest, ParseFrame, ParseAnything, Work,
              RunCreate, RunPacket, vars
<1>. QED
  BY <1>1, <1>2

LEMMA LinedUp ==
  ASSUME TypeOK, FramesLineUp, [Next]_vars
  PROVE  FramesLineUp'
<1>1. CASE Send
  BY <1>1, SendFacts
<1>2. CASE ~Send
  <2>1. sent' = sent
    BY <1>2 DEF Next, Read, OnRead, Parse, KeepRest, ParseFrame, ParseAnything, Work,
                RunCreate, RunPacket, vars
  <2>. QED
    BY <2>1, SameSent
<1>. QED
  BY <1>1, <1>2

(* Steps of a parser that has read no length as negative.                  *)
LEMMA AlignedStep ==
  ASSUME IInv, [Next]_vars, ~misled, ~misled'
  PROVE  BytesAddUp' /\ \E n \in Nat : Parsed(n)'
<1>1. TypeOK /\ FramesLineUp /\ BytesAddUp /\ TypeOK'
  BY TypesStep DEF IInv
<1>2. PICK n \in Nat : n \in 0..Len(sent) /\ Cursor = After(n)
                       /\ PostedInOrder(n) /\ StreamIsFirst(n)
  BY DEF IInv, Parsed
<1>3. CASE Send
  <2>1. /\ Len(sent') = Len(sent) + 1
        /\ \A i \in 1..Len(sent) : sent'[i] = sent[i]
        /\ FramesLineUp' /\ Total <= Total' /\ Total' \in Nat
    BY <1>1, <1>3, SendFacts
  <2>2. UNCHANGED <<parser, worker>>
    BY <1>3 DEF Send
  <2>3. Len(sent) \in Nat /\ Total \in Nat
    BY <1>1, SentFacts
  <2>4. /\ n \in 0..Len(sent')
        /\ \A k \in 1..n : k \in 1..Len(sent) /\ sent'[k] = sent[k]
    BY <1>2, <2>1, <2>3
  <2>5. BytesAddUp'
    BY <1>1, <2>1, <2>2, <2>3 DEF BytesAddUp, parser, TypeOK
  <2>6. Cursor' = Cursor /\ After(n)' = After(n)
    <3>1. Cursor' = Cursor
      BY <2>2 DEF Cursor, Position, parser
    <3>2. n = 0 \/ n \in 1..n
      BY <1>2
    <3>3. After(n)' = After(n)
      BY <2>4, <3>2 DEF After, End
    <3>. QED
      BY <3>1, <3>3
  <2>7. PostedInOrder(n)' /\ StreamIsFirst(n)'
    BY <1>1, <1>2, <2>2, <2>4, NothingPosted
  <2>. QED
    BY <1>1, <1>2, <2>1, <2>4, <2>5, <2>6, <2>7 DEF Parsed
<1>4. ASSUME NEW b \in 1..(Total - arrived), OnRead(b)
      PROVE  BytesAddUp' /\ \E m \in Nat : Parsed(m)'
  <2>1. /\ sent' = sent /\ UNCHANGED worker
        /\ ~reading /\ reading' /\ parse_size' = 0 /\ recv_buffer_size_' = 0
        /\ read_bytes' = recv_buffer_size_ + b /\ arrived' = arrived + b
    BY <1>4 DEF OnRead
  <2>2. Total \in Nat /\ arrived \in Nat /\ recv_buffer_size_ \in Nat /\ b \in Nat
    BY <1>1, SentFacts DEF TypeOK
  <2>3. /\ FramesLineUp' /\ Total' = Total /\ After(n)' = After(n)
        /\ \A k \in 1..n : sent'[k] = sent[k]
    BY <1>1, <2>1, SameSent
  <2>4. BytesAddUp'
    BY <1>1, <2>1, <2>2, <2>3 DEF BytesAddUp
  <2>5. Cursor' = Cursor
    <3>1. Cursor = arrived - recv_buffer_size_
      BY <2>1 DEF Cursor
    <3>2. Cursor' = (arrived + b) - (recv_buffer_size_ + b) + 0
      BY <2>1 DEF Cursor, Position
    <3>. QED
      BY <2>2, <3>1, <3>2
  <2>6. PostedInOrder(n)' /\ StreamIsFirst(n)'
    BY <1>1, <1>2, <2>1, <2>3, NothingPosted
  <2>. QED
    BY <1>1, <1>2, <2>1, <2>3, <2>4, <2>5, <2>6 DEF Parsed
<1>5. CASE KeepRest
  <2>1. /\ sent' = sent /\ UNCHANGED worker
        /\ reading /\ ~reading' /\ arrived' = arrived
        /\ recv_buffer_size_' = IF ~misled /\ Rest > 0 THEN Rest ELSE 0
    BY <1>5 DEF KeepRest
  <2>2. /\ arrived \in Nat /\ read_bytes \in Nat /\ parse_size \in 0..read_bytes
        /\ read_bytes <= arrived
    BY <1>1, <2>1 DEF TypeOK, BytesAddUp
  <2>3. recv_buffer_size_' = read_bytes - parse_size
    BY <2>1, <2>2 DEF Rest
  <2>4. /\ FramesLineUp' /\ Total' = Total /\ After(n)' = After(n)
        /\ \A k \in 1..n : sent'[k] = sent[k]
    BY <1>1, <2>1, SameSent
  <2>5. BytesAddUp'
    BY <1>1, <2>1, <2>2, <2>3, <2>4 DEF BytesAddUp
  <2>6. Cursor' = Cursor
    <3>1. Cursor = arrived - read_bytes + parse_size
      BY <2>1 DEF Cursor, Position
    <3>2. Cursor' = arrived - (read_bytes - parse_size)
      BY <2>1, <2>3 DEF Cursor
    <3>. QED
      BY <2>2, <3>1, <3>2
  <2>7. PostedInOrder(n)' /\ StreamIsFirst(n)'
    BY <1>1, <1>2, <2>1, <2>4, NothingPosted
  <2>. QED
    BY <1>1, <1>2, <2>1, <2>4, <2>5, <2>6, <2>7 DEF Parsed
<1>6. ASSUME NEW i \in DOMAIN sent, ParseFrame(i)
      PROVE  BytesAddUp' /\ \E m \in Nat : Parsed(m)'
  <2>1. i \in 1..Len(sent)
    BY <1>1, SentFacts
  <2>0. sent[i].size < Half
    <3>1. Signed(sent[i].size) >= 0
      BY <1>6 DEF ParseFrame
    <3>. QED
      BY <1>1, <2>1, <3>1, SentFacts, SizesAssumption DEF Signed
  <2>2. i = n + 1 /\ BytesAddUp' /\ Cursor' = After(i) /\ tasks' = tasks \o Posts(i)
    BY <1>1, <1>2, <1>6, <2>0, <2>1, ParseFacts
  <2>3. UNCHANGED <<sent, video_receive_stream_, received>>
    BY <1>6 DEF ParseFrame
  <2>4. FramesLineUp' /\ After(i)' = After(i)
    BY <1>1, <2>3 DEF FramesLineUp, After, End
  <2>5. PostedInOrder(i)' /\ StreamIsFirst(i)'
    BY <1>1, <1>2, <2>1, <2>2, <2>3, PacketPosted
  <2>6. i \in Nat /\ i \in 0..Len(sent')
    BY <2>1, <2>3
  <2>. QED
    BY <1>1, <2>2, <2>4, <2>5, <2>6 DEF Parsed
<1>7. CASE Work
  <2>1. sent' = sent /\ UNCHANGED parser
    BY <1>7 DEF Work, RunCreate, RunPacket
  <2>2. /\ FramesLineUp' /\ Total' = Total /\ After(n)' = After(n)
    BY <1>1, <2>1, SameSent
  <2>3. BytesAddUp' /\ Cursor' = Cursor
    BY <1>1, <2>1, <2>2 DEF BytesAddUp, Cursor, Position, parser
  <2>4. PostedInOrder(n)' /\ StreamIsFirst(n)'
    BY <1>1, <1>2, <1>7, CreateRuns, PacketRuns DEF Work
  <2>. QED
    BY <1>1, <1>2, <2>1, <2>2, <2>3, <2>4 DEF Parsed
<1>8. CASE UNCHANGED vars
  <2>1. sent' = sent /\ UNCHANGED parser /\ UNCHANGED worker
    BY <1>8 DEF vars
  <2>2. /\ FramesLineUp' /\ Total' = Total /\ After(n)' = After(n)
        /\ \A k \in 1..n : sent'[k] = sent[k]
    BY <1>1, <2>1, SameSent
  <2>3. BytesAddUp' /\ Cursor' = Cursor
    BY <1>1, <2>1, <2>2 DEF BytesAddUp, Cursor, Position, parser
  <2>4. PostedInOrder(n)' /\ StreamIsFirst(n)'
    BY <1>1, <1>2, <2>1, <2>2, NothingPosted
  <2>. QED
    BY <1>1, <1>2, <2>1, <2>2, <2>3, <2>4 DEF Parsed
<1>. QED
  BY <1>3, <1>4, <1>5, <1>6, <1>7, <1>8 DEF Next, Read, Parse, ParseAnything

LEMMA InvStep == IInv /\ [Next]_vars => IInv'
<1>. SUFFICES ASSUME IInv, [Next]_vars PROVE IInv'
  OBVIOUS
<1>1. TypeOK /\ FramesLineUp /\ TypeOK' /\ FramesLineUp'
  BY TypesStep, LinedUp DEF IInv
<1>2. ASSUME ~misled' PROVE ~misled
  BY <1>2 DEF Next, Send, Read, OnRead, Parse, KeepRest, ParseFrame, ParseAnything,
              Work, RunCreate, RunPacket, vars
<1>3. CASE misled
  BY <1>1, <1>2, <1>3, StaysMisled DEF IInv
<1>4. CASE ~misled /\ misled'
  <2>1. PICK i \in DOMAIN sent : ParseFrame(i)
    BY <1>4 DEF Next, Send, Read, OnRead, Parse, KeepRest, ParseAnything,
                Work, RunCreate, RunPacket, vars
  <2>2. sent' = sent /\ Signed(sent[i].size) < 0
    <3>1. Signed(sent[i].size) \in Int
      BY <1>1, <2>1, SentFacts, SizeFacts
    <3>2. sent' = sent /\ (Signed(sent[i].size) >= 0 => misled' = misled)
      BY <2>1 DEF ParseFrame
    <3>3. misled' # misled
      BY ONLY <1>4, Zenon
    <3>. QED
      BY ONLY <3>1, <3>2, <3>3
  <2>3. sent[i].size >= Half
    BY <1>1, <2>1, <2>2, SentFacts, SizesAssumption DEF Signed
  <2>. QED
    BY <1>1, <1>4, <2>2, <2>3 DEF IInv
<1>5. CASE ~misled /\ ~misled'
  BY <1>1, <1>5, AlignedStep DEF IInv
<1>. QED
  BY <1>3, <1>4, <1>5

(* Every reachable state satisfies IInv.                                   *)
THEOREM Inductive == Spec => []IInv
<1>1. Init => IInv
  BY InvInit
<1>2. IInv /\ [Next]_vars => IInv'
  BY InvStep
<1>. QED
  BY <1>1, <1>2, PTL DEF Spec

LEMMA Aligned == IInv => ParserIsAligned
<1>. SUFFICES ASSUME IInv PROVE ParserIsAligned
  OBVIOUS
<1>0. CASE misled
  BY <1>0 DEF IInv, ParserIsAligned
<1>. SUFFICES ASSUME ~misled PROVE ParserIsAligned
  BY <1>0
<1>1. TypeOK /\ FramesLineUp
  BY DEF IInv
<1>2. PICK n \in Nat : n \in 0..Len(sent) /\ Cursor = After(n)
  BY DEF IInv, Parsed
<1>3. Len(sent) \in Nat /\ DOMAIN sent = 1..Len(sent) /\ Total = After(Len(sent))
  BY <1>1, SentFacts
<1>4. CASE n = Len(sent)
  BY <1>2, <1>3, <1>4 DEF ParserIsAligned
<1>5. CASE n # Len(sent)
  <2>0. n \in 0..Len(sent) /\ Len(sent) \in Nat /\ n # Len(sent)
    BY <1>2, <1>3, <1>5
  <2>1. n + 1 \in 1..Len(sent) /\ (n + 1) - 1 = n
    BY ONLY <2>0
  <2>2. sent[n + 1].at = After(n)
    BY <1>1, <1>3, <2>1 DEF FramesLineUp
  <2>. QED
    BY <1>2, <1>3, <2>1, <2>2 DEF ParserIsAligned
<1>. QED
  BY <1>4, <1>5

(* However the stream is cut, the parser stands where a packet begins,     *)
(* until one of Half bytes or more (32768) was sent and has misled it.     *)
THEOREM ParserAligned == Spec => []ParserIsAligned
<1>1. Spec => []IInv
  BY Inductive
<1>. QED
  BY <1>1, Aligned, PTL

-----------------------------------------------------------------------------
(* The session implements PacketStream.                                    *)

KindsSent == [i \in 1..Len(sent) |-> sent[i].kind]

(* What PacketStream calls the stream is what the invariant calls so.      *)
LEMMA SameStream ==
  ASSUME TypeOK, NEW m \in 1..Len(sent)
  PROVE  Stream!OfStream(m) <=> IsOfStream(m)
<1>1. Len(sent) \in Nat
  BY SentFacts
<1>2. \A k \in 1..m : k \in 1..Len(sent) /\ KindsSent[k] = sent[k].kind
  BY <1>1 DEF KindsSent
<1>3. \A a \in 1..m : IsFirstVideo(a) <=>
        KindsSent[a] \in Ssrcs /\ \A k \in 1..(a - 1) : KindsSent[k] \notin Ssrcs
  <2>. SUFFICES ASSUME NEW a \in 1..m
                PROVE  IsFirstVideo(a) <=>
                         /\ KindsSent[a] \in Ssrcs
                         /\ \A k \in 1..(a - 1) : KindsSent[k] \notin Ssrcs
    OBVIOUS
  <2>1. \A k \in 1..(a - 1) : k \in 1..m
    BY <1>1
  <2>. QED
    BY <1>2, <2>1 DEF IsFirstVideo, IsVideo
<1>4. m \in 1..m /\ KindsSent[m] = sent[m].kind
  BY <1>1, <1>2
<1>5. Stream!OfStream(m) <=>
        \E a \in 1..m :
          /\ KindsSent[a] \in Ssrcs
          /\ KindsSent[a] = KindsSent[m]
          /\ \A k \in 1..(a - 1) : KindsSent[k] \notin Ssrcs
  BY DEF Stream!OfStream, KindsSent
<1>. QED
  BY <1>2, <1>3, <1>4, <1>5 DEF IsOfStream

LEMMA InitMaps == Init => Stream!Init
<1>. SUFFICES ASSUME Init PROVE Stream!Init
  OBVIOUS
<1>1. KindsSent = <<>>
  <2>1. Len(sent) = 0
    BY DEF Init
  <2>2. /\ KindsSent = [i \in 1..Len(sent) |-> sent[i].kind]
        /\ KindsSent \in Seq({sent[i].kind : i \in 1..Len(sent)})
        /\ Len(KindsSent) = 0
    BY <2>1 DEF KindsSent
  <2>. QED
    BY <2>2, EmptySeq
<1>2. Last = 0
  BY DEF Init, Last
<1>. QED
  BY <1>1, <1>2 DEF Stream!Init, KindsSent, Last

(* The kinds of what was sent, with one more.                              *)
LEMMA KindsGrow ==
  ASSUME TypeOK, FramesLineUp, Send
  PROVE  \E k \in Kinds : KindsSent' = Append(KindsSent, k)
<1>1. PICK L \in Nat : L = Len(sent)
  BY SentFacts
<1>2. PICK size \in Sizes, kind \in Kinds :
        sent' = Append(sent, [at |-> Total, size |-> size, kind |-> kind])
  BY DEF Send
<1>3. [at |-> Total, size |-> size, kind |-> kind] \in Frames
  BY SentFacts DEF Frames
<1>4. /\ Len(sent') = L + 1
      /\ \A i \in 1..L : sent'[i] = sent[i]
      /\ sent'[L + 1].kind = kind
  <2>1. sent \in Seq(Frames)
    BY DEF TypeOK
  <2>2. sent'[L + 1] = [at |-> Total, size |-> size, kind |-> kind]
    BY <1>1, <1>2, <1>3, <2>1, AppendProperties
  <2>3. sent'[L + 1].kind = kind
    BY <2>2
  <2>. QED
    BY <1>1, <2>3, SendFacts
<1>5. KindsSent \in Seq(Kinds) /\ Len(KindsSent) = L
  <2>1. \A i \in 1..L : sent[i].kind \in Kinds
    BY <1>1, SentFacts
  <2>. QED
    BY <1>1, <2>1 DEF KindsSent
<1>6. /\ Append(KindsSent, kind) \in Seq(Kinds)
      /\ Len(Append(KindsSent, kind)) = L + 1
      /\ \A i \in 1..L : Append(KindsSent, kind)[i] = sent[i].kind
      /\ Append(KindsSent, kind)[L + 1] = kind
  <2>1. \A i \in 1..L : KindsSent[i] = sent[i].kind
    BY <1>1 DEF KindsSent
  <2>. QED
    BY <1>5, <2>1, AppendProperties
<1>7. \A i \in 1..(L + 1) : Append(KindsSent, kind)[i] = sent'[i].kind
  <2>1. \A i \in 1..(L + 1) : i \in 1..L \/ i = L + 1
    OBVIOUS
  <2>. QED
    BY <1>4, <1>6, <2>1
<1>8. Append(KindsSent, kind) = [i \in 1..(L + 1) |-> Append(KindsSent, kind)[i]]
  <2>1. Append(KindsSent, kind) \in [1..(L + 1) -> Kinds]
    BY <1>6, LenProperties
  <2>. QED
    BY <2>1
<1>9. KindsSent' = [i \in 1..(L + 1) |-> sent'[i].kind]
  BY <1>4 DEF KindsSent
<1>10. KindsSent' = Append(KindsSent, kind)
  BY <1>7, <1>8, <1>9
<1>. QED
  BY <1>10

LEMMA StepMaps == IInv /\ [Next]_vars => [Stream!Next \/ misled]_(Stream!vars)
<1>. SUFFICES ASSUME IInv, [Next]_vars, ~misled PROVE [Stream!Next]_(Stream!vars)
  OBVIOUS
<1>1. TypeOK /\ FramesLineUp
  BY DEF IInv
<1>2. PICK n \in Nat : n \in 0..Len(sent) /\ PostedInOrder(n) /\ StreamIsFirst(n)
  BY DEF IInv, Parsed
<1>3. ASSUME sent' = sent, received' = received
      PROVE  [Stream!Next]_(Stream!vars)
  BY <1>3 DEF Stream!vars
<1>4. CASE Send
  <2>1. PICK k \in Kinds : KindsSent' = Append(KindsSent, k)
    BY <1>1, <1>4, KindsGrow
  <2>2. Last' = Last
    BY <1>4 DEF Send, worker, Last
  <2>3. Stream!Send
    BY <2>1, <2>2 DEF Stream!Send, KindsSent, Last, Kinds
  <2>. QED
    BY <2>3 DEF Stream!Next
<1>5. CASE Read
  BY <1>3, <1>5 DEF Read, OnRead, worker
<1>6. CASE Parse
  BY <1>3, <1>6 DEF Parse, KeepRest, ParseFrame, ParseAnything, worker
<1>7. CASE RunCreate
  BY <1>3, <1>7 DEF RunCreate
<1>8. CASE RunPacket
  <2>1. tasks # <<>> /\ Head(tasks).op = "packet" /\ sent' = sent
    BY <1>8 DEF RunPacket
  <2>2. PICK f : f = Head(tasks).frame
    OBVIOUS
  <2>3. /\ f \in (Last + 1)..n /\ f \in Nat \ {0}
        /\ sent[f].kind = video_receive_stream_ <=> IsOfStream(f)
        /\ \A k \in (Last + 1)..(f - 1) : ~IsOfStream(k)
    BY <1>1, <1>2, <2>1, <2>2, HeadPacket
  <2>4. CASE sent[f].kind # video_receive_stream_
    BY <1>3, <1>8, <2>1, <2>2, <2>3, <2>4 DEF RunPacket
  <2>5. CASE sent[f].kind = video_receive_stream_
    <3>1. received' = Append(received, f)
      BY <1>8, <2>2, <2>3, <2>5 DEF RunPacket
    <3>2. received \in Seq(Nat) /\ f \in Nat /\ Len(received) \in Nat /\ Last \in Nat
      BY <1>1, <2>3, ReceivedFacts DEF TypeOK
    <3>3. /\ Append(received, f) \in Seq(Nat)
          /\ Len(Append(received, f)) = Len(received) + 1
          /\ Append(received, f)[Len(received) + 1] = f
      BY <3>2, AppendProperties
    <3>4. Last' = f
      BY <3>1, <3>2, <3>3, EmptySeq DEF Last
    <3>5. Len(sent) \in Nat /\ n <= Len(sent)
      BY <1>1, <1>2, SentFacts
    <3>6. /\ Len(KindsSent) = Len(sent) /\ KindsSent' = KindsSent
      BY <2>1, <3>5 DEF KindsSent
    <3>7. /\ f \in (Last + 1)..Len(KindsSent) /\ f \in 1..Len(sent)
          /\ \A k \in (Last + 1)..(f - 1) : k \in 1..Len(sent)
      BY <2>3, <3>2, <3>5, <3>6
    <3>8. Stream!OfStream(f)
      BY <1>1, <2>3, <2>5, <3>7, SameStream
    <3>9. \A k \in (Last + 1)..(f - 1) : ~Stream!OfStream(k)
      BY <1>1, <2>3, <3>7, SameStream
    <3>10. Stream!Deliver
      BY <3>4, <3>6, <3>7, <3>8, <3>9 DEF Stream!Deliver, KindsSent, Last
    <3>. QED
      BY <3>10 DEF Stream!Next
  <2>. QED
    BY <2>4, <2>5
<1>9. CASE UNCHANGED vars
  BY <1>3, <1>9 DEF vars, worker
<1>. QED
  BY <1>4, <1>5, <1>6, <1>7, <1>8, <1>9 DEF Next, Work

(* Whatever the order of the two threads' steps, the player behind the     *)
(* session gets the first source's packets in the order sent, none left    *)
(* out and none twice, as long as no length has been read as negative.     *)
THEOREM Implementation == Spec => ImplementsStream
<1>1. Spec => []IInv
  BY Inductive
<1>2. Init => Stream!Init
  BY InitMaps
<1>3. IInv /\ [Next]_vars => [Stream!Next \/ misled]_(Stream!vars)
  BY StepMaps
<1>. QED
  BY <1>1, <1>2, <1>3, PTL DEF Spec, ImplementsStream

=============================================================================
