--------------------------- MODULE Gb28181Session ---------------------------
(***************************************************************************)
(* libgb28181/gb28181_session.cpp: the network thread cuts a TCP stream    *)
(* into length-prefixed packets (RFC 4571) and posts them to the work      *)
(* thread, which makes the VideoReceiveStream and feeds it.                *)
(*                                                                         *)
(* A byte is its position in the stream the camera sends, and a packet is  *)
(* where it begins, how long its payload is and which source it is of;     *)
(* TCP delivers any number of bytes at a time.  One iteration of the loop  *)
(* in OnRead is one action, because the work thread runs beside it: the    *)
(* loop tests video_receive_stream_, which that thread sets.               *)
(*                                                                         *)
(* The length prefix is unsigned, and the code reads it as a signed        *)
(* number: Half is the first one that becomes negative (32768).  A parser  *)
(* that has met one is misled for good: it reads lengths where none are,   *)
(* even in front of its buffer, and what it reads is anybody's guess.  Its *)
(* counters stand still from there, for nothing it does would depend on    *)
(* them, and a packet it makes of what it reads has the number 0.          *)
(*                                                                         *)
(* Left out: the constructor's task, which runs before any other; the      *)
(* connection's end, on which the code does nothing; the buffers' capacity *)
(* of 8 MB, beyond which the rest waits in the socket; the decoder.        *)
(***************************************************************************)
EXTENDS Integers, Sequences, Functions

CONSTANTS
  Ssrcs,       \* sources of video (payload type 96)
  Other,       \* the kind of all other packets
  Sizes,       \* payload lengths a camera sends
  Half,        \* payload lengths from here on are read as negative
  None,        \* no VideoReceiveStream
  MaxFrames    \* bound on packets sent

ASSUME SizesAssumption ==
  Half \in Nat \ {0} /\ Sizes \subseteq 0..(2 * Half - 1)
ASSUME KindsAssumption == Other \notin Ssrcs /\ None \notin Ssrcs
ASSUME FramesBoundAssumption == MaxFrames \in Nat

VARIABLES
  sent,                   \* the packets the camera sent
  arrived,                \* bytes read from the socket
  recv_buffer_size_,      \* bytes kept from one read to the next
  reading,                \* OnRead is in its loop
  read_bytes,             \* bytes in its buffer
  parse_size,             \* and how many of them are done with
  tasks,                  \* posted to the work thread
  video_receive_stream_,  \* the source it is for, or None
  received,               \* numbers of the packets it got
  misled,                 \* a length has been read as negative
  crashed

parser == <<arrived, recv_buffer_size_, reading, read_bytes, parse_size>>
worker == <<tasks, video_receive_stream_, received>>
vars == <<sent, parser, worker, misled, crashed>>

PrefixSize == 2
Kinds == Ssrcs \cup {Other}
Frames == [at : Nat, size : Sizes, kind : Kinds]
Tasks == [op : {"create"}, ssrc : Ssrcs] \cup [op : {"packet"}, frame : Nat]

TypeOK ==
  /\ sent \in Seq(Frames)
  /\ arrived \in Nat
  /\ recv_buffer_size_ \in Nat
  /\ reading \in BOOLEAN
  /\ read_bytes \in Nat
  /\ parse_size \in Int
  /\ tasks \in Seq(Tasks)
  /\ video_receive_stream_ \in Ssrcs \cup {None}
  /\ received \in Seq(Nat)
  /\ misled \in BOOLEAN
  /\ crashed \in BOOLEAN

Init ==
  /\ sent = <<>>
  /\ arrived = 0
  /\ recv_buffer_size_ = 0
  /\ reading = FALSE
  /\ read_bytes = 0
  /\ parse_size = 0
  /\ tasks = <<>>
  /\ video_receive_stream_ = None
  /\ received = <<>>
  /\ misled = FALSE
  /\ crashed = FALSE

-----------------------------------------------------------------------------
(* The camera.                                                             *)

End(f) == f.at + PrefixSize + f.size
Total == IF sent = <<>> THEN 0 ELSE End(sent[Len(sent)])

Send ==
  /\ ~crashed
  /\ Len(sent) < MaxFrames
  /\ \E size \in Sizes, kind \in Kinds :
       /\ kind = Other \/ size > 0
       /\ sent' = Append(sent, [at |-> Total, size |-> size, kind |-> kind])
  /\ UNCHANGED <<parser, worker, misled, crashed>>

-----------------------------------------------------------------------------
(* The network thread.                                                     *)

(* A number of the prefix's width, read as signed.                         *)
Signed(size) == IF size < Half THEN size ELSE size - 2 * Half

(* Where in the stream the loop stands, what is left in its buffer, and    *)
(* where it will read the next length.                                     *)
Position == arrived - read_bytes + parse_size
Rest == read_bytes - parse_size
Cursor == IF reading THEN Position ELSE arrived - recv_buffer_size_

(* OnRead up to the loop: what was kept, and all the socket has.           *)
OnRead(n) ==
  /\ ~crashed
  /\ ~reading
  /\ n <= Total - arrived
  /\ reading' = TRUE
  /\ read_bytes' = recv_buffer_size_ + n
  /\ parse_size' = 0
  /\ recv_buffer_size_' = 0
  /\ arrived' = arrived + n
  /\ UNCHANGED <<sent, worker, misled, crashed>>

(* A slip to guard against: a packet is complete when more follows.        *)
CompleteAndMore(i) == Rest > Signed(sent[i].size) + PrefixSize

(* All of packet i is in the buffer.                                       *)
Complete(i) == Rest >= Signed(sent[i].size) + PrefixSize

(* A slip to guard against: the packet is posted before the request.       *)
PostsPacketFirst(i) ==
  IF sent[i].kind \notin Ssrcs THEN <<>>
  ELSE <<[op |-> "packet", frame |-> i]>>
       \o (IF video_receive_stream_ = None
           THEN <<[op |-> "create", ssrc |-> sent[i].kind]>> ELSE <<>>)

(* A packet of video asks for a VideoReceiveStream as long as there is     *)
(* none, and is posted behind that request.                                *)
Posts(i) ==
  IF sent[i].kind \notin Ssrcs THEN <<>>
  ELSE (IF video_receive_stream_ = None
        THEN <<[op |-> "create", ssrc |-> sent[i].kind]>> ELSE <<>>)
       \o <<[op |-> "packet", frame |-> i]>>

(* The loop goes on with packet i.  If its length is read as negative, the *)
(* payload is a view of nearly 2^64 bytes: it kills the process or does    *)
(* not parse, and the loop steps backwards.                                *)
ParseFrame(i) ==
  /\ ~crashed
  /\ reading /\ ~misled
  /\ Rest > PrefixSize
  /\ sent[i].at = Position
  /\ Complete(i)
  /\ parse_size' = parse_size + PrefixSize + Signed(sent[i].size)
  /\ IF Signed(sent[i].size) >= 0
     THEN /\ tasks' = tasks \o Posts(i)
          /\ UNCHANGED <<misled, crashed>>
     ELSE /\ misled' = TRUE
          /\ crashed' \in {FALSE, sent[i].kind \in Ssrcs}
          /\ UNCHANGED tasks
  /\ UNCHANGED <<sent, arrived, recv_buffer_size_, reading, read_bytes,
                 video_receive_stream_, received>>

(* The loop goes on once it is misled: it reads outside its buffer and may *)
(* crash of it, stays where it is (a length read as -2 takes it nowhere),  *)
(* or takes what it reads for a packet of video.  (Bound: it does so once.)*)
ParseAnything ==
  /\ ~crashed
  /\ reading /\ misled
  /\ \/ crashed' = TRUE /\ UNCHANGED tasks
     \/ /\ tasks = <<>> /\ 0 \notin Range(received)
        /\ \E ssrc \in Ssrcs :
             tasks' = <<[op |-> "create", ssrc |-> ssrc], [op |-> "packet", frame |-> 0]>>
        /\ UNCHANGED crashed
  /\ UNCHANGED <<sent, arrived, recv_buffer_size_, reading, read_bytes, parse_size,
                 video_receive_stream_, received, misled>>

(* The loop stops: no length is left, or no packet of the length read.     *)
Stops ==
  \/ misled
  \/ Rest <= PrefixSize
  \/ \E i \in DOMAIN sent : sent[i].at = Position /\ ~Complete(i)

(* A slip to guard against: the parser's place is not kept.                *)
KeepRestForgotten ==
  /\ ~crashed
  /\ reading
  /\ Stops
  /\ reading' = FALSE
  /\ UNCHANGED <<sent, arrived, recv_buffer_size_, read_bytes, parse_size, worker,
                 misled, crashed>>

(* The loop ends: what is left of the buffer is kept.                      *)
KeepRest ==
  /\ ~crashed
  /\ reading
  /\ Stops
  /\ recv_buffer_size_' = IF ~misled /\ Rest > 0 THEN Rest ELSE 0
  /\ reading' = FALSE
  /\ UNCHANGED <<sent, arrived, read_bytes, parse_size, worker, misled, crashed>>

-----------------------------------------------------------------------------
(* The work thread.                                                        *)

RunCreate ==
  /\ ~crashed
  /\ tasks # <<>> /\ Head(tasks).op = "create"
  /\ video_receive_stream_' =
       IF video_receive_stream_ = None THEN Head(tasks).ssrc ELSE video_receive_stream_
  /\ tasks' = Tail(tasks)
  /\ UNCHANGED <<sent, parser, received, misled, crashed>>

(* The controller hands a packet to the sink of its source, if any; one of *)
(* the parser's own making may be of the sink's source.                    *)
RunPacket ==
  /\ ~crashed
  /\ tasks # <<>> /\ Head(tasks).op = "packet"
  /\ LET n == Head(tasks).frame
     IN  IF n = 0 THEN received' \in {received, Append(received, 0)}
         ELSE received' = IF sent[n].kind = video_receive_stream_
                          THEN Append(received, n) ELSE received
  /\ tasks' = Tail(tasks)
  /\ UNCHANGED <<sent, parser, video_receive_stream_, misled, crashed>>

-----------------------------------------------------------------------------

Read == \E n \in 1..(Total - arrived) : OnRead(n)
Parse ==
  \/ KeepRest
  \/ \E i \in DOMAIN sent : ParseFrame(i)
  \/ ParseAnything
Work == RunCreate \/ RunPacket

Next == Send \/ Read \/ Parse \/ Work

Spec == Init /\ [][Next]_vars

(* TCP goes on delivering, and both threads go on running.                 *)
FairSpec == Spec /\ WF_vars(Read) /\ WF_vars(Parse) /\ WF_vars(Work)

-----------------------------------------------------------------------------
(* Properties.                                                             *)

(* However TCP cuts the stream, the parser and what it keeps begin at a    *)
(* packet: lengths are read where lengths are, until one of Half or more   *)
(* comes.  gb28181_server.h:29-38 has two whole bytes of length;           *)
(* gb28181_session.cpp:113 reads them as signed, and a parser that has met *)
(* the upper half of them is lost: the second line says what misleads it,  *)
(* and that nothing less does.                                             *)
ParserIsAligned ==
  IF misled THEN \E i \in DOMAIN sent : sent[i].size >= Half
  ELSE Cursor = Total \/ \E i \in DOMAIN sent : sent[i].at = Cursor

(* The stream that is made is kept: packets parsed before the work thread  *)
(* got round to the first request do not replace it, nor its source.       *)
StreamIsKept ==
  [][ video_receive_stream_ # None =>
        video_receive_stream_' = video_receive_stream_ ]_vars

(* The session implements the promise PacketStream states, until it is     *)
(* misled.                                                                 *)
Stream == INSTANCE PacketStream
            WITH kinds <- [i \in 1..Len(sent) |-> sent[i].kind],
                 last <- IF received = <<>> THEN 0 ELSE received[Len(received)]
ImplementsStream == Stream!Init /\ [][Stream!Next \/ misled]_(Stream!vars)

(* Every packet of the stream reaches it, without waiting for the next,    *)
(* if it has no packet of Half bytes or more before it and is none itself; *)
(* one that comes later can only kill the process before it does.          *)
FrameIsDelivered ==
  \A n \in 1..MaxFrames :
    (/\ n \in DOMAIN sent /\ Stream!OfStream(n)
     /\ \A i \in 1..n : sent[i].size < Half)
      ~> ((\E i \in DOMAIN received : received[i] = n) \/ crashed)

=============================================================================
