----------------------------- MODULE HttpParser -----------------------------
(***************************************************************************)
(* libhttp/http_parser.cpp under HttpContext::Parse and HttpServer::OnRecv: *)
(* how the segments of one TCP connection become requests.                 *)
(*                                                                         *)
(* The peer's messages are cut into pieces, and TCP into segments of whole *)
(* pieces: a head and a chunk size come in two pieces each, bodies and     *)
(* chunk data in two, so that a segment may end inside any of them.  The   *)
(* last piece of a body is a single byte, since HttpContext::Parse stops   *)
(* at a single byte; HttpServer::OnRecv parses a buffer of its own, so     *)
(* what is left of it is gone.                                             *)
(*                                                                         *)
(* One iteration of the loop of HttpContext::Parse is one action.  An      *)
(* iteration that changes nothing is no step: the network thread spins.    *)
(* What the parser makes of bytes it takes for something else depends on   *)
(* their values, and SwallowNext does anything it may.                     *)
(*                                                                         *)
(* Left out: header fields, responses, heads above 64 KB and sizes above   *)
(* 1 MB, and everything HttpContext sends.                                 *)
(***************************************************************************)
EXTENDS Naturals, Sequences, SequencesExt

CONSTANTS
  MaxMessages,  \* bound on the messages the peer sends
  MaxAgain,     \* bound on what is delivered of parts of one piece
  None          \* "no request yet"

ASSUME HttpBoundsAssumption == MaxMessages \in Nat /\ MaxAgain \in Nat

(* What a message is sent as: a GET, Content-Length, chunked, neither      *)
(* (a body until the end of the connection), or an unparsable length.      *)
PartsOf ==
  [ plain   |-> <<"head1", "head2">>,
    sized   |-> <<"head1", "head2", "body", "byte">>,
    chunked |-> <<"head1", "head2", "size1", "size2", "data1", "data2", "zero", "empty">>,
    stream  |-> <<"head1", "head2", "flow1", "flow2">>,
    bad     |-> <<"head1", "head2", "body", "byte">> ]

Kinds == DOMAIN PartsOf

(* What may be delivered: the body of a message, a body short of its last  *)
(* byte with one of another message in its place, or bytes of others.      *)
Bodies == {<<>>, <<"body", "byte">>, <<"data1", "data2">>, <<"flow1", "flow2">>,
           <<"body", "other">>, <<"other">>}

VARIABLES
  messages,     \* the kinds of the messages the peer sends, in order
  wire,         \* pieces not received yet
  buf,          \* the MsgBuffer of the segment in hand
  parsing,      \* the network thread is inside HttpContext::Parse
  state_,       \* HttpParserState
  is_chunked_, is_stream_,
  req_,         \* the message the request was parsed from, and if of its whole head
  chunk_,       \* body or chunk collected so far
  requests,     \* what SignalOnRequest has delivered
  again,        \* and what of bytes behind the message in hand
  lost          \* messages whose last byte was left behind

vars == <<messages, wire, buf, parsing, state_, is_chunked_, is_stream_, req_,
          chunk_, requests, again, lost>>

ParserStates ==
  {"kExpectHeaders", "kExpectNormalBody", "kExpectStreamBody",
   "kExpectHttpComplete", "kExpectChunkLen", "kExpectChunkBody",
   "kExpectChunkComplete", "kExpectLastEmptyChunk", "kExpectError"}

Parts == UNION {ToSet(PartsOf[k]) : k \in Kinds}
Pieces == [msg : 1..MaxMessages, part : Parts]

Heads == [msg : 1..MaxMessages, whole : BOOLEAN]
Requests == [req : Heads, chunk : Bodies]

(* Between two iterations the parser holds a body where it has just        *)
(* completed one, a part of a body where it expects the rest, and nothing  *)
(* where it expects a line: no part of a message outlives it.              *)
TypeOK ==
  /\ messages \in BoundedSeq(Kinds, MaxMessages)
  /\ wire \in Seq(Pieces)
  /\ buf \in Seq(Pieces)
  /\ parsing \in BOOLEAN
  /\ state_ \in ParserStates
  /\ is_chunked_ \in BOOLEAN
  /\ is_stream_ \in BOOLEAN
  /\ req_ \in Heads \cup {None}
  /\ chunk_ \in CASE state_ = "kExpectNormalBody" -> {<<>>, <<"body">>}
                  [] state_ = "kExpectChunkBody" -> {<<>>, <<"data1">>, <<"other">>}
                  [] state_ = "kExpectStreamBody" -> {<<>>, <<"flow1">>, <<"other">>}
                  [] state_ \in {"kExpectHttpComplete", "kExpectChunkComplete"} -> Bodies
                  [] OTHER -> {<<>>}
  /\ requests \in Seq(Requests)
  /\ again \in Seq(Requests)
  /\ lost \subseteq DOMAIN messages

Init ==
  /\ messages \in BoundedSeq(Kinds, MaxMessages)
  /\ wire = FlattenSeq([i \in DOMAIN messages |->
               [j \in DOMAIN PartsOf[messages[i]] |->
                  [msg |-> i, part |-> PartsOf[messages[i]][j]]]])
  /\ buf = <<>>
  /\ parsing = FALSE
  /\ state_ = "kExpectHeaders"
  /\ is_chunked_ = FALSE /\ is_stream_ = FALSE
  /\ req_ = None
  /\ chunk_ = <<>>
  /\ requests = <<>> /\ again = <<>>
  /\ lost = {}

-----------------------------------------------------------------------------
(* The state an iteration starts in: Parse first clears what a completed   *)
(* message or chunk left behind.                                           *)

Completed == state_ \in {"kExpectHttpComplete", "kExpectChunkComplete"}

(* A slip to guard against: the parser starts over, the old body stays.    *)
BodyBeforeUncleared == chunk_

(* chunk_ after ClearForNextHttp or ClearForNextChunk.                     *)
BodyBefore == IF Completed THEN <<>> ELSE chunk_

(* state_ after ClearForNextHttp or ClearForNextChunk; the flags is_chunked_ *)
(* and is_stream_ are never cleared.                                       *)
Expecting ==
  CASE state_ = "kExpectHttpComplete" -> "kExpectHeaders"
    [] state_ = "kExpectChunkComplete" /\ is_chunked_ -> "kExpectChunkLen"
    [] state_ = "kExpectChunkComplete" /\ ~is_chunked_ /\ is_stream_ -> "kExpectStreamBody"
    [] OTHER -> state_

(* Less than two bytes: the loop is over.                                  *)
Drained == buf = <<>> \/ (Len(buf) = 1 /\ buf[1].part = "byte")

Iterating(expected) ==
  /\ parsing
  /\ ~Drained
  /\ Expecting = expected

(* The pieces at the front of the buffer are the given parts of message m. *)
Begins(m, parts) ==
  /\ Len(buf) >= Len(parts)
  /\ \A i \in DOMAIN parts : buf[i] = [msg |-> m, part |-> parts[i]]

Consume(n) == buf' = SubSeq(buf, n + 1, Len(buf))

(* A slip to guard against: the trailing CRLF of a chunk cut off any body. *)
DeliverShortened(req, body) ==
  requests' = Append(requests, [req |-> req, chunk |-> SubSeq(body, 1, Len(body) - 1)])

(* SignalOnRequest, which a complete message or chunk raises.              *)
Deliver(req, body) == requests' = Append(requests, [req |-> req, chunk |-> body])

-----------------------------------------------------------------------------

(* A segment arrives: OnRecv fills a buffer of its own and calls Parse.    *)
OnRecv ==
  /\ ~parsing
  /\ \E n \in 1..Len(wire) :
       /\ buf' = SubSeq(wire, 1, n)
       /\ wire' = SubSeq(wire, n + 1, Len(wire))
  /\ parsing' = TRUE
  /\ UNCHANGED <<messages, state_, is_chunked_, is_stream_, req_, chunk_,
                 requests, again, lost>>

(* The loop ends; a byte that is left goes with the buffer, and the body   *)
(* in hand goes without it.                                                *)
Return ==
  /\ parsing
  /\ Drained
  /\ parsing' = FALSE
  /\ buf' = <<>>
  /\ lost' = IF buf # <<>> /\ state_ = "kExpectNormalBody" THEN lost \cup {req_.msg} ELSE lost
  /\ UNCHANGED <<messages, wire, state_, is_chunked_, is_stream_, req_, chunk_,
                 requests, again>>

(* The head in front has lost its first byte to the body before it.        *)
Beheaded == chunk_ = <<"body", "other">>

(* A complete head: ParseHeaders decides how the body comes.  A bad head   *)
(* is an error, for which HttpContext::Parse closes the connection.  A GET *)
(* without its first byte is no GET, and comes with a body until the end   *)
(* of the connection.                                                      *)
ParseHeaders ==
  /\ Iterating("kExpectHeaders")
  /\ \E m \in DOMAIN messages :
       /\ Begins(m, <<"head1", "head2">>)
       /\ req_' = [msg |-> m, whole |-> ~Beheaded]
       /\ LET streams == messages[m] = "stream" \/ (messages[m] = "plain" /\ Beheaded)
          IN  /\ state_' = CASE streams -> "kExpectStreamBody"
                             [] messages[m] = "plain" /\ ~streams -> "kExpectHttpComplete"
                             [] messages[m] = "sized" -> "kExpectNormalBody"
                             [] messages[m] = "chunked" -> "kExpectChunkLen"
                             [] messages[m] = "bad" -> "kExpectError"
              /\ is_chunked_' = (is_chunked_ \/ messages[m] = "chunked")
              /\ is_stream_' = (is_stream_ \/ streams)
       /\ IF state_' = "kExpectHttpComplete" THEN Deliver(req_', BodyBefore)
          ELSE UNCHANGED requests
  /\ Consume(2)
  /\ chunk_' = BodyBefore
  /\ UNCHANGED <<messages, wire, parsing, again, lost>>

(* Collect what the buffer has of the body in progress, and deliver it     *)
(* when it is whole.  ParseNormalBody, ParseChunk and ParseStream.         *)
Collect(expected, body, complete) ==
  /\ Iterating(expected)
  /\ \E n \in 1..Len(body) :
       LET upto == Len(BodyBefore) + n
       IN  /\ upto <= Len(body)
           /\ Begins(req_.msg, SubSeq(body, Len(BodyBefore) + 1, upto))
           /\ upto = Len(body) \/ n = Len(buf)
           /\ Consume(n)
           /\ chunk_' = SubSeq(body, 1, upto)
           /\ IF upto = Len(body)
              THEN state_' = complete /\ Deliver(req_, body)
              ELSE state_' = expected /\ UNCHANGED requests
  /\ UNCHANGED <<messages, wire, parsing, is_chunked_, is_stream_, req_, again, lost>>

(* The byte a body is short of is the first one of the next head.          *)
CompleteByNext ==
  /\ Iterating("kExpectNormalBody")
  /\ chunk_ = <<"body">> /\ buf[1].part = "head1"
  /\ chunk_' = <<"body", "other">>
  /\ state_' = "kExpectHttpComplete"
  /\ Deliver(req_, chunk_')
  /\ UNCHANGED <<messages, wire, buf, parsing, is_chunked_, is_stream_, req_, again, lost>>

ParseNormalBody ==
  \/ Collect("kExpectNormalBody", <<"body", "byte">>, "kExpectHttpComplete")
  \/ CompleteByNext

ParseChunk == Collect("kExpectChunkBody", <<"data1", "data2">>, "kExpectChunkComplete")
ParseStream == Collect("kExpectStreamBody", <<"flow1", "flow2">>, "kExpectChunkComplete")

(* A slip to guard against: the size zero is no size.                      *)
ParseChunkLenNonZero ==
  /\ Iterating("kExpectChunkLen")
  /\ Begins(req_.msg, <<"size1", "size2">>)
  /\ Consume(2)
  /\ state_' = "kExpectChunkBody"
  /\ chunk_' = BodyBefore
  /\ UNCHANGED <<messages, wire, parsing, is_chunked_, is_stream_, req_,
                 requests, again, lost>>

(* A chunk size, or the size zero that announces the end.                  *)
ParseChunkLen ==
  /\ Iterating("kExpectChunkLen")
  /\ \/ /\ Begins(req_.msg, <<"size1", "size2">>)
        /\ Consume(2)
        /\ state_' = "kExpectChunkBody"
     \/ /\ Begins(req_.msg, <<"zero">>)
        /\ Consume(1)
        /\ state_' = "kExpectLastEmptyChunk"
  /\ chunk_' = BodyBefore
  /\ UNCHANGED <<messages, wire, parsing, is_chunked_, is_stream_, req_,
                 requests, again, lost>>

(* A slip to guard against: the last empty chunk is nobody's business.     *)
ParseLastEmptyChunkSilently ==
  /\ Iterating("kExpectLastEmptyChunk")
  /\ Begins(req_.msg, <<"empty">>)
  /\ Consume(1)
  /\ chunk_' = <<>>
  /\ state_' = "kExpectChunkComplete"
  /\ UNCHANGED <<messages, wire, parsing, is_chunked_, is_stream_, req_,
                 requests, again, lost>>

(* The empty chunk that ends the message, delivered without data.          *)
ParseLastEmptyChunk ==
  /\ Iterating("kExpectLastEmptyChunk")
  /\ Begins(req_.msg, <<"empty">>)
  /\ Consume(1)
  /\ chunk_' = <<>>
  /\ state_' = "kExpectChunkComplete"
  /\ Deliver(req_, <<>>)
  /\ UNCHANGED <<messages, wire, parsing, is_chunked_, is_stream_, req_, again, lost>>

(* What is behind a chunked message or a stream is parsed as more of it:   *)
(* is_chunked_ and is_stream_ say what comes next.                         *)
Swallowing ==
  /\ ~Drained
  /\ Expecting \in {"kExpectChunkLen", "kExpectChunkBody", "kExpectLastEmptyChunk",
                   "kExpectStreamBody"}
  /\ buf[1].msg # req_.msg

(* A line may end inside the piece in front, and a chunk too.              *)
ConsumeSome == \E n \in 0..Len(buf) : (n > 0 \/ Len(again) < MaxAgain) /\ Consume(n)

(* A line is a size, zero if it does not begin with a digit, and the line  *)
(* behind that the end of the message once more; more than 32 bytes        *)
(* without a line are an error; a body goes on, or is complete and         *)
(* delivered.                                                              *)
SwallowNext ==
  /\ parsing
  /\ Swallowing
  /\ \/ /\ Expecting = "kExpectChunkLen"
        /\ \/ ConsumeSome /\ state_' \in {"kExpectChunkBody", "kExpectLastEmptyChunk"}
           \/ Consume(Len(buf)) /\ state_' = "kExpectError"
        /\ chunk_' = <<>> /\ UNCHANGED again
     \/ /\ Expecting = "kExpectLastEmptyChunk"
        /\ ConsumeSome /\ state_' = "kExpectChunkComplete"
        /\ chunk_' = <<>> /\ again' = Append(again, [req |-> req_, chunk |-> <<>>])
     \/ /\ Expecting \in {"kExpectChunkBody", "kExpectStreamBody"}
        /\ chunk_' = <<"other">>
        /\ \/ Consume(Len(buf)) /\ state_' = Expecting /\ UNCHANGED again
           \/ /\ ConsumeSome /\ state_' = "kExpectChunkComplete"
              /\ again' = Append(again, [req |-> req_, chunk |-> <<"other">>])
  /\ UNCHANGED <<messages, wire, parsing, is_chunked_, is_stream_, req_, requests, lost>>

Parse ==
  \/ ParseHeaders
  \/ ParseNormalBody
  \/ ParseStream
  \/ ParseChunkLen
  \/ ParseChunk
  \/ ParseLastEmptyChunk
  \/ SwallowNext
  \/ Return

Next == OnRecv \/ Parse

(* The network thread runs the loop.                                       *)
Fairness == WF_vars(Parse)

Safety == Init /\ [][Next]_vars
Spec == Safety /\ Fairness

-----------------------------------------------------------------------------
(* Properties.                                                             *)

(* What a message is delivered as.                                         *)
Deliveries(m) ==
  CASE messages[m] = "plain" -> << [msg |-> m, chunk |-> <<>>] >>
    [] messages[m] = "sized" -> << [msg |-> m, chunk |-> <<"body", "byte">>] >>
    [] messages[m] = "chunked" -> << [msg |-> m, chunk |-> <<"data1", "data2">>],
                                     [msg |-> m, chunk |-> <<>>] >>
    [] messages[m] = "stream" -> << [msg |-> m, chunk |-> <<"flow1", "flow2">>] >>
    [] messages[m] = "bad" -> <<>>

Promised == FlattenSeq([m \in DOMAIN messages |-> Deliveries(m)])

(* What becomes of a delivery where a byte was left behind: the next       *)
(* message's first byte is the last of the body, and missing there.        *)
WithLost(d) == [req |-> [msg |-> d.msg, whole |-> d.msg - 1 \notin lost],
                chunk |-> IF d.msg \in lost THEN <<"body", "other">> ELSE d.chunk]

(* A stream without a beginning: a GET without its first byte.             *)
Mistaken(m) == messages[m] = "plain" /\ m - 1 \in lost
Swallows(m) == messages[m] \in {"chunked", "stream"} \/ Mistaken(m)

(* However TCP cuts the stream, the application sees the peer's requests   *)
(* in order, each once, each with its own body and nothing of another's,   *)
(* but for a byte left behind: what is collected before a cut is kept,     *)
(* what is complete is cleared.  Behind a chunked message or a stream it   *)
(* sees none of the requests: whatever else is delivered is that request   *)
(* again, with bytes of the others.  Parse says that it makes ready for    *)
(* the next message when one is complete (http_parser.h:204, and           *)
(* README.md:311 promises persistent connections), and clears is_chunked_  *)
(* and is_stream_ never.                                                   *)
RequestsInOrder ==
  /\ Len(requests) <= Len(Promised)
  /\ \A i \in DOMAIN requests :
       /\ requests[i] = WithLost(Promised[i])
       /\ \A k \in 1..(Promised[i].msg - 1) : ~Swallows(k)
  /\ again # <<>> => Swallows(req_.msg) /\ \A i \in DOMAIN again : again[i].req = req_

(* Nothing else is swallowed: a parser that has read everything and has    *)
(* met no error has delivered all of every message, but for one behind     *)
(* those, a GET that was mistaken for a stream, and a last message whose   *)
(* last byte was left behind (HttpContext::Parse, which stops at a single  *)
(* byte).                                                                  *)
NothingDropped ==
  wire = <<>> /\ ~parsing /\ state_ # "kExpectError" =>
    \A m \in DOMAIN messages :
      \/ \A j \in DOMAIN Deliveries(m) :
           \E i \in DOMAIN requests : requests[i] = WithLost(Deliveries(m)[j])
      \/ \E k \in 1..(m - 1) : Swallows(k)
      \/ Mistaken(m)
      \/ m = Len(messages) /\ m \in lost

(* The line in hand is cut by the end of the segment, or the parser is in  *)
(* its error state: the buffer is not consumed, and the loop goes on.      *)
Spinning ==
  /\ ~Drained
  /\ \/ Expecting = "kExpectError"
     \/ Expecting = "kExpectHeaders" /\ Len(buf) = 1
     \/ Expecting = "kExpectChunkLen" /\ Len(buf) = 1 /\ buf[1].part = "size1"

(* Every other segment is parsed to its end, if it does not come behind a  *)
(* chunked message or a stream: the network thread leaves the loop and     *)
(* serves the other connections.                                           *)
SegmentIsParsedUnlessCut == parsing ~> ~parsing \/ Spinning \/ Swallowing

(* http_parser.h: Parse may be called again with more data (kExpectContinue *)
(* asks for it), so every segment is parsed and the thread returns.        *)
SegmentIsParsed == parsing ~> ~parsing

=============================================================================
