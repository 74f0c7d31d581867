# Verification of libmedia_transfer_protocol

TLA+ models of the parts of `libmedia_transfer_protocol` whose correctness depends on the order of
events: connections and their clean-up, the DTLS endpoint and its timers, the HTTP parser under TCP
segmentation, the RTSP client's dialogue, the HLS window under concurrent readers, the GB28181 session between two threads, the data
channels between both ends of an SCTP association, the feedback loop of congestion control over a
network that loses and reorders, and the way out of an RTP packet through the pacer and the
history of packets to send again. TLC checks each model on a small instance; TLAPS proves the most
important results for every instance.

## The system and its parts

The library is a toolbox of media protocols. Three kinds of threads meet in it: one *network
thread* (an `rtc::Thread`) that runs every socket event and every task posted to it, *application
and work threads*, and the *task queues* of single objects (`Dtls::dtls_queue_`). Components talk by
sigslot signals, which are plain synchronous calls, and by `PostTask`.

| Part | State it keeps | Operations | What makes it hard | What makes it correct |
|---|---|---|---|---|
| `libnetwork` TCP server, `Connection` | map socket → connection, `available_write`, the thread's task queue | accept, read, write, close events; `AsyncSend`, `AyncSend`, `CloseSession`, `Close` | tasks capture raw pointers, the clean-up is a task itself, two calls pass `available_write` by | map, application and heap agree on which connections exist; one clean-up per close event; no use after it; no guarded send behind a close |
| `libnetwork` UDP server | one socket | forward | – | – |
| `libhttp` | parser state, partial head/body/chunk | segments in, requests out; posts of responses | segment boundaries anywhere; several messages per segment | each request once, in order, with its own body; the loop ends |
| `librtsp` client | tracks to set up, `cseq_`, rest of the last read | OPTIONS … PLAY, interleaved RTP | partial reads, authorization rounds, one handler for several replies | the dialogue reaches PLAY; frames whose header is not cut are neither lost nor shifted |
| `librtsp` server | request buffer of each session | requests | – (the call that would send a response is commented out) | – |
| `libsip` | registrations | single messages | – | – |
| `libgb28181` | rest of the last read, receive stream | length-prefixed RTP over TCP | a read may end anywhere; two threads share one pointer | the stream gets every packet of its source, once, in order |
| `libhls` | window of fragments, free list, playlist | packets in, playlists and fragments out | recycled objects, three lock sections per append, readers on other threads | one owner per fragment; the playlist can be served |
| `libmpeg`, `libflv`, `muxer` | encoder counters | encode, decode | – | byte layouts |
| `librtc` DTLS | state, role, fingerprint, SSL object, armed timers | `Run`, `OnRecv`, `SendApplicationData`, `SetRemoteFingerprint`, `OnTimer` | fingerprint and handshake in either order, timers never cancelled, restarts | keys of the handshake in force; lost flights are sent again |
| `sctp` SCTP transport (client) | status of each stream, partial messages both ways | `Start`, `OpenStream`, `SendData`, `ResetStream`; callbacks of usrsctp | callbacks are posted, so the application acts in between; usrsctp takes messages in part and one reset at a time | messages are whole, once, in order; every closing completes; a blocked sender is woken |
| `librtc` SCTP association (server) | state, stream counts, reassembly buffer | notifications and data of usrsctp, sends, closes | deferred stream increase, partial messages | the same, from the other end |
| `librtcp` TWCC, `rtp` transport feedback | what was received; packets under way | receive, report, parse, match | 16-bit wrap, a variable-length format, lost, late and repeated messages, a wrapping reference time | a reception is reported once and only if it happened; receive times keep one offset |
| `pacing` pacer | a queue for each stream, debts, one timer | enqueue, pause, rates, process | delayed tasks cannot be cancelled; priorities change as packets leave | a priority queue; no sleep through the next packet |
| `rtp_rtcp` packet history, sender | a deque of packets with their state | store, mark pending, sent, cull, acknowledge | the RTCP thread, the application and the pacer on one deque | a packet asked for again is queued once, and sent once a round trip |
| `librtc` server, STUN, SDP, SRTP | – | classify and forward, parse | – | – |
| `librtcp` packet arrival map | ring buffer | add, erase | resize of the ring | the ring is a partial function |
| the rest of `rtp_rtcp`, `congestion_controller`, `remote_bitrate_estimator`, receive path | – | – | adapted copies of WebRTC | – |

`PROJECT.json` lists every part with its files, and under `hazards` what in this code is hard to
test, at its line.

## What is modelled

### TcpServer, ConnLifecycle

`TcpServer` is `tcp_server.cpp` with the `Connection`s of `connection.cpp`. One action is one callback
or one posted task of the network thread, run to its end, signals included: `ConnOnClose` is
`Connection::OnClose` *and* `TcpServer::OnSessionClose` which it calls. `tasks` is the thread's queue.
`AsyncSend` has two forms. Called from a callback of the network thread nothing can run between its
check and its post (`AsyncSend`); from another thread anything can (`AppCheck`, then `AppPost`). `AyncSend` (the code's spelling)
sends at once, on the caller's thread and without a look at `available_write`; `TcpServer::Close(Socket*)` (`CloseSocket`) closes the
socket under a connection whose flag stays up: such a socket is `cut`, and `direct` counts the sends of `AyncSend`. Using a
freed connection is undefined and a choice: the process dies (`crashed`) or the stale
flag still reads false. `told` is what the application has heard; the application calls nothing on
a connection after its farewell.

`ConnLifecycle` is what the server promises of a connection: it is announced once, data arrives and
is delivered only between announcement and farewell, and the farewell comes once.

External: `rtc::Thread` is first in, first out; `rtc::Socket` raises at most one close event,
and nothing after it or after a local `Close`.

### Dtls

`dtls.cpp` with OpenSSL as its environment: `ssl`, `peer`, `closed`, `flight` and `retries` are what the code
can observe of the SSL object. `OnRecv` is split by what the datagram makes OpenSSL report: progress,
the end of the handshake, an alert or error, anything else. `CheckStatus`, `ProcessHandshake`, `Reset`
and `SetTimeout` are operators the handlers are made of, so that each handler is still one action.
`OnTimer` runs on `dtls_queue_` and is two steps, its check of `handshake_done_` and the rest;
`timers` counts those armed. `SetTimeout`'s branch for 30 s and more is dead, because `OnSslDtlsTimer` caps
the timeout at 4 s. A fingerprint is identified with the certificate it is of, and `keys` say which certificate they came with and which one a fingerprint had asked for when they were taken.

### HttpParser

`HttpServer::OnRecv`, `HttpContext::Parse` and `HttpParser`. A message is a sequence of pieces, a
segment any number of pieces; heads and chunk sizes come in two pieces, so that a segment can end
inside them. One iteration of `HttpContext::Parse` is one action; an iteration that changes nothing
(the code spins) is a stutter. What the code gets wrong the model goes on with. `HttpContext::Parse` stops at a single byte, and `HttpServer::OnRecv` parses a buffer of its
own, so that byte is gone: `lost` records whose it was, the first byte of the next message completes the body in its place (`CompleteByNext`), and
that message's head is read without it (`Beheaded`), which makes a GET look like a stream. `is_chunked_` and `is_stream_` are never cleared, so
what comes behind a chunked message or a stream is read as more of it: `SwallowNext` does whatever the parser may with bytes whose values the model does not
know, and `again` is what is delivered of them (`MaxAgain` bounds deliveries of parts of one piece). Bodies of streams are delivered by the 64 KB; the model has one such block, and the
rest of a stream that ends earlier is never delivered and not modelled.

### HlsWindow, HlsStream

`HLSMuxer::OnPacket` on its thread, in the steps its lock sections make: cut and append
(`AppendFragment`), write the playlist (`Shrink`), evict (`UpdatePlayList`), take an idle object
(`StartFragment`). Readers ask for a fragment by name; `GetFragmentByName` returns a reference into
the vector under the lock, and `GetFragment` copies it without. A player keeps what it was given: an object evicted meanwhile is recycled all the same,
and refilled under it. Objects are numbers, and `capacity`
says when the vector's storage moves. `HlsStream` is the promise of a live stream: numbers without gaps,
playlists of the newest fragments that only move forward, and withdrawal only of what the playlist
has left behind.

### Gb28181Session, PacketStream

`gb28181_session.cpp`: `OnRead` on the network thread and the tasks it posts to the work thread. A byte
is its position in the stream, a packet where it begins, how long it is and of which source.
One iteration of the loop of `OnRead` is one action (`ParseFrame`), because the work thread may run between any two:
the loop tests `video_receive_stream_`, which `RunCreate` sets. An iteration reads that pointer once and
posts at most two tasks, and what the work thread does in between takes from the other end of the queue
and tests the pointer again, so splitting the iteration further would reach no new outcome. `Signed` is the
conversion the prefix goes through: a length of `Half` (32768) or more is negative, and the parser that reads it is `misled`: it goes on, reading lengths where none
are, and does anything it may (`ParseAnything`), to making packets of what it finds and to a crash. `RunPacket` includes the controller, which hands a packet to
the sink of its source or drops it. `PacketStream` is the promise to the player: of the first source that
sends video every packet, once and in order, and of no other.

External: TCP delivers the camera's bytes in order, any number at a time, and `rtc::Thread` runs the tasks
in the order posted.

### RtspSession

`librtsp/rtsp_session.cpp` and a camera. The client keeps no state of the dialogue but the tracks left and the
number of its last request: each reply, recognised by its third line, leads to the next request. `HandlerSession`
answers for SETUP and for PLAY, and `cseq_ < 7` is what stops it from asking PLAY for ever: with one round of
authorization and two tracks PLAY is request 7, the last one it can be. One iteration of the loop of `OnRead` is one
action. A reply that is read takes with it everything read behind it (`Discard`): a frame there is lost. A frame
without all of its packet waits for the next read (`KeepFrame`); one without all of its header is measured with
bytes that were never read (`TearHeader`), and the loop goes on behind them: from there, as from bytes that `recv_buffer_size_`, never initialised, says were kept, it may stand anywhere
(`Astray`), pass over packets (`passed`), keep what is no beginning of a frame, signal a packet nobody sent (`stray`), never return or crash (`crashed`). Zeros may also do no harm (`PassOver`).
`torn` says that any of this happened. `signalled` is the video handed to the application and `dropped` the frames read behind a reply. The tracks of a description have
names of their own (`RtspAssumption`), and there are one or two, as many as the client has channels for.

### SctpStack, UsrsctpTransport, SctpAssociation, DataChannels, MessageChannels

`UsrsctpTransport` is `sctp/usrsctp_transport.cpp`, the client; `SctpAssociation` is
`librtc/sctp_association.cpp`, the server; `DataChannels` composes them over `SctpStack`, which is usrsctp as the two
files use it (external): an ordered, reliable association in which an end may disappear, a stack that
takes as many fragments of a message as it has room for, and stream resets and additions as requests
of which it allows one at a time and which the other end may deny. A message is a number of fragments. One from the server that reaches
`ReceiveLimit` (`kSctpSendBufferSize`, 256 KB) is handed out in pieces of that size. The client also discards a partial message when a fragment of another
stream comes; the stack delivers messages whole, as the comment there says, so no run takes that branch.

The client's callbacks are posted as tasks to the network thread (`tasks`), so the application may call between what
usrsctp did and what the transport learns of it. The flags of `StreamStatus` are sets of streams. The server
runs usrsctp's callbacks at once, since it enters usrsctp itself; only the loss of the association, found by usrsctp's timer thread, is posted.
`MessageChannels` is what the two ends promise: on each stream every message is handed over whole,
once and in the order sent, and an identifier is free for another channel only when all that was sent
has been handed over.

### TwccFci, TwccContext, TransportFeedbackAdapter, FeedbackLoop, PacketFates

`TwccFci` is the feedback message as bytes: `FCI_TWCC::create` of `librtcp` writes it and
`rtcp::TransportFeedback` of `rtp_rtcp` reads it, two implementations that have to agree. A byte has `ByteBits` bits and
every width follows from it as it does in the code. A distance of arrivals that an `int16_t` of quarter milliseconds cannot say is cast all the same (`Fits`). `LinuxLayout` selects the `#if __linux__` branch of the bit-fields.
`TwccContext` collects arrivals; it has no timer, only a packet makes a message. `TransportFeedbackAdapter` unwraps numbers, matches
messages with its history and turns the receiver's times into its own. `FeedbackLoop` composes them with
`PacketRouter`'s numbering and the task queue of `RtpTransportControllerSend`, over a network that loses, delays,
reorders and duplicates packets and messages. A controller used before `OnNetworkOk(true)` made one is a null pointer (`crashed`). `PacketFates` is what the
controller is owed: a report of a reception is true, comes once, and is the last word about its packet.

### PriorityQueue, RoundRobinPacketQueue, PacingController, PacedSender, RtpPacketHistory, SendPath

`RoundRobinPacketQueue` and `PacingController` are operators on a record of the class's members.
`PacedSender` is `TaskQueuePacedSender`: tasks posted by other threads, delayed tasks that run late, and `ProcessPackets`
with a step for each turn of its loop, so that other threads run between two packets. The clock stands still while a task
of the pacer runs. `RtpPacketHistory` has one operator for each critical section of `lock_`. `SendPath` puts them together: the application's
thread hands over frames and switches sending on and off, the RTCP thread asks for packets again and acknowledges
them, the pacer's queue sends. RTX is off, as it is until an application sets it; one module sends and stores video and another sends audio, which alone has no bandwidth-estimator extension (`supports_bwe_extension_`) and is not asked for padding;
no probe runs and no caller ever sets a congestion window.
`PriorityQueue` is what the queue promises: no packet leaves before one of higher priority, nor before an earlier one of its stream and priority.

## What the runs check

| Run | Instance | Result |
|---|---|---|
| `tcp_server` | 2 connections, 1 thread, 1 byte per peer, 3 calls of all kinds | passes |
| `dtls` | 2 certificates, 2 runs, 3 datagrams, 2 retries | passes |
| `http` | 3 messages of 5 kinds, every segmentation, 1 delivery of parts of a swallowed piece | passes |
| `http_cut_message` | 1 message | a cut head or chunk size spins the network thread |
| `rtsp` | 1 or 2 tracks, 3 frames, 1 expired nonce, every segmentation | passes |
| `hls` | window 5, playlist 5 and 3, 9 fragments, 1 reader | passes |
| `gb28181` | 3 packets of 2 sources or neither, lengths 0, 1 and 3, of which 3 is negative, every segmentation | passes |
| `sctp` | 2 streams, messages of up to 2 fragments, 3 replies of 2 or 3 handed out by 2, send buffers of 1 and 3, 2 opens, 1 failure, 4 calls | passes |
| `sctp_unasked_reset` | same | a stream is marked as reset that no request names |
| `feedback` | 4 packets across the wrap, gaps of 4 and 40, 1 duplicate, 2 tasks, 3-bit bytes | passes |
| `feedback_linux_layout` | same | packets read as received, but without their times |
| `send_path` | 3 calls of other threads, 5 ticks, tasks 1 tick late | passes |

The bounds. *TCP*: three calls are a send, a close and a send around one clean-up, the longest
chain one connection can be part of; two connections let another's tasks stand in between. *DTLS*: two
runs are a handshake and a restart in the same or the other role; three datagrams are progress, end
and alert; two retries make a first and a last retransmission. *HTTP*: three messages put every
kind before and after every other, with one more to see what was left behind or swallowed. *HLS*: the window
is the code's own; nine fragments fill it, recycle two objects and evict a recycled object's neighbours.
Names come from a clock that need not advance, so that they may collide. *GB28181*: lengths are scaled, 3
standing for 32768, the first that is read as negative; 0 and 1 make packets that end where the loop's test for more than two bytes does. Three packets
are two of one source around, or behind, one of another, all parsed before the first request is answered.
*RTSP*: two tracks are what the code's channels allow; three frames are one kept, one whole and one behind it, or one cut and two that it may shift. Lines of replies are
never cut, headers of frames are. *SCTP*: a send buffer shorter than a message makes every long message partial; two opens on two streams reuse an identifier;
one failure (of a connect, a request, the association or an end) and the calls of the server's application come at any point, four calls of both applications in all,
so that three replies may stand in one another's way; replies of two and three fragments at a limit of two end at the limit and behind it. The handshake
grants one of the two streams asked for, so that one has to be added. *Feedback*: eight sequence numbers, four of them
used from 5 to 8, wrap once; bytes of three bits make runs, one- and two-bit vectors and both sizes of delta
occur within four packets; the start is just before the reference time wraps. Gaps of 4 are half a unit of the reference time; one of 40, for which the clock has room once, is
more than the largest delta (31), as a pause of 8.19 s is in the code. *Send path*: eight sequence numbers from 6 wrap after two packets, the history keeps two and
at most four, so that three calls fill, cull, acknowledge and wrap it; a tick of lateness lets two timers be due at once.

Deadlock is not checked: every bounded instance ends, and a server without input rightly waits.

Three runs fail, each showing a place where the code does other than a comment or a document says;
`findings` in `PROJECT.json` quotes the lines. Where one slip spreads into much of what a component does, a passing property says
exactly what still holds and what does not (below, "Where the code and its comments part"). Every passing property is paired with a slip of the
code that breaks it: the definitions marked as slips to guard against.

## Fairness

Safety and refinement need none. `PeerCloseIsCleanedUp` assumes that the network thread goes on
running its tasks (`rtc::Thread::Run` loops until it is stopped). `LostFlightIsRetransmitted` assumes
that `dtls_queue_` runs tasks whose delay is over. `SegmentIsParsedUnlessCut` assumes that the
network thread goes on executing the loop it is in. `FrameIsDelivered` assumes that TCP goes on delivering what
the camera sent and that both threads go on running. `DialogueReachesPlay` assumes that the camera answers, TCP delivers and the
network thread runs. `ClosingCompletes` assumes that packets arrive, both stacks go on working and the network thread runs what is
posted to it; neither application has to act. Nothing is assumed of peers, of the application or of
OpenSSL. Exceptions are named in the formulas: a crashed process, retries used up, a cut line
or reply, bytes parsed that are none (`torn`), what comes behind a chunked message or a stream (`Swallowing`), a packet of `Half` bytes or more, an expired nonce; for `ClosingCompletes` a failure, a reset the server's stack refused (`unanswered`) and a stream that was marked and never asked for (`Unasked`).

## What is proved

Eight modules hold the proofs, one for each component; every theorem is about the specification `Spec` whose instances the runs check,
and the assumptions it names are the `ASSUME`s of the models, which TLC evaluates in every run. `TypeOK` of `TcpServer`, `Dtls`,
`HlsWindow`, `Gb28181Session` and `DataChannels`, and `StreamIsKept`, are proved and therefore not repeated in the runs; all else that is proved is also
a property of a run. Induction over the length of a sequence or the size of a set is led by its least counterexample
(`LeastOf`, from the well-foundedness of the numbers).

`TcpServer_proofs`, for every set of connections and threads and all bounds, from `ConnsAssumption` and
`BoundsAssumption`: `TypeOK`, `SessionsAreLive`, `OneDestroyPerClose`, `NetworkSendsNeverDangle`, `LateSendsPassTheFlagBy` (`GuardedSendsStopAtClose`),
and that the server implements `ConnLifecycle`. `OneDestroyPerClose` speaks of the queue as a set of
positions, so the induction needs to know how positions move when a task is posted or run
(`QueueFacts`, `DestroyByPosition`). That no network-thread send dangles is not inductive:
`IInv` adds that such a send stands *before* the destroy task of its connection, which holds because
`OnClose` clears `available_write` before it posts. A guarded send meets an open socket, or one that `TcpServer::Close` cut under its flag.

`Dtls_proofs`, for every set of certificates and all bounds: `TypeOK`, `KeysAreOfThisHandshake`,
`NoHandshakeLeftUnprocessed`, `RetransmissionStaysArmed` and `OutcomesFollowTheirHandshake` (`OutcomesCorrect`). `IInv` conjoins the invariants
with `SslIsConsistent`, which ties the SSL object to the state: a finished handshake has a peer and
no flight in the air, a freed SSL object has no flight, and a running endpoint has a role. The keys of a connected endpoint are of the certificate that the fingerprint asked for.

`HlsWindow_proofs`, for every set of readers, every `PlaylistLeast <= PlaylistLength <= WindowSize` and all bounds,
from `WindowAssumption`, `HlsBoundsAssumption` and `NoneAssumption`: `TypeOK`, `OneOwner`, `PlaylistIsServable`,
`SealedFragmentsStay` and that the window implements `HlsStream`. That the playlist can be served is
not inductive: an eviction keeps it true only because `Shrink` has run just before. `IInv` adds three
facts. `Numbered`: numbers run on through the window into the fragment in hand. `ListIsCurrent`: when
fragments may be evicted, the playlist names the newest ones. `ListIsBehind`: a playlist written
now would not begin before the last one. An eviction then leaves the last `WindowSize` fragments
(`EvictFacts`), which are not reset because no object has a second slot (`SurvivorsStay`), and all that
is listed is among them (`EvictionSparesList`). The code's lengths, 5 and 5, are the tight case.

`Gb28181Session_proofs`, for every set of sources, every set of lengths and any number of packets: `TypeOK`, `StreamIsKept`,
`ParserIsAligned` and that the session implements `PacketStream` until it is misled. Until a length of `Half` or more is read, `IInv` says that some number `n` of packets is
parsed: the parser stands behind packet `n` (`Cursor = After(n)`), the packets in the queue are among the first
`n`, in order and later than the last one received, every packet of the stream not yet received is in the
queue (`PostedInOrder`), and the stream is of the first source or the first task in the queue makes it so
(`StreamIsFirst`). The last conjunct is why no packet of the first source is ever dropped: no packet reaches the head of
the queue before the request that makes its stream.

`DataChannels_proofs`, for any number of streams, messages, fragments, failures and requests: `TypeCorrect`, `PartialStreamStays` (`PartialStreamKnown`) and
`ResetsFollowData` (`ResetAfterData`). `TypeOK` needs `OsFits`, that the streams the server has and wants stay below the limit. The two safety
results need `SInv`: as long as no reset was denied, `Closings` and `WireGood`. `Closings` says of every stream that it is marked closing
before a reset of it goes out, that what usrsctp was asked for is marked so, that the stream of a partial message is not among them, and that
no failed request is left; `WireGood` that behind a reset on the wire there is no data of its streams. A denial unmarks
streams whose reset is complete (`usrsctp_transport.cpp:1522`), which is why both are conditional.

`WaitingIsWoken` (`NoLostWakeup`) rests on `WInv`: while the association lives and no reset was denied, a client that waits has a threshold callback posted, or data on the
wire, or its acknowledgement coming back (`Wakes`). The stack refuses a message only when it has no room, and then some data or acknowledgement is out
(`RoomType`); taking the last of them posts the callback; and the callback itself either sends, which puts new data out, or finds no room, or leaves
nothing waiting. It cannot find the stream of the rest unknown, which is what `Closings` is for. `RepliesArriveWhole` (`RepliesAreWhole`) rests on `RInv`. `Flow` orders
all the data that is on its way to the application (the message the client puts together, the posted callbacks, the wire) by message and
fragment: every fragment but a first one has its predecessor there, and every one but a last one its successor, unless the server is gone and nothing comes after it.
What the client puts together is the end of some beginning of a message (`Sofar`): the part before it, if any, was handed out in pieces, the last of which ends where it begins
(`LastPiece`); and messages on the way have greater numbers than those handed out (`Numbered`, `Follows`). So the callback that completes a piece finds all that came before it. It holds after a denial, too.

`ChannelsRefinement` (`ImplementsChannels`) says that the two ends implement `MessageChannels` until a reset is denied. Its invariant `DInv` speaks of one `Line`: the
part of a message the server keeps before its end, and behind it the client's queue on the wire.

- `Conserved`, while the client exists: the data in the line is exactly the fragments of the messages that `SendData` accepted and the listener was not given, each once, except
  the rest of a message that waits for the stack (`Exact`); those of a stream are in order (`InOrder`) and those of a message stand together (`Apart`); the waiting rest is of the last
  message of its stream, and nothing may come behind that message's fragments but more of them (`RestIsLast`); and what the server keeps is the beginning of the next message of some
  stream, with its stream sequence number (`BufferBegins`). The last is why `OnUsrSctpReceiveSctpData` never takes a fragment of one message for a part of another, though it compares only the
  sequence number.
- `Flushing`, as long as no reset was denied: a stream whose outgoing reset was answered, posted or marked complete (`Ended`) has nothing left to hand over. When the reset comes to
  the head of the wire, no fragment of its streams is behind it (`WireGood`) or waits (`Closings`), and the server's buffer cannot hold the last fragment of a message
  (`FlushedAtReset`). A stream that is asked for is closed to the application, so that nothing is sent on it until it is forgotten.

A hypothesis of its own is `MaxFragments <= MaxMessage`: no message is longer than the server's buffer. The code sees to it on the other side: `SendData` refuses what is longer than
`max_message_size_` (`usrsctp_transport.cpp:773`), which `Start` sets to what the server announced. What follows a denial is excepted because it is false: with a third open TLC finds a
denial after which a stream whose reset is complete is asked for again, a channel opened under its identifier in between, and that channel forgotten with its first message under way.

`RtspSession_proofs`, for any tracks, frames, replies and expired nonces, from `RtspAssumption`: `PacketsAreSignalled`, `PlayIsLast`, and
that client and camera take turns (`OneAtATime`). `IInv` has its types, where what was read waits (`Buffers`), where the frames are (`Packets`),
and the dialogue. A loop that stands inside a frame is `torn`, and what it passes over it takes from the beginning of what is unread, so the order of the rest stands. `OneTurn`: of the request written, the reply on its way and the reply read at most one exists, and no status line stands in what is not
parsed while a request is out; so a reply is whole on the wire, and only the cut of a read can take it apart. `Dialogue`, as long as no reply was `cut`,
counts the tracks set up by what is left of `track_control_`: what is asked for next is the track after them, and PLAY is asked when none is left.
Packets are compared by the numbers of their frames: those signalled come before those not yet parsed, and together they are the camera's video but the frames dropped behind a reply and those passed over.

`HttpParser_proofs`, for any number of messages, from `HttpBoundsAssumption`: `TypeOK`, `RequestsInOrder` and `NothingDropped`. The stream and the promised requests are
concatenations, of which `FlattenSeqLays` says where each part lies. `IInv` is by position: what is not yet parsed is the rest of the stream (`Suffix`), what
is delivered is the beginning of what is promised (`Delivered`), and both positions follow from the message in hand and the state of the parser (`Progress`): between
two messages (`Between`), inside one at a known piece (`Inside`), at the end of a body that is short of its last byte (`Short`), behind one that swallows what follows (`Behind`), where all before
it is delivered and nothing but it again afterwards, or at an unparsable head (`Failed`).

`SendPath_proofs`, for any packets, sizes, rates, round-trip times, intervals, lateness and bounds, from the assumptions of `SendPath`, `PacedSender`, `PacingController` and
`RoundRobinPacketQueue`: `TypeOK`, `WakeupIsInTime`, that the pacer's queue implements `PriorityQueue`, and, under `[]Near`, `OneCopyWhileMarked` and `ResendsAreSpaced`.

- *The queue* (`QueueOK`). `Sorted`: each stream's packets are in order, and a packet that is alone stands beside empty streams. `Scheduled`: the map lists just the
  streams that have packets, each once, by the priority of its first packet and its size. `Counted`: the number, size and waiting time the class keeps are sums over the packets.
  `Arrived` and `Timed`: a packet that came later has a greater number and, whatever pauses were taken off it, no earlier time. The last two are what makes the subtraction of pauses
  sound. The sums are recursive folds; `SummingRemoves` shows that they may be taken apart at any element, and `SummingShifts` what a shift of all times does to them.
- *The wake-up* (`Waking`). Let N be the time the next packet may leave and H the hold-back window. An idle pacer has its timer before N + H and before the end of the silence after which
  it sends a keepalive + H. A process task that comes too early sets the timer to N; one that worked leaves only when N lies ahead. The statistics' task works but sets no timer, so
  inside its loop `WakesInStats` bounds the timer by every time the loop may still come to: its target, its own now, the end of silence, and the arrival of any audio that is
  queued, because audio that leads the queue leaves at once. Without audio N is never past the end of the silence. Paying debts when a task comes too early (`DrainUntil`) never brings N forward
  (`DrainUntilFacts`): what the debt gets smaller by is what the time of the last processing moved on.
- *The refinement*. Every step but `SendPending` only adds packets (`Pushed`). `SendPending` takes the one at the top, which by `Sorted` and `Scheduled` is of the highest priority there is and the first of
  its stream (`TopFacts`); orders are unique, so the abstract queue loses one packet and no other.
- *Retransmissions* (`MarksAreRight`, `SpacedResends`). History, pacer and NACKs name a packet by its sequence number, of which there are 2^16, and no constant keeps the
  packets in the pacer or in the history from being more than that. `Near` is what the two theorems assume of a run: what the history keeps is less than half a span behind the sequencer, and no copy of a packet
  is under way that has the number to be given next. (Without it both are false: a new packet takes the number of a copy that still waits. In the instance TLC checks, nine of ten states are `Near`,
  the others are where its eight numbers have come around.) The invariant is `Resending`. `Placed`: a packet's place in the history is how far its number is behind the
  sequencer's, holes counted, which is what `GetPacketIndex` computes; so a number names one packet and a look-up finds it. `OneCopy`: of every number at most one copy is in the posted
  tasks and the queue together. `Marks`: a packet whose copy is there is marked, and a marked one has its copy there, or the copy was refused while sending was off; then it stays marked. `Spaced`: the history knows the last time a packet was sent again, and a copy is under way only when a round trip has
  passed since. The last holds because `GetPacketAndMarkAsPending` compares the times and marks in one step, though the time is set by another one, in the pacer, which comes as late as it likes.
  A packet's last copy is forgotten (`resent`) when a new packet takes its number.

Only model-checked:

- the liveness properties, because fairness is out of the prover's reach;
- `FeedbackLoop`: `TypeOK`, `FeedbackIsUnderstood`, `ReceiveTimesAreReal` and `ImplementsFates`. They rest on what the coding of a message computes for every input, which is
  an induction over the data of two coders.

## Plan

Done: `TcpServer`, `Dtls`, `HttpParser`, `RtspSession`, `HlsWindow`, `Gb28181Session`, `DataChannels`, `FeedbackLoop`, `SendPath` with
their runs, and the proofs above. Possible next:

1. The safety results of `FeedbackLoop`, split so that what the coders compute for one message is all that remains for TLC.
2. `PacketArrivalMap` (`librtcp/packet_arrival_map.cpp`): the ring as a refinement of a partial function over a bounded window.
3. The sending half of `HttpContext`.

## Not modelled

The estimators of `congestion_controller` and `remote_bitrate_estimator` are numeric filters; the rest of `rtp_rtcp` and the receive path
are adapted copies of WebRTC code, and large. `libmpeg`, `libflv`, `muxer`, SDP, SIP and STUN are parsing and formatting of single
units. `libnetwork/local_network_interfaces.cpp` is I/O. The RTSP server parses requests and sends no response. Inside the modelled
parts the module headers say what is left out.

## Where the code and its comments part

Three disagreements have a failing run, because one property states the text: a segment that a cut line leaves in the loop for ever, the reset nobody asks for, and the bit-fields
of the Linux layout. In the others a slip reaches much of what the component does. There a property that states the text would fail and say no more, so the properties that pass say what the code does
instead: what the slip spoils, that nothing else does, and what is still kept. None of these passes means that the text is right.

| Text | Code | Said by |
|---|---|---|
| `connection.cpp:229-232`, `connection.h:231`: a local `Close` raises `OnClose` too | no close event: the session stays in the map | `OneDestroyPerClose` (no clean-up of a socket closed here) |
| `connection.h:163`: nothing is sent after the close | `AyncSend` (`connection.cpp:138`) has no check, `TcpServer::Close(Socket*)` (`tcp_server.cpp:140`) leaves the flag up | `LateSendsPassTheFlagBy` |
| `dtls.h:114-120`: the transitions of the state | `Run` after `Reset` (`dtls.cpp:167-188`) leaves FAILED, CLOSED and CONNECTED for CONNECTING | `OutcomesFollowTheirHandshake` (ways into an outcome only) |
| `http_parser.h:204`, `libhttp/README.md:311`: ready for the next message, persistent connections | `is_chunked_` and `is_stream_` are never cleared | `RequestsInOrder`, `NothingDropped` (`Swallows`) |
| `http_parser.h:88-95`: incremental parsing | a single byte at the end of a segment is left behind (`http_context.cpp:69`) | the same (`WithLost`, `Mistaken`) |
| `rtsp_session.cpp:735-745`: an incomplete packet waits for the next read | a header cut by the read is taken for complete | `PacketsAreSignalled` (`torn`) |
| `gb28181_server.h:29-38`: 16 bits of length | read as signed (`gb28181_session.cpp:113`) | `ParserIsAligned` (`misled`) |
| `rtcp_feedback.cpp:424`, `transport_feedback.cc:346`: a delta that does not fit begins a new message | it is cast (`twcc_context.cpp:248`) | `FeedbackIsUnderstood` (`apart`) |
| `rtp_packet_history.h:177`: pending means in the pacer's queue | a copy refused while media is off leaves it marked (`rtp_rtcp_impl2.cc:369`) | `OneCopyWhileMarked` (`rejected`) |

## Noticed beside

What follows no text of the repository contradicts, or the model abstracts what it takes, or it is an exception that a property names.

- *TCP.* Short socket writes are dropped. `AsyncSend` from another thread can run on a freed connection (`AppCheck`, `AppPost`).
- *HTTP.* `PostRequest` waits for a sent event that `Connection` never raises.
- *RTSP.* A third track would share channels with another (`SendSetup` counts what is left); a third track, or with two tracks an expired
  nonce, uses up `cseq_` after a challenge and PLAY is never asked; without authorization PLAY is asked two or three times, and the frames read behind its later replies are lost.
  The server line that the repository's own RTSP server puts third makes `HandlerSession` take it for the session. `resolver_` is read by `Close` before anyone set it.
- *DTLS.* Timers multiply with every datagram; the endpoint stays CONNECTING when OpenSSL has given up; a stale timer reaches the
  assertion of `SetTimeout`; the close alert that `Reset` keeps back goes out with the next flight; `OnTimer` and `OnRecv` use the SSL object on two threads (`dtls.cpp:597`).
- *HLS.* `GetFragment` copies the reference of `GetFragmentByName` without the lock, and may get another fragment. A fragment that was evicted is refilled although a player
  still holds it (`cfragment_window.cpp:131`); `SealedFragmentsStay` is about those in the window.
- *SCTP.* The server never retries a reset that usrsctp refused (`sctp_association.cpp:559`); the increase of streams deferred while connecting is never asked for (756);
  a message over the limit resets `lastSsnReceived` and not the buffer (684); after a denied reset everything is asked for again, and a channel opened meanwhile may be forgotten with its data under way (`usrsctp_transport.cpp:1522`); `SendData` of an empty payload returns false.
  A reply that reaches the limit is given to the listener as several messages (1340-1348), as the comment there admits: `RepliesAreWhole` says which pieces they are.
- *Feedback.* After a packet it does not know, the adapter's receive times drift by that packet's delta (`transport_feedback_adapter.cpp:146`). Packets at the end of a burst
  are reported only when another one comes. A packet sent before `OnNetworkOk(true)` ran meets a null controller (`rtp_transport_controller_send.cpp:135`).
- *Send path.* `CullAcknowledgedPackets` of the last packet leaves a hole at the end of the history, whose comment (`rtp_packet_history.h:219`) says both ends are populated.

`hazards` has the most important ones, with their lines.
