------------------------- MODULE DataChannels_proofs -------------------------
(***************************************************************************)
(* Proofs about DataChannels.tla, for any streams, any lengths of messages *)
(* and send buffers and any bounds: type correctness, the resets of the    *)
(* closing procedure, the wake-up of a waiting sender, the messages back,  *)
(* and that the two ends implement MessageChannels.                        *)
(***************************************************************************)
EXTENDS DataChannels, TLAPS, SequenceTheorems, FiniteSetTheorems

-----------------------------------------------------------------------------
(* Chunks and tasks, by kind.                                              *)

LEMMA ChunkFacts ==
  ASSUME NEW c \in Chunks
  PROVE  /\ c.t = "data" => c \in DataChunks
         /\ c.t = "reset" => c \in Resets
         /\ c.t = "add" => c \in Adds
<1>1. CASE c \in DataChunks BY <1>1 DEF DataChunks
<1>2. CASE c \in Resets BY <1>2 DEF Resets
<1>3. CASE c \in Adds BY <1>3 DEF Adds
<1>4. CASE c = Sack BY <1>4 DEF Sack
<1>5. CASE c = Abort BY <1>5 DEF Abort
<1>6. CASE c \in [t : {"response"}, ok : BOOLEAN] BY <1>6
<1> QED BY <1>1, <1>2, <1>3, <1>4, <1>5, <1>6 DEF Chunks, Requests

LEMMA TaskFacts ==
  ASSUME NEW c \in Tasks
  PROVE  /\ c.t = "data" => c \in DataChunks
         /\ c.t = "reset" => c \in Resets
         /\ c.t = "outgoing" => c.sids \in SUBSET Sids
<1>1. CASE c \in DataChunks BY <1>1 DEF DataChunks
<1>2. CASE c \in Resets BY <1>2 DEF Resets
<1>3. CASE c \in [t : {"outgoing"}, sids : SUBSET Sids] BY <1>3
<1>4. CASE c \in {Task("threshold"), Task("dry"), Task("failed"), Task("commup"),
                  Task("commlost")}
  BY <1>4 DEF Task
<1> QED BY <1>1, <1>2, <1>3, <1>4 DEF Tasks

LEMMA ChunksMade ==
  /\ Sack \in Chunks /\ Abort \in Chunks
  /\ \A ok \in BOOLEAN : Response(ok) \in Chunks
  /\ \A sids \in SUBSET Sids : [t |-> "reset", sids |-> sids] \in Resets
  /\ \A n \in Nat : [t |-> "add", n |-> n] \in Adds
  /\ Resets \subseteq Chunks /\ Adds \subseteq Chunks /\ DataChunks \subseteq Chunks
  BY DEF Chunks, Response, Requests, Resets, Adds

LEMMA RequestFacts ==
  ASSUME StackTypeOK, NEW e \in Ends
  PROVE  /\ Requested(e) \in SUBSET Sids
         /\ outstanding[e].t = "add" => outstanding[e].n \in Nat
         /\ outstanding[e] = NoRequest => Requested(e) = {}
<1>1. outstanding[e] \in Resets \cup Adds \cup {NoRequest}
  BY DEF StackTypeOK, Requests
<1>2. CASE outstanding[e] \in Resets BY <1>2 DEF Resets, Requested, NoRequest
<1>3. CASE outstanding[e] \in Adds BY <1>3 DEF Adds, Requested, NoRequest
<1>4. CASE outstanding[e] = NoRequest BY <1>4 DEF NoRequest, Requested
<1> QED BY <1>1, <1>2, <1>3, <1>4

-----------------------------------------------------------------------------
(* The send buffer.                                                        *)

LEMMA CountType ==
  ASSUME NEW S, NEW q \in Seq(S), NEW t
  PROVE  /\ Count(q, t) \in Nat
         /\ Count(q, t) # 0 => \E k \in DOMAIN q : q[k].t = t
<1> DEFINE P == {k \in DOMAIN q : q[k].t = t}
<1>1. IsFiniteSet(DOMAIN q)
  <2>1. DOMAIN q = 1..Len(q) /\ Len(q) \in Nat BY LenProperties
  <2> QED BY <2>1, FS_Interval
<1>2. IsFiniteSet(P) BY <1>1, FS_Subset
<1>3. Cardinality(P) \in Nat BY <1>2, FS_CardinalityType
<1>4. P = {} => Cardinality(P) = 0 BY FS_EmptySet
<1> QED BY <1>3, <1>4 DEF Count

LEMMA RoomType ==
  ASSUME StackAssumption, StackTypeOK, NEW e \in Ends, NEW q \in Seq(Chunks)
  PROVE  /\ Room(e, q) \in Int
         /\ SendSpace[e] \in Nat \ {0}
         /\ Room(e, q) <= 0 => \/ \E k \in DOMAIN q : q[k].t = "data"
                               \/ \E k \in DOMAIN wire[Peer(e)] : wire[Peer(e)][k].t = "sack"
<1>1. Peer(e) \in Ends /\ wire[Peer(e)] \in Seq(Chunks) BY DEF Peer, Ends, StackTypeOK
<1>2. Count(q, "data") \in Nat
      /\ (Count(q, "data") # 0 => \E k \in DOMAIN q : q[k].t = "data")
  BY CountType
<1>3. Count(wire[Peer(e)], "sack") \in Nat
      /\ (Count(wire[Peer(e)], "sack") # 0
            => \E k \in DOMAIN wire[Peer(e)] : wire[Peer(e)][k].t = "sack")
  BY <1>1, CountType
<1>4. SendSpace[e] \in Nat \ {0} BY DEF StackAssumption, Ends
<1> QED BY <1>2, <1>3, <1>4 DEF Room, Unacked

LEMMA FragmentsType ==
  ASSUME NEW m, m.sid \in Sids, m.ssn \in Nat, m.id \in Nat, m.n \in Int,
         NEW from \in Nat, NEW to \in Int
  PROVE  /\ Fragments(m, from, to) \in Seq(DataChunks)
         /\ to >= from => Len(Fragments(m, from, to)) = (to + 1) - from
         /\ \A k \in DOMAIN Fragments(m, from, to) :
              Fragments(m, from, to)[k].t = "data" /\ Fragments(m, from, to)[k].sid = m.sid
<1> DEFINE F == Fragments(m, from, to)
           N == IF to >= from THEN (to + 1) - from ELSE 0
<1>1. N \in Nat OBVIOUS
<1>2. 1..((to + 1) - from) = 1..N OBVIOUS
<1>3. \A k \in 1..N : [t |-> "data", sid |-> m.sid, ssn |-> m.ssn, id |-> m.id,
                       i |-> (from + k) - 1, eor |-> (from + k) - 1 = m.n] \in DataChunks
  <2> TAKE k \in 1..N
  <2>1. (from + k) - 1 \in Nat BY <1>1
  <2>2. ((from + k) - 1 = m.n) \in BOOLEAN OBVIOUS
  <2> QED BY <2>1, <2>2 DEF DataChunks
<1>4. F = [k \in 1..N |-> [t |-> "data", sid |-> m.sid, ssn |-> m.ssn, id |-> m.id,
                           i |-> (from + k) - 1, eor |-> (from + k) - 1 = m.n]]
  BY <1>2 DEF Fragments
<1>5. F \in [1..N -> DataChunks]
  <2> HIDE DEF F, N
  <2> QED BY <1>3, <1>4
<1>6. F \in Seq(DataChunks) /\ Len(F) = N
  <2> HIDE DEF F, N
  <2> QED BY <1>1, <1>5, LenProperties
<1>7. \A k \in DOMAIN F : F[k].t = "data" /\ F[k].sid = m.sid
  <2> HIDE DEF N, F
  <2> QED BY <1>4
<1> QED BY <1>6, <1>7

(* usrsctp_sendv of a message: data of its stream behind what is queued,   *)
(* and the rest of the message, if any.                                    *)
LEMMA SendvFacts ==
  ASSUME StackAssumption, TransportAssumption, StackTypeOK, NEW m \in Messages,
         NEW from \in 1..MaxFragments, Room("client", wire["client"]) > 0
  PROVE  /\ Sendv(m, from).wire \in Seq(Chunks)
         /\ Len(Sendv(m, from).wire) >= Len(wire["client"])
         /\ \A k \in 1..Len(wire["client"]) : Sendv(m, from).wire[k] = wire["client"][k]
         /\ \A k \in (Len(wire["client"]) + 1)..Len(Sendv(m, from).wire) :
              Sendv(m, from).wire[k].t = "data" /\ Sendv(m, from).wire[k].sid = m.sid
         /\ Sendv(m, from).partial # NoMessage =>
              /\ Sendv(m, from).partial \in Partials
              /\ Sendv(m, from).partial.m = m
              /\ Len(Sendv(m, from).wire) > Len(wire["client"])
<1> DEFINE q == wire["client"]
           room == Room("client", q)
           to == IF (m.n + 1) - from <= room THEN m.n ELSE (from + room) - 1
           F == Fragments(m, from, to)
           W == q \o F
           P == IF to = m.n THEN NoMessage ELSE [m |-> m, next |-> to + 1]
<1>1. q \in Seq(Chunks) BY DEF StackTypeOK, Ends
<1>2. room \in Int /\ room > 0 BY <1>1, RoomType DEF Ends
<1>3. m.n \in 1..MaxFragments /\ MaxFragments \in Nat /\ m.sid \in Sids /\ m.ssn \in Nat
      /\ m.id \in Nat
  BY DEF Messages, TransportAssumption
<1>4. to \in Int BY <1>2, <1>3
<1>5. /\ F \in Seq(DataChunks)
      /\ to >= from => Len(F) = (to + 1) - from
      /\ \A k \in DOMAIN F : F[k].t = "data" /\ F[k].sid = m.sid
  <2>1. m.n \in Int /\ from \in Nat BY <1>3
  <2>2. \A tt \in Int :
          /\ Fragments(m, from, tt) \in Seq(DataChunks)
          /\ tt >= from => Len(Fragments(m, from, tt)) = (tt + 1) - from
          /\ \A k \in DOMAIN Fragments(m, from, tt) :
               Fragments(m, from, tt)[k].t = "data" /\ Fragments(m, from, tt)[k].sid = m.sid
    BY ONLY <2>1, <1>3, FragmentsType
  <2> HIDE DEF to
  <2> QED BY ONLY <2>2, <1>4
<1>6. F \in Seq(Chunks) BY <1>5, ChunksMade
<1>7. /\ W \in Seq(Chunks) /\ Len(W) = Len(q) + Len(F)
      /\ \A k \in 1..Len(q) : W[k] = q[k]
      /\ \A k \in (Len(q) + 1)..Len(W) : W[k] = F[k - Len(q)]
  <2> HIDE DEF q, F
  <2> QED BY <1>1, <1>6, ConcatProperties, LenProperties
<1>8. Len(F) \in Nat /\ DOMAIN F = 1..Len(F) BY <1>5, LenProperties
<1>9. Len(q) \in Nat BY <1>1, LenProperties
<1>10. \A k \in (Len(q) + 1)..Len(W) : W[k].t = "data" /\ W[k].sid = m.sid
  <2> HIDE DEF q, F, W
  <2> TAKE k \in (Len(q) + 1)..Len(W)
  <2>1. k - Len(q) \in 1..Len(F) BY <1>7, <1>8, <1>9
  <2> QED BY SMTT(40), <2>1, <1>5, <1>7, <1>8
<1>11. P # NoMessage => /\ P \in Partials /\ P.m = m /\ Len(W) > Len(q)
  <2> SUFFICES ASSUME to # m.n PROVE P \in Partials /\ P.m = m /\ Len(W) > Len(q)
    OBVIOUS
  <2>1. to = (from + room) - 1 /\ to < m.n /\ to >= from BY <1>2, <1>3
  <2>2. to + 1 \in 1..MaxFragments BY <2>1, <1>2, <1>3
  <2>3. P = [m |-> m, next |-> to + 1] OBVIOUS
  <2>4. P \in Partials /\ P.m = m
    <3> HIDE DEF to, P
    <3> QED BY <2>2, <2>3 DEF Partials
  <2>5. Len(F) > 0
    <3> HIDE DEF to, F
    <3> QED BY <2>1, <1>5, <1>4
  <2>6. Len(W) > Len(q)
    <3> HIDE DEF q, F, W
    <3> QED BY <2>5, <1>7, <1>8, <1>9
  <2> QED BY <2>4, <2>6
<1>12. Sendv(m, from) = [wire |-> W, partial |-> P] BY DEF Sendv
<1>13. Sendv(m, from).wire = W /\ Sendv(m, from).partial = P
  <2> HIDE DEF W, P
  <2> QED BY <1>12
<1> HIDE DEF W, P, q, F, to
<1>14. Len(W) >= Len(q) BY <1>7, <1>8, <1>9
<1> QED BY <1>7, <1>10, <1>11, <1>13, <1>14 DEF q

(* SendQueuedStreamResets asks for streams that need it, or changes        *)
(* nothing but the queue it is given.                                      *)
Outcome(closure, initiated, incoming, partial, queue) ==
  \/ wire'["client"] = queue /\ outstanding' = outstanding
  \/ \E ask \in SUBSET Sids :
       /\ MayRequest("client")
       /\ ask \subseteq (closure \cup incoming) \ initiated
       /\ ask \subseteq outgoing_reset_initiated'
       /\ partial # NoMessage => partial.m.sid \notin ask
       /\ wire'["client"] = Append(queue, [t |-> "reset", sids |-> ask])
       /\ outstanding'["client"] = [t |-> "reset", sids |-> ask]

LEMMA ResetsFacts ==
  ASSUME NEW closure, NEW initiated, NEW incoming, NEW partial, NEW queue,
         StackTypeOK, closure \subseteq Sids, incoming \subseteq Sids,
         queue \in Seq(Chunks),
         SendQueuedStreamResets(closure, initiated, incoming, partial, queue)
  PROVE  /\ initiated \subseteq outgoing_reset_initiated'
         /\ outgoing_reset_initiated' \subseteq initiated \cup closure \cup incoming
         /\ wire' \in [Ends -> Seq(Chunks)]
         /\ wire'["server"] = wire["server"]
         /\ outstanding' \in [Ends -> Requests \cup {NoRequest}]
         /\ outstanding'["server"] = outstanding["server"]
         /\ Outcome(closure, initiated, incoming, partial, queue)
<1> DEFINE need == (incoming \cup closure) \ initiated
           ask == {s \in need : partial # NoMessage => partial.m.sid # s}
           request == [t |-> "reset", sids |-> ask]
<1>1. ask \in SUBSET Sids OBVIOUS
<1>2. request \in Resets /\ request \in Requests /\ request \in Chunks
  <2> HIDE DEF ask
  <2> QED BY <1>1, ChunksMade DEF Requests
<1>3. CASE ask # {} /\ MayRequest("client")
  <2>1. /\ outgoing_reset_initiated' = initiated \cup need
        /\ outstanding' = [outstanding EXCEPT !["client"] = request]
        /\ wire' = [wire EXCEPT !["client"] = Append(queue, request)]
    BY <1>3 DEF SendQueuedStreamResets
  <2>2. ask \subseteq need /\ (partial # NoMessage => partial.m.sid \notin ask) OBVIOUS
  <2> HIDE DEF ask, request
  <2>3. Append(queue, request) \in Seq(Chunks) BY <1>2
  <2>4. /\ wire' \in [Ends -> Seq(Chunks)] /\ wire'["server"] = wire["server"]
        /\ wire'["client"] = Append(queue, request)
    BY <2>1, <2>3 DEF StackTypeOK, Ends
  <2>5. /\ outstanding' \in [Ends -> Requests \cup {NoRequest}]
        /\ outstanding'["server"] = outstanding["server"]
        /\ outstanding'["client"] = request
    BY <2>1, <1>2 DEF StackTypeOK, Ends
  <2>6. /\ MayRequest("client")
        /\ ask \subseteq (closure \cup incoming) \ initiated
        /\ ask \subseteq outgoing_reset_initiated'
        /\ partial # NoMessage => partial.m.sid \notin ask
    BY <1>3, <2>1, <2>2
  <2>7. \E a \in SUBSET Sids :
          /\ MayRequest("client")
          /\ a \subseteq (closure \cup incoming) \ initiated
          /\ a \subseteq outgoing_reset_initiated'
          /\ partial # NoMessage => partial.m.sid \notin a
          /\ wire'["client"] = Append(queue, [t |-> "reset", sids |-> a])
          /\ outstanding'["client"] = [t |-> "reset", sids |-> a]
    <3> WITNESS ask \in SUBSET Sids
    <3> QED BY <2>6, <2>4, <2>5 DEF request
  <2>8. Outcome(closure, initiated, incoming, partial, queue) BY <2>7 DEF Outcome
  <2> QED BY <2>1, <2>4, <2>5, <2>8, <1>1
<1>4. CASE ~(ask # {} /\ MayRequest("client"))
  <2>1. /\ outgoing_reset_initiated' = initiated
        /\ wire' = [wire EXCEPT !["client"] = queue]
        /\ outstanding' = outstanding
    BY <1>4 DEF SendQueuedStreamResets
  <2> HIDE DEF ask, request
  <2> QED BY <2>1 DEF StackTypeOK, Ends, Outcome
<1> QED BY <1>3, <1>4

-----------------------------------------------------------------------------
(* Types.  What a client step must establish; the server's streams fit,    *)
(* also after the increase that is asked for, because the stack takes no   *)
(* request before the association is up.                                   *)

Constants == StackAssumption /\ TransportAssumption /\ AssociationAssumption

OsFits ==
  outstanding["server"].t = "add" =>
    /\ assoc["server"] # "closed"
    /\ os + outstanding["server"].n <= MaxSctpStreams

TInv == TypeOK /\ OsFits

ServerSame == /\ outstanding'["server"] = outstanding["server"]
              /\ assoc'["server"] = assoc["server"]

ClientGoal == StackTypeOK' /\ ClientTypeOK' /\ ServerSame

LEMMA FaultType ==
  ASSUME StackTypeOK, StackAssumption, Fault \/ Reply \/ UNCHANGED <<faults, replies>>
  PROVE  faults' \in 0..MaxFaults /\ replies' \in 0..MaxReplies
  BY DEF StackTypeOK, StackAssumption, Fault, Reply

LEMMA PostType ==
  ASSUME ClientTypeOK, NEW new \in Seq(Tasks), Post(new)
  PROVE  tasks' \in Seq(Tasks)
<1>1. tasks \in Seq(Tasks) BY DEF ClientTypeOK
<1> QED BY <1>1 DEF Post

LEMMA RunsType ==
  ASSUME ClientTypeOK, NEW t, Runs(t)
  PROVE  /\ tasks' \in Seq(Tasks) /\ Head(tasks) \in Tasks /\ Head(tasks).t = t
         /\ tasks # <<>> /\ tasks' = Tail(tasks)
<1>1. tasks \in Seq(Tasks) /\ tasks # <<>> BY DEF ClientTypeOK, Runs
<1>2. Head(tasks) \in Tasks /\ Tail(tasks) \in Seq(Tasks) BY <1>1, HeadTailProperties
<1> QED BY <1>1, <1>2 DEF Runs

LEMMA TasksMade ==
  /\ Task("threshold") \in Tasks /\ Task("dry") \in Tasks /\ Task("failed") \in Tasks
  /\ Task("commup") \in Tasks /\ Task("commlost") \in Tasks
  /\ \A sids \in SUBSET Sids : [t |-> "outgoing", sids |-> sids] \in Tasks
  /\ DataChunks \subseteq Tasks /\ Resets \subseteq Tasks
  BY DEF Tasks

LEMMA StartType ==
  ASSUME StackTypeOK, ClientTypeOK, StackAssumption, Start \/ OnWritableState
  PROVE  ClientGoal
<1>1. Connect \/ UNCHANGED <<sock, ready_to_send_data_, faults, replies>>
  BY DEF Start, OnWritableState
<1>2. sock' \subseteq Ends /\ ready_to_send_data_' \in BOOLEAN
      /\ (Fault \/ UNCHANGED <<faults, replies>>)
  BY <1>1 DEF Connect, StackTypeOK, ClientTypeOK, Ends
<1>3. faults' \in 0..MaxFaults /\ replies' \in 0..MaxReplies BY <1>2, FaultType
<1>4. StackTypeOK'
  BY <1>2, <1>3 DEF Start, OnWritableState, StackTypeOK
<1>5. ClientTypeOK'
  BY <1>2 DEF Start, OnWritableState, ClientTypeOK, statusVars
<1> QED BY <1>4, <1>5 DEF Start, OnWritableState, ClientGoal, ServerSame

LEMMA OpenType ==
  ASSUME StackTypeOK, ClientTypeOK, TransportAssumption, NEW s \in Sids, OpenStream(s)
  PROVE  ClientGoal
<1>1. StackTypeOK' BY DEF OpenStream, StackTypeOK, stackVars
<1>2. ClientTypeOK' BY DEF OpenStream, ClientTypeOK, TransportAssumption
<1> QED BY <1>1, <1>2 DEF OpenStream, ClientGoal, ServerSame, stackVars

LEMMA QueuedType ==
  ASSUME NEW X, NEW closure, NEW initiated, NEW incoming, NEW partial, NEW queue,
         StackTypeOK, X \subseteq Sids, closure \subseteq X, initiated \subseteq X,
         incoming \subseteq X, queue \in Seq(Chunks),
         SendQueuedStreamResets(closure, initiated, incoming, partial, queue)
  PROVE  /\ outgoing_reset_initiated' \subseteq X
         /\ wire' \in [Ends -> Seq(Chunks)]
         /\ outstanding' \in [Ends -> Requests \cup {NoRequest}]
         /\ outstanding'["server"] = outstanding["server"]
<1> DEFINE need == (incoming \cup closure) \ initiated
           ask == {s \in need : partial # NoMessage => partial.m.sid # s}
           request == [t |-> "reset", sids |-> ask]
<1>1. need \subseteq X /\ ask \in SUBSET Sids OBVIOUS
<1>2. request \in Requests /\ request \in Chunks
  <2> HIDE DEF ask
  <2> QED BY <1>1, ChunksMade DEF Requests
<1>3. \/ /\ outgoing_reset_initiated' = initiated \cup need
         /\ outstanding' = [outstanding EXCEPT !["client"] = request]
         /\ wire' = [wire EXCEPT !["client"] = Append(queue, request)]
      \/ /\ outgoing_reset_initiated' = initiated
         /\ outstanding' = outstanding
         /\ wire' = [wire EXCEPT !["client"] = queue]
  BY DEF SendQueuedStreamResets
<1> HIDE DEF ask, request, need
<1>4. Append(queue, request) \in Seq(Chunks) BY <1>2
<1>5. outgoing_reset_initiated' \subseteq X BY <1>1, <1>3
<1>6. wire \in [Ends -> Seq(Chunks)] /\ outstanding \in [Ends -> Requests \cup {NoRequest}]
  BY DEF StackTypeOK
<1>7. wire' \in [Ends -> Seq(Chunks)] BY <1>3, <1>4, <1>6
<1>8. /\ outstanding' \in [Ends -> Requests \cup {NoRequest}]
      /\ outstanding'["server"] = outstanding["server"]
  BY <1>2, <1>3, <1>6 DEF Ends
<1> QED BY <1>5, <1>7, <1>8

LEMMA ResetStreamType ==
  ASSUME StackTypeOK, ClientTypeOK, NEW s \in Sids, ResetStream(s)
  PROVE  ClientGoal
<1> DEFINE C == closure_initiated \cup {s}
<1>1. /\ C \subseteq streams /\ streams \subseteq Sids
      /\ outgoing_reset_initiated \subseteq streams
      /\ incoming_reset_complete \subseteq streams /\ wire["client"] \in Seq(Chunks)
  BY DEF ResetStream, is_open, ClientTypeOK, StackTypeOK, Ends
<1>2. SendQueuedStreamResets(C, outgoing_reset_initiated, incoming_reset_complete,
                             partial_outgoing_message_, wire["client"])
  BY DEF ResetStream
<1>3. /\ outgoing_reset_initiated' \subseteq streams
      /\ wire' \in [Ends -> Seq(Chunks)]
      /\ outstanding' \in [Ends -> Requests \cup {NoRequest}]
      /\ outstanding'["server"] = outstanding["server"]
  <2> HIDE DEF C
  <2> QED BY ONLY <1>1, <1>2, StackTypeOK, QueuedType
<1>4. StackTypeOK' BY <1>3 DEF ResetStream, StackTypeOK
<1>5. ClientTypeOK' BY <1>1, <1>3 DEF ResetStream, ClientTypeOK
<1> QED BY <1>3, <1>4, <1>5 DEF ResetStream, ClientGoal, ServerSame

LEMMA SendDataType ==
  ASSUME StackTypeOK, ClientTypeOK, StackAssumption, TransportAssumption, NEW s \in Sids,
         NEW n \in 1..MaxFragments, SendData(s, n)
  PROVE  ClientGoal
<1> DEFINE m == [sid |-> s, ssn |-> ssn[s], id |-> Len(sent[s]) + 1, n |-> n]
           out == Sendv(m, 1)
<1>1. ssn[s] \in Nat /\ sent[s] \in Seq(Messages) /\ sent \in [Sids -> Seq(Messages)]
  BY DEF StackTypeOK, ClientTypeOK
<1>2. Len(sent[s]) + 1 \in Nat BY <1>1, LenProperties
<1>3. m \in Messages BY <1>1, <1>2 DEF Messages
<1>4. m.sid = s OBVIOUS
<1>5. /\ wire' = [wire EXCEPT !["client"] = out.wire]
      /\ partial_outgoing_message_' = out.partial
      /\ Advance(m, out.partial)
      /\ sent' = [sent EXCEPT ![s] = Append(@, m)]
      /\ Room("client", wire["client"]) > 0
  BY DEF SendData
<1> HIDE DEF m
<1>6. 1 \in 1..MaxFragments BY DEF TransportAssumption
<1>7. out.wire \in Seq(Chunks) /\ out.partial \in Partials \cup {NoMessage}
  BY ONLY <1>3, <1>5, <1>6, StackTypeOK, StackAssumption, TransportAssumption, SendvFacts
<1> HIDE DEF out
<1>8. wire' \in [Ends -> Seq(Chunks)] BY <1>5, <1>7 DEF StackTypeOK, Ends
<1>9. ssn' \in [Sids -> Nat] BY <1>5, <1>4 DEF Advance, StackTypeOK
<1>10. sent' \in [Sids -> Seq(Messages)] BY <1>1, <1>3, <1>5
<1>11. StackTypeOK' BY <1>8, <1>9 DEF SendData, StackTypeOK
<1>12. ClientTypeOK' BY <1>5, <1>7, <1>10 DEF SendData, ClientTypeOK, statusVars
<1> QED BY <1>11, <1>12 DEF SendData, ClientGoal, ServerSame

LEMMA BlockedType ==
  ASSUME StackTypeOK, ClientTypeOK, NEW s, SendDataBlocked(s)
  PROVE  ClientGoal
<1>1. StackTypeOK' BY DEF SendDataBlocked, StackTypeOK, stackVars
<1>2. ClientTypeOK' BY DEF SendDataBlocked, ClientTypeOK, statusVars
<1> QED BY <1>1, <1>2 DEF SendDataBlocked, ClientGoal, ServerSame, stackVars

LEMMA ArrivingType ==
  ASSUME StackTypeOK, NEW e \in Ends, Receives(e)
  PROVE  /\ Arriving(e) \in Chunks /\ Peer(e) \in Ends
         /\ wire[Peer(e)] \in Seq(Chunks) /\ wire[Peer(e)] # <<>>
         /\ Tail(wire[Peer(e)]) \in Seq(Chunks)
         /\ wire[e] \in Seq(Chunks)
<1>1. Peer(e) \in Ends BY DEF Peer, Ends
<1>2. wire[Peer(e)] \in Seq(Chunks) /\ wire[Peer(e)] # <<>> /\ wire[e] \in Seq(Chunks)
  BY <1>1 DEF StackTypeOK, Receives
<1>3. Head(wire[Peer(e)]) \in Chunks /\ Tail(wire[Peer(e)]) \in Seq(Chunks)
  BY <1>2, HeadTailProperties
<1> QED BY <1>1, <1>2, <1>3 DEF Arriving

LEMMA PacketType ==
  ASSUME StackTypeOK, ClientTypeOK, OnPacketRead
  PROVE  ClientGoal
<1> DEFINE c == Arriving("client")
           rest == [wire EXCEPT !["server"] = Tail(@)]
<1>1. Receives("client") BY DEF OnPacketRead
<1>2. /\ c \in Chunks /\ Tail(wire["server"]) \in Seq(Chunks)
      /\ wire["client"] \in Seq(Chunks)
  BY <1>1, ArrivingType DEF Peer, Ends
<1>3. \/ DataRead(c, rest) \/ SackRead(c, rest) \/ RequestRead(c, rest)
      \/ ResponseRead(c, rest) \/ AbortRead(c, rest)
  BY DEF OnPacketRead
<1> HIDE DEF c
<1>4. rest \in [Ends -> Seq(Chunks)] /\ rest["client"] = wire["client"]
  BY <1>2 DEF StackTypeOK, Ends
<1>5. /\ assoc \in [Ends -> {"closed", "up", "lost"}] /\ ssn \in [Sids -> Nat]
      /\ outstanding \in [Ends -> Requests \cup {NoRequest}]
  BY DEF StackTypeOK
<1> HIDE DEF rest
<1> DEFINE G == /\ wire' \in [Ends -> Seq(Chunks)]
                /\ assoc' \in [Ends -> {"closed", "up", "lost"}]
                /\ assoc'["server"] = assoc["server"]
                /\ ssn' \in [Sids -> Nat]
                /\ outstanding' \in [Ends -> Requests \cup {NoRequest}]
                /\ outstanding'["server"] = outstanding["server"]
                /\ tasks' \in Seq(Tasks)
<1>6. ASSUME DataRead(c, rest) PROVE G
  <2>1. c \in Tasks BY <1>2, <1>6, ChunkFacts, TasksMade DEF DataRead
  <2>2. <<c>> \in Seq(Tasks) BY <2>1
  <2>3. tasks' \in Seq(Tasks) BY <2>2, <1>6, PostType DEF DataRead
  <2> QED BY <2>3, <1>4, <1>5, <1>6 DEF DataRead
<1>7. ASSUME SackRead(c, rest) PROVE G
  <2>1. <<Task("dry"), Task("threshold")>> \in Seq(Tasks) /\ <<Task("threshold")>> \in Seq(Tasks)
    BY TasksMade
  <2>2. tasks' \in Seq(Tasks)
    <3>1. CASE Unacked("client", wire["client"]) = 1
      BY <3>1, <2>1, <1>7, PostType DEF SackRead
    <3>2. CASE Unacked("client", wire["client"]) # 1
      BY <3>2, <2>1, <1>7, PostType DEF SackRead
    <3> QED BY <3>1, <3>2
  <2> QED BY <2>2, <1>4, <1>5, <1>7 DEF SackRead
<1>8. ASSUME RequestRead(c, rest) PROVE G
  <2>1. tasks' \in Seq(Tasks)
    <3>1. CASE c.t = "reset"
      <4>1. c \in Tasks BY <1>2, <3>1, ChunkFacts, TasksMade
      <4>2. <<c>> \in Seq(Tasks) BY <4>1
      <4> QED BY <3>1, <4>2, <1>8, PostType DEF RequestRead
    <3>2. CASE c.t # "reset" BY <3>2, <1>8 DEF RequestRead, ClientTypeOK
    <3> QED BY <3>1, <3>2
  <2>5. Response(TRUE) \in Chunks BY ChunksMade
  <2>2. Append(rest["client"], Response(TRUE)) \in Seq(Chunks) 
    <3> DEFINE r == Response(TRUE)
    <3> HIDE DEF r
    <3>1. r \in Chunks BY <2>5 DEF r
    <3>2. rest["client"] \in Seq(Chunks) BY <1>2, <1>4
    <3>3. Append(rest["client"], r) \in Seq(Chunks) BY ONLY <3>1, <3>2
    <3> QED BY <3>3 DEF r
  <2>3. wire' = [rest EXCEPT !["client"] = Append(rest["client"], Response(TRUE))]
    BY <1>8 DEF RequestRead
  <2>4. wire' \in [Ends -> Seq(Chunks)] BY <2>2, <2>3, <1>4 DEF Ends
  <2> QED BY <2>1, <2>4, <1>5, <1>8 DEF RequestRead
<1>9. ASSUME ResponseRead(c, rest) PROVE G
  <2>1. Requested("client") \in SUBSET Sids BY RequestFacts DEF Ends
  <2>2. <<[t |-> "outgoing", sids |-> Requested("client")]>> \in Seq(Tasks)
        /\ <<Task("failed")>> \in Seq(Tasks)
    BY <2>1, TasksMade
  <2>3. tasks' \in Seq(Tasks)
    <3>1. CASE c.ok BY <3>1, <2>2, <1>9, PostType DEF ResponseRead
    <3>2. CASE ~c.ok BY <3>2, <2>2, <1>9, PostType DEF ResponseRead
    <3> QED BY <3>1, <3>2
  <2>4. ssn' \in [Sids -> Nat]
    <3>1. ssn' = [s \in Sids |-> IF c.ok /\ s \in Requested("client") THEN 0 ELSE ssn[s]]
      BY <1>9 DEF ResponseRead
    <3>2. \A s \in Sids : (IF c.ok /\ s \in Requested("client") THEN 0 ELSE ssn[s]) \in Nat
      BY <1>5
    <3> QED BY <3>1, <3>2
  <2>5. outstanding' = [outstanding EXCEPT !["client"] = NoRequest]
    BY <1>9 DEF ResponseRead
  <2>6. /\ outstanding' \in [Ends -> Requests \cup {NoRequest}]
        /\ outstanding'["server"] = outstanding["server"]
    BY <2>5, <1>5 DEF Ends
  <2> QED BY <2>3, <2>4, <2>6, <1>4, <1>5, <1>9 DEF ResponseRead
<1>10. ASSUME AbortRead(c, rest) PROVE G
  <2>1. <<Task("commlost")>> \in Seq(Tasks) BY TasksMade
  <2>2. tasks' \in Seq(Tasks) BY <2>1, <1>10, PostType DEF AbortRead
  <2>3. assoc' = [assoc EXCEPT !["client"] = "lost"] BY <1>10 DEF AbortRead
  <2>4. assoc' \in [Ends -> {"closed", "up", "lost"}] /\ assoc'["server"] = assoc["server"]
    BY <2>3, <1>5 DEF Ends
  <2> QED BY <2>2, <2>4, <1>4, <1>5, <1>10 DEF AbortRead
<1>11. G BY ONLY <1>3, <1>6, <1>7, <1>8, <1>9, <1>10
<1>12. StackTypeOK' BY <1>11 DEF OnPacketRead, StackTypeOK
<1>13. ClientTypeOK' BY <1>11 DEF OnPacketRead, ClientTypeOK, statusVars
<1> QED BY <1>11, <1>12, <1>13 DEF ClientGoal, ServerSame

LEMMA NotifiedType ==
  ASSUME StackTypeOK, ClientTypeOK, StackAssumption, ClientNotified
  PROVE  ClientGoal
<1>1. Fault \/ UNCHANGED <<faults, replies>> BY DEF ClientNotified, StackLost
<1>2. faults' \in 0..MaxFaults /\ replies' \in 0..MaxReplies BY <1>1, FaultType
<1>3. assoc' \in [Ends -> {"closed", "up", "lost"}] /\ assoc'["server"] = assoc["server"]
  BY DEF ClientNotified, StackLost, StackUp, StackTypeOK, Ends
<1>4. <<Task("commup")>> \in Seq(Tasks) /\ <<Task("commlost")>> \in Seq(Tasks)
  BY TasksMade
<1>5. tasks' \in Seq(Tasks)
  <2>1. Post(<<Task("commup")>>) \/ Post(<<Task("commlost")>>) BY DEF ClientNotified
  <2> QED BY <2>1, <1>4, PostType
<1>6. StackTypeOK' BY <1>2, <1>3 DEF ClientNotified, StackTypeOK
<1>7. ClientTypeOK' BY <1>5 DEF ClientNotified, ClientTypeOK, statusVars
<1> QED BY <1>3, <1>6, <1>7 DEF ClientNotified, ClientGoal, ServerSame

LEMMA ThresholdType ==
  ASSUME StackTypeOK, ClientTypeOK, StackAssumption, TransportAssumption,
         OnSendThresholdCallback
  PROVE  ClientGoal
<1> DEFINE G == /\ wire' \in [Ends -> Seq(Chunks)]
                /\ ssn' \in [Sids -> Nat]
                /\ outstanding' \in [Ends -> Requests \cup {NoRequest}]
                /\ outstanding'["server"] = outstanding["server"]
                /\ outgoing_reset_initiated' \subseteq streams
                /\ partial_outgoing_message_' \in Partials \cup {NoMessage}
                /\ ready_to_send_data_' \in BOOLEAN
<1>1. /\ wire \in [Ends -> Seq(Chunks)] /\ ssn \in [Sids -> Nat]
      /\ outstanding \in [Ends -> Requests \cup {NoRequest}]
      /\ outgoing_reset_initiated \subseteq streams
      /\ partial_outgoing_message_ \in Partials \cup {NoMessage}
      /\ ready_to_send_data_ \in BOOLEAN
      /\ streams \subseteq Sids /\ closure_initiated \subseteq streams
      /\ incoming_reset_complete \subseteq streams
  BY DEF StackTypeOK, ClientTypeOK
<1>2. ASSUME partial_outgoing_message_ = NoMessage PROVE G
  <2>1. /\ ready_to_send_data_' = TRUE
        /\ UNCHANGED <<partial_outgoing_message_, outgoing_reset_initiated, wire,
                       outstanding, ssn>>
    BY <1>2 DEF OnSendThresholdCallback
  <2> QED BY <2>1, <1>1
<1>3. ASSUME partial_outgoing_message_ # NoMessage PROVE G
  <2> DEFINE m == partial_outgoing_message_.m
             from == partial_outgoing_message_.next
             out == Sendv(m, from)
             may == CanSend /\ m.sid \in streams
             waited == m.sid \in (closure_initiated \cup incoming_reset_complete)
                                 \ outgoing_reset_initiated
  <2>1. m \in Messages /\ from \in 1..MaxFragments
    BY <1>1, <1>3 DEF Partials
  <2>2. SendBufferedMessage BY <1>3 DEF OnSendThresholdCallback
  <2>3. CASE may /\ Room("client", wire["client"]) > 0
    <3>1. /\ partial_outgoing_message_' = out.partial
          /\ Advance(m, out.partial)
          /\ ready_to_send_data_' = (ready_to_send_data_ \/ out.partial = NoMessage)
      BY <2>2, <2>3 DEF SendBufferedMessage
    <3>2. \/ SendQueuedStreamResets(closure_initiated, outgoing_reset_initiated,
                                    incoming_reset_complete, NoMessage, out.wire)
          \/ /\ wire' = [wire EXCEPT !["client"] = out.wire]
             /\ UNCHANGED <<outgoing_reset_initiated, outstanding>>
      BY <2>2, <2>3 DEF SendBufferedMessage
    <3>3. out.wire \in Seq(Chunks) /\ out.partial \in Partials \cup {NoMessage}
      <4> HIDE DEF m, from
      <4> QED BY ONLY <2>1, <2>3, StackTypeOK, StackAssumption, TransportAssumption,
                      SendvFacts
    <3>4. m.sid \in Sids BY <2>1 DEF Messages
    <3> HIDE DEF out, m
    <3>5. ssn' \in [Sids -> Nat]
      <4>1. CASE out.partial = NoMessage
        <5>1. ssn' = [ssn EXCEPT ![m.sid] = @ + 1] BY <3>1, <4>1 DEF Advance
        <5>2. ssn \in [Sids -> Nat] BY <1>1
        <5>3. ssn[m.sid] + 1 \in Nat BY ONLY <3>4, <5>2
        <5> QED BY ONLY <5>1, <5>2, <5>3, <3>4
      <4>2. CASE out.partial # NoMessage
        <5>1. ssn' = ssn BY <3>1, <4>2 DEF Advance
        <5> QED BY <5>1, <1>1
      <4> QED BY <4>1, <4>2
    <3>6. /\ wire' \in [Ends -> Seq(Chunks)]
          /\ outstanding' \in [Ends -> Requests \cup {NoRequest}]
          /\ outstanding'["server"] = outstanding["server"]
          /\ outgoing_reset_initiated' \subseteq streams
      <4>1. CASE SendQueuedStreamResets(closure_initiated, outgoing_reset_initiated,
                                        incoming_reset_complete, NoMessage, out.wire)
        <5>1. /\ streams \subseteq Sids /\ closure_initiated \subseteq streams
              /\ outgoing_reset_initiated \subseteq streams
              /\ incoming_reset_complete \subseteq streams
          BY ONLY <1>1
        <5>2. out.wire \in Seq(Chunks) BY ONLY <3>3
        <5> QED BY ONLY <4>1, <5>1, <5>2, StackTypeOK, QueuedType
      <4>2. CASE /\ wire' = [wire EXCEPT !["client"] = out.wire]
                 /\ UNCHANGED <<outgoing_reset_initiated, outstanding>>
        BY <4>2, <3>3, <1>1 DEF Ends
      <4> QED BY <3>2, <4>1, <4>2
    <3>7. ready_to_send_data_' \in BOOLEAN BY <3>1, <1>1, Zenon
    <3> QED BY <3>1, <3>3, <3>5, <3>6, <3>7
  <2>4. CASE ~(may /\ Room("client", wire["client"]) > 0)
    <3>1. /\ ready_to_send_data_' = (ready_to_send_data_ /\ ~may)
          /\ UNCHANGED <<partial_outgoing_message_, outgoing_reset_initiated, wire,
                         outstanding, ssn>>
      BY <2>2, <2>4 DEF SendBufferedMessage
    <3>2. ready_to_send_data_' \in BOOLEAN
      <4> HIDE DEF may
      <4> QED BY <3>1, <1>1, Zenon
    <3> QED BY <3>1, <3>2, <1>1
  <2> QED BY <2>3, <2>4
<1>4. G BY <1>2, <1>3
<1>5. tasks' \in Seq(Tasks) BY RunsType DEF OnSendThresholdCallback
<1>6. StackTypeOK' BY <1>4 DEF OnSendThresholdCallback, StackTypeOK
<1>7. ClientTypeOK' BY <1>4, <1>5 DEF OnSendThresholdCallback, ClientTypeOK
<1> QED BY <1>4, <1>6, <1>7 DEF OnSendThresholdCallback, ClientGoal, ServerSame

LEMMA StreamResetType ==
  ASSUME StackTypeOK, ClientTypeOK, tasks' \in Seq(Tasks),
         NEW incoming, incoming \subseteq streams, NEW outgoing, outgoing \subseteq streams,
         OnStreamReset(incoming, outgoing)
  PROVE  ClientGoal
<1> DEFINE done == incoming \cap outgoing
           X == streams \ done
           C == closure_initiated \ done
           I == outgoing_reset_initiated \ done
           R == incoming \ done
<1>1. /\ X \subseteq Sids /\ C \subseteq X /\ I \subseteq X /\ R \subseteq X
      /\ outgoing \ done \subseteq X
  BY DEF ClientTypeOK
<1>2. wire["client"] \in Seq(Chunks) BY DEF StackTypeOK, Ends
<1>3. /\ streams' = X /\ closure_initiated' = C /\ incoming_reset_complete' = R
      /\ outgoing_reset_complete' = outgoing \ done
      /\ SendQueuedStreamResets(C, I, R, partial_outgoing_message_, wire["client"])
  BY DEF OnStreamReset
<1> HIDE DEF done, X, C, I, R
<1>4. /\ outgoing_reset_initiated' \subseteq X
      /\ wire' \in [Ends -> Seq(Chunks)]
      /\ outstanding' \in [Ends -> Requests \cup {NoRequest}]
      /\ outstanding'["server"] = outstanding["server"]
  BY ONLY <1>1, <1>2, <1>3, StackTypeOK, QueuedType
<1>5. StackTypeOK' BY <1>4 DEF OnStreamReset, StackTypeOK
<1>6. ClientTypeOK' BY <1>1, <1>3, <1>4 DEF OnStreamReset, ClientTypeOK
<1> QED BY <1>4, <1>5, <1>6 DEF OnStreamReset, ClientGoal, ServerSame

LEMMA DataType ==
  ASSUME StackTypeOK, ClientTypeOK, OnDataFromSctp
  PROVE  ClientGoal
<1> DEFINE c == Head(tasks)
           kept == IF partial_incoming_message_ # <<>>
                      /\ c.sid # partial_incoming_message_[1].sid
                   THEN <<>> ELSE partial_incoming_message_
<1>1. Runs("data") BY DEF OnDataFromSctp
<1>2. tasks' \in Seq(Tasks) /\ c \in Tasks /\ c.t = "data" BY <1>1, RunsType
<1>3. c \in DataChunks BY <1>2, TaskFacts
<1>4. \/ /\ received' = Append(received, Append(kept, c))
         /\ partial_incoming_message_' = <<>>
      \/ /\ partial_incoming_message_' = Append(kept, c)
         /\ UNCHANGED received
  BY DEF OnDataFromSctp
<1>5. kept \in Seq(DataChunks) BY DEF ClientTypeOK
<1>6. received \in Seq(Seq(DataChunks)) BY DEF ClientTypeOK
<1> HIDE DEF c, kept
<1>7. Append(kept, c) \in Seq(DataChunks) BY ONLY <1>3, <1>5
<1> DEFINE a == Append(kept, c)
<1> HIDE DEF a
<1>8. a \in Seq(DataChunks) BY <1>7 DEF a
<1>9. Append(received, a) \in Seq(Seq(DataChunks)) BY ONLY <1>6, <1>8
<1>10. \/ received' = Append(received, a) /\ partial_incoming_message_' = <<>>
       \/ partial_incoming_message_' = a /\ received' = received
  BY <1>4 DEF a
<1>11. received' \in Seq(Seq(DataChunks)) /\ partial_incoming_message_' \in Seq(DataChunks)
  <2>1. <<>> \in Seq(DataChunks) OBVIOUS
  <2> QED BY ONLY <2>1, <1>6, <1>8, <1>9, <1>10
<1>12. StackTypeOK' BY DEF OnDataFromSctp, StackTypeOK, stackVars
<1>13. ClientTypeOK' BY <1>2, <1>11 DEF OnDataFromSctp, ClientTypeOK, statusVars
<1> QED BY <1>12, <1>13 DEF OnDataFromSctp, ClientGoal, ServerSame, stackVars

LEMMA NewsType ==
  ASSUME StackTypeOK, ClientTypeOK, OnSenderDry \/ OnCommLost
  PROVE  ClientGoal
<1>1. tasks' \in Seq(Tasks) BY RunsType DEF OnSenderDry, OnCommLost
<1>2. StackTypeOK' BY DEF OnSenderDry, OnCommLost, StackTypeOK, stackVars
<1>3. ClientTypeOK' BY <1>1 DEF OnSenderDry, OnCommLost, ClientTypeOK, statusVars
<1> QED BY <1>2, <1>3 DEF OnSenderDry, OnCommLost, ClientGoal, ServerSame, stackVars

LEMMA RetryType ==
  ASSUME StackTypeOK, ClientTypeOK, OnCommUp \/ OnResetFailed
  PROVE  ClientGoal
<1> DEFINE I == IF OnCommUp THEN outgoing_reset_initiated ELSE {}
<1>1. SendQueuedStreamResets(closure_initiated, I, incoming_reset_complete,
                             partial_outgoing_message_, wire["client"])
  BY DEF OnCommUp, OnResetFailed
<1>2. /\ streams \subseteq Sids /\ closure_initiated \subseteq streams /\ I \subseteq streams
      /\ incoming_reset_complete \subseteq streams /\ wire["client"] \in Seq(Chunks)
  BY DEF ClientTypeOK, StackTypeOK, Ends
<1> HIDE DEF I
<1>3. /\ outgoing_reset_initiated' \subseteq streams
      /\ wire' \in [Ends -> Seq(Chunks)]
      /\ outstanding' \in [Ends -> Requests \cup {NoRequest}]
      /\ outstanding'["server"] = outstanding["server"]
  BY ONLY <1>1, <1>2, StackTypeOK, QueuedType
<1>4. tasks' \in Seq(Tasks) BY RunsType DEF OnCommUp, OnResetFailed
<1>5. StackTypeOK' BY <1>3 DEF OnCommUp, OnResetFailed, StackTypeOK
<1>6. ClientTypeOK' BY <1>3, <1>4 DEF OnCommUp, OnResetFailed, ClientTypeOK
<1> QED BY <1>3, <1>5, <1>6 DEF OnCommUp, OnResetFailed, ClientGoal, ServerSame

LEMMA CloseType ==
  ASSUME StackTypeOK, NEW e \in Ends, StackClose(e)
  PROVE  /\ sock' \subseteq Ends
         /\ assoc' \in [Ends -> {"closed", "up", "lost"}]
         /\ assoc'[e] = "lost" /\ \A d \in Ends \ {e} : assoc'[d] = assoc[d]
         /\ wire' \in [Ends -> Seq(Chunks)]
         /\ \A d \in Ends \ {e} : wire'[d] = wire[d]
<1>1. <<Abort>> \in Seq(Chunks) /\ <<>> \in Seq(Chunks) BY ChunksMade
<1>2. (IF assoc[e] = "up" THEN <<Abort>> ELSE <<>>) \in Seq(Chunks) BY <1>1
<1> QED BY <1>2 DEF StackClose, StackTypeOK

LEMMA DestroyType ==
  ASSUME StackTypeOK, ClientTypeOK, StackAssumption, DestroyTransport
  PROVE  ClientGoal
<1>1. faults' \in 0..MaxFaults /\ replies' \in 0..MaxReplies
  BY FaultType DEF DestroyTransport
<1>2. /\ sock' \subseteq Ends
      /\ assoc' \in [Ends -> {"closed", "up", "lost"}]
      /\ assoc'["server"] = assoc["server"]
      /\ wire' \in [Ends -> Seq(Chunks)]
  BY CloseType DEF DestroyTransport, Ends
<1>3. /\ alive' = FALSE /\ tasks' = <<>>
      /\ ready_to_send_data_' = (ready_to_send_data_ /\ "client" \notin sock)
  BY DEF DestroyTransport
<1>4. ready_to_send_data_' \in BOOLEAN BY <1>3, Zenon DEF ClientTypeOK
<1>5. tasks' \in Seq(Tasks) BY <1>3
<1>6. StackTypeOK' BY <1>1, <1>2 DEF DestroyTransport, StackTypeOK
<1>7. ClientTypeOK' BY <1>3, <1>4, <1>5 DEF DestroyTransport, ClientTypeOK, statusVars
<1> QED BY <1>2, <1>6, <1>7 DEF DestroyTransport, ClientGoal, ServerSame

LEMMA ClientType ==
  ASSUME StackTypeOK, ClientTypeOK, StackAssumption, TransportAssumption, ClientNext
  PROVE  ClientGoal
<1>1. CASE Start \/ OnWritableState BY <1>1, StartType
<1>2. CASE \E s \in Sids : OpenStream(s) \/ ResetStream(s) \/ SendDataBlocked(s)
  BY <1>2, OpenType, ResetStreamType, BlockedType
<1>3. CASE \E s \in Sids, n \in 1..MaxFragments : SendData(s, n) BY <1>3, SendDataType
<1>4. CASE OnPacketRead BY <1>4, PacketType
<1>5. CASE ClientNotified BY <1>5, NotifiedType
<1>6. CASE OnSendThresholdCallback BY <1>6, ThresholdType
<1>7. CASE OnSenderDry \/ OnCommLost BY <1>7, NewsType
<1>8. CASE OnCommUp \/ OnResetFailed BY <1>8, RetryType
<1>9. CASE OnDataFromSctp BY <1>9, DataType
<1>10. CASE OnIncomingReset
  <2>1. tasks' \in Seq(Tasks) BY <1>10, RunsType DEF OnIncomingReset
  <2>2. incoming_reset_complete \cup (Head(tasks).sids \cap streams) \subseteq streams
        /\ outgoing_reset_complete \subseteq streams
    BY DEF ClientTypeOK
  <2>3. OnStreamReset(incoming_reset_complete \cup (Head(tasks).sids \cap streams),
                      outgoing_reset_complete)
    BY <1>10 DEF OnIncomingReset
  <2> QED BY <2>1, <2>2, <2>3, StreamResetType
<1>11. CASE OnOutgoingReset
  <2>1. tasks' \in Seq(Tasks) BY <1>11, RunsType DEF OnOutgoingReset
  <2>2. outgoing_reset_complete \cup (Head(tasks).sids \cap streams) \subseteq streams
        /\ incoming_reset_complete \subseteq streams
    BY DEF ClientTypeOK
  <2>3. OnStreamReset(incoming_reset_complete,
                      outgoing_reset_complete \cup (Head(tasks).sids \cap streams))
    BY <1>11 DEF OnOutgoingReset
  <2> QED BY <2>1, <2>2, <2>3, StreamResetType
<1>12. CASE DestroyTransport BY <1>12, DestroyType
<1> QED
  BY <1>1, <1>2, <1>3, <1>4, <1>5, <1>6, <1>7, <1>8, <1>9, <1>10, <1>11, <1>12
  DEF ClientNext, RunTask

ServerGoal == StackTypeOK' /\ ServerTypeOK' /\ OsFits'

LEMMA ConnectedType ==
  ASSUME StackTypeOK, ServerTypeOK, OsFits, StackAssumption, TransportConnected
  PROVE  ServerGoal
<1>1. Fault \/ UNCHANGED <<faults, replies>> BY DEF TransportConnected
<1>2. faults' \in 0..MaxFaults /\ replies' \in 0..MaxReplies BY <1>1, FaultType
<1>3. sock' \subseteq Ends /\ state' \in States
  BY DEF TransportConnected, StackTypeOK, Ends, States
<1>4. StackTypeOK' BY <1>2, <1>3 DEF TransportConnected, StackTypeOK
<1>5. ServerTypeOK' BY <1>3 DEF TransportConnected, ServerTypeOK
<1>6. OsFits' BY DEF TransportConnected, OsFits
<1> QED BY <1>4, <1>5, <1>6 DEF ServerGoal

LEMMA AddType ==
  ASSUME StackTypeOK, OsFits, AssociationAssumption, desiredOs \in 0..MaxSctpStreams,
         NEW force, NEW has, has \in 0..MaxSctpStreams, has = os \/ ~MayRequest("server"),
         AddOutgoingStreams(force, has, wire["server"])
  PROVE  /\ desiredOs' \in 0..MaxSctpStreams
         /\ wire' \in [Ends -> Seq(Chunks)]
         /\ outstanding' \in [Ends -> Requests \cup {NoRequest}]
         /\ \/ outstanding' = outstanding
            \/ /\ MayRequest("server") /\ outstanding'["server"].n \in Nat
               /\ has + outstanding'["server"].n <= MaxSctpStreams
<1> DEFINE more == IF MaxSctpStreams - has >= AddedOs THEN AddedOs ELSE MaxSctpStreams - has
           request == [t |-> "add", n |-> more]
           wanted == more # 0 /\ (force \/ has + more # desiredOs)
<1>1. MaxSctpStreams \in Nat /\ AddedOs \in Nat /\ has \in Nat BY DEF AssociationAssumption
<1>2. more \in Nat /\ has + more <= MaxSctpStreams BY <1>1
<1>3. request \in Adds
  <2> HIDE DEF more
  <2> QED BY <1>2, ChunksMade
<1>4. request \in Requests /\ request \in Chunks BY <1>3, ChunksMade DEF Requests
<1>5. wire["server"] \in Seq(Chunks) BY DEF StackTypeOK, Ends
<1>6. /\ desiredOs' = IF wanted THEN has + more ELSE desiredOs
      /\ \/ /\ MayRequest("server")
            /\ outstanding' = [outstanding EXCEPT !["server"] = request]
            /\ wire' = [wire EXCEPT !["server"] = Append(wire["server"], request)]
         \/ /\ wire' = [wire EXCEPT !["server"] = wire["server"]]
            /\ outstanding' = outstanding
  BY DEF AddOutgoingStreams
<1>7. request.n = more OBVIOUS
<1> HIDE DEF more, request
<1>8. desiredOs' \in 0..MaxSctpStreams BY <1>6, <1>2, <1>1
<1>9. Append(wire["server"], request) \in Seq(Chunks) BY <1>4, <1>5
<1>10. wire \in [Ends -> Seq(Chunks)] /\ outstanding \in [Ends -> Requests \cup {NoRequest}]
       /\ "server" \in Ends
  BY DEF StackTypeOK, Ends
<1>11. wire' \in [Ends -> Seq(Chunks)] BY ONLY <1>6, <1>5, <1>9, <1>10
<1>12. outstanding' \in [Ends -> Requests \cup {NoRequest}] BY ONLY <1>6, <1>4, <1>10
<1>13. \/ outstanding' = outstanding
       \/ MayRequest("server") /\ outstanding'["server"] = request
  BY ONLY <1>6, <1>10
<1> QED BY <1>8, <1>11, <1>12, <1>13, <1>7, <1>2

LEMMA NotAdding ==
  ASSUME StackTypeOK, MayRequest("server")
  PROVE  assoc["server"] = "up"
  BY DEF MayRequest

LEMMA ConsumerType ==
  ASSUME StackTypeOK, ServerTypeOK, OsFits, StackAssumption, AssociationAssumption,
         NEW s, HandleDataConsumer(s)
  PROVE  ServerGoal
<1>1. faults' \in 0..MaxFaults /\ replies' \in 0..MaxReplies
  BY FaultType DEF HandleDataConsumer
<1>2. AddOutgoingStreams(FALSE, os, wire["server"]) BY DEF HandleDataConsumer
<1>3. os \in 0..MaxSctpStreams /\ desiredOs \in 0..MaxSctpStreams BY DEF ServerTypeOK
<1>4. /\ desiredOs' \in 0..MaxSctpStreams
      /\ wire' \in [Ends -> Seq(Chunks)]
      /\ outstanding' \in [Ends -> Requests \cup {NoRequest}]
      /\ \/ outstanding' = outstanding
         \/ /\ MayRequest("server") /\ outstanding'["server"].n \in Nat
            /\ os + outstanding'["server"].n <= MaxSctpStreams
  BY ONLY <1>2, <1>3, StackTypeOK, OsFits, AssociationAssumption, AddType
<1>5. os' = os /\ assoc' = assoc BY DEF HandleDataConsumer
<1>6. OsFits' BY <1>4, <1>5, NotAdding DEF OsFits
<1>7. StackTypeOK' BY <1>1, <1>4 DEF HandleDataConsumer, StackTypeOK
<1>8. ServerTypeOK' BY <1>4 DEF HandleDataConsumer, ServerTypeOK
<1> QED BY <1>6, <1>7, <1>8 DEF ServerGoal

(* Resetting our own streams: at most one request, of streams that are     *)
(* ours.                                                                   *)
LEMMA ResetSctpType ==
  ASSUME StackTypeOK, NEW sids, sids \subseteq Sids, NEW base,
         base \in [Ends -> Seq(Chunks)], ResetSctpStreams(sids, base)
  PROVE  /\ wire' \in [Ends -> Seq(Chunks)]
         /\ wire'["client"] = base["client"]
         /\ outstanding' \in [Ends -> Requests \cup {NoRequest}]
         /\ outstanding'["client"] = outstanding["client"]
         /\ outstanding' = outstanding \/ outstanding'["server"].t = "reset"
<1> DEFINE taken == Takes(sids)
           request == [t |-> "reset", sids |-> taken]
<1>1. taken \in SUBSET Sids BY DEF Takes
<1> HIDE DEF taken
<1>2. request \in Requests /\ request \in Chunks BY <1>1, ChunksMade DEF Requests
<1>3. request.t = "reset" OBVIOUS
<1>4. \/ /\ wire' = [base EXCEPT !["server"] = Append(base["server"], request)]
         /\ outstanding' = [outstanding EXCEPT !["server"] = request]
      \/ wire' = base /\ outstanding' = outstanding
  BY DEF ResetSctpStreams, taken
<1> HIDE DEF request
<1>5. base["server"] \in Seq(Chunks) /\ outstanding \in [Ends -> Requests \cup {NoRequest}]
      /\ "server" \in Ends /\ "client" \in Ends
  BY DEF StackTypeOK, Ends
<1>6. Append(base["server"], request) \in Seq(Chunks) BY ONLY <1>2, <1>5
<1>7. wire' \in [Ends -> Seq(Chunks)] /\ wire'["client"] = base["client"]
  BY ONLY <1>4, <1>5, <1>6, base \in [Ends -> Seq(Chunks)]
<1>8. /\ outstanding' \in [Ends -> Requests \cup {NoRequest}]
      /\ outstanding'["client"] = outstanding["client"]
      /\ outstanding' = outstanding \/ outstanding'["server"] = request
  BY ONLY <1>2, <1>4, <1>5
<1> QED BY <1>3, <1>7, <1>8

LEMMA ClosedType ==
  ASSUME StackTypeOK, ServerTypeOK, OsFits, StackAssumption, NEW s \in Sids,
         DataChannelClosed(s)
  PROVE  ServerGoal
<1>1. faults' \in 0..MaxFaults /\ replies' \in 0..MaxReplies
  BY FaultType DEF DataChannelClosed
<1>2. ResetSctpStreams({s}, wire) /\ {s} \subseteq Sids /\ wire \in [Ends -> Seq(Chunks)]
  BY DEF DataChannelClosed, StackTypeOK
<1>3. /\ wire' \in [Ends -> Seq(Chunks)]
      /\ outstanding' \in [Ends -> Requests \cup {NoRequest}]
      /\ outstanding' = outstanding \/ outstanding'["server"].t = "reset"
  BY <1>2, ResetSctpType
<1>4. StackTypeOK' BY <1>1, <1>3 DEF DataChannelClosed, StackTypeOK
<1>5. ServerTypeOK' BY DEF DataChannelClosed, ServerTypeOK
<1>6. OsFits' BY <1>3 DEF DataChannelClosed, OsFits
<1> QED BY <1>4, <1>5, <1>6 DEF ServerGoal

LEMMA MessageType ==
  ASSUME StackTypeOK, ServerTypeOK, OsFits, StackAssumption, NEW s \in Sids,
         NEW n \in Nat, SendSctpMessage(s, n)
  PROVE  ServerGoal
<1> DEFINE m == [sid |-> s, ssn |-> 0, id |-> replies + 1, n |-> n]
           F == Fragments(m, 1, n)
<1>1. faults' \in 0..MaxFaults /\ replies' \in 0..MaxReplies
  BY FaultType DEF SendSctpMessage
<1>2. replies + 1 \in Nat BY DEF StackTypeOK
<1>3. m.sid \in Sids /\ m.ssn \in Nat /\ m.id \in Nat /\ m.n \in Int BY <1>2
<1>4. wire' = [wire EXCEPT !["server"] = wire["server"] \o F] BY DEF SendSctpMessage
<1> HIDE DEF m
<1>5. F \in Seq(DataChunks) BY <1>3, FragmentsType
<1>6. F \in Seq(Chunks) BY <1>5, ChunksMade
<1> HIDE DEF F
<1>7. wire["server"] \o F \in Seq(Chunks) BY <1>6 DEF StackTypeOK, Ends
<1>8. wire' \in [Ends -> Seq(Chunks)] BY <1>4, <1>7 DEF StackTypeOK, Ends
<1>9. StackTypeOK' BY <1>1, <1>8 DEF SendSctpMessage, StackTypeOK
<1>10. ServerTypeOK' BY DEF SendSctpMessage, ServerTypeOK
<1>11. OsFits' BY DEF SendSctpMessage, OsFits
<1> QED BY <1>9, <1>10, <1>11 DEF ServerGoal

LEMMA NoAdd == NoRequest.t # "add"
  BY DEF NoRequest

LEMMA OnDataType ==
  ASSUME ServerTypeOK, NEW c \in DataChunks, OnData(c)
  PROVE  /\ messageBuffer' \in Seq(DataChunks) /\ lastSsnReceived' \in Nat
         /\ delivered' \in [Sids -> Seq(Seq(DataChunks))]
<1> DEFINE kept == IF messageBuffer # <<>> /\ c.ssn # lastSsnReceived
                   THEN <<>> ELSE messageBuffer
           a == Append(kept, c)
<1>1. kept \in Seq(DataChunks) BY DEF ServerTypeOK
<1>2. \/ lastSsnReceived' = 0 /\ messageBuffer' = kept /\ delivered' = delivered
      \/ /\ lastSsnReceived' = c.ssn
         /\ delivered' = [delivered EXCEPT ![c.sid] = Append(@, a)]
         /\ messageBuffer' = <<>>
      \/ lastSsnReceived' = c.ssn /\ messageBuffer' = a /\ delivered' = delivered
  BY DEF OnData
<1> HIDE DEF kept
<1>3. a \in Seq(DataChunks) BY ONLY <1>1, c \in DataChunks
<1> HIDE DEF a
<1>4. c.ssn \in Nat /\ c.sid \in Sids BY DEF DataChunks
<1>5. delivered \in [Sids -> Seq(Seq(DataChunks))] BY DEF ServerTypeOK
<1>6. Append(delivered[c.sid], a) \in Seq(Seq(DataChunks)) BY ONLY <1>3, <1>4, <1>5
<1>7. delivered' \in [Sids -> Seq(Seq(DataChunks))] BY ONLY <1>2, <1>4, <1>5, <1>6
<1>8. <<>> \in Seq(DataChunks) OBVIOUS
<1>9. messageBuffer' \in Seq(DataChunks) BY ONLY <1>1, <1>2, <1>3, <1>8
<1>10. lastSsnReceived' \in Nat BY ONLY <1>2, <1>4
<1> QED BY <1>7, <1>9, <1>10

LEMMA ProcessType ==
  ASSUME StackTypeOK, ServerTypeOK, OsFits, ProcessSctpData
  PROVE  ServerGoal
<1> DEFINE c == Arriving("server")
           rest == [wire EXCEPT !["client"] = Tail(@)]
           G == /\ wire' \in [Ends -> Seq(Chunks)]
                /\ assoc' \in [Ends -> {"closed", "up", "lost"}]
                /\ outstanding' \in [Ends -> Requests \cup {NoRequest}]
                /\ state' \in States /\ os' \in 0..MaxSctpStreams
                /\ messageBuffer' \in Seq(DataChunks) /\ lastSsnReceived' \in Nat
                /\ delivered' \in [Sids -> Seq(Seq(DataChunks))]
                /\ unanswered' \subseteq Sids
                /\ OsFits'
<1>1. Receives("server") BY DEF ProcessSctpData
<1>2. /\ c \in Chunks /\ Tail(wire["client"]) \in Seq(Chunks)
      /\ wire["server"] \in Seq(Chunks)
  BY <1>1, ArrivingType DEF Peer, Ends
<1>3. \/ ReceiveData(c, rest) \/ ReceiveReset(c, rest)
      \/ ReceiveResponse(c, rest) \/ ReceiveAbort(c, rest)
  BY DEF ProcessSctpData
<1> HIDE DEF c
<1>4. rest \in [Ends -> Seq(Chunks)] /\ rest["server"] = wire["server"]
  BY <1>2 DEF StackTypeOK, Ends
<1>5. /\ assoc \in [Ends -> {"closed", "up", "lost"}]
      /\ outstanding \in [Ends -> Requests \cup {NoRequest}]
      /\ state \in States /\ os \in 0..MaxSctpStreams
      /\ messageBuffer \in Seq(DataChunks) /\ lastSsnReceived \in Nat
      /\ delivered \in [Sids -> Seq(Seq(DataChunks))]
      /\ unanswered \subseteq Sids
  BY DEF StackTypeOK, ServerTypeOK
<1> HIDE DEF rest
<1>6. ASSUME NEW r \in Chunks
      PROVE  [rest EXCEPT !["server"] = Append(@, r)] \in [Ends -> Seq(Chunks)]
  <2>1. Append(rest["server"], r) \in Seq(Chunks) BY <1>2, <1>4
  <2> QED BY <2>1, <1>4
<1>7. ASSUME ReceiveData(c, rest) PROVE G
  <2>1. c \in DataChunks /\ OnData(c) BY <1>2, <1>7, ChunkFacts DEF ReceiveData
  <2>2. /\ messageBuffer' \in Seq(DataChunks) /\ lastSsnReceived' \in Nat
        /\ delivered' \in [Sids -> Seq(Seq(DataChunks))]
    BY <2>1, OnDataType
  <2>3. wire' \in [Ends -> Seq(Chunks)]
    <3>1. wire' = [rest EXCEPT !["server"] = Append(@, Sack)] BY <1>7 DEF ReceiveData
    <3>2. Sack \in Chunks BY ChunksMade
    <3> QED BY ONLY <3>1, <3>2, <1>6
  <2>4. OsFits' BY <1>7 DEF ReceiveData, OsFits
  <2> QED BY <2>2, <2>3, <2>4, <1>5, <1>7 DEF ReceiveData
<1>8. ASSUME ReceiveReset(c, rest) PROVE G
  <2> DEFINE base == [rest EXCEPT !["server"] = Append(@, Response(TRUE))]
  <2>1. c.sids \subseteq Sids BY <1>2, <1>8, ChunkFacts DEF ReceiveReset, Resets
  <2>2. base \in [Ends -> Seq(Chunks)]
    <3>1. Response(TRUE) \in Chunks BY ChunksMade
    <3> QED BY ONLY <3>1, <1>6
  <2>3. ResetSctpStreams(c.sids, base) BY <1>8 DEF ReceiveReset
  <2> HIDE DEF base
  <2>4. /\ wire' \in [Ends -> Seq(Chunks)]
        /\ outstanding' \in [Ends -> Requests \cup {NoRequest}]
        /\ outstanding' = outstanding \/ outstanding'["server"].t = "reset"
    BY ONLY <2>1, <2>2, <2>3, StackTypeOK, ResetSctpType
  <2>5. unanswered' \subseteq Sids BY <2>1, <1>5, <1>8 DEF ReceiveReset
  <2>6. OsFits' BY <2>4, <1>8 DEF ReceiveReset, OsFits
  <2> QED BY <2>4, <2>5, <2>6, <1>5, <1>8 DEF ReceiveReset
<1>9. ASSUME ReceiveResponse(c, rest) PROVE G
  <2>1. outstanding' = [outstanding EXCEPT !["server"] = NoRequest]
    BY <1>9 DEF ReceiveResponse
  <2>2. outstanding' \in [Ends -> Requests \cup {NoRequest}]
        /\ outstanding'["server"] = NoRequest
    BY <2>1, <1>5 DEF Ends
  <2>4. os' \in 0..MaxSctpStreams
    <3>1. CASE outstanding["server"].t = "add"
      <4>1. os' = os + outstanding["server"].n BY <3>1, <1>9 DEF ReceiveResponse
      <4>2. outstanding["server"].n \in Nat BY <3>1, RequestFacts DEF Ends
      <4>3. os + outstanding["server"].n <= MaxSctpStreams BY <3>1 DEF OsFits
      <4> QED BY <4>1, <4>2, <4>3, <1>5
    <3>2. CASE outstanding["server"].t # "add" BY <3>2, <1>5, <1>9 DEF ReceiveResponse
    <3> QED BY <3>1, <3>2
  <2>5. OsFits'
    <3>1. NoRequest.t # "add" BY NoAdd
    <3> QED BY <3>1, <2>2 DEF OsFits
  <2>6. wire' = rest BY <1>9 DEF ReceiveResponse
  <2> QED BY <2>2, <2>4, <2>5, <2>6, <1>4, <1>5, <1>9 DEF ReceiveResponse
<1>10. ASSUME ReceiveAbort(c, rest) PROVE G
  <2>1. assoc' = [assoc EXCEPT !["server"] = "lost"] /\ state' = "CLOSED" /\ wire' = rest
    BY <1>10 DEF ReceiveAbort
  <2>2. assoc' \in [Ends -> {"closed", "up", "lost"}] /\ assoc'["server"] = "lost"
    BY <2>1, <1>5 DEF Ends
  <2>3. OsFits' BY <2>2, <1>10 DEF ReceiveAbort, OsFits
  <2>4. state' \in States BY <2>1 DEF States
  <2> QED BY <2>1, <2>2, <2>3, <2>4, <1>4, <1>5, <1>10 DEF ReceiveAbort
<1>11. G BY ONLY <1>3, <1>7, <1>8, <1>9, <1>10
<1>12. StackTypeOK' BY <1>11 DEF ProcessSctpData, StackTypeOK
<1>13. ServerTypeOK' BY <1>11 DEF ProcessSctpData, ServerTypeOK
<1> QED BY <1>11, <1>12, <1>13 DEF ServerGoal

LEMMA DenyType ==
  ASSUME StackTypeOK, ServerTypeOK, OsFits, StackAssumption, DenyReset
  PROVE  ServerGoal
<1>1. faults' \in 0..MaxFaults /\ replies' \in 0..MaxReplies BY FaultType DEF DenyReset
<1>2. Receives("server") BY DEF DenyReset
<1>3. Tail(wire["client"]) \in Seq(Chunks) /\ wire["server"] \in Seq(Chunks)
  BY <1>2, ArrivingType DEF Peer, Ends
<1>4. Response(FALSE) \in Chunks BY ChunksMade
<1> DEFINE r == Response(FALSE)
           T == Tail(wire["client"])
           A == Append(wire["server"], r)
<1>5. wire' = [client |-> T, server |-> A] BY DEF DenyReset
<1> HIDE DEF r, T
<1>6. r \in Chunks /\ T \in Seq(Chunks) BY <1>3, <1>4 DEF r, T
<1>11. A \in Seq(Chunks) BY ONLY <1>3, <1>6
<1> HIDE DEF A
<1>12. /\ DOMAIN wire' = {"client", "server"}
       /\ wire'["client"] = T /\ wire'["server"] = A
       /\ wire' = [e \in DOMAIN wire' |-> wire'[e]]
  BY <1>5
<1>7. wire' \in [Ends -> Seq(Chunks)] BY ONLY <1>6, <1>11, <1>12 DEF Ends
<1>8. StackTypeOK' BY <1>1, <1>7 DEF DenyReset, StackTypeOK
<1>9. ServerTypeOK' BY DEF DenyReset, ServerTypeOK, serverVars
<1>10. OsFits' BY DEF DenyReset, OsFits, serverVars
<1> QED BY <1>8, <1>9, <1>10 DEF ServerGoal

LEMMA UpType ==
  ASSUME StackTypeOK, ServerTypeOK, OsFits, AssociationAssumption, ServerUp
  PROVE  ServerGoal
<1>1. /\ assoc["server"] = "closed" /\ assoc' = [assoc EXCEPT !["server"] = "up"]
  BY DEF ServerUp, StackUp
<1>2. ~MayRequest("server") BY <1>1 DEF MayRequest
<1>3. NegotiatedOs \in 0..MaxSctpStreams /\ os' = NegotiatedOs
      /\ desiredOs \in 0..MaxSctpStreams
  BY DEF AssociationAssumption, ServerUp, ServerTypeOK
<1>4. \/ AddOutgoingStreams(TRUE, NegotiatedOs, wire["server"])
      \/ UNCHANGED <<desiredOs, wire, outstanding>>
  BY DEF ServerUp
<1>5. /\ desiredOs' \in 0..MaxSctpStreams
      /\ wire' \in [Ends -> Seq(Chunks)]
      /\ outstanding' = outstanding
  <2>1. CASE AddOutgoingStreams(TRUE, NegotiatedOs, wire["server"])
    BY <2>1, <1>2, <1>3, AddType
  <2>2. CASE UNCHANGED <<desiredOs, wire, outstanding>>
    BY <2>2, <1>3 DEF StackTypeOK
  <2> QED BY <1>4, <2>1, <2>2
<1>6. assoc' \in [Ends -> {"closed", "up", "lost"}]
  BY <1>1 DEF StackTypeOK
<1>7. StackTypeOK' BY <1>5, <1>6 DEF ServerUp, StackUp, StackTypeOK
<1>8. state' \in States BY DEF ServerUp, States
<1>9. ServerTypeOK' BY <1>3, <1>5, <1>8 DEF ServerUp, ServerTypeOK
<1>10. OsFits' BY <1>1, <1>5 DEF OsFits
<1> QED BY <1>7, <1>9, <1>10 DEF ServerGoal

LEMMA LostType ==
  ASSUME StackTypeOK, ServerTypeOK, OsFits, StackAssumption, ServerLost \/ OnServerCommLost
  PROVE  ServerGoal
<1>1. worker_tasks \in Seq({"CLOSED", "FAILED"}) BY DEF ServerTypeOK
<1>2. CASE ServerLost
  <2>1. faults' \in 0..MaxFaults /\ replies' \in 0..MaxReplies
    BY <1>2, FaultType DEF ServerLost, StackLost
  <2>2. assoc' = [assoc EXCEPT !["server"] = "lost"] BY <1>2 DEF ServerLost, StackLost
  <2>3. assoc' \in [Ends -> {"closed", "up", "lost"}] /\ assoc'["server"] = "lost"
    BY <2>2 DEF StackTypeOK, Ends
  <2>4. worker_tasks' \in Seq({"CLOSED", "FAILED"}) BY <1>1, <1>2 DEF ServerLost
  <2>5. StackTypeOK' BY <1>2, <2>1, <2>3 DEF ServerLost, StackTypeOK
  <2>6. ServerTypeOK' BY <1>2, <2>4 DEF ServerLost, ServerTypeOK
  <2>7. OsFits' BY <1>2, <2>3 DEF ServerLost, OsFits
  <2> QED BY <2>5, <2>6, <2>7 DEF ServerGoal
<1>3. CASE OnServerCommLost
  <2>1. Head(worker_tasks) \in {"CLOSED", "FAILED"}
        /\ Tail(worker_tasks) \in Seq({"CLOSED", "FAILED"})
    BY <1>1, <1>3, HeadTailProperties DEF OnServerCommLost
  <2>2. state' \in States /\ worker_tasks' \in Seq({"CLOSED", "FAILED"})
    BY <1>3, <2>1 DEF OnServerCommLost, States
  <2>3. StackTypeOK' BY <1>3 DEF OnServerCommLost, StackTypeOK, stackVars
  <2>4. ServerTypeOK' BY <1>3, <2>2 DEF OnServerCommLost, ServerTypeOK
  <2>5. OsFits' BY <1>3 DEF OnServerCommLost, OsFits, stackVars
  <2> QED BY <2>3, <2>4, <2>5 DEF ServerGoal
<1> QED BY <1>2, <1>3

LEMMA DestroyedType ==
  ASSUME StackTypeOK, ServerTypeOK, OsFits, StackAssumption, DestroyAssociation
  PROVE  ServerGoal
<1>1. faults' \in 0..MaxFaults /\ replies' \in 0..MaxReplies
  BY FaultType DEF DestroyAssociation
<1>2. /\ sock' \subseteq Ends
      /\ assoc' \in [Ends -> {"closed", "up", "lost"}] /\ assoc'["server"] = "lost"
      /\ wire' \in [Ends -> Seq(Chunks)]
  BY CloseType DEF DestroyAssociation, Ends
<1>3. state' \in States /\ worker_tasks' \in Seq({"CLOSED", "FAILED"})
  BY DEF DestroyAssociation, States
<1>4. StackTypeOK' BY <1>1, <1>2 DEF DestroyAssociation, StackTypeOK
<1>5. ServerTypeOK' BY <1>3 DEF DestroyAssociation, ServerTypeOK
<1>6. OsFits' BY <1>2 DEF DestroyAssociation, OsFits
<1> QED BY <1>4, <1>5, <1>6 DEF ServerGoal

LEMMA ServerType ==
  ASSUME StackTypeOK, ServerTypeOK, OsFits, StackAssumption, AssociationAssumption,
         ServerNext
  PROVE  ServerGoal
<1>1. CASE TransportConnected BY <1>1, ConnectedType
<1>2. CASE ServerUp BY <1>2, UpType
<1>3. CASE ServerLost \/ OnServerCommLost BY <1>3, LostType
<1>4. CASE \E s \in Sids : HandleDataConsumer(s) \/ DataChannelClosed(s)
  BY <1>4, ConsumerType, ClosedType
<1>5. CASE \E s \in Sids, n \in MessageSizes : SendSctpMessage(s, n)
  BY <1>5, MessageType
<1>6. CASE ProcessSctpData BY <1>6, ProcessType
<1>7. CASE DenyReset BY <1>7, DenyType
<1>8. CASE DestroyAssociation BY <1>8, DestroyedType
<1> QED BY <1>1, <1>2, <1>3, <1>4, <1>5, <1>6, <1>7, <1>8 DEF ServerNext

LEMMA TypeInit ==
  ASSUME Constants, Init
  PROVE  TInv
<1>1. <<>> \in Seq(Chunks) /\ <<>> \in Seq(DataChunks) /\ <<>> \in Seq(Tasks)
      /\ <<>> \in Seq(Messages) /\ <<>> \in Seq(Seq(DataChunks))
      /\ <<>> \in Seq({"CLOSED", "FAILED"})
  OBVIOUS
<1>2. StackTypeOK
  <2>1. /\ sock = {} /\ assoc = [e \in Ends |-> "closed"] /\ wire = [e \in Ends |-> <<>>]
        /\ outstanding = [e \in Ends |-> NoRequest] /\ ssn = [s \in Sids |-> 0]
        /\ denied = FALSE /\ faults = 0 /\ replies = 0
        /\ MaxFaults \in Nat /\ MaxReplies \in Nat
    BY DEF Init, StackInit, Constants, StackAssumption
  <2>2. wire \in [Ends -> Seq(Chunks)] BY ONLY <2>1, <1>1
  <2>3. outstanding \in [Ends -> Requests \cup {NoRequest}] BY ONLY <2>1
  <2>4. assoc \in [Ends -> {"closed", "up", "lost"}] /\ ssn \in [Sids -> Nat]
    BY ONLY <2>1
  <2>5. sock \subseteq Ends /\ denied \in BOOLEAN BY ONLY <2>1
  <2>6. faults \in 0..MaxFaults /\ replies \in 0..MaxReplies BY ONLY <2>1
  <2> QED BY ONLY <2>2, <2>3, <2>4, <2>5, <2>6 DEF StackTypeOK
<1>3. ClientTypeOK
  <2>1. /\ alive = TRUE /\ was_ever_writable_ = FALSE /\ started_ = FALSE
        /\ ready_to_send_data_ = FALSE /\ streams = {} /\ closure_initiated = {}
        /\ outgoing_reset_initiated = {} /\ outgoing_reset_complete = {}
        /\ incoming_reset_complete = {} /\ partial_outgoing_message_ = NoMessage
        /\ partial_incoming_message_ = <<>> /\ tasks = <<>>
        /\ sent = [s \in Sids |-> <<>>] /\ received = <<>> /\ opens = 0
        /\ MaxOpens \in Nat
    BY DEF Init, ClientInit, Constants, TransportAssumption
  <2>2. sent \in [Sids -> Seq(Messages)] BY ONLY <2>1, <1>1
  <2>3. received \in Seq(Seq(DataChunks)) /\ partial_incoming_message_ \in Seq(DataChunks)
        /\ tasks \in Seq(Tasks)
    BY ONLY <2>1, <1>1
  <2>4. /\ alive \in BOOLEAN /\ was_ever_writable_ \in BOOLEAN /\ started_ \in BOOLEAN
        /\ ready_to_send_data_ \in BOOLEAN
    BY ONLY <2>1
  <2>5. /\ streams \subseteq Sids /\ closure_initiated \subseteq streams
        /\ outgoing_reset_initiated \subseteq streams
        /\ outgoing_reset_complete \subseteq streams
        /\ incoming_reset_complete \subseteq streams
    BY ONLY <2>1
  <2>6. partial_outgoing_message_ \in Partials \cup {NoMessage} /\ opens \in 0..MaxOpens
    BY ONLY <2>1
  <2> QED BY ONLY <2>2, <2>3, <2>4, <2>5, <2>6 DEF ClientTypeOK
<1>4. ServerTypeOK
  BY <1>1 DEF Init, ServerInit, ServerTypeOK, States, Constants, AssociationAssumption
<1>5. outstanding["server"] = NoRequest BY DEF Init, StackInit, Ends
<1>6. OsFits BY <1>5, NoAdd DEF OsFits
<1> QED BY <1>2, <1>3, <1>4, <1>6 DEF TInv, TypeOK

LEMMA TypeStep ==
  ASSUME Constants, TInv, [Next]_vars
  PROVE  TInv'
<1>1. /\ StackTypeOK /\ ClientTypeOK /\ ServerTypeOK /\ OsFits
      /\ StackAssumption /\ TransportAssumption /\ AssociationAssumption
  BY DEF TInv, TypeOK, Constants
<1>2. CASE Client(ClientNext)
  <2>1. ClientNext /\ UNCHANGED serverVars BY <1>2 DEF Client
  <2>2. ClientGoal BY <1>1, <2>1, ClientType
  <2>3. ServerTypeOK' BY <1>1, <2>1 DEF serverVars, ServerTypeOK
  <2>4. OsFits' BY <1>1, <2>1, <2>2 DEF OsFits, ServerSame, ClientGoal, serverVars
  <2> QED BY <2>2, <2>3, <2>4 DEF TInv, TypeOK, ClientGoal
<1>3. CASE Server(ServerNext)
  <2>1. ServerNext /\ UNCHANGED clientVars BY <1>3 DEF Server
  <2>2. ServerGoal BY <1>1, <2>1, ServerType
  <2>3. ClientTypeOK' BY <1>1, <2>1 DEF clientVars, statusVars, ClientTypeOK
  <2> QED BY <2>2, <2>3 DEF TInv, TypeOK, ServerGoal
<1>4. CASE UNCHANGED vars
  BY <1>4 DEF vars, stackVars, clientVars, serverVars, statusVars, TInv, TypeOK,
              StackTypeOK, ClientTypeOK, ServerTypeOK, OsFits
<1> QED BY <1>2, <1>3, <1>4 DEF Next

(* Every value stays in its range for any streams, lengths and bounds; in  *)
(* particular the server never counts more outgoing streams than usrsctp   *)
(* has (os, after the increases it asks for).                              *)
THEOREM TypeCorrect ==
  ASSUME StackAssumption, TransportAssumption, AssociationAssumption
  PROVE  Spec => []TypeOK
<1>1. Constants BY DEF Constants
<1>2. Init => TInv BY <1>1, TypeInit
<1>3. TInv /\ [Next]_vars => TInv' BY <1>1, TypeStep
<1>4. TInv => TypeOK BY DEF TInv
<1> QED BY <1>2, <1>3, <1>4, PTL DEF Spec

-----------------------------------------------------------------------------
(* The resets the client asks for.  While none is denied, a stream is      *)
(* asked for once: its identifier is in the request under way or in one    *)
(* posted completion, and its flags say so.  The stream of a partial       *)
(* message is in none of them.                                             *)

Pending == outgoing_reset_initiated \ outgoing_reset_complete

Asked(q, req, pend) ==
  /\ req \subseteq pend
  /\ \A k \in DOMAIN q : q[k].t = "outgoing" =>
       q[k].sids \subseteq pend /\ q[k].sids \cap req = {}
  /\ \A k, l \in DOMAIN q :
       q[k].t = "outgoing" /\ q[l].t = "outgoing" /\ k # l => q[k].sids \cap q[l].sids = {}

Free(s, q, req) ==
  s \notin req /\ \A k \in DOMAIN q : q[k].t = "outgoing" => s \notin q[k].sids

Marks ==
  /\ outgoing_reset_complete \subseteq outgoing_reset_initiated
  /\ outgoing_reset_initiated \subseteq closure_initiated \cup incoming_reset_complete

PartialFree ==
  partial_outgoing_message_ # NoMessage =>
    /\ partial_outgoing_message_.m.sid \in streams \ outgoing_reset_complete
    /\ Free(partial_outgoing_message_.m.sid, tasks, Requested("client"))

NoFailed == \A k \in DOMAIN tasks : tasks[k].t # "failed"
NoDenial == \A k \in DOMAIN wire["server"] :
              wire["server"][k].t = "response" => wire["server"][k].ok

Closings == /\ Marks /\ Asked(tasks, Requested("client"), Pending)
            /\ PartialFree /\ NoFailed

LEMMA TailFacts ==
  ASSUME NEW S, NEW q \in Seq(S), q # <<>>
  PROVE  /\ Tail(q) \in Seq(S) /\ Head(q) = q[1] /\ 1 \in DOMAIN q
         /\ \A k \in DOMAIN Tail(q) : k + 1 \in DOMAIN q /\ k + 1 # 1 /\ Tail(q)[k] = q[k + 1]
         /\ \A k \in DOMAIN q \ {1} : k - 1 \in DOMAIN Tail(q) /\ Tail(q)[k - 1] = q[k]
<1>1. Len(q) \in Nat \ {0} /\ DOMAIN q = 1..Len(q) BY LenProperties, EmptySeq
<1>2. Tail(q) \in Seq(S) /\ Len(Tail(q)) = Len(q) - 1 /\ Head(q) = q[1]
      /\ \A i \in 1..Len(Tail(q)) : Tail(q)[i] = q[i + 1]
  BY <1>1, HeadTailProperties
<1>3. DOMAIN Tail(q) = 1..(Len(q) - 1) BY <1>2, LenProperties
<1>4. \A k \in DOMAIN q \ {1} : k - 1 \in DOMAIN Tail(q) /\ Tail(q)[k - 1] = q[k]
  <2> TAKE k \in DOMAIN q \ {1}
  <2>1. k - 1 \in 1..Len(Tail(q)) /\ (k - 1) + 1 = k BY <1>1, <1>2
  <2> QED BY <2>1, <1>2, <1>3
<1> QED BY <1>1, <1>2, <1>3, <1>4

LEMMA ConcatFacts ==
  ASSUME NEW S, NEW q \in Seq(S), NEW r \in Seq(S)
  PROVE  /\ q \o r \in Seq(S)
         /\ \A k \in DOMAIN q : k \in DOMAIN (q \o r) /\ (q \o r)[k] = q[k]
         /\ \A k \in DOMAIN (q \o r) \ DOMAIN q :
              k - Len(q) \in DOMAIN r /\ (q \o r)[k] = r[k - Len(q)]
         /\ \A k \in DOMAIN r : Len(q) + k \in DOMAIN (q \o r) /\ (q \o r)[Len(q) + k] = r[k]
<1>1. Len(q) \in Nat /\ DOMAIN q = 1..Len(q) /\ Len(r) \in Nat /\ DOMAIN r = 1..Len(r)
  BY LenProperties
<1>2. q \o r \in Seq(S) /\ Len(q \o r) = Len(q) + Len(r)
      /\ \A i \in 1..(Len(q) + Len(r)) :
           (q \o r)[i] = IF i <= Len(q) THEN q[i] ELSE r[i - Len(q)]
  BY ConcatProperties
<1>3. DOMAIN (q \o r) = 1..(Len(q) + Len(r)) BY <1>2, LenProperties
<1> QED BY <1>1, <1>2, <1>3

LEMMA AppendFacts ==
  ASSUME NEW S, NEW q \in Seq(S), NEW x \in S
  PROVE  /\ Append(q, x) \in Seq(S) /\ Len(q) + 1 \in DOMAIN Append(q, x)
         /\ Append(q, x)[Len(q) + 1] = x
         /\ \A k \in DOMAIN q : k \in DOMAIN Append(q, x) /\ Append(q, x)[k] = q[k]
         /\ \A k \in DOMAIN Append(q, x) : k \in DOMAIN q \/ k = Len(q) + 1
         /\ Len(q) + 1 \notin DOMAIN q
<1>1. Len(q) \in Nat /\ DOMAIN q = 1..Len(q) BY LenProperties
<1>2. Append(q, x) \in Seq(S) /\ Len(Append(q, x)) = Len(q) + 1
      /\ (\A i \in 1..Len(q) : Append(q, x)[i] = q[i]) /\ Append(q, x)[Len(q) + 1] = x
  BY AppendProperties
<1>3. DOMAIN Append(q, x) = 1..(Len(q) + 1) BY <1>2, LenProperties
<1> QED BY <1>1, <1>2, <1>3

LEMMA AskedTail ==
  ASSUME NEW q \in Seq(Tasks), q # <<>>, NEW req, NEW pend, Asked(q, req, pend)
  PROVE  /\ Asked(Tail(q), req, pend)
         /\ Head(q).t = "outgoing" =>
              Head(q).sids \subseteq pend /\ Asked(Tail(q), req, pend \ Head(q).sids)
<1>1. /\ Tail(q) \in Seq(Tasks) /\ Head(q) = q[1] /\ 1 \in DOMAIN q
      /\ \A k \in DOMAIN Tail(q) : k + 1 \in DOMAIN q /\ k + 1 # 1 /\ Tail(q)[k] = q[k + 1]
  BY TailFacts
<1>2. \A k, l \in DOMAIN Tail(q) : k # l => k + 1 # l + 1
  <2>1. DOMAIN Tail(q) \subseteq Int BY <1>1, LenProperties
  <2> QED BY <2>1
<1>3. Asked(Tail(q), req, pend) BY <1>1, <1>2 DEF Asked
<1>4. ASSUME Head(q).t = "outgoing"
      PROVE  Head(q).sids \subseteq pend /\ Asked(Tail(q), req, pend \ Head(q).sids)
  <2>1. /\ q[1].sids \subseteq pend /\ q[1].sids \cap req = {} /\ req \subseteq pend
    BY <1>1, <1>4 DEF Asked
  <2>2. \A k \in DOMAIN Tail(q) : Tail(q)[k].t = "outgoing" =>
          Tail(q)[k].sids \cap q[1].sids = {}
    BY <1>1, <1>4 DEF Asked
  <2> QED BY <1>1, <1>3, <2>1, <2>2 DEF Asked
<1> QED BY <1>3, <1>4

LEMMA AskedPost ==
  ASSUME NEW q \in Seq(Tasks), NEW new \in Seq(Tasks),
         \A k \in DOMAIN new : new[k].t # "outgoing", NEW req, NEW pend
  PROVE  /\ Asked(q, req, pend) => Asked(q \o new, req, pend)
         /\ \A s : Free(s, q, req) => Free(s, q \o new, req)
<1>1. /\ \A k \in DOMAIN q : k \in DOMAIN (q \o new) /\ (q \o new)[k] = q[k]
      /\ \A k \in DOMAIN (q \o new) \ DOMAIN q :
           k - Len(q) \in DOMAIN new /\ (q \o new)[k] = new[k - Len(q)]
  BY ConcatFacts
<1>2. \A k \in DOMAIN (q \o new) : (q \o new)[k].t = "outgoing" =>
        k \in DOMAIN q /\ (q \o new)[k] = q[k]
  BY <1>1
<1> QED BY <1>2 DEF Asked, Free

LEMMA AskedDone ==
  ASSUME NEW q \in Seq(Tasks), NEW req \in SUBSET Sids, NEW pend, Asked(q, req, pend)
  PROVE  /\ Asked(q \o <<[t |-> "outgoing", sids |-> req]>>, {}, pend)
         /\ \A s : Free(s, q, req) => Free(s, q \o <<[t |-> "outgoing", sids |-> req]>>, {})
<1> DEFINE x == [t |-> "outgoing", sids |-> req]
           new == <<x>>
<1>1. x \in Tasks BY TasksMade
<1>2. x.sids = req OBVIOUS
<1> HIDE DEF x
<1>3. new \in Seq(Tasks) /\ DOMAIN new = {1} /\ new[1] = x BY <1>1
<1> HIDE DEF new
<1>4. /\ \A k \in DOMAIN q : k \in DOMAIN (q \o new) /\ (q \o new)[k] = q[k]
      /\ \A k \in DOMAIN (q \o new) \ DOMAIN q :
           k - Len(q) \in DOMAIN new /\ (q \o new)[k] = new[k - Len(q)]
  BY <1>3, ConcatFacts
<1>5. DOMAIN (q \o new) \subseteq Int /\ Len(q) \in Nat
  <2>1. q \o new \in Seq(Tasks) BY <1>3, ConcatFacts
  <2> QED BY <2>1, LenProperties
<1>6. \A k \in DOMAIN (q \o new) :
        \/ k \in DOMAIN q /\ (q \o new)[k] = q[k]
        \/ k = Len(q) + 1 /\ (q \o new)[k] = x
  BY <1>3, <1>4, <1>5
<1>7. Asked(q \o new, {}, pend) BY <1>2, <1>6 DEF Asked
<1>8. \A s : Free(s, q, req) => Free(s, q \o new, {}) BY <1>2, <1>6 DEF Free
<1> QED BY <1>7, <1>8 DEF new, x

LEMMA AskedMore ==
  ASSUME NEW q, NEW pend, NEW more, pend \subseteq more, NEW req, Asked(q, req, pend)
  PROVE  /\ Asked(q, req, more)
         /\ \A ask : req = {} /\ ask \subseteq more \ pend => Asked(q, ask, more)
  BY DEF Asked

LEMMA AskedFree ==
  ASSUME NEW q, NEW req, NEW pend, Asked(q, req, pend), NEW s, s \notin pend
  PROVE  Free(s, q, req)
  BY DEF Asked, Free

LEMMA QueuedClosings ==
  ASSUME NEW C, NEW I, NEW R, NEW partial, NEW queue,
         StackTypeOK, streams' \subseteq Sids, C \subseteq streams', R \subseteq streams',
         I \subseteq C \cup R, outgoing_reset_complete' \subseteq I, queue \in Seq(Chunks),
         SendQueuedStreamResets(C, I, R, partial, queue),
         closure_initiated' = C, incoming_reset_complete' = R,
         partial_outgoing_message_' = partial,
         Asked(tasks', Requested("client"), I \ outgoing_reset_complete'),
         partial # NoMessage => /\ partial.m.sid \in streams' \ outgoing_reset_complete'
                                /\ Free(partial.m.sid, tasks', Requested("client"))
  PROVE  Marks' /\ Asked(tasks', Requested("client")', Pending') /\ PartialFree'
<1>1. C \subseteq Sids /\ R \subseteq Sids OBVIOUS
<1>2. /\ I \subseteq outgoing_reset_initiated'
      /\ outgoing_reset_initiated' \subseteq I \cup C \cup R
      /\ \/ outstanding' = outstanding
         \/ \E ask \in SUBSET Sids :
              /\ MayRequest("client")
              /\ ask \subseteq (C \cup R) \ I
              /\ ask \subseteq outgoing_reset_initiated'
              /\ partial # NoMessage => partial.m.sid \notin ask
              /\ outstanding'["client"] = [t |-> "reset", sids |-> ask]
  <2>1. /\ I \subseteq outgoing_reset_initiated'
        /\ outgoing_reset_initiated' \subseteq I \cup C \cup R
        /\ Outcome(C, I, R, partial, queue)
    BY <1>1, ResetsFacts
  <2> QED BY <2>1 DEF Outcome
<1>3. Marks' BY <1>2 DEF Marks
<1>4. I \ outgoing_reset_complete' \subseteq Pending' BY <1>2 DEF Pending
<1>5. CASE outstanding' = outstanding
  <2>1. Requested("client")' = Requested("client") BY <1>5 DEF Requested
  <2>2. Asked(tasks', Requested("client"), Pending') BY <1>4, AskedMore
  <2> QED BY <1>3, <2>1, <2>2 DEF PartialFree
<1>6. ASSUME NEW ask \in SUBSET Sids, MayRequest("client"), ask \subseteq (C \cup R) \ I,
             ask \subseteq outgoing_reset_initiated',
             partial # NoMessage => partial.m.sid \notin ask,
             outstanding'["client"] = [t |-> "reset", sids |-> ask]
      PROVE  Asked(tasks', Requested("client")', Pending') /\ PartialFree'
  <2>1. Requested("client") = {} BY <1>6, RequestFacts DEF MayRequest, Ends
  <2>2. Requested("client")' = ask BY <1>6 DEF Requested
  <2>3. ask \subseteq Pending' \ (I \ outgoing_reset_complete') BY <1>6 DEF Pending
  <2>4. Asked(tasks', ask, Pending') BY <1>4, <2>1, <2>3, AskedMore
  <2>5. PartialFree' BY <1>6, <2>2 DEF PartialFree, Free
  <2> QED BY <2>2, <2>4, <2>5
<1>7. Asked(tasks', Requested("client")', Pending') /\ PartialFree'
  BY <1>2, <1>5, <1>6
<1> QED BY <1>3, <1>7

(* A step that leaves the flags and the requests of the streams alone.     *)
LEMMA ClosingsKept ==
  ASSUME Closings, UNCHANGED <<closure_initiated, outgoing_reset_initiated,
                               outgoing_reset_complete, incoming_reset_complete>>,
         outstanding'["client"] = outstanding["client"],
         Asked(tasks', Requested("client"), Pending), NoFailed',
         partial_outgoing_message_' # NoMessage =>
           /\ partial_outgoing_message_'.m.sid \in streams' \ outgoing_reset_complete
           /\ Free(partial_outgoing_message_'.m.sid, tasks', Requested("client"))
  PROVE  Closings'
<1>1. Requested("client")' = Requested("client") /\ Pending' = Pending
  BY DEF Requested, Pending
<1>2. Marks' BY DEF Closings, Marks
<1>3. PartialFree' BY <1>1 DEF PartialFree
<1> QED BY <1>1, <1>2, <1>3 DEF Closings

LEMMA ClosingsPost ==
  ASSUME NEW new, new \in Seq(Tasks), ClientTypeOK, Closings, Post(new),
         \A k \in DOMAIN new : new[k].t \notin {"outgoing", "failed"}
  PROVE  /\ Asked(tasks', Requested("client"), Pending) /\ NoFailed'
         /\ \A s : Free(s, tasks, Requested("client")) => Free(s, tasks', Requested("client"))
<1>1. tasks \in Seq(Tasks) /\ tasks' = tasks \o new BY DEF ClientTypeOK, Post
<1>2. /\ Asked(tasks, Requested("client"), Pending)
            => Asked(tasks \o new, Requested("client"), Pending)
      /\ \A s : Free(s, tasks, Requested("client")) => Free(s, tasks \o new, Requested("client"))
  BY <1>1, AskedPost
<1>3. /\ \A k \in DOMAIN tasks : (tasks \o new)[k] = tasks[k]
      /\ \A k \in DOMAIN (tasks \o new) \ DOMAIN tasks :
           k - Len(tasks) \in DOMAIN new /\ (tasks \o new)[k] = new[k - Len(tasks)]
  BY <1>1, ConcatFacts
<1>4. NoFailed' BY <1>1, <1>3 DEF Closings, NoFailed
<1> QED BY <1>1, <1>2, <1>4 DEF Closings

LEMMA ClosingsRun ==
  ASSUME NEW t, ClientTypeOK, Closings, Runs(t)
  PROVE  /\ Asked(tasks', Requested("client"), Pending) /\ NoFailed' /\ t # "failed"
         /\ \A s : Free(s, tasks, Requested("client")) => Free(s, tasks', Requested("client"))
         /\ t = "outgoing" =>
              /\ Head(tasks).sids \subseteq Pending
              /\ Asked(tasks', Requested("client"), Pending \ Head(tasks).sids)
              /\ \A s : Free(s, tasks, Requested("client")) => s \notin Head(tasks).sids
<1>1. tasks \in Seq(Tasks) /\ tasks # <<>> /\ Head(tasks).t = t /\ tasks' = Tail(tasks)
  BY DEF ClientTypeOK, Runs
<1>2. /\ Head(tasks) = tasks[1] /\ 1 \in DOMAIN tasks
      /\ \A k \in DOMAIN Tail(tasks) : k + 1 \in DOMAIN tasks /\ Tail(tasks)[k] = tasks[k + 1]
  BY <1>1, TailFacts
<1>3. /\ Asked(tasks', Requested("client"), Pending)
      /\ t = "outgoing" =>
           /\ Head(tasks).sids \subseteq Pending
           /\ Asked(tasks', Requested("client"), Pending \ Head(tasks).sids)
  BY <1>1, AskedTail DEF Closings
<1>4. NoFailed' /\ t # "failed" BY <1>1, <1>2 DEF Closings, NoFailed
<1>5. \A s : Free(s, tasks, Requested("client")) =>
               /\ Free(s, tasks', Requested("client"))
               /\ t = "outgoing" => s \notin Head(tasks).sids
  BY <1>1, <1>2 DEF Free
<1> QED BY <1>3, <1>4, <1>5

LEMMA OpenFree ==
  ASSUME NEW s, Closings, is_open(s)
  PROVE  s \in streams \ outgoing_reset_complete /\ Free(s, tasks, Requested("client"))
<1>1. s \in streams \ outgoing_reset_complete /\ s \notin Pending
  BY DEF is_open, Closings, Marks, Pending
<1>2. Asked(tasks, Requested("client"), Pending) BY DEF Closings
<1> QED BY <1>1, <1>2, AskedFree

LEMMA PlainClosings ==
  ASSUME ClientTypeOK, Closings,
         \/ Start \/ OnWritableState \/ \E s \in Sids : OpenStream(s) \/ SendDataBlocked(s)
  PROVE  Closings'
<1>1. /\ UNCHANGED <<closure_initiated, outgoing_reset_initiated, outgoing_reset_complete,
                     incoming_reset_complete, partial_outgoing_message_, tasks, outstanding>>
      /\ streams \subseteq streams'
  BY DEF Start, OnWritableState, OpenStream, SendDataBlocked, statusVars, stackVars
<1>2. /\ Asked(tasks', Requested("client"), Pending) /\ NoFailed'
      /\ partial_outgoing_message_' # NoMessage =>
           /\ partial_outgoing_message_'.m.sid \in streams' \ outgoing_reset_complete
           /\ Free(partial_outgoing_message_'.m.sid, tasks', Requested("client"))
  BY <1>1 DEF Closings, NoFailed, PartialFree
<1> QED BY <1>1, <1>2, ClosingsKept

LEMMA ResetStreamClosings ==
  ASSUME NEW s \in Sids, StackTypeOK, ClientTypeOK, Closings, ResetStream(s)
  PROVE  Closings'
<1> DEFINE C == closure_initiated \cup {s}
<1>1. /\ C \subseteq streams /\ streams \subseteq Sids /\ incoming_reset_complete \subseteq streams
      /\ outgoing_reset_initiated \subseteq C \cup incoming_reset_complete
      /\ outgoing_reset_complete \subseteq outgoing_reset_initiated
      /\ wire["client"] \in Seq(Chunks)
  BY DEF ResetStream, is_open, ClientTypeOK, StackTypeOK, Ends, Closings, Marks
<1>2. /\ SendQueuedStreamResets(C, outgoing_reset_initiated, incoming_reset_complete,
                                partial_outgoing_message_, wire["client"])
      /\ streams' = streams /\ closure_initiated' = C
      /\ incoming_reset_complete' = incoming_reset_complete
      /\ outgoing_reset_complete' = outgoing_reset_complete
      /\ partial_outgoing_message_' = partial_outgoing_message_ /\ tasks' = tasks
  BY DEF ResetStream
<1>3. /\ Asked(tasks', Requested("client"), outgoing_reset_initiated \ outgoing_reset_complete)
      /\ partial_outgoing_message_ # NoMessage =>
           /\ partial_outgoing_message_.m.sid \in streams \ outgoing_reset_complete
           /\ Free(partial_outgoing_message_.m.sid, tasks', Requested("client"))
  BY <1>2 DEF Closings, Pending, PartialFree
<1> HIDE DEF C
<1>4. Marks' /\ Asked(tasks', Requested("client")', Pending') /\ PartialFree'
  BY ONLY <1>1, <1>2, <1>3, StackTypeOK, QueuedClosings
<1>5. NoFailed' BY <1>2 DEF Closings, NoFailed
<1> QED BY <1>4, <1>5 DEF Closings

LEMMA SendDataClosings ==
  ASSUME NEW s \in Sids, NEW n \in 1..MaxFragments, StackTypeOK, ClientTypeOK,
         StackAssumption, TransportAssumption, Closings, SendData(s, n)
  PROVE  Closings'
<1> DEFINE m == [sid |-> s, ssn |-> ssn[s], id |-> Len(sent[s]) + 1, n |-> n]
           out == Sendv(m, 1)
<1>1. ssn[s] \in Nat /\ sent[s] \in Seq(Messages) BY DEF StackTypeOK, ClientTypeOK
<1>2. Len(sent[s]) + 1 \in Nat BY <1>1, LenProperties
<1>3. m \in Messages /\ m.sid = s BY <1>1, <1>2 DEF Messages
<1>4. partial_outgoing_message_' = out.partial /\ Room("client", wire["client"]) > 0
  BY DEF SendData
<1>5. /\ UNCHANGED <<closure_initiated, outgoing_reset_initiated, outgoing_reset_complete,
                     incoming_reset_complete, streams, tasks, outstanding>>
      /\ is_open(s)
  BY DEF SendData, statusVars
<1> HIDE DEF m
<1>6. 1 \in 1..MaxFragments BY DEF TransportAssumption
<1>7. out.partial # NoMessage => out.partial.m = m
  BY ONLY <1>3, <1>4, <1>6, StackTypeOK, StackAssumption, TransportAssumption, SendvFacts
<1> HIDE DEF out
<1>8. s \in streams \ outgoing_reset_complete /\ Free(s, tasks, Requested("client"))
  BY <1>5, OpenFree
<1>9. Asked(tasks', Requested("client"), Pending) /\ NoFailed'
  BY <1>5 DEF Closings, NoFailed
<1> QED BY <1>3, <1>4, <1>5, <1>7, <1>8, <1>9, ClosingsKept

(* A step that posts something harmless.                                   *)
LEMMA PostedClosings ==
  ASSUME NEW new, new \in Seq(Tasks), ClientTypeOK, Closings, Post(new),
         \A k \in DOMAIN new : new[k].t \notin {"outgoing", "failed"},
         UNCHANGED <<statusVars, partial_outgoing_message_>>,
         outstanding'["client"] = outstanding["client"]
  PROVE  Closings'
<1>1. /\ Asked(tasks', Requested("client"), Pending) /\ NoFailed'
      /\ \A s : Free(s, tasks, Requested("client")) => Free(s, tasks', Requested("client"))
  BY ClosingsPost
<1>2. UNCHANGED <<streams, closure_initiated, outgoing_reset_initiated,
                  outgoing_reset_complete, incoming_reset_complete>>
  BY DEF statusVars
<1>3. partial_outgoing_message_' # NoMessage =>
        /\ partial_outgoing_message_'.m.sid \in streams' \ outgoing_reset_complete
        /\ Free(partial_outgoing_message_'.m.sid, tasks', Requested("client"))
  BY <1>1, <1>2 DEF Closings, PartialFree
<1> QED BY <1>1, <1>2, <1>3, ClosingsKept

LEMMA PacketClosings ==
  ASSUME StackTypeOK, ClientTypeOK, Closings, NoDenial, OnPacketRead
  PROVE  Closings'
<1> DEFINE c == Arriving("client")
           rest == [wire EXCEPT !["server"] = Tail(@)]
<1>1. /\ c \in Chunks /\ wire["server"] \in Seq(Chunks) /\ wire["server"] # <<>>
      /\ c = Head(wire["server"])
  BY ArrivingType DEF OnPacketRead, Peer, Ends, Arriving
<1>2. c.t = "response" => c.ok
  <2>1. Head(wire["server"]) = wire["server"][1] /\ 1 \in DOMAIN wire["server"]
    BY <1>1, TailFacts
  <2> QED BY <1>1, <2>1 DEF NoDenial
<1>3. \/ DataRead(c, rest) \/ SackRead(c, rest) \/ RequestRead(c, rest)
      \/ ResponseRead(c, rest) \/ AbortRead(c, rest)
  BY DEF OnPacketRead
<1>4. UNCHANGED <<statusVars, partial_outgoing_message_>> BY DEF OnPacketRead
<1> HIDE DEF c, rest
<1>5. CASE DataRead(c, rest)
  <2>1. c.t = "data" /\ Post(<<c>>) /\ outstanding' = outstanding BY <1>5 DEF DataRead
  <2>2. c \in Tasks BY <1>1, <2>1, ChunkFacts, TasksMade
  <2> DEFINE new == <<c>>
  <2>3. new \in Seq(Tasks) /\ \A k \in DOMAIN new : new[k].t \notin {"outgoing", "failed"}
    BY <2>1, <2>2
  <2> HIDE DEF new
  <2>4. Post(new) BY <2>1 DEF new
  <2> QED BY <2>1, <2>3, <2>4, <1>4, PostedClosings
<1>6. CASE SackRead(c, rest)
  <2> DEFINE new == IF Unacked("client", wire["client"]) = 1
                    THEN <<Task("dry"), Task("threshold")>> ELSE <<Task("threshold")>>
  <2>1. Post(new) /\ outstanding' = outstanding BY <1>6 DEF SackRead
  <2>2. /\ Task("dry") \in Tasks /\ Task("threshold") \in Tasks
        /\ Task("dry").t \notin {"outgoing", "failed"}
        /\ Task("threshold").t \notin {"outgoing", "failed"}
    BY TasksMade DEF Task
  <2>3. new \in Seq(Tasks) /\ \A k \in DOMAIN new : new[k].t \notin {"outgoing", "failed"}
    BY <2>2
  <2> HIDE DEF new
  <2> QED BY <2>1, <2>3, <1>4, PostedClosings
<1>7. CASE RequestRead(c, rest)
  <2>1. outstanding' = outstanding BY <1>7 DEF RequestRead
  <2>2. CASE c.t = "reset"
    <3>1. c \in Tasks BY <1>1, <2>2, ChunkFacts, TasksMade
    <3> DEFINE new == <<c>>
    <3>2. new \in Seq(Tasks) /\ \A k \in DOMAIN new : new[k].t \notin {"outgoing", "failed"}
      BY <2>2, <3>1
    <3>3. Post(new) BY <1>7, <2>2 DEF RequestRead
    <3> HIDE DEF new
    <3> QED BY <2>1, <3>2, <3>3, <1>4, PostedClosings
  <2>3. CASE c.t # "reset"
    <3>1. tasks' = tasks BY <1>7, <2>3 DEF RequestRead
    <3>2. UNCHANGED <<streams, closure_initiated, outgoing_reset_initiated,
                      outgoing_reset_complete, incoming_reset_complete>>
      BY <1>4 DEF statusVars
    <3>3. /\ Asked(tasks', Requested("client"), Pending) /\ NoFailed'
          /\ partial_outgoing_message_' # NoMessage =>
               /\ partial_outgoing_message_'.m.sid \in streams' \ outgoing_reset_complete
               /\ Free(partial_outgoing_message_'.m.sid, tasks', Requested("client"))
      BY <3>1, <3>2, <1>4 DEF Closings, NoFailed, PartialFree
    <3> QED BY <2>1, <3>2, <3>3, ClosingsKept
  <2> QED BY <2>2, <2>3
<1>8. CASE ResponseRead(c, rest)
  <2> DEFINE new == <<[t |-> "outgoing", sids |-> Requested("client")]>>
  <2>1. c.ok /\ Post(new) BY <1>2, <1>8 DEF ResponseRead
  <2>2. Requested("client") \in SUBSET Sids BY RequestFacts DEF Ends
  <2>3. tasks \in Seq(Tasks) /\ Asked(tasks, Requested("client"), Pending)
    BY DEF ClientTypeOK, Closings
  <2>4. /\ Asked(tasks \o new, {}, Pending)
        /\ \A s : Free(s, tasks, Requested("client")) => Free(s, tasks \o new, {})
    BY <2>2, <2>3, AskedDone
  <2>5. new \in Seq(Tasks) /\ \A k \in DOMAIN new : new[k].t # "failed"
    BY <2>2, TasksMade
  <2> HIDE DEF new
  <2>6. tasks' = tasks \o new BY <2>1 DEF Post
  <2>7. NoFailed'
    <3>1. /\ \A k \in DOMAIN tasks : (tasks \o new)[k] = tasks[k]
          /\ \A k \in DOMAIN (tasks \o new) \ DOMAIN tasks :
               k - Len(tasks) \in DOMAIN new /\ (tasks \o new)[k] = new[k - Len(tasks)]
      BY <2>3, <2>5, ConcatFacts
    <3> QED BY <2>5, <2>6, <3>1 DEF Closings, NoFailed
  <2>8. Requested("client")' = {}
    <3>1. outstanding' = [outstanding EXCEPT !["client"] = NoRequest]
      BY <1>8 DEF ResponseRead
    <3>2. outstanding'["client"] = NoRequest BY <3>1 DEF StackTypeOK, Ends
    <3> QED BY <3>2 DEF Requested, NoRequest
  <2>9. UNCHANGED <<streams, closure_initiated, outgoing_reset_initiated,
                    outgoing_reset_complete, incoming_reset_complete>>
    BY <1>4 DEF statusVars
  <2>10. Pending' = Pending /\ Marks' BY <2>9 DEF Pending, Marks, Closings
  <2>11. PartialFree' BY <2>4, <2>6, <2>8, <2>9, <1>4 DEF PartialFree, Closings
  <2> QED BY <2>4, <2>6, <2>7, <2>8, <2>10, <2>11 DEF Closings
<1>9. CASE AbortRead(c, rest)
  <2> DEFINE new == <<Task("commlost")>>
  <2>1. Post(new) /\ outstanding' = outstanding BY <1>9 DEF AbortRead
  <2>2. Task("commlost") \in Tasks /\ Task("commlost").t \notin {"outgoing", "failed"}
    BY TasksMade DEF Task
  <2>3. new \in Seq(Tasks) /\ \A k \in DOMAIN new : new[k].t \notin {"outgoing", "failed"}
    BY <2>2
  <2> HIDE DEF new
  <2> QED BY <2>1, <2>3, <1>4, PostedClosings
<1> QED BY <1>3, <1>5, <1>6, <1>7, <1>8, <1>9

LEMMA NotifiedClosings ==
  ASSUME ClientTypeOK, Closings, ClientNotified
  PROVE  Closings'
<1>1. UNCHANGED <<statusVars, partial_outgoing_message_, outstanding>> BY DEF ClientNotified
<1>2. /\ Task("commup") \in Tasks /\ Task("commup").t \notin {"outgoing", "failed"}
      /\ Task("commlost") \in Tasks /\ Task("commlost").t \notin {"outgoing", "failed"}
  BY TasksMade DEF Task
<1>3. PICK t \in {Task("commup"), Task("commlost")} : Post(<<t>>) BY DEF ClientNotified
<1> DEFINE new == <<t>>
<1>4. new \in Seq(Tasks) /\ \A k \in DOMAIN new : new[k].t \notin {"outgoing", "failed"}
  BY <1>2
<1> HIDE DEF new
<1>5. Post(new) BY <1>3 DEF new
<1> QED BY <1>1, <1>4, <1>5, PostedClosings

(* A task that leaves the flags and the requests alone.                    *)
LEMMA RunClosings ==
  ASSUME ClientTypeOK, Closings, OnSenderDry \/ OnCommLost \/ OnDataFromSctp
  PROVE  Closings'
<1>1. PICK t : Runs(t) BY DEF OnSenderDry, OnCommLost, OnDataFromSctp
<1>2. /\ UNCHANGED <<streams, closure_initiated, outgoing_reset_initiated,
                     outgoing_reset_complete, incoming_reset_complete,
                     partial_outgoing_message_, outstanding>>
  BY DEF OnSenderDry, OnCommLost, OnDataFromSctp, statusVars, stackVars
<1>3. /\ Asked(tasks', Requested("client"), Pending) /\ NoFailed'
      /\ \A s : Free(s, tasks, Requested("client")) => Free(s, tasks', Requested("client"))
  BY <1>1, ClosingsRun
<1>4. partial_outgoing_message_' # NoMessage =>
        /\ partial_outgoing_message_'.m.sid \in streams' \ outgoing_reset_complete
        /\ Free(partial_outgoing_message_'.m.sid, tasks', Requested("client"))
  BY <1>2, <1>3 DEF Closings, PartialFree
<1> QED BY <1>2, <1>3, <1>4, ClosingsKept

LEMMA CommUpClosings ==
  ASSUME StackTypeOK, ClientTypeOK, Closings, OnCommUp
  PROVE  Closings'
<1>1. Runs("commup") BY DEF OnCommUp
<1>2. /\ Asked(tasks', Requested("client"), Pending) /\ NoFailed'
      /\ \A s : Free(s, tasks, Requested("client")) => Free(s, tasks', Requested("client"))
  BY <1>1, ClosingsRun
<1>3. /\ SendQueuedStreamResets(closure_initiated, outgoing_reset_initiated,
                                incoming_reset_complete, partial_outgoing_message_,
                                wire["client"])
      /\ streams' = streams /\ closure_initiated' = closure_initiated
      /\ incoming_reset_complete' = incoming_reset_complete
      /\ outgoing_reset_complete' = outgoing_reset_complete
      /\ partial_outgoing_message_' = partial_outgoing_message_
  BY DEF OnCommUp
<1>4. /\ streams \subseteq Sids /\ closure_initiated \subseteq streams
      /\ incoming_reset_complete \subseteq streams
      /\ outgoing_reset_initiated \subseteq closure_initiated \cup incoming_reset_complete
      /\ outgoing_reset_complete \subseteq outgoing_reset_initiated
      /\ wire["client"] \in Seq(Chunks)
  BY DEF ClientTypeOK, StackTypeOK, Ends, Closings, Marks
<1>5. /\ Asked(tasks', Requested("client"), outgoing_reset_initiated \ outgoing_reset_complete)
      /\ partial_outgoing_message_ # NoMessage =>
           /\ partial_outgoing_message_.m.sid \in streams \ outgoing_reset_complete
           /\ Free(partial_outgoing_message_.m.sid, tasks', Requested("client"))
  BY <1>2 DEF Closings, Pending, PartialFree
<1>6. Marks' /\ Asked(tasks', Requested("client")', Pending') /\ PartialFree'
  BY ONLY <1>3, <1>4, <1>5, StackTypeOK, QueuedClosings
<1> QED BY <1>2, <1>6 DEF Closings

LEMMA StreamResetClosings ==
  ASSUME NEW incoming, NEW outgoing, StackTypeOK, ClientTypeOK,
         OnStreamReset(incoming, outgoing),
         incoming \subseteq streams, outgoing \subseteq outgoing_reset_initiated,
         outgoing_reset_initiated \subseteq closure_initiated \cup incoming, NoFailed',
         Asked(tasks', Requested("client"), outgoing_reset_initiated \ outgoing),
         partial_outgoing_message_ # NoMessage =>
           /\ partial_outgoing_message_.m.sid \in streams \ outgoing
           /\ Free(partial_outgoing_message_.m.sid, tasks', Requested("client"))
  PROVE  Closings'
<1> DEFINE done == incoming \cap outgoing
           C == closure_initiated \ done
           I == outgoing_reset_initiated \ done
           R == incoming \ done
<1>1. /\ streams' = streams \ done /\ closure_initiated' = C /\ incoming_reset_complete' = R
      /\ outgoing_reset_complete' = outgoing \ done
      /\ partial_outgoing_message_' = partial_outgoing_message_
      /\ SendQueuedStreamResets(C, I, R, partial_outgoing_message_, wire["client"])
  BY DEF OnStreamReset
<1>2. /\ streams' \subseteq Sids /\ C \subseteq streams' /\ R \subseteq streams'
      /\ I \subseteq C \cup R /\ outgoing_reset_complete' \subseteq I
      /\ wire["client"] \in Seq(Chunks)
  BY <1>1 DEF ClientTypeOK, StackTypeOK, Ends
<1>3. I \ outgoing_reset_complete' = outgoing_reset_initiated \ outgoing BY <1>1
<1>4. partial_outgoing_message_ # NoMessage =>
        /\ partial_outgoing_message_.m.sid \in streams' \ outgoing_reset_complete'
        /\ Free(partial_outgoing_message_.m.sid, tasks', Requested("client"))
  BY <1>1
<1>5. Asked(tasks', Requested("client"), I \ outgoing_reset_complete') BY <1>3
<1> HIDE DEF C, I, R
<1>6. Marks' /\ Asked(tasks', Requested("client")', Pending') /\ PartialFree'
  BY ONLY <1>1, <1>2, <1>4, <1>5, StackTypeOK, QueuedClosings
<1> QED BY <1>6 DEF Closings

LEMMA IncomingClosings ==
  ASSUME StackTypeOK, ClientTypeOK, Closings, OnIncomingReset
  PROVE  Closings'
<1> DEFINE incoming == incoming_reset_complete \cup (Head(tasks).sids \cap streams)
<1>1. Runs("reset") /\ OnStreamReset(incoming, outgoing_reset_complete)
  BY DEF OnIncomingReset
<1>2. /\ Asked(tasks', Requested("client"), Pending) /\ NoFailed'
      /\ \A s : Free(s, tasks, Requested("client")) => Free(s, tasks', Requested("client"))
  BY <1>1, ClosingsRun
<1>3. /\ incoming \subseteq streams /\ outgoing_reset_complete \subseteq outgoing_reset_initiated
      /\ outgoing_reset_initiated \subseteq closure_initiated \cup incoming
  BY DEF ClientTypeOK, Closings, Marks
<1>4. Asked(tasks', Requested("client"), outgoing_reset_initiated \ outgoing_reset_complete)
  BY <1>2 DEF Pending
<1>5. partial_outgoing_message_ # NoMessage =>
        /\ partial_outgoing_message_.m.sid \in streams \ outgoing_reset_complete
        /\ Free(partial_outgoing_message_.m.sid, tasks', Requested("client"))
  BY <1>2 DEF Closings, PartialFree
<1> HIDE DEF incoming
<1> QED BY <1>1, <1>2, <1>3, <1>4, <1>5, StreamResetClosings

LEMMA OutgoingClosings ==
  ASSUME StackTypeOK, ClientTypeOK, Closings, OnOutgoingReset
  PROVE  Closings'
<1> DEFINE outgoing == outgoing_reset_complete \cup (Head(tasks).sids \cap streams)
<1>1. Runs("outgoing") /\ OnStreamReset(incoming_reset_complete, outgoing)
  BY DEF OnOutgoingReset
<1>2. /\ NoFailed'
      /\ \A s : Free(s, tasks, Requested("client")) => Free(s, tasks', Requested("client"))
      /\ Head(tasks).sids \subseteq Pending
      /\ Asked(tasks', Requested("client"), Pending \ Head(tasks).sids)
      /\ \A s : Free(s, tasks, Requested("client")) => s \notin Head(tasks).sids
  BY <1>1, ClosingsRun
<1>3. /\ outgoing \subseteq outgoing_reset_initiated
      /\ incoming_reset_complete \subseteq streams
      /\ outgoing_reset_initiated \subseteq closure_initiated \cup incoming_reset_complete
  BY <1>2 DEF ClientTypeOK, Closings, Marks, Pending
<1>4. Pending \ Head(tasks).sids = outgoing_reset_initiated \ outgoing
  BY <1>2 DEF Pending, ClientTypeOK
<1>5. partial_outgoing_message_ # NoMessage =>
        /\ partial_outgoing_message_.m.sid \in streams \ outgoing
        /\ Free(partial_outgoing_message_.m.sid, tasks', Requested("client"))
  BY <1>2 DEF Closings, PartialFree
<1>6. Asked(tasks', Requested("client"), outgoing_reset_initiated \ outgoing) BY <1>2, <1>4
<1> HIDE DEF outgoing
<1> QED BY <1>1, <1>2, <1>3, <1>5, <1>6, StreamResetClosings

LEMMA ThresholdClosings ==
  ASSUME StackTypeOK, ClientTypeOK, StackAssumption, TransportAssumption, Closings,
         OnSendThresholdCallback
  PROVE  Closings'
<1>1. Runs("threshold") BY DEF OnSendThresholdCallback
<1>2. /\ Asked(tasks', Requested("client"), Pending) /\ NoFailed'
      /\ \A s : Free(s, tasks, Requested("client")) => Free(s, tasks', Requested("client"))
  BY <1>1, ClosingsRun
<1>3. UNCHANGED <<streams, closure_initiated, outgoing_reset_complete,
                  incoming_reset_complete>>
  BY DEF OnSendThresholdCallback
<1>4. CASE UNCHANGED <<partial_outgoing_message_, outgoing_reset_initiated, outstanding>>
  <2>1. partial_outgoing_message_' # NoMessage =>
          /\ partial_outgoing_message_'.m.sid \in streams' \ outgoing_reset_complete
          /\ Free(partial_outgoing_message_'.m.sid, tasks', Requested("client"))
    BY <1>2, <1>3, <1>4 DEF Closings, PartialFree
  <2> QED BY <1>2, <1>3, <1>4, <2>1, ClosingsKept
<1>5. CASE ~UNCHANGED <<partial_outgoing_message_, outgoing_reset_initiated, outstanding>>
  <2> DEFINE m == partial_outgoing_message_.m
             from == partial_outgoing_message_.next
             out == Sendv(m, from)
  <2>1. partial_outgoing_message_ # NoMessage /\ SendBufferedMessage
    BY <1>5 DEF OnSendThresholdCallback
  <2>2. /\ Room("client", wire["client"]) > 0
        /\ partial_outgoing_message_' = out.partial
        /\ \/ /\ out.partial = NoMessage
              /\ SendQueuedStreamResets(closure_initiated, outgoing_reset_initiated,
                                        incoming_reset_complete, NoMessage, out.wire)
           \/ UNCHANGED <<outgoing_reset_initiated, outstanding>>
    BY <1>5, <2>1 DEF SendBufferedMessage
  <2>3. m \in Messages /\ from \in 1..MaxFragments
    BY <2>1 DEF ClientTypeOK, Partials
  <2>4. out.wire \in Seq(Chunks) /\ (out.partial # NoMessage => out.partial.m = m)
    <3> HIDE DEF m, from
    <3> QED BY ONLY <2>2, <2>3, StackTypeOK, StackAssumption, TransportAssumption, SendvFacts
  <2>5. m.sid \in streams \ outgoing_reset_complete /\ Free(m.sid, tasks', Requested("client"))
    BY <1>2, <2>1 DEF Closings, PartialFree
  <2> HIDE DEF out, m
  <2>6. CASE UNCHANGED <<outgoing_reset_initiated, outstanding>>
    <3>1. partial_outgoing_message_' # NoMessage =>
            /\ partial_outgoing_message_'.m.sid \in streams' \ outgoing_reset_complete
            /\ Free(partial_outgoing_message_'.m.sid, tasks', Requested("client"))
      BY <1>3, <2>2, <2>4, <2>5
    <3> QED BY <1>2, <1>3, <2>6, <3>1, ClosingsKept
  <2>7. CASE out.partial = NoMessage
             /\ SendQueuedStreamResets(closure_initiated, outgoing_reset_initiated,
                                       incoming_reset_complete, NoMessage, out.wire)
    <3>1. /\ streams' \subseteq Sids /\ closure_initiated \subseteq streams'
          /\ incoming_reset_complete \subseteq streams'
          /\ outgoing_reset_initiated \subseteq closure_initiated \cup incoming_reset_complete
          /\ outgoing_reset_complete' \subseteq outgoing_reset_initiated
      BY <1>3 DEF ClientTypeOK, Closings, Marks
    <3>2. /\ closure_initiated' = closure_initiated
          /\ incoming_reset_complete' = incoming_reset_complete
          /\ partial_outgoing_message_' = NoMessage
      BY <1>3, <2>2, <2>7
    <3>3. Asked(tasks', Requested("client"), outgoing_reset_initiated \ outgoing_reset_complete')
      BY <1>2, <1>3 DEF Pending
    <3>4. Marks' /\ Asked(tasks', Requested("client")', Pending') /\ PartialFree'
      BY ONLY <2>4, <2>7, <3>1, <3>2, <3>3, StackTypeOK, QueuedClosings
    <3> QED BY <1>2, <3>4 DEF Closings
  <2> QED BY <2>2, <2>6, <2>7
<1> QED BY <1>4, <1>5

LEMMA DestroyClosings ==
  ASSUME ClientTypeOK, Closings, DestroyTransport
  PROVE  Closings'
<1>1. /\ tasks' = <<>>
      /\ UNCHANGED <<closure_initiated, outgoing_reset_initiated, outgoing_reset_complete,
                     incoming_reset_complete, streams, partial_outgoing_message_, outstanding>>
  BY DEF DestroyTransport, statusVars
<1>2. DOMAIN tasks' = {} BY <1>1
<1>3. Asked(tasks', Requested("client"), Pending) /\ NoFailed'
  BY <1>2 DEF Closings, Asked, NoFailed
<1>4. partial_outgoing_message_' # NoMessage =>
        /\ partial_outgoing_message_'.m.sid \in streams' \ outgoing_reset_complete
        /\ Free(partial_outgoing_message_'.m.sid, tasks', Requested("client"))
  BY <1>1, <1>2 DEF Closings, PartialFree, Free
<1> QED BY <1>1, <1>3, <1>4, ClosingsKept

LEMMA ClientClosings ==
  ASSUME StackTypeOK, ClientTypeOK, StackAssumption, TransportAssumption, Closings,
         NoDenial, ClientNext
  PROVE  Closings'
<1>1. CASE Start \/ OnWritableState \/ \E s \in Sids : OpenStream(s) \/ SendDataBlocked(s)
  BY <1>1, PlainClosings
<1>2. CASE \E s \in Sids : ResetStream(s) BY <1>2, ResetStreamClosings
<1>3. CASE \E s \in Sids, n \in 1..MaxFragments : SendData(s, n) BY <1>3, SendDataClosings
<1>4. CASE OnPacketRead BY <1>4, PacketClosings
<1>5. CASE ClientNotified BY <1>5, NotifiedClosings
<1>6. CASE OnSendThresholdCallback BY <1>6, ThresholdClosings
<1>7. CASE OnSenderDry \/ OnCommLost \/ OnDataFromSctp BY <1>7, RunClosings
<1>8. CASE OnCommUp BY <1>8, CommUpClosings
<1>9. CASE OnIncomingReset BY <1>9, IncomingClosings
<1>10. CASE OnOutgoingReset BY <1>10, OutgoingClosings
<1>11. CASE OnResetFailed
  <2>1. Runs("failed") BY <1>11 DEF OnResetFailed
  <2> QED BY <2>1, ClosingsRun
<1>12. CASE DestroyTransport BY <1>12, DestroyClosings
<1> QED
  BY <1>1, <1>2, <1>3, <1>4, <1>5, <1>6, <1>7, <1>8, <1>9, <1>10, <1>11, <1>12
  DEF ClientNext, RunTask

-----------------------------------------------------------------------------
(* The request on the wires: one reset on its way, or one response to it,  *)
(* and only while the client waits for it; no data of its streams behind   *)
(* it.                                                                     *)

Tokens(q, r, out) ==
  /\ \A j, k \in DOMAIN q : q[j].t = "reset" /\ q[k].t = "reset" => j = k
  /\ \A j, k \in DOMAIN r : r[j].t = "response" /\ r[k].t = "response" => j = k
  /\ \A j \in DOMAIN q, k \in DOMAIN r : ~(q[j].t = "reset" /\ r[k].t = "response")
  /\ \A j \in DOMAIN q : q[j].t = "reset" => out = q[j]
  /\ \A k \in DOMAIN r : r[k].t = "response" => out # NoRequest /\ r[k].ok

Behind(q) ==
  \A j, k \in DOMAIN q : q[j].t = "reset" /\ k > j /\ q[k].t = "data" => q[k].sid \notin q[j].sids

WireGood == Tokens(wire["client"], wire["server"], outstanding["client"]) /\ Behind(wire["client"])

Lacks(q, t) == \A k \in DOMAIN q : q[k].t # t

LEMMA TokensTakeClient ==
  ASSUME NEW q \in Seq(Chunks), q # <<>>, NEW r, NEW out, Tokens(q, r, out)
  PROVE  /\ Tokens(Tail(q), r, out)
         /\ Head(q).t = "reset" => /\ Lacks(Tail(q), "reset") /\ Lacks(r, "response")
                                   /\ out = Head(q)
<1>1. /\ Head(q) = q[1] /\ 1 \in DOMAIN q
      /\ \A k \in DOMAIN Tail(q) : k + 1 \in DOMAIN q /\ k + 1 # 1 /\ Tail(q)[k] = q[k + 1]
  BY TailFacts
<1>2. DOMAIN Tail(q) \subseteq Int
  <2>1. Tail(q) \in Seq(Chunks) BY TailFacts
  <2> QED BY <2>1, LenProperties
<1>3. \A j, k \in DOMAIN Tail(q) : j + 1 = k + 1 => j = k BY <1>2
<1>4. Tokens(Tail(q), r, out) BY <1>1, <1>3 DEF Tokens
<1>5. Head(q).t = "reset" => /\ Lacks(Tail(q), "reset") /\ Lacks(r, "response")
                             /\ out = Head(q)
  BY <1>1 DEF Tokens, Lacks
<1> QED BY <1>4, <1>5

LEMMA TokensTakeServer ==
  ASSUME NEW q, NEW r \in Seq(Chunks), r # <<>>, NEW out, Tokens(q, r, out)
  PROVE  /\ Tokens(q, Tail(r), out)
         /\ Head(r).t = "response" => /\ Lacks(Tail(r), "response") /\ Lacks(q, "reset")
                                      /\ Head(r).ok
<1>1. /\ Head(r) = r[1] /\ 1 \in DOMAIN r
      /\ \A k \in DOMAIN Tail(r) : k + 1 \in DOMAIN r /\ k + 1 # 1 /\ Tail(r)[k] = r[k + 1]
  BY TailFacts
<1>2. DOMAIN Tail(r) \subseteq Int
  <2>1. Tail(r) \in Seq(Chunks) BY TailFacts
  <2> QED BY <2>1, LenProperties
<1>3. \A j, k \in DOMAIN Tail(r) : j + 1 = k + 1 => j = k BY <1>2
<1>4. Tokens(q, Tail(r), out) BY <1>1, <1>3 DEF Tokens
<1>5. Head(r).t = "response" => /\ Lacks(Tail(r), "response") /\ Lacks(q, "reset")
                                /\ Head(r).ok
  BY <1>1 DEF Tokens, Lacks
<1> QED BY <1>4, <1>5

(* Chunks other than those of the request may come and go.                 *)
LEMMA TokensClientAdds ==
  ASSUME NEW q \in Seq(Chunks), NEW x \in Seq(Chunks), Lacks(x, "reset"), NEW r, NEW out,
         Tokens(q, r, out)
  PROVE  Tokens(q \o x, r, out)
<1>1. /\ \A k \in DOMAIN q : (q \o x)[k] = q[k]
      /\ \A k \in DOMAIN (q \o x) \ DOMAIN q :
           k - Len(q) \in DOMAIN x /\ (q \o x)[k] = x[k - Len(q)]
  BY ConcatFacts
<1>2. \A k \in DOMAIN (q \o x) : (q \o x)[k].t = "reset" =>
        k \in DOMAIN q /\ (q \o x)[k] = q[k]
  BY <1>1 DEF Lacks
<1> QED BY <1>2 DEF Tokens

LEMMA TokensServerAdds ==
  ASSUME NEW q, NEW r \in Seq(Chunks), NEW x \in Seq(Chunks), Lacks(x, "response"),
         NEW out, Tokens(q, r, out)
  PROVE  Tokens(q, r \o x, out)
<1>1. /\ \A k \in DOMAIN r : (r \o x)[k] = r[k]
      /\ \A k \in DOMAIN (r \o x) \ DOMAIN r :
           k - Len(r) \in DOMAIN x /\ (r \o x)[k] = x[k - Len(r)]
  BY ConcatFacts
<1>2. \A k \in DOMAIN (r \o x) : (r \o x)[k].t = "response" =>
        k \in DOMAIN r /\ (r \o x)[k] = r[k]
  BY <1>1 DEF Lacks
<1> QED BY <1>2 DEF Tokens

LEMMA TokensAsk ==
  ASSUME NEW q \in Seq(Chunks), NEW r, NEW req \in Chunks, req.t = "reset",
         Tokens(q, r, NoRequest)
  PROVE  Tokens(Append(q, req), r, req)
<1>1. NoRequest.t # "reset" BY DEF NoRequest
<1>2. Lacks(q, "reset") /\ Lacks(r, "response") BY <1>1 DEF Tokens, Lacks
<1>3. /\ Append(q, req)[Len(q) + 1] = req
      /\ \A k \in DOMAIN q : Append(q, req)[k] = q[k]
      /\ \A k \in DOMAIN Append(q, req) : k \in DOMAIN q \/ k = Len(q) + 1
  BY AppendFacts
<1>4. \A k \in DOMAIN Append(q, req) : Append(q, req)[k].t = "reset" =>
        k = Len(q) + 1 /\ Append(q, req)[k] = req
  BY <1>2, <1>3 DEF Lacks
<1> QED BY <1>2, <1>4 DEF Tokens, Lacks

LEMMA TokensAnswer ==
  ASSUME NEW q, NEW r \in Seq(Chunks), NEW out, out # NoRequest, Lacks(q, "reset"),
         Lacks(r, "response")
  PROVE  Tokens(q, Append(r, Response(TRUE)), out)
<1> DEFINE a == Response(TRUE)
<1>1. a \in Chunks BY ChunksMade
<1>2. a.t = "response" /\ a.ok BY DEF Response
<1> HIDE DEF a
<1>3. /\ Append(r, a)[Len(r) + 1] = a
      /\ \A k \in DOMAIN r : Append(r, a)[k] = r[k]
      /\ \A k \in DOMAIN Append(r, a) : k \in DOMAIN r \/ k = Len(r) + 1
  BY <1>1, AppendFacts
<1>4. \A k \in DOMAIN Append(r, a) : Append(r, a)[k].t = "response" =>
        k = Len(r) + 1 /\ Append(r, a)[k] = a
  BY <1>3 DEF Lacks
<1>5. Tokens(q, Append(r, a), out) BY <1>2, <1>4 DEF Tokens, Lacks
<1> QED BY <1>5 DEF a

LEMMA TokensNone ==
  ASSUME NEW q, NEW r, NEW out, Lacks(q, "reset"), Lacks(r, "response")
  PROVE  Tokens(q, r, out)
  BY DEF Tokens, Lacks

LEMMA TokensCleared ==
  ASSUME NEW q, NEW r, NEW out, Tokens(q, r, out), NEW x
  PROVE  /\ Lacks(x, "reset") => Tokens(x, r, out)
         /\ Lacks(x, "response") => Tokens(q, x, out)
  BY DEF Tokens, Lacks

LEMMA BehindTail ==
  ASSUME NEW q \in Seq(Chunks), q # <<>>, Behind(q)
  PROVE  Behind(Tail(q))
<1>1. \A k \in DOMAIN Tail(q) : k + 1 \in DOMAIN q /\ Tail(q)[k] = q[k + 1]
  BY TailFacts
<1>2. DOMAIN Tail(q) \subseteq Int
  <2>1. Tail(q) \in Seq(Chunks) BY TailFacts
  <2> QED BY <2>1, LenProperties
<1>3. \A j, k \in DOMAIN Tail(q) : k > j => k + 1 > j + 1 BY <1>2
<1> QED BY <1>1, <1>3 DEF Behind

LEMMA BehindAdds ==
  ASSUME NEW q \in Seq(Chunks), NEW x \in Seq(Chunks), Behind(q), Lacks(x, "reset"),
         \A k \in DOMAIN x : x[k].t = "data" =>
           \A j \in DOMAIN q : q[j].t = "reset" => x[k].sid \notin q[j].sids
  PROVE  Behind(q \o x)
<1>1. /\ \A k \in DOMAIN q : (q \o x)[k] = q[k]
      /\ \A k \in DOMAIN (q \o x) \ DOMAIN q :
           k - Len(q) \in DOMAIN x /\ (q \o x)[k] = x[k - Len(q)]
  BY ConcatFacts
<1>2. \A k \in DOMAIN (q \o x) : (q \o x)[k].t = "reset" =>
        k \in DOMAIN q /\ (q \o x)[k] = q[k]
  BY <1>1 DEF Lacks
<1> QED BY <1>1, <1>2 DEF Behind

LEMMA BehindAsk ==
  ASSUME NEW q \in Seq(Chunks), NEW req \in Chunks, Behind(q), req.t = "reset"
  PROVE  Behind(Append(q, req))
<1>1. /\ Append(q, req)[Len(q) + 1] = req
      /\ \A k \in DOMAIN q : Append(q, req)[k] = q[k]
      /\ \A k \in DOMAIN Append(q, req) : k \in DOMAIN q \/ k = Len(q) + 1
  BY AppendFacts
<1>2. Len(q) \in Nat /\ DOMAIN q = 1..Len(q) BY LenProperties
<1> SUFFICES ASSUME NEW j \in DOMAIN Append(q, req), NEW k \in DOMAIN Append(q, req),
                    Append(q, req)[j].t = "reset", k > j, Append(q, req)[k].t = "data"
             PROVE  Append(q, req)[k].sid \notin Append(q, req)[j].sids
  BY DEF Behind
<1>3. k # Len(q) + 1 BY <1>1
<1>4. k \in DOMAIN q BY <1>1, <1>3
<1>5. j # Len(q) + 1 BY <1>2, <1>4
<1>6. j \in DOMAIN q BY <1>1, <1>5
<1> QED BY <1>1, <1>4, <1>6 DEF Behind

LEMMA SendvConcat ==
  ASSUME StackAssumption, TransportAssumption, StackTypeOK, NEW m \in Messages,
         NEW from \in 1..MaxFragments, Room("client", wire["client"]) > 0
  PROVE  \E x \in Seq(Chunks) :
           /\ Sendv(m, from).wire = wire["client"] \o x
           /\ \A k \in DOMAIN x : x[k].t = "data" /\ x[k].sid = m.sid
<1> DEFINE q == wire["client"]
           room == Room("client", q)
           to == IF (m.n + 1) - from <= room THEN m.n ELSE (from + room) - 1
           F == Fragments(m, from, to)
           P == IF to = m.n THEN NoMessage ELSE [m |-> m, next |-> to + 1]
<1>1. q \in Seq(Chunks) BY DEF StackTypeOK, Ends
<1>2. room \in Int BY <1>1, RoomType DEF Ends
<1>3. m.n \in Int /\ from \in Nat /\ m.sid \in Sids /\ m.ssn \in Nat /\ m.id \in Nat
  BY DEF Messages, TransportAssumption
<1>4. to \in Int BY <1>2, <1>3
<1>5. \A tt \in Int :
        /\ Fragments(m, from, tt) \in Seq(DataChunks)
        /\ \A k \in DOMAIN Fragments(m, from, tt) :
             Fragments(m, from, tt)[k].t = "data" /\ Fragments(m, from, tt)[k].sid = m.sid
  BY ONLY <1>3, FragmentsType
<1>6. Sendv(m, from) = [wire |-> q \o F, partial |-> P] BY DEF Sendv
<1> HIDE DEF to, P
<1>7. F \in Seq(DataChunks) /\ \A k \in DOMAIN F : F[k].t = "data" /\ F[k].sid = m.sid
  BY ONLY <1>4, <1>5
<1>8. F \in Seq(Chunks) BY <1>7, ChunksMade
<1> HIDE DEF F
<1>9. Sendv(m, from).wire = q \o F BY <1>6
<1> QED BY <1>7, <1>8, <1>9

LEMMA SentWire ==
  ASSUME NEW q, NEW x, q \in Seq(Chunks), x \in Seq(Chunks), NEW r, NEW out, NEW s,
         Tokens(q, r, out), Behind(q),
         \A k \in DOMAIN x : x[k].t = "data" /\ x[k].sid = s,
         out.t = "reset" => s \notin out.sids
  PROVE  q \o x \in Seq(Chunks) /\ Tokens(q \o x, r, out) /\ Behind(q \o x)
<1>1. Lacks(x, "reset") BY DEF Lacks
<1>2. \A k \in DOMAIN x : x[k].t = "data" =>
        \A j \in DOMAIN q : q[j].t = "reset" => x[k].sid \notin q[j].sids
  BY DEF Tokens
<1> QED BY <1>1, <1>2, TokensClientAdds, BehindAdds, ConcatFacts

LEMMA QueuedWire ==
  ASSUME NEW C, NEW I, NEW R, NEW partial, NEW queue,
         StackTypeOK, C \subseteq Sids, R \subseteq Sids, queue \in Seq(Chunks),
         SendQueuedStreamResets(C, I, R, partial, queue),
         Tokens(queue, wire["server"], outstanding["client"]), Behind(queue)
  PROVE  WireGood'
<1>1. wire'["server"] = wire["server"] /\ Outcome(C, I, R, partial, queue)
  BY ResetsFacts
<1>2. CASE wire'["client"] = queue /\ outstanding' = outstanding
  BY <1>1, <1>2 DEF WireGood
<1>3. ASSUME NEW ask \in SUBSET Sids, MayRequest("client"),
             wire'["client"] = Append(queue, [t |-> "reset", sids |-> ask]),
             outstanding'["client"] = [t |-> "reset", sids |-> ask]
      PROVE  WireGood'
  <2> DEFINE req == [t |-> "reset", sids |-> ask]
  <2>1. req \in Chunks BY ChunksMade
  <2>2. req.t = "reset" OBVIOUS
  <2>3. wire'["client"] = Append(queue, req) /\ outstanding'["client"] = req BY <1>3
  <2> HIDE DEF req
  <2>4. outstanding["client"] = NoRequest BY <1>3 DEF MayRequest
  <2>5. Tokens(Append(queue, req), wire["server"], req) BY <2>1, <2>2, <2>4, TokensAsk
  <2>6. Behind(Append(queue, req)) BY <2>1, <2>2, BehindAsk
  <2> QED BY <1>1, <2>3, <2>5, <2>6 DEF WireGood
<1> QED BY <1>1, <1>2, <1>3 DEF Outcome

LEMMA SameWire ==
  ASSUME WireGood, UNCHANGED <<wire, outstanding>>
  PROVE  WireGood'
  BY DEF WireGood

LEMMA AskWire ==
  ASSUME StackTypeOK, ClientTypeOK, WireGood,
         \/ \E s \in Sids : ResetStream(s)
         \/ OnCommUp \/ OnIncomingReset \/ OnOutgoingReset
  PROVE  WireGood'
<1>1. /\ wire["client"] \in Seq(Chunks) /\ Behind(wire["client"])
      /\ Tokens(wire["client"], wire["server"], outstanding["client"])
      /\ closure_initiated \subseteq Sids /\ incoming_reset_complete \subseteq Sids
      /\ streams \subseteq Sids
  BY DEF StackTypeOK, Ends, WireGood, ClientTypeOK
<1>2. ASSUME NEW incoming, NEW outgoing, OnStreamReset(incoming, outgoing),
             incoming \subseteq Sids
      PROVE  WireGood'
  <2> DEFINE C == closure_initiated \ (incoming \cap outgoing)
             I == outgoing_reset_initiated \ (incoming \cap outgoing)
             R == incoming \ (incoming \cap outgoing)
  <2>1. SendQueuedStreamResets(C, I, R, partial_outgoing_message_, wire["client"])
    BY <1>2 DEF OnStreamReset
  <2>2. C \subseteq Sids /\ R \subseteq Sids BY <1>1, <1>2
  <2> HIDE DEF C, I, R
  <2> QED BY ONLY <1>1, <2>1, <2>2, StackTypeOK, QueuedWire
<1>3. CASE OnIncomingReset
  <2> DEFINE incoming == incoming_reset_complete \cup (Head(tasks).sids \cap streams)
  <2>1. OnStreamReset(incoming, outgoing_reset_complete) BY <1>3 DEF OnIncomingReset
  <2>2. incoming \subseteq Sids BY <1>1
  <2> HIDE DEF incoming
  <2> QED BY <1>2, <2>1, <2>2
<1>4. CASE OnOutgoingReset
  <2> DEFINE outgoing == outgoing_reset_complete \cup (Head(tasks).sids \cap streams)
  <2>1. OnStreamReset(incoming_reset_complete, outgoing) BY <1>4 DEF OnOutgoingReset
  <2> HIDE DEF outgoing
  <2> QED BY <1>1, <1>2, <2>1
<1>5. CASE OnCommUp
  <2>1. SendQueuedStreamResets(closure_initiated, outgoing_reset_initiated,
                               incoming_reset_complete, partial_outgoing_message_,
                               wire["client"])
    BY <1>5 DEF OnCommUp
  <2> QED BY ONLY <1>1, <2>1, StackTypeOK, QueuedWire
<1>6. ASSUME NEW s \in Sids, ResetStream(s) PROVE WireGood'
  <2> DEFINE C == closure_initiated \cup {s}
  <2>1. SendQueuedStreamResets(C, outgoing_reset_initiated, incoming_reset_complete,
                               partial_outgoing_message_, wire["client"])
    BY <1>6 DEF ResetStream
  <2>2. C \subseteq Sids BY <1>1
  <2> HIDE DEF C
  <2> QED BY ONLY <1>1, <2>1, <2>2, StackTypeOK, QueuedWire
<1> QED BY <1>3, <1>4, <1>5, <1>6

LEMMA SendDataWire ==
  ASSUME NEW s \in Sids, NEW n \in 1..MaxFragments, StackTypeOK, ClientTypeOK,
         StackAssumption, TransportAssumption, Closings, WireGood, SendData(s, n)
  PROVE  WireGood'
<1> DEFINE m == [sid |-> s, ssn |-> ssn[s], id |-> Len(sent[s]) + 1, n |-> n]
           out == Sendv(m, 1)
<1>1. ssn[s] \in Nat /\ sent[s] \in Seq(Messages) BY DEF StackTypeOK, ClientTypeOK
<1>2. Len(sent[s]) + 1 \in Nat BY <1>1, LenProperties
<1>3. m \in Messages /\ m.sid = s BY <1>1, <1>2 DEF Messages
<1>4. /\ wire' = [wire EXCEPT !["client"] = out.wire] /\ outstanding' = outstanding
      /\ Room("client", wire["client"]) > 0 /\ is_open(s)
  BY DEF SendData
<1> HIDE DEF m
<1>5. 1 \in 1..MaxFragments BY DEF TransportAssumption
<1>6. PICK x \in Seq(Chunks) :
        /\ out.wire = wire["client"] \o x
        /\ \A k \in DOMAIN x : x[k].t = "data" /\ x[k].sid = m.sid
  BY ONLY <1>3, <1>4, <1>5, StackTypeOK, StackAssumption, TransportAssumption, SendvConcat
<1>7. s \notin Requested("client") BY <1>4, OpenFree DEF Free
<1>8. outstanding["client"].t = "reset" => s \notin outstanding["client"].sids
  BY <1>7 DEF Requested
<1>9. /\ wire["client"] \in Seq(Chunks) /\ Behind(wire["client"])
      /\ Tokens(wire["client"], wire["server"], outstanding["client"])
  BY DEF StackTypeOK, Ends, WireGood
<1> DEFINE w == wire["client"] \o x
<1>10. Tokens(w, wire["server"], outstanding["client"]) /\ Behind(w)
  BY <1>3, <1>6, <1>8, <1>9, SentWire
<1>11. out.wire = w BY <1>6
<1> HIDE DEF w, out
<1>12. wire'["client"] = w /\ wire'["server"] = wire["server"]
  BY <1>4, <1>11 DEF StackTypeOK, Ends
<1> QED BY <1>4, <1>10, <1>12 DEF WireGood

LEMMA ThresholdWire ==
  ASSUME StackTypeOK, ClientTypeOK, StackAssumption, TransportAssumption, Closings,
         WireGood, OnSendThresholdCallback
  PROVE  WireGood'
<1>1. CASE UNCHANGED <<wire, outstanding>> BY <1>1, SameWire
<1>2. CASE ~UNCHANGED <<wire, outstanding>>
  <2> DEFINE m == partial_outgoing_message_.m
             from == partial_outgoing_message_.next
             out == Sendv(m, from)
  <2>1. partial_outgoing_message_ # NoMessage /\ SendBufferedMessage
    BY <1>2 DEF OnSendThresholdCallback
  <2>2. /\ Room("client", wire["client"]) > 0
        /\ \/ SendQueuedStreamResets(closure_initiated, outgoing_reset_initiated,
                                     incoming_reset_complete, NoMessage, out.wire)
           \/ wire' = [wire EXCEPT !["client"] = out.wire] /\ outstanding' = outstanding
    BY <1>2, <2>1 DEF SendBufferedMessage
  <2>3. m \in Messages /\ from \in 1..MaxFragments
    BY <2>1 DEF ClientTypeOK, Partials
  <2>4. m.sid \notin Requested("client") BY <2>1 DEF Closings, PartialFree, Free
  <2> HIDE DEF m, from
  <2>5. PICK x \in Seq(Chunks) :
          /\ out.wire = wire["client"] \o x
          /\ \A k \in DOMAIN x : x[k].t = "data" /\ x[k].sid = m.sid
    BY ONLY <2>2, <2>3, StackTypeOK, StackAssumption, TransportAssumption, SendvConcat
  <2>6. outstanding["client"].t = "reset" => m.sid \notin outstanding["client"].sids
    BY <2>4 DEF Requested
  <2>7. /\ wire["client"] \in Seq(Chunks) /\ Behind(wire["client"])
        /\ Tokens(wire["client"], wire["server"], outstanding["client"])
        /\ closure_initiated \subseteq Sids /\ incoming_reset_complete \subseteq Sids
    BY DEF StackTypeOK, Ends, WireGood, ClientTypeOK
  <2> DEFINE w == wire["client"] \o x
  <2>8. w \in Seq(Chunks) /\ Tokens(w, wire["server"], outstanding["client"]) /\ Behind(w)
    BY <2>5, <2>6, <2>7, SentWire
  <2>9. out.wire = w BY <2>5
  <2> HIDE DEF w, out
  <2>10. CASE SendQueuedStreamResets(closure_initiated, outgoing_reset_initiated,
                                     incoming_reset_complete, NoMessage, out.wire)
    BY ONLY <2>7, <2>8, <2>9, <2>10, StackTypeOK, QueuedWire
  <2>11. CASE wire' = [wire EXCEPT !["client"] = out.wire] /\ outstanding' = outstanding
    <3>1. wire'["client"] = w /\ wire'["server"] = wire["server"]
      BY <2>9, <2>11 DEF StackTypeOK, Ends
    <3> QED BY <2>8, <2>11, <3>1 DEF WireGood
  <2> QED BY <2>2, <2>10, <2>11
<1> QED BY <1>1, <1>2

LEMMA OneMore ==
  ASSUME NEW q \in Seq(Chunks), NEW x \in Chunks
  PROVE  /\ Append(q, x) = q \o <<x>> /\ <<x>> \in Seq(Chunks)
         /\ \A t : x.t # t => Lacks(<<x>>, t)
<1>1. <<x>> \in Seq(Chunks) /\ DOMAIN <<x>> = {1} /\ <<x>>[1] = x OBVIOUS
<1>2. Append(q, x) = q \o <<x>> BY AppendIsConcat
<1> QED BY <1>1, <1>2 DEF Lacks

LEMMA PacketWire ==
  ASSUME StackTypeOK, WireGood, OnPacketRead
  PROVE  WireGood'
<1> DEFINE c == Arriving("client")
           rest == [wire EXCEPT !["server"] = Tail(@)]
           q == wire["client"]
           r == wire["server"]
           o == outstanding["client"]
<1>1. c \in Chunks /\ q \in Seq(Chunks) /\ r \in Seq(Chunks) /\ r # <<>> /\ c = Head(r)
  BY ArrivingType DEF OnPacketRead, Peer, Ends, Arriving
<1>2. rest["client"] = q /\ rest["server"] = Tail(r) /\ rest \in [Ends -> Seq(Chunks)]
  BY <1>1, ArrivingType DEF OnPacketRead, StackTypeOK, Ends, Peer
<1>3. \/ DataRead(c, rest) \/ SackRead(c, rest) \/ RequestRead(c, rest)
      \/ ResponseRead(c, rest) \/ AbortRead(c, rest)
  BY DEF OnPacketRead
<1>4. Tokens(q, r, o) /\ Behind(q) BY DEF WireGood
<1> HIDE DEF c, rest
<1>5. /\ Tokens(q, Tail(r), o)
      /\ c.t = "response" => Lacks(Tail(r), "response") /\ Lacks(q, "reset")
  <2> HIDE DEF q, r, o
  <2> QED BY <1>1, <1>4, TokensTakeServer
<1>6. CASE DataRead(c, rest) \/ SackRead(c, rest) \/ AbortRead(c, rest)
  <2>1. wire' = rest /\ outstanding' = outstanding
    BY <1>6 DEF DataRead, SackRead, AbortRead
  <2> QED BY <2>1, <1>2, <1>4, <1>5 DEF WireGood
<1>7. CASE RequestRead(c, rest)
  <2> DEFINE x == Response(TRUE)
  <2>1. wire' = [rest EXCEPT !["client"] = Append(@, x)] /\ outstanding' = outstanding
    BY <1>7 DEF RequestRead
  <2>2. x \in Chunks BY ChunksMade
  <2>3. x.t # "reset" /\ x.t # "data" BY DEF Response
  <2> HIDE DEF x, q, r, o
  <2>4. /\ Append(q, x) = q \o <<x>> /\ <<x>> \in Seq(Chunks) /\ Lacks(<<x>>, "reset")
        /\ Lacks(<<x>>, "data")
    BY <1>1, <2>2, <2>3, OneMore
  <2>5. Tokens(q \o <<x>>, Tail(r), o) BY <1>1, <1>5, <2>4, TokensClientAdds
  <2>6. Behind(q \o <<x>>) BY <1>1, <1>4, <2>4, BehindAdds DEF Lacks
  <2>7. wire'["client"] = q \o <<x>> /\ wire'["server"] = Tail(r)
    BY <1>2, <2>1, <2>4 DEF Ends
  <2> QED BY <2>1, <2>5, <2>6, <2>7 DEF WireGood, o
<1>8. CASE ResponseRead(c, rest)
  <2>1. wire' = rest /\ outstanding' = [outstanding EXCEPT !["client"] = NoRequest]
        /\ c.t = "response"
    BY <1>8 DEF ResponseRead
  <2>2. outstanding'["client"] = NoRequest BY <2>1 DEF StackTypeOK, Ends
  <2>3. Tokens(q, Tail(r), NoRequest) BY <1>5, <2>1, TokensNone
  <2> QED BY <2>1, <2>2, <2>3, <1>2, <1>4 DEF WireGood
<1> QED BY <1>3, <1>6, <1>7, <1>8

LEMMA ClosedQueue ==
  ASSUME NEW e \in Ends, StackTypeOK, StackClose(e)
  PROVE  /\ \A d \in Ends \ {e} : wire'[d] = wire[d]
         /\ Lacks(wire'[e], "reset") /\ Lacks(wire'[e], "response")
         /\ Lacks(wire'[e], "data") /\ Lacks(wire'[e], "sack")
<1>1. wire'[e] = IF assoc[e] = "up" THEN <<Abort>> ELSE <<>>
  BY DEF StackClose, StackTypeOK
<1>2. DOMAIN <<Abort>> = {1} /\ <<Abort>>[1] = Abort OBVIOUS
<1>3. Abort.t = "abort" BY DEF Abort
<1>4. \A d \in Ends \ {e} : wire'[d] = wire[d] BY DEF StackClose, StackTypeOK
<1> HIDE DEF Abort
<1>5. CASE wire'[e] = <<>>
  <2>1. DOMAIN wire'[e] = {} BY <1>5
  <2> QED BY <2>1, <1>4 DEF Lacks
<1>6. CASE wire'[e] = <<Abort>> BY <1>6, <1>2, <1>3, <1>4 DEF Lacks
<1> QED BY <1>1, <1>5, <1>6

LEMMA ClientWire ==
  ASSUME StackTypeOK, ClientTypeOK, StackAssumption, TransportAssumption, Closings,
         WireGood, ClientNext
  PROVE  WireGood'
<1>1. CASE \/ Start \/ OnWritableState
           \/ \E s \in Sids : OpenStream(s) \/ SendDataBlocked(s)
           \/ ClientNotified \/ OnSenderDry \/ OnCommLost \/ OnDataFromSctp
  <2>1. UNCHANGED <<wire, outstanding>>
    BY <1>1 DEF Start, OnWritableState, OpenStream, SendDataBlocked, ClientNotified,
                OnSenderDry, OnCommLost, OnDataFromSctp, stackVars
  <2> QED BY <2>1, SameWire
<1>2. CASE \/ \E s \in Sids : ResetStream(s)
           \/ OnCommUp \/ OnIncomingReset \/ OnOutgoingReset
  BY <1>2, AskWire
<1>3. CASE \E s \in Sids, n \in 1..MaxFragments : SendData(s, n) BY <1>3, SendDataWire
<1>4. CASE OnPacketRead BY <1>4, PacketWire
<1>5. CASE OnSendThresholdCallback BY <1>5, ThresholdWire
<1>6. CASE OnResetFailed
  <2>1. Runs("failed") BY <1>6 DEF OnResetFailed
  <2> QED BY <2>1, ClosingsRun
<1>7. CASE DestroyTransport
  <2>1. StackClose("client") /\ outstanding' = outstanding BY <1>7 DEF DestroyTransport
  <2>2. wire'["server"] = wire["server"] /\ Lacks(wire'["client"], "reset")
    BY <2>1, ClosedQueue DEF Ends
  <2>3. Tokens(wire["client"], wire["server"], outstanding["client"]) BY DEF WireGood
  <2>4. Tokens(wire'["client"], wire["server"], outstanding["client"])
    BY <2>2, <2>3, TokensCleared
  <2>5. Behind(wire'["client"]) BY <2>2 DEF Lacks, Behind
  <2> QED BY <2>1, <2>2, <2>4, <2>5 DEF WireGood
<1> QED BY <1>1, <1>2, <1>3, <1>4, <1>5, <1>6, <1>7 DEF ClientNext, RunTask

(* The server's own requests: one chunk more behind its queue, or none.    *)
LEMMA AddWire ==
  ASSUME NEW force, NEW has, StackTypeOK, AssociationAssumption,
         has \in 0..MaxSctpStreams, AddOutgoingStreams(force, has, wire["server"])
  PROVE  /\ wire'["client"] = wire["client"]
         /\ outstanding'["client"] = outstanding["client"]
         /\ \E x \in Seq(Chunks) : /\ wire'["server"] = wire["server"] \o x
                                   /\ Lacks(x, "response") /\ Lacks(x, "data")
<1> DEFINE more == IF MaxSctpStreams - has >= AddedOs THEN AddedOs ELSE MaxSctpStreams - has
           request == [t |-> "add", n |-> more]
<1>1. more \in Nat BY DEF AssociationAssumption
<1> HIDE DEF more
<1>2. request \in Chunks /\ request.t # "response" /\ request.t # "data" BY <1>1, ChunksMade
<1>3. \/ /\ outstanding' = [outstanding EXCEPT !["server"] = request]
         /\ wire' = [wire EXCEPT !["server"] = Append(wire["server"], request)]
      \/ /\ wire' = [wire EXCEPT !["server"] = wire["server"]]
         /\ outstanding' = outstanding
  BY DEF AddOutgoingStreams, more
<1> HIDE DEF request
<1>4. wire["server"] \in Seq(Chunks) BY DEF StackTypeOK, Ends
<1>5. /\ Append(wire["server"], request) = wire["server"] \o <<request>>
      /\ <<request>> \in Seq(Chunks)
      /\ Lacks(<<request>>, "response") /\ Lacks(<<request>>, "data")
  BY <1>2, <1>4, OneMore
<1>6. wire["server"] = wire["server"] \o <<>> /\ <<>> \in Seq(Chunks)
      /\ Lacks(<<>>, "response") /\ Lacks(<<>>, "data")
  BY <1>4, ConcatEmptySeq DEF Lacks
<1>7. /\ wire'["client"] = wire["client"]
      /\ outstanding'["client"] = outstanding["client"]
      /\ \/ wire'["server"] = Append(wire["server"], request)
         \/ wire'["server"] = wire["server"]
  BY <1>3 DEF StackTypeOK, Ends
<1> QED BY <1>5, <1>6, <1>7

LEMMA ResetSctpWire ==
  ASSUME NEW sids, NEW base, StackTypeOK, sids \subseteq Sids,
         base \in [Ends -> Seq(Chunks)], ResetSctpStreams(sids, base)
  PROVE  /\ wire'["client"] = base["client"]
         /\ outstanding'["client"] = outstanding["client"]
         /\ \E x \in Seq(Chunks) : /\ wire'["server"] = base["server"] \o x
                                   /\ Lacks(x, "response") /\ Lacks(x, "data")
<1> DEFINE taken == Takes(sids)
           request == [t |-> "reset", sids |-> taken]
<1>1. taken \in SUBSET Sids BY DEF Takes
<1> HIDE DEF taken
<1>2. request \in Chunks /\ request.t # "response" /\ request.t # "data" BY <1>1, ChunksMade
<1>3. \/ /\ wire' = [base EXCEPT !["server"] = Append(base["server"], request)]
         /\ outstanding' = [outstanding EXCEPT !["server"] = request]
      \/ wire' = base /\ outstanding' = outstanding
  BY DEF ResetSctpStreams, taken
<1> HIDE DEF request
<1>4. base["server"] \in Seq(Chunks) BY DEF Ends
<1>5. /\ Append(base["server"], request) = base["server"] \o <<request>>
      /\ <<request>> \in Seq(Chunks)
      /\ Lacks(<<request>>, "response") /\ Lacks(<<request>>, "data")
  BY <1>2, <1>4, OneMore
<1>6. base["server"] = base["server"] \o <<>> /\ <<>> \in Seq(Chunks)
      /\ Lacks(<<>>, "response") /\ Lacks(<<>>, "data")
  BY <1>4, ConcatEmptySeq DEF Lacks
<1>7. /\ wire'["client"] = base["client"]
      /\ outstanding'["client"] = outstanding["client"]
      /\ \/ wire'["server"] = Append(base["server"], request)
         \/ wire'["server"] = base["server"]
  BY <1>3 DEF StackTypeOK, Ends
<1> QED BY <1>5, <1>6, <1>7

LEMMA ServerAddsWire ==
  ASSUME StackTypeOK, WireGood, wire'["client"] = wire["client"],
         outstanding'["client"] = outstanding["client"],
         \E x \in Seq(Chunks) : /\ wire'["server"] = wire["server"] \o x
                                /\ Lacks(x, "response")
  PROVE  WireGood'
<1>1. PICK x \in Seq(Chunks) : /\ wire'["server"] = wire["server"] \o x
                               /\ Lacks(x, "response")
  OBVIOUS
<1>2. wire["server"] \in Seq(Chunks) BY DEF StackTypeOK, Ends
<1>3. Tokens(wire["client"], wire["server"] \o x, outstanding["client"])
  BY <1>1, <1>2, TokensServerAdds DEF WireGood
<1> QED BY <1>1, <1>3 DEF WireGood

LEMMA SctpMessageWire ==
  ASSUME NEW s \in Sids, NEW n \in Nat, StackTypeOK, SendSctpMessage(s, n)
  PROVE  \E x \in Seq(Chunks) : /\ wire'["server"] = wire["server"] \o x
                                /\ Lacks(x, "response")
<1> DEFINE m == [sid |-> s, ssn |-> 0, id |-> replies + 1, n |-> n]
           F == Fragments(m, 1, n)
<1>1. replies + 1 \in Nat BY DEF StackTypeOK
<1>2. m.sid \in Sids /\ m.ssn \in Nat /\ m.id \in Nat /\ m.n \in Int BY <1>1
<1>3. wire' = [wire EXCEPT !["server"] = wire["server"] \o F] BY DEF SendSctpMessage
<1> HIDE DEF m
<1>4. F \in Seq(DataChunks) /\ \A k \in DOMAIN F : F[k].t = "data" BY <1>2, FragmentsType
<1> HIDE DEF F
<1>5. F \in Seq(Chunks) /\ Lacks(F, "response") BY <1>4, ChunksMade DEF Lacks
<1>6. wire'["server"] = wire["server"] \o F BY <1>3 DEF StackTypeOK, Ends
<1> QED BY <1>5, <1>6

LEMMA ProcessWire ==
  ASSUME StackTypeOK, WireGood, ProcessSctpData
  PROVE  WireGood'
<1> DEFINE c == Arriving("server")
           rest == [wire EXCEPT !["client"] = Tail(@)]
           q == wire["client"]
           r == wire["server"]
           o == outstanding["client"]
<1>1. c \in Chunks /\ q \in Seq(Chunks) /\ r \in Seq(Chunks) /\ q # <<>> /\ c = Head(q)
      /\ Tail(q) \in Seq(Chunks)
  BY ArrivingType DEF ProcessSctpData, Peer, Ends, Arriving
<1>2. rest["client"] = Tail(q) /\ rest["server"] = r /\ rest \in [Ends -> Seq(Chunks)]
  BY <1>1 DEF StackTypeOK, Ends
<1>3. \/ ReceiveData(c, rest) \/ ReceiveReset(c, rest)
      \/ ReceiveResponse(c, rest) \/ ReceiveAbort(c, rest)
  BY DEF ProcessSctpData
<1>4. Tokens(q, r, o) /\ Behind(q) BY DEF WireGood
<1> HIDE DEF c, rest
<1>5. /\ Tokens(Tail(q), r, o) /\ Behind(Tail(q))
      /\ c.t = "reset" => /\ Lacks(Tail(q), "reset") /\ Lacks(r, "response") /\ o = c
  <2> HIDE DEF q, r, o
  <2> QED BY <1>1, <1>4, TokensTakeClient, BehindTail
<1>6. CASE ReceiveData(c, rest)
  <2>1. wire' = [rest EXCEPT !["server"] = Append(@, Sack)] /\ outstanding' = outstanding
    BY <1>6 DEF ReceiveData
  <2>2. Sack \in Chunks /\ Sack.t # "response" BY ChunksMade DEF Sack
  <2> DEFINE a == Append(r, Sack)
  <2>3. wire'["client"] = Tail(q) /\ wire'["server"] = a
    BY <1>2, <2>1 DEF Ends
  <2>4. a = r \o <<Sack>> /\ <<Sack>> \in Seq(Chunks) /\ Lacks(<<Sack>>, "response")
    BY <1>1, <2>2, OneMore
  <2>5. Tokens(Tail(q), r \o <<Sack>>, o) BY <1>1, <1>5, <2>4, TokensServerAdds
  <2> QED BY <2>1, <2>3, <2>4, <2>5, <1>5 DEF WireGood
<1>7. CASE ReceiveReset(c, rest)
  <2> DEFINE a == Append(r, Response(TRUE))
             base == [rest EXCEPT !["server"] = Append(@, Response(TRUE))]
  <2>1. c.t = "reset" /\ ResetSctpStreams(c.sids, base) BY <1>7 DEF ReceiveReset
  <2>2. c.sids \subseteq Sids BY <1>1, <2>1, ChunkFacts DEF Resets
  <2>3. Response(TRUE) \in Chunks BY ChunksMade
  <2>4. a \in Seq(Chunks) BY <1>1, <2>3, AppendFacts
  <2>5. base["client"] = Tail(q) /\ base["server"] = a /\ base \in [Ends -> Seq(Chunks)]
    BY <1>2, <2>4 DEF Ends
  <2> HIDE DEF base
  <2>6. /\ wire'["client"] = base["client"]
        /\ outstanding'["client"] = o
        /\ \E x \in Seq(Chunks) : /\ wire'["server"] = base["server"] \o x
                                  /\ Lacks(x, "response")
    BY ONLY <2>1, <2>2, <2>5, StackTypeOK, ResetSctpWire
  <2>7. PICK x \in Seq(Chunks) : wire'["server"] = a \o x /\ Lacks(x, "response")
    BY <2>5, <2>6
  <2>8. o # NoRequest
    <3>1. NoRequest.t # "reset" BY DEF NoRequest
    <3> QED BY <3>1, <2>1, <1>5
  <2>9. Tokens(Tail(q), a, o) BY <1>1, <1>5, <2>1, <2>8, TokensAnswer
  <2> HIDE DEF a
  <2>10. Tokens(Tail(q), a \o x, o) BY <2>4, <2>7, <2>9, TokensServerAdds
  <2> QED BY <2>5, <2>6, <2>7, <2>10, <1>5 DEF WireGood
<1>8. CASE ReceiveResponse(c, rest)
  <2>1. wire' = rest /\ outstanding' = [outstanding EXCEPT !["server"] = NoRequest]
    BY <1>8 DEF ReceiveResponse
  <2>2. outstanding'["client"] = o BY <2>1 DEF StackTypeOK, Ends
  <2> QED BY <2>1, <2>2, <1>2, <1>5 DEF WireGood
<1>9. CASE ReceiveAbort(c, rest)
  <2>1. wire' = rest /\ outstanding' = outstanding BY <1>9 DEF ReceiveAbort
  <2> QED BY <2>1, <1>2, <1>5 DEF WireGood
<1> QED BY <1>3, <1>6, <1>7, <1>8, <1>9

LEMMA ServerWire ==
  ASSUME StackTypeOK, ServerTypeOK, AssociationAssumption, WireGood, ServerNext, ~denied'
  PROVE  WireGood'
<1>1. CASE TransportConnected \/ ServerLost \/ OnServerCommLost
  <2>1. UNCHANGED <<wire, outstanding>>
    BY <1>1 DEF TransportConnected, ServerLost, OnServerCommLost, stackVars
  <2> QED BY <2>1, SameWire
<1>2. CASE ServerUp
  <2>1. NegotiatedOs \in 0..MaxSctpStreams BY DEF AssociationAssumption
  <2>2. CASE UNCHANGED <<wire, outstanding>> BY <2>2, SameWire
  <2>3. CASE AddOutgoingStreams(TRUE, NegotiatedOs, wire["server"])
    BY <2>1, <2>3, AddWire, ServerAddsWire
  <2> QED BY <1>2, <2>2, <2>3 DEF ServerUp
<1>3. ASSUME NEW s \in Sids, HandleDataConsumer(s) PROVE WireGood'
  <2>1. os \in 0..MaxSctpStreams /\ AddOutgoingStreams(FALSE, os, wire["server"])
    BY <1>3 DEF HandleDataConsumer, ServerTypeOK
  <2> QED BY <2>1, AddWire, ServerAddsWire
<1>4. ASSUME NEW s \in Sids, DataChannelClosed(s) PROVE WireGood'
  <2>1. ResetSctpStreams({s}, wire) /\ {s} \subseteq Sids /\ wire \in [Ends -> Seq(Chunks)]
    BY <1>4 DEF DataChannelClosed, StackTypeOK
  <2> QED BY <2>1, ResetSctpWire, ServerAddsWire
<1>5. ASSUME NEW s \in Sids, NEW n \in MessageSizes, SendSctpMessage(s, n) PROVE WireGood'
  <2>1. n \in Nat OBVIOUS
  <2>2. wire'["client"] = wire["client"] /\ outstanding' = outstanding
    BY <1>5 DEF SendSctpMessage, StackTypeOK, Ends
  <2> QED BY <1>5, <2>1, <2>2, SctpMessageWire, ServerAddsWire
<1>6. CASE ProcessSctpData BY <1>6, ProcessWire
<1>7. CASE DenyReset BY <1>7 DEF DenyReset
<1>8. CASE DestroyAssociation
  <2>1. StackClose("server") /\ outstanding' = outstanding BY <1>8 DEF DestroyAssociation
  <2>2. wire'["client"] = wire["client"] /\ Lacks(wire'["server"], "response")
    BY <2>1, ClosedQueue DEF Ends
  <2>3. Tokens(wire["client"], wire["server"], outstanding["client"]) BY DEF WireGood
  <2>4. Tokens(wire["client"], wire'["server"], outstanding["client"])
    BY <2>2, <2>3, TokensCleared
  <2> QED BY <2>1, <2>2, <2>4 DEF WireGood
<1> QED BY <1>1, <1>2, <1>3, <1>4, <1>5, <1>6, <1>7, <1>8 DEF ServerNext

-----------------------------------------------------------------------------
(* Together: while no request was denied.                                  *)
SInv == ~denied => Closings /\ WireGood

LEMMA DeniedStays ==
  ASSUME ClientNext \/ ServerNext, ~denied'
  PROVE  ~denied
<1>1. CASE ClientNext
  BY <1>1 DEF ClientNext, Start, OnWritableState, OpenStream, ResetStream, SendDataBlocked,
              SendData, OnPacketRead, ClientNotified, RunTask, OnSendThresholdCallback,
              OnSenderDry, OnCommUp, OnCommLost, OnDataFromSctp, OnIncomingReset,
              OnOutgoingReset, OnStreamReset, OnResetFailed, DestroyTransport, stackVars
<1>2. CASE ServerNext
  BY <1>2 DEF ServerNext, TransportConnected, ServerUp, ServerLost, OnServerCommLost,
              HandleDataConsumer, DataChannelClosed, SendSctpMessage, ProcessSctpData,
              DenyReset, DestroyAssociation, stackVars
<1> QED BY SMTT(40), <1>1, <1>2

LEMMA ServerKeepsRequest ==
  ASSUME StackTypeOK, ServerTypeOK, AssociationAssumption, ServerNext
  PROVE  outstanding'["client"] = outstanding["client"]
<1>1. CASE TransportConnected \/ ServerLost \/ OnServerCommLost \/ DenyReset
           \/ DestroyAssociation \/ \E s \in Sids, n \in MessageSizes : SendSctpMessage(s, n)
  BY <1>1 DEF TransportConnected, ServerLost, OnServerCommLost, DenyReset, DestroyAssociation,
              SendSctpMessage, stackVars
<1>2. CASE ServerUp
  <2>1. NegotiatedOs \in 0..MaxSctpStreams BY DEF AssociationAssumption
  <2>2. CASE UNCHANGED outstanding BY <2>2
  <2>3. CASE AddOutgoingStreams(TRUE, NegotiatedOs, wire["server"]) BY <2>1, <2>3, AddWire
  <2> QED BY <1>2, <2>2, <2>3 DEF ServerUp
<1>3. ASSUME NEW s \in Sids, HandleDataConsumer(s)
      PROVE  outstanding'["client"] = outstanding["client"]
  <2>1. os \in 0..MaxSctpStreams /\ AddOutgoingStreams(FALSE, os, wire["server"])
    BY <1>3 DEF HandleDataConsumer, ServerTypeOK
  <2> QED BY <2>1, AddWire
<1>4. ASSUME NEW s \in Sids, DataChannelClosed(s)
      PROVE  outstanding'["client"] = outstanding["client"]
  <2>1. ResetSctpStreams({s}, wire) /\ {s} \subseteq Sids /\ wire \in [Ends -> Seq(Chunks)]
    BY <1>4 DEF DataChannelClosed, StackTypeOK
  <2> QED BY <2>1, ResetSctpType
<1>5. CASE ProcessSctpData
  <2> DEFINE c == Arriving("server")
             rest == [wire EXCEPT !["client"] = Tail(@)]
             base == [rest EXCEPT !["server"] = Append(@, Response(TRUE))]
  <2>1. /\ c \in Chunks /\ wire["server"] \in Seq(Chunks)
        /\ Tail(wire["client"]) \in Seq(Chunks)
    BY <1>5, ArrivingType DEF ProcessSctpData, Peer, Ends
  <2>2. \/ ReceiveData(c, rest) \/ ReceiveReset(c, rest)
        \/ ReceiveResponse(c, rest) \/ ReceiveAbort(c, rest)
    BY <1>5 DEF ProcessSctpData
  <2>3. rest \in [Ends -> Seq(Chunks)] /\ rest["server"] = wire["server"]
    BY <2>1 DEF StackTypeOK, Ends
  <2> HIDE DEF c, rest
  <2>4. CASE ReceiveReset(c, rest)
    <3>1. c.sids \subseteq Sids /\ ResetSctpStreams(c.sids, base)
      BY <2>1, <2>4, ChunkFacts DEF ReceiveReset, Resets
    <3>2. Response(TRUE) \in Chunks BY ChunksMade
    <3> DEFINE a == Append(rest["server"], Response(TRUE))
    <3>3. a \in Seq(Chunks) BY <2>1, <2>3, <3>2, AppendFacts
    <3>4. base = [rest EXCEPT !["server"] = a] OBVIOUS
    <3> HIDE DEF a
    <3>5. base \in [Ends -> Seq(Chunks)] BY <2>3, <3>3, <3>4
    <3> HIDE DEF base
    <3> QED BY ONLY <3>1, <3>5, StackTypeOK, ResetSctpType
  <2>5. CASE ReceiveData(c, rest) \/ ReceiveAbort(c, rest)
    BY <2>5 DEF ReceiveData, ReceiveAbort
  <2>6. CASE ReceiveResponse(c, rest)
    BY <2>6 DEF ReceiveResponse, StackTypeOK, Ends
  <2> QED BY <2>2, <2>4, <2>5, <2>6
<1> QED BY <1>1, <1>2, <1>3, <1>4, <1>5 DEF ServerNext

LEMMA SInvInit ==
  ASSUME Constants, Init
  PROVE  SInv
<1>1. /\ wire["client"] = <<>> /\ wire["server"] = <<>>
      /\ outstanding["client"] = NoRequest
  BY DEF Init, StackInit, Ends
<1>2. /\ tasks = <<>> /\ outgoing_reset_complete = {} /\ outgoing_reset_initiated = {}
      /\ partial_outgoing_message_ = NoMessage
  BY DEF Init, ClientInit
<1>3. DOMAIN <<>> = {} OBVIOUS
<1>4. Requested("client") = {} BY <1>1 DEF Requested, NoRequest
<1>5. Asked(tasks, Requested("client"), Pending) /\ NoFailed
  BY <1>2, <1>3, <1>4 DEF Asked, NoFailed
<1>6. Closings BY <1>2, <1>5 DEF Closings, Marks, PartialFree
<1>7. WireGood BY <1>1, <1>3 DEF WireGood, Tokens, Behind
<1> QED BY <1>6, <1>7 DEF SInv

LEMMA SInvStep ==
  ASSUME Constants, TInv, SInv, [Next]_vars
  PROVE  SInv'
<1> SUFFICES ASSUME ~denied' PROVE Closings' /\ WireGood'
  BY DEF SInv
<1>1. /\ StackTypeOK /\ ClientTypeOK /\ ServerTypeOK
      /\ StackAssumption /\ TransportAssumption /\ AssociationAssumption
  BY DEF TInv, TypeOK, Constants
<1>2. CASE Client(ClientNext)
  <2>1. ClientNext BY <1>2 DEF Client
  <2>2. Closings /\ WireGood BY <2>1, DeniedStays DEF SInv
  <2>3. NoDenial BY <2>2 DEF WireGood, Tokens, NoDenial
  <2> QED BY <1>1, <2>1, <2>2, <2>3, ClientClosings, ClientWire
<1>3. CASE Server(ServerNext)
  <2>1. ServerNext /\ UNCHANGED clientVars BY <1>3 DEF Server
  <2>2. Closings /\ WireGood BY <2>1, DeniedStays DEF SInv
  <2>3. UNCHANGED <<tasks, streams, closure_initiated, outgoing_reset_initiated,
                    outgoing_reset_complete, incoming_reset_complete,
                    partial_outgoing_message_>>
    BY <2>1 DEF clientVars, statusVars
  <2>4. outstanding'["client"] = outstanding["client"]
    BY <1>1, <2>1, ServerKeepsRequest
  <2>5. /\ Asked(tasks', Requested("client"), Pending) /\ NoFailed'
        /\ partial_outgoing_message_' # NoMessage =>
             /\ partial_outgoing_message_'.m.sid \in streams' \ outgoing_reset_complete
             /\ Free(partial_outgoing_message_'.m.sid, tasks', Requested("client"))
    BY <2>2, <2>3 DEF Closings, NoFailed, PartialFree
  <2>6. Closings' BY <2>2, <2>3, <2>4, <2>5, ClosingsKept
  <2>7. WireGood' BY <1>1, <2>1, <2>2, ServerWire
  <2> QED BY <2>6, <2>7
<1>4. CASE UNCHANGED vars
  <2>1. UNCHANGED <<tasks, streams, closure_initiated, outgoing_reset_initiated,
                    outgoing_reset_complete, incoming_reset_complete,
                    partial_outgoing_message_, wire, outstanding, denied>>
    BY <1>4 DEF vars, clientVars, statusVars, stackVars
  <2>2. Closings /\ WireGood BY <2>1 DEF SInv
  <2>3. /\ Asked(tasks', Requested("client"), Pending) /\ NoFailed'
        /\ partial_outgoing_message_' # NoMessage =>
             /\ partial_outgoing_message_'.m.sid \in streams' \ outgoing_reset_complete
             /\ Free(partial_outgoing_message_'.m.sid, tasks', Requested("client"))
    BY <2>1, <2>2 DEF Closings, NoFailed, PartialFree
  <2>4. Closings' BY <2>1, <2>2, <2>3, ClosingsKept
  <2>5. WireGood' BY <2>1, <2>2, SameWire
  <2> QED BY <2>4, <2>5
<1> QED BY <1>2, <1>3, <1>4 DEF Next

LEMMA SInvHolds ==
  ASSUME StackAssumption, TransportAssumption, AssociationAssumption
  PROVE  Spec => [](TInv /\ SInv)
<1>1. Constants BY DEF Constants
<1>2. Init => TInv /\ SInv BY <1>1, TypeInit, SInvInit
<1>3. TInv /\ SInv /\ [Next]_vars => TInv' /\ SInv' BY <1>1, TypeStep, SInvStep
<1> QED BY <1>2, <1>3, PTL DEF Spec

(* A stream is not forgotten while the rest of one of its messages waits.  *)
(* The argument: its reset is asked for only when the message is out, and  *)
(* a stream is forgotten only after a reset that was asked for, once, is   *)
(* complete (Closings).                                                    *)
THEOREM PartialStreamStays ==
  ASSUME StackAssumption, TransportAssumption, AssociationAssumption
  PROVE  Spec => []PartialStreamKnown
<1>1. SInv => PartialStreamKnown
  BY DEF SInv, Closings, PartialFree, PartialStreamKnown
<1> QED BY <1>1, SInvHolds, PTL

(* Nothing of a stream follows its reset.  The argument: the streams of    *)
(* the one reset on its way are those of the outstanding request, and no   *)
(* open stream and no stream with a partial message is among them.         *)
THEOREM ResetsFollowData ==
  ASSUME StackAssumption, TransportAssumption, AssociationAssumption
  PROVE  Spec => []ResetAfterData
<1>1. TInv /\ SInv => ResetAfterData
  <2> SUFFICES ASSUME TInv, SInv, ~denied, NEW j \in DOMAIN wire["client"],
                      wire["client"][j].t = "reset", NEW s \in wire["client"][j].sids
               PROVE  /\ \A k \in (j + 1)..Len(wire["client"]) :
                           wire["client"][k].t = "data" => wire["client"][k].sid # s
                      /\ partial_outgoing_message_ # NoMessage =>
                           partial_outgoing_message_.m.sid # s
    BY DEF ResetAfterData
  <2>1. Closings /\ WireGood BY DEF SInv
  <2>2. DOMAIN wire["client"] = 1..Len(wire["client"]) /\ Len(wire["client"]) \in Nat
    <3>1. wire["client"] \in Seq(Chunks) BY DEF TInv, TypeOK, StackTypeOK, Ends
    <3> QED BY <3>1, LenProperties
  <2>3. \A k \in (j + 1)..Len(wire["client"]) : k \in DOMAIN wire["client"] /\ k > j
    BY <2>2
  <2>4. \A k \in (j + 1)..Len(wire["client"]) :
          wire["client"][k].t = "data" => wire["client"][k].sid # s
    BY <2>1, <2>3 DEF WireGood, Behind
  <2>5. s \in Requested("client") BY <2>1 DEF WireGood, Tokens, Requested
  <2>6. partial_outgoing_message_ # NoMessage => partial_outgoing_message_.m.sid # s
    BY <2>1, <2>5 DEF Closings, PartialFree, Free
  <2> QED BY <2>4, <2>6
<1> QED BY <1>1, SInvHolds, PTL
-----------------------------------------------------------------------------
(* What wakes a sender that waits: a threshold callback that is posted,    *)
(* data on its way, whose arrival puts a SACK on the wire, or a SACK, whose *)
(* arrival posts the callback.                                             *)

Has(q, t) == \E k \in DOMAIN q : q[k].t = t

Wakes == \/ Has(tasks, "threshold")
         \/ Has(wire["client"], "data") \/ Has(wire["server"], "sack")

Live == alive /\ "client" \in sock /\ "lost" \notin {assoc["client"], assoc["server"]} /\ ~denied
Waiting == ~ready_to_send_data_ \/ partial_outgoing_message_ # NoMessage

WInv == /\ Live /\ Waiting => Wakes
        /\ alive /\ "client" \notin sock => partial_outgoing_message_ = NoMessage

LEMMA HasTail ==
  ASSUME NEW S, NEW q \in Seq(S), q # <<>>, NEW t, Has(q, t), Head(q).t # t
  PROVE  Has(Tail(q), t)
<1>1. PICK k \in DOMAIN q : q[k].t = t BY DEF Has
<1>2. Head(q) = q[1] /\ \A j \in DOMAIN q \ {1} : j - 1 \in DOMAIN Tail(q) /\ Tail(q)[j - 1] = q[j]
  BY TailFacts
<1>3. k # 1 BY <1>1, <1>2
<1>4. k - 1 \in DOMAIN Tail(q) /\ Tail(q)[k - 1] = q[k] BY <1>2, <1>3
<1> QED BY <1>1, <1>4 DEF Has

LEMMA HasMore ==
  ASSUME NEW S, NEW q \in Seq(S), NEW x \in Seq(S), NEW t, Has(q, t) \/ Has(x, t)
  PROVE  Has(q \o x, t)
<1>1. /\ \A k \in DOMAIN q : k \in DOMAIN (q \o x) /\ (q \o x)[k] = q[k]
      /\ \A k \in DOMAIN x : Len(q) + k \in DOMAIN (q \o x) /\ (q \o x)[Len(q) + k] = x[k]
  BY ConcatFacts
<1>2. CASE Has(q, t)
  <2>1. PICK k \in DOMAIN q : q[k].t = t BY <1>2 DEF Has
  <2>2. k \in DOMAIN (q \o x) /\ (q \o x)[k].t = t BY <1>1, <2>1
  <2> HIDE DEF Has
  <2> QED BY <2>2 DEF Has
<1>3. CASE Has(x, t)
  <2>1. PICK k \in DOMAIN x : x[k].t = t BY <1>3 DEF Has
  <2>2. Len(q) + k \in DOMAIN (q \o x) /\ (q \o x)[Len(q) + k].t = t BY <1>1, <2>1
  <2> QED BY <2>2 DEF Has
<1> QED BY <1>2, <1>3

LEMMA HasAppended ==
  ASSUME NEW S, NEW q \in Seq(S), NEW c \in S, NEW t, Has(q, t) \/ c.t = t
  PROVE  Has(Append(q, c), t)
<1>1. /\ Len(q) + 1 \in DOMAIN Append(q, c) /\ Append(q, c)[Len(q) + 1] = c
      /\ \A k \in DOMAIN q : k \in DOMAIN Append(q, c) /\ Append(q, c)[k] = q[k]
  BY AppendFacts
<1>2. CASE Has(q, t)
  <2>1. PICK k \in DOMAIN q : q[k].t = t BY <1>2 DEF Has
  <2> QED BY <1>1, <2>1 DEF Has
<1>3. CASE c.t = t BY <1>1, <1>3 DEF Has
<1> QED BY <1>2, <1>3

LEMMA QueuedWakes ==
  ASSUME NEW C, NEW I, NEW R, NEW partial, NEW queue, StackTypeOK, C \subseteq Sids,
         R \subseteq Sids, queue \in Seq(Chunks),
         SendQueuedStreamResets(C, I, R, partial, queue)
  PROVE  /\ wire'["server"] = wire["server"]
         /\ Has(queue, "data") => Has(wire'["client"], "data")
<1>1. wire'["server"] = wire["server"] /\ Outcome(C, I, R, partial, queue)
  BY ResetsFacts
<1>2. ASSUME NEW ask \in SUBSET Sids,
             wire'["client"] = Append(queue, [t |-> "reset", sids |-> ask])
      PROVE  Has(queue, "data") => Has(wire'["client"], "data")
  <2>1. [t |-> "reset", sids |-> ask] \in Chunks BY ChunksMade
  <2> QED BY <1>2, <2>1, HasAppended
<1> QED BY <1>1, <1>2 DEF Outcome

LEMMA RunWakes ==
  ASSUME ClientTypeOK, NEW t, Runs(t), t # "threshold", Has(tasks, "threshold")
  PROVE  Has(tasks', "threshold")
<1>1. tasks \in Seq(Tasks) BY DEF ClientTypeOK
<1> QED BY <1>1, HasTail DEF Runs

LEMMA PostWakes ==
  ASSUME ClientTypeOK, NEW new \in Seq(Tasks), Post(new),
         Has(tasks, "threshold") \/ Has(new, "threshold")
  PROVE  Has(tasks', "threshold")
  BY HasMore DEF ClientTypeOK, Post

LEMMA ConnectWakes ==
  ASSUME StackTypeOK, ClientTypeOK, WInv, Start \/ OnWritableState, ~denied
  PROVE  WInv'
<1>1. /\ UNCHANGED <<alive, partial_outgoing_message_, tasks, assoc, wire, denied>>
      /\ \/ Connect
         \/ UNCHANGED <<sock, ready_to_send_data_>>
  BY DEF Start, OnWritableState
<1>2. UNCHANGED Wakes BY <1>1 DEF Wakes
<1>3. CASE UNCHANGED <<sock, ready_to_send_data_>>
  BY <1>1, <1>2, <1>3 DEF WInv, Live, Waiting
<1>4. CASE sock' = sock \cup {"client"} /\ ready_to_send_data_' = TRUE
  BY <1>1, <1>2, <1>4 DEF WInv, Live, Waiting
<1> QED BY <1>1, <1>3, <1>4 DEF Connect

LEMMA SendDataWakes ==
  ASSUME NEW s \in Sids, NEW n \in 1..MaxFragments, StackTypeOK, ClientTypeOK,
         StackAssumption, TransportAssumption, WInv, SendData(s, n), ~denied
  PROVE  WInv'
<1> DEFINE m == [sid |-> s, ssn |-> ssn[s], id |-> Len(sent[s]) + 1, n |-> n]
           out == Sendv(m, 1)
<1>1. ssn[s] \in Nat /\ sent[s] \in Seq(Messages) BY DEF StackTypeOK, ClientTypeOK
<1>2. Len(sent[s]) + 1 \in Nat BY <1>1, LenProperties
<1>3. m \in Messages BY <1>1, <1>2 DEF Messages
<1>4. /\ wire' = [wire EXCEPT !["client"] = out.wire]
      /\ partial_outgoing_message_' = out.partial
      /\ Room("client", wire["client"]) > 0 /\ CanSend
      /\ UNCHANGED <<alive, ready_to_send_data_, tasks, sock, assoc, denied>>
  BY DEF SendData
<1> HIDE DEF m
<1>5. 1 \in 1..MaxFragments BY DEF TransportAssumption
<1>6. PICK x \in Seq(Chunks) :
        /\ out.wire = wire["client"] \o x
        /\ \A k \in DOMAIN x : x[k].t = "data" /\ x[k].sid = m.sid
  BY ONLY <1>3, <1>4, <1>5, StackTypeOK, StackAssumption, TransportAssumption, SendvConcat
<1>7. out.partial # NoMessage => Has(out.wire, "data")
  <2>1. /\ out.wire \in Seq(Chunks)
        /\ \A k \in (Len(wire["client"]) + 1)..Len(out.wire) : out.wire[k].t = "data"
        /\ out.partial # NoMessage => Len(out.wire) > Len(wire["client"])
    BY ONLY <1>3, <1>4, <1>5, StackTypeOK, StackAssumption, TransportAssumption, SendvFacts
  <2> HIDE DEF out
  <2>2. /\ Len(out.wire) \in Nat /\ DOMAIN out.wire = 1..Len(out.wire)
        /\ Len(wire["client"]) \in Nat
    BY <2>1, LenProperties DEF StackTypeOK, Ends
  <2>3. out.partial # NoMessage =>
          /\ Len(out.wire) \in (Len(wire["client"]) + 1)..Len(out.wire)
          /\ Len(out.wire) \in DOMAIN out.wire
    BY <2>1, <2>2
  <2> QED BY <2>1, <2>3 DEF Has
<1> HIDE DEF out
<1>8. /\ wire["client"] \in Seq(Chunks)
      /\ wire'["client"] = out.wire /\ wire'["server"] = wire["server"]
  BY <1>4 DEF StackTypeOK, Ends
<1>9. Wakes => Wakes'
  <2>1. Has(wire["client"], "data") => Has(wire'["client"], "data") BY <1>6, <1>8, HasMore
  <2> QED BY <1>4, <1>8, <2>1 DEF Wakes
<1>10. partial_outgoing_message_' # NoMessage => Wakes' BY <1>4, <1>7, <1>8 DEF Wakes
<1>11. "client" \in sock BY <1>4 DEF CanSend
<1> QED BY <1>4, <1>9, <1>10, <1>11 DEF WInv, Live, Waiting

LEMMA BlockedWakes ==
  ASSUME NEW s \in Sids, StackTypeOK, ClientTypeOK, StackAssumption, WInv,
         SendDataBlocked(s), ~denied
  PROVE  WInv'
<1>1. /\ UNCHANGED <<alive, partial_outgoing_message_, tasks, sock, assoc, wire, denied>>
      /\ partial_outgoing_message_ # NoMessage \/ Room("client", wire["client"]) = 0
  BY DEF SendDataBlocked, stackVars
<1>2. UNCHANGED Wakes BY <1>1 DEF Wakes
<1>3. Room("client", wire["client"]) = 0 => Wakes
  <2>1. wire["client"] \in Seq(Chunks) /\ Peer("client") = "server"
    BY DEF StackTypeOK, Ends, Peer
  <2> QED BY <2>1, RoomType DEF Ends, Wakes, Has
<1> QED BY <1>1, <1>2, <1>3 DEF WInv, Live, Waiting

(* The callback itself: it sends something, or finds no room, or nothing   *)
(* waits any more.  It cannot find the stream of the rest unknown.         *)
LEMMA ThresholdWakes ==
  ASSUME StackTypeOK, ClientTypeOK, StackAssumption, TransportAssumption, Closings, WInv,
         OnSendThresholdCallback, ~denied
  PROVE  WInv'
<1>1. UNCHANGED <<alive, sock, assoc, denied>> /\ alive BY DEF OnSendThresholdCallback, Runs
<1>2. CASE partial_outgoing_message_ = NoMessage
  <2>1. ready_to_send_data_' = TRUE /\ UNCHANGED partial_outgoing_message_
    BY <1>2 DEF OnSendThresholdCallback
  <2> QED BY <1>1, <1>2, <2>1 DEF WInv, Live, Waiting
<1>3. CASE partial_outgoing_message_ # NoMessage
  <2> DEFINE m == partial_outgoing_message_.m
             from == partial_outgoing_message_.next
             out == Sendv(m, from)
             may == CanSend /\ m.sid \in streams
  <2>1. SendBufferedMessage BY <1>3 DEF OnSendThresholdCallback
  <2>2. m \in Messages /\ from \in 1..MaxFragments BY <1>3 DEF ClientTypeOK, Partials
  <2>3. m.sid \in streams BY <1>3 DEF Closings, PartialFree
  <2>4. "client" \in sock BY <1>1, <1>3 DEF WInv
  <2>5. wire["client"] \in Seq(Chunks) /\ Peer("client") = "server"
        /\ closure_initiated \subseteq Sids /\ incoming_reset_complete \subseteq Sids
    BY DEF StackTypeOK, ClientTypeOK, Ends, Peer
  <2>6. CASE may /\ Room("client", wire["client"]) > 0
    <3>1. /\ partial_outgoing_message_' = out.partial
          /\ ready_to_send_data_' = (ready_to_send_data_ \/ out.partial = NoMessage)
          /\ \/ /\ out.partial = NoMessage
                /\ SendQueuedStreamResets(closure_initiated, outgoing_reset_initiated,
                                          incoming_reset_complete, NoMessage, out.wire)
             \/ /\ wire' = [wire EXCEPT !["client"] = out.wire]
                /\ UNCHANGED <<outgoing_reset_initiated, outstanding>>
      BY <2>1, <2>6 DEF SendBufferedMessage
    <3> HIDE DEF m, from
    <3>2. /\ out.wire \in Seq(Chunks)
          /\ \A k \in (Len(wire["client"]) + 1)..Len(out.wire) : out.wire[k].t = "data"
          /\ out.partial # NoMessage => Len(out.wire) > Len(wire["client"])
      BY ONLY SMTT(40), <2>2, <2>6, StackTypeOK, StackAssumption, TransportAssumption, SendvFacts
    <3> HIDE DEF out
    <3>3. CASE out.partial = NoMessage
      <4>1. ready_to_send_data_' = TRUE BY <3>1, <3>3, Zenon
      <4> QED BY <1>1, <2>4, <3>1, <3>3, <4>1 DEF WInv, Live, Waiting
    <3>4. CASE out.partial # NoMessage
      <4>1. wire' = [wire EXCEPT !["client"] = out.wire] BY <3>1, <3>4
      <4>2. /\ Len(out.wire) \in Nat /\ DOMAIN out.wire = 1..Len(out.wire)
            /\ Len(wire["client"]) \in Nat
        BY <2>5, <3>2, LenProperties
      <4>3. /\ Len(out.wire) \in (Len(wire["client"]) + 1)..Len(out.wire)
            /\ Len(out.wire) \in DOMAIN out.wire
        BY <3>2, <3>4, <4>2
      <4>4. Has(out.wire, "data") BY <3>2, <4>3 DEF Has
      <4>5. wire'["client"] = out.wire BY <4>1 DEF StackTypeOK, Ends
      <4> QED BY <1>1, <2>4, <4>4, <4>5 DEF WInv, Wakes
    <3> QED BY <3>3, <3>4
  <2>7. CASE ~(may /\ Room("client", wire["client"]) > 0)
    <3>1. UNCHANGED <<partial_outgoing_message_, wire>>
      BY <2>1, <2>7 DEF SendBufferedMessage
    <3>2. CASE Live
      <4>1. may BY <2>3, <3>2 DEF Live, CanSend
      <4>2. Room("client", wire["client"]) \in Int BY <2>5, RoomType DEF Ends
      <4>3. Room("client", wire["client"]) <= 0 BY <2>7, <4>1, <4>2
      <4>4. Has(wire["client"], "data") \/ Has(wire["server"], "sack")
        BY <2>5, <4>3, RoomType DEF Ends, Has
      <4> QED BY <1>1, <2>4, <3>1, <4>4 DEF WInv, Wakes
    <3>3. CASE ~Live BY <1>1, <2>4, <3>3 DEF WInv, Live
    <3> QED BY <3>2, <3>3
  <2> QED BY <2>6, <2>7
<1> QED BY <1>2, <1>3

LEMMA PacketWakes ==
  ASSUME StackTypeOK, ClientTypeOK, WInv, OnPacketRead, ~denied
  PROVE  WInv'
<1> DEFINE c == Arriving("client")
           rest == [wire EXCEPT !["server"] = Tail(@)]
<1>1. /\ c \in Chunks /\ wire["server"] \in Seq(Chunks) /\ wire["server"] # <<>>
      /\ c = Head(wire["server"]) /\ wire["client"] \in Seq(Chunks)
  BY ArrivingType DEF OnPacketRead, Peer, Ends, Arriving
<1>2. /\ UNCHANGED <<alive, ready_to_send_data_, partial_outgoing_message_, sock, denied>>
      /\ \/ DataRead(c, rest) \/ SackRead(c, rest) \/ RequestRead(c, rest)
         \/ ResponseRead(c, rest) \/ AbortRead(c, rest)
  BY DEF OnPacketRead
<1>3. /\ rest["client"] = wire["client"] /\ rest["server"] = Tail(wire["server"])
      /\ rest \in [Ends -> Seq(Chunks)]
  BY <1>1, HeadTailProperties DEF StackTypeOK, Ends
<1> HIDE DEF c, rest
<1>4. c.t # "sack" => (Has(wire["server"], "sack") => Has(rest["server"], "sack"))
  BY <1>1, <1>3, HasTail
<1>5. ASSUME NEW new \in Seq(Tasks), Post(new), wire' = rest, assoc' = assoc,
             c.t # "sack" \/ Has(new, "threshold")
      PROVE  WInv'
  <2>1. Has(tasks, "threshold") \/ Has(new, "threshold") => Has(tasks', "threshold")
    BY <1>5, PostWakes
  <2>2. Wakes => Wakes' BY <1>3, <1>4, <1>5, <2>1 DEF Wakes
  <2> QED BY <1>2, <1>5, <2>2 DEF WInv, Live, Waiting
<1>6. CASE DataRead(c, rest)
  <2>1. c.t = "data" /\ Post(<<c>>) /\ wire' = rest /\ assoc' = assoc BY <1>6 DEF DataRead
  <2>2. <<c>> \in Seq(Tasks) BY <1>1, <2>1, ChunkFacts, TasksMade
  <2>3. c.t # "sack" BY <2>1
  <2> QED BY <1>5, <2>1, <2>2, <2>3
<1>7. CASE SackRead(c, rest)
  <2> DEFINE new == IF Unacked("client", wire["client"]) = 1
                    THEN <<Task("dry"), Task("threshold")>> ELSE <<Task("threshold")>>
  <2>1. Post(new) /\ wire' = rest /\ assoc' = assoc BY <1>7 DEF SackRead
  <2>2. /\ Task("dry") \in Tasks /\ Task("threshold") \in Tasks
        /\ Task("threshold").t = "threshold"
    BY TasksMade DEF Task
  <2>3. new \in Seq(Tasks) BY <2>2
  <2>4. Has(new, "threshold")
    <3>1. CASE Unacked("client", wire["client"]) = 1
      <4>1. 2 \in DOMAIN new /\ new[2].t = "threshold" BY <3>1, <2>2
      <4> HIDE DEF new
      <4> QED BY <4>1 DEF Has
    <3>2. CASE Unacked("client", wire["client"]) # 1
      <4>1. 1 \in DOMAIN new /\ new[1].t = "threshold" BY <3>2, <2>2
      <4> HIDE DEF new
      <4> QED BY <4>1 DEF Has
    <3> QED BY <3>1, <3>2
  <2> HIDE DEF new
  <2> QED BY <1>5, <2>1, <2>3, <2>4
<1>8. CASE RequestRead(c, rest)
  <2>1. /\ c.t \in {"reset", "add"} /\ assoc' = assoc
        /\ wire' = [rest EXCEPT !["client"] = Append(@, Response(TRUE))]
    BY <1>8 DEF RequestRead
  <2>2. Has(tasks, "threshold") => Has(tasks', "threshold")
    <3>1. CASE c.t = "reset"
      <4>1. <<c>> \in Seq(Tasks) BY <1>1, <3>1, ChunkFacts, TasksMade
      <4>2. Post(<<c>>) BY <1>8, <3>1 DEF RequestRead
      <4> QED BY <4>1, <4>2, PostWakes
    <3>2. CASE c.t # "reset" BY <1>8, <3>2 DEF RequestRead
    <3> QED BY <3>1, <3>2
  <2>3. /\ wire'["client"] = Append(wire["client"], Response(TRUE))
        /\ wire'["server"] = rest["server"]
    BY <1>3, <2>1 DEF Ends
  <2>4. Has(wire["client"], "data") => Has(wire'["client"], "data")
    BY ZenonT(60), <1>1, <2>3, ChunksMade, HasAppended
  <2>5. Wakes => Wakes' BY <1>4, <2>1, <2>2, <2>3, <2>4 DEF Wakes
  <2> QED BY <1>2, <2>1, <2>5 DEF WInv, Live, Waiting
<1>9. CASE ResponseRead(c, rest)
  <2> DEFINE new == IF c.ok THEN <<[t |-> "outgoing", sids |-> Requested("client")]>>
                            ELSE <<Task("failed")>>
  <2>1. Post(new) /\ wire' = rest /\ assoc' = assoc /\ c.t # "sack"
    BY <1>9 DEF ResponseRead
  <2>2. Requested("client") \in SUBSET Sids BY RequestFacts DEF Ends
  <2>3. new \in Seq(Tasks) BY <2>2, TasksMade
  <2> HIDE DEF new
  <2> QED BY <1>5, <2>1, <2>3
<1>10. CASE AbortRead(c, rest)
  <2>1. assoc'["client"] = "lost" BY <1>10 DEF AbortRead, StackTypeOK, Ends
  <2> QED BY <1>2, <2>1 DEF WInv, Live
<1> QED BY <1>2, <1>6, <1>7, <1>8, <1>9, <1>10

(* Steps that only queue resets: ResetStream and the tasks that call       *)
(* SendQueuedStreamResets.                                                 *)
LEMMA ResetWakes ==
  ASSUME StackTypeOK, ClientTypeOK, WInv, ~denied,
         \/ \E s \in Sids : ResetStream(s)
         \/ OnCommUp \/ OnIncomingReset \/ OnOutgoingReset \/ OnResetFailed
  PROVE  WInv'
<1>1. /\ wire["client"] \in Seq(Chunks) /\ streams \subseteq Sids
      /\ closure_initiated \subseteq Sids /\ incoming_reset_complete \subseteq Sids
  BY DEF StackTypeOK, Ends, ClientTypeOK
<1> DEFINE Quiet == /\ wire'["server"] = wire["server"]
                    /\ Has(wire["client"], "data") => Has(wire'["client"], "data")
                    /\ UNCHANGED <<alive, ready_to_send_data_, partial_outgoing_message_,
                                   sock, assoc, denied>>
<1>2. Quiet /\ (Has(tasks, "threshold") => Has(tasks', "threshold")) => WInv'
  BY DEF WInv, Live, Waiting, Wakes
<1>3. ASSUME NEW incoming, NEW outgoing, OnStreamReset(incoming, outgoing),
             incoming \subseteq Sids
      PROVE  Quiet
  <2> DEFINE C == closure_initiated \ (incoming \cap outgoing)
             I == outgoing_reset_initiated \ (incoming \cap outgoing)
             R == incoming \ (incoming \cap outgoing)
  <2>1. SendQueuedStreamResets(C, I, R, partial_outgoing_message_, wire["client"])
    BY <1>3 DEF OnStreamReset
  <2>2. C \subseteq Sids /\ R \subseteq Sids BY <1>1, <1>3
  <2>3. UNCHANGED <<alive, ready_to_send_data_, partial_outgoing_message_, sock, assoc, denied>>
    BY <1>3 DEF OnStreamReset
  <2> HIDE DEF C, I, R
  <2>4. /\ wire'["server"] = wire["server"]
        /\ Has(wire["client"], "data") => Has(wire'["client"], "data")
    BY ONLY <1>1, <2>1, <2>2, StackTypeOK, QueuedWakes
  <2> QED BY <2>3, <2>4
<1>4. ASSUME NEW t, Runs(t), t # "threshold"
      PROVE  Has(tasks, "threshold") => Has(tasks', "threshold")
  BY <1>4, RunWakes
<1>5. CASE OnIncomingReset
  <2> DEFINE incoming == incoming_reset_complete \cup (Head(tasks).sids \cap streams)
  <2>1. OnStreamReset(incoming, outgoing_reset_complete) /\ Runs("reset")
    BY <1>5 DEF OnIncomingReset
  <2>2. incoming \subseteq Sids BY <1>1
  <2> HIDE DEF incoming, Quiet
  <2> QED BY <1>2, <1>3, <1>4, <2>1, <2>2
<1>6. CASE OnOutgoingReset
  <2> DEFINE outgoing == outgoing_reset_complete \cup (Head(tasks).sids \cap streams)
  <2>1. OnStreamReset(incoming_reset_complete, outgoing) /\ Runs("outgoing")
    BY <1>6 DEF OnOutgoingReset
  <2> HIDE DEF outgoing, Quiet
  <2> QED BY <1>1, <1>2, <1>3, <1>4, <2>1
<1>7. CASE OnCommUp
  <2>1. SendQueuedStreamResets(closure_initiated, outgoing_reset_initiated,
                               incoming_reset_complete, partial_outgoing_message_,
                               wire["client"])
    BY <1>7 DEF OnCommUp
  <2>2. UNCHANGED <<alive, ready_to_send_data_, partial_outgoing_message_, sock, assoc, denied>>
        /\ Runs("commup")
    BY <1>7 DEF OnCommUp
  <2>3. /\ wire'["server"] = wire["server"]
        /\ Has(wire["client"], "data") => Has(wire'["client"], "data")
    BY ONLY <1>1, <2>1, StackTypeOK, QueuedWakes
  <2> QED BY <1>2, <1>4, <2>2, <2>3
<1>8. CASE OnResetFailed
  <2>1. SendQueuedStreamResets(closure_initiated, {}, incoming_reset_complete,
                               partial_outgoing_message_, wire["client"])
    BY <1>8 DEF OnResetFailed
  <2>2. UNCHANGED <<alive, ready_to_send_data_, partial_outgoing_message_, sock, assoc, denied>>
        /\ Runs("failed")
    BY <1>8 DEF OnResetFailed
  <2>3. /\ wire'["server"] = wire["server"]
        /\ Has(wire["client"], "data") => Has(wire'["client"], "data")
    BY ONLY <1>1, <2>1, StackTypeOK, QueuedWakes
  <2> QED BY <1>2, <1>4, <2>2, <2>3
<1>9. ASSUME NEW s \in Sids, ResetStream(s) PROVE WInv'
  <2> DEFINE C == closure_initiated \cup {s}
  <2>1. SendQueuedStreamResets(C, outgoing_reset_initiated, incoming_reset_complete,
                               partial_outgoing_message_, wire["client"])
    BY <1>9 DEF ResetStream
  <2>2. UNCHANGED <<alive, ready_to_send_data_, partial_outgoing_message_, sock, assoc,
                    denied, tasks>>
    BY <1>9 DEF ResetStream
  <2>3. C \subseteq Sids BY <1>1
  <2> HIDE DEF C
  <2>4. /\ wire'["server"] = wire["server"]
        /\ Has(wire["client"], "data") => Has(wire'["client"], "data")
    BY ONLY <1>1, <2>1, <2>3, StackTypeOK, QueuedWakes
  <2> QED BY <1>2, <2>2, <2>4
<1> QED BY <1>5, <1>6, <1>7, <1>8, <1>9

LEMMA ClientWakes ==
  ASSUME StackTypeOK, ClientTypeOK, StackAssumption, TransportAssumption, Closings, WInv,
         ClientNext, ~denied
  PROVE  WInv'
<1>1. CASE Start \/ OnWritableState BY <1>1, ConnectWakes
<1>2. ASSUME NEW s \in Sids, OpenStream(s) PROVE WInv'
  BY <1>2 DEF OpenStream, stackVars, WInv, Live, Waiting, Wakes
<1>3. CASE \/ \E s \in Sids : ResetStream(s)
           \/ OnCommUp \/ OnIncomingReset \/ OnOutgoingReset \/ OnResetFailed
  BY <1>3, ResetWakes
<1>4. ASSUME NEW s \in Sids, SendDataBlocked(s) PROVE WInv' BY <1>4, BlockedWakes
<1>5. ASSUME NEW s \in Sids, NEW n \in 1..MaxFragments, SendData(s, n) PROVE WInv'
  BY <1>5, SendDataWakes
<1>6. CASE OnPacketRead BY <1>6, PacketWakes
<1>7. CASE ClientNotified
  <2>1. UNCHANGED <<alive, ready_to_send_data_, partial_outgoing_message_, sock, wire, denied>>
    BY <1>7 DEF ClientNotified
  <2>2. CASE StackUp("client") /\ Post(<<Task("commup")>>)
    <3>1. /\ <<Task("commup")>> \in Seq(Tasks)
          /\ assoc'["server"] = assoc["server"] /\ assoc["client"] = "closed"
      BY <2>2, TasksMade DEF StackUp, StackTypeOK, Ends
    <3>2. Wakes => Wakes' BY <2>1, <2>2, <3>1, PostWakes DEF Wakes
    <3> QED BY <2>1, <3>1, <3>2 DEF WInv, Live, Waiting
  <2>3. CASE StackLost("client")
    <3>1. assoc'["client"] = "lost" BY <2>3 DEF StackLost, StackTypeOK, Ends
    <3> QED BY <2>1, <3>1 DEF WInv, Live
  <2> QED BY <1>7, <2>2, <2>3 DEF ClientNotified
<1>8. CASE OnSendThresholdCallback BY <1>8, ThresholdWakes
<1>9. CASE OnSenderDry \/ OnCommLost \/ OnDataFromSctp
  <2>1. PICK t : Runs(t) /\ t # "threshold"
    BY <1>9 DEF OnSenderDry, OnCommLost, OnDataFromSctp
  <2>2. /\ UNCHANGED <<alive, partial_outgoing_message_, sock, assoc, wire, denied>>
        /\ ready_to_send_data_' = ready_to_send_data_ \/ ready_to_send_data_' = TRUE
    BY <1>9 DEF OnSenderDry, OnCommLost, OnDataFromSctp, stackVars
  <2>3. Wakes => Wakes' BY <2>1, <2>2, RunWakes DEF Wakes
  <2> QED BY <2>2, <2>3 DEF WInv, Live, Waiting
<1>10. CASE DestroyTransport BY <1>10 DEF DestroyTransport, WInv, Live
<1> QED BY <1>1, <1>2, <1>3, <1>4, <1>5, <1>6, <1>7, <1>8, <1>9, <1>10
        DEF ClientNext, RunTask

(* The server takes data off the wire and puts its SACK there; what it     *)
(* sends itself goes behind what is there.                                 *)
LEMMA AddedWakes ==
  ASSUME StackTypeOK, WInv,
         \E x \in Seq(Chunks) : wire'["server"] = wire["server"] \o x,
         Has(wire["client"], "data") => Has(wire'["client"], "data"),
         UNCHANGED <<clientVars, denied>>, sock' \ {"server"} = sock \ {"server"},
         \A e \in Ends : assoc[e] = "lost" => assoc'[e] = "lost"
  PROVE  WInv'
<1>1. PICK x \in Seq(Chunks) : wire'["server"] = wire["server"] \o x OBVIOUS
<1>2. wire["server"] \in Seq(Chunks) BY DEF StackTypeOK, Ends
<1>3. Has(wire["server"], "sack") => Has(wire'["server"], "sack") BY <1>1, <1>2, HasMore
<1>4. UNCHANGED <<alive, ready_to_send_data_, partial_outgoing_message_, tasks>>
  BY DEF clientVars
<1>5. Wakes => Wakes' BY <1>3, <1>4 DEF Wakes
<1> QED BY <1>4, <1>5 DEF WInv, Live, Waiting, Ends

LEMMA ProcessWakes ==
  ASSUME StackTypeOK, WInv, ProcessSctpData, UNCHANGED clientVars
  PROVE  WInv'
<1> DEFINE c == Arriving("server")
           rest == [wire EXCEPT !["client"] = Tail(@)]
<1>1. /\ c \in Chunks /\ wire["client"] \in Seq(Chunks) /\ wire["client"] # <<>>
      /\ c = Head(wire["client"]) /\ wire["server"] \in Seq(Chunks)
      /\ Tail(wire["client"]) \in Seq(Chunks)
  BY ArrivingType DEF ProcessSctpData, Peer, Ends, Arriving
<1>2. UNCHANGED <<sock, denied>> /\ \/ ReceiveData(c, rest) \/ ReceiveReset(c, rest)
                                    \/ ReceiveResponse(c, rest) \/ ReceiveAbort(c, rest)
  BY DEF ProcessSctpData
<1>3. /\ rest["server"] = wire["server"] /\ rest["client"] = Tail(wire["client"])
      /\ rest \in [Ends -> Seq(Chunks)]
  BY <1>1 DEF StackTypeOK, Ends
<1> HIDE DEF c, rest
<1>4. c.t # "data" => (Has(wire["client"], "data") => Has(rest["client"], "data"))
  BY <1>1, <1>3, HasTail
<1>5. CASE ReceiveData(c, rest)
  <2>1. wire' = [rest EXCEPT !["server"] = Append(@, Sack)] BY <1>5 DEF ReceiveData
  <2>2. wire'["server"] = Append(wire["server"], Sack) BY <1>3, <2>1 DEF Ends
  <2>3. Sack \in Chunks /\ Sack.t = "sack" BY ChunksMade DEF Sack
  <2>4. Has(wire'["server"], "sack") BY <1>1, <2>2, <2>3, HasAppended
  <2>5. UNCHANGED <<alive, partial_outgoing_message_>> BY DEF clientVars
  <2> QED BY <1>2, <2>4, <2>5 DEF WInv, Wakes
<1>6. CASE ReceiveReset(c, rest)
  <2> DEFINE a == Append(wire["server"], Response(TRUE))
             base == [rest EXCEPT !["server"] = Append(@, Response(TRUE))]
  <2>1. c.t = "reset" /\ ResetSctpStreams(c.sids, base) /\ assoc' = assoc
    BY <1>6 DEF ReceiveReset
  <2>2. c.sids \subseteq Sids BY <1>1, <2>1, ChunkFacts DEF Resets
  <2>3. Response(TRUE) \in Chunks BY ChunksMade
  <2>4. a \in Seq(Chunks) BY <1>1, <2>3, AppendFacts
  <2>5. base["client"] = rest["client"] /\ base["server"] = a /\ base \in [Ends -> Seq(Chunks)]
    BY <1>3, <2>4 DEF Ends
  <2> HIDE DEF base
  <2>6. /\ wire'["client"] = base["client"]
        /\ \E x \in Seq(Chunks) : /\ wire'["server"] = base["server"] \o x
                                  /\ Lacks(x, "response") /\ Lacks(x, "data")
    BY ONLY <2>1, <2>2, <2>5, StackTypeOK, ResetSctpWire
  <2>7. PICK x \in Seq(Chunks) : wire'["server"] = a \o x BY <2>5, <2>6
  <2>8. Has(wire["server"], "sack") => Has(a, "sack") BY <1>1, <2>3, HasAppended
  <2>9. Has(a, "sack") => Has(wire'["server"], "sack") BY ZenonT(60), <2>4, <2>7, HasMore
  <2>10. UNCHANGED <<alive, ready_to_send_data_, partial_outgoing_message_, tasks>>
    BY DEF clientVars
  <2>11. Wakes => Wakes' BY <1>4, <2>1, <2>5, <2>6, <2>8, <2>9, <2>10 DEF Wakes
  <2> QED BY <1>2, <2>1, <2>10, <2>11 DEF WInv, Live, Waiting
<1>7. CASE ReceiveResponse(c, rest)
  <2>1. c.t # "data" /\ wire' = rest /\ assoc' = assoc BY <1>7 DEF ReceiveResponse
  <2>2. UNCHANGED <<alive, ready_to_send_data_, partial_outgoing_message_, tasks>>
    BY DEF clientVars
  <2>3. Wakes => Wakes' BY <1>3, <1>4, <2>1, <2>2 DEF Wakes
  <2> QED BY <1>2, <2>1, <2>2, <2>3 DEF WInv, Live, Waiting
<1>8. CASE ReceiveAbort(c, rest)
  <2>1. assoc'["server"] = "lost" BY <1>8 DEF ReceiveAbort, StackTypeOK, Ends
  <2>2. UNCHANGED <<alive, partial_outgoing_message_>> BY DEF clientVars
  <2> QED BY <1>2, <2>1, <2>2 DEF WInv, Live
<1> QED BY <1>2, <1>5, <1>6, <1>7, <1>8

LEMMA ServerWakes ==
  ASSUME StackTypeOK, ServerTypeOK, AssociationAssumption, WInv, ServerNext,
         UNCHANGED clientVars, ~denied'
  PROVE  WInv'
<1>1. UNCHANGED <<alive, ready_to_send_data_, partial_outgoing_message_, tasks>>
  BY DEF clientVars
<1>2. CASE TransportConnected \/ OnServerCommLost
  <2>1. UNCHANGED <<wire, assoc, denied>> /\ ("client" \in sock' <=> "client" \in sock)
    BY <1>2 DEF TransportConnected, OnServerCommLost, stackVars
  <2> QED BY <1>1, <2>1 DEF WInv, Live, Waiting, Wakes
<1>3. CASE ServerLost
  <2>1. assoc'["server"] = "lost" /\ UNCHANGED sock
    BY <1>3 DEF ServerLost, StackLost, StackTypeOK, Ends
  <2> QED BY <1>1, <2>1 DEF WInv, Live
<1>4. CASE ServerUp
  <2>1. NegotiatedOs \in 0..MaxSctpStreams BY DEF AssociationAssumption
  <2>2. /\ UNCHANGED <<sock, denied>> /\ assoc["server"] = "closed"
        /\ assoc'["client"] = assoc["client"]
    BY <1>4 DEF ServerUp, StackUp, StackTypeOK, Ends
  <2>3. \A e \in Ends : assoc[e] = "lost" => assoc'[e] = "lost" BY <2>2 DEF Ends
  <2>4. CASE UNCHANGED <<wire, outstanding>>
    <3>1. Wakes => Wakes' BY <1>1, <2>4 DEF Wakes
    <3> QED BY <1>1, <2>2, <2>3, <3>1 DEF WInv, Live, Waiting, Ends
  <2>5. CASE AddOutgoingStreams(TRUE, NegotiatedOs, wire["server"])
    <3>1. /\ wire'["client"] = wire["client"]
          /\ \E x \in Seq(Chunks) : /\ wire'["server"] = wire["server"] \o x
                                    /\ Lacks(x, "response") /\ Lacks(x, "data")
      BY <2>1, <2>5, AddWire
    <3>2. \E x \in Seq(Chunks) : wire'["server"] = wire["server"] \o x BY <3>1
    <3> QED BY <2>2, <2>3, <3>1, <3>2, AddedWakes
  <2> QED BY <1>4, <2>4, <2>5 DEF ServerUp
<1>5. ASSUME NEW s \in Sids, HandleDataConsumer(s) PROVE WInv'
  <2>1. /\ os \in 0..MaxSctpStreams /\ AddOutgoingStreams(FALSE, os, wire["server"])
        /\ UNCHANGED <<sock, assoc, denied>>
    BY <1>5 DEF HandleDataConsumer, ServerTypeOK
  <2>2. /\ wire'["client"] = wire["client"]
        /\ \E x \in Seq(Chunks) : /\ wire'["server"] = wire["server"] \o x
                                  /\ Lacks(x, "response") /\ Lacks(x, "data")
    BY <2>1, AddWire
  <2>3. \E x \in Seq(Chunks) : wire'["server"] = wire["server"] \o x BY <2>2
  <2> QED BY <2>1, <2>2, <2>3, AddedWakes
<1>6. ASSUME NEW s \in Sids, DataChannelClosed(s) PROVE WInv'
  <2>1. /\ ResetSctpStreams({s}, wire) /\ {s} \subseteq Sids /\ wire \in [Ends -> Seq(Chunks)]
        /\ UNCHANGED <<sock, assoc, denied>>
    BY <1>6 DEF DataChannelClosed, StackTypeOK
  <2>2. /\ wire'["client"] = wire["client"]
        /\ \E x \in Seq(Chunks) : /\ wire'["server"] = wire["server"] \o x
                                  /\ Lacks(x, "response") /\ Lacks(x, "data")
    BY <2>1, ResetSctpWire
  <2>3. \E x \in Seq(Chunks) : wire'["server"] = wire["server"] \o x BY <2>2
  <2> QED BY <2>1, <2>2, <2>3, AddedWakes
<1>7. ASSUME NEW s \in Sids, NEW n \in MessageSizes, SendSctpMessage(s, n) PROVE WInv'
  <2>1. n \in Nat OBVIOUS
  <2>2. wire'["client"] = wire["client"] /\ UNCHANGED <<sock, assoc, denied>>
    BY <1>7 DEF SendSctpMessage, StackTypeOK, Ends
  <2>3. \E x \in Seq(Chunks) : /\ wire'["server"] = wire["server"] \o x
                               /\ Lacks(x, "response")
    BY <1>7, <2>1, SctpMessageWire
  <2>4. \E x \in Seq(Chunks) : wire'["server"] = wire["server"] \o x BY <2>3
  <2> QED BY <2>2, <2>4, AddedWakes
<1>8. CASE ProcessSctpData BY <1>8, ProcessWakes
<1>9. CASE DenyReset BY <1>9 DEF DenyReset
<1>10. CASE DestroyAssociation
  <2>1. assoc'["server"] = "lost" /\ ("client" \in sock' <=> "client" \in sock)
    BY <1>10 DEF DestroyAssociation, StackClose, StackTypeOK, Ends
  <2> QED BY <1>1, <2>1 DEF WInv, Live
<1> QED BY <1>2, <1>3, <1>4, <1>5, <1>6, <1>7, <1>8, <1>9, <1>10 DEF ServerNext

(* Together with what PartialStreamStays rests on, while nothing is denied. *)
LEMMA WakesStep ==
  ASSUME Constants, TInv, SInv, ~denied => WInv, [Next]_vars
  PROVE  ~denied' => WInv'
<1> SUFFICES ASSUME ~denied' PROVE WInv'
  OBVIOUS
<1>1. /\ StackTypeOK /\ ClientTypeOK /\ ServerTypeOK
      /\ StackAssumption /\ TransportAssumption /\ AssociationAssumption
  BY DEF TInv, TypeOK, Constants
<1>2. CASE Client(ClientNext)
  <2>1. ClientNext BY <1>2 DEF Client
  <2>2. ~denied /\ Closings /\ WInv BY <2>1, DeniedStays DEF SInv
  <2> QED BY <1>1, <2>1, <2>2, ClientWakes
<1>3. CASE Server(ServerNext)
  <2>1. ServerNext /\ UNCHANGED clientVars BY <1>3 DEF Server
  <2>2. WInv BY <2>1, DeniedStays
  <2> QED BY <1>1, <2>1, <2>2, ServerWakes
<1>4. CASE UNCHANGED vars
  BY <1>4 DEF vars, clientVars, stackVars, WInv, Live, Waiting, Wakes
<1> QED BY <1>2, <1>3, <1>4 DEF Next

(* A transport that waits will be woken.  The argument: when it has no     *)
(* room, its own data or a SACK for it is on the wire (RoomType); data     *)
(* turns into a SACK, a SACK into the callback; and the callback sends     *)
(* something or finds no room again, because the stream of the rest it     *)
(* would send is known (PartialStreamStays).                               *)
THEOREM WaitingIsWoken ==
  ASSUME StackAssumption, TransportAssumption, AssociationAssumption
  PROVE  Spec => []NoLostWakeup
<1>1. Constants BY DEF Constants
<1>2. Init => (~denied => WInv) BY DEF Init, StackInit, ClientInit, WInv, Live
<1>3. TInv /\ SInv /\ (~denied => WInv) /\ [Next]_vars => (~denied => WInv)'
  BY <1>1, WakesStep
<1>4. (~denied => WInv) => NoLostWakeup
  BY DEF WInv, NoLostWakeup, Live, Waiting, Wakes, Has, Posted, InFlight
<1> QED BY <1>2, <1>3, <1>4, SInvHolds, PTL DEF Spec

-----------------------------------------------------------------------------
(* What the server sends: its chunks pass from the wire to the tasks and   *)
(* from there to the message that is being put together, in order, and     *)
(* none is left out.  The data in the three places is one chain.           *)

DataOf(q) == {q[k] : k \in {j \in DOMAIN q : q[j].t = "data"}}

Before(c, d) == \/ c.id < d.id
                \/ c.id = d.id /\ c.sid = d.sid /\ c.i < d.i /\ ~c.eor
AllBefore(A, B) == \A c \in A, d \in B : Before(c, d)
NextOf(c, d) == d.id = c.id /\ d.sid = c.sid /\ d.i = c.i + 1

Sorted(q) == \A j, k \in DOMAIN q :
  q[j].t = "data" /\ q[k].t = "data" /\ j < k => Before(q[j], q[k])

(* Every chunk but a first one has its predecessor, and every one but the  *)
(* last of a message its successor, unless the server is gone and nothing  *)
(* comes after it.                                                         *)
Chain(A, more) ==
  \A c \in A : /\ c.i > 0
               /\ c.i > 1 => \E d \in A : NextOf(d, c)
               /\ ~c.eor => \/ \E d \in A : NextOf(c, d)
                            \/ ~more /\ \A d \in A : ~Before(c, d)

Parts(p) == \A k \in DOMAIN p :
  p[k].sid = p[1].sid /\ p[k].id = p[1].id /\ p[k].i = k /\ ~p[k].eor

Flow(p, q, r, more) ==
  /\ Parts(p) /\ Sorted(q) /\ Sorted(r)
  /\ AllBefore(DataOf(p), DataOf(q) \cup DataOf(r)) /\ AllBefore(DataOf(q), DataOf(r))
  /\ Chain(DataOf(p) \cup DataOf(q) \cup DataOf(r), more)

LEMMA BeforeFacts ==
  ASSUME NEW c \in DataChunks, NEW d \in DataChunks, Before(c, d)
  PROVE  ~Before(d, c) /\ c # d
  BY DEF DataChunks, Before

LEMMA DataTypes ==
  /\ \A q \in Seq(Chunks) : DataOf(q) \subseteq DataChunks
  /\ \A q \in Seq(Tasks) : DataOf(q) \subseteq DataChunks
  /\ \A q \in Seq(DataChunks) : DataOf(q) = {q[k] : k \in DOMAIN q} /\ DataOf(q) \subseteq DataChunks
<1>1. ASSUME NEW S, NEW q \in Seq(S), NEW k \in DOMAIN q PROVE q[k] \in S
  OBVIOUS
<1>2. ASSUME NEW q \in Seq(Chunks) PROVE DataOf(q) \subseteq DataChunks
  BY <1>1, ChunkFacts DEF DataOf
<1>3. ASSUME NEW q \in Seq(Tasks) PROVE DataOf(q) \subseteq DataChunks
  BY <1>1, TaskFacts DEF DataOf
<1>4. ASSUME NEW q \in Seq(DataChunks)
      PROVE  DataOf(q) = {q[k] : k \in DOMAIN q} /\ DataOf(q) \subseteq DataChunks
  <2>1. \A k \in DOMAIN q : q[k] \in DataChunks BY <1>1
  <2>2. \A c \in DataChunks : c.t = "data" BY DEF DataChunks
  <2> QED BY <2>1, <2>2 DEF DataOf
<1> QED BY <1>2, <1>3, <1>4

LEMMA DataTail ==
  ASSUME NEW S, NEW q \in Seq(S), q # <<>>
  PROVE  /\ Head(q).t # "data" => DataOf(q) = DataOf(Tail(q))
         /\ Head(q).t = "data" => DataOf(q) = {Head(q)} \cup DataOf(Tail(q))
         /\ Sorted(q) => Sorted(Tail(q))
         /\ Sorted(q) /\ Head(q).t = "data" => AllBefore({Head(q)}, DataOf(Tail(q)))
<1>1. /\ Tail(q) \in Seq(S) /\ Head(q) = q[1] /\ 1 \in DOMAIN q
      /\ \A k \in DOMAIN Tail(q) : k + 1 \in DOMAIN q /\ k + 1 # 1 /\ Tail(q)[k] = q[k + 1]
      /\ \A k \in DOMAIN q \ {1} : k - 1 \in DOMAIN Tail(q) /\ Tail(q)[k - 1] = q[k]
  BY TailFacts
<1>2. DOMAIN q \subseteq Nat \ {0} /\ DOMAIN Tail(q) \subseteq Nat \ {0}
  BY <1>1, LenProperties
<1>3. DataOf(Tail(q)) \subseteq DataOf(q) BY <1>1 DEF DataOf
<1>4. \A x \in DataOf(q) : x = Head(q) \/ x \in DataOf(Tail(q))
  <2> SUFFICES ASSUME NEW k \in DOMAIN q, q[k].t = "data", k # 1
               PROVE  q[k] \in DataOf(Tail(q))
    BY <1>1 DEF DataOf
  <2>1. k - 1 \in DOMAIN Tail(q) /\ Tail(q)[k - 1] = q[k] BY <1>1
  <2> QED BY <2>1 DEF DataOf
<1>5. Head(q).t = "data" <=> q[1].t = "data" BY <1>1
<1>6. Head(q).t = "data" => Head(q) \in DataOf(q) BY <1>1 DEF DataOf
<1>7. Head(q).t # "data" => Head(q) \notin DataOf(q) BY DEF DataOf
<1>8. ASSUME Sorted(q) PROVE Sorted(Tail(q))
  <2> SUFFICES ASSUME NEW j \in DOMAIN Tail(q), NEW k \in DOMAIN Tail(q),
                      Tail(q)[j].t = "data", Tail(q)[k].t = "data", j < k
               PROVE  Before(Tail(q)[j], Tail(q)[k])
    BY DEF Sorted
  <2>1. j + 1 < k + 1 BY <1>2
  <2> QED BY <1>1, <1>8, <2>1 DEF Sorted
<1>9. ASSUME Sorted(q), Head(q).t = "data" PROVE AllBefore({Head(q)}, DataOf(Tail(q)))
  <2> SUFFICES ASSUME NEW k \in DOMAIN Tail(q), Tail(q)[k].t = "data"
               PROVE  Before(Head(q), Tail(q)[k])
    BY DEF AllBefore, DataOf
  <2>1. 1 < k + 1 /\ k + 1 \in DOMAIN q /\ Tail(q)[k] = q[k + 1] BY <1>1, <1>2
  <2> QED BY <1>1, <1>9, <2>1 DEF Sorted
<1> QED BY <1>3, <1>4, <1>6, <1>7, <1>8, <1>9

LEMMA DataMore ==
  ASSUME NEW S, NEW q \in Seq(S), NEW x \in Seq(S)
  PROVE  /\ DataOf(q \o x) = DataOf(q) \cup DataOf(x)
         /\ Sorted(q) /\ Sorted(x) /\ AllBefore(DataOf(q), DataOf(x)) => Sorted(q \o x)
<1>1. /\ q \o x \in Seq(S)
      /\ \A k \in DOMAIN q : k \in DOMAIN (q \o x) /\ (q \o x)[k] = q[k]
      /\ \A k \in DOMAIN (q \o x) \ DOMAIN q :
           k - Len(q) \in DOMAIN x /\ (q \o x)[k] = x[k - Len(q)]
      /\ \A k \in DOMAIN x : Len(q) + k \in DOMAIN (q \o x) /\ (q \o x)[Len(q) + k] = x[k]
  BY ConcatFacts
<1>2. Len(q) \in Nat /\ DOMAIN q = 1..Len(q) /\ DOMAIN (q \o x) \subseteq Nat \ {0}
  BY <1>1, LenProperties
<1> DEFINE w == q \o x
<1> HIDE DEF w
<1>3. DataOf(w) = DataOf(q) \cup DataOf(x)
  <2>1. DataOf(q) \subseteq DataOf(w) BY <1>1 DEF DataOf, w
  <2>2. DataOf(x) \subseteq DataOf(w)
    <3> SUFFICES ASSUME NEW k \in DOMAIN x, x[k].t = "data" PROVE x[k] \in DataOf(w)
      BY DEF DataOf
    <3>1. Len(q) + k \in DOMAIN w /\ w[Len(q) + k] = x[k] BY <1>1 DEF w
    <3> QED BY <3>1 DEF DataOf
  <2>3. DataOf(w) \subseteq DataOf(q) \cup DataOf(x)
    <3> SUFFICES ASSUME NEW k \in DOMAIN w, w[k].t = "data"
                 PROVE  w[k] \in DataOf(q) \cup DataOf(x)
      BY DEF DataOf
    <3>1. CASE k \in DOMAIN q BY <1>1, <3>1 DEF DataOf, w
    <3>2. CASE k \notin DOMAIN q
      <4>1. k - Len(q) \in DOMAIN x /\ w[k] = x[k - Len(q)] BY <1>1, <3>2 DEF w
      <4> QED BY <4>1 DEF DataOf
    <3> QED BY <3>1, <3>2
  <2> QED BY <2>1, <2>2, <2>3
<1>4. ASSUME Sorted(q), Sorted(x), AllBefore(DataOf(q), DataOf(x)) PROVE Sorted(w)
  <2> SUFFICES ASSUME NEW j \in DOMAIN w, NEW k \in DOMAIN w, w[j].t = "data",
                      w[k].t = "data", j < k
               PROVE  Before(w[j], w[k])
    BY DEF Sorted
  <2>1. j \in Nat \ {0} /\ k \in Nat \ {0} BY <1>2 DEF w
  <2>2. CASE k \in DOMAIN q
    <3>1. j \in DOMAIN q BY <1>2, <2>1, <2>2
    <3> QED BY <1>1, <1>4, <2>2, <3>1 DEF Sorted, w
  <2>3. CASE j \in DOMAIN q /\ k \notin DOMAIN q
    <3>1. k - Len(q) \in DOMAIN x /\ w[k] = x[k - Len(q)] /\ w[j] = q[j]
      BY <1>1, <2>3 DEF w
    <3>2. w[k] \in DataOf(x) /\ w[j] \in DataOf(q) BY <2>3, <3>1 DEF DataOf
    <3> QED BY <1>4, <3>2 DEF AllBefore
  <2>4. CASE j \notin DOMAIN q /\ k \notin DOMAIN q
    <3>1. /\ k - Len(q) \in DOMAIN x /\ w[k] = x[k - Len(q)]
          /\ j - Len(q) \in DOMAIN x /\ w[j] = x[j - Len(q)]
      BY <1>1, <2>4 DEF w
    <3>2. j - Len(q) < k - Len(q) BY <1>2, <2>1
    <3> QED BY <1>4, <3>1, <3>2 DEF Sorted
  <2> QED BY <1>2, <2>1, <2>2, <2>3, <2>4
<1> QED BY <1>3, <1>4 DEF w

LEMMA NoData ==
  ASSUME NEW q, Lacks(q, "data")
  PROVE  DataOf(q) = {} /\ Sorted(q)
  BY DEF Lacks, DataOf, Sorted

LEMMA DataAppend ==
  ASSUME NEW S, NEW q \in Seq(S), NEW c \in S
  PROVE  /\ c.t = "data" => DataOf(Append(q, c)) = DataOf(q) \cup {c}
         /\ c.t # "data" => DataOf(Append(q, c)) = DataOf(q)
         /\ Sorted(q) /\ (c.t = "data" => AllBefore(DataOf(q), {c})) => Sorted(Append(q, c))
<1>1. Append(q, c) = q \o <<c>> /\ <<c>> \in Seq(S) BY AppendIsConcat
<1>2. DOMAIN <<c>> = {1} /\ <<c>>[1] = c OBVIOUS
<1> DEFINE x == <<c>>
<1> HIDE DEF x
<1>3. DOMAIN x = {1} /\ x[1] = c /\ x \in Seq(S) /\ Append(q, c) = q \o x BY <1>1, <1>2 DEF x
<1>4. DataOf(x) = IF c.t = "data" THEN {c} ELSE {} BY <1>3 DEF DataOf
<1>5. Sorted(x) BY <1>3 DEF Sorted
<1>6. /\ DataOf(q \o x) = DataOf(q) \cup DataOf(x)
      /\ Sorted(q) /\ AllBefore(DataOf(q), DataOf(x)) => Sorted(q \o x)
  BY <1>3, <1>5, DataMore
<1>7. CASE c.t = "data" BY <1>3, <1>4, <1>6, <1>7
<1>8. CASE c.t # "data"
  <2>1. DataOf(x) = {} BY <1>4, <1>8
  <2>2. AllBefore(DataOf(q), DataOf(x)) BY <2>1 DEF AllBefore
  <2> QED BY <1>3, <1>6, <1>8, <2>1, <2>2
<1> QED BY <1>7, <1>8

(* A chunk taken from the wire is posted.                                  *)
LEMMA FlowMove ==
  ASSUME NEW p, NEW q \in Seq(Tasks), NEW r \in Seq(Chunks), NEW more, Flow(p, q, r, more),
         r # <<>>, Head(r).t = "data", Head(r) \in Tasks
  PROVE  /\ Flow(p, Append(q, Head(r)), Tail(r), more)
         /\ DataOf(Append(q, Head(r))) \cup DataOf(Tail(r)) = DataOf(q) \cup DataOf(r)
<1> DEFINE c == Head(r)
<1>1. /\ DataOf(r) = {c} \cup DataOf(Tail(r)) /\ Sorted(Tail(r))
      /\ AllBefore({c}, DataOf(Tail(r)))
  BY DataTail DEF Flow
<1>2. AllBefore(DataOf(q), {c}) BY <1>1 DEF Flow, AllBefore
<1>3. DataOf(Append(q, c)) = DataOf(q) \cup {c} /\ Sorted(Append(q, c))
  <2> HIDE DEF c
  <2> QED BY <1>2, DataAppend DEF Flow, c
<1> DEFINE q2 == Append(q, c)
           r2 == Tail(r)
<1> HIDE DEF c, q2, r2
<1>4. DataOf(q2) = DataOf(q) \cup {c} /\ DataOf(r) = {c} \cup DataOf(r2)
      /\ Sorted(q2) /\ Sorted(r2) /\ AllBefore({c}, DataOf(r2))
  BY <1>1, <1>3 DEF q2, r2
<1>5. DataOf(q2) \cup DataOf(r2) = DataOf(q) \cup DataOf(r) BY <1>4
<1>6. DataOf(p) \cup DataOf(q2) \cup DataOf(r2) = DataOf(p) \cup DataOf(q) \cup DataOf(r)
  BY <1>5
<1>7. AllBefore(DataOf(q2), DataOf(r2)) BY <1>4 DEF Flow, AllBefore
<1>8. Flow(p, q2, r2, more) BY <1>4, <1>5, <1>6, <1>7 DEF Flow
<1> QED BY <1>5, <1>8 DEF c, q2, r2

(* The server is gone and what it had sent is dropped from the wire.       *)
LEMMA FlowCut ==
  ASSUME NEW p \in Seq(DataChunks), NEW q \in Seq(Tasks), NEW r \in Seq(Chunks), NEW more,
         Flow(p, q, r, more), NEW x, Lacks(x, "data")
  PROVE  Flow(p, q, x, FALSE)
<1>1. DataOf(x) = {} /\ Sorted(x) BY NoData
<1> DEFINE A == DataOf(p) \cup DataOf(q)
           W == DataOf(r)
<1>2. A \subseteq DataChunks /\ W \subseteq DataChunks BY DataTypes
<1>3. AllBefore(A, W) BY DEF Flow, AllBefore
<1>4. Chain(A \cup W, more) BY DEF Flow
<1> HIDE DEF A, W
<1>5. Chain(A, FALSE)
  <2> SUFFICES ASSUME NEW c \in A
               PROVE  /\ c.i > 0
                      /\ c.i > 1 => \E d \in A : NextOf(d, c)
                      /\ ~c.eor => \/ \E d \in A : NextOf(c, d)
                                   \/ \A d \in A : ~Before(c, d)
    BY DEF Chain
  <2>1. c \in DataChunks /\ c.id \in Nat /\ c.i \in Nat /\ c.i > 0 BY <1>2, <1>4 DEF Chain, DataChunks
  <2>2. ASSUME c.i > 1 PROVE \E d \in A : NextOf(d, c)
    <3>1. PICK d \in A \cup W : NextOf(d, c) BY <1>4, <2>2 DEF Chain
    <3>2. ASSUME d \in W PROVE FALSE
      <4>1. Before(c, d) /\ d \in DataChunks BY <1>2, <1>3, <3>2 DEF AllBefore
      <4> QED BY <2>1, <3>1, <4>1 DEF Before, NextOf, DataChunks
    <3> QED BY <3>1, <3>2
  <2>3. ASSUME ~c.eor, NEW e \in A, Before(c, e) PROVE \E d \in A : NextOf(c, d)
    <3>1. PICK d \in A \cup W : NextOf(c, d) BY <1>4, <2>3 DEF Chain
    <3>2. ASSUME d \in W PROVE FALSE
      <4>1. Before(e, d) /\ d \in DataChunks /\ e \in DataChunks
        BY <1>2, <1>3, <3>2 DEF AllBefore
      <4> QED BY <2>1, <2>3, <3>1, <4>1 DEF Before, NextOf, DataChunks
    <3> QED BY <3>1, <3>2
  <2> QED BY <2>1, <2>2, <2>3
<1>6. Chain(DataOf(p) \cup DataOf(q) \cup DataOf(x), FALSE) BY <1>1, <1>5 DEF A
<1>7. Parts(p) /\ Sorted(q) BY DEF Flow
<1>8. /\ AllBefore(DataOf(p), DataOf(q) \cup DataOf(x))
      /\ AllBefore(DataOf(q), DataOf(x))
  BY <1>1 DEF Flow, AllBefore
<1> QED BY <1>1, <1>6, <1>7, <1>8 DEF Flow

(* The fragments of message number id on stream s, n in all.               *)
Whole(x, s, id, n) ==
  /\ DOMAIN x = 1..n
  /\ \A k \in 1..n : /\ x[k].t = "data" /\ x[k].sid = s /\ x[k].id = id
                     /\ x[k].i = k /\ (k # n => ~x[k].eor) /\ (k = n => x[k].eor)

LEMMA WholeMessage ==
  ASSUME NEW s, NEW id, NEW n \in Nat, NEW m,
         m = [sid |-> s, ssn |-> 0, id |-> id, n |-> n]
  PROVE  Whole(Fragments(m, 1, n), s, id, n)
<1> DEFINE x == Fragments(m, 1, n)
<1>1. x = [k \in 1..((n + 1) - 1) |->
             [t |-> "data", sid |-> s, ssn |-> 0, id |-> id,
              i |-> (1 + k) - 1, eor |-> (1 + k) - 1 = n]]
  BY DEF Fragments
<1>2. (n + 1) - 1 = n OBVIOUS
<1>3. DOMAIN x = 1..n BY <1>1, <1>2
<1> HIDE DEF x
<1>4. ASSUME NEW k \in 1..n
      PROVE  /\ x[k].t = "data" /\ x[k].sid = s /\ x[k].id = id
             /\ x[k].i = k /\ (k # n => ~x[k].eor) /\ (k = n => x[k].eor)
  <2> DEFINE last == (1 + k) - 1 = n
  <2>1. x[k] = [t |-> "data", sid |-> s, ssn |-> 0, id |-> id,
                i |-> (1 + k) - 1, eor |-> last]
    BY <1>1, <1>2
  <2>2. (1 + k) - 1 = k OBVIOUS
  <2>3. last = TRUE \/ last = FALSE OBVIOUS
  <2> HIDE DEF last
  <2>4. x[k].eor = last /\ x[k].t = "data" /\ x[k].sid = s /\ x[k].id = id /\ x[k].i = k
    BY <2>1, <2>2
  <2>5. last = (k = n) BY <2>2, Zenon DEF last
  <2>6. (k # n => ~x[k].eor) /\ (k = n => x[k].eor) BY <2>4, <2>5, Zenon
  <2> QED BY <2>4, <2>6
<1> QED BY <1>3, <1>4 DEF Whole, x

Under(A, id) == \A c \in A : c.id < id

(* The server sends message number id: later than every one before it.     *)
LEMMA FlowMessage ==
  ASSUME NEW p \in Seq(DataChunks), NEW q \in Seq(Tasks), NEW r \in Seq(Chunks),
         NEW more, more, Flow(p, q, r, more), NEW s \in Sids, NEW id \in Nat, NEW n \in Nat \ {0},
         Under(DataOf(p) \cup DataOf(q) \cup DataOf(r), id),
         NEW x \in Seq(Chunks), Whole(x, s, id, n)
  PROVE  Flow(p, q, r \o x, more)
<1>1. /\ DOMAIN x = 1..n
      /\ \A k \in 1..n : /\ x[k].t = "data" /\ x[k].sid = s /\ x[k].id = id
                         /\ x[k].i = k /\ (k # n => ~x[k].eor) /\ (k = n => x[k].eor)
  BY DEF Whole
<1>2. \A k \in 1..n : x[k] \in DataOf(x) BY <1>1 DEF DataOf
<1>3. \A c \in DataOf(x) : \E k \in 1..n : c = x[k] BY <1>1 DEF DataOf
<1>4. \A c \in DataOf(x) : c.id = id BY <1>1, <1>3
<1>5. Sorted(x)
  <2> SUFFICES ASSUME NEW j \in 1..n, NEW k \in 1..n, j < k PROVE Before(x[j], x[k])
    BY <1>1 DEF Sorted
  <2>1. j # n OBVIOUS
  <2> QED BY <1>1, <2>1 DEF Before
<1> DEFINE A == DataOf(p) \cup DataOf(q) \cup DataOf(r)
           F == DataOf(x)
<1>6. AllBefore(A, F) BY <1>4 DEF AllBefore, Before, Under
<1>7. Chain(A, more) BY DEF Flow
<1> HIDE DEF A, F
<1>8. Chain(A \cup F, more)
  <2>1. ASSUME NEW c \in A
        PROVE  /\ c.i > 0
               /\ c.i > 1 => \E d \in A : NextOf(d, c)
               /\ ~c.eor => \E d \in A : NextOf(c, d)
    BY <1>7 DEF Chain
  <2>2. ASSUME NEW c \in F
        PROVE  /\ c.i > 0
               /\ c.i > 1 => \E d \in F : NextOf(d, c)
               /\ ~c.eor => \E d \in F : NextOf(c, d)
    <3>1. PICK k \in 1..n : c = x[k] BY <1>3 DEF F
    <3>2. c.i = k /\ c.sid = s /\ c.id = id /\ (k = n => c.eor) BY <1>1, <3>1
    <3>3. ASSUME k > 1 PROVE \E d \in F : NextOf(d, c)
      <4>1. k - 1 \in 1..n BY <3>3
      <4>2. x[k - 1].i = k - 1 /\ x[k - 1].sid = s /\ x[k - 1].id = id BY <1>1, <4>1
      <4>3. k = (k - 1) + 1 OBVIOUS
      <4>4. NextOf(x[k - 1], c) BY <3>2, <4>2, <4>3 DEF NextOf
      <4>5. x[k - 1] \in F BY <1>2, <4>1 DEF F
      <4> QED BY <4>4, <4>5
    <3>4. ASSUME k # n PROVE \E d \in F : NextOf(c, d)
      <4>1. k + 1 \in 1..n BY <3>4
      <4>2. x[k + 1] \in F /\ NextOf(c, x[k + 1]) BY <1>1, <1>2, <3>2, <4>1 DEF F, NextOf
      <4> QED BY <4>2
    <3> QED BY <3>2, <3>3, <3>4
  <2> QED BY <2>1, <2>2 DEF Chain
<1>9. DataOf(r \o x) = DataOf(r) \cup F /\ Sorted(r \o x)
  <2>1. AllBefore(DataOf(r), DataOf(x)) BY <1>6 DEF AllBefore, A, F
  <2> QED BY <1>5, <2>1, DataMore DEF F, Flow
<1> DEFINE w == r \o x
<1> HIDE DEF w
<1>10. DataOf(w) = DataOf(r) \cup F /\ Sorted(w) BY <1>9 DEF w
<1>11. DataOf(p) \cup DataOf(q) \cup DataOf(w) = A \cup F BY <1>10 DEF A
<1>12. /\ AllBefore(DataOf(p), DataOf(q) \cup DataOf(w))
       /\ AllBefore(DataOf(q), DataOf(w))
  BY <1>6, <1>10 DEF Flow, AllBefore, A
<1>13. Flow(p, q, w, more) BY <1>8, <1>10, <1>11, <1>12 DEF Flow
<1> QED BY <1>13 DEF w

(* The next posted chunk continues the message that is being put together, *)
(* or begins one when there is none.                                       *)
LEMMA FlowNext ==
  ASSUME NEW p \in Seq(DataChunks), NEW q \in Seq(Tasks), NEW r \in Seq(Chunks), NEW more,
         Flow(p, q, r, more), q # <<>>, Head(q).t = "data"
  PROVE  LET c == Head(q)
             R == DataOf(Tail(q)) \cup DataOf(r)
         IN  /\ c \in DataChunks /\ R \subseteq DataChunks
             /\ DataOf(q) \cup DataOf(r) = {c} \cup R
             /\ AllBefore(DataOf(p) \cup {c}, R) /\ AllBefore(DataOf(p), {c})
             /\ c.i = Len(p) + 1
             /\ p # <<>> => c.id = p[1].id /\ c.sid = p[1].sid
<1> DEFINE c == Head(q)
           R == DataOf(Tail(q)) \cup DataOf(r)
           P == DataOf(p)
<1>1. /\ DataOf(q) = {c} \cup DataOf(Tail(q)) /\ AllBefore({c}, DataOf(Tail(q)))
  BY DataTail DEF Flow
<1>2. /\ DataOf(q) \subseteq DataChunks /\ DataOf(r) \subseteq DataChunks /\ P \subseteq DataChunks
      /\ P = {p[k] : k \in DOMAIN p}
  BY DataTypes
<1>3. c \in DataChunks /\ R \subseteq DataChunks /\ DataOf(q) \cup DataOf(r) = {c} \cup R
  <2> HIDE DEF c
  <2> QED BY <1>1, <1>2
<1>4. AllBefore(P \cup {c}, R) /\ AllBefore(P, {c})
  <2> HIDE DEF c, P
  <2> QED BY <1>1 DEF Flow, AllBefore, P
<1>5. Chain(P \cup {c} \cup R, more)
  <2>1. P \cup DataOf(q) \cup DataOf(r) = P \cup {c} \cup R
    <3> HIDE DEF P, c
    <3> QED BY <1>1
  <2> HIDE DEF P, c, R
  <2> QED BY <2>1 DEF Flow, P
<1>6. Len(p) \in Nat /\ DOMAIN p = 1..Len(p) /\ (p = <<>> <=> Len(p) = 0)
  BY LenProperties, EmptySeq
<1>7. Parts(p) BY DEF Flow
<1> HIDE DEF c, R, P
<1>8. c.id \in Nat /\ c.i \in Nat /\ c.i > 0 /\ c.sid \in Nat \cup Sids
  BY <1>3, <1>5 DEF Chain, DataChunks
<1>9. CASE p = <<>>
  <2>1. P = {} BY <1>2, <1>6, <1>9
  <2>2. ASSUME c.i > 1 PROVE FALSE
    <3>1. PICK d \in {c} \cup R : NextOf(d, c) BY <1>5, <2>1, <2>2 DEF Chain
    <3>2. d # c BY <1>8, <3>1 DEF NextOf
    <3>3. Before(c, d) /\ d \in DataChunks BY <1>3, <1>4, <3>1, <3>2 DEF AllBefore
    <3> QED BY <1>8, <3>1, <3>3 DEF Before, NextOf, DataChunks
  <2>3. c.i = Len(p) + 1 BY <1>6, <1>8, <1>9, <2>2
  <2> QED BY <1>3, <1>4, <1>9, <2>3 DEF c, R, P
<1>10. CASE p # <<>>
  <2> DEFINE l == p[Len(p)]
  <2>1. Len(p) \in DOMAIN p /\ Len(p) > 0 /\ 1 \in DOMAIN p BY <1>6, <1>10
  <2>2. /\ l.sid = p[1].sid /\ l.id = p[1].id /\ l.i = Len(p) /\ ~l.eor /\ l \in P
        /\ l \in DataChunks
    BY <1>2, <1>7, <2>1 DEF Parts
  <2> HIDE DEF l
  <2>3. Before(l, c) BY <1>4, <2>2 DEF AllBefore
  <2>4. PICK d \in P \cup {c} \cup R : NextOf(l, d) BY <1>5, <2>2, <2>3 DEF Chain
  <2>5. d.id = l.id /\ d.sid = l.sid /\ d.i = Len(p) + 1 /\ l.id \in Nat
    BY <2>2, <2>4 DEF NextOf, DataChunks
  <2>6. ASSUME d \in P PROVE FALSE
    <3>1. PICK k \in DOMAIN p : d = p[k] BY <1>2, <2>6
    <3>2. d.i = k BY <1>7, <3>1 DEF Parts
    <3> QED BY <1>6, <2>5, <3>2
  <2>7. ASSUME d \in R PROVE FALSE
    <3>1. Before(c, d) /\ d \in DataChunks BY <1>3, <1>4, <2>7 DEF AllBefore
    <3>2. d.id \in Nat /\ d.i \in Nat BY <3>1 DEF DataChunks
    <3>3. c.id <= d.id /\ (c.id = d.id => c.i < d.i) BY <1>8, <3>1, <3>2 DEF Before
    <3>4. l.id <= c.id /\ (l.id = c.id => l.i < c.i) BY <1>8, <2>2, <2>3, <2>5 DEF Before
    <3> QED BY <1>6, <1>8, <2>2, <2>5, <3>2, <3>3, <3>4
  <2>8. d = c BY <2>4, <2>6, <2>7
  <2> QED BY <1>3, <1>4, <2>2, <2>5, <2>8 DEF c, R, P
<1> QED BY <1>9, <1>10

LEMMA FlowKeeps ==
  ASSUME NEW p \in Seq(DataChunks), NEW q \in Seq(Tasks), NEW r \in Seq(Chunks), NEW more,
         Flow(p, q, r, more), q # <<>>, Head(q).t = "data", ~Head(q).eor
  PROVE  /\ Flow(Append(p, Head(q)), Tail(q), r, more)
         /\ DataOf(Append(p, Head(q))) \cup DataOf(Tail(q)) = DataOf(p) \cup DataOf(q)
<1> DEFINE c == Head(q)
           R == DataOf(Tail(q)) \cup DataOf(r)
           p2 == Append(p, c)
           q2 == Tail(q)
<1>1. /\ c \in DataChunks /\ R \subseteq DataChunks
      /\ DataOf(q) \cup DataOf(r) = {c} \cup R
      /\ AllBefore(DataOf(p) \cup {c}, R) /\ AllBefore(DataOf(p), {c})
      /\ c.i = Len(p) + 1
      /\ p # <<>> => c.id = p[1].id /\ c.sid = p[1].sid
  BY FlowNext
<1>2. DataOf(q) = {c} \cup DataOf(q2) /\ Sorted(q2) BY DataTail DEF Flow
<1>3. /\ Len(p) \in Nat /\ DOMAIN p = 1..Len(p) /\ (p = <<>> <=> Len(p) = 0)
      /\ Parts(p) /\ ~c.eor
  BY LenProperties, EmptySeq DEF Flow
<1> HIDE DEF c, q2
<1>4. /\ p2[Len(p) + 1] = c /\ (\A k \in DOMAIN p : k \in DOMAIN p2 /\ p2[k] = p[k])
      /\ \A k \in DOMAIN p2 : k \in DOMAIN p \/ k = Len(p) + 1
  BY <1>1, AppendFacts
<1>5. DataOf(p2) = DataOf(p) \cup {c}
  <2>1. c.t = "data" BY <1>1 DEF DataChunks
  <2> QED BY <1>1, <2>1, DataAppend
<1> HIDE DEF p2
<1>6. Parts(p2)
  <2>1. CASE p = <<>>
    <3>1. \A k \in DOMAIN p2 : k = 1 /\ p2[k] = c BY <1>3, <1>4, <2>1
    <3> QED BY <1>1, <1>3, <1>4, <2>1, <3>1 DEF Parts
  <2>2. CASE p # <<>>
    <3>1. 1 \in DOMAIN p BY <1>3, <2>2
    <3>2. p2[1] = p[1] BY <1>4, <3>1
    <3> QED BY <1>1, <1>3, <1>4, <2>2, <3>2 DEF Parts
  <2> QED BY <2>1, <2>2
<1>7. DataOf(p2) \cup DataOf(q2) \cup DataOf(r) = DataOf(p) \cup DataOf(q) \cup DataOf(r)
  BY <1>2, <1>5
<1>8. /\ AllBefore(DataOf(p2), DataOf(q2) \cup DataOf(r))
      /\ AllBefore(DataOf(q2), DataOf(r))
  BY <1>1, <1>2, <1>5 DEF AllBefore, Flow, q2
<1>9. Flow(p2, q2, r, more) BY <1>2, <1>6, <1>7, <1>8 DEF Flow
<1>10. DataOf(p2) \cup DataOf(q2) = DataOf(p) \cup DataOf(q) BY <1>2, <1>5
<1> QED BY <1>9, <1>10 DEF p2, q2, c

(* The chunk that ends the message: what is left is of later messages.     *)
LEMMA FlowEnds ==
  ASSUME NEW p \in Seq(DataChunks), NEW q \in Seq(Tasks), NEW r \in Seq(Chunks), NEW more,
         Flow(p, q, r, more), q # <<>>, Head(q).t = "data", Head(q).eor
  PROVE  /\ Flow(<<>>, Tail(q), r, more)
         /\ DataOf(Tail(q)) \subseteq DataOf(q)
         /\ \A d \in DataOf(Tail(q)) \cup DataOf(r) : Head(q).id < d.id
<1> DEFINE c == Head(q)
           q2 == Tail(q)
           R == DataOf(q2) \cup DataOf(r)
<1>1. /\ c \in DataChunks /\ R \subseteq DataChunks
      /\ DataOf(q) \cup DataOf(r) = {c} \cup R
      /\ AllBefore(DataOf(p) \cup {c}, R) /\ AllBefore(DataOf(p), {c})
      /\ c.i = Len(p) + 1
  BY FlowNext
<1>2. DataOf(q) = {c} \cup DataOf(q2) /\ Sorted(q2) /\ Sorted(r) BY DataTail DEF Flow
<1>3. c.eor OBVIOUS
<1> HIDE DEF c, q2, R
<1>4. \A d \in R : c.id < d.id BY <1>1, <1>3 DEF AllBefore, Before
<1>5. Chain(DataOf(p) \cup {c} \cup R, more)
  <2>1. DataOf(p) \cup DataOf(q) \cup DataOf(r) = DataOf(p) \cup {c} \cup R BY <1>1
  <2> QED BY <2>1 DEF Flow
<1>6. \A d \in DataOf(p) : d \in DataChunks /\ Before(d, c)
  BY <1>1, DataTypes DEF AllBefore
<1>7. Chain(R, more)
  <2> SUFFICES ASSUME NEW d \in R
               PROVE  /\ d.i > 0
                      /\ d.i > 1 => \E e \in R : NextOf(e, d)
                      /\ ~d.eor => \/ \E e \in R : NextOf(d, e)
                                   \/ ~more /\ \A e \in R : ~Before(d, e)
    BY DEF Chain
  <2>1. d \in DataChunks /\ c.id < d.id /\ c.id \in Nat /\ d.id \in Nat
    BY <1>1, <1>4 DEF DataChunks
  <2>2. \A e \in DataOf(p) \cup {c} : e.id <= c.id /\ e.id \in Nat
    <3>1. ASSUME NEW e \in DataOf(p) PROVE e.id <= c.id /\ e.id \in Nat
      <4>1. e.id \in Nat /\ (e.id < c.id \/ e.id = c.id)
        BY <1>6 DEF Before, DataChunks
      <4> QED BY <2>1, <4>1
    <3> QED BY <2>1, <3>1
  <2>3. \A e \in DataOf(p) \cup {c} : ~NextOf(e, d) /\ ~NextOf(d, e)
    BY <2>1, <2>2 DEF NextOf
  <2> QED BY <1>5, <2>3 DEF Chain
<1>8. DataOf(<<>>) = {} /\ Parts(<<>>) BY DEF DataOf, Parts
<1>9. AllBefore(DataOf(<<>>), DataOf(q2) \cup DataOf(r)) BY <1>8 DEF AllBefore
<1>10. AllBefore(DataOf(q2), DataOf(r)) BY <1>2 DEF Flow, AllBefore
<1>11. DataOf(<<>>) \cup DataOf(q2) \cup DataOf(r) = R BY <1>8 DEF R
<1>12. Flow(<<>>, q2, r, more) BY <1>2, <1>7, <1>8, <1>9, <1>10, <1>11 DEF Flow
<1> QED BY <1>2, <1>4, <1>12 DEF q2, R, c

(* The chunks of the message under way that have arrived, p, are those     *)
(* handed out in pieces before and those of the buffer.                    *)
LastPiece == received[Len(received)]

Sofar(p) ==
  LET h == Len(p) - Len(partial_incoming_message_)
  IN  /\ h \in Nat
      /\ \A k \in DOMAIN partial_incoming_message_ : partial_incoming_message_[k] = p[h + k]
      /\ Len(partial_incoming_message_) < ReceiveLimit
      /\ h = 0 => (received # <<>> => Final(LastPiece).eor)
      /\ h # 0 => /\ received # <<>> /\ ~Final(LastPiece).eor
                  /\ LastPiece[1].id = p[1].id /\ Final(LastPiece).i = h

InTransit(p) == DataOf(p) \cup DataOf(tasks) \cup DataOf(wire["server"])

Follows(c) == received # <<>> => /\ LastPiece[1].id <= c.id
                                 /\ (Final(LastPiece).eor => LastPiece[1].id < c.id)

Numbered(A) == \A c \in A : c.id <= replies /\ Follows(c)

RInv ==
  /\ RepliesAreWhole
  /\ \A j \in DOMAIN received : received[j] # <<>> /\ received[j][1].id <= replies
  /\ alive => \E p \in Seq(DataChunks) :
                /\ Sofar(p) /\ Flow(p, tasks, wire["server"], Exists)
                /\ Numbered(InTransit(p))

(* A step that hands nothing to the application.                           *)
LEMMA RepliesKept ==
  ASSUME StackTypeOK, ClientTypeOK, RInv, UNCHANGED received,
         replies' \in Nat, replies <= replies',
         alive' => \E p \in Seq(DataChunks) :
                     /\ Sofar(p)' /\ Flow(p, tasks', wire'["server"], Exists')
                     /\ Numbered(InTransit(p))'
  PROVE  RInv'
<1>1. RepliesAreWhole' BY DEF RInv, RepliesAreWhole
<1>2. \A j \in DOMAIN received : received[j] # <<>> /\ received[j][1].id <= replies'
  <2> TAKE j \in DOMAIN received
  <2>1. received[j] # <<>> /\ received[j][1].id <= replies BY DEF RInv
  <2>2. received[j] \in Seq(DataChunks) BY DEF ClientTypeOK
  <2>3. 1 \in DOMAIN received[j] BY <2>1, <2>2, LenProperties, EmptySeq
  <2>4. received[j][1] \in DataChunks BY <2>2, <2>3
  <2>5. received[j][1].id \in Nat /\ replies \in Nat BY <2>4 DEF DataChunks, StackTypeOK
  <2> QED BY <2>1, <2>5
<1> QED BY <1>1, <1>2 DEF RInv

(* What is in transit only moves, or is taken away.                        *)
LEMMA RepliesMove ==
  ASSUME StackTypeOK, ClientTypeOK, RInv, UNCHANGED received,
         replies' \in Nat, replies <= replies',
         alive' => /\ alive /\ UNCHANGED partial_incoming_message_
                   /\ \A p \in Seq(DataChunks) :
                        Flow(p, tasks, wire["server"], Exists)
                          => /\ Flow(p, tasks', wire'["server"], Exists')
                             /\ InTransit(p)' \subseteq InTransit(p)
  PROVE  RInv'
<1>1. ASSUME alive'
      PROVE  \E p \in Seq(DataChunks) :
               /\ Sofar(p)' /\ Flow(p, tasks', wire'["server"], Exists')
               /\ Numbered(InTransit(p))'
  <2>1. PICK p \in Seq(DataChunks) : /\ Sofar(p) /\ Flow(p, tasks, wire["server"], Exists)
                                     /\ Numbered(InTransit(p))
    BY <1>1 DEF RInv
  <2> DEFINE A == InTransit(p)
             B == InTransit(p)'
  <2>2. Flow(p, tasks', wire'["server"], Exists') /\ B \subseteq A BY <1>1, <2>1
  <2>3. A \subseteq DataChunks
    BY DataTypes DEF InTransit, StackTypeOK, ClientTypeOK, Ends
  <2>4. Sofar(p)' BY <1>1, <2>1 DEF Sofar, LastPiece
  <2>5. Numbered(A) BY <2>1
  <2> HIDE DEF A, B
  <2>6. ASSUME NEW c \in B PROVE c.id <= replies' /\ Follows(c)
    <3>1. c.id \in Nat /\ c.id <= replies /\ replies \in Nat /\ Follows(c)
      BY <2>2, <2>3, <2>5 DEF Numbered, DataChunks, StackTypeOK
    <3> QED BY <3>1
  <2>7. \A c : Follows(c)' = Follows(c) BY DEF Follows, LastPiece
  <2>8. \A c \in B : c.id <= replies' /\ Follows(c)' BY <2>6, <2>7
  <2>9. Numbered(InTransit(p))' BY <2>8 DEF Numbered, B
  <2> QED BY <2>2, <2>4, <2>9
<1> QED BY <1>1, RepliesKept

LEMMA PostReplies ==
  ASSUME StackTypeOK, ClientTypeOK, NEW new \in Seq(Tasks), Lacks(new, "data"), NEW r, NEW more,
         NEW p, Flow(p, tasks, r, more)
  PROVE  /\ Flow(p, tasks \o new, r, more)
         /\ DataOf(tasks \o new) = DataOf(tasks)
<1>1. DataOf(new) = {} /\ Sorted(new) BY NoData
<1>2. AllBefore(DataOf(tasks), DataOf(new)) BY <1>1 DEF AllBefore
<1>3. DataOf(tasks \o new) = DataOf(tasks) /\ Sorted(tasks \o new)
  <2>1. tasks \in Seq(Tasks) /\ Sorted(tasks) BY DEF ClientTypeOK, Flow
  <2>2. DataOf(tasks \o new) = DataOf(tasks) \cup DataOf(new) /\ Sorted(tasks \o new)
    BY ZenonT(60), <1>1, <1>2, <2>1, DataMore
  <2> QED BY <1>1, <2>2
<1> QED BY <1>3 DEF Flow

LEMMA TasksLack ==
  /\ \A t \in {"threshold", "dry", "failed", "commup", "commlost"} : Lacks(<<Task(t)>>, "data")
  /\ Lacks(<<Task("dry"), Task("threshold")>>, "data")
  /\ \A sids : Lacks(<<[t |-> "outgoing", sids |-> sids]>>, "data")
  /\ \A sids : Lacks(<<[t |-> "reset", sids |-> sids]>>, "data")
  BY DEF Lacks, Task

LEMMA PacketReplies ==
  ASSUME StackTypeOK, ClientTypeOK, RInv, OnPacketRead, UNCHANGED serverVars
  PROVE  RInv'
<1> DEFINE c == Arriving("client")
           rest == [wire EXCEPT !["server"] = Tail(@)]
           r == wire["server"]
<1>1. /\ c \in Chunks /\ r \in Seq(Chunks) /\ r # <<>> /\ c = Head(r)
      /\ Tail(r) \in Seq(Chunks)
  BY ArrivingType DEF OnPacketRead, Peer, Ends, Arriving
<1>2. /\ UNCHANGED <<alive, partial_incoming_message_, received, replies>> /\ alive
      /\ \/ DataRead(c, rest) \/ SackRead(c, rest) \/ RequestRead(c, rest)
         \/ ResponseRead(c, rest) \/ AbortRead(c, rest)
  BY DEF OnPacketRead
<1>3. rest["server"] = Tail(r) /\ rest \in [Ends -> Seq(Chunks)]
  BY <1>1 DEF StackTypeOK, Ends
<1>4. Exists' = Exists BY DEF Exists, serverVars
<1>5. replies \in Nat /\ tasks \in Seq(Tasks) BY DEF StackTypeOK, ClientTypeOK
<1> HIDE DEF c, rest
<1>6. wire'["server"] = Tail(r)
  BY <1>2, <1>3 DEF DataRead, SackRead, RequestRead, ResponseRead, AbortRead, Ends
<1> SUFFICES ASSUME NEW p \in Seq(DataChunks), Flow(p, tasks, r, Exists)
             PROVE  /\ Flow(p, tasks', wire'["server"], Exists')
                    /\ InTransit(p)' \subseteq InTransit(p)
  <2> HIDE DEF r
  <2>1. \A p \in Seq(DataChunks) :
          Flow(p, tasks, r, Exists) => /\ Flow(p, tasks', wire'["server"], Exists')
                                       /\ InTransit(p)' \subseteq InTransit(p)
    OBVIOUS
  <2> QED BY <1>2, <1>5, <2>1, RepliesMove DEF r
<1>7. CASE c.t = "data"
  <2>1. Post(<<c>>) BY <1>2, <1>7 DEF DataRead, SackRead, RequestRead, ResponseRead, AbortRead
  <2>2. c \in Tasks BY <1>1, <1>7, ChunkFacts, TasksMade
  <2>3. tasks' = Append(tasks, c) BY <1>5, <2>1, <2>2, AppendIsConcat DEF Post
  <2>4. /\ Flow(p, Append(tasks, c), Tail(r), Exists)
        /\ DataOf(Append(tasks, c)) \cup DataOf(Tail(r)) = DataOf(tasks) \cup DataOf(r)
    <3> DEFINE more == Exists
    <3> HIDE DEF r, more
    <3>1. Head(r) \in Tasks /\ Head(r).t = "data" BY <1>1, <1>7, <2>2
    <3>2. Flow(p, tasks, r, more) BY DEF more
    <3>3. /\ Flow(p, Append(tasks, Head(r)), Tail(r), more)
          /\ DataOf(Append(tasks, Head(r))) \cup DataOf(Tail(r)) = DataOf(tasks) \cup DataOf(r)
      BY ONLY <1>1, <1>5, <3>1, <3>2, FlowMove
    <3> QED BY <1>1, <3>3 DEF more
  <2> QED BY <1>4, <1>6, <2>3, <2>4 DEF InTransit
<1>8. CASE c.t # "data"
  <2>1. DataOf(Tail(r)) = DataOf(r) /\ Sorted(Tail(r))
    BY <1>1, <1>8, DataTail DEF Flow
  <2>2. Flow(p, tasks, Tail(r), Exists) BY <2>1 DEF Flow
  <2>3. \/ tasks' = tasks
        \/ \E new \in Seq(Tasks) : Lacks(new, "data") /\ tasks' = tasks \o new
    <3>1. CASE SackRead(c, rest)
      <4> DEFINE new == IF Unacked("client", wire["client"]) = 1
                        THEN <<Task("dry"), Task("threshold")>> ELSE <<Task("threshold")>>
      <4>1. Lacks(new, "data") BY TasksLack
      <4>2. Task("dry") \in Tasks /\ Task("threshold") \in Tasks BY TasksMade
      <4>3. new \in Seq(Tasks) BY <4>2
      <4>4. tasks' = tasks \o new BY <3>1 DEF SackRead, Post
      <4> QED BY <4>1, <4>3, <4>4
    <3>2. CASE RequestRead(c, rest)
      <4>1. CASE c.t = "reset"
        <5> DEFINE new == <<c>>
        <5>1. c \in Tasks BY <1>1, <4>1, ChunkFacts, TasksMade
        <5>2. new \in Seq(Tasks) BY <5>1
        <5>3. Lacks(new, "data") BY <4>1 DEF Lacks
        <5>4. tasks' = tasks \o new BY <3>2, <4>1 DEF RequestRead, Post
        <5> QED BY <5>2, <5>3, <5>4
      <4>2. CASE c.t # "reset" BY <3>2, <4>2 DEF RequestRead
      <4> QED BY <4>1, <4>2
    <3>3. CASE ResponseRead(c, rest)
      <4> DEFINE sids == Requested("client")
                 new == IF c.ok THEN <<[t |-> "outgoing", sids |-> sids]>>
                                ELSE <<Task("failed")>>
      <4>1. sids \in SUBSET Sids BY RequestFacts DEF Ends
      <4>2. Lacks(new, "data") BY TasksLack
      <4>3. Task("failed") \in Tasks /\ [t |-> "outgoing", sids |-> sids] \in Tasks
        BY <4>1, TasksMade
      <4>4. new \in Seq(Tasks) BY <4>3
      <4>5. tasks' = tasks \o new BY <3>3 DEF ResponseRead, Post
      <4> QED BY <4>2, <4>4, <4>5
    <3>4. CASE AbortRead(c, rest)
      <4> DEFINE new == <<Task("commlost")>>
      <4>1. Lacks(new, "data") BY TasksLack
      <4>2. new \in Seq(Tasks) BY TasksMade
      <4>3. tasks' = tasks \o new BY <3>4 DEF AbortRead, Post
      <4> QED BY <4>1, <4>2, <4>3
    <3> QED BY <1>2, <1>8, <3>1, <3>2, <3>3, <3>4 DEF DataRead
  <2>4. Flow(p, tasks', Tail(r), Exists) /\ DataOf(tasks') = DataOf(tasks)
    <3> DEFINE r2 == Tail(r)
               more == Exists
    <3> HIDE DEF r2, more
    <3>1. Flow(p, tasks, r2, more) BY <2>2 DEF r2, more
    <3>2. ASSUME NEW new \in Seq(Tasks), Lacks(new, "data"), tasks' = tasks \o new
          PROVE  Flow(p, tasks', r2, more) /\ DataOf(tasks') = DataOf(tasks)
      <4>1. Flow(p, tasks \o new, r2, more) /\ DataOf(tasks \o new) = DataOf(tasks)
        BY ONLY <3>1, <3>2, StackTypeOK, ClientTypeOK, PostReplies
      <4> QED BY <3>2, <4>1
    <3>3. Flow(p, tasks', r2, more) /\ DataOf(tasks') = DataOf(tasks)
      BY <2>3, <3>1, <3>2
    <3> QED BY <3>3 DEF r2, more
  <2> QED BY <1>4, <1>6, <2>1, <2>4 DEF InTransit
<1> QED BY <1>7, <1>8

(* Nothing else of the client's touches what is on its way to it.          *)
LEMMA ClientLeavesWire ==
  ASSUME StackTypeOK, ClientTypeOK, StackAssumption, TransportAssumption, ClientNext,
         ~OnPacketRead
  PROVE  wire'["server"] = wire["server"] /\ replies' = replies
<1>1. replies' = replies
  BY DEF ClientNext, Start, OnWritableState, Connect, Fault, OpenStream, ResetStream,
         SendDataBlocked, SendData, ClientNotified, RunTask, OnSendThresholdCallback,
         OnSenderDry, OnCommUp, OnCommLost, OnDataFromSctp, OnIncomingReset,
         OnOutgoingReset, OnStreamReset, OnResetFailed, DestroyTransport, StackLost,
         stackVars
<1>2. CASE \/ Start \/ OnWritableState
           \/ \E s \in Sids : OpenStream(s) \/ SendDataBlocked(s)
           \/ ClientNotified \/ OnSenderDry \/ OnCommLost \/ OnDataFromSctp
  BY <1>1, <1>2 DEF Start, OnWritableState, OpenStream, SendDataBlocked, ClientNotified,
              OnSenderDry, OnCommLost, OnDataFromSctp, stackVars
<1>3. CASE \E s \in Sids, n \in 1..MaxFragments : SendData(s, n)
  BY <1>1, <1>3 DEF SendData, StackTypeOK, Ends
<1>4. CASE DestroyTransport BY <1>1, <1>4, CloseType DEF DestroyTransport, Ends
<1>5. ASSUME NEW C, NEW I, NEW R, NEW partial, NEW queue,
             SendQueuedStreamResets(C, I, R, partial, queue)
      PROVE  wire'["server"] = wire["server"]
  BY <1>5 DEF SendQueuedStreamResets, StackTypeOK, Ends
<1>6. CASE \/ \E s \in Sids : ResetStream(s)
           \/ OnCommUp \/ OnIncomingReset \/ OnOutgoingReset \/ OnResetFailed
  BY <1>1, <1>5, <1>6 DEF ResetStream, OnCommUp, OnIncomingReset, OnOutgoingReset, OnResetFailed,
                    OnStreamReset
<1>7. CASE OnSendThresholdCallback
  BY <1>1, <1>5, <1>7 DEF OnSendThresholdCallback, SendBufferedMessage, StackTypeOK, Ends
<1> QED BY SMTT(40), <1>1, <1>2, <1>3, <1>4, <1>6, <1>7 DEF ClientNext, RunTask

(* The last piece handed out begins and ends with chunks.                  *)
LEMMA LastPieceType ==
  ASSUME ClientTypeOK, RInv, received # <<>>
  PROVE  /\ Len(received) \in DOMAIN received /\ Len(received) \in Nat
         /\ LastPiece \in Seq(DataChunks) /\ LastPiece # <<>>
         /\ LastPiece[1] \in DataChunks /\ Final(LastPiece) \in DataChunks
<1>1. received \in Seq(Seq(DataChunks)) BY DEF ClientTypeOK
<1>2. Len(received) \in DOMAIN received /\ Len(received) \in Nat
  BY <1>1, LenProperties, EmptySeq
<1>3. LastPiece \in Seq(DataChunks) /\ LastPiece # <<>>
  BY <1>1, <1>2 DEF RInv, LastPiece
<1>4. 1 \in DOMAIN LastPiece /\ Len(LastPiece) \in DOMAIN LastPiece
  BY <1>3, LenProperties, EmptySeq
<1> QED BY <1>2, <1>3, <1>4 DEF Final

(* A piece of the message p \o <<c>>, the chunks from h + 1 on, is handed  *)
(* out behind what was handed out before.                                  *)
LEMMA PieceHanded ==
  ASSUME StackTypeOK, ClientTypeOK, TransportAssumption, RInv,
         NEW p \in Seq(DataChunks), Sofar(p), Parts(p), NEW c \in DataChunks,
         c.i = Len(p) + 1, p # <<>> => c.id = p[1].id /\ c.sid = p[1].sid,
         c.id <= replies, Follows(c), UNCHANGED replies,
         received' = Append(received, Append(partial_incoming_message_, c)),
         c.eor \/ Len(partial_incoming_message_) + 1 = ReceiveLimit
  PROVE  /\ RepliesAreWhole'
         /\ \A j \in DOMAIN received' : received'[j] # <<>> /\ received'[j][1].id <= replies'
         /\ received' # <<>> /\ LastPiece'[1].id = c.id /\ Final(LastPiece)' = c
<1> DEFINE b == partial_incoming_message_
           h == Len(p) - Len(b)
           piece == Append(b, c)
<1>1. /\ b \in Seq(DataChunks) /\ received \in Seq(Seq(DataChunks)) /\ ReceiveLimit \in Nat
  BY DEF ClientTypeOK, TransportAssumption
<1>2. /\ Len(b) \in Nat /\ DOMAIN b = 1..Len(b) /\ (b = <<>> <=> Len(b) = 0)
      /\ Len(p) \in Nat /\ DOMAIN p = 1..Len(p) /\ (p = <<>> <=> Len(p) = 0)
  BY <1>1, LenProperties, EmptySeq
<1>3. /\ h \in Nat /\ \A k \in DOMAIN b : b[k] = p[h + k]
      /\ h = 0 => (received # <<>> => Final(LastPiece).eor)
      /\ h # 0 => /\ received # <<>> /\ ~Final(LastPiece).eor
                  /\ LastPiece[1].id = p[1].id /\ Final(LastPiece).i = h
  BY DEF Sofar
<1>4. /\ piece \in Seq(DataChunks) /\ Len(piece) = Len(b) + 1 /\ DOMAIN piece = 1..(Len(b) + 1)
      /\ piece[Len(b) + 1] = c /\ \A k \in 1..Len(b) : piece[k] = b[k]
  BY <1>1, <1>2, AppendProperties, LenProperties
<1>5. Len(p) = h + Len(b) BY <1>2
<1> HIDE DEF h, piece, b
<1>6. ASSUME NEW k \in 1..Len(b)
      PROVE  /\ piece[k].sid = c.sid /\ piece[k].id = c.id /\ piece[k].i = h + k /\ ~piece[k].eor
  <2>1. h \in Nat /\ Len(b) \in Nat /\ h + k \in 1..(h + Len(b)) /\ k \in DOMAIN b
    BY <1>2, <1>3
  <2>3. h + k \in DOMAIN p /\ piece[k] = p[h + k] BY <1>2, <1>3, <1>4, <1>5, <2>1
  <2>2. p # <<>> BY <1>2, <2>3
  <2> QED BY <2>3, <2>2 DEF Parts
<1>7. /\ \A k \in DOMAIN piece : /\ piece[k].sid = c.sid /\ piece[k].id = c.id
                                 /\ piece[k].i = h + k
                                 /\ piece[k].eor => k = Len(piece)
      /\ 1 \in DOMAIN piece /\ piece # <<>> /\ Final(piece) = c
  <2>1. c.i = h + (Len(b) + 1) BY <1>2, <1>3, <1>5
  <2>2. \A k \in DOMAIN piece : k \in 1..Len(b) \/ k = Len(b) + 1 BY <1>2, <1>4
  <2>3. 1 \in DOMAIN piece BY <1>2, <1>4
  <2>4. piece # <<>> BY <1>2, <1>4, EmptySeq
  <2>5. Final(piece) = c BY <1>4 DEF Final
  <2>6. ASSUME NEW k \in DOMAIN piece
        PROVE  /\ piece[k].sid = c.sid /\ piece[k].id = c.id
               /\ piece[k].i = h + k
               /\ piece[k].eor => k = Len(piece)
    <3>1. CASE k \in 1..Len(b) BY <1>6, <3>1
    <3>2. CASE k = Len(b) + 1 BY <1>4, <2>1, <3>2
    <3> QED BY <2>2, <3>1, <3>2
  <2> QED BY <2>3, <2>4, <2>5, <2>6
<1>8. /\ DOMAIN received' = 1..(Len(received) + 1) /\ DOMAIN received = 1..Len(received)
      /\ received'[Len(received) + 1] = piece /\ Len(received) \in Nat
      /\ \A j \in 1..Len(received) : received'[j] = received[j]
      /\ Len(received') = Len(received) + 1
      /\ (received = <<>> <=> Len(received) = 0)
  <2>1. received' = Append(received, piece) /\ piece \in Seq(DataChunks) BY <1>4 DEF piece, b
  <2>2. received \in Seq(Seq(DataChunks)) BY <1>1
  <2> QED BY ONLY <2>1, <2>2, AppendProperties, LenProperties, EmptySeq
<1>9. received' # <<>> BY <1>8, EmptySeq
<1>10. LastPiece' = piece BY <1>8 DEF LastPiece
<1>11. LastPiece'[1].id = c.id /\ Final(LastPiece)' = c
  <2>1. Final(LastPiece)' = Final(piece) BY <1>10 DEF Final
  <2> QED BY <1>7, <1>10, <2>1
<1>12. \A j \in DOMAIN received' : received'[j] # <<>> /\ received'[j][1].id <= replies'
  <2> SUFFICES ASSUME NEW j \in DOMAIN received'
               PROVE  received'[j] # <<>> /\ received'[j][1].id <= replies
    OBVIOUS
  <2>1. CASE j \in 1..Len(received) BY <1>8, <2>1 DEF RInv
  <2>2. CASE j = Len(received) + 1 BY <1>7, <1>8, <2>2
  <2> QED BY <1>8, <2>1, <2>2
<1>13. Final(piece).eor \/ Len(piece) = ReceiveLimit
  BY <1>4, <1>7 DEF b
<1>14. LET before == LastPiece
       IN  IF Len(received) + 1 > 1 /\ ~Final(before).eor
           THEN piece[1].id = before[1].id /\ piece[1].i = Final(before).i + 1
           ELSE piece[1].i = 1 /\ (Len(received) + 1 > 1 => before[1].id < piece[1].id)
  <2>1. Len(received) + 1 > 1 <=> received # <<>> BY <1>8
  <2>2. piece[1].i = h + 1 /\ piece[1].id = c.id BY <1>7
  <2>3. CASE received # <<>> /\ ~Final(LastPiece).eor
    <3>1. h # 0 BY <1>3, <2>3
    <3>2. p # <<>> BY <1>2, <1>3, <1>5, <3>1
    <3> QED BY <1>3, <2>1, <2>2, <2>3, <3>1, <3>2
  <2>4. CASE received = <<>>
    <3>1. h = 0 BY <1>3, <2>4
    <3> QED BY <2>1, <2>2, <2>4, <3>1
  <2>5. CASE received # <<>> /\ Final(LastPiece).eor
    <3>1. h = 0 BY <1>3, <2>5
    <3>2. LastPiece[1].id < c.id BY <2>5 DEF Follows
    <3> QED BY <2>1, <2>2, <2>5, <3>1, <3>2
  <2> QED BY <2>3, <2>4, <2>5
<1>15. RepliesAreWhole'
  <2> DEFINE Good(s, j) ==
               /\ \A k \in DOMAIN s[j] :
                    /\ s[j][k].sid = s[j][1].sid /\ s[j][k].id = s[j][1].id
                    /\ s[j][k].i = s[j][1].i + (k - 1)
                    /\ s[j][k].eor => k = Len(s[j])
               /\ Final(s[j]).eor \/ Len(s[j]) = ReceiveLimit
               /\ IF j > 1 /\ ~Final(s[j - 1]).eor
                  THEN s[j][1].id = s[j - 1][1].id /\ s[j][1].i = Final(s[j - 1]).i + 1
                  ELSE s[j][1].i = 1 /\ (j > 1 => s[j - 1][1].id < s[j][1].id)
  <2>1. \A j \in DOMAIN received : Good(received, j) BY DEF RInv, RepliesAreWhole
  <2>2. ASSUME NEW j \in 1..Len(received) PROVE Good(received', j)
    <3>1. received'[j] = received[j] BY <1>8
    <3>2. j > 1 => received'[j - 1] = received[j - 1] BY <1>8
    <3>3. Good(received, j) BY <1>8, <2>1
    <3>4. ASSUME j > 1 PROVE Good(received', j)
      <4>1. received'[j - 1] = received[j - 1] BY <3>2, <3>4
      <4> QED BY <3>1, <3>3, <4>1
    <3>5. ASSUME ~(j > 1) PROVE Good(received', j) BY <3>1, <3>3, <3>5
    <3> QED BY <3>4, <3>5
  <2>3. ASSUME NEW j, j = Len(received) + 1 PROVE Good(received', j)
    <3>1. received'[j] = piece BY <1>8, <2>3
    <3>2. ASSUME j > 1 PROVE received'[j - 1] = LastPiece
      <4>1. j - 1 = Len(received) /\ Len(received) \in 1..Len(received) BY <1>8, <2>3, <3>2
      <4> QED BY <1>8, <4>1 DEF LastPiece
    <3>3. \A k \in DOMAIN piece : /\ piece[k].sid = piece[1].sid /\ piece[k].id = piece[1].id
                                  /\ piece[k].i = piece[1].i + (k - 1)
                                  /\ piece[k].eor => k = Len(piece)
      <4> TAKE k \in DOMAIN piece
      <4>1. k \in Nat BY <1>4
      <4>2. piece[1].i = h + 1 /\ piece[k].i = h + k BY <1>7
      <4>3. piece[k].i = piece[1].i + (k - 1) BY <1>3, <4>1, <4>2
      <4> QED BY <1>7, <4>3
    <3>4. IF j > 1 /\ ~Final(LastPiece).eor
          THEN piece[1].id = LastPiece[1].id /\ piece[1].i = Final(LastPiece).i + 1
          ELSE piece[1].i = 1 /\ (j > 1 => LastPiece[1].id < piece[1].id)
      BY <1>14, <2>3
    <3>5. ASSUME j > 1 PROVE Good(received', j)
      <4>1. received'[j - 1] = LastPiece BY <3>2, <3>5
      <4> QED BY <1>13, <3>1, <3>3, <3>4, <3>5, <4>1
    <3>6. ASSUME ~(j > 1) PROVE Good(received', j)
      <4>1. piece[1].i = 1 BY <3>4, <3>6
      <4> QED BY <1>13, <3>1, <3>3, <3>6, <4>1
    <3> QED BY <3>5, <3>6
  <2>4. \A j \in DOMAIN received' : j \in 1..Len(received) \/ j = Len(received) + 1 BY <1>8
  <2>5. \A j \in DOMAIN received' : Good(received', j) BY <2>2, <2>3, <2>4
  <2> QED BY <2>5 DEF RepliesAreWhole
<1> QED BY <1>9, <1>11, <1>12, <1>15

(* A posted chunk is put together with what is kept of its message.        *)
LEMMA AssembledReplies ==
  ASSUME StackTypeOK, ClientTypeOK, TransportAssumption, RInv, OnDataFromSctp,
         UNCHANGED serverVars
  PROVE  RInv'
<1> DEFINE b == partial_incoming_message_
           c == Head(tasks)
           r == wire["server"]
           kept == IF b # <<>> /\ c.sid # b[1].sid THEN <<>> ELSE b
           more == Exists
<1>1. /\ tasks \in Seq(Tasks) /\ tasks # <<>> /\ c.t = "data" /\ tasks' = Tail(tasks) /\ alive
      /\ alive' = alive /\ wire' = wire /\ replies' = replies
      /\ IF c.eor \/ Len(kept) + 1 >= ReceiveLimit
         THEN /\ received' = Append(received, Append(kept, c))
              /\ partial_incoming_message_' = <<>>
         ELSE /\ partial_incoming_message_' = Append(kept, c)
              /\ received' = received
  BY DEF OnDataFromSctp, Runs, ClientTypeOK, stackVars
<1>2. /\ b \in Seq(DataChunks) /\ r \in Seq(Chunks) /\ replies \in Nat
      /\ received \in Seq(Seq(DataChunks)) /\ ReceiveLimit \in Nat \ {0}
  BY DEF ClientTypeOK, StackTypeOK, Ends, TransportAssumption
<1>3. PICK p \in Seq(DataChunks) : /\ Sofar(p) /\ Flow(p, tasks, r, more)
                                   /\ Numbered(InTransit(p))
  BY <1>1 DEF RInv
<1>4. Exists' = more BY DEF Exists, serverVars
<1> HIDE DEF more
<1> DEFINE h == Len(p) - Len(b)
<1>5. /\ c \in DataChunks
      /\ c.i = Len(p) + 1
      /\ p # <<>> => c.id = p[1].id /\ c.sid = p[1].sid
      /\ AllBefore(DataOf(p) \cup {c}, DataOf(Tail(tasks)) \cup DataOf(r))
  <2> HIDE DEF b, r
  <2> QED BY ONLY <1>1, <1>2, <1>3, FlowNext
<1>6. /\ Parts(p) /\ DOMAIN p = 1..Len(p) /\ (p = <<>> <=> Len(p) = 0) /\ Len(p) \in Nat
      /\ DOMAIN b = 1..Len(b) /\ (b = <<>> <=> Len(b) = 0) /\ Len(b) \in Nat
  BY <1>2, <1>3, LenProperties, EmptySeq DEF Flow
<1>7. /\ h \in Nat /\ \A k \in DOMAIN b : b[k] = p[h + k]
      /\ Len(b) < ReceiveLimit
  BY <1>3 DEF Sofar
<1>8. kept = b
  <2>1. ASSUME b # <<>> PROVE b[1].sid = c.sid
    <3>1. 1 \in DOMAIN b /\ h + 1 \in DOMAIN p BY <1>6, <1>7, <2>1
    <3>2. b[1] = p[h + 1] /\ p # <<>> BY <1>6, <1>7, <3>1
    <3> QED BY <1>5, <1>6, <3>1, <3>2 DEF Parts
  <2> QED BY <2>1
<1>9. c \in DataOf(tasks)
  <2>1. Head(tasks) = tasks[1] /\ 1 \in DOMAIN tasks BY <1>1, TailFacts
  <2> QED BY <1>1, <2>1 DEF DataOf
<1>10. c.id <= replies /\ Follows(c) BY <1>3, <1>9 DEF InTransit, Numbered
<1>11. Numbered(InTransit(p)) /\ InTransit(p) = DataOf(p) \cup DataOf(tasks) \cup DataOf(r)
  BY <1>3 DEF InTransit
<1>12. \A q : InTransit(q)' = DataOf(q) \cup DataOf(Tail(tasks)) \cup DataOf(r)
  BY <1>1 DEF InTransit
<1>13. IF c.eor \/ Len(b) + 1 >= ReceiveLimit
       THEN received' = Append(received, Append(b, c)) /\ partial_incoming_message_' = <<>>
       ELSE partial_incoming_message_' = Append(b, c) /\ received' = received
  <2> HIDE DEF kept
  <2> QED BY <1>1, <1>8
<1> HIDE DEF c, kept, r, h
<1>14. PICK p2 \in Seq(DataChunks) : /\ p2 = Append(p, c) /\ Len(p2) = Len(p) + 1
                                     /\ p2[Len(p) + 1] = c
                                     /\ \A k \in 1..Len(p) : p2[k] = p[k]
  <2> DEFINE w == Append(p, c)
  <2>1. w \in Seq(DataChunks) /\ Len(w) = Len(p) + 1 /\ w[Len(p) + 1] = c
    BY <1>5, AppendProperties
  <2>2. \A k \in 1..Len(p) : w[k] = p[k] BY <1>5, AppendProperties
  <2>3. w = Append(p, c) OBVIOUS
  <2> HIDE DEF w
  <2> QED BY ONLY <2>1, <2>2, <2>3
<1>15. p2[1].id = c.id
  <2>1. CASE p = <<>> BY <1>6, <1>14, <2>1
  <2>2. CASE p # <<>>
    <3>1. 1 \in 1..Len(p) BY <1>6, <2>2
    <3> QED BY <1>5, <1>14, <2>2, <3>1
  <2> QED BY <2>1, <2>2
<1>16. ASSUME ~c.eor
       PROVE  /\ Flow(p2, Tail(tasks), r, more)
              /\ DataOf(p2) \cup DataOf(Tail(tasks)) = DataOf(p) \cup DataOf(tasks)
  <2>1. /\ Flow(Append(p, c), Tail(tasks), r, more)
        /\ DataOf(Append(p, c)) \cup DataOf(Tail(tasks)) = DataOf(p) \cup DataOf(tasks)
    BY ONLY <1>1, <1>2, <1>3, <1>16, FlowKeeps DEF c, r
  <2> QED BY <1>14, <2>1
<1>17. ASSUME ~c.eor PROVE InTransit(p2)' = InTransit(p) BY <1>11, <1>12, <1>16, <1>17
<1>18. CASE ~c.eor /\ ~(Len(b) + 1 >= ReceiveLimit)
  <2>1. partial_incoming_message_' = Append(b, c) /\ received' = received BY <1>13, <1>18
  <2> DEFINE b2 == Append(b, c)
  <2>2. /\ Len(b2) = Len(b) + 1 /\ DOMAIN b2 = 1..(Len(b) + 1) /\ b2[Len(b) + 1] = c
        /\ \A k \in 1..Len(b) : b2[k] = b[k]
    BY <1>2, <1>5, <1>6, AppendProperties, LenProperties
  <2>3. b2 = partial_incoming_message_' BY <2>1
  <2> HIDE DEF b2
  <2>4. Len(p2) - Len(b2) = h /\ Len(b2) < ReceiveLimit
    BY <1>2, <1>6, <1>7, <1>14, <1>18, <2>2 DEF h
  <2>5. ASSUME NEW k \in DOMAIN b2 PROVE b2[k] = p2[h + k]
    <3>1. CASE k \in 1..Len(b)
      <4>1. h + k \in 1..Len(p) BY <1>6, <1>7, <3>1 DEF h
      <4> QED BY <1>6, <1>7, <1>14, <2>2, <3>1, <4>1
    <3>2. CASE k = Len(b) + 1
      <4>1. h + k = Len(p) + 1 BY <1>6, <1>7, <3>2 DEF h
      <4> QED BY <1>14, <2>2, <3>2, <4>1
    <3> QED BY <1>6, <2>2, <3>1, <3>2
  <2>6. /\ h = 0 => (received # <<>> => Final(LastPiece).eor)
        /\ h # 0 => /\ received # <<>> /\ ~Final(LastPiece).eor
                    /\ LastPiece[1].id = p2[1].id /\ Final(LastPiece).i = h
    <3>1. /\ h = 0 => (received # <<>> => Final(LastPiece).eor)
          /\ h # 0 => /\ received # <<>> /\ ~Final(LastPiece).eor
                      /\ LastPiece[1].id = p[1].id /\ Final(LastPiece).i = h
      BY <1>3 DEF Sofar, h
    <3>2. ASSUME h # 0 PROVE p[1].id = p2[1].id
      <4>1. Len(p) # 0
        <5>1. Len(p) \in Nat /\ Len(b) \in Nat /\ Len(p) - Len(b) \in Nat
          BY <1>6, <1>7 DEF h
        <5> QED BY <3>2, <5>1 DEF h
      <4> QED BY <1>5, <1>6, <1>15, <4>1
    <3> QED BY <3>1, <3>2
  <2>7. Sofar(p2)' BY <1>7, <2>1, <2>3, <2>4, <2>5, <2>6 DEF Sofar, LastPiece
  <2>8. Flow(p2, tasks', wire'["server"], Exists') BY <1>1, <1>4, <1>16, <1>18 DEF r
  <2>9. Numbered(InTransit(p2))'
    <3>1. \A x : Follows(x)' = Follows(x) BY <2>1 DEF Follows, LastPiece
    <3>2. \A x \in InTransit(p) : x.id <= replies' /\ Follows(x)' BY <1>1, <1>11, <3>1 DEF Numbered
    <3> QED BY <1>17, <1>18, <3>2 DEF Numbered
  <2>10. \E q \in Seq(DataChunks) :
           /\ Sofar(q)' /\ Flow(q, tasks', wire'["server"], Exists')
           /\ Numbered(InTransit(q))'
    BY <2>7, <2>8, <2>9
  <2>11. replies' \in Nat /\ replies <= replies' /\ UNCHANGED received BY <1>1, <1>2, <2>1
  <2> QED BY ONLY <2>10, <2>11, StackTypeOK, ClientTypeOK, RInv, RepliesKept
<1>19. CASE c.eor \/ Len(b) + 1 >= ReceiveLimit
  <2>1. received' = Append(received, Append(b, c)) /\ partial_incoming_message_' = <<>>
    BY <1>13, <1>19
  <2>2. c.eor \/ Len(b) + 1 = ReceiveLimit BY <1>2, <1>6, <1>7, <1>19
  <2>3. /\ RepliesAreWhole'
        /\ \A j \in DOMAIN received' : received'[j] # <<>> /\ received'[j][1].id <= replies'
        /\ received' # <<>> /\ LastPiece'[1].id = c.id /\ Final(LastPiece)' = c
    BY <1>1, <1>3, <1>5, <1>6, <1>10, <2>1, <2>2, PieceHanded
  <2>4. Len(<<>>) = 0 /\ DOMAIN <<>> = {} OBVIOUS
  <2>5. ASSUME ~c.eor
        PROVE  \E q \in Seq(DataChunks) :
                 /\ Sofar(q)' /\ Flow(q, tasks', wire'["server"], Exists')
                 /\ Numbered(InTransit(q))'
    <3>1. Sofar(p2)'
      <4>1. Len(p2) - Len(<<>>) = Len(p) + 1 /\ Len(p) + 1 # 0 /\ Len(p) + 1 \in Nat
        BY <1>6, <1>14, <2>4
      <4>2. Len(<<>>) < ReceiveLimit BY <1>2, <2>4
      <4> QED BY <1>5, <1>15, <2>1, <2>3, <2>4, <2>5, <4>1, <4>2 DEF Sofar
    <3>2. Flow(p2, tasks', wire'["server"], Exists') BY <1>1, <1>4, <1>16, <2>5 DEF r
    <3> DEFINE A == InTransit(p)
    <3>3. A = DataOf(p) \cup {c} \cup DataOf(Tail(tasks)) \cup DataOf(r) /\ A \subseteq DataChunks
      <4>1. DataOf(tasks) = {c} \cup DataOf(Tail(tasks)) BY <1>1, DataTail DEF c
      <4>2. A \subseteq DataChunks BY <1>1, <1>2, <1>11, DataTypes
      <4> QED BY <1>11, <4>1, <4>2
    <3>4. ASSUME NEW x \in A PROVE c.id <= x.id
      <4>1. c.id \in Nat /\ x.id \in Nat BY <1>5, <3>3 DEF DataChunks
      <4>2. CASE x \in DataOf(p)
        <5>1. PICK k \in DOMAIN p : x = p[k] BY <4>2, DataTypes
        <5>2. p # <<>> BY <1>6, <5>1
        <5> QED BY <1>5, <1>6, <4>1, <5>1, <5>2 DEF Parts
      <4>3. CASE x = c BY <4>1, <4>3
      <4>4. CASE x \in DataOf(Tail(tasks)) \cup DataOf(r)
        <5>1. Before(c, x) BY <1>5, <4>4 DEF AllBefore
        <5> QED BY <4>1, <5>1 DEF Before
      <4> QED BY <3>3, <4>2, <4>3, <4>4
    <3>5. ASSUME NEW x \in A PROVE x.id <= replies' /\ Follows(x)'
      <4>1. x.id <= replies' BY <1>1, <1>11 DEF Numbered
      <4>2. Follows(x)' BY <2>3, <2>5, <3>4 DEF Follows
      <4> QED BY <4>1, <4>2
    <3>6. Numbered(InTransit(p2))' BY <1>17, <2>5, <3>5 DEF Numbered
    <3> QED BY <1>14, <3>1, <3>2, <3>6
  <2>6. ASSUME c.eor
        PROVE  \E q \in Seq(DataChunks) :
                 /\ Sofar(q)' /\ Flow(q, tasks', wire'["server"], Exists')
                 /\ Numbered(InTransit(q))'
    <3>1. /\ Flow(<<>>, Tail(tasks), r, more)
          /\ DataOf(Tail(tasks)) \subseteq DataOf(tasks)
          /\ \A d \in DataOf(Tail(tasks)) \cup DataOf(r) : c.id < d.id
      BY ONLY <1>1, <1>2, <1>3, <2>6, FlowEnds DEF c, r
    <3>2. Sofar(<<>>)'
      <4>1. Len(<<>>) - Len(<<>>) = 0 /\ 0 \in Nat /\ Len(<<>>) < ReceiveLimit BY <1>2, <2>4
      <4> QED BY <2>1, <2>3, <2>4, <2>6, <4>1 DEF Sofar
    <3>3. Flow(<<>>, tasks', wire'["server"], Exists') BY <1>1, <1>4, <3>1 DEF r
    <3> DEFINE B == DataOf(Tail(tasks)) \cup DataOf(r)
    <3>4. InTransit(<<>>)' = B
      <4>1. DataOf(<<>>) = {} BY DEF DataOf
      <4> QED BY <1>12, <4>1
    <3>5. B \subseteq DataChunks /\ B \subseteq InTransit(p)
      <4>1. Tail(tasks) \in Seq(Tasks) BY <1>1, HeadTailProperties
      <4> QED BY <1>2, <1>11, <3>1, <4>1, DataTypes
    <3> HIDE DEF B
    <3>6. ASSUME NEW x \in B PROVE x.id <= replies' /\ Follows(x)'
      <4>1. c.id < x.id /\ c.id \in Nat /\ x.id \in Nat BY <1>5, <3>1, <3>5 DEF DataChunks, B
      <4>2. x.id <= replies' BY <1>1, <1>11, <3>5 DEF Numbered
      <4>3. c.id <= x.id BY <4>1
      <4>4. Follows(x)' BY <2>3, <4>1, <4>3 DEF Follows
      <4> QED BY <4>2, <4>4
    <3>7. Numbered(InTransit(<<>>))' BY <3>4, <3>6 DEF Numbered
    <3>8. <<>> \in Seq(DataChunks) OBVIOUS
    <3> QED BY <3>2, <3>3, <3>7, <3>8
  <2> QED BY <1>1, <2>3, <2>5, <2>6 DEF RInv
<1> QED BY <1>18, <1>19

LEMMA ClientReplies ==
  ASSUME StackTypeOK, ClientTypeOK, StackAssumption, TransportAssumption, RInv, ClientNext,
         UNCHANGED serverVars
  PROVE  RInv'
<1>1. CASE OnPacketRead BY <1>1, PacketReplies
<1>2. CASE OnDataFromSctp BY <1>2, AssembledReplies
<1>3. ASSUME ~OnPacketRead, ~OnDataFromSctp PROVE RInv'
  <2>1. wire'["server"] = wire["server"] /\ replies' = replies BY <1>3, ClientLeavesWire
  <2>2. /\ Exists' = Exists /\ replies \in Nat /\ tasks \in Seq(Tasks)
        /\ wire["server"] \in Seq(Chunks)
    BY DEF Exists, serverVars, StackTypeOK, ClientTypeOK, Ends
  <2>3. /\ UNCHANGED <<received, partial_incoming_message_>>
        /\ alive' => /\ alive
                     /\ \/ tasks' = tasks
                        \/ \E new \in Seq(Tasks) : Lacks(new, "data") /\ tasks' = tasks \o new
                        \/ tasks # <<>> /\ Head(tasks).t # "data" /\ tasks' = Tail(tasks)
    <3>1. CASE \/ Start \/ OnWritableState
               \/ \E s \in Sids : OpenStream(s) \/ ResetStream(s) \/ SendDataBlocked(s)
               \/ \E s \in Sids, n \in 1..MaxFragments : SendData(s, n)
      BY <3>1 DEF Start, OnWritableState, OpenStream, ResetStream, SendDataBlocked, SendData
    <3>2. CASE ClientNotified
      <4>1. Lacks(<<Task("commup")>>, "data") /\ Lacks(<<Task("commlost")>>, "data")
        BY TasksLack
      <4>2. <<Task("commup")>> \in Seq(Tasks) /\ <<Task("commlost")>> \in Seq(Tasks)
        BY TasksMade
      <4>3. tasks' = tasks \o <<Task("commup")>> \/ tasks' = tasks \o <<Task("commlost")>>
        BY <3>2 DEF ClientNotified, Post
      <4> QED BY <3>2, <4>1, <4>2, <4>3 DEF ClientNotified
    <3>3. CASE RunTask
      <4>1. PICK t \in {"threshold", "dry", "commup", "commlost", "reset", "outgoing", "failed"} :
              Runs(t)
        BY <1>3, <3>3 DEF RunTask, OnSendThresholdCallback, OnSenderDry, OnCommUp, OnCommLost,
                          OnIncomingReset, OnOutgoingReset, OnResetFailed
      <4>2. UNCHANGED <<received, partial_incoming_message_, alive>>
        BY <1>3, <3>3 DEF RunTask, OnSendThresholdCallback, OnSenderDry, OnCommUp, OnCommLost,
                          OnIncomingReset, OnOutgoingReset, OnStreamReset, OnResetFailed
      <4> QED BY <4>1, <4>2 DEF Runs
    <3>4. CASE DestroyTransport BY <3>4 DEF DestroyTransport
    <3> QED BY <1>3, <3>1, <3>2, <3>3, <3>4 DEF ClientNext
  <2>4. ASSUME alive', NEW p \in Seq(DataChunks), Flow(p, tasks, wire["server"], Exists)
        PROVE  /\ Flow(p, tasks', wire'["server"], Exists')
               /\ InTransit(p)' \subseteq InTransit(p)
    <3> DEFINE r == wire["server"]
               more == Exists
    <3> HIDE DEF r, more
    <3>1. Flow(p, tasks, r, more) BY <2>4 DEF r, more
    <3>2. Flow(p, tasks', r, more) /\ DataOf(tasks') = DataOf(tasks)
      <4>1. CASE tasks' = tasks BY <3>1, <4>1
      <4>2. ASSUME NEW new \in Seq(Tasks), Lacks(new, "data"), tasks' = tasks \o new
            PROVE  Flow(p, tasks', r, more) /\ DataOf(tasks') = DataOf(tasks)
        <5>1. Flow(p, tasks \o new, r, more) /\ DataOf(tasks \o new) = DataOf(tasks)
          BY ONLY <3>1, <4>2, StackTypeOK, ClientTypeOK, PostReplies
        <5> QED BY <4>2, <5>1
      <4>3. CASE tasks # <<>> /\ Head(tasks).t # "data" /\ tasks' = Tail(tasks)
        <5>1. DataOf(tasks') = DataOf(tasks) /\ Sorted(tasks')
          BY <2>2, <3>1, <4>3, DataTail DEF Flow
        <5> QED BY <3>1, <5>1 DEF Flow
      <4> QED BY <2>3, <2>4, <4>1, <4>2, <4>3
    <3> QED BY <2>1, <2>2, <3>2 DEF InTransit, r, more
  <2> QED BY <2>1, <2>2, <2>3, <2>4, RepliesMove
<1> QED BY <1>1, <1>2, <1>3

(* The server's own chunks other than data go behind what is on the wire.  *)
LEMMA AddedReplies ==
  ASSUME StackTypeOK, ClientTypeOK, RInv, UNCHANGED clientVars, Exists' = Exists,
         replies' \in Nat, replies <= replies',
         NEW x \in Seq(Chunks), Lacks(x, "data"), wire'["server"] = wire["server"] \o x
  PROVE  RInv'
<1> DEFINE r == wire["server"]
<1>1. r \in Seq(Chunks) BY DEF StackTypeOK, Ends
<1>2. UNCHANGED <<alive, partial_incoming_message_, tasks, received>> BY DEF clientVars
<1>3. DataOf(x) = {} /\ Sorted(x) BY NoData
<1>4. AllBefore(DataOf(r), DataOf(x)) BY <1>3 DEF AllBefore
<1> HIDE DEF r
<1>5. DataOf(r \o x) = DataOf(r) /\ (Sorted(r) => Sorted(r \o x))
  <2>1. /\ DataOf(r \o x) = DataOf(r) \cup DataOf(x)
        /\ Sorted(r) /\ Sorted(x) /\ AllBefore(DataOf(r), DataOf(x)) => Sorted(r \o x)
    BY ONLY <1>1, x \in Seq(Chunks), DataMore
  <2> QED BY <1>3, <1>4, <2>1
<1>6. ASSUME NEW p \in Seq(DataChunks), Flow(p, tasks, r, Exists)
      PROVE  Flow(p, tasks, r \o x, Exists)
  BY <1>5, <1>6 DEF Flow
<1>7. ASSUME NEW p \in Seq(DataChunks) PROVE InTransit(p)' = InTransit(p)
  BY <1>2, <1>5 DEF InTransit, r
<1> QED BY <1>2, <1>6, <1>7, RepliesMove DEF r

LEMMA SameReplies ==
  ASSUME StackTypeOK, ClientTypeOK, RInv, UNCHANGED clientVars, Exists' = Exists,
         replies' \in Nat, replies <= replies', wire'["server"] = wire["server"]
  PROVE  RInv'
<1>1. UNCHANGED <<alive, partial_incoming_message_, tasks, received>> BY DEF clientVars
<1>2. \A p \in Seq(DataChunks) : InTransit(p)' = InTransit(p) BY <1>1 DEF InTransit
<1> QED BY <1>1, <1>2, RepliesMove

LEMMA MessageReplies ==
  ASSUME StackTypeOK, ClientTypeOK, RInv, UNCHANGED clientVars, NEW s \in Sids,
         NEW n \in Nat \ {0}, SendSctpMessage(s, n)
  PROVE  RInv'
<1> DEFINE id == replies + 1
           m == [sid |-> s, ssn |-> 0, id |-> id, n |-> n]
           x == Fragments(m, 1, n)
           r == wire["server"]
<1>1. /\ UNCHANGED <<alive, partial_incoming_message_, tasks, received>>
      /\ Exists /\ Exists' = Exists /\ replies \in Nat /\ replies' = id /\ id \in Nat
      /\ \A k \in Nat : k <= replies <=> k < id
  BY DEF clientVars, SendSctpMessage, Reply, Exists, StackTypeOK
<1>2. /\ partial_incoming_message_ \in Seq(DataChunks) /\ tasks \in Seq(Tasks)
      /\ r \in Seq(Chunks) /\ received \in Seq(Seq(DataChunks))
  BY DEF ClientTypeOK, StackTypeOK, Ends
<1>3. wire'["server"] = r \o x BY DEF SendSctpMessage, StackTypeOK, Ends
<1> HIDE DEF id
<1>4. x \in Seq(Chunks) /\ Whole(x, s, id, n)
  <2>1. m.sid \in Sids /\ m.ssn \in Nat /\ m.id \in Nat /\ m.n \in Int /\ n \in Nat BY <1>1
  <2> HIDE DEF m
  <2>2. x \in Seq(DataChunks) /\ \A k \in DOMAIN x : x[k].t = "data" /\ x[k].sid = m.sid
    BY <2>1, FragmentsType
  <2>3. x \in Seq(Chunks)
    <3> HIDE DEF x
    <3> QED BY <2>2, ChunksMade
  <2>4. m = [sid |-> s, ssn |-> 0, id |-> id, n |-> n] BY DEF m
  <2>5. Whole(x, s, id, n) BY <2>1, <2>4, WholeMessage
  <2> QED BY <2>3, <2>5
<1> HIDE DEF m, x, r
<1>5. ASSUME alive
      PROVE  \E p \in Seq(DataChunks) :
               /\ Sofar(p)' /\ Flow(p, tasks', wire'["server"], Exists')
               /\ Numbered(InTransit(p))'
  <2>1. PICK p \in Seq(DataChunks) : /\ Sofar(p) /\ Flow(p, tasks, r, Exists)
                                     /\ Numbered(InTransit(p))
    BY <1>1, <1>5 DEF RInv, r
  <2> DEFINE q == tasks
             A == InTransit(p)
             B == InTransit(p)'
  <2>2. \A c \in A : c.id \in Nat /\ c.id < id
    <3>1. A \subseteq DataChunks BY <1>2, DataTypes DEF InTransit, r
    <3> TAKE c \in A
    <3>2. c.id \in Nat /\ c.id <= replies BY <2>1, <3>1 DEF Numbered, DataChunks
    <3> QED BY <1>1, <3>2
  <2>3. /\ q \in Seq(Tasks) /\ Flow(p, q, r, Exists)
        /\ Under(DataOf(p) \cup DataOf(q) \cup DataOf(r), id)
    BY <1>2, <2>1, <2>2 DEF Under, InTransit, r
  <2> HIDE DEF q
  <2>4. Flow(p, q, r \o x, Exists)
    <3>1. id \in Nat /\ r \in Seq(Chunks) /\ Exists BY <1>1, <1>2
    <3> QED BY ONLY <3>1, <1>4, <2>3, p \in Seq(DataChunks), s \in Sids, n \in Nat \ {0}, FlowMessage
  <2>5. DataOf(r \o x) = DataOf(r) \cup DataOf(x) BY ONLY <1>2, <1>4, DataMore
  <2>6. \A c \in DataOf(x) : c.id = id BY <1>4 DEF Whole, DataOf
  <2>7. B = A \cup DataOf(x) BY <1>1, <1>3, <2>5 DEF InTransit, r
  <2>8. Numbered(A) BY <2>1
  <2> HIDE DEF A, B
  <2>9. ASSUME NEW c \in B PROVE c.id <= replies' /\ Follows(c)
    <3>1. CASE c \in A
      <4>1. c.id \in Nat /\ c.id < id /\ Follows(c) BY <2>2, <2>8, <3>1 DEF Numbered
      <4> QED BY <1>1, <4>1
    <3>2. CASE c \in DataOf(x)
      <4>1. c.id = id BY <2>6, <3>2
      <4>2. ASSUME received # <<>> PROVE LastPiece[1].id < c.id /\ LastPiece[1].id \in Nat
        <5>1. Len(received) \in DOMAIN received /\ LastPiece[1] \in DataChunks
          BY <1>2, <4>2, LastPieceType
        <5>2. LastPiece[1].id <= replies BY <1>2, <5>1 DEF RInv, LastPiece
        <5>3. LastPiece[1].id \in Nat BY <5>1 DEF DataChunks
        <5> QED BY <1>1, <4>1, <5>2, <5>3
      <4>3. Follows(c)
        <5>1. ASSUME received # <<>> PROVE LastPiece[1].id <= c.id
          <6>1. c.id \in Nat BY <1>1, <4>1
          <6> QED BY <4>2, <5>1, <6>1
        <5> QED BY <4>2, <5>1 DEF Follows
      <4> QED BY <1>1, <4>1, <4>3
    <3> QED BY <2>7, <3>1, <3>2
  <2>10. \A c : Follows(c)' = Follows(c) BY <1>1 DEF Follows, LastPiece
  <2>11. \A c \in B : c.id <= replies' /\ Follows(c)' BY <2>9, <2>10
  <2>12. Numbered(InTransit(p))' BY <2>11 DEF Numbered, B
  <2>13. Sofar(p)' BY <1>1, <2>1 DEF Sofar, LastPiece
  <2>14. Flow(p, tasks', wire'["server"], Exists') BY <1>1, <1>3, <2>4 DEF q
  <2> QED BY <2>12, <2>13, <2>14
<1>6. replies' \in Nat /\ replies <= replies' BY <1>1 DEF id
<1> QED BY <1>1, <1>5, <1>6, RepliesKept

LEMMA ProcessAdds ==
  ASSUME StackTypeOK, ProcessSctpData
  PROVE  \E x \in Seq(Chunks) : /\ wire'["server"] = wire["server"] \o x
                                /\ Lacks(x, "data")
<1> DEFINE c == Arriving("server")
           rest == [wire EXCEPT !["client"] = Tail(@)]
           r == wire["server"]
<1>1. /\ c \in Chunks /\ r \in Seq(Chunks) /\ Tail(wire["client"]) \in Seq(Chunks)
  BY ArrivingType DEF ProcessSctpData, Peer, Ends, Arriving
<1>2. rest["server"] = r /\ rest \in [Ends -> Seq(Chunks)]
  BY <1>1 DEF StackTypeOK, Ends
<1>3. \/ ReceiveData(c, rest) \/ ReceiveReset(c, rest)
      \/ ReceiveResponse(c, rest) \/ ReceiveAbort(c, rest)
  BY DEF ProcessSctpData
<1> HIDE DEF c, rest, r
<1>4. CASE ReceiveData(c, rest)
  <2>1. Sack \in Chunks /\ Sack.t # "data" BY ChunksMade DEF Sack
  <2>2. wire'["server"] = Append(r, Sack) BY <1>2, <1>4 DEF ReceiveData, Ends
  <2> QED BY <1>1, <2>1, <2>2, OneMore DEF r
<1>5. CASE ReceiveReset(c, rest)
  <2> DEFINE a == Append(r, Response(TRUE))
             base == [rest EXCEPT !["server"] = Append(@, Response(TRUE))]
  <2>1. c.t = "reset" /\ ResetSctpStreams(c.sids, base) BY <1>5 DEF ReceiveReset
  <2>2. c.sids \subseteq Sids BY <1>1, <2>1, ChunkFacts DEF Resets
  <2>3. Response(TRUE) \in Chunks /\ Response(TRUE).t # "data" BY ChunksMade DEF Response
  <2>4. /\ a \in Seq(Chunks) /\ a = r \o <<Response(TRUE)>>
        /\ <<Response(TRUE)>> \in Seq(Chunks) /\ Lacks(<<Response(TRUE)>>, "data")
    BY <1>1, <2>3, OneMore, AppendFacts
  <2>5. base["server"] = a /\ base \in [Ends -> Seq(Chunks)] BY <1>2, <2>4 DEF Ends
  <2> HIDE DEF base
  <2>6. \E x \in Seq(Chunks) : /\ wire'["server"] = base["server"] \o x
                               /\ Lacks(x, "response") /\ Lacks(x, "data")
    BY ONLY <2>1, <2>2, <2>5, StackTypeOK, ResetSctpWire
  <2>7. PICK x \in Seq(Chunks) : wire'["server"] = a \o x /\ Lacks(x, "data") BY <2>5, <2>6
  <2> DEFINE one == <<Response(TRUE)>>
             y == one \o x
  <2> HIDE DEF a, one
  <2>8. a = r \o one /\ one \in Seq(Chunks) /\ Lacks(one, "data") BY <2>4 DEF a, one
  <2>9. y \in Seq(Chunks) /\ a \o x = r \o y BY SMTT(40), <1>1, <2>8, ConcatAssociative
  <2>10. Lacks(y, "data")
    <3>1. \A k \in DOMAIN y : \/ k \in DOMAIN one /\ y[k] = one[k]
                              \/ k - Len(one) \in DOMAIN x /\ y[k] = x[k - Len(one)]
      BY <2>8, ConcatFacts
    <3> QED BY <2>7, <2>8, <3>1 DEF Lacks
  <2> QED BY <2>7, <2>9, <2>10 DEF r
<1>6. CASE ReceiveResponse(c, rest) \/ ReceiveAbort(c, rest)
  <2>1. wire' = rest BY <1>6 DEF ReceiveResponse, ReceiveAbort
  <2>2. <<>> \in Seq(Chunks) /\ Lacks(<<>>, "data") /\ r \o <<>> = r
    BY <1>1, ConcatEmptySeq DEF Lacks
  <2> QED BY <1>2, <2>1, <2>2 DEF r
<1> QED BY <1>3, <1>4, <1>5, <1>6

LEMMA ServerReplies ==
  ASSUME StackTypeOK, ClientTypeOK, ServerTypeOK, StackAssumption, AssociationAssumption,
         RInv, ServerNext, UNCHANGED clientVars
  PROVE  RInv'
<1> DEFINE Adds1 == \E x \in Seq(Chunks) : /\ wire'["server"] = wire["server"] \o x
                                           /\ Lacks(x, "data")
<1>1. /\ replies \in Nat
      /\ (Reply \/ Fault \/ UNCHANGED <<faults, replies>>) => replies' \in Nat /\ replies <= replies'
  BY DEF Reply, Fault, StackTypeOK
<1>2. CASE TransportConnected
  <2>1. /\ Fault \/ UNCHANGED <<faults, replies>>
        /\ Exists' = Exists /\ UNCHANGED wire
    BY <1>2 DEF TransportConnected, Exists
  <2> QED BY <1>1, <2>1, SameReplies
<1>3. CASE ServerUp
  <2>1. NegotiatedOs \in 0..MaxSctpStreams BY DEF AssociationAssumption
  <2>2. UNCHANGED <<faults, replies>> /\ Exists' = Exists BY <1>3 DEF ServerUp, Exists
  <2>3. CASE UNCHANGED wire BY <1>1, <2>2, <2>3, SameReplies
  <2>4. CASE AddOutgoingStreams(TRUE, NegotiatedOs, wire["server"])
    <3>1. Adds1 BY <2>1, <2>4, AddWire
    <3> QED BY <1>1, <2>2, <3>1, AddedReplies
  <2> QED BY <1>3, <2>3, <2>4 DEF ServerUp
<1>4. CASE ServerLost
  <2>1. Fault /\ UNCHANGED wire /\ Exists' = Exists BY <1>4 DEF ServerLost, StackLost, Exists
  <2> QED BY <1>1, <2>1, SameReplies
<1>5. CASE OnServerCommLost
  <2>1. /\ UNCHANGED <<wire, faults, replies>> /\ Exists /\ worker_tasks # <<>>
        /\ state' = Head(worker_tasks)
    BY <1>5 DEF OnServerCommLost, stackVars
  <2>2. Head(worker_tasks) \in {"CLOSED", "FAILED"} BY <2>1, HeadTailProperties DEF ServerTypeOK
  <2>3. Exists' = Exists BY <2>1, <2>2 DEF Exists
  <2> QED BY <1>1, <2>1, <2>3, SameReplies
<1>6. ASSUME NEW s \in Sids, HandleDataConsumer(s) PROVE RInv'
  <2>1. /\ os \in 0..MaxSctpStreams /\ AddOutgoingStreams(FALSE, os, wire["server"])
        /\ Reply /\ Exists' = Exists
    BY <1>6 DEF HandleDataConsumer, ServerTypeOK, Exists
  <2>2. Adds1 BY <2>1, AddWire
  <2> QED BY <1>1, <2>1, <2>2, AddedReplies
<1>7. ASSUME NEW s \in Sids, DataChannelClosed(s) PROVE RInv'
  <2>1. /\ ResetSctpStreams({s}, wire) /\ {s} \subseteq Sids /\ wire \in [Ends -> Seq(Chunks)]
        /\ Reply /\ Exists' = Exists
    BY <1>7 DEF DataChannelClosed, StackTypeOK, Exists
  <2>2. Adds1 BY <2>1, ResetSctpWire
  <2> QED BY <1>1, <2>1, <2>2, AddedReplies
<1>8. ASSUME NEW s \in Sids, NEW n \in MessageSizes, SendSctpMessage(s, n) PROVE RInv'
  <2>1. n \in Nat \ {0} BY DEF AssociationAssumption
  <2> QED BY <1>8, <2>1, MessageReplies
<1>9. CASE ProcessSctpData
  <2>1. UNCHANGED <<faults, replies>> BY <1>9 DEF ProcessSctpData
  <2>2. Exists' = Exists
    BY <1>9 DEF ProcessSctpData, ReceiveData, ReceiveReset, ReceiveResponse, ReceiveAbort, Exists
  <2>3. Adds1 BY <1>9, ProcessAdds
  <2> QED BY <1>1, <2>1, <2>2, <2>3, AddedReplies
<1>10. CASE DenyReset
  <2>1. Fault /\ Exists' = Exists /\ wire'["server"] = Append(wire["server"], Response(FALSE))
    BY <1>10 DEF DenyReset, serverVars, Exists
  <2>2. Response(FALSE) \in Chunks /\ Response(FALSE).t # "data" BY ChunksMade DEF Response
  <2>3. wire["server"] \in Seq(Chunks) BY DEF StackTypeOK, Ends
  <2>4. Adds1 BY <2>1, <2>2, <2>3, OneMore
  <2> QED BY <1>1, <2>1, <2>4, AddedReplies
<1>11. CASE DestroyAssociation
  <2>1. Fault /\ StackClose("server") /\ ~Exists' BY <1>11 DEF DestroyAssociation, Exists
  <2>2. Lacks(wire'["server"], "data") BY <2>1, ClosedQueue DEF Ends
  <2>3. UNCHANGED <<alive, partial_incoming_message_, tasks, received>> BY DEF clientVars
  <2>4. /\ partial_incoming_message_ \in Seq(DataChunks) /\ tasks \in Seq(Tasks)
        /\ wire["server"] \in Seq(Chunks)
    BY DEF ClientTypeOK, StackTypeOK, Ends
  <2>5. ASSUME NEW p \in Seq(DataChunks), Flow(p, tasks, wire["server"], Exists)
        PROVE  /\ Flow(p, tasks', wire'["server"], Exists')
               /\ InTransit(p)' \subseteq InTransit(p)
    <3> DEFINE x == wire'["server"]
               more == Exists
    <3>1. Flow(p, tasks, wire["server"], more) BY <2>5
    <3> HIDE DEF x, more
    <3>2. Flow(p, tasks, x, FALSE)
      BY ONLY p \in Seq(DataChunks), <2>2, <2>4, <3>1, FlowCut DEF x
    <3>3. DataOf(x) = {} BY <2>2, NoData DEF x
    <3>4. Exists' = FALSE BY <2>1 DEF Exists
    <3>5. Flow(p, tasks', wire'["server"], Exists') BY <2>3, <3>2, <3>4 DEF x
    <3> QED BY <2>3, <3>3, <3>5 DEF InTransit, x
  <2> QED BY <1>1, <2>1, <2>3, <2>5, RepliesMove
<1> QED BY <1>2, <1>3, <1>4, <1>5, <1>6, <1>7, <1>8, <1>9, <1>10, <1>11 DEF ServerNext

LEMMA RepliesStep ==
  ASSUME Constants, TInv, RInv, [Next]_vars
  PROVE  RInv'
<1>1. /\ StackTypeOK /\ ClientTypeOK /\ ServerTypeOK
      /\ StackAssumption /\ TransportAssumption /\ AssociationAssumption
  BY DEF TInv, TypeOK, Constants
<1>2. CASE Client(ClientNext) BY <1>1, <1>2, ClientReplies DEF Client
<1>3. CASE Server(ServerNext) BY <1>1, <1>3, ServerReplies DEF Server
<1>4. CASE UNCHANGED vars
  <2>1. UNCHANGED clientVars /\ Exists' = Exists /\ UNCHANGED <<wire, replies>> /\ replies \in Nat
    BY <1>1, <1>4 DEF vars, stackVars, serverVars, Exists, StackTypeOK
  <2> QED BY <1>1, <2>1, SameReplies
<1> QED BY <1>2, <1>3, <1>4 DEF Next

LEMMA RepliesInit ==
  ASSUME Init, TransportAssumption
  PROVE  RInv
<1>1. /\ received = <<>> /\ partial_incoming_message_ = <<>> /\ tasks = <<>>
      /\ wire["server"] = <<>>
  BY DEF Init, ClientInit, StackInit, Ends
<1>2. DOMAIN <<>> = {} OBVIOUS
<1>3. DataOf(<<>>) = {} BY <1>2 DEF DataOf
<1>4. Flow(<<>>, <<>>, <<>>, Exists)
  BY <1>2, <1>3 DEF Flow, Parts, Sorted, AllBefore, Chain
<1>5. InTransit(<<>>) = {} BY <1>1, <1>3 DEF InTransit
<1>6. Numbered(InTransit(<<>>)) BY <1>5 DEF Numbered
<1>7. RepliesAreWhole BY <1>1, <1>2 DEF RepliesAreWhole
<1>8. Sofar(<<>>) BY <1>1, <1>2 DEF Sofar, TransportAssumption
<1>9. <<>> \in Seq(DataChunks) OBVIOUS
<1> QED BY <1>1, <1>2, <1>4, <1>6, <1>7, <1>8, <1>9 DEF RInv

(* What the client hands to its application are the messages the server    *)
(* sent, in the order sent, each whole or, above ReceiveLimit, in pieces   *)
(* of that size.  The argument: what has arrived of a message, what is     *)
(* posted and what is on the wire is one chain of fragments in the order   *)
(* sent (Flow), so the next chunk is the one that the message lacks; the   *)
(* drop of a part that belongs to another stream never happens, and only   *)
(* the destruction of the server cuts the chain, at its end.               *)
THEOREM RepliesArriveWhole ==
  ASSUME StackAssumption, TransportAssumption, AssociationAssumption
  PROVE  Spec => []RepliesAreWhole
<1>1. Constants BY DEF Constants
<1>2. Init => TInv /\ RInv BY <1>1, TypeInit, RepliesInit
<1>3. TInv /\ RInv /\ [Next]_vars => (TInv /\ RInv)' BY <1>1, TypeStep, RepliesStep
<1>4. RInv => RepliesAreWhole BY DEF RInv
<1> QED BY <1>2, <1>3, <1>4, PTL DEF Spec

-----------------------------------------------------------------------------
(* What the client sends: the data on the wire, and what the server keeps  *)
(* of a message before its end, are one line.                              *)

Frag(m, i) == [t |-> "data", sid |-> m.sid, ssn |-> m.ssn, id |-> m.id, i |-> i,
               eor |-> i = m.n]

Same(c, d) == c.sid = d.sid /\ c.id = d.id
Earlier(c, d) == c.sid = d.sid => c.id < d.id \/ (c.id = d.id /\ c.i < d.i)

(* The chunks of a stream are in order, and those of a message are not     *)
(* mixed with those of another one.                                        *)
InOrder(x) == \A j, k \in DOMAIN x :
  x[j].t = "data" /\ x[k].t = "data" /\ j < k => Earlier(x[j], x[k])

Apart(x) == \A j, k, l \in DOMAIN x :
  x[j].t = "data" /\ x[k].t = "data" /\ x[l].t = "data" /\ j < k /\ k < l
    => (Same(x[j], x[l]) => Same(x[j], x[k]))

(* Nothing follows message m but chunks of its own.                        *)
Closed(x, m) == \A j, k \in DOMAIN x :
  x[j].t = "data" /\ x[k].t = "data" /\ j < k => (Same(x[j], m) => Same(x[k], m))

LEMMA Thinned ==
  ASSUME NEW x, NEW y, NEW f,
         \A k \in DOMAIN y : y[k].t = "data" => f[k] \in DOMAIN x /\ x[f[k]] = y[k],
         \A j, k \in DOMAIN y : y[j].t = "data" /\ y[k].t = "data" /\ j < k => f[j] < f[k]
  PROVE  /\ InOrder(x) => InOrder(y)
         /\ Apart(x) => Apart(y)
         /\ \A m : Closed(x, m) => Closed(y, m)
         /\ DataOf(y) \subseteq DataOf(x)
<1>1. InOrder(x) => InOrder(y) BY DEF InOrder
<1>2. ASSUME Apart(x) PROVE Apart(y)
  <2> SUFFICES ASSUME NEW j \in DOMAIN y, NEW k \in DOMAIN y, NEW l \in DOMAIN y,
                      y[j].t = "data", y[k].t = "data", y[l].t = "data", j < k, k < l,
                      Same(y[j], y[l])
               PROVE  Same(y[j], y[k])
    BY DEF Apart
  <2>1. f[j] < f[k] /\ f[k] < f[l] OBVIOUS
  <2> QED BY <1>2, <2>1 DEF Apart
<1>3. ASSUME NEW m, Closed(x, m) PROVE Closed(y, m) BY <1>3 DEF Closed
<1>4. DataOf(y) \subseteq DataOf(x) BY DEF DataOf
<1> QED BY <1>1, <1>2, <1>3, <1>4

(* A chunk that is not data leaves the wire.                               *)
LEMMA LineDrops ==
  ASSUME NEW b \in Seq(Chunks), NEW q \in Seq(Chunks), q # <<>>, Head(q).t # "data"
  PROVE  /\ InOrder(b \o q) => InOrder(b \o Tail(q))
         /\ Apart(b \o q) => Apart(b \o Tail(q))
         /\ \A m : Closed(b \o q, m) => Closed(b \o Tail(q), m)
         /\ DataOf(b \o Tail(q)) = DataOf(b \o q)
<1> DEFINE y == b \o Tail(q)
           x == b \o q
           f == [k \in DOMAIN y |-> IF k \in DOMAIN b THEN k ELSE k + 1]
<1>1. /\ Tail(q) \in Seq(Chunks)
      /\ \A k \in DOMAIN Tail(q) : k + 1 \in DOMAIN q /\ Tail(q)[k] = q[k + 1]
  BY TailFacts
<1>2. /\ y \in Seq(Chunks)
      /\ \A k \in DOMAIN b : k \in DOMAIN y /\ y[k] = b[k]
      /\ \A k \in DOMAIN y \ DOMAIN b :
           k - Len(b) \in DOMAIN Tail(q) /\ y[k] = Tail(q)[k - Len(b)]
  BY <1>1, ConcatFacts
<1>3. /\ x \in Seq(Chunks)
      /\ \A k \in DOMAIN b : k \in DOMAIN x /\ x[k] = b[k]
      /\ \A k \in DOMAIN q : Len(b) + k \in DOMAIN x /\ x[Len(b) + k] = q[k]
  BY ConcatFacts
<1>4. Len(b) \in Nat /\ DOMAIN b = 1..Len(b) /\ DOMAIN y \subseteq Nat \ {0}
  BY <1>2, LenProperties
<1>5. DataOf(y) = DataOf(b) \cup DataOf(Tail(q)) /\ DataOf(x) = DataOf(b) \cup DataOf(q)
  BY ZenonT(60), <1>1, DataMore
<1>6. DataOf(Tail(q)) = DataOf(q) BY DataTail
<1> HIDE DEF x, y
<1>7. ASSUME NEW k \in DOMAIN y PROVE f[k] \in DOMAIN x /\ x[f[k]] = y[k]
  <2>1. CASE k \in DOMAIN b BY <1>2, <1>3, <2>1
  <2>2. CASE k \notin DOMAIN b
    <3>1. k - Len(b) \in DOMAIN Tail(q) /\ y[k] = Tail(q)[k - Len(b)] BY <1>2, <2>2
    <3>2. (k - Len(b)) + 1 \in DOMAIN q /\ y[k] = q[(k - Len(b)) + 1] BY <1>1, <3>1
    <3>3. Len(b) + ((k - Len(b)) + 1) = k + 1 BY <1>4
    <3> QED BY <1>3, <2>2, <3>2, <3>3
  <2> QED BY <2>1, <2>2
<1>8. \A j, k \in DOMAIN y : j < k => f[j] < f[k] BY <1>4
<1> HIDE DEF f
<1>9. /\ InOrder(x) => InOrder(y)
      /\ Apart(x) => Apart(y)
      /\ \A m : Closed(x, m) => Closed(y, m)
  BY <1>7, <1>8, Thinned
<1> QED BY <1>5, <1>6, <1>9 DEF x, y

(* A chunk goes from the wire to the buffer, or the buffer and it are      *)
(* handed over.                                                            *)
LEMMA LineMoves ==
  ASSUME NEW b \in Seq(Chunks), NEW q \in Seq(Chunks), q # <<>>
  PROVE  /\ Append(b, Head(q)) \o Tail(q) = b \o q
         /\ InOrder(b \o q) => InOrder(<<>> \o Tail(q))
         /\ Apart(b \o q) => Apart(<<>> \o Tail(q))
         /\ \A m : Closed(b \o q, m) => Closed(<<>> \o Tail(q), m)
         /\ <<>> \o Tail(q) = Tail(q)
<1>1. /\ Tail(q) \in Seq(Chunks) /\ Head(q) \in Chunks
      /\ \A k \in DOMAIN Tail(q) : k + 1 \in DOMAIN q /\ Tail(q)[k] = q[k + 1]
  BY TailFacts, HeadTailProperties
<1>2. <<>> \o Tail(q) = Tail(q) BY <1>1, ConcatEmptySeq
<1>3. Append(b, Head(q)) = b \o <<Head(q)>> /\ <<Head(q)>> \in Seq(Chunks)
      /\ <<Head(q)>> \o Tail(q) = q
  <2>1. Append(b, Head(q)) = b \o <<Head(q)>> /\ <<Head(q)>> \in Seq(Chunks)
    BY <1>1, OneMore
  <2>2. <<Head(q)>> \o Tail(q) = q OBVIOUS
  <2> QED BY <2>1, <2>2
<1>4. Append(b, Head(q)) \o Tail(q) = b \o q
  <2>1. (b \o <<Head(q)>>) \o Tail(q) = b \o (<<Head(q)>> \o Tail(q))
    BY <1>1, <1>3, ConcatAssociative
  <2> QED BY <1>3, <2>1
<1> DEFINE y == Tail(q)
           x == b \o q
           f == [k \in DOMAIN y |-> Len(b) + (k + 1)]
<1>5. \A k \in DOMAIN q : Len(b) + k \in DOMAIN x /\ x[Len(b) + k] = q[k]
  BY ConcatFacts
<1>6. Len(b) \in Nat /\ DOMAIN y \subseteq Nat \ {0} BY <1>1, LenProperties
<1> HIDE DEF x, y
<1>7. \A k \in DOMAIN y : f[k] \in DOMAIN x /\ x[f[k]] = y[k]
  BY <1>1, <1>5 DEF y
<1>8. \A j, k \in DOMAIN y : j < k => f[j] < f[k] BY <1>6
<1> HIDE DEF f
<1>9. /\ InOrder(x) => InOrder(y)
      /\ Apart(x) => Apart(y)
      /\ \A m : Closed(x, m) => Closed(y, m)
  BY <1>7, <1>8, Thinned
<1> QED BY <1>2, <1>4, <1>9 DEF x, y

(* Chunks that are not data join the wire.                                 *)
LEMMA LineKeeps ==
  ASSUME NEW b \in Seq(Chunks), NEW q \in Seq(Chunks), NEW x \in Seq(Chunks),
         Lacks(x, "data")
  PROVE  /\ InOrder(b \o q) => InOrder(b \o (q \o x))
         /\ Apart(b \o q) => Apart(b \o (q \o x))
         /\ \A m : Closed(b \o q, m) => Closed(b \o (q \o x), m)
         /\ DataOf(b \o (q \o x)) = DataOf(b \o q)
<1> DEFINE u == b \o q
           w == u \o x
<1>1. u \in Seq(Chunks) BY ConcatFacts
<1>2. b \o (q \o x) = w BY SMTT(40), ConcatAssociative
<1> HIDE DEF u
<1>3. /\ \A k \in DOMAIN u : k \in DOMAIN w /\ w[k] = u[k]
      /\ \A k \in DOMAIN w \ DOMAIN u : k - Len(u) \in DOMAIN x /\ w[k] = x[k - Len(u)]
  BY SMTT(40), <1>1, ConcatFacts
<1>4. DataOf(w) = DataOf(u)
  <2>1. DataOf(w) = DataOf(u) \cup DataOf(x) BY <1>1, DataMore
  <2> QED BY <2>1, NoData
<1> HIDE DEF w
<1>5. \A k \in DOMAIN w : w[k].t = "data" => k \in DOMAIN u /\ u[k] = w[k]
  BY <1>3 DEF Lacks
<1> DEFINE f == [k \in DOMAIN w |-> k]
<1>6. \A k \in DOMAIN w : w[k].t = "data" => f[k] \in DOMAIN u /\ u[f[k]] = w[k] BY <1>5
<1>7. \A j, k \in DOMAIN w : j < k => f[j] < f[k] OBVIOUS
<1> HIDE DEF f
<1>8. /\ InOrder(u) => InOrder(w)
      /\ Apart(u) => Apart(w)
      /\ \A m : Closed(u, m) => Closed(w, m)
  BY <1>6, <1>7, Thinned
<1> QED BY <1>2, <1>4, <1>8 DEF u

LEMMA FragmentsAre ==
  ASSUME NEW m \in Messages, NEW from \in Nat, NEW to \in Nat
  PROVE  /\ Fragments(m, from, to) \in Seq(Chunks)
         /\ \A k \in DOMAIN Fragments(m, from, to) :
              /\ k \in Nat /\ (from + k) - 1 \in from..to
              /\ Fragments(m, from, to)[k] = Frag(m, (from + k) - 1)
         /\ \A c : c \in DataOf(Fragments(m, from, to)) <=> \E i \in from..to : c = Frag(m, i)
<1> DEFINE F == Fragments(m, from, to)
<1>1. m.sid \in Sids /\ m.ssn \in Nat /\ m.id \in Nat /\ m.n \in Int BY DEF Messages
<1>2. F \in Seq(DataChunks) /\ \A k \in DOMAIN F : F[k].t = "data"
  <2>1. from \in Nat /\ to \in Int OBVIOUS
  <2> QED BY ONLY <1>1, <2>1, FragmentsType
<1>3. F \in Seq(Chunks) BY <1>2, ChunksMade
<1>4. DOMAIN F = 1..((to + 1) - from) /\ \A k \in DOMAIN F : F[k] = Frag(m, (from + k) - 1)
  BY DEF Fragments, Frag
<1> HIDE DEF F
<1>5. \A k \in DOMAIN F : k \in Nat /\ (from + k) - 1 \in from..to BY <1>4
<1>6. ASSUME NEW i \in from..to PROVE Frag(m, i) \in DataOf(F)
  <2>1. (i + 1) - from \in DOMAIN F /\ (from + ((i + 1) - from)) - 1 = i BY <1>4
  <2>2. F[(i + 1) - from] = Frag(m, i) BY <1>4, <2>1
  <2> QED BY <1>2, <2>1, <2>2 DEF DataOf
<1>7. ASSUME NEW c \in DataOf(F) PROVE \E i \in from..to : c = Frag(m, i)
  <2>1. PICK k \in DOMAIN F : c = F[k] BY DEF DataOf
  <2> QED BY <1>4, <1>5, <2>1
<1> QED BY <1>3, <1>4, <1>5, <1>6, <1>7 DEF F

LEMMA FragFacts ==
  ASSUME NEW m \in Messages, NEW i \in Nat
  PROVE  /\ Frag(m, i) \in DataChunks /\ Frag(m, i).t = "data"
         /\ Frag(m, i).sid = m.sid /\ Frag(m, i).id = m.id /\ Frag(m, i).i = i
         /\ Frag(m, i).ssn = m.ssn /\ (Frag(m, i).eor <=> i = m.n)
<1>1. m.sid \in Sids /\ m.ssn \in Nat /\ m.id \in Nat BY DEF Messages
<1> QED BY <1>1 DEF Frag, DataChunks

(* A message, or the rest of it, joins the line.                           *)
LEMMA LineSends ==
  ASSUME NEW u \in Seq(Chunks), NEW m \in Messages, NEW from \in Nat, NEW to \in Nat,
         InOrder(u), Apart(u), Closed(u, m),
         \A c \in DataOf(u) : c.sid = m.sid => c.id < m.id \/ (c.id = m.id /\ c.i < from)
  PROVE  LET w == u \o Fragments(m, from, to)
         IN  /\ InOrder(w) /\ Apart(w) /\ Closed(w, m)
             /\ DataOf(w) = DataOf(u) \cup DataOf(Fragments(m, from, to))
<1> DEFINE F == Fragments(m, from, to)
           w == u \o F
<1>1. /\ F \in Seq(Chunks)
      /\ \A k \in DOMAIN F : /\ k \in Nat /\ (from + k) - 1 \in Nat /\ (from + k) - 1 >= from
                             /\ F[k] = Frag(m, (from + k) - 1)
  <2>1. /\ F \in Seq(Chunks)
        /\ \A k \in DOMAIN F : /\ k \in Nat /\ (from + k) - 1 \in from..to
                               /\ F[k] = Frag(m, (from + k) - 1)
    BY FragmentsAre
  <2> HIDE DEF F
  <2>2. \A i \in from..to : i \in Nat /\ i >= from OBVIOUS
  <2> QED BY <2>1, <2>2
<1>2. \A k \in DOMAIN F : F[k].sid = m.sid /\ F[k].id = m.id /\ F[k].i = (from + k) - 1
  BY <1>1, FragFacts
<1> HIDE DEF F
<1>3. /\ w \in Seq(Chunks)
      /\ \A k \in DOMAIN u : k \in DOMAIN w /\ w[k] = u[k]
      /\ \A k \in DOMAIN w \ DOMAIN u : k - Len(u) \in DOMAIN F /\ w[k] = F[k - Len(u)]
  BY SMTT(40), <1>1, ConcatFacts
<1>4. Len(u) \in Nat /\ DOMAIN u = 1..Len(u) /\ DOMAIN w \subseteq Nat \ {0}
  BY <1>3, LenProperties
<1>5. DataOf(w) = DataOf(u) \cup DataOf(F) BY <1>1, DataMore
<1> HIDE DEF w
<1>6. \A k \in DOMAIN w \ DOMAIN u :
        /\ Same(w[k], m) /\ w[k].sid = m.sid /\ w[k].id = m.id
        /\ k - Len(u) \in Nat /\ w[k].i = (from + (k - Len(u))) - 1 /\ w[k].i >= from
  BY <1>1, <1>2, <1>3 DEF Same
<1>7. \A j, k \in DOMAIN w : j < k /\ k \in DOMAIN u => j \in DOMAIN u BY <1>4
<1>8. InOrder(w)
  <2> SUFFICES ASSUME NEW j \in DOMAIN w, NEW k \in DOMAIN w, w[j].t = "data",
                      w[k].t = "data", j < k
               PROVE  Earlier(w[j], w[k])
    BY DEF InOrder
  <2>1. CASE k \in DOMAIN u BY <1>3, <1>7, <2>1 DEF InOrder
  <2>2. CASE j \in DOMAIN u /\ k \notin DOMAIN u
    <3>1. w[j] \in DataOf(u) BY <1>3, <2>2 DEF DataOf
    <3>2. w[j] \in DataChunks BY <3>1, DataTypes
    <3>3. w[j].i \in Nat BY <3>2 DEF DataChunks
    <3>4. w[k].i \in Int BY <1>6, <2>2
    <3> QED BY <1>6, <2>2, <3>1, <3>3, <3>4 DEF Earlier
  <2>3. CASE j \notin DOMAIN u /\ k \notin DOMAIN u
    <3>1. w[j].i < w[k].i BY SMTT(40), <1>4, <1>6, <2>3
    <3> QED BY <1>6, <2>3, <3>1 DEF Earlier
  <2> QED BY <1>7, <2>1, <2>2, <2>3
<1>9. Closed(w, m)
  <2> SUFFICES ASSUME NEW j \in DOMAIN w, NEW k \in DOMAIN w, w[j].t = "data",
                      w[k].t = "data", j < k, Same(w[j], m)
               PROVE  Same(w[k], m)
    BY DEF Closed
  <2>1. CASE k \in DOMAIN u BY <1>3, <1>7, <2>1 DEF Closed
  <2>2. CASE k \notin DOMAIN u BY <1>6, <2>2
  <2> QED BY <2>1, <2>2
<1>10. Apart(w)
  <2> SUFFICES ASSUME NEW j \in DOMAIN w, NEW k \in DOMAIN w, NEW l \in DOMAIN w,
                      w[j].t = "data", w[k].t = "data", w[l].t = "data", j < k, k < l,
                      Same(w[j], w[l])
               PROVE  Same(w[j], w[k])
    BY DEF Apart
  <2>1. CASE l \in DOMAIN u
    <3>1. k \in DOMAIN u BY <1>7, <2>1
    <3>2. j \in DOMAIN u BY <1>7, <3>1
    <3> QED BY <1>3, <2>1, <3>1, <3>2 DEF Apart
  <2>2. CASE l \notin DOMAIN u
    <3>1. Same(w[j], m) BY <1>6, <2>2 DEF Same
    <3>2. Same(w[k], m) BY <1>9, <3>1 DEF Closed
    <3> QED BY <3>1, <3>2 DEF Same
  <2> QED BY <2>1, <2>2
<1> QED BY <1>5, <1>8, <1>9, <1>10 DEF w, F

(* What usrsctp_sendv puts on the wire, and what it leaves.                *)
Left(m, to) == IF to = m.n THEN NoMessage ELSE [m |-> m, next |-> to + 1]

LEMMA SendvLine ==
  ASSUME StackAssumption, TransportAssumption, StackTypeOK, NEW m \in Messages,
         NEW from \in 1..m.n, Room("client", wire["client"]) > 0
  PROVE  \E to \in from..m.n :
           /\ Sendv(m, from).wire = wire["client"] \o Fragments(m, from, to)
           /\ Sendv(m, from).partial = Left(m, to)
<1> DEFINE q == wire["client"]
           room == Room("client", q)
           to == IF (m.n + 1) - from <= room THEN m.n ELSE (from + room) - 1
<1>1. q \in Seq(Chunks) BY DEF StackTypeOK, Ends
<1>2. room \in Int /\ room > 0 BY <1>1, RoomType DEF Ends
<1>3. m.n \in Nat BY DEF Messages
<1>4. to \in from..m.n BY <1>2, <1>3
<1>5. Sendv(m, from) = [wire |-> q \o Fragments(m, from, to), partial |-> Left(m, to)]
  BY DEF Sendv, Left
<1> HIDE DEF to
<1>6. /\ Sendv(m, from).wire = q \o Fragments(m, from, to)
      /\ Sendv(m, from).partial = Left(m, to)
  BY <1>5
<1> QED BY <1>4, <1>6

Line == messageBuffer \o wire["client"]

(* A chunk of a message that was accepted and not yet handed over, and     *)
(* that is not of the rest that still waits for the stack.                 *)
Waits(c) == partial_outgoing_message_ # NoMessage /\ Same(c, partial_outgoing_message_.m)

Owed(c) ==
  /\ c \in DataChunks
  /\ c.id > Len(delivered[c.sid]) /\ c.id <= Len(sent[c.sid])
  /\ c.i \in 1..sent[c.sid][c.id].n
  /\ c = Frag(sent[c.sid][c.id], c.i)
  /\ Waits(c) => c.i < partial_outgoing_message_.next

(* Nothing is lost and nothing is made up.                                 *)
Exact == \A c : c \in DataOf(Line) <=> Owed(c)

Accepted == \A s \in Sids : \A k \in DOMAIN sent[s] : sent[s][k].sid = s /\ sent[s][k].id = k

HandedOver == \A s \in Sids :
  /\ Len(delivered[s]) <= Len(sent[s])
  /\ \A k \in DOMAIN delivered[s] :
       Reassembled(s, delivered[s][k]) = [id |-> k, n |-> sent[s][k].n]

RestIsLast ==
  partial_outgoing_message_ # NoMessage =>
    LET m == partial_outgoing_message_.m
    IN  /\ Len(sent[m.sid]) > Len(delivered[m.sid]) /\ m = sent[m.sid][Len(sent[m.sid])]
        /\ partial_outgoing_message_.next \in 2..m.n
        /\ Closed(Line, m)

(* What the server keeps is the beginning of the next message of a stream. *)
Begun(m) ==
  /\ Len(messageBuffer) < m.n
  /\ \A k \in DOMAIN messageBuffer : messageBuffer[k] = Frag(m, k)
  /\ lastSsnReceived = m.ssn

BufferBegins ==
  messageBuffer # <<>> =>
    \E s \in Sids : /\ Len(delivered[s]) < Len(sent[s])
                    /\ Begun(sent[s][Len(delivered[s]) + 1])

Conserved == Exact /\ InOrder(Line) /\ Apart(Line) /\ RestIsLast /\ BufferBegins

LEMMA LineType ==
  ASSUME StackTypeOK, ServerTypeOK
  PROVE  /\ messageBuffer \in Seq(DataChunks) /\ messageBuffer \in Seq(Chunks)
         /\ wire["client"] \in Seq(Chunks) /\ Line \in Seq(Chunks)
<1>1. messageBuffer \in Seq(DataChunks) /\ wire["client"] \in Seq(Chunks)
  BY DEF StackTypeOK, ServerTypeOK, Ends
<1>2. messageBuffer \in Seq(Chunks) BY <1>1, ChunksMade
<1> QED BY <1>1, <1>2, ConcatFacts DEF Line

LEMMA SentType ==
  ASSUME ClientTypeOK, ServerTypeOK, Accepted, NEW s \in Sids
  PROVE  /\ sent[s] \in Seq(Messages) /\ delivered[s] \in Seq(Seq(DataChunks))
         /\ Len(sent[s]) \in Nat /\ DOMAIN sent[s] = 1..Len(sent[s])
         /\ Len(delivered[s]) \in Nat /\ DOMAIN delivered[s] = 1..Len(delivered[s])
         /\ \A k \in 1..Len(sent[s]) :
              /\ sent[s][k] \in Messages /\ sent[s][k].sid = s /\ sent[s][k].id = k
              /\ sent[s][k].n \in 1..MaxFragments
<1>1. sent[s] \in Seq(Messages) /\ delivered[s] \in Seq(Seq(DataChunks))
  BY DEF ClientTypeOK, ServerTypeOK
<1>2. /\ Len(sent[s]) \in Nat /\ DOMAIN sent[s] = 1..Len(sent[s])
      /\ Len(delivered[s]) \in Nat /\ DOMAIN delivered[s] = 1..Len(delivered[s])
  BY <1>1, LenProperties
<1>3. \A k \in 1..Len(sent[s]) : sent[s][k] \in Messages BY <1>1, <1>2
<1>4. \A k \in 1..Len(sent[s]) : sent[s][k].n \in 1..MaxFragments
  BY <1>3 DEF Messages
<1> QED BY <1>1, <1>2, <1>3, <1>4 DEF Accepted

(* The first fragments are owed once the message is accepted.              *)
LEMMA OwedMade ==
  ASSUME ClientTypeOK, ServerTypeOK, Accepted, NEW s \in Sids, NEW k \in Nat,
         k > Len(delivered[s]), k <= Len(sent[s]), NEW i \in 1..sent[s][k].n,
         partial_outgoing_message_ # NoMessage
           /\ partial_outgoing_message_.m.sid = s /\ partial_outgoing_message_.m.id = k
             => i < partial_outgoing_message_.next
  PROVE  Owed(Frag(sent[s][k], i))
<1>1. Len(delivered[s]) \in Nat /\ Len(sent[s]) \in Nat BY SentType
<1>2. k \in 1..Len(sent[s]) BY <1>1
<1>3. sent[s][k] \in Messages /\ sent[s][k].sid = s /\ sent[s][k].id = k
      /\ sent[s][k].n \in 1..MaxFragments
  BY <1>2, SentType
<1>4. i \in Nat BY <1>3
<1>5. /\ Frag(sent[s][k], i) \in DataChunks
      /\ Frag(sent[s][k], i).sid = s /\ Frag(sent[s][k], i).id = k
      /\ Frag(sent[s][k], i).i = i
  BY <1>3, <1>4, FragFacts
<1> QED BY <1>5 DEF Owed, Waits, Same

(* The positions of the line.                                              *)
LEMMA LinePlaces ==
  ASSUME NEW b \in Seq(DataChunks), b \in Seq(Chunks), NEW q \in Seq(Chunks), q # <<>>
  PROVE  /\ Len(b) \in Nat /\ DOMAIN b = 1..Len(b)
         /\ \A k \in DOMAIN b : k \in DOMAIN (b \o q) /\ (b \o q)[k] = b[k] /\ b[k].t = "data"
         /\ Len(b) + 1 \in DOMAIN (b \o q) /\ (b \o q)[Len(b) + 1] = Head(q)
         /\ DOMAIN (b \o q) \subseteq Nat \ {0}
<1> DEFINE x == b \o q
<1>1. Len(b) \in Nat /\ DOMAIN b = 1..Len(b) BY LenProperties
<1>2. /\ x \in Seq(Chunks)
      /\ \A k \in DOMAIN b : k \in DOMAIN x /\ x[k] = b[k]
      /\ \A k \in DOMAIN q : Len(b) + k \in DOMAIN x /\ x[Len(b) + k] = q[k]
  BY ConcatFacts
<1> HIDE DEF x
<1>3. 1 \in DOMAIN q /\ Head(q) = q[1] BY TailFacts
<1>4. \A k \in DOMAIN b : b[k].t = "data"
  <2>1. \A k \in DOMAIN b : b[k] \in DataChunks OBVIOUS
  <2> QED BY <2>1 DEF DataChunks
<1>5. DOMAIN x \subseteq Nat \ {0} BY <1>2, LenProperties
<1> QED BY <1>1, <1>2, <1>3, <1>4, <1>5 DEF x

(* Every chunk on its way is of a message accepted.                        *)
LEMMA OwedFacts ==
  ASSUME ClientTypeOK, ServerTypeOK, Accepted, NEW c, Owed(c)
  PROVE  /\ c \in DataChunks /\ c.sid \in Sids /\ c.id \in Nat /\ c.i \in Nat
         /\ c.id \in 1..Len(sent[c.sid]) /\ sent[c.sid][c.id] \in Messages
         /\ sent[c.sid][c.id].sid = c.sid /\ sent[c.sid][c.id].id = c.id
         /\ sent[c.sid][c.id].n \in Nat
<1>1. c \in DataChunks BY DEF Owed
<1>2. c.sid \in Sids /\ c.id \in Nat /\ c.i \in Nat BY <1>1 DEF DataChunks
<1>3. c.id > Len(delivered[c.sid]) /\ c.id <= Len(sent[c.sid]) BY DEF Owed
<1>4. Len(delivered[c.sid]) \in Nat /\ Len(sent[c.sid]) \in Nat BY <1>2, SentType
<1>5. c.id \in 1..Len(sent[c.sid]) BY <1>2, <1>3, <1>4
<1>6. /\ sent[c.sid][c.id] \in Messages /\ sent[c.sid][c.id].sid = c.sid
      /\ sent[c.sid][c.id].id = c.id /\ sent[c.sid][c.id].n \in 1..MaxFragments
  BY <1>2, <1>5, SentType
<1> QED BY <1>1, <1>2, <1>5, <1>6

(* With nothing kept, the first chunk on the wire begins the next message  *)
(* of its stream.                                                          *)
LEMMA HeadBegins ==
  ASSUME StackTypeOK, ClientTypeOK, ServerTypeOK, Accepted, Conserved, messageBuffer = <<>>,
         wire["client"] # <<>>, Head(wire["client"]).t = "data",
         NEW c, c = Head(wire["client"])
  PROVE  Owed(c) /\ c.id = Len(delivered[c.sid]) + 1 /\ c.i = 1
<1> DEFINE x == Line
<1>1. /\ messageBuffer \in Seq(DataChunks) /\ messageBuffer \in Seq(Chunks)
      /\ wire["client"] \in Seq(Chunks)
  BY LineType
<1>2. Len(messageBuffer) = 0 BY <1>1, EmptySeq
<1>3. 1 \in DOMAIN x /\ x[1] = c /\ DOMAIN x \subseteq Nat \ {0}
  <2>1. Len(messageBuffer) + 1 \in DOMAIN x /\ x[Len(messageBuffer) + 1] = Head(wire["client"])
        /\ DOMAIN x \subseteq Nat \ {0}
    BY <1>1, LinePlaces DEF Line
  <2> HIDE DEF x
  <2> QED BY <1>2, <2>1
<1> HIDE DEF x
<1>4. c \in DataOf(x) BY <1>3 DEF DataOf
<1>5. Owed(c) BY SMTT(40), <1>4 DEF Conserved, Exact, x
<1>6. /\ c.sid \in Sids /\ c.id \in Nat /\ c.i \in Nat /\ c.id \in 1..Len(sent[c.sid])
      /\ c.id > Len(delivered[c.sid]) /\ c.i \in 1..sent[c.sid][c.id].n
  BY <1>5, OwedFacts DEF Owed
<1> DEFINE s == c.sid
           k == Len(delivered[s]) + 1
           e == Frag(sent[s][k], 1)
<1>7. Len(delivered[s]) \in Nat /\ Len(sent[s]) \in Nat BY <1>6, SentType
<1>8. k \in Nat /\ k > Len(delivered[s]) /\ k <= Len(sent[s]) /\ k \in 1..Len(sent[s])
      /\ k <= c.id
  <2>1. \A d, l, i \in Nat : i > d /\ i \in 1..l =>
          d + 1 \in Nat /\ d + 1 > d /\ d + 1 <= l /\ d + 1 \in 1..l /\ d + 1 <= i
    OBVIOUS
  <2> HIDE DEF s
  <2> QED BY <1>6, <1>7, <2>1 DEF s
<1>9. /\ sent[s][k] \in Messages /\ sent[s][k].sid = s /\ sent[s][k].id = k
      /\ 1 \in 1..sent[s][k].n
  <2>1. \A z \in Sids : \A j \in 1..Len(sent[z]) :
          /\ sent[z][j] \in Messages /\ sent[z][j].sid = z /\ sent[z][j].id = j
          /\ sent[z][j].n \in 1..MaxFragments
    BY SentType
  <2>2. s \in Sids BY <1>6
  <2>3. \A n \in 1..MaxFragments : 1 \in 1..n OBVIOUS
  <2>4. k \in 1..Len(sent[s]) BY SMTT(40), <1>8
  <2> HIDE DEF k, s
  <2> QED BY <2>1, <2>2, <2>3, <2>4
<1>10. e.sid = s /\ e.id = k /\ e.i = 1 /\ e.t = "data" BY <1>9, FragFacts
<1>11. Owed(e)
  <2>1. partial_outgoing_message_ # NoMessage => 1 < partial_outgoing_message_.next
    BY DEF Conserved, RestIsLast
  <2> HIDE DEF k, s
  <2> QED BY <1>6, <1>8, <1>9, <2>1, OwedMade DEF s
<1> HIDE DEF e, k, s
<1>12. PICK p \in DOMAIN x : x[p] = e
  <2>1. e \in DataOf(x) BY <1>11 DEF Conserved, Exact, x
  <2> QED BY <2>1 DEF DataOf
<1>13. p = 1
  <2> SUFFICES ASSUME p # 1 PROVE FALSE OBVIOUS
  <2>1. 1 < p BY <1>3, <1>12
  <2>2. InOrder(x) /\ x[1].t = "data" /\ x[p].t = "data" BY <1>3, <1>10, <1>12 DEF Conserved, x
  <2>3. Earlier(c, e) BY <1>3, <1>12, <2>1, <2>2 DEF InOrder
  <2>4. c.id < k \/ (c.id = k /\ c.i < 1) BY <1>10, <2>3 DEF Earlier, s
  <2> QED BY <1>6, <1>8, <2>4
<1> QED BY <1>3, <1>5, <1>10, <1>12, <1>13 DEF k, s

(* Otherwise it is the next chunk of what is kept.                         *)
LEMMA HeadContinues ==
  ASSUME StackTypeOK, ClientTypeOK, ServerTypeOK, Accepted, Conserved, messageBuffer # <<>>,
         wire["client"] # <<>>, Head(wire["client"]).t = "data",
         NEW c, c = Head(wire["client"]), NEW s \in Sids,
         Len(delivered[s]) < Len(sent[s]), NEW m, m = sent[s][Len(delivered[s]) + 1], Begun(m)
  PROVE  Owed(c) /\ c.sid = s /\ c.id = Len(delivered[s]) + 1 /\ c.i = Len(messageBuffer) + 1
<1> DEFINE x == Line
           b == messageBuffer
           N == Len(b)
           k == Len(delivered[s]) + 1
           part == partial_outgoing_message_
<1>1. b \in Seq(DataChunks) /\ b \in Seq(Chunks) /\ wire["client"] \in Seq(Chunks)
  BY LineType
<1>2. /\ N \in Nat /\ DOMAIN b = 1..N
      /\ \A j \in DOMAIN b : j \in DOMAIN x /\ x[j] = b[j] /\ x[j].t = "data"
      /\ N + 1 \in DOMAIN x /\ x[N + 1] = c
      /\ DOMAIN x \subseteq Nat \ {0}
  <2>1. x = b \o wire["client"] BY DEF Line
  <2>2. wire["client"] # <<>> /\ c = Head(wire["client"]) OBVIOUS
  <2> DEFINE q == wire["client"]
  <2> HIDE DEF x, b, N, q
  <2>3. /\ Len(b) \in Nat /\ DOMAIN b = 1..Len(b)
        /\ \A j \in DOMAIN b : j \in DOMAIN (b \o q) /\ (b \o q)[j] = b[j] /\ b[j].t = "data"
        /\ Len(b) + 1 \in DOMAIN (b \o q) /\ (b \o q)[Len(b) + 1] = Head(q)
        /\ DOMAIN (b \o q) \subseteq Nat \ {0}
    <3>1. b \in Seq(DataChunks) /\ b \in Seq(Chunks) /\ q \in Seq(Chunks) /\ q # <<>>
      BY <1>1, <2>2 DEF q
    <3> QED BY ONLY <3>1, LinePlaces
  <2>4. x = b \o q /\ c = Head(q) BY <2>1, <2>2 DEF q
  <2> QED BY <2>3, <2>4 DEF N
<1>3. N > 0 BY <1>1, EmptySeq
<1>4. Len(delivered[s]) \in Nat /\ Len(sent[s]) \in Nat BY SentType
<1>5. k \in Nat /\ k > Len(delivered[s]) /\ k <= Len(sent[s]) /\ k \in 1..Len(sent[s]) BY <1>4
<1>6. m \in Messages /\ m.sid = s /\ m.id = k /\ m.n \in Nat
  <2>1. sent[s][k] \in Messages /\ sent[s][k].sid = s /\ sent[s][k].id = k
        /\ sent[s][k].n \in 1..MaxFragments
    BY <1>5, SentType
  <2> QED BY <2>1
<1>7. N < m.n /\ \A j \in 1..N : b[j] = Frag(m, j) BY <1>2 DEF Begun
<1> HIDE DEF x, b, N, k
<1>8. \A j \in 1..N : /\ j \in DOMAIN x /\ x[j].t = "data"
                      /\ x[j].sid = s /\ x[j].id = k /\ x[j].i = j
  <2> TAKE j \in 1..N
  <2>1. j \in Nat /\ j \in DOMAIN b BY <1>2
  <2>2. x[j] = Frag(m, j) BY <1>2, <1>7, <2>1
  <2>3. Frag(m, j).sid = m.sid /\ Frag(m, j).id = m.id /\ Frag(m, j).i = j
    BY <1>6, <2>1, FragFacts
  <2> QED BY <1>2, <1>6, <2>1, <2>2, <2>3
<1>9. c \in DataOf(x) BY <1>2 DEF DataOf
<1>10. Owed(c) BY <1>9 DEF Conserved, Exact, x
<1>11. /\ c.sid \in Sids /\ c.id \in Nat /\ c.i \in Nat BY <1>10, OwedFacts
<1>12. InOrder(x) /\ Apart(x) BY DEF Conserved, x
<1>13. N \in 1..N /\ 1 \in 1..N /\ N < N + 1 /\ 1 < N + 1 BY <1>2, <1>3
<1>14. c.sid = s /\ c.id = k => c.i > N
  <2>1. Earlier(x[N], c) BY <1>2, <1>8, <1>12, <1>13 DEF InOrder
  <2> QED BY <1>8, <1>11, <1>13, <2>1, <1>5 DEF Earlier
<1>15. CASE part # NoMessage /\ part.m.sid = s /\ part.m.id = k /\ ~(N + 1 < part.next)
  <2>1. x[N] \in DataOf(x) BY <1>8, <1>13 DEF DataOf
  <2>2. Owed(x[N]) BY <2>1 DEF Conserved, Exact, x
  <2>3. N < part.next BY <1>8, <1>13, <1>15, <2>2 DEF Owed, Waits, Same
  <2>4. Closed(x, part.m) /\ part.next \in Int BY <1>15 DEF Conserved, RestIsLast, x
  <2>5. part.next = N + 1 BY <1>2, <1>15, <2>3, <2>4
  <2>6. Same(x[1], part.m) BY <1>8, <1>13, <1>15 DEF Same
  <2>7. Same(c, part.m) BY <1>2, <1>8, <1>13, <2>4, <2>6 DEF Closed
  <2>8. c.i < N + 1 BY <1>10, <1>15, <2>5, <2>7 DEF Owed, Waits
  <2>9. c.i > N BY <1>14, <1>15, <2>7 DEF Same
  <2> QED BY <1>2, <1>11, <2>8, <2>9
<1>16. CASE part # NoMessage /\ part.m.sid = s /\ part.m.id = k => N + 1 < part.next
  <2> DEFINE e == Frag(m, N + 1)
  <2>1. N + 1 \in Nat /\ N + 1 \in 1..m.n BY <1>2, <1>6, <1>7
  <2>2. e.sid = s /\ e.id = k /\ e.i = N + 1 /\ e.t = "data" BY <1>6, <2>1, FragFacts
  <2>3. Owed(e)
    <3>1. m = sent[s][k] BY DEF k
    <3> QED BY <1>5, <1>16, <2>1, <3>1, OwedMade
  <2> HIDE DEF e
  <2>4. PICK p \in DOMAIN x : x[p] = e
    <3>1. e \in DataOf(x) BY <2>3 DEF Conserved, Exact, x
    <3> QED BY <3>1 DEF DataOf
  <2>5. p = N + 1
    <3> SUFFICES ASSUME p # N + 1 PROVE FALSE OBVIOUS
    <3>1. p \notin 1..N
      <4> SUFFICES ASSUME p \in 1..N PROVE FALSE OBVIOUS
      <4>1. N + 1 = p BY <1>8, <2>2, <2>4
      <4> QED BY <1>2, <4>1
    <3>2. N + 1 < p BY <1>2, <2>4, <3>1
    <3>3. Same(x[1], x[p]) BY <1>8, <1>13, <2>2, <2>4 DEF Same
    <3>4. Same(x[1], c)
      <4>1. x[1].t = "data" /\ x[N + 1].t = "data" /\ x[p].t = "data"
        BY <1>2, <1>8, <1>13, <2>2, <2>4
      <4> QED BY <1>2, <1>8, <1>12, <1>13, <2>4, <3>2, <3>3, <4>1 DEF Apart
    <3>5. c.sid = s /\ c.id = k BY <1>8, <1>13, <3>4 DEF Same
    <3>6. Earlier(c, e)
      <4>1. x[N + 1].t = "data" /\ x[p].t = "data" BY <1>2, <2>2, <2>4
      <4> QED BY <1>2, <1>12, <2>4, <3>2, <4>1 DEF InOrder
    <3>7. c.i < N + 1 BY <1>5, <2>2, <3>5, <3>6 DEF Earlier
    <3> QED BY <1>2, <1>11, <1>14, <3>5, <3>7
  <2> QED BY <1>2, <1>10, <2>2, <2>4, <2>5 DEF k, N, b
<1> QED BY <1>15, <1>16

LEMMA HeadIsNext ==
  ASSUME StackTypeOK, ClientTypeOK, ServerTypeOK, Accepted, Conserved,
         wire["client"] # <<>>, Head(wire["client"]).t = "data",
         NEW c, c = Head(wire["client"])
  PROVE  /\ Owed(c) /\ c.id = Len(delivered[c.sid]) + 1 /\ c.i = Len(messageBuffer) + 1
         /\ \A k \in DOMAIN messageBuffer : messageBuffer[k] = Frag(sent[c.sid][c.id], k)
         /\ messageBuffer # <<>> => lastSsnReceived = c.ssn
<1>1. messageBuffer \in Seq(DataChunks) BY LineType
<1>2. CASE messageBuffer = <<>>
  <2>1. Owed(c) /\ c.id = Len(delivered[c.sid]) + 1 /\ c.i = 1 BY <1>2, HeadBegins
  <2>2. Len(messageBuffer) = 0 BY <1>2, EmptySeq
  <2>3. DOMAIN messageBuffer = {} BY SMTT(40), <1>2
  <2> QED BY <1>2, <2>1, <2>2, <2>3
<1>3. CASE messageBuffer # <<>>
  <2>1. PICK s \in Sids : /\ Len(delivered[s]) < Len(sent[s])
                          /\ Begun(sent[s][Len(delivered[s]) + 1])
    BY <1>3 DEF Conserved, BufferBegins
  <2>2. /\ Owed(c) /\ c.sid = s /\ c.id = Len(delivered[s]) + 1
        /\ c.i = Len(messageBuffer) + 1
    BY <1>3, <2>1, HeadContinues
  <2>3. c.ssn = sent[c.sid][c.id].ssn BY SMTT(40), <2>2 DEF Owed, Frag
  <2> QED BY <2>1, <2>2, <2>3 DEF Begun
<1> QED BY <1>2, <1>3

(* The callback neither empties its buffer nor gives up the message.       *)
LEMMA OnDataNext ==
  ASSUME StackTypeOK, ClientTypeOK, ServerTypeOK, Accepted, Conserved,
         TransportAssumption, AssociationAssumption, MaxFragments <= MaxMessage,
         wire["client"] # <<>>, Head(wire["client"]).t = "data",
         NEW c, c = Head(wire["client"]), OnData(c)
  PROVE  /\ lastSsnReceived' = c.ssn
         /\ c.eor => /\ delivered' = [delivered EXCEPT ![c.sid] = Append(@, Append(messageBuffer, c))]
                     /\ messageBuffer' = <<>>
         /\ ~c.eor => messageBuffer' = Append(messageBuffer, c) /\ delivered' = delivered
<1>1. Owed(c) /\ c.i = Len(messageBuffer) + 1
      /\ (messageBuffer # <<>> => lastSsnReceived = c.ssn)
  BY HeadIsNext
<1>2. c.i \in 1..sent[c.sid][c.id].n /\ c.sid \in Sids /\ c.id \in 1..Len(sent[c.sid])
  BY <1>1, OwedFacts DEF Owed
<1>3. sent[c.sid][c.id].n \in 1..MaxFragments BY SMTT(40), <1>2, SentType
<1>4. MaxFragments \in Nat /\ MaxMessage \in Nat
  BY DEF TransportAssumption, AssociationAssumption
<1>5. ~(Len(messageBuffer) + 1 > MaxMessage) BY SMTT(40), <1>1, <1>2, <1>3, <1>4
<1> DEFINE kept == IF messageBuffer # <<>> /\ c.ssn # lastSsnReceived
                   THEN <<>> ELSE messageBuffer
<1>6. kept = messageBuffer BY <1>1
<1> QED BY SMTT(40), <1>5, <1>6 DEF OnData

(* A chunk that does not end its message.                                  *)
LEMMA DataIsKept ==
  ASSUME StackTypeOK, ClientTypeOK, ServerTypeOK, Accepted, Conserved,
         TransportAssumption, AssociationAssumption, MaxFragments <= MaxMessage,
         wire["client"] # <<>>, Head(wire["client"]).t = "data",
         NEW c, c = Head(wire["client"]), OnData(c), ~c.eor,
         wire'["client"] = Tail(wire["client"]),
         UNCHANGED <<sent, partial_outgoing_message_>>
  PROVE  Conserved' /\ delivered' = delivered
<1>1. /\ lastSsnReceived' = c.ssn /\ messageBuffer' = Append(messageBuffer, c)
      /\ delivered' = delivered
  BY OnDataNext
<1>2. messageBuffer \in Seq(DataChunks) /\ messageBuffer \in Seq(Chunks)
      /\ wire["client"] \in Seq(Chunks)
  BY LineType
<1>3. Line' = Line
  <2>1. Append(messageBuffer, Head(wire["client"])) \o Tail(wire["client"])
          = messageBuffer \o wire["client"]
    BY <1>2, LineMoves
  <2> QED BY <1>1, <2>1 DEF Line
<1>4. \A d : Owed(d)' <=> Owed(d) BY <1>1 DEF Owed, Waits
<1>5. Exact' BY <1>3, <1>4 DEF Conserved, Exact
<1>6. InOrder(Line)' /\ Apart(Line)' /\ RestIsLast'
  BY <1>1, <1>3 DEF Conserved, RestIsLast, InOrder, Apart, Closed
<1>7. BufferBegins'
  <2> DEFINE s == c.sid
  <2>0. PICK m : m = sent[s][Len(delivered[s]) + 1] OBVIOUS
  <2>1. /\ Owed(c) /\ c.id = Len(delivered[c.sid]) + 1 /\ c.i = Len(messageBuffer) + 1
        /\ \A k \in DOMAIN messageBuffer : messageBuffer[k] = Frag(sent[c.sid][c.id], k)
    BY HeadIsNext
  <2>2. /\ s \in Sids /\ c.id \in Nat /\ c.i \in Nat /\ c.id \in 1..Len(sent[s])
        /\ sent[s][c.id] \in Messages /\ sent[s][c.id].n \in Nat
    BY <2>1, OwedFacts
  <2>3. Len(delivered[s]) \in Nat /\ Len(sent[s]) \in Nat BY SMTT(40), <2>2, SentType
  <2>4. m \in Messages /\ m = sent[s][c.id] /\ m.n \in Nat /\ c = Frag(m, c.i)
        /\ c.i \in 1..m.n
    BY <2>0, <2>1, <2>2 DEF Owed
  <2>5. Len(delivered[s]) < Len(sent[s])
    <3>1. c.id <= Len(sent[s]) BY <2>1 DEF Owed
    <3>2. \A d, l, i \in Nat : i = d + 1 /\ i <= l => d < l OBVIOUS
    <3> HIDE DEF s
    <3> QED BY SMTT(40), <2>1, <2>2, <2>3, <3>1, <3>2 DEF s
  <2> HIDE DEF s
  <2>6. c.i # m.n BY <2>2, <2>4, FragFacts
  <2>7. /\ Append(messageBuffer, c)[Len(messageBuffer) + 1] = c
        /\ \A k \in DOMAIN messageBuffer : Append(messageBuffer, c)[k] = messageBuffer[k]
        /\ \A k \in DOMAIN Append(messageBuffer, c) :
             k \in DOMAIN messageBuffer \/ k = Len(messageBuffer) + 1
        /\ Len(Append(messageBuffer, c)) = Len(messageBuffer) + 1
    <3>1. c \in DataChunks BY <2>1 DEF Owed
    <3> QED BY <1>2, <3>1, AppendFacts, AppendProperties
  <2>8. Len(messageBuffer') < m.n
    <3>1. Len(messageBuffer') = c.i BY SMTT(40), <1>1, <2>1, <2>7
    <3> QED BY <2>4, <2>6, <3>1
  <2>9. \A k \in DOMAIN messageBuffer' : messageBuffer'[k] = Frag(m, k)
    BY <1>1, <2>1, <2>4, <2>7 DEF s
  <2>10. lastSsnReceived' = m.ssn BY <1>1, <2>2, <2>4, FragFacts
  <2>11. Begun(m)' BY <2>8, <2>9, <2>10 DEF Begun
  <2> QED BY <1>1, <2>2, <2>0, <2>5, <2>11 DEF BufferBegins
<1> QED BY <1>1, <1>5, <1>6, <1>7 DEF Conserved

(* All fragments of a message, in order, are that message.                 *)
LEMMA WholeIs ==
  ASSUME NEW m \in Messages, NEW x, x \in Seq(DataChunks), Len(x) = m.n,
         \A k \in DOMAIN x : x[k] = Frag(m, k)
  PROVE  Reassembled(m.sid, x) = [id |-> m.id, n |-> m.n]
<1>1. DOMAIN x = 1..m.n /\ m.n \in Nat \ {0} BY LenProperties DEF Messages
<1>2. \A k \in DOMAIN x : /\ x[k].sid = m.sid /\ x[k].id = m.id /\ x[k].i = k
                          /\ x[k].eor = (k = Len(x))
  <2> TAKE k \in DOMAIN x
  <2>1. k \in Nat /\ x[k] = Frag(m, k) BY <1>1
  <2>2. Frag(m, k).sid = m.sid /\ Frag(m, k).id = m.id /\ Frag(m, k).i = k
        /\ Frag(m, k).eor = (k = m.n)
    BY DEF Frag
  <2> QED BY <2>1, <2>2
<1>3. x[1].id = m.id BY <1>1, <1>2
<1> QED BY <1>2, <1>3 DEF Reassembled

(* What comes behind the first chunk of the wire is later.                 *)
LEMMA LaterOnes ==
  ASSUME NEW b \in Seq(Chunks), NEW q \in Seq(Chunks), q # <<>>, Head(q).t = "data",
         InOrder(b \o q), NEW e \in DataOf(Tail(q))
  PROVE  Earlier(Head(q), e)
<1>1. /\ Head(q) = q[1] /\ 1 \in DOMAIN q
      /\ \A k \in DOMAIN Tail(q) : k + 1 \in DOMAIN q /\ Tail(q)[k] = q[k + 1]
      /\ Tail(q) \in Seq(Chunks)
  BY TailFacts
<1>2. PICK k \in DOMAIN Tail(q) : e = Tail(q)[k] /\ Tail(q)[k].t = "data" BY DEF DataOf
<1>3. k \in Nat \ {0} /\ Len(b) \in Nat
  <2>1. DOMAIN Tail(q) \subseteq Nat \ {0} BY <1>1, LenProperties
  <2> QED BY <1>2, <2>1, LenProperties
<1>4. \A j \in DOMAIN q : Len(b) + j \in DOMAIN (b \o q) /\ (b \o q)[Len(b) + j] = q[j]
  BY ConcatFacts
<1> DEFINE x == b \o q
<1> HIDE DEF x
<1>5. /\ Len(b) + 1 \in DOMAIN x /\ x[Len(b) + 1] = Head(q)
      /\ Len(b) + (k + 1) \in DOMAIN x /\ x[Len(b) + (k + 1)] = e
  BY SMTT(40), <1>1, <1>2, <1>4 DEF x
<1>6. Len(b) + 1 < Len(b) + (k + 1) BY <1>3
<1>7. InOrder(x) BY DEF x
<1> QED BY <1>2, <1>5, <1>6, <1>7 DEF InOrder

(* The chunk that ends its message.                                        *)
LEMMA DataIsHandedOver ==
  ASSUME StackTypeOK, ClientTypeOK, ServerTypeOK, Accepted, HandedOver, Conserved,
         TransportAssumption, AssociationAssumption, MaxFragments <= MaxMessage,
         wire["client"] # <<>>, Head(wire["client"]).t = "data",
         NEW c, c = Head(wire["client"]), OnData(c), c.eor,
         wire'["client"] = Tail(wire["client"]),
         UNCHANGED <<sent, partial_outgoing_message_>>
  PROVE  /\ Conserved' /\ HandedOver'
         /\ c.sid \in Sids /\ Len(delivered[c.sid]) < Len(sent[c.sid])
         /\ \E w : /\ delivered' = [delivered EXCEPT ![c.sid] = Append(@, w)]
                   /\ Reassembled(c.sid, w) = [id |-> Len(delivered[c.sid]) + 1,
                                               n |-> sent[c.sid][Len(delivered[c.sid]) + 1].n]
<1> DEFINE s == c.sid
           w == Append(messageBuffer, c)
           q == wire["client"]
<1>0. PICK m, D, L : m = sent[s][D + 1] /\ D = Len(delivered[s]) /\ L = Len(sent[s]) OBVIOUS
<1>1. /\ delivered' = [delivered EXCEPT ![s] = Append(@, w)]
      /\ messageBuffer' = <<>>
  BY OnDataNext
<1>2. messageBuffer \in Seq(DataChunks) /\ messageBuffer \in Seq(Chunks) /\ q \in Seq(Chunks)
  BY LineType
<1>3. /\ Owed(c) /\ c.id = D + 1 /\ c.i = Len(messageBuffer) + 1
      /\ \A k \in DOMAIN messageBuffer : messageBuffer[k] = Frag(sent[c.sid][c.id], k)
  BY <1>0, HeadIsNext
<1>4. /\ s \in Sids /\ c.id \in Nat /\ c.i \in Nat /\ c.id \in 1..L /\ c \in DataChunks
      /\ m \in Messages /\ m.n \in Nat /\ m.sid = s /\ m.id = c.id
  <2>1. /\ c \in DataChunks /\ c.sid \in Sids /\ c.id \in Nat /\ c.i \in Nat
        /\ c.id \in 1..Len(sent[c.sid]) /\ sent[c.sid][c.id] \in Messages
        /\ sent[c.sid][c.id].sid = c.sid /\ sent[c.sid][c.id].id = c.id
        /\ sent[c.sid][c.id].n \in Nat
    BY <1>3, OwedFacts
  <2>2. m = sent[c.sid][c.id] BY <1>0, <1>3
  <2> QED BY <1>0, <2>1, <2>2
<1>5. D \in Nat /\ L \in Nat BY <1>0, <1>4, SentType
<1>6. D < L BY <1>3, <1>4, <1>5
<1>7. c = Frag(m, c.i) /\ c.i = m.n
  <2>1. c = Frag(m, c.i) BY <1>0, <1>3 DEF Owed
  <2> QED BY SMTT(40), <1>4, <2>1, FragFacts
<1>8. /\ w \in Seq(DataChunks) /\ w[Len(messageBuffer) + 1] = c
      /\ \A k \in DOMAIN messageBuffer : w[k] = messageBuffer[k]
      /\ \A k \in DOMAIN w : k \in DOMAIN messageBuffer \/ k = Len(messageBuffer) + 1
      /\ Len(w) = Len(messageBuffer) + 1
  BY <1>2, <1>4, AppendFacts, AppendProperties
<1> HIDE DEF w
<1>9. Reassembled(s, w) = [id |-> D + 1, n |-> m.n]
  <2>1. \A k \in DOMAIN w : w[k] = Frag(m, k) BY <1>0, <1>3, <1>7, <1>8
  <2>2. Len(w) = m.n BY <1>3, <1>7, <1>8
  <2>3. Reassembled(m.sid, w) = [id |-> m.id, n |-> m.n]
    BY <1>4, <1>8, <2>1, <2>2, WholeIs
  <2> QED BY SMTT(40), <1>3, <1>4, <2>3
<1>10. delivered \in [Sids -> Seq(Seq(DataChunks))] BY DEF ServerTypeOK
<1>11. /\ delivered'[s] = Append(delivered[s], w)
       /\ \A r \in Sids \ {s} : delivered'[r] = delivered[r]
  BY SMTT(40), <1>1, <1>4, <1>10
<1>12. /\ Len(delivered'[s]) = D + 1 /\ delivered'[s][D + 1] = w
       /\ \A k \in DOMAIN delivered[s] : delivered'[s][k] = delivered[s][k]
       /\ \A k \in DOMAIN delivered'[s] : k \in DOMAIN delivered[s] \/ k = D + 1
  <2> DEFINE x == delivered[s]
  <2>1. x \in Seq(Seq(DataChunks)) /\ w \in Seq(DataChunks) BY <1>4, <1>8, <1>10
  <2>2. delivered'[s] = Append(x, w) /\ Len(x) = D BY <1>0, <1>11
  <2> HIDE DEF x
  <2>3. /\ Append(x, w)[Len(x) + 1] = w
        /\ \A k \in DOMAIN x : Append(x, w)[k] = x[k]
        /\ \A k \in DOMAIN Append(x, w) : k \in DOMAIN x \/ k = Len(x) + 1
    BY <2>1, AppendFacts
  <2>4. Len(Append(x, w)) = Len(x) + 1 BY <2>1, AppendProperties
  <2> QED BY <2>2, <2>3, <2>4 DEF x
<1>13. HandedOver'
  <2> SUFFICES ASSUME NEW r \in Sids
               PROVE  /\ Len(delivered'[r]) <= Len(sent[r])
                      /\ \A k \in DOMAIN delivered'[r] :
                           Reassembled(r, delivered'[r][k]) = [id |-> k, n |-> sent[r][k].n]
    BY DEF HandedOver, Reassembled
  <2>1. CASE r # s BY <1>11, <2>1 DEF HandedOver
  <2>2. CASE r = s
    <3>1. Len(delivered'[r]) <= Len(sent[r]) BY <1>0, <1>5, <1>6, <1>12, <2>2
    <3>2. ASSUME NEW k \in DOMAIN delivered'[r]
          PROVE  Reassembled(r, delivered'[r][k]) = [id |-> k, n |-> sent[r][k].n]
      <4>1. CASE k \in DOMAIN delivered[s]
        <5>1. delivered'[r][k] = delivered[r][k] BY <1>12, <2>2, <4>1
        <5>2. Reassembled(r, delivered[r][k]) = [id |-> k, n |-> sent[r][k].n]
          BY <2>2, <4>1 DEF HandedOver
        <5> QED BY <5>1, <5>2
      <4>2. CASE k = D + 1
        <5>1. delivered'[r][k] = w /\ sent[r][k] = m BY <1>0, <1>12, <2>2, <4>2
        <5> QED BY <1>9, <2>2, <4>2, <5>1
      <4> QED BY <1>12, <2>2, <3>2, <4>1, <4>2
    <3> QED BY <3>1, <3>2
  <2> QED BY <2>1, <2>2
<1>14. /\ Line' = Tail(q)
       /\ InOrder(Line) => InOrder(Line)'
       /\ Apart(Line) => Apart(Line)'
       /\ \A mm : Closed(Line, mm) => Closed(Line, mm)'
  <2> DEFINE y == Tail(q)
             x == Line
  <2>1. <<>> \o y = y /\ (InOrder(x) => InOrder(y)) /\ (Apart(x) => Apart(y))
        /\ \A mm : Closed(x, mm) => Closed(y, mm)
    BY <1>2, LineMoves DEF Line
  <2>2. Line' = y BY <1>1, <2>1 DEF Line
  <2> HIDE DEF y
  <2> QED BY <2>1, <2>2 DEF InOrder, Apart, Closed, y
<1>15. DataOf(Line) = DataOf(messageBuffer) \cup ({c} \cup DataOf(Tail(q)))
  <2>1. DataOf(Line) = DataOf(messageBuffer) \cup DataOf(q) BY <1>2, DataMore DEF Line
  <2>2. DataOf(q) = {c} \cup DataOf(Tail(q)) BY <1>2, DataTail
  <2> QED BY <2>1, <2>2
<1>16. ASSUME NEW e \in DataOf(Tail(q)) PROVE Owed(e)'
  <2>1. Owed(e) BY <1>15 DEF Conserved, Exact
  <2>2. e.sid \in Sids /\ e.id \in Nat /\ e.i \in Nat BY <2>1, OwedFacts
  <2>3. e.sid = s => e.id > D + 1
    <3> SUFFICES ASSUME e.sid = s PROVE e.id > D + 1 OBVIOUS
    <3>1. Earlier(c, e) BY <1>2, LaterOnes DEF Conserved, Line
    <3>2. e.id = c.id => e.i <= c.i
      <4>1. e.i \in 1..sent[e.sid][e.id].n BY <2>1 DEF Owed
      <4>2. e.id = c.id => sent[e.sid][e.id] = m BY <1>0, <1>3
      <4>3. \A n \in Nat : e.i \in 1..n => e.i <= n BY SMTT(40), <2>2
      <4> QED BY <1>4, <1>7, <4>1, <4>2, <4>3
    <3> QED BY <1>3, <1>4, <2>2, <3>1, <3>2 DEF Earlier
  <2>4. e.id > Len(delivered'[e.sid])
    BY <1>11, <1>12, <2>1, <2>2, <2>3 DEF Owed
  <2> QED BY <2>1, <2>4 DEF Owed, Waits
<1>17. ASSUME NEW e, Owed(e)' PROVE e \in DataOf(Tail(q))
  <2>1. e \in DataChunks /\ e.id > Len(delivered'[e.sid]) BY <1>17 DEF Owed
  <2>2. e.sid \in Sids /\ e.id \in Nat BY <2>1 DEF DataChunks
  <2>3. e.sid = s => e.id > D + 1 BY <1>12, <2>1
  <2>4. e.id > Len(delivered[e.sid])
    <3>1. CASE e.sid = s BY <1>0, <1>5, <2>2, <2>3, <3>1
    <3>2. CASE e.sid # s BY <1>11, <2>1, <2>2, <3>2
    <3> QED BY <3>1, <3>2
  <2>5. Owed(e) BY <1>17, <2>4 DEF Owed, Waits
  <2>6. e \in DataOf(Line) BY <2>5 DEF Conserved, Exact
  <2>7. e # c BY <1>3, <1>5, <2>3
  <2>8. e \notin DataOf(messageBuffer)
    <3> SUFFICES ASSUME NEW k \in DOMAIN messageBuffer, e = messageBuffer[k] PROVE FALSE
      BY DEF DataOf
    <3>1. k \in Nat BY <1>2, LenProperties
    <3>2. e = Frag(m, k) BY <1>0, <1>3
    <3>3. e.sid = s /\ e.id = c.id BY <1>4, <3>1, <3>2, FragFacts
    <3> QED BY <1>3, <1>5, <2>3, <3>3
  <2> QED BY <1>15, <2>6, <2>7, <2>8
<1>18. Exact' BY <1>14, <1>16, <1>17 DEF Exact
<1>19. RestIsLast'
  <2> SUFFICES ASSUME partial_outgoing_message_ # NoMessage,
                      NEW pm, pm = partial_outgoing_message_.m
               PROVE  /\ Len(sent[pm.sid]) > Len(delivered'[pm.sid])
                      /\ pm = sent[pm.sid][Len(sent[pm.sid])]
                      /\ partial_outgoing_message_.next \in 2..pm.n
                      /\ Closed(Line, pm)'
    BY DEF RestIsLast
  <2>1. /\ Len(sent[pm.sid]) > Len(delivered[pm.sid])
        /\ pm = sent[pm.sid][Len(sent[pm.sid])]
        /\ partial_outgoing_message_.next \in 2..pm.n
        /\ Closed(Line, pm)
    BY DEF Conserved, RestIsLast
  <2>2. Closed(Line, pm)' BY <1>14, <2>1
  <2>3. pm.sid \in Sids BY DEF ClientTypeOK, Partials, Messages
  <2>4. pm.sid = s => L > D + 1
    <3> SUFFICES ASSUME pm.sid = s, ~(L > D + 1) PROVE FALSE OBVIOUS
    <3>1. L = D + 1 BY <1>5, <1>6
    <3>2. pm = m BY <1>0, <2>1, <3>1
    <3>3. Waits(c) BY SMTT(40), <1>4, <3>2 DEF Waits, Same
    <3>4. c.i < partial_outgoing_message_.next BY <1>3, <3>3 DEF Owed
    <3> QED BY <1>4, <1>7, <2>1, <3>2, <3>4
  <2>5. Len(sent[pm.sid]) > Len(delivered'[pm.sid])
    <3>1. CASE pm.sid = s
      <4>1. Len(sent[s]) = L /\ Len(delivered'[s]) = D + 1 BY <1>0, <1>12
      <4> QED BY <2>4, <3>1, <4>1
    <3>2. CASE pm.sid # s
      <4>1. delivered'[pm.sid] = delivered[pm.sid] BY <1>11, <2>3, <3>2
      <4> QED BY <2>1, <4>1
    <3> QED BY <3>1, <3>2
  <2> QED BY <2>1, <2>2, <2>5
<1>20. BufferBegins' BY <1>1 DEF BufferBegins
<1>21. InOrder(Line)' /\ Apart(Line)' BY <1>14 DEF Conserved
<1>22. Conserved' BY SMTT(40), <1>18, <1>19, <1>20, <1>21 DEF Conserved
<1>23. /\ delivered' = [delivered EXCEPT ![c.sid] = Append(@, w)]
       /\ Reassembled(c.sid, w) = [id |-> Len(delivered[c.sid]) + 1,
                                   n |-> sent[c.sid][Len(delivered[c.sid]) + 1].n]
  BY <1>0, <1>1, <1>9
<1> QED BY <1>0, <1>4, <1>6, <1>13, <1>22, <1>23

(* The line when only chunks that are not data come or go.                 *)
LEMMA SameLine ==
  ASSUME StackTypeOK, ServerTypeOK, Conserved,
         InOrder(Line'), Apart(Line'), DataOf(Line') = DataOf(Line),
         \A m : Closed(Line, m) => Closed(Line', m),
         UNCHANGED <<messageBuffer, lastSsnReceived, delivered, sent,
                     partial_outgoing_message_>>
  PROVE  Conserved'
<1>1. Exact' BY DEF Conserved, Exact, Owed, Waits
<1>2. InOrder(Line)' /\ Apart(Line)' BY DEF InOrder, Apart
<1>3. RestIsLast' BY DEF Conserved, RestIsLast, Closed
<1>4. BufferBegins' BY DEF Conserved, BufferBegins, Begun
<1> QED BY <1>1, <1>2, <1>3, <1>4 DEF Conserved

LEMMA OthersJoin ==
  ASSUME StackTypeOK, ServerTypeOK, Conserved, NEW x \in Seq(Chunks), Lacks(x, "data"),
         wire'["client"] = wire["client"] \o x,
         UNCHANGED <<messageBuffer, lastSsnReceived, delivered, sent,
                     partial_outgoing_message_>>
  PROVE  Conserved'
<1>1. messageBuffer \in Seq(Chunks) /\ wire["client"] \in Seq(Chunks) BY LineType
<1>2. /\ InOrder(Line) => InOrder(messageBuffer \o (wire["client"] \o x))
      /\ Apart(Line) => Apart(messageBuffer \o (wire["client"] \o x))
      /\ \A m : Closed(Line, m) => Closed(messageBuffer \o (wire["client"] \o x), m)
      /\ DataOf(messageBuffer \o (wire["client"] \o x)) = DataOf(Line)
  BY <1>1, LineKeeps DEF Line
<1>3. Line' = messageBuffer \o (wire["client"] \o x) BY DEF Line
<1> QED BY <1>2, <1>3, SameLine DEF Conserved

LEMMA OtherLeaves ==
  ASSUME StackTypeOK, ServerTypeOK, Conserved,
         wire["client"] # <<>>, Head(wire["client"]).t # "data",
         wire'["client"] = Tail(wire["client"]),
         UNCHANGED <<messageBuffer, lastSsnReceived, delivered, sent,
                     partial_outgoing_message_>>
  PROVE  Conserved'
<1>1. messageBuffer \in Seq(Chunks) /\ wire["client"] \in Seq(Chunks) BY LineType
<1>2. /\ InOrder(Line) => InOrder(messageBuffer \o Tail(wire["client"]))
      /\ Apart(Line) => Apart(messageBuffer \o Tail(wire["client"]))
      /\ \A m : Closed(Line, m) => Closed(messageBuffer \o Tail(wire["client"]), m)
      /\ DataOf(messageBuffer \o Tail(wire["client"])) = DataOf(Line)
  BY <1>1, LineDrops DEF Line
<1>3. Line' = messageBuffer \o Tail(wire["client"]) BY DEF Line
<1> QED BY <1>2, <1>3, SameLine DEF Conserved

LEMMA SameConserved ==
  ASSUME Conserved, wire'["client"] = wire["client"],
         UNCHANGED <<messageBuffer, lastSsnReceived, delivered, sent,
                     partial_outgoing_message_>>
  PROVE  Conserved'
<1>1. Line' = Line BY DEF Line
<1>2. Exact' BY <1>1 DEF Conserved, Exact, Owed, Waits
<1>3. InOrder(Line)' /\ Apart(Line)' BY <1>1 DEF InOrder, Apart, Conserved
<1>4. RestIsLast' BY <1>1 DEF Conserved, RestIsLast, Closed
<1>5. BufferBegins' BY DEF Conserved, BufferBegins, Begun
<1> QED BY <1>2, <1>3, <1>4, <1>5 DEF Conserved

(* A message, or the rest of it, joins the line; a reset that waited for   *)
(* it may follow.                                                          *)
LEMMA LineJoins ==
  ASSUME StackTypeOK, ServerTypeOK, NEW m \in Messages, NEW from \in Nat, NEW to \in Nat,
         InOrder(Line), Apart(Line), Closed(Line, m),
         \A c \in DataOf(Line) : c.sid = m.sid => c.id < m.id \/ (c.id = m.id /\ c.i < from),
         NEW x \in Seq(Chunks), Lacks(x, "data"),
         messageBuffer' = messageBuffer,
         wire'["client"] = (wire["client"] \o Fragments(m, from, to)) \o x
  PROVE  /\ InOrder(Line') /\ Apart(Line') /\ Closed(Line', m)
         /\ \A c : c \in DataOf(Line') <=> c \in DataOf(Line) \/ \E i \in from..to : c = Frag(m, i)
<1> DEFINE b == messageBuffer
           q == wire["client"]
           F == Fragments(m, from, to)
           w == Line \o F
<1>1. b \in Seq(Chunks) /\ q \in Seq(Chunks) /\ Line \in Seq(Chunks) BY LineType
<1>2. F \in Seq(Chunks) /\ \A c : c \in DataOf(F) <=> \E i \in from..to : c = Frag(m, i)
  BY FragmentsAre
<1>3. InOrder(w) /\ Apart(w) /\ Closed(w, m) /\ DataOf(w) = DataOf(Line) \cup DataOf(F)
  BY <1>1, LineSends
<1> HIDE DEF F
<1>4. q \o F \in Seq(Chunks) /\ w = b \o (q \o F)
  <2>1. Line = b \o q BY DEF Line
  <2>2. (b \o q) \o F = b \o (q \o F)
    <3>1. b \in Seq(Chunks) /\ q \in Seq(Chunks) /\ F \in Seq(Chunks) BY <1>1, <1>2
    <3> HIDE DEF b, q
    <3> QED BY ONLY SMTT(40), <3>1, ConcatAssociative
  <2>3. q \o F \in Seq(Chunks) BY <1>1, <1>2, ConcatFacts
  <2> QED BY <2>1, <2>2, <2>3
<1>5. Line' = b \o ((q \o F) \o x) BY DEF Line, F
<1> HIDE DEF w, b, q
<1>6. /\ InOrder(w) => InOrder(Line')
      /\ Apart(w) => Apart(Line')
      /\ \A mm : Closed(w, mm) => Closed(Line', mm)
      /\ DataOf(Line') = DataOf(w)
  <2> DEFINE p == q \o F
  <2>1. p \in Seq(Chunks) BY <1>4
  <2>2. w = b \o p /\ Line' = b \o (p \o x) BY <1>4, <1>5
  <2> HIDE DEF p
  <2>3. /\ InOrder(b \o p) => InOrder(b \o (p \o x))
        /\ Apart(b \o p) => Apart(b \o (p \o x))
        /\ \A mm : Closed(b \o p, mm) => Closed(b \o (p \o x), mm)
        /\ DataOf(b \o (p \o x)) = DataOf(b \o p)
    BY <1>1, <2>1, LineKeeps DEF b
  <2> QED BY <2>2, <2>3
<1> QED BY <1>2, <1>3, <1>6

(* The rest of the partial message goes out, or a part of it.              *)
LEMMA RestJoins ==
  ASSUME StackTypeOK, ClientTypeOK, ServerTypeOK, Accepted, Conserved,
         partial_outgoing_message_ # NoMessage,
         NEW m, m = partial_outgoing_message_.m,
         NEW from, from = partial_outgoing_message_.next,
         NEW to \in from..m.n, NEW x \in Seq(Chunks), Lacks(x, "data"),
         wire'["client"] = (wire["client"] \o Fragments(m, from, to)) \o x,
         partial_outgoing_message_' = Left(m, to),
         UNCHANGED <<messageBuffer, lastSsnReceived, delivered, sent>>
  PROVE  Conserved'
<1> DEFINE L == Len(sent[m.sid])
<1>1. /\ m \in Messages /\ m.sid \in Sids /\ m.n \in 1..MaxFragments
  BY DEF ClientTypeOK, Partials, Messages
<1>2. L > Len(delivered[m.sid]) /\ m = sent[m.sid][L] /\ from \in 2..m.n /\ Closed(Line, m)
  BY DEF Conserved, RestIsLast
<1>3. L \in Nat /\ Len(delivered[m.sid]) \in Nat BY <1>1, SentType
<1>4. m.id = L
  <2>1. L \in DOMAIN sent[m.sid] BY <1>1, <1>2, <1>3, SentType
  <2> QED BY <1>1, <1>2, <2>1 DEF Accepted
<1>5. m.n \in Nat /\ from \in Nat /\ to \in Nat /\ from <= to /\ to <= m.n /\ from >= 2
  <2>1. m.n \in Int BY <1>1 DEF Messages
  <2> QED BY <1>2, <2>1
<1>6. \A c \in DataOf(Line) : c.sid = m.sid => c.id < m.id \/ (c.id = m.id /\ c.i < from)
  <2> SUFFICES ASSUME NEW c \in DataOf(Line), c.sid = m.sid
               PROVE  c.id < m.id \/ (c.id = m.id /\ c.i < from)
    OBVIOUS
  <2>1. Owed(c) BY SMTT(40) DEF Conserved, Exact
  <2>2. c.id \in Nat /\ c.id <= L BY <2>1, OwedFacts DEF Owed
  <2>3. c.id = m.id => c.i < from BY <2>1 DEF Owed, Waits, Same
  <2> QED BY <1>3, <1>4, <2>2, <2>3
<1>7. /\ InOrder(Line') /\ Apart(Line') /\ Closed(Line', m)
      /\ \A c : c \in DataOf(Line') <=> c \in DataOf(Line) \/ \E i \in from..to : c = Frag(m, i)
  BY <1>1, <1>2, <1>5, <1>6, LineJoins DEF Conserved
<1> DEFINE Clauses(c) ==
             /\ c \in DataChunks
             /\ c.id > Len(delivered[c.sid]) /\ c.id <= Len(sent[c.sid])
             /\ c.i \in 1..sent[c.sid][c.id].n
             /\ c = Frag(sent[c.sid][c.id], c.i)
<1>8. \A c : Owed(c) <=> Clauses(c) /\ (Same(c, m) => c.i < from) BY DEF Owed, Waits
<1>9. \A c : Owed(c)' <=> Clauses(c) /\ (to # m.n /\ Same(c, m) => c.i < to + 1)
  <2> SUFFICES ASSUME NEW c
               PROVE  Owed(c)' <=> Clauses(c) /\ (to # m.n /\ Same(c, m) => c.i < to + 1)
    OBVIOUS
  <2>1. Waits(c)' <=> to # m.n /\ Same(c, m) BY DEF Waits, Left, NoMessage, Same
  <2>2. to # m.n => partial_outgoing_message_'.next = to + 1 BY DEF Left
  <2>3. Owed(c)' <=> Clauses(c) /\ (Waits(c)' => c.i < partial_outgoing_message_'.next)
    BY DEF Owed
  <2> QED BY <2>1, <2>2, <2>3
<1>10. \A i \in from..to :
         /\ Clauses(Frag(m, i)) /\ Frag(m, i).i = i /\ i < to + 1
  <2> SUFFICES ASSUME NEW i \in from..to
               PROVE  Clauses(Frag(m, i)) /\ Frag(m, i).i = i /\ i < to + 1
    OBVIOUS
  <2>1. i \in Nat /\ i \in 1..m.n /\ i < to + 1 BY <1>5
  <2>2. /\ Frag(m, i) \in DataChunks /\ Frag(m, i).sid = m.sid /\ Frag(m, i).id = m.id
        /\ Frag(m, i).i = i
    BY <1>1, <2>1, FragFacts
  <2> QED BY <1>2, <1>3, <1>4, <2>1, <2>2
<1>11. \A c : Clauses(c) /\ Same(c, m) => c = Frag(m, c.i) /\ c.i \in 1..m.n
  <2> SUFFICES ASSUME NEW c, Clauses(c), Same(c, m)
               PROVE  c = Frag(m, c.i) /\ c.i \in 1..m.n
    OBVIOUS
  <2>1. c.sid = m.sid /\ c.id = m.id BY DEF Same
  <2>2. sent[c.sid][c.id] = m BY <1>2, <1>4, <2>1
  <2> QED BY <2>2
<1>12. Exact'
  <2> SUFFICES ASSUME NEW c PROVE c \in DataOf(Line') <=> Owed(c)'
    BY DEF Exact
  <2>1. c \in DataOf(Line) <=> Owed(c) BY DEF Conserved, Exact
  <2> HIDE DEF Clauses
  <2>2. ASSUME c \in DataOf(Line') PROVE Owed(c)'
    <3>1. CASE c \in DataOf(Line)
      <4>1. Clauses(c) /\ (Same(c, m) => c.i < from) BY <1>8, <2>1, <3>1
      <4>2. c.i \in Nat BY <2>1, <3>1, OwedFacts
      <4>3. Same(c, m) => c.i < to + 1 BY <1>5, <4>1, <4>2
      <4> QED BY <1>9, <4>1, <4>3
    <3>2. CASE \E i \in from..to : c = Frag(m, i)
      <4>1. PICK i \in from..to : c = Frag(m, i) BY <3>2
      <4>2. Clauses(c) /\ c.i = i /\ i < to + 1 BY <1>10, <4>1
      <4> QED BY <1>9, <4>2
    <3> QED BY <1>7, <2>2, <3>1, <3>2
  <2>3. ASSUME Owed(c)' PROVE c \in DataOf(Line')
    <3>1. Clauses(c) /\ (to # m.n /\ Same(c, m) => c.i < to + 1) BY <1>9, <2>3
    <3>2. CASE Same(c, m)
      <4>1. c = Frag(m, c.i) /\ c.i \in 1..m.n BY <1>11, <3>1, <3>2
      <4>2. c.i < from \/ c.i \in from..to BY <1>5, <3>1, <3>2, <4>1
      <4> QED BY <1>7, <1>8, <2>1, <3>1, <4>1, <4>2
    <3>3. CASE ~Same(c, m) BY <1>7, <1>8, <2>1, <3>1, <3>3
    <3> QED BY <3>2, <3>3
  <2> QED BY <2>2, <2>3
<1>13. RestIsLast'
  <2> SUFFICES ASSUME partial_outgoing_message_' # NoMessage PROVE RestIsLast'
    BY DEF RestIsLast
  <2>1. partial_outgoing_message_' = [m |-> m, next |-> to + 1] /\ to # m.n BY DEF Left
  <2>2. partial_outgoing_message_'.m = m /\ partial_outgoing_message_'.next = to + 1 BY <2>1
  <2>3. to + 1 \in 2..m.n BY <1>5, <2>1
  <2>4. Closed(Line', m) BY <1>7
  <2> QED BY <1>2, <2>2, <2>3, <2>4 DEF RestIsLast, Closed
<1>14. BufferBegins' BY DEF Conserved, BufferBegins, Begun
<1>15. InOrder(Line)' /\ Apart(Line)' BY <1>7 DEF InOrder, Apart
<1> QED BY <1>12, <1>13, <1>14, <1>15 DEF Conserved

(* A new message goes out, or the first part of it.                        *)
LEMMA MessageJoins ==
  ASSUME StackTypeOK, ClientTypeOK, ServerTypeOK, Accepted, HandedOver, Conserved,
         partial_outgoing_message_ = NoMessage,
         NEW s \in Sids, NEW m \in Messages, m.sid = s, m.id = Len(sent[s]) + 1,
         NEW to \in 1..m.n,
         wire'["client"] = wire["client"] \o Fragments(m, 1, to),
         partial_outgoing_message_' = Left(m, to),
         sent' = [sent EXCEPT ![s] = Append(@, m)],
         UNCHANGED <<messageBuffer, lastSsnReceived, delivered>>
  PROVE  /\ Accepted' /\ HandedOver' /\ Conserved'
         /\ Len(sent'[s]) = Len(sent[s]) + 1
         /\ \A r \in Sids : \A k \in 1..Len(sent[r]) : sent'[r][k] = sent[r][k]
<1>0. PICK L, D : L = Len(sent[s]) /\ D = Len(delivered[s]) OBVIOUS
<1>1. L \in Nat /\ D \in Nat /\ D <= L BY <1>0, SentType DEF HandedOver
<1>2. m.n \in Nat /\ to \in Nat /\ 1 <= to /\ to <= m.n
  <2>1. m.n \in Int BY DEF Messages
  <2> QED BY <2>1
<1>3. /\ sent'[s] = Append(sent[s], m)
      /\ \A r \in Sids \ {s} : sent'[r] = sent[r]
  BY DEF ClientTypeOK
<1>4. /\ Len(sent'[s]) = L + 1 /\ sent'[s][L + 1] = m
      /\ \A k \in 1..L : sent'[s][k] = sent[s][k]
      /\ DOMAIN sent'[s] = 1..(L + 1)
  <2> DEFINE z == sent[s]
  <2>1. z \in Seq(Messages) BY DEF ClientTypeOK
  <2>2. Len(z) = L /\ sent'[s] = Append(z, m) BY <1>0, <1>3
  <2> HIDE DEF z
  <2>3. /\ Append(z, m) \in Seq(Messages) /\ Len(Append(z, m)) = Len(z) + 1
        /\ \A i \in 1..Len(z) : Append(z, m)[i] = z[i]
        /\ Append(z, m)[Len(z) + 1] = m
    BY <2>1, AppendProperties
  <2>4. DOMAIN Append(z, m) = 1..(L + 1) BY <2>2, <2>3, LenProperties
  <2> QED BY <2>2, <2>3, <2>4 DEF z
<1>5. \A r \in Sids : \A k \in 1..Len(sent[r]) : sent'[r][k] = sent[r][k]
  BY <1>0, <1>3, <1>4
<1>6. \A r \in Sids : Len(sent'[r]) >= Len(sent[r]) /\ Len(sent[r]) \in Nat
                      /\ Len(delivered[r]) \in Nat
                      /\ DOMAIN delivered[r] = 1..Len(delivered[r])
  <2> TAKE r \in Sids
  <2>1. Len(sent[r]) \in Nat /\ Len(delivered[r]) \in Nat
        /\ DOMAIN delivered[r] = 1..Len(delivered[r])
    BY SentType
  <2>2. CASE r = s BY <1>0, <1>1, <1>4, <2>1, <2>2
  <2>3. CASE r # s BY <1>3, <2>1, <2>3
  <2> QED BY <2>1, <2>2, <2>3
<1>7. Accepted'
  <2> SUFFICES ASSUME NEW r \in Sids, NEW k \in DOMAIN sent'[r]
               PROVE  sent'[r][k].sid = r /\ sent'[r][k].id = k
    BY DEF Accepted
  <2>1. CASE r # s BY <1>3, <2>1 DEF Accepted
  <2>2. CASE r = s /\ k # L + 1
    <3>1. k \in 1..L BY <1>1, <1>4, <2>2
    <3>2. k \in DOMAIN sent[s] BY <1>0, <3>1, SentType
    <3> QED BY <1>4, <2>2, <3>1, <3>2 DEF Accepted
  <2>3. CASE r = s /\ k = L + 1 BY <1>0, <1>4, <2>3
  <2> QED BY <2>1, <2>2, <2>3
<1>8. HandedOver'
  <2> SUFFICES ASSUME NEW r \in Sids
               PROVE  /\ Len(delivered[r]) <= Len(sent'[r])
                      /\ \A k \in DOMAIN delivered[r] :
                           Reassembled(r, delivered[r][k]) = [id |-> k, n |-> sent'[r][k].n]
    BY DEF HandedOver
  <2>1. /\ Len(delivered[r]) <= Len(sent[r])
        /\ \A k \in DOMAIN delivered[r] :
             Reassembled(r, delivered[r][k]) = [id |-> k, n |-> sent[r][k].n]
    BY DEF HandedOver
  <2>2. \A k \in DOMAIN delivered[r] : k \in 1..Len(sent[r]) BY <1>6, <2>1
  <2>3. Len(delivered[r]) <= Len(sent'[r]) BY <1>6, <2>1
  <2> QED BY <1>5, <2>1, <2>2, <2>3
<1>9. \A c \in DataOf(Line) : /\ Owed(c) /\ c.id \in Nat /\ c.i \in Nat /\ c.sid \in Sids
                              /\ c.id <= Len(sent[c.sid])
  BY OwedFacts DEF Conserved, Exact, Owed
<1>10. \A c \in DataOf(Line) : c.sid = m.sid => c.id < m.id \/ (c.id = m.id /\ c.i < 1)
  BY <1>0, <1>1, <1>9
<1>11. \A c \in DataOf(Line) : ~Same(c, m) BY <1>0, <1>1, <1>9 DEF Same
<1>12. Closed(Line, m) BY <1>11 DEF Closed, DataOf
<1>13. /\ InOrder(Line') /\ Apart(Line') /\ Closed(Line', m)
       /\ \A c : c \in DataOf(Line') <=> c \in DataOf(Line) \/ \E i \in 1..to : c = Frag(m, i)
  <2> DEFINE x == <<>>
  <2>1. x \in Seq(Chunks) /\ Lacks(x, "data") /\ 1 \in Nat BY DEF Lacks
  <2>2. wire["client"] \o Fragments(m, 1, to) \in Seq(Chunks)
    <3>1. Fragments(m, 1, to) \in Seq(Chunks) BY <1>2, FragmentsAre
    <3> QED BY <3>1, LineType, ConcatFacts
  <2>3. wire'["client"] = (wire["client"] \o Fragments(m, 1, to)) \o x
    BY <2>2, ConcatEmptySeq
  <2> HIDE DEF x
  <2>4. InOrder(Line) /\ Apart(Line) BY DEF Conserved
  <2> QED BY <2>4, <1>2, <1>10, <1>12, <2>1, <2>3, LineJoins
<1> DEFINE Clauses(c, z) ==
             /\ c \in DataChunks
             /\ c.id > Len(delivered[c.sid]) /\ c.id <= Len(z[c.sid])
             /\ c.i \in 1..z[c.sid][c.id].n
             /\ c = Frag(z[c.sid][c.id], c.i)
<1>14. \A c : Owed(c) <=> Clauses(c, sent) BY DEF Owed, Waits
<1>15. \A c : Owed(c)' <=> Clauses(c, sent') /\ (to # m.n /\ Same(c, m) => c.i < to + 1)
  <2> SUFFICES ASSUME NEW c
               PROVE  Owed(c)' <=> Clauses(c, sent') /\ (to # m.n /\ Same(c, m) => c.i < to + 1)
    OBVIOUS
  <2>1. Waits(c)' <=> to # m.n /\ Same(c, m) BY DEF Waits, Left, NoMessage, Same
  <2>2. to # m.n => partial_outgoing_message_'.next = to + 1 BY DEF Left
  <2>3. Owed(c)' <=> Clauses(c, sent') /\ (Waits(c)' => c.i < partial_outgoing_message_'.next)
    BY DEF Owed
  <2> QED BY <2>1, <2>2, <2>3
<1>16. \A c : Clauses(c, sent) => Clauses(c, sent') /\ ~Same(c, m)
  <2> SUFFICES ASSUME NEW c, Clauses(c, sent) PROVE Clauses(c, sent') /\ ~Same(c, m)
    OBVIOUS
  <2>1. c.sid \in Sids /\ c.id \in Nat BY DEF DataChunks
  <2>2. Len(delivered[c.sid]) \in Nat /\ Len(sent[c.sid]) \in Nat
        /\ Len(sent'[c.sid]) >= Len(sent[c.sid])
    BY <1>6, <2>1
  <2>3. c.id \in 1..Len(sent[c.sid]) BY <2>1, <2>2
  <2>4. sent'[c.sid][c.id] = sent[c.sid][c.id] BY <1>5, <2>1, <2>3
  <2>5. ~Same(c, m) BY <1>0, <1>1, <2>1 DEF Same
  <2>6. c.id <= Len(sent'[c.sid])
    <3>1. CASE c.sid = s BY <1>0, <1>1, <1>4, <2>1, <3>1
    <3>2. CASE c.sid # s BY <1>3, <2>1, <3>2
    <3> QED BY <3>1, <3>2
  <2> QED BY <2>4, <2>5, <2>6
<1>17. \A c : Clauses(c, sent') => Clauses(c, sent) \/ (Same(c, m) /\ c = Frag(m, c.i)
                                                       /\ c.i \in 1..m.n)
  <2> SUFFICES ASSUME NEW c, Clauses(c, sent'), ~Clauses(c, sent)
               PROVE  Same(c, m) /\ c = Frag(m, c.i) /\ c.i \in 1..m.n
    OBVIOUS
  <2>1. c.sid \in Sids /\ c.id \in Nat BY DEF DataChunks
  <2>2. c.sid = s
    <3> SUFFICES ASSUME c.sid # s PROVE FALSE OBVIOUS
    <3>1. sent'[c.sid] = sent[c.sid] BY <1>3, <2>1
    <3> QED BY <3>1
  <2>3. c.id = L + 1
    <3> SUFFICES ASSUME c.id # L + 1 PROVE FALSE OBVIOUS
    <3>1. c.id > D /\ c.id <= L + 1 BY <1>0, <1>4, <2>2
    <3>2. c.id \in 1..L /\ c.id <= L BY <1>1, <2>1, <3>1
    <3>3. sent'[c.sid][c.id] = sent[c.sid][c.id] BY <1>4, <2>2, <3>2
    <3> QED BY <1>0, <2>2, <3>2, <3>3
  <2>4. sent'[c.sid][c.id] = m BY <1>4, <2>2, <2>3
  <2> QED BY <1>0, <2>2, <2>3, <2>4 DEF Same
<1>18. \A i \in 1..to : /\ Clauses(Frag(m, i), sent') /\ Frag(m, i).i = i /\ i < to + 1
  <2> SUFFICES ASSUME NEW i \in 1..to
               PROVE  Clauses(Frag(m, i), sent') /\ Frag(m, i).i = i /\ i < to + 1
    OBVIOUS
  <2>1. i \in Nat /\ i \in 1..m.n /\ i < to + 1 BY <1>2
  <2>2. /\ Frag(m, i) \in DataChunks /\ Frag(m, i).sid = s /\ Frag(m, i).id = L + 1
        /\ Frag(m, i).i = i
    BY <1>0, <2>1, FragFacts
  <2>3. L + 1 > D /\ L + 1 <= L + 1 BY <1>1
  <2> QED BY <1>0, <1>4, <2>1, <2>2, <2>3
<1>19. Exact'
  <2> SUFFICES ASSUME NEW c PROVE c \in DataOf(Line') <=> Owed(c)'
    BY DEF Exact
  <2>1. c \in DataOf(Line) <=> Owed(c) BY DEF Conserved, Exact
  <2> HIDE DEF Clauses
  <2>2. ASSUME c \in DataOf(Line') PROVE Owed(c)'
    <3>1. CASE c \in DataOf(Line) BY <1>14, <1>15, <1>16, <2>1, <3>1
    <3>2. CASE \E i \in 1..to : c = Frag(m, i)
      <4>1. PICK i \in 1..to : c = Frag(m, i) BY <3>2
      <4>2. Clauses(c, sent') /\ c.i = i /\ i < to + 1 BY <1>18, <4>1
      <4> QED BY <1>15, <4>2
    <3> QED BY <1>13, <2>2, <3>1, <3>2
  <2>3. ASSUME Owed(c)' PROVE c \in DataOf(Line')
    <3>1. Clauses(c, sent') /\ (to # m.n /\ Same(c, m) => c.i < to + 1) BY <1>15, <2>3
    <3>2. CASE Clauses(c, sent) BY <1>13, <1>14, <2>1, <3>2
    <3>3. CASE Same(c, m) /\ c = Frag(m, c.i) /\ c.i \in 1..m.n
      <4>1. c.i \in 1..to BY <1>2, <3>1, <3>3
      <4> QED BY <1>13, <3>3, <4>1
    <3> QED BY <1>17, <3>1, <3>2, <3>3
  <2> QED BY <2>2, <2>3
<1>20. RestIsLast'
  <2> SUFFICES ASSUME partial_outgoing_message_' # NoMessage PROVE RestIsLast'
    BY DEF RestIsLast
  <2>1. partial_outgoing_message_' = [m |-> m, next |-> to + 1] /\ to # m.n BY DEF Left
  <2>2. partial_outgoing_message_'.m = m /\ partial_outgoing_message_'.next = to + 1 BY <2>1
  <2>3. to + 1 \in 2..m.n BY <1>2, <2>1
  <2>4. Len(sent'[s]) > Len(delivered[s]) /\ m = sent'[s][Len(sent'[s])]
    BY <1>0, <1>1, <1>4
  <2>5. Closed(Line', m) BY <1>13
  <2> QED BY <2>2, <2>3, <2>4, <2>5 DEF RestIsLast, Closed
<1>21. BufferBegins'
  <2> SUFFICES ASSUME messageBuffer # <<>>
               PROVE  \E r \in Sids : /\ Len(delivered[r]) < Len(sent'[r])
                                      /\ Begun(sent'[r][Len(delivered[r]) + 1])
    BY DEF BufferBegins, Begun
  <2>1. PICK r \in Sids : /\ Len(delivered[r]) < Len(sent[r])
                          /\ Begun(sent[r][Len(delivered[r]) + 1])
    BY DEF Conserved, BufferBegins
  <2>2. Len(delivered[r]) + 1 \in 1..Len(sent[r]) BY <1>6, <2>1
  <2>3. sent'[r][Len(delivered[r]) + 1] = sent[r][Len(delivered[r]) + 1] BY <1>5, <2>2
  <2>4. Len(delivered[r]) < Len(sent'[r])
    <3>1. CASE r = s BY <1>0, <1>1, <1>4, <2>1, <3>1
    <3>2. CASE r # s BY <1>3, <2>1, <3>2
    <3> QED BY <3>1, <3>2
  <2> QED BY <2>1, <2>3, <2>4
<1>22. InOrder(Line)' /\ Apart(Line)' BY <1>13 DEF InOrder, Apart
<1> QED BY <1>0, <1>4, <1>5, <1>7, <1>8, <1>19, <1>20, <1>21, <1>22 DEF Conserved

-----------------------------------------------------------------------------
(* The client's steps.                                                     *)
LEMMA QueuedJoins ==
  ASSUME NEW C, NEW I, NEW R, NEW partial, NEW queue, StackTypeOK, C \subseteq Sids,
         R \subseteq Sids, queue \in Seq(Chunks),
         SendQueuedStreamResets(C, I, R, partial, queue)
  PROVE  /\ \E x \in Seq(Chunks) : wire'["client"] = queue \o x /\ Lacks(x, "data")
         /\ wire'["server"] = wire["server"]
         /\ outstanding'["client"] = outstanding["client"] \/ outstanding["client"] = NoRequest
<1>1. Outcome(C, I, R, partial, queue) /\ wire'["server"] = wire["server"]
  BY ResetsFacts
<1>2. CASE wire'["client"] = queue /\ outstanding' = outstanding
  <2>1. queue \o <<>> = queue /\ <<>> \in Seq(Chunks) /\ Lacks(<<>>, "data")
    BY ConcatEmptySeq DEF Lacks
  <2> QED BY <1>1, <1>2, <2>1
<1>3. ASSUME NEW ask \in SUBSET Sids, MayRequest("client"),
             wire'["client"] = Append(queue, [t |-> "reset", sids |-> ask])
      PROVE  /\ \E x \in Seq(Chunks) : wire'["client"] = queue \o x /\ Lacks(x, "data")
             /\ outstanding["client"] = NoRequest
  <2> DEFINE c == [t |-> "reset", sids |-> ask]
  <2>1. c \in Chunks /\ c.t # "data" BY ChunksMade
  <2> HIDE DEF c
  <2>2. Append(queue, c) = queue \o <<c>> /\ <<c>> \in Seq(Chunks) /\ Lacks(<<c>>, "data")
    BY <2>1, OneMore
  <2>3. wire'["client"] = queue \o <<c>> BY <1>3, <2>2 DEF c
  <2> QED BY <1>3, <2>2, <2>3 DEF MayRequest
<1> QED BY <1>1, <1>2, <1>3 DEF Outcome

Asking == \/ \E s \in Sids : ResetStream(s)
          \/ OnCommUp \/ OnIncomingReset \/ OnOutgoingReset \/ OnResetFailed

LEMMA AskJoins ==
  ASSUME StackTypeOK, ClientTypeOK, Asking
  PROVE  /\ \E x \in Seq(Chunks) : wire'["client"] = wire["client"] \o x /\ Lacks(x, "data")
         /\ wire'["server"] = wire["server"]
         /\ outstanding'["client"] = outstanding["client"] \/ outstanding["client"] = NoRequest
         /\ UNCHANGED <<sent, partial_outgoing_message_, alive>>
<1> DEFINE Goal == /\ \E x \in Seq(Chunks) : wire'["client"] = wire["client"] \o x
                                             /\ Lacks(x, "data")
                   /\ wire'["server"] = wire["server"]
                   /\ \/ outstanding'["client"] = outstanding["client"]
                      \/ outstanding["client"] = NoRequest
<1>1. /\ closure_initiated \subseteq Sids /\ incoming_reset_complete \subseteq Sids
      /\ streams \subseteq Sids /\ wire["client"] \in Seq(Chunks)
  BY DEF ClientTypeOK, StackTypeOK, Ends
<1>2. ASSUME NEW incoming, NEW outgoing, OnStreamReset(incoming, outgoing),
             incoming \subseteq Sids
      PROVE  Goal
  <2> DEFINE C == closure_initiated \ (incoming \cap outgoing)
             I == outgoing_reset_initiated \ (incoming \cap outgoing)
             R == incoming \ (incoming \cap outgoing)
  <2>1. SendQueuedStreamResets(C, I, R, partial_outgoing_message_, wire["client"])
    BY <1>2 DEF OnStreamReset
  <2>2. C \subseteq Sids /\ R \subseteq Sids BY <1>1, <1>2
  <2> HIDE DEF C, I, R
  <2> QED BY ONLY <1>1, <2>1, <2>2, StackTypeOK, QueuedJoins
<1>3. CASE OnIncomingReset
  <2> DEFINE incoming == incoming_reset_complete \cup (Head(tasks).sids \cap streams)
  <2>1. OnStreamReset(incoming, outgoing_reset_complete) BY <1>3 DEF OnIncomingReset
  <2>2. incoming \subseteq Sids BY <1>1
  <2> HIDE DEF incoming
  <2>3. Goal BY <1>2, <2>1, <2>2
  <2> QED BY <2>1, <2>3 DEF OnStreamReset
<1>4. CASE OnOutgoingReset
  <2> DEFINE outgoing == outgoing_reset_complete \cup (Head(tasks).sids \cap streams)
  <2>1. OnStreamReset(incoming_reset_complete, outgoing) BY <1>4 DEF OnOutgoingReset
  <2> HIDE DEF outgoing
  <2>2. Goal BY <1>1, <1>2, <2>1
  <2> QED BY <2>1, <2>2 DEF OnStreamReset
<1>5. CASE OnCommUp
  <2>1. SendQueuedStreamResets(closure_initiated, outgoing_reset_initiated,
                               incoming_reset_complete, partial_outgoing_message_,
                               wire["client"])
    BY <1>5 DEF OnCommUp
  <2>2. Goal BY ONLY <1>1, <2>1, StackTypeOK, QueuedJoins
  <2> QED BY <1>5, <2>2 DEF OnCommUp
<1>6. CASE OnResetFailed
  <2> DEFINE I == {}
  <2>1. SendQueuedStreamResets(closure_initiated, I, incoming_reset_complete,
                               partial_outgoing_message_, wire["client"])
    BY <1>6 DEF OnResetFailed
  <2> HIDE DEF I
  <2>2. Goal BY ONLY <1>1, <2>1, StackTypeOK, QueuedJoins
  <2> QED BY <1>6, <2>2 DEF OnResetFailed
<1>7. ASSUME NEW s \in Sids, ResetStream(s)
      PROVE  Goal /\ UNCHANGED <<sent, partial_outgoing_message_, alive>>
  <2> DEFINE C == closure_initiated \cup {s}
  <2>1. SendQueuedStreamResets(C, outgoing_reset_initiated, incoming_reset_complete,
                               partial_outgoing_message_, wire["client"])
    BY <1>7 DEF ResetStream
  <2>2. C \subseteq Sids BY <1>1
  <2> HIDE DEF C
  <2>3. Goal BY ONLY <1>1, <2>1, <2>2, StackTypeOK, QueuedJoins
  <2> QED BY <1>7, <2>3 DEF ResetStream
<1> QED BY <1>3, <1>4, <1>5, <1>6, <1>7 DEF Asking

LEMMA SameLists ==
  ASSUME Accepted, HandedOver, UNCHANGED <<sent, delivered>>
  PROVE  Accepted' /\ HandedOver'
  BY DEF Accepted, HandedOver

LEMMA SendDataLine ==
  ASSUME NEW s \in Sids, NEW n \in 1..MaxFragments, StackTypeOK, ClientTypeOK, ServerTypeOK,
         StackAssumption, TransportAssumption, Accepted, HandedOver, Conserved,
         SendData(s, n), UNCHANGED serverVars
  PROVE  /\ Accepted' /\ HandedOver' /\ Conserved'
         /\ \E m \in Messages : /\ m.id = Len(sent[s]) + 1 /\ m.n = n
                                /\ sent' = [sent EXCEPT ![s] = Append(@, m)]
         /\ Len(sent'[s]) = Len(sent[s]) + 1
         /\ \A r \in Sids : \A k \in 1..Len(sent[r]) : sent'[r][k] = sent[r][k]
<1> DEFINE msg == [sid |-> s, ssn |-> ssn[s], id |-> Len(sent[s]) + 1, n |-> n]
           out == Sendv(msg, 1)
<1>1. ssn[s] \in Nat /\ sent[s] \in Seq(Messages) BY DEF StackTypeOK, ClientTypeOK
<1>2. Len(sent[s]) + 1 \in Nat BY <1>1, LenProperties
<1>3. msg \in Messages /\ msg.sid = s /\ msg.id = Len(sent[s]) + 1 /\ msg.n = n
  BY <1>1, <1>2 DEF Messages
<1>4. /\ wire' = [wire EXCEPT !["client"] = out.wire]
      /\ partial_outgoing_message_' = out.partial
      /\ sent' = [sent EXCEPT ![s] = Append(@, msg)]
      /\ Room("client", wire["client"]) > 0 /\ partial_outgoing_message_ = NoMessage
  BY DEF SendData
<1>5. UNCHANGED <<messageBuffer, lastSsnReceived, delivered>> BY DEF serverVars
<1> HIDE DEF msg
<1>6. PICK m : m = msg OBVIOUS
<1>7. m \in Messages /\ m.sid = s /\ m.id = Len(sent[s]) + 1 /\ m.n = n /\ 1 \in 1..m.n
  <2>1. 1 \in 1..n BY DEF TransportAssumption
  <2> QED BY <1>3, <1>6, <2>1
<1>8. PICK to \in 1..m.n :
        /\ Sendv(m, 1).wire = wire["client"] \o Fragments(m, 1, to)
        /\ Sendv(m, 1).partial = Left(m, to)
  BY ONLY <1>4, <1>7, StackTypeOK, StackAssumption, TransportAssumption, SendvLine
<1>9. out = Sendv(m, 1) BY <1>6
<1> HIDE DEF out
<1>10. /\ wire'["client"] = wire["client"] \o Fragments(m, 1, to)
       /\ partial_outgoing_message_' = Left(m, to)
       /\ sent' = [sent EXCEPT ![s] = Append(@, m)]
  BY <1>4, <1>6, <1>8, <1>9 DEF StackTypeOK, Ends
<1>11. /\ Accepted' /\ HandedOver' /\ Conserved'
       /\ Len(sent'[s]) = Len(sent[s]) + 1
       /\ \A r \in Sids : \A k \in 1..Len(sent[r]) : sent'[r][k] = sent[r][k]
  <2>1. partial_outgoing_message_ = NoMessage BY <1>4
  <2>2. to \in 1..m.n /\ m.sid = s /\ m.id = Len(sent[s]) + 1 BY <1>7
  <2>3. m \in Messages /\ s \in Sids BY <1>7
  <2> QED BY ONLY <1>5, <1>10, <2>1, <2>2, <2>3, StackTypeOK, ClientTypeOK, ServerTypeOK,
                  Accepted, HandedOver, Conserved, MessageJoins
<1> QED BY <1>7, <1>10, <1>11

LEMMA ThresholdLine ==
  ASSUME StackTypeOK, ClientTypeOK, ServerTypeOK, StackAssumption, TransportAssumption,
         Accepted, Conserved, OnSendThresholdCallback, UNCHANGED serverVars
  PROVE  /\ Conserved' /\ UNCHANGED sent /\ wire'["server"] = wire["server"]
         /\ outstanding'["client"] = outstanding["client"] \/ outstanding["client"] = NoRequest
<1>1. UNCHANGED <<messageBuffer, lastSsnReceived, delivered, sent>>
  BY DEF serverVars, OnSendThresholdCallback
<1>2. CASE UNCHANGED <<wire, outstanding, partial_outgoing_message_>>
  BY <1>1, <1>2, SameConserved
<1>3. CASE ~UNCHANGED <<wire, outstanding, partial_outgoing_message_>>
  <2> DEFINE msg == partial_outgoing_message_.m
             start == partial_outgoing_message_.next
             out == Sendv(msg, start)
  <2>1. partial_outgoing_message_ # NoMessage /\ SendBufferedMessage
    BY <1>3 DEF OnSendThresholdCallback
  <2>2. /\ Room("client", wire["client"]) > 0
        /\ partial_outgoing_message_' = out.partial
        /\ \/ SendQueuedStreamResets(closure_initiated, outgoing_reset_initiated,
                                     incoming_reset_complete, NoMessage, out.wire)
           \/ wire' = [wire EXCEPT !["client"] = out.wire] /\ outstanding' = outstanding
    BY <1>3, <2>1 DEF SendBufferedMessage
  <2>3. msg \in Messages BY <2>1 DEF ClientTypeOK, Partials
  <2>4. start \in 2..msg.n /\ msg.n \in Nat
    BY <2>1, <2>3 DEF Conserved, RestIsLast, Messages
  <2> HIDE DEF msg, start
  <2>5. PICK m, from : m = msg /\ from = start OBVIOUS
  <2>6. m \in Messages /\ from \in 1..m.n /\ from \in Nat /\ m.n \in Nat
    BY <2>3, <2>4, <2>5
  <2>7. PICK to \in from..m.n :
          /\ Sendv(m, from).wire = wire["client"] \o Fragments(m, from, to)
          /\ Sendv(m, from).partial = Left(m, to)
    BY ONLY <2>2, <2>6, StackTypeOK, StackAssumption, TransportAssumption, SendvLine
  <2>8. out = Sendv(m, from) BY <2>5
  <2> HIDE DEF out
  <2> DEFINE w == wire["client"] \o Fragments(m, from, to)
  <2>9. w \in Seq(Chunks)
    <3>1. to \in Nat BY <2>6
    <3>2. Fragments(m, from, to) \in Seq(Chunks) BY <2>6, <3>1, FragmentsAre
    <3> QED BY <3>2, LineType, ConcatFacts
  <2>10. out.wire = w /\ out.partial = Left(m, to) BY <2>7, <2>8
  <2> HIDE DEF w
  <2>11. /\ closure_initiated \subseteq Sids /\ incoming_reset_complete \subseteq Sids
    BY DEF ClientTypeOK
  <2>12. /\ \E x \in Seq(Chunks) : wire'["client"] = w \o x /\ Lacks(x, "data")
         /\ wire'["server"] = wire["server"]
         /\ outstanding'["client"] = outstanding["client"] \/ outstanding["client"] = NoRequest
    <3>1. CASE SendQueuedStreamResets(closure_initiated, outgoing_reset_initiated,
                                      incoming_reset_complete, NoMessage, out.wire)
      <4> DEFINE part == NoMessage
      <4>1. SendQueuedStreamResets(closure_initiated, outgoing_reset_initiated,
                                   incoming_reset_complete, part, w)
        BY <2>10, <3>1
      <4> HIDE DEF part
      <4> QED BY ONLY <2>9, <2>11, <4>1, StackTypeOK, QueuedJoins
    <3>2. CASE wire' = [wire EXCEPT !["client"] = out.wire] /\ outstanding' = outstanding
      <4>1. w \o <<>> = w /\ <<>> \in Seq(Chunks) /\ Lacks(<<>>, "data")
        BY <2>9, ConcatEmptySeq DEF Lacks
      <4>2. wire'["client"] = w /\ wire'["server"] = wire["server"]
        BY <2>10, <3>2 DEF StackTypeOK, Ends
      <4> QED BY <3>2, <4>1, <4>2
    <3> QED BY <2>2, <3>1, <3>2
  <2>13. PICK x \in Seq(Chunks) : wire'["client"] = w \o x /\ Lacks(x, "data")
    BY <2>12
  <2>14. /\ wire'["client"] = (wire["client"] \o Fragments(m, from, to)) \o x
         /\ partial_outgoing_message_' = Left(m, to)
    BY <2>2, <2>10, <2>13 DEF w
  <2>15. Conserved'
    BY <1>1, <2>1, <2>5, <2>13, <2>14, RestJoins DEF msg, start
  <2> QED BY <1>1, <2>12, <2>15
<1> QED BY <1>1, <1>2, <1>3

(* A client that is gone has nothing of consequence on the wire.           *)
Dead == ~alive => Lacks(wire["client"], "data") /\ Lacks(wire["client"], "reset")

Kept == Accepted /\ HandedOver /\ (alive => Conserved) /\ Dead

LEMMA ClientKeeps ==
  ASSUME StackTypeOK, ClientTypeOK, ServerTypeOK, StackAssumption, TransportAssumption,
         Kept, ClientNext, UNCHANGED serverVars
  PROVE  Kept'
<1>1. UNCHANGED <<messageBuffer, lastSsnReceived, delivered>> BY DEF serverVars
<1>2. Accepted /\ HandedOver /\ (alive => Conserved) BY DEF Kept
<1>3. CASE \/ Start \/ OnWritableState
           \/ \E s \in Sids : OpenStream(s) \/ SendDataBlocked(s)
           \/ ClientNotified \/ OnSenderDry \/ OnCommLost \/ OnDataFromSctp
  <2>1. UNCHANGED <<wire, sent, partial_outgoing_message_, alive>> /\ alive
    BY <1>3 DEF Start, OnWritableState, OpenStream, SendDataBlocked, ClientNotified,
                OnSenderDry, OnCommLost, OnDataFromSctp, stackVars, Runs
  <2>2. Conserved' BY <1>1, <1>2, <2>1, SameConserved
  <2>3. Accepted' /\ HandedOver' BY <1>1, <1>2, <2>1, SameLists
  <2> QED BY <2>1, <2>2, <2>3 DEF Kept, Dead
<1>4. CASE Asking
  <2>1. PICK x \in Seq(Chunks) : wire'["client"] = wire["client"] \o x /\ Lacks(x, "data")
    BY <1>4, AskJoins
  <2>2. UNCHANGED <<sent, partial_outgoing_message_, alive>> BY <1>4, AskJoins
  <2>3. alive
    BY <1>4 DEF Asking, ResetStream, OnCommUp, OnIncomingReset, OnOutgoingReset,
                OnResetFailed, Runs
  <2>4. Conserved' BY <1>1, <1>2, <2>1, <2>2, <2>3, OthersJoin
  <2>5. Accepted' /\ HandedOver' BY <1>1, <1>2, <2>2, SameLists
  <2> QED BY <2>2, <2>3, <2>4, <2>5 DEF Kept, Dead
<1>5. ASSUME NEW s \in Sids, NEW n \in 1..MaxFragments, SendData(s, n) PROVE Kept'
  <2>1. alive /\ alive' BY <1>5 DEF SendData
  <2>2. Accepted' /\ HandedOver' /\ Conserved' BY <1>2, <1>5, <2>1, SendDataLine
  <2> QED BY <2>1, <2>2 DEF Kept, Dead
<1>6. CASE OnPacketRead
  <2> DEFINE c == Arriving("client")
             rest == [wire EXCEPT !["server"] = Tail(@)]
             q == wire["client"]
  <2>1. UNCHANGED <<sent, partial_outgoing_message_, alive>> /\ alive
    BY <1>6 DEF OnPacketRead
  <2>2. \/ DataRead(c, rest) \/ SackRead(c, rest) \/ RequestRead(c, rest)
        \/ ResponseRead(c, rest) \/ AbortRead(c, rest)
    BY <1>6 DEF OnPacketRead
  <2>3. rest["client"] = q /\ q \in Seq(Chunks) /\ rest \in [Ends -> Seq(Chunks)]
    BY <1>6, ArrivingType DEF OnPacketRead, StackTypeOK, Ends, Peer
  <2> HIDE DEF c, rest
  <2>4. Conserved'
    <3>1. CASE DataRead(c, rest) \/ SackRead(c, rest) \/ ResponseRead(c, rest)
               \/ AbortRead(c, rest)
      <4>1. wire' = rest BY <3>1 DEF DataRead, SackRead, ResponseRead, AbortRead
      <4> QED BY <1>1, <1>2, <2>1, <2>3, <4>1, SameConserved
    <3>2. CASE RequestRead(c, rest)
      <4> DEFINE x == Response(TRUE)
      <4>1. wire' = [rest EXCEPT !["client"] = Append(@, x)] BY <3>2 DEF RequestRead
      <4>2. x \in Chunks /\ x.t # "data" BY ChunksMade DEF Response
      <4> HIDE DEF x
      <4>3. Append(q, x) = q \o <<x>> /\ <<x>> \in Seq(Chunks) /\ Lacks(<<x>>, "data")
        BY <2>3, <4>2, OneMore
      <4>4. wire'["client"] = q \o <<x>> BY <2>3, <4>1, <4>3 DEF Ends
      <4> QED BY <1>1, <1>2, <2>1, <4>3, <4>4, OthersJoin
    <3> QED BY <2>2, <3>1, <3>2
  <2>5. Accepted' /\ HandedOver' BY <1>1, <1>2, <2>1, SameLists
  <2> QED BY <2>1, <2>4, <2>5 DEF Kept, Dead
<1>7. CASE OnSendThresholdCallback
  <2>1. alive /\ alive' BY <1>7 DEF OnSendThresholdCallback, Runs
  <2>2. Conserved' /\ UNCHANGED sent BY <1>2, <1>7, <2>1, ThresholdLine
  <2>3. Accepted' /\ HandedOver' BY <1>1, <1>2, <2>2, SameLists
  <2> QED BY <2>1, <2>2, <2>3 DEF Kept, Dead
<1>8. CASE DestroyTransport
  <2>1. StackClose("client") /\ ~alive' /\ UNCHANGED sent BY <1>8 DEF DestroyTransport
  <2>2. Lacks(wire'["client"], "data") /\ Lacks(wire'["client"], "reset")
    BY <2>1, ClosedQueue DEF Ends
  <2>3. Accepted' /\ HandedOver' BY <1>1, <1>2, <2>1, SameLists
  <2>4. Dead' BY <2>2 DEF Dead, Lacks
  <2> QED BY <2>1, <2>3, <2>4 DEF Kept
<1> QED BY <1>3, <1>4, <1>5, <1>6, <1>7, <1>8 DEF ClientNext, RunTask, Asking

-----------------------------------------------------------------------------
(* The server's steps.                                                     *)
LEMMA ServerLeavesLine ==
  ASSUME StackTypeOK, ServerTypeOK, AssociationAssumption, ServerNext,
         ~ProcessSctpData, ~DenyReset
  PROVE  /\ wire'["client"] = wire["client"]
         /\ UNCHANGED <<messageBuffer, lastSsnReceived, delivered>>
         /\ \/ Lacks(wire'["server"], "response")
            \/ \E x \in Seq(Chunks) : /\ wire'["server"] = wire["server"] \o x
                                      /\ Lacks(x, "response")
<1> DEFINE Goal == /\ wire'["client"] = wire["client"]
                   /\ \/ Lacks(wire'["server"], "response")
                      \/ \E x \in Seq(Chunks) : /\ wire'["server"] = wire["server"] \o x
                                                /\ Lacks(x, "response")
<1>1. UNCHANGED <<messageBuffer, lastSsnReceived, delivered>>
  BY DEF ServerNext, TransportConnected, ServerUp, ServerLost, OnServerCommLost,
         HandleDataConsumer, DataChannelClosed, SendSctpMessage, DestroyAssociation
<1>2. ASSUME UNCHANGED wire PROVE Goal
  <2>1. wire["server"] \in Seq(Chunks) BY DEF StackTypeOK, Ends
  <2>2. wire["server"] = wire["server"] \o <<>> /\ <<>> \in Seq(Chunks)
        /\ Lacks(<<>>, "response")
    BY <2>1, ConcatEmptySeq DEF Lacks
  <2> QED BY <1>2, <2>2
<1>3. CASE TransportConnected \/ ServerLost \/ OnServerCommLost
  <2>1. UNCHANGED wire
    BY <1>3 DEF TransportConnected, ServerLost, OnServerCommLost, stackVars
  <2> QED BY <1>1, <1>2, <2>1
<1>4. CASE ServerUp
  <2>1. NegotiatedOs \in 0..MaxSctpStreams BY DEF AssociationAssumption
  <2>2. CASE UNCHANGED wire BY <1>1, <1>2, <2>2
  <2>3. CASE AddOutgoingStreams(TRUE, NegotiatedOs, wire["server"])
    BY <1>1, <2>1, <2>3, AddWire
  <2> QED BY <1>4, <2>2, <2>3 DEF ServerUp
<1>5. ASSUME NEW s \in Sids, HandleDataConsumer(s) PROVE Goal
  <2>1. os \in 0..MaxSctpStreams /\ AddOutgoingStreams(FALSE, os, wire["server"])
    BY <1>5 DEF HandleDataConsumer, ServerTypeOK
  <2> QED BY <2>1, AddWire
<1>6. ASSUME NEW s \in Sids, DataChannelClosed(s) PROVE Goal
  <2>1. ResetSctpStreams({s}, wire) /\ {s} \subseteq Sids /\ wire \in [Ends -> Seq(Chunks)]
    BY <1>6 DEF DataChannelClosed, StackTypeOK
  <2> QED BY <2>1, ResetSctpWire
<1>7. ASSUME NEW s \in Sids, NEW n \in MessageSizes, SendSctpMessage(s, n) PROVE Goal
  <2>1. n \in Nat OBVIOUS
  <2>2. wire'["client"] = wire["client"]
    BY <1>7 DEF SendSctpMessage, StackTypeOK, Ends
  <2> QED BY <1>7, <2>1, <2>2, SctpMessageWire
<1>8. CASE DestroyAssociation
  <2>1. StackClose("server") BY <1>8 DEF DestroyAssociation
  <2> QED BY <1>1, <2>1, ClosedQueue DEF Ends
<1> QED BY <1>1, <1>3, <1>4, <1>5, <1>6, <1>7, <1>8 DEF ServerNext

LEMMA LacksTail ==
  ASSUME NEW q \in Seq(Chunks), q # <<>>, NEW t
  PROVE  /\ Lacks(q, t) => Lacks(Tail(q), t) /\ Head(q).t # t
         /\ Head(q).t # t /\ Lacks(Tail(q), t) => Lacks(q, t)
<1>1. /\ Head(q) = q[1] /\ 1 \in DOMAIN q
      /\ \A k \in DOMAIN Tail(q) : k + 1 \in DOMAIN q /\ Tail(q)[k] = q[k + 1]
      /\ \A k \in DOMAIN q \ {1} : k - 1 \in DOMAIN Tail(q) /\ Tail(q)[k - 1] = q[k]
  BY TailFacts
<1> QED BY <1>1 DEF Lacks

LEMMA ProcessFacts ==
  ASSUME StackTypeOK, ProcessSctpData
  PROVE  LET q == wire["client"]
             c == Head(q)
         IN  /\ q \in Seq(Chunks) /\ q # <<>> /\ wire'["client"] = Tail(q)
             /\ \/ /\ c.t = "data" /\ OnData(c)
                   /\ wire'["server"] = Append(wire["server"], Sack)
                \/ /\ c.t # "data" /\ UNCHANGED <<messageBuffer, lastSsnReceived, delivered>>
                   /\ c.t = "reset" \/ wire'["server"] = wire["server"]
<1> DEFINE c == Arriving("server")
           rest == [wire EXCEPT !["client"] = Tail(@)]
           q == wire["client"]
           base == [rest EXCEPT !["server"] = Append(@, Response(TRUE))]
<1>1. /\ c \in Chunks /\ q \in Seq(Chunks) /\ q # <<>> /\ c = Head(q)
      /\ wire["server"] \in Seq(Chunks) /\ Tail(q) \in Seq(Chunks)
  BY ArrivingType DEF ProcessSctpData, Peer, Ends, Arriving
<1>2. \/ ReceiveData(c, rest) \/ ReceiveReset(c, rest)
      \/ ReceiveResponse(c, rest) \/ ReceiveAbort(c, rest)
  BY DEF ProcessSctpData
<1>3. rest \in [Ends -> Seq(Chunks)] /\ rest["server"] = wire["server"]
      /\ rest["client"] = Tail(q)
  BY <1>1 DEF StackTypeOK, Ends
<1> HIDE DEF c, rest
<1>4. CASE ReceiveData(c, rest)
  <2>1. /\ c.t = "data" /\ OnData(c)
        /\ wire' = [rest EXCEPT !["server"] = Append(@, Sack)]
    BY <1>4 DEF ReceiveData
  <2>2. wire'["client"] = Tail(q) /\ wire'["server"] = Append(wire["server"], Sack)
    BY <1>3, <2>1 DEF Ends
  <2> QED BY <1>1, <2>1, <2>2
<1>5. CASE ReceiveReset(c, rest)
  <2>1. /\ c.t = "reset" /\ ResetSctpStreams(c.sids, base)
        /\ UNCHANGED <<messageBuffer, lastSsnReceived, delivered>>
    BY <1>5 DEF ReceiveReset
  <2>2. c.sids \subseteq Sids BY <1>1, <2>1, ChunkFacts DEF Resets
  <2> DEFINE a == Append(rest["server"], Response(TRUE))
  <2>3. Response(TRUE) \in Chunks BY ChunksMade
  <2>4. a \in Seq(Chunks) BY <1>1, <1>3, <2>3, AppendFacts
  <2>5. base = [rest EXCEPT !["server"] = a] OBVIOUS
  <2> HIDE DEF a
  <2>6. base \in [Ends -> Seq(Chunks)] /\ base["client"] = Tail(q) BY <1>3, <2>4, <2>5 DEF Ends
  <2> HIDE DEF base
  <2>7. wire'["client"] = base["client"]
    BY ONLY <2>1, <2>2, <2>6, StackTypeOK, ResetSctpWire
  <2>8. wire'["client"] = Tail(q) /\ c.t # "data" BY <2>1, <2>6, <2>7
  <2> QED BY <1>1, <2>1, <2>8
<1>6. CASE ReceiveResponse(c, rest) \/ ReceiveAbort(c, rest)
  <2>1. /\ c.t # "data" /\ UNCHANGED <<messageBuffer, lastSsnReceived, delivered>>
        /\ wire' = rest
    BY <1>6 DEF ReceiveResponse, ReceiveAbort
  <2> QED BY <1>1, <1>3, <2>1
<1> QED BY <1>2, <1>4, <1>5, <1>6

(* The server hands one message over, the next of its stream, or none.     *)
Hands == \E s \in Sids :
  /\ alive /\ Len(delivered[s]) < Len(sent[s])
  /\ \E w : /\ delivered' = [delivered EXCEPT ![s] = Append(@, w)]
            /\ Reassembled(s, w) = [id |-> Len(delivered[s]) + 1,
                                    n |-> sent[s][Len(delivered[s]) + 1].n]

LEMMA ServerKeeps ==
  ASSUME StackTypeOK, ClientTypeOK, ServerTypeOK, TransportAssumption, AssociationAssumption,
         MaxFragments <= MaxMessage, Kept, ServerNext, UNCHANGED clientVars
  PROVE  Kept' /\ (UNCHANGED delivered \/ Hands)
<1>1. UNCHANGED <<alive, sent, partial_outgoing_message_>> BY DEF clientVars
<1>2. Accepted /\ HandedOver /\ (alive => Conserved) /\ Dead BY DEF Kept
<1>3. CASE ~ProcessSctpData /\ ~DenyReset
  <2>1. /\ wire'["client"] = wire["client"]
        /\ UNCHANGED <<messageBuffer, lastSsnReceived, delivered>>
    BY <1>3, ServerLeavesLine
  <2>2. alive' => Conserved' BY <1>1, <1>2, <2>1, SameConserved
  <2>3. Accepted' /\ HandedOver' BY <1>1, <1>2, <2>1, SameLists
  <2>4. Dead' BY <1>1, <1>2, <2>1 DEF Dead, Lacks
  <2> QED BY <2>1, <2>2, <2>3, <2>4 DEF Kept
<1>4. ASSUME wire["client"] # <<>>, wire["client"] \in Seq(Chunks),
             Head(wire["client"]).t # "data", wire'["client"] = Tail(wire["client"]),
             UNCHANGED <<messageBuffer, lastSsnReceived, delivered>>
      PROVE  Kept'
  <2>1. alive' => Conserved' BY <1>1, <1>2, <1>4, OtherLeaves
  <2>2. Accepted' /\ HandedOver' BY <1>1, <1>2, <1>4, SameLists
  <2>3. Dead'
    <3>1. \A t : Lacks(wire["client"], t) => Lacks(wire'["client"], t) BY <1>4, LacksTail
    <3> QED BY <1>1, <1>2, <3>1 DEF Dead, Lacks
  <2> QED BY <2>1, <2>2, <2>3 DEF Kept
<1>5. CASE DenyReset
  <2>1. /\ wire["client"] # <<>> /\ wire["client"] \in Seq(Chunks)
        /\ Head(wire["client"]).t = "reset" /\ wire'["client"] = Tail(wire["client"])
        /\ UNCHANGED <<messageBuffer, lastSsnReceived, delivered>>
    BY <1>5, ArrivingType DEF DenyReset, Peer, Ends, Arriving, serverVars
  <2>2. Head(wire["client"]).t # "data" BY <2>1
  <2> QED BY <1>4, <2>1, <2>2
<1>6. CASE ProcessSctpData
  <2> DEFINE q == wire["client"]
  <2>0. PICK c : c = Head(q) OBVIOUS
  <2>1. q \in Seq(Chunks) /\ q # <<>> /\ wire'["client"] = Tail(q) BY <1>6, ProcessFacts
  <2>2. \/ c.t = "data" /\ OnData(c)
        \/ c.t # "data" /\ UNCHANGED <<messageBuffer, lastSsnReceived, delivered>>
    BY <1>6, <2>0, ProcessFacts
  <2>3. CASE c.t # "data" BY <1>4, <2>0, <2>1, <2>2, <2>3
  <2>4. CASE c.t = "data"
    <3>1. alive /\ Conserved /\ OnData(c)
      <4>1. ~Lacks(q, "data") BY <2>0, <2>1, <2>4, LacksTail
      <4> QED BY <1>2, <2>2, <2>4, <4>1 DEF Dead
    <3>2. Dead' BY <1>1, <3>1 DEF Dead
    <3>3. CASE ~c.eor
      <4>1. Conserved' /\ delivered' = delivered
        BY <1>1, <1>2, <2>0, <2>1, <2>4, <3>1, <3>3, DataIsKept
      <4>2. Accepted' /\ HandedOver' BY <1>1, <1>2, <4>1, SameLists
      <4> QED BY <3>2, <4>1, <4>2 DEF Kept
    <3>4. CASE c.eor
      <4>1. /\ Conserved' /\ HandedOver'
            /\ c.sid \in Sids /\ Len(delivered[c.sid]) < Len(sent[c.sid])
            /\ \E w : /\ delivered' = [delivered EXCEPT ![c.sid] = Append(@, w)]
                      /\ Reassembled(c.sid, w) =
                           [id |-> Len(delivered[c.sid]) + 1,
                            n |-> sent[c.sid][Len(delivered[c.sid]) + 1].n]
        BY <1>1, <1>2, <2>0, <2>1, <2>4, <3>1, <3>4, DataIsHandedOver
      <4>2. Hands BY <3>1, <4>1 DEF Hands
      <4>3. Accepted' BY <1>1, <1>2 DEF Accepted
      <4> QED BY SMTT(40), <3>2, <4>1, <4>2, <4>3 DEF Kept
    <3> QED BY <3>3, <3>4
  <2> QED BY <2>3, <2>4
<1> QED BY <1>3, <1>5, <1>6 DEF DenyReset, serverVars

-----------------------------------------------------------------------------
(* What was sent on a stream is handed over before its reset is answered.  *)
Flushed(s) == Len(delivered[s]) = Len(sent[s])

Outs(q, s) == \E k \in DOMAIN q : q[k].t = "outgoing" /\ s \in q[k].sids

Ended(s) == \/ s \in outgoing_reset_complete
            \/ Outs(tasks, s)
            \/ s \in Requested("client") /\ ~Lacks(wire["server"], "response")

Flushing == \A s \in Sids : Ended(s) => Flushed(s)

LEMMA OutsFacts ==
  ASSUME NEW s
  PROVE  /\ \A q \in Seq(Tasks) : q # <<>> =>
              /\ Outs(Tail(q), s) => Outs(q, s)
              /\ Head(q).t = "outgoing" /\ s \in Head(q).sids => Outs(q, s)
         /\ \A q, x \in Seq(Tasks) : Outs(q \o x, s) => Outs(q, s) \/ Outs(x, s)
<1>1. ASSUME NEW q \in Seq(Tasks), q # <<>>
      PROVE  /\ Outs(Tail(q), s) => Outs(q, s)
             /\ Head(q).t = "outgoing" /\ s \in Head(q).sids => Outs(q, s)
  <2>1. /\ Head(q) = q[1] /\ 1 \in DOMAIN q
        /\ \A k \in DOMAIN Tail(q) : k + 1 \in DOMAIN q /\ Tail(q)[k] = q[k + 1]
    BY <1>1, TailFacts
  <2> QED BY <2>1 DEF Outs
<1>2. ASSUME NEW q \in Seq(Tasks), NEW x \in Seq(Tasks), Outs(q \o x, s)
      PROVE  Outs(q, s) \/ Outs(x, s)
  <2> DEFINE y == q \o x
  <2>1. /\ \A k \in DOMAIN q : k \in DOMAIN y /\ y[k] = q[k]
        /\ \A k \in DOMAIN y \ DOMAIN q : k - Len(q) \in DOMAIN x /\ y[k] = x[k - Len(q)]
    BY ConcatFacts
  <2> HIDE DEF y
  <2>2. PICK k \in DOMAIN y : y[k].t = "outgoing" /\ s \in y[k].sids BY <1>2 DEF Outs, y
  <2> QED BY <2>1, <2>2 DEF Outs
<1> QED BY <1>1, <1>2

LEMMA LacksMore ==
  ASSUME NEW q \in Seq(Chunks), NEW x \in Seq(Chunks), NEW t, Lacks(q, t), Lacks(x, t)
  PROVE  Lacks(q \o x, t)
<1>1. \A k \in DOMAIN (q \o x) : \/ k \in DOMAIN q /\ (q \o x)[k] = q[k]
                                 \/ k - Len(q) \in DOMAIN x /\ (q \o x)[k] = x[k - Len(q)]
  BY ConcatFacts
<1> QED BY <1>1 DEF Lacks

(* At the head of the wire, the reset of a stream has nothing before it.   *)
LEMMA FlushedAtReset ==
  ASSUME StackTypeOK, ClientTypeOK, ServerTypeOK, Accepted, HandedOver, Conserved, Closings,
         WireGood, wire["client"] # <<>>, Head(wire["client"]).t = "reset",
         NEW s \in Sids, s \in Requested("client")
  PROVE  Flushed(s)
<1> DEFINE q == wire["client"]
           b == messageBuffer
<1>1. b \in Seq(DataChunks) /\ b \in Seq(Chunks) /\ q \in Seq(Chunks) BY LineType
<1>2. Tokens(q, wire["server"], outstanding["client"]) /\ Behind(q) BY DEF WireGood
<1>3. outstanding["client"] = Head(q)
  <2> HIDE DEF q
  <2> QED BY <1>1, <1>2, TokensTakeClient DEF q
<1>4. s \in Head(q).sids BY <1>3 DEF Requested
<1>5. /\ Len(sent[s]) \in Nat /\ Len(delivered[s]) \in Nat /\ Len(delivered[s]) <= Len(sent[s])
  BY SentType DEF HandedOver
<1> SUFFICES ASSUME Len(delivered[s]) < Len(sent[s]) PROVE FALSE
  BY <1>5 DEF Flushed
<1>6. PICK k, m : k = Len(delivered[s]) + 1 /\ m = sent[s][k] OBVIOUS
<1>7. k \in Nat /\ k > Len(delivered[s]) /\ k <= Len(sent[s]) /\ k \in 1..Len(sent[s])
  BY <1>5, <1>6
<1>8. m \in Messages /\ m.sid = s /\ m.id = k /\ m.n \in 1..MaxFragments
  BY <1>6, <1>7, SentType
<1>9. m.n \in Nat /\ m.n \in 1..m.n
  <2>1. m.n \in Int BY <1>8 DEF Messages
  <2> QED BY <1>8, <2>1
<1>10. partial_outgoing_message_ # NoMessage => partial_outgoing_message_.m.sid # s
  BY DEF Closings, PartialFree, Free
<1>11. PICK e : e = Frag(m, m.n) OBVIOUS
<1>12. e \in DataOf(Line)
  <2>1. Owed(Frag(sent[s][k], m.n)) BY <1>6, <1>7, <1>9, <1>10, OwedMade
  <2> QED BY <1>6, <1>11, <2>1 DEF Conserved, Exact
<1>13. e.sid = s /\ e.id = k /\ e.i = m.n /\ e.t = "data" BY <1>8, <1>9, <1>11, FragFacts
<1>14. e \notin DataOf(q)
  <2> SUFFICES ASSUME NEW j \in DOMAIN q, q[j] = e PROVE FALSE BY DEF DataOf
  <2>1. Head(q) = q[1] /\ 1 \in DOMAIN q
    <3> HIDE DEF q
    <3> QED BY <1>1, TailFacts DEF q
  <2>2. j \in Nat \ {0}
    <3>1. DOMAIN q = 1..Len(q) BY <1>1, LenProperties
    <3> QED BY <3>1
  <2>3. j # 1 BY <1>13, <2>1
  <2>4. j > 1 BY <2>2, <2>3
  <2> QED BY <1>2, <1>4, <1>13, <2>1, <2>4 DEF Behind
<1>15. e \in DataOf(b)
  <2>1. DataOf(Line) = DataOf(b) \cup DataOf(q) BY <1>1, DataMore DEF Line
  <2> QED BY <1>12, <1>14, <2>1
<1>16. PICK j \in DOMAIN b : b[j] = e BY <1>15 DEF DataOf
<1>17. j \in 1..Len(b) /\ Len(b) \in Nat BY <1>1, LenProperties
<1>18. b # <<>>
  <2>1. DOMAIN <<>> = {} OBVIOUS
  <2> QED BY <1>16, <2>1
<1>19. PICK r \in Sids : /\ Len(delivered[r]) < Len(sent[r])
                         /\ Begun(sent[r][Len(delivered[r]) + 1])
  BY <1>18 DEF Conserved, BufferBegins
<1>20. PICK p : p = sent[r][Len(delivered[r]) + 1] OBVIOUS
<1>21. /\ Len(sent[r]) \in Nat /\ Len(delivered[r]) \in Nat BY SentType
<1>22. Len(delivered[r]) + 1 \in 1..Len(sent[r]) BY <1>19, <1>21
<1>23. p \in Messages /\ p.sid = r BY <1>20, <1>22, SentType
<1>24. b[j] = Frag(p, j) /\ Len(b) < p.n BY <1>16, <1>19, <1>20 DEF Begun
<1>25. e.sid = r /\ e.i = j BY <1>16, <1>17, <1>23, <1>24, FragFacts
<1>26. r = s /\ p = m /\ j = m.n BY <1>6, <1>13, <1>20, <1>25
<1> QED BY <1>9, <1>17, <1>24, <1>26

LEMMA FlushingKept ==
  ASSUME Flushing, UNCHANGED <<sent, delivered>>, \A s \in Sids : Ended(s)' => Ended(s)
  PROVE  Flushing'
  BY DEF Flushing, Flushed

LEMMA AskFlushes ==
  ASSUME StackTypeOK, ClientTypeOK, WireGood, Flushing, Asking, UNCHANGED serverVars
  PROVE  Flushing'
<1>1. /\ wire'["server"] = wire["server"]
      /\ outstanding'["client"] = outstanding["client"] \/ outstanding["client"] = NoRequest
      /\ UNCHANGED <<sent, partial_outgoing_message_, alive>>
  BY AskJoins
<1>2. UNCHANGED delivered BY DEF serverVars
<1>3. tasks \in Seq(Tasks) BY DEF ClientTypeOK
<1>4. ASSUME NEW s \in Sids, s \in Requested("client")', ~Lacks(wire'["server"], "response")
      PROVE  Ended(s)
  <2>1. ~Lacks(wire["server"], "response") BY <1>1, <1>4
  <2>2. outstanding["client"] # NoRequest BY <2>1 DEF WireGood, Tokens, Lacks
  <2>3. outstanding'["client"] = outstanding["client"] BY <1>1, <2>2
  <2>4. s \in Requested("client") BY <1>4, <2>3 DEF Requested
  <2> QED BY <2>1, <2>4 DEF Ended
<1>5. ASSUME NEW s \in Sids, Outs(tasks', s) PROVE Ended(s)
  <2>1. CASE \E r \in Sids : ResetStream(r) BY <1>5, <2>1 DEF ResetStream, Ended
  <2>2. CASE OnCommUp \/ OnIncomingReset \/ OnOutgoingReset \/ OnResetFailed
    <3>1. tasks # <<>> /\ tasks' = Tail(tasks)
      BY <2>2 DEF OnCommUp, OnIncomingReset, OnOutgoingReset, OnResetFailed, Runs
    <3> QED BY <1>3, <1>5, <3>1, OutsFacts DEF Ended
  <2> QED BY <2>1, <2>2 DEF Asking
<1>6. ASSUME NEW s \in Sids, s \in outgoing_reset_complete' PROVE Ended(s)
  <2>1. CASE (\E r \in Sids : ResetStream(r)) \/ OnCommUp \/ OnIncomingReset \/ OnResetFailed
    BY <1>6, <2>1 DEF ResetStream, OnCommUp, OnIncomingReset, OnResetFailed, OnStreamReset,
                      Ended
  <2>2. CASE OnOutgoingReset
    <3>1. /\ tasks # <<>> /\ Head(tasks).t = "outgoing"
          /\ outgoing_reset_complete' \subseteq outgoing_reset_complete \cup Head(tasks).sids
      BY <2>2 DEF OnOutgoingReset, OnStreamReset, Runs
    <3> QED BY <1>3, <1>6, <3>1, OutsFacts DEF Ended
  <2> QED BY <2>1, <2>2 DEF Asking
<1>7. \A s \in Sids : Ended(s)' => Ended(s) BY <1>4, <1>5, <1>6 DEF Ended, Outs, Lacks
<1> QED BY <1>1, <1>2, <1>7, FlushingKept

LEMMA PostFlushes ==
  ASSUME ClientTypeOK, NEW new \in Seq(Tasks), Post(new),
         \A k \in DOMAIN new : new[k].t # "outgoing", NEW s, Outs(tasks', s)
  PROVE  Outs(tasks, s)
<1>1. tasks \in Seq(Tasks) /\ tasks' = tasks \o new BY DEF ClientTypeOK, Post
<1>2. Outs(tasks \o new, s) BY <1>1
<1>3. Outs(tasks, s) \/ Outs(new, s) BY <1>1, <1>2, OutsFacts
<1> QED BY <1>3 DEF Outs

LEMMA PacketFlushes ==
  ASSUME StackTypeOK, ClientTypeOK, WireGood, Flushing, OnPacketRead, UNCHANGED serverVars
  PROVE  Flushing'
<1> DEFINE c == Arriving("client")
           rest == [wire EXCEPT !["server"] = Tail(@)]
           r == wire["server"]
<1>1. c \in Chunks /\ r \in Seq(Chunks) /\ r # <<>> /\ c = Head(r)
  BY ArrivingType DEF OnPacketRead, Peer, Ends, Arriving
<1>2. rest["server"] = Tail(r) /\ rest \in [Ends -> Seq(Chunks)]
  BY <1>1, ArrivingType DEF OnPacketRead, StackTypeOK, Ends, Peer
<1>3. \/ DataRead(c, rest) \/ SackRead(c, rest) \/ RequestRead(c, rest)
      \/ ResponseRead(c, rest) \/ AbortRead(c, rest)
  BY DEF OnPacketRead
<1>4. UNCHANGED <<sent, delivered, outgoing_reset_complete>>
  BY DEF OnPacketRead, serverVars, statusVars
<1>5. tasks \in Seq(Tasks) BY DEF ClientTypeOK
<1> HIDE DEF c, rest
<1>6. wire'["server"] = Tail(r)
  BY <1>2, <1>3 DEF DataRead, SackRead, RequestRead, ResponseRead, AbortRead, Ends
<1>7. /\ ~Lacks(Tail(r), "response") => ~Lacks(r, "response")
      /\ c.t = "response" => ~Lacks(r, "response")
  <2> HIDE DEF r
  <2> QED BY <1>1, LacksTail DEF r
<1>8. CASE ~ResponseRead(c, rest)
  <2>1. outstanding' = outstanding
    BY <1>3, <1>8 DEF DataRead, SackRead, RequestRead, AbortRead
  <2>2. \E new \in Seq(Tasks) : Post(new) /\ \A k \in DOMAIN new : new[k].t # "outgoing"
    <3>1. ASSUME NEW x \in Tasks, x.t # "outgoing", Post(<<x>>)
          PROVE  \E new \in Seq(Tasks) : Post(new) /\ \A k \in DOMAIN new : new[k].t # "outgoing"
      <4> DEFINE new == <<x>>
      <4>1. new \in Seq(Tasks) /\ DOMAIN new = {1} /\ new[1] = x OBVIOUS
      <4> HIDE DEF new
      <4>2. Post(new) BY <3>1 DEF new
      <4> QED BY <3>1, <4>1, <4>2
    <3>2. CASE DataRead(c, rest)
      <4>1. c \in Tasks /\ c.t # "outgoing" /\ Post(<<c>>)
        BY <1>1, <3>2, ChunkFacts, TasksMade DEF DataRead
      <4> QED BY <3>1, <4>1
    <3>3. CASE SackRead(c, rest)
      <4> DEFINE both == <<Task("dry"), Task("threshold")>>
      <4>1. Post(both) \/ Post(<<Task("threshold")>>) BY <3>3 DEF SackRead
      <4>2. /\ Task("threshold") \in Tasks /\ Task("threshold").t # "outgoing"
            /\ Task("dry") \in Tasks /\ Task("dry").t # "outgoing"
        BY TasksMade DEF Task
      <4>3. both \in Seq(Tasks) /\ \A k \in DOMAIN both : both[k].t # "outgoing"
        <5>1. DOMAIN both = {1, 2} /\ both[1] = Task("dry") /\ both[2] = Task("threshold")
          OBVIOUS
        <5> QED BY <4>2, <5>1
      <4> HIDE DEF both
      <4> QED BY <3>1, <4>1, <4>2, <4>3
    <3>4. CASE RequestRead(c, rest)
      <4>1. CASE c.t = "reset"
        <5>1. c \in Tasks /\ c.t # "outgoing" /\ Post(<<c>>)
          BY <1>1, <3>4, <4>1, ChunkFacts, TasksMade DEF RequestRead
        <5> QED BY <3>1, <5>1
      <4>2. CASE c.t # "reset"
        <5>1. tasks' = tasks BY <3>4, <4>2 DEF RequestRead
        <5>2. tasks \o <<>> = tasks /\ <<>> \in Seq(Tasks) /\ DOMAIN <<>> = {}
          BY <1>5, ConcatEmptySeq
        <5> DEFINE new == <<>>
        <5>3. Post(new) /\ new \in Seq(Tasks) /\ DOMAIN new = {} BY <5>1, <5>2 DEF Post
        <5> HIDE DEF new
        <5> QED BY <5>3
      <4> QED BY <4>1, <4>2
    <3>5. CASE AbortRead(c, rest)
      <4>1. Task("commlost") \in Tasks /\ Task("commlost").t # "outgoing"
            /\ Post(<<Task("commlost")>>)
        BY <3>5, TasksMade DEF AbortRead, Task
      <4> QED BY <3>1, <4>1
    <3> QED BY <1>3, <1>8, <3>2, <3>3, <3>4, <3>5
  <2>3. \A s \in Sids : Outs(tasks', s) => Outs(tasks, s) BY <2>2, PostFlushes
  <2>4. \A s \in Sids : Ended(s)' => Ended(s)
    BY <1>4, <1>6, <1>7, <2>1, <2>3 DEF Ended, Requested, Outs, Lacks
  <2> QED BY <1>4, <2>4, FlushingKept
<1>9. CASE ResponseRead(c, rest)
  <2> DEFINE new == IF c.ok THEN <<[t |-> "outgoing", sids |-> Requested("client")]>>
                            ELSE <<Task("failed")>>
  <2>1. /\ c.t = "response" /\ Post(new)
        /\ outstanding' = [outstanding EXCEPT !["client"] = NoRequest]
    BY <1>9 DEF ResponseRead
  <2>2. ~Lacks(r, "response") BY <1>7, <2>1
  <2>3. Requested("client") \in SUBSET Sids BY RequestFacts DEF Ends
  <2>4. new \in Seq(Tasks) /\ \A s : Outs(new, s) => s \in Requested("client")
    <3> DEFINE x == [t |-> "outgoing", sids |-> Requested("client")]
    <3>1. x \in Tasks /\ Task("failed") \in Tasks BY <2>3, TasksMade
    <3>2. DOMAIN <<x>> = {1} /\ <<x>>[1] = x /\ x.sids = Requested("client") OBVIOUS
    <3>3. DOMAIN <<Task("failed")>> = {1} /\ <<Task("failed")>>[1] = Task("failed") OBVIOUS
    <3>4. Task("failed").t # "outgoing" BY DEF Task
    <3>5. new = <<x>> \/ new = <<Task("failed")>> OBVIOUS
    <3> HIDE DEF x, new
    <3>6. CASE new = <<x>> BY <3>1, <3>2, <3>6 DEF Outs
    <3>7. CASE new = <<Task("failed")>> BY <3>1, <3>3, <3>4, <3>7 DEF Outs
    <3> QED BY <3>5, <3>6, <3>7
  <2> HIDE DEF new
  <2>5. \A s \in Sids : Outs(tasks', s) => Outs(tasks, s) \/ s \in Requested("client")
    <3> TAKE s \in Sids
    <3>1. tasks' = tasks \o new BY <2>1 DEF Post
    <3>2. Outs(tasks \o new, s) => Outs(tasks, s) \/ Outs(new, s) BY <1>5, <2>4, OutsFacts
    <3> QED BY <2>4, <3>1, <3>2
  <2>6. Requested("client")' = {}
    <3>1. outstanding'["client"] = NoRequest BY <2>1 DEF StackTypeOK, Ends
    <3> QED BY <3>1 DEF Requested, NoRequest
  <2>7. \A s \in Sids : Ended(s)' => Ended(s)
    BY <1>4, <2>2, <2>5, <2>6 DEF Ended, Outs
  <2> QED BY <1>4, <2>7, FlushingKept
<1> QED BY <1>8, <1>9

LEMMA ClientFlushes ==
  ASSUME StackTypeOK, ClientTypeOK, ServerTypeOK, StackAssumption, TransportAssumption,
         Closings, WireGood, Kept, Flushing, ClientNext, UNCHANGED serverVars
  PROVE  Flushing'
<1>1. UNCHANGED delivered BY DEF serverVars
<1>2. Accepted /\ HandedOver /\ (alive => Conserved) BY DEF Kept
<1>3. tasks \in Seq(Tasks) BY DEF ClientTypeOK
<1>4. CASE \/ Start \/ OnWritableState
           \/ \E s \in Sids : OpenStream(s) \/ SendDataBlocked(s)
           \/ ClientNotified \/ OnSenderDry \/ OnCommLost \/ OnDataFromSctp
  <2>1. UNCHANGED <<wire, sent, outstanding, outgoing_reset_complete>>
    BY <1>4 DEF Start, OnWritableState, OpenStream, SendDataBlocked, ClientNotified,
                OnSenderDry, OnCommLost, OnDataFromSctp, stackVars, statusVars
  <2>2. \A s \in Sids : Outs(tasks', s) => Outs(tasks, s)
    <3>1. CASE \/ Start \/ OnWritableState
               \/ \E s \in Sids : OpenStream(s) \/ SendDataBlocked(s)
      <4>1. UNCHANGED tasks
        BY <3>1 DEF Start, OnWritableState, OpenStream, SendDataBlocked
      <4> QED BY <4>1
    <3>2. CASE ClientNotified
      <4>1. PICK t \in {Task("commup"), Task("commlost")} : Post(<<t>>)
        BY <3>2 DEF ClientNotified
      <4>2. t \in Tasks /\ t.t # "outgoing" BY TasksMade DEF Task
      <4> DEFINE new == <<t>>
      <4>3. new \in Seq(Tasks) /\ \A k \in DOMAIN new : new[k].t # "outgoing"
        BY <4>2
      <4>4. Post(new) BY <4>1
      <4> HIDE DEF new
      <4> QED BY <4>3, <4>4, PostFlushes
    <3>3. CASE OnSenderDry \/ OnCommLost \/ OnDataFromSctp
      <4>1. tasks # <<>> /\ tasks' = Tail(tasks)
        BY <3>3 DEF OnSenderDry, OnCommLost, OnDataFromSctp, Runs
      <4> QED BY <1>3, <4>1, OutsFacts
    <3> QED BY <1>4, <3>1, <3>2, <3>3
  <2>3. \A s \in Sids : Ended(s)' => Ended(s)
    BY <2>1, <2>2 DEF Ended, Requested, Outs, Lacks
  <2> QED BY <1>1, <2>1, <2>3, FlushingKept
<1>5. CASE Asking BY <1>5, AskFlushes
<1>6. ASSUME NEW s \in Sids, NEW n \in 1..MaxFragments, SendData(s, n) PROVE Flushing'
  <2>1. /\ UNCHANGED <<outstanding, outgoing_reset_complete, tasks>> /\ is_open(s)
        /\ wire'["server"] = wire["server"]
    BY <1>6 DEF SendData, statusVars, StackTypeOK, Ends
  <2>2. s \notin outgoing_reset_complete /\ Free(s, tasks, Requested("client"))
    BY <2>1, OpenFree
  <2>3. ~Ended(s) BY <2>2 DEF Ended, Outs, Free
  <2>4. \A r \in Sids : Ended(r)' => Ended(r)
    BY <2>1 DEF Ended, Requested, Outs, Lacks
  <2>5. \A r \in Sids \ {s} : sent'[r] = sent[r] BY <1>6 DEF SendData, ClientTypeOK
  <2> QED BY <1>1, <2>3, <2>4, <2>5 DEF Flushing, Flushed
<1>7. CASE OnPacketRead BY <1>7, PacketFlushes
<1>8. CASE OnSendThresholdCallback
  <2>1. alive /\ Conserved /\ tasks # <<>> /\ tasks' = Tail(tasks)
    BY <1>2, <1>8 DEF OnSendThresholdCallback, Runs
  <2>2. /\ UNCHANGED sent /\ wire'["server"] = wire["server"]
        /\ outstanding'["client"] = outstanding["client"] \/ outstanding["client"] = NoRequest
    BY <1>2, <1>8, <2>1, ThresholdLine
  <2>3. UNCHANGED outgoing_reset_complete BY <1>8 DEF OnSendThresholdCallback
  <2>4. ASSUME NEW s \in Sids, s \in Requested("client")', ~Lacks(wire["server"], "response")
        PROVE  s \in Requested("client")
    <3>1. outstanding["client"] # NoRequest BY <2>4 DEF WireGood, Tokens, Lacks
    <3>2. outstanding'["client"] = outstanding["client"] BY <2>2, <3>1
    <3> QED BY <2>4, <3>2 DEF Requested
  <2>5. \A s \in Sids : Outs(tasks', s) => Outs(tasks, s) BY <1>3, <2>1, OutsFacts
  <2>6. \A s \in Sids : Ended(s)' => Ended(s)
    BY <2>2, <2>3, <2>4, <2>5 DEF Ended, Outs, Lacks
  <2> QED BY <1>1, <2>2, <2>6, FlushingKept
<1>9. CASE DestroyTransport
  <2>1. /\ StackClose("client") /\ tasks' = <<>>
        /\ UNCHANGED <<sent, outstanding, outgoing_reset_complete>>
    BY <1>9 DEF DestroyTransport, statusVars
  <2>2. wire'["server"] = wire["server"] BY <2>1, ClosedQueue DEF Ends
  <2>3. \A s : ~Outs(<<>>, s)
    <3>1. DOMAIN <<>> = {} OBVIOUS
    <3> QED BY <3>1 DEF Outs
  <2>4. \A s \in Sids : Ended(s)' => Ended(s)
    BY <2>1, <2>2, <2>3 DEF Ended, Requested, Outs, Lacks
  <2> QED BY <1>1, <2>1, <2>4, FlushingKept
<1> QED BY <1>4, <1>5, <1>6, <1>7, <1>8, <1>9 DEF ClientNext, RunTask, Asking

LEMMA ServerFlushes ==
  ASSUME StackTypeOK, ClientTypeOK, ServerTypeOK, TransportAssumption, AssociationAssumption,
         MaxFragments <= MaxMessage, Closings, WireGood, Kept, Flushing,
         ServerNext, UNCHANGED clientVars, ~denied'
  PROVE  Flushing'
<1> DEFINE q == wire["client"]
           r == wire["server"]
<1>1. UNCHANGED <<sent, tasks, outgoing_reset_complete>> BY DEF clientVars, statusVars
<1>2. outstanding'["client"] = outstanding["client"] BY ServerKeepsRequest
<1>3. r \in Seq(Chunks) BY DEF StackTypeOK, Ends
<1>4. UNCHANGED delivered \/ Hands BY ServerKeeps
<1>5. /\ Requested("client")' = Requested("client")
      /\ \A s : Outs(tasks', s) => Outs(tasks, s)
  BY <1>1, <1>2 DEF Requested
<1>6. ASSUME UNCHANGED delivered, \A s \in Sids : Ended(s)' => Ended(s) PROVE Flushing'
  BY <1>1, <1>6, FlushingKept
<1>7. ASSUME ~Lacks(wire'["server"], "response") => ~Lacks(r, "response"), NEW s, Ended(s)'
      PROVE  Ended(s)
  BY <1>1, <1>5, <1>7 DEF Ended, Outs, Lacks
<1> HIDE DEF q, r
<1>8. CASE ~ProcessSctpData
  <2>1. ~DenyReset BY DEF DenyReset
  <2>2. /\ UNCHANGED delivered
        /\ \/ Lacks(wire'["server"], "response")
           \/ \E x \in Seq(Chunks) : wire'["server"] = r \o x /\ Lacks(x, "response")
    BY <1>8, <2>1, ServerLeavesLine DEF r
  <2>3. ~Lacks(wire'["server"], "response") => ~Lacks(r, "response")
    <3>1. ASSUME NEW x \in Seq(Chunks), wire'["server"] = r \o x, Lacks(x, "response"),
                 Lacks(r, "response")
          PROVE  Lacks(wire'["server"], "response")
      <4>1. Lacks(r \o x, "response") BY <1>3, <3>1, LacksMore
      <4> QED BY <3>1, <4>1
    <3> QED BY <2>2, <3>1
  <2> QED BY <1>6, <1>7, <2>2, <2>3
<1>9. CASE ProcessSctpData
  <2>0. PICK c : c = Head(q) OBVIOUS
  <2>1. /\ q \in Seq(Chunks) /\ q # <<>> /\ wire'["client"] = Tail(q)
        /\ \/ c.t = "data" /\ wire'["server"] = Append(r, Sack)
           \/ /\ c.t # "data" /\ UNCHANGED delivered
              /\ c.t = "reset" \/ wire'["server"] = r
    BY <1>9, <2>0, ProcessFacts DEF q, r
  <2>3. CASE c.t = "data"
    <3>1. wire'["server"] = r \o <<Sack>> /\ <<Sack>> \in Seq(Chunks)
          /\ Lacks(<<Sack>>, "response")
      <4>1. Sack \in Chunks /\ Sack.t # "response" BY ChunksMade DEF Sack
      <4> QED BY <1>3, <2>1, <2>3, <4>1, OneMore
    <3>2. ~Lacks(wire'["server"], "response") => ~Lacks(r, "response")
      <4>1. ASSUME Lacks(r, "response") PROVE Lacks(wire'["server"], "response")
        <5>1. Lacks(r \o <<Sack>>, "response") BY <1>3, <3>1, <4>1, LacksMore
        <5> QED BY <3>1, <5>1
      <4> QED BY <4>1
    <3>3. CASE UNCHANGED delivered BY <1>6, <1>7, <3>2, <3>3
    <3>4. CASE Hands
      <4>1. PICK s \in Sids : /\ Len(delivered[s]) < Len(sent[s])
                              /\ \E w : delivered' = [delivered EXCEPT ![s] = Append(@, w)]
        BY <3>4 DEF Hands
      <4>2. Len(delivered[s]) \in Nat /\ Len(sent[s]) \in Nat BY SentType DEF Kept
      <4>3. ~Flushed(s) BY <4>1, <4>2 DEF Flushed
      <4>4. ~Ended(s)' BY <1>7, <3>2, <4>3 DEF Flushing
      <4>5. \A z \in Sids \ {s} : delivered'[z] = delivered[z] BY <4>1 DEF ServerTypeOK
      <4>6. ASSUME NEW z \in Sids, Ended(z)' PROVE Flushed(z)'
        <5>1. z # s BY <4>4, <4>6
        <5>2. Flushed(z) BY <1>7, <3>2, <4>6 DEF Flushing
        <5> QED BY <1>1, <4>5, <5>1, <5>2 DEF Flushed
      <4> QED BY <4>6 DEF Flushing
    <3> QED BY <1>4, <3>3, <3>4
  <2>4. CASE c.t = "reset"
    <3>1. UNCHANGED delivered /\ q # <<>> /\ Head(q).t = "reset" BY <2>0, <2>1, <2>4
    <3>2. Accepted /\ HandedOver /\ Conserved
      <4>1. ~Lacks(q, "reset") BY <2>1, <3>1, LacksTail
      <4> QED BY <4>1 DEF Kept, Dead, q
    <3>3. ASSUME NEW s \in Sids, Ended(s)' PROVE Flushed(s)
      <4>1. CASE s \in Requested("client")
        BY <3>1, <3>2, <4>1, FlushedAtReset DEF q
      <4>2. CASE s \notin Requested("client")
        <5>1. Ended(s) BY <1>1, <1>5, <3>3, <4>2 DEF Ended, Outs
        <5> QED BY <5>1 DEF Flushing
      <4> QED BY <4>1, <4>2
    <3> QED BY <1>1, <3>1, <3>3 DEF Flushing, Flushed
  <2>5. CASE wire'["server"] = r /\ UNCHANGED delivered BY <1>6, <1>7, <2>5
  <2> QED BY <2>1, <2>3, <2>4, <2>5
<1> QED BY <1>8, <1>9

-----------------------------------------------------------------------------
DInv == Kept /\ (~denied => Flushing)

LEMMA DInvInit ==
  ASSUME Init
  PROVE  DInv
<1>1. /\ wire["client"] = <<>> /\ wire["server"] = <<>> /\ outstanding["client"] = NoRequest
      /\ tasks = <<>> /\ outgoing_reset_complete = {} /\ partial_outgoing_message_ = NoMessage
      /\ messageBuffer = <<>>
      /\ \A s \in Sids : sent[s] = <<>> /\ delivered[s] = <<>>
  BY DEF Init, StackInit, ClientInit, ServerInit, Ends
<1>2. DOMAIN <<>> = {} /\ Len(<<>>) = 0 OBVIOUS
<1>3. Accepted /\ HandedOver BY <1>1, <1>2 DEF Accepted, HandedOver
<1>4. Dead BY <1>1, <1>2 DEF Dead, Lacks
<1>5. Line = <<>> BY <1>1 DEF Line
<1>6. Conserved
  <2>1. DataOf(Line) = {} BY <1>2, <1>5 DEF DataOf
  <2>2. InOrder(Line) /\ Apart(Line) BY <1>2, <1>5 DEF InOrder, Apart
  <2>3. RestIsLast /\ BufferBegins BY <1>1, <1>2 DEF RestIsLast, BufferBegins
  <2>4. \A c \in DataChunks : c.sid \in Sids /\ c.id \in Nat BY DEF DataChunks
  <2>5. \A c : ~Owed(c) BY <1>1, <1>2, <2>4 DEF Owed
  <2>6. Exact BY <2>1, <2>5 DEF Exact
  <2> QED BY <2>2, <2>3, <2>6 DEF Conserved
<1>7. Flushing
  <2>1. Requested("client") = {} BY <1>1 DEF Requested, NoRequest
  <2>2. \A s \in Sids : ~Ended(s) BY <1>1, <1>2, <2>1 DEF Ended, Outs
  <2> QED BY <2>2 DEF Flushing
<1> QED BY <1>3, <1>4, <1>6, <1>7 DEF Kept, DInv

LEMMA DInvStep ==
  ASSUME Constants, MaxFragments <= MaxMessage, TInv, SInv, DInv, [Next]_vars
  PROVE  DInv'
<1>1. /\ StackTypeOK /\ ClientTypeOK /\ ServerTypeOK
      /\ StackAssumption /\ TransportAssumption /\ AssociationAssumption
  BY DEF TInv, TypeOK, Constants
<1>2. Kept BY DEF DInv
<1>3. CASE Client(ClientNext)
  <2>1. ClientNext /\ UNCHANGED serverVars BY <1>3 DEF Client
  <2>2. Kept' BY <1>1, <1>2, <2>1, ClientKeeps
  <2>3. ASSUME ~denied' PROVE Flushing'
    <3>1. Closings /\ WireGood /\ Flushing BY <2>1, <2>3, DeniedStays DEF SInv, DInv
    <3> QED BY <1>1, <1>2, <2>1, <3>1, ClientFlushes
  <2> QED BY <2>2, <2>3 DEF DInv
<1>4. CASE Server(ServerNext)
  <2>1. ServerNext /\ UNCHANGED clientVars BY <1>4 DEF Server
  <2>2. Kept' BY <1>1, <1>2, <2>1, ServerKeeps
  <2>3. ASSUME ~denied' PROVE Flushing'
    <3>1. Closings /\ WireGood /\ Flushing BY <2>1, <2>3, DeniedStays DEF SInv, DInv
    <3> QED BY <1>1, <1>2, <2>1, <2>3, <3>1, ServerFlushes
  <2> QED BY <2>2, <2>3 DEF DInv
<1>5. CASE UNCHANGED vars
  <2>1. /\ UNCHANGED <<wire, outstanding, denied, alive, sent, tasks, messageBuffer,
                       outgoing_reset_complete, partial_outgoing_message_, delivered,
                       lastSsnReceived>>
    BY <1>5 DEF vars, clientVars, stackVars, serverVars, statusVars
  <2>2. Accepted' /\ HandedOver' BY <1>2, <2>1, SameLists DEF Kept
  <2>3. Conserved => Conserved' BY <1>2, <2>1, SameConserved DEF Kept
  <2>4. Dead' BY <1>2, <2>1 DEF Kept, Dead, Lacks
  <2>5. \A s \in Sids : Ended(s)' => Ended(s) BY <2>1 DEF Ended, Outs, Requested, Lacks
  <2>6. Flushing => Flushing' BY <2>1, <2>5, FlushingKept
  <2> QED BY <1>2, <2>1, <2>2, <2>3, <2>4, <2>6 DEF Kept, DInv
<1> QED BY <1>3, <1>4, <1>5 DEF Next

LEMMA DInvHolds ==
  ASSUME StackAssumption, TransportAssumption, AssociationAssumption, MaxFragments <= MaxMessage
  PROVE  Spec => [](TInv /\ SInv /\ DInv)
<1>1. Constants BY DEF Constants
<1>2. Init => TInv /\ SInv /\ DInv BY <1>1, TypeInit, SInvInit, DInvInit
<1>3. TInv /\ SInv /\ DInv /\ [Next]_vars => (TInv /\ SInv /\ DInv)'
  BY <1>1, TypeStep, SInvStep, DInvStep
<1> QED BY <1>2, <1>3, PTL DEF Spec

-----------------------------------------------------------------------------
(* What an application of either end sees.                                 *)
SentBar == [s \in Sids |-> [k \in DOMAIN sent[s] |->
                              [id |-> sent[s][k].id, n |-> sent[s][k].n]]]
DeliveredBar == [s \in Sids |-> [k \in DOMAIN delivered[s] |->
                                   Reassembled(s, delivered[s][k])]]
Plain == [id : Nat, n : Nat]

LEMMA SequenceMade ==
  ASSUME NEW T, NEW n \in Nat, NEW x, DOMAIN x = 1..n, x = [k \in 1..n |-> x[k]],
         \A k \in 1..n : x[k] \in T
  PROVE  x \in Seq(T) /\ Len(x) = n
  OBVIOUS

(* A sequence that is another one with e behind it.                        *)
LEMMA IsAppended ==
  ASSUME NEW T, NEW x \in Seq(T), NEW y \in Seq(T), NEW e \in T, Len(y) = Len(x) + 1,
         \A k \in 1..Len(x) : y[k] = x[k], y[Len(x) + 1] = e
  PROVE  y = Append(x, e)
<1>1. Len(x) \in Nat BY LenProperties
<1>2. /\ Append(x, e) \in Seq(T) /\ Len(Append(x, e)) = Len(x) + 1
      /\ \A k \in 1..Len(x) : Append(x, e)[k] = x[k]
      /\ Append(x, e)[Len(x) + 1] = e
  BY AppendProperties
<1>3. \A k \in 1..Len(y) : y[k] = Append(x, e)[k] BY <1>1, <1>2
<1> QED BY <1>2, <1>3, SeqEqual

LEMMA ChannelsSame ==
  ASSUME UNCHANGED <<streams, sent, delivered>>
  PROVE  UNCHANGED Channels!vars
  BY DEF Channels!vars, Reassembled

LEMMA BarFacts ==
  ASSUME ClientTypeOK, ServerTypeOK, TransportAssumption, Accepted, HandedOver, NEW s \in Sids
  PROVE  /\ SentBar[s] \in Seq(Plain) /\ Len(SentBar[s]) = Len(sent[s])
         /\ \A k \in 1..Len(sent[s]) : SentBar[s][k] = [id |-> k, n |-> sent[s][k].n]
         /\ DeliveredBar[s] \in Seq(Plain) /\ Len(DeliveredBar[s]) = Len(delivered[s])
         /\ \A k \in 1..Len(delivered[s]) : DeliveredBar[s][k] = [id |-> k, n |-> sent[s][k].n]
         /\ Len(sent[s]) \in Nat /\ Len(delivered[s]) \in Nat
         /\ Len(delivered[s]) <= Len(sent[s])
<1>1. /\ Len(sent[s]) \in Nat /\ DOMAIN sent[s] = 1..Len(sent[s])
      /\ Len(delivered[s]) \in Nat /\ DOMAIN delivered[s] = 1..Len(delivered[s])
      /\ \A k \in 1..Len(sent[s]) : sent[s][k].id = k /\ sent[s][k].n \in 1..MaxFragments
  BY SentType
<1>2. Len(delivered[s]) <= Len(sent[s]) BY DEF HandedOver
<1>3. \A k \in 1..Len(sent[s]) : k \in Nat /\ sent[s][k].n \in Nat
  BY <1>1 DEF TransportAssumption
<1>4. SentBar[s] = [k \in 1..Len(sent[s]) |-> [id |-> sent[s][k].id, n |-> sent[s][k].n]]
  BY <1>1 DEF SentBar
<1>5. \A k \in 1..Len(sent[s]) :
        SentBar[s][k] = [id |-> k, n |-> sent[s][k].n] /\ SentBar[s][k] \in Plain
  BY <1>1, <1>3, <1>4 DEF Plain
<1>6. DeliveredBar[s] = [k \in 1..Len(delivered[s]) |-> Reassembled(s, delivered[s][k])]
  BY <1>1 DEF DeliveredBar
<1>7. \A k \in 1..Len(delivered[s]) :
        /\ DeliveredBar[s][k] = [id |-> k, n |-> sent[s][k].n] /\ DeliveredBar[s][k] \in Plain
  <2> TAKE k \in 1..Len(delivered[s])
  <2>1. k \in 1..Len(sent[s]) BY <1>1, <1>2
  <2>2. Reassembled(s, delivered[s][k]) = [id |-> k, n |-> sent[s][k].n]
    BY <1>1 DEF HandedOver
  <2>3. DeliveredBar[s][k] = [id |-> k, n |-> sent[s][k].n] BY <1>6, <2>2
  <2> QED BY <1>3, <2>1, <2>3 DEF Plain
<1>8. SentBar[s] \in Seq(Plain) /\ Len(SentBar[s]) = Len(sent[s])
  BY <1>1, <1>4, <1>5, SequenceMade
<1>9. DeliveredBar[s] \in Seq(Plain) /\ Len(DeliveredBar[s]) = Len(delivered[s])
  <2>1. PICK d, n : d = DeliveredBar[s] /\ n = Len(delivered[s]) OBVIOUS
  <2>2. n \in Nat /\ \A k \in 1..n : d[k] \in Plain BY <1>1, <1>7, <2>1
  <2>3. DOMAIN d = 1..n /\ d = [k \in 1..n |-> d[k]]
    <3>1. DOMAIN d = 1..n BY <1>6, <2>1
    <3>2. \A k \in 1..n : d[k] = Reassembled(s, delivered[s][k]) BY <1>6, <2>1
    <3>3. d = [k \in 1..n |-> Reassembled(s, delivered[s][k])] BY <1>6, <2>1
    <3> QED BY <3>1, <3>2, <3>3
  <2>4. d \in Seq(Plain) /\ Len(d) = n BY ONLY SMTT(40), <2>2, <2>3, SequenceMade
  <2> QED BY <2>1, <2>4
<1> QED BY <1>1, <1>2, <1>5, <1>7, <1>8, <1>9

Heads(x) == [k \in DOMAIN x |-> [id |-> x[k].id, n |-> x[k].n]]
Wholes(s, x) == [k \in DOMAIN x |-> Reassembled(s, x[k])]

LEMMA SentAppends ==
  ASSUME NEW x \in Seq(Messages), NEW m \in Messages, NEW y, y = Append(x, m)
  PROVE  Heads(y) = Append(Heads(x), [id |-> m.id, n |-> m.n])
<1> DEFINE T == {[id |-> y[k].id, n |-> y[k].n] : k \in DOMAIN y}
           xb == [k \in DOMAIN x |-> [id |-> x[k].id, n |-> x[k].n]]
           yb == [k \in DOMAIN y |-> [id |-> y[k].id, n |-> y[k].n]]
           e == [id |-> m.id, n |-> m.n]
<1>1. /\ Len(x) \in Nat /\ DOMAIN x = 1..Len(x) /\ Len(y) = Len(x) + 1
      /\ DOMAIN y = 1..(Len(x) + 1)
      /\ \A k \in 1..Len(x) : y[k] = x[k]
      /\ y[Len(x) + 1] = m
  BY LenProperties, AppendProperties
<1>2. \A k \in 1..(Len(x) + 1) : yb[k] \in T BY <1>1
<1>3. \A k \in 1..Len(x) : xb[k] \in T /\ yb[k] = xb[k]
  <2>1. \A k \in 1..Len(x) : k \in 1..(Len(x) + 1) BY <1>1
  <2> QED BY <1>1, <1>2, <2>1
<1>4. yb[Len(x) + 1] = e /\ e \in T
  <2>1. Len(x) + 1 \in 1..(Len(x) + 1) BY <1>1
  <2> QED BY <1>1, <1>2, <2>1
<1>5. DOMAIN xb = 1..Len(x) /\ DOMAIN yb = 1..(Len(x) + 1) BY <1>1
<1>6. xb = [k \in 1..Len(x) |-> xb[k]] /\ yb = [k \in 1..(Len(x) + 1) |-> yb[k]] BY <1>1
<1> HIDE DEF T, xb, yb, e
<1>7. xb \in Seq(T) /\ Len(xb) = Len(x)
  BY <1>1, <1>3, <1>5, <1>6, SequenceMade
<1>8. yb \in Seq(T) /\ Len(yb) = Len(x) + 1
  <2>1. Len(x) + 1 \in Nat BY <1>1
  <2> QED BY <1>2, <1>5, <1>6, <2>1, SequenceMade
<1>9. yb = Append(xb, e) BY <1>3, <1>4, <1>7, <1>8, IsAppended
<1> QED BY <1>9 DEF xb, yb, e, Heads

LEMMA DeliveredAppends ==
  ASSUME NEW S, NEW x \in Seq(S), NEW w, NEW y, y = Append(x, w), NEW s
  PROVE  Wholes(s, y) = Append(Wholes(s, x), Reassembled(s, w))
<1> DEFINE T == {Reassembled(s, y[k]) : k \in DOMAIN y}
           xb == [k \in DOMAIN x |-> Reassembled(s, x[k])]
           yb == [k \in DOMAIN y |-> Reassembled(s, y[k])]
           e == Reassembled(s, w)
           W == S \cup {w}
<1>0. x \in Seq(W) /\ w \in W OBVIOUS
<1> HIDE DEF W
<1>1. /\ Len(x) \in Nat /\ DOMAIN x = 1..Len(x) /\ Len(y) = Len(x) + 1
      /\ DOMAIN y = 1..(Len(x) + 1)
      /\ \A k \in 1..Len(x) : y[k] = x[k]
      /\ y[Len(x) + 1] = w
  BY <1>0, LenProperties, AppendProperties
<1>2. \A k \in 1..(Len(x) + 1) : yb[k] \in T BY <1>1
<1>3. \A k \in 1..Len(x) : xb[k] \in T /\ yb[k] = xb[k]
  <2>1. \A k \in 1..Len(x) : k \in 1..(Len(x) + 1) BY <1>1
  <2> QED BY <1>1, <1>2, <2>1
<1>4. yb[Len(x) + 1] = e /\ e \in T
  <2>1. Len(x) + 1 \in 1..(Len(x) + 1) BY <1>1
  <2> QED BY <1>1, <1>2, <2>1
<1>5. DOMAIN xb = 1..Len(x) /\ DOMAIN yb = 1..(Len(x) + 1) BY <1>1
<1>6. xb = [k \in 1..Len(x) |-> xb[k]] /\ yb = [k \in 1..(Len(x) + 1) |-> yb[k]] BY <1>1
<1> HIDE DEF T, xb, yb, e
<1>7. xb \in Seq(T) /\ Len(xb) = Len(x)
  BY <1>1, <1>3, <1>5, <1>6, SequenceMade
<1>8. yb \in Seq(T) /\ Len(yb) = Len(x) + 1
  <2>1. Len(x) + 1 \in Nat BY <1>1
  <2> QED BY <1>2, <1>5, <1>6, <2>1, SequenceMade
<1>9. yb = Append(xb, e) BY <1>3, <1>4, <1>7, <1>8, IsAppended
<1> QED BY <1>9 DEF xb, yb, e, Wholes

(* SendData accepts a message.                                             *)
LEMMA SendMaps ==
  ASSUME StackTypeOK, ClientTypeOK, TransportAssumption, NEW s \in Sids,
         NEW n \in 1..MaxFragments, SendData(s, n), UNCHANGED serverVars
  PROVE  Channels!Next
<1> DEFINE id == Len(sent[s]) + 1
           m == [sid |-> s, ssn |-> ssn[s], id |-> id, n |-> n]
           e == [id |-> id, n |-> n]
<1>1. /\ sent' = [sent EXCEPT ![s] = Append(@, m)] /\ UNCHANGED <<streams, delivered>>
      /\ s \in streams /\ Len(sent[s]) < MaxSends
  BY DEF SendData, is_open, statusVars, serverVars
<1>2. sent \in [Sids -> Seq(Messages)] /\ sent[s] \in Seq(Messages) BY DEF ClientTypeOK
<1>3. Len(sent[s]) \in Nat BY <1>2, LenProperties
<1>4. id \in 1..MaxSends /\ id \in Nat BY <1>1, <1>3 DEF TransportAssumption
<1> HIDE DEF id
<1>5. m \in Messages BY <1>4 DEF Messages, StackTypeOK
<1>6. e \in [id : 1..MaxSends, n : 1..MaxFragments] /\ e.id = m.id /\ e.n = m.n
      /\ e = [id |-> m.id, n |-> m.n]
  BY <1>4
<1> HIDE DEF m, e
<1>7. SentBar' = [SentBar EXCEPT ![s] = Append(@, e)]
  <2>1. sent'[s] = Append(sent[s], m) /\ \A z \in Sids \ {s} : sent'[z] = sent[z]
    BY SMTT(40), <1>1, <1>2
  <2>2. SentBar'[s] = Append(SentBar[s], e)
    <3>1. PICK x, y : x = sent[s] /\ y = sent'[s] OBVIOUS
    <3>2. x \in Seq(Messages) /\ y = Append(x, m) BY <1>2, <2>1, <3>1
    <3>3. Heads(y) = Append(Heads(x), e) BY <1>5, <1>6, <3>2, SentAppends
    <3> QED BY <3>1, <3>3 DEF SentBar, Heads
  <2>3. \A z \in Sids \ {s} : SentBar'[z] = SentBar[z] BY <2>1 DEF SentBar
  <2>4. DOMAIN SentBar = Sids /\ DOMAIN SentBar' = Sids BY DEF SentBar
  <2>5. SentBar = [z \in Sids |-> SentBar[z]] /\ SentBar' = [z \in Sids |-> SentBar'[z]]
    BY DEF SentBar
  <2> QED BY <2>2, <2>3, <2>4, <2>5
<1>8. DeliveredBar' = DeliveredBar BY <1>1 DEF DeliveredBar, Reassembled
<1>9. PICK p : p = e OBVIOUS
<1>10. Channels!Send(s, p) <=> /\ s \in streams
                               /\ SentBar' = [SentBar EXCEPT ![s] = Append(@, p)]
                               /\ UNCHANGED <<streams, DeliveredBar>>
  BY DEF Channels!Send, SentBar, DeliveredBar
<1>11. Channels!Send(s, p) BY <1>1, <1>7, <1>8, <1>9, <1>10
<1> QED BY <1>6, <1>9, <1>11 DEF Channels!Next

(* The server hands a message over.                                        *)
LEMMA HandMaps ==
  ASSUME ClientTypeOK, ServerTypeOK, TransportAssumption, Accepted, HandedOver, Hands,
         UNCHANGED <<streams, sent>>
  PROVE  Channels!Next
<1>0. PICK s \in Sids : /\ Len(delivered[s]) < Len(sent[s])
                        /\ \E w : /\ delivered' = [delivered EXCEPT ![s] = Append(@, w)]
                                  /\ Reassembled(s, w) =
                                       [id |-> Len(delivered[s]) + 1,
                                        n |-> sent[s][Len(delivered[s]) + 1].n]
  BY DEF Hands
<1>1. PICK w : /\ Len(delivered[s]) < Len(sent[s])
               /\ delivered' = [delivered EXCEPT ![s] = Append(@, w)]
               /\ Reassembled(s, w) = [id |-> Len(delivered[s]) + 1,
                                       n |-> sent[s][Len(delivered[s]) + 1].n]
  BY <1>0
<1>2. /\ delivered'[s] = Append(delivered[s], w)
      /\ \A z \in Sids \ {s} : delivered'[z] = delivered[z]
      /\ delivered[s] \in Seq(Seq(DataChunks))
  BY <1>1 DEF ServerTypeOK
<1>3. /\ Len(DeliveredBar[s]) = Len(delivered[s]) /\ Len(SentBar[s]) = Len(sent[s])
      /\ Len(delivered[s]) \in Nat /\ Len(sent[s]) \in Nat
      /\ \A k \in 1..Len(sent[s]) : SentBar[s][k] = [id |-> k, n |-> sent[s][k].n]
  BY BarFacts
<1>4. Reassembled(s, w) = SentBar[s][Len(DeliveredBar[s]) + 1]
  <2>1. Len(delivered[s]) + 1 \in 1..Len(sent[s]) BY <1>1, <1>3
  <2> QED BY <1>1, <1>3, <2>1
<1>5. DeliveredBar' = [DeliveredBar EXCEPT ![s] = Append(@, SentBar[s][Len(@) + 1])]
  <2>1. DeliveredBar'[s] = Append(DeliveredBar[s], SentBar[s][Len(DeliveredBar[s]) + 1])
    <3>1. PICK x, y : x = delivered[s] /\ y = delivered'[s] OBVIOUS
    <3>2. x \in Seq(Seq(DataChunks)) /\ y = Append(x, w) BY <1>2, <3>1
    <3>3. Wholes(s, y) = Append(Wholes(s, x), Reassembled(s, w)) BY <3>2, DeliveredAppends
    <3>4. Wholes(s, x) = DeliveredBar[s] BY <3>1 DEF Wholes, DeliveredBar
    <3>5. Wholes(s, y) = DeliveredBar'[s] BY <3>1 DEF Wholes, DeliveredBar, Reassembled
    <3> QED BY <1>4, <3>3, <3>4, <3>5
  <2>2. \A z \in Sids \ {s} : DeliveredBar'[z] = DeliveredBar[z]
    BY <1>2 DEF DeliveredBar, Reassembled
  <2>3. DOMAIN DeliveredBar = Sids
        /\ DeliveredBar = [z \in Sids |-> DeliveredBar[z]]
        /\ DeliveredBar' = [z \in Sids |-> DeliveredBar'[z]]
    BY DEF DeliveredBar
  <2> QED BY <2>1, <2>2, <2>3
<1>6. SentBar' = SentBar BY DEF SentBar
<1>7. Channels!Deliver(s) <=>
        /\ Len(DeliveredBar[s]) < Len(SentBar[s])
        /\ DeliveredBar' = [DeliveredBar EXCEPT ![s] = Append(@, SentBar[s][Len(@) + 1])]
        /\ UNCHANGED <<streams, SentBar>>
  BY DEF Channels!Deliver, SentBar, DeliveredBar
<1>8. Channels!Deliver(s) BY <1>1, <1>3, <1>5, <1>6, <1>7
<1> QED BY <1>8 DEF Channels!Next

(* A stream both of whose resets are complete is forgotten.                *)
LEMMA ResetMaps ==
  ASSUME ClientTypeOK, ServerTypeOK, TransportAssumption, Accepted, HandedOver, Flushing,
         OnIncomingReset \/ OnOutgoingReset, UNCHANGED serverVars
  PROVE  Channels!Next
<1>1. tasks \in Seq(Tasks) /\ tasks # <<>> BY DEF ClientTypeOK, OnIncomingReset, OnOutgoingReset, Runs
<1>2. UNCHANGED <<sent, delivered>>
  BY DEF OnIncomingReset, OnOutgoingReset, OnStreamReset, serverVars
<1>3. \E closed \in SUBSET Sids : /\ closed \subseteq streams /\ streams' = streams \ closed
                                  /\ \A s \in closed : Flushed(s)
  <2>1. CASE OnIncomingReset
    <3> DEFINE incoming == incoming_reset_complete \cup (Head(tasks).sids \cap streams)
               closed == incoming \cap outgoing_reset_complete
    <3>1. streams' = streams \ closed BY <2>1 DEF OnIncomingReset, OnStreamReset
    <3>2. closed \subseteq streams /\ streams \subseteq Sids BY DEF ClientTypeOK
    <3>3. \A s \in closed : Flushed(s) BY <3>2 DEF Flushing, Ended
    <3> QED BY <3>1, <3>2, <3>3
  <2>2. CASE OnOutgoingReset
    <3> DEFINE outgoing == outgoing_reset_complete \cup (Head(tasks).sids \cap streams)
               closed == incoming_reset_complete \cap outgoing
    <3>1. streams' = streams \ closed /\ Head(tasks).t = "outgoing"
      BY <2>2 DEF OnOutgoingReset, OnStreamReset, Runs
    <3>2. closed \subseteq streams /\ streams \subseteq Sids BY DEF ClientTypeOK
    <3>3. ASSUME NEW s \in closed PROVE Flushed(s)
      <4>1. s \in outgoing_reset_complete \/ Outs(tasks, s) BY <1>1, <3>1, OutsFacts
      <4> QED BY <3>2, <4>1 DEF Flushing, Ended
    <3> QED BY <3>1, <3>2, <3>3
  <2> QED BY <2>1, <2>2
<1>4. PICK closed \in SUBSET Sids : /\ closed \subseteq streams /\ streams' = streams \ closed
                                    /\ \A s \in closed : Flushed(s)
  BY <1>3
<1>5. ASSUME NEW s \in closed PROVE DeliveredBar[s] = SentBar[s]
  <2>1. s \in Sids /\ Len(delivered[s]) = Len(sent[s]) BY <1>4 DEF Flushed
  <2>2. /\ SentBar[s] \in Seq(Plain) /\ DeliveredBar[s] \in Seq(Plain)
        /\ Len(DeliveredBar[s]) = Len(SentBar[s])
        /\ Len(DeliveredBar[s]) = Len(delivered[s])
        /\ \A k \in 1..Len(sent[s]) : SentBar[s][k] = [id |-> k, n |-> sent[s][k].n]
        /\ \A k \in 1..Len(delivered[s]) : DeliveredBar[s][k] = [id |-> k, n |-> sent[s][k].n]
    BY <2>1, BarFacts
  <2>3. \A k \in 1..Len(DeliveredBar[s]) : DeliveredBar[s][k] = SentBar[s][k] BY <2>1, <2>2
  <2> QED BY <2>2, <2>3, SeqEqual
<1>6. SentBar' = SentBar /\ DeliveredBar' = DeliveredBar
  BY <1>2 DEF SentBar, DeliveredBar, Reassembled
<1>7. Channels!Close(closed) <=> /\ closed \subseteq streams
                                 /\ \A s \in closed : DeliveredBar[s] = SentBar[s]
                                 /\ streams' = streams \ closed
                                 /\ UNCHANGED <<SentBar, DeliveredBar>>
  BY DEF Channels!Close, SentBar, DeliveredBar
<1>8. Channels!Close(closed) BY <1>4, <1>5, <1>6, <1>7
<1> QED BY <1>8 DEF Channels!Next

LEMMA ChannelsStep ==
  ASSUME Constants, MaxFragments <= MaxMessage, TInv, SInv, DInv, [Next]_vars, ~denied'
  PROVE  [Channels!Next]_(Channels!vars)
<1>1. /\ StackTypeOK /\ ClientTypeOK /\ ServerTypeOK
      /\ StackAssumption /\ TransportAssumption /\ AssociationAssumption
  BY DEF TInv, TypeOK, Constants
<1>2. Kept /\ Accepted /\ HandedOver BY DEF DInv, Kept
<1>3. CASE Client(ClientNext)
  <2>1. ClientNext /\ UNCHANGED serverVars /\ UNCHANGED delivered
    BY <1>3 DEF Client, serverVars
  <2>2. CASE \/ Start \/ OnWritableState
             \/ \E s \in Sids : ResetStream(s) \/ SendDataBlocked(s)
             \/ OnPacketRead \/ ClientNotified \/ DestroyTransport
             \/ OnSendThresholdCallback \/ OnSenderDry \/ OnCommUp \/ OnCommLost
             \/ OnDataFromSctp \/ OnResetFailed
    <3>1. UNCHANGED <<streams, sent>>
      BY <2>2 DEF Start, OnWritableState, ResetStream, SendDataBlocked, OnPacketRead,
                  ClientNotified, DestroyTransport, OnSendThresholdCallback, OnSenderDry,
                  OnCommUp, OnCommLost, OnDataFromSctp, OnResetFailed, statusVars
    <3> QED BY <2>1, <3>1, ChannelsSame
  <2>3. ASSUME NEW s \in Sids, OpenStream(s) PROVE Channels!Next
    <3>1. /\ s \notin streams /\ streams' = streams \cup {s} /\ UNCHANGED <<sent, delivered>>
      BY <2>1, <2>3 DEF OpenStream
    <3>2. SentBar' = SentBar /\ DeliveredBar' = DeliveredBar
      BY <3>1 DEF SentBar, DeliveredBar, Reassembled
    <3>3. Channels!Open(s) <=> /\ s \notin streams /\ streams' = streams \cup {s}
                               /\ UNCHANGED <<SentBar, DeliveredBar>>
      BY DEF Channels!Open, SentBar, DeliveredBar
    <3>4. Channels!Open(s) BY <3>1, <3>2, <3>3
    <3> QED BY <3>4 DEF Channels!Next
  <2>4. ASSUME NEW s \in Sids, NEW n \in 1..MaxFragments, SendData(s, n) PROVE Channels!Next
    BY <1>1, <2>1, <2>4, SendMaps
  <2>5. CASE OnIncomingReset \/ OnOutgoingReset
    <3>1. Flushing BY <2>1, DeniedStays DEF DInv
    <3> QED BY <1>1, <1>2, <2>1, <2>5, <3>1, ResetMaps
  <2> QED BY <2>1, <2>2, <2>3, <2>4, <2>5 DEF ClientNext, RunTask
<1>4. CASE Server(ServerNext)
  <2>1. ServerNext /\ UNCHANGED clientVars /\ UNCHANGED <<streams, sent>>
    BY <1>4 DEF Server, clientVars, statusVars
  <2>2. UNCHANGED delivered \/ Hands BY <1>1, <1>2, <2>1, ServerKeeps
  <2>3. CASE UNCHANGED delivered BY <2>1, <2>3, ChannelsSame
  <2>4. CASE Hands BY <1>1, <1>2, <2>1, <2>4, HandMaps
  <2> QED BY <2>2, <2>3, <2>4
<1>5. CASE UNCHANGED vars
  <2>1. UNCHANGED <<streams, sent, delivered>>
    BY <1>5 DEF vars, clientVars, serverVars, statusVars
  <2> QED BY <2>1, ChannelsSame
<1> QED BY <1>3, <1>4, <1>5 DEF Next

(* The two ends implement reliable, ordered channels until a reset is      *)
(* denied (ImplementsChannels).  That no message is longer than the        *)
(* server's buffer is what the client sees to: SendData refuses what is    *)
(* longer than max_message_size_, the limit the server announces.  The     *)
(* argument: what waits in the server's buffer, then on the wire, are the  *)
(* fragments of the messages accepted and not yet handed over, each once   *)
(* and in order, those of a message together (Conserved); and when the     *)
(* reset of a stream comes to the head of the wire none of its fragments   *)
(* is left (Flushing).                                                     *)
THEOREM ChannelsRefinement ==
  ASSUME StackAssumption, TransportAssumption, AssociationAssumption, MaxFragments <= MaxMessage
  PROVE  Spec => ImplementsChannels
<1>1. Constants BY DEF Constants
<1>2. Init => Channels!Init
  <2> SUFFICES ASSUME Init PROVE Channels!Init OBVIOUS
  <2>1. /\ streams = {} /\ \A s \in Sids : sent[s] = <<>> /\ delivered[s] = <<>>
    BY DEF Init, ClientInit, ServerInit
  <2>2. DOMAIN <<>> = {} OBVIOUS
  <2>3. \A s \in Sids : SentBar[s] = <<>> /\ DeliveredBar[s] = <<>>
    BY <2>1, <2>2 DEF SentBar, DeliveredBar
  <2>4. SentBar = [s \in Sids |-> <<>>] /\ DeliveredBar = [s \in Sids |-> <<>>]
    BY <2>3 DEF SentBar, DeliveredBar
  <2>5. Channels!Init <=> /\ streams = {} /\ SentBar = [s \in Sids |-> <<>>]
                          /\ DeliveredBar = [s \in Sids |-> <<>>]
    BY DEF Channels!Init, SentBar, DeliveredBar
  <2> QED BY <2>1, <2>4, <2>5
<1>3. (TInv /\ SInv /\ DInv) /\ [Next]_vars => [~denied' => Channels!Next]_(Channels!vars)
  <2> SUFFICES ASSUME TInv, SInv, DInv, [Next]_vars, ~denied'
               PROVE  Channels!Next \/ UNCHANGED Channels!vars
    OBVIOUS
  <2> QED BY <1>1, ChannelsStep
<1> QED BY <1>2, <1>3, DInvHolds, PTL DEF Spec, ImplementsChannels
=============================================================================
