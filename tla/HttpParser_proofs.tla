------------------------- MODULE HttpParser_proofs -------------------------
(***************************************************************************)
(* Theorems about HttpParser: its type invariant, that requests are        *)
(* delivered in order and whole, and that nothing is dropped, for any      *)
(* number of messages. The invariant is stated by position: what is not    *)
(* yet parsed is the rest of the stream, what is delivered is the          *)
(* beginning of what is promised, and both positions follow from the       *)
(* parser's state and the message in hand; behind a chunked message or a   *)
(* stream the parser stays with it, and only what is delivered from there  *)
(* counts. The stream is a FlattenSeq, of which FlattenSeqLays says where  *)
(* each of the sequences lies in it; that is an induction on the number of *)
(* sequences, led by its least counterexample.                             *)
(***************************************************************************)
EXTENDS HttpParser, SequenceTheorems, WellFoundedInduction, TLAPS

-----------------------------------------------------------------------------
(* What FlattenSeq is, by position.                                        *)

(* A set of numbers that is not empty has a least one.                     *)
LEMMA LeastOf ==
  ASSUME NEW T, T \subseteq Nat, T # {}
  PROVE  \E x \in T : \A y \in T : x <= y
<1> DEFINE Less == {p \in Nat \X Nat : p[1] < p[2]}
<1>1. IsWellFoundedOn(Less, Nat) BY NatLessThanWellFounded DEF OpToRel
<1>2. \E x \in T : \A y \in T : <<y, x>> \notin Less
  <2> HIDE DEF Less
  <2> QED BY <1>1, WFMin
<1>3. \A x, y \in Nat : <<y, x>> \notin Less => x <= y OBVIOUS
<1> QED BY <1>2, <1>3

(* f is the function that FlattenSeq defines by recursion.                 *)
Flattening(f, s, n) ==
  f = [i \in 1..n |-> IF i = 1 THEN s[i] ELSE f[i - 1] \o s[i]]

LEMMA FlatteningExists ==
  ASSUME NEW s, NEW n \in Nat
  PROVE  \E f : Flattening(f, s, n)
<1> DEFINE T == {m \in Nat : ~\E f : Flattening(f, s, m)}
<1>1. SUFFICES ASSUME T # {} PROVE FALSE OBVIOUS
<1>2. PICK m \in T : \A k \in T : m <= k BY <1>1, LeastOf
<1>3. m \in Nat /\ ~\E f : Flattening(f, s, m) OBVIOUS
<1>4. m # 0
  <2>1. Flattening([i \in 1..0 |-> s], s, 0) BY DEF Flattening
  <2> QED BY <2>1, <1>3
<1>5. m - 1 \in Nat /\ m - 1 < m BY <1>3, <1>4
<1>6. m - 1 \notin T BY <1>2, <1>5
<1>7. PICK f : Flattening(f, s, m - 1) BY <1>5, <1>6
<1> DEFINE g == [i \in 1..m |-> IF i = 1 THEN s[1] ELSE IF i < m THEN f[i] ELSE f[m - 1] \o s[m]]
<1>8. \A i \in 1..m : g[i] = IF i = 1 THEN s[i] ELSE g[i - 1] \o s[i]
  <2> TAKE i \in 1..m
  <2>1. CASE i = 1 BY <2>1
  <2>2. CASE i # 1
    <3>1. i - 1 \in 1..(m - 1) /\ i - 1 \in 1..m /\ i - 1 < m BY <2>2, <1>3
    <3>2. f[i - 1] = g[i - 1] 
      <4>1. CASE i - 1 = 1 BY <4>1, <3>1, <1>7 DEF Flattening
      <4>2. CASE i - 1 # 1 BY <4>2, <3>1
      <4> QED BY <4>1, <4>2
    <3>3. CASE i = m
      <4>1. ~(i < m) /\ m \in 1..m BY <3>3, <1>3
      <4>2. g[i] = f[m - 1] \o s[m] BY <4>1, <3>3, <2>2
      <4> QED BY <4>2, <3>2, <3>3, <2>2
    <3>4. CASE i # m
      <4>1. i \in 1..(m - 1) /\ i < m BY <3>4, <1>3
      <4>2. f[i] = f[i - 1] \o s[i] BY <4>1, <1>7, <2>2 DEF Flattening
      <4> QED BY <4>1, <4>2, <3>2, <2>2
    <3> QED BY <3>3, <3>4
  <2> QED BY <2>1, <2>2
<1>9. Flattening(g, s, m) BY <1>8 DEF Flattening
<1> QED BY <1>9, <1>3

LEMMA FlattenedBy ==
  ASSUME NEW S, NEW s \in Seq(Seq(S)), s # <<>>
  PROVE  \E f : Flattening(f, s, Len(s)) /\ FlattenSeq(s) = f[Len(s)]
<1>1. Len(s) \in Nat /\ Len(s) # 0 OBVIOUS
<1> DEFINE f == CHOOSE f : Flattening(f, s, Len(s))
<1>2. FlattenSeq(s) = f[Len(s)] BY <1>1 DEF FlattenSeq, Flattening
<1>3. Flattening(f, s, Len(s)) BY <1>1, FlatteningExists
<1> QED BY <1>2, <1>3

(* c is a, and b behind it.                                                *)
Joins(c, a, b) ==
  /\ Len(c) = Len(a) + Len(b)
  /\ \A j \in 1..Len(a) : c[j] = a[j]
  /\ \A j \in 1..Len(b) : c[Len(a) + j] = b[j]

LEMMA ConcatJoins ==
  ASSUME NEW S, NEW a \in Seq(S), NEW b \in Seq(S)
  PROVE  a \o b \in Seq(S) /\ Joins(a \o b, a, b)
BY DEF Joins

(* The sequences of s lie in t one behind the other, the i-th ends at o[i]. *)
Laid(s, t, o) ==
  /\ o \in [0..Len(s) -> Nat] /\ o[0] = 0 /\ o[Len(s)] = Len(t)
  /\ \A i \in 1..Len(s) :
       /\ o[i] = o[i - 1] + Len(s[i]) /\ o[i] <= Len(t)
       /\ \A j \in 1..Len(s[i]) : t[o[i - 1] + j] = s[i][j]

LEMMA FlattenSeqLays ==
  ASSUME NEW S, NEW s \in Seq(Seq(S))
  PROVE  FlattenSeq(s) \in Seq(S) /\ \E o : Laid(s, FlattenSeq(s), o)
<1>1. CASE s = <<>>
  <2>1. FlattenSeq(s) = <<>> BY <1>1 DEF FlattenSeq
  <2>2. Laid(s, <<>>, [i \in 0..0 |-> 0]) BY <1>1 DEF Laid
  <2> QED BY <2>1, <2>2
<1>2. CASE s # <<>>
  <2> DEFINE n == Len(s)
             t == FlattenSeq(s)
  <2>1. n \in Nat /\ 1 \in 1..n /\ n \in 1..n BY <1>2
  <2>2. PICK f : Flattening(f, s, n) /\ t = f[n] BY <1>2, FlattenedBy
  <2>3. \A i \in 1..n : s[i] \in Seq(S) OBVIOUS
  <2>4. \A i \in 1..n : f[i] = IF i = 1 THEN s[i] ELSE f[i - 1] \o s[i]
    BY <2>2 DEF Flattening
  <2>5. \A i \in 1..n : f[i] \in Seq(S)
    <3> DEFINE T == {i \in 1..n : f[i] \notin Seq(S)}
    <3>1. SUFFICES ASSUME T # {} PROVE FALSE OBVIOUS
    <3>2. T \subseteq Nat BY <2>1
    <3>3. PICK i \in T : \A k \in T : i <= k
      <4> HIDE DEF T
      <4> QED BY <3>1, <3>2, LeastOf
    <3>4. i \in 1..n /\ f[i] \notin Seq(S) OBVIOUS
    <3>5. i # 1 BY <2>3, <2>4, <3>4
    <3>6. i - 1 \in 1..n /\ ~(i <= i - 1) BY <3>4, <3>5, <2>1
    <3>7. f[i - 1] \in Seq(S) BY <3>3, <3>6
    <3>8. f[i] = f[i - 1] \o s[i] BY <2>4, <3>4, <3>5
    <3>9. s[i] \in Seq(S) BY <2>3, <3>4
    <3> HIDE DEF T
    <3> QED BY <3>4, <3>7, <3>8, <3>9, ConcatJoins
  <2>6. \A i \in 1..n : i # 1 => Joins(f[i], f[i - 1], s[i])
    <3> TAKE i \in 1..n
    <3> HAVE i # 1
    <3>1. i - 1 \in 1..n BY <2>1
    <3>2. f[i] = f[i - 1] \o s[i] BY <2>4
    <3>3. f[i - 1] \in Seq(S) /\ s[i] \in Seq(S) BY <2>3, <2>5, <3>1
    <3>4. Joins(f[i - 1] \o s[i], f[i - 1], s[i]) BY <3>3, ConcatJoins
    <3> QED BY <3>2, <3>4
  <2>7. \A i \in 1..n : Len(f[i]) <= Len(t) /\ \A j \in 1..Len(f[i]) : t[j] = f[i][j]
    <3> DEFINE T == {d \in 0..(n - 1) :
                 ~(Len(f[n - d]) <= Len(t) /\ \A j \in 1..Len(f[n - d]) : t[j] = f[n - d][j])}
    <3>1. T = {}
      <4>1. SUFFICES ASSUME T # {} PROVE FALSE OBVIOUS
      <4>a. T \subseteq Nat BY <2>1
      <4>2. PICK d \in T : \A k \in T : d <= k
        <5> HIDE DEF T
        <5> QED BY <4>1, <4>a, LeastOf
      <4>b. d \in 0..(n - 1) OBVIOUS
      <4>3. d # 0 BY <2>1, <2>2, <2>5
      <4>c. d - 1 \in 0..(n - 1) /\ ~(d <= d - 1) BY <4>b, <4>3, <2>1
      <4>4. d - 1 \notin T
        <5> HIDE DEF T
        <5> QED BY <4>2, <4>c
      <4> DEFINE i == n - (d - 1)
      <4>5. i \in 1..n /\ i # 1 /\ i - 1 = n - d /\ i - 1 \in 1..n BY <4>b, <4>3, <2>1
      <4>6. Len(f[i]) <= Len(t) /\ \A j \in 1..Len(f[i]) : t[j] = f[i][j] BY <4>4, <4>c
      <4>7. /\ Len(f[i - 1]) \in Nat /\ Len(s[i]) \in Nat /\ Len(f[i]) \in Nat /\ Len(t) \in Nat
        <5> HIDE DEF i, T, t
        <5>1. f[i - 1] \in Seq(S) /\ s[i] \in Seq(S) /\ f[i] \in Seq(S) BY <2>3, <2>5, <4>5
        <5>2. t \in Seq(S) BY <2>1, <2>2, <2>5
        <5>3. \A q \in Seq(S) : Len(q) \in Nat OBVIOUS
        <5> QED BY <5>1, <5>2, <5>3
      <4>8. Len(f[i]) = Len(f[i - 1]) + Len(s[i]) /\ \A j \in 1..Len(f[i - 1]) : f[i][j] = f[i - 1][j]
        BY <2>6, <4>5 DEF Joins
      <4> HIDE DEF i, T
      <4>9. Len(f[i - 1]) <= Len(t) /\ \A j \in 1..Len(f[i - 1]) : t[j] = f[i - 1][j]
        <5> DEFINE a == Len(f[i - 1])  b == Len(s[i])  c == Len(f[i])  d1 == Len(t)
        <5>a. a \in Nat /\ b \in Nat /\ c \in Nat /\ d1 \in Nat BY <4>7
        <5>b. c = a + b /\ c <= d1 BY <4>6, <4>8
        <5> HIDE DEF a, b, c, d1
        <5>c. a <= c /\ a <= d1 BY <5>a, <5>b
        <5>1. Len(f[i - 1]) <= Len(f[i]) /\ Len(f[i - 1]) <= Len(t) BY <5>c DEF a, c, d1
        <5>2. ASSUME NEW j \in 1..Len(f[i - 1]) PROVE t[j] = f[i - 1][j]
          <6>1. j \in 1..Len(f[i]) BY <5>1, <4>7
          <6> QED BY <6>1, <4>6, <4>8
        <5> QED BY <5>1, <5>2
      <4> QED BY <4>2, <4>5, <4>9 DEF T
    <3>2. \A i \in 1..n : n - i \in 0..(n - 1) /\ n - (n - i) = i BY <2>1
    <3>3. ASSUME NEW i \in 1..n
          PROVE  Len(f[i]) <= Len(t) /\ \A j \in 1..Len(f[i]) : t[j] = f[i][j]
      BY <3>1, <3>2
    <3> QED BY <3>3
  <2> DEFINE o == [i \in 0..n |-> IF i = 0 THEN 0 ELSE Len(f[i])]
  <2>8. t \in Seq(S) BY <2>1, <2>2, <2>5
  <2>9. o \in [0..n -> Nat] /\ o[0] = 0 /\ o[n] = Len(t) BY <2>1, <2>2, <2>5
  <2>10. ASSUME NEW i \in 1..n
         PROVE  /\ o[i] = o[i - 1] + Len(s[i]) /\ o[i] <= Len(t)
                /\ \A j \in 1..Len(s[i]) : t[o[i - 1] + j] = s[i][j]
    <3>1. CASE i = 1
      <4>1. o[i] = Len(f[1]) /\ o[i - 1] = 0 /\ f[1] = s[1] BY <3>1, <2>1, <2>4
      <4>2. s[1] \in Seq(S) BY <2>1, <2>3
      <4>3. Len(f[1]) <= Len(t) /\ \A j \in 1..Len(f[1]) : t[j] = f[1][j] BY <2>1, <2>7
      <4>4. Len(s[i]) \in Nat /\ s[i] = f[1] BY <3>1, <4>1, <4>2
      <4> HIDE DEF o, t
      <4>5. ASSUME NEW j \in 1..Len(s[i]) PROVE t[o[i - 1] + j] = s[i][j]
        <5>1. o[i - 1] + j = j BY <4>1, <4>4
        <5> QED BY <5>1, <4>3, <4>4
      <4>6. o[i] = o[i - 1] + Len(s[i]) /\ o[i] <= Len(t) BY <4>1, <4>3, <4>4
      <4> QED BY <4>5, <4>6
    <3>2. CASE i # 1
      <4>1. i - 1 \in 1..n /\ i \in 0..n /\ i - 1 \in 0..n /\ i # 0 /\ i - 1 # 0 BY <3>2, <2>1
      <4>2. o[i] = Len(f[i]) /\ o[i - 1] = Len(f[i - 1]) BY <4>1
      <4>3. Len(f[i]) <= Len(t) /\ \A j \in 1..Len(f[i]) : t[j] = f[i][j] BY <2>7
      <4>4. /\ Len(f[i]) = Len(f[i - 1]) + Len(s[i])
            /\ \A j \in 1..Len(s[i]) : f[i][Len(f[i - 1]) + j] = s[i][j]
        BY <2>6, <3>2 DEF Joins
      <4>5. Len(f[i]) \in Nat /\ Len(f[i - 1]) \in Nat /\ Len(s[i]) \in Nat BY <2>3, <2>5, <4>1
      <4> HIDE DEF o
      <4>6. ASSUME NEW j \in 1..Len(s[i]) PROVE t[o[i - 1] + j] = s[i][j]
        <5> DEFINE a == Len(f[i - 1])  b == Len(s[i])  c == Len(f[i])
        <5>a. a \in Nat /\ b \in Nat /\ c = a + b /\ j \in 1..b BY <4>4, <4>5
        <5> HIDE DEF a, b, c
        <5>b. a + j \in 1..c BY <5>a
        <5>1. Len(f[i - 1]) + j \in 1..Len(f[i]) BY <5>b DEF a, c
        <5> QED BY <5>1, <4>2, <4>3, <4>4
      <4> QED BY <4>2, <4>3, <4>4, <4>6
    <3> QED BY <3>1, <3>2
  <2>11. Laid(s, t, o)
    <3> HIDE DEF o, t
    <3> QED BY <2>9, <2>10 DEF Laid
  <2> QED BY <2>8, <2>11
<1> QED BY <1>1, <1>2

(* The ends come in order.                                                 *)
LEMMA LaidInOrder ==
  ASSUME NEW S, NEW s \in Seq(Seq(S)), NEW t, NEW o, Laid(s, t, o),
         NEW m \in 0..Len(s), NEW d \in Nat, m + d <= Len(s)
  PROVE  o[m] <= o[m + d]
<1> DEFINE T == {e \in 0..d : ~(o[m] <= o[m + e])}
<1>0. SUFFICES ASSUME ~(o[m] <= o[m + d]) PROVE FALSE OBVIOUS
<1>1. d \in T
  <2>1. d \in 0..d OBVIOUS
  <2> QED BY <1>0, <2>1
<1>2. T \subseteq Nat OBVIOUS
<1>3. PICK e \in T : \A k \in T : e <= k
  <2> HIDE DEF T
  <2> QED BY <1>1, <1>2, LeastOf
<1>4. e \in 0..d /\ ~(o[m] <= o[m + e]) OBVIOUS
<1>5. /\ o \in [0..Len(s) -> Nat] /\ Len(s) \in Nat
      /\ \A i \in 1..Len(s) : o[i] = o[i - 1] + Len(s[i])
  BY DEF Laid
<1>6. e # 0
  <2>1. o[m] \in Nat /\ m \in Nat /\ m + 0 = m BY <1>5
  <2>2. o[m + 0] = o[m] BY <2>1
  <2>3. o[m] <= o[m + 0] BY <2>1, <2>2
  <2> HIDE DEF T
  <2> QED BY <1>4, <2>3
<1>7. /\ e - 1 \in 0..d /\ ~(e <= e - 1) /\ m + e \in 1..Len(s)
      /\ (m + e) - 1 = m + (e - 1) /\ m + (e - 1) \in 0..Len(s)
  BY <1>4, <1>5, <1>6
<1>8. o[m] <= o[m + (e - 1)] BY <1>3, <1>7
<1>9. o[m + e] = o[m + (e - 1)] + Len(s[m + e]) BY <1>5, <1>7
<1>10. s[m + e] \in Seq(S) BY <1>7
<1>11. /\ o[m] \in Nat /\ o[m + e] \in Nat /\ o[m + (e - 1)] \in Nat
       /\ Len(s[m + e]) \in Nat
  <2>1. Len(s[m + e]) \in Nat BY <1>10
  <2>2. m + e \in 0..Len(s) BY <1>5, <1>7
  <2> HIDE DEF T
  <2> QED BY <1>5, <1>7, <2>1, <2>2
<1> HIDE DEF T
<1> QED BY <1>4, <1>8, <1>9, <1>11

(* Every element of t is one of a sequence of s.                           *)
LEMMA LaidCovers ==
  ASSUME NEW S, NEW s \in Seq(Seq(S)), NEW t \in Seq(S), NEW o, Laid(s, t, o),
         NEW k \in 1..Len(t)
  PROVE  \E i \in 1..Len(s) : \E j \in 1..Len(s[i]) : k = o[i - 1] + j /\ k <= o[i]
<1> DEFINE T == {i \in 0..Len(s) : k <= o[i]}
<1>1. /\ o \in [0..Len(s) -> Nat] /\ Len(s) \in Nat /\ o[0] = 0 /\ o[Len(s)] = Len(t)
      /\ \A i \in 1..Len(s) : o[i] = o[i - 1] + Len(s[i])
  BY DEF Laid
<1>2. Len(s) \in T
  <2>1. Len(t) \in Nat /\ k <= Len(t) OBVIOUS
  <2> QED BY <1>1, <2>1
<1>3. T \subseteq Nat OBVIOUS
<1>4. PICK i \in T : \A h \in T : i <= h
  <2> HIDE DEF T
  <2> QED BY <1>2, <1>3, LeastOf
<1>5. i \in 0..Len(s) /\ k <= o[i] OBVIOUS
<1>6. k \in Nat /\ k >= 1 OBVIOUS
<1>7. i # 0 BY <1>1, <1>5, <1>6
<1>8. i \in 1..Len(s) /\ i - 1 \in 0..Len(s) /\ ~(i <= i - 1) BY <1>1, <1>5, <1>7
<1>9. ~(k <= o[i - 1]) BY <1>4, <1>8
<1>10. s[i] \in Seq(S) BY <1>8
<1>11. Len(s[i]) \in Nat BY <1>10
<1>12. o[i] \in Nat /\ o[i - 1] \in Nat /\ o[i] = o[i - 1] + Len(s[i]) BY <1>1, <1>5, <1>8
<1> HIDE DEF T
<1>13. k - o[i - 1] \in 1..Len(s[i]) /\ k = o[i - 1] + (k - o[i - 1])
  BY <1>5, <1>6, <1>9, <1>11, <1>12
<1> QED BY <1>5, <1>8, <1>13

-----------------------------------------------------------------------------
(* The stream and what it is owed, by position.                            *)

Promises == [msg : 1..MaxMessages, chunk : Bodies]

Sent == [i \in DOMAIN messages |->
           [j \in DOMAIN PartsOf[messages[i]] |->
              [msg |-> i, part |-> PartsOf[messages[i]][j]]]]
Stream == FlattenSeq(Sent)
Owed == [m \in DOMAIN messages |-> Deliveries(m)]

(* The ends of the messages in the stream, of their deliveries in what is  *)
(* promised.                                                               *)
At == CHOOSE o : Laid(Sent, Stream, o)
Due == CHOOSE o : Laid(Owed, Promised, o)

Placed ==
  /\ Stream \in Seq(Pieces)
  /\ At \in [0..Len(messages) -> Nat] /\ At[0] = 0 /\ At[Len(messages)] = Len(Stream)
  /\ \A m \in DOMAIN messages :
       /\ At[m] = At[m - 1] + Len(PartsOf[messages[m]]) /\ At[m] <= Len(Stream)
       /\ \A j \in 1..Len(PartsOf[messages[m]]) :
            Stream[At[m - 1] + j] = [msg |-> m, part |-> PartsOf[messages[m]][j]]

Answered ==
  /\ Promised \in Seq(Promises)
  /\ Due \in [0..Len(messages) -> Nat] /\ Due[0] = 0 /\ Due[Len(messages)] = Len(Promised)
  /\ \A m \in DOMAIN messages :
       /\ Due[m] = Due[m - 1] + Len(Deliveries(m)) /\ Due[m] <= Len(Promised)
       /\ \A j \in 1..Len(Deliveries(m)) : Promised[Due[m - 1] + j] = Deliveries(m)[j]

(* How much of the stream is parsed, or lost.                              *)
Read == Len(Stream) - (Len(buf) + Len(wire))

(* What is not yet parsed is the rest of the stream.                       *)
Suffix ==
  /\ Len(buf) + Len(wire) <= Len(Stream)
  /\ \A k \in 1..Len(buf) : buf[k] = Stream[Read + k]
  /\ \A k \in 1..Len(wire) : wire[k] = Stream[Read + Len(buf) + k]
  /\ ~parsing => buf = <<>>

(* What is delivered is the beginning of what is promised, but for the     *)
(* bytes left behind.                                                      *)
Delivered ==
  /\ Len(requests) <= Len(Promised)
  /\ \A k \in 1..Len(requests) : requests[k] = WithLost(Promised[k])

(* The message in hand, with no swallowing one before it.                  *)
Current ==
  /\ req_ \in Heads /\ req_.msg \in DOMAIN messages
  /\ req_.whole = (req_.msg - 1 \notin lost)
  /\ lost \subseteq 1..req_.msg
  /\ \A k \in 1..(req_.msg - 1) : ~Swallows(k)

(* The parser is p pieces and d deliveries into it.                        *)
Standing(kind, p, d) ==
  /\ Current /\ messages[req_.msg] = kind /\ again = <<>>
  /\ is_chunked_ = (kind = "chunked") /\ is_stream_ = (kind = "stream")
  /\ Read = At[req_.msg - 1] + p
  /\ Len(requests) = Due[req_.msg - 1] + d

Stands(state, chunk, kind, p, d) ==
  state_ = state /\ chunk_ = chunk /\ Standing(kind, p, d)

(* A head is due: nothing was parsed, or a message is complete.            *)
Fresh ==
  /\ state_ = "kExpectHeaders" /\ chunk_ = <<>> /\ ~is_chunked_ /\ ~is_stream_
  /\ Read = 0 /\ Len(requests) = 0 /\ again = <<>> /\ lost = {}

(* The last byte of the message in hand was not left behind.               *)
Kept == req_.msg \notin lost

Between ==
  \/ Fresh
  \/ Stands("kExpectHttpComplete", <<>>, "plain", 2, 1) /\ Kept /\ req_.whole
  \/ Stands("kExpectHttpComplete", <<"body", "byte">>, "sized", 4, 1) /\ Kept
  \/ Stands("kExpectHttpComplete", <<"body", "other">>, "sized", 4, 1) /\ ~Kept

(* Every message that goes on after its head, wherever it may be left.     *)
Inside ==
  \/ Stands("kExpectNormalBody", <<>>, "sized", 2, 0)
  \/ Stands("kExpectNormalBody", <<"body">>, "sized", 3, 0)
  \/ Stands("kExpectStreamBody", <<>>, "stream", 2, 0)
  \/ Stands("kExpectStreamBody", <<"flow1">>, "stream", 3, 0)
  \/ Stands("kExpectChunkLen", <<>>, "chunked", 2, 0)
  \/ Stands("kExpectChunkBody", <<>>, "chunked", 4, 0)
  \/ Stands("kExpectChunkBody", <<"data1">>, "chunked", 5, 0)
  \/ Stands("kExpectChunkComplete", <<"data1", "data2">>, "chunked", 6, 1)
  \/ Stands("kExpectLastEmptyChunk", <<>>, "chunked", 7, 1)

(* A body whose last byte was left behind, and not made up for.            *)
Short == Stands("kExpectNormalBody", <<"body">>, "sized", 4, 0) /\ ~Kept

(* What the parser may hold of what is behind.                             *)
Holding ==
  \/ state_ \in {"kExpectChunkLen", "kExpectLastEmptyChunk", "kExpectError"} /\ chunk_ = <<>>
  \/ state_ \in {"kExpectChunkBody", "kExpectStreamBody"} /\ chunk_ \in {<<>>, <<"other">>}
  \/ state_ = "kExpectChunkComplete" /\ chunk_ \in {<<>>, <<"other">>, <<"flow1", "flow2">>}

(* Behind a message that swallows the others: all of it is read, and all   *)
(* but what a mistaken GET is owed is delivered.                           *)
Behind ==
  /\ Current /\ Swallows(req_.msg) /\ Holding
  /\ is_chunked_ \/ is_stream_
  /\ Read >= At[req_.msg]
  /\ Len(requests) = IF Mistaken(req_.msg) THEN Due[req_.msg - 1] ELSE Due[req_.msg]
  /\ \A i \in DOMAIN again : again[i].req = req_

(* An unparsable head.                                                     *)
Failed ==
  /\ state_ = "kExpectError" /\ chunk_ = <<>> /\ Current /\ again = <<>>
  /\ Len(requests) = Due[req_.msg - 1]

Progress == Between \/ (Inside /\ Kept) \/ Short \/ Behind \/ Failed

Types ==
  /\ messages \in BoundedSeq(Kinds, MaxMessages)
  /\ wire \in Seq(Pieces) /\ buf \in Seq(Pieces)
  /\ parsing \in BOOLEAN /\ is_chunked_ \in BOOLEAN /\ is_stream_ \in BOOLEAN
  /\ req_ \in Heads \cup {None}
  /\ requests \in Seq(Requests) /\ again \in Seq(Requests)

IInv == Types /\ Suffix /\ Delivered /\ Progress

-----------------------------------------------------------------------------

LEMMA MessagesType ==
  ASSUME HttpBoundsAssumption, messages \in BoundedSeq(Kinds, MaxMessages)
  PROVE  /\ messages \in Seq(Kinds) /\ Len(messages) \in Nat /\ Len(messages) <= MaxMessages
         /\ DOMAIN messages = 1..Len(messages)
<1>1. PICK m \in 0..MaxMessages : messages \in [1..m -> Kinds]
  BY DEF BoundedSeq, SeqOf
<1>2. m \in Nat /\ m <= MaxMessages BY DEF HttpBoundsAssumption
<1> QED BY <1>1, <1>2

LEMMA KindFacts ==
  /\ Kinds = {"plain", "sized", "chunked", "stream", "bad"}
  /\ PartsOf["plain"] = <<"head1", "head2">>
  /\ PartsOf["sized"] = <<"head1", "head2", "body", "byte">>
  /\ PartsOf["chunked"] = <<"head1", "head2", "size1", "size2", "data1", "data2", "zero", "empty">>
  /\ PartsOf["stream"] = <<"head1", "head2", "flow1", "flow2">>
  /\ PartsOf["bad"] = <<"head1", "head2", "body", "byte">>
BY DEF Kinds, PartsOf

LEMMA PartsType ==
  ASSUME NEW k \in Kinds
  PROVE  /\ PartsOf[k] \in Seq(Parts) /\ DOMAIN PartsOf[k] = 1..Len(PartsOf[k])
         /\ Len(PartsOf[k]) \in Nat /\ Len(PartsOf[k]) >= 2 /\ PartsOf[k][1] = "head1"
<1>1. /\ Len(PartsOf[k]) \in Nat /\ DOMAIN PartsOf[k] = 1..Len(PartsOf[k])
      /\ Len(PartsOf[k]) >= 2 /\ PartsOf[k][1] = "head1"
      /\ PartsOf[k] = [j \in 1..Len(PartsOf[k]) |-> PartsOf[k][j]]
  <2>1. \A a, b : LET s == <<a, b>> IN
          Len(s) = 2 /\ DOMAIN s = 1..2 /\ s[1] = a /\ s = [j \in 1..2 |-> s[j]]
    OBVIOUS
  <2>2. \A a, b, c, d : LET s == <<a, b, c, d>> IN
          Len(s) = 4 /\ DOMAIN s = 1..4 /\ s[1] = a /\ s = [j \in 1..4 |-> s[j]]
    OBVIOUS
  <2>4. CASE k = "plain" BY <2>1, <2>4, KindFacts
  <2>5. CASE k \in {"sized", "stream", "bad"}
    <3>1. \E a, b, c, d : PartsOf[k] = <<a, b, c, d>> /\ a = "head1" BY <2>5, KindFacts
    <3> QED BY <2>2, <3>1
  <2>6. CASE k = "chunked"
    <3> DEFINE s == <<"head1", "head2", "size1", "size2", "data1", "data2", "zero", "empty">>
    <3>1. Len(s) = 8 /\ DOMAIN s = 1..8 /\ s[1] = "head1" /\ s = [j \in 1..8 |-> s[j]] OBVIOUS
    <3>2. PartsOf[k] = s BY <2>6, KindFacts
    <3> HIDE DEF s
    <3> QED BY <3>1, <3>2
  <2>7. k = "plain" \/ k \in {"sized", "stream", "bad"} \/ k = "chunked"
    BY ONLY k \in Kinds DEF Kinds, PartsOf
  <2> QED BY <2>4, <2>5, <2>6, <2>7, Zenon
<1>2. \A j \in DOMAIN PartsOf[k] : PartsOf[k][j] \in Parts
  BY DEF Parts, ToSet
<1>3. PartsOf[k] \in Seq(Parts)
  <2> DEFINE p == PartsOf[k]
  <2>1. Len(p) \in Nat /\ p = [j \in 1..Len(p) |-> p[j]] /\ \A j \in 1..Len(p) : p[j] \in Parts
    BY <1>1, <1>2
  <2> HIDE DEF p
  <2>2. p \in Seq(Parts) BY <2>1
  <2> QED BY <2>2 DEF p
<1> QED BY <1>1, <1>3

LEMMA DeliveriesType ==
  ASSUME NEW m \in 1..MaxMessages
  PROVE  messages[m] \in Kinds => Deliveries(m) \in Seq(Promises)
<1> SUFFICES ASSUME messages[m] \in Kinds PROVE Deliveries(m) \in Seq(Promises) OBVIOUS
<1>1. /\ <<>> \in Bodies /\ <<"body", "byte">> \in Bodies
      /\ <<"data1", "data2">> \in Bodies /\ <<"flow1", "flow2">> \in Bodies
  BY DEF Bodies
<1>2. \A b \in Bodies : [msg |-> m, chunk |-> b] \in Promises BY DEF Promises
<1>3. \A x, y \in Promises : <<x>> \in Seq(Promises) /\ <<x, y>> \in Seq(Promises) /\ <<>> \in Seq(Promises)
  OBVIOUS
<1> QED BY <1>1, <1>2, <1>3, KindFacts DEF Deliveries

LEMMA SentType ==
  ASSUME HttpBoundsAssumption, messages \in BoundedSeq(Kinds, MaxMessages)
  PROVE  /\ Sent \in Seq(Seq(Pieces)) /\ Len(Sent) = Len(messages)
         /\ \A i \in DOMAIN messages :
              /\ Len(Sent[i]) = Len(PartsOf[messages[i]])
              /\ \A j \in 1..Len(PartsOf[messages[i]]) :
                   Sent[i][j] = [msg |-> i, part |-> PartsOf[messages[i]][j]]
<1>1. /\ messages \in Seq(Kinds) /\ Len(messages) \in Nat /\ Len(messages) <= MaxMessages
      /\ DOMAIN messages = 1..Len(messages)
  BY MessagesType
<1>2. \A m \in DOMAIN messages : m \in 1..MaxMessages /\ messages[m] \in Kinds
  BY <1>1 DEF HttpBoundsAssumption
<1>3. /\ Sent \in Seq(Seq(Pieces)) /\ Len(Sent) = Len(messages)
      /\ \A i \in DOMAIN messages :
           /\ Len(Sent[i]) = Len(PartsOf[messages[i]])
           /\ \A j \in 1..Len(PartsOf[messages[i]]) :
                Sent[i][j] = [msg |-> i, part |-> PartsOf[messages[i]][j]]
  <2>1. \A i \in DOMAIN messages : /\ Sent[i] \in Seq(Pieces)
                                   /\ Len(Sent[i]) = Len(PartsOf[messages[i]])
                                   /\ \A j \in 1..Len(PartsOf[messages[i]]) :
                                        Sent[i][j] = [msg |-> i, part |-> PartsOf[messages[i]][j]]
    <3> TAKE i \in DOMAIN messages
    <3> DEFINE p == PartsOf[messages[i]]
               q == [j \in 1..Len(p) |-> [msg |-> i, part |-> p[j]]]
    <3>1. p \in Seq(Parts) /\ DOMAIN p = 1..Len(p) /\ Len(p) \in Nat BY <1>2, PartsType
    <3>2. Sent[i] = q BY <3>1 DEF Sent
    <3>3. \A j \in 1..Len(p) : [msg |-> i, part |-> p[j]] \in Pieces
      <4>1. \A j \in 1..Len(p) : p[j] \in Parts BY <3>1
      <4> QED BY <4>1, <1>2 DEF Pieces
    <3> HIDE DEF p
    <3>4. q \in Seq(Pieces) /\ Len(q) = Len(p) BY <3>1, <3>3
    <3> QED BY <3>2, <3>4 DEF p
  <2>2. Sent \in Seq(Seq(Pieces)) /\ Len(Sent) = Len(messages)
    <3>1. Sent = [i \in 1..Len(messages) |-> Sent[i]] BY <1>1 DEF Sent
    <3> QED BY <3>1, <2>1, <1>1
  <2> QED BY <2>1, <2>2
<1> QED BY <1>3

LEMMA Layout ==
  ASSUME HttpBoundsAssumption, messages \in BoundedSeq(Kinds, MaxMessages)
  PROVE  Placed /\ Answered
<1>1. /\ messages \in Seq(Kinds) /\ Len(messages) \in Nat /\ Len(messages) <= MaxMessages
      /\ DOMAIN messages = 1..Len(messages)
  BY MessagesType
<1>2. \A m \in DOMAIN messages : m \in 1..MaxMessages /\ messages[m] \in Kinds
  BY <1>1 DEF HttpBoundsAssumption
<1>3. Placed
  <2>1. \A i \in DOMAIN messages :
          /\ Len(Sent[i]) = Len(PartsOf[messages[i]])
          /\ \A j \in 1..Len(PartsOf[messages[i]]) :
               Sent[i][j] = [msg |-> i, part |-> PartsOf[messages[i]][j]]
    BY SentType
  <2>2. Sent \in Seq(Seq(Pieces)) /\ Len(Sent) = Len(messages) BY SentType
  <2>3. Stream \in Seq(Pieces) /\ \E o : Laid(Sent, Stream, o)
    BY <2>2, FlattenSeqLays DEF Stream
  <2>4. Laid(Sent, Stream, At) BY <2>3 DEF At
  <2>5. /\ At \in [0..Len(messages) -> Nat] /\ At[0] = 0 /\ At[Len(messages)] = Len(Stream)
    BY <2>2, <2>4 DEF Laid
  <2>6. ASSUME NEW m \in DOMAIN messages
        PROVE  /\ At[m] = At[m - 1] + Len(PartsOf[messages[m]]) /\ At[m] <= Len(Stream)
               /\ \A j \in 1..Len(PartsOf[messages[m]]) :
                    Stream[At[m - 1] + j] = [msg |-> m, part |-> PartsOf[messages[m]][j]]
    <3>1. m \in 1..Len(Sent) BY <2>2, <1>1
    <3>2. /\ At[m] = At[m - 1] + Len(Sent[m]) /\ At[m] <= Len(Stream)
          /\ \A j \in 1..Len(Sent[m]) : Stream[At[m - 1] + j] = Sent[m][j]
      BY <3>1, <2>4 DEF Laid
    <3> QED BY <3>2, <2>1
  <2> QED BY <2>3, <2>5, <2>6 DEF Placed
<1>4. Answered
  <2>1. \A i \in DOMAIN messages : Owed[i] = Deliveries(i) /\ Owed[i] \in Seq(Promises)
    BY <1>2, DeliveriesType DEF Owed
  <2>2. Owed \in Seq(Seq(Promises)) /\ Len(Owed) = Len(messages)
    <3>1. Owed = [i \in 1..Len(messages) |-> Owed[i]] BY <1>1 DEF Owed
    <3> QED BY <3>1, <2>1, <1>1
  <2>3. Promised \in Seq(Promises) /\ \E o : Laid(Owed, Promised, o)
    BY <2>2, FlattenSeqLays DEF Promised, Owed
  <2>4. Laid(Owed, Promised, Due) BY <2>3 DEF Due
  <2>5. /\ Due \in [0..Len(messages) -> Nat] /\ Due[0] = 0 /\ Due[Len(messages)] = Len(Promised)
    BY <2>2, <2>4 DEF Laid
  <2>6. ASSUME NEW m \in DOMAIN messages
        PROVE  /\ Due[m] = Due[m - 1] + Len(Deliveries(m)) /\ Due[m] <= Len(Promised)
               /\ \A j \in 1..Len(Deliveries(m)) : Promised[Due[m - 1] + j] = Deliveries(m)[j]
    <3>1. m \in 1..Len(Owed) BY <2>2, <1>1
    <3>2. /\ Due[m] = Due[m - 1] + Len(Owed[m]) /\ Due[m] <= Len(Promised)
          /\ \A j \in 1..Len(Owed[m]) : Promised[Due[m - 1] + j] = Owed[m][j]
      BY <3>1, <2>4 DEF Laid
    <3> QED BY <3>2, <2>1
  <2> QED BY <2>3, <2>5, <2>6 DEF Answered
<1> QED BY <1>3, <1>4

(* What is promised up to message m is promised to one of those.           *)
LEMMA PromisedUpTo ==
  ASSUME HttpBoundsAssumption, messages \in BoundedSeq(Kinds, MaxMessages),
         NEW m \in 0..Len(messages), NEW k \in 1..Len(Promised), k <= Due[m]
  PROVE  Promised[k].msg \in 1..m
<1>1. /\ messages \in Seq(Kinds) /\ Len(messages) \in Nat /\ Len(messages) <= MaxMessages
      /\ DOMAIN messages = 1..Len(messages)
  BY MessagesType
<1>2. Answered BY Layout
<1>3. \A i \in DOMAIN messages : Owed[i] = Deliveries(i) /\ Owed[i] \in Seq(Promises)
  <2>1. \A i \in DOMAIN messages : i \in 1..MaxMessages /\ messages[i] \in Kinds
    BY <1>1 DEF HttpBoundsAssumption
  <2> QED BY <2>1, DeliveriesType DEF Owed
<1>4. Owed \in Seq(Seq(Promises)) /\ Len(Owed) = Len(messages)
  <2>1. Owed = [i \in 1..Len(messages) |-> Owed[i]] BY <1>1 DEF Owed
  <2> QED BY <2>1, <1>1, <1>3
<1>5. Laid(Owed, Promised, Due)
  <2>1. \E o : Laid(Owed, Promised, o) BY <1>4, FlattenSeqLays DEF Promised, Owed
  <2> QED BY <2>1 DEF Due
<1>6. PICK i \in 1..Len(Owed) : \E j \in 1..Len(Owed[i]) : k = Due[i - 1] + j /\ k <= Due[i]
  <2>1. Promised \in Seq(Promises) BY <1>2 DEF Answered
  <2> QED BY <1>4, <1>5, <2>1, LaidCovers
<1>7. PICK j \in 1..Len(Owed[i]) : k = Due[i - 1] + j BY <1>6
<1>8. i \in DOMAIN messages /\ i \in Nat /\ m \in Nat /\ i - 1 \in 0..Len(messages) BY <1>1, <1>4
<1>9. Promised[k] = Deliveries(i)[j] BY <1>2, <1>3, <1>7, <1>8 DEF Answered
<1>10. Promised[k].msg = i
  <2>1. messages[i] \in Kinds BY <1>1, <1>8
  <2>2. j \in 1..Len(Deliveries(i)) BY <1>3, <1>8
  <2>3. messages[i] \in {"plain", "sized", "chunked", "stream", "bad"} BY <2>1, KindFacts
  <2>4. ASSUME NEW x, Deliveries(i) = <<x>>, x.msg = i PROVE Promised[k].msg = i
    <3>1. Len(<<x>>) = 1 /\ <<x>>[1] = x OBVIOUS
    <3>2. j = 1 BY <2>2, <2>4, <3>1
    <3> QED BY <1>9, <2>4, <3>1, <3>2
  <2>5. CASE messages[i] = "plain" BY <2>4, <2>5 DEF Deliveries
  <2>6. CASE messages[i] = "sized" BY <2>4, <2>6 DEF Deliveries
  <2>7. CASE messages[i] = "stream" BY <2>4, <2>7 DEF Deliveries
  <2>8. CASE messages[i] = "bad"
    <3>1. Len(Deliveries(i)) = 0 BY <2>8 DEF Deliveries
    <3> QED BY <2>2, <3>1
  <2>9. CASE messages[i] = "chunked"
    <3> DEFINE x == [msg |-> i, chunk |-> <<"data1", "data2">>]
               y == [msg |-> i, chunk |-> <<>>]
    <3>1. Deliveries(i) = <<x, y>> BY <2>9 DEF Deliveries
    <3>2. x.msg = i /\ y.msg = i OBVIOUS
    <3> HIDE DEF x, y
    <3>3. Len(<<x, y>>) = 2 /\ <<x, y>>[1] = x /\ <<x, y>>[2] = y OBVIOUS
    <3>4. j = 1 \/ j = 2 BY <2>2, <3>1, <3>3
    <3> QED BY <1>9, <3>1, <3>2, <3>3, <3>4
  <2> QED BY <2>3, <2>5, <2>6, <2>7, <2>8, <2>9
<1>11. i <= m
  <2>1. SUFFICES ASSUME ~(i <= m) PROVE FALSE OBVIOUS
  <2>2. (i - 1) - m \in Nat /\ m + ((i - 1) - m) = i - 1 BY <2>1, <1>8
  <2>3. m \in 0..Len(Owed) /\ m + ((i - 1) - m) <= Len(Owed) BY <2>2, <1>1, <1>4, <1>8
  <2>4. Due[m] <= Due[m + ((i - 1) - m)] BY <2>2, <2>3, <1>4, <1>5, LaidInOrder
  <2>5. Due[m] <= Due[i - 1] BY <2>2, <2>4
  <2>6. Due[m] \in Nat /\ Due[i - 1] \in Nat BY <1>2, <1>8 DEF Answered
  <2>7. j >= 1 /\ j \in Nat OBVIOUS
  <2> QED BY <2>5, <2>6, <2>7, <1>7
<1> QED BY <1>8, <1>10, <1>11

(* What is promised to one message comes before what is promised to a      *)
(* later one.                                                              *)
LEMMA DueInOrder ==
  ASSUME HttpBoundsAssumption, messages \in BoundedSeq(Kinds, MaxMessages),
         NEW m \in 0..Len(messages), NEW r \in 0..Len(messages), m <= r
  PROVE  Due[m] <= Due[r]
<1>1. /\ messages \in Seq(Kinds) /\ Len(messages) \in Nat /\ Len(messages) <= MaxMessages
      /\ DOMAIN messages = 1..Len(messages)
  BY MessagesType
<1>2. \A i \in DOMAIN messages : Owed[i] \in Seq(Promises)
  <2>1. \A i \in DOMAIN messages : i \in 1..MaxMessages /\ messages[i] \in Kinds
    BY <1>1 DEF HttpBoundsAssumption
  <2> QED BY <2>1, DeliveriesType DEF Owed
<1>3. Owed \in Seq(Seq(Promises)) /\ Len(Owed) = Len(messages)
  <2>1. Owed = [i \in 1..Len(messages) |-> Owed[i]] BY <1>1 DEF Owed
  <2> QED BY <2>1, <1>1, <1>2
<1>4. Laid(Owed, Promised, Due)
  <2>1. \E o : Laid(Owed, Promised, o) BY <1>3, FlattenSeqLays DEF Promised, Owed
  <2> QED BY <2>1 DEF Due
<1>5. r - m \in Nat /\ m + (r - m) = r /\ m \in 0..Len(Owed) /\ m + (r - m) <= Len(Owed)
  BY <1>1, <1>3
<1>6. Due[m] <= Due[m + (r - m)] BY <1>3, <1>4, <1>5, LaidInOrder
<1> QED BY <1>5, <1>6

(* What stands behind a message is not of it.                              *)
LEMMA OthersBehind ==
  ASSUME HttpBoundsAssumption, messages \in BoundedSeq(Kinds, MaxMessages),
         NEW m \in DOMAIN messages, NEW k \in 1..Len(Stream), k > At[m]
  PROVE  Stream[k].msg # m
<1>1. /\ messages \in Seq(Kinds) /\ Len(messages) \in Nat /\ Len(messages) <= MaxMessages
      /\ DOMAIN messages = 1..Len(messages)
  BY MessagesType
<1>2. Placed BY Layout
<1>3. Sent \in Seq(Seq(Pieces)) /\ Len(Sent) = Len(messages)
      /\ \A i \in DOMAIN messages : Len(Sent[i]) = Len(PartsOf[messages[i]])
  BY SentType
<1>4. Laid(Sent, Stream, At)
  <2>1. \E o : Laid(Sent, Stream, o) BY <1>3, FlattenSeqLays DEF Stream
  <2> QED BY <2>1 DEF At
<1>5. PICK i \in 1..Len(Sent) : \E j \in 1..Len(Sent[i]) : k = At[i - 1] + j /\ k <= At[i]
  <2>1. Stream \in Seq(Pieces) BY <1>2 DEF Placed
  <2> QED BY <1>3, <1>4, <2>1, LaidCovers
<1>6. PICK j \in 1..Len(Sent[i]) : k = At[i - 1] + j BY <1>5
<1>7. i \in DOMAIN messages /\ i \in 0..Len(messages) /\ m \in 0..Len(messages) BY <1>1, <1>3
<1>8. Stream[k].msg = i
  <2>1. j \in 1..Len(PartsOf[messages[i]]) BY <1>3, <1>7
  <2>2. Stream[At[i - 1] + j] = [msg |-> i, part |-> PartsOf[messages[i]][j]]
    BY <1>2, <1>7, <2>1 DEF Placed
  <2> QED BY <1>6, <2>2
<1>9. k <= At[i] BY <1>5
<1>10. At[i] \in Nat /\ At[m] \in Nat BY <1>2, <1>7 DEF Placed
<1> QED BY <1>8, <1>9, <1>10

-----------------------------------------------------------------------------
(* What stands at the front of the buffer.                                 *)

LEMMA Numbers ==
  ASSUME HttpBoundsAssumption, Types, Suffix
  PROVE  /\ Len(buf) \in Nat /\ Len(wire) \in Nat /\ Len(Stream) \in Nat /\ Read \in Nat
         /\ Len(requests) \in Nat /\ Len(Promised) \in Nat
         /\ Read + (Len(buf) + Len(wire)) = Len(Stream)
         /\ Len(messages) \in Nat /\ DOMAIN messages = 1..Len(messages)
<1>1. Placed /\ Answered BY Layout DEF Types
<1>2. Len(buf) \in Nat /\ Len(wire) \in Nat /\ Len(requests) \in Nat BY DEF Types
<1>3. Len(Stream) \in Nat /\ Len(Promised) \in Nat BY <1>1 DEF Placed, Answered
<1>4. Len(messages) \in Nat /\ DOMAIN messages = 1..Len(messages) BY MessagesType DEF Types
<1> QED BY <1>2, <1>3, <1>4 DEF Suffix, Read

(* Where a message is complete, the next one begins.                       *)
LEMMA HeadIsNext ==
  ASSUME HttpBoundsAssumption, Types, Suffix,
         NEW m \in 0..Len(messages), Read = At[m], Read < Len(Stream)
  PROVE  m + 1 \in DOMAIN messages /\ Stream[Read + 1] = [msg |-> m + 1, part |-> "head1"]
<1>1. Placed BY Layout DEF Types
<1>2. Len(messages) \in Nat /\ DOMAIN messages = 1..Len(messages) BY Numbers
<1>3. m # Len(messages) BY <1>1 DEF Placed
<1>4. m + 1 \in 1..Len(messages) /\ (m + 1) - 1 = m
  <2> DEFINE n == Len(messages)
  <2>1. n \in Nat /\ m \in 0..n /\ m # n BY <1>2, <1>3
  <2> HIDE DEF n
  <2>2. m + 1 \in 1..n /\ (m + 1) - 1 = m BY <2>1
  <2> QED BY <2>2 DEF n
<1>5. messages[m + 1] \in Kinds BY <1>2, <1>4, MessagesType DEF Types
<1>6. 1 \in 1..Len(PartsOf[messages[m + 1]]) /\ PartsOf[messages[m + 1]][1] = "head1"
  BY <1>5, PartsType
<1>7. Stream[At[(m + 1) - 1] + 1] = [msg |-> m + 1, part |-> PartsOf[messages[m + 1]][1]]
  BY <1>1, <1>2, <1>4, <1>6 DEF Placed
<1> QED BY <1>2, <1>4, <1>6, <1>7

(* Inside a message, its next piece is.                                    *)
LEMMA PieceIsNext ==
  ASSUME HttpBoundsAssumption, Types, Suffix, buf # <<>>,
         NEW kind, NEW p \in Nat, NEW d, Standing(kind, p, d),
         NEW q, q = p + 1, q <= Len(PartsOf[kind])
  PROVE  buf[1] = [msg |-> req_.msg, part |-> PartsOf[kind][q]]
<1>1. Placed BY Layout DEF Types
<1>2. req_.msg \in DOMAIN messages /\ messages[req_.msg] = kind /\ Read = At[req_.msg - 1] + p
  BY DEF Standing, Current
<1>3. Len(messages) \in Nat /\ DOMAIN messages = 1..Len(messages) BY Numbers
<1>4. At[req_.msg - 1] \in Nat
  <2>1. req_.msg - 1 \in 0..Len(messages) BY <1>2, <1>3
  <2> QED BY <2>1, <1>1 DEF Placed
<1>5. kind \in Kinds BY <1>2, <1>3, MessagesType DEF Types
<1>6. Len(PartsOf[kind]) \in Nat BY <1>5, PartsType
<1>7. q \in 1..Len(PartsOf[kind]) BY <1>6
<1>8. Stream[At[req_.msg - 1] + q] = [msg |-> req_.msg, part |-> PartsOf[kind][q]]
  BY <1>1, <1>2, <1>7 DEF Placed
<1>9. buf[1] = Stream[Read + 1]
  <2>1. 1 \in 1..Len(buf) BY DEF Types
  <2> QED BY <2>1 DEF Suffix
<1>10. Read + 1 = At[req_.msg - 1] + q BY <1>2, <1>4
<1> QED BY <1>8, <1>9, <1>10

(* If that is a single byte, then of a body.                               *)
LEMMA ByteIsNext ==
  ASSUME HttpBoundsAssumption, Types, Suffix, buf # <<>>, buf[1].part = "byte",
         NEW kind, NEW p \in Nat, NEW d, Standing(kind, p, d),
         NEW q \in Nat, p < q, q <= p + 1, q <= Len(PartsOf[kind])
  PROVE  PartsOf[kind][q] = "byte"
<1>1. q = p + 1 OBVIOUS
<1>2. buf[1] = [msg |-> req_.msg, part |-> PartsOf[kind][q]] BY <1>1, PieceIsNext
<1> QED BY <1>2

(* A message that stands complete ends where the next one begins.          *)
LEMMA CompleteIsAt ==
  ASSUME HttpBoundsAssumption, Types, Suffix,
         NEW kind, NEW p, NEW d, Standing(kind, p, d), p = Len(PartsOf[kind])
  PROVE  req_.msg \in 1..Len(messages) /\ Read = At[req_.msg]
<1>1. Placed BY Layout DEF Types
<1>2. req_.msg \in 1..Len(messages) BY Numbers DEF Standing, Current
<1> QED BY <1>1, <1>2 DEF Placed, Standing

LEMMA AnsweredIsDue ==
  ASSUME HttpBoundsAssumption, Types, Suffix,
         NEW kind, NEW p, NEW d, Standing(kind, p, d), d = Len(Deliveries(req_.msg))
  PROVE  req_.msg \in 1..Len(messages) /\ Len(requests) = Due[req_.msg]
<1>1. Answered BY Layout DEF Types
<1>2. req_.msg \in 1..Len(messages) BY Numbers DEF Standing, Current
<1> QED BY <1>1, <1>2 DEF Answered, Standing

(* Between two messages the parser is at an end, with nothing of what is   *)
(* before left but a byte that was taken from what is behind.              *)
LEMMA BetweenIsAt ==
  ASSUME HttpBoundsAssumption, Types, Suffix, Between
  PROVE  \E m \in 0..Len(messages) :
           /\ Read = At[m] /\ Len(requests) = Due[m]
           /\ lost \subseteq 1..m /\ (m \in lost <=> Beheaded)
           /\ \A k \in 1..m : ~Swallows(k)
           /\ ~is_chunked_ /\ ~is_stream_ /\ again = <<>>
<1>1. Placed /\ Answered /\ Len(messages) \in Nat BY Layout, Numbers DEF Types
<1>2. CASE Fresh
  <2>1. 0 \in 0..Len(messages) BY <1>1
  <2>2. Read = At[0] /\ Len(requests) = Due[0] BY <1>1, <1>2 DEF Fresh, Placed, Answered
  <2>3. lost \subseteq 1..0 /\ 0 \notin lost /\ ~Beheaded /\ \A k \in 1..0 : ~Swallows(k)
    BY <1>2 DEF Fresh, Beheaded
  <2> QED BY <1>2, <2>1, <2>2, <2>3 DEF Fresh
<1>3. ASSUME NEW kind, NEW p, NEW d, Standing(kind, p, d), kind \in {"plain", "sized"},
             p = Len(PartsOf[kind]), d = 1, req_.msg \in lost <=> Beheaded,
             kind = "plain" => req_.whole
      PROVE  \E m \in 0..Len(messages) :
               /\ Read = At[m] /\ Len(requests) = Due[m]
               /\ lost \subseteq 1..m /\ (m \in lost <=> Beheaded)
               /\ \A k \in 1..m : ~Swallows(k)
               /\ ~is_chunked_ /\ ~is_stream_ /\ again = <<>>
  <2>1. messages[req_.msg] = kind BY <1>3 DEF Standing
  <2>2. Len(Deliveries(req_.msg)) = 1
    <3>1. CASE kind = "plain" BY <2>1, <3>1 DEF Deliveries
    <3>2. CASE kind = "sized" BY <2>1, <3>2 DEF Deliveries
    <3> QED BY <1>3, <3>1, <3>2
  <2>3. req_.msg \in 1..Len(messages) /\ Read = At[req_.msg] BY <1>3, CompleteIsAt
  <2>4. Len(requests) = Due[req_.msg] BY <1>3, <2>2, AnsweredIsDue
  <2>5. req_.msg \in 0..Len(messages) /\ req_.msg \in Nat BY <1>1, <2>3
  <2>6. ~Swallows(req_.msg)
    BY <1>3, <2>1 DEF Swallows, Mistaken, Standing, Current
  <2>7. \A k \in 1..req_.msg : ~Swallows(k)
    <3> TAKE k \in 1..req_.msg
    <3>1. CASE k = req_.msg BY <2>6, <3>1
    <3>2. CASE k # req_.msg
      <4>1. k \in 1..(req_.msg - 1) BY <2>5, <3>2
      <4> QED BY <1>3, <4>1 DEF Standing, Current
    <3> QED BY <3>1, <3>2
  <2>8. ~is_chunked_ /\ ~is_stream_ /\ again = <<>> /\ lost \subseteq 1..req_.msg
    BY <1>3 DEF Standing, Current
  <2> QED BY <1>3, <2>3, <2>4, <2>5, <2>7, <2>8
<1>4. Len(PartsOf["plain"]) = 2 /\ Len(PartsOf["sized"]) = 4 BY KindFacts
<1>5. <<"body", "byte">> # <<"body", "other">> /\ <<>> # <<"body", "other">>
  <2>1. <<"body", "byte">>[2] # <<"body", "other">>[2] OBVIOUS
  <2> QED BY <2>1
<1>6. CASE Stands("kExpectHttpComplete", <<>>, "plain", 2, 1) /\ Kept /\ req_.whole
  <2>1. req_.msg \in lost <=> Beheaded BY <1>5, <1>6 DEF Kept, Stands, Beheaded
  <2> QED BY <1>3, <1>4, <1>6, <2>1 DEF Stands
<1>7. CASE Stands("kExpectHttpComplete", <<"body", "byte">>, "sized", 4, 1) /\ Kept
  <2>1. req_.msg \in lost <=> Beheaded BY <1>5, <1>7 DEF Kept, Stands, Beheaded
  <2> QED BY <1>3, <1>4, <1>7, <2>1 DEF Stands
<1>8. CASE Stands("kExpectHttpComplete", <<"body", "other">>, "sized", 4, 1) /\ ~Kept
  <2>1. req_.msg \in lost <=> Beheaded BY <1>8 DEF Kept, Stands, Beheaded
  <2> QED BY <1>3, <1>4, <1>8, <2>1 DEF Stands
<1> QED BY <1>2, <1>6, <1>7, <1>8 DEF Between

(* Where a message is over, the next one's head is at the front.           *)
LEMMA HeadIsFirst ==
  ASSUME HttpBoundsAssumption, Types, Suffix, buf # <<>>,
         NEW m \in 0..Len(messages), Read = At[m]
  PROVE  m + 1 \in DOMAIN messages /\ buf[1] = [msg |-> m + 1, part |-> "head1"]
<1>1. 1 \in 1..Len(buf) /\ Read < Len(Stream)
  <2>1. Len(buf) \in Nat \ {0} BY DEF Types
  <2> QED BY <2>1, Numbers
<1>2. buf[1] = Stream[Read + 1] BY <1>1 DEF Suffix
<1> QED BY <1>1, <1>2, HeadIsNext

(* A parser that is through with its message has none of it in front.      *)
LEMMA NothingMore ==
  ASSUME HttpBoundsAssumption, Types, Suffix, buf # <<>>, Standing("sized", 4, 0)
  PROVE  buf[1].msg # req_.msg /\ buf[1].part = "head1"
<1>1. Len(PartsOf["sized"]) = 4 BY KindFacts
<1>2. req_.msg \in 1..Len(messages) /\ Read = At[req_.msg] BY <1>1, CompleteIsAt
<1>3. req_.msg \in 0..Len(messages) /\ req_.msg # req_.msg + 1 BY <1>2, Numbers
<1>4. buf[1] = [msg |-> req_.msg + 1, part |-> "head1"] BY <1>2, <1>3, HeadIsFirst
<1> QED BY <1>3, <1>4

LEMMA NothingBehind ==
  ASSUME HttpBoundsAssumption, Types, Suffix, buf # <<>>, Behind
  PROVE  buf[1].msg # req_.msg
<1>1. Len(buf) \in Nat /\ 1 \in 1..Len(buf) BY DEF Types
<1>2. req_.msg \in DOMAIN messages /\ Read >= At[req_.msg] BY DEF Behind, Current
<1>3. buf[1] = Stream[Read + 1] BY <1>1 DEF Suffix
<1>4. At[req_.msg] \in Nat
  <2>1. req_.msg \in 0..Len(messages) BY <1>2, Numbers
  <2> QED BY <2>1, Layout DEF Types, Placed
<1>5. Read + 1 \in 1..Len(Stream) /\ Read + 1 > At[req_.msg] BY <1>1, <1>2, <1>4, Numbers
<1> QED BY <1>2, <1>3, <1>5, OthersBehind DEF Types

-----------------------------------------------------------------------------
(* What a step does to the positions.                                      *)

LEMMA LayoutStays ==
  ASSUME messages' = messages
  PROVE  /\ Stream' = Stream /\ At' = At
         /\ Promised' = Promised /\ Due' = Due
<1>1. Sent' = Sent BY DEF Sent
<1>2. \A m : Deliveries(m)' = Deliveries(m) BY DEF Deliveries
<1>3. Owed' = Owed BY <1>2 DEF Owed
<1>4. Stream' = Stream BY <1>1 DEF Stream
<1>5. Promised = FlattenSeq(Owed) /\ Promised' = FlattenSeq(Owed') BY DEF Promised, Owed
<1> QED BY <1>1, <1>3, <1>4, <1>5 DEF At, Due

LEMMA SubSeqFrom ==
  ASSUME NEW S, NEW s \in Seq(S), NEW n \in 0..Len(s)
  PROVE  /\ SubSeq(s, n + 1, Len(s)) \in Seq(S) /\ Len(SubSeq(s, n + 1, Len(s))) = Len(s) - n
         /\ \A k \in 1..(Len(s) - n) : SubSeq(s, n + 1, Len(s))[k] = s[n + k]
OBVIOUS

LEMMA SubSeqUpTo ==
  ASSUME NEW S, NEW s \in Seq(S), NEW n \in 0..Len(s)
  PROVE  /\ SubSeq(s, 1, n) \in Seq(S) /\ Len(SubSeq(s, 1, n)) = n
         /\ \A k \in 1..n : SubSeq(s, 1, n)[k] = s[k]
OBVIOUS

(* Consuming n pieces is reading n pieces on.                              *)
LEMMA ConsumeReads ==
  ASSUME HttpBoundsAssumption, Types, Suffix, parsing, parsing' = parsing,
         messages' = messages, wire' = wire, NEW n \in 0..Len(buf), Consume(n)
  PROVE  Suffix' /\ buf' \in Seq(Pieces) /\ Read' = Read + n
<1>1. Stream' = Stream BY LayoutStays
<1>2. /\ Len(buf) \in Nat /\ Len(wire) \in Nat /\ Len(Stream) \in Nat /\ Read \in Nat
      /\ Read + (Len(buf) + Len(wire)) = Len(Stream)
  BY Numbers
<1>3. buf \in Seq(Pieces) /\ buf' = SubSeq(buf, n + 1, Len(buf)) BY DEF Types, Consume
<1>4. buf' \in Seq(Pieces) /\ Len(buf') = Len(buf) - n BY <1>3, SubSeqFrom
<1>5. \A k \in 1..(Len(buf) - n) : buf'[k] = buf[n + k] BY <1>3, SubSeqFrom
<1>6. Read' = Read + n BY <1>1, <1>2, <1>4 DEF Read
<1>7. ASSUME NEW k \in 1..Len(buf') PROVE buf'[k] = Stream[Read' + k]
  <2>1. k \in 1..(Len(buf) - n) /\ n + k \in 1..Len(buf) /\ Read + (n + k) = Read' + k
    BY <1>2, <1>4, <1>6
  <2>2. buf[n + k] = Stream[Read + (n + k)] BY <2>1 DEF Suffix
  <2> QED BY <2>1, <2>2, <1>5
<1>8. ASSUME NEW k \in 1..Len(wire) PROVE wire[k] = Stream[Read' + Len(buf') + k]
  <2>1. Read' + Len(buf') + k = Read + Len(buf) + k BY <1>2, <1>4, <1>6
  <2> QED BY <2>1 DEF Suffix
<1>9. Len(buf') + Len(wire) <= Len(Stream) BY <1>2, <1>4
<1> QED BY <1>1, <1>4, <1>6, <1>7, <1>8, <1>9 DEF Suffix

LEMMA WithLostType ==
  ASSUME NEW d \in Promises
  PROVE  WithLost(d) \in Requests
<1>1. d.msg \in 1..MaxMessages /\ d.chunk \in Bodies /\ <<"body", "other">> \in Bodies
  BY DEF Promises, Bodies
<1>2. [msg |-> d.msg, whole |-> d.msg - 1 \notin lost] \in Heads BY <1>1 DEF Heads
<1>3. (IF d.msg \in lost THEN <<"body", "other">> ELSE d.chunk) \in Bodies BY <1>1
<1> QED BY <1>2, <1>3 DEF WithLost, Requests

(* What a message whose bytes are all there is delivered as.               *)
LEMMA OwnDelivery ==
  ASSUME Current, Kept, NEW c
  PROVE  WithLost([msg |-> req_.msg, chunk |-> c]) = [req |-> req_, chunk |-> c]
<1>1. req_ = [msg |-> req_.msg, whole |-> req_.msg - 1 \notin lost] BY DEF Current, Heads
<1> QED BY <1>1 DEF WithLost, Kept

LEMMA DeliveredStays ==
  ASSUME UNCHANGED <<messages, requests, lost>>, Delivered
  PROVE  Delivered'
<1>1. Promised' = Promised BY LayoutStays
<1>2. \A d : WithLost(d)' = WithLost(d) BY DEF WithLost
<1> QED BY <1>1, <1>2 DEF Delivered

LEMMA CurrentStays ==
  ASSUME UNCHANGED <<messages, req_, lost>>
  PROVE  /\ (Current => Current') /\ (Kept <=> Kept')
         /\ \A m : (Swallows(m)' <=> Swallows(m)) /\ (Mistaken(m)' <=> Mistaken(m))
BY DEF Current, Kept, Swallows, Mistaken

(* SignalOnRequest delivers what is promised next.                         *)
LEMMA DeliverKeeps ==
  ASSUME HttpBoundsAssumption, Types, Suffix, Delivered, UNCHANGED <<messages, lost>>,
         NEW m \in DOMAIN messages, NEW e \in 1..Len(Deliveries(m)),
         Len(requests) = Due[m - 1] + (e - 1),
         NEW x, x = WithLost(Deliveries(m)[e]), requests' = Append(requests, x)
  PROVE  Delivered' /\ requests' \in Seq(Requests) /\ Len(requests') = Len(requests) + 1
<1>1. Promised' = Promised /\ \A d : WithLost(d)' = WithLost(d)
  BY LayoutStays DEF WithLost
<1>2. Answered BY Layout DEF Types
<1>3. /\ Len(messages) \in Nat /\ DOMAIN messages = 1..Len(messages)
      /\ Len(requests) \in Nat /\ Len(Promised) \in Nat
  BY Numbers
<1>4. Due[m - 1] \in Nat /\ Len(Deliveries(m)) \in Nat
  <2>1. m - 1 \in 0..Len(messages) BY <1>3
  <2>2. m \in 1..MaxMessages /\ messages[m] \in Kinds
    BY <1>3, MessagesType DEF Types, HttpBoundsAssumption
  <2>3. Deliveries(m) \in Seq(Promises) BY <2>2, DeliveriesType
  <2>4. Due[m - 1] \in Nat BY <1>2, <2>1 DEF Answered
  <2> QED BY <2>3, <2>4
<1>5. Len(requests) + 1 = Due[m - 1] + e /\ e \in Nat BY <1>3, <1>4
<1>6. x = WithLost(Promised[Len(requests) + 1]) BY <1>2, <1>5 DEF Answered
<1>7. Len(requests) + 1 <= Len(Promised)
  <2>1. Due[m] = Due[m - 1] + Len(Deliveries(m)) /\ Due[m] <= Len(Promised) BY <1>2 DEF Answered
  <2> QED BY <2>1, <1>3, <1>4, <1>5
<1>8. x \in Requests
  <2>1. Promised \in Seq(Promises) BY <1>2 DEF Answered
  <2>2. Len(requests) + 1 \in 1..Len(Promised) BY <1>3, <1>7
  <2> QED BY <2>1, <2>2, <1>6, WithLostType
<1>9. requests \in Seq(Requests) BY DEF Types
<1>10. /\ requests' \in Seq(Requests) /\ Len(requests') = Len(requests) + 1
       /\ \A k \in 1..Len(requests) : requests'[k] = requests[k]
       /\ requests'[Len(requests) + 1] = x
  BY <1>8, <1>9
<1>11. ASSUME NEW k \in 1..Len(requests') PROVE requests'[k] = WithLost(Promised[k])
  <2>1. k \in 1..Len(requests) \/ k = Len(requests) + 1 BY <1>3, <1>10
  <2>2. CASE k \in 1..Len(requests) BY <2>2, <1>10 DEF Delivered
  <2>3. CASE k = Len(requests) + 1 BY <2>3, <1>6, <1>10
  <2> QED BY <2>1, <2>2, <2>3
<1> QED BY <1>1, <1>7, <1>10, <1>11 DEF Delivered

(* The place in the message moves with both positions.                     *)
LEMMA StandingMoves ==
  ASSUME HttpBoundsAssumption, Types, Suffix,
         UNCHANGED <<messages, req_, is_chunked_, is_stream_, again, lost>>,
         NEW kind, NEW p \in Nat, NEW d \in Nat, Standing(kind, p, d),
         NEW n \in Nat, NEW e \in Nat, Read' = Read + n, Len(requests') = Len(requests) + e
  PROVE  Standing(kind, p + n, d + e)'
<1>1. At' = At /\ Due' = Due BY LayoutStays
<1>2. Placed /\ Answered BY Layout DEF Types
<1>3. req_.msg - 1 \in 0..Len(messages)
  <2> DEFINE n1 == Len(messages)
  <2>1. n1 \in Nat /\ req_.msg \in 1..n1 BY Numbers DEF Standing, Current
  <2> HIDE DEF n1
  <2>2. req_.msg - 1 \in 0..n1 BY <2>1
  <2> QED BY <2>2 DEF n1
<1>4. At[req_.msg - 1] \in Nat /\ Due[req_.msg - 1] \in Nat BY <1>2, <1>3 DEF Placed, Answered
<1>5. At[req_.msg - 1] + (p + n) = (At[req_.msg - 1] + p) + n
  BY <1>4
<1>6. Due[req_.msg - 1] + (d + e) = (Due[req_.msg - 1] + d) + e
  BY <1>4
<1>7. Current' BY CurrentStays DEF Standing
<1> QED BY <1>1, <1>5, <1>6, <1>7 DEF Standing

(* Where a message is at its end and all it is owed is delivered, what     *)
(* swallows the others is behind.                                          *)
LEMMA EndIsBehind ==
  ASSUME HttpBoundsAssumption, Types, Suffix, UNCHANGED <<messages, req_>>,
         NEW kind \in {"chunked", "stream"}, NEW p \in Nat, NEW d \in Nat, Standing(kind, p, d)',
         p = Len(PartsOf[kind]), d = Len(Deliveries(req_.msg)), Holding'
  PROVE  Behind'
<1>1. /\ messages[req_.msg] = kind /\ req_.msg \in DOMAIN messages
      /\ Current' /\ again' = <<>> /\ (is_chunked_' \/ is_stream_')
  BY DEF Standing, Current
<1>2. Swallows(req_.msg)' /\ ~Mistaken(req_.msg)' BY <1>1 DEF Swallows, Mistaken
<1>3. At' = At /\ Due' = Due BY LayoutStays
<1>4. Placed /\ Answered BY Layout DEF Types
<1>5. At[req_.msg] = At[req_.msg - 1] + p /\ Due[req_.msg] = Due[req_.msg - 1] + d
  BY <1>1, <1>4 DEF Placed, Answered
<1>6. Read' = At[req_.msg] /\ Len(requests') = Due[req_.msg]
  BY <1>3, <1>5 DEF Standing
<1>7. At[req_.msg] \in Nat
  <2>1. req_.msg \in 0..Len(messages) BY <1>1, Numbers
  <2> QED BY <2>1, <1>4 DEF Placed
<1>8. Read' >= At'[req_.msg'] /\ Len(requests') = Due'[req_.msg'] BY <1>3, <1>6, <1>7
<1>9. \A i \in DOMAIN again' : again'[i].req = req_' BY <1>1
<1> QED BY <1>1, <1>2, <1>8, <1>9 DEF Behind

LEMMA SuffixStays ==
  ASSUME UNCHANGED <<messages, wire, buf, parsing>>
  PROVE  (Suffix => Suffix') /\ Read' = Read
<1>1. Stream' = Stream BY LayoutStays
<1>2. Read' = Read BY <1>1 DEF Read
<1> QED BY <1>1, <1>2 DEF Suffix

-----------------------------------------------------------------------------
(* The actions.                                                            *)

LEMMA PairFacts ==
  ASSUME NEW a, NEW b
  PROVE  /\ Len(<<a, b>>) = 2 /\ Len(<<a>>) = 1 /\ Len(<<>>) = 0
         /\ SubSeq(<<a, b>>, 1, 1) = <<a>> /\ SubSeq(<<a, b>>, 1, 2) = <<a, b>>
         /\ SubSeq(<<a, b>>, 2, 2) = <<b>>
<1> DEFINE q == <<a, b>>
<1>1. q \in Seq({a, b}) /\ Len(q) = 2 /\ q[1] = a /\ q[2] = b OBVIOUS
<1>2. \A z \in Seq({a, b}) : Len(z) = 1 => z = <<z[1]>> OBVIOUS
<1>3. \A z \in Seq({a, b}) : Len(z) = 2 => z = <<z[1], z[2]>> OBVIOUS
<1> HIDE DEF q
<1>4. SubSeq(q, 1, 1) \in Seq({a, b}) /\ Len(SubSeq(q, 1, 1)) = 1 /\ SubSeq(q, 1, 1)[1] = a
  BY <1>1, SubSeqUpTo
<1>5. SubSeq(q, 1, 2) \in Seq({a, b}) /\ Len(SubSeq(q, 1, 2)) = 2
      /\ SubSeq(q, 1, 2)[1] = a /\ SubSeq(q, 1, 2)[2] = b
  BY <1>1, SubSeqUpTo
<1>6. SubSeq(q, 2, 2) \in Seq({a, b}) /\ Len(SubSeq(q, 2, 2)) = 1 /\ SubSeq(q, 2, 2)[1] = b
  BY <1>1
<1>7. SubSeq(q, 1, 1) = <<a>> /\ SubSeq(q, 1, 2) = <<a, b>> /\ SubSeq(q, 2, 2) = <<b>>
  BY <1>2, <1>3, <1>4, <1>5, <1>6
<1>8. Len(<<a, b>>) = 2 /\ Len(<<a>>) = 1 /\ Len(<<>>) = 0 OBVIOUS
<1> QED BY <1>7, <1>8 DEF q

(* What is collected of a body of two pieces, in one part or in two.       *)
LEMMA CollectStep ==
  ASSUME HttpBoundsAssumption, Types, Suffix, Delivered,
         NEW expected, NEW complete, NEW a, NEW b, expected # complete,
         Collect(expected, <<a, b>>, complete),
         NEW kind, NEW p \in Nat,
         \/ BodyBefore = <<>> /\ Standing(kind, p, 0)
         \/ BodyBefore = <<a>> /\ Standing(kind, p + 1, 0),
         1 \in 1..Len(Deliveries(req_.msg)),
         WithLost(Deliveries(req_.msg)[1]) = [req |-> req_, chunk |-> <<a, b>>]
  PROVE  /\ Types' /\ Suffix' /\ Delivered'
         /\ \/ state_' = expected /\ chunk_' = <<a>> /\ Standing(kind, p + 1, 0)'
            \/ state_' = complete /\ chunk_' = <<a, b>> /\ Standing(kind, p + 2, 1)'
<1> DEFINE body == <<a, b>>
<1>1. PICK n \in 1..Len(body) :
        /\ Len(BodyBefore) + n <= Len(body)
        /\ Begins(req_.msg, SubSeq(body, Len(BodyBefore) + 1, Len(BodyBefore) + n))
        /\ Consume(n)
        /\ chunk_' = SubSeq(body, 1, Len(BodyBefore) + n)
        /\ IF Len(BodyBefore) + n = Len(body)
           THEN state_' = complete /\ Deliver(req_, body)
           ELSE state_' = expected /\ UNCHANGED requests
  BY DEF Collect
<1>2. /\ UNCHANGED <<messages, wire, parsing, is_chunked_, is_stream_, req_, again, lost>>
      /\ parsing
  BY DEF Collect, Iterating
<1>3. Len(body) = 2 /\ n \in {1, 2} BY PairFacts
<1>4. n \in 0..Len(buf)
  <2>1. Len(buf) \in Nat BY Numbers
  <2>2. Len(SubSeq(body, Len(BodyBefore) + 1, Len(BodyBefore) + n)) = n
    <3>1. CASE BodyBefore = <<>> /\ n = 1 BY <3>1, PairFacts
    <3>2. CASE BodyBefore = <<>> /\ n = 2 BY <3>2, PairFacts
    <3>3. CASE BodyBefore = <<a>> /\ n = 1 BY <3>3, PairFacts
    <3>4. ~(BodyBefore = <<a>> /\ n = 2) BY <1>1, PairFacts
    <3> QED BY <1>3, <3>1, <3>2, <3>3, <3>4
  <2> HIDE DEF body
  <2>3. Len(buf) >= n BY <1>1, <2>2 DEF Begins
  <2> QED BY <1>3, <2>1, <2>3
<1>5. Suffix' /\ buf' \in Seq(Pieces) /\ Read' = Read + n BY <1>1, <1>2, <1>4, ConsumeReads
<1>6. requests \in Seq(Requests) /\ Len(requests) \in Nat BY DEF Types
<1>7. req_.msg \in DOMAIN messages /\ Len(requests) = Due[req_.msg - 1]
  <2>1. req_.msg \in DOMAIN messages /\ Len(requests) = Due[req_.msg - 1] + 0 BY DEF Standing, Current
  <2>2. req_.msg - 1 \in 0..Len(messages)
    <3> DEFINE n1 == Len(messages)
    <3>1. n1 \in Nat /\ req_.msg \in 1..n1 BY <2>1, Numbers
    <3> HIDE DEF n1
    <3>2. req_.msg - 1 \in 0..n1 BY <3>1
    <3> QED BY <3>2 DEF n1
  <2>3. Answered BY Layout DEF Types
  <2>4. Due[req_.msg - 1] \in Nat BY <2>2, <2>3 DEF Answered
  <2> QED BY <2>1, <2>4
<1>8. CASE Len(BodyBefore) + n = 2
  <2>1. state_' = complete /\ requests' = Append(requests, [req |-> req_, chunk |-> body])
    BY <1>1, <1>3, <1>8 DEF Deliver
  <2>2. chunk_' = body BY <1>1, <1>8, PairFacts
  <2>3. Delivered' /\ requests' \in Seq(Requests) /\ Len(requests') = Len(requests) + 1
    <3>1. 1 - 1 = 0 /\ Len(requests) = Due[req_.msg - 1] + (1 - 1) BY <1>6, <1>7
    <3> QED BY <2>1, <3>1, <1>2, <1>7, DeliverKeeps
  <2>4. Standing(kind, p + 2, 1)'
    <3>1. CASE BodyBefore = <<>> /\ Standing(kind, p, 0)
      <4>1. n = 2 BY <1>3, <1>8, <3>1, PairFacts
      <4>2. Standing(kind, p + 2, 0 + 1)' BY <3>1, <4>1, <1>2, <1>5, <2>3, StandingMoves
      <4> QED BY <4>2
    <3>2. CASE BodyBefore = <<a>> /\ Standing(kind, p + 1, 0)
      <4>1. n = 1 BY <1>3, <1>8, <3>2, PairFacts
      <4>2. p + 1 \in Nat /\ (p + 1) + 1 = p + 2 OBVIOUS
      <4>3. Standing(kind, (p + 1) + 1, 0 + 1)' BY <3>2, <4>1, <4>2, <1>2, <1>5, <2>3, StandingMoves
      <4> QED BY <4>2, <4>3
    <3> QED BY <3>1, <3>2
  <2>5. Types' BY <1>2, <1>5, <2>3 DEF Types
  <2> QED BY <1>5, <2>1, <2>2, <2>3, <2>4, <2>5
<1>9. CASE Len(BodyBefore) + n # 2
  <2>1. BodyBefore = <<>> /\ Standing(kind, p, 0) /\ n = 1 BY <1>1, <1>3, <1>9, PairFacts
  <2>2. state_' = expected /\ requests' = requests BY <1>1, <1>3, <1>9
  <2>3. chunk_' = <<a>> BY <1>1, <2>1, PairFacts
  <2>4. Len(requests') = Len(requests) + 0 BY <1>6, <2>2
  <2>5. Standing(kind, p + 1, 0 + 0)' BY <2>1, <2>4, <1>2, <1>5, StandingMoves
  <2>6. Delivered' BY <1>2, <2>2, DeliveredStays
  <2>7. Types' BY <1>2, <1>5, <2>2 DEF Types
  <2>8. Standing(kind, p + 1, 0)' BY <2>5
  <2> QED BY <1>5, <2>2, <2>3, <2>6, <2>7, <2>8
<1> QED BY <1>8, <1>9

(* What the parser expects, from where it stands.                          *)
LEMMA ExpectingFacts ==
  /\ Expecting = "kExpectHeaders" => state_ \in {"kExpectHeaders", "kExpectHttpComplete"}
  /\ Expecting = "kExpectNormalBody" => state_ = "kExpectNormalBody"
  /\ Expecting = "kExpectChunkBody" => state_ = "kExpectChunkBody"
  /\ Expecting = "kExpectLastEmptyChunk" => state_ = "kExpectLastEmptyChunk"
  /\ Expecting = "kExpectChunkLen" =>
       state_ = "kExpectChunkLen" \/ (state_ = "kExpectChunkComplete" /\ is_chunked_)
  /\ Expecting = "kExpectStreamBody" =>
       state_ = "kExpectStreamBody" \/ (state_ = "kExpectChunkComplete" /\ ~is_chunked_)
BY DEF Expecting

LEMMA BeginsWith ==
  ASSUME NEW m, NEW s, 1 \in DOMAIN s, Begins(m, s)
  PROVE  buf[1] = [msg |-> m, part |-> s[1]]
BY DEF Begins

(* The piece in front is of the message in hand.                           *)
LEMMA CollectIsOwn ==
  ASSUME NEW expected, NEW complete, NEW a, NEW b, Collect(expected, <<a, b>>, complete),
         Len(BodyBefore) \in Nat
  PROVE  buf # <<>> /\ buf[1].msg = req_.msg
<1>1. PICK n \in 1..Len(<<a, b>>) :
        /\ Len(BodyBefore) + n <= Len(<<a, b>>)
        /\ Begins(req_.msg, SubSeq(<<a, b>>, Len(BodyBefore) + 1, Len(BodyBefore) + n))
  BY DEF Collect
<1> DEFINE q == SubSeq(<<a, b>>, Len(BodyBefore) + 1, Len(BodyBefore) + n)
<1>2. Len(<<a, b>>) = 2 BY PairFacts
<1>3. 1 \in DOMAIN q BY <1>1, <1>2
<1>4. Begins(req_.msg, q) BY <1>1
<1> HIDE DEF q
<1>5. buf[1] = [msg |-> req_.msg, part |-> q[1]] BY <1>3, <1>4, BeginsWith
<1>6. buf # <<>> BY DEF Collect, Iterating, Drained
<1> QED BY <1>5, <1>6

LEMMA ParseNormalBodyStep ==
  ASSUME HttpBoundsAssumption, IInv, ParseNormalBody
  PROVE  IInv'
<1>1. Types /\ Suffix /\ Delivered /\ Progress BY DEF IInv
<1>2. /\ Expecting = "kExpectNormalBody" /\ buf # <<>>
      /\ UNCHANGED <<messages, wire, parsing, is_chunked_, is_stream_, req_, again, lost>>
  BY DEF ParseNormalBody, Collect, CompleteByNext, Iterating, Drained
<1>3. state_ = "kExpectNormalBody" /\ BodyBefore = chunk_
  BY <1>2, ExpectingFacts DEF BodyBefore, Completed
<1>4. \/ chunk_ = <<>> /\ Standing("sized", 2, 0) /\ Kept
      \/ chunk_ = <<"body">> /\ Standing("sized", 3, 0) /\ Kept
      \/ Short
  BY <1>1, <1>3 DEF Progress, Between, Fresh, Inside, Short, Behind, Holding, Failed, Stands
<1>5. CASE Collect("kExpectNormalBody", <<"body", "byte">>, "kExpectHttpComplete")
  <2>1. ~Short
    <3>1. SUFFICES ASSUME Short PROVE FALSE OBVIOUS
    <3>2. chunk_ = <<"body">> /\ Standing("sized", 4, 0) BY <3>1 DEF Short, Stands
    <3>3. Len(BodyBefore) \in Nat BY <1>3, <3>2, PairFacts
    <3>4. buf[1].msg = req_.msg BY <1>5, <3>3, CollectIsOwn
    <3> QED BY <1>1, <1>2, <3>2, <3>4, NothingMore
  <2>2. /\ Kept
        /\ \/ BodyBefore = <<>> /\ Standing("sized", 2, 0)
           \/ BodyBefore = <<"body">> /\ Standing("sized", 2 + 1, 0)
    BY <1>3, <1>4, <2>1
  <2>3. Current /\ messages[req_.msg] = "sized" BY <2>2 DEF Standing
  <2>4. 1 \in 1..Len(Deliveries(req_.msg))
        /\ Deliveries(req_.msg)[1] = [msg |-> req_.msg, chunk |-> <<"body", "byte">>]
    BY <2>3 DEF Deliveries
  <2>5. WithLost(Deliveries(req_.msg)[1]) = [req |-> req_, chunk |-> <<"body", "byte">>]
    BY <2>2, <2>3, <2>4, OwnDelivery
  <2>6. /\ Types' /\ Suffix' /\ Delivered'
        /\ \/ state_' = "kExpectNormalBody" /\ chunk_' = <<"body">> /\ Standing("sized", 2 + 1, 0)'
           \/ state_' = "kExpectHttpComplete" /\ chunk_' = <<"body", "byte">> /\ Standing("sized", 2 + 2, 1)'
    BY <1>1, <1>5, <2>2, <2>4, <2>5, CollectStep
  <2>7. Kept' BY <1>2, <2>2 DEF Kept
  <2>8. Progress' BY <2>6, <2>7 DEF Progress, Between, Inside, Stands
  <2> QED BY <2>6, <2>8 DEF IInv
<1>6. CASE CompleteByNext
  <2>1. /\ chunk_ = <<"body">> /\ buf[1].part = "head1" /\ UNCHANGED <<wire, buf, parsing>>
        /\ chunk_' = <<"body", "other">> /\ state_' = "kExpectHttpComplete"
        /\ requests' = Append(requests, [req |-> req_, chunk |-> <<"body", "other">>])
    BY <1>6 DEF CompleteByNext, Deliver
  <2>2. ~(chunk_ = <<>>)
    <3>1. Len(chunk_) = 1 /\ Len(<<>>) = 0 BY <2>1, PairFacts
    <3> QED BY <3>1
  <2>3. ~Standing("sized", 3, 0)
    <3>1. SUFFICES ASSUME Standing("sized", 3, 0) PROVE FALSE OBVIOUS
    <3>2. 4 = 3 + 1 /\ 4 <= Len(PartsOf["sized"]) /\ PartsOf["sized"][4] = "byte" BY KindFacts
    <3>3. buf[1] = [msg |-> req_.msg, part |-> PartsOf["sized"][4]]
      BY <1>1, <1>2, <3>1, <3>2, PieceIsNext
    <3> QED BY <2>1, <3>2, <3>3
  <2>4. Standing("sized", 4, 0) /\ ~Kept BY <1>4, <2>2, <2>3 DEF Short, Stands
  <2>5. /\ Current /\ messages[req_.msg] = "sized" /\ req_.msg \in DOMAIN messages
        /\ Len(requests) = Due[req_.msg - 1] + 0
    BY <2>4 DEF Standing, Current
  <2>6. 1 \in 1..Len(Deliveries(req_.msg))
        /\ Deliveries(req_.msg)[1] = [msg |-> req_.msg, chunk |-> <<"body", "byte">>]
    BY <2>5 DEF Deliveries
  <2>7. [req |-> req_, chunk |-> <<"body", "other">>] = WithLost(Deliveries(req_.msg)[1])
    <3>1. req_ = [msg |-> req_.msg, whole |-> req_.msg - 1 \notin lost] BY <2>5 DEF Current, Heads
    <3> QED BY <2>4, <2>6, <3>1 DEF WithLost, Kept
  <2>8. Len(requests) = Due[req_.msg - 1] + (1 - 1) BY <2>5
  <2>9. Delivered' /\ requests' \in Seq(Requests) /\ Len(requests') = Len(requests) + 1
    BY <1>1, <1>2, <2>1, <2>5, <2>6, <2>7, <2>8, DeliverKeeps
  <2>10. Suffix' /\ Read' = Read /\ Read \in Nat BY <1>1, <1>2, <2>1, SuffixStays, Numbers
  <2>11. Read' = Read + 0 BY <2>10
  <2>12. Standing("sized", 4 + 0, 0 + 1)' BY <1>1, <1>2, <2>4, <2>9, <2>11, StandingMoves
  <2>13. Standing("sized", 4, 1)' BY <2>12
  <2>14. ~Kept' BY <1>2, <2>4 DEF Kept
  <2>15. Types' BY <1>1, <1>2, <2>1, <2>9 DEF Types
  <2>16. Progress' BY <2>1, <2>13, <2>14 DEF Progress, Between, Stands
  <2> QED BY <2>9, <2>10, <2>15, <2>16 DEF IInv
<1> QED BY <1>5, <1>6 DEF ParseNormalBody

(* What is behind is not collected as a body.                              *)
LEMMA BehindIsNotCollected ==
  ASSUME HttpBoundsAssumption, Types, Suffix, Behind,
         NEW expected, NEW complete, NEW a, NEW b, Collect(expected, <<a, b>>, complete)
  PROVE  FALSE
<1>1. chunk_ \in {<<>>, <<"other">>, <<"flow1", "flow2">>} BY DEF Behind, Holding
<1>2. Len(BodyBefore) \in Nat BY <1>1, PairFacts DEF BodyBefore
<1>3. buf # <<>> /\ buf[1].msg = req_.msg BY <1>2, CollectIsOwn
<1> QED BY <1>3, NothingBehind

LEMMA ParseChunkStep ==
  ASSUME HttpBoundsAssumption, IInv, ParseChunk
  PROVE  IInv'
<1>1. Types /\ Suffix /\ Delivered /\ Progress BY DEF IInv
<1>2. Collect("kExpectChunkBody", <<"data1", "data2">>, "kExpectChunkComplete") BY DEF ParseChunk
<1>3. Expecting = "kExpectChunkBody" /\ UNCHANGED <<req_, lost>> BY <1>2 DEF Collect, Iterating
<1>4. state_ = "kExpectChunkBody" /\ BodyBefore = chunk_
  BY <1>3, ExpectingFacts DEF BodyBefore, Completed
<1>5. ~Behind BY <1>1, <1>2, BehindIsNotCollected
<1>6. /\ Kept
      /\ \/ BodyBefore = <<>> /\ Standing("chunked", 4, 0)
         \/ BodyBefore = <<"data1">> /\ Standing("chunked", 4 + 1, 0)
  BY <1>1, <1>4, <1>5 DEF Progress, Between, Fresh, Inside, Short, Failed, Stands
<1>7. Current /\ messages[req_.msg] = "chunked" BY <1>6 DEF Standing
<1>8. 1 \in 1..Len(Deliveries(req_.msg))
      /\ Deliveries(req_.msg)[1] = [msg |-> req_.msg, chunk |-> <<"data1", "data2">>]
  BY <1>7 DEF Deliveries
<1>9. WithLost(Deliveries(req_.msg)[1]) = [req |-> req_, chunk |-> <<"data1", "data2">>]
  BY <1>6, <1>7, <1>8, OwnDelivery
<1>10. /\ Types' /\ Suffix' /\ Delivered'
       /\ \/ state_' = "kExpectChunkBody" /\ chunk_' = <<"data1">> /\ Standing("chunked", 4 + 1, 0)'
          \/ state_' = "kExpectChunkComplete" /\ chunk_' = <<"data1", "data2">> /\ Standing("chunked", 4 + 2, 1)'
  BY <1>1, <1>2, <1>6, <1>8, <1>9, CollectStep
<1>11. Kept' BY <1>3, <1>6 DEF Kept
<1>12. Progress' BY <1>10, <1>11 DEF Progress, Inside, Stands
<1> QED BY <1>10, <1>12 DEF IInv

LEMMA ParseStreamStep ==
  ASSUME HttpBoundsAssumption, IInv, ParseStream
  PROVE  IInv'
<1>1. Types /\ Suffix /\ Delivered /\ Progress BY DEF IInv
<1>2. Collect("kExpectStreamBody", <<"flow1", "flow2">>, "kExpectChunkComplete") BY DEF ParseStream
<1>3. /\ Expecting = "kExpectStreamBody"
      /\ UNCHANGED <<messages, req_, lost, again, is_chunked_, is_stream_>>
  BY <1>2 DEF Collect, Iterating
<1>4. ~Behind BY <1>1, <1>2, BehindIsNotCollected
<1>5. state_ = "kExpectStreamBody"
  <2>1. SUFFICES ASSUME state_ = "kExpectChunkComplete", ~is_chunked_ PROVE FALSE
    BY <1>3, ExpectingFacts
  <2> QED BY <1>1, <1>4, <2>1 DEF Progress, Between, Fresh, Inside, Short, Failed, Stands, Standing
<1>6. BodyBefore = chunk_ BY <1>5 DEF BodyBefore, Completed
<1>7. /\ Kept
      /\ \/ BodyBefore = <<>> /\ Standing("stream", 2, 0)
         \/ BodyBefore = <<"flow1">> /\ Standing("stream", 2 + 1, 0)
  BY <1>1, <1>4, <1>5, <1>6 DEF Progress, Between, Fresh, Inside, Short, Failed, Stands
<1>8. Current /\ messages[req_.msg] = "stream" BY <1>7 DEF Standing
<1>9. 1 \in 1..Len(Deliveries(req_.msg)) /\ Len(Deliveries(req_.msg)) = 1
      /\ Deliveries(req_.msg)[1] = [msg |-> req_.msg, chunk |-> <<"flow1", "flow2">>]
  BY <1>8 DEF Deliveries
<1>10. WithLost(Deliveries(req_.msg)[1]) = [req |-> req_, chunk |-> <<"flow1", "flow2">>]
  BY <1>7, <1>8, <1>9, OwnDelivery
<1>11. /\ Types' /\ Suffix' /\ Delivered'
       /\ \/ state_' = "kExpectStreamBody" /\ chunk_' = <<"flow1">> /\ Standing("stream", 2 + 1, 0)'
          \/ state_' = "kExpectChunkComplete" /\ chunk_' = <<"flow1", "flow2">> /\ Standing("stream", 2 + 2, 1)'
  BY <1>1, <1>2, <1>7, <1>9, <1>10, CollectStep
<1>12. Kept' BY <1>3, <1>7 DEF Kept
<1>13. CASE state_' = "kExpectStreamBody" /\ chunk_' = <<"flow1">> /\ Standing("stream", 2 + 1, 0)'
  <2>1. Progress' BY <1>12, <1>13 DEF Progress, Inside, Stands
  <2> QED BY <1>11, <2>1 DEF IInv
<1>14. CASE state_' = "kExpectChunkComplete" /\ chunk_' = <<"flow1", "flow2">> /\ Standing("stream", 2 + 2, 1)'
  <2>1. Holding' BY <1>14 DEF Holding
  <2>2. 4 = Len(PartsOf["stream"]) /\ 1 = Len(Deliveries(req_.msg)) BY <1>9, KindFacts
  <2>3. Standing("stream", 4, 1)' BY <1>14
  <2>4. "stream" \in {"chunked", "stream"} /\ 4 \in Nat /\ 1 \in Nat OBVIOUS
  <2>5. Behind' BY <1>1, <1>3, <2>1, <2>2, <2>3, <2>4, EndIsBehind
  <2> QED BY <1>11, <2>5 DEF IInv, Progress
<1> QED BY <1>11, <1>13, <1>14

LEMMA ParseChunkLenStep ==
  ASSUME HttpBoundsAssumption, IInv, ParseChunkLen
  PROVE  IInv'
<1>1. Types /\ Suffix /\ Delivered /\ Progress BY DEF IInv
<1>2. /\ Expecting = "kExpectChunkLen" /\ buf # <<>> /\ parsing
      /\ UNCHANGED <<messages, wire, parsing, is_chunked_, is_stream_, req_, requests, again, lost>>
      /\ chunk_' = BodyBefore
  BY DEF ParseChunkLen, Iterating, Drained
<1>3. PICK n \in {1, 2} :
        /\ Len(buf) >= n /\ Consume(n) /\ buf[1].msg = req_.msg
        /\ \/ n = 2 /\ buf[1].part = "size1" /\ state_' = "kExpectChunkBody"
           \/ n = 1 /\ buf[1].part = "zero" /\ state_' = "kExpectLastEmptyChunk"
  <2>1. \A a, b : 1 \in DOMAIN <<a, b>> /\ 1 \in DOMAIN <<a>> /\ Len(<<a, b>>) = 2 /\ Len(<<a>>) = 1
    OBVIOUS
  <2>2. CASE Begins(req_.msg, <<"size1", "size2">>) /\ Consume(2) /\ state_' = "kExpectChunkBody"
    <3>1. buf[1] = [msg |-> req_.msg, part |-> "size1"] BY <2>1, <2>2, BeginsWith
    <3>2. Len(buf) >= 2 BY <2>1, <2>2 DEF Begins
    <3> QED BY <2>2, <3>1, <3>2
  <2>3. CASE Begins(req_.msg, <<"zero">>) /\ Consume(1) /\ state_' = "kExpectLastEmptyChunk"
    <3>1. buf[1] = [msg |-> req_.msg, part |-> "zero"] BY <2>1, <2>3, BeginsWith
    <3>2. Len(buf) >= 1 BY <2>1, <2>3 DEF Begins
    <3> QED BY <2>3, <3>1, <3>2
  <2> QED BY <2>2, <2>3 DEF ParseChunkLen
<1>4. Len(buf) \in Nat /\ n \in 0..Len(buf) /\ 1 \in 1..Len(buf) BY <1>1, <1>3, Numbers
<1>5. Suffix' /\ buf' \in Seq(Pieces) /\ Read' = Read + n BY <1>1, <1>2, <1>3, <1>4, ConsumeReads
<1>6. Len(requests) \in Nat /\ Len(requests') = Len(requests) + 0 BY <1>1, <1>2 DEF Types
<1>7. Types' BY <1>1, <1>2, <1>5 DEF Types
<1>8. Delivered' BY <1>1, <1>2, DeliveredStays
<1>9. ~Behind BY <1>1, <1>2, <1>3, NothingBehind
<1>10. /\ \/ state_ = "kExpectChunkLen" /\ chunk_ = <<>> /\ Standing("chunked", 2, 0)
          \/ state_ = "kExpectChunkComplete" /\ Standing("chunked", 6, 1)
       /\ Kept
  BY <1>1, <1>2, <1>9, ExpectingFacts
  DEF Progress, Between, Fresh, Inside, Short, Failed, Stands, Standing
<1>11. chunk_' = <<>> /\ Kept' BY <1>2, <1>10 DEF BodyBefore, Completed, Kept
<1>12. PartsOf["chunked"][3] = "size1" /\ PartsOf["chunked"][7] = "zero" /\ Len(PartsOf["chunked"]) = 8
  BY KindFacts
<1>13. CASE Standing("chunked", 2, 0)
  <2>1. buf[1] = [msg |-> req_.msg, part |-> "size1"]
    <3>1. 3 = 2 + 1 /\ 3 <= Len(PartsOf["chunked"]) /\ 2 \in Nat BY <1>12
    <3>2. buf[1] = [msg |-> req_.msg, part |-> PartsOf["chunked"][3]]
      BY <1>1, <1>2, <1>13, <3>1, PieceIsNext
    <3> QED BY <3>2, <1>12
  <2>2. n = 2 /\ state_' = "kExpectChunkBody" BY <1>3, <2>1
  <2>3. Standing("chunked", 2 + 2, 0 + 0)' BY <1>1, <1>2, <1>5, <1>6, <1>13, <2>2, StandingMoves
  <2>4. Progress' BY <1>11, <2>2, <2>3 DEF Progress, Inside, Stands
  <2> QED BY <1>5, <1>7, <1>8, <2>4 DEF IInv
<1>14. CASE Standing("chunked", 6, 1)
  <2>1. buf[1] = [msg |-> req_.msg, part |-> "zero"]
    <3>1. 7 = 6 + 1 /\ 7 <= Len(PartsOf["chunked"]) BY <1>12
    <3>2. buf[1] = [msg |-> req_.msg, part |-> PartsOf["chunked"][7]]
      BY <1>1, <1>2, <1>14, <3>1, PieceIsNext
    <3> QED BY <3>2, <1>12
  <2>2. n = 1 /\ state_' = "kExpectLastEmptyChunk" BY <1>3, <2>1
  <2>3. Standing("chunked", 6 + 1, 1 + 0)' BY <1>1, <1>2, <1>5, <1>6, <1>14, <2>2, StandingMoves
  <2>4. Progress' BY <1>11, <2>2, <2>3 DEF Progress, Inside, Stands
  <2> QED BY <1>5, <1>7, <1>8, <2>4 DEF IInv
<1> QED BY <1>10, <1>13, <1>14

LEMMA ParseLastEmptyChunkStep ==
  ASSUME HttpBoundsAssumption, IInv, ParseLastEmptyChunk
  PROVE  IInv'
<1>1. Types /\ Suffix /\ Delivered /\ Progress BY DEF IInv
<1>2. /\ Expecting = "kExpectLastEmptyChunk" /\ buf # <<>> /\ parsing
      /\ UNCHANGED <<messages, wire, parsing, is_chunked_, is_stream_, req_, again, lost>>
      /\ chunk_' = <<>> /\ state_' = "kExpectChunkComplete" /\ Consume(1)
      /\ requests' = Append(requests, [req |-> req_, chunk |-> <<>>])
      /\ Begins(req_.msg, <<"empty">>)
  BY DEF ParseLastEmptyChunk, Iterating, Drained, Deliver
<1>3. state_ = "kExpectLastEmptyChunk" BY <1>2, ExpectingFacts
<1>4. ~Behind
  <2>1. 1 \in DOMAIN <<"empty">> OBVIOUS
  <2>2. buf[1] = [msg |-> req_.msg, part |-> <<"empty">>[1]] BY <1>2, <2>1, BeginsWith
  <2> QED BY <1>1, <1>2, <2>2, NothingBehind
<1>5. Kept /\ Standing("chunked", 7, 1)
  BY <1>1, <1>3, <1>4 DEF Progress, Between, Fresh, Inside, Short, Failed, Stands
<1>6. 1 \in 0..Len(buf)
  <2>1. Len(buf) \in Nat \ {0} BY <1>1, <1>2 DEF Types
  <2> QED BY <2>1
<1>7. Suffix' /\ buf' \in Seq(Pieces) /\ Read' = Read + 1 BY <1>1, <1>2, <1>6, ConsumeReads
<1>8. /\ req_.msg \in DOMAIN messages /\ Len(requests) = Due[req_.msg - 1] + (2 - 1)
      /\ Current /\ messages[req_.msg] = "chunked"
  BY <1>5 DEF Standing, Current
<1>9. /\ 2 \in 1..Len(Deliveries(req_.msg)) /\ Len(Deliveries(req_.msg)) = 2
      /\ Deliveries(req_.msg)[2] = [msg |-> req_.msg, chunk |-> <<>>]
  BY <1>8 DEF Deliveries
<1>10. [req |-> req_, chunk |-> <<>>] = WithLost(Deliveries(req_.msg)[2])
  BY <1>5, <1>8, <1>9, OwnDelivery
<1>11. Delivered' /\ requests' \in Seq(Requests) /\ Len(requests') = Len(requests) + 1
  BY <1>1, <1>2, <1>8, <1>9, <1>10, DeliverKeeps
<1>12. Holding' BY <1>2 DEF Holding
<1>13. 8 = Len(PartsOf["chunked"]) /\ 2 = Len(Deliveries(req_.msg)) BY <1>9, KindFacts
<1>14. Behind'
  <2>1. Standing("chunked", 7 + 1, 1 + 1)' BY <1>1, <1>2, <1>5, <1>7, <1>11, StandingMoves
  <2>2. Standing("chunked", 8, 2)' BY <2>1
  <2>3. "chunked" \in {"chunked", "stream"} /\ 8 \in Nat /\ 2 \in Nat OBVIOUS
  <2> QED BY <1>1, <1>2, <1>12, <1>13, <2>2, <2>3, EndIsBehind
<1>15. Types' BY <1>1, <1>2, <1>7, <1>11 DEF Types
<1> QED BY <1>7, <1>11, <1>14, <1>15 DEF IInv, Progress

LEMMA ParseHeadersStep ==
  ASSUME HttpBoundsAssumption, IInv, ParseHeaders
  PROVE  IInv'
<1>1. Types /\ Suffix /\ Delivered /\ Progress BY DEF IInv
<1>2. /\ Expecting = "kExpectHeaders" /\ buf # <<>> /\ parsing /\ Consume(2) /\ chunk_' = BodyBefore
      /\ UNCHANGED <<messages, wire, parsing, again, lost>>
  BY DEF ParseHeaders, Iterating, Drained
<1>3. state_ \in {"kExpectHeaders", "kExpectHttpComplete"} BY <1>2, ExpectingFacts
<1>4. Between BY <1>1, <1>3 DEF Progress, Inside, Short, Behind, Holding, Failed, Stands
<1>5. PICK c \in 0..Len(messages) :
        /\ Read = At[c] /\ Len(requests) = Due[c]
        /\ lost \subseteq 1..c /\ (c \in lost <=> Beheaded)
        /\ \A k \in 1..c : ~Swallows(k)
        /\ ~is_chunked_ /\ ~is_stream_ /\ again = <<>>
  BY <1>1, <1>4, BetweenIsAt
<1>6. c + 1 \in DOMAIN messages /\ buf[1] = [msg |-> c + 1, part |-> "head1"]
  BY <1>1, <1>2, <1>5, HeadIsFirst
<1> DEFINE Streams(m) == messages[m] = "stream" \/ (messages[m] = "plain" /\ Beheaded)
<1>7. PICK m \in DOMAIN messages :
        /\ Begins(m, <<"head1", "head2">>)
        /\ req_' = [msg |-> m, whole |-> ~Beheaded]
        /\ state_' = CASE Streams(m) -> "kExpectStreamBody"
                       [] messages[m] = "plain" /\ ~Streams(m) -> "kExpectHttpComplete"
                       [] messages[m] = "sized" -> "kExpectNormalBody"
                       [] messages[m] = "chunked" -> "kExpectChunkLen"
                       [] messages[m] = "bad" -> "kExpectError"
        /\ is_chunked_' = (is_chunked_ \/ messages[m] = "chunked")
        /\ is_stream_' = (is_stream_ \/ Streams(m))
        /\ IF state_' = "kExpectHttpComplete" THEN Deliver(req_', BodyBefore) ELSE UNCHANGED requests
  BY DEF ParseHeaders
<1>8. m = c + 1 /\ Len(buf) >= 2
  <2>1. 1 \in DOMAIN <<"head1", "head2">> /\ Len(<<"head1", "head2">>) = 2 OBVIOUS
  <2>2. buf[1] = [msg |-> m, part |-> <<"head1", "head2">>[1]] BY <1>7, <2>1, BeginsWith
  <2>3. Len(buf) >= 2 BY <1>7, <2>1 DEF Begins
  <2> QED BY <1>6, <2>2, <2>3
<1>9. m - 1 = c /\ 2 \in 0..Len(buf)
  <2>1. c \in Nat /\ Len(buf) \in Nat BY <1>1, Numbers
  <2> QED BY <2>1, <1>8
<1>10. Suffix' /\ buf' \in Seq(Pieces) /\ Read' = Read + 2 BY <1>1, <1>2, <1>9, ConsumeReads
<1>11. BodyBefore = <<>>
  BY <1>3, <1>4 DEF Between, Fresh, Stands, BodyBefore, Completed
<1>12. chunk_' = <<>> BY <1>2, <1>11
<1>13. At' = At /\ Due' = Due BY <1>2, LayoutStays
<1>14. Read' = At[m - 1] + 2 /\ Len(requests) = Due[m - 1] BY <1>5, <1>9, <1>10
<1>15. messages[m] \in {"plain", "sized", "chunked", "stream", "bad"}
  <2>1. messages[m] \in Kinds BY <1>1, MessagesType DEF Types
  <2> QED BY <2>1, KindFacts
<1>16. m \in 1..MaxMessages
  <2>1. Len(messages) <= MaxMessages /\ Len(messages) \in Nat /\ DOMAIN messages = 1..Len(messages)
    BY <1>1, MessagesType DEF Types
  <2> QED BY <2>1 DEF HttpBoundsAssumption
<1>17. Len(requests) \in Nat /\ Due[m - 1] \in Nat BY <1>1, <1>14, Numbers
<1>18. Beheaded \in BOOLEAN /\ (~Beheaded <=> m - 1 \notin lost) BY <1>5, <1>9 DEF Beheaded
<1>19. req_' \in Heads /\ req_'.msg = m /\ req_'.whole = (m - 1 \notin lost)
  BY <1>7, <1>16, <1>18 DEF Heads
<1>20. Current'
  <2>1. lost' \subseteq 1..m
    <3>1. c \in Nat BY <1>1, Numbers
    <3> QED BY <3>1, <1>2, <1>5, <1>8
  <2>2. \A k \in 1..(m - 1) : ~Swallows(k)'
    BY <1>2, <1>5, <1>9 DEF Swallows, Mistaken
  <2> QED BY <1>2, <1>19, <2>1, <2>2 DEF Current
<1>21. Kept'
  <2>1. m \notin lost
    <3>1. c \in Nat BY <1>1, Numbers
    <3> QED BY <3>1, <1>5, <1>8
  <2> QED BY <2>1, <1>2, <1>19 DEF Kept
<1>22. is_chunked_' = (messages[m] = "chunked") /\ is_stream_' = Streams(m)
  BY <1>5, <1>7
<1>23. is_chunked_' \in BOOLEAN /\ is_stream_' \in BOOLEAN BY <1>18, <1>22
<1>24. again' = <<>> BY <1>2, <1>5
<1>25. Len(requests) = Due[m - 1] + 0 BY <1>14, <1>17
<1>26. CASE messages[m] = "plain" /\ ~Beheaded
  <2>1. state_' = "kExpectHttpComplete" /\ requests' = Append(requests, [req |-> req_', chunk |-> <<>>])
    BY <1>7, <1>11, <1>26 DEF Deliver
  <2>2. 1 \in 1..Len(Deliveries(m)) /\ Deliveries(m)[1] = [msg |-> m, chunk |-> <<>>]
    BY <1>26 DEF Deliveries
  <2>3. Len(requests) = Due[m - 1] + (1 - 1) BY <1>14, <1>17
  <2>4. [req |-> req_', chunk |-> <<>>] = WithLost(Deliveries(m)[1])
    <3>1. m \notin lost BY <1>2, <1>19, <1>21 DEF Kept
    <3>2. req_' = [msg |-> m, whole |-> m - 1 \notin lost] BY <1>19 DEF Heads
    <3> QED BY <2>2, <3>1, <3>2 DEF WithLost
  <2>5. Delivered' /\ requests' \in Seq(Requests) /\ Len(requests') = Len(requests) + 1
    BY <1>1, <1>2, <2>1, <2>2, <2>3, <2>4, DeliverKeeps
  <2>6. ~is_chunked_' /\ ~is_stream_' BY <1>22, <1>26
  <2>7. Standing("plain", 2, 1)'
    BY <1>2, <1>13, <1>14, <1>19, <1>20, <1>23, <1>24, <1>26, <2>5, <2>6 DEF Standing
  <2>8. req_'.whole BY <1>18, <1>19, <1>26
  <2>9. Types' BY <1>1, <1>2, <1>10, <1>19, <1>23, <2>5 DEF Types
  <2>10. Progress' BY <1>12, <1>21, <2>1, <2>7, <2>8 DEF Progress, Between, Stands
  <2> QED BY <1>10, <2>5, <2>9, <2>10 DEF IInv
<1>27. CASE ~(messages[m] = "plain" /\ ~Beheaded)
  <2>1. state_' # "kExpectHttpComplete" BY <1>7, <1>15, <1>27
  <2>2. requests' = requests BY <1>7, <2>1
  <2>3. Delivered' BY <1>1, <1>2, <2>2, DeliveredStays
  <2>4. Types' BY <1>1, <1>2, <1>10, <1>19, <1>23, <2>2 DEF Types
  <2>5. Len(requests') = Due[m - 1] + 0 BY <1>25, <2>2
  <2>6. messages[m] # "plain" => Standing(messages[m], 2, 0)'
    <3>1. messages[m] # "plain" => is_stream_' = (messages[m] = "stream") BY <1>22
    <3> QED BY <1>2, <1>13, <1>14, <1>19, <1>20, <1>22, <1>24, <2>5, <3>1 DEF Standing
  <2>7. CASE messages[m] = "sized"
    <3>1. state_' = "kExpectNormalBody" BY <1>7, <2>7
    <3>2. Standing("sized", 2, 0)' BY <1>2, <2>6, <2>7
    <3>3. Progress' BY <1>12, <1>21, <3>1, <3>2 DEF Progress, Inside, Stands
    <3> QED BY <1>10, <2>3, <2>4, <3>3 DEF IInv
  <2>8. CASE messages[m] = "chunked"
    <3>1. state_' = "kExpectChunkLen" BY <1>7, <2>8
    <3>2. Standing("chunked", 2, 0)' BY <1>2, <2>6, <2>8
    <3>3. Progress' BY <1>12, <1>21, <3>1, <3>2 DEF Progress, Inside, Stands
    <3> QED BY <1>10, <2>3, <2>4, <3>3 DEF IInv
  <2>9. CASE messages[m] = "stream"
    <3>1. state_' = "kExpectStreamBody" BY <1>7, <2>9
    <3>2. Standing("stream", 2, 0)' BY <1>2, <2>6, <2>9
    <3>3. Progress' BY <1>12, <1>21, <3>1, <3>2 DEF Progress, Inside, Stands
    <3> QED BY <1>10, <2>3, <2>4, <3>3 DEF IInv
  <2>10. CASE messages[m] = "bad"
    <3>1. state_' = "kExpectError" BY <1>7, <2>10
    <3>2. Failed' BY <1>12, <1>13, <1>14, <1>19, <1>20, <1>24, <2>2, <3>1 DEF Failed
    <3> QED BY <1>10, <2>3, <2>4, <3>2 DEF IInv, Progress
  <2>11. CASE messages[m] = "plain" /\ Beheaded
    <3>1. state_' = "kExpectStreamBody" BY <1>7, <2>11
    <3>2. Mistaken(m)' BY <1>2, <1>18, <2>11 DEF Mistaken
    <3>3. Swallows(m)' BY <3>2 DEF Swallows
    <3>4. is_stream_' BY <1>22, <2>11
    <3>5. Read' >= At[m]
      <4>1. Placed BY <1>1, Layout DEF Types
      <4>2. At[m] = At[m - 1] + 2
        <5>1. Len(PartsOf["plain"]) = 2 BY KindFacts
        <5>2. At[m] = At[m - 1] + Len(PartsOf[messages[m]]) BY <4>1 DEF Placed
        <5> QED BY <2>11, <5>1, <5>2
      <4>3. Read' \in Nat BY <1>1, <1>10, Numbers
      <4> QED BY <1>14, <4>2, <4>3
    <3>6. Holding' BY <1>12, <3>1 DEF Holding
    <3>7. Len(requests') = Due'[m - 1] /\ Read' >= At'[m] BY <1>13, <1>14, <2>2, <3>5
    <3>8. \A i \in DOMAIN again' : again'[i].req = req_' BY <1>24
    <3>9. Behind' BY <1>19, <1>20, <3>2, <3>3, <3>4, <3>6, <3>7, <3>8 DEF Behind
    <3> QED BY <1>10, <2>3, <2>4, <3>9 DEF IInv, Progress
  <2> QED BY <1>15, <1>18, <1>27, <2>7, <2>8, <2>9, <2>10, <2>11
<1> QED BY <1>26, <1>27

LEMMA SwallowNextStep ==
  ASSUME HttpBoundsAssumption, IInv, SwallowNext
  PROVE  IInv'
<1>1. Types /\ Suffix /\ Delivered /\ Progress BY DEF IInv
<1>2. /\ parsing /\ buf # <<>> /\ buf[1].msg # req_.msg
      /\ Expecting \in {"kExpectChunkLen", "kExpectChunkBody", "kExpectLastEmptyChunk", "kExpectStreamBody"}
      /\ UNCHANGED <<messages, wire, parsing, is_chunked_, is_stream_, req_, requests, lost>>
  BY DEF SwallowNext, Swallowing, Drained
<1>3. /\ ~Between /\ ~Short /\ ~Failed
  BY <1>2 DEF Expecting, Between, Fresh, Short, Failed, Stands
<1>4. \A kind : \A p \in Nat : \A d : p + 1 <= Len(PartsOf[kind]) => ~Standing(kind, p, d)
  <2> SUFFICES ASSUME NEW kind, NEW p \in Nat, NEW d, p + 1 <= Len(PartsOf[kind]), Standing(kind, p, d)
               PROVE  FALSE
    OBVIOUS
  <2> DEFINE q == p + 1
  <2>1. q = p + 1 /\ q <= Len(PartsOf[kind]) OBVIOUS
  <2> HIDE DEF q
  <2>2. buf[1] = [msg |-> req_.msg, part |-> PartsOf[kind][q]] BY <1>1, <1>2, <2>1, PieceIsNext
  <2> QED BY <1>2, <2>2
<1>5. ~Inside
  <2>1. Len(PartsOf["sized"]) = 4 /\ Len(PartsOf["stream"]) = 4 /\ Len(PartsOf["chunked"]) = 8
    BY KindFacts
  <2>2. \A p \in Nat : \A d : p + 1 <= 4 => ~Standing("sized", p, d) /\ ~Standing("stream", p, d)
    BY <1>4, <2>1
  <2>3. \A p \in Nat : \A d : p + 1 <= 8 => ~Standing("chunked", p, d) BY <1>4, <2>1
  <2>4. /\ 2 + 1 <= 4 /\ 3 + 1 <= 4 /\ 2 + 1 <= 8 /\ 4 + 1 <= 8 /\ 5 + 1 <= 8 /\ 6 + 1 <= 8 /\ 7 + 1 <= 8
        /\ 2 \in Nat /\ 3 \in Nat /\ 4 \in Nat /\ 5 \in Nat /\ 6 \in Nat /\ 7 \in Nat
    OBVIOUS
  <2>5. /\ ~Standing("sized", 2, 0) /\ ~Standing("sized", 3, 0)
        /\ ~Standing("stream", 2, 0) /\ ~Standing("stream", 3, 0)
    BY <2>2, <2>4, Zenon
  <2>6. /\ ~Standing("chunked", 2, 0) /\ ~Standing("chunked", 4, 0) /\ ~Standing("chunked", 5, 0)
        /\ ~Standing("chunked", 6, 1) /\ ~Standing("chunked", 7, 1)
    BY <2>3, <2>4, Zenon
  <2> QED BY <2>5, <2>6 DEF Inside, Stands
<1>6. Behind BY <1>1, <1>3, <1>5 DEF Progress
<1>7. PICK n \in 0..Len(buf) : Consume(n)
  <2>1. Len(buf) \in 0..Len(buf) BY <1>1, Numbers
  <2> QED BY <2>1 DEF SwallowNext, ConsumeSome
<1>8. Suffix' /\ buf' \in Seq(Pieces) /\ Read' = Read + n BY <1>1, <1>2, <1>7, ConsumeReads
<1>9. /\ Holding'
      /\ \/ again' = again
         \/ \E c \in {<<>>, <<"other">>} : again' = Append(again, [req |-> req_, chunk |-> c])
  <2>1. CASE Expecting = "kExpectChunkLen"
    BY <2>1 DEF SwallowNext, Holding
  <2>2. CASE Expecting = "kExpectLastEmptyChunk"
    BY <2>2 DEF SwallowNext, Holding
  <2>3. CASE Expecting \in {"kExpectChunkBody", "kExpectStreamBody"}
    BY <2>3 DEF SwallowNext, Holding
  <2> QED BY <1>2, <2>1, <2>2, <2>3
<1>10. req_ \in Heads /\ again \in Seq(Requests) /\ \A i \in DOMAIN again : again[i].req = req_
  BY <1>1, <1>6 DEF Behind, Current, Types
<1>11. again' \in Seq(Requests) /\ \A i \in DOMAIN again' : again'[i].req = req_
  <2>1. CASE again' = again BY <2>1, <1>10
  <2>2. ASSUME NEW c \in {<<>>, <<"other">>}, again' = Append(again, [req |-> req_, chunk |-> c])
        PROVE  again' \in Seq(Requests) /\ \A i \in DOMAIN again' : again'[i].req = req_
    <3> DEFINE x == [req |-> req_, chunk |-> c]
    <3>1. x \in Requests /\ x.req = req_ BY <1>10 DEF Requests, Bodies
    <3>2. again' = Append(again, x) BY <2>2
    <3> HIDE DEF x
    <3> QED BY <1>10, <3>1, <3>2
  <2> QED BY <1>9, <2>1, <2>2
<1>12. Types' BY <1>1, <1>2, <1>8, <1>11 DEF Types
<1>13. Delivered' BY <1>1, <1>2, DeliveredStays
<1>14. Behind'
  <2>1. At' = At /\ Due' = Due BY <1>2, LayoutStays
  <2>2. /\ Current /\ Swallows(req_.msg) /\ (is_chunked_ \/ is_stream_) /\ Read >= At[req_.msg]
        /\ Len(requests) = IF Mistaken(req_.msg) THEN Due[req_.msg - 1] ELSE Due[req_.msg]
    BY <1>6 DEF Behind
  <2>3. Current' /\ Swallows(req_.msg)' /\ (Mistaken(req_.msg)' <=> Mistaken(req_.msg))
    BY <1>2, <2>2 DEF Current, Swallows, Mistaken
  <2>4. Read' >= At[req_.msg]
    <3>1. At[req_.msg] \in Nat
      <4>1. req_.msg \in DOMAIN messages BY <2>2 DEF Current
      <4>2. req_.msg \in 0..Len(messages) BY <1>1, <4>1, Numbers
      <4> QED BY <1>1, <4>2, Layout DEF Types, Placed
    <3>2. n \in Nat /\ Read \in Nat BY <1>1, Numbers
    <3> QED BY <1>8, <2>2, <3>1, <3>2
  <2> QED BY <1>2, <1>9, <1>11, <2>1, <2>2, <2>3, <2>4 DEF Behind
<1> QED BY <1>8, <1>12, <1>13, <1>14 DEF IInv, Progress

LEMMA ProgressStays ==
  ASSUME UNCHANGED <<messages, state_, is_chunked_, is_stream_, req_, chunk_, requests, again, lost>>,
         Read' = Read, Progress
  PROVE  Progress'
<1>1. At' = At /\ Due' = Due BY LayoutStays
<1>2. /\ (Current => Current') /\ (Kept <=> Kept')
      /\ \A m : (Swallows(m)' <=> Swallows(m)) /\ (Mistaken(m)' <=> Mistaken(m))
  BY CurrentStays
<1>3. \A kind, p, d : Standing(kind, p, d) => Standing(kind, p, d)'
  BY <1>1, <1>2 DEF Standing
<1>4. Between => Between' BY <1>2, <1>3 DEF Between, Fresh, Stands
<1>5. Inside => Inside' BY <1>3 DEF Inside, Stands
<1>6. Short => Short' BY <1>2, <1>3 DEF Short, Stands
<1>7. Behind => Behind'
  <2> SUFFICES ASSUME Behind PROVE Behind' OBVIOUS
  <2>1. /\ Current /\ Swallows(req_.msg) /\ Holding /\ (is_chunked_ \/ is_stream_)
        /\ Read >= At[req_.msg] /\ \A i \in DOMAIN again : again[i].req = req_
        /\ Len(requests) = IF Mistaken(req_.msg) THEN Due[req_.msg - 1] ELSE Due[req_.msg]
    BY DEF Behind
  <2>2. Current' /\ Swallows(req_.msg)' /\ (Mistaken(req_.msg)' <=> Mistaken(req_.msg))
    BY <2>1 DEF Current, Swallows, Mistaken
  <2>3. Holding' BY <2>1 DEF Holding
  <2> QED BY <1>1, <2>1, <2>2, <2>3 DEF Behind
<1>8. Failed => Failed' BY <1>1, <1>2 DEF Failed
<1> QED BY <1>2, <1>4, <1>5, <1>6, <1>7, <1>8 DEF Progress

LEMMA OnRecvStep ==
  ASSUME HttpBoundsAssumption, IInv, OnRecv
  PROVE  IInv'
<1>1. Types /\ Suffix /\ Delivered /\ Progress BY DEF IInv
<1>2. PICK n \in 1..Len(wire) : buf' = SubSeq(wire, 1, n) /\ wire' = SubSeq(wire, n + 1, Len(wire))
  BY DEF OnRecv
<1>3. /\ UNCHANGED <<messages, state_, is_chunked_, is_stream_, req_, chunk_, requests, again, lost>>
      /\ parsing' = TRUE /\ ~parsing
  BY DEF OnRecv
<1>4. /\ Len(wire) \in Nat /\ Len(Stream) \in Nat /\ Read \in Nat /\ Len(buf) \in Nat
      /\ Read + (Len(buf) + Len(wire)) = Len(Stream)
  BY <1>1, Numbers
<1>5. buf = <<>> /\ Len(buf) = 0 BY <1>1, <1>3 DEF Suffix
<1>6. wire \in Seq(Pieces) /\ n \in 0..Len(wire) BY <1>1, <1>4 DEF Types
<1>7. /\ buf' \in Seq(Pieces) /\ Len(buf') = n /\ \A k \in 1..n : buf'[k] = wire[k]
  BY <1>2, <1>6, SubSeqUpTo
<1>8. /\ wire' \in Seq(Pieces) /\ Len(wire') = Len(wire) - n
      /\ \A k \in 1..(Len(wire) - n) : wire'[k] = wire[n + k]
  BY <1>2, <1>6, SubSeqFrom
<1>9. Stream' = Stream BY <1>3, LayoutStays
<1>10. Read' = Read BY <1>4, <1>5, <1>6, <1>7, <1>8, <1>9 DEF Read
<1>11. \A k \in 1..Len(wire) : wire[k] = Stream[Read + k]
  <2> TAKE k \in 1..Len(wire)
  <2>1. Read + Len(buf) + k = Read + k BY <1>4, <1>5
  <2> QED BY <2>1, <1>1 DEF Suffix
<1>12. ASSUME NEW k \in 1..Len(buf') PROVE buf'[k] = Stream[Read + k]
  <2>1. k \in 1..n /\ k \in 1..Len(wire) BY <1>4, <1>6, <1>7
  <2> QED BY <2>1, <1>7, <1>11
<1>13. ASSUME NEW k \in 1..Len(wire') PROVE wire'[k] = Stream[Read + Len(buf') + k]
  <2>1. k \in 1..(Len(wire) - n) /\ n + k \in 1..Len(wire) /\ Read + (n + k) = Read + Len(buf') + k
    BY <1>4, <1>6, <1>7, <1>8
  <2>2. wire[n + k] = Stream[Read + (n + k)] BY <2>1, <1>11
  <2> QED BY <2>1, <2>2, <1>8
<1>14. Len(buf') + Len(wire') <= Len(Stream) BY <1>4, <1>5, <1>6, <1>7, <1>8
<1>15. Suffix' BY <1>3, <1>9, <1>10, <1>12, <1>13, <1>14 DEF Suffix
<1>16. Types' BY <1>1, <1>3, <1>7, <1>8 DEF Types
<1>17. Delivered' BY <1>1, <1>3, DeliveredStays
<1>18. Progress' BY <1>1, <1>3, <1>10, ProgressStays
<1> QED BY <1>15, <1>16, <1>17, <1>18 DEF IInv

(* Losing the byte of the message in hand does not touch what is delivered *)
(* before it.                                                              *)
LEMMA LosingKeeps ==
  ASSUME HttpBoundsAssumption, Types, Suffix, Delivered, Current,
         UNCHANGED <<messages, req_, requests>>, lost' = lost \cup {req_.msg},
         Len(requests) = Due[req_.msg - 1]
  PROVE  Delivered' /\ Current' /\ ~Kept'
<1> DEFINE r == req_.msg
<1>1. r \in DOMAIN messages /\ r \in Nat /\ r >= 1 /\ r - 1 \in 0..Len(messages)
  <2>1. Len(messages) \in Nat /\ r \in 1..Len(messages) BY Numbers DEF Current
  <2> HIDE DEF r
  <2>2. r \in Nat /\ r >= 1 /\ r - 1 \in 0..Len(messages) BY <2>1
  <2> QED BY <2>1, <2>2, Numbers
<1>2. Promised' = Promised BY LayoutStays
<1>3. ASSUME NEW k \in 1..Len(requests) PROVE requests[k] = WithLost(Promised[k])'
  <2>1. k \in 1..Len(Promised) /\ k <= Due[r - 1] BY Numbers DEF Delivered
  <2>2. Promised[k].msg \in 1..(r - 1) BY <1>1, <2>1, PromisedUpTo DEF Types
  <2>3. Promised[k].msg # r /\ Promised[k].msg - 1 # r BY <1>1, <2>2
  <2>4. /\ Promised[k].msg \in lost' <=> Promised[k].msg \in lost
        /\ Promised[k].msg - 1 \in lost' <=> Promised[k].msg - 1 \in lost
    BY <2>3
  <2>5. requests[k] = WithLost(Promised[k]) BY DEF Delivered
  <2> QED BY <1>2, <2>4, <2>5 DEF WithLost
<1>4. Delivered' BY <1>2, <1>3 DEF Delivered
<1>5. Current'
  <2>1. req_'.whole = (r - 1 \notin lost')
    <3>1. r - 1 # r BY <1>1
    <3> QED BY <3>1 DEF Current
  <2>2. lost' \subseteq 1..r
    <3>1. r \in 1..r BY <1>1
    <3> QED BY <3>1 DEF Current
  <2>3. ASSUME NEW k \in 1..(r - 1) PROVE ~Swallows(k)'
    <3>1. k - 1 # r BY <1>1
    <3>2. ~Swallows(k) BY DEF Current
    <3>3. k - 1 \in lost' <=> k - 1 \in lost BY <3>1
    <3> QED BY <3>2, <3>3 DEF Swallows, Mistaken
  <2>4. req_' = req_ /\ messages' = messages OBVIOUS
  <2> QED BY <2>1, <2>2, <2>3, <2>4 DEF Current
<1>6. ~Kept' BY DEF Kept
<1> QED BY <1>4, <1>5, <1>6

LEMMA ReturnStep ==
  ASSUME HttpBoundsAssumption, IInv, Return
  PROVE  IInv'
<1>1. Types /\ Suffix /\ Delivered /\ Progress BY DEF IInv
<1>2. /\ UNCHANGED <<messages, wire, state_, is_chunked_, is_stream_, req_, chunk_, requests, again>>
      /\ parsing /\ parsing' = FALSE /\ buf' = <<>>
      /\ lost' = IF buf # <<>> /\ state_ = "kExpectNormalBody" THEN lost \cup {req_.msg} ELSE lost
      /\ buf = <<>> \/ (Len(buf) = 1 /\ buf[1].part = "byte")
  BY DEF Return, Drained
<1>3. Stream' = Stream /\ At' = At /\ Due' = Due BY <1>2, LayoutStays
<1>4. /\ Len(wire) \in Nat /\ Len(Stream) \in Nat /\ Read \in Nat /\ Len(buf) \in Nat
      /\ Read + (Len(buf) + Len(wire)) = Len(Stream)
  BY <1>1, Numbers
<1>5. Len(buf') = 0 /\ buf' \in Seq(Pieces) BY <1>2
<1>6. Read' = Read + Len(buf) BY <1>2, <1>3, <1>4, <1>5 DEF Read
<1>7. Suffix'
  <2>1. ASSUME NEW k \in 1..Len(wire) PROVE wire[k] = Stream[Read' + Len(buf') + k]
    <3>1. Read' + Len(buf') + k = Read + Len(buf) + k BY <1>4, <1>5, <1>6
    <3> QED BY <3>1, <1>1 DEF Suffix
  <2>2. Len(buf') + Len(wire) <= Len(Stream) BY <1>4, <1>5
  <2>3. \A k \in 1..Len(buf') : buf'[k] = Stream[Read' + k] BY <1>5
  <2> QED BY <1>2, <1>3, <2>1, <2>2, <2>3 DEF Suffix
<1>8. Types' BY <1>1, <1>2, <1>5 DEF Types
<1>9. CASE buf = <<>>
  <2>1. Read' = Read /\ lost' = lost BY <1>9, <1>2, <1>4, <1>6
  <2>2. Delivered' BY <1>1, <1>2, <2>1, DeliveredStays
  <2>3. Progress' BY <1>1, <1>2, <2>1, ProgressStays
  <2> QED BY <1>7, <1>8, <2>2, <2>3 DEF IInv
<1>10. CASE buf # <<>>
  <2>1. Len(buf) = 1 /\ buf[1].part = "byte" BY <1>2, <1>10
  <2>2. \A kind : \A p, q \in Nat : \A d :
          /\ p < q /\ q <= p + 1 /\ q <= Len(PartsOf[kind]) /\ PartsOf[kind][q] # "byte"
          => ~Standing(kind, p, d)
    BY <2>1, <1>1, <1>10, ByteIsNext
  <2>3. ~Between
    <3>1. SUFFICES ASSUME Between PROVE FALSE OBVIOUS
    <3>2. PICK c \in 0..Len(messages) : Read = At[c] BY <1>1, <3>1, BetweenIsAt
    <3>3. buf[1] = [msg |-> c + 1, part |-> "head1"] BY <1>1, <1>10, <3>2, HeadIsFirst
    <3> QED BY <2>1, <3>3
  <2>4. ~Short BY <1>1, <1>10, <2>1, NothingMore DEF Short, Stands
  <2>5. ~Standing("sized", 2, 0) /\ ~Standing("stream", 2, 0) /\ ~Standing("stream", 3, 0)
        /\ ~Standing("chunked", 2, 0) /\ ~Standing("chunked", 4, 0) /\ ~Standing("chunked", 5, 0)
        /\ ~Standing("chunked", 6, 1) /\ ~Standing("chunked", 7, 1)
    <3>1. /\ Len(PartsOf["sized"]) = 4 /\ PartsOf["sized"][3] = "body"
          /\ Len(PartsOf["stream"]) = 4 /\ PartsOf["stream"][3] = "flow1" /\ PartsOf["stream"][4] = "flow2"
          /\ Len(PartsOf["chunked"]) = 8 /\ PartsOf["chunked"][3] = "size1"
          /\ PartsOf["chunked"][5] = "data1" /\ PartsOf["chunked"][6] = "data2"
          /\ PartsOf["chunked"][7] = "zero" /\ PartsOf["chunked"][8] = "empty"
      BY KindFacts
    <3>2. ~Standing("sized", 2, 0)
      <4>1. /\ 2 \in Nat /\ 3 \in Nat /\ 2 < 3 /\ 3 <= 2 + 1
            /\ 3 <= Len(PartsOf["sized"]) /\ PartsOf["sized"][3] # "byte"
        BY <3>1
      <4> QED BY <4>1, <2>2, Zenon
    <3>3. ~Standing("stream", 2, 0)
      <4>1. /\ 2 \in Nat /\ 3 \in Nat /\ 2 < 3 /\ 3 <= 2 + 1
            /\ 3 <= Len(PartsOf["stream"]) /\ PartsOf["stream"][3] # "byte"
        BY <3>1
      <4> QED BY <4>1, <2>2, Zenon
    <3>4. ~Standing("stream", 3, 0)
      <4>1. /\ 3 \in Nat /\ 4 \in Nat /\ 3 < 4 /\ 4 <= 3 + 1
            /\ 4 <= Len(PartsOf["stream"]) /\ PartsOf["stream"][4] # "byte"
        BY <3>1
      <4> QED BY <4>1, <2>2, Zenon
    <3>5. ~Standing("chunked", 2, 0)
      <4>1. /\ 2 \in Nat /\ 3 \in Nat /\ 2 < 3 /\ 3 <= 2 + 1
            /\ 3 <= Len(PartsOf["chunked"]) /\ PartsOf["chunked"][3] # "byte"
        BY <3>1
      <4> QED BY <4>1, <2>2, Zenon
    <3>6. ~Standing("chunked", 4, 0)
      <4>1. /\ 4 \in Nat /\ 5 \in Nat /\ 4 < 5 /\ 5 <= 4 + 1
            /\ 5 <= Len(PartsOf["chunked"]) /\ PartsOf["chunked"][5] # "byte"
        BY <3>1
      <4> QED BY <4>1, <2>2, Zenon
    <3>7. ~Standing("chunked", 5, 0)
      <4>1. /\ 5 \in Nat /\ 6 \in Nat /\ 5 < 6 /\ 6 <= 5 + 1
            /\ 6 <= Len(PartsOf["chunked"]) /\ PartsOf["chunked"][6] # "byte"
        BY <3>1
      <4> QED BY <4>1, <2>2, Zenon
    <3>8. ~Standing("chunked", 6, 1)
      <4>1. /\ 6 \in Nat /\ 7 \in Nat /\ 6 < 7 /\ 7 <= 6 + 1
            /\ 7 <= Len(PartsOf["chunked"]) /\ PartsOf["chunked"][7] # "byte"
        BY <3>1
      <4> QED BY <4>1, <2>2, Zenon
    <3>9. ~Standing("chunked", 7, 1)
      <4>1. /\ 7 \in Nat /\ 8 \in Nat /\ 7 < 8 /\ 8 <= 7 + 1
            /\ 8 <= Len(PartsOf["chunked"]) /\ PartsOf["chunked"][8] # "byte"
        BY <3>1
      <4> QED BY <4>1, <2>2, Zenon
    <3> QED BY <3>2, <3>3, <3>4, <3>5, <3>6, <3>7, <3>8, <3>9
  <2>6. \/ Behind \/ Failed
        \/ Stands("kExpectNormalBody", <<"body">>, "sized", 3, 0)
    BY <1>1, <2>3, <2>4, <2>5 DEF Progress, Inside, Stands
  <2>7. CASE Behind
    <3>1. lost' = lost BY <1>2, <2>7 DEF Behind, Holding
    <3>2. Delivered' BY <1>1, <1>2, <3>1, DeliveredStays
    <3>3. /\ Current /\ Swallows(req_.msg) /\ Holding /\ (is_chunked_ \/ is_stream_)
          /\ Read >= At[req_.msg] /\ \A i \in DOMAIN again : again[i].req = req_
          /\ Len(requests) = IF Mistaken(req_.msg) THEN Due[req_.msg - 1] ELSE Due[req_.msg]
      BY <2>7 DEF Behind
    <3>4. Current' /\ Swallows(req_.msg)' /\ (Mistaken(req_.msg)' <=> Mistaken(req_.msg))
      BY <1>2, <3>1, <3>3 DEF Current, Swallows, Mistaken
    <3>5. Holding' BY <1>2, <3>3 DEF Holding
    <3>6. Read' >= At[req_.msg]
      <4>1. At[req_.msg] \in Nat
        <5>1. req_.msg \in DOMAIN messages BY <3>3 DEF Current
        <5>2. req_.msg \in 0..Len(messages) BY <1>1, <5>1, Numbers
        <5> QED BY <1>1, <5>2, Layout DEF Types, Placed
      <4> QED BY <1>4, <1>6, <3>3, <4>1
    <3>7. Behind' BY <1>2, <1>3, <3>3, <3>4, <3>5, <3>6 DEF Behind
    <3> QED BY <1>7, <1>8, <3>2, <3>7 DEF IInv, Progress
  <2>8. CASE Failed
    <3>1. lost' = lost BY <1>2, <2>8 DEF Failed
    <3>2. Delivered' BY <1>1, <1>2, <3>1, DeliveredStays
    <3>3. Current' BY <1>2, <2>8, <3>1, CurrentStays DEF Failed
    <3>4. Failed' BY <1>2, <1>3, <2>8, <3>3 DEF Failed
    <3> QED BY <1>7, <1>8, <3>2, <3>4 DEF IInv, Progress
  <2>9. CASE Stands("kExpectNormalBody", <<"body">>, "sized", 3, 0)
    <3>1. /\ state_ = "kExpectNormalBody" /\ chunk_ = <<"body">> /\ Standing("sized", 3, 0)
          /\ lost' = lost \cup {req_.msg} /\ Current
      BY <1>2, <1>10, <2>9 DEF Stands, Standing
    <3>2. req_.msg \in DOMAIN messages /\ At[req_.msg - 1] \in Nat /\ Due[req_.msg - 1] \in Nat
      <4>1. Placed /\ Answered BY <1>1, Layout DEF Types
      <4>2. req_.msg \in DOMAIN messages BY <3>1 DEF Current
      <4>3. req_.msg - 1 \in 0..Len(messages)
        <5> DEFINE n1 == Len(messages)
        <5>1. n1 \in Nat /\ req_.msg \in 1..n1 BY <1>1, <4>2, Numbers
        <5> HIDE DEF n1
        <5>2. req_.msg - 1 \in 0..n1 BY <5>1
        <5> QED BY <5>2 DEF n1
      <4> QED BY <4>1, <4>2, <4>3 DEF Placed, Answered
    <3>3. Len(requests) = Due[req_.msg - 1]
      <4>1. Len(requests) = Due[req_.msg - 1] + 0 BY <3>1 DEF Standing
      <4> QED BY <4>1, <3>2
    <3>4. Delivered' /\ Current' /\ ~Kept' BY <1>1, <1>2, <3>1, <3>3, LosingKeeps
    <3>5. Read' = At[req_.msg - 1] + 4
      <4>1. Read = At[req_.msg - 1] + 3 BY <3>1 DEF Standing
      <4> QED BY <4>1, <3>2, <1>6, <2>1
    <3>6. Len(requests) = Due[req_.msg - 1] + 0 BY <3>1 DEF Standing
    <3>7. /\ messages[req_.msg] = "sized" /\ again = <<>>
          /\ is_chunked_ = ("sized" = "chunked") /\ is_stream_ = ("sized" = "stream")
      BY <3>1 DEF Standing
    <3>8. Standing("sized", 4, 0)' BY <1>2, <1>3, <3>4, <3>5, <3>6, <3>7 DEF Standing
    <3>9. Short' BY <1>2, <3>1, <3>4, <3>8 DEF Short, Stands
    <3> QED BY <1>7, <1>8, <3>4, <3>9 DEF IInv, Progress
  <2> QED BY <2>6, <2>7, <2>8, <2>9
<1> QED BY <1>9, <1>10

LEMMA InvInit ==
  ASSUME HttpBoundsAssumption, Init
  PROVE  IInv
<1>1. messages \in BoundedSeq(Kinds, MaxMessages) /\ wire = Stream /\ buf = <<>>
  BY DEF Init, Stream, Sent
<1>2. Placed /\ Answered BY <1>1, Layout
<1>3. Len(Stream) \in Nat /\ Len(wire) = Len(Stream) /\ Len(buf) = 0 /\ Len(Promised) \in Nat
  BY <1>1, <1>2 DEF Placed, Answered
<1>4. Read = 0 BY <1>3 DEF Read
<1>5. Types
  <2>1. wire \in Seq(Pieces) /\ buf \in Seq(Pieces) BY <1>1, <1>2 DEF Placed
  <2>2. /\ parsing \in BOOLEAN /\ is_chunked_ \in BOOLEAN /\ is_stream_ \in BOOLEAN
        /\ req_ = None /\ again = <<>>
    BY DEF Init
  <2>3. requests \in Seq(Requests) /\ again \in Seq(Requests) BY DEF Init
  <2> QED BY <1>1, <2>1, <2>2, <2>3 DEF Types
<1>6. Suffix
  <2>1. \A k \in 1..Len(wire) : Read + Len(buf) + k = k BY <1>3, <1>4
  <2>2. \A k \in 1..Len(buf) : FALSE BY <1>3
  <2> QED BY <1>1, <1>3, <2>1, <2>2 DEF Suffix
<1>7. requests = <<>> /\ Len(requests) = 0 BY DEF Init
<1>8. Delivered BY <1>3, <1>7 DEF Delivered
<1>9. Progress BY <1>4, <1>7 DEF Progress, Between, Fresh, Init
<1> QED BY <1>5, <1>6, <1>8, <1>9 DEF IInv

LEMMA InvStep ==
  ASSUME HttpBoundsAssumption, IInv, [Next]_vars
  PROVE  IInv'
<1>1. CASE OnRecv BY <1>1, OnRecvStep
<1>2. CASE ParseHeaders BY <1>2, ParseHeadersStep
<1>3. CASE ParseNormalBody BY <1>3, ParseNormalBodyStep
<1>4. CASE ParseStream BY <1>4, ParseStreamStep
<1>5. CASE ParseChunkLen BY <1>5, ParseChunkLenStep
<1>6. CASE ParseChunk BY <1>6, ParseChunkStep
<1>7. CASE ParseLastEmptyChunk BY <1>7, ParseLastEmptyChunkStep
<1>8. CASE Return BY <1>8, ReturnStep
<1>9. CASE SwallowNext BY <1>9, SwallowNextStep
<1>10. CASE UNCHANGED vars
  <2>1. Types /\ Suffix /\ Delivered /\ Progress BY DEF IInv
  <2>2. Types' BY <1>10, <2>1 DEF vars, Types
  <2>3. Suffix' /\ Read' = Read BY <1>10, <2>1, SuffixStays DEF vars
  <2>4. Delivered' BY <1>10, <2>1, DeliveredStays DEF vars
  <2>5. Progress' BY <1>10, <2>1, <2>3, ProgressStays DEF vars
  <2> QED BY <2>2, <2>3, <2>4, <2>5 DEF IInv
<1> QED BY <1>1, <1>2, <1>3, <1>4, <1>5, <1>6, <1>7, <1>8, <1>9, <1>10 DEF Next, Parse

(* The invariant holds throughout, for any number of messages of any kind. *)
THEOREM Invariance ==
  ASSUME HttpBoundsAssumption
  PROVE  Spec => []IInv
<1>1. Init => IInv BY InvInit
<1>2. IInv /\ [Next]_vars => IInv' BY InvStep
<1> QED BY <1>1, <1>2, PTL DEF Spec, Safety

-----------------------------------------------------------------------------
(* What follows from the invariant.                                        *)

(* Every reachable state is well typed; in particular what is collected    *)
(* outlives no message: where a line is expected there is nothing of it,   *)
(* where a body goes on there is a part of it, or of one that swallows the *)
(* others (ClearForNextHttp, ClearForNextChunk).                           *)
THEOREM TypeCorrect ==
  ASSUME HttpBoundsAssumption
  PROVE  Spec => []TypeOK
<1>1. IInv => TypeOK
  <2> SUFFICES ASSUME IInv PROVE TypeOK OBVIOUS
  <2>1. Types /\ Suffix /\ Progress BY DEF IInv
  <2>2. lost \subseteq DOMAIN messages
    <3>1. Fresh \/ Current
      BY <2>1 DEF Progress, Between, Inside, Short, Behind, Failed, Stands, Standing
    <3>2. CASE Current
      <4>1. req_.msg \in 1..Len(messages) /\ DOMAIN messages = 1..Len(messages) /\ Len(messages) \in Nat
        BY <2>1, <3>2, Numbers DEF Current
      <4> QED BY <3>2, <4>1 DEF Current
    <3> QED BY <3>1, <3>2 DEF Fresh
  <2>3. \/ /\ state_ \in {"kExpectHeaders", "kExpectChunkLen", "kExpectLastEmptyChunk", "kExpectError"}
           /\ chunk_ = <<>>
        \/ state_ = "kExpectNormalBody" /\ chunk_ \in {<<>>, <<"body">>}
        \/ state_ = "kExpectChunkBody" /\ chunk_ \in {<<>>, <<"data1">>, <<"other">>}
        \/ state_ = "kExpectStreamBody" /\ chunk_ \in {<<>>, <<"flow1">>, <<"other">>}
        \/ /\ state_ \in {"kExpectHttpComplete", "kExpectChunkComplete"}
           /\ chunk_ \in {<<>>, <<"body", "byte">>, <<"body", "other">>, <<"data1", "data2">>,
                          <<"flow1", "flow2">>, <<"other">>}
    <3>1. CASE Between BY <3>1 DEF Between, Fresh, Stands
    <3>2. CASE Inside BY <3>2 DEF Inside, Stands
    <3>3. CASE Short BY <3>3 DEF Short, Stands
    <3>4. CASE Behind BY <3>4 DEF Behind, Holding
    <3>5. CASE Failed BY <3>5 DEF Failed
    <3> QED BY <2>1, <3>1, <3>2, <3>3, <3>4, <3>5 DEF Progress
  <2>4. state_ \in ParserStates BY <2>3 DEF ParserStates
  <2>5. chunk_ \in CASE state_ = "kExpectNormalBody" -> {<<>>, <<"body">>}
                     [] state_ = "kExpectChunkBody" -> {<<>>, <<"data1">>, <<"other">>}
                     [] state_ = "kExpectStreamBody" -> {<<>>, <<"flow1">>, <<"other">>}
                     [] state_ \in {"kExpectHttpComplete", "kExpectChunkComplete"} -> Bodies
                     [] OTHER -> {<<>>}
    BY <2>3 DEF Bodies
  <2> QED BY <2>1, <2>2, <2>4, <2>5 DEF TypeOK, Types
<1> QED BY <1>1, Invariance, PTL

(* Nothing is delivered that the message in hand and those before it are   *)
(* not owed.                                                               *)
LEMMA PaidInTime ==
  ASSUME HttpBoundsAssumption, IInv, ~Fresh
  PROVE  Current /\ Len(requests) <= Due[req_.msg]
<1>1. Types /\ Suffix /\ Delivered /\ Progress BY DEF IInv
<1>2. Placed /\ Answered BY <1>1, Layout DEF Types
<1>3. Current BY <1>1 DEF Progress, Between, Inside, Short, Behind, Failed, Stands, Standing
<1>4. req_.msg \in DOMAIN messages /\ req_.msg \in 1..MaxMessages /\ messages[req_.msg] \in Kinds
  <2>1. req_.msg \in DOMAIN messages BY <1>3 DEF Current
  <2> QED BY <1>1, <2>1, MessagesType DEF Types, HttpBoundsAssumption
<1>5. /\ Due[req_.msg] = Due[req_.msg - 1] + Len(Deliveries(req_.msg))
      /\ Due[req_.msg - 1] \in Nat /\ Due[req_.msg] \in Nat /\ Len(Deliveries(req_.msg)) \in Nat
  <2>1. Deliveries(req_.msg) \in Seq(Promises) BY <1>4, DeliveriesType
  <2>2. req_.msg - 1 \in 0..Len(messages) /\ req_.msg \in 0..Len(messages)
    <3> DEFINE n1 == Len(messages)
    <3>1. n1 \in Nat /\ req_.msg \in 1..n1 BY <1>1, <1>4, Numbers
    <3> HIDE DEF n1
    <3>2. req_.msg - 1 \in 0..n1 /\ req_.msg \in 0..n1 BY <3>1
    <3> QED BY <3>2 DEF n1
  <2> QED BY <1>2, <1>4, <2>1, <2>2 DEF Answered
<1>6. ASSUME NEW kind, NEW p, NEW d \in Nat, Standing(kind, p, d), d <= Len(Deliveries(req_.msg))
      PROVE  Len(requests) <= Due[req_.msg]
  <2>1. Len(requests) = Due[req_.msg - 1] + d BY <1>6 DEF Standing
  <2> QED BY <2>1, <1>5, <1>6
<1>7. \A p : Standing("plain", p, 1) => Len(requests) <= Due[req_.msg]
  <2> SUFFICES ASSUME NEW p, Standing("plain", p, 1) PROVE Len(requests) <= Due[req_.msg] OBVIOUS
  <2>1. Len(Deliveries(req_.msg)) = 1 BY DEF Standing, Deliveries
  <2> QED BY <2>1, <1>6
<1>8. \A p : \A d \in {0, 1} : Standing("sized", p, d) => Len(requests) <= Due[req_.msg]
  <2> SUFFICES ASSUME NEW p, NEW d \in {0, 1}, Standing("sized", p, d) PROVE Len(requests) <= Due[req_.msg] OBVIOUS
  <2>1. Len(Deliveries(req_.msg)) = 1 BY DEF Standing, Deliveries
  <2> QED BY <2>1, <1>6
<1>9. \A p : \A d \in {0, 1} : Standing("chunked", p, d) => Len(requests) <= Due[req_.msg]
  <2> SUFFICES ASSUME NEW p, NEW d \in {0, 1}, Standing("chunked", p, d) PROVE Len(requests) <= Due[req_.msg] OBVIOUS
  <2>1. Len(Deliveries(req_.msg)) = 2 BY DEF Standing, Deliveries
  <2> QED BY <2>1, <1>6
<1>10. \A p : Standing("stream", p, 0) => Len(requests) <= Due[req_.msg]
  <2> SUFFICES ASSUME NEW p, Standing("stream", p, 0) PROVE Len(requests) <= Due[req_.msg] OBVIOUS
  <2> QED BY <1>5, <1>6
<1>11. CASE Between \/ Inside \/ Short
  <2>1. \/ Standing("plain", 2, 1) \/ Standing("sized", 4, 1) \/ Standing("sized", 4, 0)
        \/ Standing("sized", 2, 0) \/ Standing("sized", 3, 0)
        \/ Standing("stream", 2, 0) \/ Standing("stream", 3, 0)
        \/ Standing("chunked", 2, 0) \/ Standing("chunked", 4, 0) \/ Standing("chunked", 5, 0)
        \/ Standing("chunked", 6, 1) \/ Standing("chunked", 7, 1)
    BY <1>11 DEF Between, Inside, Short, Stands
  <2>2. \A p : Standing("sized", p, 0) \/ Standing("sized", p, 1) => Len(requests) <= Due[req_.msg]
    BY <1>8
  <2>3. \A p : Standing("chunked", p, 0) \/ Standing("chunked", p, 1) => Len(requests) <= Due[req_.msg]
    BY <1>9
  <2> QED BY <1>3, <1>7, <1>10, <2>1, <2>2, <2>3, Zenon
<1>12. CASE Behind BY <1>3, <1>5, <1>12 DEF Behind
<1>13. CASE Failed BY <1>3, <1>5, <1>13 DEF Failed
<1> QED BY <1>1, <1>3, <1>11, <1>12, <1>13 DEF Progress

(* However TCP cuts the stream, the application is given the messages'     *)
(* requests in order, each once and each with its own body, but for a byte *)
(* that HttpContext::Parse leaves behind; and behind a chunked message or  *)
(* a stream, none but that message's again, although http_parser.h:204     *)
(* makes ready for the next message.                                       *)
THEOREM RequestsComeInOrder ==
  ASSUME HttpBoundsAssumption
  PROVE  Spec => []RequestsInOrder
<1>1. IInv => RequestsInOrder
  <2> SUFFICES ASSUME IInv PROVE RequestsInOrder OBVIOUS
  <2>1. Types /\ Suffix /\ Delivered /\ Progress BY DEF IInv
  <2>2. requests \in Seq(Requests) /\ DOMAIN requests = 1..Len(requests) /\ Len(requests) \in Nat
    BY <2>1 DEF Types
  <2>3. ASSUME NEW i \in DOMAIN requests, NEW k \in 1..(Promised[i].msg - 1)
        PROVE  ~Swallows(k)
    <3>1. ~Fresh BY <2>2 DEF Fresh
    <3>2. Current /\ Len(requests) <= Due[req_.msg] BY <3>1, PaidInTime
    <3>3. req_.msg \in 0..Len(messages) /\ req_.msg \in Nat /\ Due[req_.msg] \in Nat
      <4>1. req_.msg \in DOMAIN messages BY <3>2 DEF Current
      <4>2. req_.msg \in 0..Len(messages) /\ req_.msg \in Nat BY <2>1, <4>1, Numbers
      <4> QED BY <2>1, <4>2, Layout DEF Types, Answered
    <3>4. i \in 1..Len(Promised) /\ i <= Due[req_.msg]
      BY <2>1, <2>2, <3>2, <3>3, Numbers DEF Delivered
    <3>5. Promised[i].msg \in 1..req_.msg BY <2>1, <3>3, <3>4, PromisedUpTo DEF Types
    <3>6. k \in 1..(req_.msg - 1) BY <3>3, <3>5
    <3> QED BY <3>2, <3>6 DEF Current
  <2>4. again # <<>> => Swallows(req_.msg) /\ \A i \in DOMAIN again : again[i].req = req_
    BY <2>1 DEF Progress, Between, Fresh, Inside, Short, Behind, Failed, Stands, Standing
  <2> QED BY <2>1, <2>2, <2>3, <2>4 DEF RequestsInOrder, Delivered
<1> QED BY <1>1, Invariance, PTL

(* A parser that has read everything without an error has delivered all of *)
(* every message, the empty chunk at the end of a chunked one included,    *)
(* but for what is behind a message that swallows the others, a GET that   *)
(* was mistaken for a stream, and a last message short of a byte.          *)
THEOREM AllIsDelivered ==
  ASSUME HttpBoundsAssumption
  PROVE  Spec => []NothingDropped
<1>1. IInv => NothingDropped
  <2> SUFFICES ASSUME IInv, wire = <<>>, ~parsing, state_ # "kExpectError",
                      NEW m \in DOMAIN messages,
                      ~\E k \in 1..(m - 1) : Swallows(k), ~Mistaken(m),
                      ~(m = Len(messages) /\ m \in lost)
               PROVE  \A j \in DOMAIN Deliveries(m) :
                        \E i \in DOMAIN requests : requests[i] = WithLost(Deliveries(m)[j])
    BY DEF NothingDropped
  <2>1. Types /\ Suffix /\ Delivered /\ Progress BY DEF IInv
  <2>2. Placed /\ Answered BY <2>1, Layout DEF Types
  <2>3. /\ Read = Len(Stream) /\ Len(messages) \in Nat /\ DOMAIN messages = 1..Len(messages)
        /\ Len(requests) \in Nat /\ Len(Stream) \in Nat
    <3>1. Len(buf) = 0 /\ Len(wire) = 0 BY <2>1 DEF Suffix
    <3> QED BY <2>1, <3>1, Numbers
  <2>4. m \in 1..MaxMessages /\ messages[m] \in Kinds
    BY <2>1, MessagesType DEF Types, HttpBoundsAssumption
  <2>5. SUFFICES Due[m] <= Len(requests)
    <3>1. Deliveries(m) \in Seq(Promises) BY <2>4, DeliveriesType
    <3>2. m - 1 \in 0..Len(messages) /\ m \in 0..Len(messages)
      <4> DEFINE n1 == Len(messages)
      <4>1. n1 \in Nat /\ m \in 1..n1 BY <2>3
      <4> HIDE DEF n1
      <4>2. m - 1 \in 0..n1 /\ m \in 0..n1 BY <4>1
      <4> QED BY <4>2 DEF n1
    <3>3. /\ Due[m] = Due[m - 1] + Len(Deliveries(m)) /\ Due[m - 1] \in Nat /\ Due[m] \in Nat
          /\ \A j \in 1..Len(Deliveries(m)) : Promised[Due[m - 1] + j] = Deliveries(m)[j]
      BY <2>2, <3>2 DEF Answered
    <3>4. ASSUME NEW j \in DOMAIN Deliveries(m)
          PROVE  \E i \in DOMAIN requests : requests[i] = WithLost(Deliveries(m)[j])
      <4>1. j \in 1..Len(Deliveries(m)) /\ Len(Deliveries(m)) \in Nat BY <3>1
      <4>2. Due[m - 1] + j \in 1..Len(requests) BY <2>3, <2>5, <3>3, <4>1
      <4>3. requests[Due[m - 1] + j] = WithLost(Promised[Due[m - 1] + j])
        BY <2>1, <4>2 DEF Delivered
      <4>4. DOMAIN requests = 1..Len(requests) BY <2>1 DEF Types
      <4> QED BY <3>3, <4>1, <4>2, <4>3, <4>4
    <3> QED BY <3>4
  <2>6. ASSUME NEW c \in 0..Len(messages), Read = At[c] PROVE c = Len(messages)
    <3>1. SUFFICES ASSUME c # Len(messages) PROVE FALSE OBVIOUS
    <3> DEFINE h == c + 1
    <3>2. h \in DOMAIN messages /\ h - 1 = c
      <4> DEFINE n == Len(messages)
      <4>1. n \in Nat /\ c \in 0..n /\ c # n BY <2>3, <3>1
      <4> HIDE DEF n
      <4>2. h \in 1..n /\ h - 1 = c BY <4>1
      <4> QED BY <4>2, <2>3 DEF n
    <3>3. messages[h] \in Kinds BY <2>1, <3>2, MessagesType DEF Types
    <3>4. Len(PartsOf[messages[h]]) \in Nat /\ Len(PartsOf[messages[h]]) >= 2
      BY <3>3, PartsType
    <3> HIDE DEF h
    <3>5. At[h] = At[c] + Len(PartsOf[messages[h]]) /\ At[h] <= Len(Stream)
      BY <2>2, <3>2 DEF Placed
    <3>6. At[c] \in Nat BY <2>2, <2>6 DEF Placed
    <3> QED BY <2>3, <2>6, <3>4, <3>5, <3>6
  <2>7. ASSUME NEW kind, NEW p \in Nat, NEW d, Standing(kind, p, d)
        PROVE  Len(PartsOf[kind]) <= p
    <3>1. req_.msg \in DOMAIN messages /\ messages[req_.msg] = kind /\ Read = At[req_.msg - 1] + p
      BY <2>7 DEF Standing, Current
    <3>2. At[req_.msg] = At[req_.msg - 1] + Len(PartsOf[kind]) /\ At[req_.msg] <= Len(Stream)
      BY <2>2, <3>1 DEF Placed
    <3>3. req_.msg - 1 \in 0..Len(messages) /\ kind \in Kinds
      BY <2>1, <2>3, <3>1, MessagesType DEF Types
    <3>4. At[req_.msg - 1] \in Nat /\ Len(PartsOf[kind]) \in Nat
      BY <2>2, <3>3, PartsType DEF Placed
    <3> QED BY <2>3, <3>1, <3>2, <3>4
  <2>8. /\ Len(PartsOf["sized"]) = 4 /\ Len(PartsOf["chunked"]) = 8 /\ Len(PartsOf["stream"]) = 4
    BY KindFacts
  <2>9. ~Inside
    <3>1. \A p \in Nat : \A d : p < 4 => ~Standing("sized", p, d)
      <4>1. \A p \in Nat : \A d : Standing("sized", p, d) => Len(PartsOf["sized"]) <= p
        BY <2>7, Zenon
      <4>2. \A p \in Nat : p < 4 => ~(4 <= p) OBVIOUS
      <4> QED BY <4>1, <4>2, <2>8, Zenon
    <3>2. \A p \in Nat : \A d : p < 4 => ~Standing("stream", p, d)
      <4>1. \A p \in Nat : \A d : Standing("stream", p, d) => Len(PartsOf["stream"]) <= p
        BY <2>7, Zenon
      <4>2. \A p \in Nat : p < 4 => ~(4 <= p) OBVIOUS
      <4> QED BY <4>1, <4>2, <2>8, Zenon
    <3>3. \A p \in Nat : \A d : p < 8 => ~Standing("chunked", p, d)
      <4>1. \A p \in Nat : \A d : Standing("chunked", p, d) => Len(PartsOf["chunked"]) <= p
        BY <2>7, Zenon
      <4>2. \A p \in Nat : p < 8 => ~(8 <= p) OBVIOUS
      <4> QED BY <4>1, <4>2, <2>8, Zenon
    <3>4. 2 < 4 /\ 3 < 4 /\ 2 < 8 /\ 4 < 8 /\ 5 < 8 /\ 6 < 8 /\ 7 < 8 OBVIOUS
    <3>5. 2 \in Nat /\ 3 \in Nat /\ 4 \in Nat /\ 5 \in Nat /\ 6 \in Nat /\ 7 \in Nat OBVIOUS
    <3> QED BY <3>1, <3>2, <3>3, <3>4, <3>5 DEF Inside, Stands
  <2>10. ASSUME NEW r \in 0..Len(messages), m <= r, Len(requests) >= Due[r]
         PROVE  Due[m] <= Len(requests)
    <3>1. m \in 0..Len(messages) BY <2>3
    <3>2. Due[m] <= Due[r] BY <2>1, <2>10, <3>1, DueInOrder DEF Types
    <3>3. Due[m] \in Nat /\ Due[r] \in Nat BY <2>2, <3>1 DEF Answered
    <3> QED BY <2>3, <2>10, <3>2, <3>3
  <2>11. CASE Between
    <3>1. PICK c \in 0..Len(messages) : Read = At[c] /\ Len(requests) = Due[c]
      BY <2>1, <2>11, BetweenIsAt
    <3>2. c = Len(messages) BY <2>6, <3>1
    <3>3. m <= c BY <2>3, <3>2
    <3> QED BY <2>3, <2>10, <3>1, <3>3
  <2>12. CASE Short
    <3>1. Standing("sized", 4, 0) /\ req_.msg \in lost BY <2>12 DEF Short, Stands, Kept
    <3>2. req_.msg \in 1..Len(messages) /\ Read = At[req_.msg] BY <2>1, <2>8, <3>1, CompleteIsAt
    <3>3. req_.msg = Len(messages)
      <4>1. req_.msg \in 0..Len(messages) BY <2>3, <3>2
      <4> QED BY <2>6, <3>2, <4>1
    <3>4. m <= req_.msg - 1 /\ req_.msg - 1 \in 0..Len(messages) BY <2>3, <3>1, <3>3
    <3>5. Due[req_.msg - 1] \in Nat BY <2>2, <3>4 DEF Answered
    <3>6. Len(requests) = Due[req_.msg - 1] + 0 BY <3>1 DEF Standing
    <3>7. Len(requests) >= Due[req_.msg - 1] BY <3>5, <3>6
    <3> QED BY <2>10, <3>4, <3>7
  <2>13. CASE Behind
    <3>1. /\ req_.msg \in 1..Len(messages) /\ Swallows(req_.msg)
          /\ Len(requests) = IF Mistaken(req_.msg) THEN Due[req_.msg - 1] ELSE Due[req_.msg]
      BY <2>3, <2>13 DEF Behind, Current
    <3>2. m <= req_.msg BY <2>3, <3>1
    <3>3. req_.msg \in 0..Len(messages) /\ req_.msg - 1 \in 0..Len(messages) /\ req_.msg \in Nat
      <4> DEFINE n1 == Len(messages)
      <4>1. n1 \in Nat /\ req_.msg \in 1..n1 BY <2>3, <3>1
      <4> HIDE DEF n1
      <4>2. req_.msg - 1 \in 0..n1 /\ req_.msg \in 0..n1 /\ req_.msg \in Nat BY <4>1
      <4> QED BY <4>2 DEF n1
    <3>4. Due[req_.msg] \in Nat /\ Due[req_.msg - 1] \in Nat BY <2>2, <3>3 DEF Answered
    <3>5. CASE Mistaken(req_.msg)
      <4>1. m # req_.msg BY <3>5
      <4>2. m <= req_.msg - 1 BY <2>3, <3>2, <3>3, <4>1
      <4>3. Len(requests) >= Due[req_.msg - 1] BY <2>3, <3>1, <3>5
      <4> QED BY <2>10, <3>3, <4>2, <4>3
    <3>6. CASE ~Mistaken(req_.msg)
      <4>1. Len(requests) >= Due[req_.msg] BY <2>3, <3>1, <3>6
      <4> QED BY <2>10, <3>2, <3>3, <4>1
    <3> QED BY <3>5, <3>6
  <2> QED BY <2>1, <2>9, <2>11, <2>12, <2>13 DEF Progress, Failed
<1> QED BY <1>1, Invariance, PTL

====
