----------------------------- MODULE SendPath_proofs -----------------------------
(***************************************************************************)
(* Theorems about SendPath: its types and the bookkeeping of the pacer's   *)
(* queue, that the pacer never sleeps past its next packet, that the queue *)
(* implements PriorityQueue, and that the marks of the history and the     *)
(* times of the retransmissions are right, for any packets, rates,         *)
(* intervals and bounds. The inductive invariant IInv has three parts of   *)
(* its own:                                                                *)
(*   - QueueOK, what the queue keeps: streams in order (Sorted), the map   *)
(*     of the streams (Scheduled), the counters as sums over the packets   *)
(*     (Counted), numbers and times that grow together (Arrived, Timed);   *)
(*   - ControllerOK and TimersOK, the controller around it and the timers  *)
(*     that are posted;                                                    *)
(*   - Waking, where the pacer's next timer stands against its next packet *)
(*     and the end of the silence, idle and within each of its two loops.  *)
(* The model's sums and EnqueueAll's fold are recursive functions: what    *)
(* they compute is shown by induction on a cardinality, led by its least   *)
(* counterexample (LeastOf).  What is said of retransmissions rests on a   *)
(* second invariant, Resending: where a packet stands in the history       *)
(* (Placed), at most one copy of it on its way (OneCopy), and what its     *)
(* mark and its times say of that copy (Marks, Spaced).                    *)
(***************************************************************************)
EXTENDS SendPath, FiniteSetTheorems, SequenceTheorems, TLAPS

-----------------------------------------------------------------------------
(* A set of numbers that is not empty has a least one.                     *)
LEMMA LeastOf ==
  ASSUME NEW T, T \subseteq Nat, T # {}
  PROVE  \E x \in T : \A y \in T : x <= y
<1> DEFINE Less == {p \in Nat \X Nat : p[1] < p[2]}
<1>1. IsWellFoundedOn(Less, Nat) BY NatLessThanWellFounded DEF OpToRel
<1>2. \E x \in T : \A y \in T : <<y, x>> \notin Less
  <2> HIDE DEF Less
  <2> QED BY <1>1, WFMin
<1>3. \A x, y \in Nat : <<y, x>> \notin Less => x <= y OBVIOUS
<1> QED BY <1>2, <1>3

-----------------------------------------------------------------------------
(* Sums over finite sets, as MapThenSumSet computes them.                  *)
Picked(s) == CHOOSE x \in s : TRUE

(* g[s] is the sum of w over s, for the sets s of D.                       *)
Summing(g, w, D) ==
  g = [s \in D |-> IF s = {} THEN 0 ELSE w[Picked(s)] + g[s \ {Picked(s)}]]

UpTo(S, n) == {s \in SUBSET S : Cardinality(s) <= n}

(* Such a function exists, by induction on the size of the sets.           *)
LEMMA SummingExists ==
  ASSUME NEW S, IsFiniteSet(S), NEW w
  PROVE  \E g : Summing(g, w, SUBSET S)
<1> DEFINE T == {n \in Nat : ~\E g : Summing(g, w, UpTo(S, n))}
<1>1. T = {}
  <2>1. SUFFICES ASSUME T # {} PROVE FALSE OBVIOUS
  <2>2. PICK n \in T : \A k \in T : n <= k BY <2>1, LeastOf
  <2>3. n \in Nat /\ ~\E g : Summing(g, w, UpTo(S, n)) OBVIOUS
  <2>4. n # 0
    <3>1. \A s \in UpTo(S, 0) : s = {}
      <4> TAKE s \in UpTo(S, 0)
      <4>1. s \in SUBSET S /\ Cardinality(s) <= 0 BY DEF UpTo
      <4>2. IsFiniteSet(s) /\ Cardinality(s) \in Nat BY <4>1, FS_Subset, FS_CardinalityType
      <4> QED BY <4>1, <4>2, FS_EmptySet
    <3>2. Summing([s \in UpTo(S, 0) |-> 0], w, UpTo(S, 0)) BY <3>1 DEF Summing
    <3> QED BY <3>2, <2>3
  <2>5. n - 1 \in Nat /\ n - 1 < n BY <2>3, <2>4
  <2>6. n - 1 \notin T BY <2>2, <2>5
  <2>7. PICK g : Summing(g, w, UpTo(S, n - 1)) BY <2>5, <2>6
  <2> DEFINE h == [s \in UpTo(S, n) |->
                     IF s = {} THEN 0 ELSE w[Picked(s)] + g[s \ {Picked(s)}]]
  <2>8. \A s \in UpTo(S, n - 1) : s \in UpTo(S, n) /\ h[s] = g[s]
    <3> TAKE s \in UpTo(S, n - 1)
    <3>1. s \in UpTo(S, n)
      <4>1. s \in SUBSET S /\ Cardinality(s) <= n - 1 BY DEF UpTo
      <4>2. Cardinality(s) \in Nat BY <4>1, FS_Subset, FS_CardinalityType
      <4> QED BY <4>1, <4>2, <2>3 DEF UpTo
    <3>2. g[s] = IF s = {} THEN 0 ELSE w[Picked(s)] + g[s \ {Picked(s)}] BY <2>7 DEF Summing
    <3> QED BY <3>1, <3>2
  <2>9. \A s \in UpTo(S, n) : s # {} => s \ {Picked(s)} \in UpTo(S, n - 1)
    <3> SUFFICES ASSUME NEW s \in UpTo(S, n), s # {}
                 PROVE  s \ {Picked(s)} \in UpTo(S, n - 1) OBVIOUS
    <3>1. s \in SUBSET S /\ Cardinality(s) <= n BY DEF UpTo
    <3>2. IsFiniteSet(s) /\ Cardinality(s) \in Nat BY <3>1, FS_Subset, FS_CardinalityType
    <3>3. Picked(s) \in s BY DEF Picked
    <3>4. Cardinality(s \ {Picked(s)}) = Cardinality(s) - 1 BY <3>2, <3>3, FS_RemoveElement
    <3> QED BY <3>1, <3>2, <3>4, <2>3 DEF UpTo
  <2>10. Summing(h, w, UpTo(S, n))
    <3>1. \A s \in UpTo(S, n) : s # {} => g[s \ {Picked(s)}] = h[s \ {Picked(s)}] BY <2>8, <2>9
    <3>2. h = [s \in UpTo(S, n) |-> IF s = {} THEN 0 ELSE w[Picked(s)] + h[s \ {Picked(s)}]]
      BY <3>1
    <3> HIDE DEF h
    <3> QED BY <3>2 DEF Summing
  <2> QED BY <2>3, <2>10
<1>2. Cardinality(S) \in Nat /\ UpTo(S, Cardinality(S)) = SUBSET S
  BY FS_CardinalityType, FS_Subset DEF UpTo
<1>3. Cardinality(S) \notin T BY <1>1
<1> QED BY <1>2, <1>3

(* Whichever element is taken out first, the sum is the same.              *)
LEMMA SummingRemoves ==
  ASSUME NEW S, IsFiniteSet(S), NEW w, \A x \in S : w[x] \in Int,
         NEW g, Summing(g, w, SUBSET S)
  PROVE  /\ g[{}] = 0
         /\ \A s \in SUBSET S : g[s] \in Int /\ \A x \in s : g[s] = w[x] + g[s \ {x}]
<1>1. \A s \in SUBSET S : g[s] = IF s = {} THEN 0 ELSE w[Picked(s)] + g[s \ {Picked(s)}]
  BY DEF Summing
<1> DEFINE Good(s) == g[s] \in Int /\ \A x \in s : g[s] = w[x] + g[s \ {x}]
           T == {s \in SUBSET S : ~Good(s)}
           Smaller == StrictSubsetOrdering(S)
<1>2. T = {}
  <2>1. SUFFICES ASSUME T # {} PROVE FALSE OBVIOUS
  <2>2. PICK s \in T : \A u \in T : <<u, s>> \notin Smaller
    <3>1. IsWellFoundedOn(Smaller, SUBSET S)
      BY FS_StrictSubsetOrderingWellFounded, FS_FiniteSubsetsOfFinite
    <3>2. T \subseteq SUBSET S OBVIOUS
    <3> HIDE DEF Smaller, T
    <3> QED BY <2>1, <3>1, <3>2, WFMin
  <2>3. s \in SUBSET S /\ ~Good(s) OBVIOUS
  <2>4. \A u \in SUBSET s : u # s => Good(u)
    <3> SUFFICES ASSUME NEW u \in SUBSET s, u # s PROVE Good(u) OBVIOUS
    <3>1. u \in SUBSET S BY <2>3
    <3>2. <<u, s>> \in Smaller BY <2>3, <3>1 DEF StrictSubsetOrdering
    <3> HIDE DEF Good
    <3> QED BY <2>2, <3>1, <3>2
  <2>5. s # {}
    <3>1. g[{}] = 0
      <4>1. {} \in SUBSET S OBVIOUS
      <4> QED BY <1>1, <4>1
    <3>2. Good({}) BY <3>1
    <3> HIDE DEF Good
    <3> QED BY <2>3, <3>2
  <2> DEFINE y == Picked(s)
  <2>6. y \in s BY <2>5 DEF Picked
  <2>7. g[s] = w[y] + g[s \ {y}] BY <1>1, <2>3, <2>5
  <2>8. g[s \ {y}] \in Int /\ \A x \in s \ {y} : g[s \ {y}] = w[x] + g[(s \ {y}) \ {x}]
    BY <2>4, <2>6
  <2>9. g[s] \in Int BY <2>3, <2>6, <2>7, <2>8
  <2>10. ASSUME NEW x \in s PROVE g[s] = w[x] + g[s \ {x}]
    <3>1. CASE x = y BY <3>1, <2>7
    <3>2. CASE x # y
      <4>1. g[s \ {y}] = w[x] + g[(s \ {y}) \ {x}] BY <3>2, <2>8
      <4>2. g[s \ {x}] = w[y] + g[(s \ {x}) \ {y}] BY <3>2, <2>4, <2>6
      <4>3. (s \ {x}) \ {y} = (s \ {y}) \ {x} OBVIOUS
      <4>4. g[(s \ {y}) \ {x}] \in Int
        <5>1. (s \ {y}) \ {x} \in SUBSET s /\ (s \ {y}) \ {x} # s BY <2>6
        <5> QED BY <5>1, <2>4
      <4>5. w[x] \in Int /\ w[y] \in Int BY <2>3, <2>6
      <4> DEFINE r == g[(s \ {y}) \ {x}]
                 a == w[x]
                 b == w[y]
      <4>6. g[s] = b + (a + r) /\ g[s \ {x}] = b + r BY <4>1, <4>2, <4>3, <2>7
      <4>7. a \in Int /\ b \in Int /\ r \in Int BY <4>4, <4>5
      <4> HIDE DEF r, a, b
      <4>8. g[s] = a + g[s \ {x}] BY <4>6, <4>7
      <4> QED BY <4>8 DEF a
    <3> QED BY <3>1, <3>2
  <2> QED BY <2>3, <2>9, <2>10
<1>3. g[{}] = 0 BY <1>1
<1> QED BY <1>2, <1>3

(* The two sums of Consistent.                                             *)
SizeSum(S) == MapThenSumSet(LAMBDA p : p.size, S)
WaitSum(now, paused, S) == MapThenSumSet(LAMBDA p : now - p.enqueue_time - paused, S)

Sizes(S) == [p \in S |-> p.size]
Waits(now, paused, S) == [p \in S |-> now - p.enqueue_time - paused]

(* The two sums of the model, as such functions give them.                 *)
LEMMA SizeSumSums ==
  ASSUME NEW S, IsFiniteSet(S), NEW U, S \subseteq U
  PROVE  \E g : Summing(g, Sizes(U), SUBSET S) /\ SizeSum(S) = g[S]
<1> DEFINE w == [p \in U |-> p.size]
           F(g) == g = [s \in SUBSET S |->
                          IF s = {} THEN 0 ELSE LET x == CHOOSE x \in s : TRUE
                                                IN x.size + g[s \ {x}]]
           G == CHOOSE g : F(g)
<1>1. SizeSum(S) = G[S] BY DEF SizeSum, MapThenSumSet, MapThenFoldSet
<1>2. ASSUME NEW g PROVE F(g) <=> Summing(g, w, SUBSET S)
  <2>1. \A s \in SUBSET S : s # {} => w[Picked(s)] = (Picked(s)).size
    <3> SUFFICES ASSUME NEW s \in SUBSET S, s # {} PROVE w[Picked(s)] = (Picked(s)).size OBVIOUS
    <3>1. Picked(s) \in U BY DEF Picked
    <3> QED BY <3>1
  <2>2. [s \in SUBSET S |-> IF s = {} THEN 0 ELSE w[Picked(s)] + g[s \ {Picked(s)}]]
        = [s \in SUBSET S |-> IF s = {} THEN 0 ELSE (Picked(s)).size + g[s \ {Picked(s)}]]
    <3> HIDE DEF w
    <3> QED BY <2>1
  <2>3. F(g) <=> g = [s \in SUBSET S |-> IF s = {} THEN 0
                                         ELSE (Picked(s)).size + g[s \ {Picked(s)}]]
    BY DEF Picked
  <2> QED BY <2>2, <2>3 DEF Summing
<1>3. \E g : F(g)
  <2> HIDE DEF F, w
  <2> QED BY <1>2, SummingExists
<1>4. F(G)
  <2> HIDE DEF F
  <2> QED BY <1>3
<1>5. Summing(G, w, SUBSET S)
  <2> HIDE DEF F, G, w
  <2> QED BY <1>2, <1>4
<1> QED BY <1>1, <1>5 DEF Sizes

(* And the time that packets have waited.                                  *)
LEMMA WaitSumSums ==
  ASSUME NEW S, IsFiniteSet(S), NEW U, S \subseteq U, NEW now, NEW paused
  PROVE  \E g : /\ Summing(g, Waits(now, paused, U), SUBSET S)
               /\ WaitSum(now, paused, S) = g[S]
<1> DEFINE w == [p \in U |-> now - p.enqueue_time - paused]
           F(g) == g = [s \in SUBSET S |->
                          IF s = {} THEN 0 ELSE LET x == CHOOSE x \in s : TRUE
                                                IN (now - x.enqueue_time - paused) + g[s \ {x}]]
           G == CHOOSE g : F(g)
<1>1. WaitSum(now, paused, S) = G[S] BY DEF WaitSum, MapThenSumSet, MapThenFoldSet
<1>2. ASSUME NEW g PROVE F(g) <=> Summing(g, w, SUBSET S)
  <2>1. \A s \in SUBSET S : s # {} => w[Picked(s)] = now - (Picked(s)).enqueue_time - paused
    <3> SUFFICES ASSUME NEW s \in SUBSET S, s # {}
                 PROVE  w[Picked(s)] = now - (Picked(s)).enqueue_time - paused OBVIOUS
    <3>1. Picked(s) \in U BY DEF Picked
    <3> QED BY <3>1
  <2>2. [s \in SUBSET S |-> IF s = {} THEN 0 ELSE w[Picked(s)] + g[s \ {Picked(s)}]]
        = [s \in SUBSET S |-> IF s = {} THEN 0
                              ELSE (now - (Picked(s)).enqueue_time - paused) + g[s \ {Picked(s)}]]
    <3> HIDE DEF w
    <3> QED BY <2>1
  <2>3. F(g) <=> g = [s \in SUBSET S |-> IF s = {} THEN 0
                          ELSE (now - (Picked(s)).enqueue_time - paused) + g[s \ {Picked(s)}]]
    BY DEF Picked
  <2> QED BY <2>2, <2>3 DEF Summing
<1>3. \E g : F(g)
  <2> HIDE DEF F, w
  <2> QED BY <1>2, SummingExists
<1>4. F(G)
  <2> HIDE DEF F
  <2> QED BY <1>3
<1>5. Summing(G, w, SUBSET S)
  <2> HIDE DEF F, G, w
  <2> QED BY <1>2, <1>4
<1> QED BY <1>1, <1>5 DEF Waits

(* If every element weighs d more, the sum is d more for each.             *)
LEMMA SummingShifts ==
  ASSUME NEW S, IsFiniteSet(S), NEW R, S \subseteq R, IsFiniteSet(R),
         NEW d \in Int, NEW w, NEW v,
         \A x \in R : w[x] \in Int, \A x \in S : v[x] = w[x] + d,
         NEW g, Summing(g, w, SUBSET R), NEW h, Summing(h, v, SUBSET S)
  PROVE  h[S] = g[S] + d * Cardinality(S)
<1>1. \A s \in SUBSET R : g[s] = IF s = {} THEN 0 ELSE w[Picked(s)] + g[s \ {Picked(s)}]
  BY DEF Summing
<1>2. \A s \in SUBSET S : h[s] = IF s = {} THEN 0 ELSE v[Picked(s)] + h[s \ {Picked(s)}]
  BY DEF Summing
<1> DEFINE Good(s) == h[s] = g[s] + d * Cardinality(s)
           T == {s \in SUBSET S : ~Good(s)}
           Smaller == StrictSubsetOrdering(S)
<1>3. T = {}
  <2>1. SUFFICES ASSUME T # {} PROVE FALSE OBVIOUS
  <2>2. PICK s \in T : \A u \in T : <<u, s>> \notin Smaller
    <3>1. IsWellFoundedOn(Smaller, SUBSET S)
      BY FS_StrictSubsetOrderingWellFounded, FS_FiniteSubsetsOfFinite
    <3>2. T \subseteq SUBSET S OBVIOUS
    <3> HIDE DEF Smaller, T
    <3> QED BY <2>1, <3>1, <3>2, WFMin
  <2>3. s \in SUBSET S /\ ~Good(s) OBVIOUS
  <2>4. CASE s = {}
    <3>1. Cardinality({}) = 0 BY FS_EmptySet
    <3>2. h[{}] = 0 /\ g[{}] = 0
      <4>1. {} \in SUBSET S /\ {} \in SUBSET R OBVIOUS
      <4> QED BY <1>1, <1>2, <4>1
    <3> QED BY <2>3, <2>4, <3>1, <3>2
  <2>5. CASE s # {}
    <3> DEFINE x == Picked(s)
               u == s \ {x}
    <3>1. x \in s BY <2>5 DEF Picked
    <3>2. u \in SUBSET S /\ u \in SUBSET R /\ <<u, s>> \in Smaller
      BY <2>3, <3>1 DEF StrictSubsetOrdering
    <3>3. Good(u)
      <4> HIDE DEF Good, u
      <4> QED BY <2>2, <3>2
    <3>4. h[s] = v[x] + h[u] /\ g[s] = w[x] + g[u] BY <1>1, <1>2, <2>3, <2>5
    <3>5. v[x] = w[x] + d /\ w[x] \in Int BY <2>3, <3>1
    <3>6. g[u] \in Int BY <3>2, SummingRemoves
    <3>7. /\ Cardinality(s) \in Nat /\ Cardinality(u) \in Nat
          /\ Cardinality(s) = Cardinality(u) + 1
      <4>1. IsFiniteSet(s) BY <2>3, FS_Subset
      <4>2. Cardinality(u) = Cardinality(s) - 1 /\ IsFiniteSet(u) BY <3>1, <4>1, FS_RemoveElement
      <4> QED BY <4>1, <4>2, FS_CardinalityType
    <3>8. Good(s)
      <4> DEFINE n == Cardinality(u)
                 a == g[u]
                 b == w[x]
      <4>1. d * (n + 1) = d * n + d
        <5> HIDE DEF n
        <5> QED BY <3>7 DEF n
      <4>2. h[s] = (b + d) + (a + d * n) BY <3>3, <3>4, <3>5
      <4>3. g[s] = b + a BY <3>4
      <4>4. d * n \in Int BY <3>7
      <4>5. Cardinality(s) = n + 1 BY <3>7
      <4>6. a \in Int /\ b \in Int BY <3>5, <3>6
      <4> HIDE DEF n, a, b, x, u
      <4> QED BY <4>1, <4>2, <4>3, <4>4, <4>5, <4>6
    <3> QED BY <3>8, <2>3
  <2> QED BY <2>4, <2>5
<1> QED BY <1>3

(* The sizes of all but one packet.                                        *)
LEMMA SizeSumRemoves ==
  ASSUME NEW S, IsFiniteSet(S), \A p \in S : p.size \in Int
  PROVE  /\ SizeSum(S) \in Int /\ SizeSum({}) = 0
         /\ \A x \in S : SizeSum(S) = x.size + SizeSum(S \ {x})
<1> DEFINE w == Sizes(S)
<1>1. \A x \in S : w[x] = x.size /\ w[x] \in Int BY DEF Sizes
<1>2. PICK g : Summing(g, w, SUBSET S) /\ SizeSum(S) = g[S]
  <2> QED BY SizeSumSums
<1>3. ASSUME NEW u \in SUBSET S PROVE SizeSum(u) = g[u]
  <2>1. IsFiniteSet(u) BY FS_Subset
  <2>2. PICK h : Summing(h, w, SUBSET u) /\ SizeSum(u) = h[u]
    <3> QED BY <2>1, SizeSumSums
  <2>3. \A x \in u : w[x] = w[x] + 0 BY <1>1
  <2>4. h[u] = g[u] + 0 * Cardinality(u)
    <3> HIDE DEF w
    <3> QED BY <1>1, <1>2, <2>1, <2>2, <2>3, SummingShifts
  <2>5. g[u] \in Int /\ Cardinality(u) \in Nat
    <3> HIDE DEF w
    <3> QED BY <1>1, <1>2, <2>1, SummingRemoves, FS_CardinalityType
  <2> QED BY <2>2, <2>4, <2>5
<1>4. g[S] \in Int /\ g[{}] = 0 /\ \A x \in S : g[S] = w[x] + g[S \ {x}]
  <2>1. S \in SUBSET S OBVIOUS
  <2>2. \A x \in S : w[x] \in Int BY <1>1
  <2>3. Summing(g, w, SUBSET S) BY <1>2
  <2>4. g[{}] = 0 BY <2>2, <2>3, SummingRemoves
  <2>5. g[S] \in Int BY <2>1, <2>2, <2>3, SummingRemoves
  <2>6. \A x \in S : g[S] = w[x] + g[S \ {x}] BY <2>1, <2>2, <2>3, SummingRemoves
  <2> QED BY <2>4, <2>5, <2>6
<1>5. \A x \in S : SizeSum(S \ {x}) = g[S \ {x}] BY <1>3
<1>6. SizeSum({}) = g[{}] BY <1>3
<1> QED BY <1>1, <1>2, <1>4, <1>5, <1>6

(* The waits of all but one packet.                                        *)
LEMMA WaitSumRemoves ==
  ASSUME NEW S, IsFiniteSet(S), \A p \in S : p.enqueue_time \in Int,
         NEW now \in Int, NEW paused \in Int
  PROVE  /\ WaitSum(now, paused, S) \in Int /\ WaitSum(now, paused, {}) = 0
         /\ \A x \in S : WaitSum(now, paused, S) =
                            (now - x.enqueue_time - paused) + WaitSum(now, paused, S \ {x})
<1> DEFINE w == Waits(now, paused, S)
<1>1. \A x \in S : w[x] = now - x.enqueue_time - paused /\ w[x] \in Int BY DEF Waits
<1>2. PICK g : Summing(g, w, SUBSET S) /\ WaitSum(now, paused, S) = g[S]
  <2> QED BY WaitSumSums
<1>3. ASSUME NEW u \in SUBSET S PROVE WaitSum(now, paused, u) = g[u]
  <2>1. IsFiniteSet(u) BY FS_Subset
  <2>2. PICK h : Summing(h, w, SUBSET u) /\ WaitSum(now, paused, u) = h[u]
    <3> QED BY <2>1, WaitSumSums
  <2>3. \A x \in u : w[x] = w[x] + 0 BY <1>1
  <2>4. h[u] = g[u] + 0 * Cardinality(u)
    <3> HIDE DEF w
    <3> QED BY <1>1, <1>2, <2>1, <2>2, <2>3, SummingShifts
  <2>5. g[u] \in Int /\ Cardinality(u) \in Nat
    <3> HIDE DEF w
    <3> QED BY <1>1, <1>2, <2>1, SummingRemoves, FS_CardinalityType
  <2> QED BY <2>2, <2>4, <2>5
<1>4. g[S] \in Int /\ g[{}] = 0 /\ \A x \in S : g[S] = w[x] + g[S \ {x}]
  <2>1. S \in SUBSET S OBVIOUS
  <2>2. \A x \in S : w[x] \in Int BY <1>1
  <2>3. Summing(g, w, SUBSET S) BY <1>2
  <2>4. g[{}] = 0 BY <2>2, <2>3, SummingRemoves
  <2>5. g[S] \in Int BY <2>1, <2>2, <2>3, SummingRemoves
  <2>6. \A x \in S : g[S] = w[x] + g[S \ {x}] BY <2>1, <2>2, <2>3, SummingRemoves
  <2> QED BY <2>4, <2>5, <2>6
<1>5. \A x \in S : WaitSum(now, paused, S \ {x}) = g[S \ {x}] BY <1>3
<1>6. WaitSum(now, paused, {}) = g[{}] BY <1>3
<1> QED BY <1>1, <1>2, <1>4, <1>5, <1>6

(* Time passes for all, unless it is a pause.                              *)
LEMMA WaitSumGrows ==
  ASSUME NEW S, IsFiniteSet(S), \A p \in S : p.enqueue_time \in Int,
         NEW now \in Int, NEW paused \in Int, NEW now2 \in Int, NEW paused2 \in Int
  PROVE  WaitSum(now2, paused2, S) =
           WaitSum(now, paused, S) + ((now2 - paused2) - (now - paused)) * Cardinality(S)
<1> DEFINE w == Waits(now, paused, S)
           v == Waits(now2, paused2, S)
           d == (now2 - paused2) - (now - paused)
<1>1. \A x \in S : w[x] \in Int /\ v[x] = w[x] + d BY DEF Waits
<1>2. PICK g : Summing(g, w, SUBSET S) /\ WaitSum(now, paused, S) = g[S]
  <2> QED BY WaitSumSums
<1>3. PICK h : Summing(h, v, SUBSET S) /\ WaitSum(now2, paused2, S) = h[S]
  <2> QED BY WaitSumSums
<1>4. d \in Int OBVIOUS
<1> HIDE DEF w, v, d
<1>5. h[S] = g[S] + d * Cardinality(S) BY <1>1, <1>2, <1>3, <1>4, SummingShifts
<1> QED BY <1>2, <1>3, <1>5 DEF d

-----------------------------------------------------------------------------
(* Sequences kept in order.                                                *)

(* r is s with e before what was at k.                                     *)
Inserts(r, s, k, e) ==
  /\ Len(r) = Len(s) + 1
  /\ \A i \in 1..Len(r) : r[i] = IF i < k THEN s[i] ELSE IF i = k THEN e ELSE s[i - 1]

(* SequencesExt's InsertAt does so.                                        *)
LEMMA InsertAtInserts ==
  ASSUME NEW S, NEW s \in Seq(S), NEW e \in S, NEW k \in 1..Len(s) + 1
  PROVE  InsertAt(s, k, e) \in Seq(S) /\ Inserts(InsertAt(s, k, e), s, k, e)
<1> DEFINE a == SubSeq(s, 1, k - 1)
           b == SubSeq(s, k, Len(s))
<1>1. a \in Seq(S) /\ Len(a) = k - 1 /\ \A i \in 1..k - 1 : a[i] = s[i]
  <2>1. \A i \in 1..k - 1 : s[i] \in S OBVIOUS
  <2>2. Len(a) = k - 1 OBVIOUS
  <2>3. \A i \in 1..k - 1 : a[i] = s[i] OBVIOUS
  <2>4. a \in Seq(S) BY <2>1
  <2> QED BY <2>2, <2>3, <2>4
<1>2. b \in Seq(S) /\ Len(b) = Len(s) + 1 - k /\ \A i \in 1..Len(b) : b[i] = s[k - 1 + i]
  <2>1. \A i \in k..Len(s) : s[i] \in S OBVIOUS
  <2>2. Len(b) = Len(s) + 1 - k OBVIOUS
  <2>3. \A i \in 1..Len(b) : b[i] = s[k - 1 + i] OBVIOUS
  <2>4. b \in Seq(S) BY <2>1
  <2> QED BY <2>2, <2>3, <2>4
<1>3. <<e>> \in Seq(S) /\ Len(<<e>>) = 1 /\ <<e>>[1] = e OBVIOUS
<1>4. InsertAt(s, k, e) = (a \o <<e>>) \o b BY DEF InsertAt
<1> HIDE DEF a, b
<1> DEFINE c == a \o <<e>>
<1>5. /\ c \in Seq(S) /\ Len(c) = k
      /\ \A i \in 1..k : c[i] = IF i < k THEN s[i] ELSE e
  BY <1>1, <1>3
<1> HIDE DEF c
<1>6. c \o b \in Seq(S) /\ Len(c \o b) = Len(s) + 1
  <2>1. c \o b \in Seq(S) BY <1>2, <1>5
  <2>2. Len(c \o b) = Len(c) + Len(b) BY <1>2, <1>5, ConcatProperties
  <2>3. Len(s) \in Nat OBVIOUS
  <2> QED BY <2>1, <2>2, <2>3, <1>2, <1>5
<1>7. \A i \in 1..Len(s) + 1 : (c \o b)[i] = IF i <= k THEN c[i] ELSE b[i - k]
  BY <1>2, <1>5
<1>8. \A i \in 1..Len(s) + 1 : (c \o b)[i] = IF i < k THEN s[i] ELSE IF i = k THEN e ELSE s[i - 1]
  <2> TAKE i \in 1..Len(s) + 1
  <2>0. (c \o b)[i] = IF i <= k THEN c[i] ELSE b[i - k] BY <1>7
  <2>1. CASE i <= k
    <3>1. i \in 1..k BY <2>1
    <3>2. c[i] = IF i < k THEN s[i] ELSE e BY <3>1, <1>5
    <3> QED BY <2>0, <2>1, <3>2
  <2>2. CASE i > k
    <3>1. i - k \in 1..Len(b) /\ (k - 1) + (i - k) = i - 1 BY <2>2, <1>2
    <3>2. b[i - k] = s[i - 1] BY <3>1, <1>2
    <3>3. ~(i <= k) /\ ~(i < k) /\ i # k BY <2>2
    <3>4. (c \o b)[i] = s[i - 1]
      <4>1. (c \o b)[i] = b[i - k] BY <2>0, <3>3, Zenon
      <4> QED BY <4>1, <3>2
    <3>5. (IF i < k THEN s[i] ELSE IF i = k THEN e ELSE s[i - 1]) = s[i - 1] BY <3>3, Zenon
    <3> QED BY <3>4, <3>5, Zenon
  <2>3. i <= k \/ i > k OBVIOUS
  <2> QED BY <2>1, <2>2, <2>3, Zenon
<1>9. InsertAt(s, k, e) = c \o b BY <1>4 DEF c
<1> QED BY <1>6, <1>8, <1>9 DEF Inserts

(* What is inserted is there, and nothing is lost.                         *)
LEMMA InsertsRange ==
  ASSUME NEW S, NEW s \in Seq(S), NEW e, NEW k \in 1..Len(s) + 1,
         NEW r \in Seq(S), Inserts(r, s, k, e)
  PROVE  Range(r) = Range(s) \cup {e}
<1>1. \A i \in 1..Len(s) + 1 : r[i] = IF i < k THEN s[i] ELSE IF i = k THEN e ELSE s[i - 1]
  BY DEF Inserts
<1>2. Len(r) = Len(s) + 1 BY DEF Inserts
<1>3. DOMAIN r = 1..Len(s) + 1 /\ DOMAIN s = 1..Len(s) BY <1>2
<1>4. ASSUME NEW x \in Range(r) PROVE x \in Range(s) \cup {e}
  <2>1. PICK i \in 1..Len(s) + 1 : x = r[i] BY <1>3 DEF Range
  <2>2. i < k => i \in 1..Len(s) OBVIOUS
  <2>3. i > k => i - 1 \in 1..Len(s) OBVIOUS
  <2>4. i < k \/ i = k \/ i > k OBVIOUS
  <2> QED BY <2>1, <2>2, <2>3, <2>4, <1>1, <1>3 DEF Range
<1>5. ASSUME NEW x \in Range(s) PROVE x \in Range(r)
  <2>1. PICK i \in 1..Len(s) : x = s[i] BY <1>3 DEF Range
  <2>2. CASE i < k
    <3>1. i \in 1..Len(s) + 1 /\ r[i] = x BY <2>1, <2>2, <1>1
    <3> QED BY <3>1, <1>3 DEF Range
  <2>3. CASE i >= k
    <3>1. i + 1 \in 1..Len(s) + 1 /\ ~(i + 1 < k) /\ i + 1 # k /\ (i + 1) - 1 = i BY <2>3
    <3>2. r[i + 1] = s[i] BY <3>1, <1>1
    <3> QED BY <2>1, <3>1, <3>2, <1>3 DEF Range
  <2> QED BY <2>2, <2>3
<1>6. e \in Range(r)
  <2>1. k \in 1..Len(s) + 1 /\ r[k] = e BY <1>1
  <2> QED BY <2>1, <1>3 DEF Range
<1> QED BY <1>4, <1>5, <1>6

(* Positions that reach down to the first are as many as the last of them. *)
LEMMA PrefixIsInterval ==
  ASSUME NEW n \in Nat, NEW C, C \subseteq 1..n,
         \A j \in C : \A i \in 1..n : i < j => i \in C
  PROVE  Cardinality(C) \in 0..n /\ C = 1..Cardinality(C)
<1> DEFINE T == {i \in Nat : i \notin C /\ i >= 1}
<1>1. n + 1 \in T OBVIOUS
<1>2. PICK m \in T : \A i \in T : m <= i BY <1>1, LeastOf
<1>3. m \in Nat /\ m >= 1 /\ m \notin C /\ m <= n + 1 BY <1>1, <1>2
<1>4. \A i \in 1..m - 1 : i \in C
  <2> TAKE i \in 1..m - 1
  <2>1. i \in Nat /\ i >= 1 /\ ~(m <= i) BY <1>3
  <2> QED BY <2>1, <1>2
<1>5. \A j \in C : j \in 1..m - 1
  <2> TAKE j \in C
  <2>1. j \in 1..n /\ j # m BY <1>3
  <2>2. ~(m < j)
    <3>1. SUFFICES ASSUME m < j PROVE FALSE OBVIOUS
    <3>2. m \in 1..n BY <1>3, <2>1, <3>1
    <3> QED BY <3>1, <3>2, <1>3
  <2> QED BY <2>1, <2>2, <1>3
<1>6. C = 1..m - 1 BY <1>4, <1>5
<1>7. Cardinality(1..m - 1) = m - 1
  <2>1. 1 \in Int /\ m - 1 \in Int BY <1>3
  <2>2. Cardinality(1..m - 1) = IF 1 > m - 1 THEN 0 ELSE (m - 1) - 1 + 1 BY <2>1, FS_Interval
  <2> QED BY <2>2, <1>3
<1> QED BY <1>3, <1>6, <1>7

(* A tail, and a sequence without one of its elements.                     *)
LEMMA TailFacts ==
  ASSUME NEW S, NEW s \in Seq(S), s # <<>>
  PROVE  /\ Tail(s) \in Seq(S) /\ Len(Tail(s)) = Len(s) - 1
         /\ \A i \in 1..Len(s) - 1 : Tail(s)[i] = s[i + 1]
         /\ Range(s) = Range(Tail(s)) \cup {s[1]} /\ s[1] \in S
<1>1. Tail(s) \in Seq(S) /\ Len(Tail(s)) = Len(s) - 1 OBVIOUS
<1>2. \A i \in 1..Len(s) - 1 : Tail(s)[i] = s[i + 1] OBVIOUS
<1>3. Len(s) \in Nat /\ Len(s) >= 1 /\ DOMAIN s = 1..Len(s) /\ s[1] \in S OBVIOUS
<1>4. DOMAIN Tail(s) = 1..Len(s) - 1 BY <1>1
<1> DEFINE t == Tail(s)
<1> HIDE DEF t
<1>5. ASSUME NEW x \in Range(s) PROVE x \in Range(t) \cup {s[1]}
  <2>1. PICK i \in 1..Len(s) : x = s[i] BY <1>3 DEF Range
  <2>2. CASE i = 1 BY <2>1, <2>2
  <2>3. CASE i # 1
    <3>1. i - 1 \in 1..Len(s) - 1 /\ (i - 1) + 1 = i BY <2>3, <1>3
    <3>2. t[i - 1] = s[i] BY <3>1, <1>2 DEF t
    <3>3. i - 1 \in DOMAIN t BY <3>1, <1>4 DEF t
    <3> QED BY <3>2, <3>3, <2>1 DEF Range
  <2> QED BY <2>2, <2>3
<1>6. ASSUME NEW x \in Range(t) PROVE x \in Range(s)
  <2>1. PICK i \in 1..Len(s) - 1 : x = t[i] BY <1>4 DEF Range, t
  <2>2. x = s[i + 1] /\ i + 1 \in 1..Len(s) BY <2>1, <1>2, <1>3 DEF t
  <2> QED BY <2>2, <1>3 DEF Range
<1>7. s[1] \in Range(s) BY <1>3 DEF Range
<1>8. Range(s) = Range(t) \cup {s[1]} BY <1>5, <1>6, <1>7
<1> QED BY <1>1, <1>2, <1>3, <1>8 DEF t

(* SequencesExt's RemoveAt, by position.                                   *)
LEMMA RemoveAtFacts ==
  ASSUME NEW S, NEW s \in Seq(S), NEW k \in 1..Len(s)
  PROVE  /\ RemoveAt(s, k) \in Seq(S) /\ Len(RemoveAt(s, k)) = Len(s) - 1
         /\ \A i \in 1..Len(s) - 1 : RemoveAt(s, k)[i] = s[IF i < k THEN i ELSE i + 1]
<1> DEFINE a == SubSeq(s, 1, k - 1)
           b == SubSeq(s, k + 1, Len(s))
<1>1. a \in Seq(S) /\ Len(a) = k - 1 /\ \A i \in 1..k - 1 : a[i] = s[i]
  <2>1. \A i \in 1..k - 1 : s[i] \in S OBVIOUS
  <2>2. Len(a) = k - 1 OBVIOUS
  <2>3. \A i \in 1..k - 1 : a[i] = s[i] OBVIOUS
  <2>4. a \in Seq(S) BY <2>1
  <2> QED BY <2>2, <2>3, <2>4
<1>2. b \in Seq(S) /\ Len(b) = Len(s) - k /\ \A i \in 1..Len(b) : b[i] = s[k + i]
  <2>1. \A i \in k + 1..Len(s) : s[i] \in S OBVIOUS
  <2>2. Len(b) = Len(s) - k OBVIOUS
  <2>3. \A i \in 1..Len(b) : b[i] = s[k + i] OBVIOUS
  <2>4. b \in Seq(S) BY <2>1
  <2> QED BY <2>2, <2>3, <2>4
<1>3. RemoveAt(s, k) = a \o b BY DEF RemoveAt
<1> HIDE DEF a, b
<1>4. a \o b \in Seq(S) /\ Len(a \o b) = Len(s) - 1
  <2>1. a \o b \in Seq(S) BY <1>1, <1>2
  <2>2. Len(a \o b) = Len(a) + Len(b) BY <1>1, <1>2, ConcatProperties
  <2>3. Len(s) \in Nat OBVIOUS
  <2> QED BY <2>1, <2>2, <2>3, <1>1, <1>2
<1>5. \A i \in 1..Len(s) - 1 : (a \o b)[i] = IF i < k THEN a[i] ELSE b[i - (k - 1)] BY <1>1, <1>2
<1>6. \A i \in 1..Len(s) - 1 : (a \o b)[i] = s[IF i < k THEN i ELSE i + 1]
  <2> TAKE i \in 1..Len(s) - 1
  <2>1. CASE i < k BY <2>1, <1>1, <1>5
  <2>2. CASE ~(i < k)
    <3>1. i - (k - 1) \in 1..Len(b) /\ k + (i - (k - 1)) = i + 1 BY <2>2, <1>2
    <3>2. b[i - (k - 1)] = s[i + 1] BY <3>1, <1>2
    <3> QED BY <2>2, <3>2, <1>5
  <2> QED BY <2>1, <2>2
<1> QED BY <1>3, <1>4, <1>6

-----------------------------------------------------------------------------
(* The pacer's queue.                                                      *)
Types == {"audio", "retransmission", "video", "padding"}

Packets ==
  [type : Types, ssrc : Ssrcs, seq : 0..SeqSpan - 1, marker : BOOLEAN, size : Nat,
   priority : Nat, order : Nat, enqueue_time : Nat]

Keys == [priority : Nat, size : Int, ssrc : Ssrcs]

Queues ==
  [streams : [Ssrcs -> [size : Int, packets : Seq(Packets)]],
   stream_priorities : Seq(Keys), single : Seq(Packets), size_packets : Nat,
   size : Int, max_size : Int, queue_time_sum : Int, pause_time_sum : Nat,
   time_last_updated : Nat, paused : BOOLEAN]

(* A queue of a stream, and the map of the streams, in order.              *)
InOrder(ps) == \A i, j \in DOMAIN ps : i < j => PacketLess(ps[i], ps[j])

KeysInOrder(keys) ==
  \A i, j \in DOMAIN keys : i < j => /\ keys[i].ssrc # keys[j].ssrc
                                     /\ ~KeyLess(keys[j], keys[i])

(* A packet takes its place in the queue of its stream.                    *)
LEMMA PacketInsertedFacts ==
  ASSUME NEW ps \in Seq(Packets), InOrder(ps), NEW p \in Packets,
         \A i \in DOMAIN ps : ps[i].order < p.order
  PROVE  LET r == PacketInserted(ps, p)
         IN /\ r \in Seq(Packets) /\ r # <<>> /\ InOrder(r)
            /\ Range(r) = Range(ps) \cup {p}
            /\ r[1] = IF ps = <<>> THEN p ELSE IF p.priority < ps[1].priority THEN p ELSE ps[1]
<1> DEFINE C == {i \in DOMAIN ps : ~PacketLess(p, ps[i])}
           k == Cardinality(C) + 1
           r == PacketInserted(ps, p)
<1>1. DOMAIN ps = 1..Len(ps) /\ Len(ps) \in Nat OBVIOUS
<1>2. \A i \in DOMAIN ps : /\ ps[i] \in Packets /\ ps[i].priority \in Nat
                           /\ ps[i].order \in Nat
  <2>1. \A i \in DOMAIN ps : ps[i] \in Packets OBVIOUS
  <2> QED BY <2>1 DEF Packets
<1>40. p.priority \in Nat /\ p.order \in Nat BY DEF Packets
<1>3. \A i \in DOMAIN ps : PacketLess(p, ps[i]) <=> p.priority < ps[i].priority
  BY <1>40, <1>2 DEF PacketLess
<1>4. \A i, j \in DOMAIN ps : i < j => ps[i].priority <= ps[j].priority
  <2> SUFFICES ASSUME NEW i \in DOMAIN ps, NEW j \in DOMAIN ps, i < j
               PROVE  ps[i].priority <= ps[j].priority OBVIOUS
  <2>1. PacketLess(ps[i], ps[j]) BY DEF InOrder
  <2> QED BY <2>1, <1>2 DEF PacketLess
<1>5. Cardinality(C) \in 0..Len(ps) /\ C = 1..Cardinality(C)
  <2>1. C \subseteq 1..Len(ps) BY <1>1
  <2>2. \A j \in C : \A i \in 1..Len(ps) : i < j => i \in C
    <3> SUFFICES ASSUME NEW j \in C, NEW i \in 1..Len(ps), i < j PROVE i \in C OBVIOUS
    <3>1. ps[i].priority <= ps[j].priority BY <1>1, <1>4
    <3>2. ~(p.priority < ps[j].priority) BY <1>3
    <3>3. ~(p.priority < ps[i].priority) BY <3>1, <3>2, <1>40, <1>1, <1>2
    <3> QED BY <3>3, <1>1, <1>3
  <2> HIDE DEF C
  <2> QED BY <1>1, <2>1, <2>2, PrefixIsInterval
<1>6. k \in 1..Len(ps) + 1 BY <1>1, <1>5
<1>7. \A i \in 1..Len(ps) : /\ i < k => ps[i].priority <= p.priority
                            /\ i >= k => p.priority < ps[i].priority
  <2> TAKE i \in 1..Len(ps)
  <2>1. i < k <=> i \in C
    <3> HIDE DEF C
    <3> QED BY <1>5, <1>1
  <2>2. i \in C <=> ~(p.priority < ps[i].priority) BY <1>1, <1>3
  <2>3. p.priority \in Nat /\ ps[i].priority \in Nat BY <1>1, <1>2 DEF Packets
  <2>4. k \in Int BY <1>6
  <2> HIDE DEF C, k
  <2> QED BY <2>1, <2>2, <2>3, <2>4
<1>8. r = InsertAt(ps, k, p) BY DEF PacketInserted
<1> HIDE DEF k, C
<1>9. r \in Seq(Packets) /\ Inserts(r, ps, k, p) BY <1>6, <1>8, InsertAtInserts
<1> HIDE DEF r
<1>10. Range(r) = Range(ps) \cup {p} BY <1>6, <1>9, InsertsRange
<1>11. /\ DOMAIN r = 1..Len(ps) + 1
       /\ \A i \in 1..Len(ps) + 1 : r[i] = IF i < k THEN ps[i] ELSE IF i = k THEN p ELSE ps[i - 1]
  <2>1. Len(r) = Len(ps) + 1 BY <1>9 DEF Inserts
  <2>2. DOMAIN r = 1..Len(r) BY <1>9
  <2> QED BY <2>1, <2>2, <1>9 DEF Inserts
<1>12. ASSUME NEW i \in DOMAIN r, NEW j \in DOMAIN r, i < j PROVE PacketLess(r[i], r[j])
  <2>1. i \in 1..Len(ps) + 1 /\ j \in 1..Len(ps) + 1 BY <1>11
  <2>2. CASE j < k
    <3>1. i \in DOMAIN ps /\ j \in DOMAIN ps /\ i < k BY <2>1, <2>2, <1>1, <1>6, <1>12
    <3>2. r[i] = ps[i] /\ r[j] = ps[j] BY <2>1, <2>2, <3>1, <1>11
    <3> QED BY <3>1, <3>2, <1>12 DEF InOrder
  <2>3. CASE j = k
    <3>1. i < k /\ i \in 1..Len(ps) BY <2>1, <2>3, <1>6, <1>12
    <3>2. r[i] = ps[i] /\ r[j] = p BY <2>1, <2>3, <3>1, <1>11
    <3>3. ps[i].priority <= p.priority /\ ps[i].order < p.order BY <3>1, <1>1, <1>7
    <3>4. ps[i] \in Packets BY <3>1, <1>1, <1>2
    <3> QED BY <3>2, <3>3, <3>4 DEF PacketLess, Packets
  <2>4. CASE i = k
    <3>1. ~(j < k) /\ j # k /\ j - 1 \in 1..Len(ps) /\ j - 1 >= k BY <2>1, <2>4, <1>6, <1>12
    <3>2. r[j] = ps[j - 1] BY <2>1, <3>1, <1>11
    <3>3. r[i] = p BY <2>1, <2>4, <1>11, <1>6
    <3>4. p.priority < ps[j - 1].priority BY <3>1, <1>7
    <3> QED BY <3>2, <3>3, <3>4 DEF PacketLess
  <2>5. CASE i < k /\ j > k
    <3>1. /\ ~(j < k) /\ j # k /\ j - 1 \in 1..Len(ps) /\ j - 1 >= k
          /\ i \in 1..Len(ps)
      BY <2>1, <2>5, <1>6, <1>12
    <3>2. r[j] = ps[j - 1] /\ r[i] = ps[i] BY <2>1, <2>5, <3>1, <1>11
    <3>3. i < j - 1 BY <2>1, <2>5, <3>1, <1>6
    <3> QED BY <3>1, <3>2, <3>3, <1>1 DEF InOrder
  <2>6. CASE i > k
    <3>1. /\ ~(j < k) /\ j # k /\ j - 1 \in 1..Len(ps)
          /\ ~(i < k) /\ i # k /\ i - 1 \in 1..Len(ps) /\ i - 1 < j - 1
      BY <2>1, <2>6, <1>6, <1>12
    <3>2. r[j] = ps[j - 1] /\ r[i] = ps[i - 1] BY <2>1, <3>1, <1>11
    <3> QED BY <3>1, <3>2, <1>1 DEF InOrder
  <2>7. j < k \/ j = k \/ i = k \/ (i < k /\ j > k) \/ i > k BY <2>1, <1>6
  <2> QED BY <2>2, <2>3, <2>4, <2>5, <2>6, <2>7
<1>13. InOrder(r) BY <1>12 DEF InOrder
<1>14. r[1] = IF ps = <<>> THEN p ELSE IF p.priority < ps[1].priority THEN p ELSE ps[1]
  <2>1. 1 \in 1..Len(ps) + 1 BY <1>1
  <2>2. CASE ps = <<>>
    <3>1. Len(ps) = 0 BY <2>2
    <3>2. k = 1 BY <3>1, <1>6
    <3> QED BY <2>1, <2>2, <3>2, <1>11
  <2>3. CASE ps # <<>>
    <3>1. 1 \in 1..Len(ps) BY <2>3, <1>1
    <3>2. ps[1].priority \in Nat /\ p.priority \in Nat BY <3>1, <1>1, <1>2 DEF Packets
    <3>3. CASE p.priority < ps[1].priority
      <4>1. ~(1 < k) /\ 1 = k BY <3>1, <3>2, <3>3, <1>6, <1>7
      <4>2. r[1] = p BY <4>1, <2>1, <1>11
      <4> QED BY <4>2, <2>3, <3>3
    <3>4. CASE ~(p.priority < ps[1].priority)
      <4>1. 1 < k BY <3>1, <3>4, <1>6, <1>7
      <4>2. r[1] = ps[1] BY <4>1, <2>1, <1>11
      <4> QED BY <4>2, <2>3, <3>4
    <3> QED BY <3>3, <3>4
  <2> QED BY <2>2, <2>3
<1>15. r # <<>> BY <1>11, <1>1, <1>9
<1> QED BY <1>9, <1>10, <1>13, <1>14, <1>15 DEF r

(* A stream takes its place in the map of the streams.                     *)
LEMMA KeyInsertedFacts ==
  ASSUME NEW keys \in Seq(Keys), KeysInOrder(keys), NEW key \in Keys,
         \A i \in DOMAIN keys : keys[i].ssrc # key.ssrc
  PROVE  LET r == KeyInserted(keys, key)
         IN /\ r \in Seq(Keys) /\ r # <<>> /\ KeysInOrder(r)
            /\ Range(r) = Range(keys) \cup {key}
<1> DEFINE C == {i \in DOMAIN keys : ~KeyLess(key, keys[i])}
           k == Cardinality(C) + 1
           r == KeyInserted(keys, key)
<1>1. DOMAIN keys = 1..Len(keys) /\ Len(keys) \in Nat OBVIOUS
<1>2. \A i \in DOMAIN keys : keys[i] \in Keys OBVIOUS
<1>3. Cardinality(C) \in 0..Len(keys) /\ C = 1..Cardinality(C)
  <2>1. C \subseteq 1..Len(keys) BY <1>1
  <2>2. \A j \in C : \A i \in 1..Len(keys) : i < j => i \in C
    <3> SUFFICES ASSUME NEW j \in C, NEW i \in 1..Len(keys), i < j PROVE i \in C OBVIOUS
    <3>1. ~KeyLess(keys[j], keys[i]) BY <1>1 DEF KeysInOrder
    <3>2. ~KeyLess(key, keys[j]) OBVIOUS
    <3>3. keys[i] \in Keys /\ keys[j] \in Keys BY <1>1, <1>2
    <3>4. ~KeyLess(key, keys[i]) BY SMTT(40), <3>1, <3>2, <3>3 DEF KeyLess, Keys
    <3> QED BY <3>4, <1>1
  <2> HIDE DEF C
  <2> QED BY <1>1, <2>1, <2>2, PrefixIsInterval
<1>4. k \in 1..Len(keys) + 1 BY <1>1, <1>3
<1>5. \A i \in 1..Len(keys) : /\ i < k => ~KeyLess(key, keys[i])
                              /\ i >= k => ~KeyLess(keys[i], key)
  <2> TAKE i \in 1..Len(keys)
  <2>1. i < k <=> i \in C
    <3> HIDE DEF C
    <3> QED BY <1>3, <1>1
  <2>2. i \in C <=> ~KeyLess(key, keys[i]) BY <1>1
  <2>3. KeyLess(key, keys[i]) => ~KeyLess(keys[i], key) BY <1>1, <1>2 DEF KeyLess, Keys
  <2>4. k \in Int BY <1>4
  <2> HIDE DEF C, k
  <2> QED BY <2>1, <2>2, <2>3, <2>4
<1>6. r = InsertAt(keys, k, key) BY DEF KeyInserted
<1> HIDE DEF k, C
<1>7. r \in Seq(Keys) /\ Inserts(r, keys, k, key) BY <1>4, <1>6, InsertAtInserts
<1> HIDE DEF r
<1>8. Range(r) = Range(keys) \cup {key} BY <1>4, <1>7, InsertsRange
<1>9. /\ DOMAIN r = 1..Len(keys) + 1
      /\ \A i \in 1..Len(keys) + 1 :
           r[i] = IF i < k THEN keys[i] ELSE IF i = k THEN key ELSE keys[i - 1]
  <2>1. Len(r) = Len(keys) + 1 BY <1>7 DEF Inserts
  <2>2. DOMAIN r = 1..Len(r) BY <1>7
  <2> QED BY <2>1, <2>2, <1>7 DEF Inserts
<1> DEFINE Fits(a, b) == a.ssrc # b.ssrc /\ ~KeyLess(b, a)
<1>10. \A i, j \in 1..Len(keys) : i < j => Fits(keys[i], keys[j]) BY <1>1 DEF KeysInOrder
<1>11. \A i \in 1..Len(keys) : (i < k => Fits(keys[i], key)) /\ (i >= k => Fits(key, keys[i]))
  BY <1>1, <1>5
<1>12. ASSUME NEW i \in DOMAIN r, NEW j \in DOMAIN r, i < j PROVE Fits(r[i], r[j])
  <2> HIDE DEF Fits
  <2>1. i \in 1..Len(keys) + 1 /\ j \in 1..Len(keys) + 1 BY <1>9
  <2>2. CASE j < k
    <3>1. i \in 1..Len(keys) /\ j \in 1..Len(keys) /\ i < k BY <2>1, <2>2, <1>1, <1>4, <1>12
    <3>2. r[i] = keys[i] /\ r[j] = keys[j] BY <2>1, <2>2, <3>1, <1>9
    <3> QED BY <3>1, <3>2, <1>10, <1>12
  <2>3. CASE j = k
    <3>1. i < k /\ i \in 1..Len(keys) BY <2>1, <2>3, <1>4, <1>12
    <3>2. r[i] = keys[i] /\ r[j] = key BY <2>1, <2>3, <3>1, <1>9
    <3> QED BY <3>1, <3>2, <1>11
  <2>4. CASE i = k
    <3>1. ~(j < k) /\ j # k /\ j - 1 \in 1..Len(keys) /\ j - 1 >= k BY <2>1, <2>4, <1>4, <1>12
    <3>2. r[j] = keys[j - 1] BY <2>1, <3>1, <1>9
    <3>3. r[i] = key BY <2>1, <2>4, <1>9, <1>4
    <3> QED BY <3>1, <3>2, <3>3, <1>11
  <2>5. CASE i < k /\ j > k
    <3>1. /\ ~(j < k) /\ j # k /\ j - 1 \in 1..Len(keys) /\ j - 1 >= k
          /\ i \in 1..Len(keys)
      BY <2>1, <2>5, <1>4, <1>12
    <3>2. r[j] = keys[j - 1] /\ r[i] = keys[i] BY <2>1, <2>5, <3>1, <1>9
    <3>3. i < j - 1 BY <2>1, <2>5, <3>1, <1>4
    <3> QED BY <3>1, <3>2, <3>3, <1>10
  <2>6. CASE i > k
    <3>1. /\ ~(j < k) /\ j # k /\ j - 1 \in 1..Len(keys)
          /\ ~(i < k) /\ i # k /\ i - 1 \in 1..Len(keys) /\ i - 1 < j - 1
      BY <2>1, <2>6, <1>4, <1>12
    <3>2. r[j] = keys[j - 1] /\ r[i] = keys[i - 1] BY <2>1, <3>1, <1>9
    <3> QED BY <3>1, <3>2, <1>10
  <2>7. j < k \/ j = k \/ i = k \/ (i < k /\ j > k) \/ i > k BY <2>1, <1>4
  <2> QED BY <2>2, <2>3, <2>4, <2>5, <2>6, <2>7
<1>13. KeysInOrder(r) BY <1>12 DEF KeysInOrder
<1>14. r # <<>> BY <1>9, <1>1, <1>7
<1> QED BY <1>7, <1>8, <1>13, <1>14 DEF r

(* The map without one of its keys.                                        *)
LEMMA KeyRemovedFacts ==
  ASSUME NEW keys \in Seq(Keys), KeysInOrder(keys), NEW k \in DOMAIN keys
  PROVE  LET r == RemoveAt(keys, k)
         IN /\ r \in Seq(Keys) /\ KeysInOrder(r)
            /\ Range(r) = {key \in Range(keys) : key.ssrc # keys[k].ssrc}
<1> DEFINE r == RemoveAt(keys, k)
           Old(i) == IF i < k THEN i ELSE i + 1
<1>1. DOMAIN keys = 1..Len(keys) /\ Len(keys) \in Nat /\ k \in 1..Len(keys) BY SMTT(40)
<1>2. r \in Seq(Keys) /\ Len(r) = Len(keys) - 1 /\ \A i \in 1..Len(keys) - 1 : r[i] = keys[Old(i)]
  BY <1>1, RemoveAtFacts
<1>3. DOMAIN r = 1..Len(keys) - 1 BY <1>2
<1> HIDE DEF r
<1>4. \A i \in 1..Len(keys) - 1 : Old(i) \in 1..Len(keys) /\ Old(i) # k BY <1>1
<1>5. \A i, j \in 1..Len(keys) - 1 : i < j => Old(i) < Old(j) BY <1>1
<1>6. \A i \in 1..Len(keys) : i # k => \E j \in 1..Len(keys) - 1 : Old(j) = i
  <2> SUFFICES ASSUME NEW i \in 1..Len(keys), i # k
               PROVE  \E j \in 1..Len(keys) - 1 : Old(j) = i OBVIOUS
  <2>1. CASE i < k
    <3>1. i \in 1..Len(keys) - 1 /\ Old(i) = i BY <2>1, <1>1
    <3> QED BY <3>1
  <2>2. CASE ~(i < k)
    <3>1. i - 1 \in 1..Len(keys) - 1 /\ Old(i - 1) = i BY <2>2, <1>1
    <3> QED BY <3>1
  <2> QED BY <2>1, <2>2
<1> HIDE DEF Old
<1>7. KeysInOrder(r)
  <2> SUFFICES ASSUME NEW i \in DOMAIN r, NEW j \in DOMAIN r, i < j
               PROVE  r[i].ssrc # r[j].ssrc /\ ~KeyLess(r[j], r[i]) BY DEF KeysInOrder
  <2>1. r[i] = keys[Old(i)] /\ r[j] = keys[Old(j)] BY <1>2, <1>3
  <2>2. Old(i) \in DOMAIN keys /\ Old(j) \in DOMAIN keys /\ Old(i) < Old(j) BY <1>1, <1>3, <1>4, <1>5
  <2> QED BY <2>1, <2>2 DEF KeysInOrder
<1>8. \A i, j \in DOMAIN keys : i # j => keys[i].ssrc # keys[j].ssrc
  <2> SUFFICES ASSUME NEW i \in DOMAIN keys, NEW j \in DOMAIN keys, i # j
               PROVE  keys[i].ssrc # keys[j].ssrc OBVIOUS
  <2>1. i < j \/ j < i BY <1>1
  <2> QED BY <2>1 DEF KeysInOrder
<1>9. Range(r) = {key \in Range(keys) : key.ssrc # keys[k].ssrc}
  <2>1. ASSUME NEW x \in Range(r) PROVE x \in Range(keys) /\ x.ssrc # keys[k].ssrc
    <3>1. PICK i \in 1..Len(keys) - 1 : x = r[i] BY <1>3 DEF Range
    <3>2. x = keys[Old(i)] /\ Old(i) \in DOMAIN keys /\ Old(i) # k BY <3>1, <1>1, <1>2, <1>4
    <3> QED BY <3>2, <1>1, <1>8 DEF Range
  <2>2. ASSUME NEW x \in Range(keys), x.ssrc # keys[k].ssrc PROVE x \in Range(r)
    <3>1. PICK i \in DOMAIN keys : x = keys[i] BY DEF Range
    <3>2. i # k BY <2>2, <3>1
    <3>3. PICK j \in 1..Len(keys) - 1 : Old(j) = i BY <3>1, <3>2, <1>1, <1>6
    <3>4. r[j] = x BY <3>1, <3>3, <1>2
    <3> QED BY <3>4, <1>3 DEF Range
  <2> QED BY <2>1, <2>2
<1> QED BY <1>2, <1>7, <1>9 DEF r

(* The map without its first stream.                                       *)
LEMMA KeyTailFacts ==
  ASSUME NEW keys \in Seq(Keys), KeysInOrder(keys), keys # <<>>
  PROVE  /\ Tail(keys) \in Seq(Keys) /\ KeysInOrder(Tail(keys)) /\ keys[1] \in Keys
         /\ Range(Tail(keys)) = {key \in Range(keys) : key.ssrc # keys[1].ssrc}
<1> DEFINE t == Tail(keys)
           r == RemoveAt(keys, 1)
<1>1. Len(keys) \in Nat /\ 1 \in 1..Len(keys) /\ 1 \in DOMAIN keys OBVIOUS
<1>2. t \in Seq(Keys) /\ Len(t) = Len(keys) - 1 /\ \A i \in 1..Len(keys) - 1 : t[i] = keys[i + 1]
  BY TailFacts
<1>3. /\ r \in Seq(Keys) /\ Len(r) = Len(keys) - 1
      /\ \A i \in 1..Len(keys) - 1 : r[i] = keys[IF i < 1 THEN i ELSE i + 1]
  BY <1>1, RemoveAtFacts
<1> HIDE DEF t, r
<1>4. \A i \in 1..Len(keys) - 1 : t[i] = r[i] BY SMTT(40), <1>2, <1>3
<1>5. t = r BY <1>2, <1>3, <1>4, SeqEqual
<1>6. /\ r \in Seq(Keys) /\ KeysInOrder(r)
      /\ Range(r) = {key \in Range(keys) : key.ssrc # keys[1].ssrc}
  BY <1>1, KeyRemovedFacts DEF r
<1>7. keys[1] \in Keys BY <1>1
<1> QED BY <1>5, <1>6, <1>7 DEF t

-----------------------------------------------------------------------------
(* The queue of each stream is in order, and a packet that is alone waits  *)
(* beside them.                                                            *)
Sorted(q) ==
  /\ \A s \in Ssrcs : /\ InOrder(q.streams[s].packets)
                      /\ \A i \in DOMAIN q.streams[s].packets : q.streams[s].packets[i].ssrc = s
  /\ q.single # <<>> => Len(q.single) = 1 /\ \A s \in Ssrcs : q.streams[s].packets = <<>>

(* The map lists the streams that have packets, in order.                  *)
Scheduled(q) ==
  /\ KeysInOrder(q.stream_priorities)
  /\ \A s \in Ssrcs : q.streams[s].packets # <<>>
                      <=> \E k \in Range(q.stream_priorities) : k.ssrc = s
  /\ \A k \in Range(q.stream_priorities) :
       /\ k.priority = q.streams[k.ssrc].packets[1].priority
       /\ k.size = q.streams[k.ssrc].size

(* The counters are those of the packets that are there.                   *)
Counted(q) ==
  /\ IsFiniteSet(QueuedPackets(q))
  /\ q.size_packets = Cardinality(QueuedPackets(q))
  /\ q.size = SizeSum(QueuedPackets(q))
  /\ q.queue_time_sum = WaitSum(q.time_last_updated, q.pause_time_sum, QueuedPackets(q))

(* Packets are numbered as they come, and come at times that only grow,    *)
(* whatever pauses are taken off them.                                     *)
Arrived(q, n) ==
  \A p, r \in QueuedPackets(q) :
    /\ p.order < n
    /\ p.priority = Priority(p.type)
    /\ p.order = r.order => p = r
    /\ p.order < r.order => p.enqueue_time <= r.enqueue_time

Timed(q, now) ==
  /\ q.pause_time_sum <= q.time_last_updated /\ q.time_last_updated <= now
  /\ \A p \in QueuedPackets(q) : p.enqueue_time <= q.time_last_updated - q.pause_time_sum

QueueOK(q, n, now) ==
  /\ q \in Queues
  /\ Sorted(q) /\ Scheduled(q) /\ Counted(q) /\ Arrived(q, n) /\ Timed(q, now)

(* The fields of a queue.                                                  *)
LEMMA QueueTypes ==
  ASSUME NEW q \in Queues
  PROVE  /\ q.streams \in [Ssrcs -> [size : Int, packets : Seq(Packets)]]
         /\ \A s \in Ssrcs : /\ q.streams[s] \in [size : Int, packets : Seq(Packets)]
                             /\ q.streams[s].packets \in Seq(Packets) /\ q.streams[s].size \in Int
         /\ q.stream_priorities \in Seq(Keys) /\ q.single \in Seq(Packets)
         /\ q.size_packets \in Nat /\ q.size \in Int /\ q.max_size \in Int
         /\ q.queue_time_sum \in Int /\ q.pause_time_sum \in Nat /\ q.time_last_updated \in Nat
         /\ q.paused \in BOOLEAN
<1>1. q.streams \in [Ssrcs -> [size : Int, packets : Seq(Packets)]] BY DEF Queues
<1>2. \A s \in Ssrcs : q.streams[s] \in [size : Int, packets : Seq(Packets)] BY <1>1
<1>3. \A s \in Ssrcs : q.streams[s].packets \in Seq(Packets) /\ q.streams[s].size \in Int BY <1>2
<1>4. /\ q.stream_priorities \in Seq(Keys) /\ q.single \in Seq(Packets)
      /\ q.size_packets \in Nat /\ q.size \in Int /\ q.max_size \in Int
      /\ q.queue_time_sum \in Int /\ q.pause_time_sum \in Nat /\ q.time_last_updated \in Nat
      /\ q.paused \in BOOLEAN
  BY DEF Queues
<1> QED BY <1>1, <1>2, <1>3, <1>4

(* What a sequence holds.                                                  *)
LEMMA RangeOfPackets ==
  ASSUME NEW S, NEW s \in Seq(S)
  PROVE  /\ Range(s) \subseteq S /\ Range(s) = {s[i] : i \in DOMAIN s}
         /\ Range(s) = {} <=> s = <<>>
         /\ s # <<>> => 1 \in DOMAIN s
<1>1. DOMAIN s = 1..Len(s) /\ Len(s) \in Nat OBVIOUS
<1>2. Range(s) \subseteq S BY <1>1 DEF Range
<1>3. Range(s) = {s[i] : i \in DOMAIN s} BY DEF Range
<1>4. s # <<>> => 1 \in DOMAIN s BY <1>1
<1>5. s = <<>> => Range(s) = {} BY DEF Range
<1>6. s # <<>> => Range(s) # {} BY <1>4 DEF Range
<1> QED BY <1>2, <1>3, <1>4, <1>5, <1>6

(* Where the packets of a queue are.                                       *)
LEMMA QueuedWhere ==
  ASSUME NEW q \in Queues
  PROVE  /\ QueuedPackets(q) \subseteq Packets
         /\ \A p : p \in QueuedPackets(q) <=>
              p \in Range(q.single) \/ \E s \in Ssrcs : p \in Range(q.streams[s].packets)
<1>1. \A p : p \in QueuedPackets(q) <=>
              p \in Range(q.single) \/ \E s \in Ssrcs : p \in Range(q.streams[s].packets)
  BY DEF QueuedPackets
<1>2. Range(q.single) \subseteq Packets BY QueueTypes, RangeOfPackets
<1>3. \A s \in Ssrcs : Range(q.streams[s].packets) \subseteq Packets BY QueueTypes, RangeOfPackets
<1> QED BY <1>1, <1>2, <1>3

(* A queue that counts no packet has none.                                 *)
LEMMA EmptyFacts ==
  ASSUME NEW q \in Queues, Counted(q)
  PROVE  /\ Empty(q) <=> QueuedPackets(q) = {}
         /\ Empty(q) => /\ q.size = 0 /\ q.queue_time_sum = 0 /\ q.single = <<>>
                        /\ \A s \in Ssrcs : q.streams[s].packets = <<>>
<1>1. Empty(q) <=> QueuedPackets(q) = {} BY FS_EmptySet DEF Counted, Empty
<1>2. ASSUME QueuedPackets(q) = {}
      PROVE  /\ q.size = 0 /\ q.queue_time_sum = 0 /\ q.single = <<>>
             /\ \A s \in Ssrcs : q.streams[s].packets = <<>>
  <2>1. q.size = SizeSum({}) /\ q.queue_time_sum = WaitSum(q.time_last_updated, q.pause_time_sum, {})
    BY <1>2 DEF Counted
  <2>2. SizeSum({}) = 0
    <3>1. IsFiniteSet({}) BY FS_EmptySet
    <3>2. \A p \in {} : p.size \in Int OBVIOUS
    <3> QED BY <3>1, <3>2, SizeSumRemoves
  <2>3. WaitSum(q.time_last_updated, q.pause_time_sum, {}) = 0
    <3>1. IsFiniteSet({}) BY FS_EmptySet
    <3>2. \A p \in {} : p.enqueue_time \in Int OBVIOUS
    <3>3. q.time_last_updated \in Int /\ q.pause_time_sum \in Int BY QueueTypes
    <3> QED BY <3>1, <3>2, <3>3, WaitSumRemoves
  <2>4. Range(q.single) = {} /\ \A s \in Ssrcs : Range(q.streams[s].packets) = {}
    BY <1>2 DEF QueuedPackets
  <2>5. q.single = <<>> BY <2>4, QueueTypes, RangeOfPackets
  <2>6. ASSUME NEW s \in Ssrcs PROVE q.streams[s].packets = <<>>
    <3>1. q.streams[s].packets \in Seq(Packets) BY QueueTypes
    <3>2. Range(q.streams[s].packets) = {} BY <2>4
    <3> QED BY <3>1, <3>2, RangeOfPackets
  <2> QED BY <2>1, <2>2, <2>3, <2>5, <2>6
<1> QED BY <1>1, <1>2

(* The packet at the top is the one to leave first.                        *)
LEMMA TopFacts ==
  ASSUME NEW q \in Queues, Sorted(q), Scheduled(q), QueuedPackets(q) # {}
  PROVE  /\ Top(q) \in QueuedPackets(q)
         /\ \A r \in QueuedPackets(q) :
              /\ Top(q).priority <= r.priority
              /\ r.priority = Top(q).priority /\ r.ssrc = Top(q).ssrc => Top(q).order <= r.order
         /\ q.single = <<>> =>
              /\ q.stream_priorities # <<>> /\ q.stream_priorities[1].ssrc = Top(q).ssrc
              /\ Top(q).ssrc \in Ssrcs /\ q.streams[Top(q).ssrc].packets # <<>>
              /\ Top(q) = q.streams[Top(q).ssrc].packets[1]
<1>1. CASE q.single # <<>>
  <2>1. /\ Len(q.single) = 1 /\ \A s \in Ssrcs : q.streams[s].packets = <<>> BY <1>1 DEF Sorted
  <2>2. q.single \in Seq(Packets) BY QueueTypes
  <2>3. Range(q.single) = {q.single[1]}
    <3>1. DOMAIN q.single = {1} BY <2>1, <2>2
    <3> QED BY <3>1 DEF Range
  <2>4. \A s \in Ssrcs : Range(q.streams[s].packets) = {} BY <2>1 DEF Range
  <2>5. QueuedPackets(q) = {q.single[1]} BY <2>3, <2>4 DEF QueuedPackets
  <2>6. Top(q) = q.single[1] BY <1>1 DEF Top
  <2>7. Top(q).priority \in Nat /\ Top(q).order \in Nat
    BY SMTT(40), <2>5, <2>6, QueuedWhere DEF Packets
  <2> QED BY <1>1, <2>5, <2>6, <2>7
<1>2. CASE q.single = <<>>
  <2> DEFINE keys == q.stream_priorities
             s1 == keys[1].ssrc
             ps == q.streams[s1].packets
  <2>1. keys \in Seq(Keys) BY QueueTypes
  <2>2. Range(q.single) = {} BY <1>2 DEF Range
  <2>3. keys # <<>>
    <3>1. PICK p : p \in QueuedPackets(q) OBVIOUS
    <3>2. PICK s \in Ssrcs : p \in Range(q.streams[s].packets) BY <3>1, <2>2, QueuedWhere
    <3>3. q.streams[s].packets # <<>> BY <3>2 DEF Range
    <3>4. Range(keys) # {} BY <3>3 DEF Scheduled
    <3> QED BY <3>4 DEF Range
  <2>4. 1 \in DOMAIN keys /\ keys[1] \in Range(keys) /\ keys[1] \in Keys
    <3>1. 1 \in DOMAIN keys BY <2>1, <2>3
    <3> QED BY <3>1, <2>1 DEF Range
  <2>5. s1 \in Ssrcs BY <2>4 DEF Keys
  <2>6. ps # <<>> /\ keys[1].priority = ps[1].priority BY <2>4, <2>5 DEF Scheduled
  <2>7. ps \in Seq(Packets) BY <2>5, QueueTypes
  <2>8. 1 \in DOMAIN ps /\ ps[1] \in Range(ps)
    <3> HIDE DEF ps
    <3> QED BY <2>6, <2>7, RangeOfPackets
  <2>9. Top(q) = ps[1] BY <1>2 DEF Top
  <2>10. ps[1].ssrc = s1 BY <2>5, <2>8 DEF Sorted
  <2>11. Top(q) \in QueuedPackets(q) BY <2>5, <2>8, <2>9, QueuedWhere
  <2>12. ps[1] \in Packets BY <2>9, <2>11, QueuedWhere
  <2>13. ASSUME NEW s \in Ssrcs, NEW i \in DOMAIN q.streams[s].packets
         PROVE  LET r == q.streams[s].packets[i]
                IN /\ ps[1].priority <= r.priority
                   /\ r.priority = ps[1].priority /\ r.ssrc = ps[1].ssrc => ps[1].order <= r.order
    <3> DEFINE rs == q.streams[s].packets
               r == rs[i]
    <3>1. rs \in Seq(Packets) BY QueueTypes
    <3>2. DOMAIN rs = 1..Len(rs) /\ Len(rs) \in Nat /\ i \in 1..Len(rs) /\ 1 \in 1..Len(rs) BY <3>1
    <3>3. r \in Packets /\ rs[1] \in Packets /\ rs # <<>> BY <3>1, <3>2
    <3>4. InOrder(rs) /\ r.ssrc = s BY DEF Sorted
    <3>5. i = 1 \/ PacketLess(rs[1], r)
      <4>1. i = 1 \/ 1 < i BY <3>2
      <4> QED BY <4>1, <3>2, <3>4 DEF InOrder
    <3>6. PICK k \in Range(keys) : k.ssrc = s BY <3>3 DEF Scheduled
    <3>7. k.priority = rs[1].priority BY <3>6 DEF Scheduled
    <3>8. PICK j \in DOMAIN keys : k = keys[j] BY DEF Range
    <3>9. j = 1 \/ ~KeyLess(keys[j], keys[1])
      <4>1. j = 1 \/ 1 < j BY <2>1
      <4> QED BY <4>1, <2>4 DEF Scheduled, KeysInOrder
    <3>10. keys[j] \in Keys BY <2>1
    <3>11. keys[1].priority <= keys[j].priority BY <2>4, <3>9, <3>10 DEF KeyLess, Keys
    <3>12. ps[1].priority <= rs[1].priority BY SMTT(40), <2>6, <3>7, <3>8, <3>11
    <3>13. /\ r.priority \in Nat /\ rs[1].priority \in Nat /\ ps[1].priority \in Nat
           /\ r.order \in Nat /\ rs[1].order \in Nat /\ ps[1].order \in Nat
      BY <3>3, <2>12 DEF Packets
    <3>14. rs[1].priority <= r.priority BY <3>5, <3>13 DEF PacketLess
    <3>15. ASSUME r.priority = ps[1].priority, r.ssrc = ps[1].ssrc PROVE ps[1].order <= r.order
      <4>1. rs = ps BY <3>15, <3>4, <2>10
      <4>2. i = 1 => r = ps[1] BY <4>1
      <4>3. PacketLess(rs[1], r) => ps[1].order < r.order
        <5>1. r.priority = rs[1].priority /\ ps[1].order = rs[1].order BY <4>1, <3>15
        <5> HIDE DEF r, rs, ps
        <5> QED BY <5>1, <3>13 DEF PacketLess
      <4> HIDE DEF r, rs, ps
      <4> QED BY <4>2, <4>3, <3>5, <3>13
    <3>16. ps[1].priority <= r.priority BY SMTT(40), <3>12, <3>13, <3>14
    <3> HIDE DEF ps, r
    <3>17. /\ ps[1].priority <= r.priority
           /\ r.priority = ps[1].priority /\ r.ssrc = ps[1].ssrc => ps[1].order <= r.order
      BY <3>15, <3>16
    <3> QED BY <3>17 DEF r
  <2>14. \A r \in QueuedPackets(q) :
            /\ ps[1].priority <= r.priority
            /\ r.priority = ps[1].priority /\ r.ssrc = ps[1].ssrc => ps[1].order <= r.order
    <3> SUFFICES ASSUME NEW r \in QueuedPackets(q)
                 PROVE  /\ ps[1].priority <= r.priority
                        /\ r.priority = ps[1].priority /\ r.ssrc = ps[1].ssrc
                           => ps[1].order <= r.order
      OBVIOUS
    <3>1. PICK s \in Ssrcs : r \in Range(q.streams[s].packets) BY <2>2, QueuedWhere
    <3>2. PICK i \in DOMAIN q.streams[s].packets : r = q.streams[s].packets[i] BY <3>1 DEF Range
    <3> QED BY SMTT(40), <3>2, <2>13
  <2> QED BY <1>2, <2>3, <2>5, <2>6, <2>9, <2>10, <2>11, <2>14
<1> QED BY <1>1, <1>2

(* What Sorted and Scheduled speak of.                                     *)
LEMMA SameLines ==
  ASSUME NEW q, NEW u, u.streams = q.streams, u.stream_priorities = q.stream_priorities,
         u.single = q.single
  PROVE  /\ QueuedPackets(u) = QueuedPackets(q) /\ Top(u) = Top(q)
         /\ Sorted(q) => Sorted(u)
         /\ Scheduled(q) => Scheduled(u)
<1>1. QueuedPackets(u) = QueuedPackets(q) BY DEF QueuedPackets
<1>2. Top(u) = Top(q) BY DEF Top
<1>3. Sorted(q) => Sorted(u) BY DEF Sorted
<1>4. Scheduled(q) => Scheduled(u) BY DEF Scheduled
<1> QED BY <1>1, <1>2, <1>3, <1>4

(* The clock of the queue moves on, and its packets stay.                  *)
LEMMA UpdateLeaves ==
  ASSUME NEW q \in Queues, NEW now
  PROVE  LET u == UpdateQueueTime(q, now)
         IN /\ QueuedPackets(u) = QueuedPackets(q) /\ Top(u) = Top(q)
            /\ u.size_packets = q.size_packets /\ u.size = q.size /\ u.single = q.single
            /\ u.time_last_updated = now
<1> DEFINE u == UpdateQueueTime(q, now)
<1>1. /\ u.streams = q.streams /\ u.stream_priorities = q.stream_priorities /\ u.single = q.single
      /\ u.size_packets = q.size_packets /\ u.size = q.size /\ u.time_last_updated = now
  BY DEF UpdateQueueTime, Queues
<1> HIDE DEF u
<1>2. QueuedPackets(u) = QueuedPackets(q) /\ Top(u) = Top(q) BY <1>1, SameLines
<1> QED BY <1>1, <1>2 DEF u

(* The queue keeps its accounts as time passes.                            *)
LEMMA UpdateFacts ==
  ASSUME NEW q, NEW n \in Nat, NEW before \in Nat, NEW now \in Nat, before <= now,
         QueueOK(q, n, before)
  PROVE  QueueOK(UpdateQueueTime(q, now), n, now)
<1> DEFINE u == UpdateQueueTime(q, now)
           delta == now - q.time_last_updated
<1>1. q \in Queues BY DEF QueueOK
<1>2. /\ q.size_packets \in Nat /\ q.queue_time_sum \in Int /\ q.pause_time_sum \in Nat
      /\ q.time_last_updated \in Nat /\ q.paused \in BOOLEAN
  BY <1>1, QueueTypes
<1>3. q.pause_time_sum <= q.time_last_updated /\ q.time_last_updated <= now
  BY <1>2 DEF QueueOK, Timed
<1>4. delta \in Nat BY <1>2, <1>3
<1>5. delta * q.size_packets \in Int BY <1>2, <1>4
<1>6. /\ u.streams = q.streams /\ u.stream_priorities = q.stream_priorities /\ u.single = q.single
      /\ u.size_packets = q.size_packets /\ u.size = q.size /\ u.max_size = q.max_size
      /\ u.paused = q.paused /\ u.time_last_updated = now
      /\ u.pause_time_sum = IF q.paused THEN q.pause_time_sum + delta ELSE q.pause_time_sum
      /\ u.queue_time_sum = IF q.paused THEN q.queue_time_sum
                            ELSE q.queue_time_sum + delta * q.size_packets
  BY <1>1 DEF UpdateQueueTime, Queues
<1>7. u \in Queues
  <2> DEFINE pts == IF q.paused THEN q.pause_time_sum + delta ELSE q.pause_time_sum
             qts == IF q.paused THEN q.queue_time_sum ELSE q.queue_time_sum + delta * q.size_packets
  <2>1. pts \in Nat BY <1>2, <1>4
  <2>2. qts \in Int
    <3> DEFINE x == delta * q.size_packets
    <3>1. x \in Int BY <1>5
    <3> HIDE DEF x
    <3>2. (IF q.paused THEN q.queue_time_sum ELSE q.queue_time_sum + x) \in Int BY <3>1, <1>2
    <3> QED BY <3>2 DEF x
  <2>3. u = [q EXCEPT !.time_last_updated = now, !.pause_time_sum = pts, !.queue_time_sum = qts]
    BY <1>1 DEF UpdateQueueTime, Queues
  <2> HIDE DEF pts, qts, u
  <2> QED BY <1>1, <2>1, <2>2, <2>3 DEF Queues
<1> HIDE DEF u, delta
<1>8. QueuedPackets(u) = QueuedPackets(q) /\ Top(u) = Top(q) /\ Sorted(u) /\ Scheduled(u)
  BY <1>6, SameLines DEF QueueOK
<1>9. u.time_last_updated - u.pause_time_sum =
        (q.time_last_updated - q.pause_time_sum) + (IF q.paused THEN 0 ELSE delta)
  BY <1>2, <1>4, <1>6 DEF delta
<1> DEFINE all == QueuedPackets(q)
           w == q.time_last_updated - q.pause_time_sum
<1>10. \A p \in all : p \in Packets /\ p.enqueue_time \in Nat BY <1>1, QueuedWhere DEF Packets
<1>11. Timed(u, now)
  <2>1. \A p \in all : p.enqueue_time <= w BY DEF QueueOK, Timed
  <2>2. \A p \in all : p.enqueue_time <= u.time_last_updated - u.pause_time_sum
    BY <2>1, <1>2, <1>4, <1>9, <1>10
  <2>3. u.pause_time_sum <= u.time_last_updated BY <1>2, <1>3, <1>4, <1>6 DEF delta
  <2> QED BY <2>2, <2>3, <1>6, <1>8 DEF Timed
<1>12. Counted(u)
  <2>1. /\ IsFiniteSet(all) /\ q.size_packets = Cardinality(all) /\ q.size = SizeSum(all)
        /\ q.queue_time_sum = WaitSum(q.time_last_updated, q.pause_time_sum, all)
    BY DEF QueueOK, Counted
  <2> DEFINE d == (u.time_last_updated - u.pause_time_sum) - (q.time_last_updated - q.pause_time_sum)
             n0 == Cardinality(all)
  <2>2. d = IF q.paused THEN 0 ELSE delta BY <1>2, <1>4, <1>9
  <2>3. WaitSum(u.time_last_updated, u.pause_time_sum, all) = q.queue_time_sum + d * n0
    <3>1. /\ u.time_last_updated \in Int /\ u.pause_time_sum \in Int
          /\ q.time_last_updated \in Int /\ q.pause_time_sum \in Int
      BY <1>1, <1>7, QueueTypes
    <3>2. \A p \in all : p.enqueue_time \in Int BY <1>10
    <3> HIDE DEF all
    <3> QED BY <2>1, <3>1, <3>2, WaitSumGrows
  <2> HIDE DEF d
  <2>4. u.queue_time_sum = q.queue_time_sum + d * n0
    <3>1. n0 = q.size_packets BY <2>1
    <3>2. CASE q.paused
      <4>1. d * n0 = 0 BY <2>2, <3>1, <3>2, <1>2
      <4> QED BY <4>1, <3>2, <1>2, <1>6
    <3>3. CASE ~q.paused
      <4>1. d = delta BY <2>2, <3>3
      <4> QED BY <4>1, <3>1, <3>3, <1>6
    <3> QED BY <3>2, <3>3
  <2> QED BY <2>1, <2>3, <2>4, <1>6, <1>8 DEF Counted
<1>13. Arrived(u, n) BY <1>8 DEF QueueOK, Arrived
<1>14. QueueOK(u, n, now) BY <1>7, <1>8, <1>11, <1>12, <1>13 DEF QueueOK
<1> QED BY <1>14 DEF u

(* It keeps them when it is paused and resumed.                            *)
LEMMA PauseFacts ==
  ASSUME NEW q, NEW n \in Nat, NEW before \in Nat, NEW now \in Nat, before <= now,
         QueueOK(q, n, before), NEW paused \in BOOLEAN
  PROVE  LET u == SetPauseState(q, paused, now)
         IN /\ QueueOK(u, n, now) /\ QueuedPackets(u) = QueuedPackets(q) /\ Top(u) = Top(q)
            /\ u.size_packets = q.size_packets
<1>1. CASE q.paused = paused
  <2>1. SetPauseState(q, paused, now) = q BY <1>1 DEF SetPauseState
  <2>2. q.time_last_updated \in Nat BY QueueTypes DEF QueueOK
  <2>3. Timed(q, now) BY <2>2 DEF QueueOK, Timed
  <2>4. QueueOK(q, n, now) BY <2>3 DEF QueueOK
  <2> QED BY <2>1, <2>4
<1>2. CASE q.paused # paused
  <2> DEFINE v == UpdateQueueTime(q, now)
             u == [v EXCEPT !.paused = paused]
  <2>1. /\ QueueOK(v, n, now) /\ QueuedPackets(v) = QueuedPackets(q) /\ Top(v) = Top(q)
        /\ v.size_packets = q.size_packets
    <3>1. q \in Queues BY DEF QueueOK
    <3>2. QueueOK(v, n, now) BY UpdateFacts
    <3> QED BY <3>1, <3>2, UpdateLeaves
  <2>2. SetPauseState(q, paused, now) = u BY <1>2 DEF SetPauseState
  <2> HIDE DEF v
  <2>3. v \in Queues BY <2>1 DEF QueueOK
  <2>4. u \in Queues BY <2>3 DEF Queues
  <2>5. /\ u.streams = v.streams /\ u.stream_priorities = v.stream_priorities /\ u.single = v.single
        /\ u.size_packets = v.size_packets /\ u.size = v.size /\ u.queue_time_sum = v.queue_time_sum
        /\ u.pause_time_sum = v.pause_time_sum /\ u.time_last_updated = v.time_last_updated
    BY <2>3 DEF Queues
  <2> HIDE DEF u
  <2>6. QueuedPackets(u) = QueuedPackets(v) /\ Top(u) = Top(v) /\ Sorted(u) /\ Scheduled(u)
    BY <2>1, <2>5, SameLines DEF QueueOK
  <2>7. Counted(u) /\ Arrived(u, n) /\ Timed(u, now)
    BY <2>1, <2>5, <2>6 DEF QueueOK, Counted, Arrived, Timed
  <2> QED BY <2>1, <2>2, <2>4, <2>5, <2>6, <2>7 DEF QueueOK
<1> QED BY <1>1, <1>2

-----------------------------------------------------------------------------
(* FiniteSetsExt's Min is the least of a set of numbers.                   *)
LEMMA LeastIsMin ==
  ASSUME NEW T, T \subseteq Nat, T # {}
  PROVE  Min(T) \in T /\ \A y \in T : Min(T) <= y
<1>1. \E x \in T : \A y \in T : x <= y BY LeastOf
<1> QED BY <1>1 DEF Min

(* A push moves the stream of the packet to its new place in the map.      *)
LEMMA RescheduledFacts ==
  ASSUME NEW q \in Queues, Sorted(q), Scheduled(q), NEW p \in Packets
  PROVE  LET keys == Rescheduled(q, p)
             ps == q.streams[p.ssrc].packets
             first == IF ps = <<>> THEN p ELSE IF p.priority < ps[1].priority THEN p ELSE ps[1]
         IN /\ keys \in Seq(Keys) /\ KeysInOrder(keys)
            /\ Range(keys) = {k \in Range(q.stream_priorities) : k.ssrc # p.ssrc}
                             \cup {Key(first.priority, q.streams[p.ssrc].size, p.ssrc)}
<1> DEFINE keys == q.stream_priorities
           ps == q.streams[p.ssrc].packets
           size == q.streams[p.ssrc].size
           key == Key(p.priority, size, p.ssrc)
           at == {i \in DOMAIN keys : keys[i].ssrc = p.ssrc}
           first == IF ps = <<>> THEN p ELSE IF p.priority < ps[1].priority THEN p ELSE ps[1]
           others == {k \in Range(keys) : k.ssrc # p.ssrc}
           out == Rescheduled(q, p)
<1>1. keys \in Seq(Keys) /\ DOMAIN keys = 1..Len(keys) BY QueueTypes
<1>2. p.ssrc \in Ssrcs /\ p.priority \in Nat BY DEF Packets
<1>3. ps \in Seq(Packets) /\ size \in Int BY <1>2, QueueTypes
<1>4. KeysInOrder(keys) BY DEF Scheduled
<1>5. key \in Keys /\ key.ssrc = p.ssrc BY <1>2, <1>3 DEF Key, Keys
<1>6. out = IF at = {} THEN KeyInserted(keys, key)
            ELSE IF p.priority >= keys[Min(at)].priority THEN keys
            ELSE KeyInserted(RemoveAt(keys, Min(at)), key)
  BY DEF Rescheduled
<1>7. CASE at = {}
  <2>1. \A i \in DOMAIN keys : keys[i].ssrc # key.ssrc BY <1>5, <1>7
  <2>2. /\ out \in Seq(Keys) /\ KeysInOrder(out) /\ Range(out) = Range(keys) \cup {key}
    <3> HIDE DEF key, keys, at, out
    <3> QED BY <1>1, <1>4, <1>5, <1>6, <1>7, <2>1, KeyInsertedFacts
  <2>3. \A k \in Range(keys) : k.ssrc # p.ssrc BY <2>1, <1>5 DEF Range
  <2>4. ps = <<>> BY <1>2, <2>3 DEF Scheduled
  <2>5. first = p BY <2>4
  <2> QED BY <2>2, <2>3, <2>5
<1>8. CASE at # {}
  <2> DEFINE m == Min(at)
  <2>1. at \subseteq Nat BY <1>1
  <2>2. m \in at
    <3> HIDE DEF at
    <3> QED BY <1>8, <2>1, LeastIsMin
  <2> HIDE DEF m
  <2>3. m \in DOMAIN keys /\ keys[m].ssrc = p.ssrc /\ keys[m] \in Range(keys) BY <2>2 DEF Range
  <2>4. keys[m].priority = ps[1].priority /\ keys[m].size = size /\ ps # <<>>
    BY <2>3, <1>2 DEF Scheduled
  <2>5. ps[1].priority \in Nat
    <3>1. ps[1] \in Packets
      <4> HIDE DEF ps
      <4> QED BY <1>3, <2>4
    <3> QED BY <3>1 DEF Packets
  <2>6. \A k \in Range(keys) : k.ssrc = p.ssrc => k = keys[m]
    <3> SUFFICES ASSUME NEW k \in Range(keys), k.ssrc = p.ssrc PROVE k = keys[m] OBVIOUS
    <3>1. PICK i \in DOMAIN keys : k = keys[i] BY DEF Range
    <3>2. ~(i < m) /\ ~(m < i) BY <2>3, <3>1, <1>4 DEF KeysInOrder
    <3>3. i = m BY SMTT(40), <3>1, <3>2, <2>3, <1>1
    <3> QED BY <3>1, <3>3
  <2>7. CASE p.priority >= keys[m].priority
    <3>1. out = keys BY <1>6, <1>8, <2>7 DEF m
    <3>2. first = ps[1] BY <2>4, <2>5, <2>7, <1>2
    <3>3. keys[m] = Key(first.priority, size, p.ssrc)
      <4>1. keys[m] \in Keys BY <1>1, <2>3
      <4>2. keys[m] = [priority |-> keys[m].priority, size |-> keys[m].size, ssrc |-> keys[m].ssrc]
        BY <4>1 DEF Keys
      <4> QED BY <4>2, <3>2, <2>3, <2>4 DEF Key
    <3>4. Range(keys) = others \cup {keys[m]} BY <2>3, <2>6
    <3> QED BY <3>1, <3>3, <3>4, <1>1, <1>4
  <2>8. CASE ~(p.priority >= keys[m].priority)
    <3> DEFINE rest == RemoveAt(keys, m)
    <3>1. out = KeyInserted(rest, key) BY <1>6, <1>8, <2>8 DEF m
    <3>2. /\ rest \in Seq(Keys) /\ KeysInOrder(rest)
          /\ Range(rest) = {k \in Range(keys) : k.ssrc # keys[m].ssrc}
      BY <1>1, <1>4, <2>3, KeyRemovedFacts
    <3>3. Range(rest) = others BY <2>3, <3>2
    <3> HIDE DEF rest, out, key
    <3>4. \A i \in DOMAIN rest : rest[i].ssrc # key.ssrc
      <4>1. \A i \in DOMAIN rest : rest[i] \in Range(rest) BY DEF Range
      <4> QED BY <4>1, <3>3, <1>5
    <3>5. out \in Seq(Keys) /\ KeysInOrder(out) /\ Range(out) = Range(rest) \cup {key}
      BY <1>5, <3>1, <3>2, <3>4, KeyInsertedFacts
    <3>6. p.priority < ps[1].priority BY <2>4, <2>5, <2>8, <1>2
    <3>7. first = p BY <3>6, <2>4
    <3> QED BY <3>3, <3>5, <3>7 DEF key, out
  <2> QED BY <2>7, <2>8
<1> QED BY <1>7, <1>8

(* A packet joins its stream, and the streams stay sorted.                 *)
LEMMA PushToStreamFacts ==
  ASSUME NEW q \in Queues, Sorted(q), Scheduled(q), q.single = <<>>, NEW p \in Packets,
         \A i \in DOMAIN q.streams[p.ssrc].packets : q.streams[p.ssrc].packets[i].order < p.order
  PROVE  LET r == PushToStream(q, p)
         IN /\ r \in Queues /\ Sorted(r) /\ Scheduled(r)
            /\ QueuedPackets(r) = QueuedPackets(q) \cup {p}
            /\ r.single = <<>> /\ r.size_packets = q.size_packets /\ r.size = q.size
            /\ r.queue_time_sum = q.queue_time_sum /\ r.pause_time_sum = q.pause_time_sum
            /\ r.time_last_updated = q.time_last_updated
<1> DEFINE s0 == p.ssrc
           ps == q.streams[s0].packets
           size == q.streams[s0].size
           pnew == PacketInserted(ps, p)
           keys == Rescheduled(q, p)
           first == IF ps = <<>> THEN p ELSE IF p.priority < ps[1].priority THEN p ELSE ps[1]
           key == Key(first.priority, size, s0)
           stream == [size |-> size, packets |-> pnew]
           streams == [q.streams EXCEPT ![s0] = stream]
           r == [q EXCEPT !.stream_priorities = keys, !.streams = streams]
<1>1. s0 \in Ssrcs BY DEF Packets
<1>2. /\ q.streams \in [Ssrcs -> [size : Int, packets : Seq(Packets)]]
      /\ q.streams[s0] \in [size : Int, packets : Seq(Packets)]
      /\ ps \in Seq(Packets) /\ size \in Int
  BY <1>1, QueueTypes
<1>3. PushToStream(q, p) = r
  <2>1. [q.streams[s0] EXCEPT !.packets = pnew] = stream
    <3> HIDE DEF pnew
    <3> QED BY <1>2
  <2>2. [q.streams EXCEPT ![s0].packets = pnew] = streams
    <3>1. [q.streams EXCEPT ![s0].packets = pnew]
            = [q.streams EXCEPT ![s0] = [q.streams[s0] EXCEPT !.packets = pnew]]
      BY <1>1, <1>2
    <3> HIDE DEF stream, pnew
    <3> QED BY <2>1, <3>1
  <2>3. PushToStream(q, p) = [q EXCEPT !.stream_priorities = keys,
                                       !.streams = [q.streams EXCEPT ![s0].packets = pnew]]
    BY DEF PushToStream, Queues
  <2> HIDE DEF streams, keys, pnew
  <2> QED BY <2>2, <2>3
<1>4. /\ pnew \in Seq(Packets) /\ pnew # <<>> /\ InOrder(pnew)
      /\ Range(pnew) = Range(ps) \cup {p} /\ pnew[1] = first
  <2>1. InOrder(ps) BY <1>1 DEF Sorted
  <2>2. \A i \in DOMAIN ps : ps[i].order < p.order OBVIOUS
  <2> HIDE DEF ps, pnew
  <2> QED BY <1>2, <2>1, <2>2, PacketInsertedFacts DEF pnew
<1>5. /\ keys \in Seq(Keys) /\ KeysInOrder(keys)
      /\ Range(keys) = {k \in Range(q.stream_priorities) : k.ssrc # s0} \cup {key}
  BY RescheduledFacts
<1> HIDE DEF pnew, keys
<1>6. stream \in [size : Int, packets : Seq(Packets)] BY <1>2, <1>4
<1>7. streams \in [Ssrcs -> [size : Int, packets : Seq(Packets)]]
  <2> HIDE DEF stream
  <2> QED BY <1>1, <1>2, <1>6
<1>8. /\ streams[s0] = stream
      /\ \A s \in Ssrcs : s # s0 => streams[s] = q.streams[s]
  <2> HIDE DEF stream
  <2> QED BY <1>1, <1>2
<1>9. streams[s0].packets = pnew /\ streams[s0].size = size BY <1>8
<1> HIDE DEF streams
<1>10. /\ r \in Queues /\ r.stream_priorities = keys /\ r.streams = streams /\ r.single = q.single
       /\ r.size_packets = q.size_packets /\ r.size = q.size
       /\ r.queue_time_sum = q.queue_time_sum /\ r.pause_time_sum = q.pause_time_sum
       /\ r.time_last_updated = q.time_last_updated
  BY <1>5, <1>7 DEF Queues
<1> HIDE DEF r
<1>11. QueuedPackets(r) = QueuedPackets(q) \cup {p}
  <2>1. ASSUME NEW x \in QueuedPackets(r) PROVE x \in QueuedPackets(q) \cup {p}
    <3>1. PICK s \in Ssrcs : x \in Range(streams[s].packets)
      <4>1. Range(r.single) = {} BY <1>10 DEF Range
      <4> QED BY <4>1, <1>10, QueuedWhere
    <3>2. CASE s = s0
      <4>1. x \in Range(ps) \cup {p} BY <3>1, <3>2, <1>4, <1>9
      <4> QED BY <4>1, <1>1, QueuedWhere
    <3>3. CASE s # s0 BY <3>1, <3>3, <1>8, QueuedWhere
    <3> QED BY <3>2, <3>3
  <2>2. ASSUME NEW x \in QueuedPackets(q) PROVE x \in QueuedPackets(r)
    <3>1. PICK s \in Ssrcs : x \in Range(q.streams[s].packets)
      <4>1. Range(q.single) = {} BY DEF Range
      <4> QED BY <4>1, QueuedWhere
    <3>2. x \in Range(streams[s].packets)
      <4>1. CASE s = s0 BY <3>1, <4>1, <1>4, <1>9
      <4>2. CASE s # s0 BY <3>1, <4>2, <1>8
      <4> QED BY <4>1, <4>2
    <3> QED BY <3>2, <1>10, QueuedWhere
  <2>3. p \in QueuedPackets(r)
    <3>1. p \in Range(streams[s0].packets) BY <1>4, <1>9
    <3> QED BY <3>1, <1>1, <1>10, QueuedWhere
  <2> QED BY <2>1, <2>2, <2>3
<1>12. Sorted(r)
  <2>1. ASSUME NEW s \in Ssrcs
        PROVE  /\ InOrder(streams[s].packets)
               /\ \A i \in DOMAIN streams[s].packets : streams[s].packets[i].ssrc = s
    <3>1. CASE s = s0
      <4>1. ASSUME NEW i \in DOMAIN pnew PROVE pnew[i].ssrc = s0
        <5>1. pnew[i] \in Range(ps) \cup {p} BY <1>4 DEF Range
        <5>2. \A x \in Range(ps) : x.ssrc = s0 BY <1>1 DEF Range, Sorted
        <5> QED BY <5>1, <5>2
      <4> QED BY <3>1, <4>1, <1>4, <1>9
    <3>2. CASE s # s0 BY <3>2, <1>8 DEF Sorted
    <3> QED BY <3>1, <3>2
  <2> QED BY <2>1, <1>10 DEF Sorted
<1>13. Scheduled(r)
  <2>1. key.ssrc = s0 /\ key.priority = first.priority /\ key.size = size BY DEF Key
  <2>2. ASSUME NEW s \in Ssrcs
        PROVE  streams[s].packets # <<>> <=> \E k \in Range(keys) : k.ssrc = s
    <3>1. CASE s = s0 BY ZenonT(60), <3>1, <2>1, <1>4, <1>5, <1>9
    <3>2. CASE s # s0
      <4>1. streams[s].packets # <<>> <=> \E k \in Range(q.stream_priorities) : k.ssrc = s
        BY <3>2, <1>8 DEF Scheduled
      <4> QED BY <4>1, <3>2, <2>1, <1>5
    <3> QED BY SMTT(40), <3>1, <3>2
  <2>3. ASSUME NEW k \in Range(keys)
        PROVE  k.priority = streams[k.ssrc].packets[1].priority /\ k.size = streams[k.ssrc].size
    <3>1. CASE k = key
      <4>1. k.ssrc = s0 /\ k.priority = first.priority /\ k.size = size BY <2>1, <3>1
      <4>2. streams[s0].packets[1] = first BY <1>4, <1>9
      <4> HIDE DEF first, size
      <4> QED BY SMTT(40), <4>1, <4>2, <1>9
    <3>2. CASE k # key
      <4>1. k \in Range(q.stream_priorities) /\ k.ssrc # s0 BY <3>2, <1>5
      <4>2. k.priority = q.streams[k.ssrc].packets[1].priority /\ k.size = q.streams[k.ssrc].size
        BY <4>1 DEF Scheduled
      <4>3. k.ssrc \in Ssrcs
        <5>1. Range(q.stream_priorities) \subseteq Keys BY QueueTypes, RangeOfPackets
        <5> QED BY <4>1, <5>1 DEF Keys
      <4>4. streams[k.ssrc] = q.streams[k.ssrc] BY <4>1, <4>3, <1>8
      <4> QED BY SMTT(40), <4>2, <4>4
    <3> QED BY <3>1, <3>2
  <2> QED BY <2>2, <2>3, <1>5, <1>10 DEF Scheduled
<1> QED BY <1>3, <1>10, <1>11, <1>12, <1>13

(* A push adds one packet, with its time of arrival less the pauses.       *)
LEMMA PushFacts ==
  ASSUME NEW q, NEW n \in Nat, NEW before \in Nat, NEW now \in Nat, before <= now,
         QueueOK(q, n, before), NEW p \in Packets, p.order = n, p.enqueue_time = now,
         p.priority = Priority(p.type)
  PROVE  LET r == Push(q, p)
         IN /\ QueueOK(r, n + 1, now) /\ r.size_packets # 0
            /\ \E packet \in Packets :
                 /\ packet = [p EXCEPT !.enqueue_time = packet.enqueue_time]
                 /\ QueuedPackets(r) = QueuedPackets(q) \cup {packet}
                 /\ packet.order = n /\ packet.type = p.type /\ packet.ssrc = p.ssrc
                 /\ packet.priority = p.priority
<1> DEFINE u == UpdateQueueTime(q, now)
           time == now - u.pause_time_sum
           packet == [p EXCEPT !.enqueue_time = time]
           v == [u EXCEPT !.single = <<>>]
           w == MaybePromoteSinglePacketToNormalQueue(u)
           m == IF q.size_packets = 0 THEN [u EXCEPT !.single = <<packet>>] ELSE PushToStream(w, packet)
           r == [m EXCEPT !.size_packets = m.size_packets + 1, !.size = m.size + p.size]
           all == QueuedPackets(q)
<1>1. /\ QueueOK(u, n, now) /\ QueuedPackets(u) = all /\ u.size_packets = q.size_packets
      /\ u.size = q.size /\ u.single = q.single /\ u.time_last_updated = now
  <2>1. q \in Queues BY DEF QueueOK
  <2>2. QueueOK(u, n, now) BY UpdateFacts
  <2> QED BY <2>1, <2>2, UpdateLeaves
<1>2. Push(q, p) = r BY DEF Push
<1> HIDE DEF u
<1>3. u \in Queues /\ Sorted(u) /\ Scheduled(u) /\ Counted(u) /\ Arrived(u, n) /\ Timed(u, now)
  BY <1>1 DEF QueueOK
<1>4. /\ u.size_packets \in Nat /\ u.size \in Int /\ u.queue_time_sum \in Int
      /\ u.pause_time_sum \in Nat /\ u.pause_time_sum <= now
  BY <1>1, <1>3, QueueTypes DEF Timed
<1>5. time \in Nat BY <1>4
<1> HIDE DEF time
<1>6. /\ packet \in Packets /\ packet.order = n /\ packet.enqueue_time = time
      /\ packet.size = p.size /\ packet.type = p.type /\ packet.ssrc = p.ssrc
      /\ packet.priority = p.priority
  BY <1>5 DEF Packets
<1>7. p.size \in Nat BY DEF Packets
<1> HIDE DEF packet
<1>8. all \subseteq Packets BY <1>1, <1>3, QueuedWhere
<1>9. \A x \in all : x.order < n BY <1>1, <1>3 DEF Arrived
<1>10. packet \notin all
  <2>1. packet \in all => n < n BY <1>6, <1>9
  <2> QED BY <2>1
<1>11. /\ m \in Queues /\ Sorted(m) /\ Scheduled(m) /\ QueuedPackets(m) = all \cup {packet}
       /\ m.size_packets = u.size_packets /\ m.size = u.size /\ m.queue_time_sum = u.queue_time_sum
       /\ m.pause_time_sum = u.pause_time_sum /\ m.time_last_updated = now
  <2>1. CASE q.size_packets = 0
    <3>1. m = [u EXCEPT !.single = <<packet>>] BY <2>1
    <3>2. /\ u.single = <<>> /\ \A s \in Ssrcs : u.streams[s].packets = <<>>
          /\ QueuedPackets(u) = {}
      BY <2>1, <1>1, <1>3, EmptyFacts DEF Empty
    <3>3. <<packet>> \in Seq(Packets) BY <1>6
    <3>4. m \in Queues BY <3>1, <3>3, <1>3 DEF Queues
    <3>5. /\ m.single = <<packet>> /\ m.streams = u.streams
          /\ m.stream_priorities = u.stream_priorities
          /\ m.size_packets = u.size_packets /\ m.size = u.size
          /\ m.queue_time_sum = u.queue_time_sum
          /\ m.pause_time_sum = u.pause_time_sum /\ m.time_last_updated = u.time_last_updated
      BY <3>1, <1>3 DEF Queues
    <3> HIDE DEF m
    <3>6. Scheduled(m) BY <3>5, <1>3 DEF Scheduled
    <3>7. Len(m.single) = 1 BY <3>5
    <3>8. Sorted(m) BY <3>2, <3>5, <3>7, <1>3 DEF Sorted
    <3>9. Range(m.single) = {packet} BY <3>5 DEF Range
    <3>10. \A s \in Ssrcs : Range(m.streams[s].packets) = {} BY <3>2, <3>5 DEF Range
    <3>11. QueuedPackets(m) = {packet} BY <3>9, <3>10 DEF QueuedPackets
    <3> QED BY <3>2, <3>4, <3>5, <3>6, <3>8, <3>11, <1>1
  <2>2. CASE q.size_packets # 0
    <3>1. m = PushToStream(w, packet) BY <2>2
    <3>2. /\ w \in Queues /\ Sorted(w) /\ Scheduled(w) /\ QueuedPackets(w) = all /\ w.single = <<>>
          /\ w.size_packets = u.size_packets /\ w.size = u.size
          /\ w.queue_time_sum = u.queue_time_sum
          /\ w.pause_time_sum = u.pause_time_sum /\ w.time_last_updated = now
      <4>1. CASE u.single = <<>>
        <5>1. w = u BY <4>1 DEF MaybePromoteSinglePacketToNormalQueue
        <5> QED BY <4>1, <5>1, <1>1, <1>3
      <4>2. CASE u.single # <<>>
        <5>1. w = PushToStream(v, u.single[1]) BY <4>2 DEF MaybePromoteSinglePacketToNormalQueue
        <5>2. /\ Len(u.single) = 1 /\ \A s \in Ssrcs : u.streams[s].packets = <<>>
          BY <4>2, <1>3 DEF Sorted
        <5>3. u.single \in Seq(Packets) BY <1>3, QueueTypes
        <5>4. u.single[1] \in Packets /\ Range(u.single) = {u.single[1]}
          <6>1. DOMAIN u.single = {1} BY <5>2, <5>3
          <6> QED BY <6>1, <5>3 DEF Range
        <5>5. /\ v \in Queues /\ v.single = <<>> /\ v.streams = u.streams
              /\ v.stream_priorities = u.stream_priorities
              /\ v.size_packets = u.size_packets /\ v.size = u.size
              /\ v.queue_time_sum = u.queue_time_sum
              /\ v.pause_time_sum = u.pause_time_sum /\ v.time_last_updated = u.time_last_updated
          <6>1. <<>> \in Seq(Packets) OBVIOUS
          <6> QED BY <6>1, <1>3 DEF Queues
        <5> HIDE DEF v, w
        <5>6. Scheduled(v) /\ Sorted(v) BY <5>5, <1>3 DEF Scheduled, Sorted
        <5>7. \A s \in Ssrcs : Range(u.streams[s].packets) = {} BY <5>2 DEF Range
        <5>8. QueuedPackets(v) = {}
          <6>1. Range(v.single) = {} BY <5>5 DEF Range
          <6> QED BY <6>1, <5>5, <5>7 DEF QueuedPackets
        <5>9. QueuedPackets(u) = {u.single[1]} BY <5>4, <5>7 DEF QueuedPackets
        <5>10. \A i \in DOMAIN v.streams[u.single[1].ssrc].packets :
                 v.streams[u.single[1].ssrc].packets[i].order < u.single[1].order
          <6>1. u.single[1].ssrc \in Ssrcs BY <5>4 DEF Packets
          <6>2. v.streams[u.single[1].ssrc].packets = <<>> BY <6>1, <5>2, <5>5
          <6> QED BY <6>2
        <5> DEFINE one == u.single[1]
        <5>11. one \in Packets BY <5>4
        <5> HIDE DEF one
        <5>12. /\ w \in Queues /\ Sorted(w) /\ Scheduled(w)
               /\ QueuedPackets(w) = QueuedPackets(v) \cup {one}
               /\ w.single = <<>> /\ w.size_packets = v.size_packets /\ w.size = v.size
               /\ w.queue_time_sum = v.queue_time_sum /\ w.pause_time_sum = v.pause_time_sum
               /\ w.time_last_updated = v.time_last_updated
          BY <5>1, <5>5, <5>6, <5>10, <5>11, PushToStreamFacts DEF one
        <5> QED BY <5>5, <5>8, <5>9, <5>12, <1>1 DEF one
      <4> QED BY <4>1, <4>2
    <3> HIDE DEF w, m
    <3>3. \A i \in DOMAIN w.streams[packet.ssrc].packets :
            w.streams[packet.ssrc].packets[i].order < packet.order
      <4>1. packet.ssrc \in Ssrcs BY <1>6 DEF Packets
      <4>2. \A i \in DOMAIN w.streams[packet.ssrc].packets :
              w.streams[packet.ssrc].packets[i] \in QueuedPackets(w)
        BY <3>2, <4>1, QueuedWhere DEF Range
      <4> QED BY <4>2, <3>2, <1>6, <1>9
    <3> QED BY <3>1, <3>2, <3>3, <1>6, PushToStreamFacts
  <2> QED BY <2>1, <2>2
<1> HIDE DEF m
<1>12. /\ r \in Queues /\ r.streams = m.streams /\ r.stream_priorities = m.stream_priorities
       /\ r.single = m.single /\ r.size_packets = q.size_packets + 1 /\ r.size = q.size + p.size
       /\ r.queue_time_sum = u.queue_time_sum /\ r.pause_time_sum = u.pause_time_sum
       /\ r.time_last_updated = now
  <2>1. m.size_packets = q.size_packets /\ m.size = q.size BY <1>1, <1>11
  <2>2. m.size_packets + 1 \in Nat /\ m.size + p.size \in Int BY <1>4, <1>7, <1>11
  <2>3. m \in Queues BY <1>11
  <2>4. r \in Queues /\ r.streams = m.streams /\ r.stream_priorities = m.stream_priorities
        /\ r.single = m.single /\ r.size_packets = m.size_packets + 1 /\ r.size = m.size + p.size
        /\ r.queue_time_sum = m.queue_time_sum /\ r.pause_time_sum = m.pause_time_sum
        /\ r.time_last_updated = m.time_last_updated
    BY <2>2, <2>3 DEF Queues
  <2> HIDE DEF r
  <2> QED BY <2>1, <2>4, <1>11
<1> HIDE DEF r
<1>13. QueuedPackets(r) = all \cup {packet} /\ Sorted(r) /\ Scheduled(r)
  BY <1>11, <1>12, SameLines
<1> DEFINE new == all \cup {packet}
<1>14. new \subseteq Packets BY <1>6, <1>8
<1>15. Counted(r)
  <2>1. /\ IsFiniteSet(all) /\ u.size_packets = Cardinality(all) /\ u.size = SizeSum(all)
        /\ u.queue_time_sum = WaitSum(now, u.pause_time_sum, all)
    BY <1>1, <1>3 DEF Counted
  <2>2. IsFiniteSet(new) /\ Cardinality(new) = Cardinality(all) + 1
    BY <2>1, <1>10, FS_AddElement
  <2>3. new \ {packet} = all /\ packet \in new BY <1>10
  <2>4. SizeSum(new) = p.size + SizeSum(all)
    <3>1. \A x \in new : x.size \in Int BY <1>14 DEF Packets
    <3>2. \A x \in new : SizeSum(new) = x.size + SizeSum(new \ {x})
      <4> HIDE DEF new
      <4> QED BY <2>2, <3>1, SizeSumRemoves
    <3> HIDE DEF new
    <3> QED BY <2>3, <3>2, <1>6
  <2>5. WaitSum(now, u.pause_time_sum, new) = WaitSum(now, u.pause_time_sum, all)
    <3>1. \A x \in new : x.enqueue_time \in Int BY <1>14 DEF Packets
    <3>2. now \in Int /\ u.pause_time_sum \in Int BY <1>4
    <3>3. \A x \in new : WaitSum(now, u.pause_time_sum, new) =
            (now - x.enqueue_time - u.pause_time_sum) + WaitSum(now, u.pause_time_sum, new \ {x})
      <4> HIDE DEF new
      <4> QED BY <2>2, <3>1, <3>2, WaitSumRemoves
    <3>4. now - packet.enqueue_time - u.pause_time_sum = 0 BY <1>4, <1>6 DEF time
    <3>5. WaitSum(now, u.pause_time_sum, all) \in Int BY <2>1, <1>4
    <3> HIDE DEF new
    <3> QED BY <2>3, <3>3, <3>4, <3>5
  <2>6. SizeSum(all) + p.size = p.size + SizeSum(all) BY <2>1, <1>4, <1>7
  <2> QED BY <2>1, <2>2, <2>4, <2>5, <2>6, <1>1, <1>12, <1>13 DEF Counted
<1>16. \A x \in all : x.enqueue_time <= packet.enqueue_time
  BY <1>1, <1>3, <1>6 DEF Timed, time
<1>17. Arrived(r, n + 1)
  <2> SUFFICES ASSUME NEW x \in new, NEW y \in new
               PROVE  /\ x.order < n + 1 /\ x.priority = Priority(x.type)
                      /\ x.order = y.order => x = y
                      /\ x.order < y.order => x.enqueue_time <= y.enqueue_time
    BY <1>13 DEF Arrived
  <2>1. \A z \in all : /\ z.order \in Nat /\ z.order < n /\ z.priority = Priority(z.type)
                       /\ z.enqueue_time \in Nat
    BY <1>1, <1>3, <1>8 DEF Arrived, Packets
  <2>2. packet.priority = Priority(packet.type) BY <1>6
  <2>3. CASE x \in all /\ y \in all BY <2>1, <2>3, <1>1, <1>3 DEF Arrived
  <2>4. CASE x = packet /\ y = packet BY <2>2, <2>4, <1>6
  <2>5. CASE x = packet /\ y \in all BY <2>1, <2>2, <2>5, <1>6
  <2>6. CASE x \in all /\ y = packet BY <2>1, <2>6, <1>6, <1>16
  <2> QED BY <2>3, <2>4, <2>5, <2>6
<1>18. Timed(r, now)
  <2>1. \A x \in new : x.enqueue_time <= now - u.pause_time_sum
    <3>1. \A x \in all : x.enqueue_time <= now - u.pause_time_sum BY <1>1, <1>3 DEF Timed
    <3>2. packet.enqueue_time <= now - u.pause_time_sum BY <1>4, <1>6 DEF time
    <3> QED BY <3>1, <3>2
  <2> QED BY <2>1, <1>4, <1>12, <1>13 DEF Timed
<1>19. QueueOK(r, n + 1, now) BY <1>12, <1>13, <1>15, <1>17, <1>18 DEF QueueOK
<1>20. r.size_packets # 0 BY <1>1, <1>4, <1>12
<1>21. packet = [p EXCEPT !.enqueue_time = packet.enqueue_time] BY <1>5 DEF packet, Packets
<1> QED BY <1>2, <1>6, <1>13, <1>19, <1>20, <1>21

(* No packets weigh nothing.                                               *)
LEMMA NothingSums ==
  ASSUME NEW now \in Int, NEW paused \in Int
  PROVE  SizeSum({}) = 0 /\ WaitSum(now, paused, {}) = 0
<1>1. IsFiniteSet({}) BY FS_EmptySet
<1>2. \A p \in {} : p.size \in Int /\ p.enqueue_time \in Int OBVIOUS
<1>3. SizeSum({}) = 0 BY <1>1, <1>2, SizeSumRemoves
<1>4. WaitSum(now, paused, {}) = 0 BY <1>1, <1>2, WaitSumRemoves
<1> QED BY <1>3, <1>4

(* The packet that was alone leaves.                                       *)
LEMMA PopSingleFacts ==
  ASSUME NEW q, NEW n \in Nat, NEW now \in Nat, QueueOK(q, n, now), q.single # <<>>
  PROVE  QueueOK(PopSingle(q), n, now) /\ QueuedPackets(PopSingle(q)) = QueuedPackets(q) \ {Top(q)}
<1> DEFINE r == PopSingle(q)
<1>1. q \in Queues BY DEF QueueOK
<1>2. /\ r \in Queues /\ r.single = <<>> /\ r.streams = q.streams
      /\ r.stream_priorities = q.stream_priorities /\ r.size_packets = 0 /\ r.size = 0
      /\ r.queue_time_sum = 0 /\ r.pause_time_sum = q.pause_time_sum
      /\ r.time_last_updated = q.time_last_updated
  <2>1. <<>> \in Seq(Packets) OBVIOUS
  <2>2. r \in Queues
    <3>1. r = [q EXCEPT !.single = <<>>, !.queue_time_sum = 0, !.size_packets = 0, !.size = 0]
      BY DEF PopSingle
    <3>2. 0 \in Nat /\ 0 \in Int OBVIOUS
    <3>3. /\ q.streams \in [Ssrcs -> [size : Int, packets : Seq(Packets)]]
          /\ q.stream_priorities \in Seq(Keys) /\ q.max_size \in Int
          /\ q.pause_time_sum \in Nat /\ q.time_last_updated \in Nat /\ q.paused \in BOOLEAN
      BY <1>1, QueueTypes
    <3>4. r = [streams |-> q.streams, stream_priorities |-> q.stream_priorities, single |-> <<>>,
               size_packets |-> 0, size |-> 0, max_size |-> q.max_size, queue_time_sum |-> 0,
               pause_time_sum |-> q.pause_time_sum, time_last_updated |-> q.time_last_updated,
               paused |-> q.paused]
      BY <1>1, <3>1 DEF Queues
    <3> HIDE DEF r
    <3> QED BY <2>1, <3>2, <3>3, <3>4 DEF Queues
  <2>3. /\ r.single = <<>> /\ r.streams = q.streams
        /\ r.stream_priorities = q.stream_priorities /\ r.size_packets = 0 /\ r.size = 0
        /\ r.queue_time_sum = 0 /\ r.pause_time_sum = q.pause_time_sum
        /\ r.time_last_updated = q.time_last_updated
    BY <1>1 DEF PopSingle, Queues
  <2> QED BY <2>2, <2>3
<1> HIDE DEF r
<1>3. /\ Len(q.single) = 1 /\ \A s \in Ssrcs : q.streams[s].packets = <<>> BY DEF QueueOK, Sorted
<1>4. QueuedPackets(r) = {}
  <2>1. Range(r.single) = {} BY <1>2 DEF Range
  <2>2. \A s \in Ssrcs : Range(r.streams[s].packets) = {} BY <1>2, <1>3 DEF Range
  <2> QED BY <2>1, <2>2 DEF QueuedPackets
<1>5. QueuedPackets(q) = {Top(q)}
  <2>1. Top(q) = q.single[1] BY DEF Top
  <2>2. DOMAIN q.single = {1} BY <1>1, <1>3, QueueTypes
  <2>3. Range(q.single) = {Top(q)} BY <2>1, <2>2 DEF Range
  <2>4. \A s \in Ssrcs : Range(q.streams[s].packets) = {} BY <1>3 DEF Range
  <2> QED BY <2>3, <2>4 DEF QueuedPackets
<1>6. Sorted(r) /\ Scheduled(r) BY <1>2 DEF QueueOK, Sorted, Scheduled
<1>7. Counted(r)
  <2>1. q.time_last_updated \in Int /\ q.pause_time_sum \in Int BY <1>1, QueueTypes
  <2> QED BY <2>1, <1>2, <1>4, NothingSums, FS_EmptySet DEF Counted
<1>8. Arrived(r, n) /\ Timed(r, now) BY <1>2, <1>4 DEF QueueOK, Arrived, Timed
<1>9. QueueOK(r, n, now) BY <1>2, <1>6, <1>7, <1>8 DEF QueueOK
<1> QED BY <1>4, <1>5, <1>9 DEF r

(* The first packet of the first stream leaves.                            *)
LEMMA PopFromStreamFacts ==
  ASSUME NEW q, NEW n \in Nat, NEW now \in Nat, QueueOK(q, n, now), q.single = <<>>, ~Empty(q)
  PROVE  /\ QueueOK(PopFromStream(q), n, now)
         /\ QueuedPackets(PopFromStream(q)) = QueuedPackets(q) \ {Top(q)}
<1> DEFINE p == Top(q)
           s0 == p.ssrc
           ps == q.streams[s0].packets
           rest == Tail(ps)
           keys == q.stream_priorities
           others == Tail(keys)
           sent == Max({q.streams[s0].size + p.size, q.max_size - MaxLeadingSize})
           most == Max({q.max_size, sent})
           key == Key(rest[1].priority, sent, s0)
           newkeys == IF rest = <<>> THEN others ELSE KeyInserted(others, key)
           stream == [size |-> sent, packets |-> rest]
           streams == [q.streams EXCEPT ![s0] = stream]
           waited == q.time_last_updated - p.enqueue_time - q.pause_time_sum
           r == [q EXCEPT !.streams = streams, !.stream_priorities = newkeys, !.max_size = most,
                          !.queue_time_sum = q.queue_time_sum - waited,
                          !.size = q.size - p.size, !.size_packets = q.size_packets - 1]
           all == QueuedPackets(q)
<1>1. /\ q \in Queues /\ Sorted(q) /\ Scheduled(q) /\ Counted(q) /\ Arrived(q, n) /\ Timed(q, now)
  BY DEF QueueOK
<1>2. all # {} BY <1>1, EmptyFacts
<1>3. /\ p \in all /\ keys # <<>> /\ keys[1].ssrc = s0 /\ s0 \in Ssrcs /\ ps # <<>> /\ p = ps[1]
  BY <1>1, <1>2, TopFacts
<1>4. /\ q.streams \in [Ssrcs -> [size : Int, packets : Seq(Packets)]]
      /\ ps \in Seq(Packets) /\ q.streams[s0].size \in Int /\ keys \in Seq(Keys)
      /\ q.max_size \in Int /\ q.size \in Int /\ q.size_packets \in Nat /\ q.queue_time_sum \in Int
      /\ q.time_last_updated \in Nat /\ q.pause_time_sum \in Nat
  BY <1>1, <1>3, QueueTypes
<1>5. all \subseteq Packets /\ p \in Packets BY <1>1, <1>3, QueuedWhere
<1>6. p.size \in Nat /\ p.enqueue_time \in Nat /\ waited \in Int BY <1>4, <1>5 DEF Packets
<1>7. PopFromStream(q) = r
  <2>1. PopFromStream(q) = [q EXCEPT !.streams[p.ssrc] = stream, !.stream_priorities = newkeys,
                              !.max_size = most, !.queue_time_sum = q.queue_time_sum - waited,
                              !.size = q.size - p.size, !.size_packets = q.size_packets - 1]
    <3> HIDE DEF p, rest
    <3> QED BY DEF PopFromStream, p, rest
  <2> HIDE DEF p, rest, stream, newkeys, most, waited
  <2> QED BY <2>1
<1>8. \A a, b \in Int : Max({a, b}) \in Int
  <2> TAKE a, b \in Int
  <2>1. \E x \in {a, b} : \A y \in {a, b} : x >= y
    <3>1. a >= b \/ b >= a OBVIOUS
    <3> QED BY <3>1
  <2> QED BY <2>1 DEF Max
<1>9. sent \in Int /\ most \in Int
  <2>1. MaxLeadingSize \in Nat BY QueueAssumption
  <2>2. q.streams[s0].size + p.size \in Int /\ q.max_size - MaxLeadingSize \in Int
    <3> HIDE DEF p
    <3>1. p.size \in Nat BY <1>6
    <3>2. q.streams[s0].size \in Int /\ q.max_size \in Int BY <1>4
    <3> QED BY <2>1, <3>1, <3>2
  <2>3. sent \in Int BY <2>2, <1>8
  <2> HIDE DEF sent
  <2> QED BY <2>3, <1>4, <1>8
<1> HIDE DEF sent, most, waited, p
<1>10. /\ rest \in Seq(Packets) /\ Len(rest) = Len(ps) - 1
       /\ \A i \in 1..Len(ps) - 1 : rest[i] = ps[i + 1]
       /\ Range(ps) = Range(rest) \cup {p}
  <2> HIDE DEF ps
  <2> QED BY <1>3, <1>4, TailFacts
<1>11. InOrder(ps) /\ \A i \in DOMAIN ps : ps[i].ssrc = s0 BY <1>1, <1>3 DEF Sorted
<1>12. Len(ps) \in Nat /\ Len(ps) >= 1 /\ DOMAIN ps = 1..Len(ps) /\ DOMAIN rest = 1..Len(ps) - 1
  <2> HIDE DEF ps, rest
  <2>1. DOMAIN rest = 1..Len(rest) BY <1>10
  <2> QED BY SMTT(40), <2>1, <1>3, <1>4, <1>10
<1> HIDE DEF rest
<1>13. InOrder(rest)
  <2> SUFFICES ASSUME NEW i \in DOMAIN rest, NEW j \in DOMAIN rest, i < j
               PROVE  PacketLess(rest[i], rest[j]) BY DEF InOrder
  <2>1. i \in 1..Len(ps) - 1 /\ j \in 1..Len(ps) - 1 BY <1>12
  <2>2. i + 1 \in DOMAIN ps /\ j + 1 \in DOMAIN ps /\ i + 1 < j + 1
    <3> HIDE DEF ps
    <3> QED BY <2>1, <1>12
  <2>3. rest[i] = ps[i + 1] /\ rest[j] = ps[j + 1] BY <2>1, <1>10
  <2> QED BY <2>2, <2>3, <1>11 DEF InOrder
<1>14. \A x \in Range(rest) : x.ssrc = s0 /\ x # p
  <2> SUFFICES ASSUME NEW x \in Range(rest) PROVE x.ssrc = s0 /\ x # p OBVIOUS
  <2>1. PICK i \in DOMAIN rest : x = rest[i] BY DEF Range
  <2>2. i \in 1..Len(ps) - 1 BY <1>12
  <2>3. i + 1 \in DOMAIN ps /\ x = ps[i + 1] /\ 1 \in DOMAIN ps /\ 1 < i + 1
    <3>1. i + 1 \in DOMAIN ps /\ 1 \in DOMAIN ps /\ 1 < i + 1
      <4> HIDE DEF ps
      <4> QED BY <2>2, <1>12
    <3> QED BY <3>1, <2>1, <2>2, <1>10
  <2>4. PacketLess(p, x) /\ x.ssrc = s0 BY <2>3, <1>3, <1>11 DEF InOrder
  <2>5. ~PacketLess(p, p)
    <3>1. p.priority \in Nat /\ p.order \in Nat BY <1>5 DEF Packets
    <3> QED BY <3>1 DEF PacketLess
  <2> QED BY <2>4, <2>5
<1>15. \A s \in Ssrcs : s # s0 => p \notin Range(q.streams[s].packets)
  BY <1>1 DEF Sorted, Range
<1>16. /\ others \in Seq(Keys) /\ KeysInOrder(others)
       /\ Range(others) = {k \in Range(keys) : k.ssrc # s0}
  <2>1. KeysInOrder(keys) BY <1>1 DEF Scheduled
  <2> HIDE DEF keys
  <2> QED BY <2>1, <1>3, <1>4, KeyTailFacts
<1> HIDE DEF others
<1>17. /\ newkeys \in Seq(Keys) /\ KeysInOrder(newkeys)
       /\ Range(newkeys) = Range(others) \cup (IF rest = <<>> THEN {} ELSE {key})
  <2>1. CASE rest = <<>> BY <2>1, <1>16
  <2>2. CASE rest # <<>>
    <3>1. key \in Keys /\ key.ssrc = s0
      <4>1. rest[1] \in Packets BY <2>2, <1>10
      <4>2. rest[1].priority \in Nat BY <4>1 DEF Packets
      <4> QED BY <4>2, <1>3, <1>9 DEF Key, Keys
    <3>2. \A i \in DOMAIN others : others[i].ssrc # key.ssrc
      <4>1. \A i \in DOMAIN others : others[i] \in Range(others) BY DEF Range
      <4> QED BY <4>1, <3>1, <1>16
    <3> HIDE DEF key
    <3>3. newkeys = KeyInserted(others, key) BY <2>2
    <3> QED BY <2>2, <3>1, <3>2, <3>3, <1>16, KeyInsertedFacts
  <2> QED BY <2>1, <2>2
<1> HIDE DEF newkeys
<1>18. stream \in [size : Int, packets : Seq(Packets)] BY <1>9, <1>10
<1>19. streams \in [Ssrcs -> [size : Int, packets : Seq(Packets)]]
  <2> HIDE DEF stream
  <2> QED BY <1>3, <1>4, <1>18
<1>20. /\ streams[s0] = stream
       /\ \A s \in Ssrcs : s # s0 => streams[s] = q.streams[s]
  <2> HIDE DEF stream
  <2> QED BY <1>3, <1>4
<1>21. streams[s0].packets = rest /\ streams[s0].size = sent BY <1>20
<1> HIDE DEF streams, stream
<1>22. q.size_packets - 1 \in Nat
  <2>1. q.size_packets # 0 BY DEF Empty
  <2> QED BY <2>1, <1>4
<1>23. /\ r \in Queues /\ r.streams = streams /\ r.stream_priorities = newkeys
       /\ r.single = q.single /\ r.size_packets = q.size_packets - 1 /\ r.size = q.size - p.size
       /\ r.queue_time_sum = q.queue_time_sum - waited /\ r.pause_time_sum = q.pause_time_sum
       /\ r.time_last_updated = q.time_last_updated
  <2>1. q.size - p.size \in Int
    <3>1. q.size \in Int /\ p.size \in Nat BY <1>4, <1>6
    <3> QED BY <3>1
  <2>2. q.queue_time_sum - waited \in Int BY <1>4, <1>6
  <2> QED BY <2>1, <2>2, <1>1, <1>9, <1>17, <1>19, <1>22 DEF Queues
<1> HIDE DEF r
<1>24. QueuedPackets(r) = all \ {p}
  <2>1. Range(q.single) = {} BY DEF Range
  <2>2. Range(r.single) = {} BY <2>1, <1>23
  <2>3. ASSUME NEW x \in QueuedPackets(r) PROVE x \in all /\ x # p
    <3>1. PICK s \in Ssrcs : x \in Range(streams[s].packets) BY <2>2, <1>23, QueuedWhere
    <3>2. CASE s = s0
      <4>1. x \in Range(rest) BY <3>1, <3>2, <1>21
      <4>2. x \in Range(ps) BY <4>1, <1>10
      <4> QED BY <4>1, <4>2, <1>1, <1>3, <1>14, QueuedWhere
    <3>3. CASE s # s0
      <4>1. x \in Range(q.streams[s].packets) BY <3>1, <3>3, <1>20
      <4> QED BY <4>1, <3>3, <1>1, <1>15, QueuedWhere
    <3> QED BY <3>2, <3>3
  <2>4. ASSUME NEW x \in all, x # p PROVE x \in QueuedPackets(r)
    <3>1. PICK s \in Ssrcs : x \in Range(q.streams[s].packets) BY <2>1, <1>1, QueuedWhere
    <3>2. x \in Range(streams[s].packets)
      <4>1. CASE s = s0 BY <3>1, <4>1, <2>4, <1>10, <1>21
      <4>2. CASE s # s0 BY <3>1, <4>2, <1>20
      <4> QED BY <4>1, <4>2
    <3> QED BY <3>2, <1>23, QueuedWhere
  <2> QED BY <2>3, <2>4
<1>25. Sorted(r)
  <2>1. ASSUME NEW s \in Ssrcs
        PROVE  /\ InOrder(streams[s].packets)
               /\ \A i \in DOMAIN streams[s].packets : streams[s].packets[i].ssrc = s
    <3>1. CASE s = s0 BY <3>1, <1>13, <1>14, <1>21 DEF Range
    <3>2. CASE s # s0 BY <3>2, <1>1, <1>20 DEF Sorted
    <3> QED BY <3>1, <3>2
  <2> QED BY <2>1, <1>23 DEF Sorted
<1>26. Scheduled(r)
  <2>1. key.ssrc = s0 /\ key.priority = rest[1].priority /\ key.size = sent BY DEF Key
  <2> HIDE DEF key
  <2>2. ASSUME NEW s \in Ssrcs
        PROVE  streams[s].packets # <<>> <=> \E k \in Range(newkeys) : k.ssrc = s
    <3>1. CASE s = s0 BY <3>1, <2>1, <1>16, <1>17, <1>21
    <3>2. CASE s # s0
      <4>1. streams[s].packets # <<>> <=> \E k \in Range(keys) : k.ssrc = s
        BY <3>2, <1>1, <1>20 DEF Scheduled
      <4> QED BY <4>1, <3>2, <2>1, <1>16, <1>17
    <3> QED BY <3>1, <3>2
  <2>3. ASSUME NEW k \in Range(newkeys)
        PROVE  k.priority = streams[k.ssrc].packets[1].priority /\ k.size = streams[k.ssrc].size
    <3>1. CASE k \in Range(others)
      <4>1. k \in Range(keys) /\ k.ssrc # s0 BY <3>1, <1>16
      <4>2. k.priority = q.streams[k.ssrc].packets[1].priority /\ k.size = q.streams[k.ssrc].size
        BY <4>1, <1>1 DEF Scheduled
      <4>3. k.ssrc \in Ssrcs
        <5>1. Range(keys) \subseteq Keys BY <1>4, RangeOfPackets
        <5> QED BY <4>1, <5>1 DEF Keys
      <4>4. streams[k.ssrc] = q.streams[k.ssrc] BY <4>1, <4>3, <1>20
      <4> QED BY <4>2, <4>4
    <3>2. CASE k \notin Range(others)
      <4>1. k = key BY <3>2, <1>17
      <4> QED BY <4>1, <2>1, <1>21
    <3> QED BY <3>1, <3>2
  <2> QED BY <2>2, <2>3, <1>17, <1>23 DEF Scheduled
<1>27. Counted(r)
  <2>1. /\ IsFiniteSet(all) /\ q.size_packets = Cardinality(all) /\ q.size = SizeSum(all)
        /\ q.queue_time_sum = WaitSum(q.time_last_updated, q.pause_time_sum, all)
    BY <1>1 DEF Counted
  <2> DEFINE left == all \ {p}
  <2>2. IsFiniteSet(left) /\ Cardinality(left) = Cardinality(all) - 1
    BY <2>1, <1>3, FS_RemoveElement
  <2>3. \A x \in all : x.size \in Int /\ x.enqueue_time \in Int BY <1>5 DEF Packets
  <2>4. SizeSum(all) = p.size + SizeSum(left) /\ SizeSum(left) \in Int
    <3>1. \A x \in left : x.size \in Int BY <2>3
    <3>2. SizeSum(left) \in Int
      <4> HIDE DEF left
      <4> QED BY <2>2, <3>1, SizeSumRemoves
    <3>3. SizeSum(all) = p.size + SizeSum(left)
      <4> HIDE DEF all
      <4> QED BY <2>1, <2>3, <1>3, SizeSumRemoves
    <3> QED BY <3>2, <3>3
  <2>5. /\ WaitSum(q.time_last_updated, q.pause_time_sum, all)
             = waited + WaitSum(q.time_last_updated, q.pause_time_sum, left)
        /\ WaitSum(q.time_last_updated, q.pause_time_sum, left) \in Int
    <3>1. \A x \in left : x.enqueue_time \in Int BY <2>3
    <3>2. q.time_last_updated \in Int /\ q.pause_time_sum \in Int BY <1>4
    <3>3. WaitSum(q.time_last_updated, q.pause_time_sum, left) \in Int
      <4> HIDE DEF left
      <4> QED BY <2>2, <3>1, <3>2, WaitSumRemoves
    <3>4. WaitSum(q.time_last_updated, q.pause_time_sum, all)
             = waited + WaitSum(q.time_last_updated, q.pause_time_sum, left)
      <4> HIDE DEF all
      <4>1. \A x \in all : WaitSum(q.time_last_updated, q.pause_time_sum, all) =
              (q.time_last_updated - x.enqueue_time - q.pause_time_sum)
              + WaitSum(q.time_last_updated, q.pause_time_sum, all \ {x})
        BY <2>1, <2>3, <3>2, WaitSumRemoves
      <4> QED BY <4>1, <1>3 DEF waited
    <3> QED BY <3>3, <3>4
  <2> HIDE DEF left
  <2>6. q.size - p.size = SizeSum(left) BY <2>1, <2>4, <1>6
  <2>7. q.queue_time_sum - waited = WaitSum(q.time_last_updated, q.pause_time_sum, left)
    BY <2>1, <2>5, <1>6
  <2> QED BY <2>1, <2>2, <2>6, <2>7, <1>23, <1>24 DEF Counted, left
<1>28. Arrived(r, n) BY <1>1, <1>24 DEF Arrived
<1>29. Timed(r, now) BY <1>1, <1>23, <1>24 DEF Timed
<1>30. QueueOK(r, n, now) BY <1>23, <1>25, <1>26, <1>27, <1>28, <1>29 DEF QueueOK
<1> QED BY <1>7, <1>24, <1>30 DEF p

(* A pop takes the packet at the top away, and no other.                   *)
LEMMA PopFacts ==
  ASSUME NEW q, NEW n \in Nat, NEW now \in Nat, QueueOK(q, n, now), ~Empty(q)
  PROVE  QueueOK(Pop(q), n, now) /\ QueuedPackets(Pop(q)) = QueuedPackets(q) \ {Top(q)}
<1>1. CASE q.single # <<>> BY <1>1, PopSingleFacts DEF Pop
<1>2. CASE q.single = <<>> BY <1>2, PopFromStreamFacts DEF Pop
<1> QED BY <1>1, <1>2

(* The queue a pacer starts with.                                          *)
LEMMA EmptyQueueFacts ==
  ASSUME NEW now \in Nat
  PROVE  QueueOK(EmptyQueue(now), 0, now) /\ QueuedPackets(EmptyQueue(now)) = {}
<1> DEFINE q == EmptyQueue(now)
<1>1. <<>> \in Seq(Packets) /\ <<>> \in Seq(Keys) OBVIOUS
<1>2. q \in Queues BY <1>1, QueueAssumption DEF EmptyQueue, Queues
<1>3. /\ \A s \in Ssrcs : q.streams[s].packets = <<>>
      /\ q.stream_priorities = <<>> /\ q.single = <<>> /\ q.size_packets = 0 /\ q.size = 0
      /\ q.queue_time_sum = 0 /\ q.pause_time_sum = 0 /\ q.time_last_updated = now
  BY DEF EmptyQueue
<1> HIDE DEF q
<1>4. Range(q.single) = {} /\ Range(q.stream_priorities) = {} BY <1>3 DEF Range
<1>5. \A s \in Ssrcs : Range(q.streams[s].packets) = {} BY <1>3 DEF Range
<1>6. QueuedPackets(q) = {} BY <1>4, <1>5 DEF QueuedPackets
<1>7. Sorted(q) BY <1>3 DEF Sorted, InOrder
<1>8. Scheduled(q) BY <1>3, <1>4 DEF Scheduled, KeysInOrder
<1>9. Counted(q)
  <2>1. SizeSum({}) = 0 /\ WaitSum(now, 0, {}) = 0 BY NothingSums
  <2> QED BY <2>1, <1>3, <1>6, FS_EmptySet DEF Counted
<1>10. Arrived(q, 0) /\ Timed(q, now) BY <1>3, <1>6 DEF Arrived, Timed
<1> QED BY <1>2, <1>6, <1>7, <1>8, <1>9, <1>10 DEF QueueOK, q

-----------------------------------------------------------------------------
(* The controller.                                                         *)
Controllers ==
  [paused : BOOLEAN, media_debt : Nat, padding_debt : Nat, media_rate : Nat \ {0},
   pacing_bitrate : Nat \ {0}, padding_rate : Nat, last_process_time : Nat,
   last_send_time : Nat, packet_counter : Nat, packet_queue : Queues]

AudioIsAudio(q) == \A p \in QueuedPackets(q) : p.type = "audio" => p.ssrc = "audio"

(* The controller at the time `now'.                                       *)
ControllerOK(c, now) ==
  /\ c \in Controllers
  /\ QueueOK(c.packet_queue, c.packet_counter, now)
  /\ AudioIsAudio(c.packet_queue)

(* d is c but for its debts.                                               *)
SameButDebts(c, d) ==
  d = [c EXCEPT !.media_debt = d.media_debt, !.padding_debt = d.padding_debt]

(* The greater and the lesser of two numbers.                              *)
LEMMA MaxMinOfTwo ==
  ASSUME NEW a \in Int, NEW b \in Int
  PROVE  /\ Max({a, b}) = IF a >= b THEN a ELSE b
         /\ Min({a, b}) = IF a <= b THEN a ELSE b
<1> DEFINE x == IF a >= b THEN a ELSE b
           y == IF a <= b THEN a ELSE b
<1>1. x \in {a, b} /\ \A z \in {a, b} : x >= z OBVIOUS
<1>2. y \in {a, b} /\ \A z \in {a, b} : y <= z OBVIOUS
<1>3. \A u \in {a, b} : (\A z \in {a, b} : u >= z) => u = x OBVIOUS
<1>4. \A u \in {a, b} : (\A z \in {a, b} : u <= z) => u = y OBVIOUS
<1> HIDE DEF x, y
<1>5. Max({a, b}) = x BY <1>1, <1>3 DEF Max
<1>6. Min({a, b}) = y BY <1>2, <1>4 DEF Min
<1> QED BY <1>5, <1>6 DEF x, y

(* The fields of a controller.                                             *)
LEMMA ControllerTypes ==
  ASSUME NEW c \in Controllers
  PROVE  /\ c.paused \in BOOLEAN /\ c.media_debt \in Nat /\ c.padding_debt \in Nat
         /\ c.media_rate \in Nat \ {0} /\ c.pacing_bitrate \in Nat \ {0} /\ c.padding_rate \in Nat
         /\ c.last_process_time \in Nat /\ c.last_send_time \in Nat /\ c.packet_counter \in Nat
         /\ c.packet_queue \in Queues
BY DEF Controllers

(* Paying b for each of e units shortens the time by no more than e.       *)
LEMMA DivFacts ==
  ASSUME NEW a \in Nat, NEW b \in Nat \ {0}, NEW e \in Nat
  PROVE  /\ a \div b \in Nat
         /\ \A d \in Int : d >= a - b * e => d \div b >= (a \div b) - e
<1>1. a \div b \in Nat OBVIOUS
<1>2. ASSUME NEW d \in Int, d >= a - b * e PROVE d \div b >= (a \div b) - e
  <2>1. (a - b * e) \div b = (a \div b) - e OBVIOUS
  <2>2. b * e \in Nat OBVIOUS
  <2> DEFINE f == a - b * e
  <2>3. f \in Int /\ f <= d BY <1>2, <2>2
  <2> HIDE DEF f
  <2>4. f \div b <= d \div b BY <1>2, <2>3
  <2>5. f \div b \in Int /\ d \div b \in Int BY <1>2, <2>3
  <2>6. f \div b = (a \div b) - e BY <2>1 DEF f
  <2> QED BY <2>4, <2>6, <2>5, <1>1
<1> QED BY <1>1, <1>2

(* The debts paid for some time: nothing else changes.                     *)
LEMMA PaidFacts ==
  ASSUME NEW c \in Controllers, NEW delta \in Nat
  PROVE  LET d == UpdateBudgetWithElapsedTime(c, delta)
         IN /\ d \in Controllers /\ SameButDebts(c, d)
            /\ d.media_debt >= c.media_debt - c.media_rate * delta
            /\ d.padding_debt >= c.padding_debt - c.padding_rate * delta
<1> DEFINE a == c.media_debt - c.media_rate * delta
           b == c.padding_debt - c.padding_rate * delta
           d == UpdateBudgetWithElapsedTime(c, delta)
<1>1. a \in Int /\ b \in Int
  <2>1. /\ c.media_debt \in Nat /\ c.media_rate \in Nat
        /\ c.padding_debt \in Nat /\ c.padding_rate \in Nat BY ControllerTypes
  <2>2. c.media_rate * delta \in Nat /\ c.padding_rate * delta \in Nat BY <2>1
  <2> QED BY <2>1, <2>2
<1>2. d = [c EXCEPT !.media_debt = AtLeastZero(a), !.padding_debt = AtLeastZero(b)]
  BY DEF UpdateBudgetWithElapsedTime, Controllers
<1> HIDE DEF a, b, d
<1>3. AtLeastZero(a) \in Nat /\ AtLeastZero(a) >= a /\ AtLeastZero(b) \in Nat /\ AtLeastZero(b) >= b
  BY <1>1, MaxMinOfTwo DEF AtLeastZero
<1>4. d.media_debt = AtLeastZero(a) /\ d.padding_debt = AtLeastZero(b)
  BY <1>2 DEF Controllers
<1>5. d \in Controllers BY <1>2, <1>3 DEF Controllers
<1>6. SameButDebts(c, d) BY <1>2, <1>4 DEF SameButDebts
<1> QED BY <1>3, <1>4, <1>5, <1>6 DEF a, b, d

(* The debts made by what is sent: nothing else changes.                   *)
LEMMA SentFacts ==
  ASSUME NEW c \in Controllers, NEW size \in Nat
  PROVE  LET d == UpdateBudgetWithSentData(c, size)
         IN d \in Controllers /\ SameButDebts(c, d)
<1> DEFINE a == Min({c.media_debt + size, c.media_rate * MaxDebtInTime})
           b == Min({c.padding_debt + size, c.padding_rate * MaxDebtInTime})
           d == UpdateBudgetWithSentData(c, size)
<1>1. a \in Nat /\ b \in Nat
  <2>1. /\ c.media_debt \in Nat /\ c.media_rate \in Nat
        /\ c.padding_debt \in Nat /\ c.padding_rate \in Nat BY ControllerTypes
  <2>2. MaxDebtInTime \in Nat BY PacingAssumption
  <2>3. c.media_rate * MaxDebtInTime \in Nat /\ c.padding_rate * MaxDebtInTime \in Nat
    BY <2>1, <2>2
  <2>4. c.media_debt + size \in Nat /\ c.padding_debt + size \in Nat BY <2>1
  <2>5. \A x, y \in Nat : Min({x, y}) \in Nat BY MaxMinOfTwo
  <2> QED BY <2>3, <2>4, <2>5
<1>2. d = [c EXCEPT !.media_debt = a, !.padding_debt = b]
  BY DEF UpdateBudgetWithSentData, Controllers
<1> HIDE DEF a, b, d
<1>3. d.media_debt = a /\ d.padding_debt = b BY <1>2 DEF Controllers
<1>4. d \in Controllers BY <1>1, <1>2 DEF Controllers
<1>5. SameButDebts(c, d) BY <1>2, <1>3 DEF SameButDebts
<1> QED BY <1>4, <1>5 DEF d

(* What the debts do not touch.                                            *)
LEMMA SameFacts ==
  ASSUME NEW c \in Controllers, NEW d \in Controllers, SameButDebts(c, d)
  PROVE  /\ d.paused = c.paused /\ d.media_rate = c.media_rate
         /\ d.pacing_bitrate = c.pacing_bitrate /\ d.padding_rate = c.padding_rate
         /\ d.last_process_time = c.last_process_time /\ d.last_send_time = c.last_send_time
         /\ d.packet_counter = c.packet_counter /\ d.packet_queue = c.packet_queue
         /\ \A now : ControllerOK(c, now) => ControllerOK(d, now)
<1>1. /\ d.paused = c.paused /\ d.media_rate = c.media_rate
      /\ d.pacing_bitrate = c.pacing_bitrate /\ d.padding_rate = c.padding_rate
      /\ d.last_process_time = c.last_process_time /\ d.last_send_time = c.last_send_time
      /\ d.packet_counter = c.packet_counter /\ d.packet_queue = c.packet_queue
  BY DEF SameButDebts, Controllers
<1> QED BY <1>1 DEF ControllerOK

(* As time goes by.                                                        *)
LEMMA QueueLater ==
  ASSUME NEW q, NEW n \in Nat, NEW now \in Nat, NEW later \in Nat, now <= later,
         QueueOK(q, n, now)
  PROVE  QueueOK(q, n, later)
<1>1. q.time_last_updated \in Nat BY QueueTypes DEF QueueOK
<1>2. Timed(q, later) BY <1>1 DEF QueueOK, Timed
<1> QED BY <1>2 DEF QueueOK

(* A controller stays sound as time goes by.                               *)
LEMMA ControllerLater ==
  ASSUME NEW c, NEW now \in Nat, NEW later \in Nat, now <= later, ControllerOK(c, now)
  PROVE  ControllerOK(c, later)
<1>1. c.packet_counter \in Nat BY ControllerTypes DEF ControllerOK
<1> QED BY <1>1, QueueLater DEF ControllerOK

-----------------------------------------------------------------------------
(* When the next packet may leave.                                         *)
Silence(c) == c.last_send_time + PausedProcessInterval

Speaks(c) == ~c.paused /\ LeadingAudio(c.packet_queue)

(* The time it takes to pay the debts.                                     *)
LEMMA DrainTimeFacts ==
  ASSUME NEW c \in Controllers, Empty(c.packet_queue) => c.padding_rate # 0
  PROVE  DrainTime(c) \in Nat
<1>1. /\ c.media_debt \in Nat /\ c.media_rate \in Nat \ {0}
      /\ c.padding_debt \in Nat /\ c.padding_rate \in Nat BY ControllerTypes
<1>2. c.media_debt \div c.media_rate \in Nat BY <1>1
<1>3. CASE Empty(c.packet_queue)
  <2>1. c.padding_debt \div c.padding_rate \in Nat BY <1>1, <1>3
  <2> QED BY <1>2, <1>3, <2>1, MaxMinOfTwo DEF DrainTime
<1>4. CASE ~Empty(c.packet_queue) BY <1>2, <1>4 DEF DrainTime
<1> QED BY <1>3, <1>4

(* What speaks leaves at once; all else waits for the debts, at most for   *)
(* the silence to end.                                                     *)
LEMMA NextSendTimeFacts ==
  ASSUME NEW c, NEW now \in Nat, ControllerOK(c, now)
  PROVE  /\ NextSendTime(c) \in Nat /\ Silence(c) \in Nat
         /\ ~Speaks(c) => NextSendTime(c) <= Silence(c)
         /\ c.paused => NextSendTime(c) = Silence(c)
         /\ ~Speaks(c) => NextSendTime(c) = Silence(c) \/ NextSendTime(c) >= c.last_process_time
         /\ Speaks(c) => /\ NextSendTime(c) <= now
                         /\ Top(c.packet_queue) \in QueuedPackets(c.packet_queue)
                         /\ NextSendTime(c) = Top(c.packet_queue).enqueue_time
<1>1. c \in Controllers /\ c.packet_queue \in Queues BY ControllerTypes DEF ControllerOK
<1>2. Silence(c) \in Nat
  <2>1. c.last_send_time \in Nat BY <1>1, ControllerTypes
  <2> QED BY <2>1, PacingAssumption DEF Silence
<1>3. ASSUME Speaks(c)
      PROVE  /\ NextSendTime(c) \in Nat /\ NextSendTime(c) <= now
             /\ Top(c.packet_queue) \in QueuedPackets(c.packet_queue)
             /\ NextSendTime(c) = Top(c.packet_queue).enqueue_time
             /\ ~c.paused
  <2> DEFINE q == c.packet_queue
             p == Top(q)
  <2>1. QueueOK(q, c.packet_counter, now) BY DEF ControllerOK
  <2>2. ~Empty(q) BY <1>3 DEF Speaks, LeadingAudio
  <2>3. QueuedPackets(q) # {} BY <2>1, <2>2, EmptyFacts DEF QueueOK
  <2>4. p \in QueuedPackets(q) BY <2>1, <2>3, TopFacts DEF QueueOK
  <2>5. p.enqueue_time \in Nat
    <3>1. p \in Packets BY <2>1, <2>4, QueuedWhere DEF QueueOK
    <3> HIDE DEF p
    <3> QED BY <3>1 DEF Packets
  <2>6. p.enqueue_time <= now
    <3>1. p.enqueue_time <= q.time_last_updated - q.pause_time_sum /\ q.time_last_updated <= now
      BY <2>1, <2>4 DEF QueueOK, Timed
    <3>2. q.time_last_updated \in Nat /\ q.pause_time_sum \in Nat BY <1>1, QueueTypes
    <3> HIDE DEF p, q
    <3> QED BY <3>1, <3>2, <2>5
  <2>7. NextSendTime(c) = p.enqueue_time BY <1>3 DEF NextSendTime, Speaks
  <2> QED BY <1>3, <2>4, <2>5, <2>6, <2>7 DEF Speaks
<1>4. ASSUME ~Speaks(c), c.paused \/ c.packet_counter = 0
                         \/ (Empty(c.packet_queue) /\ c.padding_rate = 0)
      PROVE  NextSendTime(c) = Silence(c)
  BY <1>4 DEF NextSendTime, Speaks, Silence
<1>5. ASSUME ~Speaks(c), ~(c.paused \/ c.packet_counter = 0
                           \/ (Empty(c.packet_queue) /\ c.padding_rate = 0))
      PROVE  /\ NextSendTime(c) \in Nat /\ NextSendTime(c) <= Silence(c)
             /\ NextSendTime(c) = Silence(c) \/ NextSendTime(c) >= c.last_process_time
  <2>1. NextSendTime(c) = Min({Silence(c), c.last_process_time + DrainTime(c)})
    BY <1>5 DEF NextSendTime, Speaks, Silence
  <2>2. DrainTime(c) \in Nat BY <1>1, <1>5, DrainTimeFacts
  <2>3. c.last_process_time \in Nat BY <1>1, ControllerTypes
  <2> DEFINE t == c.last_process_time + DrainTime(c)
  <2>4. t \in Nat /\ t >= c.last_process_time BY <2>2, <2>3
  <2>5. NextSendTime(c) = Min({Silence(c), t}) BY <2>1
  <2> HIDE DEF t
  <2>6. Min({Silence(c), t}) = IF Silence(c) <= t THEN Silence(c) ELSE t
    <3>1. \A x, y \in Int : Min({x, y}) = IF x <= y THEN x ELSE y BY MaxMinOfTwo
    <3>2. Silence(c) \in Int /\ t \in Int BY <1>2, <2>4
    <3> QED BY <3>1, <3>2
  <2> QED BY <1>2, <2>3, <2>4, <2>5, <2>6
<1>6. c.paused => ~Speaks(c) BY DEF Speaks
<1>7. Silence(c) <= Silence(c) BY <1>2
<1> QED BY <1>2, <1>3, <1>4, <1>5, <1>6, <1>7

(* To be paid for later does not bring the next packet forward: the time   *)
(* that has passed is that much more than what it has paid for.            *)
LEMMA DrainUntilFacts ==
  ASSUME NEW c, NEW now \in Nat, ControllerOK(c, now), NEW until \in Nat
  PROVE  LET d == DrainUntil(c, until)
         IN /\ ControllerOK(d, now)
            /\ d.paused = c.paused /\ d.packet_queue = c.packet_queue
            /\ d.packet_counter = c.packet_counter /\ d.last_send_time = c.last_send_time
            /\ ~Speaks(c) => NextSendTime(d) >= NextSendTime(c)
<1> DEFINE e == Elapsed(c, until)
           u == Processed(c, until)
           d == DrainUntil(c, until)
           lp == c.last_process_time
<1>1. c \in Controllers BY DEF ControllerOK
<1>2. lp \in Nat BY <1>1, ControllerTypes
<1>3. e \in Nat /\ Max({lp, until}) \in Nat /\ lp <= Max({lp, until}) - e
  <2>1. MaxElapsedTime \in Nat BY PacingAssumption
  <2> DEFINE z == AtLeastZero(until - lp)
  <2>2. z = IF until - lp >= 0 THEN until - lp ELSE 0 BY <1>2, MaxMinOfTwo DEF AtLeastZero
  <2> HIDE DEF z, lp
  <2>3. z \in Nat BY <1>2, <2>2
  <2>4. e = Min({z, MaxElapsedTime}) BY DEF Elapsed, z, lp
  <2>5. Min({z, MaxElapsedTime}) = IF z <= MaxElapsedTime THEN z ELSE MaxElapsedTime
    BY <2>1, <2>3, MaxMinOfTwo
  <2>6. Max({lp, until}) = IF lp >= until THEN lp ELSE until BY <1>2, MaxMinOfTwo
  <2> HIDE DEF e
  <2> QED BY <1>2, <2>1, <2>2, <2>3, <2>4, <2>5, <2>6
<1>4. /\ u \in Controllers /\ u.last_process_time = Max({lp, until})
      /\ u = [c EXCEPT !.last_process_time = Max({lp, until})]
  <2>1. u = [c EXCEPT !.last_process_time = Max({lp, until})] BY <1>1 DEF Processed, Controllers
  <2> HIDE DEF u
  <2> QED BY <1>1, <1>3, <2>1 DEF Controllers
<1> HIDE DEF u, e
<1>5. d = UpdateBudgetWithElapsedTime(u, e) BY DEF DrainUntil, u, e
<1>6. /\ d \in Controllers /\ SameButDebts(u, d)
      /\ d.media_debt >= u.media_debt - u.media_rate * e
      /\ d.padding_debt >= u.padding_debt - u.padding_rate * e
  BY <1>3, <1>4, <1>5, PaidFacts
<1> HIDE DEF d
<1>7. /\ u.paused = c.paused /\ u.packet_queue = c.packet_queue
      /\ u.packet_counter = c.packet_counter /\ u.last_send_time = c.last_send_time
      /\ u.media_debt = c.media_debt /\ u.padding_debt = c.padding_debt
      /\ u.media_rate = c.media_rate /\ u.padding_rate = c.padding_rate
  BY <1>1, <1>4 DEF Controllers
<1>8. /\ d.paused = c.paused /\ d.packet_queue = c.packet_queue
      /\ d.packet_counter = c.packet_counter /\ d.last_send_time = c.last_send_time
      /\ d.media_rate = c.media_rate /\ d.padding_rate = c.padding_rate
      /\ d.last_process_time = Max({lp, until})
  BY ZenonT(60), <1>4, <1>6, <1>7, SameFacts
<1>9. ControllerOK(d, now) BY <1>6, <1>8 DEF ControllerOK
<1>10. ASSUME ~Speaks(c) PROVE NextSendTime(d) >= NextSendTime(c)
  <2>1. ~Speaks(d) /\ Silence(d) = Silence(c) BY <1>8, <1>10 DEF Speaks, Silence
  <2> DEFINE plain == c.paused \/ c.packet_counter = 0
                      \/ (Empty(c.packet_queue) /\ c.padding_rate = 0)
  <2>2. Silence(c) \in Nat /\ NextSendTime(c) \in Nat /\ NextSendTime(c) <= Silence(c)
    BY <1>10, NextSendTimeFacts
  <2>3. CASE plain
    <3>1. NextSendTime(d) = Silence(d) BY <1>8, <2>1, <2>3 DEF NextSendTime, Silence, Speaks
    <3> QED BY <2>1, <2>2, <3>1
  <2>4. CASE ~plain
    <3> DEFINE t == lp + DrainTime(c)
               v == d.last_process_time + DrainTime(d)
    <3>1. DrainTime(c) \in Nat /\ DrainTime(d) \in Nat
      BY <1>1, <1>6, <1>8, <2>4, DrainTimeFacts
    <3>2. DrainTime(d) >= DrainTime(c) - e
      <4>1. /\ c.media_debt \in Nat /\ c.media_rate \in Nat \ {0} /\ d.media_debt \in Int
            /\ c.padding_debt \in Nat /\ c.padding_rate \in Nat /\ d.padding_debt \in Int
        BY <1>1, <1>6, ControllerTypes
      <4>2. d.media_debt \div d.media_rate >= (c.media_debt \div c.media_rate) - e
        BY <1>3, <1>6, <1>7, <1>8, <4>1, DivFacts
      <4>3. c.media_debt \div c.media_rate \in Nat /\ d.media_debt \div d.media_rate \in Int
        BY <4>1, <1>8
      <4>4. CASE Empty(c.packet_queue)
        <5>1. c.padding_rate \in Nat \ {0} BY <2>4, <4>4, <4>1
        <5>2. d.padding_debt \div d.padding_rate >= (c.padding_debt \div c.padding_rate) - e
          BY <1>3, <1>6, <1>7, <1>8, <4>1, <5>1, DivFacts
        <5>3. c.padding_debt \div c.padding_rate \in Nat /\ d.padding_debt \div d.padding_rate \in Int
          BY <4>1, <5>1, <1>8
        <5> DEFINE a == c.media_debt \div c.media_rate
                   b == c.padding_debt \div c.padding_rate
                   f == d.media_debt \div d.media_rate
                   g == d.padding_debt \div d.padding_rate
        <5>4. DrainTime(c) = Max({a, b}) /\ DrainTime(d) = Max({f, g})
          BY <4>4, <1>8 DEF DrainTime
        <5>5. a \in Int /\ b \in Int /\ f \in Int /\ g \in Int /\ f >= a - e /\ g >= b - e
          BY <4>2, <4>3, <5>2, <5>3
        <5> HIDE DEF a, b, f, g
        <5>6. /\ Max({a, b}) = IF a >= b THEN a ELSE b
              /\ Max({f, g}) = IF f >= g THEN f ELSE g BY <5>5, MaxMinOfTwo
        <5> QED BY <5>4, <5>5, <5>6, <1>3
      <4>5. CASE ~Empty(c.packet_queue) BY <4>2, <4>5, <1>8 DEF DrainTime
      <4> QED BY <4>4, <4>5
    <3>3. t \in Nat /\ v \in Nat /\ t <= v
      <4>1. d.last_process_time \in Nat /\ lp <= d.last_process_time - e BY <1>3, <1>8
      <4> HIDE DEF lp
      <4> QED BY <4>1, <3>1, <3>2, <1>2, <1>3
    <3>4. NextSendTime(c) = Min({Silence(c), t})
      BY <1>10, <2>4 DEF NextSendTime, Speaks, Silence
    <3>5. NextSendTime(d) = Min({Silence(c), v})
      BY <2>1, <2>4, <1>8 DEF NextSendTime, Speaks, Silence
    <3> HIDE DEF t, v
    <3>6. /\ Min({Silence(c), t}) = IF Silence(c) <= t THEN Silence(c) ELSE t
          /\ Min({Silence(c), v}) = IF Silence(c) <= v THEN Silence(c) ELSE v
      BY <2>2, <3>3, MaxMinOfTwo
    <3> QED BY <2>2, <3>3, <3>4, <3>5, <3>6
  <2> QED BY <2>3, <2>4
<1> QED BY <1>8, <1>9, <1>10 DEF d

(* What a step on the controller may do without touching the packets.      *)
SamePackets(c, d) ==
  /\ QueuedPackets(d.packet_queue) = QueuedPackets(c.packet_queue)
  /\ d.packet_counter = c.packet_counter

(* What packets of the types T have been added to c.                       *)
Grown(c, d, T) ==
  /\ d.last_send_time = c.last_send_time /\ d.paused = c.paused
  /\ d.packet_counter >= c.packet_counter
  /\ QueuedPackets(c.packet_queue) \subseteq QueuedPackets(d.packet_queue)
  /\ \A p \in QueuedPackets(d.packet_queue) \ QueuedPackets(c.packet_queue) :
       p.order >= c.packet_counter /\ p.type \in T

(* Pausing and resuming, with the queue told of it.                        *)
LEMMA SetPausedFacts ==
  ASSUME NEW c, NEW now \in Nat, ControllerOK(c, now), NEW paused \in BOOLEAN
  PROVE  LET d == [c EXCEPT !.paused = paused,
                            !.packet_queue = SetPauseState(@, paused, now)]
         IN /\ ControllerOK(d, now) /\ d.paused = paused
            /\ d.last_send_time = c.last_send_time /\ SamePackets(c, d)
<1> DEFINE q == SetPauseState(c.packet_queue, paused, now)
           d == [c EXCEPT !.paused = paused, !.packet_queue = q]
<1>1. c \in Controllers /\ QueueOK(c.packet_queue, c.packet_counter, now) /\ c.packet_counter \in Nat
  BY ControllerTypes DEF ControllerOK
<1>2. now <= now OBVIOUS
<1>3. /\ QueueOK(q, c.packet_counter, now) /\ QueuedPackets(q) = QueuedPackets(c.packet_queue)
  BY <1>1, <1>2, PauseFacts
<1> HIDE DEF q
<1>4. q \in Queues BY <1>3 DEF QueueOK
<1>5. d \in Controllers BY <1>1, <1>4 DEF Controllers
<1>6. /\ d.paused = paused /\ d.packet_queue = q /\ d.packet_counter = c.packet_counter
      /\ d.last_send_time = c.last_send_time
  BY <1>1 DEF Controllers
<1> HIDE DEF d
<1>7. ControllerOK(d, now) BY <1>3, <1>5, <1>6 DEF ControllerOK, AudioIsAudio
<1> QED BY <1>3, <1>6, <1>7 DEF SamePackets, d, q

(* Pause and Resume.                                                       *)
LEMMA PausedFacts ==
  ASSUME NEW c, NEW now \in Nat, ControllerOK(c, now)
  PROVE  /\ ControllerOK(Pause(c, now), now) /\ Pause(c, now).paused
         /\ Pause(c, now).last_send_time = c.last_send_time /\ SamePackets(c, Pause(c, now))
         /\ ControllerOK(Resume(c, now), now)
         /\ Resume(c, now).last_send_time = c.last_send_time /\ SamePackets(c, Resume(c, now))
<1>1. TRUE \in BOOLEAN /\ FALSE \in BOOLEAN OBVIOUS
<1>2. /\ ControllerOK(Pause(c, now), now) /\ Pause(c, now).paused = TRUE
      /\ Pause(c, now).last_send_time = c.last_send_time /\ SamePackets(c, Pause(c, now))
  BY <1>1, SetPausedFacts DEF Pause
<1>3. /\ ControllerOK(Resume(c, now), now)
      /\ Resume(c, now).last_send_time = c.last_send_time /\ SamePackets(c, Resume(c, now))
  BY <1>1, SetPausedFacts DEF Resume
<1> QED BY <1>2, <1>3

(* Other rates.                                                            *)
LEMMA RatesFacts ==
  ASSUME NEW c, NEW now \in Nat, ControllerOK(c, now), NEW rate \in Nat \ {0}, NEW padding \in Nat
  PROVE  LET d == SetPacingRates(c, rate, padding)
         IN /\ ControllerOK(d, now)
            /\ d.last_send_time = c.last_send_time /\ SamePackets(c, d)
<1> DEFINE d == SetPacingRates(c, rate, padding)
<1>1. c \in Controllers BY DEF ControllerOK
<1>2. d \in Controllers BY <1>1 DEF Controllers, SetPacingRates
<1>3. /\ d.packet_queue = c.packet_queue /\ d.packet_counter = c.packet_counter
      /\ d.last_send_time = c.last_send_time
  BY <1>1 DEF Controllers, SetPacingRates
<1> HIDE DEF d
<1> QED BY <1>2, <1>3 DEF ControllerOK, SamePackets, d

(* A pacer that had nothing to send forgets the time it waited.            *)
LEMMA FastForwardFacts ==
  ASSUME NEW c, NEW now \in Nat, ControllerOK(c, now)
  PROVE  LET d == FastForward(c, now)
         IN /\ ControllerOK(d, now) /\ d.paused = c.paused
            /\ d.last_send_time = c.last_send_time
            /\ d.packet_queue = c.packet_queue /\ d.packet_counter = c.packet_counter
<1> DEFINE target == Min({now, NextSendTime(c)})
           u == DrainUntil(c, target)
           d == [u EXCEPT !.last_process_time = target]
<1>1. target \in Nat
  <2>1. NextSendTime(c) \in Nat BY NextSendTimeFacts
  <2> QED BY <2>1, MaxMinOfTwo
<1> HIDE DEF target
<1>2. /\ ControllerOK(u, now) /\ u.paused = c.paused /\ u.packet_queue = c.packet_queue
      /\ u.packet_counter = c.packet_counter /\ u.last_send_time = c.last_send_time
  BY <1>1, DrainUntilFacts
<1> HIDE DEF u
<1>3. u \in Controllers BY <1>2 DEF ControllerOK
<1>4. d \in Controllers BY <1>1, <1>3 DEF Controllers
<1>5. /\ d.paused = u.paused /\ d.packet_queue = u.packet_queue
      /\ d.packet_counter = u.packet_counter /\ d.last_send_time = u.last_send_time
  BY <1>3 DEF Controllers
<1>6. d = FastForward(c, now) BY DEF FastForward, target, u
<1> HIDE DEF d
<1>7. ControllerOK(d, now) BY <1>2, <1>4, <1>5 DEF ControllerOK
<1> QED BY <1>2, <1>5, <1>6, <1>7

(* One packet is added: that packet, but for the times and the place it    *)
(* is given.                                                               *)
Joined(c, d, p) ==
  /\ Grown(c, d, {p.type})
  /\ \E packet \in Packets :
       /\ QueuedPackets(d.packet_queue) = QueuedPackets(c.packet_queue) \cup {packet}
       /\ packet.type = p.type /\ packet.ssrc = p.ssrc /\ packet.seq = p.seq

(* A packet enqueued is the last in order, and the only one added.         *)
LEMMA EnqueuePacketFacts ==
  ASSUME NEW c, NEW now \in Nat, ControllerOK(c, now), NEW p \in Packets,
         p.type = "audio" => p.ssrc = "audio"
  PROVE  LET d == EnqueuePacket(c, p, now)
         IN ControllerOK(d, now) /\ Joined(c, d, p)
<1> DEFINE f == IF Empty(c.packet_queue) THEN FastForward(c, now) ELSE c
           n == c.packet_counter
           p2 == [p EXCEPT !.priority = Priority(p.type), !.order = n, !.enqueue_time = now]
           q == c.packet_queue
           r == Push(q, p2)
           d == EnqueuePacket(c, p, now)
<1>1. /\ ControllerOK(f, now) /\ f.paused = c.paused /\ f.last_send_time = c.last_send_time
      /\ f.packet_queue = q /\ f.packet_counter = n
  BY FastForwardFacts
<1>2. n \in Nat /\ QueueOK(q, n, now) /\ AudioIsAudio(q) BY ControllerTypes DEF ControllerOK
<1>3. /\ p2 \in Packets /\ p2.order = n /\ p2.enqueue_time = now /\ p2.type = p.type
      /\ p2.priority = Priority(p2.type) /\ p2.ssrc = p.ssrc /\ p2.seq = p.seq
  <2>1. Priority(p.type) \in Nat
    <3>1. p.type \in Types BY DEF Packets
    <3> QED BY <3>1 DEF Priority, Types
  <2> HIDE DEF n
  <2> QED BY <2>1, <1>2 DEF Packets
<1> HIDE DEF p2, n, f, q
<1>4. QueueOK(r, n + 1, now) /\ \E packet \in Packets :
                 /\ packet = [p2 EXCEPT !.enqueue_time = packet.enqueue_time]
                 /\ QueuedPackets(r) = QueuedPackets(q) \cup {packet}
  <2>1. now <= now OBVIOUS
  <2> QED BY <2>1, <1>2, <1>3, PushFacts
<1>5. PICK packet \in Packets :
                 /\ packet = [p2 EXCEPT !.enqueue_time = packet.enqueue_time]
                 /\ QueuedPackets(r) = QueuedPackets(q) \cup {packet}
  BY <1>4
<1>6. packet.order = n /\ packet.type = p.type /\ packet.ssrc = p.ssrc /\ packet.seq = p.seq
  BY <1>3, <1>5 DEF Packets
<1> HIDE DEF r
<1>7. f \in Controllers BY <1>1 DEF ControllerOK
<1>8. d = [f EXCEPT !.packet_counter = n + 1, !.packet_queue = r]
  <2>1. d = [f EXCEPT !.packet_counter = @ + 1, !.packet_queue = Push(@, p2)]
    BY DEF EnqueuePacket, f, p2, n
  <2> HIDE DEF d
  <2> QED BY <2>1, <1>1, <1>7 DEF r, Controllers
<1> HIDE DEF d
<1>9. r \in Queues BY <1>4 DEF QueueOK
<1>10. n + 1 \in Nat /\ n + 1 >= n BY <1>2
<1>11. d \in Controllers BY <1>7, <1>8, <1>9, <1>10 DEF Controllers
<1>12. /\ d.packet_queue = r /\ d.packet_counter = n + 1
       /\ d.paused = c.paused /\ d.last_send_time = c.last_send_time
  BY <1>1, <1>7, <1>8 DEF Controllers
<1>13. AudioIsAudio(r) BY <1>2, <1>5, <1>6 DEF AudioIsAudio
<1>14. ControllerOK(d, now) BY <1>4, <1>11, <1>12, <1>13 DEF ControllerOK
<1>15. Grown(c, d, {p.type})
  <2>1. n >= n BY <1>2
  <2> QED BY <2>1, <1>5, <1>6, <1>10, <1>12 DEF Grown, n, q
<1>16. QueuedPackets(d.packet_queue) = QueuedPackets(c.packet_queue) \cup {packet}
  BY <1>5, <1>12 DEF q
<1>17. Joined(c, d, p) BY <1>6, <1>15, <1>16 DEF Joined
<1> QED BY <1>14, <1>17 DEF d

(* The times stamped by a packet that is sent.                             *)
LEMMA StampedFacts ==
  ASSUME NEW b, NEW now \in Nat, ControllerOK(b, now), NEW time \in Nat
  PROVE  LET d == [b EXCEPT !.last_send_time = time, !.last_process_time = time]
         IN /\ ControllerOK(d, now) /\ d.last_send_time = time /\ d.last_process_time = time
            /\ d.paused = b.paused /\ d.packet_queue = b.packet_queue
            /\ d.packet_counter = b.packet_counter
<1> DEFINE d == [b EXCEPT !.last_send_time = time, !.last_process_time = time]
<1>1. b \in Controllers BY DEF ControllerOK
<1>2. d \in Controllers BY <1>1 DEF Controllers
<1>3. /\ d.last_send_time = time /\ d.last_process_time = time
      /\ d.paused = b.paused /\ d.packet_queue = b.packet_queue
      /\ d.packet_counter = b.packet_counter
  BY <1>1 DEF Controllers
<1> HIDE DEF d
<1>4. ControllerOK(d, now) BY <1>2, <1>3 DEF ControllerOK
<1> QED BY <1>3, <1>4 DEF d

(* The budget after some bytes.                                            *)
LEMMA BudgetFacts ==
  ASSUME NEW c, NEW now \in Nat, ControllerOK(c, now), NEW size \in Nat
  PROVE  LET b == UpdateBudgetWithSentData(c, size)
         IN /\ ControllerOK(b, now) /\ b.paused = c.paused
            /\ b.packet_queue = c.packet_queue /\ b.packet_counter = c.packet_counter
<1>1. c \in Controllers BY DEF ControllerOK
<1> QED BY <1>1, SentFacts, SameFacts

(* A packet was sent.                                                      *)
LEMMA PacketSentFacts ==
  ASSUME NEW c, NEW now \in Nat, ControllerOK(c, now), NEW time \in Nat, NEW p, p.size \in Nat
  PROVE  LET d == OnPacketSent(c, p, time)
         IN /\ ControllerOK(d, now) /\ d.last_send_time = time /\ d.last_process_time = time
            /\ d.paused = c.paused /\ d.packet_queue = c.packet_queue
            /\ d.packet_counter = c.packet_counter
<1> DEFINE b == IF p.type = "audio" THEN c ELSE UpdateBudgetWithSentData(c, p.size)
<1>1. /\ ControllerOK(b, now) /\ b.paused = c.paused
      /\ b.packet_queue = c.packet_queue /\ b.packet_counter = c.packet_counter
  BY BudgetFacts
<1>2. OnPacketSent(c, p, time) = [b EXCEPT !.last_send_time = time, !.last_process_time = time]
  BY DEF OnPacketSent
<1> HIDE DEF b
<1> DEFINE e == [b EXCEPT !.last_send_time = time, !.last_process_time = time]
<1>3. ControllerOK(b, now) BY <1>1
<1>4. /\ ControllerOK(e, now) /\ e.last_send_time = time /\ e.last_process_time = time
      /\ e.paused = b.paused /\ e.packet_queue = b.packet_queue
      /\ e.packet_counter = b.packet_counter
  BY <1>3, StampedFacts
<1>5. OnPacketSent(c, p, time) = e BY <1>2
<1> HIDE DEF e
<1> QED BY <1>1, <1>4, <1>5

(* Padding was sent.                                                       *)
LEMMA PaddingSentFacts ==
  ASSUME NEW c, NEW now \in Nat, ControllerOK(c, now), NEW size \in Nat
  PROVE  LET d == OnPaddingSent(c, size, now)
         IN /\ ControllerOK(d, now) /\ d.last_send_time = now /\ d.last_process_time = now
            /\ d.paused = c.paused /\ d.packet_queue = c.packet_queue
            /\ d.packet_counter = c.packet_counter
<1> DEFINE b == IF size > 0 THEN UpdateBudgetWithSentData(c, size) ELSE c
<1>1. /\ ControllerOK(b, now) /\ b.paused = c.paused
      /\ b.packet_queue = c.packet_queue /\ b.packet_counter = c.packet_counter
  BY BudgetFacts
<1>2. OnPaddingSent(c, size, now) = [b EXCEPT !.last_send_time = now, !.last_process_time = now]
  BY DEF OnPaddingSent
<1> HIDE DEF b
<1> DEFINE e == [b EXCEPT !.last_send_time = now, !.last_process_time = now]
<1>3. ControllerOK(b, now) BY <1>1
<1>4. /\ ControllerOK(e, now) /\ e.last_send_time = now /\ e.last_process_time = now
      /\ e.paused = b.paused /\ e.packet_queue = b.packet_queue
      /\ e.packet_counter = b.packet_counter
  BY <1>3, StampedFacts
<1>5. OnPaddingSent(c, size, now) = e BY <1>2
<1> HIDE DEF e
<1> QED BY <1>1, <1>4, <1>5

(* The rate that would empty the queue in time is a rate.                  *)
LEMMA RateNeededFacts ==
  ASSUME NEW c, NEW now \in Nat, ControllerOK(c, now), c.packet_queue.size # 0
  PROVE  /\ RateNeeded(c) \in Nat \ {0}
<1> DEFINE q == c.packet_queue
           x == Max({1, QueueTimeLimit - AverageQueueTime(q)})
<1>1. c \in Controllers /\ q \in Queues /\ Counted(q) BY DEF ControllerOK, QueueOK
<1>2. q.size_packets \in Nat /\ q.queue_time_sum \in Int /\ q.size \in Int
  BY <1>1, QueueTypes
<1>3. q.size_packets # 0 BY <1>1, EmptyFacts DEF Empty
<1>4. AverageQueueTime(q) \in Int
  <2> HIDE DEF q
  <2> QED BY <1>2, <1>3 DEF AverageQueueTime
<1>5. x \in Nat \ {0}
  <2>1. QueueTimeLimit - AverageQueueTime(q) \in Int BY <1>4, PacingAssumption
  <2> DEFINE y == QueueTimeLimit - AverageQueueTime(q)
  <2> HIDE DEF y
  <2>2. y \in Int BY <2>1 DEF y
  <2>3. Max({1, y}) \in Nat \ {0} BY <2>2, MaxMinOfTwo
  <2> QED BY <2>3 DEF y
<1> HIDE DEF x, q
<1>6. q.size \div x \in Int BY <1>2, <1>5
<1> DEFINE z == q.size \div x
<1>7. RateNeeded(c) = Max({c.pacing_bitrate, z}) BY DEF RateNeeded, x, q
<1>8. c.pacing_bitrate \in Nat \ {0} BY <1>1, ControllerTypes
<1>9. z \in Int BY <1>6
<1> HIDE DEF z
<1> QED BY <1>7, <1>8, <1>9, MaxMinOfTwo

(* The media rate is raised to empty the queue in time.                    *)
LEMMA AdjustedFacts ==
  ASSUME NEW c, NEW now \in Nat, ControllerOK(c, now)
  PROVE  LET d == AdjustedRate(c, now)
         IN /\ ControllerOK(d, now) /\ SamePackets(c, d)
            /\ d.paused = c.paused /\ d.last_send_time = c.last_send_time
<1> DEFINE q == UpdateQueueTime(c.packet_queue, now)
           u == IF c.packet_queue.size = 0 THEN c ELSE [c EXCEPT !.packet_queue = q]
           rate == RateNeeded(u)
           d == [u EXCEPT !.media_rate = rate]
<1>1. c \in Controllers /\ c.packet_counter \in Nat /\ QueueOK(c.packet_queue, c.packet_counter, now)
  BY ControllerTypes DEF ControllerOK
<1>2. /\ ControllerOK(u, now) /\ SamePackets(c, u) /\ u.paused = c.paused
      /\ u.last_send_time = c.last_send_time /\ u.packet_queue.size = c.packet_queue.size
  <2>1. CASE c.packet_queue.size = 0 BY <2>1 DEF SamePackets
  <2>2. CASE c.packet_queue.size # 0
    <3>1. u = [c EXCEPT !.packet_queue = q] BY <2>2
    <3>2. QueueOK(q, c.packet_counter, now)
      <4>1. now <= now OBVIOUS
      <4> QED BY <4>1, <1>1, UpdateFacts
    <3>3. QueuedPackets(q) = QueuedPackets(c.packet_queue) /\ q.size = c.packet_queue.size
      BY <1>1, UpdateLeaves DEF QueueOK
    <3> HIDE DEF q, u
    <3>4. q \in Queues BY <3>2 DEF QueueOK
    <3>5. u \in Controllers BY <1>1, <3>1, <3>4 DEF Controllers
    <3>6. /\ u.packet_queue = q /\ u.paused = c.paused /\ u.last_send_time = c.last_send_time
          /\ u.packet_counter = c.packet_counter
      BY <1>1, <3>1 DEF Controllers
    <3> QED BY <3>2, <3>3, <3>5, <3>6 DEF ControllerOK, SamePackets, AudioIsAudio
  <2> QED BY <2>1, <2>2
<1>3. d = AdjustedRate(c, now) BY DEF AdjustedRate
<1> HIDE DEF u
<1>4. u \in Controllers BY <1>2 DEF ControllerOK
<1>5. rate \in Nat \ {0}
  <2>1. CASE u.packet_queue.size = 0
    <3>1. rate = u.pacing_bitrate BY <2>1 DEF RateNeeded
    <3> QED BY <3>1, <1>4, ControllerTypes
  <2>2. CASE u.packet_queue.size # 0 BY <2>2, <1>2, RateNeededFacts
  <2> QED BY <2>1, <2>2
<1> HIDE DEF rate
<1>6. d \in Controllers BY <1>4, <1>5 DEF Controllers
<1>7. /\ d.packet_queue = u.packet_queue /\ d.paused = u.paused
      /\ d.last_send_time = u.last_send_time /\ d.packet_counter = u.packet_counter
  BY <1>4 DEF Controllers
<1> HIDE DEF d
<1>8. ControllerOK(d, now) BY <1>2, <1>6, <1>7 DEF ControllerOK
<1>9. SamePackets(c, d) BY <1>2, <1>7 DEF SamePackets
<1> QED BY <1>2, <1>3, <1>7, <1>8, <1>9

(* The start of a round that was late.                                     *)
LEMMA RewoundFacts ==
  ASSUME NEW c, NEW now \in Nat, ControllerOK(c, now)
  PROVE  LET r == Rewound(c)
         IN /\ ControllerOK(r, now) /\ r.packet_queue = c.packet_queue /\ r.paused = c.paused
            /\ r.packet_counter = c.packet_counter /\ r.last_send_time = c.last_send_time
            /\ r.last_process_time = c.last_process_time
<1> DEFINE e == AtLeastZero(c.last_process_time - NextSendTime(c))
           r == Rewound(c)
<1>1. c \in Controllers BY DEF ControllerOK
<1>2. e \in Nat
  <2>1. c.last_process_time \in Nat /\ NextSendTime(c) \in Nat
    BY <1>1, ControllerTypes, NextSendTimeFacts
  <2>2. c.last_process_time - NextSendTime(c) \in Int BY <2>1
  <2>3. \A x \in Int : AtLeastZero(x) \in Nat BY MaxMinOfTwo DEF AtLeastZero
  <2> QED BY <2>2, <2>3
<1>3. r = UpdateBudgetWithElapsedTime(c, e) BY DEF Rewound
<1> HIDE DEF r, e
<1>4. r \in Controllers /\ SameButDebts(c, r) BY <1>1, <1>2, <1>3, PaidFacts
<1> QED BY <1>1, <1>4, SameFacts DEF r

(* What ProcessPackets does before its loop.                               *)
LEMMA BegunFacts ==
  ASSUME NEW c, NEW now \in Nat, ControllerOK(c, now), NEW padding \in Nat
  PROVE  LET b == Begun(c, now, padding)
         IN /\ ControllerOK(b, now) /\ SamePackets(c, b) /\ b.paused = c.paused
            /\ b.last_send_time >= c.last_send_time
<1> DEFINE r == Rewound(c)
           p == Processed(r, now)
           k == IF ~KeepaliveDue(p, now) THEN p
                ELSE IF p.packet_counter = 0 THEN [p EXCEPT !.last_send_time = now]
                ELSE OnPaddingSent(p, padding, now)
           b == IF c.paused \/ Elapsed(r, now) = 0 THEN k ELSE AdjustedRate(k, now)
<1>1. b = Begun(c, now, padding) BY DEF Begun
<1>2. c.last_send_time \in Nat BY ControllerTypes DEF ControllerOK
<1>3. /\ ControllerOK(r, now) /\ r.packet_queue = c.packet_queue /\ r.paused = c.paused
      /\ r.packet_counter = c.packet_counter /\ r.last_send_time = c.last_send_time
  BY RewoundFacts
<1> HIDE DEF r
<1>4. /\ ControllerOK(p, now) /\ p.packet_queue = c.packet_queue /\ p.paused = c.paused
      /\ p.packet_counter = c.packet_counter /\ p.last_send_time = c.last_send_time
  <2> DEFINE m == Max({r.last_process_time, now})
  <2>1. r \in Controllers BY <1>3 DEF ControllerOK
  <2>2. m \in Nat
    <3>1. r.last_process_time \in Nat BY <2>1, ControllerTypes
    <3> QED BY <3>1, MaxMinOfTwo
  <2>3. p = [r EXCEPT !.last_process_time = m] BY <2>1 DEF Processed, Controllers
  <2> HIDE DEF m, p
  <2>4. p \in Controllers BY <2>1, <2>2, <2>3 DEF Controllers
  <2>5. /\ p.packet_queue = r.packet_queue /\ p.paused = r.paused
        /\ p.packet_counter = r.packet_counter /\ p.last_send_time = r.last_send_time
    BY <2>1, <2>3 DEF Controllers
  <2> QED BY <2>4, <2>5, <1>3 DEF ControllerOK
<1> HIDE DEF p
<1>5. /\ ControllerOK(k, now) /\ k.packet_queue = c.packet_queue /\ k.paused = c.paused
      /\ k.packet_counter = c.packet_counter /\ k.last_send_time >= c.last_send_time
  <2>1. CASE ~KeepaliveDue(p, now)
    <3>1. k = p BY <2>1
    <3> HIDE DEF k
    <3> QED BY <3>1, <1>2, <1>4
  <2>2. CASE KeepaliveDue(p, now)
    <3>1. now >= c.last_send_time
      <4>1. now - c.last_send_time >= PausedProcessInterval BY <2>2, <1>4 DEF KeepaliveDue
      <4> QED BY <4>1, <1>2, PacingAssumption
    <3>2. CASE p.packet_counter = 0
      <4>1. k = [p EXCEPT !.last_send_time = now] BY <2>2, <3>2
      <4> HIDE DEF k
      <4>2. p \in Controllers BY <1>4 DEF ControllerOK
      <4>3. k \in Controllers BY <4>1, <4>2 DEF Controllers
      <4>4. /\ k.packet_queue = p.packet_queue /\ k.paused = p.paused
            /\ k.packet_counter = p.packet_counter /\ k.last_send_time = now
        BY <4>1, <4>2 DEF Controllers
      <4> QED BY <4>3, <4>4, <3>1, <1>4 DEF ControllerOK
    <3>3. CASE p.packet_counter # 0
      <4>1. k = OnPaddingSent(p, padding, now) BY <2>2, <3>3
      <4> HIDE DEF k
      <4>3. /\ ControllerOK(k, now) /\ k.last_send_time = now
            /\ k.paused = p.paused /\ k.packet_queue = p.packet_queue
            /\ k.packet_counter = p.packet_counter
        BY <4>1, <1>4, PaddingSentFacts
      <4> QED BY <4>3, <3>1, <1>4
    <3> QED BY <3>2, <3>3
  <2> QED BY <2>1, <2>2
<1> HIDE DEF k
<1>6. SamePackets(c, k) BY <1>5 DEF SamePackets
<1>7. CASE c.paused \/ Elapsed(r, now) = 0
  <2>1. b = k BY <1>7
  <2> QED BY <2>1, <1>1, <1>5, <1>6
<1>8. CASE ~(c.paused \/ Elapsed(r, now) = 0)
  <2>1. b = AdjustedRate(k, now) BY <1>8
  <2> HIDE DEF b
  <2>2. /\ ControllerOK(b, now) /\ SamePackets(k, b)
        /\ b.paused = k.paused /\ b.last_send_time = k.last_send_time
    BY <2>1, <1>5, AdjustedFacts
  <2>3. SamePackets(c, b) BY <2>2, <1>6 DEF SamePackets
  <2> QED BY <2>2, <2>3, <1>1, <1>5
<1> QED BY <1>7, <1>8

(* Packets enqueued one after the other, as FoldLeft does it.              *)
LEMMA GreatestIsMax ==
  ASSUME NEW n \in Nat, NEW s, s \subseteq 1..n, s # {}
  PROVE  Max(s) \in s /\ \A x \in s : x <= Max(s)
<1> DEFINE T == {m \in Nat : \A x \in s : x <= m}
<1>1. n \in T OBVIOUS
<1>2. PICK m \in T : \A k \in T : m <= k BY <1>1, LeastOf
<1>3. m \in s
  <2>1. SUFFICES ASSUME m \notin s PROVE FALSE OBVIOUS
  <2>2. \A x \in s : x \in Nat /\ x <= m /\ x # m /\ x >= 1 BY <2>1
  <2>3. m >= 1 /\ m \in Nat
    <3>1. PICK x \in s : TRUE OBVIOUS
    <3>2. m \in Nat OBVIOUS
    <3> QED BY <3>1, <3>2, <2>2
  <2>4. m - 1 \in T BY <2>2, <2>3
  <2>5. m <= m - 1 BY <1>2, <2>4
  <2> QED BY <2>3, <2>5
<1>4. \E x \in s : \A y \in s : x >= y BY <1>2, <1>3
<1> QED BY <1>4 DEF Max

Enqueuing(g, c, ps, now, D) ==
  g = [s \in D |-> IF s = {} THEN c
                   ELSE EnqueuePacket(g[s \ {Max(s)}], ps[Max(s)], now)]

(* Such a function exists, by induction on the number of packets.          *)
LEMMA EnqueuingExists ==
  ASSUME NEW n \in Nat, NEW c, NEW ps, NEW now
  PROVE  \E g : Enqueuing(g, c, ps, now, SUBSET (1..n))
<1> DEFINE S == 1..n
           T == {k \in Nat : ~\E g : Enqueuing(g, c, ps, now, UpTo(S, k))}
<1>5. IsFiniteSet(S) BY FS_Interval
<1>1. \A s \in SUBSET S : s # {} => Max(s) \in s BY GreatestIsMax
<1> HIDE DEF S
<1>2. T = {}
  <2>1. SUFFICES ASSUME T # {} PROVE FALSE OBVIOUS
  <2>2. PICK k \in T : \A i \in T : k <= i BY <2>1, LeastOf
  <2>3. k \in Nat /\ ~\E g : Enqueuing(g, c, ps, now, UpTo(S, k)) OBVIOUS
  <2>4. k # 0
    <3>1. \A s \in UpTo(S, 0) : s = {}
      <4> TAKE s \in UpTo(S, 0)
      <4>1. s \in SUBSET S /\ Cardinality(s) <= 0 BY DEF UpTo
      <4>2. IsFiniteSet(s) /\ Cardinality(s) \in Nat BY <4>1, <1>5, FS_Subset, FS_CardinalityType
      <4> QED BY <4>1, <4>2, FS_EmptySet
    <3>2. Enqueuing([s \in UpTo(S, 0) |-> c], c, ps, now, UpTo(S, 0)) BY <3>1 DEF Enqueuing
    <3> QED BY <3>2, <2>3
  <2>5. k - 1 \in Nat /\ k - 1 < k BY <2>3, <2>4
  <2>6. k - 1 \notin T BY <2>2, <2>5
  <2>7. PICK g : Enqueuing(g, c, ps, now, UpTo(S, k - 1)) BY <2>5, <2>6
  <2> DEFINE h == [s \in UpTo(S, k) |-> IF s = {} THEN c
                     ELSE EnqueuePacket(g[s \ {Max(s)}], ps[Max(s)], now)]
  <2>8. \A s \in UpTo(S, k - 1) : s \in UpTo(S, k) /\ h[s] = g[s]
    <3> TAKE s \in UpTo(S, k - 1)
    <3>1. s \in UpTo(S, k)
      <4>1. s \in SUBSET S /\ Cardinality(s) <= k - 1 BY DEF UpTo
      <4>2. Cardinality(s) \in Nat BY <4>1, <1>5, FS_Subset, FS_CardinalityType
      <4> QED BY <4>1, <4>2, <2>3 DEF UpTo
    <3>2. g[s] = IF s = {} THEN c ELSE EnqueuePacket(g[s \ {Max(s)}], ps[Max(s)], now)
      BY <2>7 DEF Enqueuing
    <3> QED BY <3>1, <3>2
  <2>9. \A s \in UpTo(S, k) : s # {} => s \ {Max(s)} \in UpTo(S, k - 1)
    <3> SUFFICES ASSUME NEW s \in UpTo(S, k), s # {}
                 PROVE  s \ {Max(s)} \in UpTo(S, k - 1) OBVIOUS
    <3>1. s \in SUBSET S /\ Cardinality(s) <= k BY DEF UpTo
    <3>2. IsFiniteSet(s) /\ Cardinality(s) \in Nat BY <3>1, <1>5, FS_Subset, FS_CardinalityType
    <3>3. Max(s) \in s BY <3>1, <1>1
    <3>4. Cardinality(s \ {Max(s)}) = Cardinality(s) - 1 BY <3>2, <3>3, FS_RemoveElement
    <3> QED BY <3>1, <3>2, <3>4, <2>3 DEF UpTo
  <2>10. Enqueuing(h, c, ps, now, UpTo(S, k))
    <3>1. \A s \in UpTo(S, k) : s # {} => g[s \ {Max(s)}] = h[s \ {Max(s)}] BY <2>8, <2>9
    <3>2. h = [s \in UpTo(S, k) |-> IF s = {} THEN c
                     ELSE EnqueuePacket(h[s \ {Max(s)}], ps[Max(s)], now)]
      BY <3>1
    <3> HIDE DEF h
    <3> QED BY <3>2 DEF Enqueuing
  <2> QED BY <2>3, <2>10
<1>3. Cardinality(S) \in Nat /\ UpTo(S, Cardinality(S)) = SUBSET S
  BY <1>5, FS_CardinalityType, FS_Subset DEF UpTo
<1>4. Cardinality(S) \notin T BY <1>2
<1> QED BY <1>3, <1>4 DEF S

(* The controllers between the packets of a list.                          *)
Stages(d, c, ps, n, now) ==
  /\ d[0] = c /\ d[n] = EnqueueAll(c, ps, now)
  /\ \A k \in 1..n : d[k] = EnqueuePacket(d[k - 1], ps[k], now)

(* EnqueueAll goes through one controller for each packet.                 *)
LEMMA EnqueueAllStages ==
  ASSUME NEW ps, NEW n \in Nat, DOMAIN ps = 1..n, NEW c, NEW now
  PROVE  \E d : Stages(d, c, ps, n, now)
<1> DEFINE F(g) == g = [s \in SUBSET DOMAIN ps |-> IF s = {} THEN c
                          ELSE LET x == Max(s) IN EnqueuePacket(g[s \ {x}], ps[x], now)]
           G == CHOOSE g : F(g)
<1>1. EnqueueAll(c, ps, now) = G[DOMAIN ps] BY DEF EnqueueAll, FoldLeft, MapThenFoldSet
<1>2. ASSUME NEW g PROVE F(g) <=> Enqueuing(g, c, ps, now, SUBSET (1..n)) BY DEF Enqueuing
<1>3. \E g : F(g)
  <2> HIDE DEF F
  <2> QED BY <1>2, EnqueuingExists
<1>4. Enqueuing(G, c, ps, now, SUBSET (1..n))
  <2> HIDE DEF F
  <2> QED BY <1>2, <1>3
<1> HIDE DEF G
<1>5. \A s \in SUBSET (1..n) : G[s] = IF s = {} THEN c
                     ELSE EnqueuePacket(G[s \ {Max(s)}], ps[Max(s)], now)
  BY <1>4 DEF Enqueuing
<1> DEFINE d == [k \in 0..n |-> G[1..k]]
<1>6. d[0] = c
  <2>1. 1..0 = {} /\ 0 \in 0..n OBVIOUS
  <2>2. G[{}] = c BY <1>5
  <2> QED BY <2>1, <2>2
<1>7. d[n] = EnqueueAll(c, ps, now)
  <2>1. n \in 0..n OBVIOUS
  <2> QED BY <2>1, <1>1
<1>8. ASSUME NEW k \in 1..n PROVE d[k] = EnqueuePacket(d[k - 1], ps[k], now)
  <2>1. k \in 0..n /\ k - 1 \in 0..n /\ k \in 1..k /\ 1..k \subseteq 1..n OBVIOUS
  <2>2. Max(1..k) = k
    <3> DEFINE s == 1..k
    <3>1. s \subseteq 1..n /\ k \in s /\ \A x \in s : x <= k /\ x \in Nat BY <2>1
    <3> HIDE DEF s
    <3>2. Max(s) \in s /\ \A x \in s : x <= Max(s) BY <3>1, GreatestIsMax
    <3>3. Max(s) <= k /\ k <= Max(s) /\ Max(s) \in Nat BY <3>1, <3>2
    <3>4. Max(s) = k BY <3>3
    <3> QED BY <3>4 DEF s
  <2>3. (1..k) \ {k} = 1..(k - 1) OBVIOUS
  <2>4. G[1..k] = EnqueuePacket(G[(1..k) \ {k}], ps[k], now)
    <3>1. 1..k # {} BY <2>1
    <3> QED BY <3>1, <2>1, <2>2, <1>5
  <2>5. d[k] = G[1..k] /\ d[k - 1] = G[1..(k - 1)] BY <2>1
  <2> QED BY <2>3, <2>4, <2>5
<1> HIDE DEF d
<1>9. Stages(d, c, ps, n, now) BY <1>6, <1>7, <1>8 DEF Stages
<1> QED BY <1>9

(* A list of one packet adds that packet.                                  *)
LEMMA OneStage ==
  ASSUME NEW c, NEW now, NEW ps, NEW n \in Nat, DOMAIN ps = 1..n
  PROVE  n = 1 => EnqueueAll(c, ps, now) = EnqueuePacket(c, ps[1], now)
<1>1. PICK d : Stages(d, c, ps, n, now) BY EnqueueAllStages
<1> HAVE n = 1
<1>2. 1 \in 1..n /\ 1 - 1 = 0 OBVIOUS
<1>3. d[1] = EnqueuePacket(d[1 - 1], ps[1], now) BY <1>1, <1>2 DEF Stages
<1>4. d[1] = EnqueuePacket(d[0], ps[1], now) BY <1>2, <1>3
<1> QED BY <1>1, <1>4 DEF Stages

LEMMA OneEnqueued ==
  ASSUME NEW c, NEW now \in Nat, ControllerOK(c, now), NEW ps \in Seq(Packets), Len(ps) = 1,
         ps[1].type # "audio"
  PROVE  Joined(c, EnqueueAll(c, ps, now), ps[1])
<1>1. ps[1] \in Packets /\ (ps[1].type = "audio" => ps[1].ssrc = "audio") OBVIOUS
<1>2. Joined(c, EnqueuePacket(c, ps[1], now), ps[1]) BY <1>1, EnqueuePacketFacts
<1> DEFINE n == Len(ps)
<1>3. n \in Nat /\ DOMAIN ps = 1..n /\ n = 1 OBVIOUS
<1> HIDE DEF n
<1>4. EnqueueAll(c, ps, now) = EnqueuePacket(c, ps[1], now) BY <1>3, OneStage
<1> QED BY <1>2, <1>4

(* Packets added to what was added.                                        *)
LEMMA GrownTransitive ==
  ASSUME NEW b, NEW c, NEW d, NEW S, NEW T, Grown(b, c, S), Grown(c, d, T), S \subseteq T,
         b.packet_counter \in Nat, c.packet_counter \in Nat, d.packet_counter \in Nat,
         \A p \in QueuedPackets(d.packet_queue) : p.order \in Nat
  PROVE  Grown(b, d, T)
BY DEF Grown

(* The numbers of a sound controller and of its packets.                   *)
LEMMA ControllerNumbers ==
  ASSUME NEW c, NEW now, ControllerOK(c, now)
  PROVE  /\ c.packet_counter \in Nat
         /\ \A p \in QueuedPackets(c.packet_queue) :
              /\ p \in Packets /\ p.order \in Nat /\ p.order < c.packet_counter
              /\ p.enqueue_time \in Nat /\ p.type \in Types /\ p.priority = Priority(p.type)
<1>1. c.packet_counter \in Nat /\ c.packet_queue \in Queues BY ControllerTypes DEF ControllerOK
<1> SUFFICES ASSUME NEW p \in QueuedPackets(c.packet_queue)
             PROVE  /\ p \in Packets /\ p.order \in Nat /\ p.order < c.packet_counter
                    /\ p.enqueue_time \in Nat /\ p.type \in Types /\ p.priority = Priority(p.type)
  BY <1>1
<1>2. p \in Packets BY <1>1, QueuedWhere
<1>3. p.order \in Nat /\ p.enqueue_time \in Nat /\ p.type \in Types BY <1>2 DEF Packets
<1>4. p.order < c.packet_counter /\ p.priority = Priority(p.type)
  BY DEF ControllerOK, QueueOK, Arrived
<1> QED BY <1>2, <1>3, <1>4

(* All the packets are added, and no other.                                *)
LEMMA EnqueueAllFacts ==
  ASSUME NEW c, NEW now \in Nat, ControllerOK(c, now), NEW ps \in Seq(Packets), NEW T,
         \A i \in DOMAIN ps : ps[i].type \in T /\ (ps[i].type = "audio" => ps[i].ssrc = "audio")
  PROVE  LET d == EnqueueAll(c, ps, now)
         IN ControllerOK(d, now) /\ Grown(c, d, T)
<1> DEFINE n == Len(ps)
<1>1. n \in Nat /\ DOMAIN ps = 1..n OBVIOUS
<1> HIDE DEF n
<1>2. PICK d : /\ d[0] = c /\ d[n] = EnqueueAll(c, ps, now)
               /\ \A k \in 1..n : d[k] = EnqueuePacket(d[k - 1], ps[k], now)
  <2>1. \E d : Stages(d, c, ps, n, now) BY <1>1, EnqueueAllStages
  <2> QED BY <2>1 DEF Stages
<1> DEFINE Good(k) == ControllerOK(d[k], now) /\ Grown(c, d[k], T)
           Bad == {k \in 0..n : ~Good(k)}
<1>3. Good(0)
  <2>1. c.packet_counter \in Nat BY ControllerNumbers
  <2>2. c.packet_counter >= c.packet_counter BY <2>1
  <2> QED BY <1>2, <2>2 DEF Grown
<1>4. ASSUME NEW k \in 1..n, Good(k - 1) PROVE Good(k)
  <2>1. ps[k] \in Packets /\ k \in DOMAIN ps BY <1>1
  <2>2. ps[k].type \in T /\ (ps[k].type = "audio" => ps[k].ssrc = "audio") BY <2>1
  <2>3. d[k] = EnqueuePacket(d[k - 1], ps[k], now) BY <1>2
  <2>4. ControllerOK(d[k - 1], now) BY <1>4
  <2>5. ControllerOK(d[k], now) /\ Grown(d[k - 1], d[k], {ps[k].type})
    <3>1. ControllerOK(d[k], now) /\ Joined(d[k - 1], d[k], ps[k])
      BY <2>1, <2>2, <2>3, <2>4, EnqueuePacketFacts
    <3> QED BY <3>1 DEF Joined
  <2>6. Grown(d[k - 1], d[k], T) BY <2>2, <2>5 DEF Grown
  <2>7. Grown(c, d[k], T)
    <3>1. /\ c.packet_counter \in Nat /\ d[k - 1].packet_counter \in Nat
          /\ d[k].packet_counter \in Nat
          /\ \A p \in QueuedPackets(d[k].packet_queue) : p.order \in Nat
      BY <2>4, <2>5, ControllerNumbers
    <3>2. Grown(c, d[k - 1], T) BY <1>4
    <3> QED BY <2>6, <3>1, <3>2, GrownTransitive
  <2> QED BY <2>5, <2>7
<1> HIDE DEF Good
<1>5. Bad = {}
  <2>1. SUFFICES ASSUME Bad # {} PROVE FALSE OBVIOUS
  <2>2. Bad \subseteq Nat OBVIOUS
  <2>3. PICK k \in Bad : \A i \in Bad : k <= i BY <2>1, <2>2, LeastOf
  <2>4. k \in 0..n /\ ~Good(k) OBVIOUS
  <2>5. k # 0 BY <2>4, <1>3
  <2>6. k \in 1..n /\ k - 1 \in 0..n /\ ~(k <= k - 1) BY <2>4, <2>5, <1>1
  <2>7. Good(k - 1) BY <2>3, <2>6
  <2> QED BY <2>4, <2>6, <2>7, <1>4
<1>6. Good(n) BY <1>1, <1>5
<1> QED BY <1>2, <1>6 DEF Good

-----------------------------------------------------------------------------
(* The pacer's tasks.                                                      *)
Loops == [for : {"process", "stats"}, now : Nat, target : Nat, previous : Nat]

TimersOK(S, now) ==
  \A tm \in S : tm.due \in Int /\ (tm.due <= now => now <= tm.due + Lateness)

Waiting(S, at) == \E tm \in S : tm.t = "process" /\ tm.at = at

Soon(t) == next_process_time < t + HoldBackWindow

PacerOK ==
  /\ ControllerOK(pacing_controller, clock)
  /\ next_process_time \in Nat \cup {Never}
  /\ loop = Idle \/ loop \in Loops
  /\ TimersOK(timers, clock)

(* Idle, the pacer wakes in time for the next packet and for the end of    *)
(* the silence; before the first task it has no timer at all.              *)
WakesWhenIdle ==
  IF next_process_time = Never THEN timers = {} /\ tasks # <<>> /\ tasks[1] = StartTask
  ELSE Soon(NextSendTime(pacing_controller)) /\ Soon(Silence(pacing_controller))

(* In the loop of the stats' task, it wakes in time for every target the   *)
(* loop may still come to.                                                 *)
WakesInStats ==
  /\ next_process_time # Never
  /\ Soon(loop.target) /\ Soon(loop.now) /\ Soon(Silence(pacing_controller))
  /\ \A p \in QueuedPackets(pacing_controller.packet_queue) :
       p.type = "audio" => Soon(p.enqueue_time)

Waking ==
  /\ next_process_time # Never => Waiting(timers, next_process_time)
  /\ loop = Idle => WakesWhenIdle
  /\ loop # Idle => /\ ~pacing_controller.paused /\ loop.now = clock
                    /\ loop.for = "stats" => WakesInStats

(* The statistics post at most their own timer.                            *)
LEMMA StatsAddATimer ==
  ASSUME NEW c, NEW s, NEW pending, UpdateStats(c, s, pending)
  PROVE  timers' = pending \/ timers' = pending \cup {StatsTimer}
BY DEF UpdateStats

(* A timer just posted is not late.                                        *)
LEMMA NewTimersOK ==
  ASSUME clock \in Nat, NEW pending, TimersOK(pending, clock)
  PROVE  /\ TimersOK(pending \cup {StatsTimer}, clock)
         /\ \A at \in Nat : /\ TimersOK(pending \cup {ProcessTimer(at)}, clock)
                            /\ Waiting(pending \cup {ProcessTimer(at)}, at)
<1>1. HoldBackWindow \in Nat \ {0} /\ StatsInterval \in Nat \ {0} BY PacedSenderAssumption
<1>2. StatsTimer.due \in Int /\ ~(StatsTimer.due <= clock) BY <1>1 DEF StatsTimer
<1>3. ASSUME NEW at \in Nat
      PROVE  /\ ProcessTimer(at).due \in Int /\ ~(ProcessTimer(at).due <= clock)
             /\ ProcessTimer(at).t = "process" /\ ProcessTimer(at).at = at
  <2> DEFINE x == at - clock
             m == Max({x, HoldBackWindow})
  <2>1. x \in Int OBVIOUS
  <2> HIDE DEF x
  <2>2. m \in Int /\ m >= 1 BY <1>1, <2>1, MaxMinOfTwo
  <2>3. /\ ProcessTimer(at).due = clock + m
        /\ ProcessTimer(at).t = "process" /\ ProcessTimer(at).at = at
    BY DEF ProcessTimer, m, x
  <2> HIDE DEF m
  <2> QED BY <2>2, <2>3
<1>4. TimersOK(pending \cup {StatsTimer}, clock) BY <1>2 DEF TimersOK
<1>5. \A at \in Nat : /\ TimersOK(pending \cup {ProcessTimer(at)}, clock)
                      /\ Waiting(pending \cup {ProcessTimer(at)}, at)
  BY <1>3 DEF TimersOK, Waiting
<1> QED BY <1>4, <1>5

(* A process task that ends schedules the next one in time.                *)
LEMMA FinishProcess ==
  ASSUME clock \in Nat, clock' = clock, NEW c, ControllerOK(c, clock),
         NEW s \in Nat \cup {Never}, NEW pending, TimersOK(pending, clock),
         s # Never => Waiting(pending, s),
         ~Speaks(c) \/ (s # Never /\ s <= NextSendTime(c) /\ s < Silence(c) + HoldBackWindow),
         Finish(c, "process", s, pending)
  PROVE  PacerOK' /\ Waking' /\ pacing_controller' = c
<1> DEFINE next == NextSendTime(c)
           early == s = Never \/ next <= s - HoldBackWindow
           now == IF early THEN pending \cup {ProcessTimer(next)} ELSE pending
<1>1. /\ pacing_controller' = c /\ loop' = Idle
      /\ next_process_time' = IF early THEN next ELSE s
      /\ UpdateStats(c, FALSE, now)
  BY DEF Finish, Reschedule
<1>2. /\ next \in Nat /\ Silence(c) \in Nat /\ (~Speaks(c) => next <= Silence(c))
  BY NextSendTimeFacts
<1>3. HoldBackWindow \in Nat \ {0} BY PacedSenderAssumption
<1> HIDE DEF next
<1>4. TimersOK(now, clock) /\ Waiting(now, next_process_time')
  <2>1. CASE early
    <3>1. now = pending \cup {ProcessTimer(next)} /\ next_process_time' = next BY <2>1, <1>1
    <3> HIDE DEF now, early
    <3> QED BY <3>1, <1>2, NewTimersOK
  <2>2. CASE ~early
    <3>1. now = pending /\ next_process_time' = s /\ s # Never BY <2>2, <1>1
    <3> QED BY <3>1
  <2> QED BY <2>1, <2>2
<1>5. next_process_time' \in Nat
  <2>1. CASE early BY <2>1, <1>1, <1>2
  <2>2. CASE ~early BY <2>2, <1>1
  <2> QED BY <2>1, <2>2
<1>6. /\ next_process_time' < next + HoldBackWindow
      /\ next_process_time' < Silence(c) + HoldBackWindow
  <2>1. CASE s = Never
    <3>1. next_process_time' = next /\ next <= Silence(c) BY <2>1, <1>1, <1>2
    <3> QED BY <3>1, <1>2, <1>3
  <2>2. CASE s # Never
    <3>1. s \in Nat BY <2>2
    <3>2. CASE next <= s - HoldBackWindow
      <4>1. next_process_time' = next BY <3>2, <1>1
      <4>2. ~(s <= next) BY <3>1, <3>2, <1>2, <1>3
      <4>3. next <= Silence(c) BY <4>2, <1>2 DEF next
      <4> QED BY <4>1, <4>3, <1>2, <1>3
    <3>3. CASE ~(next <= s - HoldBackWindow)
      <4>1. next_process_time' = s BY <2>2, <3>3, <1>1
      <4>2. s < next + HoldBackWindow BY <3>1, <3>3, <1>2, <1>3
      <4>3. s < Silence(c) + HoldBackWindow
        <5>1. CASE Speaks(c) BY <5>1
        <5>2. CASE ~Speaks(c)
          <6>1. next <= Silence(c) BY <5>2, <1>2
          <6> QED BY <6>1, <4>2, <3>1, <1>2, <1>3
        <5> QED BY <5>1, <5>2
      <4> QED BY <4>1, <4>2, <4>3
    <3> QED BY <3>2, <3>3
  <2> QED BY <2>1, <2>2
<1> HIDE DEF now
<1>7. timers' = now \/ timers' = now \cup {StatsTimer} BY <1>1, StatsAddATimer
<1>8. TimersOK(timers', clock) /\ Waiting(timers', next_process_time')
  <2>1. TimersOK(now \cup {StatsTimer}, clock) BY <1>4, NewTimersOK
  <2>2. Waiting(now \cup {StatsTimer}, next_process_time') BY <1>4 DEF Waiting
  <2> QED BY <2>1, <2>2, <1>4, <1>7
<1>9. PacerOK' BY <1>1, <1>5, <1>8 DEF PacerOK
<1>10. next_process_time' # Never BY <1>5 DEF Never
<1>11. Waking'
  BY <1>1, <1>6, <1>8, <1>10 DEF Waking, WakesWhenIdle, Soon, next
<1> QED BY <1>1, <1>9, <1>11

(* A statistics task leaves the schedule alone, and it stays in time.      *)
LEMMA FinishStats ==
  ASSUME clock \in Nat, clock' = clock, NEW c, ControllerOK(c, clock),
         NEW s \in Nat, NEW pending, TimersOK(pending, clock), Waiting(pending, s),
         s < NextSendTime(c) + HoldBackWindow, s < Silence(c) + HoldBackWindow,
         Finish(c, "stats", s, pending)
  PROVE  PacerOK' /\ Waking' /\ pacing_controller' = c
<1>1. /\ pacing_controller' = c /\ loop' = Idle /\ next_process_time' = s
      /\ UpdateStats(c, TRUE, pending)
  BY DEF Finish
<1>2. timers' = pending \/ timers' = pending \cup {StatsTimer} BY <1>1, StatsAddATimer
<1>3. TimersOK(timers', clock) /\ Waiting(timers', s)
  <2>1. TimersOK(pending \cup {StatsTimer}, clock) BY NewTimersOK
  <2>2. Waiting(pending \cup {StatsTimer}, s) BY DEF Waiting
  <2> QED BY <2>1, <2>2, <1>2
<1>4. PacerOK' BY <1>1, <1>3 DEF PacerOK
<1>5. s # Never BY DEF Never
<1>6. Waking' BY <1>1, <1>3, <1>5 DEF Waking, WakesWhenIdle, Soon
<1> QED BY <1>1, <1>4, <1>6

(* The state in which the loop starts.                                     *)
LEMMA LoopBegins ==
  ASSUME clock \in Nat, NEW c, ControllerOK(c, clock), ~TooEarly(c, clock), NEW for
  PROVE  LET l == [for |-> for, now |-> clock, target |-> FirstTarget(c),
                   previous |-> Rewound(c).last_process_time]
         IN /\ for \in {"process", "stats"} => l \in Loops /\ l # Idle
            /\ l.for = for /\ l.now = clock /\ l.target = FirstTarget(c)
            /\ FirstTarget(c) \in Nat /\ NextSendTime(c) <= FirstTarget(c)
            /\ NextSendTime(c) <= clock
<1>1. c \in Controllers BY DEF ControllerOK
<1>2. NextSendTime(c) \in Nat /\ c.last_process_time \in Nat
  BY <1>1, NextSendTimeFacts, ControllerTypes
<1>3. FirstTarget(c) \in Nat /\ NextSendTime(c) <= FirstTarget(c)
  <2>1. FirstTarget(c) = IF NextSendTime(c) >= c.last_process_time THEN NextSendTime(c)
                         ELSE c.last_process_time
    BY <1>2, MaxMinOfTwo DEF FirstTarget
  <2> QED BY <2>1, <1>2
<1>4. Rewound(c).last_process_time \in Nat BY <1>2, RewoundFacts
<1>5. NextSendTime(c) <= clock BY <1>2 DEF TooEarly
<1> DEFINE l == [for |-> for, now |-> clock, target |-> FirstTarget(c),
                 previous |-> Rewound(c).last_process_time]
<1>6. l.for = for /\ l.now = clock /\ l.target = FirstTarget(c) OBVIOUS
<1>7. for \in {"process", "stats"} => l \in Loops BY <1>3, <1>4 DEF Loops
<1>8. for \in {"process", "stats"} => l # Idle
  <2>1. Idle.for = "none" BY DEF Idle
  <2> HIDE DEF l
  <2> QED BY <1>6, <2>1
<1> QED BY <1>3, <1>5, <1>6, <1>7, <1>8

(* A process task, up to its loop.                                         *)
LEMMA ProcessRuns ==
  ASSUME clock \in Nat, clock' = clock, NEW c, ControllerOK(c, clock),
         NEW s \in Nat \cup {Never}, NEW pending, TimersOK(pending, clock),
         s # Never => Waiting(pending, s), NEW padding \in Nat,
         ProcessPackets(c, "process", s, pending, padding)
  PROVE  PacerOK' /\ Waking' /\ SamePackets(c, pacing_controller')
<1>1. CASE TooEarly(c, clock)
  <2> DEFINE d == DrainUntil(c, clock)
  <2>1. /\ ControllerOK(d, clock) /\ d.paused = c.paused /\ d.packet_queue = c.packet_queue
        /\ d.packet_counter = c.packet_counter
    BY DrainUntilFacts
  <2>2. Finish(d, "process", s, pending) BY <1>1 DEF ProcessPackets
  <2> HIDE DEF d
  <2>3. ~Speaks(d)
    <3>1. NextSendTime(c) \in Nat /\ (Speaks(c) => NextSendTime(c) <= clock) BY NextSendTimeFacts
    <3>2. ~Speaks(c) BY <3>1, <1>1 DEF TooEarly
    <3> QED BY <3>2, <2>1 DEF Speaks
  <2>4. PacerOK' /\ Waking' /\ pacing_controller' = d BY <2>1, <2>2, <2>3, FinishProcess
  <2> QED BY <2>1, <2>4 DEF SamePackets
<1>2. CASE ~TooEarly(c, clock)
  <2> DEFINE b == Begun(c, clock, padding)
  <2>1. /\ ControllerOK(b, clock) /\ SamePackets(c, b) /\ b.paused = c.paused BY BegunFacts
  <2> HIDE DEF b
  <2>2. CASE c.paused
    <3>1. Finish(b, "process", s, pending) BY <1>2, <2>2 DEF ProcessPackets, b
    <3>2. ~Speaks(b) BY <2>1, <2>2 DEF Speaks
    <3>3. PacerOK' /\ Waking' /\ pacing_controller' = b BY <2>1, <3>1, <3>2, FinishProcess
    <3> QED BY <2>1, <3>3
  <2>3. CASE ~c.paused
    <3> DEFINE l == [for |-> "process", now |-> clock, target |-> FirstTarget(c),
                     previous |-> Rewound(c).last_process_time]
    <3>1. /\ pacing_controller' = b /\ loop' = l /\ next_process_time' = s /\ timers' = pending
      BY <1>2, <2>3 DEF ProcessPackets, b
    <3>2. l \in Loops /\ l # Idle /\ l.for = "process" /\ l.now = clock BY <1>2, LoopBegins
    <3> HIDE DEF l
    <3>3. PacerOK' BY <2>1, <3>1, <3>2 DEF PacerOK
    <3>4. Waking' BY <2>1, <2>3, <3>1, <3>2 DEF Waking
    <3> QED BY <2>1, <3>1, <3>3, <3>4
  <2> QED BY <2>2, <2>3
<1> QED BY <1>1, <1>2

(* If audio speaks first, it is the audio that came first.                 *)
LEMMA AudioSpeaks ==
  ASSUME NEW c, NEW now \in Nat, ControllerOK(c, now), ~c.paused,
         NEW p \in QueuedPackets(c.packet_queue), p.type = "audio"
  PROVE  Speaks(c) /\ NextSendTime(c) <= p.enqueue_time
<1> DEFINE q == c.packet_queue
           t == Top(q)
<1>1. /\ q \in Queues /\ Sorted(q) /\ Scheduled(q) /\ Counted(q)
      /\ Arrived(q, c.packet_counter) /\ AudioIsAudio(q)
  BY DEF ControllerOK, QueueOK
<1>2. t \in QueuedPackets(q) /\ t.priority <= p.priority
      /\ (p.priority = t.priority /\ p.ssrc = t.ssrc => t.order <= p.order)
  BY <1>1, TopFacts
<1>3. /\ p.priority = 1 /\ t.priority = Priority(t.type) /\ t.type \in Types
      /\ p.order \in Nat /\ t.order \in Nat /\ p.enqueue_time \in Nat /\ t.enqueue_time \in Nat
  <2>1. p.priority = Priority(p.type) BY ControllerNumbers
  <2>2. p.priority = 1 BY <2>1 DEF Priority
  <2> QED BY <2>2, <1>2, ControllerNumbers
<1>4. ~Empty(q) BY <1>1, EmptyFacts
<1>5. t.type = "audio"
  <2> HIDE DEF t
  <2> QED BY <1>2, <1>3 DEF Priority, Types
<1>6. t.ssrc = "audio" /\ p.ssrc = "audio" BY <1>1, <1>2, <1>5 DEF AudioIsAudio
<1>7. t.priority = 1 BY <1>3, <1>5 DEF Priority
<1>8. t.order <= p.order BY <1>2, <1>3, <1>6, <1>7
<1>9. t.enqueue_time <= p.enqueue_time
  <2>1. /\ t.order = p.order => t = p
        /\ t.order < p.order => t.enqueue_time <= p.enqueue_time BY <1>1, <1>2 DEF Arrived
  <2> HIDE DEF t
  <2> QED BY <1>3, <1>8, <2>1
<1>10. Speaks(c) BY <1>4, <1>5 DEF Speaks, LeadingAudio
<1>11. NextSendTime(c) = t.enqueue_time BY <1>10, NextSendTimeFacts
<1> QED BY <1>9, <1>10, <1>11

(* A statistics task, up to its loop.                                      *)
LEMMA StatsRuns ==
  ASSUME clock \in Nat, clock' = clock, NEW c, ControllerOK(c, clock),
         NEW s \in Nat, NEW pending, TimersOK(pending, clock), Waiting(pending, s),
         s < NextSendTime(c) + HoldBackWindow, s < Silence(c) + HoldBackWindow,
         NEW padding \in Nat, ProcessPackets(c, "stats", s, pending, padding)
  PROVE  PacerOK' /\ Waking' /\ SamePackets(c, pacing_controller')
<1>1. HoldBackWindow \in Nat /\ PausedProcessInterval \in Nat
  BY PacedSenderAssumption, PacingAssumption
<1>2. NextSendTime(c) \in Nat /\ Silence(c) \in Nat /\ (Speaks(c) => NextSendTime(c) <= clock)
  BY NextSendTimeFacts
<1>3. CASE TooEarly(c, clock)
  <2> DEFINE d == DrainUntil(c, clock)
  <2>1. ~Speaks(c) BY <1>2, <1>3 DEF TooEarly
  <2>2. /\ ControllerOK(d, clock) /\ d.packet_queue = c.packet_queue
        /\ d.packet_counter = c.packet_counter /\ d.last_send_time = c.last_send_time
        /\ NextSendTime(d) >= NextSendTime(c)
    BY <2>1, DrainUntilFacts
  <2>3. Finish(d, "stats", s, pending) BY <1>3 DEF ProcessPackets
  <2> HIDE DEF d
  <2>4. NextSendTime(d) \in Nat BY <2>2, NextSendTimeFacts
  <2>5. s < NextSendTime(d) + HoldBackWindow BY <1>1, <1>2, <2>2, <2>4
  <2>6. s < Silence(d) + HoldBackWindow BY <2>2 DEF Silence
  <2>7. PacerOK' /\ Waking' /\ pacing_controller' = d BY <2>2, <2>3, <2>5, <2>6, FinishStats
  <2> QED BY <2>2, <2>7 DEF SamePackets
<1>4. CASE ~TooEarly(c, clock)
  <2> DEFINE b == Begun(c, clock, padding)
  <2>1. /\ ControllerOK(b, clock) /\ SamePackets(c, b) /\ b.paused = c.paused
        /\ b.last_send_time >= c.last_send_time
    BY BegunFacts
  <2> HIDE DEF b
  <2>2. Silence(b) \in Nat /\ (b.paused => NextSendTime(b) = Silence(b))
    BY <2>1, NextSendTimeFacts
  <2>3. s < Silence(b) + HoldBackWindow
    <3>1. b.last_send_time \in Nat /\ c.last_send_time \in Nat
      BY <2>1, ControllerTypes DEF ControllerOK
    <3> QED BY <3>1, <2>1, <1>1 DEF Silence
  <2>4. CASE c.paused
    <3>1. Finish(b, "stats", s, pending) BY <1>4, <2>4 DEF ProcessPackets, b
    <3>2. s < NextSendTime(b) + HoldBackWindow BY <2>1, <2>2, <2>3, <2>4
    <3>3. PacerOK' /\ Waking' /\ pacing_controller' = b
      BY <2>1, <2>3, <3>1, <3>2, FinishStats
    <3> QED BY <2>1, <3>3
  <2>5. CASE ~c.paused
    <3> DEFINE l == [for |-> "stats", now |-> clock, target |-> FirstTarget(c),
                     previous |-> Rewound(c).last_process_time]
    <3>1. /\ pacing_controller' = b /\ loop' = l /\ next_process_time' = s /\ timers' = pending
      BY <1>4, <2>5 DEF ProcessPackets, b
    <3>2. /\ l \in Loops /\ l # Idle /\ l.for = "stats" /\ l.now = clock
          /\ l.target = FirstTarget(c) /\ FirstTarget(c) \in Nat
          /\ NextSendTime(c) <= FirstTarget(c) /\ NextSendTime(c) <= clock
      BY <1>4, LoopBegins
    <3> HIDE DEF l
    <3>3. PacerOK' BY <2>1, <3>1, <3>2 DEF PacerOK
    <3>4. s < l.target + HoldBackWindow /\ s < l.now + HoldBackWindow BY <1>1, <1>2, <3>2
    <3>5. ASSUME NEW p \in QueuedPackets(b.packet_queue), p.type = "audio"
          PROVE  s < p.enqueue_time + HoldBackWindow
      <4>1. p \in QueuedPackets(c.packet_queue) BY <2>1 DEF SamePackets
      <4>2. NextSendTime(c) <= p.enqueue_time /\ p.enqueue_time \in Nat
        BY <4>1, <2>5, <3>5, AudioSpeaks, ControllerNumbers
      <4> QED BY <4>2, <1>1, <1>2
    <3>6. s # Never BY DEF Never
    <3>7. WakesInStats' BY <2>3, <3>1, <3>4, <3>5, <3>6 DEF WakesInStats, Soon
    <3>8. Waking' BY <2>1, <2>5, <3>1, <3>2, <3>7 DEF Waking
    <3> QED BY <2>1, <3>1, <3>3, <3>8
  <2> QED BY <2>4, <2>5
<1> QED BY <1>3, <1>4

(* MaybeProcessPackets, up to its loop.                                    *)
LEMMA MaybeRuns ==
  ASSUME clock \in Nat, clock' = clock, next_process_time \in Nat \cup {Never},
         NEW c, ControllerOK(c, clock),
         NEW scheduled, NEW pending, TimersOK(pending, clock),
         next_process_time # Never /\ next_process_time # scheduled
           => Waiting(pending, next_process_time) /\ Soon(Silence(c)),
         NEW padding \in Nat, MaybeProcessPackets(c, scheduled, pending, padding)
  PROVE  PacerOK' /\ Waking' /\ SamePackets(c, pacing_controller')
<1> DEFINE left == IF next_process_time = scheduled THEN Never ELSE next_process_time
<1>1. left \in Nat \cup {Never} /\ (left # Never => Waiting(pending, left)) OBVIOUS
<1>2. CASE MustProcess(c, scheduled)
  <2>1. ProcessPackets(c, "process", left, pending, padding) BY <1>2 DEF MaybeProcessPackets
  <2> HIDE DEF left
  <2> QED BY <1>1, <2>1, ProcessRuns
<1>3. CASE ~MustProcess(c, scheduled)
  <2>1. Finish(c, "process", left, pending) BY <1>3 DEF MaybeProcessPackets
  <2>2. NextSendTime(c) \in Nat /\ (Speaks(c) => NextSendTime(c) <= clock) BY NextSendTimeFacts
  <2>3. ~(clock >= NextSendTime(c) /\ (left = Never \/ NextSendTime(c) < left))
    BY <1>3 DEF MustProcess
  <2>4. left # Never => left = next_process_time /\ next_process_time # scheduled OBVIOUS
  <2>5. left # Never => left < Silence(c) + HoldBackWindow BY <2>4 DEF Soon
  <2> HIDE DEF left
  <2>6. ~Speaks(c) \/ (left # Never /\ left <= NextSendTime(c) /\ left < Silence(c) + HoldBackWindow)
    <3> SUFFICES ASSUME Speaks(c)
                 PROVE  left # Never /\ left <= NextSendTime(c)
                        /\ left < Silence(c) + HoldBackWindow
      OBVIOUS
    <3>1. left # Never /\ ~(NextSendTime(c) < left) BY <2>2, <2>3
    <3>2. left \in Nat BY <3>1, <1>1
    <3> QED BY <3>1, <3>2, <2>2, <2>5
  <2>7. PacerOK' /\ Waking' /\ pacing_controller' = c BY <1>1, <2>1, <2>6, FinishProcess
  <2> QED BY <2>7 DEF SamePackets
<1> QED BY <1>2, <1>3

-----------------------------------------------------------------------------
(* A turn of the loop.                                                     *)
LEMMA TurnFacts ==
  ASSUME clock \in Nat, PacerOK, Waking, loop # Idle
  PROVE  /\ loop \in Loops /\ loop.for \in {"process", "stats"}
         /\ loop.now \in Nat /\ loop.target \in Nat /\ loop.previous \in Nat
         /\ Previous \in Nat /\ loop.target <= Previous
         /\ ControllerOK(Turning, clock) /\ ~Turning.paused
         /\ Turning.packet_queue = pacing_controller.packet_queue
         /\ Turning.packet_counter = pacing_controller.packet_counter
         /\ Turning.last_send_time = pacing_controller.last_send_time
<1>1. loop \in Loops BY DEF PacerOK
<1>2. /\ loop.now \in Nat /\ loop.target \in Nat /\ loop.previous \in Nat
      /\ loop.for \in {"process", "stats"}
  BY <1>1 DEF Loops
<1>3. Previous \in Nat /\ loop.target <= Previous BY <1>2, MaxMinOfTwo DEF Previous
<1> DEFINE c == pacing_controller
           x == loop.target - loop.previous
           e == AtLeastZero(x)
<1>4. x \in Int BY <1>2
<1> HIDE DEF x
<1>5. e \in Nat BY <1>4, MaxMinOfTwo DEF AtLeastZero
<1> HIDE DEF e
<1>6. ControllerOK(c, clock) /\ c \in Controllers /\ ~c.paused
  BY DEF PacerOK, ControllerOK, Waking
<1>7. Turning = UpdateBudgetWithElapsedTime(c, e) BY DEF Turning, Turned, e, x
<1>8. Turning \in Controllers /\ SameButDebts(c, Turning) BY <1>5, <1>6, <1>7, PaidFacts
<1>9. /\ ControllerOK(Turning, clock) /\ Turning.paused = c.paused
      /\ Turning.packet_queue = c.packet_queue /\ Turning.packet_counter = c.packet_counter
      /\ Turning.last_send_time = c.last_send_time
  BY <1>6, <1>8, SameFacts
<1> QED BY <1>1, <1>2, <1>3, <1>6, <1>9

(* A turn that sends takes the packet at the top.                          *)
LEMMA SendTurns ==
  ASSUME clock \in Nat, PacerOK, Waking, SendTurn
  PROVE  /\ PacerOK' /\ Waking'
         /\ LET q == pacing_controller.packet_queue
            IN /\ q \in Queues /\ Sorted(q) /\ Scheduled(q) /\ Arrived(q, Turning.packet_counter)
               /\ Top(Turning.packet_queue) = Top(q) /\ Top(q) \in QueuedPackets(q)
               /\ QueuedPackets(pacing_controller'.packet_queue) = QueuedPackets(q) \ {Top(q)}
<1> DEFINE q == pacing_controller.packet_queue
           p == Top(q)
           u == [Turning EXCEPT !.packet_queue = Pop(q)]
           c == OnPacketSent(u, p, loop.target)
           l == [loop EXCEPT !.previous = Previous, !.target = NextTarget(c, loop.now)]
<1>1. loop # Idle /\ GetPendingPacket(Turning, loop) BY DEF SendTurn
<1>2. /\ loop \in Loops /\ loop.for \in {"process", "stats"}
      /\ loop.now \in Nat /\ loop.target \in Nat /\ Previous \in Nat
      /\ ControllerOK(Turning, clock) /\ ~Turning.paused /\ Turning.packet_queue = q
  BY <1>1, TurnFacts
<1>3. /\ pacing_controller' = c /\ loop' = l
      /\ next_process_time' = next_process_time /\ timers' = timers /\ clock' = clock
  <2>1. Turning \in Controllers BY <1>2 DEF ControllerOK
  <2>2. [Turning EXCEPT !.packet_queue = Pop(@)] = u BY <1>2, <2>1 DEF Controllers
  <2> HIDE DEF u
  <2> QED BY <1>2, <2>2 DEF SendTurn
<1>4. /\ Turning \in Controllers /\ q \in Queues /\ Sorted(q) /\ Scheduled(q) /\ Counted(q)
      /\ Arrived(q, Turning.packet_counter) /\ QueueOK(q, Turning.packet_counter, clock)
      /\ AudioIsAudio(q) /\ Turning.packet_counter \in Nat
  BY <1>2, ControllerTypes DEF ControllerOK, QueueOK
<1>5. ~Empty(q) BY <1>1, <1>2 DEF GetPendingPacket
<1>6. p \in QueuedPackets(q) BY <1>4, <1>5, EmptyFacts, TopFacts
<1>7. p.size \in Nat
  <2>1. p \in Packets BY <1>4, <1>6, QueuedWhere
  <2> HIDE DEF p
  <2> QED BY <2>1 DEF Packets
<1>8. /\ QueueOK(Pop(q), Turning.packet_counter, clock)
      /\ QueuedPackets(Pop(q)) = QueuedPackets(q) \ {p}
  BY <1>4, <1>5, PopFacts
<1> HIDE DEF p
<1>9. ControllerOK(u, clock) /\ u.packet_queue = Pop(q) /\ u.paused = Turning.paused
  <2>1. Pop(q) \in Queues BY <1>8 DEF QueueOK
  <2>2. u \in Controllers BY <1>4, <2>1 DEF Controllers
  <2>3. /\ u.packet_queue = Pop(q) /\ u.packet_counter = Turning.packet_counter
        /\ u.paused = Turning.paused
    BY <1>4 DEF Controllers
  <2> HIDE DEF u
  <2>4. AudioIsAudio(Pop(q)) BY <1>4, <1>8 DEF AudioIsAudio
  <2> QED BY <2>2, <2>3, <2>4, <1>8 DEF ControllerOK
<1> HIDE DEF u
<1>10. /\ ControllerOK(c, clock) /\ c.last_send_time = loop.target
       /\ c.last_process_time = loop.target /\ c.paused = u.paused
       /\ c.packet_queue = u.packet_queue
  BY <1>2, <1>7, <1>9, PacketSentFacts
<1> HIDE DEF c
<1>11. NextSendTime(c) \in Nat BY <1>10, NextSendTimeFacts
<1>12. NextTarget(c, loop.now) = IF loop.now <= NextSendTime(c) THEN loop.now ELSE NextSendTime(c)
  <2>1. \A x, y \in Int : Min({x, y}) = IF x <= y THEN x ELSE y BY MaxMinOfTwo
  <2>2. loop.now \in Int /\ NextSendTime(c) \in Int BY <1>2, <1>11
  <2> QED BY <2>1, <2>2 DEF NextTarget
<1>13. /\ l \in Loops /\ l # Idle /\ l.for = loop.for /\ l.now = loop.now
       /\ l.target = NextTarget(c, loop.now)
  <2>1. NextTarget(c, loop.now) \in Nat BY <1>2, <1>11, <1>12
  <2>2. l \in Loops /\ l.for = loop.for /\ l.now = loop.now /\ l.target = NextTarget(c, loop.now)
    BY <1>2, <2>1 DEF Loops
  <2>3. Idle.for = "none" BY DEF Idle
  <2> HIDE DEF l
  <2> QED BY <2>2, <2>3, <1>2
<1> HIDE DEF l
<1>14. PacerOK' BY <1>3, <1>10, <1>13 DEF PacerOK
<1>15. ASSUME loop.for = "stats" PROVE WakesInStats'
  <2> DEFINE s == next_process_time
  <2>1. /\ s # Never /\ Soon(loop.target) /\ Soon(loop.now)
        /\ \A r \in QueuedPackets(q) : r.type = "audio" => Soon(r.enqueue_time)
    BY <1>1, <1>15 DEF Waking, WakesInStats
  <2>2. s \in Nat BY <2>1 DEF PacerOK
  <2>3. HoldBackWindow \in Nat /\ PausedProcessInterval \in Nat
    BY PacedSenderAssumption, PacingAssumption
  <2>4. s < loop.target + HoldBackWindow /\ s < loop.now + HoldBackWindow BY <2>1 DEF Soon
  <2>5. s < Silence(c) + HoldBackWindow BY <2>2, <2>3, <2>4, <1>2, <1>10 DEF Silence
  <2>6. ASSUME NEW r \in QueuedPackets(c.packet_queue), r.type = "audio"
        PROVE  s < r.enqueue_time + HoldBackWindow
    <3>1. r \in QueuedPackets(q) BY <1>8, <1>9, <1>10
    <3> QED BY <3>1, <2>1, <2>6 DEF Soon
  <2>7. s < NextSendTime(c) + HoldBackWindow
    <3>1. CASE Speaks(c)
      <4> DEFINE t == Top(c.packet_queue)
      <4>1. t \in QueuedPackets(c.packet_queue) /\ NextSendTime(c) = t.enqueue_time
        BY <3>1, <1>10, NextSendTimeFacts
      <4>2. t.type = "audio" BY <3>1 DEF Speaks, LeadingAudio
      <4> QED BY <4>1, <4>2, <2>6
    <3>2. CASE ~Speaks(c)
      <4>1. NextSendTime(c) = Silence(c) \/ NextSendTime(c) >= loop.target
        BY <3>2, <1>10, NextSendTimeFacts
      <4> QED BY <4>1, <2>2, <2>3, <2>4, <2>5, <1>2, <1>11
    <3> QED BY <3>1, <3>2
  <2>8. s < NextTarget(c, loop.now) + HoldBackWindow BY <1>12, <2>4, <2>7
  <2> QED BY <1>3, <1>13, <2>1, <2>4, <2>5, <2>6, <2>8 DEF WakesInStats, Soon
<1>16. Waking'
  <2>1. loop.now = clock /\ (next_process_time # Never => Waiting(timers, next_process_time))
    BY <1>1 DEF Waking
  <2>2. ~c.paused BY <1>2, <1>9, <1>10
  <2> QED BY <1>3, <1>13, <1>15, <2>1, <2>2 DEF Waking
<1>17. QueuedPackets(pacing_controller'.packet_queue) = QueuedPackets(q) \ {p}
  BY <1>3, <1>8, <1>9, <1>10
<1> QED BY <1>2, <1>4, <1>6, <1>14, <1>16, <1>17 DEF p

(* A turn that pads enqueues its padding.                                  *)
LEMMA PaddingTurns ==
  ASSUME clock \in Nat, PacerOK, Waking, NEW padding \in Seq(Packets),
         \A i \in DOMAIN padding : padding[i].type = "padding", PaddingTurn(padding)
  PROVE  PacerOK' /\ Waking' /\ Grown(pacing_controller, pacing_controller', {"padding"})
<1> DEFINE c == EnqueueAll(Turning, padding, clock)
           l == [loop EXCEPT !.previous = Previous]
<1>1. /\ loop # Idle /\ pacing_controller' = c /\ loop' = l
      /\ next_process_time' = next_process_time /\ timers' = timers /\ clock' = clock
  BY DEF PaddingTurn
<1>2. /\ loop \in Loops /\ loop.for \in {"process", "stats"} /\ Previous \in Nat
      /\ ControllerOK(Turning, clock) /\ ~Turning.paused
      /\ Turning.packet_queue = pacing_controller.packet_queue
      /\ Turning.packet_counter = pacing_controller.packet_counter
      /\ Turning.last_send_time = pacing_controller.last_send_time
  BY <1>1, TurnFacts
<1>3. ControllerOK(c, clock) /\ Grown(Turning, c, {"padding"})
  <2>1. \A i \in DOMAIN padding :
          padding[i].type \in {"padding"} /\ (padding[i].type = "audio" => padding[i].ssrc = "audio")
    OBVIOUS
  <2> QED BY <1>2, <2>1, EnqueueAllFacts
<1> HIDE DEF c
<1>4. /\ c.last_send_time = pacing_controller.last_send_time /\ ~c.paused
      /\ \A p \in QueuedPackets(c.packet_queue) \ QueuedPackets(pacing_controller.packet_queue) :
           p.type = "padding"
  BY <1>2, <1>3 DEF Grown
<1>5. pacing_controller.paused = Turning.paused BY <1>1, <1>2 DEF Waking, ControllerOK, PacerOK, Controllers
<1>6. Grown(pacing_controller, c, {"padding"}) BY <1>2, <1>3, <1>5 DEF Grown
<1>7. /\ l \in Loops /\ l # Idle /\ l.for = loop.for /\ l.now = loop.now /\ l.target = loop.target
  <2>1. l \in Loops /\ l.for = loop.for /\ l.now = loop.now /\ l.target = loop.target
    BY <1>2 DEF Loops
  <2>2. Idle.for = "none" BY DEF Idle
  <2> HIDE DEF l
  <2> QED BY <2>1, <2>2, <1>2
<1> HIDE DEF l
<1>8. PacerOK' BY <1>1, <1>3, <1>7 DEF PacerOK
<1>9. ASSUME loop.for = "stats" PROVE WakesInStats'
  <2>1. WakesInStats BY <1>1, <1>9 DEF Waking
  <2>2. Silence(c) = Silence(pacing_controller) BY <1>4 DEF Silence
  <2>3. ASSUME NEW p \in QueuedPackets(c.packet_queue), p.type = "audio"
        PROVE  Soon(p.enqueue_time)
    <3>1. p \in QueuedPackets(pacing_controller.packet_queue) BY <1>4, <2>3
    <3> QED BY <3>1, <2>1, <2>3 DEF WakesInStats
  <2> QED BY <1>1, <1>7, <2>1, <2>2, <2>3 DEF WakesInStats, Soon
<1>10. Waking'
  <2>1. loop.now = clock /\ (next_process_time # Never => Waiting(timers, next_process_time))
    BY <1>1 DEF Waking
  <2> QED BY <1>1, <1>4, <1>7, <1>9, <2>1 DEF Waking
<1> QED BY <1>1, <1>6, <1>8, <1>10

(* The last turn schedules the next task, if one is due.                   *)
LEMMA LastTurns ==
  ASSUME clock \in Nat, PacerOK, Waking, NEW padding, LastTurn(padding)
  PROVE  PacerOK' /\ Waking' /\ SamePackets(pacing_controller, pacing_controller')
<1> DEFINE m == Max({Turning.last_process_time, Previous})
           c == [Turning EXCEPT !.last_process_time = m]
           s == next_process_time
<1>1. loop # Idle /\ ~GetPendingPacket(Turning, loop) /\ clock' = clock BY DEF LastTurn
<1>2. /\ loop \in Loops /\ loop.for \in {"process", "stats"} /\ loop.target \in Nat
      /\ Previous \in Nat /\ loop.target <= Previous
      /\ ControllerOK(Turning, clock) /\ ~Turning.paused
      /\ Turning.packet_queue = pacing_controller.packet_queue
      /\ Turning.packet_counter = pacing_controller.packet_counter
      /\ Turning.last_send_time = pacing_controller.last_send_time
  BY <1>1, TurnFacts
<1>3. Turning \in Controllers BY <1>2 DEF ControllerOK
<1>4. m \in Nat /\ loop.target <= m
  <2>1. Turning.last_process_time \in Nat BY <1>3, ControllerTypes
  <2>2. m = IF Turning.last_process_time >= Previous THEN Turning.last_process_time ELSE Previous
    BY <1>2, <2>1, MaxMinOfTwo
  <2> HIDE DEF m
  <2> QED BY <1>2, <2>1, <2>2
<1>5. Finish(c, loop.for, s, timers)
  <2>1. [Turning EXCEPT !.last_process_time = Max({@, Previous})] = c BY <1>3 DEF Controllers
  <2> HIDE DEF c
  <2> QED BY <2>1 DEF LastTurn
<1> HIDE DEF m
<1>6. /\ ControllerOK(c, clock) /\ c.last_process_time = m /\ c.paused = Turning.paused
      /\ c.packet_queue = pacing_controller.packet_queue
      /\ c.packet_counter = pacing_controller.packet_counter
      /\ c.last_send_time = pacing_controller.last_send_time
  <2>1. c \in Controllers BY <1>3, <1>4 DEF Controllers
  <2>2. /\ c.last_process_time = m /\ c.paused = Turning.paused
        /\ c.packet_queue = Turning.packet_queue
        /\ c.packet_counter = Turning.packet_counter
        /\ c.last_send_time = Turning.last_send_time
    BY <1>3 DEF Controllers
  <2> HIDE DEF c
  <2> QED BY <2>1, <2>2, <1>2 DEF ControllerOK
<1> HIDE DEF c
<1>7. ~Speaks(c)
  <2>1. ~LeadingAudio(Turning.packet_queue) BY <1>1 DEF GetPendingPacket, LeadingAudio
  <2> QED BY <2>1, <1>2, <1>6 DEF Speaks
<1>8. s \in Nat \cup {Never} /\ TimersOK(timers, clock) /\ (s # Never => Waiting(timers, s))
  BY DEF PacerOK, Waking
<1>9. CASE loop.for = "process"
  <2>1. PacerOK' /\ Waking' /\ pacing_controller' = c
    BY <1>1, <1>5, <1>6, <1>7, <1>8, <1>9, FinishProcess
  <2> QED BY <2>1, <1>6 DEF SamePackets
<1>10. CASE loop.for = "stats"
  <2>1. WakesInStats BY <1>1, <1>10 DEF Waking
  <2>2. s # Never /\ s < loop.target + HoldBackWindow /\ s < Silence(c) + HoldBackWindow
    BY <2>1, <1>6 DEF WakesInStats, Soon, Silence
  <2>3. s \in Nat BY <2>2, <1>8
  <2>4. NextSendTime(c) \in Nat /\ (NextSendTime(c) = Silence(c) \/ NextSendTime(c) >= m)
    BY <1>6, <1>7, NextSendTimeFacts
  <2>5. s < NextSendTime(c) + HoldBackWindow
    <3>1. HoldBackWindow \in Nat BY PacedSenderAssumption
    <3> QED BY <3>1, <1>2, <1>4, <2>2, <2>3, <2>4
  <2>6. Waiting(timers, s) BY <1>8, <2>2
  <2>7. PacerOK' /\ Waking' /\ pacing_controller' = c
    BY <1>1, <1>5, <1>6, <1>8, <1>10, <2>2, <2>3, <2>5, <2>6, FinishStats
  <2> QED BY <2>7, <1>6 DEF SamePackets
<1> QED BY <1>2, <1>9, <1>10

-----------------------------------------------------------------------------
(* The whole path.                                                         *)
SomePackets == {p \in Packets : p.type = "audio" => p.ssrc = "audio"}

Tasks ==
  {StartTask, [t |-> "pause"], [t |-> "resume"]}
  \cup [t : {"enqueue"}, packets : Seq(SomePackets)]
  \cup [t : {"rates"}, rate : Nat \ {0}, padding : Nat]

Seqs == 0..SeqSpan - 1

NackOK ==
  /\ nack \in [left : Seq(Seqs), stage : {"state", "mark"}]
  /\ nack.stage = "mark" => nack.left # <<>>

IInv ==
  /\ clock \in 0..MaxTime
  /\ PacerOK /\ Waking
  /\ tasks \in Seq(Tasks)
  /\ NackOK
  /\ rtt \in Rtts \cup {-1}
  /\ rejected \subseteq Seqs

(* Every packet the path makes is one the pacer takes.                     *)
LEMMA PacketTypes ==
  /\ 0 \in Seqs
  /\ \A n \in Int : Sequenced(n) \in Seqs
  /\ \A seq \in Seqs, m \in BOOLEAN :
       /\ Packet("video", "video", seq, m) \in SomePackets
       /\ Packet("audio", "audio", seq, m) \in SomePackets
       /\ Packet("padding", "video", seq, m) \in SomePackets
       /\ Packet("retransmission", "video", seq, m) \in SomePackets
  /\ \A type, ssrc, seq, m : /\ Packet(type, ssrc, seq, m).type = type
                             /\ Packet(type, ssrc, seq, m).seq = seq
<1>1. 0 \in Seqs /\ \A n \in Int : Sequenced(n) \in Seqs
  BY HistoryAssumption DEF Seqs, Sequenced
<1>2. SizeOf["video"] \in Nat /\ SizeOf["audio"] \in Nat /\ SizeOf["padding"] \in Nat
  BY SendPathAssumption
<1>3. "video" \in Ssrcs /\ "audio" \in Ssrcs BY SendPathAssumption
<1>4. ASSUME NEW seq \in Seqs, NEW m \in BOOLEAN
      PROVE  /\ Packet("video", "video", seq, m) \in SomePackets
             /\ Packet("audio", "audio", seq, m) \in SomePackets
             /\ Packet("padding", "video", seq, m) \in SomePackets
             /\ Packet("retransmission", "video", seq, m) \in SomePackets
  <2>1. seq \in 0..SeqSpan - 1 BY DEF Seqs
  <2>2. Packet("video", "video", seq, m) \in SomePackets
    BY <1>2, <1>3, <2>1 DEF Packet, SomePackets, Packets, Types
  <2>3. Packet("audio", "audio", seq, m) \in SomePackets
    BY <1>2, <1>3, <2>1 DEF Packet, SomePackets, Packets, Types
  <2>4. Packet("padding", "video", seq, m) \in SomePackets
    BY <1>2, <1>3, <2>1 DEF Packet, SomePackets, Packets, Types
  <2>5. Packet("retransmission", "video", seq, m) \in SomePackets
    BY <1>2, <1>3, <2>1 DEF Packet, SomePackets, Packets, Types
  <2> QED BY <2>2, <2>3, <2>4, <2>5
<1>5. \A type, ssrc, seq, m : /\ Packet(type, ssrc, seq, m).type = type
                              /\ Packet(type, ssrc, seq, m).seq = seq
  BY DEF Packet
<1> QED BY <1>1, <1>4, <1>5

(* Padding is a sequence of packets.                                       *)
LEMMA PaddingFacts ==
  ASSUME NEW size \in Nat
  PROVE  /\ GeneratePadding(size) \in Seq(Packets)
         /\ \A i \in DOMAIN GeneratePadding(size) :
              /\ GeneratePadding(size)[i].type = "padding"
              /\ GeneratePadding(size)[i].seq \in Seqs
         /\ GeneratePadding(size) # <<>> => 1 \in DOMAIN GeneratePadding(size)
<1> DEFINE s == SizeOf["padding"]
           n == (size + s - 1) \div s
           p == Packet("padding", "video", 0, FALSE)
           ps == [i \in 1..n |-> p]
           g == GeneratePadding(size)
<1>1. s \in Nat \ {0} BY SendPathAssumption
<1> HIDE DEF s
<1>2. size + s - 1 \in Nat BY <1>1
<1>3. n \in Nat BY <1>1, <1>2
<1>4. p \in Packets /\ p.type = "padding" /\ p.seq \in Seqs
  <2>1. 0 \in Seqs /\ FALSE \in BOOLEAN BY PacketTypes
  <2>2. p \in SomePackets BY <2>1, PacketTypes
  <2>3. p.type = "padding" /\ p.seq = 0 BY DEF Packet
  <2> HIDE DEF p
  <2> QED BY <2>1, <2>2, <2>3 DEF SomePackets
<1>5. g = ps \/ g = <<>> BY DEF GeneratePadding, s
<1> HIDE DEF n, p, g
<1>6. ps \in Seq(Packets) /\ <<>> \in Seq(Packets) BY <1>3, <1>4
<1>7. \A i \in DOMAIN ps : ps[i] = p OBVIOUS
<1> HIDE DEF ps
<1>8. g \in Seq(Packets) /\ \A i \in DOMAIN g : g[i].type = "padding" /\ g[i].seq \in Seqs
  <2>1. CASE g = ps BY <2>1, <1>4, <1>6, <1>7
  <2>2. CASE g = <<>> BY <2>2, <1>6
  <2> QED BY <2>1, <2>2, <1>5
<1>9. g # <<>> => 1 \in DOMAIN g BY <1>8
<1> QED BY <1>8, <1>9 DEF g

(* Sequence numbers that were rejected are sequence numbers.               *)
LEMMA SendingRejects ==
  ASSUME rejected \subseteq Seqs, NEW p, p.seq \in Seqs, SendPacket(p)
  PROVE  rejected' \subseteq Seqs
BY DEF SendPacket, Egress, ghosts

(* A keepalive rejects only sequence numbers.                              *)
LEMMA KeepingAlive ==
  ASSUME rejected \subseteq Seqs, NEW sends, Keepalive(sends)
  PROVE  rejected' \subseteq Seqs
<1> DEFINE g == GeneratePadding(1)
<1>1. CASE sends /\ g # <<>>
  <2>1. SendPacket(g[1]) BY <1>1 DEF Keepalive
  <2>2. g[1].seq \in Seqs
    <3>1. 1 \in Nat OBVIOUS
    <3> QED BY <3>1, <1>1, PaddingFacts
  <2> HIDE DEF g
  <2> QED BY <2>1, <2>2, SendingRejects
<1>2. CASE ~(sends /\ g # <<>>) BY <1>2 DEF Keepalive, ghosts
<1> QED BY <1>1, <1>2

(* A keepalive has a size.                                                 *)
LEMMA KeepaliveIsSized == KeepaliveSize \in Nat
BY SendPathAssumption DEF KeepaliveSize

-----------------------------------------------------------------------------
(* What other threads do leaves the pacer as it is.                        *)
LEMMA PacerLeft ==
  ASSUME PacerOK, Waking, tasks \in Seq(Tasks),
         UNCHANGED <<clock, pacing_controller, next_process_time, timers, loop>>,
         tasks' = tasks \/ \E task \in Tasks : Post(task)
  PROVE  PacerOK' /\ Waking' /\ tasks' \in Seq(Tasks)
<1>1. PacerOK' BY DEF PacerOK
<1>2. tasks' \in Seq(Tasks) /\ (tasks # <<>> => tasks' # <<>> /\ tasks'[1] = tasks[1])
  <2>1. CASE tasks' = tasks BY <2>1
  <2>2. CASE \E task \in Tasks : Post(task)
    <3>1. PICK task \in Tasks : tasks' = Append(tasks, task) BY <2>2 DEF Post
    <3>2. tasks' \in Seq(Tasks) /\ Len(tasks') = Len(tasks) + 1 BY <3>1
    <3>3. tasks # <<>> => Len(tasks) >= 1 /\ tasks'[1] = tasks[1] BY <3>1
    <3>4. tasks' # <<>> BY <3>2
    <3> QED BY <3>2, <3>3, <3>4
  <2> QED BY <2>1, <2>2
<1>3. WakesWhenIdle => WakesWhenIdle' BY <1>2 DEF WakesWhenIdle, Soon
<1>4. WakesInStats => WakesInStats' BY DEF WakesInStats, Soon
<1>5. Waking' BY <1>3, <1>4 DEF Waking
<1> QED BY <1>1, <1>2, <1>5

(* The application's calls.                                                *)
LEMMA AppKeeps ==
  ASSUME IInv, App
  PROVE  IInv'
<1>1. ASSUME NEW task \in Tasks, Event(task) PROVE IInv'
  <2>1. Post(task) /\ UNCHANGED <<clock, pacing_controller, next_process_time, stats, timers, loop,
                                  historyVars, senderVars, nack, ghosts>>
    BY <1>1 DEF Event
  <2>2. PacerOK' /\ Waking' /\ tasks' \in Seq(Tasks) BY <2>1, PacerLeft DEF IInv
  <2> QED BY <2>1, <2>2 DEF IInv, NackOK, historyVars, ghosts
<1>2. ASSUME NEW type \in {"video", "audio"}, NEW n \in Nat \ {0}, EnqueuePackets(type, n)
      PROVE  IInv'
  <2> DEFINE ps == [i \in 1..n |-> Packet(type, type, 0, i = n)]
             task == [t |-> "enqueue", packets |-> ps]
  <2>1. ps \in Seq(SomePackets)
    <3>1. \A i \in 1..n : Packet(type, type, 0, i = n) \in SomePackets
      <4>1. \A i \in 1..n : (i = n) \in BOOLEAN OBVIOUS
      <4> QED BY <4>1, <1>2, PacketTypes
    <3> QED BY <3>1
  <2> HIDE DEF ps
  <2>2. task \in Tasks BY <2>1 DEF Tasks
  <2>3. Event(task) BY <1>2 DEF EnqueuePackets, Event, ps
  <2> QED BY <2>2, <2>3, <1>1
<1>3. ASSUME \E n \in FrameSizes : EnqueuePackets("video", n) PROVE IInv'
  BY <1>2, <1>3, SendPathAssumption
<1>4. ASSUME EnqueuePackets("audio", 1) PROVE IInv'
  BY <1>2, <1>4
<1>5. ASSUME PostPause \/ PostResume PROVE IInv'
  <2>1. [t |-> "pause"] \in Tasks /\ [t |-> "resume"] \in Tasks BY DEF Tasks
  <2> QED BY <2>1, <1>1, <1>5 DEF PostPause, PostResume
<1>6. ASSUME PostPacingRates PROVE IInv'
  <2>1. PICK r \in Rates : Event([t |-> "rates", rate |-> r[1], padding |-> r[2]])
    BY <1>6 DEF PostPacingRates
  <2>2. r[1] \in Nat \ {0} /\ r[2] \in Nat BY SendPathAssumption
  <2>3. [t |-> "rates", rate |-> r[1], padding |-> r[2]] \in Tasks BY <2>2 DEF Tasks
  <2> QED BY <2>1, <2>3, <1>1
<1>7. ASSUME SetSendingMediaStatus PROVE IInv'
  <2>1. UNCHANGED <<clock, pacerVars, historyVars, sequencer, nack, ghosts>>
    BY <1>7 DEF SetSendingMediaStatus
  <2>2. PacerOK' /\ Waking' /\ tasks' \in Seq(Tasks) BY <2>1, PacerLeft DEF IInv, pacerVars
  <2> QED BY <2>1, <2>2 DEF IInv, NackOK, historyVars, ghosts, pacerVars
<1> QED BY <1>3, <1>4, <1>5, <1>6, <1>7 DEF App

(* What RTCP brings.                                                       *)
LEMMA RtcpKeeps ==
  ASSUME IInv, Rtcp
  PROVE  IInv'
<1>1. /\ nack \in [left : Seq(Seqs), stage : {"state", "mark"}] /\ nack.left \in Seq(Seqs)
      /\ nack.stage = "mark" => nack.left # <<>>
  BY DEF IInv, NackOK
<1>2. nack.left # <<>> => Tail(nack.left) \in Seq(Seqs) /\ nack.left[1] \in Seqs BY <1>1
<1>3. NoNack \in [left : Seq(Seqs), stage : {"state", "mark"}] /\ NoNack.stage = "state"
  BY DEF NoNack
<1>4. CASE OnReceivedNack
  <2>1. PICK list \in Nacks, r \in Rtts :
          /\ nack' = [NoNack EXCEPT !.left = [i \in DOMAIN list |-> Sequenced(FirstSeq + list[i])]]
          /\ SetRtt(r, clock)
    BY <1>4 DEF OnReceivedNack
  <2>2. UNCHANGED <<clock, pacerVars, senderVars, ghosts>> BY <1>4 DEF OnReceivedNack
  <2>3. rtt' = r BY <2>1 DEF SetRtt
  <2> DEFINE left == [i \in DOMAIN list |-> Sequenced(FirstSeq + list[i])]
  <2>4. left \in Seq(Seqs)
    <3>1. list \in Seq(Nat) /\ FirstSeq \in Int BY SendPathAssumption
    <3>2. DOMAIN list = 1..Len(list) /\ Len(list) \in Nat BY <3>1
    <3>3. \A i \in DOMAIN list : Sequenced(FirstSeq + list[i]) \in Seqs
      <4> TAKE i \in DOMAIN list
      <4>1. list[i] \in Nat BY <3>1
      <4>2. FirstSeq + list[i] \in Int BY <4>1, <3>1
      <4> QED BY <4>2, PacketTypes
    <3> QED BY <3>2, <3>3
  <2>5. NackOK'
    <3> HIDE DEF left
    <3>1. nack' = [left |-> left, stage |-> "state"] BY <2>1 DEF NoNack, left
    <3> QED BY <3>1, <2>4 DEF NackOK
  <2>6. PacerOK' /\ Waking' /\ tasks' \in Seq(Tasks) BY <2>2, PacerLeft DEF IInv, pacerVars
  <2> QED BY <2>2, <2>3, <2>5, <2>6 DEF IInv, ghosts
<1>5. CASE GetPacketState
  <2>1. /\ UNCHANGED <<clock, pacerVars, historyVars, senderVars, calls, ghosts>>
        /\ nack.left # <<>> /\ nack.stage = "state"
        /\ \/ nack' = [nack EXCEPT !.stage = "mark"]
           \/ nack' = [nack EXCEPT !.left = Tail(@)]
    BY <1>5 DEF GetPacketState
  <2>2. NackOK' BY <2>1, <1>1, <1>2 DEF NackOK
  <2>3. PacerOK' /\ Waking' /\ tasks' \in Seq(Tasks) BY <2>1, PacerLeft DEF IInv, pacerVars
  <2> QED BY <2>1, <2>2, <2>3 DEF IInv, ghosts, historyVars
<1>6. CASE GetPacketAndMarkAsPending
  <2> DEFINE p == Packet("retransmission", "video", nack.left[1], FALSE)
             task == [t |-> "enqueue", packets |-> <<p>>]
  <2>1. /\ Post(task) /\ nack' = [left |-> Tail(nack.left), stage |-> "state"]
        /\ nack.stage = "mark" /\ UNCHANGED <<clock, pacing_controller, next_process_time, stats,
                                timers, loop, rtt, senderVars, calls, ghosts>>
    BY <1>6 DEF GetPacketAndMarkAsPending
  <2>2. NackOK' BY <2>1, <1>1, <1>2 DEF NackOK
  <2>3. p \in SomePackets BY <2>1, <1>1, <1>2, PacketTypes
  <2> HIDE DEF p
  <2>4. task \in Tasks
    <3>1. <<p>> \in Seq(SomePackets) BY <2>3
    <3> QED BY <3>1 DEF Tasks
  <2>5. PacerOK' /\ Waking' /\ tasks' \in Seq(Tasks) BY <2>1, <2>4, PacerLeft DEF IInv
  <2> QED BY <2>1, <2>2, <2>5 DEF IInv, ghosts
<1>7. CASE GiveUpNack
  <2>1. /\ UNCHANGED <<clock, pacerVars, historyVars, senderVars, calls, ghosts>> /\ nack' = NoNack
    BY <1>7 DEF GiveUpNack
  <2>2. NackOK' BY <2>1, <1>3 DEF NackOK
  <2>3. PacerOK' /\ Waking' /\ tasks' \in Seq(Tasks) BY <2>1, PacerLeft DEF IInv, pacerVars
  <2> QED BY <2>1, <2>2, <2>3 DEF IInv, ghosts, historyVars
<1>8. CASE OnPacketsAcknowledged
  <2>1. UNCHANGED <<clock, pacerVars, rtt, senderVars, nack, ghosts>>
    BY <1>8 DEF OnPacketsAcknowledged
  <2>2. PacerOK' /\ Waking' /\ tasks' \in Seq(Tasks) BY <2>1, PacerLeft DEF IInv, pacerVars
  <2> QED BY <2>1, <2>2 DEF IInv, NackOK, ghosts
<1> QED BY <1>4, <1>5, <1>6, <1>7, <1>8 DEF Rtcp

-----------------------------------------------------------------------------
(* The pacer's queue at work: packets come, but for the one that leaves.   *)
Pushed(c, d) ==
  /\ QueuedPackets(c.packet_queue) \subseteq QueuedPackets(d.packet_queue)
  /\ \A p \in QueuedPackets(d.packet_queue) \ QueuedPackets(c.packet_queue) :
       p.order >= c.packet_counter

(* What comes is of the types T.                                           *)
Adds(c, d, T) ==
  /\ QueuedPackets(c.packet_queue) \subseteq QueuedPackets(d.packet_queue)
  /\ \A p \in QueuedPackets(d.packet_queue) \ QueuedPackets(c.packet_queue) : p.type \in T

(* A controller to which packets were added, and nothing taken.            *)
LEMMA PushedFacts ==
  ASSUME NEW b, NEW c, NEW d, SamePackets(c, d)
  PROVE  /\ SamePackets(b, c) => Pushed(b, d)
         /\ \A T : Grown(b, c, T) => Pushed(b, d)
         /\ Pushed(c, d)
BY DEF SamePackets, Grown, Pushed

(* The arguments of the posted tasks.                                      *)
LEMMA TaskFacts ==
  ASSUME NEW task \in Tasks
  PROVE  /\ task.t = "enqueue" => task.packets \in Seq(SomePackets)
         /\ task.t = "rates" => task.rate \in Nat \ {0} /\ task.padding \in Nat
BY DEF Tasks, StartTask

(* MaybeProcessPackets, with the state of the path.                        *)
LEMMA MaybeKeeps ==
  ASSUME IInv, clock' = clock, NEW c, ControllerOK(c, clock),
         NEW scheduled, NEW pending, TimersOK(pending, clock),
         next_process_time # Never /\ next_process_time # scheduled
           => Waiting(pending, next_process_time) /\ Soon(Silence(c)),
         Maybe(c, scheduled, pending)
  PROVE  PacerOK' /\ Waking' /\ SamePackets(c, pacing_controller') /\ rejected' \subseteq Seqs
<1>1. /\ MaybeProcessPackets(c, scheduled, pending, KeepaliveSize)
      /\ Keepalive(MustProcess(c, scheduled) /\ SendsKeepalive(c))
  BY DEF Maybe
<1>2. clock \in Nat /\ next_process_time \in Nat \cup {Never} /\ rejected \subseteq Seqs
  BY DEF IInv, PacerOK
<1>3. KeepaliveSize \in Nat BY KeepaliveIsSized
<1> DEFINE size == KeepaliveSize
<1>4. size \in Nat /\ MaybeProcessPackets(c, scheduled, pending, size) BY <1>1, <1>3
<1> HIDE DEF size
<1>5. PacerOK' /\ Waking' /\ SamePackets(c, pacing_controller') BY <1>2, <1>4, MaybeRuns
<1>6. rejected' \subseteq Seqs BY <1>1, <1>2, KeepingAlive
<1> QED BY <1>5, <1>6

(* The tasks posted to the pacer.                                          *)
LEMMA RunTaskKeeps ==
  ASSUME IInv, RunTask
  PROVE  /\ IInv' /\ Pushed(pacing_controller, pacing_controller')
         /\ IF tasks[1].t = "enqueue"
              THEN SamePackets(EnqueueAll(pacing_controller, tasks[1].packets, clock),
                               pacing_controller')
              ELSE SamePackets(pacing_controller, pacing_controller')
<1> DEFINE c == pacing_controller
           task == tasks[1]
<1>1. /\ loop = Idle /\ tasks # <<>> /\ tasks' = Tail(tasks) /\ clock' = clock
      /\ UNCHANGED <<rtt, nack>>
  BY DEF RunTask
<1>2. tasks \in Seq(Tasks) /\ task \in Tasks /\ tasks' \in Seq(Tasks) BY <1>1 DEF IInv
<1>3. /\ clock \in Nat /\ ControllerOK(c, clock) /\ TimersOK(timers, clock)
      /\ next_process_time \in Nat \cup {Never} /\ rejected \subseteq Seqs
  BY DEF IInv, PacerOK
<1>4. next_process_time # Never => /\ Waiting(timers, next_process_time)
                                   /\ Soon(NextSendTime(c)) /\ Soon(Silence(c))
  BY <1>1 DEF IInv, Waking, WakesWhenIdle
<1>5. ASSUME PacerOK', Waking', rejected' \subseteq Seqs PROVE IInv'
  BY <1>1, <1>2, <1>5 DEF IInv, NackOK
<1>6. ASSUME NEW d, ControllerOK(d, clock), Silence(d) = Silence(c), Maybe(d, Never, timers)
      PROVE  IInv' /\ SamePackets(d, pacing_controller')
  <2>1. next_process_time # Never /\ next_process_time # Never
           => Waiting(timers, next_process_time) /\ Soon(Silence(d))
    BY <1>4, <1>6
  <2>2. PacerOK' /\ Waking' /\ SamePackets(d, pacing_controller') /\ rejected' \subseteq Seqs
    BY <2>1, <1>1, <1>3, <1>6, MaybeKeeps
  <2> QED BY <2>2, <1>5
<1> HIDE DEF task
<1>7. CASE task.t = "start" /\ Maybe(c, Never, timers)
  <2>1. IInv' /\ SamePackets(c, pacing_controller') BY <1>3, <1>6, <1>7
  <2> QED BY <2>1, <1>7, PushedFacts DEF task
<1>8. CASE task.t = "enqueue" /\ Maybe(EnqueueAll(c, task.packets, clock), Never, timers)
  <2> DEFINE d == EnqueueAll(c, task.packets, clock)
  <2>1. task.packets \in Seq(SomePackets) BY <1>2, <1>8, TaskFacts
  <2>2. /\ task.packets \in Seq(Packets)
        /\ \A i \in DOMAIN task.packets :
             /\ task.packets[i].type \in Types
             /\ task.packets[i].type = "audio" => task.packets[i].ssrc = "audio"
    <3> DEFINE ps == task.packets
    <3>1. ps \in Seq(SomePackets) BY <2>1
    <3> HIDE DEF ps
    <3>2. \A i \in DOMAIN ps : ps[i] \in SomePackets BY <3>1
    <3>3. \A i \in DOMAIN ps : /\ ps[i] \in Packets /\ ps[i].type \in Types
                               /\ ps[i].type = "audio" => ps[i].ssrc = "audio"
      BY <3>2 DEF SomePackets, Packets
    <3>4. ps \in Seq(Packets) BY <3>1, <3>3
    <3> QED BY <3>3, <3>4 DEF ps
  <2>3. ControllerOK(d, clock) /\ Grown(c, d, Types) BY <2>2, <1>3, EnqueueAllFacts
  <2> HIDE DEF d
  <2>4. Silence(d) = Silence(c) BY <2>3 DEF Grown, Silence
  <2>5. Maybe(d, Never, timers) BY <1>8 DEF d
  <2>6. IInv' /\ SamePackets(d, pacing_controller') BY <2>3, <2>4, <2>5, <1>6
  <2> QED BY <2>3, <2>6, <1>8, PushedFacts DEF d, task
<1>9. CASE /\ task.t = "pause" /\ pacing_controller' = Pause(c, clock)
           /\ UNCHANGED <<next_process_time, stats, timers, loop, sequencer, packet_history, ghosts>>
  <2> DEFINE d == Pause(c, clock)
  <2>1. /\ ControllerOK(d, clock) /\ d.paused /\ d.last_send_time = c.last_send_time
        /\ SamePackets(c, d)
    BY <1>3, PausedFacts
  <2>2. next_process_time # Never
    <3>1. StartTask.t = "start" BY DEF StartTask
    <3> QED BY <3>1, <1>1, <1>9 DEF IInv, Waking, WakesWhenIdle, task
  <2> HIDE DEF d
  <2>3. Silence(d) = Silence(c) /\ NextSendTime(d) = Silence(d)
    BY <2>1, <1>3, NextSendTimeFacts DEF Silence
  <2>4. pacing_controller' = d BY <1>9 DEF d
  <2>5. PacerOK' BY <2>1, <2>4, <1>1, <1>9 DEF IInv, PacerOK
  <2>6. Waking' BY <2>2, <2>3, <2>4, <1>1, <1>4, <1>9 DEF Waking, WakesWhenIdle, Soon
  <2>7. rejected' \subseteq Seqs BY <1>3, <1>9 DEF ghosts
  <2> QED BY <2>1, <2>4, <2>5, <2>6, <2>7, <1>5, <1>9, PushedFacts DEF task
<1>10. CASE task.t = "resume" /\ Maybe(Resume(c, clock), Never, timers)
  <2> DEFINE d == Resume(c, clock)
  <2>1. /\ ControllerOK(d, clock) /\ d.last_send_time = c.last_send_time /\ SamePackets(c, d)
    BY <1>3, PausedFacts
  <2>2. Maybe(d, Never, timers) BY <1>10
  <2> HIDE DEF d
  <2>3. Silence(d) = Silence(c) BY <2>1 DEF Silence
  <2>4. IInv' /\ SamePackets(d, pacing_controller') BY <2>1, <2>2, <2>3, <1>6
  <2>5. tasks[1].t # "enqueue" BY <1>10 DEF task
  <2>6. SamePackets(c, pacing_controller') BY <2>1, <2>4 DEF SamePackets
  <2> QED BY <2>4, <2>5, <2>6, PushedFacts
<1>11. CASE task.t = "rates" /\ Maybe(SetPacingRates(c, task.rate, task.padding), Never, timers)
  <2> DEFINE d == SetPacingRates(c, task.rate, task.padding)
  <2>1. task.rate \in Nat \ {0} /\ task.padding \in Nat BY <1>2, <1>11, TaskFacts
  <2>2. /\ ControllerOK(d, clock) /\ d.last_send_time = c.last_send_time /\ SamePackets(c, d)
    BY <2>1, <1>3, RatesFacts
  <2>3. Maybe(d, Never, timers) BY <1>11
  <2> HIDE DEF d
  <2>4. Silence(d) = Silence(c) BY <2>2 DEF Silence
  <2>5. IInv' /\ SamePackets(d, pacing_controller') BY <2>2, <2>3, <2>4, <1>6
  <2>6. tasks[1].t # "enqueue" BY <1>11 DEF task
  <2>7. SamePackets(c, pacing_controller') BY <2>2, <2>5 DEF SamePackets
  <2> QED BY <2>5, <2>6, <2>7, PushedFacts
<1> QED BY <1>7, <1>8, <1>9, <1>10, <1>11 DEF RunTask, task

(* The pacer's timers.                                                     *)
LEMMA TimersKeep ==
  ASSUME IInv, RunProcessTimer \/ RunStatsTimer
  PROVE  /\ IInv' /\ Pushed(pacing_controller, pacing_controller')
         /\ SamePackets(pacing_controller, pacing_controller')
<1> DEFINE c == pacing_controller
           s == next_process_time
<1>1. /\ loop = Idle /\ clock' = clock /\ UNCHANGED <<tasks, rtt, nack>>
  BY DEF RunProcessTimer, RunStatsTimer
<1>2. /\ clock \in Nat /\ ControllerOK(c, clock) /\ TimersOK(timers, clock)
      /\ s \in Nat \cup {Never} /\ rejected \subseteq Seqs
  BY DEF IInv, PacerOK
<1>3. timers # {} => /\ s # Never /\ Waiting(timers, s)
                     /\ Soon(NextSendTime(c)) /\ Soon(Silence(c))
  BY <1>1 DEF IInv, Waking, WakesWhenIdle
<1>4. ASSUME PacerOK', Waking', rejected' \subseteq Seqs PROVE IInv'
  BY <1>1, <1>4 DEF IInv, NackOK
<1>5. ASSUME NEW tm \in timers PROVE TimersOK(timers \ {tm}, clock) BY <1>2 DEF TimersOK
<1>6. CASE RunProcessTimer
  <2>1. PICK tm \in timers : tm.t = "process" /\ Maybe(c, tm.at, timers \ {tm})
    BY <1>6 DEF RunProcessTimer
  <2>2. s # tm.at => Waiting(timers \ {tm}, s) BY <1>3 DEF Waiting
  <2>3. PacerOK' /\ Waking' /\ SamePackets(c, pacing_controller') /\ rejected' \subseteq Seqs
    BY <2>1, <2>2, <1>1, <1>2, <1>3, <1>5, MaybeKeeps
  <2> QED BY <2>3, <1>4, PushedFacts
<1>7. CASE RunStatsTimer
  <2>1. PICK tm \in timers :
          /\ tm.t = "stats"
          /\ ProcessPackets(c, "stats", s, timers \ {tm}, KeepaliveSize)
          /\ Keepalive(SendsKeepalive(c))
    BY <1>7 DEF RunStatsTimer
  <2>2. Waiting(timers \ {tm}, s) BY <2>1, <1>3 DEF Waiting
  <2>3. s \in Nat /\ s < NextSendTime(c) + HoldBackWindow /\ s < Silence(c) + HoldBackWindow
    BY <1>2, <1>3 DEF Soon
  <2> DEFINE size == KeepaliveSize
  <2>4. size \in Nat /\ ProcessPackets(c, "stats", s, timers \ {tm}, size)
    BY <2>1, KeepaliveIsSized
  <2> HIDE DEF size
  <2>5. PacerOK' /\ Waking' /\ SamePackets(c, pacing_controller')
    BY <2>2, <2>3, <2>4, <1>1, <1>2, <1>5, StatsRuns
  <2>6. rejected' \subseteq Seqs BY <2>1, <1>2, KeepingAlive
  <2> QED BY <2>5, <2>6, <1>4, PushedFacts
<1> QED BY <1>6, <1>7

(* The loop sends a packet.                                                *)
LEMMA SendPendingKeeps ==
  ASSUME IInv, SendPending
  PROVE  IInv'
<1>1. /\ SendTurn /\ SendPacket(Top(Turning.packet_queue)) /\ UNCHANGED <<rtt, nack>>
  BY DEF SendPending
<1>2. clock' = clock /\ tasks' = tasks BY <1>1 DEF SendTurn
<1>3. clock \in Nat /\ PacerOK /\ Waking /\ rejected \subseteq Seqs BY DEF IInv
<1> DEFINE p == Top(Turning.packet_queue)
           q == pacing_controller.packet_queue
<1>4. PacerOK' /\ Waking' /\ p = Top(q) /\ Top(q) \in QueuedPackets(q) /\ q \in Queues
  BY <1>1, <1>3, SendTurns
<1>5. p.seq \in Seqs
  <2>1. p \in Packets BY <1>4, QueuedWhere
  <2> HIDE DEF p
  <2> QED BY <2>1 DEF Packets, Seqs
<1>6. SendPacket(p) BY <1>1
<1> HIDE DEF p
<1>7. rejected' \subseteq Seqs BY <1>3, <1>5, <1>6, SendingRejects
<1> QED BY <1>1, <1>2, <1>4, <1>7 DEF IInv, NackOK

(* The loop pads, or ends.                                                 *)
LEMMA LoopKeeps ==
  ASSUME IInv, AddPadding \/ EndProcessing
  PROVE  /\ IInv' /\ Pushed(pacing_controller, pacing_controller')
         /\ Adds(pacing_controller, pacing_controller', {"padding"})
<1>1. clock \in Nat /\ PacerOK /\ Waking BY DEF IInv
<1> DEFINE padding == GeneratePadding(PaddingToAdd(Turning))
<1>2. CASE AddPadding
  <2>1. PaddingTurn(padding) /\ UNCHANGED <<historyVars, senderVars, nack, calls, ghosts>>
    BY <1>2 DEF AddPadding
  <2>2. loop # Idle /\ clock' = clock /\ tasks' = tasks BY <2>1 DEF PaddingTurn
  <2>3. PaddingToAdd(Turning) \in Nat
    <3>1. ControllerOK(Turning, clock) BY <1>1, <2>2, TurnFacts
    <3>2. Turning.padding_rate \in Nat BY <3>1, ControllerTypes DEF ControllerOK
    <3>3. PaddingTarget \in Nat BY PacingAssumption
    <3>4. PaddingTarget * Turning.padding_rate \in Nat BY <3>2, <3>3
    <3> QED BY <3>4 DEF PaddingToAdd
  <2>4. padding \in Seq(Packets) /\ \A i \in DOMAIN padding : padding[i].type = "padding"
    BY <2>3, PaddingFacts
  <2> HIDE DEF padding
  <2>5. PacerOK' /\ Waking' /\ Grown(pacing_controller, pacing_controller', {"padding"})
    BY <1>1, <2>1, <2>4, PaddingTurns
  <2>6. IInv' BY <2>1, <2>2, <2>5 DEF IInv, NackOK, historyVars, ghosts
  <2> QED BY <2>5, <2>6 DEF Grown, Pushed, Adds
<1>3. CASE EndProcessing
  <2>1. LastTurn(padding) /\ UNCHANGED <<historyVars, senderVars, nack, calls, ghosts>>
    BY <1>3 DEF EndProcessing
  <2> HIDE DEF padding
  <2>2. clock' = clock /\ tasks' = tasks BY <2>1 DEF LastTurn
  <2>3. PacerOK' /\ Waking' /\ SamePackets(pacing_controller, pacing_controller')
    BY <1>1, <2>1, LastTurns
  <2>4. IInv' BY <2>1, <2>2, <2>3 DEF IInv, NackOK, historyVars, ghosts
  <2> QED BY <2>3, <2>4, PushedFacts DEF SamePackets, Adds
<1> QED BY <1>2, <1>3

(* Time passes: no timer is kept waiting longer than Lateness.             *)
LEMMA TickKeeps ==
  ASSUME IInv, Tick
  PROVE  IInv'
<1>1. /\ clock < MaxTime /\ loop = Idle /\ clock' = clock + 1
      /\ \A tm \in timers : clock < tm.due + Lateness
      /\ UNCHANGED <<pacerVars, historyVars, senderVars, nack, calls, ghosts>>
  BY DEF Tick
<1>2. clock \in Nat /\ clock \in 0..MaxTime /\ MaxTime \in Nat /\ Lateness \in Nat
  BY SendPathAssumption DEF IInv
<1>3. clock' \in 0..MaxTime /\ clock' \in Nat /\ clock <= clock' BY <1>1, <1>2
<1>4. ControllerOK(pacing_controller, clock') BY <1>2, <1>3, ControllerLater DEF IInv, PacerOK
<1>5. TimersOK(timers, clock')
  <2>1. \A tm \in timers : tm.due \in Int BY DEF IInv, PacerOK, TimersOK
  <2> QED BY <2>1, <1>1, <1>2 DEF TimersOK
<1>6. PacerOK' BY <1>1, <1>4, <1>5 DEF IInv, PacerOK, pacerVars
<1>7. Waking' BY <1>1 DEF IInv, Waking, WakesWhenIdle, Soon, pacerVars
<1> QED BY <1>1, <1>3, <1>6, <1>7 DEF IInv, NackOK, pacerVars, historyVars, ghosts

(* The path at its start.                                                  *)
LEMMA InitFacts ==
  ASSUME Init
  PROVE  IInv /\ QueuedPackets(pacing_controller.packet_queue) = {}
<1> DEFINE c == NewController(0, InitialRate)
           q == EmptyQueue(0)
<1>1. /\ clock = 0 /\ pacing_controller = c /\ next_process_time = Never
      /\ tasks = <<StartTask>> /\ timers = {} /\ loop = Idle
      /\ rtt = -1 /\ nack = NoNack /\ rejected = {}
  BY DEF Init, PacerInit
<1>2. QueueOK(q, 0, 0) /\ QueuedPackets(q) = {} BY EmptyQueueFacts
<1>3. InitialRate \in Nat \ {0} BY PacedSenderAssumption
<1> HIDE DEF q
<1>4. q \in Queues BY <1>2 DEF QueueOK
<1>5. c \in Controllers /\ c.packet_queue = q /\ c.packet_counter = 0
  <2>1. c = [paused |-> FALSE, media_debt |-> 0, padding_debt |-> 0, media_rate |-> InitialRate,
             pacing_bitrate |-> InitialRate, padding_rate |-> InitialRate, last_process_time |-> 0,
             last_send_time |-> 0, packet_counter |-> 0, packet_queue |-> q]
    BY DEF NewController, q
  <2> HIDE DEF c
  <2> QED BY <2>1, <1>3, <1>4 DEF Controllers
<1> HIDE DEF c
<1>6. ControllerOK(c, 0) BY <1>2, <1>5 DEF ControllerOK, AudioIsAudio
<1>7. PacerOK BY <1>1, <1>6 DEF PacerOK, TimersOK
<1>8. Waking BY <1>1 DEF Waking, WakesWhenIdle
<1>9. tasks \in Seq(Tasks)
  <2>1. StartTask \in Tasks BY DEF Tasks
  <2> QED BY <2>1, <1>1
<1>10. NackOK BY <1>1 DEF NackOK, NoNack
<1>11. clock \in 0..MaxTime BY <1>1, SendPathAssumption
<1> QED BY <1>1, <1>2, <1>5, <1>7, <1>8, <1>9, <1>10, <1>11 DEF IInv

(* Every step keeps the invariant.                                         *)
LEMMA NextKeeps ==
  ASSUME IInv, [Next]_vars
  PROVE  IInv'
<1>1. CASE App BY <1>1, AppKeeps
<1>2. CASE Rtcp BY <1>2, RtcpKeeps
<1>3. CASE RunTask BY <1>3, RunTaskKeeps
<1>4. CASE RunProcessTimer \/ RunStatsTimer BY <1>4, TimersKeep
<1>5. CASE SendPending BY <1>5, SendPendingKeeps
<1>6. CASE AddPadding \/ EndProcessing BY <1>6, LoopKeeps
<1>7. CASE Tick BY <1>7, TickKeeps
<1>8. CASE UNCHANGED vars
  <2>1. UNCHANGED <<clock, pacing_controller, next_process_time, timers, loop, tasks, rtt, nack,
                    rejected>>
    BY <1>8 DEF vars, pacerVars, historyVars, ghosts
  <2>2. PacerOK' /\ Waking' /\ tasks' \in Seq(Tasks) BY <2>1, PacerLeft DEF IInv
  <2> QED BY <2>1, <2>2 DEF IInv, NackOK
<1> QED BY <1>1, <1>2, <1>3, <1>4, <1>5, <1>6, <1>7, <1>8 DEF Next, Pacer

(* The state of the path is sound in every state.                          *)
THEOREM Invariance == Spec => []IInv
<1>1. Init => IInv BY InitFacts
<1>2. IInv /\ [Next]_vars => IInv' BY NextKeeps
<1> QED BY <1>1, <1>2, PTL DEF Spec

(* The counters of a sound queue agree with its packets.                   *)
LEMMA QueueIsConsistent ==
  ASSUME NEW q, NEW n, NEW now, QueueOK(q, n, now)
  PROVE  Consistent(q)
<1> DEFINE all == QueuedPackets(q)
           keys == q.stream_priorities
<1>1. /\ q \in Queues /\ Sorted(q) /\ Scheduled(q) /\ Counted(q) BY DEF QueueOK
<1>2. /\ q.size_packets = Cardinality(all)
      /\ q.size = MapThenSumSet(LAMBDA p : p.size, all)
      /\ q.queue_time_sum =
           MapThenSumSet(LAMBDA p : q.time_last_updated - p.enqueue_time - q.pause_time_sum, all)
  BY <1>1 DEF Counted, SizeSum, WaitSum
<1>3. q.single # <<>> => Len(q.single) = 1 /\ all = Range(q.single)
  <2> SUFFICES ASSUME q.single # <<>> PROVE Len(q.single) = 1 /\ all = Range(q.single) OBVIOUS
  <2>1. /\ Len(q.single) = 1 /\ \A s \in Ssrcs : q.streams[s].packets = <<>> BY <1>1 DEF Sorted
  <2>2. \A s \in Ssrcs : Range(q.streams[s].packets) = {} BY <2>1 DEF Range
  <2> QED BY <2>1, <2>2 DEF QueuedPackets
<1>4. {k.ssrc : k \in Range(keys)} = {s \in Ssrcs : q.streams[s].packets # <<>>}
  <2>1. keys \in Seq(Keys) BY <1>1, QueueTypes
  <2>2. \A k \in Range(keys) : k.ssrc \in Ssrcs
    <3>1. Range(keys) \subseteq Keys
      <4> HIDE DEF keys
      <4> QED BY <2>1, RangeOfPackets
    <3> QED BY <3>1 DEF Keys
  <2> QED BY <2>2, <1>1 DEF Scheduled
<1>5. /\ \A i, j \in DOMAIN keys : i < j => /\ keys[i].ssrc # keys[j].ssrc
                                           /\ ~KeyLess(keys[j], keys[i])
      /\ \A k \in Range(keys) : /\ k.priority = q.streams[k.ssrc].packets[1].priority
                                /\ k.size = q.streams[k.ssrc].size
  BY <1>1 DEF Scheduled, KeysInOrder
<1> HIDE DEF all, keys
<1> QED BY <1>2, <1>3, <1>4, <1>5 DEF Consistent, all, keys

(* Types, the lateness of the timers, and the queue whose counters, times  *)
(* and order of streams are those of its packets (TypeOK).                 *)
THEOREM TypeCorrect == Spec => []TypeOK
<1>1. IInv => TypeOK
  <2> SUFFICES ASSUME IInv PROVE TypeOK OBVIOUS
  <2>1. ControllerOK(pacing_controller, clock) BY DEF IInv, PacerOK
  <2>2. pacing_controller.media_debt \in Nat /\ pacing_controller.padding_debt \in Nat
    BY <2>1, ControllerTypes DEF ControllerOK
  <2>3. pacing_controller.media_debt >= 0 /\ pacing_controller.padding_debt >= 0 BY <2>2
  <2>4. Consistent(pacing_controller.packet_queue) BY <2>1, QueueIsConsistent DEF ControllerOK
  <2>5. \A tm \in timers : tm.due <= clock => clock <= tm.due + Lateness
    BY DEF IInv, PacerOK, TimersOK
  <2> QED BY <2>3, <2>4, <2>5 DEF IInv, TypeOK, Seqs
<1> QED BY <1>1, Invariance, PTL

(* The pacer never sleeps through the time of its next packet              *)
(* (WakeupIsInTime).                                                       *)
THEOREM NeverSleepsIn == Spec => []WakeupIsInTime
<1>1. IInv => WakeupIsInTime
  <2> SUFFICES ASSUME IInv, Quiet
               PROVE  /\ \E tm \in timers : tm.t = "process" /\ tm.at = next_process_time
                      /\ next_process_time < NextSendTime(pacing_controller) + HoldBackWindow
    BY DEF WakeupIsInTime
  <2>1. WakesWhenIdle /\ (next_process_time # Never => Waiting(timers, next_process_time))
    BY DEF IInv, Waking, Quiet
  <2>2. next_process_time # Never BY <2>1 DEF WakesWhenIdle, Quiet
  <2> QED BY <2>1, <2>2 DEF WakesWhenIdle, Waiting, Soon
<1> QED BY <1>1, Invariance, PTL

-----------------------------------------------------------------------------
(* The refinement of PriorityQueue.                                        *)
ToSendOf(c) ==
  {[ssrc |-> p.ssrc, priority |-> p.priority, order |-> p.order] :
     p \in QueuedPackets(c.packet_queue)}

(* A step that only adds packets is a push of the abstract queue, or none. *)
LEMMA PushedPushes ==
  ASSUME IInv, IInv', Pushed(pacing_controller, pacing_controller')
  PROVE  Queue!Push
<1> DEFINE c == pacing_controller
           d == pacing_controller'
<1>1. \A p \in QueuedPackets(c.packet_queue) : p.order \in Nat /\ p.order < c.packet_counter
  BY ControllerNumbers DEF IInv, PacerOK
<1>2. c.packet_counter \in Nat BY ControllerNumbers DEF IInv, PacerOK
<1>3. ToSend = ToSendOf(c) /\ ToSend' = ToSendOf(d) BY DEF ToSend, ToSendOf
<1>4. ToSendOf(c) \subseteq ToSendOf(d) BY DEF ToSendOf, Pushed
<1>5. ASSUME NEW new \in ToSendOf(d) \ ToSendOf(c), NEW old \in ToSendOf(c)
      PROVE  old.order < new.order
  <2>1. PICK p \in QueuedPackets(c.packet_queue) :
          old = [ssrc |-> p.ssrc, priority |-> p.priority, order |-> p.order]
    BY DEF ToSendOf
  <2>2. PICK r \in QueuedPackets(d.packet_queue) :
          new = [ssrc |-> r.ssrc, priority |-> r.priority, order |-> r.order]
    BY DEF ToSendOf
  <2>3. r \notin QueuedPackets(c.packet_queue) BY <2>2, <1>5 DEF ToSendOf
  <2>4. r.order >= c.packet_counter BY <2>2, <2>3 DEF Pushed
  <2>5. old.order = p.order /\ new.order = r.order BY <2>1, <2>2
  <2>6. p.order \in Nat /\ p.order < c.packet_counter BY <2>1, <1>1
  <2>7. r.order \in Nat
    <3>1. ControllerOK(d, clock') BY DEF IInv, PacerOK
    <3> QED BY <2>2, <3>1, ControllerNumbers
  <2> QED BY <2>4, <2>5, <2>6, <2>7, <1>2
<1> QED BY <1>3, <1>4, <1>5 DEF Queue!Push

(* A packet sent is one that may leave first.                              *)
LEMMA SendPendingPops ==
  ASSUME IInv, SendPending
  PROVE  Queue!Pop
<1> DEFINE q == pacing_controller.packet_queue
           t == Top(q)
           all == QueuedPackets(q)
           Sent(p) == [ssrc |-> p.ssrc, priority |-> p.priority, order |-> p.order]
<1>1. clock \in Nat /\ PacerOK /\ Waking /\ SendTurn BY DEF IInv, SendPending
<1>2. /\ q \in Queues /\ Sorted(q) /\ Scheduled(q) /\ Arrived(q, Turning.packet_counter)
      /\ t \in all /\ QueuedPackets(pacing_controller'.packet_queue) = all \ {t}
  BY <1>1, SendTurns
<1>3. \A r \in all : /\ t.priority <= r.priority
                     /\ r.priority = t.priority /\ r.ssrc = t.ssrc => t.order <= r.order
  BY <1>2, TopFacts
<1>4. \A r \in all : r.order = t.order => r = t BY <1>2 DEF Arrived
<1>5. \A r \in all : r.priority \in Nat /\ r.order \in Nat
  <2>1. all \subseteq Packets BY <1>2, QueuedWhere
  <2> HIDE DEF all
  <2> QED BY <2>1 DEF Packets
<1>6. ToSend = {Sent(p) : p \in all} /\ ToSend' = {Sent(p) : p \in all \ {t}}
  BY <1>2 DEF ToSend
<1> HIDE DEF all, t
<1>7. Sent(t) \in ToSend BY <1>2, <1>6
<1>8. ASSUME NEW x \in ToSend PROVE ~Queue!Before(x, Sent(t))
  <2>1. PICK r \in all : x = Sent(r) BY <1>6
  <2>2. /\ x.priority = r.priority /\ x.ssrc = r.ssrc /\ x.order = r.order
        /\ Sent(t).priority = t.priority /\ Sent(t).ssrc = t.ssrc /\ Sent(t).order = t.order
    BY <2>1
  <2>3. /\ t.priority <= r.priority
        /\ r.priority = t.priority /\ r.ssrc = t.ssrc => t.order <= r.order
        /\ r.priority \in Nat /\ t.priority \in Nat /\ r.order \in Nat /\ t.order \in Nat
    BY <1>2, <1>3, <1>5
  <2> HIDE DEF Sent
  <2> QED BY <2>2, <2>3 DEF Queue!Before
<1>9. ToSend' = ToSend \ {Sent(t)}
  <2>1. ASSUME NEW r \in all, Sent(r) = Sent(t) PROVE r = t
    <3>1. Sent(r).order = r.order /\ Sent(t).order = t.order OBVIOUS
    <3> QED BY <3>1, <2>1, <1>4
  <2> HIDE DEF Sent
  <2> QED BY <2>1, <1>2, <1>6
<1> HIDE DEF Sent
<1> QED BY <1>7, <1>8, <1>9 DEF Queue!Pop

(* Packets leave by priority and, in a stream, in the order they came      *)
(* (ImplementsQueue).                                                      *)
THEOREM QueueRefinement == Spec => ImplementsQueue
<1>1. Init => ToSend = {}
  <2> SUFFICES ASSUME Init PROVE ToSend = {} OBVIOUS
  <2>1. QueuedPackets(pacing_controller.packet_queue) = {} BY InitFacts
  <2> QED BY <2>1 DEF ToSend
<1>2. IInv /\ [Next]_vars => [Queue!Push \/ Queue!Pop]_ToSend
  <2> SUFFICES ASSUME IInv, [Next]_vars PROVE [Queue!Push \/ Queue!Pop]_ToSend OBVIOUS
  <2>1. CASE RunTask \/ RunProcessTimer \/ RunStatsTimer \/ AddPadding \/ EndProcessing
    <3>1. IInv' /\ Pushed(pacing_controller, pacing_controller')
      BY <2>1, RunTaskKeeps, TimersKeep, LoopKeeps
    <3> QED BY <3>1, PushedPushes
  <2>2. CASE SendPending BY <2>2, SendPendingPops
  <2>3. CASE App \/ Rtcp \/ Tick \/ UNCHANGED vars
    <3>1. UNCHANGED pacing_controller
      <4>1. App => UNCHANGED pacing_controller
        BY DEF App, EnqueuePackets, PostPause, PostResume, PostPacingRates, Event,
               SetSendingMediaStatus, pacerVars
      <4>2. Rtcp => UNCHANGED pacing_controller
        BY DEF Rtcp, OnReceivedNack, GetPacketState, GetPacketAndMarkAsPending, GiveUpNack,
               OnPacketsAcknowledged, pacerVars
      <4>3. Tick \/ UNCHANGED vars => UNCHANGED pacing_controller BY DEF Tick, vars, pacerVars
      <4> QED BY <2>3, <4>1, <4>2, <4>3
    <3> QED BY <3>1 DEF ToSend
  <2> QED BY <2>1, <2>2, <2>3 DEF Next, Pacer
<1>3. Queue!Spec <=> ToSend = {} /\ [][Queue!Push \/ Queue!Pop]_ToSend BY DEF Queue!Spec
<1> QED BY <1>1, <1>2, <1>3, Invariance, PTL DEF Spec, ImplementsQueue, Queue!Spec

-----------------------------------------------------------------------------
(* Numbers.  How far a number is behind another.                           *)
Behind(s, n) == Sequenced(n - s)

(* What Sequenced makes of a number that is less than a span off.          *)
LEMMA SmallNumbers ==
  ASSUME NEW x \in Int, -SeqSpan < x, x <= SeqSpan
  PROVE  Sequenced(x) = IF x = SeqSpan THEN 0 ELSE IF x >= 0 THEN x ELSE x + SeqSpan
<1> DEFINE q == x \div SeqSpan
           r == x % SeqSpan
<1>1. SeqSpan \in Nat \ {0} BY HistoryAssumption
<1>2. q \in Int /\ r \in 0..SeqSpan - 1 /\ x = SeqSpan * q + r BY <1>1
<1>3. Sequenced(x) = r BY DEF Sequenced
<1> HIDE DEF q, r
<1>4. q <= 1
  <2>1. SUFFICES ASSUME q >= 2 PROVE FALSE BY <1>2
  <2>2. SeqSpan * q >= SeqSpan * 2 BY <1>1, <1>2, <2>1
  <2> QED BY <1>1, <1>2, <2>2
<1>5. q >= -1
  <2>1. SUFFICES ASSUME q <= -2 PROVE FALSE BY <1>2
  <2>2. SeqSpan * q <= SeqSpan * (-2) BY <1>1, <1>2, <2>1
  <2> QED BY <1>1, <1>2, <2>2
<1>6. q = -1 \/ q = 0 \/ q = 1 BY <1>2, <1>4, <1>5
<1>7. CASE q = -1
  <2>1. x = r - SeqSpan BY <1>1, <1>2, <1>7
  <2> QED BY <2>1, <1>1, <1>2, <1>3
<1>8. CASE q = 0
  <2>1. x = r BY <1>1, <1>2, <1>8
  <2> QED BY <2>1, <1>1, <1>2, <1>3
<1>9. CASE q = 1
  <2>1. x = r + SeqSpan BY <1>1, <1>2, <1>9
  <2> QED BY <2>1, <1>1, <1>2, <1>3
<1> QED BY <1>6, <1>7, <1>8, <1>9

(* The distance of two numbers, one step of the sequencer included.        *)
LEMMA BehindFacts ==
  ASSUME NEW n \in Seqs, NEW a \in Seqs
  PROVE  /\ Behind(a, n) \in Seqs
         /\ Behind(a, n) = IF n >= a THEN n - a ELSE n - a + SeqSpan
         /\ Sequenced(n + 1) \in Seqs
         /\ Behind(a, n) + 1 < SeqSpan => Behind(a, Sequenced(n + 1)) = Behind(a, n) + 1
         /\ SeqSpan # 1 => Behind(n, Sequenced(n + 1)) = 1
<1>1. SeqSpan \in Nat \ {0} /\ n \in 0..SeqSpan - 1 /\ a \in 0..SeqSpan - 1
  BY HistoryAssumption DEF Seqs
<1>2. ASSUME NEW m \in Seqs, NEW b \in Seqs
      PROVE  Behind(b, m) = IF m >= b THEN m - b ELSE m - b + SeqSpan
  <2>1. m \in 0..SeqSpan - 1 /\ b \in 0..SeqSpan - 1 BY <1>2 DEF Seqs
  <2>2. m - b \in Int /\ -SeqSpan < m - b /\ m - b <= SeqSpan /\ m - b # SeqSpan BY <1>1, <2>1
  <2>3. (m - b >= 0) <=> (m >= b) BY <1>1, <2>1
  <2> QED BY <2>2, <2>3, SmallNumbers DEF Behind
<1>3. Behind(a, n) \in Seqs BY <1>1, <1>2 DEF Seqs
<1>4. Sequenced(n + 1) = IF n + 1 = SeqSpan THEN 0 ELSE n + 1
  <2>1. n + 1 \in Int /\ -SeqSpan < n + 1 /\ n + 1 <= SeqSpan /\ n + 1 >= 0 BY <1>1
  <2> QED BY <2>1, SmallNumbers
<1>5. Sequenced(n + 1) \in Seqs BY <1>1, <1>4 DEF Seqs
<1>6. Behind(a, n) + 1 < SeqSpan => Behind(a, Sequenced(n + 1)) = Behind(a, n) + 1
  <2> DEFINE m == Sequenced(n + 1)
  <2>1. Behind(a, m) = IF m >= a THEN m - a ELSE m - a + SeqSpan BY <1>2, <1>5
  <2>2. Behind(a, n) = IF n >= a THEN n - a ELSE n - a + SeqSpan BY <1>2
  <2>3. m = IF n + 1 = SeqSpan THEN 0 ELSE n + 1 BY <1>4
  <2> HIDE DEF m
  <2>4. Behind(a, n) + 1 < SeqSpan => Behind(a, m) = Behind(a, n) + 1
    BY <1>1, <2>1, <2>2, <2>3
  <2> QED BY <2>4 DEF m
<1>7. SeqSpan # 1 => Behind(n, Sequenced(n + 1)) = 1
  <2> DEFINE m == Sequenced(n + 1)
  <2>1. Behind(n, m) = IF m >= n THEN m - n ELSE m - n + SeqSpan BY <1>2, <1>5
  <2>3. m = IF n + 1 = SeqSpan THEN 0 ELSE n + 1 BY <1>4
  <2> HIDE DEF m
  <2>4. SeqSpan # 1 => Behind(n, m) = 1 BY <1>1, <2>1, <2>3
  <2> QED BY <2>4 DEF m
<1> QED BY <1>2, <1>3, <1>5, <1>6, <1>7

-----------------------------------------------------------------------------
(* The history: what it keeps is numbered by its place, and less than half *)
(* a span behind the sequencer as long as its first packet is.             *)
Entries == [seq : Seqs, send_time : Nat, pending : BOOLEAN, times : Nat]

Placed(h, n) ==
  /\ h \in Seq(Entries \cup {Hole})
  /\ h # <<>> => h[1] # Hole /\ Len(h) <= Behind(h[1].seq, n)
  /\ \A j \in DOMAIN h : h[j] # Hole => Behind(h[j].seq, n) = Behind(h[1].seq, n) - (j - 1)

NearTo(s, n) == Behind(s, n) # 0 /\ 2 * Behind(s, n) < SeqSpan

(* What stands at a place of the history.                                  *)
LEMMA PlacedEntries ==
  ASSUME NEW n \in Seqs, NEW h, Placed(h, n)
  PROVE  /\ Len(h) \in Nat /\ DOMAIN h = 1..Len(h) /\ (h = <<>> <=> Len(h) = 0)
         /\ \A j \in DOMAIN h : h[j] # Hole => h[j] \in Entries /\ h[j].seq \in Seqs
         /\ h # <<>> => /\ 1 \in DOMAIN h /\ h[1] # Hole /\ h[1].seq \in Seqs
                        /\ Len(h) <= Behind(h[1].seq, n)
         /\ Hole \notin Entries
         /\ \A x \in Range(h) \ {Hole} : /\ x \in Entries /\ x.seq \in Seqs
                                         /\ \E j \in DOMAIN h : h[j] = x
<1>1. h \in Seq(Entries \cup {Hole}) BY DEF Placed
<1>2. Len(h) \in Nat /\ DOMAIN h = 1..Len(h) /\ (h = <<>> <=> Len(h) = 0) BY <1>1
<1>3. \A j \in DOMAIN h : h[j] # Hole => h[j] \in Entries /\ h[j].seq \in Seqs
  BY <1>1 DEF Entries
<1>4. h # <<>> => 1 \in DOMAIN h /\ h[1] # Hole /\ Len(h) <= Behind(h[1].seq, n)
  BY <1>2 DEF Placed
<1>5. Hole \notin Entries BY HistoryAssumption DEF Hole, Entries, Seqs
<1> QED BY <1>2, <1>3, <1>4, <1>5 DEF Range

(* How a packet is found: what is found has the number asked for, a packet *)
(* that is kept is found at its place, and the next number is new.         *)
LEMMA IndexFacts ==
  ASSUME NEW n \in Seqs, NEW h, Placed(h, n)
  PROVE  /\ \A seq \in Seqs : GetPacketIndex(h, seq) \in Int
         /\ \A seq \in Seqs : Stored(h, seq) =>
              /\ At(h, seq) \in DOMAIN h /\ h[At(h, seq)] \in Entries
              /\ h[At(h, seq)].seq = seq
         /\ \A j, k \in DOMAIN h :
              h[j] # Hole /\ h[k] # Hole /\ h[j].seq = h[k].seq => j = k
         /\ h # <<>> /\ NearTo(h[1].seq, n) =>
              /\ \A j \in DOMAIN h : h[j] # Hole => /\ Stored(h, h[j].seq)
                                                    /\ At(h, h[j].seq) = j
              /\ GetPacketIndex(h, n) = Behind(h[1].seq, n)
<1>1. /\ Len(h) \in Nat /\ DOMAIN h = 1..Len(h) /\ (h = <<>> <=> Len(h) = 0)
      /\ \A j \in DOMAIN h : h[j] # Hole => h[j] \in Entries /\ h[j].seq \in Seqs
      /\ h # <<>> => /\ 1 \in DOMAIN h /\ h[1] # Hole /\ h[1].seq \in Seqs
                     /\ Len(h) <= Behind(h[1].seq, n)
  BY PlacedEntries
<1>2. SeqSpan \in Nat /\ Seqs = 0..SeqSpan - 1 BY HistoryAssumption DEF Seqs
<1>3. \A a, b \in Seqs : Sequenced(b - a) = IF b >= a THEN b - a ELSE b - a + SeqSpan
  BY BehindFacts DEF Behind
<1>4. \A j \in DOMAIN h : h[j] # Hole => Behind(h[j].seq, n) = Behind(h[1].seq, n) - (j - 1)
  BY DEF Placed
<1>5. CASE h = <<>>
  <2>1. \A seq \in Seqs : GetPacketIndex(h, seq) = 0 BY <1>5 DEF GetPacketIndex
  <2>2. \A seq \in Seqs : ~Stored(h, seq) BY <2>1, <1>1, <1>5 DEF Stored
  <2> QED BY <2>1, <2>2, <1>1, <1>5
<1>6. CASE h # <<>>
  <2> DEFINE a == h[1].seq
  <2>1. a \in Seqs /\ Len(h) <= Behind(a, n) /\ Len(h) >= 1 BY <1>1, <1>6
  <2>2. ASSUME NEW seq \in Seqs
        PROVE  /\ GetPacketIndex(h, seq) \in Int
               /\ GetPacketIndex(h, seq) >= 0 => GetPacketIndex(h, seq) = Sequenced(seq - a)
               /\ 2 * Sequenced(seq - a) < SeqSpan
                  => GetPacketIndex(h, seq) = Sequenced(seq - a)
    <3> DEFINE d == Sequenced(seq - a)
               e == Sequenced(a - seq)
               i == GetPacketIndex(h, seq)
    <3>1. d \in Seqs /\ e \in Seqs BY <2>1, BehindFacts DEF Behind
    <3>2. /\ d = (IF seq >= a THEN seq - a ELSE seq - a + SeqSpan)
          /\ e = (IF a >= seq THEN a - seq ELSE a - seq + SeqSpan)
      BY <2>1, <1>3
    <3>3. i = IF d # 0 /\ (2 * d < SeqSpan \/ (2 * d = SeqSpan /\ seq > a)) THEN d ELSE -e
      BY <1>6 DEF GetPacketIndex, IsNewer
    <3>4. (d = 0 <=> e = 0) BY <3>2, <2>1, <1>2
    <3> HIDE DEF d, e, i
    <3> QED BY <3>1, <3>3, <3>4, <1>2 DEF d, i
  <2> HIDE DEF a
  <2>3. ASSUME NEW seq \in Seqs, Stored(h, seq)
        PROVE  /\ At(h, seq) \in DOMAIN h /\ h[At(h, seq)] \in Entries
               /\ h[At(h, seq)].seq = seq
    <3> DEFINE i == GetPacketIndex(h, seq)
    <3>1. i \in 0..Len(h) - 1 /\ h[i + 1] # Hole BY <2>3 DEF Stored
    <3>2. At(h, seq) = i + 1 BY DEF At
    <3>3. i = Sequenced(seq - a) BY <3>1, <2>2
    <3> HIDE DEF i
    <3> DEFINE b == h[i + 1].seq
    <3>4. i + 1 \in DOMAIN h /\ h[i + 1] \in Entries /\ b \in Seqs BY <3>1, <1>1
    <3>5. Behind(b, n) = Behind(a, n) - i BY <3>1, <3>4, <1>4 DEF a
    <3> HIDE DEF b
    <3>6. /\ Behind(b, n) = IF n >= b THEN n - b ELSE n - b + SeqSpan
          /\ Behind(a, n) = IF n >= a THEN n - a ELSE n - a + SeqSpan
          /\ i = IF seq >= a THEN seq - a ELSE seq - a + SeqSpan
      BY <2>1, <3>3, <3>4, <1>3, BehindFacts
    <3>7. b = seq BY SMTT(40), <3>1, <3>4, <3>5, <3>6, <2>1, <1>2
    <3> QED BY <3>2, <3>4, <3>7 DEF b
  <2>4. ASSUME NEW j \in DOMAIN h, NEW k \in DOMAIN h, h[j] # Hole, h[k] # Hole,
               h[j].seq = h[k].seq
        PROVE  j = k
    <3>1. Behind(a, n) - (j - 1) = Behind(a, n) - (k - 1) BY <2>4, <1>4 DEF a
    <3>2. Behind(a, n) \in Int /\ j \in Int /\ k \in Int BY <2>1, <1>1, <1>2, BehindFacts
    <3> QED BY <3>1, <3>2
  <2>5. ASSUME NearTo(a, n), NEW seq \in Seqs, Behind(seq, n) <= Behind(a, n)
        PROVE  GetPacketIndex(h, seq) = Behind(a, n) - Behind(seq, n)
    <3>1. /\ Behind(seq, n) = IF n >= seq THEN n - seq ELSE n - seq + SeqSpan
          /\ Behind(a, n) = IF n >= a THEN n - a ELSE n - a + SeqSpan
          /\ Sequenced(seq - a) = IF seq >= a THEN seq - a ELSE seq - a + SeqSpan
      BY <2>1, <1>3, BehindFacts
    <3>2. 2 * Behind(a, n) < SeqSpan BY <2>5 DEF NearTo
    <3>3. Sequenced(seq - a) = Behind(a, n) - Behind(seq, n)
      BY <3>1, <3>2, <2>1, <2>5, <1>2
    <3>4. 2 * Sequenced(seq - a) < SeqSpan
      <4>1. Behind(a, n) \in Seqs /\ Behind(seq, n) \in Seqs BY <2>1, <2>5, BehindFacts
      <4>2. \A x \in Seqs : x \in Nat BY <1>2
      <4>3. Behind(a, n) \in Nat /\ Behind(seq, n) \in Nat BY <4>1, <4>2
      <4> QED BY <4>3, <3>2, <3>3, <1>2
    <3> QED BY <3>3, <3>4, <2>2
  <2>6. ASSUME NearTo(a, n), NEW j \in DOMAIN h, h[j] # Hole
        PROVE  Stored(h, h[j].seq) /\ At(h, h[j].seq) = j
    <3>1. h[j].seq \in Seqs /\ Behind(h[j].seq, n) = Behind(a, n) - (j - 1)
      BY <2>6, <1>1, <1>4 DEF a
    <3>2. Behind(a, n) \in Int /\ j \in 1..Len(h) BY <2>1, <1>1, <1>2, BehindFacts
    <3>3. GetPacketIndex(h, h[j].seq) = j - 1 BY <3>1, <3>2, <2>5, <2>6
    <3>4. j - 1 \in 0..Len(h) - 1 /\ (j - 1) + 1 = j BY <3>2, <1>1
    <3> QED BY <3>3, <3>4, <2>6 DEF Stored, At
  <2>7. ASSUME NearTo(a, n) PROVE GetPacketIndex(h, n) = Behind(a, n)
    <3>1. Behind(n, n) = 0 BY <1>2, BehindFacts
    <3>2. Behind(a, n) \in Nat BY <2>1, <1>2, BehindFacts
    <3> QED BY <3>1, <3>2, <2>5, <2>7
  <2> QED BY <2>2, <2>3, <2>4, <2>6, <2>7 DEF a
<1> QED BY <1>5, <1>6

(* What is left of the history from one of its packets on.                 *)
LEMMA SuffixFacts ==
  ASSUME NEW n \in Seqs, NEW h, Placed(h, n), NEW m \in DOMAIN h, h[m] # Hole,
         NEW g \in Seq(Entries \cup {Hole}), Len(g) = Len(h) - m + 1,
         \A k \in 1..Len(g) : g[k] = h[m + k - 1]
  PROVE  Placed(g, n) /\ Range(g) \subseteq Range(h)
<1>1. /\ Len(h) \in Nat /\ DOMAIN h = 1..Len(h) /\ h # <<>>
      /\ \A j \in DOMAIN h : h[j] # Hole => h[j] \in Entries /\ h[j].seq \in Seqs
      /\ h[1].seq \in Seqs /\ Len(h) <= Behind(h[1].seq, n)
  BY PlacedEntries
<1>2. \A j \in DOMAIN h : h[j] # Hole => Behind(h[j].seq, n) = Behind(h[1].seq, n) - (j - 1)
  BY DEF Placed
<1>3. Behind(h[1].seq, n) \in Int
  <2>1. Behind(h[1].seq, n) \in Seqs BY <1>1, BehindFacts
  <2> QED BY <2>1, HistoryAssumption DEF Seqs
<1>4. m \in 1..Len(h) /\ Len(g) \in Nat /\ Len(g) >= 1 /\ DOMAIN g = 1..Len(g) BY <1>1
<1>5. 1 \in 1..Len(g) /\ m + 1 - 1 = m BY <1>4
<1>6. g[1] = h[m] BY <1>5
<1>7. Behind(h[m].seq, n) = Behind(h[1].seq, n) - (m - 1) BY <1>2
<1>8. Len(g) <= Behind(g[1].seq, n)
  <2> DEFINE b == Behind(h[1].seq, n)
  <2>1. Behind(g[1].seq, n) = b - (m - 1) /\ b \in Int /\ Len(h) <= b BY <1>1, <1>3, <1>6, <1>7
  <2> HIDE DEF b
  <2> QED BY <2>1, <1>1, <1>4
<1>9. ASSUME NEW j \in DOMAIN g, g[j] # Hole
      PROVE  Behind(g[j].seq, n) = Behind(g[1].seq, n) - (j - 1)
  <2> DEFINE b == Behind(h[1].seq, n)
  <2>1. j \in 1..Len(g) /\ m + j - 1 \in DOMAIN h /\ g[j] = h[m + j - 1] BY <1>1, <1>4
  <2>2. Behind(g[j].seq, n) = b - ((m + j - 1) - 1) BY <2>1, <1>2, <1>9
  <2>3. Behind(g[1].seq, n) = b - (m - 1) /\ b \in Int BY <1>3, <1>6, <1>7
  <2> HIDE DEF b
  <2> QED BY <2>1, <2>2, <2>3, <1>4
<1>10. Placed(g, n) BY <1>6, <1>8, <1>9 DEF Placed
<1>11. ASSUME NEW x \in Range(g) PROVE x \in Range(h)
  <2>1. PICK k \in 1..Len(g) : x = g[k] BY <1>4 DEF Range
  <2>2. m + k - 1 \in DOMAIN h /\ x = h[m + k - 1] BY <2>1, <1>1, <1>4
  <2> QED BY <2>2 DEF Range
<1> QED BY <1>10, <1>11

(* No history is one.                                                      *)
LEMMA EmptyIsPlaced == \A n : Placed(<<>>, n)
BY DEF Placed

(* What culling leaves.                                                    *)
LEMMA CulledFacts ==
  ASSUME NEW n \in Seqs, NEW h, Placed(h, n), NEW now, NEW duration
  PROVE  /\ Placed(Culled(h, now, duration), n)
         /\ Range(Culled(h, now, duration)) \subseteq Range(h)
<1> DEFINE From(j) == SubSeq(h, j, Len(h))
           mayStay == {j \in DOMAIN h : h[j] # Hole /\ ~Removable(From(j), now, duration)}
           g == Culled(h, now, duration)
<1>1. g = IF mayStay = {} THEN <<>> ELSE From(Min(mayStay)) BY DEF Culled
<1>2. Len(h) \in Nat /\ DOMAIN h = 1..Len(h) /\ h \in Seq(Entries \cup {Hole})
  BY PlacedEntries DEF Placed
<1>3. CASE mayStay = {}
  <2>1. g = <<>> BY <1>1, <1>3
  <2>2. Range(<<>>) = {} BY DEF Range
  <2> QED BY <2>1, <2>2, EmptyIsPlaced
<1>4. CASE mayStay # {}
  <2> DEFINE m == Min(mayStay)
  <2>1. mayStay \subseteq Nat BY <1>2
  <2> HIDE DEF mayStay
  <2>2. m \in mayStay BY <2>1, <1>4, LeastIsMin
  <2>3. m \in DOMAIN h /\ h[m] # Hole BY <2>2 DEF mayStay
  <2>4. g = SubSeq(h, m, Len(h)) BY <1>1, <1>4
  <2> HIDE DEF m, g
  <2>5. /\ g \in Seq(Entries \cup {Hole}) /\ Len(g) = Len(h) - m + 1
        /\ \A k \in 1..Len(g) : g[k] = h[m + k - 1]
    BY <2>3, <2>4, <1>2
  <2> QED BY <2>3, <2>5, SuffixFacts DEF g
<1> QED BY <1>3, <1>4

(* What removing a packet, or a hole, leaves.                              *)
LEMMA RemovedFacts ==
  ASSUME NEW n \in Seqs, NEW h, Placed(h, n), NEW i \in DOMAIN h
  PROVE  /\ Placed(RemovePacket(h, i), n)
         /\ Range(RemovePacket(h, i)) \ {Hole} \subseteq Range(h)
<1> DEFINE g == [h EXCEPT ![i] = Hole]
           left == {j \in DOMAIN g : g[j] # Hole}
           r == RemovePacket(h, i)
<1>1. r = IF i > 1 THEN g ELSE IF left = {} THEN <<>> ELSE SubSeq(g, Min(left), Len(g))
  BY DEF RemovePacket
<1>2. /\ Len(h) \in Nat /\ DOMAIN h = 1..Len(h) /\ h \in Seq(Entries \cup {Hole})
  BY PlacedEntries DEF Placed
<1>3. /\ g \in Seq(Entries \cup {Hole}) /\ Len(g) = Len(h) /\ DOMAIN g = DOMAIN h
      /\ \A j \in DOMAIN h : g[j] = IF j = i THEN Hole ELSE h[j]
  BY <1>2
<1> HIDE DEF g
<1>4. CASE i > 1
  <2>1. r = g BY <1>1, <1>4
  <2>2. 1 \in DOMAIN h /\ 1 # i /\ h # <<>> /\ g # <<>> BY <1>2, <1>3, <1>4
  <2>3. g[1] = h[1] BY <2>2, <1>3
  <2>4. Placed(g, n) BY <2>2, <2>3, <1>3 DEF Placed
  <2>5. Range(g) \ {Hole} \subseteq Range(h) BY <1>3 DEF Range
  <2> QED BY <2>1, <2>4, <2>5
<1>5. CASE ~(i > 1) /\ left = {}
  <2>1. r = <<>> BY <1>1, <1>5
  <2>2. Range(<<>>) = {} BY DEF Range
  <2> QED BY <2>1, <2>2, EmptyIsPlaced
<1>6. CASE ~(i > 1) /\ left # {}
  <2> DEFINE m == Min(left)
  <2>1. left \subseteq Nat BY <1>2, <1>3
  <2>2. r = SubSeq(g, m, Len(g)) BY <1>1, <1>6
  <2> HIDE DEF left
  <2>3. m \in left BY <2>1, <1>6, LeastIsMin
  <2>4. m \in DOMAIN h /\ g[m] # Hole BY <2>3, <1>3 DEF left
  <2>5. i = 1 /\ m # i /\ h[m] # Hole BY <2>4, <1>2, <1>3, <1>6
  <2> HIDE DEF m, r
  <2>6. /\ r \in Seq(Entries \cup {Hole}) /\ Len(r) = Len(h) - m + 1
        /\ \A k \in 1..Len(r) : r[k] = g[m + k - 1]
    BY <2>2, <2>4, <1>2, <1>3
  <2>7. ASSUME NEW k \in 1..Len(r) PROVE r[k] = h[m + k - 1]
    <3>1. m + k - 1 \in DOMAIN h /\ m + k - 1 # i BY <2>4, <2>5, <2>6, <1>2
    <3> QED BY <3>1, <2>6, <1>3
  <2>8. Placed(r, n) /\ Range(r) \subseteq Range(h) BY <2>4, <2>5, <2>6, <2>7, SuffixFacts
  <2>9. Range(r) \ {Hole} \subseteq Range(h) BY <2>8
  <2> QED BY <2>8, <2>9 DEF r
<1> QED BY <1>4, <1>5, <1>6

(* A packet is marked: no other is touched.                                *)
LEMMA MarkedFacts ==
  ASSUME NEW n \in Seqs, NEW h, Placed(h, n), NEW i \in DOMAIN h, h[i] # Hole,
         NEW e \in Entries, e.seq = h[i].seq
  PROVE  LET g == [h EXCEPT ![i] = e]
         IN /\ Placed(g, n)
            /\ \A x \in Range(g) \ {Hole} : x = e \/ (x \in Range(h) /\ x.seq # e.seq)
<1> DEFINE g == [h EXCEPT ![i] = e]
<1>1. /\ Len(h) \in Nat /\ DOMAIN h = 1..Len(h) /\ h \in Seq(Entries \cup {Hole})
      /\ h # <<>> /\ 1 \in DOMAIN h /\ h[1] # Hole
  BY PlacedEntries DEF Placed
<1>2. Hole \notin Entries BY PlacedEntries
<1>3. /\ g \in Seq(Entries \cup {Hole}) /\ Len(g) = Len(h) /\ DOMAIN g = DOMAIN h
      /\ \A j \in DOMAIN h : g[j] = IF j = i THEN e ELSE h[j]
  BY <1>1
<1> HIDE DEF g
<1>4. \A j \in DOMAIN h : g[j] # Hole => h[j] # Hole /\ g[j].seq = h[j].seq BY <1>3
<1>5. g[1] # Hole /\ g[1].seq = h[1].seq BY <1>1, <1>2, <1>3
<1>6. Placed(g, n) BY <1>1, <1>3, <1>4, <1>5 DEF Placed
<1>7. ASSUME NEW x \in Range(g) \ {Hole} PROVE x = e \/ (x \in Range(h) /\ x.seq # e.seq)
  <2>1. PICK j \in DOMAIN h : x = g[j] BY <1>3 DEF Range
  <2>2. CASE j = i BY <2>1, <2>2, <1>3
  <2>3. CASE j # i
    <3>1. x = h[j] /\ h[j] # Hole BY <2>1, <2>3, <1>3
    <3>2. h[j].seq # h[i].seq BY <2>3, <3>1, IndexFacts
    <3> QED BY <3>1, <3>2 DEF Range
  <2> QED BY <2>2, <2>3
<1> QED BY <1>6, <1>7 DEF g

Newest(s, now) == [seq |-> s, send_time |-> now, pending |-> FALSE, times |-> 0]

(* The sequencer goes on: all that is kept falls behind by one.            *)
LEMMA SequencerFacts ==
  ASSUME NEW n \in Seqs, NEW h, Placed(h, n), h # <<>> => NearTo(h[1].seq, n)
  PROVE  /\ SeqSpan # 1 /\ Sequenced(n + 1) \in Seqs
         /\ Placed(h, Sequenced(n + 1))
         /\ \A j \in DOMAIN h : h[j] # Hole =>
              Behind(h[j].seq, Sequenced(n + 1)) = Behind(h[j].seq, n) + 1
         /\ h # <<>> => Behind(h[1].seq, Sequenced(n + 1)) = Behind(h[1].seq, n) + 1
<1> DEFINE n2 == Sequenced(n + 1)
<1>1. SeqSpan \in Nat /\ SeqSpan # 1 /\ Seqs = 0..SeqSpan - 1 /\ n2 \in Seqs
  <2>1. SeqSpan \in Nat /\ SeqSpan % 2 = 0 /\ Seqs = 0..SeqSpan - 1
    BY HistoryAssumption DEF Seqs
  <2>2. 1 % 2 = 1 OBVIOUS
  <2>3. n2 \in Seqs BY BehindFacts
  <2> QED BY <2>1, <2>2, <2>3
<1> HIDE DEF n2
<1>2. /\ Len(h) \in Nat /\ DOMAIN h = 1..Len(h) /\ (h = <<>> <=> Len(h) = 0)
      /\ \A j \in DOMAIN h : h[j] # Hole => h[j] \in Entries /\ h[j].seq \in Seqs
      /\ h # <<>> => /\ 1 \in DOMAIN h /\ h[1] # Hole /\ h[1].seq \in Seqs
                     /\ Len(h) <= Behind(h[1].seq, n)
  BY PlacedEntries
<1>3. \A j \in DOMAIN h : h[j] # Hole => Behind(h[j].seq, n) = Behind(h[1].seq, n) - (j - 1)
  BY DEF Placed
<1>4. ASSUME NEW j \in DOMAIN h, h[j] # Hole
      PROVE  Behind(h[j].seq, n2) = Behind(h[j].seq, n) + 1
  <2> DEFINE b == Behind(h[1].seq, n)
             s == h[j].seq
  <2>1. h # <<>> /\ j \in 1..Len(h) /\ s \in Seqs /\ h[1].seq \in Seqs BY <1>2, <1>4
  <2>2. b \in Seqs BY <2>1, BehindFacts
  <2>3. 2 * b < SeqSpan BY <2>1 DEF NearTo
  <2>4. Behind(s, n) = b - (j - 1) BY <1>3, <1>4
  <2>5. Behind(s, n) + 1 < SeqSpan => Behind(s, n2) = Behind(s, n) + 1
    BY <2>1, BehindFacts DEF n2
  <2> HIDE DEF b, s
  <2>6. Len(h) <= b BY <2>1, <1>2 DEF b
  <2>7. Behind(s, n) + 1 < SeqSpan BY <1>1, <1>2, <2>1, <2>2, <2>3, <2>4, <2>6
  <2> QED BY <2>5, <2>7 DEF s
<1>5. h # <<>> => Behind(h[1].seq, n2) = Behind(h[1].seq, n) + 1 BY <1>2, <1>4
<1>6. Placed(h, n2)
  <2>1. h # <<>> => Behind(h[1].seq, n) \in Int
    <3>1. h # <<>> => Behind(h[1].seq, n) \in Seqs BY <1>2, BehindFacts
    <3>2. \A x \in Seqs : x \in Int BY <1>1
    <3> QED BY <3>1, <3>2
  <2>2. h # <<>> => Len(h) <= Behind(h[1].seq, n2)
    <3> DEFINE b == Behind(h[1].seq, n)
    <3>1. h # <<>> => b \in Int /\ Len(h) <= b /\ Behind(h[1].seq, n2) = b + 1
      BY <1>2, <1>5, <2>1
    <3> HIDE DEF b
    <3> QED BY <3>1, <1>2
  <2>3. ASSUME NEW j \in DOMAIN h, h[j] # Hole
        PROVE  Behind(h[j].seq, n2) = Behind(h[1].seq, n2) - (j - 1)
    <3> DEFINE b == Behind(h[1].seq, n)
    <3>1. j \in Int /\ h # <<>> BY <1>2, <2>3
    <3>2. b \in Int /\ Behind(h[1].seq, n2) = b + 1 BY <3>1, <1>5, <2>1
    <3>3. Behind(h[j].seq, n2) = (b - (j - 1)) + 1 BY <1>3, <1>4, <2>3
    <3> HIDE DEF b
    <3> QED BY <3>1, <3>2, <3>3
  <2> QED BY <1>2, <2>2, <2>3 DEF Placed
<1> QED BY <1>1, <1>4, <1>5, <1>6 DEF n2

(* A packet is stored: it goes behind all that is kept.                    *)
LEMMA PutFacts ==
  ASSUME NEW n \in Seqs, Placed(packet_history, n),
         \A x \in Range(packet_history) \ {Hole} : NearTo(x.seq, n),
         NEW now \in Nat, PutRtpPacket(n, now)
  PROVE  /\ Placed(packet_history', Sequenced(n + 1))
         /\ Newest(n, now) \in Entries
         /\ \A x \in Range(packet_history') \ {Hole} :
              x = Newest(n, now) \/ (x \in Range(packet_history) \ {Hole} /\ x.seq # n)
<1> DEFINE c == Culled(packet_history, now, PacketDuration)
           h == IF Stored(c, n) THEN RemovePacket(c, At(c, n)) ELSE c
           i == GetPacketIndex(h, n)
           front == [j \in 1..(IF i < 0 THEN -i ELSE 0) |-> Hole]
           back == [j \in 1..(IF i >= Len(h) THEN i + 1 - Len(h) ELSE 0) |-> Hole]
           new == Newest(n, now)
           n2 == Sequenced(n + 1)
           r == packet_history'
<1>1. r = [front \o h \o back EXCEPT ![IF i < 0 THEN 1 ELSE i + 1] = new]
  BY DEF PutRtpPacket, Newest
<1>2. Placed(c, n) /\ Range(c) \subseteq Range(packet_history) BY CulledFacts
<1> HIDE DEF c
<1>3. /\ Len(c) \in Nat /\ DOMAIN c = 1..Len(c) /\ (c = <<>> <=> Len(c) = 0)
      /\ c \in Seq(Entries \cup {Hole})
      /\ \A j \in DOMAIN c : c[j] # Hole => c[j] \in Entries /\ c[j].seq \in Seqs
      /\ c # <<>> => /\ 1 \in DOMAIN c /\ c[1] # Hole /\ c[1].seq \in Seqs
                     /\ Len(c) <= Behind(c[1].seq, n)
  BY <1>2, PlacedEntries DEF Placed
<1>4. \A j \in DOMAIN c : c[j] # Hole => c[j] \in Range(packet_history) \ {Hole}
  BY <1>2 DEF Range
<1>5. c # <<>> => NearTo(c[1].seq, n) BY <1>3, <1>4
<1> DEFINE k == GetPacketIndex(c, n)
<1>6. /\ k \in Nat /\ k >= Len(c)
      /\ c # <<>> => k = Behind(c[1].seq, n)
      /\ c = <<>> => k = 0
  <2>1. c = <<>> => k = 0 BY DEF GetPacketIndex
  <2>2. c # <<>> => k = Behind(c[1].seq, n) BY <1>2, <1>5, IndexFacts
  <2>3. c # <<>> => Behind(c[1].seq, n) \in Nat
    <3>1. c # <<>> => Behind(c[1].seq, n) \in Seqs BY <1>3, BehindFacts
    <3>2. \A x \in Seqs : x \in Nat BY HistoryAssumption DEF Seqs
    <3> QED BY <3>1, <3>2
  <2> HIDE DEF k
  <2> QED BY <2>1, <2>2, <2>3, <1>3
<1>7. ~Stored(c, n)
  <2>1. k \notin 0..Len(c) - 1
    <3> HIDE DEF k
    <3> QED BY <1>6, <1>3
  <2> QED BY <2>1 DEF Stored
<1>8. h = c /\ i = k BY <1>7
<1> HIDE DEF h, i, k
<1>9. ~(k < 0) /\ k >= Len(c) BY <1>6, <1>3
<1> DEFINE gap == [j \in 1..(k + 1 - Len(c)) |-> Hole]
           none == [j \in 1..0 |-> Hole]
<1>10. front = none /\ back = gap /\ (IF i < 0 THEN 1 ELSE i + 1) = k + 1 BY <1>8, <1>9
<1>11. r = [none \o c \o gap EXCEPT ![k + 1] = new] BY <1>1, <1>8, <1>10
<1> HIDE DEF front, back
<1>12. /\ none \in Seq(Entries \cup {Hole}) /\ Len(none) = 0
       /\ gap \in Seq(Entries \cup {Hole}) /\ Len(gap) = k + 1 - Len(c)
       /\ \A j \in 1..Len(gap) : gap[j] = Hole
  <2>1. 0 \in Nat /\ k + 1 - Len(c) \in Nat BY <1>3, <1>6
  <2> QED BY <2>1
<1> HIDE DEF none, gap
<1> DEFINE m == none \o c \o gap
<1>13. /\ m \in Seq(Entries \cup {Hole}) /\ Len(m) = k + 1 /\ DOMAIN m = 1..k + 1
       /\ \A j \in 1..k + 1 : m[j] = IF j <= Len(c) THEN c[j] ELSE Hole
  <2> DEFINE u == none \o c
  <2>1. u \in Seq(Entries \cup {Hole}) /\ Len(u) = Len(c) /\ \A j \in 1..Len(c) : u[j] = c[j]
    BY <1>3, <1>12
  <2> HIDE DEF u
  <2>2. m = u \o gap BY DEF u
  <2> HIDE DEF m
  <2>3. m \in Seq(Entries \cup {Hole}) /\ Len(m) = k + 1 BY <2>1, <2>2, <1>3, <1>6, <1>12
  <2>4. ASSUME NEW j \in 1..k + 1 PROVE m[j] = IF j <= Len(c) THEN c[j] ELSE Hole
    <3>1. CASE j <= Len(c) BY <3>1, <2>1, <2>2, <1>3, <1>6, <1>12
    <3>2. CASE ~(j <= Len(c))
      <4>1. j - Len(c) \in 1..Len(gap) BY <3>2, <1>3, <1>6, <1>12
      <4>2. m[j] = gap[j - Len(c)] BY <4>1, <3>2, <2>1, <2>2, <1>3, <1>6, <1>12
      <4> QED BY <4>1, <4>2, <3>2, <1>12
    <3> QED BY <3>1, <3>2
  <2> QED BY <2>3, <2>4, <1>6
<1>14. new \in Entries BY DEF Newest, Entries
<1>15. new.seq = n BY DEF Newest
<1>16. r = [m EXCEPT ![k + 1] = new] BY <1>11
<1> HIDE DEF m, new, r
<1>17. /\ r \in Seq(Entries \cup {Hole}) /\ Len(r) = k + 1 /\ DOMAIN r = 1..k + 1
       /\ \A j \in 1..k + 1 : r[j] = IF j <= Len(c) THEN c[j]
                                     ELSE IF j = k + 1 THEN new ELSE Hole
  BY <1>3, <1>6, <1>13, <1>14, <1>16
<1>18. /\ SeqSpan # 1 /\ n2 \in Seqs
       /\ \A j \in DOMAIN c : c[j] # Hole => Behind(c[j].seq, n2) = Behind(c[j].seq, n) + 1
       /\ c # <<>> => Behind(c[1].seq, n2) = Behind(c[1].seq, n) + 1
  BY <1>2, <1>5, SequencerFacts
<1>19. Behind(n, n2) = 1 BY <1>18, BehindFacts
<1> HIDE DEF n2
<1>20. /\ r[1] # Hole /\ Len(r) <= Behind(r[1].seq, n2) /\ Behind(r[1].seq, n2) = k + 1
  <2>1. CASE c = <<>>
    <3>1. k = 0 /\ Len(c) = 0 BY <2>1, <1>3, <1>6
    <3>2. r[1] = new /\ Len(r) = 1 BY <3>1, <1>17
    <3>3. new # Hole BY <1>2, <1>14, PlacedEntries
    <3> QED BY <3>1, <3>2, <3>3, <1>15, <1>19
  <2>2. CASE c # <<>>
    <3>1. r[1] = c[1] BY <2>2, <1>3, <1>6, <1>17
    <3> QED BY <3>1, <2>2, <1>3, <1>6, <1>17, <1>18
  <2> QED BY <2>1, <2>2
<1>21. ASSUME NEW j \in DOMAIN r, r[j] # Hole
       PROVE  Behind(r[j].seq, n2) = Behind(r[1].seq, n2) - (j - 1)
  <2>1. CASE j <= Len(c)
    <3>1. j \in DOMAIN c /\ r[j] = c[j] /\ c # <<>> /\ j \in Int BY <2>1, <1>3, <1>6, <1>17
    <3>2. Behind(c[j].seq, n) = Behind(c[1].seq, n) - (j - 1)
      BY <3>1, <1>2, <1>21 DEF Placed
    <3>3. Behind(r[j].seq, n2) = (k - (j - 1)) + 1 BY <3>1, <3>2, <1>6, <1>18, <1>21
    <3> QED BY <3>1, <3>3, <1>6, <1>20
  <2>2. CASE ~(j <= Len(c))
    <3>1. j = k + 1 /\ r[j] = new BY <2>2, <1>17, <1>21
    <3> QED BY <3>1, <1>6, <1>15, <1>19, <1>20
  <2> QED BY <2>1, <2>2
<1>22. Placed(r, n2) BY <1>17, <1>20, <1>21 DEF Placed
<1>23. ASSUME NEW x \in Range(r) \ {Hole}
       PROVE  x = new \/ (x \in Range(packet_history) \ {Hole} /\ x.seq # n)
  <2>1. PICK j \in 1..k + 1 : x = r[j] BY <1>17 DEF Range
  <2>2. CASE j <= Len(c)
    <3>1. j \in DOMAIN c /\ x = c[j] /\ c[j] # Hole BY <2>1, <2>2, <1>3, <1>6, <1>17
    <3>2. x \in Range(packet_history) \ {Hole} BY <3>1, <1>4
    <3>3. NearTo(x.seq, n) BY <3>2
    <3>4. Behind(n, n) = 0 BY HistoryAssumption, BehindFacts DEF Seqs
    <3> QED BY <3>2, <3>3, <3>4 DEF NearTo
  <2>3. CASE ~(j <= Len(c)) BY <2>1, <2>3, <1>17
  <2> QED BY <2>2, <2>3
<1> QED BY <1>14, <1>22, <1>23 DEF new, n2, r

-----------------------------------------------------------------------------
(* The copies on their way: those in the posted tasks, and those queued.   *)
TaskCopies(ts, s) ==
  {i \in DOMAIN ts : /\ ts[i].t = "enqueue"
                     /\ ts[i].packets[1].type = "retransmission"
                     /\ ts[i].packets[1].seq = s}

QueueCopies(c, s) ==
  {p \in QueuedPackets(c.packet_queue) : p.type = "retransmission" /\ p.seq = s}

NoCopy(s) == TaskCopies(tasks, s) = {} /\ QueueCopies(pacing_controller, s) = {}

OneAtMost(S, T) ==
  (\A x, y \in S : x = y) /\ (\A x, y \in T : x = y) /\ (S = {} \/ T = {})

OneCopy(s) == OneAtMost(TaskCopies(tasks, s), QueueCopies(pacing_controller, s))

Kept == Range(packet_history) \ {Hole}

(* What the theorems about retransmissions assume of the numbers, of which *)
(* there are 2^16: they have not come around to what is kept, the packets  *)
(* that are kept being less than half of them behind the sequencer, or to  *)
(* a packet that is on its way.                                            *)
Near ==
  /\ \A e \in Kept : NearTo(e.seq, sequencer.next)
  /\ UnderWay(sequencer.next) = 0

(* A list that is posted has one copy, or no copies.                       *)
ListOK(ps) ==
  /\ ps # <<>>
  /\ \/ Len(ps) = 1 /\ ps[1].type = "retransmission" /\ ps[1].ssrc = "video"
     \/ \A k \in DOMAIN ps : ps[k].type # "retransmission"

ListsOK == \A i \in DOMAIN tasks : tasks[i].t = "enqueue" => ListOK(tasks[i].packets)

CopiesAreVideo ==
  \A p \in QueuedPackets(pacing_controller.packet_queue) :
    p.type = "retransmission" => p.ssrc = "video"

(* The marks, and the times at which packets were sent again.              *)
Marks ==
  \A e \in Kept : IF e.pending THEN ~NoCopy(e.seq) \/ e.seq \in rejected ELSE NoCopy(e.seq)

Spaced ==
  /\ \A s \in DOMAIN resent : resent[s] \in Nat
  /\ \A e \in Kept : e.seq \in DOMAIN resent => e.times > 0 /\ e.send_time >= resent[e.seq]
  /\ \A s \in DOMAIN resent : ~NoCopy(s) => clock >= resent[s] + Min(Rtts)

Resending ==
  /\ sequencer \in [next : Seqs, marker : BOOLEAN]
  /\ Placed(packet_history, sequencer.next)
  /\ ListsOK /\ CopiesAreVideo
  /\ nack.left # <<>> => rtt \in Rtts
  /\ \A s : OneCopy(s)
  /\ Marks /\ Spaced

(* The shortest of the round-trip times.                                   *)
LEMMA RttFacts == Min(Rtts) \in Nat /\ \A r \in Rtts : r \in Nat /\ Min(Rtts) <= r
<1>1. Rtts \subseteq Nat /\ Rtts # {} BY SendPathAssumption
<1>2. Min(Rtts) \in Rtts /\ \A r \in Rtts : Min(Rtts) <= r BY <1>1, LeastIsMin
<1> DEFINE m == Min(Rtts)
<1> HIDE DEF m
<1>3. m \in Rtts /\ \A r \in Rtts : m <= r BY <1>2 DEF m
<1> QED BY <1>1, <1>3 DEF m

(* How many elements a set with at most one has.                           *)
LEMMA OneAtMostCounts ==
  ASSUME NEW S, NEW T, IsFiniteSet(S), IsFiniteSet(T)
  PROVE  /\ Cardinality(S) + Cardinality(T) = 0 <=> S = {} /\ T = {}
         /\ OneAtMost(S, T) /\ ~(S = {} /\ T = {}) => Cardinality(S) + Cardinality(T) = 1
<1>1. /\ Cardinality(S) \in Nat /\ Cardinality(T) \in Nat
      /\ (Cardinality(S) = 0 <=> S = {}) /\ (Cardinality(T) = 0 <=> T = {})
  BY FS_CardinalityType, FS_EmptySet
<1>2. ASSUME NEW U, U # {}, \A x, y \in U : x = y PROVE Cardinality(U) = 1
  <2>1. PICK x \in U : TRUE BY <1>2
  <2>2. U = {x} BY <2>1, <1>2
  <2> QED BY <2>2, FS_Singleton
<1>3. ASSUME OneAtMost(S, T), ~(S = {} /\ T = {}) PROVE Cardinality(S) + Cardinality(T) = 1
  <2>1. CASE S = {}
    <3>1. T # {} /\ \A x, y \in T : x = y BY <2>1, <1>3 DEF OneAtMost
    <3>2. Cardinality(S) = 0 /\ Cardinality(T) = 1 BY <2>1, <3>1, <1>1, <1>2
    <3> QED BY <3>2
  <2>2. CASE S # {}
    <3>1. T = {} /\ \A x, y \in S : x = y BY <2>2, <1>3 DEF OneAtMost
    <3>2. Cardinality(S) = 1 /\ Cardinality(T) = 0 BY <2>2, <3>1, <1>1, <1>2
    <3> QED BY <3>2
  <2> QED BY <2>1, <2>2
<1>4. Cardinality(S) + Cardinality(T) = 0 <=> S = {} /\ T = {} BY <1>1
<1> QED BY <1>3, <1>4

(* UnderWay counts the copies.                                             *)
LEMMA UnderWayCounts ==
  ASSUME IInv, NEW s
  PROVE  /\ UnderWay(s) = 0 <=> NoCopy(s)
         /\ OneCopy(s) /\ ~NoCopy(s) => UnderWay(s) = 1
<1> DEFINE S == TaskCopies(tasks, s)
           T == QueueCopies(pacing_controller, s)
<1>1. UnderWay(s) = Cardinality(S) + Cardinality(T) BY DEF UnderWay, TaskCopies, QueueCopies
<1>2. IsFiniteSet(S)
  <2>1. tasks \in Seq(Tasks) BY DEF IInv
  <2>2. IsFiniteSet(DOMAIN tasks)
    <3>1. DOMAIN tasks = 1..Len(tasks) /\ Len(tasks) \in Nat BY <2>1
    <3> QED BY <3>1, FS_Interval
  <2>3. S \subseteq DOMAIN tasks BY DEF TaskCopies
  <2> QED BY <2>2, <2>3, FS_Subset
<1>3. IsFiniteSet(T)
  <2>1. IsFiniteSet(QueuedPackets(pacing_controller.packet_queue))
    BY DEF IInv, PacerOK, ControllerOK, QueueOK, Counted
  <2>2. T \subseteq QueuedPackets(pacing_controller.packet_queue) BY DEF QueueCopies
  <2> QED BY <2>1, <2>2, FS_Subset
<1>4. /\ NoCopy(s) <=> S = {} /\ T = {}
      /\ OneCopy(s) <=> OneAtMost(S, T)
  BY DEF NoCopy, OneCopy
<1> HIDE DEF S, T
<1> QED BY <1>1, <1>2, <1>3, <1>4, OneAtMostCounts

(* The marks are what OneCopyWhileMarked says.                             *)
LEMMA MarksMean ==
  ASSUME IInv, Resending
  PROVE  OneCopyWhileMarked
<1> SUFFICES ASSUME NEW e \in Kept
             PROVE  /\ UnderWay(e.seq) <= 1
                    /\ UnderWay(e.seq) = 1 => e.pending
                    /\ e.pending => UnderWay(e.seq) = 1 \/ e.seq \in rejected
  BY DEF OneCopyWhileMarked, Kept
<1>1. /\ UnderWay(e.seq) = 0 <=> NoCopy(e.seq)
      /\ OneCopy(e.seq) /\ ~NoCopy(e.seq) => UnderWay(e.seq) = 1
  BY UnderWayCounts
<1>2. /\ OneCopy(e.seq)
      /\ IF e.pending THEN ~NoCopy(e.seq) \/ e.seq \in rejected ELSE NoCopy(e.seq)
  BY DEF Resending, Marks
<1>3. UnderWay(e.seq) = 0 \/ UnderWay(e.seq) = 1 BY <1>1, <1>2
<1>4. UnderWay(e.seq) <= 1 BY <1>3
<1> QED BY <1>1, <1>2, <1>3, <1>4

(* What Near says of the history and of the copies.                        *)
LEMMA NearFacts ==
  ASSUME IInv, Resending, Near
  PROVE  /\ sequencer.next \in Seqs /\ Placed(packet_history, sequencer.next)
         /\ packet_history # <<>> => NearTo(packet_history[1].seq, sequencer.next)
         /\ NoCopy(sequencer.next)
<1>1. sequencer.next \in Seqs /\ Placed(packet_history, sequencer.next) BY DEF Resending
<1>2. packet_history # <<>> => NearTo(packet_history[1].seq, sequencer.next)
  <2>1. packet_history # <<>> => 1 \in DOMAIN packet_history /\ packet_history[1] # Hole
    BY <1>1, PlacedEntries
  <2>2. packet_history # <<>> => packet_history[1] \in Kept BY <2>1 DEF Kept, Range
  <2> QED BY <2>2 DEF Near
<1>3. NoCopy(sequencer.next) BY UnderWayCounts DEF Near
<1> QED BY <1>1, <1>2, <1>3

-----------------------------------------------------------------------------
(* A step that leaves the copies where they are, or hands one from the     *)
(* tasks to the queue, and puts nothing into the history.                  *)
CopiesKept ==
  \A s : (NoCopy(s)' <=> NoCopy(s)) /\ (OneCopy(s) => OneCopy(s)')

LEMMA NothingNew ==
  ASSUME IInv, Resending, CopiesKept,
         Range(packet_history') \ {Hole} \subseteq Range(packet_history) \ {Hole},
         rejected \subseteq rejected', resent' = resent, clock' \in Nat, clock <= clock'
  PROVE  (\A s : OneCopy(s)') /\ Marks' /\ Spaced'
<1>1. \A s : OneCopy(s)' BY DEF Resending, CopiesKept
<1>2. Marks'
  <2> SUFFICES ASSUME NEW e \in Kept'
               PROVE  IF e.pending THEN ~NoCopy(e.seq)' \/ e.seq \in rejected' ELSE NoCopy(e.seq)'
    BY DEF Marks
  <2>1. e \in Kept BY DEF Kept
  <2>2. IF e.pending THEN ~NoCopy(e.seq) \/ e.seq \in rejected ELSE NoCopy(e.seq)
    BY <2>1 DEF Resending, Marks
  <2>3. NoCopy(e.seq)' <=> NoCopy(e.seq) BY DEF CopiesKept
  <2> QED BY <2>2, <2>3
<1>3. Spaced'
  <2>1. Spaced BY DEF Resending
  <2>2. Kept' \subseteq Kept BY DEF Kept
  <2>3. \A e \in Kept' : e.seq \in DOMAIN resent => e.times > 0 /\ e.send_time >= resent[e.seq]
    BY <2>1, <2>2 DEF Spaced
  <2>4. ASSUME NEW s \in DOMAIN resent, ~NoCopy(s)' PROVE clock' >= resent[s] + Min(Rtts)
    <3>1. ~NoCopy(s) BY <2>4 DEF CopiesKept
    <3>2. clock >= resent[s] + Min(Rtts) BY <3>1, <2>1 DEF Spaced
    <3>3. clock \in Nat /\ resent[s] \in Nat BY <2>1 DEF Spaced, IInv
    <3>4. Min(Rtts) \in Int BY RttFacts
    <3> QED BY <3>2, <3>3, <3>4
  <2> QED BY <2>1, <2>3, <2>4 DEF Spaced
<1> QED BY <1>1, <1>2, <1>3

(* Copies after the first of the posted tasks was taken.                   *)
LEMMA TailCopies ==
  ASSUME NEW S, NEW ts \in Seq(S), ts # <<>>, NEW s
  PROVE  LET before == TaskCopies(ts, s)
             after == TaskCopies(Tail(ts), s)
         IN /\ 1 \notin before =>
                 /\ after = {} <=> before = {}
                 /\ (\A x, y \in before : x = y) => \A x, y \in after : x = y
            /\ 1 \in before /\ (\A x, y \in before : x = y) => after = {}
<1> DEFINE us == Tail(ts)
           before == TaskCopies(ts, s)
           after == TaskCopies(us, s)
<1>1. /\ Len(ts) \in Nat /\ Len(ts) >= 1 /\ DOMAIN ts = 1..Len(ts)
      /\ DOMAIN us = 1..Len(ts) - 1 /\ \A i \in 1..Len(ts) - 1 : us[i] = ts[i + 1]
  <2>1. us \in Seq(S) /\ Len(us) = Len(ts) - 1 /\ \A i \in 1..Len(ts) - 1 : us[i] = ts[i + 1]
    BY TailFacts
  <2> HIDE DEF us
  <2> QED BY <2>1
<1> HIDE DEF us
<1>2. ASSUME NEW i \in after PROVE i + 1 \in before /\ i \in Nat /\ i >= 1
  <2>1. i \in 1..Len(ts) - 1 BY <1>1, <1>2 DEF TaskCopies
  <2>2. i + 1 \in DOMAIN ts /\ us[i] = ts[i + 1] BY <2>1, <1>1
  <2> QED BY <2>1, <2>2, <1>2 DEF TaskCopies
<1>3. ASSUME NEW i \in before, i # 1 PROVE i - 1 \in after
  <2>1. i \in 1..Len(ts) BY <1>1, <1>3 DEF TaskCopies
  <2>2. i - 1 \in DOMAIN us /\ us[i - 1] = ts[i] BY <2>1, <1>1, <1>3
  <2> QED BY <2>2, <1>3 DEF TaskCopies
<1> HIDE DEF before, after
<1>4. ASSUME \A x, y \in before : x = y PROVE \A x, y \in after : x = y
  <2> SUFFICES ASSUME NEW x \in after, NEW y \in after PROVE x = y OBVIOUS
  <2>1. x + 1 = y + 1 /\ x \in Nat /\ y \in Nat BY <1>2, <1>4
  <2> QED BY <2>1
<1>5. ASSUME 1 \notin before PROVE after = {} <=> before = {} BY <1>2, <1>3, <1>5
<1>6. ASSUME 1 \in before, \A x, y \in before : x = y PROVE after = {}
  <2> SUFFICES ASSUME NEW x \in after PROVE FALSE OBVIOUS
  <2>1. x + 1 = 1 /\ x \in Nat /\ x >= 1 BY <1>2, <1>6
  <2> QED BY <2>1
<1> QED BY <1>4, <1>5, <1>6 DEF before, after, us

(* What is added that is not a copy.                                       *)
LEMMA NoCopiesAdded ==
  ASSUME NEW c, NEW d, NEW T, Adds(c, d, T), "retransmission" \notin T
  PROVE  \A s : QueueCopies(d, s) = QueueCopies(c, s)
BY DEF Adds, QueueCopies

(* A task goes to its list of packets.                                     *)
LEMMA ListTypes ==
  ASSUME NEW task \in Tasks, task.t = "enqueue"
  PROVE  /\ task.packets \in Seq(Packets)
         /\ \A i \in DOMAIN task.packets :
              /\ task.packets[i] \in Packets
              /\ task.packets[i].type \in Types
              /\ task.packets[i].type = "audio" => task.packets[i].ssrc = "audio"
<1> DEFINE ps == task.packets
<1>1. ps \in Seq(SomePackets) BY TaskFacts
<1> HIDE DEF ps
<1>2. \A i \in DOMAIN ps : ps[i] \in SomePackets BY <1>1
<1>3. \A i \in DOMAIN ps : /\ ps[i] \in Packets /\ ps[i].type \in Types
                           /\ ps[i].type = "audio" => ps[i].ssrc = "audio"
  BY <1>2 DEF SomePackets, Packets
<1>4. ps \in Seq(Packets) BY <1>1, <1>3
<1> QED BY <1>3, <1>4 DEF ps

(* The first task hands its copy, if it has one, to the queue.             *)
LEMMA RunTaskCopies ==
  ASSUME IInv, Resending, RunTask
  PROVE  CopiesKept /\ CopiesAreVideo' /\ ListsOK'
<1> DEFINE c == pacing_controller
           e == pacing_controller'
           task == tasks[1]
           ps == task.packets
           d == EnqueueAll(c, ps, clock)
<1>1. /\ tasks # <<>> /\ tasks' = Tail(tasks) /\ tasks \in Seq(Tasks) /\ task \in Tasks
      /\ clock \in Nat /\ ControllerOK(c, clock)
  BY DEF RunTask, IInv, PacerOK
<1>2. IF task.t = "enqueue" THEN SamePackets(d, e) ELSE SamePackets(c, e) BY RunTaskKeeps
<1>3. CopiesAreVideo /\ ListsOK /\ \A s : OneCopy(s) BY DEF Resending
<1>4. ListsOK'
  <2>1. \A i \in DOMAIN Tail(tasks) : i + 1 \in DOMAIN tasks /\ Tail(tasks)[i] = tasks[i + 1]
    <3>1. /\ Tail(tasks) \in Seq(Tasks) /\ Len(Tail(tasks)) = Len(tasks) - 1
          /\ \A i \in 1..Len(tasks) - 1 : Tail(tasks)[i] = tasks[i + 1]
      BY <1>1, TailFacts
    <3> DEFINE us == Tail(tasks)
    <3> HIDE DEF us
    <3>2. DOMAIN us = 1..Len(tasks) - 1 /\ Len(tasks) \in Nat BY <1>1, <3>1 DEF us
    <3> QED BY <1>1, <3>1, <3>2 DEF us
  <2> QED BY <2>1, <1>1, <1>3 DEF ListsOK
<1>5. 1 \in DOMAIN tasks BY <1>1
<1> HIDE DEF task
<1>6. CASE task.t = "enqueue" /\ Len(ps) = 1 /\ ps[1].type = "retransmission"
                              /\ ps[1].ssrc = "video"
  <2>1. ps \in Seq(Packets) BY <1>1, <1>6, ListTypes
  <2>2. PICK packet \in Packets :
          /\ QueuedPackets(d.packet_queue) = QueuedPackets(c.packet_queue) \cup {packet}
          /\ packet.type = ps[1].type /\ packet.ssrc = ps[1].ssrc /\ packet.seq = ps[1].seq
    <3>1. ps[1].type # "audio" /\ Len(ps) = 1 BY <1>6
    <3> HIDE DEF ps
    <3> HIDE DEF d
    <3>2. Joined(c, d, ps[1]) BY <2>1, <3>1, <1>1, OneEnqueued DEF d
    <3> QED BY <3>2 DEF Joined
  <2>3. QueuedPackets(e.packet_queue) = QueuedPackets(c.packet_queue) \cup {packet}
    BY <2>2, <1>2, <1>6 DEF SamePackets
  <2>4. packet.type = "retransmission" /\ packet.ssrc = "video" BY <2>2, <1>6
  <2>5. CopiesAreVideo' BY <2>3, <2>4, <1>3 DEF CopiesAreVideo
  <2>6. ASSUME NEW s PROVE (NoCopy(s)' <=> NoCopy(s)) /\ (OneCopy(s) => OneCopy(s)')
    <3> DEFINE S == TaskCopies(tasks, s)
               T == QueueCopies(c, s)
               S2 == TaskCopies(tasks', s)
               T2 == QueueCopies(e, s)
    <3>1. /\ NoCopy(s) <=> S = {} /\ T = {}
          /\ NoCopy(s)' <=> S2 = {} /\ T2 = {}
          /\ OneCopy(s) <=> OneAtMost(S, T)
          /\ OneCopy(s)' <=> OneAtMost(S2, T2)
      BY DEF NoCopy, OneCopy
    <3>2. OneAtMost(S, T) BY <3>1, <1>3
    <3>3. /\ 1 \notin S => /\ S2 = {} <=> S = {}
                           /\ (\A x, y \in S : x = y) => \A x, y \in S2 : x = y
          /\ 1 \in S /\ (\A x, y \in S : x = y) => S2 = {}
      BY <1>1, TailCopies
    <3>4. CASE s = ps[1].seq
      <4>1. 1 \in S BY <3>4, <1>5, <1>6 DEF TaskCopies, task
      <4>2. S2 = {} /\ T = {} BY <4>1, <3>2, <3>3 DEF OneAtMost
      <4>3. T2 = T \cup {packet} BY <3>4, <2>2, <2>3, <2>4 DEF QueueCopies
      <4> HIDE DEF S, T, S2, T2
      <4>4. OneAtMost(S2, T2) BY <4>2, <4>3 DEF OneAtMost
      <4> QED BY <4>1, <4>2, <4>3, <4>4, <3>1
    <3>5. CASE s # ps[1].seq
      <4>1. 1 \notin S BY <3>5 DEF TaskCopies, task
      <4>2. T2 = T BY <3>5, <2>2, <2>3 DEF QueueCopies
      <4> HIDE DEF S, T, S2, T2
      <4>3. OneAtMost(S2, T2) BY <4>1, <4>2, <3>2, <3>3 DEF OneAtMost
      <4> QED BY <4>1, <4>2, <4>3, <3>1, <3>3
    <3> QED BY <3>4, <3>5
  <2> QED BY <2>5, <2>6, <1>4 DEF CopiesKept
<1>7. CASE task.t # "enqueue" \/ \A k \in DOMAIN ps : ps[k].type # "retransmission"
  <2>1. Adds(c, e, {"audio", "video", "padding"})
    <3>1. CASE task.t # "enqueue" BY <3>1, <1>2 DEF SamePackets, Adds
    <3>2. CASE task.t = "enqueue"
      <4>1. /\ ps \in Seq(Packets)
            /\ \A i \in DOMAIN ps : /\ ps[i].type \in Types
                                    /\ ps[i].type = "audio" => ps[i].ssrc = "audio"
        BY <3>2, <1>1, ListTypes
      <4>2. \A i \in DOMAIN ps : ps[i].type \in {"audio", "video", "padding"}
        BY <4>1, <3>2, <1>7 DEF Types
      <4> HIDE DEF ps, d
      <4>3. Grown(c, d, {"audio", "video", "padding"})
        BY <4>1, <4>2, <1>1, EnqueueAllFacts DEF d
      <4>4. SamePackets(d, e) BY <3>2, <1>2 DEF d, ps
      <4> QED BY <4>3, <4>4 DEF Grown, SamePackets, Adds
    <3> QED BY <3>1, <3>2
  <2>2. \A s : QueueCopies(e, s) = QueueCopies(c, s) BY <2>1, NoCopiesAdded
  <2>3. CopiesAreVideo' BY <2>1, <1>3 DEF CopiesAreVideo, Adds
  <2>4. ASSUME NEW s PROVE (NoCopy(s)' <=> NoCopy(s)) /\ (OneCopy(s) => OneCopy(s)')
    <3> DEFINE S == TaskCopies(tasks, s)
               T == QueueCopies(c, s)
               S2 == TaskCopies(tasks', s)
               T2 == QueueCopies(e, s)
    <3>1. /\ NoCopy(s) <=> S = {} /\ T = {}
          /\ NoCopy(s)' <=> S2 = {} /\ T2 = {}
          /\ OneCopy(s) <=> OneAtMost(S, T)
          /\ OneCopy(s)' <=> OneAtMost(S2, T2)
      BY DEF NoCopy, OneCopy
    <3>2. /\ 1 \notin S => /\ S2 = {} <=> S = {}
                           /\ (\A x, y \in S : x = y) => \A x, y \in S2 : x = y
      BY <1>1, TailCopies
    <3>3. 1 \notin S
      <4>1. CASE task.t # "enqueue" BY <4>1 DEF TaskCopies, task
      <4>2. CASE task.t = "enqueue"
        <5>1. ps # <<>> /\ ps \in Seq(Packets)
          BY <4>2, <1>1, <1>3, <1>5, ListTypes DEF ListsOK, ListOK, task
        <5>2. 1 \in DOMAIN ps
          <6> HIDE DEF ps
          <6> QED BY <5>1
        <5>3. ps[1].type # "retransmission" BY <5>2, <4>2, <1>7
        <5> QED BY <5>3 DEF TaskCopies, task
      <4> QED BY <4>1, <4>2
    <3>4. T2 = T BY <2>2
    <3> HIDE DEF S, T, S2, T2
    <3>5. OneAtMost(S, T) => OneAtMost(S2, T2) BY <3>2, <3>3, <3>4 DEF OneAtMost
    <3> QED BY <3>1, <3>2, <3>3, <3>4, <3>5
  <2> QED BY <2>3, <2>4, <1>4 DEF CopiesKept
<1>8. task.t = "enqueue" =>
        \/ Len(ps) = 1 /\ ps[1].type = "retransmission" /\ ps[1].ssrc = "video"
        \/ \A k \in DOMAIN ps : ps[k].type # "retransmission"
  BY <1>3, <1>5 DEF ListsOK, ListOK, task
<1> QED BY <1>6, <1>7, <1>8

(* A task is posted: a copy, if it holds one, comes after the others.      *)
LEMMA PostedCopies ==
  ASSUME NEW S, NEW ts \in Seq(S), NEW task, NEW us, us = Append(ts, task), NEW s
  PROVE  LET new == Len(ts) + 1
             copy == /\ task.t = "enqueue" /\ task.packets[1].type = "retransmission"
                     /\ task.packets[1].seq = s
         IN /\ \A i : i \in TaskCopies(us, s) <=> i \in TaskCopies(ts, s) \/ (copy /\ i = new)
            /\ new \notin DOMAIN ts /\ us[new] = task
            /\ \A i \in DOMAIN us : i \in DOMAIN ts \/ i = new
            /\ \A i \in DOMAIN ts : i \in DOMAIN us /\ us[i] = ts[i]
<1> DEFINE new == Len(ts) + 1
           copy == /\ task.t = "enqueue" /\ task.packets[1].type = "retransmission"
                   /\ task.packets[1].seq = s
<1>1. /\ new \notin DOMAIN ts /\ us[new] = task
      /\ DOMAIN us = DOMAIN ts \cup {new} /\ \A i \in DOMAIN ts : us[i] = ts[i]
  <2>1. Len(ts) \in Nat /\ DOMAIN ts = 1..Len(ts) OBVIOUS
  <2>2. DOMAIN us = 1..Len(ts) + 1 /\ us[Len(ts) + 1] = task /\ \A i \in DOMAIN ts : us[i] = ts[i]
    OBVIOUS
  <2> QED BY <2>1, <2>2
<1> HIDE DEF new
<1>2. \A i : i \in TaskCopies(us, s) <=> i \in TaskCopies(ts, s) \/ (copy /\ i = new)
  BY <1>1 DEF TaskCopies
<1> QED BY <1>1, <1>2 DEF new

(* Where the copies are the same, none has come or gone.                   *)
LEMMA SameCopies ==
  ASSUME \A s : TaskCopies(tasks', s) = TaskCopies(tasks, s),
         \A s : QueueCopies(pacing_controller', s) = QueueCopies(pacing_controller, s)
  PROVE  CopiesKept
<1> SUFFICES ASSUME NEW s PROVE (NoCopy(s)' <=> NoCopy(s)) /\ (OneCopy(s) => OneCopy(s)')
  BY DEF CopiesKept
<1> QED BY DEF NoCopy, OneCopy

(* A step with nothing new keeps the invariant.                            *)
LEMMA NothingNewKeeps ==
  ASSUME IInv, Resending, CopiesKept, CopiesAreVideo', ListsOK',
         sequencer' \in [next : Seqs, marker : BOOLEAN],
         Placed(packet_history', sequencer'.next),
         Range(packet_history') \ {Hole} \subseteq Range(packet_history),
         rejected \subseteq rejected', resent' = resent, clock' \in Nat, clock <= clock',
         nack'.left # <<>> => rtt' \in Rtts
  PROVE  Resending'
<1>1. Range(packet_history') \ {Hole} \subseteq Range(packet_history) \ {Hole} OBVIOUS
<1>2. (\A s : OneCopy(s)') /\ Marks' /\ Spaced' BY <1>1, NothingNew
<1> QED BY <1>2 DEF Resending

(* What the application posts holds no copy.                               *)
LEMMA AppResends ==
  ASSUME IInv, Resending, App
  PROVE  Resending'
<1>0. /\ tasks \in Seq(Tasks) /\ clock \in Nat /\ clock <= clock
      /\ ListsOK /\ CopiesAreVideo /\ sequencer \in [next : Seqs, marker : BOOLEAN]
      /\ Placed(packet_history, sequencer.next) /\ (nack.left # <<>> => rtt \in Rtts)
  BY DEF IInv, PacerOK, Resending
<1>1. ASSUME NEW task, Event(task),
             task.t = "enqueue" => ListOK(task.packets)
                                   /\ task.packets[1].type # "retransmission"
      PROVE  Resending'
  <2>1. /\ tasks' = Append(tasks, task)
        /\ UNCHANGED <<clock, pacing_controller, historyVars, senderVars, nack, ghosts>>
    BY <1>1 DEF Event, Post
  <2>2. \A s : TaskCopies(tasks', s) = TaskCopies(tasks, s)
    <3> TAKE s
    <3>1. \A i : i \in TaskCopies(tasks', s) <=> i \in TaskCopies(tasks, s)
      BY ZenonT(60), <2>1, <1>0, <1>1, PostedCopies
    <3> QED BY <3>1
  <2>3. ListsOK'
    <3> DEFINE new == Len(tasks) + 1
    <3>1. /\ tasks'[new] = task /\ \A i \in DOMAIN tasks' : i \in DOMAIN tasks \/ i = new
          /\ \A i \in DOMAIN tasks : tasks'[i] = tasks[i]
      BY <2>1, <1>0, PostedCopies
    <3> QED BY <3>1, <1>0, <1>1 DEF ListsOK
  <2>4. CopiesKept BY <2>1, <2>2, SameCopies
  <2>5. CopiesAreVideo' BY <1>0, <2>1 DEF CopiesAreVideo
  <2> QED BY <1>0, <2>1, <2>3, <2>4, <2>5, NothingNewKeeps DEF historyVars, senderVars, ghosts
<1>2. ASSUME NEW type \in {"video", "audio"}, NEW n \in Nat \ {0}, EnqueuePackets(type, n)
      PROVE  Resending'
  <2> DEFINE ps == [i \in 1..n |-> Packet(type, type, 0, i = n)]
             task == [t |-> "enqueue", packets |-> ps]
  <2>1. Event(task) BY <1>2 DEF EnqueuePackets, Event
  <2>2. \A i \in DOMAIN ps : ps[i].type # "retransmission" BY <1>2 DEF Packet
  <2>3. DOMAIN ps = 1..n /\ 1 \in 1..n OBVIOUS
  <2> HIDE DEF ps
  <2>4. ps # <<>> BY <2>3
  <2>5. ListOK(ps) /\ ps[1].type # "retransmission" BY <2>2, <2>3, <2>4 DEF ListOK
  <2> QED BY <2>1, <2>5, <1>1
<1>3. ASSUME \E n \in FrameSizes : EnqueuePackets("video", n) PROVE Resending'
  BY <1>2, <1>3, SendPathAssumption
<1>4. ASSUME EnqueuePackets("audio", 1) PROVE Resending'
  BY <1>2, <1>4
<1>5. ASSUME PostPause \/ PostResume PROVE Resending'
  BY <1>1, <1>5 DEF PostPause, PostResume
<1>6. ASSUME PostPacingRates PROVE Resending'
  <2>1. PICK r \in Rates : Event([t |-> "rates", rate |-> r[1], padding |-> r[2]])
    BY <1>6 DEF PostPacingRates
  <2> QED BY <2>1, <1>1
<1>7. ASSUME SetSendingMediaStatus PROVE Resending'
  <2>1. UNCHANGED <<clock, pacing_controller, tasks, historyVars, sequencer, nack, ghosts>>
    BY <1>7 DEF SetSendingMediaStatus, pacerVars
  <2>2. CopiesKept BY <2>1, SameCopies
  <2>3. CopiesAreVideo' /\ ListsOK' BY <1>0, <2>1 DEF CopiesAreVideo, ListsOK
  <2> QED BY <1>0, <2>1, <2>2, <2>3, NothingNewKeeps DEF historyVars, ghosts
<1> QED BY <1>3, <1>4, <1>5, <1>6, <1>7 DEF App

-----------------------------------------------------------------------------
(* Padding takes a number, and nothing else.                               *)
Padded ==
  /\ sequencer' \in [next : Seqs, marker : BOOLEAN]
  /\ packet_history' = packet_history /\ Placed(packet_history, sequencer'.next)
  /\ UNCHANGED ghosts

LEMMA PaddingSent ==
  ASSUME IInv, Resending, Near, NEW p, p.type = "padding", SendPacket(p)
  PROVE  Padded
<1>1. /\ sequencer \in [next : Seqs, marker : BOOLEAN]
      /\ Placed(packet_history, sequencer.next)
  BY DEF Resending
<1>2. CASE UNCHANGED <<sequencer, packet_history, ghosts>> BY <1>1, <1>2 DEF Padded
<1>3. CASE ~UNCHANGED <<sequencer, packet_history, ghosts>>
  <2>1. Egress(p) BY <1>3 DEF SendPacket, ghosts
  <2>2. /\ sequencer' = [sequencer EXCEPT !.next = Sequenced(@ + 1)]
        /\ packet_history' = packet_history /\ resent' = resent /\ rejected' = rejected
    BY <2>1 DEF Egress
  <2>3. /\ Sequenced(sequencer.next + 1) \in Seqs
        /\ Placed(packet_history, Sequenced(sequencer.next + 1))
    BY NearFacts, SequencerFacts
  <2>4. /\ sequencer' \in [next : Seqs, marker : BOOLEAN]
        /\ sequencer'.next = Sequenced(sequencer.next + 1)
    BY <1>1, <2>2, <2>3
  <2> QED BY <2>2, <2>3, <2>4 DEF Padded, ghosts
<1> QED BY <1>2, <1>3

LEMMA KeptAlive ==
  ASSUME IInv, Resending, Near, NEW sends, Keepalive(sends)
  PROVE  Padded
<1> DEFINE g == GeneratePadding(1)
<1>1. CASE sends /\ g # <<>>
  <2>1. SendPacket(g[1]) BY <1>1 DEF Keepalive
  <2>2. g[1].type = "padding"
    <3>1. 1 \in Nat OBVIOUS
    <3> QED BY <3>1, <1>1, PaddingFacts
  <2> HIDE DEF g
  <2> QED BY <2>1, <2>2, PaddingSent
<1>2. CASE ~(sends /\ g # <<>>)
  <2>1. UNCHANGED <<sequencer, packet_history, ghosts>> BY <1>2 DEF Keepalive
  <2> QED BY <2>1 DEF Padded, Resending
<1> QED BY <1>1, <1>2

(* The tasks and timers of the pacer send at most a keep-alive.            *)
LEMMA TasksPad ==
  ASSUME IInv, Resending, Near, RunTask \/ RunProcessTimer \/ RunStatsTimer
  PROVE  Padded
<1>1. \/ \E sends : Keepalive(sends)
      \/ UNCHANGED <<sequencer, packet_history, ghosts>>
  BY DEF RunTask, RunProcessTimer, RunStatsTimer, Maybe
<1>2. CASE UNCHANGED <<sequencer, packet_history, ghosts>> BY <1>2 DEF Padded, Resending
<1> QED BY <1>1, <1>2, KeptAlive

(* The pacer's tasks and timers move a copy at most from one to the other. *)
LEMMA RunTaskResends ==
  ASSUME IInv, Resending, Near, RunTask
  PROVE  Resending'
<1>1. CopiesKept /\ CopiesAreVideo' /\ ListsOK' BY RunTaskCopies
<1>2. UNCHANGED <<clock, rtt, nack>> BY DEF RunTask
<1>3. Padded BY TasksPad
<1>4. clock' \in Nat /\ clock <= clock' BY <1>2 DEF IInv
<1>5. nack'.left # <<>> => rtt' \in Rtts BY <1>2 DEF Resending
<1>6. Range(packet_history') \ {Hole} \subseteq Range(packet_history) BY <1>3 DEF Padded
<1>7. rejected \subseteq rejected' /\ resent' = resent BY <1>3 DEF Padded, ghosts
<1>8. Placed(packet_history', sequencer'.next) /\ sequencer' \in [next : Seqs, marker : BOOLEAN]
  BY <1>3 DEF Padded
<1> QED BY <1>1, <1>4, <1>5, <1>6, <1>7, <1>8, NothingNewKeeps

LEMMA TimersResend ==
  ASSUME IInv, Resending, Near, RunProcessTimer \/ RunStatsTimer
  PROVE  Resending'
<1>1. UNCHANGED <<clock, tasks, rtt, nack>> BY DEF RunProcessTimer, RunStatsTimer
<1>2. SamePackets(pacing_controller, pacing_controller') BY TimersKeep
<1>3. Padded BY TasksPad
<1>4. CopiesKept BY <1>1, <1>2, SameCopies DEF SamePackets, QueueCopies
<1>5. CopiesAreVideo' /\ ListsOK'
  BY <1>1, <1>2 DEF Resending, CopiesAreVideo, ListsOK, SamePackets
<1>6. clock' \in Nat /\ clock <= clock' BY <1>1 DEF IInv
<1>7. nack'.left # <<>> => rtt' \in Rtts BY <1>1 DEF Resending
<1>8. Range(packet_history') \ {Hole} \subseteq Range(packet_history) BY <1>3 DEF Padded
<1>9. rejected \subseteq rejected' /\ resent' = resent BY <1>3 DEF Padded, ghosts
<1>10. Placed(packet_history', sequencer'.next) /\ sequencer' \in [next : Seqs, marker : BOOLEAN]
  BY <1>3 DEF Padded
<1> QED BY <1>4, <1>5, <1>6, <1>7, <1>8, <1>9, <1>10, NothingNewKeeps

(* The end of the loop.                                                    *)
LEMMA LoopResends ==
  ASSUME IInv, Resending, AddPadding \/ EndProcessing
  PROVE  Resending'
<1>1. UNCHANGED <<clock, tasks, historyVars, senderVars, nack, ghosts>>
  BY DEF AddPadding, EndProcessing, PaddingTurn, LastTurn
<1>2. Adds(pacing_controller, pacing_controller', {"padding"}) BY LoopKeeps
<1>3. \A s : QueueCopies(pacing_controller', s) = QueueCopies(pacing_controller, s)
  BY <1>2, NoCopiesAdded
<1>4. CopiesKept BY <1>1, <1>3, SameCopies
<1>5. CopiesAreVideo' /\ ListsOK' BY <1>1, <1>2 DEF Resending, CopiesAreVideo, ListsOK, Adds
<1>6. clock' \in Nat /\ clock <= clock' BY <1>1 DEF IInv
<1> QED BY <1>1, <1>4, <1>5, <1>6, NothingNewKeeps DEF Resending, historyVars, senderVars, ghosts

(* Time passes.                                                            *)
LEMMA TickResends ==
  ASSUME IInv, Resending, Tick \/ UNCHANGED vars
  PROVE  Resending'
<1>1. UNCHANGED <<pacing_controller, tasks, historyVars, senderVars, nack, ghosts>>
  BY DEF Tick, vars, pacerVars
<1>2. clock \in Nat /\ (clock' = clock + 1 \/ clock' = clock) BY DEF Tick, vars, IInv
<1>3. CopiesKept BY <1>1, SameCopies
<1>4. CopiesAreVideo' /\ ListsOK' BY <1>1 DEF Resending, CopiesAreVideo, ListsOK
<1>5. clock' \in Nat /\ clock <= clock' BY <1>2
<1> QED BY <1>1, <1>3, <1>4, <1>5, NothingNewKeeps DEF Resending, historyVars, senderVars, ghosts

(* A NACK or an acknowledgement only takes packets out of the history.     *)
LEMMA HistoryShrinks ==
  ASSUME IInv, Resending,
         UNCHANGED <<clock, pacing_controller, tasks, sequencer, rejected, resent>>,
         Placed(packet_history', sequencer.next),
         Range(packet_history') \ {Hole} \subseteq Range(packet_history),
         nack'.left # <<>> => rtt' \in Rtts
  PROVE  Resending'
<1>1. CopiesKept BY SameCopies
<1>2. CopiesAreVideo' /\ ListsOK' BY DEF Resending, CopiesAreVideo, ListsOK
<1>3. clock' \in Nat /\ clock <= clock' BY DEF IInv
<1>4. sequencer' \in [next : Seqs, marker : BOOLEAN] /\ Placed(packet_history', sequencer'.next)
  BY DEF Resending
<1> QED BY <1>1, <1>2, <1>3, <1>4, NothingNewKeeps

(* A copy is posted of a packet that has none on its way.                  *)
LEMMA CopyPosted ==
  ASSUME tasks \in Seq(Tasks), NEW task, tasks' = Append(tasks, task), NEW s, task.t = "enqueue",
         task.packets[1].type = "retransmission", task.packets[1].seq = s,
         ListOK(task.packets), ListsOK, NoCopy(s), UNCHANGED pacing_controller
  PROVE  /\ OneCopy(s)' /\ ~NoCopy(s)' /\ ListsOK'
         /\ \A t : t # s => (NoCopy(t)' <=> NoCopy(t)) /\ (OneCopy(t)' <=> OneCopy(t))
<1> DEFINE new == Len(tasks) + 1
<1>1. /\ tasks'[new] = task /\ new \in DOMAIN tasks'
      /\ \A j \in DOMAIN tasks' : j \in DOMAIN tasks \/ j = new
      /\ \A j \in DOMAIN tasks : j \in DOMAIN tasks' /\ tasks'[j] = tasks[j]
  <2>1. Len(tasks) \in Nat /\ DOMAIN tasks = 1..Len(tasks) OBVIOUS
  <2>2. /\ DOMAIN tasks' = 1..Len(tasks) + 1 /\ tasks'[Len(tasks) + 1] = task
        /\ \A j \in DOMAIN tasks : tasks'[j] = tasks[j]
    OBVIOUS
  <2> QED BY <2>1, <2>2
<1> HIDE DEF new
<1>2. ASSUME NEW t, t # s PROVE TaskCopies(tasks', t) = TaskCopies(tasks, t)
  <2>1. \A j : j \in TaskCopies(tasks', t) <=> j \in TaskCopies(tasks, t)
    BY <1>1, <1>2 DEF TaskCopies
  <2> QED BY <2>1
<1>3. new \in TaskCopies(tasks', s) /\ \A j \in TaskCopies(tasks', s) : j = new
  <2>1. TaskCopies(tasks, s) = {} BY DEF NoCopy
  <2>2. \A j \in TaskCopies(tasks', s) : j \notin DOMAIN tasks BY <1>1, <2>1 DEF TaskCopies
  <2>3. \A j \in TaskCopies(tasks', s) : j \in DOMAIN tasks' BY DEF TaskCopies
  <2> QED BY <1>1, <2>2, <2>3 DEF TaskCopies
<1>4. \A t : QueueCopies(pacing_controller', t) = QueueCopies(pacing_controller, t)
  BY DEF QueueCopies
<1>5. OneCopy(s)' /\ ~NoCopy(s)'
  <2> DEFINE S == TaskCopies(tasks', s)
             T == QueueCopies(pacing_controller', s)
  <2>1. T = {} /\ new \in S /\ \A j \in S : j = new BY <1>3, <1>4 DEF NoCopy
  <2>2. /\ NoCopy(s)' <=> S = {} /\ T = {}
        /\ OneCopy(s)' <=> OneAtMost(S, T)
    BY DEF NoCopy, OneCopy
  <2> HIDE DEF S, T
  <2>3. S # {} /\ OneAtMost(S, T) BY <2>1 DEF OneAtMost
  <2> QED BY <2>2, <2>3
<1>6. ASSUME NEW t, t # s PROVE (NoCopy(t)' <=> NoCopy(t)) /\ (OneCopy(t)' <=> OneCopy(t))
  <2> QED BY <1>2, <1>4, <1>6 DEF NoCopy, OneCopy
<1>7. ListsOK' BY <1>1 DEF ListsOK
<1> QED BY <1>5, <1>6, <1>7

(* A packet is marked, and its one copy posted.                            *)
LEMMA MarkingResends ==
  ASSUME IInv, Resending, GetPacketAndMarkAsPending
  PROVE  Resending'
<1> DEFINE h == packet_history
           n == sequencer.next
<1>1. /\ nack.stage = "mark" /\ MayResend(nack.left[1], clock)
      /\ MarkPacketAsPending(nack.left[1])
      /\ tasks' = Append(tasks, [t |-> "enqueue",
                  packets |-> <<Packet("retransmission", "video", nack.left[1], FALSE)>>])
      /\ UNCHANGED <<clock, pacing_controller, rtt, sequencer, rejected, resent>>
  BY DEF GetPacketAndMarkAsPending, Post, senderVars, ghosts
<1>2. /\ nack.left # <<>> /\ nack.left[1] \in Seqs /\ tasks \in Seq(Tasks) /\ clock \in Nat
      /\ rtt \in Rtts
  <2>1. nack.left # <<>> /\ nack.left \in Seq(Seqs) BY <1>1 DEF IInv, NackOK
  <2>2. nack.left[1] \in Seqs BY <2>1
  <2> QED BY <2>1, <2>2 DEF IInv, Resending
<1>3. PICK s \in Seqs : s = nack.left[1] BY <1>2
<1>4. PICK task : task = [t |-> "enqueue",
                          packets |-> <<Packet("retransmission", "video", s, FALSE)>>]
  OBVIOUS
<1>5. /\ n \in Seqs /\ Placed(h, n) /\ (\A t : OneCopy(t)) /\ Marks /\ Spaced
      /\ ListsOK /\ CopiesAreVideo /\ sequencer \in [next : Seqs, marker : BOOLEAN]
  BY DEF Resending
<1>6. PICK i : i = At(h, s) OBVIOUS
<1>7. PICK e : e = h[i] OBVIOUS
<1>8. /\ Stored(h, s) /\ ~e.pending /\ (e.times > 0 => clock >= e.send_time + rtt)
  BY <1>1, <1>3, <1>6, <1>7 DEF MayResend, VerifyRtt
<1>9. i \in DOMAIN h /\ e \in Entries /\ e.seq = s BY <1>5, <1>6, <1>7, <1>8, IndexFacts
<1>10. e # Hole /\ e \in Kept
  <2>1. Hole \notin Entries BY <1>5, PlacedEntries
  <2> QED BY <2>1, <1>7, <1>9 DEF Kept, Range
<1>11. PICK f \in Entries : /\ f = [e EXCEPT !.pending = TRUE] /\ f.seq = s /\ f.pending
                            /\ f.times = e.times /\ f.send_time = e.send_time
  <2> DEFINE g == [e EXCEPT !.pending = TRUE]
  <2>1. /\ g \in Entries /\ g.seq = s /\ g.pending /\ g.times = e.times
        /\ g.send_time = e.send_time
    BY <1>9 DEF Entries
  <2>2. g = [e EXCEPT !.pending = TRUE] OBVIOUS
  <2> HIDE DEF g
  <2> QED BY <2>1, <2>2
<1>12. packet_history' = [h EXCEPT ![i] = f]
  <2>1. packet_history' = [h EXCEPT ![i].pending = TRUE]
    BY <1>1, <1>3, <1>6 DEF MarkPacketAsPending
  <2> QED BY <2>1, <1>7, <1>9, <1>11
<1>13. /\ Placed(packet_history', n)
       /\ \A x \in Kept' : x = f \/ (x \in Kept /\ x.seq # s)
  <2>1. h[i] # Hole /\ f.seq = h[i].seq BY <1>7, <1>9, <1>10, <1>11
  <2>2. /\ Placed([h EXCEPT ![i] = f], n)
        /\ \A x \in Range([h EXCEPT ![i] = f]) \ {Hole} : x = f \/ (x \in Range(h) /\ x.seq # f.seq)
    BY <1>5, <1>9, <2>1, MarkedFacts
  <2> QED BY <2>2, <1>11, <1>12 DEF Kept
<1>14. NoCopy(s) BY <1>5, <1>8, <1>9, <1>10 DEF Marks
<1>15. /\ OneCopy(s)' /\ ~NoCopy(s)' /\ ListsOK'
       /\ \A t : t # s => (NoCopy(t)' <=> NoCopy(t)) /\ (OneCopy(t)' <=> OneCopy(t))
  <2>1. /\ task.t = "enqueue" /\ task.packets[1].type = "retransmission"
        /\ task.packets[1].seq = s /\ task.packets[1].ssrc = "video" /\ Len(task.packets) = 1
        /\ task.packets # <<>>
    BY <1>4 DEF Packet
  <2>2. ListOK(task.packets) BY <2>1 DEF ListOK
  <2>3. tasks' = Append(tasks, task) BY <1>1, <1>3, <1>4
  <2> QED BY <2>1, <2>2, <2>3, <1>1, <1>2, <1>5, <1>14, CopyPosted
<1>16. Marks'
  <2> SUFFICES ASSUME NEW x \in Kept'
               PROVE  IF x.pending THEN ~NoCopy(x.seq)' \/ x.seq \in rejected' ELSE NoCopy(x.seq)'
    BY DEF Marks
  <2>1. CASE x = f
    <3>1. x.pending /\ x.seq = s BY <2>1, <1>11
    <3> QED BY <3>1, <1>15
  <2>2. CASE x \in Kept /\ x.seq # s
    <3>1. IF x.pending THEN ~NoCopy(x.seq) \/ x.seq \in rejected ELSE NoCopy(x.seq)
      BY <2>2, <1>5 DEF Marks
    <3>2. NoCopy(x.seq)' <=> NoCopy(x.seq) BY <2>2, <1>15
    <3> QED BY <3>1, <3>2, <1>1
  <2> QED BY <2>1, <2>2, <1>13
<1>17. Spaced'
  <2>1. ASSUME NEW x \in Kept', x.seq \in DOMAIN resent
        PROVE  x.times > 0 /\ x.send_time >= resent[x.seq]
    <3>1. CASE x = f
      <4>1. e.times > 0 /\ e.send_time >= resent[e.seq]
        BY <3>1, <2>1, <1>5, <1>9, <1>10, <1>11 DEF Spaced
      <4> QED BY <4>1, <3>1, <1>9, <1>11
    <3>2. CASE x \in Kept BY <3>2, <2>1, <1>5 DEF Spaced
    <3> QED BY <3>1, <3>2, <1>13
  <2>2. ASSUME NEW t \in DOMAIN resent, ~NoCopy(t)' PROVE clock >= resent[t] + Min(Rtts)
    <3>1. CASE t # s BY <3>1, <2>2, <1>5, <1>15 DEF Spaced
    <3>2. CASE t = s
      <4>1. e.times > 0 /\ e.send_time >= resent[s] /\ resent[s] \in Nat
        BY <3>2, <1>5, <1>9, <1>10 DEF Spaced
      <4>2. clock >= e.send_time + rtt BY <4>1, <1>8
      <4>3. e.send_time \in Nat BY <1>9 DEF Entries
      <4>4. Min(Rtts) \in Nat /\ rtt \in Nat /\ Min(Rtts) <= rtt BY <1>2, RttFacts
      <4> DEFINE m == Min(Rtts)
      <4> HIDE DEF m
      <4>5. clock >= resent[s] + m BY <4>1, <4>2, <4>3, <4>4, <1>2 DEF m
      <4> QED BY <4>5, <3>2 DEF m
    <3> QED BY <3>1, <3>2
  <2>3. \A t \in DOMAIN resent : resent[t] \in Nat BY <1>5 DEF Spaced
  <2> QED BY <2>1, <2>2, <2>3, <1>1 DEF Spaced
<1>18. \A t : OneCopy(t)'
  <2> TAKE t
  <2>1. CASE t = s BY <2>1, <1>15
  <2>2. CASE t # s BY <2>2, <1>5, <1>15
  <2> QED BY <2>1, <2>2
<1>19. CopiesAreVideo' BY <1>1, <1>5 DEF CopiesAreVideo
<1> QED BY <1>1, <1>2, <1>5, <1>13, <1>15, <1>16, <1>17, <1>18, <1>19 DEF Resending

(* What RTCP asks for.                                                     *)
LEMMA RtcpResends ==
  ASSUME IInv, Resending, Rtcp
  PROVE  Resending'
<1> DEFINE h == packet_history
           n == sequencer.next
<1>1. n \in Seqs /\ Placed(h, n) /\ (nack.left # <<>> => rtt \in Rtts) BY DEF Resending
<1>2. CASE OnReceivedNack
  <2>1. /\ UNCHANGED <<clock, pacing_controller, tasks, sequencer, rejected, resent>>
        /\ \E r \in Rtts : SetRtt(r, clock)
    BY <1>2 DEF OnReceivedNack, pacerVars, senderVars, ghosts
  <2>2. PICK r \in Rtts : SetRtt(r, clock) BY <2>1
  <2>3. rtt' \in Rtts /\ \E d : packet_history' = Culled(h, clock, d) BY <2>2 DEF SetRtt
  <2>4. PICK d : packet_history' = Culled(h, clock, d) BY <2>3
  <2>5. Placed(packet_history', n) /\ Range(packet_history') \subseteq Range(h)
    BY <1>1, <2>4, CulledFacts
  <2>6. Range(packet_history') \ {Hole} \subseteq Range(h) BY <2>5
  <2> QED BY <2>1, <2>3, <2>5, <2>6, HistoryShrinks
<1>3. CASE GetPacketState \/ GiveUpNack
  <2>1. /\ UNCHANGED <<clock, pacing_controller, tasks, sequencer, rejected, resent, rtt,
                       packet_history>>
        /\ nack'.left # <<>> => nack.left # <<>>
    BY <1>3 DEF GetPacketState, GiveUpNack, pacerVars, senderVars, ghosts, historyVars, NoNack
  <2>2. nack'.left # <<>> => rtt' \in Rtts BY <2>1, <1>1
  <2>3. Range(packet_history') \ {Hole} \subseteq Range(h) BY <2>1
  <2>4. Placed(packet_history', n) BY <2>1, <1>1
  <2> QED BY <2>1, <2>2, <2>3, <2>4, HistoryShrinks
<1>4. CASE OnPacketsAcknowledged
  <2>1. /\ UNCHANGED <<clock, pacing_controller, tasks, sequencer, rejected, resent, rtt, nack>>
        /\ \E seq : CullAcknowledgedPacket(seq)
    BY <1>4 DEF OnPacketsAcknowledged, pacerVars, senderVars, ghosts
  <2>2. packet_history' = h \/ \E i \in 0..Len(h) - 1 : packet_history' = RemovePacket(h, i + 1)
    BY <2>1 DEF CullAcknowledgedPacket
  <2>3. Placed(packet_history', n) /\ Range(packet_history') \ {Hole} \subseteq Range(h)
    <3>1. ASSUME NEW i \in 0..Len(h) - 1, packet_history' = RemovePacket(h, i + 1)
          PROVE  Placed(packet_history', n) /\ Range(packet_history') \ {Hole} \subseteq Range(h)
      <4>1. Len(h) \in Nat /\ DOMAIN h = 1..Len(h) BY <1>1, PlacedEntries
      <4>2. i + 1 \in DOMAIN h BY <4>1
      <4> DEFINE j == i + 1
      <4>3. j \in DOMAIN h /\ packet_history' = RemovePacket(h, j) BY <4>2, <3>1
      <4> HIDE DEF j
      <4> QED BY <1>1, <4>3, RemovedFacts
    <3> QED BY <2>2, <3>1, <1>1
  <2>4. nack'.left # <<>> => rtt' \in Rtts BY <2>1, <1>1
  <2> QED BY <2>1, <2>3, <2>4, HistoryShrinks
<1>5. CASE GetPacketAndMarkAsPending BY <1>5, MarkingResends
<1> QED BY <1>2, <1>3, <1>4, <1>5 DEF Rtcp

(* The packet a turn sends leaves the queue.                               *)
LEMMA PacketLeaves ==
  ASSUME IInv, Resending, SendPending
  PROVE  \E p \in Packets :
           /\ SendPacket(p) /\ p \in QueuedPackets(pacing_controller.packet_queue)
           /\ QueuedPackets(pacing_controller'.packet_queue)
                = QueuedPackets(pacing_controller.packet_queue) \ {p}
           /\ p.seq \in Seqs /\ p.type \in Types
           /\ p.type = "audio" => p.ssrc = "audio"
           /\ p.type = "retransmission" => p.ssrc = "video"
<1> DEFINE q == pacing_controller.packet_queue
<1>1. clock \in Nat /\ PacerOK /\ Waking /\ SendTurn /\ SendPacket(Top(Turning.packet_queue))
  BY DEF IInv, SendPending
<1>2. /\ Top(Turning.packet_queue) = Top(q) /\ q \in Queues /\ Top(q) \in QueuedPackets(q)
      /\ QueuedPackets(pacing_controller'.packet_queue) = QueuedPackets(q) \ {Top(q)}
  BY <1>1, SendTurns
<1>3. PICK p : p = Top(q) OBVIOUS
<1>4. p \in Packets BY <1>2, <1>3, QueuedWhere
<1>5. p.seq \in Seqs /\ p.type \in Types BY <1>4 DEF Packets, Seqs
<1>6. p.type = "audio" => p.ssrc = "audio"
  BY <1>2, <1>3 DEF IInv, PacerOK, ControllerOK, AudioIsAudio
<1>7. p.type = "retransmission" => p.ssrc = "video" BY <1>2, <1>3 DEF Resending, CopiesAreVideo
<1> QED BY <1>1, <1>2, <1>3, <1>4, <1>5, <1>6, <1>7

(* A copy leaves: there is none of its packet any more.                    *)
LEMMA CopyLeaves ==
  ASSUME Resending, NEW p, p \in QueuedPackets(pacing_controller.packet_queue),
         QueuedPackets(pacing_controller'.packet_queue)
           = QueuedPackets(pacing_controller.packet_queue) \ {p},
         p.type = "retransmission", UNCHANGED tasks
  PROVE  /\ NoCopy(p.seq)' /\ ~NoCopy(p.seq) /\ OneCopy(p.seq)'
         /\ \A t : t # p.seq => (NoCopy(t)' <=> NoCopy(t)) /\ (OneCopy(t)' <=> OneCopy(t))
<1>1. PICK s : s = p.seq OBVIOUS
<1> DEFINE S == TaskCopies(tasks, s)
           T == QueueCopies(pacing_controller, s)
           U == QueueCopies(pacing_controller', s)
<1>2. /\ NoCopy(s) <=> S = {} /\ T = {}
      /\ NoCopy(s)' <=> S = {} /\ U = {}
      /\ OneCopy(s) <=> OneAtMost(S, T)
      /\ OneCopy(s)' <=> OneAtMost(S, U)
  BY DEF NoCopy, OneCopy
<1>3. p \in T /\ U = T \ {p} BY <1>1 DEF QueueCopies
<1>4. OneCopy(s) BY DEF Resending
<1>5. ASSUME NEW t, t # s PROVE (NoCopy(t)' <=> NoCopy(t)) /\ (OneCopy(t)' <=> OneCopy(t))
  <2>1. QueueCopies(pacing_controller', t) = QueueCopies(pacing_controller, t)
    BY <1>1, <1>5 DEF QueueCopies
  <2> QED BY <2>1 DEF NoCopy, OneCopy
<1> HIDE DEF S, T, U
<1>6. OneAtMost(S, T) BY <1>2, <1>4
<1>7. S = {} /\ \A x \in T : x = p BY <1>3, <1>6 DEF OneAtMost
<1>8. U = {} BY <1>3, <1>7
<1>9. OneAtMost(S, U) BY <1>7, <1>8 DEF OneAtMost
<1>10. NoCopy(s)' /\ ~NoCopy(s) /\ OneCopy(s)' BY <1>2, <1>3, <1>7, <1>8, <1>9
<1> QED BY <1>1, <1>5, <1>10

(* What a packet that is sent again becomes.                               *)
LEMMA SentAgainFacts ==
  ASSUME NEW e \in Entries, NEW now \in Nat
  PROVE  /\ SentAgain(e, now) \in Entries /\ SentAgain(e, now).seq = e.seq
         /\ ~SentAgain(e, now).pending /\ SentAgain(e, now).times > 0
         /\ SentAgain(e, now).send_time = now
<1>1. PICK times \in Nat : times = e.times + 1 /\ times > 0
  <2>1. e.times \in Nat BY DEF Entries
  <2>2. e.times + 1 \in Nat /\ e.times + 1 > 0 BY <2>1
  <2> QED BY <2>2
<1>2. SentAgain(e, now) = [e EXCEPT !.send_time = now, !.pending = FALSE, !.times = times]
  BY <1>1 DEF SentAgain
<1> QED BY <1>1, <1>2 DEF Entries

(* A packet of the history with one marked.                                *)
LEMMA Remarked ==
  ASSUME NEW n \in Seqs, NEW h, Placed(h, n), NEW i \in DOMAIN h, h[i] # Hole,
         NEW e \in Entries, e.seq = h[i].seq, NEW x \in Range([h EXCEPT ![i] = e]), x # Hole
  PROVE  x = e \/ (x \in Range(h) /\ x.seq # e.seq)
BY MarkedFacts

(* A copy that is refused, or sent again.                                  *)
LEMMA CopySent ==
  ASSUME IInv, Resending, Near, NEW p, p \in QueuedPackets(pacing_controller.packet_queue),
         QueuedPackets(pacing_controller'.packet_queue)
           = QueuedPackets(pacing_controller.packet_queue) \ {p},
         p.type = "retransmission", p.ssrc = "video", p.seq \in Seqs,
         UNCHANGED <<clock, tasks, rtt, nack>>, SendPacket(p)
  PROVE  Resending'
<1> DEFINE h == packet_history
           n == sequencer.next
<1>1. PICK s \in Seqs : s = p.seq OBVIOUS
<1>2. /\ NoCopy(s)' /\ ~NoCopy(s) /\ OneCopy(s)'
      /\ \A t : t # s => (NoCopy(t)' <=> NoCopy(t)) /\ (OneCopy(t)' <=> OneCopy(t))
  BY <1>1, CopyLeaves
<1>3. /\ n \in Seqs /\ Placed(h, n) /\ (\A t : OneCopy(t)) /\ Marks /\ Spaced
      /\ ListsOK /\ CopiesAreVideo /\ sequencer \in [next : Seqs, marker : BOOLEAN]
      /\ (nack.left # <<>> => rtt \in Rtts) /\ clock \in Nat
  BY DEF Resending, IInv
<1>4. /\ \A t : OneCopy(t)'
      /\ CopiesAreVideo' /\ ListsOK' /\ (nack'.left # <<>> => rtt' \in Rtts)
  <2>1. \A t : OneCopy(t)'
    <3> TAKE t
    <3>1. CASE t = s BY <3>1, <1>2
    <3>2. CASE t # s BY <3>2, <1>2, <1>3
    <3> QED BY <3>1, <3>2
  <2>2. CopiesAreVideo' BY <1>3 DEF CopiesAreVideo
  <2>3. ListsOK' BY <1>3 DEF ListsOK
  <2> QED BY <2>1, <2>2, <2>3, <1>3
<1>5. CASE ~sending_media
  <2>1. /\ rejected' = rejected \cup {s} /\ UNCHANGED <<sequencer, packet_history, resent>>
    BY <1>1, <1>5 DEF SendPacket
  <2>2. Marks'
    <3> SUFFICES ASSUME NEW x \in Kept'
                 PROVE  IF x.pending THEN ~NoCopy(x.seq)' \/ x.seq \in rejected'
                        ELSE NoCopy(x.seq)'
      BY DEF Marks
    <3>1. x \in Kept BY <2>1 DEF Kept
    <3>2. IF x.pending THEN ~NoCopy(x.seq) \/ x.seq \in rejected ELSE NoCopy(x.seq)
      BY <3>1, <1>3 DEF Marks
    <3>3. CASE x.seq = s BY <3>3, <2>1, <1>2
    <3>4. CASE x.seq # s
      <4>1. NoCopy(x.seq)' <=> NoCopy(x.seq) BY <3>4, <1>2
      <4> QED BY <4>1, <3>2, <2>1
    <3> QED BY <3>3, <3>4
  <2>3. Spaced'
    <3>1. \A x \in Kept' : x \in Kept BY <2>1 DEF Kept
    <3>2. \A x \in Kept' : x.seq \in DOMAIN resent => x.times > 0 /\ x.send_time >= resent[x.seq]
      BY <3>1, <1>3 DEF Spaced
    <3>3. ASSUME NEW t \in DOMAIN resent, ~NoCopy(t)' PROVE clock >= resent[t] + Min(Rtts)
      <4>1. t # s BY <3>3, <1>2
      <4> QED BY <4>1, <3>3, <1>2, <1>3 DEF Spaced
    <3> QED BY <3>2, <3>3, <2>1, <1>3 DEF Spaced
  <2> QED BY <2>1, <2>2, <2>3, <1>3, <1>4 DEF Resending
<1>6. CASE sending_media
  <2>1. /\ sequencer' = sequencer /\ MarkPacketAsSent(s, clock) /\ rejected' = rejected
        /\ resent' = [t \in DOMAIN resent \cup {s} |-> IF t = s THEN clock ELSE resent[t]]
    <3>1. Egress(p) BY <1>6 DEF SendPacket
    <3> QED BY <3>1, <1>1 DEF Egress
  <2>2. /\ \A t : t \in DOMAIN resent' <=> t \in DOMAIN resent \/ t = s
        /\ resent'[s] = clock /\ \A t \in DOMAIN resent : t # s => resent'[t] = resent[t]
    BY <2>1
  <2>3. PICK i : i = At(h, s) OBVIOUS
  <2>4. PICK e : e = h[i] OBVIOUS
  <2>5. PICK f : f = SentAgain(e, clock) OBVIOUS
  <2>6. /\ Placed(packet_history', n)
        /\ \A x \in Kept' : /\ x.seq = s => /\ x.times > 0 /\ x.send_time = clock
                                            /\ ~x.pending
                            /\ x.seq # s => x \in Kept
    <3>1. CASE Stored(h, s)
      <4>1. i \in DOMAIN h /\ e \in Entries /\ e.seq = s BY <3>1, <1>3, <2>3, <2>4, IndexFacts
      <4>2. e # Hole
        <5>1. Hole \notin Entries BY <1>3, PlacedEntries
        <5> QED BY <5>1, <4>1
      <4>3. /\ f \in Entries /\ f.seq = s /\ ~f.pending /\ f.times > 0 /\ f.send_time = clock
        BY <4>1, <2>5, <1>3, SentAgainFacts
      <4>4. packet_history' = [h EXCEPT ![i] = f]
        <5>1. packet_history' = [h EXCEPT ![i] = SentAgain(@, clock)]
          BY <3>1, <2>1, <2>3 DEF MarkPacketAsSent
        <5> QED BY <5>1, <4>1, <2>4, <2>5
      <4>5. /\ h[i] # Hole /\ f.seq = h[i].seq /\ n \in Seqs /\ Placed(h, n)
            /\ i \in DOMAIN h /\ f \in Entries
        BY <2>4, <4>1, <4>2, <4>3, <1>3
      <4>6. Placed(packet_history', n) BY <4>4, <4>5, MarkedFacts
      <4>7. ASSUME NEW x \in Range([h EXCEPT ![i] = f]), x # Hole
            PROVE  x = f \/ (x \in Range(h) /\ x.seq # f.seq)
        BY <4>5, <4>7, Remarked
      <4> QED BY <4>3, <4>4, <4>6, <4>7 DEF Kept
    <3>2. CASE ~Stored(h, s)
      <4>1. packet_history' = h BY <3>2, <2>1 DEF MarkPacketAsSent
      <4>2. ASSUME NEW x \in Kept PROVE x.seq # s
        <5>1. PICK j \in DOMAIN h : h[j] = x /\ h[j] # Hole BY DEF Kept, Range
        <5>2. h # <<>> BY <5>1
        <5>3. Stored(h, h[j].seq) BY <5>1, <5>2, <1>3, NearFacts, IndexFacts
        <5> QED BY <5>1, <5>3, <3>2
      <4>3. Kept' = Kept BY <4>1 DEF Kept
      <4> QED BY <4>1, <4>2, <4>3, <1>3
    <3> QED BY <3>1, <3>2
  <2>7. Marks'
    <3> SUFFICES ASSUME NEW x \in Kept'
                 PROVE  IF x.pending THEN ~NoCopy(x.seq)' \/ x.seq \in rejected'
                        ELSE NoCopy(x.seq)'
      BY DEF Marks
    <3>1. CASE x.seq = s
      <4>1. ~x.pending BY <3>1, <2>6
      <4> QED BY <4>1, <3>1, <1>2
    <3>2. CASE x.seq # s
      <4>1. IF x.pending THEN ~NoCopy(x.seq) \/ x.seq \in rejected ELSE NoCopy(x.seq)
        BY <3>2, <2>6, <1>3 DEF Marks
      <4>2. NoCopy(x.seq)' <=> NoCopy(x.seq) BY <3>2, <1>2
      <4> QED BY <4>1, <4>2, <2>1
    <3> QED BY <3>1, <3>2
  <2>8. Spaced'
    <3>1. \A t \in DOMAIN resent' : resent'[t] \in Nat
      <4> TAKE t \in DOMAIN resent'
      <4>1. CASE t = s BY <4>1, <2>2, <1>3
      <4>2. CASE t # s BY <4>2, <2>2, <1>3 DEF Spaced
      <4> QED BY <4>1, <4>2
    <3>2. ASSUME NEW x \in Kept', x.seq \in DOMAIN resent'
          PROVE  x.times > 0 /\ x.send_time >= resent'[x.seq]
      <4>1. CASE x.seq = s
        <5>1. x.times > 0 /\ x.send_time = clock /\ resent'[x.seq] = clock BY <4>1, <2>2, <2>6
        <5> QED BY <5>1, <1>3
      <4>2. CASE x.seq # s
        <5>1. x \in Kept /\ x.seq \in DOMAIN resent /\ resent'[x.seq] = resent[x.seq]
          BY <4>2, <3>2, <2>2, <2>6
        <5> QED BY <5>1, <1>3 DEF Spaced
      <4> QED BY <4>1, <4>2
    <3>3. ASSUME NEW t \in DOMAIN resent', ~NoCopy(t)' PROVE clock' >= resent'[t] + Min(Rtts)
      <4>1. t # s BY <3>3, <1>2
      <4>2. t \in DOMAIN resent /\ resent'[t] = resent[t] BY <4>1, <3>3, <2>2
      <4>3. ~NoCopy(t) BY <4>1, <3>3, <1>2
      <4>4. clock >= resent[t] + Min(Rtts) BY <4>2, <4>3, <1>3 DEF Spaced
      <4> QED BY <4>2, <4>4
    <3> QED BY <3>1, <3>2, <3>3 DEF Spaced
  <2> QED BY <2>1, <2>6, <2>7, <2>8, <1>3, <1>4 DEF Resending
<1> QED BY <1>5, <1>6

(* A packet that is no copy: media is stored, and its number's last        *)
(* retransmission forgotten.                                               *)
LEMMA OtherSent ==
  ASSUME IInv, Resending, Near, NEW p \in Packets,
         QueuedPackets(pacing_controller'.packet_queue)
           = QueuedPackets(pacing_controller.packet_queue) \ {p},
         p.type \in Types, p.type # "retransmission", p.type = "audio" => p.ssrc = "audio",
         UNCHANGED <<clock, tasks, rtt, nack>>, SendPacket(p)
  PROVE  Resending'
<1> DEFINE h == packet_history
<1>1. PICK n \in Seqs : n = sequencer.next BY NearFacts
<1>2. \A s : QueueCopies(pacing_controller', s) = QueueCopies(pacing_controller, s)
  BY DEF QueueCopies
<1>3. CopiesKept BY <1>2, SameCopies
<1>4. CopiesAreVideo' /\ ListsOK' BY DEF Resending, CopiesAreVideo, ListsOK
<1>5. clock' \in Nat /\ clock <= clock' BY DEF IInv
<1>6. nack'.left # <<>> => rtt' \in Rtts BY DEF Resending
<1>7. CASE Padded
  <2>1. /\ Range(packet_history') \ {Hole} \subseteq Range(packet_history)
        /\ rejected \subseteq rejected' /\ resent' = resent
        /\ Placed(packet_history', sequencer'.next)
        /\ sequencer' \in [next : Seqs, marker : BOOLEAN]
    BY <1>7 DEF Padded, ghosts
  <2> QED BY <2>1, <1>3, <1>4, <1>5, <1>6, NothingNewKeeps
<1>8. CASE UNCHANGED <<sequencer, packet_history, ghosts>>
  <2>1. Padded BY <1>8 DEF Padded, Resending
  <2> QED BY <2>1, <1>7
<1>9. CASE p.type = "padding"
  <2>1. Padded BY <1>9, PaddingSent
  <2> QED BY <2>1, <1>7
<1>10. CASE Egress(p) /\ p.type = "video"
  <2>1. /\ sequencer' = [next |-> Sequenced(n + 1), marker |-> p.marker]
        /\ PutRtpPacket(n, clock) /\ rejected' = rejected
        /\ resent' = [s \in DOMAIN resent \ {n} |-> resent[s]]
    BY <1>1, <1>10 DEF Egress
  <2>2. p.marker \in BOOLEAN /\ Sequenced(n + 1) \in Seqs
    <3>1. p.marker \in BOOLEAN BY DEF Packets
    <3>2. Sequenced(n + 1) \in Seqs BY <1>1, BehindFacts
    <3> QED BY <3>1, <3>2
  <2>3. sequencer' \in [next : Seqs, marker : BOOLEAN] /\ sequencer'.next = Sequenced(n + 1)
    BY <2>1, <2>2
  <2>4. PICK new : new = Newest(n, clock) OBVIOUS
  <2>5. new.seq = n /\ ~new.pending BY <2>4 DEF Newest
  <2>6. /\ Placed(packet_history', Sequenced(n + 1))
        /\ \A x \in Kept' : x = new \/ (x \in Kept /\ x.seq # n)
    <3>1. Placed(h, n) /\ clock \in Nat BY <1>1 DEF Resending, IInv
    <3>2. \A x \in Range(h) \ {Hole} : NearTo(x.seq, n) BY <1>1 DEF Near, Kept
    <3> QED BY <3>1, <3>2, <2>1, <2>4, PutFacts DEF Kept
  <2>7. NoCopy(n)' BY <1>1, <1>3, NearFacts DEF CopiesKept
  <2>8. Marks /\ Spaced /\ (\A s : OneCopy(s)) BY DEF Resending
  <2>9. Marks'
    <3> SUFFICES ASSUME NEW x \in Kept'
                 PROVE  IF x.pending THEN ~NoCopy(x.seq)' \/ x.seq \in rejected'
                        ELSE NoCopy(x.seq)'
      BY DEF Marks
    <3>1. CASE x = new BY <3>1, <2>5, <2>7
    <3>2. CASE x \in Kept
      <4>1. IF x.pending THEN ~NoCopy(x.seq) \/ x.seq \in rejected ELSE NoCopy(x.seq)
        BY <3>2, <2>8 DEF Marks
      <4>2. NoCopy(x.seq)' <=> NoCopy(x.seq) BY <1>3 DEF CopiesKept
      <4> QED BY <4>1, <4>2, <2>1
    <3> QED BY <3>1, <3>2, <2>6
  <2>10. Spaced'
    <3>1. \A s : s \in DOMAIN resent' => s \in DOMAIN resent /\ s # n /\ resent'[s] = resent[s]
      BY <2>1
    <3>2. \A s \in DOMAIN resent' : resent'[s] \in Nat BY <3>1, <2>8 DEF Spaced
    <3>3. \A x \in Kept' : x.seq \in DOMAIN resent' =>
                             x.times > 0 /\ x.send_time >= resent'[x.seq]
      <4> SUFFICES ASSUME NEW x \in Kept', x.seq \in DOMAIN resent'
                   PROVE  x.times > 0 /\ x.send_time >= resent'[x.seq]
        OBVIOUS
      <4>1. x.seq \in DOMAIN resent /\ x.seq # n /\ resent'[x.seq] = resent[x.seq] BY <3>1
      <4>2. x \in Kept BY <4>1, <2>5, <2>6
      <4> QED BY <4>1, <4>2, <2>8 DEF Spaced
    <3>4. \A s \in DOMAIN resent' : ~NoCopy(s)' => clock' >= resent'[s] + Min(Rtts)
      <4> SUFFICES ASSUME NEW s \in DOMAIN resent', ~NoCopy(s)'
                   PROVE  clock' >= resent'[s] + Min(Rtts)
        OBVIOUS
      <4>1. ~NoCopy(s) BY <1>3 DEF CopiesKept
      <4>2. s \in DOMAIN resent /\ resent'[s] = resent[s] BY <3>1
      <4>3. clock >= resent[s] + Min(Rtts) BY <4>1, <4>2, <2>8 DEF Spaced
      <4> QED BY <4>2, <4>3
    <3> QED BY <3>2, <3>3, <3>4 DEF Spaced
  <2>11. \A s : OneCopy(s)' BY <1>3, <2>8 DEF CopiesKept
  <2> QED BY <1>4, <1>6, <2>3, <2>6, <2>9, <2>10, <2>11 DEF Resending
<1>11. UNCHANGED <<sequencer, packet_history, ghosts>> \/ (Egress(p) /\ p.ssrc # "audio")
  BY DEF SendPacket, ghosts
<1>12. p.type \in {"audio", "padding", "video"} BY DEF Types
<1>13. CASE Egress(p) /\ p.ssrc # "audio"
  <2>1. p.type = "padding" \/ p.type = "video" BY <1>12, <1>13
  <2> QED BY <2>1, <1>9, <1>10, <1>13
<1> QED BY <1>8, <1>11, <1>13

(* The loop sends a packet.                                                *)
LEMMA SendPendingResends ==
  ASSUME IInv, Resending, Near, SendPending
  PROVE  Resending'
<1>1. UNCHANGED <<clock, tasks, rtt, nack>> BY DEF SendPending, SendTurn
<1>2. PICK p \in Packets :
        /\ SendPacket(p) /\ p \in QueuedPackets(pacing_controller.packet_queue)
        /\ QueuedPackets(pacing_controller'.packet_queue)
             = QueuedPackets(pacing_controller.packet_queue) \ {p}
        /\ p.seq \in Seqs /\ p.type \in Types
        /\ p.type = "audio" => p.ssrc = "audio"
        /\ p.type = "retransmission" => p.ssrc = "video"
  BY PacketLeaves
<1>3. CASE p.type = "retransmission" BY <1>1, <1>2, <1>3, CopySent
<1>4. CASE p.type # "retransmission" BY <1>1, <1>2, <1>4, OtherSent
<1> QED BY <1>3, <1>4

(* Nothing was sent yet.                                                   *)
LEMMA NothingResent == Init => Resending
<1> SUFFICES ASSUME Init PROVE Resending OBVIOUS
<1>1. /\ packet_history = <<>> /\ sequencer = [next |-> FirstSeq, marker |-> FALSE]
      /\ nack.left = <<>> /\ resent = <<>> /\ tasks = <<StartTask>>
  BY DEF Init, PacerInit, NoNack
<1>2. QueuedPackets(pacing_controller.packet_queue) = {} BY InitFacts
<1>3. sequencer \in [next : Seqs, marker : BOOLEAN] /\ Placed(packet_history, sequencer.next)
  BY <1>1, EmptyIsPlaced, SendPathAssumption DEF Seqs
<1>4. DOMAIN tasks = {1} /\ tasks[1].t # "enqueue" BY <1>1 DEF StartTask
<1>5. ListsOK /\ CopiesAreVideo BY <1>2, <1>4 DEF ListsOK, CopiesAreVideo
<1>6. \A s : TaskCopies(tasks, s) = {} /\ QueueCopies(pacing_controller, s) = {}
  BY <1>2, <1>4 DEF TaskCopies, QueueCopies
<1>7. \A s : OneCopy(s) BY <1>6 DEF OneCopy, OneAtMost
<1>8. Kept = {} BY <1>1 DEF Kept, Range
<1>9. DOMAIN resent = {} BY <1>1
<1>10. Marks /\ Spaced BY <1>8, <1>9 DEF Marks, Spaced
<1> QED BY <1>1, <1>3, <1>5, <1>7, <1>10 DEF Resending

LEMMA NextResends ==
  ASSUME IInv, Resending, Near, [Next]_vars
  PROVE  Resending'
<1>1. CASE App BY <1>1, AppResends
<1>2. CASE Rtcp BY <1>2, RtcpResends
<1>3. CASE RunTask BY <1>3, RunTaskResends
<1>4. CASE RunProcessTimer \/ RunStatsTimer BY <1>4, TimersResend
<1>5. CASE SendPending BY <1>5, SendPendingResends
<1>6. CASE AddPadding \/ EndProcessing BY <1>6, LoopResends
<1>7. CASE Tick \/ UNCHANGED vars BY <1>7, TickResends
<1> QED BY <1>1, <1>2, <1>3, <1>4, <1>5, <1>6, <1>7 DEF Next, Pacer

(* While the numbers have not come around to what is kept or on its way, a *)
(* packet has at most one copy on its way and is marked while it has; a    *)
(* mark without a copy is left by a refusal of TrySendPacket alone.        *)
THEOREM MarksAreRight == Spec /\ []Near => []OneCopyWhileMarked
<1>1. Init => Resending BY NothingResent
<1>2. IInv /\ Resending /\ Near /\ [Next]_vars => Resending' BY NextResends
<1>3. IInv /\ Resending => OneCopyWhileMarked BY MarksMean
<1> QED BY <1>1, <1>2, <1>3, Invariance, PTL DEF Spec

(* A step sets the time of a retransmission only when it sends a copy.     *)
LEMMA ResendsAreCopies ==
  ASSUME IInv, Resending, Near, [Next]_vars, NEW s \in DOMAIN resent \cap DOMAIN resent',
         resent'[s] # resent[s]
  PROVE  ~NoCopy(s) /\ resent'[s] = clock
<1>1. CASE SendPending
  <2>1. PICK p \in Packets :
          /\ SendPacket(p) /\ p \in QueuedPackets(pacing_controller.packet_queue)
          /\ p.type \in Types
          /\ p.type = "audio" => p.ssrc = "audio"
    BY <1>1, PacketLeaves
  <2>2. resent' # resent OBVIOUS
  <2>3. Egress(p) /\ p.type \in {"retransmission", "padding", "video"}
    BY <2>1, <2>2 DEF SendPacket, ghosts, Types
  <2>4. CASE p.type = "retransmission"
    <3>1. resent' = [t \in DOMAIN resent \cup {p.seq} |-> IF t = p.seq THEN clock ELSE resent[t]]
      BY <2>3, <2>4 DEF Egress
    <3>2. s = p.seq /\ resent'[s] = clock BY <3>1
    <3>3. p \in QueueCopies(pacing_controller, s) BY <2>1, <2>4, <3>2 DEF QueueCopies
    <3> QED BY <3>2, <3>3 DEF NoCopy
  <2>5. CASE p.type = "padding" BY <2>2, <2>3, <2>5 DEF Egress
  <2>6. CASE p.type = "video"
    <3>1. resent' = [t \in DOMAIN resent \ {sequencer.next} |-> resent[t]]
      BY <2>3, <2>6 DEF Egress
    <3> QED BY <3>1
  <2> QED BY <2>3, <2>4, <2>5, <2>6
<1>2. CASE RunTask \/ RunProcessTimer \/ RunStatsTimer
  <2>1. Padded BY <1>2, TasksPad
  <2> QED BY <2>1 DEF Padded, ghosts
<1>3. CASE AddPadding \/ EndProcessing BY <1>3 DEF AddPadding, EndProcessing, ghosts
<1>4. CASE App
  BY <1>4 DEF App, EnqueuePackets, PostPause, PostResume, PostPacingRates, Event,
              SetSendingMediaStatus, ghosts
<1>5. CASE Rtcp
  BY <1>5 DEF Rtcp, OnReceivedNack, GetPacketState, GetPacketAndMarkAsPending, GiveUpNack,
              OnPacketsAcknowledged, ghosts
<1>6. CASE Tick \/ UNCHANGED vars BY <1>6 DEF Tick, vars, ghosts
<1> QED BY <1>1, <1>2, <1>3, <1>4, <1>5, <1>6 DEF Next, Pacer

(* While the numbers have not come around, a packet is sent again at most  *)
(* once per round trip (ResendsAreSpaced).                                 *)
THEOREM SpacedResends == Spec /\ []Near => ResendsAreSpaced
<1>1. Init => Resending BY NothingResent
<1>2. IInv /\ Resending /\ Near /\ [Next]_vars => Resending' BY NextResends
<1>3. IInv /\ Resending /\ Near /\ [Next]_vars =>
        [\A s \in DOMAIN resent \cap DOMAIN resent' :
           resent'[s] # resent[s] => resent'[s] >= resent[s] + Min(Rtts)]_resent
  <2> SUFFICES ASSUME IInv, Resending, Near, [Next]_vars,
                      NEW s \in DOMAIN resent \cap DOMAIN resent', resent'[s] # resent[s]
               PROVE  resent'[s] >= resent[s] + Min(Rtts)
    OBVIOUS
  <2>1. ~NoCopy(s) /\ resent'[s] = clock BY ResendsAreCopies
  <2>2. clock >= resent[s] + Min(Rtts) BY <2>1 DEF Resending, Spaced
  <2> QED BY <2>1, <2>2
<1> QED BY <1>1, <1>2, <1>3, Invariance, PTL DEF Spec, ResendsAreSpaced
=============================================================================
