-------------------------- MODULE HlsWindow_proofs --------------------------
(***************************************************************************)
(* Proofs about HlsWindow.tla, for any lengths of window and playlist with *)
(* PlaylistLeast <= PlaylistLength <= WindowSize, and any bounds.          *)
(***************************************************************************)
EXTENDS HlsWindow, SequenceTheorems, TLAPS

(* How many fragments a playlist written now would name.                   *)
Newest == IF Len(fragments_) < PlaylistLength THEN Len(fragments_) ELSE PlaylistLength

(* Numbers run through the window and on into the fragment in hand.        *)
Numbered ==
  /\ \A i \in DOMAIN fragments_ : frag[fragments_[i]].seq = Oldest + i - 1
  /\ current_fragment_ # None =>
       frag[current_fragment_].seq = Oldest + Len(fragments_)
  /\ fragment_seq_no_ =
       Oldest + Len(fragments_) + (IF current_fragment_ = None THEN 0 ELSE 1)

(* When fragments may be evicted the playlist names the newest ones.       *)
ListIsCurrent ==
  muxer = "listed" /\ Len(fragments_) >= PlaylistLeast =>
    /\ Len(playlist_) = Newest
    /\ \A e \in DOMAIN playlist_ :
         playlist_[e] = frag[fragments_[Len(fragments_) - Newest + e]]

(* A playlist written now would not begin before the one there is.         *)
ListIsBehind == From <= Oldest + Len(fragments_) - Newest

(* The inductive invariant.                                                *)
IInv ==
  /\ TypeOK
  /\ OneOwner
  /\ PlaylistIsServable
  /\ Numbered
  /\ ListIsCurrent
  /\ ListIsBehind

window == <<frag, fragments_, free_fragments_, current_fragment_,
            fragment_seq_no_, playlist_, muxer>>

-----------------------------------------------------------------------------
(* Sequences of objects, by position.                                      *)

LEMMA WindowFacts ==
  ASSUME TypeOK
  PROVE  /\ Len(frag) \in Nat
         /\ DOMAIN frag = 1..Len(frag)
         /\ \A o \in 1..Len(frag) : frag[o] \in Fragments /\ frag[o].seq \in Nat
         /\ Len(fragments_) \in Nat
         /\ DOMAIN fragments_ = 1..Len(fragments_)
         /\ \A i \in 1..Len(fragments_) : fragments_[i] \in 1..Len(frag)
         /\ fragments_ = <<>> <=> Len(fragments_) = 0
         /\ Len(free_fragments_) \in Nat
         /\ DOMAIN free_fragments_ = 1..Len(free_fragments_)
         /\ \A i \in 1..Len(free_fragments_) : free_fragments_[i] \in 1..Len(frag)
         /\ Len(playlist_) \in Nat
         /\ DOMAIN playlist_ = 1..Len(playlist_)
         /\ \A e \in 1..Len(playlist_) : playlist_[e].seq \in Nat
         /\ playlist_ = <<>> <=> Len(playlist_) = 0
         /\ Oldest \in Nat
         /\ From \in Nat
<1>1. /\ Len(frag) \in Nat
      /\ DOMAIN frag = 1..Len(frag)
      /\ \A o \in 1..Len(frag) : frag[o] \in Fragments /\ frag[o].seq \in Nat
  <2>1. /\ Len(frag) \in Nat
        /\ DOMAIN frag = 1..Len(frag)
        /\ \A o \in 1..Len(frag) : frag[o] \in Fragments
    BY DEF TypeOK
  <2>. QED
    BY <2>1 DEF Fragments
<1>2. /\ Len(fragments_) \in Nat
      /\ DOMAIN fragments_ = 1..Len(fragments_)
      /\ \A i \in 1..Len(fragments_) : fragments_[i] \in 1..Len(frag)
      /\ fragments_ = <<>> <=> Len(fragments_) = 0
  BY EmptySeq DEF TypeOK, Objects
<1>3. /\ Len(free_fragments_) \in Nat
      /\ DOMAIN free_fragments_ = 1..Len(free_fragments_)
      /\ \A i \in 1..Len(free_fragments_) : free_fragments_[i] \in 1..Len(frag)
  BY DEF TypeOK, Objects
<1>4. /\ Len(playlist_) \in Nat
      /\ DOMAIN playlist_ = 1..Len(playlist_)
      /\ \A e \in 1..Len(playlist_) : playlist_[e].seq \in Nat
      /\ playlist_ = <<>> <=> Len(playlist_) = 0
  <2>1. /\ Len(playlist_) \in Nat
        /\ DOMAIN playlist_ = 1..Len(playlist_)
        /\ \A e \in 1..Len(playlist_) : playlist_[e] \in Fragments
        /\ playlist_ = <<>> <=> Len(playlist_) = 0
    BY EmptySeq DEF TypeOK
  <2>. QED
    BY <2>1 DEF Fragments
<1>5. Oldest \in Nat
  BY <1>1, <1>2 DEF Oldest
<1>6. From \in Nat
  BY <1>4 DEF From
<1>. QED
  BY <1>1, <1>2, <1>3, <1>4, <1>5, <1>6

LEMMA NewestFacts ==
  ASSUME TypeOK
  PROVE  /\ Newest \in Nat /\ Newest <= Len(fragments_)
         /\ Len(fragments_) <= PlaylistLength => Newest = Len(fragments_)
         /\ Len(fragments_) > PlaylistLength => Newest = PlaylistLength
         /\ Len(fragments_) >= PlaylistLeast => Newest >= PlaylistLeast
<1>1. Len(fragments_) \in Nat
  BY WindowFacts
<1>. DEFINE n == Len(fragments_)
<1>2. Newest = IF n < PlaylistLength THEN n ELSE PlaylistLength
  BY DEF Newest
<1>. HIDE DEF n
<1>3. CASE n < PlaylistLength
  <2>1. Newest = n
    BY <1>2, <1>3
  <2>. QED
    BY <1>1, <1>3, <2>1, WindowAssumption DEF n
<1>4. CASE ~(n < PlaylistLength)
  <2>1. Newest = PlaylistLength
    BY <1>2, <1>4
  <2>. QED
    BY <1>1, <1>4, <2>1, WindowAssumption DEF n
<1>. QED
  BY <1>3, <1>4

-----------------------------------------------------------------------------
(* Steps that leave the window alone.                                      *)

LEMMA InitInv == Init => IInv
<1>. SUFFICES ASSUME Init PROVE IInv
  OBVIOUS
<1>. USE WindowAssumption
<1>1. TypeOK
  <2>1. /\ frag \in Seq(Fragments) /\ playlist_ \in Seq(Fragments)
        /\ fragments_ \in Seq(Objects) /\ free_fragments_ \in Seq(Objects)
    BY EmptySeq DEF Init
  <2>. QED
    BY <2>1 DEF Init, TypeOK, ReaderStates
<1>2. DOMAIN fragments_ = {} /\ DOMAIN free_fragments_ = {} /\ DOMAIN playlist_ = {}
  BY DEF Init
<1>3. OneOwner /\ PlaylistIsServable
  BY <1>2 DEF OneOwner, PlaylistIsServable
<1>4. Len(fragments_) = 0 /\ Oldest = 0 /\ From = 0 /\ Newest = 0
  BY DEF Init, Oldest, From, Newest
<1>5. Numbered /\ ListIsCurrent /\ ListIsBehind
  BY <1>2, <1>4 DEF Init, Numbered, ListIsCurrent, ListIsBehind
<1>. QED
  BY <1>1, <1>3, <1>5 DEF IInv

LEMMA QuietStep ==
  ASSUME IInv, UNCHANGED window, TypeOK'
  PROVE  IInv'
<1>1. OneOwner' /\ PlaylistIsServable'
  BY DEF window, IInv, OneOwner, PlaylistIsServable
<1>2. Oldest' = Oldest /\ From' = From /\ Newest' = Newest
  BY DEF window, Oldest, From, Newest
<1>3. Numbered'
  BY <1>2 DEF window, IInv, Numbered
<1>4. ListIsCurrent' /\ ListIsBehind'
  BY <1>2 DEF window, IInv, ListIsCurrent, ListIsBehind
<1>. QED
  BY <1>1, <1>3, <1>4 DEF IInv

LEMMA OnPacketStep ==
  ASSUME IInv, NEW key \in BOOLEAN, OnPacket(key)
  PROVE  UNCHANGED window /\ IInv'
<1>1. UNCHANGED window
  BY DEF OnPacket, window
<1>2. TypeOK'
  BY DEF IInv, TypeOK, Objects, OnPacket
<1>. QED
  BY <1>1, <1>2, QuietStep

LEMMA TickStep ==
  ASSUME IInv, Tick
  PROVE  UNCHANGED window /\ IInv'
<1>1. UNCHANGED window
  BY DEF Tick, window
<1>2. TypeOK'
  BY DEF IInv, TypeOK, Objects, Tick
<1>. QED
  BY <1>1, <1>2, QuietStep

LEMMA ReadStep ==
  ASSUME IInv, NEW r \in Readers, Read(r)
  PROVE  UNCHANGED window /\ IInv'
<1>1. UNCHANGED window
  BY DEF Read, GetFragmentByName, GetFragment, GetFragmentDangling, Release, window
<1>2. reader' \in [Readers -> ReaderStates] /\ crashed' \in BOOLEAN
  <2>. USE WindowFacts DEF IInv
  <2>1. reader \in [Readers -> ReaderStates] /\ crashed \in BOOLEAN /\ capacity \in Nat
    BY DEF TypeOK
  <2>2. CASE GetFragmentByName(r)
    <3>1. PICK i \in DOMAIN fragments_ :
            reader' = [reader EXCEPT ![r] =
              [at |-> "found", name |-> frag[fragments_[i]].name, slot |-> i,
               capacity |-> capacity]]
      BY <2>2 DEF GetFragmentByName
    <3>2. frag[fragments_[i]].name \in Nat /\ i \in Nat
      BY DEF Fragments
    <3>. QED
      BY <2>1, <2>2, <3>1, <3>2 DEF GetFragmentByName, ReaderStates
  <2>3. CASE GetFragment(r)
    <3>1. reader[r] \in ReaderStates /\ reader[r].at = "found"
      BY <2>1, <2>3 DEF GetFragment
    <3>2. reader[r].name \in Nat
      BY <3>1 DEF ReaderStates, Idle
    <3>3. fragments_[reader[r].slot] \in Nat
      BY <2>3 DEF GetFragment
    <3>4. [at |-> "holding", name |-> reader[r].name,
           object |-> fragments_[reader[r].slot]] \in ReaderStates
      BY <3>2, <3>3 DEF ReaderStates
    <3>5. reader' = [reader EXCEPT ![r] =
            [at |-> "holding", name |-> reader[r].name,
             object |-> fragments_[reader[r].slot]]]
      BY <2>1, <2>3 DEF GetFragment
    <3>. QED
      BY <2>1, <2>3, <3>4, <3>5 DEF GetFragment
  <2>4. CASE GetFragmentDangling(r)
    BY <2>1, <2>4 DEF GetFragmentDangling, ReaderStates
  <2>5. CASE Release(r)
    BY <2>1, <2>5 DEF Release, ReaderStates
  <2>. QED
    BY <2>2, <2>3, <2>4, <2>5 DEF Read
<1>3. clock' = clock /\ capacity' = capacity /\ duration' = duration
  BY DEF Read, GetFragmentByName, GetFragment, GetFragmentDangling, Release
<1>4. TypeOK'
  BY <1>1, <1>2, <1>3 DEF IInv, TypeOK, Objects, window
<1>. QED
  BY <1>1, <1>4, QuietStep

-----------------------------------------------------------------------------
(* A sealed fragment joins the window.                                     *)

LEMMA AppendFragmentFacts ==
  ASSUME TypeOK, NEW key \in BOOLEAN, AppendFragment(key)
  PROVE  /\ fragments_' \in Seq(Objects)
         /\ Len(fragments_') = Len(fragments_) + 1
         /\ DOMAIN fragments_' = 1..(Len(fragments_) + 1)
         /\ \A i \in 1..Len(fragments_) : fragments_'[i] = fragments_[i]
         /\ fragments_'[Len(fragments_) + 1] = current_fragment_
         /\ current_fragment_ \in Objects
         /\ current_fragment_' = None
<1>1. current_fragment_ \in Objects /\ fragments_ \in Seq(Objects)
  BY DEF TypeOK, AppendFragment
<1>2. fragments_' = Append(fragments_, current_fragment_) /\ current_fragment_' = None
  BY DEF AppendFragment
<1>. QED
  BY <1>1, <1>2, AppendProperties

LEMMA AppendFragmentStep ==
  ASSUME IInv, NEW key \in BOOLEAN, AppendFragment(key)
  PROVE  IInv' /\ Oldest' = Oldest
<1>. USE WindowFacts, AppendFragmentFacts, WindowAssumption DEF IInv
<1>1. /\ frag' = frag /\ free_fragments_' = free_fragments_
      /\ fragment_seq_no_' = fragment_seq_no_ /\ playlist_' = playlist_
      /\ muxer' = "appended" /\ current_fragment_ # None
  BY DEF AppendFragment
<1>2. TypeOK'
  <2>1. capacity' \in Nat
    BY DEF AppendFragment, TypeOK
  <2>2. Objects' = Objects
    BY <1>1 DEF Objects
  <2>. QED
    BY <1>1, <2>1, <2>2 DEF AppendFragment, TypeOK
<1>3. OneOwner'
  <2>. DEFINE n == Len(fragments_)
  <2>1. /\ \A i, j \in 1..n : fragments_[i] = fragments_[j] => i = j
        /\ \A i, j \in 1..Len(free_fragments_) :
             free_fragments_[i] = free_fragments_[j] => i = j
        /\ \A i \in 1..n, j \in 1..Len(free_fragments_) :
             fragments_[i] # free_fragments_[j]
        /\ \A i \in 1..n : fragments_[i] # current_fragment_
        /\ \A i \in 1..Len(free_fragments_) : free_fragments_[i] # current_fragment_
    BY DEF OneOwner
  <2>2. \A i \in 1..(n + 1) : i \in 1..n \/ i = n + 1
    OBVIOUS
  <2>3. \A i, j \in 1..(n + 1) : fragments_'[i] = fragments_'[j] => i = j
    BY <2>1, <2>2
  <2>4. \A i \in 1..(n + 1), j \in 1..Len(free_fragments_) :
          fragments_'[i] # free_fragments_[j]
    BY <2>1, <2>2
  <2>5. \A i \in 1..(n + 1) : fragments_'[i] \in Nat
    BY <2>2 DEF Objects
  <2>6. \A j \in 1..Len(free_fragments_) : free_fragments_[j] \in Nat
    OBVIOUS
  <2>7. /\ \A i \in 1..(n + 1) : fragments_'[i] # current_fragment_'
        /\ \A j \in 1..Len(free_fragments_) : free_fragments_[j] # current_fragment_'
    BY <2>5, <2>6, NoneAssumption
  <2>8. DOMAIN fragments_' = 1..(n + 1) /\ DOMAIN free_fragments_' = 1..Len(free_fragments_)
    BY <1>1
  <2>. HIDE DEF n
  <2>. QED
    BY ONLY <1>1, <2>1, <2>3, <2>4, <2>7, <2>8 DEF OneOwner
<1>4. PlaylistIsServable'
  BY <1>1 DEF PlaylistIsServable
<1>5. Oldest' = Oldest
  <2>1. CASE fragments_ = <<>>
    BY <1>1, <2>1, EmptySeq DEF Oldest, Numbered
  <2>2. CASE fragments_ # <<>>
    BY <1>1, <2>2 DEF Oldest
  <2>. QED
    BY <2>1, <2>2
<1>6. Numbered'
  <2>1. \A i \in 1..Len(fragments_) : frag[fragments_[i]].seq = Oldest + i - 1
    BY DEF Numbered
  <2>2. frag[current_fragment_].seq = Oldest + Len(fragments_)
    BY <1>1 DEF Numbered
  <2>3. fragment_seq_no_ = Oldest + Len(fragments_) + 1
    BY <1>1 DEF Numbered
  <2>4. \A i \in 1..(Len(fragments_) + 1) : frag[fragments_'[i]].seq = Oldest + i - 1
    <3>. TAKE i \in 1..(Len(fragments_) + 1)
    <3>1. CASE i = Len(fragments_) + 1
      BY <2>2, <3>1
    <3>2. CASE i \in 1..Len(fragments_)
      BY <2>1, <3>2
    <3>. QED
      BY <3>1, <3>2
  <2>5. fragment_seq_no_' =
          Oldest + Len(fragments_') + (IF current_fragment_' = None THEN 0 ELSE 1)
    <3>1. fragment_seq_no_' = Oldest + (Len(fragments_) + 1) + 0
      BY <1>1, <2>3
    <3>. QED
      BY <3>1
  <2>6. \A i \in DOMAIN fragments_' : frag'[fragments_'[i]].seq = Oldest + i - 1
    BY <1>1, <2>4
  <2>7. current_fragment_' = None
    OBVIOUS
  <2>. QED
    BY ONLY <1>5, <2>5, <2>6, <2>7 DEF Numbered
<1>7. ListIsCurrent'
  BY <1>1 DEF ListIsCurrent
<1>8. ListIsBehind'
  <2>1. Newest' <= Newest + 1 /\ Newest \in Nat /\ Newest' \in Nat
    BY DEF Newest
  <2>2. From' = From
    BY <1>1 DEF From
  <2>. QED
    BY <1>5, <2>1, <2>2 DEF ListIsBehind
<1>. QED
  BY <1>2, <1>3, <1>4, <1>5, <1>6, <1>7, <1>8

-----------------------------------------------------------------------------
(* The playlist of the newest fragments.                                   *)

(* What Shrink lists, by position.                                         *)
LEMMA ShrinkFacts ==
  ASSUME TypeOK, Shrink, Len(fragments_) >= PlaylistLeast
  PROVE  /\ playlist_' \in Seq(Fragments)
         /\ Newest \in 1..Len(fragments_)
         /\ Len(playlist_') = Newest
         /\ DOMAIN playlist_' = 1..Newest
         /\ \A e \in 1..Newest :
              playlist_'[e] = frag[fragments_[Len(fragments_) - Newest + e]]
<1>. DEFINE listed == Suffix(fragments_, PlaylistLength)
<1>. USE WindowFacts, WindowAssumption
<1>1. Newest \in 1..Len(fragments_)
  BY NewestFacts
<1>2. /\ listed \in Seq(Objects)
      /\ Len(listed) = Newest
      /\ \A e \in 1..Newest : listed[e] = fragments_[Len(fragments_) - Newest + e]
  <2>1. fragments_ \in Seq(Objects)
    BY DEF TypeOK
  <2>2. CASE Len(fragments_) <= PlaylistLength
    <3>1. listed = fragments_
      BY <2>2 DEF Suffix
    <3>2. Newest = Len(fragments_)
      BY <2>2, NewestFacts
    <3>. QED
      BY <2>1, <3>1, <3>2
  <2>3. CASE Len(fragments_) > PlaylistLength
    <3>. DEFINE m == Len(fragments_) - PlaylistLength + 1
    <3>1. Newest = PlaylistLength
      BY <2>3, NewestFacts
    <3>2. ~(Len(fragments_) <= PlaylistLength)
      BY <2>3
    <3>3. listed = SubSeq(fragments_, m, Len(fragments_))
      BY <3>2 DEF Suffix
    <3>4. m \in 1..(Len(fragments_) + 1) /\ Len(fragments_) \in m-1..Len(fragments_)
      BY <2>3
    <3>5. /\ SubSeq(fragments_, m, Len(fragments_)) \in Seq(Objects)
          /\ Len(SubSeq(fragments_, m, Len(fragments_))) = Len(fragments_) - m + 1
          /\ \A e \in 1..(Len(fragments_) - m + 1) :
               SubSeq(fragments_, m, Len(fragments_))[e] = fragments_[m + e - 1]
      BY <2>1, <3>4, SubSeqProperties
    <3>. HIDE DEF listed
    <3>6. \A e \in 1..Newest : listed[e] = fragments_[Len(fragments_) - Newest + e]
      <4>. TAKE e \in 1..Newest
      <4>1. e \in 1..(Len(fragments_) - m + 1)
        BY <3>1
      <4>2. m + e - 1 = Len(fragments_) - Newest + e
        BY <3>1
      <4>. QED
        BY ONLY <3>3, <3>5, <4>1, <4>2
    <3>7. Len(fragments_) - m + 1 = Newest
      BY <3>1
    <3>. QED
      BY ONLY <3>3, <3>5, <3>6, <3>7
  <2>. QED
    BY <2>2, <2>3
<1>3. playlist_' = [i \in 1..Len(listed) |-> frag[listed[i]]]
  BY DEF Shrink
<1>. HIDE DEF listed
<1>4. /\ DOMAIN playlist_' = 1..Newest
      /\ \A e \in 1..Newest :
           playlist_'[e] = frag[fragments_[Len(fragments_) - Newest + e]]
  BY <1>2, <1>3
<1>5. \A e \in 1..Newest : playlist_'[e] \in Fragments
  <2>1. \A e \in 1..Newest : Len(fragments_) - Newest + e \in 1..Len(fragments_)
    BY <1>1
  <2>2. \A i \in 1..Len(fragments_) : frag[fragments_[i]] \in Fragments
    OBVIOUS
  <2>. QED
    BY <1>4, <2>1, <2>2
<1>6. playlist_' \in [1..Newest -> Fragments]
  BY <1>2, <1>3, <1>5
<1>7. playlist_' \in Seq(Fragments) /\ Len(playlist_') = Newest
  BY <1>1, <1>6, SeqDef, LenProperties
<1>. QED
  BY <1>1, <1>4, <1>7

LEMMA ShrinkStep ==
  ASSUME IInv, Shrink
  PROVE  /\ IInv'
         /\ Len(fragments_) >= PlaylistLeast =>
              From' = Oldest + Len(fragments_) - Newest
<1>. USE WindowFacts, WindowAssumption DEF IInv
<1>1. /\ frag' = frag /\ fragments_' = fragments_ /\ free_fragments_' = free_fragments_
      /\ current_fragment_' = current_fragment_
      /\ fragment_seq_no_' = fragment_seq_no_ /\ muxer' = "listed"
      /\ Oldest' = Oldest /\ Newest' = Newest
  BY DEF Shrink, Oldest, Newest
<1>2. OneOwner' /\ Numbered'
  BY <1>1 DEF OneOwner, Numbered
<1>3. CASE Len(fragments_) < PlaylistLeast
  <2>1. playlist_' = playlist_ /\ From' = From
    BY <1>3 DEF Shrink, From
  <2>2. TypeOK'
    BY <1>1, <2>1 DEF Shrink, TypeOK, Objects
  <2>3. PlaylistIsServable' /\ ListIsBehind'
    BY <1>1, <2>1 DEF PlaylistIsServable, ListIsBehind
  <2>4. ListIsCurrent'
    BY <1>1, <1>3 DEF ListIsCurrent
  <2>. QED
    BY <1>2, <1>3, <2>2, <2>3, <2>4
<1>4. CASE Len(fragments_) >= PlaylistLeast
  <2>. USE <1>4, ShrinkFacts
  <2>1. TypeOK'
    BY <1>1 DEF Shrink, TypeOK, Objects
  <2>2. \A e \in 1..Newest : Len(fragments_) - Newest + e \in DOMAIN fragments_
    OBVIOUS
  <2>3. PlaylistIsServable'
    BY <1>1, <2>2 DEF PlaylistIsServable
  <2>4. ListIsCurrent'
    BY <1>1 DEF ListIsCurrent
  <2>5. From' = Oldest + Len(fragments_) - Newest
    <3>1. playlist_'[1].seq = Oldest + (Len(fragments_) - Newest + 1) - 1
      <4>. DEFINE i == Len(fragments_) - Newest + 1
      <4>1. i \in DOMAIN fragments_ /\ playlist_'[1] = frag[fragments_[i]]
        BY <2>2
      <4>2. \A k \in DOMAIN fragments_ : frag[fragments_[k]].seq = Oldest + k - 1
        BY DEF Numbered
      <4>. HIDE DEF i
      <4>3. playlist_'[1].seq = Oldest + i - 1
        BY <4>1, <4>2
      <4>. QED
        BY <4>3 DEF i
    <3>2. playlist_' # <<>>
      BY EmptySeq
    <3>. QED
      BY <3>1, <3>2 DEF From
  <2>6. ListIsBehind'
    BY <1>1, <2>5 DEF ListIsBehind
  <2>. QED
    BY <1>2, <2>1, <2>3, <2>4, <2>5, <2>6
<1>. QED
  BY <1>3, <1>4

-----------------------------------------------------------------------------
(* Eviction.                                                               *)

Evicts == Len(fragments_) > WindowSize
Excess == Len(fragments_) - WindowSize

(* What leaves, what stays and what is reset, by position.                 *)
LEMMA EvictFacts ==
  ASSUME TypeOK, UpdatePlayList, Evicts
  PROVE  /\ Excess \in 1..Len(fragments_)
         /\ fragments_' \in Seq(Objects)
         /\ Len(fragments_') = WindowSize
         /\ \A i \in 1..WindowSize : fragments_'[i] = fragments_[i + Excess]
         /\ free_fragments_' \in Seq(Objects)
         /\ Len(free_fragments_') = Len(free_fragments_) + Excess
         /\ \A j \in 1..Len(free_fragments_) : free_fragments_'[j] = free_fragments_[j]
         /\ \A j \in 1..Excess :
              free_fragments_'[Len(free_fragments_) + j] = fragments_[j]
         /\ frag' \in Seq(Fragments)
         /\ Len(frag') = Len(frag)
         /\ \A o \in 1..Len(frag) :
              (\A j \in 1..Excess : fragments_[j] # o) => frag'[o] = frag[o]
<1>. DEFINE n == Len(fragments_)
            x == Excess
            evicted == SubSeq(fragments_, 1, x)
            kept == SubSeq(fragments_, x + 1, n)
<1>1. n \in Nat /\ WindowSize \in Nat \ {0} /\ fragments_ \in Seq(Objects)
      /\ free_fragments_ \in Seq(Objects)
  BY WindowFacts, WindowAssumption DEF TypeOK
<1>2. x \in 1..n /\ x = n - WindowSize
  BY <1>1 DEF Evicts, Excess
<1>3. ~(n - WindowSize <= 0)
  BY <1>1 DEF Evicts
<1>4. /\ fragments_' = kept
      /\ free_fragments_' = free_fragments_ \o evicted
      /\ frag' = [o \in DOMAIN frag |->
                    IF \E i \in 1..x : fragments_[i] = o
                    THEN [frag[o] EXCEPT !.seq = 0] ELSE frag[o]]
  BY <1>3 DEF UpdatePlayList, Excess
<1>. HIDE DEF x
<1>5. /\ kept \in Seq(Objects)
      /\ Len(kept) = WindowSize
      /\ \A i \in 1..WindowSize : kept[i] = fragments_[i + x]
  <2>1. x + 1 \in 1..(n + 1) /\ n \in (x + 1) - 1 .. n
    BY <1>1, <1>2
  <2>2. /\ kept \in Seq(Objects)
        /\ Len(kept) = n - (x + 1) + 1
        /\ \A i \in 1..(n - (x + 1) + 1) : kept[i] = fragments_[(x + 1) + i - 1]
    BY <1>1, <2>1, SubSeqProperties
  <2>3. n - (x + 1) + 1 = WindowSize
    BY <1>1, <1>2
  <2>4. \A i \in 1..WindowSize : (x + 1) + i - 1 = i + x
    BY <1>1, <1>2
  <2>. HIDE DEF kept, n
  <2>. QED
    BY <2>2, <2>3, <2>4
<1>6. /\ evicted \in Seq(Objects)
      /\ Len(evicted) = x
      /\ \A i \in 1..x : evicted[i] = fragments_[i]
  <2>1. 1 \in 1..(n + 1) /\ x \in 1 - 1 .. n
    BY <1>1, <1>2
  <2>2. /\ evicted \in Seq(Objects)
        /\ Len(evicted) = x - 1 + 1
        /\ \A i \in 1..(x - 1 + 1) : evicted[i] = fragments_[1 + i - 1]
    BY <1>1, <2>1, SubSeqProperties
  <2>3. x - 1 + 1 = x /\ \A i \in 1..x : 1 + i - 1 = i
    BY <1>1, <1>2
  <2>. HIDE DEF evicted
  <2>. QED
    BY <2>2, <2>3
<1>. HIDE DEF kept, evicted, n
<1>7. /\ free_fragments_ \o evicted \in Seq(Objects)
      /\ Len(free_fragments_ \o evicted) = Len(free_fragments_) + x
      /\ \A j \in 1..Len(free_fragments_) :
           (free_fragments_ \o evicted)[j] = free_fragments_[j]
      /\ \A j \in 1..x :
           (free_fragments_ \o evicted)[Len(free_fragments_) + j] = fragments_[j]
  <2>. DEFINE l == Len(free_fragments_)
              s == free_fragments_ \o evicted
  <2>1. l \in Nat /\ x \in Nat
    BY <1>1, <1>2, WindowFacts DEF n
  <2>2. /\ s \in Seq(Objects)
        /\ Len(s) = l + x
        /\ \A i \in 1..(l + x) :
             s[i] = IF i <= l THEN free_fragments_[i] ELSE evicted[i - l]
    BY <1>1, <1>6, ConcatProperties
  <2>. HIDE DEF l, s
  <2>3. \A j \in 1..l : s[j] = free_fragments_[j]
    <3>1. \A j \in 1..l : j \in 1..(l + x) /\ j <= l
      BY <2>1
    <3>. QED
      BY <2>2, <3>1
  <2>4. \A j \in 1..x : s[l + j] = fragments_[j]
    <3>1. \A j \in 1..x : l + j \in 1..(l + x) /\ ~(l + j <= l) /\ (l + j) - l = j
      BY <2>1
    <3>2. \A j \in 1..x : s[l + j] = evicted[j]
      BY <2>2, <3>1
    <3>. QED
      BY <1>6, <3>2
  <2>. QED
    BY <2>2, <2>3, <2>4 DEF l, s
<1>8. /\ frag' \in Seq(Fragments)
      /\ Len(frag') = Len(frag)
      /\ \A o \in 1..Len(frag) : (\A j \in 1..x : fragments_[j] # o) => frag'[o] = frag[o]
  <2>1. /\ Len(frag) \in Nat /\ DOMAIN frag = 1..Len(frag)
        /\ \A o \in 1..Len(frag) : frag[o] \in Fragments
    BY WindowFacts
  <2>2. \A o \in 1..Len(frag) : [frag[o] EXCEPT !.seq = 0] \in Fragments
    BY <2>1 DEF Fragments
  <2>3. frag' \in [1..Len(frag) -> Fragments]
    BY <1>4, <2>1, <2>2
  <2>4. frag' \in Seq(Fragments) /\ Len(frag') = Len(frag)
    BY <2>1, <2>3, SeqDef, LenProperties
  <2>5. \A o \in 1..Len(frag) : (\A j \in 1..x : fragments_[j] # o) => frag'[o] = frag[o]
    BY <1>4, <2>1
  <2>. QED
    BY <2>4, <2>5
<1>. QED
  BY <1>2, <1>4, <1>5, <1>7, <1>8 DEF x, n

(* No fragment that stays is reset, because it has no second slot.         *)
LEMMA SurvivorsStay ==
  ASSUME TypeOK, OneOwner, UpdatePlayList, Evicts
  PROVE  \A i \in 1..WindowSize :
           /\ i + Excess \in 1..Len(fragments_)
           /\ fragments_'[i] = fragments_[i + Excess]
           /\ frag'[fragments_'[i]] = frag[fragments_[i + Excess]]
<1>. TAKE i \in 1..WindowSize
<1>1. /\ Excess \in 1..Len(fragments_) /\ Len(fragments_) \in Nat
      /\ WindowSize \in Nat /\ Excess = Len(fragments_) - WindowSize
  BY EvictFacts, WindowFacts, WindowAssumption DEF Excess
<1>2. i + Excess \in 1..Len(fragments_)
  BY <1>1
<1>3. fragments_'[i] = fragments_[i + Excess]
  BY EvictFacts
<1>4. \A j \in 1..Excess : fragments_[j] # fragments_[i + Excess]
  <2>1. \A j \in 1..Excess : j \in 1..Len(fragments_) /\ j # i + Excess
    BY <1>1
  <2>2. \A j, k \in 1..Len(fragments_) : fragments_[j] = fragments_[k] => j = k
    BY WindowFacts DEF OneOwner
  <2>. QED
    BY ONLY <1>2, <2>1, <2>2
<1>5. fragments_[i + Excess] \in 1..Len(frag)
  BY <1>2, WindowFacts
<1>6. frag'[fragments_[i + Excess]] = frag[fragments_[i + Excess]]
  BY <1>4, <1>5, EvictFacts
<1>. QED
  BY <1>2, <1>3, <1>6

(* What is listed lies within the last WindowSize fragments.               *)
LEMMA EvictionSparesList ==
  ASSUME IInv, UpdatePlayList, Evicts
  PROVE  /\ Len(playlist_) = PlaylistLength
         /\ \A e \in 1..PlaylistLength :
              /\ WindowSize - PlaylistLength + e \in 1..WindowSize
              /\ playlist_[e] = frag[fragments_[(WindowSize - PlaylistLength + e) + Excess]]
         /\ From = Oldest + Len(fragments_) - PlaylistLength
<1>. USE WindowAssumption
<1>1. Len(fragments_) \in Nat /\ Len(fragments_) > WindowSize
  BY WindowFacts DEF IInv, Evicts
<1>2. Newest = PlaylistLength
  BY <1>1, NewestFacts DEF IInv
<1>3. muxer = "listed" /\ Len(fragments_) >= PlaylistLeast
  BY <1>1 DEF UpdatePlayList
<1>4. /\ Len(playlist_) = PlaylistLength
      /\ \A e \in DOMAIN playlist_ :
           playlist_[e] = frag[fragments_[Len(fragments_) - PlaylistLength + e]]
  BY <1>2, <1>3 DEF IInv, ListIsCurrent
<1>5. DOMAIN playlist_ = 1..PlaylistLength /\ playlist_ # <<>>
  BY <1>4, WindowFacts DEF IInv
<1>6. \A e \in 1..PlaylistLength :
        /\ WindowSize - PlaylistLength + e \in 1..WindowSize
        /\ (WindowSize - PlaylistLength + e) + Excess = Len(fragments_) - PlaylistLength + e
  BY <1>1 DEF Excess
<1>7. From = Oldest + Len(fragments_) - PlaylistLength
  <2>. DEFINE i == Len(fragments_) - PlaylistLength + 1
  <2>1. i \in DOMAIN fragments_ /\ playlist_[1] = frag[fragments_[i]]
    <3>1. i \in 1..Len(fragments_) /\ 1 \in 1..PlaylistLength
      BY <1>1
    <3>2. playlist_[1] = frag[fragments_[i]]
      BY ONLY <1>4, <1>5, <3>1
    <3>. QED
      BY <3>1, <3>2, WindowFacts DEF IInv
  <2>2. frag[fragments_[i]].seq = Oldest + i - 1
    BY <2>1 DEF IInv, Numbered
  <2>3. From = frag[fragments_[i]].seq
    BY <1>5, <2>1 DEF From
  <2>4. Oldest \in Nat
    BY WindowFacts DEF IInv
  <2>. QED
    BY <1>1, <2>2, <2>3, <2>4
<1>. QED
  BY <1>4, <1>5, <1>6, <1>7

LEMMA EvictStep ==
  ASSUME IInv, UpdatePlayList, Evicts
  PROVE  /\ IInv'
         /\ Oldest' \in Oldest..From
         /\ Oldest' + Len(fragments_') = Oldest + Len(fragments_)
<1>. DEFINE n == Len(fragments_)
            l == Len(free_fragments_)
<1>1. /\ current_fragment_' = current_fragment_ /\ fragment_seq_no_' = fragment_seq_no_
      /\ playlist_' = playlist_ /\ muxer' = "ready" /\ From' = From
  BY DEF UpdatePlayList, From
<1>2. /\ n \in Nat /\ l \in Nat /\ Oldest \in Nat
      /\ WindowSize \in Nat \ {0} /\ PlaylistLength \in Nat /\ WindowSize >= PlaylistLength
      /\ Excess \in 1..n /\ Excess = n - WindowSize
  BY WindowFacts, EvictFacts, WindowAssumption DEF IInv, Excess
<1>3. /\ Len(fragments_') = WindowSize /\ DOMAIN fragments_' = 1..WindowSize
      /\ Len(free_fragments_') = l + Excess /\ DOMAIN free_fragments_' = 1..(l + Excess)
  BY <1>2, EvictFacts, LenProperties DEF IInv
<1>4. TypeOK'
  <2>1. Objects' = Objects
    BY EvictFacts DEF IInv, Objects
  <2>. QED
    BY <1>1, <2>1, EvictFacts DEF IInv, TypeOK, UpdatePlayList
<1>5. OneOwner'
  <2>1. /\ \A i, j \in 1..n : fragments_[i] = fragments_[j] => i = j
        /\ \A i, j \in 1..l : free_fragments_[i] = free_fragments_[j] => i = j
        /\ \A i \in 1..n, j \in 1..l : fragments_[i] # free_fragments_[j]
        /\ \A i \in 1..n : fragments_[i] # current_fragment_
        /\ \A i \in 1..l : free_fragments_[i] # current_fragment_
    BY WindowFacts DEF IInv, OneOwner
  <2>2. /\ \A i \in 1..WindowSize :
             i + Excess \in 1..n /\ fragments_'[i] = fragments_[i + Excess]
        /\ \A j \in 1..l : free_fragments_'[j] = free_fragments_[j]
        /\ \A j \in 1..Excess :
             j \in 1..n /\ free_fragments_'[l + j] = fragments_[j]
    <3>1. \A i \in 1..WindowSize :
            i + Excess \in 1..n /\ fragments_'[i] = fragments_[i + Excess]
      BY SurvivorsStay DEF IInv
    <3>2. \A j \in 1..l : free_fragments_'[j] = free_fragments_[j]
      BY EvictFacts DEF IInv
    <3>3. \A j \in 1..Excess : free_fragments_'[l + j] = fragments_[j]
      BY EvictFacts DEF IInv
    <3>4. \A j \in 1..Excess : j \in 1..n
      BY <1>2
    <3>. QED
      BY ONLY <3>1, <3>2, <3>3, <3>4
  <2>3. \A j \in 1..(l + Excess) :
          j \in 1..l \/ (j - l \in 1..Excess /\ j = l + (j - l))
    BY <1>2
  <2>. HIDE DEF n, l
  <2>4. \A i, j \in 1..WindowSize : fragments_'[i] = fragments_'[j] => i = j
    <3>1. \A i, j \in 1..WindowSize : i + Excess = j + Excess => i = j
      BY <1>2
    <3>. QED
      BY ONLY <2>1, <2>2, <3>1
  <2>5. \A j \in 1..(l + Excess) :
          \/ j \in 1..l /\ free_fragments_'[j] = free_fragments_[j]
          \/ j - l \in 1..n /\ j - l \in 1..Excess /\ free_fragments_'[j] = fragments_[j - l]
    BY ONLY <2>2, <2>3
  <2>6. \A i, j \in 1..(l + Excess) : free_fragments_'[i] = free_fragments_'[j] => i = j
    <3>1. \A i, j \in 1..(l + Excess) : i - l = j - l => i = j
      BY <1>2
    <3>. QED
      BY ONLY <2>1, <2>5, <3>1
  <2>7. \A i \in 1..WindowSize, j \in 1..(l + Excess) :
          fragments_'[i] # free_fragments_'[j]
    <3>1. \A i \in 1..WindowSize, k \in 1..Excess : i + Excess # k
      BY <1>2
    <3>. QED
      BY ONLY <2>1, <2>2, <2>5, <3>1
  <2>8. /\ \A i \in 1..WindowSize : fragments_'[i] # current_fragment_
        /\ \A j \in 1..(l + Excess) : free_fragments_'[j] # current_fragment_
    BY ONLY <2>1, <2>2, <2>5
  <2>. QED
    BY ONLY <1>1, <1>3, <2>4, <2>6, <2>7, <2>8 DEF OneOwner, l
<1>6. /\ \A i \in 1..WindowSize : frag'[fragments_'[i]].seq = (Oldest + Excess) + i - 1
      /\ Oldest' = Oldest + Excess
  <2>1. \A i \in 1..n : frag[fragments_[i]].seq = Oldest + i - 1
    BY WindowFacts DEF IInv, Numbered
  <2>2. \A i \in 1..WindowSize :
          i + Excess \in 1..n /\ frag'[fragments_'[i]] = frag[fragments_[i + Excess]]
    BY SurvivorsStay DEF IInv
  <2>3. \A i \in 1..WindowSize : Oldest + (i + Excess) - 1 = (Oldest + Excess) + i - 1
    BY <1>2
  <2>4. \A i \in 1..WindowSize : frag'[fragments_'[i]].seq = (Oldest + Excess) + i - 1
    BY <2>1, <2>2, <2>3
  <2>5. fragments_' # <<>> /\ 1 \in 1..WindowSize
    BY <1>2, <1>3, EmptySeq
  <2>6. Oldest' = frag'[fragments_'[1]].seq
    BY <2>5 DEF Oldest
  <2>. QED
    BY <1>2, <2>4, <2>5, <2>6
<1>7. PlaylistIsServable'
  <2>1. \A e \in DOMAIN playlist_ : e \in 1..PlaylistLength
    BY EvictionSparesList, WindowFacts DEF IInv
  <2>2. \A e \in 1..PlaylistLength : WindowSize - PlaylistLength + e \in 1..WindowSize
    BY EvictionSparesList
  <2>3. \A e \in 1..PlaylistLength :
          frag'[fragments_'[WindowSize - PlaylistLength + e]] = playlist_[e]
    BY <2>2, EvictionSparesList, SurvivorsStay DEF IInv
  <2>. QED
    BY ONLY <1>1, <1>3, <2>1, <2>2, <2>3 DEF PlaylistIsServable
<1>8. Numbered'
  <2>1. current_fragment_ # None =>
          frag'[current_fragment_].seq = Oldest' + Len(fragments_')
    <3>. SUFFICES ASSUME current_fragment_ # None
                  PROVE  frag'[current_fragment_].seq = Oldest' + Len(fragments_')
      OBVIOUS
    <3>1. current_fragment_ \in 1..Len(frag)
      BY DEF IInv, TypeOK, Objects
    <3>2. \A j \in 1..Excess : fragments_[j] # current_fragment_
      <4>1. \A j \in 1..Excess : j \in 1..n
        BY <1>2
      <4>2. \A j \in 1..n : fragments_[j] # current_fragment_
        BY WindowFacts DEF IInv, OneOwner
      <4>. QED
        BY ONLY <4>1, <4>2
    <3>3. frag'[current_fragment_] = frag[current_fragment_]
      BY <3>1, <3>2, EvictFacts DEF IInv
    <3>4. frag[current_fragment_].seq = Oldest + n
      BY DEF IInv, Numbered
    <3>. QED
      BY <1>2, <1>3, <1>6, <3>3, <3>4
  <2>2. Oldest' + Len(fragments_') = Oldest + n
    BY <1>2, <1>3, <1>6
  <2>3. fragment_seq_no_' =
          Oldest' + Len(fragments_') + (IF current_fragment_' = None THEN 0 ELSE 1)
    BY <1>1, <2>2 DEF IInv, Numbered
  <2>. QED
    BY <1>1, <1>3, <1>6, <2>1, <2>3 DEF Numbered
<1>9. ListIsCurrent'
  BY <1>1 DEF ListIsCurrent
<1>10. Oldest' \in Oldest..From /\ Oldest' + Len(fragments_') = Oldest + n
  BY <1>2, <1>3, <1>6, EvictionSparesList
<1>11. ListIsBehind'
  <2>1. Newest' = IF WindowSize < PlaylistLength THEN WindowSize ELSE PlaylistLength
    BY <1>3 DEF Newest
  <2>2. Newest' = PlaylistLength
    BY <1>2, <2>1
  <2>. QED
    BY <1>1, <1>2, <1>3, <1>6, <2>2, EvictionSparesList DEF ListIsBehind
<1>. QED
  BY <1>4, <1>5, <1>7, <1>8, <1>9, <1>10, <1>11 DEF IInv

(* With a window that is not over its size only the muxer moves on.        *)
LEMMA NoEvictStep ==
  ASSUME IInv, UpdatePlayList, ~Evicts
  PROVE  /\ IInv'
         /\ UNCHANGED <<frag, fragments_, playlist_>>
<1>1. Len(fragments_) - WindowSize <= 0
  BY WindowFacts, WindowAssumption DEF IInv, Evicts
<1>2. /\ UNCHANGED <<frag, fragments_, free_fragments_, playlist_, current_fragment_,
                      fragment_seq_no_>>
      /\ muxer' = "ready"
  BY <1>1 DEF UpdatePlayList
<1>3. Oldest' = Oldest /\ From' = From /\ Newest' = Newest
  BY <1>2 DEF Oldest, From, Newest
<1>4. TypeOK'
  BY <1>2 DEF IInv, TypeOK, Objects, UpdatePlayList
<1>5. OneOwner' /\ PlaylistIsServable'
  BY <1>2 DEF IInv, OneOwner, PlaylistIsServable
<1>6. Numbered' /\ ListIsCurrent' /\ ListIsBehind'
  BY <1>2, <1>3 DEF IInv, Numbered, ListIsCurrent, ListIsBehind
<1>. QED
  BY <1>2, <1>4, <1>5, <1>6 DEF IInv

-----------------------------------------------------------------------------
(* A new fragment in the muxer's hand.                                     *)

(* Whether the object is made or used again, nobody else has it, and the   *)
(* free list loses no more than its head.                                  *)
LEMMA StartFragmentFacts ==
  ASSUME IInv, StartFragment
  PROVE  /\ frag' \in Seq(Fragments)
         /\ 1..Len(frag) \subseteq 1..Len(frag')
         /\ current_fragment_' \in 1..Len(frag')
         /\ frag'[current_fragment_'].seq = fragment_seq_no_
         /\ \A o \in 1..Len(frag) : o # current_fragment_' => frag'[o] = frag[o]
         /\ \A i \in 1..Len(fragments_) : fragments_[i] # current_fragment_'
         /\ free_fragments_' \in Seq(Objects)
         /\ \E d \in {0, 1} : \A j \in 1..Len(free_fragments_') :
              /\ j + d \in 1..Len(free_fragments_)
              /\ free_fragments_'[j] = free_fragments_[j + d]
              /\ free_fragments_'[j] # current_fragment_'
<1>. DEFINE new == [name |-> clock, seq |-> fragment_seq_no_]
            n == Len(frag)
            l == Len(free_fragments_)
<1>1. /\ n \in Nat /\ l \in Nat /\ frag \in Seq(Fragments) /\ DOMAIN frag = 1..n
      /\ free_fragments_ \in Seq(Objects)
      /\ \A i \in 1..Len(fragments_) : fragments_[i] \in 1..n
      /\ \A j \in 1..l : free_fragments_[j] \in 1..n
  BY WindowFacts DEF IInv, TypeOK
<1>2. new \in Fragments /\ new.seq = fragment_seq_no_
  BY DEF IInv, TypeOK, Fragments
<1>. HIDE DEF new
<1>3. CASE free_fragments_ = <<>>
  <2>1. /\ frag' = Append(frag, new)
        /\ current_fragment_' = n + 1
        /\ free_fragments_' = free_fragments_
    BY <1>3 DEF StartFragment, new
  <2>2. /\ frag' \in Seq(Fragments) /\ Len(frag') = n + 1
        /\ \A o \in 1..n : frag'[o] = frag[o]
        /\ frag'[n + 1] = new
    BY <1>1, <1>2, <2>1, AppendProperties
  <2>3. \A o \in 1..n : o # n + 1
    BY <1>1
  <2>4. 1..n \subseteq 1..(n + 1) /\ n + 1 \in 1..(n + 1)
    BY <1>1
  <2>5. l = 0
    BY <1>3, EmptySeq
  <2>6. \A j \in 1..Len(free_fragments_') :
          /\ j + 0 \in 1..l
          /\ free_fragments_'[j] = free_fragments_[j + 0]
          /\ free_fragments_'[j] # current_fragment_'
    BY <2>1, <2>5
  <2>7. \A i \in 1..Len(fragments_) : fragments_[i] # n + 1
    BY <1>1, <2>3
  <2>. HIDE DEF n, l
  <2>. QED
    BY <1>1, <1>2, <2>1, <2>2, <2>4, <2>6, <2>7 DEF n, l
<1>4. CASE free_fragments_ # <<>>
  <2>. DEFINE h == free_fragments_[1]
  <2>1. /\ frag' = [frag EXCEPT ![h] = new]
        /\ current_fragment_' = h
        /\ free_fragments_' = Tail(free_fragments_)
    BY <1>1, <1>4, HeadTailProperties DEF StartFragment, new
  <2>2. l \in Nat \ {0} /\ 1 \in 1..l /\ h \in 1..n
    BY <1>1, <1>4, EmptySeq
  <2>3. /\ frag' \in Seq(Fragments) /\ Len(frag') = n /\ frag'[h] = new
        /\ \A o \in 1..n : o # h => frag'[o] = frag[o]
    BY <1>1, <1>2, <2>1, <2>2, ExceptSeq
  <2>4. /\ \A i, j \in 1..l : free_fragments_[i] = free_fragments_[j] => i = j
        /\ \A i \in 1..Len(fragments_) : fragments_[i] # h
    BY <2>2, WindowFacts DEF IInv, OneOwner
  <2>5. /\ Tail(free_fragments_) \in Seq(Objects)
        /\ Len(Tail(free_fragments_)) = l - 1
        /\ \A j \in 1..(l - 1) : Tail(free_fragments_)[j] = free_fragments_[j + 1]
    BY <1>1, <1>4, HeadTailProperties
  <2>6. \A j \in 1..(l - 1) : j + 1 \in 1..l /\ j + 1 # 1
    BY <1>1
  <2>7. \A j \in 1..Len(free_fragments_') :
          /\ j + 1 \in 1..l
          /\ free_fragments_'[j] = free_fragments_[j + 1]
          /\ free_fragments_'[j] # current_fragment_'
    BY ONLY <2>1, <2>2, <2>4, <2>5, <2>6
  <2>. HIDE DEF n, l, h
  <2>. QED
    BY <1>1, <1>2, <2>1, <2>2, <2>3, <2>4, <2>5, <2>7 DEF n, l
<1>. QED
  BY <1>3, <1>4

LEMMA StartFragmentStep ==
  ASSUME IInv, StartFragment
  PROVE  /\ IInv'
         /\ Oldest' = Oldest
         /\ UNCHANGED <<fragments_, playlist_>>
<1>. DEFINE n == Len(fragments_)
<1>1. /\ fragments_' = fragments_ /\ playlist_' = playlist_ /\ muxer' = "ready"
      /\ fragment_seq_no_' = fragment_seq_no_ + 1 /\ current_fragment_ = None
      /\ From' = From /\ Newest' = Newest
  BY DEF StartFragment, From, Newest
<1>2. /\ n \in Nat /\ DOMAIN fragments_ = 1..n
      /\ \A i \in 1..n : fragments_[i] \in 1..Len(frag)
  BY WindowFacts DEF IInv
<1>3. \A i \in 1..n : frag'[fragments_[i]] = frag[fragments_[i]]
  BY <1>2, StartFragmentFacts
<1>4. TypeOK'
  <2>1. Objects \subseteq Objects'
    BY StartFragmentFacts DEF Objects
  <2>2. fragments_' \in Seq(Objects') /\ free_fragments_' \in Seq(Objects')
    BY <1>1, <2>1, StartFragmentFacts, SeqMonotonic DEF IInv, TypeOK
  <2>3. current_fragment_' \in Objects'
    BY StartFragmentFacts DEF Objects
  <2>. QED
    BY <1>1, <2>2, <2>3, StartFragmentFacts DEF IInv, TypeOK, StartFragment
<1>5. OneOwner'
  <2>. DEFINE l == Len(free_fragments_)
              k == Len(free_fragments_')
  <2>1. /\ \A i, j \in 1..n : fragments_[i] = fragments_[j] => i = j
        /\ \A i, j \in 1..l : free_fragments_[i] = free_fragments_[j] => i = j
        /\ \A i \in 1..n, j \in 1..l : fragments_[i] # free_fragments_[j]
    BY WindowFacts DEF IInv, OneOwner
  <2>2. k \in Nat /\ DOMAIN free_fragments_' = 1..k
    BY StartFragmentFacts, LenProperties
  <2>3. PICK d \in {0, 1} : \A j \in 1..k :
          /\ j + d \in 1..l
          /\ free_fragments_'[j] = free_fragments_[j + d]
          /\ free_fragments_'[j] # current_fragment_'
    BY StartFragmentFacts
  <2>4. \A i, j \in 1..k : i + d = j + d => i = j
    OBVIOUS
  <2>5. \A i \in 1..n : fragments_[i] # current_fragment_'
    BY StartFragmentFacts
  <2>. HIDE DEF k, l, n
  <2>6. \A i, j \in 1..k : free_fragments_'[i] = free_fragments_'[j] => i = j
    BY ONLY <2>1, <2>3, <2>4
  <2>7. \A i \in 1..n, j \in 1..k : fragments_[i] # free_fragments_'[j]
    BY ONLY <2>1, <2>3
  <2>. QED
    BY ONLY <1>1, <1>2, <2>1, <2>2, <2>3, <2>5, <2>6, <2>7 DEF OneOwner
<1>6. PlaylistIsServable'
  BY ONLY IInv, <1>1, <1>2, <1>3 DEF IInv, PlaylistIsServable
<1>7. Oldest' = Oldest
  <2>1. CASE fragments_ = <<>>
    BY <1>1, <2>1 DEF Oldest
  <2>2. CASE fragments_ # <<>>
    <3>1. 1 \in 1..n
      BY <1>2, <2>2, WindowFacts DEF IInv
    <3>. QED
      BY <1>1, <1>3, <2>2, <3>1 DEF Oldest
  <2>. QED
    BY <2>1, <2>2
<1>8. Numbered'
  <2>1. fragment_seq_no_ = Oldest + n
    <3>1. fragment_seq_no_ = Oldest + n + 0
      BY <1>1 DEF IInv, Numbered
    <3>. QED
      BY <1>2, <3>1, WindowFacts DEF IInv
  <2>2. frag'[current_fragment_'].seq = Oldest + n
    BY <2>1, StartFragmentFacts
  <2>3. current_fragment_' # None
    BY NoneAssumption, StartFragmentFacts
  <2>4. \A i \in 1..n : frag'[fragments_[i]].seq = Oldest + i - 1
    BY <1>2, <1>3 DEF IInv, Numbered
  <2>. QED
    BY <1>1, <1>2, <1>7, <2>1, <2>2, <2>3, <2>4 DEF Numbered
<1>9. ListIsCurrent'
  BY <1>1 DEF ListIsCurrent
<1>10. ListIsBehind'
  BY <1>1, <1>7 DEF IInv, ListIsBehind
<1>. QED
  BY <1>1, <1>4, <1>5, <1>6, <1>7, <1>8, <1>9, <1>10 DEF IInv

-----------------------------------------------------------------------------
(* Every step.                                                             *)

LEMMA StutterStep ==
  ASSUME IInv, UNCHANGED vars
  PROVE  UNCHANGED window /\ IInv'
<1>1. UNCHANGED window
  BY DEF vars, window
<1>2. TypeOK'
  BY DEF IInv, TypeOK, Objects, vars
<1>. QED
  BY <1>1, <1>2, QuietStep

LEMMA NextInv ==
  ASSUME IInv, [Next]_vars
  PROVE  IInv'
<1>1. CASE \E key \in BOOLEAN : OnPacket(key) \/ AppendFragment(key)
  BY <1>1, OnPacketStep, AppendFragmentStep
<1>2. CASE Shrink
  BY <1>2, ShrinkStep
<1>3. CASE UpdatePlayList
  BY <1>3, EvictStep, NoEvictStep
<1>4. CASE StartFragment
  BY <1>4, StartFragmentStep
<1>5. CASE Tick
  BY <1>5, TickStep
<1>6. CASE \E r \in Readers : Read(r)
  BY <1>6, ReadStep
<1>7. CASE UNCHANGED vars
  BY <1>7, StutterStep
<1>. QED
  BY <1>1, <1>2, <1>3, <1>4, <1>5, <1>6, <1>7 DEF Next, Muxer

(* IInv is inductive: it holds in every reachable state.                   *)
THEOREM Inductive == Spec => []IInv
<1>1. Init => IInv
  BY InitInv
<1>2. IInv /\ [Next]_vars => IInv'
  BY NextInv
<1>. QED
  BY <1>1, <1>2, PTL DEF Spec

(* Every object stays among those made, through cutting and recycling.     *)
THEOREM TypeCorrect == Spec => []TypeOK
<1>1. IInv => TypeOK
  BY DEF IInv
<1>. QED
  BY <1>1, Inductive, PTL

(* A Fragment object is in the muxer's hand, in one slot of the window, or *)
(* in one place of the free list (GetIdleFragment and UpdatePlayList).     *)
THEOREM OneOwnerCorrect == Spec => []OneOwner
<1>1. IInv => OneOwner
  BY DEF IInv
<1>. QED
  BY <1>1, Inductive, PTL

(* Every fragment the last playlist lists is still in the window, in each  *)
(* section of AppendFragment.                                              *)
THEOREM PlaylistCorrect == Spec => []PlaylistIsServable
<1>1. IInv => PlaylistIsServable
  BY DEF IInv
<1>. QED
  BY <1>1, Inductive, PTL

SealedStay ==
  \A i \in DOMAIN fragments_, j \in DOMAIN fragments_' :
    fragments_[i] = fragments_'[j] => frag'[fragments_[i]] = frag[fragments_[i]]

(* Neither recycling nor eviction changes a fragment in the window.        *)
THEOREM SealedCorrect == Spec => SealedFragmentsStay
<1>1. IInv /\ [Next]_vars => [SealedStay]_vars
  <2>. SUFFICES ASSUME IInv, Next PROVE SealedStay
    BY DEF vars
  <2>1. CASE frag' = frag
    BY <2>1 DEF SealedStay
  <2>2. CASE UpdatePlayList /\ Evicts
    <3>1. DOMAIN fragments_' = 1..WindowSize
      BY <2>2, EvictFacts, LenProperties DEF IInv
    <3>2. \A j \in 1..WindowSize :
            /\ fragments_'[j] = fragments_[j + Excess]
            /\ frag'[fragments_'[j]] = frag[fragments_[j + Excess]]
      BY <2>2, SurvivorsStay DEF IInv
    <3>. QED
      BY ONLY <3>1, <3>2 DEF SealedStay
  <2>3. CASE StartFragment
    <3>1. \A i \in DOMAIN fragments_ : frag'[fragments_[i]] = frag[fragments_[i]]
      BY <2>3, WindowFacts, StartFragmentFacts DEF IInv
    <3>. QED
      BY ONLY <3>1 DEF SealedStay
  <2>4. frag' = frag \/ (UpdatePlayList /\ Evicts) \/ StartFragment
    BY NoEvictStep DEF Next, Muxer, Read, OnPacket, AppendFragment, Shrink, Tick,
       GetFragmentByName, GetFragment, GetFragmentDangling, Release
  <2>. QED
    BY <2>1, <2>2, <2>3, <2>4
<1>2. IInv /\ [Next]_vars =>
        [\A i \in DOMAIN fragments_, j \in DOMAIN fragments_' :
           fragments_[i] = fragments_'[j] =>
             frag'[fragments_[i]] = frag[fragments_[i]]]_vars
  BY <1>1 DEF SealedStay
<1>. QED
  BY <1>2, Inductive, PTL DEF Spec, SealedFragmentsStay

-----------------------------------------------------------------------------
(* The refinement.                                                         *)

LEMMA StreamStutters ==
  ASSUME UNCHANGED <<fragments_, playlist_>>, Oldest' = Oldest
  PROVE  UNCHANGED Stream!vars
<1>1. From' = From
  BY DEF From
<1>. QED
  BY <1>1 DEF Stream!vars

(* AppendFragment seals, Shrink publishes, UpdatePlayList withdraws; what  *)
(* else the muxer, the clock and the readers do, a player cannot see.      *)
LEMMA StreamStep ==
  ASSUME IInv, [Next]_vars
  PROVE  [Stream!Next]_(Stream!vars)
<1>1. CASE UNCHANGED window
  <2>1. Oldest' = Oldest
    BY <1>1 DEF window, Oldest
  <2>. QED
    BY <1>1, <2>1, StreamStutters DEF window
<1>2. ASSUME NEW key \in BOOLEAN, AppendFragment(key)
      PROVE  Stream!Seal
  <2>1. Oldest' = Oldest /\ Len(fragments_') = Len(fragments_) + 1
    BY <1>2, AppendFragmentStep, AppendFragmentFacts DEF IInv
  <2>2. playlist_' = playlist_ /\ From' = From
    BY <1>2 DEF AppendFragment, From
  <2>3. Oldest \in Nat /\ Len(fragments_) \in Nat
    BY WindowFacts DEF IInv
  <2>. QED
    BY <2>1, <2>2, <2>3 DEF Stream!Seal
<1>3. CASE Shrink /\ Len(fragments_) < PlaylistLeast
  <2>1. fragments_' = fragments_ /\ playlist_' = playlist_ /\ Oldest' = Oldest
    BY <1>3 DEF Shrink, Oldest
  <2>. QED
    BY <2>1, StreamStutters
<1>4. CASE Shrink /\ Len(fragments_) >= PlaylistLeast
  <2>1. fragments_' = fragments_ /\ Oldest' = Oldest
    BY <1>4 DEF Shrink, Oldest
  <2>2. /\ From' = Oldest + Len(fragments_) - Newest
        /\ Len(playlist_') = Newest
    BY <1>4, ShrinkStep, ShrinkFacts DEF IInv
  <2>3. /\ Oldest \in Nat /\ Len(fragments_) \in Nat /\ From \in Nat
        /\ Newest \in Nat /\ Newest >= PlaylistLeast /\ Newest <= PlaylistLength
        /\ Newest <= Len(fragments_)
        /\ PlaylistLeast \in Nat /\ PlaylistLength \in Nat
    <3>1. Newest <= PlaylistLength
      BY WindowFacts, WindowAssumption DEF IInv, Newest
    <3>. QED
      BY <1>4, <3>1, WindowFacts, NewestFacts, WindowAssumption DEF IInv
  <2>4. From <= Oldest + Len(fragments_) - Newest
    BY DEF IInv, ListIsBehind
  <2>5. From' + Len(playlist_') = Oldest + Len(fragments_)
    BY <2>2, <2>3
  <2>6. From' \in From..(Oldest + Len(fragments_))
    BY <2>2, <2>3, <2>4
  <2>7. (Oldest + Len(fragments_)) - From' \in PlaylistLeast..PlaylistLength
    BY <2>2, <2>3
  <2>8. Stream!Publish
    BY <2>1, <2>5, <2>6, <2>7 DEF Stream!Publish
  <2>. QED
    BY <2>8 DEF Stream!Next
<1>5. CASE UpdatePlayList /\ Evicts
  <2>1. /\ Oldest' \in Oldest..From
        /\ Oldest' + Len(fragments_') = Oldest + Len(fragments_)
    BY <1>5, EvictStep
  <2>2. playlist_' = playlist_ /\ From' = From
    BY <1>5 DEF UpdatePlayList, From
  <2>3. Stream!Withdraw
    BY <2>1, <2>2 DEF Stream!Withdraw
  <2>. QED
    BY <2>3 DEF Stream!Next
<1>6. CASE UpdatePlayList /\ ~Evicts
  <2>1. UNCHANGED <<frag, fragments_, playlist_>>
    BY <1>6, NoEvictStep
  <2>2. Oldest' = Oldest
    BY <2>1 DEF Oldest
  <2>. QED
    BY <2>1, <2>2, StreamStutters
<1>7. CASE StartFragment
  BY <1>7, StartFragmentStep, StreamStutters
<1>8. \/ UNCHANGED window
      \/ \E key \in BOOLEAN : AppendFragment(key)
      \/ Shrink \/ UpdatePlayList \/ StartFragment
  BY OnPacketStep, TickStep, ReadStep, StutterStep DEF Next, Muxer
<1>9. Shrink => Len(fragments_) < PlaylistLeast \/ Len(fragments_) >= PlaylistLeast
  BY WindowFacts, WindowAssumption DEF IInv
<1>. QED
  BY <1>1, <1>2, <1>3, <1>4, <1>5, <1>6, <1>7, <1>8, <1>9 DEF Stream!Next

(* The window keeps every promise of HlsStream.                            *)
THEOREM Implementation == Spec => ImplementsStream
<1>1. Init => Stream!Init
  BY EmptySeq DEF Init, Oldest, From, Stream!Init
<1>2. IInv /\ [Next]_vars => [Stream!Next]_(Stream!vars)
  BY StreamStep
<1>. QED
  BY <1>1, <1>2, Inductive, PTL DEF Spec, ImplementsStream, Stream!Spec

=============================================================================
