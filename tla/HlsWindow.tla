----------------------------- MODULE HlsWindow -----------------------------
(***************************************************************************)
(* libhls/cfragment_window.cpp under HLSMuxer::OnPacket, and the fragments *)
(* of cfragment.cpp: one thread feeds packets, cuts fragments and recycles *)
(* their objects; other threads fetch the playlist and fragments by name.  *)
(*                                                                         *)
(* AppendFragment takes lock_ three times (emplace, Shrink, UpdatePlayList) *)
(* and the muxer a fourth time for an idle object; each is a step, as is   *)
(* each half of GetFragment: GetFragmentByName searches under the lock but *)
(* returns a reference into the vector, copied after the lock is gone.     *)
(*                                                                         *)
(* A Fragment object is its index in frag; make_shared appends one.  The   *)
(* vector doubles its capacity when it is full, which moves its elements   *)
(* and leaves references into the old storage dangling.                    *)
(*                                                                         *)
(* Left out: the bytes of fragments and the encoder that writes them, the  *)
(* text of the playlist, the durations of sealed fragments, a stream name  *)
(* (there is one), and packets whose time stamp does not advance.          *)
(***************************************************************************)
EXTENDS Integers, Sequences

CONSTANTS
  Readers,          \* threads that serve playlists and fragments
  WindowSize,       \* window_size_
  PlaylistLength,   \* Shrink lists at most this many (5)
  PlaylistLeast,    \* and nothing below this many (3)
  MinSize,          \* min_fragment_size_
  MaxSize,          \* max_fragment_size_
  None,             \* no fragment in hand
  MaxFragments,     \* bound on fragments cut
  MaxClock          \* bound on the clock that names them

ASSUME WindowAssumption ==
  /\ PlaylistLength \in Nat \ {0}
  /\ WindowSize \in Nat /\ WindowSize >= PlaylistLength
  /\ PlaylistLeast \in Nat \ {0} /\ PlaylistLeast <= PlaylistLength
ASSUME HlsBoundsAssumption ==
  MinSize \in Nat /\ MaxSize \in Nat /\ MaxFragments \in Nat /\ MaxClock \in Nat
ASSUME NoneAssumption == None \notin Nat

VARIABLES
  frag,                 \* name and sequence number of every Fragment object
  fragments_,           \* the window, oldest first
  free_fragments_,      \* objects to be used again
  current_fragment_,    \* the object the muxer writes, or None
  duration,             \* its duration
  fragment_seq_no_,     \* number of the next fragment
  playlist_,            \* name and number of the fragments listed
  muxer,                \* where OnPacket is between its lock sections
  clock,                \* SystemTimeMillis
  capacity,             \* of the vector fragments_
  reader,               \* what each reader is doing
  crashed               \* a dangling reference was used

vars == <<frag, fragments_, free_fragments_, current_fragment_, duration,
          fragment_seq_no_, playlist_, muxer, clock, capacity, reader, crashed>>

Fragments == [name : Nat, seq : Nat]
Objects == 1..Len(frag)
Idle == [at |-> "idle"]
ReaderStates ==
  {Idle}
    \cup [at : {"found"}, name : Nat, slot : Nat, capacity : Nat]
    \cup [at : {"holding"}, name : Nat, object : Nat]

TypeOK ==
  /\ frag \in Seq(Fragments)
  /\ fragments_ \in Seq(Objects)
  /\ free_fragments_ \in Seq(Objects)
  /\ current_fragment_ \in Objects \cup {None}
  /\ duration \in Nat
  /\ fragment_seq_no_ \in Nat
  /\ playlist_ \in Seq(Fragments)
  /\ muxer \in {"ready", "appended", "listed"}
  /\ clock \in Nat
  /\ capacity \in Nat
  /\ reader \in [Readers -> ReaderStates]
  /\ crashed \in BOOLEAN

Init ==
  /\ frag = <<>>
  /\ fragments_ = <<>>
  /\ free_fragments_ = <<>>
  /\ current_fragment_ = None
  /\ duration = 0
  /\ fragment_seq_no_ = 0
  /\ playlist_ = <<>>
  /\ muxer = "ready"
  /\ clock = 0
  /\ capacity = 0
  /\ reader = [r \in Readers |-> Idle]
  /\ crashed = FALSE

-----------------------------------------------------------------------------
(* The muxer's thread.                                                     *)

Suffix(s, n) == IF Len(s) <= n THEN s ELSE SubSeq(s, Len(s) - n + 1, Len(s))

(* OnPacket cuts at a key frame of a fragment that is long enough, and at  *)
(* any packet of one that is too long.                                     *)
Cuts(key) == (key /\ duration >= MinSize) \/ duration >= MaxSize

(* OnPacket into the fragment in hand.                                     *)
OnPacket(key) ==
  /\ ~crashed
  /\ muxer = "ready"
  /\ current_fragment_ # None
  /\ ~Cuts(key)
  /\ duration' = duration + 1
  /\ UNCHANGED <<frag, fragments_, free_fragments_, current_fragment_,
                 fragment_seq_no_, playlist_, muxer, clock, capacity, reader,
                 crashed>>

(* A slip to guard against: the muxer keeps the fragment it handed over.   *)
AppendFragmentKept(key) ==
  /\ ~crashed
  /\ muxer = "ready"
  /\ current_fragment_ # None
  /\ Cuts(key)
  /\ fragments_' = Append(fragments_, current_fragment_)
  /\ muxer' = "appended"
  /\ capacity' = IF Len(fragments_) = capacity
                 THEN (IF capacity = 0 THEN 1 ELSE 2 * capacity) ELSE capacity
  /\ UNCHANGED <<frag, free_fragments_, current_fragment_, duration,
                 fragment_seq_no_, playlist_, clock, reader, crashed>>

(* OnPacket that cuts, up to the end of AppendFragment's first section:    *)
(* the fragment in hand joins the window.                                  *)
AppendFragment(key) ==
  /\ ~crashed
  /\ muxer = "ready"
  /\ current_fragment_ # None
  /\ Cuts(key)
  /\ fragments_' = Append(fragments_, current_fragment_)
  /\ current_fragment_' = None
  /\ muxer' = "appended"
  /\ capacity' = IF Len(fragments_) = capacity
                 THEN (IF capacity = 0 THEN 1 ELSE 2 * capacity) ELSE capacity
  /\ UNCHANGED <<frag, free_fragments_, duration, fragment_seq_no_, playlist_,
                 clock, reader, crashed>>

(* A slip to guard against: the list is cut at its old end.                *)
ShrinkOldest ==
  /\ ~crashed
  /\ muxer = "appended"
  /\ playlist_' = IF Len(fragments_) < PlaylistLeast THEN playlist_
                  ELSE LET n == IF Len(fragments_) < PlaylistLength
                                THEN Len(fragments_) ELSE PlaylistLength
                       IN  [i \in 1..n |-> frag[fragments_[i]]]
  /\ muxer' = "listed"
  /\ UNCHANGED <<frag, fragments_, free_fragments_, current_fragment_, duration,
                 fragment_seq_no_, clock, capacity, reader, crashed>>

(* Shrink: the playlist of the newest fragments.                           *)
Shrink ==
  /\ ~crashed
  /\ muxer = "appended"
  /\ playlist_' = IF Len(fragments_) < PlaylistLeast THEN playlist_
                  ELSE LET listed == Suffix(fragments_, PlaylistLength)
                       IN  [i \in 1..Len(listed) |-> frag[listed[i]]]
  /\ muxer' = "listed"
  /\ UNCHANGED <<frag, fragments_, free_fragments_, current_fragment_, duration,
                 fragment_seq_no_, clock, capacity, reader, crashed>>

(* A slip to guard against: one fragment too many leaves the window.       *)
UpdatePlayListOneMore ==
  /\ ~crashed
  /\ muxer = "listed"
  /\ muxer' = "ready"
  /\ LET excess == Len(fragments_) - WindowSize + 1
     IN  IF excess <= 0 THEN UNCHANGED <<frag, fragments_, free_fragments_>>
         ELSE /\ fragments_' = SubSeq(fragments_, excess + 1, Len(fragments_))
              /\ free_fragments_' = free_fragments_ \o SubSeq(fragments_, 1, excess)
              /\ frag' = [o \in DOMAIN frag |->
                            IF \E i \in 1..excess : fragments_[i] = o
                            THEN [frag[o] EXCEPT !.seq = 0] ELSE frag[o]]
  /\ UNCHANGED <<current_fragment_, duration, fragment_seq_no_, playlist_, clock,
                 capacity, reader, crashed>>

(* UpdatePlayList: what the window has too many of, oldest first, is reset *)
(* (the name stays) and free.                                              *)
UpdatePlayList ==
  /\ ~crashed
  /\ muxer = "listed"
  /\ muxer' = "ready"
  /\ LET excess == Len(fragments_) - WindowSize
     IN  IF excess <= 0 THEN UNCHANGED <<frag, fragments_, free_fragments_>>
         ELSE /\ fragments_' = SubSeq(fragments_, excess + 1, Len(fragments_))
              /\ free_fragments_' = free_fragments_ \o SubSeq(fragments_, 1, excess)
              /\ frag' = [o \in DOMAIN frag |->
                            IF \E i \in 1..excess : fragments_[i] = o
                            THEN [frag[o] EXCEPT !.seq = 0] ELSE frag[o]]
  /\ UNCHANGED <<current_fragment_, duration, fragment_seq_no_, playlist_, clock,
                 capacity, reader, crashed>>

(* A slip to guard against: an idle object is used and stays on the list.  *)
StartFragmentUnlisted ==
  /\ ~crashed
  /\ muxer = "ready"
  /\ current_fragment_ = None
  /\ fragment_seq_no_ < MaxFragments
  /\ LET new == [name |-> clock, seq |-> fragment_seq_no_]
     IN  IF free_fragments_ = <<>>
         THEN /\ frag' = Append(frag, new)
              /\ current_fragment_' = Len(frag) + 1
         ELSE /\ frag' = [frag EXCEPT ![Head(free_fragments_)] = new]
              /\ current_fragment_' = Head(free_fragments_)
  /\ fragment_seq_no_' = fragment_seq_no_ + 1
  /\ duration' = 0
  /\ UNCHANGED <<fragments_, free_fragments_, playlist_, muxer, clock, capacity,
                 reader, crashed>>

(* OnPacket without a fragment in hand: GetIdleFragment, reset it, name it *)
(* after the clock, number it, and write the packet.                       *)
StartFragment ==
  /\ ~crashed
  /\ muxer = "ready"
  /\ current_fragment_ = None
  /\ fragment_seq_no_ < MaxFragments
  /\ LET new == [name |-> clock, seq |-> fragment_seq_no_]
     IN  IF free_fragments_ = <<>>
         THEN /\ frag' = Append(frag, new)
              /\ current_fragment_' = Len(frag) + 1
              /\ UNCHANGED free_fragments_
         ELSE /\ frag' = [frag EXCEPT ![Head(free_fragments_)] = new]
              /\ current_fragment_' = Head(free_fragments_)
              /\ free_fragments_' = Tail(free_fragments_)
  /\ fragment_seq_no_' = fragment_seq_no_ + 1
  /\ duration' = 0
  /\ UNCHANGED <<fragments_, playlist_, muxer, clock, capacity, reader, crashed>>

Tick ==
  /\ ~crashed
  /\ clock < MaxClock
  /\ clock' = clock + 1
  /\ UNCHANGED <<frag, fragments_, free_fragments_, current_fragment_, duration,
                 fragment_seq_no_, playlist_, muxer, capacity, reader, crashed>>

-----------------------------------------------------------------------------
(* The readers' threads.                                                   *)

(* GetFragmentByName: the first fragment of that name, under the lock.     *)
(* What it returns is a reference to the slot.                             *)
GetFragmentByName(r) ==
  /\ ~crashed
  /\ reader[r].at = "idle"
  /\ \E i \in DOMAIN fragments_ :
       /\ \A j \in 1..(i - 1) : frag[fragments_[j]].name # frag[fragments_[i]].name
       /\ reader' = [reader EXCEPT ![r] =
            [at |-> "found", name |-> frag[fragments_[i]].name, slot |-> i,
             capacity |-> capacity]]
  /\ UNCHANGED <<frag, fragments_, free_fragments_, current_fragment_, duration,
                 fragment_seq_no_, playlist_, muxer, clock, capacity, crashed>>

(* HLSMuxer::GetFragment copies the pointer the reference refers to.       *)
GetFragment(r) ==
  /\ ~crashed
  /\ reader[r].at = "found"
  /\ reader[r].capacity = capacity
  /\ reader[r].slot \in DOMAIN fragments_
  /\ reader' = [reader EXCEPT ![r] =
       [at |-> "holding", name |-> @.name, object |-> fragments_[@.slot]]]
  /\ UNCHANGED <<frag, fragments_, free_fragments_, current_fragment_, duration,
                 fragment_seq_no_, playlist_, muxer, clock, capacity, crashed>>

(* ... which is undefined when the vector has moved or shrunk since: the   *)
(* process dies or the reader comes back with nothing.                     *)
GetFragmentDangling(r) ==
  /\ ~crashed
  /\ reader[r].at = "found"
  /\ reader[r].capacity # capacity \/ reader[r].slot \notin DOMAIN fragments_
  /\ reader' = [reader EXCEPT ![r] = Idle]
  /\ crashed' \in BOOLEAN
  /\ UNCHANGED <<frag, fragments_, free_fragments_, current_fragment_, duration,
                 fragment_seq_no_, playlist_, muxer, clock, capacity>>

(* The fragment has been sent.                                             *)
Release(r) ==
  /\ ~crashed
  /\ reader[r].at = "holding"
  /\ reader' = [reader EXCEPT ![r] = Idle]
  /\ UNCHANGED <<frag, fragments_, free_fragments_, current_fragment_, duration,
                 fragment_seq_no_, playlist_, muxer, clock, capacity, crashed>>

-----------------------------------------------------------------------------

Muxer ==
  \/ \E key \in BOOLEAN : OnPacket(key) \/ AppendFragment(key)
  \/ Shrink
  \/ UpdatePlayList
  \/ StartFragment

Read(r) ==
  GetFragmentByName(r) \/ GetFragment(r) \/ GetFragmentDangling(r) \/ Release(r)

Next == Muxer \/ Tick \/ \E r \in Readers : Read(r)

Spec == Init /\ [][Next]_vars

-----------------------------------------------------------------------------
(* Properties.                                                             *)

(* An object has one owner: the muxer's hand, one slot of the window, or   *)
(* one place on the free list.  Otherwise the window would list a fragment *)
(* that is being written, or two fragments would share their bytes.  (A    *)
(* player's shared_ptr owns nothing in this sense: the window recycles an  *)
(* object without asking who still holds it.)                              *)
OneOwner ==
  /\ \A i, j \in DOMAIN fragments_ : fragments_[i] = fragments_[j] => i = j
  /\ \A i, j \in DOMAIN free_fragments_ :
       free_fragments_[i] = free_fragments_[j] => i = j
  /\ \A i \in DOMAIN fragments_, j \in DOMAIN free_fragments_ :
       fragments_[i] # free_fragments_[j]
  /\ \A i \in DOMAIN fragments_ : fragments_[i] # current_fragment_
  /\ \A i \in DOMAIN free_fragments_ : free_fragments_[i] # current_fragment_

(* Whatever section of AppendFragment the muxer has reached, every entry   *)
(* of the playlist a player may have fetched now is still in the window.   *)
PlaylistIsServable ==
  \A e \in DOMAIN playlist_ :
    \E i \in DOMAIN fragments_ : frag[fragments_[i]] = playlist_[e]

(* A sealed fragment never changes while it is in the window, whatever is  *)
(* cut, evicted or recycled beside it.  Only so long: one that is evicted  *)
(* while a player is still being sent it is reset and written anew under   *)
(* that player, and nothing is promised of it (see the README).            *)
SealedFragmentsStay ==
  [][ \A i \in DOMAIN fragments_, j \in DOMAIN fragments_' :
        fragments_[i] = fragments_'[j] =>
          frag'[fragments_[i]] = frag[fragments_[i]] ]_vars

(* The window implements the promise HlsStream states.                     *)
Oldest == IF fragments_ = <<>> THEN 0 ELSE frag[fragments_[1]].seq
From == IF playlist_ = <<>> THEN 0 ELSE playlist_[1].seq
Stream == INSTANCE HlsStream
            WITH Length <- PlaylistLength, Least <- PlaylistLeast,
                 oldest <- Oldest, next <- Oldest + Len(fragments_),
                 from <- From, to <- From + Len(playlist_)
ImplementsStream == Stream!Spec

=============================================================================
