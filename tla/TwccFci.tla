------------------------------ MODULE TwccFci -------------------------------
(***************************************************************************)
(* A TWCC feedback message as bytes: FCI_TWCC::create of librtcp writes    *)
(* what the receiver collected, rtcp::TransportFeedback::Parse of rtp_rtcp *)
(* reads it at the sender.  A byte has ByteBits bits (8 in the code), from *)
(* which every other width follows as it does in the code, so that a small *)
(* byte brings each limit of the format within a few packets.              *)
(*                                                                         *)
(* Times are in the format's unit, 250 us.                                 *)
(***************************************************************************)
EXTENDS Integers, Sequences, FiniteSetsExt, SequencesExt

CONSTANTS
  ByteBits,     \* bits of a byte
  LinuxLayout   \* the bit-fields of the chunks as their #if __linux__ declares them

ASSUME FciAssumption == ByteBits \in Nat /\ ByteBits >= 3 /\ LinuxLayout \in BOOLEAN

Byte == 2^ByteBits
VecBits == 2 * ByteBits - 2          \* 14: the symbol list of a status vector chunk
RunBits == 2 * ByteBits - 3          \* 13: the length of a run length chunk
MaxRun == 2^RunBits - 1
MinRun == VecBits \div 2             \* 7
RefTimes == Byte^3                   \* ref_time is three bytes
DeltaRange == Byte^2                 \* a large delta is an int16_t

NotReceived == 0
SmallDelta == 1
LargeDelta == 2

(* A number cast to the signed type with m values.                         *)
Signed(x, m) == ((x + m \div 2) % m) - m \div 2

Sum(s) == MapThenSumSet(LAMBDA k : s[k], DOMAIN s)
Smaller(a, b) == IF a < b THEN a ELSE b

-----------------------------------------------------------------------------
(* FCI_TWCC::create.  A status is [symbol, delta].                         *)

(* The length of the run of equal symbols at the head of s.                *)
RunAtHead(s) ==
  Max({n \in 1..Smaller(Len(s), MaxRun) : \A k \in 1..n : s[k] = s[1]})

RunLengthChunk(symbol, n) ==
  LET high == n \div Byte
  IN  << IF LinuxLayout THEN 2 * symbol + 8 * high
                        ELSE 2^(ByteBits - 3) * symbol + high,
         n % Byte >>

(* Symbols are collected until the chunk is full, counting two bits for    *)
(* each as soon as one of them is a large delta.                           *)
VectorAtHead(s) ==
  LET Bit(n) == IF \E k \in 1..n : s[k] = LargeDelta THEN 1 ELSE 0
      n == Min({k \in DOMAIN s : k * 2^Bit(k) >= VecBits} \cup {Len(s)})
  IN  [bit |-> Bit(n), list |-> SubSeq(s, 1, Smaller(n, VecBits \div 2^Bit(n)))]

StatusVecChunk(v) ==
  LET value == Sum([k \in DOMAIN v.list |-> v.list[k] * 2^(VecBits - k * (v.bit + 1))])
      high == value \div Byte
  IN  << IF LinuxLayout THEN 1 + 2 * v.bit + 4 * high
                        ELSE 2^(ByteBits - 1) + 2^(ByteBits - 2) * v.bit + high,
         value % Byte >>

Chunks(s) ==
  LET from[i \in 1..(Len(s) + 1)] ==
        IF i > Len(s) THEN <<>>
        ELSE LET rest == SubSeq(s, i, Len(s))
                 run == RunAtHead(rest)
                 vector == VectorAtHead(rest)
             IN  IF run >= MinRun
                 THEN RunLengthChunk(s[i], run) \o from[i + run]
                 ELSE StatusVecChunk(vector) \o from[i + Len(vector.list)]
  IN  from[1]

(* Mutant of DeltaBytes: the low byte of a large delta comes first.        *)
DeltaBytesLowFirst(status) ==
  CASE status.symbol = NotReceived -> <<>>
    [] status.symbol = SmallDelta  -> <<status.delta>>
    [] status.symbol = LargeDelta  ->
         <<status.delta % Byte, (status.delta % DeltaRange) \div Byte>>

(* appendDeltaString: the high byte of a large delta, then the low one.    *)
DeltaBytes(status) ==
  CASE status.symbol = NotReceived -> <<>>
    [] status.symbol = SmallDelta  -> <<status.delta>>
    [] status.symbol = LargeDelta  ->
         <<(status.delta % DeltaRange) \div Byte, status.delta % Byte>>

Create(base_seq, ref_time, status) ==
  [base_seq |-> base_seq, count |-> Len(status), ref_time |-> ref_time % RefTimes,
   bytes |-> Chunks([k \in DOMAIN status |-> status[k].symbol])
               \o FlattenSeq([k \in DOMAIN status |-> DeltaBytes(status[k])])]

-----------------------------------------------------------------------------
(* TransportFeedback::Parse.                                               *)

(* LastChunk::Decode and AppendTo: at most max sizes of deltas.            *)
Decode(chunk, max) ==
  CASE chunk < 2^(VecBits + 1) ->
         [k \in 1..Smaller(chunk % 2^RunBits, max) |-> (chunk \div 2^RunBits) % 4]
    [] chunk >= 2^(VecBits + 1) /\ (chunk \div 2^VecBits) % 2 = 0 ->
         [k \in 1..Smaller(VecBits, max) |-> (chunk \div 2^(VecBits - k)) % 2]
    [] chunk >= 2^(VecBits + 1) /\ (chunk \div 2^VecBits) % 2 = 1 ->
         [k \in 1..Smaller(MinRun, max) |-> (chunk \div 2^(VecBits - 2 * k)) % 4]

(* The base time is three bytes, read as a signed number.                  *)
BaseTime(fci) == Signed(fci.ref_time, RefTimes) * Byte

(* The packets of a message: whether each was received, and when, as its   *)
(* distance from the one before.  None if the message is refused: the      *)
(* chunks run over its end, or a size is none of the three.                *)
ParsePackets(fci) ==
  LET bytes == fci.bytes
      chunks == Len(bytes) \div 2
      sizes[n \in 0..chunks] ==     \* after n chunks
        IF n = 0 THEN <<>>
        ELSE IF Len(sizes[n - 1]) >= fci.count THEN sizes[n - 1]
        ELSE sizes[n - 1] \o Decode(bytes[2 * n - 1] * Byte + bytes[2 * n],
                                    fci.count - Len(sizes[n - 1]))
      all == sizes[chunks]
      read == Min({n \in 0..chunks : Len(sizes[n]) = Len(all)})
      At(k) == 2 * read + Sum(SubSeq(all, 1, k - 1))     \* before the k-th delta
      timed == Len(bytes) >= 2 * read + Sum(all)
      Delta(k) ==
        IF ~timed \/ all[k] = 0 THEN 0
        ELSE IF all[k] = 1 THEN bytes[At(k) + 1]
        ELSE Signed(bytes[At(k) + 1] * Byte + bytes[At(k) + 2], DeltaRange)
  IN  IF Len(all) < fci.count \/ (timed /\ \E k \in DOMAIN all : all[k] = 3) THEN <<>>
      ELSE [k \in DOMAIN all |-> [received |-> all[k] > 0, delta |-> Delta(k)]]

Parse(fci) ==
  [base_seq |-> fci.base_seq, base_time |-> BaseTime(fci), packets |-> ParsePackets(fci)]

(* GetBaseDeltaUs: the base times wrap.                                    *)
BaseDelta(feedback, last) == Signed(feedback.base_time - last, RefTimes * Byte)
=============================================================================
