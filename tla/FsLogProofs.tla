---------------------------- MODULE FsLogProofs ----------------------------
(***************************************************************************)
(* Proofs about one log, and about the session of the 101 master that      *)
(* reads it while it is written, for every number of blocks, block size,   *)
(* capacity and word size, with the power failing at any point.  The       *)
(* inductive invariant grows in parts, each on top of the one before:      *)
(* IInv (the flash calls), RingInv (the order of the blocks), StoreInv     *)
(* (the units in them); CountInv (how many are readable), and for the      *)
(* session CopyInv (what it sends and has sent) and OrderInv.              *)
(***************************************************************************)
EXTENDS FileRead, FiniteSetTheorems, SequenceTheorems, TLAPS

-----------------------------------------------------------------------------
(* Arithmetic of slots: slot b*U+k is the k-th of block b. *)

\* Dividing a slot number by the block size gives back its block and offset.
LEMMA DivMod ==
    ASSUME NEW u \in Nat \ {0}, NEW b \in Nat, NEW k \in 0 .. u - 1
    PROVE  (b * u + k) \div u = b /\ (b * u + k) % u = k
BY SMT

\* A slot of the region lies in a block of the region, below the block size.
LEMMA DivType ==
    ASSUME NEW u \in Nat \ {0}, NEW n \in Nat, NEW i \in 0 .. n * u - 1
    PROVE  /\ i \div u \in 0 .. n - 1
           /\ i % u \in 0 .. u - 1
           /\ i = (i \div u) * u + (i % u)
BY SMT

\* A block of the region ends within the region.
LEMMA BlockEnd ==
    ASSUME NEW u \in Nat \ {0}, NEW n \in Nat, NEW b \in 0 .. n - 1
    PROVE  b * u \in Nat /\ n * u \in Nat /\ b * u + u <= n * u
BY SMT

\* The same three facts about the operators of the specification.
LEMMA SlotFacts ==
    /\ B \in Nat \ {0} /\ U \in Nat \ {0} /\ M \in Nat /\ U <= M /\ M < W
    /\ W \in Nat /\ 2 * M < W /\ C \in Nat \ {0} /\ C <= M
    /\ \A s \in Slots : /\ BlockOf(s) \in Blocks /\ OffsetOf(s) \in 0 .. U - 1
                        /\ s = BlockOf(s) * U + OffsetOf(s)
    /\ \A b \in Blocks, k \in 0 .. U - 1 :
           /\ b * U + k \in Slots
           /\ BlockOf(b * U + k) = b /\ OffsetOf(b * U + k) = k
<1>1. B \in Nat \ {0} /\ U \in Nat \ {0} /\ C \in Nat \ {0}
  BY SizeAssumption
<1>2. 0 \in Blocks
  BY <1>1 DEF Blocks
<1>3. M \in Nat /\ U <= M
  BY <1>1, <1>2, BlockEnd DEF M, Blocks
<1>4. W \in Nat /\ 2 * M < W /\ M < W
  BY <1>3, WordAssumption
<1>5. C <= M
  BY <1>1, <1>3, SizeAssumption
<1>6. ASSUME NEW s \in Slots
      PROVE  /\ BlockOf(s) \in Blocks /\ OffsetOf(s) \in 0 .. U - 1
             /\ s = BlockOf(s) * U + OffsetOf(s)
  BY <1>1, DivType DEF Slots, M, Blocks, BlockOf, OffsetOf
<1>7. ASSUME NEW b \in Blocks, NEW k \in 0 .. U - 1
      PROVE  /\ b * U + k \in Slots
             /\ BlockOf(b * U + k) = b /\ OffsetOf(b * U + k) = k
  <2>1. b \in Nat
    BY <1>1 DEF Blocks
  <2>2. BlockOf(b * U + k) = b /\ OffsetOf(b * U + k) = k
    BY <1>1, <2>1, DivMod DEF BlockOf, OffsetOf
  <2>3. b * U \in Nat /\ b * U + U <= M
    BY <1>1, BlockEnd DEF Blocks, M
  <2> QED BY <1>1, <1>3, <2>2, <2>3 DEF Slots
<1> QED BY <1>1, <1>3, <1>4, <1>5, <1>6, <1>7

-----------------------------------------------------------------------------
(* The scan of the headers. *)

\* A non-empty set of numbers has a least element: the scan stops somewhere.
LEMMA LeastNumber ==
    ASSUME NEW S \in SUBSET Nat, S # {}
    PROVE  \E n \in S : \A m \in S : n <= m
<1> DEFINE F == {0 .. x : x \in S}
<1>1. F \subseteq FiniteSubsetsOf(Nat)
  <2>1. \A x \in S : 0 .. x \in SUBSET Nat /\ IsFiniteSet(0 .. x)
    BY FS_Interval
  <2> QED BY <2>1 DEF FiniteSubsetsOf
<1>2. IsWellFoundedOn(StrictSubsetOrdering(Nat), FiniteSubsetsOf(Nat))
  BY FS_StrictSubsetOrderingWellFounded
<1>3. PICK T \in F : \A V \in F : <<V, T>> \notin StrictSubsetOrdering(Nat)
  <2> HIDE DEF F
  <2>1. F # {}
    BY DEF F
  <2> QED BY <1>1, <1>2, <2>1, WFMin
<1>4. PICK n \in S : T = 0 .. n
  BY <1>3
<1>5. ASSUME NEW m \in S, m < n PROVE FALSE
  <2>1. 0 .. m \in F /\ 0 .. m \in SUBSET Nat /\ 0 .. n \in SUBSET Nat
    OBVIOUS
  <2>2. 0 .. m \subseteq 0 .. n /\ n \in 0 .. n /\ n \notin 0 .. m
    BY <1>5
  <2>3. <<0 .. m, 0 .. n>> \in StrictSubsetOrdering(Nat)
    BY <2>1, <2>2 DEF StrictSubsetOrdering
  <2> QED BY <1>3, <1>4, <2>1, <2>3
<1> QED BY <1>5

\* Unless every block is FULL, the scan stops at a block that is not, and
\* every block before it is FULL.
LEMMA ScanStopFacts ==
    ASSUME ~AllFull
    PROVE  /\ ScanStop \in Blocks /\ ~IsFull(ScanStop)
           /\ \A a \in Blocks : a < ScanStop => IsFull(a)
<1> DEFINE S == {b \in Blocks : ~IsFull(b)}
<1>1. S # {} /\ S \in SUBSET Nat
  BY SlotFacts DEF AllFull, Blocks
<1>2. PICK n \in S : \A m \in S : n <= m
  <2> HIDE DEF S
  <2> QED BY <1>1, LeastNumber
<1>3. \E b \in Blocks : ~IsFull(b) /\ \A a \in Blocks : a < b => IsFull(a)
  BY <1>2, SlotFacts DEF Blocks
<1>4. \A b \in Blocks : b \in Nat
  BY SlotFacts DEF Blocks
<1> QED BY <1>3 DEF ScanStop

-----------------------------------------------------------------------------
(* The inductive invariant.                                                *)

\* A block that is not FULL counts fewer units than it has slots, so that the
\* slot after the counted ones is in the same block.
PartialBlocks == \A b \in Blocks : hdr[b].flag # FULL => hdr[b].cnt < U

\* The write pointer names the first uncounted slot of its block, between
\* operations and while a unit waits to be counted.
PointerAtCount ==
    pc \in {"idle", "counter"} => hdr[BlockOf(indexLast)].cnt = OffsetOf(indexLast)

\* A block entered by the write pointer is entered at its first slot.
EntersAtStart == pc \in {"nextErase", "nextHeader"} => OffsetOf(indexLast) = 0

\* A block whose header is about to be written has just been erased, and a
\* Clear that has passed block 0 has left it empty.
ErasedBeforeHeader ==
    /\ pc = "nextHeader" => hdr[BlockOf(indexLast)] = ErasedHeader
    /\ pc \in {"openHeader", "clearHeader"} => hdr[blk] = ErasedHeader
    /\ pc \in {"clearErase", "clearHeader"} /\ blk # 0 => hdr[0].cnt = 0

\* The unit about to be counted is in its slot.
UnitBeforeCounter == pc = "counter" => slot[indexLast] # {}

IInv ==
    /\ TypeOK
    /\ PartialBlocks
    /\ PointerAtCount
    /\ EntersAtStart
    /\ ErasedBeforeHeader
    /\ UnitBeforeCounter
    /\ CountedAreProgrammed

-----------------------------------------------------------------------------
(* What the helpers return. *)

LEMMA WrapType ==
    ASSUME NEW i \in Nat, i < 2 * M PROVE Wrap(i) \in Slots
BY SlotFacts DEF Wrap, Slots

LEMMA ZeroTypes == /\ 0 \in Slots /\ 0 \in Words /\ 0 \in Blocks /\ Ones \in Words
                   /\ BlockOf(0) = 0 /\ OffsetOf(0) = 0
                   /\ C \in Words
                   /\ \A s \in Slots : s \in Nat /\ s < M /\ s \in Words
                   /\ \A b \in Blocks : b \in Nat /\ b < B /\ b * U \in Slots
<1>1. 0 \in Slots /\ 0 \in Words /\ 0 \in Blocks /\ Ones \in Words
  BY SlotFacts DEF Slots, Words, Blocks, Ones
<1>2. 0 * U + 0 = 0 /\ 0 \in 0 .. U - 1
  BY SlotFacts
<1>3. BlockOf(0) = 0 /\ OffsetOf(0) = 0
  BY <1>1, <1>2, SlotFacts
<1>4. C \in Words
  BY SlotFacts DEF Words
<1>5. \A s \in Slots : s \in Nat /\ s < M /\ s \in Words
  BY SlotFacts DEF Slots, Words
<1>6. ASSUME NEW b \in Blocks PROVE b \in Nat /\ b < B /\ b * U \in Slots
  <2>1. b \in Nat /\ b < B
    BY SlotFacts DEF Blocks
  <2>2. b * U + 0 \in Slots /\ b * U \in Nat
    BY <1>2, <2>1, SlotFacts
  <2> QED BY <2>1, <2>2
<1> QED BY <1>1, <1>3, <1>4, <1>5, <1>6

\* The write pointer's successor: the next slot of the block, or the first slot
\* of the next block of the ring.
LEMMA NextSlot ==
    ASSUME NEW i \in Slots
    PROVE  /\ OffsetOf(i) # U - 1 =>
                 /\ OffsetOf(i + 1) = OffsetOf(i) + 1 /\ Wrap(i + 1) = i + 1
                 /\ BlockOf(i + 1) = BlockOf(i)
           /\ OffsetOf(i) = U - 1 =>
                 OffsetOf(i + 1) = 0 /\ OffsetOf(Wrap(i + 1)) = 0
           /\ Wrap(i + 1) \in Slots
<1> DEFINE b == BlockOf(i)
           k == OffsetOf(i)
<1>1. b \in Blocks /\ k \in 0 .. U - 1 /\ i = b * U + k /\ b \in Nat /\ i \in Nat /\ i < M
  BY SlotFacts, ZeroTypes
<1>2. CASE k # U - 1
  <2>1. k + 1 \in 0 .. U - 1
    BY <1>1, <1>2, SlotFacts
  <2>2. b * U \in Nat /\ i + 1 = b * U + (k + 1)
    BY <1>1, SlotFacts
  <2>3. b * U + (k + 1) \in Slots /\ BlockOf(b * U + (k + 1)) = b
        /\ OffsetOf(b * U + (k + 1)) = k + 1
    BY <1>1, <2>1, SlotFacts
  <2>4. i + 1 \in Slots /\ BlockOf(i + 1) = b /\ OffsetOf(i + 1) = k + 1
    BY <2>2, <2>3
  <2>5. Wrap(i + 1) = i + 1
    BY <2>4, ZeroTypes, SlotFacts DEF Wrap
  <2> QED BY <1>2, <2>4, <2>5
<1>3. CASE k = U - 1
  <2>1. i + 1 = (b + 1) * U + 0
    BY <1>1, <1>3, SlotFacts
  <2> b + 1 \in Nat /\ 0 \in 0 .. U - 1 /\ U \in Nat \ {0}
    BY <1>1, SlotFacts
  <2> HIDE DEF b
  <2>2. ((b + 1) * U + 0) % U = 0
    BY DivMod
  <2>3. OffsetOf(i + 1) = 0
    BY <2>1, <2>2 DEF OffsetOf
  <2>4. OffsetOf(Wrap(i + 1)) = 0
    <3>1. CASE i + 1 >= M
      <4>1. i + 1 - M = 0
        BY <1>1, <3>1, SlotFacts
      <4>2. Wrap(i + 1) = 0
        BY <1>1, <3>1, <4>1, SlotFacts DEF Wrap
      <4> QED BY <4>2, ZeroTypes
    <3>2. CASE ~(i + 1 >= M)
      <4>1. Wrap(i + 1) = i + 1
        BY <3>2 DEF Wrap
      <4> QED BY <2>3, <4>1
    <3> QED BY <3>1, <3>2
  <2>5. Wrap(i + 1) \in Slots
    BY <1>1, WrapType, SlotFacts
  <2> QED BY <1>3, <2>3, <2>4, <2>5
<1> QED BY <1>2, <1>3

\* A programmed header is a header; its flag is no higher, and no FULL block
\* becomes partial.
LEMMA ProgrammedType ==
    ASSUME NEW h \in Header, NEW f \in Flags, NEW p \in Words, NEW n \in 0 .. U
    PROVE  /\ Programmed(h, f, p, n) \in Header
           /\ Programmed(h, f, p, n).flag = Lower(h.flag, f)
           /\ Programmed(h, f, p, n).cnt = Higher(h.cnt, n)
           /\ h.flag # FULL /\ f # FULL => Programmed(h, f, p, n).flag # FULL
           /\ h.flag = FULL \/ f = FULL => Programmed(h, f, p, n).flag = FULL
<1>1. h.flag \in Flags /\ h.pid \in Words /\ h.cnt \in 0 .. U /\ h.sig \in BOOLEAN
  BY DEF Header
<1>2. Lower(h.flag, f) \in Flags
  BY <1>1 DEF Lower, Flags
<1>3. Higher(h.cnt, n) \in 0 .. U
  BY <1>1 DEF Higher
<1>4. WordAnd(h.pid, p) \in Words
  BY <1>1, AndAssumption
<1>5. Programmed(h, f, p, n) \in Header
  BY <1>2, <1>3, <1>4 DEF Programmed, Header
<1>6. /\ Programmed(h, f, p, n).flag = Lower(h.flag, f)
      /\ Programmed(h, f, p, n).cnt = Higher(h.cnt, n)
  BY DEF Programmed
<1>7. /\ h.flag # FULL /\ f # FULL => Lower(h.flag, f) # FULL
      /\ h.flag = FULL \/ f = FULL => Lower(h.flag, f) = FULL
  BY <1>1 DEF Lower, Flags, FULL, FILLING, EMPTY
<1> QED BY <1>5, <1>6, <1>7

\* Erasing a block keeps the types, empties its slots and its header, and
\* leaves every other block alone.
LEMMA EraseBlockFacts ==
    ASSUME TypeOK, NEW b \in Blocks, EraseBlock(b)
    PROVE  /\ hdr' \in [Blocks -> Header] /\ slot' \in [Slots -> SUBSET Nat]
           /\ hdr'[b] = ErasedHeader
           /\ \A a \in Blocks : a # b => hdr'[a] = hdr[a]
           /\ \A s \in Slots : BlockOf(s) # b => slot'[s] = slot[s]
           /\ \A s \in Slots : BlockOf(s) = b => slot'[s] = {}
<1>1. ErasedHeader \in Header
  BY ZeroTypes, SlotFacts DEF ErasedHeader, Header, Flags
<1> QED BY <1>1 DEF EraseBlock, TypeOK

\* Erasing keeps the parts of the invariant that speak of all blocks.
LEMMA EraseKeeps ==
    ASSUME TypeOK, PartialBlocks, CountedAreProgrammed,
           NEW b \in Blocks, EraseBlock(b)
    PROVE  PartialBlocks' /\ CountedAreProgrammed'
<1>1. ErasedHeader.cnt = 0 /\ 0 < U
  BY SlotFacts DEF ErasedHeader
<1>2. PartialBlocks'
  BY <1>1, EraseBlockFacts DEF PartialBlocks
<1>3. ASSUME NEW s \in Slots, OffsetOf(s) < hdr'[BlockOf(s)].cnt
      PROVE  slot'[s] # {}
  <2>1. BlockOf(s) \in Blocks /\ OffsetOf(s) \in 0 .. U - 1
    BY SlotFacts
  <2>2. BlockOf(s) # b
    BY <1>1, <1>3, <2>1, EraseBlockFacts
  <2>3. hdr'[BlockOf(s)] = hdr[BlockOf(s)] /\ slot'[s] = slot[s]
    BY <2>1, <2>2, EraseBlockFacts
  <2> QED BY <1>3, <2>3 DEF CountedAreProgrammed, Counted
<1> QED BY <1>2, <1>3 DEF CountedAreProgrammed, Counted

\* Writing the header of an erased block that counts nothing keeps them too.
LEMMA ZeroHeaderKeeps ==
    ASSUME TypeOK, PartialBlocks, CountedAreProgrammed, UNCHANGED slot,
           NEW b \in Blocks, NEW f \in {EMPTY, FILLING}, NEW p \in Words,
           hdr[b] = ErasedHeader, ProgramHeader(b, f, p, 0)
    PROVE  /\ hdr' \in [Blocks -> Header]
           /\ hdr'[b].cnt = 0 /\ hdr'[b].sig /\ hdr'[b].flag = f
           /\ \A a \in Blocks : a # b => hdr'[a] = hdr[a]
           /\ PartialBlocks' /\ CountedAreProgrammed'
<1>1. ErasedHeader.cnt = 0 /\ 0 < U /\ ErasedHeader.flag = EMPTY /\ 0 \in 0 .. U
  BY SlotFacts DEF ErasedHeader
<1>2. f \in Flags /\ f # FULL /\ EMPTY # FULL /\ hdr[b] \in Header
  BY DEF Flags, EMPTY, FULL, FILLING, TypeOK
<1>3. /\ hdr' \in [Blocks -> Header]
      /\ hdr'[b] = Programmed(hdr[b], f, p, 0)
      /\ \A a \in Blocks : a # b => hdr'[a] = hdr[a]
  BY <1>1, <1>2, ProgrammedType DEF ProgramHeader, TypeOK
<1>4. hdr'[b].cnt = 0 /\ hdr'[b].sig /\ hdr'[b].flag = f
  BY <1>1, <1>3 DEF Programmed, Higher, Lower, EMPTY, FILLING
<1>5. PartialBlocks'
  BY <1>1, <1>3, <1>4 DEF PartialBlocks
<1>6. ASSUME NEW s \in Slots, OffsetOf(s) < hdr'[BlockOf(s)].cnt
      PROVE  slot[s] # {}
  <2>1. BlockOf(s) \in Blocks /\ OffsetOf(s) \in 0 .. U - 1
    BY SlotFacts
  <2>2. hdr'[BlockOf(s)] = hdr[BlockOf(s)]
    BY <1>3, <1>4, <1>6, <2>1
  <2> QED BY <1>6, <2>2 DEF CountedAreProgrammed, Counted
<1> QED BY <1>3, <1>4, <1>5, <1>6 DEF CountedAreProgrammed, Counted
-----------------------------------------------------------------------------
(* Every step preserves the invariant: FSLOG_Open. *)

\* Arithmetic modulo the word size stays within a word.
LEMMA ModWord == ASSUME NEW i \in Nat PROVE i % W \in Words
BY SlotFacts DEF Words

\* What the scan computes lies in the region.
LEMMA ScanTypes ==
    ASSUME TypeOK, PartialBlocks, ~AllFull,
           hdr[ScanStop].sig, hdr[ScanStop].flag = FILLING
    PROVE  /\ ScanStop \in Blocks /\ hdr[ScanStop].cnt \in 0 .. U - 1
           /\ ScanLast \in Slots /\ ScanFirst \in Slots
           /\ ScanNumber \in Nat /\ ScanNumber <= M
           /\ BlockOf(ScanLast) = ScanStop /\ OffsetOf(ScanLast) = hdr[ScanStop].cnt
           /\ hdr[ScanStop].pid \in Words
<1>1. ScanStop \in Blocks
  BY ScanStopFacts
<1>2. hdr[ScanStop] \in Header /\ FILLING # FULL
  BY <1>1 DEF TypeOK, FILLING, FULL
<1>3. hdr[ScanStop].cnt \in 0 .. U - 1 /\ hdr[ScanStop].pid \in Words
  BY <1>1, <1>2, SlotFacts DEF PartialBlocks, Header
<1>4. /\ ScanLast \in Slots /\ BlockOf(ScanLast) = ScanStop
      /\ OffsetOf(ScanLast) = hdr[ScanStop].cnt
  BY <1>1, <1>3, SlotFacts DEF ScanLast
<1>5. ScanFirst \in Slots
  <2>1. ScanWrapped => ScanStop + 1 \in Blocks
    BY <1>1, SlotFacts, ZeroTypes DEF ScanWrapped, Blocks
  <2> QED BY <2>1, ZeroTypes DEF ScanFirst
<1>6. ScanNumber \in Nat /\ ScanNumber <= M
  <2>1. ScanLast \in Nat /\ ScanLast < M
    BY <1>4, ZeroTypes
  <2>2. ScanLast % U \in 0 .. U - 1
    BY <1>4, SlotFacts DEF OffsetOf
  <2>3. U * (B - 1) \in Nat /\ U * (B - 1) + U = M
    BY SlotFacts DEF M
  <2>4. (ScanLast % U) + U * (B - 1) \in Nat /\ (ScanLast % U) + U * (B - 1) <= M
    BY <2>2, <2>3, SlotFacts
  <2> QED BY <2>1, <2>4, SlotFacts DEF ScanNumber
<1> QED BY <1>1, <1>3, <1>4, <1>5, <1>6

\* FSLOG_Open leaves RAM pointers within the region.
LEMMA OpenedTypes ==
    ASSUME TypeOK, NEW first \in Slots, NEW last \in Slots,
           NEW number \in Nat, number <= M, NEW pid \in Words,
           Opened(first, last, number, pid)
    PROVE  /\ indexFirst' \in Slots /\ indexLast' = last /\ indexRead' \in Slots
           /\ unitNumber' \in Words /\ pointerId' \in Words
           /\ formatedSize' \in Words /\ pc' = "idle" /\ fresh' \in BOOLEAN
           /\ issued' \in 0 .. MaxUnits /\ clearedAt' \in Nat
           /\ torn' \in BOOLEAN /\ spoiled' \in BOOLEAN
<1>1. first \in Nat /\ first < M
  BY ZeroTypes
<1>2. indexRead' \in Slots
  <2>1. CASE number > C
    <3>1. first + (number - C) \in Nat /\ first + (number - C) < 2 * M
      BY <1>1, <2>1, SlotFacts
    <3> QED BY <2>1, <3>1, WrapType DEF Opened
  <2>2. CASE ~(number > C)
    BY <2>2 DEF Opened
  <2> QED BY <2>1, <2>2
<1>3. Lower(number, C) \in Nat /\ Lower(number, C) <= M
  BY SlotFacts DEF Lower
<1>4. unitNumber' \in Words
  BY <1>3, SlotFacts DEF Opened, Words
<1>5. HeaderLen + Lower(number, C) \in Nat
  BY <1>3, BoundAssumption
<1>6. formatedSize' \in Words
  BY <1>5, ModWord, ZeroTypes DEF Opened
<1> QED BY <1>2, <1>4, <1>6 DEF Opened, TypeOK

LEMMA OpenResumeInv ==
    ASSUME IInv, OpenResume
    PROVE  IInv'
<1>1. TypeOK /\ PartialBlocks
  BY DEF IInv
<1>2. /\ ~AllFull /\ hdr[ScanStop].sig /\ hdr[ScanStop].flag = FILLING
      /\ Opened(ScanFirst, ScanLast, ScanNumber, hdr[ScanStop].pid)
      /\ UNCHANGED <<hdr, slot, blk>> /\ pc' = "idle"
  BY DEF OpenResume, flash, Opened
<1>3. TypeOK'
  BY <1>1, <1>2, ScanTypes, OpenedTypes DEF TypeOK, PcStates
<1>4. PointerAtCount'
  BY <1>1, <1>2, ScanTypes, OpenedTypes DEF PointerAtCount, BlockOf, OffsetOf
<1>5. EntersAtStart' /\ ErasedBeforeHeader' /\ UnitBeforeCounter'
  BY <1>2 DEF EntersAtStart, ErasedBeforeHeader, UnitBeforeCounter
<1>6. PartialBlocks' /\ CountedAreProgrammed'
  BY <1>2 DEF IInv, PartialBlocks, CountedAreProgrammed, Counted
<1> QED BY <1>3, <1>4, <1>5, <1>6 DEF IInv

LEMMA OpenRepairInv ==
    ASSUME IInv, OpenRepair
    PROVE  IInv'
<1>1. TypeOK /\ PartialBlocks /\ CountedAreProgrammed
  BY DEF IInv
<1>2. /\ EraseBlock(ScanStop) /\ blk' = ScanStop /\ pc' = "openHeader"
      /\ UNCHANGED <<ram, history>> /\ ScanStop \in Blocks
  BY ScanStopFacts DEF OpenRepair
<1>3. TypeOK'
  BY <1>1, <1>2, EraseBlockFacts DEF TypeOK, PcStates, ram, history
<1>4. PartialBlocks' /\ CountedAreProgrammed'
  BY <1>1, <1>2, EraseKeeps
<1>5. ErasedBeforeHeader'
  BY <1>1, <1>2, EraseBlockFacts DEF ErasedBeforeHeader
<1>6. PointerAtCount' /\ EntersAtStart' /\ UnitBeforeCounter'
  BY <1>2 DEF PointerAtCount, EntersAtStart, UnitBeforeCounter
<1> QED BY <1>3, <1>4, <1>5, <1>6 DEF IInv

LEMMA OpenRepairHeaderInv ==
    ASSUME IInv, OpenRepairHeader
    PROVE  IInv'
<1>1. TypeOK /\ PartialBlocks /\ CountedAreProgrammed /\ blk \in Blocks
      /\ hdr[blk] = ErasedHeader /\ pointerId \in Words
  BY DEF IInv, ErasedBeforeHeader, OpenRepairHeader, TypeOK
<1>2. /\ ProgramHeader(blk, FILLING, pointerId, 0)
      /\ Opened(blk * U, blk * U, blk * U, blk * U)
      /\ UNCHANGED <<slot, blk>> /\ pc' = "idle"
  BY DEF OpenRepairHeader, Opened
<1>3. /\ blk * U \in Slots /\ blk * U \in Nat /\ blk * U <= M /\ blk * U \in Words
      /\ BlockOf(blk * U) = blk /\ OffsetOf(blk * U) = 0
  <2>1. blk * U \in Slots
    BY <1>1, ZeroTypes
  <2>2. blk * U \in Nat /\ blk * U < M /\ blk * U \in Words
    BY <2>1, ZeroTypes
  <2>3. blk * U + 0 = blk * U /\ 0 \in 0 .. U - 1
    BY <2>2, SlotFacts
  <2>4. BlockOf(blk * U) = blk /\ OffsetOf(blk * U) = 0
    BY <1>1, <2>3, SlotFacts
  <2> QED BY <2>1, <2>2, <2>4, SlotFacts
<1>4. /\ hdr' \in [Blocks -> Header] /\ hdr'[blk].cnt = 0
      /\ PartialBlocks' /\ CountedAreProgrammed'
  BY <1>1, <1>2, ZeroHeaderKeeps
<1> DEFINE last == blk * U
<1>5. /\ indexFirst' \in Slots /\ indexLast' = last /\ indexRead' \in Slots
      /\ unitNumber' \in Words /\ pointerId' \in Words
      /\ formatedSize' \in Words /\ fresh' \in BOOLEAN
      /\ issued' \in 0 .. MaxUnits /\ clearedAt' \in Nat
      /\ torn' \in BOOLEAN /\ spoiled' \in BOOLEAN
  <2> HIDE DEF last
  <2> last \in Slots /\ last \in Nat /\ last <= M /\ last \in Words
    BY <1>3 DEF last
  <2>1. Opened(last, last, last, last)
    BY <1>2 DEF last
  <2> QED BY <1>1, <2>1, OpenedTypes
<1>6. TypeOK'
  BY <1>1, <1>2, <1>3, <1>4, <1>5 DEF TypeOK, PcStates
<1>7. PointerAtCount'
  BY <1>2, <1>3, <1>4, <1>5 DEF PointerAtCount, BlockOf, OffsetOf
<1>8. EntersAtStart' /\ ErasedBeforeHeader' /\ UnitBeforeCounter'
  BY <1>2 DEF EntersAtStart, ErasedBeforeHeader, UnitBeforeCounter
<1> QED BY <1>4, <1>6, <1>7, <1>8 DEF IInv

LEMMA OpenHangInv ==
    ASSUME IInv, OpenHang
    PROVE  IInv'
<1>1. UNCHANGED <<hdr, slot, ram, blk, history>> /\ pc' = "hung"
  BY DEF OpenHang, flash
<1>2. TypeOK'
  BY <1>1 DEF IInv, TypeOK, ram, history, PcStates
<1>3. /\ PartialBlocks' /\ CountedAreProgrammed' /\ PointerAtCount'
      /\ EntersAtStart' /\ ErasedBeforeHeader' /\ UnitBeforeCounter'
  BY <1>1 DEF IInv, PartialBlocks, CountedAreProgrammed, Counted, PointerAtCount,
              EntersAtStart, ErasedBeforeHeader, UnitBeforeCounter
<1> QED BY <1>2, <1>3 DEF IInv
-----------------------------------------------------------------------------
(* FSLOG_Write *)

LEMMA WriteDataInv ==
    ASSUME IInv, WriteData
    PROVE  IInv'
<1>1. TypeOK /\ PartialBlocks /\ CountedAreProgrammed /\ indexLast \in Slots
  BY DEF IInv, TypeOK
<1>2. /\ slot' = [slot EXCEPT ![indexLast] = @ \cup {issued + 1}]
      /\ issued' = issued + 1 /\ issued < MaxUnits
      /\ formatedSize' = IF unitNumber < C THEN (formatedSize + 1) % W ELSE formatedSize
      /\ pc = "idle" /\ pc' = "counter"
      /\ UNCHANGED <<hdr, indexFirst, indexLast, indexRead, unitNumber, pointerId,
                     blk, clearedAt, torn, spoiled, fresh>>
  BY DEF WriteData
<1>3. issued \in Nat /\ issued' \in 0 .. MaxUnits
  BY <1>1, <1>2, BoundAssumption DEF TypeOK
<1>4. /\ slot' \in [Slots -> SUBSET Nat] /\ slot'[indexLast] # {}
      /\ \A s \in Slots : slot[s] # {} => slot'[s] # {}
  BY <1>1, <1>2, <1>3 DEF TypeOK
<1>5. formatedSize' \in Words
  <2>1. formatedSize \in Words /\ formatedSize + 1 \in Nat
    BY <1>1 DEF TypeOK, Words
  <2> QED BY <1>2, <2>1, ModWord
<1>6. TypeOK'
  BY <1>1, <1>2, <1>3, <1>4, <1>5 DEF TypeOK, PcStates
<1>7. CountedAreProgrammed'
  BY <1>1, <1>2, <1>4 DEF CountedAreProgrammed, Counted
<1>8. PartialBlocks' /\ PointerAtCount'
  BY <1>2 DEF IInv, PartialBlocks, PointerAtCount
<1>9. EntersAtStart' /\ ErasedBeforeHeader' /\ UnitBeforeCounter'
  BY <1>2, <1>4 DEF EntersAtStart, ErasedBeforeHeader, UnitBeforeCounter
<1> QED BY <1>6, <1>7, <1>8, <1>9 DEF IInv

LEMMA WriteCounterInv ==
    ASSUME IInv, WriteCounter
    PROVE  IInv'
<1> DEFINE b == BlockOf(indexLast)
           k == OffsetOf(indexLast)
           num == OffsetOf(indexLast + 1)
           flag == IF num # 0 THEN FILLING ELSE FULL
           cnt == IF num # 0 THEN num ELSE U
<1>1. TypeOK /\ PartialBlocks /\ CountedAreProgrammed /\ indexLast \in Slots
      /\ indexRead \in Slots /\ pointerId \in Words /\ unitNumber \in Words
  BY DEF IInv, TypeOK
<1>2. /\ ProgramHeader(b, flag, pointerId, cnt)
      /\ IF unitNumber < C
         THEN unitNumber' = unitNumber + 1 /\ UNCHANGED indexRead
         ELSE indexRead' = Wrap(indexRead + 1) /\ UNCHANGED unitNumber
      /\ indexLast' = Wrap(indexLast + 1)
      /\ pointerId' = IF num = 0 THEN (pointerId + 1) % W ELSE pointerId
      /\ pc' = IF num = 0 THEN "nextErase" ELSE "idle"
      /\ UNCHANGED <<slot, indexFirst, formatedSize, blk>> /\ UNCHANGED history
      /\ pc = "counter"
  BY DEF WriteCounter, CountUnit
<1>3. /\ b \in Blocks /\ k \in 0 .. U - 1 /\ hdr[b] \in Header
      /\ hdr[b].cnt = k /\ slot[indexLast] # {}
  BY <1>1, <1>2, SlotFacts DEF IInv, PointerAtCount, UnitBeforeCounter, TypeOK
<1>4. /\ k # U - 1 => num = k + 1 /\ BlockOf(indexLast') = b /\ OffsetOf(indexLast') = k + 1
      /\ k = U - 1 => num = 0 /\ OffsetOf(indexLast') = 0
      /\ indexLast' \in Slots
  BY <1>1, <1>2, NextSlot
<1>5. flag \in Flags /\ cnt = k + 1 /\ cnt \in 0 .. U /\ (flag # FULL => cnt < U)
  BY <1>3, <1>4, SlotFacts DEF Flags, FULL, FILLING, EMPTY
<1>6. /\ hdr' \in [Blocks -> Header]
      /\ \A a \in Blocks : a # b => hdr'[a] = hdr[a]
      /\ hdr'[b].cnt = k + 1
      /\ hdr'[b].flag # FULL => flag # FULL
  <2> HIDE DEF flag, cnt, b, k, num
  <2>1. /\ hdr' \in [Blocks -> Header]
        /\ \A a \in Blocks : a # b => hdr'[a] = hdr[a]
        /\ hdr'[b] = Programmed(hdr[b], flag, pointerId, cnt)
    BY <1>1, <1>2, <1>3, <1>5, ProgrammedType DEF ProgramHeader, TypeOK
  <2>2. hdr'[b].cnt = Higher(k, k + 1)
    BY <1>1, <1>3, <1>5, <2>1, ProgrammedType
  <2>3. Higher(k, k + 1) = k + 1
    BY <1>3, SlotFacts DEF Higher
  <2>4. hdr'[b].flag # FULL => flag # FULL
    BY <1>1, <1>3, <1>5, <2>1, ProgrammedType
  <2> QED BY <2>1, <2>2, <2>3, <2>4
<1>7. PartialBlocks'
  BY <1>1, <1>5, <1>6 DEF PartialBlocks
<1>8. PointerAtCount' /\ EntersAtStart'
  <2>1. CASE k # U - 1
    <3>1. pc' = "idle" /\ hdr'[BlockOf(indexLast')].cnt = OffsetOf(indexLast')
      BY <1>2, <1>3, <1>4, <1>6, <2>1, SlotFacts
    <3> QED BY <3>1 DEF PointerAtCount, EntersAtStart, BlockOf, OffsetOf
  <2>2. CASE k = U - 1
    <3>1. pc' = "nextErase" /\ OffsetOf(indexLast') = 0
      BY <1>2, <1>4, <2>2
    <3> QED BY <3>1 DEF PointerAtCount, EntersAtStart, BlockOf, OffsetOf
  <2> QED BY <2>1, <2>2
<1>9. ASSUME NEW s \in Slots, OffsetOf(s) < hdr'[BlockOf(s)].cnt
      PROVE  slot[s] # {}
  <2> HIDE DEF flag, cnt, num
  <2>1. /\ BlockOf(s) \in Blocks /\ OffsetOf(s) \in 0 .. U - 1
        /\ s = BlockOf(s) * U + OffsetOf(s)
    BY SlotFacts
  <2>2. CASE BlockOf(s) # b
    BY <1>1, <1>6, <1>9, <2>1, <2>2 DEF CountedAreProgrammed, Counted
  <2>3. CASE BlockOf(s) = b /\ OffsetOf(s) < k
    BY <1>1, <1>3, <2>3 DEF CountedAreProgrammed, Counted
  <2>4. CASE BlockOf(s) = b /\ OffsetOf(s) = k
    <3>1. indexLast = b * U + k
      BY <1>1, SlotFacts
    <3>2. s = indexLast
      BY <2>1, <2>4, <3>1
    <3> QED BY <1>3, <3>2
  <2> HIDE DEF b, k
  <2> QED BY <1>3, <1>6, <1>9, <2>1, <2>2, <2>3, <2>4
<1>10. CountedAreProgrammed'
  BY <1>2, <1>9 DEF CountedAreProgrammed, Counted
<1>11. TypeOK'
  <2> HIDE DEF flag, cnt, b, k
  <2>1. unitNumber' \in Words /\ indexRead' \in Slots
    <3>1. CASE unitNumber < C
      BY <1>1, <1>2, <3>1, SlotFacts DEF Words
    <3>2. CASE ~(unitNumber < C)
      BY <1>1, <1>2, <3>2, NextSlot
    <3> QED BY <3>1, <3>2
  <2>2. pointerId' \in Words
    <3>1. pointerId + 1 \in Nat
      BY <1>1 DEF Words
    <3> QED BY <1>1, <1>2, <3>1, ModWord
  <2>3. pc' \in PcStates
    BY <1>2 DEF PcStates
  <2> QED BY <1>1, <1>2, <1>4, <1>6, <2>1, <2>2, <2>3 DEF TypeOK, history
<1>12. ErasedBeforeHeader' /\ UnitBeforeCounter'
  BY <1>2 DEF ErasedBeforeHeader, UnitBeforeCounter
<1> QED BY <1>7, <1>8, <1>10, <1>11, <1>12 DEF IInv

LEMMA NextEraseInv ==
    ASSUME IInv, NextErase
    PROVE  IInv'
<1>1. TypeOK /\ PartialBlocks /\ CountedAreProgrammed /\ EntersAtStart
      /\ BlockOf(indexLast) \in Blocks
  BY SlotFacts DEF IInv, TypeOK
<1>2. /\ EraseBlock(BlockOf(indexLast)) /\ pc = "nextErase" /\ pc' = "nextHeader"
      /\ UNCHANGED <<ram, blk, history>> /\ UNCHANGED indexLast
  BY DEF NextErase, ram
<1>3. TypeOK'
  BY <1>1, <1>2, EraseBlockFacts DEF TypeOK, PcStates, ram, history
<1>4. PartialBlocks' /\ CountedAreProgrammed'
  BY <1>1, <1>2, EraseKeeps
<1>5. ErasedBeforeHeader'
  <2>1. hdr'[BlockOf(indexLast)] = ErasedHeader
    BY <1>1, <1>2, EraseBlockFacts
  <2> QED BY <1>2, <2>1 DEF ErasedBeforeHeader
<1>6. PointerAtCount' /\ EntersAtStart' /\ UnitBeforeCounter'
  BY <1>1, <1>2 DEF PointerAtCount, EntersAtStart, UnitBeforeCounter
<1> QED BY <1>3, <1>4, <1>5, <1>6 DEF IInv

LEMMA NextHeaderInv ==
    ASSUME IInv, NextHeader
    PROVE  IInv'
<1>1. /\ TypeOK /\ PartialBlocks /\ CountedAreProgrammed
      /\ BlockOf(indexLast) \in Blocks /\ hdr[BlockOf(indexLast)] = ErasedHeader
      /\ OffsetOf(indexLast) = 0 /\ pointerId \in Words
  BY SlotFacts DEF IInv, TypeOK, NextHeader, ErasedBeforeHeader, EntersAtStart
<1>2. /\ ProgramHeader(BlockOf(indexLast), FILLING, pointerId, 0)
      /\ \/ indexFirst' = Wrap(indexFirst + U) /\ unitNumber' = (unitNumber + W - U) % W
         \/ UNCHANGED <<indexFirst, unitNumber>>
      /\ fresh' \in BOOLEAN /\ pc' = "idle"
      /\ UNCHANGED <<slot, indexLast, indexRead, pointerId, formatedSize,
                     blk, issued, clearedAt, torn, spoiled>>
  BY <1>1 DEF NextHeader, TypeOK
<1>3. /\ hdr' \in [Blocks -> Header] /\ hdr'[BlockOf(indexLast)].cnt = 0
      /\ PartialBlocks' /\ CountedAreProgrammed'
  BY <1>1, <1>2, ZeroHeaderKeeps
<1>4. indexFirst' \in Slots /\ unitNumber' \in Words
  <2> indexFirst \in Nat /\ indexFirst < M
    BY <1>1, ZeroTypes DEF TypeOK
  <2>1. indexFirst + U \in Nat /\ indexFirst + U < 2 * M
    BY SlotFacts
  <2>2. unitNumber + W - U \in Nat
    BY <1>1, SlotFacts DEF TypeOK, Words
  <2> QED BY <1>1, <1>2, <2>1, <2>2, WrapType, ModWord DEF TypeOK
<1>5. TypeOK'
  BY <1>1, <1>2, <1>3, <1>4 DEF TypeOK, PcStates
<1>6. PointerAtCount'
  BY <1>1, <1>2, <1>3 DEF PointerAtCount
<1>7. EntersAtStart' /\ ErasedBeforeHeader' /\ UnitBeforeCounter'
  BY <1>2 DEF EntersAtStart, ErasedBeforeHeader, UnitBeforeCounter
<1> QED BY <1>3, <1>5, <1>6, <1>7 DEF IInv

-----------------------------------------------------------------------------
(* FSLOG_Clear and the environment *)

LEMMA ClearStartInv ==
    ASSUME IInv, ClearStart
    PROVE  IInv'
<1>1. blk' = 0 /\ pc' = "clearErase" /\ UNCHANGED <<hdr, slot, ram, history>>
  BY DEF ClearStart, flash
<1>2. TypeOK'
  BY <1>1, ZeroTypes DEF IInv, TypeOK, ram, history, PcStates
<1>3. /\ PartialBlocks' /\ CountedAreProgrammed' /\ PointerAtCount'
      /\ EntersAtStart' /\ ErasedBeforeHeader' /\ UnitBeforeCounter'
  BY <1>1 DEF IInv, PartialBlocks, CountedAreProgrammed, Counted, PointerAtCount,
              EntersAtStart, ErasedBeforeHeader, UnitBeforeCounter
<1> QED BY <1>2, <1>3 DEF IInv

LEMMA ClearEraseInv ==
    ASSUME IInv, ClearErase
    PROVE  IInv'
<1>1. /\ TypeOK /\ PartialBlocks /\ CountedAreProgrammed /\ blk \in Blocks
      /\ blk # 0 => hdr[0].cnt = 0
  BY DEF IInv, TypeOK, ErasedBeforeHeader, ClearErase
<1>2. /\ EraseBlock(blk) /\ pc' = "clearHeader" /\ UNCHANGED <<ram, blk, history>>
  BY DEF ClearErase
<1>3. TypeOK'
  BY <1>1, <1>2, EraseBlockFacts DEF TypeOK, PcStates, ram, history
<1>4. PartialBlocks' /\ CountedAreProgrammed'
  BY <1>1, <1>2, EraseKeeps
<1>5. ErasedBeforeHeader'
  BY <1>1, <1>2, ZeroTypes, EraseBlockFacts DEF ErasedBeforeHeader
<1>6. PointerAtCount' /\ EntersAtStart' /\ UnitBeforeCounter'
  BY <1>2 DEF PointerAtCount, EntersAtStart, UnitBeforeCounter
<1> QED BY <1>3, <1>4, <1>5, <1>6 DEF IInv

LEMMA ClearHeaderInv ==
    ASSUME IInv, ClearHeader
    PROVE  IInv'
<1>1. /\ TypeOK /\ PartialBlocks /\ CountedAreProgrammed
      /\ blk \in Blocks /\ hdr[blk] = ErasedHeader /\ pointerId \in Words
      /\ blk # 0 => hdr[0].cnt = 0
  BY DEF IInv, TypeOK, ClearHeader, ErasedBeforeHeader
<1>2. PICK f \in {EMPTY, FILLING}, p \in Words : ProgramHeader(blk, f, p, 0)
  BY <1>1, ZeroTypes DEF ClearHeader
<1>3. UNCHANGED slot
  BY DEF ClearHeader
<1>4. /\ hdr' \in [Blocks -> Header]
      /\ PartialBlocks' /\ CountedAreProgrammed' /\ hdr'[0].cnt = 0
  BY <1>1, <1>2, <1>3, ZeroHeaderKeeps, ZeroTypes
<1>5. CASE blk + 1 < B
  <2>1. blk' = blk + 1 /\ pc' = "clearErase" /\ UNCHANGED <<ram, history>>
    BY <1>5 DEF ClearHeader
  <2>2. blk' \in Blocks
    BY <1>1, <1>5, <2>1, SlotFacts DEF Blocks
  <2>3. TypeOK'
    BY <1>1, <1>3, <1>4, <2>1, <2>2 DEF TypeOK, PcStates, ram, history
  <2>4. PointerAtCount' /\ EntersAtStart' /\ ErasedBeforeHeader' /\ UnitBeforeCounter'
    BY <1>4, <2>1 DEF PointerAtCount, EntersAtStart, ErasedBeforeHeader, UnitBeforeCounter
  <2> QED BY <1>4, <2>3, <2>4 DEF IInv
<1>6. CASE ~(blk + 1 < B)
  <2>1. /\ pointerId' = 0 /\ unitNumber' = 0 /\ formatedSize' = 0
        /\ indexFirst' = 0 /\ indexLast' = 0 /\ clearedAt' = issued
        /\ fresh' = FALSE /\ torn' = FALSE /\ spoiled' = FALSE /\ pc' = "idle"
        /\ UNCHANGED <<blk, indexRead, issued>>
    BY <1>6 DEF ClearHeader
  <2> issued \in Nat
    BY <1>1 DEF TypeOK
  <2>2. TypeOK'
    BY <1>1, <1>3, <1>4, <2>1, ZeroTypes DEF TypeOK, PcStates
  <2>3. PointerAtCount' /\ EntersAtStart' /\ ErasedBeforeHeader' /\ UnitBeforeCounter'
    BY <1>4, <2>1, ZeroTypes
       DEF PointerAtCount, EntersAtStart, ErasedBeforeHeader, UnitBeforeCounter
  <2> QED BY <1>4, <2>2, <2>3 DEF IInv
<1> QED BY <1>5, <1>6

LEMMA PowerInv ==
    ASSUME IInv, PowerOff \/ PowerCut
    PROVE  IInv'
<1>1. /\ LoseRam /\ pc' = "off" /\ UNCHANGED <<hdr, slot, blk, issued, clearedAt>>
      /\ torn' \in BOOLEAN /\ spoiled' \in BOOLEAN
  BY DEF IInv, TypeOK, PowerOff, PowerCut, LoseRam, flash
<1>2. /\ indexFirst' = 0 /\ indexLast' = 0 /\ indexRead' = 0
      /\ unitNumber' = 0 /\ pointerId' = 0 /\ formatedSize' = 0 /\ fresh' = FALSE
  BY <1>1 DEF LoseRam
<1>3. TypeOK'
  <2> TypeOK
    BY DEF IInv
  <2> QED BY <1>1, <1>2, ZeroTypes DEF TypeOK, PcStates
<1>4. /\ PartialBlocks' /\ CountedAreProgrammed' /\ PointerAtCount'
      /\ EntersAtStart' /\ ErasedBeforeHeader' /\ UnitBeforeCounter'
  BY <1>1 DEF IInv, PartialBlocks, CountedAreProgrammed, Counted, PointerAtCount,
              EntersAtStart, ErasedBeforeHeader, UnitBeforeCounter
<1> QED BY <1>3, <1>4 DEF IInv

LEMMA StutterInv ==
    ASSUME IInv, UNCHANGED vars
    PROVE  IInv'
BY DEF IInv, vars, ram, history, TypeOK, PartialBlocks, CountedAreProgrammed,
       Counted, PointerAtCount, EntersAtStart, ErasedBeforeHeader, UnitBeforeCounter

-----------------------------------------------------------------------------
(* The invariant holds of every behaviour. *)

\* A new, erased flash satisfies the invariant.
LEMMA InitInv == Init => IInv
<1> SUFFICES ASSUME Init PROVE IInv
  OBVIOUS
<1>1. ErasedHeader \in Header /\ ErasedHeader.cnt = 0 /\ 0 < U
  BY ZeroTypes, SlotFacts DEF ErasedHeader, Header, Flags
<1>2. TypeOK
  <2>1. hdr \in [Blocks -> Header] /\ slot \in [Slots -> SUBSET Nat]
    BY <1>1 DEF Init
  <2>2. issued \in 0 .. MaxUnits /\ clearedAt \in Nat
    BY BoundAssumption DEF Init
  <2> QED BY <2>1, <2>2, ZeroTypes DEF Init, TypeOK, PcStates
<1>3. PartialBlocks
  BY <1>1 DEF Init, PartialBlocks
<1>4. CountedAreProgrammed
  <2>1. \A s \in Slots : BlockOf(s) \in Blocks /\ OffsetOf(s) \in 0 .. U - 1
    BY SlotFacts
  <2> QED BY <1>1, <2>1, SlotFacts DEF Init, CountedAreProgrammed, Counted
<1>5. PointerAtCount /\ EntersAtStart /\ ErasedBeforeHeader /\ UnitBeforeCounter
  BY DEF Init, PointerAtCount, EntersAtStart, ErasedBeforeHeader, UnitBeforeCounter
<1> QED BY <1>2, <1>3, <1>4, <1>5 DEF IInv

\* Every step preserves it.
LEMMA NextInv == IInv /\ [Next]_vars => IInv'
BY OpenResumeInv, OpenRepairInv, OpenRepairHeaderInv, OpenHangInv, WriteDataInv,
   WriteCounterInv, NextEraseInv, NextHeaderInv, ClearStartInv, ClearEraseInv,
   ClearHeaderInv, PowerInv, StutterInv
   DEF Next, Firmware

\* Every behaviour of the log, power cuts included, keeps the inductive invariant.
THEOREM Inductive == Spec => []IInv
BY InitInv, NextInv, PTL DEF Spec

\* The headers, slots and RAM pointers of fsmid_log.cpp keep their types: no
\* pointer ever leaves the region of the log.
THEOREM TypeCorrect == Spec => []TypeOK
<1>1. IInv => TypeOK
  BY DEF IInv
<1> QED BY <1>1, Inductive, PTL

\* FSLOG_Write and FSLOG_Clear order their flash calls so that, wherever the
\* power fails, no header counts a slot that holds no unit.
THEOREM CountedProgrammed == Spec => []CountedAreProgrammed
<1>1. IInv => CountedAreProgrammed
  BY DEF IInv
<1> QED BY <1>1, Inductive, PTL

-----------------------------------------------------------------------------
(***************************************************************************)
(* The order the blocks of a log are in, what a slot may hold, and that an *)
(* open finds the pointers RAM had.                                        *)
(***************************************************************************)

(* The inductive invariant, on top of IInv. *)

FullBefore(c) == \A a \in Blocks : a < c => IsFull(a)
FullAfter(c) == \A a \in Blocks : a > c => IsFull(a)
NoneFullAfter(c) == \A a \in Blocks : a > c => ~IsFull(a)

\* Block c is the one to fill: every block before it is FULL, and those after
\* it are all FULL (the log has wrapped) or none is.  A block without a
\* signature is to be filled only in a log that was never opened.
Ordered(c) ==
    /\ FullBefore(c) /\ ~IsFull(c)
    /\ FullAfter(c) \/ NoneFullAfter(c)
    /\ IF hdr[c].sig THEN hdr[c].flag = FILLING ELSE c = 0 /\ NoneFullAfter(c)

Cur == BlockOf(indexLast)

\* What __fslog_init makes of the block after the one to fill.
FirstOf(c) == IF c + 1 < B /\ IsFull(c + 1) THEN (c + 1) * U ELSE 0

\* The write pointer has entered a block: one never filled, or the oldest.
Entered ==
    /\ FullBefore(Cur)
    /\ \/ Cur # 0 /\ indexFirst = 0 /\ NoneFullAfter(Cur)
       \/ indexFirst = indexLast /\ FullAfter(Cur)

\* Unless the power failed between two blocks they are in order, and RAM agrees.
BlocksInOrder ==
    ~torn =>
        /\ pc # "hung"
        /\ pc = "off" => \E c \in Blocks : Ordered(c)
        /\ pc = "openHeader" => blk = 0 /\ Ordered(0)
        /\ pc \in {"idle", "counter"} =>
               Ordered(Cur) /\ hdr[Cur].sig /\ indexFirst = FirstOf(Cur)
        /\ pc \in {"nextErase", "nextHeader"} => Entered

\* The header of the block being filled has the pointerId of RAM, or nothing
\* counted yet after a Clear.
PointerInHeader ==
    /\ pc \in {"off", "openHeader"} => pointerId = 0
    /\ ~torn /\ pc \in {"idle", "counter"} =>
           \/ hdr[Cur].pid = pointerId
           \/ hdr[Cur].cnt = 0 /\ pointerId = 0

\* A slot that is not counted is erased, but for the unit about to be counted,
\* and no slot holds two units.
UncountedErased ==
    ~torn /\ ~spoiled =>
        \A s \in Slots : s \in Counted \/ slot[s] = {} \/ (pc = "counter" /\ s = indexLast)
OneUnitPerSlot ==
    ~torn /\ ~spoiled => \A s \in Slots : slot[s] = {} \/ \E n \in slot[s] : slot[s] = {n}

\* What a Clear has passed is empty.
Cleared ==
    pc \in {"clearErase", "clearHeader"} =>
        /\ blk # 0 => hdr[0].sig /\ hdr[0].flag = FILLING
        /\ \A a \in Blocks : 0 < a /\ a < blk => ~IsFull(a)
        /\ \A s \in Slots :
               BlockOf(s) < blk \/ (pc = "clearHeader" /\ BlockOf(s) = blk) => slot[s] = {}

RingInv ==
    /\ IInv
    /\ BlocksInOrder
    /\ PointerInHeader
    /\ UncountedErased
    /\ OneUnitPerSlot
    /\ Cleared

-----------------------------------------------------------------------------
(* Geometry of the ring, and the scan. *)

\* The first slot of a block, and the one a block further in the ring.
LEMMA BlockStart ==
    ASSUME NEW b \in Blocks
    PROVE  /\ b * U \in Slots /\ BlockOf(b * U) = b /\ OffsetOf(b * U) = 0
           /\ b # 0 => b * U # 0
           /\ b + 1 < B => b + 1 \in Blocks /\ Wrap(b * U + U) = (b + 1) * U
           /\ ~(b + 1 < B) => Wrap(b * U + U) = 0
<1>1. b \in Nat /\ b < B /\ U \in Nat \ {0} /\ B \in Nat \ {0} /\ 0 \in 0 .. U - 1
  BY SlotFacts DEF Blocks
<1>2. b * U \in Nat /\ b * U + 0 = b * U
  BY <1>1
<1>3. b * U \in Slots /\ BlockOf(b * U) = b /\ OffsetOf(b * U) = 0
  BY <1>1, <1>2, SlotFacts
<1>4. (b + 1) * U = b * U + U
  BY <1>1
<1>5. b # 0 => b * U # 0
  BY <1>1, <1>3, ZeroTypes
<1>6. ASSUME b + 1 < B
      PROVE  b + 1 \in Blocks /\ Wrap(b * U + U) = (b + 1) * U
  <2>1. b + 1 \in Blocks
    BY <1>1, <1>6 DEF Blocks
  <2>2. (b + 1) * U \in Nat /\ (b + 1) * U < M
    BY <2>1, ZeroTypes
  <2> QED BY <1>4, <2>1, <2>2, SlotFacts DEF Wrap
<1>7. ASSUME ~(b + 1 < B)
      PROVE  Wrap(b * U + U) = 0
  <2>1. b + 1 = B
    BY <1>1, <1>7
  <2>2. b * U + U = M
    BY <1>4, <2>1 DEF M
  <2> QED BY <2>2, SlotFacts DEF Wrap
<1> QED BY <1>3, <1>5, <1>6, <1>7

\* After the last slot of a block comes the first of the next block of the ring.
LEMMA RingStep ==
    ASSUME NEW i \in Slots, OffsetOf(i) = U - 1
    PROVE  /\ BlockOf(i) + 1 < B =>
                 /\ Wrap(i + 1) = (BlockOf(i) + 1) * U
                 /\ BlockOf(Wrap(i + 1)) = BlockOf(i) + 1
           /\ ~(BlockOf(i) + 1 < B) => Wrap(i + 1) = 0 /\ BlockOf(Wrap(i + 1)) = 0
<1> DEFINE b == BlockOf(i)
<1>1. b \in Blocks /\ b \in Nat /\ i = b * U + (U - 1) /\ U \in Nat \ {0} /\ b * U \in Nat
  BY SlotFacts, ZeroTypes
<1>2. i + 1 = b * U + U
  BY <1>1
<1> QED BY <1>1, <1>2, BlockStart, ZeroTypes

\* The scan stops at the first block that is not FULL.
LEMMA ScanIs ==
    ASSUME NEW c \in Blocks, FullBefore(c), ~IsFull(c)
    PROVE  ~AllFull /\ ScanStop = c
<1>1. ~AllFull
  BY DEF AllFull
<1>2. /\ ScanStop \in Blocks /\ ~IsFull(ScanStop)
      /\ \A a \in Blocks : a < ScanStop => IsFull(a)
  BY <1>1, ScanStopFacts
<1>3. ScanStop \in Nat /\ c \in Nat
  BY <1>2, ZeroTypes
<1> QED BY <1>1, <1>2, <1>3 DEF FullBefore

-----------------------------------------------------------------------------
(* What the flash calls keep. *)

\* Erasing a block keeps the facts about slots.
LEMMA EraseKeepsSlots ==
    ASSUME TypeOK, NEW b \in Blocks, EraseBlock(b), UNCHANGED <<torn, spoiled>>,
           pc # "counter", UncountedErased, OneUnitPerSlot
    PROVE  UncountedErased' /\ OneUnitPerSlot'
<1>1. ASSUME ~torn, ~spoiled, NEW s \in Slots
      PROVE  /\ s \in Counted' \/ slot'[s] = {}
             /\ slot'[s] = {} \/ \E n \in slot'[s] : slot'[s] = {n}
  <2>1. BlockOf(s) \in Blocks
    BY SlotFacts
  <2>2. CASE BlockOf(s) = b
    BY <2>2, EraseBlockFacts
  <2>3. CASE BlockOf(s) # b
    <3>1. hdr'[BlockOf(s)] = hdr[BlockOf(s)] /\ slot'[s] = slot[s]
      BY <2>1, <2>3, EraseBlockFacts
    <3> QED BY <1>1, <3>1 DEF UncountedErased, OneUnitPerSlot, Counted
  <2> QED BY <2>2, <2>3
<1> QED BY <1>1 DEF UncountedErased, OneUnitPerSlot

\* So does the header of an erased block that counts nothing.
LEMMA ZeroHeaderKeepsSlots ==
    ASSUME IInv, NEW b \in Blocks, NEW f \in {EMPTY, FILLING}, NEW p \in Words,
           hdr[b] = ErasedHeader, ProgramHeader(b, f, p, 0),
           UNCHANGED <<slot, torn, spoiled>>,
           pc # "counter", UncountedErased, OneUnitPerSlot
    PROVE  UncountedErased' /\ OneUnitPerSlot'
<1>1. /\ hdr'[b].cnt = 0
      /\ \A a \in Blocks : a # b => hdr'[a] = hdr[a]
  BY ZeroHeaderKeeps DEF IInv
<1>2. hdr[b].cnt = 0
  BY DEF ErasedHeader
<1>3. ASSUME NEW s \in Slots
      PROVE  s \in Counted' <=> s \in Counted
  <2>1. BlockOf(s) \in Blocks
    BY SlotFacts
  <2> QED BY <1>1, <1>2, <2>1 DEF Counted
<1> QED BY <1>3 DEF UncountedErased, OneUnitPerSlot

-----------------------------------------------------------------------------
(* Every step preserves the invariant: FSLOG_Open. *)

LEMMA OpenResumeRing ==
    ASSUME RingInv, OpenResume
    PROVE  RingInv'
<1>1. IInv /\ IInv' /\ TypeOK /\ PartialBlocks
  BY OpenResumeInv DEF RingInv, IInv
<1>2. /\ pc = "off" /\ ~AllFull /\ hdr[ScanStop].sig /\ hdr[ScanStop].flag = FILLING
      /\ indexFirst' = ScanFirst /\ indexLast' = ScanLast
      /\ pointerId' = hdr[ScanStop].pid /\ pc' = "idle"
      /\ UNCHANGED <<hdr, slot, torn, spoiled>>
  BY DEF OpenResume, Opened, flash
<1>3. ScanStop \in Blocks /\ BlockOf(ScanLast) = ScanStop
  BY <1>1, <1>2, ScanTypes
<1>4. BlocksInOrder'
  <2> SUFFICES ASSUME ~torn PROVE (Ordered(Cur) /\ hdr[Cur].sig /\ indexFirst = FirstOf(Cur))'
    BY <1>2 DEF BlocksInOrder
  <2>1. PICK c \in Blocks : Ordered(c)
    BY <1>2 DEF RingInv, BlocksInOrder
  <2>2. ScanStop = c
    BY <2>1, ScanIs DEF Ordered
  <2>3. Cur' = c
    BY <1>2, <1>3, <2>2 DEF Cur, BlockOf
  <2>4. ScanFirst = FirstOf(c)
    BY <2>2 DEF ScanFirst, ScanWrapped, FirstOf
  <2>5. (Ordered(c) /\ hdr[c].sig)' /\ FirstOf(c)' = FirstOf(c)
    BY <1>2, <2>1, <2>2 DEF Ordered, FirstOf, FullBefore, FullAfter, NoneFullAfter, IsFull
  <2> QED BY <1>2, <2>3, <2>4, <2>5
<1>5. PointerInHeader'
  BY <1>2, <1>3 DEF PointerInHeader, Cur, BlockOf
<1>6. UncountedErased' /\ OneUnitPerSlot'
  BY <1>2 DEF RingInv, UncountedErased, OneUnitPerSlot, Counted
<1>7. Cleared'
  BY <1>2 DEF Cleared
<1> QED BY <1>1, <1>4, <1>5, <1>6, <1>7 DEF RingInv

LEMMA OpenRepairRing ==
    ASSUME RingInv, OpenRepair
    PROVE  RingInv'
<1>1. IInv /\ IInv' /\ TypeOK
  BY OpenRepairInv DEF RingInv, IInv
<1>2. /\ pc = "off" /\ ~AllFull /\ ~hdr[ScanStop].sig
      /\ EraseBlock(ScanStop) /\ blk' = ScanStop /\ pc' = "openHeader"
      /\ UNCHANGED <<ram, history>> /\ UNCHANGED <<pointerId, torn, spoiled>>
  BY DEF OpenRepair, ram, history
<1>3. ScanStop \in Blocks
  BY <1>2, ScanStopFacts
<1>4. BlocksInOrder'
  <2> SUFFICES ASSUME ~torn PROVE blk' = 0 /\ Ordered(0)'
    BY <1>2 DEF BlocksInOrder
  <2>1. PICK c \in Blocks : Ordered(c)
    BY <1>2 DEF RingInv, BlocksInOrder
  <2>2. ScanStop = c
    BY <2>1, ScanIs DEF Ordered
  <2>3. c = 0 /\ NoneFullAfter(0)
    BY <1>2, <2>1, <2>2 DEF Ordered
  <2>4. ~hdr'[0].sig /\ \A a \in Blocks : a # 0 => hdr'[a] = hdr[a]
    BY <1>1, <1>2, <1>3, <2>2, <2>3, EraseBlockFacts DEF ErasedHeader
  <2>5. FullBefore(0)'
    BY ZeroTypes DEF FullBefore
  <2>6. NoneFullAfter(0)'
    BY <2>3, <2>4 DEF NoneFullAfter, IsFull
  <2> QED BY <1>2, <2>2, <2>3, <2>4, <2>5, <2>6 DEF Ordered, IsFull
<1>5. PointerInHeader'
  BY <1>2 DEF RingInv, PointerInHeader
<1>6. UncountedErased' /\ OneUnitPerSlot'
  BY <1>1, <1>2, <1>3, EraseKeepsSlots DEF RingInv
<1>7. Cleared'
  BY <1>2 DEF Cleared
<1> QED BY <1>1, <1>4, <1>5, <1>6, <1>7 DEF RingInv

LEMMA OpenRepairHeaderRing ==
    ASSUME RingInv, OpenRepairHeader
    PROVE  RingInv'
<1>1. IInv /\ IInv' /\ TypeOK /\ PartialBlocks /\ CountedAreProgrammed
  BY OpenRepairHeaderInv DEF RingInv, IInv
<1>2. /\ pc = "openHeader" /\ ProgramHeader(blk, FILLING, pointerId, 0)
      /\ indexFirst' = blk * U /\ indexLast' = blk * U /\ pointerId' = blk * U
      /\ pc' = "idle" /\ UNCHANGED <<slot, torn, spoiled>>
  BY DEF OpenRepairHeader, Opened
<1>3. blk \in Blocks /\ hdr[blk] = ErasedHeader /\ pointerId \in Words
  BY <1>1, <1>2 DEF TypeOK, IInv, ErasedBeforeHeader
<1>4. /\ hdr'[blk].cnt = 0 /\ hdr'[blk].sig /\ hdr'[blk].flag = FILLING
      /\ \A a \in Blocks : a # blk => hdr'[a] = hdr[a]
  BY <1>1, <1>2, <1>3, ZeroHeaderKeeps
<1>5. ASSUME ~torn
      PROVE  /\ indexFirst' = 0 /\ pointerId' = 0 /\ Cur' = 0 /\ blk = 0
             /\ NoneFullAfter(0)
  <2>1. blk = 0 /\ Ordered(0)
    BY <1>2, <1>5 DEF RingInv, BlocksInOrder
  <2>2. NoneFullAfter(0)
    BY <1>3, <2>1 DEF Ordered, ErasedHeader
  <2>3. 0 * U = 0
    BY SlotFacts
  <2> QED BY <1>2, <2>1, <2>2, <2>3, ZeroTypes DEF Cur, BlockOf
<1>6. BlocksInOrder'
  <2> SUFFICES ASSUME ~torn PROVE (Ordered(0) /\ hdr[0].sig /\ FirstOf(0) = 0)'
    BY <1>2, <1>5 DEF BlocksInOrder
  <2>1. FullBefore(0)'
    BY ZeroTypes DEF FullBefore
  <2>2. NoneFullAfter(0)'
    BY <1>4, <1>5 DEF NoneFullAfter, IsFull
  <2>3. hdr'[0].sig /\ hdr'[0].flag = FILLING /\ ~IsFull(0)'
    BY <1>4, <1>5 DEF IsFull, FILLING, FULL
  <2>4. FirstOf(0)' = 0
    <3>1. 0 + 1 < B => 1 \in Blocks /\ 1 > 0 /\ 0 + 1 = 1
      BY SlotFacts DEF Blocks
    <3> QED BY <2>2, <3>1 DEF FirstOf, NoneFullAfter
  <2> QED BY <2>1, <2>2, <2>3, <2>4 DEF Ordered
<1>7. PointerInHeader'
  BY <1>2, <1>4, <1>5 DEF PointerInHeader
<1>8. UncountedErased' /\ OneUnitPerSlot'
  BY <1>1, <1>2, <1>3, ZeroHeaderKeepsSlots DEF RingInv
<1>9. Cleared'
  BY <1>2 DEF Cleared
<1> QED BY <1>1, <1>6, <1>7, <1>8, <1>9 DEF RingInv

\* No assertion of the scan fails on blocks that are in order.
LEMMA OpenHangRing ==
    ASSUME RingInv, OpenHang
    PROVE  RingInv'
<1>1. IInv'
  BY OpenHangInv DEF RingInv
<1>2. /\ pc = "off" /\ pc' = "hung" /\ UNCHANGED <<hdr, slot, torn, spoiled>>
      /\ ~AllFull => hdr[ScanStop].sig /\ hdr[ScanStop].flag = EMPTY
  BY DEF OpenHang, flash, history
<1>3. BlocksInOrder'
  <2> SUFFICES ASSUME ~torn PROVE FALSE
    BY <1>2 DEF BlocksInOrder
  <2>1. PICK c \in Blocks : Ordered(c)
    BY <1>2 DEF RingInv, BlocksInOrder
  <2>2. ~AllFull /\ ScanStop = c
    BY <2>1, ScanIs DEF Ordered
  <2> QED BY <1>2, <2>1, <2>2 DEF Ordered, FILLING, EMPTY
<1>4. PointerInHeader' /\ Cleared'
  BY <1>2 DEF PointerInHeader, Cleared
<1>5. UncountedErased' /\ OneUnitPerSlot'
  BY <1>2 DEF RingInv, UncountedErased, OneUnitPerSlot, Counted
<1> QED BY <1>1, <1>3, <1>4, <1>5 DEF RingInv

-----------------------------------------------------------------------------
(* FSLOG_Write *)

\* The slot of the write pointer is erased when a write begins.
LEMMA PointerErased ==
    ASSUME RingInv, pc = "idle", ~torn, ~spoiled
    PROVE  slot[indexLast] = {}
<1>1. indexLast \in Slots /\ hdr[BlockOf(indexLast)].cnt = OffsetOf(indexLast)
  BY DEF RingInv, IInv, TypeOK, PointerAtCount
<1>2. OffsetOf(indexLast) \in Nat
  BY <1>1, SlotFacts
<1>3. indexLast \notin Counted
  BY <1>1, <1>2 DEF Counted
<1> QED BY <1>1, <1>3 DEF RingInv, UncountedErased

LEMMA WriteDataRing ==
    ASSUME RingInv, WriteData
    PROVE  RingInv'
<1>1. IInv /\ IInv' /\ indexLast \in Slots /\ slot \in [Slots -> SUBSET Nat]
  BY WriteDataInv DEF RingInv, IInv, TypeOK
<1>2. /\ pc = "idle" /\ pc' = "counter"
      /\ slot' = [slot EXCEPT ![indexLast] = @ \cup {issued + 1}]
      /\ UNCHANGED <<hdr, indexFirst, indexLast, pointerId, torn, spoiled>>
  BY DEF WriteData
<1>3. BlocksInOrder'
  BY <1>2 DEF RingInv, BlocksInOrder, Ordered, FullBefore, FullAfter,
              NoneFullAfter, IsFull, FirstOf, Cur
<1>4. PointerInHeader' /\ Cleared'
  BY <1>2 DEF RingInv, PointerInHeader, Cur, Cleared
<1>5. ASSUME ~torn, ~spoiled, NEW s \in Slots
      PROVE  /\ s \in Counted \/ slot'[s] = {} \/ s = indexLast
             /\ slot'[s] = {} \/ \E n \in slot'[s] : slot'[s] = {n}
  <2>1. CASE s = indexLast
    <3>1. slot'[s] = {issued + 1}
      BY <1>1, <1>2, <1>5, <2>1, PointerErased
    <3> QED BY <2>1, <3>1
  <2>2. CASE s # indexLast
    <3>1. slot'[s] = slot[s]
      BY <1>1, <1>2, <2>2
    <3> QED BY <1>2, <1>5, <3>1 DEF RingInv, UncountedErased, OneUnitPerSlot
  <2> QED BY <2>1, <2>2
<1>6. UncountedErased' /\ OneUnitPerSlot'
  BY <1>2, <1>5 DEF UncountedErased, OneUnitPerSlot, Counted
<1> QED BY <1>1, <1>3, <1>4, <1>6 DEF RingInv

\* Counting the unit changes one header: its count, its flag when the block is
\* full, and nothing of its pointerId that was there.
LEMMA CountFacts ==
    ASSUME IInv, WriteCounter
    PROVE  LET b == BlockOf(indexLast)
               k == OffsetOf(indexLast)
           IN  /\ indexLast \in Slots /\ b \in Blocks /\ k \in 0 .. U - 1
               /\ pc = "counter" /\ UNCHANGED <<slot, indexFirst, torn, spoiled>>
               /\ hdr[b].cnt = k
               /\ hdr'[b].cnt = k + 1 /\ hdr'[b].sig
               /\ hdr'[b].pid = WordAnd(hdr[b].pid, pointerId)
               /\ \A a \in Blocks : a # b => hdr'[a] = hdr[a]
               /\ indexLast' = Wrap(indexLast + 1)
               /\ k # U - 1 => /\ pc' = "idle" /\ UNCHANGED pointerId
                               /\ BlockOf(indexLast') = b
                               /\ hdr'[b].flag = Lower(hdr[b].flag, FILLING)
               /\ k = U - 1 => pc' = "nextErase" /\ hdr'[b].flag = FULL
<1> DEFINE b == BlockOf(indexLast)
           k == OffsetOf(indexLast)
           num == OffsetOf(indexLast + 1)
           flag == IF num # 0 THEN FILLING ELSE FULL
           cnt == IF num # 0 THEN num ELSE U
<1>1. /\ ProgramHeader(b, flag, pointerId, cnt) /\ pc = "counter"
      /\ indexLast' = Wrap(indexLast + 1)
      /\ pointerId' = IF num = 0 THEN (pointerId + 1) % W ELSE pointerId
      /\ pc' = IF num = 0 THEN "nextErase" ELSE "idle"
      /\ UNCHANGED <<slot, indexFirst, torn, spoiled>>
  BY DEF WriteCounter, history
<1>2. /\ indexLast \in Slots /\ b \in Blocks /\ k \in 0 .. U - 1
      /\ hdr[b] \in Header /\ hdr[b].cnt = k /\ pointerId \in Words
      /\ hdr \in [Blocks -> Header]
  BY <1>1, SlotFacts DEF IInv, PointerAtCount, TypeOK
<1>3. /\ k # U - 1 => num = k + 1 /\ BlockOf(indexLast') = b
      /\ k = U - 1 => num = 0
  BY <1>1, <1>2, NextSlot
<1>4. flag \in Flags /\ cnt = k + 1 /\ cnt \in 0 .. U
  BY <1>2, <1>3, SlotFacts DEF Flags, FULL, FILLING, EMPTY
<1>5. /\ hdr'[b] = Programmed(hdr[b], flag, pointerId, cnt)
      /\ \A a \in Blocks : a # b => hdr'[a] = hdr[a]
  BY <1>1, <1>2 DEF ProgramHeader
<1>6. Higher(k, k + 1) = k + 1 /\ Lower(hdr[b].flag, FULL) = FULL
  BY <1>2, SlotFacts DEF Higher, Lower, Header, Flags, FULL, FILLING, EMPTY
<1>7. hdr'[b].cnt = k + 1 /\ hdr'[b].sig /\ hdr'[b].flag = Lower(hdr[b].flag, flag)
      /\ hdr'[b].pid = WordAnd(hdr[b].pid, pointerId)
  BY <1>2, <1>4, <1>5, <1>6 DEF Programmed
<1>8. k # U - 1 => num # 0
  BY <1>2, <1>3, SlotFacts
<1> QED BY <1>1, <1>2, <1>3, <1>5, <1>6, <1>7, <1>8

LEMMA WriteCounterRing ==
    ASSUME RingInv, WriteCounter
    PROVE  RingInv'
<1> DEFINE k == OffsetOf(indexLast)
<1>0. PICK b \in Blocks : b = BlockOf(indexLast)
  BY SlotFacts DEF RingInv, IInv, TypeOK
<1>1. IInv /\ IInv'
  BY WriteCounterInv DEF RingInv
<1>2. /\ indexLast \in Slots /\ b \in Blocks /\ k \in 0 .. U - 1
      /\ pc = "counter" /\ UNCHANGED <<slot, indexFirst, torn, spoiled>>
      /\ hdr[b].cnt = k
      /\ hdr'[b].cnt = k + 1 /\ hdr'[b].sig
      /\ hdr'[b].pid = WordAnd(hdr[b].pid, pointerId)
      /\ \A a \in Blocks : a # b => hdr'[a] = hdr[a]
      /\ indexLast' = Wrap(indexLast + 1)
  BY <1>0, <1>1, CountFacts
<1>3. /\ k # U - 1 => /\ pc' = "idle" /\ UNCHANGED pointerId
                      /\ BlockOf(indexLast') = b
                      /\ hdr'[b].flag = Lower(hdr[b].flag, FILLING)
      /\ k = U - 1 => pc' = "nextErase" /\ hdr'[b].flag = FULL
  BY <1>0, <1>1, CountFacts
<1>4. ~torn => Ordered(b) /\ hdr[b].sig /\ indexFirst = FirstOf(b)
  BY <1>0, <1>2 DEF RingInv, BlocksInOrder, Cur
<1>5. \A a \in Blocks : a \in Nat
  BY ZeroTypes
<1> HIDE DEF k
<1>6. BlocksInOrder'
  <2> SUFFICES ASSUME ~torn PROVE BlocksInOrder'
    BY <1>2 DEF BlocksInOrder
  <2>1. CASE k # U - 1
    <3>1. hdr'[b].flag = FILLING
      BY <1>3, <1>4, <2>1 DEF Ordered, Lower
    <3>2. \A a \in Blocks : IsFull(a)' <=> IsFull(a)
      BY <1>2, <1>4, <3>1 DEF IsFull, Ordered, FILLING, FULL
    <3>3. Ordered(b)'
      BY <1>2, <1>4, <3>1, <3>2
         DEF Ordered, FullBefore, FullAfter, NoneFullAfter
    <3>4. FirstOf(b)' = FirstOf(b)
      <4>1. b + 1 < B => b + 1 \in Blocks
        BY <1>2, BlockStart
      <4> QED BY <3>2, <4>1 DEF FirstOf
    <3> QED BY <1>2, <1>3, <1>4, <2>1, <3>3, <3>4 DEF BlocksInOrder, Cur
  <2>2. CASE k = U - 1
    <3>1. IsFull(b)' /\ \A a \in Blocks : a # b => (IsFull(a)' <=> IsFull(a))
      BY <1>2, <1>3, <2>2 DEF IsFull
    <3>2. CASE b + 1 < B
      <4>1. /\ b + 1 \in Blocks /\ indexLast' = (b + 1) * U
            /\ BlockOf(indexLast') = b + 1
        BY <1>0, <1>2, <2>2, <3>2, RingStep, BlockStart DEF k
      <4>2. FullBefore(b + 1)'
        BY <1>2, <1>4, <1>5, <3>1 DEF Ordered, FullBefore
      <4>3. CASE IsFull(b + 1)
        <5>1. FullAfter(b)
          BY <1>2, <1>4, <1>5, <4>1, <4>3 DEF Ordered, NoneFullAfter
        <5>2. FullAfter(b + 1)'
          BY <1>2, <1>5, <3>1, <5>1 DEF FullAfter
        <5>3. indexFirst' = indexLast'
          BY <1>2, <1>4, <3>2, <4>1, <4>3 DEF FirstOf
        <5>4. Entered'
          BY <4>1, <4>2, <5>2, <5>3 DEF Entered, Cur
        <5> QED BY <1>3, <2>2, <5>4 DEF BlocksInOrder
      <4>4. CASE ~IsFull(b + 1)
        <5>1. NoneFullAfter(b)
          BY <1>2, <1>4, <1>5, <4>1, <4>4 DEF Ordered, FullAfter
        <5>2. NoneFullAfter(b + 1)'
          BY <1>2, <1>5, <3>1, <5>1 DEF NoneFullAfter
        <5>3. indexFirst' = 0 /\ b + 1 # 0
          BY <1>2, <1>4, <1>5, <4>4 DEF FirstOf
        <5>4. Entered'
          BY <4>1, <4>2, <5>2, <5>3 DEF Entered, Cur
        <5> QED BY <1>3, <2>2, <5>4 DEF BlocksInOrder
      <4> QED BY <4>3, <4>4
    <3>3. CASE ~(b + 1 < B)
      <4>1. indexLast' = 0 /\ BlockOf(indexLast') = 0
        BY <1>0, <1>2, <2>2, <3>3, RingStep DEF k
      <4>2. indexFirst' = 0
        BY <1>2, <1>4, <3>3 DEF FirstOf
      <4>3. FullBefore(0)'
        BY <1>5 DEF FullBefore
      <4>4. FullAfter(0)'
        <5>0. PICK n \in Nat : n = B /\ b \in 0 .. n - 1 /\ ~(b + 1 < n)
          BY <1>2, <1>5, <3>3, SlotFacts DEF Blocks
        <5>1. \A a \in Blocks : a # b => a < b
          BY <5>0 DEF Blocks
        <5> QED BY <1>4, <3>1, <5>1 DEF FullAfter, Ordered, FullBefore
      <4>5. Entered'
        BY <4>1, <4>2, <4>3, <4>4 DEF Entered, Cur
      <4> QED BY <1>3, <2>2, <4>5 DEF BlocksInOrder
    <3> QED BY <3>2, <3>3
  <2> QED BY <2>1, <2>2
<1>7. PointerInHeader'
  <2>1. CASE k # U - 1
    <3> SUFFICES ASSUME ~torn PROVE hdr'[b].pid = pointerId
      BY <1>2, <1>3, <2>1 DEF PointerInHeader, Cur
    <3>1. hdr[b].pid = pointerId \/ pointerId = 0
      BY <1>0, <1>2 DEF RingInv, PointerInHeader, Cur
    <3>2. hdr[b].pid \in Words /\ pointerId \in Words
      BY <1>1, <1>2 DEF IInv, TypeOK, Header
    <3> QED BY <1>2, <3>1, <3>2, AndAssumption
  <2>2. CASE k = U - 1
    BY <1>3, <2>2 DEF PointerInHeader
  <2> QED BY <2>1, <2>2
<1>8. UncountedErased'
  <2> SUFFICES ASSUME ~torn, ~spoiled, NEW s \in Slots, slot[s] # {}
               PROVE  s \in Counted'
    BY <1>2 DEF UncountedErased
  <2>1. /\ BlockOf(s) \in Blocks /\ OffsetOf(s) \in 0 .. U - 1
        /\ s = BlockOf(s) * U + OffsetOf(s)
    BY SlotFacts
  <2>2. CASE s = indexLast
    BY <1>0, <1>2, <2>1, <2>2, SlotFacts DEF Counted, k
  <2>3. CASE s # indexLast
    <3>1. OffsetOf(s) < hdr[BlockOf(s)].cnt
      BY <2>3 DEF RingInv, UncountedErased, Counted
    <3> QED BY <1>2, <2>1, <3>1, SlotFacts DEF Counted
  <2> QED BY <2>2, <2>3
<1>9. OneUnitPerSlot'
  BY <1>2 DEF RingInv, OneUnitPerSlot
<1>10. Cleared'
  BY <1>3 DEF Cleared
<1> QED BY <1>1, <1>6, <1>7, <1>8, <1>9, <1>10 DEF RingInv

LEMMA NextEraseRing ==
    ASSUME RingInv, NextErase
    PROVE  RingInv'
<1>1. IInv /\ IInv' /\ TypeOK /\ Cur \in Blocks
  BY NextEraseInv, SlotFacts DEF RingInv, IInv, TypeOK, Cur
<1>2. /\ pc = "nextErase" /\ pc' = "nextHeader" /\ EraseBlock(Cur)
      /\ UNCHANGED <<indexFirst, indexLast, torn, spoiled>> /\ Cur' = Cur
  BY DEF NextErase, ram, history, Cur, BlockOf
<1>3. \A a \in Blocks : a # Cur => hdr'[a] = hdr[a]
  BY <1>1, <1>2, EraseBlockFacts
<1>4. BlocksInOrder'
  <2> SUFFICES ASSUME ~torn PROVE Entered'
    BY <1>2 DEF BlocksInOrder
  <2>1. Entered
    BY <1>2 DEF RingInv, BlocksInOrder
  <2>2. \A a \in Blocks : a < Cur \/ a > Cur => (IsFull(a)' <=> IsFull(a))
    BY <1>1, <1>3, ZeroTypes DEF IsFull
  <2> HIDE DEF Cur
  <2> QED BY <1>2, <2>1, <2>2 DEF Entered, FullBefore, FullAfter, NoneFullAfter
<1>5. PointerInHeader' /\ Cleared'
  BY <1>2 DEF PointerInHeader, Cleared
<1>6. UncountedErased' /\ OneUnitPerSlot'
  BY <1>1, <1>2, EraseKeepsSlots DEF RingInv
<1> QED BY <1>1, <1>4, <1>5, <1>6 DEF RingInv

LEMMA NextHeaderRing ==
    ASSUME RingInv, NextHeader
    PROVE  RingInv'
<1>1. /\ IInv /\ IInv' /\ TypeOK /\ PartialBlocks /\ CountedAreProgrammed
      /\ Cur \in Blocks /\ pointerId \in Words /\ indexLast \in Slots
  BY NextHeaderInv, SlotFacts DEF RingInv, IInv, TypeOK, Cur
<1>2. /\ pc = "nextHeader" /\ pc' = "idle"
      /\ ProgramHeader(Cur, FILLING, pointerId, 0)
      /\ indexFirst' = IF indexLast = indexFirst THEN Wrap(indexFirst + U) ELSE indexFirst
      /\ UNCHANGED <<slot, indexLast, pointerId, torn, spoiled>> /\ Cur' = Cur
  BY DEF NextHeader, Recycled, Cur, BlockOf
<1>3. hdr[Cur] = ErasedHeader
  BY <1>1, <1>2 DEF IInv, ErasedBeforeHeader, Cur
<1>4. /\ hdr'[Cur].cnt = 0 /\ hdr'[Cur].sig /\ hdr'[Cur].flag = FILLING
      /\ \A a \in Blocks : a # Cur => hdr'[a] = hdr[a]
  BY <1>1, <1>2, <1>3, ZeroHeaderKeeps
<1>5. \A a \in Blocks : a < Cur \/ a > Cur => (IsFull(a)' <=> IsFull(a))
  BY <1>1, <1>4, ZeroTypes DEF IsFull
<1>6. indexLast = Cur * U
  <2>1. OffsetOf(indexLast) = 0 /\ indexLast = Cur * U + OffsetOf(indexLast)
    BY <1>1, <1>2, SlotFacts DEF IInv, EntersAtStart, Cur
  <2> QED BY <1>1, <2>1, BlockStart, ZeroTypes
<1>7. BlocksInOrder'
  <2> SUFFICES ASSUME ~torn PROVE (Ordered(Cur) /\ hdr[Cur].sig /\ indexFirst = FirstOf(Cur))'
    BY <1>2 DEF BlocksInOrder
  <2>1. Entered
    BY <1>2 DEF RingInv, BlocksInOrder
  <2>2. FullBefore(Cur) /\ (FullAfter(Cur) \/ NoneFullAfter(Cur))
    BY <2>1 DEF Entered
  <2>3. ~IsFull(Cur)'
    BY <1>2, <1>4 DEF IsFull, FILLING, FULL
  <2>4. Ordered(Cur)'
    <3> HIDE DEF Cur
    <3> QED BY <1>2, <1>4, <1>5, <2>2, <2>3
            DEF Ordered, FullBefore, FullAfter, NoneFullAfter
  <2>5. indexFirst' = FirstOf(Cur)'
    <3> PICK c \in Blocks : c = Cur /\ c = Cur'
      BY <1>1, <1>2
    <3>1. c + 1 < B => c + 1 \in Blocks /\ c + 1 > c
      BY BlockStart, ZeroTypes
    <3>2. CASE indexLast = indexFirst
      <4>1. FullAfter(Cur)
        BY <1>1, <1>6, <2>1, <3>2, BlockStart DEF Entered
      <4>2. c + 1 < B => IsFull(c + 1)'
        BY <1>5, <3>1, <4>1 DEF FullAfter
      <4>3. indexFirst' = Wrap(Cur * U + U)
        BY <1>2, <1>6, <3>2
      <4> QED BY <1>1, <1>2, <3>1, <4>2, <4>3, BlockStart DEF FirstOf
    <3>3. CASE indexLast # indexFirst
      <4>1. indexFirst' = 0 /\ NoneFullAfter(Cur)
        BY <1>2, <2>1, <3>3 DEF Entered
      <4>2. c + 1 < B => ~IsFull(c + 1)'
        BY <1>5, <3>1, <4>1 DEF NoneFullAfter
      <4> QED BY <1>2, <4>1, <4>2 DEF FirstOf
    <3> QED BY <3>2, <3>3
  <2> QED BY <1>2, <1>4, <2>4, <2>5
<1>8. PointerInHeader'
  <2>1. hdr'[Cur].pid = WordAnd(Ones, pointerId)
    BY <1>1, <1>2, <1>3 DEF ProgramHeader, Programmed, ErasedHeader, TypeOK
  <2>2. hdr'[Cur].pid = pointerId
    BY <1>1, <2>1, AndAssumption
  <2> QED BY <1>2, <2>2 DEF PointerInHeader
<1>9. UncountedErased' /\ OneUnitPerSlot'
  BY <1>1, <1>2, <1>3, ZeroHeaderKeepsSlots DEF RingInv
<1>10. Cleared'
  BY <1>2 DEF Cleared
<1> QED BY <1>1, <1>7, <1>8, <1>9, <1>10 DEF RingInv

-----------------------------------------------------------------------------
(* FSLOG_Clear and the environment *)

LEMMA ClearStartRing ==
    ASSUME RingInv, ClearStart
    PROVE  RingInv'
<1>1. IInv'
  BY ClearStartInv DEF RingInv
<1>2. pc = "idle" /\ pc' = "clearErase" /\ blk' = 0 /\ UNCHANGED <<hdr, slot, torn, spoiled>>
  BY DEF ClearStart, flash, history
<1>3. Cleared'
  <2>1. \A s \in Slots : BlockOf(s) \in Nat
    BY SlotFacts, ZeroTypes
  <2>2. \A a \in Blocks : a \in Nat
    BY ZeroTypes
  <2> QED BY <1>2, <2>1, <2>2 DEF Cleared
<1>4. BlocksInOrder' /\ PointerInHeader'
  BY <1>2 DEF BlocksInOrder, PointerInHeader
<1>5. UncountedErased' /\ OneUnitPerSlot'
  BY <1>2 DEF RingInv, UncountedErased, OneUnitPerSlot, Counted
<1> QED BY <1>1, <1>3, <1>4, <1>5 DEF RingInv

LEMMA ClearEraseRing ==
    ASSUME RingInv, ClearErase
    PROVE  RingInv'
<1>1. IInv /\ IInv' /\ TypeOK /\ blk \in Blocks
  BY ClearEraseInv DEF RingInv, IInv, TypeOK
<1>2. /\ pc = "clearErase" /\ pc' = "clearHeader" /\ EraseBlock(blk)
      /\ UNCHANGED <<blk, torn, spoiled>>
  BY DEF ClearErase, history
<1>3. /\ \A a \in Blocks : a # blk => hdr'[a] = hdr[a]
      /\ \A s \in Slots : slot'[s] = IF BlockOf(s) = blk THEN {} ELSE slot[s]
  BY <1>1, <1>2, EraseBlockFacts
<1>4. Cleared'
  <2>1. blk # 0 => hdr'[0].sig /\ hdr'[0].flag = FILLING
    BY <1>2, <1>3, ZeroTypes DEF RingInv, Cleared
  <2>2. \A a \in Blocks : 0 < a /\ a < blk => ~IsFull(a)'
    BY <1>1, <1>2, <1>3, ZeroTypes DEF RingInv, Cleared, IsFull
  <2>3. \A s \in Slots : BlockOf(s) < blk \/ BlockOf(s) = blk => slot'[s] = {}
    BY <1>2, <1>3 DEF RingInv, Cleared
  <2> QED BY <1>2, <2>1, <2>2, <2>3 DEF Cleared
<1>5. BlocksInOrder' /\ PointerInHeader'
  BY <1>2 DEF BlocksInOrder, PointerInHeader
<1>6. UncountedErased' /\ OneUnitPerSlot'
  BY <1>1, <1>2, EraseKeepsSlots DEF RingInv
<1> QED BY <1>1, <1>4, <1>5, <1>6 DEF RingInv

LEMMA ClearHeaderRing ==
    ASSUME RingInv, ClearHeader
    PROVE  RingInv'
<1>1. /\ IInv /\ IInv' /\ TypeOK /\ PartialBlocks /\ CountedAreProgrammed
      /\ blk \in Blocks /\ hdr[blk] = ErasedHeader /\ pointerId \in Words
      /\ blk \in Nat
  BY ClearHeaderInv, ZeroTypes
     DEF RingInv, IInv, TypeOK, ErasedBeforeHeader, ClearHeader
<1>2. PICK f \in {EMPTY, FILLING}, p \in Words :
          ProgramHeader(blk, f, p, 0) /\ (blk = 0 => f = FILLING)
  BY <1>1, ZeroTypes DEF ClearHeader
<1>3. UNCHANGED slot /\ pc = "clearHeader"
  BY DEF ClearHeader
<1>4. /\ hdr'[blk].cnt = 0 /\ hdr'[blk].sig /\ hdr'[blk].flag = f
      /\ \A a \in Blocks : a # blk => hdr'[a] = hdr[a]
  BY <1>1, <1>2, <1>3, ZeroHeaderKeeps
<1>5. hdr'[0].sig /\ hdr'[0].flag = FILLING
  BY <1>2, <1>3, <1>4, ZeroTypes DEF RingInv, Cleared
<1>6. \A a \in Blocks : 0 < a /\ a < blk + 1 => ~IsFull(a)'
  <2> SUFFICES ASSUME NEW a \in Blocks, 0 < a, a < blk + 1 PROVE ~IsFull(a)'
    OBVIOUS
  <2>1. CASE a = blk
    BY <1>4, <2>1 DEF IsFull, FULL, EMPTY, FILLING
  <2>2. CASE a # blk
    <3>1. a < blk
      BY <1>1, <2>2, ZeroTypes
    <3> QED BY <1>3, <1>4, <2>2, <3>1 DEF RingInv, Cleared, IsFull
  <2> QED BY <2>1, <2>2
<1>7. \A s \in Slots : BlockOf(s) < blk + 1 => slot'[s] = {}
  <2>1. \A s \in Slots : BlockOf(s) \in Nat
    BY SlotFacts, ZeroTypes
  <2> QED BY <1>1, <1>3, <2>1 DEF RingInv, Cleared
<1>8. CASE blk + 1 < B
  <2>1. blk' = blk + 1 /\ pc' = "clearErase" /\ UNCHANGED <<torn, spoiled>>
    BY <1>8 DEF ClearHeader, history
  <2>2. Cleared'
    BY <1>5, <1>6, <1>7, <2>1 DEF Cleared
  <2>3. BlocksInOrder' /\ PointerInHeader'
    BY <2>1 DEF BlocksInOrder, PointerInHeader
  <2>4. UncountedErased' /\ OneUnitPerSlot'
    BY <1>1, <1>2, <1>3, <2>1, ZeroHeaderKeepsSlots DEF RingInv
  <2> QED BY <1>1, <2>2, <2>3, <2>4 DEF RingInv
<1>9. CASE ~(blk + 1 < B)
  <2>1. indexFirst' = 0 /\ indexLast' = 0 /\ pointerId' = 0 /\ pc' = "idle" /\ Cur' = 0
    BY <1>9, ZeroTypes DEF ClearHeader, Cur, BlockOf
  <2>2. \A a \in Blocks : a \in Nat /\ a < blk + 1
    BY <1>1, <1>9, SlotFacts, ZeroTypes
  <2>3. FullBefore(0)' /\ NoneFullAfter(0)'
    BY <1>6, <2>2 DEF FullBefore, NoneFullAfter
  <2>4. Ordered(0)'
    BY <1>5, <2>3 DEF Ordered, IsFull, FILLING, FULL
  <2>5. FirstOf(0)' = 0
    <3>1. 0 + 1 < B => 1 \in Blocks /\ 1 > 0 /\ 0 + 1 = 1
      BY SlotFacts DEF Blocks
    <3> QED BY <2>3, <3>1 DEF FirstOf, NoneFullAfter
  <2>6. BlocksInOrder'
    BY <1>5, <2>1, <2>4, <2>5 DEF BlocksInOrder
  <2>7. PointerInHeader'
    <3>1. hdr'[0].cnt = 0
      <4>1. blk # 0 => hdr[0].cnt = 0
        BY <1>1, <1>3 DEF IInv, ErasedBeforeHeader
      <4> QED BY <1>4, <4>1, ZeroTypes
    <3> QED BY <2>1, <3>1 DEF PointerInHeader
  <2>8. UncountedErased' /\ OneUnitPerSlot'
    <3>1. \A s \in Slots : slot'[s] = {}
      BY <1>7, <2>2, SlotFacts
    <3> QED BY <3>1 DEF UncountedErased, OneUnitPerSlot
  <2>9. Cleared'
    BY <2>1 DEF Cleared
  <2> QED BY <1>1, <2>6, <2>7, <2>8, <2>9 DEF RingInv
<1> QED BY <1>8, <1>9

LEMMA PowerRing ==
    ASSUME RingInv, PowerOff \/ PowerCut
    PROVE  RingInv'
<1>1. IInv /\ IInv' /\ pc \in PcStates /\ indexLast \in Slots
  BY PowerInv DEF RingInv, IInv, TypeOK
<1>2. pc' = "off" /\ pointerId' = 0 /\ UNCHANGED <<hdr, slot>>
  BY DEF PowerOff, PowerCut, LoseRam, flash
<1>3. /\ torn => torn'
      /\ spoiled => spoiled'
      /\ pc \in BetweenBlocks => torn'
      /\ pc = "counter" => spoiled'
  BY <1>1 DEF PowerOff, PowerCut, BetweenBlocks, PcStates, IInv, TypeOK
<1>4. BlocksInOrder'
  <2> SUFFICES ASSUME ~torn' PROVE \E c \in Blocks : Ordered(c)'
    BY <1>2 DEF BlocksInOrder
  <2>1. ~torn /\ pc \notin BetweenBlocks /\ pc # "hung" /\ pc # "off"
    BY <1>3 DEF RingInv, BlocksInOrder, PowerOff, PowerCut
  <2>2. pc \in {"idle", "counter", "openHeader"}
    BY <1>1, <2>1 DEF PcStates, BetweenBlocks
  <2>3. Cur \in Blocks /\ 0 \in Blocks
    BY <1>1, SlotFacts, ZeroTypes DEF Cur
  <2>4. \E c \in Blocks : Ordered(c)
    BY <2>1, <2>2, <2>3 DEF RingInv, BlocksInOrder
  <2>5. \A c \in Blocks : Ordered(c) => Ordered(c)'
    BY <1>2 DEF Ordered, FullBefore, FullAfter, NoneFullAfter, IsFull
  <2> QED BY <2>4, <2>5
<1>5. PointerInHeader' /\ Cleared'
  BY <1>2 DEF PointerInHeader, Cleared
<1>6. UncountedErased' /\ OneUnitPerSlot'
  BY <1>2, <1>3 DEF RingInv, UncountedErased, OneUnitPerSlot, Counted
<1> QED BY <1>1, <1>4, <1>5, <1>6 DEF RingInv

LEMMA StutterRing ==
    ASSUME RingInv, UNCHANGED vars
    PROVE  RingInv'
<1>1. IInv'
  BY StutterInv DEF RingInv
<1>2. UNCHANGED <<hdr, slot, indexFirst, indexLast, pointerId, pc, blk, torn, spoiled>>
  BY DEF vars, ram, history
<1>3. BlocksInOrder'
  BY <1>2 DEF RingInv, BlocksInOrder, Ordered, FullBefore, FullAfter, NoneFullAfter,
              IsFull, FirstOf, Cur, Entered
<1>4. PointerInHeader' /\ Cleared'
  BY <1>2 DEF RingInv, PointerInHeader, Cleared, Cur, IsFull
<1>5. UncountedErased' /\ OneUnitPerSlot'
  BY <1>2 DEF RingInv, UncountedErased, OneUnitPerSlot, Counted
<1> QED BY <1>1, <1>3, <1>4, <1>5 DEF RingInv

-----------------------------------------------------------------------------
(* The invariant holds of every behaviour. *)

LEMMA InitRing == Init => RingInv
<1> SUFFICES ASSUME Init PROVE RingInv
  OBVIOUS
<1>1. IInv
  BY InitInv
<1>2. \A b \in Blocks : hdr[b] = ErasedHeader /\ ~IsFull(b)
  BY DEF Init, IsFull, ErasedHeader
<1>3. Ordered(0)
  BY <1>2, ZeroTypes DEF Ordered, FullBefore, NoneFullAfter, ErasedHeader
<1>4. BlocksInOrder
  BY <1>3, ZeroTypes DEF Init, BlocksInOrder
<1>5. PointerInHeader /\ Cleared /\ UncountedErased /\ OneUnitPerSlot
  BY DEF Init, PointerInHeader, Cleared, UncountedErased, OneUnitPerSlot
<1> QED BY <1>1, <1>4, <1>5 DEF RingInv

LEMMA NextRing == RingInv /\ [Next]_vars => RingInv'
BY OpenResumeRing, OpenRepairRing, OpenRepairHeaderRing, OpenHangRing, WriteDataRing,
   WriteCounterRing, NextEraseRing, NextHeaderRing, ClearStartRing, ClearEraseRing,
   ClearHeaderRing, PowerRing, StutterRing
   DEF Next, Firmware

\* Every behaviour of the log, power cuts included, keeps the blocks in order.
THEOREM RingInductive == Spec => []RingInv
BY InitRing, NextRing, PTL DEF Spec

\* The assertions of __fslog_init can only fail after a power cut between two
\* blocks: any other history leaves a first block that is not FULL, and that is
\* FILLING or was never used.
THEOREM OpenNeverHangs == Spec => []OpenSucceeds
<1>1. RingInv => OpenSucceeds
  BY DEF RingInv, BlocksInOrder, OpenSucceeds
<1> QED BY <1>1, RingInductive, PTL

\* What FSLOG_Open would read from the headers is what RAM holds between any two
\* operations: first and last index and the number of the block.
THEOREM RebootFindsPointers == Spec => []RecoveryAgrees
<1>1. ASSUME RingInv PROVE RecoveryAgrees
  <2> SUFFICES ASSUME pc = "idle", ~torn
               PROVE  /\ ~AllFull
                      /\ hdr[ScanStop].sig /\ hdr[ScanStop].flag = FILLING
                      /\ ScanLast = indexLast
                      /\ ScanFirst = indexFirst
                      /\ hdr[ScanStop].cnt > 0 => hdr[ScanStop].pid = pointerId
    BY DEF RecoveryAgrees
  <2>1. Ordered(Cur) /\ hdr[Cur].sig /\ indexFirst = FirstOf(Cur)
    BY <1>1 DEF RingInv, BlocksInOrder
  <2>2. /\ indexLast \in Slots /\ Cur \in Blocks /\ hdr[Cur].cnt = OffsetOf(indexLast)
        /\ indexLast = Cur * U + OffsetOf(indexLast)
    BY <1>1, SlotFacts DEF RingInv, IInv, TypeOK, PointerAtCount, Cur
  <2>3. ~AllFull /\ ScanStop = Cur
    BY <2>1, <2>2, ScanIs DEF Ordered
  <2>4. ScanFirst = indexFirst
    BY <2>1, <2>3 DEF ScanFirst, ScanWrapped, FirstOf
  <2>5. ScanLast = indexLast
    BY <2>2, <2>3 DEF ScanLast
  <2>6. hdr[Cur].cnt > 0 => hdr[Cur].pid = pointerId
    BY <1>1 DEF RingInv, PointerInHeader
  <2> QED BY <2>1, <2>3, <2>4, <2>5, <2>6 DEF Ordered
<1> QED BY <1>1, RingInductive, PTL

\* FSLOG_Write never programs a slot twice between two erases, unless the power
\* failed before a unit was counted or between two blocks.
THEOREM SlotsProgrammedOnce == Spec => []NoOverprogram
<1>1. ASSUME RingInv PROVE NoOverprogram
  <2> SUFFICES ASSUME ~torn, ~spoiled, NEW s \in Slots
               PROVE  Cardinality(slot[s]) <= 1
    BY DEF NoOverprogram
  <2>1. CASE slot[s] = {}
    BY <2>1, FS_EmptySet
  <2>2. CASE slot[s] # {}
    <3>1. PICK n \in slot[s] : slot[s] = {n}
      BY <1>1, <2>2 DEF RingInv, OneUnitPerSlot
    <3>2. Cardinality({n}) = 1
      BY FS_Singleton
    <3> QED BY <3>1, <3>2
  <2> QED BY <2>1, <2>2
<1> QED BY <1>1, RingInductive, PTL

-----------------------------------------------------------------------------
(***************************************************************************)
(* What the slots hold: the newest units, in order, from the edge of the   *)
(* oldest block to the write pointer.  Hence the log implements RingStore, *)
(* an OTP log loses nothing, and a reader gets the newest units in the     *)
(* order they were written.                                                *)
(***************************************************************************)

(* The inductive invariant, on top of RingInv. *)

\* The slots below last and those from edge on are counted; going up to last and
\* round the ring they hold consecutive units, the newest of them number e.
Held(last, edge, e) ==
    /\ last \in Nat /\ edge \in Nat /\ last <= edge /\ edge <= M
    /\ Counted = {s \in Slots : s < last \/ s >= edge}
    /\ ~spoiled => \A s \in Counted :
           slot[s] = {IF s < last THEN e + 1 - last + s ELSE e + 1 - last - M + s}

\* The same of a log whose block c is the one to fill.
LastOf(c) == c * U + hdr[c].cnt
EdgeOf(c) == IF c + 1 < B /\ IsFull(c + 1) THEN (c + 1) * U ELSE M

\* When a block has been entered, the oldest unit is in it or at slot 0.
EnteredEdge == IF indexFirst = indexLast THEN indexLast ELSE M

SlotsInOrder ==
    ~torn =>
        /\ pc = "off" =>
               \A c \in Blocks : Ordered(c) => Held(LastOf(c), EdgeOf(c), issued)
        /\ pc = "openHeader" => Counted = {}
        /\ pc \in {"idle", "counter"} => Held(LastOf(Cur), EdgeOf(Cur), LastCounted)
        /\ pc = "counter" /\ ~spoiled => slot[indexLast] = {issued}
        /\ pc = "nextErase" => Held(indexLast, EnteredEdge, issued)
        /\ pc = "nextHeader" =>
               Held(indexLast, IF indexFirst = indexLast THEN indexLast + U ELSE M, issued)

\* A header is programmed with its signature.
UnsignedIsErased == \A b \in Blocks : ~hdr[b].sig => hdr[b] = ErasedHeader

\* A Clear has left nothing counted behind it.
ClearedCount ==
    pc \in {"clearErase", "clearHeader"} => \A a \in Blocks : a < blk => hdr[a].cnt = 0

\* How many units are held, before an entered block is erased.
HeldNumber ==
    IF pc \in {"idle", "counter"} THEN LastOf(Cur) + M - EdgeOf(Cur)
    ELSE indexLast + M - EnteredEdge

\* Until the first recycling after an open, and always in an OTP log, unitNumber
\* is the number of units that can be read, and they end at the write pointer.
Window ==
    /\ ~torn /\ pc \in {"idle", "counter", "nextErase", "nextHeader"} =>
           /\ fresh \/ OTP => unitNumber = Lower(HeldNumber, C)
           /\ fresh => indexRead + unitNumber \in {indexLast, indexLast + M}
           /\ OTP => HeldNumber <= C /\ (pc = "counter" => HeldNumber < C)
    /\ ~torn /\ pc = "off" /\ OTP =>
           \A c \in Blocks : Ordered(c) => LastOf(c) + M - EdgeOf(c) <= C

StoreInv ==
    /\ RingInv
    /\ SlotsInOrder
    /\ UnsignedIsErased
    /\ ClearedCount
    /\ Window

-----------------------------------------------------------------------------
(* Facts about slots and blocks. *)

\* Only one block can be the one to fill.
LEMMA OneOrdered ==
    ASSUME NEW c \in Blocks, NEW d \in Blocks, Ordered(c), Ordered(d)
    PROVE  c = d
BY ScanIs DEF Ordered

\* Blocks end where the next begins, the last at the end of the region.
LEMMA BlockBounds ==
    ASSUME NEW c \in Blocks
    PROVE  /\ c * U \in Nat /\ c * U + U <= M /\ (c + 1) * U = c * U + U
           /\ c + 1 < B => c * U + U < M
           /\ ~(c + 1 < B) => c * U + U = M
<1>1. c \in Nat /\ U \in Nat \ {0} /\ c * U \in Nat /\ c * U < M /\ M \in Nat
  BY SlotFacts, ZeroTypes
<1>2. (c + 1) * U = c * U + U
  BY <1>1
<1>3. CASE c + 1 < B
  <2>1. c * U + U < M
    BY <1>2, <1>3, BlockStart, ZeroTypes
  <2> QED BY <1>1, <1>2, <1>3, <2>1
<1>4. CASE ~(c + 1 < B)
  <2>1. c + 1 = B
    BY <1>1, <1>4, SlotFacts, ZeroTypes
  <2>2. c * U + U = M
    BY <1>2, <2>1 DEF M
  <2> QED BY <1>1, <1>2, <1>4, <2>2
<1> QED BY <1>3, <1>4

\* A slot is in a block when it is between the block's ends.
LEMMA InBlock ==
    ASSUME NEW c \in Blocks, NEW s \in Slots
    PROVE  BlockOf(s) = c <=> (c * U <= s /\ s < c * U + U)
<1>1. /\ BlockOf(s) \in Blocks /\ OffsetOf(s) \in 0 .. U - 1 /\ U \in Nat
      /\ s = BlockOf(s) * U + OffsetOf(s) /\ BlockOf(s) * U \in Nat
  BY SlotFacts, BlockBounds
<1>2. BlockOf(s) = c => (c * U <= s /\ s < c * U + U)
  BY <1>1
<1>3. ASSUME c * U <= s, s < c * U + U
      PROVE  BlockOf(s) = c
  <2>1. c * U \in Nat /\ s \in Nat
    BY BlockBounds, ZeroTypes
  <2>2. PICK k \in 0 .. U - 1 : s = c * U + k
    <3>1. s - c * U \in 0 .. U - 1 /\ s = c * U + (s - c * U)
      BY <1>1, <1>3, <2>1
    <3> QED BY <3>1
  <2> QED BY <2>2, SlotFacts
<1> QED BY <1>2, <1>3

\* What an open computes, in terms of the block to fill.
LEMMA ScanWindow ==
    ASSUME TypeOK, PartialBlocks, NEW c \in Blocks, Ordered(c), hdr[c].sig
    PROVE  /\ ~AllFull /\ ScanStop = c /\ ScanFirst = FirstOf(c) /\ ScanLast = LastOf(c)
           /\ LastOf(c) \in Slots /\ ScanFirst \in Slots
           /\ ScanNumber \in Nat /\ ScanNumber <= M
           /\ ScanNumber = LastOf(c) + M - EdgeOf(c)
           /\ ScanFirst + ScanNumber \in {ScanLast, ScanLast + M}
<1>1. ~AllFull /\ ScanStop = c /\ hdr[c].flag = FILLING
  BY ScanIs DEF Ordered
<1>2. /\ ScanLast \in Slots /\ ScanFirst \in Slots /\ ScanNumber \in Nat
      /\ ScanNumber <= M /\ OffsetOf(ScanLast) = hdr[c].cnt /\ hdr[c].cnt \in 0 .. U - 1
  BY <1>1, ScanTypes
<1>3. ScanFirst = FirstOf(c) /\ ScanLast = LastOf(c)
  BY <1>1 DEF ScanFirst, ScanWrapped, FirstOf, ScanLast, LastOf
<1>4. c * U \in Nat /\ (c + 1) * U = c * U + U /\ M \in Nat /\ U \in Nat
  BY BlockBounds, SlotFacts
<1>5. CASE ScanWrapped
  <2>1. ScanFirst = (c + 1) * U /\ EdgeOf(c) = (c + 1) * U
    BY <1>1, <1>5 DEF ScanFirst, ScanWrapped, EdgeOf
  <2>2. ScanNumber = hdr[c].cnt + U * (B - 1)
    BY <1>2, <1>5 DEF ScanNumber, OffsetOf
  <2>3. U * (B - 1) = M - U
    BY SlotFacts DEF M
  <2> QED BY <1>1, <1>2, <1>3, <1>4, <2>1, <2>2, <2>3 DEF LastOf
<1>6. CASE ~ScanWrapped
  <2>1. ScanFirst = 0 /\ EdgeOf(c) = M /\ ScanNumber = ScanLast
    BY <1>1, <1>6 DEF ScanFirst, ScanWrapped, EdgeOf, ScanNumber
  <2> QED BY <1>1, <1>2, <1>3, <1>4, <2>1, ZeroTypes
<1> QED BY <1>5, <1>6

\* No slot is outside the region.
LEMMA NoSlots == {s \in Slots : s < 0 \/ s >= M} = {}
<1> SUFFICES ASSUME NEW s \in Slots PROVE ~(s < 0 \/ s >= M)
  OBVIOUS
<1>1. s \in Nat /\ s < M /\ M \in Nat
  BY ZeroTypes, SlotFacts
<1> QED BY <1>1

\* What Held says depends on the headers, the slots and the history only.
LEMMA HeldKeeps ==
    ASSUME UNCHANGED <<hdr, slot, spoiled>>, NEW last, NEW edge, NEW e, Held(last, edge, e)
    PROVE  Held(last, edge, e)'
BY DEF Held, Counted

-----------------------------------------------------------------------------
(* Every step preserves the invariant: FSLOG_Open. *)

LEMMA OpenResumeStore ==
    ASSUME StoreInv, OpenResume
    PROVE  StoreInv'
<1>1. RingInv /\ RingInv' /\ TypeOK /\ PartialBlocks
  BY OpenResumeRing DEF StoreInv, RingInv, IInv
<1>2. /\ pc = "off" /\ pc' = "idle" /\ UNCHANGED <<hdr, slot, issued, torn, spoiled>>
      /\ hdr[ScanStop].sig /\ indexLast' = ScanLast
      /\ indexRead' = IF ScanNumber > C THEN Wrap(ScanFirst + (ScanNumber - C)) ELSE ScanFirst
      /\ unitNumber' = Lower(ScanNumber, C)
  BY DEF OpenResume, Opened, flash
<1>3. UnsignedIsErased' /\ ClearedCount'
  BY <1>2 DEF StoreInv, UnsignedIsErased, ClearedCount
<1>4. CASE torn
  BY <1>1, <1>2, <1>3, <1>4 DEF StoreInv, SlotsInOrder, Window
<1>5. CASE ~torn
  <2>1. PICK c \in Blocks : Ordered(c)
    BY <1>1, <1>2, <1>5 DEF RingInv, BlocksInOrder
  <2>2. hdr[c].sig
    BY <1>2, <2>1, ScanIs DEF Ordered
  <2>3. /\ ScanStop = c /\ ScanLast = LastOf(c) /\ LastOf(c) \in Slots
        /\ ScanFirst \in Slots /\ ScanNumber \in Nat /\ ScanNumber <= M
        /\ ScanNumber = LastOf(c) + M - EdgeOf(c)
        /\ ScanFirst + ScanNumber \in {ScanLast, ScanLast + M}
    BY <1>1, <2>1, <2>2, ScanWindow
  <2>4. Cur' = c
    <3>1. BlockOf(ScanLast) = c
      BY <1>1, <1>2, <2>1, <2>2, <2>3, ScanWindow, ScanTypes DEF Ordered
    <3> QED BY <1>2, <3>1 DEF Cur, BlockOf
  <2>5. LastOf(c)' = LastOf(c) /\ EdgeOf(c)' = EdgeOf(c)
    BY <1>2 DEF LastOf, EdgeOf, IsFull
  <2>6. Held(LastOf(c), EdgeOf(c), issued)'
    <3>1. Held(LastOf(c), EdgeOf(c), issued)
      BY <1>2, <1>5, <2>1 DEF StoreInv, SlotsInOrder
    <3> QED BY <1>2, <2>5, <3>1 DEF Held, Counted
  <2>7. SlotsInOrder'
    BY <1>2, <2>4, <2>6 DEF SlotsInOrder, LastCounted
  <2>8. HeldNumber' = ScanNumber
    BY <1>2, <2>3, <2>4, <2>5 DEF HeldNumber
  <2>9. indexRead' + unitNumber' \in {ScanLast, ScanLast + M}
    <3>1. C \in Nat /\ C <= M /\ M \in Nat /\ ScanFirst \in Nat /\ ScanFirst < M
          /\ ScanLast \in Nat /\ ScanLast < M
      BY <2>3, SlotFacts, ZeroTypes
    <3> QED BY <1>2, <2>3, <3>1 DEF Wrap, Lower
  <2>10. OTP => ScanNumber <= C
    BY <1>2, <1>5, <2>1, <2>3 DEF StoreInv, Window
  <2>11. Window'
    BY <1>2, <2>8, <2>9, <2>10 DEF Window
  <2> QED BY <1>1, <1>3, <2>7, <2>11 DEF StoreInv
<1> QED BY <1>4, <1>5

LEMMA OpenRepairStore ==
    ASSUME StoreInv, OpenRepair
    PROVE  StoreInv'
<1>1. RingInv /\ RingInv' /\ TypeOK
  BY OpenRepairRing DEF StoreInv, RingInv, IInv
<1>2. /\ pc = "off" /\ pc' = "openHeader" /\ UNCHANGED torn
      /\ EraseBlock(ScanStop) /\ ~hdr[ScanStop].sig
  BY DEF OpenRepair, history
<1>3. ScanStop \in Blocks
  BY <1>2, ScanStopFacts DEF OpenRepair
<1>4. /\ hdr'[ScanStop] = ErasedHeader
      /\ \A a \in Blocks : a # ScanStop => hdr'[a] = hdr[a]
  BY <1>1, <1>2, <1>3, EraseBlockFacts
<1>5. UnsignedIsErased' /\ ClearedCount'
  BY <1>2, <1>4 DEF StoreInv, UnsignedIsErased, ClearedCount
<1>6. SlotsInOrder'
  <2> SUFFICES ASSUME ~torn PROVE Counted' = {}
    BY <1>2 DEF SlotsInOrder
  <2>1. PICK c \in Blocks : Ordered(c)
    BY <1>1, <1>2 DEF RingInv, BlocksInOrder
  <2>2. ScanStop = c
    BY <2>1, ScanIs DEF Ordered
  <2>3. hdr[c] = ErasedHeader /\ c = 0 /\ NoneFullAfter(c)
    BY <1>2, <2>1, <2>2 DEF StoreInv, UnsignedIsErased, Ordered
  <2>4. LastOf(c) = 0 /\ EdgeOf(c) = M
    <3>1. c + 1 < B => c + 1 \in Blocks /\ c + 1 > c
      BY <2>1, <2>3, BlockStart, SlotFacts
    <3>2. EdgeOf(c) = M
      BY <2>3, <3>1 DEF EdgeOf, NoneFullAfter
    <3> QED BY <2>3, <3>2, SlotFacts DEF LastOf, ErasedHeader
  <2>5. Counted = {s \in Slots : s < 0 \/ s >= M}
    BY <1>2, <2>1, <2>4 DEF StoreInv, SlotsInOrder, Held
  <2>6. Counted = {}
    BY <2>5, NoSlots
  <2>7. \A b \in Blocks : hdr'[b] = hdr[b]
    BY <1>4, <2>2, <2>3
  <2> QED BY <2>6, <2>7, SlotFacts DEF Counted
<1>7. Window'
  BY <1>2 DEF Window
<1> QED BY <1>1, <1>5, <1>6, <1>7 DEF StoreInv

\* After a step that leaves nothing counted, block 0 is filled from its start.
LEMMA NothingHeld ==
    ASSUME Counted' = {}, hdr'[0].cnt = 0, NoneFullAfter(0)'
    PROVE  /\ LastOf(0)' = 0 /\ EdgeOf(0)' = M
           /\ Held(LastOf(0), EdgeOf(0), LastCounted)'
<1>1. 0 + 1 < B => 0 + 1 \in Blocks /\ 0 + 1 > 0
  BY ZeroTypes, BlockStart
<1>2. EdgeOf(0)' = M
  BY <1>1 DEF EdgeOf, NoneFullAfter
<1>3. LastOf(0)' = 0
  BY SlotFacts DEF LastOf
<1> QED BY <1>2, <1>3, NoSlots, SlotFacts DEF Held

LEMMA OpenRepairHeaderStore ==
    ASSUME StoreInv, OpenRepairHeader
    PROVE  StoreInv'
<1>1. /\ RingInv /\ RingInv' /\ TypeOK /\ PartialBlocks /\ CountedAreProgrammed
  BY OpenRepairHeaderRing DEF StoreInv, RingInv, IInv
<1>2. /\ pc = "openHeader" /\ ProgramHeader(blk, FILLING, pointerId, 0)
      /\ indexLast' = blk * U /\ pc' = "idle" /\ UNCHANGED <<slot, torn, spoiled>>
      /\ LET n == blk * U
         IN  /\ indexRead' = IF n > C THEN Wrap(n + (n - C)) ELSE n
             /\ unitNumber' = Lower(n, C)
  BY DEF OpenRepairHeader, Opened
<1>3. blk \in Blocks /\ hdr[blk] = ErasedHeader /\ pointerId \in Words
  BY <1>1, <1>2 DEF RingInv, TypeOK, IInv, ErasedBeforeHeader
<1>4. /\ hdr'[blk].cnt = 0 /\ hdr'[blk].sig
      /\ \A a \in Blocks : a # blk => hdr'[a] = hdr[a]
  BY <1>1, <1>2, <1>3, ZeroHeaderKeeps
<1>5. UnsignedIsErased' /\ ClearedCount'
  BY <1>2, <1>4 DEF StoreInv, UnsignedIsErased, ClearedCount
<1>6. CASE torn
  BY <1>1, <1>2, <1>5, <1>6 DEF StoreInv, SlotsInOrder, Window
<1>7. CASE ~torn
  <2>1. blk = 0 /\ NoneFullAfter(0) /\ Counted = {}
    BY <1>1, <1>2, <1>3, <1>7
       DEF RingInv, BlocksInOrder, Ordered, ErasedHeader, StoreInv, SlotsInOrder
  <2>2. Counted' = {}
    <3>1. ASSUME NEW s \in Slots PROVE ~(OffsetOf(s) < hdr'[BlockOf(s)].cnt)
      <4>1. BlockOf(s) \in Blocks /\ OffsetOf(s) \in Nat
        BY SlotFacts
      <4>2. CASE BlockOf(s) = 0
        BY <1>4, <2>1, <4>1, <4>2
      <4>3. CASE BlockOf(s) # 0
        BY <1>4, <2>1, <4>1, <4>3 DEF Counted
      <4> QED BY <4>2, <4>3
    <3> QED BY <3>1 DEF Counted
  <2>3. hdr'[0].cnt = 0 /\ NoneFullAfter(0)'
    BY <1>4, <2>1 DEF NoneFullAfter, IsFull
  <2>4. indexLast' = 0 /\ Cur' = 0 /\ indexRead' = 0 /\ unitNumber' = 0
    <3>1. 0 * U = 0 /\ C \in Nat \ {0}
      BY SlotFacts
    <3> QED BY <1>2, <2>1, <3>1, ZeroTypes DEF Cur, BlockOf, Lower
  <2>5. /\ LastOf(0)' = 0 /\ EdgeOf(0)' = M
        /\ Held(LastOf(0), EdgeOf(0), LastCounted)'
    BY <2>2, <2>3, NothingHeld
  <2>6. SlotsInOrder'
    BY <1>2, <2>4, <2>5 DEF SlotsInOrder
  <2>7. HeldNumber' = 0
    BY <1>2, <2>4, <2>5, SlotFacts DEF HeldNumber
  <2>8. Window'
    BY <1>2, <2>4, <2>7, SlotFacts DEF Window, Lower
  <2> QED BY <1>1, <1>5, <2>6, <2>8 DEF StoreInv
<1> QED BY <1>6, <1>7

LEMMA OpenHangStore ==
    ASSUME StoreInv, OpenHang
    PROVE  StoreInv'
<1>1. RingInv'
  BY OpenHangRing DEF StoreInv
<1>2. pc' = "hung" /\ UNCHANGED <<hdr, slot>>
  BY DEF OpenHang, flash
<1> QED BY <1>1, <1>2 DEF StoreInv, SlotsInOrder, UnsignedIsErased, ClearedCount, Window

-----------------------------------------------------------------------------
(* FSLOG_Write *)

\* Between operations the block to fill, its end and the write pointer agree.
LEMMA PointerFacts ==
    ASSUME RingInv, pc \in {"idle", "counter"}
    PROVE  /\ Cur \in Blocks /\ indexLast \in Slots /\ LastOf(Cur) = indexLast
           /\ hdr[Cur].cnt = OffsetOf(indexLast) /\ OffsetOf(indexLast) \in 0 .. U - 1
           /\ indexLast \notin Counted
           /\ EdgeOf(Cur) \in Nat /\ indexLast < EdgeOf(Cur) /\ EdgeOf(Cur) <= M
<1>1. indexLast \in Slots /\ hdr[Cur].cnt = OffsetOf(indexLast)
  BY DEF RingInv, IInv, TypeOK, PointerAtCount, Cur
<1>2. /\ Cur \in Blocks /\ OffsetOf(indexLast) \in 0 .. U - 1
      /\ indexLast = Cur * U + OffsetOf(indexLast)
  BY <1>1, SlotFacts DEF Cur
<1>3. indexLast \notin Counted
  BY <1>1, <1>2 DEF Counted, Cur
<1>4. /\ Cur * U \in Nat /\ Cur * U + U <= M /\ (Cur + 1) * U = Cur * U + U
      /\ U \in Nat /\ M \in Nat
  BY <1>2, BlockBounds, SlotFacts
<1>5. EdgeOf(Cur) \in Nat /\ indexLast < EdgeOf(Cur) /\ EdgeOf(Cur) <= M
  BY <1>2, <1>4 DEF EdgeOf
<1> QED BY <1>1, <1>2, <1>3, <1>5 DEF LastOf

LEMMA WriteDataStore ==
    ASSUME StoreInv, WriteData
    PROVE  StoreInv'
<1>1. RingInv /\ RingInv' /\ slot \in [Slots -> SUBSET Nat] /\ issued \in Nat
  BY WriteDataRing DEF StoreInv, RingInv, IInv, TypeOK
<1>2. /\ pc = "idle" /\ pc' = "counter" /\ ~OtpFull
      /\ slot' = [slot EXCEPT ![indexLast] = @ \cup {issued + 1}] /\ issued' = issued + 1
      /\ UNCHANGED <<hdr, indexFirst, indexLast, indexRead, unitNumber, torn, spoiled, fresh>>
  BY DEF WriteData
<1>3. UnsignedIsErased' /\ ClearedCount'
  BY <1>2 DEF StoreInv, UnsignedIsErased, ClearedCount
<1>4. CASE torn
  BY <1>1, <1>2, <1>3, <1>4 DEF StoreInv, SlotsInOrder, Window
<1>5. CASE ~torn
  <2>1. PICK c \in Blocks : c = Cur
    BY <1>1, <1>2, PointerFacts
  <2>2. Cur' = c /\ LastOf(c)' = LastOf(c) /\ EdgeOf(c)' = EdgeOf(c) /\ Counted' = Counted
    BY <1>2, <2>1 DEF Cur, BlockOf, LastOf, EdgeOf, IsFull, Counted
  <2>3. /\ indexLast \in Slots /\ indexLast \notin Counted /\ LastOf(c) = indexLast
        /\ LastOf(c) \in Nat /\ EdgeOf(c) \in Nat /\ M \in Nat
    BY <1>1, <1>2, <2>1, PointerFacts, SlotFacts, ZeroTypes
  <2>4. LastCounted' = LastCounted
    BY <1>1, <1>2 DEF LastCounted
  <2>5. Held(LastOf(Cur), EdgeOf(Cur), LastCounted)'
    <3>1. Held(LastOf(c), EdgeOf(c), LastCounted)
      BY <1>2, <1>5, <2>1 DEF StoreInv, SlotsInOrder
    <3>2. \A s \in Counted : slot'[s] = slot[s]
      BY <1>1, <1>2, <2>3 DEF Counted
    <3> QED BY <1>2, <2>2, <2>4, <3>1, <3>2 DEF Held
  <2>6. ~spoiled => slot'[indexLast] = {issued + 1}
    BY <1>1, <1>2, <1>5, <2>3, PointerErased
  <2>7. SlotsInOrder'
    BY <1>2, <2>5, <2>6 DEF SlotsInOrder
  <2>8. HeldNumber' = HeldNumber /\ HeldNumber \in Int
    BY <1>2, <2>1, <2>2, <2>3 DEF HeldNumber
  <2>9. Window'
    <3>1. /\ fresh \/ OTP => unitNumber = Lower(HeldNumber, C)
          /\ fresh => indexRead + unitNumber \in {indexLast, indexLast + M}
          /\ OTP => HeldNumber <= C
      BY <1>2, <1>5 DEF StoreInv, Window
    <3>2. OTP => HeldNumber < C
      BY <1>2, <2>8, <3>1, SlotFacts DEF OtpFull, Lower
    <3> QED BY <1>2, <2>8, <3>1, <3>2 DEF Window
  <2> QED BY <1>1, <1>3, <2>7, <2>9 DEF StoreInv
<1> QED BY <1>4, <1>5

\* Counting a unit adds its slot and no other.
LEMMA CountAdds ==
    ASSUME IInv, WriteCounter
    PROVE  Counted' = Counted \cup {indexLast}
<1>1. PICK b \in Blocks : b = BlockOf(indexLast)
  BY SlotFacts DEF IInv, TypeOK
<1>2. PICK k \in 0 .. U - 1 : k = OffsetOf(indexLast)
  BY SlotFacts DEF IInv, TypeOK
<1>3. /\ indexLast \in Slots /\ hdr[b].cnt = k /\ hdr'[b].cnt = k + 1
      /\ \A a \in Blocks : a # b => hdr'[a] = hdr[a]
  BY <1>1, <1>2, CountFacts
<1>4. ASSUME NEW s \in Slots
      PROVE  OffsetOf(s) < hdr'[BlockOf(s)].cnt
                 <=> OffsetOf(s) < hdr[BlockOf(s)].cnt \/ s = indexLast
  <2>1. BlockOf(s) \in Blocks /\ OffsetOf(s) \in 0 .. U - 1 /\ s = BlockOf(s) * U + OffsetOf(s)
    BY SlotFacts
  <2>2. indexLast = b * U + k
    BY <1>1, <1>2, <1>3, SlotFacts
  <2>3. CASE BlockOf(s) # b
    BY <1>1, <1>3, <2>1, <2>3
  <2>4. CASE BlockOf(s) = b
    <3>1. s = indexLast <=> OffsetOf(s) = k
      BY <1>2, <2>1, <2>2, <2>4
    <3> QED BY <1>3, <2>1, <2>4, <3>1, SlotFacts
  <2> QED BY <2>3, <2>4
<1> QED BY <1>3, <1>4 DEF Counted

LEMMA WriteCounterStore ==
    ASSUME StoreInv, WriteCounter
    PROVE  StoreInv' /\ (~torn => HeldNumber' = HeldNumber + 1)
<1> DEFINE k == OffsetOf(indexLast)
<1>1. RingInv /\ RingInv' /\ IInv /\ TypeOK
  BY WriteCounterRing DEF StoreInv, RingInv, IInv
<1>2. /\ pc = "counter" /\ UNCHANGED <<slot, indexFirst, issued, torn, spoiled, fresh>>
      /\ indexLast' = Wrap(indexLast + 1)
      /\ IF unitNumber < C
         THEN unitNumber' = unitNumber + 1 /\ UNCHANGED indexRead
         ELSE indexRead' = Wrap(indexRead + 1) /\ UNCHANGED unitNumber
  BY DEF WriteCounter, CountUnit, history
<1>3. PICK b \in Blocks : b = Cur
  BY <1>1, SlotFacts DEF TypeOK, Cur
<1>4. PICK L \in Slots : L = indexLast /\ LastOf(b) = L
  BY <1>1, <1>2, <1>3, PointerFacts
<1>5. PICK E \in Nat : E = EdgeOf(b) /\ L < E /\ E <= M
  BY <1>1, <1>2, <1>3, <1>4, PointerFacts
<1>6. /\ hdr'[b].cnt = k + 1 /\ hdr[b].cnt = k /\ hdr'[b].sig /\ k \in 0 .. U - 1
      /\ \A a \in Blocks : a # b => hdr'[a] = hdr[a]
      /\ k # U - 1 => pc' = "idle" /\ BlockOf(indexLast') = b
      /\ k = U - 1 => pc' = "nextErase"
  BY <1>1, <1>3, CountFacts DEF Cur
<1>7. UnsignedIsErased' /\ ClearedCount'
  BY <1>2, <1>6 DEF StoreInv, UnsignedIsErased, ClearedCount
<1>8. CASE torn
  BY <1>1, <1>2, <1>6, <1>7, <1>8 DEF StoreInv, SlotsInOrder, Window
<1>9. CASE ~torn
  <2> DEFINE NewEdge == IF k = U - 1 /\ ~(b + 1 < B) THEN 0 ELSE E
  <2>1. L \in Nat /\ L < M /\ M \in Nat /\ issued \in Nat /\ L = b * U + k
    BY <1>1, <1>4, <1>6, ZeroTypes, SlotFacts DEF TypeOK, LastOf
  <2>2. IF k = U - 1 /\ ~(b + 1 < B)
        THEN indexLast' = 0 /\ L = M - 1 /\ E = M
        ELSE indexLast' = L + 1 /\ L + 1 < M
    <3>1. b * U \in Nat /\ b * U + U <= M /\ (b + 1 < B => b * U + U < M)
          /\ (~(b + 1 < B) => b * U + U = M) /\ U \in Nat
      BY BlockBounds, SlotFacts
    <3>2. k = U - 1 /\ ~(b + 1 < B) => L = M - 1 /\ E = M
      BY <1>5, <2>1, <3>1 DEF EdgeOf
    <3>3. ~(k = U - 1 /\ ~(b + 1 < B)) => L + 1 < M
      BY <1>6, <2>1, <3>1
    <3> QED BY <1>2, <1>4, <2>1, <3>2, <3>3 DEF Wrap
  <2>3. Counted' = {s \in Slots : s < indexLast' \/ s >= NewEdge} /\ indexLast' <= NewEdge
    <3>1. Counted' = Counted \cup {L}
      BY <1>1, <1>4, CountAdds
    <3>2. Counted = {s \in Slots : s < L \/ s >= E}
      BY <1>2, <1>3, <1>4, <1>5, <1>9 DEF StoreInv, SlotsInOrder, Held
    <3>3. \A s \in Slots : s \in Nat /\ s < M
      BY ZeroTypes
    <3> HIDE DEF k
    <3>4. \A s \in Slots : (s < L \/ s >= E) \/ s = L <=> s < indexLast' \/ s >= NewEdge
      BY <1>5, <2>1, <2>2, <3>3
    <3>5. indexLast' <= NewEdge
      BY <1>5, <2>1, <2>2
    <3> HIDE DEF NewEdge
    <3>6. Counted' = {s \in Slots : s < indexLast' \/ s >= NewEdge}
      BY <1>4, <3>1, <3>2, <3>4
    <3> QED BY <3>5, <3>6
  <2>4. ~spoiled => \A s \in Counted' :
            slot'[s] = {IF s < indexLast' THEN issued + 1 - indexLast' + s
                                          ELSE issued + 1 - indexLast' - M + s}
    <3> SUFFICES ASSUME ~spoiled, NEW s \in Counted'
                 PROVE  slot'[s] = {IF s < indexLast' THEN issued + 1 - indexLast' + s
                                                      ELSE issued + 1 - indexLast' - M + s}
      OBVIOUS
    <3>1. s \in Nat /\ s < M /\ s \in Slots
      BY ZeroTypes DEF Counted
    <3>2. CASE s = L
      <4>1. slot'[s] = {issued}
        BY <1>2, <1>4, <1>9, <3>2 DEF StoreInv, SlotsInOrder
      <4> HIDE DEF k
      <4> QED BY <2>1, <2>2, <3>1, <3>2, <4>1
    <3>3. CASE s # L
      <4>1. s \in Counted
        BY <1>1, <1>4, <3>3, CountAdds
      <4>2. Held(L, E, issued - 1)
        BY <1>2, <1>3, <1>4, <1>5, <1>9 DEF StoreInv, SlotsInOrder, LastCounted
      <4>3. s < L \/ s >= E
        BY <4>1, <4>2 DEF Held
      <4>4. slot[s] = {IF s < L THEN issued - 1 + 1 - L + s ELSE issued - 1 + 1 - L - M + s}
        BY <4>1, <4>2 DEF Held
      <4> HIDE DEF k
      <4>5. CASE s < L
        BY <1>2, <2>1, <2>2, <3>1, <4>4, <4>5
      <4>6. CASE ~(s < L)
        BY <1>2, <1>5, <2>1, <2>2, <3>1, <4>3, <4>4, <4>6
      <4> QED BY <4>5, <4>6
    <3> QED BY <3>2, <3>3
  <2>5. /\ HeldNumber = L + M - E
        /\ NewEdge \in Nat /\ NewEdge <= M /\ indexLast' \in Nat
        /\ indexLast' + M - NewEdge = HeldNumber + 1
    BY <1>2, <1>3, <1>4, <1>5, <2>1, <2>2 DEF HeldNumber
  <2>6. SlotsInOrder' /\ HeldNumber' = indexLast' + M - NewEdge
    <3>1. CASE k # U - 1
      <4>1. Cur' = b /\ LastOf(b)' = indexLast' /\ EdgeOf(b)' = NewEdge /\ pc' = "idle"
        <5>1. LastOf(b)' = b * U + (k + 1)
          BY <1>6 DEF LastOf
        <5>2. b + 1 < B => b + 1 \in Blocks /\ b + 1 # b
          BY BlockStart, ZeroTypes
        <5>3. EdgeOf(b)' = EdgeOf(b)
          BY <1>6, <5>2 DEF EdgeOf, IsFull
        <5>4. b * U \in Nat
          BY BlockBounds
        <5> QED BY <1>5, <1>6, <2>1, <2>2, <3>1, <5>1, <5>3, <5>4 DEF Cur
      <4>2. LastCounted' = issued
        BY <1>2, <4>1 DEF LastCounted
      <4> HIDE DEF k, NewEdge
      <4>3. Held(LastOf(b), EdgeOf(b), LastCounted)'
        BY <1>2, <2>3, <2>4, <2>5, <4>1, <4>2 DEF Held
      <4>4. SlotsInOrder'
        BY <4>1, <4>3 DEF SlotsInOrder
      <4> QED BY <4>1, <4>4 DEF HeldNumber
    <3>2. CASE k = U - 1
      <4>1. pc' = "nextErase"
        BY <1>6, <3>2
      <4>2. EnteredEdge' = NewEdge
        <5>1. indexFirst' = FirstOf(b)
          BY <1>1, <1>2, <1>3, <1>9 DEF RingInv, BlocksInOrder
        <5>2. CASE ~(b + 1 < B)
          BY <2>2, <3>2, <5>1, <5>2 DEF FirstOf, EnteredEdge
        <5>3. CASE b + 1 < B
          <6>1. (b + 1) * U = b * U + U /\ b * U \in Nat /\ U \in Nat
            BY BlockBounds, SlotFacts
          <6>2. indexLast' = (b + 1) * U /\ indexLast' # 0 /\ NewEdge = E
            BY <2>1, <2>2, <3>2, <5>3, <6>1
          <6>3. CASE IsFull(b + 1)
            BY <1>5, <5>1, <5>3, <6>2, <6>3 DEF FirstOf, EnteredEdge, EdgeOf
          <6>4. CASE ~IsFull(b + 1)
            BY <1>5, <5>1, <5>3, <6>2, <6>4 DEF FirstOf, EnteredEdge, EdgeOf
          <6> QED BY <6>3, <6>4
        <5> QED BY <5>2, <5>3
      <4> HIDE DEF k, NewEdge
      <4>3. Held(indexLast, EnteredEdge, issued)'
        BY <1>2, <2>3, <2>4, <2>5, <4>2 DEF Held
      <4>4. SlotsInOrder'
        BY <4>1, <4>3 DEF SlotsInOrder
      <4> QED BY <4>1, <4>2, <4>4 DEF HeldNumber
    <3> QED BY <3>1, <3>2
  <2>7. pc' \in {"idle", "nextErase"}
    BY <1>6
  <2>8. Window'
    <3> DEFINE n == HeldNumber
    <3>1. HeldNumber' = n + 1 /\ n \in Int
      BY <1>5, <2>1, <2>5, <2>6
    <3>2. /\ fresh \/ OTP => unitNumber = Lower(n, C)
          /\ fresh => indexRead + unitNumber \in {L, L + M}
          /\ OTP => n < C
      BY <1>2, <1>4, <1>9 DEF StoreInv, Window
    <3>3. /\ C \in Nat \ {0} /\ C <= M /\ unitNumber \in Nat
          /\ indexRead \in Nat /\ indexRead < M
      BY <1>1, SlotFacts, ZeroTypes DEF TypeOK, Words
    <3>4. indexLast' = IF L + 1 = M THEN 0 ELSE L + 1
      BY <1>2, <1>4, <2>1 DEF Wrap
    <3> HIDE DEF n, k, NewEdge
    <3>5. fresh \/ OTP => unitNumber' = Lower(n + 1, C)
      BY <1>2, <3>1, <3>2, <3>3 DEF Lower
    <3>6. fresh => indexRead' + unitNumber' \in {indexLast', indexLast' + M}
      <4> SUFFICES ASSUME fresh PROVE indexRead' + unitNumber' \in {indexLast', indexLast' + M}
        OBVIOUS
      <4>1. unitNumber <= C /\ (indexRead + unitNumber = L \/ indexRead + unitNumber = L + M)
        BY <3>1, <3>2, <3>3 DEF Lower
      <4>2. CASE unitNumber < C
        <5>1. unitNumber' = unitNumber + 1 /\ indexRead' = indexRead
          BY <1>2, <4>2
        <5> QED BY <2>1, <3>3, <3>4, <4>1, <4>2, <5>1
      <4>3. CASE ~(unitNumber < C)
        <5>1. unitNumber' = C /\ unitNumber = C /\ indexRead' = Wrap(indexRead + 1)
          BY <1>2, <3>3, <4>1, <4>3
        <5> QED BY <2>1, <3>3, <3>4, <4>1, <5>1 DEF Wrap
      <4> QED BY <4>2, <4>3
    <3>7. OTP => n + 1 <= C
      BY <3>1, <3>2, <3>3
    <3> QED BY <1>2, <2>7, <3>1, <3>5, <3>6, <3>7 DEF Window
  <2> QED BY <1>1, <1>7, <2>5, <2>6, <2>8 DEF StoreInv
<1> QED BY <1>8, <1>9

LEMMA NextEraseStore ==
    ASSUME StoreInv, NextErase
    PROVE  StoreInv'
<1>1. RingInv /\ RingInv' /\ TypeOK /\ indexLast \in Slots
  BY NextEraseRing DEF StoreInv, RingInv, IInv, TypeOK
<1>2. PICK c \in Blocks : c = Cur
  BY <1>1, SlotFacts DEF Cur
<1>3. /\ pc = "nextErase" /\ pc' = "nextHeader" /\ EraseBlock(c)
      /\ UNCHANGED <<indexFirst, indexLast, indexRead, unitNumber, issued, torn, spoiled, fresh>>
  BY <1>2 DEF NextErase, ram, history, Cur
<1>4. /\ hdr'[c] = ErasedHeader
      /\ \A a \in Blocks : a # c => hdr'[a] = hdr[a]
      /\ \A s \in Slots : BlockOf(s) # c => slot'[s] = slot[s]
  BY <1>1, <1>3, EraseBlockFacts
<1>5. UnsignedIsErased' /\ ClearedCount'
  BY <1>3, <1>4 DEF StoreInv, UnsignedIsErased, ClearedCount
<1>6. SlotsInOrder'
  <2> SUFFICES ASSUME ~torn
               PROVE  Held(indexLast, IF indexFirst = indexLast THEN indexLast + U ELSE M, issued)'
    BY <1>3 DEF SlotsInOrder
  <2> DEFINE edge == IF indexFirst = indexLast THEN indexLast + U ELSE M
  <2>1. Held(indexLast, EnteredEdge, issued)
    BY <1>3 DEF StoreInv, SlotsInOrder
  <2>2. indexLast = c * U
    <3>1. OffsetOf(indexLast) = 0 /\ indexLast = c * U + OffsetOf(indexLast)
      BY <1>1, <1>2, <1>3, SlotFacts DEF RingInv, IInv, EntersAtStart, Cur
    <3> QED BY <3>1, BlockBounds
  <2>3. /\ indexLast \in Nat /\ U \in Nat \ {0} /\ indexLast + U <= M /\ M \in Nat
    BY <1>1, <2>2, BlockBounds, SlotFacts, ZeroTypes
  <2>4. ASSUME NEW s \in Slots
        PROVE  s \in Counted' <=> s \in Counted /\ BlockOf(s) # c
    <3>1. BlockOf(s) \in Blocks /\ OffsetOf(s) \in Nat
      BY SlotFacts
    <3>2. ErasedHeader.cnt = 0
      BY DEF ErasedHeader
    <3> QED BY <1>4, <3>1, <3>2 DEF Counted
  <2>5. ASSUME NEW s \in Slots
        PROVE  s \in Counted' <=> s < indexLast \/ s >= edge
    <3>1. s \in Counted <=> s < indexLast \/ s >= EnteredEdge
      BY <2>1 DEF Held
    <3>2. BlockOf(s) = c <=> (indexLast <= s /\ s < indexLast + U)
      BY <2>2, InBlock
    <3>3. s \in Nat /\ s < M
      BY ZeroTypes
    <3> QED BY <2>3, <2>4, <3>1, <3>2, <3>3 DEF EnteredEdge
  <2>6. Counted' = {s \in Slots : s < indexLast \/ s >= edge}
    <3> HIDE DEF edge
    <3>1. \A s \in Counted' : s \in Slots
      BY DEF Counted
    <3> QED BY <2>5, <3>1
  <2>7. ~spoiled => \A s \in Counted' :
            slot'[s] = {IF s < indexLast THEN issued + 1 - indexLast + s
                                         ELSE issued + 1 - indexLast - M + s}
    <3>1. \A s \in Counted' : s \in Counted /\ slot'[s] = slot[s]
      BY <1>4, <2>4 DEF Counted
    <3> QED BY <2>1, <3>1 DEF Held
  <2> QED BY <1>3, <2>3, <2>6, <2>7 DEF Held
<1>7. HeldNumber' = HeldNumber
  BY <1>3 DEF HeldNumber, EnteredEdge
<1>8. Window'
  BY <1>3, <1>7 DEF StoreInv, Window
<1> QED BY <1>1, <1>5, <1>6, <1>8 DEF StoreInv

LEMMA NextHeaderStore ==
    ASSUME StoreInv, NextHeader
    PROVE  /\ StoreInv'
           /\ ~torn => IF Recycled THEN HeldNumber = M /\ HeldNumber' = M - U
                       ELSE HeldNumber' = HeldNumber
<1>1. /\ RingInv /\ RingInv' /\ TypeOK /\ PartialBlocks /\ CountedAreProgrammed
      /\ pointerId \in Words /\ indexLast \in Slots
  BY NextHeaderRing DEF StoreInv, RingInv, IInv, TypeOK
<1>2. PICK c \in Blocks : c = Cur
  BY <1>1, SlotFacts DEF Cur
<1>3. /\ pc = "nextHeader" /\ pc' = "idle" /\ ProgramHeader(c, FILLING, pointerId, 0)
      /\ unitNumber' = IF indexLast = indexFirst THEN (unitNumber + W - U) % W ELSE unitNumber
      /\ fresh' = (fresh /\ indexLast # indexFirst)
      /\ UNCHANGED <<slot, indexLast, indexRead, issued, torn, spoiled>>
      /\ Cur' = c
  BY <1>2 DEF NextHeader, Recycled, Cur, BlockOf
<1>4. hdr[c] = ErasedHeader
  BY <1>1, <1>2, <1>3 DEF RingInv, IInv, ErasedBeforeHeader, Cur
<1>5. /\ hdr'[c].cnt = 0 /\ hdr'[c].sig /\ \A a \in Blocks : a # c => hdr'[a] = hdr[a]
  BY <1>1, <1>3, <1>4, ZeroHeaderKeeps
<1>6. UnsignedIsErased' /\ ClearedCount'
  BY <1>3, <1>5 DEF StoreInv, UnsignedIsErased, ClearedCount
<1>7. CASE torn
  BY <1>1, <1>3, <1>6, <1>7 DEF StoreInv, SlotsInOrder, Window
<1>8. CASE ~torn
  <2> DEFINE edge == IF indexFirst = indexLast THEN indexLast + U ELSE M
  <2>1. Held(indexLast, edge, issued)
    BY <1>3, <1>8 DEF StoreInv, SlotsInOrder
  <2>2. indexLast = c * U
    <3>1. OffsetOf(indexLast) = 0 /\ indexLast = c * U + OffsetOf(indexLast)
      BY <1>1, <1>2, <1>3, SlotFacts DEF RingInv, IInv, EntersAtStart, Cur
    <3> QED BY <3>1, BlockBounds
  <2>3. /\ c * U \in Nat /\ c * U + U <= M /\ (c + 1) * U = c * U + U
        /\ ~(c + 1 < B) => c * U + U = M
        /\ U \in Nat \ {0} /\ M \in Nat /\ C \in Nat /\ C <= M /\ M < W /\ W \in Nat
    BY BlockBounds, SlotFacts
  <2>4. LastOf(c)' = indexLast
    BY <1>5, <2>2, <2>3 DEF LastOf
  <2>5. EdgeOf(c)' = edge
    <3>1. c + 1 < B => c + 1 \in Blocks /\ c + 1 # c /\ c + 1 > c
      BY BlockStart, ZeroTypes
    <3>2. c + 1 < B => (IsFull(c + 1)' <=> IsFull(c + 1))
      BY <1>5, <3>1 DEF IsFull
    <3>3. Entered
      BY <1>1, <1>3, <1>8 DEF RingInv, BlocksInOrder
    <3>4. CASE indexFirst = indexLast
      <4>1. FullAfter(c)
        BY <1>2, <2>2, <3>3, <3>4, BlockStart DEF Entered
      <4>2. c + 1 < B => IsFull(c + 1)
        BY <3>1, <4>1 DEF FullAfter
      <4> QED BY <2>2, <2>3, <3>2, <3>4, <4>2 DEF EdgeOf
    <3>5. CASE indexFirst # indexLast
      <4>1. NoneFullAfter(c)
        BY <1>2, <3>3, <3>5 DEF Entered
      <4>2. c + 1 < B => ~IsFull(c + 1)
        BY <3>1, <4>1 DEF NoneFullAfter
      <4> QED BY <3>2, <3>5, <4>2 DEF EdgeOf
    <3> QED BY <3>4, <3>5
  <2>6. Counted' = Counted
    <3>1. \A b \in Blocks : hdr'[b].cnt = hdr[b].cnt
      BY <1>4, <1>5 DEF ErasedHeader
    <3> QED BY <3>1, SlotFacts DEF Counted
  <2>7. SlotsInOrder'
    <3>1. Held(LastOf(c), EdgeOf(c), issued)'
      <4> HIDE DEF edge
      <4> QED BY <1>3, <2>1, <2>4, <2>5, <2>6 DEF Held
    <3> QED BY <1>3, <3>1 DEF SlotsInOrder, LastCounted
  <2>8. HeldNumber' = indexLast + M - edge
    BY <1>3, <2>4, <2>5 DEF HeldNumber
  <2>9. HeldNumber = indexLast + M - EnteredEdge
    BY <1>3 DEF HeldNumber
  <2>10. /\ fresh \/ OTP => unitNumber = Lower(HeldNumber, C)
         /\ fresh => indexRead + unitNumber \in {indexLast, indexLast + M}
         /\ OTP => HeldNumber <= C
    BY <1>3, <1>8 DEF StoreInv, Window
  <2>11. CASE indexFirst # indexLast
    <3>1. HeldNumber' = HeldNumber
      BY <2>8, <2>9, <2>11 DEF EnteredEdge
    <3>2. Window'
      BY <1>3, <2>10, <2>11, <3>1 DEF Window
    <3> QED BY <1>1, <1>6, <2>7, <2>11, <3>1, <3>2 DEF StoreInv, Recycled
  <2>12. CASE indexFirst = indexLast
    <3>1. HeldNumber = M /\ HeldNumber' = M - U /\ M - U \in Nat
      BY <2>2, <2>3, <2>8, <2>9, <2>12 DEF EnteredEdge
    <3>2. OTP => unitNumber' = M - U /\ M - U <= C /\ M - U = Lower(M - U, C)
      <4> SUFFICES ASSUME OTP PROVE unitNumber' = M - U /\ M - U <= C /\ M - U = Lower(M - U, C)
        OBVIOUS
      <4>1. unitNumber = M /\ C = M
        BY <2>3, <2>10, <3>1 DEF Lower
      <4>2. unitNumber + W - U = 1 * W + (M - U)
        BY <2>3, <4>1
      <4>3. W \in Nat \ {0} /\ 1 \in Nat /\ M - U \in 0 .. W - 1
        BY <2>3, <3>1
      <4>4. (1 * W + (M - U)) % W = M - U
        BY <4>3, DivMod
      <4> QED BY <1>3, <2>3, <2>12, <3>1, <4>1, <4>2, <4>4 DEF Lower
    <3>3. fresh' = FALSE
      BY <1>3, <2>12
    <3>4. Window'
      BY <1>3, <3>1, <3>2, <3>3 DEF Window
    <3> QED BY <1>1, <1>6, <2>7, <2>12, <3>1, <3>4 DEF StoreInv, Recycled
  <2> QED BY <2>11, <2>12
<1> QED BY <1>7, <1>8

-----------------------------------------------------------------------------
(* FSLOG_Clear and the environment *)

LEMMA ClearStartStore ==
    ASSUME StoreInv, ClearStart
    PROVE  StoreInv'
<1>1. RingInv'
  BY ClearStartRing DEF StoreInv
<1>2. pc' = "clearErase" /\ blk' = 0 /\ UNCHANGED <<hdr, slot>>
  BY DEF ClearStart, flash
<1>3. ClearedCount'
  BY <1>2, ZeroTypes DEF ClearedCount
<1> QED BY <1>1, <1>2, <1>3 DEF StoreInv, SlotsInOrder, UnsignedIsErased, Window

LEMMA ClearEraseStore ==
    ASSUME StoreInv, ClearErase
    PROVE  StoreInv'
<1>1. RingInv /\ RingInv' /\ TypeOK /\ blk \in Blocks
  BY ClearEraseRing DEF StoreInv, RingInv, IInv, TypeOK
<1>2. pc = "clearErase" /\ pc' = "clearHeader" /\ EraseBlock(blk) /\ UNCHANGED blk
  BY DEF ClearErase
<1>3. hdr'[blk] = ErasedHeader /\ \A a \in Blocks : a # blk => hdr'[a] = hdr[a]
  BY <1>1, <1>2, EraseBlockFacts
<1>4. ClearedCount' /\ UnsignedIsErased'
  BY <1>1, <1>2, <1>3, ZeroTypes DEF StoreInv, ClearedCount, UnsignedIsErased
<1> QED BY <1>1, <1>2, <1>4 DEF StoreInv, SlotsInOrder, Window

LEMMA ClearHeaderStore ==
    ASSUME StoreInv, ClearHeader
    PROVE  StoreInv' /\ (pc' = "idle" => HeldNumber' = 0)
<1>1. /\ RingInv /\ RingInv' /\ TypeOK /\ PartialBlocks /\ CountedAreProgrammed
      /\ blk \in Blocks /\ hdr[blk] = ErasedHeader /\ pointerId \in Words
      /\ blk \in Nat
  BY ClearHeaderRing, ZeroTypes
     DEF StoreInv, RingInv, IInv, TypeOK, ErasedBeforeHeader, ClearHeader
<1>2. PICK f \in {EMPTY, FILLING}, p \in Words : ProgramHeader(blk, f, p, 0)
  BY <1>1, ZeroTypes DEF ClearHeader
<1>3. UNCHANGED slot /\ pc = "clearHeader"
  BY DEF ClearHeader
<1>4. /\ hdr'[blk].cnt = 0 /\ hdr'[blk].sig
      /\ \A a \in Blocks : a # blk => hdr'[a] = hdr[a]
  BY <1>1, <1>2, <1>3, ZeroHeaderKeeps
<1>5. \A a \in Blocks : a < blk + 1 => hdr'[a].cnt = 0
  BY <1>1, <1>3, <1>4, ZeroTypes DEF StoreInv, ClearedCount
<1>6. UnsignedIsErased'
  BY <1>4 DEF StoreInv, UnsignedIsErased
<1>7. CASE blk + 1 < B
  <2>1. blk' = blk + 1 /\ pc' = "clearErase"
    BY <1>7 DEF ClearHeader
  <2>2. ClearedCount'
    BY <1>5, <2>1 DEF ClearedCount
  <2> QED BY <1>1, <1>6, <2>1, <2>2 DEF StoreInv, SlotsInOrder, Window
<1>8. CASE ~(blk + 1 < B)
  <2>1. indexLast' = 0 /\ unitNumber' = 0 /\ fresh' = FALSE /\ pc' = "idle" /\ Cur' = 0
    BY <1>8, ZeroTypes DEF ClearHeader, Cur, BlockOf
  <2>2. \A a \in Blocks : hdr'[a].cnt = 0
    <3>1. \A a \in Blocks : a \in Nat /\ a < blk + 1
      BY <1>1, <1>8, SlotFacts, ZeroTypes
    <3> QED BY <1>5, <3>1
  <2>3. Counted' = {}
    BY <2>2, SlotFacts DEF Counted
  <2>4. NoneFullAfter(0)'
    <3> SUFFICES ASSUME NEW a \in Blocks, a > 0 PROVE ~IsFull(a)'
      BY DEF NoneFullAfter
    <3>1. CASE a = blk
      <4>1. hdr'[blk].flag = f /\ f # FULL
        BY <1>1, <1>2, <1>3, ZeroHeaderKeeps DEF FULL, EMPTY, FILLING
      <4> QED BY <3>1, <4>1 DEF IsFull
    <3>2. CASE a # blk
      <4>1. 0 < a /\ a < blk
        BY <1>1, <1>8, <3>2, SlotFacts, ZeroTypes
      <4> QED BY <1>1, <1>3, <1>4, <3>2, <4>1 DEF RingInv, Cleared, IsFull
    <3> QED BY <3>1, <3>2
  <2>5. LastOf(0)' = 0 /\ EdgeOf(0)' = M /\ Held(LastOf(0), EdgeOf(0), LastCounted)'
    BY <2>2, <2>3, <2>4, NothingHeld, ZeroTypes
  <2>6. SlotsInOrder'
    BY <2>1, <2>5 DEF SlotsInOrder
  <2>7. HeldNumber' = 0
    BY <2>1, <2>5, SlotFacts DEF HeldNumber
  <2>8. Window'
    BY <2>1, <2>7, SlotFacts DEF Window, Lower
  <2>9. ClearedCount'
    BY <2>1 DEF ClearedCount
  <2> QED BY <1>1, <1>6, <2>6, <2>7, <2>8, <2>9 DEF StoreInv
<1> QED BY <1>7, <1>8

LEMMA PowerStore ==
    ASSUME StoreInv, PowerOff \/ PowerCut
    PROVE  StoreInv'
<1>1. RingInv /\ RingInv' /\ pc \in PcStates
  BY PowerRing DEF StoreInv, RingInv, IInv, TypeOK
<1>2. pc' = "off" /\ UNCHANGED <<hdr, slot, issued>> /\ pc # "off"
  BY DEF PowerOff, PowerCut, LoseRam, flash
<1>3. /\ torn => torn'
      /\ spoiled => spoiled'
      /\ pc \in BetweenBlocks => torn'
      /\ pc = "counter" => spoiled'
  BY <1>1 DEF PowerOff, PowerCut, BetweenBlocks, PcStates, RingInv, IInv, TypeOK
<1>4. UnsignedIsErased' /\ ClearedCount'
  BY <1>2 DEF StoreInv, UnsignedIsErased, ClearedCount
<1>5. CASE torn'
  BY <1>1, <1>2, <1>4, <1>5 DEF StoreInv, SlotsInOrder, Window
<1>6. CASE ~torn'
  <2>1. ~torn /\ pc \in {"idle", "counter", "openHeader"}
    BY <1>1, <1>2, <1>3, <1>6 DEF RingInv, BlocksInOrder, PcStates, BetweenBlocks
  <2>2. \A c \in Blocks : /\ Ordered(c)' <=> Ordered(c)
                          /\ LastOf(c)' = LastOf(c) /\ EdgeOf(c)' = EdgeOf(c)
    BY <1>2 DEF Ordered, FullBefore, FullAfter, NoneFullAfter, IsFull, LastOf, EdgeOf
  <2> SUFFICES ASSUME NEW c \in Blocks, Ordered(c)
               PROVE  /\ Held(LastOf(c), EdgeOf(c), issued)'
                      /\ OTP => LastOf(c) + M - EdgeOf(c) <= C
    BY <1>1, <1>2, <1>4, <2>2 DEF StoreInv, SlotsInOrder, Window
  <2>3. CASE pc \in {"idle", "counter"}
    <3>1. c = Cur
      BY <1>1, <2>1, <2>3, OneOrdered, PointerFacts DEF RingInv, BlocksInOrder
    <3>2. Held(LastOf(c), EdgeOf(c), LastCounted)
      BY <2>1, <2>3, <3>1 DEF StoreInv, SlotsInOrder
    <3>3. LastCounted = issued \/ spoiled'
      BY <1>3, <2>3 DEF LastCounted
    <3>4. OTP => LastOf(c) + M - EdgeOf(c) <= C
      BY <2>1, <2>3, <3>1 DEF StoreInv, Window, HeldNumber
    <3>5. Held(LastOf(c), EdgeOf(c), issued)'
      <4>1. LastOf(c)' = LastOf(c) /\ EdgeOf(c)' = EdgeOf(c) /\ Counted' = Counted
        BY <1>2, <2>2 DEF Counted
      <4>2. ~spoiled' => ~spoiled /\ LastCounted = issued
        BY <1>3, <3>3 DEF RingInv, IInv, TypeOK
      <4> QED BY <1>2, <3>2, <4>1, <4>2 DEF Held
    <3> QED BY <3>4, <3>5
  <2>4. CASE pc = "openHeader"
    <3>1. c = 0 /\ Counted = {}
      BY <1>1, <2>1, <2>4, ZeroTypes, OneOrdered
         DEF RingInv, BlocksInOrder, StoreInv, SlotsInOrder
    <3>2. hdr[0] = ErasedHeader
      BY <1>1, <2>1, <2>4 DEF RingInv, IInv, ErasedBeforeHeader, BlocksInOrder
    <3>3. LastOf(c) = 0 /\ EdgeOf(c) = M
      <4>1. 0 + 1 < B => 0 + 1 \in Blocks /\ 0 + 1 > 0
        BY ZeroTypes, BlockStart
      <4>2. NoneFullAfter(0)
        BY <3>1, <3>2 DEF Ordered, ErasedHeader
      <4>3. EdgeOf(0) = M
        BY <4>1, <4>2 DEF EdgeOf, NoneFullAfter
      <4>4. LastOf(0) = 0
        BY <3>2, SlotFacts DEF LastOf, ErasedHeader
      <4> QED BY <3>1, <4>3, <4>4
    <3>4. OTP => LastOf(c) + M - EdgeOf(c) <= C
      BY <3>3, SlotFacts
    <3>5. Held(LastOf(c), EdgeOf(c), issued)'
      <4>1. LastOf(c)' = 0 /\ EdgeOf(c)' = M /\ M \in Nat
        BY <2>2, <3>3, SlotFacts
      <4>2. Counted' = {}
        BY <1>2, <3>1 DEF Counted
      <4> QED BY <4>1, <4>2, NoSlots DEF Held
    <3> QED BY <3>4, <3>5
  <2> QED BY <2>1, <2>3, <2>4
<1> QED BY <1>5, <1>6

LEMMA StutterStore ==
    ASSUME StoreInv, UNCHANGED vars
    PROVE  StoreInv'
<1>1. RingInv'
  BY StutterRing DEF StoreInv
<1>2. UNCHANGED <<hdr, slot, indexFirst, indexLast, indexRead, unitNumber, pc, blk,
                  issued, torn, spoiled, fresh>>
  BY DEF vars, ram, history
<1>3. SlotsInOrder'
  BY <1>2 DEF StoreInv, SlotsInOrder, Held, Counted, LastOf, EdgeOf, EnteredEdge, Cur, IsFull,
              Ordered, FullBefore, FullAfter, NoneFullAfter, LastCounted
<1>4. Window'
  BY <1>2 DEF StoreInv, Window, HeldNumber, LastOf, EdgeOf, EnteredEdge, Cur, IsFull,
              Ordered, FullBefore, FullAfter, NoneFullAfter
<1>5. UnsignedIsErased' /\ ClearedCount'
  BY <1>2 DEF StoreInv, UnsignedIsErased, ClearedCount
<1> QED BY <1>1, <1>3, <1>4, <1>5 DEF StoreInv

-----------------------------------------------------------------------------
(* The invariant holds of every behaviour. *)

LEMMA InitStore == Init => StoreInv
<1> SUFFICES ASSUME Init PROVE StoreInv
  OBVIOUS
<1>1. RingInv
  BY InitRing
<1>2. pc = "off" /\ \A b \in Blocks : hdr[b] = ErasedHeader /\ ~IsFull(b)
  BY DEF Init, IsFull, ErasedHeader
<1>3. Counted = {}
  BY <1>2, SlotFacts DEF Counted, ErasedHeader
<1>4. ASSUME NEW c \in Blocks, Ordered(c)
      PROVE  LastOf(c) = 0 /\ EdgeOf(c) = M
  <2>1. c = 0
    BY <1>2, <1>4 DEF Ordered, ErasedHeader
  <2>2. 0 + 1 < B => 0 + 1 \in Blocks
    BY ZeroTypes, BlockStart
  <2>3. EdgeOf(0) = M
    BY <1>2, <2>2 DEF EdgeOf
  <2>4. LastOf(0) = 0
    <3>1. ErasedHeader.cnt = 0 /\ hdr[0] = ErasedHeader
      BY <1>2, ZeroTypes DEF ErasedHeader
    <3>2. 0 * U + 0 = 0
      BY SlotFacts
    <3> QED BY <3>1, <3>2 DEF LastOf
  <2> QED BY <2>1, <2>3, <2>4
<1>5. SlotsInOrder
  BY <1>2, <1>3, <1>4, NoSlots, SlotFacts DEF SlotsInOrder, Held
<1>6. Window
  BY <1>2, <1>4, SlotFacts DEF Window
<1>7. UnsignedIsErased /\ ClearedCount
  BY <1>2 DEF UnsignedIsErased, ClearedCount
<1> QED BY <1>1, <1>5, <1>6, <1>7 DEF StoreInv

\* The invariant holds after every step.
LEMMA NextStore == StoreInv /\ [Next]_vars => StoreInv'
BY OpenResumeStore, OpenRepairStore, OpenRepairHeaderStore, OpenHangStore, WriteDataStore,
   WriteCounterStore, NextEraseStore, NextHeaderStore, ClearStartStore, ClearEraseStore,
   ClearHeaderStore, PowerStore, StutterStore
   DEF Next, Firmware

\* In every behaviour the slots hold the newest units in the order of the ring.
THEOREM StoreInductive == Spec => []StoreInv
BY InitStore, NextStore, PTL DEF Spec

-----------------------------------------------------------------------------
(* What a reader gets. *)

\* The units held are numbered without a gap.
LEMMA KeptInterval ==
    ASSUME NEW last, NEW edge, NEW e \in Int, ~spoiled, Held(last, edge, e)
    PROVE  /\ Kept = e + 1 - (last + M - edge) .. e
           /\ Cardinality(Kept) = last + M - edge
           /\ last + M - edge \in Nat
<1>1. /\ last \in Nat /\ edge \in Nat /\ last <= edge /\ edge <= M /\ M \in Nat
      /\ Counted = {s \in Slots : s < last \/ s >= edge}
      /\ \A s \in Counted :
             slot[s] = {IF s < last THEN e + 1 - last + s ELSE e + 1 - last - M + s}
  BY SlotFacts DEF Held
<1> DEFINE low == e + 1 - (last + M - edge)
<1>2. ASSUME NEW x \in Kept PROVE x \in low .. e
  <2>1. PICK s \in Counted : x \in slot[s]
    BY DEF Kept
  <2>2. x = IF s < last THEN e + 1 - last + s ELSE e + 1 - last - M + s
    BY <1>1, <2>1
  <2>3. s \in Nat /\ s < M /\ (s < last \/ s >= edge)
    BY <1>1, <2>1, ZeroTypes
  <2> QED BY <1>1, <2>2, <2>3
<1>3. ASSUME NEW x \in low .. e PROVE x \in Kept
  <2>1. x \in Int
    OBVIOUS
  <2>2. CASE x > e - last
    <3> DEFINE s == x + last - e - 1
    <3>1. s \in Nat /\ s < last /\ s < M /\ e + 1 - last + s = x
      BY <1>1, <1>3, <2>1, <2>2
    <3>2. s \in Counted
      BY <1>1, <3>1 DEF Slots
    <3>3. slot[s] = {x}
      BY <1>1, <3>1, <3>2
    <3> QED BY <3>2, <3>3 DEF Kept
  <2>3. CASE ~(x > e - last)
    <3> DEFINE s == x + last + M - e - 1
    <3>1. s \in Nat /\ s >= edge /\ s < M /\ ~(s < last) /\ e + 1 - last - M + s = x
      BY <1>1, <1>3, <2>1, <2>3
    <3>2. s \in Counted
      BY <1>1, <3>1 DEF Slots
    <3>3. slot[s] = {x}
      BY <1>1, <3>1, <3>2
    <3> QED BY <3>2, <3>3 DEF Kept
  <2> QED BY <2>2, <2>3
<1>4. Kept = low .. e
  BY <1>2, <1>3
<1>5. low \in Int /\ last + M - edge \in Nat
  BY <1>1
<1>6. Cardinality(low .. e) = IF low > e THEN 0 ELSE e - low + 1
  BY <1>5, FS_Interval
<1> QED BY <1>1, <1>4, <1>5, <1>6

\* And so they are after any step.
LEMMA KeptIntervalAlways ==
    \A last, edge \in Nat, e \in Int :
        ~spoiled /\ Held(last, edge, e) => Kept = e + 1 - (last + M - edge) .. e
BY KeptInterval

LEMMA KeptIntervalNext ==
    (\A last, edge \in Nat, e \in Int :
        ~spoiled /\ Held(last, edge, e) => Kept = e + 1 - (last + M - edge) .. e)'
BY KeptIntervalAlways, PTL

\* The readable units are the newest of those held.
LEMMA NewestReadable == StoreInv => WindowIsNewest
<1>1. ASSUME StoreInv PROVE WindowIsNewest
  <2> SUFFICES ASSUME pc = "idle", fresh, ~torn, ~spoiled
               PROVE  /\ unitNumber = Lower(Cardinality(Kept), C)
                      /\ \A i \in 0 .. unitNumber - 1 :
                             ReadData(i) = {issued - unitNumber + 1 + i}
    BY DEF WindowIsNewest
  <2>1. PICK L \in Slots : L = indexLast /\ LastOf(Cur) = L
    BY <1>1, PointerFacts DEF StoreInv
  <2>2. PICK E \in Nat : E = EdgeOf(Cur) /\ L < E /\ E <= M
    BY <1>1, <2>1, PointerFacts DEF StoreInv
  <2>3. Held(L, E, issued)
    BY <1>1, <2>1, <2>2 DEF StoreInv, SlotsInOrder, LastCounted
  <2>4. TypeOK /\ issued \in Nat /\ L \in Nat /\ L < M
    BY <1>1, <2>1, ZeroTypes DEF StoreInv, RingInv, IInv, TypeOK
  <2>5. Cardinality(Kept) = L + M - E
    BY <2>3, <2>4, KeptInterval
  <2>6. unitNumber = Lower(L + M - E, C) /\ indexRead + unitNumber \in {L, L + M}
    BY <1>1, <2>1, <2>2 DEF StoreInv, Window, HeldNumber
  <2>7. /\ C \in Nat /\ C <= M /\ M \in Nat /\ 2 * M < W /\ W \in Nat
        /\ unitNumber \in Nat /\ indexRead \in Nat /\ indexRead < M
    BY <2>4, SlotFacts, ZeroTypes DEF TypeOK, Words
  <2>8. unitNumber <= L + M - E /\ unitNumber <= C
    BY <2>2, <2>4, <2>6, <2>7 DEF Lower
  <2>9. ASSUME NEW j \in 0 .. unitNumber - 1
        PROVE  ReadData(j) = {issued - unitNumber + 1 + j}
    <3>1. j \in Nat /\ j < unitNumber
      BY <2>7
    <3>2. j + indexRead \in 0 .. W - 1
      BY <2>7, <2>8, <3>1
    <3>3. (j + indexRead) % W = j + indexRead
      BY <2>7, <3>2
    <3> DEFINE s == IF j + indexRead >= M THEN j + indexRead - M ELSE j + indexRead
    <3>4. ReadIndex(j) = s
      <4>1. ReadIndex(j) = Wrap(j + indexRead)
        BY <3>3 DEF ReadIndex
      <4> QED BY <2>7, <3>1, <4>1 DEF Wrap
    <3>5. s \in Nat /\ s < M
      BY <2>7, <2>8, <3>1
    <3>6. s \in Slots
      BY <2>7, <3>5 DEF Slots
    <3>7. /\ s < L \/ s >= E
          /\ (IF s < L THEN issued + 1 - L + s ELSE issued + 1 - L - M + s)
                 = issued - unitNumber + 1 + j
      BY <2>2, <2>4, <2>6, <2>7, <2>8, <3>1, <3>5
    <3> HIDE DEF s
    <3>8. s \in Counted
      BY <2>3, <3>6, <3>7 DEF Held
    <3>9. slot[s] = {issued - unitNumber + 1 + j}
      BY <2>3, <3>7, <3>8 DEF Held
    <3> QED BY <3>4, <3>6, <3>9 DEF ReadData
  <2> QED BY <2>5, <2>6, <2>9
<1> QED BY <1>1

\* From an open to the first recycled block, FSLOG_ReadData returns the newest
\* units in the order they were written, unless the power failed inside a write or
\* a Clear.
THEOREM ReaderGetsNewest == Spec => []WindowIsNewest
BY NewestReadable, StoreInductive, PTL

-----------------------------------------------------------------------------
(* The log implements RingStore. *)

\* RingStore counts with the same operator.
LEMMA SameCardinality == \A S : Store!Cardinality(S) = Cardinality(S)
BY DEF Store!Cardinality, Cardinality

\* The number of the last unit counted never goes down.
LEMMA LastGrows ==
    ASSUME StoreInv, [Next]_vars
    PROVE  LastCounted \in Int /\ LastCounted' \in Int /\ LastCounted' >= LastCounted
<1>1. issued \in Nat
  BY DEF StoreInv, RingInv, IInv, TypeOK
<1>2. CASE WriteData
  BY <1>1, <1>2 DEF WriteData, LastCounted
<1>3. CASE ~WriteData
  <2>1. issued' = issued /\ (pc' = "counter" => pc = "counter")
    BY <1>3 DEF Next, Firmware, OpenResume, OpenRepair, OpenRepairHeader, OpenHang, Opened,
                WriteCounter, NextErase, NextHeader, ClearStart, ClearErase, ClearHeader,
                PowerOff, PowerCut, LoseRam, history, vars
  <2> QED BY <1>1, <2>1 DEF LastCounted
<1> QED BY <1>2, <1>3

\* A step after which nothing is certain loses what was kept.
LEMMA LoseStep ==
    ASSUME StoreInv, [Next]_vars, KeptForSure' = {}
    PROVE  Store!Lose
BY LastGrows DEF Store!Lose

\* Only the end of a Clear makes the contents certain again, and empty.
LEMMA CertainAgain ==
    ASSUME StoreInv, [Next]_vars, ~Certain, Certain'
    PROVE  KeptForSure' = {}
<1>1. /\ pc \in {"clearErase", "clearHeader"} \/ torn \/ spoiled
      /\ ~torn' /\ ~spoiled' /\ pc' \notin {"clearErase", "clearHeader"}
  BY DEF Certain
<1>2. torn \in BOOLEAN /\ spoiled \in BOOLEAN
  BY DEF StoreInv, RingInv, IInv, TypeOK
<1>3. ClearHeader /\ ~(blk + 1 < B)
  <2>1. CASE ClearHeader
    BY <1>1, <2>1 DEF ClearHeader, history
  <2>2. CASE PowerOff \/ PowerCut
    BY <1>1, <2>2 DEF PowerOff, PowerCut, BetweenBlocks
  <2>3. CASE UNCHANGED vars
    BY <1>1, <2>3 DEF vars, history
  <2>4. CASE ClearErase
    BY <1>1, <2>4 DEF ClearErase
  <2>5. CASE OpenResume \/ OpenRepair \/ OpenRepairHeader \/ OpenHang
    BY <1>1, <2>5 DEF OpenResume, OpenRepair, OpenRepairHeader, OpenHang, Opened, history
  <2>6. CASE WriteData \/ WriteCounter \/ NextErase \/ NextHeader \/ ClearStart
    BY <1>1, <2>6 DEF WriteData, WriteCounter, NextErase, NextHeader, ClearStart, history
  <2> QED BY <2>1, <2>2, <2>3, <2>4, <2>5, <2>6 DEF Next, Firmware
<1>4. \A s \in Slots : slot'[s] = {}
  <2>1. blk \in Blocks /\ blk \in Nat /\ B \in Nat
    BY ZeroTypes, SlotFacts DEF StoreInv, RingInv, IInv, TypeOK
  <2>2. \A s \in Slots : BlockOf(s) < blk \/ BlockOf(s) = blk
    <3>1. \A s \in Slots : BlockOf(s) \in Nat /\ BlockOf(s) < B
      BY SlotFacts, ZeroTypes
    <3> QED BY <1>3, <2>1, <3>1
  <2>3. UNCHANGED slot /\ pc = "clearHeader"
    BY <1>3 DEF ClearHeader
  <2> QED BY <2>2, <2>3 DEF StoreInv, RingInv, Cleared
<1>5. Kept' = {}
  BY <1>4 DEF Kept, Counted
<1> QED BY <1>5 DEF KeptForSure

\* Counting a unit is a Put.
LEMMA PutStep ==
    ASSUME StoreInv, WriteCounter, Certain, Certain'
    PROVE  Store!Put
<1>1. /\ pc = "counter" /\ ~torn /\ ~spoiled /\ RingInv /\ IInv /\ issued \in Nat
      /\ UNCHANGED <<slot, issued>> /\ pc' # "counter"
  BY DEF StoreInv, RingInv, IInv, TypeOK, WriteCounter, Certain, history
<1>2. Kept' = Kept \cup {issued}
  <2>1. slot[indexLast] = {issued}
    BY <1>1 DEF StoreInv, SlotsInOrder
  <2>2. Counted' = Counted \cup {indexLast}
    BY <1>1, CountAdds
  <2>3. Kept' = UNION {slot[s] : s \in Counted \cup {indexLast}}
    BY <1>1, <2>2 DEF Kept
  <2> QED BY <2>1, <2>3 DEF Kept
<1>3. /\ Cardinality(Kept) = LastOf(Cur) + M - EdgeOf(Cur)
      /\ Cardinality(Kept) < M
      /\ OTP => Cardinality(Kept) < C
  <2>1. Held(LastOf(Cur), EdgeOf(Cur), issued - 1)
    BY <1>1 DEF StoreInv, SlotsInOrder, LastCounted
  <2>2. Cardinality(Kept) = LastOf(Cur) + M - EdgeOf(Cur)
    BY <1>1, <2>1, KeptInterval
  <2>3. /\ LastOf(Cur) = indexLast /\ EdgeOf(Cur) \in Nat /\ indexLast < EdgeOf(Cur)
        /\ indexLast \in Nat /\ M \in Nat
    BY <1>1, PointerFacts, ZeroTypes, SlotFacts
  <2>4. OTP => LastOf(Cur) + M - EdgeOf(Cur) < C
    BY <1>1 DEF StoreInv, Window, HeldNumber
  <2>5. LastOf(Cur) + M - EdgeOf(Cur) < M
    BY <2>3
  <2> QED BY <2>2, <2>4, <2>5
<1>4. LastCounted = issued - 1 /\ LastCounted' = issued
  BY <1>1 DEF LastCounted
<1>5. KeptForSure = Kept /\ KeptForSure' = Kept \cup {LastCounted + 1} /\ LastCounted' = LastCounted + 1
  <2>1. LastCounted + 1 = issued
    BY <1>1, <1>4
  <2> QED BY <1>2, <1>4, <2>1 DEF KeptForSure
<1> QED BY <1>3, <1>5, SameCardinality DEF Store!Put

\* Erasing the block that the write pointer has entered is a Recycle when the
\* block held units, and no step of the store when it did not.
LEMMA RecycleStep ==
    ASSUME StoreInv, StoreInv', NextErase, Certain, Certain'
    PROVE  Store!Recycle \/ UNCHANGED <<KeptForSure, LastCounted>>
<1>1. /\ pc = "nextErase" /\ pc' = "nextHeader" /\ ~torn /\ ~spoiled /\ ~torn' /\ ~spoiled'
      /\ issued \in Nat /\ indexLast \in Slots
      /\ UNCHANGED <<indexFirst, indexLast, issued>>
  BY DEF StoreInv, RingInv, IInv, TypeOK, NextErase, Certain, ram, history
<1>2. indexLast \in Nat /\ M \in Nat /\ U \in Nat
  BY <1>1, ZeroTypes, SlotFacts
<1>3. KeptForSure = Kept /\ KeptForSure' = Kept'
  BY DEF KeptForSure
<1>4. LastCounted = issued /\ LastCounted' = issued
  BY <1>1 DEF LastCounted
<1>5. Held(indexLast, EnteredEdge, issued)
  BY <1>1 DEF StoreInv, SlotsInOrder
<1> DEFINE edge == IF indexFirst = indexLast THEN indexLast + U ELSE M
<1>6. Held(indexLast, edge, issued)'
  BY <1>1 DEF StoreInv, SlotsInOrder
<1>7. /\ Kept = issued + 1 - (indexLast + M - EnteredEdge) .. issued
      /\ Cardinality(Kept) = indexLast + M - EnteredEdge
  BY <1>1, <1>5, KeptInterval
<1>8. Kept' = issued + 1 - (indexLast + M - edge) .. issued
  <2>1. PICK last \in Nat, e \in Nat, top \in Nat : last = indexLast /\ top = edge /\ e = issued
    BY <1>1, <1>2
  <2>2. Held(last, top, e)'
    BY <1>1, <1>6, <2>1
  <2> HIDE DEF edge
  <2>3. Kept' = e + 1 - (last + M - top) .. e
    BY <1>1, <2>2, KeptIntervalNext
  <2> QED BY <2>1, <2>3
<1>9. CASE indexFirst = indexLast
  <2>1. Kept = issued + 1 - M .. issued /\ Cardinality(Kept) = M
    BY <1>2, <1>7, <1>9 DEF EnteredEdge
  <2>2. Kept' = issued + 1 - (M - U) .. issued
    BY <1>2, <1>8, <1>9
  <2>3. Kept' = {u \in Kept : u > issued - (M - U)}
    BY <1>1, <1>2, <2>1, <2>2
  <2> QED BY <1>3, <1>4, <2>1, <2>3, SameCardinality DEF Store!Recycle
<1>10. CASE indexFirst # indexLast
  BY <1>2, <1>3, <1>4, <1>7, <1>8, <1>10 DEF EnteredEdge
<1> QED BY <1>9, <1>10

\* Every other step leaves the kept units and the last number alone.
LEMMA SilentStep ==
    ASSUME StoreInv, Certain, Certain',
           \/ OpenResume \/ OpenRepair \/ OpenRepairHeader \/ OpenHang
           \/ WriteData \/ NextHeader \/ PowerOff \/ PowerCut \/ UNCHANGED vars
    PROVE  UNCHANGED <<KeptForSure, LastCounted>>
<1>1. /\ ~torn /\ ~spoiled /\ ~torn' /\ ~spoiled' /\ RingInv /\ IInv /\ TypeOK /\ issued \in Nat
  BY DEF StoreInv, RingInv, IInv, TypeOK, Certain
<1> SUFFICES Kept' = Kept /\ LastCounted' = LastCounted
  BY DEF KeptForSure
<1>2. CASE OpenResume \/ OpenHang \/ PowerOff \/ PowerCut \/ UNCHANGED vars
  <2>1. UNCHANGED <<hdr, slot, issued>>
    BY <1>2 DEF OpenResume, OpenHang, Opened, PowerOff, PowerCut, LoseRam, vars, flash, history
  <2>2. pc = "counter" <=> pc' = "counter"
    BY <1>1, <1>2 DEF OpenResume, OpenHang, Opened, PowerOff, PowerCut, LoseRam, vars
  <2> QED BY <2>1, <2>2 DEF Kept, Counted, LastCounted
<1>3. CASE OpenRepair
  <2>1. PICK c \in Blocks : Ordered(c)
    BY <1>1, <1>3 DEF RingInv, BlocksInOrder, OpenRepair
  <2>2. ScanStop = c
    BY <2>1, ScanIs DEF Ordered
  <2>3. /\ EraseBlock(c) /\ hdr[c] = ErasedHeader
        /\ UNCHANGED issued /\ pc # "counter" /\ pc' # "counter"
    BY <1>3, <2>2 DEF StoreInv, UnsignedIsErased, OpenRepair, history
  <2>4. \A a \in Blocks : hdr'[a] = hdr[a]
    BY <1>1, <2>3, EraseBlockFacts
  <2>5. Counted' = Counted
    BY <2>4, SlotFacts DEF Counted
  <2>6. \A s \in Counted : BlockOf(s) # c
    <3>1. \A s \in Slots : OffsetOf(s) \in Nat
      BY SlotFacts
    <3> QED BY <2>3, <3>1 DEF Counted, ErasedHeader
  <2>7. \A s \in Counted : slot'[s] = slot[s]
    BY <1>1, <2>3, <2>6, EraseBlockFacts DEF Counted
  <2> QED BY <2>3, <2>5, <2>7 DEF Kept, LastCounted
<1>4. CASE OpenRepairHeader \/ NextHeader
  <2>1. PICK b \in Blocks, p \in Words :
            hdr[b] = ErasedHeader /\ ProgramHeader(b, FILLING, p, 0)
    <3>1. CASE OpenRepairHeader
      BY <1>1, <3>1 DEF OpenRepairHeader, IInv, ErasedBeforeHeader, TypeOK
    <3>2. CASE NextHeader
      BY <1>1, <3>2, SlotFacts DEF NextHeader, IInv, ErasedBeforeHeader, TypeOK
    <3> QED BY <1>4, <3>1, <3>2
  <2>2. UNCHANGED <<slot, issued>> /\ pc # "counter" /\ pc' # "counter"
    BY <1>4 DEF OpenRepairHeader, NextHeader, Opened
  <2>3. hdr'[b].cnt = 0 /\ \A a \in Blocks : a # b => hdr'[a] = hdr[a]
    BY <1>1, <2>1, <2>2, ZeroHeaderKeeps DEF IInv
  <2>4. \A a \in Blocks : hdr'[a].cnt = hdr[a].cnt
    BY <2>1, <2>3 DEF ErasedHeader
  <2>5. Counted' = Counted
    BY <2>4, SlotFacts DEF Counted
  <2> QED BY <2>2, <2>5 DEF Kept, LastCounted
<1>5. CASE WriteData
  <2>1. /\ pc = "idle" /\ pc' = "counter" /\ issued' = issued + 1 /\ UNCHANGED hdr
        /\ slot' = [slot EXCEPT ![indexLast] = @ \cup {issued + 1}]
        /\ slot \in [Slots -> SUBSET Nat]
    BY <1>1, <1>5 DEF WriteData, TypeOK
  <2>2. Counted' = Counted
    BY <2>1 DEF Counted
  <2>3. \A s \in Counted : slot'[s] = slot[s]
    <3>1. indexLast \notin Counted
      BY <1>1, <2>1, PointerFacts
    <3> QED BY <2>1, <3>1 DEF Counted
  <2>4. LastCounted' = LastCounted
    BY <1>1, <2>1 DEF LastCounted
  <2> QED BY <2>2, <2>3, <2>4 DEF Kept
<1> QED BY <1>2, <1>3, <1>4, <1>5

\* Every step of the log is a step of the store, or none of its business.
LEMMA StoreStep ==
    ASSUME StoreInv, StoreInv', [Next]_vars
    PROVE  [Store!Next]_<<KeptForSure, LastCounted>>
<1>1. CASE ~Certain'
  BY <1>1, LoseStep DEF KeptForSure, Store!Next
<1>2. CASE ~Certain /\ Certain'
  BY <1>2, CertainAgain, LoseStep DEF Store!Next
<1>3. CASE Certain /\ Certain'
  <2>1. CASE WriteCounter
    BY <1>3, <2>1, PutStep DEF Store!Next
  <2>2. CASE NextErase
    BY <1>3, <2>2, RecycleStep DEF Store!Next
  <2>3. ~(ClearStart \/ ClearErase \/ ClearHeader)
    BY <1>3 DEF Certain, ClearStart, ClearErase, ClearHeader
  <2>4. CASE \/ OpenResume \/ OpenRepair \/ OpenRepairHeader \/ OpenHang
             \/ WriteData \/ NextHeader \/ PowerOff \/ PowerCut \/ UNCHANGED vars
    BY <1>3, <2>4, SilentStep
  <2> QED BY <2>1, <2>2, <2>3, <2>4 DEF Next, Firmware
<1> QED BY <1>1, <1>2, <1>3

\* The flash implements the abstract store: FSLOG_Write adds one unit or loses
\* the oldest block, FSLOG_Clear and the cuts inside an operation lose all, and
\* nothing else changes what the headers count.
THEOREM LogImplementsStore == Spec => ImplementsRingStore
<1>1. Init => Store!Init
  <2> SUFFICES ASSUME Init PROVE KeptForSure = {} /\ LastCounted = 0
    BY DEF Store!Init
  <2>1. Kept = {}
    BY DEF Init, Kept, Counted
  <2> QED BY <2>1 DEF Init, KeptForSure, LastCounted
<1>2. StoreInv /\ StoreInv' /\ [Next]_vars => [Store!Next]_<<KeptForSure, LastCounted>>
  BY StoreStep
<1> QED BY <1>1, <1>2, StoreInductive, PTL DEF Spec, ImplementsRingStore, Store!Spec

-----------------------------------------------------------------------------
(* An OTP log. *)

\* A log opened with FSLOG_ATTR_OTP on a region larger than its capacity never
\* recycles a block, so that no unit it has counted is lost but to a Clear.
THEOREM OtpKeepsAll == Spec => OtpNeverLoses
<1>1. ASSUME StoreInv, [Next]_vars, OTP, C < M, ~torn, pc \notin {"clearErase", "clearHeader"}
      PROVE  Kept \subseteq Kept'
  <2>1. RingInv /\ IInv /\ TypeOK /\ slot \in [Slots -> SUBSET Nat]
    BY <1>1 DEF StoreInv, RingInv, IInv, TypeOK
  <2> SUFFICES ASSUME NEW s \in Counted PROVE s \in Counted' /\ slot[s] \subseteq slot'[s]
    BY DEF Kept
  <2>2. s \in Slots /\ OffsetOf(s) < hdr[BlockOf(s)].cnt /\ BlockOf(s) \in Blocks
        /\ OffsetOf(s) \in Nat
    BY SlotFacts DEF Counted
  <2>3. CASE UNCHANGED <<hdr, slot>>
    BY <2>2, <2>3 DEF Counted
  <2>4. CASE WriteData
    <3>1. UNCHANGED hdr /\ slot' = [slot EXCEPT ![indexLast] = @ \cup {issued + 1}]
      BY <2>4 DEF WriteData
    <3> QED BY <2>1, <2>2, <3>1 DEF Counted
  <2>5. CASE WriteCounter
    <3>1. Counted' = Counted \cup {indexLast} /\ UNCHANGED slot
      BY <2>1, <2>5, CountAdds DEF WriteCounter
    <3> QED BY <3>1
  <2>6. ASSUME NEW b \in Blocks, EraseBlock(b), BlockOf(s) # b
        PROVE  s \in Counted' /\ slot[s] \subseteq slot'[s]
    <3>1. hdr'[BlockOf(s)] = hdr[BlockOf(s)] /\ slot'[s] = slot[s]
      BY <2>1, <2>2, <2>6, EraseBlockFacts
    <3> QED BY <2>2, <3>1 DEF Counted
  <2>7. CASE OpenRepair
    <3>1. ScanStop \in Blocks /\ EraseBlock(ScanStop) /\ ~hdr[ScanStop].sig
      BY <2>7, ScanStopFacts DEF OpenRepair
    <3>2. hdr[ScanStop].cnt = 0
      BY <1>1, <3>1 DEF StoreInv, UnsignedIsErased, ErasedHeader
    <3>3. BlockOf(s) # ScanStop
      BY <2>2, <3>2
    <3> QED BY <2>6, <3>1, <3>3
  <2>8. CASE NextErase
    <3>1. /\ pc = "nextErase" /\ indexLast \in Slots /\ BlockOf(indexLast) \in Blocks
          /\ EraseBlock(BlockOf(indexLast))
      BY <2>1, <2>8, SlotFacts DEF NextErase, TypeOK
    <3>2. Held(indexLast, EnteredEdge, issued) /\ indexLast + M - EnteredEdge <= C
      BY <1>1, <3>1 DEF StoreInv, SlotsInOrder, Window, HeldNumber
    <3>3. indexLast \in Nat /\ M \in Nat /\ C \in Nat /\ s \in Nat /\ s < M
      BY <2>2, <3>1, ZeroTypes, SlotFacts
    <3>4. EnteredEdge = M
      BY <1>1, <3>2, <3>3 DEF EnteredEdge
    <3>5. s < indexLast
      BY <3>2, <3>3, <3>4 DEF Held
    <3>6. indexLast = BlockOf(indexLast) * U
      <4>1. OffsetOf(indexLast) = 0
            /\ indexLast = BlockOf(indexLast) * U + OffsetOf(indexLast)
        BY <2>1, <3>1, SlotFacts DEF IInv, EntersAtStart
      <4> QED BY <3>1, <4>1, BlockBounds
    <3>7. BlockOf(s) # BlockOf(indexLast)
      <4>1. BlockOf(s) = BlockOf(indexLast) => BlockOf(indexLast) * U <= s
        BY <2>2, <3>1, InBlock
      <4> QED BY <3>3, <3>5, <3>6, <4>1
    <3> QED BY <2>6, <3>1, <3>7
  <2>9. CASE OpenRepairHeader \/ NextHeader
    <3>1. PICK b \in Blocks, p \in Words :
              hdr[b] = ErasedHeader /\ ProgramHeader(b, FILLING, p, 0)
      <4>1. CASE OpenRepairHeader
        BY <2>1, <4>1 DEF OpenRepairHeader, IInv, ErasedBeforeHeader, TypeOK
      <4>2. CASE NextHeader
        BY <2>1, <4>2, SlotFacts DEF NextHeader, IInv, ErasedBeforeHeader, TypeOK
      <4> QED BY <2>9, <4>1, <4>2
    <3>2. UNCHANGED slot
      BY <2>9 DEF OpenRepairHeader, NextHeader
    <3>3. BlockOf(s) # b
      BY <2>2, <3>1 DEF ErasedHeader
    <3>4. hdr'[BlockOf(s)] = hdr[BlockOf(s)]
      BY <2>1, <2>2, <3>1, <3>2, <3>3, ZeroHeaderKeeps DEF IInv
    <3> QED BY <2>2, <3>2, <3>4 DEF Counted
  <2>10. CASE OpenResume \/ OpenHang \/ ClearStart \/ PowerOff \/ PowerCut \/ UNCHANGED vars
    BY <2>3, <2>10 DEF OpenResume, OpenHang, ClearStart, PowerOff, PowerCut, LoseRam, flash, vars
  <2>11. ~(ClearErase \/ ClearHeader)
    BY <1>1 DEF ClearErase, ClearHeader
  <2> QED BY <1>1, <2>4, <2>5, <2>7, <2>8, <2>9, <2>10, <2>11 DEF Next, Firmware
<1>2. StoreInv /\ [Next]_vars =>
          [OTP /\ C < M /\ ~torn /\ pc \notin {"clearErase", "clearHeader"}
               => Kept \subseteq Kept']_vars
  BY <1>1
<1> QED BY <1>2, StoreInductive, PTL DEF Spec, OtpNeverLoses

-----------------------------------------------------------------------------
(***************************************************************************)
(* The available count of a log whose capacity is not below its block: no  *)
(* reader is offered more units than the flash holds.                      *)
(***************************************************************************)

\* Every unit is in one slot at most, whatever else a cut has left there.
UnitsOnce ==
    \A s \in Slots :
        /\ slot[s] \subseteq 1 .. issued
        /\ \A t \in Slots : s # t => slot[s] \cap slot[t] = {}

\* The units of the block being filled.
InBlockNow == IF pc \in {"idle", "counter"} THEN hdr[Cur].cnt ELSE U

\* A ring that wraps takes a block from unitNumber when the capacity was reached before.
Enough ==
    U <= C /\ ~torn /\ pc \in {"idle", "counter", "nextErase", "nextHeader"} =>
        /\ unitNumber <= Lower(HeldNumber, C)
        /\ Lower(HeldNumber, C - U + InBlockNow) <= unitNumber

CountInv == StoreInv /\ UnitsOnce /\ Enough

\* A step writes at most one unit, a new one.
LEMMA UnitsStep == TypeOK /\ UnitsOnce /\ [Next]_vars => UnitsOnce'
<1> SUFFICES ASSUME TypeOK, UnitsOnce, [Next]_vars PROVE UnitsOnce'
  OBVIOUS
<1>1. ASSUME issued' = issued, \A s \in Slots : slot'[s] \subseteq slot[s] PROVE UnitsOnce'
  BY <1>1 DEF UnitsOnce
<1>2. ASSUME NEW b, EraseBlock(b), issued' = issued PROVE UnitsOnce'
  <2>1. \A s \in Slots : slot'[s] \subseteq slot[s]
    BY <1>2 DEF EraseBlock
  <2> QED BY <1>1, <1>2, <2>1
<1>3. CASE WriteData
  <2>1. /\ slot' = [slot EXCEPT ![indexLast] = slot[indexLast] \cup {issued + 1}] /\ issued' = issued + 1
        /\ indexLast \in Slots /\ slot \in [Slots -> SUBSET Nat]
    BY <1>3 DEF WriteData, TypeOK
  <2>2. PICK n \in Nat : n = issued
    BY DEF TypeOK
  <2>3. \A s \in Slots : slot'[s] = IF s = indexLast THEN slot[s] \cup {n + 1} ELSE slot[s]
    BY <2>1, <2>2
  <2>4. \A s \in Slots : slot[s] \subseteq 1 .. n + 1 /\ n + 1 \notin slot[s]
    <3>1. 1 .. n \subseteq 1 .. n + 1 /\ n + 1 \notin 1 .. n
      OBVIOUS
    <3> QED BY <2>2, <3>1 DEF UnitsOnce
  <2>5. \A s \in Slots : slot'[s] \subseteq 1 .. issued'
    <3>1. n + 1 \in 1 .. n + 1 /\ issued' = n + 1
      BY <2>1, <2>2
    <3> QED BY <2>3, <2>4, <3>1
  <2>6. \A s, t \in Slots : s # t => slot'[s] \cap slot'[t] = {}
    BY <2>3, <2>4 DEF UnitsOnce
  <2> QED BY <2>5, <2>6 DEF UnitsOnce
<1>4. CASE OpenRepair \/ NextErase \/ ClearErase
  BY <1>2, <1>4 DEF OpenRepair, NextErase, ClearErase, history
<1>5. CASE \/ OpenResume \/ OpenRepairHeader \/ OpenHang \/ WriteCounter \/ NextHeader
           \/ ClearHeader \/ ClearStart \/ PowerOff \/ PowerCut \/ UNCHANGED vars
  <2>1. UNCHANGED <<slot, issued>>
    BY <1>5 DEF OpenResume, OpenRepairHeader, OpenHang, WriteCounter, NextHeader, ClearHeader, ClearStart,
                PowerOff, PowerCut, LoseRam, Opened, flash, history, vars
  <2> QED BY <1>1, <2>1
<1> QED BY <1>3, <1>4, <1>5 DEF Next, Firmware

\* An open makes unitNumber what is held, up to the capacity.
LEMMA OpenedEnough ==
    ASSUME StoreInv', fresh', pc' = "idle"
    PROVE  Enough'
<1> SUFFICES ASSUME U <= C, ~torn' PROVE /\ unitNumber' <= Lower(HeldNumber', C)
                                         /\ Lower(HeldNumber', C - U + InBlockNow') <= unitNumber'
  BY DEF Enough
<1>1. unitNumber' = Lower(HeldNumber', C)
  BY DEF StoreInv, Window
<1>2. TypeOK' /\ PartialBlocks'
  BY DEF StoreInv, RingInv, IInv
<1>3. Cur' \in Blocks
  BY <1>2, SlotFacts DEF TypeOK, Cur, BlockOf
<1>4. InBlockNow' \in Nat /\ InBlockNow' <= U
  <2>1. hdr'[Cur'] \in Header
    BY <1>2, <1>3 DEF TypeOK
  <2>2. hdr'[Cur'].cnt \in 0 .. U
    BY <2>1 DEF Header
  <2> QED BY <2>2, SlotFacts DEF InBlockNow
<1>5. HeldNumber' \in Int
  <2>1. HeldNumber' = LastOf(Cur)' + M - EdgeOf(Cur)'
    BY DEF HeldNumber
  <2>2. Held(LastOf(Cur), EdgeOf(Cur), LastCounted)'
    BY DEF StoreInv, SlotsInOrder
  <2> QED BY <2>1, <2>2, SlotFacts DEF Held
<1>6. C \in Nat /\ U \in Nat
  BY SlotFacts
<1>7. PICK k \in Nat, n \in Int : k = InBlockNow' /\ k <= U /\ n = HeldNumber'
  BY <1>4, <1>5
<1>8. C - U + k <= C
  <2>1. k <= U
    BY <1>7
  <2> QED BY <1>6, <2>1
<1>9. Lower(n, C) <= Lower(n, C) /\ Lower(n, C - U + k) <= Lower(n, C)
  BY <1>6, <1>8 DEF Lower
<1> QED BY <1>1, <1>7, <1>9

\* HeldNumber is a number.
LEMMA HeldNumberInt ==
    ASSUME StoreInv, ~torn, pc \in {"idle", "counter", "nextErase", "nextHeader"}
    PROVE  HeldNumber \in Int
<1>1. CASE pc \in {"idle", "counter"}
  <2>1. Held(LastOf(Cur), EdgeOf(Cur), LastCounted)
    BY <1>1 DEF StoreInv, SlotsInOrder
  <2> QED BY <1>1, <2>1, SlotFacts DEF Held, HeldNumber
<1>2. CASE pc \in {"nextErase", "nextHeader"}
  <2>1. indexLast \in Nat /\ M \in Nat
    BY ZeroTypes, SlotFacts DEF StoreInv, RingInv, IInv, TypeOK
  <2> QED BY <1>2, <2>1 DEF HeldNumber, EnteredEdge
<1> QED BY <1>1, <1>2

\* unitNumber stays between the two, step by step.
LEMMA EnoughStep == CountInv /\ [Next]_vars => Enough'
<1> SUFFICES ASSUME CountInv, [Next]_vars PROVE Enough'
  OBVIOUS
<1>1. StoreInv /\ StoreInv' /\ TypeOK /\ IInv
  BY NextStore DEF CountInv, StoreInv, RingInv, IInv
<1>2. /\ C \in Nat /\ U \in Nat \ {0} /\ M \in Nat /\ C <= M /\ M < W /\ W \in Nat
      /\ unitNumber \in Nat /\ unitNumber < W
  BY <1>1, SlotFacts DEF TypeOK, Words
<1>3. ASSUME pc' \notin {"idle", "counter", "nextErase", "nextHeader"} PROVE Enough'
  BY <1>3 DEF Enough
<1>4. CASE OpenResume \/ OpenRepairHeader
  BY <1>1, <1>4, OpenedEnough DEF OpenResume, OpenRepairHeader, Opened
<1>5. CASE OpenRepair \/ OpenHang \/ ClearStart \/ ClearErase \/ PowerOff \/ PowerCut
  BY <1>3, <1>5 DEF OpenRepair, OpenHang, ClearStart, ClearErase, PowerOff, PowerCut, LoseRam
<1>6. CASE UNCHANGED vars
  <2>1. UNCHANGED <<hdr, indexFirst, indexLast, unitNumber, pc, torn>>
    BY <1>6 DEF vars, ram, history
  <2>2. HeldNumber' = HeldNumber /\ InBlockNow' = InBlockNow
    BY <2>1 DEF HeldNumber, InBlockNow, LastOf, EdgeOf, IsFull, EnteredEdge, Cur, BlockOf
  <2> QED BY <2>1, <2>2 DEF CountInv, Enough
<1>7. CASE WriteData
  <2>1. pc = "idle" /\ pc' = "counter" /\ UNCHANGED <<hdr, indexFirst, indexLast, unitNumber, torn>>
    BY <1>7 DEF WriteData
  <2>2. HeldNumber' = HeldNumber /\ InBlockNow' = InBlockNow
    BY <2>1 DEF HeldNumber, InBlockNow, LastOf, EdgeOf, IsFull, Cur, BlockOf
  <2> QED BY <2>1, <2>2 DEF CountInv, Enough
<1>8. CASE NextErase
  <2>1. pc = "nextErase" /\ pc' = "nextHeader" /\ UNCHANGED <<indexFirst, indexLast, unitNumber, torn>>
    BY <1>8 DEF NextErase, ram, history
  <2>2. HeldNumber' = HeldNumber /\ InBlockNow' = InBlockNow
    BY <2>1 DEF HeldNumber, InBlockNow, EnteredEdge
  <2> QED BY <2>1, <2>2 DEF CountInv, Enough
<1>9. CASE WriteCounter
  <2> SUFFICES ASSUME U <= C, ~torn
               PROVE  /\ unitNumber' <= Lower(HeldNumber', C)
                      /\ Lower(HeldNumber', C - U + InBlockNow') <= unitNumber'
    BY <1>9 DEF Enough, WriteCounter, history
  <2>1. PICK b \in Blocks, k \in 0 .. U - 1 : b = Cur /\ k = OffsetOf(indexLast) /\ k = hdr[b].cnt
    BY <1>1, <1>9, CountFacts DEF Cur
  <2>2. /\ pc = "counter" /\ hdr'[b].cnt = k + 1
        /\ k # U - 1 => pc' = "idle" /\ Cur' = b
        /\ k = U - 1 => pc' = "nextErase"
    BY <1>1, <1>9, <2>1, CountFacts DEF Cur, BlockOf
  <2>3. InBlockNow = k /\ InBlockNow' = k + 1
    BY <1>2, <2>1, <2>2 DEF InBlockNow
  <2>4. PICK n \in Int : n = HeldNumber /\ HeldNumber' = n + 1
    BY <1>1, <1>9, <2>2, HeldNumberInt, WriteCounterStore
  <2>5. unitNumber' = IF unitNumber < C THEN unitNumber + 1 ELSE unitNumber
    BY <1>9 DEF WriteCounter, CountUnit
  <2>6. unitNumber <= Lower(n, C) /\ Lower(n, C - U + k) <= unitNumber
    BY <2>2, <2>3, <2>4 DEF CountInv, Enough
  <2>7. unitNumber' <= Lower(n + 1, C) /\ Lower(n + 1, C - U + (k + 1)) <= unitNumber'
    BY <1>2, <2>5, <2>6 DEF Lower
  <2> QED BY <2>3, <2>4, <2>7
<1>10. CASE NextHeader
  <2> SUFFICES ASSUME U <= C, ~torn
               PROVE  /\ unitNumber' <= Lower(HeldNumber', C)
                      /\ Lower(HeldNumber', C - U + InBlockNow') <= unitNumber'
    BY <1>10 DEF Enough, NextHeader
  <2>1. /\ pc = "nextHeader" /\ pc' = "idle"
        /\ unitNumber' = IF Recycled THEN (unitNumber + W - U) % W ELSE unitNumber
    BY <1>10 DEF NextHeader
  <2>2. PICK n \in Int : n = HeldNumber
    BY <1>1, <2>1, HeldNumberInt
  <2>3. unitNumber <= Lower(n, C) /\ Lower(n, C - U + U) <= unitNumber
    BY <2>1, <2>2 DEF CountInv, Enough, InBlockNow
  <2>4. IF Recycled THEN HeldNumber = M /\ HeldNumber' = M - U ELSE HeldNumber' = n
    BY <1>1, <1>10, <2>2, NextHeaderStore
  <2>5. InBlockNow' = 0
    <3>1. PICK c \in Blocks : c = Cur
      BY <1>1, SlotFacts DEF TypeOK, Cur
    <3>2. /\ TypeOK /\ PartialBlocks /\ CountedAreProgrammed /\ hdr[c] = ErasedHeader /\ pointerId \in Words
          /\ ProgramHeader(c, FILLING, pointerId, 0) /\ UNCHANGED slot /\ Cur' = c
      BY <1>1, <1>10, <2>1, <3>1 DEF IInv, ErasedBeforeHeader, TypeOK, Cur, NextHeader, BlockOf
    <3>3. hdr'[c].cnt = 0
      BY <3>2, ZeroHeaderKeeps
    <3> QED BY <2>1, <3>2, <3>3 DEF InBlockNow
  <2>6. CASE ~Recycled
    BY <1>2, <2>1, <2>2, <2>3, <2>4, <2>5, <2>6 DEF Lower
  <2>7. CASE Recycled
    <3>1. unitNumber = C
      BY <1>2, <2>2, <2>3, <2>4, <2>7 DEF Lower
    <3>2. PICK d \in 0 .. W - 1 : d = C - U
      BY <1>2
    <3>3. unitNumber + W - U = 1 * W + d
      BY <1>2, <3>1, <3>2
    <3>4. (1 * W + d) % W = d
      BY <1>2, DivMod
    <3>5. unitNumber' = d
      BY <2>1, <2>7, <3>3, <3>4
    <3> QED BY <1>2, <2>4, <2>5, <2>7, <3>2, <3>5 DEF Lower
  <2> QED BY <2>6, <2>7
<1>11. CASE ClearHeader
  <2>1. CASE pc' # "idle"
    BY <1>3, <1>11, <2>1 DEF ClearHeader
  <2>2. CASE pc' = "idle"
    <3>1. HeldNumber' = 0
      BY <1>1, <1>11, <2>2, ClearHeaderStore
    <3>2. unitNumber' = 0
      BY <1>11, <2>2 DEF ClearHeader
    <3>3. InBlockNow' \in Nat
      <4>1. TypeOK'
        BY <1>1 DEF StoreInv, RingInv, IInv
      <4>2. Cur' \in Blocks /\ hdr'[Cur'] \in Header
        BY <4>1, SlotFacts DEF TypeOK, Cur, BlockOf
      <4>3. hdr'[Cur'].cnt \in 0 .. U
        BY <4>2 DEF Header
      <4> QED BY <2>2, <4>3, <1>2 DEF InBlockNow
    <3>4. PICK k \in Nat : k = InBlockNow'
      BY <3>3
    <3>5. U <= C => 0 <= Lower(0, C) /\ Lower(0, C - U + k) <= 0
      BY <1>2 DEF Lower
    <3> QED BY <3>1, <3>2, <3>4, <3>5 DEF Enough
  <2> QED BY <2>1, <2>2
<1> QED BY <1>4, <1>5, <1>6, <1>7, <1>8, <1>9, <1>10, <1>11 DEF Next, Firmware

\* Hence always.
LEMMA CountInductive == Spec => []CountInv
<1>1. Init => CountInv
  <2> SUFFICES ASSUME Init PROVE CountInv
    OBVIOUS
  <2>1. UnitsOnce /\ Enough
    BY DEF Init, UnitsOnce, Enough
  <2> QED BY <2>1, InitStore DEF CountInv
<1>2. CountInv /\ [Next]_vars => CountInv'
  BY NextStore, UnitsStep, EnoughStep DEF CountInv, StoreInv, RingInv, IInv
<1> QED BY <1>1, <1>2, PTL DEF Spec

\* As many units are held as slots are counted, at least: each counted slot has one of
\* its own.
LEMMA HeldAreKept ==
    ASSUME CountInv, NEW last, NEW edge, NEW e, Held(last, edge, e)
    PROVE  /\ last + M - edge \in Nat
           /\ last + M - edge <= Cardinality(Kept)
<1>1. PICK l \in Nat, g \in Nat, m \in Nat : /\ l = last /\ g = edge /\ m = M /\ l <= g /\ g <= m
                                             /\ Counted = {s \in Slots : s < l \/ s >= g}
  BY SlotFacts DEF Held
<1> DEFINE n == l + m - g
           place(i) == IF i <= l THEN i - 1 ELSE g + (i - l) - 1
           unit(i) == CHOOSE u \in slot[place(i)] : TRUE
<1>2. n \in Nat
  BY <1>1
<1>3. \A i \in 1 .. n : place(i) \in Counted
  <2> SUFFICES ASSUME NEW i \in 1 .. n PROVE place(i) \in Counted
    OBVIOUS
  <2>1. place(i) \in Nat /\ place(i) < m /\ (place(i) < l \/ place(i) >= g)
    BY <1>1
  <2>2. place(i) \in Slots
    BY <1>1, <2>1 DEF Slots
  <2> QED BY <1>1, <2>1, <2>2
<1>4. \A i, j \in 1 .. n : place(i) = place(j) => i = j
  BY <1>1
<1> HIDE DEF place, n
<1>5. \A i \in 1 .. n : unit(i) \in slot[place(i)] /\ place(i) \in Slots
  BY <1>3 DEF CountInv, StoreInv, RingInv, IInv, CountedAreProgrammed, Counted
<1> HIDE DEF unit
<1>6. \A i \in 1 .. n : unit(i) \in Kept
  BY <1>3, <1>5 DEF Kept
<1>7. \A i, j \in 1 .. n : unit(i) = unit(j) => i = j
  <2> SUFFICES ASSUME NEW i \in 1 .. n, NEW j \in 1 .. n, unit(i) = unit(j) PROVE i = j
    OBVIOUS
  <2>1. place(i) = place(j)
    BY <1>5 DEF CountInv, UnitsOnce
  <2> QED BY <1>4, <2>1
<1>8. [i \in 1 .. n |-> unit(i)] \in Injection(1 .. n, Kept)
  BY <1>6, <1>7 DEF Injection, IsInjective
<1>9. IsFiniteSet(Kept)
  <2>1. issued \in Int
    BY DEF CountInv, StoreInv, RingInv, IInv, TypeOK
  <2>2. Kept \subseteq 1 .. issued
    BY DEF CountInv, UnitsOnce, Kept, Counted
  <2>3. IsFiniteSet(1 .. issued)
    BY <2>1, FS_Interval
  <2> QED BY <2>2, <2>3, FS_Subset
<1>10. Cardinality(1 .. n) <= Cardinality(Kept)
  BY <1>8, <1>9, FS_Injection
<1>11. Cardinality(1 .. n) = n
  <2>1. Cardinality(1 .. n) = IF 1 > n THEN 0 ELSE n - 1 + 1
    BY <1>2, FS_Interval
  <2> QED BY <1>2, <2>1
<1>12. last + M - edge = n
  BY <1>1 DEF n
<1> QED BY <1>2, <1>10, <1>11, <1>12

\* FSLOG_GetUnitCount never promises more units than the flash holds, power cuts inside a
\* write included, in an OTP log and in a ring of at least a block's capacity.  (In a
\* smaller ring the count wraps below zero: the log of the controls is one.)
THEOREM AvailableAreKept ==
    ASSUME OTP \/ U <= C
    PROVE  Spec => []AvailableCount
<1>1. CountInv => AvailableCount
  <2> SUFFICES ASSUME CountInv, pc = "idle", ~torn
               PROVE  unitNumber <= Cardinality(Kept)
    BY DEF AvailableCount
  <2>1. StoreInv /\ Held(LastOf(Cur), EdgeOf(Cur), LastCounted)
    BY DEF CountInv, StoreInv, SlotsInOrder
  <2>2. PICK n \in Nat : n = HeldNumber /\ n <= Cardinality(Kept)
    BY <2>1, HeldAreKept DEF HeldNumber
  <2>3. C \in Nat /\ unitNumber \in Nat
    BY <2>1, SlotFacts DEF StoreInv, RingInv, IInv, TypeOK, Words
  <2>4. unitNumber <= Lower(n, C)
    <3>1. CASE OTP
      <4>1. unitNumber = Lower(n, C)
        BY <2>1, <2>2, <3>1 DEF StoreInv, Window
      <4> QED BY <2>3, <4>1 DEF Lower
    <3>2. CASE U <= C
      BY <2>2, <3>2 DEF CountInv, Enough
    <3> QED BY <3>1, <3>2
  <2>5. unitNumber <= n
    BY <2>3, <2>4 DEF Lower
  <2>6. Cardinality(Kept) \in Nat
    <3>1. issued \in Int
      BY <2>1 DEF StoreInv, RingInv, IInv, TypeOK
    <3>2. Kept \subseteq 1 .. issued
      BY DEF CountInv, UnitsOnce, Kept, Counted
    <3>3. IsFiniteSet(1 .. issued)
      BY <3>1, FS_Interval
    <3> QED BY <3>2, <3>3, FS_Subset, FS_CardinalityType
  <2> QED BY <2>2, <2>3, <2>5, <2>6
<1> QED BY <1>1, CountInductive, PTL

-----------------------------------------------------------------------------
(***************************************************************************)
(* The session of the 101 master (module FileRead): what it sends of the   *)
(* log that is written, recycled and cleared meanwhile.                    *)
(***************************************************************************)

\* The state of the session between its handlers.
SessionInv ==
    /\ ReadTypeOK
    /\ ~Up => op = 0 /\ itemCount = 0 /\ packet = NotBuilding
    /\ packet # NotBuilding =>
           /\ op = 6 /\ class = 2 /\ packet <= offset
           /\ follow = (offset - packet + PerPacket < itemCount)
    /\ op = 6 /\ class = 0 /\ theFile => offset = itemCount

\* Slots of the readable ones are being erased: unitNumber follows.
InDoubt == pc \in {"clearErase", "clearHeader"} \/ (pc = "nextHeader" /\ Recycled)

\* While no unit leaves the readable ones, what was sent and what is left to send
\* are the units of the activation, or were written into slots erased then.
CopyInv ==
    /\ atActivation \in Seq(SUBSET Nat) /\ Len(atActivation) = itemCount
    /\ ~disturbed => itemCount <= unitNumber
    /\ ~disturbed /\ ~torn /\ ~spoiled =>
           \A i \in 1 .. itemCount :
               IF i <= offset THEN atActivation[i] \in {{}, sent[i]}
               ELSE InDoubt \/ atActivation[i] \in {{}, ReadData(i - 1)}

\* What was sent is older than what is still to be read.
OrderInv ==
    fresh /\ ~torn /\ ~spoiled =>
        /\ \A i \in 1 .. Len(sent) : \A u \in sent[i] : u <= LastCounted - unitNumber + i
        /\ \A i, j \in 1 .. Len(sent) :
               i < j => \A u \in sent[i], v \in sent[j] : u < v

\* What the assumptions on packets give.
LEMMA PacketFacts == PerPacket \in Nat \ {0} /\ MaxRequests \in Nat /\ NotBuilding \in Nat
                     /\ NotBuilding = PerPacket + 1
BY PacketAssumption DEF NotBuilding

\* Every step of the session and the log is one of the log or leaves it alone.
LEMMA LogOfRead == [ReadNext]_readVars => [Next]_vars
BY DEF ReadNext, readVars, Activate, Confirm, Continue, AnswerActivation, StartPacket, EndPacket,
       ReadRecord, LogStep, PowerFails, Next

\* All that holds of the log holds of it under a session.
LEMMA CountOfRead == ReadSpec => []CountInv
<1>1. ReadInit => CountInv
  <2> SUFFICES ASSUME ReadInit PROVE CountInv
    OBVIOUS
  <2>1. Init
    BY DEF ReadInit
  <2>2. UnitsOnce /\ Enough
    BY <2>1 DEF Init, UnitsOnce, Enough
  <2> QED BY <2>1, <2>2, InitStore DEF CountInv
<1>2. CountInv /\ [ReadNext]_readVars => CountInv'
  BY LogOfRead, NextStore, UnitsStep, EnoughStep DEF CountInv, StoreInv, RingInv, IInv
<1> QED BY <1>1, <1>2, PTL DEF ReadSpec

\* A slot that is read holds a set of units, one outside the region nothing.
LEMMA ReadDataType == TypeOK => \A i : ReadData(i) \in SUBSET Nat
BY DEF TypeOK, ReadData

\* The log only goes down with the session.
LEMMA LogStepUp == LogStep => (Up => Up')
BY DEF LogStep, Up, Firmware, WriteData, ClearStart, OpenResume, OpenRepair, OpenRepairHeader, OpenHang,
       WriteCounter, NextErase, NextHeader, ClearErase, ClearHeader, Opened

\* The state of the session after every step.
LEMMA SessionStep == CountInv /\ SessionInv /\ [ReadNext]_readVars => SessionInv'
<1> SUFFICES ASSUME CountInv, SessionInv, [ReadNext]_readVars PROVE SessionInv'
  OBVIOUS
<1> DEFINE n == itemCount
           k == offset
           p == packet
<1>1. /\ ReadTypeOK /\ itemCount \in Nat /\ offset \in Nat /\ offset <= itemCount /\ packet \in Nat
      /\ packet <= NotBuilding /\ requests \in Nat
      /\ PerPacket \in Nat \ {0} /\ MaxRequests \in Nat /\ NotBuilding \in Nat
      /\ NotBuilding = PerPacket + 1
  BY PacketFacts, SlotFacts DEF SessionInv, ReadTypeOK, Words
<1>2. TypeOK /\ unitNumber \in Words /\ 0 \in Words
  BY ZeroTypes DEF CountInv, StoreInv, RingInv, IInv, TypeOK
<1>3. CASE \E known \in BOOLEAN : Activate(known)
  <2>1. PICK known \in BOOLEAN : Activate(known)
    BY <1>3
  <2>2. itemCount' \in Words /\ 0 \in 0 .. itemCount'
    BY <1>2, <2>1, SlotFacts DEF Activate, Words
  <2>3. requests' \in 0 .. MaxRequests
    BY <1>1, <2>1 DEF Activate
  <2>4. sent' \in Seq(SUBSET Nat) /\ Len(sent') = 0
    BY <2>1, EmptySeq DEF Activate
  <2>5. Up'
    BY <2>1 DEF Activate, Up, vars
  <2>6. packet' = NotBuilding /\ op' = 3 /\ class' = 2 /\ theFile' \in BOOLEAN /\ follow' = follow
        /\ disturbed' = FALSE /\ offset' = 0
    BY <2>1 DEF Activate
  <2>7. ReadTypeOK'
    <3>1. /\ op' \in {0, 3, 6} /\ class' \in {0, 2} /\ itemCount' \in Words /\ offset' \in 0 .. itemCount'
          /\ packet' \in 0 .. NotBuilding /\ requests' \in 0 .. MaxRequests
      BY <1>1, <2>2, <2>3, <2>6 DEF ReadTypeOK
    <3>2. theFile' \in BOOLEAN /\ follow' \in BOOLEAN /\ disturbed' \in BOOLEAN
      BY ZenonT(20), <1>1, <2>2, <2>3, <2>6 DEF ReadTypeOK
    <3> QED BY <3>1, <3>2, <2>4, <2>6 DEF ReadTypeOK
  <2> QED BY <1>1, <2>5, <2>6, <2>7 DEF SessionInv, NotBuilding
<1>4. CASE \E more \in BOOLEAN : Confirm(more)
  <2>1. PICK more \in BOOLEAN : Confirm(more)
    BY <1>4
  <2>2. UNCHANGED <<op, itemCount, offset, packet, follow, requests, sent, disturbed, pc>>
        /\ packet = NotBuilding /\ class' = (IF more THEN 2 ELSE 0) /\ theFile' = more
    BY <2>1 DEF Confirm, vars
  <2>3. Up' = Up
    BY <2>2 DEF Up
  <2>4. ReadTypeOK'
    BY <1>1, <2>2 DEF ReadTypeOK
  <2> QED BY <2>2, <2>3, <2>4 DEF SessionInv, NotBuilding
<1>5. CASE AnswerActivation
  <2>1. UNCHANGED <<theFile, itemCount, offset, packet, follow, requests, sent, disturbed, pc>>
        /\ Up /\ packet = NotBuilding /\ op' = (IF theFile THEN 6 ELSE 3)
        /\ class' = (IF theFile THEN 2 ELSE 0)
    BY <1>5 DEF AnswerActivation, vars
  <2>2. Up'
    BY <2>1 DEF Up
  <2>3. ReadTypeOK'
    BY <1>1, <2>1 DEF ReadTypeOK
  <2> QED BY <2>1, <2>2, <2>3 DEF SessionInv, NotBuilding
<1>6. CASE StartPacket
  <2>1. UNCHANGED <<op, theFile, itemCount, offset, class, requests, sent, disturbed, pc>>
        /\ Up /\ op = 6 /\ class = 2 /\ packet' = 0 /\ follow' = (offset + PerPacket < itemCount)
    BY <1>6 DEF StartPacket, Follows, vars
  <2>2. Up'
    BY <2>1 DEF Up
  <2>3. ReadTypeOK'
    BY <1>1, <2>1 DEF ReadTypeOK
  <2>4. offset - 0 + PerPacket = offset + PerPacket /\ 0 <= offset
    BY <1>1
  <2> QED BY <2>1, <2>2, <2>3, <2>4 DEF SessionInv
<1>7. CASE ReadRecord
  <2>1. /\ UNCHANGED <<op, theFile, itemCount, class, requests, follow, disturbed, pc>>
        /\ packet # NotBuilding /\ packet # PerPacket /\ ~(offset >= itemCount) /\ pc = "idle"
        /\ offset' = offset + 1 /\ packet' = packet + 1 /\ sent' = Append(sent, ReadFmt(offset))
    BY <1>7 DEF ReadRecord, PacketDone, MutexFree, vars
  <2>2. Up'
    BY <2>1 DEF Up
  <2>3. /\ offset' \in 0 .. itemCount' /\ packet' \in 0 .. NotBuilding
        /\ offset' - packet' + PerPacket = offset - packet + PerPacket
        /\ packet <= offset => packet' <= offset'
    BY <1>1, <2>1
  <2>4. ReadFmt(offset) \in SUBSET Nat
    BY <1>2, ReadDataType DEF ReadFmt
  <2>5. sent' \in Seq(SUBSET Nat) /\ Len(sent') = offset'
    BY <1>1, <2>1, <2>4, AppendProperties DEF ReadTypeOK
  <2>6. ReadTypeOK'
    <3>1. /\ op' \in {0, 3, 6} /\ class' \in {0, 2} /\ itemCount' \in Words /\ offset' \in 0 .. itemCount'
          /\ packet' \in 0 .. NotBuilding /\ requests' \in 0 .. MaxRequests
      BY <1>1, <2>1, <2>3 DEF ReadTypeOK
    <3>2. theFile' \in BOOLEAN /\ follow' \in BOOLEAN /\ disturbed' \in BOOLEAN
      BY ZenonT(20), <1>1, <2>1, <2>3 DEF ReadTypeOK
    <3> QED BY <3>1, <3>2, <2>5 DEF ReadTypeOK
  <2>7. class' = 2 /\ op' = 6 /\ packet' <= offset'
    BY <2>1, <2>3 DEF SessionInv
  <2>8. follow' = (offset' - packet' + PerPacket < itemCount')
    BY <2>1, <2>3 DEF SessionInv
  <2> QED BY <2>2, <2>6, <2>7, <2>8 DEF SessionInv
<1>8. CASE EndPacket
  <2>1. /\ UNCHANGED <<op, theFile, itemCount, offset, requests, follow, sent, disturbed, pc>>
        /\ class' = (IF itemCount = offset THEN 0 ELSE 2) /\ packet' = NotBuilding
        /\ packet # NotBuilding
    BY <1>8 DEF EndPacket, vars
  <2>2. Up' = Up
    BY <2>1 DEF Up
  <2>3. ReadTypeOK'
    BY <1>1, <2>1 DEF ReadTypeOK
  <2> QED BY <2>1, <2>2, <2>3 DEF SessionInv, NotBuilding
<1>9. CASE LogStep
  <2>1. /\ UNCHANGED <<op, theFile, itemCount, offset, class, packet, requests, follow, sent>>
        /\ disturbed' \in BOOLEAN
    BY <1>1, <1>9 DEF LogStep, ReadTypeOK
  <2>2. Up => Up'
    BY <1>9, LogStepUp
  <2>3. ReadTypeOK'
    BY <1>1, <2>1 DEF ReadTypeOK
  <2> QED BY <2>1, <2>2, <2>3 DEF SessionInv, NotBuilding
<1>10. CASE PowerFails
  <2>1. /\ op' = 0 /\ theFile' = FALSE /\ itemCount' = 0 /\ offset' = 0
        /\ class' = 0 /\ packet' = NotBuilding /\ follow' = FALSE
        /\ sent' = <<>> /\ disturbed' = FALSE /\ requests' = requests
    BY <1>10 DEF PowerFails, NoSession
  <2>2. sent' \in Seq(SUBSET Nat) /\ Len(sent') = 0
    BY <2>1, EmptySeq
  <2>3. ReadTypeOK'
    <3>1. /\ op' \in {0, 3, 6} /\ class' \in {0, 2} /\ itemCount' \in Words /\ offset' \in 0 .. itemCount'
          /\ packet' \in 0 .. NotBuilding /\ requests' \in 0 .. MaxRequests
      BY <1>1, <1>2, <2>1 DEF ReadTypeOK
    <3>2. theFile' \in BOOLEAN /\ follow' \in BOOLEAN /\ disturbed' \in BOOLEAN
      BY ZenonT(20), <1>1, <1>2, <2>1 DEF ReadTypeOK
    <3> QED BY <3>1, <3>2, <2>1, <2>2 DEF ReadTypeOK
  <2> QED BY <2>1, <2>3 DEF SessionInv, NotBuilding
<1>11. CASE UNCHANGED readVars
  <2>1. UNCHANGED <<op, theFile, itemCount, offset, class, packet, requests, follow, sent, disturbed, pc>>
    BY <1>11 DEF readVars, session, vars
  <2>2. Up' = Up
    BY <2>1 DEF Up
  <2>3. ReadTypeOK'
    BY <1>1, <2>1 DEF ReadTypeOK
  <2> QED BY <2>1, <2>2, <2>3 DEF SessionInv, NotBuilding
<1> QED BY <1>3, <1>4, <1>5, <1>6, <1>7, <1>8, <1>9, <1>10, <1>11 DEF ReadNext, Continue

\* Hence always.
LEMMA SessionInductive == ReadSpec => []SessionInv
<1>1. ReadInit => SessionInv
  <2> SUFFICES ASSUME ReadInit PROVE SessionInv
    OBVIOUS
  <2>1. sent \in Seq(SUBSET Nat) /\ Len(sent) = 0
    BY EmptySeq DEF ReadInit
  <2>2. ReadTypeOK
    <3>1. /\ op \in {0, 3, 6} /\ class \in {0, 2} /\ itemCount \in Words /\ offset \in 0 .. itemCount
          /\ packet \in 0 .. NotBuilding /\ requests \in 0 .. MaxRequests
      BY PacketFacts, ZeroTypes DEF ReadInit
    <3>2. theFile \in BOOLEAN /\ follow \in BOOLEAN /\ disturbed \in BOOLEAN
      BY ZenonT(20), PacketFacts, ZeroTypes DEF ReadInit
    <3> QED BY <3>1, <3>2, <2>1 DEF ReadTypeOK, ReadInit
  <2> QED BY <2>2 DEF ReadInit, SessionInv
<1> QED BY <1>1, SessionStep, CountOfRead, PTL DEF ReadSpec

\* The session's variables keep their ranges, and a record is sent for every
\* step of s_offset.
THEOREM SessionTypes == ReadSpec => []ReadTypeOK
<1>1. SessionInv => ReadTypeOK
  BY DEF SessionInv
<1> QED BY <1>1, SessionInductive, PTL

\* The answer that ends a packet is of class 2 just when the packet has announced
\* that another follows, however long the log has become since.
THEOREM PacketsAgree == ReadSpec => FollowAgrees
<1>1. SessionInv /\ [ReadNext]_readVars =>
          [packet # NotBuilding /\ packet' = NotBuilding /\ op' # 0 => (class' = 2 <=> follow)]_readVars
  <2> SUFFICES ASSUME SessionInv, ReadNext, packet # NotBuilding, packet' = NotBuilding, op' # 0
               PROVE  class' = 2 <=> follow
    OBVIOUS
  <2>1. EndPacket
    <3>1. /\ \A known \in BOOLEAN : ~Activate(known)
          /\ \A more \in BOOLEAN : ~Confirm(more)
          /\ ~AnswerActivation /\ ~StartPacket /\ ~PowerFails
      BY DEF Activate, Confirm, AnswerActivation, StartPacket, PowerFails, NoSession
    <3>2. ~LogStep
      BY DEF LogStep
    <3>3. ~ReadRecord
      <4>1. packet \in 0 .. NotBuilding /\ NotBuilding = PerPacket + 1 /\ PerPacket \in Nat
        BY PacketFacts DEF SessionInv, ReadTypeOK
      <4>2. packet # PerPacket => packet + 1 # NotBuilding
        BY <4>1
      <4> QED BY <4>2 DEF ReadRecord, PacketDone
    <3> QED BY <3>1, <3>2, <3>3 DEF ReadNext, Continue
  <2>2. /\ packet = PerPacket \/ offset >= itemCount
        /\ class' = IF itemCount = offset THEN 0 ELSE 2
    BY <2>1 DEF EndPacket, PacketDone
  <2>3. packet <= offset /\ follow = (offset - packet + PerPacket < itemCount)
    BY DEF SessionInv
  <2>4. /\ packet \in Nat /\ packet # PerPacket + 1 /\ packet <= PerPacket + 1 /\ PerPacket \in Nat
        /\ offset \in Nat /\ itemCount \in Nat /\ offset <= itemCount
    BY PacketFacts, SlotFacts DEF SessionInv, ReadTypeOK, Words
  <2>5. (offset - packet + PerPacket < itemCount) <=> itemCount # offset
    BY <2>2, <2>4
  <2>6. class' = 2 <=> itemCount # offset
    BY <2>2
  <2>7. follow <=> itemCount # offset
    BY <2>3, <2>5
  <2> QED BY <2>6, <2>7
<1> QED BY <1>1, SessionInductive, PTL DEF ReadSpec, FollowAgrees

\* Recycling a block takes it from unitNumber: the number does not wrap, in an OTP log or
\* in a ring of at least a block's capacity.
LEMMA RecycledShrinks ==
    ASSUME OTP \/ U <= C, CountInv, NextHeader, Recycled, ~torn
    PROVE  unitNumber' < unitNumber
<1>1. StoreInv /\ StoreInv' /\ TypeOK
  BY NextHeaderStore DEF CountInv, StoreInv, RingInv, IInv
<1>2. /\ C \in Nat /\ U \in Nat \ {0} /\ M \in Nat /\ U <= M /\ C <= M /\ 2 * M < W /\ W \in Nat
      /\ unitNumber \in Nat /\ unitNumber < W
  BY <1>1, SlotFacts DEF TypeOK, Words
<1>3. /\ pc = "nextHeader" /\ pc' = "idle" /\ torn' = torn
      /\ unitNumber' = (unitNumber + W - U) % W
  BY DEF NextHeader
<1>4. HeldNumber = M /\ HeldNumber' = M - U
  BY <1>1, NextHeaderStore
<1>5. unitNumber = C
  <2>1. CASE OTP
    BY <1>1, <1>2, <1>3, <1>4, <2>1 DEF StoreInv, Window, Lower
  <2>2. CASE U <= C
    <3>1. unitNumber <= Lower(M, C) /\ Lower(M, C - U + U) <= unitNumber
      BY <1>3, <1>4, <2>2 DEF CountInv, Enough, InBlockNow
    <3> QED BY <1>2, <3>1 DEF Lower
  <2> QED BY <2>1, <2>2
<1>6. CASE U <= C
  <2>1. PICK d \in 0 .. W - 1 : d = C - U
    BY <1>2, <1>6
  <2>2. unitNumber + W - U = 1 * W + d
    BY <1>2, <1>5, <2>1
  <2>3. (1 * W + d) % W = d
    BY <1>2, DivMod
  <2>4. unitNumber' = C - U
    BY <1>3, <2>1, <2>2, <2>3
  <2> QED BY <1>2, <1>5, <2>4
<1>7. CASE OTP /\ ~(U <= C)
  <2>1. unitNumber' = Lower(M - U, C)
    BY <1>1, <1>3, <1>4, <1>7 DEF StoreInv, Window
  <2>2. PICK d \in 0 .. W - 1 : d = W + C - U
    BY <1>2, <1>7
  <2>3. unitNumber + W - U = 0 * W + d
    BY <1>2, <1>5, <2>2
  <2>4. (0 * W + d) % W = d
    BY <1>2, DivMod
  <2>5. unitNumber' = W + C - U
    BY <1>3, <2>2, <2>3, <2>4
  <2>6. Lower(M - U, C) <= C
    BY <1>2 DEF Lower
  <2>7. U > W
    BY <1>2, <2>1, <2>5, <2>6
  <2> QED BY <1>2, <2>7
<1> QED BY <1>6, <1>7

\* The slot about to be written is erased.
LEMMA NextSlotErased ==
    ASSUME StoreInv, pc = "idle", ~torn, ~spoiled
    PROVE  slot[indexLast] = {}
<1>1. PICK L \in Slots : L = indexLast /\ LastOf(Cur) = L
  BY PointerFacts DEF StoreInv
<1>2. PICK E \in Nat : E = EdgeOf(Cur) /\ L < E /\ E <= M
  BY <1>1, PointerFacts DEF StoreInv
<1>3. Held(L, E, LastCounted)
  BY <1>1, <1>2 DEF StoreInv, SlotsInOrder
<1>4. L \notin Counted
  BY <1>1, <1>2, <1>3, ZeroTypes DEF Held
<1> QED BY <1>1, <1>4 DEF StoreInv, RingInv, UncountedErased

\* A block that is entered for the first time is erased already.
LEMMA EnteredErased ==
    ASSUME StoreInv, NextErase, ~Recycled, ~torn, ~spoiled
    PROVE  slot' = slot
<1>1. TypeOK /\ pc = "nextErase" /\ EraseBlock(BlockOf(indexLast)) /\ OffsetOf(indexLast) = 0
      /\ indexLast \in Slots
  BY DEF StoreInv, RingInv, IInv, EntersAtStart, NextErase, TypeOK
<1>2. Held(indexLast, M, issued)
  BY <1>1 DEF StoreInv, SlotsInOrder, EnteredEdge, Recycled
<1>3. \A s \in Slots : BlockOf(s) = BlockOf(indexLast) => ~(s < indexLast)
  <2> SUFFICES ASSUME NEW s \in Slots, BlockOf(s) = BlockOf(indexLast) PROVE ~(s < indexLast)
    OBVIOUS
  <2>1. PICK b \in Blocks : b = BlockOf(s) /\ b * U \in Nat
    BY SlotFacts, ZeroTypes
  <2>2. s = b * U + OffsetOf(s) /\ indexLast = b * U + 0 /\ OffsetOf(s) \in Nat
    BY <1>1, <2>1, SlotFacts
  <2> QED BY <2>1, <2>2
<1>4. \A s \in Slots : BlockOf(s) = BlockOf(indexLast) => slot[s] = {}
  <2>1. \A s \in Slots : s < M
    BY ZeroTypes
  <2>2. \A s \in Slots : BlockOf(s) = BlockOf(indexLast) => s \notin Counted
    BY <1>1, <1>2, <1>3, <2>1, SlotFacts, ZeroTypes DEF Held
  <2> QED BY <1>1, <2>2 DEF StoreInv, RingInv, UncountedErased
<1> QED BY <1>1, <1>4 DEF EraseBlock, TypeOK

-----------------------------------------------------------------------------
(* What the transfer sends. *)

\* What the log leaves as it is, the transfer will still send.
LEMMA CopyKept ==
    ASSUME SessionInv, CopyInv, CountInv, LogStep,
           ~disturbed' /\ ~torn' /\ ~spoiled' /\ itemCount # 0 =>
               /\ ~torn /\ ~spoiled
               /\ InDoubt => InDoubt'
               /\ ~InDoubt /\ ~InDoubt' => \A s \in Slots : slot[s] \in {{}, slot'[s]}
    PROVE  CopyInv'
<1>1. /\ UNCHANGED <<itemCount, offset, sent, atActivation>>
      /\ disturbed' = (disturbed \/ indexRead' # indexRead \/ unitNumber' < unitNumber)
  BY DEF LogStep
<1>2. itemCount \in Nat
  BY SlotFacts DEF SessionInv, ReadTypeOK, Words
<1>3. atActivation' \in Seq(SUBSET Nat) /\ Len(atActivation') = itemCount'
  BY <1>1 DEF CopyInv
<1>4. unitNumber \in Nat /\ unitNumber' \in Nat
  <2>1. [ReadNext]_readVars
    BY DEF ReadNext
  <2>2. StoreInv /\ StoreInv'
    BY <2>1, LogOfRead, NextStore DEF CountInv
  <2> QED BY <2>2, SlotFacts DEF StoreInv, RingInv, IInv, TypeOK, Words
<1>5. ~disturbed' => itemCount' <= unitNumber'
  <2>1. ~disturbed' => itemCount <= unitNumber /\ ~(unitNumber' < unitNumber)
    BY <1>1 DEF CopyInv
  <2> QED BY <1>1, <1>2, <1>4, <2>1
<1>6. ASSUME ~disturbed', ~torn', ~spoiled', NEW i \in 1 .. itemCount
      PROVE  IF i <= offset THEN atActivation[i] \in {{}, sent[i]}
             ELSE InDoubt' \/ atActivation[i] \in {{}, ReadData(i - 1)'}
  <2>1. itemCount # 0 /\ ~disturbed /\ indexRead' = indexRead
    <3>1. itemCount # 0
      BY <1>2
    <3>2. ~disturbed /\ indexRead' = indexRead
      BY ZenonT(20), <1>1, <1>6
    <3> QED BY <3>1, <3>2
  <2>2. IF i <= offset THEN atActivation[i] \in {{}, sent[i]}
        ELSE InDoubt \/ atActivation[i] \in {{}, ReadData(i - 1)}
    BY <1>6, <2>1 DEF CopyInv
  <2>3. InDoubt => InDoubt'
    BY <1>6, <2>1
  <2>4. ASSUME ~InDoubt, ~InDoubt' PROVE ReadData(i - 1) \in {{}, ReadData(i - 1)'}
    <3>1. \A s \in Slots : slot[s] \in {{}, slot'[s]}
      BY <1>6, <2>1, <2>4
    <3>2. ReadIndex(i - 1)' = ReadIndex(i - 1)
      BY <2>1 DEF ReadIndex
    <3> QED BY <3>1, <3>2 DEF ReadData
  <2> QED BY <2>2, <2>3, <2>4
<1> QED BY <1>1, <1>3, <1>5, <1>6 DEF CopyInv

\* A step of the log keeps what is to be sent, or unitNumber goes down.
LEMMA CopyLogStep ==
    ASSUME OTP \/ U <= C, SessionInv, CopyInv, CountInv, LogStep
    PROVE  CopyInv'
<1> DEFINE Same ==
        ~disturbed' /\ ~torn' /\ ~spoiled' /\ itemCount # 0 =>
            /\ ~torn /\ ~spoiled
            /\ InDoubt => InDoubt'
            /\ ~InDoubt /\ ~InDoubt' => \A s \in Slots : slot[s] \in {{}, slot'[s]}
<1> SUFFICES Same
  BY CopyKept
<1>1. StoreInv /\ TypeOK /\ unitNumber \in Nat /\ itemCount \in Nat
  BY SlotFacts DEF CountInv, StoreInv, RingInv, IInv, TypeOK, Words, SessionInv, ReadTypeOK
<1>2. disturbed' = (disturbed \/ indexRead' # indexRead \/ unitNumber' < unitNumber)
  BY DEF LogStep
<1>3. CASE OpenResume \/ OpenRepair \/ OpenRepairHeader \/ OpenHang
  <2>1. itemCount = 0
    BY <1>3 DEF SessionInv, Up, OpenResume, OpenRepair, OpenRepairHeader, OpenHang
  <2> QED BY <2>1
<1>4. CASE WriteCounter
  <2>1. UNCHANGED <<slot, torn, spoiled>> /\ ~InDoubt
    BY <1>4 DEF WriteCounter, InDoubt, history
  <2> QED BY <2>1
<1>5. CASE NextErase
  <2>1. UNCHANGED <<torn, spoiled, indexFirst, indexLast>> /\ pc' = "nextHeader" /\ pc = "nextErase"
    BY <1>5 DEF NextErase, ram, history
  <2>2. CASE Recycled
    BY <2>1, <2>2 DEF InDoubt, Recycled
  <2>3. CASE ~Recycled
    <3>1. ~torn /\ ~spoiled => slot' = slot
      BY <1>1, <1>5, <2>3, EnteredErased
    <3>2. ~InDoubt
      BY <2>1 DEF InDoubt
    <3> QED BY <2>1, <3>1, <3>2
  <2> QED BY <2>2, <2>3
<1>6. CASE NextHeader
  <2>1. UNCHANGED <<slot, torn, spoiled>> /\ pc = "nextHeader"
    BY <1>6 DEF NextHeader
  <2>2. CASE Recycled
    BY <1>2, <1>6, <2>1, <2>2, RecycledShrinks
  <2>3. CASE ~Recycled
    BY <2>1, <2>3 DEF InDoubt
  <2> QED BY <2>2, <2>3
<1>7. CASE ClearStart \/ ClearErase
  <2>1. UNCHANGED <<torn, spoiled>> /\ pc' \in {"clearErase", "clearHeader"}
    BY <1>7 DEF ClearStart, ClearErase, history
  <2> QED BY <2>1 DEF InDoubt
<1>8. CASE ClearHeader
  <2>1. CASE blk + 1 < B
    <3>1. UNCHANGED <<torn, spoiled>> /\ pc' = "clearErase"
      BY <1>8, <2>1 DEF ClearHeader, history
    <3> QED BY <3>1 DEF InDoubt
  <2>2. CASE ~(blk + 1 < B)
    <3>1. unitNumber' = 0
      BY <1>8, <2>2 DEF ClearHeader
    <3>2. ~disturbed' => ~disturbed /\ unitNumber = 0
      <4>1. ~disturbed' => ~disturbed /\ ~(0 < unitNumber)
        BY ZenonT(20), <1>2, <3>1
      <4> QED BY <1>1, <4>1
    <3>3. ~disturbed' => itemCount = 0
      BY <1>1, <3>2 DEF CopyInv
    <3> QED BY <3>3
  <2> QED BY <2>1, <2>2
<1>9. CASE WriteData
  <2>1. /\ pc = "idle" /\ UNCHANGED <<torn, spoiled>>
        /\ slot' = [slot EXCEPT ![indexLast] = slot[indexLast] \cup {issued + 1}]
    BY <1>9 DEF WriteData
  <2>2. ~torn /\ ~spoiled => slot[indexLast] = {}
    BY <1>1, <2>1, NextSlotErased
  <2>3. \A s \in Slots : s # indexLast => slot'[s] = slot[s]
    BY <1>1, <2>1 DEF TypeOK
  <2>4. ~InDoubt
    BY <2>1 DEF InDoubt
  <2> QED BY <2>1, <2>2, <2>3, <2>4
<1> HIDE DEF Same
<1> QED BY <1>3, <1>4, <1>5, <1>6, <1>7, <1>8, <1>9 DEF LogStep, Firmware

\* The same of every step.
LEMMA CopyStep ==
    ASSUME OTP \/ U <= C
    PROVE  SessionInv /\ CopyInv /\ CountInv /\ [ReadNext]_readVars => CopyInv'
<1> SUFFICES ASSUME SessionInv, CopyInv, CountInv, [ReadNext]_readVars PROVE CopyInv'
  OBVIOUS
<1>1. /\ itemCount \in Nat /\ offset \in Nat /\ offset <= itemCount /\ sent \in Seq(SUBSET Nat)
      /\ Len(sent) = offset
  BY SlotFacts DEF SessionInv, ReadTypeOK, Words
<1>2. TypeOK /\ unitNumber \in Nat
  BY SlotFacts DEF CountInv, StoreInv, RingInv, IInv, TypeOK, Words
<1>3. CASE \E known \in BOOLEAN : Activate(known)
  <2>1. PICK known \in BOOLEAN : Activate(known)
    BY <1>3
  <2>2. PICK n \in Nat : n = itemCount' /\ n <= unitNumber
    BY <1>2, <2>1 DEF Activate
  <2>3. atActivation' = [i \in 1 .. n |-> ReadData(i - 1)] /\ offset' = 0
        /\ UNCHANGED <<slot, pc, indexRead, indexFirst, indexLast, unitNumber>>
    BY <2>1, <2>2 DEF Activate, vars, ram
  <2>4. \A i \in 1 .. n : ReadData(i - 1) \in SUBSET Nat
    BY <1>2, ReadDataType
  <2>5. atActivation' \in Seq(SUBSET Nat) /\ Len(atActivation') = n
    BY <2>3, <2>4
  <2>6. \A i \in 1 .. n : ReadData(i - 1)' = ReadData(i - 1)
    BY <2>3 DEF ReadData, ReadIndex
  <2>7. \A i \in 1 .. n : ~(i <= offset') /\ atActivation'[i] = ReadData(i - 1)'
    BY <2>3, <2>6
  <2> QED BY <2>2, <2>3, <2>5, <2>7 DEF CopyInv
<1>4. CASE ReadRecord
  <2>1. /\ UNCHANGED <<itemCount, disturbed, atActivation, torn, spoiled, pc, slot, indexRead, unitNumber,
                       indexFirst, indexLast>>
        /\ offset < itemCount /\ pc = "idle"
        /\ offset' = offset + 1 /\ sent' = Append(sent, ReadFmt(offset))
    BY <1>1, <1>4 DEF ReadRecord, PacketDone, MutexFree, vars, ram, history
  <2>2. ReadFmt(offset) \in SUBSET Nat
    BY <1>2, ReadDataType DEF ReadFmt
  <2>3. /\ \A i \in 1 .. offset : sent'[i] = sent[i]
        /\ sent'[offset + 1] = ReadFmt(offset)
    BY <1>1, <2>1, <2>2, AppendProperties
  <2>4. ASSUME ~disturbed', ~torn', ~spoiled', NEW i \in 1 .. itemCount
        PROVE  IF i <= offset' THEN atActivation'[i] \in {{}, sent'[i]}
               ELSE InDoubt' \/ atActivation'[i] \in {{}, ReadData(i - 1)'}
    <3>1. ~disturbed /\ ~torn /\ ~spoiled /\ itemCount <= unitNumber /\ ~InDoubt
      BY <2>1, <2>4 DEF CopyInv, InDoubt
    <3>2. IF i <= offset THEN atActivation[i] \in {{}, sent[i]}
          ELSE atActivation[i] \in {{}, ReadData(i - 1)}
      BY <3>1 DEF CopyInv
    <3>3. CASE i <= offset
      <4>1. i \in 1 .. offset /\ i <= offset'
        BY <1>1, <2>1, <3>3
      <4> QED BY <2>1, <2>3, <3>2, <3>3, <4>1
    <3>4. CASE i = offset + 1
      <4>1. ~(i <= offset) /\ i <= offset' /\ i - 1 = offset /\ offset < unitNumber
        BY <1>1, <1>2, <2>1, <3>1, <3>4
      <4>2. sent'[i] = ReadData(i - 1)
        BY <2>3, <3>4, <4>1 DEF ReadFmt
      <4> QED BY <2>1, <3>2, <4>1, <4>2
    <3>5. CASE i > offset + 1
      <4>1. ~(i <= offset) /\ ~(i <= offset')
        BY <1>1, <2>1, <3>5
      <4>2. ReadData(i - 1)' = ReadData(i - 1)
        BY <2>1 DEF ReadData, ReadIndex
      <4> QED BY <2>1, <3>2, <4>1, <4>2
    <3> QED BY <1>1, <3>3, <3>4, <3>5
  <2> QED BY <2>1, <2>4 DEF CopyInv
<1>5. CASE \/ \E more \in BOOLEAN : Confirm(more)
           \/ AnswerActivation \/ StartPacket \/ EndPacket \/ UNCHANGED readVars
  <2>1. UNCHANGED <<itemCount, offset, sent, disturbed, atActivation, torn, spoiled, pc, slot, indexRead,
                    unitNumber, indexFirst, indexLast>>
    BY <1>5 DEF Confirm, AnswerActivation, StartPacket, EndPacket, readVars, session, vars, ram, history
  <2>2. \A i : ReadData(i)' = ReadData(i)
    BY <2>1 DEF ReadData, ReadIndex
  <2>3. InDoubt' = InDoubt
    BY <2>1 DEF InDoubt, Recycled
  <2> QED BY <2>1, <2>2, <2>3 DEF CopyInv
<1>6. CASE PowerFails
  <2>1. itemCount' = 0 /\ atActivation' = <<>> /\ unitNumber' = 0
    BY <1>6 DEF PowerFails, NoSession, PowerOff, PowerCut, LoseRam
  <2>2. atActivation' \in Seq(SUBSET Nat) /\ Len(atActivation') = 0
    BY <2>1, EmptySeq
  <2> QED BY <2>1, <2>2 DEF CopyInv
<1>7. CASE LogStep
  BY <1>7, CopyLogStep
<1> QED BY <1>3, <1>4, <1>5, <1>6, <1>7 DEF ReadNext, Continue

\* A transfer during which no unit left the readable ones has sent, when it ends, each
\* record that was readable at its activation at its place, or a unit written
\* meanwhile into a slot that was erased then: the mutex is only held for a record, and
\* the log may be written between any two.  (In a ring smaller than its block unitNumber
\* wraps below zero.)
THEOREM TransferSendsTheFile ==
    ASSUME OTP \/ U <= C
    PROVE  ReadSpec => []SendsTheFile
<1>1. ReadInit => CopyInv
  <2> SUFFICES ASSUME ReadInit PROVE CopyInv
    OBVIOUS
  <2>1. atActivation \in Seq(SUBSET Nat) /\ Len(atActivation) = 0
    BY EmptySeq DEF ReadInit
  <2> QED BY <2>1 DEF ReadInit, Init, CopyInv
<1>2. SessionInv /\ CopyInv => SendsTheFile
  <2> SUFFICES ASSUME SessionInv, CopyInv, op = 6, class = 0, theFile, ~disturbed, ~torn, ~spoiled
               PROVE  /\ Len(sent) = Len(atActivation)
                      /\ \A i \in 1 .. Len(sent) : atActivation[i] \in {{}, sent[i]}
    BY DEF SendsTheFile
  <2>1. offset = itemCount /\ Len(sent) = offset /\ Len(atActivation) = itemCount /\ itemCount \in Nat
    BY SlotFacts DEF SessionInv, CopyInv, ReadTypeOK, Words
  <2>2. \A i \in 1 .. itemCount : i <= offset
    BY <2>1
  <2> QED BY <2>1, <2>2 DEF CopyInv
<1> QED BY <1>1, <1>2, CopyStep, SessionInductive, CountOfRead, PTL DEF ReadSpec

\* The numbers below which everything sent lies only grow while the log is fresh.
LEMMA BoundGrows ==
    ASSUME SessionInv, CountInv, LogStep, fresh', ~torn', ~spoiled', offset # 0
    PROVE  /\ fresh /\ ~torn /\ ~spoiled
           /\ LastCounted \in Int /\ LastCounted' \in Int /\ unitNumber \in Int /\ unitNumber' \in Int
           /\ LastCounted - unitNumber <= LastCounted' - unitNumber'
<1>1. [Next]_vars
  <2>1. [ReadNext]_readVars
    BY DEF ReadNext
  <2> QED BY <2>1, LogOfRead
<1>2. StoreInv /\ StoreInv'
  BY <1>1, NextStore DEF CountInv
<1>3. LastCounted \in Int /\ LastCounted' \in Int
  BY <1>1, <1>2, LastGrows
<1>4. unitNumber \in Nat /\ unitNumber' \in Nat /\ issued \in Nat
  BY <1>2, SlotFacts DEF StoreInv, RingInv, IInv, TypeOK, Words
<1>5. CASE OpenResume \/ OpenRepair \/ OpenRepairHeader \/ OpenHang
  <2>1. itemCount = 0 /\ offset \in 0 .. itemCount
    BY <1>5 DEF SessionInv, ReadTypeOK, Up, OpenResume, OpenRepair, OpenRepairHeader, OpenHang
  <2> QED BY <2>1
<1>6. CASE WriteData
  <2>1. pc = "idle" /\ pc' = "counter" /\ issued' = issued + 1 /\ UNCHANGED <<unitNumber, fresh, torn, spoiled>>
    BY <1>6 DEF WriteData
  <2>2. LastCounted = issued /\ LastCounted' = issued
    BY <1>4, <2>1 DEF LastCounted
  <2> QED BY <1>3, <1>4, <2>1, <2>2
<1>7. CASE WriteCounter
  <2>1. /\ pc = "counter" /\ pc' # "counter" /\ UNCHANGED <<issued, fresh, torn, spoiled>>
        /\ unitNumber' = unitNumber + 1 \/ unitNumber' = unitNumber
    BY <1>7 DEF WriteCounter, CountUnit, history
  <2>2. LastCounted = issued - 1 /\ LastCounted' = issued
    BY <2>1 DEF LastCounted
  <2>3. PICK n \in Nat, m \in Nat, k \in Nat : n = unitNumber /\ m = unitNumber' /\ k = issued
    BY <1>4
  <2>4. m = n + 1 \/ m = n
    BY <2>1, <2>3
  <2>5. k - 1 - n <= k - m
    BY <2>4
  <2>6. LastCounted = k - 1 /\ LastCounted' = k /\ unitNumber = n /\ unitNumber' = m
    BY <2>2, <2>3
  <2>7. LastCounted - unitNumber <= LastCounted' - unitNumber'
    BY <2>5, <2>6
  <2>8. fresh /\ ~torn /\ ~spoiled
    BY ZenonT(20), <2>1
  <2>9. n \in Int /\ m \in Int
    OBVIOUS
  <2> QED BY ZenonT(20), <1>3, <2>6, <2>7, <2>8, <2>9
<1>8. CASE NextErase \/ NextHeader \/ ClearStart \/ ClearErase \/ ClearHeader
  <2>1. /\ pc # "counter" /\ pc' # "counter" /\ UNCHANGED <<issued, torn, spoiled>>
        /\ fresh /\ unitNumber' = unitNumber
    BY <1>8 DEF NextErase, NextHeader, ClearStart, ClearErase, ClearHeader, ram, history
  <2>2. LastCounted' = LastCounted
    BY <2>1 DEF LastCounted
  <2> QED BY <1>3, <1>4, <2>1, <2>2
<1> QED BY <1>5, <1>6, <1>7, <1>8 DEF LogStep, Firmware

\* What is read next is newer than all that was sent, after every step.
LEMMA OrderStep == SessionInv /\ OrderInv /\ CountInv /\ [ReadNext]_readVars => OrderInv'
<1> SUFFICES ASSUME SessionInv, OrderInv, CountInv, [ReadNext]_readVars, fresh', ~torn', ~spoiled'
             PROVE  /\ \A i \in 1 .. Len(sent') : \A u \in sent'[i] : u <= LastCounted' - unitNumber' + i
                    /\ \A i, j \in 1 .. Len(sent') :
                           i < j => \A u \in sent'[i], v \in sent'[j] : u < v
  BY DEF OrderInv
<1>1. offset \in Nat /\ sent \in Seq(SUBSET Nat) /\ Len(sent) = offset
  BY SlotFacts DEF SessionInv, ReadTypeOK, Words
<1>2. TypeOK /\ StoreInv /\ unitNumber \in Nat /\ issued \in Nat
  BY SlotFacts DEF CountInv, StoreInv, RingInv, IInv, TypeOK, Words
<1>3. CASE (\E known \in BOOLEAN : Activate(known)) \/ PowerFails
  <2>1. sent' = <<>>
    BY <1>3 DEF Activate, PowerFails, NoSession
  <2>2. Len(sent') = 0
    BY <2>1, EmptySeq
  <2> QED BY <2>2
<1>4. CASE ReadRecord
  <2>1. /\ UNCHANGED <<fresh, torn, spoiled, pc, issued, unitNumber>> /\ pc = "idle"
        /\ sent' = Append(sent, ReadFmt(offset))
    BY <1>4 DEF ReadRecord, MutexFree, vars, ram, history
  <2>2. ReadFmt(offset) \in SUBSET Nat
    BY <1>2, ReadDataType DEF ReadFmt
  <2>3. /\ Len(sent') = offset + 1 /\ sent'[offset + 1] = ReadFmt(offset)
        /\ \A i \in 1 .. offset : sent'[i] = sent[i]
    BY <1>1, <2>1, <2>2, AppendProperties
  <2>4. LastCounted = issued /\ LastCounted' = issued
    BY <2>1 DEF LastCounted
  <2>5. /\ \A i \in 1 .. offset : \A u \in sent[i] : u \in Nat /\ u <= issued - unitNumber + i
        /\ \A i, j \in 1 .. offset : i < j => \A u \in sent[i], v \in sent[j] : u < v
    <3>1. /\ \A i \in 1 .. offset : \A u \in sent[i] : u <= issued - unitNumber + i
          /\ \A i, j \in 1 .. offset : i < j => \A u \in sent[i], v \in sent[j] : u < v
      BY <1>1, <2>1, <2>4 DEF OrderInv
    <3>2. \A i \in 1 .. offset : sent[i] \in SUBSET Nat
      BY <1>1, ElementOfSeq
    <3> QED BY <3>1, <3>2
  <2>6. \A u \in ReadFmt(offset) : u = issued - unitNumber + (offset + 1)
    <3>1. CASE offset < unitNumber
      <4>1. offset \in 0 .. unitNumber - 1
        BY <1>1, <1>2, <3>1
      <4>2. ReadFmt(offset) = {issued - unitNumber + 1 + offset}
        BY <1>2, <2>1, <3>1, <4>1, NewestReadable DEF WindowIsNewest, ReadFmt
      <4>3. issued - unitNumber + 1 + offset = issued - unitNumber + (offset + 1)
        BY <1>1, <1>2
      <4> QED BY <4>2, <4>3
    <3>2. CASE ~(offset < unitNumber)
      BY <3>2 DEF ReadFmt
    <3> QED BY <3>1, <3>2
  <2>7. ASSUME NEW i \in 1 .. offset + 1, NEW u \in sent'[i]
        PROVE  u <= issued - unitNumber + i
    <3>1. CASE i \in 1 .. offset
      BY <2>3, <2>5, <2>7, <3>1
    <3>2. CASE i = offset + 1
      <4>1. u = issued - unitNumber + i
        BY <2>3, <2>6, <2>7, <3>2
      <4> QED BY <1>1, <1>2, <4>1
    <3> QED BY <1>1, <3>1, <3>2
  <2>8. ASSUME NEW i \in 1 .. offset + 1, NEW j \in 1 .. offset + 1, i < j,
               NEW u \in sent'[i], NEW v \in sent'[j]
        PROVE  u < v
    <3>1. i \in 1 .. offset /\ u \in sent[i]
      BY <1>1, <2>3, <2>8
    <3>2. CASE j \in 1 .. offset
      BY <2>3, <2>5, <2>8, <3>1, <3>2
    <3>3. CASE j = offset + 1
      <4>1. v = issued - unitNumber + (offset + 1)
        BY <2>3, <2>6, <2>8, <3>3
      <4>2. u \in Nat /\ u <= issued - unitNumber + i
        BY <2>5, <3>1
      <4> QED BY <1>1, <1>2, <3>1, <4>1, <4>2
    <3> QED BY <1>1, <3>2, <3>3
  <2> QED BY <2>1, <2>3, <2>4, <2>7, <2>8
<1>5. CASE \/ \E more \in BOOLEAN : Confirm(more)
           \/ AnswerActivation \/ StartPacket \/ EndPacket \/ UNCHANGED readVars
  <2>1. UNCHANGED <<sent, fresh, torn, spoiled, pc, issued, unitNumber>>
    BY <1>5 DEF Confirm, AnswerActivation, StartPacket, EndPacket, readVars, session, vars, ram, history
  <2>2. LastCounted' = LastCounted
    BY <2>1 DEF LastCounted
  <2> QED BY <2>1, <2>2 DEF OrderInv
<1>6. CASE LogStep
  <2>1. sent' = sent
    BY <1>6 DEF LogStep
  <2>2. CASE offset = 0
    BY <1>1, <2>1, <2>2
  <2>3. CASE offset # 0
    <3>1. /\ fresh /\ ~torn /\ ~spoiled
          /\ LastCounted \in Int /\ LastCounted' \in Int /\ unitNumber \in Int /\ unitNumber' \in Int
          /\ LastCounted - unitNumber <= LastCounted' - unitNumber'
      BY <1>6, <2>3, BoundGrows
    <3>2. /\ \A i \in 1 .. offset : \A u \in sent[i] : u <= LastCounted - unitNumber + i
          /\ \A i, j \in 1 .. offset : i < j => \A u \in sent[i], v \in sent[j] : u < v
      BY <1>1, <3>1 DEF OrderInv
    <3>3. ASSUME NEW i \in 1 .. offset, NEW u \in sent[i] PROVE u <= LastCounted' - unitNumber' + i
      <4>1. u \in Nat
        BY <1>1, <3>3, ElementOfSeq
      <4>2. u <= LastCounted - unitNumber + i
        BY <3>2, <3>3
      <4>3. PICK a \in Int, b \in Int, c \in Int, d \in Int :
                a = LastCounted /\ b = unitNumber /\ c = LastCounted' /\ d = unitNumber'
        BY <3>1
      <4>4. a - b <= c - d /\ u <= a - b + i
        BY <3>1, <4>2, <4>3
      <4>5. u <= c - d + i
        BY <4>1, <4>4
      <4> QED BY <4>3, <4>5
    <3> QED BY <1>1, <2>1, <3>2, <3>3
  <2> QED BY <2>2, <2>3
<1> QED BY <1>3, <1>4, <1>5, <1>6 DEF ReadNext, Continue

\* From an open to the first recycled block or Clear, a transfer sends no record twice
\* and none after a newer one, wherever writes and power cuts that leave the log in
\* order fall.
THEOREM TransferInOrder == ReadSpec => []SendsInOrder
<1>1. ReadInit => OrderInv
  BY DEF ReadInit, Init, OrderInv
<1>2. OrderInv => SendsInOrder
  BY DEF OrderInv, SendsInOrder
<1> QED BY <1>1, <1>2, OrderStep, SessionInductive, CountOfRead, PTL DEF ReadSpec

=============================================================================
