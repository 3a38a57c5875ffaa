------------------------------- MODULE FsLog -------------------------------
(***************************************************************************)
(* One FSLOG object of fsmid_log.cpp: a log of fixed-size units kept in a  *)
(* region of NOR flash, B erase blocks of U units each.  Every block       *)
(* starts with a header; the firmware rebuilds all its RAM pointers from   *)
(* the headers when it opens the log.  Every call into the flash driver    *)
(* (erase a block, program a header, program a unit) is one step, so that  *)
(* the power may fail between any two of them.                             *)
(*                                                                         *)
(* A unit is represented by the number of the write that produced it, and  *)
(* a slot by the set of the units programmed into it since its block was   *)
(* erased: programming only clears bits, so two units in one slot are the  *)
(* bitwise AND of both, a record that was never written.                   *)
(*                                                                         *)
(* A definition named ...Bug is not part of the specification: it is the   *)
(* definition after it with a plausible coding error, kept to show that    *)
(* the properties notice it.                                               *)
(***************************************************************************)
EXTENDS Naturals, FiniteSets

CONSTANTS
    B,            \* pInformation->blockNumber
    U,            \* unitPerBlock
    C,            \* pInformation->unitCount, not 0
    OTP,          \* attribute & FSLOG_ATTR_OTP: the log stops when full
    W,            \* unsigned int is modulo W (2^32 in the code)
    HeaderLen,    \* formatted length of the file header, in formatted units
    MaxUnits,     \* bound of the model: the units ever written
    CutsAllowed,  \* may the power fail inside an operation?
    WordAnd(_, _)     \* bitwise AND of two words

M == B * U        \* maxUnitCount
Words == 0 .. W - 1
Ones == W - 1     \* an erased word, -1UL
Blocks == 0 .. B - 1
Slots == 0 .. M - 1

ASSUME SizeAssumption ==
    /\ B \in Nat \ {0} /\ U \in Nat \ {0} /\ C \in Nat \ {0}
    /\ OTP \in BOOLEAN
    /\ M >= C + (IF OTP THEN 0 ELSE U)   \* the fsmid_assert of FSLOG_Open
ASSUME WordAssumption == W \in Nat /\ 2 * M < W
ASSUME BoundAssumption ==
    MaxUnits \in Nat /\ HeaderLen \in Nat /\ CutsAllowed \in BOOLEAN
ASSUME AndAssumption ==
    \A a, b \in Words : /\ WordAnd(a, b) \in Words
                        /\ WordAnd(a, a) = a
                        /\ WordAnd(Ones, a) = a /\ WordAnd(a, 0) = 0

\* FSLOG_BIT_*: each value is a submask of the one above it.
EMPTY == 3
FILLING == 2
FULL == 0
Flags == {EMPTY, FILLING, FULL}

\* sig: the signature is FSLOG_HEADER_SIGNATURE; cnt: the cleared bits of counter.
Header == [sig : BOOLEAN, flag : Flags, pid : Words, cnt : 0 .. U]
ErasedHeader == [sig |-> FALSE, flag |-> EMPTY, pid |-> Ones, cnt |-> 0]

VARIABLES
    hdr, slot,                        \* flash: block headers and unit slots
    indexFirst, indexLast, indexRead, unitNumber, pointerId, formatedSize,
    pc, blk,                          \* the flash call the firmware makes next
    issued, clearedAt, torn, spoiled, fresh    \* history: see Init

flash == <<hdr, slot>>
ram == <<indexFirst, indexLast, indexRead, unitNumber, pointerId, formatedSize>>
history == <<issued, clearedAt, torn, spoiled, fresh>>
vars == <<hdr, slot, ram, pc, blk, history>>

BlockOf(i) == i \div U
OffsetOf(i) == i % U
WrapBug(i) == IF i > M THEN i - M ELSE i    \* > for >=
Wrap(i) == IF i >= M THEN i - M ELSE i

-----------------------------------------------------------------------------
(* The flash driver: log_erase and log_write. *)

Lower(a, b) == IF a < b THEN a ELSE b
Higher(a, b) == IF a > b THEN a ELSE b

\* Programming a header over what the block holds.  The flags are nested
\* masks and the counter is a run of cleared bits, so AND keeps the lower
\* flag and the longer run.
Programmed(old, flag, pid, cnt) ==
    [sig  |-> TRUE,
     flag |-> Lower(old.flag, flag),
     pid  |-> WordAnd(old.pid, pid),
     cnt  |-> Higher(old.cnt, cnt)]

ProgramHeader(b, flag, pid, cnt) ==
    hdr' = [hdr EXCEPT ![b] = Programmed(hdr[b], flag, pid, cnt)]

EraseBlock(b) ==
    /\ hdr' = [hdr EXCEPT ![b] = ErasedHeader]
    /\ slot' = [s \in Slots |-> IF BlockOf(s) = b THEN {} ELSE slot[s]]

-----------------------------------------------------------------------------
(* FSLOG_Open and __fslog_init *)

IsFull(b) == hdr[b].sig /\ hdr[b].flag = FULL
AllFull == \A b \in Blocks : IsFull(b)

\* The block at which the scan stops: the first that is not FULL.
ScanStop == CHOOSE b \in Blocks : ~IsFull(b) /\ \A a \in Blocks : a < b => IsFull(a)

\* What the scan makes of a FILLING block: wrapped when the next one is FULL.
ScanWrapped == ScanStop + 1 < B /\ IsFull(ScanStop + 1)
ScanLastBugRestart == ScanStop * U          \* the counter is not added
ScanLastBugSkip == ScanStop * U + hdr[ScanStop].cnt + 1    \* skips a doubtful slot
ScanLast == ScanStop * U + hdr[ScanStop].cnt
ScanFirstBug == 0                           \* the wrapped ring is not noticed
ScanFirst == IF ScanWrapped THEN (ScanStop + 1) * U ELSE 0
ScanNumber == IF ScanWrapped THEN (ScanLast % U) + U * (B - 1) ELSE ScanLast

\* The end of FSLOG_Open: only the newest unitCount units are readable.
Opened(first, last, number, pid) ==
    /\ indexFirst' = first
    /\ indexLast' = last
    /\ indexRead' = IF number > C THEN Wrap(first + (number - C)) ELSE first
    /\ unitNumber' = Lower(number, C)
    /\ pointerId' = pid
    /\ formatedSize' = IF number = 0 THEN 0 ELSE (HeaderLen + Lower(number, C)) % W
    /\ pc' = "idle"
    /\ fresh' = TRUE
    /\ UNCHANGED <<issued, clearedAt, torn, spoiled>>

OpenResumeBug ==                            \* pointerId is not taken over
    /\ pc = "off" /\ ~AllFull
    /\ hdr[ScanStop].sig /\ hdr[ScanStop].flag = FILLING
    /\ Opened(ScanFirst, ScanLast, ScanNumber, 0)
    /\ UNCHANGED <<flash, blk>>

OpenResume ==
    /\ pc = "off" /\ ~AllFull
    /\ hdr[ScanStop].sig /\ hdr[ScanStop].flag = FILLING
    /\ Opened(ScanFirst, ScanLast, ScanNumber, hdr[ScanStop].pid)
    /\ UNCHANGED <<flash, blk>>

\* No valid signature: the block is erased and becomes the one to fill.
OpenRepair ==
    /\ pc = "off" /\ ~AllFull
    /\ ~hdr[ScanStop].sig
    /\ EraseBlock(ScanStop)
    /\ blk' = ScanStop
    /\ pc' = "openHeader"
    /\ UNCHANGED <<ram, history>>

\* The header is written with the zeroed pointerId, before it is set.
OpenRepairHeader ==
    /\ pc = "openHeader"
    /\ ProgramHeader(blk, FILLING, pointerId, 0)
    /\ Opened(blk * U, blk * U, blk * U, blk * U)
    /\ UNCHANGED <<slot, blk>>

\* A failed fsmid_assert: a signed block neither FILLING nor FULL, or all FULL.
OpenHang ==
    /\ pc = "off"
    /\ ~AllFull => hdr[ScanStop].sig /\ hdr[ScanStop].flag = EMPTY
    /\ pc' = "hung"
    /\ UNCHANGED <<flash, ram, blk, history>>

-----------------------------------------------------------------------------
(* FSLOG_Write: program the unit, then the header that counts it, and when *)
(* the block is full erase the next block and write its header.            *)

OtpFullBug == OTP /\ unitNumber > C         \* > for >=
OtpFull == OTP /\ unitNumber >= C    \* FSMIDR_LENGTH_LARGE

WriteData ==
    /\ pc = "idle" /\ ~OtpFull
    /\ issued < MaxUnits
    /\ slot' = [slot EXCEPT ![indexLast] = @ \cup {issued + 1}]
    /\ issued' = issued + 1
    /\ formatedSize' = IF unitNumber < C THEN (formatedSize + 1) % W ELSE formatedSize
    /\ pc' = "counter"
    /\ UNCHANGED <<hdr, indexFirst, indexLast, indexRead, unitNumber, pointerId,
                   blk, clearedAt, torn, spoiled, fresh>>

\* Beyond the capacity the oldest readable unit makes room for the new one.
CountUnitBug == unitNumber' = unitNumber + 1 /\ UNCHANGED indexRead
CountUnit ==
    IF unitNumber < C
    THEN unitNumber' = unitNumber + 1 /\ UNCHANGED indexRead
    ELSE indexRead' = Wrap(indexRead + 1) /\ UNCHANGED unitNumber

\* __fslog_plus_write_counter
WriteCounter ==
    LET num == OffsetOf(indexLast + 1)
    IN  /\ pc = "counter"
        /\ ProgramHeader(BlockOf(indexLast), IF num # 0 THEN FILLING ELSE FULL,
                         pointerId, IF num # 0 THEN num ELSE U)
        /\ CountUnit
        /\ indexLast' = Wrap(indexLast + 1)
        /\ pointerId' = IF num = 0 THEN (pointerId + 1) % W ELSE pointerId
        /\ pc' = IF num = 0 THEN "nextErase" ELSE "idle"
        /\ UNCHANGED <<slot, indexFirst, formatedSize, blk, history>>

\* __fslog_init_block on the block that indexLast has entered.
NextEraseBugNone ==                         \* the block is not erased
    /\ pc = "nextErase"
    /\ pc' = "nextHeader"
    /\ UNCHANGED <<flash, ram, blk, history>>

NextEraseBugAhead ==                        \* the block after it is erased
    /\ pc = "nextErase"
    /\ EraseBlock(BlockOf(Wrap(indexLast + U)))
    /\ pc' = "nextHeader"
    /\ UNCHANGED <<ram, blk, history>>

NextErase ==
    /\ pc = "nextErase"
    /\ EraseBlock(BlockOf(indexLast))
    /\ pc' = "nextHeader"
    /\ UNCHANGED <<ram, blk, history>>

\* The block entered held the oldest units.
RecycledBug == FALSE                        \* the first index stays
Recycled == indexLast = indexFirst

\* Its header, and the end of FSLOG_Write.
NextHeader ==
    /\ pc = "nextHeader"
    /\ ProgramHeader(BlockOf(indexLast), FILLING, pointerId, 0)
    /\ IF Recycled
       THEN /\ indexFirst' = Wrap(indexFirst + U)
            /\ unitNumber' = (unitNumber + W - U) % W
       ELSE UNCHANGED <<indexFirst, unitNumber>>
    /\ fresh' = (fresh /\ ~Recycled)
    /\ pc' = "idle"
    /\ UNCHANGED <<slot, indexLast, indexRead, pointerId, formatedSize,
                   blk, issued, clearedAt, torn, spoiled>>

-----------------------------------------------------------------------------
(* FSLOG_Clear: block 0 becomes FILLING, every other block EMPTY. *)

ClearStartBug ==                            \* starts at block 1
    /\ pc = "idle"
    /\ blk' = 1
    /\ pc' = "clearErase"
    /\ UNCHANGED <<flash, ram, history>>

ClearStart ==
    /\ pc = "idle"
    /\ blk' = 0
    /\ pc' = "clearErase"
    /\ UNCHANGED <<flash, ram, history>>

ClearErase ==
    /\ pc = "clearErase"
    /\ EraseBlock(blk)
    /\ pc' = "clearHeader"
    /\ UNCHANGED <<ram, blk, history>>

ClearHeader ==
    /\ pc = "clearHeader"
    /\ IF blk = 0 THEN ProgramHeader(blk, FILLING, pointerId, 0)
                  ELSE ProgramHeader(blk, EMPTY, Ones, 0)
    /\ IF blk + 1 < B
       THEN /\ blk' = blk + 1
            /\ pc' = "clearErase"
            /\ UNCHANGED <<ram, history>>
       ELSE /\ pointerId' = 0 /\ unitNumber' = 0 /\ formatedSize' = 0
            /\ indexFirst' = 0 /\ indexLast' = 0
            /\ clearedAt' = issued
            /\ fresh' = FALSE /\ torn' = FALSE /\ spoiled' = FALSE
            /\ pc' = "idle"
            /\ UNCHANGED <<blk, indexRead, issued>>
    /\ UNCHANGED slot

-----------------------------------------------------------------------------
(* FSLOG_ReadData and FSLOG_GetPointerIndex: no state changes.  index is   *)
(* below unitNumber, the result a slot or an address outside the region.   *)

ReadIndex(index) == Wrap((index + indexRead) % W)
ReadData(index) == IF ReadIndex(index) \in Slots THEN slot[ReadIndex(index)] ELSE {}

\* index is a multiple of U: the header sits just before the unit's address.
GetPointerIndex(index) == hdr[BlockOf(Wrap(index + indexFirst))].pid

-----------------------------------------------------------------------------
(* The environment: the power fails.  RAM is lost, and zeroed by the next  *)
(* FSLOG_Open; the flash keeps what was programmed.                        *)

LoseRam ==
    /\ indexFirst' = 0 /\ indexLast' = 0 /\ indexRead' = 0
    /\ unitNumber' = 0 /\ pointerId' = 0 /\ formatedSize' = 0
    /\ pc' = "off"
    /\ fresh' = FALSE
    /\ UNCHANGED <<flash, blk, issued, clearedAt>>

PowerOff ==
    /\ pc \in {"idle", "hung"}
    /\ LoseRam
    /\ UNCHANGED <<torn, spoiled>>

\* The points of an operation at which the order of the blocks is in doubt.
BetweenBlocks == {"nextErase", "nextHeader", "clearErase", "clearHeader"}

PowerCut ==
    /\ CutsAllowed
    /\ pc \notin {"idle", "hung", "off"}
    /\ LoseRam
    /\ torn' = (torn \/ pc \in BetweenBlocks)
    /\ spoiled' = (spoiled \/ pc = "counter")

-----------------------------------------------------------------------------

Init ==
    /\ hdr = [b \in Blocks |-> ErasedHeader]
    /\ slot = [s \in Slots |-> {}]
    /\ indexFirst = 0 /\ indexLast = 0 /\ indexRead = 0
    /\ unitNumber = 0 /\ pointerId = 0 /\ formatedSize = 0
    /\ pc = "off" /\ blk = 0
    /\ issued = 0         \* units whose write has begun
    /\ clearedAt = 0      \* issued when the last Clear ended
    /\ torn = FALSE       \* since the last Clear, has the power failed between blocks?
    /\ spoiled = FALSE    \* ... or between a unit and its counter?
    /\ fresh = FALSE      \* opened, and neither cleared nor recycled a block since

\* What the firmware does by itself once an operation has begun.
Firmware ==
    \/ OpenResume \/ OpenRepair \/ OpenRepairHeader \/ OpenHang
    \/ WriteCounter \/ NextErase \/ NextHeader
    \/ ClearErase \/ ClearHeader

Next == Firmware \/ WriteData \/ ClearStart \/ PowerOff \/ PowerCut

\* A powered processor keeps executing the operation it is in.
Spec == Init /\ [][Next]_vars /\ WF_vars(Firmware)

-----------------------------------------------------------------------------
(* Properties *)

PcStates == {"off", "idle", "hung", "openHeader", "counter", "nextErase",
             "nextHeader", "clearErase", "clearHeader"}

\* Every header field and RAM pointer keeps its width; the pointers stay in the region.
TypeOK ==
    /\ hdr \in [Blocks -> Header]
    /\ slot \in [Slots -> SUBSET Nat]
    /\ indexFirst \in Slots /\ indexLast \in Slots /\ indexRead \in Slots
    /\ unitNumber \in Words /\ pointerId \in Words /\ formatedSize \in Words
    /\ pc \in PcStates /\ blk \in Blocks
    /\ issued \in 0 .. MaxUnits /\ clearedAt \in Nat
    /\ torn \in BOOLEAN /\ spoiled \in BOOLEAN /\ fresh \in BOOLEAN

\* The slots the headers count, and the units the flash therefore holds.
Counted == {s \in Slots : OffsetOf(s) < hdr[BlockOf(s)].cnt}
Kept == UNION {slot[s] : s \in Counted}

\* A header never counts a slot that was not programmed, wherever the power
\* fails: FSLOG_Write programs the unit before the counter, and the header of
\* a block is only written after the block's erase.
CountedAreProgrammed == \A s \in Counted : slot[s] # {}

\* Unless the power failed inside a write or a Clear no slot is programmed twice
\* between erases: indexLast always names an erased slot.
NoOverprogram == ~torn /\ ~spoiled => \A s \in Slots : Cardinality(slot[s]) <= 1

\* Unless the power failed between two blocks none of the fsmid_asserts that
\* check the headers in __fslog_init can fail, and a completed Clear mends a log
\* that a cut left in doubt.
OpenSucceeds == ~torn => pc # "hung"

\* Between operations the RAM pointers are those a reboot would rebuild from
\* the headers, whether or not a write was cut before its unit was counted.
\* The block a Clear left empty keeps the old pointerId until its first unit
\* is counted.
RecoveryAgrees ==
    pc = "idle" /\ ~torn =>
        /\ ~AllFull
        /\ hdr[ScanStop].sig /\ hdr[ScanStop].flag = FILLING
        /\ ScanLast = indexLast
        /\ ScanFirst = indexFirst
        /\ hdr[ScanStop].cnt > 0 => hdr[ScanStop].pid = pointerId

\* Between operations the flash holds exactly the newest units written since
\* the last Clear, and at least (B-1)*U of them when that many were written:
\* recycling takes the oldest block and nothing else.
KeepsNewest ==
    pc = "idle" /\ ~torn /\ ~spoiled =>
        \E n \in 0 .. issued - clearedAt :
            /\ Kept = issued - n + 1 .. issued
            /\ n >= Lower(issued - clearedAt, (B - 1) * U)

\* From an open to the next recycled block, reading index 0, 1, ... returns the
\* newest units in the order they were written, unitCount of them when there
\* are that many.
WindowIsNewest ==
    pc = "idle" /\ fresh /\ ~torn /\ ~spoiled =>
        /\ unitNumber = Lower(Cardinality(Kept), C)
        /\ \A i \in 0 .. unitNumber - 1 :
               ReadData(i) = {issued - unitNumber + 1 + i}

\* Every full block carries the pointerId before that of its ring successor,
\* so that pointerId * unitPerBlock numbers the units consecutively.
PointersConsecutive ==
    pc = "idle" /\ ~torn =>
        \A b \in Blocks :
            IsFull(b) => LET d == IF b < BlockOf(indexLast) THEN BlockOf(indexLast) - b
                                  ELSE BlockOf(indexLast) + B - b
                         IN  (hdr[b].pid + d) % W = pointerId

\* A log opened with FSLOG_ATTR_OTP on a region larger than its capacity only
\* ever loses a unit to a Clear.
OtpNeverLoses ==
    [][OTP /\ C < M /\ ~torn /\ pc \notin {"clearErase", "clearHeader"}
           => Kept \subseteq Kept']_vars

\* The flash implements the abstract store: what the headers count only grows by
\* the unit being written and only shrinks by the oldest block, or by a Clear,
\* which empties it from the moment it holds the mutex, or by a power cut inside
\* a write or a Clear, which leaves the rest in doubt until the next Clear.
Certain == ~torn /\ ~spoiled /\ pc \notin {"clearErase", "clearHeader"}
KeptForSure == IF Certain THEN Kept ELSE {}
LastCounted == IF pc = "counter" THEN issued - 1 ELSE issued
Store == INSTANCE RingStore WITH
    Room <- M, BlockSize <- U, Limit <- IF OTP THEN C ELSE M,
    kept <- KeptForSure, last <- LastCounted
ImplementsRingStore == Store!Spec

\* Without power cuts every open ends with a usable log, every write and every
\* clear returns.
OperationsEnd == pc # "idle" ~> pc = "idle"

-----------------------------------------------------------------------------
(* What the repository says of the log and the code does not do. *)

\* fsmid_log.cpp:370, "move oldest&read pointer": after a block is recycled the
\* read pointer has left it, so that the first readable unit is a written one.
ReadPointerMoves ==
    pc = "idle" /\ ~torn /\ clearedAt = 0 /\ unitNumber # 0 => slot[indexRead] # {}

\* fsmid_log.h:97, "read one data unit from FSLOG object's current itemIndex":
\* after a Clear too, a read below the available count returns a written unit.
\* (Fewer units than a ring of blocks holds, so that recycling plays no part.)
ReadsAfterClear ==
    pc = "idle" /\ ~torn /\ clearedAt > 0 /\ issued - clearedAt < M =>
        \A i \in 0 .. unitNumber - 1 : ReadData(i) # {}

\* fsmid_log.h:116, "get FSLOG object's available data count": no more units are
\* readable than the flash holds.
AvailableCount == pc = "idle" /\ ~torn => unitNumber <= Cardinality(Kept)

\* fsmid_log.cpp:130 and 163, fsmid_assert(0): an open never finds a signed
\* block that is EMPTY before the one to fill, nor all blocks FULL.
NoBadBlockOrder == pc # "hung"

=============================================================================
