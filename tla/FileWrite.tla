------------------------------ MODULE FileWrite ------------------------------
(***************************************************************************)
(* FileMid.cpp and fsmid_log.cpp: the 101 master uploads a firmware image. *)
(* The activation erases the region of logFirmware, a log of plain bytes   *)
(* without headers, before its answer accepts or refuses the announced     *)
(* length; every segment is then programmed where the last one ended.  RAM *)
(* alone knows how far an upload has come.                                 *)
(*                                                                         *)
(* A segment is one piece of the region, represented by the upload it      *)
(* belongs to and its number; a piece of flash is the set of the segments  *)
(* programmed into it since it was erased.                                 *)
(*                                                                         *)
(* Definitions named ...Bug are the ones after them with a coding error.   *)
(***************************************************************************)
EXTENDS Naturals, FiniteSets

CONSTANTS
    Size,           \* maxUnitCount, in segments
    PerBlock,       \* segments in an erase block
    Behind,         \* segments of the flash behind the region, the configuration
    MaxUploads,     \* bound of the model: the activations
    Repeats         \* does the master send segments again?

ASSUME SizeAssumption ==
    /\ Size \in Nat \ {0} /\ PerBlock \in Nat \ {0} /\ Size % PerBlock = 0
    /\ Behind \in Nat \ {0} /\ MaxUploads \in Nat /\ Repeats \in BOOLEAN

Flash == 0 .. Size + Behind - 1
Region == 0 .. Size - 1
EraseBlocks == 0 .. Size \div PerBlock - 1
Lengths == 0 .. Size + 1        \* s_writeLength: whatever the master announces

VARIABLES
    flash,
    indexLast, unitNumber,      \* of logFirmware
    pc,                         \* "off", "idle", or in log_erase
    pending,                    \* the erase blocks log_erase has still to erase
    op,                         \* the code of pOperate, 0 for NULL
    class,                      \* of the last answer: 2 while the master should continue
    offset, writeLength,        \* s_offset, s_writeLength
    accepted,                   \* the master: it was told to send
    next,                       \* ... and sends this segment next
    upload                      \* the number of the upload

vars == <<flash, indexLast, unitNumber, pc, pending, op, class, offset, writeLength,
          accepted, next, upload>>

Ready == pc = "idle"

-----------------------------------------------------------------------------
(* __file_write_activate, with FSLOG_Clear of a data-only log *)

Activate(length) ==
    /\ Ready /\ upload < MaxUploads
    /\ op' = 7
    /\ writeLength' = length
    /\ pc' = "erase" /\ pending' = EraseBlocks
    /\ accepted' = FALSE /\ next' = 0
    /\ upload' = upload + 1
    /\ UNCHANGED <<flash, indexLast, unitNumber, class, offset>>

EraseBlock(b) ==
    /\ pc = "erase" /\ b \in pending
    /\ flash' = [i \in Flash |-> IF i \in Region /\ i \div PerBlock = b THEN {} ELSE flash[i]]
    /\ pending' = pending \ {b}
    /\ UNCHANGED <<indexLast, unitNumber, pc, op, class, offset, writeLength,
                   accepted, next, upload>>

ErasedBug == pending # EraseBlocks      \* returns after the first block
Erased == pending = {}

ClearEndBug ==                          \* indexLast is not reset
    /\ pc = "erase" /\ Erased
    /\ unitNumber' = 0
    /\ pc' = "idle" /\ class' = 2
    /\ UNCHANGED <<flash, indexLast, pending, op, offset, writeLength, accepted, next, upload>>

ClearEnd ==
    /\ pc = "erase" /\ Erased
    /\ unitNumber' = 0 /\ indexLast' = 0
    /\ pc' = "idle" /\ class' = 2
    /\ UNCHANGED <<flash, pending, op, offset, writeLength, accepted, next, upload>>

\* __file_write_confirm
FitsBug == writeLength <= Size + 1      \* one too many
Fits == writeLength <= Size

AnswerActivation ==
    /\ Ready /\ op = 7 /\ class = 2
    /\ accepted' = Fits
    /\ class' = 0
    /\ UNCHANGED <<flash, indexLast, unitNumber, pc, pending, op, offset, writeLength,
                   next, upload>>

-----------------------------------------------------------------------------
(* __file_write_transfer and FSLOG_WriteBinary: the offset of the segment  *)
(* is kept for the answer, the segment goes to the end of the log.         *)

WriteBinaryBug(segment) ==              \* the number of units is not the end
    /\ flash' = [flash EXCEPT ![indexLast] = @ \cup {<<upload, segment>>}]
    /\ unitNumber' = unitNumber + 1 /\ UNCHANGED indexLast

WriteBinary(segment) ==
    /\ flash' = [flash EXCEPT ![indexLast] = @ \cup {<<upload, segment>>}]
    /\ unitNumber' = unitNumber + 1 /\ indexLast' = indexLast + 1

Transfer(segment) ==
    /\ Ready /\ accepted
    /\ segment < writeLength /\ indexLast \in Flash     \* bound of the model
    /\ segment = next \/ (Repeats /\ segment < next)
    /\ op' = 9
    /\ offset' = segment
    /\ WriteBinary(segment)
    /\ class' = 2
    /\ next' = segment + 1
    /\ UNCHANGED <<pc, pending, writeLength, accepted, upload>>

\* __file_write_transfer_confirm; the master need not fetch it every time.
AnswerTransfer ==
    /\ Ready /\ op = 9 /\ class = 2
    /\ class' = 0
    /\ UNCHANGED <<flash, indexLast, unitNumber, pc, pending, op, offset, writeLength,
                   accepted, next, upload>>

-----------------------------------------------------------------------------
(* The power fails, also between the blocks of an erase; FSLOG_Open opens a *)
(* data-only log as empty, whatever is in it.                               *)

PowerOff ==
    /\ pc # "off"
    /\ pc' = "off"
    /\ indexLast' = 0 /\ unitNumber' = 0 /\ pending' = {}
    /\ op' = 0 /\ class' = 0 /\ offset' = 0 /\ writeLength' = 0
    /\ accepted' = FALSE /\ next' = 0
    /\ UNCHANGED <<flash, upload>>

Open ==
    /\ pc = "off"
    /\ pc' = "idle"
    /\ UNCHANGED <<flash, indexLast, unitNumber, pending, op, class, offset, writeLength,
                   accepted, next, upload>>

Init ==
    /\ flash = [i \in Flash |-> {}]
    /\ indexLast = 0 /\ unitNumber = 0 /\ pc = "off" /\ pending = {}
    /\ op = 0 /\ class = 0 /\ offset = 0 /\ writeLength = 0
    /\ accepted = FALSE /\ next = 0 /\ upload = 0

Next ==
    \/ \E length \in Lengths : Activate(length)
    \/ \E b \in EraseBlocks : EraseBlock(b)
    \/ ClearEnd \/ AnswerActivation
    \/ \E segment \in 0 .. Size : Transfer(segment)
    \/ AnswerTransfer \/ PowerOff \/ Open

Spec == Init /\ [][Next]_vars

-----------------------------------------------------------------------------
(* Properties *)

Segments == (1 .. MaxUploads) \X (0 .. Size)

TypeOK ==
    /\ flash \in [Flash -> SUBSET Segments]
    /\ indexLast \in 0 .. Size + Behind /\ unitNumber = indexLast
    /\ pc \in {"off", "idle", "erase"} /\ pending \subseteq EraseBlocks
    /\ op \in {0, 7, 9} /\ class \in {0, 2}
    /\ offset \in Lengths /\ writeLength \in Lengths
    /\ accepted \in BOOLEAN /\ next \in Lengths /\ upload \in 0 .. MaxUploads

\* A master that has sent its file, segment after segment, finds just the file
\* in flash and nothing of any upload before, given up or cut short as it may
\* have been.
ImageIsFile ==
    accepted /\ next = writeLength =>
        \A i \in Region : flash[i] = IF i < writeLength THEN {<<upload, i>>} ELSE {}

\* Wherever the power fails in an erase or an upload, no piece of flash is ever
\* programmed over another.
NoOverprogram == \A i \in Flash : Cardinality(flash[i]) <= 1

\* An upload that was accepted stays in its region: the configuration behind it
\* is never programmed.
StaysInRegion == \A i \in Flash \ Region : flash[i] = {}

-----------------------------------------------------------------------------
(* What the repository says of an upload and the code does not do. *)

\* test_protocol.cpp:249, "Write from:%7d": a segment is written where its
\* offset says, the first time and when it is sent again.
WritesFromOffset == \A i \in Flash : \A s \in flash[i] : s[2] = i

=============================================================================
