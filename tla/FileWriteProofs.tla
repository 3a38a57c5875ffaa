-------------------------- MODULE FileWriteProofs --------------------------
(***************************************************************************)
(* Proofs about module FileWrite, for every size of the region and of its  *)
(* blocks and for any number of uploads, given that no segment is sent     *)
(* twice.                                                                  *)
(***************************************************************************)
EXTENDS FileWrite, FiniteSetTheorems, TLAPS

\* What of the region is known to be erased or programmed at every point of an
\* upload: the erase, its end, and the segments of an accepted one.
ErasedSoFar ==
    pc = "erase" =>
        /\ op = 7 /\ next = 0 /\ upload > 0
        /\ \A i \in Region : i \div PerBlock \notin pending => flash[i] = {}
ErasedForUpload ==
    pc = "idle" /\ op = 7 /\ class = 2 =>
        /\ indexLast = 0 /\ next = 0 /\ upload > 0 /\ ~accepted
        /\ \A i \in Region : flash[i] = {}
Uploading ==
    accepted =>
        /\ pc = "idle" /\ writeLength <= Size /\ upload > 0
        /\ next = indexLast /\ next <= writeLength
        /\ \A i \in Region : flash[i] = IF i < indexLast THEN {<<upload, i>>} ELSE {}
Fetched ==
    /\ accepted /\ op = 7 => class = 0
    /\ pc = "off" => op = 0

IInv ==
    /\ TypeOK /\ NoOverprogram /\ StaysInRegion
    /\ ErasedSoFar /\ ErasedForUpload /\ Uploading /\ Fetched

-----------------------------------------------------------------------------
(* Lemmas *)

LEMMA SizeFacts ==
    /\ Size \in Nat /\ Size > 0 /\ PerBlock \in Nat /\ PerBlock > 0 /\ Behind \in Nat /\ Behind > 0
    /\ MaxUploads \in Nat
    /\ Region \subseteq Flash /\ Region \subseteq Nat
    /\ \A i \in Region : i \in 0 .. Size - 1
    /\ \A i \in Flash \ Region : i >= Size
BY SizeAssumption DEF Region, Flash

\* A piece of flash with at most one segment: erased, or programmed once.
LEMMA OneSegment ==
    /\ Cardinality({}) <= 1
    /\ \A s : Cardinality({s}) <= 1
<1>1. Cardinality({}) = 0
  BY FS_EmptySet, Zenon
<1>2. ASSUME NEW s PROVE Cardinality({s}) = 1
  BY FS_Singleton, Zenon
<1>3. ASSUME NEW s PROVE Cardinality({s}) <= 1
  BY <1>2
<1>4. Cardinality({}) <= 1
  BY <1>1
<1> QED
  BY <1>3, <1>4, Zenon

\* Every piece of the region belongs to an erase block.
LEMMA RegionInBlocks == \A i \in Region : i \div PerBlock \in EraseBlocks
<1> SUFFICES ASSUME NEW i \in 0 .. Size - 1 PROVE i \div PerBlock \in EraseBlocks
  BY DEF Region
<1>1. Size \in Nat \ {0} /\ PerBlock \in Nat \ {0} /\ Size % PerBlock = 0
  BY SizeAssumption
<1>2. Size = (Size \div PerBlock) * PerBlock /\ Size \div PerBlock \in Nat
  BY <1>1
<1>3. PICK n \in Nat : n = Size \div PerBlock
  BY <1>2
<1>4. i \in 0 .. n * PerBlock - 1
  BY <1>2, <1>3
<1>5. i \div PerBlock \in 0 .. n - 1
  BY <1>1, <1>3, <1>4
<1> QED
  BY <1>3, <1>5 DEF EraseBlocks

LEMMA InitIInv == Init => IInv
<1> SUFFICES ASSUME Init PROVE IInv
  OBVIOUS
<1>1. TypeOK
  <2>1. flash \in [Flash -> SUBSET Segments]
    BY DEF Init
  <2>2. /\ indexLast \in 0 .. Size + Behind /\ unitNumber = indexLast
        /\ offset \in Lengths /\ writeLength \in Lengths /\ next \in Lengths
        /\ upload \in 0 .. MaxUploads
    BY SizeFacts DEF Init, Lengths
  <2> QED
    BY <2>1, <2>2 DEF Init, TypeOK
<1>2. NoOverprogram /\ StaysInRegion
  BY OneSegment, SizeFacts DEF Init, NoOverprogram, StaysInRegion
<1>3. ErasedSoFar /\ ErasedForUpload /\ Uploading /\ Fetched
  BY DEF Init, ErasedSoFar, ErasedForUpload, Uploading, Fetched
<1> QED
  BY <1>1, <1>2, <1>3 DEF IInv

-----------------------------------------------------------------------------
(* Each step preserves the invariant. *)

LEMMA ActivateIInv == ASSUME IInv, NEW length \in Lengths, Activate(length) PROVE IInv'
<1> USE DEF IInv
<1>1. /\ flash' = flash /\ pc' = "erase" /\ pending' = EraseBlocks /\ accepted' = FALSE
      /\ op' = 7 /\ next' = 0 /\ upload' = upload + 1
  BY DEF Activate
<1>2. upload' \in 0 .. MaxUploads /\ upload' > 0
  BY <1>1, SizeFacts DEF Activate, TypeOK
<1>3. next' \in Lengths /\ writeLength' \in Lengths
  BY <1>1, SizeFacts DEF Activate, Lengths
<1>4. TypeOK'
  BY <1>1, <1>2, <1>3 DEF Activate, TypeOK
<1>5. NoOverprogram' /\ StaysInRegion'
  BY <1>1 DEF NoOverprogram, StaysInRegion
<1>6. ErasedSoFar' /\ ErasedForUpload' /\ Uploading' /\ Fetched'
  BY <1>1, <1>2, RegionInBlocks DEF ErasedSoFar, ErasedForUpload, Uploading, Fetched
<1> QED
  BY <1>4, <1>5, <1>6

LEMMA EraseIInv == ASSUME IInv, NEW b \in EraseBlocks, EraseBlock(b) PROVE IInv'
<1> USE DEF IInv
<1>1. /\ pc = "erase" /\ pc' = "erase" /\ pending' = pending \ {b}
      /\ accepted' = accepted /\ ~accepted /\ op' = op /\ next' = next /\ upload' = upload
  BY DEF EraseBlock, Uploading
<1>2. \A i \in Flash : flash'[i] = IF i \in Region /\ i \div PerBlock = b THEN {} ELSE flash[i]
  BY DEF EraseBlock
<1>3. TypeOK'
  <2>1. flash' \in [Flash -> SUBSET Segments]
    BY DEF EraseBlock, TypeOK
  <2> QED
    BY <2>1 DEF EraseBlock, TypeOK
<1>4. NoOverprogram' /\ StaysInRegion'
  BY <1>2, OneSegment DEF NoOverprogram, StaysInRegion
<1>5. ErasedSoFar'
  BY <1>1, <1>2, SizeFacts DEF ErasedSoFar
<1>6. ErasedForUpload' /\ Uploading' /\ Fetched'
  BY <1>1 DEF ErasedForUpload, Uploading, Fetched
<1> QED
  BY <1>3, <1>4, <1>5, <1>6

LEMMA ClearEndIInv == ASSUME IInv, ClearEnd PROVE IInv'
<1> USE DEF IInv
<1>1. /\ pc = "erase" /\ pending = {} /\ pc' = "idle" /\ flash' = flash
      /\ indexLast' = 0 /\ unitNumber' = 0 /\ next' = next /\ accepted' = accepted
      /\ upload' = upload /\ ~accepted
  BY DEF ClearEnd, Erased, Uploading
<1>2. /\ next = 0 /\ upload > 0
      /\ \A i \in Region : flash[i] = {}
  BY <1>1 DEF ErasedSoFar
<1>3. TypeOK'
  <2>1. indexLast' \in 0 .. Size + Behind
    BY <1>1, SizeFacts
  <2> QED
    BY <1>1, <2>1 DEF ClearEnd, TypeOK
<1>4. NoOverprogram' /\ StaysInRegion'
  BY <1>1 DEF NoOverprogram, StaysInRegion
<1>5. ErasedSoFar' /\ ErasedForUpload' /\ Uploading' /\ Fetched'
  BY <1>1, <1>2 DEF ErasedSoFar, ErasedForUpload, Uploading, Fetched
<1> QED
  BY <1>3, <1>4, <1>5

\* An accepted upload starts with an erased region and fits into it.
LEMMA AnswerActivationIInv == ASSUME IInv, AnswerActivation PROVE IInv'
<1> USE DEF IInv
<1>1. /\ pc = "idle" /\ op = 7 /\ class = 2 /\ class' = 0 /\ accepted' = Fits
      /\ UNCHANGED <<flash, indexLast, unitNumber, pc, pending, op, offset, writeLength,
                     next, upload>>
  BY DEF AnswerActivation, Ready
<1>2. /\ indexLast = 0 /\ next = 0 /\ upload > 0
      /\ \A i \in Region : flash[i] = {}
  BY <1>1 DEF ErasedForUpload
<1>3. TypeOK'
  <2>1. accepted' \in BOOLEAN
    BY <1>1 DEF Fits
  <2> QED
    BY <1>1, <2>1 DEF TypeOK
<1>4. NoOverprogram' /\ StaysInRegion'
  BY <1>1 DEF NoOverprogram, StaysInRegion
<1>5. Uploading'
  <2>1. accepted' => writeLength' <= Size
    BY <1>1 DEF Fits
  <2>2. next' <= writeLength'
    BY <1>1, <1>2, SizeFacts DEF TypeOK, Lengths
  <2>3. \A i \in Region : ~(i < indexLast)
    BY <1>2, SizeFacts
  <2> QED
    BY <1>1, <1>2, <2>1, <2>2, <2>3 DEF Uploading
<1>6. ErasedSoFar' /\ ErasedForUpload' /\ Fetched'
  BY <1>1 DEF ErasedSoFar, ErasedForUpload, Fetched
<1> QED
  BY <1>3, <1>4, <1>5, <1>6

\* The next segment of an accepted upload goes to the erased piece of its number.
LEMMA TransferIInv ==
    ASSUME ~Repeats, IInv, NEW segment \in 0 .. Size, Transfer(segment) PROVE IInv'
<1> USE DEF IInv
<1>1. /\ accepted /\ pc = "idle" /\ op' = 9 /\ segment = next /\ segment < writeLength
      /\ offset' = segment /\ next' = segment + 1 /\ class' = 2
      /\ indexLast' = indexLast + 1 /\ unitNumber' = unitNumber + 1
      /\ flash' = [flash EXCEPT ![indexLast] = @ \cup {<<upload, segment>>}]
      /\ UNCHANGED <<pc, pending, writeLength, accepted, upload>>
  BY DEF Transfer, WriteBinary, Ready
<1>2. /\ writeLength <= Size /\ upload > 0 /\ next = indexLast
      /\ \A i \in Region : flash[i] = IF i < indexLast THEN {<<upload, i>>} ELSE {}
  BY <1>1 DEF Uploading
<1>3. writeLength \in Nat /\ indexLast \in Nat /\ segment \in Nat /\ Size \in Nat
  BY SizeFacts DEF TypeOK, Lengths
<1>4. indexLast \in Region /\ indexLast \in Flash
  BY <1>1, <1>2, <1>3, SizeFacts DEF Region
<1>5. flash[indexLast] = {}
  <2>1. flash[indexLast] = IF indexLast < indexLast THEN {<<upload, indexLast>>} ELSE {}
    BY <1>2, <1>4
  <2>2. ~(indexLast < indexLast)
    BY <1>3
  <2> QED
    BY <2>1, <2>2
<1>6. /\ flash'[indexLast] = {<<upload, indexLast>>}
      /\ \A i \in Flash \ {indexLast} : flash'[i] = flash[i]
  BY <1>1, <1>2, <1>4, <1>5 DEF TypeOK
<1>7. TypeOK'
  <2>1. <<upload, segment>> \in Segments
    BY <1>2, SizeFacts DEF TypeOK, Segments
  <2>2. flash' \in [Flash -> SUBSET Segments]
    BY <1>1, <2>1 DEF TypeOK
  <2>3. /\ indexLast' \in 0 .. Size + Behind /\ unitNumber' = indexLast'
        /\ offset' \in Lengths /\ next' \in Lengths
    BY <1>1, <1>2, <1>3, SizeFacts DEF TypeOK, Lengths
  <2> QED
    BY <1>1, <2>2, <2>3 DEF TypeOK
<1>8. NoOverprogram'
  BY <1>6, OneSegment DEF NoOverprogram
<1>9. StaysInRegion'
  BY <1>4, <1>6 DEF StaysInRegion
<1>10. Uploading'
  <2>1. ASSUME NEW i \in Region
        PROVE flash'[i] = IF i < indexLast' THEN {<<upload', i>>} ELSE {}
    <3>1. i \in Nat /\ i \in Flash
      BY SizeFacts
    <3>2. CASE i = indexLast
      BY <1>1, <1>3, <1>6, <3>2
    <3>3. CASE i # indexLast
      <4>1. flash'[i] = flash[i]
        BY <1>6, <3>1, <3>3
      <4>2. i < indexLast' <=> i < indexLast
        BY <1>1, <1>3, <3>1, <3>3
      <4> QED
        BY <1>1, <1>2, <4>1, <4>2
    <3> QED
      BY <3>2, <3>3
  <2>2. next' = indexLast' /\ next' <= writeLength'
    BY <1>1, <1>2, <1>3
  <2> QED
    BY <1>1, <1>2, <2>1, <2>2 DEF Uploading
<1>11. ErasedSoFar' /\ ErasedForUpload' /\ Fetched'
  BY <1>1 DEF ErasedSoFar, ErasedForUpload, Fetched
<1> QED
  BY <1>7, <1>8, <1>9, <1>10, <1>11

LEMMA AnswerTransferIInv == ASSUME IInv, AnswerTransfer PROVE IInv'
<1> USE DEF IInv
<1>1. /\ pc = "idle" /\ op = 9 /\ class' = 0
      /\ UNCHANGED <<flash, indexLast, unitNumber, pc, pending, op, offset, writeLength,
                     accepted, next, upload>>
  BY DEF AnswerTransfer, Ready
<1>2. TypeOK'
  BY <1>1 DEF TypeOK
<1>3. NoOverprogram' /\ StaysInRegion'
  BY <1>1 DEF NoOverprogram, StaysInRegion
<1>4. ErasedSoFar' /\ ErasedForUpload' /\ Uploading' /\ Fetched'
  BY <1>1 DEF ErasedSoFar, ErasedForUpload, Uploading, Fetched
<1> QED
  BY <1>2, <1>3, <1>4

\* A power failure leaves any part of an erase or an upload in flash.
LEMMA PowerOffIInv == ASSUME IInv, PowerOff PROVE IInv'
<1> USE DEF IInv
<1>1. /\ pc' = "off" /\ op' = 0 /\ accepted' = FALSE /\ flash' = flash
  BY DEF PowerOff
<1>2. TypeOK'
  <2>1. 0 \in Lengths /\ 0 \in 0 .. Size + Behind
    BY SizeFacts DEF Lengths
  <2> QED
    BY <2>1 DEF PowerOff, TypeOK
<1>3. NoOverprogram' /\ StaysInRegion'
  BY <1>1 DEF NoOverprogram, StaysInRegion
<1>4. ErasedSoFar' /\ ErasedForUpload' /\ Uploading' /\ Fetched'
  BY <1>1 DEF ErasedSoFar, ErasedForUpload, Uploading, Fetched
<1> QED
  BY <1>2, <1>3, <1>4

LEMMA OpenIInv == ASSUME IInv, Open PROVE IInv'
<1> USE DEF IInv
<1>1. /\ pc = "off" /\ op = 0 /\ ~accepted /\ pc' = "idle"
      /\ UNCHANGED <<flash, indexLast, unitNumber, pending, op, class, offset, writeLength,
                     accepted, next, upload>>
  BY DEF Open, Fetched, Uploading
<1>2. TypeOK'
  BY <1>1 DEF TypeOK
<1>3. NoOverprogram' /\ StaysInRegion'
  BY <1>1 DEF NoOverprogram, StaysInRegion
<1>4. ErasedSoFar' /\ ErasedForUpload' /\ Uploading' /\ Fetched'
  BY <1>1 DEF ErasedSoFar, ErasedForUpload, Uploading, Fetched
<1> QED
  BY <1>2, <1>3, <1>4

LEMMA StutterIInv == ASSUME IInv, UNCHANGED vars PROVE IInv'
BY DEF IInv, vars, TypeOK, NoOverprogram, StaysInRegion, ErasedSoFar, ErasedForUpload,
       Uploading, Fetched

LEMMA NextIInv == ASSUME ~Repeats, IInv, [Next]_vars PROVE IInv'
<1>1. CASE \E length \in Lengths : Activate(length)
  BY <1>1, ActivateIInv
<1>2. CASE \E b \in EraseBlocks : EraseBlock(b)
  BY <1>2, EraseIInv
<1>3. CASE ClearEnd
  BY <1>3, ClearEndIInv
<1>4. CASE AnswerActivation
  BY <1>4, AnswerActivationIInv
<1>5. CASE \E segment \in 0 .. Size : Transfer(segment)
  BY <1>5, TransferIInv
<1>6. CASE AnswerTransfer
  BY <1>6, AnswerTransferIInv
<1>7. CASE PowerOff
  BY <1>7, PowerOffIInv
<1>8. CASE Open
  BY <1>8, OpenIInv
<1>9. CASE UNCHANGED vars
  BY <1>9, StutterIInv
<1> QED
  BY <1>1, <1>2, <1>3, <1>4, <1>5, <1>6, <1>7, <1>8, <1>9 DEF Next

LEMMA Inductive == ASSUME ~Repeats PROVE Spec => []IInv
<1>1. Init => IInv
  BY InitIInv
<1>2. IInv /\ [Next]_vars => IInv'
  BY NextIInv
<1> QED
  BY <1>1, <1>2, PTL DEF Spec

-----------------------------------------------------------------------------
(* The properties of FileWrite *)

\* The variables of an upload keep their types.
THEOREM TypeCorrect == ASSUME ~Repeats PROVE Spec => []TypeOK
<1>1. IInv => TypeOK
  BY DEF IInv
<1> QED
  BY <1>1, Inductive, PTL

\* FSLOG_WriteBinary never programs a piece of flash that is not erased,
\* wherever the power failed in the uploads before.
THEOREM ProgramsErased == ASSUME ~Repeats PROVE Spec => []NoOverprogram
<1>1. IInv => NoOverprogram
  BY DEF IInv
<1> QED
  BY <1>1, Inductive, PTL

\* FSLOG_WriteBinary, which has no check of its own, never programs the blocks
\* behind the region: __file_write_confirm accepts no file that is too long.
THEOREM KeptInRegion == ASSUME ~Repeats PROVE Spec => []StaysInRegion
<1>1. IInv => StaysInRegion
  BY DEF IInv
<1> QED
  BY <1>1, Inductive, PTL

\* What a finished upload leaves in the region is its file and nothing else.
THEOREM FileStored == ASSUME ~Repeats PROVE Spec => []ImageIsFile
<1>1. IInv => ImageIsFile
  BY DEF IInv, Uploading, ImageIsFile
<1> QED
  BY <1>1, Inductive, PTL

=============================================================================
