------------------------------ MODULE FileRead ------------------------------
(***************************************************************************)
(* FileMid.cpp: the 101 master reads a log file, packet by packet, while   *)
(* the task that owns the log (module FsLog) keeps writing, recycling and  *)
(* clearing it.  A request of the master calls FileMid_101Requir, which    *)
(* selects the operation; as long as the answers are of class 2 the master *)
(* fetches the next packet with FileMid_101Continue.                       *)
(*                                                                         *)
(* The session keeps no lock: each record of a packet is read under the    *)
(* mutex of the log (FSLOG_LockReadFmt), so a record may be written        *)
(* between two records of one packet; the number of units is taken at      *)
(* activation, without the mutex.                                          *)
(*                                                                         *)
(* Definitions named ...Bug are the ones after them with a coding error.   *)
(***************************************************************************)
EXTENDS FsLog, Sequences

CONSTANTS
    PerPacket,      \* NUM_LOG_STR_PER_PACKET
    MaxRequests     \* bound of the model: the activations

ASSUME PacketAssumption == PerPacket \in Nat \ {0} /\ MaxRequests \in Nat

VARIABLES
    op,                 \* the code of pOperate, 0 for NULL
    theFile,            \* is s_theFile the log?  (else NULL)
    itemCount,          \* filtedItemCount
    offset,             \* s_offset
    class,              \* of the last answer: 2 while the master should continue
    packet,             \* records in the packet being built, or NotBuilding
    follow,             \* its byte 9: does a packet follow?
    requests,
    sent,               \* history: what the transfer has sent, a unit or {} each
    atActivation,       \* history: what the activation could have read
    disturbed           \* history: has a unit left the readable ones since?

session == <<op, theFile, itemCount, offset, class, packet, follow, requests,
             sent, atActivation, disturbed>>
readVars == <<vars, session>>

NotBuilding == PerPacket + 1
Up == pc \notin {"off", "openHeader", "hung"}
MutexFree == pc = "idle"

-----------------------------------------------------------------------------
(* The handlers of FileMid_101Requir *)

\* __file_read_activate: FSLOG_Search finds the log or nothing.
ActivateBug(known) ==                   \* a transfer given up is resumed
    /\ Up /\ packet = NotBuilding /\ requests < MaxRequests
    /\ op' = 3
    /\ theFile' = known
    /\ itemCount' = IF known THEN unitNumber ELSE 0
    /\ class' = 2
    /\ requests' = requests + 1
    /\ sent' = <<>>
    /\ atActivation' = [i \in 1 .. itemCount' |-> ReadData(i - 1)]
    /\ disturbed' = FALSE
    /\ UNCHANGED <<vars, offset, packet, follow>>

Activate(known) ==
    /\ Up /\ packet = NotBuilding /\ requests < MaxRequests
    /\ op' = 3
    /\ theFile' = known
    /\ offset' = 0
    /\ itemCount' = IF known THEN unitNumber ELSE 0
    /\ class' = 2
    /\ requests' = requests + 1
    /\ sent' = <<>>
    /\ atActivation' = [i \in 1 .. itemCount' |-> ReadData(i - 1)]
    /\ disturbed' = FALSE
    /\ UNCHANGED <<vars, packet, follow>>

\* __file_read_confirm_rx: the master confirms the packets; the last byte says
\* whether it wants more.  (It only does so in a transfer of a file.)
Confirm(more) ==
    /\ Up /\ packet = NotBuilding /\ op = 6 /\ theFile
    /\ class' = IF more THEN 2 ELSE 0
    /\ theFile' = more
    /\ UNCHANGED <<vars, op, itemCount, offset, packet, follow, requests,
                   sent, atActivation, disturbed>>

-----------------------------------------------------------------------------
(* The handlers of FileMid_101Continue *)

\* __file_read_confirm_tx: pOperate moves on to the transfer.
AnswerActivation ==
    /\ Up /\ packet = NotBuilding /\ op = 3 /\ class = 2
    /\ op' = IF theFile THEN 6 ELSE 3
    /\ class' = IF theFile THEN 2 ELSE 0
    /\ UNCHANGED <<vars, theFile, itemCount, offset, packet, follow, requests,
                   sent, atActivation, disturbed>>

\* __file_read_transfer_confirm, up to the loop.
FollowsBug == offset + PerPacket <= itemCount       \* <= for <
Follows == offset + PerPacket < itemCount

StartPacket ==
    /\ Up /\ packet = NotBuilding /\ op = 6 /\ class = 2
    /\ follow' = Follows
    /\ packet' = 0
    /\ UNCHANGED <<vars, op, theFile, itemCount, offset, class, requests,
                   sent, atActivation, disturbed>>

\* FSLOG_ReadFmt formats nothing when the index is not below unitNumber.
ReadFmtBug(index) == ReadData(index + 1)            \* one off
ReadFmtBugNewest(index) ==                          \* counts from the newest
    IF index < unitNumber THEN ReadData(unitNumber - 1 - index) ELSE {}
ReadFmt(index) == IF index < unitNumber THEN ReadData(index) ELSE {}

\* One turn of the loop.
PacketDone == packet = PerPacket \/ offset >= itemCount

ReadRecord ==
    /\ packet # NotBuilding /\ ~PacketDone /\ MutexFree
    /\ sent' = Append(sent, ReadFmt(offset))
    /\ offset' = offset + 1
    /\ packet' = packet + 1
    /\ UNCHANGED <<vars, op, theFile, itemCount, class, follow, requests,
                   atActivation, disturbed>>

EndPacketBug ==                         \* the last packet is not noticed
    /\ packet # NotBuilding /\ PacketDone
    /\ class' = 2
    /\ packet' = NotBuilding
    /\ UNCHANGED <<vars, op, theFile, itemCount, offset, follow, requests,
                   sent, atActivation, disturbed>>

EndPacket ==
    /\ packet # NotBuilding /\ PacketDone
    /\ class' = IF itemCount = offset THEN 0 ELSE 2
    /\ packet' = NotBuilding
    /\ UNCHANGED <<vars, op, theFile, itemCount, offset, follow, requests,
                   sent, atActivation, disturbed>>

-----------------------------------------------------------------------------
(* The log goes on meanwhile; a power failure ends the session too. *)

NoSession ==
    /\ op' = 0 /\ theFile' = FALSE /\ itemCount' = 0 /\ offset' = 0
    /\ class' = 0 /\ packet' = NotBuilding /\ follow' = FALSE
    /\ sent' = <<>> /\ atActivation' = <<>> /\ disturbed' = FALSE
    /\ UNCHANGED requests

LogStep ==
    /\ Firmware \/ WriteData \/ ClearStart
    /\ disturbed' = (disturbed \/ indexRead' # indexRead \/ unitNumber' < unitNumber)
    /\ UNCHANGED <<op, theFile, itemCount, offset, class, packet, follow, requests,
                   sent, atActivation>>

PowerFails == (PowerOff \/ PowerCut) /\ NoSession

ReadInit ==
    /\ Init
    /\ op = 0 /\ theFile = FALSE /\ itemCount = 0 /\ offset = 0
    /\ class = 0 /\ packet = NotBuilding /\ follow = FALSE /\ requests = 0
    /\ sent = <<>> /\ atActivation = <<>> /\ disturbed = FALSE

Continue == AnswerActivation \/ StartPacket \/ EndPacket

ReadNext ==
    \/ \E known \in BOOLEAN : Activate(known)
    \/ \E more \in BOOLEAN : Confirm(more)
    \/ Continue \/ ReadRecord
    \/ LogStep \/ PowerFails

\* The master fetches what is announced as class 2 data; the tasks run, and
\* one that waits for the mutex gets it in its turn, hence the strong fairness.
ReadSpec ==
    /\ ReadInit /\ [][ReadNext]_readVars
    /\ WF_readVars(LogStep /\ Firmware) /\ WF_readVars(Continue) /\ SF_readVars(ReadRecord)

-----------------------------------------------------------------------------
(* Properties *)

ReadTypeOK ==
    /\ op \in {0, 3, 6} /\ class \in {0, 2}
    /\ theFile \in BOOLEAN /\ follow \in BOOLEAN /\ disturbed \in BOOLEAN
    /\ itemCount \in Words /\ offset \in 0 .. itemCount
    /\ packet \in 0 .. NotBuilding /\ requests \in 0 .. MaxRequests
    /\ sent \in Seq(SUBSET Nat) /\ Len(sent) = offset

\* A transfer during which no unit left the readable ones sends the records
\* that were readable at its activation, each once and in order, however many
\* were written meanwhile, between packets or inside one.  (The window of a
\* cleared log may begin at erased slots, which a write may fill meanwhile.)
SendsTheFile ==
    op = 6 /\ class = 0 /\ theFile /\ ~disturbed /\ ~torn /\ ~spoiled =>
        /\ Len(sent) = Len(atActivation)
        /\ \A i \in 1 .. Len(sent) : atActivation[i] \in {{}, sent[i]}

\* Until a block is recycled or the log is cleared no record is sent twice and
\* none is sent after a newer one, whatever is written meanwhile and however far
\* the window of the readable units moves on, between packets or inside one.
\* (Neither moves indexRead, fsmid_log.cpp:370 and 512: afterwards the window
\* may span indexLast, newer units before older ones, until the next open.)
SendsInOrder ==
    fresh /\ ~torn /\ ~spoiled =>
        \A i, j \in 1 .. Len(sent) :
            i < j => \A u \in sent[i], v \in sent[j] : u < v

\* test_protocol.cpp:175: the answer is of class 2 just when the packet says
\* that another one follows.
FollowAgrees ==
    [][packet # NotBuilding /\ packet' = NotBuilding /\ op' # 0
           => (class' = 2 <=> follow)]_readVars

\* A transfer ends, whatever is written meanwhile.
TransferEnds == class = 2 ~> class = 0

=============================================================================
