----------------------------- MODULE FolderCall -----------------------------
(***************************************************************************)
(* FileMid.cpp and fsmid_log.cpp: the 101 master lists a folder of daily   *)
(* files while the task that owns them (module DayLogs) appends to them,   *)
(* clears and renames them.  FileMid_101Requir filters the list of logs    *)
(* into headFiltedLog, log after log and without a lock; the master        *)
(* fetches the result, two files a packet, with FileMid_101Continue, which *)
(* reads the name and the time of every file at that moment.               *)
(*                                                                         *)
(* Definitions named ...Bug are the ones after them with a coding error.   *)
(***************************************************************************)
EXTENDS DayLogs

CONSTANTS
    PerPacket,      \* NUM_FILE_INFO_PER_PACKET
    Room,           \* entries of headFiltedLog, the closing NULL included
    Ranges,         \* pairs of times the master asks for; AllFiles for no pair
    MaxCalls        \* bound of the model: the calls

AllFiles == <<>>

ASSUME FolderAssumption ==
    /\ PerPacket \in Nat \ {0} /\ MaxCalls \in Nat
    /\ Room \in Nat /\ N + 1 <= Room    \* 31 daily files and the NULL in 32 entries
    /\ \A r \in Ranges : r = AllFiles \/ r \in Nat \X Nat

VARIABLES
    stage,          \* of the session: "none", "filter", "ready", "packet"
    wanted,         \* timeSysPair
    scan,           \* FSLOG_Filter: the log it looks at next
    filted,         \* headFiltedLog; nFiltedLog is its length
    itemCount,      \* filtedItemCount
    offset,         \* s_offset
    class,          \* of the last answer: 2 while the master should continue
    entries,        \* files in the packet being built
    announced,      \* its byte 7, the number of files in it
    follow,         \* its byte 6, does a packet follow?
    calls,
    listed,         \* history: what the master has been told, file by file
    steady          \* history: the files in use and in range at the call and ever since

session == <<stage, wanted, scan, filted, itemCount, offset, class, entries,
             announced, follow, calls, listed, steady>>
folderVars == <<vars, session>>

Up == pc \notin {"off", "hung"}

-----------------------------------------------------------------------------
(* FSLOG_Filter *)

\* A file without a name of the folder is called TEMP/...
InFolder(s) == created[s] # Unset
InRange(s, range) ==
    range = AllFiles \/ (range[1] <= created[s] /\ created[s] <= range[2])
Listable(s, range) == file[s] # <<>> /\ InFolder(s) /\ InRange(s, range)

\* __folder_call up to the loop of FSLOG_Filter, with FSLOG_ReleaseFilter.
CallBug(range) ==                       \* the last result is not released
    /\ Up /\ stage \in {"none", "ready"} /\ calls < MaxCalls
    /\ stage' = "filter" /\ wanted' = range /\ scan' = 0
    /\ calls' = calls + 1
    /\ listed' = <<>> /\ steady' = {s \in Slots : file[s] # <<>> /\ InRange(s, range)}
    /\ UNCHANGED <<vars, filted, itemCount, offset, class, entries, announced, follow>>

Call(range) ==
    /\ Up /\ stage \in {"none", "ready"} /\ calls < MaxCalls
    /\ stage' = "filter" /\ wanted' = range /\ scan' = 0
    /\ filted' = <<>>
    /\ calls' = calls + 1
    /\ listed' = <<>> /\ steady' = {s \in Slots : file[s] # <<>> /\ InRange(s, range)}
    /\ UNCHANGED <<vars, itemCount, offset, class, entries, announced, follow>>

FilterLog ==
    /\ stage = "filter" /\ scan \in Slots
    /\ filted' = IF Listable(scan, wanted) THEN Append(filted, scan) ELSE filted
    /\ scan' = scan + 1
    /\ UNCHANGED <<vars, stage, wanted, itemCount, offset, class, entries, announced,
                   follow, calls, listed, steady>>

FilterEndBug ==                         \* goes on where the last listing stopped
    /\ stage = "filter" /\ scan \notin Slots
    /\ itemCount' = Len(filted) /\ class' = 2
    /\ stage' = "ready"
    /\ UNCHANGED <<vars, wanted, scan, filted, offset, entries, announced, follow,
                   calls, listed, steady>>

FilterEnd ==
    /\ stage = "filter" /\ scan \notin Slots
    /\ itemCount' = Len(filted) /\ offset' = 0 /\ class' = 2
    /\ stage' = "ready"
    /\ UNCHANGED <<vars, wanted, scan, filted, entries, announced, follow,
                   calls, listed, steady>>

-----------------------------------------------------------------------------
(* __folder_call_confirm *)

Follows == offset + PerPacket < itemCount
Fewer(a, b) == IF a < b THEN a ELSE b

StartPacket ==
    /\ Up /\ stage = "ready" /\ class = 2
    /\ follow' = Follows
    /\ announced' = Fewer(itemCount - offset, PerPacket)
    /\ entries' = 0
    /\ IF announced' = 0
       THEN class' = 0 /\ UNCHANGED stage
       ELSE stage' = "packet" /\ UNCHANGED class
    /\ UNCHANGED <<vars, wanted, scan, filted, itemCount, offset, calls, listed, steady>>

PacketDoneBug == entries = PerPacket + 1 \/ offset >= itemCount     \* one more
PacketDoneBugCount == entries = PerPacket       \* does not look at the count
PacketDone == entries = PerPacket \/ offset >= itemCount

\* FSLOG_GetFiltedItem and what the packet says of the log.
ListEntry ==
    /\ Up /\ stage = "packet" /\ ~PacketDone
    /\ offset < Len(filted)             \* fsmid_assert(pLog), or it hangs
    /\ LET s == filted[offset + 1]
       IN  listed' = Append(listed, [file |-> s, name |-> Day(created[s])])
    /\ offset' = offset + 1
    /\ entries' = entries + 1
    /\ UNCHANGED <<vars, stage, wanted, scan, filted, itemCount, class, announced,
                   follow, calls, steady>>

EndPacket ==
    /\ Up /\ stage = "packet" /\ PacketDone
    /\ class' = IF itemCount = offset THEN 0 ELSE 2
    /\ stage' = "ready"
    /\ UNCHANGED <<vars, wanted, scan, filted, itemCount, offset, entries, announced,
                   follow, calls, listed, steady>>

-----------------------------------------------------------------------------
(* The task of the files goes on meanwhile; a power failure ends the session. *)

NoSession ==
    /\ stage' = "none" /\ wanted' = AllFiles /\ scan' = 0 /\ filted' = <<>>
    /\ itemCount' = 0 /\ offset' = 0 /\ class' = 0 /\ entries' = 0
    /\ announced' = 0 /\ follow' = FALSE /\ listed' = <<>> /\ steady' = {}
    /\ UNCHANGED calls

TaskStep ==
    /\ Boot \/ Tick \/ Late \/ Task
    /\ steady' = {s \in steady : file'[s] # <<>> /\ created'[s] = created[s]}
    /\ UNCHANGED <<stage, wanted, scan, filted, itemCount, offset, class, entries,
                   announced, follow, calls, listed>>

PowerFails == PowerOff /\ NoSession

FolderInit ==
    /\ Init
    /\ stage = "none" /\ wanted = AllFiles /\ scan = 0 /\ filted = <<>>
    /\ itemCount = 0 /\ offset = 0 /\ class = 0 /\ entries = 0
    /\ announced = 0 /\ follow = FALSE /\ calls = 0 /\ listed = <<>> /\ steady = {}

Answer == FilterLog \/ FilterEnd \/ StartPacket \/ ListEntry \/ EndPacket

FolderNext ==
    \/ \E range \in Ranges : Call(range)
    \/ Answer \/ TaskStep \/ PowerFails

\* The protocol task runs on, and the master fetches what is of class 2.
FolderSpec == FolderInit /\ [][FolderNext]_folderVars /\ WF_folderVars(Answer)

-----------------------------------------------------------------------------
(* Properties *)

FolderTypeOK ==
    /\ stage \in {"none", "filter", "ready", "packet"} /\ class \in {0, 2}
    /\ wanted \in Ranges \cup {AllFiles} /\ scan \in 0 .. N
    /\ filted \in Seq(Slots) /\ Len(filted) < Room
    /\ itemCount \in 0 .. N /\ offset \in 0 .. N
    /\ entries \in 0 .. PerPacket /\ announced \in 0 .. PerPacket /\ follow \in BOOLEAN
    /\ steady \subseteq Slots

\* The FROZEN files are named after their first records: only while their table is
\* in order is none the name of two.
Named == FROZEN => ~skewed

\* A file is never listed twice, and two files never under one name (but FROZEN
\* files out of order), whatever is cleared and renamed while the list is made and
\* fetched (__folder_call, which reads the table while the main task changes it).
ListedOnce ==
    \A i, j \in 1 .. Len(listed) :
        i < j => /\ listed[i].file < listed[j].file
                 /\ Named => listed[i].name # listed[j].name

\* A listing that has ended names every file of the folder that was there at the
\* call and has been there since, whatever happened to the others meanwhile.
ListsSteadyFiles ==
    stage = "ready" /\ class = 0 /\ calls > 0 =>
        \A s \in steady : InFolder(s) => \E i \in 1 .. Len(listed) :
            listed[i] = [file |-> s, name |-> Day(created[s])]

\* A listing ends, whatever is written meanwhile; no assertion hangs it.
ListingEnds == class = 2 ~> class = 0

-----------------------------------------------------------------------------
(* What the repository says of the listing and the code does not do. *)

\* test_protocol.cpp:88, "all files": a listing without a range names every file
\* that has records, given that it stays as it is while the list is made.
ListsAllFiles ==
    stage = "ready" /\ class = 0 /\ calls > 0 /\ wanted = AllFiles =>
        \A s \in steady : \E i \in 1 .. Len(listed) : listed[i].file = s

=============================================================================
