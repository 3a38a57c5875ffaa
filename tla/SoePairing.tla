----------------------------- MODULE SoePairing -----------------------------
(***************************************************************************)
(* FSMID_SoeApp of fsmid_app.cpp, called once a second: it drains the      *)
(* queue of the sequence-of-events (SOE) interface into two logs.  The raw *)
(* log gets every event; the log for the 101 master gets one record for    *)
(* each, except that the two events of a double point, when they follow    *)
(* each other, become one: the first is held back and replaced by the      *)
(* second.  The value of a record is read from the database of digital     *)
(* inputs when the event is processed, and inputs keep changing meanwhile. *)
(*                                                                         *)
(* Definitions named ...Bug are the ones after them with a coding error.   *)
(***************************************************************************)
EXTENDS Naturals, Sequences

CONSTANTS
    Doubles,    \* double points, <<syspnton, syspntoff>> each
    Singles,    \* single points
    Unknown,    \* points that are in no frame of the 101 configuration
    MaxEvents   \* bound of the model: the changes of inputs

Inputs == (UNION {{d[1], d[2]} : d \in Doubles}) \cup Singles \cup Unknown

ASSUME PointAssumption ==
    /\ \A d \in Doubles : d = <<d[1], d[2]>> /\ d[1] # d[2]
    /\ \A d \in Doubles : {d[1], d[2]} \cap (Singles \cup Unknown) = {}
    /\ \A c, d \in Doubles : c # d => {c[1], c[2]} \cap {d[1], d[2]} = {}
    /\ Singles \cap Unknown = {}
ASSUME BoundAssumption == MaxEvents \in Nat

VARIABLES
    di,         \* the database: db_GetDi of every input
    queue,      \* events that db_GetSoe has not handed out
    raw,        \* logRawSoe
    soelog,     \* logSoe
    pc,         \* "idle", "fetch" or "record"
    event,      \* pEvent
    held,       \* soe and flag: a sequence of no record or of one
    otherpnt,   \* s_otherpnt
    begun,      \* history: the lengths of raw and soelog when the call began
    changes     \* the changes of inputs so far

vars == <<di, queue, raw, soelog, pc, event, held, otherpnt, begun, changes>>

None == <<>>

-----------------------------------------------------------------------------
(* dpa10x_SearchSyspntInFrms and the records *)

IsDouble(p) == \E d \in Doubles : p \in {d[1], d[2]}
DoubleOf(p) == CHOOSE d \in Doubles : p \in {d[1], d[2]}
OtherOf(p) == IF DoubleOf(p)[1] = p THEN DoubleOf(p)[2] ELSE DoubleOf(p)[1]

\* The information object of a point: both halves of a double point have one.
Information(p) == IF IsDouble(p) THEN DoubleOf(p) ELSE <<p>>

\* DIQ of the information object as the database is now.
Value(inf) == IF Len(inf) = 2 THEN 2 * di[inf[1]] + di[inf[2]] ELSE 2 * di[inf[1]]
Soe(p) == [information |-> Information(p), value |-> Value(Information(p))]

-----------------------------------------------------------------------------
(* FSMID_SoeApp *)

Call ==
    /\ pc = "idle" /\ queue # <<>>
    /\ pc' = "fetch"
    /\ held' = None
    /\ otherpnt' = None
    /\ begun' = [raw |-> Len(raw), soe |-> Len(soelog)]
    /\ UNCHANGED <<di, queue, raw, soelog, event, changes>>

\* db_GetSoe, and the event goes to the raw log as it is.
Fetch ==
    /\ pc = "fetch" /\ queue # <<>>
    /\ event' = Head(queue)
    /\ queue' = Tail(queue)
    /\ raw' = Append(raw, event')
    /\ pc' = "record"
    /\ UNCHANGED <<di, soelog, held, otherpnt, begun, changes>>

\* Not in the configuration: a record held back is written.
RecordUnknownBug ==                     \* the held record stays, and is written again
    /\ event \in Unknown
    /\ soelog' = soelog \o held
    /\ UNCHANGED <<held, otherpnt>>

RecordUnknown ==
    /\ event \in Unknown
    /\ soelog' = soelog \o held
    /\ held' = None
    /\ UNCHANGED otherpnt

\* The second event of a double point replaces the first.
RecordSecondBug ==                      \* the first is the one to be written
    /\ IsDouble(event) /\ held # None /\ otherpnt = <<event>>
    /\ soelog' = soelog \o held
    /\ held' = None
    /\ UNCHANGED otherpnt

RecordSecond ==
    /\ IsDouble(event) /\ held # None /\ otherpnt = <<event>>
    /\ soelog' = Append(soelog, Soe(event))
    /\ held' = None
    /\ UNCHANGED otherpnt

\* Any other event of a double point is held back.
RecordFirstBug ==                       \* the record held before is lost
    /\ IsDouble(event) /\ ~(held # None /\ otherpnt = <<event>>)
    /\ held' = <<Soe(event)>>
    /\ otherpnt' = <<OtherOf(event)>>
    /\ UNCHANGED soelog

RecordFirst ==
    /\ IsDouble(event) /\ ~(held # None /\ otherpnt = <<event>>)
    /\ soelog' = soelog \o held
    /\ held' = <<Soe(event)>>
    /\ otherpnt' = <<OtherOf(event)>>

RecordSingle ==
    /\ event \in Singles
    /\ soelog' = Append(soelog \o held, Soe(event))
    /\ held' = None
    /\ UNCHANGED otherpnt

Record ==
    /\ pc = "record"
    /\ RecordUnknown \/ RecordSecond \/ RecordFirst \/ RecordSingle
    /\ pc' = "fetch"
    /\ UNCHANGED <<di, queue, raw, event, begun, changes>>

\* No event is left: what is held back is written.
Return ==
    /\ pc = "fetch" /\ queue = <<>>
    /\ soelog' = soelog \o held
    /\ pc' = "idle"
    /\ UNCHANGED <<di, queue, raw, event, held, otherpnt, begun, changes>>

-----------------------------------------------------------------------------
(* The environment: an input changes and its event is queued. *)

Change(p) ==
    /\ changes < MaxEvents
    /\ di' = [di EXCEPT ![p] = 1 - @]
    /\ queue' = Append(queue, p)
    /\ changes' = changes + 1
    /\ UNCHANGED <<raw, soelog, pc, event, held, otherpnt, begun>>

Init ==
    /\ di = [p \in Inputs |-> 0]
    /\ queue = <<>> /\ raw = <<>> /\ soelog = <<>>
    /\ pc = "idle" /\ event = None /\ held = None /\ otherpnt = None
    /\ begun = [raw |-> 0, soe |-> 0] /\ changes = 0

SoeApp == Call \/ Fetch \/ Record \/ Return
Next == SoeApp \/ \E p \in Inputs : Change(p)

\* FSMID_Task calls FSMID_SoeApp every second, for ever.
Spec == Init /\ [][Next]_vars /\ WF_vars(SoeApp)

-----------------------------------------------------------------------------
(* Properties *)

\* The records that a call must make of the events it fetched: a pair of events
\* of one double point, one right after the other, becomes one record.
IsPair(p, q) == IsDouble(p) /\ q = OtherOf(p)

\* Which events complete a pair?
Seconds(events) ==
    LET second[i \in 0 .. Len(events)] ==
            i >= 2 /\ IsPair(events[i - 1], events[i]) /\ ~second[i - 1]
    IN  second

\* The information objects of the records of the first events, for every number of them.
Objects(events) ==
    LET recorded(i) == /\ events[i] \notin Unknown
                       /\ i < Len(events) => ~Seconds(events)[i + 1]
        of[i \in 0 .. Len(events)] ==
            IF i = 0 THEN <<>>
            ELSE IF recorded(i) THEN Append(of[i - 1], Information(events[i])) ELSE of[i - 1]
    IN  of

Expected(events) == Objects(events)[Len(events)]

\* When a call returns, the records it made are those of its events, in their
\* order: none is lost, doubled or left behind.
RecordsOfCall ==
    pc = "idle" =>
        LET events == SubSeq(raw, begun.raw + 1, Len(raw))
            records == SubSeq(soelog, begun.soe + 1, Len(soelog))
        IN  [i \in 1 .. Len(records) |-> records[i].information] = Expected(events)

\* When every event has been processed the last record of an information object
\* has the value the database has, however the changes and the call interleave.
LastRecordIsCurrent ==
    pc = "idle" /\ queue = <<>> =>
        \A inf \in {Information(raw[i]) : i \in {j \in 1 .. Len(raw) : raw[j] \notin Unknown}} :
            \E i \in 1 .. Len(soelog) :
                /\ soelog[i] = [information |-> inf, value |-> Value(inf)]
                /\ \A j \in i + 1 .. Len(soelog) : soelog[j].information # inf

=============================================================================
