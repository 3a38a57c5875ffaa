---------------------------- MODULE EventRecords ----------------------------
(***************************************************************************)
(* What FSMID_Task records every second, in its order: FSMID_SoeApp, which *)
(* is SoePairing, then FSMID_CoApp, which drains the queue of controls     *)
(* into the raw log and the log of the 101 master, then FSMID_LogApp,      *)
(* which drains the user messages and the printed ones.  What arrives in a *)
(* queue that the task has left waits for the next second.                 *)
(***************************************************************************)
EXTENDS SoePairing

CONSTANTS
    Controls,       \* points with an information object in the 101 configuration
    Strangers       \* points without one

ASSUME ControlAssumption == Controls \cap Strangers = {}

VARIABLES
    turn,           \* what FSMID_Task does: "soe", "co", "ulog" or "print"
    trd,            \* controls that db_GetTrd has not handed out
    rawTrd, logCo,
    inf,            \* of FSMID_CoApp
    messages,       \* that db_GetULog and db_GetPrtLog have not handed out, by kind
    logUlog, logPrintLog,
    arrived         \* controls and messages so far

otherVars == <<trd, rawTrd, logCo, inf, messages, logUlog, logPrintLog, arrived>>
allVars == <<vars, turn, otherVars>>

Garbage == "garbage"    \* what is on the stack

-----------------------------------------------------------------------------
(* FSMID_Task *)

RecordEvents ==
    /\ turn = "soe"
    /\ SoeApp
    /\ turn' = IF pc' = "idle" THEN "co" ELSE "soe"
    /\ inf' \in IF turn' = "co" THEN Controls \cup {Garbage} ELSE {inf}
    /\ UNCHANGED <<trd, rawTrd, logCo, messages, logUlog, logPrintLog, arrived>>

NoEvents ==
    /\ turn = "soe" /\ pc = "idle" /\ queue = <<>>
    /\ turn' = "co"
    /\ inf' \in Controls \cup {Garbage}
    /\ UNCHANGED <<vars, trd, rawTrd, logCo, messages, logUlog, logPrintLog, arrived>>

\* FSMID_CoApp.  A search that finds nothing leaves inf as it was, and its
\* result is not looked at.  (An information object is named by its point.)
SearchedBug(pnt) == inf                 \* not searched at all
Searched(pnt) == IF pnt \in Controls THEN pnt ELSE inf

RecordControlBug ==                     \* a control off is not recorded
    /\ turn = "co" /\ trd # <<>>
    /\ rawTrd' = Append(rawTrd, Head(trd))
    /\ inf' = Searched(Head(trd).pnt)
    /\ logCo' = IF Head(trd).val = 0 THEN logCo
                ELSE Append(logCo, [information |-> inf', value |-> Head(trd).val])
    /\ trd' = Tail(trd)
    /\ UNCHANGED <<vars, turn, messages, logUlog, logPrintLog, arrived>>

RecordControl ==
    /\ turn = "co" /\ trd # <<>>
    /\ rawTrd' = Append(rawTrd, Head(trd))
    /\ inf' = Searched(Head(trd).pnt)
    /\ logCo' = Append(logCo, [information |-> inf', value |-> Head(trd).val])
    /\ trd' = Tail(trd)
    /\ UNCHANGED <<vars, turn, messages, logUlog, logPrintLog, arrived>>

NoControls ==
    /\ turn = "co" /\ trd = <<>>
    /\ turn' = "ulog"
    /\ inf' = Garbage
    /\ UNCHANGED <<vars, trd, rawTrd, logCo, messages, logUlog, logPrintLog, arrived>>

\* FSMID_LogApp: the user messages first.
RecordMessage ==
    /\ turn \in {"ulog", "print"} /\ messages[turn] # <<>>
    /\ messages' = [messages EXCEPT ![turn] = Tail(@)]
    /\ IF turn = "ulog"
       THEN logUlog' = Append(logUlog, Head(messages[turn])) /\ UNCHANGED logPrintLog
       ELSE logPrintLog' = Append(logPrintLog, Head(messages[turn])) /\ UNCHANGED logUlog
    /\ UNCHANGED <<vars, turn, trd, rawTrd, logCo, inf, arrived>>

NextQueueBug == "soe"                   \* the second loop is left out
NextQueue == IF turn = "ulog" THEN "print" ELSE "soe"
NoMessages ==
    /\ turn \in {"ulog", "print"} /\ messages[turn] = <<>>
    /\ turn' = NextQueue
    /\ UNCHANGED <<vars, otherVars>>

Task ==
    RecordEvents \/ NoEvents \/ RecordControl \/ NoControls \/ RecordMessage \/ NoMessages

-----------------------------------------------------------------------------
(* The environment.  MaxEvents bounds what arrives of all kinds. *)

InputChanges ==
    /\ changes + arrived < MaxEvents
    /\ \E p \in Inputs : Change(p)
    /\ UNCHANGED <<turn, otherVars>>

ControlArrives ==
    /\ changes + arrived < MaxEvents
    /\ \E p \in Controls \cup Strangers, v \in {0, 1} : trd' = Append(trd, [pnt |-> p, val |-> v])
    /\ arrived' = arrived + 1
    /\ UNCHANGED <<vars, turn, rawTrd, logCo, inf, messages, logUlog, logPrintLog>>

MessageArrives ==
    /\ changes + arrived < MaxEvents
    /\ \E q \in {"ulog", "print"} : messages' = [messages EXCEPT ![q] = Append(@, q)]
    /\ arrived' = arrived + 1
    /\ UNCHANGED <<vars, turn, trd, rawTrd, logCo, inf, logUlog, logPrintLog>>

TaskInit ==
    /\ Init
    /\ turn = "soe" /\ trd = <<>> /\ rawTrd = <<>> /\ logCo = <<>> /\ inf = Garbage
    /\ messages = [q \in {"ulog", "print"} |-> <<>>]
    /\ logUlog = <<>> /\ logPrintLog = <<>> /\ arrived = 0

TaskNext == Task \/ InputChanges \/ ControlArrives \/ MessageArrives

\* FSMID_Task runs for ever.
TaskSpec == TaskInit /\ [][TaskNext]_allVars /\ WF_allVars(Task)

-----------------------------------------------------------------------------
(* Properties *)

\* The log of the master has one record for each control of the raw log, in its
\* order, and every control of a configured point is there under the information
\* object and with the value of its own, whatever controls of other points came
\* before it.  (Hazard: the result of the search is not checked, fsmid_app.cpp:469.)
ControlsAreTheirOwn ==
    /\ Len(logCo) = Len(rawTrd)
    /\ \A k \in 1 .. Len(logCo) :
           rawTrd[k].pnt \in Controls =>
               logCo[k] = [information |-> rawTrd[k].pnt, value |-> rawTrd[k].val]

\* Whatever arrives, in whichever queue and while the task is in whichever part
\* of its second, is recorded in the end, provided that the arrivals pause: each
\* of the loops goes on for as long as its queue has anything, so a queue that is
\* never empty would keep the task from the others.  (Hazard: fsmid_app.cpp:463.)
AllRecorded ==
    trd # <<>> \/ (\E q \in {"ulog", "print"} : messages[q] # <<>>) \/ queue # <<>>
        ~> trd = <<>> /\ (\A q \in {"ulog", "print"} : messages[q] = <<>>) /\ queue = <<>>

-----------------------------------------------------------------------------
(* What the repository says of the controls and the code does not do. *)

\* fsmid_app.cpp:469, "find the configuration of the system point, and get inf":
\* every record is under the information object of its own point.
OnlyConfiguredControls ==
    \A k \in 1 .. Len(logCo) : logCo[k].information = rawTrd[k].pnt

=============================================================================
