----------------------------- MODULE WaveFiles -----------------------------
(***************************************************************************)
(* The waveform files: FSMID_CfgApp and FSMID_SaveDat of fsmid_app.cpp, to *)
(* be called when a fault triggers a recording, and the part of            *)
(* FSMID_CreateLogs that finds the files again after a restart.  The       *)
(* configuration of a wave is a few lines of text, stored in one of N logs *)
(* that are written once; the calls go round the table.  A log knows no    *)
(* time but the first bytes of its first line, so which file is the oldest *)
(* is not in flash.  The power may fail between any two lines.             *)
(***************************************************************************)
EXTENDS Integers, Sequences

CONSTANTS
    N,          \* NUMBER_OF_CFG, also NUMBER_OF_DAT
    Lines,      \* NUM_POINT_LOG_CFG, the lines that a call writes
    Times,      \* times of the triggers, the number of the day standing for the date
    Leads,      \* three periods of the frequency, in ms
    MaxWaves    \* bound of the model: the calls of FSMID_CfgApp

ASSUME SizeAssumption == N \in Nat \ {0, 1} /\ Lines \in Nat \ {0} /\ MaxWaves \in Nat
ASSUME TimeAssumption ==
    Times \subseteq [day : Nat, hour : 0 .. 23, min : 0 .. 59, sec : 0 .. 59, msec : 0 .. 999]
ASSUME LeadAssumption == Leads \subseteq 1 .. 1000

VARIABLES
    file,       \* flash: the lines of each file, a line being <<wave, offset>>
    logCfg,     \* index of *logCfg
    logDat,     \* index of *logDat; N and above are outside the table
    pc,         \* "off", "idle", "write" or "advance"
    line,       \* lines tried in this call
    wave,       \* number of the call; the lines of call w begin with offset[w]
    offset,     \* chnoffset of the calls, 0 or 8
    trigger, tmpTime, mSec,     \* of the call
    fixptName,  \* the name of the current FIXPT file: its own or a wave's
    done,       \* history: the calls that returned
    certain     \* history: how many of the last of them must be stored

vars == <<file, logCfg, logDat, pc, line, wave, offset, trigger, tmpTime, mSec,
          fixptName, done, certain>>
callVars == <<trigger, tmpTime, mSec>>

Files == 0 .. N - 1
NoTime == [day |-> 0, hour |-> 0, min |-> 0, sec |-> 0, msec |-> 0]

-----------------------------------------------------------------------------
(* FSMID_CreateLogs *)

\* The time of creation is read from the text of the first line, which begins
\* with the number of its channel.
TimeCreate(f) == offset[file[f][1]]

Unused == {f \in Files : file[f] = <<>>}
FirstOf(S) == CHOOSE f \in S : \A g \in S : f <= g
SelectedBug == 0                        \* always the first
Selected ==
    IF Unused # {} THEN FirstOf(Unused)
    ELSE FirstOf({f \in Files : \A g \in Files : TimeCreate(f) <= TimeCreate(g)})

\* Nothing is ever written to the DAT files: the first is found unused.
Boot ==
    /\ pc = "off"
    /\ logCfg' = Selected /\ logDat' = 0
    /\ fixptName' = "own"
    /\ pc' = "idle"
    /\ UNCHANGED <<file, line, wave, offset, callVars, done, certain>>

-----------------------------------------------------------------------------
(* FSMID_CfgApp *)

\* The time of the trigger minus the lead, with a borrow; none is made from the day.
BorrowBug(t, ms) ==                     \* no borrow from the hour
    [day |-> t.day, hour |-> t.hour,
     min  |-> IF t.sec > 0 THEN t.min ELSE IF t.min > 0 THEN t.min - 1 ELSE 59,
     sec  |-> IF t.sec > 0 THEN t.sec - 1 ELSE 59,
     msec |-> 1000 - (ms - t.msec)]
Borrow(t, ms) ==
    [day  |-> t.day,
     hour |-> IF t.sec > 0 \/ t.min > 0 THEN t.hour ELSE IF t.hour > 0 THEN t.hour - 1 ELSE 23,
     min  |-> IF t.sec > 0 THEN t.min ELSE IF t.min > 0 THEN t.min - 1 ELSE 59,
     sec  |-> IF t.sec > 0 THEN t.sec - 1 ELSE 59,
     msec |-> 1000 - (ms - t.msec)]
Earlier(t, ms) == IF t.msec >= ms THEN [t EXCEPT !.msec = @ - ms] ELSE Borrow(t, ms)

CfgApp ==
    /\ pc = "idle" /\ Len(offset) < MaxWaves
    /\ \E chnoffset \in {0, 8}, t \in Times, ms \in Leads :
           /\ offset' = Append(offset, chnoffset)
           /\ trigger' = t /\ mSec' = ms /\ tmpTime' = Earlier(t, ms)
    /\ wave' = Len(offset')
    /\ line' = 0
    /\ pc' = "write"
    /\ UNCHANGED <<file, logCfg, logDat, fixptName, done, certain>>

\* FSLOG_LockWrite of one line: a file that has all its lines refuses, and the
\* result is not looked at.
Stored == IF Len(file[logCfg]) < Lines THEN Append(file[logCfg], wave) ELSE file[logCfg]
WriteLine ==
    /\ pc = "write"
    /\ file' = [file EXCEPT ![logCfg] = Stored]
    /\ line' = line + 1
    /\ pc' = IF line' = Lines THEN "advance" ELSE "write"
    /\ UNCHANGED <<logCfg, logDat, wave, offset, callVars, fixptName, done, certain>>

\* The next file is made empty for the next call, and a name is made for this
\* wave, which the current FIXPT file gets.
NextFile == IF logCfg + 1 > N - 1 THEN 0 ELSE logCfg + 1
AdvanceBug ==                           \* the next file is not cleared
    /\ pc = "advance"
    /\ logCfg' = NextFile
    /\ UNCHANGED file
    /\ fixptName' = "wave"
    /\ done' = Append(done, wave)
    /\ certain' = certain + 1
    /\ pc' = "idle"
    /\ line' = 0 /\ trigger' = NoTime /\ tmpTime' = NoTime /\ mSec' = 0
    /\ UNCHANGED <<logDat, wave, offset>>

Advance ==
    /\ pc = "advance"
    /\ logCfg' = NextFile
    /\ file' = [file EXCEPT ![NextFile] = <<>>]
    /\ fixptName' = "wave"
    /\ done' = Append(done, wave)
    /\ certain' = certain + 1
    /\ pc' = "idle"
    /\ line' = 0 /\ trigger' = NoTime /\ tmpTime' = NoTime /\ mSec' = 0
    /\ UNCHANGED <<logDat, wave, offset>>

\* FSMID_SaveDat: the table ends at N, the pointer is put back behind 2N - 1.
\* What is cleared there is not known: after that nothing is said of the device.
SaveDat ==
    /\ pc = "idle" /\ logDat < N
    /\ logDat' = IF logDat + 1 > N - 1 + N THEN 0 ELSE logDat + 1
    /\ pc' = IF logDat' < N THEN "idle" ELSE "astray"
    /\ UNCHANGED <<file, logCfg, line, wave, offset, callVars, fixptName, done, certain>>

-----------------------------------------------------------------------------
(* The power fails.  Inside a call it takes the order of the files with it: *)
(* the call after it finds a file that may be full, or may hold lines.      *)

PowerOff ==
    /\ pc \in {"idle", "astray"}
    /\ pc' = "off"
    /\ UNCHANGED <<file, logCfg, logDat, line, wave, offset, callVars, fixptName, done, certain>>

PowerCut ==
    /\ pc \in {"write", "advance"}
    /\ pc' = "off"
    /\ certain' = 0 - 1
    /\ line' = 0 /\ trigger' = NoTime /\ tmpTime' = NoTime /\ mSec' = 0
    /\ UNCHANGED <<file, logCfg, logDat, wave, offset, fixptName, done>>

Init ==
    /\ file = [f \in Files |-> <<>>]
    /\ logCfg = 0 /\ logDat = 0
    /\ pc = "off" /\ line = 0 /\ wave = 0 /\ offset = <<>>
    /\ trigger = NoTime /\ tmpTime = NoTime /\ mSec = 0
    /\ fixptName = "own" /\ done = <<>> /\ certain = 0

Next == Boot \/ CfgApp \/ WriteLine \/ Advance \/ SaveDat \/ PowerOff \/ PowerCut

Spec == Init /\ [][Next]_vars

-----------------------------------------------------------------------------
(* Properties *)

Lesser(a, b) == IF a < b THEN a ELSE b

\* The newest N - 1 waves are stored whole, each in a file of its own, whatever
\* restarts there were between the calls.  When the power fails inside a call
\* all may be lost that was stored before, and the next call too, and no other:
\* from the second call on waves are stored and kept again.
Whole(w) == \E f \in Files : file[f] = [k \in 1 .. Lines |-> w]
KeepsWaves ==
    pc \notin {"off", "astray"} =>
        \A k \in 1 .. Lesser(N - 1, certain) : Whole(done[Len(done) + 1 - k])

\* The lead time is the time of the trigger minus the lead in every field below the
\* date, all borrows right; but in the first milliseconds of a day it is a whole day
\* late, because the date remains that of the trigger.
MsPerDay == 24 * 3600000
OfDay(t) == ((t.hour * 60 + t.min) * 60 + t.sec) * 1000 + t.msec
Ms(t) == t.day * MsPerDay + OfDay(t)
LeadIsBefore ==
    pc \in {"write", "advance"} =>
        /\ tmpTime.msec \in 0 .. 999
        /\ Ms(tmpTime) = Ms(trigger) - mSec + (IF OfDay(trigger) < mSec THEN MsPerDay ELSE 0)

-----------------------------------------------------------------------------
(* What the repository says of the waveform files and the code does not do. *)

\* fsmid_app.cpp:544, "every call makes a new CFG file": the last call has one.
EveryCallMakesAFile == pc = "idle" /\ done # <<>> => Whole(done[Len(done)])

\* fsmid_app.cpp:556, "the time of the trigger - the time of three periods".
LeadIsThreePeriods ==
    pc \in {"write", "advance"} => Ms(tmpTime) = Ms(trigger) - mSec

\* fsmid_config.h:17, "at most 5 DAT files": logDat is one of them.
DatInTable == logDat \in Files

=============================================================================
