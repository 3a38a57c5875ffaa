---------------------------- MODULE ExtremeDays ----------------------------
(***************************************************************************)
(* The extreme values of fsmid_point.cpp and fsmid_app.cpp.  RAM holds, of *)
(* every measured point, the sample of the greatest and of the least       *)
(* magnitude since the last midnight; at midnight FSMID_SaveExtremeLog     *)
(* writes both tables to the current file of a table of N files, resets    *)
(* them and moves to the next file.  FSMID_CreateLogs selects the file at  *)
(* the boot.  The power may fail between two units of a file.              *)
(*                                                                         *)
(* A file is an OTP log, here the sequence of its units, as in DayLogs; a  *)
(* time is the number of its day, 0 for none.                              *)
(*                                                                         *)
(* Definitions named ...Bug are the ones after them with a coding error.   *)
(***************************************************************************)
EXTENDS Integers, Sequences

CONSTANTS
    N,          \* NUMBER_OF_EXV
    Points,     \* numMeasure: points are 1 .. Points
    Values,     \* samples; no float lies between 0 and FltMin
    FltMin, FltMax,     \* FLT_MIN, FLT_MAX
    MaxDay, MaxSamples  \* bounds of the model: the days; the samples of one save

ASSUME TableAssumption == N \in Nat \ {0} /\ Points \in Nat \ {0}
ASSUME ValueAssumption ==
    /\ Values \subseteq Int /\ FltMin \in Nat \ {0} /\ FltMax \in Nat
    /\ \A v \in Values : v \in -FltMax .. FltMax /\ (v = 0 \/ v \notin -FltMin .. FltMin)
ASSUME BoundAssumption == MaxDay \in Nat \ {0} /\ MaxSamples \in Nat

Slots == 0 .. N - 1
Total == 2 * Points + 3

\* LOG_EXTREME.type: of the entries of the two tables, and of the marks of a file.
MaximumType == 0
MinimumType == 1
EXTREME_MAX_MARK == 65535
EXTREME_MIN_MARK == 65534
EXTREME_EOF_MARK == 65533

\* unitCount of an extreme log
CapacityBug == 2 * Points + 2           \* no room for the EOF mark
Capacity == 2 * Points + 3

VARIABLES
    file,               \* flash: the units of every log
    maximum, minimum,   \* tableMaximum, tableMinimum
    cur,                \* logExtreme
    pc,
    unit,               \* the unit FSMID_SaveExtremeLog writes next
    day,                \* today
    samples,            \* history: every sample of a point since the reset, and its time
    attempts,           \* history: the day that ended, of every save begun ...
    finished,           \* ... and which of them were finished
    skewed              \* history: a file was not stamped with the day that ended

vars == <<file, maximum, minimum, cur, pc, unit, day, samples, attempts, finished, skewed>>

Tables == [1 .. Points -> [time : 0 .. MaxDay, value : Values \cup {FltMin, FltMax}]]

-----------------------------------------------------------------------------
(* UpdateExtremeValue: both tables compare magnitudes. *)

Abs(v) == IF v < 0 THEN -v ELSE v

Updated(table, v, points) ==
    [p \in 1 .. Points |-> IF p \in points THEN [time |-> day, value |-> v[p]] ELSE table[p]]

GreaterBug(v, old) == v > old           \* forgets the negative samples
Greater(v, old) == Abs(v) > Abs(old)
LessBug(v, old) == v < old
Less(v, old) == Abs(v) < Abs(old)

\* FSMID_ExtremeApp
Sample(v) ==
    /\ pc = "idle"
    /\ \A p \in 1 .. Points : Len(samples[p]) < MaxSamples
    /\ maximum' = Updated(maximum, v, {p \in 1 .. Points : Greater(v[p], maximum[p].value)})
    /\ minimum' = Updated(minimum, v, {p \in 1 .. Points : Less(v[p], minimum[p].value)})
    /\ samples' = [p \in 1 .. Points |-> Append(samples[p], [time |-> day, value |-> v[p]])]
    /\ UNCHANGED <<file, cur, pc, unit, day, attempts, finished, skewed>>

\* ResetExtremeTable leaves the times as they are.
ResetBug ==                             \* the minimum is not reset
    /\ maximum' = [p \in 1 .. Points |-> [maximum[p] EXCEPT !.value = FltMin]]
    /\ minimum' = minimum
    /\ samples' = [p \in 1 .. Points |-> <<>>]

Reset ==
    /\ maximum' = [p \in 1 .. Points |-> [maximum[p] EXCEPT !.value = FltMin]]
    /\ minimum' = [p \in 1 .. Points |-> [minimum[p] EXCEPT !.value = FltMax]]
    /\ samples' = [p \in 1 .. Points |-> <<>>]

-----------------------------------------------------------------------------
(* FSMID_CreateLogs, after FSMID_InitConfig has zeroed the tables *)

Opened(s) == IF file[s] = <<>> THEN 0 ELSE Head(file[s]).time
Unused == {s \in Slots : Opened(s) = 0}
OfToday == {s \in Slots \ Unused : Opened(s) = day}
First(S) == CHOOSE s \in S : \A r \in S : s <= r
OldestBug == First({s \in Slots : \A r \in Slots : Opened(s) >= Opened(r)})    \* newest
Oldest == First({s \in Slots : \A r \in Slots : Opened(s) <= Opened(r)})

\* The first unused file or the one of today, else the oldest; a file of today
\* after the selected one fails an assertion.
Boot ==
    /\ pc = "off"
    /\ LET found == Unused \cup OfToday
       IN  /\ cur' = IF found # {} THEN First(found) ELSE Oldest
           /\ pc' = IF OfToday \subseteq {cur'} THEN "idle" ELSE "hung"
    /\ maximum' = [p \in 1 .. Points |-> [time |-> 0, value |-> FltMin]]
    /\ minimum' = [p \in 1 .. Points |-> [time |-> 0, value |-> FltMax]]
    /\ samples' = [p \in 1 .. Points |-> <<>>]
    /\ UNCHANGED <<file, unit, day, attempts, finished, skewed>>

-----------------------------------------------------------------------------
(* FSMID_SaveExtremeLog *)

Midnight ==
    /\ pc \in {"off", "idle", "hung"} /\ day < MaxDay
    /\ day' = day + 1
    /\ pc' = IF pc = "idle" THEN "save" ELSE pc
    /\ UNCHANGED <<file, maximum, minimum, cur, unit, samples, attempts, finished, skewed>>

\* The second of midnight passes while the task is at work: nothing is saved, and
\* the extremes of the day stay in the tables.
LateMidnight ==
    /\ pc = "idle" /\ day < MaxDay
    /\ day' = day + 1
    /\ UNCHANGED <<file, maximum, minimum, cur, pc, unit, samples, attempts, finished, skewed>>

\* The log takes its name from the time of the first point's maximum.
SaveStart ==
    /\ pc = "save"
    /\ file' = [file EXCEPT ![cur] = <<>>]
    /\ unit' = 1
    /\ pc' = "write"
    /\ attempts' = Append(attempts, day - 1)
    /\ skewed' = (skewed \/ maximum[1].time # day - 1)
    /\ UNCHANGED <<maximum, minimum, cur, day, samples, finished>>

Mark(type) == [type |-> type, time |-> maximum[1].time]
Extreme(type, entry) == [type |-> type, time |-> entry.time, value |-> entry.value]

\* Unit i: a mark, the maxima, a mark, the minima, a mark.
UnitBug(i) ==                           \* the last mark is set too early
    CASE i = 1 -> Mark(EXTREME_MAX_MARK)
      [] i \in 2 .. Points + 1 -> Extreme(MaximumType, maximum[i - 1])
      [] i \in {Points + 2, Total} -> Mark(EXTREME_EOF_MARK)
      [] i \in Points + 3 .. Total - 1 -> Extreme(MinimumType, minimum[i - Points - 2])
Unit(i) ==
    CASE i = 1 -> Mark(EXTREME_MAX_MARK)
      [] i \in 2 .. Points + 1 -> Extreme(MaximumType, maximum[i - 1])
      [] i = Points + 2 -> Mark(EXTREME_MIN_MARK)
      [] i \in Points + 3 .. Total - 1 -> Extreme(MinimumType, minimum[i - Points - 2])
      [] i = Total -> Mark(EXTREME_EOF_MARK)

\* FSLOG_Write: an OTP log that is full refuses the unit.
SaveUnit ==
    /\ pc = "write" /\ unit <= Total
    /\ file' = [file EXCEPT ![cur] = IF Len(@) < Capacity THEN Append(@, Unit(unit)) ELSE @]
    /\ unit' = unit + 1
    /\ UNCHANGED <<maximum, minimum, cur, pc, day, samples, attempts, finished, skewed>>

\* The assertion on the number of units, the reset and the next file.
NextSlotBug == cur + 1                  \* runs off the table
NextSlot == (cur + 1) % N

SaveEnd ==
    /\ pc = "write" /\ unit > Total
    /\ IF Len(file[cur]) = Total
       THEN /\ Reset
            /\ cur' = NextSlot
            /\ finished' = finished \cup {Len(attempts)}
            /\ pc' = "idle"
       ELSE /\ pc' = "hung"
            /\ UNCHANGED <<maximum, minimum, samples, cur, finished>>
    /\ UNCHANGED <<file, unit, day, attempts, skewed>>

PowerOff ==
    /\ pc # "off"
    /\ pc' = "off"
    /\ UNCHANGED <<file, maximum, minimum, cur, unit, day, samples, attempts, finished, skewed>>

-----------------------------------------------------------------------------

Init ==
    /\ file = [s \in Slots |-> <<>>]
    /\ maximum = [p \in 1 .. Points |-> [time |-> 0, value |-> FltMin]]
    /\ minimum = [p \in 1 .. Points |-> [time |-> 0, value |-> FltMax]]
    /\ samples = [p \in 1 .. Points |-> <<>>]
    /\ cur = 0 /\ pc = "off" /\ unit = 1 /\ day = 1
    /\ attempts = <<>> /\ finished = {} /\ skewed = FALSE

Next ==
    \/ Boot \/ Midnight \/ LateMidnight
    \/ \E v \in [1 .. Points -> Values] : Sample(v)
    \/ SaveStart \/ SaveUnit \/ SaveEnd
    \/ PowerOff

Spec == Init /\ [][Next]_vars

-----------------------------------------------------------------------------
(* Properties *)

TypeOK ==
    /\ \A s \in Slots : Len(file[s]) <= Total
    /\ maximum \in Tables /\ minimum \in Tables
    /\ cur \in Slots /\ unit \in 1 .. Total + 1 /\ day \in 1 .. MaxDay
    /\ pc \in {"off", "idle", "hung", "save", "write"}
    /\ skewed \in BOOLEAN

\* None of the assertions fails, whatever was saved before and wherever the
\* power failed: no file is of today, and a save writes all its units.
AssertionsHold == pc # "hung"

\* What a save has written when it is complete. Of every point the greatest and the
\* least magnitude of all samples since the last save or boot, each as one of these
\* samples with its own time, the earliest of those as great or as small (FLT_MIN or
\* FLT_MAX where none was greater or smaller). And the file is stamped with the time
\* of the first point's maximum, an older one if it had no sample.
Saved(i) == [time |-> file[cur][i].time, value |-> file[cur][i].value]
Taken(p) == {samples[p][i] : i \in 1 .. Len(samples[p])}
SavesExtremes ==
    pc = "write" /\ unit > Total /\ Len(file[cur]) = Total =>
        /\ \A p \in 1 .. Points :
               LET max == Saved(p + 1)
                   min == Saved(Points + 2 + p)
               IN  /\ max \in Taken(p) \/ max.value = FltMin
                   /\ min \in Taken(p) \/ min.value = FltMax
                   /\ \A s \in Taken(p) :
                          /\ Abs(min.value) <= Abs(s.value) /\ Abs(s.value) <= Abs(max.value)
                          /\ Abs(s.value) = Abs(max.value) => max.time <= s.time
                          /\ Abs(s.value) = Abs(min.value) => min.time <= s.time
        /\ Opened(cur) = Saved(2).time

\* As long as every file is stamped with the day that ended, the days of the
\* last N saves are in the files, those cut short by a power failure excepted.
KeepsExtremes ==
    ~skewed =>
        \A k \in finished : k + N > Len(attempts) =>
            \E s \in Slots : Len(file[s]) = Total /\ Opened(s) = attempts[k]

\* The formatters tell the parts of a file by its marks: a file that holds the
\* EOF mark is whole, wherever the power failed.
EofMeansWhole ==
    \A s \in Slots : \A i \in 1 .. Len(file[s]) :
        file[s][i].type = EXTREME_EOF_MARK =>
            /\ i = Total
            /\ file[s][1].type = EXTREME_MAX_MARK
            /\ file[s][Points + 2].type = EXTREME_MIN_MARK

-----------------------------------------------------------------------------
(* What the repository says of the extreme files and the code does not do. *)

\* fsmid_point.h:38, "0:minimum point,1:maximum point": so are the units between
\* the marks.
TypesAsDocumented ==
    \A s \in Slots : \A i \in 1 .. Len(file[s]) :
        /\ i \in 2 .. Points + 1 => file[s][i].type = 1
        /\ i \in Points + 3 .. Total - 1 => file[s][i].type = 0

=============================================================================
