------------------------------ MODULE DayLogs ------------------------------
(***************************************************************************)
(* The daily log files of fsmid_app.cpp: a table of N files for the        *)
(* fixed-point records (FIXPT) or the energy records (FROZEN), one file a  *)
(* day.  FSMID_CreateLogs opens the table and selects the file to append   *)
(* to; FSMID_Task appends a record every quarter of an hour and at         *)
(* midnight moves to the next file of the table, clearing what it held.    *)
(*                                                                         *)
(* A file is an OTP log, here the sequence of the times of its records:    *)
(* FSLOG_Open, FSLOG_Write and FSLOG_Clear act on it as module FsLog says  *)
(* they do, each in one step.  The power may fail between them, and a poll *)
(* of the clock that comes late misses a quarter, a midnight too.          *)
(*                                                                         *)
(* Definitions named ...Bug are the ones after them with a coding error.   *)
(***************************************************************************)
EXTENDS Naturals, Sequences

CONSTANTS
    N,          \* NUMBER_OF_FIXPT, NUMBER_OF_FRZ
    Q,          \* FIFTEEN_MINUTE_CONDITIONs in a day
    FROZEN,     \* the FROZEN table (TRUE) or the FIXPT table (FALSE)
    Start,      \* the quarter of the first boot
    MaxTime     \* bound of the model: the last quarter

ASSUME TableAssumption == N \in Nat \ {0, 1} /\ Q \in Nat \ {0, 1} /\ FROZEN \in BOOLEAN
ASSUME TimeAssumption == Start \in Nat /\ MaxTime \in Nat /\ Q <= Start /\ Start <= MaxTime

Slots == 0 .. N - 1
Times == Q .. MaxTime       \* quarters since day 0: day 1 is the first
Unset == 0                  \* timeCreate.year = 0

\* FIXPT_POINT_PER_LOG, FROZEN_POINT_PER_LOG
CapacityBug == Q                        \* no room for the closing record
Capacity == IF FROZEN THEN Q + 1 ELSE Q

Day(t) == t \div Q                      \* systimeSameDay compares these
Midnight(t) == t % Q = 0                \* DAILY_CONDITION

VARIABLES
    file,       \* flash: the records of every log
    created,    \* timeCreate of every log; its name is TEMP while Unset
    cur,        \* logFixpt, logFrozen
    pc,         \* what the task does next
    now,        \* the last quarter that has passed
    taken,      \* history: the times of the records taken
    skewed,     \* history: the table has left its order, see Advance and Boot
    missed      \* history: the days whose midnight a running device missed

vars == <<file, created, cur, pc, now, taken, skewed, missed>>

-----------------------------------------------------------------------------
(* FSMID_CreateLogs *)

\* What FSLOG_Open finds: the time of the first record.
Opened(s) == IF file[s] = <<>> THEN Unset ELSE Head(file[s])
Used == {s \in Slots : Opened(s) # Unset}
OfToday == {s \in Used : Day(Opened(s)) = Day(now)}

\* The scan takes the first log that is unused or of today, and asserts when
\* it meets one of today after that.
Candidates == (Slots \ Used) \cup OfToday
First(S) == CHOOSE s \in S : \A r \in S : s <= r

BootSelect ==
    /\ pc = "off"
    /\ Candidates # {}
    /\ OfToday \subseteq {First(Candidates)}
    /\ cur' = First(Candidates)
    /\ created' = [s \in Slots |->
                      IF s = cur' /\ s \notin Used /\ ~FROZEN   \* FIXPT names its file here
                      THEN now ELSE Opened(s)]
    /\ pc' = "idle"
    /\ UNCHANGED <<file, now, taken, skewed, missed>>

\* fsmid_assert(!logFixpt), fsmid_assert(!logFrozen)
BootHang ==
    /\ pc = "off"
    /\ Candidates # {}
    /\ ~(OfToday \subseteq {First(Candidates)})
    /\ pc' = "hung"
    /\ UNCHANGED <<file, created, cur, now, taken, skewed, missed>>

\* All used and none of today: FROZEN takes the oldest, to append to it, and
\* FIXPT searches logExtremeTable, one log shorter than its own.
BootNoneFree ==
    /\ pc = "off"
    /\ Candidates = {}
    /\ created' = [s \in Slots |-> Opened(s)]
    /\ IF FROZEN
       THEN /\ cur' = First({s \in Slots : \A r \in Slots : Opened(s) <= Opened(r)})
            /\ pc' = "idle"
       ELSE /\ pc' = "astray"
            /\ UNCHANGED cur
    /\ skewed' = TRUE
    /\ UNCHANGED <<file, now, taken, missed>>

-----------------------------------------------------------------------------
(* FSMID_Task *)

\* A quarter passes.  A device that is off, or has just booted in the quarter,
\* misses it.
Tick ==
    /\ pc \in {"off", "idle", "hung", "astray"}
    /\ now < MaxTime
    /\ now' = now + 1
    /\ pc' = CASE pc # "idle" -> pc
               [] pc = "idle" /\ ~Midnight(now') -> "record"
               [] pc = "idle" /\ Midnight(now') -> IF FROZEN THEN "close" ELSE "advance"
    /\ UNCHANGED <<file, created, cur, taken, skewed, missed>>

\* A quarter is the one second in which the condition holds: when the task does
\* not come to look in it, nothing happens, at midnight neither.
Late ==
    /\ pc = "idle"
    /\ now < MaxTime
    /\ now' = now + 1
    /\ missed' = IF Midnight(now') THEN missed \cup {Day(now')} ELSE missed
    /\ UNCHANGED <<file, created, cur, pc, taken, skewed>>

\* FSMID_FixptApp, FSMID_FrozenApp: an OTP log that is full refuses the record.
AppendRecord ==
    /\ file' = [file EXCEPT ![cur] = IF Len(@) < Capacity THEN Append(@, now) ELSE @]
    /\ taken' = taken \cup {now}

\* FSMID_SaveFrozenLog begins with the closing record of the day.
CloseDay ==
    /\ pc = "close"
    /\ AppendRecord
    /\ pc' = "advance"
    /\ UNCHANGED <<created, cur, now, skewed, missed>>

NextSlotBugWrap == cur + 1              \* runs off the table
NextSlotBugLast == IF cur + 1 < N THEN cur + 1 ELSE cur    \* stays at the last file
NextSlotBugSkip == (cur + 2) % N
NextSlot == (cur + 1) % N

\* FSMID_SaveFixptLog, FSMID_SaveFrozenLog.  The file left behind should hold a
\* record of the day that ends.
AdvanceBugKeep ==                       \* the file is not cleared
    /\ pc = "advance"
    /\ cur' = NextSlot
    /\ created' = [created EXCEPT ![cur'] = now]
    /\ pc' = "record"
    /\ skewed' = (skewed \/ file[cur] = <<>> \/ Day(Head(file[cur])) = Day(now))
    /\ UNCHANGED <<file, now, taken, missed>>

Advance ==
    /\ pc = "advance"
    /\ cur' = NextSlot
    /\ file' = [file EXCEPT ![cur'] = <<>>]
    /\ created' = [created EXCEPT ![cur'] = now]
    /\ pc' = "record"
    /\ skewed' = (skewed \/ file[cur] = <<>> \/ Day(Head(file[cur])) = Day(now))
    /\ UNCHANGED <<now, taken, missed>>

Record ==
    /\ pc = "record"
    /\ AppendRecord
    /\ pc' = "idle"
    /\ UNCHANGED <<created, cur, now, skewed, missed>>

-----------------------------------------------------------------------------
(* The environment: the power fails, RAM is lost. *)

PowerOff ==
    /\ pc # "off"
    /\ pc' = "off"
    /\ created' = [s \in Slots |-> Unset] /\ cur' = 0
    /\ UNCHANGED <<file, now, taken, skewed, missed>>

Init ==
    /\ file = [s \in Slots |-> <<>>]
    /\ created = [s \in Slots |-> Unset] /\ cur = 0
    /\ pc = "off"
    /\ now = Start
    /\ taken = {} /\ skewed = FALSE /\ missed = {}

Task == CloseDay \/ Advance \/ Record
Boot == BootSelect \/ BootHang \/ BootNoneFree

Next == Boot \/ Tick \/ Late \/ Task \/ PowerOff

Spec == Init /\ [][Next]_vars

-----------------------------------------------------------------------------
(* Properties.  skewed tells the two histories in which the table loses its *)
(* order: a file left at midnight without a record of its day, and a boot   *)
(* on a new day when no file is free.  A missed midnight does neither: the  *)
(* records of that day go where they do not belong, and the table mends.    *)

TypeOK ==
    /\ file \in [Slots -> Seq(Times)]
    /\ \A s \in Slots : Len(file[s]) <= Capacity
    /\ created \in [Slots -> Times \cup {Unset}]
    /\ cur \in Slots
    /\ pc \in {"off", "idle", "hung", "astray", "close", "advance", "record"}
    /\ now \in Times /\ taken \subseteq Times /\ skewed \in BOOLEAN
    /\ missed \subseteq 1 .. MaxTime

\* While the table is in order a boot, on whatever day and whichever midnights
\* were missed, finds at most one file of today and no free file before it:
\* fsmid_assert(!logFixpt) holds.
BootFindsOneFile == ~skewed => pc # "hung"

\* The day of the file a record is in: the closing record of a day is taken at
\* the next midnight, and the power may fail before the first of the next day.
FileDay(t) == IF FROZEN /\ Midnight(t) THEN Day(t) - 1 ELSE Day(t)

\* While the table is in order every record is in the file of its day, except
\* the closing record of a FROZEN file and the records of a day whose midnight
\* was missed; no two files hold the same day.
OneDayPerFile ==
    ~skewed /\ pc = "idle" =>
        /\ \A s \in Used : \A i \in 1 .. Len(file[s]) :
               \/ Day(file[s][i]) = Day(Opened(s))
               \/ FROZEN /\ i = Len(file[s]) /\ Midnight(file[s][i])
               \/ Day(file[s][i]) \in missed
        /\ \A s, r \in Used : Day(Opened(s)) = Day(Opened(r)) => s = r

\* While the table is in order no record of the last N days is lost, whatever
\* restarts there were, but of the days whose midnight was missed.
KeepsDays ==
    ~skewed /\ pc \in {"idle", "off"} =>
        \A t \in taken : Day(now) < FileDay(t) + N /\ FileDay(t) \notin missed =>
            \E s \in Slots : \E i \in 1 .. Len(file[s]) : file[s][i] = t

\* While the table is in order a file is only ever cleared when every other
\* one is newer, or free.
OldestGoesFirst ==
    [][~skewed' => \A s \in Used : file'[s] = <<>> =>
           \A r \in Used : r # s => Opened(s) < Opened(r)]_vars

\* While the table is in order no record is refused by a full file, but of a day
\* whose midnight was missed.
NothingRefused ==
    [][~skewed /\ FileDay(now) \notin missed /\ taken' # taken => file' # file]_vars

-----------------------------------------------------------------------------
(* What the repository says of the files and the code does not do. *)

\* fsmid_app.cpp:260 and 312, fsmid_assert(!logFixpt) and
\* fsmid_assert(!logFrozen): the boot meets no file of today once it has
\* selected one.
NothingSelectedTwice == pc # "hung"

\* fsmid_app.cpp:257 and 309, "select current day file": records are only
\* appended to a file of the current day.
SelectsCurrentDay == pc # "astray" /\ (pc = "idle" /\ cur \in Used => cur \in OfToday)

=============================================================================
