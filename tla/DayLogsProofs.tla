---------------------------- MODULE DayLogsProofs ----------------------------
(***************************************************************************)
(* Proofs about the table of day files, of either kind, and about the      *)
(* listing of its folder, for every number of files and of quarters of a   *)
(* day.  The invariant of the table (DInv) is that the files, taken        *)
(* backwards from the current one, are of ever earlier days, each of one   *)
(* day only; that of a listing (FInv) adds that the filtered logs and the  *)
(* entries told so far are in the order of the files.                      *)
(***************************************************************************)
EXTENDS FolderCall, NaturalsInduction, WellFoundedInduction, TLAPS

\* What the assumptions on the constants give.
LEMMA TableFacts ==
    /\ N \in Nat /\ N >= 2 /\ Q \in Nat /\ Q >= 2 /\ FROZEN \in BOOLEAN
    /\ Start \in Nat /\ MaxTime \in Nat /\ Q <= Start /\ Start <= MaxTime
    /\ Slots \subseteq Nat /\ 0 \in Slots
    /\ Times \subseteq Nat /\ \A t \in Times : t # Unset
    /\ Capacity \in Nat /\ Capacity >= Q
  BY TableAssumption, TimeAssumption DEF Slots, Times, Unset, Capacity

\* A time is its day and its quarter of the day.
LEMMA DayDef ==
  ASSUME NEW t \in Nat
  PROVE  \E d, p \in Nat : d = Day(t) /\ p = t % Q /\ p < Q /\ t = Q * d + p
<1>1. /\ t \div Q \in Nat /\ t % Q \in Nat /\ t % Q < Q
      /\ t = Q * (t \div Q) + (t % Q)
  BY TableFacts
<1> QED
  BY <1>1 DEF Day

\* A later day begins a whole day later.
LEMMA Products ==
  ASSUME NEW i \in Nat, NEW j \in Nat, i < j
  PROVE  Q * i + Q <= Q * j
<1>1. PICK k \in Nat : j = i + 1 + k
  <2>1. j - i - 1 \in Nat /\ j = i + 1 + (j - i - 1)
    OBVIOUS
  <2> QED
    BY <2>1
<1>2. Q * j = Q * i + Q + Q * k
  BY <1>1, TableFacts
<1>3. Q * k \in Nat /\ Q * i \in Nat
  BY TableFacts
<1> QED
  BY <1>2, <1>3, TableFacts

\* How days and times lie to each other.
LEMMA DayFacts ==
  ASSUME NEW t \in Nat, NEW u \in Nat
  PROVE  /\ Day(t) \in Nat /\ (t <= u => Day(t) <= Day(u))
         /\ Midnight(u) /\ t < u => Day(t) < Day(u)
         /\ Day(t) = Day(u) => u - t < Q
         /\ Midnight(u) /\ Day(t) = Day(u) - 1 => u - t <= Q
         /\ Day(t) <= t
         /\ t >= Q => Day(t) >= 1
<1>1. PICK d \in Nat, p \in Nat : d = Day(t) /\ p = t % Q /\ p < Q /\ t = Q * d + p
  BY DayDef
<1>2. PICK e \in Nat, q \in Nat : e = Day(u) /\ q = u % Q /\ q < Q /\ u = Q * e + q
  BY DayDef
<1>3. PICK a \in Nat, b \in Nat : a = Q * d /\ b = Q * e
  BY TableFacts
<1>4. t = a + p /\ u = b + q
  BY <1>1, <1>2, <1>3
<1>5. e < d => b + Q <= a
  BY <1>3, Products
<1>6. d < e => a + Q <= b
  BY <1>3, Products
<1>7. d = e => a = b
  BY <1>3
<1>8. e = d + 1 => b = a + Q
  BY <1>3, TableFacts
<1>9. d <= a
  <2>1. \A i, j \in Nat : i >= 2 => j <= i * j
    OBVIOUS
  <2> QED
    BY <1>3, <2>1, TableFacts
<1>10. d = 0 => a = 0
  BY <1>3, TableFacts
<1>a. p < Q /\ q < Q /\ Q \in Nat
  BY <1>1, <1>2, TableFacts
<1>11. t <= u => d <= e
  BY <1>a, <1>4, <1>5
<1>12. q = 0 /\ t < u => d < e
  BY <1>a, <1>4, <1>7, <1>11
<1>13. d = e => u - t < Q
  BY <1>a, <1>4, <1>7
<1>14. q = 0 /\ d = e - 1 => u - t <= Q
  BY <1>a, <1>4, <1>8
<1>15. d <= t
  BY <1>4, <1>9
<1>16. t >= Q => d >= 1
  BY <1>a, <1>4, <1>10
<1> QED
  BY <1>1, <1>2, <1>11, <1>12, <1>13, <1>14, <1>15, <1>16 DEF Midnight

\* The next quarter is of the same day, or the midnight of the next.
LEMMA NextQuarter ==
  ASSUME NEW t \in Nat
  PROVE  /\ Midnight(t + 1) => Day(t + 1) = Day(t) + 1
         /\ ~Midnight(t + 1) => Day(t + 1) = Day(t)
<1>1. PICK d \in Nat, p \in Nat : d = Day(t) /\ p = t % Q /\ p < Q /\ t = Q * d + p
  BY DayDef
<1>2. PICK e \in Nat, q \in Nat : e = Day(t + 1) /\ q = (t + 1) % Q /\ q < Q /\ t + 1 = Q * e + q
  <2>1. t + 1 \in Nat
    OBVIOUS
  <2> QED
    BY <2>1, DayDef
<1>3. PICK a \in Nat, b \in Nat : a = Q * d /\ b = Q * e
  BY TableFacts
<1>4. t = a + p /\ t + 1 = b + q
  BY <1>1, <1>2, <1>3
<1>5. e < d => b + Q <= a
  BY <1>3, Products
<1>6. d + 1 < e => a + Q + Q <= b
  <2>1. d + 1 < e => Q * (d + 1) + Q <= Q * e
    BY Products
  <2>2. Q * (d + 1) = Q * d + Q
    BY TableFacts
  <2> QED
    BY <1>3, <2>1, <2>2
<1>7. d = e => a = b
  BY <1>3
<1>8. e = d + 1 => b = a + Q
  BY <1>3, TableFacts
<1>a. p < Q /\ q < Q /\ Q \in Nat /\ Q >= 2
  BY <1>1, <1>2, TableFacts
<1>9. e = d \/ e = d + 1
  BY <1>a, <1>4, <1>5, <1>6
<1>10. q = 0 => e # d
  BY <1>a, <1>4, <1>7
<1>11. q # 0 => e # d + 1
  BY <1>a, <1>4, <1>8
<1> QED
  BY <1>1, <1>2, <1>9, <1>10, <1>11 DEF Midnight


-----------------------------------------------------------------------------
(* The type invariant *)

\* A set of slots has a first, a set of numbers a least.
LEMMA Least ==
  ASSUME NEW S \in SUBSET Nat, S # {}
  PROVE  \E x \in S : \A y \in S : x <= y
<1> DEFINE R == OpToRel(<, Nat)
<1>1. IsWellFoundedOn(R, Nat)
  BY NatLessThanWellFounded
<1>2. \A x, y \in Nat : x < y => <<x, y>> \in R
  BY DEF OpToRel
<1> HIDE DEF R
<1>3. PICK x \in S : \A y \in S : <<y, x>> \notin R
  BY <1>1, WFMin
<1>4. \A y \in S : x \in Nat /\ y \in Nat /\ ~(y < x)
  BY <1>2, <1>3
<1> QED
  BY <1>3, <1>4

\* First names the least file of a set of files.
LEMMA FirstSlot ==
  ASSUME NEW S \in SUBSET Slots, S # {}
  PROVE  First(S) \in S /\ \A r \in S : First(S) <= r
<1>1. \E s \in S : \A r \in S : s <= r
  BY Least, TableFacts
<1> QED
  BY <1>1 DEF First

\* A file that is not empty was opened at the time of its first record.
LEMMA OpenedFacts ==
  ASSUME TypeOK, NEW s \in Slots
  PROVE  /\ file[s] \in Seq(Times) /\ Opened(s) \in Times \cup {Unset} /\ Opened(s) \in Nat
         /\ s \in Used <=> file[s] # <<>>
         /\ file[s] # <<>> => Opened(s) = file[s][1] /\ file[s][1] \in Times /\ 1 \in 1 .. Len(file[s])
         /\ \A i \in 1 .. Len(file[s]) : file[s][i] \in Times /\ file[s][i] \in Nat
<1>1. file[s] \in Seq(Times)
  BY DEF TypeOK
<1>2. \A i \in 1 .. Len(file[s]) : file[s][i] \in Times /\ file[s][i] \in Nat
  <2>1. \A i \in 1 .. Len(file[s]) : file[s][i] \in Times
    BY <1>1
  <2> QED
    BY <2>1, TableFacts
<1>3. file[s] # <<>> => Head(file[s]) = file[s][1] /\ 1 \in 1 .. Len(file[s])
  BY <1>1
<1> QED
  BY <1>1, <1>2, <1>3, TableFacts DEF Opened, Used, Unset

\* Some file is the oldest.
LEMMA OldestSlot ==
  ASSUME TypeOK
  PROVE  {s \in Slots : \A r \in Slots : Opened(s) <= Opened(r)} # {}
<1> DEFINE T == {Opened(s) : s \in Slots}
<1>1. T \in SUBSET Nat /\ T # {}
  BY OpenedFacts, TableFacts
<1>2. PICK t \in T : \A r \in T : t <= r
  <2> HIDE DEF T
  <2> QED
    BY <1>1, Least
<1>3. PICK s \in Slots : t = Opened(s)
  BY <1>2
<1>4. \A r \in Slots : Opened(s) <= Opened(r)
  BY <1>2, <1>3
<1> QED
  BY <1>3, <1>4

\* The next file is a file, and another one.
LEMMA NextSlotFacts == cur \in Slots => NextSlot \in Slots /\ NextSlot # cur
                                       /\ NextSlot = IF cur + 1 = N THEN 0 ELSE cur + 1
<1> SUFFICES ASSUME cur \in Slots
             PROVE  /\ NextSlot \in Slots /\ NextSlot # cur
                    /\ NextSlot = IF cur + 1 = N THEN 0 ELSE cur + 1
  OBVIOUS
<1>1. cur \in Nat /\ cur < N /\ N \in Nat /\ N >= 2
  BY TableFacts DEF Slots
<1>2. NextSlot = IF cur + 1 = N THEN 0 ELSE cur + 1
  BY <1>1 DEF NextSlot
<1> QED
  BY <1>1, <1>2 DEF Slots

\* A record is appended, or refused by a full file.
LEMMA AppendFacts ==
  ASSUME TypeOK, AppendRecord
  PROVE  /\ \A s \in Slots \ {cur} : file'[s] = file[s]
         /\ \/ Len(file[cur]) < Capacity /\ file'[cur] = Append(file[cur], now)
            \/ Len(file[cur]) = Capacity /\ file'[cur] = file[cur]
         /\ file' \in [Slots -> Seq(Times)] /\ \A s \in Slots : Len(file'[s]) <= Capacity
         /\ taken' \subseteq Times
<1>1. /\ file \in [Slots -> Seq(Times)] /\ cur \in Slots /\ now \in Times /\ taken \subseteq Times
      /\ \A s \in Slots : Len(file[s]) \in Nat /\ Len(file[s]) <= Capacity
      /\ Capacity \in Nat
  BY TableFacts DEF TypeOK
<1>2. /\ file' = [file EXCEPT ![cur] = IF Len(file[cur]) < Capacity THEN Append(file[cur], now) ELSE file[cur]]
      /\ taken' = taken \cup {now}
  BY DEF AppendRecord
<1>3. Append(file[cur], now) \in Seq(Times) /\ Len(Append(file[cur], now)) = Len(file[cur]) + 1
  BY <1>1
<1>4. CASE Len(file[cur]) < Capacity
  <2>1. file'[cur] = Append(file[cur], now) /\ \A s \in Slots \ {cur} : file'[s] = file[s]
    BY <1>1, <1>2, <1>4
  <2>2. file' \in [Slots -> Seq(Times)]
    BY <1>1, <1>2, <1>3, <1>4
  <2> QED
    BY <1>1, <1>2, <1>3, <1>4, <2>1, <2>2
<1>5. CASE ~(Len(file[cur]) < Capacity)
  <2>1. Len(file[cur]) = Capacity
    BY <1>1, <1>5
  <2> QED
    BY <1>1, <1>2, <1>5, <2>1
<1> QED
  BY <1>4, <1>5

\* TypeOK holds at first, and after each kind of step.
LEMMA TypeInit == Init => TypeOK
  BY TableFacts DEF Init, TypeOK, Times, Unset

\* A boot, whatever it selects.
LEMMA TypeBoot == TypeOK /\ Boot => TypeOK'
<1> SUFFICES ASSUME TypeOK, Boot PROVE TypeOK'
  OBVIOUS
<1>1. /\ UNCHANGED <<file, now, taken, missed>> /\ now \in Times /\ cur \in Slots
      /\ created \in [Slots -> Times \cup {Unset}]
  BY DEF TypeOK, Boot, BootSelect, BootHang, BootNoneFree
<1>2. \A s \in Slots : Opened(s) \in Times \cup {Unset}
  BY OpenedFacts
<1>3. CASE BootSelect
  <2>1. Candidates \subseteq Slots
    BY DEF Candidates, OfToday, Used
  <2>2. cur' \in Slots
    BY <1>3, <2>1, FirstSlot DEF BootSelect
  <2>3. created' \in [Slots -> Times \cup {Unset}]
    BY <1>1, <1>2, <1>3 DEF BootSelect
  <2> QED
    BY <1>1, <1>3, <2>2, <2>3 DEF TypeOK, BootSelect
<1>4. CASE BootHang
  BY <1>1, <1>4 DEF TypeOK, BootHang
<1>5. CASE BootNoneFree
  <2>1. PICK S \in SUBSET Slots : S = {s \in Slots : \A r \in Slots : Opened(s) <= Opened(r)} /\ S # {}
    <3> DEFINE T == {s \in Slots : \A r \in Slots : Opened(s) <= Opened(r)}
    <3>1. T \in SUBSET Slots /\ T # {}
      BY OldestSlot
    <3> HIDE DEF T
    <3>2. T = {s \in Slots : \A r \in Slots : Opened(s) <= Opened(r)}
      BY DEF T
    <3> QED
      BY <3>1, <3>2
  <2>2. First(S) \in Slots
    BY <2>1, FirstSlot
  <2>3. cur' \in Slots
    BY <1>1, <1>5, <2>1, <2>2 DEF BootNoneFree
  <2>4. created' \in [Slots -> Times \cup {Unset}]
    BY <1>2, <1>5 DEF BootNoneFree
  <2> QED
    BY <1>1, <1>5, <2>3, <2>4 DEF TypeOK, BootNoneFree
<1> QED
  BY <1>3, <1>4, <1>5 DEF Boot

\* The clock.
LEMMA TypeTime == TypeOK /\ (Tick \/ Late) => TypeOK'
<1> SUFFICES ASSUME TypeOK, Tick \/ Late PROVE TypeOK'
  OBVIOUS
<1>1. now' = now + 1 /\ now \in Times /\ now < MaxTime /\ UNCHANGED <<file, created, cur, taken, skewed>>
  BY DEF TypeOK, Tick, Late
<1>2. now' \in Times /\ now' \in Nat /\ now' >= Q /\ now' <= MaxTime
  BY <1>1, TableFacts DEF Times
<1>3. Day(now') \in 1 .. MaxTime
  BY <1>2, DayFacts, TableFacts
<1>4. missed' \subseteq 1 .. MaxTime
  BY <1>3 DEF TypeOK, Tick, Late
<1>5. pc' \in {"off", "idle", "hung", "astray", "close", "advance", "record"}
  BY DEF TypeOK, Tick, Late
<1> QED
  BY <1>1, <1>2, <1>4, <1>5 DEF TypeOK

\* The quarter of FSMID_Task.
LEMMA TypeTask == TypeOK /\ Task => TypeOK'
<1> SUFFICES ASSUME TypeOK, Task PROVE TypeOK'
  OBVIOUS
<1>1. CASE CloseDay \/ Record
  <2>1. AppendRecord /\ UNCHANGED <<created, cur, now, skewed, missed>> /\ pc' \in {"advance", "idle"}
    BY <1>1 DEF CloseDay, Record
  <2> QED
    BY <2>1, AppendFacts DEF TypeOK
<1>2. CASE Advance
  <2>1. /\ cur' = NextSlot /\ NextSlot \in Slots
        /\ file' = [file EXCEPT ![NextSlot] = <<>>] /\ created' = [created EXCEPT ![NextSlot] = now]
        /\ pc' = "record" /\ skewed' \in BOOLEAN /\ UNCHANGED <<now, taken, missed>>
    BY <1>2, NextSlotFacts DEF Advance, TypeOK
  <2>2. file' \in [Slots -> Seq(Times)] /\ created' \in [Slots -> Times \cup {Unset}]
    BY <2>1 DEF TypeOK
  <2>3. \A s \in Slots : Len(file'[s]) <= Capacity
    BY <2>1, TableFacts DEF TypeOK
  <2> QED
    BY <2>1, <2>2, <2>3 DEF TypeOK
<1> QED
  BY <1>1, <1>2 DEF Task

\* A loss of power.
LEMMA TypePower == TypeOK /\ PowerOff => TypeOK'
  BY TableFacts DEF TypeOK, PowerOff

\* What every file and pointer may hold, for every table, quarter and bound.
THEOREM DayTypes == Spec => []TypeOK
<1>1. TypeOK /\ [Next]_vars => TypeOK'
  <2>1. TypeOK /\ UNCHANGED vars => TypeOK'
    BY DEF TypeOK, vars
  <2> QED
    BY <2>1, TypeBoot, TypeTime, TypeTask, TypePower DEF Next
<1> QED
  BY TypeInit, <1>1, PTL DEF Spec

-----------------------------------------------------------------------------
(* The invariants *)

\* The records of a file are of rising times, none in the future; a record that is
\* about to be taken is younger than those of its file.
Rising ==
    /\ \A s \in Slots : \A i \in 1 .. Len(file[s]) :
           file[s][1] + (i - 1) <= file[s][i] /\ file[s][i] <= now
    /\ pc \in {"close", "record"} => \A i \in 1 .. Len(file[cur]) : file[cur][i] < now

\* What is known of today and of the days whose midnight was missed.
Clock ==
    /\ \A d \in missed : d <= Day(now)
    /\ \A t \in taken : t <= now /\ (Midnight(t) => Day(t) \notin missed)
    /\ pc = "close" => FROZEN
    /\ pc \in {"close", "advance"} => Midnight(now)
    /\ pc \in {"close", "advance", "record"} /\ Midnight(now) => Day(now) \notin missed
    /\ pc = "record" /\ Midnight(now) => file[cur] = <<>>

\* How far file s is behind file c.
Age(c, s) == IF s <= c THEN c - s ELSE c + N - s
HeadDay(f, s) == Day(f[s][1])

\* In flash f, at time t, the files are in the order in which they lie behind file c: a
\* file is at least as many days older as it is files behind.  Other free files than
\* c follow it.
Order(f, c, t) ==
    /\ \A s, r \in Slots : f[s] # <<>> /\ f[r] # <<>> /\ Age(c, s) < Age(c, r) =>
           HeadDay(f, r) + (Age(c, r) - Age(c, s)) <= HeadDay(f, s)
    /\ f[c] = <<>> => \A s \in Slots : f[s] # <<>> => HeadDay(f, s) + Age(c, s) <= Day(t)
    /\ \A s \in Slots \ {c} : f[s] = <<>> =>
           c < s /\ \A r \in Slots : c < r /\ r <= s => f[r] = <<>>

\* Record i of file s is where it belongs ...
Plain(f, s, i, m) ==
    \/ Day(f[s][i]) = HeadDay(f, s)
    \/ ~Midnight(f[s][i]) /\ Day(f[s][i]) \in m
\* ... or the closing record of a FROZEN file.
Closing(f, s, i, m) ==
    /\ FROZEN /\ i = Len(f[s]) /\ Midnight(f[s][i])
    /\ Day(f[s][i]) - 1 = HeadDay(f, s) \/ Day(f[s][i]) - 1 \in m

InPlace ==
    /\ \A s \in Slots : \A i \in 1 .. Len(file[s]) :
           Plain(file, s, i, missed) \/ Closing(file, s, i, missed)
    /\ pc \in {"idle", "close", "record"} =>
           \A i \in 1 .. Len(file[cur]) : Plain(file, cur, i, missed)

\* The file of the task is of today, or its midnight was missed.
CurOfDay ==
    file[cur] # <<>> =>
        /\ pc \in {"idle", "record"} => HeadDay(file, cur) = Day(now) \/ Day(now) \in missed
        /\ pc = "close" => HeadDay(file, cur) = Day(now) - 1 \/ Day(now) - 1 \in missed

\* A record is in a file, or N days old, or of a day whose midnight was missed.
KeptIn(f, t) == \E s \in Slots : \E i \in 1 .. Len(f[s]) : f[s][i] = t
Kept == \A t \in taken : \/ KeptIn(file, t)
                         \/ FileDay(t) \in missed
                         \/ FileDay(t) + N <= Day(now)

InOrder ==
    /\ pc = "off" => \E c \in Slots : Order(file, c, now)
    /\ pc # "off" => /\ pc \in {"idle", "close", "advance", "record"}
                     /\ Order(file, cur, now)
    /\ InPlace /\ CurOfDay /\ Kept

DInv == TypeOK /\ Rising /\ Clock /\ (~skewed => InOrder)


-----------------------------------------------------------------------------
(* Records rise, and the clock of the task *)

\* The types of the clock and of what is counted by it.
LEMMA NowFacts ==
  ASSUME TypeOK
  PROVE  now \in Nat /\ now >= Q /\ cur \in Slots /\ Day(now) \in Nat /\ taken \subseteq Nat /\ missed \subseteq Nat
<1>1. now \in Nat /\ now >= Q /\ cur \in Slots /\ taken \subseteq Nat /\ missed \subseteq Nat
  BY TableFacts DEF TypeOK, Times
<1> QED
  BY <1>1, DayFacts

\* An appended record is the youngest of its file.
LEMMA AppendRising ==
  ASSUME TypeOK, Rising, pc \in {"close", "record"}, AppendRecord, now' = now
  PROVE  \A s \in Slots : \A i \in 1 .. Len(file'[s]) :
             file'[s][1] + (i - 1) <= file'[s][i] /\ file'[s][i] <= now'
<1> SUFFICES ASSUME NEW s \in Slots, NEW i \in 1 .. Len(file'[s])
             PROVE  file'[s][1] + (i - 1) <= file'[s][i] /\ file'[s][i] <= now
  OBVIOUS
<1>1. now \in Nat /\ now \in Times /\ cur \in Slots
  BY NowFacts DEF TypeOK
<1>2. CASE file'[s] = file[s]
  BY <1>2 DEF Rising
<1>3. CASE s = cur /\ file'[cur] = Append(file[cur], now)
  <2>1. file[cur] \in Seq(Times) /\ \A j \in 1 .. Len(file[cur]) : file[cur][j] \in Nat
    BY <1>1, OpenedFacts
  <2>2. PICK n \in Nat : n = Len(file[cur])
    BY <2>1
  <2>3. /\ Len(file'[cur]) = n + 1 /\ file'[cur][n + 1] = now
        /\ \A j \in 1 .. n : file'[cur][j] = file[cur][j]
    BY <1>1, <1>3, <2>1, <2>2
  <2>4. \A j \in 1 .. n : /\ file[cur][1] + (j - 1) <= file[cur][j] /\ file[cur][j] < now
                          /\ file[cur][j] \in Nat
    BY <1>1, <2>1, <2>2 DEF Rising
  <2>5. CASE i = n + 1
    <3>1. CASE n = 0
      BY <1>1, <1>3, <2>3, <2>5, <3>1
    <3>2. CASE n # 0
      <4>1. n \in 1 .. n /\ 1 \in 1 .. n
        BY <3>2
      <4>2. file[cur][1] + (n - 1) <= file[cur][n] /\ file[cur][n] < now /\ file[cur][1] \in Nat /\ file[cur][n] \in Nat
        BY <2>4, <4>1
      <4>3. file[cur][1] + n <= now
        BY <1>1, <4>2
      <4> QED
        BY <1>1, <1>3, <2>3, <2>5, <4>1, <4>3
    <3> QED
      BY <3>1, <3>2
  <2>6. CASE i \in 1 .. n
    <3>1. 1 \in 1 .. n /\ file'[cur][i] = file[cur][i] /\ file'[cur][1] = file[cur][1]
      BY <2>3, <2>6
    <3> QED
      BY <1>1, <1>3, <2>4, <2>6, <3>1
  <2> QED
    BY <1>3, <2>2, <2>3, <2>5, <2>6
<1> QED
  BY <1>2, <1>3, AppendFacts

\* Rising and Clock hold at first, and after each kind of step.
LEMMA RisingInit == Init => Rising /\ Clock
<1> SUFFICES ASSUME Init PROVE Rising /\ Clock
  OBVIOUS
<1>1. pc = "off" /\ missed = {} /\ taken = {} /\ \A s \in Slots : file[s] = <<>>
  BY DEF Init
<1> QED
  BY <1>1 DEF Rising, Clock

\* Boots and losses of power leave flash and clock alone.
LEMMA RisingBoot == TypeOK /\ Rising /\ Clock /\ (Boot \/ PowerOff) => (Rising /\ Clock)'
<1> SUFFICES ASSUME Rising, Clock, Boot \/ PowerOff PROVE (Rising /\ Clock)'
  OBVIOUS
<1>1. /\ UNCHANGED <<file, now, taken, missed>> /\ pc' \in {"off", "idle", "hung", "astray"}
  BY DEF Boot, BootSelect, BootHang, BootNoneFree, PowerOff
<1> QED
  BY <1>1 DEF Rising, Clock

\* A poll moves the clock by a quarter, and the day at midnight only.
LEMMA TimeFacts ==
  ASSUME TypeOK, Tick \/ Late
  PROVE  /\ now' = now + 1 /\ now' \in Nat /\ Day(now) <= Day(now') /\ Day(now') \in Nat
         /\ Midnight(now') => Day(now') = Day(now) + 1
         /\ ~Midnight(now') => Day(now') = Day(now)
         /\ UNCHANGED <<file, created, cur, taken, skewed>>
<1>1. now' = now + 1 /\ UNCHANGED <<file, created, cur, taken, skewed>>
  BY DEF Tick, Late
<1>2. now \in Nat /\ now' \in Nat /\ now <= now'
  BY <1>1, NowFacts
<1>3. Day(now) <= Day(now') /\ Day(now') \in Nat
  BY <1>2, DayFacts
<1>4. /\ Midnight(now + 1) => Day(now + 1) = Day(now) + 1
      /\ ~Midnight(now + 1) => Day(now + 1) = Day(now)
  BY <1>2, NextQuarter
<1> QED
  BY <1>1, <1>2, <1>3, <1>4

\* The clock goes on; a late poll at midnight misses that day.
LEMMA RisingTime == TypeOK /\ Rising /\ Clock /\ (Tick \/ Late) => (Rising /\ Clock)'
<1> SUFFICES ASSUME TypeOK, Rising, Clock, Tick \/ Late PROVE (Rising /\ Clock)'
  OBVIOUS
<1>1. /\ now' = now + 1 /\ now' \in Nat /\ Day(now) <= Day(now') /\ Day(now') \in Nat
      /\ Midnight(now') => Day(now') = Day(now) + 1
      /\ ~Midnight(now') => Day(now') = Day(now)
      /\ UNCHANGED <<file, created, cur, taken, skewed>>
  BY TimeFacts
<1>2. now \in Nat /\ Day(now) \in Nat /\ cur \in Slots /\ taken \subseteq Nat /\ missed \subseteq Nat
  BY NowFacts
<1>3. \A s \in Slots : \A i \in 1 .. Len(file[s]) : file[s][i] \in Nat /\ file[s][i] < now'
  <2>1. \A s \in Slots : \A i \in 1 .. Len(file[s]) : file[s][i] \in Nat /\ file[s][i] <= now
    BY OpenedFacts DEF Rising
  <2> QED
    BY <1>1, <1>2, <2>1
<1>4. Rising'
  <2>1. \A s \in Slots : \A i \in 1 .. Len(file[s]) :
            file[s][1] + (i - 1) <= file[s][i] /\ file[s][i] <= now'
    BY <1>1, <1>3 DEF Rising
  <2> QED
    BY <1>1, <1>2, <1>3, <2>1 DEF Rising
<1>5. \A d \in missed : d \in Nat /\ d <= Day(now)
  BY <1>2 DEF Clock
<1>6. \A t \in taken : t \in Nat /\ t <= now /\ Day(t) <= Day(now) /\ (Midnight(t) => Day(t) \notin missed)
  BY <1>2, DayFacts DEF Clock
<1>7. CASE Tick
  <2>1. missed' = missed
    BY <1>7 DEF Tick
  <2>2. \A d \in missed : d <= Day(now') /\ (Midnight(now') => d # Day(now'))
    BY <1>1, <1>2, <1>5
  <2>3. \A t \in taken : t <= now'
    BY <1>1, <1>2, <1>6
  <2>4. /\ pc' = "close" => FROZEN
        /\ pc' \in {"close", "advance"} => Midnight(now')
        /\ pc' = "record" => ~Midnight(now')
    BY <1>7 DEF Tick
  <2>5. Clock'
    BY <1>1, <1>6, <2>1, <2>2, <2>3, <2>4 DEF Clock
  <2> QED
    BY <1>4, <2>5
<1>8. CASE Late
  <2>1. pc' = "idle" /\ missed' = IF Midnight(now') THEN missed \cup {Day(now')} ELSE missed
    BY <1>8 DEF Late
  <2>2. \A d \in missed' : d <= Day(now')
    BY <1>1, <1>2, <1>5, <2>1
  <2>3. \A t \in taken : t <= now' /\ (Midnight(t) => Day(t) \notin missed')
    <3> SUFFICES ASSUME NEW t \in taken
                 PROVE  t <= now' /\ (Midnight(t) => Day(t) \notin missed')
      OBVIOUS
    <3>1. t \in Nat /\ t <= now /\ Day(t) <= Day(now) /\ Day(t) \in Nat
      BY <1>2, <1>6, DayFacts
    <3>2. Midnight(now') => Day(t) # Day(now')
      BY <1>1, <1>2, <3>1
    <3> QED
      BY <1>1, <1>2, <1>6, <2>1, <3>1, <3>2
  <2>4. Clock'
    BY <1>1, <2>1, <2>2, <2>3 DEF Clock
  <2> QED
    BY <1>4, <2>4
<1> QED
  BY <1>7, <1>8

\* The quarter of FSMID_Task.
LEMMA RisingTask == TypeOK /\ Rising /\ Clock /\ Task => (Rising /\ Clock)'
<1> SUFFICES ASSUME TypeOK, Rising, Clock, Task PROVE (Rising /\ Clock)'
  OBVIOUS
<1>1. now \in Nat /\ Day(now) \in Nat /\ cur \in Slots /\ taken \subseteq Nat /\ missed \subseteq Nat
  BY NowFacts
<1>2. CASE CloseDay \/ Record
  <2>1. /\ pc \in {"close", "record"} /\ AppendRecord /\ UNCHANGED <<created, cur, now, skewed, missed>>
        /\ pc' = IF pc = "close" THEN "advance" ELSE "idle"
        /\ taken' = taken \cup {now}
    BY <1>2 DEF CloseDay, Record, AppendRecord
  <2>2. Rising'
    BY <2>1, AppendRising DEF Rising
  <2>3. \A t \in taken' : t <= now /\ (Midnight(t) => Day(t) \notin missed)
    BY <1>1, <2>1 DEF Clock
  <2>4. Clock'
    BY <2>1, <2>3 DEF Clock
  <2> QED
    BY <2>2, <2>4
<1>3. CASE Advance
  <2>1. /\ cur' = NextSlot /\ NextSlot \in Slots /\ pc = "advance"
        /\ \A s \in Slots : file'[s] = file[s] \/ file'[s] = <<>>
        /\ file'[cur'] = <<>>
        /\ pc' = "record" /\ UNCHANGED <<now, taken, missed>>
    BY <1>1, <1>3, NextSlotFacts DEF Advance, TypeOK
  <2>2. \A s \in Slots : \A i \in 1 .. Len(file'[s]) :
            file'[s][1] + (i - 1) <= file'[s][i] /\ file'[s][i] <= now
    BY <2>1 DEF Rising
  <2>3. Rising'
    BY <2>1, <2>2 DEF Rising
  <2>4. Clock'
    BY <2>1 DEF Clock
  <2> QED
    BY <2>3, <2>4
<1> QED
  BY <1>2, <1>3 DEF Task


-----------------------------------------------------------------------------
(* The order of the files, of any contents f of the flash *)

Flash == [Slots -> Seq(Times)]

\* Ages tell the files apart.
LEMMA AgeFacts ==
  ASSUME NEW c \in Slots, NEW s \in Slots
  PROVE  /\ Age(c, s) \in Nat /\ Age(c, s) < N /\ (Age(c, s) = 0 <=> s = c)
         /\ \A r \in Slots : Age(c, r) = Age(c, s) => r = s
<1>1. N \in Nat /\ \A x \in Slots : x \in Nat /\ x < N
  BY TableFacts DEF Slots
<1> QED
  BY <1>1 DEF Age

\* Going on to the next file, all others are one further behind.
Following(c) == IF c + 1 = N THEN 0 ELSE c + 1

\* All but the file gone on to are one file further behind.
LEMMA FollowingFacts ==
  ASSUME NEW c \in Slots
  PROVE  /\ Following(c) \in Slots /\ Following(c) # c
         /\ Age(c, Following(c)) = N - 1
         /\ \A s \in Slots \ {Following(c)} : Age(Following(c), s) = Age(c, s) + 1
<1>1. N \in Nat /\ N >= 2 /\ \A x \in Nat : x \in Slots <=> x < N
  BY TableFacts DEF Slots
<1>2. c \in Nat /\ c < N /\ Slots \subseteq Nat
  BY <1>1, TableFacts
<1> QED
  BY <1>1, <1>2 DEF Age, Following

\* The first record of a file has a time and a day.
LEMMA HeadFacts ==
  ASSUME NEW f \in Flash, NEW s \in Slots, f[s] # <<>>
  PROVE  HeadDay(f, s) \in Nat /\ f[s][1] \in Nat /\ 1 \in 1 .. Len(f[s])
<1>1. f[s] \in Seq(Times) /\ 1 \in 1 .. Len(f[s])
  BY DEF Flash
<1>2. f[s][1] \in Times
  BY <1>1
<1>3. f[s][1] \in Nat
  BY <1>2, TableFacts
<1> QED
  BY <1>1, <1>3, DayFacts DEF HeadDay

\* Files in order stay so as time goes by.
LEMMA OrderLater ==
  ASSUME NEW f \in Flash, NEW c \in Slots, NEW t \in Nat, NEW u \in Nat, t <= u, Order(f, c, t)
  PROVE  Order(f, c, u)
<1>1. Day(t) <= Day(u) /\ Day(t) \in Nat /\ Day(u) \in Nat
  BY DayFacts
<1>2. ASSUME f[c] = <<>>, NEW s \in Slots, f[s] # <<>>
      PROVE  HeadDay(f, s) + Age(c, s) <= Day(u)
  <2>1. HeadDay(f, s) + Age(c, s) <= Day(t)
    BY <1>2 DEF Order
  <2>2. HeadDay(f, s) \in Nat /\ Age(c, s) \in Nat
    BY <1>2, HeadFacts, AgeFacts
  <2> QED
    BY <1>1, <2>1, <2>2
<1> QED
  BY <1>2 DEF Order

\* A record behind others changes nothing.
LEMMA OrderOfHeads ==
  ASSUME NEW f, NEW g, NEW c \in Slots, NEW t, Order(f, c, t),
         \A s \in Slots : (g[s] = <<>> <=> f[s] = <<>>) /\ (f[s] # <<>> => g[s][1] = f[s][1])
  PROVE  Order(g, c, t)
<1>1. \A s \in Slots : f[s] # <<>> => HeadDay(g, s) = HeadDay(f, s)
  BY DEF HeadDay
<1> QED
  BY <1>1 DEF Order

\* The first record of the current file makes it the youngest.
LEMMA OrderFilled ==
  ASSUME NEW f \in Flash, NEW g \in Flash, NEW c \in Slots, NEW t \in Nat, Order(f, c, t),
         f[c] = <<>>, g[c] # <<>>, g[c][1] = t, \A s \in Slots \ {c} : g[s] = f[s]
  PROVE  Order(g, c, t)
<1>1. HeadDay(g, c) = Day(t) /\ \A s \in Slots \ {c} : HeadDay(g, s) = HeadDay(f, s)
  BY DEF HeadDay
<1>2. ASSUME NEW s \in Slots, NEW r \in Slots, g[s] # <<>>, g[r] # <<>>, Age(c, s) < Age(c, r)
      PROVE  HeadDay(g, r) + (Age(c, r) - Age(c, s)) <= HeadDay(g, s)
  <2>1. Age(c, s) \in Nat /\ Age(c, r) \in Nat /\ r # c
    BY <1>2, AgeFacts
  <2>2. f[r] # <<>> /\ HeadDay(g, r) = HeadDay(f, r)
    BY <1>1, <1>2, <2>1
  <2>3. CASE s = c
    <3>1. Age(c, s) = 0 /\ HeadDay(f, r) + Age(c, r) <= Day(t)
      BY <2>2, <2>3, AgeFacts DEF Order
    <3> QED
      BY <1>1, <2>1, <2>2, <2>3, <3>1
  <2>4. CASE s # c
    <3>1. f[s] # <<>> /\ HeadDay(g, s) = HeadDay(f, s)
      BY <1>1, <1>2, <2>4
    <3> QED
      BY <1>2, <2>2, <3>1 DEF Order
  <2> QED
    BY <2>3, <2>4
<1>3. ASSUME NEW s \in Slots \ {c}, g[s] = <<>>
      PROVE  c < s /\ \A r \in Slots : c < r /\ r <= s => g[r] = <<>>
  <2>1. c < s /\ \A r \in Slots : c < r /\ r <= s => f[r] = <<>>
    BY <1>3 DEF Order
  <2>2. \A r \in Slots : c < r => r # c
    BY TableFacts
  <2> QED
    BY <2>1, <2>2
<1> QED
  BY <1>2, <1>3 DEF Order

\* The next file, emptied, comes after one that holds an earlier day.
LEMMA OrderFollowing ==
  ASSUME NEW f \in Flash, NEW g \in Flash, NEW c \in Slots, NEW t \in Nat, Order(f, c, t),
         f[c] # <<>>, HeadDay(f, c) < Day(t),
         g[Following(c)] = <<>>, \A s \in Slots \ {Following(c)} : g[s] = f[s]
  PROVE  Order(g, Following(c), t)
<1> DEFINE e == Following(c)
<1>1. /\ e \in Slots /\ e # c
      /\ \A s \in Slots \ {e} : Age(e, s) = Age(c, s) + 1
  BY FollowingFacts
<1>2. N \in Nat /\ c \in Nat /\ c < N /\ e = IF c + 1 = N THEN 0 ELSE c + 1
  BY TableFacts DEF Slots, Following
<1>3. Slots \subseteq Nat /\ \A s \in Slots : s < N
  BY TableFacts DEF Slots
<1> HIDE DEF e
<1>4. \A s \in Slots \ {e} : g[s] = f[s] /\ HeadDay(g, s) = HeadDay(f, s)
  BY DEF HeadDay, e
<1>5. g[e] = <<>>
  BY DEF e
<1>6. ASSUME NEW s \in Slots, NEW r \in Slots, g[s] # <<>>, g[r] # <<>>, Age(e, s) < Age(e, r)
      PROVE  HeadDay(g, r) + (Age(e, r) - Age(e, s)) <= HeadDay(g, s)
  <2>1. s # e /\ r # e
    BY <1>5, <1>6
  <2>2. f[s] # <<>> /\ f[r] # <<>> /\ HeadDay(g, s) = HeadDay(f, s) /\ HeadDay(g, r) = HeadDay(f, r)
    BY <1>4, <1>6, <2>1
  <2>3. PICK a \in Nat, b \in Nat : a = Age(c, s) /\ b = Age(c, r) /\ Age(e, s) = a + 1 /\ Age(e, r) = b + 1
    BY SMTT(30), <1>1, <2>1, AgeFacts
  <2>4. a < b
    BY <1>6, <2>3
  <2>5. HeadDay(f, r) + (b - a) <= HeadDay(f, s)
    BY <2>2, <2>3, <2>4 DEF Order
  <2>6. Age(e, r) - Age(e, s) = b - a
    BY <2>3
  <2> QED
    BY <2>2, <2>5, <2>6
<1>7. ASSUME NEW s \in Slots, g[s] # <<>>
      PROVE  HeadDay(g, s) + Age(e, s) <= Day(t)
  <2>1. s # e /\ f[s] # <<>> /\ HeadDay(g, s) = HeadDay(f, s) /\ Age(e, s) = Age(c, s) + 1
    BY <1>1, <1>4, <1>5, <1>7
  <2>2. /\ HeadDay(f, s) \in Nat /\ HeadDay(f, c) \in Nat /\ Age(c, s) \in Nat
        /\ Age(c, c) = 0 /\ (Age(c, s) = 0 <=> s = c) /\ Day(t) \in Nat
    BY <2>1, HeadFacts, AgeFacts, DayFacts
  <2>3. CASE s = c
    BY <2>1, <2>2, <2>3
  <2>4. CASE s # c
    <3>1. Age(c, c) < Age(c, s)
      BY <2>2, <2>4
    <3>2. HeadDay(f, s) + (Age(c, s) - Age(c, c)) <= HeadDay(f, c)
      BY <2>1, <3>1 DEF Order
    <3> QED
      BY <2>1, <2>2, <3>2
  <2> QED
    BY <2>3, <2>4
<1>8. ASSUME NEW s \in Slots \ {e}, g[s] = <<>>
      PROVE  e < s /\ \A r \in Slots : e < r /\ r <= s => g[r] = <<>>
  <2>1. s # c /\ f[s] = <<>>
    BY <1>4, <1>8
  <2>2. c < s /\ \A r \in Slots : c < r /\ r <= s => f[r] = <<>>
    BY <2>1 DEF Order
  <2>3. e = c + 1 /\ e < s
    BY <1>2, <1>3, <1>8, <2>2
  <2>4. ASSUME NEW r \in Slots, e < r, r <= s PROVE g[r] = <<>>
    <3>1. c < r /\ r # e
      BY <1>2, <1>3, <2>3, <2>4
    <3> QED
      BY <1>4, <2>2, <2>4, <3>1
  <2> QED
    BY <2>3, <2>4
<1>9. Order(g, e, t)
  BY <1>6, <1>7, <1>8 DEF Order
<1> QED
  BY <1>9 DEF e


-----------------------------------------------------------------------------
(* The steps while the table is in order *)

\* What a boot selects: the file of today, else the first free one, which is the next.
LEMMA Selected ==
  ASSUME TypeOK, Rising, NEW c \in Slots, Order(file, c, now), Candidates # {}
  PROVE  /\ OfToday \subseteq {First(Candidates)}
         /\ First(Candidates) \in Slots
         /\ Order(file, First(Candidates), now)
         /\ file[First(Candidates)] # <<>> => HeadDay(file, First(Candidates)) = Day(now)
<1>1. Slots \subseteq Nat /\ now \in Nat /\ Day(now) \in Nat /\ file \in Flash
  BY TableFacts, NowFacts DEF TypeOK, Flash
<1>2. \A s \in Slots : /\ s \in Used <=> file[s] # <<>>
                       /\ s \in OfToday <=> file[s] # <<>> /\ HeadDay(file, s) = Day(now)
                       /\ s \in Candidates <=> file[s] = <<>> \/ (HeadDay(file, s) = Day(now) /\ file[s] # <<>>)
  <2> SUFFICES ASSUME NEW s \in Slots
               PROVE  /\ s \in Used <=> file[s] # <<>>
                      /\ s \in OfToday <=> file[s] # <<>> /\ HeadDay(file, s) = Day(now)
                      /\ s \in Candidates <=> file[s] = <<>> \/ (HeadDay(file, s) = Day(now) /\ file[s] # <<>>)
    OBVIOUS
  <2>1. (s \in Used <=> file[s] # <<>>) /\ (file[s] # <<>> => Opened(s) = file[s][1])
    BY OpenedFacts
  <2> QED
    BY <2>1 DEF OfToday, Candidates, HeadDay
<1>3. OfToday \subseteq Slots /\ Candidates \subseteq Slots
  BY DEF OfToday, Candidates, Used
<1>4. /\ First(Candidates) \in Candidates /\ First(Candidates) \in Slots
      /\ \A r \in Candidates : First(Candidates) <= r
  BY <1>3, FirstSlot
<1>5. PICK x \in Slots : x = First(Candidates)
  BY <1>4
<1>6. \A s \in Slots : file[s] # <<>> => HeadDay(file, s) \in Nat /\ HeadDay(file, s) <= Day(now)
  <2> SUFFICES ASSUME NEW s \in Slots, file[s] # <<>>
               PROVE  HeadDay(file, s) \in Nat /\ HeadDay(file, s) <= Day(now)
    OBVIOUS
  <2>1. file[s][1] \in Nat /\ 1 \in 1 .. Len(file[s]) /\ HeadDay(file, s) \in Nat
    BY <1>1, HeadFacts
  <2>2. file[s][1] <= now
    BY <2>1 DEF Rising
  <2> QED
    BY <1>1, <2>1, <2>2, DayFacts DEF HeadDay
<1>7. \A s \in Slots \ {c} : file[c] # <<>> /\ file[s] # <<>> => HeadDay(file, s) < HeadDay(file, c)
  <2> SUFFICES ASSUME NEW s \in Slots \ {c}, file[c] # <<>>, file[s] # <<>>
               PROVE  HeadDay(file, s) < HeadDay(file, c)
    OBVIOUS
  <2>1. PICK a \in Nat : a = Age(c, s) /\ a # 0 /\ Age(c, c) = 0
    BY AgeFacts
  <2>2. HeadDay(file, s) + (a - 0) <= HeadDay(file, c)
    BY <2>1 DEF Order
  <2> QED
    BY <1>6, <2>1, <2>2
<1>8. \A s \in Slots \ {c} : file[s] = <<>> =>
          c < s /\ \A r \in Slots : c < r /\ r <= s => file[r] = <<>>
  BY DEF Order
<1>9. CASE file[c] = <<>>
  <2>1. \A s \in Slots : file[s] # <<>> => HeadDay(file, s) < Day(now)
    <3> SUFFICES ASSUME NEW s \in Slots, file[s] # <<>> PROVE HeadDay(file, s) < Day(now)
      OBVIOUS
    <3>1. PICK a \in Nat : a = Age(c, s) /\ a # 0
      BY <1>9, AgeFacts
    <3>2. HeadDay(file, s) + a <= Day(now)
      BY <1>9, <3>1 DEF Order
    <3> QED
      BY <1>1, <1>6, <3>1, <3>2
  <2>2. \A s \in Slots : s \in Candidates <=> file[s] = <<>>
    BY <1>1, <1>2, <1>6, <2>1
  <2>3. OfToday = {}
    BY <1>1, <1>2, <1>3, <1>6, <2>1
  <2>4. c \in Candidates /\ x \in Candidates /\ x <= c
    BY <1>4, <1>5, <1>9, <2>2
  <2>5. x = c
    BY <1>1, <1>8, <2>2, <2>4
  <2> QED
    BY <1>5, <1>9, <2>3, <2>5
<1>10. CASE file[c] # <<>> /\ HeadDay(file, c) = Day(now)
  <2>1. \A s \in Slots : s \in OfToday <=> s = c
    BY <1>1, <1>2, <1>6, <1>7, <1>10
  <2>2. OfToday = {c}
    BY <1>3, <2>1
  <2>3. c \in Candidates /\ x \in Candidates /\ x <= c
    BY <1>2, <1>4, <1>5, <1>10
  <2>4. x = c
    BY <1>1, <1>2, <1>6, <1>7, <1>8, <1>10, <2>3
  <2> QED
    BY <1>5, <1>10, <2>2, <2>4
<1>11. CASE file[c] # <<>> /\ HeadDay(file, c) # Day(now)
  <2>1. HeadDay(file, c) < Day(now)
    BY <1>1, <1>6, <1>11
  <2>2. \A s \in Slots : file[s] # <<>> => HeadDay(file, s) # Day(now)
    BY <1>1, <1>6, <1>7, <1>11, <2>1
  <2>3. OfToday = {} /\ \A s \in Slots : s \in Candidates <=> file[s] = <<>>
    BY <1>2, <1>3, <2>2
  <2>4. PICK s \in Slots : s \in Candidates /\ file[s] = <<>>
    BY <1>4, <2>3
  <2>5. s # c /\ c < s /\ \A r \in Slots : c < r /\ r <= s => file[r] = <<>>
    BY <1>8, <1>11, <2>4
  <2>6. Following(c) = c + 1 /\ Following(c) \in Slots
    <3>1. c + 1 # N
      BY <2>5, TableFacts DEF Slots
    <3> QED
      BY <3>1, FollowingFacts DEF Following
  <2>7. file[c + 1] = <<>> /\ c + 1 \in Candidates /\ c + 1 \in Slots
    BY <1>1, <2>3, <2>5, <2>6
  <2>8. x = c + 1
    <3>1. x \in Candidates /\ x <= c + 1 /\ x \in Nat
      BY <1>1, <1>4, <1>5, <2>7
    <3>2. c < x
      BY <1>8, <1>11, <2>3, <3>1
    <3> QED
      BY <1>1, <3>1, <3>2
  <2>9. Order(file, Following(c), now)
    BY <1>1, <1>11, <2>1, <2>6, <2>7, OrderFollowing
  <2> QED
    BY <1>5, <2>3, <2>6, <2>7, <2>8, <2>9
<1> QED
  BY <1>9, <1>10, <1>11

\* An empty table is in order.
LEMMA InitOrder == Init => InOrder
<1> SUFFICES ASSUME Init PROVE InOrder
  OBVIOUS
<1>1. pc = "off" /\ taken = {} /\ \A s \in Slots : file[s] = <<>>
  BY DEF Init
<1>2. \A s \in Slots : 0 <= s
  BY TableFacts
<1>3. \A s \in Slots \ {0} : 0 < s
  BY TableFacts
<1>4. Order(file, 0, now)
  BY <1>1, <1>2, <1>3, TableFacts DEF Order
<1>5. InPlace /\ CurOfDay /\ Kept
  BY <1>1 DEF InPlace, CurOfDay, Kept
<1> QED
  BY <1>1, <1>4, <1>5, TableFacts DEF InOrder

\* A boot that selects a file of a table in order selects the one the order begins with.
LEMMA BootOrder ==
  ASSUME DInv, Boot, ~skewed'
  PROVE  InOrder'
<1>1. TypeOK /\ Rising /\ Clock /\ pc = "off"
  BY DEF DInv, Boot, BootSelect, BootHang, BootNoneFree
<1>2. ~skewed /\ InOrder /\ Candidates # {} /\ UNCHANGED <<file, now, taken, missed>>
  BY DEF DInv, Boot, BootSelect, BootHang, BootNoneFree
<1>3. PICK c \in Slots : Order(file, c, now)
  BY <1>1, <1>2 DEF InOrder
<1>4. PICK x \in Slots : /\ x = First(Candidates) /\ OfToday \subseteq {x} /\ Order(file, x, now)
                         /\ file[x] # <<>> => HeadDay(file, x) = Day(now)
  BY <1>1, <1>2, <1>3, Selected
<1>5. cur' = x /\ pc' = "idle"
  BY <1>2, <1>4 DEF Boot, BootSelect, BootHang, BootNoneFree
<1>6. \A i \in 1 .. Len(file[x]) : Day(file[x][i]) = HeadDay(file, x)
  <2> SUFFICES ASSUME NEW i \in 1 .. Len(file[x]) PROVE Day(file[x][i]) = HeadDay(file, x)
    OBVIOUS
  <2>1. file[x] # <<>> /\ file[x][1] \in Nat /\ file[x][i] \in Nat /\ now \in Nat
    BY <1>1, OpenedFacts, NowFacts
  <2>2. file[x][1] + (i - 1) <= file[x][i] /\ file[x][i] <= now
    BY <1>1 DEF Rising
  <2>3. file[x][1] <= file[x][i]
    BY <2>1, <2>2
  <2>4. /\ Day(file[x][1]) <= Day(file[x][i]) /\ Day(file[x][i]) <= Day(now)
        /\ Day(file[x][1]) \in Nat /\ Day(file[x][i]) \in Nat /\ Day(now) \in Nat
    BY <2>1, <2>2, <2>3, DayFacts
  <2>5. Day(file[x][1]) = Day(now)
    BY <1>4, <2>1 DEF HeadDay
  <2> QED
    BY <2>4, <2>5 DEF HeadDay
<1>7. InPlace'
  BY <1>2, <1>5, <1>6 DEF InOrder, InPlace, Plain
<1>8. CurOfDay'
  BY <1>2, <1>4, <1>5 DEF CurOfDay
<1>9. Kept'
  BY <1>2 DEF InOrder, Kept
<1> QED
  BY <1>2, <1>4, <1>5, <1>7, <1>8, <1>9 DEF InOrder

\* A loss of power keeps the order.
LEMMA PowerOrder ==
  ASSUME DInv, PowerOff, ~skewed'
  PROVE  InOrder'
<1>1. TypeOK /\ ~skewed /\ InOrder /\ pc # "off" /\ pc' = "off" /\ UNCHANGED <<file, now, taken, missed>>
  BY DEF DInv, PowerOff
<1>2. Order(file, cur, now) /\ cur \in Slots
  BY <1>1 DEF InOrder, TypeOK
<1>3. InPlace' /\ CurOfDay' /\ Kept'
  BY <1>1 DEF InOrder, InPlace, CurOfDay, Kept
<1> QED
  BY <1>1, <1>2, <1>3 DEF InOrder

\* The clock keeps the order.
LEMMA TimeOrder ==
  ASSUME DInv, Tick \/ Late, ~skewed'
  PROVE  InOrder'
<1>1. TypeOK /\ Rising /\ Clock /\ ~skewed /\ InOrder
  BY TimeFacts DEF DInv
<1>2. /\ now' = now + 1 /\ now' \in Nat /\ Day(now) <= Day(now') /\ Day(now') \in Nat
      /\ Midnight(now') => Day(now') = Day(now) + 1
      /\ ~Midnight(now') => Day(now') = Day(now)
      /\ UNCHANGED <<file, created, cur, taken, skewed>>
  BY <1>1, TimeFacts
<1>3. /\ now \in Nat /\ Day(now) \in Nat /\ cur \in Slots /\ taken \subseteq Nat /\ missed \subseteq Nat
      /\ file \in Flash /\ now <= now'
  BY <1>1, <1>2, NowFacts DEF TypeOK, Flash
<1>4. /\ missed \subseteq missed'
      /\ \/ pc = "off" /\ pc' = "off"
         \/ /\ pc = "idle" /\ pc' \in {"idle", "record", "close", "advance"}
            /\ pc' = "idle" /\ Midnight(now') => Day(now') \in missed'
            /\ pc' = "record" => ~Midnight(now')
            /\ pc' = "close" => Midnight(now')
  BY <1>1 DEF Tick, Late, InOrder
<1>5. \A c \in Slots : Order(file, c, now) => Order(file, c, now')
  BY <1>2, <1>3, OrderLater
<1>6. InPlace'
  <2>1. \A s \in Slots : \A i \in 1 .. Len(file[s]) :
            /\ Plain(file, s, i, missed) => Plain(file, s, i, missed')
            /\ Closing(file, s, i, missed) => Closing(file, s, i, missed')
    BY <1>4 DEF Plain, Closing
  <2>2. InPlace
    BY <1>1 DEF InOrder
  <2> QED
    BY <1>2, <1>3, <1>4, <2>1, <2>2 DEF InPlace
<1>7. CurOfDay'
  <2> SUFFICES ASSUME file[cur] # <<>>, pc = "idle"
               PROVE  /\ pc' \in {"idle", "record"} => HeadDay(file, cur) = Day(now') \/ Day(now') \in missed'
                      /\ pc' = "close" => HeadDay(file, cur) = Day(now') - 1 \/ Day(now') - 1 \in missed'
    BY <1>2, <1>4 DEF CurOfDay
  <2>1. HeadDay(file, cur) = Day(now) \/ Day(now) \in missed'
    BY <1>1, <1>4 DEF InOrder, CurOfDay
  <2>2. Midnight(now') => Day(now') - 1 = Day(now)
    BY <1>2, <1>3
  <2> QED
    BY <1>2, <1>4, <2>1, <2>2
<1>8. Kept'
  <2> SUFFICES ASSUME NEW t \in taken
               PROVE  KeptIn(file, t) \/ FileDay(t) \in missed' \/ FileDay(t) + N <= Day(now')
    BY <1>2 DEF Kept
  <2>1. KeptIn(file, t) \/ FileDay(t) \in missed \/ FileDay(t) + N <= Day(now)
    BY <1>1 DEF InOrder, Kept
  <2>2. FileDay(t) \in Int /\ N \in Nat
    BY <1>3, DayFacts, TableFacts DEF FileDay
  <2> QED
    BY <1>2, <1>3, <1>4, <2>1, <2>2
<1>9. /\ pc' = "off" => \E c \in Slots : Order(file, c, now')
      /\ pc' # "off" => /\ pc' \in {"idle", "close", "advance", "record"}
                        /\ Order(file, cur, now')
  BY <1>1, <1>3, <1>4, <1>5 DEF InOrder
<1> QED
  BY <1>2, <1>6, <1>7, <1>8, <1>9 DEF InOrder

\* While the table is in order a file is full only on a day whose midnight was missed.
LEMMA FullFile ==
  ASSUME DInv, pc \in {"close", "record"}, ~skewed, Len(file[cur]) = Capacity
  PROVE  FileDay(now) \in missed
<1>1. TypeOK /\ Rising /\ Clock /\ InOrder
  BY DEF DInv
<1>2. now \in Nat /\ cur \in Slots /\ Day(now) \in Nat /\ file \in Flash
  BY <1>1, NowFacts DEF TypeOK, Flash
<1>3. PICK n \in Nat : n = Capacity /\ n >= Q /\ n = Len(file[cur]) /\ n \in 1 .. n /\ file[cur] # <<>>
  <2>1. Capacity \in Nat /\ Capacity >= Q /\ Q >= 2 /\ Q \in Nat
    BY TableFacts
  <2>2. file[cur] \in Seq(Times)
    BY <1>2 DEF Flash
  <2> QED
    BY <2>1, <2>2
<1>4. PICK h \in Nat, l \in Nat : h = file[cur][1] /\ l = file[cur][n]
  BY <1>1, <1>2, <1>3, OpenedFacts
<1>5. h + (n - 1) <= l /\ l < now
  BY <1>1, <1>2, <1>3, <1>4 DEF Rising
<1>6. HeadDay(file, cur) = Day(h)
  BY <1>4 DEF HeadDay
<1>7. CASE pc = "close"
  <2>1. FROZEN /\ Midnight(now) /\ n = Q + 1
    BY <1>1, <1>3, <1>7 DEF Clock, Capacity
  <2>2. Day(h) # Day(now) - 1
    <3>1. Day(h) = Day(now) - 1 => now - h <= Q
      BY <1>2, <1>4, <2>1, DayFacts
    <3> QED
      BY SMTT(30), <1>2, <1>4, <1>5, <2>1, <3>1, TableFacts
  <2>3. Day(now) - 1 \in missed
    BY <1>1, <1>3, <1>6, <1>7, <2>2 DEF InOrder, CurOfDay
  <2> QED
    BY <2>1, <2>3 DEF FileDay
<1>8. CASE pc = "record"
  <2>1. ~Midnight(now)
    BY <1>1, <1>3, <1>8 DEF Clock
  <2>2. Day(h) # Day(now)
    <3>1. Day(h) = Day(now) => now - h < Q
      BY <1>2, <1>4, DayFacts
    <3> QED
      BY <1>2, <1>3, <1>4, <1>5, <3>1, TableFacts
  <2>3. Day(now) \in missed
    BY <1>1, <1>3, <1>6, <1>8, <2>2 DEF InOrder, CurOfDay
  <2> QED
    BY <2>1, <2>3 DEF FileDay
<1> QED
  BY <1>7, <1>8

\* Appending, or being refused by a full file, keeps the order.
LEMMA AppendOrder ==
  ASSUME DInv, CloseDay \/ Record, ~skewed'
  PROVE  InOrder'
<1>1. TypeOK /\ Rising /\ Clock /\ InOrder /\ ~skewed
  BY DEF DInv, CloseDay, Record
<1>2. /\ pc \in {"close", "record"} /\ AppendRecord /\ UNCHANGED <<created, cur, now, skewed, missed>>
      /\ pc' = IF pc = "close" THEN "advance" ELSE "idle"
      /\ taken' = taken \cup {now}
  BY DEF CloseDay, Record, AppendRecord
<1>3. now \in Nat /\ cur \in Slots /\ Day(now) \in Nat /\ file \in Flash /\ Order(file, cur, now)
  BY <1>1, <1>2, NowFacts DEF TypeOK, Flash, InOrder
<1>4. /\ file' \in Flash /\ \A s \in Slots \ {cur} : file'[s] = file[s]
      /\ \/ Len(file[cur]) < Capacity /\ file'[cur] = Append(file[cur], now)
         \/ Len(file[cur]) = Capacity /\ file'[cur] = file[cur]
  BY <1>1, <1>2, AppendFacts DEF Flash
<1>5. CASE Len(file[cur]) = Capacity /\ file'[cur] = file[cur]
  <2>1. \A s \in Slots : file'[s] = file[s]
    BY <1>4, <1>5
  <2>2. file' = file
    BY <1>3, <1>4, <2>1 DEF Flash
  <2>3. FileDay(now) \in missed
    BY <1>1, <1>2, <1>5, FullFile
  <2>4. Kept'
    BY <1>1, <1>2, <2>2, <2>3 DEF InOrder, Kept
  <2>5. InPlace' /\ CurOfDay'
    BY <1>1, <1>2, <2>2 DEF InOrder, InPlace, CurOfDay
  <2> QED
    BY <1>2, <1>3, <2>2, <2>4, <2>5 DEF InOrder
<1>6. CASE file'[cur] = Append(file[cur], now)
  <2>1. file[cur] \in Seq(Times) /\ now \in Times
    BY <1>1, <1>3 DEF Flash, TypeOK
  <2>2. PICK n \in Nat : n = Len(file[cur])
    BY <2>1
  <2>3. /\ Len(file'[cur]) = n + 1 /\ file'[cur][n + 1] = now /\ file'[cur] # <<>>
        /\ \A i \in 1 .. n : file'[cur][i] = file[cur][i]
        /\ file[cur] = <<>> <=> n = 0
        /\ n # 0 => 1 \in 1 .. n
    BY <1>6, <2>1, <2>2
  <2>4. /\ n = 0 => file'[cur][1] = now /\ HeadDay(file', cur) = Day(now)
        /\ n # 0 => file'[cur][1] = file[cur][1] /\ HeadDay(file', cur) = HeadDay(file, cur)
    BY <2>3 DEF HeadDay
  <2>5. Order(file', cur, now)
    <3>1. CASE n = 0
      BY <1>3, <1>4, <2>3, <2>4, <3>1, OrderFilled
    <3>2. CASE n # 0
      <4>1. \A s \in Slots : (file'[s] = <<>> <=> file[s] = <<>>)
                             /\ (file[s] # <<>> => file'[s][1] = file[s][1])
        BY <1>4, <2>3, <2>4, <3>2
      <4> QED
        BY <1>3, <4>1, OrderOfHeads
    <3> QED
      BY <3>1, <3>2
  <2>6. \A i \in 1 .. n : Plain(file', cur, i, missed)
    <3> SUFFICES ASSUME NEW i \in 1 .. n PROVE Plain(file', cur, i, missed)
      OBVIOUS
    <3>1. Plain(file, cur, i, missed)
      BY <1>1, <1>2, <2>2 DEF InOrder, InPlace
    <3>2. file'[cur][i] = file[cur][i] /\ HeadDay(file', cur) = HeadDay(file, cur)
      <4>1. n # 0
        BY <2>2
      <4> QED
        BY <2>3, <2>4, <4>1
    <3> QED
      BY <3>1, <3>2 DEF Plain
  <2>7. pc = "record" => Plain(file', cur, n + 1, missed)
    <3> SUFFICES ASSUME pc = "record", n # 0 PROVE Plain(file', cur, n + 1, missed)
      BY <2>3, <2>4 DEF Plain
    <3>1. ~Midnight(now)
      BY <1>1, <2>3 DEF Clock
    <3>2. HeadDay(file', cur) = Day(now) \/ Day(now) \in missed
      BY <1>1, <2>3, <2>4 DEF InOrder, CurOfDay
    <3> QED
      BY <2>3, <3>1, <3>2 DEF Plain
  <2>8. pc = "close" => \/ Plain(file', cur, n + 1, missed)
                        \/ Closing(file', cur, n + 1, missed)
    <3> SUFFICES ASSUME pc = "close", n # 0 PROVE Closing(file', cur, n + 1, missed)
      BY <2>3, <2>4 DEF Plain
    <3>1. FROZEN /\ Midnight(now)
      BY <1>1 DEF Clock
    <3>2. HeadDay(file', cur) = Day(now) - 1 \/ Day(now) - 1 \in missed
      BY <1>1, <2>3, <2>4 DEF InOrder, CurOfDay
    <3> QED
      BY <2>3, <3>1, <3>2 DEF Closing
  <2>9. InPlace'
    <3>1. \A s \in Slots \ {cur} : \A i \in 1 .. Len(file'[s]) :
              Plain(file', s, i, missed) \/ Closing(file', s, i, missed)
      <4> SUFFICES ASSUME NEW s \in Slots \ {cur}, NEW i \in 1 .. Len(file'[s])
                   PROVE  Plain(file', s, i, missed) \/ Closing(file', s, i, missed)
        OBVIOUS
      <4>1. file'[s] = file[s]
        BY <1>4
      <4>2. Plain(file, s, i, missed) \/ Closing(file, s, i, missed)
        BY <1>1, <4>1 DEF InOrder, InPlace
      <4> QED
        BY <4>1, <4>2 DEF Plain, Closing, HeadDay
    <3>2. \A i \in 1 .. Len(file'[cur]) : /\ Plain(file', cur, i, missed) \/ Closing(file', cur, i, missed)
                                          /\ pc = "record" => Plain(file', cur, i, missed)
      <4>1. \A i \in 1 .. n + 1 : i \in 1 .. n \/ i = n + 1
        OBVIOUS
      <4> QED
        BY <1>2, <2>3, <2>6, <2>7, <2>8, <4>1
    <3>3. pc' \in {"idle", "close", "record"} => pc = "record"
      BY <1>2
    <3> QED
      BY <1>2, <3>1, <3>2, <3>3 DEF InPlace
  <2>10. CurOfDay'
    <3>1. pc' \in {"idle", "record"} => HeadDay(file', cur) = Day(now) \/ Day(now) \in missed
      BY <1>1, <1>2, <2>3, <2>4 DEF InOrder, CurOfDay
    <3> QED
      BY <1>2, <3>1 DEF CurOfDay
  <2>11. Kept'
    <3>1. KeptIn(file', now)
      <4>1. n + 1 \in 1 .. Len(file'[cur])
        BY <2>3
      <4> QED
        BY <1>3, <2>3, <4>1 DEF KeptIn
    <3>2. ASSUME NEW t, KeptIn(file, t) PROVE KeptIn(file', t)
      <4>1. PICK s \in Slots : \E i \in 1 .. Len(file[s]) : file[s][i] = t
        BY <3>2 DEF KeptIn
      <4>2. PICK i \in 1 .. Len(file[s]) : file[s][i] = t
        BY <4>1
      <4>3. i \in 1 .. Len(file'[s]) /\ file'[s][i] = t
        BY <1>4, <2>2, <2>3, <4>2
      <4> QED
        BY <4>3 DEF KeptIn
    <3> QED
      BY <1>1, <1>2, <3>1, <3>2 DEF InOrder, Kept
  <2> QED
    BY <1>2, <1>3, <2>5, <2>9, <2>10, <2>11 DEF InOrder
<1> QED
  BY <1>4, <1>5, <1>6

\* The next file is N - 1 files behind, and so many days older at least.
LEMMA OldestNext ==
  ASSUME DInv, Advance, ~skewed'
  PROVE  /\ Order(file, cur, now) /\ NextSlot = Following(cur) /\ cur \in Slots
         /\ file[cur] # <<>> /\ HeadDay(file, cur) < Day(now)
         /\ file[Following(cur)] # <<>> => HeadDay(file, Following(cur)) + N <= Day(now)
<1>1. TypeOK /\ Rising /\ InOrder /\ pc = "advance"
  BY DEF DInv, Advance
<1>2. Order(file, cur, now) /\ cur \in Slots /\ file \in Flash /\ now \in Nat /\ Day(now) \in Nat
  BY <1>1, NowFacts DEF InOrder, TypeOK, Flash
<1>3. NextSlot = Following(cur)
  BY <1>2, NextSlotFacts DEF Following
<1>4. file[cur] # <<>> /\ Day(Head(file[cur])) # Day(now)
  BY DEF Advance
<1>5. file[cur][1] \in Nat /\ 1 \in 1 .. Len(file[cur]) /\ HeadDay(file, cur) \in Nat
  BY <1>2, <1>4, HeadFacts
<1>6. Head(file[cur]) = file[cur][1] /\ file[cur][1] <= now
  BY <1>1, <1>2, <1>4, <1>5 DEF Rising, Flash
<1>7. HeadDay(file, cur) < Day(now)
  BY <1>2, <1>4, <1>5, <1>6, DayFacts DEF HeadDay
<1>8. PICK e \in Slots : e = Following(cur) /\ Age(cur, e) = N - 1
  BY <1>2, FollowingFacts
<1>9. Age(cur, cur) = 0 /\ N \in Nat /\ N >= 2
  BY <1>2, AgeFacts, TableFacts
<1>10. ASSUME file[e] # <<>> PROVE HeadDay(file, e) + N <= Day(now)
  <2>1. HeadDay(file, e) \in Nat
    BY <1>2, <1>10, HeadFacts
  <2>2. HeadDay(file, e) + ((N - 1) - 0) <= HeadDay(file, cur)
    BY <1>2, <1>4, <1>8, <1>9, <1>10 DEF Order
  <2> QED
    BY <1>2, <1>5, <1>7, <1>9, <2>1, <2>2
<1> QED
  BY <1>2, <1>3, <1>4, <1>7, <1>8, <1>10

\* Clearing the oldest file and going on to it keeps the order.
LEMMA AdvanceOrder ==
  ASSUME DInv, Advance, ~skewed'
  PROVE  InOrder'
<1>1. TypeOK /\ Rising /\ Clock /\ InOrder /\ ~skewed /\ pc = "advance"
  BY DEF DInv, Advance
<1>2. /\ Order(file, cur, now) /\ NextSlot = Following(cur) /\ cur \in Slots
      /\ file[cur] # <<>> /\ HeadDay(file, cur) < Day(now)
      /\ file[Following(cur)] # <<>> => HeadDay(file, Following(cur)) + N <= Day(now)
  BY OldestNext
<1>3. PICK e \in Slots : e = Following(cur)
  BY <1>2, FollowingFacts
<1>4. /\ cur' = e /\ file' = [file EXCEPT ![e] = <<>>] /\ pc' = "record"
      /\ UNCHANGED <<now, taken, missed>>
  BY <1>2, <1>3 DEF Advance
<1>5. /\ file \in Flash /\ file' \in Flash /\ file'[e] = <<>>
      /\ \A s \in Slots \ {e} : file'[s] = file[s]
  BY <1>1, <1>4 DEF TypeOK, Flash
<1>6. now \in Nat /\ Day(now) \in Nat /\ taken \subseteq Nat
  BY <1>1, NowFacts
<1>7. Order(file', e, now)
  BY <1>2, <1>3, <1>5, <1>6, OrderFollowing
<1>8. InPlace'
  <2>1. \A s \in Slots : \A i \in 1 .. Len(file'[s]) :
            Plain(file', s, i, missed) \/ Closing(file', s, i, missed)
    <3> SUFFICES ASSUME NEW s \in Slots, NEW i \in 1 .. Len(file'[s])
                 PROVE  Plain(file', s, i, missed) \/ Closing(file', s, i, missed)
      OBVIOUS
    <3>1. file'[s] = file[s]
      BY <1>5
    <3>2. Plain(file, s, i, missed) \/ Closing(file, s, i, missed)
      BY <1>1, <3>1 DEF InOrder, InPlace
    <3> QED
      BY <3>1, <3>2 DEF Plain, Closing, HeadDay
  <2>2. \A i \in 1 .. Len(file'[e]) : FALSE
    BY <1>5
  <2> QED
    BY <1>4, <2>1, <2>2 DEF InPlace
<1>9. CurOfDay'
  BY <1>4, <1>5 DEF CurOfDay
<1>10. Kept'
  <2> SUFFICES ASSUME NEW t \in taken
               PROVE  KeptIn(file', t) \/ FileDay(t) \in missed \/ FileDay(t) + N <= Day(now)
    BY <1>4 DEF Kept
  <2>1. CASE FileDay(t) \in missed \/ FileDay(t) + N <= Day(now)
    BY <2>1
  <2>2. CASE KeptIn(file, t)
    <3>1. PICK s \in Slots : \E i \in 1 .. Len(file[s]) : file[s][i] = t
      BY <2>2 DEF KeptIn
    <3>2. PICK i \in 1 .. Len(file[s]) : file[s][i] = t
      BY <3>1
    <3>3. CASE s # e
      BY <1>5, <3>2, <3>3 DEF KeptIn
    <3>4. CASE s = e
      <4>1. /\ HeadDay(file, e) \in Nat /\ HeadDay(file, e) + N <= Day(now)
            /\ N \in Nat /\ Day(t) \in Nat
        <5>1. file[e] # <<>>
          BY <3>2, <3>4
        <5>2. t \in Nat
          BY <1>6
        <5> QED
          BY <1>2, <1>3, <1>5, <5>1, <5>2, HeadFacts, DayFacts, TableFacts
      <4>2. Plain(file, e, i, missed) \/ Closing(file, e, i, missed)
        BY <1>1, <3>2, <3>4 DEF InOrder, InPlace
      <4>3. CASE Day(t) = HeadDay(file, e)
        BY <1>6, <4>1, <4>3 DEF FileDay
      <4>4. CASE ~Midnight(t) /\ Day(t) \in missed
        BY <4>4 DEF FileDay
      <4>5. CASE /\ FROZEN /\ Midnight(t)
                 /\ Day(t) - 1 = HeadDay(file, e) \/ Day(t) - 1 \in missed
        BY <4>1, <4>5 DEF FileDay
      <4> QED
        BY <3>2, <3>4, <4>2, <4>3, <4>4, <4>5 DEF Plain, Closing
    <3> QED
      BY <3>3, <3>4
  <2> QED
    BY <1>1, <2>1, <2>2 DEF InOrder, Kept
<1> QED
  BY <1>4, <1>7, <1>8, <1>9, <1>10 DEF InOrder

\* The invariant holds at first ...
LEMMA DayInit == Init => DInv
  BY TypeInit, RisingInit, InitOrder DEF DInv

\* ... and after every step.
LEMMA DayStep == DInv /\ [Next]_vars => DInv'
<1> SUFFICES ASSUME DInv, [Next]_vars PROVE DInv'
  OBVIOUS
<1>1. CASE Boot
  BY <1>1, TypeBoot, RisingBoot, BootOrder DEF DInv
<1>2. CASE PowerOff
  BY <1>2, TypePower, RisingBoot, PowerOrder DEF DInv
<1>3. CASE Tick \/ Late
  BY <1>3, TypeTime, RisingTime, TimeOrder DEF DInv
<1>4. CASE Task
  BY <1>4, TypeTask, RisingTask, AppendOrder, AdvanceOrder DEF DInv, Task
<1>5. CASE UNCHANGED vars
  <2>1. UNCHANGED <<file, created, cur, pc, now, taken, skewed, missed>>
    BY <1>5 DEF vars
  <2>2. TypeOK' /\ Rising' /\ Clock'
    BY <2>1 DEF DInv, TypeOK, Rising, Clock
  <2>3. ~skewed' => InOrder'
    BY <2>1 DEF DInv, InOrder, InPlace, CurOfDay, Kept
  <2> QED
    BY <2>1, <2>2, <2>3 DEF DInv
<1> QED
  BY <1>1, <1>2, <1>3, <1>4, <1>5 DEF Next

\* The inductive invariant, for every table, quarter and bound.
THEOREM DayInvariant == Spec => []DInv
  BY DayInit, DayStep, PTL DEF Spec


\* BootFindsOneFile: while the table is in order a boot does not stop at the
\* assertion fsmid_app.cpp:260, whatever days passed and whichever midnights were missed.
THEOREM DayBootsOnce == Spec => []BootFindsOneFile
<1>1. DInv => BootFindsOneFile
  BY DEF DInv, InOrder, BootFindsOneFile
<1> QED
  BY <1>1, DayInvariant, PTL

\* OneDayPerFile: while the table is in order a file holds the records of one day, and
\* no other file those of that day.
THEOREM DayFilesApart == Spec => []OneDayPerFile
<1>1. DInv => OneDayPerFile
  <2> SUFFICES ASSUME DInv, ~skewed, pc = "idle" PROVE OneDayPerFile
    BY DEF OneDayPerFile
  <2>1. TypeOK /\ InPlace /\ Order(file, cur, now) /\ cur \in Slots /\ file \in Flash
    BY DEF DInv, InOrder, TypeOK, Flash
  <2>2. \A s \in Used : s \in Slots /\ file[s] # <<>> /\ Day(Opened(s)) = HeadDay(file, s)
    BY <2>1, OpenedFacts DEF Used, HeadDay
  <2>3. ASSUME NEW s \in Used, NEW i \in 1 .. Len(file[s])
        PROVE  \/ Day(file[s][i]) = Day(Opened(s))
               \/ FROZEN /\ i = Len(file[s]) /\ Midnight(file[s][i])
               \/ Day(file[s][i]) \in missed
    BY <2>1, <2>2 DEF InPlace, Plain, Closing
  <2>4. ASSUME NEW s \in Used, NEW r \in Used, s # r
        PROVE  Day(Opened(s)) # Day(Opened(r))
    <3>1. PICK a \in Nat, b \in Nat : a = Age(cur, s) /\ b = Age(cur, r) /\ a # b
      BY <2>1, <2>2, <2>4, AgeFacts
    <3>2. HeadDay(file, s) \in Nat /\ HeadDay(file, r) \in Nat
      BY <2>1, <2>2, HeadFacts
    <3>3. a < b => HeadDay(file, r) + (b - a) <= HeadDay(file, s)
      BY <2>1, <2>2, <3>1 DEF Order
    <3>4. b < a => HeadDay(file, s) + (a - b) <= HeadDay(file, r)
      BY <2>1, <2>2, <3>1 DEF Order
    <3> QED
      BY <2>2, <3>1, <3>2, <3>3, <3>4
  <2> QED
    BY <2>3, <2>4 DEF OneDayPerFile
<1> QED
  BY <1>1, DayInvariant, PTL

\* KeepsDays: no record of the last N days is lost, but of the days whose midnight was
\* missed.
THEOREM DayRecordsKept == Spec => []KeepsDays
<1>1. DInv => KeepsDays
  <2> SUFFICES ASSUME DInv, ~skewed, NEW t \in taken, Day(now) < FileDay(t) + N, FileDay(t) \notin missed
               PROVE  \E s \in Slots : \E i \in 1 .. Len(file[s]) : file[s][i] = t
    BY DEF KeepsDays
  <2>1. TypeOK /\ Kept
    BY DEF DInv, InOrder
  <2>2. t \in Nat /\ Day(now) \in Nat /\ N \in Nat
    BY <2>1, NowFacts, TableFacts
  <2>3. FileDay(t) \in Int
    BY <2>2, DayFacts DEF FileDay
  <2>4. KeptIn(file, t)
    BY <2>1, <2>2, <2>3 DEF Kept
  <2> QED
    BY <2>4 DEF KeptIn
<1> QED
  BY <1>1, DayInvariant, PTL

\* OldestGoesFirst: a file that midnight clears is the oldest of all.
THEOREM DayOldestFirst == Spec => OldestGoesFirst
<1> DEFINE A == ~skewed' => \A s \in Used : file'[s] = <<>> =>
                    \A r \in Used : r # s => Opened(s) < Opened(r)
<1>1. DInv /\ [Next]_vars => [A]_vars
  <2> SUFFICES ASSUME DInv, Next, ~skewed', NEW s \in Used, file'[s] = <<>>, NEW r \in Used, r # s
               PROVE  Opened(s) < Opened(r)
    OBVIOUS
  <2>1. TypeOK /\ s \in Slots /\ r \in Slots
    BY DEF DInv, Used
  <2>2. file[s] # <<>> /\ file[r] # <<>> /\ Opened(s) = file[s][1] /\ Opened(r) = file[r][1]
    BY <2>1, OpenedFacts
  <2>3. CASE Advance
    <3>1. /\ Order(file, cur, now) /\ NextSlot = Following(cur) /\ cur \in Slots
      BY <2>3, OldestNext
    <3>2. PICK e \in Slots : e = Following(cur) /\ Age(cur, e) = N - 1
      BY <3>1, FollowingFacts
    <3>3. s = e
      BY <2>1, <2>2, <2>3, <3>1, <3>2 DEF Advance, TypeOK
    <3>4. PICK a \in Nat : a = Age(cur, r) /\ a < N - 1
      <4>1. Age(cur, r) \in Nat /\ Age(cur, r) < N /\ Age(cur, r) # Age(cur, e)
        BY <2>1, <3>1, <3>3, AgeFacts
      <4> QED
        BY <3>2, <4>1, TableFacts
    <3>5. HeadDay(file, s) + ((N - 1) - a) <= HeadDay(file, r)
      BY <2>1, <2>2, <3>1, <3>2, <3>3, <3>4 DEF Order
    <3>6. file \in Flash
      BY <2>1 DEF TypeOK, Flash
    <3>7. /\ HeadDay(file, s) \in Nat /\ HeadDay(file, r) \in Nat
          /\ file[s][1] \in Nat /\ file[r][1] \in Nat
      BY <2>1, <2>2, <3>6, HeadFacts
    <3>8. Day(file[s][1]) < Day(file[r][1])
      BY <3>4, <3>5, <3>7, TableFacts DEF HeadDay
    <3>9. /\ file[r][1] <= file[s][1] => Day(file[r][1]) <= Day(file[s][1])
          /\ Day(file[s][1]) \in Nat /\ Day(file[r][1]) \in Nat
      BY <3>7, DayFacts
    <3> QED
      BY <2>2, <3>7, <3>8, <3>9
  <2>4. CASE CloseDay \/ Record
    <3>1. AppendRecord /\ cur \in Slots /\ now \in Times
      BY <2>1, <2>4 DEF CloseDay, Record, TypeOK
    <3>2. file'[s] = file[s] \/ file'[s] = Append(file[s], now)
      BY <2>1, <3>1, AppendFacts
    <3>3. Append(file[s], now) # <<>>
      BY <2>1, <3>1, OpenedFacts
    <3> QED
      BY <2>2, <3>2, <3>3
  <2>5. CASE Boot \/ PowerOff \/ Tick \/ Late
    <3>1. file' = file
      BY <2>5 DEF Boot, BootSelect, BootHang, BootNoneFree, PowerOff, Tick, Late
    <3> QED
      BY <2>2, <3>1
  <2> QED
    BY <2>3, <2>4, <2>5 DEF Next, Task
<1>2. Spec => [][A]_vars
  BY <1>1, DayInvariant, PTL DEF Spec
<1> QED
  BY <1>2 DEF OldestGoesFirst

\* NothingRefused: no full file refuses a record, but of a day whose midnight was missed.
THEOREM DayNothingRefused == Spec => NothingRefused
<1> DEFINE A == ~skewed /\ FileDay(now) \notin missed /\ taken' # taken => file' # file
<1>1. DInv /\ [Next]_vars => [A]_vars
  <2> SUFFICES ASSUME DInv, Next, ~skewed, FileDay(now) \notin missed, taken' # taken
               PROVE  file' # file
    OBVIOUS
  <2>1. CloseDay \/ Record
    BY DEF Next, Task, Boot, BootSelect, BootHang, BootNoneFree, PowerOff, Tick, Late, Advance
  <2>2. AppendRecord /\ TypeOK /\ pc \in {"close", "record"} /\ cur \in Slots /\ now \in Times
    BY <2>1 DEF CloseDay, Record, DInv, TypeOK
  <2>3. file'[cur] = Append(file[cur], now)
    BY <2>2, AppendFacts, FullFile
  <2>4. file[cur] \in Seq(Times)
    BY <2>2, OpenedFacts
  <2>5. Len(Append(file[cur], now)) = Len(file[cur]) + 1 /\ Len(file[cur]) \in Nat
    BY <2>2, <2>4
  <2> QED
    BY <2>3, <2>5
<1>2. Spec => [][A]_vars
  BY <1>1, DayInvariant, PTL DEF Spec
<1> QED
  BY <1>2 DEF NothingRefused


-----------------------------------------------------------------------------
(* The listing of the folder (module FolderCall).  Its steps are steps of    *)
(* the table, or leave it as it is.                                          *)

\* No two files begin with records of one day.
HeadsApart ==
    \A s, r \in Slots : s # r /\ file[s] # <<>> /\ file[r] # <<>> =>
        HeadDay(file, s) # HeadDay(file, r)

\* The fixed-point table needs no order for that: it takes no closing record.
FixptApart ==
    ~FROZEN =>
        /\ HeadsApart
        /\ pc = "advance" => \A s \in Slots : \A i \in 1 .. Len(file[s]) : file[s][i] < now
        /\ pc \in {"idle", "record"} /\ file[cur] = <<>> =>
               \A s \in Slots : file[s] # <<>> => HeadDay(file, s) < Day(now)

\* No name is of a day to come, and no two files have one name.
NamesApart ==
    /\ \A s \in Slots : created[s] <= now /\ (pc \in {"close", "advance"} => created[s] < now)
    /\ Named => \A s, r \in Slots : s # r /\ created[s] # Unset /\ created[r] # Unset =>
                    Day(created[s]) # Day(created[r])

\* Where the session stands, and what it has found.
Filtered ==
    /\ ~Up => stage = "none"
    /\ stage = "none" => filted = <<>>
    /\ stage \in {"none", "filter"} => listed = <<>>
    /\ Len(filted) <= scan
    /\ \A k \in 1 .. Len(filted) : filted[k] < scan /\ created[filted[k]] # Unset
    /\ \A k, l \in 1 .. Len(filted) : k < l => filted[k] < filted[l]
    /\ stage \in {"ready", "packet"} =>
           scan = N /\ itemCount = Len(filted) /\ Len(listed) = offset /\ offset <= itemCount
    /\ stage = "ready" /\ class = 0 => offset = itemCount
    /\ stage = "packet" => class = 2

Entry == [file : Slots, name : Nat]

\* What the master was told of a file is true while the file is as it was at the
\* call; no file it has not been told of yet has a name it was told.
Told ==
    /\ listed \in Seq(Entry)
    /\ \A k \in 1 .. Len(listed) :
           /\ k \in 1 .. Len(filted) /\ listed[k].file = filted[k]
           /\ listed[k].name <= Day(now)
           /\ pc \in {"close", "advance"} => listed[k].name < Day(now)
           /\ listed[k].file \in steady => listed[k].name = Day(created[listed[k].file])
           /\ Named => \A r \in Slots : listed[k].file < r /\ created[r] # Unset =>
                           listed[k].name # Day(created[r])
    /\ Named => \A k, l \in 1 .. Len(listed) : k < l => listed[k].name # listed[l].name

\* A file that is as it was at the call is found when the scan has passed it.
Found ==
    \A s \in steady : /\ file[s] # <<>> /\ InRange(s, wanted)
                      /\ s < scan /\ InFolder(s) => \E k \in 1 .. Len(filted) : filted[k] = s

NInv == DInv /\ FixptApart /\ NamesApart
FInv == NInv /\ FolderTypeOK /\ Filtered /\ Told /\ Found


\* What a listing needs of the table holds at first ...
LEMMA NamesInit == Init => NInv
<1> SUFFICES ASSUME Init PROVE NInv
  OBVIOUS
<1>1. pc = "off" /\ \A s \in Slots : file[s] = <<>> /\ created[s] = Unset
  BY DEF Init
<1>2. \A s \in Slots : created[s] <= now
  BY <1>1, TimeAssumption, TableFacts DEF Init, Unset
<1>3. FixptApart
  BY <1>1 DEF FixptApart, HeadsApart
<1>4. NamesApart
  BY <1>1, <1>2 DEF NamesApart
<1> QED
  BY <1>3, <1>4, DayInit DEF NInv

\* The first records are of rising days.
LEMMA HeadsNow ==
  ASSUME TypeOK, Rising, NEW s \in Slots, file[s] # <<>>
  PROVE  /\ file[s][1] \in Nat /\ file[s][1] <= now /\ Opened(s) = file[s][1]
         /\ HeadDay(file, s) \in Nat /\ HeadDay(file, s) <= Day(now)
         /\ Midnight(now) /\ file[s][1] < now => HeadDay(file, s) < Day(now)
<1>1. file[s][1] \in Nat /\ 1 \in 1 .. Len(file[s]) /\ Opened(s) = file[s][1] /\ now \in Nat
  BY OpenedFacts, NowFacts
<1>2. file[s][1] <= now
  BY <1>1 DEF Rising
<1> QED
  BY <1>1, <1>2, DayFacts DEF HeadDay

\* Only one FIXPT file begins on a day: midnight is when the next one is begun.
LEMMA FixptStep ==
  ASSUME DInv, FixptApart, Next
  PROVE  FixptApart'
<1> SUFFICES ASSUME ~FROZEN PROVE FixptApart'
  BY DEF FixptApart
<1>1. TypeOK /\ Rising /\ Clock /\ HeadsApart
  BY DEF DInv, FixptApart
<1>2. now \in Nat /\ Day(now) \in Nat /\ cur \in Slots
  BY <1>1, NowFacts
<1>3. CASE Boot \/ PowerOff
  <2>1. UNCHANGED <<file, now>> /\ pc' \in {"off", "hung", "astray", "idle"}
    BY <1>3 DEF Boot, BootSelect, BootHang, BootNoneFree, PowerOff
  <2>2. HeadsApart'
    BY <1>1, <2>1 DEF HeadsApart
  <2>3. ASSUME pc' = "idle", file[cur'] = <<>>, NEW s \in Slots, file[s] # <<>>
        PROVE  HeadDay(file, s) < Day(now)
    <3>1. BootSelect
      BY <1>3, <2>3 DEF Boot, BootHang, BootNoneFree, PowerOff
    <3>2. Candidates \subseteq Slots /\ Candidates # {} /\ cur' = First(Candidates) /\ OfToday \subseteq {cur'}
      BY <3>1 DEF BootSelect, Candidates, OfToday, Used
    <3>3. cur' \in Slots
      BY <3>2, FirstSlot
    <3>4. cur' \notin Used /\ s \in Used
      BY <1>1, <2>3, <3>3, OpenedFacts
    <3>5. Day(Opened(s)) # Day(now)
      BY <3>2, <3>4 DEF OfToday
    <3> QED
      BY <1>1, <1>2, <2>3, <3>5, HeadsNow DEF HeadDay
  <2> QED
    BY <2>1, <2>2, <2>3 DEF FixptApart
<1>4. CASE Tick \/ Late
  <2>1. /\ now' = now + 1 /\ now' \in Nat /\ Day(now) <= Day(now') /\ Day(now') \in Nat
        /\ UNCHANGED <<file, created, cur, taken, skewed>>
    BY <1>1, <1>4, TimeFacts
  <2>2. HeadsApart'
    BY <1>1, <2>1 DEF HeadsApart
  <2>3. \A s \in Slots : \A i \in 1 .. Len(file[s]) : file[s][i] < now'
    <3>1. \A s \in Slots : \A i \in 1 .. Len(file[s]) : file[s][i] \in Nat /\ file[s][i] <= now
      BY <1>1, OpenedFacts DEF Rising
    <3> QED
      BY <1>2, <2>1, <3>1
  <2>4. pc' \in {"idle", "record"} => pc = "idle"
    BY <1>4 DEF Tick, Late
  <2>5. ASSUME pc = "idle", file[cur] = <<>>, NEW s \in Slots, file[s] # <<>>
        PROVE  HeadDay(file, s) < Day(now')
    <3>1. HeadDay(file, s) < Day(now)
      BY <2>5 DEF FixptApart
    <3>2. HeadDay(file, s) \in Nat
      BY <1>1, <2>5, HeadsNow
    <3> QED
      BY <1>2, <2>1, <3>1, <3>2
  <2> QED
    BY <2>1, <2>2, <2>3, <2>4, <2>5 DEF FixptApart
<1>5. CASE CloseDay \/ Record
  <2>1. Record /\ AppendRecord /\ pc = "record" /\ pc' = "idle" /\ UNCHANGED <<cur, now>>
    BY <1>1, <1>5 DEF Clock, CloseDay, Record
  <2>2. \A s \in Slots \ {cur} : file'[s] = file[s] /\ HeadDay(file', s) = HeadDay(file, s)
    BY <1>1, <2>1, AppendFacts DEF HeadDay
  <2>3. file[cur] \in Seq(Times) /\ now \in Times
    BY <1>1, <1>2 DEF TypeOK
  <2>4. CASE file[cur] = <<>>
    <3>1. Len(file[cur]) # Capacity
      BY <2>4, TableFacts
    <3>2. file'[cur] = Append(file[cur], now)
      BY <1>1, <2>1, <3>1, AppendFacts
    <3>3. file'[cur] # <<>> /\ file'[cur][1] = now
      BY <2>3, <2>4, <3>2
    <3>4. HeadDay(file', cur) = Day(now)
      BY <3>3 DEF HeadDay
    <3>5. \A s \in Slots : file[s] # <<>> => HeadDay(file, s) < Day(now) /\ HeadDay(file, s) \in Nat
      BY <1>1, <2>1, <2>4, HeadsNow DEF FixptApart
    <3>6. \A s \in Slots \ {cur} : file'[s] # <<>> => HeadDay(file', s) # Day(now)
      BY <1>2, <2>2, <3>5
    <3>7. HeadsApart'
      BY <1>1, <2>2, <3>4, <3>6 DEF HeadsApart
    <3> QED
      BY <2>1, <3>3, <3>7 DEF FixptApart
  <2>5. CASE file[cur] # <<>>
    <3>1. file'[cur] # <<>> /\ file'[cur][1] = file[cur][1]
      BY <1>1, <2>1, <2>3, <2>5, AppendFacts
    <3>2. \A s \in Slots : HeadDay(file', s) = HeadDay(file, s) /\ (file'[s] # <<>> => file[s] # <<>>)
      BY <2>2, <2>5, <3>1 DEF HeadDay
    <3>3. HeadsApart'
      BY <1>1, <3>2 DEF HeadsApart
    <3> QED
      BY <2>1, <3>1, <3>3 DEF FixptApart
  <2> QED
    BY <2>4, <2>5
<1>6. CASE Advance
  <2>1. /\ pc = "advance" /\ cur' = NextSlot /\ NextSlot \in Slots /\ pc' = "record" /\ now' = now
        /\ \A s \in Slots \ {NextSlot} : file'[s] = file[s] /\ HeadDay(file', s) = HeadDay(file, s)
        /\ file'[NextSlot] = <<>>
    BY <1>1, <1>2, <1>6, NextSlotFacts DEF Advance, TypeOK, HeadDay
  <2>2. HeadsApart'
    BY <1>1, <2>1 DEF HeadsApart
  <2>3. ASSUME NEW s \in Slots, file'[s] # <<>>
        PROVE  HeadDay(file', s) < Day(now)
    <3>1. s # NextSlot /\ file[s] # <<>>
      BY <2>1, <2>3
    <3>2. 1 \in 1 .. Len(file[s])
      BY <1>1, <3>1, OpenedFacts
    <3>3. file[s][1] < now /\ Midnight(now)
      BY <1>1, <2>1, <3>2 DEF FixptApart, Clock
    <3> QED
      BY <1>1, <2>1, <3>1, <3>3, HeadsNow
  <2> QED
    BY <2>1, <2>2, <2>3 DEF FixptApart
<1> QED
  BY <1>3, <1>4, <1>5, <1>6 DEF Next, Task

\* A boot finds no two files of one day.
LEMMA BootApart ==
  ASSUME DInv, FixptApart, Named, pc = "off"
  PROVE  HeadsApart
<1>1. CASE ~FROZEN
  BY <1>1 DEF FixptApart
<1>2. CASE FROZEN
  <2>1. TypeOK /\ file \in Flash /\ InOrder
    BY <1>2 DEF DInv, Named, TypeOK, Flash
  <2>2. PICK c \in Slots : Order(file, c, now)
    BY <2>1 DEF InOrder
  <2>3. ASSUME NEW s \in Slots, NEW r \in Slots, s # r, file[s] # <<>>, file[r] # <<>>
        PROVE  HeadDay(file, s) # HeadDay(file, r)
    <3>1. PICK a \in Nat, b \in Nat : a = Age(c, s) /\ b = Age(c, r) /\ a # b
      BY <2>3, AgeFacts
    <3>2. HeadDay(file, s) \in Nat /\ HeadDay(file, r) \in Nat
      BY <2>1, <2>3, HeadFacts
    <3>3. a < b => HeadDay(file, r) + (b - a) <= HeadDay(file, s)
      BY <2>2, <2>3, <3>1 DEF Order
    <3>4. b < a => HeadDay(file, s) + (a - b) <= HeadDay(file, r)
      BY <2>2, <2>3, <3>1 DEF Order
    <3> QED
      BY <3>1, <3>2, <3>3, <3>4
  <2> QED
    BY <2>3 DEF HeadsApart
<1> QED
  BY <1>1, <1>2

\* Names of different files stay different.
LEMMA NamesStep ==
  ASSUME DInv, FixptApart, NamesApart, Next
  PROVE  NamesApart'
<1>1. TypeOK /\ Rising /\ Clock
  BY DEF DInv
<1>2. /\ now \in Nat /\ Day(now) \in Nat /\ cur \in Slots /\ Unset \in Nat /\ Unset <= now
      /\ \A s \in Slots : created[s] \in Nat
  <2>1. now \in Nat /\ Day(now) \in Nat /\ cur \in Slots
    BY <1>1, NowFacts
  <2>2. \A s \in Slots : created[s] \in Times \cup {Unset}
    BY <1>1 DEF TypeOK
  <2>3. Unset \in Nat /\ Unset <= now
    BY <2>1 DEF Unset
  <2> QED
    BY <2>1, <2>2, <2>3, TableFacts
<1>3. Named' => Named
  BY DEF Named, Next, Task, Boot, BootSelect, BootHang, BootNoneFree, PowerOff, Tick, Late, CloseDay,
         Advance, Record
<1>4. CASE Boot
  <2>1. UNCHANGED <<file, now>> /\ pc = "off" /\ pc' \notin {"close", "advance"}
    BY <1>4 DEF Boot, BootSelect, BootHang, BootNoneFree
  <2>2. CASE BootHang
    BY <2>1, <2>2, <1>3 DEF NamesApart, BootHang
  <2>3. CASE BootSelect \/ BootNoneFree
    <3>1. \A s \in Slots : \/ created'[s] = Opened(s)
                           \/ created'[s] = now /\ s \notin Used /\ s = cur' /\ BootSelect
      BY <2>3 DEF BootSelect, BootNoneFree
    <3>2. \A s \in Slots : Opened(s) <= now
      BY <1>1, <1>2, HeadsNow DEF Opened, Unset
    <3>3. \A s \in Slots : created'[s] <= now
      BY <1>2, <3>1, <3>2
    <3>4. ASSUME Named', NEW s \in Slots, NEW r \in Slots, s # r,
                 created'[s] # Unset, created'[r] # Unset
          PROVE  Day(created'[s]) # Day(created'[r])
      <4>1. HeadsApart
        BY <1>3, <2>1, <3>4, BootApart
      <4>2. \A x \in Slots : x \in Used => file[x] # <<>> /\ Day(Opened(x)) = HeadDay(file, x)
        BY <1>1, OpenedFacts DEF HeadDay
      <4>3. \A x \in Slots : x \notin Used => Opened(x) = Unset
        BY DEF Used
      <4>4. ASSUME NEW x \in Slots, NEW y \in Slots, x # y, x = cur', x \notin Used, BootSelect,
                   y \in Used
            PROVE  Day(Opened(y)) # Day(now)
        BY <4>4 DEF BootSelect, OfToday
      <4>5. s \in Used \/ (s = cur' /\ BootSelect /\ created'[s] = now)
        BY <3>1, <3>4, <4>3
      <4>6. r \in Used \/ (r = cur' /\ BootSelect /\ created'[r] = now)
        BY <3>1, <3>4, <4>3
      <4>7. CASE s \in Used /\ r \in Used
        BY <3>1, <3>4, <4>1, <4>2, <4>7 DEF HeadsApart
      <4>8. CASE s \notin Used
        <5>1. s = cur' /\ BootSelect /\ created'[s] = now /\ r \in Used /\ created'[r] = Opened(r)
          BY <3>1, <3>4, <4>5, <4>6, <4>8
        <5> QED
          BY <3>4, <4>4, <4>8, <5>1
      <4>9. CASE r \notin Used
        <5>1. r = cur' /\ BootSelect /\ created'[r] = now /\ s \in Used /\ created'[s] = Opened(s)
          BY <3>1, <3>4, <4>5, <4>6, <4>9
        <5> QED
          BY <3>4, <4>4, <4>9, <5>1
      <4> QED
        BY <4>7, <4>8, <4>9
    <3> QED
      BY <2>1, <3>3, <3>4 DEF NamesApart
  <2> QED
    BY <1>4, <2>2, <2>3 DEF Boot
<1>5. CASE PowerOff
  <2>1. now' = now /\ pc' = "off" /\ \A s \in Slots : created'[s] = Unset
    BY <1>5 DEF PowerOff
  <2> QED
    BY <1>2, <2>1 DEF NamesApart
<1>6. CASE Tick \/ Late
  <2>1. now' = now + 1 /\ created' = created
    BY <1>1, <1>6, TimeFacts
  <2>2. \A s \in Slots : created[s] <= now' /\ created[s] < now'
    BY <1>2, <2>1 DEF NamesApart
  <2> QED
    BY <1>3, <2>1, <2>2 DEF NamesApart
<1>7. CASE CloseDay \/ Record
  <2>1. UNCHANGED <<created, now>> /\ (pc' \in {"close", "advance"} => pc = "close")
    BY <1>7 DEF CloseDay, Record
  <2> QED
    BY <1>3, <2>1 DEF NamesApart
<1>8. CASE Advance
  <2>1. /\ pc = "advance" /\ pc' = "record" /\ now' = now /\ NextSlot \in Slots /\ Midnight(now)
        /\ created' = [created EXCEPT ![NextSlot] = now]
    BY <1>1, <1>2, <1>8, NextSlotFacts DEF Advance, Clock
  <2>2. /\ created'[NextSlot] = now
        /\ \A s \in Slots \ {NextSlot} : created'[s] = created[s]
    BY <1>1, <2>1 DEF TypeOK
  <2>3. \A s \in Slots : created[s] < now /\ Day(created[s]) \in Nat /\ Day(created[s]) < Day(now)
    BY <1>2, <2>1, DayFacts DEF NamesApart
  <2>4. \A s \in Slots : created'[s] <= now
    BY <1>2, <2>2, <2>3
  <2>5. ASSUME Named', NEW s \in Slots, NEW r \in Slots, s # r,
               created'[s] # Unset, created'[r] # Unset
        PROVE  Day(created'[s]) # Day(created'[r])
    <3>1. CASE s # NextSlot /\ r # NextSlot
      BY <1>3, <2>2, <2>5, <3>1 DEF NamesApart
    <3>2. CASE s = NextSlot
      BY <1>2, <2>2, <2>3, <2>5, <3>2
    <3>3. CASE r = NextSlot
      BY <1>2, <2>2, <2>3, <2>5, <3>3
    <3> QED
      BY <3>1, <3>2, <3>3
  <2> QED
    BY <2>1, <2>4, <2>5 DEF NamesApart
<1> QED
  BY <1>4, <1>5, <1>6, <1>7, <1>8 DEF Next, Task

\* ... and after every step of the table.
LEMMA TableStep == NInv /\ [Next]_vars => NInv'
<1> SUFFICES ASSUME NInv, [Next]_vars PROVE NInv'
  OBVIOUS
<1>1. DInv'
  BY DayStep DEF NInv
<1>2. CASE Next
  BY <1>1, <1>2, FixptStep, NamesStep DEF NInv
<1>3. CASE UNCHANGED vars
  <2>1. UNCHANGED <<file, created, cur, pc, now, taken, skewed, missed>>
    BY <1>3 DEF vars
  <2>2. FixptApart'
    BY <2>1 DEF NInv, FixptApart, HeadsApart
  <2>3. NamesApart'
    BY <2>1 DEF NInv, NamesApart, Named
  <2> QED
    BY <1>1, <2>2, <2>3 DEF NInv
<1> QED
  BY <1>2, <1>3


\* What the assumptions on the listing give.
LEMMA FolderFacts ==
    /\ PerPacket \in Nat /\ PerPacket # 0 /\ Room \in Nat /\ N + 1 <= Room /\ MaxCalls \in Nat
    /\ 0 .. N \subseteq Nat /\ 0 \in 0 .. N /\ 0 \in 0 .. PerPacket
    /\ \A s \in Slots : s + 1 \in 0 .. N /\ s \in Nat
    /\ \A n \in 0 .. N : n \notin Slots => n = N
  BY FolderAssumption, TableFacts DEF Slots

\* Before the first call nothing is listed.
LEMMA FolderInitInv == FolderInit => FInv
<1> SUFFICES ASSUME FolderInit PROVE FInv
  OBVIOUS
<1>1. NInv
  BY NamesInit DEF FolderInit
<1>2. /\ stage = "none" /\ wanted = AllFiles /\ scan = 0 /\ filted = <<>>
      /\ itemCount = 0 /\ offset = 0 /\ class = 0 /\ entries = 0
      /\ announced = 0 /\ follow = FALSE /\ listed = <<>> /\ steady = {}
  BY DEF FolderInit
<1>3. FolderTypeOK
  <2>1. filted \in Seq(Slots) /\ Len(filted) = 0 /\ Len(filted) < Room
    BY <1>2, FolderFacts, TableFacts
  <2> QED
    BY <1>2, <2>1, FolderFacts DEF FolderTypeOK
<1>4. Filtered /\ Found
  BY <1>2, TableFacts DEF Filtered, Found
<1>5. Told
  BY <1>2 DEF Told
<1> QED
  BY <1>1, <1>3, <1>4, <1>5 DEF FInv

\* A call starts a listing afresh.
LEMMA CallInv ==
  ASSUME FInv, NEW range \in Ranges, Call(range)
  PROVE  (FolderTypeOK /\ Filtered /\ Told /\ Found)'
<1>1. UNCHANGED <<file, created, cur, pc, now, taken, skewed, missed>>
  BY DEF Call, vars
<1>2. /\ Up /\ stage' = "filter" /\ wanted' = range /\ scan' = 0 /\ filted' = <<>> /\ listed' = <<>>
      /\ steady' = {s \in Slots : file[s] # <<>> /\ InRange(s, range)}
      /\ UNCHANGED <<itemCount, offset, class, entries, announced, follow>>
  BY DEF Call
<1>3. FolderTypeOK'
  BY <1>2, FolderFacts, TableFacts DEF FInv, FolderTypeOK
<1>4. Filtered'
  BY <1>1, <1>2, TableFacts DEF Filtered, Up
<1>5. Told'
  BY <1>1, <1>2 DEF Told
<1>6. Found'
  <2> SUFFICES ASSUME NEW s \in steady' PROVE file[s] # <<>> /\ InRange(s, range) /\ ~(s < 0)
    BY <1>1, <1>2 DEF Found, InRange
  <2>1. s \in Slots /\ s \in Nat
    BY <1>2, TableFacts
  <2> QED
    BY <1>2, <2>1
<1> QED
  BY <1>3, <1>4, <1>5, <1>6

\* A log is filtered: appended when it is in the folder and the range.
LEMMA FilterLogInv ==
  ASSUME FInv, FilterLog
  PROVE  (FolderTypeOK /\ Filtered /\ Told /\ Found)'
<1>1. UNCHANGED <<file, created, cur, pc, now, taken, skewed, missed>>
  BY DEF FilterLog, vars
<1>2. /\ stage = "filter" /\ scan \in Slots /\ scan' = scan + 1
      /\ filted' = IF Listable(scan, wanted) THEN Append(filted, scan) ELSE filted
      /\ UNCHANGED <<stage, wanted, itemCount, offset, class, entries, announced,
                     follow, listed, steady>>
  BY DEF FilterLog
<1>3. FolderTypeOK /\ Filtered /\ Told /\ Found
  BY DEF FInv
<1>4. /\ filted \in Seq(Slots) /\ scan \in Nat /\ scan + 1 \in 0 .. N /\ listed = <<>>
      /\ steady \subseteq Slots
  BY <1>2, <1>3, FolderFacts DEF FolderTypeOK, Filtered
<1>5. PICK n \in Nat : n = Len(filted) /\ n <= scan
  BY <1>3, <1>4 DEF Filtered
<1>6. /\ \A k \in 1 .. n : filted[k] \in Slots /\ filted[k] < scan /\ created[filted[k]] # Unset
      /\ \A k, l \in 1 .. n : k < l => filted[k] < filted[l]
  BY <1>3, <1>4, <1>5 DEF Filtered
<1>7. Told'
  BY <1>1, <1>2, <1>4 DEF Told
<1>8. Slots \subseteq Nat /\ N \in Nat /\ Room \in Nat /\ N + 1 <= Room
  BY TableFacts, FolderFacts
<1>9. CASE Listable(scan, wanted)
  <2>1. filted' = Append(filted, scan) /\ created[scan] # Unset
    BY <1>2, <1>9 DEF Listable, InFolder
  <2>2. /\ filted' \in Seq(Slots) /\ Len(filted') = n + 1 /\ filted'[n + 1] = scan
        /\ \A k \in 1 .. n : filted'[k] = filted[k]
    BY <1>2, <1>4, <1>5, <2>1
  <2>3. FolderTypeOK'
    <3>1. Len(filted') < Room
      BY <1>4, <1>5, <1>8, <2>2
    <3> QED
      BY <1>2, <1>3, <1>4, <2>2, <3>1 DEF FolderTypeOK
  <2>4. \A k \in 1 .. n + 1 : filted'[k] \in Nat /\ filted'[k] < scan + 1 /\ created[filted'[k]] # Unset
    <3> SUFFICES ASSUME NEW k \in 1 .. n + 1
                 PROVE  filted'[k] \in Nat /\ filted'[k] < scan + 1 /\ created[filted'[k]] # Unset
      OBVIOUS
    <3>1. k \in 1 .. n \/ k = n + 1
      BY <1>5
    <3>2. CASE k \in 1 .. n
      <4>1. filted'[k] = filted[k] /\ filted[k] \in Nat
        BY <1>6, <1>8, <2>2, <3>2
      <4> QED
        BY <1>4, <1>6, <3>2, <4>1
    <3>3. CASE k = n + 1
      BY <1>4, <2>1, <2>2, <3>3
    <3> QED
      BY <3>1, <3>2, <3>3
  <2>5. \A k, l \in 1 .. n + 1 : k < l => filted'[k] < filted'[l]
    <3> SUFFICES ASSUME NEW k \in 1 .. n + 1, NEW l \in 1 .. n + 1, k < l
                 PROVE  filted'[k] < filted'[l]
      OBVIOUS
    <3>1. k \in 1 .. n /\ (l \in 1 .. n \/ l = n + 1)
      BY <1>5
    <3> QED
      BY <1>6, <2>2, <3>1
  <2>6. Filtered'
    <3>1. Len(filted') <= scan'
      BY <1>2, <1>4, <1>5, <2>2
    <3> QED
      BY <1>1, <1>2, <1>3, <2>2, <2>4, <2>5, <3>1 DEF Filtered, Up
  <2>7. Found'
    <3> SUFFICES ASSUME NEW s \in steady
                 PROVE  /\ file[s] # <<>> /\ InRange(s, wanted)
                        /\ s < scan + 1 /\ InFolder(s) => \E k \in 1 .. n + 1 : filted'[k] = s
      BY <1>1, <1>2, <2>2 DEF Found, InRange, InFolder
    <3>1. /\ file[s] # <<>> /\ InRange(s, wanted)
          /\ s < scan /\ InFolder(s) => \E k \in 1 .. n : filted[k] = s
      BY <1>3, <1>5 DEF Found
    <3>2. s \in Nat
      BY <1>4, <1>8
    <3>3. CASE s < scan /\ InFolder(s)
      <4>1. PICK k \in 1 .. n : filted[k] = s
        BY <3>1, <3>3
      <4>2. k \in 1 .. n + 1 /\ filted'[k] = s
        BY <1>5, <2>2, <4>1
      <4> QED
        BY <3>1, <4>2
    <3>4. CASE s = scan
      <4>1. n + 1 \in 1 .. n + 1 /\ filted'[n + 1] = s
        BY <1>5, <2>2, <3>4
      <4> QED
        BY <3>1, <4>1
    <3> QED
      BY <1>4, <3>1, <3>2, <3>3, <3>4
  <2> QED
    BY <1>7, <2>3, <2>6, <2>7
<1>10. CASE ~Listable(scan, wanted)
  <2>1. filted' = filted
    BY <1>2, <1>10
  <2>2. FolderTypeOK'
    BY <1>2, <1>3, <1>4, <2>1 DEF FolderTypeOK
  <2>3. Filtered'
    <3>1. \A k \in 1 .. n : filted[k] < scan + 1
      <4>1. \A k \in 1 .. n : filted[k] \in Nat /\ filted[k] < scan
        BY <1>6, <1>8
      <4> QED
        BY <1>4, <4>1
    <3>2. Len(filted') <= scan'
      BY <1>2, <1>4, <1>5, <2>1
    <3> QED
      BY <1>1, <1>2, <1>3, <1>5, <1>6, <2>1, <3>1, <3>2 DEF Filtered, Up
  <2>4. Found'
    <3> SUFFICES ASSUME NEW s \in steady
                 PROVE  /\ file[s] # <<>> /\ InRange(s, wanted)
                        /\ s < scan + 1 /\ InFolder(s) => \E k \in 1 .. n : filted[k] = s
      BY <1>1, <1>2, <1>5, <2>1 DEF Found, InRange, InFolder
    <3>1. /\ file[s] # <<>> /\ InRange(s, wanted)
          /\ s < scan /\ InFolder(s) => \E k \in 1 .. n : filted[k] = s
      BY <1>3, <1>5 DEF Found
    <3>2. s = scan => ~InFolder(s)
      BY <1>10, <3>1 DEF Listable
    <3>3. s \in Nat
      BY <1>4, <1>8
    <3> QED
      BY <1>4, <3>1, <3>2, <3>3
  <2> QED
    BY <1>7, <2>2, <2>3, <2>4
<1> QED
  BY <1>9, <1>10

\* The last log is filtered.
LEMMA FilterEndInv ==
  ASSUME FInv, FilterEnd
  PROVE  (FolderTypeOK /\ Filtered /\ Told /\ Found)'
<1>1. UNCHANGED <<file, created, cur, pc, now, taken, skewed, missed>>
  BY DEF FilterEnd, vars
<1>2. /\ stage = "filter" /\ scan \notin Slots /\ stage' = "ready"
      /\ itemCount' = Len(filted) /\ offset' = 0 /\ class' = 2
      /\ UNCHANGED <<wanted, scan, filted, entries, announced, follow, listed, steady>>
  BY DEF FilterEnd
<1>3. FolderTypeOK /\ Filtered /\ Told /\ Found
  BY DEF FInv
<1>4. scan = N /\ listed = <<>> /\ Len(filted) \in 0 .. N
  <2>1. scan = N /\ listed = <<>> /\ Len(filted) <= N /\ filted \in Seq(Slots)
    BY <1>2, <1>3, FolderFacts DEF FolderTypeOK, Filtered
  <2> QED
    BY <2>1, TableFacts
<1>5. FolderTypeOK'
  BY <1>2, <1>3, <1>4, FolderFacts DEF FolderTypeOK
<1>6. Filtered'
  <2>1. Len(listed) = 0 /\ 0 <= Len(filted)
    BY <1>4, FolderFacts
  <2> QED
    BY <1>1, <1>2, <1>3, <1>4, <2>1 DEF Filtered, Up
<1>7. Told' /\ Found'
  BY <1>1, <1>2, <1>3, <1>4 DEF Told, Found, InRange, InFolder, Named
<1> QED
  BY <1>5, <1>6, <1>7

\* Packets begin and end.
LEMMA PacketInv ==
  ASSUME FInv, StartPacket \/ EndPacket
  PROVE  (FolderTypeOK /\ Filtered /\ Told /\ Found)'
<1>1. UNCHANGED <<file, created, cur, pc, now, taken, skewed, missed>>
  BY DEF StartPacket, EndPacket, vars
<1>2. /\ Up /\ stage \in {"ready", "packet"} /\ stage' \in {"ready", "packet"}
      /\ UNCHANGED <<wanted, scan, filted, itemCount, offset, listed, steady>>
  BY DEF StartPacket, EndPacket
<1>3. FolderTypeOK /\ Filtered /\ Told /\ Found
  BY DEF FInv
<1>4. /\ itemCount \in Nat /\ offset \in Nat /\ offset <= itemCount /\ PerPacket \in Nat /\ PerPacket # 0
      /\ 0 \in 0 .. PerPacket
  BY <1>2, <1>3, FolderFacts, TableFacts DEF FolderTypeOK, Filtered
<1>5. /\ class' \in {0, 2} /\ (stage' = "ready" /\ class' = 0 => offset = itemCount)
      /\ (stage' = "packet" => class' = 2)
  <2>1. CASE StartPacket
    <3>1. PICK a \in Nat : a = Fewer(itemCount - offset, PerPacket) /\ (a = 0 => offset = itemCount)
      BY <1>4 DEF Fewer
    <3> QED
      BY <2>1, <3>1 DEF StartPacket
  <2>2. CASE EndPacket
    BY <2>2 DEF EndPacket
  <2> QED
    BY <2>1, <2>2
<1>6. entries' \in 0 .. PerPacket /\ announced' \in 0 .. PerPacket /\ follow' \in BOOLEAN
  <2>1. CASE StartPacket
    <3>1. Fewer(itemCount - offset, PerPacket) \in 0 .. PerPacket
      BY <1>4 DEF Fewer
    <3> QED
      BY <1>4, <2>1, <3>1 DEF StartPacket, Follows
  <2>2. CASE EndPacket
    BY <1>3, <2>2 DEF EndPacket, FolderTypeOK
  <2> QED
    BY <2>1, <2>2
<1>7. FolderTypeOK'
  BY <1>2, <1>3, <1>5, <1>6 DEF FolderTypeOK
<1>8. Filtered'
  BY <1>1, <1>2, <1>3, <1>5 DEF Filtered, Up
<1>9. Told' /\ Found'
  BY <1>1, <1>2, <1>3 DEF Told, Found, InRange, InFolder, Named
<1> QED
  BY <1>7, <1>8, <1>9


\* The type of an entry that was sent.
LEMMA ToldEntry ==
  ASSUME Told, NEW k \in 1 .. Len(listed)
  PROVE  /\ listed[k] \in Entry /\ listed[k].name \in Nat /\ listed[k].file \in Slots
         /\ listed[k] = [file |-> listed[k].file, name |-> listed[k].name]
<1>1. listed[k] \in Entry
  BY DEF Told
<1> QED
  BY <1>1 DEF Entry

\* An entry is sent: its file follows those told before.
LEMMA ListEntryInv ==
  ASSUME FInv, ListEntry
  PROVE  (FolderTypeOK /\ Filtered /\ Told /\ Found)'
<1>1. UNCHANGED <<file, created, cur, pc, now, taken, skewed, missed>>
  BY DEF ListEntry, vars
<1>2. /\ Up /\ stage = "packet" /\ entries # PerPacket /\ ~(offset >= itemCount)
      /\ offset < Len(filted) /\ offset' = offset + 1 /\ entries' = entries + 1
      /\ listed' = Append(listed, [file |-> filted[offset + 1], name |-> Day(created[filted[offset + 1]])])
      /\ UNCHANGED <<stage, wanted, scan, filted, itemCount, class, announced, follow, steady>>
  BY DEF ListEntry, PacketDone
<1>3. FolderTypeOK /\ Filtered /\ Told /\ Found /\ NamesApart /\ TypeOK
  BY DEF FInv, NInv, DInv
<1>4. /\ itemCount \in 0 .. N /\ offset \in 0 .. N /\ entries \in 0 .. PerPacket /\ PerPacket \in Nat
      /\ itemCount = Len(filted) /\ offset = Len(listed) /\ offset <= itemCount
      /\ listed \in Seq(Entry) /\ filted \in Seq(Slots)
  BY <1>2, <1>3, FolderFacts DEF FolderTypeOK, Filtered, Told
<1>5. PICK n \in Nat : /\ n = offset /\ n = Len(listed) /\ n < Len(filted) /\ n < itemCount
                       /\ n + 1 \in 0 .. N /\ n + 1 <= itemCount /\ n + 1 \in 1 .. Len(filted)
                       /\ \A k \in 1 .. n : k \in 1 .. Len(filted) /\ k < n + 1
  <2>1. offset \in Nat /\ itemCount \in Nat /\ N \in Nat /\ offset < itemCount /\ itemCount <= N
    BY <1>2, <1>4, TableFacts
  <2> QED
    BY <1>4, <2>1
<1>6. PICK s \in Slots : s = filted[n + 1]
  BY <1>4, <1>5
<1>7. /\ created[s] # Unset /\ created[s] \in Nat /\ created[s] <= now
      /\ pc \in {"close", "advance"} => created[s] < now
      /\ now \in Nat /\ Day(now) \in Nat
  <2>1. created[s] # Unset /\ created[s] \in Times \cup {Unset}
    BY <1>3, <1>5, <1>6 DEF Filtered, TypeOK
  <2> QED
    BY <1>3, <2>1, NowFacts, TableFacts DEF NamesApart
<1>8. /\ Day(created[s]) \in Nat /\ Day(created[s]) <= Day(now)
      /\ pc \in {"close", "advance"} => Day(created[s]) < Day(now)
  <2>1. pc \in {"close", "advance"} => Midnight(now)
    BY DEF FInv, NInv, DInv, Clock
  <2> QED
    BY <1>7, <2>1, DayFacts
<1>9. PICK e \in Entry : /\ e = [file |-> s, name |-> Day(created[s])]
                         /\ e.file = s /\ e.name = Day(created[s])
  <2>1. PICK d \in Nat : d = Day(created[s])
    BY <1>8
  <2>2. [file |-> s, name |-> d] \in Entry
    BY DEF Entry
  <2> QED
    BY <2>1, <2>2
<1>10. /\ listed' \in Seq(Entry) /\ Len(listed') = n + 1 /\ listed'[n + 1] = e
       /\ \A k \in 1 .. n : listed'[k] = listed[k]
  <2>1. listed' = Append(listed, e)
    BY <1>2, <1>5, <1>6, <1>9
  <2> QED
    BY <1>4, <1>5, <2>1
<1>11. \A k \in 1 .. n : /\ listed[k].file = filted[k] /\ filted[k] < s
                         /\ Named => listed[k].name # Day(created[s])
  <2> SUFFICES ASSUME NEW k \in 1 .. n
               PROVE  /\ listed[k].file = filted[k] /\ filted[k] < s
                      /\ Named => listed[k].name # Day(created[s])
    OBVIOUS
  <2>1. listed[k].file = filted[k] /\ k \in 1 .. Len(filted) /\ k < n + 1
    BY <1>3, <1>5 DEF Told
  <2>2. filted[k] < s
    BY <1>3, <1>5, <1>6, <2>1 DEF Filtered
  <2> QED
    BY <1>3, <1>5, <1>7, <2>1, <2>2 DEF Told
<1>12. FolderTypeOK'
  <2>1. entries + 1 \in 0 .. PerPacket
    BY <1>2, <1>4
  <2> QED
    BY <1>2, <1>3, <1>5, <2>1 DEF FolderTypeOK
<1>13. Filtered'
  BY <1>1, <1>2, <1>3, <1>4, <1>5, <1>10 DEF Filtered, Up
<1>14. Found'
  BY <1>1, <1>2, <1>3 DEF Found, InRange, InFolder
<1>15. ASSUME NEW k \in 1 .. n + 1
       PROVE  /\ k \in 1 .. Len(filted) /\ listed'[k].file = filted[k]
              /\ listed'[k].name <= Day(now)
              /\ pc \in {"close", "advance"} => listed'[k].name < Day(now)
              /\ listed'[k].file \in steady => listed'[k].name = Day(created[listed'[k].file])
              /\ Named => \A r \in Slots : listed'[k].file < r /\ created[r] # Unset =>
                              listed'[k].name # Day(created[r])
  <2>1. CASE k \in 1 .. n
    BY <1>3, <1>5, <1>10, <2>1 DEF Told
  <2>2. CASE k = n + 1
    <3>1. \A r \in Slots : s < r => r # s
      BY TableFacts
    <3>2. Named => \A r \in Slots : s < r /\ created[r] # Unset => Day(created[s]) # Day(created[r])
      BY <1>3, <1>7, <3>1 DEF NamesApart
    <3> QED
      BY <1>5, <1>6, <1>8, <1>9, <1>10, <2>2, <3>2
  <2> QED
    BY <1>5, <2>1, <2>2
<1>16. ASSUME Named, NEW k \in 1 .. n + 1, NEW l \in 1 .. n + 1, k < l
       PROVE  listed'[k].name # listed'[l].name
  <2>1. k \in 1 .. n /\ (l \in 1 .. n \/ l = n + 1)
    BY <1>16
  <2>2. CASE l \in 1 .. n
    <3>1. listed[k].name # listed[l].name
      BY <1>3, <1>5, <1>16, <2>1, <2>2 DEF Told
    <3> QED
      BY <1>10, <2>1, <2>2, <3>1
  <2>3. CASE l = n + 1
    BY <1>9, <1>10, <1>11, <1>16, <2>1, <2>3
  <2> QED
    BY <2>1, <2>2, <2>3
<1>17. Told'
  <2>1. Named' <=> Named
    BY <1>1 DEF Named
  <2> QED
    BY <1>1, <1>2, <1>10, <1>15, <1>16, <2>1 DEF Told
<1> QED
  BY <1>12, <1>13, <1>14, <1>17

\* A loss of power ends the session.
LEMMA PowerInv ==
  ASSUME FInv, PowerFails
  PROVE  (FolderTypeOK /\ Filtered /\ Told /\ Found)'
<1>1. /\ stage' = "none" /\ wanted' = AllFiles /\ scan' = 0 /\ filted' = <<>>
      /\ itemCount' = 0 /\ offset' = 0 /\ class' = 0 /\ entries' = 0
      /\ announced' = 0 /\ follow' = FALSE /\ listed' = <<>> /\ steady' = {}
  BY DEF PowerFails, NoSession
<1>2. FolderTypeOK'
  <2>1. filted' \in Seq(Slots) /\ Len(filted') = 0 /\ Len(filted') < Room
    BY <1>1, FolderFacts, TableFacts
  <2> QED
    BY <1>1, <2>1, FolderFacts DEF FolderTypeOK
<1>3. Filtered' /\ Found'
  BY <1>1, TableFacts DEF Filtered, Found
<1>4. Told'
  BY <1>1 DEF Told
<1> QED
  BY <1>2, <1>3, <1>4

\* What a step of the task does to the names.
LEMMA TaskNames ==
  ASSUME FInv, TaskStep
  PROVE  /\ Named' => Named
         /\ stage # "none" =>
                /\ Up'
                /\ now <= now' /\ Day(now) <= Day(now')
                /\ pc' \in {"close", "advance"} => \/ pc \in {"close", "advance"} /\ now' = now
                                                   \/ Day(now) < Day(now')
                /\ \/ created' = created
                   \/ /\ pc = "advance" /\ now' = now /\ pc' = "record"
                      /\ \E e \in Slots : created' = [created EXCEPT ![e] = now]
<1>1. TypeOK /\ Filtered /\ Clock
  BY DEF FInv, NInv, DInv
<1>2. Named' => Named
  BY DEF TaskStep, Named, Task, Boot, BootSelect, BootHang, BootNoneFree, Tick, Late, CloseDay,
         Advance, Record
<1>3. ASSUME stage # "none"
      PROVE  /\ Up'
             /\ now <= now' /\ Day(now) <= Day(now')
             /\ pc' \in {"close", "advance"} => \/ pc \in {"close", "advance"} /\ now' = now
                                                \/ Day(now) < Day(now')
             /\ \/ created' = created
                \/ /\ pc = "advance" /\ now' = now /\ pc' = "record"
                   /\ \E e \in Slots : created' = [created EXCEPT ![e] = now]
  <2>1. Up /\ now \in Nat /\ Day(now) \in Nat /\ cur \in Slots
    BY <1>1, <1>3, NowFacts DEF Filtered
  <2>2. Tick \/ Late \/ Task
    BY <2>1 DEF TaskStep, Up, Boot, BootSelect, BootHang, BootNoneFree
  <2>3. CASE Tick \/ Late
    <3>1. /\ now' = now + 1 /\ Day(now) <= Day(now') /\ Day(now') \in Nat
          /\ Midnight(now') => Day(now') = Day(now) + 1
          /\ created' = created
      BY <1>1, <2>3, TimeFacts
    <3>2. Up' /\ (pc' \in {"close", "advance"} => Midnight(now'))
      <4>1. Tick => (pc # "idle" => pc' = pc /\ pc = "astray")
        BY <2>1 DEF Tick, Up
      <4>2. Tick => (pc = "idle" => /\ pc' \in {"record", "close", "advance"}
                                    /\ pc' \in {"close", "advance"} => Midnight(now'))
        BY DEF Tick
      <4>3. Late => pc' = "idle"
        BY DEF Late
      <4> QED
        BY <2>3, <4>1, <4>2, <4>3 DEF Up
    <3> QED
      BY <2>1, <3>1, <3>2
  <2>4. CASE CloseDay \/ Record
    <3>1. now' = now /\ created' = created /\ pc' \in {"advance", "idle"}
          /\ (pc' = "advance" => pc = "close")
      BY <2>4 DEF CloseDay, Record
    <3> QED
      BY <2>1, <3>1 DEF Up
  <2>5. CASE Advance
    <3>1. /\ pc = "advance" /\ now' = now /\ pc' = "record" /\ NextSlot \in Slots
          /\ created' = [created EXCEPT ![NextSlot] = now]
      BY <2>1, <2>5, NextSlotFacts DEF Advance
    <3>2. Up' /\ now <= now' /\ Day(now) <= Day(now') /\ pc' \notin {"close", "advance"}
      BY <2>1, <3>1 DEF Up
    <3> QED
      BY <3>1, <3>2
  <2> QED
    BY <2>2, <2>3, <2>4, <2>5 DEF Task
<1> QED
  BY <1>2, <1>3

\* The task works on while the listing goes on.
LEMMA TaskInv ==
  ASSUME FInv, TaskStep
  PROVE  (FolderTypeOK /\ Filtered /\ Told /\ Found)'
<1>1. /\ steady' = {s \in steady : file'[s] # <<>> /\ created'[s] = created[s]}
      /\ UNCHANGED <<stage, wanted, scan, filted, itemCount, offset, class, entries,
                     announced, follow, calls, listed>>
  BY DEF TaskStep
<1>2. FolderTypeOK /\ Filtered /\ Told /\ Found /\ TypeOK /\ NamesApart
  BY DEF FInv, NInv, DInv
<1>3. now \in Nat /\ now # Unset /\ Day(now) \in Nat
  BY <1>2, NowFacts, TableFacts DEF Unset
<1>4. now' \in Nat /\ Day(now') \in Nat
  BY <1>2, TimeFacts, <1>3 DEF TaskStep, Boot, BootSelect, BootHang, BootNoneFree, Task, CloseDay, Advance, Record
<1>5. FolderTypeOK'
  BY <1>1, <1>2 DEF FolderTypeOK
<1>6. Found'
  <2> SUFFICES ASSUME NEW s \in steady'
               PROVE  /\ file'[s] # <<>> /\ InRange(s, wanted)'
                      /\ s < scan /\ created'[s] # Unset => \E k \in 1 .. Len(filted) : filted[k] = s
    BY <1>1 DEF Found, InFolder
  <2>1. s \in steady /\ file'[s] # <<>> /\ created'[s] = created[s] /\ wanted' = wanted
    BY <1>1
  <2> QED
    BY <1>2, <2>1 DEF Found, InFolder, InRange
<1>7. CASE stage = "none"
  <2>1. filted = <<>> /\ listed = <<>>
    BY <1>2, <1>7 DEF Filtered
  <2>2. Filtered'
    BY <1>1, <1>2, <1>7, <2>1 DEF Filtered
  <2>3. Told'
    BY <1>1, <2>1 DEF Told
  <2> QED
    BY <1>5, <1>6, <2>2, <2>3
<1>8. CASE stage # "none"
  <2>1. /\ Named' => Named
        /\ Up' /\ now <= now' /\ Day(now) <= Day(now')
        /\ pc' \in {"close", "advance"} => \/ pc \in {"close", "advance"} /\ now' = now
                                           \/ Day(now) < Day(now')
        /\ \/ created' = created
           \/ /\ pc = "advance" /\ now' = now /\ pc' = "record"
              /\ \E e \in Slots : created' = [created EXCEPT ![e] = now]
    BY <1>8, TaskNames
  <2>2. \A s \in Slots : \/ created'[s] = created[s]
                         \/ pc = "advance" /\ created'[s] = now
    BY <1>2, <2>1 DEF TypeOK
  <2>3. filted \in Seq(Slots)
    BY <1>2 DEF FolderTypeOK
  <2>4. \A k \in 1 .. Len(filted) : filted[k] \in Slots /\ created'[filted[k]] # Unset
    BY <1>2, <1>3, <2>2, <2>3 DEF Filtered
  <2>5. Filtered'
    BY <1>1, <1>2, <2>1, <2>4 DEF Filtered
  <2>6. ASSUME NEW k \in 1 .. Len(listed)
        PROVE  /\ k \in 1 .. Len(filted) /\ listed[k].file = filted[k]
               /\ listed[k].name <= Day(now')
               /\ pc' \in {"close", "advance"} => listed[k].name < Day(now')
               /\ listed[k].file \in steady' => listed[k].name = Day(created'[listed[k].file])
               /\ Named' => \A r \in Slots : listed[k].file < r /\ created'[r] # Unset =>
                                listed[k].name # Day(created'[r])
    <3>1. /\ k \in 1 .. Len(filted) /\ listed[k].file = filted[k]
          /\ listed[k].name <= Day(now)
          /\ pc \in {"close", "advance"} => listed[k].name < Day(now)
          /\ listed[k].file \in steady => listed[k].name = Day(created[listed[k].file])
          /\ Named => \A r \in Slots : listed[k].file < r /\ created[r] # Unset =>
                          listed[k].name # Day(created[r])
      BY <1>2 DEF Told
    <3>2. listed[k].name \in Nat
      BY <1>2, ToldEntry
    <3>3. listed[k].name <= Day(now') /\ (pc' \in {"close", "advance"} => listed[k].name < Day(now'))
      BY <1>3, <1>4, <2>1, <3>1, <3>2
    <3>4. listed[k].file \in steady' => listed[k].name = Day(created'[listed[k].file])
      BY <1>1, <3>1
    <3>5. ASSUME Named', NEW r \in Slots, listed[k].file < r, created'[r] # Unset
          PROVE  listed[k].name # Day(created'[r])
      <4>1. CASE created'[r] = created[r]
        BY <2>1, <3>1, <3>5, <4>1
      <4>2. CASE pc = "advance" /\ created'[r] = now
        BY <1>3, <3>1, <3>2, <4>2
      <4> QED
        BY <2>2, <4>1, <4>2
    <3> QED
      BY <3>1, <3>3, <3>4, <3>5
  <2>7. Told'
    <3>1. Named' => \A k, l \in 1 .. Len(listed) : k < l => listed[k].name # listed[l].name
      BY <1>2, <2>1 DEF Told
    <3> QED
      BY <1>1, <1>2, <2>6, <3>1 DEF Told
  <2> QED
    BY <1>5, <1>6, <2>5, <2>7
<1> QED
  BY <1>7, <1>8

\* Every step of a listing, and of the table under it.
THEOREM FolderInvariant == FolderSpec => []FInv
<1>1. FInv /\ [FolderNext]_folderVars => FInv'
  <2> SUFFICES ASSUME FInv, [FolderNext]_folderVars PROVE FInv'
    OBVIOUS
  <2>1. [Next]_vars
    BY DEF FolderNext, Call, Answer, FilterLog, FilterEnd, StartPacket, ListEntry, EndPacket,
           TaskStep, PowerFails, Next, folderVars
  <2>2. NInv'
    BY <2>1, TableStep DEF FInv
  <2>3. CASE FolderNext
    BY <2>2, <2>3, CallInv, FilterLogInv, FilterEndInv, PacketInv, ListEntryInv, TaskInv, PowerInv
       DEF FolderNext, Answer, FInv
  <2>4. CASE UNCHANGED folderVars
    <3>1. UNCHANGED <<file, created, cur, pc, now, taken, skewed, missed>> /\ UNCHANGED session
      BY <2>4 DEF folderVars, vars
    <3>2. FolderTypeOK' /\ Filtered'
      BY <3>1 DEF FInv, FolderTypeOK, Filtered, Up, session
    <3>3. Told' /\ Found'
      BY <3>1 DEF FInv, Told, Found, Named, InRange, InFolder, session
    <3> QED
      BY <2>2, <3>2, <3>3 DEF FInv
  <2> QED
    BY <2>3, <2>4
<1> QED
  BY FolderInitInv, <1>1, PTL DEF FolderSpec

\* FolderTypeOK: what the session may hold; the filtered logs and the closing NULL fit
\* into headFiltedLog.
THEOREM FolderTypes == FolderSpec => []FolderTypeOK
  BY FolderInvariant, PTL DEF FInv

\* ListedOnce: no file is listed twice, and no two under one name, whatever is cleared
\* and renamed between two packets.
THEOREM FolderListedOnce == FolderSpec => []ListedOnce
<1>1. FInv => ListedOnce
  <2> SUFFICES ASSUME FInv, NEW i \in 1 .. Len(listed), NEW j \in 1 .. Len(listed), i < j
               PROVE  /\ listed[i].file < listed[j].file
                      /\ Named => listed[i].name # listed[j].name
    BY DEF ListedOnce
  <2>1. Told /\ Filtered
    BY DEF FInv
  <2>2. /\ i \in 1 .. Len(filted) /\ listed[i].file = filted[i]
        /\ j \in 1 .. Len(filted) /\ listed[j].file = filted[j]
    BY <2>1 DEF Told
  <2>3. filted[i] < filted[j]
    BY <2>1, <2>2 DEF Filtered
  <2> QED
    BY <2>1, <2>2, <2>3 DEF Told
<1> QED
  BY <1>1, FolderInvariant, PTL

\* ListsSteadyFiles: a listing that has ended names every file that was as it is when
\* the master asked.
THEOREM FolderListsSteady == FolderSpec => []ListsSteadyFiles
<1>1. FInv => ListsSteadyFiles
  <2> SUFFICES ASSUME FInv, stage = "ready", class = 0, NEW s \in steady, InFolder(s)
               PROVE  \E i \in 1 .. Len(listed) :
                          listed[i] = [file |-> s, name |-> Day(created[s])]
    BY DEF ListsSteadyFiles
  <2>1. Told /\ Filtered /\ Found /\ FolderTypeOK
    BY DEF FInv
  <2>2. scan = N /\ Len(listed) = Len(filted)
    BY <2>1 DEF Filtered
  <2>3. s < scan
    BY <2>1, <2>2, TableFacts DEF FolderTypeOK, Slots
  <2>4. PICK i \in 1 .. Len(filted) : filted[i] = s
    BY <2>1, <2>3 DEF Found
  <2>5. i \in 1 .. Len(listed) /\ listed[i].file = s /\ listed[i].name = Day(created[s])
    BY <2>1, <2>2, <2>4 DEF Told
  <2> QED
    BY <2>1, <2>5, ToldEntry
<1> QED
  BY <1>1, FolderInvariant, PTL

=============================================================================
