------------------------- MODULE ExtremeDaysProofs -------------------------
(***************************************************************************)
(* Four properties of the extreme values, proved for every number of       *)
(* files and points, every set of samples and restarts anywhere: that no   *)
(* assertion fails, that a file with the EOF mark is whole, that what a    *)
(* save writes are the extremes of the samples, and that the last N saves  *)
(* are kept.                                                               *)
(*                                                                         *)
(* A boot would fail on a file of today.  There is none because a time     *)
(* that is written is that of a sample, samples are taken when no save is  *)
(* at work, and a save begins with the next day: the invariant relates the *)
(* times in flash, those in the tables and the day.                        *)
(***************************************************************************)
EXTENDS ExtremeDays, NaturalsInduction, WellFoundedInduction, TLAPS

\* The type of unit i of a file.
TypeOf(i) == IF i = 1 THEN EXTREME_MAX_MARK
             ELSE IF i <= Points + 1 THEN MaximumType
             ELSE IF i = Points + 2 THEN EXTREME_MIN_MARK
             ELSE IF i < Total THEN MinimumType ELSE EXTREME_EOF_MARK

Kinds == {EXTREME_MAX_MARK, MaximumType, EXTREME_MIN_MARK, MinimumType, EXTREME_EOF_MARK}
Units == [type : Kinds, time : Nat] \cup [type : Kinds, time : Nat, value : Int]
Taking == [time : Nat, value : Values]
Entries == [1 .. Points -> [time : Nat, value : Int]]

Types ==
    /\ file \in [Slots -> Seq(Units)]
    /\ maximum \in Entries /\ minimum \in Entries
    /\ samples \in [1 .. Points -> Seq(Taking)]
    /\ cur \in Slots /\ unit \in 1 .. Total + 1 /\ day \in Nat \ {0}
    /\ pc \in {"off", "idle", "hung", "save", "write"}

\* What is in flash was sampled before today ...
FlashIsOlder == \A s \in Slots : \A i \in 1 .. Len(file[s]) : file[s][i].time < day

\* ... and so is what a save is about to write there.
TablesAreOlder ==
    \A p \in 1 .. Points :
        /\ maximum[p].time <= day /\ minimum[p].time <= day
        /\ pc \in {"save", "write"} => maximum[p].time < day /\ minimum[p].time < day

\* A file is a prefix of a whole one, of which a save has written unit - 1 units.
Prefixes ==
    \A s \in Slots : /\ Len(file[s]) <= Total
                     /\ \A i \in 1 .. Len(file[s]) : file[s][i].type = TypeOf(i)
WrittenSoFar == pc = "write" => Len(file[cur]) = unit - 1

\* The tables hold the extremes of the samples, and the units written so far are
\* those of the tables.
MaxOf(p) ==
    /\ maximum[p] \in Taken(p) \/ maximum[p].value = FltMin
    /\ \A s \in Taken(p) : /\ Abs(s.value) <= Abs(maximum[p].value)
                           /\ Abs(s.value) = Abs(maximum[p].value) => maximum[p].time <= s.time
MinOf(p) ==
    /\ minimum[p] \in Taken(p) \/ minimum[p].value = FltMax
    /\ \A s \in Taken(p) : /\ Abs(minimum[p].value) <= Abs(s.value)
                           /\ Abs(s.value) = Abs(minimum[p].value) => minimum[p].time <= s.time
TablesAreExtremes == \A p \in 1 .. Points : MaxOf(p) /\ MinOf(p)

UnitsAreTheTables ==
    pc = "write" =>
        \A i \in 1 .. Len(file[cur]) :
            /\ i = 1 => file[cur][i].time = maximum[1].time
            /\ i \in 2 .. Points + 1 => file[cur][i] = Extreme(MaximumType, maximum[i - 1])
            /\ i \in Points + 3 .. Total - 1 => file[cur][i] = Extreme(MinimumType, minimum[i - Points - 2])

IInv ==
    /\ Types /\ FlashIsOlder /\ TablesAreOlder /\ Prefixes /\ WrittenSoFar
    /\ TablesAreExtremes /\ UnitsAreTheTables
    /\ pc # "hung"

-----------------------------------------------------------------------------

LEMMA PointsFacts == N \in Nat /\ N > 0 /\ Points \in Nat /\ Points > 0 /\ Total = 2 * Points + 3
  BY TableAssumption DEF Total

\* The types are told apart.
LEMMA TypesDiffer ==
  /\ EXTREME_MAX_MARK # EXTREME_EOF_MARK /\ EXTREME_MIN_MARK # EXTREME_EOF_MARK
  /\ MaximumType # EXTREME_EOF_MARK /\ MinimumType # EXTREME_EOF_MARK
  BY DEF EXTREME_EOF_MARK, EXTREME_MAX_MARK, EXTREME_MIN_MARK, MaximumType, MinimumType

LEMMA AppendFacts ==
  ASSUME NEW S, NEW s \in Seq(S), NEW e \in S
  PROVE  /\ Len(Append(s, e)) = Len(s) + 1
         /\ \A i \in 1 .. Len(s) : Append(s, e)[i] = s[i]
         /\ Append(s, e)[Len(s) + 1] = e
         /\ Len(s) \in Nat
  OBVIOUS

LEMMA AbsFacts == \A x \in Int : Abs(x) \in Nat
  BY DEF Abs

\* A set of numbers has a least element: the first of some slots, the oldest of all.
LEMMA Least ==
  ASSUME NEW S \in SUBSET Nat, S # {}
  PROVE  \E x \in S : \A y \in S : x <= y
<1> DEFINE R == OpToRel(<, Nat)
<1>1. IsWellFoundedOn(R, Nat)
  BY NatLessThanWellFounded
<1>2. \A x, y \in Nat : x < y => <<x, y>> \in R
  BY DEF OpToRel
<1> HIDE DEF R
<1>3. PICK x \in S : \A y \in S : <<y, x>> \notin R
  BY <1>1, WFMin
<1>4. \A y \in S : x \in Nat /\ y \in Nat /\ ~(y < x)
  BY <1>2, <1>3
<1> QED
  BY <1>3, <1>4

LEMMA LeastSlot == \A S \in SUBSET Slots : S # {} => \E s \in S : \A r \in S : s <= r
<1>1. Slots \subseteq Nat
  BY PointsFacts DEF Slots
<1> QED
  BY <1>1, Least

LEMMA UnitTimes ==
  ASSUME IInv, NEW s \in Slots
  PROVE  Opened(s) \in Nat /\ \A i \in 1 .. Len(file[s]) : file[s][i].time \in Nat
<1>1. file[s] \in Seq(Units)
  BY DEF IInv, Types
<1>2. \A i \in 1 .. Len(file[s]) : file[s][i].time \in Nat
  BY <1>1 DEF Units
<1> QED
  BY <1>1, <1>2 DEF Opened

LEMMA OldestSlot ==
  ASSUME IInv
  PROVE  {s \in Slots : \A r \in Slots : Opened(s) <= Opened(r)} # {}
<1> DEFINE T == {Opened(s) : s \in Slots}
<1>1. T \in SUBSET Nat /\ T # {}
  BY UnitTimes, PointsFacts DEF Slots
<1>2. PICK t \in T : \A r \in T : t <= r
  <2> HIDE DEF T
  <2> QED
    BY <1>1, Least
<1>3. PICK s \in Slots : t = Opened(s)
  BY <1>2
<1>4. \A r \in Slots : Opened(s) <= Opened(r)
  BY <1>2, <1>3
<1> QED
  BY <1>3, <1>4

LEMMA InitInv == Init => IInv
<1> SUFFICES ASSUME Init PROVE IInv
  OBVIOUS
<1> USE PointsFacts
<1>1. Types
  BY ValueAssumption DEF Init, Types, Entries, Slots, Units
<1>2. FlashIsOlder /\ Prefixes
  BY DEF Init, FlashIsOlder, Prefixes, Slots
<1>3. TablesAreOlder
  BY DEF Init, TablesAreOlder
<1>4. WrittenSoFar /\ UnitsAreTheTables /\ pc # "hung"
  BY DEF Init, WrittenSoFar, UnitsAreTheTables
<1>5. TablesAreExtremes
  BY DEF Init, TablesAreExtremes, MaxOf, MinOf, Taken
<1> QED
  BY <1>1, <1>2, <1>3, <1>4, <1>5 DEF IInv

-----------------------------------------------------------------------------
(* The actions *)

\* What every action but the save's keeps of the flash.
LEMMA FlashKept ==
  ASSUME IInv, UNCHANGED file, day' \in Nat, day <= day'
  PROVE  FlashIsOlder' /\ Prefixes'
<1>1. day \in Nat /\ file \in [Slots -> Seq(Units)]
  BY DEF IInv, Types
<1>2. FlashIsOlder'
  <2> SUFFICES ASSUME NEW s \in Slots, NEW i \in 1 .. Len(file[s])
               PROVE  file[s][i].time < day'
    BY DEF FlashIsOlder
  <2>1. file[s][i].time < day
    BY DEF IInv, FlashIsOlder
  <2>2. file[s][i] \in Units
    BY <1>1
  <2> QED
    BY <1>1, <2>1, <2>2 DEF Units
<1> QED
  BY <1>2 DEF IInv, Prefixes

\* The times in flash are past.
LEMMA NoneOfToday == IInv => OfToday = {}
<1> SUFFICES ASSUME IInv, NEW s \in OfToday PROVE FALSE
  OBVIOUS
<1>1. s \in Slots /\ Opened(s) = day /\ Opened(s) # 0
  BY DEF OfToday, Unused
<1>2. file[s] # <<>> /\ file[s][1].time = day
  BY <1>1 DEF Opened, IInv, Types
<1>3. 1 \in 1 .. Len(file[s])
  BY <1>1, <1>2 DEF IInv, Types
<1> QED
  BY <1>1, <1>2, <1>3 DEF IInv, FlashIsOlder, Types

LEMMA BootStep == IInv /\ Boot => IInv'
<1> SUFFICES ASSUME IInv, Boot PROVE IInv'
  OBVIOUS
<1> USE PointsFacts
<1>1. Slots # {} /\ Slots \subseteq Nat
  BY DEF Slots
<1>2. OfToday = {}
  BY NoneOfToday
<1>3. pc' = "idle"
  BY <1>2 DEF Boot
<1>4. cur' \in Slots
  <2>1. Unused \cup OfToday \subseteq Slots
    BY DEF Unused, OfToday
  <2>2. \A S \in SUBSET Slots : S # {} => First(S) \in S
    BY <1>1, LeastSlot DEF First
  <2>3. \A s \in Slots : Opened(s) \in Nat
    BY UnitTimes DEF Opened
  <2>4. {s \in Slots : \A r \in Slots : Opened(s) <= Opened(r)} # {}
    BY <2>3, OldestSlot
  <2>5. Oldest \in Slots
    BY <2>2, <2>4 DEF Oldest
  <2> QED
    BY <2>1, <2>2, <2>5 DEF Boot
<1>5. Types'
  BY SMTT(30), <1>3, <1>4, ValueAssumption DEF Boot, IInv, Types, Entries
<1>6. FlashIsOlder' /\ Prefixes'
  BY FlashKept DEF Boot, IInv, Types
<1>7. TablesAreOlder'
  BY DEF Boot, TablesAreOlder, IInv, Types
<1>8. WrittenSoFar' /\ UnitsAreTheTables' /\ pc' # "hung"
  BY <1>3 DEF WrittenSoFar, UnitsAreTheTables
<1>9. TablesAreExtremes'
  BY DEF Boot, TablesAreExtremes, MaxOf, MinOf, Taken
<1> QED
  BY <1>5, <1>6, <1>7, <1>8, <1>9 DEF IInv

\* Today goes by, at work or not.
LEMMA DayStep == IInv /\ (Midnight \/ LateMidnight) => IInv'
<1> SUFFICES ASSUME IInv, Midnight \/ LateMidnight PROVE IInv'
  OBVIOUS
<1> USE PointsFacts
<1>1. day' = day + 1 /\ pc # "write" /\ pc # "save" /\ pc' # "write" /\ pc' # "hung"
  BY DEF Midnight, LateMidnight, IInv, Types
<1>2. UNCHANGED <<file, maximum, minimum, cur, unit, samples>>
  BY DEF Midnight, LateMidnight
<1>3. Types'
  BY <1>1, <1>2 DEF IInv, Types, Midnight, LateMidnight
<1>4. FlashIsOlder' /\ Prefixes'
  BY <1>1, <1>2, FlashKept DEF IInv, Types
<1>5. TablesAreOlder'
  <2> SUFFICES ASSUME NEW p \in 1 .. Points
               PROVE  /\ maximum[p].time <= day + 1 /\ minimum[p].time <= day + 1
                      /\ maximum[p].time < day + 1 /\ minimum[p].time < day + 1
    BY <1>1, <1>2 DEF TablesAreOlder
  <2>1. maximum[p].time \in Nat /\ minimum[p].time \in Nat /\ day \in Nat
    BY DEF IInv, Types, Entries
  <2>2. maximum[p].time <= day /\ minimum[p].time <= day
    BY DEF IInv, TablesAreOlder
  <2> QED
    BY <2>1, <2>2
<1>6. WrittenSoFar' /\ UnitsAreTheTables'
  BY <1>1 DEF WrittenSoFar, UnitsAreTheTables
<1>7. TablesAreExtremes'
  BY <1>2 DEF IInv, TablesAreExtremes, MaxOf, MinOf, Taken
<1> QED
  BY <1>1, <1>3, <1>4, <1>5, <1>6, <1>7 DEF IInv

\* A new sample changes an entry to the sample of now, or leaves it.
LEMMA UpdatedFacts ==
  ASSUME IInv, NEW v \in [1 .. Points -> Values], NEW table \in Entries,
         NEW S \in SUBSET (1 .. Points)
  PROVE  /\ Updated(table, v, S) \in Entries
         /\ \A p \in S : Updated(table, v, S)[p] = [time |-> day, value |-> v[p]]
         /\ \A p \in (1 .. Points) \ S : Updated(table, v, S)[p] = table[p]
<1>1. day \in Nat /\ \A p \in 1 .. Points : v[p] \in Int
  BY ValueAssumption DEF IInv, Types
<1> QED
  BY <1>1 DEF Updated, Entries

LEMMA SampleStep ==
  ASSUME IInv, NEW v \in [1 .. Points -> Values], Sample(v)
  PROVE  IInv'
<1> USE PointsFacts
<1>a. PICK Above \in SUBSET (1 .. Points) :
          /\ Above = {p \in 1 .. Points : Greater(v[p], maximum[p].value)}
          /\ \A p \in 1 .. Points : p \in Above <=> Greater(v[p], maximum[p].value)
  <2> DEFINE S == {p \in 1 .. Points : Greater(v[p], maximum[p].value)}
  <2>1. S \in SUBSET (1 .. Points) /\ \A p \in 1 .. Points : p \in S <=> Greater(v[p], maximum[p].value)
    OBVIOUS
  <2> HIDE DEF S
  <2>2. S = {p \in 1 .. Points : Greater(v[p], maximum[p].value)}
    BY DEF S
  <2> QED
    BY <2>1, <2>2
<1>b. PICK Below \in SUBSET (1 .. Points) :
          /\ Below = {p \in 1 .. Points : Less(v[p], minimum[p].value)}
          /\ \A p \in 1 .. Points : p \in Below <=> Less(v[p], minimum[p].value)
  <2> DEFINE S == {p \in 1 .. Points : Less(v[p], minimum[p].value)}
  <2>1. S \in SUBSET (1 .. Points) /\ \A p \in 1 .. Points : p \in S <=> Less(v[p], minimum[p].value)
    OBVIOUS
  <2> HIDE DEF S
  <2>2. S = {p \in 1 .. Points : Less(v[p], minimum[p].value)}
    BY DEF S
  <2> QED
    BY <2>1, <2>2
<1>1. /\ maximum \in Entries /\ minimum \in Entries
      /\ maximum' = Updated(maximum, v, Above) /\ minimum' = Updated(minimum, v, Below)
      /\ samples' = [p \in 1 .. Points |-> Append(samples[p], [time |-> day, value |-> v[p]])]
      /\ UNCHANGED <<file, cur, pc, unit, day>> /\ pc = "idle"
  BY <1>a, <1>b DEF Sample, IInv, Types
<1>2. /\ maximum' \in Entries
      /\ \A p \in Above : maximum'[p] = [time |-> day, value |-> v[p]]
      /\ \A p \in (1 .. Points) \ Above : maximum'[p] = maximum[p]
  <2>1. v \in [1 .. Points -> Values] /\ maximum \in Entries /\ Above \in SUBSET (1 .. Points)
    BY <1>1
  <2>2. /\ Updated(maximum, v, Above) \in Entries
        /\ \A p \in Above : Updated(maximum, v, Above)[p] = [time |-> day, value |-> v[p]]
        /\ \A p \in (1 .. Points) \ Above : Updated(maximum, v, Above)[p] = maximum[p]
    BY <2>1, UpdatedFacts
  <2> QED
    BY <1>1, <2>2
<1>3. /\ minimum' \in Entries
      /\ \A p \in Below : minimum'[p] = [time |-> day, value |-> v[p]]
      /\ \A p \in (1 .. Points) \ Below : minimum'[p] = minimum[p]
  <2>1. v \in [1 .. Points -> Values] /\ minimum \in Entries /\ Below \in SUBSET (1 .. Points)
    BY <1>1
  <2>2. /\ Updated(minimum, v, Below) \in Entries
        /\ \A p \in Below : Updated(minimum, v, Below)[p] = [time |-> day, value |-> v[p]]
        /\ \A p \in (1 .. Points) \ Below : Updated(minimum, v, Below)[p] = minimum[p]
    BY <2>1, UpdatedFacts
  <2> QED
    BY <1>1, <2>2
<1>4. samples \in [1 .. Points -> Seq(Taking)] /\ day \in Nat
  BY DEF IInv, Types
<1>c. \A p \in 1 .. Points : [time |-> day, value |-> v[p]] \in Taking
  BY <1>4 DEF Taking
<1>5. samples' \in [1 .. Points -> Seq(Taking)]
  BY <1>1, <1>4, <1>c
<1>6. Types'
  BY <1>1, <1>2, <1>3, <1>5 DEF IInv, Types
<1>7. FlashIsOlder' /\ Prefixes'
  BY <1>1, <1>4, FlashKept
<1>8. TablesAreOlder'
  <2> SUFFICES ASSUME NEW p \in 1 .. Points
               PROVE  maximum'[p].time <= day /\ minimum'[p].time <= day
    BY <1>1 DEF TablesAreOlder
  <2>a. [time |-> day, value |-> v[p]].time = day
    OBVIOUS
  <2>1. maximum[p].time <= day /\ minimum[p].time <= day
    BY DEF IInv, TablesAreOlder
  <2>2. maximum'[p].time <= day
    <3>1. CASE p \in Above
      <4>1. maximum'[p] = [time |-> day, value |-> v[p]]
        BY <1>2, <3>1
      <4>2. maximum'[p].time = day
        BY Zenon, <2>a, <4>1
      <4> QED
        BY <1>4, <4>2
    <3>2. CASE p \notin Above
      BY <1>2, <2>1, <3>2
    <3> QED
      BY <3>1, <3>2
  <2>3. minimum'[p].time <= day
    <3>1. CASE p \in Below
      <4>1. minimum'[p] = [time |-> day, value |-> v[p]]
        BY <1>3, <3>1
      <4>2. minimum'[p].time = day
        BY Zenon, <2>a, <4>1
      <4> QED
        BY <1>4, <4>2
    <3>2. CASE p \notin Below
      BY <1>3, <2>1, <3>2
    <3> QED
      BY <3>1, <3>2
  <2> QED
    BY <2>2, <2>3
<1>9. WrittenSoFar' /\ UnitsAreTheTables' /\ pc' # "hung"
  BY <1>1 DEF WrittenSoFar, UnitsAreTheTables
<1>10. TablesAreExtremes'
  <2> SUFFICES ASSUME NEW p \in 1 .. Points
               PROVE  MaxOf(p)' /\ MinOf(p)'
    BY DEF TablesAreExtremes
  <2> DEFINE new == [time |-> day, value |-> v[p]]
  <2>1. Taken(p)' = Taken(p) \cup {new}
    <3>1. samples'[p] = Append(samples[p], new) /\ samples[p] \in Seq(Taking) /\ new \in Taking
      BY <1>1, <1>4, <1>c
    <3> HIDE DEF new
    <3>2. /\ Len(samples'[p]) = Len(samples[p]) + 1
          /\ \A i \in 1 .. Len(samples[p]) : samples'[p][i] = samples[p][i]
          /\ samples'[p][Len(samples[p]) + 1] = new
          /\ Len(samples[p]) \in Nat
      BY <3>1, AppendFacts
    <3>3. 1 .. Len(samples'[p]) = (1 .. Len(samples[p])) \cup {Len(samples[p]) + 1}
      BY <3>2
    <3>4. ASSUME NEW x
          PROVE  x \in Taken(p)' <=> x \in Taken(p) \cup {new}
      <4>1. x \in Taken(p)' <=> \E i \in 1 .. Len(samples'[p]) : samples'[p][i] = x
        BY DEF Taken
      <4>2. x \in Taken(p) <=> \E i \in 1 .. Len(samples[p]) : samples[p][i] = x
        BY DEF Taken
      <4> QED
        BY <3>2, <3>3, <4>1, <4>2
    <3> QED
      BY <3>4
  <2>2. \A s \in Taken(p) : s.time \in Nat /\ Abs(s.value) \in Nat
    <3>1. \A i \in 1 .. Len(samples[p]) : samples[p][i] \in Taking
      BY <1>4
    <3>2. \A s \in Taking : s.time \in Nat /\ s.value \in Int
      BY ValueAssumption DEF Taking
    <3> QED
      BY <3>1, <3>2, AbsFacts DEF Taken
  <2>3. /\ new.time = day /\ new.value = v[p] /\ Abs(v[p]) \in Nat
        /\ maximum[p].time \in Nat /\ Abs(maximum[p].value) \in Nat
        /\ minimum[p].time \in Nat /\ Abs(minimum[p].value) \in Nat
        /\ maximum[p].time <= day /\ minimum[p].time <= day
    <3>1. v[p] \in Int /\ maximum[p].value \in Int /\ minimum[p].value \in Int
      BY <1>1, ValueAssumption DEF Entries
    <3>2. maximum[p].time \in Nat /\ minimum[p].time \in Nat
      BY <1>1 DEF Entries
    <3>3. maximum[p].time <= day /\ minimum[p].time <= day
      BY DEF IInv, TablesAreOlder
    <3> QED
      BY <3>1, <3>2, <3>3, AbsFacts
  <2> HIDE DEF new
  <2>4. MaxOf(p) /\ MinOf(p)
    BY DEF IInv, TablesAreExtremes
  <2>5. MaxOf(p)'
    <3>1. CASE p \in Above
      <4>1. Abs(v[p]) > Abs(maximum[p].value)
        BY <1>a, <3>1 DEF Greater
      <4>2. maximum'[p] = new
        BY <1>2, <3>1 DEF new
      <4>3. \A s \in Taken(p) : Abs(s.value) < Abs(v[p])
        BY <2>2, <2>3, <2>4, <4>1 DEF MaxOf
      <4>4. \A s \in Taken(p)' : /\ Abs(s.value) <= Abs(new.value)
                                 /\ Abs(s.value) = Abs(new.value) => new.time <= s.time
        BY <1>4, <2>1, <2>2, <2>3, <4>3
      <4> QED
        BY <2>1, <4>2, <4>4 DEF MaxOf
    <3>2. CASE p \notin Above
      <4>1. ~(Abs(v[p]) > Abs(maximum[p].value))
        BY <1>a, <3>2 DEF Greater
      <4>2. maximum'[p] = maximum[p]
        BY <1>2, <3>2
      <4>3. \A s \in Taken(p)' : /\ Abs(s.value) <= Abs(maximum[p].value)
                                 /\ Abs(s.value) = Abs(maximum[p].value) => maximum[p].time <= s.time
        BY <2>1, <2>3, <2>4, <4>1 DEF MaxOf
      <4> QED
        BY <2>1, <2>4, <4>2, <4>3 DEF MaxOf
    <3> QED
      BY <3>1, <3>2
  <2>6. MinOf(p)'
    <3>1. CASE p \in Below
      <4>1. Abs(v[p]) < Abs(minimum[p].value)
        BY <1>b, <3>1 DEF Less
      <4>2. minimum'[p] = new
        BY <1>3, <3>1 DEF new
      <4>3. \A s \in Taken(p) : Abs(v[p]) < Abs(s.value)
        BY <2>2, <2>3, <2>4, <4>1 DEF MinOf
      <4>4. \A s \in Taken(p)' : /\ Abs(new.value) <= Abs(s.value)
                                 /\ Abs(s.value) = Abs(new.value) => new.time <= s.time
        BY <1>4, <2>1, <2>2, <2>3, <4>3
      <4> QED
        BY <2>1, <4>2, <4>4 DEF MinOf
    <3>2. CASE p \notin Below
      <4>1. ~(Abs(v[p]) < Abs(minimum[p].value))
        BY <1>b, <3>2 DEF Less
      <4>2. minimum'[p] = minimum[p]
        BY <1>3, <3>2
      <4>3. \A s \in Taken(p)' : /\ Abs(minimum[p].value) <= Abs(s.value)
                                 /\ Abs(s.value) = Abs(minimum[p].value) => minimum[p].time <= s.time
        BY <2>1, <2>3, <2>4, <4>1 DEF MinOf
      <4> QED
        BY <2>1, <2>4, <4>2, <4>3 DEF MinOf
    <3> QED
      BY <3>1, <3>2
  <2> QED
    BY <2>5, <2>6
<1> QED
  BY <1>6, <1>7, <1>8, <1>9, <1>10 DEF IInv

LEMMA SaveStartStep == IInv /\ SaveStart => IInv'
<1> SUFFICES ASSUME IInv, SaveStart PROVE IInv'
  OBVIOUS
<1> USE PointsFacts
<1>1. /\ file' = [file EXCEPT ![cur] = <<>>] /\ unit' = 1 /\ pc' = "write" /\ pc = "save"
      /\ UNCHANGED <<maximum, minimum, cur, day, samples>>
  BY DEF SaveStart
<1>2. file \in [Slots -> Seq(Units)] /\ cur \in Slots
  BY DEF IInv, Types
<1>3. file'[cur] = <<>> /\ \A s \in Slots \ {cur} : file'[s] = file[s]
  BY <1>1, <1>2
<1>4. file' \in [Slots -> Seq(Units)]
  <2>1. <<>> \in Seq(Units)
    OBVIOUS
  <2> QED
    BY <1>1, <1>2, <2>1
<1>5. Types'
  BY <1>1, <1>4 DEF IInv, Types
<1>6. FlashIsOlder'
  <2> SUFFICES ASSUME NEW s \in Slots, NEW i \in 1 .. Len(file'[s])
               PROVE  file'[s][i].time < day
    BY <1>1 DEF FlashIsOlder
  <2>1. s # cur
    BY <1>3
  <2> QED
    BY <1>3, <2>1 DEF IInv, FlashIsOlder
<1>7. Prefixes'
  <2> SUFFICES ASSUME NEW s \in Slots
               PROVE  /\ Len(file'[s]) <= Total
                      /\ \A i \in 1 .. Len(file'[s]) : file'[s][i].type = TypeOf(i)
    BY DEF Prefixes, TypeOf, Total
  <2>1. CASE s = cur
    BY <1>3, <2>1
  <2>2. CASE s # cur
    BY <1>3, <2>2 DEF IInv, Prefixes
  <2> QED
    BY <2>1, <2>2
<1>8. TablesAreOlder'
  BY <1>1 DEF IInv, TablesAreOlder
<1>9. WrittenSoFar' /\ UnitsAreTheTables' /\ pc' # "hung"
  BY <1>1, <1>3 DEF WrittenSoFar, UnitsAreTheTables
<1>10. TablesAreExtremes'
  BY <1>1 DEF IInv, TablesAreExtremes, MaxOf, MinOf, Taken
<1> QED
  BY <1>5, <1>6, <1>7, <1>8, <1>9, <1>10 DEF IInv

\* The unit that is written next: its type, its time, and where it is from.
LEMMA UnitFacts ==
  ASSUME IInv, pc = "write", NEW i \in 1 .. Total
  PROVE  /\ Unit(i) \in Units /\ Unit(i).type = TypeOf(i) /\ Unit(i).time < day
         /\ i = 1 => Unit(i).time = maximum[1].time
         /\ i \in 2 .. Points + 1 => Unit(i) = Extreme(MaximumType, maximum[i - 1])
         /\ i \in Points + 3 .. Total - 1 => Unit(i) = Extreme(MinimumType, minimum[i - Points - 2])
<1> USE PointsFacts
<1>1. \A p \in 1 .. Points : /\ maximum[p].time \in Nat /\ maximum[p].value \in Int
                             /\ minimum[p].time \in Nat /\ minimum[p].value \in Int
                             /\ maximum[p].time < day /\ minimum[p].time < day
  BY DEF IInv, Types, Entries, TablesAreOlder
<1> DEFINE Good(u) == u \in Units /\ u.time < day
<1>2. /\ Good(Mark(EXTREME_MAX_MARK)) /\ Mark(EXTREME_MAX_MARK).type = EXTREME_MAX_MARK
      /\ Good(Mark(EXTREME_MIN_MARK)) /\ Mark(EXTREME_MIN_MARK).type = EXTREME_MIN_MARK
      /\ Good(Mark(EXTREME_EOF_MARK)) /\ Mark(EXTREME_EOF_MARK).type = EXTREME_EOF_MARK
  <2>1. 1 \in 1 .. Points
    OBVIOUS
  <2>2. maximum[1].time \in Nat /\ maximum[1].time < day
    BY <1>1, <2>1
  <2>3. ASSUME NEW type \in Kinds
        PROVE  [type |-> type, time |-> maximum[1].time] \in Units
    BY <2>2 DEF Units
  <2>4. Good(Mark(EXTREME_MAX_MARK)) /\ Good(Mark(EXTREME_MIN_MARK)) /\ Good(Mark(EXTREME_EOF_MARK))
    <3>1. \A type \in Kinds : [type |-> type, time |-> maximum[1].time].time < day
      BY <2>2
    <3>2. \A type \in Kinds : Mark(type) \in Units /\ Mark(type).time < day
      BY <2>3, <3>1 DEF Mark
    <3>3. EXTREME_MAX_MARK \in Kinds /\ EXTREME_MIN_MARK \in Kinds /\ EXTREME_EOF_MARK \in Kinds
      BY DEF Kinds
    <3> QED
      BY <3>2, <3>3
  <2> QED
    BY <2>4 DEF Mark
<1>3. ASSUME NEW p \in 1 .. Points
      PROVE  /\ Good(Extreme(MaximumType, maximum[p])) /\ Extreme(MaximumType, maximum[p]).type = MaximumType
             /\ Good(Extreme(MinimumType, minimum[p])) /\ Extreme(MinimumType, minimum[p]).type = MinimumType
  <2>1. ASSUME NEW type \in Kinds, NEW time \in Nat, NEW value \in Int
        PROVE  [type |-> type, time |-> time, value |-> value] \in Units
    BY DEF Units
  <2>2. Good(Extreme(MaximumType, maximum[p])) /\ Good(Extreme(MinimumType, minimum[p]))
    <3>1. \A entry \in {maximum[p], minimum[p]} :
              entry.time \in Nat /\ entry.value \in Int /\ entry.time < day
      BY <1>1
    <3>2. \A type \in Kinds, entry \in {maximum[p], minimum[p]} :
              Extreme(type, entry) \in Units /\ Extreme(type, entry).time < day
      BY <2>1, <3>1 DEF Extreme
    <3>3. MaximumType \in Kinds /\ MinimumType \in Kinds
      BY DEF Kinds
    <3> QED
      BY <3>2, <3>3
  <2> QED
    BY <2>2 DEF Extreme
<1>4. Good(Unit(i)) /\ Unit(i).type = TypeOf(i)
  <2> HIDE DEF Good
  <2>1. CASE i = 1
    <3>1. Unit(i) = Mark(EXTREME_MAX_MARK) /\ TypeOf(i) = EXTREME_MAX_MARK
      BY <2>1 DEF Unit, TypeOf
    <3> QED
      BY <1>2, <3>1
  <2>2. CASE i \in 2 .. Points + 1
    <3>1. i # 1 /\ i - 1 \in 1 .. Points
      BY <2>2
    <3>2. Unit(i) = Extreme(MaximumType, maximum[i - 1]) /\ TypeOf(i) = MaximumType
      BY <2>2, <3>1 DEF Unit, TypeOf
    <3> QED
      BY <1>3, <3>1, <3>2
  <2>3. CASE i = Points + 2
    <3>1. Unit(i) = Mark(EXTREME_MIN_MARK) /\ TypeOf(i) = EXTREME_MIN_MARK
      BY <2>3 DEF Unit, TypeOf
    <3> QED
      BY <1>2, <3>1
  <2>4. CASE i \in Points + 3 .. Total - 1
    <3>1. i - Points - 2 \in 1 .. Points
      BY <2>4
    <3>2. i # 1 /\ i \notin 2 .. Points + 1 /\ i # Points + 2 /\ i # Total
      BY <2>4
    <3>3. Unit(i) = Extreme(MinimumType, minimum[i - Points - 2]) /\ TypeOf(i) = MinimumType
      BY <2>4, <3>2 DEF Unit, TypeOf
    <3> QED
      BY <1>3, <3>1, <3>3
  <2>5. CASE i = Total
    <3>1. i # 1 /\ i \notin 2 .. Points + 1 /\ i # Points + 2 /\ i \notin Points + 3 .. Total - 1
      BY <2>5
    <3>2. Unit(i) = Mark(EXTREME_EOF_MARK) /\ TypeOf(i) = EXTREME_EOF_MARK
      BY <2>5, <3>1 DEF Unit, TypeOf
    <3> QED
      BY <1>2, <3>2
  <2> QED
    BY <2>1, <2>2, <2>3, <2>4, <2>5
<1>5. i \in 2 .. Points + 1 => Unit(i) = Extreme(MaximumType, maximum[i - 1])
  BY DEF Unit
<1>6. i \in Points + 3 .. Total - 1 => Unit(i) = Extreme(MinimumType, minimum[i - Points - 2])
  BY DEF Unit
<1>7. i = 1 => Unit(i).time = maximum[1].time
  BY DEF Unit, Mark
<1> QED
  BY <1>4, <1>5, <1>6, <1>7

LEMMA SaveUnitStep == IInv /\ SaveUnit => IInv'
<1> SUFFICES ASSUME IInv, SaveUnit PROVE IInv'
  OBVIOUS
<1> USE PointsFacts
<1>1. /\ pc = "write" /\ unit <= Total /\ unit' = unit + 1
      /\ UNCHANGED <<maximum, minimum, cur, pc, day, samples>>
  BY DEF SaveUnit
<1>2. file \in [Slots -> Seq(Units)] /\ cur \in Slots /\ unit \in 1 .. Total /\ day \in Nat
  BY <1>1 DEF IInv, Types
<1>3. Len(file[cur]) = unit - 1 /\ file[cur] \in Seq(Units)
  BY <1>1, <1>2 DEF IInv, WrittenSoFar
<1>4. file' = [file EXCEPT ![cur] = Append(file[cur], Unit(unit))]
  <2>1. Len(file[cur]) < Capacity
    BY <1>2, <1>3 DEF Capacity
  <2> QED
    BY <1>2, <2>1 DEF SaveUnit
<1>5. /\ Unit(unit) \in Units /\ Unit(unit).type = TypeOf(unit) /\ Unit(unit).time < day
      /\ unit = 1 => Unit(unit).time = maximum[1].time
      /\ unit \in 2 .. Points + 1 => Unit(unit) = Extreme(MaximumType, maximum[unit - 1])
      /\ unit \in Points + 3 .. Total - 1 => Unit(unit) = Extreme(MinimumType, minimum[unit - Points - 2])
  BY <1>1, <1>2, UnitFacts
<1>6. /\ Append(file[cur], Unit(unit)) \in Seq(Units)
      /\ Len(Append(file[cur], Unit(unit))) = unit
      /\ Append(file[cur], Unit(unit))[unit] = Unit(unit)
      /\ \A i \in 1 .. unit - 1 : Append(file[cur], Unit(unit))[i] = file[cur][i]
  BY <1>2, <1>3, <1>5
<1>7. /\ \A s \in Slots \ {cur} : file'[s] = file[s]
      /\ file'[cur] \in Seq(Units) /\ Len(file'[cur]) = unit /\ file'[cur][unit] = Unit(unit)
      /\ \A i \in 1 .. unit - 1 : file'[cur][i] = file[cur][i]
  BY <1>2, <1>4, <1>6
<1>8. file' \in [Slots -> Seq(Units)]
  BY <1>2, <1>4, <1>6
<1>9. Types'
  BY <1>1, <1>2, <1>8 DEF IInv, Types
<1>10. FlashIsOlder'
  <2> SUFFICES ASSUME NEW s \in Slots, NEW i \in 1 .. Len(file'[s])
               PROVE  file'[s][i].time < day
    BY <1>1 DEF FlashIsOlder
  <2>1. CASE s # cur
    BY <1>7, <2>1 DEF IInv, FlashIsOlder
  <2>2. CASE s = cur /\ i = unit
    BY <1>5, <1>7, <2>2
  <2>3. CASE s = cur /\ i # unit
    <3>1. i \in 1 .. unit - 1
      BY <1>2, <1>7, <2>3
    <3>2. file[cur][i].time < day
      BY <1>2, <1>3, <3>1 DEF IInv, FlashIsOlder
    <3> QED
      BY <1>7, <2>3, <3>1, <3>2
  <2> QED
    BY <2>1, <2>2, <2>3
<1>11. Prefixes'
  <2> SUFFICES ASSUME NEW s \in Slots
               PROVE  /\ Len(file'[s]) <= Total
                      /\ \A i \in 1 .. Len(file'[s]) : file'[s][i].type = TypeOf(i)
    BY DEF Prefixes, TypeOf, Total
  <2>1. CASE s # cur
    BY <1>7, <2>1 DEF IInv, Prefixes
  <2>2. CASE s = cur
    <3>1. ASSUME NEW i \in 1 .. unit
          PROVE  file'[cur][i].type = TypeOf(i)
      <4>1. CASE i = unit
        BY <1>5, <1>7, <4>1
      <4>2. CASE i # unit
        <5>1. i \in 1 .. unit - 1
          BY <1>2, <4>2
        <5>2. file[cur][i].type = TypeOf(i)
          BY <1>2, <1>3, <5>1 DEF IInv, Prefixes
        <5> QED
          BY <1>7, <5>1, <5>2
      <4> QED
        BY <4>1, <4>2
    <3> QED
      BY <1>1, <1>7, <2>2, <3>1
  <2> QED
    BY <2>1, <2>2
<1>12. TablesAreOlder'
  BY <1>1 DEF IInv, TablesAreOlder
<1>13. WrittenSoFar' /\ pc' # "hung"
  BY <1>1, <1>2, <1>7 DEF WrittenSoFar
<1>14. TablesAreExtremes'
  BY <1>1 DEF IInv, TablesAreExtremes, MaxOf, MinOf, Taken
<1>15. UnitsAreTheTables'
  <2> SUFFICES ASSUME NEW i \in 1 .. unit
               PROVE  /\ i = 1 => file'[cur][i].time = maximum[1].time
                      /\ i \in 2 .. Points + 1 => file'[cur][i] = Extreme(MaximumType, maximum[i - 1])
                      /\ i \in Points + 3 .. Total - 1 =>
                             file'[cur][i] = Extreme(MinimumType, minimum[i - Points - 2])
    BY <1>1, <1>7 DEF UnitsAreTheTables, Extreme
  <2>1. CASE i = unit
    BY <1>5, <1>7, <2>1
  <2>2. CASE i # unit
    <3>1. i \in 1 .. unit - 1
      BY <1>2, <2>2
    <3>2. /\ i = 1 => file[cur][i].time = maximum[1].time
          /\ i \in 2 .. Points + 1 => file[cur][i] = Extreme(MaximumType, maximum[i - 1])
          /\ i \in Points + 3 .. Total - 1 =>
                 file[cur][i] = Extreme(MinimumType, minimum[i - Points - 2])
      BY <1>1, <1>3, <3>1 DEF IInv, UnitsAreTheTables
    <3> QED
      BY <1>7, <3>1, <3>2
  <2> QED
    BY <2>1, <2>2
<1> QED
  BY <1>9, <1>10, <1>11, <1>12, <1>13, <1>14, <1>15 DEF IInv

LEMMA SaveEndStep == IInv /\ SaveEnd => IInv'
<1> SUFFICES ASSUME IInv, SaveEnd PROVE IInv'
  OBVIOUS
<1> USE PointsFacts
<1>1. pc = "write" /\ unit > Total /\ UNCHANGED <<file, unit, day>>
  BY DEF SaveEnd
<1>2. unit \in 1 .. Total + 1 /\ cur \in Slots /\ day \in Nat
  BY DEF IInv, Types
<1>3. Len(file[cur]) = Total
  <2>1. Len(file[cur]) = unit - 1
    BY <1>1 DEF IInv, WrittenSoFar
  <2> QED
    BY <1>1, <1>2, <2>1
<1>4. Reset /\ cur' = NextSlot /\ pc' = "idle"
  BY <1>3 DEF SaveEnd
<1>5. cur' \in Slots
  BY <1>2, <1>4 DEF Slots, NextSlot
<1>6. /\ maximum' \in Entries /\ minimum' \in Entries
      /\ \A p \in 1 .. Points : /\ maximum'[p].time = maximum[p].time
                                /\ minimum'[p].time = minimum[p].time
                                /\ maximum'[p].value = FltMin /\ minimum'[p].value = FltMax
  <2>1. /\ maximum' = [p \in 1 .. Points |-> [maximum[p] EXCEPT !.value = FltMin]]
        /\ minimum' = [p \in 1 .. Points |-> [minimum[p] EXCEPT !.value = FltMax]]
    BY <1>4 DEF Reset
  <2>2. maximum \in Entries /\ minimum \in Entries /\ FltMin \in Int /\ FltMax \in Int
    BY ValueAssumption DEF IInv, Types
  <2>3. ASSUME NEW p \in 1 .. Points
        PROVE  /\ maximum'[p] \in [time : Nat, value : Int] /\ minimum'[p] \in [time : Nat, value : Int]
               /\ maximum'[p].time = maximum[p].time /\ minimum'[p].time = minimum[p].time
               /\ maximum'[p].value = FltMin /\ minimum'[p].value = FltMax
    BY <2>1, <2>2 DEF Entries
  <2>4. maximum' \in Entries /\ minimum' \in Entries
    BY <2>1, <2>3 DEF Entries
  <2> QED
    BY <2>3, <2>4
<1>7. samples' = [p \in 1 .. Points |-> <<>>]
  BY <1>4 DEF Reset
<1>8. Types'
  BY <1>1, <1>4, <1>5, <1>6, <1>7 DEF IInv, Types
<1>9. FlashIsOlder' /\ Prefixes'
  BY <1>1, <1>2, FlashKept
<1>10. TablesAreOlder'
  BY <1>1, <1>4, <1>6 DEF IInv, TablesAreOlder
<1>11. WrittenSoFar' /\ UnitsAreTheTables' /\ pc' # "hung"
  BY <1>4 DEF WrittenSoFar, UnitsAreTheTables
<1>12. TablesAreExtremes'
  BY <1>6, <1>7 DEF TablesAreExtremes, MaxOf, MinOf, Taken
<1> QED
  BY <1>8, <1>9, <1>10, <1>11, <1>12 DEF IInv

LEMMA PowerOffStep == IInv /\ PowerOff => IInv'
<1> SUFFICES ASSUME IInv, PowerOff PROVE IInv'
  OBVIOUS
<1>1. pc' = "off" /\ UNCHANGED <<file, maximum, minimum, cur, unit, day, samples>>
  BY DEF PowerOff
<1>2. Types'
  BY <1>1 DEF IInv, Types
<1>5. FlashIsOlder' /\ Prefixes'
  BY <1>1 DEF IInv, FlashIsOlder, Prefixes
<1>3. TablesAreOlder' /\ TablesAreExtremes'
  BY <1>1 DEF IInv, TablesAreOlder, TablesAreExtremes, MaxOf, MinOf, Taken
<1>4. WrittenSoFar' /\ UnitsAreTheTables' /\ pc' # "hung"
  BY <1>1 DEF WrittenSoFar, UnitsAreTheTables
<1> QED
  BY <1>2, <1>3, <1>4, <1>5 DEF IInv

LEMMA StutterStep == IInv /\ UNCHANGED vars => IInv'
  BY DEF vars, IInv, Types, FlashIsOlder, TablesAreOlder, Prefixes, WrittenSoFar,
         TablesAreExtremes, MaxOf, MinOf, Taken, UnitsAreTheTables, Extreme

-----------------------------------------------------------------------------
(* The theorems *)

\* The invariant holds in every state the program can be in: what the theorems
\* below rest on.
THEOREM ExtremesInductive == Spec => []IInv
<1>1. IInv /\ [Next]_vars => IInv'
  BY BootStep, DayStep, SampleStep, SaveStartStep, SaveUnitStep, SaveEndStep,
     PowerOffStep, StutterStep DEF Next
<1> QED
  BY InitInv, <1>1, PTL DEF Spec

\* No assertion fails at a boot or at the end of a save (fsmid_app.cpp, the
\* selection of the extreme log; fsmid_point.cpp, FSMID_SaveExtremeLog).
THEOREM NoAssertionFails == Spec => []AssertionsHold
<1>1. IInv => AssertionsHold
  BY DEF IInv, AssertionsHold
<1> QED
  BY ExtremesInductive, <1>1, PTL

\* A file with an EOF mark is whole, wherever the power failed before.
THEOREM EofIsLast == Spec => []EofMeansWhole
<1>1. IInv => EofMeansWhole
  <2> SUFFICES ASSUME IInv, NEW s \in Slots, NEW i \in 1 .. Len(file[s]),
                      file[s][i].type = EXTREME_EOF_MARK
               PROVE  /\ i = Total
                      /\ file[s][1].type = EXTREME_MAX_MARK
                      /\ file[s][Points + 2].type = EXTREME_MIN_MARK
    BY DEF EofMeansWhole
  <2> USE PointsFacts
  <2>1. Len(file[s]) \in Nat
    BY DEF IInv, Types
  <2>2. Len(file[s]) <= Total /\ \A j \in 1 .. Len(file[s]) : file[s][j].type = TypeOf(j)
    BY DEF IInv, Prefixes
  <2>3. TypeOf(i) = EXTREME_EOF_MARK
    BY <2>2
  <2>4. i = Total
    <3>1. i \in Nat /\ i <= Total
      BY <2>1, <2>2
    <3>2. ~(i < Total)
      BY <2>3, TypesDiffer DEF TypeOf
    <3> QED
      BY <3>1, <3>2
  <2>5. 1 \in 1 .. Len(file[s]) /\ Points + 2 \in 1 .. Len(file[s])
    BY <2>1, <2>2, <2>4
  <2>6. TypeOf(1) = EXTREME_MAX_MARK /\ TypeOf(Points + 2) = EXTREME_MIN_MARK
    BY DEF TypeOf
  <2> QED
    BY <2>2, <2>4, <2>5, <2>6
<1> QED
  BY ExtremesInductive, <1>1, PTL

\* What FSMID_SaveExtremeLog has written, when it is complete, are the extremes of
\* the samples since the last reset, the earliest of equals, each with its time, for
\* every set of points and samples; and the file is stamped with the time of the
\* first point's maximum.
THEOREM ExtremesSaved == Spec => []SavesExtremes
<1>1. IInv => SavesExtremes
  <2> SUFFICES ASSUME IInv, pc = "write", unit > Total, Len(file[cur]) = Total
               PROVE  /\ \A p \in 1 .. Points :
                             LET max == Saved(p + 1)
                                 min == Saved(Points + 2 + p)
                             IN  /\ max \in Taken(p) \/ max.value = FltMin
                                 /\ min \in Taken(p) \/ min.value = FltMax
                                 /\ \A s \in Taken(p) :
                                        /\ Abs(min.value) <= Abs(s.value)
                                        /\ Abs(s.value) <= Abs(max.value)
                                        /\ Abs(s.value) = Abs(max.value) => max.time <= s.time
                                        /\ Abs(s.value) = Abs(min.value) => min.time <= s.time
                      /\ Opened(cur) = Saved(2).time
    BY DEF SavesExtremes
  <2> USE PointsFacts
  <2>1. ASSUME NEW p \in 1 .. Points
        PROVE  Saved(p + 1) = maximum[p] /\ Saved(Points + 2 + p) = minimum[p]
    <3>1. /\ p + 1 \in 1 .. Total /\ p + 1 \in 2 .. Points + 1 /\ (p + 1) - 1 = p
          /\ Points + 2 + p \in 1 .. Total /\ Points + 2 + p \in Points + 3 .. Total - 1
          /\ (Points + 2 + p) - Points - 2 = p
      OBVIOUS
    <3>2. /\ file[cur][p + 1] = Extreme(MaximumType, maximum[p])
          /\ file[cur][Points + 2 + p] = Extreme(MinimumType, minimum[p])
      BY <3>1 DEF IInv, UnitsAreTheTables
    <3>3. maximum[p] \in [time : Nat, value : Int] /\ minimum[p] \in [time : Nat, value : Int]
      BY DEF IInv, Types, Entries
    <3>4. \A type : \A e \in [time : Nat, value : Int] :
              [time |-> Extreme(type, e).time, value |-> Extreme(type, e).value] = e
      BY DEF Extreme
    <3> QED
      BY <3>2, <3>3, <3>4 DEF Saved
  <2>2. \A p \in 1 .. Points : MaxOf(p) /\ MinOf(p)
    BY DEF IInv, TablesAreExtremes
  <2>3. Opened(cur) = Saved(2).time
    <3>1. file[cur] \in Seq(Units) /\ 1 \in 1 .. Len(file[cur]) /\ 1 \in 1 .. Points
      BY DEF IInv, Types
    <3>2. Opened(cur) = file[cur][1].time
      BY <3>1 DEF Opened
    <3>3. file[cur][1].time = maximum[1].time
      BY <3>1 DEF IInv, UnitsAreTheTables
    <3> QED
      BY <2>1, <3>1, <3>2, <3>3
  <2> QED
    BY <2>1, <2>2, <2>3 DEF MaxOf, MinOf
<1> QED
  BY ExtremesInductive, <1>1, PTL

-----------------------------------------------------------------------------
(* The order of the files.  The saves go round the table, wherever they are *)
(* cut short: a boot selects the file after that of the last save, or that  *)
(* file again if the save wrote nothing.                                    *)

\* How far file s is behind file c in the table; c itself is a whole round behind.
Behind(c, s) == IF s < c THEN c - s ELSE c + N - s

\* In flash f, after the saves of the days at: file c is the next, the files behind
\* it are in the order of their days, and one d behind it is not of the last d - 1 of
\* the first n saves.  Files that were never used follow from c on.
Order(f, at, c, n) ==
    /\ \A s \in Slots : f[s] # <<>> =>
           \E k \in 1 .. Len(at) : f[s][1].time = at[k] /\ k + Behind(c, s) <= n + 1
    /\ \A s, r \in Slots : f[s] # <<>> /\ f[r] # <<>> /\ Behind(c, s) < Behind(c, r) =>
           f[r][1].time < f[s][1].time
    /\ \A s \in Slots : f[s] = <<>> =>
           s >= c /\ \A r \in Slots : c <= r /\ r <= s => f[r] = <<>>

\* The last N saves that were finished are in the files.
KeptDays(f, at, fin) ==
    \A k \in fin : k + N > Len(at) =>
        \E s \in Slots : Len(f[s]) = Total /\ f[s][1].time = at[k]

\* The days of the saves are in order, and past.
DaysOf(at, d) ==
    /\ at \in Seq(Nat \ {0})
    /\ \A k \in 1 .. Len(at) : at[k] < d
    /\ \A j, k \in 1 .. Len(at) : j < k => at[j] < at[k]

Days ==
    /\ DaysOf(attempts, day)
    /\ pc = "save" => day - 1 \in Nat \ {0} /\ DaysOf(attempts, day - 1)
    /\ pc = "write" => Len(attempts) # 0
    /\ finished \subseteq 1 .. Len(attempts)
    /\ skewed \in BOOLEAN

\* Which file is the next, at every point of a save.
FilesInOrder ==
    ~skewed =>
        /\ pc = "off" => \E c \in Slots : Order(file, attempts, c, Len(attempts))
        /\ pc \in {"idle", "save"} => Order(file, attempts, cur, Len(attempts))
        /\ pc = "write" =>
               /\ maximum[1].time = attempts[Len(attempts)]
               /\ unit = 1 => Order(file, attempts, cur, Len(attempts) - 1)
               /\ unit # 1 => /\ Order(file, attempts, NextSlot, Len(attempts))
                              /\ file[cur][1].time = attempts[Len(attempts)]
        /\ KeptDays(file, attempts, finished)

KInv == IInv /\ Days /\ FilesInOrder

\* Going on to the next file, all others are one further behind.
LEMMA BehindFacts ==
  ASSUME NEW c \in Slots, NEW s \in Slots
  PROVE  /\ Behind(c, s) \in Nat /\ Behind(c, s) >= 1 /\ Behind(c, s) <= N
         /\ Behind(c, c) = N /\ (s # c => Behind(c, s) < N)
         /\ (c + 1) % N \in Slots
         /\ (c + 1) % N = IF c + 1 = N THEN 0 ELSE c + 1
         /\ Behind((c + 1) % N, c) = 1
         /\ s # c => Behind((c + 1) % N, s) = Behind(c, s) + 1
<1> USE PointsFacts
<1>1. c \in Nat /\ s \in Nat /\ c < N /\ s < N
  BY DEF Slots
<1>2. (c + 1) % N = IF c + 1 = N THEN 0 ELSE c + 1
  BY <1>1
<1>3. (c + 1) % N \in Slots
  BY <1>1, <1>2 DEF Slots
<1> QED
  BY <1>1, <1>2, <1>3 DEF Behind

\* The order is that of the first units.
LEMMA OrderOfHeads ==
  ASSUME NEW f, NEW g, NEW at, NEW c, NEW n,
         \A s \in Slots : /\ g[s] = <<>> <=> f[s] = <<>>
                          /\ f[s] # <<>> => g[s][1] = f[s][1],
         Order(f, at, c, n)
  PROVE  Order(g, at, c, n)
<1>1. ASSUME NEW s \in Slots, g[s] # <<>>
      PROVE  \E k \in 1 .. Len(at) : g[s][1].time = at[k] /\ k + Behind(c, s) <= n + 1
  BY <1>1 DEF Order
<1>2. ASSUME NEW s \in Slots, NEW r \in Slots, g[s] # <<>>, g[r] # <<>>, Behind(c, s) < Behind(c, r)
      PROVE  g[r][1].time < g[s][1].time
  BY <1>2 DEF Order
<1>3. ASSUME NEW s \in Slots, g[s] = <<>>
      PROVE  s >= c /\ \A r \in Slots : c <= r /\ r <= s => g[r] = <<>>
  BY <1>3 DEF Order
<1> QED
  BY <1>1, <1>2, <1>3 DEF Order

\* A save that begins empties the next file.
LEMMA OrderErased ==
  ASSUME NEW f \in [Slots -> Seq(Units)], NEW at \in Seq(Nat), NEW d \in Nat, NEW c \in Slots,
         Order(f, at, c, Len(at))
  PROVE  Order([f EXCEPT ![c] = <<>>], Append(at, d), c, Len(at))
<1> DEFINE g == [f EXCEPT ![c] = <<>>]
           bt == Append(at, d)
<1>1. g[c] = <<>> /\ \A s \in Slots \ {c} : g[s] = f[s]
  OBVIOUS
<1>2. Len(bt) = Len(at) + 1 /\ Len(at) \in Nat /\ \A k \in 1 .. Len(at) : bt[k] = at[k]
  OBVIOUS
<1>3. c \in Nat /\ \A s \in Slots : s \in Nat
  BY PointsFacts DEF Slots
<1> HIDE DEF g, bt
<1>4. ASSUME NEW s \in Slots, g[s] # <<>>
      PROVE  \E k \in 1 .. Len(bt) : g[s][1].time = bt[k] /\ k + Behind(c, s) <= Len(at) + 1
  <2>1. s # c /\ g[s] = f[s]
    BY <1>1, <1>4
  <2>2. PICK k \in 1 .. Len(at) : f[s][1].time = at[k] /\ k + Behind(c, s) <= Len(at) + 1
    BY <1>4, <2>1 DEF Order
  <2>3. k \in 1 .. Len(bt) /\ bt[k] = at[k]
    BY <1>2
  <2> QED
    BY <2>1, <2>2, <2>3
<1>5. ASSUME NEW s \in Slots, NEW r \in Slots, g[s] # <<>>, g[r] # <<>>, Behind(c, s) < Behind(c, r)
      PROVE  g[r][1].time < g[s][1].time
  <2>1. g[s] = f[s] /\ g[r] = f[r]
    BY <1>1, <1>5
  <2> QED
    BY <1>5, <2>1 DEF Order
<1>6. ASSUME NEW s \in Slots, g[s] = <<>>
      PROVE  s >= c /\ \A r \in Slots : c <= r /\ r <= s => g[r] = <<>>
  <2>1. CASE s = c
    BY <1>1, <1>3, <2>1
  <2>2. CASE s # c
    BY <1>1, <1>6, <2>2 DEF Order
  <2> QED
    BY <2>1, <2>2
<1>7. Order(g, bt, c, Len(at))
  BY <1>4, <1>5, <1>6 DEF Order
<1> QED
  BY <1>7 DEF g, bt

\* Its first unit stamps the file, which is then the last, and the one after it
\* the next.
LEMMA OrderStamped ==
  ASSUME NEW f \in [Slots -> Seq(Units)], NEW g \in [Slots -> Seq(Units)], NEW c \in Slots,
         NEW at \in Seq(Nat \ {0}), Len(at) # 0,
         \A j, k \in 1 .. Len(at) : j < k => at[j] < at[k],
         g[c] # <<>>, g[c][1].time = at[Len(at)],
         \A s \in Slots \ {c} : g[s] = f[s],
         f[c] = <<>>,
         Order(f, at, c, Len(at) - 1)
  PROVE  Order(g, at, (c + 1) % N, Len(at))
<1> DEFINE e == (c + 1) % N
<1>1. /\ e = IF c + 1 = N THEN 0 ELSE c + 1
      /\ Behind(e, c) = 1
      /\ \A s \in Slots : /\ s # c => Behind(e, s) = Behind(c, s) + 1
                          /\ Behind(c, s) \in Nat /\ Behind(c, s) >= 1
  BY BehindFacts
<1>2. Len(at) \in Nat /\ Len(at) > 0 /\ \A k \in 1 .. Len(at) : at[k] \in Nat
  OBVIOUS
<1>3. c \in Nat /\ N \in Nat /\ \A s \in Slots : s \in Nat /\ s < N
  BY PointsFacts DEF Slots
<1> HIDE DEF e
<1>4. ASSUME NEW s \in Slots, g[s] # <<>>, s # c
      PROVE  \E k \in 1 .. Len(at) : g[s][1].time = at[k] /\ k + Behind(c, s) <= Len(at)
  <2>1. g[s] = f[s]
    BY <1>4
  <2>2. PICK k \in 1 .. Len(at) : f[s][1].time = at[k] /\ k + Behind(c, s) <= (Len(at) - 1) + 1
    BY <1>4, <2>1 DEF Order
  <2> QED
    BY <1>1, <1>2, <2>1, <2>2
<1>5. ASSUME NEW s \in Slots, g[s] # <<>>
      PROVE  \E k \in 1 .. Len(at) : g[s][1].time = at[k] /\ k + Behind(e, s) <= Len(at) + 1
  <2>1. CASE s = c
    <3>1. Len(at) \in 1 .. Len(at) /\ Len(at) + Behind(e, c) <= Len(at) + 1
      BY SMTT(30), <1>1, <1>2
    <3> QED
      BY <2>1, <3>1
  <2>2. CASE s # c
    <3>1. PICK k \in 1 .. Len(at) : g[s][1].time = at[k] /\ k + Behind(c, s) <= Len(at)
      BY <1>4, <1>5, <2>2
    <3>2. k + Behind(e, s) <= Len(at) + 1
      BY <1>1, <1>2, <2>2, <3>1
    <3> QED
      BY <3>1, <3>2
  <2> QED
    BY <2>1, <2>2
<1>6. ASSUME NEW s \in Slots, NEW r \in Slots, g[s] # <<>>, g[r] # <<>>, Behind(e, s) < Behind(e, r)
      PROVE  g[r][1].time < g[s][1].time
  <2>1. r # c
    <3>1. Behind(e, s) \in Nat /\ Behind(e, s) >= 1
      <4>1. CASE s = c
        BY SMTT(30), <1>1, <4>1
      <4>2. CASE s # c
        <5>1. PICK x \in Nat : x = Behind(c, s) /\ x >= 1
          BY BehindFacts
        <5>2. Behind(e, s) = x + 1
          BY <1>1, <4>2, <5>1
        <5> QED
          BY <5>2
      <4> QED
        BY <4>1, <4>2
    <3>2. CASE r = c
      BY <1>1, <1>6, <3>1, <3>2
    <3> QED
      BY <3>2
  <2>2. CASE s = c
    <3>1. PICK k \in 1 .. Len(at) : g[r][1].time = at[k] /\ k + Behind(c, r) <= Len(at)
      BY <1>4, <1>6, <2>1
    <3>2. k < Len(at) /\ Len(at) \in 1 .. Len(at)
      <4>1. PICK x \in Nat : x = Behind(c, r) /\ x >= 1
        BY BehindFacts
      <4>2. k \in Nat /\ k + x <= Len(at)
        BY <1>2, <3>1, <4>1
      <4>3. \A l, y \in Nat : y >= 1 /\ k + y <= l => k < l
        BY <4>2
      <4>4. k < Len(at)
        BY <1>2, <4>1, <4>2, <4>3
      <4>5. Len(at) \in 1 .. Len(at)
        BY <1>2
      <4> QED
        BY <4>4, <4>5
    <3>3. at[k] < at[Len(at)]
      BY <3>2
    <3> QED
      BY <2>2, <3>1, <3>3
  <2>3. CASE s # c
    <3>1. Behind(c, s) < Behind(c, r)
      BY <1>1, <1>6, <2>1, <2>3
    <3>2. g[s] = f[s] /\ g[r] = f[r]
      BY <2>1, <2>3
    <3> QED
      BY <1>6, <3>1, <3>2 DEF Order
  <2> QED
    BY <2>2, <2>3
<1>7. ASSUME NEW s \in Slots, g[s] = <<>>
      PROVE  s >= e /\ \A r \in Slots : e <= r /\ r <= s => g[r] = <<>>
  <2>1. s # c /\ f[s] = <<>>
    BY <1>7
  <2>2. s >= c /\ \A r \in Slots : c <= r /\ r <= s => f[r] = <<>>
    BY <2>1 DEF Order
  <2>3. s >= c + 1 /\ e = c + 1
    BY <1>1, <1>3, <2>1, <2>2
  <2>4. ASSUME NEW r \in Slots, e <= r, r <= s PROVE g[r] = <<>>
    <3>1. r # c /\ c <= r
      BY <1>3, <2>3, <2>4
    <3> QED
      BY <2>2, <2>4, <3>1
  <2> QED
    BY <2>3, <2>4
<1>8. Order(g, at, e, Len(at))
  BY <1>5, <1>6, <1>7 DEF Order
<1> QED
  BY <1>8 DEF e

\* A boot selects the next file.
LEMMA OrderBoot ==
  ASSUME IInv, Days, NEW c \in Slots, NEW n, Order(file, attempts, c, n)
  PROVE  /\ Unused # {} => First(Unused) = c
         /\ Unused = {} => Oldest = c
<1>1. Slots \subseteq Nat
  BY PointsFacts DEF Slots
<1>2. \A s \in Slots : file[s] # <<>> => file[s][1].time \in Nat \ {0}
  <2> SUFFICES ASSUME NEW s \in Slots, file[s] # <<>> PROVE file[s][1].time \in Nat \ {0}
    OBVIOUS
  <2>1. PICK k \in 1 .. Len(attempts) : file[s][1].time = attempts[k]
    BY DEF Order
  <2> QED
    BY <2>1 DEF Days, DaysOf
<1>3. \A s \in Slots : file[s] = <<>> => Opened(s) = 0
  BY DEF Opened
<1>4. \A s \in Slots : file[s] # <<>> => Opened(s) = file[s][1].time
  BY DEF Opened, IInv, Types
<1>5. \A s \in Slots : s \in Unused <=> file[s] = <<>>
  BY <1>2, <1>3, <1>4 DEF Unused
<1>6. Unused \subseteq Slots
  BY DEF Unused
<1>7. ASSUME Unused # {} PROVE First(Unused) = c
  <2>1. PICK s \in Unused : TRUE
    BY <1>7
  <2>2. \A u \in Unused : u >= c /\ \A r \in Slots : c <= r /\ r <= u => file[r] = <<>>
    BY <1>5, <1>6 DEF Order
  <2>3. c <= c /\ c <= s
    BY <1>1, <1>6, <2>2
  <2>4. c \in Unused
    BY <1>5, <2>2, <2>3
  <2>5. \A u \in Unused : c <= u
    BY <1>1, <1>6, <2>2
  <2>6. \A u \in Unused : (\A r \in Unused : u <= r) => u = c
    BY <1>1, <1>6, <2>4, <2>5
  <2> QED
    BY <2>4, <2>5, <2>6 DEF First
<1>8. ASSUME Unused = {} PROVE Oldest = c
  <2>1. \A s \in Slots : file[s] # <<>>
    BY <1>5, <1>8
  <2>2. \A s \in Slots : Opened(s) \in Nat
    BY <1>2, <1>4, <2>1
  <2>3. \A s \in Slots \ {c} : Opened(c) < Opened(s)
    <3> SUFFICES ASSUME NEW s \in Slots \ {c} PROVE file[c][1].time < file[s][1].time
      BY <1>4, <2>1
    <3>1. Behind(c, s) < Behind(c, c)
      BY BehindFacts
    <3> QED
      BY <2>1, <3>1 DEF Order
  <2>4. \A s \in Slots : (\A r \in Slots : Opened(s) <= Opened(r)) <=> s = c
    BY <2>2, <2>3
  <2>5. {s \in Slots : \A r \in Slots : Opened(s) <= Opened(r)} = {c}
    BY <2>4
  <2>6. First({c}) = c
    BY <1>1 DEF First
  <2> QED
    BY <2>5, <2>6 DEF Oldest
<1> QED
  BY <1>7, <1>8

\* The file that a save empties holds none of the last N - 1 saves.
LEMMA KeptErased ==
  ASSUME NEW f \in [Slots -> Seq(Units)], NEW at \in Seq(Nat \ {0}), NEW d \in Nat, NEW c \in Slots,
         NEW fin \in SUBSET (1 .. Len(at)),
         \A j, k \in 1 .. Len(at) : j < k => at[j] < at[k],
         Order(f, at, c, Len(at)), KeptDays(f, at, fin)
  PROVE  KeptDays([f EXCEPT ![c] = <<>>], Append(at, d), fin)
<1> DEFINE g == [f EXCEPT ![c] = <<>>]
           bt == Append(at, d)
<1>1. \A s \in Slots \ {c} : g[s] = f[s]
  OBVIOUS
<1>2. Len(bt) = Len(at) + 1 /\ Len(at) \in Nat /\ \A k \in 1 .. Len(at) : bt[k] = at[k]
  OBVIOUS
<1>3. N \in Nat /\ Total \in Nat /\ Total > 0
  BY PointsFacts
<1> HIDE DEF g, bt
<1>4. ASSUME NEW k \in fin, k + N > Len(bt)
      PROVE  \E s \in Slots : Len(g[s]) = Total /\ g[s][1].time = bt[k]
  <2>1. k \in 1 .. Len(at) /\ k \in Nat
    OBVIOUS
  <2>2. k + N > Len(at)
    BY <1>2, <1>3, <1>4, <2>1
  <2>3. PICK s \in Slots : Len(f[s]) = Total /\ f[s][1].time = at[k]
    BY <2>2 DEF KeptDays
  <2>4. ASSUME s = c PROVE FALSE
    <3>1. f[c] # <<>>
      BY <1>3, <2>3, <2>4
    <3>2. PICK j \in 1 .. Len(at) : f[c][1].time = at[j] /\ j + Behind(c, c) <= Len(at) + 1
      BY <3>1 DEF Order
    <3>3. Behind(c, c) = N
      BY BehindFacts
    <3>4. j < k
      BY <1>2, <1>3, <1>4, <2>1, <3>2, <3>3
    <3>5. at[j] < at[k] /\ at[j] = at[k] /\ at[j] \in Nat
      BY <2>1, <2>3, <2>4, <3>2, <3>4
    <3> QED
      BY <3>5
  <2> QED
    BY <1>1, <1>2, <2>1, <2>3, <2>4
<1>5. KeptDays(g, bt, fin)
  BY <1>4 DEF KeptDays
<1> QED
  BY <1>5 DEF g, bt

\* The days that ended, when today goes on.
LEMMA LaterDay ==
  ASSUME NEW at, NEW d \in Int, NEW e \in Int, d <= e, DaysOf(at, d)
  PROVE  DaysOf(at, e)
<1>1. \A k \in 1 .. Len(at) : at[k] \in Nat /\ at[k] < d
  BY DEF DaysOf
<1>2. \A k \in 1 .. Len(at) : at[k] < e
  BY <1>1
<1> QED
  BY <1>2 DEF DaysOf

LEMMA BootOrder == KInv /\ Boot => (Days /\ FilesInOrder)'
<1> SUFFICES ASSUME KInv, Boot PROVE (Days /\ FilesInOrder)'
  OBVIOUS
<1>1. IInv /\ Days /\ FilesInOrder /\ OfToday = {}
  BY NoneOfToday DEF KInv
<1>2. /\ pc = "off" /\ UNCHANGED <<file, unit, day, attempts, finished, skewed>>
      /\ cur' = IF Unused # {} THEN First(Unused) ELSE Oldest
      /\ pc' = "idle"
  BY <1>1 DEF Boot
<1>3. Days'
  BY <1>1, <1>2 DEF Days
<1>4. FilesInOrder'
  <2> SUFFICES ASSUME ~skewed
               PROVE  Order(file, attempts, cur', Len(attempts)) /\ KeptDays(file, attempts, finished)
    BY <1>2 DEF FilesInOrder
  <2>1. PICK c \in Slots : Order(file, attempts, c, Len(attempts))
    BY <1>1, <1>2 DEF FilesInOrder
  <2>2. cur' = c
    BY <1>1, <1>2, <2>1, OrderBoot
  <2> QED
    BY <1>1, <2>1, <2>2 DEF FilesInOrder
<1> QED
  BY <1>3, <1>4

LEMMA DayOrder == KInv /\ (Midnight \/ LateMidnight) => (Days /\ FilesInOrder)'
<1> SUFFICES ASSUME KInv, Midnight \/ LateMidnight PROVE (Days /\ FilesInOrder)'
  OBVIOUS
<1>1. IInv /\ Days /\ FilesInOrder /\ pc # "hung" /\ day \in Nat \ {0}
  BY DEF KInv, IInv, Types
<1>2. /\ day' = day + 1 /\ UNCHANGED <<file, maximum, cur, unit, attempts, finished, skewed>>
      /\ \/ pc = "off" /\ pc' = "off"
         \/ pc = "idle" /\ pc' \in {"idle", "save"}
  BY <1>1 DEF Midnight, LateMidnight
<1>3. DaysOf(attempts, day) /\ DaysOf(attempts, day + 1)
  BY <1>1, LaterDay DEF Days
<1>4. day' - 1 = day
  BY <1>1, <1>2
<1>5. Days'
  BY <1>1, <1>2, <1>3, <1>4 DEF Days
<1>6. FilesInOrder'
  BY <1>1, <1>2 DEF FilesInOrder
<1> QED
  BY <1>5, <1>6

LEMMA SampleOrder ==
  ASSUME KInv, NEW v \in [1 .. Points -> Values], Sample(v)
  PROVE  (Days /\ FilesInOrder)'
<1>1. Days /\ FilesInOrder
  BY DEF KInv
<1>2. pc = "idle" /\ UNCHANGED <<file, cur, pc, unit, day, attempts, finished, skewed>>
  BY DEF Sample
<1>3. Days'
  BY <1>1, <1>2 DEF Days
<1>4. FilesInOrder'
  BY <1>1, <1>2 DEF FilesInOrder
<1> QED
  BY <1>3, <1>4

LEMMA SaveStartOrder == KInv /\ SaveStart => (Days /\ FilesInOrder)'
<1> SUFFICES ASSUME KInv, SaveStart PROVE (Days /\ FilesInOrder)'
  OBVIOUS
<1>1. IInv /\ Days /\ FilesInOrder
  BY DEF KInv
<1>2. /\ pc = "save" /\ pc' = "write" /\ unit' = 1
      /\ file' = [file EXCEPT ![cur] = <<>>] /\ attempts' = Append(attempts, day - 1)
      /\ skewed' = (skewed \/ maximum[1].time # day - 1)
      /\ UNCHANGED <<maximum, cur, day, finished>>
  BY DEF SaveStart
<1>3. /\ file \in [Slots -> Seq(Units)] /\ cur \in Slots /\ day \in Nat
      /\ day - 1 \in Nat \ {0} /\ DaysOf(attempts, day - 1)
      /\ finished \subseteq 1 .. Len(attempts) /\ skewed \in BOOLEAN
  BY <1>1, <1>2 DEF IInv, Types, Days
<1>4. /\ attempts \in Seq(Nat \ {0}) /\ attempts \in Seq(Nat)
      /\ \A k \in 1 .. Len(attempts) : attempts[k] < day - 1
      /\ \A j, k \in 1 .. Len(attempts) : j < k => attempts[j] < attempts[k]
  BY <1>3 DEF DaysOf
<1>5. /\ attempts' \in Seq(Nat \ {0}) /\ Len(attempts') = Len(attempts) + 1
      /\ Len(attempts) \in Nat
      /\ attempts'[Len(attempts) + 1] = day - 1
      /\ \A k \in 1 .. Len(attempts) : attempts'[k] = attempts[k]
  BY <1>2, <1>3, <1>4
<1>6. \A k \in 1 .. Len(attempts') : k \in 1 .. Len(attempts) \/ k = Len(attempts')
  BY <1>5
<1>7. DaysOf(attempts', day)
  <2>1. ASSUME NEW k \in 1 .. Len(attempts') PROVE attempts'[k] < day
    <3>1. CASE k \in 1 .. Len(attempts)
      <4>1. attempts'[k] = attempts[k] /\ attempts[k] < day - 1 /\ attempts[k] \in Nat
        BY <1>4, <1>5, <3>1
      <4> QED
        BY <1>3, <4>1
    <3>2. CASE k = Len(attempts')
      BY <1>3, <1>5, <3>2
    <3> QED
      BY <1>6, <3>1, <3>2
  <2>2. ASSUME NEW j \in 1 .. Len(attempts'), NEW k \in 1 .. Len(attempts'), j < k
        PROVE  attempts'[j] < attempts'[k]
    <3>1. j \in 1 .. Len(attempts)
      BY <1>5, <2>2
    <3>2. CASE k \in 1 .. Len(attempts)
      BY <1>4, <1>5, <2>2, <3>1, <3>2
    <3>3. CASE k = Len(attempts')
      BY <1>4, <1>5, <3>1, <3>3
    <3> QED
      BY <1>6, <3>2, <3>3
  <2> QED
    BY <1>5, <2>1, <2>2 DEF DaysOf
<1>8. Days'
  <2>1. finished' \subseteq 1 .. Len(attempts')
    BY <1>2, <1>3, <1>5
  <2>2. skewed' \in BOOLEAN
    BY <1>2, <1>3
  <2>3. Len(attempts') # 0
    BY <1>5
  <2> QED
    BY <1>2, <1>7, <2>1, <2>2, <2>3 DEF Days
<1>9. FilesInOrder'
  <2> SUFFICES ASSUME ~skewed'
               PROVE  /\ maximum[1].time = attempts'[Len(attempts')]
                      /\ Order(file', attempts', cur, Len(attempts') - 1)
                      /\ KeptDays(file', attempts', finished)
    BY <1>2 DEF FilesInOrder
  <2>1. ~skewed /\ maximum[1].time = day - 1
    BY <1>2
  <2>2. Order(file, attempts, cur, Len(attempts)) /\ KeptDays(file, attempts, finished)
    BY <1>1, <1>2, <2>1 DEF FilesInOrder
  <2>3. Order(file', attempts', cur, Len(attempts))
    BY <1>2, <1>3, <1>4, <2>2, OrderErased
  <2>4. KeptDays(file', attempts', finished)
    BY <1>2, <1>3, <1>4, <2>2, KeptErased
  <2>5. Len(attempts') - 1 = Len(attempts)
    BY <1>5
  <2> QED
    BY <1>5, <2>1, <2>3, <2>4, <2>5
<1> QED
  BY <1>8, <1>9

LEMMA SaveUnitOrder == KInv /\ SaveUnit => (Days /\ FilesInOrder)'
<1> SUFFICES ASSUME KInv, SaveUnit PROVE (Days /\ FilesInOrder)'
  OBVIOUS
<1> USE PointsFacts
<1>1. IInv /\ Days /\ FilesInOrder
  BY DEF KInv
<1>2. /\ pc = "write" /\ pc' = "write" /\ unit <= Total /\ unit' = unit + 1
      /\ UNCHANGED <<maximum, cur, day, attempts, finished, skewed>>
  BY DEF SaveUnit
<1>3. file \in [Slots -> Seq(Units)] /\ cur \in Slots /\ unit \in 1 .. Total
  BY <1>1, <1>2 DEF IInv, Types
<1>4. Len(file[cur]) = unit - 1 /\ file[cur] \in Seq(Units)
  BY <1>1, <1>2, <1>3 DEF IInv, WrittenSoFar
<1>5. file' = [file EXCEPT ![cur] = Append(file[cur], Unit(unit))]
  <2>1. Len(file[cur]) < Capacity
    BY <1>3, <1>4 DEF Capacity
  <2> QED
    BY <1>3, <2>1 DEF SaveUnit
<1>6. Unit(unit) \in Units
  BY <1>1, <1>2, <1>3, UnitFacts
<1>7. /\ \A s \in Slots \ {cur} : file'[s] = file[s]
      /\ file'[cur] = Append(file[cur], Unit(unit)) /\ file'[cur] # <<>>
      /\ file' \in [Slots -> Seq(Units)]
  <2>1. /\ Append(file[cur], Unit(unit)) \in Seq(Units)
        /\ Append(file[cur], Unit(unit)) # <<>>
    BY <1>4, <1>6
  <2> QED
    BY <1>3, <1>5, <2>1
<1>8. Days'
  BY <1>1, <1>2 DEF Days
<1>9. FilesInOrder'
  <2> SUFFICES ASSUME ~skewed
               PROVE  /\ maximum[1].time = attempts[Len(attempts)]
                      /\ Order(file', attempts, NextSlot, Len(attempts))
                      /\ file'[cur][1].time = attempts[Len(attempts)]
                      /\ KeptDays(file', attempts, finished)
    <3>1. unit' # 1 /\ NextSlot' = NextSlot
      BY <1>2, <1>3 DEF NextSlot
    <3> QED
      BY <1>2, <3>1 DEF FilesInOrder
  <2>1. Len(attempts) # 0 /\ maximum[1].time = attempts[Len(attempts)]
    BY <1>1, <1>2 DEF FilesInOrder, Days
  <2>2. KeptDays(file', attempts, finished)
    <3> SUFFICES ASSUME NEW k \in finished, k + N > Len(attempts)
                 PROVE  \E s \in Slots : Len(file'[s]) = Total /\ file'[s][1].time = attempts[k]
      BY DEF KeptDays
    <3>1. PICK s \in Slots : Len(file[s]) = Total /\ file[s][1].time = attempts[k]
      BY <1>1 DEF FilesInOrder, KeptDays
    <3>2. s # cur
      BY <1>3, <1>4, <3>1
    <3> QED
      BY <1>7, <3>1, <3>2
  <2>3. CASE unit = 1
    <3>1. file[cur] = <<>> /\ file'[cur][1] = Unit(1)
      BY <1>4, <1>6, <1>7, <2>3
    <3>2. Unit(1) = Mark(EXTREME_MAX_MARK)
      BY DEF Unit
    <3>3. file'[cur][1].time = attempts[Len(attempts)]
      BY <2>1, <3>1, <3>2 DEF Mark
    <3>4. Order(file, attempts, cur, Len(attempts) - 1)
      BY <1>1, <1>2, <2>3 DEF FilesInOrder
    <3>5. attempts \in Seq(Nat \ {0}) /\ \A j, k \in 1 .. Len(attempts) : j < k => attempts[j] < attempts[k]
      BY <1>1 DEF Days, DaysOf
    <3>6. Order(file', attempts, (cur + 1) % N, Len(attempts))
      BY <1>3, <1>7, <2>1, <3>1, <3>3, <3>4, <3>5, OrderStamped
    <3> QED
      BY <2>1, <2>2, <3>3, <3>6 DEF NextSlot
  <2>4. CASE unit # 1
    <3>1. Order(file, attempts, NextSlot, Len(attempts)) /\ file[cur][1].time = attempts[Len(attempts)]
      BY <1>1, <1>2, <2>4 DEF FilesInOrder
    <3>2. file[cur] # <<>> /\ file'[cur][1] = file[cur][1]
      BY <1>3, <1>4, <1>6, <1>7, <2>4
    <3>3. \A s \in Slots : /\ file'[s] = <<>> <=> file[s] = <<>>
                           /\ file[s] # <<>> => file'[s][1] = file[s][1]
      BY <1>7, <3>2
    <3>4. Order(file', attempts, NextSlot, Len(attempts))
      BY <3>1, <3>3, OrderOfHeads
    <3> QED
      BY <2>1, <2>2, <3>1, <3>2, <3>4
  <2> QED
    BY <2>3, <2>4
<1> QED
  BY <1>8, <1>9

LEMMA SaveEndOrder == KInv /\ SaveEnd => (Days /\ FilesInOrder)'
<1> SUFFICES ASSUME KInv, SaveEnd PROVE (Days /\ FilesInOrder)'
  OBVIOUS
<1> USE PointsFacts
<1>1. IInv /\ Days /\ FilesInOrder
  BY DEF KInv
<1>2. pc = "write" /\ unit > Total /\ UNCHANGED <<file, unit, day, attempts, skewed>>
  BY DEF SaveEnd
<1>3. unit \in 1 .. Total + 1 /\ cur \in Slots /\ unit # 1 /\ file \in [Slots -> Seq(Units)]
  BY <1>1, <1>2 DEF IInv, Types
<1>4. Len(file[cur]) = Total
  <2>1. Len(file[cur]) = unit - 1
    BY <1>1, <1>2 DEF IInv, WrittenSoFar
  <2> QED
    BY <1>2, <1>3, <2>1
<1>5. cur' = NextSlot /\ pc' = "idle" /\ finished' = finished \cup {Len(attempts)}
  BY <1>4 DEF SaveEnd
<1>6. Len(attempts) \in Nat /\ Len(attempts) # 0 /\ finished \subseteq 1 .. Len(attempts)
  BY <1>1, <1>2 DEF Days, DaysOf
<1>7. Days'
  <2>1. finished' \subseteq 1 .. Len(attempts)
    <3>1. Len(attempts) \in 1 .. Len(attempts)
      BY <1>6
    <3> QED
      BY <1>5, <1>6, <3>1
  <2> QED
    BY <1>1, <1>2, <1>5, <2>1 DEF Days
<1>8. FilesInOrder'
  <2> SUFFICES ASSUME ~skewed
               PROVE  /\ Order(file, attempts, NextSlot, Len(attempts))
                      /\ KeptDays(file, attempts, finished')
    BY <1>2, <1>5 DEF FilesInOrder
  <2>1. /\ Order(file, attempts, NextSlot, Len(attempts))
        /\ maximum[1].time = attempts[Len(attempts)]
        /\ file[cur][1].time = attempts[Len(attempts)]
        /\ KeptDays(file, attempts, finished)
    BY <1>1, <1>2, <1>3 DEF FilesInOrder
  <2>2. ASSUME NEW k \in finished', k + N > Len(attempts)
        PROVE  \E s \in Slots : Len(file[s]) = Total /\ file[s][1].time = attempts[k]
    <3>1. CASE k = Len(attempts)
      BY <1>3, <1>4, <2>1, <3>1
    <3>2. CASE k \in finished
      BY <2>1, <2>2, <3>2 DEF KeptDays
    <3> QED
      BY <1>5, <3>1, <3>2
  <2> QED
    BY <2>1, <2>2 DEF KeptDays
<1> QED
  BY <1>7, <1>8

\* A save that wrote nothing counts for nothing.
LEMMA OrderLoosened ==
  ASSUME NEW f, NEW at, NEW c \in Slots, NEW n \in Int, Order(f, at, c, n - 1)
  PROVE  Order(f, at, c, n)
<1>1. ASSUME NEW s \in Slots, f[s] # <<>>
      PROVE  \E k \in 1 .. Len(at) : f[s][1].time = at[k] /\ k + Behind(c, s) <= n + 1
  <2>1. PICK k \in 1 .. Len(at) : f[s][1].time = at[k] /\ k + Behind(c, s) <= (n - 1) + 1
    BY <1>1 DEF Order
  <2>2. PICK x \in Nat : x = Behind(c, s)
    BY BehindFacts
  <2>3. k + Behind(c, s) <= n + 1
    BY <2>1, <2>2
  <2> QED
    BY <2>1, <2>3
<1> QED
  BY <1>1 DEF Order

LEMMA PowerOffOrder == KInv /\ PowerOff => (Days /\ FilesInOrder)'
<1> SUFFICES ASSUME KInv, PowerOff PROVE (Days /\ FilesInOrder)'
  OBVIOUS
<1>1. IInv /\ Days /\ FilesInOrder
  BY DEF KInv
<1>2. /\ pc # "off" /\ pc' = "off"
      /\ UNCHANGED <<file, maximum, cur, unit, day, attempts, finished, skewed>>
  BY DEF PowerOff
<1>3. pc \in {"idle", "save", "write"} /\ cur \in Slots
  BY <1>1, <1>2 DEF IInv, Types
<1>4. Days'
  BY <1>1, <1>2 DEF Days
<1>5. FilesInOrder'
  <2> SUFFICES ASSUME ~skewed
               PROVE  /\ \E c \in Slots : Order(file, attempts, c, Len(attempts))
                      /\ KeptDays(file, attempts, finished)
    BY <1>2 DEF FilesInOrder
  <2>1. KeptDays(file, attempts, finished)
    BY <1>1 DEF FilesInOrder
  <2>2. CASE pc \in {"idle", "save"}
    BY <1>1, <1>3, <2>1, <2>2 DEF FilesInOrder
  <2>3. CASE pc = "write" /\ unit = 1
    <3>1. Order(file, attempts, cur, Len(attempts) - 1) /\ Len(attempts) \in Int
      BY <1>1, <2>3 DEF FilesInOrder, Days, DaysOf
    <3>2. Order(file, attempts, cur, Len(attempts))
      BY <1>3, <3>1, OrderLoosened
    <3> QED
      BY <1>3, <2>1, <3>2
  <2>4. CASE pc = "write" /\ unit # 1
    <3>1. Order(file, attempts, NextSlot, Len(attempts))
      BY <1>1, <2>4 DEF FilesInOrder
    <3>2. NextSlot \in Slots
      BY <1>3, BehindFacts DEF NextSlot
    <3> QED
      BY <2>1, <3>1, <3>2
  <2> QED
    BY <1>3, <2>2, <2>3, <2>4
<1> QED
  BY <1>4, <1>5

LEMMA StutterOrder == KInv /\ UNCHANGED vars => (Days /\ FilesInOrder)'
<1> SUFFICES ASSUME KInv, UNCHANGED vars PROVE (Days /\ FilesInOrder)'
  OBVIOUS
<1>1. UNCHANGED <<file, maximum, cur, pc, unit, day, attempts, finished, skewed>> /\ Days /\ FilesInOrder
  BY DEF vars, KInv
<1>2. NextSlot' = NextSlot
  BY <1>1 DEF NextSlot
<1> QED
  BY <1>1, <1>2 DEF Days, FilesInOrder

LEMMA InitOrder == Init => Days /\ FilesInOrder
<1> SUFFICES ASSUME Init PROVE Days /\ FilesInOrder
  OBVIOUS
<1> USE PointsFacts
<1>1. /\ file = [s \in Slots |-> <<>>] /\ pc = "off" /\ day = 1
      /\ attempts = <<>> /\ finished = {} /\ skewed = FALSE
  BY DEF Init
<1>2. Len(attempts) = 0 /\ attempts \in Seq(Nat \ {0}) /\ 1 .. Len(attempts) = {}
  BY <1>1
<1>3. Days
  BY <1>1, <1>2 DEF Days, DaysOf
<1>4. 0 \in Slots /\ \A s \in Slots : s >= 0 /\ file[s] = <<>>
  BY <1>1 DEF Slots
<1>5. Order(file, attempts, 0, Len(attempts))
  BY <1>4 DEF Order
<1>6. KeptDays(file, attempts, finished)
  BY <1>1 DEF KeptDays
<1> QED
  BY <1>1, <1>3, <1>4, <1>5, <1>6 DEF FilesInOrder

\* As long as every file is stamped with the day that ended, the last N saves that
\* were finished are in the files, wherever the power failed: FSMID_CreateLogs
\* selects the file that comes next in the table, and no save empties a younger one.
THEOREM SavesKept == Spec => []KeepsExtremes
<1>1. Init => KInv
  BY InitInv, InitOrder DEF KInv
<1>2. KInv /\ [Next]_vars => KInv'
  <2> SUFFICES ASSUME KInv, [Next]_vars PROVE KInv'
    OBVIOUS
  <2>1. IInv'
    BY BootStep, DayStep, SampleStep, SaveStartStep, SaveUnitStep, SaveEndStep,
       PowerOffStep, StutterStep DEF Next, KInv
  <2>2. (Days /\ FilesInOrder)'
    BY BootOrder, DayOrder, SampleOrder, SaveStartOrder, SaveUnitOrder, SaveEndOrder,
       PowerOffOrder, StutterOrder DEF Next
  <2> QED
    BY <2>1, <2>2 DEF KInv
<1>3. KInv => KeepsExtremes
  <2> SUFFICES ASSUME KInv, ~skewed, NEW k \in finished, k + N > Len(attempts)
               PROVE  \E s \in Slots : Len(file[s]) = Total /\ Opened(s) = attempts[k]
    BY DEF KeepsExtremes
  <2>1. PICK s \in Slots : Len(file[s]) = Total /\ file[s][1].time = attempts[k]
    BY DEF KInv, FilesInOrder, KeptDays
  <2>2. file[s] \in Seq(Units) /\ Total \in Nat /\ Total > 0
    BY PointsFacts DEF KInv, IInv, Types
  <2>3. file[s] # <<>>
    BY <2>1, <2>2
  <2>4. Opened(s) = attempts[k]
    BY <2>1, <2>2, <2>3 DEF Opened
  <2> QED
    BY <2>1, <2>4
<1> QED
  BY <1>1, <1>2, <1>3, PTL DEF Spec

=============================================================================
