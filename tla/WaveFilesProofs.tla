-------------------------- MODULE WaveFilesProofs --------------------------
(***************************************************************************)
(* Proofs about the waveform files, for every number of files, of lines    *)
(* and of calls, with the power failing at any point.                      *)
(***************************************************************************)
EXTENDS WaveFiles, WellFoundedInduction, TLAPS

Thousand == 0 .. 999
DayTime == [day : Nat, hour : 0 .. 23, min : 0 .. 59, sec : 0 .. 59, msec : Thousand]
Delays == 0 .. 1000

TypeOK ==
    /\ offset \in Seq({0, 8})
    /\ file \in [Files -> Seq(1 .. Len(offset))]
    /\ logCfg \in Files
    /\ pc \in {"off", "idle", "write", "advance", "astray"}
    /\ line \in Nat
    /\ wave \in Nat /\ (pc \in {"write", "advance"} => wave \in 1 .. Len(offset))
    /\ trigger \in DayTime
    /\ mSec \in Delays
    /\ pc \in {"write", "advance"} => tmpTime = Earlier(trigger, mSec)
    /\ done \in Seq(1 .. Len(offset))
    /\ certain \in Int /\ certain >= -1 /\ certain <= Len(done)

-----------------------------------------------------------------------------
(* Lemmas *)

\* A set of numbers has a least one.
LEMMA Least ==
    ASSUME NEW S \in SUBSET Nat, S # {}
    PROVE  \E f \in S : \A g \in S : f <= g
<1> DEFINE R == OpToRel(<, Nat)
<1>1. IsWellFoundedOn(R, Nat)
      BY NatLessThanWellFounded
<1>2. \A x, y \in Nat : x < y => <<x, y>> \in R
      BY DEF OpToRel
<1> HIDE DEF R
<1>3. PICK f \in S : \A g \in S : <<g, f>> \notin R
      BY <1>1, WFMin
<1>4. \A g \in S : f \in Nat /\ g \in Nat /\ ~(g < f)
      BY <1>2, <1>3
<1>5. \A g \in S : f <= g
      BY <1>4
<1> QED  BY <1>3, <1>5

\* FirstOf is the least.
LEMMA FirstOfLeast ==
    ASSUME NEW S \in SUBSET Files, S # {}
    PROVE  FirstOf(S) \in S /\ \A g \in S : FirstOf(S) <= g
<1>1. S \subseteq Nat
      BY SizeAssumption DEF Files
<1>2. \E f \in S : \A g \in S : f <= g
      BY <1>1, Least
<1> QED  BY <1>2 DEF FirstOf

\* Among files that all have a line there is one that is not newer than another.
LEMMA OldestExists ==
    ASSUME TypeOK, Unused = {}
    PROVE  {f \in Files : \A g \in Files : TimeCreate(f) <= TimeCreate(g)} # {}
<1>1. \A f \in Files : TimeCreate(f) \in {0, 8}
  <2> SUFFICES ASSUME NEW f \in Files PROVE TimeCreate(f) \in {0, 8}  OBVIOUS
  <2>1. file[f] \in Seq(1 .. Len(offset)) /\ file[f] # <<>>
        BY DEF TypeOK, Unused
  <2>2. file[f][1] \in 1 .. Len(offset)
        BY <2>1
  <2> QED  BY <2>2 DEF TimeCreate, TypeOK
<1>2. 0 \in Files
      BY SizeAssumption DEF Files
<1>3. CASE \E f \in Files : TimeCreate(f) = 0
      BY <1>1, <1>3
<1>4. CASE \A f \in Files : TimeCreate(f) # 0
      BY <1>1, <1>2, <1>4
<1> QED  BY <1>3, <1>4

\* The file that a boot selects is in the table; every file before it is used,
\* and if any file is unused then it is.
LEMMA SelectedFacts ==
    ASSUME TypeOK
    PROVE  /\ Selected \in Files
           /\ \A f \in Files : f < Selected => file[f] # <<>>
           /\ Unused # {} => file[Selected] = <<>>
<1>1. CASE Unused # {}
  <2>1. Selected = FirstOf(Unused) /\ Unused \in SUBSET Files
        BY <1>1 DEF Selected, Unused
  <2>2. Selected \in Unused /\ \A g \in Unused : Selected <= g
        BY <1>1, <2>1, FirstOfLeast
  <2>3. \A f \in Files : f \in Nat
        BY SizeAssumption DEF Files
  <2> QED  BY <2>2, <2>3 DEF Unused
<1>2. CASE Unused = {}
  <2> DEFINE S == {f \in Files : \A g \in Files : TimeCreate(f) <= TimeCreate(g)}
  <2>1. Selected = FirstOf(S) /\ S \in SUBSET Files /\ S # {}
        BY <1>2, OldestExists DEF Selected
  <2> HIDE DEF S
  <2>2. Selected \in Files
        BY <2>1, FirstOfLeast
  <2> QED  BY <1>2, <2>2 DEF Unused
<1> QED  BY <1>1, <1>2

Clock(d, h, m, n, x) == [day |-> d, hour |-> h, min |-> m, sec |-> n, msec |-> x]

\* What is added when no day is borrowed.
DayLate(t, ms) == IF OfDay(t) < ms THEN MsPerDay ELSE 0

\* e is t minus ms, the day left as it is.
IsBefore(e, t, ms) ==
    /\ e.msec \in Nat /\ e.msec <= 999 /\ e.day = t.day
    /\ OfDay(e) = OfDay(t) - ms + DayLate(t, ms)

\* The subtraction of the lead, with its borrows: of h hours, m minutes, n seconds
\* and x milliseconds on day d.
LEMMA EarlierIsBefore ==
    ASSUME NEW d \in Nat, NEW h \in Nat, NEW m \in Nat, NEW n \in Nat, NEW x \in Nat,
           NEW ms \in Nat, h <= 23, m <= 59, n <= 59, x <= 999, ms <= 1000
    PROVE  IsBefore(Earlier(Clock(d, h, m, n, x), ms), Clock(d, h, m, n, x), ms)
<1> DEFINE t == [day |-> d, hour |-> h, min |-> m, sec |-> n, msec |-> x]
           e == Earlier(t, ms)
           hms == (h * 60 + m) * 60 + n
           left == 1000 - (ms - x)
           Right == e.msec \in Nat /\ e.msec <= 999 /\ e.day = d /\ OfDay(e) = OfDay(t) - ms + DayLate(t, ms)
<1> SUFFICES Right
  <2>1. t.day = d
        OBVIOUS
  <2>2. t = Clock(d, h, m, n, x)
        BY DEF Clock
  <2>3. e = Earlier(t, ms)
        OBVIOUS
  <2> HIDE DEF t, e
  <2> QED  BY SMT, <2>1, <2>2, <2>3 DEF IsBefore
<1>1. hms \in Nat
      BY SMT
<1>2. OfDay(t) = hms * 1000 + x
      BY SMT DEF OfDay
<1>3. OfDay(t) \in Nat
  <2> HIDE DEF t, hms
  <2> QED  BY <1>1, <1>2, SMT
<1>4. OfDay(t) >= ms => DayLate(t, ms) = 0
  <2> HIDE DEF t
  <2> QED  BY <1>3, SMT DEF DayLate
<1>5. CASE x >= ms
  <2>1. e = [day |-> d, hour |-> h, min |-> m, sec |-> n, msec |-> x - ms]
        BY <1>5, SMT DEF Earlier
  <2>2. OfDay(e) = hms * 1000 + (x - ms) /\ e.msec = x - ms /\ e.day = d
        BY <2>1, SMT DEF OfDay
  <2> HIDE DEF t, e, hms
  <2> QED  BY <1>1, <1>2, <1>4, <1>5, <2>2, SMT
<1>6. CASE x < ms
  <2>1. e = Borrow(t, ms)
    <3>1. t.msec = x
          OBVIOUS
    <3>2. ~(t.msec >= ms)
          BY <1>6, <3>1, SMT
    <3> HIDE DEF t
    <3> QED  BY ZenonT(30), <3>2 DEF Earlier
  <2>2. left \in Nat /\ left <= 999
        BY <1>6, SMT
  <2>3. ASSUME hms > 0, OfDay(e) = (hms - 1) * 1000 + left, e.msec = left, e.day = d
        PROVE  Right
    <3> HIDE DEF t, e, hms
    <3>1. OfDay(t) >= ms
          BY <1>1, <1>2, <2>3, SMT
    <3> QED  BY <1>1, <1>2, <1>4, <2>2, <2>3, <3>1, SMT
  <2>4. CASE n > 0
    <3>1. e = [day |-> d, hour |-> h, min |-> m, sec |-> n - 1, msec |-> left]
          BY <2>1, <2>4, SMT DEF Borrow
    <3>a. e.msec = left /\ e.day = d /\ e.hour = h /\ e.min = m /\ e.sec = n - 1
          BY <3>1, SMT
    <3>2. e.msec = left /\ e.day = d /\ OfDay(e) = ((h * 60 + m) * 60 + (n - 1)) * 1000 + left
      <4> HIDE DEF e, left
      <4> QED  BY <3>a DEF OfDay
    <3>3. hms > 0 /\ (h * 60 + m) * 60 + (n - 1) = hms - 1
          BY <2>4, SMT
    <3>4. OfDay(e) = (hms - 1) * 1000 + left
          BY <3>2, <3>3, SMT
    <3> HIDE DEF Right, e, hms, left
    <3> QED  BY <2>3, <3>2, <3>3, <3>4
  <2>5. CASE n = 0 /\ m > 0
    <3>1. e = [day |-> d, hour |-> h, min |-> m - 1, sec |-> 59, msec |-> left]
          BY <2>1, <2>5, SMT DEF Borrow
    <3>2. e.msec = left /\ e.day = d /\ OfDay(e) = ((h * 60 + (m - 1)) * 60 + 59) * 1000 + left
          BY <3>1, SMT DEF OfDay
    <3>3. hms > 0 /\ (h * 60 + (m - 1)) * 60 + 59 = hms - 1
          BY <2>5, SMT
    <3>4. OfDay(e) = (hms - 1) * 1000 + left
          BY <3>2, <3>3, SMT
    <3> HIDE DEF Right, e, hms, left
    <3> QED  BY <2>3, <3>2, <3>3, <3>4
  <2>6. CASE n = 0 /\ m = 0 /\ h > 0
    <3>1. e = [day |-> d, hour |-> h - 1, min |-> 59, sec |-> 59, msec |-> left]
          BY <2>1, <2>6, SMT DEF Borrow
    <3>2. e.msec = left /\ e.day = d /\ OfDay(e) = (((h - 1) * 60 + 59) * 60 + 59) * 1000 + left
          BY <3>1, SMT DEF OfDay
    <3>3. hms > 0 /\ ((h - 1) * 60 + 59) * 60 + 59 = hms - 1
          BY <2>6, SMT
    <3>4. OfDay(e) = (hms - 1) * 1000 + left
          BY <3>2, <3>3, SMT
    <3> HIDE DEF Right, e, hms, left
    <3> QED  BY <2>3, <3>2, <3>3, <3>4
  <2>7. CASE n = 0 /\ m = 0 /\ h = 0
    <3>1. e = [day |-> d, hour |-> 23, min |-> 59, sec |-> 59, msec |-> left]
          BY <2>1, <2>7, SMT DEF Borrow
    <3>2. e.msec = left /\ e.day = d /\ OfDay(e) = 86399000 + left /\ hms = 0
          BY <2>7, <3>1, SMT DEF OfDay
    <3> HIDE DEF t, e, hms
    <3>3. DayLate(t, ms) = 86400000
          BY <1>2, <1>6, <3>2, SMT DEF DayLate, MsPerDay
    <3> QED  BY <1>2, <2>2, <3>2, <3>3, SMT
  <2> HIDE DEF Right
  <2> QED  BY <2>4, <2>5, <2>6, <2>7, SMT
<1>7. x >= ms \/ x < ms
      BY SMT
<1> HIDE DEF Right
<1> QED  BY <1>5, <1>6, <1>7

\* The same of a time as a record.
LEMMA EarlierOfTime ==
    ASSUME NEW t \in DayTime, NEW ms \in Delays
    PROVE  /\ Earlier(t, ms).msec \in Thousand
           /\ Earlier(t, ms).day = t.day
           /\ OfDay(Earlier(t, ms)) = OfDay(t) - ms + DayLate(t, ms)
<1>1. /\ \A y \in Nat : y <= 999 <=> y \in Thousand
      /\ Thousand \subseteq Nat
      BY SMT DEF Thousand
<1>2. ms \in Nat /\ ms <= 1000
      BY SMT DEF Delays
<1>3. PICK d \in Nat, h \in Nat, m \in Nat, n \in Nat, x \in Nat :
          h <= 23 /\ m <= 59 /\ n <= 59 /\ x <= 999 /\ t = Clock(d, h, m, n, x)
  <2>1. PICK d \in Nat, h \in 0 .. 23, m \in 0 .. 59, n \in 0 .. 59, x \in Thousand :
            t = Clock(d, h, m, n, x)
        BY DEF DayTime, Clock
  <2> QED  BY <1>1, <2>1
<1>4. PICK k \in Nat : k <= 1000 /\ ms = k
      BY <1>2
<1>5. IsBefore(Earlier(Clock(d, h, m, n, x), k), Clock(d, h, m, n, x), k)
      BY <1>3, <1>4, EarlierIsBefore
<1>6. IsBefore(Earlier(t, ms), t, ms)
      BY <1>3, <1>4, <1>5
<1> QED  BY <1>1, <1>6 DEF IsBefore

-----------------------------------------------------------------------------
(* The invariant: where the newest waves are, and which file is next       *)

\* The file that the call k calls ago wrote to.
Back(k) == IF logCfg - k >= 0 THEN logCfg - k ELSE logCfg - k + N

Full(f, w) == Len(file[f]) = Lines /\ \A k \in 1 .. Lines : file[f][k] = w

\* The files before the current one are in use, so that a boot that finds the
\* current one empty selects it again.
UsedBefore ==
    pc # "off" \/ certain >= 0 => \A f \in Files : f < logCfg => file[f] # <<>>
EmptyForNext ==
    pc \in {"idle", "off", "astray"} /\ certain >= 0 => file[logCfg] = <<>>
Filling ==
    /\ pc = "write" => line < Lines
    /\ pc = "write" /\ certain >= 0 =>
           Len(file[logCfg]) = line /\ \A k \in 1 .. line : file[logCfg][k] = wave
Filled ==
    pc = "advance" => file[logCfg] # <<>> /\ (certain >= 0 => Full(logCfg, wave))
Kept ==
    \A k \in 1 .. Lesser(N - 1, certain) : Full(Back(k), done[Len(done) + 1 - k])

IInv == TypeOK /\ UsedBefore /\ EmptyForNext /\ Filling /\ Filled /\ Kept

LEMMA Constants ==
    /\ N \in Nat /\ N > 1 /\ Lines \in Nat /\ Lines > 0
    /\ \A f \in Files : f \in Nat /\ f < N
    /\ \A f \in Nat : f < N => f \in Files
BY SizeAssumption DEF Files

LEMMA TimesAreTimes == Times \subseteq DayTime /\ Leads \subseteq Delays /\ NoTime \in DayTime /\ 0 \in Delays
<1>1. \A y : y \in 1 .. 1000 => y \in 0 .. 1000
      BY SMT
<1>2. 0 \in 0 .. 1000 /\ 0 \in 0 .. 999 /\ 0 \in 0 .. 59 /\ 0 \in 0 .. 23
      BY SMT
<1> QED  BY <1>1, <1>2, TimeAssumption, LeadAssumption DEF DayTime, Thousand, Delays, NoTime

\* The files of the last calls are in the table and are not the current one.
LEMMA BackFacts ==
    ASSUME TypeOK, NEW k \in 1 .. N - 1
    PROVE  Back(k) \in Files /\ Back(k) # logCfg
<1>1. logCfg \in Files
      BY DEF TypeOK
<1> QED  BY SMTT(30), <1>1, Constants DEF Back

LEMMA InitInv == Init => IInv
<1> SUFFICES ASSUME Init PROVE IInv  OBVIOUS
<1>1. TypeOK
  <2>1. 0 \in Files
        BY Constants
  <2>2. file \in [Files -> Seq(1 .. Len(offset))]
        BY DEF Init
  <2>3. trigger \in DayTime /\ mSec \in Delays
        BY TimesAreTimes DEF Init
  <2> QED  BY <2>1, <2>2, <2>3 DEF Init, TypeOK
<1>2. Kept
      BY Constants DEF Init, Kept, Lesser
<1> QED  BY <1>1, <1>2, Constants DEF Init, IInv, UsedBefore, EmptyForNext, Filling, Filled

LEMMA BootInv == IInv /\ Boot => IInv'
<1> SUFFICES ASSUME IInv, Boot PROVE IInv'  OBVIOUS
<1> USE DEF IInv
<1>1. /\ Selected \in Files
      /\ \A f \in Files : f < Selected => file[f] # <<>>
      /\ Unused # {} => file[Selected] = <<>>
      BY SelectedFacts
<1>2. /\ pc = "off" /\ pc' = "idle" /\ logCfg' = Selected
      /\ UNCHANGED <<file, line, wave, offset, callVars, done, certain>>
      BY DEF Boot
<1>3. TypeOK'
      BY <1>1, <1>2 DEF TypeOK, callVars
<1>4. CASE certain >= 0
  <2>1. file[logCfg] = <<>> /\ \A f \in Files : f < logCfg => file[f] # <<>>
        BY <1>2, <1>4 DEF EmptyForNext, UsedBefore
  <2>2. logCfg \in Unused
        BY <2>1 DEF TypeOK, Unused
  <2>3. file[Selected] = <<>>
        BY <1>1, <2>2
  <2>4. Selected = logCfg
        BY <1>1, <2>1, <2>3, Constants DEF TypeOK
  <2>5. logCfg' = logCfg
        BY <1>2, <2>4
  <2> QED  BY <1>2, <1>3, <2>1, <2>5
           DEF UsedBefore, EmptyForNext, Filling, Filled, Kept, Back, Full
<1>5. CASE certain < 0
  <2>1. Kept'
        BY <1>2, <1>5, Constants DEF TypeOK, Kept, Lesser
  <2>2. certain' < 0
        BY <1>2, <1>5
  <2>3. UsedBefore'
        BY <1>1, <1>2 DEF UsedBefore
  <2> QED  BY <1>2, <1>3, <1>5, <2>1, <2>2, <2>3 DEF TypeOK, EmptyForNext, Filling, Filled
<1> QED  BY <1>4, <1>5 DEF TypeOK

LEMMA CfgAppInv == IInv /\ CfgApp => IInv'
<1> SUFFICES ASSUME IInv, CfgApp PROVE IInv'  OBVIOUS
<1> USE DEF IInv
<1>1. PICK chnoffset \in {0, 8}, t \in Times, ms \in Leads :
          /\ offset' = Append(offset, chnoffset)
          /\ trigger' = t /\ mSec' = ms /\ tmpTime' = Earlier(t, ms)
      BY DEF CfgApp
<1>2. /\ pc = "idle" /\ pc' = "write" /\ line' = 0 /\ wave' = Len(offset')
      /\ UNCHANGED <<file, logCfg, logDat, fixptName, done, certain>>
      BY DEF CfgApp
<1>3. /\ offset' \in Seq({0, 8}) /\ Len(offset') = Len(offset) + 1 /\ Len(offset) \in Nat
      /\ 1 .. Len(offset) \subseteq 1 .. Len(offset')
      BY <1>1 DEF TypeOK
<1>4. Seq(1 .. Len(offset)) \subseteq Seq(1 .. Len(offset'))
      BY <1>3
<1>5. TypeOK'
  <2>1. trigger' \in DayTime /\ mSec' \in Delays
        BY <1>1, TimesAreTimes
  <2>2. file' \in [Files -> Seq(1 .. Len(offset'))]
        BY <1>2, <1>4 DEF TypeOK
  <2>3. done' \in Seq(1 .. Len(offset'))
        BY <1>2, <1>4 DEF TypeOK
  <2>4. wave' \in 1 .. Len(offset') /\ wave' \in Nat /\ line' \in Nat
        BY <1>2, <1>3
  <2> QED  BY <1>1, <1>2, <1>3, <2>1, <2>2, <2>3, <2>4 DEF TypeOK
<1>6. Kept'
      BY <1>2 DEF Kept, Back, Full
<1>7. UsedBefore' /\ EmptyForNext' /\ Filled'
      BY <1>2 DEF UsedBefore, EmptyForNext, Filled
<1>8. Filling'
      BY <1>2, Constants DEF Filling, EmptyForNext
<1> QED  BY <1>5, <1>6, <1>7, <1>8

LEMMA WriteLineInv == IInv /\ WriteLine => IInv'
<1> SUFFICES ASSUME IInv, WriteLine PROVE IInv'  OBVIOUS
<1> USE DEF IInv
<1>1. /\ pc = "write" /\ line' = line + 1
      /\ pc' = IF line' = Lines THEN "advance" ELSE "write"
      /\ file' = [file EXCEPT ![logCfg] = Stored]
      /\ UNCHANGED <<logCfg, logDat, wave, offset, callVars, fixptName, done, certain>>
      BY DEF WriteLine
<1>2. /\ logCfg \in Files /\ file[logCfg] \in Seq(1 .. Len(offset)) /\ wave \in 1 .. Len(offset)
      /\ line \in Nat /\ line < Lines
      BY <1>1 DEF TypeOK, Filling
<1>3. Stored \in Seq(1 .. Len(offset)) /\ Stored # <<>>
  <2>1. CASE Len(file[logCfg]) < Lines
        BY <1>2, <2>1 DEF Stored
  <2>2. CASE ~(Len(file[logCfg]) < Lines)
    <3>1. Stored = file[logCfg] /\ Len(file[logCfg]) # 0
          BY <1>2, <2>2, Constants DEF Stored
    <3> QED  BY <1>2, <3>1
  <2> QED  BY <2>1, <2>2
<1>4. file'[logCfg] = Stored /\ \A f \in Files \ {logCfg} : file'[f] = file[f]
      BY <1>1, <1>2 DEF TypeOK
<1>5. TypeOK'
  <2>1. file' \in [Files -> Seq(1 .. Len(offset'))]
        BY <1>1, <1>2, <1>3 DEF TypeOK
  <2> QED  BY <1>1, <1>2, <2>1 DEF TypeOK, callVars
<1>6. UsedBefore'
      BY <1>1, <1>4, <1>3 DEF UsedBefore
<1>7. EmptyForNext'
      BY <1>1 DEF EmptyForNext
<1>8. certain >= 0 =>
          Len(file'[logCfg]) = line' /\ \A k \in 1 .. line' : file'[logCfg][k] = wave
  <2> SUFFICES ASSUME certain >= 0
               PROVE  Len(Stored) = line + 1 /\ \A k \in 1 .. line + 1 : Stored[k] = wave
      BY <1>1, <1>4
  <2>1. Len(file[logCfg]) = line /\ \A k \in 1 .. line : file[logCfg][k] = wave
        BY <1>1 DEF Filling
  <2>2. Stored = Append(file[logCfg], wave)
        BY <1>2, <2>1 DEF Stored
  <2> QED  BY <1>2, <2>1, <2>2
<1>9. Filling'
      BY <1>1, <1>2, <1>8, Constants DEF Filling
<1>10. Filled'
      BY <1>1, <1>3, <1>4, <1>8 DEF Filled, Full
<1>11. Kept'
  <2> SUFFICES ASSUME NEW k \in 1 .. Lesser(N - 1, certain)
               PROVE  Full(Back(k), done[Len(done) + 1 - k])'
      BY <1>1 DEF Kept
  <2>1. k \in 1 .. N - 1
        BY Constants DEF Lesser, TypeOK
  <2>2. Back(k) \in Files \ {logCfg} /\ Back(k)' = Back(k)
        BY <1>1, <2>1, BackFacts DEF Back
  <2>3. Full(Back(k), done[Len(done) + 1 - k])
        BY DEF Kept
  <2> QED  BY <1>1, <1>4, <2>2, <2>3 DEF Full
<1> QED  BY <1>5, <1>6, <1>7, <1>9, <1>10, <1>11

LEMMA AdvanceInv == IInv /\ Advance => IInv'
<1> SUFFICES ASSUME IInv, Advance PROVE IInv'  OBVIOUS
<1> USE DEF IInv
<1>1. /\ pc = "advance" /\ pc' = "idle"
      /\ logCfg' = NextFile
      /\ file' = [file EXCEPT ![NextFile] = <<>>]
      /\ done' = Append(done, wave) /\ certain' = certain + 1
      /\ line' = 0 /\ trigger' = NoTime /\ tmpTime' = NoTime /\ mSec' = 0
      /\ UNCHANGED <<logDat, wave, offset>>
      BY DEF Advance
<1>2. /\ logCfg \in Files /\ logCfg \in Nat /\ logCfg < N
      /\ NextFile = (IF logCfg = N - 1 THEN 0 ELSE logCfg + 1)
      /\ NextFile \in Files /\ NextFile # logCfg
      BY Constants DEF TypeOK, NextFile
<1>3. file'[NextFile] = <<>> /\ \A f \in Files \ {NextFile} : file'[f] = file[f]
      BY <1>1, <1>2 DEF TypeOK
<1>4. /\ done \in Seq(1 .. Len(offset)) /\ wave \in 1 .. Len(offset) /\ Len(done) \in Nat
      /\ certain \in Int /\ certain <= Len(done) /\ certain >= -1
      BY <1>1 DEF TypeOK
<1>5. /\ done' \in Seq(1 .. Len(offset)) /\ Len(done') = Len(done) + 1
      /\ done'[Len(done) + 1] = wave
      /\ \A k \in 1 .. Len(done) : done'[k] = done[k]
      BY <1>1, <1>4
<1>6. TypeOK'
  <2>1. file' \in [Files -> Seq(1 .. Len(offset'))]
        BY <1>1, <1>2 DEF TypeOK
  <2>2. trigger' \in DayTime /\ mSec' \in Delays
        BY <1>1, TimesAreTimes
  <2> QED  BY <1>1, <1>2, <1>4, <1>5, <2>1, <2>2 DEF TypeOK
<1>7. UsedBefore'
  <2> SUFFICES ASSUME NEW f \in Files, f < NextFile PROVE file'[f] # <<>>
      BY <1>1 DEF UsedBefore
  <2>1. NextFile = logCfg + 1 /\ f \in Nat /\ f # NextFile
        BY <1>2, Constants
  <2>2. f = logCfg \/ f < logCfg
        BY <1>2, <2>1
  <2> QED  BY <1>1, <1>3, <2>1, <2>2 DEF UsedBefore, Filled
<1>8. EmptyForNext' /\ Filling' /\ Filled'
      BY <1>1, <1>3 DEF EmptyForNext, Filling, Filled
<1>9. Kept'
  <2> SUFFICES ASSUME NEW k \in 1 .. Lesser(N - 1, certain + 1)
               PROVE  Full(Back(k), done[Len(done) + 1 - k])'
      BY <1>1 DEF Kept
  <2>1. k \in 1 .. N - 1 /\ k <= certain + 1
        BY <1>4, Constants DEF Lesser
  <2>2. Back(k)' \in Files /\ Back(k)' # NextFile
        BY <1>1, <1>6, <2>1, BackFacts, <1>2, Constants DEF Back
  <2>3. CASE k = 1
    <3>1. Back(k)' = logCfg
          BY <1>1, <1>2, <2>3, Constants DEF Back
    <3>2. certain >= 0 /\ Full(logCfg, wave)
          BY <1>1, <1>4, <2>1, <2>3 DEF Filled
    <3>3. (done[Len(done) + 1 - k])' = wave
          BY <1>5, <2>3
    <3> QED  BY <1>2, <1>3, <3>1, <3>2, <3>3 DEF Full
  <2>4. CASE k > 1
    <3>1. k - 1 \in 1 .. Lesser(N - 1, certain)
          BY <1>4, <2>1, <2>4, Constants DEF Lesser
    <3>2. Full(Back(k - 1), done[Len(done) + 1 - (k - 1)])
          BY <3>1 DEF Kept
    <3>3. Back(k)' = Back(k - 1)
          BY <1>1, <1>2, <2>1, <2>4, Constants DEF Back
    <3>4. (done[Len(done) + 1 - k])' = done[Len(done) + 1 - (k - 1)]
      <4>1. Len(done) + 1 - (k - 1) \in 1 .. Len(done)
            BY <1>4, <2>1, <2>4
      <4>2. Len(done) + 1 + 1 - k = Len(done) + 1 - (k - 1)
            BY <1>4, <2>1
      <4> QED  BY <1>5, <4>1, <4>2
    <3> QED  BY <1>3, <2>2, <3>2, <3>3, <3>4 DEF Full
  <2> QED  BY <2>1, <2>3, <2>4
<1> QED  BY <1>6, <1>7, <1>8, <1>9

LEMMA SaveDatInv == IInv /\ SaveDat => IInv'
BY DEF IInv, SaveDat, callVars, TypeOK, UsedBefore, EmptyForNext, Filling, Filled, Kept, Back, Full

LEMMA PowerOffInv == IInv /\ PowerOff => IInv'
BY DEF IInv, PowerOff, callVars, TypeOK, UsedBefore, EmptyForNext, Filling, Filled, Kept, Back, Full

LEMMA PowerCutInv == IInv /\ PowerCut => IInv'
<1> SUFFICES ASSUME IInv, PowerCut PROVE IInv'  OBVIOUS
<1> USE DEF IInv
<1>1. /\ pc' = "off" /\ certain' = 0 - 1
      /\ line' = 0 /\ trigger' = NoTime /\ tmpTime' = NoTime /\ mSec' = 0
      /\ UNCHANGED <<file, logCfg, logDat, wave, offset, fixptName, done>>
      BY DEF PowerCut
<1>2. Len(done) \in Nat
      BY DEF TypeOK
<1>3. TypeOK'
      BY <1>1, <1>2, TimesAreTimes DEF TypeOK
<1>4. Kept'
      BY <1>1, Constants DEF Kept, Lesser
<1> QED  BY <1>1, <1>3, <1>4 DEF UsedBefore, EmptyForNext, Filling, Filled

LEMMA StutterInv == IInv /\ UNCHANGED vars => IInv'
BY DEF IInv, vars, callVars, TypeOK, UsedBefore, EmptyForNext, Filling, Filled, Kept, Back, Full

THEOREM WaveInvariant == Spec => []IInv
<1>1. IInv /\ [Next]_vars => IInv'
      BY BootInv, CfgAppInv, WriteLineInv, AdvanceInv, SaveDatInv, PowerOffInv, PowerCutInv,
         StutterInv DEF Next
<1> QED  BY <1>1, InitInv, PTL DEF Spec

-----------------------------------------------------------------------------
(* What follows from it *)

\* The newest N - 1 waves are stored whole, for every number of files and of lines,
\* any number of calls and of restarts, and whenever the power fails.
THEOREM WavesKept == Spec => []KeepsWaves
<1>1. IInv => KeepsWaves
  <2> SUFFICES ASSUME IInv, NEW k \in 1 .. Lesser(N - 1, certain)
               PROVE  Whole(done[Len(done) + 1 - k])
      BY DEF KeepsWaves
  <2> DEFINE w == done[Len(done) + 1 - k]
  <2>1. Full(Back(k), w)
        BY DEF IInv, Kept
  <2>2. k \in 1 .. N - 1
        BY Constants DEF IInv, TypeOK, Lesser
  <2>3. Back(k) \in Files /\ file[Back(k)] \in Seq(1 .. Len(offset))
        BY <2>2, BackFacts DEF IInv, TypeOK
  <2> HIDE DEF w
  <2>4. file[Back(k)] = [j \in 1 .. Lines |-> w]
        BY <2>1, <2>3, Constants DEF Full
  <2> QED  BY <2>3, <2>4 DEF Whole, w
<1> QED  BY <1>1, WaveInvariant, PTL

\* The lead time is the time of the trigger minus the lead, for every time and every
\* lead up to a second, and a day late when the subtraction borrows from the day.
THEOREM WaveLeadIsBefore == Spec => []LeadIsBefore
<1>1. IInv => LeadIsBefore
  <2> SUFFICES ASSUME IInv, pc \in {"write", "advance"}
               PROVE  tmpTime.msec \in Thousand /\ Ms(tmpTime) = Ms(trigger) - mSec + DayLate(trigger, mSec)
      BY Zenon DEF LeadIsBefore, Thousand, DayLate
  <2>1. trigger \in DayTime /\ mSec \in Delays /\ tmpTime = Earlier(trigger, mSec)
        BY Zenon DEF IInv, TypeOK
  <2>2. /\ tmpTime.msec \in Thousand /\ tmpTime.day = trigger.day
        /\ OfDay(tmpTime) = OfDay(trigger) - mSec + DayLate(trigger, mSec)
        BY <2>1, EarlierOfTime
  <2>3. trigger.day * MsPerDay \in Int /\ OfDay(trigger) \in Int /\ mSec \in Int
        /\ DayLate(trigger, mSec) \in Int
    <3>1. /\ trigger.day \in Nat /\ trigger.hour \in 0 .. 23 /\ trigger.min \in 0 .. 59
          /\ trigger.sec \in 0 .. 59 /\ trigger.msec \in Thousand
          BY <2>1 DEF DayTime
    <3>2. /\ trigger.day \in Int /\ trigger.hour \in Int /\ trigger.min \in Int
          /\ trigger.sec \in Int /\ trigger.msec \in Int
          BY <3>1, SMTT(30) DEF Thousand
    <3>3. MsPerDay \in Int /\ mSec \in Int
          BY <2>1, SMT DEF MsPerDay, Delays
    <3>4. OfDay(trigger) \in Int /\ trigger.day * MsPerDay \in Int
          BY <3>2, <3>3, SMT DEF OfDay
    <3> QED  BY <3>3, <3>4 DEF DayLate
  <2> DEFINE midnight == trigger.day * MsPerDay
             ofDay == OfDay(trigger)
             late == DayLate(trigger, mSec)
  <2>4. Ms(trigger) = midnight + ofDay /\ Ms(tmpTime) = midnight + (ofDay - mSec + late)
        BY <2>2 DEF Ms
  <2>5. midnight \in Int /\ ofDay \in Int /\ mSec \in Int /\ late \in Int
        BY <2>3
  <2> HIDE DEF midnight, ofDay, late
  <2>6. Ms(tmpTime) = Ms(trigger) - mSec + late
        BY <2>4, <2>5, SMT
  <2> QED  BY <2>2, <2>6 DEF late
<1> QED  BY <1>1, WaveInvariant, PTL

=============================================================================
