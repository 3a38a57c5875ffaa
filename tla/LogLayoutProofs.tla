-------------------------- MODULE LogLayoutProofs --------------------------
(***************************************************************************)
(* Two facts about the logs that CreateLogs opens, for both builds.        *)
(*                                                                         *)
(* For every number of points their regions never meet.  The argument is   *)
(* that CreateLogs goes through the flash in one direction, so that        *)
(* everything opened ends where the next log begins or before it; for the  *)
(* fixed logs this is what the block counts of fsmid_config.h add up to.   *)
(*                                                                         *)
(* For every configuration whose texts fit their columns the size that a   *)
(* log announces is the length of its text, up to a header and recycled    *)
(* blocks.  The argument is that each line added to the text has the       *)
(* length announced for it, which what FSLOG_Open adds up and what         *)
(* FSLOG_Write adds one by one have in common.                             *)
(***************************************************************************)
EXTENDS LogFiles, NaturalsInduction, WellFoundedInduction, TLAPS

Kinds == {"exv", "fixpt", "frz"}

\* The first block that the logs to come may use.
Frontier == IF step = "static" /\ i < NumStatic THEN Static(i).base ELSE address

LayoutTypeOK ==
    /\ build \in Builds /\ points \in Points
    /\ step \in {"static", "run", "hung"} \cup Kinds
    /\ i \in Nat /\ (step = "static" => i <= NumStatic /\ address = Dynamic)
    /\ address \in Nat /\ address >= Dynamic
    /\ address <= FlashBlocks

\* Everything that is open has a region behind which the rest is laid.
Behind(l, block) ==
    /\ l.base \in Nat /\ l.blocks \in Nat
    /\ End(l) <= block
    /\ Apart(l, Config)

LayoutInv ==
    /\ LayoutTypeOK
    /\ step # "hung" => \A l \in opened : Behind(l, Frontier)
    /\ RegionsApart

-----------------------------------------------------------------------------
(* Arithmetic *)

\* The fixed regions ascend, and stay clear of the region of the configuration.
LEMMA StaticAscends ==
    ASSUME NEW n \in 0 .. 16
    PROVE  /\ Static(n).base \in Nat /\ Static(n).blocks \in Nat
           /\ End(Static(n)) <= (IF n + 1 < NumStatic THEN Static(n + 1).base ELSE Dynamic)
           /\ Static(n).base <= Dynamic
           /\ Apart(Static(n), Config)
<1> DEFINE After(k) == IF k + 1 < NumStatic THEN Static(k + 1).base ELSE Dynamic
<1>1. \A k \in 0 .. 6 :
          Static(k).base = Fixed[k + 1].base /\ Static(k).blocks = Fixed[k + 1].blocks
  <2>1. TAKE k \in 0 .. 6
  <2>2. k < 7  OBVIOUS
  <2>3. Static(k) = Fixed[k + 1]
        BY <2>2, ~(k \in 7 .. 11) DEF Static
  <2> QED  BY <2>3
<1>2. \A k \in 7 .. 11 : Static(k).base = 220 + (k - 7) /\ Static(k).blocks = 1
      BY DEF Static, CfgBase, Info
<1>3. \A k \in 12 .. 16 : Static(k).base = 225 + 5 * (k - 12) /\ Static(k).blocks = 5
      BY DEF Static, DatBase, Info
<1>4. /\ Fixed[1].base = 0   /\ Fixed[1].blocks = 128
      /\ Fixed[2].base = 144 /\ Fixed[2].blocks = 18
      /\ Fixed[3].base = 162 /\ Fixed[3].blocks = 2
      /\ Fixed[4].base = 164 /\ Fixed[4].blocks = 22
      /\ Fixed[5].base = 192 /\ Fixed[5].blocks = 20
      /\ Fixed[6].base = 212 /\ Fixed[6].blocks = 6
      /\ Fixed[7].base = 218 /\ Fixed[7].blocks = 2
      BY DEF Fixed, Info
<1>5. n = 0 \/ n = 1 \/ n = 2 \/ n = 3 \/ n = 4 \/ n = 5 \/ n = 6 \/ n \in 7 .. 11 \/ n \in 12 .. 16
      OBVIOUS
<1>6. CASE n \in 0 .. 6
      BY <1>1, <1>2, <1>4, <1>5, <1>6 DEF End, Apart, Config, NumStatic, Dynamic
<1>7. CASE n \in 7 .. 11
      BY <1>2, <1>3, <1>7 DEF End, Apart, Config, NumStatic, Dynamic
<1>8. CASE n \in 12 .. 16
      BY <1>3, <1>8 DEF End, Apart, Config, NumStatic, Dynamic
<1>9. QED  BY <1>5, <1>6, <1>7, <1>8

\* A day file has blocks, whatever the number of points.
LEMMA BlocksAreNat ==
    ASSUME LayoutTypeOK, NEW kind \in Kinds
    PROVE  /\ DayFile(kind).base = address
           /\ DayFile(kind).blocks \in Nat
<1>1. points.measure \in Nat /\ points.frozen \in Nat
      BY PointsAssumption DEF LayoutTypeOK
<1>2. build.quarters \in Nat
      BY BuildAssumption DEF LayoutTypeOK, DeviceBuild, FastBuild
<1>3. UnitsPerFile(kind) \in Nat
      BY <1>1, <1>2 DEF UnitsPerFile, Kinds
<1>4. \A count \in Nat : BlocksFor(16, count) \in Nat /\ BlocksFor(12, count) \in Nat
      BY DEF BlocksFor, BlockSize, HeaderSize
<1>5. BlocksFor(Template(kind), UnitsPerFile(kind)) \in Nat
      BY <1>3, <1>4 DEF Template
<1> QED  BY <1>5 DEF DayFile, Info

\* What lies behind everything that is open meets none of it.
LEMMA NewRegion ==
    ASSUME RegionsApart, NEW l, l.base \in Nat, l.blocks \in Nat,
           \A other \in opened : Behind(other, l.base),
           End(l) <= FlashBlocks, Apart(l, Config), opened' = opened \cup {l}
    PROVE  RegionsApart'
BY DEF RegionsApart, Behind, Apart, End, FlashBlocks, Config

-----------------------------------------------------------------------------
(* The invariant *)

LEMMA LayoutInitInv == LayoutInit => LayoutInv
<1> SUFFICES ASSUME LayoutInit PROVE LayoutInv  OBVIOUS
<1>1. LayoutTypeOK
      BY DEF LayoutInit, LayoutTypeOK, Dynamic, NumStatic, FlashBlocks
<1> QED  BY <1>1 DEF LayoutInit, LayoutInv, RegionsApart

LEMMA OpenStaticInv == LayoutInv /\ OpenStatic => LayoutInv'
<1> SUFFICES ASSUME LayoutInv, OpenStatic PROVE LayoutInv'  OBVIOUS
<1> DEFINE l == Static(i)
<1>1. /\ step = "static" /\ i \in 0 .. 16 /\ address = Dynamic /\ address' = address
      /\ i' = i + 1 /\ step' \in {"static", "hung"}
      BY DEF LayoutInv, LayoutTypeOK, OpenStatic, NumStatic
<1>2. LayoutTypeOK'
      BY <1>1 DEF LayoutInv, LayoutTypeOK, OpenStatic, NumStatic
<1>3. /\ l.base \in Nat /\ l.blocks \in Nat /\ Apart(l, Config) /\ l.base <= Dynamic
      /\ End(l) <= Frontier' /\ Frontier' <= Dynamic /\ Frontier' \in Nat
  <2>1. End(l) <= (IF i + 1 < NumStatic THEN Static(i + 1).base ELSE Dynamic)
        /\ l.base \in Nat /\ l.blocks \in Nat /\ Apart(l, Config) /\ l.base <= Dynamic
        BY <1>1, StaticAscends
  <2>2. i + 1 < NumStatic => Static(i + 1).base <= Dynamic /\ Static(i + 1).base \in Nat
        BY <1>1, StaticAscends DEF NumStatic
  <2>3. CASE step' = "static" /\ i + 1 < NumStatic
    <3>1. Frontier' = Static(i + 1).base
          BY <1>1, <2>3 DEF Frontier
    <3> QED  BY <2>1, <2>2, <2>3, <3>1
  <2>4. CASE ~(step' = "static" /\ i + 1 < NumStatic)
    <3>1. Frontier' = Dynamic
          BY <1>1, <2>4 DEF Frontier
    <3>2. End(l) <= Dynamic
      <4>1. l.base \in Nat /\ l.blocks \in Nat
            BY <2>1
      <4> QED  BY <2>1, <2>2, <4>1 DEF End, Dynamic
    <3> QED  BY <2>1, <3>1, <3>2 DEF Dynamic
  <2> QED  BY <2>3, <2>4
<1>4. CASE Holds(l)
  <2>1. opened' = opened \cup {l} /\ step' = "static"
        BY <1>1, <1>4 DEF OpenStatic, Open
  <2>2. \A other \in opened : Behind(other, l.base)
        BY <1>1 DEF LayoutInv, Frontier, NumStatic
  <2>3. End(l) <= FlashBlocks
        BY <1>3 DEF End, Dynamic, FlashBlocks
  <2>4. RegionsApart'
        BY <1>3, <2>1, <2>2, <2>3, NewRegion DEF LayoutInv
  <2>5. \A other \in opened' : Behind(other, Frontier')
        BY <1>3, <2>1, <2>2 DEF Behind, End
  <2> QED  BY <1>2, <2>4, <2>5 DEF LayoutInv, Behind, Apart, End, Config
<1>5. CASE ~Holds(l)
  <2>1. opened' = opened /\ step' = "hung"
        BY <1>1, <1>5 DEF OpenStatic, Open
  <2> QED  BY <1>2, <2>1 DEF LayoutInv, RegionsApart
<1> QED  BY <1>4, <1>5

LEMMA LayFileInv ==
    ASSUME LayoutInv, NEW kind \in Kinds, LayFile(kind)
    PROVE  LayoutInv'
<1> DEFINE l == DayFile(kind)
           good == InFlash(l) /\ Holds(l)
<1>1. /\ step = kind /\ kind # "static" /\ kind # "hung" /\ address \in Nat /\ i \in Nat
      /\ i' = i + 1 /\ address >= Dynamic
      BY DEF LayoutInv, LayoutTypeOK, LayFile, Kinds
<1>2. l.base = address /\ l.blocks \in Nat
      BY BlocksAreNat DEF LayoutInv
<1>3. \A other \in opened : Behind(other, address)
      BY <1>1 DEF LayoutInv, Frontier
<1>4. CASE good
  <2>1. opened' = opened \cup {l} /\ address' = address + l.blocks /\ step' = step
        BY <1>4 DEF LayFile, NextAddress
  <2>2. address + l.blocks < FlashBlocks
        BY <1>4 DEF InFlash
  <2>3. LayoutTypeOK'
        BY <1>1, <1>2, <2>1, <2>2 DEF LayoutInv, LayoutTypeOK, LayFile, Dynamic, FlashBlocks
  <2>4. Behind(l, address') /\ End(l) <= FlashBlocks
        BY <1>1, <1>2, <2>1, <2>2 DEF Behind, End, Apart, Config, Dynamic, FlashBlocks
  <2>5. RegionsApart'
        BY <1>1, <1>2, <1>3, <2>1, <2>4, NewRegion DEF LayoutInv, Behind
  <2>6. \A other \in opened' : Behind(other, address')
        BY <1>1, <1>2, <1>3, <2>1, <2>4 DEF Behind, End
  <2>7. Frontier' = address'
        BY <1>1, <2>1 DEF Frontier
  <2> QED  BY <2>3, <2>5, <2>6, <2>7 DEF LayoutInv, Behind
<1>5. CASE ~good
  <2>1. opened' = opened /\ address' = address /\ step' = "hung"
        BY <1>5 DEF LayFile
  <2> QED  BY <1>1, <2>1 DEF LayoutInv, LayoutTypeOK, LayFile, RegionsApart
<1> QED  BY <1>4, <1>5

LEMMA NextPartInv == LayoutInv /\ NextPart => LayoutInv'
<1> SUFFICES ASSUME LayoutInv, NextPart PROVE LayoutInv'  OBVIOUS
<1>1. opened' = opened /\ address' = address /\ i' = 0 /\ build' = build /\ points' = points
      BY DEF NextPart
<1>2. /\ step # "hung" /\ ~(step = "static" /\ i < NumStatic)
      /\ step' \in {"run"} \cup Kinds
      BY DEF NextPart, NumStatic, Kinds
<1>3. LayoutTypeOK'
      BY <1>1, <1>2 DEF LayoutInv, LayoutTypeOK, Kinds
<1>4. Frontier = address /\ Frontier' = address
      BY <1>1, <1>2 DEF Frontier, Kinds
<1> QED  BY <1>1, <1>2, <1>3, <1>4 DEF LayoutInv, RegionsApart, Behind

LEMMA LayoutNextInv == LayoutInv /\ [LayoutNext]_layoutVars => LayoutInv'
<1> SUFFICES ASSUME LayoutInv, [LayoutNext]_layoutVars PROVE LayoutInv'  OBVIOUS
<1>1. CASE OpenStatic
      BY <1>1, OpenStaticInv
<1>2. ASSUME NEW kind \in Kinds, LayFile(kind) PROVE LayoutInv'
      BY <1>2, LayFileInv
<1>3. CASE NextPart
      BY <1>3, NextPartInv
<1>4. CASE UNCHANGED layoutVars
      BY <1>4 DEF layoutVars, LayoutInv, LayoutTypeOK, Frontier, RegionsApart, Behind
<1> QED  BY <1>1, <1>2, <1>3, <1>4 DEF LayoutNext, Kinds

\* The regions of the logs never meet, for both builds and every number of
\* points, however far the boot gets: what FSMID_CreateLogs lays out of the fixed
\* addresses of fsmid_config.h and the sizes of FSLOG_CalcBlockNumber.
THEOREM LayoutRegionsApart == LayoutSpec => []RegionsApart
<1>1. LayoutInv => RegionsApart
      BY DEF LayoutInv
<1> QED  BY <1>1, LayoutInitInv, LayoutNextInv, PTL DEF LayoutSpec

-----------------------------------------------------------------------------
(* What a boot can hang over *)

Quarters == {24, 96}

\* While the points are not so many that a day is more than a block anyway, the
\* day files leave room: 56 blocks are enough for a file of extremes.
RoomLeft ==
    /\ step \in Kinds => i <= Files(step)
    /\ points.measure <= 7000 =>
           /\ step = "exv" => address <= 256 + 56 * i
           /\ step = "fixpt" => address <= 1936 + i
           /\ step = "frz" => address <= 1967 + i

HangInv == LayoutTypeOK /\ RoomLeft /\ HangsOverDays

LEMMA BuildFacts ==
    ASSUME LayoutTypeOK
    PROVE  /\ points.measure \in Nat /\ points.frozen \in Nat
           /\ build.quarters \in Quarters
           /\ \A kind \in Kinds : Files(kind) \in Nat /\ Files(kind) <= 31
           /\ Files("exv") <= 30
<1>1. build = DeviceBuild \/ build = FastBuild
      BY BuildAssumption DEF LayoutTypeOK
<1>2. points.measure \in Nat /\ points.frozen \in Nat
      BY PointsAssumption DEF LayoutTypeOK
<1> QED  BY <1>1, <1>2 DEF DeviceBuild, FastBuild, Quarters, Files, Kinds

\* A quotient below a number: the number of units in a block.
LEMMA FewUnits ==
    ASSUME NEW unit \in Nat, unit > 0, NEW q \in Quarters \cup {25, 97}, 4032 \div unit < q
    PROVE  unit * q > 4032
<1> DEFINE d == 4032 \div unit
           r == 4032 % unit
<1>1. d \in Nat /\ r \in Nat /\ r < unit /\ 4032 = unit * d + r
      OBVIOUS
<1> HIDE DEF d, r
<1>2. d + 1 <= q
      BY <1>1 DEF d, Quarters
<1>3. unit * (d + 1) = unit * d + unit
      BY <1>1
<1>4. unit * (d + 1) <= unit * q
      BY <1>1, <1>2 DEF Quarters
<1>5. unit * d \in Nat /\ unit * q \in Nat
      BY <1>1 DEF Quarters
<1> QED  BY <1>1, <1>3, <1>4, <1>5

\* The fixed logs hold what they promise.
LEMMA StaticHolds == ASSUME NEW n \in 0 .. 16 PROVE Holds(Static(n))
<1>1. CASE n \in 12 .. 16
      BY <1>1 DEF Static, Info, Holds, MaxUnitCount, UnitPerBlock, Smaller, BlockSize, HeaderSize
<1>2. CASE n \in 7 .. 11
      BY <1>2 DEF Static, Info, Holds, MaxUnitCount, UnitPerBlock, Smaller, BlockSize, HeaderSize
<1>3. CASE n \in 0 .. 6
  <2>1. Static(n) = Fixed[n + 1]
    <3>1. n < 7 /\ ~(n \in 7 .. 11)
          BY <1>3
    <3> QED  BY <3>1 DEF Static
  <2>2. /\ Holds(Fixed[1]) /\ Holds(Fixed[2]) /\ Holds(Fixed[3]) /\ Holds(Fixed[4])
        /\ Holds(Fixed[5]) /\ Holds(Fixed[6]) /\ Holds(Fixed[7])
        BY DEF Fixed, Info, Holds, MaxUnitCount, UnitPerBlock, Smaller, BlockSize, HeaderSize
  <2>3. n = 0 \/ n = 1 \/ n = 2 \/ n = 3 \/ n = 4 \/ n = 5 \/ n = 6
        BY <1>3
  <2> QED  BY <2>1, <2>2, <2>3
<1> QED  BY <1>1, <1>2, <1>3

\* The files of extremes hold what they promise, and 7000 points need 56 blocks.
LEMMA ExtremesHold ==
    ASSUME LayoutTypeOK
    PROVE  /\ Holds(DayFile("exv"))
           /\ points.measure <= 7000 => DayFile("exv").blocks <= 56
<1> DEFINE count == 2 * points.measure + 3
<1>1. count \in Nat
      BY BuildFacts
<1>2. DayFile("exv") = Info("exv", address, BlocksFor(16, count), 16, count, TRUE)
      BY DEF DayFile, Template, UnitsPerFile, RecordSize
<1>3. 252 * BlocksFor(16, count) >= count /\ BlocksFor(16, count) <= count \div 252 + 1
      BY <1>1 DEF BlocksFor, BlockSize, HeaderSize
<1>4. UnitPerBlock(DayFile("exv")) = 252
      BY <1>2 DEF UnitPerBlock, Info, Smaller, BlockSize, HeaderSize
<1>5. BlocksFor(16, count) \in Nat
      BY <1>1 DEF BlocksFor, BlockSize, HeaderSize
<1>6. Holds(DayFile("exv"))
      BY <1>1, <1>2, <1>3, <1>4, <1>5 DEF Holds, MaxUnitCount, Info
<1>7. points.measure <= 7000 => BlocksFor(16, count) <= 56
      BY <1>1, <1>3, <1>5, BuildFacts
<1> QED  BY <1>2, <1>6, <1>7 DEF Info

\* A file with a record for each quarter is one block, and does not hold what it
\* promises only when a day is more than the block.
LEMMA DaysHold ==
    ASSUME LayoutTypeOK, NEW kind \in {"fixpt", "frz"}
    PROVE  /\ DayFile(kind).blocks = 1
           /\ ~Holds(DayFile(kind)) => ~DayInBlock(kind)
<1> DEFINE q == UnitsPerFile(kind)
           unit == RecordSize(kind)
<1>1. q \in Quarters \cup {25, 97}
      BY BuildFacts DEF UnitsPerFile, Quarters
<1>2. unit \in Nat /\ unit > 0
      BY BuildFacts DEF RecordSize, PointsOf
<1>3. BlocksFor(12, q) = 1
      BY <1>1 DEF BlocksFor, BlockSize, HeaderSize, Quarters
<1>4. DayFile(kind) = Info(kind, address, 1, unit, q, TRUE)
      BY <1>3 DEF DayFile, Template
<1>5. ~Holds(DayFile(kind)) => 4032 \div unit < q
  <2>1. UnitPerBlock(DayFile(kind)) = Smaller(448, 4032 \div unit)
        BY <1>4 DEF UnitPerBlock, Info, BlockSize, HeaderSize
  <2>2. 4032 \div unit \in Nat
        BY <1>2
  <2>3. MaxUnitCount(DayFile(kind)) = Smaller(448, 4032 \div unit)
        BY <1>4, <2>1, <2>2 DEF MaxUnitCount, Info, Smaller
  <2> QED  BY <1>1, <1>4, <2>2, <2>3 DEF Holds, Info, Smaller, Quarters
<1>6. 4032 \div unit < q => unit * q > 4032
      BY <1>1, <1>2, FewUnits
<1>7. unit * q \in Nat
      BY <1>1, <1>2 DEF Quarters
<1>8. unit * q > 4032 => ~DayInBlock(kind)
      BY <1>7 DEF DayInBlock, BlockSize, HeaderSize
<1> QED  BY <1>4, <1>5, <1>6, <1>8 DEF Info

LEMMA HangInitInv == LayoutInit => HangInv
<1> SUFFICES ASSUME LayoutInit PROVE HangInv  OBVIOUS
<1>1. LayoutTypeOK
      BY LayoutInitInv DEF LayoutInv
<1> QED  BY <1>1 DEF LayoutInit, HangInv, RoomLeft, HangsOverDays, Kinds

LEMMA HangOpenStatic ==
    ASSUME HangInv, LayoutTypeOK', OpenStatic PROVE HangInv'
<1>1. step = "static" /\ i \in 0 .. 16
      BY DEF HangInv, LayoutTypeOK, OpenStatic, NumStatic
<1>2. step' = "static"
      BY <1>1, StaticHolds DEF OpenStatic
<1> QED  BY <1>2 DEF HangInv, RoomLeft, HangsOverDays, Kinds

LEMMA HangLayFile ==
    ASSUME HangInv, LayoutTypeOK', NEW kind \in Kinds, LayFile(kind) PROVE HangInv'
<1> DEFINE l == DayFile(kind)
           good == InFlash(l) /\ Holds(l)
<1>1. /\ step = kind /\ i < Files(kind) /\ PointsOf(kind) # 0 /\ i' = i + 1
      /\ build' = build /\ points' = points /\ i \in Nat /\ address \in Nat
      BY DEF LayFile, HangInv, LayoutTypeOK
<1>2. points.measure \in Nat /\ points.frozen \in Nat /\ build.quarters \in Quarters
      /\ Files(kind) \in Nat /\ Files(kind) <= 31 /\ Files("exv") <= 30
      BY BuildFacts DEF HangInv
<1>3. l.blocks \in Nat
      BY BlocksAreNat DEF HangInv
<1>4. /\ kind = "exv" => Holds(l) /\ (points.measure <= 7000 => l.blocks <= 56)
      /\ kind # "exv" => l.blocks = 1 /\ (~Holds(l) => ~DayInBlock(kind))
      BY ExtremesHold, DaysHold DEF HangInv, Kinds
<1>5. CASE good
  <2>1. address' = address + l.blocks /\ step' = kind
        BY <1>1, <1>5 DEF LayFile, NextAddress
  <2>2. Files(kind)' = Files(kind)
        BY <1>1 DEF Files
  <2>3. RoomLeft'
        BY <1>1, <1>2, <1>3, <1>4, <2>1, <2>2 DEF HangInv, RoomLeft, Kinds
  <2> QED  BY <2>1, <2>3 DEF HangInv, HangsOverDays, Kinds
<1>6. CASE ~good
  <2>1. step' = "hung"
        BY <1>6 DEF LayFile
  <2>2. RoomLeft'
        BY <2>1 DEF RoomLeft, Kinds
  <2>3. CASE points.measure > 7000
    <3>1. 12 + 4 * points.measure > 4032
          BY <1>2, <2>3
    <3>2. \A q \in Quarters : (12 + 4 * points.measure) * q > 4032
          BY <1>2, <3>1 DEF Quarters
    <3>3. PointsOf("fixpt") # 0 /\ ~DayInBlock("fixpt")
          BY <1>2, <2>3, <3>2
          DEF PointsOf, DayInBlock, RecordSize, UnitsPerFile, BlockSize, HeaderSize, Quarters
    <3>4. (PointsOf("fixpt") # 0 /\ ~DayInBlock("fixpt"))'
          BY <1>1, <3>3 DEF PointsOf, DayInBlock, RecordSize, UnitsPerFile
    <3> QED  BY <2>2, <3>4 DEF HangInv, HangsOverDays
  <2>4. CASE points.measure <= 7000
    <3>1. InFlash(l)
          BY <1>1, <1>2, <1>3, <1>4, <2>4 DEF HangInv, RoomLeft, InFlash, FlashBlocks, Kinds
    <3>2. kind \in {"fixpt", "frz"} /\ ~DayInBlock(kind)
          BY <1>4, <1>6, <3>1 DEF Kinds
    <3>3. (PointsOf(kind) # 0 /\ ~DayInBlock(kind))'
          BY <1>1, <3>2 DEF PointsOf, DayInBlock, RecordSize, UnitsPerFile
    <3> QED  BY <2>2, <3>2, <3>3 DEF HangInv, HangsOverDays
  <2> QED  BY <1>2, <2>3, <2>4
<1> QED  BY <1>5, <1>6

LEMMA HangNextPart ==
    ASSUME HangInv, LayoutTypeOK', NextPart PROVE HangInv'
<1>1. /\ address' = address /\ i' = 0 /\ points' = points /\ build' = build /\ address \in Nat
      /\ step' # "hung"
      BY DEF NextPart, HangInv, LayoutTypeOK
<1>2. \A kind \in Kinds : Files(kind) \in Nat /\ Files(kind) <= 31 /\ Files(kind)' = Files(kind)
      BY <1>1, BuildFacts DEF HangInv, Files
<1>3. points.measure \in Nat /\ Files("exv") <= 30
      BY BuildFacts DEF HangInv
<1>4. CASE step = "static" /\ step' = "exv"
      BY <1>1, <1>2, <1>4 DEF HangInv, LayoutTypeOK, RoomLeft, HangsOverDays, Dynamic, Kinds
<1>5. CASE step = "exv" /\ step' = "fixpt"
      BY <1>1, <1>2, <1>3, <1>5 DEF HangInv, LayoutTypeOK, RoomLeft, HangsOverDays, Kinds
<1>6. CASE step = "fixpt" /\ step' = "frz"
      BY <1>1, <1>2, <1>6 DEF HangInv, LayoutTypeOK, RoomLeft, HangsOverDays, Kinds
<1>7. CASE step' = "run"
      BY <1>7 DEF HangInv, RoomLeft, HangsOverDays, Kinds
<1> QED  BY <1>4, <1>5, <1>6, <1>7 DEF NextPart

\* A boot hangs over a day of records that is more than a block, and over nothing
\* else: the assertions of FSMID_CreateLogs and FSLOG_Open hold for every other
\* configuration, in both builds.
THEOREM LayoutHangsOverDays == LayoutSpec => []HangsOverDays
<1>1. HangInv => HangsOverDays
      BY DEF HangInv
<1>2. LayoutInv => LayoutTypeOK
      BY DEF LayoutInv
<1>3. HangInv /\ LayoutTypeOK' /\ [LayoutNext]_layoutVars => HangInv'
  <2> SUFFICES ASSUME HangInv, LayoutTypeOK', [LayoutNext]_layoutVars PROVE HangInv'  OBVIOUS
  <2>1. CASE OpenStatic
        BY <2>1, HangOpenStatic
  <2>2. ASSUME NEW kind \in Kinds, LayFile(kind) PROVE HangInv'
        BY <2>2, HangLayFile
  <2>3. CASE NextPart
        BY <2>3, HangNextPart
  <2>4. CASE UNCHANGED layoutVars
        BY <2>4
        DEF layoutVars, HangInv, LayoutTypeOK, RoomLeft, HangsOverDays, Files, PointsOf,
            DayInBlock, RecordSize, UnitsPerFile
  <2> QED  BY <2>1, <2>2, <2>3, <2>4 DEF LayoutNext, Kinds
<1> QED  BY <1>1, <1>2, <1>3, HangInitInv, LayoutInitInv, LayoutNextInv, PTL DEF LayoutSpec

-----------------------------------------------------------------------------
(***************************************************************************)
(* The size that is announced for a file (module LogFiles).                *)
(***************************************************************************)

\* The texts fit their columns: the terminal's name, the values, and the numbers of
\* points; and unsigned int is wider than any number of units.
InColumns ==
    /\ TerminalLen <= 24 /\ ValueLen <= 7 /\ W > 2000
    /\ \A p \in Points : p.measure <= 99 /\ p.frozen <= 99

\* What a log is, by its kind.
Shaped(l) ==
    /\ l.kind = "soe" => l = Fixed[6]
    /\ l.kind = "ulog" => l = Fixed[5]
    /\ l.kind = "co" => l = Fixed[7]
    /\ l.kind = "exv" =>
           \E base : l = Info("exv", base, BlocksFor(16, 2 * points.measure + 3), 16, 2 * points.measure + 3, TRUE)
    /\ l.kind = "fixpt" =>
           \E base : l = Info("fixpt", base, BlocksFor(12, build.quarters), 12 + 4 * points.measure, build.quarters, TRUE)
    /\ l.kind = "frz" =>
           \E base : l = Info("frz", base, BlocksFor(12, build.quarters + 1), 12 + 4 * points.frozen, build.quarters + 1, TRUE)

\* The logs of which AnnouncedSize speaks.
Announced == log # NoLog /\ log.kind \in Texts /\ UnitPerBlock(log) <= log.count

\* What can be read and what is in flash, against the capacity and the size of the region.
Counts ==
    /\ held \in Nat /\ held < MaxUnitCount(log)
    /\ unitNumber \in 0 .. log.count
    /\ laps \in Nat /\ formatedSize \in Int /\ headed \in BOOLEAN
    /\ unitNumber = Smaller(held, log.count) \/ log.count + held <= unitNumber + MaxUnitCount(log)
    /\ log.kind = "exv" => laps = 0 /\ unitNumber = held

SizeInv ==
    /\ \A l \in opened : Shaped(l) /\ Holds(l)
    /\ log = NoLog => held = 0 /\ unitNumber = 0 /\ formatedSize = 0 /\ headed = FALSE /\ laps = 0
    /\ log # NoLog => log \in opened
    /\ Announced => Counts /\ AnnouncedSize

\* What the configuration and its build give.
LEMMA PointFacts ==
    ASSUME InColumns, build \in Builds, points \in Points
    PROVE  /\ points.measure \in 0 .. 99 /\ points.frozen \in 0 .. 99
           /\ build.quarters \in {24, 96}
<1>1. build = DeviceBuild \/ build = FastBuild
      BY BuildAssumption
<1> QED  BY <1>1, PointsAssumption DEF InColumns, DeviceBuild, FastBuild

\* No log announces more lines.
Few == 0 .. 1024

\* A log's units: a region holds what its log promises, and a ring a block more.  That
\* of the extremes is never filled: a block has an even number of them, a file an odd.
Room ==
    /\ UnitPerBlock(log) \in Nat /\ UnitPerBlock(log) > 0
    /\ MaxUnitCount(log) \in Nat /\ UnitPerBlock(log) <= MaxUnitCount(log)
    /\ log.count \in Few /\ 1 <= log.count /\ log.count <= MaxUnitCount(log)
    /\ log.otp = TRUE \/ log.count + UnitPerBlock(log) <= MaxUnitCount(log)
    /\ log.kind = "exv" =>
           /\ log.otp = TRUE /\ log.count = 2 * points.measure + 3
           /\ MaxUnitCount(log) # log.count

\* The numbers of a log that has room.
LEMMA RoomNumbers ==
    ASSUME Room
    PROVE  /\ log.count \in Nat /\ log.count \in Few /\ 1 <= log.count
           /\ MaxUnitCount(log) \in Nat /\ MaxUnitCount(log) > 0
           /\ UnitPerBlock(log) \in Nat /\ UnitPerBlock(log) > 0
           /\ 0 \in 0 .. log.count /\ \A n \in 0 .. log.count : n \in Few
<1>1. PICK c \in Few : c = log.count /\ 1 <= c
      BY Zenon DEF Room
<1>2. PICK m \in Nat, u \in Nat : m = MaxUnitCount(log) /\ u = UnitPerBlock(log) /\ u > 0 /\ u <= m
      BY Zenon DEF Room
<1>3. m > 0
      BY SMT, <1>2
<1>4. c \in Nat /\ 0 \in 0 .. c
      BY SMT, <1>1 DEF Few
<1>5. \A n \in 0 .. c : n \in Few
      BY SMT DEF Few
<1> QED  BY Zenon, <1>1, <1>2, <1>3, <1>4, <1>5

LEMMA SizeFacts ==
    ASSUME InColumns, build \in Builds, points \in Points,
           Announced, Shaped(log), Holds(log)
    PROVE  Room
<1>1. points.measure \in 0 .. 99 /\ points.frozen \in 0 .. 99 /\ build.quarters \in {24, 96}
      BY PointFacts
<1>2. CASE log.kind = "soe"
  <2>1. log = Fixed[6]
        BY <1>2 DEF Shaped
  <2>2. log = Info("soe", 212, 6, 16, 1024, FALSE)
        BY SMT, <2>1 DEF Fixed
  <2>3. UnitPerBlock(log) = 252 /\ log.blocks = 6 /\ log.count = 1024
        BY SMT, <2>2 DEF Info, UnitPerBlock, Smaller, BlockSize, HeaderSize
  <2>4. MaxUnitCount(log) = 1512
        BY SMT, <2>3 DEF MaxUnitCount
  <2> QED  BY SMT, <1>2, <2>3, <2>4 DEF Room, Few
<1>3. CASE log.kind = "ulog"
  <2>1. log = Fixed[5]
        BY <1>3 DEF Shaped
  <2>2. log = Info("ulog", 192, 20, 74, 1024, FALSE)
        BY SMT, <2>1 DEF Fixed
  <2>3. UnitPerBlock(log) = 54 /\ log.blocks = 20 /\ log.count = 1024
        BY SMT, <2>2 DEF Info, UnitPerBlock, Smaller, BlockSize, HeaderSize
  <2>4. MaxUnitCount(log) = 1080
        BY SMT, <2>3 DEF MaxUnitCount
  <2> QED  BY SMT, <1>3, <2>3, <2>4 DEF Room, Few
<1>4. CASE log.kind = "co"
  <2>1. log = Fixed[7]
        BY <1>4 DEF Shaped
  <2>2. log = Info("co", 218, 2, 16, 15, FALSE)
        BY SMT, <2>1 DEF Fixed
  <2>3. UnitPerBlock(log) = 252 /\ log.count = 15
        BY SMT, <2>2 DEF Info, UnitPerBlock, Smaller, BlockSize, HeaderSize
  <2> QED  BY SMT, <2>3 DEF Announced
<1>5. CASE log.kind = "exv"
  <2>1. PICK base : log = Info("exv", base, BlocksFor(16, 2 * points.measure + 3), 16, 2 * points.measure + 3, TRUE)
        BY <1>5 DEF Shaped
  <2>2. /\ log.count = 2 * points.measure + 3 /\ log.otp = TRUE
        /\ log.blocks = BlocksFor(16, log.count) /\ UnitPerBlock(log) = 252
        BY SMT, <2>1 DEF Info, UnitPerBlock, Smaller, BlockSize, HeaderSize
  <2>3. log.blocks \in Nat /\ 252 * log.blocks >= log.count
        BY SMT, <1>1, <2>2 DEF BlocksFor, BlockSize, HeaderSize
  <2>4. MaxUnitCount(log) = 252 * log.blocks
        BY SMT, <2>2, <2>3 DEF MaxUnitCount
  <2>5. log.blocks >= 1
        BY SMT, <1>1, <2>2, <2>3
  <2> QED  BY SMT, <1>1, <1>5, <2>2, <2>3, <2>4, <2>5 DEF Room, Few
<1>6. \A unit, q, base, kind :
          /\ unit \in Nat /\ unit > 0 /\ q \in {24, 25, 96, 97} /\ (kind = "fixpt" \/ kind = "frz")
          /\ log = Info(kind, base, BlocksFor(12, q), unit, q, TRUE)
          => Room
  <2> TAKE unit, q, base, kind
  <2>0. HAVE /\ unit \in Nat /\ unit > 0 /\ q \in {24, 25, 96, 97} /\ (kind = "fixpt" \/ kind = "frz")
             /\ log = Info(kind, base, BlocksFor(12, q), unit, q, TRUE)
  <2>1. log.blocks = 1 /\ log.count = q /\ log.otp = TRUE /\ log.unit = unit /\ log.kind = kind
        /\ log.kind # "firmware" /\ log.kind # "exv"
        BY SMT, <2>0 DEF Info, BlocksFor, BlockSize, HeaderSize
  <2>6. q \in Nat /\ q >= 24 /\ q <= 97 /\ unit \in Nat /\ unit > 0
        BY SMT, <2>0
  <2>2. PICK d \in Nat : d = 4032 \div unit
        BY SMT, <2>6
  <2>3. UnitPerBlock(log) = Smaller(448, d)
    <3>1. UnitPerBlock(log) = Smaller(448, (BlockSize - HeaderSize) \div log.unit)
          BY Zenon, <2>1 DEF UnitPerBlock
    <3>2. BlockSize - HeaderSize = 4032
          BY DEF BlockSize, HeaderSize
    <3>3. (BlockSize - HeaderSize) \div log.unit = d
          BY SMT, <2>1, <2>2, <2>6, <3>2
    <3> QED  BY Zenon, <3>1, <3>3
  <2>4. UnitPerBlock(log) \in Nat /\ MaxUnitCount(log) = UnitPerBlock(log)
        BY SMT, <2>1, <2>2, <2>3 DEF MaxUnitCount, Smaller
  <2>5. log.count <= MaxUnitCount(log)
        BY SMT, <2>1, <2>4, <2>6 DEF Holds
  <2>7. log.count \in Few /\ 1 <= log.count /\ UnitPerBlock(log) > 0
        BY SMT, <2>1, <2>4, <2>5, <2>6 DEF Few
  <2> QED  BY SMT, <2>1, <2>4, <2>5, <2>7 DEF Room
<1>7. CASE log.kind = "fixpt"
  <2>1. PICK base : log = Info("fixpt", base, BlocksFor(12, build.quarters), 12 + 4 * points.measure, build.quarters, TRUE)
        BY <1>7 DEF Shaped
  <2>2. PICK unit \in Nat : unit = 12 + 4 * points.measure /\ unit > 0
        BY <1>1
  <2>3. PICK q \in {24, 25, 96, 97} : q = build.quarters
        BY <1>1
  <2>4. log = Info("fixpt", base, BlocksFor(12, q), unit, q, TRUE)
        BY Zenon, <2>1, <2>2, <2>3
  <2> QED  BY Zenon, <1>6, <2>2, <2>4
<1>8. CASE log.kind = "frz"
  <2>1. PICK base : log = Info("frz", base, BlocksFor(12, build.quarters + 1), 12 + 4 * points.frozen, build.quarters + 1, TRUE)
        BY <1>8 DEF Shaped
  <2>2. PICK unit \in Nat : unit = 12 + 4 * points.frozen /\ unit > 0
        BY <1>1
  <2>3. PICK q \in {24, 25, 96, 97} : q = build.quarters + 1
        BY <1>1
  <2>4. log = Info("frz", base, BlocksFor(12, q), unit, q, TRUE)
        BY Zenon, <2>1, <2>2, <2>3
  <2> QED  BY Zenon, <1>6, <2>2, <2>4
<1> QED  BY <1>2, <1>3, <1>4, <1>5, <1>7, <1>8 DEF Announced, Texts

-----------------------------------------------------------------------------
(* The lengths *)

\* The products of the lengths.
LEMMA Product ==
    ASSUME NEW a \in Int, NEW b \in Int, NEW r \in Int
    PROVE  /\ (a + b) * r = a * r + b * r /\ (a - b) * r = a * r - b * r
           /\ a * r \in Int /\ 0 * r = 0 /\ 1 * r = r
OBVIOUS

\* A nonempty set of numbers has a least one.
LEMMA Least ==
  ASSUME NEW S \in SUBSET Nat, S # {}
  PROVE  \E x \in S : \A y \in S : x <= y
<1> DEFINE R == OpToRel(<, Nat)
<1>1. IsWellFoundedOn(R, Nat)
  BY NatLessThanWellFounded
<1>2. \A x, y \in Nat : x < y => <<x, y>> \in R
  BY DEF OpToRel
<1> HIDE DEF R
<1>3. PICK x \in S : \A y \in S : <<y, x>> \notin R
  BY <1>1, WFMin
<1>4. \A y \in S : x \in Nat /\ y \in Nat /\ ~(y < x)
  BY <1>2, <1>3
<1> QED
  BY <1>3, <1>4

\* The text of n lines of extremes: three marks, and rows of a fixed length.
LEMMA ExvPieces ==
    ASSUME InColumns, build \in Builds, points \in Points
    PROVE  \E m \in 0 .. 99, R \in Nat :
               /\ m = points.measure
               /\ ExvText(0) = 0
               /\ \A n \in 1 .. m + 1 : ExvText(n) = 3 + (n - 1) * R
               /\ \A n \in m + 2 .. 2 * m + 2 : ExvText(n) = 8 + (n - 2) * R
               /\ ExvText(2 * m + 3) = 10 + (2 * m) * R
               /\ \A n \in Nat : ExvLen(n) = IF n = 0 THEN 3 ELSE IF n = m + 1 THEN 5
                                               ELSE IF n = 2 * m + 2 THEN 2 ELSE R
<1>1. PICK m \in 0 .. 99 : m = points.measure
      BY PointFacts
<1>2. PICK A \in Nat : A = Address
      BY TextAssumption DEF Address
<1>3. Pad(7, ValueLen) = 7 /\ Number(3, m) = 3
      BY <1>1, TextAssumption DEF InColumns, Pad, Number, Digits
<1>4. PICK R \in Nat : R = 33 + A
      BY <1>2
<1>5. 1 + Address + 1 + Pad(7, ValueLen) + 1 + Time = R /\ 1 + Address + 1 + 7 + 1 + Time = R
      BY <1>2, <1>3, <1>4 DEF Time
<1>6. \A n \in Nat : ExvLen(n) = IF n = 0 THEN 3 ELSE IF n = m + 1 THEN 5 ELSE IF n = 2 * m + 2 THEN 2 ELSE R
      BY SMT, <1>1, <1>5 DEF ExvLen
<1> DEFINE max(n) == IF n > 0 THEN 1 ELSE 0
           min(n) == IF n > m + 1 THEN 1 ELSE 0
           eof(n) == IF n > 2 * m + 2 THEN 1 ELSE 0
<1>7. \A n \in Nat : ExvText(n) = max(n) * 3 + min(n) * 5 + eof(n) * 2 + (n - max(n) - min(n) - eof(n)) * R
  <2>1. TAKE n \in Nat
  <2>2. ExvText(n) = max(n) * Number(3, m) + min(n) * (2 + Number(3, m)) + eof(n) * 2
                     + (n - max(n) - min(n) - eof(n)) * (1 + Address + 1 + Pad(7, ValueLen) + 1 + Time)
        BY SMT, <1>1 DEF ExvText
  <2>3. ExvText(n) = max(n) * 3 + min(n) * (2 + 3) + eof(n) * 2 + (n - max(n) - min(n) - eof(n)) * R
        BY <1>3, <1>5, <2>2
  <2> QED  BY <2>3
<1>8. ExvText(0) = 0
  <2>1. max(0) = 0 /\ min(0) = 0 /\ eof(0) = 0
        BY <1>1
  <2>2. (0 - 0 - 0 - 0) * R = 0
        BY <1>4
  <2> HIDE DEF max, min, eof
  <2> QED  BY <1>7, <2>1, <2>2
<1>9. \A n \in 1 .. m + 1 : ExvText(n) = 3 + (n - 1) * R
  <2>1. TAKE n \in 1 .. m + 1
  <2>2. max(n) = 1 /\ min(n) = 0 /\ eof(n) = 0 /\ n \in Nat
        BY <1>1
  <2>3. n - 1 - 0 - 0 = n - 1
        BY <2>2
  <2> HIDE DEF max, min, eof
  <2>4. ExvText(n) = 1 * 3 + 0 * 5 + 0 * 2 + (n - 1) * R
        BY <1>7, <2>2, <2>3
  <2>5. (n - 1) * R \in Int
        BY <1>4, <2>2
  <2> QED  BY <2>4, <2>5
<1>10. \A n \in m + 2 .. 2 * m + 2 : ExvText(n) = 8 + (n - 2) * R
  <2>1. TAKE n \in m + 2 .. 2 * m + 2
  <2>0. m \in Nat /\ n \in Nat /\ n > m + 1 /\ ~(n > 2 * m + 2) /\ n > 0
        OBVIOUS
  <2>2. max(n) = 1 /\ min(n) = 1 /\ eof(n) = 0 /\ n \in Nat
        BY <2>0
  <2>3. n - 1 - 1 - 0 = n - 2
        BY <2>2
  <2> HIDE DEF max, min, eof
  <2>4. ExvText(n) = 1 * 3 + 1 * 5 + 0 * 2 + (n - 2) * R
        BY <1>7, <2>2, <2>3
  <2>5. (n - 2) * R \in Int
        BY <1>4, <2>2
  <2> QED  BY <2>4, <2>5
<1>11. ExvText(2 * m + 3) = 10 + (2 * m) * R
  <2>1. max(2 * m + 3) = 1 /\ min(2 * m + 3) = 1 /\ eof(2 * m + 3) = 1 /\ 2 * m + 3 \in Nat
        BY <1>1
  <2>2. (2 * m + 3) - 1 - 1 - 1 = 2 * m
        BY <1>1
  <2> HIDE DEF max, min, eof
  <2>4. ExvText(2 * m + 3) = 1 * 3 + 1 * 5 + 1 * 2 + (2 * m) * R
        BY <1>7, <2>1, <2>2
  <2>5. (2 * m) * R \in Int
        BY <1>1, <1>4
  <2> QED  BY <2>4, <2>5
<1> QED  BY <1>1, <1>4, <1>6, <1>8, <1>9, <1>10, <1>11

\* A text of extremes grows by what its next line announces ...
LEMMA ExvGrows ==
    ASSUME InColumns, build \in Builds, points \in Points, NEW n \in 0 .. 2 * points.measure + 2
    PROVE  ExvText(n) \in Int /\ ExvLen(n) \in Int /\ ExvText(n + 1) = ExvText(n) + ExvLen(n)
<1>1. PICK m \in 0 .. 99, R \in Nat :
          /\ m = points.measure
          /\ ExvText(0) = 0
          /\ \A k \in 1 .. m + 1 : ExvText(k) = 3 + (k - 1) * R
          /\ \A k \in m + 2 .. 2 * m + 2 : ExvText(k) = 8 + (k - 2) * R
          /\ ExvText(2 * m + 3) = 10 + (2 * m) * R
          /\ \A k \in Nat : ExvLen(k) = IF k = 0 THEN 3 ELSE IF k = m + 1 THEN 5
                                         ELSE IF k = 2 * m + 2 THEN 2 ELSE R
      BY ExvPieces
<1>0. m \in Nat /\ R \in Nat
      OBVIOUS
<1>2. n \in Nat /\ n <= 2 * m + 2
      BY <1>1
<1>3. CASE n = 0
  <2>1. ExvText(1) = 3 + (1 - 1) * R /\ (1 - 1) * R = 0
        BY <1>1
  <2>2. ExvText(1) = 3 /\ ExvLen(0) = 3 /\ ExvText(0) = 0 /\ 0 + 1 = 1
        BY <1>1, <2>1
  <2> QED  BY <1>3, <2>2
<1>4. CASE n \in 1 .. m
  <2>1. ExvText(n) = 3 + (n - 1) * R /\ ExvText(n + 1) = 3 + ((n + 1) - 1) * R
        BY <1>1, <1>2, <1>4
  <2>2. ExvLen(n) = R
        BY <1>1, <1>2, <1>4
  <2>3. ((n + 1) - 1) * R = (n - 1) * R + R /\ (n - 1) * R \in Int
        BY <1>1, <1>2
  <2> QED  BY <1>1, <2>1, <2>2, <2>3
<1>5. CASE n = m + 1
  <2>1. ExvText(m + 1) = 3 + ((m + 1) - 1) * R
        BY <1>1
  <2>2. ExvText(m + 2) = 8 + ((m + 2) - 2) * R
    <3>1. m + 2 \in m + 2 .. 2 * m + 2
          BY <1>0
    <3> QED  BY <1>1, <3>1
  <2>3. ExvLen(m + 1) = 5
        BY <1>1
  <2>4. (m + 1) - 1 = m /\ (m + 2) - 2 = m /\ n + 1 = m + 2 /\ m * R \in Int
        BY <1>0, <1>5
  <2> QED  BY <1>5, <2>1, <2>2, <2>3, <2>4
<1>6. CASE n \in m + 2 .. 2 * m + 1
  <2>1. ExvText(n) = 8 + (n - 2) * R /\ ExvText(n + 1) = 8 + ((n + 1) - 2) * R
        BY <1>1, <1>2, <1>6
  <2>2. ExvLen(n) = R
        BY <1>1, <1>2, <1>6
  <2>3. ((n + 1) - 2) * R = (n - 2) * R + R /\ (n - 2) * R \in Int
        BY <1>1, <1>2
  <2> QED  BY <1>1, <2>1, <2>2, <2>3
<1>7. CASE n = 2 * m + 2
  <2>1. ExvText(n) = 8 + (n - 2) * R
        BY <1>1, <1>7
  <2>2. ExvLen(n) = 2
        BY <1>1, <1>7
  <2>3. n - 2 = 2 * m /\ n + 1 = 2 * m + 3
        BY <1>0, <1>7
  <2>4. (2 * m) * R \in Int
        BY <1>0
  <2> QED  BY <1>1, <2>1, <2>2, <2>3, <2>4
<1> QED  BY <1>1, <1>2, <1>3, <1>4, <1>5, <1>6, <1>7

\* ... so that what FSLOG_Open adds up is its length.
LEMMA ExvAdded ==
    ASSUME InColumns, build \in Builds, points \in Points, NEW n \in 0 .. 2 * points.measure + 3
    PROVE  ExvLens(n) = ExvText(n)
<1> DEFINE Adds(h) == h = [k \in 0 .. n |-> IF k = 0 THEN 0 ELSE h[k - 1] + ExvLen(k - 1)]
           g == [k \in 0 .. n |-> ExvText(k)]
           f == CHOOSE h : Adds(h)
<1>0. points.measure \in 0 .. 99 /\ n \in Nat
      BY PointFacts
<1>1. ExvText(0) = 0
  <2>1. ExvText(0) = (0 - 0 - 0 - 0) * (1 + Address + 1 + Pad(7, ValueLen) + 1 + Time)
        BY <1>0, TextAssumption DEF ExvText, Number, Pad, Digits, Time, Address
  <2> QED  BY <2>1, TextAssumption, Product DEF Pad, Address, Time
<1>2. \A k \in 1 .. n : ExvText(k) = ExvText(k - 1) + ExvLen(k - 1)
  <2>1. TAKE k \in 1 .. n
  <2>2. k - 1 \in 0 .. 2 * points.measure + 2 /\ (k - 1) + 1 = k
        BY <1>0
  <2> QED  BY <2>2, ExvGrows
<1>3. Adds(g)
  <2>1. \A k \in 0 .. n : g[k] = IF k = 0 THEN 0 ELSE g[k - 1] + ExvLen(k - 1)
        BY <1>0, <1>1, <1>2
  <2> QED  BY <2>1
<1>4. Adds(f)
      BY <1>3
<1>5. ExvLens(n) = f[n]
      BY DEF ExvLens
<1> HIDE DEF f, g
<1>6. \A k \in 0 .. n : f[k] = IF k = 0 THEN 0 ELSE f[k - 1] + ExvLen(k - 1)
      BY <1>4
<1>7. \A k \in 0 .. n : f[k] = ExvText(k)
  <2> DEFINE Wrong == {k \in 0 .. n : f[k] # ExvText(k)}
  <2> SUFFICES ASSUME Wrong # {} PROVE FALSE
      OBVIOUS
  <2>0. Wrong \in SUBSET Nat
        BY <1>0
  <2>1. PICK k \in Wrong : \A j \in Wrong : k <= j
    <3> HIDE DEF Wrong
    <3> QED  BY <2>0, Least
  <2>2. k # 0
        BY <1>0, <1>1, <1>6
  <2>3. k - 1 \in 0 .. n /\ k - 1 \notin Wrong
        BY <1>0, <2>1, <2>2
  <2> QED  BY <1>0, <1>2, <1>6, <2>1, <2>2, <2>3
<1> QED  BY <1>0, <1>5, <1>7

\* Every column of the numbers is wide enough.
LEMMA Columns ==
    ASSUME InColumns, build \in Builds, points \in Points
    PROVE  /\ Pad(24, TerminalLen) = 24 /\ Pad(7, ValueLen) = 7
           /\ \A n \in Few : Number(4, n) = 4 /\ Numbers(4, n) = 4 * n
           /\ \A n \in 0 .. 99 : Number(2, n) = 2
<1>1. Pad(24, TerminalLen) = 24 /\ Pad(7, ValueLen) = 7
      BY TextAssumption DEF InColumns, Pad
<1>2. \A n \in Few : Number(4, n) = 4
      BY DEF Number, Pad, Digits, Few
<1>3. \A n \in 0 .. 99 : Number(2, n) = 2
      BY DEF Number, Pad, Digits
<1>4. Powers[4] = 10000 /\ Powers[4 + 1] = 100000
      BY SMT DEF Powers
<1>5. \A n \in Few : Numbers(4, n) = 4 * n
      BY SMT, <1>4 DEF Numbers, Above, Few
<1> QED  BY <1>1, <1>2, <1>3, <1>5

\* A header is as long as announced, whatever number of units it prints.
LEMMA HeaderKnown ==
    ASSUME InColumns, build \in Builds, points \in Points,
           Announced, Shaped(log), Holds(log), NEW n \in 0 .. log.count
    PROVE  HeaderLen \in Int /\ HeaderText(n) = HeaderLen
<1>1. n \in Few
      BY Zenon, SizeFacts, RoomNumbers
<1>2. Pad(24, TerminalLen) = 24 /\ Number(4, n) = 4
      BY <1>1, Columns
<1>3. CASE log.kind = "soe"
  <2>1. HeaderLen = SoeHeaderLen /\ HeaderText(n) = SoeHeaderText(n)
        BY SMT, <1>3 DEF HeaderLen, HeaderText
  <2> QED  BY SMT, <1>2, <2>1 DEF SoeHeaderLen, SoeHeaderText, Version, Eol
<1>4. CASE log.kind = "ulog"
  <2>1. HeaderLen = UlogHeaderLen /\ HeaderText(n) = UlogHeaderText(n)
        BY SMT, <1>4 DEF HeaderLen, HeaderText
  <2> QED  BY SMT, <1>2, <2>1 DEF UlogHeaderLen, UlogHeaderText, Version, Eol
<1>5. CASE log.kind = "exv"
  <2>1. HeaderLen = ExvHeaderLen /\ HeaderText(n) = ExvHeaderText
        BY SMT, <1>5 DEF HeaderLen, HeaderText
  <2> QED  BY SMT, <1>2, <2>1 DEF ExvHeaderLen, ExvHeaderText, Version, Eol
<1>6. CASE log.kind = "fixpt" \/ log.kind = "frz"
  <2>1. log.count \in {24, 25, 96, 97}
    <3>1. build.quarters \in {24, 25, 96, 97} /\ build.quarters + 1 \in {24, 25, 96, 97}
          BY PointFacts
    <3>2. log.count = build.quarters \/ log.count = build.quarters + 1
          BY SMT, <1>6 DEF Shaped, Info
    <3> QED  BY <3>1, <3>2
  <2>2. Number(2, n) = 2
        BY <2>1, Columns
  <2>3. CASE log.kind = "fixpt"
    <3>1. HeaderLen = FixptHeaderLen /\ HeaderText(n) = FixptHeaderText(n)
          BY SMT, <2>3 DEF HeaderLen, HeaderText
    <3> QED  BY SMT, <1>2, <2>2, <3>1 DEF FixptHeaderLen, FixptHeaderText, Version, Eol
  <2>4. CASE log.kind = "frz"
    <3>1. HeaderLen = FrzHeaderLen /\ HeaderText(n) = FrzHeaderText(n)
          BY SMT, <2>4 DEF HeaderLen, HeaderText
    <3> QED  BY SMT, <1>2, <2>2, <3>1 DEF FrzHeaderLen, FrzHeaderText, Version, Eol
  <2> QED  BY <1>6, <2>3, <2>4
<1>7. log.kind # "co"
  <2> SUFFICES ASSUME log.kind = "co" PROVE FALSE
      OBVIOUS
  <2>1. log = Fixed[7]
        BY DEF Shaped
  <2>2. log = Info("co", 218, 2, 16, 15, FALSE)
        BY SMT, <2>1 DEF Fixed
  <2>3. UnitPerBlock(log) = 252 /\ log.count = 15
        BY SMT, <2>2 DEF Info, UnitPerBlock, Smaller, BlockSize, HeaderSize
  <2> QED  BY SMT, <2>3 DEF Announced
<1>8. log.kind \in Texts
      BY DEF Announced
<1> QED  BY Zenon, <1>3, <1>4, <1>5, <1>6, <1>7, <1>8 DEF Texts

\* All lines but those of the extremes have one length, the one announced.
LEMMA LinesAlike ==
    ASSUME InColumns, build \in Builds, points \in Points,
           Announced, Shaped(log), Holds(log), log.kind # "exv"
    PROVE  \E L \in Int : \A n \in 0 .. log.count :
               DataLen(n) = L /\ DataText(n) = n * L /\ DataLens(n) = n * L
<1>1. log.count \in Nat /\ \A n \in 0 .. log.count : n \in Few
      BY Zenon, SizeFacts, RoomNumbers
<1>2. Address \in Int
      BY TextAssumption DEF Address
<1>3. \A n : DataLens(n) = n * DataLen(0)
      BY SMT DEF DataLens
<1>4. CASE log.kind = "soe"
  <2>1. PICK L \in Int : L = SoeLen
        BY <1>2 DEF SoeLen, Time, Eol
  <2>2. \A n : DataLen(n) = L /\ DataText(n) = SoeText(n)
        BY SMT, <1>4, <2>1 DEF DataLen, DataText
  <2>3. \A n \in Few : SoeText(n) = n * L
    <3>1. TAKE n \in Few
    <3>2. PICK M \in Int : M = 6 + Address + 3 + Time + Eol /\ L = M + 4
          BY <1>2, <2>1 DEF SoeLen, Time, Eol
    <3>3. SoeText(n) = n * M + Numbers(4, n)
          BY SMT, <3>2 DEF SoeText
    <3>4. Numbers(4, n) = 4 * n
          BY Zenon, Columns
    <3>5. n * M + 4 * n = n * (M + 4)
          BY SMT, <3>2 DEF Few
    <3> QED  BY Zenon, <3>2, <3>3, <3>4, <3>5
  <2>4. \A n : DataLens(n) = n * L
        BY Zenon, <1>3, <2>2
  <2>5. \A n \in 0 .. log.count : DataLen(n) = L /\ DataText(n) = n * L /\ DataLens(n) = n * L
    <3>1. TAKE n \in 0 .. log.count
    <3>2. n \in Few
          BY Zenon, <1>1
    <3>3. SoeText(n) = n * L
          BY Zenon, <2>3, <3>2
    <3> QED  BY Zenon, <2>2, <2>4, <3>3
  <2> QED  BY Zenon, <2>5
<1>5. CASE log.kind = "ulog"
  <2>1. PICK L \in Int : L = UlogLen
        BY DEF UlogLen, Time, Eol
  <2>2. \A n : DataLen(n) = L /\ DataText(n) = n * L
        BY SMT, <1>5, <2>1 DEF DataLen, DataText
  <2>3. \A n : DataLens(n) = n * L
        BY Zenon, <1>3, <2>2
  <2>4. \A n \in 0 .. log.count : DataLen(n) = L /\ DataText(n) = n * L /\ DataLens(n) = n * L
        BY Zenon, <2>2, <2>3
  <2> QED  BY Zenon, <2>4
<1>6. ASSUME NEW count \in 0 .. 99, NEW n
      PROVE  DayLen(count) \in Int /\ DayText(count, n) = n * DayLen(count)
  <2>2. Number(2, count) = 2 /\ Pad(7, ValueLen) = 7
        BY Columns
  <2>3. PICK K \in Int : K = 1 + Address + 1 + 7
        BY <1>2
  <2>4. PICK P \in Int : P = K * count
        BY <2>3
  <2>5. DayLen(count) = 2 + 1 + Time + P + Eol
        BY Zenon, <2>3, <2>4 DEF DayLen
  <2>6. DayText(count, n) = n * (2 + 1 + Time + P + Eol)
        BY Zenon, <2>2, <2>3, <2>4 DEF DayText
  <2>7. DayLen(count) \in Int
        BY <2>4, <2>5 DEF Time, Eol
  <2> QED  BY Zenon, <2>5, <2>6, <2>7
<1>7. points.measure \in 0 .. 99 /\ points.frozen \in 0 .. 99
      BY PointFacts
<1>8. CASE log.kind = "fixpt"
  <2>1. PICK L \in Int : L = DayLen(points.measure)
        BY <1>6, <1>7
  <2>2. \A n : DataLen(n) = L /\ DataText(n) = DayText(points.measure, n)
        BY SMT, <1>8, <2>1 DEF DataLen, DataText
  <2>3. \A n : DataText(n) = n * L
        BY Zenon, <1>6, <1>7, <2>1, <2>2
  <2>4. \A n : DataLens(n) = n * L
        BY Zenon, <1>3, <2>2
  <2>5. \A n \in 0 .. log.count : DataLen(n) = L /\ DataText(n) = n * L /\ DataLens(n) = n * L
        BY Zenon, <2>2, <2>3, <2>4
  <2> QED  BY Zenon, <2>5
<1>9. CASE log.kind = "frz"
  <2>1. PICK L \in Int : L = DayLen(points.frozen)
        BY <1>6, <1>7
  <2>2. \A n : DataLen(n) = L /\ DataText(n) = DayText(points.frozen, n)
        BY SMT, <1>9, <2>1 DEF DataLen, DataText
  <2>3. \A n : DataText(n) = n * L
        BY Zenon, <1>6, <1>7, <2>1, <2>2
  <2>4. \A n : DataLens(n) = n * L
        BY Zenon, <1>3, <2>2
  <2>5. \A n \in 0 .. log.count : DataLen(n) = L /\ DataText(n) = n * L /\ DataLens(n) = n * L
        BY Zenon, <2>2, <2>3, <2>4
  <2> QED  BY Zenon, <2>5
<1>10. log.kind # "co"
  <2> SUFFICES ASSUME log.kind = "co" PROVE FALSE
      OBVIOUS
  <2>1. log = Fixed[7]
        BY DEF Shaped
  <2>2. log = Info("co", 218, 2, 16, 15, FALSE)
        BY SMT, <2>1 DEF Fixed
  <2>3. UnitPerBlock(log) = 252 /\ log.count = 15
        BY SMT, <2>2 DEF Info, UnitPerBlock, Smaller, BlockSize, HeaderSize
  <2> QED  BY SMT, <2>3 DEF Announced
<1>11. log.kind \in Texts /\ log.kind # "exv"
      BY DEF Announced
<1> QED  BY Zenon, <1>4, <1>5, <1>8, <1>9, <1>10, <1>11 DEF Texts

\* Of every announced log: the text begins empty, grows by what is announced of the next
\* record, and is what FSLOG_Open adds up.
LEMMA TextGrows ==
    ASSUME InColumns, build \in Builds, points \in Points,
           Announced, Shaped(log), Holds(log)
    PROVE  /\ \A n \in 0 .. log.count :
                  DataText(n) \in Int /\ DataLens(n) = DataText(n)
           /\ DataText(0) = 0 /\ DataLen(0) \in Int
           /\ \A n \in 0 .. log.count - 1 : DataLen(n) \in Int /\ DataText(n + 1) = DataText(n) + DataLen(n)
           /\ log.kind # "exv" =>
                  \A n \in 0 .. log.count : DataText(n) = n * DataLen(0)
<1>1. log.count \in Nat /\ 1 <= log.count
      BY Zenon, SizeFacts, RoomNumbers
<1>2. CASE log.kind # "exv"
  <2>1. PICK L \in Int : \A n \in 0 .. log.count : DataLen(n) = L /\ DataText(n) = n * L /\ DataLens(n) = n * L
        BY <1>2, LinesAlike
  <2>2. \A n \in 0 .. log.count - 1 : DataText(n + 1) = DataText(n) + DataLen(n)
    <3>1. TAKE n \in 0 .. log.count - 1
    <3>2. n \in 0 .. log.count /\ n + 1 \in 0 .. log.count /\ n \in Int
          BY <1>1
    <3>3. DataText(n) = n * L /\ DataLen(n) = L /\ DataText(n + 1) = (n + 1) * L
          BY <2>1, <3>2
    <3> QED  BY <3>2, <3>3
  <2>3. \A n \in 0 .. log.count : n * L \in Int
        BY <1>1
  <2>4. 0 \in 0 .. log.count /\ 0 * L = 0
        BY <1>1
  <2>5. DataText(0) = 0 /\ DataLen(0) = L
        BY <2>1, <2>4
  <2>6. \A n \in 0 .. log.count - 1 : n \in 0 .. log.count
        BY <1>1
  <2> QED  BY Zenon, <2>1, <2>2, <2>3, <2>5, <2>6
<1>3. CASE log.kind = "exv"
  <2>1. log.count = 2 * points.measure + 3 /\ points.measure \in Nat
        BY <1>3, SizeFacts, PointFacts DEF Room
  <2>2. \A n : DataText(n) = ExvText(n) /\ DataLen(n) = ExvLen(n) /\ DataLens(n) = ExvLens(n)
        BY SMT, <1>3 DEF DataText, DataLen, DataLens
  <2>3. \A n \in 0 .. log.count - 1 : ExvText(n) \in Int /\ ExvLen(n) \in Int /\ ExvText(n + 1) = ExvText(n) + ExvLen(n)
    <3>1. TAKE n \in 0 .. log.count - 1
    <3>2. n \in 0 .. 2 * points.measure + 2
          BY <2>1
    <3> QED  BY <3>2, ExvGrows
  <2>4. \A n \in 0 .. log.count : ExvText(n) \in Int
    <3>1. TAKE n \in 0 .. log.count
    <3>2. CASE n < log.count
      <4>1. n \in 0 .. log.count - 1
            BY <1>1, <3>2
      <4> QED  BY <2>3, <4>1
    <3>3. CASE n = log.count
      <4>1. log.count - 1 \in 0 .. log.count - 1 /\ (log.count - 1) + 1 = n
            BY <1>1, <3>3
      <4>2. ExvText((log.count - 1) + 1) \in Int
            BY <2>3, <4>1
      <4> QED  BY <4>1, <4>2
    <3> QED  BY <1>1, <3>2, <3>3
  <2>5. \A n \in 0 .. log.count : ExvLens(n) = ExvText(n)
        BY <2>1, ExvAdded
  <2>6. ExvText(0) = 0
        BY ExvPieces
  <2>7. 0 \in 0 .. log.count - 1
        BY <1>1
  <2> QED  BY Zenon, <1>3, <2>2, <2>3, <2>4, <2>5, <2>6, <2>7
<1> QED  BY <1>2, <1>3

-----------------------------------------------------------------------------
(* The invariant *)

\* A log in use, as the layout has left it.
Laid == build \in Builds /\ points \in Points /\ Announced /\ Shaped(log) /\ Holds(log)

\* An empty log announces no header and has nothing else.
Emptied == held = 0 /\ unitNumber = 0 /\ formatedSize = 0 /\ headed = FALSE /\ laps = 0

LEMMA EmptySize ==
    ASSUME InColumns
    PROVE  Laid /\ Emptied => Counts /\ AnnouncedSize
<1> SUFFICES ASSUME Laid, Emptied PROVE Counts /\ AnnouncedSize
    OBVIOUS
<1>1. Room /\ HeaderLen \in Int /\ HeaderText(0) = HeaderLen /\ DataText(0) = 0 /\ DataLen(0) \in Int
  <2>1. Room
        BY SizeFacts DEF Laid
  <2>2. 0 \in 0 .. log.count
        BY Zenon, <2>1, RoomNumbers
  <2> QED  BY <2>1, <2>2, HeaderKnown, TextGrows DEF Laid
<1>2. Counts
  <2>1. PICK c \in Nat, M \in Nat : c = log.count /\ M = MaxUnitCount(log) /\ M > 0
    <3>1. log.count \in Nat /\ MaxUnitCount(log) \in Nat /\ MaxUnitCount(log) > 0
          BY Zenon, <1>1, RoomNumbers
    <3> QED  BY Zenon, <3>1
  <2>2. Smaller(0, c) = 0 /\ 0 \in 0 .. c /\ 0 < M
        BY <2>1 DEF Smaller
  <2>3. 0 \in Nat /\ 0 \in Int /\ FALSE \in BOOLEAN
        OBVIOUS
  <2> QED  BY Zenon, <2>1, <2>2, <2>3 DEF Counts, Emptied
<1>3. 0 * UnitPerBlock(log) * DataLen(0) = 0
  <2>1. PICK u \in Nat, d \in Int : u = UnitPerBlock(log) /\ d = DataLen(0)
        BY Zenon, <1>1, RoomNumbers
  <2>2. 0 * u * d = 0
        BY SMT, <2>1
  <2> QED  BY Zenon, <2>1, <2>2
<1>4. AnnouncedSize
      BY SMT, <1>1, <1>3 DEF Emptied, AnnouncedSize
<1> QED  BY <1>2, <1>4

\* What FSLOG_Open adds up is the header and the text, unless the log is empty.
Reopened ==
    /\ held \in Nat /\ held < MaxUnitCount(log)
    /\ unitNumber = Smaller(held, log.count)
    /\ formatedSize = ReopenedSize(unitNumber) /\ headed = (held # 0) /\ laps = 0
    /\ log.kind = "exv" => held = unitNumber

LEMMA ReopenSize ==
    ASSUME InColumns
    PROVE  Laid /\ Reopened => Counts /\ AnnouncedSize
<1> SUFFICES ASSUME Laid, Reopened PROVE Counts /\ AnnouncedSize
    OBVIOUS
<1>1. Room
      BY SizeFacts DEF Laid
<1>2. PICK n \in 0 .. log.count : n = unitNumber
  <2>1. PICK c \in Nat, h \in Nat : c = log.count /\ h = held
    <3>1. log.count \in Nat /\ held \in Nat
          BY Zenon, <1>1, RoomNumbers DEF Reopened
    <3> QED  BY Zenon, <3>1
  <2>2. Smaller(h, c) \in 0 .. c
        BY DEF Smaller
  <2> QED  BY <2>1, <2>2 DEF Reopened
<1>3. /\ HeaderLen \in Int /\ HeaderText(n) = HeaderLen /\ DataText(n) \in Int /\ DataLens(n) = DataText(n)
      /\ DataText(0) = 0 /\ DataLen(0) \in Int
      BY <1>2, HeaderKnown, TextGrows DEF Laid
<1>4. n = 0 <=> held = 0
      BY SMT, <1>1, <1>2 DEF Room, Reopened, Smaller
<1>5. log.kind \in Formatted
      BY DEF Laid, Announced, Formatted
<1>6. formatedSize = IF n # 0 THEN HeaderLen + DataLens(n) ELSE 0
      BY Zenon, <1>2, <1>5 DEF Reopened, ReopenedSize
<1>7. headed \in BOOLEAN /\ (headed <=> n # 0)
      BY Zenon, <1>4 DEF Reopened
<1>8. Counts
  <2>1. formatedSize \in Int
        BY <1>3, <1>6
  <2> QED  BY <1>1, <1>2, <1>7, <2>1 DEF Counts, Reopened
<1>9. laps * UnitPerBlock(log) * DataLen(0) = 0
      BY <1>1, <1>3 DEF Room, Reopened
<1>10. formatedSize + (IF headed THEN 0 ELSE HeaderLen) = HeaderText(n) + DataText(n)
  <2>1. CASE n = 0
        BY <1>3, <1>6, <1>7, <2>1
  <2>2. CASE n # 0
        BY <1>3, <1>6, <1>7, <2>2
  <2> QED  BY <2>1, <2>2
<1>11. formatedSize + (IF headed THEN 0 ELSE HeaderLen)
           = HeaderText(n) + DataText(n) + laps * UnitPerBlock(log) * DataLen(0)
      BY <1>3, <1>9, <1>10
<1>12. AnnouncedSize
      BY Zenon, <1>2, <1>11 DEF AnnouncedSize
<1> QED  BY <1>8, <1>12

\* The lengths of a text depend on the log and the points only.
LEMMA SameLengths ==
    ASSUME log' = log, points' = points, NEW n
    PROVE  /\ HeaderLen' = HeaderLen /\ HeaderText(n)' = HeaderText(n)
           /\ DataText(n)' = DataText(n) /\ DataLen(n)' = DataLen(n)
           /\ ExvLens(n)' = ExvLens(n) /\ DataLens(n)' = DataLens(n)
<1>1. HeaderLen' = HeaderLen
      BY SMT DEF HeaderLen
<1>2. HeaderText(n)' = HeaderText(n)
      BY SMT DEF HeaderText
<1>3. ExvText(n)' = ExvText(n)
      BY SMT DEF ExvText
<1>4. ExvLen(n)' = ExvLen(n)
      BY SMT DEF ExvLen
<1>5. DataText(n)' = DataText(n)
      BY SMT, <1>3 DEF DataText
<1>6. DataLen(n)' = DataLen(n)
      BY SMT, <1>4 DEF DataLen
<1>7. ExvLens(n)' = ExvLens(n)
      BY SMT DEF ExvLens, ExvLen
<1>8. DataLens(n)' = DataLens(n)
      BY SMT, <1>6, <1>7 DEF DataLens, DataLen, ExvLen
<1> QED  BY <1>1, <1>2, <1>5, <1>6, <1>7, <1>8

\* Announced sizes in numbers: n units after the next step, of which lp blocks were
\* recycled before.
LEMMA SizeAfter ==
    ASSUME log' = log, points' = points, NEW n, unitNumber' = n, headed' = headed,
           formatedSize' + (IF headed THEN 0 ELSE HeaderLen)
               = HeaderText(n) + DataText(n) + laps' * UnitPerBlock(log) * DataLen(0)
    PROVE  AnnouncedSize'
<1>1. HeaderLen' = HeaderLen /\ HeaderText(n)' = HeaderText(n) /\ DataText(n)' = DataText(n)
      /\ DataLen(0)' = DataLen(0)
      BY SameLengths
<1>2. HeaderText(unitNumber)' = HeaderText(n) /\ DataText(unitNumber)' = DataText(n)
      BY <1>1
<1>3. UnitPerBlock(log)' = UnitPerBlock(log)
      BY DEF UnitPerBlock
<1> QED  BY Zenon, <1>1, <1>2, <1>3 DEF AnnouncedSize

\* A write counts the line it adds, and a recycled block as if it were still there.
LEMMA WriteSize ==
    ASSUME InColumns, Laid, Counts, AnnouncedSize, Write
    PROVE  Counts' /\ AnnouncedSize'
<1>1. Room
      BY SizeFacts DEF Laid
<1>2. PICK c \in Nat, M \in Nat, u \in Nat :
          c = log.count /\ M = MaxUnitCount(log) /\ u = UnitPerBlock(log)
  <2>1. log.count \in Nat /\ MaxUnitCount(log) \in Nat /\ UnitPerBlock(log) \in Nat
        BY Zenon, <1>1, RoomNumbers
  <2> QED  BY Zenon, <2>1
<1>3. /\ u > 0 /\ u <= M /\ c >= 1 /\ c <= M
      /\ log.otp = TRUE \/ c + u <= M
      /\ log.kind = "exv" => log.otp = TRUE /\ M # c
      /\ u <= c
      BY <1>1, <1>2 DEF Room, Laid, Announced
<1>4. PICK n \in Nat, h \in Nat, lp \in Nat, size \in Int :
          n = unitNumber /\ h = held /\ lp = laps /\ size = formatedSize
      BY DEF Counts
<1>5. /\ n <= c /\ h < M /\ headed \in BOOLEAN
      /\ n = Smaller(h, c) \/ c + h <= n + M
      /\ log.kind = "exv" => lp = 0 /\ n = h
      BY <1>2, <1>4 DEF Counts
<1>6. log' = log /\ points' = points /\ headed' = headed /\ UnitPerBlock(log)' = u
      /\ MaxUnitCount(log)' = M /\ log'.count = c /\ log'.kind = log.kind
      BY <1>2 DEF Write, layoutVars, UnitPerBlock, MaxUnitCount
<1>7. log.otp = TRUE => n < c
      BY <1>2, <1>4, <1>5 DEF Write, Refused
<1>8. PICK A \in Nat : A = IF n < c THEN n + 1 ELSE n
      OBVIOUS
<1>9. A <= c /\ A <= n + 1 /\ n <= A
      BY <1>5, <1>8
<1>10. PICK s \in Int : /\ s = IF n < c THEN size + DataLen(n) ELSE size
                        /\ s + (IF headed THEN 0 ELSE HeaderLen)
                               = HeaderLen + DataText(A) + lp * u * DataLen(0)
  <2>1. /\ HeaderLen \in Int /\ HeaderText(n) = HeaderLen /\ DataText(n) \in Int
        /\ DataLen(0) \in Int
        /\ n < c => DataLen(n) \in Int /\ DataText(n + 1) = DataText(n) + DataLen(n)
    <3>1. n \in 0 .. log.count /\ (n < c => n \in 0 .. log.count - 1)
          BY <1>2, <1>5
    <3> QED  BY <3>1, HeaderKnown, TextGrows DEF Laid
  <2>2. PICK hd \in Int : hd = IF headed THEN 0 ELSE HeaderLen
        BY <2>1
  <2>3. PICK r \in Int : r = lp * u * DataLen(0)
        BY <2>1
  <2>4. size + hd = HeaderLen + DataText(n) + r
        BY Zenon, <1>2, <1>4, <2>1, <2>2, <2>3 DEF AnnouncedSize, Laid, Announced
  <2>5. CASE n < c
    <3>1. DataText(A) = DataText(n) + DataLen(n) /\ size + DataLen(n) \in Int /\ DataLen(n) \in Int
          BY <1>8, <2>1, <2>5
    <3>2. (size + DataLen(n)) + hd = HeaderLen + DataText(A) + r
          BY <2>1, <2>4, <3>1
    <3> QED  BY <2>2, <2>3, <2>5, <3>1, <3>2
  <2>6. CASE ~(n < c)
    <3>1. A = n
          BY <1>8, <2>6
    <3> QED  BY <2>2, <2>3, <2>4, <2>6, <3>1
  <2> QED  BY <2>5, <2>6
<1>11. formatedSize' = s /\ Available = A
      BY Zenon, <1>2, <1>4, <1>8, <1>10 DEF Write, Counted, Available
<1>12. CASE h + 1 # M
  <2>1. held' = h + 1 /\ unitNumber' = A /\ laps' = lp
        BY <1>2, <1>4, <1>11, <1>12 DEF Write
  <2>2. HeaderText(A) = HeaderLen
    <3>1. A \in 0 .. log.count
          BY <1>2, <1>9
    <3> QED  BY <3>1, HeaderKnown DEF Laid
  <2>3. AnnouncedSize'
        BY Zenon, <1>2, <1>6, <1>10, <1>11, <2>1, <2>2, SizeAfter
  <2>4. A = Smaller(h + 1, c) \/ c + (h + 1) <= A + M
    <3>1. CASE n = Smaller(h, c)
          BY <1>5, <1>8, <3>1 DEF Smaller
    <3>2. CASE c + h <= n + M
          BY <1>3, <1>5, <1>8, <1>12, <3>2
    <3> QED  BY <1>5, <3>1, <3>2
  <2>5. h + 1 < M
        BY <1>5, <1>12
  <2>6. log.kind = "exv" => lp = 0 /\ A = h + 1
        BY <1>3, <1>5, <1>7, <1>8
  <2>7. Smaller(held, log.count)' = Smaller(h + 1, c)
        BY <1>6, <2>1 DEF Smaller
  <2> QED  BY <1>5, <1>6, <1>9, <1>10, <1>11, <2>1, <2>3, <2>4, <2>5, <2>6, <2>7 DEF Counts
<1>13. CASE h + 1 = M
  <2>1. held' = h + 1 - u /\ unitNumber' = (A + W - u) % W /\ laps' = lp + 1
        BY <1>2, <1>4, <1>11, <1>13 DEF Write
  <2>2. A = c
    <3>1. CASE n = Smaller(h, c)
          BY <1>3, <1>5, <1>8, <1>13, <3>1 DEF Smaller
    <3>2. CASE c + h <= n + M
          BY <1>3, <1>5, <1>8, <1>13, <3>2
    <3> QED  BY <1>5, <3>1, <3>2
  <2>3. PICK k \in Nat : k = A - u
        BY <1>3, <2>2
  <2>4. unitNumber' = k
    <3>1. W \in Nat /\ W > 2000
          BY TextAssumption DEF InColumns
    <3>2. A + W - u = k + W /\ k < W /\ k >= 0
      <4>1. c \in Few
            BY Zenon, <1>1, <1>2, RoomNumbers
      <4> QED  BY SMT, <1>3, <2>2, <2>3, <3>1, <4>1 DEF Few
    <3>3. (k + W) % W = k
          BY <3>1, <3>2
    <3> QED  BY <2>1, <3>2, <3>3
  <2>5. log.kind # "exv"
    <3> SUFFICES ASSUME log.kind = "exv" PROVE FALSE
        OBVIOUS
    <3>1. n = h /\ n < c /\ M # c
          BY <1>3, <1>5, <1>7
    <3> QED  BY <1>3, <1>13, <3>1
  <2>6. /\ DataText(A) = A * DataLen(0) /\ DataText(k) = k * DataLen(0) /\ HeaderText(k) = HeaderLen
        /\ HeaderLen \in Int /\ DataLen(0) \in Int
    <3>1. A \in 0 .. log.count /\ k \in 0 .. log.count
          BY <1>2, <1>9, <2>3
    <3> QED  BY <2>5, <3>1, HeaderKnown, TextGrows DEF Laid
  <2>7. s + (IF headed THEN 0 ELSE HeaderLen) = HeaderLen + k * DataLen(0) + (lp + 1) * u * DataLen(0)
    <3>1. PICK L \in Int : L = DataLen(0)
          BY <2>6
    <3>2. A * L = k * L + u * L /\ (lp + 1) * u * L = lp * u * L + u * L
      <4>1. A = k + u /\ (lp + 1) * u = lp * u + u /\ lp * u \in Int
            BY <2>3
      <4>2. (k + u) * L = k * L + u * L
            BY Product
      <4>3. (lp * u + u) * L = (lp * u) * L + u * L
            BY <4>1, Product
      <4> QED  BY <4>1, <4>2, <4>3
    <3>3. k * L \in Int /\ u * L \in Int /\ lp * u * L \in Int
          OBVIOUS
    <3>4. HeaderLen + A * L + lp * u * L = HeaderLen + k * L + (lp + 1) * u * L
          BY <2>6, <3>2, <3>3
    <3>5. s + (IF headed THEN 0 ELSE HeaderLen) = HeaderLen + A * L + lp * u * L
          BY Zenon, <1>10, <2>6, <3>1
    <3> QED  BY Zenon, <3>1, <3>4, <3>5
  <2>8. AnnouncedSize'
        BY Zenon, <1>2, <1>6, <1>11, <2>1, <2>4, <2>6, <2>7, SizeAfter
  <2>9. c + (h + 1 - u) <= k + M
        BY <1>13, <2>2, <2>3
  <2>10. h + 1 - u \in Nat /\ h + 1 - u < M /\ k <= c /\ lp + 1 \in Nat
        BY <1>3, <1>13, <2>2, <2>3
  <2> QED  BY <1>5, <1>6, <1>10, <1>11, <2>1, <2>4, <2>5, <2>8, <2>9, <2>10 DEF Counts
<1> QED  BY <1>12, <1>13

\* FSMID_CreateLogs opens the logs of the table, and the day files as they were laid.
LEMMA StaticShaped ==
    ASSUME NEW n \in 0 .. 16
    PROVE  Shaped(Static(n))
<1>1. CASE n \in 12 .. 16
  <2>1. Static(n).kind = "dat"
        BY SMT, <1>1 DEF Static, Info
  <2> QED  BY <2>1 DEF Shaped
<1>2. CASE n \in 7 .. 11
  <2>1. Static(n).kind = "cfg"
        BY SMT, <1>2 DEF Static, Info
  <2> QED  BY <2>1 DEF Shaped
<1>3. CASE n \in 0 .. 6
  <2>1. Static(n) = Fixed[n + 1]
    <3>1. n < 7 /\ ~(n \in 7 .. 11)
          BY <1>3
    <3> QED  BY <3>1 DEF Static
  <2>2. /\ Fixed[1].kind = "firmware" /\ Fixed[2].kind = "rawsoe" /\ Fixed[3].kind = "rawtrd"
        /\ Fixed[4].kind = "print" /\ Fixed[5].kind = "ulog" /\ Fixed[6].kind = "soe"
        /\ Fixed[7].kind = "co"
        BY SMT DEF Fixed, Info
  <2>3. n = 0 \/ n = 1 \/ n = 2 \/ n = 3 \/ n = 4 \/ n = 5 \/ n = 6
        BY <1>3
  <2>4. \/ n = 0 /\ Static(n) = Fixed[1]
        \/ n = 1 /\ Static(n) = Fixed[2]
        \/ n = 2 /\ Static(n) = Fixed[3]
        \/ n = 3 /\ Static(n) = Fixed[4]
        \/ n = 4 /\ Static(n) = Fixed[5]
        \/ n = 5 /\ Static(n) = Fixed[6]
        \/ n = 6 /\ Static(n) = Fixed[7]
        BY <2>1, <2>3
  <2> QED  BY Zenon, <2>2, <2>4 DEF Shaped
<1> QED  BY <1>1, <1>2, <1>3

LEMMA DayShaped ==
    ASSUME NEW kind \in Kinds
    PROVE  Shaped(DayFile(kind))
<1>1. CASE kind = "exv"
  <2>1. DayFile(kind) = Info("exv", address, BlocksFor(16, 2 * points.measure + 3), 16, 2 * points.measure + 3, TRUE)
        BY SMT, <1>1 DEF DayFile, Template, UnitsPerFile, RecordSize
  <2>2. DayFile(kind).kind = "exv"
        BY SMT, <2>1 DEF Info
  <2> QED  BY <2>1, <2>2 DEF Shaped
<1>2. CASE kind = "fixpt"
  <2>1. DayFile(kind) = Info("fixpt", address, BlocksFor(12, build.quarters), 12 + 4 * points.measure, build.quarters, TRUE)
        BY SMT, <1>2 DEF DayFile, Template, UnitsPerFile, RecordSize, PointsOf
  <2>2. DayFile(kind).kind = "fixpt"
        BY SMT, <2>1 DEF Info
  <2> QED  BY <2>1, <2>2 DEF Shaped
<1>3. CASE kind = "frz"
  <2>1. DayFile(kind) = Info("frz", address, BlocksFor(12, build.quarters + 1), 12 + 4 * points.frozen, build.quarters + 1, TRUE)
        BY SMT, <1>3 DEF DayFile, Template, UnitsPerFile, RecordSize, PointsOf
  <2>2. DayFile(kind).kind = "frz"
        BY SMT, <2>1 DEF Info
  <2> QED  BY <2>1, <2>2 DEF Shaped
<1> QED  BY <1>1, <1>2, <1>3 DEF Kinds

\* Every log that a boot opens has its shape and holds what it promises.
LEMMA LogsShaped ==
    ASSUME LayoutTypeOK, \A l \in opened : Shaped(l) /\ Holds(l), [LayoutNext]_layoutVars
    PROVE  /\ \A l \in opened' : Shaped(l)' /\ Holds(l)
           /\ opened \subseteq opened' /\ points' = points /\ build' = build
<1>1. points' = points /\ build' = build
      BY DEF LayoutNext, OpenStatic, LayFile, NextPart, layoutVars
<1>2. \A l : Shaped(l)' <=> Shaped(l)
      BY <1>1 DEF Shaped
<1>3. \/ opened' = opened
      \/ \E l : opened' = opened \cup {l} /\ Shaped(l) /\ Holds(l)
  <2>1. CASE OpenStatic
    <3>1. i \in 0 .. 16
          BY <2>1 DEF OpenStatic, LayoutTypeOK, NumStatic
    <3>2. opened' = opened \/ (opened' = opened \cup {Static(i)} /\ Holds(Static(i)))
          BY <2>1 DEF OpenStatic, Open
    <3> QED  BY <3>1, <3>2, StaticShaped
  <2>2. ASSUME NEW kind \in Kinds, LayFile(kind)
        PROVE  opened' = opened \/ \E l : opened' = opened \cup {l} /\ Shaped(l) /\ Holds(l)
    <3>1. opened' = opened \/ (opened' = opened \cup {DayFile(kind)} /\ Holds(DayFile(kind)))
          BY <2>2 DEF LayFile
    <3> QED  BY <3>1, DayShaped
  <2>3. CASE NextPart
        BY <2>3 DEF NextPart
  <2>4. CASE UNCHANGED layoutVars
        BY <2>4 DEF layoutVars
  <2> QED  BY <2>1, <2>2, <2>3, <2>4 DEF LayoutNext, Kinds
<1> QED  BY <1>1, <1>2, <1>3

LEMMA LayoutOfFiles == [Next]_vars => [LayoutNext]_layoutVars
BY DEF Next, Use, Write, Clear, Reboot, vars, layoutVars

LEMMA SizeUnmoved ==
    ASSUME UNCHANGED fileVars, points' = points, Counts, AnnouncedSize
    PROVE  Counts' /\ AnnouncedSize'
<1>1. Counts'
      BY DEF Counts, fileVars, MaxUnitCount, UnitPerBlock
<1>2. AnnouncedSize'
  <2>1. /\ log' = log /\ unitNumber' = unitNumber /\ formatedSize' = formatedSize
        /\ headed' = headed /\ laps' = laps
        BY DEF fileVars
  <2>2. HeaderLen' = HeaderLen /\ DataLen(0)' = DataLen(0)
        BY <2>1, SameLengths
  <2>3. PICK n : n = unitNumber
        OBVIOUS
  <2>4. HeaderText(n)' = HeaderText(n) /\ DataText(n)' = DataText(n)
        BY <2>1, SameLengths
  <2>5. HeaderText(unitNumber)' = HeaderText(unitNumber) /\ DataText(unitNumber)' = DataText(unitNumber)
        BY <2>1, <2>3, <2>4
  <2>6. UnitPerBlock(log)' = UnitPerBlock(log)
        BY <2>1 DEF UnitPerBlock
  <2> QED  BY Zenon, <2>1, <2>2, <2>5, <2>6 DEF AnnouncedSize
<1> QED  BY <1>1, <1>2

LEMMA SizeStep ==
    ASSUME InColumns
    PROVE  LayoutTypeOK /\ SizeInv /\ LayoutTypeOK' /\ [Next]_vars
           /\ (Laid /\ Emptied => Counts /\ AnnouncedSize)'
           /\ (Laid /\ Reopened => Counts /\ AnnouncedSize)' => SizeInv'
<1> SUFFICES ASSUME LayoutTypeOK, SizeInv, LayoutTypeOK', [Next]_vars,
                    (Laid /\ Emptied => Counts /\ AnnouncedSize)',
                    (Laid /\ Reopened => Counts /\ AnnouncedSize)'
             PROVE  SizeInv'
    OBVIOUS
<1>1. /\ (\A l \in opened : Shaped(l) /\ Holds(l))' /\ opened \subseteq opened'
      /\ points' = points /\ build' = build
  <2>1. /\ \A l \in opened' : Shaped(l)' /\ Holds(l)
        /\ opened \subseteq opened' /\ points' = points /\ build' = build
        BY LayoutOfFiles, LogsShaped DEF SizeInv
  <2> QED  BY <2>1
<1>2. ASSUME Announced', log' \in opened' PROVE Laid'
  <2>1. Shaped(log)' /\ Holds(log)'
        BY <1>1, <1>2 DEF Holds, MaxUnitCount, UnitPerBlock
  <2> QED  BY <1>2, <2>1 DEF Laid, LayoutTypeOK
<1>3. CASE UNCHANGED fileVars
  <2>1. log' = log /\ (Announced' <=> Announced)
        BY <1>3 DEF fileVars, Announced, UnitPerBlock
  <2>2. Announced' => Counts' /\ AnnouncedSize'
        BY <1>1, <1>3, <2>1, SizeUnmoved DEF SizeInv
  <2> QED  BY <1>1, <1>3, <2>1, <2>2 DEF SizeInv, fileVars
<1>4. CASE Use
  <2>1. log = NoLog /\ log' \in opened' /\ log' \in opened /\ Emptied'
        BY <1>4 DEF Use, SizeInv, Emptied, layoutVars
  <2>2. Announced' => Counts' /\ AnnouncedSize'
        BY <1>2, <2>1
  <2> QED  BY <1>1, <2>1, <2>2 DEF SizeInv, Emptied
<1>5. ASSUME log # NoLog, log' = log, Announced' => Counts' /\ AnnouncedSize' PROVE SizeInv'
      BY <1>1, <1>5 DEF SizeInv
<1>6. log # NoLog /\ log' = log => log' \in opened'
      BY <1>1 DEF SizeInv
<1>7. log' = log => (Announced' <=> Announced)
      BY DEF Announced, UnitPerBlock
<1>8. CASE Write
  <2>1. log # NoLog /\ log' = log
        BY <1>8 DEF Write
  <2>2. ASSUME Announced PROVE Counts' /\ AnnouncedSize'
    <3>1. Laid /\ Counts /\ AnnouncedSize
          BY <2>1, <2>2 DEF Laid, SizeInv, LayoutTypeOK
    <3> QED  BY <1>8, <3>1, WriteSize
  <2> QED  BY <1>5, <1>7, <2>1, <2>2
<1>9. CASE Clear
  <2>1. log # NoLog /\ log' = log /\ Emptied'
        BY <1>9 DEF Clear, Emptied
  <2> QED  BY <1>2, <1>5, <1>6, <2>1
<1>10. CASE Reboot
  <2>1. log # NoLog /\ log' = log /\ held' = held
        BY <1>10 DEF Reboot
  <2>2. ASSUME Announced PROVE Reopened'
    <3>1. Counts /\ MaxUnitCount(log)' = MaxUnitCount(log) /\ Room
      <4>1. Laid
            BY <2>1, <2>2 DEF Laid, SizeInv, LayoutTypeOK
      <4> QED  BY <2>1, <2>2, <4>1, SizeFacts DEF SizeInv, MaxUnitCount, UnitPerBlock, Laid
    <3>2. unitNumber' = Smaller(held, log.count) /\ headed' = (held # 0) /\ laps' = 0
          BY <1>10 DEF Reboot
    <3>3. ReopenedSize(unitNumber)' = ReopenedSize(unitNumber')
      <4>1. PICK n : n = unitNumber'
            OBVIOUS
      <4>2. HeaderLen' = HeaderLen /\ DataLens(n)' = DataLens(n)
            BY <1>1, <2>1, SameLengths
      <4> QED  BY <2>1, <4>1, <4>2 DEF ReopenedSize
    <3>4. formatedSize' = ReopenedSize(unitNumber')
          BY <1>10 DEF Reboot
    <3>5. log.kind = "exv" => Smaller(held, log.count) = held
      <4>1. PICK c \in Nat, h \in Nat : c = log.count /\ h = held
        <5>1. log.count \in Nat /\ held \in Nat
              BY Zenon, <3>1, RoomNumbers DEF Counts
        <5> QED  BY Zenon, <5>1
      <4>2. log.kind = "exv" => h <= c
            BY <3>1, <4>1 DEF Counts
      <4>3. h <= c => Smaller(h, c) = h
            BY DEF Smaller
      <4> QED  BY <4>1, <4>2, <4>3
    <3>6. Smaller(held, log.count)' = Smaller(held, log.count)
          BY <2>1 DEF Smaller
    <3> QED  BY <2>1, <3>1, <3>2, <3>3, <3>4, <3>5, <3>6 DEF Counts, Reopened
  <2> QED  BY <1>2, <1>5, <1>6, <1>7, <2>1, <2>2
<1>11. CASE LayoutNext /\ UNCHANGED fileVars
      BY <1>3, <1>11
<1>12. CASE UNCHANGED vars
      BY <1>3, <1>12 DEF vars
<1> QED  BY <1>4, <1>8, <1>9, <1>10, <1>11, <1>12 DEF Next

\* The size that is announced for a log of texts is the length of its text, but for a
\* header that the open missed and the recycled blocks that it still counts
\* (formatedSize, fsmid_log.cpp:355), for every configuration whose texts fit their
\* columns: the terminal's name in 24 characters, each value in 7, and no more than 99
\* points of a kind (fsmid_config.h:61 admits 64).
THEOREM SizeAnnounced ==
    ASSUME InColumns
    PROVE  Spec => []AnnouncedSize
<1>1. Init => LayoutInit /\ SizeInv
      BY DEF Init, LayoutInit, SizeInv, Announced
<1>2. SizeInv => AnnouncedSize
      BY DEF SizeInv, Announced, AnnouncedSize
<1>3. Laid /\ Emptied => Counts /\ AnnouncedSize
      BY EmptySize
<1>4. Laid /\ Reopened => Counts /\ AnnouncedSize
      BY ReopenSize
<1>5. LayoutInv => LayoutTypeOK
      BY DEF LayoutInv
<1>6. [Next]_vars => [LayoutNext]_layoutVars
      BY LayoutOfFiles
<1> QED  BY <1>1, <1>2, <1>3, <1>4, <1>5, <1>6, SizeStep, LayoutInitInv, LayoutNextInv, PTL DEF Spec

=============================================================================
