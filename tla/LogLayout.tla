----------------------------- MODULE LogLayout -----------------------------
(***************************************************************************)
(* Where FSMID_CreateLogs puts the logs.  The fixed logs have regions that *)
(* fsmid_config.h counts in erase blocks; behind them the day files are    *)
(* laid one after the other, as many blocks each as the number of points   *)
(* of the configuration asks for.  Every log is opened where it was laid,  *)
(* and FSLOG_Open asserts that its region holds what it promises.  One     *)
(* log is laid and opened in one step.  Addresses are counted in blocks.   *)
(***************************************************************************)
EXTENDS Naturals, FiniteSets

\* What FAST_MODE decides: the files of each kind, and the records of a FIXPT file.
DeviceBuild == [exv |-> 30, fixpt |-> 31, frz |-> 31, quarters |-> 96]
FastBuild == [exv |-> 5, fixpt |-> 5, frz |-> 5, quarters |-> 24]

CONSTANTS
    Builds,     \* of the two, those looked at
    Points      \* [measure, frozen: points of each kind]

ASSUME BuildAssumption == Builds \subseteq {DeviceBuild, FastBuild}
ASSUME PointsAssumption ==
    \A p \in Points : p.measure \in Nat /\ p.frozen \in Nat

BlockSize == 4096
FlashBlocks == 2048                     \* FLASH_MEMORY_SIZE
HeaderSize == 64
Config == [base |-> 128, blocks |-> 16] \* the region of FSMID_InitConfig

VARIABLES
    build, points,  \* what is compiled in, and what is configured
    step,           \* the part of FSMID_CreateLogs, "run" after it, or "hung"
    i,              \* the logs of this part that are open
    address,        \* the next free block
    opened          \* headMainLog

layoutVars == <<build, points, step, i, address, opened>>

-----------------------------------------------------------------------------
(* FSLOG_INFORMATION: kind, base, blocks, size of a unit, units promised,  *)
(* and whether the log is written once or is a ring.                       *)

Info(kind, base, blocks, unit, count, otp) ==
    [kind |-> kind, base |-> base, blocks |-> blocks,
     unit |-> unit, count |-> count, otp |-> otp]

Fixed == <<
    Info("firmware", 0,   128, 1,  524288, TRUE),
    Info("rawsoe",   144, 18,  60, 1024,   FALSE),
    Info("rawtrd",   162, 2,   12, 336,    FALSE),
    Info("print",    164, 22,  80, 1024,   FALSE),
    Info("ulog",     192, 20,  74, 1024,   FALSE),
    Info("soe",      212, 6,   16, 1024,   FALSE),
    Info("co",       218, 2,   16, 15,     FALSE) >>

CfgBase(k) == 220 + k
DatBaseBug(k) == 224 + 5 * k            \* behind four CFG files
DatBase(k) == 225 + 5 * k
Dynamic == 256                          \* DYNAMIC_START_BLOCK

\* The logs with a region of their own, in the order they are opened.
Static(n) ==
    CASE n < 7 -> Fixed[n + 1]
      [] n \in 7 .. 11 -> Info("cfg", CfgBase(n - 7), 1, 80, 9, TRUE)
      [] OTHER -> Info("dat", DatBase(n - 12), 5, 72, 192, TRUE)
NumStatic == 17

-----------------------------------------------------------------------------
(* Geometry *)

Smaller(a, b) == IF a < b THEN a ELSE b

\* FSLOG_CalcBlockNumber, of a log that is written once.
BlocksForBug(unit, count) == count \div ((BlockSize - HeaderSize) \div unit)  \* rounded down
BlocksFor(unit, count) ==
    LET res == (BlockSize - HeaderSize) \div unit
    IN  count \div res + (IF count % res # 0 THEN 1 ELSE 0)

\* unitPerBlock and maxUnitCount of FSLOG_Open.  A header counts 448 units.
UnitPerBlock(log) ==
    IF log.kind = "firmware" THEN BlockSize \div log.unit
    ELSE Smaller(448, (BlockSize - HeaderSize) \div log.unit)
MaxUnitCount(log) == log.blocks * UnitPerBlock(log)

\* The assertion of FSLOG_Open: a ring needs a block more than it promises.
Holds(log) ==
    MaxUnitCount(log) >= log.count + (IF log.otp THEN 0 ELSE UnitPerBlock(log))

-----------------------------------------------------------------------------
(* FSMID_CreateLogs *)

Open(log) == IF Holds(log) THEN opened' = opened \cup {log} ELSE UNCHANGED opened

OpenStatic ==
    /\ step = "static" /\ i < NumStatic
    /\ Open(Static(i))
    /\ step' = IF Holds(Static(i)) THEN step ELSE "hung"
    /\ i' = i + 1
    /\ UNCHANGED <<build, points, address>>

\* Number of files, points, and information of each kind of day file.  The
\* number of blocks is computed from the size of a record without points.
Files(kind) ==
    CASE kind = "exv" -> build.exv [] kind = "fixpt" -> build.fixpt [] OTHER -> build.frz
PointsOf(kind) == IF kind = "frz" THEN points.frozen ELSE points.measure
RecordSize(kind) == IF kind = "exv" THEN 16 ELSE 12 + 4 * PointsOf(kind)
Template(kind) == IF kind = "exv" THEN 16 ELSE 12
UnitsPerFile(kind) ==
    CASE kind = "exv" -> 2 * points.measure + 3
      [] kind = "fixpt" -> build.quarters
      [] OTHER -> build.quarters + 1
DayFile(kind) ==
    Info(kind, address, BlocksFor(Template(kind), UnitsPerFile(kind)),
         RecordSize(kind), UnitsPerFile(kind), TRUE)

InFlash(log) == address + log.blocks < FlashBlocks

NextAddressBug(log) == address + log.blocks - 1     \* the last block is shared
NextAddress(log) == address + log.blocks

LayFile(kind) ==
    /\ step = kind /\ PointsOf(kind) # 0 /\ i < Files(kind)
    /\ LET log == DayFile(kind)
           good == InFlash(log) /\ Holds(log)
       IN  /\ opened' = IF good THEN opened \cup {log} ELSE opened
           /\ address' = IF good THEN NextAddress(log) ELSE address
           /\ step' = IF good THEN step ELSE "hung"
    /\ i' = i + 1
    /\ UNCHANGED <<build, points>>

\* The end of a part; without points there is none of that kind.
NextPart ==
    /\ \/ step = "static" /\ i = NumStatic /\ step' = "exv"
       \/ step = "exv" /\ step' = "fixpt"
       \/ step = "fixpt" /\ step' = "frz"
       \/ step = "frz" /\ step' = "run"
    /\ step # "static" => PointsOf(step) = 0 \/ i = Files(step)
    /\ i' = 0
    /\ UNCHANGED <<build, points, address, opened>>

LayoutInit ==
    /\ build \in Builds /\ points \in Points
    /\ step = "static" /\ i = 0 /\ address = Dynamic /\ opened = {}

LayoutNext == OpenStatic \/ (\E kind \in {"exv", "fixpt", "frz"} : LayFile(kind)) \/ NextPart

LayoutSpec == LayoutInit /\ [][LayoutNext]_layoutVars

-----------------------------------------------------------------------------
(* Properties *)

End(r) == r.base + r.blocks
Apart(r, s) == End(r) <= s.base \/ End(s) <= r.base

\* The regions of two logs never meet, none reaches into the region of the
\* configuration, and all are inside the flash, whatever the number of points:
\* the block counts of fsmid_config.h, the five files of each waveform kind and
\* the addresses of the day files fit together.
RegionsApart ==
    \A log \in opened :
        /\ End(log) <= FlashBlocks
        /\ Apart(log, Config)
        /\ \A other \in opened : other # log => Apart(log, other)

\* A boot hangs in FSLOG_Open only over a file whose records of a day are more
\* than one block: that is all that FSMID_CreateLogs lays for it.  (Hazard: the
\* block number is computed before the size of the unit is known.)
DayInBlock(kind) == RecordSize(kind) * UnitsPerFile(kind) <= BlockSize - HeaderSize
HangsOverDays ==
    step = "hung" => \E kind \in {"fixpt", "frz"} : PointsOf(kind) # 0 /\ ~DayInBlock(kind)

\* fsmid_config.h:61, MAXIMUM_MEASURE_POINT (16*4), and :62, MAXIMUM_POWER_POINT
\* (4*4): a device with no more points than that boots.
BootsWithPoints == points.measure <= 64 /\ points.frozen <= 16 => step # "hung"

=============================================================================
