# FSMID: the log file system of a distribution terminal unit, specified in TLA+

FSMID is the middle module between the flash of a DTU (an electric distribution
terminal) and its IEC 60870-5-101 master. It keeps event logs, daily measurement
files and a firmware image in raw NOR flash, without a file system below it, and
serves them to the master as files in folders. The code is C with C++ file
names, under `src/Fs_middle_vs/fsmiddle_DTU/fs_middle`; paths below are relative
to it. `src/docs/FSMID方案.docx` (the design) and `src/docs/FSMID模块说明.docx`
(the overview of the module) describe what it is for.

The modules are written from the code. A definition in a module says which code
it is through `PROJECT.json`, "map". Definitions whose name contains `Bug` are
not part of a specification: each is the definition after it with one plausible
coding error, and shows that a property notices that error.

## 1. Inventory

| Component | Code | State it keeps | Operations | Modules |
|---|---|---|---|---|
| Log store | `src/fsmid_log.cpp` | flash: block headers and units; RAM: indexFirst, indexLast, indexRead, unitNumber, pointerId, formatedSize, a mutex | open (scan of the headers, repair), write, write counter, recycle, clear, read, pointer of a unit, size of the text | FsLog, RingStore, FsLogProofs; LogFiles |
| Binary log | `FSLOG_WriteBinary`, the data-only branches | indexLast, unitNumber | open as empty, erase, append bytes | FileWrite, FileWriteProofs |
| Directory | `FSLOG_Filter`, `FSLOG_Search`, list of logs | headMainLog, headFiltedLog, nFiltedLog | filter by folder and time, search by name | FolderCall, FileRead (the outcome) |
| Day files (FIXPT, FROZEN) | `src/fsmid_app.cpp` | table of logs, current log, name and timeCreate of each | select at boot, append, rotate at midnight, a quarter or a midnight missed | DayLogs, DayLogsProofs |
| Extreme values | `src/fsmid_point.cpp`, `src/fsmid_app.cpp` | tableMaximum, tableMinimum, table of logs | sample, save at midnight, reset, select at boot | ExtremeDays, ExtremeDaysProofs |
| SOE records | `FSMID_SoeApp` | held record, s_otherpnt, two logs | drain the queue, pair double points | SoePairing, EventRecords, EventRecordsProofs |
| Configuration | `FSMID_InitConfig` | three blocks of flash, the tables in RAM | build, compare, erase all, store | Config, ConfigProofs |
| File reading | `module/FileMid.cpp` | pOperate, s_theFile, filtedItemCount, s_offset | activate, answer, packets, confirm | FileRead, FsLogProofs |
| File upload | `module/FileMid.cpp` | the same, s_writeLength | activate, answer, segments | FileWrite |
| Folder listing | `module/FileMid.cpp` | filtedItemCount, s_offset, headFiltedLog | call, packets | FolderCall, DayLogsProofs |
| Control, operation and print records | `FSMID_CoApp`, `FSMID_LogApp` | four logs, `inf` on the stack | drain three queues | EventRecords, EventRecordsProofs |
| Main task | `FSMID_Task` | the last second it acted in | polls the clock and calls the above | EventRecords (a second), DayLogs and ExtremeDays (a quarter, midnight, late polls), Config and LogLayout (start) |
| Layout of the flash | `src/fsmid_var.cpp`, `inc/fsmid_config.h`, `FSMID_CreateLogs` | where every log lies | FSLOG_CalcBlockNumber, open every log | LogLayout, LogLayoutProofs |
| Formatters | `src/fsmid_var.cpp` | none | length without a buffer, text with one | LogFiles, LogLayoutProofs |
| Waveforms | `FSMID_CfgApp`, `FSMID_SaveDat` | table of CFG files, of DAT files | a new file per call, select at boot | WaveFiles, WaveFilesProofs |
| Ports, linked list, simulator, test consoles, device headers | | | | not modelled: section 8 |

How they interact: one task runs `FSMID_Task`, once a second. It first calls
`FSMID_InitConfig`, then `FSMID_CreateLogs`, and from then on drains queues and
the database into logs; at every quarter of an hour it appends to the day
files, at midnight it rotates them and saves the extremes. The protocol task
runs concurrently: it lists, reads and overwrites the same logs through
`FileMid_101Requir` and `FileMid_101Continue`. Both share the log objects; a
mutex is held inside single calls of the log store only, so a session of the
master is interleaved with the writer at every record. (On the device the ports
give every log one global mutex, `inc/fsmid_port.h:61`.) The power may fail
anywhere; only the flash survives.

What is hard here, and what makes each part correct:

* **Log store.** There is no index in flash: everything is rebuilt from three
  bits, a sequence number and a counter in each block header. A write is up to
  five flash calls; the power may fail between any two. Correct means that no
  slot is programmed twice, that no header counts an unwritten slot, that a
  reboot finds the pointers RAM had, that a ring only ever loses its oldest
  block, and that an OTP log stops exactly when it is full.
* **Day files.** Which file is today's is inferred at each boot from the first
  record of every file. Correct means that days are not mixed, that the last N
  days are kept whatever restarts there were, and that the boot's assertions hold.
* **Extremes.** A save is many units; a cut one must not be mistaken for a whole
  one, and the tables compare magnitudes across signs and keep the time of each.
* **SOE.** The two events of a double point are one record, if they follow each
  other; the value is read from a database that keeps changing.
* **Queues.** Five loops of one second drain queues that fill meanwhile; a search
  leaves its result as it was when it finds nothing.
* **Layout and sizes.** The flash is divided by block counts written by hand and by
  sizes that depend on the configuration. The announced size of a file is added up
  by formatters that are called without a buffer, and the text is printed by the
  same formatters later: correct means that the two agree.
* **Waveforms.** Which CFG file is the oldest is not in flash, and the start of a
  wave is computed from a trigger and a lead with borrows field by field, the last of
  which, from the day, is missing.
* **Configuration.** The layout of records depends on the tables, so tables
  and logs must change together, though it takes many flash calls.
* **The three sessions.** The number of records or files is taken once and used
  for many packets while the logs change below it; offsets, counts, the
  "more follows" flag and the class of the answer are computed at different points.

`PROJECT.json`, "hazards", lists these places line by line with the properties
that cover them, and says why where none does.

## 2. Modules

**FsLog** - one log. Variables are the fields of FSLOG and the flash: a header per
block and, per slot, the *set* of units programmed since the erase. Programming
can only clear bits, so a set of two is the AND of two records, garbage; the
header fields are combined the way AND combines them (flags are 3, 2, 0; the
pointerId with `WordAnd`, given by the MC module as a bitwise AND).
`pc` is the flash call made next. `WriteData`, `WriteCounter`, `NextErase`,
`NextHeader` are FSLOG_Write, split at its flash calls; `ClearStart`,
`ClearErase`, `ClearHeader` are FSLOG_Clear; `OpenResume`, `OpenRepair`,
`OpenRepairHeader`, `OpenHang` are FSLOG_Open with `__fslog_init`, where
"hung" is `fsmid_assert`. `PowerOff` is a loss of power between operations,
`PowerCut` one within. The unsigned arithmetic is modulo `W`. History: `torn`
(the power failed between two blocks and no clear has finished since),
`spoiled` (a unit was written whose counter was not), `fresh` (since the last open
nothing was recycled or cleared).

**RingStore** - what a log promises of its data: it grows by one unit, or loses
its oldest block when full, or loses all (a Clear, or a power cut inside an
operation, which leaves the rest in doubt until the next Clear ends).
`FsLog!ImplementsRingStore` is the refinement. Its mapping, `KeptForSure`, is what
the headers count while that is `Certain`; `LastCounted` is the number of the last
unit counted. Between two cuts, or in a log that was cleared since, the log may do
nothing but grow by a unit or lose its oldest block.

**DayLogs** - the table of N day files of either kind, `FROZEN` choosing. A file is the
sequence of the times of its records; the log store is used as FsLog describes it,
a call in one step. `BootSelect`, `BootHang`, `BootNoneFree` are the
outcomes of FSMID_CreateLogs ("astray" is the jump of the FIXPT files into the
table of another kind, fsmid_app.cpp:278); `CloseDay`, `Advance`, `Record` are the steps of a
quarter in FSMID_Task, `Tick` the clock. `Late` is a poll that comes after the one
second in which the condition of a quarter holds (fsmid_app.cpp:742): the record, and
at midnight the rotation, is missed. `taken` is what was to be recorded, `missed`
the days whose rotation was, `skewed` marks the histories section 5 describes.

**ExtremeDays** - tables, samples, the save unit by unit, restarts inside it, and
`LateMidnight`, the midnight that is missed.
The types of the units are the numbers of the code. History: `samples` (with their
times), `attempts`, `finished`, `skewed` (a file stamped with a day that is
not the one that ended).

**SoePairing** - one call of FSMID_SoeApp, event by event, the inputs changing
between. The queue and the database are external and drawn from their use.

**EventRecords** - EXTENDS SoePairing with the rest of the second of FSMID_Task: `turn`
is the loop it is in, `RecordEvents`, `RecordControl` and `RecordMessage` one round of
it. What a search finds is `Searched`, which is the previous `inf` where the code does
not look at the result.

**LogLayout** - FSMID_CreateLogs as the allocator of the flash: every log is laid and
opened at the address the code computes, and hangs where FSLOG_Open asserts. Both
builds (`DeviceBuild`, `FastBuild`), the numbers of points being a constant set.

**LogFiles** - EXTENDS LogLayout: one of the opened logs is written, cleared and
restarted. Of each formatter `...Len` is what it returns without a buffer, `...Text`
the length of what it prints: widths, counts and separators, not words.

**WaveFiles** - FSMID_CfgApp line by line, FSMID_SaveDat, and the selection of the
file at the boot, with power cuts between two lines. Nothing in the repository
calls the first two yet: they are modelled as the interface for a trigger that they
are. History: `done`, the calls that returned, and `certain`, how many of them
nothing excuses the loss of.

**Config** - FSMID_InitConfig, with an erase in any order of its parts (an
abstraction of the one order of the code, which makes more states) and a cut
between any two calls. A stored image is what is written: 4 bytes for each point of 8. `Reserved` is
what malloc leaves in the field that nobody sets. History: `unchecked`, `settled`.

**FileRead** - EXTENDS FsLog and adds the reading session; every step of FsLog may come
between two of its steps. History: `sent`, `atActivation`, `disturbed`.

**FolderCall** - EXTENDS DayLogs and adds the listing session in the same way:
`Call`, one `FilterLog` per log, `FilterEnd`, and the packets. History: `listed`, `steady`.

**FileWrite** - the upload session over the data-only log. A segment is one piece of
the region; a piece of flash is the set of segments programmed into it.
`accepted`, `next`, `upload` are what the master knows. `Repeats` lets it send
segments again.

**MC...** modules give TLC the sets that a cfg cannot write. **...Proofs** modules
hold the theorems.

## 3. Runs that pass

| Run | Instance | States | What it shows |
|---|---|---|---|
| FsLogCuts | 3 blocks of 2, capacity 4, cuts everywhere, 9 units | 1 546 705 | no unwritten unit counted, no slot programmed twice, no assertion unless a cut fell between two blocks, RAM and headers agree, the newest units are read in order, the flash implements RingStore |
| FsLogOtp | 2 blocks of 3, capacity 4, OTP | 1 424 | an OTP log stops at its capacity, counts what it holds and loses nothing but to a clear; every operation ends |
| FrozenDays | 3 files, 3 quarters, polls late | 2 302 971 | days are not mixed nor lost but by a missed midnight; nothing is refused; the boot's assertion holds |
| ExtremeFiles | 2 points, samples -3 and 2, 2 files, 3 midnights, one may be missed | 2 373 323 | a complete save holds of every point the earliest sample of the greatest and of the least magnitude, each with its time, and is stamped with the time of the first maximum; a cut file is told from a whole one; the last saves are kept |
| SoeRecords | 2 double points, a single, an unknown one, 2 controls, 2 message queues, 4 arrivals | 1 355 205 | each call makes the records of its events; the last is current; controls are recorded under their own object; all are recorded in the end |
| ConfigBoots | 6 configurations, 2 areas, 2 reserved values | 144 208 | tables and logs agree wherever the power fails; unchanged tables erase nothing |
| FileReading | 2 blocks of 3, 7 units, 2 requests | 398 648 | a transfer from which no unit was taken is exact; every one is in order until a block is recycled or the log cleared; it ends |
| FixptListing | 3 files, 2 quarters, times to 9, 2 calls | 691 590 | no file twice and no two under one name, none missing that stayed, with and without a range; a listing ends |
| FileUploads | 6 segments, blocks of 2, 4 uploads | 6 218 | the region holds exactly the file; no double programming; nothing behind it is touched |
| LogFiles | both builds, 7 configurations of points, every log, 2 blocks recycled | 63 605 | regions do not meet; a boot hangs over nothing but a day too long for its block; how the announced size differs from the text |
| WaveFiles | 3 files, 2 lines, 7 times of day, 2 leads, 5 calls | 1 352 114 | the newest waves are kept; the lead time is the trigger minus the lead, but a whole day late in the first milliseconds of a day |

Two more configurations pass and are kept beside the runs: `FsLogRing.cfg` (16 units
without cuts, round the ring more than twice, with `KeepsNewest`,
`PointersConsecutive` and `OperationsEnd`; 15 976 states) and `FixptDays.cfg` (the
properties of DayLogs for the FIXPT kind alone; 2 633 261 states).

Why the bounds are enough. A ring of three blocks has an oldest, a current and
one in between; nine units go round it once and refill the first block, the case that
differs after a wrap (`ScanWrapped`) included, and the theorems of section 6 have no
bound at all. W is 32, above every pointer and every number that does not go below
zero, so that only the wrap the code is exposed to can happen. Three day files need
four midnights until the first is cleared the second time it is current, after every
pattern of restarts; three quarters give a first, a middle and a last one. Four
arrivals suffice for two pairs, a broken pair and a foreign event between, or for a
control behind one of another point. Two packets of two records and an odd
one cover the flag at and beside a multiple of the packet size. Four uploads
suffice for one refused, one cut in the erase, one cut in the segments, and one
that must still be right. The point counts of LogFiles are none, the last with which a
day fits its block in the device build and the first with which it does not (for each
kind), the same in the fast build with a block exactly filled, and the most of each
kind; the theorems about the layout are for all. Logs of one kind differ by their address only, so
that LogFiles writes the first of each. Its numbers are those of the code: no
size is scaled down. Five calls go round three wave files once and a half (four files
and six calls, 15.4 million states, pass too); the times of day are those at which the
borrows happen. The bounds `MaxUnits`, `MaxTime`, `MaxDay`, `MaxSamples`, `MaxEvents`,
`MaxRequests`, `MaxCalls`, `MaxUploads`, `MaxLaps` and `MaxWaves` are guards of the
actions they bound. `CHECK_DEADLOCK FALSE` stands only where the model stops: in
ExtremeDays the days end, in LogFiles the device hangs at a boot.
Transfer in FileWrite is further bounded by the flash of the model
(`indexLast \in Flash`): a repeating master would otherwise run on.

## 4. Fairness

* FsLog: `WF(Firmware)`. Once an operation has begun the processor makes its next
  flash call; nothing else is fair: writes, clears and cuts may never come.
* FileRead: weak fairness of the log's steps in progress and of `Continue` (the
  master fetches while the answer is of class 2), strong fairness of `ReadRecord`,
  since a mutex queues its waiters, so a reader that waits again and again gets it.
* FolderCall: `WF(Answer)`; a listing takes no lock.
* EventRecords: `WF(Task)`; FSMID_Task runs for ever. What arrives is bounded, so the
  property is about arrivals that pause: a loop whose queue is never empty would not
  let the others run, in the code either. SoePairing's own `WF(SoeApp)` is part of it.
* DayLogs, Config, ExtremeDays, FileWrite, LogFiles, WaveFiles state no liveness and
  assume none: the clock, the power and the master owe nothing.

## 5. Where the code and what the repository says of it differ

The run **LogPoints** has one property that TLC violates, and a finding in
`PROJECT.json`: the block number of a FIXPT or FROZEN file is computed before the
points are added to its unit size (fsmid_app.cpp:246 and 298), so that every day file is one
block; from 8 points on a day does not fit, and FSLOG_Open hangs at the boot,
although `inc/fsmid_config.h:61` admits 64.

More disagreements came up while modelling. Each has a property at the end of its
module, with the line it quotes, and a configuration to see it violated
(`tlc -config <name>.cfg MC<module>`; a configuration with several properties
reports the first it meets, so leave that out to see the next):

| Configuration | Property | What happens |
|---|---|---|
| FsLogCutOrder | NoBadBlockOrder | a cut between two blocks, in a write or a clear, leaves headers that a later open asserts on, for good (fsmid_log.cpp:130, 163) |
| FsLogReadPointer | ReadPointerMoves | recycling a block does not move the read pointer, which the comment at fsmid_log.cpp:370 says it does |
| FsLogReadPointer | ReadsAfterClear | after a clear, reading starts at the old read pointer, in erased flash (fsmid_log.cpp:512) |
| LogClaims | ControlsAvailable | the log of the controls promises less than a block: recycling takes more from unitNumber than there is, and it wraps (fsmid_log.cpp:374) |
| LogClaims | SizeIsLength | the announced size misses the header of a log that was empty at the boot, or keeps that of one that was cleared, and counts recycled blocks (fsmid_log.cpp:355) |
| LogClaims | OtpIsWrittenOnce | a one-time log whose units just fill its region (a FIXPT day of 38 points in the fast build) is erased by the write of the last: the check is made before a write only (fsmid_log.cpp:349, 365) |
| FixptBoot | NothingSelectedTwice | a boot meets an empty file before today's, selects it, and asserts at today's (fsmid_app.cpp:260); with FROZEN = TRUE the same happens at fsmid_app.cpp:312 |
| FixptDay | SelectsCurrentDay | with all FIXPT files used and none of today, the boot takes a log from another table (fsmid_app.cpp:278); with FROZEN = TRUE the oldest is appended to without being cleared (fsmid_app.cpp:321) |
| FrozenListing | ListsAllFiles | a FROZEN file selected at the boot keeps its name TEMP, and is in no folder (fsmid_app.cpp:319) |
| ConfigLastPoint | NotChangedMeansSame | 4 bytes of each point of 8 are compared and stored: half of a table (fsmid_point.cpp:144) |
| ConfigNoFrozen | NotChangedMeansSame | with an empty table the logs are used unchecked (fsmid_point.cpp:132) |
| ConfigReserved | ChangedMeansOther | an uninitialised field is compared: an unchanged device erases its logs (fsmid_point.cpp:104) |
| ControlSearch | OnlyConfiguredControls | a control without an information object is recorded under that of the control before, or under what is on the stack (fsmid_app.cpp:469) |
| FileRepeats | WritesFromOffset | the offset of a segment is not used: a segment sent again shifts the rest (FileMid.cpp:195) |
| WaveClaims | EveryCallMakesAFile | a call cut by the power leaves every CFG file used; the next boot selects a full one, which refuses the lines of the next call (fsmid_app.cpp:544) |
| WaveClaims | DatInTable | FSMID_SaveDat wraps at the wrong end of its table and leaves it (fsmid_app.cpp:635) |
| WaveClaims | LeadIsThreePeriods | the comment at fsmid_app.cpp:556 makes the lead time the trigger minus three periods; at midnight the hour becomes 23 and day, month and year stay (fsmid_app.cpp:575), so the start of the wave is a day late, and that date is printed (fsmid_app.cpp:610) |
| ExtremeClaims | TypesAsDocumented | fsmid_point.h:38 says "0:minimum point,1:maximum point"; the maxima get type 0 and the minima type 1 (fsmid_point.cpp:87, 89), and are stored so. format_extreme tells the parts by the marks alone (fsmid_var.cpp:223), so the text is not affected |

The line that dates a wave (fsmid_app.cpp:610) is printed without the hour of the lead
time: behind the date every field shows the next one, and the last what is on the
stack. The lines are outside WaveFiles, which has the time before it is printed.

LogFiles with `ValueLen = 9` refutes `AnnouncedSize` as well: a value with more
characters than its column makes the text longer than announced (fsmid_var.cpp:219).

Two limits of passing properties were found by proving them. Neither the recycling of a
block nor a Clear moves indexRead, and unitNumber grows again afterwards: the window of
the readable units may then span indexLast, and a transfer sends newer units before
older ones (with 3 blocks of 2, capacity 4, nine units written since the open, units
9, nothing, 5; with 2 blocks of 3, capacity 3, a Clear and ten units, 8, nothing, 6).
`SendsInOrder` therefore says `fresh`; the run FileReading has too few units for the
counterexample, which is why the unrestricted property passed there. And in a table of
FROZEN files that lost its order two files can begin with records of one day, hence
share their name: `ListedOnce` says so (`Named`).

The passing properties hold outside these histories: their premises name them
(`skewed`, `missed`, `torn`, `spoiled`, `fresh`, `unchecked`, `disturbed`, `headed` and `laps`,
`certain`, ~`Repeats`) and no more.

## 6. Proofs

TLAPS proves, for every value of the constants the assumptions admit:

* **FsLogProofs**: `TypeCorrect` and `CountedProgrammed`, for every geometry, OTP
  or not, with power cuts anywhere, from `SizeAssumption`, `WordAssumption` and
  `AndAssumption`. Type correctness is not inductive: that `indexLast` stays in
  the region needs that its block is where the counter says. The
  invariant `IInv` adds that every block but a FULL one has a counter below U
  (`PartialBlocks`), that outside a write the pointer is at the counter
  (`PointerAtCount`), that a new block is entered at its start
  (`EntersAtStart`), that the block is erased before its header is programmed
  (`ErasedBeforeHeader`), and that the unit is there before it is counted
  (`UnitBeforeCounter`). The scan of the headers is a CHOOSE of the first block
  not FULL; `LeastNumber` and `ScanStopFacts` give its existence.
  On top of it, in the same module and from the same assumptions:
  * `OpenNeverHangs`, `RebootFindsPointers`, `SlotsProgrammedOnce`. The invariant
    `RingInv` adds the order of the blocks (`BlocksInOrder`): unless a cut fell between
    two blocks, all blocks before the one to fill are FULL, and those after it are all
    FULL or none is; this is what makes the scan of the headers find the block the RAM
    pointers name. `Entered` is the weaker order while a write is between two blocks,
    `Cleared` that of a Clear, which has to establish the order whatever it was;
    `PointerInHeader` relates pointerId to the header; `UncountedErased` and
    `OneUnitPerSlot` say why the next slot is free.
  * `ReaderGetsNewest`, `LogImplementsStore` (the refinement of RingStore),
    `OtpKeepsAll`. The invariant `StoreInv` adds that the counted slots, from the edge
    of the oldest block round to the write pointer, hold consecutive units
    (`SlotsInOrder`), and how unitNumber and indexRead lie to them (`Window`). In the
    refinement WriteCounter is a Put, the erase of a used block a Recycle, ClearStart
    and the cuts a Lose, and every other step a stutter.
  * `AvailableAreKept`. The invariant `CountInv` adds that a unit is in one slot at most
    (`UnitsOnce`), and bounds unitNumber from above by the units the counters count and
    from below by how many the capacity leaves of them (`Enough`): the lower bound is what
    keeps `unitNumber -= unitPerBlock` from wrapping. It needs `OTP \/ U <= C`: a
    ring of a capacity below its block does wrap (section 5, ControlsAvailable), so that
    the assumption excludes a geometry the code gets wrong, that of the controls.
  * `SessionTypes`, `PacketsAgree`, `TransferSendsTheFile`, `TransferInOrder`, of
    `ReadSpec`: a master reads while the log is written, recycled, cleared and opened
    again. `SessionInv` says where the offset and the flag of a packet stand between
    two records. `CopyInv` says of every place of the file as it was at the
    activation that it was sent as it was, or can still be read so: while no unit
    leaves the window (`disturbed`) a write changes only slots that were erased. For
    the transfer the same assumption on U and C is needed, since `disturbed` watches
    unitNumber. `OrderInv` bounds what was sent by the unit that indexRead is at:
    until a block is recycled the window begins at a unit that only grows.
* **DayLogsProofs**: `DayTypes`, `DayBootsOnce`, `DayFilesApart`, `DayRecordsKept`,
  `DayOldestFirst` (the file cleared is the oldest: what keeps KeepsDays, and in no run
  of its own), `DayNothingRefused`, for any number of files and of quarters, both
  kinds, with restarts, late polls and missed midnights anywhere, from
  `TableAssumption` and `TimeAssumption`. The invariant `DInv` adds to the types that
  the records of a file rise and when the clock of the task stands (`Rising`, `Clock`), and,
  while the table is in order, `InOrder`: the files behind the current one go round
  the table from the oldest day to today's, never used ones first (`Order`, from
  which a boot that finds no file of today must take the next); a record lies in the
  file of its day (`InPlace`) and is there until N days have passed (`Kept`). A file is
  full only if a day has more than Q quarters; that none has is what NothingRefused needs.
  Then `FolderTypes`, `FolderListedOnce`, `FolderListsSteady` of `FolderSpec`, with
  `FolderAssumption`: the filtered list goes through the table in its order without
  gaps of what stayed (`Filtered`, `Found`), and what was told is its beginning (`Told`);
  names differ because the first records of two files are of different days
  (`FixptApart`, `NamesApart`), the FIXPT files even when the table is out of order.
* **EventRecordsProofs**: `SoeRecordsOfCall`, `SoeLastIsCurrent`, `ControlsInductive`, of
  the whole second (`TaskSpec`), for any inputs, controls, queues and bounds, from
  `PointAssumption`, `BoundAssumption` and `ControlAssumption`. `Expected` says which objects
  the records of a call must name by two recursive functions over its events. What such
  a function computes is not assumed or evaluated but carried along: `Made` says that there are
  functions `S` (which event is the second of a pair) and `R` (the records so far)
  that satisfy the recursive equations over the events processed, and that they agree with the
  log; each event extends both by one value. That `Expected` is that `R` follows at the
  end, by the least index at which two functions with the same equations could
  differ. `Current` says of every object that its last record has the database's
  value, or that an event of it is still in the queue, which is why the read after the
  event need not be the value of the event. `ControlInv` relates a control to its
  record through what a failed search leaves in `inf`.
* **LogLayoutProofs**: `LayoutRegionsApart`, `LayoutHangsOverDays`, for both builds and
  every number of measured and frozen points. The invariant (`Behind`, `Frontier`) is that
  what is laid next begins where everything opened has ended. And `SizeAnnounced`, under
  `InColumns`: the terminal's name has at most 24 characters, a value at most 7, there are
  at most 99 points of a kind (fsmid_config.h:61 admits 64), and unsigned int
  is wider than any number of units (section 5 says what a longer value does). The
  invariant `SizeInv` says what each opened log is by its kind (`Shaped`) and that its
  region holds what it promises (`Holds`, `Room`: also why unitNumber does not wrap here),
  how the counts stand to one another (`Counts`), and `AnnouncedSize` itself. The text of every
  log begins empty, grows by the length announced of the next line and is what FSLOG_Open
  adds up (`TextGrows`); for the extremes, whose lines differ, that sum is a recursive
  function, and that it is the text is shown by the least number of lines at which it
  would not be.
* **WaveFilesProofs**: `WavesKept`, `WaveLeadIsBefore`, for any number of files and lines, with
  cuts anywhere. The invariant follows the calls backwards round the table. The lead time
  is shown by the field that ends the borrows (`EarlierIsBefore`), for every time and every
  lead up to a second; `DayLate` is the day that is not borrowed.
* **ExtremeDaysProofs**: `NoAssertionFails`, `EofIsLast`, `ExtremesSaved`, `SavesKept`, for any
  number of files and points, any samples, with restarts anywhere. No boot finds a
  file of today because the times in flash are older than today (`FlashIsOlder`), which
  holds since a save begins with the next day and writes times of samples
  (`TablesAreOlder`); every file is a prefix of a whole one (`Prefixes`); the tables
  hold the extremes of the samples, the earliest of equals (`TablesAreExtremes`: a new
  sample is not older than what the table holds), and the units written are the tables'
  (`UnitsAreTheTables`). For `SavesKept` the invariant
  `KInv` adds that the saves go round the table: the files behind the next one are in the
  order of their days, those never used follow it, and each is at least as old as its
  place says (`Order`, `FilesInOrder`); so the boot selects the next file, and a save
  empties none of the last N - 1.
* **ConfigProofs**: `TypeCorrect`, `StoredSpeaks`, `LogsFit`, `KeepsLogs`, for
  every set of configurations and any number of log areas, from `AreaAssumption`,
  `BlankAssumption`, `NoneAssumption` and `GarbledAssumption`. Nothing is used of
  the images but that none is blank, so the results do not depend on how much of a
  table is stored. The invariant says what is erased so far, what is stored so
  far, that logs are opened only under tables that match, and that the last
  finished boot left its tables in flash until an erase begins.
* **FileWriteProofs**: `TypeCorrect`, `ProgramsErased`, `KeptInRegion`,
  `FileStored`, for every size of region and block and any number of uploads,
  from `SizeAssumption` and that no segment is sent again (with
  repetition they are false: run FileRepeats). The invariant says
  what is erased so far; that the whole region is between the end of the erase
  and the answer; and that the pieces of an accepted upload are below indexLast,
  with erased flash above.

Out of the prover's reach, and left to TLC: liveness under fairness
(`OperationsEnd`, `TransferEnds`, `ListingEnds`, `AllRecorded`) and ENABLED. Every other
property of a passing run is a theorem. Induction over data is out of reach as a rule
(the library's theorem takes an operator), but `Expected` of EventRecords and the sum of
LogFiles are recursive functions, of which a least number at which a claim fails is
enough. The type
invariants of the modules that only a proof needs are part of the inductive ones.
Of `WordAnd`, the AND of two pointerIds, it is assumed that it is a word, that
a word and itself give the word, as all ones and a word do, and that a word and 0 give 0;
TLC evaluates this of `BitAnd` in MCFsLog, which the runs use.

## 7. Plan

Done in order: FsLog and RingStore with FsLogProofs; DayLogs; FileRead on top of
FsLog; Config with ConfigProofs; SoePairing; ExtremeDays; FolderCall on top of
DayLogs; FileWrite with FileWriteProofs; late polls; LogLayout, LogFiles and
LogLayoutProofs; EventRecords on top of SoePairing; WaveFiles with WaveFilesProofs;
the ring and the store in FsLogProofs; ExtremeDaysProofs; DayLogsProofs, with the listing
over it; EventRecordsProofs; the reading session in FsLogProofs.

What could come next:
`CurrentIsToday` and `SelectsCurrentDay` of DayLogs for the FIXPT kind alone; a reader
that runs against FSLOG_Clear of a wave file.

## 8. Not modelled, and why

* **Wording of texts** (`src/fsmid_var.cpp`): LogFiles has their lengths. The contents
  of the lines of a CFG file are outside WaveFiles (section 5 says what is wrong with the last).
* **Names**: comparison and half-written names need characters; a name is the
  day of its file, or TEMP. FSLOG_Search is its outcome. The checksum over a
  packet is left out (`byteChecksum` returns its last byte, fsmid_util.cpp:96),
  and so is memory layout (the default folder at FileMid.cpp:107 is copied to
  a buffer of one byte).
* **Counters nFixpt, nFrozen, nExtreme**: written, never read.
* **Power loss in SoePairing**: the queue and the held record are lost; what is
  in the logs is FsLog's.
* **The VS_SIMULATE build** of FSMID_SoeApp, the simulator, the test consoles: they
  stand in for the device. The flash they simulate gives erase and program
  their meaning in FsLog.
* **Ports and device headers**: macros and declarations; **linked list**: vendored.
* **Composition of all tasks in one state machine**: each module has the order of
  its own operations; the product is out of TLC's reach. Besides the log objects the
  sessions of `module/FileMid.cpp` share `s_theFile`, `s_offset`, `filtedItemCount` and
  `pOperate`. FileRead, FolderCall and FileWrite each have them to themselves: a master
  that activates a read between two segments of an upload moves `s_theFile`
  (FileMid.cpp:143), and the next segment would go to the log opened for reading. That is
  outside the models, and `ImageIsFile` says nothing of it.
* **A listing while the task is astray**: after the jump at fsmid_app.cpp:278 the task works
  on logs of another table and gives them names of the FIXPT folder, so that a listing
  could name extreme files, and more than its array of 32 entries holds. FolderCall leaves
  the table as it is from the jump on.
* **A filter name that begins with a zero byte** matches every log (fsmid_log.cpp:562).
  FolderCall's master always asks for the folder of its kind, with a range or without.
