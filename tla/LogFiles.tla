------------------------------ MODULE LogFiles ------------------------------
(***************************************************************************)
(* The sizes of the log files as the master sees them.  A log is kept as   *)
(* records and read as text, so its size is computed without making the    *)
(* text: the formatters of fsmid_var.cpp, called without a buffer, say how *)
(* long a header or a line will be, FSLOG_Open and FSLOG_Write add this up *)
(* in formatedSize, and FileMid announces it.  The text itself is made     *)
(* when the file is read, by the same formatters called with a buffer.     *)
(*                                                                         *)
(* Each formatter is two definitions: the length without a buffer, and the *)
(* length of the text with one.  A log that CreateLogs has opened is       *)
(* written, cleared and restarted; of the flash only the number of units   *)
(* matters here (FsLog has the rest).                                      *)
(***************************************************************************)
EXTENDS LogLayout

CONSTANTS
    TerminalLen,    \* strlen(db_GetTerminalID())
    AddressLen,     \* db_GetInfoAddressLength(): bytes of an information address
    ValueLen,       \* characters of a measured value with three decimals
    W,              \* unsigned int is modulo W
    MaxLaps         \* bound of the model: blocks recycled since the last open

ASSUME TextAssumption ==
    /\ TerminalLen \in Nat /\ AddressLen \in 1 .. 3 /\ ValueLen \in Nat
    /\ W \in Nat /\ MaxLaps \in Nat

VARIABLES
    log,            \* the log in use, or NoLog
    held,           \* units in flash, from indexFirst to indexLast
    unitNumber,     \* units that can be read
    formatedSize,
    headed,         \* history: was the header counted at the last open?
    laps            \* history: blocks recycled since the last open

fileVars == <<log, held, unitNumber, formatedSize, headed, laps>>
vars == <<layoutVars, fileVars>>

NoLog == [kind |-> "none"]

-----------------------------------------------------------------------------
(* Widths: what sprintf makes of "%-24s", "%7.3f", "%3d", "%04d"           *)

Pad(width, n) == IF n > width THEN n ELSE width
Digits(n) == IF n < 10 THEN 1 ELSE IF n < 100 THEN 2 ELSE IF n < 1000 THEN 3 ELSE IF n < 10000 THEN 4 ELSE 5
Number(width, n) == Pad(width, Digits(n))

\* All the numbers below n, each padded to the width.
Above(n, bound) == IF n > bound THEN n - bound ELSE 0
Powers == <<10, 100, 1000, 10000, 100000>>
Numbers(width, n) == width * n + Above(n, Powers[width]) + Above(n, Powers[width + 1])

Address == 2 * AddressLen
Time == 23          \* 20YY-MM-DD hh:mm:ss.mmm
Eol == 2
Version == 4

-----------------------------------------------------------------------------
(* The formatters: ...Len without a buffer, ...Text with one.  A text is   *)
(* of n records; the header prints n too.                                  *)

SoeHeaderLen == 7 + 1 + Version + Eol + 24 + 1 + 4 + 1 + 2 + Eol
SoeHeaderText(n) == 7 + 1 + Version + Eol + Pad(24, TerminalLen) + 1 + Number(4, n) + 1 + 2 + Eol
SoeLenBug == 10 + Address + 3 + Time            \* the end of the line is forgotten
SoeLen == 10 + Address + 3 + Time + Eol
SoeText(n) == n * (6 + Address + 3 + Time + Eol) + Numbers(4, n)

\* Two lines for a control, and two in the count of the header.
CoHeaderLen == 6 + 1 + Version + Eol + 24 + 1 + 4 + 1 + 2 + Eol
CoHeaderText(n) == 6 + 1 + Version + Eol + Pad(24, TerminalLen) + 1 + Number(4, 2 * n) + 1 + 2 + Eol
CoLen == (8 + Address + 1 + 4 + 4 + Time + Eol) * 2
CoText(n) == 2 * n * (6 + Address + 6 + 3 + Time + Eol) + Numbers(2, 2 * n)

UlogHeaderLen == 24 + 1 + 4 + Eol
UlogHeaderText(n) == Pad(24, TerminalLen) + 1 + Number(4, n) + Eol
UlogLen == 2 + 1 + Time + 1 + 128 + 1 + 1 + Eol

\* Of the waveform files only what is announced: the texts that format_cfg copies
\* have other lengths than it says, and format_dat makes none.
CfgHeaderLen == 24 + 1 + Version + 1 + 4 + Eol + 1 + 1 + 2 + Eol
CfgLen == 79
DatLen == (8 + 2 * 8) * 4

\* A file name, a date and, for the day files, the number of records.
ExvHeaderLen == 15 + 1 + Version + Eol + 24 + 1 + 8 + 1 + 2 + Eol
ExvHeaderText == 15 + 1 + Version + Eol + Pad(24, TerminalLen) + 1 + 8 + 1 + 2 + Eol
FixptHeaderLen == 17 + 1 + Version + Eol + 24 + 1 + 8 + 1 + 2 + 1 + 2 + Eol
FixptHeaderText(n) == 17 + 1 + Version + Eol + Pad(24, TerminalLen) + 1 + 8 + 1 + Number(2, n) + 1 + 2 + Eol
FrzHeaderLen == 15 + 1 + Version + Eol + 24 + 1 + 8 + 1 + 2 + 1 + 2 + Eol
FrzHeaderText(n) == 15 + 1 + Version + Eol + Pad(24, TerminalLen) + 1 + 8 + 1 + Number(2, n) + 1 + 2 + Eol

\* The maxima, the minima and the end: a mark, the points, a mark, the points, a mark.
ExvLen(index) ==
    CASE index = 0 -> 3
      [] index = points.measure + 1 -> 2 + 3
      [] index = 2 * points.measure + 2 -> 2
      [] OTHER -> 1 + Address + 1 + 7 + 1 + Time
ExvText(n) ==
    LET m == points.measure
        max == IF n > 0 THEN 1 ELSE 0
        min == IF n > m + 1 THEN 1 ELSE 0
        eof == IF n > 2 * m + 2 THEN 1 ELSE 0
    IN  max * Number(3, m) + min * (2 + Number(3, m)) + eof * 2
        + (n - max - min - eof) * (1 + Address + 1 + Pad(7, ValueLen) + 1 + Time)

\* format_fix and format_frozen: a line with all the points.
DayLen(count) == 2 + 1 + Time + (1 + Address + 1 + 7) * count + Eol
DayText(count, n) ==
    n * (Number(2, count) + 1 + Time + (1 + Address + 1 + Pad(7, ValueLen)) * count + Eol)

Texts == {"soe", "co", "ulog", "exv", "fixpt", "frz"}
Formatted == Texts \cup {"cfg", "dat"}          \* pFunction is set

HeaderLen ==
    CASE log.kind = "soe" -> SoeHeaderLen [] log.kind = "co" -> CoHeaderLen
      [] log.kind = "ulog" -> UlogHeaderLen [] log.kind = "cfg" -> CfgHeaderLen
      [] log.kind = "exv" -> ExvHeaderLen [] log.kind = "fixpt" -> FixptHeaderLen
      [] log.kind = "frz" -> FrzHeaderLen [] OTHER -> 0

DataLen(index) ==
    CASE log.kind = "soe" -> SoeLen [] log.kind = "co" -> CoLen
      [] log.kind = "ulog" -> UlogLen [] log.kind = "cfg" -> CfgLen
      [] log.kind = "dat" -> DatLen
      [] log.kind = "exv" -> ExvLen(index)
      [] log.kind = "fixpt" -> DayLen(points.measure) [] log.kind = "frz" -> DayLen(points.frozen)
      [] OTHER -> log.unit

\* FSLOG_ReadFmt of the header and of n records.
HeaderText(n) ==
    CASE log.kind = "soe" -> SoeHeaderText(n) [] log.kind = "co" -> CoHeaderText(n)
      [] log.kind = "ulog" -> UlogHeaderText(n)
      [] log.kind = "exv" -> ExvHeaderText [] log.kind = "fixpt" -> FixptHeaderText(n)
      [] log.kind = "frz" -> FrzHeaderText(n) [] OTHER -> 0
DataText(n) ==
    CASE log.kind = "soe" -> SoeText(n) [] log.kind = "co" -> CoText(n)
      [] log.kind = "ulog" -> n * UlogLen
      [] log.kind = "exv" -> ExvText(n)
      [] log.kind = "fixpt" -> DayText(points.measure, n)
      [] log.kind = "frz" -> DayText(points.frozen, n)
      [] OTHER -> n * log.unit

-----------------------------------------------------------------------------
(* The store, in numbers of units *)

\* The lengths that FSLOG_Open adds up, one record after the other.  Only the lines
\* of the extremes differ.
ExvLens(n) == LET sum[k \in 0 .. n] == IF k = 0 THEN 0 ELSE sum[k - 1] + ExvLen(k - 1) IN sum[n]
DataLens(n) == IF log.kind = "exv" THEN ExvLens(n) ELSE n * DataLen(0)

\* Bounds of the model: the files of a kind differ in their place only, and the
\* first of them is used; the logs without formatters are not used.
FirstOfKind(l) == \A other \in opened : other.kind = l.kind => l.base <= other.base

Use ==
    /\ step = "run" /\ log = NoLog
    /\ log' \in {l \in opened : l.kind \in Formatted /\ FirstOfKind(l)}
    /\ UNCHANGED <<layoutVars, held, unitNumber, formatedSize, headed, laps>>

\* FSLOG_Write: a full OTP log refuses; the length is counted below the capacity;
\* the block that the log enters is recycled when it is the first.
Refused == log.otp /\ unitNumber >= log.count
CountedBug == formatedSize + DataLen(unitNumber)    \* counted beyond the capacity too
Counted == IF unitNumber < log.count THEN formatedSize + DataLen(unitNumber) ELSE formatedSize
Available == IF unitNumber < log.count THEN unitNumber + 1 ELSE unitNumber

Write ==
    /\ log # NoLog /\ ~Refused
    /\ formatedSize' = Counted
    /\ IF held + 1 = MaxUnitCount(log)
       THEN /\ laps < MaxLaps
            /\ laps' = laps + 1
            /\ held' = held + 1 - UnitPerBlock(log)
            /\ unitNumber' = (Available + W - UnitPerBlock(log)) % W
       ELSE held' = held + 1 /\ unitNumber' = Available /\ UNCHANGED laps
    /\ UNCHANGED <<layoutVars, log, headed>>

\* FSLOG_Clear
Clear ==
    /\ log # NoLog
    /\ held' = 0 /\ unitNumber' = 0 /\ formatedSize' = 0
    /\ headed' = FALSE /\ laps' = 0
    /\ UNCHANGED <<layoutVars, log>>

\* A restart, and the end of FSLOG_Open.
ReopenedSize(n) == IF n # 0 /\ log.kind \in Formatted THEN HeaderLen + DataLens(n) ELSE 0
Reboot ==
    /\ log # NoLog
    /\ unitNumber' = Smaller(held, log.count)
    /\ formatedSize' = ReopenedSize(unitNumber')
    /\ headed' = (held # 0)
    /\ laps' = 0
    /\ UNCHANGED <<layoutVars, log, held>>

Init ==
    /\ LayoutInit
    /\ log = NoLog /\ held = 0 /\ unitNumber = 0 /\ formatedSize = 0
    /\ headed = FALSE /\ laps = 0

Next == (LayoutNext /\ UNCHANGED fileVars) \/ Use \/ Write \/ Clear \/ Reboot

Spec == Init /\ [][Next]_vars

-----------------------------------------------------------------------------
(* Properties *)

\* The size announced for a file of texts is the length of its text, except that
\* the header is missing in it while the log was empty at the last open or has
\* been cleared since, and that a ring counts every block it has recycled since
\* then as if it could still be read.  Nothing else differs: what the formatters
\* say without a buffer is what they print, for every record and every count.
\* (Hazard: formatedSize only grows, fsmid_log.cpp:355.)
AnnouncedSize ==
    log # NoLog /\ log.kind \in Texts /\ UnitPerBlock(log) <= log.count =>
        formatedSize + (IF headed THEN 0 ELSE HeaderLen)
            = HeaderText(unitNumber) + DataText(unitNumber)
              + laps * UnitPerBlock(log) * DataLen(0)

-----------------------------------------------------------------------------
(* What the repository says of the files and the code does not do. *)

\* fsmid_log.h:116, "get FSLOG object's available data count": what a reader is
\* offered is in flash.  The log of the controls is the only ring whose block holds
\* more than the log promises: recycling takes more from unitNumber than there is.
ControlsAvailable == log # NoLog => unitNumber <= held

\* fsmid_log.h:11, FSLOG_ATTR_OTP, one-time programmable: the log is written once,
\* and no block of it is recycled.
OtpIsWrittenOnce == log # NoLog /\ log.otp => laps = 0

\* FileMid.cpp:264 announces formatedSize as the size of the file it then sends.
SizeIsLength ==
    log # NoLog /\ log.kind \in Texts /\ UnitPerBlock(log) <= log.count /\ unitNumber # 0 =>
        formatedSize = HeaderText(unitNumber) + DataText(unitNumber)

=============================================================================
