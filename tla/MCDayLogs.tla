----------------------------- MODULE MCDayLogs -----------------------------
(* DayLogs needs no definitions for TLC: the configurations give the table, *)
(* the quarters of a day and the time to stop.                              *)
EXTENDS DayLogs

=============================================================================
