---------------------------- MODULE MCWaveFiles ----------------------------
(***************************************************************************)
(* The waveform files with triggers at the times of day at                 *)
(* which the subtraction of the lead borrows: from the second, the minute, *)
(* the hour and the day, and two at which it does not.                     *)
(***************************************************************************)
EXTENDS WaveFiles

\* All of one day, the second, so that there is a day before it.
At(h, m, s, ms) == [day |-> 2, hour |-> h, min |-> m, sec |-> s, msec |-> ms]

MCTimes == {At(0, 0, 0, 0), At(0, 0, 0, 59), At(12, 0, 0, 10), At(12, 30, 0, 49),
            At(23, 59, 59, 20), At(7, 1, 1, 50), At(7, 1, 1, 60)}

\* Three periods of 50 Hz and of 60 Hz.
MCLeads == {60, 50}

\* One time is enough where only the order of the files is asked for.
MCOneTime == {At(0, 0, 0, 59)}
MCOneLead == {60}

=============================================================================
