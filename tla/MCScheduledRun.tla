--------------------------- MODULE MCScheduledRun --------------------------
(* Windows of two and three as in MCRestart, five days, and a history that   *)
(* covers them all, or four.                                                 *)
EXTENDS ScheduledRun

Plain(p) == [close |-> p, high |-> p, low |-> p]

MCBars == {Plain(1), Plain(2), [close |-> 3, high |-> 3, low |-> 2]}

\* In fifths: entry at 1.2 deviations below the mean, exit at 0.4.
MCEntryNum == -6
MCExitNum == -2
=============================================================================
