----------------------------- MODULE MCRestart -----------------------------
(* A ring of four under windows of two and three, wrapped by the fifth bar; *)
(* bars that close at one to three, some with wicks.                        *)
EXTENDS Restart

Plain(p) == [close |-> p, high |-> p, low |-> p]

MCBars == {Plain(1), Plain(2), [close |-> 3, high |-> 3, low |-> 2],
           [close |-> 2, high |-> 4, low |-> 1]}

\* In fifths: entry at 1.2 deviations below the mean, exit at 0.4.
MCEntryNum == -6
MCExitNum == -2
=============================================================================
