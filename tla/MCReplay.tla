------------------------------ MODULE MCReplay ------------------------------
(* Three symbols, one more than there are slots, and four bars: enough for *)
(* an entry, a drift correction and an exit, for a third name finding the  *)
(* slots taken, and for a peak and a fall from it.                         *)
EXTENDS Replay, TLC

CONSTANTS a, b, c

MCSymbols == {a, b, c}
MCPrices == {2, 3, 5}
MCWeights == {-1, 1, 3}
Symmetry == Permutations(MCSymbols)
=============================================================================
