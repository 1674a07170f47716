--------------------------- MODULE MCLiveTrading ---------------------------
(* One position slot; a full position is half the equity and a share costs *)
(* one or two, so orders are of one to three shares.  Three symbols let one *)
(* engine set the peak, a second halt and a third come after the halt; the  *)
(* runs about a single engine's orders have two.                            *)
EXTENDS LiveTrading, TLC

CONSTANTS A, B, C

MCSymmetry == Permutations(Symbols)
=============================================================================
