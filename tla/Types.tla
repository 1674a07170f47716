------------------------------- MODULE Types -------------------------------
(***************************************************************************)
(* What the other modules talk about: the instruments, and prices, money   *)
(* and share counts as integers (include/quantiq/types.hpp, fixed.hpp).    *)
(***************************************************************************)
EXTENDS Integers, FiniteSetsExt

CONSTANT Symbols

ASSUME SymbolsAssumption == IsFiniteSet(Symbols)

\* notional(): the only way from a price to money.
Notional(price, quantity) == price * quantity

\* The sum of f over S: the sums below are over functions, so that facts about
\* them can be stated once and cited.
Total(f, S) == MapThenSumSet(LAMBDA i : f[i], S)
=============================================================================
