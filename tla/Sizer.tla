------------------------------- MODULE Sizer -------------------------------
(***************************************************************************)
(* A target weight turned into a whole number of shares                    *)
(* (include/quantiq/sizer.hpp, src/sizer.cpp).                             *)
(*                                                                         *)
(* The fraction of equity a full position takes is FractionNum/FractionDen *)
(* and a weight is a number of WeightScale-ths, so the budget and its      *)
(* floor are exact; the code computes them in binary floating point, whose *)
(* last-bit rounding is abstracted.                                        *)
(***************************************************************************)
EXTENDS Integers

CONSTANTS FractionNum,   \* position_fraction, numerator
          FractionDen,   \* position_fraction, denominator
          WeightScale    \* a weight of WeightScale stands for 1.0

\* The constructor throws ConfigError unless 0 < fraction <= 1.
ASSUME SizerAssumption ==
    /\ FractionNum \in Nat \ {0}
    /\ FractionDen \in Nat \ {0}
    /\ FractionNum <= FractionDen
    /\ WeightScale \in Nat \ {0}

\* Fault: the lower end of the clamp forgotten.
ClampAboveOnly(weight) == IF weight > WeightScale THEN WeightScale ELSE weight

\* std::clamp(weight, 0.0, 1.0): short targets are flat, leverage is cut.
Clamp(weight) ==
    IF weight < 0 THEN 0 ELSE IF weight > WeightScale THEN WeightScale ELSE weight

\* A price or an equity at or below zero sizes to nothing.
Priceable(price, equity) == price > 0 /\ equity > 0

Shares(weight, price, equity) ==
    IF Priceable(price, equity)
    THEN (Clamp(weight) * FractionNum * equity) \div (WeightScale * FractionDen * price)
    ELSE 0
=============================================================================
