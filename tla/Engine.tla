------------------------------- MODULE Engine ------------------------------
(***************************************************************************)
(* The decision the engine takes on one bar: how far what is held is from  *)
(* what the target asks for, and whether the difference is worth an order  *)
(* (Engine::on_bar in src/engine.cpp).  The modules that own a venue add   *)
(* the state: Replay a simulated one, the live modules a broker.           *)
(***************************************************************************)
EXTENDS Sizer, Risk

CONSTANTS BandNum,   \* rebalance_band, numerator
          BandDen    \* rebalance_band, denominator

ASSUME EngineAssumption == BandNum \in Nat /\ BandDen \in Nat \ {0}

Larger(a, b) == IF a > b THEN a ELSE b
Distance(a, b) == IF a > b THEN a - b ELSE b - a

\* Opening and closing always go through; a drift correction has to be
\* material first.
WithinBand(current, desired) ==
    /\ current # 0
    /\ desired # 0
    /\ Distance(desired, current) * BandDen < BandNum * Larger(desired, current)

WantsTrade(current, desired) ==
    desired # current /\ ~WithinBand(current, desired)

OrderFor(s, current, desired) ==
    [symbol |-> s,
     side |-> IF desired > current THEN "Buy" ELSE "Sell",
     quantity |-> Distance(desired, current)]

FillOf(order, price) ==
    [symbol |-> order.symbol, side |-> order.side,
     quantity |-> order.quantity, price |-> price]
=============================================================================
