------------------------------- MODULE Risk --------------------------------
(***************************************************************************)
(* The checks between a signal and the venue                               *)
(* (include/quantiq/risk.hpp, src/risk.cpp).                               *)
(*                                                                         *)
(* A risk state is [halted, seen_equity, peak_equity].  The drawdown limit *)
(* is DrawdownNum/DrawdownDen, compared exactly where the code compares    *)
(* doubles.  The halt reason is text and is left out; max_daily_loss is    *)
(* stored by the code and read by nothing, so it does not appear.          *)
(***************************************************************************)
EXTENDS Portfolio

CONSTANTS MaxPositions,   \* limits_.max_positions
          DrawdownNum,    \* limits_.max_drawdown, numerator
          DrawdownDen     \* limits_.max_drawdown, denominator

ASSUME RiskAssumption ==
    /\ MaxPositions \in Nat
    /\ DrawdownNum \in Nat
    /\ DrawdownDen \in Nat \ {0}

\* Selling what is not held is refused.
CanSell(order, folio) == order.side = "Buy" \/ Holds(folio, order.symbol)

\* Fault: the slot check off by one.
HasSlotOffByOne(order, folio) ==
    \/ order.side = "Sell"
    \/ Holds(folio, order.symbol)
    \/ OpenPositions(folio) <= MaxPositions

\* Only a new name consumes a slot.
HasSlot(order, folio) ==
    \/ order.side = "Sell"
    \/ Holds(folio, order.symbol)
    \/ OpenPositions(folio) < MaxPositions

\* An order the account cannot pay for is refused here, not at the venue.
CanPay(order, price, cash) ==
    order.side = "Sell" \/ Notional(price, order.quantity) <= cash

Allow(risk, order, folio, price, cash) ==
    /\ ~risk.halted
    /\ CanSell(order, folio)
    /\ HasSlot(order, folio)
    /\ CanPay(order, price, cash)

RiskState(halted, seen, peak) ==
    [halted |-> halted, seen_equity |-> seen, peak_equity |-> peak]

FreshRisk == RiskState(FALSE, FALSE, 0)

Halt(risk) == RiskState(TRUE, risk.seen_equity, risk.peak_equity)

\* Fault: the peak follows equity down as well as up.
IsNewEquity(risk, equity) == ~risk.seen_equity \/ equity # risk.peak_equity

IsNewPeak(risk, equity) == ~risk.seen_equity \/ equity > risk.peak_equity

TooDeep(peak, equity) ==
    peak > 0 /\ (peak - equity) * DrawdownDen > DrawdownNum * peak

ObserveEquity(risk, equity) ==
    IF IsNewPeak(risk, equity)
    THEN RiskState(risk.halted, TRUE, equity)
    ELSE IF TooDeep(risk.peak_equity, equity) THEN Halt(risk) ELSE risk
=============================================================================
