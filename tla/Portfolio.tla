----------------------------- MODULE Portfolio -----------------------------
(***************************************************************************)
(* What is held and what has been made                                     *)
(* (include/quantiq/portfolio.hpp, src/portfolio.cpp).                     *)
(*                                                                         *)
(* A portfolio is [positions, realized].  `positions` is total over        *)
(* Symbols: a symbol missing from the unordered_map is NoPosition, which   *)
(* is also what erase() leaves.  Prices and money are integer ticks, as in *)
(* fixed.hpp, and every price is at least zero, so C++ division and \div   *)
(* agree.                                                                  *)
(***************************************************************************)
EXTENDS Types

NoMark == -1                      \* the marks map has no entry for the symbol

Position == [quantity : Nat, avg_price : Int]
NoPosition == [quantity |-> 0, avg_price |-> 0]
PortfolioState == [positions : [Symbols -> Position], realized : Int]
EmptyPortfolio == [positions |-> [s \in Symbols |-> NoPosition], realized |-> 0]

\* Fault: average cost rounded up.
AvgPriceUp(existing, added, total) ==
    IF total = 0 THEN 0 ELSE (existing + added + total - 1) \div total

\* Weighted average cost, rounded down once per fill.
AvgPrice(existing, added, total) ==
    IF total = 0 THEN 0 ELSE (existing + added) \div total

Bought(pos, quantity, price) ==
    [quantity |-> pos.quantity + quantity,
     avg_price |-> AvgPrice(pos.avg_price * pos.quantity, price * quantity,
                            pos.quantity + quantity)]

\* A sale never takes a position below zero, and a position at zero is erased.
Sellable(pos, quantity) == IF quantity < pos.quantity THEN quantity ELSE pos.quantity

\* Fault: any sale erases the position.
ReducedToNothing(pos, sold) == NoPosition

Reduced(pos, sold) ==
    IF pos.quantity = sold THEN NoPosition
    ELSE [pos EXCEPT !.quantity = @ - sold]

\* Profit is booked when a position is reduced, against its average cost.
Booked(pos, sold, price) == (price - pos.avg_price) * sold

ApplyBuy(folio, s, quantity, price) ==
    [folio EXCEPT !.positions[s] = Bought(@, quantity, price)]

ApplySell(folio, s, quantity, price) ==
    LET pos == folio.positions[s]
        sold == Sellable(pos, quantity)
    IN  [positions |-> [folio.positions EXCEPT ![s] = Reduced(pos, sold)],
         realized |-> folio.realized + Booked(pos, sold, price)]

Apply(folio, fill) ==
    IF fill.side = "Buy"
    THEN ApplyBuy(folio, fill.symbol, fill.quantity, fill.price)
    ELSE ApplySell(folio, fill.symbol, fill.quantity, fill.price)

Quantity(folio, s) == folio.positions[s].quantity

Holds(folio, s) == Quantity(folio, s) > 0

OpenPositions(folio) == Cardinality({s \in Symbols : Holds(folio, s)})

\* A position whose symbol has never been quoted is worth nothing here.
MarketValue(folio, marks) ==
    Total([s \in Symbols |-> Notional(marks[s], Quantity(folio, s))],
          {s \in Symbols : marks[s] # NoMark})
=============================================================================
