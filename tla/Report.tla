------------------------------- MODULE Report ------------------------------
(***************************************************************************)
(* The pass over a strategy's journal that turns a list of fills into      *)
(* round trips: walk() in src/report.cpp.                                  *)
(*                                                                         *)
(* A journal is a sequence of events, oldest first.  The events of one     *)
(* strategy are walked; the code keys every running total by strategy, so  *)
(* strategies do not meet here.  Dates and reasons are left out, and money *)
(* stays in ticks where the code goes through doubles.                     *)
(***************************************************************************)
EXTENDS Types, SequencesExt

MarkEvent(s, equity, close, quantity) ==
    [event |-> "mark", symbol |-> s, equity |-> equity, close |-> close,
     quantity |-> quantity]

FillEvent(fill) ==
    [event |-> "fill", symbol |-> fill.symbol, side |-> fill.side,
     quantity |-> fill.quantity, price |-> fill.price]

RejectedEvent(order) ==
    [event |-> "rejected", symbol |-> order.symbol, side |-> order.side,
     quantity |-> order.quantity]

IsFill(event) == event.event = "fill"
IsMark(event) == event.event = "mark"

-----------------------------------------------------------------------------
\* Shares in the lots ahead of lot i.
Ahead(lots, i) == Total([j \in DOMAIN lots |-> lots[j].quantity], 1..(i - 1))

\* Fault: every lot is matched as if it were the first.
MatchedRepeatedly(lots, quantity) ==
    [i \in DOMAIN lots |-> Min({lots[i].quantity, quantity})]

\* First in, first out: lot i gives what the lots ahead of it could not.
Matched(lots, quantity) ==
    [i \in DOMAIN lots |->
        Min({lots[i].quantity, Max({0, quantity - Ahead(lots, i)})})]

Closed(lots, quantity) == Total(Matched(lots, quantity), DOMAIN lots)

Profit(lots, quantity, price) ==
    Total([i \in DOMAIN lots |-> (price - lots[i].price) * Matched(lots, quantity)[i]],
          DOMAIN lots)

\* What is left of the lots: those at the front that have given everything are
\* popped.
Lessened(lots, quantity) ==
    [i \in DOMAIN lots |->
        [quantity |-> lots[i].quantity - Matched(lots, quantity)[i],
         price |-> lots[i].price]]

Remaining(lots, quantity) ==
    LET kept == {i \in DOMAIN lots : Matched(lots, quantity)[i] < lots[i].quantity}
    IN  IF kept = {} THEN <<>>
        ELSE SubSeq(Lessened(lots, quantity), Min(kept), Len(lots))

\* The walk's running state: the marks so far, the open lots of each symbol, the
\* round trips, their total, its highest value and its deepest fall from there.
WalkStart == [marks |-> <<>>, lots |-> [s \in Symbols |-> <<>>],
              trades |-> <<>>, net |-> 0, high |-> 0, max_drawdown |-> 0]

WalkBuy(w, fill) ==
    [w EXCEPT !.lots[fill.symbol] =
        Append(@, [quantity |-> fill.quantity, price |-> fill.price])]

WalkSell(w, fill) ==
    LET lots == w.lots[fill.symbol]
        profit == Profit(lots, fill.quantity, fill.price)
        net == w.net + profit
        high == Max({w.high, net})
    IN  IF Closed(lots, fill.quantity) = 0 THEN w
        ELSE [marks |-> w.marks,
              lots |-> [w.lots EXCEPT ![fill.symbol] = Remaining(lots, fill.quantity)],
              trades |-> Append(w.trades,
                  [symbol |-> fill.symbol, quantity |-> Closed(lots, fill.quantity),
                   entry |-> Head(lots).price, exit |-> fill.price, profit |-> profit]),
              net |-> net,
              high |-> high,
              max_drawdown |-> Min({w.max_drawdown, net - high})]

WalkFill(w, fill) == IF fill.side = "Buy" THEN WalkBuy(w, fill) ELSE WalkSell(w, fill)

WalkMark(w, mark) == [w EXCEPT !.marks = Append(@, mark)]

WalkEvent(w, event) ==
    CASE IsMark(event) -> WalkMark(w, event)
      [] IsFill(event) -> WalkFill(w, event)
      [] OTHER -> w

Walk(journal) == FoldLeft(WalkEvent, WalkStart, journal)

\* What the open lots of a walk cost, and how many shares of s they hold.
LotShares(w, s) ==
    Total([i \in DOMAIN w.lots[s] |-> w.lots[s][i].quantity], DOMAIN w.lots[s])

LotCost(w) ==
    Total([s \in Symbols |->
              Total([i \in DOMAIN w.lots[s] |-> w.lots[s][i].quantity * w.lots[s][i].price],
                    DOMAIN w.lots[s])],
          Symbols)
=============================================================================
