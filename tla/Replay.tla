------------------------------- MODULE Replay ------------------------------
(***************************************************************************)
(* One strategy replayed over a list of bars: Engine::run driving          *)
(* Engine::on_bar against a MockVenue, as replay() in src/main.cpp sets it *)
(* up, writing the journal the report is made from.                        *)
(*                                                                         *)
(* The bars of the CSV file and the targets of the strategy are inputs,    *)
(* chosen one bar at a time.  A bar keeps its symbol and its close, which  *)
(* is all the pipeline reads; a target keeps its weight.                   *)
(***************************************************************************)
EXTENDS Engine, Metrics

CONSTANTS Prices,         \* the closes a bar may have, in ticks
          Weights,        \* the weights a strategy may ask for
          StartingCash,   \* MockVenue's starting cash, in ticks
          MaxBars         \* bound: length of the bar file

ASSUME ReplayAssumption ==
    /\ Prices \subseteq Nat
    /\ Weights \subseteq Int
    /\ StartingCash \in Nat
    /\ MaxBars \in Nat

VARIABLES
    phase,      \* "running", "done" (run returned), "threw" (InsufficientFunds)
    bars,       \* stats.bars
    cash,       \* the venue's cash
    holdings,   \* the venue's shares per symbol
    folio,      \* the engine's portfolio
    marks,      \* the engine's last close per symbol, or NoMark
    risk,       \* the risk state
    journal     \* the events written

vars == <<phase, bars, cash, holdings, folio, marks, risk, journal>>

Init ==
    /\ phase = "running"
    /\ bars = 0
    /\ cash = StartingCash
    /\ holdings = [s \in Symbols |-> 0]
    /\ folio = EmptyPortfolio
    /\ marks = [s \in Symbols |-> NoMark]
    /\ risk = FreshRisk
    /\ journal = <<>>

-----------------------------------------------------------------------------
(* The venue *)

\* Fault: the account reports its cash as its equity.
AccountCash(s, close) == cash

\* MockVenue::account values only the shares of the bar being replayed.
AccountEquity(s, close) == cash + Notional(close, holdings[s])

\* Fault: spending the last tick is refused.
CanFillWithChange(order, close) ==
    order.side = "Sell" \/ Notional(close, order.quantity) < cash

\* submit() throws when a purchase costs more than the cash at hand.
CanFill(order, close) ==
    order.side = "Sell" \/ Notional(close, order.quantity) <= cash

\* Fault: a sale pays nothing in.
CashAfterSpending(fill) ==
    IF fill.side = "Buy" THEN cash - Notional(fill.price, fill.quantity) ELSE cash

CashAfter(fill) ==
    IF fill.side = "Buy" THEN cash - Notional(fill.price, fill.quantity)
                         ELSE cash + Notional(fill.price, fill.quantity)

HoldingsAfter(fill) ==
    [holdings EXCEPT ![fill.symbol] =
        IF fill.side = "Buy" THEN @ + fill.quantity ELSE @ - fill.quantity]

-----------------------------------------------------------------------------
(* One bar: next_bar, then on_bar up to the point where an outcome is known *)

Equity(s, close) == cash + MarketValue(folio, [marks EXCEPT ![s] = close])

Mark(s, close) == MarkEvent(s, Equity(s, close), close, Quantity(folio, s))

Desired(s, close, weight) == Shares(weight, close, AccountEquity(s, close))

Order(s, close, weight) ==
    OrderFor(s, Quantity(folio, s), Desired(s, close, weight))

NextBar(s, close) ==
    /\ phase = "running"
    /\ bars < MaxBars
    /\ bars' = bars + 1
    /\ marks' = [marks EXCEPT ![s] = close]
    /\ risk' = ObserveEquity(risk, Equity(s, close))

\* The bar is marked, the drawdown limit trips and run() leaves its loop.
OnBarHalted(s, close) ==
    /\ NextBar(s, close)
    /\ risk'.halted
    /\ phase' = "done"
    /\ journal' = Append(journal, Mark(s, close))
    /\ UNCHANGED <<cash, holdings, folio>>

\* The position already matches the target, or is close enough to it.
OnBarIdle(s, close, weight) ==
    /\ NextBar(s, close)
    /\ ~risk'.halted
    /\ ~WantsTrade(Quantity(folio, s), Desired(s, close, weight))
    /\ journal' = Append(journal, Mark(s, close))
    /\ UNCHANGED <<phase, cash, holdings, folio>>

OnBarRejected(s, close, weight) ==
    LET order == Order(s, close, weight)
    IN  /\ NextBar(s, close)
        /\ ~risk'.halted
        /\ WantsTrade(Quantity(folio, s), Desired(s, close, weight))
        /\ ~Allow(risk', order, folio, close, cash)
        /\ journal' = journal \o <<Mark(s, close), RejectedEvent(order)>>
        /\ UNCHANGED <<phase, cash, holdings, folio>>

\* The order goes to the venue, which fills it at the close or throws
\* InsufficientFunds out of on_bar, run and replay.
OnBarSubmitted(s, close, weight) ==
    LET order == Order(s, close, weight)
        fill == FillOf(order, close)
    IN  /\ NextBar(s, close)
        /\ ~risk'.halted
        /\ WantsTrade(Quantity(folio, s), Desired(s, close, weight))
        /\ Allow(risk', order, folio, close, cash)
        /\ IF CanFill(order, close)
           THEN /\ cash' = CashAfter(fill)
                /\ holdings' = HoldingsAfter(fill)
                /\ folio' = Apply(folio, fill)
                /\ journal' = journal \o <<Mark(s, close), FillEvent(fill)>>
                /\ UNCHANGED phase
           ELSE /\ phase' = "threw"
                /\ journal' = Append(journal, Mark(s, close))
                /\ UNCHANGED <<cash, holdings, folio>>

\* The bars run out.
Finish ==
    /\ phase = "running"
    /\ phase' = "done"
    /\ UNCHANGED <<bars, cash, holdings, folio, marks, risk, journal>>

Next ==
    \/ \E s \in Symbols, close \in Prices : OnBarHalted(s, close)
    \/ \E s \in Symbols, close \in Prices, weight \in Weights :
          \/ OnBarIdle(s, close, weight)
          \/ OnBarRejected(s, close, weight)
          \/ OnBarSubmitted(s, close, weight)
    \/ Finish

Spec == Init /\ [][Next]_vars

-----------------------------------------------------------------------------
(* Type invariant.  The peak and the marked equities are sums; they are    *)
(* integers, which is all that is said of them here.                       *)
BooksOK ==
    /\ cash \in Nat
    /\ holdings \in [Symbols -> Nat]
    /\ folio \in PortfolioState

TypeOK ==
    /\ phase \in {"running", "done", "threw"}
    /\ bars \in 0..MaxBars
    /\ BooksOK
    /\ marks \in [Symbols -> Prices \cup {NoMark}]
    /\ risk.halted \in BOOLEAN
    /\ risk.seen_equity \in BOOLEAN

(* The engine's portfolio and the venue's account are kept by different    *)
(* code from the same fills, and they never disagree about a share.        *)
BooksAgree == \A s \in Symbols : Quantity(folio, s) = holdings[s]

(* Every order that passes Risk::allow can be paid for at the venue, so    *)
(* the InsufficientFunds of MockVenue::submit never ends a replay.         *)
NeverThrows == phase # "threw"

(* A new name needs a free slot, so the replay never holds more names than *)
(* max_positions, whatever order names are opened and closed in.           *)
WithinSlots == OpenPositions(folio) <= MaxPositions

-----------------------------------------------------------------------------
Walked == Walk(journal)

ReportMetrics == ComputeMetrics(Walked.marks, Walked.trades)

(* The risk layer and the report measure drawdown with code of their own,  *)
(* one bar by bar and one from the file: the replay is halted exactly when *)
(* the deepest drawdown the report prints is beyond the limit, never a bar *)
(* late and never for a loss the report does not show.                     *)
DrawdownRule ==
    risk.halted <=> /\ ReportMetrics.valid
                    /\ Less(ReportMetrics.max_drawdown, Ratio(-DrawdownNum, DrawdownDen))

(* The figures of the report tell the run: the return is that of the       *)
(* account as it stands now, though the last mark was written before its   *)
(* bar's trade; the days invested are all the days invested, though the    *)
(* count skips the first; wins and losses add up to the net profit the     *)
(* walk has.                                                               *)
MetricsTellTheRun ==
    ReportMetrics.valid =>
        /\ ReportMetrics.total_return =
               Ratio(cash + MarketValue(folio, marks) - StartingCash, StartingCash)
        /\ ReportMetrics.exposure.num =
               Cardinality({i \in DOMAIN Walked.marks : Walked.marks[i].quantity # 0})
        /\ ReportMetrics.gross_win - ReportMetrics.gross_loss = Walked.net

(* The report pairs exits with entries first in, first out.  Whatever it   *)
(* paired, the profit it reports plus what the open lots cost is what the  *)
(* account gained or spent, to the tick, and the open lots are the         *)
(* positions the engine holds.                                             *)
ReportConserves ==
    /\ Walked.net - LotCost(Walked) = cash - StartingCash
    /\ \A s \in Symbols : LotShares(Walked, s) = Quantity(folio, s)

-----------------------------------------------------------------------------
(* Average cost is rounded down once per purchase, and "happens once per   *)
(* fill rather than compounding across them" (portfolio.cpp).  Lost is the *)
(* money average cost has misplaced so far: a purchase loses less than one *)
(* tick a share of what is then held, and a sale loses nothing.            *)
CostBasis ==
    Total([s \in Symbols |-> folio.positions[s].avg_price * Quantity(folio, s)], Symbols)

Lost == StartingCash + folio.realized - cash - CostBasis

RoundingStaysSmall ==
    [][\A s \in Symbols :
          Quantity(folio, s)' # Quantity(folio, s) =>
             Lost' - Lost \in 0..(IF Quantity(folio, s)' > Quantity(folio, s)
                                  THEN Quantity(folio, s)' - 1 ELSE 0)]_vars

(* "if the position already matches the target, the difference is zero     *)
(* and nothing is sent" (engine.hpp).  After a fill, the same bar with the *)
(* same target asks for nothing more.                                      *)
Refills(s, weight) == WantsTrade(Quantity(folio, s), Desired(s, marks[s], weight))

FillSettles ==
    [][\A s \in Symbols : \A weight \in Weights :
          (/\ Quantity(folio, s)' # Quantity(folio, s)
           /\ Quantity(folio, s)' = Desired(s, marks'[s], weight))
          => ~Refills(s, weight)']_vars

(* The replay implements the ledger: at most one trade a bar, in the bar's *)
(* symbol, at its close, out of cash and shares the account really has.    *)
Account == INSTANCE Ledger WITH shares <- [s \in Symbols |-> Quantity(folio, s)],
                                quote <- marks

ImplementsLedger == Account!Spec
=============================================================================
