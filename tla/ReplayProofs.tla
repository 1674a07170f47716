---------------------------- MODULE ReplayProofs ----------------------------
(***************************************************************************)
(* What the runs of Replay check on three symbols and four bars, for every *)
(* set of symbols and prices, every sizing and limit, and any number of    *)
(* bars.                                                                   *)
(***************************************************************************)
EXTENDS Replay, CommonTheorems

-----------------------------------------------------------------------------
(* The inductive invariant.  BooksAgree needs the types, the types need    *)
(* BooksAgree (a sale never takes more than the venue holds), and the      *)
(* slots need the portfolio to move one symbol at a time.                  *)
IInv == TypeOK /\ BooksAgree /\ NeverThrows /\ WithinSlots

(* The sizer: a target asks for a whole number of shares, and for none at  *)
(* a price of zero.                                                        *)
LEMMA SharesNat ==
  ASSUME NEW weight \in Int, NEW price \in Nat, NEW equity \in Int
  PROVE  /\ Shares(weight, price, equity) \in Nat
         /\ Shares(weight, price, equity) > 0 => price > 0
<1>1. CASE ~Priceable(price, equity)
  BY <1>1 DEF Shares
<1>2. CASE Priceable(price, equity)
  <2>1. Clamp(weight) \in Nat
    BY SizerAssumption DEF Clamp
  <2>2. Clamp(weight) * FractionNum \in Nat
    BY <2>1, ProductNat, SizerAssumption
  <2>3. Clamp(weight) * FractionNum * equity \in Nat
    BY <1>2, <2>2, ProductNat DEF Priceable
  <2>4. WeightScale * FractionDen \in Nat /\ WeightScale * FractionDen > 0
    BY ProductNat, ProductPositive, SizerAssumption
  <2>5. /\ WeightScale * FractionDen * price \in Nat
        /\ WeightScale * FractionDen * price > 0
    BY <1>2, <2>4, ProductNat, ProductPositive DEF Priceable
  <2>6. (Clamp(weight) * FractionNum * equity)
          \div (WeightScale * FractionDen * price) \in Nat
    BY <2>3, <2>5, QuotientNat
  <2> QED
    BY <1>2, <2>6 DEF Shares, Priceable
<1> QED
  BY <1>1, <1>2

(* What on_bar asks for, when it asks for anything. *)
LEMMA OrderFacts ==
  ASSUME TypeOK, BooksAgree,
         NEW s \in Symbols, NEW close \in Prices, NEW weight \in Weights,
         WantsTrade(Quantity(folio, s), Desired(s, close, weight))
  PROVE  LET order == Order(s, close, weight) IN
           /\ order.symbol = s
           /\ order.side \in {"Buy", "Sell"}
           /\ order.quantity \in Nat \ {0}
           /\ order.side = "Buy" => close > 0
           /\ order.side = "Sell" => order.quantity <= Quantity(folio, s)
<1>1. Quantity(folio, s) \in Nat /\ close \in Nat /\ weight \in Int
  BY ReplayAssumption DEF TypeOK, BooksOK, PortfolioState, Position, Quantity
<1>2. AccountEquity(s, close) \in Int
  BY <1>1 DEF AccountEquity, Notional, TypeOK, BooksOK
<1>3. /\ Desired(s, close, weight) \in Nat
      /\ Desired(s, close, weight) > 0 => close > 0
  BY <1>1, <1>2, SharesNat DEF Desired
<1> QED
  BY <1>1, <1>3 DEF WantsTrade, Order, OrderFor, Distance

LEMMA NextBarTypes ==
  ASSUME TypeOK, NEW s \in Symbols, NEW close \in Prices, NextBar(s, close)
  PROVE  /\ bars' \in 0..MaxBars
         /\ marks' \in [Symbols -> Prices \cup {NoMark}]
         /\ risk'.halted \in BOOLEAN
         /\ risk'.seen_equity \in BOOLEAN
<1>1. bars' \in 0..MaxBars
  BY ReplayAssumption DEF TypeOK, NextBar
<1>2. marks' \in [Symbols -> Prices \cup {NoMark}]
  BY DEF TypeOK, NextBar
<1>3. risk'.halted \in BOOLEAN /\ risk'.seen_equity \in BOOLEAN
  BY DEF TypeOK, NextBar, ObserveEquity, RiskState, Halt
<1> QED
  BY <1>1, <1>2, <1>3

(* A fill moves the venue and the portfolio alike, and keeps both in type. *)
LEMMA SubmittedBooks ==
  ASSUME IInv, NEW s \in Symbols, NEW close \in Prices, NEW weight \in Weights,
         OnBarSubmitted(s, close, weight)
  PROVE  LET order == Order(s, close, weight) IN
           /\ CanFill(order, close)
           /\ phase' = phase
           /\ order.side = "Buy" =>
                /\ order.quantity * close <= cash
                /\ cash' = cash - order.quantity * close
                /\ holdings' = [holdings EXCEPT ![s] = @ + order.quantity]
                /\ folio' = ApplyBuy(folio, s, order.quantity, close)
           /\ order.side = "Sell" =>
                /\ cash' = cash + order.quantity * close
                /\ holdings' = [holdings EXCEPT ![s] = @ - order.quantity]
                /\ folio' = ApplySell(folio, s, order.quantity, close)
<1> DEFINE order == Order(s, close, weight)
<1>1. /\ order.symbol = s /\ order.quantity \in Nat
      /\ order.side \in {"Buy", "Sell"}
      /\ close \in Nat /\ cash \in Nat
  BY OrderFacts, ReplayAssumption DEF IInv, OnBarSubmitted, TypeOK, BooksOK
<1>2. CanFill(order, close)
  BY DEF OnBarSubmitted, Allow, CanPay, CanFill
<1>3. /\ cash' = CashAfter(FillOf(order, close))
      /\ holdings' = HoldingsAfter(FillOf(order, close))
      /\ folio' = Apply(folio, FillOf(order, close))
      /\ phase' = phase
  BY <1>2 DEF OnBarSubmitted
<1>4. FillOf(order, close) = [symbol |-> s, side |-> order.side,
                              quantity |-> order.quantity, price |-> close]
  BY <1>1 DEF FillOf
<1> HIDE DEF order
<1>5. order.side = "Buy" => close * order.quantity <= cash
  BY <1>2 DEF CanFill, Notional
<1>6. close * order.quantity = order.quantity * close
  BY <1>1
<1>7. CASE order.side = "Buy"
  BY <1>1, <1>2, <1>3, <1>4, <1>5, <1>6, <1>7
     DEF CashAfter, HoldingsAfter, Apply, Notional, order
<1>8. CASE order.side = "Sell"
  BY <1>1, <1>2, <1>3, <1>4, <1>6, <1>8
     DEF CashAfter, HoldingsAfter, Apply, Notional, order
<1> QED
  BY <1>1, <1>7, <1>8 DEF order

LEMMA InitInv == Init => IInv
<1> SUFFICES ASSUME Init PROVE IInv
  OBVIOUS
<1>1. EmptyPortfolio \in PortfolioState /\ \A s \in Symbols : Quantity(EmptyPortfolio, s) = 0
  BY DEF EmptyPortfolio, PortfolioState, Position, NoPosition, Quantity
<1>2. TypeOK
  BY <1>1, ReplayAssumption DEF Init, TypeOK, BooksOK, NoMark, FreshRisk, RiskState
<1>3. BooksAgree
  BY <1>1 DEF Init, BooksAgree
<1>4. {s \in Symbols : Holds(folio, s)} = {}
  BY <1>1 DEF Init, Holds
<1>5. WithinSlots
  BY <1>4, FS_EmptySet, RiskAssumption DEF WithinSlots, OpenPositions
<1> QED
  BY <1>2, <1>3, <1>5 DEF IInv, Init, NeverThrows

(* The one step that moves anything: an order that reached the venue. *)
LEMMA SubmittedInv ==
  ASSUME IInv, NEW s \in Symbols, NEW close \in Prices, NEW weight \in Weights,
         OnBarSubmitted(s, close, weight)
  PROVE  IInv'
<1> DEFINE order == Order(s, close, weight)
           n == order.quantity
<1>1. NextBar(s, close)
  BY DEF OnBarSubmitted
<1>2. /\ n \in Nat /\ n > 0 /\ close \in Nat /\ n * close \in Nat
      /\ order.side \in {"Buy", "Sell"} /\ order.symbol = s
      /\ order.side = "Sell" => n <= Quantity(folio, s)
  BY OrderFacts, ProductNat, ReplayAssumption DEF IInv, OnBarSubmitted
<1>3. /\ cash \in Nat
      /\ holdings \in [Symbols -> Nat]
      /\ folio \in PortfolioState
      /\ \A t \in Symbols : Quantity(folio, t) = holdings[t]
      /\ \A t \in Symbols : Quantity(folio, t) \in Nat
  BY DEF IInv, TypeOK, BooksOK, BooksAgree
<1>4. phase' = phase
  BY SubmittedBooks
<1>5. CASE order.side = "Buy"
  <2> HIDE DEF order
  <2>1. /\ n * close <= cash
        /\ cash' = cash - n * close
        /\ holdings' = [holdings EXCEPT ![s] = @ + n]
        /\ folio' = ApplyBuy(folio, s, n, close)
    BY <1>5, SubmittedBooks DEF order
  <2>2. /\ folio' \in PortfolioState
        /\ \A t \in Symbols : Quantity(folio', t) =
             IF t = s THEN Quantity(folio, t) + n ELSE Quantity(folio, t)
    <3>0. folio \in PortfolioState /\ n \in Nat /\ close \in Nat
      BY <1>2, <1>3
    <3> HIDE DEF n
    <3>1. ApplyBuy(folio, s, n, close) \in PortfolioState
      BY <3>0, BuyMoves
    <3>2. \A t \in Symbols : Quantity(ApplyBuy(folio, s, n, close), t) =
            IF t = s THEN Quantity(folio, t) + n ELSE Quantity(folio, t)
      BY <3>0, BuyMoves
    <3> QED
      BY <2>1, <3>1, <3>2
  <2>3. BooksOK' /\ BooksAgree'
    <3>1. cash' \in Nat
      BY <1>2, <1>3, <2>1
    <3>2. holdings' \in [Symbols -> Nat]
      BY <1>2, <1>3, <2>1
    <3>3. BooksAgree'
      BY <1>3, <2>1, <2>2 DEF BooksAgree
    <3> QED
      BY <2>2, <3>1, <3>2, <3>3 DEF BooksOK
  <2>4. TypeOK'
    BY <1>1, <1>4, <2>3, NextBarTypes DEF IInv, TypeOK
  <2>5. WithinSlots'
    <3> DEFINE open == {t \in Symbols : Holds(folio, t)}
    <3>1. open' = open \cup {s}
      BY <1>2, <1>3, <2>2 DEF Holds
    <3>2. IsFiniteSet(open)
      BY FS_Subset, SymbolsAssumption
    <3>3. CASE Holds(folio, s)
      <4>1. open' = open
        BY <3>1, <3>3
      <4> QED
        BY <4>1 DEF IInv, WithinSlots, OpenPositions
    <3>4. CASE ~Holds(folio, s)
      <4>1. OpenPositions(folio) < MaxPositions
        BY <1>2, <1>5, <3>4 DEF OnBarSubmitted, Allow, HasSlot, order
      <4>2. Cardinality(open \cup {s}) = Cardinality(open) + 1
        BY <3>2, <3>4, FS_AddElement
      <4>3. Cardinality(open) \in Nat
        BY <3>2, FS_CardinalityType
      <4>4. OpenPositions(folio)' = Cardinality(open) + 1
        BY <3>1, <4>2 DEF OpenPositions
      <4>5. Cardinality(open) < MaxPositions
        BY <4>1 DEF OpenPositions
      <4> HIDE DEF open
      <4> QED
        BY <4>3, <4>4, <4>5, RiskAssumption DEF WithinSlots
    <3> QED
      BY <3>3, <3>4
  <2> QED
    BY <1>4, <2>3, <2>4, <2>5 DEF IInv, NeverThrows
<1>6. CASE order.side = "Sell"
  <2> HIDE DEF order
  <2>1. /\ cash' = cash + n * close
        /\ holdings' = [holdings EXCEPT ![s] = @ - n]
        /\ folio' = ApplySell(folio, s, n, close)
    BY <1>6, SubmittedBooks DEF order
  <2>2. /\ folio' \in PortfolioState
        /\ \A t \in Symbols : Quantity(folio', t) =
             IF t = s THEN Quantity(folio, t) - n ELSE Quantity(folio, t)
    BY <1>2, <1>3, <1>6, <2>1, SellMoves
  <2>3. BooksOK' /\ BooksAgree'
    <3>1. cash' \in Nat
      BY <1>2, <1>3, <2>1
    <3>2. holdings' \in [Symbols -> Nat]
      BY <1>2, <1>3, <1>6, <2>1
    <3>3. BooksAgree'
      BY <1>3, <2>1, <2>2 DEF BooksAgree
    <3> QED
      BY <2>2, <3>1, <3>2, <3>3 DEF BooksOK
  <2>4. TypeOK'
    BY <1>1, <1>4, <2>3, NextBarTypes DEF IInv, TypeOK
  <2>5. WithinSlots'
    <3> DEFINE open == {t \in Symbols : Holds(folio, t)}
    <3>1. open' \subseteq open
      BY <1>2, <1>3, <2>2 DEF Holds
    <3>2. IsFiniteSet(open)
      BY FS_Subset, SymbolsAssumption
    <3>3. /\ Cardinality(open') <= Cardinality(open)
          /\ Cardinality(open) \in Nat /\ Cardinality(open') \in Nat
      BY <3>1, <3>2, FS_Subset, FS_CardinalityType
    <3> QED
      BY <3>3, RiskAssumption DEF IInv, WithinSlots, OpenPositions
  <2> QED
    BY <1>4, <2>3, <2>4, <2>5 DEF IInv, NeverThrows
<1> QED
  BY <1>2, <1>5, <1>6

LEMMA NextInv == IInv /\ [Next]_vars => IInv'
<1> SUFFICES ASSUME IInv, [Next]_vars PROVE IInv'
  OBVIOUS
<1>1. ASSUME NEW s \in Symbols, NEW close \in Prices, NextBar(s, close),
             phase' \in {phase, "done"}, UNCHANGED <<cash, holdings, folio>>
      PROVE  IInv'
  BY <1>1, NextBarTypes
     DEF IInv, TypeOK, BooksOK, BooksAgree, NeverThrows, WithinSlots
<1>2. ASSUME NEW s \in Symbols, NEW close \in Prices, OnBarHalted(s, close)
      PROVE  IInv'
  BY <1>1, <1>2 DEF OnBarHalted
<1>3. ASSUME NEW s \in Symbols, NEW close \in Prices, NEW weight \in Weights,
             OnBarIdle(s, close, weight)
      PROVE  IInv'
  BY <1>1, <1>3 DEF OnBarIdle
<1>4. ASSUME NEW s \in Symbols, NEW close \in Prices, NEW weight \in Weights,
             OnBarRejected(s, close, weight)
      PROVE  IInv'
  BY <1>1, <1>4 DEF OnBarRejected
<1>5. ASSUME NEW s \in Symbols, NEW close \in Prices, NEW weight \in Weights,
             OnBarSubmitted(s, close, weight)
      PROVE  IInv'
  BY <1>5, SubmittedInv
<1>6. CASE Finish
  BY <1>6 DEF Finish, IInv, TypeOK, BooksOK, BooksAgree, NeverThrows, WithinSlots
<1>7. CASE UNCHANGED vars
  BY <1>7 DEF vars, IInv, TypeOK, BooksOK, BooksAgree, NeverThrows, WithinSlots
<1> QED
  BY <1>2, <1>3, <1>4, <1>5, <1>6, <1>7 DEF Next

(* Every reachable state of a replay is well typed, its portfolio agrees   *)
(* with the venue share for share, it has not thrown, and it holds no more *)
(* names than there are slots.                                             *)
THEOREM Invariance == Spec => []IInv
  BY InitInv, NextInv, PTL DEF Spec

(* Type correctness: in particular cash and every holding stay at or above *)
(* zero, so a replay can neither borrow nor sell short.                    *)
THEOREM TypeCorrect == Spec => []TypeOK
  BY Invariance, PTL DEF IInv

(* The portfolio of the engine and the account of the venue agree.         *)
THEOREM BooksAlwaysAgree == Spec => []BooksAgree
  BY Invariance, PTL DEF IInv

(* No order that passes the risk checks is refused by the mock venue.      *)
THEOREM ReplayNeverThrows == Spec => []NeverThrows
  BY Invariance, PTL DEF IInv

(* The cap on open names holds through every order of entries and exits.   *)
THEOREM SlotsRespected == Spec => []WithinSlots
  BY Invariance, PTL DEF IInv

-----------------------------------------------------------------------------
(* The replay implements the ledger. *)
LEMMA InitLedger == Init => Account!Init
<1> SUFFICES ASSUME Init PROVE Account!Init
  OBVIOUS
<1>1. \A s \in Symbols : Quantity(folio, s) = 0
  BY DEF Init, EmptyPortfolio, NoPosition, Quantity
<1> QED
  BY <1>1 DEF Init, Account!Init, NoMark

\* A bar that trades nothing quotes a price and keeps the books.
LEMMA QuietBar ==
  ASSUME NEW s \in Symbols, NEW close \in Prices, NextBar(s, close),
         UNCHANGED <<cash, folio>>
  PROVE  Account!Next
<1>1. Account!Quoted(s, close)
  BY DEF NextBar, Account!Quoted
<1>2. Account!Keep
  BY DEF Account!Keep
<1> QED
  BY <1>1, <1>2 DEF Account!Next

LEMMA SubmittedLedger ==
  ASSUME IInv, NEW s \in Symbols, NEW close \in Prices, NEW weight \in Weights,
         OnBarSubmitted(s, close, weight)
  PROVE  Account!Next
<1> DEFINE order == Order(s, close, weight)
           n == order.quantity
           shares == [t \in Symbols |-> Quantity(folio, t)]
<1>1. Account!Quoted(s, close)
  BY DEF OnBarSubmitted, NextBar, Account!Quoted
<1>2. /\ n \in Nat /\ n > 0 /\ close \in Nat
      /\ order.side \in {"Buy", "Sell"}
      /\ order.side = "Buy" => close > 0
      /\ order.side = "Sell" => n <= Quantity(folio, s)
  BY OrderFacts, ReplayAssumption DEF IInv, OnBarSubmitted
<1>3. folio \in PortfolioState /\ cash \in Nat /\ \A t \in Symbols : Quantity(folio, t) \in Nat
  BY DEF IInv, TypeOK, BooksOK, BooksAgree
<1>4. CASE order.side = "Buy"
  <2>1. /\ n * close <= cash
        /\ cash' = cash - n * close
        /\ folio' = ApplyBuy(folio, s, n, close)
    BY <1>4, SubmittedBooks
  <2> HIDE DEF n, order
  <2>2. n <= n * close /\ n * close \in Nat
    BY <1>2, <1>4, ProductAtLeast, ProductNat
  <2>3. n \in 1..cash
    BY <1>2, <1>3, <2>1, <2>2
  <2>4. folio \in PortfolioState /\ n \in Nat /\ close \in Nat
    BY <1>2, <1>3
  <2>5. \A t \in Symbols : Quantity(folio', t) =
            IF t = s THEN Quantity(folio, t) + n ELSE Quantity(folio, t)
    BY <2>1, <2>4, BuyMoves
  <2>6. shares' = [shares EXCEPT ![s] = @ + n]
    BY <2>5
  <2>7. Account!Buy(s, close)
    BY <2>1, <2>3, <2>6 DEF Account!Buy
  <2> QED
    BY <1>1, <2>7 DEF Account!Next
<1>5. CASE order.side = "Sell"
  <2>1. /\ cash' = cash + n * close
        /\ folio' = ApplySell(folio, s, n, close)
    BY <1>5, SubmittedBooks
  <2> HIDE DEF n, order
  <2>2. /\ folio \in PortfolioState /\ n \in Nat /\ close \in Nat
        /\ n <= Quantity(folio, s)
    BY <1>2, <1>3, <1>5
  <2>3. \A t \in Symbols : Quantity(folio', t) =
            IF t = s THEN Quantity(folio, t) - n ELSE Quantity(folio, t)
    BY <2>1, <2>2, SellMoves
  <2>4. shares' = [shares EXCEPT ![s] = @ - n]
    BY <2>3
  <2>5. n \in 1..shares[s]
    BY <1>2, <1>3, <2>2
  <2>6. Account!Sell(s, close)
    BY <2>1, <2>4, <2>5 DEF Account!Sell
  <2> QED
    BY <1>1, <2>6 DEF Account!Next
<1> QED
  BY <1>2, <1>4, <1>5

LEMMA NextLedger == IInv /\ [Next]_vars => [Account!Next]_(Account!vars)
<1> SUFFICES ASSUME IInv, [Next]_vars PROVE Account!Next \/ UNCHANGED Account!vars
  OBVIOUS
<1>1. ASSUME NEW s \in Symbols, NEW close \in Prices, OnBarHalted(s, close)
      PROVE  Account!Next
  BY <1>1, QuietBar DEF OnBarHalted
<1>2. ASSUME NEW s \in Symbols, NEW close \in Prices, NEW weight \in Weights,
             OnBarIdle(s, close, weight)
      PROVE  Account!Next
  BY <1>2, QuietBar DEF OnBarIdle
<1>3. ASSUME NEW s \in Symbols, NEW close \in Prices, NEW weight \in Weights,
             OnBarRejected(s, close, weight)
      PROVE  Account!Next
  BY <1>3, QuietBar DEF OnBarRejected
<1>4. ASSUME NEW s \in Symbols, NEW close \in Prices, NEW weight \in Weights,
             OnBarSubmitted(s, close, weight)
      PROVE  Account!Next
  BY <1>4, SubmittedLedger
<1>5. CASE Finish \/ UNCHANGED vars
  BY <1>5 DEF Finish, vars, Account!vars
<1> QED
  BY <1>1, <1>2, <1>3, <1>4, <1>5 DEF Next

(* Whatever the bars and the targets, a replay is a run of the ledger: its *)
(* cash and its positions come from one affordable trade a bar at most, in *)
(* the bar's symbol and at its close.                                      *)
THEOREM ReplayImplementsLedger == Spec => ImplementsLedger
<1>1. Init => Account!Init
  BY InitLedger
<1>2. IInv /\ [Next]_vars => [Account!Next]_(Account!vars)
  BY NextLedger
<1>3. Spec => []IInv
  BY Invariance
<1> QED
  BY <1>1, <1>2, <1>3, PTL DEF Spec, Account!Spec, ImplementsLedger

-----------------------------------------------------------------------------
(* What the journal says of the run.  The report is made from a walk over  *)
(* the journal, so the invariant follows the walk: the marks in it, the    *)
(* lots, the profit, and how the risk state hangs on the marks.            *)

FillLine == [event : {"fill"}, symbol : Symbols, side : {"Buy", "Sell"},
             quantity : Nat, price : Nat]

RejectedLine == [event : {"rejected"}, symbol : Symbols, side : {"Buy", "Sell"},
                 quantity : Nat]

Line == MarkLine \cup FillLine \cup RejectedLine

\* The first mark is of the account before it traded.  The last was written
\* before its bar's trade, which was made at the price of the mark.
MarksTellTheRun ==
    /\ Len(Walked.marks) = bars
    /\ bars = 0 => cash = StartingCash /\ \A s \in Symbols : Quantity(folio, s) = 0
    /\ bars > 0 =>
         /\ Walked.marks[1].equity = StartingCash
         /\ Walked.marks[1].close \in Prices
         /\ Walked.marks[1].quantity = 0
         /\ Walked.marks[bars].equity = cash + MarketValue(folio, marks)

\* The risk state has seen what the marks say.
HaltTellsTheMarks ==
    /\ risk.seen_equity <=> bars > 0
    /\ bars > 0 => risk.peak_equity = HighWater(Walked.marks, bars)
    /\ risk.halted <=>
         \E i \in 1..bars : TooDeep(HighWater(Walked.marks, i), Walked.marks[i].equity)

ReportInv ==
    /\ journal \in Seq(Line)
    /\ Walked \in WalkState
    /\ NetIsProfits(Walked)
    /\ ReportConserves
    /\ MarksTellTheRun
    /\ HaltTellsTheMarks

LEMMA InitReport == Init => ReportInv
<1> SUFFICES ASSUME Init PROVE ReportInv
  OBVIOUS
<1>1. journal = <<>> /\ journal \in Seq(Line)
  BY DEF Init
<1>2. Walked = WalkStart
  BY <1>1, WalkEmpty DEF Walked
<1>3. bars = 0 /\ cash = StartingCash /\ risk.seen_equity = FALSE /\ risk.halted = FALSE
  BY DEF Init, FreshRisk, RiskState
<1>4. \A s \in Symbols : Quantity(folio, s) = 0
  BY DEF Init, EmptyPortfolio, NoPosition, Quantity
<1>5. WalkStart.marks = <<>> /\ Len(WalkStart.marks) = 0 /\ WalkStart.net = 0
  BY DEF WalkStart
<1>6. ReportConserves
  BY <1>2, <1>3, <1>4, <1>5, WalkStarts, ReplayAssumption DEF ReportConserves
<1>7. MarksTellTheRun
  BY <1>2, <1>3, <1>4, <1>5 DEF MarksTellTheRun
<1>8. HaltTellsTheMarks
  BY <1>3 DEF HaltTellsTheMarks
<1> QED
  BY <1>1, <1>2, <1>6, <1>7, <1>8, WalkStarts DEF ReportInv

(* Two lines of a bar are walked one after the other. *)
LEMMA WalkTwo ==
  ASSUME NEW E, NEW j \in Seq(E), NEW d \in E, NEW e \in E
  PROVE  /\ j \o <<d, e>> \in Seq(E)
         /\ Walk(j \o <<d, e>>) = WalkEvent(WalkEvent(Walk(j), d), e)
<1> DEFINE k == Append(j, d)
           l == Append(k, e)
           n == Len(j)
<1>1. /\ k \in Seq(E) /\ Len(k) = n + 1 /\ n \in Nat
      /\ k[n + 1] = d /\ \A i \in 1..n : k[i] = j[i]
  BY AppendProperties, LenProperties
<1> HIDE DEF k
<1>2. /\ l \in Seq(E) /\ Len(l) = n + 2
      /\ l[n + 2] = e /\ \A i \in 1..(n + 1) : l[i] = k[i]
  BY <1>1, AppendProperties
<1>3. <<d, e>> \in Seq(E) /\ Len(<<d, e>>) = 2 /\ <<d, e>>[1] = d /\ <<d, e>>[2] = e
  OBVIOUS
<1> DEFINE t == <<d, e>>
           c == j \o t
<1> HIDE DEF t, l
<1>4. /\ c \in Seq(E) /\ Len(c) = n + 2
      /\ \A i \in 1..(n + 2) : c[i] = IF i <= n THEN j[i] ELSE t[i - n]
  BY <1>1, <1>3, ConcatProperties DEF t
<1>5. \A i \in 1..(n + 2) : l[i] = c[i]
  <2> SUFFICES ASSUME NEW i \in 1..(n + 2) PROVE l[i] = c[i]
    OBVIOUS
  <2>1. CASE i <= n
    BY <1>1, <1>2, <1>4, <2>1
  <2>2. CASE i = n + 1
    BY <1>1, <1>2, <1>3, <1>4, <2>2 DEF t
  <2>3. CASE i = n + 2
    BY <1>1, <1>2, <1>3, <1>4, <2>3 DEF t
  <2>4. i <= n \/ i = n + 1 \/ i = n + 2
    <3>1. n \in Nat
      BY <1>1
    <3> HIDE DEF n
    <3> QED
      BY <3>1
  <2> QED
    BY <2>1, <2>2, <2>3, <2>4
<1>6. c = l
  BY <1>2, <1>4, <1>5, SeqEqual
<1>7. Walk(k) = WalkEvent(Walk(j), d)
  BY WalkAppend DEF k
<1>8. Walk(l) = WalkEvent(Walk(k), e)
  BY <1>1, WalkAppend DEF l
<1> QED
  BY <1>2, <1>6, <1>7, <1>8 DEF c, t

LEMMA MarketValueNat ==
  ASSUME TypeOK, NEW quoted \in [Symbols -> Prices \cup {NoMark}]
  PROVE  MarketValue(folio, quoted) \in Nat
<1> DEFINE S == {t \in Symbols : quoted[t] # NoMark}
           f == [t \in Symbols |-> Notional(quoted[t], Quantity(folio, t))]
<1>1. IsFiniteSet(S)
  BY FS_Subset, SymbolsAssumption
<1>2. \A t \in S : quoted[t] \in Nat /\ Quantity(folio, t) \in Nat
  BY ReplayAssumption DEF TypeOK, BooksOK, PortfolioState, Position, Quantity
<1>3. \A t \in S : f[t] \in Nat
  BY <1>2, ProductNat DEF Notional
<1> HIDE DEF f, S
<1>4. Total(f, S) \in Nat
  BY <1>1, <1>3, TotalNat
<1> QED
  BY <1>4 DEF MarketValue, f, S

(* What every bar writes first. *)
LEMMA BarMarked ==
  ASSUME IInv, ReportInv, NEW s \in Symbols, NEW close \in Prices
  PROVE  /\ Mark(s, close) \in MarkLine /\ Mark(s, close) \in Line
         /\ Mark(s, close).equity = Equity(s, close)
         /\ Equity(s, close) \in Nat
         /\ LET w == WalkEvent(Walked, Mark(s, close))
            IN  /\ w \in WalkState
                /\ w.marks = Append(Walked.marks, Mark(s, close))
                /\ w.net = Walked.net /\ NetIsProfits(w)
                /\ LotCost(w) = LotCost(Walked)
                /\ \A t \in Symbols : LotShares(w, t) = LotShares(Walked, t)
<1>1. /\ cash \in Nat /\ folio \in PortfolioState /\ close \in Nat
      /\ \A t \in Symbols : Quantity(folio, t) \in Nat
      /\ marks \in [Symbols -> Prices \cup {NoMark}]
  BY ReplayAssumption DEF IInv, TypeOK, BooksOK, BooksAgree
<1>2. MarketValue(folio, [marks EXCEPT ![s] = close]) \in Nat
  BY <1>1, MarketValueNat DEF IInv
<1>3. Equity(s, close) \in Nat
  BY <1>1, <1>2 DEF Equity
<1>4. Mark(s, close) = [event |-> "mark", symbol |-> s, equity |-> Equity(s, close),
                        close |-> close, quantity |-> Quantity(folio, s)]
  BY DEF Mark, MarkEvent
<1>5. Mark(s, close) \in MarkLine /\ Mark(s, close).equity = Equity(s, close)
  BY <1>1, <1>3, <1>4 DEF MarkLine
<1> DEFINE w == WalkEvent(Walked, Mark(s, close))
           mark == Mark(s, close)
<1>6. Walked \in WalkState /\ NetIsProfits(Walked)
  BY DEF ReportInv
<1>7. w = [marks |-> Append(Walked.marks, mark), lots |-> Walked.lots,
           trades |-> Walked.trades, net |-> Walked.net, high |-> Walked.high,
           max_drawdown |-> Walked.max_drawdown]
  BY <1>5, <1>6, WalkMarked
<1> HIDE DEF w, mark
<1>8. Append(Walked.marks, mark) \in Seq(MarkLine)
  BY <1>5, <1>6, AppendProperties DEF WalkState, mark
<1>9. w \in WalkState
  BY <1>6, <1>7, <1>8 DEF WalkState
<1>10. /\ w.marks = Append(Walked.marks, mark) /\ w.net = Walked.net
       /\ w.trades = Walked.trades /\ w.lots = Walked.lots
  BY <1>7
<1>11. NetIsProfits(w)
  BY <1>6, <1>10 DEF NetIsProfits
<1>12. LotCost(w) = LotCost(Walked) /\ \A t \in Symbols : LotShares(w, t) = LotShares(Walked, t)
  BY <1>10 DEF LotCost, LotShares
<1> QED
  BY <1>3, <1>5, <1>9, <1>10, <1>11, <1>12 DEF Line, w, mark

(* A bar whose mark is the account after it keeps the marks telling the    *)
(* run, and the risk state telling the marks.                              *)
LEMMA MarksFollow ==
  ASSUME IInv, ReportInv, NEW s \in Symbols, NEW close \in Prices, NextBar(s, close),
         Walked'.marks = Append(Walked.marks, Mark(s, close)),
         cash' + MarketValue(folio', marks') = Equity(s, close)
  PROVE  MarksTellTheRun' /\ HaltTellsTheMarks'
<1> DEFINE m == Walked.marks
           mark == Mark(s, close)
           l == Append(m, mark)
           e == Equity(s, close)
<1>1. /\ m \in Seq(MarkLine) /\ mark \in MarkLine /\ mark.equity = e /\ e \in Nat
      /\ Len(m) = bars /\ bars \in Nat
  BY BarMarked DEF ReportInv, WalkState, MarksTellTheRun, IInv, TypeOK
<1>2. /\ mark.close = close /\ mark.quantity = Quantity(folio, s)
  BY DEF Mark, MarkEvent
<1>3. bars' = bars + 1 /\ risk' = ObserveEquity(risk, e) /\ Walked'.marks = l
  BY DEF NextBar
<1> HIDE DEF m, mark, l
<1>4. /\ Len(l) = bars + 1 /\ l[bars + 1] = mark /\ \A i \in 1..bars : l[i] = m[i]
  BY <1>1, AppendProperties DEF l
<1>5. MarksTellTheRun'
  <2>1. CASE bars = 0
    <3>1. cash = StartingCash /\ \A t \in Symbols : Quantity(folio, t) = 0
      BY <2>1 DEF ReportInv, MarksTellTheRun
    <3>2. MarketValue(folio, [marks EXCEPT ![s] = close]) = 0
      <4> DEFINE quoted == [marks EXCEPT ![s] = close]
                 S == {t \in Symbols : quoted[t] # NoMark}
                 f == [t \in Symbols |-> Notional(quoted[t], Quantity(folio, t))]
      <4>1. IsFiniteSet(S)
        BY FS_Subset, SymbolsAssumption
      <4>2. \A t \in S : quoted[t] \in Nat
        BY ReplayAssumption DEF IInv, TypeOK
      <4>3. \A t \in S : f[t] = 0
        BY <3>1, <4>2 DEF Notional
      <4> HIDE DEF f, S
      <4>4. Total(f, S) = 0
        BY <4>1, <4>3, TotalZero
      <4> QED
        BY <4>4 DEF MarketValue, f, S
    <3>3. e = StartingCash
      BY <3>1, <3>2, ReplayAssumption DEF Equity
    <3>4. l[1] = mark /\ bars' = 1
      BY <1>3, <1>4, <2>1
    <3> QED
      BY <1>1, <1>2, <1>3, <1>4, <2>1, <3>1, <3>3, <3>4 DEF MarksTellTheRun
  <2>2. CASE bars # 0
    <3>1. 1 \in 1..bars /\ l[1] = m[1] /\ bars > 0
      BY <1>1, <1>4, <2>2
    <3>2. m[1].equity = StartingCash /\ m[1].close \in Prices /\ m[1].quantity = 0
      BY <3>1 DEF ReportInv, MarksTellTheRun, m
    <3> QED
      BY <1>1, <1>3, <1>4, <3>1, <3>2 DEF MarksTellTheRun
  <2> QED
    BY <2>1, <2>2
<1>6. HaltTellsTheMarks'
  <2> DEFINE n == bars + 1
  <2>1. /\ \A i \in 1..bars : HighWater(l, i) = HighWater(m, i)
        /\ HighWater(l, n) =
             IF bars = 0 \/ e > HighWater(m, bars) THEN e ELSE HighWater(m, bars)
    BY <1>1, HighWaterAppend DEF l
  <2>2. /\ risk.seen_equity <=> bars > 0
        /\ bars > 0 => risk.peak_equity = HighWater(m, bars)
        /\ risk.halted <=> \E i \in 1..bars : TooDeep(HighWater(m, i), m[i].equity)
    BY DEF ReportInv, HaltTellsTheMarks, m
  <2>3. risk.halted \in BOOLEAN /\ risk.seen_equity \in BOOLEAN
    BY DEF IInv, TypeOK
  <2>4. bars > 0 => HighWater(m, bars) \in Int
    BY <1>1, HighWaterIs
  <2>5. ~TooDeep(e, e)
    <3>1. DrawdownNum * e \in Nat
      BY <1>1, ProductNat, RiskAssumption
    <3>2. (e - e) * DrawdownDen = 0
      BY <1>1, RiskAssumption
    <3> QED
      BY <3>1, <3>2 DEF TooDeep
  <2>6. risk'.halted <=> risk.halted \/ TooDeep(HighWater(l, n), e)
    BY <1>1, <1>3, <2>1, <2>2, <2>3, <2>4, <2>5
       DEF ObserveEquity, IsNewPeak, RiskState, Halt
  <2>7. risk'.seen_equity /\ risk'.peak_equity = HighWater(l, n)
    BY <1>1, <1>3, <2>1, <2>2, <2>3, <2>4
       DEF ObserveEquity, IsNewPeak, RiskState, Halt
  <2>8. n \in 1..n /\ (\A i \in 1..bars : i \in 1..n) /\ (\A i \in 1..n : i \in 1..bars \/ i = n)
    BY <1>1
  <2>9. l[n].equity = e /\ \A i \in 1..bars : l[i].equity = m[i].equity
    BY <1>1, <1>4
  <2> HIDE DEF e
  <2>10. risk'.halted <=> \E i \in 1..n : TooDeep(HighWater(l, i), l[i].equity)
    BY <2>1, <2>2, <2>6, <2>8, <2>9
  <2>11. n > 0
    BY <1>1
  <2> HIDE DEF n
  <2>12. bars' = n
    BY <1>3 DEF n
  <2> QED
    BY <1>3, <2>7, <2>10, <2>11, <2>12 DEF HaltTellsTheMarks
<1> QED
  BY <1>5, <1>6

(* A fill, in the terms of the ledger. *)
LEMMA SubmittedMoves ==
  ASSUME IInv, NEW s \in Symbols, NEW close \in Prices, NEW weight \in Weights,
         OnBarSubmitted(s, close, weight)
  PROVE  LET order == Order(s, close, weight)
             n == order.quantity
             step == IF order.side = "Buy" THEN n ELSE -n
         IN  /\ n \in Nat /\ n > 0 /\ close \in Nat
             /\ order.side \in {"Buy", "Sell"} /\ order.symbol = s
             /\ order.side = "Sell" => n <= Quantity(folio, s)
             /\ CanFill(order, close)
             /\ cash' = cash - step * close
             /\ \A t \in Symbols : Quantity(folio', t) =
                  IF t = s THEN Quantity(folio, t) + step ELSE Quantity(folio, t)
<1> DEFINE order == Order(s, close, weight)
           n == order.quantity
<1>1. /\ n \in Nat /\ n > 0 /\ close \in Nat
      /\ order.side \in {"Buy", "Sell"} /\ order.symbol = s
      /\ order.side = "Sell" => n <= Quantity(folio, s)
  BY OrderFacts, ReplayAssumption DEF IInv, OnBarSubmitted
<1>2. /\ folio \in PortfolioState /\ cash \in Nat
      /\ \A t \in Symbols : Quantity(folio, t) \in Nat
  BY DEF IInv, TypeOK, BooksOK, BooksAgree
<1>3. CanFill(order, close)
  BY SubmittedBooks
<1>4. CASE order.side = "Buy"
  <2>1. cash' = cash - n * close /\ folio' = ApplyBuy(folio, s, n, close)
    BY <1>4, SubmittedBooks
  <2>2. folio \in PortfolioState /\ n \in Nat /\ close \in Nat
    BY <1>1, <1>2
  <2> HIDE DEF n, order
  <2>3. \A t \in Symbols : Quantity(folio', t) =
            IF t = s THEN Quantity(folio, t) + n ELSE Quantity(folio, t)
    BY <2>1, <2>2, BuyMoves
  <2> QED
    BY <1>1, <1>3, <1>4, <2>1, <2>3 DEF n, order
<1>5. CASE order.side = "Sell"
  <2>1. cash' = cash + n * close /\ folio' = ApplySell(folio, s, n, close)
    BY <1>5, SubmittedBooks
  <2>2. folio \in PortfolioState /\ n \in Nat /\ close \in Nat /\ n <= Quantity(folio, s)
    BY <1>1, <1>2, <1>5
  <2> HIDE DEF n, order
  <2>3. \A t \in Symbols : Quantity(folio', t) =
            IF t = s THEN Quantity(folio, t) - n ELSE Quantity(folio, t)
    BY <2>1, <2>2, SellMoves
  <2>4. cash + n * close = cash - (-n) * close
    BY <1>1, <1>2
  <2>5. \A t \in Symbols : Quantity(folio, t) - n = Quantity(folio, t) + (-n)
    BY <1>1, <1>2
  <2> QED
    BY <1>1, <1>3, <1>5, <2>1, <2>3, <2>4, <2>5 DEF n, order
<1> QED
  BY <1>1, <1>4, <1>5

(* Trading at the price of the mark moves money, and no equity. *)
LEMMA EquityKept ==
  ASSUME IInv, NEW s \in Symbols, NEW close \in Prices, NEW weight \in Weights,
         OnBarSubmitted(s, close, weight)
  PROVE  cash' + MarketValue(folio', marks') = Equity(s, close)
<1> DEFINE order == Order(s, close, weight)
           step == IF order.side = "Buy" THEN order.quantity ELSE -order.quantity
           quoted == [marks EXCEPT ![s] = close]
           S == {t \in Symbols : quoted[t] # NoMark}
           f == [t \in Symbols |-> Notional(quoted[t], Quantity(folio, t))]
           g == [t \in Symbols |-> Notional(quoted[t], Quantity(folio', t))]
<1>1. /\ step \in Int /\ close \in Nat
      /\ cash' = cash - step * close
      /\ \A t \in Symbols : Quantity(folio', t) =
           IF t = s THEN Quantity(folio, t) + step ELSE Quantity(folio, t)
  <2>1. order.quantity \in Nat
    BY SubmittedMoves
  <2>2. step \in Int
    BY <2>1
  <2> QED
    BY <2>2, SubmittedMoves
<1>2. marks' = quoted
  BY DEF OnBarSubmitted, NextBar
<1>3. /\ cash \in Nat /\ \A t \in Symbols : Quantity(folio, t) \in Nat
      /\ marks \in [Symbols -> Prices \cup {NoMark}]
  BY DEF IInv, TypeOK, BooksOK, BooksAgree
<1>4. /\ MarketValue(folio', marks') = Total(g, S)
      /\ MarketValue(folio, quoted) = Total(f, S)
  BY <1>2 DEF MarketValue
<1>5. IsFiniteSet(S)
  BY FS_Subset, SymbolsAssumption
<1>6. s \in S
  BY <1>1, <1>3 DEF NoMark
<1>7. \A t \in S : quoted[t] \in Nat /\ t \in Symbols
  BY <1>1, <1>3, ReplayAssumption
<1> HIDE DEF step, order
<1>8. /\ \A t \in S : f[t] \in Int /\ g[t] \in Int
      /\ \A t \in S \ {s} : g[t] = f[t]
      /\ f[s] = close * Quantity(folio, s)
      /\ g[s] = close * (Quantity(folio, s) + step)
  <2> HIDE DEF S
  <2>1. \A t \in S : /\ f[t] = quoted[t] * Quantity(folio, t)
                     /\ g[t] = quoted[t] * Quantity(folio', t)
    BY <1>7 DEF Notional
  <2>2. \A t \in S : Quantity(folio, t) \in Int /\ Quantity(folio', t) \in Int
    BY <1>1, <1>3, <1>7
  <2>3. \A x, y \in Int : x * y \in Int
    OBVIOUS
  <2>4. quoted[s] = close
    BY <1>3
  <2> HIDE DEF f, g, quoted
  <2>5. \A t \in S : f[t] \in Int /\ g[t] \in Int
    BY <1>7, <2>1, <2>2, <2>3
  <2>6. \A t \in S \ {s} : g[t] = f[t]
    BY <1>1, <1>7, <2>1
  <2> QED
    BY <1>1, <1>6, <2>1, <2>4, <2>5, <2>6
<1> HIDE DEF f, g, S
<1>9. Total(g, S) = Total(f, S) - f[s] + g[s]
  BY <1>5, <1>6, <1>8, TotalChange
<1>10. Total(f, S) \in Int
  BY <1>5, <1>8, TotalInt
<1>11. \A c, p, q, d, t \in Int :
         (c - d * p) + (t - p * q + p * (q + d)) = c + t
  OBVIOUS
<1>12. Quantity(folio, s) \in Int
  BY <1>3
<1>13. cash' + Total(g, S) = cash + Total(f, S)
  BY <1>1, <1>3, <1>8, <1>9, <1>10, <1>11, <1>12
<1> QED
  BY <1>4, <1>13 DEF Equity

(* A bar that trades nothing writes its mark, and perhaps a rejection. *)
LEMMA QuietReport ==
  ASSUME IInv, ReportInv, NEW s \in Symbols, NEW close \in Prices, NextBar(s, close),
         UNCHANGED <<cash, folio>>,
         journal' \in Seq(Line),
         Walked' = WalkEvent(Walked, Mark(s, close))
  PROVE  ReportInv'
<1> DEFINE w == WalkEvent(Walked, Mark(s, close))
<1>1. /\ w \in WalkState
      /\ w.marks = Append(Walked.marks, Mark(s, close))
      /\ w.net = Walked.net /\ NetIsProfits(w)
      /\ LotCost(w) = LotCost(Walked)
      /\ \A t \in Symbols : LotShares(w, t) = LotShares(Walked, t)
  BY BarMarked
<1> HIDE DEF w
<1>2. Walked' = w
  BY DEF w
<1>3. marks' = [marks EXCEPT ![s] = close]
  BY DEF NextBar
<1>4. cash' + MarketValue(folio', marks') = Equity(s, close)
  BY <1>3 DEF Equity
<1>5. MarksTellTheRun' /\ HaltTellsTheMarks'
  BY <1>1, <1>2, <1>4, MarksFollow
<1>6. ReportConserves'
  BY <1>1, <1>2 DEF ReportInv, ReportConserves
<1> QED
  BY <1>1, <1>2, <1>5, <1>6 DEF ReportInv

(* One line is written. *)
LEMMA MarkOnly ==
  ASSUME IInv, ReportInv, NEW s \in Symbols, NEW close \in Prices, NextBar(s, close),
         UNCHANGED <<cash, folio>>,
         journal' = Append(journal, Mark(s, close))
  PROVE  ReportInv'
<1>1. Mark(s, close) \in Line /\ journal \in Seq(Line)
  BY BarMarked DEF ReportInv
<1>2. Append(journal, Mark(s, close)) \in Seq(Line)
  BY <1>1, AppendProperties
<1>3. Walk(Append(journal, Mark(s, close))) = WalkEvent(Walked, Mark(s, close))
  BY <1>1, WalkAppend DEF Walked
<1>4. Walked' = WalkEvent(Walked, Mark(s, close))
  BY <1>3 DEF Walked
<1> QED
  BY <1>2, <1>4, QuietReport

LEMMA SubmittedReport ==
  ASSUME IInv, ReportInv, NEW s \in Symbols, NEW close \in Prices, NEW weight \in Weights,
         OnBarSubmitted(s, close, weight)
  PROVE  ReportInv'
<1> DEFINE order == Order(s, close, weight)
           n == order.quantity
           step == IF order.side = "Buy" THEN n ELSE -n
           fill == FillOf(order, close)
           mark == Mark(s, close)
           w == WalkEvent(Walked, mark)
           v == WalkEvent(w, FillEvent(fill))
<1>1. /\ n \in Nat /\ n > 0 /\ close \in Nat
      /\ order.side \in {"Buy", "Sell"} /\ order.symbol = s
      /\ order.side = "Sell" => n <= Quantity(folio, s)
      /\ CanFill(order, close)
      /\ cash' = cash - step * close
      /\ \A t \in Symbols : Quantity(folio', t) =
           IF t = s THEN Quantity(folio, t) + step ELSE Quantity(folio, t)
  BY SubmittedMoves
<1>2. /\ cash \in Nat /\ \A t \in Symbols : Quantity(folio, t) \in Nat
  BY DEF IInv, TypeOK, BooksOK, BooksAgree
<1>3. NextBar(s, close) /\ journal' = journal \o <<mark, FillEvent(fill)>>
  BY <1>1 DEF OnBarSubmitted
<1>4. fill = [symbol |-> s, side |-> order.side, quantity |-> n, price |-> close]
  BY <1>1 DEF FillOf
<1> HIDE DEF order
<1>5. FillEvent(fill) \in Line
  BY <1>1, <1>4 DEF FillEvent, FillLine, Line
<1>6. /\ mark \in MarkLine /\ mark \in Line
      /\ w \in WalkState
      /\ w.marks = Append(Walked.marks, mark)
      /\ w.net = Walked.net /\ NetIsProfits(w)
      /\ LotCost(w) = LotCost(Walked)
      /\ \A t \in Symbols : LotShares(w, t) = LotShares(Walked, t)
  BY BarMarked
<1>7. journal \in Seq(Line)
  BY DEF ReportInv
<1> HIDE DEF mark, fill
<1>8. /\ journal \o <<mark, FillEvent(fill)>> \in Seq(Line)
      /\ Walk(journal \o <<mark, FillEvent(fill)>>) =
           WalkEvent(WalkEvent(Walk(journal), mark), FillEvent(fill))
  BY <1>5, <1>6, <1>7, WalkTwo
<1>9. journal' \in Seq(Line) /\ Walked' = v
  BY <1>3, <1>8 DEF Walked
<1>10. /\ Walked.net - LotCost(Walked) = cash - StartingCash
       /\ \A t \in Symbols : LotShares(Walked, t) = Quantity(folio, t)
  BY DEF ReportInv, ReportConserves
<1> HIDE DEF w
<1>11. /\ v \in WalkState
       /\ v.marks = w.marks
       /\ NetIsProfits(v)
       /\ \A t \in Symbols :
            LotShares(v, t) = IF t = s THEN LotShares(w, t) + step ELSE LotShares(w, t)
       /\ v.net - LotCost(v) = w.net - LotCost(w) - step * close
  <2>1. /\ LotCost(w) \in Nat /\ w.net \in Int /\ n * close \in Nat
        /\ \A t \in Symbols : LotShares(w, t) \in Nat
    <3>1. n * close \in Nat
      BY <1>1, ProductNat
    <3>2. LotCost(w) \in Nat /\ \A t \in Symbols : LotShares(w, t) \in Nat
      BY <1>6, LotCostSum
    <3> QED
      BY <1>6, <3>1, <3>2 DEF WalkState
  <2>2. CASE order.side = "Buy"
    <3> DEFINE bought == [symbol |-> s, side |-> "Buy", quantity |-> n, price |-> close]
    <3>1. fill = bought /\ step = n
      BY <1>4, <2>2
    <3>2. LET u == WalkEvent(w, FillEvent(bought)) IN
             /\ u \in WalkState
             /\ u.marks = w.marks /\ u.trades = w.trades /\ u.net = w.net
             /\ \A t \in Symbols :
                  LotShares(u, t) = IF t = s THEN LotShares(w, t) + n ELSE LotShares(w, t)
             /\ LotCost(u) = LotCost(w) + n * close
      <4> HIDE DEF n
      <4> QED
        BY <1>1, <1>6, WalkBought
    <3>3. v = WalkEvent(w, FillEvent(bought))
      BY <3>1
    <3> HIDE DEF v, bought, n, step
    <3>4. /\ v \in WalkState
          /\ v.marks = w.marks /\ v.trades = w.trades /\ v.net = w.net
          /\ \A t \in Symbols :
               LotShares(v, t) = IF t = s THEN LotShares(w, t) + n ELSE LotShares(w, t)
          /\ LotCost(v) = LotCost(w) + n * close
      BY <3>2, <3>3
    <3>5. NetIsProfits(v)
      BY <1>6, <3>4 DEF NetIsProfits
    <3>6. v.net - LotCost(v) = w.net - LotCost(w) - n * close
      BY <2>1, <3>4
    <3> QED
      BY <3>1, <3>4, <3>5, <3>6
  <2>3. CASE order.side = "Sell"
    <3> DEFINE sold == [symbol |-> s, side |-> "Sell", quantity |-> n, price |-> close]
    <3>1. fill = sold /\ step = -n
      BY <1>4, <2>3
    <3>2. n <= LotShares(w, s)
      BY <1>1, <1>6, <1>10, <2>3
    <3>3. LET u == WalkEvent(w, FillEvent(sold)) IN
             /\ u \in WalkState
             /\ u.marks = w.marks
             /\ NetIsProfits(w) => NetIsProfits(u)
             /\ \A t \in Symbols :
                  LotShares(u, t) = IF t = s THEN LotShares(w, t) - n ELSE LotShares(w, t)
             /\ u.net - LotCost(u) = w.net - LotCost(w) + n * close
      <4> HIDE DEF n
      <4> QED
        BY <1>1, <1>6, <3>2, WalkSold
    <3>4. v = WalkEvent(w, FillEvent(sold))
      BY <3>1
    <3> HIDE DEF v, sold, n, step
    <3>5. /\ v \in WalkState
          /\ v.marks = w.marks
          /\ NetIsProfits(v)
          /\ \A t \in Symbols :
               LotShares(v, t) = IF t = s THEN LotShares(w, t) - n ELSE LotShares(w, t)
          /\ v.net - LotCost(v) = w.net - LotCost(w) + n * close
      BY <1>6, <3>3, <3>4
    <3>6. /\ w.net - LotCost(w) + n * close = w.net - LotCost(w) - step * close
          /\ \A t \in Symbols : LotShares(w, t) - n = LotShares(w, t) + step
      <4>1. \A a, b, c, d \in Int : a - b + c * d = a - b - (-c) * d
        OBVIOUS
      <4>2. \A a, b \in Int : a - b = a + (-b)
        OBVIOUS
      <4>3. n \in Int /\ close \in Int /\ LotCost(w) \in Int /\ w.net \in Int
        BY <1>1, <2>1
      <4>4. \A t \in Symbols : LotShares(w, t) \in Int
        BY <2>1
      <4>5. w.net - LotCost(w) + n * close = w.net - LotCost(w) - step * close
        BY <3>1, <4>1, <4>3
      <4>6. \A t \in Symbols : LotShares(w, t) - n = LotShares(w, t) + step
        BY <3>1, <4>2, <4>3, <4>4
      <4> QED
        BY <4>5, <4>6
    <3> QED
      BY <3>5, <3>6
  <2> QED
    BY <1>1, <2>2, <2>3
<1>12. Walked'.marks = Append(Walked.marks, Mark(s, close))
  BY <1>6, <1>9, <1>11 DEF mark
<1>13. cash' + MarketValue(folio', marks') = Equity(s, close)
  BY EquityKept
<1>14. MarksTellTheRun' /\ HaltTellsTheMarks'
  BY <1>3, <1>12, <1>13, MarksFollow
<1>15. ReportConserves'
  <2> HIDE DEF v, step, n
  <2>1. v.net - LotCost(v) = cash' - StartingCash
    <3>1. LotCost(w) \in Nat /\ w.net \in Int /\ StartingCash \in Int
      <4>1. LotCost(w) \in Nat
        BY <1>6, LotCostSum
      <4> QED
        BY <1>6, <4>1, ReplayAssumption DEF WalkState
    <3>2. step * close \in Int
      <4>1. step \in Int
        BY <1>1 DEF step
      <4> QED
        BY <1>1, <4>1
    <3>3. \A a, b, c, d, e \in Int : a - b = c - d => a - b - e = (c - e) - d
      OBVIOUS
    <3>4. w.net - LotCost(w) = cash - StartingCash
      BY <1>6, <1>10
    <3>5. w.net - LotCost(w) - step * close = (cash - step * close) - StartingCash
      BY <1>2, <3>1, <3>2, <3>3, <3>4
    <3> QED
      BY <1>1, <1>11, <3>5
  <2>2. \A t \in Symbols : LotShares(v, t) = Quantity(folio', t)
    BY <1>1, <1>6, <1>10, <1>11
  <2> QED
    BY <1>9, <2>1, <2>2 DEF ReportConserves
<1> QED
  BY <1>9, <1>11, <1>14, <1>15 DEF ReportInv

LEMMA NextReport == IInv /\ ReportInv /\ [Next]_vars => ReportInv'
<1> SUFFICES ASSUME IInv, ReportInv, [Next]_vars PROVE ReportInv'
  OBVIOUS
<1>1. ASSUME NEW s \in Symbols, NEW close \in Prices, OnBarHalted(s, close)
      PROVE  ReportInv'
  BY <1>1, MarkOnly DEF OnBarHalted
<1>2. ASSUME NEW s \in Symbols, NEW close \in Prices, NEW weight \in Weights,
             OnBarIdle(s, close, weight)
      PROVE  ReportInv'
  BY <1>2, MarkOnly DEF OnBarIdle
<1>3. ASSUME NEW s \in Symbols, NEW close \in Prices, NEW weight \in Weights,
             OnBarRejected(s, close, weight)
      PROVE  ReportInv'
  <2> DEFINE order == Order(s, close, weight)
             mark == Mark(s, close)
             line == RejectedEvent(order)
  <2>1. /\ NextBar(s, close) /\ UNCHANGED <<cash, folio>>
        /\ journal' = journal \o <<mark, line>>
        /\ WantsTrade(Quantity(folio, s), Desired(s, close, weight))
    BY <1>3 DEF OnBarRejected
  <2>2. order.symbol = s /\ order.side \in {"Buy", "Sell"} /\ order.quantity \in Nat
    BY <2>1, OrderFacts DEF IInv
  <2> HIDE DEF order
  <2>3. line \in Line
    BY <2>2 DEF RejectedEvent, RejectedLine, Line
  <2>4. mark \in Line /\ journal \in Seq(Line)
    BY BarMarked DEF ReportInv
  <2>5. WalkEvent(WalkEvent(Walked, mark), line) = WalkEvent(Walked, mark)
    BY WalkRejected
  <2> HIDE DEF mark, line
  <2>6. /\ journal \o <<mark, line>> \in Seq(Line)
        /\ Walk(journal \o <<mark, line>>) = WalkEvent(WalkEvent(Walk(journal), mark), line)
    BY <2>3, <2>4, WalkTwo
  <2>7. journal' \in Seq(Line) /\ Walked' = WalkEvent(Walked, mark)
    BY <2>1, <2>5, <2>6 DEF Walked
  <2> QED
    BY <2>1, <2>7, QuietReport DEF mark
<1>4. ASSUME NEW s \in Symbols, NEW close \in Prices, NEW weight \in Weights,
             OnBarSubmitted(s, close, weight)
      PROVE  ReportInv'
  BY <1>4, SubmittedReport
<1>5. CASE Finish
  BY <1>5 DEF Finish, ReportInv, Walked, ReportConserves, MarksTellTheRun, HaltTellsTheMarks
<1>6. CASE UNCHANGED vars
  BY <1>6 DEF vars, ReportInv, Walked, ReportConserves, MarksTellTheRun, HaltTellsTheMarks
<1> QED
  BY <1>1, <1>2, <1>3, <1>4, <1>5, <1>6 DEF Next

(* Every reachable state of a replay has a journal that tells it. *)
THEOREM ReportInvariance == Spec => []ReportInv
  BY InitReport, NextReport, Invariance, PTL DEF Spec

(* The report's profit and the cost of its open lots are the money the     *)
(* account gained, to the tick, and its open lots are the positions.       *)
THEOREM ReportAlwaysConserves == Spec => []ReportConserves
  BY ReportInvariance, PTL DEF ReportInv

(* The halt and the drawdown the report prints. *)
LEMMA DrawdownFollows ==
  ASSUME 0 \notin Prices, StartingCash > 0, IInv, ReportInv
  PROVE  DrawdownRule
<1> DEFINE m == Walked.marks
           Beyond(i) == (HighWater(m, i) - m[i].equity) * DrawdownDen
                          > DrawdownNum * HighWater(m, i)
<1>1. /\ m \in Seq(MarkLine) /\ Len(m) = bars /\ bars \in Nat
      /\ bars > 0 => m[1].equity = StartingCash /\ m[1].close \in Prices
      /\ risk.halted <=> \E i \in 1..bars : TooDeep(HighWater(m, i), m[i].equity)
  BY DEF ReportInv, WalkState, MarksTellTheRun, HaltTellsTheMarks, IInv, TypeOK
<1>2. ReportMetrics.valid <=> Measurable(m)
  BY DEF ReportMetrics, ComputeMetrics
<1>3. Measurable(m) <=> bars >= 2
  <2> HIDE DEF m
  <2>1. bars > 0 => m[1].equity > 0 /\ m[1].close > 0
    <3>1. bars > 0 => m[1].equity = StartingCash /\ m[1].close \in Prices
      BY <1>1
    <3>2. \A p \in Prices : p > 0
      BY ReplayAssumption
    <3> QED
      BY <3>1, <3>2
  <2>2. bars >= 2 => bars > 0
    BY <1>1
  <2> QED
    BY <1>1, <2>1, <2>2 DEF Measurable
<1>4. \A i \in 1..bars : TooDeep(HighWater(m, i), m[i].equity) <=> Beyond(i)
  <2> SUFFICES ASSUME NEW i \in 1..bars
               PROVE  HighWater(m, i) > 0
    BY DEF TooDeep
  <2>1. i \in 1..Len(m) /\ 1 \in 1..i /\ bars > 0
    BY <1>1
  <2>2. HighWater(m, i) \in Int /\ \A j \in 1..i : m[j].equity <= HighWater(m, i)
    BY <1>1, <2>1, HighWaterIs
  <2> QED
    BY <1>1, <2>1, <2>2, ReplayAssumption
<1>5. CASE bars < 2
  <2>1. ASSUME NEW i \in 1..bars PROVE ~Beyond(i)
    <3>1. i = 1 /\ bars = 1 /\ 1 \in 1..Len(m)
      BY <1>1, <1>5
    <3>2. /\ HighWater(m, 1) \in Int
          /\ \E j \in 1..1 : HighWater(m, 1) = m[j].equity
      BY <1>1, <3>1, HighWaterIs
    <3>3. HighWater(m, 1) = m[1].equity /\ m[1].equity = StartingCash
      BY <1>1, <3>1, <3>2
    <3>4. DrawdownNum * StartingCash \in Nat
      BY ProductNat, ReplayAssumption, RiskAssumption
    <3>5. (StartingCash - StartingCash) * DrawdownDen = 0
      BY ReplayAssumption, RiskAssumption
    <3> QED
      BY <3>1, <3>3, <3>4, <3>5
  <2>2. ~risk.halted
    BY <1>1, <1>4, <2>1
  <2> QED
    BY <1>1, <1>2, <1>3, <1>5, <2>2 DEF DrawdownRule
<1>6. CASE bars >= 2
  <2>1. Measurable(m) /\ ReportMetrics.valid
    BY <1>2, <1>3, <1>6
  <2>2. ReportMetrics.max_drawdown = MaxDrawdown(m)
    BY <2>1 DEF ReportMetrics, ComputeMetrics
  <2>3. Len(m) > 0 /\ m[1].equity > 0
    BY <1>1, <1>6
  <2>4. /\ DrawdownNum \in Nat /\ DrawdownDen \in Nat \ {0}
    BY RiskAssumption
  <2>5. Less(MaxDrawdown(m), Ratio(-DrawdownNum, DrawdownDen)) <=> \E i \in 1..Len(m) : Beyond(i)
    BY <1>1, <2>3, <2>4, DeepestBeyond
  <2> HIDE DEF m, Beyond
  <2>6. risk.halted <=> \E i \in 1..bars : Beyond(i)
    BY <1>1, <1>4
  <2> QED
    BY <1>1, <2>1, <2>2, <2>5, <2>6 DEF DrawdownRule
<1> QED
  BY <1>1, <1>5, <1>6

(* The figures and the run. *)
LEMMA MetricsFollow ==
  ASSUME IInv, ReportInv
  PROVE  MetricsTellTheRun
<1> SUFFICES ASSUME ReportMetrics.valid
             PROVE  /\ ReportMetrics.total_return =
                          Ratio(cash + MarketValue(folio, marks) - StartingCash, StartingCash)
                    /\ ReportMetrics.exposure.num =
                          Cardinality({i \in DOMAIN Walked.marks : Walked.marks[i].quantity # 0})
                    /\ ReportMetrics.gross_win - ReportMetrics.gross_loss = Walked.net
  BY DEF MetricsTellTheRun
<1> DEFINE m == Walked.marks
           trades == Walked.trades
           won == Winners(trades)
           lost == DOMAIN trades \ won
<1>1. /\ m \in Seq(MarkLine) /\ Len(m) = bars /\ bars \in Nat
      /\ bars > 0 => /\ m[1].equity = StartingCash /\ m[1].quantity = 0
                     /\ m[bars].equity = cash + MarketValue(folio, marks)
      /\ trades \in Seq(Trade) /\ Walked.net \in Int
      /\ Total(Profits(trades), DOMAIN trades) = Walked.net
  BY DEF ReportInv, WalkState, MarksTellTheRun, IInv, TypeOK, NetIsProfits
<1>2. Measurable(m)
  BY DEF ReportMetrics, ComputeMetrics
<1>3. bars >= 2
  BY <1>1, <1>2 DEF Measurable
<1>4. /\ ReportMetrics.total_return = Ratio(Last(m).equity - m[1].equity, m[1].equity)
      /\ ReportMetrics.exposure = Ratio(InvestedDays(m), Len(m))
      /\ ReportMetrics.gross_win = Gross(trades, won)
      /\ ReportMetrics.gross_loss = -Gross(trades, lost)
  BY <1>2 DEF ReportMetrics, ComputeMetrics
<1>5. Last(m) = m[bars]
  BY <1>1 DEF Last
<1>6. InvestedDays(m) = Cardinality({i \in DOMAIN m : m[i].quantity # 0})
  <2>1. DOMAIN m = 1..bars
    BY <1>1, LenProperties
  <2>2. \A i \in 1..bars : i = 1 \/ i \in 2..bars
    BY <1>1
  <2>3. \A i \in 2..bars : i \in 1..bars
    BY <1>1
  <2>4. m[1].quantity = 0
    BY <1>1, <1>3
  <2> HIDE DEF m
  <2>5. {i \in DOMAIN m : m[i].quantity # 0} = {i \in 2..Len(m) : m[i].quantity # 0}
    BY <1>1, <2>1, <2>2, <2>3, <2>4
  <2> QED
    BY <2>5 DEF InvestedDays
<1>7. Gross(trades, won) + Gross(trades, lost) = Walked.net /\ Gross(trades, lost) \in Int
      /\ Gross(trades, won) \in Int
  <2> DEFINE f == Profits(trades)
             D == DOMAIN trades
  <2>1. Len(trades) \in Nat /\ D = 1..Len(trades)
    BY <1>1, LenProperties
  <2>2. \A i \in D : trades[i] \in Trade
    BY <1>1, <2>1, ElementOfSeq
  <2>3. \A i \in D : f[i] \in Int
    BY <2>2 DEF Profits, Trade
  <2>4. IsFiniteSet(D) /\ won \subseteq D
    BY <2>1, FS_Interval DEF Winners
  <2>5. Gross(trades, won) = Total(f, won) /\ Gross(trades, lost) = Total(f, D \ won)
    BY DEF Gross, Profits
  <2>6. Total(f, D) = Walked.net
    BY <1>1
  <2> HIDE DEF f, D, won
  <2>7. Total(f, D) = Total(f, won) + Total(f, D \ won)
    BY <2>3, <2>4, TotalSplit
  <2>8. IsFiniteSet(won) /\ IsFiniteSet(D \ won)
    BY <2>4, FS_Subset
  <2>9. Total(f, won) \in Int /\ Total(f, D \ won) \in Int
    BY <2>3, <2>4, <2>8, TotalInt
  <2> QED
    BY <2>5, <2>6, <2>7, <2>9
<1>8. ReportMetrics.exposure.num = InvestedDays(m)
  BY <1>4 DEF Ratio
<1> HIDE DEF m, trades, won, lost
<1>9. ReportMetrics.total_return =
        Ratio(cash + MarketValue(folio, marks) - StartingCash, StartingCash)
  <2>1. bars > 0
    BY <1>1, <1>3
  <2>2. Last(m).equity = cash + MarketValue(folio, marks) /\ m[1].equity = StartingCash
    BY <1>1, <1>5, <2>1
  <2> DEFINE value == cash + MarketValue(folio, marks)
             last == Last(m).equity
             first == m[1].equity
  <2>3. last = value /\ first = StartingCash
    BY <2>2
  <2>4. ReportMetrics.total_return = Ratio(last - first, first)
    BY <1>4
  <2> HIDE DEF value, last, first
  <2>5. ReportMetrics.total_return = Ratio(value - StartingCash, StartingCash)
    BY <2>3, <2>4
  <2>6. value - StartingCash = cash + MarketValue(folio, marks) - StartingCash
    <3>1. /\ cash \in Int /\ StartingCash \in Int
          /\ marks \in [Symbols -> Prices \cup {NoMark}]
      BY ReplayAssumption DEF IInv, TypeOK, BooksOK
    <3>2. MarketValue(folio, marks) \in Int
      BY <3>1, MarketValueNat DEF IInv
    <3> QED
      BY <3>1, <3>2 DEF value
  <2> QED
    BY <2>5, <2>6
<1>10. ReportMetrics.gross_win - ReportMetrics.gross_loss = Walked.net
  BY <1>4, <1>7
<1> QED
  BY <1>6, <1>8, <1>9, <1>10 DEF m

(* A replay that starts with money, over bars that have a price, is halted *)
(* exactly when the deepest drawdown of its report is beyond the limit.    *)
THEOREM HaltIsTheReportsDrawdown ==
  ASSUME 0 \notin Prices, StartingCash > 0
  PROVE  Spec => []DrawdownRule
<1>1. IInv /\ ReportInv => DrawdownRule
  BY DrawdownFollows
<1> QED
  BY <1>1, Invariance, ReportInvariance, PTL

(* The return, the days invested and the gross profit of the report are    *)
(* those of the run.                                                       *)
THEOREM MetricsAlwaysTellTheRun == Spec => []MetricsTellTheRun
<1>1. IInv /\ ReportInv => MetricsTellTheRun
  BY MetricsFollow
<1> QED
  BY <1>1, Invariance, ReportInvariance, PTL

-----------------------------------------------------------------------------
(* What a fill may do to the average cost, and what it leaves to be done. *)

\* The price of the lots of one symbol is all of the cost basis that a fill moves.
LEMMA CostBasisOfOne ==
  ASSUME folio \in PortfolioState, folio' \in PortfolioState, NEW s \in Symbols,
         \A t \in Symbols : t # s => folio'.positions[t] = folio.positions[t]
  PROVE  /\ CostBasis \in Int
         /\ CostBasis' = CostBasis - folio.positions[s].avg_price * Quantity(folio, s)
                                   + folio'.positions[s].avg_price * Quantity(folio', s)
<1> DEFINE f == [t \in Symbols |-> folio.positions[t].avg_price * Quantity(folio, t)]
           g == [t \in Symbols |-> folio'.positions[t].avg_price * Quantity(folio', t)]
<1>1. \A p \in PortfolioState : \A t \in Symbols :
        p.positions[t].avg_price * Quantity(p, t) \in Int
  <2>1. \A p \in PortfolioState : \A t \in Symbols :
          p.positions[t].avg_price \in Int /\ Quantity(p, t) \in Int
    BY DEF PortfolioState, Position, Quantity
  <2>2. \A x, y \in Int : x * y \in Int
    OBVIOUS
  <2> QED
    BY <2>1, <2>2
<1>2. \A t \in Symbols : f[t] \in Int /\ g[t] \in Int
  BY <1>1
<1>3. \A t \in Symbols \ {s} : g[t] = f[t]
  BY DEF Quantity
<1>4. CostBasis = Total(f, Symbols) /\ CostBasis' = Total(g, Symbols)
  BY DEF CostBasis
<1>5. /\ f[s] = folio.positions[s].avg_price * Quantity(folio, s)
      /\ g[s] = folio'.positions[s].avg_price * Quantity(folio', s)
  OBVIOUS
<1> HIDE DEF f, g
<1>6. Total(g, Symbols) = Total(f, Symbols) - f[s] + g[s]
  BY <1>2, <1>3, SymbolsAssumption, TotalChange
<1>7. Total(f, Symbols) \in Int
  BY <1>2, SymbolsAssumption, TotalInt
<1> QED
  BY <1>4, <1>5, <1>6, <1>7

LEMMA SubmittedLoses ==
  ASSUME IInv, NEW s \in Symbols, NEW close \in Prices, NEW weight \in Weights,
         OnBarSubmitted(s, close, weight)
  PROVE  LET order == Order(s, close, weight)
             q == Quantity(folio, s)
         IN  /\ order.side = "Buy" => Lost' - Lost \in 0..(q + order.quantity - 1)
             /\ order.side = "Sell" => Lost' - Lost = 0
<1> DEFINE order == Order(s, close, weight)
           n == order.quantity
           q == Quantity(folio, s)
           avg == folio.positions[s].avg_price
           spent == n * close
<1>1. /\ n \in Nat /\ n > 0 /\ close \in Nat
      /\ order.side = "Sell" => n <= q
  BY SubmittedMoves
<1>2. /\ folio \in PortfolioState /\ folio' \in PortfolioState
      /\ cash \in Int /\ StartingCash \in Int /\ folio.realized \in Int
      /\ avg \in Int /\ q \in Nat
  <2>1. folio \in PortfolioState /\ cash \in Nat
    BY DEF IInv, TypeOK, BooksOK
  <2>2. folio' \in PortfolioState
    BY SubmittedInv DEF IInv, TypeOK, BooksOK
  <2> QED
    BY <2>1, <2>2, ReplayAssumption DEF PortfolioState, Position, Quantity
<1>3. spent \in Int /\ avg * q \in Int
  BY <1>1, <1>2
<1>4. CASE order.side = "Buy"
  <2>1. cash' = cash - spent /\ folio' = ApplyBuy(folio, s, n, close)
    BY <1>4, SubmittedBooks
  <2> HIDE DEF order, n
  <2> DEFINE held == q + n
             after == folio'.positions[s].avg_price
  <2>2. LET g == ApplyBuy(folio, s, n, close) IN
          /\ g.realized = folio.realized
          /\ \A t \in Symbols : t # s => g.positions[t] = folio.positions[t]
          /\ Quantity(g, s) = held
          /\ g.positions[s].avg_price \in Int
          /\ (avg * q + spent) - g.positions[s].avg_price * held \in 0..(held - 1)
    BY <1>1, <1>2, BuyCosts
  <2>3. /\ folio'.realized = folio.realized
        /\ \A t \in Symbols : t # s => folio'.positions[t] = folio.positions[t]
        /\ Quantity(folio', s) = held
        /\ after \in Int
        /\ (avg * q + spent) - after * held \in 0..(held - 1)
    BY <2>1, <2>2
  <2>4. CostBasis \in Int /\ CostBasis' = CostBasis - avg * q + after * held
    BY <1>2, <2>3, CostBasisOfOne
  <2>5. held \in Nat /\ after * held \in Int
    BY <1>1, <1>2, <2>3
  <2>6. /\ Lost = StartingCash + folio.realized - cash - CostBasis
        /\ Lost' = StartingCash + folio.realized - (cash - spent)
                     - (CostBasis - avg * q + after * held)
    BY <2>1, <2>3, <2>4 DEF Lost
  <2> DEFINE x == avg * q
             y == after * held
             r == folio.realized
  <2>7. x \in Int /\ y \in Int /\ r \in Int /\ (x + spent) - y \in 0..(held - 1)
    BY <1>2, <1>3, <2>3, <2>5
  <2>8. /\ Lost = StartingCash + r - cash - CostBasis
        /\ Lost' = StartingCash + r - (cash - spent) - (CostBasis - x + y)
    BY <2>6
  <2> HIDE DEF x, y, r, spent, q
  <2>9. Lost' - Lost = (x + spent) - y
    BY <1>2, <1>3, <2>4, <2>7, <2>8
  <2>10. held - 1 = q + n - 1
    BY <1>1, <1>2
  <2> HIDE DEF held
  <2>11. Lost' - Lost \in 0..(q + n - 1)
    BY <2>7, <2>9, <2>10
  <2> QED
    BY <1>4, <2>11 DEF n, order, q
<1>5. CASE order.side = "Sell"
  <2>1. cash' = cash + spent /\ folio' = ApplySell(folio, s, n, close)
    BY <1>5, SubmittedBooks
  <2>2. n <= q
    BY <1>1, <1>5
  <2> HIDE DEF order, n
  <2>3. LET g == ApplySell(folio, s, n, close) IN
          /\ g.realized = folio.realized + (close - avg) * n
          /\ \A t \in Symbols : t # s => g.positions[t] = folio.positions[t]
          /\ g.positions[s].avg_price * Quantity(g, s) = avg * (q - n)
    BY <1>1, <1>2, <2>2, SellCosts
  <2>4. /\ folio'.realized = folio.realized + (close - avg) * n
        /\ \A t \in Symbols : t # s => folio'.positions[t] = folio.positions[t]
        /\ folio'.positions[s].avg_price * Quantity(folio', s) = avg * (q - n)
    BY <2>1, <2>3
  <2>5. CostBasis \in Int /\ CostBasis' = CostBasis - avg * q + avg * (q - n)
    BY <1>2, <2>4, CostBasisOfOne
  <2> DEFINE x == avg * q
             z == avg * n
             r == folio.realized
  <2>6. /\ (close - avg) * n = spent - z /\ avg * (q - n) = x - z /\ z \in Int /\ x \in Int
    <3>1. \A a, b, c, d \in Int : /\ (a - b) * c = c * a - b * c
                                  /\ b * (d - c) = b * d - b * c /\ b * c \in Int
      OBVIOUS
    <3> QED
      BY <1>1, <1>2, <1>3, <3>1
  <2>7. /\ Lost = StartingCash + r - cash - CostBasis
        /\ Lost' = StartingCash + (r + (spent - z)) - (cash + spent) - (CostBasis - x + (x - z))
    BY <2>1, <2>4, <2>5, <2>6 DEF Lost
  <2>8. r \in Int
    BY <1>2
  <2> HIDE DEF x, z, r, spent, q
  <2>9. Lost' - Lost = 0
    BY <1>2, <1>3, <2>5, <2>6, <2>7, <2>8
  <2> QED
    BY <1>5, <2>9 DEF order
<1> QED
  BY <1>4, <1>5

(* Steps that trade nothing leave the portfolio alone. *)
LEMMA OnlyFillsMove ==
  ASSUME IInv, [Next]_vars,
         NEW t \in Symbols, Quantity(folio', t) # Quantity(folio, t)
  PROVE  \E close \in Prices, weight \in Weights : OnBarSubmitted(t, close, weight)
<1>1. folio' # folio
  OBVIOUS
<1>2. \E s \in Symbols, close \in Prices, weight \in Weights : OnBarSubmitted(s, close, weight)
  BY <1>1 DEF Next, vars, Finish, OnBarHalted, OnBarIdle, OnBarRejected
<1>3. PICK s \in Symbols, close \in Prices, weight \in Weights :
         OnBarSubmitted(s, close, weight)
  BY <1>2
<1>4. s = t
  BY <1>3, SubmittedMoves
<1> QED
  BY <1>3, <1>4

(* A purchase misplaces less than a tick for each share then held, and a   *)
(* sale nothing: average cost does not compound its rounding.              *)
THEOREM RoundingAlwaysSmall == Spec => RoundingStaysSmall
<1> DEFINE Change == \A s \in Symbols :
             Quantity(folio, s)' # Quantity(folio, s) =>
               Lost' - Lost \in 0..(IF Quantity(folio, s)' > Quantity(folio, s)
                                    THEN Quantity(folio, s)' - 1 ELSE 0)
<1>1. IInv /\ [Next]_vars => Change
  <2> SUFFICES ASSUME IInv, [Next]_vars,
                      NEW s \in Symbols, Quantity(folio', s) # Quantity(folio, s)
               PROVE  Lost' - Lost \in 0..(IF Quantity(folio', s) > Quantity(folio, s)
                                           THEN Quantity(folio', s) - 1 ELSE 0)
    OBVIOUS
  <2>1. PICK close \in Prices, weight \in Weights : OnBarSubmitted(s, close, weight)
    BY OnlyFillsMove
  <2> DEFINE order == Order(s, close, weight)
             n == order.quantity
             q == Quantity(folio, s)
  <2>2. /\ n \in Nat /\ n > 0 /\ order.side \in {"Buy", "Sell"}
        /\ Quantity(folio', s) = IF order.side = "Buy" THEN q + n ELSE q + (-n)
    BY <2>1, SubmittedMoves
  <2>3. q \in Nat
    BY DEF IInv, TypeOK, BooksOK, BooksAgree
  <2>4. /\ order.side = "Buy" => Lost' - Lost \in 0..(q + n - 1)
        /\ order.side = "Sell" => Lost' - Lost = 0
    BY <2>1, SubmittedLoses
  <2> HIDE DEF order, n, q
  <2>5. CASE order.side = "Buy"
    <3>1. Quantity(folio', s) = q + n /\ q + n > q /\ (q + n) - 1 = q + n - 1
      BY <2>2, <2>3, <2>5
    <3> QED
      BY <2>4, <2>5, <3>1 DEF q
  <2>6. CASE order.side = "Sell"
    <3>1. Quantity(folio', s) = q + (-n) /\ ~(q + (-n) > q)
      BY <2>2, <2>3, <2>6
    <3> QED
      BY <2>4, <2>6, <3>1 DEF q
  <2> QED
    BY <2>2, <2>5, <2>6
<1>2. IInv /\ [Next]_vars => [Change]_vars
  BY <1>1
<1> QED
  BY <1>2, Invariance, PTL DEF Spec, RoundingStaysSmall

(* After a fill that reached the target, the same bar with the same target *)
(* sends nothing more: what was bought or sold left the equity the target  *)
(* was sized by as it was.                                                 *)
THEOREM FillsSettle == Spec => FillSettles
<1> DEFINE Settled == \A s \in Symbols : \A weight \in Weights :
             (/\ Quantity(folio, s)' # Quantity(folio, s)
              /\ Quantity(folio, s)' = Desired(s, marks'[s], weight))
             => ~Refills(s, weight)'
<1>1. IInv /\ [Next]_vars => Settled
  <2> SUFFICES ASSUME IInv, [Next]_vars, NEW s \in Symbols, NEW wanted \in Weights,
                      Quantity(folio', s) # Quantity(folio, s),
                      Quantity(folio', s) = Desired(s, marks'[s], wanted)
               PROVE  ~Refills(s, wanted)'
    OBVIOUS
  <2>1. PICK close \in Prices, weight \in Weights : OnBarSubmitted(s, close, weight)
    BY OnlyFillsMove
  <2> DEFINE order == Order(s, close, weight)
             n == order.quantity
             step == IF order.side = "Buy" THEN n ELSE -n
  <2>2. /\ n \in Nat /\ close \in Nat
        /\ cash' = cash - step * close
        /\ Quantity(folio', s) = Quantity(folio, s) + step
    BY <2>1, SubmittedMoves
  <2>3. marks'[s] = close
    BY <2>1 DEF IInv, TypeOK, OnBarSubmitted, NextBar
  <2>4. holdings[s] = Quantity(folio, s) /\ holdings'[s] = Quantity(folio', s)
        /\ cash \in Int /\ Quantity(folio, s) \in Int
    BY <2>1, SubmittedInv DEF IInv, TypeOK, BooksOK, BooksAgree
  <2>5. step \in Int
    BY <2>2
  <2> HIDE DEF step
  <2>6. cash' + close * holdings'[s] = cash + close * holdings[s]
    <3>1. \A c, p, d, h \in Int : (c - d * p) + p * (h + d) = c + p * h
      OBVIOUS
    <3> QED
      BY <2>2, <2>4, <2>5, <3>1
  <2>7. Shares(wanted, close, cash' + close * holdings'[s]) =
        Shares(wanted, close, cash + close * holdings[s])
    BY <2>6
  <2>8. Desired(s, close, wanted) = Shares(wanted, close, cash + close * holdings[s])
    BY DEF Desired, AccountEquity, Notional
  <2>9. Refills(s, wanted)' <=>
          WantsTrade(Quantity(folio', s), Shares(wanted, marks'[s], cash' + marks'[s] * holdings'[s]))
    BY DEF Refills, Desired, AccountEquity, Notional
  <2> QED
    BY <2>3, <2>7, <2>8, <2>9 DEF WantsTrade
<1>2. IInv /\ [Next]_vars => [Settled]_vars
  BY <1>1
<1> QED
  BY <1>2, Invariance, PTL DEF Spec, FillSettles
=============================================================================
