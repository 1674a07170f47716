------------------------- MODULE LiveTradingProofs --------------------------
(***************************************************************************)
(* Trading at a broker, for any set of symbols, any prices and weights,    *)
(* any sizing and limits, and any number of orders and polls.              *)
(***************************************************************************)
EXTENDS LiveTrading, CommonTheorems

-----------------------------------------------------------------------------
(* The inductive invariant *)

\* The order in hand is one that on_bar made, and a sale is of shares the
\* engine thinks are there.
InHand == pc \in {"submitting", "awaiting"}

OrderInHand ==
    InHand => /\ order \in Order
              /\ order.side = "Sell" => order.quantity <= held[order.symbol]

\* await_fill asks after the order in hand: it is the broker's newest, what has
\* been executed of it and what has not are together what was asked for, and
\* when it is filled nothing is left.
AwaitedIsInHand ==
    pc = "awaiting" =>
        /\ Len(orders) > 0
        /\ orders[Awaited].symbol = order.symbol
        /\ orders[Awaited].side = order.side
        /\ orders[Awaited].left + orders[Awaited].unbooked = order.quantity
        /\ orders[Awaited].status = "filled" => orders[Awaited].left = 0

\* A halted risk layer has let no order through.
NoOrderInHalt == InHand => ~risk.halted

TradingInv ==
    /\ TypeOK
    /\ OrderInHand
    /\ AwaitedIsInHand
    /\ NoOrderInHalt
    /\ BeliefExplained

\* In a scheduled run: the symbol in hand and the ones still to come, but for
\* those that were working when the run began, have no order working.
Free(s) == OpenOrders(s) = {}

ToComeIsFree ==
    /\ pc \in {"idle", "submitting", "awaiting"} => \A s \in todo \ working : Free(s)
    /\ InHand => order.symbol \notin todo
    /\ pc = "submitting" => Free(order.symbol)

OneOpen == \A s \in Symbols : \A i, j \in OpenOrders(s) : i = j

OnceInv == mode = "once" /\ pc # "between sessions" /\ ToComeIsFree /\ OneOpen

-----------------------------------------------------------------------------
(* The sizer: a target asks for a whole number of shares, and for none at  *)
(* a price of zero.                                                        *)
LEMMA SharesNat ==
  ASSUME NEW weight \in Int, NEW price \in Nat, NEW equity \in Int
  PROVE  /\ Shares(weight, price, equity) \in Nat
         /\ Shares(weight, price, equity) > 0 => price > 0
<1>1. CASE ~Priceable(price, equity)
  BY <1>1 DEF Shares
<1>2. CASE Priceable(price, equity)
  <2>1. Clamp(weight) \in Nat
    BY SizerAssumption DEF Clamp
  <2>2. Clamp(weight) * FractionNum \in Nat
    BY <2>1, ProductNat, SizerAssumption
  <2>3. Clamp(weight) * FractionNum * equity \in Nat
    BY <1>2, <2>2, ProductNat DEF Priceable
  <2>4. WeightScale * FractionDen \in Nat /\ WeightScale * FractionDen > 0
    BY ProductNat, ProductPositive, SizerAssumption
  <2>5. /\ WeightScale * FractionDen * price \in Nat
        /\ WeightScale * FractionDen * price > 0
    BY <1>2, <2>4, ProductNat, ProductPositive DEF Priceable
  <2>6. (Clamp(weight) * FractionNum * equity)
          \div (WeightScale * FractionDen * price) \in Nat
    BY <2>3, <2>5, QuotientNat
  <2> QED
    BY <1>2, <2>6 DEF Shares, Priceable
<1> QED
  BY <1>1, <1>2

-----------------------------------------------------------------------------
(* The broker's book of orders *)

LEMMA Book ==
  ASSUME TypeOK
  PROVE  /\ orders \in Seq(Sent) /\ Len(orders) \in Nat
         /\ DOMAIN orders = 1..Len(orders)
         /\ IsFiniteSet(DOMAIN orders)
         /\ \A i \in DOMAIN orders : orders[i] \in Sent
<1>1. orders \in Seq(Sent)
  BY DEF TypeOK, BrokerTypeOK
<1>2. Len(orders) \in Nat /\ DOMAIN orders = 1..Len(orders)
  BY <1>1, LenProperties
<1>3. IsFiniteSet(1..Len(orders))
  BY <1>2, FS_Interval
<1>4. \A i \in DOMAIN orders : orders[i] \in Sent
  BY <1>1, <1>2, ElementOfSeq
<1> QED
  BY <1>1, <1>2, <1>3, <1>4

\* What a step does to the book as a whole.
SameBut(i, row) ==
    /\ orders' \in Seq(Sent) /\ Len(orders') = Len(orders)
    /\ DOMAIN orders' = DOMAIN orders
    /\ orders'[i] = row
    /\ \A j \in DOMAIN orders : j # i => orders'[j] = orders[j]

LEMMA RowChanges ==
  ASSUME TypeOK, NEW i \in DOMAIN orders, NEW row \in Sent,
         orders' = [orders EXCEPT ![i] = row]
  PROVE  SameBut(i, row)
<1>1. orders \in Seq(Sent) /\ i \in 1..Len(orders)
  BY Book
<1>2. /\ orders' \in Seq(Sent) /\ Len(orders') = Len(orders)
      /\ \A j \in 1..Len(orders) : orders'[j] = IF j = i THEN row ELSE orders[j]
  BY <1>1, ExceptSeq
<1>3. DOMAIN orders' = DOMAIN orders
  OBVIOUS
<1> QED
  BY <1>1, <1>2, <1>3, Book DEF SameBut

LEMMA FillsBook ==
  ASSUME TypeOK, NEW i \in DOMAIN orders, NEW quantity \in 1..orders[i].left,
         BrokerFills(i, quantity)
  PROVE  SameBut(i, Executed(orders[i], quantity))
<1>1. orders[i] \in Sent
  BY Book
<1>2. quantity \in Nat /\ orders[i].left - quantity \in Nat /\ orders[i].unbooked + quantity \in Nat
  BY <1>1 DEF Sent
<1>3. Executed(orders[i], quantity) \in Sent
  BY <1>1, <1>2 DEF Executed, Sent, Statuses
<1>4. orders' = [orders EXCEPT ![i] = Executed(orders[i], quantity)]
  BY DEF BrokerFills
<1> QED
  BY <1>3, <1>4, RowChanges

AfterKill(o) ==
    [symbol |-> o.symbol, side |-> o.side, left |-> o.left,
     unbooked |-> o.unbooked, status |-> "dead"]

LEMMA KillsBook ==
  ASSUME TypeOK, NEW i \in DOMAIN orders, BrokerKills(i)
  PROVE  SameBut(i, AfterKill(orders[i]))
<1>1. orders[i] \in Sent
  BY Book
<1>2. Killed(orders[i]) = AfterKill(orders[i]) /\ AfterKill(orders[i]) \in Sent
  BY <1>1 DEF Killed, AfterKill, Sent, Statuses
<1>3. orders' = [orders EXCEPT ![i] = AfterKill(orders[i])]
  BY <1>2 DEF BrokerKills
<1> QED
  BY <1>2, <1>3, RowChanges

AfterBooking(o) ==
    [symbol |-> o.symbol, side |-> o.side, left |-> o.left, unbooked |-> 0, status |-> o.status]

LEMMA BookingRow ==
  ASSUME NEW o \in Sent
  PROVE  Booking(o) = AfterBooking(o) /\ AfterBooking(o) \in Sent
  BY DEF Booking, AfterBooking, Sent

\* The process books what the awaited order did.
LEMMA BooksBook ==
  ASSUME TypeOK, NEW i \in DOMAIN orders, orders' = [orders EXCEPT ![i] = Booking(@)]
  PROVE  SameBut(i, AfterBooking(orders[i]))
<1>1. /\ Booking(orders[i]) = AfterBooking(orders[i])
      /\ AfterBooking(orders[i]) \in Sent
  BY Book, BookingRow
<1>2. orders' = [orders EXCEPT ![i] = AfterBooking(orders[i])]
  BY <1>1
<1> QED
  BY <1>1, <1>2, RowChanges

\* A new process has read the positions, and so booked everything.
LEMMA ReconcileBook ==
  ASSUME TypeOK, orders' = [i \in DOMAIN orders |-> Booking(orders[i])]
  PROVE  /\ orders' \in Seq(Sent) /\ Len(orders') = Len(orders)
         /\ DOMAIN orders' = DOMAIN orders
         /\ \A i \in DOMAIN orders : orders'[i] = AfterBooking(orders[i])
<1>1. /\ Len(orders) \in Nat /\ DOMAIN orders = 1..Len(orders)
      /\ \A i \in DOMAIN orders : orders[i] \in Sent
  BY Book
<1>2. \A i \in DOMAIN orders : orders'[i] = AfterBooking(orders[i]) /\ orders'[i] \in Sent
  BY <1>1, BookingRow
<1>3. orders' \in [1..Len(orders) -> Sent]
  BY <1>1, <1>2
<1>4. orders' \in Seq(Sent)
  BY <1>1, <1>3, SeqDef
<1>5. DOMAIN orders' = 1..Len(orders') /\ Len(orders') \in Nat
  BY <1>4, LenProperties
<1>6. Len(orders') = Len(orders)
  BY <1>1, <1>3, <1>5
<1> QED
  BY <1>1, <1>2, <1>4, <1>6

\* The broker has taken the order in hand.
LEMMA AcceptsBook ==
  ASSUME TypeOK, order \in Order, BrokerAccepts
  PROVE  /\ Accepted \in Sent
         /\ orders' \in Seq(Sent) /\ Len(orders') = Len(orders) + 1
         /\ DOMAIN orders' = DOMAIN orders \cup {Len(orders) + 1}
         /\ \A i \in DOMAIN orders : orders'[i] = orders[i]
         /\ orders'[Len(orders) + 1] = Accepted
<1>1. Accepted \in Sent
  BY DEF Accepted, Order, Sent, Statuses
<1>2. orders \in Seq(Sent) /\ Len(orders) \in Nat /\ DOMAIN orders = 1..Len(orders)
  BY Book
<1>3. /\ orders' \in Seq(Sent) /\ Len(orders') = Len(orders) + 1
      /\ \A i \in 1..Len(orders) : orders'[i] = orders[i]
      /\ orders'[Len(orders) + 1] = Accepted
  BY <1>1, <1>2, AppendProperties DEF BrokerAccepts
<1>4. DOMAIN orders' = 1..(Len(orders) + 1)
  BY <1>3, LenProperties
<1> QED
  BY <1>1, <1>2, <1>3, <1>4

-----------------------------------------------------------------------------
(* What one decision and one booking do *)

LEMMA PriceNat ==
  \A price \in Prices : price \in Nat
  BY TradingAssumption

LEMMA EquityInt ==
  ASSUME TypeOK
  PROVE  AccountEquity \in Int
<1> DEFINE worth == [s \in Symbols |-> Notional(quote[s], shares[s])]
<1>1. /\ cash \in Nat /\ shares \in [Symbols -> Nat] /\ quote \in [Symbols -> Prices]
  BY DEF TypeOK, BrokerTypeOK
<1>2. \A s \in Symbols : worth[s] \in Int
  BY <1>1, PriceNat, ProductNat DEF Notional
<1>3. Total(worth, Symbols) \in Int
  <2> HIDE DEF worth
  <2> QED
    BY <1>2, SymbolsAssumption, TotalInt
<1> QED
  BY <1>1, <1>3 DEF AccountEquity

\* An equity that is observed keeps a halt.
RiskStates == [halted : BOOLEAN, seen_equity : BOOLEAN, peak_equity : Int]

LEMMA ObserveKeepsHalt ==
  ASSUME NEW r \in RiskStates, NEW equity \in Int
  PROVE  /\ ObserveEquity(r, equity) \in RiskStates
         /\ r.halted => ObserveEquity(r, equity).halted
<1>1. CASE IsNewPeak(r, equity)
  BY <1>1 DEF ObserveEquity, RiskState, RiskStates
<1>2. CASE ~IsNewPeak(r, equity)
  <2>1. ObserveEquity(r, equity) = Halt(r) \/ ObserveEquity(r, equity) = r
    BY <1>2 DEF ObserveEquity
  <2>2. Halt(r) \in RiskStates /\ Halt(r).halted
    BY DEF Halt, RiskState, RiskStates
  <2> QED
    BY <2>1, <2>2
<1> QED
  BY <1>1, <1>2

\* An order is for what the target lacks or has too much of, and never sells
\* more than is held.
LEMMA DecidedOrder ==
  ASSUME NEW s \in Symbols, NEW current \in Nat, NEW desired \in Nat
  PROVE  /\ OrderFor(s, current, desired) \in Order
         /\ OrderFor(s, current, desired).symbol = s
         /\ OrderFor(s, current, desired).side = "Sell"
              => OrderFor(s, current, desired).quantity <= current
<1>1. Distance(desired, current) \in Nat
  BY DEF Distance
<1>2. ~(desired > current) => Distance(desired, current) <= current
  BY DEF Distance
<1> QED
  BY <1>1, <1>2 DEF OrderFor, Order

LEMMA Decides ==
  ASSUME TypeOK, NEW s \in Symbols, NEW close \in Prices, NEW weight \in Weights
  PROVE  /\ Shares(weight, close, AccountEquity) \in Nat
         /\ Observe(s, close) \in RiskStates
         /\ risk.halted => Observe(s, close).halted
         /\ Larger(top, AccountEquity) \in Int
<1>1. cash \in Nat /\ held[s] \in Nat /\ risk \in RiskStates /\ top \in Int
  BY DEF TypeOK, BrokerTypeOK, EngineTypeOK, RiskStates
<1>2. AccountEquity \in Int /\ close \in Nat /\ weight \in Int
  BY EquityInt, PriceNat, TradingAssumption
<1>3. Shares(weight, close, AccountEquity) \in Nat
  BY <1>2, SharesNat
<1>4. cash + Notional(close, held[s]) \in Int
  BY <1>1, <1>2, ProductNat DEF Notional
<1> QED
  BY <1>1, <1>2, <1>3, <1>4, ObserveKeepsHalt DEF Observe, Larger

\* What an engine holds when its order has filled.
Moved(o) == IF o.side = "Buy" THEN held[o.symbol] + o.quantity ELSE held[o.symbol] - o.quantity

LEMMA HeldMoves ==
  ASSUME TypeOK, NEW price \in Nat, order \in Order,
         order.side = "Sell" => order.quantity <= held[order.symbol]
  PROVE  /\ Moved(order) \in Nat
         /\ HeldAfter(FillOf(order, price)) = [held EXCEPT ![order.symbol] = Moved(order)]
<1> DEFINE s == order.symbol
           n == order.quantity
           f == PortfolioOf(s)
           after == Quantity(Apply(f, FillOf(order, price)), s)
<1>1. held \in [Symbols -> Nat] /\ s \in Symbols /\ n \in Nat /\ order.side \in {"Buy", "Sell"}
  BY DEF TypeOK, EngineTypeOK, Order
<1>2. f \in PortfolioState /\ Quantity(f, s) = held[s]
  BY <1>1 DEF PortfolioOf, PortfolioState, Position, NoPosition, Quantity
<1>3. HeldAfter(FillOf(order, price)) = [held EXCEPT ![order.symbol] = after]
  BY DEF HeldAfter, FillOf
<1>4. after = Moved(order) /\ Moved(order) \in Nat
  <2> HIDE DEF s, n, f
  <2>1. CASE order.side = "Buy"
    <3>1. Quantity(ApplyBuy(f, s, n, price), s) = held[s] + n
      BY <1>1, <1>2, BuyMoves
    <3>2. after = Quantity(ApplyBuy(f, s, n, price), s)
      BY <2>1 DEF Apply, FillOf, s, n
    <3>3. Moved(order) = held[s] + n
      BY <2>1 DEF Moved, s, n
    <3> QED
      BY <1>1, <3>1, <3>2, <3>3
  <2>2. CASE order.side = "Sell"
    <3>1. n <= Quantity(f, s)
      BY <1>2, <2>2 DEF s, n
    <3>2. Quantity(ApplySell(f, s, n, price), s) = held[s] - n
      BY <1>1, <1>2, <3>1, SellMoves
    <3>3. after = Quantity(ApplySell(f, s, n, price), s)
      BY <2>2 DEF Apply, FillOf, s, n
    <3>4. Moved(order) = held[s] - n
      BY <2>2 DEF Moved, s, n
    <3> QED
      BY <1>1, <1>2, <3>1, <3>2, <3>3, <3>4
  <2> QED
    BY <1>1, <2>1, <2>2
<1> HIDE DEF after
<1> QED
  BY <1>3, <1>4

-----------------------------------------------------------------------------
(* What is executed and not booked *)

Rows(s, side) == {i \in DOMAIN orders : orders[i].symbol = s /\ orders[i].side = side}

Column == [i \in DOMAIN orders |-> orders[i].unbooked]

LEMMA UnbookedColumn ==
  ASSUME TypeOK, NEW s, NEW side
  PROVE  /\ Unbooked(s, side) = Total(Column, Rows(s, side))
         /\ IsFiniteSet(Rows(s, side))
         /\ \A i \in Rows(s, side) : Column[i] \in Int
         /\ Unbooked(s, side) \in Int
<1>1. Unbooked(s, side) = Total(Column, Rows(s, side))
  BY DEF Unbooked, Column, Rows
<1>2. IsFiniteSet(Rows(s, side))
  <2>1. Rows(s, side) \subseteq DOMAIN orders
    BY DEF Rows
  <2> QED
    BY <2>1, Book, FS_Subset
<1>3. \A i \in DOMAIN orders : Column[i] \in Int
  BY Book DEF Column, Sent
<1>4. \A i \in Rows(s, side) : Column[i] \in Int
  BY <1>3 DEF Rows
<1> QED
  BY <1>1, <1>2, <1>4, TotalInt

LEMMA UnbookedAfter ==
  ASSUME NEW s, NEW side
  PROVE  Unbooked(s, side)' = Total(Column', Rows(s, side)')
  BY DEF Unbooked, Column, Rows

\* The same rows with the same numbers: nothing has changed.
LEMMA UnbookedSame ==
  ASSUME TypeOK, DOMAIN orders' = DOMAIN orders,
         \A i \in DOMAIN orders : /\ orders'[i].symbol = orders[i].symbol
                                  /\ orders'[i].side = orders[i].side
                                  /\ orders'[i].unbooked = orders[i].unbooked,
         NEW s, NEW side
  PROVE  Unbooked(s, side)' = Unbooked(s, side)
<1>1. Rows(s, side)' = Rows(s, side)
  BY DEF Rows
<1>2. \A i \in Rows(s, side) : Column[i] = (Column')[i]
  BY DEF Rows, Column
<1>3. Total(Column, Rows(s, side)) = Total(Column', Rows(s, side))
  BY <1>2, UnbookedColumn, TotalSame
<1> QED
  BY <1>1, <1>3, UnbookedColumn, UnbookedAfter

\* One order's number changes.
LEMMA UnbookedMoves ==
  ASSUME TypeOK, NEW i \in DOMAIN orders, NEW row \in Sent, SameBut(i, row),
         row.symbol = orders[i].symbol, row.side = orders[i].side,
         NEW s, NEW side
  PROVE  Unbooked(s, side)' =
           IF s = orders[i].symbol /\ side = orders[i].side
           THEN Unbooked(s, side) - orders[i].unbooked + row.unbooked
           ELSE Unbooked(s, side)
<1> DEFINE rows == Rows(s, side)
<1>0. /\ DOMAIN orders' = DOMAIN orders /\ orders'[i] = row
      /\ \A j \in DOMAIN orders : j # i => orders'[j] = orders[j]
  BY DEF SameBut
<1>1. Rows(s, side)' = rows
  BY <1>0 DEF Rows
<1>2. /\ IsFiniteSet(rows)
      /\ \A j \in rows : Column[j] \in Int
      /\ Unbooked(s, side) = Total(Column, rows)
  BY UnbookedColumn
<1>3. Unbooked(s, side)' = Total(Column', rows)
  BY <1>1, UnbookedAfter
<1>4. /\ \A j \in rows \ {i} : (Column')[j] = Column[j]
      /\ Column[i] = orders[i].unbooked
      /\ (Column')[i] = row.unbooked
  BY <1>0 DEF Rows, Column
<1>5. row.unbooked \in Int
  BY DEF Sent
<1>6. i \in rows <=> s = orders[i].symbol /\ side = orders[i].side
  BY DEF Rows
<1> HIDE DEF rows
<1>7. CASE i \in rows
  <2>1. \A j \in rows : Column[j] \in Int /\ (Column')[j] \in Int
    BY <1>2, <1>4, <1>5
  <2>2. Total(Column', rows) = Total(Column, rows) - Column[i] + (Column')[i]
    BY <1>2, <1>4, <1>7, <2>1, TotalChange
  <2> QED
    BY <1>2, <1>3, <1>4, <1>6, <1>7, <2>2
<1>8. CASE i \notin rows
  <2>1. \A j \in rows : Column[j] = (Column')[j]
    BY <1>4, <1>8
  <2>2. Total(Column, rows) = Total(Column', rows)
    BY <1>2, <2>1, TotalSame
  <2> QED
    BY <1>2, <1>3, <1>6, <1>8, <2>2
<1> QED
  BY <1>7, <1>8

\* Nothing is left unbooked.
LEMMA UnbookedNone ==
  ASSUME TypeOK, DOMAIN orders' = DOMAIN orders,
         \A i \in DOMAIN orders : orders'[i] = AfterBooking(orders[i]),
         NEW s, NEW side
  PROVE  Unbooked(s, side)' = 0
<1>1. Rows(s, side)' = Rows(s, side)
  BY DEF Rows, AfterBooking
<1>2. \A i \in Rows(s, side) : (Column')[i] = 0
  BY DEF Rows, Column, AfterBooking
<1>3. Total(Column', Rows(s, side)) = 0
  BY <1>2, UnbookedColumn, TotalZero
<1> QED
  BY <1>1, <1>3, UnbookedAfter

\* An order that has just been accepted adds nothing.
LEMMA UnbookedAccepted ==
  ASSUME TypeOK, order \in Order, BrokerAccepts, NEW s, NEW side
  PROVE  Unbooked(s, side)' = Unbooked(s, side)
<1> DEFINE n == Len(orders) + 1
           rows == Rows(s, side)
<1>1. /\ DOMAIN orders' = DOMAIN orders \cup {n}
      /\ \A i \in DOMAIN orders : orders'[i] = orders[i]
      /\ orders'[n] = Accepted
      /\ n \notin DOMAIN orders
  BY AcceptsBook, Book
<1>2. /\ IsFiniteSet(rows)
      /\ \A j \in rows : Column[j] \in Int
      /\ Unbooked(s, side) = Total(Column, rows)
  BY UnbookedColumn
<1> HIDE DEF n
<1>3. /\ \A j \in rows : Column[j] = (Column')[j]
      /\ (Column')[n] = 0
      /\ n \notin rows
  BY <1>1 DEF Rows, Column, Accepted
<1>4. Rows(s, side)' = rows \/ Rows(s, side)' = rows \cup {n}
  <2>1. CASE Accepted.symbol = s /\ Accepted.side = side
    BY <1>1, <2>1 DEF Rows
  <2>2. CASE ~(Accepted.symbol = s /\ Accepted.side = side)
    BY <1>1, <2>2 DEF Rows
  <2> QED
    BY <2>1, <2>2
<1> HIDE DEF rows
<1>5. Total(Column, rows) = Total(Column', rows)
  BY <1>2, <1>3, TotalSame
<1>6. Total(Column', rows \cup {n}) = Total(Column', rows)
  <2>1. Total(Column', rows \cup {n}) = (Column')[n] + Total(Column', rows)
    BY <1>2, <1>3, TotalAdd
  <2>2. Total(Column', rows) \in Int
    BY <1>2, <1>3, TotalInt
  <2> QED
    BY <1>3, <2>1, <2>2
<1> QED
  BY <1>2, <1>4, <1>5, <1>6, UnbookedAfter

-----------------------------------------------------------------------------
(* Every step preserves the types *)

LEMMA NoPolls == 0 \in 0..MaxPolls - 1
<1>1. MaxPolls \in Nat \ {0}
  BY TradingAssumption
<1> QED
  BY <1>1

\* What a process is when it has ended, and after an Error.
LEMMA EndType ==
  ASSUME TypeOK, NEW why \in {"finished", "stopped", "halted", "error", "rejection", "crashed"},
         End(why)
  PROVE  EngineTypeOK' /\ LoopTypeOK'
<1>1. mode \in Modes
  BY DEF TypeOK, LoopTypeOK
<1>2. polls' \in 0..MaxPolls - 1
  BY NoPolls DEF End
<1>3. EngineTypeOK'
  BY DEF End, EngineTypeOK, Flat, FreshRisk, RiskState
<1>4. LoopTypeOK'
  BY <1>1, <1>2 DEF End, LoopTypeOK
<1> QED
  BY <1>3, <1>4

LEMMA ThrowType ==
  ASSUME TypeOK, NEW why \in {"error", "rejection"}, Throw(why)
  PROVE  EngineTypeOK' /\ LoopTypeOK'
<1>2. CASE mode = "once"
  <2>1. polls' \in 0..MaxPolls - 1
    BY <1>2, NoPolls DEF Throw
  <2> QED
    BY <1>2, <2>1 DEF Throw, TypeOK, EngineTypeOK, LoopTypeOK
<1>3. CASE mode # "once"
  <2>1. End(why)
    BY <1>3 DEF Throw
  <2> QED
    BY <2>1, EndType
<1> QED
  BY <1>2, <1>3

LEMMA SameBroker ==
  ASSUME TypeOK, UNCHANGED broker
  PROVE  BrokerTypeOK'
  BY DEF TypeOK, BrokerTypeOK, broker

LEMMA SameProcess ==
  ASSUME TypeOK, UNCHANGED process
  PROVE  EngineTypeOK' /\ LoopTypeOK'
  BY DEF TypeOK, EngineTypeOK, LoopTypeOK, process

LEMMA BrokerAcceptsType ==
  ASSUME TypeOK, order \in Order, BrokerAccepts
  PROVE  BrokerTypeOK'
<1>1. orders' \in Seq(Sent)
  BY AcceptsBook
<1> QED
  BY <1>1 DEF TypeOK, BrokerTypeOK, BrokerAccepts

LEMMA DecideType ==
  ASSUME TypeOK, NEW s \in Symbols, NEW close \in Prices, NEW weight \in Weights,
         Decide(s, close, weight)
  PROVE  EngineTypeOK' /\ LoopTypeOK'
<1> DEFINE desired == Shares(weight, close, AccountEquity)
           next == OrderFor(s, held[s], desired)
<1>1. /\ held \in [Symbols -> Nat] /\ order \in Order \cup {NoOrder}
      /\ LoopTypeOK
  BY DEF TypeOK, EngineTypeOK
<1>2. /\ desired \in Nat
      /\ Observe(s, close) \in RiskStates
      /\ Larger(top, AccountEquity) \in Int
  BY Decides
<1>3. next \in Order
  <2> HIDE DEF desired
  <2> QED
    BY <1>1, <1>2, DecidedOrder
<1>4. /\ risk' = Observe(s, close) /\ top' = Larger(top, AccountEquity)
      /\ todo' = todo \ {s}
      /\ (order' = next /\ pc' = "submitting") \/ UNCHANGED <<order, pc>>
      /\ UNCHANGED <<mode, dry, held, working, polls, ended>>
  BY DEF Decide, Done
<1> HIDE DEF desired, next
<1>5. EngineTypeOK'
  BY <1>1, <1>2, <1>3, <1>4 DEF EngineTypeOK, RiskStates
<1>6. LoopTypeOK'
  BY <1>1, <1>4 DEF LoopTypeOK
<1> QED
  BY <1>5, <1>6

LEMMA PollFilledType ==
  ASSUME TypeOK, OrderInHand, AwaitedIsInHand, PollFilled
  PROVE  TypeOK'
<1>1. /\ order \in Order
      /\ order.side = "Sell" => order.quantity <= held[order.symbol]
      /\ Len(orders) > 0
  BY DEF OrderInHand, AwaitedIsInHand, PollFilled, InHand
<1>2. quote[order.symbol] \in Nat
  BY <1>1, PriceNat DEF TypeOK, BrokerTypeOK, Order
<1>3. held' = [held EXCEPT ![order.symbol] = Moved(order)] /\ Moved(order) \in Nat
  BY <1>1, <1>2, HeldMoves DEF PollFilled
<1>4. Awaited \in DOMAIN orders
  BY <1>1, Book DEF Awaited
<1>5. orders' \in Seq(Sent)
  BY <1>4, BooksBook DEF PollFilled, SameBut
<1>6. BrokerTypeOK'
  BY <1>5 DEF PollFilled, TypeOK, BrokerTypeOK
<1>7. EngineTypeOK'
  BY <1>3 DEF PollFilled, OnBarReturns, TypeOK, EngineTypeOK
<1>8. polls' \in 0..MaxPolls - 1
  BY NoPolls DEF PollFilled, OnBarReturns
<1>9. LoopTypeOK'
  BY <1>8 DEF PollFilled, OnBarReturns, TypeOK, LoopTypeOK
<1> QED
  BY <1>6, <1>7, <1>9 DEF TypeOK

LEMMA FillType ==
  ASSUME TypeOK, NEW i \in DOMAIN orders, NEW quantity \in 1..orders[i].left,
         BrokerFills(i, quantity)
  PROVE  BrokerTypeOK'
<1>1. orders' \in Seq(Sent)
  BY FillsBook DEF SameBut
<1>2. orders[i].symbol \in Symbols /\ quantity \in Nat
  BY Book DEF Sent
<1>3. /\ cash \in Nat /\ shares \in [Symbols -> Nat] /\ quote \in [Symbols -> Prices]
  BY DEF TypeOK, BrokerTypeOK
<1> DEFINE s == orders[i].symbol
           value == Notional(quote[s], quantity)
<1>4. value \in Nat
  BY <1>2, <1>3, PriceNat, ProductNat DEF Notional
<1>5. /\ \/ value <= cash /\ cash' = cash - value /\ shares' = [shares EXCEPT ![s] = @ + quantity]
         \/ /\ quantity <= shares[s]
            /\ cash' = cash + value /\ shares' = [shares EXCEPT ![s] = @ - quantity]
      /\ quote' = quote
  BY DEF BrokerFills
<1> HIDE DEF s, value
<1>6. s \in Symbols
  BY <1>2 DEF s
<1>7. cash' \in Nat
  BY <1>3, <1>4, <1>5
<1>8. shares' \in [Symbols -> Nat]
  BY <1>2, <1>3, <1>5, <1>6
<1> QED
  BY <1>1, <1>3, <1>5, <1>7, <1>8 DEF BrokerTypeOK

LEMMA TypeStep ==
  ASSUME TradingInv, [Next]_vars
  PROVE  TypeOK'
<1>0. TypeOK /\ OrderInHand /\ AwaitedIsInHand
  BY DEF TradingInv
<1>a. MaxPolls \in Nat \ {0} /\ polls \in 0..MaxPolls - 1
  BY <1>0, TradingAssumption DEF TypeOK, LoopTypeOK
<1>b. TypeOK' <=> BrokerTypeOK' /\ EngineTypeOK' /\ LoopTypeOK'
  BY DEF TypeOK
<1>c. EngineTypeOK /\ LoopTypeOK
  BY <1>0 DEF TypeOK
<1>d. InHand => order \in Order
  BY <1>0 DEF OrderInHand
<1>1. CASE UNCHANGED vars
  BY <1>0, <1>1, <1>b, SameBroker, SameProcess DEF vars
<1>2. CASE Start
  <2>1. UNCHANGED broker /\ EngineTypeOK' /\ LoopTypeOK'
    BY <1>2, <1>c, TradingAssumption DEF Start, EngineTypeOK, LoopTypeOK
  <2> QED
    BY <1>0, <1>b, <2>1, SameBroker
<1>3. CASE Reconcile
  <2>1. orders' \in Seq(Sent)
    BY <1>0, <1>3, ReconcileBook DEF Reconcile
  <2>2. BrokerTypeOK'
    BY <1>0, <1>3, <2>1 DEF Reconcile, TypeOK, BrokerTypeOK
  <2>3. shares \in [Symbols -> Nat]
    BY <1>0 DEF TypeOK, BrokerTypeOK
  <2>4. EngineTypeOK' /\ LoopTypeOK'
    BY <1>3, <1>c, <2>3 DEF Reconcile, AdoptPositions, EngineTypeOK, LoopTypeOK
  <2> QED
    BY <1>b, <2>2, <2>4
<1>4. CASE ReadOrders
  <2>1. UNCHANGED broker /\ EngineTypeOK' /\ LoopTypeOK'
    BY <1>4, <1>c DEF ReadOrders, ReadOpenOrders, EngineTypeOK, LoopTypeOK
  <2> QED
    BY <1>0, <1>b, <2>1, SameBroker
<1>5. CASE OpenSession
  <2>1. UNCHANGED broker /\ EngineTypeOK' /\ LoopTypeOK'
    BY <1>5, <1>c DEF OpenSession, EngineTypeOK, LoopTypeOK
  <2> QED
    BY <1>0, <1>b, <2>1, SameBroker
<1>6. CASE CloseSession
  <2>1. CASE End("halted")
    BY <1>0, <1>6, <1>b, <2>1, SameBroker, EndType DEF CloseSession
  <2>2. CASE ~End("halted")
    <3>1. UNCHANGED broker /\ EngineTypeOK' /\ LoopTypeOK'
      BY <1>6, <1>c, <2>2 DEF CloseSession, EngineTypeOK, LoopTypeOK
    <3> QED
      BY <1>0, <1>b, <3>1, SameBroker
  <2> QED
    BY <2>1, <2>2
<1>7. CASE Stop
  BY <1>0, <1>7, <1>b, SameBroker, EndType DEF Stop
<1>8. CASE PassOver
  BY <1>0, <1>8, <1>b, SameBroker, EndType DEF PassOver
<1>9. ASSUME NEW s \in Symbols, Skip(s)
      PROVE  TypeOK'
  <2>1. UNCHANGED broker /\ EngineTypeOK' /\ LoopTypeOK'
    BY <1>9, <1>c DEF Skip, Turn, Done, EngineTypeOK, LoopTypeOK
  <2> QED
    BY <1>0, <1>b, <2>1, SameBroker
<1>10. ASSUME NEW s \in Symbols, NEW close \in Prices, NEW weight \in Weights,
              Decide(s, close, weight)
       PROVE  TypeOK'
  <2>1. UNCHANGED broker
    BY <1>10 DEF Decide
  <2> QED
    BY <1>0, <1>10, <1>b, <2>1, SameBroker, DecideType
<1>11. CASE Submit
  <2>1. BrokerTypeOK'
    BY <1>0, <1>11, <1>d, BrokerAcceptsType DEF Submit, InHand
  <2>2. EngineTypeOK' /\ LoopTypeOK'
    BY <1>11, <1>c DEF Submit, EngineTypeOK, LoopTypeOK
  <2> QED
    BY <1>b, <2>1, <2>2
<1>12. CASE SubmitRefused
  BY <1>0, <1>12, <1>b, SameBroker, ThrowType DEF SubmitRefused
<1>13. CASE Withhold
  <2>0. polls' \in 0..MaxPolls - 1
    BY <1>13, NoPolls DEF Withhold, OnBarReturns
  <2>1. UNCHANGED broker /\ EngineTypeOK' /\ LoopTypeOK'
    BY <1>13, <1>c, <2>0 DEF Withhold, BookNothing, OnBarReturns, EngineTypeOK, LoopTypeOK
  <2> QED
    BY <1>0, <1>b, <2>1, SameBroker
<1>14. CASE PollFilled
  BY <1>0, <1>14, PollFilledType
<1>15. CASE PollDead
  BY <1>0, <1>15, <1>b, SameBroker, ThrowType DEF PollDead
<1>16. CASE PollOpen
  <2>1. UNCHANGED broker /\ EngineTypeOK'
    BY <1>16, <1>c DEF PollOpen, EngineTypeOK
  <2>2. polls' \in 0..MaxPolls - 1
    BY <1>16, <1>a DEF PollOpen, MorePolls, CountPoll
  <2>3. LoopTypeOK'
    BY <1>16, <1>c, <2>2 DEF PollOpen, LoopTypeOK
  <2> QED
    BY <1>0, <1>b, <2>1, <2>3, SameBroker
<1>17. CASE GiveUp
  <2>0. polls' \in 0..MaxPolls - 1
    BY <1>17, NoPolls DEF GiveUp, OnBarReturns
  <2>1. UNCHANGED broker /\ EngineTypeOK' /\ LoopTypeOK'
    BY <1>17, <1>c, <2>0 DEF GiveUp, BookNothing, OnBarReturns, EngineTypeOK, LoopTypeOK
  <2> QED
    BY <1>0, <1>b, <2>1, SameBroker
<1>18. CASE StartFails
  BY <1>0, <1>18, <1>b, SameBroker, EndType DEF StartFails
<1>19. ASSUME NEW s \in Symbols, DecideFails(s)
       PROVE  TypeOK'
  <2>1. CASE mode = "live"
    BY <1>0, <1>19, <1>b, <2>1, SameBroker, EndType DEF DecideFails
  <2>2. CASE mode # "live"
    <3>1. UNCHANGED broker /\ EngineTypeOK' /\ LoopTypeOK'
      BY <1>19, <1>c, <2>2 DEF DecideFails, Done, EngineTypeOK, LoopTypeOK
    <3> QED
      BY <1>0, <1>b, <3>1, SameBroker
  <2> QED
    BY <2>1, <2>2
<1>20. CASE SubmitFails
  <2>1. BrokerTypeOK'
    BY <1>0, <1>20, <1>d, BrokerAcceptsType, SameBroker DEF SubmitFails, InHand
  <2>2. EngineTypeOK' /\ LoopTypeOK'
    BY <1>0, <1>20, ThrowType DEF SubmitFails
  <2> QED
    BY <1>b, <2>1, <2>2
<1>21. CASE PollFails
  BY <1>0, <1>21, <1>b, SameBroker, ThrowType DEF PollFails
<1>22. CASE Crash
  BY <1>0, <1>22, <1>b, SameBroker, EndType DEF Crash
<1>23. ASSUME NEW i \in DOMAIN orders, NEW quantity \in 1..orders[i].left,
              BrokerFills(i, quantity)
       PROVE  TypeOK'
  <2>1. UNCHANGED process
    BY <1>23 DEF BrokerFills
  <2> QED
    BY <1>0, <1>23, <1>b, <2>1, FillType, SameProcess
<1>24. ASSUME NEW i \in DOMAIN orders, BrokerKills(i)
       PROVE  TypeOK'
  <2>1. UNCHANGED <<cash, shares, quote, process>>
    BY <1>24 DEF BrokerKills
  <2>2. orders' \in Seq(Sent)
    BY <1>0, <1>24, KillsBook DEF SameBut
  <2>3. BrokerTypeOK'
    BY <1>0, <2>1, <2>2 DEF TypeOK, BrokerTypeOK
  <2> QED
    BY <1>0, <1>b, <2>1, <2>3, SameProcess
<1>25. ASSUME NEW s \in Symbols, NEW price \in Prices, PriceMoves(s, price)
       PROVE  TypeOK'
  <2>1. UNCHANGED process /\ BrokerTypeOK'
    BY <1>0, <1>25 DEF PriceMoves, TypeOK, BrokerTypeOK
  <2> QED
    BY <1>0, <1>b, <2>1, SameProcess
<1> QED
  BY <1>1, <1>2, <1>3, <1>4, <1>5, <1>6, <1>7, <1>8, <1>9, <1>10, <1>11, <1>12, <1>13,
     <1>14, <1>15, <1>16, <1>17, <1>18, <1>19, <1>20, <1>21, <1>22, <1>23, <1>24, <1>25
  DEF Next, ProcessStep, OnBar, AwaitFill, CallFails, BrokerStep

-----------------------------------------------------------------------------
(* Every step preserves the rest of the invariant *)

\* Most steps leave the broker alone and end with no order in hand.
Quiet ==
    /\ UNCHANGED broker
    /\ ~InHand'
    /\ pc' = "down" \/ (held' = held /\ (Reconciled' => Reconciled))

QuietStep ==
    \/ Start \/ ReadOrders \/ PassOver \/ OpenSession \/ CloseSession \/ Stop
    \/ \E s \in Symbols : Skip(s) \/ DecideFails(s)
    \/ SubmitRefused \/ Withhold \/ PollDead \/ GiveUp \/ PollFails
    \/ StartFails \/ Crash

\* The others.
OtherStep ==
    \/ UNCHANGED vars
    \/ Reconcile
    \/ \E s \in Symbols : \E close \in Prices, weight \in Weights : Decide(s, close, weight)
    \/ Submit \/ SubmitFails
    \/ PollFilled \/ PollOpen
    \/ BrokerStep

LEMMA Steps ==
  ASSUME [Next]_vars
  PROVE  QuietStep \/ OtherStep
  BY DEF Next, ProcessStep, OnBar, AwaitFill, CallFails, QuietStep, OtherStep

LEMMA QuietSteps ==
  ASSUME QuietStep
  PROVE  Quiet
<1>1. CASE Start
  BY <1>1 DEF Start, Quiet, InHand, Reconciled
<1>2. CASE ReadOrders
  BY <1>2 DEF ReadOrders, Quiet, InHand, Reconciled
<1>3. CASE PassOver \/ Stop \/ StartFails \/ Crash
  BY <1>3 DEF PassOver, Stop, StartFails, Crash, End, Quiet, InHand
<1>4. CASE OpenSession
  BY <1>4 DEF OpenSession, Quiet, InHand, Reconciled
<1>5. CASE CloseSession
  BY <1>5 DEF CloseSession, End, Quiet, InHand, Reconciled
<1>6. ASSUME NEW s \in Symbols, Skip(s)
      PROVE  Quiet
  BY <1>6 DEF Skip, Turn, Quiet, InHand, Reconciled
<1>7. ASSUME NEW s \in Symbols, DecideFails(s)
      PROVE  Quiet
  BY <1>7 DEF DecideFails, Turn, End, Quiet, InHand, Reconciled
<1>8. CASE SubmitRefused \/ PollDead \/ PollFails
  BY <1>8 DEF SubmitRefused, PollDead, PollFails, Throw, End, Quiet, InHand, Reconciled
<1>9. CASE Withhold \/ GiveUp
  BY <1>9 DEF Withhold, GiveUp, BookNothing, OnBarReturns, Quiet, InHand, Reconciled
<1> QED
  BY <1>1, <1>2, <1>3, <1>4, <1>5, <1>6, <1>7, <1>8, <1>9 DEF QuietStep

Hand == OrderInHand /\ AwaitedIsInHand /\ NoOrderInHalt

LEMMA EmptyHand ==
  ASSUME ~InHand'
  PROVE  Hand'
  BY DEF Hand, OrderInHand, AwaitedIsInHand, NoOrderInHalt, InHand

LEMMA DecideHand ==
  ASSUME TypeOK, NEW s \in Symbols, NEW close \in Prices, NEW weight \in Weights,
         Decide(s, close, weight)
  PROVE  Hand'
<1> DEFINE desired == Shares(weight, close, AccountEquity)
           next == OrderFor(s, held[s], desired)
<1>1. CASE pc' = pc
  <2>1. pc = "idle"
    BY DEF Decide, Turn
  <2> QED
    BY <1>1, <2>1, EmptyHand DEF InHand
<1>2. CASE pc' # pc
  <2>1. order' = next /\ pc' = "submitting" /\ ~risk'.halted /\ held' = held
    BY <1>2 DEF Decide
  <2>2. held[s] \in Nat /\ desired \in Nat
    BY Decides DEF TypeOK, EngineTypeOK
  <2>3. next \in Order /\ next.symbol = s /\ (next.side = "Sell" => next.quantity <= held[s])
    <3> HIDE DEF desired
    <3> QED
      BY <2>2, DecidedOrder
  <2> HIDE DEF next
  <2> QED
    BY <2>1, <2>3 DEF Hand, OrderInHand, AwaitedIsInHand, NoOrderInHalt, InHand
<1> QED
  BY <1>1, <1>2

LEMMA SubmitHand ==
  ASSUME TypeOK, Hand, Submit
  PROVE  Hand'
<1>1. /\ order \in Order /\ (order.side = "Sell" => order.quantity <= held[order.symbol])
      /\ ~risk.halted
  BY DEF Hand, OrderInHand, NoOrderInHalt, InHand, Submit
<1>2. UNCHANGED <<order, held, risk>> /\ BrokerAccepts /\ pc' = "awaiting"
  BY DEF Submit
<1>3. OrderInHand' /\ NoOrderInHalt'
  BY <1>1, <1>2 DEF OrderInHand, NoOrderInHalt
<1>4. Len(orders') = Len(orders) + 1 /\ orders'[Len(orders')] = Accepted /\ Len(orders) \in Nat
  BY <1>1, <1>2, AcceptsBook, Book
<1>5. order.quantity \in Nat
  BY <1>1 DEF Order
<1>6. Accepted.left + Accepted.unbooked = order.quantity
  BY <1>5 DEF Accepted
<1>7. Len(orders') > 0
  BY <1>4
<1>8. AwaitedIsInHand'
  BY <1>2, <1>4, <1>6, <1>7 DEF AwaitedIsInHand, Awaited, Accepted
<1> QED
  BY <1>3, <1>8 DEF Hand

\* Whatever happens to a row of the book, the awaited one stays that of the
\* order in hand.
LEMMA RowHand ==
  ASSUME TypeOK, Hand, UNCHANGED process,
         NEW i \in DOMAIN orders, NEW row \in Sent, SameBut(i, row),
         row.symbol = orders[i].symbol, row.side = orders[i].side,
         row.left + row.unbooked = orders[i].left + orders[i].unbooked,
         row.status = "filled" => row.left = 0
  PROVE  Hand'
<1>1. UNCHANGED <<order, held, risk, pc>>
  BY DEF process
<1>2. OrderInHand' /\ NoOrderInHalt'
  BY <1>1 DEF Hand, OrderInHand, NoOrderInHalt, InHand
<1>3. AwaitedIsInHand'
  <2> SUFFICES ASSUME pc = "awaiting"
               PROVE  AwaitedIsInHand'
    BY <1>1 DEF AwaitedIsInHand
  <2>1. /\ Len(orders) > 0
        /\ orders[Len(orders)].symbol = order.symbol
        /\ orders[Len(orders)].side = order.side
        /\ orders[Len(orders)].left + orders[Len(orders)].unbooked = order.quantity
        /\ orders[Len(orders)].status = "filled" => orders[Len(orders)].left = 0
    BY DEF Hand, AwaitedIsInHand, Awaited
  <2>2. Len(orders) \in DOMAIN orders
    BY <2>1, Book
  <2>3. Len(orders') = Len(orders)
    BY DEF SameBut
  <2>4. CASE i = Len(orders)
    <3>1. orders'[Len(orders)] = row
      BY <2>4 DEF SameBut
    <3> QED
      BY <1>1, <2>1, <2>3, <2>4, <3>1 DEF AwaitedIsInHand, Awaited
  <2>5. CASE i # Len(orders)
    <3>1. orders'[Len(orders)] = orders[Len(orders)]
      BY <2>2, <2>5 DEF SameBut
    <3> QED
      BY <1>1, <2>1, <2>3, <3>1 DEF AwaitedIsInHand, Awaited
  <2> QED
    BY <2>4, <2>5
<1> QED
  BY <1>2, <1>3 DEF Hand

LEMMA FillHand ==
  ASSUME TypeOK, Hand, NEW i \in DOMAIN orders, NEW quantity \in 1..orders[i].left,
         BrokerFills(i, quantity)
  PROVE  Hand'
<1> DEFINE row == Executed(orders[i], quantity)
<1>1. orders[i] \in Sent /\ orders[i].status = "open" /\ UNCHANGED process
  BY Book DEF BrokerFills
<1>2. /\ orders[i].left \in Nat /\ orders[i].unbooked \in Nat /\ quantity \in Nat
      /\ quantity <= orders[i].left
  BY <1>1 DEF Sent
<1>3. SameBut(i, row)
  BY FillsBook
<1>4. /\ row.symbol = orders[i].symbol /\ row.side = orders[i].side
      /\ row.left = orders[i].left - quantity /\ row.unbooked = orders[i].unbooked + quantity
      /\ row.status = "filled" => quantity = orders[i].left
      /\ row.status \in Statuses
  BY <1>1 DEF Executed, Statuses
<1>5. row \in Sent
  BY <1>1, <1>2 DEF Executed, Sent, Statuses
<1> HIDE DEF row
<1>6. /\ row.left + row.unbooked = orders[i].left + orders[i].unbooked
      /\ row.status = "filled" => row.left = 0
  BY <1>2, <1>4
<1> QED
  BY <1>1, <1>3, <1>4, <1>5, <1>6, RowHand

LEMMA KillHand ==
  ASSUME TypeOK, Hand, NEW i \in DOMAIN orders, BrokerKills(i)
  PROVE  Hand'
<1>1. orders[i] \in Sent /\ UNCHANGED process /\ SameBut(i, AfterKill(orders[i]))
  BY Book, KillsBook DEF BrokerKills
<1>2. AfterKill(orders[i]) \in Sent
  BY <1>1 DEF AfterKill, Sent, Statuses
<1> QED
  BY <1>1, <1>2, RowHand DEF AfterKill

LEMMA HandStep ==
  ASSUME TypeOK, Hand, [Next]_vars
  PROVE  Hand'
<1>1. CASE QuietStep
  BY <1>1, QuietSteps, EmptyHand DEF Quiet
<1>2. CASE UNCHANGED vars
  BY <1>2 DEF vars, broker, process, Hand, OrderInHand, AwaitedIsInHand, NoOrderInHalt,
              InHand, Awaited
<1>3. CASE Reconcile
  BY <1>3, EmptyHand DEF Reconcile, InHand
<1>4. ASSUME NEW s \in Symbols, NEW close \in Prices, NEW weight \in Weights,
             Decide(s, close, weight)
      PROVE  Hand'
  BY <1>4, DecideHand
<1>5. CASE Submit
  BY <1>5, SubmitHand
<1>6. CASE SubmitFails
  BY <1>6, EmptyHand DEF SubmitFails, Throw, End, InHand
<1>7. CASE PollFilled
  BY <1>7, EmptyHand DEF PollFilled, OnBarReturns, InHand
<1>8. CASE PollOpen
  BY <1>8 DEF PollOpen, broker, Hand, OrderInHand, AwaitedIsInHand, NoOrderInHalt, InHand, Awaited
<1>9. ASSUME NEW i \in DOMAIN orders, NEW quantity \in 1..orders[i].left,
             BrokerFills(i, quantity)
      PROVE  Hand'
  BY <1>9, FillHand
<1>10. ASSUME NEW i \in DOMAIN orders, BrokerKills(i)
       PROVE  Hand'
  BY <1>10, KillHand
<1>11. ASSUME NEW s \in Symbols, NEW price \in Prices, PriceMoves(s, price)
       PROVE  Hand'
  BY <1>11 DEF PriceMoves, process, Hand, OrderInHand, AwaitedIsInHand, NoOrderInHalt,
               InHand, Awaited
<1> QED
  BY <1>1, <1>2, <1>3, <1>4, <1>5, <1>6, <1>7, <1>8, <1>9, <1>10, <1>11, Steps
  DEF OtherStep, BrokerStep

\* What is believed changes only where shares, positions or the book do.
LEMMA BeliefKept ==
  ASSUME TypeOK, BeliefExplained, shares' = shares, held' = held,
         Reconciled' => Reconciled,
         \A s \in Symbols, side \in {"Buy", "Sell"} : Unbooked(s, side)' = Unbooked(s, side)
  PROVE  BeliefExplained'
  BY DEF BeliefExplained

LEMMA BeliefOfSameOrders ==
  ASSUME TypeOK, BeliefExplained, UNCHANGED <<shares, held, orders>>,
         Reconciled' => Reconciled
  PROVE  BeliefExplained'
<1>1. \A s \in Symbols, side \in {"Buy", "Sell"} : Unbooked(s, side)' = Unbooked(s, side)
  BY UnbookedSame
<1> QED
  BY <1>1, BeliefKept

LEMMA ReconcileBelief ==
  ASSUME TypeOK, Reconcile
  PROVE  BeliefExplained'
<1>1. held' = shares /\ shares' = shares /\ shares \in [Symbols -> Nat]
  <2>1. shares' = shares /\ shares \in [Symbols -> Nat]
    BY DEF Reconcile, TypeOK, BrokerTypeOK
  <2>2. \A s \in Symbols : (IF shares[s] <= 0 THEN 0 ELSE shares[s]) = shares[s]
    BY <2>1
  <2>3. held' = [s \in Symbols |-> shares[s]]
    BY <2>2 DEF Reconcile, AdoptPositions
  <2> QED
    BY <2>1, <2>3
<1>2. \A s \in Symbols, side \in {"Buy", "Sell"} : Unbooked(s, side)' = 0
  BY ReconcileBook, UnbookedNone DEF Reconcile
<1>3. \A s \in Symbols : shares[s] = shares[s] + 0 - 0
  BY <1>1
<1> QED
  BY <1>1, <1>2, <1>3 DEF BeliefExplained

LEMMA AcceptBelief ==
  ASSUME TypeOK, BeliefExplained, order \in Order, BrokerAccepts, held' = held,
         Reconciled' => Reconciled
  PROVE  BeliefExplained'
<1>1. shares' = shares
  BY DEF BrokerAccepts
<1>2. \A s \in Symbols, side \in {"Buy", "Sell"} : Unbooked(s, side)' = Unbooked(s, side)
  BY UnbookedAccepted
<1> QED
  BY <1>1, <1>2, BeliefKept

\* What a fill adds to the shares it adds to what is unbooked.
LEMMA FillBelief ==
  ASSUME TypeOK, BeliefExplained,
         NEW i \in DOMAIN orders, NEW quantity \in 1..orders[i].left,
         BrokerFills(i, quantity)
  PROVE  BeliefExplained'
<1> DEFINE row == Executed(orders[i], quantity)
           t == orders[i].symbol
<1>1. /\ orders[i] \in Sent /\ UNCHANGED process
      /\ \/ orders[i].side = "Buy" /\ shares' = [shares EXCEPT ![t] = @ + quantity]
         \/ orders[i].side = "Sell" /\ shares' = [shares EXCEPT ![t] = @ - quantity]
  BY Book DEF BrokerFills
<1>2. /\ orders[i].left \in Nat /\ orders[i].unbooked \in Nat /\ quantity \in Nat
      /\ quantity <= orders[i].left /\ t \in Symbols
  BY <1>1 DEF Sent
<1>3. SameBut(i, row)
  BY FillsBook
<1>4. /\ row.symbol = t /\ row.side = orders[i].side
      /\ row.unbooked = orders[i].unbooked + quantity /\ row \in Sent
  BY <1>1, <1>2 DEF Executed, Sent, Statuses
<1> HIDE DEF row, t
<1>5. \A s, side : Unbooked(s, side)' =
        IF s = t /\ side = orders[i].side
        THEN Unbooked(s, side) - orders[i].unbooked + row.unbooked
        ELSE Unbooked(s, side)
  BY <1>3, <1>4, UnbookedMoves DEF t
<1> SUFFICES ASSUME Reconciled, NEW s \in Symbols
             PROVE  shares'[s] = held[s] + Unbooked(s, "Buy")' - Unbooked(s, "Sell")'
  BY <1>1 DEF BeliefExplained, process, Reconciled
<1>6. shares[s] = held[s] + Unbooked(s, "Buy") - Unbooked(s, "Sell")
  BY DEF BeliefExplained
<1>7. /\ shares \in [Symbols -> Nat] /\ held[s] \in Nat
      /\ Unbooked(s, "Buy") \in Int /\ Unbooked(s, "Sell") \in Int
  BY UnbookedColumn DEF TypeOK, BrokerTypeOK, EngineTypeOK
<1>8. CASE s # t
  BY <1>1, <1>5, <1>6, <1>7, <1>8
<1>9. CASE s = t /\ orders[i].side = "Buy"
  <2>1. shares'[s] = shares[s] + quantity
    BY <1>1, <1>2, <1>7, <1>9
  <2>2. /\ Unbooked(s, "Buy")' = Unbooked(s, "Buy") - orders[i].unbooked + row.unbooked
        /\ Unbooked(s, "Sell")' = Unbooked(s, "Sell")
    BY <1>5, <1>9
  <2> QED
    BY <1>2, <1>4, <1>6, <1>7, <2>1, <2>2
<1>10. CASE s = t /\ orders[i].side = "Sell"
  <2>1. shares'[s] = shares[s] - quantity
    BY <1>1, <1>2, <1>7, <1>10
  <2>2. /\ Unbooked(s, "Sell")' = Unbooked(s, "Sell") - orders[i].unbooked + row.unbooked
        /\ Unbooked(s, "Buy")' = Unbooked(s, "Buy")
    BY <1>5, <1>10
  <2> QED
    BY <1>2, <1>4, <1>6, <1>7, <2>1, <2>2
<1> QED
  BY <1>1, <1>8, <1>9, <1>10

LEMMA KillBelief ==
  ASSUME TypeOK, BeliefExplained, NEW i \in DOMAIN orders, BrokerKills(i)
  PROVE  BeliefExplained'
<1>1. UNCHANGED <<shares, process>>
  BY DEF BrokerKills
<1>2. SameBut(i, AfterKill(orders[i]))
  BY KillsBook
<1>3. \A s \in Symbols, side \in {"Buy", "Sell"} : Unbooked(s, side)' = Unbooked(s, side)
  BY <1>2, UnbookedSame DEF SameBut, AfterKill
<1> QED
  BY <1>1, <1>3, BeliefKept DEF process, Reconciled

\* The whole order is booked: it has filled, and every share of it was executed
\* since it was sent.
LEMMA BookBelief ==
  ASSUME TypeOK, Hand, BeliefExplained, PollFilled
  PROVE  BeliefExplained'
<1> DEFINE i == Len(orders)
           row == AfterBooking(orders[i])
           t == order.symbol
           n == order.quantity
<1>1. /\ order \in Order /\ (order.side = "Sell" => n <= held[t])
      /\ i > 0 /\ orders[i].symbol = t /\ orders[i].side = order.side
      /\ orders[i].left + orders[i].unbooked = n
      /\ orders[i].left = 0
  BY DEF Hand, OrderInHand, AwaitedIsInHand, InHand, PollFilled, Awaited
<1>2. i \in DOMAIN orders /\ orders[i] \in Sent
  BY <1>1, Book
<1>3. orders[i].unbooked = n /\ n \in Nat /\ t \in Symbols /\ order.side \in {"Buy", "Sell"}
  BY <1>1, <1>2 DEF Sent, Order
<1>4. quote[t] \in Nat
  BY <1>3, PriceNat DEF TypeOK, BrokerTypeOK
<1>5. held' = [held EXCEPT ![t] = Moved(order)] /\ shares' = shares
  BY <1>1, <1>4, HeldMoves DEF PollFilled
<1>6. SameBut(i, row) /\ row \in Sent
  BY <1>2, BooksBook, BookingRow DEF PollFilled, Awaited
<1>7. row.symbol = orders[i].symbol /\ row.side = orders[i].side /\ row.unbooked = 0
  BY DEF AfterBooking
<1>a. pc = "awaiting"
  BY DEF PollFilled
<1>8. \A s, side : Unbooked(s, side)' =
        IF s = t /\ side = order.side THEN Unbooked(s, side) - n + 0 ELSE Unbooked(s, side)
  <2> HIDE DEF row, i, t, n
  <2> QED
    BY <1>1, <1>2, <1>3, <1>6, <1>7, UnbookedMoves
<1> SUFFICES ASSUME NEW s \in Symbols
             PROVE  shares[s] = held'[s] + Unbooked(s, "Buy")' - Unbooked(s, "Sell")'
  BY <1>5 DEF BeliefExplained
<1> HIDE DEF i, row, t, n
<1>9. shares[s] = held[s] + Unbooked(s, "Buy") - Unbooked(s, "Sell")
  BY <1>a DEF BeliefExplained, Reconciled
<1>10. /\ shares[s] \in Nat /\ held \in [Symbols -> Nat]
       /\ Unbooked(s, "Buy") \in Int /\ Unbooked(s, "Sell") \in Int
  BY UnbookedColumn DEF TypeOK, BrokerTypeOK, EngineTypeOK
<1>11. CASE s # t
  BY <1>5, <1>8, <1>9, <1>10, <1>11
<1>12. CASE s = t /\ order.side = "Buy"
  <2>1. held'[s] = held[s] + n
    BY <1>3, <1>5, <1>10, <1>12 DEF Moved, t, n
  <2>2. Unbooked(s, "Buy")' = Unbooked(s, "Buy") - n + 0 /\ Unbooked(s, "Sell")' = Unbooked(s, "Sell")
    BY <1>8, <1>12
  <2> QED
    BY <1>3, <1>9, <1>10, <2>1, <2>2
<1>13. CASE s = t /\ order.side = "Sell"
  <2>1. held'[s] = held[s] - n
    BY <1>3, <1>5, <1>10, <1>13 DEF Moved, t, n
  <2>2. Unbooked(s, "Sell")' = Unbooked(s, "Sell") - n + 0 /\ Unbooked(s, "Buy")' = Unbooked(s, "Buy")
    BY <1>8, <1>13
  <2> QED
    BY <1>3, <1>9, <1>10, <2>1, <2>2
<1> QED
  BY <1>3, <1>11, <1>12, <1>13

LEMMA BeliefStep ==
  ASSUME TypeOK, Hand, BeliefExplained, [Next]_vars
  PROVE  BeliefExplained'
<1>1. CASE QuietStep
  <2>1. CASE pc' = "down"
    BY <2>1 DEF BeliefExplained, Reconciled
  <2>2. CASE pc' # "down"
    BY <1>1, <2>2, QuietSteps, BeliefOfSameOrders DEF Quiet, broker
  <2> QED
    BY <2>1, <2>2
<1>2. CASE UNCHANGED vars
  BY <1>2, BeliefOfSameOrders DEF vars, broker, process, Reconciled
<1>3. CASE Reconcile
  BY <1>3, ReconcileBelief
<1>4. ASSUME NEW s \in Symbols, NEW close \in Prices, NEW weight \in Weights,
             Decide(s, close, weight)
      PROVE  BeliefExplained'
  BY <1>4, BeliefOfSameOrders DEF Decide, Turn, broker, Reconciled
<1>5. CASE Submit
  BY <1>5, AcceptBelief DEF Submit, Hand, OrderInHand, InHand, Reconciled
<1>6. CASE SubmitFails
  <2>1. CASE pc' = "down"
    BY <2>1 DEF BeliefExplained, Reconciled
  <2>2. CASE pc' # "down"
    <3>1. held' = held /\ Reconciled /\ order \in Order
      BY <1>6, <2>2 DEF SubmitFails, Throw, End, Hand, OrderInHand, InHand, Reconciled
    <3>2. CASE BrokerAccepts
      BY <3>1, <3>2, AcceptBelief
    <3>3. CASE UNCHANGED broker
      BY <3>1, <3>3, BeliefOfSameOrders DEF broker
    <3> QED
      BY <1>6, <3>2, <3>3 DEF SubmitFails
  <2> QED
    BY <2>1, <2>2
<1>7. CASE PollFilled
  BY <1>7, BookBelief
<1>8. CASE PollOpen
  BY <1>8, BeliefOfSameOrders DEF PollOpen, broker, Reconciled
<1>9. ASSUME NEW i \in DOMAIN orders, NEW quantity \in 1..orders[i].left,
             BrokerFills(i, quantity)
      PROVE  BeliefExplained'
  BY <1>9, FillBelief
<1>10. ASSUME NEW i \in DOMAIN orders, BrokerKills(i)
       PROVE  BeliefExplained'
  BY <1>10, KillBelief
<1>11. ASSUME NEW s \in Symbols, NEW price \in Prices, PriceMoves(s, price)
       PROVE  BeliefExplained'
  BY <1>11, BeliefOfSameOrders DEF PriceMoves, process, Reconciled
<1> QED
  BY <1>1, <1>2, <1>3, <1>4, <1>5, <1>6, <1>7, <1>8, <1>9, <1>10, <1>11, Steps
  DEF OtherStep, BrokerStep

-----------------------------------------------------------------------------
(* The theorems *)

LEMMA InitInv ==
  ASSUME Init
  PROVE  TradingInv
<1>1. orders \in Seq(Sent)
  BY EmptySeq DEF Init
<1>2. Flat \in [Symbols -> Nat]
  BY DEF Flat
<1>3. BrokerTypeOK
  BY <1>1, <1>2, TradingAssumption DEF Init, BrokerTypeOK
<1>4. EngineTypeOK
  <2>1. FreshRisk \in [halted : BOOLEAN, seen_equity : BOOLEAN, peak_equity : Int]
    BY DEF FreshRisk, RiskState
  <2>2. held = Flat /\ risk = FreshRisk /\ order = NoOrder /\ top = 0
    BY DEF Init
  <2> QED
    BY <1>2, <2>1, <2>2 DEF EngineTypeOK
<1>5. LoopTypeOK
  BY NoPolls DEF Init, LoopTypeOK
<1>6. ~InHand /\ ~Reconciled
  BY DEF Init, InHand, Reconciled
<1> QED
  BY <1>3, <1>4, <1>5, <1>6
  DEF TradingInv, TypeOK, OrderInHand, AwaitedIsInHand, NoOrderInHalt, InHand, BeliefExplained

LEMMA StepInv ==
  ASSUME TradingInv, [Next]_vars
  PROVE  TradingInv'
<1>1. TypeOK /\ Hand /\ BeliefExplained
  BY DEF TradingInv, Hand
<1>2. TypeOK' /\ Hand' /\ BeliefExplained'
  BY <1>1, TypeStep, HandStep, BeliefStep
<1> QED
  BY <1>2 DEF TradingInv, Hand

\* The inductive invariant always holds: whatever the broker fills, kills or
\* loses, and wherever the process dies and is started again.
THEOREM TradingInvariant == Spec => []TradingInv
  BY InitInv, StepInv, PTL DEF Spec

\* Every variable keeps its type; above all no position and no cash balance
\* falls below zero (Portfolio::apply, await_fill).
THEOREM TypeCorrect == Spec => []TypeOK
<1>1. TradingInv => TypeOK
  BY DEF TradingInv
<1> QED
  BY <1>1, TradingInvariant, PTL

\* What the engines hold and what the account holds differ by what was executed
\* and never booked, to the share (reconcile, adopt, await_fill).
THEOREM BeliefAlwaysExplained == Spec => []BeliefExplained
<1>1. TradingInv => BeliefExplained
  BY DEF TradingInv
<1> QED
  BY <1>1, TradingInvariant, PTL

HaltHolds == risk.halted => /\ Len(orders') = Len(orders)
                            /\ risk'.halted \/ pc' = "down"

LEMMA HaltStep ==
  ASSUME TradingInv, [Next]_vars
  PROVE  HaltHolds
<1>0. TypeOK /\ Hand /\ NoOrderInHalt
  BY DEF TradingInv, Hand
<1>1. CASE QuietStep
  <2>1. orders' = orders
    BY <1>1, QuietSteps DEF Quiet, broker
  <2>2. risk' = risk \/ pc' = "down"
    BY <1>1 DEF QuietStep, Start, ReadOrders, PassOver, OpenSession, CloseSession, Stop, Skip,
                DecideFails, SubmitRefused, Withhold, PollDead, GiveUp, PollFails, StartFails,
                Crash, Throw, End, OnBarReturns
  <2> QED
    BY <2>1, <2>2 DEF HaltHolds
<1>2. CASE UNCHANGED vars
  BY <1>2 DEF vars, broker, process, HaltHolds
<1>3. CASE Reconcile
  BY <1>0, <1>3, ReconcileBook DEF Reconcile, HaltHolds
<1>4. ASSUME NEW s \in Symbols, NEW close \in Prices, NEW weight \in Weights,
             Decide(s, close, weight)
      PROVE  HaltHolds
  <2>1. risk' = Observe(s, close) /\ orders' = orders
    BY <1>4 DEF Decide, broker
  <2> QED
    BY <1>0, <2>1, Decides DEF HaltHolds
<1>5. CASE Submit \/ SubmitFails
  BY <1>0, <1>5 DEF NoOrderInHalt, InHand, Submit, SubmitFails, HaltHolds
<1>6. CASE PollFilled
  BY <1>0, <1>6 DEF NoOrderInHalt, InHand, PollFilled, HaltHolds
<1>7. CASE PollOpen
  BY <1>7 DEF PollOpen, broker, HaltHolds
<1>8. ASSUME NEW i \in DOMAIN orders, NEW quantity \in 1..orders[i].left,
             BrokerFills(i, quantity)
      PROVE  HaltHolds
  BY <1>0, <1>8, FillsBook DEF BrokerFills, process, SameBut, HaltHolds
<1>9. ASSUME NEW i \in DOMAIN orders, BrokerKills(i)
      PROVE  HaltHolds
  BY <1>0, <1>9, KillsBook DEF BrokerKills, process, SameBut, HaltHolds
<1>10. ASSUME NEW s \in Symbols, NEW price \in Prices, PriceMoves(s, price)
       PROVE  HaltHolds
  BY <1>10 DEF PriceMoves, process, HaltHolds
<1> QED
  BY <1>1, <1>2, <1>3, <1>4, <1>5, <1>6, <1>7, <1>8, <1>9, <1>10, Steps
  DEF OtherStep, BrokerStep

\* Once the drawdown limit has tripped no order is sent, by any engine, and
\* only the end of the process lifts the halt (Engine::on_bar, Risk::allow).
THEOREM HaltIsFinal == Spec => HaltStopsOrders
<1>1. TradingInv /\ [Next]_vars => [HaltHolds]_vars
  BY HaltStep
<1>2. [][HaltHolds]_vars => HaltStopsOrders
  BY PTL DEF HaltStopsOrders, HaltHolds
<1> QED
  BY <1>1, <1>2, TradingInvariant, PTL DEF Spec

-----------------------------------------------------------------------------
(* Scheduled runs only *)

\* A step that opens no order leaves free what was free.
OpensNone == \A s \in Symbols : OpenOrders(s)' \subseteq OpenOrders(s)

LEMMA RowOpensNone ==
  ASSUME TypeOK, NEW i \in DOMAIN orders, NEW row, SameBut(i, row),
         row.symbol = orders[i].symbol,
         row.status = "open" => orders[i].status = "open"
  PROVE  OpensNone
  BY DEF SameBut, OpensNone, OpenOrders

LEMMA OpensNoneKeeps ==
  ASSUME OneOpen, OpensNone
  PROVE  OneOpen' /\ \A s \in Symbols : Free(s) => Free(s)'
  BY DEF OneOpen, OpensNone, Free

LEMMA SameOpen ==
  ASSUME orders' = orders
  PROVE  OpensNone
  BY DEF OpensNone, OpenOrders

\* The one step that opens an order opens it for a symbol that has none.
LEMMA AcceptOpens ==
  ASSUME TypeOK, OneOpen, order \in Order, BrokerAccepts, Free(order.symbol)
  PROVE  /\ OneOpen'
         /\ \A s \in Symbols : s # order.symbol /\ Free(s) => Free(s)'
<1> DEFINE n == Len(orders) + 1
<1>1. /\ DOMAIN orders' = DOMAIN orders \cup {n}
      /\ \A i \in DOMAIN orders : orders'[i] = orders[i]
      /\ orders'[n] = Accepted
  BY AcceptsBook
<1>2. Accepted.symbol = order.symbol
  BY DEF Accepted
<1> HIDE DEF n
<1>3. \A s \in Symbols : s # order.symbol => OpenOrders(s)' \subseteq OpenOrders(s)
  BY <1>1, <1>2 DEF OpenOrders
<1>4. \A s \in Symbols : OpenOrders(s)' \subseteq OpenOrders(s) \cup {n}
  BY <1>1 DEF OpenOrders
<1>5. \A s \in Symbols : s = order.symbol => OpenOrders(s)' \subseteq {n}
  BY <1>4 DEF Free
<1>6. ASSUME NEW s \in Symbols, NEW i \in OpenOrders(s)', NEW j \in OpenOrders(s)'
      PROVE  i = j
  <2>1. CASE s = order.symbol
    BY <1>5, <1>6, <2>1
  <2>2. CASE s # order.symbol
    BY <1>3, <1>6, <2>2 DEF OneOpen
  <2> QED
    BY <2>1, <2>2
<1> QED
  BY <1>3, <1>6 DEF OneOpen, Free

\* A step that opens nothing, brings no symbol back into the loop and takes no
\* new order in hand.
LEMMA LoopKept ==
  ASSUME OneOpen, ToComeIsFree, OpensNone, TypeOK,
         mode' = mode, mode = "once", pc' # "between sessions",
         pc' \in {"idle", "submitting", "awaiting"} =>
             /\ pc \in {"idle", "submitting", "awaiting"}
             /\ todo' \subseteq todo /\ working' = working,
         InHand' => InHand /\ order' = order /\ order \in Order,
         pc' = "submitting" => pc = "submitting"
  PROVE  OnceInv'
<1>1. OneOpen' /\ \A s \in Symbols : Free(s) => Free(s)'
  BY OpensNoneKeeps
<1>2. todo \subseteq Symbols
  BY DEF TypeOK, LoopTypeOK
<1>3. pc' \in {"idle", "submitting", "awaiting"} => \A s \in todo' \ working' : Free(s)'
  BY <1>1, <1>2 DEF ToComeIsFree
<1>4. InHand' => order'.symbol \notin todo'
  BY DEF ToComeIsFree, InHand
<1>5. pc' = "submitting" => order' = order /\ order.symbol \in Symbols /\ Free(order.symbol)
  BY DEF ToComeIsFree, InHand, Order
<1>6. pc' = "submitting" => Free(order.symbol)'
  BY <1>1, <1>5 DEF Free, OpenOrders
<1> QED
  BY <1>1, <1>3, <1>4, <1>6 DEF OnceInv, ToComeIsFree

\* A process that has not begun its loop, or is gone.
LEMMA NotInLoop ==
  ASSUME OneOpen, OpensNone, mode' = "once",
         pc' \notin {"between sessions", "idle", "submitting", "awaiting"}
  PROVE  OnceInv'
<1>1. OneOpen'
  BY OpensNoneKeeps
<1> QED
  BY <1>1 DEF OnceInv, ToComeIsFree, InHand

LEMMA DecideOnce ==
  ASSUME TypeOK, OnceInv, NEW s \in Symbols, NEW close \in Prices, NEW weight \in Weights,
         Decide(s, close, weight)
  PROVE  OnceInv'
<1>1. /\ mode' = mode /\ mode = "once" /\ orders' = orders /\ working' = working
      /\ todo' = todo \ {s} /\ s \in todo /\ s \notin working /\ pc = "idle"
      /\ \/ /\ order' = OrderFor(s, held[s], Shares(weight, close, AccountEquity))
            /\ pc' = "submitting"
         \/ pc' = pc
  BY DEF OnceInv, Decide, Turn, Done, broker
<1>2. OpensNone
  BY <1>1, SameOpen
<1>3. OneOpen' /\ \A t \in Symbols : Free(t) => Free(t)'
  BY <1>2, OpensNoneKeeps DEF OnceInv
<1>4. todo \subseteq Symbols
  BY DEF TypeOK, LoopTypeOK
<1>5. Free(s)' /\ \A t \in todo' \ working' : Free(t)'
  BY <1>1, <1>3, <1>4 DEF OnceInv, ToComeIsFree
<1>6. pc' = "submitting" => order'.symbol = s
  BY <1>1 DEF OrderFor
<1>7. InHand' => order'.symbol \notin todo'
  BY <1>1, <1>6 DEF InHand
<1>8. pc' = "submitting" => Free(order.symbol)'
  BY <1>5, <1>6 DEF Free, OpenOrders
<1> QED
  BY <1>1, <1>3, <1>5, <1>7, <1>8 DEF OnceInv, ToComeIsFree

LEMMA AcceptOnce ==
  ASSUME TypeOK, Hand, OnceInv, pc = "submitting", BrokerAccepts, mode' = mode,
         UNCHANGED <<todo, working>>,
         pc' \notin {"between sessions", "submitting"},
         InHand' => order' = order
  PROVE  OnceInv'
<1>1. order \in Order /\ Free(order.symbol) /\ order.symbol \notin todo
  BY DEF Hand, OrderInHand, InHand, OnceInv, ToComeIsFree
<1>2. OneOpen' /\ \A s \in Symbols : s # order.symbol /\ Free(s) => Free(s)'
  BY <1>1, AcceptOpens DEF OnceInv
<1>3. todo \subseteq Symbols
  BY DEF TypeOK, LoopTypeOK
<1>4. \A s \in todo' \ working' : Free(s)'
  BY <1>1, <1>2, <1>3 DEF OnceInv, ToComeIsFree
<1>5. InHand' => order'.symbol \notin todo'
  BY <1>1
<1> QED
  BY <1>2, <1>4, <1>5 DEF OnceInv, ToComeIsFree

LEMMA ReadOrdersOnce ==
  ASSUME TypeOK, OnceInv, ReadOrders
  PROVE  OnceInv'
<1>1. /\ orders' = orders /\ mode' = mode /\ pc' = "idle" /\ todo' = Symbols
      /\ working' = {s \in Symbols : ~Free(s)}
  BY DEF ReadOrders, ReadOpenOrders, broker, Free
<1>2. OneOpen' /\ \A s \in Symbols : Free(s) => Free(s)'
  BY <1>1, SameOpen, OpensNoneKeeps DEF OnceInv
<1> QED
  BY <1>1, <1>2 DEF OnceInv, ToComeIsFree, InHand

LEMMA QuietOnce ==
  ASSUME TypeOK, OnceInv, QuietStep, mode' = "once"
  PROVE  OnceInv'
<1>0. mode = "once" /\ pc # "between sessions" /\ OneOpen /\ ToComeIsFree
  BY DEF OnceInv
<1>1. ~InHand' /\ OpensNone
  BY QuietSteps, SameOpen DEF Quiet, broker
<1>2. CASE ReadOrders
  BY <1>2, ReadOrdersOnce
<1>3. CASE pc' \in {"down", "reconciling"}
  BY <1>0, <1>1, <1>3, NotInLoop
<1>4. CASE ~ReadOrders /\ pc' \notin {"down", "reconciling"}
  <2>1. /\ mode' = mode /\ pc' = "idle" /\ pc \in {"idle", "submitting", "awaiting"}
        /\ todo' \subseteq todo /\ working' = working
    BY <1>0, <1>4
    DEF QuietStep, Start, PassOver, OpenSession, CloseSession, Stop, Skip, DecideFails,
        SubmitRefused, Withhold, PollDead, GiveUp, PollFails, StartFails, Crash,
        Throw, End, OnBarReturns, Turn, Done
  <2> QED
    BY <1>0, <1>1, <2>1, LoopKept
<1> QED
  BY <1>2, <1>3, <1>4

LEMMA OnceStep ==
  ASSUME TypeOK, Hand, OnceInv, [Next]_vars, mode' = "once"
  PROVE  OnceInv'
<1>0. mode = "once" /\ pc # "between sessions" /\ OneOpen /\ ToComeIsFree
  BY DEF OnceInv
<1>d. InHand => order \in Order
  BY DEF Hand, OrderInHand
<1>1. CASE QuietStep
  BY <1>1, QuietOnce
<1>2. CASE UNCHANGED vars
  BY <1>0, <1>2, <1>d, SameOpen, LoopKept DEF vars, broker, process, InHand
<1>3. CASE Reconcile
  <2>1. OpensNone
    <3>1. /\ DOMAIN orders' = DOMAIN orders
          /\ \A i \in DOMAIN orders : orders'[i] = AfterBooking(orders[i])
      BY <1>3, ReconcileBook DEF Reconcile
    <3>2. \A i \in DOMAIN orders : /\ orders'[i].symbol = orders[i].symbol
                                   /\ orders'[i].status = orders[i].status
      BY <3>1 DEF AfterBooking
    <3> QED
      BY <3>1, <3>2 DEF OpensNone, OpenOrders
  <2>2. pc' = "reading orders"
    BY <1>0, <1>3 DEF Reconcile
  <2> QED
    BY <1>0, <2>1, <2>2, NotInLoop
<1>4. ASSUME NEW s \in Symbols, NEW close \in Prices, NEW weight \in Weights,
             Decide(s, close, weight)
      PROVE  OnceInv'
  BY <1>4, DecideOnce
<1>5. CASE Submit
  BY <1>5, AcceptOnce DEF Submit
<1>6. CASE SubmitFails
  <2>1. /\ pc = "submitting" /\ pc' = "idle" /\ ~InHand'
        /\ UNCHANGED <<mode, todo, working>>
    BY <1>0, <1>6 DEF SubmitFails, Throw, InHand
  <2>2. CASE BrokerAccepts
    BY <2>1, <2>2, AcceptOnce
  <2>3. CASE UNCHANGED broker
    BY <1>0, <2>1, <2>3, SameOpen, LoopKept DEF broker
  <2> QED
    BY <1>6, <2>2, <2>3 DEF SubmitFails
<1>7. CASE PollFilled
  <2>1. Len(orders) > 0 /\ Awaited \in DOMAIN orders
    BY <1>7, Book DEF PollFilled, Hand, AwaitedIsInHand, Awaited
  <2>2. OpensNone
    BY <1>7, <2>1, BooksBook, RowOpensNone DEF PollFilled, AfterBooking
  <2>3. /\ pc = "awaiting" /\ pc' = "idle" /\ ~InHand'
        /\ UNCHANGED <<mode, todo, working>>
    BY <1>7 DEF PollFilled, OnBarReturns, InHand
  <2> QED
    BY <1>0, <2>2, <2>3, LoopKept
<1>8. CASE PollOpen
  BY <1>0, <1>8, <1>d, SameOpen, LoopKept DEF PollOpen, broker, InHand
<1>9. ASSUME OpensNone, UNCHANGED process
      PROVE  OnceInv'
  BY <1>0, <1>9, <1>d, LoopKept DEF process, InHand
<1>10. ASSUME NEW i \in DOMAIN orders, NEW quantity \in 1..orders[i].left,
              BrokerFills(i, quantity)
       PROVE  OnceInv'
  <2>1. OpensNone
    BY <1>10, FillsBook, RowOpensNone DEF Executed
  <2> QED
    BY <1>9, <1>10, <2>1 DEF BrokerFills
<1>11. ASSUME NEW i \in DOMAIN orders, BrokerKills(i)
       PROVE  OnceInv'
  <2>1. OpensNone
    BY <1>11, KillsBook, RowOpensNone DEF AfterKill
  <2> QED
    BY <1>9, <1>11, <2>1 DEF BrokerKills
<1>12. ASSUME NEW s \in Symbols, NEW price \in Prices, PriceMoves(s, price)
       PROVE  OnceInv'
  BY <1>9, <1>12, SameOpen DEF PriceMoves
<1> QED
  BY <1>1, <1>2, <1>3, <1>4, <1>5, <1>6, <1>7, <1>8, <1>10, <1>11, <1>12, Steps
  DEF OtherStep, BrokerStep

LEMMA OneOpenCounts ==
  ASSUME OneOpen
  PROVE  NeverStacks
<1> SUFFICES ASSUME NEW s \in Symbols
             PROVE  Cardinality(OpenOrders(s)) <= 1
  BY DEF NeverStacks
<1>1. CASE OpenOrders(s) = {}
  BY <1>1, FS_EmptySet
<1>2. CASE OpenOrders(s) # {}
  <2>1. PICK i : OpenOrders(s) = {i}
    BY <1>2 DEF OneOpen
  <2>2. Cardinality({i}) = 1
    BY FS_Singleton
  <2> QED
    BY <2>1, <2>2
<1> QED
  BY <1>1, <1>2

\* However its passes are cut short and repeated, a scheduled run never leaves
\* two orders working on one symbol (symbols_with_open_orders, run_once).
THEOREM OneOrderASymbol ==
  ASSUME Modes = {"once"}
  PROVE  Spec => []NeverStacks
<1>1. TradingInv => TypeOK /\ Hand /\ mode = "once"
  BY DEF TradingInv, Hand, TypeOK, LoopTypeOK
<1>2. Init => OnceInv
  <2> SUFFICES ASSUME Init PROVE OnceInv
    OBVIOUS
  <2>1. mode = "once" /\ pc = "down" /\ orders = <<>>
    BY DEF Init
  <2>2. \A s \in Symbols : OpenOrders(s) = {}
    <3>1. DOMAIN orders = {}
      BY <2>1
    <3> QED
      BY <3>1 DEF OpenOrders
  <2> QED
    BY <2>1, <2>2 DEF OnceInv, ToComeIsFree, OneOpen, InHand
<1>3. TradingInv /\ TradingInv' /\ OnceInv /\ [Next]_vars => OnceInv'
  <2>1. TradingInv' => mode' = "once"
    BY DEF TradingInv, TypeOK, LoopTypeOK
  <2> QED
    BY <1>1, <2>1, OnceStep
<1>4. OnceInv => NeverStacks
  BY OneOpenCounts DEF OnceInv
<1> QED
  BY <1>2, <1>3, <1>4, TradingInvariant, PTL DEF Spec
=============================================================================
