---------------------------- MODULE LiveTrading -----------------------------
(***************************************************************************)
(* Trading at a broker: run, run_once and reconcile of src/live.cpp, the   *)
(* engines they drive, and submit and await_fill of src/alpaca.cpp.        *)
(*                                                                         *)
(* The trading thread is one process that may die at any point and be      *)
(* started again.  Everything it asks of the broker is a step of its own,  *)
(* and between two of its steps the broker fills or kills orders and       *)
(* prices move.  There is one engine per symbol, each with a portfolio of  *)
(* its own, and one risk layer for all of them.                            *)
(*                                                                         *)
(* What brings the bars is LiveSession's matter: here a bar of any symbol  *)
(* may come at any time of a session, as a close and the weight that the   *)
(* strategy answers it with; a halt by feed errors is LiveSession's too.    *)
(* Average cost is left out: no decision reads it.                         *)
(***************************************************************************)
EXTENDS Engine, Sequences

CONSTANTS Prices, Weights, StartingCash,
          Modes,       \* the ways the process is run: "live", "once"
          DryRuns,     \* whether --dry-run may be given, and left out
          MaxPolls,    \* how often await_fill asks before it gives up
          MaxOrders    \* bound: orders ever accepted by the broker

ASSUME TradingAssumption ==
    /\ Prices \subseteq Nat \ {0}
    /\ Weights \subseteq Int
    /\ StartingCash \in Nat
    /\ Modes \subseteq {"live", "once"}
    /\ DryRuns \subseteq BOOLEAN
    /\ MaxPolls \in Nat \ {0}
    /\ MaxOrders \in Nat

VARIABLES
    \* the broker's account
    cash, shares,
    orders,     \* accepted orders, oldest first: what is left to fill, and
                \* (history) how much was filled that no process has booked
    quote,      \* what each symbol trades at
    \* the process
    pc,         \* what it does next
    mode, dry,  \* how it was started
    held,       \* each engine's position
    risk,
    todo,       \* run_once: symbols its loop has not reached
    working,    \* run_once: symbols_with_open_orders()
    order,      \* the order being sent
    polls,      \* await_fill: how often the broker has been asked
    ended,      \* why the last process ended
    top         \* history: the account's highest equity this process has read

broker == <<cash, shares, orders, quote>>
process == <<pc, mode, dry, held, risk, todo, working, order, polls, ended, top>>
vars == <<broker, process>>

Statuses == {"open", "filled", "dead"}

NoOrder == [symbol |-> "none", side |-> "Buy", quantity |-> 0]

Flat == [s \in Symbols |-> 0]

Init ==
    /\ cash = StartingCash
    /\ shares = Flat
    /\ orders = <<>>
    /\ quote \in [Symbols -> Prices]
    /\ pc = "down"
    /\ mode \in Modes
    /\ dry = FALSE
    /\ held = Flat
    /\ risk = FreshRisk
    /\ todo = {}
    /\ working = {}
    /\ order = NoOrder
    /\ polls = 0
    /\ ended = "not started"
    /\ top = 0

-----------------------------------------------------------------------------
(* The broker *)

AccountEquity == cash + Total([s \in Symbols |-> Notional(quote[s], shares[s])], Symbols)

OpenOrders(s) == {i \in DOMAIN orders : orders[i].symbol = s /\ orders[i].status = "open"}

\* Some or all of what is left of an open order is executed.
Executed(o, quantity) ==
    [symbol |-> o.symbol, side |-> o.side,
     left |-> o.left - quantity, unbooked |-> o.unbooked + quantity,
     status |-> IF quantity = o.left THEN "filled" ELSE o.status]

\* The account is never short: no more is sold than it holds.
BrokerFills(i, quantity) ==
    LET s == orders[i].symbol
        value == Notional(quote[s], quantity)
    IN  /\ orders[i].status = "open"
        /\ quantity <= orders[i].left
        /\ \/ /\ orders[i].side = "Buy" /\ value <= cash
              /\ cash' = cash - value
              /\ shares' = [shares EXCEPT ![s] = @ + quantity]
           \/ /\ orders[i].side = "Sell" /\ quantity <= shares[s]
              /\ cash' = cash + value
              /\ shares' = [shares EXCEPT ![s] = @ - quantity]
        /\ orders' = [orders EXCEPT ![i] = Executed(@, quantity)]
        /\ UNCHANGED <<quote, process>>

\* Rejected, canceled or, at the end of the day, expired.
Killed(o) == [o EXCEPT !.status = "dead"]

BrokerKills(i) ==
    /\ orders[i].status = "open"
    /\ orders' = [orders EXCEPT ![i] = Killed(@)]
    /\ UNCHANGED <<cash, shares, quote, process>>

PriceMoves(s, price) ==
    /\ price # quote[s]
    /\ quote' = [quote EXCEPT ![s] = price]
    /\ UNCHANGED <<cash, shares, orders, process>>

-----------------------------------------------------------------------------
(* Starting and ending *)

\* The process is gone, and its memory with it.
End(why) ==
    /\ pc' = "down"
    /\ ended' = why
    /\ held' = Flat
    /\ risk' = FreshRisk
    /\ todo' = {}
    /\ working' = {}
    /\ order' = NoOrder
    /\ polls' = 0
    /\ top' = 0
    /\ dry' = FALSE
    /\ UNCHANGED mode

\* The constructor, and account(), whose answer is only printed.
Start ==
    /\ pc = "down"
    /\ pc' = "reconciling"
    /\ mode' \in Modes
    /\ dry' \in DryRuns
    /\ ended' = "running"
    /\ UNCHANGED <<broker, held, risk, todo, working, order, polls, top>>

\* Fault: a restart takes the book for flat.
AdoptNothing == held' = held

\* positions(), and adopt for every symbol that has an engine: a position that is not
\* long is left out of the book, which is empty until then.
AdoptPositions == held' = [s \in Symbols |-> IF shares[s] <= 0 THEN 0 ELSE shares[s]]

Booking(o) == [o EXCEPT !.unbooked = 0]

Reconcile ==
    /\ pc = "reconciling"
    /\ AdoptPositions
    /\ orders' = [i \in DOMAIN orders |-> Booking(orders[i])]
    /\ pc' = IF mode = "once" THEN "reading orders" ELSE "between sessions"
    /\ UNCHANGED <<cash, shares, quote, mode, dry, risk, todo, working, order, polls, ended, top>>

\* Fault: open orders are not asked for.
ReadNoOrders == working' = {}

ReadOpenOrders == working' = {s \in Symbols : OpenOrders(s) # {}}

ReadOrders ==
    /\ pc = "reading orders"
    /\ ReadOpenOrders
    /\ todo' = Symbols
    /\ pc' = "idle"
    /\ UNCHANGED <<broker, mode, dry, held, risk, order, polls, ended, top>>

OpenSession ==
    /\ pc = "between sessions"
    /\ pc' = "idle"
    /\ UNCHANGED <<broker, mode, dry, held, risk, todo, working, order, polls, ended, top>>

\* The bell, or a halt, after which run returns.
CloseSession ==
    /\ pc = "idle"
    /\ mode = "live"
    /\ IF risk.halted
       THEN End("halted")
       ELSE pc' = "between sessions"
            /\ UNCHANGED <<mode, dry, held, risk, todo, working, order, polls, ended, top>>
    /\ UNCHANGED broker

Stop ==
    /\ pc = "between sessions"
    /\ End("stopped")
    /\ UNCHANGED broker

PassOver ==
    /\ pc = "idle"
    /\ mode = "once"
    /\ todo = {}
    /\ End("finished")
    /\ UNCHANGED broker

Crash ==
    /\ pc # "down"
    /\ End("crashed")
    /\ UNCHANGED broker

\* An Error leaves on_bar: run_once goes on with the next symbol, run does not.
Throw(why) ==
    IF mode = "once"
    THEN /\ pc' = "idle"
         /\ order' = NoOrder
         /\ polls' = 0
         /\ UNCHANGED <<mode, dry, held, risk, todo, working, ended, top>>
    ELSE End(why)

\* A call that starts the process or a session fails.
StartFails ==
    /\ pc \in {"reconciling", "reading orders", "between sessions"}
    /\ End("error")
    /\ UNCHANGED broker

-----------------------------------------------------------------------------
(* on_bar *)

\* The engine of s as Risk::allow and Portfolio see it.
PortfolioOf(s) ==
    [positions |-> [t \in Symbols |->
                       IF t = s THEN [quantity |-> held[s], avg_price |-> 0] ELSE NoPosition],
     realized |-> 0]

Turn(s) ==
    /\ pc = "idle"
    /\ mode = "live" \/ s \in todo

Done(s) == todo' = todo \ {s}

\* run_once: the symbol has an order working, or no bars.
Skip(s) ==
    /\ Turn(s)
    /\ mode = "once"
    /\ Done(s)
    /\ UNCHANGED <<broker, pc, mode, dry, held, risk, working, order, polls, ended, top>>

\* Fault: a later bar that looks better lifts the halt.
ForgetHalt(s, close) ==
    ObserveEquity([risk EXCEPT !.halted = FALSE], cash + Notional(close, held[s]))

\* The equity an engine watches is all the cash and its own position.
Observe(s, close) == ObserveEquity(risk, cash + Notional(close, held[s]))

\* account(), and everything on_bar does up to the order.
Decide(s, close, weight) ==
    LET desired == Shares(weight, close, AccountEquity)
        next == OrderFor(s, held[s], desired)
    IN  /\ Turn(s)
        /\ s \notin working
        /\ mode = "live" => ~risk.halted       \* the session loop ends on a halt
        /\ risk' = Observe(s, close)
        /\ top' = Larger(top, AccountEquity)
        /\ Done(s)
        /\ IF /\ ~risk'.halted
              /\ WantsTrade(held[s], desired)
              /\ Allow(risk', next, PortfolioOf(s), close, cash)
           THEN order' = next /\ pc' = "submitting"
           ELSE UNCHANGED <<order, pc>>
        /\ UNCHANGED <<broker, mode, dry, held, working, polls, ended>>

\* history() or account() fails: nothing of on_bar has happened yet.
DecideFails(s) ==
    /\ Turn(s)
    /\ s \notin working
    /\ mode = "live" => ~risk.halted
    /\ IF mode = "live" THEN End("error")
       ELSE Done(s) /\ UNCHANGED <<pc, mode, dry, held, risk, working, order, polls, ended, top>>
    /\ UNCHANGED broker

-----------------------------------------------------------------------------
(* submit and await_fill *)

Accepted ==
    [symbol |-> order.symbol, side |-> order.side, left |-> order.quantity,
     unbooked |-> 0, status |-> "open"]

BrokerAccepts ==
    /\ Len(orders) < MaxOrders
    /\ orders' = Append(orders, Accepted)
    /\ UNCHANGED <<cash, shares, quote>>

Submit ==
    /\ pc = "submitting"
    /\ ~dry
    /\ BrokerAccepts
    /\ pc' = "awaiting"
    /\ UNCHANGED <<mode, dry, held, risk, todo, working, order, polls, ended, top>>

SubmitRefused ==
    /\ pc = "submitting"
    /\ ~dry
    /\ Throw("rejection")
    /\ UNCHANGED broker

\* The call fails on its way out, or its answer on the way back.
SubmitFails ==
    /\ pc = "submitting"
    /\ ~dry
    /\ Throw("error")
    /\ BrokerAccepts \/ UNCHANGED broker

\* The order await_fill asks after.
Awaited == Len(orders)

OnBarReturns ==
    /\ pc' = "idle"
    /\ order' = NoOrder
    /\ polls' = 0
    /\ UNCHANGED <<mode, dry, risk, todo, working, ended, top>>

HeldAfter(fill) ==
    [held EXCEPT ![fill.symbol] = Quantity(Apply(PortfolioOf(fill.symbol), fill), fill.symbol)]

PollFilled ==
    /\ pc = "awaiting"
    /\ orders[Awaited].status = "filled"
    /\ held' = HeldAfter(FillOf(order, quote[order.symbol]))
    /\ orders' = [orders EXCEPT ![Awaited] = Booking(@)]
    /\ OnBarReturns
    /\ UNCHANGED <<cash, shares, quote>>

PollDead ==
    /\ pc = "awaiting"
    /\ orders[Awaited].status = "dead"
    /\ Throw("rejection")
    /\ UNCHANGED broker

\* Fault: one poll too many.
MorePollsOffByOne == polls < MaxPolls

MorePolls == polls + 1 < MaxPolls

\* Fault: asks until the order is settled.
AskOn == polls' = polls

CountPoll == polls' = polls + 1

PollOpen ==
    /\ pc = "awaiting"
    /\ orders[Awaited].status = "open"
    /\ MorePolls
    /\ CountPoll
    /\ UNCHANGED <<broker, pc, mode, dry, held, risk, todo, working, order, ended, top>>

\* Fault: an order that was accepted is booked as if it had filled.
BookAnyway == held' = HeldAfter(FillOf(order, quote[order.symbol]))

\* A fill of zero: the engine journals the attempt and books nothing.
BookNothing == held' = held

GiveUp ==
    /\ pc = "awaiting"
    /\ orders[Awaited].status = "open"
    /\ ~MorePolls
    /\ BookNothing
    /\ OnBarReturns
    /\ UNCHANGED broker

PollFails ==
    /\ pc = "awaiting"
    /\ Throw("error")
    /\ UNCHANGED broker

\* DryRunVenue::submit: nothing is sent, and a fill of zero is returned.
Withhold ==
    /\ pc = "submitting"
    /\ dry
    /\ BookNothing
    /\ OnBarReturns
    /\ UNCHANGED broker

-----------------------------------------------------------------------------
OnBar(s) ==
    \/ Skip(s)
    \/ \E close \in Prices, weight \in Weights : Decide(s, close, weight)

AwaitFill == PollFilled \/ PollDead \/ PollOpen \/ GiveUp

\* What the process does next when the broker answers.
ProcessStep ==
    \/ Reconcile \/ ReadOrders \/ PassOver
    \/ OpenSession \/ CloseSession \/ Stop
    \/ \E s \in Symbols : OnBar(s)
    \/ Submit \/ SubmitRefused \/ Withhold
    \/ AwaitFill

CallFails ==
    \/ StartFails
    \/ \E s \in Symbols : DecideFails(s)
    \/ SubmitFails
    \/ PollFails

BrokerStep ==
    \/ \E i \in DOMAIN orders :
           \/ \E quantity \in 1 .. orders[i].left : BrokerFills(i, quantity)
           \/ BrokerKills(i)
    \/ \E s \in Symbols, price \in Prices : PriceMoves(s, price)

Next == Start \/ ProcessStep \/ CallFails \/ Crash \/ BrokerStep

Spec == Init /\ [][Next]_vars

\* A process that is up keeps going: its calls return (http.cpp sets a time
\* limit).  That they fail, that it dies, is started again, or that the broker
\* does anything with an order is never assumed.
FairSpec == Spec /\ WF_vars(ProcessStep)

-----------------------------------------------------------------------------
(* Properties *)

Order == [symbol : Symbols, side : {"Buy", "Sell"}, quantity : Nat]

Sent == [symbol : Symbols, side : {"Buy", "Sell"}, left : Nat, unbooked : Nat,
         status : Statuses]

BrokerTypeOK ==
    /\ cash \in Nat
    /\ shares \in [Symbols -> Nat]
    /\ orders \in Seq(Sent)
    /\ quote \in [Symbols -> Prices]

EngineTypeOK ==
    /\ held \in [Symbols -> Nat]
    /\ risk \in [halted : BOOLEAN, seen_equity : BOOLEAN, peak_equity : Int]
    /\ order \in Order \cup {NoOrder}
    /\ top \in Int

LoopTypeOK ==
    /\ pc \in {"down", "reconciling", "reading orders", "between sessions",
               "idle", "submitting", "awaiting"}
    /\ mode \in Modes
    /\ dry \in BOOLEAN
    /\ todo \subseteq Symbols
    /\ working \subseteq Symbols
    /\ polls \in 0 .. MaxPolls - 1
    /\ ended \in {"not started", "running", "finished", "stopped", "halted",
                  "error", "rejection", "crashed"}

TypeOK == BrokerTypeOK /\ EngineTypeOK /\ LoopTypeOK

Unbooked(s, side) ==
    Total([i \in DOMAIN orders |-> orders[i].unbooked],
          {i \in DOMAIN orders : orders[i].symbol = s /\ orders[i].side = side})

Reconciled == pc \notin {"down", "reconciling"}

\* What the engines think is held differs from the account by exactly the
\* executions no answer told the process about: those of orders given up on,
\* lost on the way or left behind by an earlier process, in part or whole,
\* whatever the order of fills, polls, crashes and restarts (reconcile, adopt,
\* await_fill's zero fill).
BeliefExplained ==
    Reconciled => \A s \in Symbols :
        shares[s] = held[s] + Unbooked(s, "Buy") - Unbooked(s, "Sell")

\* No two orders on one symbol work at the broker at once: the scheduled run
\* leaves alone a symbol whose order an earlier run, or a lost answer, left
\* working (symbols_with_open_orders in run_once).
NeverStacks == \A s \in Symbols : Cardinality(OpenOrders(s)) <= 1

\* From the moment the drawdown limit trips, whichever engine's bar tripped
\* it, the process sends no order for any symbol, and nothing but its end
\* lifts the halt (the one Risk all engines share, Engine::on_bar).
HaltStopsOrders ==
    [][risk.halted => /\ Len(orders') = Len(orders)
                      /\ risk'.halted \/ pc' = "down"]_vars

\* A scheduled run comes to an end whatever the broker does with its orders, and not by
\* a refused one: run_once catches it and goes on with the next symbol (live.cpp:211).
OnceFinishes == pc # "down" ~> pc = "down" /\ ended # "rejection"

\* live.cpp:109: "Anything held at the start of a session is adopted, so a
\* restart does not mistake a position for a flat book and buy it a second
\* time": an engine that opens a position has none in the account.
NotBoughtTwice ==
    pc = "submitting" /\ order.side = "Buy" /\ held[order.symbol] = 0
        => shares[order.symbol] = 0

\* README.md:62: "At each session start it reads the account's real positions
\* and adopts them".
SessionsStartFromTheBroker ==
    [][pc = "between sessions" /\ pc' = "idle" => held' = shares]_vars

\* README.md:156: Risk::allow "caps how many names can be open at once".
WithinSlots == Cardinality({s \in Symbols : held[s] > 0}) <= MaxPositions

\* README.md:157: "A drawdown past the limit trips a halt": the account has
\* lost that much since the highest equity this process has read.
HaltsOnlyOnLoss ==
    [][~risk.halted /\ risk'.halted => TooDeep(top, AccountEquity)]_vars

\* errors.hpp:29: "skip one order on an OrderRejected": a refused order does
\* not end the process.
RejectionSkipsOneOrder == ended # "rejection"
=============================================================================
