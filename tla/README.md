# QuantIQ in TLA+

Specifications of the trading program in this repository, checked with TLC and,
for the parts where a proof is worth having, proved with TLAPS.  The modules are
written from the source; `PROJECT.json` maps each definition to the lines it
models.

    tlc -workers 2 -config MCReplay.cfg MCReplay       # a run
    tlapm ReplayProofs.tla                              # the proofs of a module

## The system

| Component | State | Operations | Talks to |
|---|---|---|---|
| Engine (`engine.cpp`) | marks, portfolio, counters | `run`, `on_bar`, `adopt` | venue, strategy, sizer, risk, journal |
| MockVenue (`mock_venue.cpp`) | bars and cursor, cash, holdings | `next_bar`, `submit`, `account` | engine |
| Portfolio (`portfolio.cpp`) | positions at average cost, realised profit | `apply`, `find`, `holds`, `market_value` | engine, risk |
| Risk (`risk.cpp`) | halted flag, equity peak | `allow`, `observe_equity`, `halt` | engine, session |
| Sizer (`sizer.cpp`) | the fraction | `shares` | engine |
| Journal (`journal.cpp`) | an append-only file | `mark`, `fill`, `rejected`, `session`, `flush` | engine, report |
| Report (`report.cpp`) | open lots, running profit, peak | `walk`, `compute_metrics` | journal |
| Strategies (`strategies.cpp`, `ringbuffer.hpp`) | rolling windows, holding flag | `on_bar` | engine |
| BoundedQueue (`queue.hpp`) | items, closed flag, two condition variables | `push`, `pop`, `close` | feed, session |
| PollingFeed (`feed.cpp`) | last bar seen per symbol, stop flag, a thread | `run`, `stop` | broker, queue |
| LiveTrader (`live.cpp`) | engines, risk, journal, the stop flag | `run`, `trade_session`, `run_once`, `reconcile` | all of them |
| AlpacaVenue (`alpaca.cpp`, `http.cpp`) | none of its own; the broker's account | `account`, `clock`, `positions`, `history`, `submit`, `await_fill` | network |
| DryRunVenue (`dry_run.cpp`) | a counter | `submit` | engine |
| fetch-bars (`fetch_bars.cpp`), a program of its own | the bar file | downloads it | replay, by way of the file |
| CLI, dashboard | none | `replay`, `live`, `once`; `write_dashboard` | journal |

There are three ways through the program.  **Replay** is one thread: the engine
takes bars from a file, asks the strategy for a target weight, trades the
difference at a simulated venue and writes a journal; the report reads the
journal back.  **Live** is two threads and a signal handler around a blocking
queue: the feed polls and pushes, the trader pops and lets the engines decide, and
a loop around both follows the market clock.  **Once** is one pass for a scheduled
job.

What is hard here:

* in replay, long sequences of legal steps: two sets of books kept by different
  code, integer rounding, matching of lots, a drawdown that must trip on time;
* in the queue, wakeups: notifications after the unlock, spurious wakeups, closing;
* in a live session, everything that should end a wait, and state that outlives or
  does not outlive a session;
* at the broker, orders that fill late, in parts or not at all, calls that fail, and restarts;
* in the files, what a buffered stream has delivered when another program reads it, or when
  its own dies in the middle of a line;
* in the strategies, flags that carry over from bar to bar, windows across the seam of a ring, and a
  process that has to find out anew what the last one knew.

`PROJECT.json` lists the hazards one by one, with the properties that cover them or
the reason why none does yet.

What makes each component correct, in one line: *engine and venue* never disagree
and never spend what is not there; *risk* halts at the first mark too far under
the peak and then for good, and keeps to the slots; *report* accounts for every
tick, and finds in its lots what the account holds, whatever became of the processes that wrote
the journal; *queue* is a bounded channel that forgets no sleeper; *feed* delivers a day's
bar once and loses none; *session* ends on stop, halt, bell and a dead feed and takes
its thread with it; *live trading* believes what the account says but for executions nobody
reported, and a scheduled run never orders beside a working order; *strategies* answer as
the bars call for, before and after a restart; *bar file*: what a replay accepts are the quotes.

## The modules

### Replay

    Types  -> Sizer -----------> Engine ---> Replay ---> MCReplay
           -> Portfolio -> Risk --^            |   \---> ReplayProofs
           -> Report -> Metrics ---------------^            ^
                                             Ledger         |
                                          (abstract)        |
    Portfolio, Metrics -> CommonTheorems -------------------/

`Types`, `Sizer`, `Portfolio`, `Risk`, `Engine` and `Report` hold the data and the
pure operations of the classes of those names, `Metrics` the figures of `compute_metrics`
that are counts, sums and ratios of sums, the ratios as pairs that are compared exactly; `walk` is a fold over
the journal's events (`WalkEvent`); `Replay` holds the state of
`Engine::run` with a `MockVenue` behind it.

| Variable | Code |
|---|---|
| `phase` | running, returned, or left by `InsufficientFunds` |
| `bars` | `stats_.bars`; the other counters count journal events |
| `cash`, `holdings` | `MockVenue::cash_`, `holdings_` |
| `folio` | `Engine::portfolio_` |
| `marks` | `Engine::marks_` |
| `risk` | `Risk::halted_`, `seen_equity_`, `peak_equity_` |
| `journal` | the lines of the journal file, as records |

One action is one bar, taken through the whole of `on_bar`: the mark, the drawdown,
the target, the band, `Risk::allow`, the venue, the portfolio, the journal.  The four
`OnBar` actions are its four ways out; `OnBarSubmitted` also covers the exception the
venue may throw.  The strategy is any choice of weights, the bar file any choice of
symbols and closes.

Money is in ticks, as in the code.  Weight, fraction, band and drawdown limit are
doubles in the code and exact fractions here: rounding of doubles is not modelled,
rounding to whole shares and whole ticks is.  The bar files the program is used with
hold one symbol; the format has a symbol column and the engine keeps books by symbol,
so the model has several.  With several, `MockVenue::account` leaves out the
value of the other symbols (`AccountEquity` does the same).

`Ledger` is what a replay promises: "an account somebody could have held"
(`mock_venue.cpp`).

### The files

    Types, Report -> JournalFile -> MCJournalFile              BarFile
                          |
                          \-------> JournalFileProofs <- CommonTheorems

`JournalFile` is the journal of live and scheduled processes, one after the other, as it lies on
disk.  A line goes into the process's stream; it reaches the file when it is flushed, when the stream
is full (then up to anywhere in a line), or when the process ends in order.  A process that dies takes
the stream with it and may leave part of a line, to which the next one, which opens the file to
append, glues its first; `walk` discards the two together.  Each process may be started with another
configuration, checked as `LiveConfig::from_file` and the registry do, and adopts what the account
holds.  Trading itself is any trading an engine can do; orders that are executed after they were
given up on, and trades made by hand (`trader --test-order`), are `Unjournalled`.

| Variable | Code |
|---|---|
| `disk`, `stump` | the file: whole lines, and whether part of one ends it |
| `buffer`, `torn` | `Journal::out_`: the lines not on disk as a whole; whether part of the first is |
| `pc` | the place in `Engine::on_bar` or `once` |
| `owner` | `LiveTrader::strategies_`, by the strategy's name |
| `held`, `order` | the engines' `portfolio_`, the order being booked |
| `shares` | the broker's account |
| `mine`, `loose` | history: what this process wrote; symbols the journal cannot know |

`BarFile` is the file between fetch-bars and a replay: rows are printed into a stream while the answer
is read, a null in it or a short list of closes ends the program in the middle, and it may be killed.
A row is its close; `Printed` is what six significant digits leave of a double, in ticks.

| Variable | Code |
|---|---|
| `exists`, `rows`, `stump` | the file: its whole rows and the part of one behind them |
| `buffer` | `out` |
| `pc` | whether fetch-bars runs |
| `quoted`, `complete` | history: the closes it has come to, whether to the last |

### The queue

`BoundedQueue` models each call as its critical sections: a test of the predicate with
what follows under the mutex is one action, the notification after the unlock another.
A condition variable is the set of threads waiting on it.  `Channel` is what the queue
promises its callers; `BoundedQueueProofs` has the proofs.

### The live session

`LiveSession` (with `LiveSessionProofs`) composes the trading thread (`run`, `trade_session`), the feed thread,
the interrupt, the clock and the broker.  The queue between the threads is the channel
that `BoundedQueue` implements; only `push` and `pop` are used, since no code closes it.

| Variable | Code |
|---|---|
| `trader`, `feed` | the program counters of the two threads |
| `errors`, `msg` | `consecutive_errors`, `message` |
| `bell` | `clock.next_close` or `clock.next_open`, whichever is waited for |
| `halted` | `Risk::halted_` and the kind of its reason |
| `feedStop`, `at`, `seen`, `pending` | `stop_`, the place in the sweep, `last_seen_`, the argument of `push` |
| `queue` | the queue's contents |
| `stop` | `stop_flag()` |
| `now`, `up` | the wall clock in bells; whether the broker answers |
| `decided`, `failing` | history: last bar each engine was given; failed polls in a row |

`on_bar` is here an outcome: it returns, it halts the risk layer, it throws an `Error`
(the session unwinds through `~PollingFeed`) or something else (nothing catches it).
A `SessionOpen` or `SessionClose` is never pushed by any code, so the branches that
handle them are left out.

### Trading at a broker

    Engine (with Sizer, Portfolio, Risk) ---> LiveTrading ---> MCLiveTrading
       \--> CommonTheorems ---------------------------\------> LiveTradingProofs

`LiveTrading` takes up what `LiveSession` leaves open: what the engines do to the account.
One process runs `run` or `run_once`; every call it makes to the broker is a step, and
between two of them the broker fills orders in parts, kills them, or prices move.  Calls
fail with or without having reached the broker, the process dies anywhere and is started
again.  There is an engine for each symbol and one `Risk` for all.  The decision itself
is the `Engine`, `Sizer`, `Portfolio` and `Risk` of the replay.

| Variable | Code |
|---|---|
| `cash`, `shares`, `orders`, `quote` | the broker's account, its orders, the market |
| `pc`, `mode`, `dry` | the place in `run`, `run_once`, `on_bar`, `submit`, `await_fill` |
| `held` | each engine's `portfolio_`, its quantities (no decision reads the average cost) |
| `risk` | the `Risk` the engines share |
| `todo`, `working` | the loop of `run_once`, the answer of `symbols_with_open_orders` |
| `order`, `polls` | the order being sent, `attempt` in `await_fill` |
| `ended`, `top`, `unbooked` in `orders` | history |

A bar is any close and any weight at any time: what brings it is `LiveSession`'s matter, what
answers it the strategies'.  A process that is started as a dry run (`dry`) has each order answered with
a fill of zero by `DryRunVenue`, on the same account as the real ones (`Withhold`).  Feed errors, which halt the risk layer too, are in `LiveSession`.

### The strategies

    RingBuffer -> Strategies ---> Restart ------> MCRestart
                            |          \--------> RestartProofs <- CommonTheorems
                            \---> ScheduledRun -> MCScheduledRun
                                       \--------> ScheduledRunProofs

`RingBuffer` is the array with its head and size, `Strategies` the four `on_bar`
functions, instances being records of the classes' members.  Prices are integers and
nothing is divided: means, deviations and ratios are compared by cross-multiplication, so
the rounding of doubles is not modelled.  `z_entry`, `z_exit` and `threshold` are any numbers, as
in the constructors; a z-score and a limit are compared by their signed squares (`SignedSquare`).

`Restart` puts an instance that has seen every bar (`steady`) beside the one of the process
that was started last (`fresh`), as `run` starts it: without history, its first bar being the
feed's first message, which may be a bar the old process has seen.  `seen` and `since` are
history.

`ScheduledRun` is what `run_once` decides on: the broker's bars of ended days (`bars`), its
bar of today (`today`), the broker's clock (`is_open`), what a run was told of it (`clock`), and the last
run's decision (`run`) beside what an uninterrupted process (`steady`) would do.  The code asks for the clock
once a run and for the bars of a symbol when the loop comes to it, after the orders of the symbols before it
and the waits for them.  So a run is two actions: `ReadClock`, and later `Decide`, or `PassOver` when the loop
has no decision for the symbol; between them the market may open, trade, close and open again.  The model
follows one symbol, and one process at a time.

## The runs

| Run | Instance | Shows |
|---|---|---|
| `replay` | 3 symbols (symmetric), 2 slots, up to 4 bars | books, payments, slots, drawdown, report and its figures, rounding, settling, refinement of `Ledger` |
| `queue` | 2 producers, 2 consumers, 1 closer, 2 places, 2 values | no lost wakeup, sleepers are served, close frees everyone, refinement of `Channel` |
| `session` | 2 symbols, 1 place, 2 errors halt, 2 bells | the session's safety, that errors, stop and halt get through, and that the opening is not slept through |
| `trading` | 3 symbols (symmetric), 2 prices, 2 orders, 2 polls, both modes | what the engines believe, and that a halt is final |
| `once` | as `trading`, 2 symbols, scheduled runs only, dry or not, fair | no stacked orders, runs end and not by a refused order, a dry run changes no belief |
| `restart` | a ring of 4, windows of 2 and 3, 4 bars, 6 of them in sequence | rings are windows, targets follow the bars, agreement lasts |
| `scheduled` | as `restart`, 3 bars, 5 days | one decision between two closes by runs in time, exact warm-up |
| `journal` | 1 symbol, 2 strategies, 5 configurations, 6 lines, 2 shares | the report's lots are the account, the reader sees the run |
| `bars` | 4 closes, 1 digit, 4 rows | what a replay accepts are quotes |
| three more | instances of the same size | one disagreement each, below |

*Bounds.*  Three symbols and two slots let a third name be refused and let a slot be
freed and taken again.  Four bars reach buy, add, reduce and close in one symbol, or
two lots closed by one sale, or a peak, a fall and a recovery.  In the queue, two
threads a side are the least for a stolen wakeup, and two places with two producers the
least for a push that must wait while another wakeup is under way; the proofs cover
every number.  In a session, one place and two symbols fill the queue within a sweep
(the code has 256 places), two errors make a run, and two bells (`MaxTime`) give a
session, its night and the session after it, or a night first.  In `trading`, an engine
that sets the peak, one that halts and one that comes after the halt are three symbols; two
orders (`MaxOrders`, counted over all processes) let one be left behind and a second meet
it; orders of one to three shares fill in parts; two polls (`MaxPolls`, 20 in the code) are
one that goes on and one that gives up.  Two symbols are enough for what concerns one
engine's orders.  The ring of four (256 in the code) is wrapped by the fifth bar under windows
of three, and six bars let a restarted instance enter and leave a position; as in the code
the ring is longer than any window (`StrategiesAssumption`).  In `scheduled`, `Warmup` (250 in
the code; more than one, or a run on a day that has traded would act on today's bar) covers all days, and
in `ScheduledRun_Rebuilds.cfg` all but one.  In `journal`, six lines (`MaxLines`, in file and stream) hold
a purchase, its sale and what a crash between them left, or two processes with a restart's line between;
two shares (`MaxShares`) are bought and sold apart or together, so that a sale closes two lots or half of
one; a symbol goes from one strategy to the other and to nobody, and two configurations are refused (one that
names an unknown strategy and gives it no symbols is not: the registry is asked symbol by symbol).
Each symbol is executed off the record at most once (`Unjournalled`).  One symbol is enough, as nothing
in the file relates two.  In `bars`, one digit is printed (six in the code) of closes of one and two, of
which two are kept, one is rounded down and one up, and four rows (`MaxRows`) are two on disk, one in
the stream and one cut.  Only `once` has dry runs.

*Deadlock* is checked in the runs of `LiveTrading`, whose process can always be started again.
It is checked in `journal` and `bars` as well, for the same reason.  It is not checked elsewhere: a replay ends, all threads of a closed queue may be done, a
session stops, halts or fails, and the strategies run out of bars.

*Fairness.*  In the queue, a thread inside a call is scheduled and gets the mutex in the
end (weak fairness of each thread's steps); nobody has to start a call and no spurious
wakeup has to come.  In the session, weak fairness of each of the two threads; a poll
returns because the HTTP client times out after 30 seconds.  The interrupt, the clock,
the broker and spurious wakeups have none, so nothing that is shown relies on the next
bell ringing or the broker coming back.  In `once`, weak fairness of the process's next step, for
the same timeout; failures, crashes, restarts and anything the broker does with an order are
never assumed.

Each property comes with a fault (the operators under a comment "Fault") that breaks it
in the same run: `PROJECT.json`, "mutants".

### The properties of each run

Type invariants are checked of the replay, the queue, the session, the trading and the rings.

* `replay`: `BooksAgree`, `NeverThrows`, `WithinSlots`; `DrawdownRule`, the halt told
  from the drawdown the report prints; `MetricsTellTheRun`, the report's return, days invested, and
  wins and losses are those of the run itself; `ReportConserves`, first-in first-out profit plus the cost of
  open lots is what the account gained, to the tick; `RoundingStaysSmall`, what average
  cost misplaces per purchase; `FillSettles`, the same bar asks for nothing after its
  fill; `ImplementsLedger`.
* `queue`: `ConsumersNotForgotten` and `ProducersNotForgotten` count the wakeups under
  way against what sleepers could take; `CloseReachesEveryone`, `CloseFrees`;
  `SleepersAreServed`, liveness of both sides; `ImplementsChannel`.
* `session`: `FeedOnlyInSession`, `NewsOnceASession`, `NothingDropped`,
  `DeadFeedEndsSession`, `LeavesBusyLoop`; `OpeningIsNotSleptThrough`, the sleeper is up when the bell
  has rung; `UnblockedFeedIsJoined`, what is left of the join when the feed is not stuck in `push`.
* `trading`: `BeliefExplained`, the account is what the engines think plus the executions no
  answer reported, through part fills, lost answers, crashes and restarts;
  `HaltStopsOrders`, across engines.
* `once`: `NeverStacks`, which rests on the open orders being read after an earlier run
  was cut short; `OnceFinishes`, with orders that never settle, and not by one that is refused; `BeliefExplained` again, through dry
  runs between real ones.
* `restart`: `RingIsWindow`; `TargetFollowsHistory`, each strategy told from the sequence of
  bars alone, without rings or flags; `AgreementLasts`, two instances that are warm and
  agree never part again.
* `scheduled`: `WarmUpIsExact`, as long as the history reaches back to the first bar;
  `TodayDoesNotCount`, the runs between one close and the next decide alike whatever today's bar does, before the
  opening and at any time of the day, if each read clock and bars in time (`InTime`).  The runs that do not are
  those of `ScheduledRun_Latest.cfg`, below.  With a history that is full (`run.days >= Warmup`) today's bar takes the
  place of the oldest, so two runs are compared only at the same stage of the day.
* `journal`: `ReportMatchesAccount`, the open lots of the file on disk are the shares in the account at
  every moment, through crashes, torn lines, restarts and changes of configuration; excepted are the
  executions no line was due for and positions that changed hands, whose lots stay with the former owner;
  `ReaderSeesRun`, the dashboard of a scheduled run is made from all its lines.
* `bars`: `ReplayTakesQuotes`, at any time of any download what `bars_from_csv` accepts are the quotes
  from the first day on, each once, to the precision printed; only the last may be cut.  A complete
  download is accepted whole.

## What the program does not keep

Three runs check what a comment or a document says and end in a counterexample.

* `stop_ends_session`: a stop while the trader waits in `pop` does not end the session until
  the feed next has a message (`live.hpp` on `stop_flag`).
* `stacks_orders`: after `await_fill` has given up, the next bar of the symbol sends a second
  order beside the one that still works (`alpaca.hpp`).
* `phantom_drawdown`: the equity an engine observes leaves out what the others hold, while the
  peak is shared.  Prices are constant in this run.

The models show more of the kind.  The configurations below are kept beside the regular runs,
and each property ends in a counterexample; they are run by hand, with one property at a time where a
configuration names several.

| Configuration | Property | What happens |
|---|---|---|
| `LiveSession_Waits` | `BellEndsSession` | the bell is not seen in `pop` either: with daily bars a session lasts until the next trading day's first bar (`live.hpp` on `run`) |
| `LiveSession_News` | `NewsOnce` | a new session's feed has an empty `last_seen_` and delivers the last session's bar again, to the same engines (comment in `feed.cpp`); with the bell, the ordinary course of a day |
| `LiveSession_Waits` | `StopWakesSleeper` | nobody notifies the condition variable of `sleep_until_or_stop`, so a stop does not cut a weekend short |
| `LiveSession_Waits` | `StoppedFeedIsJoined` | a feed that waits in `push` on a full queue is never released, and the join waits with it |
| `LiveSession_Waits` | `OnlyARunOfErrorsHalts` | a successful poll without news does not reset `consecutive_errors` |
| `LiveSession_News` | `FeedErrorsAreData` | an exception that is no `Error` (a reply that is not JSON) leaves the feed's thread and ends the process |
| `LiveTrading_Sessions` | `SessionsStartFromTheBroker` | positions are read once per process, not at each session start (README) |
| `LiveTrading_Twice` | `NotBoughtTwice` | `run_once` reads positions before open orders; an order that fills in between is in neither answer |
| `LiveTrading_Twice` | `WithinSlots` | each engine has a portfolio of its own, so `max_positions` refuses nothing in a live or scheduled run; it does in a replay |
| `LiveTrading_Rejection` | `RejectionSkipsOneOrder` | one rejected order ends a live process (`errors.hpp`) |
| `Restart_Recovers` | `RestartRecovers` | `run` starts strategies without history, and their first weight of zero closes the position that was adopted (`strategy.hpp`) |
| `ScheduledRun_Rebuilds` | `WarmUpRebuilds` | an entry older than the warm-up is forgotten (comment in `run_once`) |
| `ScheduledRun_Latest` | `ActsOnLatestCompleted` | `run_once` tells today's bar from the clock and the count, not from its date: wrong with a single bar, and before the day's first trade (`live.hpp` on `run_once`) |
| `ScheduledRun_Latest` | `PartialBarIsLeftOut` | the market opens between the one reading of the clock and the symbol's history, and the run acts on today's bar with complete ones before it (`live.hpp` on `run_once`) |
| `JournalFile_Crash` | `CrashLosesOneBar` | marks are not flushed, so a crash loses every mark since the last trade, not at most one bar (`journal.hpp`) |
| `BarFile_Malformed` | `MalformedBarsAreRefused` | a download killed in the middle of a close leaves a shorter number, which a replay takes for the price (`errors.hpp` on `DataError`) |

## The proofs

Every safety and action property of the passing runs but that of `bars` is a theorem.  A theorem holds for
all values of the constants that satisfy the assumptions of the modules it rests on, and for runs of any length.

| Module | Theorems | Assumptions |
|---|---|---|
| `ReplayProofs` | `TypeOK`, `BooksAgree`, `NeverThrows`, `WithinSlots`, `ImplementsLedger`, `ReportConserves`, `DrawdownRule`, `MetricsTellTheRun`, `RoundingStaysSmall`, `FillSettles` | `SymbolsAssumption`, `ReplayAssumption`, those of `Engine`, `Sizer`, `Risk` |
| `BoundedQueueProofs` | `TypeOK`, `ConsumersNotForgotten`, `ProducersNotForgotten`, `CloseReachesEveryone`, `ImplementsChannel` | `QueueAssumption` |
| `LiveSessionProofs` | `TypeOK`, `FeedOnlyInSession`, `NewsOnceASession`, `NothingDropped` | `SessionAssumption` |
| `LiveTradingProofs` | `TypeOK`, `BeliefExplained`, `HaltStopsOrders`, `NeverStacks` | `TradingAssumption`, `SymbolsAssumption`, those of `Engine`, `Sizer`, `Risk` |
| `RestartProofs` | `TypeOK`, `RingIsWindow`, `AgreementLasts`, `TargetFollowsHistory`, the ring's contract | `RingAssumption`, `StrategiesAssumption`, `BarsAssumption` |
| `ScheduledRunProofs` | `WarmUpIsExact`, `TodayDoesNotCount`, `LatestInTime` | `BarsAssumption` |
| `JournalFileProofs` | `ReportMatchesAccount`, `ReaderSeesRun` | `JournalAssumption`, `SymbolsAssumption` |

Four hypotheses go beyond the modules' assumptions.  `DrawdownRule` is proved of
replays that start with money over bars with a price (`StartingCash > 0`, `0 \notin Prices`): a venue starts
with 100,000 (`mock_venue.hpp`), and of an equity of zero no percentage is taken.  `NeverStacks` is proved for
`Modes = {"once"}`: it is about scheduled runs, and the run `stacks_orders` shows that live processes break it.
`ScheduledRun` assumes a warm-up of more than one bar; `live.hpp` has 250.
`TargetFollowsHistory` is proved under `EntryIsNoExit`: `z_entry` is below `z_exit`, the momentum's threshold is not
negative, and no bar's low is above its high.  The defaults and every bar of a market are so, but no code insists
on any of it.  Without it one bar can be an entry and an exit at once, and since `on_bar` asks for one of the two
only, according to what it holds, the target would no longer be told by the last of either: it would turn over
from bar to bar, which TLC shows for each of the three.

**Sums and folds.**  `CommonTheorems` holds what the proofs need of sums (`Total`) and of the
report's pass over a journal (`Walk`).  Both are folds, functions on the subsets of a set defined by taking an
element off.  The library's induction takes an operator, which the provers cannot instantiate; `SetInduction` and
`PartInduction` say the same of a set of numbers and of subsets, which they can.  With them a fold is shown to
exist and to be determined, and its laws follow: a sum changes by what one term changes (`TotalChange`), a walk
goes on from event to event (`WalkAppend`).  It then says what each event does to the lots, the
profit and the peak (`Buys`, `Sells`, `LotCostSum`), and how the deepest drawdown of a longer list of marks
follows from that of the shorter (`HighWaterAppend`, `DeepestBeyond`).

**Replay.**  The invariant of the books is `IInv == TypeOK /\ BooksAgree /\ NeverThrows /\ WithinSlots`.
The parts need each other: that holdings stay natural numbers (`TypeOK`) needs a sale
never to exceed the venue's shares, which needs `BooksAgree`, since the order was made
from the engine's position; `BooksAgree` after a sale needs the sale not to be cut short by
`Sellable`; that cash stays non-negative needs `Risk::allow` to have compared the cost with
the same cash the venue has.  `OrderFacts` says what an order is, `BuyMoves` and `SellMoves`
what `Portfolio::apply` does, `SubmittedInv` puts them together; the other actions leave
the books alone.  The refinement of `Ledger` follows from the same facts: `SubmittedLedger`
finds the number of shares traded.

The invariant of the report, `ReportInv`, joins to it that the walk over the journal is well typed, that its net
profit is the sum of its trades' profits, `ReportConserves`, that the first and the last
of the walk's marks are the run's (`MarksTellTheRun`), and that the risk layer's peak and halt are those of the marks
(`HaltTellsTheMarks`).  The last is what makes the drawdown rule inductive: the report takes the minimum over a
finished list, the risk layer compares one mark at a time with the peak so far, and does not take a halt back.

**Queue.**  The invariant is the conjunction of what the run checks.  It is inductive because
every step that could leave a sleeper beside an item also puts a wakeup under way: `Arrives`,
`Leaves` and `Stays` say how the count of threads at a place changes when one thread moves, and
`NotifyOneInv` splits on whether anybody slept.  `QueueImplementsChannel` needs only `TypeOK`.

**Session.**  `SessionInv` says where each thread may hold a message (`HeldInPlace`), that the feed thread lasts from
the start of a session to its join (`FeedInPlace`), that a message is popped only before a halt and that the limit of
errors halts (`ErrorsHalt`), and that a session leaves through its bell unless it was stopped or halted (`BellsPass`):
so what an engine decided in the last session carries an older bell.  `FlightInv` is about what is on its way, in
the trader's hand, the queue and the argument of `push` taken as one sequence: the bars of a symbol are in the order
of their days, each was seen and is news to its engine, and a day that was seen is on its way or decided.
`NewsOnceASession` and `NothingDropped` follow from it, and neither is inductive without the order.

**Trading.**  `TradingInv` is `TypeOK`, `BeliefExplained` and what the process may have in hand: a sale is of shares
the engine has (`OrderInHand`); the order that is waited for is the broker's newest, and what has been executed of it
and what has not are together what was asked for (`AwaitedIsInHand`), so that an answer books exactly what nobody
has booked; and a halted risk layer has let none through (`NoOrderInHalt`), which makes the halt final.
`BeliefExplained` sums over all orders ever sent; each step of the broker or the process changes one term.
`NeverStacks` needs, for scheduled runs, that the symbols still to come, but for those the run read as working, have
no order open (`ToComeIsFree`), and that the one being submitted has none: an answer that was read before the loop
stays true through it.

**Rings and agreement.**  The invariant is `TypeOK /\ RingIsWindow`.  `NewestFirst` and `OthersAge` are the ring's
contract: `Slot` says where an age is read on either side of the seam, and a push moves the head
so that every age shifts by one.  `PushShows` lifts that to sequences, `OnBarShows` to the four
strategies, each of which pushes on every way out, and a restart begins with the empty sequence or
the last bar alone.  The capacity only has to be positive.

For `AgreementLasts` the invariant is `AgreeInv`: two rings that are windows of one sequence read alike as far
as both go (`WindowsAlike`), and a crossover that is primed has its window and keeps the side the window is on
(`Primed`).  Without the second part it would not be inductive: two crossovers with like windows and unlike
`was_above_` part at the next bar.  `ReadyDecides` says what a warm strategy makes of a bar, `SameVerdict` that
this depends on the window and `holding_` alone.

**Targets.**  `TargetInv` says of each instance what the bars since its start tell (`Told`): what it holds, and of a
crossover that it is primed once it has its window and which side the window is on.  The rules of the property are
first stated of any list of bars (`EntersOn`, `LeavesOn`, `HoldsOn`), since its own operators speak of `seen` only.
Then there are three things to show.  Bars to come change nothing about a verdict on earlier ones (`EarlierStays`),
so what should be held moves by one rule from bar to bar (`HeldOneMore`).  What a strategy computes from its ring is
what the property computes from the list: a sum over ages is the sum over the closes (`SumsRead`), the largest and
the least are compared one by one (`ExtremesRead`), and the variance of `MeanReversion`, from the sum and the
sum of squares, is the sum of the squared distances times the window (`SpreadIs`, by induction on the window).
And an entry and an exit never fall on one bar (`MeanApart`, `MomentumRules`, `BreakoutRules`), as `on_bar` asks only
one of the two questions: that is `EntryIsNoExit`, of which each strategy needs its own part (`SignedSquareGrows` keeps
the order of the limits in that of their squares).

**Scheduled runs.**  `RunInv` says that the steady strategy is the warm-up over all ended days (`SteadyIsWarm`),
and that a run that was in time decided on the complete bars, of which a bar of today crowds out the oldest
if the history is full (`DecidedOnComplete`).  `LatestInTime`, which no run checks, is proved beside it: a run
acts on the last complete bar exactly if it was in time, so that the stray cases of `InTime`'s comment are all
there are.  `WarmedByOneMore` makes a warm-up go bar by bar; `TodayIsLeftOut` is the arithmetic of asking for a number of bars
and leaving one out, and is where a warm-up of one bar would fail.

**The journal.**  `JournalInv` is `TypeOK` and three parts.  `StreamInv` is about what is where: only lines that move no lot wait in
the stream, but for the line of an order that is being flushed; as long as the stump of a dead process ends the
file nothing of this one is whole on disk, so what the stump spoils is the first line, which is never an execution;
otherwise file and stream together end in what the process wrote after that line.  `Accounted` says that the lots of the file
on disk, with what the order in hand has changed in the account and not yet in the file (`Due`), are the
shares of every symbol that is not loose; `Owned` that only the owner of a symbol has lots of it, without which a sale
could find too few lots under the seller's name and `Accounted` would not survive it.  The streams arrive line by line:
`QuietLines` lets lines without executions arrive in any number, `FillArrives` brings the one fill that changes the lots by what was
due, and `WriteKeeps`, `DrainKeeps`, `SpillKeeps` and `GoneKeeps` are the stream's four moves, of which
the actions are made.  The report's theory is that of `CommonTheorems` with pairs of strategy and symbol for its
symbols (`T`), and `SameWalk` says that the report the model reads is the same one.  `ReaderSeesRun` is
`StreamInv` when the stream is empty.

Only model-checked: all liveness, including `UnblockedFeedIsJoined` and `OpeningIsNotSleptThrough` (fairness and
`ENABLED` are out of the prover's reach), and `ReplayTakesQuotes` of `BarFile`: that a printed close is the nearest of
its digits is a matter of powers of ten with an exponent that is a constant, of which the provers know nothing.

## Not modelled

The dashboard turns the report into HTML and decides nothing: layout.  Requests, URLs and the parsing
of replies are I/O; a call is an answer or an `Error` (`CallFails`), and a reply that is not JSON an
exception of another kind (`LiveSession`).  Printing, option parsing, `--check` and the first-run set-up
change no state of the program.  Of `compute_metrics` the annualised figures and those made of a
variance (CAGR, Sharpe, Sortino, Calmar) are floating-point statistics; where a strategy compares
doubles the comparison is exact here.  `Portfolio::unrealized` has no caller; `max_daily_loss` is read
from the configuration and used nowhere.  In `LiveTrading` and `ScheduledRun` there is one process at a time; the broker
accepts an order during the call or never, and sells no more than the account holds, so that no position is
ever short (a broker that lends shares could fill two stacked sales; `Engine::adopt` would leave the short position out).  On disk is what the stream has handed to the operating
system: `flush` is no `fsync`, and a machine that goes down may lose more; write errors, which no code
looks at, do not happen.  Of a bar file only the closes are followed; the other columns are printed and
read in the same way.

## What could be added

* A proof of `ReplayTakesQuotes` from a theory of powers: that the largest unit whose significant digits do not exceed
  a close divides every coarser one, so that rounding to it is the best there is.
* An abstract broker account that `LiveTrading` refines, and `LiveSession`'s queue as an instance
  of `Channel`.
