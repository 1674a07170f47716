---------------------------- MODULE ScheduledRun ---------------------------
(***************************************************************************)
(* What a scheduled run decides on (run_once in src/live.cpp, history in   *)
(* src/alpaca.cpp): a fresh strategy is warmed on the broker's daily bars, *)
(* today's unfinished one left out, and answers for the last of them.      *)
(* Runs come at any time, any number a day.  A run asks for the clock once *)
(* and for each symbol's bars when it comes to it: this is one symbol, and *)
(* the open orders and all that is done for the symbols before it lie      *)
(* between the two answers.  What the engine then does with the decision   *)
(* is LiveTrading's matter.                                                *)
(***************************************************************************)
EXTENDS Strategies, SequencesExt

CONSTANTS Bars,      \* the bars there are: [close, high, low]
          MaxBars,   \* bound: days that have ended
          Warmup     \* kWarmupBars

ASSUME BarsAssumption ==
    /\ Bars \subseteq [close : Nat \ {0}, high : Nat \ {0}, low : Nat \ {0}]
    /\ MaxBars \in Nat
    /\ Warmup \in Nat /\ Warmup > 1      \* live.hpp:70 has 250

VARIABLES
    bars,      \* the broker's bars of days that have ended
    today,     \* its bar of a day that has not, as a sequence of at most one
    is_open,   \* the broker's clock
    clock,     \* what it was when the run read it, "unread" when none is going on
    steady,    \* history: the strategy of a process that has seen every ended day
    run        \* history: the last decision of a run: after how many days, whether
               \* today had traded and whether the clock had said open, whether the
               \* bar acted on was the last complete one, whether its history was all
               \* there is, and beside it what `steady` would have decided

vars == <<bars, today, is_open, clock, steady, run>>

NoRun == [days |-> 0, traded |-> FALSE, open |-> FALSE, latest |-> TRUE, covered |-> FALSE,
          weight |-> 0, wanted |-> 0]

Init ==
    /\ bars = <<>>
    /\ today = <<>>
    /\ is_open = FALSE
    /\ clock = "unread"
    /\ \E kind \in Kinds : steady = New(kind)
    /\ run = NoRun

\* The day's bar appears with the first trade the data feed sees.
OpenMarket ==
    /\ ~is_open
    /\ Len(bars) < MaxBars
    /\ is_open' = TRUE
    /\ UNCHANGED <<bars, today, clock, steady, run>>

Trade(bar) ==
    /\ is_open
    /\ today' = <<bar>>
    /\ UNCHANGED <<bars, is_open, clock, steady, run>>

CloseMarket ==
    /\ is_open
    /\ is_open' = FALSE
    /\ today' = <<>>
    /\ bars' = bars \o today
    /\ steady' = FoldLeft(OnBar, steady, today)
    /\ UNCHANGED <<clock, run>>

-----------------------------------------------------------------------------
\* Once a run, before its first symbol.
ReadClock ==
    /\ clock = "unread"
    /\ clock' = IF is_open THEN "open" ELSE "closed"
    /\ UNCHANGED <<bars, today, is_open, steady, run>>

\* history(symbol, kWarmupBars): the last of the broker's bars.
History ==
    LET all == bars \o today
    IN  SubSeq(all, Max({1, Len(all) - Warmup + 1}), Len(all))

\* Fault: today's bar is kept.
KeepToday(history) == history

\* If the clock said open the last bar is taken for today's.
Completed(history) ==
    IF clock = "open" /\ Len(history) > 1 THEN Front(history) ELSE history

\* Fault: the last bar warms the strategy up too.
WarmedOnAll(history) == FoldLeft(OnBar, New(steady.kind), history)

WarmedOn(history) == FoldLeft(OnBar, New(steady.kind), Front(history))

Decision(history) == Weight(OnBar(WarmedOn(history), Last(history)))

\* The run comes to the symbol.
Decide ==
    LET history == Completed(History)
    IN  /\ clock # "unread"
        /\ history # <<>>
        /\ run' = [days |-> Len(bars),
                   traded |-> today # <<>>,
                   open |-> clock = "open",
                   latest |-> Len(History) - Len(history) = Len(today),
                   covered |-> history = bars,
                   weight |-> Decision(history),
                   wanted |-> Weight(steady)]
        /\ clock' = "unread"
        /\ UNCHANGED <<bars, today, is_open, steady>>

\* No bars, an order that works already, an Error, or the end of the process.
PassOver ==
    /\ clock # "unread"
    /\ clock' = "unread"
    /\ UNCHANGED <<bars, today, is_open, steady, run>>

Next ==
    \/ OpenMarket
    \/ \E bar \in Bars : Trade(bar)
    \/ CloseMarket
    \/ ReadClock
    \/ Decide
    \/ PassOver

Spec == Init /\ [][Next]_vars

-----------------------------------------------------------------------------
(* Properties *)

\* Today's bar is among those the run read exactly if the clock had said open, or
\* there was one bar only and it was complete.  Otherwise the market opened or closed
\* between the two answers, or was open and the symbol had not traded yet, or today's
\* bar is the first there ever was.
InTime(r) ==
    \/ r.days > 0 /\ (r.open <=> r.traded)
    \/ r.days = 1 /\ ~r.traded

\* Two such runs after the same days, at the same stage of a day or with a history
\* that is not full, so that today's bar takes nobody's place in it.
SameDay ==
    /\ InTime(run) /\ InTime(run')
    /\ run'.days = run.days
    /\ run'.traded = run.traded \/ run.days < Warmup

\* Runs between one close and the next take one decision, before the opening and at
\* any time of the day, whatever today's bar does between them, provided each read
\* clock and bars in time ("a decision taken on a partial bar would have been a
\* different decision an hour later", live.cpp:195).
TodayDoesNotCount == [][SameDay => run'.weight = run.weight]_vars

\* As long as the history the broker is asked for reaches back to the first bar, a
\* run decides what a process that was never restarted would (run_once's warm-up:
\* each bar once, the last one as the bar to act on).
WarmUpIsExact == run.covered => run.weight = run.wanted

\* live.cpp:200: "Everything but the last bar rebuilds the indicator state this
\* process was started without": so the decision does not depend on the restart.
WarmUpRebuilds == run.latest => run.weight = run.wanted

\* live.hpp:51: "act on the most recent completed bar for each symbol".
ActsOnLatestCompleted == run.latest

\* live.hpp:58: "Acts only on a *completed* bar", of runs that find today's bar
\* behind complete ones.
PartialBarIsLeftOut == run.traded /\ run.days > 0 => run.latest

\* What is left of it: a run acts on the last complete bar exactly if it was in time.
LatestInTime == run = NoRun \/ (run.latest <=> InTime(run))
=============================================================================
