---------------------------- MODULE LiveSession -----------------------------
(***************************************************************************)
(* The threads of --live: LiveTrader::run and trade_session in             *)
(* src/live.cpp, PollingFeed in src/feed.cpp, and the interrupt handler of *)
(* src/main.cpp.                                                           *)
(*                                                                         *)
(* Time is counted in bells.  At an even `now` the market is open, at an   *)
(* odd one it is closed, and `bell` is the next_close or the next_open of  *)
(* the clock that was read last.  Trading days are numbered from 1; the    *)
(* session at now = 2k is day k + 2, so day k + 1 is its yesterday.        *)
(*                                                                         *)
(* `trader` and `feed` say where the two threads are.  The queue between   *)
(* them is the channel BoundedQueue is shown to implement; nobody closes   *)
(* it.  What on_bar does inside (Engine, Risk) is reduced to its outcomes: *)
(* it returns, it returns with the risk layer halted, or it throws.        *)
(***************************************************************************)
EXTENDS Naturals, Sequences, Functions

CONSTANTS Watched,      \* all_symbols(): a sequence of distinct symbols
          Capacity,     \* of the queue
          ErrorLimit,   \* feed errors that halt trading
          MaxTime       \* bound: how many bells the checker lets ring

ASSUME SessionAssumption ==
    /\ Watched \in Seq(Range(Watched)) /\ IsInjective(Watched) /\ Watched # <<>>
    /\ Capacity \in Nat \ {0}
    /\ ErrorLimit \in Nat \ {0}
    /\ MaxTime \in Nat \ {0}

VARIABLES
    trader,     \* where the trading thread is
    errors,     \* consecutive_errors
    msg,        \* the message popped last, while it is handled
    bell,       \* the end of the wait or of the session in progress
    halted,     \* why Risk halted, or "no"
    feed,       \* where the feed thread is
    feedStop,   \* PollingFeed::stop_
    at,         \* the feed's place in its sweep over Watched
    seen,       \* last_seen_ of each symbol, 0 for none
    pending,    \* the message the feed is pushing
    queue,
    stop,       \* stop_flag()
    now,
    up,         \* whether the broker answers
    decided,    \* history: the last bar each engine got, and in what session
    failing     \* history: polls failed in a row, at most ErrorLimit

traderVars == <<trader, errors, msg, bell, halted, decided>>
feedVars == <<feed, feedStop, at, seen, pending, failing>>
worldVars == <<stop, now, up>>
vars == <<traderVars, feedVars, queue, worldVars>>

Universe == Range(Watched)

IsOpen(time) == time % 2 = 0

\* The latest daily bar the broker may return: yesterday's until today's forms.
LatestDays(time) == IF IsOpen(time) THEN {time \div 2 + 1, time \div 2 + 2}
                    ELSE {time \div 2 + 2}

NoMessage == [kind |-> "none"]
BarMessage(s, day) == [kind |-> "bar", symbol |-> s, day |-> day]
ErrorMessage(run) == [kind |-> "error", run |-> run]

Init ==
    /\ trader = "starting"
    /\ errors = 0
    /\ msg = NoMessage
    /\ bell = 0
    /\ halted = "no"
    /\ feed = "none"
    /\ feedStop = FALSE
    /\ at = 1
    /\ seen = [s \in Universe |-> 0]
    /\ pending = NoMessage
    /\ queue = <<>>
    /\ stop = FALSE
    /\ now \in {0, 1}
    /\ up = TRUE
    /\ decided = [s \in Universe |-> [bell |-> 0, day |-> 0]]
    /\ failing = 0

-----------------------------------------------------------------------------
(* LiveTrader::run *)

\* The trading thread goes on to `next`, touching nothing else of its own.
Go(next) ==
    /\ trader' = next
    /\ UNCHANGED <<errors, msg, bell, halted, decided>>

\* account() and reconcile().
Start ==
    /\ trader = "starting"
    /\ Go(IF up THEN "reading clock" ELSE "failed")
    /\ UNCHANGED <<feedVars, queue, worldVars>>

Stopped ==
    /\ trader = "reading clock"
    /\ stop
    /\ Go("stopped")
    /\ UNCHANGED <<feedVars, queue, worldVars>>

ClockFails ==
    /\ trader = "reading clock"
    /\ ~stop
    /\ ~up
    /\ Go("failed")
    /\ UNCHANGED <<feedVars, queue, worldVars>>

\* Fault: the sleep is until the next close.
NextClose == now + 2

NextOpen == now + 1

FallAsleep ==
    /\ trader = "reading clock"
    /\ ~stop
    /\ up
    /\ ~IsOpen(now)
    /\ trader' = "asleep"
    /\ bell' = NextOpen
    /\ UNCHANGED <<errors, msg, halted, decided, feedVars, queue, worldVars>>

\* trade_session begins: a new queue and a new feed with an empty last_seen_.
OpenSession ==
    /\ trader = "reading clock"
    /\ ~stop
    /\ up
    /\ IsOpen(now)
    /\ trader' = "testing"
    /\ bell' = now + 1
    /\ errors' = 0
    /\ feed' = "testing"
    /\ feedStop' = FALSE
    /\ seen' = [s \in Universe |-> 0]
    /\ failing' = 0
    /\ queue' = <<>>
    /\ UNCHANGED <<msg, halted, decided, at, pending, worldVars>>

WakeAtBell ==
    /\ trader = "asleep"
    /\ now >= bell
    /\ Go("reading clock")
    /\ UNCHANGED <<feedVars, queue, worldVars>>

\* Nobody notifies g_sleep_cv: a stop is seen if the wait returns for no reason.
WakeSpuriously ==
    /\ trader = "asleep"
    /\ stop
    /\ Go("reading clock")
    /\ UNCHANGED <<feedVars, queue, worldVars>>

-----------------------------------------------------------------------------
(* The loop of trade_session *)

\* Fault: the loop condition forgets the stop.
MayContinueIgnoringStop == halted = "no"

MayContinue == ~stop /\ halted = "no"

TestLoop ==
    /\ trader = "testing"
    /\ Go(IF MayContinue THEN "popping" ELSE "leaving")
    /\ UNCHANGED <<feedVars, queue, worldVars>>

Pop ==
    /\ trader = "popping"
    /\ queue # <<>>
    /\ msg' = Head(queue)
    /\ queue' = Tail(queue)
    /\ trader' = "handling"
    /\ UNCHANGED <<errors, bell, halted, decided, feedVars, worldVars>>

\* on_bar has been entered: the engine has the bar, whatever comes of it.
Decide ==
    decided' = [decided EXCEPT ![msg.symbol] = [bell |-> bell, day |-> msg.day]]

\* Every watched symbol has an engine, so the lookup of the code succeeds.
HandleBar ==
    /\ trader = "handling"
    /\ msg.kind = "bar"
    /\ errors' = 0
    /\ Decide
    /\ halted' \in {halted, "drawdown"}
    /\ trader' = "past message"
    /\ msg' = NoMessage
    /\ UNCHANGED <<bell, feedVars, queue, worldVars>>

\* Fault: the exception leaves trade_session past the feed's destructor.
ThrowWithoutStopping ==
    /\ trader = "handling"
    /\ msg.kind = "bar"
    /\ errors' = 0
    /\ Decide
    /\ trader' = "failed"
    /\ msg' = NoMessage
    /\ UNCHANGED <<bell, halted, feedVars, queue, worldVars>>

\* An Error leaves on_bar and trade_session; ~PollingFeed stops the feed.
HandleBarThrows ==
    /\ trader = "handling"
    /\ msg.kind = "bar"
    /\ errors' = 0
    /\ Decide
    /\ trader' = "unwinding"
    /\ feedStop' = TRUE
    /\ msg' = NoMessage
    /\ UNCHANGED <<bell, halted, feed, at, seen, pending, failing, queue, worldVars>>

\* Fault: the count is never raised.
CountNoError == UNCHANGED errors

CountError == errors' = errors + 1

HandleError ==
    /\ trader = "handling"
    /\ msg.kind = "error"
    /\ CountError
    /\ halted' = IF errors' >= ErrorLimit THEN "feed" ELSE halted
    /\ trader' = "past message"
    /\ msg' = NoMessage
    /\ UNCHANGED <<bell, decided, feedVars, queue, worldVars>>

TestBell ==
    /\ trader = "past message"
    /\ Go(IF now >= bell THEN "leaving" ELSE "testing")
    /\ UNCHANGED <<feedVars, queue, worldVars>>

\* feed.stop(), then the destructor's join.
Leave ==
    /\ trader = "leaving"
    /\ Go("joining")
    /\ feedStop' = TRUE
    /\ UNCHANGED <<feed, at, seen, pending, failing, queue, worldVars>>

Join ==
    /\ trader \in {"joining", "unwinding"}
    /\ feed = "ended"
    /\ Go(CASE trader = "unwinding" -> "failed"
            [] halted # "no" -> "halted"
            [] OTHER -> "reading clock")
    /\ feed' = "none"
    /\ queue' = <<>>
    /\ UNCHANGED <<feedStop, at, seen, pending, failing, worldVars>>

TraderStep ==
    \/ Start \/ Stopped \/ ClockFails \/ FallAsleep \/ OpenSession \/ WakeAtBell
    \/ TestLoop \/ Pop \/ HandleBar \/ HandleBarThrows \/ HandleError
    \/ TestBell \/ Leave \/ Join

\* A call of the broker threw something that is no Error: main does not catch
\* it, and the process is terminated.
TraderThrowsForeign ==
    /\ \/ trader \in {"starting", "reading clock"}
       \/ trader = "handling" /\ msg.kind = "bar"
    /\ up
    /\ Go("terminated")
    /\ feed' = "none"
    /\ UNCHANGED <<feedStop, at, seen, pending, failing, queue, worldVars>>

-----------------------------------------------------------------------------
(* PollingFeed::run *)

TestFeed ==
    /\ feed = "testing"
    /\ IF feedStop THEN feed' = "ended" /\ UNCHANGED at
                   ELSE feed' = "polling" /\ at' = 1
    /\ UNCHANGED <<feedStop, seen, pending, failing, traderVars, queue, worldVars>>

\* The end of the body of the sweep: the next symbol, or the nap.
NextSymbol ==
    IF at < Len(Watched) THEN feed' = "polling" /\ at' = at + 1
                         ELSE feed' = "napping" /\ at' = 1

\* Fault: a sweep is finished before a stop is looked at.
StopUnseen == FALSE

StopSeen == feedStop

PollStopped ==
    /\ feed = "polling"
    /\ StopSeen
    /\ feed' = "ended"
    /\ UNCHANGED <<feedStop, at, seen, pending, failing, traderVars, queue, worldVars>>

\* Fault: a bar is taken again as long as it is not older.
IsNewsAgain(s, day) == seen[s] = 0 \/ day >= seen[s]

IsNews(s, day) == seen[s] = 0 \/ day > seen[s]

\* No bars, or none that is news: the symbol is done.
PollNoNews ==
    /\ feed = "polling"
    /\ ~StopSeen
    /\ up
    /\ NextSymbol
    /\ failing' = 0
    /\ UNCHANGED <<feedStop, seen, pending, traderVars, queue, worldVars>>

PollBar ==
    /\ feed = "polling"
    /\ ~StopSeen
    /\ up
    /\ \E day \in LatestDays(now) :
          /\ IsNews(Watched[at], day)
          /\ seen' = [seen EXCEPT ![Watched[at]] = day]
          /\ pending' = BarMessage(Watched[at], day)
    /\ feed' = "pushing"
    /\ failing' = 0
    /\ UNCHANGED <<feedStop, at, traderVars, queue, worldVars>>

\* history threw an Error.
PollFails ==
    /\ feed = "polling"
    /\ ~StopSeen
    /\ ~up
    /\ feed' = "pushing"
    /\ failing' = IF failing < ErrorLimit THEN failing + 1 ELSE failing
    /\ pending' = ErrorMessage(failing')
    /\ UNCHANGED <<feedStop, at, seen, traderVars, queue, worldVars>>

\* history threw something that is no Error (the reply is not JSON): nothing
\* in the thread catches it, and the process is terminated.
PollThrowsForeign ==
    /\ feed = "polling"
    /\ ~StopSeen
    /\ up
    /\ feed' = "terminated"
    /\ Go("terminated")
    /\ UNCHANGED <<feedStop, at, seen, pending, failing, queue, worldVars>>

\* Fault: the bound off by one, or a message lost when there is no room.
PutOffByOne == Len(queue) <= Capacity /\ queue' = Append(queue, pending)
PutOrDrop == queue' = IF Len(queue) < Capacity THEN Append(queue, pending) ELSE queue

Put == Len(queue) < Capacity /\ queue' = Append(queue, pending)

Push ==
    /\ feed = "pushing"
    /\ Put
    /\ pending' = NoMessage
    /\ NextSymbol
    /\ UNCHANGED <<feedStop, seen, failing, traderVars, worldVars>>

\* The nap of one interval, cut short by a stop.
NapOver ==
    /\ feed = "napping"
    /\ feed' = "testing"
    /\ UNCHANGED <<feedStop, at, seen, pending, failing, traderVars, queue, worldVars>>

FeedStep ==
    \/ TestFeed \/ PollStopped \/ PollNoNews \/ PollBar \/ PollFails
    \/ Push \/ NapOver

-----------------------------------------------------------------------------
(* The world *)

Running == trader \notin {"stopped", "halted", "failed", "terminated"}

\* on_interrupt.
Interrupt ==
    /\ Running
    /\ ~stop
    /\ stop' = TRUE
    /\ UNCHANGED <<now, up, traderVars, feedVars, queue>>

Ring ==
    /\ Running
    /\ now < MaxTime
    /\ now' = now + 1
    /\ UNCHANGED <<stop, up, traderVars, feedVars, queue>>

BrokerChanges ==
    /\ Running
    /\ up' = ~up
    /\ UNCHANGED <<stop, now, traderVars, feedVars, queue>>

Next ==
    \/ TraderStep \/ FeedStep \/ WakeSpuriously
    \/ PollThrowsForeign \/ TraderThrowsForeign
    \/ Interrupt \/ Ring \/ BrokerChanges

Spec == Init /\ [][Next]_vars

\* Both threads keep running.  Nobody has to press Ctrl-C, the broker need not
\* answer, and nothing below may count on the next bell ringing.
FairSpec == Spec /\ WF_vars(TraderStep) /\ WF_vars(FeedStep)

-----------------------------------------------------------------------------
(* What the session keeps *)

InLoop == trader \in {"testing", "popping", "handling", "past message"}

InSession == InLoop \/ trader \in {"leaving", "joining", "unwinding"}

Days == 1..(MaxTime \div 2 + 2)

Messages ==
    [kind : {"bar"}, symbol : Universe, day : Days]
        \cup [kind : {"error"}, run : 1..ErrorLimit]

Bells == 0..(MaxTime + 1)

TraderTypeOK ==
    /\ trader \in {"starting", "reading clock", "asleep", "testing", "popping",
                   "handling", "past message", "leaving", "joining", "unwinding",
                   "stopped", "halted", "failed", "terminated"}
    /\ errors \in 0..ErrorLimit
    /\ msg \in Messages \cup {NoMessage}
    /\ bell \in Bells
    /\ halted \in {"no", "feed", "drawdown"}
    /\ decided \in [Universe -> [bell : Bells, day : Days \cup {0}]]

FeedTypeOK ==
    /\ feed \in {"none", "testing", "polling", "pushing", "napping", "ended", "terminated"}
    /\ feedStop \in BOOLEAN
    /\ at \in 1..Len(Watched)
    /\ seen \in [Universe -> Days \cup {0}]
    /\ pending \in Messages \cup {NoMessage}
    /\ failing \in 0..ErrorLimit

QueueTypeOK == queue \in Seq(Messages) /\ Len(queue) <= Capacity

WorldTypeOK ==
    /\ stop \in BOOLEAN
    /\ now \in 0..MaxTime
    /\ up \in BOOLEAN

\* The variables have their types; in particular the queue keeps its bound and
\* consecutive_errors never passes the limit that halts trading.
TypeOK ==
    /\ TraderTypeOK
    /\ FeedTypeOK
    /\ QueueTypeOK
    /\ WorldTypeOK

\* The feed thread lives inside a session and never beyond it, whichever way the
\* session is left: feed.hpp's "no way to leave it running behind a thrown
\* exception".
FeedOnlyInSession == feed \notin {"none", "terminated"} => InSession

\* Within a session no engine is given a day's bar twice, or an older one: the
\* last_seen_ of the feed, together with the order the queue keeps.
NewsOnceASession ==
    trader = "handling" /\ msg.kind = "bar" =>
        \/ decided[msg.symbol].bell # bell
        \/ decided[msg.symbol].day < msg.day

\* A bar the feed has marked as seen is never lost while the session runs: it is
\* with the feed, in the queue, in the trader's hands, or has been decided on.
\* last_seen_ is written before the push, so a lost push would lose the day.
NothingDropped ==
    InLoop => \A s \in Universe :
        seen[s] # 0 =>
            \/ decided[s] = [bell |-> bell, day |-> seen[s]]
            \/ BarMessage(s, seen[s]) \in {pending, msg} \cup Range(queue)

\* A broker that has stopped answering cannot keep the session: poll by poll the
\* errors reach the trader and halt it, unless the broker comes back or the
\* session ends otherwise.
DeadFeedEndsSession == InLoop ~> (~InLoop \/ up)

\* With a message waiting, a stop or a halt ends the loop without the rest of
\* the queue being worked off.
LeavesBusyLoop == (stop \/ halted # "no") /\ InLoop /\ queue # <<>> ~> ~InLoop

\* Asleep when the market is open, the trader gets up and opens the session, if
\* the market does not close again first and the broker answers: the sleep is
\* until the right bell, and getting up does not take a notification
\* (sleep_until_or_stop, LiveTrader::run).
OpeningIsNotSleptThrough ==
    trader = "asleep" /\ IsOpen(now) ~> InSession \/ ~Running \/ ~IsOpen(now)

\* A feed that is not blocked is joined: after a stop it pushes at most the one
\* message it holds, so the join waits for good only if that push finds no room
\* (PollingFeed::stop, and the stop tested within the sweep).
Blocked == feed = "pushing" /\ Len(queue) = Capacity

UnblockedFeedIsJoined ==
    trader \in {"joining", "unwinding"} /\ ~Blocked ~> trader \notin {"joining", "unwinding"}

-----------------------------------------------------------------------------
(* What the code and its documents say, and the program does not keep *)

\* live.hpp, of stop_flag: "also stops an in-progress session".
StopEndsSession == stop /\ InLoop ~> ~InLoop

\* live.hpp, of run: "Sleeps through nights, weekends and holidays".
BellEndsSession == InLoop /\ now >= bell ~> ~InLoop

\* live.cpp, of sleep_until_or_stop: "Sleeps until `until`, or until stopped".
StopWakesSleeper == stop /\ trader = "asleep" ~> trader # "asleep"

\* README: "Ctrl-C stops the feed thread, joins it, and flushes the journal".
StoppedFeedIsJoined == trader = "joining" ~> trader # "joining"

\* feed.cpp: "A bar is only news once. [...] acting on each revision would trade
\* the same day repeatedly."
NewsOnce ==
    trader = "handling" /\ msg.kind = "bar" => decided[msg.symbol].day < msg.day

\* README: "Ten consecutive feed errors trip it".  The halt comes in the step
\* that handles an error, the last of a run of that many failed polls.
OnlyARunOfErrorsHalts == [][halted' = "feed" /\ halted = "no" => msg.run = ErrorLimit]_vars

\* feed.cpp: "A feed error is data, not a reason to take the thread down".
FeedErrorsAreData == feed # "terminated"
=============================================================================
