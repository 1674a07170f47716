------------------------------ MODULE Restart ------------------------------
(***************************************************************************)
(* A strategy that has seen every bar beside one whose process is started  *)
(* anew, without history, as LiveTrader::run does: the constructor builds  *)
(* the strategies, and the first bar they see is the first of a session    *)
(* (src/live.cpp, src/strategies.cpp).                                     *)
(***************************************************************************)
EXTENDS Strategies, SequencesExt

CONSTANTS Bars,      \* the bars there are: [close, high, low]
          MaxBars    \* bound: bars ever seen

ASSUME BarsAssumption ==
    /\ Bars \subseteq [close : Nat \ {0}, high : Nat \ {0}, low : Nat \ {0}]
    /\ MaxBars \in Nat

VARIABLES
    seen,      \* history: every bar so far
    steady,    \* the instance that has seen them all
    fresh,     \* the instance of the process that was started last
    since      \* history: how many bars came before its first

vars == <<seen, steady, fresh, since>>

Init ==
    /\ seen = <<>>
    /\ \E kind \in Kinds : steady = New(kind)
    /\ fresh = steady
    /\ since = 0

Arrive(bar) ==
    /\ Len(seen) < MaxBars
    /\ seen' = Append(seen, bar)
    /\ steady' = OnBar(steady, bar)
    /\ fresh' = OnBar(fresh, bar)
    /\ UNCHANGED since

\* The new process's feed delivers the broker's latest bar, which may be one
\* the old process has seen.
StartAnew ==
    /\ \/ /\ since' = Len(seen)
          /\ fresh' = New(fresh.kind)
       \/ /\ seen # <<>>
          /\ since' = Len(seen) - 1
          /\ fresh' = OnBar(New(fresh.kind), Last(seen))
    /\ UNCHANGED <<seen, steady>>

Next == StartAnew \/ \E bar \in Bars : Arrive(bar)

Spec == Init /\ [][Next]_vars

-----------------------------------------------------------------------------
(* Properties *)

TypeOK ==
    /\ seen \in Seq(Bars) /\ Len(seen) <= MaxBars
    /\ steady \in Instance
    /\ fresh \in Instance /\ fresh.kind = steady.kind
    /\ since \in 0 .. Len(seen)

\* A ring that has been pushed the values of sequence s shows the last of them,
\* newest first.
Shows(ring, s) ==
    /\ ring.size = IF Len(s) < Capacity THEN Len(s) ELSE Capacity
    /\ \A age \in 0 .. ring.size - 1 : At(ring, age) = s[Len(s) - age]

Field(s, f) == [i \in DOMAIN s |-> s[i][f]]

Suffix(n) == SubSeq(seen, n + 1, Len(seen))

RingsShow(s, bars) ==
    IF s.kind = "Breakout"
    THEN Shows(s.highs, Field(bars, "high")) /\ Shows(s.lows, Field(bars, "low"))
    ELSE Shows(s.closes, Field(bars, "close"))

\* Across the seam of the array, and whatever the offset a restart gives it, a
\* ring reads back exactly the newest values pushed (RingBuffer).
RingIsWindow == RingsShow(steady, seen) /\ RingsShow(fresh, Suffix(since))

-----------------------------------------------------------------------------
(* What each strategy says it does, told from the bars alone: `first` is   *)
(* the number of bars before the instance was started, i a bar's place.    *)

Closes(i, n) == [k \in 1 .. n |-> seen[i + 1 - k].close]
Total(f) == FoldFunction(LAMBDA a, b : a + b, 0, f)

FastAbove(i) == Slow * Total(Closes(i, Fast)) > Fast * Total(Closes(i, Slow))

\* n times a close less the sum of the last n, and the sum of the squares of
\* that: z is the one over the root of the other divided by n.
Off(i, j) == Window * seen[j].close - Total(Closes(i, Window))
Squares(i) == Total([k \in 1 .. Window |-> Off(i, i + 1 - k) * Off(i, i + 1 - k)])
ZBelow(i, num) == Window * SignedSquare(Off(i, i) * ZDen) <= SignedSquare(num) * Squares(i)
ZAbove(i, num) == Window * SignedSquare(Off(i, i) * ZDen) >= SignedSquare(num) * Squares(i)

Enters(kind, i) ==
    CASE kind = "MeanReversion" -> Squares(i) # 0 /\ ZBelow(i, EntryNum)
      [] kind = "Momentum" ->
            LET then == seen[i - Lookback].close
            IN  ThresholdDen * seen[i].close > (ThresholdDen + ThresholdNum) * then
      [] kind = "Breakout" -> \A j \in i - Lookback .. i - 1 : seen[i].close > seen[j].high

Leaves(kind, i) ==
    CASE kind = "MeanReversion" -> Squares(i) # 0 /\ ZAbove(i, ExitNum)
      [] kind = "Momentum" -> seen[i].close < seen[i - Lookback].close
      [] kind = "Breakout" -> \A j \in i - Lookback .. i - 1 : seen[i].close < seen[j].low

\* The bars of an instance on which it can decide at all.
Decidable(kind, first) ==
    first + (CASE kind = "SmaCrossover" -> Slow
               [] kind = "MeanReversion" -> Window
               [] kind = "Momentum" -> Lookback + 1
               [] kind = "Breakout" -> Lookback + 1) .. Len(seen)

ShouldHold(kind, first) ==
    LET days == Decidable(kind, first)
    IN  IF kind = "SmaCrossover"
        THEN Len(seen) \in days /\ FastAbove(Len(seen)) /\ \E i \in days : ~FastAbove(i)
        ELSE \E i \in days : /\ Enters(kind, i)
                             /\ \A j \in days : j > i => ~Leaves(kind, j)

\* Whatever the bars, a strategy asks for a position exactly when the bars it
\* has seen call for one: an upward cross since its warm-up that still stands, or
\* an entry with no exit since, a breakout being over earlier bars only
\* (strategies.hpp on each class).
TargetFollowsHistory ==
    /\ steady.holding = ShouldHold(steady.kind, 0)
    /\ fresh.holding = ShouldHold(fresh.kind, since)

Ready(s) ==
    CASE s.kind = "SmaCrossover" -> s.primed
      [] s.kind = "MeanReversion" -> s.closes.size >= Window
      [] s.kind = "Momentum" -> s.closes.size >= Lookback
      [] s.kind = "Breakout" -> s.highs.size >= Lookback

Agree == Ready(fresh) /\ Ready(steady) /\ fresh.holding = steady.holding

\* Once a restarted strategy has its window and asks for what one that was never
\* restarted asks for, the two agree on every bar to come, however old either
\* is: nothing but the window and holding_ carries over from bar to bar.
AgreementLasts ==
    [][Agree /\ since' = since => fresh'.holding = steady'.holding]_vars

\* strategy.hpp:28: "a restart mid-session recovers by reading the broker": the
\* position that is read back is still asked for.
RestartRecovers == Len(seen) > since => Weight(fresh) = Weight(steady)
=============================================================================
