----------------------------- MODULE Strategies ----------------------------
(***************************************************************************)
(* The four strategies (src/strategies.cpp): what each makes of a bar.     *)
(*                                                                         *)
(* An instance is a record of the members of all four classes; each kind   *)
(* uses its own and leaves the rest as they were built.  Prices are        *)
(* integers, and means, deviations and ratios are compared without         *)
(* dividing, so exactly, where the code rounds doubles.  The reason that   *)
(* goes with a weight is text and is left out.                             *)
(***************************************************************************)
EXTENDS RingBuffer, FiniteSetsExt

CONSTANTS Fast, Slow,              \* SmaCrossover
          Window,                  \* MeanReversion
          EntryNum, ExitNum, ZDen, \* z_entry is EntryNum/ZDen, z_exit ExitNum/ZDen
          Lookback,                \* Momentum and Breakout
          ThresholdNum, ThresholdDen, \* threshold
          MaxWindow                \* the longest window a configuration may ask for

\* What the constructors insist on: windows in range, which the ring is large enough
\* for, and the fast one the shorter.  Limits and threshold may be any numbers.
ASSUME StrategiesAssumption ==
    /\ MaxWindow \in Nat /\ MaxWindow < Capacity
    /\ Fast \in 2 .. MaxWindow /\ Slow \in 2 .. MaxWindow /\ Fast < Slow
    /\ Window \in 2 .. MaxWindow
    /\ Lookback \in 2 .. MaxWindow
    /\ EntryNum \in Int /\ ExitNum \in Int
    /\ ZDen \in Nat \ {0}
    /\ ThresholdNum \in Int /\ ThresholdDen \in Nat \ {0}

Kinds == {"SmaCrossover", "MeanReversion", "Momentum", "Breakout"}

Instance ==
    [kind : Kinds, closes : Ring, highs : Ring, lows : Ring,
     was_above : BOOLEAN, primed : BOOLEAN, holding : BOOLEAN]

New(kind) ==
    [kind |-> kind, closes |-> EmptyRing, highs |-> EmptyRing, lows |-> EmptyRing,
     was_above |-> FALSE, primed |-> FALSE, holding |-> FALSE]

SumOfLast(ring, n) == MapThenSumSet(LAMBDA age : At(ring, age), 0 .. n - 1)

SumOfSquares(ring, n) == MapThenSumSet(LAMBDA age : At(ring, age) * At(ring, age), 0 .. n - 1)

MaxOfLast(ring, n) == Max({At(ring, age) : age \in 0 .. n - 1})

MinOfLast(ring, n) == Min({At(ring, age) : age \in 0 .. n - 1})

\* Three of the four hold from an entry to the next exit.
Hold(holding, enter, leave) == IF holding THEN ~leave ELSE enter

-----------------------------------------------------------------------------
\* Fault: the slow mean is taken over all the ring has.
AboveAll(closes) ==
    SumOfLast(closes, Fast) * closes.size > SumOfLast(closes, closes.size) * Fast

\* fast > slow
Above(closes) == SumOfLast(closes, Fast) * Slow > SumOfLast(closes, Slow) * Fast

SmaReady(closes) == closes.size >= Slow

\* The first bar with enough history only tells which side the means are on.
Crossed(s, above) == s.primed /\ above # s.was_above

SmaCrossover(s, bar) ==
    LET closes == Push(s.closes, bar.close)
        above == Above(closes)
    IN  IF SmaReady(closes)
        THEN [s EXCEPT !.closes = closes, !.primed = TRUE, !.was_above = above,
                       !.holding = IF Crossed(s, above) THEN above ELSE @]
        ELSE [s EXCEPT !.closes = closes]

\* Window times the distance of the newest close from the mean.
Deviation(closes) == Window * At(closes, 0) - SumOfLast(closes, Window)

\* The square of Window times the standard deviation.
Spread(closes) ==
    Window * SumOfSquares(closes, Window) - SumOfLast(closes, Window) * SumOfLast(closes, Window)

\* The square with its number's sign, which keeps the order of numbers.
SignedSquare(x) == IF x < 0 THEN 0 - x * x ELSE x * x

\* z <= z_entry and z >= z_exit
BelowEntry(d, spread) == SignedSquare(d * ZDen) <= SignedSquare(EntryNum) * spread
AboveExit(d, spread) == SignedSquare(d * ZDen) >= SignedSquare(ExitNum) * spread

MeanReversion(s, bar) ==
    LET closes == Push(s.closes, bar.close)
        d == Deviation(closes)
        spread == Spread(closes)
    IN  IF closes.size >= Window /\ spread # 0
        THEN [s EXCEPT !.closes = closes,
                       !.holding = Hold(@, BelowEntry(d, spread), AboveExit(d, spread))]
        ELSE [s EXCEPT !.closes = closes]

Risen(then, now) == (now - then) * ThresholdDen > ThresholdNum * then

Momentum(s, bar) ==
    LET closes == Push(s.closes, bar.close)
        then == At(closes, Lookback)
    IN  IF closes.size > Lookback /\ then # 0
        THEN [s EXCEPT !.closes = closes,
                       !.holding = Hold(@, Risen(then, bar.close), bar.close < then)]
        ELSE [s EXCEPT !.closes = closes]

\* Fault: the bar is measured against a window it is part of.
MeasuredAfter(s, highs, lows) == [highs |-> highs, lows |-> lows]

\* The window as it stood before this bar.
Measured(s, highs, lows) == [highs |-> s.highs, lows |-> s.lows]

Breakout(s, bar) ==
    LET highs == Push(s.highs, bar.high)
        lows == Push(s.lows, bar.low)
        window == Measured(s, highs, lows)
        next == [s EXCEPT !.highs = highs, !.lows = lows]
    IN  IF window.highs.size >= Lookback
        THEN [next EXCEPT !.holding = Hold(@, bar.close > MaxOfLast(window.highs, Lookback),
                                              bar.close < MinOfLast(window.lows, Lookback))]
        ELSE next

OnBar(s, bar) ==
    CASE s.kind = "SmaCrossover" -> SmaCrossover(s, bar)
      [] s.kind = "MeanReversion" -> MeanReversion(s, bar)
      [] s.kind = "Momentum" -> Momentum(s, bar)
      [] s.kind = "Breakout" -> Breakout(s, bar)

\* Every return of the four functions answers with holding_ as it then is.
Weight(s) == IF s.holding THEN 1 ELSE 0
=============================================================================
