------------------------------ MODULE Metrics ------------------------------
(***************************************************************************)
(* The figures the report puts beside the profit: compute_metrics() in     *)
(* src/report.cpp, as far as they are counts, sums and ratios of sums.     *)
(* m is a strategy's marks, oldest first.  A ratio is a pair, compared     *)
(* exactly where the code divides doubles.  What is annualised or taken    *)
(* from a variance (CAGR, Sharpe, Sortino, Calmar) is left out.            *)
(***************************************************************************)
EXTENDS Report

Ratio(num, den) == [num |-> num, den |-> den]

Less(f, g) == f.num * g.den < g.num * f.den

HighWater(m, i) == Max({m[j].equity : j \in 1 .. i})

Drawdowns(m) == {Ratio(m[i].equity - HighWater(m, i), HighWater(m, i)) : i \in DOMAIN m}

MaxDrawdown(m) ==
    CHOOSE deepest \in Drawdowns(m) : \A d \in Drawdowns(m) : ~Less(d, deepest)

\* Fault: the last day is not counted.
InvestedDaysButLast(m) == Cardinality({i \in 2 .. Len(m) - 1 : m[i].quantity # 0})

\* The count starts at the second mark.
InvestedDays(m) == Cardinality({i \in 2 .. Len(m) : m[i].quantity # 0})

Winners(trades) == {i \in DOMAIN trades : trades[i].profit >= 0}

Gross(trades, S) == Total([i \in DOMAIN trades |-> trades[i].profit], S)

Measurable(m) == Len(m) >= 2 /\ m[1].equity > 0 /\ m[1].close > 0

ComputeMetrics(m, trades) ==
    IF ~Measurable(m) THEN [valid |-> FALSE]
    ELSE LET won == Winners(trades)
             lost == DOMAIN trades \ won
         IN  [valid |-> TRUE,
              days |-> Len(m),
              total_return |-> Ratio(Last(m).equity - m[1].equity, m[1].equity),
              benchmark_return |-> Ratio(Last(m).close - m[1].close, m[1].close),
              max_drawdown |-> MaxDrawdown(m),
              exposure |-> Ratio(InvestedDays(m), Len(m)),
              gross_win |-> Gross(trades, won), wins |-> Cardinality(won),
              gross_loss |-> -Gross(trades, lost), losses |-> Cardinality(lost),
              expectancy |-> Ratio(Gross(trades, won) + Gross(trades, lost), Len(trades))]
=============================================================================
