------------------------- MODULE ScheduledRunProofs -------------------------
(***************************************************************************)
(* What a scheduled run decides, for every set of bars, every length of    *)
(* the warm-up from two bars on and any number of days: when today's bar   *)
(* does not count and when a run acts on something else than the last      *)
(* complete bar, and that a warm-up over all there is makes the strategy   *)
(* of a process that has seen it all.                                      *)
(*                                                                         *)
(* Both rest on the warm-up going bar by bar: FoldLeft is a fold over the  *)
(* indices of a sequence, the last one taken off first.                    *)
(***************************************************************************)
EXTENDS ScheduledRun, WellFoundedInduction, SequenceTheorems, TLAPS

(* Induction in the form of a set of numbers, which the provers can use.   *)
Less == OpToRel(<, Nat)

LEMMA SetInduction ==
  ASSUME NEW S, 0 \in S, \A n \in Nat : n \in S => n + 1 \in S
  PROVE  Nat \subseteq S
<1> DEFINE T == Nat \ S
<1> SUFFICES ASSUME T # {} PROVE FALSE
  OBVIOUS
<1>1. PICK n \in T : \A m \in T : <<m, n>> \notin Less
  <2>1. IsWellFoundedOn(Less, Nat)
    BY NatLessThanWellFounded DEF Less
  <2>2. T \subseteq Nat
    OBVIOUS
  <2> HIDE DEF T
  <2> QED
    BY <2>1, <2>2, WFMin
<1>2. n \in Nat /\ n # 0
  OBVIOUS
<1>3. n - 1 \in Nat /\ <<n - 1, n>> \in Less
  BY <1>2 DEF Less, OpToRel
<1>4. n - 1 \in S
  BY <1>1, <1>3
<1>5. n - 1 + 1 = n
  BY <1>2
<1> QED
  BY <1>2, <1>3, <1>4, <1>5

-----------------------------------------------------------------------------
(* The warm-up, bar by bar *)

\* it[S] is what the bars of list at the places in S make of s.
IsWarming(s, list, n, it) ==
    it = [S \in SUBSET (1..n) |-> IF S = {} THEN s ELSE OnBar(it[S \ {Max(S)}], list[Max(S)])]

LEMMA Largest ==
  ASSUME NEW n \in Nat \ {0}, NEW S \in SUBSET (1..n), n \in S
  PROVE  Max(S) = n
<1>1. \A x \in S : n >= x
  OBVIOUS
<1>2. \A y \in S : (\A x \in S : y >= x) => y = n
  BY <1>1
<1> QED
  BY <1>1, <1>2 DEF Max

LEMMA WarmingExists ==
  ASSUME NEW s, NEW list
  PROVE  \A n \in Nat : \E it : IsWarming(s, list, n, it)
<1> DEFINE N == {n \in Nat : \E it : IsWarming(s, list, n, it)}
<1>1. 0 \in N
  <2> DEFINE it == [S \in SUBSET (1..0) |-> s]
  <2>1. \A S \in SUBSET (1..0) : S = {}
    OBVIOUS
  <2>2. IsWarming(s, list, 0, it)
    BY <2>1 DEF IsWarming
  <2> QED
    BY <2>2
<1>2. ASSUME NEW n \in Nat, n \in N
      PROVE  n + 1 \in N
  <2>1. PICK h : IsWarming(s, list, n, h)
    BY <1>2
  <2> DEFINE g == [S \in SUBSET (1..(n + 1)) |->
                     IF S = {} THEN s ELSE OnBar(h[S \ {Max(S)}], list[Max(S)])]
  <2>2. 1..n \subseteq 1..(n + 1)
    OBVIOUS
  <2>3. \A S \in SUBSET (1..n) : g[S] = h[S]
    BY <2>1, <2>2 DEF IsWarming
  <2>4. ASSUME NEW S \in SUBSET (1..(n + 1)), S # {}
        PROVE  S \ {Max(S)} \in SUBSET (1..n)
    <3>1. CASE n + 1 \in S
      <4>1. Max(S) = n + 1
        BY <3>1, Largest
      <4> QED
        BY <4>1
    <3>2. CASE n + 1 \notin S
      <4>1. \A x \in S : x \in 1..(n + 1) /\ x # n + 1
        BY <3>2
      <4>2. \A x \in S : x \in 1..n
        BY <4>1
      <4> QED
        BY <4>2
    <3> QED
      BY <3>1, <3>2
  <2>5. \A S \in SUBSET (1..(n + 1)) :
          g[S] = IF S = {} THEN s ELSE OnBar(g[S \ {Max(S)}], list[Max(S)])
    BY <2>3, <2>4
  <2>6. IsWarming(s, list, n + 1, g)
    <3>1. g = [S \in SUBSET (1..(n + 1)) |-> g[S]]
      OBVIOUS
    <3> HIDE DEF g
    <3> QED
      BY <2>5, <3>1 DEF IsWarming
  <2> QED
    BY <2>6
<1>3. Nat \subseteq N
  <2> HIDE DEF N
  <2> QED
    BY <1>1, <1>2, SetInduction
<1> QED
  BY <1>3

\* The bars at the first places make the same of s in two sequences that
\* begin alike.
LEMMA WarmingSame ==
  ASSUME NEW s, NEW list, NEW longer, NEW n \in Nat,
         NEW it, IsWarming(s, list, n, it),
         NEW jt, IsWarming(s, longer, n + 1, jt),
         \A i \in 1..n : list[i] = longer[i]
  PROVE  it[1..n] = jt[1..n]
<1> DEFINE N == {i \in Nat : i <= n => it[1..i] = jt[1..i]}
<1>0. /\ \A S \in SUBSET (1..n) :
           it[S] = IF S = {} THEN s ELSE OnBar(it[S \ {Max(S)}], list[Max(S)])
      /\ \A S \in SUBSET (1..(n + 1)) :
           jt[S] = IF S = {} THEN s ELSE OnBar(jt[S \ {Max(S)}], longer[Max(S)])
  BY DEF IsWarming
<1>1. 0 \in N
  <2>1. 1..0 = {}
    OBVIOUS
  <2> QED
    BY <1>0, <2>1
<1>2. ASSUME NEW i \in Nat, i \in N
      PROVE  i + 1 \in N
  <2> SUFFICES ASSUME i + 1 <= n
               PROVE  it[1..(i + 1)] = jt[1..(i + 1)]
    OBVIOUS
  <2>1. /\ 1..(i + 1) \in SUBSET (1..n) /\ 1..(i + 1) \in SUBSET (1..(n + 1))
        /\ i + 1 \in 1..(i + 1)
    OBVIOUS
  <2>2. Max(1..(i + 1)) = i + 1 /\ (1..(i + 1)) \ {i + 1} = 1..i
    BY Largest
  <2>3. it[1..(i + 1)] = OnBar(it[1..i], list[i + 1])
    BY <1>0, <2>1, <2>2
  <2>4. jt[1..(i + 1)] = OnBar(jt[1..i], longer[i + 1])
    BY <1>0, <2>1, <2>2
  <2>5. it[1..i] = jt[1..i] /\ list[i + 1] = longer[i + 1]
    BY <1>2, <2>1
  <2> QED
    BY <2>3, <2>4, <2>5
<1>3. Nat \subseteq N
  <2> HIDE DEF N
  <2> QED
    BY <1>1, <1>2, SetInduction
<1> QED
  BY <1>3

LEMMA WarmingFolds ==
  ASSUME NEW s, NEW list, NEW n \in Nat, DOMAIN list = 1..n
  PROVE  \E it : IsWarming(s, list, n, it) /\ FoldLeft(OnBar, s, list) = it[1..n]
<1> DEFINE it == CHOOSE i : IsWarming(s, list, n, i)
<1>1. IsWarming(s, list, n, it)
  BY WarmingExists
<1>2. FoldLeft(OnBar, s, list) = it[1..n]
  BY DEF FoldLeft, MapThenFoldSet, IsWarming
<1> QED
  BY <1>1, <1>2

\* No bar, no change.
LEMMA WarmedByNone == ASSUME NEW s PROVE FoldLeft(OnBar, s, <<>>) = s
<1>1. DOMAIN <<>> = 1..0 /\ 1..0 = {}
  OBVIOUS
<1>2. PICK it : IsWarming(s, <<>>, 0, it) /\ FoldLeft(OnBar, s, <<>>) = it[1..0]
  BY <1>1, WarmingFolds
<1> QED
  BY <1>1, <1>2 DEF IsWarming

\* Warming up on one bar more is warming up and then acting on that bar.
LEMMA WarmedByOneMore ==
  ASSUME NEW s, NEW list \in Seq(Bars), NEW bar \in Bars
  PROVE  FoldLeft(OnBar, s, Append(list, bar)) = OnBar(FoldLeft(OnBar, s, list), bar)
<1> DEFINE longer == Append(list, bar)
           n == Len(list)
<1>1. /\ n \in Nat /\ DOMAIN list = 1..n /\ DOMAIN longer = 1..(n + 1)
      /\ longer[n + 1] = bar /\ \A i \in 1..n : list[i] = longer[i]
  OBVIOUS
<1> HIDE DEF longer, n
<1>2. PICK it : IsWarming(s, list, n, it) /\ FoldLeft(OnBar, s, list) = it[1..n]
  BY <1>1, WarmingFolds
<1>3. PICK jt : IsWarming(s, longer, n + 1, jt) /\ FoldLeft(OnBar, s, longer) = jt[1..(n + 1)]
  BY <1>1, WarmingFolds
<1>4. it[1..n] = jt[1..n]
  BY <1>1, <1>2, <1>3, WarmingSame
<1>5. /\ 1..(n + 1) \in SUBSET (1..(n + 1)) /\ n + 1 \in 1..(n + 1)
      /\ (1..(n + 1)) \ {n + 1} = 1..n
  BY <1>1
<1>6. Max(1..(n + 1)) = n + 1
  BY <1>1, <1>5, Largest
<1>7. jt[1..(n + 1)] = OnBar(jt[1..n], longer[n + 1])
  BY <1>3, <1>5, <1>6 DEF IsWarming
<1> QED
  BY <1>1, <1>2, <1>3, <1>4, <1>7 DEF longer

LEMMA FrontAndLast ==
  ASSUME NEW list \in Seq(Bars), list # <<>>
  PROVE  /\ Front(list) \in Seq(Bars) /\ Last(list) \in Bars
         /\ list = Append(Front(list), Last(list))
<1>1. Len(list) \in Nat \ {0} /\ Last(list) = list[Len(list)] /\ Last(list) \in Bars
  BY DEF Last
<1>2. Front(list) \in Seq(Bars) /\ Len(Front(list)) = Len(list) - 1
  <2>1. \A i \in 1..(Len(list) - 1) : list[i] \in Bars
    BY <1>1
  <2>2. Len(list) - 1 \in Nat /\ 1 \in Int
    BY <1>1
  <2>3. /\ SubSeq(list, 1, Len(list) - 1) \in Seq(Bars)
        /\ Len(SubSeq(list, 1, Len(list) - 1))
             = IF 1 <= Len(list) - 1 THEN Len(list) - 1 - 1 + 1 ELSE 0
    BY <2>1, <2>2, SubSeqProperties
  <2>4. Front(list) = SubSeq(list, 1, Len(list) - 1)
    BY DEF Front
  <2>5. \A k \in Nat : (IF 1 <= k THEN k - 1 + 1 ELSE 0) = k
    OBVIOUS
  <2> QED
    BY <2>2, <2>3, <2>4, <2>5
<1>3. \A i \in 1..(Len(list) - 1) : Front(list)[i] = list[i]
  BY <1>1, SubSeqProperties DEF Front
<1> DEFINE again == Append(Front(list), Last(list))
<1>4. /\ again \in Seq(Bars) /\ Len(again) = Len(list)
      /\ \A i \in 1..Len(list) : again[i] = list[i]
  BY <1>1, <1>2, <1>3
<1> HIDE DEF again
<1>5. again = list
  BY <1>4
<1> QED
  BY <1>1, <1>2, <1>5 DEF again

-----------------------------------------------------------------------------
(* An instance stays of its kind. *)

Members == {"kind", "closes", "highs", "lows", "was_above", "primed", "holding"}

HasMembers(s) == DOMAIN s = Members /\ s = [m \in Members |-> s[m]]

LEMMA NewHasMembers ==
  ASSUME NEW kind
  PROVE  HasMembers(New(kind)) /\ New(kind).kind = kind
BY DEF HasMembers, Members, New

LEMMA OnBarKeepsKind ==
  ASSUME NEW s, HasMembers(s), s.kind \in Kinds, NEW bar
  PROVE  HasMembers(OnBar(s, bar)) /\ OnBar(s, bar).kind = s.kind
<1>1. CASE s.kind = "SmaCrossover"
  BY <1>1 DEF OnBar, SmaCrossover, HasMembers, Members
<1>2. CASE s.kind = "MeanReversion"
  BY <1>2 DEF OnBar, MeanReversion, HasMembers, Members
<1>3. CASE s.kind = "Momentum"
  BY <1>3 DEF OnBar, Momentum, HasMembers, Members
<1>4. CASE s.kind = "Breakout"
  BY <1>4 DEF OnBar, Breakout, HasMembers, Members
<1> QED
  BY <1>1, <1>2, <1>3, <1>4 DEF Kinds
-----------------------------------------------------------------------------
(* The invariant *)

\* The complete bars in the history of a run, with today's bar behind them and
\* without.
Complete == SubSeq(bars, Max({1, Len(bars) - Warmup + 2}), Len(bars))
Full == SubSeq(bars, Max({1, Len(bars) - Warmup + 1}), Len(bars))

\* There is a bar of today only while the market is open.
TodayOK == today = <<>> \/ (is_open /\ \E bar \in Bars : today = <<bar>>)

\* A process that is never restarted keeps its strategy warm.
SteadyIsWarm ==
    /\ HasMembers(steady) /\ steady.kind \in Kinds
    /\ steady = FoldLeft(OnBar, New(steady.kind), bars)

RunOK == run.days \in Nat /\ run.days <= Len(bars)

\* A run in time took the decision of the complete bars.
DecidedOnComplete ==
    InTime(run) /\ run.days = Len(bars) =>
        run.weight = Decision(IF run.traded THEN Complete ELSE Full)

RunInv ==
    /\ bars \in Seq(Bars)
    /\ TodayOK
    /\ SteadyIsWarm
    /\ RunOK
    /\ DecidedOnComplete
    /\ LatestInTime
    /\ WarmUpIsExact

LEMMA InitInv == Init => RunInv
<1> SUFFICES ASSUME Init PROVE RunInv
  OBVIOUS
<1>1. PICK kind \in Kinds : steady = New(kind)
  BY DEF Init
<1>2. SteadyIsWarm
  BY <1>1, NewHasMembers, WarmedByNone DEF SteadyIsWarm, Init
<1>3. bars \in Seq(Bars) /\ Len(bars) = 0
  BY DEF Init
<1> QED
  BY <1>2, <1>3 DEF RunInv, Init, NoRun, TodayOK, RunOK, DecidedOnComplete, InTime, LatestInTime,
                    WarmUpIsExact

LEMMA OpenMarketInv == ASSUME RunInv, OpenMarket PROVE RunInv'
<1>1. UNCHANGED <<bars, today, clock, steady, run>> /\ is_open' = TRUE
  BY DEF OpenMarket
<1>2. TodayOK'
  BY <1>1 DEF RunInv, TodayOK
<1> QED
  BY <1>1, <1>2 DEF RunInv, SteadyIsWarm, RunOK, DecidedOnComplete, LatestInTime,
                    WarmUpIsExact, Decision, WarmedOn, Complete, Full

LEMMA TradeInv == ASSUME RunInv, NEW bar \in Bars, Trade(bar) PROVE RunInv'
<1>1. UNCHANGED <<bars, is_open, clock, steady, run>> /\ is_open /\ today' = <<bar>>
  BY DEF Trade
<1>2. TodayOK'
  BY <1>1 DEF TodayOK
<1> QED
  BY <1>1, <1>2 DEF RunInv, SteadyIsWarm, RunOK, DecidedOnComplete, LatestInTime,
                    WarmUpIsExact, Decision, WarmedOn, Complete, Full

\* A day that did not trade leaves no bar; one that did is a day more than the
\* last run can have known of.
LEMMA CloseMarketInv == ASSUME RunInv, CloseMarket PROVE RunInv'
<1>1. /\ today' = <<>> /\ bars' = bars \o today /\ run' = run
      /\ steady' = FoldLeft(OnBar, steady, today)
  BY DEF CloseMarket
<1>2. /\ bars \in Seq(Bars) /\ SteadyIsWarm /\ WarmUpIsExact /\ LatestInTime
      /\ Len(bars) \in Nat
  BY DEF RunInv
<1>3. TodayOK' /\ WarmUpIsExact' /\ LatestInTime'
  BY <1>1, <1>2 DEF TodayOK, WarmUpIsExact, LatestInTime
<1>4. CASE today = <<>>
  <2>1. bars' = bars
    BY <1>1, <1>2, <1>4, ConcatEmptySeq
  <2>2. steady' = steady
    BY <1>1, <1>4, WarmedByNone
  <2> QED
    BY <1>1, <1>3, <2>1, <2>2 DEF RunInv, SteadyIsWarm, RunOK, DecidedOnComplete,
                                  Decision, WarmedOn, Complete, Full
<1>5. CASE today # <<>>
  <2>1. PICK bar \in Bars : today = <<bar>>
    BY <1>5 DEF RunInv, TodayOK
  <2>2. bars' = Append(bars, bar)
    BY <1>1, <1>2, <2>1
  <2>3. bars' \in Seq(Bars) /\ Len(bars') = Len(bars) + 1
    BY <1>2, <2>1, <2>2
  <2>4. steady' = OnBar(steady, bar)
    <3>1. <<bar>> = Append(<<>>, bar) /\ <<>> \in Seq(Bars)
      OBVIOUS
    <3> QED
      BY <1>1, <2>1, <3>1, WarmedByNone, WarmedByOneMore
  <2>5. HasMembers(steady') /\ steady'.kind = steady.kind
    BY <1>2, <2>4, OnBarKeepsKind DEF SteadyIsWarm
  <2>6. steady' = FoldLeft(OnBar, New(steady'.kind), bars')
    BY <1>2, <2>2, <2>4, <2>5, WarmedByOneMore DEF SteadyIsWarm
  <2>7. SteadyIsWarm'
    BY <1>2, <2>5, <2>6 DEF SteadyIsWarm
  <2>8. RunOK' /\ DecidedOnComplete'
    BY <1>1, <1>2, <2>3 DEF RunInv, RunOK, DecidedOnComplete
  <2> QED
    BY <1>3, <2>3, <2>7, <2>8 DEF RunInv
<1> QED
  BY <1>4, <1>5

LEMMA GreaterThanOne ==
  ASSUME NEW x \in Int
  PROVE  Max({1, x}) = IF x <= 1 THEN 1 ELSE x
<1>1. CASE x <= 1
  <2>1. \A y \in {1, x} : (\A z \in {1, x} : y >= z) => y = 1
    BY <1>1
  <2>2. 1 \in {1, x} /\ \A z \in {1, x} : 1 >= z
    BY <1>1
  <2> QED
    BY <1>1, <2>1, <2>2 DEF Max
<1>2. CASE x > 1
  <2>1. \A y \in {1, x} : (\A z \in {1, x} : y >= z) => y = x
    BY <1>2
  <2>2. x \in {1, x} /\ \A z \in {1, x} : x >= z
    BY <1>2
  <2> QED
    BY <1>2, <2>1, <2>2 DEF Max
<1> QED
  BY <1>1, <1>2

\* What is asked for is the last bars of a list, or the list.
LEMMA LastOnes ==
  ASSUME NEW list \in Seq(Bars), NEW h,
         h = SubSeq(list, Max({1, Len(list) - Warmup + 1}), Len(list))
  PROVE  /\ h \in Seq(Bars)
         /\ Len(list) < Warmup => Len(h) = Len(list)
         /\ Len(list) >= Warmup => Len(h) = Warmup
<1> DEFINE n == Len(list)
           b == Max({1, n - Warmup + 1})
<1>1. n \in Nat /\ Warmup \in Nat /\ Warmup > 1 /\ \A i \in 1..n : list[i] \in Bars
  BY BarsAssumption
<1>2. n < Warmup => b = 1
  BY <1>1, GreaterThanOne
<1>3. n >= Warmup => b = n - Warmup + 1
  BY <1>1, GreaterThanOne
<1>4. h = SubSeq(list, b, n)
  OBVIOUS
<1> HIDE DEF b, n
<1>5. b \in Int /\ b >= 1 /\ n \in Int
  BY <1>1, <1>2, <1>3
<1>6. \A i \in b..n : list[i] \in Bars
  BY <1>1, <1>5
<1>7. /\ SubSeq(list, b, n) \in Seq(Bars)
      /\ Len(SubSeq(list, b, n)) = IF b <= n THEN n - b + 1 ELSE 0
  BY <1>5, <1>6, SubSeqProperties
<1>a. Len(h) = IF b <= n THEN n - b + 1 ELSE 0
  BY <1>4, <1>7
<1> DEFINE k == Len(h)
<1> HIDE DEF k
<1>b. k = IF b <= n THEN n - b + 1 ELSE 0
  BY <1>a DEF k
<1>8. n < Warmup => k = n
  BY <1>1, <1>2, <1>5, <1>b
<1>9. n >= Warmup => k = Warmup
  BY <1>1, <1>3, <1>5, <1>b
<1> QED
  BY <1>4, <1>7, <1>8, <1>9 DEF n, k

\* On a day that has traded, and not the first, what is left of the history is
\* the bars of the days before, as far back as the history goes.
LEMMA TodayIsLeftOut ==
  ASSUME RunInv, clock = "open", today # <<>>, Len(bars) > 0
  PROVE  Completed(History) = Complete
<1>1. PICK bar \in Bars : today = <<bar>> /\ is_open
  BY DEF RunInv, TodayOK
<1> DEFINE all == Append(bars, bar)
           n == Len(bars)
           b == Max({1, n - Warmup + 2})
<1>2. n \in Nat \ {0} /\ all \in Seq(Bars) /\ Len(all) = n + 1 /\ bars \o today = all
  BY <1>1 DEF RunInv
<1>3. \A i \in 1..n : all[i] = bars[i]
  BY <1>2 DEF RunInv
<1>4. b \in 1..n
  <2>1. n - Warmup + 2 \in Int /\ n - Warmup + 2 <= n
    BY <1>2, BarsAssumption
  <2>2. ASSUME NEW x \in Int, x <= n PROVE Max({1, x}) \in 1..n
    BY <1>2, <2>2, GreaterThanOne
  <2> QED
    BY <2>1, <2>2
<1>5. (n + 1) - Warmup + 1 = n - Warmup + 2
  BY <1>2, BarsAssumption
<1>6. History = SubSeq(all, b, n + 1)
  <2>1. bars \o today = all /\ Len(bars \o today) = n + 1
    BY <1>2
  <2> HIDE DEF all, n
  <2> QED
    BY <1>5, <2>1 DEF History
<1> HIDE DEF all, b, n
<1>7. /\ History \in Seq(Bars) /\ Len(History) = n + 2 - b
      /\ \A i \in 1..(n + 2 - b) : History[i] = all[b + i - 1]
  <2>1. \A i \in b..(n + 1) : all[i] \in Bars
    BY <1>2, <1>4
  <2>2. b \in Int /\ n + 1 \in Int /\ b <= n + 1 /\ (n + 1) - b + 1 = n + 2 - b
    BY <1>2, <1>4
  <2>3. /\ SubSeq(all, b, n + 1) \in Seq(Bars)
        /\ Len(SubSeq(all, b, n + 1)) = (n + 1) - b + 1
        /\ \A i \in 1..((n + 1) - b + 1) : SubSeq(all, b, n + 1)[i] = all[b + i - 1]
    BY <2>1, <2>2, SubSeqProperties
  <2> QED
    BY <1>6, <2>2, <2>3
<1>8. /\ Complete \in Seq(Bars) /\ Len(Complete) = n + 1 - b
      /\ \A i \in 1..(n + 1 - b) : Complete[i] = bars[b + i - 1]
  <2>1. \A i \in b..n : bars[i] \in Bars
    BY <1>2, <1>4 DEF RunInv, n
  <2>2. b \in Int /\ n \in Int /\ b <= n /\ n - b + 1 = n + 1 - b
    BY <1>2, <1>4
  <2>3. Complete = SubSeq(bars, b, n)
    BY DEF Complete, b, n
  <2> QED
    BY <2>1, <2>2, <2>3, SubSeqProperties
<1>9. Len(History) > 1 /\ History # <<>>
  BY <1>2, <1>4, <1>7
<1>10. Completed(History) = Front(History)
  BY <1>1, <1>9 DEF Completed
<1>11. /\ Front(History) \in Seq(Bars) /\ Len(Front(History)) = n + 1 - b
       /\ \A i \in 1..(n + 1 - b) : Front(History)[i] = History[i]
  <2>1. Len(History) - 1 \in Int /\ Len(History) - 1 = n + 1 - b /\ 1 <= n + 1 - b
    BY <1>2, <1>4, <1>7
  <2>2. \A i \in 1..(n + 1 - b) : History[i] \in Bars
    BY <1>7, <2>1
  <2>3. /\ n + 1 - b \in Int /\ n + 1 - b - 1 + 1 = n + 1 - b
        /\ \A i \in 1..(n + 1 - b) : 1 + i - 1 = i
    BY <1>2, <1>4
  <2>4. Front(History) = SubSeq(History, 1, n + 1 - b)
    BY <2>1 DEF Front
  <2> QED
    BY <2>1, <2>2, <2>3, <2>4, SubSeqProperties
<1>12. \A i \in 1..(n + 1 - b) : Front(History)[i] = Complete[i]
  <2> SUFFICES ASSUME NEW i \in 1..(n + 1 - b)
               PROVE  Front(History)[i] = Complete[i]
    OBVIOUS
  <2>1. i \in 1..(n + 2 - b) /\ b + i - 1 \in 1..n
    BY <1>2, <1>4
  <2> QED
    BY <1>3, <1>7, <1>8, <1>11, <2>1
<1>13. Front(History) = Complete
  BY <1>8, <1>11, <1>12, SeqEqual
<1> QED
  BY <1>10, <1>13

\* Before today's first trade it is all complete bars.
LEMMA HistoryIsFull ==
  ASSUME RunInv, today = <<>>
  PROVE  History = Full
<1>1. bars \o today = bars
  BY ConcatEmptySeq DEF RunInv
<1> QED
  BY <1>1 DEF History, Full

\* A history has several bars exactly if there are several.
LEMMA HistoryLength ==
  ASSUME RunInv
  PROVE  /\ History \in Seq(Bars) /\ Len(History) \in Nat
         /\ Len(today) = IF today = <<>> THEN 0 ELSE 1
         /\ Len(History) > 1 <=> Len(bars) + Len(today) > 1
         /\ History # <<>> => Len(bars) + Len(today) > 0
<1>1. /\ bars \in Seq(Bars) /\ today \in Seq(Bars)
      /\ Len(today) = IF today = <<>> THEN 0 ELSE 1
  <2>1. CASE today = <<>>
    BY <2>1 DEF RunInv
  <2>2. CASE today # <<>>
    <3>1. PICK bar \in Bars : today = <<bar>>
      BY <2>2 DEF RunInv, TodayOK
    <3> QED
      BY <2>2, <3>1 DEF RunInv
  <2> QED
    BY <2>1, <2>2
<1> DEFINE all == bars \o today
<1>2. all \in Seq(Bars) /\ Len(all) = Len(bars) + Len(today)
  BY <1>1, ConcatProperties
<1>3. History = SubSeq(all, Max({1, Len(all) - Warmup + 1}), Len(all))
  BY DEF History
<1> HIDE DEF all
<1>4. /\ History \in Seq(Bars)
      /\ Len(all) < Warmup => Len(History) = Len(all)
      /\ Len(all) >= Warmup => Len(History) = Warmup
  BY <1>2, <1>3, LastOnes
<1>5. Warmup \in Nat /\ Warmup > 1 /\ Len(all) \in Nat /\ Len(History) \in Nat
  BY <1>2, <1>4, BarsAssumption
<1>6. History # <<>> => Len(History) # 0
  BY <1>4
<1> QED
  BY <1>1, <1>2, <1>4, <1>5, <1>6

LEMMA DecideInv == ASSUME RunInv, Decide PROVE RunInv'
<1> DEFINE history == Completed(History)
           t == Len(today)
<1>1. /\ history # <<>>
      /\ run' = [days |-> Len(bars), traded |-> today # <<>>, open |-> clock = "open",
                 latest |-> Len(History) - Len(history) = t,
                 covered |-> history = bars,
                 weight |-> Decision(history), wanted |-> Weight(steady)]
      /\ UNCHANGED <<bars, today, is_open, steady>>
  BY DEF Decide
<1>2. bars \in Seq(Bars) /\ Len(bars) \in Nat /\ SteadyIsWarm
  BY DEF RunInv
<1>3. RunOK'
  BY <1>1, <1>2 DEF RunOK
<1>4. /\ History \in Seq(Bars) /\ Len(History) \in Nat
      /\ t = (IF today = <<>> THEN 0 ELSE 1)
      /\ Len(History) > 1 <=> Len(bars) + t > 1
      /\ History # <<>> => Len(bars) + t > 0
  BY HistoryLength
<1>5. history = IF clock = "open" /\ Len(bars) + t > 1 THEN Front(History) ELSE History
  BY <1>4 DEF Completed
<1>6. InTime(run') <=> \/ Len(bars) > 0 /\ (clock = "open" <=> today # <<>>)
                       \/ Len(bars) = 1 /\ today = <<>>
  BY <1>1 DEF InTime
<1>7. DecidedOnComplete'
  <2> SUFFICES ASSUME InTime(run')
               PROVE  history = IF today # <<>> THEN Complete ELSE Full
    BY <1>1 DEF DecidedOnComplete, Decision, WarmedOn, Complete, Full
  <2>1. CASE today # <<>>
    BY <1>2, <1>6, <2>1, TodayIsLeftOut
  <2>2. CASE today = <<>>
    <3>1. t = 0
      BY <1>4, <2>2
    <3>2. clock # "open" \/ Len(bars) = 1
      BY <1>6, <2>2
    <3>3. Len(bars) = 1 => ~(Len(bars) + t > 1)
      BY <3>1
    <3>4. ~(clock = "open" /\ Len(bars) + t > 1)
      BY <3>2, <3>3
    <3> QED
      BY <1>5, <2>2, <3>4, HistoryIsFull
  <2> QED
    BY <2>1, <2>2
<1>8. LatestInTime'
  <2>1. History # <<>>
    <3> SUFFICES ASSUME History = <<>> PROVE history = <<>>
      BY <1>1
    <3>1. ~(Len(History) > 1)
      OBVIOUS
    <3> QED
      BY <3>1 DEF Completed
  <2>2. Len(Front(History)) = Len(History) - 1
    <3>1. /\ Front(History) \in Seq(Bars)
          /\ History = Append(Front(History), Last(History))
      BY <1>4, <2>1, FrontAndLast
    <3>2. Len(Append(Front(History), Last(History))) = Len(Front(History)) + 1
      BY <3>1
    <3> QED
      BY <1>4, <3>1, <3>2
  <2>3. Len(History) - Len(history) = IF clock = "open" /\ Len(bars) + t > 1 THEN 1 ELSE 0
    <3> DEFINE k == Len(History)
    <3>1. k \in Nat /\ Len(Front(History)) = k - 1
      BY <1>4, <2>2
    <3>2. Len(history) = IF clock = "open" /\ Len(bars) + t > 1 THEN k - 1 ELSE k
      BY <1>5, <3>1
    <3> HIDE DEF k, t
    <3>3. k - Len(history) = IF clock = "open" /\ Len(bars) + t > 1 THEN 1 ELSE 0
      BY <3>1, <3>2
    <3> QED
      BY <3>3 DEF k
  <2>4. (Len(History) - Len(history) = t) <=> InTime(run')
    <3> DEFINE n == Len(bars)
               dropped == Len(History) - Len(history)
    <3>1. /\ n \in Nat /\ t = (IF today = <<>> THEN 0 ELSE 1) /\ n + t > 0
          /\ dropped = IF clock = "open" /\ n + t > 1 THEN 1 ELSE 0
          /\ InTime(run') <=> \/ n > 0 /\ (clock = "open" <=> today # <<>>)
                              \/ n = 1 /\ today = <<>>
      BY <1>2, <1>4, <1>6, <2>1, <2>3
    <3> HIDE DEF n, t, dropped
    <3>2. ASSUME today = <<>> PROVE dropped = t <=> InTime(run')
      BY <3>1, <3>2
    <3>3. ASSUME today # <<>> PROVE dropped = t <=> InTime(run')
      BY <3>1, <3>3
    <3>4. dropped = t <=> InTime(run')
      BY <3>2, <3>3
    <3> QED
      BY <3>4 DEF dropped
  <2>5. run'.latest <=> InTime(run')
    BY <1>1, <2>4
  <2> QED
    BY <2>5 DEF LatestInTime, InTime
<1>9. WarmUpIsExact'
  <2> SUFFICES ASSUME history = bars
               PROVE  Decision(bars) = Weight(steady)
    BY <1>1 DEF WarmUpIsExact
  <2>1. /\ Front(bars) \in Seq(Bars) /\ Last(bars) \in Bars
        /\ bars = Append(Front(bars), Last(bars))
    BY <1>1, <1>2, FrontAndLast
  <2>2. FoldLeft(OnBar, New(steady.kind), Append(Front(bars), Last(bars)))
          = OnBar(FoldLeft(OnBar, New(steady.kind), Front(bars)), Last(bars))
    BY <2>1, WarmedByOneMore
  <2>3. steady = OnBar(WarmedOn(bars), Last(bars))
    BY <1>2, <2>1, <2>2 DEF SteadyIsWarm, WarmedOn
  <2> QED
    BY <2>3 DEF Decision
<1> QED
  BY <1>1, <1>2, <1>3, <1>7, <1>8, <1>9 DEF RunInv, TodayOK, SteadyIsWarm

\* What a run reads before it comes to the symbol, or its end, decides nothing.
LEMMA ClockInv == ASSUME RunInv, ReadClock \/ PassOver PROVE RunInv'
<1>1. UNCHANGED <<bars, today, is_open, steady, run>>
  BY DEF ReadClock, PassOver
<1> QED
  BY <1>1 DEF RunInv, TodayOK, SteadyIsWarm, RunOK, DecidedOnComplete, LatestInTime,
              WarmUpIsExact, Decision, WarmedOn, Complete, Full

LEMMA StutterInv == ASSUME RunInv, UNCHANGED vars PROVE RunInv'
BY DEF RunInv, TodayOK, SteadyIsWarm, RunOK, DecidedOnComplete, LatestInTime, WarmUpIsExact,
       Decision, WarmedOn, Complete, Full, vars

LEMMA NextInv == RunInv /\ [Next]_vars => RunInv'
BY OpenMarketInv, TradeInv, CloseMarketInv, DecideInv, ClockInv, StutterInv DEF Next

\* The inductive invariant: the steady strategy is the warm-up over all ended days,
\* a run that read clock and bars in time decided on the complete bars there still
\* are, and one that did not acted on another bar than the last of them.
THEOREM Invariance == Spec => []RunInv
BY InitInv, NextInv, PTL DEF Spec

\* For every length of the warm-up, a run acts on the last complete bar exactly if
\* today's bar was among those it read exactly when the clock had said open, or a
\* complete bar was all there was (run_once, live.cpp:177 to 198).
THEOREM LatestExactlyInTime == Spec => []LatestInTime
<1>1. RunInv => LatestInTime
  BY DEF RunInv
<1> QED
  BY <1>1, Invariance, PTL

\* For every length of the warm-up, a run whose history reaches back to the first
\* bar decides what a process that was never restarted would (run_once).
THEOREM WarmUpAlwaysExact == Spec => []WarmUpIsExact
<1>1. RunInv => WarmUpIsExact
  BY DEF RunInv
<1> QED
  BY <1>1, Invariance, PTL

\* A history that is not full is all complete bars, with today's bar and without.
LEMMA NotFull == ASSUME bars \in Seq(Bars), Len(bars) < Warmup PROVE Complete = Full
<1>1. Len(bars) - Warmup + 2 \in Int /\ Len(bars) - Warmup + 2 <= 1
  BY BarsAssumption
<1>2. Len(bars) - Warmup + 1 \in Int /\ Len(bars) - Warmup + 1 <= 1
  BY BarsAssumption
<1>3. Max({1, Len(bars) - Warmup + 2}) = 1 /\ Max({1, Len(bars) - Warmup + 1}) = 1
  BY <1>1, <1>2, GreaterThanOne
<1> QED
  BY <1>3 DEF Complete, Full

\* For every length of the warm-up, the runs between two closes take one decision,
\* whatever today's bar does between them, if each read clock and bars in time
\* (live.cpp:195).
THEOREM OneDecisionADay == Spec => TodayDoesNotCount
<1>1. RunInv /\ RunInv' /\ [Next]_vars => [SameDay => run'.weight = run.weight]_vars
  <2> SUFFICES ASSUME RunInv, RunInv', [Next]_vars, SameDay, run' # run
               PROVE  run'.weight = run.weight
    BY DEF vars
  <2>1. Decide
    BY DEF Next, OpenMarket, Trade, CloseMarket, ReadClock, PassOver, vars
  <2>2. run'.days = Len(bars) /\ UNCHANGED <<bars, steady>>
    BY <2>1 DEF Decide
  <2>3. run.weight = Decision(IF run.traded THEN Complete ELSE Full)
    BY <2>2 DEF RunInv, DecidedOnComplete, SameDay
  <2>4. run'.weight = Decision(IF run'.traded THEN Complete ELSE Full)
    BY <2>2 DEF RunInv, DecidedOnComplete, SameDay, Decision, WarmedOn, Complete, Full
  <2>5. run.traded = run'.traded \/ Complete = Full
    BY <2>2, NotFull DEF SameDay, RunInv
  <2> QED
    BY <2>3, <2>4, <2>5
<1> QED
  BY <1>1, Invariance, PTL DEF Spec, TodayDoesNotCount
=============================================================================
