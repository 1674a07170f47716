--------------------------- MODULE RestartProofs ---------------------------
(***************************************************************************)
(* Proofs about the ring buffer, what the strategies keep in it and what   *)
(* they make of it after a restart, for every capacity, every window and   *)
(* any number of bars.                                                     *)
(***************************************************************************)
EXTENDS Restart, FiniteSetTheorems, TLAPS

\* The theory of sums and of extremes, which needs nothing of its constant.
T == INSTANCE CommonTheorems WITH Symbols <- {}

-----------------------------------------------------------------------------
(* The ring *)

LEMMA Below == ASSUME NEW x \in 0 .. Capacity - 1 PROVE x % Capacity = x
BY RingAssumption

LEMMA Beyond == ASSUME NEW x \in Capacity .. 2 * Capacity - 1 PROVE x % Capacity = x - Capacity
BY RingAssumption

LEMMA EmptyIsRing == EmptyRing \in Ring
BY RingAssumption DEF EmptyRing, Ring, Slots

\* The head moves one slot on, and round at the end.
LEMMA NextHead ==
    ASSUME NEW head \in Slots
    PROVE  (head + 1) % Capacity = IF head + 1 = Capacity THEN 0 ELSE head + 1
<1>1. CASE head + 1 = Capacity
  BY <1>1, Beyond, RingAssumption DEF Slots
<1>2. CASE head + 1 # Capacity
  BY <1>2, Below, RingAssumption DEF Slots
<1> QED
  BY <1>1, <1>2

LEMMA PushIsRing ==
    ASSUME NEW ring \in Ring, NEW value \in Int
    PROVE  Push(ring, value) \in Ring
<1>1. (ring.head + 1) % Capacity \in Slots
  BY NextHead, RingAssumption DEF Ring, Slots
<1>2. Grown(ring.size) \in 0 .. Capacity
  BY RingAssumption DEF Grown, Ring
<1> QED
  BY <1>1, <1>2 DEF Push, Ring

\* The slot a value of a given age is read from.
LEMMA Slot ==
    ASSUME NEW head \in Slots, NEW age \in Slots
    PROVE  (head + Capacity - age) % Capacity = IF age <= head THEN head - age
                                                ELSE head - age + Capacity
<1>1. CASE age <= head
  <2>1. head + Capacity - age \in Capacity .. 2 * Capacity - 1
    BY <1>1, RingAssumption DEF Slots
  <2> QED
    BY <1>1, <2>1, Beyond, RingAssumption DEF Slots
<1>2. CASE age > head
  <2>1. head + Capacity - age \in 0 .. Capacity - 1
    BY <1>2, RingAssumption DEF Slots
  <2> QED
    BY <1>2, <2>1, Below, RingAssumption DEF Slots
<1> QED
  BY <1>1, <1>2, RingAssumption DEF Slots

\* What was pushed last is read at age zero (RingBuffer::push, operator[]).
THEOREM NewestFirst ==
    ASSUME NEW ring \in Ring, NEW value \in Int
    PROVE  At(Push(ring, value), 0) = value
<1> DEFINE head == (ring.head + 1) % Capacity
<1>1. head \in Slots
  BY NextHead, RingAssumption DEF Ring, Slots
<1>2. (head + Capacity - 0) % Capacity = head
  BY <1>1, Slot, RingAssumption DEF Slots
<1>3. Push(ring, value).head = head /\ Push(ring, value).data = [ring.data EXCEPT ![head] = value]
  BY DEF Push
<1>4. [ring.data EXCEPT ![head] = value][head] = value
  BY <1>1 DEF Ring
<1> QED
  BY <1>2, <1>3, <1>4 DEF At

\* A push makes every other value one older and touches none of them, the one
\* in the slot it takes being past the capacity.
THEOREM OthersAge ==
    ASSUME NEW ring \in Ring, NEW value \in Int, NEW age \in 1 .. Capacity - 1
    PROVE  At(Push(ring, value), age) = At(ring, age - 1)
<1> DEFINE head == (ring.head + 1) % Capacity
           old == (ring.head + Capacity - (age - 1)) % Capacity
<1>1. head \in Slots /\ ring.head \in Slots /\ age \in Slots /\ age - 1 \in Slots
  BY NextHead, RingAssumption DEF Ring, Slots
<1>2. (head + Capacity - age) % Capacity = IF age <= head THEN head - age
                                           ELSE head - age + Capacity
  BY <1>1, Slot
<1>3. old = IF age - 1 <= ring.head THEN ring.head - (age - 1)
            ELSE ring.head - (age - 1) + Capacity
  BY <1>1, Slot
<1>4. head = IF ring.head + 1 = Capacity THEN 0 ELSE ring.head + 1
  BY <1>1, NextHead
<1>5. (head + Capacity - age) % Capacity = old /\ old # head /\ old \in Slots
  <2> HIDE DEF head, old
  <2>1. CASE ring.head + 1 = Capacity
    BY <2>1, <1>1, <1>2, <1>3, <1>4, RingAssumption DEF Slots
  <2>2. CASE ring.head + 1 # Capacity
    BY <2>2, <1>1, <1>2, <1>3, <1>4, RingAssumption DEF Slots
  <2> QED
    BY <2>1, <2>2
<1>6. Push(ring, value).head = head /\ Push(ring, value).data = [ring.data EXCEPT ![head] = value]
  BY DEF Push
<1>7. [ring.data EXCEPT ![head] = value][old] = ring.data[old]
  <2> HIDE DEF head, old
  <2> QED BY <1>1, <1>5 DEF Ring
<1> QED
  BY <1>5, <1>6, <1>7 DEF At
\* So a ring that shows a sequence shows it with a value appended after a push.
LEMMA PushShows ==
    ASSUME NEW ring \in Ring, NEW value \in Int, NEW s \in Seq(Int), Shows(ring, s)
    PROVE  Shows(Push(ring, value), Append(s, value))
<1> DEFINE next == Push(ring, value)
           longer == Append(s, value)
<1>1. Len(s) \in Nat /\ Len(longer) = Len(s) + 1 /\ longer[Len(s) + 1] = value
  OBVIOUS
<1>2. ring.size = IF Len(s) < Capacity THEN Len(s) ELSE Capacity
  BY DEF Shows
<1>3. next.size = Grown(ring.size)
  BY DEF Push
<1>4. next.size = IF Len(longer) < Capacity THEN Len(longer) ELSE Capacity
  BY <1>1, <1>2, <1>3, RingAssumption DEF Grown
<1>5. ASSUME NEW age \in 0 .. next.size - 1
      PROVE  At(next, age) = longer[Len(longer) - age]
  <2>1. CASE age = 0
    BY <2>1, <1>1, NewestFirst
  <2>2. CASE age # 0
    <3>1. age \in 1 .. Capacity - 1 /\ age - 1 \in 0 .. ring.size - 1
      BY <2>2, <1>1, <1>2, <1>4, RingAssumption
    <3>2. At(next, age) = At(ring, age - 1)
      BY <3>1, OthersAge
    <3>3. At(ring, age - 1) = s[Len(s) - (age - 1)]
      BY <3>1 DEF Shows
    <3>4. Len(s) - (age - 1) \in 1 .. Len(s) /\ Len(s) - (age - 1) = Len(longer) - age
      BY <3>1, <1>1, <1>2, RingAssumption
    <3>5. longer[Len(s) - (age - 1)] = s[Len(s) - (age - 1)]
      BY <3>4
    <3> QED
      BY <3>2, <3>3, <3>4, <3>5
  <2> QED
    BY <2>1, <2>2
<1> QED
  BY <1>4, <1>5 DEF Shows

LEMMA EmptyShows == Shows(EmptyRing, <<>>)
BY RingAssumption DEF EmptyRing, Shows

-----------------------------------------------------------------------------
(* The strategies *)

LEMMA NewIsInstance ==
    ASSUME NEW kind \in Kinds
    PROVE  New(kind) \in Instance /\ New(kind).kind = kind
BY EmptyIsRing DEF New, Instance

LEMMA BarIsPriced ==
    ASSUME NEW bar \in Bars
    PROVE  bar.close \in Int /\ bar.high \in Int /\ bar.low \in Int
BY BarsAssumption

LEMMA SmaKeeps ==
    ASSUME NEW s \in Instance, NEW bar \in Bars
    PROVE  LET next == SmaCrossover(s, bar)
           IN  next \in Instance /\ next.kind = s.kind /\ next.closes = Push(s.closes, bar.close)
<1> DEFINE closes == Push(s.closes, bar.close)
<1>1. closes \in Ring
  BY PushIsRing, BarIsPriced DEF Instance
<1>2. Above(closes) \in BOOLEAN
  BY DEF Above
<1> HIDE DEF closes
<1>3. [s EXCEPT !.closes = closes] \in Instance
  BY <1>1 DEF Instance
<1>4. ASSUME NEW above \in BOOLEAN, NEW holding \in BOOLEAN
      PROVE  [s EXCEPT !.closes = closes, !.primed = TRUE, !.was_above = above,
                       !.holding = holding] \in Instance
  BY <1>1 DEF Instance
<1> QED
  BY <1>2, <1>3, <1>4 DEF SmaCrossover, closes, Instance

LEMMA HoldIsBoolean ==
    ASSUME NEW holding \in BOOLEAN, NEW enter \in BOOLEAN, NEW leave \in BOOLEAN
    PROVE  Hold(holding, enter, leave) \in BOOLEAN
BY DEF Hold

LEMMA MeanReversionKeeps ==
    ASSUME NEW s \in Instance, NEW bar \in Bars
    PROVE  LET next == MeanReversion(s, bar)
           IN  next \in Instance /\ next.kind = s.kind /\ next.closes = Push(s.closes, bar.close)
<1> DEFINE closes == Push(s.closes, bar.close)
           enter == BelowEntry(Deviation(closes), Spread(closes))
           leave == AboveExit(Deviation(closes), Spread(closes))
<1>1. closes \in Ring
  BY PushIsRing, BarIsPriced DEF Instance
<1>2. enter \in BOOLEAN /\ leave \in BOOLEAN
  BY DEF BelowEntry, AboveExit
<1>3. Hold(s.holding, enter, leave) \in BOOLEAN
  BY <1>2, HoldIsBoolean DEF Instance
<1> HIDE DEF closes
<1>4. [s EXCEPT !.closes = closes] \in Instance
  BY <1>1 DEF Instance
<1>5. ASSUME NEW holding \in BOOLEAN
      PROVE  [s EXCEPT !.closes = closes, !.holding = holding] \in Instance
  BY <1>1 DEF Instance
<1> QED
  BY <1>3, <1>4, <1>5 DEF MeanReversion, closes, Instance

LEMMA MomentumKeeps ==
    ASSUME NEW s \in Instance, NEW bar \in Bars
    PROVE  LET next == Momentum(s, bar)
           IN  next \in Instance /\ next.kind = s.kind /\ next.closes = Push(s.closes, bar.close)
<1> DEFINE closes == Push(s.closes, bar.close)
           then == At(closes, Lookback)
           enter == Risen(then, bar.close)
           leave == bar.close < then
<1>1. closes \in Ring
  BY PushIsRing, BarIsPriced DEF Instance
<1>2. enter \in BOOLEAN /\ leave \in BOOLEAN
  BY DEF Risen
<1>3. Hold(s.holding, enter, leave) \in BOOLEAN
  BY <1>2, HoldIsBoolean DEF Instance
<1> HIDE DEF closes
<1>4. [s EXCEPT !.closes = closes] \in Instance
  BY <1>1 DEF Instance
<1>5. ASSUME NEW holding \in BOOLEAN
      PROVE  [s EXCEPT !.closes = closes, !.holding = holding] \in Instance
  BY <1>1 DEF Instance
<1> QED
  BY <1>3, <1>4, <1>5 DEF Momentum, closes, Instance

LEMMA BreakoutKeeps ==
    ASSUME NEW s \in Instance, NEW bar \in Bars
    PROVE  LET next == Breakout(s, bar)
           IN  /\ next \in Instance /\ next.kind = s.kind
               /\ next.highs = Push(s.highs, bar.high) /\ next.lows = Push(s.lows, bar.low)
<1> DEFINE highs == Push(s.highs, bar.high)
           lows == Push(s.lows, bar.low)
           window == Measured(s, highs, lows)
           enter == bar.close > MaxOfLast(window.highs, Lookback)
           leave == bar.close < MinOfLast(window.lows, Lookback)
           next == [s EXCEPT !.highs = highs, !.lows = lows]
<1>1. highs \in Ring /\ lows \in Ring
  BY PushIsRing, BarIsPriced DEF Instance
<1>2. enter \in BOOLEAN /\ leave \in BOOLEAN
  OBVIOUS
<1>3. Hold(s.holding, enter, leave) \in BOOLEAN
  BY <1>2, HoldIsBoolean DEF Instance
<1> HIDE DEF highs, lows
<1>4. next \in Instance /\ next.kind = s.kind /\ next.highs = highs /\ next.lows = lows
      /\ next.holding = s.holding
  BY <1>1 DEF Instance
<1> HIDE DEF next, enter, leave
<1>5. ASSUME NEW holding \in BOOLEAN
      PROVE  LET held == [next EXCEPT !.holding = holding]
             IN  /\ held \in Instance /\ held.kind = next.kind
                 /\ held.highs = next.highs /\ held.lows = next.lows
  BY <1>4 DEF Instance
<1>6. Breakout(s, bar) = IF window.highs.size >= Lookback
                         THEN [next EXCEPT !.holding = Hold(@, enter, leave)]
                         ELSE next
  BY DEF Breakout, next, enter, leave, highs, lows
<1>7. [next EXCEPT !.holding = Hold(@, enter, leave)]
        = [next EXCEPT !.holding = Hold(s.holding, enter, leave)]
  BY <1>4
<1> QED
  BY <1>3, <1>4, <1>5, <1>6, <1>7 DEF highs, lows

\* What a bar does to an instance's rings, whatever its kind.
LEMMA OnBarKeeps ==
    ASSUME NEW s \in Instance, NEW bar \in Bars
    PROVE  LET next == OnBar(s, bar)
           IN  /\ next \in Instance /\ next.kind = s.kind
               /\ IF s.kind = "Breakout"
                  THEN /\ next.highs = Push(s.highs, bar.high)
                       /\ next.lows = Push(s.lows, bar.low)
                  ELSE next.closes = Push(s.closes, bar.close)
<1>1. s.kind \in Kinds
  BY DEF Instance
<1>2. CASE s.kind = "SmaCrossover"
  BY <1>2, SmaKeeps DEF OnBar
<1>3. CASE s.kind = "MeanReversion"
  BY <1>3, MeanReversionKeeps DEF OnBar
<1>4. CASE s.kind = "Momentum"
  BY <1>4, MomentumKeeps DEF OnBar
<1>5. CASE s.kind = "Breakout"
  BY <1>5, BreakoutKeeps DEF OnBar
<1> QED
  BY <1>1, <1>2, <1>3, <1>4, <1>5 DEF Kinds

LEMMA FieldIsSequence ==
    ASSUME NEW list \in Seq(Bars), NEW f \in {"close", "high", "low"}
    PROVE  Field(list, f) \in Seq(Int) /\ Len(Field(list, f)) = Len(list)
<1>1. \A i \in DOMAIN list : list[i][f] \in Int
  BY BarsAssumption
<1>2. DOMAIN list = 1 .. Len(list) /\ Len(list) \in Nat
  OBVIOUS
<1>3. Field(list, f) \in [1 .. Len(list) -> Int]
  BY <1>1, <1>2 DEF Field
<1> QED
  BY <1>2, <1>3

LEMMA FieldAppends ==
    ASSUME NEW list \in Seq(Bars), NEW bar \in Bars, NEW f \in {"close", "high", "low"}
    PROVE  Field(Append(list, bar), f) = Append(Field(list, f), bar[f])
<1> DEFINE longer == Append(list, bar)
           here == Field(longer, f)
           there == Append(Field(list, f), bar[f])
<1>1. longer \in Seq(Bars) /\ Len(longer) = Len(list) + 1 /\ Len(list) \in Nat
  OBVIOUS
<1>2. here \in Seq(Int) /\ Len(here) = Len(list) + 1
  BY <1>1, FieldIsSequence
<1>3. Field(list, f) \in Seq(Int) /\ Len(Field(list, f)) = Len(list)
  BY FieldIsSequence
<1>4. bar[f] \in Int
  BY BarsAssumption
<1>5. there \in Seq(Int) /\ Len(there) = Len(list) + 1
  BY <1>1, <1>3, <1>4
<1>6. ASSUME NEW i \in 1 .. Len(list) + 1
      PROVE  here[i] = there[i]
  <2>1. here[i] = longer[i][f]
    BY <1>1 DEF Field
  <2>2. CASE i = Len(list) + 1
    BY <2>1, <2>2, <1>1, <1>3, <1>4
  <2>3. CASE i # Len(list) + 1
    <3>1. i \in 1 .. Len(list) /\ longer[i] = list[i]
      BY <2>3, <1>1
    <3>2. Field(list, f)[i] = list[i][f]
      BY <3>1 DEF Field
    <3>3. there[i] = Field(list, f)[i]
      BY <3>1, <1>3, <1>4
    <3> QED
      BY <2>1, <3>1, <3>2, <3>3
  <2> QED
    BY <2>2, <2>3
<1> QED
  BY <1>2, <1>5, <1>6

\* A bar keeps the rings of an instance in step with the bars it has seen.
LEMMA OnBarShows ==
    ASSUME NEW s \in Instance, NEW list \in Seq(Bars), NEW bar \in Bars, RingsShow(s, list)
    PROVE  RingsShow(OnBar(s, bar), Append(list, bar))
<1>1. ASSUME NEW f \in {"close", "high", "low"}
      PROVE  /\ Field(list, f) \in Seq(Int)
             /\ Field(Append(list, bar), f) = Append(Field(list, f), bar[f])
             /\ bar[f] \in Int
  <2>1. bar[f] \in Int
    BY BarsAssumption
  <2>2. Field(list, f) \in Seq(Int)
    BY FieldIsSequence
  <2>3. Field(Append(list, bar), f) = Append(Field(list, f), bar[f])
    BY FieldAppends
  <2> QED
    BY <2>1, <2>2, <2>3
<1>2. s.closes \in Ring /\ s.highs \in Ring /\ s.lows \in Ring
  BY DEF Instance
<1>3. CASE s.kind = "Breakout"
  <2>1. Shows(Push(s.highs, bar.high), Append(Field(list, "high"), bar.high))
    BY <1>1, <1>2, <1>3, PushShows DEF RingsShow
  <2>2. Shows(Push(s.lows, bar.low), Append(Field(list, "low"), bar.low))
    BY <1>1, <1>2, <1>3, PushShows DEF RingsShow
  <2> QED
    BY <2>1, <2>2, <1>1, <1>3, OnBarKeeps DEF RingsShow
<1>4. CASE s.kind # "Breakout"
  <2>1. Shows(Push(s.closes, bar.close), Append(Field(list, "close"), bar.close))
    BY <1>1, <1>2, <1>4, PushShows DEF RingsShow
  <2> QED
    BY <2>1, <1>1, <1>4, OnBarKeeps DEF RingsShow
<1> QED
  BY <1>3, <1>4

LEMMA NewShows == ASSUME NEW kind \in Kinds PROVE RingsShow(New(kind), <<>>)
<1>1. \A f : Field(<<>>, f) = <<>>
  BY DEF Field
<1> QED
  BY <1>1, EmptyShows DEF RingsShow, New

-----------------------------------------------------------------------------
(* The invariant *)

IInv == TypeOK /\ RingIsWindow

LEMMA InitInv == Init => IInv
<1> SUFFICES ASSUME Init PROVE IInv
  OBVIOUS
<1>1. PICK kind \in Kinds : steady = New(kind)
  BY DEF Init
<1>2. TypeOK
  BY <1>1, NewIsInstance, BarsAssumption DEF Init, TypeOK
<1>3. Suffix(0) = <<>>
  BY DEF Init, Suffix
<1>4. RingIsWindow
  BY <1>1, <1>3, NewShows DEF Init, RingIsWindow
<1> QED
  BY <1>2, <1>4 DEF IInv

LEMMA SameItems ==
    ASSUME NEW S, NEW s \in Seq(S), NEW t \in Seq(S), Len(s) = Len(t),
           \A i \in 1 .. Len(s) : s[i] = t[i]
    PROVE  s = t
OBVIOUS

LEMMA SuffixGrows ==
    ASSUME NEW list \in Seq(Bars), NEW bar \in Bars, NEW n \in 0 .. Len(list)
    PROVE  SubSeq(Append(list, bar), n + 1, Len(list) + 1)
             = Append(SubSeq(list, n + 1, Len(list)), bar)
<1> DEFINE longer == Append(list, bar)
           tail == SubSeq(list, n + 1, Len(list))
           here == SubSeq(longer, n + 1, Len(list) + 1)
           there == Append(tail, bar)
<1>1. longer \in Seq(Bars) /\ Len(longer) = Len(list) + 1 /\ Len(list) \in Nat
  OBVIOUS
<1>2. tail \in Seq(Bars) /\ Len(tail) = Len(list) - n
      /\ \A i \in 1 .. Len(list) - n : tail[i] = list[n + i]
  OBVIOUS
<1>3. here \in Seq(Bars) /\ Len(here) = Len(list) + 1 - n
      /\ \A i \in 1 .. Len(list) + 1 - n : here[i] = longer[n + i]
  BY <1>1
<1>4. /\ there \in Seq(Bars) /\ Len(there) = Len(list) + 1 - n
      /\ \A i \in 1 .. Len(list) - n : there[i] = tail[i]
      /\ there[Len(list) + 1 - n] = bar
  <2> DEFINE k == Len(list) - n
  <2>1. k \in Nat /\ Len(tail) = k /\ tail \in Seq(Bars)
    BY <1>1, <1>2
  <2> HIDE DEF tail, k
  <2>2. there \in Seq(Bars) /\ Len(there) = k + 1
    BY <2>1
  <2>3. \A i \in 1 .. k : there[i] = tail[i]
    BY <2>1
  <2>4. there[k + 1] = bar
    BY <2>1
  <2>5. k + 1 = Len(list) + 1 - n
    BY <1>1 DEF k
  <2> QED BY <2>2, <2>3, <2>4, <2>5 DEF k
<1>5. \A i \in 1 .. Len(list) - n : longer[n + i] = list[n + i]
  BY <1>1
<1>6. longer[Len(list) + 1] = bar
  OBVIOUS
<1>7. ASSUME NEW i \in 1 .. Len(list) + 1 - n
      PROVE  here[i] = there[i]
  <2> HIDE DEF here, there, tail, longer
  <2>1. CASE i = Len(list) + 1 - n
    <3>1. n + i = Len(list) + 1
      BY <2>1, <1>1
    <3>2. here[i] = longer[n + i]
      BY <1>3
    <3>3. there[i] = bar
      BY <2>1, <1>4
    <3> QED
      BY <3>1, <3>2, <3>3, <1>6
  <2>2. CASE i # Len(list) + 1 - n
    <3>1. i \in 1 .. Len(list) - n
      BY <2>2, <1>1
    <3> QED
      BY <3>1, <1>2, <1>3, <1>4, <1>5
  <2> QED
    BY <2>1, <2>2
<1>8. here = there
  <2>1. here \in Seq(Bars) /\ there \in Seq(Bars) /\ Len(here) = Len(there)
    BY <1>3, <1>4
  <2>2. \A i \in 1 .. Len(here) : here[i] = there[i]
    BY <1>3, <1>7
  <2> HIDE DEF here, there
  <2> QED BY <2>1, <2>2, SameItems
<1> QED
  BY <1>8

LEMMA LastAlone ==
    ASSUME NEW list \in Seq(Bars), list # <<>>
    PROVE  SubSeq(list, Len(list), Len(list)) = Append(<<>>, Last(list))
<1> DEFINE tail == SubSeq(list, Len(list), Len(list))
           last == Append(<<>>, Last(list))
<1>1. Len(list) \in Nat \ {0} /\ Last(list) = list[Len(list)] /\ Last(list) \in Bars
  BY DEF Last
<1>2. tail \in Seq(Bars) /\ Len(tail) = 1 /\ tail[1] = list[Len(list)]
  BY <1>1
<1>3. last \in Seq(Bars) /\ Len(last) = 1 /\ last[1] = Last(list)
  BY <1>1
<1>4. tail = last
  <2> HIDE DEF tail, last
  <2> QED BY <1>1, <1>2, <1>3
<1> QED
  BY <1>4

LEMMA ArriveInv == ASSUME IInv, NEW bar \in Bars, Arrive(bar) PROVE IInv'
<1>1. /\ seen \in Seq(Bars) /\ Len(seen) \in Nat /\ since \in 0 .. Len(seen)
      /\ steady \in Instance /\ fresh \in Instance /\ fresh.kind = steady.kind
  BY DEF IInv, TypeOK
<1>2. seen' = Append(seen, bar) /\ Len(seen') = Len(seen) + 1 /\ Len(seen') <= MaxBars
  BY <1>1, BarsAssumption DEF Arrive
<1>3. TypeOK'
  BY <1>1, <1>2, OnBarKeeps DEF Arrive, TypeOK
<1>4. RingsShow(steady', seen')
  BY <1>1, <1>2, OnBarShows DEF Arrive, IInv, RingIsWindow
<1>5. Suffix(since)' = Append(Suffix(since), bar)
  BY <1>1, <1>2, SuffixGrows DEF Arrive, Suffix
<1>6. Suffix(since) \in Seq(Bars)
  BY <1>1 DEF Suffix
<1>7. RingsShow(fresh', Suffix(since)')
  BY <1>1, <1>5, <1>6, OnBarShows DEF Arrive, IInv, RingIsWindow
<1> QED
  BY <1>3, <1>4, <1>7 DEF IInv, RingIsWindow

LEMMA StartAnewInv == ASSUME IInv, StartAnew PROVE IInv'
<1>1. /\ seen \in Seq(Bars) /\ Len(seen) \in Nat /\ fresh.kind \in Kinds
      /\ steady \in Instance /\ fresh.kind = steady.kind
  BY DEF IInv, TypeOK, Instance
<1>2. UNCHANGED <<seen, steady>>
  BY DEF StartAnew
<1>3. New(fresh.kind) \in Instance /\ New(fresh.kind).kind = fresh.kind
  BY <1>1, NewIsInstance
<1>4. RingsShow(New(fresh.kind), <<>>)
  BY <1>1, NewShows
<1>5. CASE since' = Len(seen) /\ fresh' = New(fresh.kind)
  <2>1. Suffix(since)' = <<>>
    BY <1>1, <1>2, <1>5 DEF Suffix
  <2> QED
    BY <1>1, <1>2, <1>3, <1>4, <1>5, <2>1 DEF IInv, TypeOK, RingIsWindow
<1>6. CASE seen # <<>> /\ since' = Len(seen) - 1 /\ fresh' = OnBar(New(fresh.kind), Last(seen))
  <2>1. Last(seen) \in Bars /\ Len(seen) >= 1
    BY <1>1, <1>6 DEF Last
  <2>2. Suffix(since)' = Append(<<>>, Last(seen))
    <3>1. Suffix(since)' = SubSeq(seen, Len(seen), Len(seen))
      BY <1>1, <1>2, <1>6 DEF Suffix
    <3> QED
      BY <3>1, <1>1, <1>6, LastAlone
  <2>3. fresh' \in Instance /\ fresh'.kind = steady.kind
    BY <1>1, <1>3, <1>6, <2>1, OnBarKeeps
  <2>4. <<>> \in Seq(Bars)
    OBVIOUS
  <2>5. RingsShow(fresh', Suffix(since)')
    BY <1>3, <1>4, <1>6, <2>1, <2>2, <2>4, OnBarShows
  <2> QED
    BY <1>1, <1>2, <1>6, <2>1, <2>3, <2>5 DEF IInv, TypeOK, RingIsWindow
<1> QED
  BY <1>5, <1>6 DEF StartAnew

LEMMA StutterInv == ASSUME IInv, UNCHANGED vars PROVE IInv'
BY DEF IInv, TypeOK, RingIsWindow, Suffix, vars

\* The inductive invariant: the types, and with them the rings of both instances.
THEOREM Invariance == Spec => []IInv
<1>1. Init => IInv
  BY InitInv
<1>2. IInv /\ [Next]_vars => IInv'
  BY ArriveInv, StartAnewInv, StutterInv DEF Next
<1> QED
  BY <1>1, <1>2, PTL DEF Spec

\* Type correctness of the two instances.
THEOREM TypeCorrect == Spec => []TypeOK
<1>1. IInv => TypeOK
  BY DEF IInv
<1> QED
  BY <1>1, Invariance, PTL

\* For every capacity and every sequence of bars and restarts, the rings read
\* back the newest values pushed, newest first.
THEOREM RingsAreWindows == Spec => []RingIsWindow
<1>1. IInv => RingIsWindow
  BY DEF IInv
<1> QED
  BY <1>1, Invariance, PTL

-----------------------------------------------------------------------------
(* What an instance makes of a bar depends on its window alone. *)

\* The two rings read alike, n values back.
ReadAlike(ring, other, n) == \A age \in 0 .. n - 1 : At(ring, age) = At(other, age)

LEMMA SameSum ==
    ASSUME NEW ring, NEW other, NEW n \in Nat, ReadAlike(ring, other, n)
    PROVE  SumOfLast(ring, n) = SumOfLast(other, n)
<1> DEFINE Adds(r, it) ==
             it = [s \in SUBSET (0 .. n - 1) |->
                     IF s = {} THEN 0
                     ELSE At(r, CHOOSE x \in s : TRUE) + it[s \ {CHOOSE x \in s : TRUE}]]
<1>1. /\ SumOfLast(ring, n) = (CHOOSE it : Adds(ring, it))[0 .. n - 1]
      /\ SumOfLast(other, n) = (CHOOSE it : Adds(other, it))[0 .. n - 1]
  BY DEF SumOfLast, MapThenSumSet, MapThenFoldSet
<1>2. ASSUME NEW it PROVE Adds(ring, it) <=> Adds(other, it)
  <2>1. \A s \in SUBSET (0 .. n - 1) : s # {} => (CHOOSE x \in s : TRUE) \in 0 .. n - 1
    OBVIOUS
  <2>2. [s \in SUBSET (0 .. n - 1) |->
                     IF s = {} THEN 0
                     ELSE At(ring, CHOOSE x \in s : TRUE) + it[s \ {CHOOSE x \in s : TRUE}]]
        = [s \in SUBSET (0 .. n - 1) |->
                     IF s = {} THEN 0
                     ELSE At(other, CHOOSE x \in s : TRUE) + it[s \ {CHOOSE x \in s : TRUE}]]
    BY <2>1 DEF ReadAlike
  <2> QED
    BY <2>2
<1> HIDE DEF Adds
<1>3. (CHOOSE it : Adds(ring, it)) = (CHOOSE it : Adds(other, it))
  BY <1>2
<1> QED
  BY <1>1, <1>3

LEMMA SameSumOfSquares ==
    ASSUME NEW ring, NEW other, NEW n \in Nat, ReadAlike(ring, other, n)
    PROVE  SumOfSquares(ring, n) = SumOfSquares(other, n)
<1> DEFINE Square(r, age) == At(r, age) * At(r, age)
           Adds(r, it) ==
             it = [s \in SUBSET (0 .. n - 1) |->
                     IF s = {} THEN 0
                     ELSE Square(r, CHOOSE x \in s : TRUE) + it[s \ {CHOOSE x \in s : TRUE}]]
<1>1. /\ SumOfSquares(ring, n) = (CHOOSE it : Adds(ring, it))[0 .. n - 1]
      /\ SumOfSquares(other, n) = (CHOOSE it : Adds(other, it))[0 .. n - 1]
  BY DEF SumOfSquares, MapThenSumSet, MapThenFoldSet
<1>2. ASSUME NEW it PROVE Adds(ring, it) <=> Adds(other, it)
  <2>1. \A s \in SUBSET (0 .. n - 1) : s # {} => (CHOOSE x \in s : TRUE) \in 0 .. n - 1
    OBVIOUS
  <2>2. \A age \in 0 .. n - 1 : Square(ring, age) = Square(other, age)
    BY DEF ReadAlike
  <2> HIDE DEF Square
  <2>3. [s \in SUBSET (0 .. n - 1) |->
                     IF s = {} THEN 0
                     ELSE Square(ring, CHOOSE x \in s : TRUE) + it[s \ {CHOOSE x \in s : TRUE}]]
        = [s \in SUBSET (0 .. n - 1) |->
                     IF s = {} THEN 0
                     ELSE Square(other, CHOOSE x \in s : TRUE) + it[s \ {CHOOSE x \in s : TRUE}]]
    BY <2>1, <2>2
  <2> QED
    BY <2>3
<1> HIDE DEF Adds
<1>3. (CHOOSE it : Adds(ring, it)) = (CHOOSE it : Adds(other, it))
  BY <1>2
<1> QED
  BY <1>1, <1>3

LEMMA SameExtremes ==
    ASSUME NEW ring, NEW other, NEW n \in Nat, ReadAlike(ring, other, n)
    PROVE  MaxOfLast(ring, n) = MaxOfLast(other, n) /\ MinOfLast(ring, n) = MinOfLast(other, n)
<1>1. {At(ring, age) : age \in 0 .. n - 1} = {At(other, age) : age \in 0 .. n - 1}
  BY DEF ReadAlike
<1> QED
  BY <1>1 DEF MaxOfLast, MinOfLast

LEMMA ReadLess ==
    ASSUME NEW ring, NEW other, NEW n \in Nat, NEW m \in 0 .. n, ReadAlike(ring, other, n)
    PROVE  ReadAlike(ring, other, m)
BY DEF ReadAlike

\* The four strategies on a bar with a full window behind it: what they make
\* of what they hold.
Verdict(s, bar, closes) ==
    CASE s.kind = "SmaCrossover" -> IF Crossed(s, Above(closes)) THEN Above(closes) ELSE s.holding
      [] s.kind = "MeanReversion" ->
           IF Spread(closes) # 0
           THEN Hold(s.holding, BelowEntry(Deviation(closes), Spread(closes)),
                                AboveExit(Deviation(closes), Spread(closes)))
           ELSE s.holding
      [] s.kind = "Momentum" ->
           IF At(closes, Lookback) # 0
           THEN Hold(s.holding, Risen(At(closes, Lookback), bar.close),
                                bar.close < At(closes, Lookback))
           ELSE s.holding
      [] s.kind = "Breakout" ->
           Hold(s.holding, bar.close > MaxOfLast(s.highs, Lookback),
                           bar.close < MinOfLast(s.lows, Lookback))

\* The first bar with a full window primes a crossover; the side it keeps is the
\* one its ring is on.
Primed(s) ==
    s.kind = "SmaCrossover" /\ s.primed => s.closes.size >= Slow /\ s.was_above = Above(s.closes)

LEMMA PushGrows ==
    ASSUME NEW ring \in Ring, NEW value, NEW n \in 0 .. Capacity, ring.size >= n
    PROVE  /\ Push(ring, value).size >= n
           /\ n < Capacity => Push(ring, value).size > n
BY RingAssumption DEF Push, Grown, Ring

LEMMA WindowsFit ==
    /\ Slow \in 0 .. Capacity /\ Window \in 0 .. Capacity /\ Lookback \in 0 .. Capacity
    /\ Lookback < Capacity
BY StrategiesAssumption, RingAssumption

LEMMA ReadyDecides ==
    ASSUME NEW s \in Instance, Primed(s), Ready(s), NEW bar \in Bars
    PROVE  OnBar(s, bar).holding = Verdict(s, bar, Push(s.closes, bar.close))
<1> DEFINE closes == Push(s.closes, bar.close)
<1>1. /\ s.kind \in Kinds /\ s.closes \in Ring
      /\ \A v : [s EXCEPT !.closes = v].holding = s.holding
      /\ \A v, w : [s EXCEPT !.closes = v, !.holding = w].holding = w
  BY DEF Instance
<1>2. CASE s.kind = "SmaCrossover"
  <2>1. SmaReady(closes)
    <3>1. s.closes.size >= Slow
      BY <1>2 DEF Ready, Primed
    <3> QED
      BY <1>1, <3>1, PushGrows, WindowsFit DEF SmaReady
  <2> DEFINE above == Above(closes)
             moved == [s EXCEPT !.closes = closes, !.primed = TRUE, !.was_above = above,
                                !.holding = IF Crossed(s, above) THEN above ELSE @]
  <2>2. OnBar(s, bar) = moved
    BY <1>2, <2>1 DEF OnBar, SmaCrossover
  <2> HIDE DEF above, closes
  <2>3. moved.holding = IF Crossed(s, above) THEN above ELSE s.holding
    BY DEF Instance
  <2> QED
    BY <1>2, <2>2, <2>3 DEF Verdict, above, closes
<1>3. CASE s.kind = "MeanReversion"
  <2>1. closes.size >= Window
    <3>1. s.closes.size >= Window
      BY <1>3 DEF Ready
    <3> QED
      BY <1>1, <3>1, PushGrows, WindowsFit
  <2> QED
    BY <1>1, <1>3, <2>1 DEF OnBar, MeanReversion, Verdict
<1>4. CASE s.kind = "Momentum"
  <2>1. closes.size > Lookback
    <3>1. s.closes.size >= Lookback
      BY <1>4 DEF Ready
    <3> QED
      BY <1>1, <3>1, PushGrows, WindowsFit
  <2> QED
    BY <1>1, <1>4, <2>1 DEF OnBar, Momentum, Verdict
<1>5. CASE s.kind = "Breakout"
  <2>1. s.highs.size >= Lookback
    BY <1>5 DEF Ready
  <2> DEFINE next == [s EXCEPT !.highs = Push(s.highs, bar.high), !.lows = Push(s.lows, bar.low)]
  <2>2. next.holding = s.holding /\ \A w : [next EXCEPT !.holding = w].holding = w
    BY DEF Instance
  <2> QED
    BY <1>5, <2>1, <2>2 DEF OnBar, Breakout, Measured, Verdict
<1> QED
  BY <1>1, <1>2, <1>3, <1>4, <1>5 DEF Kinds

LEMMA OnBarPrimes ==
    ASSUME NEW s \in Instance, Primed(s), NEW bar \in Bars
    PROVE  Primed(OnBar(s, bar))
<1> DEFINE closes == Push(s.closes, bar.close)
<1>1. OnBar(s, bar).kind = s.kind /\ s.closes \in Ring
  BY OnBarKeeps DEF Instance
<1>2. CASE s.kind # "SmaCrossover"
  BY <1>1, <1>2 DEF Primed
<1>3. CASE s.kind = "SmaCrossover"
  <2>1. OnBar(s, bar) = SmaCrossover(s, bar)
    BY <1>3 DEF OnBar
  <2>2. CASE SmaReady(closes)
    <3>1. \A u, v, w, x : LET next == [s EXCEPT !.closes = u, !.primed = v, !.was_above = w,
                                                !.holding = x]
                          IN  next.closes = u /\ next.was_above = w
      BY DEF Instance
    <3> QED
      BY <2>1, <2>2, <3>1 DEF SmaCrossover, SmaReady, Primed
  <2>3. CASE ~SmaReady(closes)
    <3>1. ~s.primed
      <4>1. s.closes.size >= Slow => closes.size >= Slow
        BY <1>1, PushGrows, WindowsFit
      <4> QED
        BY <1>3, <2>3, <4>1 DEF Primed, SmaReady
    <3>2. OnBar(s, bar).primed = s.primed
      BY <2>1, <2>3 DEF SmaCrossover, Instance
    <3> QED
      BY <3>1, <3>2 DEF Primed
  <2> QED
    BY <2>2, <2>3
<1> QED
  BY <1>2, <1>3

\* With a window's worth of bars in both, the instances' rings read alike.
WindowsAlike ==
    IF steady.kind = "Breakout"
    THEN \A n \in 0 .. Capacity :
           /\ steady.highs.size >= n /\ fresh.highs.size >= n => ReadAlike(steady.highs, fresh.highs, n)
           /\ steady.lows.size >= n /\ fresh.lows.size >= n => ReadAlike(steady.lows, fresh.lows, n)
    ELSE \A n \in 0 .. Capacity :
           steady.closes.size >= n /\ fresh.closes.size >= n => ReadAlike(steady.closes, fresh.closes, n)

LEMMA ShowAlike ==
    ASSUME NEW ring, NEW other, NEW s, NEW t, NEW k \in Nat,
           Len(s) \in Nat, Len(t) \in Nat, Len(t) = Len(s) - k,
           \A i \in 1 .. Len(t) : t[i] = s[k + i],
           Shows(ring, s), Shows(other, t),
           NEW n \in 0 .. Capacity, ring.size >= n, other.size >= n
    PROVE  ReadAlike(ring, other, n)
<1> SUFFICES ASSUME NEW age \in 0 .. n - 1 PROVE At(ring, age) = At(other, age)
  BY DEF ReadAlike
<1>1. /\ other.size <= Len(t) /\ ring.size \in Nat /\ other.size \in Nat
      /\ age \in 0 .. ring.size - 1 /\ age \in 0 .. other.size - 1
  BY RingAssumption DEF Shows
<1>2. At(ring, age) = s[Len(s) - age] /\ At(other, age) = t[Len(t) - age]
  BY <1>1 DEF Shows
<1>3. Len(t) - age \in 1 .. Len(t) /\ k + (Len(t) - age) = Len(s) - age
  BY <1>1
<1> QED
  BY <1>2, <1>3

LEMMA SeenSince ==
    ASSUME IInv, NEW f \in {"close", "high", "low"}
    PROVE  LET s == Field(seen, f)
               t == Field(Suffix(since), f)
           IN  /\ Len(s) \in Nat /\ Len(t) \in Nat /\ Len(t) = Len(s) - since
               /\ \A i \in 1 .. Len(t) : t[i] = s[since + i]
<1>1. seen \in Seq(Bars) /\ Len(seen) \in Nat /\ since \in 0 .. Len(seen)
  BY DEF IInv, TypeOK
<1> DEFINE tail == SubSeq(seen, since + 1, Len(seen))
<1>2. /\ tail \in Seq(Bars) /\ Len(tail) = Len(seen) - since
      /\ \A i \in 1 .. Len(tail) : tail[i] = seen[since + i]
  BY <1>1
<1>3. Suffix(since) = tail
  BY DEF Suffix
<1> HIDE DEF tail
<1>4. Len(Field(seen, f)) = Len(seen) /\ Len(Field(tail, f)) = Len(tail)
  BY <1>1, <1>2, FieldIsSequence
<1>5. /\ \A i \in 1 .. Len(seen) : Field(seen, f)[i] = seen[i][f]
      /\ \A i \in 1 .. Len(tail) : Field(tail, f)[i] = tail[i][f]
  <2>1. DOMAIN seen = 1 .. Len(seen) /\ DOMAIN tail = 1 .. Len(tail)
    BY <1>1, <1>2
  <2> QED
    BY <2>1 DEF Field
<1>6. \A i \in 1 .. Len(tail) : since + i \in 1 .. Len(seen)
  BY <1>1, <1>2
<1> QED
  BY <1>1, <1>2, <1>3, <1>4, <1>5, <1>6

LEMMA InvAlike == IInv => WindowsAlike
<1> SUFFICES ASSUME IInv PROVE WindowsAlike
  OBVIOUS
<1>1. RingsShow(steady, seen) /\ RingsShow(fresh, Suffix(since)) /\ fresh.kind = steady.kind
      /\ since \in Nat
  BY DEF IInv, RingIsWindow, TypeOK
<1>2. CASE steady.kind = "Breakout"
  BY <1>1, <1>2, SeenSince, ShowAlike DEF RingsShow, WindowsAlike
<1>3. CASE steady.kind # "Breakout"
  BY <1>1, <1>3, SeenSince, ShowAlike DEF RingsShow, WindowsAlike
<1> QED
  BY <1>2, <1>3

LEMMA SizesShow ==
    ASSUME NEW s, NEW list \in Seq(Bars), RingsShow(s, list), s.kind \in Kinds, Primed(s), Ready(s)
    PROVE  Len(list) >= 2
<1>1. Len(Field(list, "close")) = Len(list) /\ Len(Field(list, "high")) = Len(list)
      /\ Len(list) \in Nat
  BY FieldIsSequence
<1>2. s.kind # "Breakout" => s.closes.size \in Nat /\ s.closes.size <= Len(list)
  BY <1>1, RingAssumption DEF RingsShow, Shows
<1>3. s.kind = "Breakout" => s.highs.size \in Nat /\ s.highs.size <= Len(list)
  BY <1>1, RingAssumption DEF RingsShow, Shows
<1>4. Slow >= 2 /\ Window >= 2 /\ Lookback >= 2 /\ Slow \in Int /\ Window \in Int /\ Lookback \in Int
  BY StrategiesAssumption
<1>5. CASE s.kind = "Breakout"
  <2>1. s.highs.size >= Lookback
    BY <1>5 DEF Ready
  <2> QED
    BY <1>1, <1>3, <1>4, <1>5, <2>1
<1>6. CASE s.kind # "Breakout"
  <2>1. s.closes.size >= Slow \/ s.closes.size >= Window \/ s.closes.size >= Lookback
    BY <1>6 DEF Ready, Primed, Kinds
  <2> QED
    BY <1>1, <1>2, <1>4, <1>6, <2>1
<1> QED
  BY <1>5, <1>6

PrimedInv == Primed(steady) /\ Primed(fresh)

\* The invariant that makes the agreement last: the windows of both, and for a
\* crossover the side it keeps, are told by the bars.
AgreeInv == IInv /\ PrimedInv /\ WindowsAlike

LEMMA NewIsPrimed == ASSUME NEW kind PROVE Primed(New(kind))
BY DEF New, Primed

LEMMA PrimedInit == Init => PrimedInv
BY NewIsPrimed DEF Init, PrimedInv

LEMMA PrimedNext == IInv /\ PrimedInv /\ [Next]_vars => PrimedInv'
<1> SUFFICES ASSUME IInv, PrimedInv, [Next]_vars PROVE PrimedInv'
  OBVIOUS
<1>1. steady \in Instance /\ fresh \in Instance /\ fresh.kind \in Kinds /\ seen \in Seq(Bars)
  BY DEF IInv, TypeOK, Instance
<1>2. ASSUME NEW bar \in Bars, Arrive(bar) PROVE PrimedInv'
  BY <1>1, <1>2, OnBarPrimes DEF Arrive, PrimedInv
<1>3. CASE StartAnew
  <2>1. seen # <<>> => Last(seen) \in Bars
    BY <1>1 DEF Last
  <2>2. New(fresh.kind) \in Instance /\ Primed(New(fresh.kind))
    BY <1>1, NewIsInstance, NewIsPrimed
  <2>3. seen # <<>> => Primed(OnBar(New(fresh.kind), Last(seen)))
    BY <2>1, <2>2, OnBarPrimes
  <2> QED
    BY <1>3, <2>2, <2>3 DEF StartAnew, PrimedInv
<1>4. CASE UNCHANGED vars
  BY <1>4 DEF PrimedInv, vars
<1> QED
  BY <1>2, <1>3, <1>4 DEF Next

\* Whatever bars arrive and whenever a process is started anew, windows that are
\* full read alike, and the side a crossover keeps is the one its window is on.
THEOREM AgreeInvariance == Spec => []AgreeInv
<1>1. Init => PrimedInv
  BY PrimedInit
<1>2. IInv /\ PrimedInv /\ [Next]_vars => PrimedInv'
  BY PrimedNext
<1>3. IInv /\ PrimedInv => AgreeInv
  BY InvAlike DEF AgreeInv
<1> QED
  BY <1>1, <1>2, <1>3, Invariance, PTL DEF Spec

\* Two instances that ask for the same and whose windows read alike before and
\* after a bar ask for the same after it.
LEMMA SameVerdict ==
    ASSUME NEW bar, NEW s, NEW t, s.kind \in Kinds, t.kind = s.kind, s.holding = t.holding,
           NEW closes, NEW others,
           s.kind = "SmaCrossover" => /\ s.primed = t.primed /\ s.was_above = t.was_above
                                      /\ ReadAlike(closes, others, Slow),
           s.kind = "MeanReversion" => ReadAlike(closes, others, Window),
           s.kind = "Momentum" => ReadAlike(closes, others, Lookback + 1),
           s.kind = "Breakout" => /\ ReadAlike(s.highs, t.highs, Lookback)
                                  /\ ReadAlike(s.lows, t.lows, Lookback)
    PROVE  Verdict(s, bar, closes) = Verdict(t, bar, others)
<1>0. /\ Fast \in 0 .. Slow /\ Slow \in Nat /\ Window \in Nat \ {0} /\ Lookback \in Nat \ {0}
  BY StrategiesAssumption
<1>1. CASE s.kind = "SmaCrossover"
  <2>1. ReadAlike(closes, others, Fast)
    BY <1>0, <1>1, ReadLess
  <2>2. SumOfLast(closes, Fast) = SumOfLast(others, Fast)
    BY <1>0, <2>1, SameSum
  <2>3. SumOfLast(closes, Slow) = SumOfLast(others, Slow)
    BY <1>0, <1>1, SameSum
  <2>4. Above(closes) = Above(others)
    BY <2>2, <2>3 DEF Above
  <2> QED
    BY <1>1, <2>4 DEF Verdict, Crossed
<1>2. CASE s.kind = "MeanReversion"
  <2>1. SumOfLast(closes, Window) = SumOfLast(others, Window)
    BY <1>0, <1>2, SameSum
  <2>2. SumOfSquares(closes, Window) = SumOfSquares(others, Window)
    BY <1>0, <1>2, SameSumOfSquares
  <2>3. At(closes, 0) = At(others, 0)
    BY <1>0, <1>2 DEF ReadAlike
  <2>4. Deviation(closes) = Deviation(others) /\ Spread(closes) = Spread(others)
    BY <2>1, <2>2, <2>3 DEF Deviation, Spread
  <2> QED
    BY <1>2, <2>4 DEF Verdict
<1>3. CASE s.kind = "Momentum"
  <2>1. At(closes, Lookback) = At(others, Lookback)
    BY <1>0, <1>3 DEF ReadAlike
  <2> QED
    BY <1>3, <2>1 DEF Verdict
<1>4. CASE s.kind = "Breakout"
  <2>1. /\ MaxOfLast(s.highs, Lookback) = MaxOfLast(t.highs, Lookback)
        /\ MinOfLast(s.lows, Lookback) = MinOfLast(t.lows, Lookback)
    BY <1>0, <1>4, SameExtremes
  <2> QED
    BY <1>4, <2>1 DEF Verdict
<1> QED
  BY <1>1, <1>2, <1>3, <1>4 DEF Kinds

LEMMA ArriveAgrees ==
    ASSUME AgreeInv, AgreeInv', Agree, NEW bar \in Bars, Arrive(bar)
    PROVE  fresh'.holding = steady'.holding
<1>1. /\ steady \in Instance /\ fresh \in Instance /\ fresh.kind = steady.kind
      /\ steady.kind \in Kinds
  BY DEF AgreeInv, IInv, TypeOK, Instance
<1>2. Ready(steady) /\ Ready(fresh) /\ fresh.holding = steady.holding
  BY DEF Agree
<1>3. steady' = OnBar(steady, bar) /\ fresh' = OnBar(fresh, bar)
  BY DEF Arrive
<1> DEFINE closes == Push(steady.closes, bar.close)
           others == Push(fresh.closes, bar.close)
<1>4. /\ steady'.holding = Verdict(steady, bar, closes)
      /\ fresh'.holding = Verdict(fresh, bar, others)
  BY <1>1, <1>2, <1>3, ReadyDecides DEF AgreeInv, PrimedInv
<1>5. /\ steady'.kind = steady.kind
      /\ steady.kind # "Breakout" => steady'.closes = closes /\ fresh'.closes = others
  BY <1>1, <1>3, OnBarKeeps
<1>6. ASSUME NEW n \in 0 .. Capacity, steady.kind # "Breakout",
             closes.size >= n, others.size >= n
      PROVE  ReadAlike(closes, others, n)
  BY <1>5, <1>6 DEF AgreeInv, WindowsAlike
<1>7. steady.closes \in Ring /\ fresh.closes \in Ring
  BY <1>1 DEF Instance
<1>8. steady.kind = "SmaCrossover" =>
        /\ steady.primed = fresh.primed /\ steady.was_above = fresh.was_above
        /\ ReadAlike(closes, others, Slow)
  <2> SUFFICES ASSUME steady.kind = "SmaCrossover"
               PROVE  /\ steady.primed = fresh.primed /\ steady.was_above = fresh.was_above
                      /\ ReadAlike(closes, others, Slow)
    OBVIOUS
  <2>1. /\ steady.primed /\ fresh.primed
        /\ steady.closes.size >= Slow /\ fresh.closes.size >= Slow
        /\ steady.was_above = Above(steady.closes) /\ fresh.was_above = Above(fresh.closes)
    BY <1>1, <1>2 DEF Ready, AgreeInv, PrimedInv, Primed
  <2>2. steady.primed = fresh.primed
    BY <1>1, <2>1 DEF Instance
  <2>3. ReadAlike(steady.closes, fresh.closes, Slow)
    BY <2>1, WindowsFit DEF AgreeInv, WindowsAlike
  <2>4. Slow \in Nat /\ Fast \in 0 .. Slow
    BY StrategiesAssumption
  <2>5. Above(steady.closes) = Above(fresh.closes)
    <3>1. ReadAlike(steady.closes, fresh.closes, Fast)
      BY <2>3, <2>4, ReadLess
    <3>2. SumOfLast(steady.closes, Fast) = SumOfLast(fresh.closes, Fast)
      BY <2>4, <3>1, SameSum
    <3>3. SumOfLast(steady.closes, Slow) = SumOfLast(fresh.closes, Slow)
      BY <2>3, <2>4, SameSum
    <3> QED
      BY <3>2, <3>3 DEF Above
  <2>6. closes.size >= Slow /\ others.size >= Slow
    BY <1>7, <2>1, PushGrows, WindowsFit
  <2> QED
    BY <1>6, <2>1, <2>2, <2>5, <2>6, WindowsFit
<1>9. steady.kind = "MeanReversion" => ReadAlike(closes, others, Window)
  <2> SUFFICES ASSUME steady.kind = "MeanReversion" PROVE ReadAlike(closes, others, Window)
    OBVIOUS
  <2>1. steady.closes.size >= Window /\ fresh.closes.size >= Window
    BY <1>1, <1>2 DEF Ready
  <2>2. closes.size >= Window /\ others.size >= Window
    BY <1>7, <2>1, PushGrows, WindowsFit
  <2> QED
    BY <1>6, <2>2, WindowsFit
<1>10. steady.kind = "Momentum" => ReadAlike(closes, others, Lookback + 1)
  <2> SUFFICES ASSUME steady.kind = "Momentum" PROVE ReadAlike(closes, others, Lookback + 1)
    OBVIOUS
  <2>1. steady.closes.size >= Lookback /\ fresh.closes.size >= Lookback
    BY <1>1, <1>2 DEF Ready
  <2>2. closes.size > Lookback /\ others.size > Lookback
    BY <1>7, <2>1, PushGrows, WindowsFit
  <2>3. Lookback + 1 \in 0 .. Capacity
    BY WindowsFit, RingAssumption
  <2>4. closes.size \in Int /\ others.size \in Int
    <3>1. closes \in Ring /\ others \in Ring
      BY <1>7, PushIsRing, BarIsPriced
    <3> QED
      BY <3>1 DEF Ring
  <2>5. closes.size >= Lookback + 1 /\ others.size >= Lookback + 1
    BY <2>2, <2>3, <2>4, StrategiesAssumption
  <2> QED
    BY <1>6, <2>3, <2>5
<1>11. steady.kind = "Breakout" =>
         /\ ReadAlike(steady.highs, fresh.highs, Lookback)
         /\ ReadAlike(steady.lows, fresh.lows, Lookback)
  <2> SUFFICES ASSUME steady.kind = "Breakout"
               PROVE  /\ ReadAlike(steady.highs, fresh.highs, Lookback)
                      /\ ReadAlike(steady.lows, fresh.lows, Lookback)
    OBVIOUS
  <2>1. steady.highs.size >= Lookback /\ fresh.highs.size >= Lookback
    BY <1>1, <1>2 DEF Ready
  <2>2. steady.lows.size = steady.highs.size /\ fresh.lows.size = fresh.highs.size
    <3>1. /\ Len(Field(seen, "high")) = Len(seen) /\ Len(Field(seen, "low")) = Len(seen)
          /\ Len(Field(Suffix(since), "high")) = Len(Suffix(since))
          /\ Len(Field(Suffix(since), "low")) = Len(Suffix(since))
      <4>1. seen \in Seq(Bars) /\ Suffix(since) \in Seq(Bars)
        BY DEF AgreeInv, IInv, TypeOK, Suffix
      <4> QED
        BY <4>1, FieldIsSequence
    <3>2. RingsShow(steady, seen) /\ RingsShow(fresh, Suffix(since))
      BY DEF AgreeInv, IInv, RingIsWindow
    <3> QED
      BY <1>1, <3>1, <3>2 DEF RingsShow, Shows
  <2> QED
    BY <2>1, <2>2, WindowsFit DEF AgreeInv, WindowsAlike
<1> HIDE DEF closes, others
<1>12. Verdict(steady, bar, closes) = Verdict(fresh, bar, others)
  BY <1>1, <1>2, <1>8, <1>9, <1>10, <1>11, SameVerdict
<1> QED
  BY <1>4, <1>12

\* A process that starts anew where the last one did has not seen its window.
LEMMA StartedAnewIsReadyLater ==
    ASSUME AgreeInv, Agree, StartAnew, since' = since
    PROVE  FALSE
<1>1. /\ seen \in Seq(Bars) /\ Len(seen) \in Nat /\ since \in 0 .. Len(seen)
      /\ fresh.kind \in Kinds
  BY DEF AgreeInv, IInv, TypeOK, Instance
<1>2. Len(seen) - since <= 1
  BY <1>1 DEF StartAnew
<1>3. Suffix(since) \in Seq(Bars) /\ Len(Suffix(since)) = Len(seen) - since
  BY <1>1 DEF Suffix
<1>4. Len(Suffix(since)) >= 2
  BY <1>1, <1>3, SizesShow DEF AgreeInv, IInv, RingIsWindow, PrimedInv, Agree
<1> QED
  BY <1>1, <1>2, <1>3, <1>4

\* For every window and every sequence of bars, a restarted strategy that has its
\* window and asks for what one that was never restarted asks for goes on doing so
\* (strategies.cpp: nothing but the window and holding_ carries over).
THEOREM AgreementAlwaysLasts == Spec => AgreementLasts
<1>1. AgreeInv /\ AgreeInv' /\ [Next]_vars
        => [Agree /\ since' = since => fresh'.holding = steady'.holding]_vars
  <2> SUFFICES ASSUME AgreeInv, AgreeInv', [Next]_vars, Agree, since' = since, vars' # vars
               PROVE  fresh'.holding = steady'.holding
    OBVIOUS
  <2>1. CASE StartAnew
    BY <2>1, StartedAnewIsReadyLater
  <2>2. ASSUME NEW bar \in Bars, Arrive(bar) PROVE fresh'.holding = steady'.holding
    BY <2>2, ArriveAgrees
  <2> QED
    BY <2>1, <2>2 DEF Next
<1> QED
  BY <1>1, AgreeInvariance, PTL DEF Spec, AgreementLasts

-----------------------------------------------------------------------------
(* Sums *)

LEMMA EmptyFinite == T!IsFiniteSet({}) /\ \A a, b \in Int : T!IsFiniteSet(a .. b)
<1>1. \A S : T!IsFiniteSet(S) <=> IsFiniteSet(S)
  BY DEF T!IsFiniteSet, IsFiniteSet
<1> QED
  BY <1>1, FS_EmptySet, FS_Interval

\* The sums of the strategies and those of the properties are sums over the last
\* n values, newest first.
LEMMA SumOfLastIs ==
    ASSUME NEW ring, NEW n \in Nat
    PROVE  SumOfLast(ring, n) = T!Total([age \in 0 .. n - 1 |-> At(ring, age)], 0 .. n - 1)
<1> DEFINE f == [age \in 0 .. n - 1 |-> At(ring, age)]
           Adds(it) ==
             it = [s \in SUBSET (0 .. n - 1) |->
                     IF s = {} THEN 0
                     ELSE At(ring, CHOOSE x \in s : TRUE) + it[s \ {CHOOSE x \in s : TRUE}]]
           Folds(it) ==
             it = [s \in SUBSET (0 .. n - 1) |->
                     IF s = {} THEN 0
                     ELSE f[CHOOSE x \in s : TRUE] + it[s \ {CHOOSE x \in s : TRUE}]]
<1>1. SumOfLast(ring, n) = (CHOOSE it : Adds(it))[0 .. n - 1]
  BY DEF SumOfLast, MapThenSumSet, MapThenFoldSet
<1>2. T!Total(f, 0 .. n - 1) = (CHOOSE it : Folds(it))[0 .. n - 1]
  BY DEF T!Total, T!MapThenSumSet, T!MapThenFoldSet
<1>3. ASSUME NEW it PROVE Adds(it) <=> Folds(it)
  <2>1. \A s \in SUBSET (0 .. n - 1) : s # {} => (CHOOSE x \in s : TRUE) \in 0 .. n - 1
    OBVIOUS
  <2>2. [s \in SUBSET (0 .. n - 1) |->
                     IF s = {} THEN 0
                     ELSE At(ring, CHOOSE x \in s : TRUE) + it[s \ {CHOOSE x \in s : TRUE}]]
        = [s \in SUBSET (0 .. n - 1) |->
                     IF s = {} THEN 0
                     ELSE f[CHOOSE x \in s : TRUE] + it[s \ {CHOOSE x \in s : TRUE}]]
    BY <2>1
  <2> QED
    BY <2>2
<1> HIDE DEF Adds, Folds
<1>4. (CHOOSE it : Adds(it)) = (CHOOSE it : Folds(it))
  BY <1>3
<1> QED
  BY <1>1, <1>2, <1>4

LEMMA SumOfSquaresIs ==
    ASSUME NEW ring, NEW n \in Nat
    PROVE  SumOfSquares(ring, n) =
             T!Total([age \in 0 .. n - 1 |-> At(ring, age) * At(ring, age)], 0 .. n - 1)
<1> DEFINE Square(age) == At(ring, age) * At(ring, age)
           f == [age \in 0 .. n - 1 |-> Square(age)]
           Adds(it) ==
             it = [s \in SUBSET (0 .. n - 1) |->
                     IF s = {} THEN 0
                     ELSE Square(CHOOSE x \in s : TRUE) + it[s \ {CHOOSE x \in s : TRUE}]]
           Folds(it) ==
             it = [s \in SUBSET (0 .. n - 1) |->
                     IF s = {} THEN 0
                     ELSE f[CHOOSE x \in s : TRUE] + it[s \ {CHOOSE x \in s : TRUE}]]
<1>1. SumOfSquares(ring, n) = (CHOOSE it : Adds(it))[0 .. n - 1]
  BY DEF SumOfSquares, MapThenSumSet, MapThenFoldSet
<1>2. T!Total(f, 0 .. n - 1) = (CHOOSE it : Folds(it))[0 .. n - 1]
  BY DEF T!Total, T!MapThenSumSet, T!MapThenFoldSet
<1>3. ASSUME NEW it PROVE Adds(it) <=> Folds(it)
  <2>1. \A s \in SUBSET (0 .. n - 1) : s # {} => (CHOOSE x \in s : TRUE) \in 0 .. n - 1
    OBVIOUS
  <2> HIDE DEF Square
  <2>2. [s \in SUBSET (0 .. n - 1) |->
                     IF s = {} THEN 0
                     ELSE Square(CHOOSE x \in s : TRUE) + it[s \ {CHOOSE x \in s : TRUE}]]
        = [s \in SUBSET (0 .. n - 1) |->
                     IF s = {} THEN 0
                     ELSE f[CHOOSE x \in s : TRUE] + it[s \ {CHOOSE x \in s : TRUE}]]
    BY <2>1
  <2> QED
    BY <2>2
<1> HIDE DEF Adds, Folds
<1>4. (CHOOSE it : Adds(it)) = (CHOOSE it : Folds(it))
  BY <1>3
<1> QED
  BY <1>1, <1>2, <1>4

LEMMA TotalOfList ==
    ASSUME NEW n \in Nat, NEW f, DOMAIN f = 1 .. n
    PROVE  Total(f) = T!Total(f, 1 .. n)
BY DEF Total, FoldFunction, FoldFunctionOnSet, MapThenFoldSet, T!Total, T!MapThenSumSet,
       T!MapThenFoldSet

\* A sum does not depend on where its places are counted from.
LEMMA Shifted ==
    ASSUME NEW f, NEW g, NEW n \in Nat,
           \A i \in 1 .. n : g[i] \in Int /\ f[i - 1] = g[i]
    PROVE  T!Total(f, 0 .. n - 1) = T!Total(g, 1 .. n)
<1> DEFINE P == {m \in Nat : m <= n => T!Total(f, 0 .. m - 1) = T!Total(g, 1 .. m)}
<1>1. 0 \in P
  <2>1. 0 .. 0 - 1 = {} /\ 1 .. 0 = {}
    OBVIOUS
  <2>2. T!Total(f, {}) = 0 /\ T!Total(g, {}) = 0
    BY EmptyFinite, T!TotalEmpty
  <2> QED
    BY <2>1, <2>2
<1>2. ASSUME NEW m \in Nat, m \in P
      PROVE  m + 1 \in P
  <2> SUFFICES ASSUME m + 1 <= n
               PROVE  T!Total(f, 0 .. (m + 1) - 1) = T!Total(g, 1 .. (m + 1))
    OBVIOUS
  <2>1. T!Total(g, 1 .. (m + 1)) = T!Total(g, 1 .. m) + g[m + 1]
    BY EmptyFinite, T!TotalLast
  <2>2. /\ (m + 1) - 1 = m /\ (0 .. m) \ {m} = 0 .. m - 1 /\ m \in 0 .. m /\ m + 1 \in 1 .. n
        /\ \A i \in 0 .. m : i + 1 \in 1 .. n /\ (i + 1) - 1 = i
    OBVIOUS
  <2>3. \A i \in 0 .. m : f[i] \in Int
    BY <2>2
  <2>4. T!IsFiniteSet(0 .. m)
    BY EmptyFinite
  <2>5. T!Total(f, 0 .. m) = f[m] + T!Total(f, (0 .. m) \ {m})
    BY <2>2, <2>3, <2>4, EmptyFinite, T!TotalRemove
  <2>6. f[m] = g[m + 1] /\ g[m + 1] \in Int
    BY <2>2
  <2>7. T!Total(f, 0 .. m - 1) = T!Total(g, 1 .. m)
    BY <1>2
  <2>8. T!Total(g, 1 .. m) \in Int
    <3>1. T!IsFiniteSet(1 .. m) /\ \A i \in 1 .. m : g[i] \in Int
      BY EmptyFinite
    <3> QED
      BY <3>1, EmptyFinite, T!TotalInt
  <2>9. 0 .. (m + 1) - 1 = 0 .. m
    OBVIOUS
  <2>10. T!Total(f, 0 .. (m + 1) - 1) = f[m] + T!Total(f, 0 .. m - 1)
    BY <2>2, <2>5, <2>9
  <2> QED
    BY <2>1, <2>6, <2>7, <2>8, <2>10
<1>3. Nat \subseteq P
  <2> HIDE DEF P
  <2> QED
    BY <1>1, <1>2, EmptyFinite, T!SetInduction
<1> QED
  BY <1>3

-----------------------------------------------------------------------------
(* The rules of the properties, for any list of bars *)

ClosesOf(l, i, n) == [k \in 1 .. n |-> l[i + 1 - k].close]

AboveOn(l, i) == Slow * Total(ClosesOf(l, i, Fast)) > Fast * Total(ClosesOf(l, i, Slow))

OffOn(l, i, j) == Window * l[j].close - Total(ClosesOf(l, i, Window))
SquaresOn(l, i) ==
    Total([k \in 1 .. Window |-> OffOn(l, i, i + 1 - k) * OffOn(l, i, i + 1 - k)])
BelowOn(l, i, num) ==
    Window * SignedSquare(OffOn(l, i, i) * ZDen) <= SignedSquare(num) * SquaresOn(l, i)
BeyondOn(l, i, num) ==
    Window * SignedSquare(OffOn(l, i, i) * ZDen) >= SignedSquare(num) * SquaresOn(l, i)

EntersOn(l, kind, i) ==
    CASE kind = "MeanReversion" -> SquaresOn(l, i) # 0 /\ BelowOn(l, i, EntryNum)
      [] kind = "Momentum" ->
            ThresholdDen * l[i].close > (ThresholdDen + ThresholdNum) * l[i - Lookback].close
      [] kind = "Breakout" -> \A j \in i - Lookback .. i - 1 : l[i].close > l[j].high

LeavesOn(l, kind, i) ==
    CASE kind = "MeanReversion" -> SquaresOn(l, i) # 0 /\ BeyondOn(l, i, ExitNum)
      [] kind = "Momentum" -> l[i].close < l[i - Lookback].close
      [] kind = "Breakout" -> \A j \in i - Lookback .. i - 1 : l[i].close < l[j].low

Needs(kind) ==
    CASE kind = "SmaCrossover" -> Slow
      [] kind = "MeanReversion" -> Window
      [] kind = "Momentum" -> Lookback + 1
      [] kind = "Breakout" -> Lookback + 1

DaysOn(l, kind, first) == first + Needs(kind) .. Len(l)

HoldsOn(l, kind, first) ==
    LET days == DaysOn(l, kind, first)
    IN  IF kind = "SmaCrossover"
        THEN Len(l) \in days /\ AboveOn(l, Len(l)) /\ \E i \in days : ~AboveOn(l, i)
        ELSE \E i \in days : /\ EntersOn(l, kind, i)
                             /\ \A j \in days : j > i => ~LeavesOn(l, kind, j)

LEMMA HistoryIsList ==
    ASSUME NEW kind \in Kinds, NEW first
    PROVE  ShouldHold(kind, first) = HoldsOn(seen, kind, first)
<1>1. \A i, n : Closes(i, n) = ClosesOf(seen, i, n)
  BY DEF Closes, ClosesOf
<1>2. \A i : FastAbove(i) = AboveOn(seen, i)
  BY <1>1 DEF FastAbove, AboveOn
<1>3. \A i, j : Off(i, j) = OffOn(seen, i, j)
  BY <1>1 DEF Off, OffOn
<1>4. \A i : Squares(i) = SquaresOn(seen, i)
  BY <1>3 DEF Squares, SquaresOn
<1>5. \A i, num : ZBelow(i, num) = BelowOn(seen, i, num) /\ ZAbove(i, num) = BeyondOn(seen, i, num)
  BY <1>3, <1>4 DEF ZBelow, ZAbove, BelowOn, BeyondOn
<1>6. kind # "SmaCrossover" => \A i : /\ Enters(kind, i) = EntersOn(seen, kind, i)
                                      /\ Leaves(kind, i) = LeavesOn(seen, kind, i)
  BY <1>4, <1>5 DEF Enters, EntersOn, Leaves, LeavesOn, Kinds
<1>7. Decidable(kind, first) = DaysOn(seen, kind, first)
  BY DEF Decidable, DaysOn, Needs
<1> QED
  BY <1>2, <1>6, <1>7 DEF ShouldHold, HoldsOn

\* Bars to come change nothing about those that are there.
LEMMA EarlierStays ==
    ASSUME NEW l \in Seq(Bars), NEW bar \in Bars, NEW i \in 1 .. Len(l)
    PROVE  LET m == Append(l, bar)
           IN  /\ i >= Slow => AboveOn(m, i) = AboveOn(l, i)
               /\ \A kind \in Kinds \ {"SmaCrossover"} : i >= Needs(kind) =>
                     /\ EntersOn(m, kind, i) = EntersOn(l, kind, i)
                     /\ LeavesOn(m, kind, i) = LeavesOn(l, kind, i)
<1> DEFINE m == Append(l, bar)
<1>1. Len(l) \in Nat /\ i \in Nat /\ \A j \in 1 .. i : m[j] = l[j]
  OBVIOUS
<1> HIDE DEF m
<1>2. ASSUME NEW n \in Nat, n <= i
      PROVE  ClosesOf(m, i, n) = ClosesOf(l, i, n)
  <2>1. \A k \in 1 .. n : i + 1 - k \in 1 .. i
    BY <1>1, <1>2
  <2> QED
    BY <1>1, <2>1 DEF ClosesOf
<1>3. /\ Fast \in Nat /\ Slow \in Nat /\ Window \in Nat /\ Lookback \in Nat
      /\ Fast < Slow /\ Window > 0
  BY StrategiesAssumption
<1>4. i >= Slow => AboveOn(m, i) = AboveOn(l, i)
  <2> SUFFICES ASSUME i >= Slow PROVE AboveOn(m, i) = AboveOn(l, i)
    OBVIOUS
  <2>1. Fast <= i /\ Slow <= i
    BY <1>1, <1>3
  <2> QED
    BY <1>2, <1>3, <2>1 DEF AboveOn
<1>5. i >= Window => /\ EntersOn(m, "MeanReversion", i) = EntersOn(l, "MeanReversion", i)
                     /\ LeavesOn(m, "MeanReversion", i) = LeavesOn(l, "MeanReversion", i)
  <2> SUFFICES ASSUME i >= Window
               PROVE  /\ EntersOn(m, "MeanReversion", i) = EntersOn(l, "MeanReversion", i)
                      /\ LeavesOn(m, "MeanReversion", i) = LeavesOn(l, "MeanReversion", i)
    OBVIOUS
  <2>1. ClosesOf(m, i, Window) = ClosesOf(l, i, Window)
    BY <1>2, <1>3, <1>1
  <2>2. \A j \in 1 .. i : OffOn(m, i, j) = OffOn(l, i, j)
    BY <1>1, <2>1 DEF OffOn
  <2>3. \A k \in 1 .. Window : i + 1 - k \in 1 .. i
    BY <1>1, <1>3
  <2>4. SquaresOn(m, i) = SquaresOn(l, i)
    BY <2>2, <2>3 DEF SquaresOn
  <2>5. OffOn(m, i, i) = OffOn(l, i, i)
    BY <1>1, <2>2
  <2> QED
    BY <2>4, <2>5 DEF EntersOn, LeavesOn, BelowOn, BeyondOn
<1>6. i >= Lookback + 1 => i - Lookback \in 1 .. i /\ \A j \in i - Lookback .. i - 1 : j \in 1 .. i
  BY <1>1, <1>3
<1>7. m[i] = l[i]
  BY <1>1
<1>8. i >= Lookback + 1 => /\ EntersOn(m, "Momentum", i) = EntersOn(l, "Momentum", i)
                           /\ LeavesOn(m, "Momentum", i) = LeavesOn(l, "Momentum", i)
  BY <1>1, <1>6, <1>7 DEF EntersOn, LeavesOn
<1>9. i >= Lookback + 1 => /\ EntersOn(m, "Breakout", i) = EntersOn(l, "Breakout", i)
                           /\ LeavesOn(m, "Breakout", i) = LeavesOn(l, "Breakout", i)
  <2>1. EntersOn(m, "Breakout", i) = \A j \in i - Lookback .. i - 1 : m[i].close > m[j].high
    BY DEF EntersOn
  <2>2. EntersOn(l, "Breakout", i) = \A j \in i - Lookback .. i - 1 : l[i].close > l[j].high
    BY DEF EntersOn
  <2>3. LeavesOn(m, "Breakout", i) = \A j \in i - Lookback .. i - 1 : m[i].close < m[j].low
    BY DEF LeavesOn
  <2>4. LeavesOn(l, "Breakout", i) = \A j \in i - Lookback .. i - 1 : l[i].close < l[j].low
    BY DEF LeavesOn
  <2>5. i >= Lookback + 1 => \A j \in i - Lookback .. i - 1 : m[j] = l[j]
    BY <1>1, <1>6
  <2> QED
    BY <1>7, <2>1, <2>2, <2>3, <2>4, <2>5
<1> QED
  BY <1>4, <1>5, <1>8, <1>9 DEF Needs, Kinds, m

\* What a position that is held from an entry to the next exit depends on.
LEMMA HeldOneMore ==
    ASSUME NEW l \in Seq(Bars), NEW bar \in Bars, NEW first \in 0 .. Len(l),
           NEW kind \in Kinds \ {"SmaCrossover"}, first + Needs(kind) <= Len(l) + 1
    PROVE  LET m == Append(l, bar)
               n == Len(l) + 1
           IN  HoldsOn(m, kind, first) =
                 (EntersOn(m, kind, n) \/ (HoldsOn(l, kind, first) /\ ~LeavesOn(m, kind, n)))
<1> DEFINE m == Append(l, bar)
           n == Len(l) + 1
           days == DaysOn(l, kind, first)
<1>1. /\ Len(l) \in Nat /\ n \in Nat /\ Len(m) = n /\ first \in Nat
      /\ Needs(kind) \in Nat \ {0}
  BY StrategiesAssumption DEF Needs, Kinds
<1>2. /\ DaysOn(m, kind, first) = days \cup {n}
      /\ n \notin days
      /\ \A i \in days : i \in 1 .. Len(l) /\ i < n /\ ~(n < i) /\ i >= Needs(kind)
  BY <1>1 DEF DaysOn
<1>3. \A i \in days : /\ EntersOn(m, kind, i) = EntersOn(l, kind, i)
                      /\ LeavesOn(m, kind, i) = LeavesOn(l, kind, i)
  BY <1>2, EarlierStays
<1>4. HoldsOn(m, kind, first) =
        \E i \in days \cup {n} : /\ EntersOn(m, kind, i)
                                 /\ \A j \in days \cup {n} : j > i => ~LeavesOn(m, kind, j)
  BY <1>2 DEF HoldsOn
<1>5. HoldsOn(l, kind, first) =
        \E i \in days : /\ EntersOn(l, kind, i)
                        /\ \A j \in days : j > i => ~LeavesOn(l, kind, j)
  BY DEF HoldsOn
<1>6. \A i \in days : n > i /\ ~(i > n)
  BY <1>1, <1>2 DEF DaysOn
<1>7. ~(n > n)
  BY <1>1
<1> HIDE DEF m, n, days
<1> QED
  BY <1>2, <1>3, <1>4, <1>5, <1>6, <1>7 DEF m, n

-----------------------------------------------------------------------------
(* What the rings tell of the bars *)

LEMMA ShownBars ==
    ASSUME NEW l \in Seq(Bars), NEW first \in 0 .. Len(l), NEW f \in {"close", "high", "low"},
           NEW ring, Shows(ring, Field(SubSeq(l, first + 1, Len(l)), f))
    PROVE  /\ Len(l) \in Nat
           /\ ring.size = IF Len(l) - first < Capacity THEN Len(l) - first ELSE Capacity
           /\ \A age \in 0 .. ring.size - 1 :
                 /\ Len(l) - age \in 1 .. Len(l)
                 /\ At(ring, age) = l[Len(l) - age][f]
                 /\ At(ring, age) \in Nat \ {0}
<1> DEFINE tail == SubSeq(l, first + 1, Len(l))
           s == Field(tail, f)
           k == Len(l) - first
<1>1. /\ Len(l) \in Nat /\ first \in Nat /\ k \in Nat
      /\ tail \in Seq(Bars) /\ Len(tail) = k
      /\ \A i \in 1 .. k : tail[i] = l[first + i]
  OBVIOUS
<1>2. /\ Len(s) = k
      /\ \A i \in 1 .. k : s[i] = l[first + i][f]
  <2> HIDE DEF tail, k
  <2>1. DOMAIN tail = 1 .. k
    BY <1>1
  <2>2. Len(s) = k
    BY <1>1, FieldIsSequence
  <2> QED
    BY <1>1, <2>1, <2>2 DEF Field
<1> HIDE DEF s
<1>3. ring.size = IF k < Capacity THEN k ELSE Capacity
  BY <1>2 DEF Shows, s
<1>4. ASSUME NEW age \in 0 .. ring.size - 1
      PROVE  /\ Len(l) - age \in 1 .. Len(l)
             /\ At(ring, age) = l[Len(l) - age][f]
             /\ At(ring, age) \in Nat \ {0}
  <2>1. ring.size \in Nat /\ ring.size <= k /\ age \in Nat
    BY <1>1, <1>3, RingAssumption
  <2>2. At(ring, age) = s[k - age]
    BY <1>2 DEF Shows, s
  <2>3. k - age \in 1 .. k /\ first + (k - age) = Len(l) - age /\ Len(l) - age \in 1 .. Len(l)
    BY <1>1, <2>1
  <2>4. At(ring, age) = l[Len(l) - age][f]
    BY <1>2, <2>2, <2>3
  <2>5. l[Len(l) - age] \in Bars
    BY <2>3
  <2>6. l[Len(l) - age][f] \in Nat \ {0}
    BY <2>5, BarsAssumption
  <2> QED
    BY <2>3, <2>4, <2>6
<1> QED
  BY <1>1, <1>3, <1>4 DEF k

\* The sums over the ring are those over the last closes.
LEMMA SumsRead ==
    ASSUME NEW l \in Seq(Bars), NEW ring, NEW n \in Nat \ {0}, ring.size \in Int, n <= ring.size,
           \A age \in 0 .. ring.size - 1 : /\ At(ring, age) = l[Len(l) - age].close
                                           /\ At(ring, age) \in Nat \ {0}
    PROVE  LET g == ClosesOf(l, Len(l), n)
               q == [k \in 1 .. n |-> g[k] * g[k]]
           IN  /\ \A k \in 1 .. n : g[k] \in Nat /\ q[k] \in Nat
               /\ SumOfLast(ring, n) = Total(g) /\ Total(g) = T!Total(g, 1 .. n)
               /\ SumOfSquares(ring, n) = T!Total(q, 1 .. n)
               /\ Total(g) \in Int /\ T!Total(q, 1 .. n) \in Int
<1> DEFINE g == ClosesOf(l, Len(l), n)
           q == [k \in 1 .. n |-> g[k] * g[k]]
           f == [age \in 0 .. n - 1 |-> At(ring, age)]
           h == [age \in 0 .. n - 1 |-> At(ring, age) * At(ring, age)]
<1>1. /\ Len(l) \in Nat
      /\ \A k \in 1 .. n : /\ k - 1 \in 0 .. n - 1 /\ k - 1 \in 0 .. ring.size - 1
                           /\ Len(l) + 1 - k = Len(l) - (k - 1)
  OBVIOUS
<1>2. \A k \in 1 .. n : /\ g[k] = At(ring, k - 1) /\ g[k] \in Nat
                        /\ f[k - 1] = g[k]
  BY <1>1 DEF ClosesOf
<1>3. \A k \in 1 .. n : q[k] = g[k] * g[k] /\ q[k] \in Nat /\ h[k - 1] = q[k]
  <2> SUFFICES ASSUME NEW k \in 1 .. n
               PROVE  q[k] = g[k] * g[k] /\ q[k] \in Nat /\ h[k - 1] = q[k]
    OBVIOUS
  <2>1. h[k - 1] = At(ring, k - 1) * At(ring, k - 1)
    BY <1>1
  <2> HIDE DEF g, h
  <2>2. q[k] = g[k] * g[k]
    OBVIOUS
  <2>3. g[k] * g[k] \in Nat
    <3>1. \A a \in Nat : a * a \in Nat
      OBVIOUS
    <3> QED
      BY <1>2, <3>1
  <2> QED
    BY <1>2, <2>1, <2>2, <2>3
<1>4. SumOfLast(ring, n) = T!Total(f, 0 .. n - 1) /\ SumOfSquares(ring, n) = T!Total(h, 0 .. n - 1)
  BY SumOfLastIs, SumOfSquaresIs
<1>5. DOMAIN g = 1 .. n
  BY DEF ClosesOf
<1> HIDE DEF f, g, h, q
<1>6. T!Total(f, 0 .. n - 1) = T!Total(g, 1 .. n) /\ T!Total(h, 0 .. n - 1) = T!Total(q, 1 .. n)
  <2>1. \A i \in 1 .. n : g[i] \in Int /\ f[i - 1] = g[i]
    BY <1>2
  <2>2. \A i \in 1 .. n : q[i] \in Int /\ h[i - 1] = q[i]
    BY <1>3
  <2>3. T!Total(f, 0 .. n - 1) = T!Total(g, 1 .. n)
    BY <2>1, Shifted
  <2>4. T!Total(h, 0 .. n - 1) = T!Total(q, 1 .. n)
    BY <2>2, Shifted
  <2> QED
    BY <2>3, <2>4
<1>7. Total(g) = T!Total(g, 1 .. n)
  BY <1>5, TotalOfList
<1>8. T!Total(g, 1 .. n) \in Int /\ T!Total(q, 1 .. n) \in Int
  <2>1. T!IsFiniteSet(1 .. n)
    BY EmptyFinite
  <2>2. \A k \in 1 .. n : g[k] \in Int /\ q[k] \in Int
    BY <1>2, <1>3
  <2> QED
    BY <2>1, <2>2, EmptyFinite, T!TotalInt
<1> QED
  BY <1>2, <1>3, <1>4, <1>6, <1>7, <1>8 DEF g, q

-----------------------------------------------------------------------------
(* The variance *)

\* The sum of m squares of n * x - d, from the sum g of the x and the sum q of
\* their squares.
Squared(n, d, m, g, q) == n * n * q - 2 * n * d * g + m * d * d

LEMMA SquaredOnce ==
    ASSUME NEW n \in Int, NEW d \in Int, NEW m \in Int, NEW g \in Int, NEW q \in Int, NEW a \in Int,
           NEW m1, m1 = m + 1, NEW g1, g1 = g + a, NEW b, b = a * a, NEW q1, q1 = q + b,
           NEW e, e = (n * a - d) * (n * a - d)
    PROVE  Squared(n, d, m1, g1, q1) = Squared(n, d, m, g, q) + e
BY DEF Squared

\* h[i] is the square of n times the distance of g[i] from the mean, q[i] of g[i].
AllSquares(n, g, q, h, d) ==
    /\ d = T!Total(g, 1 .. n)
    /\ \A i \in 1 .. n : /\ g[i] \in Int /\ q[i] = g[i] * g[i]
                         /\ h[i] = (n * g[i] - d) * (n * g[i] - d)

\* The sum of the squares of n times the distances from the mean is n times
\* (n times the sum of the squares less the square of the sum).
LEMMA SpreadIs ==
    ASSUME NEW n \in Nat, NEW g, NEW q, NEW h, NEW d \in Int, AllSquares(n, g, q, h, d)
    PROVE  T!Total(h, 1 .. n) = n * (n * T!Total(q, 1 .. n) - d * d)
<1> DEFINE G(m) == T!Total(g, 1 .. m)
           Q(m) == T!Total(q, 1 .. m)
           H(m) == T!Total(h, 1 .. m)
           P == {m \in Nat : m <= n =>
                   /\ G(m) \in Int /\ Q(m) \in Int
                   /\ H(m) = Squared(n, d, m, G(m), Q(m))}
<1>0. \A i \in 1 .. n : g[i] \in Int /\ q[i] \in Int /\ h[i] \in Int
  <2> SUFFICES ASSUME NEW i \in 1 .. n PROVE g[i] \in Int /\ q[i] \in Int /\ h[i] \in Int
    OBVIOUS
  <2>1. \A a, b \in Int : a * a \in Int /\ (n * a - b) * (n * a - b) \in Int
    OBVIOUS
  <2> QED
    BY <2>1 DEF AllSquares
<1>1. 0 \in P
  <2>1. 1 .. 0 = {}
    OBVIOUS
  <2>2. G(0) = 0 /\ Q(0) = 0 /\ H(0) = 0
    BY <2>1, EmptyFinite, T!TotalEmpty
  <2>3. Squared(n, d, 0, 0, 0) = 0
    BY DEF Squared
  <2> HIDE DEF G, Q, H
  <2> QED
    BY <2>2, <2>3
<1>2. ASSUME NEW m \in Nat, m \in P
      PROVE  m + 1 \in P
  <2> SUFFICES ASSUME m + 1 <= n
               PROVE  /\ G(m + 1) \in Int /\ Q(m + 1) \in Int
                      /\ H(m + 1) = Squared(n, d, m + 1, G(m + 1), Q(m + 1))
    OBVIOUS
  <2>1. /\ G(m) \in Int /\ Q(m) \in Int
        /\ H(m) = Squared(n, d, m, G(m), Q(m))
    BY <1>2
  <2>2. m + 1 \in 1 .. n /\ \A i \in 1 .. (m + 1) : i \in 1 .. n
    OBVIOUS
  <2>3. /\ G(m + 1) = G(m) + g[m + 1] /\ Q(m + 1) = Q(m) + q[m + 1]
        /\ H(m + 1) = H(m) + h[m + 1]
    BY <1>0, <2>2, EmptyFinite, T!TotalLast
  <2> DEFINE a == g[m + 1]
             gm == G(m)
             qm == Q(m)
  <2>4. a \in Int /\ q[m + 1] = a * a /\ h[m + 1] = (n * a - d) * (n * a - d) /\ a * a \in Int
    <3>1. \A b \in Int : b * b \in Int
      OBVIOUS
    <3> QED
      BY <2>2, <3>1 DEF AllSquares
  <2> HIDE DEF G, Q, H, a
  <2>5. Squared(n, d, m + 1, gm + a, qm + a * a)
          = Squared(n, d, m, gm, qm) + (n * a - d) * (n * a - d)
    <3>1. n \in Int /\ m \in Int /\ gm \in Int /\ qm \in Int
      BY <2>1
    <3>2. a \in Int
      BY <2>4
    <3> DEFINE m1 == m + 1
               g1 == gm + a
               b == a * a
               q1 == qm + b
               e == (n * a - d) * (n * a - d)
    <3>3. m1 = m + 1 /\ g1 = gm + a /\ b = a * a /\ q1 = qm + b /\ e = (n * a - d) * (n * a - d)
      OBVIOUS
    <3> HIDE DEF gm, qm, m1, g1, b, q1, e
    <3>4. Squared(n, d, m1, g1, q1) = Squared(n, d, m, gm, qm) + e
      BY <3>1, <3>2, <3>3 DEF Squared
    <3> QED
      BY <3>4 DEF m1, g1, b, q1, e
  <2>6. G(m + 1) = gm + a /\ Q(m + 1) = qm + a * a
    BY <2>3, <2>4 DEF a
  <2>7. H(m + 1) = Squared(n, d, m, gm, qm) + (n * a - d) * (n * a - d)
    BY <2>1, <2>3, <2>4
  <2>8. G(m + 1) \in Int /\ Q(m + 1) \in Int
    <3>1. gm \in Int /\ qm \in Int /\ a \in Int /\ a * a \in Int
      BY <2>1, <2>4
    <3> DEFINE b == a * a
    <3> HIDE DEF gm, qm, b
    <3>2. gm + a \in Int /\ qm + b \in Int
      BY <3>1 DEF b
    <3> QED
      BY <2>6, <3>2 DEF b
  <2> QED
    BY <2>5, <2>6, <2>7, <2>8
<1>3. Nat \subseteq P
  <2> HIDE DEF P
  <2> QED
    BY <1>1, <1>2, EmptyFinite, T!SetInduction
<1>4. Q(n) \in Int /\ H(n) = Squared(n, d, n, d, Q(n))
  BY <1>3 DEF AllSquares
<1>5. \A x, y \in Int : Squared(n, y, n, y, x) = n * (n * x - y * y)
  BY DEF Squared
<1> HIDE DEF Q, H
<1>6. H(n) = n * (n * Q(n) - d * d)
  BY <1>4, <1>5
<1> QED
  BY <1>6 DEF H, Q

\* A ring whose values, newest first, are those of the last bars.
Newest(ring, l, f) ==
    /\ ring.size \in Nat
    /\ \A age \in 0 .. ring.size - 1 : /\ Len(l) - age \in 1 .. Len(l)
                                       /\ At(ring, age) = l[Len(l) - age][f]
                                       /\ At(ring, age) \in Nat \ {0}

LEMMA Commutes == ASSUME NEW a \in Int, NEW b \in Int PROVE a * b = b * a
OBVIOUS

LEMMA AboveRead ==
    ASSUME NEW l \in Seq(Bars), NEW ring, Newest(ring, l, "close"), ring.size >= Slow
    PROVE  Above(ring) = AboveOn(l, Len(l))
<1>1. /\ ring.size \in Int
      /\ \A age \in 0 .. ring.size - 1 : /\ At(ring, age) = l[Len(l) - age].close
                                         /\ At(ring, age) \in Nat \ {0}
  BY DEF Newest
<1>2. /\ Fast \in Nat \ {0} /\ Slow \in Nat \ {0} /\ Fast <= ring.size /\ Slow <= ring.size
  BY <1>1, StrategiesAssumption
<1> DEFINE x == Total(ClosesOf(l, Len(l), Fast))
           y == Total(ClosesOf(l, Len(l), Slow))
<1>3. SumOfLast(ring, Fast) = x /\ x \in Int
  BY <1>1, <1>2, SumsRead
<1>4. SumOfLast(ring, Slow) = y /\ y \in Int
  BY <1>1, <1>2, SumsRead
<1> HIDE DEF x, y
<1>5. x * Slow = Slow * x /\ y * Fast = Fast * y
  BY <1>2, <1>3, <1>4, Commutes
<1>6. Above(ring) = (x * Slow > y * Fast)
  BY <1>3, <1>4 DEF Above
<1>7. AboveOn(l, Len(l)) = (Slow * x > Fast * y)
  BY DEF AboveOn, x, y
<1> QED
  BY <1>5, <1>6, <1>7

LEMMA MeanRead ==
    ASSUME NEW l \in Seq(Bars), NEW ring, Newest(ring, l, "close"), ring.size >= Window
    PROVE  /\ OffOn(l, Len(l), Len(l)) = Deviation(ring) /\ Deviation(ring) \in Int
           /\ SquaresOn(l, Len(l)) = Window * Spread(ring) /\ Spread(ring) \in Nat
<1> DEFINE n == Len(l)
           g == ClosesOf(l, n, Window)
           q == [k \in 1 .. Window |-> g[k] * g[k]]
           h == [k \in 1 .. Window |-> OffOn(l, n, n + 1 - k) * OffOn(l, n, n + 1 - k)]
           d == Total(g)
           sq == T!Total(q, 1 .. Window)
<1>1. /\ ring.size \in Int
      /\ \A age \in 0 .. ring.size - 1 : /\ At(ring, age) = l[Len(l) - age].close
                                         /\ At(ring, age) \in Nat \ {0}
  BY DEF Newest
<1>2. Window \in Nat \ {0} /\ Window <= ring.size
  BY <1>1, StrategiesAssumption
<1>3. /\ \A k \in 1 .. Window : g[k] \in Nat /\ q[k] \in Nat
      /\ SumOfLast(ring, Window) = d /\ d = T!Total(g, 1 .. Window)
      /\ SumOfSquares(ring, Window) = sq
      /\ d \in Int /\ sq \in Int
  BY <1>1, <1>2, SumsRead
<1>4. n \in Nat /\ \A k \in 1 .. Window : g[k] = l[n + 1 - k].close
  BY DEF ClosesOf
<1>5. \A k \in 1 .. Window : OffOn(l, n, n + 1 - k) = Window * g[k] - d
  BY <1>4 DEF OffOn
<1>6. \A k \in 1 .. Window : /\ q[k] = g[k] * g[k]
                             /\ h[k] = (Window * g[k] - d) * (Window * g[k] - d)
  <2>1. \A k \in 1 .. Window : h[k] = OffOn(l, n, n + 1 - k) * OffOn(l, n, n + 1 - k)
    OBVIOUS
  <2>2. \A k \in 1 .. Window : q[k] = g[k] * g[k]
    OBVIOUS
  <2> HIDE DEF g, q, h, d, n
  <2> QED
    BY <1>5, <2>1, <2>2
<1>7. SquaresOn(l, n) = T!Total(h, 1 .. Window)
  <2>1. DOMAIN h = 1 .. Window
    OBVIOUS
  <2>2. SquaresOn(l, n) = Total(h)
    BY DEF SquaresOn
  <2> HIDE DEF h, n
  <2> QED
    BY <1>2, <2>1, <2>2, TotalOfList
<1> HIDE DEF g, q, h, d, n, sq
<1>8. AllSquares(Window, g, q, h, d)
  BY <1>3, <1>6 DEF AllSquares
<1>9. T!Total(h, 1 .. Window) = Window * (Window * sq - d * d)
  BY <1>2, <1>3, <1>8, SpreadIs DEF sq
<1>10. Spread(ring) = Window * sq - d * d
  BY <1>3 DEF Spread
<1>11. Deviation(ring) = OffOn(l, n, n)
  <2>1. At(ring, 0) = l[n].close
    <3>1. 0 \in 0 .. ring.size - 1 /\ n - 0 = n
      BY <1>1, <1>2, <1>4
    <3> QED
      BY <1>1, <3>1 DEF n
  <2>2. OffOn(l, n, n) = Window * l[n].close - d
    BY DEF OffOn, d, g
  <2> QED
    BY <1>3, <2>1, <2>2 DEF Deviation
<1>12. Deviation(ring) \in Int
  <2>1. At(ring, 0) \in Int
    BY <1>1, <1>2
  <2>2. \A a, b, c \in Int : a * b - c \in Int
    OBVIOUS
  <2> QED
    BY <1>2, <1>3, <2>1, <2>2 DEF Deviation
<1>13. Spread(ring) \in Int
  <2>1. \A a, b, c \in Int : a * b - c * c \in Int
    OBVIOUS
  <2> QED
    BY <1>2, <1>3, <1>10, <2>1
<1>14. T!Total(h, 1 .. Window) \in Nat
  <2>2. ASSUME NEW k \in 1 .. Window PROVE h[k] \in Nat
    <3> DEFINE x == Window * g[k] - d
    <3>1. x \in Int
      <4>1. \A a, b, c \in Int : a * b - c \in Int
        OBVIOUS
      <4> QED
        BY <1>2, <1>3, <4>1
    <3>2. h[k] = x * x
      BY <1>6
    <3> HIDE DEF x
    <3> QED
      BY <3>1, <3>2
  <2>3. T!IsFiniteSet(1 .. Window)
    BY <1>2, EmptyFinite
  <2> QED
    BY <2>2, <2>3, EmptyFinite, T!TotalNat
<1>15. Spread(ring) \in Nat
  <2>1. \A w \in Nat \ {0} : \A x \in Int : w * x \in Nat => x \in Nat
    OBVIOUS
  <2> QED
    BY <1>2, <1>9, <1>10, <1>13, <1>14, <2>1
<1> QED
  BY <1>7, <1>9, <1>10, <1>11, <1>12, <1>15 DEF n

\* What no constructor insists on, and what keeps an entry and an exit from falling
\* on one bar: each on_bar asks for one of the two only.
EntryIsNoExit ==
    /\ EntryNum < ExitNum
    /\ ThresholdNum >= 0
    /\ \A b \in Bars : b.low <= b.high

\* A factor common to both sides of a comparison.
LEMMA Scaled ==
    ASSUME NEW w \in Nat \ {0}, NEW x \in Int, NEW y \in Int, NEW s \in Int
    PROVE  /\ (w * x <= y * (w * s)) = (x <= y * s)
           /\ (w * x >= y * (w * s)) = (x >= y * s)
<1> DEFINE b == y * s
<1>1. y * (w * s) = w * b
  OBVIOUS
<1>2. \A m, n \in Int : (w * m >= w * n) = (m >= n) /\ (w * m <= w * n) = (m <= n)
  OBVIOUS
<1>3. b \in Int
  OBVIOUS
<1> HIDE DEF b
<1>4. (w * x >= w * b) = (x >= b) /\ (w * x <= w * b) = (x <= b)
  BY <1>2, <1>3
<1> QED
  BY <1>1, <1>4 DEF b

LEMMA SignedSquareIsInteger ==
    ASSUME NEW x \in Int
    PROVE  SignedSquare(x) \in Int
<1>1. PICK square \in Int : square = x * x
  OBVIOUS
<1>2. SignedSquare(x) = IF x < 0 THEN 0 - square ELSE square
  BY <1>1 DEF SignedSquare
<1> QED
  BY <1>1, <1>2

LEMMA SignedSquareGrows ==
    ASSUME NEW x \in Int, NEW y \in Int, x < y
    PROVE  SignedSquare(x) < SignedSquare(y)
<1>1. CASE x >= 0
  <2>1. x * x <= x * y /\ x * y < y * y
    BY <1>1
  <2> QED
    BY <1>1, <2>1 DEF SignedSquare
<1>2. CASE y < 0
  <2>1. x * x > x * y /\ x * y > y * y
    BY <1>2
  <2> QED
    BY <1>2, <2>1 DEF SignedSquare
<1>3. CASE x < 0 /\ y >= 0
  <2>1. x * x > 0 /\ y * y >= 0
    BY <1>3
  <2> QED
    BY <1>3, <2>1 DEF SignedSquare
<1> QED
  BY <1>1, <1>2, <1>3

\* z cannot be at its entry and beyond an exit above it.
LEMMA MeanApart ==
    ASSUME EntryNum < ExitNum, NEW d \in Int, NEW s \in Nat \ {0}
    PROVE  ~(BelowEntry(d, s) /\ AboveExit(d, s))
<1> DEFINE a == SignedSquare(d * ZDen)
           x == SignedSquare(EntryNum)
           y == SignedSquare(ExitNum)
<1>1. EntryNum \in Int /\ ExitNum \in Int
  BY StrategiesAssumption
<1>2. x \in Int /\ y \in Int /\ x < y
  BY <1>1, SignedSquareIsInteger, SignedSquareGrows
<1>3. a \in Int
  <2>1. d * ZDen \in Int
    BY StrategiesAssumption
  <2> QED
    BY <2>1, SignedSquareIsInteger
<1> HIDE DEF a, x, y
<1>4. x * s < y * s /\ x * s \in Int /\ y * s \in Int
  BY <1>2
<1> DEFINE xs == x * s
           ys == y * s
<1>5. xs < ys /\ xs \in Int /\ ys \in Int
  BY <1>4
<1>6. BelowEntry(d, s) /\ AboveExit(d, s) => a <= xs /\ a >= ys
  BY DEF BelowEntry, AboveExit, a, x, y
<1> HIDE DEF xs, ys
<1>7. ~(a <= xs /\ a >= ys)
  BY <1>3, <1>5
<1> QED
  BY <1>6, <1>7

LEMMA MeanRules ==
    ASSUME NEW l \in Seq(Bars), NEW ring, Newest(ring, l, "close"), ring.size >= Window
    PROVE  LET enters == EntersOn(l, "MeanReversion", Len(l))
               leaves == LeavesOn(l, "MeanReversion", Len(l))
               d == Deviation(ring)
               spread == Spread(ring)
           IN  /\ enters = (spread # 0 /\ BelowEntry(d, spread))
               /\ leaves = (spread # 0 /\ AboveExit(d, spread))
               /\ EntryIsNoExit => ~(enters /\ leaves)
<1> DEFINE n == Len(l)
           d == Deviation(ring)
           spread == Spread(ring)
<1>1. /\ OffOn(l, n, n) = d /\ d \in Int
      /\ SquaresOn(l, n) = Window * spread /\ spread \in Nat
  BY MeanRead
<1>2. Window \in Nat \ {0} /\ EntryNum \in Int /\ ExitNum \in Int /\ ZDen \in Int
  BY StrategiesAssumption
<1> HIDE DEF d, spread
<1>3. SquaresOn(l, n) # 0 <=> spread # 0
  <2>1. \A w \in Nat \ {0} : \A x \in Nat : w * x # 0 <=> x # 0
    OBVIOUS
  <2> QED
    BY <1>1, <1>2, <2>1
<1> DEFINE a == SignedSquare(d * ZDen)
           x == SignedSquare(EntryNum)
           y == SignedSquare(ExitNum)
<1>a. a \in Int /\ x \in Int /\ y \in Int
  <2>1. d * ZDen \in Int
    BY <1>1, <1>2
  <2> QED
    BY <1>2, <2>1, SignedSquareIsInteger
<1>b. /\ BelowOn(l, n, EntryNum) = (Window * a <= x * (Window * spread))
      /\ BeyondOn(l, n, ExitNum) = (Window * a >= y * (Window * spread))
  BY <1>1 DEF BelowOn, BeyondOn
<1>c. BelowEntry(d, spread) = (a <= x * spread) /\ AboveExit(d, spread) = (a >= y * spread)
  BY DEF BelowEntry, AboveExit
<1> HIDE DEF a, x, y
<1>4. BelowOn(l, n, EntryNum) = BelowEntry(d, spread)
  <2>1. (Window * a <= x * (Window * spread)) = (a <= x * spread)
    BY <1>1, <1>2, <1>a, Scaled
  <2> QED
    BY <1>b, <1>c, <2>1
<1>5. BeyondOn(l, n, ExitNum) = AboveExit(d, spread)
  <2>1. (Window * a >= y * (Window * spread)) = (a >= y * spread)
    BY <1>1, <1>2, <1>a, Scaled
  <2> QED
    BY <1>b, <1>c, <2>1
<1>6. EntersOn(l, "MeanReversion", n) = (SquaresOn(l, n) # 0 /\ BelowOn(l, n, EntryNum))
  BY DEF EntersOn
<1>7. LeavesOn(l, "MeanReversion", n) = (SquaresOn(l, n) # 0 /\ BeyondOn(l, n, ExitNum))
  BY DEF LeavesOn
<1>8. EntryIsNoExit /\ spread # 0 => ~(BelowEntry(d, spread) /\ AboveExit(d, spread))
  BY <1>1, MeanApart DEF EntryIsNoExit
<1> QED
  BY <1>3, <1>4, <1>5, <1>6, <1>7, <1>8 DEF n, d, spread

LEMMA RisenIs ==
    ASSUME NEW then \in Int, NEW now \in Int
    PROVE  Risen(then, now) = (ThresholdDen * now > (ThresholdDen + ThresholdNum) * then)
<1>1. ASSUME NEW x \in Int, NEW y \in Int
      PROVE  ((now - then) * y > x * then) = (y * now > (y + x) * then)
  <2>1. (now - then) * y = y * now - y * then /\ (y + x) * then = y * then + x * then
    OBVIOUS
  <2> QED
    BY <2>1
<1>2. ThresholdNum \in Int /\ ThresholdDen \in Int
  BY StrategiesAssumption
<1> QED
  BY <1>1, <1>2 DEF Risen

LEMMA MomentumRules ==
    ASSUME NEW m \in Seq(Bars), NEW n \in 1 .. Len(m), n - Lookback \in 1 .. Len(m), NEW then, NEW now,
           now = m[n].close, then = m[n - Lookback].close
    PROVE  /\ EntersOn(m, "Momentum", n) = Risen(then, now)
           /\ LeavesOn(m, "Momentum", n) = (now < then)
           /\ EntryIsNoExit => ~(Risen(then, now) /\ now < then)
           /\ then # 0
<1>1. now \in Nat \ {0} /\ then \in Nat \ {0}
  <2>1. m[n] \in Bars /\ m[n - Lookback] \in Bars
    OBVIOUS
  <2> QED
    BY <2>1, BarsAssumption
<1>2. ThresholdNum \in Int /\ ThresholdDen \in Nat \ {0}
  BY StrategiesAssumption
<1>4. Risen(then, now) = (ThresholdDen * now > (ThresholdDen + ThresholdNum) * then)
  BY <1>1, RisenIs
<1>5. EntersOn(m, "Momentum", n) = (ThresholdDen * now > (ThresholdDen + ThresholdNum) * then)
  BY DEF EntersOn
<1>6. LeavesOn(m, "Momentum", n) = (now < then)
  BY DEF LeavesOn
<1>7. ASSUME EntryIsNoExit, now < then PROVE ~Risen(then, now)
  <2>0. ThresholdNum \in Nat
    BY <1>2, <1>7 DEF EntryIsNoExit
  <2>1. \A a, b, x \in Nat : \A y \in Nat \ {0} : b < a => ~((b - a) * y > x * a)
    <3> SUFFICES ASSUME NEW a \in Nat, NEW b \in Nat, NEW x \in Nat, NEW y \in Nat \ {0}, b < a
                 PROVE  ~((b - a) * y > x * a)
      OBVIOUS
    <3>1. (b - a) * y < 0 /\ x * a >= 0
      OBVIOUS
    <3> QED
      BY <3>1
  <2> QED
    BY <1>1, <1>2, <1>7, <2>0, <2>1 DEF Risen
<1> QED
  BY <1>1, <1>4, <1>5, <1>6, <1>7 DEF Risen

\* The least and the greatest of the last n values.
LEMMA ExtremesRead ==
    ASSUME NEW ring, NEW n \in Nat \ {0}, \A age \in 0 .. n - 1 : At(ring, age) \in Int
    PROVE  /\ \A x \in Int : (x > MaxOfLast(ring, n)) <=> (\A age \in 0 .. n - 1 : x > At(ring, age))
           /\ \A x \in Int : (x < MinOfLast(ring, n)) <=> (\A age \in 0 .. n - 1 : x < At(ring, age))
<1> DEFINE S == {At(ring, age) : age \in 0 .. n - 1}
           top == T!Max(S)
           least == T!Min(S)
<1>1. MaxOfLast(ring, n) = top /\ MinOfLast(ring, n) = least
  BY DEF MaxOfLast, MinOfLast, Max, Min, T!Max, T!Min
<1>2. S \subseteq Int /\ S # {}
  <2>1. 0 \in 0 .. n - 1
    OBVIOUS
  <2> QED
    BY <2>1
<1>3. T!IsFiniteSet(S)
  <2> DEFINE f == [age \in 0 .. n - 1 |-> At(ring, age)]
  <2>0. f \in Surjection(0 .. n - 1, S)
    BY DEF Surjection
  <2>1. IsFiniteSet(0 .. n - 1) /\ f \in Surjection(0 .. n - 1, S)
    BY <2>0, FS_Interval
  <2> HIDE DEF f, S
  <2>2. IsFiniteSet(S)
    BY <2>1, FS_Surjection
  <2>3. T!IsFiniteSet(S) <=> IsFiniteSet(S)
    BY DEF T!IsFiniteSet, IsFiniteSet
  <2> QED
    BY <2>2, <2>3
<1> HIDE DEF S
<1>4. /\ top \in S /\ \A y \in S : top >= y
      /\ least \in S /\ \A y \in S : least <= y
  BY <1>2, <1>3, EmptyFinite, T!LargestExists
<1> HIDE DEF top, least
<1>5. top \in Int /\ least \in Int
  BY <1>2, <1>4
<1>6. ASSUME NEW x \in Int
      PROVE  /\ (x > top) <=> (\A y \in S : x > y)
             /\ (x < least) <=> (\A y \in S : x < y)
  <2>1. ASSUME NEW y \in S PROVE y \in Int /\ top >= y /\ least <= y
    BY <1>2, <1>4
  <2>2. ASSUME NEW y \in S PROVE (x > top => x > y) /\ (x < least => x < y)
    BY <1>5, <2>1
  <2>3. (x > top) <=> (\A y \in S : x > y)
    BY <1>4, <2>2
  <2>4. (x < least) <=> (\A y \in S : x < y)
    BY <1>4, <2>2
  <2> QED
    BY <2>3, <2>4
<1>7. ASSUME NEW x \in Int
      PROVE  /\ (\A y \in S : x > y) <=> (\A age \in 0 .. n - 1 : x > At(ring, age))
             /\ (\A y \in S : x < y) <=> (\A age \in 0 .. n - 1 : x < At(ring, age))
  BY DEF S
<1> QED
  BY <1>1, <1>6, <1>7

LEMMA BreakoutRules ==
    ASSUME NEW l \in Seq(Bars), NEW bar \in Bars, NEW highs, NEW lows,
           Newest(highs, l, "high"), Newest(lows, l, "low"),
           highs.size >= Lookback, lows.size >= Lookback
    PROVE  LET enters == EntersOn(Append(l, bar), "Breakout", Len(l) + 1)
               leaves == LeavesOn(Append(l, bar), "Breakout", Len(l) + 1)
           IN  /\ enters <=> (bar.close > MaxOfLast(highs, Lookback))
               /\ leaves <=> (bar.close < MinOfLast(lows, Lookback))
               /\ EntryIsNoExit => ~(enters /\ leaves)
<1> DEFINE m == Append(l, bar)
           n == Len(l) + 1
<1>1. Lookback \in Nat \ {0} /\ Len(l) \in Nat /\ n \in Nat
  BY StrategiesAssumption
<1>2. /\ highs.size \in Nat /\ lows.size \in Nat
      /\ \A age \in 0 .. Lookback - 1 : age \in 0 .. highs.size - 1 /\ age \in 0 .. lows.size - 1
  BY <1>1 DEF Newest
<1>3. m[n] = bar /\ \A j \in 1 .. Len(l) : m[j] = l[j]
  BY <1>1
<1> HIDE DEF m
<1>4. \A age \in 0 .. Lookback - 1 :
        /\ Len(l) - age \in 1 .. Len(l)
        /\ At(highs, age) = m[Len(l) - age].high /\ At(highs, age) \in Int
        /\ At(lows, age) = m[Len(l) - age].low /\ At(lows, age) \in Int
  <2> SUFFICES ASSUME NEW age \in 0 .. Lookback - 1
               PROVE  /\ Len(l) - age \in 1 .. Len(l)
                      /\ At(highs, age) = m[Len(l) - age].high /\ At(highs, age) \in Int
                      /\ At(lows, age) = m[Len(l) - age].low /\ At(lows, age) \in Int
    OBVIOUS
  <2>1. /\ Len(l) - age \in 1 .. Len(l)
        /\ At(highs, age) = l[Len(l) - age].high /\ At(highs, age) \in Nat \ {0}
    BY <1>2 DEF Newest
  <2>2. At(lows, age) = l[Len(l) - age].low /\ At(lows, age) \in Nat \ {0}
    BY <1>2 DEF Newest
  <2>3. m[Len(l) - age] = l[Len(l) - age]
    BY <1>3, <2>1
  <2> QED
    BY <2>1, <2>2, <2>3
<1>5. /\ \A age \in 0 .. Lookback - 1 : Len(l) - age \in n - Lookback .. n - 1
      /\ \A j \in n - Lookback .. n - 1 : Len(l) - j \in 0 .. Lookback - 1 /\ Len(l) - (Len(l) - j) = j
  BY <1>1
<1>6. bar.close \in Int
  BY BarIsPriced
<1> HIDE DEF n
<1>7. EntersOn(m, "Breakout", n) <=> (bar.close > MaxOfLast(highs, Lookback))
  <2>1. (bar.close > MaxOfLast(highs, Lookback))
          <=> (\A age \in 0 .. Lookback - 1 : bar.close > At(highs, age))
    BY <1>1, <1>4, <1>6, ExtremesRead
  <2>2. EntersOn(m, "Breakout", n) <=> (\A j \in n - Lookback .. n - 1 : bar.close > m[j].high)
    BY <1>3 DEF EntersOn
  <2> QED
    BY <2>1, <2>2, <1>4, <1>5
<1>8. LeavesOn(m, "Breakout", n) <=> (bar.close < MinOfLast(lows, Lookback))
  <2>1. (bar.close < MinOfLast(lows, Lookback))
          <=> (\A age \in 0 .. Lookback - 1 : bar.close < At(lows, age))
    BY <1>1, <1>4, <1>6, ExtremesRead
  <2>2. LeavesOn(m, "Breakout", n) <=> (\A j \in n - Lookback .. n - 1 : bar.close < m[j].low)
    BY <1>3 DEF LeavesOn
  <2>3. ASSUME NEW j \in n - Lookback .. n - 1, \A age \in 0 .. Lookback - 1 : bar.close < At(lows, age)
        PROVE  bar.close < m[j].low
    <3>1. At(lows, Len(l) - j) = m[Len(l) - (Len(l) - j)].low
      BY <1>4, <1>5
    <3>2. At(lows, Len(l) - j) = m[j].low
      BY <1>5, <3>1
    <3> QED
      BY <1>5, <2>3, <3>2
  <2>4. ASSUME NEW age \in 0 .. Lookback - 1, \A j \in n - Lookback .. n - 1 : bar.close < m[j].low
        PROVE  bar.close < At(lows, age)
    BY <1>4, <1>5, <2>4
  <2> QED
    BY <2>1, <2>2, <2>3, <2>4
<1>9. ASSUME EntryIsNoExit, EntersOn(m, "Breakout", n), LeavesOn(m, "Breakout", n)
      PROVE  FALSE
  <2>1. Len(l) \in n - Lookback .. n - 1 /\ Len(l) \in 1 .. Len(l)
    <3>1. 0 \in 0 .. Lookback - 1 /\ Len(l) - 0 = Len(l)
      BY <1>1
    <3> QED
      BY <3>1, <1>4, <1>5
  <2>2. bar.close > m[Len(l)].high /\ bar.close < m[Len(l)].low
    BY <1>3, <1>9, <2>1 DEF EntersOn, LeavesOn
  <2>3. m[Len(l)] \in Bars
    BY <1>3, <2>1
  <2>4. m[Len(l)].high \in Int /\ m[Len(l)].low \in Int /\ m[Len(l)].low <= m[Len(l)].high
    BY <1>9, <2>3, BarIsPriced DEF EntryIsNoExit
  <2> QED
    BY <1>6, <2>2, <2>4
<1> QED
  BY <1>7, <1>8, <1>9 DEF m, n

-----------------------------------------------------------------------------
(* What a bar makes of the position *)

\* The rings after a bar are read from the bars with it.
LEMMA AfterBar ==
    ASSUME NEW s \in Instance, NEW l \in Seq(Bars), NEW bar \in Bars, NEW first \in 0 .. Len(l),
           RingsShow(s, SubSeq(l, first + 1, Len(l))), s.kind # "Breakout"
    PROVE  LET closes == Push(s.closes, bar.close)
               m == Append(l, bar)
           IN  /\ Newest(closes, m, "close")
               /\ closes.size = IF Len(l) + 1 - first < Capacity THEN Len(l) + 1 - first ELSE Capacity
<1> DEFINE closes == Push(s.closes, bar.close)
           m == Append(l, bar)
           tail == SubSeq(l, first + 1, Len(l))
<1>1. m \in Seq(Bars) /\ Len(m) = Len(l) + 1 /\ Len(l) \in Nat /\ first \in 0 .. Len(m)
      /\ tail \in Seq(Bars)
  OBVIOUS
<1>2. RingsShow(OnBar(s, bar), Append(tail, bar))
  BY <1>1, OnBarShows
<1>3. SubSeq(m, first + 1, Len(m)) = Append(tail, bar)
  BY <1>1, SuffixGrows
<1>4. OnBar(s, bar).kind # "Breakout" /\ OnBar(s, bar).closes = closes
  BY OnBarKeeps
<1> HIDE DEF closes, m, tail
<1>5. Shows(closes, Field(SubSeq(m, first + 1, Len(m)), "close"))
  BY <1>2, <1>3, <1>4 DEF RingsShow
<1>6. /\ closes.size = IF Len(m) - first < Capacity THEN Len(m) - first ELSE Capacity
      /\ \A age \in 0 .. closes.size - 1 :
            /\ Len(m) - age \in 1 .. Len(m)
            /\ At(closes, age) = m[Len(m) - age]["close"]
            /\ At(closes, age) \in Nat \ {0}
  BY <1>1, <1>5, ShownBars
<1>7. closes.size \in Nat
  BY <1>1, <1>6, RingAssumption
<1>8. Newest(closes, m, "close")
  BY <1>6, <1>7 DEF Newest
<1> QED
  BY <1>1, <1>6, <1>8 DEF closes, m

LEMMA SizeSays ==
    ASSUME NEW n \in Nat, NEW first \in 0 .. n, NEW w \in 0 .. Capacity, NEW size,
           size = IF n - first < Capacity THEN n - first ELSE Capacity
    PROVE  (size >= w) = (first + w <= n) /\ size \in Nat
BY RingAssumption

\* What OnBar does to the position of an instance that holds from an entry to the
\* next exit, once it has its window; before that, nothing.
Decides(s, l, bar, first) ==
    LET m == Append(l, bar)
        n == Len(l) + 1
        holding == OnBar(s, bar).holding
    IN  IF first + Needs(s.kind) <= n
        THEN holding <=> EntersOn(m, s.kind, n) \/ (s.holding /\ ~LeavesOn(m, s.kind, n))
        ELSE holding = s.holding

LEMMA MeanDecides ==
    ASSUME NEW s \in Instance, NEW l \in Seq(Bars), NEW bar \in Bars, NEW first \in 0 .. Len(l),
           RingsShow(s, SubSeq(l, first + 1, Len(l))), s.kind = "MeanReversion", EntryIsNoExit
    PROVE  Decides(s, l, bar, first)
<1> DEFINE closes == Push(s.closes, bar.close)
           m == Append(l, bar)
           n == Len(l) + 1
           d == Deviation(closes)
           spread == Spread(closes)
<1>1. /\ s.holding \in BOOLEAN
      /\ \A v : [s EXCEPT !.closes = v].holding = s.holding
      /\ \A v, w : [s EXCEPT !.closes = v, !.holding = w].holding = w
  BY DEF Instance
<1>2. /\ Newest(closes, m, "close")
      /\ closes.size = IF n - first < Capacity THEN n - first ELSE Capacity
  BY AfterBar
<1>3. m \in Seq(Bars) /\ Len(m) = n /\ n \in Nat /\ first \in 0 .. n
  OBVIOUS
<1>4. (closes.size >= Window) = (first + Window <= n)
  BY <1>2, <1>3, SizeSays, WindowsFit
<1>5. Needs(s.kind) = Window
  BY DEF Needs
<1>6. OnBar(s, bar).holding = IF closes.size >= Window /\ spread # 0
                              THEN Hold(s.holding, BelowEntry(d, spread), AboveExit(d, spread))
                              ELSE s.holding
  BY <1>1 DEF OnBar, MeanReversion
<1> HIDE DEF closes, m, n, d, spread
<1>7. CASE first + Window <= n
  <2>1. /\ EntersOn(m, "MeanReversion", n) = (spread # 0 /\ BelowEntry(d, spread))
        /\ LeavesOn(m, "MeanReversion", n) = (spread # 0 /\ AboveExit(d, spread))
        /\ ~(EntersOn(m, "MeanReversion", n) /\ LeavesOn(m, "MeanReversion", n))
    BY <1>2, <1>3, <1>4, <1>7, MeanRules DEF d, spread
  <2> QED
    BY <1>1, <1>4, <1>5, <1>6, <1>7, <2>1 DEF Decides, Hold, m, n
<1>8. CASE ~(first + Window <= n)
  BY <1>4, <1>5, <1>6, <1>8 DEF Decides, n
<1> QED
  BY <1>7, <1>8

LEMMA MomentumDecides ==
    ASSUME NEW s \in Instance, NEW l \in Seq(Bars), NEW bar \in Bars, NEW first \in 0 .. Len(l),
           RingsShow(s, SubSeq(l, first + 1, Len(l))), s.kind = "Momentum", EntryIsNoExit
    PROVE  Decides(s, l, bar, first)
<1> DEFINE closes == Push(s.closes, bar.close)
           m == Append(l, bar)
           n == Len(l) + 1
           then == At(closes, Lookback)
<1>1. /\ s.holding \in BOOLEAN
      /\ \A v : [s EXCEPT !.closes = v].holding = s.holding
      /\ \A v, w : [s EXCEPT !.closes = v, !.holding = w].holding = w
  BY DEF Instance
<1>2. /\ Newest(closes, m, "close")
      /\ closes.size = IF n - first < Capacity THEN n - first ELSE Capacity
  BY AfterBar
<1>3. m \in Seq(Bars) /\ Len(m) = n /\ n \in Nat /\ first \in 0 .. n /\ n \in 1 .. Len(m)
      /\ m[n] = bar
  OBVIOUS
<1>4. /\ (closes.size >= Lookback + 1) = (first + (Lookback + 1) <= n)
      /\ closes.size \in Nat
      /\ Lookback \in Nat
  <2>1. Lookback + 1 \in 0 .. Capacity /\ Lookback \in Nat
    BY WindowsFit, RingAssumption
  <2> QED
    BY <1>2, <1>3, <2>1, SizeSays
<1>5. Needs(s.kind) = Lookback + 1
  BY DEF Needs
<1>6. OnBar(s, bar).holding = IF closes.size > Lookback /\ then # 0
                              THEN Hold(s.holding, Risen(then, bar.close), bar.close < then)
                              ELSE s.holding
  BY <1>1 DEF OnBar, Momentum
<1> HIDE DEF closes, m, n, then
<1>7. (closes.size > Lookback) = (first + (Lookback + 1) <= n)
  BY <1>4
<1>8. CASE first + (Lookback + 1) <= n
  <2>1. Lookback \in 0 .. closes.size - 1
    BY <1>4, <1>8
  <2>2. n - Lookback \in 1 .. Len(m) /\ then = m[n - Lookback].close
    BY <1>2, <1>3, <2>1 DEF Newest, then
  <2>3. /\ EntersOn(m, "Momentum", n) = Risen(then, bar.close)
        /\ LeavesOn(m, "Momentum", n) = (bar.close < then)
        /\ ~(Risen(then, bar.close) /\ bar.close < then)
        /\ then # 0
    BY <1>3, <2>2, MomentumRules
  <2> QED
    BY <1>1, <1>5, <1>6, <1>7, <1>8, <2>3 DEF Decides, Hold, m, n
<1>9. CASE ~(first + (Lookback + 1) <= n)
  BY <1>5, <1>6, <1>7, <1>9 DEF Decides, n
<1> QED
  BY <1>8, <1>9

LEMMA BreakoutDecides ==
    ASSUME NEW s \in Instance, NEW l \in Seq(Bars), NEW bar \in Bars, NEW first \in 0 .. Len(l),
           RingsShow(s, SubSeq(l, first + 1, Len(l))), s.kind = "Breakout", EntryIsNoExit
    PROVE  Decides(s, l, bar, first)
<1> DEFINE m == Append(l, bar)
           n == Len(l) + 1
           next == [s EXCEPT !.highs = Push(s.highs, bar.high), !.lows = Push(s.lows, bar.low)]
           above == bar.close > MaxOfLast(s.highs, Lookback)
           below == bar.close < MinOfLast(s.lows, Lookback)
<1>1. /\ s.holding \in BOOLEAN /\ next.holding = s.holding
      /\ \A w : [next EXCEPT !.holding = w].holding = w
  BY DEF Instance
<1>2. /\ s.highs.size = IF Len(l) - first < Capacity THEN Len(l) - first ELSE Capacity
      /\ Newest(s.highs, l, "high")
      /\ s.lows.size = IF Len(l) - first < Capacity THEN Len(l) - first ELSE Capacity
      /\ Newest(s.lows, l, "low")
  <2>1. /\ Shows(s.highs, Field(SubSeq(l, first + 1, Len(l)), "high"))
        /\ Shows(s.lows, Field(SubSeq(l, first + 1, Len(l)), "low"))
    BY DEF RingsShow
  <2>2. s.highs \in Ring /\ s.lows \in Ring
    BY DEF Instance
  <2>3. s.highs.size \in Nat /\ s.lows.size \in Nat
    BY <2>2, RingAssumption DEF Ring
  <2>4. /\ s.highs.size = IF Len(l) - first < Capacity THEN Len(l) - first ELSE Capacity
        /\ Newest(s.highs, l, "high")
    BY <2>1, <2>3, ShownBars DEF Newest
  <2>5. /\ s.lows.size = IF Len(l) - first < Capacity THEN Len(l) - first ELSE Capacity
        /\ Newest(s.lows, l, "low")
    BY <2>1, <2>3, ShownBars DEF Newest
  <2> QED
    BY <2>4, <2>5
<1>3. /\ (s.highs.size >= Lookback) = (first + Lookback <= Len(l))
      /\ (s.lows.size >= Lookback) = (first + Lookback <= Len(l))
  <2>1. Len(l) \in Nat /\ Lookback \in 0 .. Capacity
    BY WindowsFit
  <2>2. (s.highs.size >= Lookback) = (first + Lookback <= Len(l))
    BY <1>2, <2>1, SizeSays
  <2>3. (s.lows.size >= Lookback) = (first + Lookback <= Len(l))
    BY <1>2, <2>1, SizeSays
  <2> QED
    BY <2>2, <2>3
<1>4. /\ Needs(s.kind) = Lookback + 1
      /\ (first + Lookback <= Len(l)) = (first + (Lookback + 1) <= n)
  BY WindowsFit DEF Needs
<1>5. OnBar(s, bar).holding = IF s.highs.size >= Lookback THEN Hold(s.holding, above, below)
                              ELSE s.holding
  BY <1>1 DEF OnBar, Breakout, Measured
<1>6. CASE first + Lookback <= Len(l)
  <2>1. /\ EntersOn(m, "Breakout", n) <=> above
        /\ LeavesOn(m, "Breakout", n) <=> below
        /\ ~(EntersOn(m, "Breakout", n) /\ LeavesOn(m, "Breakout", n))
    BY <1>2, <1>3, <1>6, BreakoutRules
  <2> HIDE DEF m, n, above, below
  <2> QED
    BY <1>1, <1>3, <1>4, <1>5, <1>6, <2>1 DEF Decides, Hold, m, n
<1>7. CASE ~(first + Lookback <= Len(l))
  BY <1>3, <1>4, <1>5, <1>7 DEF Decides
<1> QED
  BY <1>6, <1>7

\* What the bars tell of an instance that was started when `first` of them had
\* passed: what it holds, and for a crossover since when and which side it keeps.
Told(s, l, first) ==
    /\ s.holding <=> HoldsOn(l, s.kind, first)
    /\ s.kind = "SmaCrossover" =>
         /\ s.primed <=> first + Slow <= Len(l)
         /\ s.primed => s.was_above = AboveOn(l, Len(l))

LEMMA NothingDecided ==
    ASSUME NEW l \in Seq(Bars), NEW kind \in Kinds, NEW first \in Nat, ~(first + Needs(kind) <= Len(l))
    PROVE  ~HoldsOn(l, kind, first)
<1>1. Needs(kind) \in Nat /\ Len(l) \in Nat
  BY StrategiesAssumption DEF Needs, Kinds
<1>2. DaysOn(l, kind, first) = {}
  BY <1>1 DEF DaysOn
<1> QED
  BY <1>2 DEF HoldsOn

LEMMA HoldersTold ==
    ASSUME NEW s \in Instance, NEW l \in Seq(Bars), NEW bar \in Bars, NEW first \in 0 .. Len(l),
           RingsShow(s, SubSeq(l, first + 1, Len(l))), s.kind # "SmaCrossover", EntryIsNoExit,
           Told(s, l, first)
    PROVE  Told(OnBar(s, bar), Append(l, bar), first)
<1> DEFINE m == Append(l, bar)
           n == Len(l) + 1
           next == OnBar(s, bar)
<1>1. /\ s.kind \in Kinds \ {"SmaCrossover"} /\ next.kind = s.kind
      /\ s.holding \in BOOLEAN /\ next.holding \in BOOLEAN
  BY OnBarKeeps DEF Instance
<1>2. Decides(s, l, bar, first)
  BY <1>1, MeanDecides, MomentumDecides, BreakoutDecides DEF Kinds
<1>3. m \in Seq(Bars) /\ Len(m) = n /\ n \in Nat /\ Len(l) \in Nat /\ first \in Nat
  OBVIOUS
<1>4. s.holding <=> HoldsOn(l, s.kind, first)
  BY DEF Told
<1>5. next.holding <=> HoldsOn(m, s.kind, first)
  <2>1. CASE first + Needs(s.kind) <= n
    <3>1. HoldsOn(m, s.kind, first) <=>
            (EntersOn(m, s.kind, n) \/ (HoldsOn(l, s.kind, first) /\ ~LeavesOn(m, s.kind, n)))
      BY <1>1, <2>1, HeldOneMore
    <3>2. next.holding <=> EntersOn(m, s.kind, n) \/ (s.holding /\ ~LeavesOn(m, s.kind, n))
      BY <1>2, <2>1 DEF Decides
    <3> HIDE DEF m, n, next
    <3> QED
      BY <1>4, <3>1, <3>2
  <2>2. CASE ~(first + Needs(s.kind) <= n)
    <3>1. next.holding = s.holding
      BY <1>2, <2>2 DEF Decides
    <3>2. ~HoldsOn(m, s.kind, first)
      BY <1>1, <1>3, <2>2, NothingDecided
    <3>3. ~HoldsOn(l, s.kind, first)
      <4>1. Needs(s.kind) \in Nat
        BY <1>1, StrategiesAssumption DEF Needs, Kinds
      <4>2. ~(first + Needs(s.kind) <= Len(l))
        BY <1>3, <2>2, <4>1
      <4> QED
        BY <1>1, <1>3, <4>2, NothingDecided
    <3> HIDE DEF m, n, next
    <3> QED
      BY <1>1, <1>4, <3>1, <3>2, <3>3
  <2> QED
    BY <2>1, <2>2
<1> HIDE DEF m, n, next
<1> QED
  BY <1>1, <1>5 DEF Told, m, next

LEMMA CrossoverTold ==
    ASSUME NEW s \in Instance, NEW l \in Seq(Bars), NEW bar \in Bars, NEW first \in 0 .. Len(l),
           RingsShow(s, SubSeq(l, first + 1, Len(l))), s.kind = "SmaCrossover",
           Told(s, l, first)
    PROVE  Told(OnBar(s, bar), Append(l, bar), first)
<1> DEFINE m == Append(l, bar)
           n == Len(l) + 1
           k == Len(l)
           next == OnBar(s, bar)
           closes == Push(s.closes, bar.close)
           above == Above(closes)
           days == DaysOn(l, "SmaCrossover", first)
           after == DaysOn(m, "SmaCrossover", first)
<1>1. /\ next.kind = "SmaCrossover"
      /\ s.holding \in BOOLEAN /\ s.primed \in BOOLEAN /\ s.was_above \in BOOLEAN
      /\ above \in BOOLEAN
  BY OnBarKeeps DEF Instance, Above
<1>2. /\ Newest(closes, m, "close")
      /\ closes.size = IF n - first < Capacity THEN n - first ELSE Capacity
  BY AfterBar
<1>3. /\ m \in Seq(Bars) /\ Len(m) = n /\ n \in Nat /\ k \in Nat /\ n = k + 1
      /\ first \in 0 .. n /\ first \in Nat /\ first <= k
      /\ Slow \in Nat \ {0}
  BY StrategiesAssumption
<1>4. SmaReady(closes) = (first + Slow <= n)
  <2> DEFINE size == closes.size
  <2>0. /\ size = IF n - first < Capacity THEN n - first ELSE Capacity
        /\ n \in Nat /\ first \in 0 .. n /\ Slow \in 0 .. Capacity
    BY <1>2, <1>3, WindowsFit
  <2> HIDE DEF m, n, size, k
  <2>2. (size >= Slow) = (first + Slow <= n)
    BY <2>0, SizeSays
  <2>1. (closes.size >= Slow) = (first + Slow <= n)
    BY <2>2 DEF size
  <2> QED
    BY <2>1 DEF SmaReady
<1>5. next = IF SmaReady(closes)
             THEN [s EXCEPT !.closes = closes, !.primed = TRUE, !.was_above = above,
                            !.holding = IF Crossed(s, above) THEN above ELSE @]
             ELSE [s EXCEPT !.closes = closes]
  BY DEF OnBar, SmaCrossover
<1>6. SmaReady(closes) =>
        /\ next.primed /\ next.was_above = above
        /\ next.holding = IF Crossed(s, above) THEN above ELSE s.holding
  <2>1. \A u, w, x : LET t == [s EXCEPT !.closes = u, !.primed = TRUE, !.was_above = w, !.holding = x]
                     IN  t.primed /\ t.was_above = w /\ t.holding = x
    BY DEF Instance
  <2> HIDE DEF next, closes, above
  <2> QED
    BY <1>5, <2>1
<1>7. ~SmaReady(closes) => next.primed = s.primed /\ next.was_above = s.was_above /\ next.holding = s.holding
  <2>1. \A u : LET t == [s EXCEPT !.closes = u]
               IN  t.primed = s.primed /\ t.was_above = s.was_above /\ t.holding = s.holding
    BY DEF Instance
  <2> HIDE DEF next, closes, above
  <2> QED
    BY <1>5, <2>1
<1>8. /\ s.holding <=> HoldsOn(l, "SmaCrossover", first)
      /\ s.primed <=> first + Slow <= k
      /\ s.primed => s.was_above = AboveOn(l, k)
  BY DEF Told
<1>9. Needs("SmaCrossover") = Slow /\ "SmaCrossover" \in Kinds
  BY DEF Needs, Kinds
<1>10. CASE ~(first + Slow <= n)
  <2>1. ~(first + Slow <= k)
    BY <1>3, <1>10
  <2>2. ~HoldsOn(l, "SmaCrossover", first) /\ ~HoldsOn(m, "SmaCrossover", first)
    BY <1>3, <1>9, <1>10, <2>1, NothingDecided
  <2>3. ~next.primed /\ ~next.holding
    BY <1>1, <1>4, <1>7, <1>8, <1>10, <2>1, <2>2
  <2> HIDE DEF m, n, next
  <2> QED
    BY <1>1, <1>3, <1>10, <2>2, <2>3 DEF Told, m, next
<1>11. CASE first + Slow <= n
  <2>1. next.primed /\ next.was_above = above
        /\ next.holding = IF Crossed(s, above) THEN above ELSE s.holding
    BY <1>4, <1>6, <1>11
  <2>2. above = AboveOn(m, n)
    <3>1. closes.size >= Slow
      BY <1>4, <1>11 DEF SmaReady
    <3> QED
      BY <1>2, <1>3, <3>1, AboveRead
  <2>3. after = days \cup {n} /\ n \in after /\ \A i \in days : i \in 1 .. k /\ i >= Slow
    BY <1>3, <1>9, <1>11 DEF DaysOn
  <2>4. \A i \in days : AboveOn(m, i) = AboveOn(l, i)
    BY <2>3, EarlierStays
  <2>5. HoldsOn(m, "SmaCrossover", first) <=> AboveOn(m, n) /\ \E i \in after : ~AboveOn(m, i)
    BY <1>3, <2>3 DEF HoldsOn
  <2>6. HoldsOn(l, "SmaCrossover", first) <=> k \in days /\ AboveOn(l, k) /\ \E i \in days : ~AboveOn(l, i)
    BY DEF HoldsOn
  <2>7. (k \in days) <=> first + Slow <= k
    BY <1>3, <1>9 DEF DaysOn
  <2>8. ~(first + Slow <= k) => days = {}
    BY <1>3, <1>9 DEF DaysOn
  <2> HIDE DEF m, n, k, next, closes, above, days, after
  <2>9. next.holding <=> HoldsOn(m, "SmaCrossover", first)
    <3>1. CASE s.primed
      <4>1. k \in days /\ s.was_above = AboveOn(l, k)
        BY <1>8, <2>7, <3>1
      <4>2. Crossed(s, above) <=> above # s.was_above
        BY <3>1 DEF Crossed
      <4>3. HoldsOn(m, "SmaCrossover", first) <=> above /\ \E i \in days : ~AboveOn(l, i)
        BY <2>2, <2>3, <2>4, <2>5
      <4>4. s.holding <=> s.was_above /\ \E i \in days : ~AboveOn(l, i)
        BY <1>8, <2>6, <4>1
      <4>5. CASE above = s.was_above
        BY <1>1, <2>1, <4>2, <4>3, <4>4, <4>5
      <4>6. CASE above # s.was_above
        <5>1. above => \E i \in days : ~AboveOn(l, i)
          BY <1>1, <4>1, <4>6
        <5> QED
          BY <1>1, <2>1, <4>2, <4>3, <4>6, <5>1
      <4> QED
        BY <4>5, <4>6
    <3>2. CASE ~s.primed
      <4>1. ~s.holding /\ days = {}
        BY <1>8, <2>6, <2>8, <3>2
      <4>2. ~HoldsOn(m, "SmaCrossover", first)
        BY <2>3, <2>5, <4>1
      <4> QED
        BY <1>1, <2>1, <3>2, <4>1, <4>2 DEF Crossed
    <3> QED
      BY <3>1, <3>2
  <2> QED
    BY <1>1, <1>3, <1>11, <2>1, <2>2, <2>9 DEF Told, m, next
<1> QED
  BY <1>10, <1>11 DEF n

LEMMA OnBarTold ==
    ASSUME NEW s \in Instance, NEW l \in Seq(Bars), NEW bar \in Bars, NEW first \in 0 .. Len(l),
           RingsShow(s, SubSeq(l, first + 1, Len(l))), EntryIsNoExit, Told(s, l, first)
    PROVE  Told(OnBar(s, bar), Append(l, bar), first)
BY CrossoverTold, HoldersTold

LEMMA NewTold ==
    ASSUME NEW kind \in Kinds, NEW l \in Seq(Bars)
    PROVE  Told(New(kind), l, Len(l))
<1>1. Needs(kind) \in Nat \ {0} /\ Len(l) \in Nat /\ Slow \in Nat \ {0}
  BY StrategiesAssumption DEF Needs, Kinds
<1>2. ~(Len(l) + Needs(kind) <= Len(l)) /\ ~(Len(l) + Slow <= Len(l))
  BY <1>1
<1>3. ~HoldsOn(l, kind, Len(l))
  BY <1>1, <1>2, NothingDecided
<1>4. New(kind).kind = kind /\ ~New(kind).holding /\ ~New(kind).primed
  BY DEF New
<1> QED
  BY <1>2, <1>3, <1>4 DEF Told

-----------------------------------------------------------------------------
(* The history tells what both instances ask for. *)

TargetInv == Told(steady, seen, 0) /\ Told(fresh, seen, since)

LEMMA TargetInit == Init => TargetInv
<1> SUFFICES ASSUME Init PROVE TargetInv
  OBVIOUS
<1>1. PICK kind \in Kinds : steady = New(kind)
  BY DEF Init
<1>2. seen = <<>> /\ fresh = steady /\ since = 0
  BY DEF Init
<1>3. Told(New(kind), <<>>, 0)
  <2>1. <<>> \in Seq(Bars) /\ Len(<<>>) = 0
    OBVIOUS
  <2> QED
    BY <2>1, NewTold
<1> QED
  BY <1>1, <1>2, <1>3 DEF TargetInv

LEMMA TargetArrive ==
    ASSUME IInv, TargetInv, EntryIsNoExit, NEW bar \in Bars, Arrive(bar)
    PROVE  TargetInv'
<1>1. /\ seen \in Seq(Bars) /\ Len(seen) \in Nat /\ since \in 0 .. Len(seen)
      /\ steady \in Instance /\ fresh \in Instance
      /\ RingsShow(steady, seen) /\ RingsShow(fresh, SubSeq(seen, since + 1, Len(seen)))
  BY DEF IInv, TypeOK, RingIsWindow, Suffix
<1>2. /\ seen' = Append(seen, bar) /\ steady' = OnBar(steady, bar) /\ fresh' = OnBar(fresh, bar)
      /\ since' = since
  BY DEF Arrive
<1>3. SubSeq(seen, 0 + 1, Len(seen)) = seen
  <2> DEFINE all == SubSeq(seen, 0 + 1, Len(seen))
  <2>1. /\ all \in Seq(Bars) /\ Len(all) = Len(seen)
        /\ \A i \in 1 .. Len(seen) : all[i] = seen[i]
    BY <1>1
  <2> HIDE DEF all
  <2>2. all = seen
    BY <1>1, <2>1, SameItems
  <2> QED
    BY <2>2 DEF all
<1>4. Told(steady, seen, 0) /\ Told(fresh, seen, since)
  BY DEF TargetInv
<1>5. Told(OnBar(steady, bar), Append(seen, bar), 0)
  <2> DEFINE all == SubSeq(seen, 0 + 1, Len(seen))
  <2>0. all = seen
    BY <1>3
  <2> HIDE DEF all
  <2>2. RingsShow(steady, all) /\ 0 \in 0 .. Len(seen)
    BY <1>1, <2>0
  <2>1. RingsShow(steady, SubSeq(seen, 0 + 1, Len(seen))) /\ 0 \in 0 .. Len(seen)
    BY <2>2 DEF all
  <2> QED
    BY <1>1, <1>4, <2>1, OnBarTold
<1>6. Told(OnBar(fresh, bar), Append(seen, bar), since)
  BY <1>1, <1>4, OnBarTold
<1> QED
  BY <1>2, <1>5, <1>6 DEF TargetInv

\* A list and the bar it ends with.
LEMMA EndsWith ==
    ASSUME NEW l \in Seq(Bars), l # <<>>
    PROVE  LET most == SubSeq(l, 1, Len(l) - 1)
           IN  /\ most \in Seq(Bars) /\ Len(most) = Len(l) - 1
               /\ Last(l) \in Bars /\ l = Append(most, Last(l))
<1> DEFINE n == Len(l)
           most == SubSeq(l, 1, n - 1)
           whole == Append(most, Last(l))
<1>1. n \in Nat \ {0} /\ Last(l) = l[n] /\ Last(l) \in Bars
  BY DEF Last
<1>2. most \in Seq(Bars) /\ Len(most) = n - 1 /\ \A i \in 1 .. n - 1 : most[i] = l[i]
  <2> DEFINE k == n - 1
             front == SubSeq(l, 1, k)
  <2>1. k \in Nat /\ k <= Len(l)
    BY <1>1
  <2> HIDE DEF k, n
  <2>2. \A i \in 1 .. k : l[i] \in Bars
    BY <2>1
  <2>3. front = [i \in 1 .. k |-> l[i]]
    BY <2>1
  <2>4. front \in Seq(Bars) /\ Len(front) = k /\ \A i \in 1 .. k : front[i] = l[i]
    BY <2>1, <2>2, <2>3
  <2> QED
    BY <2>4 DEF k
<1> HIDE DEF most
<1>3. whole \in Seq(Bars) /\ Len(whole) = n /\ \A i \in 1 .. n : whole[i] = l[i]
  <2>1. whole \in Seq(Bars) /\ Len(whole) = (n - 1) + 1
    BY <1>1, <1>2
  <2>2. \A i \in 1 .. n - 1 : whole[i] = most[i]
    BY <1>1, <1>2
  <2>3. whole[(n - 1) + 1] = Last(l)
    BY <1>1, <1>2
  <2>4. (n - 1) + 1 = n /\ \A i \in 1 .. n : i \in 1 .. n - 1 \/ i = n
    BY <1>1
  <2> HIDE DEF whole, n
  <2> QED
    BY <1>1, <1>2, <2>1, <2>2, <2>3, <2>4
<1>4. whole = l
  <2> HIDE DEF whole
  <2> QED
    BY <1>3, SameItems DEF n
<1> QED
  BY <1>1, <1>2, <1>4 DEF most

LEMMA TargetStartAnew ==
    ASSUME IInv, TargetInv, EntryIsNoExit, StartAnew
    PROVE  TargetInv'
<1>1. seen \in Seq(Bars) /\ fresh.kind \in Kinds
  BY DEF IInv, TypeOK, Instance
<1>2. seen' = seen /\ steady' = steady
  BY DEF StartAnew
<1>3. Told(steady, seen, 0)
  BY DEF TargetInv
<1> DEFINE new == New(fresh.kind)
<1>4. new \in Instance /\ RingsShow(new, <<>>)
  BY <1>1, NewIsInstance, NewShows
<1>5. CASE since' = Len(seen) /\ fresh' = new
  <2>1. Told(new, seen, Len(seen))
    BY <1>1, NewTold
  <2> QED
    BY <1>2, <1>3, <1>5, <2>1 DEF TargetInv
<1>6. CASE seen # <<>> /\ since' = Len(seen) - 1 /\ fresh' = OnBar(new, Last(seen))
  <2> DEFINE most == SubSeq(seen, 1, Len(seen) - 1)
  <2>1. /\ most \in Seq(Bars) /\ Len(most) = Len(seen) - 1
        /\ Last(seen) \in Bars /\ seen = Append(most, Last(seen))
    BY <1>1, <1>6, EndsWith
  <2> HIDE DEF most, new
  <2>2. Told(new, most, Len(most))
    BY <1>1, <2>1, NewTold DEF new
  <2>3. SubSeq(most, Len(most) + 1, Len(most)) = <<>> /\ Len(most) \in 0 .. Len(most)
    BY <2>1
  <2>4. Told(OnBar(new, Last(seen)), Append(most, Last(seen)), Len(most))
    BY <1>4, <2>1, <2>2, <2>3, OnBarTold
  <2>5. Told(fresh', seen', since')
    BY <1>2, <1>6, <2>1, <2>4
  <2> QED
    BY <1>2, <1>3, <2>5 DEF TargetInv
<1> QED
  BY <1>5, <1>6 DEF StartAnew

LEMMA TargetNext == EntryIsNoExit => (IInv /\ TargetInv /\ [Next]_vars => TargetInv')
<1> SUFFICES ASSUME EntryIsNoExit, IInv, TargetInv, [Next]_vars PROVE TargetInv'
  OBVIOUS
<1>1. CASE StartAnew
  BY <1>1, TargetStartAnew
<1>2. ASSUME NEW bar \in Bars, Arrive(bar) PROVE TargetInv'
  BY <1>2, TargetArrive
<1>3. CASE UNCHANGED vars
  BY <1>3 DEF TargetInv, vars
<1> QED
  BY <1>1, <1>2, <1>3 DEF Next

\* For every window, limit and threshold and whatever the bars, provided that no bar
\* is an entry and an exit at once (EntryIsNoExit: z_exit above z_entry, a threshold
\* that is not negative, lows no higher than their highs), and however often a process
\* is started anew: each instance holds exactly when the bars since its start call for
\* it (the rules of strategies.hpp), so no bar is forgotten, counted twice or measured
\* against a window it is part of.
THEOREM TargetsFollow == EntryIsNoExit => (Spec => []TargetFollowsHistory)
<1> SUFFICES ASSUME EntryIsNoExit PROVE Spec => []TargetFollowsHistory
  OBVIOUS
<1>1. Init => TargetInv
  BY TargetInit
<1>2. IInv /\ TargetInv /\ [Next]_vars => TargetInv'
  BY TargetNext
<1>3. IInv /\ TargetInv => TargetFollowsHistory
  <2> SUFFICES ASSUME IInv, TargetInv PROVE TargetFollowsHistory
    OBVIOUS
  <2>1. /\ steady.kind \in Kinds /\ fresh.kind \in Kinds
        /\ steady.holding \in BOOLEAN /\ fresh.holding \in BOOLEAN
    BY DEF IInv, TypeOK, Instance
  <2>2. /\ ShouldHold(steady.kind, 0) = HoldsOn(seen, steady.kind, 0)
        /\ ShouldHold(fresh.kind, since) = HoldsOn(seen, fresh.kind, since)
    BY <2>1, HistoryIsList
  <2>3. /\ steady.holding <=> HoldsOn(seen, steady.kind, 0)
        /\ fresh.holding <=> HoldsOn(seen, fresh.kind, since)
    BY DEF TargetInv, Told
  <2>4. \A kind, first : HoldsOn(seen, kind, first) \in BOOLEAN
    BY DEF HoldsOn
  <2> QED
    BY <2>1, <2>2, <2>3, <2>4 DEF TargetFollowsHistory
<1> QED
  BY <1>1, <1>2, <1>3, Invariance, PTL DEF Spec
=============================================================================
