------------------------- MODULE JournalFileProofs --------------------------
(***************************************************************************)
(* The journal as a file, for any strategies and symbols, any              *)
(* configurations, and files and streams of any length: what of it has     *)
(* reached the disk, and what the report makes of that.                    *)
(*                                                                         *)
(* T is the theory of the report (CommonTheorems) for lots keyed by        *)
(* strategy and symbol, as R is the report itself.                         *)
(***************************************************************************)
EXTENDS JournalFile, SequenceTheorems, FiniteSetTheorems, TLAPS

T == INSTANCE CommonTheorems WITH Symbols <- Books

-----------------------------------------------------------------------------
(* The report that JournalFile reads is the one the theory is about.       *)

LEMMA SameFinite == \A S : T!IsFiniteSet(S) <=> IsFiniteSet(S)
  BY DEF T!IsFiniteSet, IsFiniteSet

LEMMA BooksFinite == T!IsFiniteSet(Books) /\ T!IsFiniteSet(Registered)
<1>1. IsFiniteSet(Registered) /\ IsFiniteSet(Symbols)
  BY JournalAssumption, SymbolsAssumption
<1>2. IsFiniteSet(Books)
  BY <1>1, FS_Product DEF Books
<1> QED
  BY <1>1, <1>2, SameFinite

LEMMA SameTotal == \A f, S : R!Total(f, S) = T!Total(f, S)
  BY DEF R!Total, T!Total, R!MapThenSumSet, T!MapThenSumSet, R!MapThenFoldSet,
         T!MapThenFoldSet

LEMMA SameExtremes == \A S : R!Max(S) = T!Max(S) /\ R!Min(S) = T!Min(S)
  BY DEF R!Max, T!Max, R!Min, T!Min

LEMMA SameMatched == \A lots, q : R!Matched(lots, q) = T!Matched(lots, q)
<1>1. \A lots, i : R!Ahead(lots, i) = T!Ahead(lots, i)
  BY SameTotal DEF R!Ahead, T!Ahead
<1> QED
  BY <1>1, SameExtremes DEF R!Matched, T!Matched

LEMMA SameSale == \A w, fill : R!WalkSell(w, fill) = T!WalkSell(w, fill)
<1>1. \A lots, q : R!Closed(lots, q) = T!Closed(lots, q)
  BY SameMatched, SameTotal DEF R!Closed, T!Closed
<1>2. \A lots, q, price : R!Profit(lots, q, price) = T!Profit(lots, q, price)
  BY SameMatched, SameTotal DEF R!Profit, T!Profit
<1>3. \A lots, q : R!Lessened(lots, q) = T!Lessened(lots, q)
  BY SameMatched DEF R!Lessened, T!Lessened
<1>4. \A lots, q : R!Remaining(lots, q) = T!Remaining(lots, q)
  BY <1>3, SameMatched, SameExtremes DEF R!Remaining, T!Remaining
<1> SUFFICES ASSUME NEW w, NEW fill
             PROVE  R!WalkSell(w, fill) = T!WalkSell(w, fill)
  OBVIOUS
<1> QED
  BY <1>1, <1>2, <1>4, SameExtremes DEF R!WalkSell, T!WalkSell

LEMMA SameEvent == \A w, event : R!WalkEvent(w, event) = T!WalkEvent(w, event)
  BY SameSale DEF R!WalkEvent, T!WalkEvent, R!WalkMark, T!WalkMark, R!WalkFill, T!WalkFill,
                  R!WalkBuy, T!WalkBuy, R!IsMark, T!IsMark, R!IsFill, T!IsFill

LEMMA SameWalk == \A journal : R!Walk(journal) = T!Walk(journal)
  BY SameExtremes, SameEvent DEF R!Walk, T!Walk, R!FoldLeft, T!FoldLeft, R!MapThenFoldSet,
                                 T!MapThenFoldSet, R!WalkStart, T!WalkStart

LEMMA SameLots == \A w, b : R!LotShares(w, b) = T!LotShares(w, b)
  BY SameTotal DEF R!LotShares, T!LotShares

-----------------------------------------------------------------------------
(* The lines of the file: fills, and the lines that move no lot. *)

Quiet ==
    [event : {"session", "discarded"}]
      \cup [event : {"mark"}, symbol : Books, equity : {0}, close : {0}, quantity : {0}]
      \cup [event : {"rejected"}, symbol : Books]

Fills == [event : {"fill"}, symbol : Books, side : {"Buy", "Sell"},
          quantity : Nat \ {0}, price : {0}]

Event == Quiet \cup Fills

\* The shares of s that the lines of j leave in the lots of each strategy, and
\* in all of them.
HeldOn(j, s) == [st \in Registered |-> T!LotShares(T!Walk(j), <<st, s>>)]

OpenOn(j, s) == T!Total(HeldOn(j, s), Registered)

SameHoldings(j, k) == \A s \in Symbols : HeldOn(j, s) = HeldOn(k, s)

LEMMA LotsCounted ==
  ASSUME NEW s, NEW S
  PROVE  LotsOf(s, S) = T!Total(HeldOn(disk, s), S)
<1>1. [st \in Registered |-> R!LotShares(Walked, <<st, s>>)] = HeldOn(disk, s)
  BY SameWalk, SameLots DEF HeldOn, Walked
<1> QED
  BY <1>1, SameTotal DEF LotsOf

LEMMA QuietMoves ==
  ASSUME NEW w \in T!WalkState, NEW e \in Quiet
  PROVE  /\ T!WalkEvent(w, e) \in T!WalkState
         /\ T!WalkEvent(w, e).lots = w.lots
<1>1. CASE e.event = "mark"
  <2>1. e \in T!MarkLine
    BY <1>1 DEF Quiet, T!MarkLine
  <2>2. T!WalkEvent(w, e) =
          [marks |-> Append(w.marks, e), lots |-> w.lots, trades |-> w.trades,
           net |-> w.net, high |-> w.high, max_drawdown |-> w.max_drawdown]
    BY <2>1, BooksFinite, T!WalkMarked
  <2>3. Append(w.marks, e) \in Seq(T!MarkLine)
    BY <2>1, AppendProperties DEF T!WalkState
  <2> QED
    BY <2>2, <2>3 DEF T!WalkState
<1>2. CASE e.event # "mark"
  <2>1. e.event # "fill"
    BY DEF Quiet
  <2>2. T!WalkEvent(w, e) = w
    BY <1>2, <2>1 DEF T!WalkEvent, T!IsMark, T!IsFill
  <2> QED
    BY <2>2
<1> QED
  BY <1>1, <1>2

LEMMA FillMoves ==
  ASSUME NEW w \in T!WalkState, NEW e \in Fills
  PROVE  LET v == T!WalkEvent(w, e) IN
           /\ v \in T!WalkState
           /\ \A b \in Books \ {e.symbol} : T!LotShares(v, b) = T!LotShares(w, b)
           /\ e.side = "Buy" =>
                T!LotShares(v, e.symbol) = T!LotShares(w, e.symbol) + e.quantity
           /\ e.side = "Sell" /\ e.quantity <= T!LotShares(w, e.symbol) =>
                T!LotShares(v, e.symbol) = T!LotShares(w, e.symbol) - e.quantity
<1> DEFINE v == T!WalkEvent(w, e)
           fill(side) == [symbol |-> e.symbol, side |-> side, quantity |-> e.quantity,
                          price |-> 0]
<1>1. /\ e.symbol \in Books /\ e.quantity \in Nat /\ e.quantity > 0
      /\ e.side \in {"Buy", "Sell"} /\ e.price = 0 /\ e.event = "fill"
      /\ 0 \in Nat
  BY DEF Fills
<1>2. e = T!FillEvent(fill(e.side))
  BY DEF T!FillEvent, Fills
<1>3. CASE e.side = "Buy"
  <2>1. v = T!WalkEvent(w, T!FillEvent(fill("Buy")))
    BY <1>2, <1>3
  <2>2. /\ v \in T!WalkState
        /\ \A b \in Books : T!LotShares(v, b) =
             IF b = e.symbol THEN T!LotShares(w, b) + e.quantity ELSE T!LotShares(w, b)
    <3> HIDE DEF v
    <3> QED
      BY <1>1, <2>1, BooksFinite, T!WalkBought
  <2> HIDE DEF v
  <2> QED
    BY <1>1, <1>3, <2>2 DEF v
<1>4. CASE e.side = "Sell"
  <2>1. v = T!WalkEvent(w, T!FillEvent(fill("Sell")))
    BY <1>2, <1>4
  <2>2. /\ v \in T!WalkState
        /\ \A b \in Books \ {e.symbol} : T!LotShares(v, b) = T!LotShares(w, b)
    <3> HIDE DEF v
    <3> QED
      BY <1>1, <2>1, BooksFinite, T!WalkSoldAny
  <2>3. ASSUME e.quantity <= T!LotShares(w, e.symbol)
        PROVE  T!LotShares(v, e.symbol) = T!LotShares(w, e.symbol) - e.quantity
    <3> HIDE DEF v
    <3>1. \A b \in Books : T!LotShares(v, b) =
             IF b = e.symbol THEN T!LotShares(w, b) - e.quantity ELSE T!LotShares(w, b)
      BY <1>1, <2>1, <2>3, BooksFinite, T!WalkSold
    <3> QED
      BY <1>1, <3>1
  <2> HIDE DEF v
  <2> QED
    BY <1>1, <1>4, <2>2, <2>3 DEF v
<1> QED
  BY <1>1, <1>3, <1>4

\* Whatever the lines are, there is a state of the walk, and its lots hold
\* numbers of shares.
LEMMA WalkTyped ==
  ASSUME NEW j \in Seq(Event)
  PROVE  T!Walk(j) \in T!WalkState
<1> DEFINE N == {n \in Nat : \A k \in Seq(Event) : Len(k) = n => T!Walk(k) \in T!WalkState}
<1>1. 0 \in N
  <2>1. \A k \in Seq(Event) : Len(k) = 0 => k = <<>>
    BY EmptySeq
  <2>2. T!Walk(<<>>) \in T!WalkState
    BY BooksFinite, T!WalkEmpty, T!WalkStarts
  <2> QED
    BY <2>1, <2>2
<1>2. ASSUME NEW n \in Nat, n \in N
      PROVE  n + 1 \in N
  <2> SUFFICES ASSUME NEW k \in Seq(Event), Len(k) = n + 1
               PROVE  T!Walk(k) \in T!WalkState
    OBVIOUS
  <2>1. k # <<>>
    BY EmptySeq
  <2>2. PICK l \in Seq(Event), e \in Event : k = Append(l, e)
    BY <2>1, SequenceEmptyOrAppend
  <2>3. Len(l) = n
    BY <2>2, AppendProperties, LenProperties
  <2>4. T!Walk(l) \in T!WalkState
    BY <1>2, <2>3
  <2>5. T!Walk(k) = T!WalkEvent(T!Walk(l), e)
    BY <2>2, BooksFinite, T!WalkAppend
  <2>6. e \in Quiet \/ e \in Fills
    BY DEF Event
  <2> QED
    BY <2>4, <2>5, <2>6, QuietMoves, FillMoves
<1>3. Nat \subseteq N
  <2> HIDE DEF N
  <2> QED
    BY <1>1, <1>2, BooksFinite, T!SetInduction
<1>4. Len(j) \in Nat
  BY LenProperties
<1> QED
  BY <1>3, <1>4

LEMMA HoldingsTyped ==
  ASSUME NEW j \in Seq(Event), NEW s \in Symbols
  PROVE  /\ \A st \in Registered : HeldOn(j, s)[st] \in Nat
         /\ OpenOn(j, s) \in Nat
<1>1. \A st \in Registered : <<st, s>> \in Books
  BY DEF Books
<1>2. T!Walk(j) \in T!WalkState
  BY WalkTyped
<1>3. \A b \in Books : T!LotShares(T!Walk(j), b) \in Nat
  BY <1>2, BooksFinite, T!LotCostSum
<1>4. \A st \in Registered : HeldOn(j, s)[st] \in Nat
  BY <1>1, <1>3 DEF HeldOn
<1>5. OpenOn(j, s) \in Nat
  BY <1>4, BooksFinite, T!TotalNat DEF OpenOn
<1> QED
  BY <1>4, <1>5

\* Lines that move no lot may be added, one or many.
LEMMA QuietLine ==
  ASSUME NEW j \in Seq(Event), NEW e \in Quiet
  PROVE  SameHoldings(Append(j, e), j)
<1>1. T!Walk(Append(j, e)) = T!WalkEvent(T!Walk(j), e)
  BY BooksFinite, T!WalkAppend DEF Event
<1>2. T!Walk(Append(j, e)).lots = T!Walk(j).lots
  BY <1>1, WalkTyped, QuietMoves
<1>3. \A b : T!LotShares(T!Walk(Append(j, e)), b) = T!LotShares(T!Walk(j), b)
  BY <1>2 DEF T!LotShares
<1> QED
  BY <1>3 DEF SameHoldings, HeldOn

LEMMA QuietLines ==
  ASSUME NEW j \in Seq(Event), NEW k \in Seq(Quiet)
  PROVE  j \o k \in Seq(Event) /\ SameHoldings(j \o k, j)
<1> DEFINE N == {n \in Nat : \A l \in Seq(Quiet) :
                    Len(l) = n => j \o l \in Seq(Event) /\ SameHoldings(j \o l, j)}
<1>0. \A l \in Seq(Quiet) : l \in Seq(Event)
  BY SeqMonotonic DEF Event
<1>1. 0 \in N
  <2>1. \A l \in Seq(Quiet) : Len(l) = 0 => l = <<>>
    BY EmptySeq
  <2>2. j \o <<>> = j
    BY ConcatEmptySeq
  <2> QED
    BY <2>1, <2>2 DEF SameHoldings
<1>2. ASSUME NEW n \in Nat, n \in N
      PROVE  n + 1 \in N
  <2> SUFFICES ASSUME NEW m \in Seq(Quiet), Len(m) = n + 1
               PROVE  j \o m \in Seq(Event) /\ SameHoldings(j \o m, j)
    OBVIOUS
  <2>1. m # <<>>
    BY EmptySeq
  <2>2. PICK l \in Seq(Quiet), e \in Quiet : m = Append(l, e)
    BY <2>1, SequenceEmptyOrAppend
  <2>3. Len(l) = n
    BY <2>2, AppendProperties, LenProperties
  <2>4. j \o l \in Seq(Event) /\ SameHoldings(j \o l, j)
    BY <1>2, <2>3
  <2>5. e \in Event /\ l \in Seq(Event)
    BY <1>0 DEF Event
  <2>6. j \o m = Append(j \o l, e)
    <3>1. m = l \o <<e>> /\ Append(j \o l, e) = (j \o l) \o <<e>>
      BY <2>2, <2>4, <2>5, AppendIsConcat
    <3>2. <<e>> \in Seq(Event)
      BY <2>5
    <3> QED
      BY <2>5, <3>1, <3>2, ConcatAssociative
  <2>7. SameHoldings(j \o m, j \o l)
    BY <2>4, <2>6, QuietLine
  <2>8. j \o m \in Seq(Event)
    BY <2>4, <2>5, <2>6, AppendProperties
  <2> QED
    BY <2>4, <2>7, <2>8 DEF SameHoldings
<1>3. Nat \subseteq N
  <2> HIDE DEF N
  <2> QED
    BY <1>1, <1>2, BooksFinite, T!SetInduction
<1>4. Len(k) \in Nat
  BY LenProperties
<1> QED
  BY <1>3, <1>4

-----------------------------------------------------------------------------
(* The inductive invariant *)

TypeOK ==
    /\ disk \in Seq(Event) /\ buffer \in Seq(Event) /\ mine \in Seq(Event)
    /\ stump \in BOOLEAN /\ torn \in BOOLEAN
    /\ pc \in {"down", "idle", "booking", "flushing", "reading"}
    /\ owner \in [Symbols -> Registered \cup {None}]
    /\ shares \in [Symbols -> Nat]
    /\ pc \in {"booking", "flushing"} =>
          /\ order.symbol \in Symbols
          /\ owner[order.symbol] \in Registered \ {None}
          /\ order.side \in {"Buy", "Sell"}
          /\ order.quantity \in Nat

\* What waits in the stream moves no lot, but for the line of the order that is
\* being booked, which is the last one.
LineLast(lines) == \E k \in Seq(Quiet) : lines = Append(k, LineOf(order))

Waiting(lines) ==
    IF pc = "flushing" THEN lines = <<>> \/ LineLast(lines) ELSE lines \in Seq(Quiet)

\* File and stream together end in what this process wrote after its first line.
EndsInMine(j, lines) == \E d \in Seq(Event) : j \o lines = d \o Tail(mine)

\* Nothing of a process is whole on disk as long as the stump of the one before
\* is the end of the file, and its first line, which the stump will spoil, moves
\* no lot: a mark is written before the line of an order.
StreamInv ==
    /\ pc \in {"down", "reading"} => buffer = <<>>
    /\ pc = "down" => mine = <<>>
    /\ mine = <<>> => buffer = <<>>
    /\ pc \in {"booking", "reading"} => mine # <<>>
    /\ pc = "flushing" => Len(mine) >= 2
    /\ Waiting(buffer)
    /\ stump => buffer = mine
    /\ mine # <<>> /\ ~stump => EndsInMine(disk, buffer)

\* What the order in hand has changed in the account and not yet in the lots.
Delta(o) == IF o.side = "Buy" THEN o.quantity ELSE 0 - o.quantity

Due(lines, s) ==
    IF order.symbol = s /\ (pc = "booking" \/ (pc = "flushing" /\ lines # <<>>))
    THEN Delta(order) ELSE 0

Accounted(j, lines) ==
    \A s \in Symbols \ loose : OpenOn(j, s) + Due(lines, s) = shares[s]

\* Only the owner of a symbol has lots of it.
Owned(j) ==
    \A s \in Symbols \ loose : owner[s] # None =>
        \A st \in Registered \ {owner[s]} : HeldOn(j, s)[st] = 0

JournalInv ==
    /\ TypeOK
    /\ StreamInv
    /\ Accounted(disk, buffer)
    /\ Owned(disk)

LEMMA InitInv == Init => JournalInv
<1> SUFFICES ASSUME Init PROVE JournalInv
  OBVIOUS
<1>1. <<>> \in Seq(Event) /\ <<>> \in Seq(Quiet)
  BY EmptySeq
<1>2. TypeOK
  BY <1>1 DEF Init, TypeOK, Nobody, Flat
<1>3. StreamInv
  BY <1>1 DEF Init, StreamInv, Waiting
<1>4. \A s \in Symbols, st \in Registered : HeldOn(<<>>, s)[st] = 0
  <2> SUFFICES ASSUME NEW s \in Symbols, NEW st \in Registered
               PROVE  HeldOn(<<>>, s)[st] = 0
    OBVIOUS
  <2>1. <<st, s>> \in Books
    BY DEF Books
  <2>2. T!LotShares(T!Walk(<<>>), <<st, s>>) = 0
    BY <2>1, BooksFinite, T!WalkEmpty, T!WalkStarts
  <2> QED
    BY <2>2 DEF HeldOn
<1>5. \A s \in Symbols : OpenOn(<<>>, s) = 0
  BY <1>4, BooksFinite, T!TotalZero DEF OpenOn
<1>6. Accounted(disk, buffer)
  BY <1>5 DEF Init, Accounted, Due, Flat
<1>7. Owned(disk)
  BY <1>4 DEF Init, Owned
<1> QED
  BY <1>2, <1>3, <1>6, <1>7 DEF JournalInv

-----------------------------------------------------------------------------
(* Lines on their way to the disk *)

LEMMA LineTyped ==
  ASSUME TypeOK, pc \in {"booking", "flushing"}
  PROVE  /\ LineOf(order) \in Event
         /\ order.quantity = 0 => LineOf(order) \in Quiet
         /\ order.quantity > 0 => /\ LineOf(order) \in Fills
                                  /\ LineOf(order).symbol = <<owner[order.symbol], order.symbol>>
                                  /\ LineOf(order).side = order.side
                                  /\ LineOf(order).quantity = order.quantity
<1>1. /\ <<owner[order.symbol], order.symbol>> \in Books
      /\ order.side \in {"Buy", "Sell"} /\ order.quantity \in Nat
  BY DEF TypeOK, Books
<1>2. CASE order.quantity = 0
  BY <1>1, <1>2 DEF LineOf, Book, Quiet, Event
<1>3. CASE order.quantity > 0
  <2>1. LineOf(order) =
          [event |-> "fill", symbol |-> <<owner[order.symbol], order.symbol>>,
           side |-> order.side, quantity |-> order.quantity, price |-> 0]
    BY <1>3 DEF LineOf, Book, R!FillEvent
  <2> QED
    BY <1>1, <1>3, <2>1 DEF Fills, Event
<1> QED
  BY <1>1, <1>2, <1>3

LEMMA SeqOfAll ==
  ASSUME NEW S, NEW U, NEW k \in Seq(S), \A i \in 1..Len(k) : k[i] \in U
  PROVE  k \in Seq(U)
<1>1. Len(k) \in Nat /\ k \in [1..Len(k) -> S]
  BY LenProperties
<1>2. k \in [1..Len(k) -> U]
  BY <1>1
<1> QED
  BY <1>1, <1>2, SeqDef

\* The first n lines of b, as they are read from the file, and the others.
Sent(b, n) ==
    IF stump /\ n > 0 THEN <<Garbage>> \o SubSeq(b, 2, n) ELSE SubSeq(b, 1, n)

Rest(b, n) == SubSeq(b, n + 1, Len(b))

LEMMA SentAndRest ==
  ASSUME NEW b \in Seq(Event), NEW n \in 0..Len(b), stump \in BOOLEAN
  PROVE  /\ Sent(b, n) \in Seq(Event) /\ Len(Sent(b, n)) = n
         /\ \A i \in 1..n : Sent(b, n)[i] = IF stump /\ i = 1 THEN Garbage ELSE b[i]
         /\ Rest(b, n) \in Seq(Event) /\ Len(Rest(b, n)) = Len(b) - n
         /\ \A i \in 1..(Len(b) - n) : Rest(b, n)[i] = b[n + i]
         /\ ~stump => Sent(b, n) \o Rest(b, n) = b
         /\ stump /\ n > 0 => Sent(b, n) \o Rest(b, n) = <<Garbage>> \o Tail(b)
<1>1. Len(b) \in Nat /\ n \in Nat /\ n <= Len(b) /\ \A i \in 1..Len(b) : b[i] \in Event
  BY LenProperties, ElementOfSeq
<1>2. Garbage \in Event /\ <<Garbage>> \in Seq(Event)
  BY DEF Garbage, Event, Quiet
<1>3. /\ Rest(b, n) \in Seq(Event) /\ Len(Rest(b, n)) = Len(b) - n
      /\ \A i \in 1..(Len(b) - n) : Rest(b, n)[i] = b[n + i]
  <2> DEFINE first == n + 1
             l == Len(b)
  <2>1. /\ first \in Int /\ l \in Int /\ \A i \in first..l : b[i] \in Event
        /\ l - first + 1 = l - n
        /\ (first <= l) <=> (l - n # 0)
        /\ \A i \in 1..(l - n) : first + i - 1 = n + i
    BY <1>1
  <2>2. Rest(b, n) = SubSeq(b, first, l)
    BY DEF Rest
  <2> HIDE DEF first, l
  <2>3. /\ Rest(b, n) \in Seq(Event)
        /\ Len(Rest(b, n)) = IF first <= l THEN l - first + 1 ELSE 0
        /\ \A i \in 1..(l - first + 1) : Rest(b, n)[i] = b[first + i - 1]
    BY <2>1, <2>2, SubSeqProperties
  <2> QED
    BY <2>1, <2>3 DEF l
<1>4. CASE ~(stump /\ n > 0)
  <2>1. Sent(b, n) = SubSeq(b, 1, n)
    BY <1>4 DEF Sent
  <2>2. /\ 1 \in Int /\ n \in Int /\ \A i \in 1..n : b[i] \in Event
        /\ n - 1 + 1 = n /\ (1 <= n <=> n # 0)
        /\ \A i \in 1..n : 1 + i - 1 = i
    BY <1>1
  <2>3. /\ Sent(b, n) \in Seq(Event)
        /\ Len(Sent(b, n)) = IF 1 <= n THEN n - 1 + 1 ELSE 0
        /\ \A i \in 1..(n - 1 + 1) : Sent(b, n)[i] = b[1 + i - 1]
    BY <2>1, <2>2, SubSeqProperties
  <2>4. Len(Sent(b, n)) = n /\ \A i \in 1..n : Sent(b, n)[i] = b[i]
    BY <1>1, <2>2, <2>3
  <2>5. Sent(b, n) \o Rest(b, n) = SubSeq(b, 1, Len(b))
    <3>1. 1 \in 1..(Len(b) + 1) /\ n \in (1 - 1)..Len(b) /\ Len(b) \in n..Len(b)
      BY <1>1
    <3> QED
      BY <2>1, <3>1, ConcatAdjacentSubSeq DEF Rest
  <2>6. SubSeq(b, 1, Len(b)) = b
    BY SubSeqFull
  <2>7. \A i \in 1..n : ~stump
    BY <1>1, <1>4
  <2> QED
    BY <1>3, <1>4, <2>3, <2>4, <2>5, <2>6, <2>7
<1>5. CASE stump /\ n > 0
  <2> DEFINE tail == SubSeq(b, 2, n)
  <2>1. Sent(b, n) = <<Garbage>> \o tail
    BY <1>5 DEF Sent
  <2>2. /\ 2 \in Int /\ n \in Int /\ \A i \in 2..n : b[i] \in Event
        /\ n - 2 + 1 = n - 1 /\ (2 <= n <=> n - 1 # 0)
        /\ \A i \in 1..(n - 1) : 2 + i - 1 = i + 1
    BY <1>1, <1>5
  <2>3. /\ tail \in Seq(Event)
        /\ Len(tail) = IF 2 <= n THEN n - 2 + 1 ELSE 0
        /\ \A i \in 1..(n - 2 + 1) : tail[i] = b[2 + i - 1]
    BY <2>2, SubSeqProperties
  <2> HIDE DEF tail
  <2>4. Len(tail) = n - 1 /\ \A i \in 1..(n - 1) : tail[i] = b[i + 1]
    BY <1>5, <2>2, <2>3
  <2>5. /\ Sent(b, n) \in Seq(Event)
        /\ Len(Sent(b, n)) = Len(<<Garbage>>) + Len(tail)
        /\ \A i \in 1..(Len(<<Garbage>>) + Len(tail)) : Sent(b, n)[i] =
             IF i <= Len(<<Garbage>>) THEN <<Garbage>>[i] ELSE tail[i - Len(<<Garbage>>)]
    BY <1>2, <2>1, <2>3, ConcatProperties
  <2>6. Len(<<Garbage>>) = 1 /\ <<Garbage>>[1] = Garbage
    OBVIOUS
  <2>7. Len(Sent(b, n)) = n
    BY <1>1, <2>4, <2>5, <2>6
  <2>8. ASSUME NEW i \in 1..n
        PROVE  Sent(b, n)[i] = IF i = 1 THEN Garbage ELSE b[i]
    <3>1. i \in 1..(1 + (n - 1))
      BY <1>1
    <3>2. Sent(b, n)[i] = IF i <= 1 THEN <<Garbage>>[i] ELSE tail[i - 1]
      BY <2>4, <2>5, <2>6, <3>1
    <3>3. CASE i = 1
      BY <2>6, <3>2, <3>3
    <3>4. CASE i # 1
      <4>1. i - 1 \in 1..(n - 1) /\ (i - 1) + 1 = i /\ ~(i <= 1)
        BY <1>1, <3>4
      <4> QED
        BY <2>4, <3>2, <3>4, <4>1
    <3> QED
      BY <3>3, <3>4
  <2>9. tail \o Rest(b, n) = Tail(b)
    <3>1. /\ 2 \in 1..(Len(b) + 1) /\ n \in (2 - 1)..Len(b) /\ Len(b) \in n..Len(b)
      BY <1>1, <1>5
    <3>2. tail \o Rest(b, n) = SubSeq(b, 2, Len(b))
      BY <3>1, ConcatAdjacentSubSeq DEF Rest, tail
    <3>3. b # <<>>
      BY <1>1, <1>5, EmptySeq
    <3> QED
      BY <3>2, <3>3, TailIsSubSeq
  <2>10. Sent(b, n) \o Rest(b, n) = <<Garbage>> \o Tail(b)
    <3> DEFINE g == <<Garbage>>
               rest == Rest(b, n)
    <3>1. g \in Seq(Event) /\ tail \in Seq(Event) /\ rest \in Seq(Event)
      BY <1>2, <1>3, <2>3
    <3> HIDE DEF g, rest
    <3>2. (g \o tail) \o rest = g \o (tail \o rest)
      BY <3>1, ConcatAssociative
    <3> QED
      BY <2>1, <2>9, <3>2 DEF g, rest
  <2> QED
    BY <1>3, <1>5, <2>5, <2>7, <2>8, <2>10
<1> QED
  BY <1>4, <1>5

LEMMA LastIsLine ==
  ASSUME NEW k \in Seq(Event), NEW m \in Nat, Len(k) = m + 1,
         k[m + 1] = LineOf(order), \A i \in 1..m : k[i] \in Quiet
  PROVE  LineLast(k)
<1>1. k # <<>>
  BY EmptySeq
<1>2. PICK l \in Seq(Event), e \in Event : k = Append(l, e)
  BY <1>1, SequenceEmptyOrAppend
<1>3. /\ Len(l) \in Nat /\ Len(k) = Len(l) + 1
      /\ \A i \in 1..Len(l) : k[i] = l[i]
      /\ k[Len(l) + 1] = e
  BY <1>2, AppendProperties, LenProperties
<1>4. Len(l) = m
  BY <1>3
<1>5. l \in Seq(Quiet)
  BY <1>3, <1>4, SeqOfAll
<1>6. e = LineOf(order)
  BY <1>3, <1>4
<1> QED
  BY <1>2, <1>5, <1>6 DEF LineLast

\* The line of the order is the last to leave the stream, and reaches the disk
\* unspoilt: a stump is spent on an earlier line.
LEMMA WaitingSplits ==
  ASSUME TypeOK, StreamInv, NEW n \in 0..Len(buffer)
  PROVE  /\ Waiting(Rest(buffer, n))
         /\ IF pc = "flushing" /\ buffer # <<>> /\ n = Len(buffer)
            THEN LineLast(Sent(buffer, n)) ELSE Sent(buffer, n) \in Seq(Quiet)
<1> DEFINE b == buffer
           sent == Sent(buffer, n)
           rest == Rest(buffer, n)
<1>1. /\ b \in Seq(Event) /\ Len(b) \in Nat /\ n \in Nat /\ n <= Len(b)
      /\ stump \in BOOLEAN
  BY LenProperties DEF TypeOK
<1>2. /\ sent \in Seq(Event) /\ Len(sent) = n
      /\ \A i \in 1..n : sent[i] = IF stump /\ i = 1 THEN Garbage ELSE b[i]
      /\ rest \in Seq(Event) /\ Len(rest) = Len(b) - n
      /\ \A i \in 1..(Len(b) - n) : rest[i] = b[n + i]
  BY <1>1, SentAndRest
<1>3. Garbage \in Quiet
  BY DEF Garbage, Quiet
<1> HIDE DEF b, sent, rest
<1>4. ASSUME \A i \in 1..n : b[i] \in Quiet
      PROVE  sent \in Seq(Quiet)
  <2>1. \A i \in 1..Len(sent) : sent[i] \in Quiet
    BY <1>2, <1>3, <1>4
  <2> QED
    BY <1>2, <2>1, SeqOfAll
<1>5. CASE pc # "flushing"
  <2>1. \A i \in 1..Len(b) : b[i] \in Quiet
    BY <1>5, ElementOfSeq DEF StreamInv, Waiting, b
  <2>2. sent \in Seq(Quiet)
    BY <1>1, <1>4, <2>1
  <2>3. \A i \in 1..Len(rest) : rest[i] \in Quiet
    <3>1. \A i \in 1..(Len(b) - n) : n + i \in 1..Len(b)
      BY <1>1
    <3> QED
      BY <1>2, <2>1, <3>1
  <2>4. rest \in Seq(Quiet)
    BY <1>2, <2>3, SeqOfAll
  <2> QED
    BY <1>5, <2>2, <2>4 DEF Waiting, sent, rest
<1>6. CASE pc = "flushing" /\ b = <<>>
  <2>1. Len(b) = 0 /\ n = 0
    BY <1>1, <1>6, EmptySeq
  <2>2. sent \in Seq(Quiet)
    BY <1>4, <2>1
  <2>3. rest = <<>>
    BY <1>2, <2>1, EmptySeq
  <2> QED
    BY <1>6, <2>2, <2>3 DEF Waiting, sent, rest, b
<1>7. CASE pc = "flushing" /\ b # <<>>
  <2>1. LineLast(b)
    BY <1>7 DEF StreamInv, Waiting, b
  <2>2. PICK k \in Seq(Quiet) : b = Append(k, LineOf(order))
    BY <2>1 DEF LineLast
  <2>3. k \in Seq(Event) /\ LineOf(order) \in Event
    BY <1>7, LineTyped, SeqMonotonic DEF Event
  <2>4. /\ Len(k) \in Nat /\ Len(b) = Len(k) + 1
        /\ \A i \in 1..Len(k) : b[i] = k[i]
        /\ b[Len(k) + 1] = LineOf(order)
    BY <2>2, <2>3, AppendProperties, LenProperties
  <2>5. \A i \in 1..Len(k) : b[i] \in Quiet
    BY <2>4, ElementOfSeq
  <2>6. CASE n = Len(b)
    <3>1. rest = <<>>
      BY <1>1, <1>2, <2>6, EmptySeq
    <3>2. stump => Len(b) >= 2
      BY <1>7 DEF StreamInv, b
    <3>3. Len(sent) = Len(k) + 1 /\ sent[Len(k) + 1] = LineOf(order)
      <4>1. Len(k) + 1 \in 1..n /\ (stump => Len(k) + 1 # 1)
        BY <2>4, <2>6, <3>2
      <4> QED
        BY <1>2, <2>4, <2>6, <4>1
    <3>4. \A i \in 1..Len(k) : sent[i] \in Quiet
      <4>1. \A i \in 1..Len(k) : i \in 1..n
        BY <2>4, <2>6
      <4> QED
        BY <1>2, <1>3, <2>5, <4>1
    <3>5. LineLast(sent)
      BY <1>2, <2>4, <3>3, <3>4, LastIsLine
    <3> QED
      BY <1>7, <2>6, <3>1, <3>5 DEF Waiting, sent, rest, b
  <2>7. CASE n # Len(b)
    <3> DEFINE m == Len(k) - n
    <3>1. /\ m \in Nat /\ Len(b) - n = m + 1 /\ n + (m + 1) = Len(k) + 1
          /\ \A i \in 1..m : n + i \in 1..Len(k)
          /\ \A i \in 1..n : i \in 1..Len(k)
      BY <1>1, <2>4, <2>7
    <3>2. sent \in Seq(Quiet)
      BY <1>4, <2>5, <3>1
    <3> HIDE DEF m
    <3>3. Len(rest) = m + 1 /\ \A i \in 1..(m + 1) : rest[i] = b[n + i]
      BY <1>2, <3>1
    <3>4. rest[m + 1] = LineOf(order)
      BY <2>4, <3>1, <3>3
    <3>5. \A i \in 1..m : rest[i] \in Quiet
      BY <2>5, <3>1, <3>3
    <3>6. LineLast(rest)
      BY <1>2, <3>1, <3>3, <3>4, <3>5, LastIsLine
    <3> QED
      BY <1>7, <2>7, <3>2, <3>6 DEF Waiting, sent, rest, b
  <2> QED
    BY <2>6, <2>7
<1> QED
  BY <1>5, <1>6, <1>7 DEF b

\* The line of the order arrives: the lots of its symbol become what the account
\* has of it.
LEMMA FillArrives ==
  ASSUME TypeOK, pc = "flushing", buffer # <<>>, Accounted(disk, buffer), Owned(disk),
         NEW j \in Seq(Event), SameHoldings(j, disk)
  PROVE  LET k == Append(j, LineOf(order)) IN Accounted(k, <<>>) /\ Owned(k)
<1> DEFINE line == LineOf(order)
           k == Append(j, line)
           w == T!Walk(j)
           v == T!Walk(k)
           o == order.symbol
           st == owner[o]
           book == <<st, o>>
<1>0. \A s \in Symbols \ loose : OpenOn(j, s) + Due(buffer, s) = shares[s]
  BY DEF Accounted, SameHoldings, OpenOn
<1>00. \A s \in Symbols \ loose : owner[s] # None =>
          \A t \in Registered \ {owner[s]} : HeldOn(j, s)[t] = 0
  BY DEF Owned, SameHoldings
<1>1. line \in Event /\ k \in Seq(Event)
  BY LineTyped, AppendProperties
<1>2. CASE order.quantity = 0
  <2>1. SameHoldings(k, j)
    BY <1>2, LineTyped, QuietLine
  <2>2. \A s : Due(buffer, s) = 0 /\ Due(<<>>, s) = 0
    <3>1. Delta(order) = 0
      BY <1>2 DEF Delta
    <3> QED
      BY <3>1 DEF Due
  <2> QED
    BY <1>0, <1>00, <2>1, <2>2 DEF Accounted, Owned, SameHoldings, OpenOn
<1>3. CASE order.quantity # 0
  <2>1. order.quantity \in Nat /\ order.quantity > 0 /\ o \in Symbols /\ st \in Registered
        /\ order.side \in {"Buy", "Sell"} /\ book \in Books
    BY <1>3 DEF TypeOK, Books
  <2>2. line \in Fills /\ line.symbol = book /\ line.side = order.side
        /\ line.quantity = order.quantity
    BY <2>1, LineTyped
  <2>3. v = T!WalkEvent(w, line)
    BY <1>1, BooksFinite, T!WalkAppend
  <2>4. w \in T!WalkState
    BY WalkTyped
  <2> HIDE DEF v, w, line
  <2>5. /\ \A b \in Books \ {book} : T!LotShares(v, b) = T!LotShares(w, b)
        /\ order.side = "Buy" =>
             T!LotShares(v, book) = T!LotShares(w, book) + order.quantity
        /\ order.side = "Sell" /\ order.quantity <= T!LotShares(w, book) =>
             T!LotShares(v, book) = T!LotShares(w, book) - order.quantity
    BY <2>2, <2>3, <2>4, FillMoves
  <2>6. ASSUME NEW s \in Symbols, NEW t \in Registered
        PROVE  /\ HeldOn(j, s)[t] = T!LotShares(w, <<t, s>>)
               /\ HeldOn(k, s)[t] = T!LotShares(v, <<t, s>>)
               /\ <<t, s>> \in Books /\ (<<t, s>> = book <=> t = st /\ s = o)
    BY DEF HeldOn, Books, w, v
  <2>7. ASSUME NEW s \in Symbols, NEW t \in Registered, ~(t = st /\ s = o)
        PROVE  HeldOn(k, s)[t] = HeldOn(j, s)[t]
    <3>1. <<t, s>> \in Books \ {book}
      BY <2>6, <2>7
    <3> QED
      BY <2>5, <2>6, <3>1
  <2>8. ASSUME NEW s \in Symbols, NEW t \in Registered
        PROVE  HeldOn(j, s)[t] \in Int /\ HeldOn(k, s)[t] \in Int
    <3>1. HeldOn(j, s)[t] \in Nat
      BY HoldingsTyped
    <3>2. HeldOn(k, s)[t] \in Nat
      <4> HIDE DEF k
      <4> QED
        BY <1>1, HoldingsTyped
    <3> QED
      BY <3>1, <3>2
  <2>9. \A s \in Symbols \ {o} : OpenOn(k, s) = OpenOn(j, s)
    <3> SUFFICES ASSUME NEW s \in Symbols \ {o}
                 PROVE  OpenOn(k, s) = OpenOn(j, s)
      OBVIOUS
    <3>1. \A t \in Registered : HeldOn(k, s)[t] = HeldOn(j, s)[t]
      BY <2>7
    <3> QED
      BY <3>1, BooksFinite, T!TotalSame DEF OpenOn
  <2>10. Owned(k)
    <3> SUFFICES ASSUME NEW s \in Symbols \ loose, owner[s] # None,
                        NEW t \in Registered \ {owner[s]}
                 PROVE  HeldOn(k, s)[t] = 0
      BY DEF Owned
    <3>1. HeldOn(j, s)[t] = 0
      BY <1>00
    <3>2. ~(t = st /\ s = o)
      OBVIOUS
    <3> QED
      BY <2>7, <3>1, <3>2
  <2>11. ASSUME o \notin loose
         PROVE  OpenOn(k, o) = shares[o]
    <3>1. OpenOn(k, o) = OpenOn(j, o) - HeldOn(j, o)[st] + HeldOn(k, o)[st]
      <4>1. \A t \in Registered : HeldOn(j, o)[t] \in Int /\ HeldOn(k, o)[t] \in Int
        BY <2>1, <2>8
      <4>2. \A t \in Registered \ {st} : HeldOn(k, o)[t] = HeldOn(j, o)[t]
        BY <2>1, <2>7
      <4> HIDE DEF k, st, o
      <4> QED
        BY <2>1, <4>1, <4>2, BooksFinite, T!TotalChange DEF OpenOn
    <3>2. /\ OpenOn(j, o) \in Nat /\ HeldOn(j, o)[st] \in Nat /\ HeldOn(k, o)[st] \in Nat
          /\ shares[o] \in Nat
      BY <1>1, <2>1, HoldingsTyped DEF TypeOK
    <3>3. OpenOn(j, o) + Delta(order) = shares[o]
      BY <1>0, <2>1, <2>11 DEF Due
    <3>4. CASE order.side = "Buy"
      <4>1. HeldOn(k, o)[st] = HeldOn(j, o)[st] + order.quantity
        BY <2>1, <2>5, <2>6, <3>4
      <4> HIDE DEF k, o, st
      <4> QED
        BY <2>1, <3>1, <3>2, <3>3, <3>4, <4>1 DEF Delta
    <3>5. CASE order.side = "Sell"
      <4>1. OpenOn(j, o) = HeldOn(j, o)[st]
        <5>1. \A t \in Registered \ {st} : HeldOn(j, o)[t] = 0
          BY <1>00, <2>1, <2>11 DEF TypeOK
        <5>2. \A t \in Registered : HeldOn(j, o)[t] \in Int
          BY <2>1, HoldingsTyped
        <5> DEFINE h == HeldOn(j, o)
                   others == Registered \ {st}
        <5> HIDE DEF h, st, o
        <5>3. T!Total(h, Registered) = h[st] + T!Total(h, others)
          BY <2>1, <5>2, BooksFinite, T!TotalRemove DEF h
        <5>4. T!IsFiniteSet(others)
          BY BooksFinite, SameFinite, FS_Subset
        <5>5. T!Total(h, others) = 0
          BY <5>1, <5>4, BooksFinite, T!TotalZero DEF h
        <5> QED
          BY <2>1, <3>2, <5>3, <5>5 DEF OpenOn, h
      <4>2. order.quantity <= HeldOn(j, o)[st]
        BY <2>1, <3>2, <3>3, <3>5, <4>1 DEF Delta
      <4>3. HeldOn(k, o)[st] = HeldOn(j, o)[st] - order.quantity
        BY <2>1, <2>5, <2>6, <3>5, <4>2
      <4> HIDE DEF k, o, st
      <4> QED
        BY <2>1, <3>1, <3>2, <3>3, <3>5, <4>3 DEF Delta
    <3> QED
      BY <2>1, <3>4, <3>5
  <2>12. Accounted(k, <<>>)
    <3> SUFFICES ASSUME NEW s \in Symbols \ loose
                 PROVE  OpenOn(k, s) + Due(<<>>, s) = shares[s]
      BY DEF Accounted
    <3>1. Due(<<>>, s) = 0 /\ OpenOn(k, s) \in Nat
      BY <1>1, HoldingsTyped DEF Due
    <3>2. CASE s = o
      BY <2>11, <3>1, <3>2
    <3>3. CASE s # o
      <4>1. Due(buffer, s) = 0 /\ OpenOn(j, s) \in Nat
        BY <3>3, HoldingsTyped DEF Due
      <4> QED
        BY <1>0, <2>9, <3>1, <3>3, <4>1
    <3> QED
      BY <3>2, <3>3
  <2> QED
    BY <2>10, <2>12 DEF line
<1> QED
  BY <1>2, <1>3

LEMMA Together ==
  ASSUME NEW a \in Seq(Event), NEW b \in Seq(Event), NEW c \in Seq(Event)
  PROVE  (a \o b) \o c = a \o (b \o c) /\ a \o b \in Seq(Event)
<1>1. (a \o b) \o c = a \o (b \o c)
  BY ConcatAssociative
<1>2. a \o b \in Seq(Event)
  BY ConcatProperties
<1> QED
  BY <1>1, <1>2

\* Lines reach the disk: nothing is lost on the way but what a stump spoils.
LEMMA DrainKeeps ==
  ASSUME JournalInv, NEW n \in 0..Len(buffer), NEW part \in BOOLEAN, Drain(n, part)
  PROVE  /\ disk' \in Seq(Event) /\ buffer' \in Seq(Event)
         /\ stump' \in BOOLEAN /\ torn' \in BOOLEAN
         /\ Waiting(buffer')
         /\ n = Len(buffer) => buffer' = <<>> /\ (n > 0 => ~stump')
         /\ buffer = <<>> => buffer' = <<>>
         /\ stump' => buffer' = mine
         /\ mine # <<>> /\ ~stump' => EndsInMine(disk', buffer')
         /\ Accounted(disk', buffer') /\ Owned(disk')
<1> DEFINE sent == Sent(buffer, n)
           rest == Rest(buffer, n)
<1>1. /\ disk' = disk \o sent /\ buffer' = rest /\ stump' = (stump /\ n = 0)
      /\ torn' = part
  BY DEF Drain, Arrived, Sent, Rest
<1>2. /\ disk \in Seq(Event) /\ buffer \in Seq(Event) /\ mine \in Seq(Event)
      /\ stump \in BOOLEAN /\ Len(buffer) \in Nat /\ n \in Nat /\ n <= Len(buffer)
      /\ TypeOK /\ StreamInv
  BY LenProperties DEF JournalInv, TypeOK
<1>3. /\ sent \in Seq(Event) /\ Len(sent) = n
      /\ rest \in Seq(Event) /\ Len(rest) = Len(buffer) - n
      /\ ~stump => sent \o rest = buffer
      /\ stump /\ n > 0 => sent \o rest = <<Garbage>> \o Tail(buffer)
  BY <1>2, SentAndRest
<1>4. /\ Waiting(rest)
      /\ IF pc = "flushing" /\ buffer # <<>> /\ n = Len(buffer)
         THEN LineLast(sent) ELSE sent \in Seq(Quiet)
  BY <1>2, WaitingSplits
<1>5. (disk \o sent) \o rest = disk \o (sent \o rest) /\ disk \o sent \in Seq(Event)
  <2>1. disk \in Seq(Event) /\ sent \in Seq(Event) /\ rest \in Seq(Event)
    BY <1>2, <1>3
  <2> HIDE DEF sent, rest
  <2> QED
    BY <2>1, Together
<1>6. n = 0 => rest = buffer
  BY <1>2, SubSeqFull DEF Rest
<1> HIDE DEF sent, rest
<1>7. rest = <<>> <=> n = Len(buffer)
  BY <1>2, <1>3, EmptySeq
<1>8. buffer = <<>> => rest = <<>>
  <2>1. buffer = <<>> => Len(buffer) = 0
    OBVIOUS
  <2> QED
    BY <1>2, <1>7, <2>1
<1>9. stump' => buffer' = mine
  BY <1>1, <1>2, <1>6 DEF StreamInv
<1>10. ASSUME mine # <<>>, ~stump'
       PROVE  EndsInMine(disk', buffer')
  <2>1. CASE ~stump
    <3>1. disk' \o buffer' = disk \o buffer
      BY <1>1, <1>3, <1>5, <2>1
    <3> QED
      BY <1>2, <1>10, <2>1, <3>1 DEF EndsInMine, StreamInv
  <2>2. CASE stump
    <3>1. n > 0 /\ buffer = mine
      <4>1. n # 0
        BY <1>1, <1>10, <2>2
      <4>2. buffer = mine
        BY <1>2, <2>2 DEF StreamInv
      <4> QED
        BY <1>2, <4>1, <4>2
    <3> DEFINE g == <<Garbage>>
               t == Tail(mine)
    <3>2. disk' \o buffer' = disk \o (g \o t)
      BY <1>1, <1>3, <1>5, <2>2, <3>1
    <3>3. g \in Seq(Event) /\ t \in Seq(Event)
      BY <1>2, <1>10, HeadTailProperties DEF Garbage, Event, Quiet
    <3> HIDE DEF g, t
    <3>4. (disk \o g) \o t = disk \o (g \o t) /\ disk \o g \in Seq(Event)
      BY <1>2, <3>3, Together
    <3> QED
      BY <3>2, <3>4 DEF EndsInMine, t
  <2> QED
    BY <2>1, <2>2
<1>11. Accounted(disk', buffer') /\ Owned(disk')
  <2>1. CASE pc = "flushing" /\ buffer # <<>> /\ n = Len(buffer)
    <3>1. PICK k \in Seq(Quiet) : sent = Append(k, LineOf(order))
      BY <1>4, <2>1 DEF LineLast
    <3>2. k \in Seq(Event) /\ LineOf(order) \in Event /\ <<LineOf(order)>> \in Seq(Event)
      BY <1>2, <2>1, LineTyped, SeqMonotonic DEF Event
    <3>3. disk \o k \in Seq(Event) /\ SameHoldings(disk \o k, disk)
      BY <1>2, QuietLines
    <3>4. disk' = Append(disk \o k, LineOf(order))
      <4>1. sent = k \o <<LineOf(order)>>
        BY <3>1, <3>2, AppendIsConcat
      <4>2. Append(disk \o k, LineOf(order)) = (disk \o k) \o <<LineOf(order)>>
        BY <3>2, <3>3, AppendIsConcat
      <4> DEFINE l == <<LineOf(order)>>
      <4> HIDE DEF l
      <4>3. (disk \o k) \o l = disk \o (k \o l)
        BY <1>2, <3>2, Together DEF l
      <4> QED
        BY <1>1, <4>1, <4>2, <4>3 DEF l
    <3>5. Accounted(disk', <<>>) /\ Owned(disk')
      BY <1>2, <2>1, <3>3, <3>4, FillArrives DEF JournalInv
    <3> QED
      BY <1>1, <1>7, <2>1, <3>5
  <2>2. CASE ~(pc = "flushing" /\ buffer # <<>> /\ n = Len(buffer))
    <3>1. SameHoldings(disk', disk)
      BY <1>1, <1>2, <1>4, <2>2, QuietLines
    <3>2. \A s : Due(buffer', s) = Due(buffer, s)
      BY <1>1, <1>7, <1>8, <2>2 DEF Due
    <3> QED
      BY <3>1, <3>2 DEF JournalInv, Accounted, Owned, SameHoldings, OpenOn
  <2> QED
    BY <2>1, <2>2
<1>12. n = Len(buffer) => buffer' = <<>> /\ (n > 0 => ~stump')
  <2>1. n > 0 => n # 0
    BY <1>2
  <2>2. n # 0 => ~stump'
    BY <1>1
  <2> QED
    BY <1>1, <1>7, <2>1, <2>2
<1>13. disk' \in Seq(Event) /\ buffer' \in Seq(Event) /\ stump' \in BOOLEAN /\ torn' \in BOOLEAN
  BY <1>1, <1>2, <1>3, <1>5
<1>14. Waiting(buffer') /\ (buffer = <<>> => buffer' = <<>>)
  BY <1>1, <1>4, <1>8
<1> QED
  BY <1>9, <1>10, <1>11, <1>12, <1>13, <1>14

\* A process adds lines that move no lot, its first line or lines among them.
LEMMA WriteKeeps ==
  ASSUME JournalInv, NEW lines \in Seq(Event), lines # <<>>,
         buffer' = buffer \o lines, mine' = mine \o lines, disk' = disk, stump' = stump,
         mine = <<>> => buffer = <<>>
  PROVE  /\ buffer' \in Seq(Event) /\ mine' \in Seq(Event)
         /\ Len(mine') = Len(mine) + Len(lines)
         /\ stump' => buffer' = mine'
         /\ mine' # <<>>
         /\ ~stump' => \E d \in Seq(Event) : disk' \o buffer' = d \o Tail(mine')
<1>1. /\ disk \in Seq(Event) /\ buffer \in Seq(Event) /\ mine \in Seq(Event)
      /\ stump \in BOOLEAN /\ StreamInv
  BY DEF JournalInv, TypeOK
<1>2. /\ buffer' \in Seq(Event) /\ mine' \in Seq(Event)
      /\ Len(mine') = Len(mine) + Len(lines)
  BY <1>1, ConcatProperties
<1>3. mine' # <<>>
  BY <1>1, ConcatEqualIffEmpty
<1>4. stump' => buffer' = mine'
  BY <1>1 DEF StreamInv
<1>5. ASSUME ~stump'
      PROVE  \E d \in Seq(Event) : disk' \o buffer' = d \o Tail(mine')
  <2>1. CASE mine = <<>>
    <3>1. buffer = <<>> /\ buffer' = lines /\ mine' = lines
      BY <2>1, ConcatEmptySeq
    <3> DEFINE h == <<Head(lines)>>
               t == Tail(lines)
    <3>2. h \in Seq(Event) /\ t \in Seq(Event)
      BY HeadTailProperties
    <3>3. lines = h \o t
      <4>1. /\ Len(lines) \in Nat \ {0} /\ Len(t) = Len(lines) - 1 /\ Len(h) = 1
            /\ \A i \in 1..Len(t) : t[i] = lines[i + 1]
            /\ h[1] = lines[1]
        BY HeadTailProperties, EmptySeq
      <4> HIDE DEF h, t
      <4>2. /\ h \o t \in Seq(Event) /\ Len(h \o t) = Len(h) + Len(t)
            /\ \A i \in 1..(Len(h) + Len(t)) :
                 (h \o t)[i] = IF i <= Len(h) THEN h[i] ELSE t[i - Len(h)]
        BY <3>2, ConcatProperties
      <4>3. Len(h \o t) = Len(lines)
        BY <4>1, <4>2
      <4>4. ASSUME NEW i \in 1..Len(lines)
            PROVE  lines[i] = (h \o t)[i]
        <5>1. i \in 1..(Len(h) + Len(t)) /\ i \in Nat
          BY <4>1
        <5>2. CASE i = 1
          BY <4>1, <4>2, <5>1, <5>2
        <5>3. CASE i # 1
          <6>1. i - 1 \in 1..Len(t) /\ (i - 1) + 1 = i /\ ~(i <= 1)
            BY <4>1, <5>1, <5>3
          <6> QED
            BY <4>1, <4>2, <5>1, <6>1
        <5> QED
          BY <5>2, <5>3
      <4> QED
        BY <4>2, <4>3, <4>4, SeqEqual
    <3> HIDE DEF h, t
    <3>4. (disk \o h) \o t = disk \o (h \o t) /\ disk \o h \in Seq(Event)
      <4>1. disk \in Seq(Event) /\ h \in Seq(Event) /\ t \in Seq(Event)
        BY <1>1, <3>2
      <4> QED
        BY <4>1, Together
    <3>5. disk' \o buffer' = (disk \o h) \o t
      BY <3>1, <3>3, <3>4
    <3> QED
      BY <3>1, <3>4, <3>5 DEF t
  <2>2. CASE mine # <<>>
    <3>1. PICK d \in Seq(Event) : disk \o buffer = d \o Tail(mine)
      BY <1>1, <1>5, <2>2 DEF StreamInv, EndsInMine
    <3> DEFINE t == Tail(mine)
    <3>2. t \in Seq(Event)
      BY <1>1, <2>2, HeadTailProperties
    <3>3. Tail(mine \o lines) = t \o lines
      <4> DEFINE a == mine \o lines
                 u == Tail(a)
      <4>1. /\ a \in Seq(Event) /\ a # <<>> /\ Len(a) = Len(mine) + Len(lines)
            /\ \A i \in 1..(Len(mine) + Len(lines)) :
                 a[i] = IF i <= Len(mine) THEN mine[i] ELSE lines[i - Len(mine)]
        BY <1>1, <1>3, ConcatProperties
      <4>2. /\ Len(t) = Len(mine) - 1 /\ Len(mine) \in Nat \ {0} /\ Len(lines) \in Nat
            /\ \A i \in 1..Len(t) : t[i] = mine[i + 1]
        BY <1>1, <2>2, HeadTailProperties, EmptySeq, LenProperties
      <4> HIDE DEF a
      <4>3. /\ u \in Seq(Event) /\ Len(u) = Len(a) - 1
            /\ \A i \in 1..Len(u) : u[i] = a[i + 1]
        BY <4>1, HeadTailProperties
      <4> HIDE DEF t, u
      <4>4. /\ t \o lines \in Seq(Event) /\ Len(t \o lines) = Len(t) + Len(lines)
            /\ \A i \in 1..(Len(t) + Len(lines)) :
                 (t \o lines)[i] = IF i <= Len(t) THEN t[i] ELSE lines[i - Len(t)]
        BY <3>2, ConcatProperties
      <4>5. Len(u) = Len(t \o lines)
        BY <4>1, <4>2, <4>3, <4>4
      <4>6. ASSUME NEW i \in 1..Len(u)
            PROVE  u[i] = (t \o lines)[i]
        <5>1. /\ i + 1 \in 1..(Len(mine) + Len(lines)) /\ i \in 1..(Len(t) + Len(lines))
              /\ i \in Nat /\ (i + 1 <= Len(mine) <=> i <= Len(t))
              /\ (i + 1) - Len(mine) = i - Len(t)
          BY <4>1, <4>2, <4>3, <4>4, <4>5
        <5>2. u[i] = IF i + 1 <= Len(mine) THEN mine[i + 1] ELSE lines[(i + 1) - Len(mine)]
          BY <4>1, <4>3, <5>1
        <5>3. i <= Len(t) => i \in 1..Len(t)
          BY <4>2, <5>1
        <5> QED
          BY <4>2, <4>4, <5>1, <5>2, <5>3
      <4> QED
        BY <4>3, <4>4, <4>5, <4>6, SeqEqual DEF u, a
    <3> HIDE DEF t
    <3>4. (disk \o buffer) \o lines = disk \o (buffer \o lines)
      <4>1. disk \in Seq(Event) /\ buffer \in Seq(Event) /\ lines \in Seq(Event)
        BY <1>1
      <4> QED
        BY <4>1, Together
    <3>5. (d \o t) \o lines = d \o (t \o lines)
      BY <3>2, Together
    <3>6. disk' \o buffer' = d \o Tail(mine')
      BY <3>1, <3>3, <3>4, <3>5 DEF t
    <3> QED
      BY <3>6
  <2> QED
    BY <2>1, <2>2
<1> QED
  BY <1>2, <1>3, <1>4, <1>5

-----------------------------------------------------------------------------
(* Every step keeps the invariant. *)

LEMMA SpillKeeps ==
  ASSUME JournalInv, Spill
  PROVE  JournalInv'
<1>1. PICK n \in 0..Len(buffer), part \in BOOLEAN : Drain(n, part)
  BY DEF Spill
<1>2. UNCHANGED <<pc, owner, held, order, shares, mine, loose>>
  BY DEF Spill
<1>3. /\ disk' \in Seq(Event) /\ buffer' \in Seq(Event)
      /\ stump' \in BOOLEAN /\ torn' \in BOOLEAN
      /\ Waiting(buffer')
      /\ buffer = <<>> => buffer' = <<>>
      /\ stump' => buffer' = mine
      /\ mine # <<>> /\ ~stump' => EndsInMine(disk', buffer')
      /\ Accounted(disk', buffer') /\ Owned(disk')
  BY <1>1, DrainKeeps
<1>4. TypeOK'
  BY <1>2, <1>3 DEF JournalInv, TypeOK
<1>5. Waiting(buffer)'
  BY <1>2, <1>3 DEF Waiting, LineLast, LineOf, Book
<1>6. StreamInv'
  BY <1>2, <1>3, <1>5 DEF JournalInv, StreamInv, EndsInMine
<1>7. Accounted(disk, buffer)' /\ Owned(disk)'
  BY <1>2, <1>3 DEF Accounted, Owned, Due
<1> QED
  BY <1>4, <1>6, <1>7 DEF JournalInv

\* After a flush nothing waits.
LEMMA FlushKeeps ==
  ASSUME JournalInv, Flush
  PROVE  /\ disk' \in Seq(Event) /\ buffer' = <<>>
         /\ stump' \in BOOLEAN /\ torn' \in BOOLEAN
         /\ stump' => mine = <<>>
         /\ mine # <<>> => \E d \in Seq(Event) : disk' = d \o Tail(mine)
         /\ Accounted(disk', <<>>) /\ Owned(disk')
<1> DEFINE n == Len(buffer)
<1>1. n \in 0..Len(buffer) /\ FALSE \in BOOLEAN /\ Drain(n, FALSE)
  <2>1. n \in 0..Len(buffer)
    BY LenProperties DEF JournalInv, TypeOK
  <2>2. Drain(n, FALSE)
    BY DEF Flush
  <2> QED
    BY <2>1, <2>2
<1> HIDE DEF n
<1>2. /\ disk' \in Seq(Event) /\ stump' \in BOOLEAN /\ torn' \in BOOLEAN
      /\ n = Len(buffer) => buffer' = <<>>
      /\ stump' => buffer' = mine
      /\ mine # <<>> /\ ~stump' => EndsInMine(disk', buffer')
      /\ Accounted(disk', buffer') /\ Owned(disk')
  BY <1>1, DrainKeeps
<1>3. buffer' = <<>>
  BY <1>2 DEF n
<1>4. ASSUME mine # <<>>
      PROVE  \E d \in Seq(Event) : disk' = d \o Tail(mine)
  <2>1. disk' \o <<>> = disk'
    BY <1>2, ConcatEmptySeq
  <2>2. EndsInMine(disk', <<>>)
    BY <1>2, <1>3, <1>4
  <2> QED
    BY <2>1, <2>2 DEF EndsInMine
<1> QED
  BY <1>2, <1>3, <1>4

LEMMA BookedKeeps ==
  ASSUME JournalInv, Booked
  PROVE  JournalInv'
<1>1. /\ Flush /\ pc' = "idle" /\ order' = NoOrder /\ pc = "flushing"
      /\ UNCHANGED <<owner, held, shares, mine, loose>>
  BY DEF Booked, FlushLine
<1>2. /\ disk' \in Seq(Event) /\ buffer' = <<>>
      /\ stump' \in BOOLEAN /\ torn' \in BOOLEAN
      /\ stump' => mine = <<>>
      /\ mine # <<>> => \E d \in Seq(Event) : disk' = d \o Tail(mine)
      /\ Accounted(disk', <<>>) /\ Owned(disk')
  BY <1>1, FlushKeeps
<1>3. <<>> \in Seq(Event) /\ <<>> \in Seq(Quiet)
  BY EmptySeq
<1>4. TypeOK'
  BY <1>1, <1>2, <1>3 DEF JournalInv, TypeOK
<1>5. disk' \o buffer' = disk'
  BY <1>2, ConcatEmptySeq
<1>6. StreamInv'
  BY <1>1, <1>2, <1>3, <1>5 DEF StreamInv, EndsInMine, Waiting
<1>7. Accounted(disk, buffer)' /\ Owned(disk)'
  BY <1>1, <1>2 DEF Accounted, Owned, Due
<1> QED
  BY <1>4, <1>6, <1>7 DEF JournalInv

LEMMA FinishKeeps ==
  ASSUME JournalInv, Finish
  PROVE  JournalInv'
<1>1. /\ Flush /\ pc' = "reading" /\ pc = "idle" /\ mine # <<>>
      /\ UNCHANGED <<owner, held, order, shares, mine, loose>>
  BY DEF Finish, FlushForReader
<1>2. /\ disk' \in Seq(Event) /\ buffer' = <<>>
      /\ stump' \in BOOLEAN /\ torn' \in BOOLEAN
      /\ stump' => mine = <<>>
      /\ mine # <<>> => \E d \in Seq(Event) : disk' = d \o Tail(mine)
      /\ Accounted(disk', <<>>) /\ Owned(disk')
  BY <1>1, FlushKeeps
<1>3. <<>> \in Seq(Event) /\ <<>> \in Seq(Quiet)
  BY EmptySeq
<1>4. TypeOK'
  BY <1>1, <1>2, <1>3 DEF JournalInv, TypeOK
<1>5. disk' \o buffer' = disk'
  BY <1>2, ConcatEmptySeq
<1>6. StreamInv'
  BY <1>1, <1>2, <1>3, <1>5 DEF StreamInv, EndsInMine, Waiting
<1>7. Accounted(disk, buffer)' /\ Owned(disk)'
  BY <1>1, <1>2 DEF Accounted, Owned, Due
<1> QED
  BY <1>4, <1>6, <1>7 DEF JournalInv

\* A process that is gone owns nothing and has nothing in hand.
LEMMA GoneKeeps ==
  ASSUME JournalInv, Gone, disk' \in Seq(Event), buffer' = <<>>, stump' \in BOOLEAN,
         torn' \in BOOLEAN,
         \A s \in Symbols \ loose' : OpenOn(disk', s) = shares[s]
  PROVE  JournalInv'
<1>1. <<>> \in Seq(Event) /\ <<>> \in Seq(Quiet)
  BY EmptySeq
<1>2. TypeOK'
  BY <1>1 DEF JournalInv, TypeOK, Gone, Nobody
<1>3. StreamInv'
  BY <1>1 DEF StreamInv, Gone, Waiting
<1>4. \A s \in Symbols \ loose' : OpenOn(disk', s) \in Nat
  BY HoldingsTyped
<1>5. Accounted(disk, buffer)'
  BY <1>4 DEF Accounted, Due, Gone
<1>6. Owned(disk)'
  BY DEF Owned, Gone, Nobody
<1> QED
  BY <1>2, <1>3, <1>5, <1>6 DEF JournalInv

LEMMA EndKeeps ==
  ASSUME JournalInv, End
  PROVE  JournalInv'
<1>1. Flush /\ Gone /\ pc = "idle" /\ UNCHANGED loose
  BY DEF End
<1>2. /\ disk' \in Seq(Event) /\ buffer' = <<>>
      /\ stump' \in BOOLEAN /\ torn' \in BOOLEAN
      /\ Accounted(disk', <<>>)
  BY <1>1, FlushKeeps
<1>3. \A s \in Symbols \ loose' : OpenOn(disk', s) = shares[s]
  <2> SUFFICES ASSUME NEW s \in Symbols \ loose'
               PROVE  OpenOn(disk', s) = shares[s]
    OBVIOUS
  <2>1. OpenOn(disk', s) + 0 = shares[s]
    BY <1>1, <1>2 DEF Accounted, Due
  <2>2. OpenOn(disk', s) \in Nat
    BY <1>2, HoldingsTyped
  <2> QED
    BY <2>1, <2>2
<1> QED
  BY <1>1, <1>2, <1>3, GoneKeeps

LEMMA ExitKeeps ==
  ASSUME JournalInv, Exit
  PROVE  JournalInv'
<1>1. Gone /\ pc = "reading" /\ UNCHANGED <<disk, stump, buffer, torn, loose>>
  BY DEF Exit, file
<1>2. /\ disk' \in Seq(Event) /\ stump' \in BOOLEAN /\ torn' \in BOOLEAN
      /\ buffer' = <<>> /\ Accounted(disk, buffer) /\ disk \in Seq(Event)
  BY <1>1 DEF JournalInv, TypeOK, StreamInv
<1>3. \A s \in Symbols \ loose' : OpenOn(disk', s) = shares[s]
  <2> SUFFICES ASSUME NEW s \in Symbols \ loose'
               PROVE  OpenOn(disk', s) = shares[s]
    OBVIOUS
  <2>1. OpenOn(disk, s) + 0 = shares[s]
    BY <1>1, <1>2 DEF Accounted, Due
  <2>2. OpenOn(disk, s) \in Nat
    BY <1>2, HoldingsTyped
  <2> QED
    BY <1>1, <2>1, <2>2
<1> QED
  BY <1>1, <1>2, <1>3, GoneKeeps

\* What the account has and the lots do not is lost with the process, and known
\* to be.
LEMMA CrashKeeps ==
  ASSUME JournalInv, Crash
  PROVE  JournalInv'
<1>1. /\ Gone /\ buffer' = <<>> /\ torn' = FALSE /\ stump' = (stump \/ torn) /\ disk' = disk
      /\ loose' = IF order.quantity > 0 /\ (pc = "booking" \/ buffer # <<>>)
                  THEN loose \cup {order.symbol} ELSE loose
  BY DEF Crash
<1>2. /\ disk' \in Seq(Event) /\ stump' \in BOOLEAN /\ torn' \in BOOLEAN
      /\ Accounted(disk, buffer) /\ disk \in Seq(Event) /\ TypeOK
  BY <1>1 DEF JournalInv, TypeOK
<1>3. \A s \in Symbols \ loose' : OpenOn(disk', s) = shares[s]
  <2> SUFFICES ASSUME NEW s \in Symbols \ loose'
               PROVE  OpenOn(disk, s) = shares[s]
    BY <1>1
  <2>1. s \in Symbols \ loose
    BY <1>1
  <2>2. OpenOn(disk, s) + Due(buffer, s) = shares[s] /\ OpenOn(disk, s) \in Nat
    BY <1>2, <2>1, HoldingsTyped DEF Accounted
  <2>3. Due(buffer, s) = 0
    <3> SUFFICES ASSUME order.symbol = s, pc = "booking" \/ (pc = "flushing" /\ buffer # <<>>)
                 PROVE  Delta(order) = 0
      BY DEF Due
    <3>1. ~(order.quantity > 0)
      BY <1>1
    <3>2. order.quantity \in Nat
      BY <1>2 DEF TypeOK
    <3>3. order.quantity = 0
      BY <3>1, <3>2
    <3> QED
      BY <3>3 DEF Delta
  <2> QED
    BY <2>2, <2>3
<1> QED
  BY <1>1, <1>2, <1>3, GoneKeeps

LEMMA UnjournalledKeeps ==
  ASSUME JournalInv, NEW s \in Symbols, NEW count \in 0..MaxShares, Unjournalled(s, count)
  PROVE  JournalInv'
<1>1. /\ shares' = [shares EXCEPT ![s] = count] /\ loose' = loose \cup {s}
      /\ UNCHANGED <<disk, stump, buffer, torn, pc, owner, held, order, mine>>
      /\ count \in Nat
  BY JournalAssumption DEF Unjournalled, file
<1>2. TypeOK'
  BY <1>1 DEF JournalInv, TypeOK
<1>3. StreamInv'
  BY <1>1 DEF JournalInv, StreamInv, EndsInMine, Waiting, LineLast, LineOf, Book
<1>4. \A t \in Symbols \ loose' : t \in Symbols \ loose /\ shares'[t] = shares[t]
  BY <1>1 DEF JournalInv, TypeOK
<1>5. Accounted(disk, buffer)' /\ Owned(disk)'
  BY <1>1, <1>4 DEF JournalInv, Accounted, Owned, Due
<1> QED
  BY <1>2, <1>3, <1>5 DEF JournalInv

\* One line more, written while nothing but marks and sessions waits.
LEMMA LineWritten ==
  ASSUME JournalInv, pc \in {"idle", "booking"}, NEW line \in Event, Write(line)
  PROVE  /\ buffer' = Append(buffer, line) /\ buffer \in Seq(Quiet)
         /\ buffer' \in Seq(Event) /\ mine' \in Seq(Event)
         /\ disk' = disk /\ stump' = stump /\ torn' = torn
         /\ mine' # <<>> /\ Len(mine') = Len(mine) + 1
         /\ stump' => buffer' = mine'
         /\ ~stump' => \E d \in Seq(Event) : disk' \o buffer' = d \o Tail(mine')
<1> DEFINE lines == <<line>>
<1>1. /\ buffer' = buffer \o lines /\ mine' = mine \o lines
      /\ disk' = disk /\ stump' = stump /\ torn' = torn
  BY DEF Write, WriteAll
<1>2. lines \in Seq(Event) /\ lines # <<>> /\ Len(lines) = 1
  OBVIOUS
<1>3. mine = <<>> => buffer = <<>>
  BY DEF JournalInv, StreamInv
<1>4. buffer \in Seq(Event) /\ buffer \in Seq(Quiet)
  BY DEF JournalInv, TypeOK, StreamInv, Waiting
<1>5. Append(buffer, line) = buffer \o lines
  BY <1>4, AppendIsConcat
<1> HIDE DEF lines
<1>6. /\ buffer' \in Seq(Event) /\ mine' \in Seq(Event)
      /\ Len(mine') = Len(mine) + Len(lines)
      /\ stump' => buffer' = mine'
      /\ mine' # <<>>
      /\ ~stump' => \E d \in Seq(Event) : disk' \o buffer' = d \o Tail(mine')
  BY <1>1, <1>2, <1>3, WriteKeeps
<1> QED
  BY <1>1, <1>2, <1>4, <1>5, <1>6

LEMMA MarkLineTyped ==
  ASSUME TypeOK, NEW s \in Symbols, owner[s] # None
  PROVE  MarkLine(s) \in Quiet
<1>1. <<owner[s], s>> \in Books
  BY DEF TypeOK, Books
<1>2. MarkLine(s) = [event |-> "mark", symbol |-> <<owner[s], s>>, equity |-> 0,
                     close |-> 0, quantity |-> 0]
  BY DEF MarkLine, Book, R!MarkEvent
<1> QED
  BY <1>1, <1>2 DEF Quiet

LEMMA QuietAppended ==
  ASSUME NEW k \in Seq(Quiet), NEW e \in Quiet
  PROVE  Append(k, e) \in Seq(Quiet)
  BY AppendProperties

\* A line that moves no lot, of a process that goes on with nothing in hand.
LEMMA QuietWriteKeeps ==
  ASSUME JournalInv, pc = "idle", NEW line \in Quiet, Write(line),
         UNCHANGED <<pc, owner, held, order, shares, loose>>
  PROVE  JournalInv'
<1>0. line \in Event
  BY DEF Event
<1>1. /\ buffer' = Append(buffer, line) /\ buffer \in Seq(Quiet)
      /\ buffer' \in Seq(Event) /\ mine' \in Seq(Event)
      /\ disk' = disk /\ stump' = stump /\ torn' = torn
      /\ mine' # <<>>
      /\ stump' => buffer' = mine'
      /\ ~stump' => \E d \in Seq(Event) : disk' \o buffer' = d \o Tail(mine')
  BY <1>0, LineWritten
<1>2. buffer' \in Seq(Quiet)
  BY <1>1, QuietAppended
<1>3. TypeOK'
  BY <1>1 DEF JournalInv, TypeOK
<1>4. StreamInv'
  BY <1>1, <1>2 DEF StreamInv, EndsInMine, Waiting
<1>5. Accounted(disk, buffer)' /\ Owned(disk)'
  BY <1>1 DEF JournalInv, Accounted, Owned, Due
<1> QED
  BY <1>3, <1>4, <1>5 DEF JournalInv

LEMMA SessionLineKeeps ==
  ASSUME JournalInv, SessionLine
  PROVE  JournalInv'
<1>1. Session \in Quiet
  BY DEF Session, Quiet
<1> QED
  BY <1>1, QuietWriteKeeps DEF SessionLine

LEMMA IdleKeeps ==
  ASSUME JournalInv, NEW s \in Symbols, OnBarIdle(s)
  PROVE  JournalInv'
<1>1. pc = "idle" /\ owner[s] # None /\ Write(MarkLine(s))
  BY DEF OnBarIdle, OnBar
<1>2. MarkLine(s) \in Quiet
  BY <1>1, MarkLineTyped DEF JournalInv
<1> QED
  BY <1>1, <1>2, QuietWriteKeeps DEF OnBarIdle

\* The mark is written, and the order is in hand: what it changes in the account
\* is due in the lots.
LEMMA OrderKeeps ==
  ASSUME JournalInv, NEW s \in Symbols, OnBar(s),
         order'.symbol = s, order'.side \in {"Buy", "Sell"}, order'.quantity \in Nat,
         pc' = "booking", owner' = owner, loose' = loose,
         shares' \in [Symbols -> Nat],
         shares'[s] = shares[s] + Delta(order'),
         \A t \in Symbols \ {s} : shares'[t] = shares[t]
  PROVE  JournalInv'
<1>1. pc = "idle" /\ owner[s] # None /\ Write(MarkLine(s))
  BY DEF OnBar
<1>2. MarkLine(s) \in Quiet /\ MarkLine(s) \in Event
  BY <1>1, MarkLineTyped DEF JournalInv, Event
<1>3. /\ buffer' = Append(buffer, MarkLine(s)) /\ buffer \in Seq(Quiet)
      /\ buffer' \in Seq(Event) /\ mine' \in Seq(Event)
      /\ disk' = disk /\ stump' = stump /\ torn' = torn
      /\ mine' # <<>>
      /\ stump' => buffer' = mine'
      /\ ~stump' => \E d \in Seq(Event) : disk' \o buffer' = d \o Tail(mine')
  BY <1>1, <1>2, LineWritten
<1>4. buffer' \in Seq(Quiet)
  BY <1>2, <1>3, QuietAppended
<1>5. TypeOK'
  BY <1>1, <1>3 DEF JournalInv, TypeOK
<1>6. StreamInv'
  BY <1>3, <1>4 DEF StreamInv, EndsInMine, Waiting
<1>7. Accounted(disk, buffer)'
  <2> SUFFICES ASSUME NEW t \in Symbols \ loose'
               PROVE  OpenOn(disk', t) + Due(buffer, t)' = shares'[t]
    BY DEF Accounted
  <2>1. OpenOn(disk, t) + Due(buffer, t) = shares[t]
    BY DEF JournalInv, Accounted
  <2>2. Due(buffer, t) = 0
    BY <1>1 DEF Due
  <2>3. OpenOn(disk, t) \in Nat
    BY HoldingsTyped DEF JournalInv, TypeOK
  <2>4. OpenOn(disk', t) = shares[t]
    BY <1>3, <2>1, <2>2, <2>3
  <2>5. CASE t = s
    <3>1. Due(buffer, t)' = Delta(order')
      BY <2>5 DEF Due, Delta
    <3> QED
      BY <2>4, <2>5, <3>1
  <2>6. CASE t # s
    <3>1. Due(buffer, t)' = 0
      BY <2>6 DEF Due
    <3> QED
      BY <1>3, <2>3, <2>4, <2>6, <3>1
  <2> QED
    BY <2>5, <2>6
<1>8. Owned(disk)'
  BY <1>3 DEF JournalInv, Owned
<1> QED
  BY <1>5, <1>6, <1>7, <1>8 DEF JournalInv

LEMMA RejectedKeeps ==
  ASSUME JournalInv, NEW s \in Symbols, OnBarRejected(s)
  PROVE  JournalInv'
<1>1. /\ OnBar(s) /\ pc' = "booking" /\ owner' = owner /\ loose' = loose /\ shares' = shares
      /\ order' = [NoOrder EXCEPT !.symbol = s]
  BY DEF OnBarRejected
<1>2. order'.symbol = s /\ order'.side = "Buy" /\ order'.quantity = 0
  BY <1>1 DEF NoOrder
<1>3. Delta(order') = 0 /\ shares \in [Symbols -> Nat] /\ shares[s] \in Nat
  BY <1>2 DEF Delta, JournalInv, TypeOK
<1>4. shares'[s] = shares[s] + Delta(order')
  BY <1>1, <1>3
<1> QED
  BY <1>1, <1>2, <1>3, <1>4, OrderKeeps

LEMMA FilledKeeps ==
  ASSUME JournalInv, NEW s \in Symbols, NEW side \in {"Buy", "Sell"},
         NEW quantity \in 1..MaxShares, OnBarFilled(s, side, quantity)
  PROVE  JournalInv'
<1>1. /\ OnBar(s) /\ pc' = "booking" /\ owner' = owner /\ loose' = loose
      /\ order' = [symbol |-> s, side |-> side, quantity |-> quantity]
      /\ shares' = After(shares, order') /\ CanExecute(order')
  BY DEF OnBarFilled
<1>2. /\ quantity \in Nat /\ shares \in [Symbols -> Nat] /\ shares[s] \in Nat
      /\ order'.symbol = s /\ order'.side = side /\ order'.quantity = quantity
  BY <1>1, JournalAssumption DEF JournalInv, TypeOK
<1>3. side = "Sell" => quantity <= shares[s]
  BY <1>1, <1>2 DEF CanExecute
<1>4. shares' = [shares EXCEPT ![s] = IF side = "Buy" THEN shares[s] + quantity
                                     ELSE shares[s] - quantity]
  BY <1>1, <1>2 DEF After
<1>5. (IF side = "Buy" THEN shares[s] + quantity ELSE shares[s] - quantity) \in Nat
  BY <1>2, <1>3
<1>6. shares' \in [Symbols -> Nat] /\ \A t \in Symbols \ {s} : shares'[t] = shares[t]
  BY <1>2, <1>4, <1>5
<1>7. shares'[s] = shares[s] + Delta(order')
  <2>1. Delta(order') = IF side = "Buy" THEN quantity ELSE 0 - quantity
    BY <1>2 DEF Delta
  <2>2. shares'[s] = IF side = "Buy" THEN shares[s] + quantity ELSE shares[s] - quantity
    BY <1>2, <1>4
  <2> QED
    BY <1>2, <2>1, <2>2
<1> QED
  BY <1>1, <1>2, <1>6, <1>7, OrderKeeps

LEMMA BookOrderKeeps ==
  ASSUME JournalInv, BookOrder
  PROVE  JournalInv'
<1>1. /\ pc = "booking" /\ pc' = "flushing" /\ Write(LineOf(order))
      /\ UNCHANGED <<owner, order, shares, loose>>
  BY DEF BookOrder
<1> DEFINE line == LineOf(order)
<1>2. line \in Event
  BY <1>1, LineTyped DEF JournalInv
<1>3. LineOf(order)' = line
  BY <1>1 DEF LineOf, Book
<1>4. /\ buffer' = Append(buffer, line) /\ buffer \in Seq(Quiet)
      /\ buffer' \in Seq(Event) /\ mine' \in Seq(Event)
      /\ disk' = disk /\ stump' = stump /\ torn' = torn
      /\ mine' # <<>> /\ Len(mine') = Len(mine) + 1
      /\ stump' => buffer' = mine'
      /\ ~stump' => \E d \in Seq(Event) : disk' \o buffer' = d \o Tail(mine')
  <2> HIDE DEF line
  <2>1. Write(line) /\ pc \in {"idle", "booking"}
    BY <1>1 DEF line
  <2> QED
    BY <1>2, <2>1, LineWritten
<1>5. Len(mine') >= 2
  <2>1. mine # <<>> /\ mine \in Seq(Event)
    BY <1>1 DEF JournalInv, TypeOK, StreamInv
  <2>2. Len(mine) \in Nat /\ Len(mine) # 0
    BY <2>1, LenProperties, EmptySeq
  <2> QED
    BY <1>4, <2>2
<1>6. TypeOK'
  BY <1>1, <1>4 DEF JournalInv, TypeOK
<1>7. Waiting(buffer)'
  <2>1. LineLast(buffer)'
    BY <1>3, <1>4 DEF LineLast
  <2> QED
    BY <1>1, <2>1 DEF Waiting
<1>8. StreamInv'
  BY <1>1, <1>4, <1>5, <1>7 DEF StreamInv, EndsInMine
<1>9. buffer' # <<>>
  <2>1. Len(buffer') = Len(buffer) + 1 /\ Len(buffer) \in Nat
    BY <1>4, AppendProperties, LenProperties
  <2> QED
    BY <1>4, <2>1, EmptySeq
<1>10. Accounted(disk, buffer)' /\ Owned(disk)'
  BY <1>1, <1>4, <1>9 DEF JournalInv, Accounted, Owned, Due
<1> QED
  BY <1>6, <1>8, <1>10 DEF JournalInv

\* Nobody has anything where all have nothing together.
LEMMA NothingHeld ==
  ASSUME NEW f, NEW S, T!IsFiniteSet(S), \A x \in S : f[x] \in Nat, T!Total(f, S) = 0
  PROVE  \A x \in S : f[x] = 0
<1> SUFFICES ASSUME NEW x \in S
             PROVE  f[x] = 0
  OBVIOUS
<1>1. T!Total(f, S) = f[x] + T!Total(f, S \ {x})
  <2>1. \A y \in S : f[y] \in Int
    OBVIOUS
  <2> QED
    BY <2>1, BooksFinite, T!TotalRemove
<1>2. T!IsFiniteSet(S \ {x})
  <2>1. IsFiniteSet(S)
    BY SameFinite
  <2>2. IsFiniteSet(S \ {x})
    BY <2>1, FS_Subset
  <2> QED
    BY <2>2, SameFinite
<1>3. T!Total(f, S \ {x}) \in Nat
  <2>1. \A y \in S \ {x} : f[y] \in Nat
    OBVIOUS
  <2> QED
    BY <1>2, <2>1, BooksFinite, T!TotalNat
<1> QED
  BY <1>1, <1>3

\* A process starts: it takes over what its symbols have in the account.  Where
\* lots of another strategy are open the position changes hands, and the symbol
\* is out of the account's property.
LEMMA StartKeeps ==
  ASSUME JournalInv, Start
  PROVE  JournalInv'
<1> DEFINE adopted == {s \in Symbols : held'[s] > 0}
           n == Cardinality(adopted)
           lines == [i \in 1..n |-> Session]
<1>1. /\ pc = "down" /\ pc' = "idle" /\ order' = order /\ shares' = shares
      /\ buffer' = buffer \o lines /\ mine' = mine \o lines
      /\ disk' = disk /\ stump' = stump /\ torn' = torn
  BY DEF Start, WriteAll
<1>2. /\ disk \in Seq(Event) /\ stump \in BOOLEAN /\ torn \in BOOLEAN /\ shares \in [Symbols -> Nat]
      /\ buffer = <<>> /\ mine = <<>>
  BY <1>1 DEF JournalInv, TypeOK, StreamInv
<1>3. owner' \in [Symbols -> Registered \cup {None}]
  <2>1. PICK config \in Configs : Valid(config) /\ owner' = Owner(config)
    BY DEF Start
  <2>2. ASSUME NEW s \in Symbols
        PROVE  Owner(config)[s] \in Registered \cup {None}
    <3>1. CASE \E i \in DOMAIN config : s \in Range(config[i].symbols)
      <4> DEFINE i == CHOOSE i \in DOMAIN config : s \in Range(config[i].symbols)
      <4>1. i \in DOMAIN config /\ s \in Range(config[i].symbols)
        BY <3>1
      <4>2. Owner(config)[s] = config[i].name
        BY <3>1 DEF Owner
      <4> HIDE DEF i
      <4>3. config[i].symbols # <<>>
        BY <4>1 DEF Range
      <4> QED
        BY <2>1, <4>1, <4>2, <4>3 DEF Valid
    <3>2. CASE ~\E i \in DOMAIN config : s \in Range(config[i].symbols)
      BY <3>2 DEF Owner
    <3> QED
      BY <3>1, <3>2
  <2>3. Owner(config) = [s \in Symbols |-> Owner(config)[s]]
    BY DEF Owner
  <2> QED
    BY <2>1, <2>2, <2>3
<1>4. lines \in Seq(Quiet) /\ lines \in Seq(Event)
  <2>1. n \in Nat
    <3>1. IsFiniteSet(adopted)
      BY SymbolsAssumption, FS_Subset
    <3> HIDE DEF adopted
    <3> QED
      BY <3>1, FS_CardinalityType
  <2>2. Session \in Quiet
    BY DEF Session, Quiet
  <2> HIDE DEF n
  <2>3. lines \in [1..n -> Quiet]
    BY <2>2
  <2>4. lines \in Seq(Quiet)
    BY <2>1, <2>3, SeqDef
  <2> QED
    BY <2>4, SeqMonotonic DEF Event
<1> HIDE DEF lines
<1>5. buffer' = lines /\ mine' = lines
  BY <1>1, <1>2, <1>4, ConcatEmptySeq
<1>6. mine' # <<>> /\ ~stump' => \E d \in Seq(Event) : disk' \o buffer' = d \o Tail(mine')
  <2>1. mine = <<>> => buffer = <<>>
    BY <1>2
  <2> QED
    BY <1>1, <1>4, <1>5, <2>1, WriteKeeps
<1>7. TypeOK'
  BY <1>1, <1>2, <1>3, <1>4, <1>5 DEF TypeOK
<1>8. StreamInv'
  BY <1>1, <1>4, <1>5, <1>6 DEF StreamInv, EndsInMine, Waiting
<1>9. /\ loose \subseteq loose'
      /\ \A s \in Symbols : owner'[s] # None /\ LotsOf(s, Registered \ {owner'[s]}) > 0 =>
            s \in loose'
  BY DEF Start
<1>10. Accounted(disk, buffer)'
  BY <1>1, <1>9 DEF JournalInv, Accounted, Due
<1>11. Owned(disk)'
  <2> SUFFICES ASSUME NEW s \in Symbols \ loose', owner'[s] # None
               PROVE  \A st \in Registered \ {owner'[s]} : HeldOn(disk, s)[st] = 0
    BY <1>1 DEF Owned
  <2> DEFINE others == Registered \ {owner'[s]}
  <2>1. ~(LotsOf(s, others) > 0)
    BY <1>9
  <2>2. LotsOf(s, others) = T!Total(HeldOn(disk, s), others)
    BY LotsCounted
  <2>3. T!IsFiniteSet(others)
    BY JournalAssumption, SameFinite, FS_Subset
  <2>4. \A st \in others : HeldOn(disk, s)[st] \in Nat
    BY <1>2, HoldingsTyped
  <2> HIDE DEF others
  <2>5. T!Total(HeldOn(disk, s), others) \in Nat
    BY <2>3, <2>4, BooksFinite, T!TotalNat
  <2>6. T!Total(HeldOn(disk, s), others) = 0
    BY <2>1, <2>2, <2>5
  <2> QED
    BY <2>3, <2>4, <2>6, NothingHeld DEF others
<1> QED
  BY <1>7, <1>8, <1>10, <1>11 DEF JournalInv

LEMMA StutterKeeps ==
  ASSUME JournalInv, UNCHANGED vars
  PROVE  JournalInv'
<1>1. UNCHANGED <<disk, stump, buffer, torn, pc, owner, held, order, shares, mine, loose>>
  BY DEF vars, file
<1> QED
  BY <1>1 DEF JournalInv, TypeOK, StreamInv, EndsInMine, Waiting, LineLast, LineOf, Book,
              Accounted, Owned, Due

LEMMA NextKeeps == JournalInv /\ [Next]_vars => JournalInv'
<1> SUFFICES ASSUME JournalInv, [Next]_vars
             PROVE  JournalInv'
  OBVIOUS
<1>1. CASE Start
  BY <1>1, StartKeeps
<1>2. CASE End
  BY <1>2, EndKeeps
<1>3. CASE Finish
  BY <1>3, FinishKeeps
<1>4. CASE Exit
  BY <1>4, ExitKeeps
<1>5. CASE Crash
  BY <1>5, CrashKeeps
<1>6. CASE Spill
  BY <1>6, SpillKeeps
<1>7. ASSUME NEW s \in Symbols, OnBarIdle(s)
      PROVE  JournalInv'
  BY <1>7, IdleKeeps
<1>8. ASSUME NEW s \in Symbols, OnBarRejected(s)
      PROVE  JournalInv'
  BY <1>8, RejectedKeeps
<1>9. ASSUME NEW s \in Symbols, NEW side \in {"Buy", "Sell"}, NEW quantity \in 1..MaxShares,
             OnBarFilled(s, side, quantity)
      PROVE  JournalInv'
  BY <1>9, FilledKeeps
<1>10. CASE BookOrder
  BY <1>10, BookOrderKeeps
<1>11. CASE Booked
  BY <1>11, BookedKeeps
<1>12. CASE SessionLine
  BY <1>12, SessionLineKeeps
<1>13. ASSUME NEW s \in Symbols, NEW count \in 0..MaxShares, Unjournalled(s, count)
       PROVE  JournalInv'
  BY <1>13, UnjournalledKeeps
<1>14. CASE UNCHANGED vars
  BY <1>14, StutterKeeps
<1> QED
  BY <1>1, <1>2, <1>3, <1>4, <1>5, <1>6, <1>7, <1>8, <1>9, <1>10, <1>11, <1>12, <1>13, <1>14
     DEF Next

\* The file as its processes keep it: what waits in a stream is marks, sessions
\* and at most the line of the order in hand, a stump is the end of the file only
\* while nothing of the next process is on disk, and lots and account differ by
\* the order in hand alone (Journal::write_line, Engine::on_bar).
THEOREM JournalInvariant == Spec => []JournalInv
<1>1. JournalInv /\ [Next]_vars => JournalInv'
  BY NextKeeps
<1> QED
  BY InitInv, <1>1, PTL DEF Spec

-----------------------------------------------------------------------------
(* What is read *)

\* "A crash must not lose a trade that really happened" (Journal::write_line):
\* whichever processes wrote the file, however they ended and whatever part of
\* their streams had reached it, the open lots that the report finds for a symbol
\* are the shares in the account, unless an order of it is being booked or it is
\* among those the journal cannot know about.
THEOREM ReportMatches == Spec => []ReportMatchesAccount
<1>1. JournalInv => ReportMatchesAccount
  <2> SUFFICES ASSUME JournalInv, NEW s \in Symbols \ (loose \cup InFlight)
               PROVE  LotsOf(s, Registered) = shares[s]
    BY DEF ReportMatchesAccount
  <2>1. LotsOf(s, Registered) = OpenOn(disk, s)
    BY LotsCounted DEF OpenOn
  <2>2. OpenOn(disk, s) + Due(buffer, s) = shares[s]
    BY DEF JournalInv, Accounted
  <2>3. Due(buffer, s) = 0
    BY DEF Due, InFlight
  <2>4. OpenOn(disk, s) \in Nat
    BY HoldingsTyped DEF JournalInv, TypeOK
  <2> QED
    BY <2>1, <2>2, <2>3, <2>4
<1> QED
  BY JournalInvariant, <1>1, PTL

LEMMA SuffixOfConcat ==
  ASSUME NEW d \in Seq(Event), NEW t \in Seq(Event)
  PROVE  IsSuffix(t, d \o t)
<1> DEFINE c == d \o t
           a == Reverse(t)
           b == Reverse(c)
           l == Len(t)
<1>1. /\ c \in Seq(Event) /\ Len(c) = Len(d) + l /\ l \in Nat /\ Len(d) \in Nat
      /\ \A i \in 1..(Len(d) + l) : c[i] = IF i <= Len(d) THEN d[i] ELSE t[i - Len(d)]
  BY ConcatProperties, LenProperties
<1> HIDE DEF c
<1>2. a \in Seq(Event) /\ Len(a) = l /\ \A i \in 1..l : a[i] = t[(l - i) + 1]
  <2>1. \A i \in 1..l : (l - i) + 1 \in 1..l
    BY <1>1
  <2>2. a = [i \in 1..l |-> t[(l - i) + 1]]
    BY DEF Reverse
  <2>3. a \in [1..l -> Event]
    BY <2>1, <2>2, ElementOfSeq
  <2> HIDE DEF a, l
  <2>4. a \in Seq(Event) /\ DOMAIN a = 1..l
    <3>1. l \in Nat
      BY <1>1
    <3> QED
      BY <2>3, <3>1, SeqDef
  <2>5. Len(a) \in Nat /\ DOMAIN a = 1..Len(a)
    BY <2>4, LenProperties
  <2> QED
    BY <1>1, <2>2, <2>4, <2>5
<1>3. b \in Seq(Event) /\ Len(b) = Len(c) /\ \A i \in 1..Len(c) : b[i] = c[(Len(c) - i) + 1]
  <2>1. Len(c) \in Nat /\ \A i \in 1..Len(c) : (Len(c) - i) + 1 \in 1..Len(c)
    BY <1>1
  <2>2. b = [i \in 1..Len(c) |-> c[(Len(c) - i) + 1]]
    BY DEF Reverse
  <2>3. b \in [1..Len(c) -> Event]
    BY <1>1, <2>1, <2>2, ElementOfSeq
  <2> HIDE DEF b
  <2>4. b \in Seq(Event) /\ DOMAIN b = 1..Len(c)
    BY <2>1, <2>3, SeqDef
  <2>5. Len(b) \in Nat /\ DOMAIN b = 1..Len(b)
    BY <2>4, LenProperties
  <2> QED
    BY <2>1, <2>2, <2>4, <2>5
<1> HIDE DEF a, b, l
<1>4. ASSUME NEW i \in 1..l
      PROVE  a[i] = b[i]
  <2> DEFINE k == (Len(c) - i) + 1
  <2>1. /\ k \in 1..(Len(d) + l) /\ ~(k <= Len(d)) /\ k - Len(d) = (l - i) + 1
        /\ i \in 1..Len(c)
    BY <1>1
  <2>2. b[i] = c[k]
    BY <1>3, <2>1
  <2> HIDE DEF k
  <2>3. c[k] = t[(l - i) + 1]
    BY <1>1, <2>1
  <2> QED
    BY <1>2, <2>2, <2>3
<1>5. SubSeq(a, 1, l) = a
  BY <1>2, SubSeqFull
<1>6. SubSeq(b, 1, l) = a
  <2> DEFINE u == SubSeq(b, 1, l)
  <2>1. /\ 1 \in Int /\ l \in Int /\ l - 1 + 1 = l /\ (1 <= l <=> l # 0)
        /\ \A i \in 1..l : 1 + i - 1 = i /\ i \in 1..Len(c)
    BY <1>1
  <2>2. \A i \in 1..l : b[i] \in Event
    BY <1>3, <2>1, ElementOfSeq
  <2>3. /\ u \in Seq(Event) /\ Len(u) = IF 1 <= l THEN l - 1 + 1 ELSE 0
        /\ \A i \in 1..(l - 1 + 1) : u[i] = b[1 + i - 1]
    BY <1>3, <2>1, <2>2, SubSeqProperties
  <2> HIDE DEF u
  <2>4. Len(u) = Len(a) /\ \A i \in 1..Len(u) : u[i] = a[i]
    BY <1>2, <1>4, <2>1, <2>3
  <2>5. u = a
    BY <1>2, <2>3, <2>4, SeqEqual
  <2> QED
    BY <2>5 DEF u
<1>7. Len(a) <= Len(b)
  BY <1>1, <1>2, <1>3
<1> QED
  BY <1>2, <1>5, <1>6, <1>7 DEF IsSuffix, IsPrefix, a, b, c, l

\* "They must flush first or the tail of the run is simply missing"
\* (include/quantiq/journal.hpp): when the dashboard of a scheduled run is made,
\* the file ends in everything the run wrote after its first line, which alone a
\* predecessor that died over half a line may have spoilt.
THEOREM ReaderSees == Spec => []ReaderSeesRun
<1>1. JournalInv => ReaderSeesRun
  <2> SUFFICES ASSUME JournalInv, pc = "reading"
               PROVE  IsSuffix(Tail(mine), disk)
    BY DEF ReaderSeesRun
  <2>1. /\ buffer = <<>> /\ mine # <<>> /\ mine \in Seq(Event) /\ disk \in Seq(Event)
        /\ stump => buffer = mine
        /\ ~stump => EndsInMine(disk, buffer)
    BY DEF JournalInv, TypeOK, StreamInv
  <2>2. PICK d \in Seq(Event) : disk \o buffer = d \o Tail(mine)
    BY <2>1 DEF EndsInMine
  <2>3. disk = d \o Tail(mine)
    BY <2>1, <2>2, ConcatEmptySeq
  <2>4. Tail(mine) \in Seq(Event)
    BY <2>1, HeadTailProperties
  <2> QED
    BY <2>3, <2>4, SuffixOfConcat
<1> QED
  BY JournalInvariant, <1>1, PTL
=============================================================================
