------------------------- MODULE BoundedQueueProofs -------------------------
(***************************************************************************)
(* The safety of the queue for any number of producers, consumers and      *)
(* closers, any capacity and any values.                                   *)
(***************************************************************************)
EXTENDS BoundedQueue, FiniteSetTheorems, TLAPS

(* One thread moves: the set of threads at a place gains it, loses it, or  *)
(* stays as it is.                                                         *)
LEMMA Arrives ==
  ASSUME TypeOK, NEW S \in {Producers, Consumers}, NEW x, NEW t \in S,
         pc' = [pc EXCEPT ![t] = x], pc[t] # x
  PROVE  /\ At(S, x)' = At(S, x) \cup {t}
         /\ Cardinality(At(S, x)') = Cardinality(At(S, x)) + 1
<1>1. At(S, x)' = At(S, x) \cup {t}
  BY DEF TypeOK, At, Threads
<1>2. IsFiniteSet(At(S, x)) /\ t \notin At(S, x)
  BY FS_Subset, QueueAssumption DEF At
<1> QED
  BY <1>1, <1>2, FS_AddElement

LEMMA Leaves ==
  ASSUME TypeOK, NEW S \in {Producers, Consumers}, NEW x, NEW y, NEW t \in S,
         pc' = [pc EXCEPT ![t] = y], pc[t] = x, y # x
  PROVE  /\ At(S, x)' = At(S, x) \ {t}
         /\ Cardinality(At(S, x)') = Cardinality(At(S, x)) - 1
<1>1. At(S, x)' = At(S, x) \ {t}
  BY DEF TypeOK, At, Threads
<1>2. IsFiniteSet(At(S, x)) /\ t \in At(S, x)
  BY FS_Subset, QueueAssumption DEF At
<1> QED
  BY <1>1, <1>2, FS_RemoveElement

LEMMA Stays ==
  ASSUME TypeOK, NEW S \in {Producers, Consumers}, NEW x, NEW y, NEW t \in Threads,
         pc' = [pc EXCEPT ![t] = y], t \notin S \/ (pc[t] # x /\ y # x)
  PROVE  At(S, x)' = At(S, x)
  BY DEF TypeOK, At, Threads

LEMMA CountNat ==
  ASSUME NEW S \in {Producers, Consumers}, NEW x
  PROVE  IsFiniteSet(At(S, x)) /\ Cardinality(At(S, x)) \in Nat
<1>1. IsFiniteSet(At(S, x))
  BY FS_Subset, QueueAssumption DEF At
<1> QED
  BY <1>1, FS_CardinalityType

-----------------------------------------------------------------------------
(* The inductive invariant is what the runs check, together: each part is  *)
(* kept by a step only because the guard of the step rules the rest out.   *)
QInv ==
    /\ TypeOK
    /\ ConsumersNotForgotten
    /\ ProducersNotForgotten
    /\ CloseReachesEveryone

Sleeping(S) == At(S, "waiting")
Notifying(S) == Cardinality(At(S, "notifying"))
Woken(S) == Cardinality(At(S, "woken"))

LEMMA Counts ==
  /\ Notifying(Producers) \in Nat /\ Notifying(Consumers) \in Nat
  /\ Woken(Producers) \in Nat /\ Woken(Consumers) \in Nat
  BY CountNat DEF Notifying, Woken

LEMMA CountsNext ==
  /\ Notifying(Producers)' \in Nat /\ Notifying(Consumers)' \in Nat
  /\ Woken(Producers)' \in Nat /\ Woken(Consumers)' \in Nat
<1>1. \A S \in {Producers, Consumers}, x \in {"notifying", "woken"} :
        IsFiniteSet(At(S, x)')
  BY FS_Subset, QueueAssumption DEF At
<1> QED
  BY <1>1, FS_CardinalityType DEF Notifying, Woken

LEMMA LenNat ==
  ASSUME QInv
  PROVE  queue \in Seq(Values) /\ Len(queue) \in Nat /\ Capacity \in Nat
<1>1. queue \in Seq(Values)
  BY DEF QInv, TypeOK
<1>2. Len(queue) \in Nat
  BY <1>1
<1>3. Capacity \in Nat
  BY QueueAssumption
<1> QED
  BY <1>1, <1>2, <1>3

(* A step of a producer or a consumer leaves the closers where they are,   *)
(* so it can only break CloseReachesEveryone by falling asleep.            *)
LEMMA CloseKept ==
  ASSUME QInv, NEW t \in Producers \cup Consumers, NEW y,
         pc' = [pc EXCEPT ![t] = y], closed' = closed, y = "waiting" => ~closed
  PROVE  CloseReachesEveryone'
<1>1. \A k \in Closers : pc'[k] = pc[k]
  BY QueueAssumption DEF QInv, TypeOK, Threads
<1>2. closed => /\ Sleeping(Producers)' \subseteq Sleeping(Producers)
                /\ Sleeping(Consumers)' \subseteq Sleeping(Consumers)
  BY DEF QInv, TypeOK, Threads, Sleeping, At
<1>3. At(Closers, "waking consumers")' = At(Closers, "waking consumers")
  BY <1>1 DEF At
<1> QED
  BY <1>1, <1>2, <1>3 DEF QInv, CloseReachesEveryone, Sleeping

\* A producer's move, seen from the consumers, and the other way round.
LEMMA OtherSideStays ==
  ASSUME QInv, NEW S \in {Producers, Consumers}, NEW t \in Threads, t \notin S,
         NEW y, pc' = [pc EXCEPT ![t] = y]
  PROVE  /\ Sleeping(S)' = Sleeping(S)
         /\ Notifying(S)' = Notifying(S)
         /\ Woken(S)' = Woken(S)
  BY Stays DEF QInv, Sleeping, Notifying, Woken

(* A thread enters or leaves a call, or its wait, without touching queue.  *)
LEMMA CallInv ==
  ASSUME QInv, TypeOK', queue' = queue, closed' = closed,
         NEW t \in Producers \cup Consumers,
         pc[t] = "idle", pc' = [pc EXCEPT ![t] = "calling"]
  PROVE  QInv'
<1>1. \A S \in {Producers, Consumers} :
        /\ Sleeping(S)' = Sleeping(S)
        /\ Notifying(S)' = Notifying(S)
        /\ Woken(S)' = Woken(S)
  BY Stays DEF QInv, Sleeping, Notifying, Woken, Threads
<1>2. CloseReachesEveryone'
  BY CloseKept
<1> QED
  BY <1>1, <1>2
     DEF QInv, ConsumersNotForgotten, ProducersNotForgotten, Sleeping, Notifying, Woken

LEMMA SpuriousInv ==
  ASSUME QInv, TypeOK', NEW t \in Producers \cup Consumers, SpuriousWakeup(t)
  PROVE  QInv'
<1>1. /\ pc[t] = "waiting" /\ pc' = [pc EXCEPT ![t] = "woken"]
      /\ queue' = queue /\ closed' = closed
  BY DEF SpuriousWakeup, Go
<1>2. CloseReachesEveryone'
  BY <1>1, CloseKept
<1>3. ASSUME NEW S \in {Producers, Consumers}
      PROVE  /\ Sleeping(S)' \subseteq Sleeping(S)
             /\ Notifying(S)' = Notifying(S)
             /\ Woken(S)' >= Woken(S)
  <2>0. TypeOK /\ t \in Threads
    BY DEF QInv, Threads
  <2>1. Sleeping(S)' \subseteq Sleeping(S)
    BY <1>1, <2>0 DEF TypeOK, Sleeping, At, Threads
  <2>2. Notifying(S)' = Notifying(S)
    BY <1>1, <2>0, Stays DEF Notifying
  <2>3. CASE t \in S
    <3>1. Woken(S)' = Woken(S) + 1
      BY <1>1, <2>0, <2>3, Arrives DEF Woken
    <3>2. Woken(S) \in Nat
      BY CountNat DEF Woken
    <3> QED
      BY <2>1, <2>2, <3>1, <3>2
  <2>4. CASE t \notin S
    <3>1. Woken(S)' = Woken(S)
      BY <1>1, <2>0, <2>4, Stays DEF Woken
    <3>2. Woken(S) \in Nat
      BY CountNat DEF Woken
    <3> QED
      BY <2>1, <2>2, <3>1, <3>2
  <2> QED
    BY <2>3, <2>4
<1>4. queue \in Seq(Values) /\ Len(queue) \in Nat /\ Capacity \in Nat
  BY LenNat
<1>5. /\ Sleeping(Consumers)' \subseteq Sleeping(Consumers)
      /\ Notifying(Producers)' = Notifying(Producers)
      /\ Woken(Consumers)' >= Woken(Consumers)
      /\ Sleeping(Producers)' \subseteq Sleeping(Producers)
      /\ Notifying(Consumers)' = Notifying(Consumers)
      /\ Woken(Producers)' >= Woken(Producers)
  BY <1>3
<1>6. ConsumersNotForgotten'
  BY <1>1, <1>4, <1>5, Counts, CountsNext
     DEF QInv, ConsumersNotForgotten, Sleeping, Notifying, Woken
<1>7. ProducersNotForgotten'
  BY <1>1, <1>4, <1>5, Counts, CountsNext
     DEF QInv, ProducersNotForgotten, Sleeping, Notifying, Woken
<1> QED
  BY <1>2, <1>6, <1>7 DEF QInv

\* A thread's move, seen from its own side.
LEMMA OwnSideMoves ==
  ASSUME QInv, NEW S \in {Producers, Consumers}, NEW t \in S, NEW y,
         pc[t] # y, pc' = [pc EXCEPT ![t] = y]
  PROVE  /\ y # "waiting" => Sleeping(S)' \subseteq Sleeping(S)
         /\ Notifying(S)' = Notifying(S) + (IF y = "notifying" THEN 1 ELSE 0)
                                         - (IF pc[t] = "notifying" THEN 1 ELSE 0)
         /\ Woken(S)' = Woken(S) + (IF y = "woken" THEN 1 ELSE 0)
                                 - (IF pc[t] = "woken" THEN 1 ELSE 0)
<1>0. TypeOK /\ t \in Threads
  BY DEF QInv, Threads
<1>1. y # "waiting" => Sleeping(S)' \subseteq Sleeping(S)
  BY <1>0 DEF TypeOK, Sleeping, At, Threads
<1>2. ASSUME NEW x
      PROVE  Cardinality(At(S, x)') =
               Cardinality(At(S, x)) + (IF y = x THEN 1 ELSE 0)
                                     - (IF pc[t] = x THEN 1 ELSE 0)
  <2>0. Cardinality(At(S, x)) \in Nat
    BY CountNat
  <2>1. CASE y = x
    <3>1. Cardinality(At(S, x)') = Cardinality(At(S, x)) + 1
      BY <1>0, <2>1, Arrives
    <3> QED
      BY <2>0, <2>1, <3>1
  <2>2. CASE pc[t] = x
    <3>1. Cardinality(At(S, x)') = Cardinality(At(S, x)) - 1
      BY <1>0, <2>2, Leaves
    <3> QED
      BY <2>0, <2>2, <3>1
  <2>3. CASE y # x /\ pc[t] # x
    <3>1. At(S, x)' = At(S, x)
      BY <1>0, <2>3, Stays
    <3> QED
      BY <2>0, <2>3, <3>1
  <2> QED
    BY <2>1, <2>2, <2>3
<1> QED
  BY <1>1, <1>2 DEF Notifying, Woken

LEMMA Disjoint ==
  /\ \A p \in Producers : p \in Threads /\ p \notin Consumers
  /\ \A c \in Consumers : c \in Threads /\ c \notin Producers
  BY QueueAssumption DEF Threads

\* The two counting parts of the invariant, in the words of this module.
LEMMA CountsMean ==
  /\ ConsumersNotForgotten <=>
       (Sleeping(Consumers) # {} =>
          Len(queue) <= Notifying(Producers) + Woken(Consumers))
  /\ ProducersNotForgotten <=>
       (~closed /\ Sleeping(Producers) # {} =>
          Capacity <= Len(queue) + Notifying(Consumers) + Woken(Producers))
  BY DEF ConsumersNotForgotten, ProducersNotForgotten, Sleeping, Notifying, Woken

LEMMA CountsMeanNext ==
  /\ ConsumersNotForgotten' <=>
       (Sleeping(Consumers)' # {} =>
          Len(queue') <= Notifying(Producers)' + Woken(Consumers)')
  /\ ProducersNotForgotten' <=>
       (~closed' /\ Sleeping(Producers)' # {} =>
          Capacity <= Len(queue') + Notifying(Consumers)' + Woken(Producers)')
  BY DEF ConsumersNotForgotten, ProducersNotForgotten, Sleeping, Notifying, Woken

-----------------------------------------------------------------------------
(* push *)

(* A thread holding the mutex moves on: to its wait, to its notification,  *)
(* or out of the call.                                                     *)
LEMMA ProducerMove ==
  ASSUME QInv, NEW p \in Producers, Testing(p),
         NEW y \in {"waiting", "notifying", "done"}, pc' = [pc EXCEPT ![p] = y]
  PROVE  /\ Sleeping(Consumers)' = Sleeping(Consumers)
         /\ Notifying(Consumers)' = Notifying(Consumers)
         /\ Woken(Consumers)' = Woken(Consumers)
         /\ y # "waiting" => Sleeping(Producers)' \subseteq Sleeping(Producers)
         /\ y = "notifying" => Notifying(Producers)' = Notifying(Producers) + 1
         /\ y # "notifying" => Notifying(Producers)' = Notifying(Producers)
         /\ Woken(Producers)' \in {Woken(Producers), Woken(Producers) - 1}
<1>1. pc[p] \in {"calling", "woken"} /\ pc[p] # y
  BY DEF Testing
<1>2. /\ Sleeping(Consumers)' = Sleeping(Consumers)
      /\ Notifying(Consumers)' = Notifying(Consumers)
      /\ Woken(Consumers)' = Woken(Consumers)
  BY OtherSideStays, Disjoint
<1>3. /\ y # "waiting" => Sleeping(Producers)' \subseteq Sleeping(Producers)
      /\ Notifying(Producers)' = Notifying(Producers) + (IF y = "notifying" THEN 1 ELSE 0)
                                      - (IF pc[p] = "notifying" THEN 1 ELSE 0)
      /\ Woken(Producers)' = Woken(Producers) + (IF y = "woken" THEN 1 ELSE 0)
                              - (IF pc[p] = "woken" THEN 1 ELSE 0)
  BY <1>1, OwnSideMoves
<1> QED
  BY <1>1, <1>2, <1>3, Counts

LEMMA ConsumerMove ==
  ASSUME QInv, NEW c \in Consumers, Testing(c),
         NEW y \in {"waiting", "notifying", "done"}, pc' = [pc EXCEPT ![c] = y]
  PROVE  /\ Sleeping(Producers)' = Sleeping(Producers)
         /\ Notifying(Producers)' = Notifying(Producers)
         /\ Woken(Producers)' = Woken(Producers)
         /\ y # "waiting" => Sleeping(Consumers)' \subseteq Sleeping(Consumers)
         /\ y = "notifying" => Notifying(Consumers)' = Notifying(Consumers) + 1
         /\ y # "notifying" => Notifying(Consumers)' = Notifying(Consumers)
         /\ Woken(Consumers)' \in {Woken(Consumers), Woken(Consumers) - 1}
<1>1. pc[c] \in {"calling", "woken"} /\ pc[c] # y
  BY DEF Testing
<1>2. /\ Sleeping(Producers)' = Sleeping(Producers)
      /\ Notifying(Producers)' = Notifying(Producers)
      /\ Woken(Producers)' = Woken(Producers)
  BY OtherSideStays, Disjoint
<1>3. /\ y # "waiting" => Sleeping(Consumers)' \subseteq Sleeping(Consumers)
      /\ Notifying(Consumers)' = Notifying(Consumers) + (IF y = "notifying" THEN 1 ELSE 0)
                                      - (IF pc[c] = "notifying" THEN 1 ELSE 0)
      /\ Woken(Consumers)' = Woken(Consumers) + (IF y = "woken" THEN 1 ELSE 0)
                              - (IF pc[c] = "woken" THEN 1 ELSE 0)
  BY <1>1, OwnSideMoves
<1> QED
  BY <1>1, <1>2, <1>3, Counts

LEMMA PushClosedInv ==
  ASSUME QInv, TypeOK', NEW p \in Producers, PushClosed(p)
  PROVE  QInv'
<1>1. /\ Testing(p) /\ pc' = [pc EXCEPT ![p] = "done"]
      /\ closed /\ queue' = queue /\ closed' = closed
  BY DEF PushClosed, Go
<1>2. CloseReachesEveryone'
  BY <1>1, CloseKept
<1>3. ConsumersNotForgotten'
  BY <1>1, ProducerMove, LenNat, Counts, CountsMean, CountsMeanNext DEF QInv
<1>4. ProducersNotForgotten'
  BY <1>1 DEF ProducersNotForgotten
<1> QED
  BY <1>2, <1>3, <1>4 DEF QInv

LEMMA PushInv ==
  ASSUME QInv, TypeOK', NEW p \in Producers, Push(p)
  PROVE  QInv'
<1>1. /\ Testing(p) /\ pc' = [pc EXCEPT ![p] = "notifying"]
      /\ queue' = Append(queue, item[p]) /\ closed' = closed
  BY DEF Push, Go
<1>2. Len(queue') = Len(queue) + 1
  <2>1. queue \in Seq(Values) /\ item[p] \in Values
    BY DEF QInv, TypeOK
  <2> QED
    BY <1>1, <2>1
<1>3. CloseReachesEveryone'
  BY <1>1, CloseKept
<1>4. /\ Sleeping(Consumers)' = Sleeping(Consumers)
      /\ Notifying(Consumers)' = Notifying(Consumers)
      /\ Woken(Consumers)' = Woken(Consumers)
      /\ Sleeping(Producers)' \subseteq Sleeping(Producers)
      /\ Notifying(Producers)' = Notifying(Producers) + 1
      /\ Woken(Producers)' \in {Woken(Producers), Woken(Producers) - 1}
  BY <1>1, ProducerMove, Counts
<1>5. ConsumersNotForgotten'
  BY <1>2, <1>4, LenNat, Counts, CountsMean, CountsMeanNext DEF QInv
<1>6. ProducersNotForgotten'
  BY <1>1, <1>2, <1>4, LenNat, Counts, CountsMean, CountsMeanNext DEF QInv
<1> QED
  BY <1>3, <1>5, <1>6 DEF QInv

LEMMA PushWaitsInv ==
  ASSUME QInv, TypeOK', NEW p \in Producers, PushWaits(p)
  PROVE  QInv'
<1>1. /\ Testing(p) /\ pc' = [pc EXCEPT ![p] = "waiting"]
      /\ queue' = queue /\ closed' = closed /\ ~closed /\ Len(queue) >= Capacity
  BY LenNat DEF PushWaits, HasRoom, Go
<1>2. CloseReachesEveryone'
  BY <1>1 DEF CloseReachesEveryone
<1>3. ConsumersNotForgotten'
  BY <1>1, ProducerMove, LenNat, Counts, CountsMean, CountsMeanNext DEF QInv
<1>4. ProducersNotForgotten'
  BY <1>1, LenNat, CountsNext, CountsMeanNext
<1> QED
  BY <1>2, <1>3, <1>4 DEF QInv

-----------------------------------------------------------------------------
(* pop *)

LEMMA PopInv ==
  ASSUME QInv, TypeOK', NEW c \in Consumers, Pop(c)
  PROVE  QInv'
<1>1. /\ Testing(c) /\ pc' = [pc EXCEPT ![c] = "notifying"]
      /\ queue # <<>> /\ queue' = Tail(queue) /\ closed' = closed
  BY DEF Pop, Go
<1>2. Len(queue') = Len(queue) - 1
  BY <1>1, LenNat
<1>3. CloseReachesEveryone'
  BY <1>1, CloseKept
<1>4. /\ Sleeping(Producers)' = Sleeping(Producers)
      /\ Notifying(Producers)' = Notifying(Producers)
      /\ Woken(Producers)' = Woken(Producers)
      /\ Sleeping(Consumers)' \subseteq Sleeping(Consumers)
      /\ Notifying(Consumers)' = Notifying(Consumers) + 1
      /\ Woken(Consumers)' \in {Woken(Consumers), Woken(Consumers) - 1}
  BY <1>1, ConsumerMove, Counts
<1>5. ConsumersNotForgotten'
  BY <1>2, <1>4, LenNat, Counts, CountsMean, CountsMeanNext DEF QInv
<1>6. ProducersNotForgotten'
  BY <1>1, <1>2, <1>4, LenNat, Counts, CountsMean, CountsMeanNext DEF QInv
<1> QED
  BY <1>3, <1>5, <1>6 DEF QInv

LEMMA PopDrainedInv ==
  ASSUME QInv, TypeOK', NEW c \in Consumers, PopDrained(c)
  PROVE  QInv'
<1>1. /\ Testing(c) /\ pc' = [pc EXCEPT ![c] = "done"]
      /\ closed /\ queue = <<>> /\ queue' = queue /\ closed' = closed
  BY DEF PopDrained, Go
<1>2. CloseReachesEveryone'
  BY <1>1, CloseKept
<1>3. ConsumersNotForgotten'
  BY <1>1, CountsNext, CountsMeanNext
<1>4. ProducersNotForgotten'
  BY <1>1 DEF ProducersNotForgotten
<1> QED
  BY <1>2, <1>3, <1>4 DEF QInv

LEMMA PopWaitsInv ==
  ASSUME QInv, TypeOK', NEW c \in Consumers, PopWaits(c)
  PROVE  QInv'
<1>1. /\ Testing(c) /\ pc' = [pc EXCEPT ![c] = "waiting"]
      /\ queue = <<>> /\ queue' = queue /\ closed' = closed /\ ~closed
  BY DEF PopWaits, Go
<1>2. CloseReachesEveryone'
  BY <1>1 DEF CloseReachesEveryone
<1>3. ConsumersNotForgotten'
  BY <1>1, CountsNext, CountsMeanNext
<1>4. ProducersNotForgotten'
  BY <1>1, ConsumerMove, LenNat, Counts, CountsMean, CountsMeanNext DEF QInv
<1> QED
  BY <1>2, <1>3, <1>4 DEF QInv

-----------------------------------------------------------------------------
(* notify_one *)

LEMMA NotifierLeaves ==
  ASSUME QInv, NEW S \in {Producers, Consumers}, NEW t \in S,
         pc[t] = "notifying", pc' = [pc EXCEPT ![t] = "idle"]
  PROVE  /\ Sleeping(S)' \subseteq Sleeping(S)
         /\ Woken(S)' = Woken(S)
<1>1. TypeOK /\ t \in Threads
  BY DEF QInv, Threads
<1>2. Sleeping(S)' = Sleeping(S)
  BY <1>1, Stays DEF Sleeping
<1>3. Woken(S)' = Woken(S)
  BY <1>1, Stays DEF Woken
<1> QED
  BY <1>2, <1>3

\* Nobody was asleep: the notification is spent on nothing.
LEMMA NotifyNobodyInv ==
  ASSUME QInv, TypeOK', queue' = queue, closed' = closed,
         NEW S \in {Producers, Consumers}, NEW t \in (Producers \cup Consumers) \ S,
         pc[t] = "notifying", pc' = [pc EXCEPT ![t] = "idle"], Sleeping(S) = {}
  PROVE  QInv'
<1>1. CloseReachesEveryone'
  BY CloseKept
<1>2. CASE S = Consumers
  <2>1. t \in Producers /\ t \notin Consumers
    BY <1>2
  <2>2. /\ Sleeping(Consumers)' = {}
        /\ Notifying(Consumers)' = Notifying(Consumers)
    BY <1>2, <2>1, OtherSideStays, Disjoint
  <2>3. /\ Sleeping(Producers)' \subseteq Sleeping(Producers)
        /\ Woken(Producers)' = Woken(Producers)
    BY <2>1, NotifierLeaves
  <2>4. ConsumersNotForgotten'
    BY <2>2, CountsMeanNext
  <2>5. ProducersNotForgotten'
    BY <2>2, <2>3, LenNat, Counts, CountsMean, CountsMeanNext DEF QInv
  <2> QED
    BY <1>1, <2>4, <2>5 DEF QInv
<1>3. CASE S = Producers
  <2>1. t \in Consumers /\ t \notin Producers
    BY <1>3
  <2>2. /\ Sleeping(Producers)' = {}
        /\ Notifying(Producers)' = Notifying(Producers)
    BY <1>3, <2>1, OtherSideStays, Disjoint
  <2>3. /\ Sleeping(Consumers)' \subseteq Sleeping(Consumers)
        /\ Woken(Consumers)' = Woken(Consumers)
    BY <2>1, NotifierLeaves
  <2>4. ProducersNotForgotten'
    BY <2>2, CountsMeanNext
  <2>5. ConsumersNotForgotten'
    BY <2>2, <2>3, LenNat, Counts, CountsMean, CountsMeanNext DEF QInv
  <2> QED
    BY <1>1, <2>4, <2>5 DEF QInv
<1> QED
  BY <1>2, <1>3

\* Two threads move at once: the notifier leaves, a sleeper wakes.
LEMMA WakeSets ==
  ASSUME QInv, NEW S \in {Producers, Consumers}, NEW R \in {Producers, Consumers},
         S # R, NEW t \in R, NEW u \in S, pc[t] = "notifying", pc[u] = "waiting",
         pc' = [pc EXCEPT ![t] = "idle", ![u] = "woken"]
  PROVE  /\ Sleeping(S)' \subseteq Sleeping(S) /\ Sleeping(R)' = Sleeping(R)
         /\ Notifying(R)' = Notifying(R) - 1 /\ Notifying(S)' = Notifying(S)
         /\ Woken(S)' = Woken(S) + 1 /\ Woken(R)' = Woken(R)
<1>1. /\ pc \in [Threads -> Places] /\ t \in Threads /\ u \in Threads
      /\ t \notin S /\ u \notin R /\ t # u
  <2>1. pc \in [Threads -> Places]
    BY DEF QInv, TypeOK
  <2> QED
    BY <2>1, Disjoint
<1>2. \A v \in Threads : pc'[v] = IF v = t THEN "idle" ELSE IF v = u THEN "woken" ELSE pc[v]
  BY <1>1
<1>3. S \subseteq Threads /\ R \subseteq Threads
  BY DEF Threads
<1>4. /\ Sleeping(S)' \subseteq Sleeping(S) /\ Sleeping(R)' = Sleeping(R)
  BY <1>1, <1>2, <1>3 DEF Sleeping, At
<1>5. /\ At(R, "notifying")' = At(R, "notifying") \ {t}
      /\ At(S, "notifying")' = At(S, "notifying")
  BY <1>1, <1>2, <1>3 DEF At
<1>6. /\ At(S, "woken")' = At(S, "woken") \cup {u}
      /\ At(R, "woken")' = At(R, "woken")
  BY <1>1, <1>2, <1>3 DEF At
<1>7. /\ t \in At(R, "notifying") /\ IsFiniteSet(At(R, "notifying"))
      /\ u \notin At(S, "woken") /\ IsFiniteSet(At(S, "woken"))
  BY CountNat DEF At
<1>8. Notifying(R)' = Notifying(R) - 1
  BY <1>5, <1>7, FS_RemoveElement DEF Notifying
<1>9. Woken(S)' = Woken(S) + 1
  BY <1>6, <1>7, FS_AddElement DEF Woken
<1> QED
  BY <1>4, <1>5, <1>6, <1>8, <1>9 DEF Notifying, Woken

LEMMA WakeOneInv ==
  ASSUME QInv, TypeOK', queue' = queue, closed' = closed,
         NEW S \in {Producers, Consumers}, NEW R \in {Producers, Consumers},
         S # R, NEW t \in R, NEW u \in S, pc[t] = "notifying", pc[u] = "waiting",
         pc' = [pc EXCEPT ![t] = "idle", ![u] = "woken"]
  PROVE  QInv'
<1>1. /\ Sleeping(S)' \subseteq Sleeping(S) /\ Sleeping(R)' = Sleeping(R)
      /\ Notifying(R)' = Notifying(R) - 1 /\ Notifying(S)' = Notifying(S)
      /\ Woken(S)' = Woken(S) + 1 /\ Woken(R)' = Woken(R)
  BY WakeSets
<1>2. CloseReachesEveryone'
  <2>1. \A k \in Closers : pc'[k] = pc[k]
    <3>1. t \notin Closers /\ u \notin Closers
      BY QueueAssumption
    <3>2. pc \in [Threads -> Places] /\ Closers \subseteq Threads
      BY DEF QInv, TypeOK, Threads
    <3> QED
      BY <3>1, <3>2
  <2>2. At(Closers, "waking consumers")' = At(Closers, "waking consumers")
    BY <2>1 DEF At
  <2>3. /\ Sleeping(Producers)' \subseteq Sleeping(Producers)
        /\ Sleeping(Consumers)' \subseteq Sleeping(Consumers)
    BY <1>1
  <2> QED
    BY <2>1, <2>2, <2>3 DEF QInv, CloseReachesEveryone, Sleeping
<1>3. CASE S = Consumers /\ R = Producers
  <2>1. ConsumersNotForgotten'
    BY <1>1, <1>3, LenNat, Counts, CountsMean, CountsMeanNext DEF QInv
  <2>2. ProducersNotForgotten'
    BY <1>1, <1>3, LenNat, Counts, CountsMean, CountsMeanNext DEF QInv
  <2> QED
    BY <1>2, <2>1, <2>2 DEF QInv
<1>4. CASE S = Producers /\ R = Consumers
  <2>1. ConsumersNotForgotten'
    BY <1>1, <1>4, LenNat, Counts, CountsMean, CountsMeanNext DEF QInv
  <2>2. ProducersNotForgotten'
    BY <1>1, <1>4, LenNat, Counts, CountsMean, CountsMeanNext DEF QInv
  <2> QED
    BY <1>2, <2>1, <2>2 DEF QInv
<1> QED
  BY <1>3, <1>4

LEMMA NotifyOneInv ==
  ASSUME QInv, TypeOK', NEW S \in {Producers, Consumers},
         NEW R \in {Producers, Consumers}, S # R, NEW t \in R, NotifyOne(t, S)
  PROVE  QInv'
<1>1. pc[t] = "notifying" /\ queue' = queue /\ closed' = closed
  BY DEF NotifyOne
<1>2. CASE Sleeping(S) = {} /\ pc' = [pc EXCEPT ![t] = "idle"]
  <2>1. t \in (Producers \cup Consumers) \ S
    BY Disjoint
  <2> QED
    BY <1>1, <1>2, <2>1, NotifyNobodyInv
<1>3. ASSUME NEW u \in At(S, "waiting"), pc' = [pc EXCEPT ![t] = "idle", ![u] = "woken"]
      PROVE  QInv'
  <2>1. u \in S /\ pc[u] = "waiting"
    BY DEF At
  <2> QED
    BY <1>1, <1>3, <2>1, WakeOneInv
<1> QED
  BY <1>2, <1>3 DEF NotifyOne, Go, Sleeping

-----------------------------------------------------------------------------
(* close *)

LEMMA CloseInv ==
  ASSUME QInv, TypeOK', NEW k \in Closers, Close(k)
  PROVE  QInv'
<1>1. /\ pc' = [pc EXCEPT ![k] = "waking consumers"]
      /\ queue' = queue /\ closed' = TRUE
  BY DEF Close, Go
<1>2. k \in Threads /\ k \notin Producers /\ k \notin Consumers
  BY QueueAssumption DEF Threads
<1>3. \A S \in {Producers, Consumers} :
        /\ Sleeping(S)' = Sleeping(S)
        /\ Notifying(S)' = Notifying(S)
        /\ Woken(S)' = Woken(S)
  BY <1>1, <1>2, OtherSideStays
<1>4. pc'[k] = "waking consumers"
  BY <1>1, <1>2 DEF QInv, TypeOK
<1>5. CloseReachesEveryone'
  BY <1>4 DEF CloseReachesEveryone, At
<1>6. ConsumersNotForgotten'
  BY <1>1, <1>3, CountsMean, CountsMeanNext DEF QInv
<1>7. ProducersNotForgotten'
  BY <1>1 DEF ProducersNotForgotten
<1> QED
  BY <1>5, <1>6, <1>7 DEF QInv

\* A notify_all empties one condition variable and leaves the other alone.
LEMMA NotifyAllSets ==
  ASSUME QInv, NEW S \in {Producers, Consumers}, NEW R \in {Producers, Consumers},
         S # R, NEW k \in Closers, NEW next \in Places \ {"waiting"},
         NotifyAll(k, S, next)
  PROVE  /\ Sleeping(S)' = {}
         /\ Sleeping(R)' = Sleeping(R)
         /\ Woken(R)' = Woken(R)
         /\ Notifying(S)' = Notifying(S) /\ Notifying(R)' = Notifying(R)
         /\ pc'[k] = next
         /\ \A j \in Closers \ {k} : pc'[j] = pc[j]
<1>1. /\ k \in Threads /\ S \subseteq Threads /\ R \subseteq Threads
      /\ k \notin S /\ k \notin R /\ Closers \subseteq Threads
      /\ S \cap R = {} /\ Closers \cap S = {}
  BY QueueAssumption DEF Threads
<1>2. \A u \in Threads :
        pc'[u] = IF u = k THEN next
                 ELSE IF u \in S /\ pc[u] = "waiting" THEN "woken" ELSE pc[u]
  BY DEF NotifyAll, At
<1>3. Sleeping(S)' = {}
  BY <1>1, <1>2 DEF Sleeping, At
<1>4. /\ At(R, "waiting")' = At(R, "waiting")
      /\ At(R, "woken")' = At(R, "woken")
      /\ At(R, "notifying")' = At(R, "notifying")
  BY <1>1, <1>2 DEF At
<1>5. At(S, "notifying")' = At(S, "notifying")
  BY <1>1, <1>2 DEF At
<1>6. pc'[k] = next /\ \A j \in Closers \ {k} : pc'[j] = pc[j]
  BY <1>1, <1>2
<1> QED
  BY <1>3, <1>4, <1>5, <1>6 DEF Sleeping, Woken, Notifying

LEMMA CloseWakesConsumersInv ==
  ASSUME QInv, TypeOK', NEW k \in Closers, CloseWakesConsumers(k)
  PROVE  QInv'
<1>1. /\ queue' = queue /\ closed' = closed
      /\ NotifyAll(k, Consumers, "waking producers")
  BY DEF CloseWakesConsumers
<1>2. CASE Producers # Consumers
  <2>1. /\ Sleeping(Consumers)' = {}
        /\ Sleeping(Producers)' = Sleeping(Producers)
        /\ Woken(Producers)' = Woken(Producers)
        /\ Notifying(Consumers)' = Notifying(Consumers)
        /\ pc'[k] = "waking producers"
    BY <1>1, <1>2, NotifyAllSets DEF Places
  <2>2. CloseReachesEveryone'
    BY <2>1 DEF CloseReachesEveryone, Sleeping
  <2>3. ConsumersNotForgotten'
    BY <2>1, CountsMeanNext
  <2>4. ProducersNotForgotten'
    BY <1>1, <2>1, CountsMean, CountsMeanNext DEF QInv
  <2> QED
    BY <2>2, <2>3, <2>4 DEF QInv
<1>3. CASE Producers = Consumers
  <2>1. Producers = {} /\ Consumers = {}
    BY <1>3, QueueAssumption
  <2> QED
    BY <2>1 DEF QInv, ConsumersNotForgotten, ProducersNotForgotten,
                CloseReachesEveryone, At
<1> QED
  BY <1>2, <1>3

LEMMA CloseWakesProducersInv ==
  ASSUME QInv, TypeOK', NEW k \in Closers, CloseWakesProducers(k)
  PROVE  QInv'
<1>1. /\ queue' = queue /\ closed' = closed /\ pc[k] = "waking producers"
      /\ NotifyAll(k, Producers, "done")
  BY DEF CloseWakesProducers
<1>2. CASE Producers # Consumers
  <2>1. /\ Sleeping(Producers)' = {}
        /\ Sleeping(Consumers)' = Sleeping(Consumers)
        /\ Woken(Consumers)' = Woken(Consumers)
        /\ Notifying(Producers)' = Notifying(Producers)
        /\ \A j \in Closers \ {k} : pc'[j] = pc[j]
    BY <1>1, <1>2, NotifyAllSets DEF Places
  <2>2. CloseReachesEveryone'
    <3>1. At(Closers, "waking consumers") \subseteq At(Closers, "waking consumers")'
      BY <1>1, <2>1 DEF At
    <3> QED
      BY <1>1, <2>1, <3>1 DEF QInv, CloseReachesEveryone, Sleeping
  <2>3. ProducersNotForgotten'
    BY <2>1, CountsMeanNext
  <2>4. ConsumersNotForgotten'
    BY <1>1, <2>1, CountsMean, CountsMeanNext DEF QInv
  <2> QED
    BY <2>2, <2>3, <2>4 DEF QInv
<1>3. CASE Producers = Consumers
  <2>1. Producers = {} /\ Consumers = {}
    BY <1>3, QueueAssumption
  <2> QED
    BY <2>1 DEF QInv, ConsumersNotForgotten, ProducersNotForgotten,
                CloseReachesEveryone, At
<1> QED
  BY <1>2, <1>3

-----------------------------------------------------------------------------
LEMMA TypeNext == TypeOK /\ [Next]_vars => TypeOK'
<1> SUFFICES ASSUME TypeOK, [Next]_vars PROVE TypeOK'
  OBVIOUS
<1>1. ASSUME NEW p \in Producers, PushStep(p) \/ \E value \in Values : CallPush(p, value)
      PROVE  TypeOK'
  <2>1. CASE Push(p)
    <3>1. queue' \in Seq(Values) /\ Len(queue') <= Capacity
      <4>1. item[p] \in Values /\ queue \in Seq(Values)
        BY DEF TypeOK
      <4>2. Len(queue) < Capacity /\ Capacity \in Nat /\ queue' = Append(queue, item[p])
        BY <2>1, QueueAssumption DEF Push, HasRoom
      <4> QED
        BY <4>1, <4>2
    <3>2. pc' \in [Threads -> Places]
      BY <2>1 DEF Push, Go, TypeOK, Places
    <3> QED
      BY <2>1, <3>1, <3>2 DEF Push, TypeOK
  <2>2. CASE PushClosed(p) \/ PushWaits(p) \/ \E value \in Values : CallPush(p, value)
    BY <2>2 DEF PushClosed, PushWaits, CallPush, Go, TypeOK, Places
  <2>3. CASE PushNotifies(p)
    BY <2>3 DEF PushNotifies, NotifyOne, Go, TypeOK, Places
  <2> QED
    BY <1>1, <2>1, <2>2, <2>3 DEF PushStep
<1>2. ASSUME NEW c \in Consumers, PopStep(c) \/ CallPop(c)
      PROVE  TypeOK'
  <2>1. CASE Pop(c)
    <3>1. queue' \in Seq(Values) /\ Len(queue') <= Capacity
      <4>1. queue \in Seq(Values) /\ Len(queue) <= Capacity /\ Capacity \in Nat
        BY QueueAssumption DEF TypeOK
      <4>2. queue # <<>> /\ queue' = Tail(queue)
        BY <2>1 DEF Pop
      <4> QED
        BY <4>1, <4>2
    <3>2. pc' \in [Threads -> Places]
      BY <2>1 DEF Pop, Go, TypeOK, Places
    <3> QED
      BY <2>1, <3>1, <3>2 DEF Pop, TypeOK
  <2>2. CASE PopDrained(c) \/ PopWaits(c) \/ CallPop(c)
    BY <2>2 DEF PopDrained, PopWaits, CallPop, Go, TypeOK, Places
  <2>3. CASE PopNotifies(c)
    BY <2>3 DEF PopNotifies, NotifyOne, Go, TypeOK, Places
  <2> QED
    BY <1>2, <2>1, <2>2, <2>3 DEF PopStep
<1>3. ASSUME NEW k \in Closers, CloseStep(k) \/ Close(k)
      PROVE  TypeOK'
  <2>1. CASE Close(k)
    BY <2>1 DEF Close, Go, TypeOK, Places
  <2>2. CASE CloseWakesConsumers(k)
    BY <2>2 DEF CloseWakesConsumers, NotifyAll, TypeOK, Places
  <2>3. CASE CloseWakesProducers(k)
    BY <2>3 DEF CloseWakesProducers, NotifyAll, TypeOK, Places
  <2> QED
    BY <1>3, <2>1, <2>2, <2>3 DEF CloseStep
<1>4. ASSUME NEW t \in Producers \cup Consumers, SpuriousWakeup(t)
      PROVE  TypeOK'
  BY <1>4 DEF SpuriousWakeup, Go, TypeOK, Places
<1>5. CASE UNCHANGED vars
  BY <1>5 DEF vars, TypeOK
<1> QED
  BY <1>1, <1>2, <1>3, <1>4, <1>5 DEF Next

LEMMA InitInv == Init => QInv
<1> SUFFICES ASSUME Init PROVE QInv
  OBVIOUS
<1>1. TypeOK
  <2>1. queue \in Seq(Values) /\ Len(queue) = 0
    BY DEF Init
  <2>2. pc \in [Threads -> Places]
    BY DEF Init, Places
  <2>3. Len(queue) <= Capacity
    BY <2>1, QueueAssumption
  <2>4. closed \in BOOLEAN /\ item \in [Producers -> Values]
    BY DEF Init
  <2> QED
    BY <2>1, <2>2, <2>3, <2>4 DEF TypeOK
<1>2. At(Consumers, "waiting") = {} /\ At(Producers, "waiting") = {}
  BY DEF Init, At, Threads
<1> QED
  BY <1>1, <1>2
     DEF QInv, ConsumersNotForgotten, ProducersNotForgotten, CloseReachesEveryone

LEMMA NextInv == QInv /\ [Next]_vars => QInv'
<1> SUFFICES ASSUME QInv, [Next]_vars PROVE QInv'
  OBVIOUS
<1>1. TypeOK'
  BY TypeNext DEF QInv
<1>2. ASSUME NEW p \in Producers, PushStep(p)
      PROVE  QInv'
  <2>1. CASE PushNotifies(p)
    <3>1. Producers # Consumers
      BY Disjoint
    <3> QED
      BY <1>1, <2>1, <3>1, NotifyOneInv DEF PushNotifies
  <2> QED
    BY <1>1, <1>2, <2>1, PushClosedInv, PushInv, PushWaitsInv DEF PushStep
<1>3. ASSUME NEW p \in Producers, NEW value \in Values, CallPush(p, value)
      PROVE  QInv'
  BY <1>1, <1>3, CallInv DEF CallPush, Go
<1>4. ASSUME NEW c \in Consumers, PopStep(c)
      PROVE  QInv'
  <2>1. CASE PopNotifies(c)
    <3>1. Producers # Consumers
      BY Disjoint
    <3> QED
      BY <1>1, <2>1, <3>1, NotifyOneInv DEF PopNotifies
  <2> QED
    BY <1>1, <1>4, <2>1, PopInv, PopDrainedInv, PopWaitsInv DEF PopStep
<1>5. ASSUME NEW c \in Consumers, CallPop(c)
      PROVE  QInv'
  BY <1>1, <1>5, CallInv DEF CallPop, Go
<1>6. ASSUME NEW k \in Closers, CloseStep(k) \/ Close(k)
      PROVE  QInv'
  BY <1>1, <1>6, CloseInv, CloseWakesConsumersInv, CloseWakesProducersInv DEF CloseStep
<1>7. ASSUME NEW t \in Producers \cup Consumers, SpuriousWakeup(t)
      PROVE  QInv'
  BY <1>1, <1>7, SpuriousInv
<1>8. CASE UNCHANGED vars
  BY <1>8 DEF vars, QInv, TypeOK, ConsumersNotForgotten, ProducersNotForgotten,
              CloseReachesEveryone, At
<1> QED
  BY <1>2, <1>3, <1>4, <1>5, <1>6, <1>7, <1>8 DEF Next

(* The queue stays within its capacity and no wakeup is lost.              *)
THEOREM Invariance == Spec => []QInv
  BY InitInv, NextInv, PTL DEF Spec

(* Type correctness: the queue never outgrows its capacity.                *)
THEOREM TypeCorrect == Spec => []TypeOK
  BY Invariance, PTL DEF QInv

(* While a consumer sleeps, each item queued has somebody on the way.      *)
THEOREM NoConsumerForgotten == Spec => []ConsumersNotForgotten
  BY Invariance, PTL DEF QInv

(* While a producer sleeps by an open queue, each place has somebody on    *)
(* the way.                                                                *)
THEOREM NoProducerForgotten == Spec => []ProducersNotForgotten
  BY Invariance, PTL DEF QInv

(* Nobody sleeps by a closed queue without a notify_all to come.           *)
THEOREM CloseNotifiesAll == Spec => []CloseReachesEveryone
  BY Invariance, PTL DEF QInv

-----------------------------------------------------------------------------
(* The queue implements the channel. *)
Dismissed == At(Producers \cup Consumers, "done")

LEMMA DismissedStays ==
  ASSUME TypeOK, NEW t \in Threads, NEW y,
         pc' = [pc EXCEPT ![t] = y],
         t \notin Producers \cup Consumers \/ (pc[t] # "done" /\ y # "done")
  PROVE  Dismissed' = Dismissed
  BY DEF TypeOK, Threads, Dismissed, At

LEMMA DismissedGrows ==
  ASSUME TypeOK, NEW t \in Producers \cup Consumers, pc' = [pc EXCEPT ![t] = "done"]
  PROVE  Dismissed' = Dismissed \cup {t}
  BY DEF TypeOK, Threads, Dismissed, At

LEMMA NotifyChannel ==
  ASSUME TypeOK, NEW t \in Producers \cup Consumers,
         NEW S \in {Producers, Consumers}, NotifyOne(t, S)
  PROVE  UNCHANGED <<queue, closed, Dismissed>>
<1>1. /\ queue' = queue /\ closed' = closed
      /\ pc[t] = "notifying" /\ t \in Threads
  BY DEF NotifyOne, Threads
<1>2. CASE pc' = [pc EXCEPT ![t] = "idle"]
  BY <1>1, <1>2, DismissedStays
<1>3. ASSUME NEW u \in At(S, "waiting"), pc' = [pc EXCEPT ![t] = "idle", ![u] = "woken"]
      PROVE  Dismissed' = Dismissed
  <2>1. u \in Threads /\ pc[u] = "waiting"
    BY DEF At, Threads
  <2>2. \A v \in Threads :
          pc'[v] = IF v = t THEN "idle" ELSE IF v = u THEN "woken" ELSE pc[v]
    BY <1>1, <1>3, <2>1 DEF TypeOK
  <2>3. \A v \in Threads : pc'[v] = "done" <=> pc[v] = "done"
    BY <1>1, <2>1, <2>2
  <2> QED
    BY <2>3 DEF Dismissed, At, Threads
<1> QED
  BY <1>1, <1>2, <1>3 DEF NotifyOne, Go

LEMMA NotifyAllChannel ==
  ASSUME TypeOK, NEW k \in Closers, NEW S \in {Producers, Consumers}, NEW next,
         NotifyAll(k, S, next)
  PROVE  Dismissed' = Dismissed
<1>1. k \notin Producers \cup Consumers
  BY QueueAssumption
<1>2. \A u \in Producers \cup Consumers : pc'[u] = "done" <=> pc[u] = "done"
  BY <1>1 DEF NotifyAll, At, Threads
<1> QED
  BY <1>2 DEF Dismissed, At

LEMMA InitChannel == Init => Promise!Init
  BY DEF Init, Promise!Init, At, Threads

LEMMA NextChannel == TypeOK /\ [Next]_vars => [Promise!Next]_(Promise!vars)
<1> SUFFICES ASSUME TypeOK, [Next]_vars
             PROVE  Promise!Next \/ UNCHANGED Promise!vars
  OBVIOUS
<1>0. UNCHANGED <<queue, closed, Dismissed>> => UNCHANGED Promise!vars
  BY DEF Promise!vars, Dismissed
<1>1. ASSUME NEW p \in Producers, Push(p)
      PROVE  Promise!Next
  <2>1. Dismissed' = Dismissed
    BY <1>1, DismissedStays DEF Push, Testing, Go, Threads
  <2>2. Promise!Send(item[p])
    BY <1>1, <2>1 DEF Push, HasRoom, Promise!Send, Dismissed
  <2>3. item[p] \in Values
    BY DEF TypeOK
  <2> QED
    BY <2>2, <2>3 DEF Promise!Next
<1>2. ASSUME NEW c \in Consumers, Pop(c)
      PROVE  Promise!Next
  <2>1. Dismissed' = Dismissed
    BY <1>2, DismissedStays DEF Pop, Testing, Go, Threads
  <2>2. Promise!Receive
    BY <1>2, <2>1 DEF Pop, Promise!Receive, Dismissed
  <2> QED
    BY <2>2 DEF Promise!Next
<1>3. ASSUME NEW p \in Producers, PushClosed(p)
      PROVE  Promise!Next
  <2>1. Dismissed' = Dismissed \cup {p}
    BY <1>3, DismissedGrows DEF PushClosed, Go
  <2>2. p \notin Consumers
    BY QueueAssumption
  <2>3. Promise!Dismiss(p)
    BY <1>3, <2>1, <2>2 DEF PushClosed, Promise!Dismiss, Dismissed
  <2> QED
    BY <2>3 DEF Promise!Next
<1>4. ASSUME NEW c \in Consumers, PopDrained(c)
      PROVE  Promise!Next
  <2>1. Dismissed' = Dismissed \cup {c}
    BY <1>4, DismissedGrows DEF PopDrained, Go
  <2>2. Promise!Dismiss(c)
    BY <1>4, <2>1 DEF PopDrained, Promise!Dismiss, Dismissed
  <2> QED
    BY <2>2 DEF Promise!Next
<1>5. ASSUME NEW k \in Closers, Close(k)
      PROVE  Promise!Next
  <2>1. k \in Threads /\ k \notin Producers \cup Consumers
    BY QueueAssumption DEF Threads
  <2>2. Dismissed' = Dismissed
    BY <1>5, <2>1, DismissedStays DEF Close, Go
  <2>3. Promise!Close
    BY <1>5, <2>2 DEF Close, Promise!Close, Dismissed
  <2> QED
    BY <2>3 DEF Promise!Next
<1>6. ASSUME NEW t \in Producers \cup Consumers,
             \/ \E value \in Values : CallPush(t, value)
             \/ PushWaits(t) \/ PopWaits(t) \/ CallPop(t) \/ SpuriousWakeup(t)
      PROVE  UNCHANGED Promise!vars
  <2>1. t \in Threads
    BY DEF Threads
  <2>2. Dismissed' = Dismissed
    BY <1>6, <2>1, DismissedStays
       DEF CallPush, PushWaits, PopWaits, CallPop, SpuriousWakeup, Testing, Go
  <2>3. queue' = queue /\ closed' = closed
    BY <1>6 DEF CallPush, PushWaits, PopWaits, CallPop, SpuriousWakeup
  <2> QED
    BY <1>0, <2>2, <2>3
<1>7. ASSUME NEW t \in Producers \cup Consumers, PushNotifies(t) \/ PopNotifies(t)
      PROVE  UNCHANGED Promise!vars
  BY <1>0, <1>7, NotifyChannel DEF PushNotifies, PopNotifies
<1>8. ASSUME NEW k \in Closers, CloseStep(k)
      PROVE  UNCHANGED Promise!vars
  BY <1>0, <1>8, NotifyAllChannel
     DEF CloseStep, CloseWakesConsumers, CloseWakesProducers
<1>9. CASE UNCHANGED vars
  BY <1>0, <1>9 DEF vars, Dismissed, At
<1> QED
  BY <1>1, <1>2, <1>3, <1>4, <1>5, <1>6, <1>7, <1>8, <1>9 DEF Next, PushStep, PopStep

(* For its callers the queue is a bounded first-in first-out channel: the  *)
(* mutex, the two condition variables and the wakeups do not show.         *)
THEOREM QueueImplementsChannel == Spec => ImplementsChannel
<1>1. Init => Promise!Init
  BY InitChannel
<1>2. TypeOK /\ [Next]_vars => [Promise!Next]_(Promise!vars)
  BY NextChannel
<1>3. Spec => []TypeOK
  BY TypeCorrect
<1> QED
  BY <1>1, <1>2, <1>3, PTL DEF Spec, Promise!Spec, ImplementsChannel
=============================================================================
