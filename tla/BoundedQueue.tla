---------------------------- MODULE BoundedQueue ----------------------------
(***************************************************************************)
(* The hand-off between threads: include/quantiq/queue.hpp.                *)
(*                                                                         *)
(* A call is made of its critical sections, one action each.  A thread at  *)
(* "calling" or "woken" is about to take the mutex and test its predicate; *)
(* testing and waiting, or testing and changing the queue, are one step,   *)
(* because the mutex is held from one to the other.  notify_one comes      *)
(* after the unlock and is a step of its own, so other threads run between *)
(* a push and its notification.  A condition variable is the set of        *)
(* threads at "waiting" on it; a notification moves any one of them to     *)
(* "woken", and a spurious wakeup does so for no reason.                   *)
(*                                                                         *)
(* A thread whose push returned false or whose pop returned nullopt is     *)
(* "done": both callers in the program leave their loop on it.             *)
(***************************************************************************)
EXTENDS Naturals, Sequences, FiniteSets

CONSTANTS Producers, Consumers, Closers,   \* the threads
          Values,                          \* what is handed over
          Capacity

ASSUME QueueAssumption ==
    /\ IsFiniteSet(Producers) /\ IsFiniteSet(Consumers)
    /\ Producers \cap Consumers = {}
    /\ Closers \cap (Producers \cup Consumers) = {}
    /\ Capacity \in Nat \ {0}

VARIABLES
    queue,    \* queue_
    closed,   \* closed_
    item,     \* the argument of each producer's current push
    pc        \* where each thread is

vars == <<queue, closed, item, pc>>

Threads == Producers \cup Consumers \cup Closers

Places == {"idle", "calling", "waiting", "woken", "notifying", "done",
           "waking consumers", "waking producers"}

At(S, where) == {t \in S : pc[t] = where}

Init ==
    /\ queue = <<>>
    /\ closed = FALSE
    /\ item \in [Producers -> Values]
    /\ pc = [t \in Threads |-> "idle"]

Go(t, where) == pc' = [pc EXCEPT ![t] = where]

\* About to take the mutex and test the predicate of the wait.
Testing(t) == pc[t] \in {"calling", "woken"}

\* notify_one on the condition variable S waits on, by thread t.
NotifyOne(t, S) ==
    /\ pc[t] = "notifying"
    /\ \/ \E u \in At(S, "waiting") :
             pc' = [pc EXCEPT ![t] = "idle", ![u] = "woken"]
       \/ At(S, "waiting") = {} /\ Go(t, "idle")
    /\ UNCHANGED <<queue, closed, item>>

\* notify_all on the condition variable S waits on; t goes on to `next`.
NotifyAll(t, S, next) ==
    pc' = [u \in Threads |->
              IF u = t THEN next
              ELSE IF u \in At(S, "waiting") THEN "woken" ELSE pc[u]]

SpuriousWakeup(t) ==
    /\ pc[t] = "waiting"
    /\ Go(t, "woken")
    /\ UNCHANGED <<queue, closed, item>>

\* Fault: the bound off by one.
RoomOffByOne == Len(queue) <= Capacity

HasRoom == Len(queue) < Capacity

-----------------------------------------------------------------------------
(* push *)

CallPush(p, value) ==
    /\ pc[p] = "idle"
    /\ item' = [item EXCEPT ![p] = value]
    /\ Go(p, "calling")
    /\ UNCHANGED <<queue, closed>>

PushClosed(p) ==
    /\ Testing(p)
    /\ closed
    /\ Go(p, "done")
    /\ UNCHANGED <<queue, closed, item>>

Push(p) ==
    /\ Testing(p)
    /\ ~closed
    /\ HasRoom
    /\ queue' = Append(queue, item[p])
    /\ Go(p, "notifying")
    /\ UNCHANGED <<closed, item>>

PushWaits(p) ==
    /\ Testing(p)
    /\ ~closed
    /\ ~HasRoom
    /\ Go(p, "waiting")
    /\ UNCHANGED <<queue, closed, item>>

\* Fault: the wrong condition variable.
PushNotifiesProducers(p) == NotifyOne(p, Producers)

PushNotifies(p) == NotifyOne(p, Consumers)

-----------------------------------------------------------------------------
(* pop *)

CallPop(c) ==
    /\ pc[c] = "idle"
    /\ Go(c, "calling")
    /\ UNCHANGED <<queue, closed, item>>

\* Fault: a place is announced only when the queue was full.
PopFromFull(c) ==
    /\ Testing(c)
    /\ queue # <<>>
    /\ queue' = Tail(queue)
    /\ Go(c, IF HasRoom THEN "idle" ELSE "notifying")
    /\ UNCHANGED <<closed, item>>

\* Fault: the newest item first.
PopNewest(c) ==
    /\ Testing(c)
    /\ queue # <<>>
    /\ queue' = SubSeq(queue, 1, Len(queue) - 1)
    /\ Go(c, "notifying")
    /\ UNCHANGED <<closed, item>>

Pop(c) ==
    /\ Testing(c)
    /\ queue # <<>>
    /\ queue' = Tail(queue)
    /\ Go(c, "notifying")
    /\ UNCHANGED <<closed, item>>

PopDrained(c) ==
    /\ Testing(c)
    /\ queue = <<>>
    /\ closed
    /\ Go(c, "done")
    /\ UNCHANGED <<queue, closed, item>>

PopWaits(c) ==
    /\ Testing(c)
    /\ queue = <<>>
    /\ ~closed
    /\ Go(c, "waiting")
    /\ UNCHANGED <<queue, closed, item>>

\* Fault: the wrong condition variable.
PopNotifiesConsumers(c) == NotifyOne(c, Consumers)

PopNotifies(c) == NotifyOne(c, Producers)

-----------------------------------------------------------------------------
(* close *)

Close(k) ==
    /\ pc[k] = "idle"
    /\ closed' = TRUE
    /\ Go(k, "waking consumers")
    /\ UNCHANGED <<queue, item>>

\* Fault: only one of the two condition variables is notified.
CloseForgetsProducers(k) ==
    /\ pc[k] = "waking consumers"
    /\ NotifyAll(k, Consumers, "done")
    /\ UNCHANGED <<queue, closed, item>>

\* Fault: the other one.
CloseForgetsConsumers(k) ==
    /\ pc[k] = "waking consumers"
    /\ Go(k, "waking producers")
    /\ UNCHANGED <<queue, closed, item>>

CloseWakesConsumers(k) ==
    /\ pc[k] = "waking consumers"
    /\ NotifyAll(k, Consumers, "waking producers")
    /\ UNCHANGED <<queue, closed, item>>

CloseWakesProducers(k) ==
    /\ pc[k] = "waking producers"
    /\ NotifyAll(k, Producers, "done")
    /\ UNCHANGED <<queue, closed, item>>

-----------------------------------------------------------------------------
\* What a thread inside a call does next.
PushStep(p) == PushClosed(p) \/ Push(p) \/ PushWaits(p) \/ PushNotifies(p)
PopStep(c) == Pop(c) \/ PopDrained(c) \/ PopWaits(c) \/ PopNotifies(c)
CloseStep(k) == CloseWakesConsumers(k) \/ CloseWakesProducers(k)

Next ==
    \/ \E p \in Producers : PushStep(p) \/ \E value \in Values : CallPush(p, value)
    \/ \E c \in Consumers : PopStep(c) \/ CallPop(c)
    \/ \E k \in Closers : CloseStep(k) \/ Close(k)
    \/ \E t \in Producers \cup Consumers : SpuriousWakeup(t)

\* A thread inside a call is scheduled and gets the mutex eventually.  Nobody
\* has to call anything, and a spurious wakeup never has to happen.
Fairness ==
    /\ \A p \in Producers : WF_vars(PushStep(p))
    /\ \A c \in Consumers : WF_vars(PopStep(c))
    /\ \A k \in Closers : WF_vars(CloseStep(k))

Spec == Init /\ [][Next]_vars
FairSpec == Spec /\ Fairness

-----------------------------------------------------------------------------
TypeOK ==
    /\ queue \in Seq(Values) /\ Len(queue) <= Capacity
    /\ closed \in BOOLEAN
    /\ item \in [Producers -> Values]
    /\ pc \in [Threads -> Places]

(* The predicate is tested again after every wakeup and notifications come *)
(* after the unlock, so a wakeup can be stolen or can come late.  None is  *)
(* lost: while a consumer waits, every item in the queue has a producer    *)
(* about to notify for it or a woken consumer about to come for it.        *)
ConsumersNotForgotten ==
    At(Consumers, "waiting") # {} =>
        Len(queue) <= Cardinality(At(Producers, "notifying"))
                      + Cardinality(At(Consumers, "woken"))

(* The same of producers and free places, until the queue is closed.       *)
ProducersNotForgotten ==
    ~closed /\ At(Producers, "waiting") # {} =>
        Capacity <= Len(queue) + Cardinality(At(Consumers, "notifying"))
                               + Cardinality(At(Producers, "woken"))

(* A thread still asleep in a closed queue has its notify_all to come.     *)
CloseReachesEveryone ==
    closed =>
        /\ At(Consumers, "waiting") # {} => At(Closers, "waking consumers") # {}
        /\ At(Producers, "waiting") # {} =>
              \E k \in Closers : pc[k] \in {"waking consumers", "waking producers"}

(* "close() is what lets a consumer exit cleanly": once it is closed, a    *)
(* queue holds nobody inside a call for good.                              *)
Inside == {t \in Producers \cup Consumers : pc[t] \notin {"idle", "done"}}

CloseFrees == \A t \in Producers \cup Consumers : closed ~> t \notin Inside

(* An item and a sleeping consumer do not sit side by side for good: some  *)
(* consumer takes an item.  The same of a free place and a producer.       *)
SleepersAreServed ==
    /\ queue # <<>> /\ At(Consumers, "waiting") # {}
           ~> At(Consumers, "notifying") # {}
    /\ Len(queue) < Capacity /\ At(Producers, "waiting") # {}
           ~> closed \/ At(Producers, "notifying") # {}

(* The queue implements the channel.                                       *)
Promise == INSTANCE Channel WITH contents <- queue,
                                 dismissed <- At(Producers \cup Consumers, "done")

ImplementsChannel == Promise!Spec
=============================================================================
