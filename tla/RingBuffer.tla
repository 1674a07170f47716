----------------------------- MODULE RingBuffer ----------------------------
(***************************************************************************)
(* The rolling window the indicators share                                 *)
(* (include/quantiq/ringbuffer.hpp): an array that is written round and    *)
(* round and read by age, the newest value first.                          *)
(***************************************************************************)
EXTENDS Integers

CONSTANT Capacity      \* N

ASSUME RingAssumption == Capacity \in Nat \ {0}

Slots == 0 .. Capacity - 1

Ring == [data : [Slots -> Int], head : Slots, size : 0 .. Capacity]

\* data_{} is zeroes, and head_ starts one before the first slot.
EmptyRing == [data |-> [i \in Slots |-> 0], head |-> Capacity - 1, size |-> 0]

\* Fault: the size counts on past the capacity.
GrownAlways(size) == size + 1

Grown(size) == IF size < Capacity THEN size + 1 ELSE size

\* Fault: the value is written before the head moves on.
PushInPlace(ring, value) ==
    [data |-> [ring.data EXCEPT ![ring.head] = value],
     head |-> (ring.head + 1) % Capacity,
     size |-> Grown(ring.size)]

Push(ring, value) ==
    LET head == (ring.head + 1) % Capacity
    IN  [data |-> [ring.data EXCEPT ![head] = value],
         head |-> head,
         size |-> Grown(ring.size)]

\* operator[].  It throws for an age that is not below the size.
At(ring, age) == ring.data[(ring.head + Capacity - age) % Capacity]
=============================================================================
