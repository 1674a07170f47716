------------------------------ MODULE Channel -------------------------------
(***************************************************************************)
(* What BoundedQueue promises its callers: a first-in first-out channel of *)
(* bounded length that can be closed.  A producer is sent away only by a   *)
(* closed channel, a consumer only by one that is closed and drained, and  *)
(* nothing enters a closed channel.                                        *)
(***************************************************************************)
EXTENDS Naturals, Sequences

CONSTANTS Producers, Consumers, Values, Capacity

VARIABLES contents, closed, dismissed

vars == <<contents, closed, dismissed>>

Init ==
    /\ contents = <<>>
    /\ closed = FALSE
    /\ dismissed = {}

Send(value) ==
    /\ ~closed
    /\ Len(contents) < Capacity
    /\ contents' = Append(contents, value)
    /\ UNCHANGED <<closed, dismissed>>

Receive ==
    /\ contents # <<>>
    /\ contents' = Tail(contents)
    /\ UNCHANGED <<closed, dismissed>>

Close ==
    /\ closed' = TRUE
    /\ UNCHANGED <<contents, dismissed>>

Dismiss(t) ==
    /\ closed
    /\ t \in Consumers => contents = <<>>
    /\ dismissed' = dismissed \cup {t}
    /\ UNCHANGED <<contents, closed>>

Next ==
    \/ \E value \in Values : Send(value)
    \/ Receive
    \/ Close
    \/ \E t \in Producers \cup Consumers : Dismiss(t)

Spec == Init /\ [][Next]_vars
=============================================================================
