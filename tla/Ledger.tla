------------------------------- MODULE Ledger ------------------------------
(***************************************************************************)
(* What a replay promises about money: an account somebody could have      *)
(* held.  One symbol is quoted at a time, and at most one trade follows,   *)
(* in that symbol, for whole shares, at that quote, paid in full from the  *)
(* cash at hand, and never selling more than is owned.                     *)
(***************************************************************************)
EXTENDS Integers

CONSTANTS Symbols, Prices, StartingCash

VARIABLES cash, shares, quote

vars == <<cash, shares, quote>>

Init ==
    /\ cash = StartingCash
    /\ shares = [s \in Symbols |-> 0]
    /\ quote \in [Symbols -> {-1}]

Quoted(s, price) == quote' = [quote EXCEPT ![s] = price]

Buy(s, price) ==
    \E n \in 1..cash :        \* a share costs at least a tick
        /\ n * price <= cash
        /\ cash' = cash - n * price
        /\ shares' = [shares EXCEPT ![s] = @ + n]

Sell(s, price) ==
    \E n \in 1..shares[s] :
        /\ cash' = cash + n * price
        /\ shares' = [shares EXCEPT ![s] = @ - n]

Keep == UNCHANGED <<cash, shares>>

Next ==
    \E s \in Symbols, price \in Prices :
        /\ Quoted(s, price)
        /\ Buy(s, price) \/ Sell(s, price) \/ Keep

Spec == Init /\ [][Next]_vars
=============================================================================
