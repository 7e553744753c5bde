------------------------------- MODULE Ledger -------------------------------
(***************************************************************************)
(* What a bridge promises: balances on every chain, and transfers on their *)
(* way.  A transfer leaves one account, is under way, and arrives once, at *)
(* the account and with the amount it was sent with; it may take any time. *)
(* Everything else that changes a balance is local to one chain.           *)
(***************************************************************************)
EXTENDS Integers, Bags

CONSTANTS Chains, Holders, Amounts

VARIABLES
    balance,            \* [Chains -> [Holders -> Nat]]
    flight              \* the bag of transfers under way

vars == <<balance, flight>>

Transfers == [src: Chains, dst: Chains, to: Holders, amount: Amounts]

Init == /\ balance = [c \in Chains |-> [h \in Holders |-> 0]]
        /\ flight = EmptyBag

Depart(t, from) ==
    /\ t.src # t.dst
    /\ t.amount <= balance[t.src][from]
    /\ balance' = [balance EXCEPT ![t.src][from] = @ - t.amount]
    /\ flight' = flight (+) SetToBag({t})

Arrive(t) ==
    /\ BagIn(t, flight)
    /\ balance' = [balance EXCEPT ![t.dst][t.to] = @ + t.amount]
    /\ flight' = flight (-) SetToBag({t})

(* A local issue or redemption, and a payment.                             *)
Issue(c, h, n) ==
    balance' = [balance EXCEPT ![c][h] = @ + n] /\ UNCHANGED flight
Redeem(c, h, n) ==
    /\ n <= balance[c][h]
    /\ balance' = [balance EXCEPT ![c][h] = @ - n] /\ UNCHANGED flight
Pay(c, from, to, n) ==
    /\ n <= balance[c][from]
    /\ balance' = [balance EXCEPT ![c][from] = @ - n, ![c][to] = @ + n]
    /\ UNCHANGED flight

Next == \/ \E t \in Transfers, from \in Holders : Depart(t, from)
        \/ \E t \in Transfers : Arrive(t)
        \/ \E c \in Chains, h \in Holders, n \in Amounts : Issue(c, h, n) \/ Redeem(c, h, n)
        \/ \E c \in Chains, from, to \in Holders, n \in Amounts : Pay(c, from, to, n)

Spec == Init /\ [][Next]_vars

=============================================================================
