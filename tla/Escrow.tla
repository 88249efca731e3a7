------------------------------- MODULE Escrow -------------------------------
(***************************************************************************)
(* What the peer-to-peer market promises about money: the amount of a deal *)
(* leaves the seller's purse when the deal is opened and afterwards moves  *)
(* exactly once, in full, either to a buyer who is not the seller or back. *)
(***************************************************************************)
EXTENDS Integers, FiniteSets, Functions

CONSTANTS
  Trades,    \* deals that may be made
  Accounts,  \* purses
  Amounts,   \* amounts a deal may be about
  Funds      \* what each purse holds at the start

VARIABLES
  purse,     \* money each account can use
  deal       \* state, seller and amount of each deal

escrowVars == <<purse, deal>>

Init ==
  /\ purse = Funds
  /\ deal = [t \in Trades |-> [state |-> "none", seller |-> "nobody", amount |-> 0]]

\* The seller puts the amount into escrow.
Open(t, a, n) ==
  /\ deal[t].state = "none" /\ purse[a] >= n
  /\ deal' = [deal EXCEPT ![t] = [state |-> "held", seller |-> a, amount |-> n]]
  /\ purse' = [purse EXCEPT ![a] = @ - n]

\* The buyer gets it.
Deliver(t, b) ==
  /\ deal[t].state = "held" /\ b # deal[t].seller
  /\ deal' = [deal EXCEPT ![t].state = "delivered"]
  /\ purse' = [purse EXCEPT ![b] = @ + deal[t].amount]

\* The sellers of ts get it back.
GiveBack(ts) ==
  /\ ts # {} /\ \A t \in ts : deal[t].state = "held"
  /\ deal' = [t \in Trades |-> IF t \in ts THEN [deal[t] EXCEPT !.state = "returned"] ELSE deal[t]]
  /\ purse' = [a \in Accounts |->
                 purse[a] + SumFunctionOnSet([t \in Trades |-> deal[t].amount], {t \in ts : deal[t].seller = a})]

Next ==
  \/ \E t \in Trades, a \in Accounts, n \in Amounts : Open(t, a, n)
  \/ \E t \in Trades, b \in Accounts : Deliver(t, b)
  \/ \E ts \in SUBSET Trades : GiveBack(ts)

Spec == Init /\ [][Next]_escrowVars
=============================================================================
