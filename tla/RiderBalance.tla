---------------------------- MODULE RiderBalance ----------------------------
(***************************************************************************)
(* What a rider is promised (src/server/rider-wallet/transfers.ts, header):*)
(* a payout takes its amount out of the unpaid balance once; from then on  *)
(* the money is either on its way, paid, or back in the balance, whole and *)
(* once.  No payout is paid after it went back.  RiderTransfers implements *)
(* this.                                                                   *)
(***************************************************************************)
EXTENDS Integers

CONSTANTS
  Payouts, \* payouts to the rider
  Values   \* what one delivery can earn: integers (a COD debt is negative)

VARIABLES
  balance, \* earned and in no payout
  payout   \* each payout's amount and where its money is

vars == <<balance, payout>>

Init ==
  /\ balance = 0
  /\ payout = [p \in Payouts |-> [amount |-> 0, money |-> "none"]]

Earn(v) ==
  /\ balance' = balance + v
  /\ UNCHANGED payout

\* A payout takes its amount out of the balance, before the bank is called.
Take(p, amount) ==
  /\ payout[p].money = "none"
  /\ amount > 0
  /\ balance' = balance - amount
  /\ payout' = [payout EXCEPT ![p] = [amount |-> amount, money |-> "on its way"]]

Pay(p) ==
  /\ payout[p].money = "on its way"
  /\ payout' = [payout EXCEPT ![p].money = "paid"]
  /\ UNCHANGED balance

\* Refused, released by finance, or returned by the bank.
GiveBack(p) ==
  /\ payout[p].money \in {"on its way", "paid"}
  /\ balance' = balance + payout[p].amount
  /\ payout' = [payout EXCEPT ![p].money = "back"]

Next ==
  \/ \E v \in Values : Earn(v)
  \/ \E p \in Payouts : \/ Pay(p) \/ GiveBack(p)
                        \/ Take(p, payout'[p].amount)

Spec == Init /\ [][Next]_vars
=============================================================================
