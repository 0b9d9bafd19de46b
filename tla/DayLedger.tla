----------------------------- MODULE DayLedger ------------------------------
(***************************************************************************)
(* What the daily orders of a subscription promise                         *)
(* (src/server/services/subscriptions.ts, header): a delivery day is paid  *)
(* from the wallet at most once and takes one unit off the shelf when it   *)
(* is; a day that is not paid costs nothing; a paid day that is cancelled  *)
(* gives both back, once.  DailyOrders implements this.  The shelf may go  *)
(* below zero here: DailyOrders counts units that do not exist apart.      *)
(***************************************************************************)
EXTENDS Integers

CONSTANT Days

VARIABLES
  balance, \* the wallet, in deliveries
  stock,   \* units on the online shelf
  day      \* each delivery day: OPEN, PAID or BACK

Init ==
  /\ balance \in Nat
  /\ stock \in Nat
  /\ day = [d \in Days |-> "OPEN"]

Pay(d) ==
  /\ day[d] = "OPEN"
  /\ balance > 0 /\ balance' = balance - 1
  /\ stock' = stock - 1
  /\ day' = [day EXCEPT ![d] = "PAID"]

GiveBack(d) ==
  /\ day[d] = "PAID"
  /\ balance' = balance + 1
  /\ stock' = stock + 1
  /\ day' = [day EXCEPT ![d] = "BACK"]

TopUp == balance' = balance + 1 /\ UNCHANGED <<stock, day>>

Restock == stock' = stock + 1 /\ UNCHANGED <<balance, day>>

Next ==
  \/ \E d \in Days : Pay(d) \/ GiveBack(d)
  \/ TopUp
  \/ Restock

Spec == Init /\ [][Next]_<<balance, stock, day>>
=============================================================================
