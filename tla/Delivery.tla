------------------------------ MODULE Delivery ------------------------------
(***************************************************************************)
(* An order from READY to its end: Dispatch, and the drop.  The rider      *)
(* picks the order up, starts the drop (the customer gets a code), enters  *)
(* the code; wrong codes are counted and lock the drop; operations may     *)
(* confirm it; it may fail and be sent out again; the order may be         *)
(* cancelled at any point: delivery-assignment.ts, delivery-otp.ts,        *)
(* orders.ts (status changes and cancellation), delivery-earnings.ts,      *)
(* cod.ts.                                                                 *)
(***************************************************************************)
EXTENDS Dispatch

CONSTANTS
  MaxTries,   \* rule deliveryOtp.maxAttempts
  MaxResends, \* rule deliveryOtp.maxResends
  MaxRequests \* bound: riders' requests under way at once, codes included

ASSUME DropAssumption == /\ MaxTries \in Nat \ {0} /\ MaxResends \in Nat
                         /\ MaxRequests \in Nat

VARIABLES
  drop,    \* the drop's columns of the delivery row
  earned,  \* the rider has an earning for the row
  cash     \* who collected a COD order's cash: NOBODY, RIDER, SHOP

\* What dispatching leaves alone.
dropVars == <<drop, earned, cash, cancelling>>
vars == <<order, plan, delivery, broadcast, search, requests, task, deeds, dropVars>>

\* code: the number of the customer's latest code, 0 for none.
NewDrop == [started |-> FALSE, code |-> 0, tries |-> 0, locked |-> FALSE, via |-> "NONE"]

TypeOK ==
  /\ DispatchTypeOK
  /\ requests \subseteq [kind : {"reject", "pickUp", "code"}, rider : Riders,
                         code : 0..(MaxResends + 1), right : BOOLEAN]
  /\ drop \in [started : BOOLEAN, code : 0..(MaxResends + 1), tries : 0..MaxTries,
               locked : BOOLEAN, via : {"NONE", "CUSTOMER_OTP", "OPERATOR_OVERRIDE"}]
  /\ earned \in BOOLEAN
  /\ cash \in {"NOBODY", "RIDER", "SHOP"}

Init ==
  /\ DispatchInit
  /\ drop = NewDrop
  /\ earned = FALSE
  /\ cash = "NOBODY"

-----------------------------------------------------------------------------
(* The rider.                                                              *)

\* A dispatch attempt that read READY ends within its routing timeout; the
\* rider who accepted is not yet at the shop then.
AttemptsOver == \A w \in Workers : task[w].at # "assign"

\* markPickedUp: by the row's status.
PickUp(q) ==
  /\ q.kind = "pickUp"
  /\ AttemptsOver
  /\ OrderFree
  /\ delivery.status = "ACCEPTED"
  /\ order = "ASSIGNED"
  /\ order' = "PICKED_UP"
  /\ delivery' = [delivery EXCEPT !.status = "PICKED_UP", !.picked = TRUE]
  /\ requests' = requests \ {q}
  /\ UNCHANGED <<plan, broadcast, search, task, deeds, dropVars>>

\* The request finds nothing to change, or is lost.
RequestEnds(q) ==
  /\ requests' = requests \ {q}
  /\ UNCHANGED <<order, plan, delivery, broadcast, search, task, deeds, dropVars>>

\* startDelivery; a pickup or own-delivery plan refuses it
\* (assertFulfilmentAllowsStatus).
StartDelivery ==
  /\ delivery.status = "PICKED_UP"
  /\ ~drop.started
  /\ order = "PICKED_UP"
  /\ OrderFree
  /\ plan # "OWN"
  /\ order' = "OUT"
  /\ drop' = [drop EXCEPT !.started = TRUE, !.code = 1]
  /\ UNCHANGED <<plan, delivery, broadcast, search, requests, task, deeds, earned, cash,
                 cancelling>>

\* requestNewDeliveryCode: the code before stops working; wrong tries stay.
NewCode ==
  /\ delivery.status = "PICKED_UP"
  /\ drop.started
  /\ ~drop.locked
  /\ drop.code <= MaxResends
  /\ drop' = [drop EXCEPT !.code = @ + 1]
  /\ UNCHANGED <<order, plan, delivery, broadcast, search, requests, task, deeds, earned, cash,
                 cancelling>>

\* markDelivered reads the row, and checkDeliveryCode compares with what was read.
EnterCode(right) ==
  /\ delivery.status = "PICKED_UP"
  /\ drop.started
  /\ ~drop.locked
  /\ Cardinality(requests) < MaxRequests
  /\ requests' = requests \union {[kind |-> "code", rider |-> delivery.rider,
                                   code |-> drop.code, right |-> right]}
  /\ UNCHANGED <<order, plan, delivery, broadcast, search, task, deeds, dropVars>>

\* A wrong code is counted while the drop can still be tried; the try that
\* reaches the limit locks, and so does one that was not counted.
BugCounts == delivery.status = "PICKED_UP" /\ drop.tries < MaxTries + 1
Counts == delivery.status = "PICKED_UP" /\ ~drop.locked /\ drop.tries < MaxTries

WrongCode(q) ==
  LET tries == IF Counts THEN drop.tries + 1 ELSE MaxTries IN
  /\ q.kind = "code"
  /\ ~q.right
  /\ drop' = [drop EXCEPT !.tries = IF Counts THEN tries ELSE @,
                          !.locked = @ \/ tries = MaxTries]
  /\ requests' = requests \ {q}
  /\ UNCHANGED <<order, plan, delivery, broadcast, search, task, deeds, earned, cash,
                 cancelling>>

\* The order's DELIVERED (updateOrderStatus): the cash is the rider's when the
\* row is DELIVERED by then.
Delivered(d) ==
  /\ OrderFree
  /\ order' = "DELIVERED"
  /\ cash' = IF d.status = "DELIVERED" THEN "RIDER" ELSE "SHOP"

Dropped(via) ==
  /\ delivery.status = "PICKED_UP"
  /\ plan # "OWN"
  /\ delivery' = [delivery EXCEPT !.status = "DELIVERED"]
  /\ Delivered(delivery')
  /\ drop' = [drop EXCEPT !.code = 0, !.via = via]
  /\ earned' = TRUE
  /\ UNCHANGED cancelling

\* The UPDATE of markDelivered: not locked, and the code checked is still the
\* customer's code.
BugSpends(q) == TRUE
Spends(q) == ~drop.locked /\ drop.code = q.code

RightCode(q) ==
  /\ q.kind = "code"
  /\ q.right
  /\ Spends(q)
  /\ order = "OUT"
  /\ Dropped("CUSTOMER_OTP")
  /\ requests' = requests \ {q}
  /\ UNCHANGED <<plan, broadcast, search, task, deeds>>

\* confirmDeliveryByOperator: PICKED_UP or OUT_FOR_DELIVERY, locked or not.
ConfirmByOperator ==
  /\ Dropped("OPERATOR_OVERRIDE")
  /\ UNCHANGED <<plan, broadcast, search, requests, task, deeds>>

\* markDeliveryFailed: the rider is paid for the trip.
MarkFailed ==
  /\ delivery.status = "PICKED_UP"
  /\ OrderFree
  /\ order' = "FAILED"
  /\ delivery' = [delivery EXCEPT !.status = "FAILED"]
  /\ drop' = [drop EXCEPT !.code = 0]
  /\ earned' = TRUE
  /\ UNCHANGED <<plan, broadcast, search, requests, task, deeds, cash, cancelling>>

-----------------------------------------------------------------------------
(* The shop and operations.                                                *)

\* The shop's "out for delivery": its own delivery, or an order without a
\* plan, or again after a failed drop.  The state machine lets it move a
\* picked-up order as well.
SendOut ==
  /\ \/ order = "READY" /\ plan # "PARTNER"
     \/ order \in {"PICKED_UP", "FAILED"} /\ plan # "OWN"
  /\ OrderFree
  /\ order' = "OUT"
  /\ UNCHANGED <<plan, delivery, broadcast, search, requests, task, deeds, dropVars>>

\* Delivered without a rider: by code at the counter or at the door, by the
\* shop's button, by operations.
NoRiderHolds == delivery.status \notin {"ACCEPTED", "PICKED_UP"}

HandOver ==
  /\ order \in {"READY", "OUT"}
  /\ NoRiderHolds
  /\ ~(order = "READY" /\ plan = "PARTNER")
  /\ Delivered(delivery)
  /\ UNCHANGED <<plan, delivery, broadcast, search, requests, task, deeds, drop, earned,
                 cancelling>>

\* The rider who has the goods is paid.
BugPaidFor(d) == FALSE
PaidFor(d) == d.picked

\* cancelOrder takes the order's row and reads the delivery row, which it does
\* not lock.
BeginCancel ==
  /\ OrderFree
  /\ order \notin {"DELIVERED", "CANCELLED"}
  /\ cancelling' = [open |-> TRUE, active |-> ~Inactive,
                    picked |-> ~Inactive /\ PaidFor(delivery)]
  /\ UNCHANGED <<order, plan, delivery, broadcast, search, requests, task, deeds,
                 drop, earned, cash>>

\* What it writes and commits, with closeRiderSearchForCancelledOrder: a row
\* read as active ends by its id, whatever became of it since.
Cancel ==
  /\ cancelling.open
  /\ order' = "CANCELLED"
  /\ delivery' = IF cancelling.active THEN TurnedDown("CANCELLED", {}) ELSE delivery
  /\ earned' = (earned \/ cancelling.picked)
  /\ drop' = IF cancelling.active THEN [drop EXCEPT !.code = 0] ELSE drop
  /\ search' = [search EXCEPT !.status = IF @ = "SEARCHING" THEN "STOPPED" ELSE @]
  /\ broadcast' = IF broadcast.status = "OPEN" THEN Closed("CANCELLED") ELSE broadcast
  /\ cancelling' = NoCancelling
  /\ UNCHANGED <<plan, requests, task, deeds, cash>>

\* The server stops, or a later part of the cancellation fails: it rolls back.
CancelStops ==
  /\ cancelling.open
  /\ cancelling' = NoCancelling
  /\ Deed
  /\ UNCHANGED <<order, plan, delivery, broadcast, search, requests, task, drop, earned, cash>>

-----------------------------------------------------------------------------

Next ==
  \/ DispatchNext /\ UNCHANGED dropVars
  \/ \E q \in requests : \/ PickUp(q) \/ RequestEnds(q)
                         \/ WrongCode(q) \/ RightCode(q)
  \/ StartDelivery \/ NewCode \/ ConfirmByOperator \/ MarkFailed
  \/ \E right \in BOOLEAN : EnterCode(right)
  \/ SendOut \/ HandOver
  \/ BeginCancel \/ Cancel \/ CancelStops

Spec == Init /\ [][Next]_vars

\* The dispatch and timeout sweeps keep running, each request's steps end, and
\* so does a transaction that holds the order.  Riders, the shop and operations
\* owe nothing.
FairSpec ==
  /\ Spec
  /\ WF_vars((\E w \in Workers : Look(w)) /\ UNCHANGED dropVars)
  /\ \A w \in Workers : WF_vars((Ensure(w) \/ Count(w) \/ Assign(w)) /\ UNCHANGED dropVars)
  /\ WF_vars((OfferAges \/ ExpireOffer) /\ UNCHANGED dropVars)
  /\ WF_vars((CloseBroadcast \/ WidenBroadcast \/ ExpireBroadcast) /\ UNCHANGED dropVars)
  /\ WF_vars(Cancel \/ CancelStops)
  /\ WF_vars(CloseStaleSearch /\ UNCHANGED dropVars)

-----------------------------------------------------------------------------
(* What must hold.                                                         *)

\* The order and the delivery row tell one story at every moment: a rider has
\* accepted exactly while the order is ASSIGNED, and the goods are with him
\* exactly while the row is PICKED_UP; each of acceptance, reassignment, new
\* plans, pickup, drop, failure and cancellation changes both or neither
\* (markPickedUp's comment, DEF-04).
OrderAgrees ==
  /\ order = "ASSIGNED" <=> delivery.status = "ACCEPTED"
  /\ order = "PICKED_UP" => delivery.status = "PICKED_UP"
  /\ delivery.status = "PICKED_UP" => order \in {"PICKED_UP", "OUT"}
  /\ delivery.status = "DELIVERED" => order = "DELIVERED"
  /\ order = "FAILED" => delivery.status = "FAILED"

\* Of the riders a broadcast reached at most one is told he has the order, he
\* is told so exactly when the broadcast is TAKEN; when it is over nobody is
\* left waiting for an answer, except that a broadcast closed outside a
\* transaction has recipients who wait until its second update, and for good
\* when the server stops before it (an acceptance is refused all the same).
OneWinner ==
  LET winners == {r \in Riders : broadcast.outcome[r] = "ACCEPTED"} IN
  /\ Cardinality(winners) = IF broadcast.status = "TAKEN" THEN 1 ELSE 0
  /\ broadcast.status # "OPEN" /\ (\E r \in Riders : broadcast.outcome[r] = "OFFERED") =>
       broadcast.status = "CANCELLED" /\ broadcast.closing # "NO"

\* The money follows the goods: the rider has his earning exactly when a trip
\* with the goods has ended (delivered, failed, cancelled on the way), and the
\* cash is on whoever brought the order to the customer, once it is DELIVERED.
MoneyFollowsGoods ==
  /\ earned <=> \/ delivery.status \in {"DELIVERED", "FAILED"}
                \/ delivery.status = "CANCELLED" /\ delivery.picked
  /\ cash # "NOBODY" <=> order = "DELIVERED"
  /\ cash = "RIDER" <=> delivery.status = "DELIVERED"

\* Wrong codes never exceed the limit however the tries interleave, and a drop
\* that can still be made is locked exactly when they are used up.
TriesWithinLimit ==
  delivery.status = "PICKED_UP" => (drop.locked <=> drop.tries = MaxTries)

\* A drop ends DELIVERED by the code the customer holds at that moment, on a
\* drop that is not locked, or by operations: not by a code replaced or a lock
\* set between the check and the write.
DeliveredByLiveCode ==
  [][delivery'.status = "DELIVERED" /\ delivery.status # "DELIVERED" =>
       \/ drop'.via = "OPERATOR_OVERRIDE"
       \/ ~drop.locked /\ \E q \in requests : q.right /\ q.code = drop.code]_vars

\* No late attempt displaces a rider who accepted or reopens a drop that ended:
\* the delivery row moves as DELIVERY_TRANSITIONS says (a broadcast's accept
\* goes through OFFERED inside its transaction), with one move that is not
\* registered there: a cancellation writes CANCELLED over the row of a rider
\* who declined, or let the offer lapse, after it had read the row.
Moves == {<<"NONE", "OFFERED">>, <<"OFFERED", "ACCEPTED">>, <<"OFFERED", "REJECTED">>,
          <<"OFFERED", "CANCELLED">>, <<"ACCEPTED", "PICKED_UP">>, <<"ACCEPTED", "CANCELLED">>,
          <<"PICKED_UP", "DELIVERED">>, <<"PICKED_UP", "FAILED">>, <<"PICKED_UP", "CANCELLED">>,
          <<"REJECTED", "OFFERED">>, <<"CANCELLED", "OFFERED">>,
          <<"REJECTED", "ACCEPTED">>, <<"CANCELLED", "ACCEPTED">>}
NoRiderDisplaced ==
  [][\/ delivery'.status = delivery.status /\ (Inactive \/ delivery'.rider = delivery.rider)
     \/ <<delivery.status, delivery'.status>> \in Moves
     \/ /\ delivery.status = "REJECTED" /\ delivery'.status = "CANCELLED"
        /\ order # "CANCELLED" /\ order' = "CANCELLED"]_vars


\* After a cancellation no search, offer or broadcast goes on for ever, those
\* included that were under way when it committed (TC-DSP-011).
CancelledGoesQuiet ==
  (order = "CANCELLED") ~>
    (search.status # "SEARCHING" /\ delivery.status # "OFFERED" /\ broadcast.status # "OPEN")

\* state-machines.ts: once a rider accepts, only the rider flow moves the order
\* on; an order is on the way with a rider only after he started the drop.
OutIsStarted == order = "OUT" /\ delivery.status = "PICKED_UP" => drop.started
=============================================================================
