------------------------------ MODULE Dispatch ------------------------------
(***************************************************************************)
(* Finding a rider for one order that is ready at the shop:                *)
(* services/delivery-assignment.ts (single offers, the search for a rider),*)
(* services/dispatch-broadcast.ts (an offer nobody takes goes to everyone  *)
(* near), services/fulfilment-options.ts (the shop's choice of delivery)   *)
(* and the order's status in services/orders.ts.                           *)
(*                                                                         *)
(* The delivery row is reused from rider to rider.  A request of the       *)
(* dispatcher is four steps with unlocked reads between them; a rider's    *)
(* request checks who owns the row first and writes later.  Who is near,   *)
(* free, allowed by the society and first in the ranking is left open: any *)
(* rider the row does not list as having declined.                         *)
(***************************************************************************)
EXTENDS Integers, FiniteSets

CONSTANTS
  Riders,
  NoRider,
  Workers,      \* requests and jobs that dispatch
  MaxAttempts,  \* rule dispatch.maxAttempts
  Steps,        \* radii of a broadcast
  MaxTaps,      \* bound: riders' taps under way at once
  MaxDeeds      \* bound: what shop, operations, riders' movement and crashes do

ASSUME BoundsAssumption == /\ MaxAttempts \in Nat /\ Steps \in Nat \ {0}
                           /\ MaxTaps \in Nat /\ MaxDeeds \in Nat
ASSUME NoRiderAssumption == NoRider \notin Riders

VARIABLES
  order,      \* orders.status, from READY on
  plan,       \* the arrangement: NONE, PARTNER, OWN (pickup or own delivery)
  delivery,   \* the delivery_orders row
  broadcast,  \* the order's latest broadcast
  search,     \* the rider_searches row
  requests,   \* riders' requests past their ownership check
  task,       \* dispatch requests under way
  cancelling, \* a cancellation under way, with what it read of the delivery row
  deeds       \* how many deeds were done (bounded)

Gone      == {"CANCELLED", "DELIVERED", "FAILED"}
Orders    == {"READY", "ASSIGNED", "PICKED_UP", "OUT"} \union Gone
Active    == {"OFFERED", "ACCEPTED", "PICKED_UP"}
Deliveries == {"NONE", "REJECTED"} \union Active \union Gone
Outcomes  == {"none", "OFFERED", "ACCEPTED", "DECLINED", "TAKEN_BY_OTHER", "EXPIRED"}
Tasks     == [at : {"idle", "ensure", "count", "assign"}, attempts : 0..MaxAttempts,
              manual : BOOLEAN]
Idle      == [at |-> "idle", attempts |-> 0, manual |-> FALSE]

NewDelivery == [status |-> "NONE", rider |-> NoRider, age |-> 0, picked |-> FALSE,
                rejected |-> {}]
NoBroadcast == [status |-> "NONE", step |-> 0, original |-> NoRider,
                outcome |-> [r \in Riders |-> "none"], closing |-> "NO"]
NoSearch    == [status |-> "NONE", attempts |-> 0, late |-> FALSE]
NewSearch   == [NoSearch EXCEPT !.status = "SEARCHING"]
NoCancelling == [open |-> FALSE, active |-> FALSE, picked |-> FALSE]

DispatchTypeOK ==
  /\ order \in Orders
  /\ plan \in {"NONE", "PARTNER", "OWN"}
  /\ delivery \in [status : Deliveries, rider : Riders \union {NoRider}, age : 0..2,
                   picked : BOOLEAN, rejected : SUBSET Riders]
  /\ broadcast \in [status : {"NONE", "OPEN", "TAKEN", "EXPIRED", "CANCELLED"},
                    step : 0..Steps, original : Riders \union {NoRider},
                    outcome : [Riders -> Outcomes],
                    closing : {"NO", "STARTED", "STOPPED"}]
  /\ search \in [status : {"NONE", "SEARCHING", "ASSIGNED", "STOPPED"},
                 attempts : 0..MaxAttempts, late : BOOLEAN]
  /\ task \in [Workers -> Tasks]
  /\ cancelling \in [open : BOOLEAN, active : BOOLEAN, picked : BOOLEAN]
  /\ deeds \in 0..MaxDeeds

DispatchInit ==
  /\ order = "READY"
  /\ plan \in {"NONE", "PARTNER", "OWN"}
  /\ delivery = NewDelivery
  /\ broadcast = NoBroadcast
  /\ search = NoSearch
  /\ requests = {}
  /\ task = [w \in Workers |-> Idle]
  /\ cancelling = NoCancelling
  /\ deeds = 0

Deed == deeds < MaxDeeds /\ deeds' = deeds + 1

\* cancelOrder holds the order's row FOR UPDATE until it commits: what changes
\* the order, or inserts a row that refers to it, waits for it.  What changes
\* the delivery row alone does not.
OrderFree == ~cancelling.open

-----------------------------------------------------------------------------
(* dispatchReadyOrder: look, keep the search, count the attempt, assign.   *)
(* A definition whose name starts with Bug is a plausible mistake in the   *)
(* one below it; no specification uses it.                                 *)

Inactive == delivery.status \notin Active

Waits == order = "READY" /\ plan # "OWN" /\ Inactive /\ broadcast.status # "OPEN"

LookFor(w, manual) ==
  /\ task[w] = Idle
  /\ Waits
  /\ task' = [task EXCEPT ![w] = [at |-> "ensure", attempts |-> 0, manual |-> manual]]
  /\ UNCHANGED <<order, plan, delivery, broadcast, search, requests>>

\* The dispatch sweep, and the re-offer after a decline, an expiry or a withdrawal.
Look(w) == LookFor(w, FALSE) /\ UNCHANGED deeds

\* "Find rider now".
FindRiderNow(w) == LookFor(w, TRUE) /\ Deed

\* ensureSearch: the search, created, or restarted by the shop's press.
EnsuredSearch(manual) ==
  IF search.status = "NONE" \/ (manual /\ search.status # "SEARCHING")
  THEN NewSearch ELSE search

\* stopReasonFor, for an order that was READY.
IsOver(s) == s.attempts >= MaxAttempts \/ s.late

Ensure(w) ==
  LET s == EnsuredSearch(task[w].manual) IN
  /\ task[w].at = "ensure"
  /\ OrderFree \/ search.status # "NONE"
  /\ IF s.status = "SEARCHING" /\ IsOver(s)
     THEN search' = [s EXCEPT !.status = "STOPPED"]
     ELSE search' = s
  /\ task' = [task EXCEPT ![w] =
       IF search'.status = "SEARCHING" THEN [@ EXCEPT !.at = "count", !.attempts = s.attempts]
                                       ELSE Idle]
  /\ UNCHANGED <<order, plan, delivery, broadcast, requests, deeds>>

\* The attempt is counted from the number read before, whatever happened
\* since; assignNearestPartner then reads the order again.
Count(w) ==
  /\ task[w].at = "count"
  /\ search' = [search EXCEPT !.attempts = task[w].attempts + 1]
  /\ task' = [task EXCEPT ![w] = IF order = "READY" THEN [@ EXCEPT !.at = "assign"] ELSE Idle]
  /\ UNCHANGED <<order, plan, delivery, broadcast, requests, deeds>>

Offer(r) == [delivery EXCEPT !.status = "OFFERED", !.rider = r, !.age = 0, !.picked = FALSE]

\* Candidates, under the row lock: whoever did not decline.
Candidates == Riders \ delivery.rejected

BugAssignable == delivery.status \notin {"OFFERED", "PICKED_UP"}
Assignable == Inactive

\* The transaction of assignNearestPartner: neither the order nor the plan nor
\* the broadcast is looked at again; only a first offer inserts the row.
\* Nobody free: an attempt without an offer.
Assign(w) ==
  /\ task[w].at = "assign"
  /\ \/ /\ Assignable
        /\ OrderFree \/ delivery.status # "NONE"
        /\ \E r \in Candidates : delivery' = Offer(r)
     \/ UNCHANGED delivery
  /\ task' = [task EXCEPT ![w] = Idle]
  /\ UNCHANGED <<order, plan, broadcast, search, requests, deeds>>

\* The sweep, for an order that no longer waits (dispatchReadyOrder's first branch).
BugStale == order \notin {"READY", "CANCELLED"}
Stale == order # "READY"

CloseStaleSearch ==
  /\ search.status = "SEARCHING"
  /\ Stale
  /\ search' = [search EXCEPT !.status = IF order \in {"CANCELLED", "FAILED"}
                                         THEN "STOPPED" ELSE "ASSIGNED"]
  /\ UNCHANGED <<order, plan, delivery, broadcast, requests, task, deeds>>

\* The search's own time limit passes.
SearchAges ==
  /\ search.status = "SEARCHING"
  /\ ~search.late
  /\ search' = [search EXCEPT !.late = TRUE]
  /\ UNCHANGED <<order, plan, delivery, broadcast, requests, task, deeds>>

Crash(w) ==
  /\ task[w] # Idle
  /\ task' = [task EXCEPT ![w] = Idle]
  /\ Deed
  /\ UNCHANGED <<order, plan, delivery, broadcast, search, requests>>

-----------------------------------------------------------------------------
(* The single offer.                                                       *)

\* age 1: the single offer window is over (it may be broadcast); 2: the offer is.
OfferAges ==
  /\ delivery.status = "OFFERED"
  /\ delivery.age < 2
  /\ delivery' = [delivery EXCEPT !.age = @ + 1]
  /\ UNCHANGED <<order, plan, broadcast, search, requests, task, deeds>>

SearchTaken == [search EXCEPT !.status = IF @ = "SEARCHING" THEN "ASSIGNED" ELSE @]

\* acceptOfferInTransaction on the offered row d.
Accepted(d) ==
  /\ OrderFree
  /\ order = "READY"
  /\ order' = "ASSIGNED"
  /\ delivery' = [d EXCEPT !.status = "ACCEPTED", !.age = 0]
  /\ search' = SearchTaken

AcceptOffer(r) ==
  /\ delivery.status = "OFFERED"
  /\ delivery.rider = r
  /\ delivery.age < 2
  /\ Accepted(delivery)
  /\ UNCHANGED <<plan, broadcast, requests, task, deeds>>

\* loadOwnDeliveryOrder: the row is the rider's when the request looks.
Tap(r, kind) ==
  /\ delivery.rider = r
  /\ Cardinality(requests) < MaxTaps
  /\ requests' = requests \union {[kind |-> kind, rider |-> r, code |-> 0, right |-> FALSE]}
  /\ UNCHANGED <<order, plan, delivery, broadcast, search, task, deeds>>

\* Status first, rider never: whoever holds the offer now is recorded.
TurnedDown(status, rejected) ==
  [delivery EXCEPT !.status = status, !.age = 0, !.rejected = @ \union rejected]

RejectOffer(q) ==
  /\ q.kind = "reject"
  /\ delivery.status = "OFFERED"
  /\ delivery' = TurnedDown("REJECTED", {delivery.rider})
  /\ requests' = requests \ {q}
  /\ UNCHANGED <<order, plan, broadcast, search, task, deeds>>

ExpireOffer ==
  /\ delivery.status = "OFFERED"
  /\ delivery.age = 2
  /\ delivery' = TurnedDown("REJECTED", {delivery.rider})
  /\ UNCHANGED <<order, plan, broadcast, search, requests, task, deeds>>

\* withdrawPartnerOffers, withdrawOutOfZoneOffers: not recorded as a decline.
WithdrawOffer ==
  /\ delivery.status = "OFFERED"
  /\ delivery' = TurnedDown("CANCELLED", {})
  /\ Deed
  /\ UNCHANGED <<order, plan, broadcast, search, requests, task>>

-----------------------------------------------------------------------------
(* The broadcast.                                                          *)

Reach(outcome, S) == [r \in Riders |-> IF r \in S THEN "OFFERED" ELSE outcome[r]]
Unanswered(outcome, as) == [r \in Riders |-> IF outcome[r] = "OFFERED" THEN as ELSE outcome[r]]

\* closeBroadcast in its caller's transaction.
Closed(status) ==
  [broadcast EXCEPT !.status = status, !.step = 0, !.original = NoRider,
                    !.outcome = Unanswered(@, "EXPIRED")]

\* One OPEN broadcast per order (unique index): another one rolls back.
StartBroadcast ==
  /\ delivery.status = "OFFERED"
  /\ delivery.age >= 1
  /\ order = "READY"
  /\ OrderFree
  /\ broadcast.status # "OPEN"
  /\ delivery' = TurnedDown("REJECTED", {})
  /\ \E S \in SUBSET Candidates :
       broadcast' = [status |-> "OPEN", step |-> 1, original |-> delivery.rider,
                     outcome |-> Reach(NoBroadcast.outcome, S), closing |-> "NO"]
  /\ UNCHANGED <<order, plan, search, requests, task, deeds>>

Superseded == delivery.status \notin {"REJECTED", "CANCELLED"}

\* closeBroadcast outside a transaction: the broadcast first, its recipients by
\* a second update (ExpireRecipients).
HalfClosed ==
  [broadcast EXCEPT !.status = "CANCELLED", !.step = 0, !.original = NoRider,
                    !.closing = "STARTED"]

\* advanceBroadcast, when its step is over.
CloseBroadcast ==
  /\ broadcast.status = "OPEN"
  /\ order # "READY" \/ Superseded
  /\ broadcast' = HalfClosed
  /\ UNCHANGED <<order, plan, delivery, search, requests, task, deeds>>

ExpireRecipients ==
  /\ broadcast.closing = "STARTED"
  /\ broadcast' = [broadcast EXCEPT !.outcome = Unanswered(@, "EXPIRED"), !.closing = "NO"]
  /\ UNCHANGED <<order, plan, delivery, search, requests, task, deeds>>

\* The server stops between the two updates; nothing makes up for the second.
CloseStops ==
  /\ broadcast.closing = "STARTED"
  /\ broadcast' = [broadcast EXCEPT !.closing = "STOPPED"]
  /\ Deed
  /\ UNCHANGED <<order, plan, delivery, search, requests, task>>

WidenBroadcast ==
  /\ broadcast.status = "OPEN"
  /\ order = "READY"
  /\ ~Superseded
  /\ broadcast.step < Steps
  /\ \E S \in SUBSET {r \in Candidates : broadcast.outcome[r] = "none"} :
       /\ OrderFree \/ S = {}
       /\ broadcast' = [broadcast EXCEPT !.step = @ + 1, !.outcome = Reach(@, S)]
  /\ UNCHANGED <<order, plan, delivery, search, requests, task, deeds>>

ExpireBroadcast ==
  /\ broadcast.status = "OPEN"
  /\ order = "READY"
  /\ ~Superseded
  /\ broadcast.step = Steps
  /\ broadcast' = Closed("EXPIRED")
  /\ delivery' = [delivery EXCEPT !.rejected = @ \union {broadcast.original}]
  /\ UNCHANGED <<order, plan, search, requests, task, deeds>>

\* The first acceptance wins; an accept that finds the row given out otherwise
\* rolls back and ends the broadcast instead.
BugTaken(r) == [broadcast EXCEPT !.status = "TAKEN", !.step = 0, !.original = NoRider,
                                 !.outcome = [@ EXCEPT ![r] = "ACCEPTED"]]
Taken(r) ==
  [broadcast EXCEPT !.status = "TAKEN", !.step = 0, !.original = NoRider,
                    !.outcome = Unanswered([@ EXCEPT ![r] = "ACCEPTED"], "TAKEN_BY_OTHER")]

AcceptBroadcast(r) ==
  /\ broadcast.status = "OPEN"
  /\ broadcast.outcome[r] = "OFFERED"
  /\ \/ /\ ~Superseded
        /\ broadcast' = Taken(r)
        /\ Accepted(Offer(r))
     \/ /\ Superseded
        /\ broadcast' = HalfClosed
        /\ UNCHANGED <<order, delivery, search>>
  /\ UNCHANGED <<plan, requests, task, deeds>>

\* Only the recipient is looked at, not whether the broadcast is still open.
DeclineBroadcast(r) ==
  /\ broadcast.outcome[r] = "OFFERED"
  /\ broadcast' = [broadcast EXCEPT !.outcome[r] = "DECLINED"]
  /\ delivery' = [delivery EXCEPT !.rejected = @ \union {r}]
  /\ UNCHANGED <<order, plan, search, requests, task, deeds>>

-----------------------------------------------------------------------------
(* The shop and operations.                                                *)

\* Reassign or a new plan: the rider's row ends, an ASSIGNED order waits again.
BugReleased == /\ delivery' = IF Inactive THEN delivery ELSE TurnedDown("CANCELLED", {})
               /\ UNCHANGED order
Released ==
  /\ delivery' = IF Inactive THEN delivery ELSE TurnedDown("CANCELLED", {})
  /\ order' = IF order = "ASSIGNED" /\ ~Inactive THEN "READY" ELSE order

\* reassignOrder goes straight on to assignNearestPartner, which reads the
\* order first.  The search keeps its state, and an open broadcast stays open.
ReassignOrder(w) ==
  /\ task[w] = Idle
  /\ delivery.status # "PICKED_UP"
  /\ OrderFree \/ delivery.status # "ACCEPTED"
  /\ Released
  /\ task' = IF order' = "READY"
             THEN [task EXCEPT ![w] = [at |-> "assign", attempts |-> 0, manual |-> FALSE]]
             ELSE task
  /\ Deed
  /\ UNCHANGED <<plan, broadcast, search, requests>>

MayPlan == /\ OrderFree
           /\ order \in {"READY", "ASSIGNED"}
           /\ delivery.status # "PICKED_UP"
           /\ ~(order = "ASSIGNED" /\ plan = "OWN")

\* savePlan, PICKUP or SHOP_DELIVERY; an open broadcast stays open.
PlanOwn ==
  /\ MayPlan
  /\ plan # "OWN"
  /\ plan' = "OWN"
  /\ Released
  /\ search' = [search EXCEPT !.status = IF @ = "SEARCHING" THEN "STOPPED" ELSE @]
  /\ Deed
  /\ UNCHANGED <<broadcast, requests, task>>

\* savePlan, GOKESARI_PARTNER: the rider is kept unless the slot moves to later.
PlanPartner ==
  /\ MayPlan
  /\ plan' = "PARTNER"
  /\ \/ Released /\ ~Inactive
     \/ plan # "PARTNER" /\ UNCHANGED <<order, delivery>>
  /\ search' = IF search.status = "NONE" THEN search ELSE NewSearch
  /\ Deed
  /\ UNCHANGED <<broadcast, requests, task>>

StopRiderSearch ==
  /\ search.status = "SEARCHING"
  /\ search' = [search EXCEPT !.status = "STOPPED"]
  /\ Deed
  /\ UNCHANGED <<order, plan, delivery, broadcast, requests, task>>

-----------------------------------------------------------------------------

DispatchNext ==
  \/ \E w \in Workers : \/ Look(w) \/ FindRiderNow(w) \/ Ensure(w) \/ Count(w)
                        \/ Assign(w) \/ Crash(w) \/ ReassignOrder(w)
  \/ CloseStaleSearch \/ SearchAges
  \/ OfferAges \/ ExpireOffer \/ WithdrawOffer
  \/ \E r \in Riders : \/ AcceptOffer(r) \/ AcceptBroadcast(r) \/ DeclineBroadcast(r)
                       \/ Tap(r, "reject") /\ delivery.status = "OFFERED"
                       \/ Tap(r, "pickUp") /\ delivery.status = "ACCEPTED"
  \/ \E q \in requests : RejectOffer(q)
  \/ StartBroadcast \/ WidenBroadcast \/ ExpireBroadcast
  \/ CloseBroadcast \/ ExpireRecipients \/ CloseStops
  \/ PlanOwn \/ PlanPartner \/ StopRiderSearch
=============================================================================
