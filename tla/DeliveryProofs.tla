--------------------------- MODULE DeliveryProofs ---------------------------
(***************************************************************************)
(* Theorems about Delivery for any number of riders, of dispatch requests  *)
(* and of riders' requests under way at once, and for any rules.           *)
(***************************************************************************)
EXTENDS Delivery, FiniteSetTheorems, TLAPS

\* An attempt is counted only below the limit it was judged by.
CountsBelowLimit == \A w \in Workers : task[w].at = "count" => task[w].attempts < MaxAttempts

\* A row that was ever offered names a rider, and so do a row a cancellation
\* read as active and an open broadcast.
RidersKnown ==
  /\ delivery.status # "NONE" \/ cancelling.active => delivery.rider \in Riders
  /\ broadcast.status = "OPEN" => broadcast.original \in Riders

TypeInv == TypeOK /\ CountsBelowLimit /\ RidersKnown

\* What the goods decide: once a rider has picked the order up it is neither
\* waiting nor assigned again and no attempt is about to offer it; before that
\* the drop is untouched and no code is on its way.
GoodsInv ==
  /\ delivery.status \in {"OFFERED", "ACCEPTED"} => ~delivery.picked
  /\ delivery.status \in {"PICKED_UP", "DELIVERED", "FAILED"} => delivery.picked
  /\ delivery.picked => order \notin {"READY", "ASSIGNED"} /\ AttemptsOver
  /\ ~delivery.picked => /\ drop.tries = 0 /\ ~drop.locked
                         /\ \A q \in requests : q.kind # "code"

\* What a cancellation read of the row still decides what it may write: the
\* order is open, a row it read as active has not ended by a trip, one it read
\* as not active is not a rider's by now, and what it read of the goods is true.
CancelInv ==
  cancelling.open =>
    /\ order \notin {"DELIVERED", "CANCELLED"}
    /\ IF cancelling.active
       THEN /\ delivery.status \in Active \union {"REJECTED", "CANCELLED"}
            /\ delivery.picked <=> delivery.status = "PICKED_UP"
       ELSE delivery.status \notin {"ACCEPTED", "PICKED_UP"}
    /\ cancelling.picked <=> cancelling.active /\ delivery.picked

RowInv == GoodsInv /\ OrderAgrees /\ MoneyFollowsGoods /\ TriesWithinLimit /\ CancelInv

\* OneWinner without counting.
WinnerInv ==
  /\ IF broadcast.status = "TAKEN"
     THEN \E r \in Riders : broadcast.outcome[r] = "ACCEPTED" /\
            \A s \in Riders \ {r} : broadcast.outcome[s] # "ACCEPTED"
     ELSE \A r \in Riders : broadcast.outcome[r] # "ACCEPTED"
  /\ broadcast.status = "CANCELLED" \/ broadcast.closing = "NO"
  /\ broadcast.status # "OPEN" /\ broadcast.closing = "NO" =>
       \A r \in Riders : broadcast.outcome[r] # "OFFERED"

-----------------------------------------------------------------------------
(* The rows' types.                                                        *)

DeliveryRows == [status : Deliveries, rider : Riders \union {NoRider}, age : 0..2,
                 picked : BOOLEAN, rejected : SUBSET Riders]
Broadcasts == [status : {"NONE", "OPEN", "TAKEN", "EXPIRED", "CANCELLED"},
               step : 0..Steps, original : Riders \union {NoRider},
               outcome : [Riders -> Outcomes], closing : {"NO", "STARTED", "STOPPED"}]
Cancellings == [open : BOOLEAN, active : BOOLEAN, picked : BOOLEAN]
Searches == [status : {"NONE", "SEARCHING", "ASSIGNED", "STOPPED"},
             attempts : 0..MaxAttempts, late : BOOLEAN]
Drops == [started : BOOLEAN, code : 0..(MaxResends + 1), tries : 0..MaxTries,
          locked : BOOLEAN, via : {"NONE", "CUSTOMER_OTP", "OPERATOR_OVERRIDE"}]
Requests == [kind : {"reject", "pickUp", "code"}, rider : Riders,
             code : 0..(MaxResends + 1), right : BOOLEAN]

LEMMA IdleType == Idle \in Tasks /\ Idle.at = "idle"
BY BoundsAssumption DEF Idle, Tasks

LEMMA NewSearchType == NoSearch \in Searches /\ NewSearch \in Searches
<1>1. NoSearch \in Searches
  BY BoundsAssumption DEF NoSearch, Searches
<1>2. NewSearch \in Searches
  BY <1>1 DEF NewSearch, Searches
<1> QED BY <1>1, <1>2

LEMMA Zeros == 0 \in 0..2 /\ 0 \in 0..Steps /\ 0 \in 0..MaxAttempts
BY BoundsAssumption

\* A row that ends or waits again.
LEMMA TurnedDownType ==
  ASSUME delivery \in DeliveryRows, NEW s \in Deliveries, NEW R \in SUBSET Riders
  PROVE  /\ TurnedDown(s, R) \in DeliveryRows
         /\ TurnedDown(s, R).status = s
         /\ TurnedDown(s, R).rider = delivery.rider
         /\ TurnedDown(s, R).picked = delivery.picked
<1>1. delivery.rejected \union R \in SUBSET Riders
  BY DEF DeliveryRows
<1> QED BY <1>1, Zeros DEF TurnedDown, DeliveryRows

\* A row offered to a rider.
LEMMA OfferType ==
  ASSUME delivery \in DeliveryRows, NEW r \in Riders
  PROVE  /\ Offer(r) \in DeliveryRows
         /\ Offer(r).status = "OFFERED"
         /\ Offer(r).rider = r
         /\ Offer(r).picked = FALSE
BY Zeros DEF Offer, DeliveryRows, Deliveries, Active

\* What an acceptance changes.
LEMMA AcceptedType ==
  ASSUME NEW d \in DeliveryRows, search \in Searches, Accepted(d)
  PROVE  /\ delivery' \in DeliveryRows
         /\ delivery'.status = "ACCEPTED"
         /\ delivery'.rider = d.rider
         /\ delivery'.picked = d.picked
         /\ search' \in Searches
         /\ order = "READY" /\ order' = "ASSIGNED"
<1>1. [d EXCEPT !.status = "ACCEPTED", !.age = 0] \in DeliveryRows
  BY Zeros DEF DeliveryRows, Deliveries, Active
<1>2. SearchTaken \in Searches
  BY DEF SearchTaken, Searches
<1> QED BY <1>1, <1>2 DEF Accepted, DeliveryRows

LEMMA ReachType ==
  ASSUME NEW f \in [Riders -> Outcomes], NEW S
  PROVE  Reach(f, S) \in [Riders -> Outcomes]
BY DEF Reach, Outcomes

LEMMA UnansweredType ==
  ASSUME NEW f \in [Riders -> Outcomes], NEW as \in Outcomes
  PROVE  Unanswered(f, as) \in [Riders -> Outcomes]
BY DEF Unanswered, Outcomes

LEMMA ClosedType ==
  ASSUME broadcast \in Broadcasts, NEW s \in {"EXPIRED", "CANCELLED"}
  PROVE  /\ Closed(s) \in Broadcasts
         /\ Closed(s).status = s
         /\ Closed(s).outcome = Unanswered(broadcast.outcome, "EXPIRED")
         /\ Closed(s).closing = broadcast.closing
<1>1. Unanswered(broadcast.outcome, "EXPIRED") \in [Riders -> Outcomes]
  BY UnansweredType DEF Broadcasts, Outcomes
<1> QED BY <1>1, Zeros DEF Closed, Broadcasts

LEMMA HalfClosedType ==
  ASSUME broadcast \in Broadcasts
  PROVE  /\ HalfClosed \in Broadcasts
         /\ HalfClosed.status = "CANCELLED"
         /\ HalfClosed.outcome = broadcast.outcome
         /\ HalfClosed.closing = "STARTED"
BY Zeros DEF HalfClosed, Broadcasts

LEMMA TakenType ==
  ASSUME broadcast \in Broadcasts, NEW r \in Riders
  PROVE  /\ Taken(r) \in Broadcasts
         /\ Taken(r).status = "TAKEN"
         /\ Taken(r).closing = broadcast.closing
         /\ Taken(r).outcome =
              Unanswered([broadcast.outcome EXCEPT ![r] = "ACCEPTED"], "TAKEN_BY_OTHER")
<1>1. [broadcast.outcome EXCEPT ![r] = "ACCEPTED"] \in [Riders -> Outcomes]
  BY DEF Broadcasts, Outcomes
<1>2. Unanswered([broadcast.outcome EXCEPT ![r] = "ACCEPTED"], "TAKEN_BY_OTHER")
        \in [Riders -> Outcomes]
  BY <1>1, UnansweredType DEF Outcomes
<1> QED BY <1>2, Zeros DEF Taken, Broadcasts

\* Reassignment and new plans: the row ends when it is under way, and an
\* order that was ASSIGNED is READY again.
LEMMA ReleasedType ==
  ASSUME delivery \in DeliveryRows, order \in Orders, Released
  PROVE  /\ delivery' \in DeliveryRows
         /\ order' \in Orders
         /\ delivery'.picked = delivery.picked
         /\ delivery'.rider = delivery.rider
         /\ delivery'.status = IF Inactive THEN delivery.status ELSE "CANCELLED"
         /\ order' = IF order = "ASSIGNED" /\ ~Inactive THEN "READY" ELSE order
<1>1. TurnedDown("CANCELLED", {}) \in DeliveryRows /\ TurnedDown("CANCELLED", {}).status = "CANCELLED"
      /\ TurnedDown("CANCELLED", {}).rider = delivery.rider
      /\ TurnedDown("CANCELLED", {}).picked = delivery.picked
  BY TurnedDownType DEF Deliveries, Gone
<1> QED BY <1>1 DEF Released, Orders

\* TypeOK, row by row.
Plans == {"NONE", "PARTNER", "OWN"}
Collectors == {"NOBODY", "RIDER", "SHOP"}
Typed ==
  /\ order \in Orders
  /\ plan \in Plans
  /\ delivery \in DeliveryRows
  /\ broadcast \in Broadcasts
  /\ search \in Searches
  /\ requests \in SUBSET Requests
  /\ task \in [Workers -> Tasks]
  /\ cancelling \in Cancellings
  /\ deeds \in 0..MaxDeeds
  /\ drop \in Drops
  /\ earned \in BOOLEAN
  /\ cash \in Collectors

Steady == Typed /\ CountsBelowLimit /\ RidersKnown

LEMMA TypedIsTypeOK == Typed <=> TypeOK
BY DEF Typed, TypeOK, DispatchTypeOK, Plans, Collectors, DeliveryRows, Broadcasts, Searches,
       Requests, Drops, Cancellings

LEMMA TypedIsTypeOKNext == Typed' <=> TypeOK'
BY DEF Typed, TypeOK, DispatchTypeOK, Plans, Collectors, DeliveryRows, Broadcasts, Searches,
       Requests, Drops, Cancellings

LEMMA InitType == Init => TypeInv
<1> SUFFICES ASSUME Init PROVE TypeInv
  OBVIOUS
<1>1. delivery \in DeliveryRows
  BY Zeros DEF Init, DispatchInit, NewDelivery, DeliveryRows, Deliveries
<1>2. broadcast \in Broadcasts
  BY Zeros DEF Init, DispatchInit, NoBroadcast, Broadcasts, Outcomes
<1>3. search \in Searches
  BY NewSearchType DEF Init, DispatchInit
<1>4. task \in [Workers -> Tasks] /\ CountsBelowLimit
  BY IdleType DEF Init, DispatchInit, CountsBelowLimit
<1>5. drop \in Drops
  <2>1. 0 \in 0..(MaxResends + 1) /\ 0 \in 0..MaxTries
    BY DropAssumption
  <2> QED BY <2>1 DEF Init, NewDrop, Drops
<1>6. order \in Orders /\ plan \in Plans /\ requests \in SUBSET Requests
  BY DEF Init, DispatchInit, Orders, Plans
<1>7. deeds \in 0..MaxDeeds
  BY BoundsAssumption DEF Init, DispatchInit
<1>8. earned \in BOOLEAN /\ cash \in Collectors
  BY DEF Init, Collectors
<1>9. cancelling \in Cancellings
  BY DEF Init, DispatchInit, NoCancelling, Cancellings
<1> QED
  BY <1>1, <1>2, <1>3, <1>4, <1>5, <1>6, <1>7, <1>8, <1>9, TypedIsTypeOK
     DEF Typed, TypeInv, RidersKnown, Init, DispatchInit, NewDelivery, NoBroadcast, NoCancelling

\* A dispatch request's next step is a step again.
LEMMA TaskType ==
  ASSUME task \in [Workers -> Tasks], CountsBelowLimit, NEW w \in Workers, NEW t \in Tasks,
         t.at = "count" => t.attempts < MaxAttempts, task' = [task EXCEPT ![w] = t]
  PROVE  task' \in [Workers -> Tasks] /\ CountsBelowLimit'
BY DEF CountsBelowLimit

LEMMA SameTask ==
  ASSUME task \in [Workers -> Tasks], CountsBelowLimit, task' = task
  PROVE  task' \in [Workers -> Tasks] /\ CountsBelowLimit'
BY DEF CountsBelowLimit

LEMMA DeedType ==
  ASSUME deeds \in 0..MaxDeeds, Deed
  PROVE  deeds' \in 0..MaxDeeds
BY BoundsAssumption DEF Deed

\* The dispatcher's own steps.
LEMMA DispatcherType ==
  ASSUME Steady, UNCHANGED dropVars, NEW w \in Workers,
         Look(w) \/ FindRiderNow(w) \/ Ensure(w) \/ Count(w) \/ Assign(w) \/ Crash(w)
           \/ ReassignOrder(w)
  PROVE  Steady'
<1> USE DEF Steady, Typed, RidersKnown, dropVars
<1>1. ASSUME NEW manual \in BOOLEAN, LookFor(w, manual), deeds' \in 0..MaxDeeds
      PROVE  Steady'
  <2>1. [at |-> "ensure", attempts |-> 0, manual |-> manual] \in Tasks
    BY Zeros DEF Tasks
  <2> QED BY <1>1, <2>1, TaskType DEF LookFor
<1>2. CASE Look(w)
  BY <1>1, <1>2 DEF Look
<1>3. CASE FindRiderNow(w)
  BY <1>1, <1>3, DeedType DEF FindRiderNow
<1>4. CASE Ensure(w)
  <2> DEFINE s == EnsuredSearch(task[w].manual)
  <2>1. s \in Searches
    BY NewSearchType DEF EnsuredSearch
  <2>2. search' \in Searches
    BY <1>4, <2>1 DEF Ensure, Searches
  <2>3. CASE search'.status = "SEARCHING"
    <3>1. s.attempts < MaxAttempts /\ s.attempts \in 0..MaxAttempts
      BY <1>4, <2>1, <2>3, BoundsAssumption DEF Ensure, Searches, IsOver
    <3> DEFINE t == [task[w] EXCEPT !.at = "count", !.attempts = s.attempts]
    <3>2. t \in Tasks /\ t.attempts < MaxAttempts
      BY <3>1 DEF Tasks
    <3>3. task' = [task EXCEPT ![w] = t]
      BY <1>4, <2>3 DEF Ensure
    <3> HIDE DEF t, s
    <3> QED BY <1>4, <2>2, <3>2, <3>3, TaskType DEF Ensure
  <2>4. CASE search'.status # "SEARCHING"
    BY <1>4, <2>2, <2>4, IdleType, TaskType DEF Ensure
  <2> QED BY <2>3, <2>4
<1>5. CASE Count(w)
  <2>1. task[w] \in Tasks /\ task[w].attempts < MaxAttempts
    BY <1>5 DEF Count, CountsBelowLimit
  <2>2. task[w].attempts + 1 \in 0..MaxAttempts
    BY <2>1, BoundsAssumption DEF Tasks
  <2>3. search' \in Searches
    BY <1>5, <2>2 DEF Count, Searches
  <2>4. [task[w] EXCEPT !.at = "assign"] \in Tasks
    BY <2>1 DEF Tasks
  <2>5. task' \in [Workers -> Tasks] /\ CountsBelowLimit'
    <3>1. CASE order = "READY"
      BY <1>5, <3>1, <2>1, <2>4, TaskType DEF Count, Tasks
    <3>2. CASE order # "READY"
      BY <1>5, <3>2, IdleType, TaskType DEF Count
    <3> QED BY <3>1, <3>2
  <2> QED BY <1>5, <2>3, <2>5 DEF Count
<1>6. CASE Assign(w)
  <2>1. delivery' \in DeliveryRows /\ (delivery' = delivery \/ delivery'.rider \in Riders)
    BY <1>6, OfferType DEF Assign, Candidates
  <2> QED BY <1>6, <2>1, IdleType, TaskType DEF Assign
<1>7. CASE Crash(w)
  BY <1>7, IdleType, TaskType, DeedType DEF Crash
<1>8. CASE ReassignOrder(w)
  <2>1. [at |-> "assign", attempts |-> 0, manual |-> FALSE] \in Tasks
    BY Zeros DEF Tasks
  <2>2. task' \in [Workers -> Tasks] /\ CountsBelowLimit'
    BY <1>8, <2>1, TaskType, SameTask DEF ReassignOrder
  <2>3. /\ delivery' \in DeliveryRows /\ order' \in Orders
        /\ delivery'.rider = delivery.rider
        /\ delivery'.status # "NONE" => delivery.status # "NONE"
    BY <1>8, ReleasedType DEF ReassignOrder, Inactive, Active
  <2> QED BY <1>8, <2>2, <2>3, DeedType DEF ReassignOrder
<1> QED BY <1>2, <1>3, <1>4, <1>5, <1>6, <1>7, <1>8

\* Offers and the broadcast.
LEMMA OffersType ==
  ASSUME Steady, UNCHANGED dropVars,
         \/ CloseStaleSearch \/ SearchAges \/ OfferAges \/ ExpireOffer \/ WithdrawOffer
         \/ \E r \in Riders : AcceptOffer(r) \/ AcceptBroadcast(r) \/ DeclineBroadcast(r)
         \/ \E r \in Riders : Tap(r, "reject") \/ Tap(r, "pickUp")
         \/ \E q \in requests : RejectOffer(q)
         \/ StartBroadcast \/ WidenBroadcast \/ ExpireBroadcast
         \/ CloseBroadcast \/ ExpireRecipients \/ CloseStops
  PROVE  Steady'
<1> USE DEF Steady, Typed, RidersKnown, dropVars
<1>1. CASE CloseStaleSearch
  BY <1>1, SameTask DEF CloseStaleSearch, Searches
<1>2. CASE SearchAges
  BY <1>2, SameTask DEF SearchAges, Searches
<1>3. CASE OfferAges
  <2>1. delivery.age + 1 \in 0..2
    BY <1>3 DEF OfferAges, DeliveryRows
  <2>2. delivery' \in DeliveryRows /\ delivery'.status = delivery.status
        /\ delivery'.rider = delivery.rider
    BY <1>3, <2>1 DEF OfferAges, DeliveryRows
  <2> QED BY <1>3, <2>2, SameTask DEF OfferAges
<1>4. "REJECTED" \in Deliveries /\ "CANCELLED" \in Deliveries /\ {} \in SUBSET Riders
  BY DEF Deliveries, Gone
<1>5. CASE ExpireOffer \/ \E q \in requests : RejectOffer(q)
  <2>1. delivery.rider \in Riders
    BY <1>5 DEF ExpireOffer, RejectOffer
  <2>2. delivery' \in DeliveryRows /\ delivery'.rider = delivery.rider
    BY <1>4, <1>5, <2>1, TurnedDownType DEF ExpireOffer, RejectOffer
  <2> QED BY <1>5, <2>1, <2>2, SameTask DEF ExpireOffer, RejectOffer
<1>6. CASE WithdrawOffer
  <2>1. delivery' \in DeliveryRows /\ delivery'.rider \in Riders
    BY <1>4, <1>6, TurnedDownType DEF WithdrawOffer
  <2> QED BY <1>6, <2>1, SameTask, DeedType DEF WithdrawOffer
<1>7. ASSUME NEW r \in Riders, AcceptOffer(r) PROVE Steady'
  <2>1. delivery' \in DeliveryRows /\ delivery'.rider = r /\ search' \in Searches
        /\ order' = "ASSIGNED"
    BY <1>7, AcceptedType DEF AcceptOffer
  <2> QED BY <1>7, <2>1, SameTask DEF AcceptOffer, Orders
<1>8. ASSUME NEW r \in Riders, AcceptBroadcast(r) PROVE Steady'
  <2>1. CASE ~Superseded /\ broadcast' = Taken(r) /\ Accepted(Offer(r))
    <3>1. delivery' \in DeliveryRows /\ delivery'.rider = r /\ search' \in Searches
          /\ order' = "ASSIGNED"
      BY <2>1, OfferType, AcceptedType
    <3>2. broadcast' \in Broadcasts /\ broadcast'.status = "TAKEN"
      BY <2>1, TakenType
    <3> QED BY <1>8, <3>1, <3>2, SameTask DEF AcceptBroadcast, Orders
  <2>2. CASE broadcast' = HalfClosed /\ UNCHANGED <<order, delivery, search>>
    <3>1. broadcast' \in Broadcasts /\ broadcast'.status = "CANCELLED"
      BY <2>2, HalfClosedType
    <3> QED BY <1>8, <2>2, <3>1, SameTask DEF AcceptBroadcast
  <2> QED BY <1>8, <2>1, <2>2 DEF AcceptBroadcast
<1>9. ASSUME NEW r \in Riders, DeclineBroadcast(r) PROVE Steady'
  <2>1. broadcast' \in Broadcasts /\ broadcast'.status = broadcast.status
        /\ broadcast'.original = broadcast.original
    BY <1>9 DEF DeclineBroadcast, Broadcasts, Outcomes
  <2>2. delivery' \in DeliveryRows /\ delivery'.status = delivery.status
        /\ delivery'.rider = delivery.rider
    BY <1>9 DEF DeclineBroadcast, DeliveryRows
  <2> QED BY <1>9, <2>1, <2>2, SameTask DEF DeclineBroadcast
<1>10. ASSUME NEW r \in Riders, Tap(r, "reject") \/ Tap(r, "pickUp") PROVE Steady'
  <2>1. 0 \in 0..(MaxResends + 1)
    BY DropAssumption
  <2>2. \A k \in {"reject", "pickUp"} :
          [kind |-> k, rider |-> r, code |-> 0, right |-> FALSE] \in Requests
    BY <2>1 DEF Requests
  <2>3. requests' \in SUBSET Requests
    <3>1. CASE Tap(r, "reject")
      BY <3>1, <2>2 DEF Tap
    <3>2. CASE Tap(r, "pickUp")
      BY <3>2, <2>2 DEF Tap
    <3> QED BY <1>10, <3>1, <3>2
  <2> QED BY <1>10, <2>3, SameTask DEF Tap
<1>11. CASE StartBroadcast
  <2>1. delivery' \in DeliveryRows /\ delivery'.rider \in Riders
    BY <1>4, <1>11, TurnedDownType DEF StartBroadcast
  <2>2. PICK S \in SUBSET Candidates :
          broadcast' = [status |-> "OPEN", step |-> 1, original |-> delivery.rider,
                        outcome |-> Reach(NoBroadcast.outcome, S), closing |-> "NO"]
    BY <1>11 DEF StartBroadcast
  <2>3. Reach(NoBroadcast.outcome, S) \in [Riders -> Outcomes]
    <3>1. NoBroadcast.outcome \in [Riders -> Outcomes]
      BY DEF NoBroadcast, Outcomes
    <3> QED BY <3>1, ReachType
  <2>4. 1 \in 0..Steps
    BY BoundsAssumption
  <2>5. broadcast' \in Broadcasts /\ broadcast'.original \in Riders
    BY <1>11, <2>2, <2>3, <2>4 DEF StartBroadcast, Broadcasts
  <2> QED BY <1>11, <2>1, <2>5, SameTask DEF StartBroadcast
<1>12. CASE CloseBroadcast
  <2>1. broadcast' \in Broadcasts /\ broadcast'.status = "CANCELLED"
    BY <1>12, HalfClosedType DEF CloseBroadcast
  <2> QED BY <1>12, <2>1, SameTask DEF CloseBroadcast
<1>13. CASE WidenBroadcast
  <2>1. PICK S \in SUBSET {r \in Candidates : broadcast.outcome[r] = "none"} :
          broadcast' = [broadcast EXCEPT !.step = @ + 1, !.outcome = Reach(@, S)]
    BY <1>13 DEF WidenBroadcast
  <2>2. Reach(broadcast.outcome, S) \in [Riders -> Outcomes]
    BY ReachType DEF Broadcasts
  <2>3. broadcast.step + 1 \in 0..Steps
    <3>1. broadcast.step \in 0..Steps
      BY DEF Broadcasts
    <3>2. broadcast.step < Steps
      BY <1>13 DEF WidenBroadcast
    <3> HIDE DEF Steady, Typed
    <3> QED BY <3>1, <3>2, BoundsAssumption
  <2>4. broadcast' \in Broadcasts /\ broadcast'.original = broadcast.original
    BY <2>1, <2>2, <2>3 DEF Broadcasts
  <2> QED BY <1>13, <2>4, SameTask DEF WidenBroadcast
<1>14. CASE ExpireBroadcast
  <2>1. broadcast' \in Broadcasts /\ broadcast'.status = "EXPIRED"
    BY <1>14, ClosedType DEF ExpireBroadcast
  <2>2. delivery' \in DeliveryRows /\ delivery'.status = delivery.status
        /\ delivery'.rider = delivery.rider
    BY <1>14 DEF ExpireBroadcast, DeliveryRows
  <2> QED BY <1>14, <2>1, <2>2, SameTask DEF ExpireBroadcast
<1>15. CASE ExpireRecipients
  <2>1. Unanswered(broadcast.outcome, "EXPIRED") \in [Riders -> Outcomes]
    BY UnansweredType DEF Broadcasts, Outcomes
  <2>2. broadcast' \in Broadcasts /\ broadcast'.status = broadcast.status
        /\ broadcast'.original = broadcast.original
    BY <1>15, <2>1 DEF ExpireRecipients, Broadcasts
  <2> QED BY <1>15, <2>2, SameTask DEF ExpireRecipients
<1>16. CASE CloseStops
  <2>1. broadcast' \in Broadcasts /\ broadcast'.status = broadcast.status
        /\ broadcast'.original = broadcast.original
    BY <1>16 DEF CloseStops, Broadcasts
  <2> QED BY <1>16, <2>1, SameTask, DeedType DEF CloseStops
<1> QED
  BY <1>15, <1>16, <1>1, <1>2, <1>3, <1>5, <1>6, <1>7, <1>8, <1>9, <1>10, <1>11, <1>12, <1>13, <1>14

\* The shop's plans.
LEMMA PlansType ==
  ASSUME Steady, UNCHANGED dropVars, PlanOwn \/ PlanPartner \/ StopRiderSearch
  PROVE  Steady'
<1> USE DEF Steady, Typed, RidersKnown, dropVars
<1>1. ASSUME Released PROVE delivery' \in DeliveryRows /\ order' \in Orders
                            /\ delivery'.rider = delivery.rider
                            /\ (delivery'.status # "NONE" => delivery.status # "NONE")
  BY <1>1, ReleasedType DEF Inactive, Active
<1>2. CASE PlanOwn
  BY <1>1, <1>2, SameTask, DeedType DEF PlanOwn, Searches, Plans
<1>3. CASE PlanPartner
  BY <1>1, <1>3, NewSearchType, SameTask, DeedType DEF PlanPartner, Plans
<1>4. CASE StopRiderSearch
  BY <1>4, SameTask, DeedType DEF StopRiderSearch, Searches
<1> QED BY <1>2, <1>3, <1>4

\* The drop, and the moves of the order.
LEMMA DropType ==
  ASSUME Steady,
         \/ \E q \in requests : PickUp(q) \/ RequestEnds(q) \/ WrongCode(q) \/ RightCode(q)
         \/ StartDelivery \/ NewCode \/ ConfirmByOperator \/ MarkFailed
         \/ \E right \in BOOLEAN : EnterCode(right)
         \/ SendOut \/ HandOver \/ BeginCancel \/ Cancel \/ CancelStops
  PROVE  Steady'
<1> USE DEF Steady, Typed, RidersKnown, dropVars
<1>1. ASSUME NEW q \in requests, PickUp(q) PROVE Steady'
  <2>1. delivery' \in DeliveryRows /\ delivery'.rider = delivery.rider
    BY <1>1 DEF PickUp, DeliveryRows, Deliveries, Active
  <2> QED BY <1>1, <2>1, SameTask DEF PickUp, Orders
<1>2. ASSUME NEW q \in requests, RequestEnds(q) PROVE Steady'
  BY <1>2, SameTask DEF RequestEnds
<1>3. ASSUME NEW q \in requests, WrongCode(q) PROVE Steady'
  <2>1. Counts => drop.tries + 1 \in 0..MaxTries
    BY DropAssumption DEF Counts, Drops
  <2>2. MaxTries \in 0..MaxTries
    BY DropAssumption
  <2>3. PICK b \in BOOLEAN :
          drop' = [drop EXCEPT !.tries = IF Counts THEN drop.tries + 1 ELSE @, !.locked = b]
    BY <1>3 DEF WrongCode, Drops
  <2>4. drop' \in Drops
    BY <2>1, <2>3 DEF Drops
  <2> QED BY <1>3, <2>4, SameTask DEF WrongCode
<1>4. ASSUME NEW via \in {"CUSTOMER_OTP", "OPERATOR_OVERRIDE"}, Dropped(via),
             UNCHANGED <<plan, broadcast, search, task, deeds>>,
             requests' \in SUBSET requests
      PROVE  Steady'
  <2>1. 0 \in 0..(MaxResends + 1)
    BY DropAssumption
  <2>2. drop' \in Drops
    BY <1>4, <2>1 DEF Dropped, Drops
  <2>3. delivery' \in DeliveryRows /\ delivery'.rider = delivery.rider
    BY <1>4 DEF Dropped, DeliveryRows, Deliveries, Gone
  <2>4. delivery.rider \in Riders
    BY <1>4 DEF Dropped
  <2>5. order' \in Orders /\ cash' \in Collectors /\ earned' \in BOOLEAN
        /\ cancelling' = cancelling
    BY <1>4 DEF Dropped, Delivered, Orders, Gone, Collectors
  <2> QED BY <1>4, <2>2, <2>3, <2>4, <2>5, SameTask
<1>5. ASSUME NEW q \in requests, RightCode(q) PROVE Steady'
  BY <1>4, <1>5 DEF RightCode
<1>6. CASE ConfirmByOperator
  BY <1>4, <1>6 DEF ConfirmByOperator
<1>7. CASE StartDelivery
  <2>1. 1 \in 0..(MaxResends + 1)
    BY DropAssumption
  <2>2. drop' \in Drops
    BY <1>7, <2>1 DEF StartDelivery, Drops
  <2> QED BY <1>7, <2>2, SameTask DEF StartDelivery, Orders
<1>8. CASE NewCode
  <2>1. drop.code + 1 \in 0..(MaxResends + 1)
    BY <1>8, DropAssumption DEF NewCode, Drops
  <2>2. drop' \in Drops
    BY <1>8, <2>1 DEF NewCode, Drops
  <2> QED BY <1>8, <2>2, SameTask DEF NewCode
<1>9. CASE MarkFailed
  <2>1. 0 \in 0..(MaxResends + 1)
    BY DropAssumption
  <2>2. drop' \in Drops
    BY <1>9, <2>1 DEF MarkFailed, Drops
  <2>3. delivery' \in DeliveryRows /\ delivery'.rider = delivery.rider
    BY <1>9 DEF MarkFailed, DeliveryRows, Deliveries, Gone
  <2> QED BY <1>9, <2>2, <2>3, SameTask DEF MarkFailed, Orders, Gone
<1>10. ASSUME NEW right \in BOOLEAN, EnterCode(right) PROVE Steady'
  <2>1. [kind |-> "code", rider |-> delivery.rider, code |-> drop.code, right |-> right]
          \in Requests
    BY <1>10 DEF EnterCode, Requests, Drops
  <2> QED BY <1>10, <2>1, SameTask DEF EnterCode
<1>11. CASE SendOut
  BY <1>11, SameTask DEF SendOut, Orders
<1>12. CASE HandOver
  BY <1>12, SameTask DEF HandOver, Delivered, Orders, Gone, Collectors
<1>13. CASE Cancel
  <2>1. delivery' \in DeliveryRows /\ (delivery'.status # "NONE" => delivery'.rider \in Riders)
    <3>1. CASE ~cancelling.active
      BY <1>13, <3>1 DEF Cancel
    <3>2. CASE cancelling.active
      <4>1. "CANCELLED" \in Deliveries /\ {} \in SUBSET Riders
        BY DEF Deliveries, Gone
      <4> QED BY <1>13, <3>2, <4>1, TurnedDownType DEF Cancel
    <3> QED BY <3>1, <3>2
  <2>2. 0 \in 0..(MaxResends + 1)
    BY DropAssumption
  <2>3. drop' \in Drops
    BY <1>13, <2>2 DEF Cancel, Drops
  <2>4. earned' \in BOOLEAN /\ cancelling' \in Cancellings
    BY <1>13 DEF Cancel, NoCancelling, Cancellings
  <2>5. broadcast' \in Broadcasts /\ (broadcast'.status = "OPEN" => broadcast'.original \in Riders)
    BY <1>13, ClosedType DEF Cancel
  <2>6. search' \in Searches
    BY <1>13 DEF Cancel, Searches
  <2> QED BY <1>13, <2>1, <2>3, <2>4, <2>5, <2>6, SameTask
     DEF Cancel, NoCancelling, Orders, Gone
<1>14. CASE BeginCancel
  <2>1. cancelling' \in Cancellings
    BY <1>14 DEF BeginCancel, Cancellings, PaidFor, DeliveryRows
  <2> QED BY <1>14, <2>1, SameTask DEF BeginCancel, Inactive, Active
<1>15. CASE CancelStops
  BY <1>15, SameTask, DeedType DEF CancelStops, NoCancelling, Cancellings
<1> QED
  BY <1>1, <1>2, <1>3, <1>5, <1>6, <1>7, <1>8, <1>9, <1>10, <1>11, <1>12, <1>13, <1>14, <1>15

LEMMA TypeStep == TypeInv /\ [Next]_vars => TypeInv'
<1> SUFFICES ASSUME Steady, [Next]_vars PROVE Steady'
  BY TypedIsTypeOK, TypedIsTypeOKNext DEF TypeInv, Steady
<1>1. CASE DispatchNext /\ UNCHANGED dropVars
  BY <1>1, DispatcherType, OffersType, PlansType DEF DispatchNext
<1>2. CASE Next /\ ~(DispatchNext /\ UNCHANGED dropVars)
  BY <1>2, DropType DEF Next
<1>3. CASE UNCHANGED vars
  BY <1>3 DEF vars, dropVars, Steady, Typed, CountsBelowLimit, RidersKnown
<1> QED BY <1>1, <1>2, <1>3

\* Every variable keeps its type, whatever the rules and however many requests
\* there are at once.
THEOREM TypeCorrect == Spec => []TypeOK
<1>1. Spec => []TypeInv
  BY InitType, TypeStep, PTL DEF Spec
<1>2. TypeInv => TypeOK
  BY DEF TypeInv
<1> QED BY <1>1, <1>2, PTL

-----------------------------------------------------------------------------
(* The order and its row: OrderAgrees, MoneyFollowsGoods, TriesWithinLimit. *)

\* A step that changes neither the order, nor where the goods are.
LEMMA RowSame ==
  ASSUME RowInv, order' = order, delivery'.status = delivery.status,
         delivery'.picked = delivery.picked, UNCHANGED dropVars,
         \A q \in requests' : q.kind = "code" => q \in requests,
         delivery.picked => AttemptsOver'
  PROVE  RowInv'
BY DEF RowInv, GoodsInv, OrderAgrees, MoneyFollowsGoods, TriesWithinLimit, CancelInv, dropVars

\* A step that moves the row of an order no rider has picked up.
LEMMA RowFresh ==
  ASSUME RowInv, DropAssumption, ~delivery.picked, delivery'.picked = FALSE,
         delivery'.status \in {"OFFERED", "ACCEPTED", "REJECTED", "CANCELLED"},
         \/ order' = order
         \/ order \in {"READY", "ASSIGNED"} /\ order' \in {"READY", "ASSIGNED"},
         order' = "ASSIGNED" <=> delivery'.status = "ACCEPTED",
         delivery'.status = "ACCEPTED" => OrderFree, UNCHANGED dropVars,
         \A q \in requests' : q.kind = "code" => q \in requests
  PROVE  RowInv'
BY DEF RowInv, GoodsInv, OrderAgrees, MoneyFollowsGoods, TriesWithinLimit, CancelInv, OrderFree,
       Active, dropVars

\* AttemptsOver is about who stands before the transaction that offers.
LEMMA AttemptsStayOver ==
  ASSUME task \in [Workers -> Tasks], AttemptsOver, NEW w \in Workers, NEW t, t.at # "assign",
         task' = [task EXCEPT ![w] = t]
  PROVE  AttemptsOver'
BY DEF AttemptsOver

LEMMA SameTaskOver ==
  ASSUME AttemptsOver, task' = task
  PROVE  AttemptsOver'
BY DEF AttemptsOver

LEMMA InitRow == Init => RowInv
BY DropAssumption DEF Init, DispatchInit, NewDelivery, NewDrop, RowInv, GoodsInv, OrderAgrees,
                      MoneyFollowsGoods, TriesWithinLimit, CancelInv, NoCancelling

\* Not under way, and not with the goods.
LEMMA NotPicked ==
  ASSUME RowInv, Typed
  PROVE  /\ delivery.status \in {"OFFERED", "ACCEPTED"} => ~delivery.picked
         /\ order \in {"READY", "ASSIGNED"} => ~delivery.picked
         /\ ~AttemptsOver => ~delivery.picked
         /\ ~Inactive /\ delivery.status # "PICKED_UP" => ~delivery.picked
BY DEF RowInv, GoodsInv, Inactive, Active

\* A row that is released.
LEMMA ReleasedRow ==
  ASSUME Typed, RowInv, Released, delivery.status # "PICKED_UP", UNCHANGED dropVars,
         requests' = requests, delivery.picked => AttemptsOver'
  PROVE  RowInv'
<1>1. CASE Inactive
  <2>1. delivery' = delivery /\ order' = order
    BY <1>1 DEF Released
  <2> QED BY <2>1, RowSame
<1>2. CASE ~Inactive
  <2>1. /\ delivery'.picked = delivery.picked /\ delivery'.status = "CANCELLED"
        /\ order' = IF order = "ASSIGNED" THEN "READY" ELSE order
    BY <1>2, ReleasedType DEF Typed
  <2>2. ~delivery.picked
    BY <1>2, NotPicked
  <2>3. delivery'.picked = FALSE
    BY <2>1, <2>2 DEF Typed, DeliveryRows
  <2> QED BY <2>1, <2>2, <2>3, RowFresh, DropAssumption
<1> QED BY <1>1, <1>2

LEMMA DispatcherRow ==
  ASSUME Typed, RowInv, UNCHANGED dropVars, NEW w \in Workers,
         Look(w) \/ FindRiderNow(w) \/ Ensure(w) \/ Count(w) \/ Assign(w) \/ Crash(w)
           \/ ReassignOrder(w)
  PROVE  RowInv'
<1>1. task \in [Workers -> Tasks] /\ task[w] \in Tasks /\ delivery \in DeliveryRows
  BY DEF Typed
<1>2. delivery.picked => AttemptsOver
  BY DEF RowInv, GoodsInv
<1>3. ASSUME NEW t, t.at # "assign", task' = [task EXCEPT ![w] = t],
             UNCHANGED <<order, delivery, requests>>
      PROVE  RowInv'
  BY <1>1, <1>2, <1>3, AttemptsStayOver, RowSame
<1>4. ASSUME NEW manual \in BOOLEAN, LookFor(w, manual) PROVE RowInv'
  BY <1>3, <1>4 DEF LookFor
<1>5. CASE Look(w) \/ FindRiderNow(w)
  BY <1>4, <1>5 DEF Look, FindRiderNow
<1>6. CASE Ensure(w)
  <2> DEFINE t == [task[w] EXCEPT !.at = "count",
                                  !.attempts = EnsuredSearch(task[w].manual).attempts]
  <2>1. t.at = "count"
    BY <1>1 DEF Tasks
  <2>2. \/ task' = [task EXCEPT ![w] = t]
        \/ task' = [task EXCEPT ![w] = Idle]
    BY <1>1, <1>6 DEF Ensure
  <2> HIDE DEF t
  <2> QED BY <1>3, <1>6, <2>1, <2>2, IdleType DEF Ensure
<1>7. CASE Count(w)
  <2>1. CASE order = "READY"
    BY <1>7, <2>1, NotPicked, RowSame DEF Count
  <2>2. CASE order # "READY"
    BY <1>3, <1>7, <2>2, IdleType DEF Count
  <2> QED BY <2>1, <2>2
<1>8. CASE Assign(w)
  <2>1. ~delivery.picked
    BY <1>2, <1>8 DEF Assign, AttemptsOver
  <2>2. CASE UNCHANGED delivery
    BY <1>3, <1>8, <2>2, IdleType DEF Assign
  <2>3. CASE Assignable /\ \E r \in Candidates : delivery' = Offer(r)
    <3>1. delivery'.status = "OFFERED" /\ delivery'.picked = FALSE
      BY <1>1, <2>3, OfferType DEF Candidates
    <3>2. order # "ASSIGNED"
      BY <2>3 DEF Assignable, Inactive, Active, RowInv, OrderAgrees
    <3> QED BY <1>8, <2>1, <3>1, <3>2, RowFresh, DropAssumption DEF Assign
  <2> QED BY <1>8, <2>2, <2>3 DEF Assign
<1>9. CASE Crash(w)
  BY <1>3, <1>9, IdleType DEF Crash
<1>10. CASE ReassignOrder(w)
  <2>1. CASE order' = "READY"
    <3>1. ~delivery.picked
      BY <1>10, <2>1, NotPicked DEF ReassignOrder, Released
    <3> QED BY <1>10, <3>1, ReleasedRow DEF ReassignOrder
  <2>2. CASE order' # "READY"
    BY <1>2, <1>10, <2>2, SameTaskOver, ReleasedRow DEF ReassignOrder
  <2> QED BY <2>1, <2>2
<1> QED BY <1>5, <1>6, <1>7, <1>8, <1>9, <1>10

LEMMA OffersRow ==
  ASSUME Typed, RowInv, UNCHANGED dropVars,
         \/ CloseStaleSearch \/ SearchAges \/ OfferAges \/ ExpireOffer \/ WithdrawOffer
         \/ \E r \in Riders : AcceptOffer(r) \/ AcceptBroadcast(r) \/ DeclineBroadcast(r)
         \/ \E r \in Riders : Tap(r, "reject") \/ Tap(r, "pickUp")
         \/ \E q \in requests : RejectOffer(q)
         \/ StartBroadcast \/ WidenBroadcast \/ ExpireBroadcast
         \/ CloseBroadcast \/ ExpireRecipients \/ CloseStops
  PROVE  RowInv'
<1>1. delivery \in DeliveryRows /\ search \in Searches
  BY DEF Typed
<1>2. delivery.picked => AttemptsOver
  BY DEF RowInv, GoodsInv
<1>3. ASSUME order' = order, delivery'.status = delivery.status,
             delivery'.picked = delivery.picked, task' = task, requests' \in SUBSET requests
      PROVE  RowInv'
  BY <1>2, <1>3, SameTaskOver, RowSame
<1>4. CASE \/ CloseStaleSearch \/ SearchAges \/ WidenBroadcast
           \/ CloseBroadcast \/ ExpireRecipients \/ CloseStops
  BY <1>3, <1>4 DEF CloseStaleSearch, SearchAges, WidenBroadcast, CloseBroadcast,
                    ExpireRecipients, CloseStops
<1>5. CASE OfferAges \/ ExpireBroadcast \/ \E r \in Riders : DeclineBroadcast(r)
  <2>1. delivery'.status = delivery.status /\ delivery'.picked = delivery.picked
    BY <1>1, <1>5 DEF OfferAges, ExpireBroadcast, DeclineBroadcast, DeliveryRows
  <2> QED BY <1>3, <1>5, <2>1 DEF OfferAges, ExpireBroadcast, DeclineBroadcast
<1>6. CASE \E r \in Riders : Tap(r, "reject") \/ Tap(r, "pickUp")
  <2>1. \A q \in requests' : q.kind = "code" => q \in requests
    BY <1>6 DEF Tap
  <2> QED BY <1>2, <1>6, <2>1, SameTaskOver, RowSame DEF Tap
<1>7. ASSUME NEW s \in {"REJECTED", "CANCELLED"}, NEW R \in SUBSET Riders,
             delivery.status = "OFFERED", delivery' = TurnedDown(s, R),
             order' = order, requests' \in SUBSET requests
      PROVE  RowInv'
  <2>1. delivery'.status = s /\ delivery'.picked = delivery.picked
    BY <1>1, <1>7, TurnedDownType DEF Deliveries, Gone
  <2>2. ~delivery.picked /\ delivery'.picked = FALSE /\ order # "ASSIGNED"
    BY <1>1, <1>7, <2>1, NotPicked DEF DeliveryRows, RowInv, OrderAgrees
  <2> QED BY <1>7, <2>1, <2>2, RowFresh, DropAssumption
<1>8. CASE WithdrawOffer \/ StartBroadcast
  BY <1>7, <1>8 DEF WithdrawOffer, StartBroadcast
<1>9. CASE ExpireOffer \/ \E q \in requests : RejectOffer(q)
  <2>1. delivery.rider \in Riders \union {NoRider} /\ delivery.status = "OFFERED"
    BY <1>1, <1>9 DEF DeliveryRows, ExpireOffer, RejectOffer
  <2>2. /\ TurnedDown("REJECTED", {delivery.rider}).status = "REJECTED"
        /\ TurnedDown("REJECTED", {delivery.rider}).picked = delivery.picked
    BY <1>1 DEF TurnedDown, DeliveryRows
  <2>3. ~delivery.picked /\ delivery'.picked = FALSE /\ order # "ASSIGNED"
        /\ delivery'.status = "REJECTED"
    BY <1>1, <1>9, <2>1, <2>2, NotPicked
       DEF DeliveryRows, RowInv, OrderAgrees, ExpireOffer, RejectOffer
  <2> QED BY <1>9, <2>3, RowFresh, DropAssumption DEF ExpireOffer, RejectOffer
<1>10. ASSUME NEW d \in DeliveryRows, Accepted(d), d.picked = FALSE, requests' = requests
       PROVE  RowInv'
  <2>1. /\ delivery'.status = "ACCEPTED" /\ delivery'.picked = FALSE
        /\ order = "READY" /\ order' = "ASSIGNED" /\ OrderFree
    BY <1>1, <1>10, AcceptedType DEF Accepted
  <2> QED BY <1>10, <2>1, NotPicked, RowFresh, DropAssumption
<1>11. ASSUME NEW r \in Riders, AcceptOffer(r) PROVE RowInv'
  <2>1. delivery.picked = FALSE
    BY <1>1, <1>11, NotPicked DEF AcceptOffer, DeliveryRows
  <2> QED BY <1>1, <1>10, <1>11, <2>1 DEF AcceptOffer
<1>12. ASSUME NEW r \in Riders, AcceptBroadcast(r) PROVE RowInv'
  <2>1. CASE Accepted(Offer(r))
    BY <1>1, <1>10, <1>12, <2>1, OfferType DEF AcceptBroadcast
  <2>2. CASE UNCHANGED <<order, delivery, search>>
    BY <1>3, <1>12, <2>2 DEF AcceptBroadcast
  <2> QED BY <1>12, <2>1, <2>2 DEF AcceptBroadcast
<1> QED BY <1>4, <1>5, <1>6, <1>8, <1>9, <1>11, <1>12

LEMMA PlansRow ==
  ASSUME Typed, RowInv, UNCHANGED dropVars, PlanOwn \/ PlanPartner \/ StopRiderSearch
  PROVE  RowInv'
<1>1. delivery.picked => AttemptsOver
  BY DEF RowInv, GoodsInv
<1>2. CASE PlanOwn
  BY <1>1, <1>2, SameTaskOver, ReleasedRow DEF PlanOwn, MayPlan
<1>3. CASE PlanPartner
  BY <1>1, <1>3, SameTaskOver, ReleasedRow, RowSame DEF PlanPartner, MayPlan
<1>4. CASE StopRiderSearch
  BY <1>1, <1>4, SameTaskOver, RowSame DEF StopRiderSearch
<1> QED BY <1>2, <1>3, <1>4

LEMMA DropRow ==
  ASSUME Typed, RowInv,
         \/ \E q \in requests : PickUp(q) \/ RequestEnds(q) \/ WrongCode(q) \/ RightCode(q)
         \/ StartDelivery \/ NewCode \/ ConfirmByOperator \/ MarkFailed
         \/ \E right \in BOOLEAN : EnterCode(right)
         \/ SendOut \/ HandOver \/ BeginCancel \/ Cancel \/ CancelStops
  PROVE  RowInv'
<1> USE DropAssumption DEF RowInv, GoodsInv, OrderAgrees, MoneyFollowsGoods, TriesWithinLimit,
                           CancelInv, OrderFree
<1>1. delivery \in DeliveryRows /\ drop \in Drops /\ task' = task /\ delivery.picked \in BOOLEAN
  BY DEF Typed, DeliveryRows, PickUp, RequestEnds, WrongCode, RightCode, StartDelivery, NewCode,
         ConfirmByOperator, MarkFailed, EnterCode, SendOut, HandOver,
         BeginCancel, Cancel, CancelStops
<1>2. AttemptsOver' = AttemptsOver
  BY <1>1 DEF AttemptsOver
<1>3. ASSUME NEW q \in requests, PickUp(q) PROVE RowInv'
  <2>1. delivery'.status = "PICKED_UP" /\ delivery'.picked = TRUE
    BY <1>1, <1>3 DEF PickUp, DeliveryRows
  <2>2. ~delivery.picked
    BY <1>3 DEF PickUp
  <2> QED BY <1>2, <1>3, <2>1, <2>2 DEF PickUp, dropVars
<1>4. ASSUME NEW q \in requests, RequestEnds(q) PROVE RowInv'
  BY <1>2, <1>4 DEF RequestEnds, dropVars
<1>5. ASSUME NEW q \in requests, WrongCode(q) PROVE RowInv'
  <2>1. delivery.picked
    BY <1>5 DEF WrongCode
  <2>2. Counts => drop.tries + 1 \in Nat
    BY <1>1 DEF Drops
  <2>3. drop.locked' = (drop.locked \/ (IF Counts THEN drop.tries + 1 ELSE MaxTries) = MaxTries)
    BY <1>1, <1>5 DEF WrongCode, Drops
  <2>4. drop.tries' = IF Counts THEN drop.tries + 1 ELSE drop.tries
    BY <1>1, <1>5 DEF WrongCode, Drops
  <2>5. drop.tries \in 0..MaxTries /\ drop.locked \in BOOLEAN
    BY <1>1 DEF Drops
  <2>6. TriesWithinLimit'
    <3>1. delivery' = delivery
      BY <1>5 DEF WrongCode
    <3>2. CASE Counts
      <4>1. drop.locked' = (drop.tries + 1 = MaxTries) /\ drop.tries' = drop.tries + 1
        BY <2>3, <2>4, <2>5, <3>2 DEF Counts
      <4> QED BY <4>1
    <3>3. CASE ~Counts
      <4>1. drop.locked' = TRUE /\ drop.tries' = drop.tries
        BY <2>3, <2>4, <3>3
      <4>2. delivery.status = "PICKED_UP" => drop.tries = MaxTries
        BY <2>5, <3>3 DEF Counts
      <4> QED BY <3>1, <4>1, <4>2
    <3> QED BY <3>2, <3>3
  <2> QED BY <1>2, <1>5, <2>1, <2>6 DEF WrongCode
<1>6. ASSUME NEW via, Dropped(via), requests' \in SUBSET requests PROVE RowInv'
  <2>1. delivery'.status = "DELIVERED" /\ delivery'.picked = delivery.picked
    BY <1>1, <1>6 DEF Dropped, DeliveryRows
  <2>2. /\ cash' = "RIDER" /\ order' = "DELIVERED" /\ earned' = TRUE /\ delivery.picked
        /\ OrderFree /\ cancelling' = cancelling
    BY <1>6, <2>1 DEF Dropped, Delivered
  <2> QED BY <1>2, <1>6, <2>1, <2>2
<1>7. ASSUME NEW q \in requests, RightCode(q) PROVE RowInv'
  BY <1>6, <1>7 DEF RightCode
<1>8. CASE ConfirmByOperator
  BY <1>6, <1>8 DEF ConfirmByOperator
<1>9. CASE StartDelivery \/ NewCode
  <2>1. drop'.tries = drop.tries /\ drop'.locked = drop.locked
    BY <1>1, <1>9 DEF StartDelivery, NewCode, Drops
  <2> QED BY <1>2, <1>9, <2>1 DEF StartDelivery, NewCode
<1>10. CASE MarkFailed
  <2>1. delivery'.status = "FAILED" /\ delivery'.picked = delivery.picked
    BY <1>1, <1>10 DEF MarkFailed, DeliveryRows
  <2> QED BY <1>2, <1>10, <2>1 DEF MarkFailed
<1>11. ASSUME NEW right \in BOOLEAN, EnterCode(right) PROVE RowInv'
  BY <1>2, <1>11 DEF EnterCode, dropVars
<1>12. CASE SendOut
  BY <1>2, <1>12 DEF SendOut, dropVars
<1>13. CASE HandOver
  BY <1>2, <1>13 DEF HandOver, NoRiderHolds, Delivered
<1>14. CASE Cancel
  <2>1. CASE ~cancelling.active
    BY <1>2, <1>14, <2>1 DEF Cancel, NoCancelling
  <2>2. CASE cancelling.active
    <3>1. delivery'.status = "CANCELLED" /\ delivery'.picked = delivery.picked
      BY <1>1, <1>14, <2>2 DEF Cancel, TurnedDown, DeliveryRows
    <3>2. drop'.tries = drop.tries /\ drop'.locked = drop.locked
      BY <1>1, <1>14, <2>2 DEF Cancel, Drops
    <3>3. earned' <=> delivery.picked
      BY <1>14, <2>2 DEF Cancel, Active
    <3> QED BY <1>1, <1>2, <1>14, <2>2, <3>1, <3>2, <3>3 DEF Cancel, NoCancelling
  <2> QED BY <2>1, <2>2
<1>15. CASE BeginCancel
  <2>1. /\ cancelling'.active <=> ~Inactive
        /\ cancelling'.picked <=> ~Inactive /\ delivery.picked
    BY <1>15 DEF BeginCancel, PaidFor
  <2> QED BY <1>2, <1>15, <2>1 DEF BeginCancel, Inactive, Active
<1>16. CASE CancelStops
  BY <1>2, <1>16 DEF CancelStops, NoCancelling
<1> QED
  BY <1>3, <1>4, <1>5, <1>7, <1>8, <1>9, <1>10, <1>11, <1>12, <1>13, <1>14, <1>15, <1>16

LEMMA RowStep == TypeInv /\ RowInv /\ [Next]_vars => RowInv'
<1> SUFFICES ASSUME Typed, RowInv, [Next]_vars PROVE RowInv'
  BY TypedIsTypeOK DEF TypeInv
<1>1. CASE DispatchNext /\ UNCHANGED dropVars
  BY <1>1, DispatcherRow, OffersRow, PlansRow DEF DispatchNext
<1>2. CASE Next /\ ~(DispatchNext /\ UNCHANGED dropVars)
  BY <1>2, DropRow DEF Next
<1>3. CASE UNCHANGED vars
  <2>1. delivery.picked => AttemptsOver'
    BY <1>3, SameTaskOver DEF vars, RowInv, GoodsInv
  <2> QED BY <1>3, <2>1, RowSame DEF vars, dropVars
<1> QED BY <1>1, <1>2, <1>3

LEMMA RowHolds == Spec => [](TypeInv /\ RowInv)
BY InitType, InitRow, TypeStep, RowStep, PTL DEF Spec

\* Order and delivery row tell one story, for any number of riders and of
\* dispatch requests at once: every transaction of the code moves both or none.
THEOREM OrderAndRowAgree == Spec => []OrderAgrees
<1>1. RowInv => OrderAgrees
  BY DEF RowInv
<1> QED BY <1>1, RowHolds, PTL

\* The rider is paid exactly for trips with the goods that have ended, the cash
\* is on whoever delivered (delivery-earnings.ts, cod.ts).
THEOREM MoneyIsWithTheGoods == Spec => []MoneyFollowsGoods
<1>1. RowInv => MoneyFollowsGoods
  BY DEF RowInv
<1> QED BY <1>1, RowHolds, PTL

\* However many codes are entered at once, tries stay within the limit and a
\* drop is locked exactly when they are used up (delivery-otp.ts).
THEOREM TriesAreLimited == Spec => []TriesWithinLimit
<1>1. RowInv => TriesWithinLimit
  BY DEF RowInv
<1> QED BY <1>1, RowHolds, PTL

-----------------------------------------------------------------------------
(* The broadcast has one winner.                                           *)

\* A broadcast that ends without one, in one transaction.
LEMMA ClosedWinner ==
  ASSUME broadcast \in Broadcasts, WinnerInv, broadcast.status = "OPEN",
         NEW s \in {"EXPIRED", "CANCELLED"}, broadcast' = Closed(s)
  PROVE  WinnerInv'
<1>1. /\ broadcast'.status = s /\ broadcast'.closing = "NO"
      /\ broadcast'.outcome = Unanswered(broadcast.outcome, "EXPIRED")
  BY ClosedType DEF WinnerInv
<1>2. \A r \in Riders :
        broadcast'.outcome[r] = IF broadcast.outcome[r] = "OFFERED" THEN "EXPIRED"
                                ELSE broadcast.outcome[r]
  BY <1>1 DEF Unanswered
<1> QED BY <1>1, <1>2 DEF WinnerInv

\* The first of two updates.
LEMMA HalfClosedWinner ==
  ASSUME broadcast \in Broadcasts, WinnerInv, broadcast.status = "OPEN", broadcast' = HalfClosed
  PROVE  WinnerInv'
BY HalfClosedType DEF WinnerInv

LEMMA WinnerStep == TypeInv /\ WinnerInv /\ [Next]_vars => WinnerInv'
<1> SUFFICES ASSUME Typed, WinnerInv, [Next]_vars PROVE WinnerInv'
  BY TypedIsTypeOK DEF TypeInv
<1>1. broadcast \in Broadcasts /\ broadcast.outcome \in [Riders -> Outcomes]
  BY DEF Typed, Broadcasts
<1>2. CASE broadcast' = broadcast
  BY <1>2 DEF WinnerInv
<1>3. ASSUME NEW r \in Riders, AcceptBroadcast(r) PROVE WinnerInv'
  <2>1. CASE broadcast' = Taken(r)
    <3>1. /\ broadcast'.status = "TAKEN" /\ broadcast'.closing = "NO"
          /\ broadcast'.outcome =
               Unanswered([broadcast.outcome EXCEPT ![r] = "ACCEPTED"], "TAKEN_BY_OTHER")
      BY <1>1, <1>3, <2>1, TakenType DEF AcceptBroadcast, WinnerInv
    <3> DEFINE f == [broadcast.outcome EXCEPT ![r] = "ACCEPTED"]
    <3>2. \A s \in Riders :
            broadcast'.outcome[s] = IF f[s] = "OFFERED" THEN "TAKEN_BY_OTHER" ELSE f[s]
      BY <3>1 DEF Unanswered
    <3>3. f[r] = "ACCEPTED" /\ \A s \in Riders \ {r} : f[s] = broadcast.outcome[s]
      BY <1>1
    <3>4. \A s \in Riders : broadcast.outcome[s] # "ACCEPTED"
      BY <1>3 DEF AcceptBroadcast, WinnerInv
    <3> HIDE DEF f
    <3> QED BY <3>1, <3>2, <3>3, <3>4 DEF WinnerInv
  <2>2. CASE broadcast' = HalfClosed
    BY <1>1, <1>3, <2>2, HalfClosedWinner DEF AcceptBroadcast
  <2> QED BY <1>3, <2>1, <2>2 DEF AcceptBroadcast
<1>4. ASSUME NEW r \in Riders, DeclineBroadcast(r) PROVE WinnerInv'
  <2>1. /\ broadcast'.status = broadcast.status /\ broadcast'.closing = broadcast.closing
        /\ broadcast'.outcome = [broadcast.outcome EXCEPT ![r] = "DECLINED"]
    BY <1>1, <1>4 DEF DeclineBroadcast, Broadcasts
  <2>2. broadcast.status # "TAKEN"
    BY <1>4 DEF DeclineBroadcast, WinnerInv
  <2> QED BY <1>1, <2>1, <2>2 DEF WinnerInv
<1>5. CASE StartBroadcast
  <2>1. PICK S \in SUBSET Candidates :
          broadcast' = [status |-> "OPEN", step |-> 1, original |-> delivery.rider,
                        outcome |-> Reach(NoBroadcast.outcome, S), closing |-> "NO"]
    BY <1>5 DEF StartBroadcast
  <2>2. \A r \in Riders : broadcast'.outcome[r] \in {"OFFERED", "none"}
    BY <2>1 DEF Reach, NoBroadcast
  <2> QED BY <2>1, <2>2 DEF WinnerInv
<1>6. CASE WidenBroadcast
  <2>1. PICK S \in SUBSET {r \in Candidates : broadcast.outcome[r] = "none"} :
          broadcast' = [broadcast EXCEPT !.step = @ + 1, !.outcome = Reach(@, S)]
    BY <1>6 DEF WidenBroadcast
  <2>2. /\ broadcast'.status = "OPEN" /\ broadcast'.closing = broadcast.closing
        /\ broadcast'.outcome = Reach(broadcast.outcome, S)
    BY <1>1, <1>6, <2>1 DEF WidenBroadcast, Broadcasts
  <2>3. \A r \in Riders :
          broadcast'.outcome[r] = IF r \in S THEN "OFFERED" ELSE broadcast.outcome[r]
    BY <2>2 DEF Reach
  <2>4. broadcast.closing = "NO" /\ \A r \in Riders : broadcast.outcome[r] # "ACCEPTED"
    BY <1>6 DEF WidenBroadcast, WinnerInv
  <2> QED BY <2>2, <2>3, <2>4 DEF WinnerInv
<1>7. CASE CloseBroadcast \/ ExpireBroadcast
  BY <1>1, <1>7, ClosedWinner, HalfClosedWinner DEF CloseBroadcast, ExpireBroadcast
<1>7a. CASE ExpireRecipients
  <2>1. /\ broadcast'.status = broadcast.status /\ broadcast'.closing = "NO"
        /\ broadcast'.outcome = Unanswered(broadcast.outcome, "EXPIRED")
    BY <1>1, <1>7a DEF ExpireRecipients, Broadcasts
  <2>2. \A r \in Riders :
          broadcast'.outcome[r] = IF broadcast.outcome[r] = "OFFERED" THEN "EXPIRED"
                                  ELSE broadcast.outcome[r]
    BY <2>1 DEF Unanswered
  <2>3. broadcast.status = "CANCELLED"
    BY <1>7a DEF ExpireRecipients, WinnerInv
  <2> QED BY <2>1, <2>2, <2>3 DEF WinnerInv
<1>7b. CASE CloseStops
  <2>1. /\ broadcast'.status = broadcast.status /\ broadcast'.closing = "STOPPED"
        /\ broadcast'.outcome = broadcast.outcome
    BY <1>1, <1>7b DEF CloseStops, Broadcasts
  <2> QED BY <1>7b, <2>1 DEF CloseStops, WinnerInv
<1>8. CASE Cancel
  BY <1>1, <1>2, <1>8, ClosedWinner DEF Cancel
<1>9. CASE DispatchNext
  BY <1>2, <1>3, <1>4, <1>5, <1>6, <1>7, <1>7a, <1>7b, <1>9
  DEF DispatchNext, Look, FindRiderNow, LookFor, Ensure, Count, Assign, Crash, ReassignOrder,
      CloseStaleSearch, SearchAges, OfferAges, ExpireOffer, WithdrawOffer, AcceptOffer, Tap,
      RejectOffer, PlanOwn, PlanPartner, StopRiderSearch
<1>10. CASE Next /\ ~DispatchNext
  BY <1>2, <1>8, <1>10
  DEF Next, PickUp, RequestEnds, WrongCode, RightCode, StartDelivery, NewCode,
      ConfirmByOperator, MarkFailed, EnterCode, SendOut, HandOver, BeginCancel, CancelStops
<1>11. CASE UNCHANGED vars
  BY <1>2, <1>11 DEF vars
<1> QED BY <1>9, <1>10, <1>11

\* Of any number of riders a broadcast reached at most one is told that he has
\* the order, and exactly when it is TAKEN; nobody waits for an answer when it
\* is TAKEN, EXPIRED or closed with the order's cancellation.  Recipients still
\* wait when its closing outside a transaction is between its two updates or
\* stopped there (dispatch-broadcast.ts, acceptBroadcastOffer, closeBroadcast).
THEOREM BroadcastHasOneWinner == Spec => []OneWinner
<1>1. Init => WinnerInv
  BY DEF Init, DispatchInit, NoBroadcast, WinnerInv
<1>2. WinnerInv => OneWinner
  <2> SUFFICES ASSUME WinnerInv PROVE OneWinner
    OBVIOUS
  <2> DEFINE winners == {r \in Riders : broadcast.outcome[r] = "ACCEPTED"}
  <2>1. CASE broadcast.status = "TAKEN"
    <3>1. PICK r \in Riders : winners = {r}
      BY <2>1 DEF WinnerInv
    <3>2. Cardinality(winners) = 1
      BY <3>1, FS_Singleton
    <3> QED BY <2>1, <3>2 DEF OneWinner, WinnerInv
  <2>2. CASE broadcast.status # "TAKEN"
    <3>1. winners = {}
      BY <2>2 DEF WinnerInv
    <3>2. Cardinality(winners) = 0
      BY <3>1, FS_EmptySet
    <3> QED BY <2>2, <3>2 DEF OneWinner, WinnerInv
  <2> QED BY <2>1, <2>2
<1> QED BY <1>1, <1>2, InitType, TypeStep, WinnerStep, PTL DEF Spec

-----------------------------------------------------------------------------
(* What a step may never do.                                               *)

\* Whatever the tries and new codes that overlap, a drop ends DELIVERED by the
\* customer's present code on a drop that is not locked, or by operations.
THEOREM OnlyLiveCodesDeliver == Spec => DeliveredByLiveCode
<1> DEFINE Live == delivery'.status = "DELIVERED" /\ delivery.status # "DELIVERED" =>
                     \/ drop'.via = "OPERATOR_OVERRIDE"
                     \/ ~drop.locked /\ \E q \in requests : q.right /\ q.code = drop.code
<1>1. TypeInv /\ [Next]_vars => Live
  <2> SUFFICES ASSUME Typed, [Next]_vars PROVE Live
    BY TypedIsTypeOK DEF TypeInv
  <2>1. delivery \in DeliveryRows /\ drop \in Drops /\ search \in Searches
    BY DEF Typed
  <2>2. CASE delivery'.status = delivery.status
    BY <2>2
  <2>3. ASSUME NEW s \in {"REJECTED", "CANCELLED"}, NEW R, delivery' = TurnedDown(s, R)
        PROVE  Live
    BY <2>1, <2>3 DEF TurnedDown, DeliveryRows
  <2>4. ASSUME NEW d \in DeliveryRows, Accepted(d) PROVE Live
    BY <2>1, <2>4, AcceptedType
  <2>5. CASE Released
    BY <2>2, <2>3, <2>5 DEF Released
  <2>6. ASSUME NEW w \in Workers, Assign(w) PROVE Live
    BY <2>1, <2>2, <2>6, OfferType DEF Assign, Candidates
  <2>7. ASSUME NEW r \in Riders, AcceptOffer(r) \/ AcceptBroadcast(r) \/ DeclineBroadcast(r)
        PROVE  Live
    <3>1. CASE AcceptOffer(r)
      BY <2>1, <2>4, <3>1 DEF AcceptOffer
    <3>2. CASE AcceptBroadcast(r)
      BY <2>1, <2>2, <2>4, <3>2, OfferType DEF AcceptBroadcast
    <3>3. CASE DeclineBroadcast(r)
      BY <2>1, <2>2, <3>3 DEF DeclineBroadcast, DeliveryRows
    <3> QED BY <2>7, <3>1, <3>2, <3>3
  <2>8. CASE OfferAges \/ ExpireBroadcast
    BY <2>1, <2>2, <2>8 DEF OfferAges, ExpireBroadcast, DeliveryRows
  <2>9. CASE DispatchNext
    BY <2>2, <2>3, <2>5, <2>6, <2>7, <2>8, <2>9
    DEF DispatchNext, Look, FindRiderNow, LookFor, Ensure, Count, Crash, ReassignOrder,
        CloseStaleSearch, SearchAges, ExpireOffer, WithdrawOffer, Tap, RejectOffer,
        StartBroadcast, CloseBroadcast, ExpireRecipients, CloseStops, WidenBroadcast, PlanOwn,
        PlanPartner, StopRiderSearch
  <2>10. ASSUME NEW q \in requests, RightCode(q) PROVE Live
    BY <2>10 DEF RightCode, Spends
  <2>11. CASE ConfirmByOperator
    BY <2>1, <2>11 DEF ConfirmByOperator, Dropped, Drops
  <2>12. CASE MarkFailed \/ \E q \in requests : PickUp(q)
    BY <2>1, <2>12 DEF MarkFailed, PickUp, DeliveryRows
  <2>13. CASE Cancel
    BY <2>2, <2>3, <2>13 DEF Cancel
  <2>14. CASE Next /\ ~DispatchNext
    BY <2>2, <2>10, <2>11, <2>12, <2>13, <2>14
    DEF Next, RequestEnds, WrongCode, StartDelivery, NewCode, EnterCode, SendOut, HandOver,
        BeginCancel, CancelStops
  <2>15. CASE UNCHANGED vars
    BY <2>2, <2>15 DEF vars
  <2> QED BY <2>9, <2>14, <2>15
<1> QED BY <1>1, InitType, TypeStep, PTL DEF Spec, DeliveredByLiveCode

\* For any number of riders and overlapping attempts none displaces a rider who
\* accepted and none reopens a drop that ended: the delivery row makes the
\* registered moves, and one that is not registered, a cancellation's CANCELLED
\* over a row that was declined after the cancellation read it (orders.ts).
THEOREM NoMoveDisplacesARider == Spec => NoRiderDisplaced
<1> DEFINE Move == \/ /\ delivery'.status = delivery.status
                      /\ Inactive \/ delivery'.rider = delivery.rider
                   \/ <<delivery.status, delivery'.status>> \in Moves
                   \/ /\ delivery.status = "REJECTED" /\ delivery'.status = "CANCELLED"
                      /\ order # "CANCELLED" /\ order' = "CANCELLED"
<1>1. TypeInv /\ RowInv /\ [Next]_vars => Move
  <2> SUFFICES ASSUME Typed, RowInv, [Next]_vars PROVE Move
    BY TypedIsTypeOK DEF TypeInv
  <2>1. delivery \in DeliveryRows /\ search \in Searches
    BY DEF Typed
  <2>2. CASE delivery'.status = delivery.status /\ delivery'.rider = delivery.rider
    BY <2>2
  <2>3. ASSUME NEW s \in {"REJECTED", "CANCELLED"}, NEW R, delivery' = TurnedDown(s, R),
               \/ delivery.status = "OFFERED"
               \/ delivery.status \in {"ACCEPTED", "PICKED_UP"} /\ s = "CANCELLED"
        PROVE  Move
    <3>1. delivery'.status = s
      BY <2>1, <2>3 DEF TurnedDown, DeliveryRows
    <3> QED BY <2>3, <3>1 DEF Moves
  <2>4. CASE Released
    BY <2>2, <2>3, <2>4 DEF Released, Inactive, Active
  <2>5. ASSUME NEW w \in Workers, Assign(w) PROVE Move
    <3>1. CASE UNCHANGED delivery
      BY <2>2, <3>1
    <3>2. CASE Assignable /\ \E r \in Candidates : delivery' = Offer(r)
      <4>1. ~delivery.picked
        BY <2>5 DEF Assign, RowInv, GoodsInv, AttemptsOver
      <4>2. delivery.status \in {"NONE", "REJECTED", "CANCELLED"}
        BY <2>1, <3>2, <4>1
        DEF Assignable, Inactive, Active, RowInv, GoodsInv, DeliveryRows, Deliveries, Gone
      <4>3. delivery'.status = "OFFERED"
        BY <2>1, <3>2, OfferType DEF Candidates
      <4> QED BY <4>2, <4>3 DEF Moves
    <3> QED BY <2>5, <3>1, <3>2 DEF Assign
  <2>6. ASSUME NEW r \in Riders, AcceptOffer(r) PROVE Move
    <3>1. delivery'.status = "ACCEPTED" /\ delivery.status = "OFFERED"
      BY <2>1, <2>6, AcceptedType DEF AcceptOffer
    <3> QED BY <3>1 DEF Moves
  <2>7. ASSUME NEW r \in Riders, AcceptBroadcast(r) PROVE Move
    <3>1. CASE ~Superseded /\ Accepted(Offer(r))
      <4>1. delivery'.status = "ACCEPTED"
        BY <2>1, <3>1, OfferType, AcceptedType
      <4> QED BY <3>1, <4>1 DEF Superseded, Moves
    <3>2. CASE UNCHANGED <<order, delivery, search>>
      BY <2>2, <3>2
    <3> QED BY <2>7, <3>1, <3>2 DEF AcceptBroadcast
  <2>8. CASE OfferAges \/ ExpireBroadcast \/ \E r \in Riders : DeclineBroadcast(r)
    BY <2>1, <2>2, <2>8 DEF OfferAges, ExpireBroadcast, DeclineBroadcast, DeliveryRows
  <2>9. CASE DispatchNext
    BY <2>2, <2>3, <2>4, <2>5, <2>6, <2>7, <2>8, <2>9
    DEF DispatchNext, Look, FindRiderNow, LookFor, Ensure, Count, Crash, ReassignOrder,
        CloseStaleSearch, SearchAges, ExpireOffer, WithdrawOffer, Tap, RejectOffer,
        StartBroadcast, CloseBroadcast, ExpireRecipients, CloseStops, WidenBroadcast, PlanOwn,
        PlanPartner, StopRiderSearch
  <2>10. ASSUME NEW via, Dropped(via) PROVE Move
    <3>1. delivery.status = "PICKED_UP" /\ delivery'.status = "DELIVERED"
      BY <2>1, <2>10 DEF Dropped, DeliveryRows
    <3> QED BY <3>1 DEF Moves
  <2>11. CASE MarkFailed
    <3>1. delivery.status = "PICKED_UP" /\ delivery'.status = "FAILED"
      BY <2>1, <2>11 DEF MarkFailed, DeliveryRows
    <3> QED BY <3>1 DEF Moves
  <2>12. ASSUME NEW q \in requests, PickUp(q) PROVE Move
    <3>1. delivery.status = "ACCEPTED" /\ delivery'.status = "PICKED_UP"
      BY <2>1, <2>12 DEF PickUp, DeliveryRows
    <3> QED BY <3>1 DEF Moves
  <2>13. CASE Cancel
    <3>1. CASE ~cancelling.active
      BY <2>2, <2>13, <3>1 DEF Cancel
    <3>2. CASE cancelling.active
      <4>1. delivery'.status = "CANCELLED" /\ order # "CANCELLED" /\ order' = "CANCELLED"
        BY <2>1, <2>13, <3>2 DEF Cancel, TurnedDown, DeliveryRows, RowInv, CancelInv
      <4>2. delivery.status \in Active \union {"REJECTED", "CANCELLED"}
        BY <2>13, <3>2 DEF Cancel, RowInv, CancelInv
      <4> QED BY <4>1, <4>2 DEF Moves, Inactive, Active
    <3> QED BY <3>1, <3>2
  <2>14. CASE Next /\ ~DispatchNext
    BY <2>2, <2>10, <2>11, <2>12, <2>13, <2>14
    DEF Next, RequestEnds, WrongCode, RightCode, StartDelivery, NewCode, ConfirmByOperator,
        EnterCode, SendOut, HandOver, BeginCancel, CancelStops
  <2>15. CASE UNCHANGED vars
    BY <2>2, <2>15 DEF vars
  <2> QED BY <2>9, <2>14, <2>15
<1> QED BY <1>1, RowHolds, PTL DEF Spec, NoRiderDisplaced
=============================================================================
