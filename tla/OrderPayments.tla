--------------------------- MODULE OrderPayments ---------------------------
(***************************************************************************)
(* Orders paid online: src/server/payments/order-payments.ts (checkout,    *)
(* retry, the captured / ended handlers, cancellation), processing.ts      *)
(* (webhook, reconciliation, applyGatewayState) and intents.ts (opening    *)
(* an attempt), with the payment gateway as the environment.               *)
(*                                                                         *)
(* One customer has one cart that spans the shops Orders (one order of one *)
(* unit per shop, in cart order).  An attempt pays for a TARGET: a single  *)
(* order (purpose ORDER) or the whole group (ORDER_GROUP).  Its unique     *)
(* idempotency key is <<target, n>>, so attempts are indexed by their key. *)
(* A transaction that holds its row locks is one action; what the code     *)
(* reads before the lock and uses after it stays in the session or worker. *)
(***************************************************************************)
EXTENDS Naturals, FiniteSets, PaymentIntentStates

CONSTANTS
  Shops,        \* number of shops in the cart
  Sessions,     \* requests of the customer (tabs, double clicks, retries)
  Workers,      \* webhook deliveries and reconciliation runs in progress
  MaxAttempt,   \* bound: attempts per target
  InitialStock, \* units of the product on the shelf before checkout
  Outcomes,     \* what the gateway reports beyond PENDING
  NoTask        \* a worker with nothing to do

ASSUME ShopsAssumption == Shops \in Nat \ {0}
ASSUME MaxAttemptAssumption == MaxAttempt \in Nat \ {0}
ASSUME InitialStockAssumption == InitialStock \in Nat

Orders  == 1..Shops
Targets == {{o} : o \in Orders} \union {Orders}
Keys    == Targets \X (1..MaxAttempt)

OrderStatuses == {"NONE", "PENDING", "PAYMENT_FAILED", "CONFIRMED", "CANCELLED"}
AwaitingPayment == {"PENDING", "PAYMENT_FAILED"}

\* What fetchOrder can answer; OTHER_AMOUNT is a capture of a different amount.
GatewayStates == {"PENDING", "AUTHORIZED", "FAILED", "EXPIRED", "CAPTURED", "OTHER_AMOUNT"}
GatewayOpen   == {"PENDING", "AUTHORIZED", "FAILED"}

ASSUME OutcomesAssumption == Outcomes \subseteq GatewayStates

VARIABLES
  order,    \* orders.status
  intent,   \* payment_intents.status by idempotency key
  covers,   \* the orders an attempt was opened for (its amount)
  gateway,  \* the gateway's own record of the attempt
  event,    \* payment_webhook_events: the gateway's capture event of the attempt
  flags,    \* payment.attention raised for support: <<key, problem>>
  stock,    \* shop_products.online_stock
  sold,     \* units other customers bought
  session,  \* the customer's requests
  task      \* webhook / reconciliation work in progress

vars == <<order, intent, covers, gateway, event, flags, stock, sold, session, task>>

\* A request of the customer: the orders it has placed so far, then the target
\* it pays for and the attempt it is about to open.
Requests == [at : {"idle", "placing", "look", "pay"}, seen : SUBSET Orders,
             target : Targets \union {{}}, attempt : 0..MaxAttempt]
Request(at, seen, t, n) == [at |-> at, seen |-> seen, target |-> t, attempt |-> n]
Idle == Request("idle", {}, {}, 0)

\* Work on an attempt: the state the gateway answered, to be applied.
Jobs == [key : Keys, state : GatewayStates, webhook : BOOLEAN, at : {"apply", "mark"}]
Job(k, state, webhook, at) == [key |-> k, state |-> state, webhook |-> webhook, at |-> at]

TypeOK ==
  /\ order \in [Orders -> OrderStatuses]
  /\ intent \in [Keys -> IntentStatuses \union {"NONE"}]
  /\ covers \in [Keys -> SUBSET Orders]
  /\ gateway \in [Keys -> GatewayStates \union {"NONE"}]
  /\ event \in [Keys -> {"none", "due", "seen", "processed"}]
  /\ flags \subseteq Keys \X {"late-capture", "amount-mismatch"}
  /\ stock \in Nat
  /\ sold \in Nat
  /\ session \in [Sessions -> Requests]
  /\ task \in [Workers -> Jobs \union {NoTask}]

Init ==
  /\ order = [o \in Orders |-> "NONE"]
  /\ intent = [k \in Keys |-> "NONE"]
  /\ covers = [k \in Keys |-> {}]
  /\ gateway = [k \in Keys |-> "NONE"]
  /\ event = [k \in Keys |-> "none"]
  /\ flags = {}
  /\ stock = InitialStock
  /\ sold = 0
  /\ session = [s \in Sessions |-> Idle]
  /\ task = [w \in Workers |-> NoTask]

-----------------------------------------------------------------------------
(* Reads shared by the handlers.  A definition whose name starts with Bug   *)
(* is a plausible mistake in the one below it; no specification uses it.    *)

Placed == {o \in Orders : order[o] # "NONE"}

\* listIntentsFor: the attempts on record for a target.
AttemptsFor(t) == {n \in 1..MaxAttempt : intent[<<t, n>>] # "NONE"}
BugHasLive(t) == \E n \in AttemptsFor(t) : intent[<<t, n>>] = "AUTHORIZED"
HasLive(t) == \E n \in AttemptsFor(t) : intent[<<t, n>>] \in LiveStatuses
HasPaid(t) == \E n \in AttemptsFor(t) : intent[<<t, n>>] \in PaidStatuses

\* An order's attempts, alone or with its group.
TargetsOf(o) == {{o}, Orders}

\* ordersForIntent, then the orders still waiting for the payment.
AwaitingIn(t) == {o \in t : order[o] \in AwaitingPayment}

-----------------------------------------------------------------------------
(* The customer's requests. *)

\* startOnlineCheckout: one online order is paid alone, several as their group.
TargetOfCheckout(seen) == IF Cardinality(seen) = 1 THEN seen ELSE Orders

\* checkout(): the replay check comes first; otherwise the shops one by one.
StartCheckout(s) ==
  /\ session[s].at = "idle"
  /\ session' = [session EXCEPT ![s] =
       IF Placed = {}
       THEN Request("placing", {}, {}, 0)
       ELSE Request("look", {}, TargetOfCheckout(Placed), 0)]
  /\ UNCHANGED <<order, intent, covers, gateway, event, flags, stock, sold, task>>

\* One transaction per shop: the order is found by its checkout key, or placed
\* PENDING with its stock taken, or out of stock ends the request there (the
\* orders already placed stay).
PlaceOrder(s) ==
  /\ session[s].at = "placing"
  /\ LET o    == 1 + Cardinality(session[s].seen)
         seen == session[s].seen \union {o}
         next == IF o = Shops
                 THEN Request("look", {}, TargetOfCheckout(seen), 0)
                 ELSE Request("placing", seen, {}, 0)
     IN \/ /\ order[o] # "NONE"
           /\ session' = [session EXCEPT ![s] = next]
           /\ UNCHANGED <<order, stock>>
        \/ /\ order[o] = "NONE" /\ stock > 0
           /\ order' = [order EXCEPT ![o] = "PENDING"]
           /\ stock' = stock - 1
           /\ session' = [session EXCEPT ![s] = next]
        \/ /\ order[o] = "NONE" /\ stock = 0
           /\ session' = [session EXCEPT ![s] = Idle]
           /\ UNCHANGED <<order, stock>>
  /\ UNCHANGED <<intent, covers, gateway, event, flags, sold, task>>

\* retryOrderPayment: the group's target if it ever had an attempt.
StartRetry(s, o) ==
  /\ session[s].at = "idle"
  /\ order[o] # "NONE"
  /\ session' = [session EXCEPT ![s] =
       Request("look", {}, IF AttemptsFor(Orders) # {} THEN Orders ELSE {o}, 0)]
  /\ UNCHANGED <<order, intent, covers, gateway, event, flags, stock, sold, task>>

\* payForOrders, before any lock: a paid or live attempt answers the request,
\* otherwise the number of the next attempt is computed from this read.
Look(s) ==
  /\ session[s].at = "look"
  /\ LET t == session[s].target
         n == Cardinality(AttemptsFor(t)) + 1
     IN IF HasPaid(t) \/ HasLive(t)
        THEN session' = [session EXCEPT ![s] = Idle]
        ELSE /\ n <= MaxAttempt
             /\ session' = [session EXCEPT ![s] = Request("pay", {}, t, n)]
  /\ UNCHANGED <<order, intent, covers, gateway, event, flags, stock, sold, task>>

\* holdStock: the shelf must still have the units.
BugCanHold(units) == TRUE
CanHold(units) == stock >= units

\* The second half, under the orders' row locks: nothing left to pay, an attempt
\* with the same key, or out of stock ends the request; so does a gateway that
\* cannot open the attempt, whose error rolls the whole transaction back.
PayStops(s) ==
  /\ session[s].at = "pay"
  /\ session' = [session EXCEPT ![s] = Idle]
  /\ UNCHANGED <<order, intent, covers, gateway, event, flags, stock, sold, task>>

\* createPaymentIntent and openAtGateway: the attempt is PENDING once the gateway
\* has its order.
OpenAttempt(k, unpaid) ==
  /\ intent' = [intent EXCEPT ![k] = "PENDING"]
  /\ covers' = [covers EXCEPT ![k] = unpaid]
  /\ gateway' = [gateway EXCEPT ![k] = "PENDING"]

PayOpens(s) ==
  LET t      == session[s].target
      k      == <<t, session[s].attempt>>
      unpaid == AwaitingIn(t)
      rehold == {o \in unpaid : order[o] = "PAYMENT_FAILED"}
  IN /\ session[s].at = "pay"
     /\ unpaid # {}
     /\ intent[k] = "NONE"
     /\ CanHold(Cardinality(rehold))
     /\ stock' = stock - Cardinality(rehold)
     /\ OpenAttempt(k, unpaid)
     /\ session' = [session EXCEPT ![s] = Idle]
     /\ UNCHANGED <<order, event, flags, sold, task>>

-----------------------------------------------------------------------------
(* The gateway, and the customer on its page.  A failed try leaves the page *)
(* open (mapCashfreeOrder reports FAILED for an ACTIVE order), so a later   *)
(* try of the same attempt may still take the money.                        *)

GatewayMoves(k, to) ==
  /\ gateway[k] \in GatewayOpen
  /\ \/ gateway[k] = "PENDING" /\ to \in {"AUTHORIZED", "FAILED"}
     \/ gateway[k] = "AUTHORIZED" /\ to = "FAILED"
     \/ to \in {"CAPTURED", "OTHER_AMOUNT", "EXPIRED"}
  /\ gateway' = [gateway EXCEPT ![k] = to]
  /\ event' = IF to \in {"CAPTURED", "OTHER_AMOUNT"}
              THEN [event EXCEPT ![k] = "due"] ELSE event
  /\ UNCHANGED <<order, intent, covers, flags, stock, sold, session, task>>

-----------------------------------------------------------------------------
(* Moving an attempt on the gateway's word (processing.ts).                 *)

FetchBy(w, k, webhook) ==
  task' = [task EXCEPT ![w] = Job(k, gateway[k], webhook, "apply")]

\* reconcileIntent, of the job, the return page or a retry: live attempts only.
ReconcileFetch(w, k) ==
  /\ task[w] = NoTask
  /\ intent[k] \in LiveStatuses
  /\ FetchBy(w, k, FALSE)
  /\ UNCHANGED <<order, intent, covers, gateway, event, flags, stock, sold, session>>

\* handlePaymentWebhook for the capture event: recorded once, processed again
\* on a redelivery unless processed_at is set; then the gateway is asked.
BugWebhookFetch(w, k) ==
  /\ task[w] = NoTask
  /\ event[k] = "due"
  /\ event' = [event EXCEPT ![k] = "processed"]
  /\ FetchBy(w, k, TRUE)
  /\ UNCHANGED <<order, intent, covers, gateway, flags, stock, sold, session>>

WebhookFetch(w, k) ==
  /\ task[w] = NoTask
  /\ event[k] \in {"due", "seen"}
  /\ event' = [event EXCEPT ![k] = "seen"]
  /\ FetchBy(w, k, TRUE)
  /\ UNCHANGED <<order, intent, covers, gateway, flags, stock, sold, session>>

\* A webhook of any other event is only a trigger to ask the gateway.
OtherWebhookFetch(w, k) ==
  /\ task[w] = NoTask
  /\ gateway[k] # "NONE"
  /\ FetchBy(w, k, FALSE)
  /\ UNCHANGED <<order, intent, covers, gateway, event, flags, stock, sold, session>>

\* onOrderPaymentCaptured: every order still waiting is confirmed and paid.
Captured(k) ==
  /\ intent' = [intent EXCEPT ![k] = "CAPTURED"]
  /\ order' = [o \in Orders |-> IF o \in AwaitingIn(k[1]) THEN "CONFIRMED" ELSE order[o]]
  /\ UNCHANGED <<flags, stock>>

\* endIntent and onOrderPaymentEnded: the stock of every order still waiting
\* goes back, a PENDING order becomes PAYMENT_FAILED.
BugEnded(k, to) ==
  /\ intent' = [intent EXCEPT ![k] = to]
  /\ stock' = stock + Cardinality(AwaitingIn(k[1]))
  /\ UNCHANGED <<order, flags>>

Ended(k, to) ==
  /\ intent' = [intent EXCEPT ![k] = to]
  /\ stock' = stock + Cardinality(AwaitingIn(k[1]))
  /\ order' = [o \in Orders |-> IF o \in AwaitingIn(k[1]) THEN "PAYMENT_FAILED" ELSE order[o]]
  /\ UNCHANGED flags

Flag(k, problem) ==
  /\ flags' = flags \union {<<k, problem>>}
  /\ UNCHANGED <<intent, order, stock>>

\* applyGatewayState, under the attempt's row lock.
BugAppliedLate(k, state) ==
  IF state = "CAPTURED" THEN Captured(k)
  ELSE IF state \in EndedStatuses /\ CanMove(intent[k], state) THEN Ended(k, state)
  ELSE UNCHANGED <<intent, order, flags, stock>>

BugAppliedAuthorized(k, state) ==
  IF state \in {"AUTHORIZED", "CAPTURED"} /\ CanMove(intent[k], "CAPTURED") THEN Captured(k)
  ELSE IF state \in EndedStatuses /\ CanMove(intent[k], state) THEN Ended(k, state)
  ELSE UNCHANGED <<intent, order, flags, stock>>

Applied(k, state) ==
  LET s == intent[k] IN
  CASE state \in {"CAPTURED", "OTHER_AMOUNT"} /\ s \in EndedStatuses
         -> Flag(k, "late-capture")
    [] state = "OTHER_AMOUNT" /\ CanMove(s, "CAPTURED")
         -> Flag(k, "amount-mismatch")
    [] state = "CAPTURED" /\ CanMove(s, "CAPTURED")
         -> Captured(k)
    [] state \in EndedStatuses /\ CanMove(s, state)
         -> Ended(k, state)
    [] state = "AUTHORIZED" /\ CanMove(s, state)
         -> /\ intent' = [intent EXCEPT ![k] = state]
            /\ UNCHANGED <<order, flags, stock>>
    [] OTHER -> UNCHANGED <<intent, order, flags, stock>>

Apply(w) ==
  /\ task[w] # NoTask /\ task[w].at = "apply"
  /\ Applied(task[w].key, task[w].state)
  /\ task' = [task EXCEPT ![w] = IF task[w].webhook
                                  THEN Job(task[w].key, task[w].state, TRUE, "mark")
                                  ELSE NoTask]
  /\ UNCHANGED <<covers, gateway, event, sold, session>>

\* The webhook row gets its processed_at after the transaction has committed.
MarkProcessed(w) ==
  /\ task[w] # NoTask /\ task[w].at = "mark"
  /\ event' = [event EXCEPT ![task[w].key] = "processed"]
  /\ task' = [task EXCEPT ![w] = NoTask]
  /\ UNCHANGED <<order, intent, covers, gateway, flags, stock, sold, session>>

-----------------------------------------------------------------------------
(* The rest of the shop. *)

\* failOrphanOnlineOrder: an online order whose payment never opened.
FailOrphan(o) ==
  /\ order[o] = "PENDING"
  /\ \A t \in TargetsOf(o) : AttemptsFor(t) = {}
  /\ order' = [order EXCEPT ![o] = "PAYMENT_FAILED"]
  /\ stock' = stock + 1
  /\ UNCHANGED <<intent, covers, gateway, event, flags, sold, session, task>>

\* cancelOrder with onlineCancelPolicy.  The refund of a paid order is the
\* subject of module OrderRefunds.
BugCancelOrder(o) ==
  /\ order[o] \in AwaitingPayment \union {"CONFIRMED"}
  /\ order[o] \in AwaitingPayment => \A t \in TargetsOf(o) : ~HasLive(t)
  /\ order' = [order EXCEPT ![o] = "CANCELLED"]
  /\ stock' = stock + 1
  /\ UNCHANGED <<intent, covers, gateway, event, flags, sold, session, task>>

CancelOrder(o) ==
  /\ order[o] \in AwaitingPayment \union {"CONFIRMED"}
  /\ order[o] \in AwaitingPayment => \A t \in TargetsOf(o) : ~HasLive(t)
  /\ order' = [order EXCEPT ![o] = "CANCELLED"]
  /\ stock' = IF order[o] = "PAYMENT_FAILED" THEN stock ELSE stock + 1
  /\ UNCHANGED <<intent, covers, gateway, event, flags, sold, session, task>>

\* consumeOnlineStock of another customer's order.
OtherSale ==
  /\ stock > 0
  /\ stock' = stock - 1
  /\ sold' = sold + 1
  /\ UNCHANGED <<order, intent, covers, gateway, event, flags, session, task>>

\* The process stops: a request or a worker is forgotten between two steps.
Crash ==
  /\ \/ /\ \E s \in Sessions : /\ session[s] # Idle
                               /\ session' = [session EXCEPT ![s] = Idle]
        /\ UNCHANGED task
     \/ /\ \E w \in Workers : /\ task[w] # NoTask
                              /\ task' = [task EXCEPT ![w] = NoTask]
        /\ UNCHANGED session
  /\ UNCHANGED <<order, intent, covers, gateway, event, flags, stock, sold>>

-----------------------------------------------------------------------------
Next ==
  \/ \E s \in Sessions :
       \/ StartCheckout(s) \/ PlaceOrder(s) \/ Look(s) \/ PayStops(s) \/ PayOpens(s)
       \/ \E o \in Orders : StartRetry(s, o)
  \/ \E k \in Keys : \E to \in Outcomes : GatewayMoves(k, to)
  \/ \E w \in Workers :
       \/ \E k \in Keys : ReconcileFetch(w, k) \/ WebhookFetch(w, k) \/ OtherWebhookFetch(w, k)
       \/ Apply(w) \/ MarkProcessed(w)
  \/ \E o \in Orders : FailOrphan(o) \/ CancelOrder(o)
  \/ OtherSale
  \/ Crash

Spec == Init /\ [][Next]_vars

(***************************************************************************)
(* What the scheduling owes: the cron jobs run again and again, so does a  *)
(* gateway that got no answer to its capture event, and a step that fails  *)
(* or is interrupted now and then is not interrupted for ever.             *)
(***************************************************************************)
ReconcileOf(k) == \E w \in Workers : ReconcileFetch(w, k)
ApplyTo(k) == \E w \in Workers : /\ task[w] # NoTask /\ task[w].key = k
                                 /\ task[w].state = gateway[k] /\ Apply(w)
DeliveryOf(k) == \E w \in Workers : WebhookFetch(w, k)

JobFairness ==
  /\ \A k \in Keys : SF_vars(ReconcileOf(k)) /\ SF_vars(ApplyTo(k))
  /\ \A w \in Workers : WF_vars(Apply(w) \/ MarkProcessed(w))
  /\ \A o \in Orders : WF_vars(FailOrphan(o))

\* An attempt is opened with an expiry the gateway keeps.
GatewayFairness == \A k \in Keys : WF_vars(GatewayMoves(k, "EXPIRED"))
DeliveryFairness == \A k \in Keys : SF_vars(DeliveryOf(k))

FairSpec == Spec /\ JobFairness /\ GatewayFairness /\ DeliveryFairness

-----------------------------------------------------------------------------
(* Properties. *)

LiveFor(o) == {k \in Keys : o \in covers[k] /\ intent[k] \in LiveStatuses}
PaidFor(o) == {k \in Keys : o \in covers[k] /\ intent[k] \in PaidStatuses}

\* Units an order keeps from the shelf: what it took at checkout until an
\* attempt ends it, what a retry took again, what it was sold.
Holds(o) == \/ order[o] \in {"PENDING", "CONFIRMED"}
            \/ order[o] = "PAYMENT_FAILED" /\ LiveFor(o) # {}

\* No unit is lost and none is given back twice, whatever attempts end, are
\* retried or are cancelled in between (releaseStock, holdStock, restockOnline).
StockConserved ==
  stock + sold + Cardinality({o \in Orders : Holds(o)}) = InitialStock

\* A target's next attempt is opened only when all earlier ones have ended:
\* two clicks that read the attempts at different times never open two.
AttemptsInTurn ==
  \A t \in Targets : \A m, n \in 1..MaxAttempt :
    m < n /\ intent[<<t, n>>] # "NONE" => intent[<<t, m>>] \in EndedStatuses

\* The records never hold an order offered by two open attempts, nor booked as
\* paid by two (order-payments.ts:7, "never two payments").  This is about the
\* records: the page of a FAILED attempt stays open at the gateway, so money can
\* arrive there after the next attempt was opened; CapturedIsNoticed is about it.
OnePaymentOnRecord == \A o \in Orders : Cardinality(LiveFor(o) \union PaidFor(o)) <= 1

\* An order is CONFIRMED only by an attempt for which the gateway really has
\* the money, however old the answer a worker applies is.
ConfirmedIsPaid ==
  \A o \in Orders : order[o] = "CONFIRMED" =>
    \E k \in Keys : o \in k[1] /\ intent[k] \in PaidStatuses /\ gateway[k] = "CAPTURED"

\* Money is booked only by confirming every order it was charged for, each of
\* them waiting for it until then: never for an order cancelled or given up while
\* the attempt was open (onlineCancelPolicy, the orphan check and a retry against
\* onOrderPaymentCaptured).  What a FAILED attempt's page still takes after that is
\* not booked but put before support.
BookedAction ==
  \A k \in Keys : intent[k] \notin PaidStatuses /\ intent'[k] \in PaidStatuses =>
    \A o \in covers[k] : order[o] \in AwaitingPayment /\ order'[o] = "CONFIRMED"
BookedMoneyBuys == [][BookedAction]_vars

\* Money the gateway took is booked to its attempt or put before support.
Noticed(k) == intent[k] \in PaidStatuses \/ \E p \in {"late-capture", "amount-mismatch"} : <<k, p>> \in flags
CapturedIsNoticed ==
  \A k \in Keys : gateway[k] \in {"CAPTURED", "OTHER_AMOUNT"} ~> Noticed(k)

\* No order keeps its stock waiting for a payment for ever: it is confirmed,
\* failed, cancelled, or its wrong amount is before support.
PendingEnds ==
  \A o \in Orders :
    order[o] = "PENDING" ~> \/ order[o] # "PENDING"
                            \/ \E k \in Keys : o \in covers[k] /\ <<k, "amount-mismatch">> \in flags
=============================================================================
