------------------------ MODULE OrderPaymentsProofs ------------------------
(***************************************************************************)
(* Proofs about OrderPayments for any number of shops, requests, workers   *)
(* and attempts, and any behaviour of the gateway.                         *)
(***************************************************************************)
EXTENDS OrderPayments, FiniteSetTheorems, TLAPS

\* A request that places orders has seen the first shops of the cart.
PlacesInOrder ==
  \A s \in Sessions : session[s].at = "placing" =>
    \E m \in 0..(Shops - 1) : session[s].seen = 1..m

\* The gateway knows an attempt exactly when it is on record, and what is done
\* on the gateway's word is done for an attempt on record.
OnRecord ==
  /\ \A k \in Keys : intent[k] = "NONE" <=> gateway[k] = "NONE"
  /\ \A k \in Keys : event[k] # "none" => intent[k] # "NONE"
  /\ \A w \in Workers : task[w] # NoTask => intent[task[w].key] # "NONE"

\* A capture an answer speaks of, or an attempt is booked for, is one the
\* gateway still reports: it never takes a capture back.
CapturesHold ==
  /\ \A w \in Workers : task[w] # NoTask /\ task[w].state = "CAPTURED"
       => gateway[task[w].key] = "CAPTURED"
  /\ \A k \in Keys : intent[k] \in PaidStatuses => gateway[k] = "CAPTURED"

\* The attempts below the one a request is about to open have all ended.
LookedInTurn ==
  \A s \in Sessions : session[s].at = "pay" =>
    \A m \in 1..MaxAttempt :
      m < session[s].attempt => intent[<<session[s].target, m>>] \in EndedStatuses

PayHasTarget ==
  \A s \in Sessions : session[s].at \in {"look", "pay"} => session[s].target \in Targets

TypeInv == TypeOK /\ PlacesInOrder /\ PayHasTarget /\ OnRecord
PaidInv == CapturesHold /\ ConfirmedIsPaid
TurnInv == LookedInTurn /\ AttemptsInTurn

-----------------------------------------------------------------------------
(* Facts about orders, targets and statuses. *)

\* Sets of orders are finite.
LEMMA FiniteOrders ==
  \A S \in SUBSET Orders : IsFiniteSet(S) /\ Cardinality(S) \in Nat
<1>1. IsFiniteSet(Orders)
  BY ShopsAssumption, FS_Interval DEF Orders
<1> QED
  BY <1>1, FS_Subset, FS_CardinalityType

\* Whatever orders a checkout has seen, it pays for a target.
LEMMA CheckoutTarget ==
  ASSUME NEW S \in SUBSET Orders
  PROVE  TargetOfCheckout(S) \in Targets
<1>1. CASE Cardinality(S) = 1
  <2>1. PICK x : S = {x}
    BY <1>1, FiniteOrders, FS_Singleton
  <2> QED
    BY <1>1, <2>1 DEF TargetOfCheckout, Targets
<1>2. CASE Cardinality(S) # 1
  BY <1>2 DEF TargetOfCheckout, Targets
<1> QED
  BY <1>1, <1>2

\* The numbers of the attempts on record are finitely many.
LEMMA FiniteAttempts ==
  ASSUME NEW t
  PROVE  IsFiniteSet(AttemptsFor(t)) /\ Cardinality(AttemptsFor(t)) \in Nat
<1>1. IsFiniteSet(1..MaxAttempt)
  BY MaxAttemptAssumption, FS_Interval
<1> QED
  BY <1>1, FS_Subset, FS_CardinalityType DEF AttemptsFor

\* Only a live attempt is authorized, captured or ended (lib/payment-intent-states.ts).
LEMMA OnlyLiveMoves ==
  ASSUME NEW s \in IntentStatuses,
         NEW to \in {"AUTHORIZED", "CAPTURED"} \union EndedStatuses, CanMove(s, to)
  PROVE  s \in LiveStatuses
<1>1. CASE s \in EndedStatuses \union {"REFUNDED"}
  <2>1. Transitions[s] = {}
    BY <1>1 DEF Transitions, EndedStatuses, IntentStatuses, LiveStatuses, PaidStatuses
  <2> QED
    BY <2>1 DEF CanMove
<1>2. CASE s \in {"CAPTURED", "PARTIALLY_REFUNDED"}
  <2>1. Transitions[s] = {"PARTIALLY_REFUNDED", "REFUNDED"}
    BY <1>2 DEF Transitions, EndedStatuses, IntentStatuses, LiveStatuses, PaidStatuses
  <2> QED
    BY <2>1 DEF CanMove, EndedStatuses
<1> QED
  BY <1>1, <1>2 DEF IntentStatuses, LiveStatuses, PaidStatuses, EndedStatuses

-----------------------------------------------------------------------------
(* What applying an answer of the gateway changes. *)

\* A step for attempt k on the answer state moves that attempt at most, and
\* only while it is live; only a capture confirms orders, those of its target.
MovesAttempt(k, state) ==
  /\ intent' \in [Keys -> IntentStatuses \union {"NONE"}]
  /\ \A j \in Keys \ {k} : intent'[j] = intent[j]
  /\ \/ intent'[k] = intent[k]
     \/ /\ intent[k] \in LiveStatuses
        /\ \/ intent'[k] \in {"AUTHORIZED"} \union EndedStatuses
           \/ intent'[k] = "CAPTURED" /\ state = "CAPTURED"

ConfirmsOrders(k, state) ==
  \A o \in Orders : order'[o] = "CONFIRMED" =>
    \/ order[o] = "CONFIRMED"
    \/ state = "CAPTURED" /\ o \in k[1] /\ intent'[k] = "CAPTURED"

KeepsTypes ==
  /\ order' \in [Orders -> OrderStatuses]
  /\ stock' \in Nat
  /\ flags' \subseteq Keys \X {"late-capture", "amount-mismatch"}

\* applyGatewayState does no more than that.
LEMMA AppliedChanges ==
  ASSUME TypeOK, NEW k \in Keys, intent[k] # "NONE",
         NEW state \in GatewayStates, Applied(k, state)
  PROVE  MovesAttempt(k, state) /\ ConfirmsOrders(k, state) /\ KeepsTypes
<1> DEFINE Goal == MovesAttempt(k, state) /\ ConfirmsOrders(k, state) /\ KeepsTypes
<1> USE DEF MovesAttempt, ConfirmsOrders, KeepsTypes
<1>1. intent[k] \in IntentStatuses
  BY DEF TypeOK
<1>2. AwaitingIn(k[1]) \in SUBSET Orders /\ Cardinality(AwaitingIn(k[1])) \in Nat
  <2>1. k[1] \in SUBSET Orders
    BY DEF Keys, Targets
  <2> QED
    BY <2>1, FiniteOrders DEF AwaitingIn
<1>3. ASSUME NEW problem \in {"late-capture", "amount-mismatch"}, Flag(k, problem)
      PROVE  Goal
  BY <1>3 DEF Flag, TypeOK
<1>4. ASSUME state = "CAPTURED", CanMove(intent[k], "CAPTURED"), Captured(k)
      PROVE  Goal
  <2>1. intent[k] \in LiveStatuses
    BY <1>1, <1>4, OnlyLiveMoves
  <2>2. MovesAttempt(k, state)
    BY <1>4, <2>1 DEF Captured, TypeOK, IntentStatuses, PaidStatuses
  <2>3. ConfirmsOrders(k, state)
    BY <1>4 DEF Captured, AwaitingIn, TypeOK
  <2>4. KeepsTypes
    BY <1>4 DEF Captured, TypeOK, OrderStatuses
  <2> QED
    BY <2>2, <2>3, <2>4
<1>5. ASSUME state \in EndedStatuses, CanMove(intent[k], state), Ended(k, state)
      PROVE  Goal
  <2>1. intent[k] \in LiveStatuses
    BY <1>1, <1>5, OnlyLiveMoves
  <2> QED
    BY <1>2, <1>5, <2>1 DEF Ended, TypeOK, OrderStatuses, IntentStatuses
<1>6. ASSUME state = "AUTHORIZED", CanMove(intent[k], state),
             intent' = [intent EXCEPT ![k] = state], UNCHANGED <<order, flags, stock>>
      PROVE  Goal
  <2>1. intent[k] \in LiveStatuses
    BY <1>1, <1>6, OnlyLiveMoves
  <2> QED
    BY <1>6, <2>1 DEF TypeOK, IntentStatuses, LiveStatuses
<1>7. ASSUME UNCHANGED <<intent, order, flags, stock>>
      PROVE  Goal
  BY <1>7 DEF TypeOK
<1> QED
  BY <1>3, <1>4, <1>5, <1>6, <1>7 DEF Applied

-----------------------------------------------------------------------------
(* Type correctness, with what it needs. *)

\* A request that starts, goes on or ends keeps the requests well-formed.
LEMMA RequestStep ==
  ASSUME TypeInv, NEW s \in Sessions, NEW r \in Requests,
         session' = [session EXCEPT ![s] = r],
         r.at = "placing" => \E m \in 0..(Shops - 1) : r.seen = 1..m,
         r.at \in {"look", "pay"} => r.target \in Targets
  PROVE  /\ session' \in [Sessions -> Requests]
         /\ PlacesInOrder'
         /\ PayHasTarget'
<1>1. session \in [Sessions -> Requests]
  BY DEF TypeInv, TypeOK
<1>2. \A q \in Sessions : session'[q] = IF q = s THEN r ELSE session[q]
  BY <1>1
<1> QED
  BY <1>1, <1>2 DEF TypeInv, PlacesInOrder, PayHasTarget

\* A request's record, from its parts.
LEMMA RequestType ==
  ASSUME NEW at \in {"idle", "placing", "look", "pay"}, NEW seen \in SUBSET Orders,
         NEW t \in Targets \union {{}}, NEW n \in 0..MaxAttempt
  PROVE  /\ Request(at, seen, t, n) \in Requests
         /\ Request(at, seen, t, n).at = at
         /\ Request(at, seen, t, n).seen = seen
         /\ Request(at, seen, t, n).target = t
         /\ Request(at, seen, t, n).attempt = n
  BY DEF Request, Requests

\* A request that has ended, or has not begun, is a well-formed record.
LEMMA IdleType == Idle \in Requests /\ Idle.at = "idle"
<1>1. 0 \in 0..MaxAttempt
  BY MaxAttemptAssumption
<1> QED
  BY <1>1, RequestType DEF Idle

\* A worker that starts, goes on or ends, with the attempts on record staying so.
LEMMA JobStep ==
  ASSUME TypeInv, NEW w \in Workers, NEW j \in Jobs \union {NoTask},
         task' = [task EXCEPT ![w] = j],
         \A k \in Keys : intent[k] # "NONE" => intent'[k] # "NONE",
         j # NoTask => intent'[j.key] # "NONE"
  PROVE  /\ task' \in [Workers -> Jobs \union {NoTask}]
         /\ \A v \in Workers : task'[v] # NoTask => intent'[task'[v].key] # "NONE"
<1>1. task \in [Workers -> Jobs \union {NoTask}]
  BY DEF TypeInv, TypeOK
<1>2. \A v \in Workers : task'[v] = IF v = w THEN j ELSE task[v]
  BY <1>1
<1>3. \A v \in Workers : task[v] # NoTask => task[v].key \in Keys
  BY <1>1 DEF Jobs
<1> QED
  BY <1>1, <1>2, <1>3 DEF TypeInv, OnRecord

\* A job's record, from its parts.
LEMMA JobType ==
  ASSUME NEW k \in Keys, NEW state \in GatewayStates, NEW webhook \in BOOLEAN,
         NEW at \in {"apply", "mark"}
  PROVE  /\ Job(k, state, webhook, at) \in Jobs
         /\ Job(k, state, webhook, at).key = k
         /\ Job(k, state, webhook, at).state = state
  BY DEF Job, Jobs

\* No order, no attempt and no work in progress: the state is well-formed.
THEOREM TypeInit == Init => TypeInv
<1> SUFFICES ASSUME Init PROVE TypeInv
  OBVIOUS
<1>1. session \in [Sessions -> Requests]
  BY IdleType DEF Init
<1>2. task \in [Workers -> Jobs \union {NoTask}]
  BY DEF Init
<1>3. stock \in Nat /\ sold \in Nat
  BY InitialStockAssumption DEF Init
<1>4. TypeOK
  BY <1>1, <1>2, <1>3 DEF Init, TypeOK, OrderStatuses
<1>5. PlacesInOrder /\ PayHasTarget
  BY IdleType DEF Init, PlacesInOrder, PayHasTarget
<1>6. OnRecord
  BY DEF Init, OnRecord
<1> QED
  BY <1>4, <1>5, <1>6 DEF TypeInv

-----------------------------------------------------------------------------
(* The type invariant is kept, action by action. *)

\* checkout() starts: a replay or a fresh list of shops keeps the state well-formed.
LEMMA StartCheckoutType ==
  ASSUME TypeInv, NEW s \in Sessions, StartCheckout(s)
  PROVE  TypeInv'
<1> DEFINE r == IF Placed = {} THEN Request("placing", {}, {}, 0)
                ELSE Request("look", {}, TargetOfCheckout(Placed), 0)
<1>1. TargetOfCheckout(Placed) \in Targets
  BY CheckoutTarget DEF Placed
<1>2. /\ r \in Requests
      /\ r.at = "placing" => r.seen = 1..0
      /\ r.at \in {"look", "pay"} => r.target \in Targets
  <2>1. 0 \in 0..MaxAttempt /\ {} = 1..0
    BY MaxAttemptAssumption
  <2>2. CASE Placed = {}
    BY <2>1, <2>2, RequestType
  <2>3. CASE Placed # {}
    BY <1>1, <2>1, <2>3, RequestType
  <2> QED
    BY <2>2, <2>3
<1>3. 0 \in 0..(Shops - 1)
  BY ShopsAssumption
<1>4. session' = [session EXCEPT ![s] = r]
  BY DEF StartCheckout
<1>5. session' \in [Sessions -> Requests] /\ PlacesInOrder' /\ PayHasTarget'
  <2> HIDE DEF r
  <2> QED
    BY <1>2, <1>3, <1>4, RequestStep
<1> QED
  BY <1>5 DEF StartCheckout, TypeInv, TypeOK, OnRecord

\* The per-shop transaction of checkout() goes through the shops in cart order.
LEMMA PlaceOrderType ==
  ASSUME TypeInv, NEW s \in Sessions, PlaceOrder(s)
  PROVE  TypeInv'
<1> DEFINE o    == 1 + Cardinality(session[s].seen)
           seen == session[s].seen \union {o}
           next == IF o = Shops
                   THEN Request("look", {}, TargetOfCheckout(seen), 0)
                   ELSE Request("placing", seen, {}, 0)
<1>1. PICK m \in 0..(Shops - 1) : session[s].seen = 1..m
  BY DEF PlaceOrder, TypeInv, PlacesInOrder
<1>2. o = m + 1 /\ o \in Orders /\ seen = 1..o /\ seen \in SUBSET Orders
  <2>1. Cardinality(session[s].seen) = m
    BY <1>1, FS_Interval, ShopsAssumption
  <2> QED
    BY <1>1, <2>1, ShopsAssumption DEF Orders
<1>3. /\ next \in Requests
      /\ next.at = "placing" => \E q \in 0..(Shops - 1) : next.seen = 1..q
      /\ next.at \in {"look", "pay"} => next.target \in Targets
  <2> HIDE DEF o, seen
  <2>1. 0 \in 0..MaxAttempt
    BY MaxAttemptAssumption
  <2>2. CASE o = Shops
    <3>1. TargetOfCheckout(seen) \in Targets
      BY <1>2, CheckoutTarget
    <3> QED
      BY <2>1, <2>2, <3>1, RequestType
  <2>3. CASE o # Shops
    <3>1. o \in 0..(Shops - 1)
      BY <1>2, <2>3, ShopsAssumption DEF Orders
    <3> QED
      BY <1>2, <2>1, <2>3, <3>1, RequestType
  <2> QED
    BY <2>2, <2>3
<1>4. PICK r \in {next, Idle} : session' = [session EXCEPT ![s] = r]
  BY DEF PlaceOrder
<1>5. session' \in [Sessions -> Requests] /\ PlacesInOrder' /\ PayHasTarget'
  <2> HIDE DEF next
  <2> QED
    BY <1>3, <1>4, IdleType, RequestStep
<1>6. order' \in [Orders -> OrderStatuses] /\ stock' \in Nat
  BY DEF PlaceOrder, TypeInv, TypeOK, OrderStatuses
<1> QED
  BY <1>5, <1>6 DEF PlaceOrder, TypeInv, TypeOK, OnRecord

\* retryOrderPayment chooses a target and leaves all else alone.
LEMMA StartRetryType ==
  ASSUME TypeInv, NEW s \in Sessions, NEW o \in Orders, StartRetry(s, o)
  PROVE  TypeInv'
<1> DEFINE t == IF AttemptsFor(Orders) # {} THEN Orders ELSE {o}
           r == Request("look", {}, t, 0)
<1>1. t \in Targets /\ 0 \in 0..MaxAttempt
  BY MaxAttemptAssumption DEF Targets
<1>2. r \in Requests /\ r.at = "look" /\ r.target \in Targets
  BY <1>1, RequestType
<1>3. session' = [session EXCEPT ![s] = r]
  BY DEF StartRetry
<1>4. session' \in [Sessions -> Requests] /\ PlacesInOrder' /\ PayHasTarget'
  <2> HIDE DEF r
  <2> QED
    BY <1>2, <1>3, RequestStep
<1> QED
  BY <1>4 DEF StartRetry, TypeInv, TypeOK, OnRecord

\* The unlocked read of payForOrders computes an attempt number within bounds.
LEMMA LookType ==
  ASSUME TypeInv, NEW s \in Sessions, Look(s)
  PROVE  TypeInv'
<1> DEFINE t == session[s].target
           n == Cardinality(AttemptsFor(t)) + 1
<1>1. t \in Targets /\ n \in Nat
  BY FiniteAttempts DEF Look, TypeInv, PayHasTarget
<1>2. PICK r \in Requests : /\ session' = [session EXCEPT ![s] = r]
                            /\ r.at = "placing" => r.seen = 1..0
                            /\ r.at \in {"look", "pay"} => r.target \in Targets
  <2>1. CASE HasPaid(t) \/ HasLive(t)
    BY <2>1, IdleType DEF Look
  <2>2. CASE ~(HasPaid(t) \/ HasLive(t))
    <3>1. n \in 0..MaxAttempt /\ session' = [session EXCEPT ![s] = Request("pay", {}, t, n)]
      BY <1>1, <2>2, MaxAttemptAssumption DEF Look
    <3>2. /\ Request("pay", {}, t, n) \in Requests
          /\ Request("pay", {}, t, n).at = "pay"
          /\ Request("pay", {}, t, n).target = t
      BY <1>1, <3>1, RequestType
    <3> HIDE DEF t, n
    <3> QED
      BY <1>1, <3>1, <3>2
  <2> QED
    BY <2>1, <2>2
<1>3. 0 \in 0..(Shops - 1)
  BY ShopsAssumption
<1>4. session' \in [Sessions -> Requests] /\ PlacesInOrder' /\ PayHasTarget'
  BY <1>2, <1>3, RequestStep
<1> QED
  BY <1>4 DEF Look, TypeInv, TypeOK, OnRecord

\* A refused payForOrders changes the request only.
LEMMA PayStopsType ==
  ASSUME TypeInv, NEW s \in Sessions, PayStops(s)
  PROVE  TypeInv'
<1>1. session' \in [Sessions -> Requests] /\ PlacesInOrder' /\ PayHasTarget'
  BY IdleType, RequestStep DEF PayStops
<1> QED
  BY <1>1 DEF PayStops, TypeInv, TypeOK, OnRecord

\* An opened attempt is put on record together with its gateway order.
LEMMA PayOpensType ==
  ASSUME TypeInv, NEW s \in Sessions, PayOpens(s)
  PROVE  TypeInv'
<1> DEFINE t      == session[s].target
           k      == <<t, session[s].attempt>>
           unpaid == AwaitingIn(t)
           rehold == {o \in unpaid : order[o] = "PAYMENT_FAILED"}
<1>1. session' \in [Sessions -> Requests] /\ PlacesInOrder' /\ PayHasTarget'
  BY IdleType, RequestStep DEF PayOpens
<1>2. unpaid \in SUBSET Orders
  BY DEF PayOpens, TypeInv, PayHasTarget, Targets, AwaitingIn
<1>3. stock' \in Nat
  <2>1. Cardinality(rehold) \in Nat
    BY <1>2, FiniteOrders
  <2> QED
    BY <2>1 DEF PayOpens, CanHold, TypeInv, TypeOK
<1>4. /\ intent' \in [Keys -> IntentStatuses \union {"NONE"}]
      /\ covers' \in [Keys -> SUBSET Orders]
      /\ gateway' \in [Keys -> GatewayStates \union {"NONE"}]
  BY <1>2 DEF PayOpens, OpenAttempt, TypeInv, TypeOK, IntentStatuses, LiveStatuses, GatewayStates
<1>5. TypeOK'
  BY <1>1, <1>3, <1>4 DEF PayOpens, OpenAttempt, TypeInv, TypeOK
<1>6. OnRecord'
  <2>1. \A j \in Keys : /\ intent'[j] = IF j = k THEN "PENDING" ELSE intent[j]
                        /\ gateway'[j] = IF j = k THEN "PENDING" ELSE gateway[j]
    BY DEF PayOpens, OpenAttempt, TypeInv, TypeOK
  <2>2. \A w \in Workers : task[w] # NoTask => task[w].key \in Keys
    BY DEF TypeInv, TypeOK, Jobs
  <2> QED
    BY <2>1, <2>2 DEF PayOpens, OpenAttempt, TypeInv, OnRecord
<1> QED
  BY <1>1, <1>5, <1>6 DEF TypeInv

\* The gateway moves only attempts it knows, which are on record.
LEMMA GatewayMovesType ==
  ASSUME TypeInv, NEW k \in Keys, NEW to \in Outcomes, GatewayMoves(k, to)
  PROVE  TypeInv'
<1>1. gateway[k] # "NONE" /\ to \in GatewayStates /\ to # "NONE"
  BY OutcomesAssumption DEF GatewayMoves, GatewayOpen, GatewayStates
<1>2. TypeOK'
  BY <1>1 DEF GatewayMoves, TypeInv, TypeOK
<1>3. OnRecord'
  BY <1>1 DEF GatewayMoves, TypeInv, TypeOK, OnRecord
<1> QED
  BY <1>2, <1>3 DEF GatewayMoves, TypeInv, PlacesInOrder, PayHasTarget

\* Asking the gateway about an attempt on record.
LEMMA FetchType ==
  ASSUME TypeInv, NEW w \in Workers, NEW k \in Keys, NEW webhook \in BOOLEAN,
         intent[k] # "NONE", FetchBy(w, k, webhook),
         event' \in [Keys -> {"none", "due", "seen", "processed"}],
         \A j \in Keys : event'[j] # "none" => intent[j] # "NONE",
         UNCHANGED <<order, intent, covers, gateway, flags, stock, sold, session>>
  PROVE  TypeInv'
<1>1. gateway[k] \in GatewayStates
  BY DEF TypeInv, TypeOK, OnRecord
<1>2. /\ Job(k, gateway[k], webhook, "apply") \in Jobs \union {NoTask}
      /\ Job(k, gateway[k], webhook, "apply").key = k
  BY <1>1, JobType
<1>3. /\ task' \in [Workers -> Jobs \union {NoTask}]
      /\ \A v \in Workers : task'[v] # NoTask => intent'[task'[v].key] # "NONE"
  BY <1>2, JobStep DEF FetchBy
<1> QED
  BY <1>3 DEF TypeInv, TypeOK, OnRecord, PlacesInOrder, PayHasTarget

\* Each way of asking the gateway asks about an attempt on record.
LEMMA FetchesType ==
  ASSUME TypeInv, NEW w \in Workers, NEW k \in Keys,
         ReconcileFetch(w, k) \/ WebhookFetch(w, k) \/ OtherWebhookFetch(w, k)
  PROVE  TypeInv'
<1>1. CASE ReconcileFetch(w, k)
  <2>1. intent[k] # "NONE"
    BY <1>1 DEF ReconcileFetch, LiveStatuses
  <2> QED
    BY <1>1, <2>1, FetchType DEF ReconcileFetch, TypeInv, TypeOK, OnRecord
<1>2. CASE WebhookFetch(w, k)
  <2>1. intent[k] # "NONE"
    BY <1>2 DEF WebhookFetch, TypeInv, OnRecord
  <2> QED
    BY <1>2, <2>1, FetchType DEF WebhookFetch, TypeInv, TypeOK, OnRecord
<1>3. CASE OtherWebhookFetch(w, k)
  <2>1. intent[k] # "NONE"
    BY <1>3 DEF OtherWebhookFetch, TypeInv, OnRecord
  <2> QED
    BY <1>3, <2>1, FetchType DEF OtherWebhookFetch, TypeInv, TypeOK, OnRecord
<1> QED
  BY <1>1, <1>2, <1>3

\* The worker of an applied answer, and what its step changes.
LEMMA ApplyStep ==
  ASSUME TypeInv, NEW w \in Workers, Apply(w)
  PROVE  /\ task[w].key \in Keys
         /\ task[w].state \in GatewayStates
         /\ intent[task[w].key] # "NONE"
         /\ MovesAttempt(task[w].key, task[w].state)
         /\ ConfirmsOrders(task[w].key, task[w].state)
         /\ KeepsTypes
         /\ \A v \in Workers : task'[v] # NoTask =>
              task'[v].key = task[v].key /\ task'[v].state = task[v].state /\ task[v] # NoTask
<1>1. task[w] \in Jobs /\ task[w] # NoTask
  BY DEF Apply, TypeInv, TypeOK
<1>2. task[w].key \in Keys /\ task[w].state \in GatewayStates
  BY <1>1 DEF Jobs
<1>3. intent[task[w].key] # "NONE"
  BY <1>1 DEF TypeInv, OnRecord
<1>4. /\ MovesAttempt(task[w].key, task[w].state)
      /\ ConfirmsOrders(task[w].key, task[w].state)
      /\ KeepsTypes
  BY <1>2, <1>3, AppliedChanges DEF Apply, TypeInv
<1>5. /\ Job(task[w].key, task[w].state, TRUE, "mark").key = task[w].key
      /\ Job(task[w].key, task[w].state, TRUE, "mark").state = task[w].state
  BY DEF Job
<1>6. \A v \in Workers : task'[v] =
        IF v # w THEN task[v]
        ELSE IF task[w].webhook THEN Job(task[w].key, task[w].state, TRUE, "mark") ELSE NoTask
  BY DEF Apply, TypeInv, TypeOK
<1>7. \A v \in Workers : task'[v] # NoTask =>
        task'[v].key = task[v].key /\ task'[v].state = task[v].state /\ task[v] # NoTask
  BY <1>1, <1>5, <1>6
<1> QED
  BY <1>2, <1>3, <1>4, <1>7

\* Applying an answer keeps attempts, orders and stock well-formed.
LEMMA ApplyType ==
  ASSUME TypeInv, NEW w \in Workers, Apply(w)
  PROVE  TypeInv'
<1> DEFINE k == task[w].key
           j == IF task[w].webhook THEN Job(k, task[w].state, TRUE, "mark") ELSE NoTask
<1>1. /\ k \in Keys
      /\ task[w].state \in GatewayStates
      /\ intent[k] # "NONE"
      /\ MovesAttempt(k, task[w].state)
      /\ KeepsTypes
  BY ApplyStep
<1>2. /\ \A q \in Keys : intent[q] = "NONE" <=> intent'[q] = "NONE"
      /\ intent' \in [Keys -> IntentStatuses \union {"NONE"}]
  BY <1>1 DEF MovesAttempt, LiveStatuses, EndedStatuses
<1>3. task' \in [Workers -> Jobs \union {NoTask}] /\
      \A v \in Workers : task'[v] # NoTask => intent'[task'[v].key] # "NONE"
  <2>1. j \in Jobs \union {NoTask} /\ (j # NoTask => j.key = k)
    BY <1>1, JobType
  <2>2. task' = [task EXCEPT ![w] = j]
    BY DEF Apply
  <2>3. j # NoTask => intent'[j.key] # "NONE"
    BY <1>1, <1>2, <2>1
  <2> HIDE DEF j
  <2> QED
    BY <1>2, <2>1, <2>2, <2>3, JobStep
<1>4. TypeOK'
  BY <1>1, <1>2, <1>3 DEF Apply, KeepsTypes, TypeInv, TypeOK
<1>5. OnRecord'
  BY <1>2, <1>3 DEF Apply, TypeInv, OnRecord
<1> QED
  BY <1>4, <1>5 DEF Apply, TypeInv, PlacesInOrder, PayHasTarget

\* Marking an event processed is done for an event on record.
LEMMA MarkProcessedType ==
  ASSUME TypeInv, NEW w \in Workers, MarkProcessed(w)
  PROVE  TypeInv'
<1>1. task[w].key \in Keys /\ intent[task[w].key] # "NONE"
  BY DEF MarkProcessed, TypeInv, TypeOK, OnRecord, Jobs
<1>2. /\ task' \in [Workers -> Jobs \union {NoTask}]
      /\ \A v \in Workers : task'[v] # NoTask => intent'[task'[v].key] # "NONE"
  BY JobStep DEF MarkProcessed
<1>3. TypeOK'
  BY <1>2 DEF MarkProcessed, TypeInv, TypeOK
<1>4. OnRecord'
  BY <1>1, <1>2 DEF MarkProcessed, TypeInv, TypeOK, OnRecord
<1> QED
  BY <1>3, <1>4 DEF MarkProcessed, TypeInv, PlacesInOrder, PayHasTarget

\* Cancellation, the orphan job and other sales keep the stock a natural number.
LEMMA ShopType ==
  ASSUME TypeInv,
         \/ \E o \in Orders : FailOrphan(o) \/ CancelOrder(o)
         \/ OtherSale
  PROVE  TypeInv'
<1>1. CASE \E o \in Orders : FailOrphan(o)
  BY <1>1 DEF FailOrphan, TypeInv, TypeOK, OrderStatuses, OnRecord, PlacesInOrder, PayHasTarget
<1>2. CASE \E o \in Orders : CancelOrder(o)
  BY <1>2 DEF CancelOrder, TypeInv, TypeOK, OrderStatuses, OnRecord, PlacesInOrder, PayHasTarget
<1>3. CASE OtherSale
  BY <1>3 DEF OtherSale, TypeInv, TypeOK, OnRecord, PlacesInOrder, PayHasTarget
<1> QED
  BY <1>1, <1>2, <1>3

\* A crash forgets a request or a job and nothing that is stored.
LEMMA CrashType ==
  ASSUME TypeInv, Crash
  PROVE  TypeInv'
<1>1. UNCHANGED <<order, intent, covers, gateway, event, flags, stock, sold>>
  BY DEF Crash
<1>2. ASSUME NEW s \in Sessions, session' = [session EXCEPT ![s] = Idle], UNCHANGED task
      PROVE  TypeInv'
  <2>1. session' \in [Sessions -> Requests] /\ PlacesInOrder' /\ PayHasTarget'
    BY <1>2, IdleType, RequestStep
  <2> QED
    BY <1>1, <1>2, <2>1 DEF TypeInv, TypeOK, OnRecord
<1>3. ASSUME NEW w \in Workers, task' = [task EXCEPT ![w] = NoTask], UNCHANGED session
      PROVE  TypeInv'
  <2>1. /\ task' \in [Workers -> Jobs \union {NoTask}]
        /\ \A v \in Workers : task'[v] # NoTask => intent'[task'[v].key] # "NONE"
    BY <1>1, <1>3, JobStep
  <2> QED
    BY <1>1, <1>3, <2>1 DEF TypeInv, TypeOK, OnRecord, PlacesInOrder, PayHasTarget
<1> QED
  BY <1>2, <1>3 DEF Crash

\* Every step of checkout, gateway, workers and shop keeps the state well-formed.
THEOREM TypeStep == TypeInv /\ [Next]_vars => TypeInv'
<1> SUFFICES ASSUME TypeInv, [Next]_vars PROVE TypeInv'
  OBVIOUS
<1>1. CASE \E s \in Sessions :
             \/ StartCheckout(s) \/ PlaceOrder(s) \/ Look(s) \/ PayStops(s) \/ PayOpens(s)
             \/ \E o \in Orders : StartRetry(s, o)
  BY <1>1, StartCheckoutType, PlaceOrderType, LookType, PayStopsType, PayOpensType,
     StartRetryType
<1>2. CASE \E k \in Keys : \E to \in Outcomes : GatewayMoves(k, to)
  BY <1>2, GatewayMovesType
<1>3. CASE \E w \in Workers :
             \/ \E k \in Keys : ReconcileFetch(w, k) \/ WebhookFetch(w, k)
                                \/ OtherWebhookFetch(w, k)
             \/ Apply(w) \/ MarkProcessed(w)
  BY <1>3, FetchesType, ApplyType, MarkProcessedType
<1>4. CASE (\E o \in Orders : FailOrphan(o) \/ CancelOrder(o)) \/ OtherSale
  BY <1>4, ShopType
<1>5. CASE Crash
  BY <1>5, CrashType
<1>6. CASE UNCHANGED vars
  BY <1>6 DEF vars, TypeInv, TypeOK, PlacesInOrder, PayHasTarget, OnRecord
<1> QED
  BY <1>1, <1>2, <1>3, <1>4, <1>5, <1>6 DEF Next

\* The state is well-formed, with its attempts on record at the gateway, for ever.
THEOREM TypeInvariant == Spec => []TypeInv
  BY TypeInit, TypeStep, PTL DEF Spec

\* The state stays well-formed, whatever the cart, the requests and the workers:
\* the stock never goes below zero, no attempt number leaves its range.
THEOREM TypeCorrect == Spec => []TypeOK
<1>1. TypeInv => TypeOK
  BY DEF TypeInv
<1> QED
  BY <1>1, TypeInvariant, PTL

-----------------------------------------------------------------------------
(* A confirmed order has been paid. *)

\* The gateway never takes a capture back.
LEMMA CapturesStay ==
  ASSUME TypeInv, [Next]_vars, NEW k \in Keys, gateway[k] = "CAPTURED"
  PROVE  gateway'[k] = "CAPTURED"
<1>1. ASSUME NEW s \in Sessions, PayOpens(s)
      PROVE  gateway'[k] = "CAPTURED"
  <2> DEFINE j == <<session[s].target, session[s].attempt>>
  <2>1. j \in Keys => gateway[j] = "NONE"
    BY <1>1 DEF PayOpens, OpenAttempt, TypeInv, OnRecord
  <2>2. gateway' = [gateway EXCEPT ![j] = "PENDING"]
    BY <1>1 DEF PayOpens, OpenAttempt
  <2> HIDE DEF j
  <2> QED
    BY <2>1, <2>2 DEF TypeInv, TypeOK
<1>2. ASSUME NEW j \in Keys, NEW to \in Outcomes, GatewayMoves(j, to)
      PROVE  gateway'[k] = "CAPTURED"
  BY <1>2 DEF GatewayMoves, GatewayOpen, TypeInv, TypeOK
<1>3. CASE UNCHANGED gateway
  BY <1>3
<1> QED
  BY <1>1, <1>2, <1>3
     DEF Next, vars, StartCheckout, PlaceOrder, Look, PayStops, StartRetry, ReconcileFetch,
         WebhookFetch, OtherWebhookFetch, Apply, MarkProcessed, FailOrphan, CancelOrder,
         OtherSale, Crash

\* A worker's answer is kept from before the step or is what the gateway says now.
LEMMA AnswersStep ==
  ASSUME TypeInv, [Next]_vars, NEW v \in Workers, task'[v] # NoTask
  PROVE  \/ /\ task[v] # NoTask
            /\ task'[v].key = task[v].key
            /\ task'[v].state = task[v].state
         \/ task'[v].key \in Keys /\ task'[v].state = gateway[task'[v].key]
<1> DEFINE Goal == \/ /\ task[v] # NoTask
                      /\ task'[v].key = task[v].key
                      /\ task'[v].state = task[v].state
                   \/ task'[v].key \in Keys /\ task'[v].state = gateway[task'[v].key]
<1>1. ASSUME NEW w \in Workers, NEW k \in Keys, NEW webhook \in BOOLEAN, FetchBy(w, k, webhook)
      PROVE  Goal
  <2>1. /\ Job(k, gateway[k], webhook, "apply").key = k
        /\ Job(k, gateway[k], webhook, "apply").state = gateway[k]
    BY DEF Job
  <2>2. task'[v] = IF v = w THEN Job(k, gateway[k], webhook, "apply") ELSE task[v]
    BY <1>1 DEF FetchBy, TypeInv, TypeOK
  <2> QED
    BY <2>1, <2>2
<1>2. ASSUME NEW w \in Workers, Apply(w)
      PROVE  Goal
  BY <1>2, ApplyStep
<1>3. ASSUME NEW w \in Workers, task' = [task EXCEPT ![w] = NoTask]
      PROVE  Goal
  BY <1>3 DEF TypeInv, TypeOK
<1>4. CASE UNCHANGED task
  BY <1>4
<1>5. ASSUME NEW w \in Workers, NEW k \in Keys,
             ReconcileFetch(w, k) \/ WebhookFetch(w, k) \/ OtherWebhookFetch(w, k)
      PROVE  Goal
  <2>1. FetchBy(w, k, TRUE) \/ FetchBy(w, k, FALSE)
    BY <1>5 DEF ReconcileFetch, WebhookFetch, OtherWebhookFetch
  <2> HIDE DEF Goal
  <2> QED
    BY <1>1, <2>1
<1>6. ASSUME NEW w \in Workers, MarkProcessed(w)
      PROVE  Goal
  BY <1>3, <1>6 DEF MarkProcessed
<1>7. CASE Crash
  BY <1>3, <1>4, <1>7 DEF Crash
<1>8. \/ \E w \in Workers, k \in Keys :
            ReconcileFetch(w, k) \/ WebhookFetch(w, k) \/ OtherWebhookFetch(w, k)
      \/ \E w \in Workers : Apply(w) \/ MarkProcessed(w)
      \/ Crash
      \/ UNCHANGED task
  BY DEF Next, vars, StartCheckout, PlaceOrder, Look, PayStops, PayOpens, StartRetry,
         GatewayMoves, FailOrphan, CancelOrder, OtherSale
<1>9. CASE \E w \in Workers, k \in Keys :
             ReconcileFetch(w, k) \/ WebhookFetch(w, k) \/ OtherWebhookFetch(w, k)
  BY <1>5, <1>9
<1>10. CASE \E w \in Workers : Apply(w) \/ MarkProcessed(w)
  BY <1>2, <1>6, <1>10
<1> QED
  BY <1>4, <1>7, <1>8, <1>9, <1>10

\* What a step may do to an attempt: open it, or move it while it is live, to
\* CAPTURED only with the gateway's capture.
LEMMA AttemptStep ==
  ASSUME TypeInv, CapturesHold, [Next]_vars, NEW k \in Keys, intent'[k] # intent[k]
  PROVE  \/ /\ intent[k] = "NONE" /\ intent'[k] = "PENDING"
            /\ \E s \in Sessions : PayOpens(s) /\ k = <<session[s].target, session[s].attempt>>
         \/ /\ intent[k] \in LiveStatuses
            /\ \/ intent'[k] \in {"AUTHORIZED"} \union EndedStatuses
               \/ intent'[k] = "CAPTURED" /\ gateway[k] = "CAPTURED"
<1>1. ASSUME NEW s \in Sessions, PayOpens(s)
      PROVE  /\ intent[k] = "NONE" /\ intent'[k] = "PENDING"
             /\ k = <<session[s].target, session[s].attempt>>
  BY <1>1 DEF PayOpens, OpenAttempt, TypeInv, TypeOK
<1>2. ASSUME NEW w \in Workers, Apply(w)
      PROVE  /\ intent[k] \in LiveStatuses
             /\ \/ intent'[k] \in {"AUTHORIZED"} \union EndedStatuses
                \/ intent'[k] = "CAPTURED" /\ gateway[k] = "CAPTURED"
  <2>1. k = task[w].key /\ MovesAttempt(k, task[w].state)
    BY <1>2, ApplyStep DEF MovesAttempt
  <2>2. task[w].state = "CAPTURED" => gateway[k] = "CAPTURED"
    BY <1>2, <2>1 DEF Apply, CapturesHold
  <2> QED
    BY <2>1, <2>2 DEF MovesAttempt
<1>3. UNCHANGED intent \/ (\E s \in Sessions : PayOpens(s)) \/ (\E w \in Workers : Apply(w))
  BY DEF Next, vars, StartCheckout, PlaceOrder, Look, PayStops, StartRetry,
         GatewayMoves, ReconcileFetch, WebhookFetch, OtherWebhookFetch, MarkProcessed,
         FailOrphan, CancelOrder, OtherSale, Crash
<1> QED
  BY <1>1, <1>2, <1>3

\* Only an attempt the gateway has captured confirms an order of its target.
LEMMA OrderStep ==
  ASSUME TypeInv, CapturesHold, [Next]_vars, NEW o \in Orders,
         order'[o] = "CONFIRMED", order[o] # "CONFIRMED"
  PROVE  \E k \in Keys : o \in k[1] /\ intent'[k] = "CAPTURED" /\ gateway[k] = "CAPTURED"
<1>1. ASSUME NEW w \in Workers, Apply(w)
      PROVE  \E k \in Keys : o \in k[1] /\ intent'[k] = "CAPTURED" /\ gateway[k] = "CAPTURED"
  <2>1. task[w].key \in Keys /\ ConfirmsOrders(task[w].key, task[w].state)
    BY <1>1, ApplyStep
  <2>2. task[w].state = "CAPTURED" => gateway[task[w].key] = "CAPTURED"
    BY <1>1 DEF Apply, CapturesHold
  <2> QED
    BY <2>1, <2>2 DEF ConfirmsOrders
<1>2. ~UNCHANGED order
  OBVIOUS
<1>3. \E w \in Workers : Apply(w)
  BY <1>2 DEF Next, vars, StartCheckout, PlaceOrder, Look, PayStops, PayOpens, StartRetry,
         GatewayMoves, ReconcileFetch, WebhookFetch, OtherWebhookFetch, MarkProcessed,
         FailOrphan, CancelOrder, OtherSale, Crash, TypeInv, TypeOK
<1> QED
  BY <1>1, <1>3

\* No step books or confirms a payment without a capture at the gateway.
THEOREM PaidStep == TypeInv /\ PaidInv /\ [Next]_vars => PaidInv'
<1> SUFFICES ASSUME TypeInv, PaidInv, [Next]_vars PROVE PaidInv'
  OBVIOUS
<1> USE DEF PaidInv
<1>1. ASSUME NEW v \in Workers, task'[v] # NoTask, task'[v].state = "CAPTURED"
      PROVE  gateway'[task'[v].key] = "CAPTURED"
  <2>1. task'[v].key \in Keys
    BY <1>1, TypeStep DEF TypeInv, TypeOK, Jobs
  <2>2. gateway[task'[v].key] = "CAPTURED"
    BY <1>1, AnswersStep DEF CapturesHold
  <2> QED
    BY <2>1, <2>2, CapturesStay
<1>2. ASSUME NEW k \in Keys, intent'[k] \in PaidStatuses
      PROVE  gateway'[k] = "CAPTURED"
  <2>1. gateway[k] = "CAPTURED"
    BY <1>2, AttemptStep DEF CapturesHold, PaidStatuses, EndedStatuses
  <2> QED
    BY <2>1, CapturesStay
<1>3. ASSUME NEW o \in Orders, order'[o] = "CONFIRMED"
      PROVE  \E k \in Keys : o \in k[1] /\ intent'[k] \in PaidStatuses /\ gateway'[k] = "CAPTURED"
  <2>1. PICK k \in Keys : o \in k[1] /\ intent'[k] \in PaidStatuses /\ gateway[k] = "CAPTURED"
    <3>1. CASE order[o] = "CONFIRMED"
      <4>1. PICK k \in Keys : o \in k[1] /\ intent[k] \in PaidStatuses /\ gateway[k] = "CAPTURED"
        BY <3>1 DEF ConfirmedIsPaid
      <4>2. intent'[k] = intent[k]
        BY <4>1, AttemptStep DEF PaidStatuses, LiveStatuses
      <4> QED
        BY <4>1, <4>2
    <3>2. CASE order[o] # "CONFIRMED"
      BY <1>3, <3>2, OrderStep DEF PaidStatuses
    <3> QED
      BY <3>1, <3>2
  <2> QED
    BY <2>1, CapturesStay
<1> QED
  BY <1>1, <1>2, <1>3 DEF CapturesHold, ConfirmedIsPaid

\* An order is confirmed only by an attempt for which the gateway has the money
\* and keeps it, however many webhooks, polls and retries race over it.
THEOREM ConfirmedOrdersArePaid == Spec => []ConfirmedIsPaid
<1>1. Init => PaidInv
  BY DEF Init, PaidInv, CapturesHold, ConfirmedIsPaid, PaidStatuses
<1>2. PaidInv => ConfirmedIsPaid
  BY DEF PaidInv
<1> QED
  BY <1>1, <1>2, PaidStep, TypeInvariant, PTL DEF Spec

-----------------------------------------------------------------------------
(* A target's attempts are opened in turn. *)

\* Numbers that leave no gap below them are the first ones: counting them gives
\* the last (payForOrders numbers the next attempt by counting the earlier ones).
LEMMA CountedIsPrefix ==
  ASSUME NEW t,
         \A m, n \in 1..MaxAttempt : m < n /\ n \in AttemptsFor(t) => m \in AttemptsFor(t),
         NEW m \in 1..MaxAttempt, m <= Cardinality(AttemptsFor(t))
  PROVE  m \in AttemptsFor(t)
<1> SUFFICES ASSUME m \notin AttemptsFor(t) PROVE FALSE
  OBVIOUS
<1>1. m \in Nat \ {0} /\ MaxAttempt \in Nat
  BY MaxAttemptAssumption
<1>2. \A n \in AttemptsFor(t) : n \in 1..MaxAttempt
  BY DEF AttemptsFor
<1>3. AttemptsFor(t) \subseteq 1..(m - 1)
  <2> SUFFICES ASSUME NEW n \in AttemptsFor(t) PROVE n \in 1..(m - 1)
    OBVIOUS
  <2>1. n \in 1..MaxAttempt /\ ~(m < n) /\ n # m
    BY <1>2
  <2> QED
    BY <1>1, <2>1
<1>4. IsFiniteSet(1..(m - 1)) /\ Cardinality(1..(m - 1)) = m - 1
  BY <1>1, FS_Interval
<1>5. Cardinality(AttemptsFor(t)) <= m - 1
  BY <1>3, <1>4, FS_Subset
<1> QED
  BY <1>1, <1>5, FiniteAttempts

\* Once an attempt has ended it stays so.
LEMMA EndedStays ==
  ASSUME TypeInv, CapturesHold, [Next]_vars, NEW k \in Keys, intent[k] \in EndedStatuses
  PROVE  intent'[k] \in EndedStatuses
  BY AttemptStep DEF EndedStatuses, LiveStatuses

\* A request about to pay was so before the step or has just looked.
LEMMA PayStep ==
  ASSUME TypeInv, [Next]_vars, NEW s \in Sessions, session'[s].at = "pay"
  PROVE  session'[s] = session[s] \/ Look(s)
<1>1. ASSUME NEW r \in Sessions, NEW at \in {"idle", "placing", "look"},
             NEW seen, NEW t, NEW n,
             session' = [session EXCEPT ![r] = Request(at, seen, t, n)]
      PROVE  session'[s] = session[s]
  <2>1. Request(at, seen, t, n).at = at
    BY DEF Request
  <2> QED
    BY <1>1, <2>1 DEF TypeInv, TypeOK
<1>2. ASSUME NEW r \in Sessions, session' = [session EXCEPT ![r] = Idle]
      PROVE  session'[s] = session[s]
  BY <1>1, <1>2 DEF Idle
<1>3. ASSUME NEW r \in Sessions, StartCheckout(r)
      PROVE  session'[s] = session[s]
  <2>1. CASE Placed = {}
    BY <1>1, <1>3, <2>1 DEF StartCheckout
  <2>2. CASE Placed # {}
    BY <1>1, <1>3, <2>2 DEF StartCheckout
  <2> QED
    BY <2>1, <2>2
<1>4. ASSUME NEW r \in Sessions, PlaceOrder(r)
      PROVE  session'[s] = session[s]
  <2> DEFINE o    == 1 + Cardinality(session[r].seen)
             seen == session[r].seen \union {o}
  <2>1. \/ session' = [session EXCEPT ![r] = Request("look", {}, TargetOfCheckout(seen), 0)]
        \/ session' = [session EXCEPT ![r] = Request("placing", seen, {}, 0)]
        \/ session' = [session EXCEPT ![r] = Idle]
    <3>1. CASE o = Shops
      BY <1>4, <3>1 DEF PlaceOrder
    <3>2. CASE o # Shops
      BY <1>4, <3>2 DEF PlaceOrder
    <3> QED
      BY <3>1, <3>2
  <2> HIDE DEF seen
  <2> QED
    BY <1>1, <1>2, <2>1
<1>5. ASSUME NEW r \in Sessions, NEW o \in Orders, StartRetry(r, o)
      PROVE  session'[s] = session[s]
  BY <1>1, <1>5 DEF StartRetry
<1>6. ASSUME NEW r \in Sessions, Look(r), r # s
      PROVE  session'[s] = session[s]
  BY <1>6 DEF Look, TypeInv, TypeOK
<1>7. ASSUME NEW r \in Sessions, PayStops(r) \/ PayOpens(r)
      PROVE  session'[s] = session[s]
  BY <1>2, <1>7 DEF PayStops, PayOpens
<1>8. CASE Crash
  BY <1>2, <1>8 DEF Crash
<1>9. \/ \E r \in Sessions : StartCheckout(r) \/ PlaceOrder(r) \/ Look(r)
      \/ \E r \in Sessions : PayStops(r) \/ PayOpens(r)
      \/ \E r \in Sessions, o \in Orders : StartRetry(r, o)
      \/ Crash
      \/ UNCHANGED session
  BY DEF Next, vars, GatewayMoves, ReconcileFetch, WebhookFetch, OtherWebhookFetch, Apply,
         MarkProcessed, FailOrphan, CancelOrder, OtherSale
<1>10. CASE \E r \in Sessions : StartCheckout(r) \/ PlaceOrder(r) \/ Look(r)
  BY <1>3, <1>4, <1>6, <1>10
<1>11. CASE \E r \in Sessions : PayStops(r) \/ PayOpens(r)
  BY <1>7, <1>11
<1>12. CASE \E r \in Sessions, o \in Orders : StartRetry(r, o)
  BY <1>5, <1>12
<1> QED
  BY <1>8, <1>9, <1>10, <1>11, <1>12

\* The next number a request computes is above ended attempts only.
LEMMA LookStep ==
  ASSUME TypeInv, AttemptsInTurn, NEW s \in Sessions, Look(s), session'[s].at = "pay",
         NEW m \in 1..MaxAttempt, m < session'[s].attempt
  PROVE  session'[s].target \in Targets
         /\ intent[<<session'[s].target, m>>] \in EndedStatuses
<1> DEFINE t == session[s].target
           n == Cardinality(AttemptsFor(t)) + 1
<1>1. t \in Targets
  BY DEF Look, TypeInv, PayHasTarget
<1>2. session'[s] = Request("pay", {}, t, n) /\ ~HasPaid(t) /\ ~HasLive(t)
  <2>1. ~(HasPaid(t) \/ HasLive(t))
    <3>1. Idle.at # "pay"
      BY IdleType
    <3> QED
      BY <3>1 DEF Look, TypeInv, TypeOK
  <2> QED
    BY <2>1 DEF Look, TypeInv, TypeOK
<1>3. session'[s].target = t /\ session'[s].attempt = n
  BY <1>2 DEF Request
<1>4. m \in AttemptsFor(t)
  <2>1. \A i, j \in 1..MaxAttempt : i < j /\ j \in AttemptsFor(t) => i \in AttemptsFor(t)
    BY <1>1 DEF AttemptsInTurn, AttemptsFor, EndedStatuses
  <2>2. m <= Cardinality(AttemptsFor(t))
    BY <1>3, FiniteAttempts, MaxAttemptAssumption
  <2> QED
    BY <2>1, <2>2, CountedIsPrefix
<1>5. intent[<<t, m>>] \in EndedStatuses
  <2>1. <<t, m>> \in Keys
    BY <1>1 DEF Keys
  <2>2. intent[<<t, m>>] \in IntentStatuses
    BY <1>4, <2>1 DEF AttemptsFor, TypeInv, TypeOK
  <2>3. intent[<<t, m>>] \notin LiveStatuses \union PaidStatuses
    BY <1>2, <1>4 DEF HasLive, HasPaid
  <2> QED
    BY <2>2, <2>3 DEF IntentStatuses, LiveStatuses, PaidStatuses, EndedStatuses
<1> HIDE DEF t, n
<1> QED
  BY <1>1, <1>3, <1>5

\* No step opens an attempt above one that has not ended.
THEOREM TurnStep == TypeInv /\ CapturesHold /\ TurnInv /\ [Next]_vars => TurnInv'
<1> SUFFICES ASSUME TypeInv, CapturesHold, TurnInv, [Next]_vars PROVE TurnInv'
  OBVIOUS
<1> USE DEF TurnInv
<1>1. ASSUME NEW s \in Sessions, session'[s].at = "pay",
             NEW m \in 1..MaxAttempt, m < session'[s].attempt
      PROVE  intent'[<<session'[s].target, m>>] \in EndedStatuses
  <2>1. /\ session'[s].target \in Targets
        /\ intent[<<session'[s].target, m>>] \in EndedStatuses
    <3>1. CASE session'[s] = session[s]
      BY <1>1, <3>1 DEF LookedInTurn, TypeInv, PayHasTarget
    <3>2. CASE Look(s)
      BY <1>1, <3>2, LookStep
    <3> QED
      BY <1>1, <3>1, <3>2, PayStep
  <2>2. <<session'[s].target, m>> \in Keys
    BY <2>1 DEF Keys
  <2> QED
    BY <2>1, <2>2, EndedStays
<1>2. ASSUME NEW t \in Targets, NEW m \in 1..MaxAttempt, NEW n \in 1..MaxAttempt,
             m < n, intent'[<<t, n>>] # "NONE"
      PROVE  intent'[<<t, m>>] \in EndedStatuses
  <2>1. <<t, m>> \in Keys /\ <<t, n>> \in Keys
    BY DEF Keys
  <2>2. CASE intent[<<t, n>>] # "NONE"
    BY <1>2, <2>1, <2>2, EndedStays DEF AttemptsInTurn
  <2>3. CASE intent[<<t, n>>] = "NONE"
    <3>1. PICK s \in Sessions :
            PayOpens(s) /\ <<t, n>> = <<session[s].target, session[s].attempt>>
      BY <1>2, <2>1, <2>3, AttemptStep DEF LiveStatuses
    <3>2. session[s].at = "pay" /\ session[s].target = t /\ session[s].attempt = n
      BY <3>1 DEF PayOpens
    <3> QED
      BY <1>2, <2>1, <3>2, EndedStays DEF LookedInTurn
  <2> QED
    BY <2>2, <2>3
<1> QED
  BY <1>1, <1>2 DEF LookedInTurn, AttemptsInTurn

\* A target's next attempt is opened only when all earlier ones have ended,
\* however many requests read the attempts before the lock and act after it.
THEOREM AttemptsAreInTurn == Spec => []AttemptsInTurn
<1>1. Init => PaidInv
  BY DEF Init, PaidInv, CapturesHold, ConfirmedIsPaid, PaidStatuses
<1>2. Init => TurnInv
  BY IdleType DEF Init, TurnInv, LookedInTurn, AttemptsInTurn, Keys
<1>3. PaidInv => CapturesHold
  BY DEF PaidInv
<1>4. TurnInv => AttemptsInTurn
  BY DEF TurnInv
<1> QED
  BY <1>1, <1>2, <1>3, <1>4, PaidStep, TurnStep, TypeInvariant, PTL DEF Spec

-----------------------------------------------------------------------------
(* What the open attempts cover. *)

\* An attempt is opened for orders of its own target only.
CoversWithin == \A k \in Keys : covers[k] \subseteq k[1]

\* PayOpens is the only step that says what an attempt pays for.
LEMMA CoversStep == TypeInv /\ CoversWithin /\ [Next]_vars => CoversWithin'
<1> SUFFICES ASSUME TypeInv, CoversWithin, [Next]_vars PROVE CoversWithin'
  OBVIOUS
<1>1. ASSUME NEW s \in Sessions, PayOpens(s), NEW k \in Keys
      PROVE  covers'[k] \subseteq k[1]
  <2> DEFINE t == session[s].target
             j == <<t, session[s].attempt>>
  <2>1. covers' = [covers EXCEPT ![j] = AwaitingIn(t)]
    BY <1>1 DEF PayOpens, OpenAttempt
  <2>2. AwaitingIn(t) \subseteq j[1]
    BY DEF AwaitingIn
  <2> HIDE DEF j, t
  <2> QED
    BY <2>1, <2>2 DEF TypeInv, TypeOK, CoversWithin
<1>2. CASE UNCHANGED covers
  BY <1>2 DEF CoversWithin
<1>3. UNCHANGED covers \/ \E s \in Sessions : PayOpens(s)
  BY DEF Next, vars, StartCheckout, PlaceOrder, Look, PayStops, StartRetry, GatewayMoves,
         ReconcileFetch, WebhookFetch, OtherWebhookFetch, Apply, MarkProcessed, FailOrphan,
         CancelOrder, OtherSale, Crash
<1> QED
  BY <1>1, <1>2, <1>3 DEF CoversWithin

\* The open attempts that cover an order are attempts of one of its targets.
LEMMA LiveIsOfTarget ==
  ASSUME TypeInv, CoversWithin, NEW o \in Orders, NEW k \in LiveFor(o)
  PROVE  k[1] \in TargetsOf(o) /\ HasLive(k[1])
<1>1. k \in Keys /\ o \in k[1] /\ intent[k] \in LiveStatuses
  BY DEF LiveFor, CoversWithin
<1>2. k[1] \in Targets /\ k[2] \in 1..MaxAttempt /\ k = <<k[1], k[2]>>
  BY <1>1 DEF Keys
<1> QED
  BY <1>1, <1>2 DEF Targets, TargetsOf, HasLive, AttemptsFor, LiveStatuses
=============================================================================
