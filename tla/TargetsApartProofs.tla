------------------------- MODULE TargetsApartProofs -------------------------
(***************************************************************************)
(* Theorems about OrderPayments for any number of shops: the stock of an   *)
(* order, its attempts on record and what is booked for it are right as    *)
(* long as it has not been offered for payment both alone and with its     *)
(* group.  In a cart of one shop that never happens; with two shops it can *)
(* (run TwoShopsPaidTwice), and it is the only way to two open or paid     *)
(* attempts of an order.  That is about the records, not about what the    *)
(* gateway takes on the page of an attempt reported FAILED.  The last part *)
(* is about what an order is confirmed with.                               *)
(***************************************************************************)
EXTENDS OrderPaymentsProofs

\* All attempts on record for the order are attempts of one target.
OneTarget(o) ==
  \A j, k \in Keys :
    intent[j] # "NONE" /\ intent[k] # "NONE" /\ o \in j[1] /\ o \in k[1] => j[1] = k[1]
TargetsApart == \A o \in Orders : OneTarget(o)

\* An open attempt covers only orders that wait for their payment, and of its
\* target's orders every one that has failed.
OpenInv(o) ==
  \A k \in Keys : intent[k] \in LiveStatuses =>
    /\ o \in covers[k] => order[o] \in AwaitingPayment
    /\ o \in k[1] /\ order[o] = "PAYMENT_FAILED" => o \in covers[k]
ApartInv == \A o \in Orders : OneTarget(o) => OpenInv(o)
StockInv == TargetsApart => StockConserved

Held == {o \in Orders : Holds(o)}

\* A request that is about to open an attempt has numbered it.
Numbered == \A s \in Sessions : session[s].at = "pay" => session[s].attempt \in 1..MaxAttempt

\* What the steps may rely on before they are taken, and the turns after.
Given == TypeInv /\ CapturesHold /\ CoversWithin /\ Numbered /\ AttemptsInTurn

-----------------------------------------------------------------------------
(* Facts about attempts and targets. *)

LEMMA NumberedStep ==
  ASSUME TypeInv, Numbered, [Next]_vars
  PROVE  Numbered'
<1> SUFFICES ASSUME NEW s \in Sessions, session'[s].at = "pay"
             PROVE  session'[s].attempt \in 1..MaxAttempt
  BY DEF Numbered
<1>1. CASE session'[s] = session[s]
  BY <1>1 DEF Numbered
<1>2. CASE Look(s)
  <2> DEFINE t == session[s].target
             n == Cardinality(AttemptsFor(t)) + 1
  <2>1. session'[s] = Request("pay", {}, t, n) /\ n <= MaxAttempt
    <3>1. ~(HasPaid(t) \/ HasLive(t))
      <4>1. Idle.at # "pay"
        BY IdleType
      <4> QED BY <1>2, <4>1 DEF Look, TypeInv, TypeOK
    <3> QED BY <1>2, <3>1 DEF Look, TypeInv, TypeOK
  <2>2. n \in 1..MaxAttempt
    BY <2>1, FiniteAttempts, MaxAttemptAssumption
  <2> HIDE DEF t, n
  <2>3. Request("pay", {}, t, n).attempt = n
    BY DEF Request
  <2> QED BY <2>1, <2>2, <2>3
<1> QED BY <1>1, <1>2, PayStep

LEMMA KeyShape ==
  ASSUME NEW k \in Keys
  PROVE  k[1] \in Targets /\ k[1] \subseteq Orders /\ k[2] \in 1..MaxAttempt /\ k = <<k[1], k[2]>>
BY DEF Keys, Targets

\* Of one target's attempts at most one has not ended.
LEMMA OneOpen ==
  ASSUME AttemptsInTurn, NEW j \in Keys, NEW k \in Keys, j[1] = k[1],
         intent[j] \in LiveStatuses \union PaidStatuses,
         intent[k] \in LiveStatuses \union PaidStatuses
  PROVE  j = k
<1>1. PICK t \in Targets, m \in 1..MaxAttempt, n \in 1..MaxAttempt : j = <<t, m>> /\ k = <<t, n>>
  BY KeyShape
<1>2. ~(m < n) /\ ~(n < m)
  BY <1>1 DEF AttemptsInTurn, LiveStatuses, PaidStatuses, EndedStatuses
<1> QED BY <1>1, <1>2, MaxAttemptAssumption

\* Of the attempts at an order that has one target, too.
LEMMA OneOpenOf ==
  ASSUME AttemptsInTurn, NEW o, OneTarget(o), NEW j \in Keys, NEW k \in Keys,
         o \in j[1], o \in k[1],
         intent[j] \in LiveStatuses \union PaidStatuses,
         intent[k] \in LiveStatuses \union PaidStatuses
  PROVE  j = k
<1>1. j[1] = k[1]
  BY DEF OneTarget, LiveStatuses, PaidStatuses
<1> QED BY <1>1, OneOpen

\* An attempt stays on record, so an order that has one target has had no other.
LEMMA OneTargetBefore ==
  ASSUME TypeInv, CapturesHold, [Next]_vars, NEW o \in Orders, OneTarget(o)'
  PROVE  OneTarget(o)
<1>1. ASSUME NEW k \in Keys, intent[k] # "NONE" PROVE intent'[k] # "NONE"
  BY <1>1, AttemptStep DEF LiveStatuses, EndedStatuses
<1> QED BY <1>1 DEF OneTarget

LEMMA ApartBefore ==
  ASSUME TypeInv, CapturesHold, [Next]_vars, TargetsApart'
  PROVE  TargetsApart
BY OneTargetBefore DEF TargetsApart

\* The attempts are finitely many.
LEMMA FiniteKeys == IsFiniteSet(Keys)
<1>1. IsFiniteSet(SUBSET Orders) /\ IsFiniteSet(1..MaxAttempt)
  <2>1. Orders \in SUBSET Orders
    OBVIOUS
  <2>2. IsFiniteSet(Orders)
    BY <2>1, FiniteOrders
  <2>3. IsFiniteSet(SUBSET Orders)
    BY <2>2, FS_SUBSET
  <2> QED BY <2>3, FS_Interval, MaxAttemptAssumption
<1>2. Targets \in SUBSET (SUBSET Orders)
  BY DEF Targets
<1>3. IsFiniteSet(Targets)
  BY <1>1, <1>2, FS_Subset
<1> QED BY <1>1, <1>3, FS_Product DEF Keys

LEMMA HeldFinite == IsFiniteSet(Held) /\ Cardinality(Held) \in Nat
BY FiniteOrders DEF Held

-----------------------------------------------------------------------------
(* What the open attempts cover. *)

\* Steps that leave the orders and their attempts alone.
LEMMA OpenAside ==
  ASSUME NEW o, OpenInv(o), UNCHANGED <<intent, covers>>, order'[o] = order[o]
  PROVE  OpenInv(o)'
BY DEF OpenInv

\* A new attempt covers every order of its target that waits, and no other
\* attempt of the target is open.
LEMMA OpenPays ==
  ASSUME Given, AttemptsInTurn', NEW o \in Orders, OneTarget(o)', OpenInv(o),
         NEW s \in Sessions, PayOpens(s)
  PROVE  OpenInv(o)'
<1> DEFINE t == session[s].target
           j == <<t, session[s].attempt>>
<1>1. j \in Keys /\ j[1] = t
  BY DEF PayOpens, Given, TypeInv, PayHasTarget, Numbered, Keys
<1>2. /\ order' = order
      /\ intent' = [intent EXCEPT ![j] = "PENDING"]
      /\ covers' = [covers EXCEPT ![j] = AwaitingIn(t)]
  BY DEF PayOpens, OpenAttempt
<1> HIDE DEF j, t
<1>3. /\ covers'[j] = AwaitingIn(t)
      /\ \A k \in Keys \ {j} : intent'[k] = intent[k] /\ covers'[k] = covers[k]
  BY <1>1, <1>2 DEF Given, TypeInv, TypeOK
<1> QED BY <1>1, <1>2, <1>3 DEF OpenInv, AwaitingIn, AwaitingPayment

\* The attempt an answer settles was open; of the order's attempts no other is.
LEMMA OpenSettles ==
  ASSUME Given, NEW o \in Orders, OneTarget(o), OpenInv(o),
         NEW k \in Keys, intent[k] \in LiveStatuses, UNCHANGED covers,
         intent'[k] \notin LiveStatuses, \A j \in Keys \ {k} : intent'[j] = intent[j],
         o \notin k[1] => order'[o] = order[o]
  PROVE  OpenInv(o)'
<1> SUFFICES ASSUME NEW j \in Keys, intent'[j] \in LiveStatuses
             PROVE  /\ o \in covers[j] => order'[o] \in AwaitingPayment
                    /\ o \in j[1] /\ order'[o] = "PAYMENT_FAILED" => o \in covers[j]
  BY DEF OpenInv
<1>1. j # k /\ intent[j] \in LiveStatuses
  OBVIOUS
<1>2. CASE o \in k[1]
  <2>1. o \notin j[1]
    BY <1>1, <1>2, OneOpenOf DEF Given
  <2> QED BY <2>1 DEF Given, CoversWithin
<1>3. CASE o \notin k[1]
  BY <1>1, <1>3 DEF OpenInv
<1> QED BY <1>2, <1>3

LEMMA OpenApply ==
  ASSUME Given, NEW o \in Orders, OneTarget(o), OpenInv(o), NEW w \in Workers, Apply(w)
  PROVE  OpenInv(o)'
<1> DEFINE k == task[w].key
           state == task[w].state
<1>1. k \in Keys /\ state \in GatewayStates /\ intent[k] # "NONE"
  BY ApplyStep DEF Given
<1>2. intent[k] \in IntentStatuses
  BY <1>1 DEF Given, TypeInv, TypeOK
<1>3. Applied(k, state) /\ UNCHANGED covers
  BY DEF Apply
<1> HIDE DEF k, state
<1>4. ASSUME Captured(k), CanMove(intent[k], "CAPTURED") PROVE OpenInv(o)'
  <2>1. intent[k] \in LiveStatuses
    BY <1>2, <1>4, OnlyLiveMoves
  <2>2. intent'[k] = "CAPTURED" /\ \A j \in Keys \ {k} : intent'[j] = intent[j]
    BY <1>1, <1>4 DEF Captured, Given, TypeInv, TypeOK
  <2>3. o \notin k[1] => order'[o] = order[o]
    BY <1>4 DEF Captured, AwaitingIn
  <2> QED BY <1>1, <1>3, <2>1, <2>2, <2>3, OpenSettles DEF LiveStatuses
<1>5. ASSUME NEW to \in EndedStatuses, CanMove(intent[k], to), Ended(k, to) PROVE OpenInv(o)'
  <2>1. intent[k] \in LiveStatuses
    BY <1>2, <1>5, OnlyLiveMoves
  <2>2. intent'[k] = to /\ \A j \in Keys \ {k} : intent'[j] = intent[j]
    BY <1>1, <1>5 DEF Ended, Given, TypeInv, TypeOK
  <2>3. o \notin k[1] => order'[o] = order[o]
    BY <1>5 DEF Ended, AwaitingIn
  <2> QED BY <1>1, <1>3, <2>1, <2>2, <2>3, OpenSettles DEF LiveStatuses, EndedStatuses
<1>6. CASE CanMove(intent[k], "AUTHORIZED") /\ UNCHANGED order
           /\ intent' = [intent EXCEPT ![k] = "AUTHORIZED"]
  <2>1. intent[k] \in LiveStatuses
    BY <1>2, <1>6, OnlyLiveMoves
  <2>2. \A j \in Keys : intent'[j] \in LiveStatuses => intent[j] \in LiveStatuses
    BY <1>6, <2>1 DEF Given, TypeInv, TypeOK
  <2> QED BY <1>3, <1>6, <2>2 DEF OpenInv
<1>7. CASE UNCHANGED <<order, intent>>
  BY <1>3, <1>7, OpenAside
<1> QED BY <1>3, <1>4, <1>5, <1>6, <1>7 DEF Applied, Flag

\* An order is placed before any of its attempts, fails on its own only without
\* one, and is cancelled unpaid only when none is open.
LEMMA OpenShop ==
  ASSUME Given, NEW o \in Orders, OpenInv(o), NEW p \in Orders, UNCHANGED <<intent, covers>>,
         \/ order[p] = "NONE" /\ order' = [order EXCEPT ![p] = "PENDING"]
         \/ FailOrphan(p)
         \/ CancelOrder(p)
  PROVE  OpenInv(o)'
<1>1. CASE order'[o] = order[o]
  BY <1>1, OpenAside
<1>2. CASE order'[o] # order[o]
  <2>1. p = o
    BY <1>2 DEF FailOrphan, CancelOrder, Given, TypeInv, TypeOK
  <2>2. CASE order[o] = "NONE" /\ order'[o] = "PENDING"
    BY <2>2 DEF OpenInv, AwaitingPayment
  <2>3. ASSUME NEW k \in Keys, intent[k] \in LiveStatuses, o \in k[1]
        PROVE  k[1] \in TargetsOf(o) /\ HasLive(k[1]) /\ AttemptsFor(k[1]) # {}
    <3>1. k[1] \in Targets /\ k[2] \in 1..MaxAttempt /\ k = <<k[1], k[2]>>
      BY KeyShape
    <3> QED BY <2>3, <3>1 DEF Targets, TargetsOf, HasLive, AttemptsFor, LiveStatuses
  <2>4. CASE FailOrphan(o)
    BY <2>3, <2>4 DEF FailOrphan, OpenInv, Given, CoversWithin
  <2>5. CASE CancelOrder(o)
    <3>1. order'[o] = "CANCELLED" /\ order[o] \in AwaitingPayment \union {"CONFIRMED"}
      BY <2>5 DEF CancelOrder, Given, TypeInv, TypeOK
    <3>2. CASE order[o] \in AwaitingPayment
      BY <2>3, <2>5, <3>1, <3>2 DEF CancelOrder, OpenInv, Given, CoversWithin
    <3>3. CASE order[o] = "CONFIRMED"
      BY <3>1, <3>3 DEF OpenInv, AwaitingPayment
    <3> QED BY <3>1, <3>2, <3>3
  <2>6. (order[o] = "NONE" /\ order'[o] = "PENDING") \/ FailOrphan(o) \/ CancelOrder(o)
    BY <2>1 DEF Given, TypeInv, TypeOK
  <2> QED BY <2>2, <2>4, <2>5, <2>6
<1> QED BY <1>1, <1>2

LEMMA PlaceStep ==
  ASSUME TypeInv, NEW s \in Sessions, PlaceOrder(s)
  PROVE  /\ UNCHANGED <<intent, covers, sold>>
         /\ \/ UNCHANGED <<order, stock>>
            \/ \E p \in Orders : /\ order[p] = "NONE" /\ stock > 0
                                 /\ order' = [order EXCEPT ![p] = "PENDING"]
                                 /\ stock' = stock - 1
<1> DEFINE o == 1 + Cardinality(session[s].seen)
<1>1. o \in Orders
  <2>1. PICK m \in 0..(Shops - 1) : session[s].seen = 1..m
    BY DEF PlaceOrder, TypeInv, PlacesInOrder
  <2>2. Cardinality(session[s].seen) = m
    BY <2>1, FS_Interval, ShopsAssumption
  <2> QED BY <2>2, ShopsAssumption DEF Orders
<1> QED BY <1>1 DEF PlaceOrder

\* The steps that matter to what is open and what is held, and no other.
LEMMA ShopSteps ==
  ASSUME TypeInv, [Next]_vars
  PROVE  \/ \E p \in Orders : /\ order[p] = "NONE" /\ stock > 0
                              /\ order' = [order EXCEPT ![p] = "PENDING"]
                              /\ stock' = stock - 1 /\ UNCHANGED <<intent, covers, sold>>
         \/ \E s \in Sessions : PayOpens(s)
         \/ \E w \in Workers : Apply(w)
         \/ \E p \in Orders : FailOrphan(p) \/ CancelOrder(p)
         \/ OtherSale
         \/ UNCHANGED <<order, intent, covers, stock, sold>>
<1>1. ASSUME NEW s \in Sessions, PlaceOrder(s)
      PROVE  \/ UNCHANGED <<order, intent, covers, stock, sold>>
             \/ \E p \in Orders : /\ order[p] = "NONE" /\ stock > 0
                                  /\ order' = [order EXCEPT ![p] = "PENDING"]
                                  /\ stock' = stock - 1 /\ UNCHANGED <<intent, covers, sold>>
  BY <1>1, PlaceStep
<1>2. \/ \E s \in Sessions : PlaceOrder(s) \/ PayOpens(s)
      \/ \E w \in Workers : Apply(w)
      \/ \E p \in Orders : FailOrphan(p) \/ CancelOrder(p)
      \/ OtherSale
      \/ UNCHANGED <<order, intent, covers, stock, sold>>
  BY DEF Next, vars, StartCheckout, Look, PayStops, StartRetry, GatewayMoves,
         ReconcileFetch, WebhookFetch, OtherWebhookFetch, MarkProcessed, Crash
<1> QED BY <1>1, <1>2

LEMMA ApartStep ==
  ASSUME Given, AttemptsInTurn', ApartInv, [Next]_vars
  PROVE  ApartInv'
<1> SUFFICES ASSUME NEW o \in Orders, OneTarget(o)' PROVE OpenInv(o)'
  BY DEF ApartInv
<1>1. OneTarget(o) /\ OpenInv(o)
  BY OneTargetBefore DEF Given, ApartInv
<1>2. ASSUME NEW s \in Sessions, PayOpens(s) PROVE OpenInv(o)'
  BY <1>1, <1>2, OpenPays
<1>3. ASSUME NEW w \in Workers, Apply(w) PROVE OpenInv(o)'
  BY <1>1, <1>3, OpenApply
<1>4. ASSUME NEW p \in Orders, UNCHANGED <<intent, covers>>,
             \/ order[p] = "NONE" /\ order' = [order EXCEPT ![p] = "PENDING"]
             \/ FailOrphan(p)
             \/ CancelOrder(p)
      PROVE  OpenInv(o)'
  BY <1>1, <1>4, OpenShop
<1>5. CASE UNCHANGED <<order, intent, covers>>
  BY <1>1, <1>5, OpenAside
<1>6. UNCHANGED <<order, intent, covers>>
      \/ (\E s \in Sessions : PayOpens(s)) \/ (\E w \in Workers : Apply(w))
      \/ \E p \in Orders : /\ UNCHANGED <<intent, covers>>
                           /\ \/ order[p] = "NONE" /\ order' = [order EXCEPT ![p] = "PENDING"]
                              \/ FailOrphan(p)
                              \/ CancelOrder(p)
  BY ShopSteps DEF Given, FailOrphan, CancelOrder, OtherSale
<1> QED BY <1>2, <1>3, <1>4, <1>5, <1>6

-----------------------------------------------------------------------------
(* What the orders hold of the stock. *)

\* A step that lets go of the units of A, and puts them on the shelf.
LEMMA GivesBack ==
  ASSUME TypeInv, StockConserved, NEW A \in SUBSET Held, Held' = Held \ A,
         stock' = stock + Cardinality(A), sold' = sold
  PROVE  StockConserved'
<1>1. Cardinality(Held \ A) = Cardinality(Held) - Cardinality(A)
  <2>1. Held \cap A = A
    OBVIOUS
  <2> QED BY <2>1, HeldFinite, FS_Difference
<1>2. Cardinality(A) \in Nat /\ Cardinality(Held) \in Nat
  BY HeldFinite, FS_Subset, FS_CardinalityType
<1>3. StockConserved' <=> stock' + sold' + Cardinality(Held') = InitialStock
  BY DEF StockConserved, Held
<1>4. stock + sold + Cardinality(Held) = InitialStock
  BY DEF StockConserved, Held
<1>5. Cardinality(Held') = Cardinality(Held) - Cardinality(A)
  BY <1>1
<1> QED BY <1>2, <1>3, <1>4, <1>5 DEF TypeInv, TypeOK

\* A step that takes the units of A from the shelf.
LEMMA TakesUp ==
  ASSUME TypeInv, StockConserved, NEW A \in SUBSET Orders, A \cap Held = {},
         Held' = Held \union A,
         stock' = stock - Cardinality(A), sold' = sold
  PROVE  StockConserved'
<1> DEFINE H == Held \union A
<1>1. IsFiniteSet(H) /\ Cardinality(H) \in Nat
  BY FiniteOrders DEF Held
<1>2. Cardinality(Held) = Cardinality(H) - Cardinality(A)
  <2>1. H \cap A = A /\ H \ A = Held
    OBVIOUS
  <2> HIDE DEF H
  <2> QED BY <1>1, <2>1, FS_Difference
<1>3. Cardinality(A) \in Nat /\ Cardinality(Held) \in Nat
  BY HeldFinite, FiniteOrders
<1>4. StockConserved' <=> stock' + sold' + Cardinality(Held') = InitialStock
  BY DEF StockConserved, Held
<1>5. stock + sold + Cardinality(Held) = InitialStock
  BY DEF StockConserved, Held
<1> HIDE DEF H
<1>6. Cardinality(Held') = Cardinality(H)
  BY DEF H
<1> QED BY <1>1, <1>2, <1>3, <1>4, <1>5, <1>6 DEF TypeInv, TypeOK

\* A step that moves no unit between the orders and the shelf.
LEMMA HoldsOn ==
  ASSUME TypeInv, StockConserved, Held' = Held, stock' + sold' = stock + sold
  PROVE  StockConserved'
<1>1. StockConserved' <=> stock' + sold' + Cardinality(Held') = InitialStock
  BY DEF StockConserved, Held
<1>2. stock + sold + Cardinality(Held) = InitialStock
  BY DEF StockConserved, Held
<1>3. Cardinality(Held') = Cardinality(Held)
  OBVIOUS
<1> QED BY <1>1, <1>2, <1>3

\* An order placed takes a unit.
LEMMA StockPlaces ==
  ASSUME TypeInv, StockConserved, NEW p \in Orders, order[p] = "NONE",
         order' = [order EXCEPT ![p] = "PENDING"], stock' = stock - 1,
         UNCHANGED <<intent, covers, sold>>
  PROVE  StockConserved'
<1>1. \A o \in Orders : Holds(o)' <=> Holds(o) \/ o = p
  BY DEF Holds, LiveFor, TypeInv, TypeOK
<1>2. ~Holds(p)
  BY DEF Holds
<1>3. Held' = Held \union {p} /\ {p} \cap Held = {}
  BY <1>1, <1>2 DEF Held
<1>4. Cardinality({p}) = 1
  BY FS_Singleton
<1> QED BY <1>3, <1>4, TakesUp

\* A new attempt takes the units of the failed orders of its target again: none
\* of them is held by another attempt.
LEMMA StockPays ==
  ASSUME Given, AttemptsInTurn', TargetsApart', StockConserved,
         NEW s \in Sessions, PayOpens(s)
  PROVE  StockConserved'
<1> DEFINE t == session[s].target
           j == <<t, session[s].attempt>>
           rehold == {o \in AwaitingIn(t) : order[o] = "PAYMENT_FAILED"}
<1>1. j \in Keys /\ j[1] = t /\ t \subseteq Orders
  BY DEF PayOpens, Given, TypeInv, PayHasTarget, Numbered, Keys, Targets
<1>2. /\ intent[j] = "NONE"
      /\ intent' = [intent EXCEPT ![j] = "PENDING"]
      /\ covers' = [covers EXCEPT ![j] = AwaitingIn(t)]
      /\ UNCHANGED <<order, sold>> /\ stock' = stock - Cardinality(rehold)
  BY DEF PayOpens, OpenAttempt
<1>3. \A o \in Orders : o \in rehold <=> o \in t /\ order[o] = "PAYMENT_FAILED"
  BY <1>1 DEF AwaitingIn, AwaitingPayment
<1>4. rehold \in SUBSET Orders
  BY <1>1 DEF AwaitingIn
<1>5. \A o \in Orders : o \in AwaitingIn(t) /\ order[o] = "PAYMENT_FAILED" <=> o \in rehold
  BY <1>1 DEF AwaitingIn
<1> HIDE DEF j, t, rehold
<1>6. /\ intent'[j] = "PENDING" /\ covers'[j] = AwaitingIn(t)
      /\ \A k \in Keys \ {j} : intent'[k] = intent[k] /\ covers'[k] = covers[k]
  BY <1>1, <1>2 DEF Given, TypeInv, TypeOK
<1>7. ASSUME NEW o \in rehold PROVE LiveFor(o) = {}
  <2> SUFFICES ASSUME NEW k \in LiveFor(o) PROVE FALSE
    OBVIOUS
  <2>1. k \in Keys /\ intent[k] \in LiveStatuses /\ o \in k[1]
    BY DEF LiveFor, Given, CoversWithin
  <2>2. k # j
    BY <1>2, <2>1 DEF LiveStatuses
  <2>3. intent'[k] \in LiveStatuses /\ intent'[j] \in LiveStatuses
    BY <1>6, <2>1, <2>2 DEF LiveStatuses
  <2>4. k[1] = j[1]
    <3>1. o \in Orders /\ o \in j[1]
      BY <1>1, <1>3, <1>4
    <3>2. OneTarget(o)'
      BY <3>1 DEF TargetsApart
    <3> QED BY <1>1, <2>1, <2>3, <3>1, <3>2 DEF OneTarget, LiveStatuses
  <2>5. PICK m \in 1..MaxAttempt, n \in 1..MaxAttempt : k = <<j[1], m>> /\ j = <<j[1], n>>
    BY <1>1, <2>1, <2>4, KeyShape
  <2>6. j[1] \in Targets
    BY <1>1, KeyShape
  <2>7. ~(m < n) /\ ~(n < m)
    BY <2>3, <2>5, <2>6 DEF AttemptsInTurn, LiveStatuses, EndedStatuses
  <2> QED BY <2>2, <2>5, <2>7, MaxAttemptAssumption
<1>8. ASSUME NEW o \in Orders PROVE Holds(o)' <=> Holds(o) \/ o \in rehold
  <2>1. CASE order[o] # "PAYMENT_FAILED"
    BY <1>2, <1>3, <2>1 DEF Holds
  <2>2. CASE order[o] = "PAYMENT_FAILED" /\ o \in rehold
    <3>1. j \in LiveFor(o)'
      BY <1>1, <1>5, <1>6, <2>2 DEF LiveFor, LiveStatuses
    <3> QED BY <1>2, <2>2, <3>1 DEF Holds
  <2>3. CASE order[o] = "PAYMENT_FAILED" /\ o \notin rehold
    <3>1. o \notin covers'[j] /\ intent[j] \notin LiveStatuses
      BY <1>2, <1>5, <1>6, <2>3 DEF LiveStatuses
    <3>2. LiveFor(o)' = LiveFor(o)
      BY <1>1, <1>6, <3>1 DEF LiveFor
    <3> QED BY <1>2, <2>3, <3>2 DEF Holds
  <2> QED BY <2>1, <2>2, <2>3
<1>9. \A o \in rehold : ~Holds(o)
  BY <1>3, <1>4, <1>7 DEF Holds
<1>10. Held' = Held \union rehold /\ rehold \cap Held = {}
  BY <1>4, <1>8, <1>9 DEF Held
<1> QED BY <1>2, <1>4, <1>10, TakesUp DEF Given

\* Of an open attempt's target every order that waits holds its unit.
LEMMA AwaitingHold ==
  ASSUME Given, TargetsApart, ApartInv, NEW k \in Keys, intent[k] \in LiveStatuses
  PROVE  /\ AwaitingIn(k[1]) \in SUBSET Held
         /\ \A o \in Orders \ AwaitingIn(k[1]) : o \notin covers[k]
         /\ \A o \in AwaitingIn(k[1]) : \A j \in Keys \ {k} : o \in covers[j] => intent[j] \notin LiveStatuses
<1>1. k[1] \subseteq Orders
  BY KeyShape
<1>2. ASSUME NEW o \in AwaitingIn(k[1]) PROVE o \in Held
  <2>1. o \in Orders /\ o \in k[1] /\ order[o] \in AwaitingPayment
    BY <1>1 DEF AwaitingIn
  <2>2. order[o] = "PAYMENT_FAILED" => k \in LiveFor(o)
    BY <2>1 DEF ApartInv, TargetsApart, OpenInv, LiveFor
  <2> QED BY <2>1, <2>2 DEF Held, Holds, AwaitingPayment
<1>3. ASSUME NEW o \in Orders, o \in covers[k] PROVE o \in AwaitingIn(k[1])
  BY <1>3 DEF ApartInv, TargetsApart, OpenInv, AwaitingIn, Given, CoversWithin
<1>4. ASSUME NEW o \in AwaitingIn(k[1]), NEW j \in Keys \ {k}, o \in covers[j], intent[j] \in LiveStatuses
      PROVE  FALSE
  <2>1. o \in Orders /\ o \in k[1] /\ o \in j[1]
    BY <1>1, <1>4 DEF AwaitingIn, Given, CoversWithin
  <2> QED BY <1>4, <2>1, OneOpenOf DEF TargetsApart, Given
<1> QED BY <1>2, <1>3, <1>4

LEMMA StockCaptures ==
  ASSUME Given, TargetsApart, ApartInv, StockConserved, NEW k \in Keys,
         intent[k] \in LiveStatuses, Captured(k), UNCHANGED <<covers, sold>>
  PROVE  StockConserved'
<1> DEFINE A == AwaitingIn(k[1])
<1>1. intent'[k] = "CAPTURED" /\ \A j \in Keys \ {k} : intent'[j] = intent[j]
  BY DEF Captured, Given, TypeInv, TypeOK
<1>2. \A o \in Orders : order'[o] = IF o \in A THEN "CONFIRMED" ELSE order[o]
  BY DEF Captured
<1>3. /\ A \in SUBSET Held
      /\ \A o \in Orders \ A : o \notin covers[k]
  BY AwaitingHold
<1> HIDE DEF A
<1>4. ASSUME NEW o \in Orders PROVE Holds(o)' <=> Holds(o)
  <2>1. CASE o \in A
    BY <1>2, <1>3, <2>1 DEF Holds, Held
  <2>2. CASE o \notin A
    <3>1. LiveFor(o)' = LiveFor(o)
      BY <1>1, <1>3, <2>2 DEF LiveFor
    <3> QED BY <1>2, <2>2, <3>1 DEF Holds
  <2> QED BY <2>1, <2>2
<1>5. Held' = Held
  BY <1>4 DEF Held
<1> QED BY <1>5, HoldsOn DEF Captured, Given

\* The end of an attempt gives back what its target's orders hold, each unit once.
LEMMA StockEnds ==
  ASSUME Given, TargetsApart, ApartInv, StockConserved, NEW k \in Keys,
         intent[k] \in LiveStatuses, NEW to \in EndedStatuses, Ended(k, to),
         UNCHANGED <<covers, sold>>
  PROVE  StockConserved'
<1> DEFINE A == AwaitingIn(k[1])
<1>1. intent'[k] = to /\ \A j \in Keys \ {k} : intent'[j] = intent[j]
  BY DEF Ended, Given, TypeInv, TypeOK
<1>2. /\ \A o \in Orders : order'[o] = IF o \in A THEN "PAYMENT_FAILED" ELSE order[o]
      /\ stock' = stock + Cardinality(A)
  BY DEF Ended
<1>3. /\ A \in SUBSET Held
      /\ \A o \in Orders \ A : o \notin covers[k]
      /\ \A o \in A : \A j \in Keys \ {k} : o \in covers[j] => intent[j] \notin LiveStatuses
  BY AwaitingHold
<1> HIDE DEF A
<1>4. ASSUME NEW o \in Orders PROVE Holds(o)' <=> Holds(o) /\ o \notin A
  <2>1. CASE o \in A
    <3>1. LiveFor(o)' = {}
      BY <1>1, <1>3, <2>1 DEF LiveFor, EndedStatuses, LiveStatuses
    <3> QED BY <1>2, <2>1, <3>1 DEF Holds
  <2>2. CASE o \notin A
    <3>1. LiveFor(o)' = LiveFor(o)
      BY <1>1, <1>3, <2>2 DEF LiveFor
    <3> QED BY <1>2, <2>2, <3>1 DEF Holds
  <2> QED BY <2>1, <2>2
<1>5. Held' = Held \ A
  BY <1>4 DEF Held
<1> QED BY <1>2, <1>3, <1>5, GivesBack DEF Given

LEMMA StockApplies ==
  ASSUME Given, TargetsApart, ApartInv, StockConserved, NEW w \in Workers, Apply(w)
  PROVE  StockConserved'
<1> DEFINE k == task[w].key
           state == task[w].state
<1>1. k \in Keys /\ state \in GatewayStates /\ intent[k] # "NONE"
  BY ApplyStep DEF Given
<1>2. intent[k] \in IntentStatuses
  BY <1>1 DEF Given, TypeInv, TypeOK
<1>3. Applied(k, state) /\ UNCHANGED <<covers, sold>>
  BY DEF Apply
<1> HIDE DEF k, state
<1>4. ASSUME Captured(k), CanMove(intent[k], "CAPTURED") PROVE StockConserved'
  <2>1. intent[k] \in LiveStatuses
    BY <1>2, <1>4, OnlyLiveMoves
  <2> QED BY <1>1, <1>3, <1>4, <2>1, StockCaptures
<1>5. ASSUME NEW to \in EndedStatuses, CanMove(intent[k], to), Ended(k, to) PROVE StockConserved'
  <2>1. intent[k] \in LiveStatuses
    BY <1>2, <1>5, OnlyLiveMoves
  <2> QED BY <1>1, <1>3, <1>5, <2>1, StockEnds
<1>6. CASE CanMove(intent[k], "AUTHORIZED") /\ UNCHANGED <<order, stock>>
           /\ intent' = [intent EXCEPT ![k] = "AUTHORIZED"]
  <2>1. intent[k] \in LiveStatuses
    BY <1>2, <1>6, OnlyLiveMoves
  <2>2. \A j \in Keys : intent'[j] \in LiveStatuses <=> intent[j] \in LiveStatuses
    BY <1>6, <2>1 DEF Given, TypeInv, TypeOK, LiveStatuses
  <2>3. \A o \in Orders : LiveFor(o)' = LiveFor(o)
    BY <1>3, <2>2 DEF LiveFor
  <2>4. Held' = Held
    BY <1>6, <2>3 DEF Held, Holds
  <2> QED BY <1>3, <1>6, <2>4, HoldsOn DEF Given
<1>7. CASE UNCHANGED <<order, intent, stock>>
  BY <1>3, <1>7 DEF StockConserved, Holds, LiveFor
<1> QED BY <1>3, <1>4, <1>5, <1>6, <1>7 DEF Applied, Flag

\* An order that fails on its own or is cancelled gives back what it holds.
LEMMA StockShop ==
  ASSUME Given, TargetsApart, ApartInv, StockConserved, NEW p \in Orders,
         FailOrphan(p) \/ CancelOrder(p)
  PROVE  StockConserved'
<1>1. UNCHANGED <<intent, covers, sold>> /\ \A o \in Orders : LiveFor(o)' = LiveFor(o)
  BY DEF FailOrphan, CancelOrder, LiveFor
<1>2. /\ \A o \in Orders \ {p} : order'[o] = order[o]
      /\ FailOrphan(p) => order[p] = "PENDING" /\ order'[p] = "PAYMENT_FAILED"
      /\ CancelOrder(p) => order'[p] = "CANCELLED" /\ order[p] \in AwaitingPayment \union {"CONFIRMED"}
  BY DEF FailOrphan, CancelOrder, Given, TypeInv, TypeOK
<1>3. order[p] \in AwaitingPayment => LiveFor(p) = {}
  <2> SUFFICES ASSUME NEW k \in LiveFor(p), order[p] \in AwaitingPayment PROVE FALSE
    OBVIOUS
  <2>1. k[1] \in TargetsOf(p) /\ HasLive(k[1]) /\ AttemptsFor(k[1]) # {}
    BY LiveIsOfTarget DEF Given, HasLive
  <2> QED BY <2>1 DEF FailOrphan, CancelOrder
<1>4. ~Holds(p)'
  <2>1. CASE FailOrphan(p)
    BY <1>1, <1>2, <1>3, <2>1 DEF Holds, AwaitingPayment
  <2>2. CASE CancelOrder(p)
    BY <1>2, <2>2 DEF Holds
  <2> QED BY <2>1, <2>2
<1>5. \A o \in Orders : Holds(o)' <=> Holds(o) /\ o # p
  BY <1>1, <1>2, <1>4 DEF Holds
<1>6. CASE Holds(p)
  <2>1. Held' = Held \ {p} /\ {p} \in SUBSET Held
    BY <1>5, <1>6 DEF Held
  <2>2. stock' = stock + Cardinality({p})
    <3>1. Cardinality({p}) = 1
      BY FS_Singleton
    <3>2. order[p] # "PAYMENT_FAILED"
      BY <1>3, <1>6 DEF Holds, AwaitingPayment
    <3> QED BY <3>1, <3>2 DEF FailOrphan, CancelOrder
  <2> QED BY <1>1, <2>1, <2>2, GivesBack DEF Given
<1>7. CASE ~Holds(p)
  <2>1. Held' = Held
    BY <1>5, <1>7 DEF Held
  <2>2. order[p] = "PAYMENT_FAILED"
    BY <1>2, <1>7 DEF Holds, AwaitingPayment
  <2>3. stock' = stock
    BY <2>2 DEF FailOrphan, CancelOrder
  <2> QED BY <1>1, <2>1, <2>3, HoldsOn DEF Given
<1> QED BY <1>6, <1>7

LEMMA StockStep ==
  ASSUME Given, AttemptsInTurn', ApartInv, StockInv, [Next]_vars
  PROVE  StockInv'
<1> SUFFICES ASSUME TargetsApart' PROVE StockConserved'
  BY DEF StockInv
<1>1. TargetsApart /\ StockConserved
  BY ApartBefore DEF Given, StockInv
<1>2. ASSUME NEW p \in Orders, order[p] = "NONE", order' = [order EXCEPT ![p] = "PENDING"],
             stock' = stock - 1, UNCHANGED <<intent, covers, sold>>
      PROVE  StockConserved'
  BY <1>1, <1>2, StockPlaces DEF Given
<1>3. ASSUME NEW s \in Sessions, PayOpens(s) PROVE StockConserved'
  BY <1>1, <1>3, StockPays
<1>4. ASSUME NEW w \in Workers, Apply(w) PROVE StockConserved'
  BY <1>1, <1>4, StockApplies
<1>5. ASSUME NEW p \in Orders, FailOrphan(p) \/ CancelOrder(p) PROVE StockConserved'
  BY <1>1, <1>5, StockShop
<1>6. CASE OtherSale
  <2>1. Held' = Held
    BY <1>6 DEF OtherSale, Held, Holds, LiveFor
  <2>2. stock' + sold' = stock + sold
    BY <1>6 DEF OtherSale, Given, TypeInv, TypeOK
  <2> QED BY <1>1, <2>1, <2>2, HoldsOn DEF Given
<1>7. CASE UNCHANGED <<order, intent, covers, stock, sold>>
  BY <1>1, <1>7 DEF StockConserved, Holds, LiveFor
<1> QED BY <1>2, <1>3, <1>4, <1>5, <1>6, <1>7, ShopSteps DEF Given

LEMMA ApartInit ==
  ASSUME Init
  PROVE  ApartInv /\ StockInv /\ CoversWithin /\ Numbered
<1>1. ApartInv /\ CoversWithin
  BY DEF Init, ApartInv, OpenInv, CoversWithin, LiveStatuses
<1>2. Numbered
  BY IdleType DEF Init, Numbered
<1>3. Held = {}
  BY DEF Init, Held, Holds
<1>4. Cardinality(Held) = 0
  BY <1>3, FS_EmptySet
<1>5. StockInv
  BY <1>4, InitialStockAssumption DEF Init, StockInv, StockConserved, Held
<1> QED BY <1>1, <1>2, <1>5

LEMMA ApartHolds == Spec => [](Given /\ ApartInv /\ StockInv)
<1>1. Init => PaidInv /\ ApartInv /\ StockInv /\ CoversWithin /\ Numbered
  BY ApartInit DEF Init, PaidInv, CapturesHold, ConfirmedIsPaid, PaidStatuses
<1>2. PaidInv => CapturesHold
  BY DEF PaidInv
<1>3. TypeInv /\ Numbered /\ [Next]_vars => Numbered'
  BY NumberedStep
<1>4. TypeInv /\ CapturesHold /\ CoversWithin /\ Numbered /\ AttemptsInTurn => Given
  BY DEF Given
<1>5. Given /\ AttemptsInTurn' /\ ApartInv /\ [Next]_vars => ApartInv'
  BY ApartStep
<1>6. Given /\ AttemptsInTurn' /\ ApartInv /\ StockInv /\ [Next]_vars => StockInv'
  BY StockStep
<1> QED
  BY <1>1, <1>2, <1>3, <1>4, <1>5, <1>6, PaidStep, CoversStep, TypeInvariant,
     AttemptsAreInTurn, PTL DEF Spec

-----------------------------------------------------------------------------

\* No unit of stock is lost or given back twice, whatever attempts end, are
\* retried or are cancelled in between (releaseStock, holdStock, restockOnline),
\* at any number of shops, as long as no order was offered for payment both
\* alone and with its group.
THEOREM StockIsConservedApart == Spec => [](TargetsApart => StockConserved)
<1>1. StockInv => (TargetsApart => StockConserved)
  BY DEF StockInv
<1> QED BY <1>1, ApartHolds, PTL

\* Of an order whose attempts are of one target the records never hold two open
\* or paid ("never two payments", order-payments.ts).
LEMMA OnePaymentOf ==
  ASSUME Given, NEW o \in Orders, OneTarget(o)
  PROVE  Cardinality(LiveFor(o) \union PaidFor(o)) <= 1
<1> DEFINE K == LiveFor(o) \union PaidFor(o)
<1>1. \A k \in K : k \in Keys /\ o \in k[1] /\ intent[k] \in LiveStatuses \union PaidStatuses
  BY DEF LiveFor, PaidFor, Given, CoversWithin
<1>2. \A j, k \in K : j = k
  BY <1>1, OneOpenOf DEF Given
<1>3. CASE K = {}
  BY <1>3, FS_EmptySet
<1>4. CASE K # {}
  <2>1. PICK k : K = {k}
    BY <1>2, <1>4
  <2> QED BY <2>1, FS_Singleton
<1> QED BY <1>3, <1>4

\* As long as no order was offered both alone and with its group, the records hold
\* at most one open or paid attempt of it, at any number of shops (payForOrders).
THEOREM OnePaymentApart == Spec => [](TargetsApart => OnePaymentOnRecord)
<1>1. Given /\ TargetsApart => OnePaymentOnRecord
  BY OnePaymentOf DEF TargetsApart, OnePaymentOnRecord
<1> QED BY <1>1, ApartHolds, PTL

\* An order of which the records hold two open or paid attempts has been offered
\* both alone and with a group of several orders: there is no other way.
PaidTwiceIsAloneAndGrouped ==
  \A o \in Orders : Cardinality(LiveFor(o) \union PaidFor(o)) > 1 =>
    Orders # {o} /\ AttemptsFor({o}) # {} /\ AttemptsFor(Orders) # {}

THEOREM TwoPaymentsOnlyThroughTwoTargets == Spec => []PaidTwiceIsAloneAndGrouped
<1>1. ASSUME Given PROVE PaidTwiceIsAloneAndGrouped
  <2> SUFFICES ASSUME NEW o \in Orders, ~OneTarget(o)
               PROVE  Orders # {o} /\ AttemptsFor({o}) # {} /\ AttemptsFor(Orders) # {}
    <3>1. \A o \in Orders : OneTarget(o) => ~(Cardinality(LiveFor(o) \union PaidFor(o)) > 1)
      <4> SUFFICES ASSUME NEW o \in Orders, OneTarget(o)
                   PROVE  ~(Cardinality(LiveFor(o) \union PaidFor(o)) > 1)
        OBVIOUS
      <4>1. Cardinality(LiveFor(o) \union PaidFor(o)) <= 1
        BY <1>1, OnePaymentOf
      <4>2. IsFiniteSet(LiveFor(o) \union PaidFor(o))
        <5>1. IsFiniteSet(Keys)
          BY FiniteKeys
        <5> QED BY <5>1, FS_Subset DEF LiveFor, PaidFor
      <4>3. Cardinality(LiveFor(o) \union PaidFor(o)) \in Nat
        BY <4>2, FS_CardinalityType
      <4> QED BY <4>1, <4>3
    <3> QED BY <3>1 DEF PaidTwiceIsAloneAndGrouped
  <2>1. PICK j \in Keys, k \in Keys : /\ intent[j] # "NONE" /\ intent[k] # "NONE"
                                      /\ o \in j[1] /\ o \in k[1] /\ j[1] # k[1]
    BY DEF OneTarget
  <2>2. \A i \in {j, k} : i[1] \in {{o}, Orders} /\ i[2] \in AttemptsFor(i[1])
    <3> SUFFICES ASSUME NEW i \in {j, k} PROVE i[1] \in {{o}, Orders} /\ i[2] \in AttemptsFor(i[1])
      OBVIOUS
    <3>1. i[1] \in Targets /\ i[2] \in 1..MaxAttempt /\ i = <<i[1], i[2]>> /\ o \in i[1] /\ intent[i] # "NONE"
      BY <2>1, KeyShape
    <3> QED BY <3>1 DEF Targets, AttemptsFor
  <2> QED BY <2>1, <2>2
<1> QED BY <1>1, ApartHolds, PTL

\* The step that books an attempt confirms what it covers: the attempt was open,
\* so what it covers waits, and its capture confirms all of its target that waits.
LEMMA BookedStep ==
  ASSUME Given, ApartInv, TargetsApart, [Next]_vars
  PROVE  BookedAction
<1> SUFFICES ASSUME NEW k \in Keys, intent[k] \notin PaidStatuses, intent'[k] \in PaidStatuses,
                    NEW o \in covers[k]
             PROVE  order[o] \in AwaitingPayment /\ order'[o] = "CONFIRMED"
  BY DEF BookedAction
<1>1. intent[k] \in LiveStatuses /\ intent'[k] = "CAPTURED"
  BY AttemptStep DEF Given, PaidStatuses, LiveStatuses, EndedStatuses
<1>2. o \in k[1] /\ o \in Orders /\ k[1] \subseteq Orders
  BY KeyShape DEF Given, CoversWithin
<1>3. order[o] \in AwaitingPayment
  BY <1>1, <1>2 DEF ApartInv, TargetsApart, OpenInv
<1>4. PICK w \in Workers : Apply(w)
  <2>1. ASSUME NEW s \in Sessions, PayOpens(s) PROVE FALSE
    <3>1. intent'[k] \in {intent[k], "PENDING"}
      BY <2>1 DEF PayOpens, OpenAttempt, Given, TypeInv, TypeOK
    <3> QED BY <1>1, <3>1 DEF LiveStatuses
  <2>2. intent' # intent
    BY <1>1 DEF LiveStatuses
  <2> QED BY <2>1, <2>2, ShopSteps DEF Given, FailOrphan, CancelOrder, OtherSale
<1> DEFINE j == task[w].key
           state == task[w].state
<1>5. j \in Keys /\ Applied(j, state)
  BY <1>4, ApplyStep DEF Given, Apply
<1> HIDE DEF j, state
<1>6. ASSUME NEW to \in EndedStatuses, Ended(j, to) PROVE FALSE
  BY <1>1, <1>5, <1>6 DEF Ended, Given, TypeInv, TypeOK, LiveStatuses, EndedStatuses
<1>7. ASSUME intent' = [intent EXCEPT ![j] = "AUTHORIZED"] PROVE FALSE
  BY <1>1, <1>5, <1>7 DEF Given, TypeInv, TypeOK, LiveStatuses
<1>8. intent' # intent
  BY <1>1 DEF LiveStatuses
<1>9. Captured(j)
  BY <1>5, <1>6, <1>7, <1>8 DEF Applied, Flag
<1>10. j = k
  BY <1>1, <1>5, <1>9 DEF Captured, Given, TypeInv, TypeOK, LiveStatuses
<1> QED BY <1>2, <1>3, <1>9, <1>10 DEF Captured, AwaitingIn

\* At any number of shops, from a state in which no order was offered both alone
\* and with its group, money is booked only by confirming every order it was
\* charged for, each waiting for it until then (onlineCancelPolicy, the orphan
\* check and a retry against onOrderPaymentCaptured).
THEOREM BookedMoneyBuysApart == Spec => [][TargetsApart => BookedAction]_vars
<1>1. Given /\ ApartInv /\ [Next]_vars => [TargetsApart => BookedAction]_vars
  BY BookedStep
<1> QED BY <1>1, ApartHolds, PTL DEF Spec

-----------------------------------------------------------------------------
(* A cart of one shop: the order is its group, so its attempts are of one  *)
(* target and nothing has to be supposed.                                  *)

LEMMA OneShopIsApart ==
  ASSUME Shops = 1
  PROVE  TargetsApart
<1>1. Orders = {1}
  BY DEF Orders
<1>2. \A k \in Keys : k[1] = {1}
  BY <1>1 DEF Keys, Targets
<1> QED BY <1>2 DEF TargetsApart, OneTarget

\* In a cart of one shop no unit of stock is lost or given back twice, whatever
\* attempts end, are retried or are cancelled in between (releaseStock,
\* holdStock, restockOnline).
THEOREM StockIsConserved ==
  ASSUME Shops = 1
  PROVE  Spec => []StockConserved
<1>1. (TargetsApart => StockConserved) => StockConserved
  BY OneShopIsApart
<1> QED BY <1>1, StockIsConservedApart, PTL

\* In a cart of one shop the records never hold two open or paid attempts of the
\* order ("never two payments", order-payments.ts).
THEOREM OnePaymentOnly ==
  ASSUME Shops = 1
  PROVE  Spec => []OnePaymentOnRecord
<1>1. (TargetsApart => OnePaymentOnRecord) => OnePaymentOnRecord
  BY OneShopIsApart
<1> QED BY <1>1, OnePaymentApart, PTL

\* In a cart of one shop money is booked only by confirming every order it was
\* charged for, each waiting for it until then: never for an order cancelled or
\* given up meanwhile (onlineCancelPolicy, failOrphanOnlineOrder).
THEOREM BookedMoneyBuysOneShop ==
  ASSUME Shops = 1
  PROVE  Spec => BookedMoneyBuys
<1>1. [TargetsApart => BookedAction]_vars => [BookedAction]_vars
  BY OneShopIsApart
<1> QED BY <1>1, BookedMoneyBuysApart, PTL DEF BookedMoneyBuys

-----------------------------------------------------------------------------
(* What an order is confirmed with.  An attempt charges for the orders it   *)
(* covers, but its capture confirms every order of its target that waits    *)
(* (onOrderPaymentCaptured looks at the group, not at the orderIds of the   *)
(* attempt).                                                                *)

\* An attempt that has been opened was opened with all its target's orders placed.
Whole == \A k \in Keys : intent[k] # "NONE" => k[1] \subseteq Placed

\* An open attempt charges for every order of its target that waits.
Charges == \A k \in Keys : intent[k] \in LiveStatuses => AwaitingIn(k[1]) \subseteq covers[k]

\* An order is confirmed only by an attempt that charged for it.
ConfirmedIsCharged ==
  \A o \in Orders : order[o] = "CONFIRMED" =>
    \E k \in Keys : o \in covers[k] /\ intent[k] \in PaidStatuses /\ gateway[k] = "CAPTURED"

ChargeInv == Charges /\ ConfirmedIsCharged

\* What an attempt was opened for stays, and a new one covers what waits.
LEMMA CoversStay ==
  ASSUME TypeInv, [Next]_vars, NEW k \in Keys
  PROVE  \/ covers'[k] = covers[k] /\ (intent[k] = "NONE" => intent'[k] = "NONE")
         \/ intent[k] = "NONE" /\ covers'[k] = AwaitingIn(k[1]) /\ order' = order
<1>1. ASSUME NEW s \in Sessions, PayOpens(s)
      PROVE  \/ covers'[k] = covers[k] /\ intent'[k] = intent[k]
             \/ intent[k] = "NONE" /\ covers'[k] = AwaitingIn(k[1]) /\ order' = order
  <2> DEFINE t == session[s].target
             j == <<t, session[s].attempt>>
  <2>1. /\ covers' = [covers EXCEPT ![j] = AwaitingIn(t)]
        /\ intent' = [intent EXCEPT ![j] = "PENDING"]
        /\ intent[j] = "NONE" /\ order' = order
    BY <1>1 DEF PayOpens, OpenAttempt
  <2>2. j[1] = t
    OBVIOUS
  <2> HIDE DEF j, t
  <2> QED BY <2>1, <2>2 DEF TypeInv, TypeOK
<1>2. ASSUME NEW w \in Workers, Apply(w)
      PROVE  covers'[k] = covers[k] /\ (intent[k] = "NONE" => intent'[k] = "NONE")
  <2>1. intent[k] = "NONE" => intent'[k] = "NONE"
    BY <1>2, ApplyStep DEF MovesAttempt
  <2> QED BY <1>2, <2>1 DEF Apply
<1>3. CASE UNCHANGED <<intent, covers>>
  BY <1>3
<1>4. UNCHANGED <<intent, covers>> \/ (\E s \in Sessions : PayOpens(s)) \/ \E w \in Workers : Apply(w)
  BY ShopSteps DEF FailOrphan, CancelOrder, OtherSale
<1> QED BY <1>1, <1>2, <1>3, <1>4

\* An order that waits has waited or has just been placed.
LEMMA AwaitingStep ==
  ASSUME TypeInv, [Next]_vars, NEW o \in Orders, order'[o] \in AwaitingPayment
  PROVE  order[o] \in AwaitingPayment \union {"NONE"}
<1>1. ASSUME NEW w \in Workers, Apply(w), order'[o] # order[o] PROVE order[o] \in AwaitingPayment
  <2>1. Applied(task[w].key, task[w].state)
    BY <1>1 DEF Apply
  <2>2. Captured(task[w].key) => order[o] \in AwaitingPayment
    BY <1>1 DEF Captured, AwaitingIn
  <2>3. ASSUME NEW to, Ended(task[w].key, to) PROVE order[o] \in AwaitingPayment
    BY <1>1, <2>3 DEF Ended, AwaitingIn
  <2> QED BY <1>1, <2>1, <2>2, <2>3 DEF Applied, Flag
<1>2. ASSUME NEW p \in Orders, FailOrphan(p) \/ CancelOrder(p), order'[o] # order[o]
      PROVE  order[o] \in AwaitingPayment \union {"NONE"}
  BY <1>2 DEF FailOrphan, CancelOrder, AwaitingPayment, TypeInv, TypeOK
<1>3. ASSUME NEW p \in Orders, order[p] = "NONE", order' = [order EXCEPT ![p] = "PENDING"],
             order'[o] # order[o]
      PROVE  order[o] = "NONE"
  BY <1>3 DEF TypeInv, TypeOK
<1>4. CASE order'[o] = order[o]
  BY <1>4
<1>5. \/ order' = order
      \/ \E w \in Workers : Apply(w)
      \/ \E p \in Orders : FailOrphan(p) \/ CancelOrder(p)
      \/ \E p \in Orders : order[p] = "NONE" /\ order' = [order EXCEPT ![p] = "PENDING"]
  BY ShopSteps DEF PayOpens, OtherSale
<1> QED BY <1>1, <1>2, <1>3, <1>4, <1>5

LEMMA ChargesStep ==
  ASSUME TypeInv, CapturesHold, Whole, Charges, [Next]_vars
  PROVE  Charges'
<1> SUFFICES ASSUME NEW k \in Keys, intent'[k] \in LiveStatuses,
                    NEW o \in k[1], order'[o] \in AwaitingPayment
             PROVE  o \in covers'[k]
  BY DEF Charges, AwaitingIn
<1>1. o \in Orders
  BY KeyShape
<1>2. CASE intent[k] = "NONE"
  BY <1>2, CoversStay DEF AwaitingIn, LiveStatuses
<1>3. CASE intent[k] # "NONE"
  <2>1. intent[k] \in LiveStatuses
    BY <1>3, AttemptStep DEF LiveStatuses, EndedStatuses
  <2>2. order[o] # "NONE"
    BY <1>3 DEF Whole, Placed
  <2>3. order[o] \in AwaitingPayment
    BY <1>1, <2>2, AwaitingStep
  <2>4. o \in covers[k]
    BY <2>1, <2>3 DEF Charges, AwaitingIn
  <2> QED BY <1>3, <2>4, CoversStay
<1> QED BY <1>2, <1>3

\* Only the capture of an open attempt confirms an order, and one that waits.
LEMMA ConfirmStep ==
  ASSUME TypeInv, CapturesHold, [Next]_vars, NEW o \in Orders,
         order'[o] = "CONFIRMED", order[o] # "CONFIRMED"
  PROVE  \E k \in Keys : /\ o \in AwaitingIn(k[1]) /\ intent[k] \in LiveStatuses
                         /\ intent'[k] = "CAPTURED" /\ gateway[k] = "CAPTURED"
<1>1. PICK w \in Workers : Apply(w)
  <2>1. ASSUME NEW p \in Orders, FailOrphan(p) \/ CancelOrder(p)
        PROVE  FALSE
    BY <2>1 DEF FailOrphan, CancelOrder, TypeInv, TypeOK
  <2>2. ASSUME NEW p \in Orders, order' = [order EXCEPT ![p] = "PENDING"]
        PROVE  FALSE
    BY <2>2 DEF TypeInv, TypeOK
  <2> QED BY <2>1, <2>2, ShopSteps DEF PayOpens, OtherSale
<1> DEFINE k == task[w].key
           state == task[w].state
<1>2. k \in Keys /\ intent[k] # "NONE" /\ Applied(k, state)
  BY <1>1, ApplyStep DEF Apply
<1>3. state = "CAPTURED" => gateway[k] = "CAPTURED"
  BY <1>1 DEF Apply, CapturesHold
<1>4. intent[k] \in IntentStatuses
  BY <1>2 DEF TypeInv, TypeOK
<1> HIDE DEF k, state
<1>5. ASSUME NEW to, Ended(k, to) PROVE FALSE
  BY <1>5 DEF Ended
<1>6. Captured(k) /\ CanMove(intent[k], "CAPTURED") /\ state = "CAPTURED"
  BY <1>2, <1>5 DEF Applied, Flag
<1>7. intent[k] \in LiveStatuses
  BY <1>4, <1>6, OnlyLiveMoves
<1>8. o \in AwaitingIn(k[1]) /\ intent'[k] = "CAPTURED"
  BY <1>2, <1>6 DEF Captured, TypeInv, TypeOK
<1> QED BY <1>2, <1>3, <1>6, <1>7, <1>8

LEMMA ConfirmedStep ==
  ASSUME TypeInv, CapturesHold, ChargeInv, [Next]_vars
  PROVE  ConfirmedIsCharged'
<1> SUFFICES ASSUME NEW o \in Orders, order'[o] = "CONFIRMED"
             PROVE  \E k \in Keys : o \in covers'[k] /\ intent'[k] \in PaidStatuses
                                    /\ gateway'[k] = "CAPTURED"
  BY DEF ConfirmedIsCharged
<1>1. CASE order[o] = "CONFIRMED"
  <2>1. PICK k \in Keys : o \in covers[k] /\ intent[k] \in PaidStatuses /\ gateway[k] = "CAPTURED"
    BY <1>1 DEF ChargeInv, ConfirmedIsCharged
  <2>2. intent'[k] = intent[k]
    BY <2>1, AttemptStep DEF PaidStatuses, LiveStatuses
  <2>3. covers'[k] = covers[k]
    BY <2>1, CoversStay DEF PaidStatuses
  <2> QED BY <2>1, <2>2, <2>3, CapturesStay
<1>2. CASE order[o] # "CONFIRMED"
  <2>1. PICK k \in Keys : /\ o \in AwaitingIn(k[1]) /\ intent[k] \in LiveStatuses
                          /\ intent'[k] = "CAPTURED" /\ gateway[k] = "CAPTURED"
    BY <1>2, ConfirmStep
  <2>2. o \in covers[k]
    BY <2>1 DEF ChargeInv, Charges
  <2>3. covers'[k] = covers[k]
    BY <2>1, CoversStay DEF LiveStatuses
  <2> QED BY <2>1, <2>2, <2>3, CapturesStay DEF PaidStatuses
<1> QED BY <1>1, <1>2

\* Every confirmed order was part of the amount that was paid, at any number of
\* shops, requests and attempts, when attempts are opened only for carts that
\* have been placed whole.  A replayed checkout can break that with three shops.
THEOREM ConfirmedWasCharged == Spec /\ []Whole => []ConfirmedIsCharged
<1>1. Init => PaidInv /\ ChargeInv
  BY DEF Init, PaidInv, CapturesHold, ConfirmedIsPaid, PaidStatuses, ChargeInv, Charges,
         ConfirmedIsCharged, LiveStatuses
<1>2. PaidInv => CapturesHold
  BY DEF PaidInv
<1>3. TypeInv /\ CapturesHold /\ Whole /\ ChargeInv /\ [Next]_vars => ChargeInv'
  BY ChargesStep, ConfirmedStep DEF ChargeInv
<1>4. ChargeInv => ConfirmedIsCharged
  BY DEF ChargeInv
<1> QED BY <1>1, <1>2, <1>3, <1>4, PaidStep, TypeInvariant, PTL DEF Spec

\* What a request has seen or pays for has been placed.
SeenPlaced == \A s \in Sessions : session[s].seen \union session[s].target \subseteq Placed

LEMMA PlacedStays ==
  ASSUME TypeInv, [Next]_vars
  PROVE  Placed \subseteq Placed'
<1> SUFFICES ASSUME NEW o \in Orders, order[o] # "NONE" PROVE order'[o] # "NONE"
  BY DEF Placed
<1>1. ASSUME NEW w \in Workers, Apply(w) PROVE order'[o] # "NONE"
  <2>1. Applied(task[w].key, task[w].state)
    BY <1>1 DEF Apply
  <2>2. Captured(task[w].key) => order'[o] # "NONE"
    BY DEF Captured
  <2>3. ASSUME NEW to, Ended(task[w].key, to) PROVE order'[o] # "NONE"
    BY <2>3 DEF Ended
  <2> QED BY <2>1, <2>2, <2>3 DEF Applied, Flag
<1>2. ASSUME NEW p \in Orders, FailOrphan(p) \/ CancelOrder(p) PROVE order'[o] # "NONE"
  BY <1>2 DEF FailOrphan, CancelOrder, TypeInv, TypeOK
<1>3. ASSUME NEW p \in Orders, order' = [order EXCEPT ![p] = "PENDING"] PROVE order'[o] # "NONE"
  BY <1>3 DEF TypeInv, TypeOK
<1> QED BY <1>1, <1>2, <1>3, ShopSteps DEF PayOpens, OtherSale

\* A checkout of at most two shops pays for the one order it has seen or for all.
LEMMA SmallTarget ==
  ASSUME Shops <= 2, NEW S \in SUBSET Orders, S # {}
  PROVE  TargetOfCheckout(S) = S
<1>1. Shops = 1 \/ Shops = 2
  BY ShopsAssumption
<1>2. CASE S = Orders
  BY <1>2 DEF TargetOfCheckout
<1>3. CASE S # Orders
  <2>1. Orders \in {{1}, {1, 2}}
    BY <1>1 DEF Orders
  <2>2. PICK o : S = {o}
    <3>1. CASE Orders = {1}
      BY <1>3, <3>1
    <3>2. CASE Orders = {1, 2}
      <4>1. 1 \notin S => S = {2}
        BY <3>2
      <4>2. 2 \notin S => S = {1}
        BY <3>2
      <4>3. 1 \notin S \/ 2 \notin S
        BY <1>3, <3>2
      <4> QED BY <4>1, <4>2, <4>3
    <3> QED BY <2>1, <3>1, <3>2
  <2>3. Cardinality(S) = 1
    BY <2>2, FS_Singleton
  <2> QED BY <2>3 DEF TargetOfCheckout
<1> QED BY <1>2, <1>3

\* A step of one request leaves the others alone.
LEMMA RequestMoves ==
  ASSUME TypeInv, NEW s \in Sessions, NEW r \in Sessions, NEW at, NEW seen, NEW t, NEW n,
         session' = [session EXCEPT ![r] = Request(at, seen, t, n)]
  PROVE  session'[s] = session[s] \/ (session'[s].seen = seen /\ session'[s].target = t)
<1> DEFINE q == Request(at, seen, t, n)
<1>1. q.seen = seen /\ q.target = t /\ session' = [session EXCEPT ![r] = q]
  BY DEF Request
<1> HIDE DEF q
<1> QED BY <1>1 DEF TypeInv, TypeOK

\* A request's next step has seen, and pays for, what is placed.
LEMMA SeenStep ==
  ASSUME Shops <= 2, TypeInv, Whole, SeenPlaced, [Next]_vars
  PROVE  SeenPlaced'
<1> SUFFICES ASSUME NEW s \in Sessions
             PROVE  session'[s].seen \union session'[s].target \subseteq Placed'
  BY DEF SeenPlaced
<1>0. /\ Placed \subseteq Placed' /\ {} \subseteq Placed'
      /\ session[s].seen \union session[s].target \subseteq Placed
  BY PlacedStays DEF SeenPlaced
<1>1. ASSUME NEW seen \in SUBSET Placed', NEW t \in SUBSET Placed',
             session'[s] = session[s] \/ (session'[s].seen = seen /\ session'[s].target = t)
      PROVE  session'[s].seen \union session'[s].target \subseteq Placed'
  BY <1>0, <1>1
<1>2. ASSUME NEW r \in Sessions, session' = [session EXCEPT ![r] = Idle]
      PROVE  session'[s].seen \union session'[s].target \subseteq Placed'
  BY <1>1, <1>2, RequestMoves DEF Idle
<1>3. ASSUME NEW r \in Sessions, StartCheckout(r)
      PROVE  session'[s].seen \union session'[s].target \subseteq Placed'
  <2>1. CASE Placed = {}
    BY <1>1, <1>3, <2>1, RequestMoves DEF StartCheckout
  <2>2. CASE Placed # {}
    <3>1. TargetOfCheckout(Placed) = Placed
      BY <2>2, SmallTarget DEF Placed
    <3>2. session' = [session EXCEPT ![r] = Request("look", {}, Placed, 0)]
      BY <1>3, <2>2, <3>1 DEF StartCheckout
    <3>3. session'[s] = session[s] \/ (session'[s].seen = {} /\ session'[s].target = Placed)
      BY <3>2, RequestMoves
    <3>4. {} \in SUBSET Placed' /\ Placed \in SUBSET Placed'
      BY <1>0
    <3> QED BY <1>1, <3>3, <3>4
  <2> QED BY <2>1, <2>2
<1>4. ASSUME NEW r \in Sessions, PlaceOrder(r)
      PROVE  session'[s].seen \union session'[s].target \subseteq Placed'
  <2> DEFINE o    == 1 + Cardinality(session[r].seen)
             seen == session[r].seen \union {o}
             next == IF o = Shops THEN Request("look", {}, TargetOfCheckout(seen), 0)
                                  ELSE Request("placing", seen, {}, 0)
  <2>1. o \in Orders /\ session[r].seen \subseteq Placed
    <3>1. PICK m \in 0..(Shops - 1) : session[r].seen = 1..m
      BY <1>4 DEF PlaceOrder, TypeInv, PlacesInOrder
    <3>2. Cardinality(session[r].seen) = m
      BY <3>1, FS_Interval, ShopsAssumption
    <3> QED BY <3>2, ShopsAssumption DEF Orders, SeenPlaced
  <2>2. \/ session' = [session EXCEPT ![r] = Idle]
        \/ session' = [session EXCEPT ![r] = next] /\ order'[o] # "NONE"
    <3>1. \/ session' = [session EXCEPT ![r] = Idle]
          \/ /\ session' = [session EXCEPT ![r] = next]
             /\ \/ order[o] # "NONE" /\ order' = order
                \/ order' = [order EXCEPT ![o] = "PENDING"]
      BY <1>4 DEF PlaceOrder
    <3> HIDE DEF o, next
    <3> QED BY <2>1, <3>1 DEF TypeInv, TypeOK
  <2> HIDE DEF o
  <2>3. CASE session' = [session EXCEPT ![r] = next] /\ order'[o] # "NONE"
    <3>1. seen \subseteq Placed' /\ seen \in SUBSET Orders /\ seen # {}
      BY <1>0, <2>1, <2>3 DEF Placed
    <3>2. TargetOfCheckout(seen) = seen
      BY <3>1, SmallTarget
    <3> HIDE DEF seen
    <3>3. CASE o = Shops
      <4>1. session' = [session EXCEPT ![r] = Request("look", {}, TargetOfCheckout(seen), 0)]
        BY <2>3, <3>3
      <4>2. session'[s] = session[s] \/ (session'[s].seen = {} /\ session'[s].target = seen)
        BY <3>2, <4>1, RequestMoves
      <4>3. {} \in SUBSET Placed' /\ seen \in SUBSET Placed'
        BY <3>1
      <4> QED BY <1>1, <4>2, <4>3
    <3>4. CASE o # Shops
      <4>1. session' = [session EXCEPT ![r] = Request("placing", seen, {}, 0)]
        BY <2>3, <3>4
      <4>2. session'[s] = session[s] \/ (session'[s].seen = seen /\ session'[s].target = {})
        BY <4>1, RequestMoves
      <4>3. seen \in SUBSET Placed' /\ {} \in SUBSET Placed'
        BY <3>1
      <4> QED BY <1>1, <4>2, <4>3
    <3> QED BY <3>3, <3>4
  <2> QED BY <1>2, <2>2, <2>3
<1>5. ASSUME NEW r \in Sessions, NEW o \in Orders, StartRetry(r, o)
      PROVE  session'[s].seen \union session'[s].target \subseteq Placed'
  <2> DEFINE t == IF AttemptsFor(Orders) # {} THEN Orders ELSE {o}
  <2>1. AttemptsFor(Orders) # {} => Orders \subseteq Placed
    <3> SUFFICES ASSUME NEW n \in 1..MaxAttempt, intent[<<Orders, n>>] # "NONE"
                 PROVE  Orders \subseteq Placed
      BY DEF AttemptsFor
    <3>1. <<Orders, n>> \in Keys /\ <<Orders, n>>[1] = Orders
      BY DEF Keys, Targets
    <3> QED BY <3>1 DEF Whole
  <2>2. t \subseteq Placed'
    BY <1>0, <1>5, <2>1 DEF StartRetry, Placed
  <2>3. session' = [session EXCEPT ![r] = Request("look", {}, t, 0)]
    BY <1>5 DEF StartRetry
  <2> HIDE DEF t
  <2>4. session'[s] = session[s] \/ (session'[s].seen = {} /\ session'[s].target = t)
    BY <2>3, RequestMoves
  <2>5. {} \in SUBSET Placed' /\ t \in SUBSET Placed'
    BY <2>2
  <2> QED BY <1>1, <2>4, <2>5
<1>6. ASSUME NEW r \in Sessions, Look(r)
      PROVE  session'[s].seen \union session'[s].target \subseteq Placed'
  <2> DEFINE t == session[r].target
             n == Cardinality(AttemptsFor(t)) + 1
  <2>1. \/ session' = [session EXCEPT ![r] = Idle]
        \/ session' = [session EXCEPT ![r] = Request("pay", {}, t, n)]
    <3>1. CASE HasPaid(t) \/ HasLive(t)
      BY <1>6, <3>1 DEF Look
    <3>2. CASE ~(HasPaid(t) \/ HasLive(t))
      BY <1>6, <3>2 DEF Look
    <3> QED BY <3>1, <3>2
  <2>2. t \subseteq Placed'
    BY <1>0 DEF SeenPlaced
  <2> HIDE DEF t, n
  <2>3. CASE session' = [session EXCEPT ![r] = Request("pay", {}, t, n)]
    <3>1. session'[s] = session[s] \/ (session'[s].seen = {} /\ session'[s].target = t)
      BY <2>3, RequestMoves
    <3>2. {} \in SUBSET Placed' /\ t \in SUBSET Placed'
      BY <2>2
    <3> QED BY <1>1, <3>1, <3>2
  <2> QED BY <1>2, <2>1, <2>3
<1>7. CASE Crash
  BY <1>0, <1>2, <1>7 DEF Crash
<1>8. CASE UNCHANGED session
  BY <1>0, <1>8
<1>9. \/ \E r \in Sessions : StartCheckout(r) \/ PlaceOrder(r) \/ Look(r)
      \/ \E r \in Sessions : PayStops(r) \/ PayOpens(r)
      \/ \E r \in Sessions, o \in Orders : StartRetry(r, o)
      \/ Crash
      \/ UNCHANGED session
  BY DEF Next, vars, GatewayMoves, ReconcileFetch, WebhookFetch, OtherWebhookFetch, Apply,
         MarkProcessed, FailOrphan, CancelOrder, OtherSale
<1>10. ASSUME NEW r \in Sessions, PayStops(r) \/ PayOpens(r)
       PROVE  session'[s].seen \union session'[s].target \subseteq Placed'
  BY <1>2, <1>10 DEF PayStops, PayOpens
<1> QED BY <1>3, <1>4, <1>5, <1>6, <1>7, <1>8, <1>9, <1>10

LEMMA WholeStep ==
  ASSUME TypeInv, CapturesHold, Whole, SeenPlaced, [Next]_vars
  PROVE  Whole'
<1> SUFFICES ASSUME NEW k \in Keys, intent'[k] # "NONE" PROVE k[1] \subseteq Placed'
  BY DEF Whole
<1>1. CASE intent[k] # "NONE"
  BY <1>1, PlacedStays DEF Whole
<1>2. CASE intent[k] = "NONE"
  <2>1. PICK s \in Sessions : k = <<session[s].target, session[s].attempt>>
    BY <1>2, AttemptStep DEF LiveStatuses
  <2> QED BY <2>1, PlacedStays DEF SeenPlaced
<1> QED BY <1>1, <1>2

LEMMA SmallCartsAreWhole ==
  ASSUME Shops <= 2
  PROVE  Spec => []Whole
<1>1. Init => PaidInv /\ Whole /\ SeenPlaced
  BY DEF Init, PaidInv, CapturesHold, ConfirmedIsPaid, PaidStatuses, Whole, SeenPlaced, Idle, Request
<1>2. PaidInv => CapturesHold
  BY DEF PaidInv
<1>3. TypeInv /\ CapturesHold /\ Whole /\ SeenPlaced /\ [Next]_vars => Whole' /\ SeenPlaced'
  BY SeenStep, WholeStep
<1> QED BY <1>1, <1>2, <1>3, PaidStep, TypeInvariant, PTL DEF Spec

\* In a cart of one or two shops every confirmed order was part of the amount
\* that was paid, whatever requests, replays, retries and old answers race
\* (startOnlineCheckout, payForOrders, onOrderPaymentCaptured).
THEOREM SmallCartsAreCharged ==
  ASSUME Shops <= 2
  PROVE  Spec => []ConfirmedIsCharged
BY SmallCartsAreWhole, ConfirmedWasCharged, PTL
=============================================================================
