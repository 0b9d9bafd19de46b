----------------------------- MODULE DailyOrders ----------------------------
(***************************************************************************)
(* The daily orders of one subscription: services/subscriptions.ts (the    *)
(* nightly run, a retry after a top-up, skip, pause, resume, cancel),      *)
(* subscription-schedule.ts (the rows the customer sees), subscription-    *)
(* renewal.ts (a renewal warning), cancelOrder in orders.ts, and the       *)
(* triggers of drizzle/0052_subscription_states.sql.                       *)
(*                                                                         *)
(* A run reads the subscription, then the day, then commits; the customer  *)
(* changes the schedule in between, other runs and retries overlap, and    *)
(* each may stop at any point.  Daily frequency, no end date; a delivery   *)
(* costs one unit of the wallet and one of the shelf.                      *)
(***************************************************************************)
EXTENDS Integers, FiniteSets

CONSTANTS
  LastDay,  \* bound: days
  Workers,  \* requests and runs under way
  Money,    \* the wallet at first
  Supply,   \* the shelf at first
  MaxBalance, \* bound: how far the wallet is topped up
  MaxDeeds  \* bound: what customer, shop, operations and crashes do

ASSUME DailyAssumption == /\ LastDay \in Nat \ {0} /\ Money \in Nat
                          /\ Supply \in Nat /\ MaxDeeds \in Nat
                          /\ MaxBalance \in Nat

VARIABLES
  today,
  status,   \* subscriptions.status
  skips,    \* days with a SKIP override
  paused,   \* days of the pause window
  claim,    \* each day's subscription_orders row, and how many it has had
  row,      \* each day's subscription_deliveries row
  balance,
  stock,
  extra,    \* history: units put on the shelf that no order had taken
  task,
  deeds

vars == <<today, status, skips, paused, claim, row, balance, stock, extra, task, deeds>>
money == <<claim, balance, stock, extra>>
schedule == <<status, skips, paused>>

Days         == 1..LastDay
Delivering   == {"ACTIVE", "PAYMENT_PENDING", "RENEWAL_PENDING"}
Claims       == {"NONE", "CONFIRMED", "WALLET_INSUFFICIENT", "CANCELLED", "REFUNDED"}
ScheduleOnly == {"SCHEDULED", "SKIPPED"}
Rows         == Claims \union ScheduleOnly \union {"FAILED"}
Steps        == {"idle", "delete", "check", "commit", "fail", "paid", "sync", "write",
                 "skip", "unskip"}

\* day: the day at work; job: the nightly run (it keeps the rows in step);
\* live: the subscription delivers that day, as read; no: the failed claim a
\* retry read; out: the day turned out UNAVAILABLE; put, drop: rows a sync
\* decided to write and to delete.
Tasks == [at : Steps, day : Days, job : BOOLEAN, live : BOOLEAN, no : Nat,
          out : BOOLEAN, put : [Days -> ScheduleOnly \union {"KEEP"}], drop : SUBSET Days]
Keep == [d \in Days |-> "KEEP"]
Idle == [at |-> "idle", day |-> 1, job |-> FALSE, live |-> FALSE, no |-> 0, out |-> FALSE,
         put |-> Keep, drop |-> {}]

TypeOK ==
  /\ today \in Days
  /\ status \in Delivering \union {"CANCELLED"}
  /\ skips \subseteq Days
  /\ paused \subseteq Days
  /\ claim \in [Days -> [status : Claims, no : Nat]]
  /\ row \in [Days -> Rows]
  /\ balance \in Nat
  /\ stock \in Nat
  /\ extra \in Nat
  /\ task \in [Workers -> Tasks]
  /\ deeds \in 0..MaxDeeds

Init ==
  /\ today = 1
  /\ status = "ACTIVE"
  /\ skips = {}
  /\ paused = {}
  /\ claim = [d \in Days |-> [status |-> "NONE", no |-> 0]]
  /\ row = [d \in Days |-> "SCHEDULED"]
  /\ balance = Money
  /\ stock = Supply
  /\ extra = 0
  /\ task = [w \in Workers |-> Idle]
  /\ deeds = 0

Deed == deeds < MaxDeeds /\ deeds' = deeds + 1
Becomes(w, t) == task' = [task EXCEPT ![w] = t]
MovesTo(w, at) == task' = [task EXCEPT ![w].at = at]

\* A definition whose name starts with Bug is a plausible mistake in the one
\* below it; no specification uses it.
BugDelivers == status # "DRAFT"
Delivers == status \in Delivering

-----------------------------------------------------------------------------
(* One delivery: generateDailyOrders, retryFailedDelivery, generateOneDelivery. *)

\* The nightly run reads the subscriptions that are due.
StartRun(w) ==
  /\ task[w] = Idle
  /\ Delivers
  /\ Becomes(w, [Idle EXCEPT !.at = "check", !.day = today, !.job = TRUE,
                             !.live = today \notin paused])
  /\ UNCHANGED <<today, schedule, money, row, deeds>>

\* "Retry payment", on the failed claim it reads.
Retry(w, d) ==
  /\ task[w] = Idle
  /\ claim[d].status = "WALLET_INSUFFICIENT"
  /\ Becomes(w, [Idle EXCEPT !.at = "delete", !.day = d, !.no = claim[d].no])
  /\ Deed
  /\ UNCHANGED <<today, schedule, money, row>>

\* The failed claim and its order are deleted by id, in a transaction of their
\* own; then the subscription is read again.  The day's row stays.
BugDeletes(w) == TRUE
Deletes(w) == claim[task[w].day].no = task[w].no

DeleteFailed(w) ==
  LET d == task[w].day IN
  /\ task[w].at = "delete"
  /\ claim' = IF Deletes(w) THEN [claim EXCEPT ![d].status = "NONE"] ELSE claim
  /\ Becomes(w, [task[w] EXCEPT !.at = "check",
                                !.live = Delivers /\ d \notin paused])
  /\ UNCHANGED <<today, schedule, row, balance, stock, extra, deeds>>

\* After an outcome the nightly run keeps the rows in step, a retry does not.
Ended(t) == IF t.job THEN [t EXCEPT !.at = "sync"] ELSE Idle

\* The reads before the transaction: the day's claim, its override, the
\* product (out of stock, switched off) and the address.
Due(w) == LET d == task[w].day IN
          claim[d].status = "NONE" /\ task[w].live /\ d \notin skips

Check(w) ==
  /\ task[w].at = "check"
  /\ \/ Due(w) /\ stock > 0 /\ MovesTo(w, "commit")
     \/ Due(w) /\ Becomes(w, Ended([task[w] EXCEPT !.out = TRUE]))
     \/ ~Due(w) /\ Becomes(w, Ended(task[w]))
  /\ UNCHANGED <<today, schedule, money, row, deeds>>

\* UNIQUE(subscription_id, delivery_date).
Free(d) == claim[d].status = "NONE"

\* A claim's status is copied into the day's row by the triggers.
ClaimedAs(d, s) ==
  /\ claim' = [claim EXCEPT ![d] = [status |-> s, no |-> @.no + 1]]
  /\ row' = [row EXCEPT ![d] = s]

\* applyWalletMutation: never overdrawn.
BugCovers == balance >= 0
Covers == balance > 0

Pay(w) ==
  LET d == task[w].day IN
  /\ task[w].at = "commit"
  /\ Free(d)
  /\ stock > 0
  /\ Covers
  /\ ClaimedAs(d, "CONFIRMED")
  /\ balance' = balance - 1
  /\ stock' = stock - 1
  /\ MovesTo(w, "paid")
  /\ UNCHANGED <<today, schedule, extra, deeds>>

\* INSUFFICIENT_BALANCE: everything is rolled back, the stock taken as well.
TooPoor(w) ==
  /\ task[w].at = "commit"
  /\ Free(task[w].day)
  /\ stock > 0
  /\ ~Covers
  /\ MovesTo(w, "fail")
  /\ UNCHANGED <<today, schedule, money, row, deeds>>

\* A clash on the claim or the shelf ends the delivery with an error.
Clash(w) ==
  /\ task[w].at = "commit"
  /\ ~Free(task[w].day) \/ stock = 0
  /\ Becomes(w, Idle)
  /\ UNCHANGED <<today, schedule, money, row, deeds>>

\* The lifecycle trigger lets nothing follow CANCELLED.
BugMayBecome(s) == TRUE
MayBecome(s) == status # "CANCELLED" \/ s = "CANCELLED"

\* recordWalletFailure: claims the day without a charge, or fails as a whole.
Fail(w) ==
  LET d == task[w].day IN
  /\ task[w].at = "fail"
  /\ \/ /\ Free(d) /\ MayBecome("PAYMENT_PENDING")
        /\ ClaimedAs(d, "WALLET_INSUFFICIENT")
        /\ status' = "PAYMENT_PENDING"
        /\ Becomes(w, Ended(task[w]))
     \/ /\ ~Free(d) \/ ~MayBecome("PAYMENT_PENDING")
        /\ Becomes(w, Idle)
        /\ UNCHANGED <<claim, row, status>>
  /\ UNCHANGED <<today, skips, paused, balance, stock, extra, deeds>>

\* A day paid ends PAYMENT_PENDING.
Activate(w) ==
  /\ task[w].at = "paid"
  /\ status' = IF status = "PAYMENT_PENDING" THEN "ACTIVE" ELSE status
  /\ Becomes(w, Ended(task[w]))
  /\ UNCHANGED <<today, skips, paused, money, row, deeds>>

-----------------------------------------------------------------------------
(* syncSubscriptionSchedule: reads, then writes.                           *)

SyncRead(w) ==
  LET open == {d \in Days : d >= task[w].day /\ row[d] \in ScheduleOnly \union {"NONE"}}
      Desired(d) == IF d \in skips \union paused THEN "SKIPPED" ELSE "SCHEDULED" IN
  /\ task[w].at = "sync"
  /\ Becomes(w, [task[w] EXCEPT
       !.at = "write",
       !.put = [d \in Days |-> IF Delivers /\ d \in open /\ row[d] # Desired(d)
                               THEN Desired(d) ELSE "KEEP"],
       !.drop = IF Delivers THEN {} ELSE {d \in open : row[d] # "NONE"}])
  /\ UNCHANGED <<today, schedule, money, row, deeds>>

\* The upsert leaves a row alone that follows its order by now.
BugMayPut(d) == TRUE
MayPut(d) == row[d] \in ScheduleOnly \union {"NONE"}

\* Rows are deleted by id whatever they say by now; then markDeliveryUnavailable.
Synced(t) ==
  [d \in Days |->
     IF t.out /\ d = t.day /\ (d \in t.drop \/ MayPut(d)) THEN "FAILED"
     ELSE IF d \in t.drop THEN "NONE"
     ELSE IF t.put[d] # "KEEP" /\ MayPut(d) THEN t.put[d]
     ELSE row[d]]

\* A row deleted is gone for the other syncs as well.
SyncWrite(w) ==
  /\ task[w].at = "write"
  /\ row' = Synced(task[w])
  /\ task' = [v \in Workers |-> IF v = w THEN Idle ELSE [task[v] EXCEPT !.drop = @ \ task[w].drop]]
  /\ UNCHANGED <<today, schedule, money, deeds>>

-----------------------------------------------------------------------------
(* The customer: every change of the schedule is followed by a sync.       *)

Syncing == [Idle EXCEPT !.at = "sync", !.day = today]

\* assertDateIsModifiable.
Modifiable(d) == d >= today /\ claim[d].status \in {"NONE", "WALLET_INSUFFICIENT"}

AskSkip(w, d) ==
  /\ task[w] = Idle
  /\ Modifiable(d)
  /\ \/ status # "CANCELLED" /\ d \notin skips /\ Becomes(w, [Idle EXCEPT !.at = "skip", !.day = d])
     \/ d \in skips /\ Becomes(w, [Idle EXCEPT !.at = "unskip", !.day = d])
  /\ Deed
  /\ UNCHANGED <<today, schedule, money, row>>

\* skipDate, clearOverride.
Skip(w) ==
  /\ \/ task[w].at = "skip" /\ skips' = skips \union {task[w].day}
     \/ task[w].at = "unskip" /\ skips' = skips \ {task[w].day}
  /\ Becomes(w, Syncing)
  /\ UNCHANGED <<today, status, paused, money, row, deeds>>

Pause(w, from, until) ==
  /\ task[w] = Idle
  /\ status # "CANCELLED"
  /\ paused' = from..until
  /\ Becomes(w, Syncing)
  /\ Deed
  /\ UNCHANGED <<today, status, skips, money, row>>

Resume(w) ==
  /\ task[w] = Idle
  /\ status # "CANCELLED"
  /\ paused' = {}
  /\ status' = IF status = "RENEWAL_PENDING" THEN status ELSE "ACTIVE"
  /\ Becomes(w, Syncing)
  /\ Deed
  /\ UNCHANGED <<today, skips, money, row>>

Cancel(w) ==
  /\ task[w] = Idle
  /\ status # "CANCELLED"
  /\ status' = "CANCELLED"
  /\ Becomes(w, Syncing)
  /\ UNCHANGED <<today, skips, paused, money, row, deeds>>

\* renewSubscription, without an end date: only the trigger looks at the status
\* again, and the wallet may not cover the coming days.
Renew(w) ==
  /\ task[w] = Idle
  /\ MayBecome("RENEWAL_PENDING")
  /\ status' \in {"RENEWAL_PENDING", IF status = "PAYMENT_PENDING" THEN status ELSE "ACTIVE"}
  /\ Becomes(w, Syncing)
  /\ Deed
  /\ UNCHANGED <<today, skips, paused, money, row>>

\* refreshPaymentDue, setRenewal: judged from what was read some time before.
JudgeRenewal ==
  /\ \/ status = "ACTIVE" /\ status' = "RENEWAL_PENDING"
     \/ status = "RENEWAL_PENDING" /\ status' = "ACTIVE"
  /\ UNCHANGED <<today, skips, paused, money, row, task, deeds>>

-----------------------------------------------------------------------------
(* Money and goods from outside, the clock, a crash.                       *)

TopUp ==
  /\ balance < MaxBalance
  /\ balance' = balance + 1
  /\ UNCHANGED <<today, schedule, claim, row, stock, extra, task, deeds>>

Restock ==
  /\ stock' = stock + 1
  /\ Deed
  /\ UNCHANGED <<today, schedule, claim, row, balance, extra, task>>

\* cancelOrder puts the goods back whether or not the order had taken them.
CancelOrder(d) ==
  /\ \/ /\ claim[d].status = "CONFIRMED"
        /\ claim' = [claim EXCEPT ![d].status = "REFUNDED"]
        /\ row' = [row EXCEPT ![d] = "REFUNDED"]
        /\ balance' = balance + 1
        /\ UNCHANGED extra
     \/ /\ claim[d].status = "WALLET_INSUFFICIENT"
        /\ claim' = [claim EXCEPT ![d].status = "CANCELLED"]
        /\ row' = [row EXCEPT ![d] = "CANCELLED"]
        /\ extra' = extra + 1
        /\ UNCHANGED balance
  /\ stock' = stock + 1
  /\ Deed
  /\ UNCHANGED <<today, schedule, task>>

NextDay ==
  /\ today < LastDay
  /\ today' = today + 1
  /\ UNCHANGED <<schedule, money, row, task, deeds>>

Crash(w) ==
  /\ task[w] # Idle
  /\ Becomes(w, Idle)
  /\ Deed
  /\ UNCHANGED <<today, schedule, money, row>>

-----------------------------------------------------------------------------

Step(w) == \/ DeleteFailed(w) \/ Check(w) \/ Pay(w) \/ TooPoor(w) \/ Clash(w) \/ Fail(w)
           \/ Activate(w) \/ SyncRead(w) \/ SyncWrite(w) \/ Skip(w)

Next ==
  \/ \E w \in Workers :
       \/ Step(w) \/ StartRun(w) \/ Resume(w) \/ Renew(w) \/ Cancel(w) \/ Crash(w)
       \/ \E d \in Days : Retry(w, d) \/ AskSkip(w, d)
       \/ \E from, until \in Days : from <= until /\ Pause(w, from, until)
  \/ \E d \in Days : CancelOrder(d)
  \/ JudgeRenewal \/ TopUp \/ Restock \/ NextDay

Spec == Init /\ [][Next]_vars

\* A run or a request goes on until it has ended.
FairSpec == Spec /\ \A w \in Workers : WF_vars(Step(w))

-----------------------------------------------------------------------------
(* What must hold.                                                         *)

\* A delivery day is paid at most once and takes one unit when it is; a failed
\* or cancelled one leaves the wallet as it was: whatever runs, retries and
\* customers do between a run's reads and its commit.  Units cancelOrder puts
\* back that no order took are kept apart (extra).
LedgerDay(c) == IF c = "CONFIRMED" THEN "PAID" ELSE IF c = "REFUNDED" THEN "BACK" ELSE "OPEN"
Ledger == INSTANCE DayLedger WITH
  stock <- stock - extra,
  day <- [d \in Days |-> LedgerDay(claim[d].status)]
KeepsLedger == Ledger!Spec

\* A cancelled subscription is final (TC-SUB-008): no failure recorded late, no
\* resume and no renewal brings it back, whatever they had read before.
FinalAction == status = "CANCELLED" => status' = "CANCELLED"
FinalIsFinal == [][FinalAction]_vars

\* A row that follows its order is never pulled back to the schedule by a sync
\* that read the day before the order came (subscription-schedule.ts:111).
NotPulledBackAction ==
  \A d \in Days : row[d] \notin ScheduleOnly \union {"NONE"} => row'[d] \notin ScheduleOnly
RowNotPulledBack == [][NotPulledBackAction]_vars

\* After a cancellation charging comes to an end: what was under way finishes,
\* and nothing that starts later reaches the wallet ("No further deliveries
\* will be scheduled or charged").
CancelledStopsCharging ==
  (status = "CANCELLED") ~> [](\A w \in Workers : task[w].at \notin {"commit", "fail"})

\* Every unit on the shelf is there: does not hold (cancelOrder of a failed day).
NoPhantomStock == extra = 0
=============================================================================
