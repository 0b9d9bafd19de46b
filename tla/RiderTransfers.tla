--------------------------- MODULE RiderTransfers ---------------------------
(***************************************************************************)
(* Paying a rider by bank transfer: src/server/rider-wallet/transfers.ts   *)
(* with its callers withdrawals.ts (the rider), monthly.ts (the monthly    *)
(* run) and payouts/batches.ts (the bank's webhooks).                      *)
(*                                                                         *)
(* One rider.  A payout CLAIMS every unpaid item of the rider's balance (an*)
(* earning, a COD debt, an adjustment); a withdrawal of less than the whole*)
(* balance adds a pair of adjustments, one in the payout (out) and one left*)
(* unpaid (in).  Then a worker sends the transfer: one transaction, the    *)
(* call to the bank outside it, and another transaction for the answer.    *)
(* TDS and fees only split the amount; they are left out.                  *)
(***************************************************************************)
EXTENDS Integers, FiniteSets, Functions

CONSTANTS
  Credits,     \* the rider's earnings and debts
  Value,       \* what each is worth
  MaxPayouts,  \* bound: payouts
  MaxAttempts, \* bound: calls to the bank per payout
  MaxRetries,  \* rule riderPayouts.maxRetries
  Asks,        \* amounts the rider asks for
  Reviews,     \* what finance does of its own accord: retry, release
  Workers,     \* requests, jobs and webhook deliveries
  NoTask       \* a worker with nothing to do

ASSUME ValueAssumption == Value \in [Credits -> Int]
ASSUME BoundsAssumption == /\ MaxPayouts \in Nat /\ MaxAttempts \in Nat
                           /\ MaxRetries \in Nat
ASSUME AsksAssumption == Asks \subseteq Nat
ASSUME ReviewsAssumption == Reviews \subseteq {"retry", "release"}

Payouts  == 1..MaxPayouts
NoPayout == 0
Attempts == 1..MaxAttempts
Items    == (Credits \X {"earned"}) \union (Payouts \X {"in", "out"})

Open      == {"PENDING", "PROCESSING", "FAILED"}
GivenBack == {"RELEASED", "REVERSED"}
Statuses  == {"NONE", "SUCCESS"} \union Open \union GivenBack

\* What applyOutcome is told: the bank's words, or that nobody knows.
Answers == {"SUCCESS", "FAILED", "REVERSED", "UNKNOWN"}

VARIABLES
  items,    \* the earnings and adjustments on record
  holder,   \* their payout_id
  carry,    \* what a withdrawal left unpaid
  month,    \* the month before: "open", "due" for its payout, "done"
  old,      \* items dated before the end of that month
  amount,   \* rider_bank_transfers.gross_paise
  transfer, \* the rest of the row
  bank,     \* the bank's record of each attempt
  seen,     \* payout_events: webhooks recorded
  task      \* work in progress

vars == <<items, holder, carry, month, old, amount, transfer, bank, seen, task>>

NoTransfer == [status |-> "NONE", kind |-> "WITHDRAWAL", attempts |-> 0, retries |-> 0,
               review |-> FALSE, due |-> FALSE]

Task(p, at, n, answer) == [payout |-> p, at |-> at, attempt |-> n, answer |-> answer]

TypeOK ==
  /\ items \subseteq Items
  /\ holder \in [Items -> {NoPayout} \union Payouts]
  /\ carry \in [Payouts -> Nat]
  /\ month \in {"open", "due", "done"}
  /\ old \subseteq Items
  /\ amount \in [Payouts -> Nat]
  /\ transfer \in [Payouts -> [status : Statuses, kind : {"WITHDRAWAL", "MONTHLY"},
                               attempts : 0..MaxAttempts, retries : 0..MaxAttempts,
                               review : BOOLEAN, due : BOOLEAN]]
  /\ bank \in [Payouts \X Attempts -> {"none", "accepted", "paid", "refused", "returned"}]
  /\ seen \subseteq Payouts \X Attempts \X Answers
  /\ task \in [Workers -> {NoTask} \union
       [payout : Payouts, at : {"unflag", "claim", "call", "apply", "hold"},
        attempt : 0..MaxAttempts, answer : Answers]]

Init ==
  /\ items = {}
  /\ holder = [i \in Items |-> NoPayout]
  /\ carry = [p \in Payouts |-> 0]
  /\ month = "open"
  /\ old = {}
  /\ amount = [p \in Payouts |-> 0]
  /\ transfer = [p \in Payouts |-> NoTransfer]
  /\ bank = [a \in Payouts \X Attempts |-> "none"]
  /\ seen = {}
  /\ task = [w \in Workers |-> NoTask]

-----------------------------------------------------------------------------
(* The balance.  A definition whose name starts with Bug is a plausible    *)
(* mistake in the one below it; no specification uses it.                  *)

Worth(i) == CASE i[2] = "earned" -> Value[i[1]]
              [] i[2] = "in"     -> carry[i[1]]
              [] i[2] = "out"    -> 0 - carry[i[1]]

Total(S) == SumFunctionOnSet([i \in Items |-> Worth(i)], S)
Unpaid == {i \in items : holder[i] = NoPayout}
HeldBy(p) == {i \in items : holder[i] = p}

Earn(c) ==
  /\ <<c, "earned">> \notin items
  /\ items' = items \union {<<c, "earned">>}
  /\ UNCHANGED <<holder, carry, month, old, amount, transfer, bank, seen, task>>

\* The month is over: its payout takes what is dated before this instant.
MonthEnds ==
  /\ month = "open"
  /\ month' = "due"
  /\ old' = items
  /\ UNCHANGED <<items, holder, carry, amount, transfer, bank, seen, task>>

\* claimIntoTransfer, under the rider's row lock: the next payout takes items
\* and pays what of them; the rest is carried forward.
BugCovers(rest) == TRUE
Covers(rest) == rest >= 0

BugTaken(p, S, rest) == S
Taken(p, S, rest) == S \union (IF rest > 0 THEN {<<p, "out">>} ELSE {})

ClaimItems(w, S, kind, what) ==
  LET p    == 1 + Cardinality({q \in Payouts : transfer[q].status # "NONE"})
      rest == Total(S) - what
  IN /\ task[w] = NoTask
     /\ p \in Payouts
     /\ Covers(rest)
     /\ items' = items \union (IF rest > 0 THEN {<<p, "out">>, <<p, "in">>} ELSE {})
     /\ holder' = [i \in Items |-> IF i \in Taken(p, S, rest) THEN p ELSE holder[i]]
     /\ carry' = [carry EXCEPT ![p] = rest]
     /\ amount' = [amount EXCEPT ![p] = what]
     /\ transfer' = [transfer EXCEPT ![p] = [NoTransfer EXCEPT !.status = "PENDING",
                                                              !.kind = kind]]
     /\ task' = [task EXCEPT ![w] = Task(p, "claim", 0, "UNKNOWN")]
     /\ UNCHANGED <<old, bank, seen>>

\* withdraw: the rider takes everything there is and is paid what he asks.
Withdraw(w, what) ==
  /\ what > 0
  /\ ClaimItems(w, Unpaid, "WITHDRAWAL", what)
  /\ UNCHANGED month

\* runMonthlyRiderPayout: what is unpaid of the month, once (one transfer per
\* run and rider); a rider with nothing due is skipped for this run.
MonthlyRun(w) ==
  LET S == Unpaid \intersect old IN
  /\ month = "due"
  /\ month' = "done"
  /\ IF Total(S) > 0
     THEN ClaimItems(w, S, "MONTHLY", Total(S))
     ELSE UNCHANGED <<items, holder, carry, old, amount, transfer, bank, seen, task>>

-----------------------------------------------------------------------------
(* sendTransfer. *)

Goto(w, at) == task' = [task EXCEPT ![w].at = at]
Answered(w, n, answer) == task' = [task EXCEPT ![w] = Task(@.payout, "apply", n, answer)]
Done(w) == task' = [task EXCEPT ![w] = NoTask]
At(w, at) == task[w] # NoTask /\ task[w].at = at

\* The row is locked and its status read again; then PROCESSING is committed.
ClaimAttempt(w) ==
  LET p == task[w].payout IN
  /\ At(w, "claim")
  /\ \/ /\ transfer[p].status \notin {"PENDING", "FAILED"}
        /\ Done(w)
        /\ UNCHANGED transfer
     \/ /\ transfer[p].status \in {"PENDING", "FAILED"}
        /\ transfer[p].attempts < MaxAttempts
        /\ transfer' = [transfer EXCEPT ![p] =
             [@ EXCEPT !.status = "PROCESSING", !.review = FALSE, !.due = FALSE,
                       !.attempts = transfer[p].attempts + 1,
                       !.retries = transfer[p].retries +
                                     (IF transfer[p].status = "FAILED" THEN 1 ELSE 0)]]
        /\ task' = [task EXCEPT ![w] = Task(p, "call", transfer[p].attempts + 1, "UNKNOWN")]
     \* No verified account, or no provider: a first attempt fails as refused,
     \* a retry is put before finance.
     \/ /\ transfer[p].status = "PENDING"
        /\ Answered(w, 0, "FAILED")
        /\ UNCHANGED transfer
     \/ /\ transfer[p].status = "FAILED"
        /\ Goto(w, "hold")
        /\ UNCHANGED transfer
  /\ UNCHANGED <<items, holder, carry, month, old, amount, bank, seen>>

HoldForReview(w) ==
  LET p == task[w].payout IN
  /\ At(w, "hold")
  /\ transfer' = IF transfer[p].status = "FAILED"
                 THEN [transfer EXCEPT ![p] = [@ EXCEPT !.review = TRUE, !.due = FALSE]]
                 ELSE transfer
  /\ Done(w)
  /\ UNCHANGED <<items, holder, carry, month, old, amount, bank, seen>>

\* provider.createTransfer: answered at once, accepted, or an exception after
\* which the transfer may or may not be with the bank.
AnswerTo(state) == CASE state = "paid" -> "SUCCESS" [] state = "refused" -> "FAILED"

CallBank(w) ==
  LET p == task[w].payout
      n == task[w].attempt
  IN /\ At(w, "call")
     /\ \/ \E state \in {"paid", "refused"} :
             /\ bank' = [bank EXCEPT ![<<p, n>>] = state]
             /\ Answered(w, n, AnswerTo(state))
        \/ /\ bank' = [bank EXCEPT ![<<p, n>>] = "accepted"]
           /\ Done(w)
        \/ \E state \in {"none", "accepted"} :
             /\ bank' = [bank EXCEPT ![<<p, n>>] = state]
             /\ Answered(w, n, "UNKNOWN")
     /\ UNCHANGED <<items, holder, carry, month, old, amount, transfer, seen>>

BankMoves(p, n, to) ==
  /\ \/ bank[<<p, n>>] = "accepted" /\ to \in {"paid", "refused"}
     \/ bank[<<p, n>>] = "paid" /\ to = "returned"
  /\ bank' = [bank EXCEPT ![<<p, n>>] = to]
  /\ UNCHANGED <<items, holder, carry, month, old, amount, transfer, seen, task>>

-----------------------------------------------------------------------------
(* applyOutcome, under the transfer's row lock. *)

Move(p, to) ==
  transfer' = [transfer EXCEPT ![p] = [@ EXCEPT !.status = to, !.review = FALSE, !.due = FALSE]]

\* releasePayout: the items go back to the balance.
Release(p) ==
  holder' = [i \in Items |-> IF holder[i] = p THEN NoPayout ELSE holder[i]]

BugSucceeded(p) ==
  /\ transfer[p].status \in {"RELEASED"} \union Open
  /\ Move(p, "SUCCESS")
  /\ UNCHANGED holder

Succeeded(p) ==
  \/ /\ transfer[p].status \in Open
     /\ Move(p, "SUCCESS")
     /\ UNCHANGED holder
  \* Paid after it was released: finance must recover it.
  \/ /\ transfer[p].status = "RELEASED"
     /\ transfer' = [transfer EXCEPT ![p].review = TRUE]
     /\ UNCHANGED holder

BugReversed(p) ==
  /\ transfer[p].status = "SUCCESS"
  /\ transfer' = [transfer EXCEPT ![p] = [@ EXCEPT !.status = "REVERSED", !.review = TRUE]]
  /\ UNCHANGED holder

Reversed(p) ==
  /\ transfer[p].status = "SUCCESS"
  /\ transfer' = [transfer EXCEPT ![p] = [@ EXCEPT !.status = "REVERSED", !.review = TRUE]]
  /\ Release(p)

\* Nobody knows: finance decides.
Unsure(p) ==
  /\ transfer[p].status \in {"PROCESSING", "PENDING"}
  /\ transfer' = [transfer EXCEPT ![p] = [@ EXCEPT !.status = "FAILED", !.review = TRUE,
                                                   !.due = FALSE]]
  /\ UNCHANGED holder

\* A definite refusal: a withdrawal goes back, a monthly payout is retried.
Refused(p) ==
  /\ transfer[p].status \in {"PROCESSING", "PENDING"}
  /\ \/ /\ transfer[p].kind = "WITHDRAWAL"
        /\ transfer' = [transfer EXCEPT ![p] = [@ EXCEPT !.status = "RELEASED", !.due = FALSE]]
        /\ Release(p)
     \/ /\ transfer[p].kind = "MONTHLY"
        /\ LET again == transfer[p].retries < MaxRetries IN
           transfer' = [transfer EXCEPT ![p] =
             [@ EXCEPT !.status = "FAILED", !.due = again,
                       !.review = transfer[p].review \/ ~again]]
        /\ UNCHANGED holder

Outcome(p, answer) ==
  \/ answer = "SUCCESS" /\ Succeeded(p)
  \/ answer = "REVERSED" /\ Reversed(p)
  \/ answer = "UNKNOWN" /\ Unsure(p)
  \/ answer = "FAILED" /\ Refused(p)

\* The statuses an answer leaves alone.
Ignored(p, answer) ==
  \/ answer = "SUCCESS" /\ transfer[p].status \in {"SUCCESS", "REVERSED"}
  \/ answer = "REVERSED" /\ transfer[p].status # "SUCCESS"
  \/ answer \in {"UNKNOWN", "FAILED"} /\ transfer[p].status \notin {"PROCESSING", "PENDING"}

ApplyOutcome(w) ==
  LET p == task[w].payout IN
  /\ At(w, "apply")
  /\ \/ Outcome(p, task[w].answer)
     \/ Ignored(p, task[w].answer) /\ UNCHANGED <<transfer, holder>>
  /\ Done(w)
  /\ UNCHANGED <<items, carry, month, old, amount, bank, seen>>

-----------------------------------------------------------------------------
(* Webhooks, the retry job and finance. *)

\* What the bank tells of an attempt; events come late and in any order.
BugTold(state) == IF state = "refused" THEN {"FAILED"}
                  ELSE IF state = "none" THEN {} ELSE {"SUCCESS"}
Told(state) == CASE state = "paid"     -> {"SUCCESS"}
                 [] state = "refused"  -> {"FAILED"}
                 [] state = "returned" -> {"SUCCESS", "REVERSED"}
                 [] OTHER              -> {}

\* handlePayoutWebhook and handleRiderTransferEvent: the event is recorded
\* first, a recorded event is ignored, and the transfer is found by its id
\* (the reference_id RazorpayX and the sandbox send back) whatever attempt the
\* event is about.
Webhook(w, p, n, answer) ==
  /\ task[w] = NoTask
  /\ answer \in Told(bank[<<p, n>>])
  /\ <<p, n, answer>> \notin seen
  /\ seen' = seen \union {<<p, n, answer>>}
  /\ task' = [task EXCEPT ![w] = Task(p, "apply", n, answer)]
  /\ UNCHANGED <<items, holder, carry, month, old, amount, transfer, bank>>

\* retryDueTransfers: the list is read before any of it is sent.
BugDue(p) == transfer[p].status = "FAILED" /\ ~transfer[p].review /\ transfer[p].due

Due(p) ==
  \/ transfer[p].status = "FAILED" /\ ~transfer[p].review /\ transfer[p].due
  \/ transfer[p].status = "PENDING"

PickDue(w, p) ==
  /\ task[w] = NoTask
  /\ Due(p)
  /\ task' = [task EXCEPT ![w] = Task(p, "claim", 0, "UNKNOWN")]
  /\ UNCHANGED <<items, holder, carry, month, old, amount, transfer, bank, seen>>

\* reviewTransfer "retry": the status is read, then the flag cleared without
\* looking again, then the transfer is sent.
ReviewRetry(w, p) ==
  /\ "retry" \in Reviews
  /\ task[w] = NoTask
  /\ transfer[p].status = "FAILED"
  /\ task' = [task EXCEPT ![w] = Task(p, "unflag", 0, "UNKNOWN")]
  /\ UNCHANGED <<items, holder, carry, month, old, amount, transfer, bank, seen>>

Unflag(w) ==
  /\ At(w, "unflag")
  /\ transfer' = [transfer EXCEPT ![task[w].payout] = [@ EXCEPT !.review = FALSE, !.due = FALSE]]
  /\ Goto(w, "claim")
  /\ UNCHANGED <<items, holder, carry, month, old, amount, bank, seen>>

\* reviewTransfer "release", in one transaction.
ReviewRelease(p) ==
  /\ "release" \in Reviews
  /\ transfer[p].status \in {"FAILED", "PENDING"}
  /\ Move(p, "RELEASED")
  /\ Release(p)
  /\ UNCHANGED <<items, carry, month, old, amount, bank, seen, task>>

\* The process stops between two steps.
Crash(w) ==
  /\ task[w] # NoTask
  /\ Done(w)
  /\ UNCHANGED <<items, holder, carry, month, old, amount, transfer, bank, seen>>

-----------------------------------------------------------------------------
Step(w) == \/ ClaimAttempt(w) \/ HoldForReview(w) \/ CallBank(w) \/ ApplyOutcome(w)
           \/ Unflag(w)

Next ==
  \/ \E c \in Credits : Earn(c)
  \/ MonthEnds
  \/ \E w \in Workers :
       \/ \E what \in Asks : Withdraw(w, what)
       \/ MonthlyRun(w)
       \/ Step(w)
       \/ \E p \in Payouts : PickDue(w, p) \/ ReviewRetry(w, p)
       \/ \E p \in Payouts, n \in Attempts, answer \in Answers : Webhook(w, p, n, answer)
       \/ Crash(w)
  \/ \E p \in Payouts : ReviewRelease(p)
  \/ \E p \in Payouts, n \in Attempts, to \in {"paid", "refused", "returned"} : BankMoves(p, n, to)

Spec == Init /\ [][Next]_vars

(***************************************************************************)
(* The hourly job runs again and again, a live worker goes on, and what a  *)
(* crash interrupts it does not interrupt for ever.                        *)
(***************************************************************************)
PickOf(p) == \E w \in Workers : PickDue(w, p)
StepOf(p, at) == \E w \in Workers : At(w, at) /\ task[w].payout = p /\ Step(w)

FairSpec == /\ Spec
            /\ \A p \in Payouts : /\ SF_vars(PickOf(p))
                                  /\ \A at \in {"claim", "apply"} : SF_vars(StepOf(p, at))
            /\ \A w \in Workers : WF_vars(Step(w))

-----------------------------------------------------------------------------
(* Properties. *)

\* Until it is given back a payout holds exactly the items its amount is made
\* of, the carried rest included, and nothing after that: no earning is lost
\* between two payouts or counted in both (claimIntoTransfer, releasePayout).
CarriesItsAmount ==
  \A p \in Payouts :
    IF transfer[p].status \in {"NONE"} \union GivenBack
    THEN HeldBy(p) = {}
    ELSE Total(HeldBy(p)) = amount[p]

\* A payout is shown as paid only when the bank did pay one of its attempts,
\* however late and out of order answers and webhooks are applied.
SuccessIsPaid ==
  \A p \in Payouts : transfer[p].status = "SUCCESS" =>
    \E n \in Attempts : bank[<<p, n>>] \in {"paid", "returned"}

\* The rider's balance and payouts do what RiderBalance promises.
MoneyIs(status) == CASE status = "NONE"    -> "none"
                     [] status \in Open    -> "on its way"
                     [] status = "SUCCESS" -> "paid"
                     [] OTHER              -> "back"
Promise == INSTANCE RiderBalance WITH
             Payouts <- Payouts,
             Values  <- {Value[c] : c \in Credits},
             balance <- Total(Unpaid),
             payout  <- [p \in Payouts |-> [amount |-> amount[p], money |-> MoneyIs(transfer[p].status)]]
KeepsPromise == Promise!Spec

\* A transfer that was created is sent, refused or given back, wherever the
\* process stops between the claim's commit and the provider call.
CreatedIsSent ==
  \A p \in Payouts : transfer[p].status = "PENDING" ~> transfer[p].status # "PENDING"

\* The bank never pays a rider twice for one payout (transfers.ts:480, "Never
\* pay twice silently"; monthly.ts:16-18, "nobody is paid twice").
PaidOnce ==
  \A p \in Payouts : Cardinality({n \in Attempts : bank[<<p, n>>] = "paid"}) <= 1

\* What is in payouts that were not given back never exceeds what was earned
\* (transfers.ts:18-20, the carried rest "keeps the rider's balance right").
\* It fails around a month's end: a payout may take an earning while the debit
\* of a withdrawal that was given back is dated after the month.
Earned == {i \in items : i[2] = "earned"}
PaidIsEarned ==
  LET kept == {p \in Payouts : transfer[p].status \notin GivenBack}
  IN SumFunctionOnSet(amount, kept) <= Total(Earned)
=============================================================================
