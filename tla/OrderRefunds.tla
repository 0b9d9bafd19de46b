---------------------------- MODULE OrderRefunds ----------------------------
(***************************************************************************)
(* Refunds of one order paid online: src/server/aftercare/refunds.ts (the  *)
(* customer's refund and its timeline, order_refunds) on top of            *)
(* src/server/payments/intents.ts (the gateway refund, payment_refunds)    *)
(* and the jobs that finish both (runRefundSweep, runPaymentReconciliation *)
(* and the refund webhook of processing.ts).                               *)
(*                                                                         *)
(* A paid order can lose lines (a part refund each) and be cancelled (the  *)
(* refund CancelRefund).  A refund goes to the wallet at once, or through  *)
(* the gateway by a worker whose steps are the code's transactions; the    *)
(* refund row counts the tries, and after the last one falls back to the   *)
(* wallet (rule refundChoice, its default).  Amounts are in small units.   *)
(***************************************************************************)
EXTENDS Naturals, FiniteSets, FiniteSetsExt, Functions

CONSTANTS
  Refunds,            \* refunds of the order: parts and the cancellation
  CancelRefund,       \* the cancellation's
  Workers,            \* requests and jobs at work on refunds
  NoTask,             \* a worker with nothing to do
  Price,              \* what was paid
  PartAmount,         \* what a removed line gives back
  Methods,            \* where a refund may go: ORIGINAL, WALLET
  MaxGatewayAttempts, \* refundChoice.maxGatewayAttempts
  Answers,            \* what gateway.refund answers at once
  LateAnswers,        \* what a PENDING gateway refund turns into
  MaxFaults           \* bound: database errors

ASSUME RefundsAssumption == IsFiniteSet(Refunds)
ASSUME CancelRefundAssumption == CancelRefund \in Refunds
ASSUME AmountsAssumption == Price \in Nat /\ PartAmount \in Nat \ {0}
ASSUME MethodsAssumption == Methods \subseteq {"ORIGINAL", "WALLET"}
ASSUME AttemptsAssumption == MaxGatewayAttempts \in Nat \ {0}
ASSUME AnswersAssumption == /\ Answers \subseteq {"PENDING", "SUCCESS", "FAILED"}
                            /\ LateAnswers \subseteq {"SUCCESS", "FAILED"}
ASSUME FaultsAssumption == MaxFaults \in Nat

VARIABLES
  order,    \* orders.status
  total,    \* orders.total_paise: what the order still costs
  refund,   \* order_refunds
  pay,      \* payment_refunds
  bank,     \* the gateway's record of each refund (its merchant refund id)
  refunded, \* payment_intents.refunded_paise
  wallet,   \* refunds credited to the wallet (one ledger key per refund)
  worker,   \* work in progress
  faults    \* database errors so far

vars == <<order, total, refund, pay, bank, refunded, wallet, worker, faults>>

Final == {"SUCCESS", "FAILED"}
Outcomes == {"PROCESSING", "SUCCESS", "FAILED"}

\* The work of worker w on refund r: aftercare (processOriginalRefund, the
\* sweep) finishes the customer's refund too, the payments job does not.
Work(r, at, outcome, last, aftercare) ==
  [refund |-> r, at |-> at, outcome |-> outcome, last |-> last,
   aftercare |-> aftercare, closes |-> FALSE]

TypeOK ==
  /\ order \in {"CONFIRMED", "CANCELLED", "REFUND_PENDING", "REFUNDED"}
  /\ total \in 0..Price
  /\ refund \in [Refunds -> [status : {"NONE", "REQUESTED"} \union Outcomes,
                             method : {"ORIGINAL", "WALLET"},
                             amount : 0..Price, attempts : 0..MaxGatewayAttempts]]
  /\ pay \in [Refunds -> [status : {"NONE", "PENDING"} \union Final, submitted : BOOLEAN]]
  /\ bank \in [Refunds -> {"NONE", "PENDING"} \union Final]
  /\ refunded \in 0..Price
  /\ wallet \subseteq Refunds
  /\ worker \in [Workers -> {NoTask} \union
       [refund : Refunds, at : {"record", "send", "mark", "settle", "finish", "commit"},
        outcome : Outcomes \union {"PENDING"}, last : BOOLEAN,
        aftercare : BOOLEAN, closes : BOOLEAN]]
  /\ faults \in 0..MaxFaults

Init ==
  /\ order = "CONFIRMED"
  /\ total = Price
  /\ refund = [r \in Refunds |-> [status |-> "NONE", method |-> "ORIGINAL",
                                  amount |-> 0, attempts |-> 0]]
  /\ pay = [r \in Refunds |-> [status |-> "NONE", submitted |-> FALSE]]
  /\ bank = [r \in Refunds |-> "NONE"]
  /\ refunded = 0
  /\ wallet = {}
  /\ worker = [w \in Workers |-> NoTask]
  /\ faults = 0

-----------------------------------------------------------------------------
(* Asking for a refund.  A definition whose name starts with Bug is a      *)
(* plausible mistake in the one below it; no specification uses it.        *)

\* A wallet refund completes in the transaction that asks for it.
Ask(r, method, amount) ==
  /\ refund[r].status = "NONE"
  /\ refund' = [refund EXCEPT ![r] =
       [status |-> IF method = "WALLET" \/ amount = 0 THEN "SUCCESS" ELSE "REQUESTED",
        method |-> method, amount |-> amount, attempts |-> 0]]
  /\ wallet' = IF method = "WALLET" /\ amount > 0 THEN wallet \union {r} ELSE wallet
  /\ UNCHANGED <<pay, bank, refunded, worker, faults>>

\* refundLine: what a removed line leaves of the order's total.
BugTotalWithout(amount) == total
TotalWithout(amount) == total - amount

\* refundOrderPart: a line leaves an order that carries on.
RefundPart(r, method) ==
  /\ r # CancelRefund
  /\ order = "CONFIRMED"
  /\ PartAmount < total
  /\ Ask(r, method, PartAmount)
  /\ total' = TotalWithout(PartAmount)
  /\ UNCHANGED order

\* cancelOrder: planCancellationRefund and executeCancellationRefund; amount is
\* what the charges leave of the total.
CancelOrder(method, amount) ==
  /\ order = "CONFIRMED"
  /\ amount <= total
  /\ Ask(CancelRefund, method, amount)
  /\ order' = CASE amount = 0                       -> "CANCELLED"
                [] amount > 0 /\ method = "WALLET"  -> "REFUNDED"
                [] OTHER                            -> "REFUND_PENDING"
  /\ UNCHANGED total

-----------------------------------------------------------------------------
(* The gateway refund (payments/intents.ts). *)

IntentStatus == IF refunded = 0 THEN "CAPTURED"
                ELSE IF refunded >= Price THEN "REFUNDED" ELSE "PARTIALLY_REFUNDED"

Amount == [r \in Refunds |-> refund[r].amount]
Sum(S) == SumFunctionOnSet(Amount, S)

\* Refunds of the payment that are made or may still be.
Committed == Sum({r \in Refunds : pay[r].status \in {"PENDING", "SUCCESS"}})

CanRefund(r) == IntentStatus # "REFUNDED" /\ Committed + refund[r].amount <= Price

\* otherRefundInFlight of intents.ts, and otherRefundOpen of refunds.ts.
OtherInFlight(r) ==
  \E q \in Refunds \ {r} : \/ pay[q].status = "PENDING"
                           \/ refund[q].method = "ORIGINAL" /\ refund[q].status = "REQUESTED"
OtherOpen(r) ==
  \E q \in Refunds \ {r} : /\ refund[q].method = "ORIGINAL"
                           /\ refund[q].status \in {"REQUESTED", "PROCESSING"}

Goes(w, task) == worker' = [worker EXCEPT ![w] = task]
Stops(w) == Goes(w, NoTask)

\* processOriginalRefund: one more try is counted while the refund is REQUESTED
\* (the UPDATE waits for a transaction that holds the row).
RowLocked(r) == \E w \in Workers : worker[w] # NoTask /\ worker[w].at = "commit" /\ worker[w].refund = r

CountTry(w, r) ==
  LET tries == Min({refund[r].attempts + 1, MaxGatewayAttempts})
  IN /\ worker[w] = NoTask
     /\ refund[r].status = "REQUESTED" /\ refund[r].method = "ORIGINAL"
     /\ ~RowLocked(r)
     /\ refund' = [refund EXCEPT ![r].attempts = tries]
     /\ Goes(w, Work(r, "record", "PENDING", tries = MaxGatewayAttempts, TRUE))
     /\ UNCHANGED <<order, total, pay, bank, refunded, wallet, faults>>

\* The work after an error: given up at the last try, else left to the sweep.
AfterError(w) ==
  IF worker[w].aftercare /\ worker[w].last
  THEN Goes(w, [worker[w] EXCEPT !.at = "finish", !.outcome = "FAILED"])
  ELSE Stops(w)

\* The gateway refund is at a point the customer's refund must be told of.
Tells(w, outcome) ==
  IF worker[w].aftercare
  THEN Goes(w, [worker[w] EXCEPT !.at = "finish", !.outcome = outcome])
  ELSE Stops(w)

At(w, at) == worker[w] # NoTask /\ worker[w].at = at

\* refundPaymentIntent, under the intent's row lock.
RecordRefund(w) ==
  /\ At(w, "record")
  /\ LET r == worker[w].refund
     IN \/ /\ pay[r].status = "NONE" /\ CanRefund(r)
           /\ pay' = [pay EXCEPT ![r].status = "PENDING"]
           /\ Goes(w, [worker[w] EXCEPT !.at = "send"])
        \/ /\ pay[r].status = "NONE" /\ ~CanRefund(r)
           /\ AfterError(w)
           /\ UNCHANGED pay
        \/ /\ pay[r].status = "PENDING" /\ ~pay[r].submitted
           /\ Goes(w, [worker[w] EXCEPT !.at = "send"])
           /\ UNCHANGED pay
        \/ /\ pay[r].status = "PENDING" /\ pay[r].submitted
           /\ Tells(w, "PROCESSING")
           /\ UNCHANGED pay
        \/ /\ pay[r].status \in Final
           /\ Tells(w, pay[r].status)
           /\ UNCHANGED pay
  /\ UNCHANGED <<order, total, refund, bank, refunded, wallet, faults>>

\* A call without an answer: the refund stays PENDING, to be sent again.
BugAfterLostCall == "FAILED"
AfterLostCall == "PROCESSING"

\* submitRefund: the gateway is called, once per merchant refund id; a call whose
\* answer is lost leaves the refund PENDING and unsubmitted.
SendRefund(w) ==
  /\ At(w, "send")
  /\ LET r == worker[w].refund
     IN \/ /\ pay[r].status \in Final
           /\ Tells(w, pay[r].status)
           /\ UNCHANGED bank
        \/ /\ pay[r].status = "PENDING"
           /\ bank' \in {bank} \union (IF bank[r] # "NONE" THEN {}
                                       ELSE {[bank EXCEPT ![r] = a] : a \in Answers})
           /\ \/ bank'[r] # "NONE" /\ Goes(w, [worker[w] EXCEPT !.at = "mark", !.outcome = bank'[r]])
              \/ Tells(w, AfterLostCall)
  /\ UNCHANGED <<order, total, refund, pay, refunded, wallet, faults>>

MarkSubmitted(w) ==
  /\ At(w, "mark")
  /\ pay' = [pay EXCEPT ![worker[w].refund].submitted = TRUE]
  /\ IF worker[w].outcome = "PENDING"
     THEN Tells(w, "PROCESSING")
     ELSE Goes(w, [worker[w] EXCEPT !.at = "settle"])
  /\ UNCHANGED <<order, total, refund, bank, refunded, wallet, faults>>

\* Looked at again under the locks: another worker may have settled it.
BugUnsettled(r) == TRUE
Unsettled(r) == pay[r].status = "PENDING"

\* settleRefund, under the locks of the intent, the refund and the order.
SettleRefund(w) ==
  /\ At(w, "settle")
  /\ LET r == worker[w].refund
         to == worker[w].outcome
     IN \/ /\ ~Unsettled(r)
           /\ Tells(w, pay[r].status)
           /\ UNCHANGED <<order, pay, refunded>>
        \/ /\ Unsettled(r)
           /\ Tells(w, to)
           /\ pay' = [pay EXCEPT ![r] = [status |-> to, submitted |-> TRUE]]
           /\ refunded' = IF to = "SUCCESS" THEN refunded + refund[r].amount ELSE refunded
           /\ order' = IF to = "SUCCESS" /\ order = "REFUND_PENDING" /\ ~OtherInFlight(r)
                       THEN "REFUNDED" ELSE order
  /\ UNCHANGED <<total, refund, bank, wallet, faults>>

-----------------------------------------------------------------------------
(* Finishing the customer's refund (finishOriginal): the row is locked, the *)
(* order and the other refunds are read without a lock, then all commits.   *)

FinishRead(w) ==
  /\ At(w, "finish")
  /\ LET r == worker[w].refund
     IN /\ ~RowLocked(r)
        /\ IF refund[r].status \in Final \union {worker[w].outcome}
           THEN Stops(w)
           ELSE Goes(w, [worker[w] EXCEPT !.at = "commit",
                           !.closes = order = "REFUND_PENDING" /\ ~OtherOpen(r)])
  /\ UNCHANGED <<order, total, refund, pay, bank, refunded, wallet, faults>>

BugFinishCommit(w) ==
  /\ At(w, "commit")
  /\ LET r == worker[w].refund
         to == worker[w].outcome
     IN /\ refund' = [refund EXCEPT ![r].status = IF to = "FAILED" THEN "SUCCESS" ELSE to,
                                    ![r].method = IF to = "FAILED" THEN "WALLET" ELSE @]
        /\ wallet' = IF to = "FAILED" THEN wallet \union {r} ELSE wallet
        /\ order' = IF to = "SUCCESS" /\ worker[w].closes THEN "REFUNDED" ELSE order
  /\ Stops(w)
  /\ UNCHANGED <<total, pay, bank, refunded, faults>>

FinishCommit(w) ==
  /\ At(w, "commit")
  /\ LET r == worker[w].refund
         to == worker[w].outcome
     IN /\ refund' = [refund EXCEPT ![r].status = IF to = "FAILED" THEN "SUCCESS" ELSE to,
                                    ![r].method = IF to = "FAILED" THEN "WALLET" ELSE @]
        /\ wallet' = IF to = "FAILED" THEN wallet \union {r} ELSE wallet
        /\ order' = IF to # "PROCESSING" /\ worker[w].closes THEN "REFUNDED" ELSE order
  /\ Stops(w)
  /\ UNCHANGED <<total, pay, bank, refunded, faults>>

\* A database error in a step of processOriginalRefund or of a job.
Fault(w) ==
  /\ faults < MaxFaults
  /\ faults' = faults + 1
  /\ \/ worker[w] # NoTask /\ worker[w].at \in {"record", "send", "settle"} /\ AfterError(w)
     \/ At(w, "mark") /\ Tells(w, "PROCESSING")
     \/ worker[w] # NoTask /\ worker[w].at \in {"finish", "commit"} /\ Stops(w)
  /\ UNCHANGED <<order, total, refund, pay, bank, refunded, wallet>>

-----------------------------------------------------------------------------
(* The jobs, the webhook and the gateway. *)

\* runPaymentReconciliation: a recorded refund that was never sent is sent.
BugSendUnsent(w, r) == FALSE /\ UNCHANGED vars

SendUnsent(w, r) ==
  /\ worker[w] = NoTask
  /\ pay[r].status = "PENDING" /\ ~pay[r].submitted
  /\ Goes(w, Work(r, "send", "PENDING", FALSE, FALSE))
  /\ UNCHANGED <<order, total, refund, pay, bank, refunded, wallet, faults>>

\* The job's poll or the refund webhook: the gateway's own record is fetched.
FetchRefund(w, r) ==
  /\ worker[w] = NoTask
  /\ pay[r].status = "PENDING"
  /\ bank[r] \in Final
  /\ Goes(w, Work(r, "settle", bank[r], FALSE, FALSE))
  /\ UNCHANGED <<order, total, refund, pay, bank, refunded, wallet, faults>>

\* runRefundSweep on a PROCESSING refund: judged by what the payment has refunded.
BugCovered(r) == refunded + refund[r].amount <= Price
Covered(r) == \/ IntentStatus = "REFUNDED"
              \/ IntentStatus = "PARTIALLY_REFUNDED" /\ refunded >= refund[r].amount
SweepProcessing(w, r) ==
  /\ worker[w] = NoTask
  /\ refund[r].status = "PROCESSING" /\ refund[r].method = "ORIGINAL"
  /\ Covered(r)
  /\ Goes(w, Work(r, "finish", "SUCCESS", FALSE, TRUE))
  /\ UNCHANGED <<order, total, refund, pay, bank, refunded, wallet, faults>>

GatewayDecides(r, to) ==
  /\ bank[r] = "PENDING"
  /\ bank' = [bank EXCEPT ![r] = to]
  /\ UNCHANGED <<order, total, refund, pay, refunded, wallet, worker, faults>>

\* The process stops in the middle of the work.
Crash(w) ==
  /\ worker[w] # NoTask
  /\ Stops(w)
  /\ UNCHANGED <<order, total, refund, pay, bank, refunded, wallet, faults>>

-----------------------------------------------------------------------------
Steps(w) == \/ RecordRefund(w) \/ SendRefund(w) \/ MarkSubmitted(w)
            \/ SettleRefund(w) \/ FinishRead(w) \/ FinishCommit(w)

Next ==
  \/ \E m \in Methods :
       \/ \E r \in Refunds : RefundPart(r, m)
       \/ \E amount \in 0..Price : CancelOrder(m, amount)
  \/ \E w \in Workers :
       \/ \E r \in Refunds : \/ CountTry(w, r) \/ SendUnsent(w, r)
                             \/ FetchRefund(w, r) \/ SweepProcessing(w, r)
       \/ Steps(w) \/ Fault(w) \/ Crash(w)
  \/ \E r \in Refunds, to \in LateAnswers : GatewayDecides(r, to)

Spec == Init /\ [][Next]_vars

(***************************************************************************)
(* The cron jobs run again and again, a run is not interrupted for ever at *)
(* the same step, a call that is repeated is answered one day, and the     *)
(* gateway decides in the end.                                             *)
(***************************************************************************)
JobFairness ==
  \A r \in Refunds :
    /\ SF_vars(\E w \in Workers : CountTry(w, r))
    /\ SF_vars(\E w \in Workers : SendUnsent(w, r))
    /\ SF_vars(\E w \in Workers : FetchRefund(w, r))
    /\ SF_vars(\E w \in Workers : SweepProcessing(w, r))
    /\ WF_vars(\E to \in LateAnswers : GatewayDecides(r, to))
StepOf(r, at) == \E w \in Workers : At(w, at) /\ worker[w].refund = r /\ Steps(w)
StepFairness ==
  \A r \in Refunds, at \in {"record", "send", "mark", "settle", "finish", "commit"} :
    SF_vars(StepOf(r, at))
AnsweredFor(r) ==
  \E w \in Workers : /\ At(w, "send") /\ worker[w].refund = r
                     /\ SendRefund(w) /\ worker'[w] # NoTask /\ worker'[w].at = "mark"

FairSpec == Spec /\ JobFairness /\ StepFairness /\ \A r \in Refunds : SF_vars(AnsweredFor(r))

-----------------------------------------------------------------------------
(* Properties. *)

\* Wallet and gateway together never give back more than was paid, whatever
\* lines are removed and whenever the rest is cancelled.
MoneyBackWithinPrice ==
  Sum(wallet) + Sum({r \in Refunds : bank[r] \in {"PENDING", "SUCCESS"}}) <= Price

\* The payment's refunded amount is the sum of the refunds the gateway made,
\* however many workers settle one refund.
RefundedIsSettled ==
  LET done == {r \in Refunds : pay[r].status = "SUCCESS"}
  IN /\ refunded = Sum(done)
     /\ \A r \in done : bank[r] = "SUCCESS"

\* What went to the wallet is not also with the gateway ("refund = amount paid -
\* deductions", refunds.ts:5: once).
NotRefundedTwice == \A r \in wallet : bank[r] \in {"NONE", "FAILED"}

\* An order shows REFUNDED only when all its money has been given back.
GivenBack(r) == refund[r].amount = 0 \/ r \in wallet \/ bank[r] = "SUCCESS"
RefundedMeansGivenBack ==
  order = "REFUNDED" => \A r \in Refunds : refund[r].status # "NONE" => GivenBack(r)

\* When no refund of the order has anything left to do, the order does not
\* wait for one ("REFUNDED only once the last one settles", refunds.ts:723).
Settled(r) == refund[r].status \in {"NONE", "SUCCESS"} /\ pay[r].status \in {"NONE"} \union Final
NotLeftWaiting ==
  (\A w \in Workers : worker[w] = NoTask) /\ (\A r \in Refunds : Settled(r))
    => order # "REFUND_PENDING"

\* A cancelled order's refund reaches its end.
RefundArrives == order = "REFUND_PENDING" ~> order = "REFUNDED"

\* A gateway refusal, at once or later, sends the money to the wallet
\* (decision-log D-C05: "or a gateway failure, the money goes to the wallet").
FailureFallsBack == \A r \in Refunds : bank[r] = "FAILED" ~> r \in wallet
=============================================================================
