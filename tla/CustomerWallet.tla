--------------------------- MODULE CustomerWallet ---------------------------
(***************************************************************************)
(* A customer's wallet: top-ups at the gateway (services/payments.ts), the *)
(* ledger (services/wallet.ts), the voucher bonus (services/vouchers.ts),  *)
(* an order paid from the wallet and its refunds, and refunds the customer *)
(* sends on to the bank (services/bank-refunds.ts).                        *)
(*                                                                         *)
(* The ledger holds the balance and the promotional part of it; a movement *)
(* is one transaction under the wallet's row lock.  A top-up is confirmed  *)
(* by the customer's own call or by the webhook, and the code from there   *)
(* to the bonus is four transactions of one worker, which may stop between *)
(* any two.  Amounts are in small units; every top-up is of one amount.    *)
(***************************************************************************)
EXTENDS Naturals, Sequences, FiniteSets, FiniteSetsExt, Functions

CONSTANTS
  TopUps,           \* payments with purpose WALLET_TOPUP
  TopUpAmount,      \* payments.amount_paise
  Bonus,            \* what the voucher adds to such a top-up
  PerCustomerLimit, \* vouchers.per_customer_limit
  Budget,           \* vouchers.total_budget_paise
  Price,            \* what the order costs
  LineAmount,       \* what a removed line gives back
  Charges,          \* what a cancellation may keep (fees)
  Workers,          \* calls and webhooks at work on top-ups
  NoTask,           \* a worker with nothing to do
  MaxRefunds        \* bound: REFUND entries of the ledger

ASSUME AmountsAssumption == {TopUpAmount, Bonus, Price, LineAmount} \subseteq Nat \ {0}
ASSUME LimitsAssumption == {PerCustomerLimit, Budget, MaxRefunds} \subseteq Nat
ASSUME ChargesAssumption == Charges \subseteq Nat

VARIABLES
  payment,     \* payments.status
  coded,       \* top-ups that carry the voucher's code
  paid,        \* top-ups the customer has paid, as the gateway knows
  balance,     \* wallets.balance_paise
  promotional, \* wallets.promotional_balance_paise
  credited,    \* TOP_UP entries, by payment (their key)
  redeemed,    \* voucher_redemptions, by payment (their key)
  bonused,     \* PROMOTIONAL_CREDIT entries, by redemption (their key)
  voucher,     \* its state and the budget used, by anybody
  order,       \* the order: its status, what it holds, its latest debit
  refunds,     \* REFUND entries and the bank request of each
  banked,      \* money finance has sent to the bank
  worker       \* work in progress on top-ups

ledger == <<balance, promotional>>
topUpVars == <<payment, coded, paid, credited, redeemed, bonused, voucher, worker>>
orderVars == <<order, refunds, banked>>
vars == <<ledger, topUpVars, orderVars>>

Requests == {"NONE", "REQUESTED", "PROCESSING", "PAID", "FAILED", "CANCELLED"}
Open == {"REQUESTED", "PROCESSING"}

TypeOK ==
  /\ payment \in [TopUps -> {"NONE", "CREATED", "SUCCESS", "FAILED"}]
  /\ coded \subseteq TopUps /\ paid \subseteq TopUps
  /\ balance \in Nat /\ promotional \in 0..balance
  /\ credited \subseteq TopUps /\ redeemed \subseteq TopUps /\ bonused \subseteq TopUps
  /\ voucher \in [active : BOOLEAN, used : 0..Budget]
  /\ order \in [status : {"NONE", "PLACED", "REFUNDED"}, left : 0..Price,
                debit : [amount : 0..Price, promotional : 0..Price]]
  /\ refunds \in Seq([amount : 0..Price, request : Requests, sent : 0..Price])
  /\ Len(refunds) <= MaxRefunds
  /\ banked \in Nat
  /\ worker \in [Workers -> {NoTask} \union
       [topUp : TopUps, at : {"ask", "fail", "finalize", "credit", "redeem", "bonus"}]]

Init ==
  /\ payment = [p \in TopUps |-> "NONE"]
  /\ coded = {} /\ paid = {}
  /\ balance = 0 /\ promotional = 0
  /\ credited = {} /\ redeemed = {} /\ bonused = {}
  /\ voucher = [active |-> TRUE, used |-> 0]
  /\ order = [status |-> "NONE", left |-> 0, debit |-> [amount |-> 0, promotional |-> 0]]
  /\ refunds = <<>>
  /\ banked = 0
  /\ worker = [w \in Workers |-> NoTask]

-----------------------------------------------------------------------------
(* The ledger (applyWalletMutation).  A definition whose name starts with  *)
(* Bug is a plausible mistake in the one below it; no specification uses it. *)

\* The split the engine insists on before it writes.
Consistent(newBalance, newPromotional) == newPromotional \in 0..newBalance

CreditWallet(amount, promo) ==
  /\ Consistent(balance + amount, promotional + promo)
  /\ balance' = balance + amount
  /\ promotional' = promotional + promo

DebitWallet(amount, promo) ==
  /\ amount <= balance
  /\ promo <= promotional
  /\ Consistent(balance - amount, promotional - promo)
  /\ balance' = balance - amount
  /\ promotional' = promotional - promo

\* PROMOTIONAL_FIRST: a purchase draws on promotional credit first.
PromoUsed(amount) == Min({amount, promotional})

\* The debit a refund of the order is measured by.
BugRestored(amount) == order.debit.promotional
Restored(amount) ==
  IF amount = order.debit.amount THEN order.debit.promotional
  ELSE (2 * order.debit.promotional * amount + order.debit.amount) \div (2 * order.debit.amount)

-----------------------------------------------------------------------------
(* Top-ups. *)

\* The voucher as it is read: not paused, budget not exhausted, uses left.
Redeemable == /\ voucher.active
              /\ voucher.used < Budget
              /\ Cardinality(redeemed) < PerCustomerLimit

\* createTopUpOrder: the code is accepted on a preview, nothing is held.
CreateTopUp(p, code) ==
  /\ payment[p] = "NONE"
  /\ code => Redeemable
  /\ payment' = [payment EXCEPT ![p] = "CREATED"]
  /\ coded' = IF code THEN coded \union {p} ELSE coded
  /\ UNCHANGED <<ledger, orderVars, paid, credited, redeemed, bonused, voucher, worker>>

\* The customer pays on the gateway's page.
Pays(p) ==
  /\ payment[p] # "NONE" /\ p \notin paid
  /\ paid' = paid \union {p}
  /\ UNCHANGED <<ledger, orderVars, payment, coded, credited, redeemed, bonused, voucher, worker>>

Goes(w, task) == worker' = [worker EXCEPT ![w] = task]
Stops(w) == Goes(w, NoTask)
At(w, at) == worker[w] # NoTask /\ worker[w].at = at
Then(w, at) == Goes(w, [worker[w] EXCEPT !.at = at])

\* loadVerifiablePayment: nothing to do unless the payment is CREATED.
Verify(w, p) ==
  /\ worker[w] = NoTask
  /\ payment[p] = "CREATED"
  /\ Goes(w, [topUp |-> p, at |-> "ask"])
  /\ UNCHANGED <<ledger, orderVars, payment, coded, paid, credited, redeemed, bonused, voucher>>

\* The gateway is asked; an unreachable gateway decides nothing.
Ask(w) ==
  /\ At(w, "ask")
  /\ \/ Then(w, IF worker[w].topUp \in paid THEN "finalize" ELSE "fail")
     \/ Stops(w)
  /\ UNCHANGED <<ledger, orderVars, payment, coded, paid, credited, redeemed, bonused, voucher>>

\* Not confirmed: FAILED, whatever the payment has become meanwhile.
MarkFailed(w) ==
  /\ At(w, "fail")
  /\ payment' = [payment EXCEPT ![worker[w].topUp] = "FAILED"]
  /\ Stops(w)
  /\ UNCHANGED <<ledger, orderVars, coded, paid, credited, redeemed, bonused, voucher>>

\* creditFromWebhook: the gateway's event of a successful payment, any number of times.
Webhook(w, p) ==
  /\ worker[w] = NoTask
  /\ p \in paid
  /\ payment[p] = "CREATED"
  /\ Goes(w, [topUp |-> p, at |-> "finalize"])
  /\ UNCHANGED <<ledger, orderVars, payment, coded, paid, credited, redeemed, bonused, voucher>>

\* finalizeVerifiedPayment, first step: one caller moves CREATED to SUCCESS.
Finalize(w) ==
  /\ At(w, "finalize")
  /\ LET p == worker[w].topUp
     IN \/ /\ payment[p] = "CREATED"
           /\ payment' = [payment EXCEPT ![p] = "SUCCESS"]
           /\ Then(w, "credit")
        \/ /\ payment[p] # "CREATED"
           /\ Stops(w)
           /\ UNCHANGED payment
  /\ UNCHANGED <<ledger, orderVars, coded, paid, credited, redeemed, bonused, voucher>>

\* The paid money, keyed on the gateway's payment.
CreditTopUp(w) ==
  /\ At(w, "credit")
  /\ LET p == worker[w].topUp
     IN /\ IF p \in credited THEN UNCHANGED ledger ELSE CreditWallet(TopUpAmount, 0)
        /\ credited' = credited \union {p}
        /\ IF p \in coded THEN Then(w, "redeem") ELSE Stops(w)
  /\ UNCHANGED <<orderVars, payment, coded, paid, redeemed, bonused, voucher>>

\* Rejected outright, never a smaller bonus.
BugWithinBudget == voucher.used < Budget
WithinBudget == voucher.used + Bonus <= Budget

\* Looked at again under the voucher's lock, whatever the preview said.
BugStillRedeemable == voucher.active /\ voucher.used < Budget
StillRedeemable == Redeemable

\* redeemVoucher, idempotent on the payment; refused, the bonus is dropped.
Redeem(w) ==
  /\ At(w, "redeem")
  /\ LET p == worker[w].topUp
         grants == p \notin redeemed /\ StillRedeemable /\ WithinBudget
     IN /\ redeemed' = IF grants THEN redeemed \union {p} ELSE redeemed
        /\ voucher' = IF grants THEN [voucher EXCEPT !.used = @ + Bonus] ELSE voucher
        /\ IF p \in redeemed' THEN Then(w, "bonus") ELSE Stops(w)
  /\ UNCHANGED <<ledger, orderVars, payment, coded, paid, credited, bonused>>

\* The bonus, all of it promotional, keyed on the redemption.
CreditBonus(w) ==
  /\ At(w, "bonus")
  /\ LET p == worker[w].topUp
     IN /\ IF p \in bonused THEN UNCHANGED ledger ELSE CreditWallet(Bonus, Bonus)
        /\ bonused' = bonused \union {p}
  /\ Stops(w)
  /\ UNCHANGED <<orderVars, payment, coded, paid, credited, redeemed, voucher>>

\* The process stops, or an error ends the call, between two transactions.
Crash(w) ==
  /\ worker[w] # NoTask
  /\ Stops(w)
  /\ UNCHANGED <<ledger, orderVars, payment, coded, paid, credited, redeemed, bonused, voucher>>

\* Another customer redeems the voucher.
OthersRedeem ==
  /\ voucher.active /\ WithinBudget
  /\ voucher' = [voucher EXCEPT !.used = @ + Bonus]
  /\ UNCHANGED <<ledger, orderVars, payment, coded, paid, credited, redeemed, bonused, worker>>

\* setVoucherStatus: the voucher is paused, or made active again.
SwitchVoucher ==
  /\ voucher' = [voucher EXCEPT !.active = ~@]
  /\ UNCHANGED <<ledger, orderVars, payment, coded, paid, credited, redeemed, bonused, worker>>

-----------------------------------------------------------------------------
(* An order paid from the wallet. *)

\* checkout: the debit and the order commit together.
Checkout ==
  /\ order.status = "NONE"
  /\ order' = [status |-> "PLACED", left |-> Price,
               debit |-> [amount |-> Price, promotional |-> PromoUsed(Price)]]
  /\ DebitWallet(Price, PromoUsed(Price))
  /\ UNCHANGED <<topUpVars, refunds, banked>>

\* A REFUND entry; its amount here is the customer-funded part.
Enter(amount) ==
  /\ Len(refunds) < MaxRefunds
  /\ refunds' = Append(refunds, [amount |-> amount, request |-> "NONE", sent |-> 0])

\* refundOriginalDebit: within the order's latest debit, in its proportion.
RefundDebit(amount) ==
  /\ amount \in 1..order.debit.amount
  /\ CreditWallet(amount, Restored(amount))
  /\ Enter(amount - Restored(amount))

\* refundLine: the line leaves the order's total.
RemoveLine ==
  /\ order.status = "PLACED" /\ LineAmount < order.left
  /\ RefundDebit(LineAmount)
  /\ order' = [order EXCEPT !.left = @ - LineAmount]
  /\ UNCHANGED <<topUpVars, banked>>

\* cancelOrder: what the charges leave of the total goes back.
CancelOrder(charge) ==
  /\ order.status = "PLACED" /\ charge < order.left
  /\ RefundDebit(order.left - charge)
  /\ order' = [order EXCEPT !.status = "REFUNDED", !.left = charge]
  /\ UNCHANGED <<topUpVars, banked>>

-----------------------------------------------------------------------------
(* Refunds sent on to the bank. *)

\* What can be sent now: the refund, less what was spent since.
Sendable(i) == Min({refunds[i].amount, balance - promotional})

\* requestBankRefund: the debit carries the order's id, so it becomes the
\* order's latest debit.
RequestBankRefund(i) ==
  /\ refunds[i].request = "NONE"
  /\ Sendable(i) > 0
  /\ DebitWallet(Sendable(i), 0)
  /\ refunds' = [refunds EXCEPT ![i].request = "REQUESTED", ![i].sent = Sendable(i)]
  /\ order' = [order EXCEPT !.debit = [amount |-> Sendable(i), promotional |-> 0]]
  /\ UNCHANGED <<topUpVars, banked>>

\* returnToWallet: a new REFUND entry, customer-funded, that may be sent again.
Return(i, why) ==
  /\ CreditWallet(refunds[i].sent, 0)
  /\ Len(refunds) < MaxRefunds
  /\ refunds' = Append([refunds EXCEPT ![i].request = why],
                       [amount |-> refunds[i].sent, request |-> "NONE", sent |-> 0])
  /\ UNCHANGED <<topUpVars, order, banked>>

CancelBankRefund(i) == refunds[i].request = "REQUESTED" /\ Return(i, "CANCELLED")

\* decideBankRefund, under the request's row lock.
BugUndecided(i) == refunds[i].request \notin {"NONE", "FAILED"}
Undecided(i) == refunds[i].request \in Open

Process(i) ==
  /\ refunds[i].request = "REQUESTED"
  /\ refunds' = [refunds EXCEPT ![i].request = "PROCESSING"]
  /\ UNCHANGED <<ledger, topUpVars, order, banked>>

Pay(i) ==
  /\ Undecided(i)
  /\ refunds' = [refunds EXCEPT ![i].request = "PAID"]
  /\ banked' = banked + refunds[i].sent
  /\ UNCHANGED <<ledger, topUpVars, order>>

Fail(i) == Undecided(i) /\ Return(i, "FAILED")

-----------------------------------------------------------------------------
Next ==
  \/ \E p \in TopUps : \/ \E code \in BOOLEAN : CreateTopUp(p, code)
                       \/ Pays(p)
  \/ \E w \in Workers :
       \/ \E p \in TopUps : Verify(w, p) \/ Webhook(w, p)
       \/ Ask(w) \/ MarkFailed(w) \/ Finalize(w) \/ CreditTopUp(w)
       \/ Redeem(w) \/ CreditBonus(w) \/ Crash(w)
  \/ OthersRedeem \/ SwitchVoucher
  \/ Checkout \/ RemoveLine \/ \E charge \in Charges : CancelOrder(charge)
  \/ \E i \in DOMAIN refunds : \/ RequestBankRefund(i) \/ CancelBankRefund(i)
                               \/ Process(i) \/ Pay(i) \/ Fail(i)

Spec == Init /\ [][Next]_vars

-----------------------------------------------------------------------------
(* Properties. *)

\* What bank requests hold until finance decides.
OpenRequests == {i \in DOMAIN refunds : refunds[i].request \in Open}
Held == SumFunctionOnSet([i \in DOMAIN refunds |-> refunds[i].sent], OpenRequests)

\* Every unit is in one place, the wallet, the order, a bank request or the
\* bank, and came in by a payment the gateway has or by a bonus, once each:
\* verify against webhook, cancel against finance, returns that are sent again.
MoneyConserved ==
  /\ credited \subseteq paid
  /\ balance + order.left + banked + Held
       = TopUpAmount * Cardinality(credited) + Bonus * Cardinality(bonused)

\* The bonus is given as often as the voucher allows, and on credited money
\* only, although the code was accepted before anything was held.
BonusWithinRules ==
  /\ Cardinality(redeemed) <= PerCustomerLimit
  /\ bonused \subseteq redeemed /\ redeemed \subseteq credited

\* The hard stop of the engine ("should be unreachable", wallet.ts:228) is: no
\* purchase the balance covers, no refund within the order's debit and no
\* request within the customer's own money is refused for its split.
AffordableIsAccepted ==
  /\ Price <= balance => Consistent(balance - Price, promotional - PromoUsed(Price))
  /\ \A amount \in 1..order.debit.amount :
       Consistent(balance + amount, promotional + Restored(amount))
  /\ \A i \in DOMAIN refunds : Consistent(balance - Sendable(i), promotional)
=============================================================================
