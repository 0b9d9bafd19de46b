------------------------ MODULE CustomerWalletProofs ------------------------
(***************************************************************************)
(* Theorems about CustomerWallet for any top-ups, amounts, prices, limits  *)
(* and workers: the types, the voucher's rules, that the ledger's hard     *)
(* stop refuses nothing it should accept, and that no money is lost.       *)
(***************************************************************************)
EXTENDS CustomerWallet, SumTheorems

Tasks == [topUp : TopUps, at : {"ask", "fail", "finalize", "credit", "redeem", "bonus"}]
Entries == [amount : 0..Price, request : Requests, sent : 0..Price]

\* TypeOK in three parts: an action changes one of them, and the ledger.
TopUpTypes ==
  /\ payment \in [TopUps -> {"NONE", "CREATED", "SUCCESS", "FAILED"}]
  /\ coded \subseteq TopUps /\ paid \subseteq TopUps
  /\ credited \subseteq TopUps /\ redeemed \subseteq TopUps /\ bonused \subseteq TopUps
  /\ voucher \in [active : BOOLEAN, used : 0..Budget]
  /\ worker \in [Workers -> {NoTask} \union Tasks]

LedgerTypes == balance \in Nat /\ promotional \in 0..balance

OrderTypes ==
  /\ order \in [status : {"NONE", "PLACED", "REFUNDED"}, left : 0..Price,
                debit : [amount : 0..Price, promotional : 0..Price]]
  /\ refunds \in Seq(Entries)
  /\ Len(refunds) <= MaxRefunds
  /\ banked \in Nat

\* The promotional part of a debit is a part of it.
DebitIsSplit == order.debit.promotional <= order.debit.amount

\* A worker reaches the bonus by way of the credit and the redemption.
Bonuses ==
  /\ IsFiniteSet(redeemed)
  /\ BonusWithinRules
  /\ \A w \in Workers : worker[w] # NoTask =>
       /\ worker[w].at \in {"redeem", "bonus"} => worker[w].topUp \in credited
       /\ worker[w].at = "bonus" => worker[w].topUp \in redeemed

Inv == TopUpTypes /\ LedgerTypes /\ OrderTypes /\ DebitIsSplit /\ Bonuses

-----------------------------------------------------------------------------
(* Arithmetic of the ledger.                                               *)

LEMMA MinOfTwo ==
  ASSUME NEW a \in Int, NEW b \in Int
  PROVE  /\ Min({a, b}) \in {a, b}
         /\ Min({a, b}) <= a
         /\ Min({a, b}) <= b
<1>1. \E x \in {a, b} : \A y \in {a, b} : x <= y
  <2>1. CASE a <= b
    BY <2>1
  <2>2. CASE b <= a
    BY <2>2
  <2> QED BY <2>1, <2>2
<1>2. Min({a, b}) \in {a, b} /\ \A y \in {a, b} : Min({a, b}) <= y
  BY <1>1 DEF Min
<1> QED BY <1>2

LEMMA ProductGrows ==
  ASSUME NEW a \in Nat, NEW b \in Nat, NEW c \in Nat, a <= b
  PROVE  a * c <= b * c
<1>1. PICK d \in Nat : b = a + d
  <2>1. b - a \in Nat /\ b = a + (b - a)
    OBVIOUS
  <2> QED BY <2>1
<1>2. b * c = a * c + d * c
  BY <1>1
<1>3. d * c >= 0 /\ a * c \in Nat /\ d * c \in Nat
  OBVIOUS
<1> QED BY <1>2, <1>3

\* Rounding half up never gives more than the whole.
LEMMA RoundedShare ==
  ASSUME NEW part \in Nat, NEW whole \in Nat, part <= whole, whole >= 1, NEW amount \in Nat
  PROVE  (2 * part * amount + whole) \div (2 * whole) \in 0..amount
<1> DEFINE x == 2 * part * amount + whole
           b == 2 * whole
           q == x \div b
<1>1. x \in Nat /\ b \in Nat /\ b >= 2
  OBVIOUS
<1>2. q \in Nat /\ b * q <= x
  BY <1>1
<1>3. x <= b * amount + whole
  <2>1. part * amount <= whole * amount
    BY ProductGrows
  <2>2. /\ 2 * part * amount = 2 * (part * amount)
        /\ b * amount = 2 * (whole * amount)
    OBVIOUS
  <2> QED BY <2>1, <2>2
<1>4. ~(q > amount)
  <2> SUFFICES ASSUME q > amount PROVE FALSE
    OBVIOUS
  <2>1. amount + 1 <= q /\ amount + 1 \in Nat
    BY <1>2
  <2>2. (amount + 1) * b <= q * b
    BY <1>1, <1>2, <2>1, ProductGrows
  <2>3. (amount + 1) * b = b * amount + b /\ q * b = b * q
    BY <1>1, <1>2
  <2> QED BY <1>1, <1>2, <1>3, <2>2, <2>3
<1> QED BY <1>2, <1>4

LEMMA RestoredIsPart ==
  ASSUME OrderTypes, DebitIsSplit, NEW amount \in 1..order.debit.amount
  PROVE  Restored(amount) \in 0..amount
<1>1. /\ order.debit.amount \in Nat /\ order.debit.promotional \in Nat
      /\ order.debit.amount >= 1 /\ amount \in Nat
      /\ order.debit.promotional <= order.debit.amount
  BY AmountsAssumption DEF OrderTypes, DebitIsSplit
<1>2. CASE amount = order.debit.amount
  BY <1>1, <1>2 DEF Restored
<1>3. CASE amount # order.debit.amount
  BY <1>1, <1>3, RoundedShare DEF Restored
<1> QED BY <1>2, <1>3

-----------------------------------------------------------------------------
(* The ledger keeps its types by what the engine checks before it writes.  *)

LEMMA CreditTypes ==
  ASSUME LedgerTypes, NEW amount \in Nat, NEW promo \in Nat, CreditWallet(amount, promo)
  PROVE  LedgerTypes'
BY DEF LedgerTypes, CreditWallet, Consistent

LEMMA DebitTypes ==
  ASSUME LedgerTypes, NEW amount \in Nat, NEW promo \in Nat, DebitWallet(amount, promo)
  PROVE  LedgerTypes'
BY DEF LedgerTypes, DebitWallet, Consistent

LEMMA PromoUsedIsPart ==
  ASSUME LedgerTypes
  PROVE  /\ PromoUsed(Price) \in 0..Price
         /\ PromoUsed(Price) \in {Price, promotional}
<1>1. Price \in Nat /\ promotional \in Nat
  BY AmountsAssumption DEF LedgerTypes
<1>2. /\ Min({Price, promotional}) \in {Price, promotional}
      /\ Min({Price, promotional}) <= Price
  BY <1>1, MinOfTwo
<1> QED BY <1>1, <1>2 DEF PromoUsed

LEMMA SendableIsPart ==
  ASSUME LedgerTypes, OrderTypes, NEW i \in DOMAIN refunds
  PROVE  /\ refunds[i] \in Entries
         /\ Sendable(i) \in 0..Price
         /\ Sendable(i) <= balance - promotional
<1>1. refunds[i] \in Entries
  BY DEF OrderTypes
<1>2. refunds[i].amount \in 0..Price /\ Price \in Nat
  BY <1>1, AmountsAssumption DEF Entries
<1>3. balance - promotional \in Nat
  BY DEF LedgerTypes
<1>4. refunds[i].amount \in Int /\ balance - promotional \in Int
  BY <1>2, <1>3
<1>5. /\ Min({refunds[i].amount, balance - promotional}) \in {refunds[i].amount, balance - promotional}
      /\ Min({refunds[i].amount, balance - promotional}) <= refunds[i].amount
      /\ Min({refunds[i].amount, balance - promotional}) <= balance - promotional
  BY <1>4, MinOfTwo
<1> QED BY <1>1, <1>2, <1>3, <1>5 DEF Sendable

LEMMA InitInv == Init => Inv
<1> SUFFICES ASSUME Init PROVE Inv
  OBVIOUS
<1>1. TopUpTypes
  BY LimitsAssumption DEF Init, TopUpTypes
<1>2. LedgerTypes
  BY DEF Init, LedgerTypes
<1>3. OrderTypes
  BY AmountsAssumption, LimitsAssumption DEF Init, OrderTypes
<1>4. DebitIsSplit
  BY DEF Init, DebitIsSplit
<1>5. Bonuses
  BY FS_EmptySet, LimitsAssumption DEF Init, Bonuses, BonusWithinRules
<1> QED BY <1>1, <1>2, <1>3, <1>4, <1>5 DEF Inv

-----------------------------------------------------------------------------
(* Top-ups.                                                                *)

LEMMA OrderUntouched ==
  ASSUME Inv, UNCHANGED orderVars
  PROVE  OrderTypes' /\ DebitIsSplit'
BY DEF Inv, OrderTypes, DebitIsSplit, orderVars

LEMMA WorkerSet ==
  ASSUME TopUpTypes, NEW w \in Workers, NEW t \in {NoTask} \union Tasks, Goes(w, t)
  PROVE  /\ worker' \in [Workers -> {NoTask} \union Tasks]
         /\ worker'[w] = t
         /\ \A v \in Workers \ {w} : worker'[v] = worker[v]
BY DEF TopUpTypes, Goes

\* What a worker may be given to do.
Allowed(t) ==
  t # NoTask => /\ t.at \in {"redeem", "bonus"} => t.topUp \in credited'
                /\ t.at = "bonus" => t.topUp \in redeemed'

\* A step of a worker that redeems nothing.
LEMMA WorkStep ==
  ASSUME Inv, NEW w \in Workers, NEW t \in {NoTask} \union Tasks, Goes(w, t), Allowed(t),
         credited \subseteq credited', redeemed' = redeemed, bonused' \subseteq redeemed
  PROVE  Bonuses'
<1>1. TopUpTypes /\ Bonuses
  BY DEF Inv
<1>2. /\ worker'[w] = t
      /\ \A v \in Workers \ {w} : worker'[v] = worker[v]
  BY <1>1, WorkerSet
<1>3. BonusWithinRules'
  BY <1>1 DEF Bonuses, BonusWithinRules
<1>4. \A v \in Workers : worker'[v] # NoTask =>
        /\ worker'[v].at \in {"redeem", "bonus"} => worker'[v].topUp \in credited'
        /\ worker'[v].at = "bonus" => worker'[v].topUp \in redeemed'
  BY <1>1, <1>2 DEF Bonuses, Allowed
<1> QED BY <1>1, <1>3, <1>4 DEF Bonuses

\* Steps outside the workers and the ledger.
LEMMA AsideStep ==
  ASSUME Inv, UNCHANGED <<ledger, orderVars, credited, redeemed, bonused, worker>>
  PROVE  LedgerTypes' /\ OrderTypes' /\ DebitIsSplit' /\ Bonuses'
BY DEF Inv, LedgerTypes, OrderTypes, DebitIsSplit, Bonuses, BonusWithinRules, ledger, orderVars

LEMMA AsideSteps ==
  ASSUME Inv,
         \/ \E p \in TopUps : \/ \E code \in BOOLEAN : CreateTopUp(p, code)
                              \/ Pays(p)
         \/ OthersRedeem
         \/ SwitchVoucher
  PROVE  Inv'
<1>1. UNCHANGED <<ledger, orderVars, credited, redeemed, bonused, worker>>
  BY DEF CreateTopUp, Pays, OthersRedeem, SwitchVoucher
<1>2. TopUpTypes
  BY DEF Inv
<1>3. TopUpTypes'
  <2>1. ASSUME NEW p \in TopUps, NEW code \in BOOLEAN, CreateTopUp(p, code) PROVE TopUpTypes'
    BY <1>2, <2>1 DEF CreateTopUp, TopUpTypes
  <2>2. ASSUME NEW p \in TopUps, Pays(p) PROVE TopUpTypes'
    BY <1>2, <2>2 DEF Pays, TopUpTypes
  <2>3. CASE OthersRedeem
    <3>1. voucher.used + Bonus \in 0..Budget
      BY <1>2, <2>3, AmountsAssumption, LimitsAssumption DEF OthersRedeem, WithinBudget, TopUpTypes
    <3> QED BY <1>2, <2>3, <3>1 DEF OthersRedeem, TopUpTypes
  <2>4. CASE SwitchVoucher
    BY <1>2, <2>4 DEF SwitchVoucher, TopUpTypes
  <2> QED BY <2>1, <2>2, <2>3, <2>4
<1> QED BY <1>1, <1>3, AsideStep DEF Inv

\* What a worker holds, and what it may go on with.
LEMMA HeldTask ==
  ASSUME TopUpTypes, NEW w \in Workers, NEW at, At(w, at)
  PROVE  /\ worker[w] \in Tasks /\ worker[w].topUp \in TopUps
         /\ worker[w] # NoTask /\ worker[w].at = at
         /\ \A to \in {"ask", "fail", "finalize", "credit", "redeem", "bonus"} :
              LET t == [worker[w] EXCEPT !.at = to]
              IN t \in Tasks /\ t.topUp = worker[w].topUp /\ t.at = to
BY DEF TopUpTypes, At, Tasks

\* Steps of a worker before the credit, and the end of its work.
LEMMA EarlyStep ==
  ASSUME Inv, NEW w \in Workers, NEW t \in {NoTask} \union Tasks, Goes(w, t),
         t # NoTask => t.at \notin {"redeem", "bonus"},
         payment' \in [TopUps -> {"NONE", "CREATED", "SUCCESS", "FAILED"}],
         UNCHANGED <<ledger, orderVars, coded, paid, credited, redeemed, bonused, voucher>>
  PROVE  Inv'
<1>1. TopUpTypes /\ LedgerTypes /\ Bonuses
  BY DEF Inv
<1>2. TopUpTypes'
  BY <1>1, WorkerSet DEF TopUpTypes
<1>3. LedgerTypes'
  BY <1>1 DEF LedgerTypes, ledger
<1>4. Bonuses'
  <2>1. Allowed(t)
    BY DEF Allowed
  <2>2. bonused' \subseteq redeemed
    BY <1>1 DEF Bonuses, BonusWithinRules
  <2> QED BY <2>1, <2>2, WorkStep
<1> QED BY <1>2, <1>3, <1>4, OrderUntouched DEF Inv

LEMMA EarlySteps ==
  ASSUME Inv, NEW w \in Workers,
         \/ \E p \in TopUps : Verify(w, p) \/ Webhook(w, p)
         \/ Ask(w) \/ MarkFailed(w) \/ Finalize(w) \/ Crash(w)
  PROVE  Inv'
<1>1. TopUpTypes
  BY DEF Inv
<1>2. ASSUME NEW p \in TopUps, NEW at \in {"ask", "finalize"}, Goes(w, [topUp |-> p, at |-> at]),
             UNCHANGED <<ledger, orderVars, payment, coded, paid, credited, redeemed, bonused, voucher>>
      PROVE  Inv'
  <2> DEFINE t == [topUp |-> p, at |-> at]
  <2>1. t \in Tasks /\ t.at \notin {"redeem", "bonus"}
    BY DEF Tasks
  <2>2. payment' \in [TopUps -> {"NONE", "CREATED", "SUCCESS", "FAILED"}]
    BY <1>1, <1>2 DEF TopUpTypes
  <2>3. Goes(w, t)
    BY <1>2
  <2> HIDE DEF t
  <2> QED BY <1>2, <2>1, <2>2, <2>3, EarlyStep
<1>3. ASSUME Stops(w), payment' \in [TopUps -> {"NONE", "CREATED", "SUCCESS", "FAILED"}],
             UNCHANGED <<ledger, orderVars, coded, paid, credited, redeemed, bonused, voucher>>
      PROVE  Inv'
  BY <1>3, EarlyStep DEF Stops
<1>4. ASSUME NEW at, At(w, at), NEW to \in {"fail", "finalize", "credit"}, Then(w, to),
             payment' \in [TopUps -> {"NONE", "CREATED", "SUCCESS", "FAILED"}],
             UNCHANGED <<ledger, orderVars, coded, paid, credited, redeemed, bonused, voucher>>
      PROVE  Inv'
  <2> DEFINE t == [worker[w] EXCEPT !.at = to]
  <2>1. worker[w] \in Tasks
    BY <1>1, <1>4, HeldTask
  <2>2. t \in Tasks /\ t.at = to
    BY <2>1 DEF Tasks
  <2>3. Goes(w, t)
    BY <1>4 DEF Then
  <2> HIDE DEF t
  <2> QED BY <1>4, <2>2, <2>3, EarlyStep
<1>5. ASSUME NEW p \in TopUps, Verify(w, p) PROVE Inv'
  BY <1>2, <1>5 DEF Verify
<1>6. ASSUME NEW p \in TopUps, Webhook(w, p) PROVE Inv'
  BY <1>2, <1>6 DEF Webhook
<1>7. CASE Ask(w)
  <2>1. payment' \in [TopUps -> {"NONE", "CREATED", "SUCCESS", "FAILED"}]
    BY <1>1, <1>7 DEF Ask, TopUpTypes
  <2>2. CASE Stops(w)
    BY <1>3, <1>7, <2>1, <2>2 DEF Ask
  <2>3. CASE Then(w, IF worker[w].topUp \in paid THEN "finalize" ELSE "fail")
    BY <1>4, <1>7, <2>1, <2>3 DEF Ask
  <2> QED BY <1>7, <2>2, <2>3 DEF Ask
<1>8. CASE MarkFailed(w)
  <2>1. payment' \in [TopUps -> {"NONE", "CREATED", "SUCCESS", "FAILED"}]
    BY <1>1, <1>8 DEF MarkFailed, TopUpTypes
  <2> QED BY <1>3, <1>8, <2>1 DEF MarkFailed
<1>9. CASE Finalize(w)
  <2>1. payment' \in [TopUps -> {"NONE", "CREATED", "SUCCESS", "FAILED"}]
    BY <1>1, <1>9 DEF Finalize, TopUpTypes
  <2>2. CASE Stops(w)
    BY <1>3, <1>9, <2>1, <2>2 DEF Finalize
  <2>3. CASE Then(w, "credit")
    BY <1>4, <1>9, <2>1, <2>3 DEF Finalize
  <2> QED BY <1>9, <2>2, <2>3 DEF Finalize
<1>10. CASE Crash(w)
  <2>1. payment' \in [TopUps -> {"NONE", "CREATED", "SUCCESS", "FAILED"}]
    BY <1>1, <1>10 DEF Crash, TopUpTypes
  <2> QED BY <1>3, <1>10, <2>1 DEF Crash
<1> QED BY <1>5, <1>6, <1>7, <1>8, <1>9, <1>10

LEMMA CreditTopUpStep ==
  ASSUME Inv, NEW w \in Workers, CreditTopUp(w)
  PROVE  Inv'
<1> DEFINE p == worker[w].topUp
<1>1. TopUpTypes /\ LedgerTypes /\ Bonuses
  BY DEF Inv
<1>2. /\ UNCHANGED <<orderVars, payment, coded, paid, redeemed, bonused, voucher>>
      /\ credited' = credited \union {p}
      /\ p \in TopUps
  BY <1>1, HeldTask DEF CreditTopUp
<1>3. PICK t \in {NoTask} \union Tasks : Goes(w, t) /\ Allowed(t)
  <2>1. CASE Stops(w)
    BY <2>1 DEF Stops, Allowed
  <2>2. CASE Then(w, "redeem")
    <3> DEFINE t == [worker[w] EXCEPT !.at = "redeem"]
    <3>1. t \in Tasks /\ t.at = "redeem" /\ t.topUp = p
      BY <1>1, HeldTask DEF CreditTopUp
    <3>2. Goes(w, t)
      BY <2>2 DEF Then
    <3> HIDE DEF t
    <3>3. Allowed(t)
      BY <1>2, <3>1 DEF Allowed
    <3> QED BY <3>1, <3>2, <3>3
  <2> QED BY <2>1, <2>2 DEF CreditTopUp
<1>4. TopUpTypes'
  BY <1>1, <1>2, <1>3, WorkerSet DEF TopUpTypes
<1>5. LedgerTypes'
  <2>1. CASE UNCHANGED ledger
    BY <1>1, <2>1 DEF LedgerTypes, ledger
  <2>2. CASE CreditWallet(TopUpAmount, 0)
    BY <1>1, <2>2, CreditTypes, AmountsAssumption
  <2> QED BY <2>1, <2>2 DEF CreditTopUp
<1>6. Bonuses'
  <2>1. credited \subseteq credited' /\ redeemed' = redeemed /\ bonused' \subseteq redeemed
    BY <1>1, <1>2 DEF Bonuses, BonusWithinRules
  <2> QED BY <1>3, <2>1, WorkStep
<1> QED BY <1>2, <1>4, <1>5, <1>6, OrderUntouched DEF Inv

LEMMA CreditBonusStep ==
  ASSUME Inv, NEW w \in Workers, CreditBonus(w)
  PROVE  Inv'
<1> DEFINE p == worker[w].topUp
<1>1. TopUpTypes /\ LedgerTypes /\ Bonuses
  BY DEF Inv
<1>2. /\ UNCHANGED <<orderVars, payment, coded, paid, credited, redeemed, voucher>>
      /\ bonused' = bonused \union {p}
      /\ Goes(w, NoTask)
  BY DEF CreditBonus, Stops
<1>3. p \in TopUps /\ p \in redeemed
  <2>1. At(w, "bonus")
    BY DEF CreditBonus
  <2>2. p \in TopUps /\ worker[w] # NoTask /\ worker[w].at = "bonus"
    BY <1>1, <2>1, HeldTask
  <2> QED BY <1>1, <2>2 DEF Bonuses
<1>4. TopUpTypes'
  BY <1>1, <1>2, <1>3, WorkerSet DEF TopUpTypes
<1>5. LedgerTypes'
  <2>1. CASE UNCHANGED ledger
    BY <1>1, <2>1 DEF LedgerTypes, ledger
  <2>2. CASE CreditWallet(Bonus, Bonus)
    BY <1>1, <2>2, CreditTypes, AmountsAssumption
  <2> QED BY <2>1, <2>2 DEF CreditBonus
<1>6. Bonuses'
  <2>1. bonused' \subseteq redeemed /\ Allowed(NoTask)
    BY <1>1, <1>2, <1>3 DEF Bonuses, BonusWithinRules, Allowed
  <2> QED BY <1>2, <2>1, WorkStep
<1> QED BY <1>2, <1>4, <1>5, <1>6, OrderUntouched DEF Inv

LEMMA RedeemStep ==
  ASSUME Inv, NEW w \in Workers, Redeem(w)
  PROVE  Inv'
<1> DEFINE p == worker[w].topUp
           grants == p \notin redeemed /\ StillRedeemable /\ WithinBudget
<1>1. TopUpTypes /\ LedgerTypes /\ Bonuses
  BY DEF Inv
<1>2. /\ UNCHANGED <<ledger, orderVars, payment, coded, paid, credited, bonused>>
      /\ redeemed' = IF grants THEN redeemed \union {p} ELSE redeemed
      /\ voucher' = IF grants THEN [voucher EXCEPT !.used = @ + Bonus] ELSE voucher
      /\ IF p \in redeemed' THEN Then(w, "bonus") ELSE Stops(w)
  BY DEF Redeem
<1>3. p \in TopUps /\ p \in credited
  <2>1. At(w, "redeem")
    BY DEF Redeem
  <2>2. p \in TopUps /\ worker[w] # NoTask /\ worker[w].at = "redeem"
    BY <1>1, <2>1, HeldTask
  <2> QED BY <1>1, <2>2 DEF Bonuses
<1>4. PICK t \in {NoTask} \union Tasks : Goes(w, t) /\ Allowed(t)
  <2>1. CASE Stops(w)
    BY <2>1 DEF Stops, Allowed
  <2>2. CASE p \in redeemed' /\ Then(w, "bonus")
    <3> DEFINE t == [worker[w] EXCEPT !.at = "bonus"]
    <3>1. t \in Tasks /\ t.at = "bonus" /\ t.topUp = p
      BY <1>1, HeldTask DEF Redeem
    <3>2. Goes(w, t)
      BY <2>2 DEF Then
    <3> HIDE DEF t
    <3>3. Allowed(t)
      BY <1>2, <1>3, <2>2, <3>1 DEF Allowed
    <3> QED BY <3>1, <3>2, <3>3
  <2> QED BY <1>2, <2>1, <2>2
<1>5. voucher' \in [active : BOOLEAN, used : 0..Budget]
  <2>1. CASE grants
    <3>1. voucher.used + Bonus \in 0..Budget
      BY <1>1, <2>1, AmountsAssumption, LimitsAssumption DEF WithinBudget, TopUpTypes
    <3> QED BY <1>1, <1>2, <2>1, <3>1 DEF TopUpTypes
  <2>2. CASE ~grants
    BY <1>1, <1>2, <2>2 DEF TopUpTypes
  <2> QED BY <2>1, <2>2
<1>6. TopUpTypes'
  BY <1>1, <1>2, <1>3, <1>4, <1>5, WorkerSet DEF TopUpTypes
<1>7. LedgerTypes'
  BY <1>1, <1>2 DEF LedgerTypes, ledger
<1>8. IsFiniteSet(redeemed') /\ Cardinality(redeemed') <= PerCustomerLimit
  <2>1. CASE grants
    <3>1. /\ IsFiniteSet(redeemed) /\ Cardinality(redeemed) \in Nat
          /\ Cardinality(redeemed) < PerCustomerLimit
      BY <1>1, <2>1, FS_CardinalityType DEF Bonuses, StillRedeemable, Redeemable
    <3>2. /\ IsFiniteSet(redeemed \union {p})
          /\ Cardinality(redeemed \union {p}) = Cardinality(redeemed) + 1
      BY <2>1, <3>1, FS_AddElement
    <3> QED BY <1>2, <2>1, <3>1, <3>2, LimitsAssumption
  <2>2. CASE ~grants
    BY <1>1, <1>2, <2>2 DEF Bonuses, BonusWithinRules
  <2> QED BY <2>1, <2>2
<1>9. redeemed \subseteq redeemed' /\ redeemed' \subseteq credited
  BY <1>1, <1>2, <1>3 DEF Bonuses, BonusWithinRules
<1>10. BonusWithinRules'
  BY <1>1, <1>2, <1>8, <1>9 DEF Bonuses, BonusWithinRules
<1>11. \A v \in Workers : worker'[v] # NoTask =>
         /\ worker'[v].at \in {"redeem", "bonus"} => worker'[v].topUp \in credited'
         /\ worker'[v].at = "bonus" => worker'[v].topUp \in redeemed'
  <2>1. worker'[w] = t /\ \A v \in Workers \ {w} : worker'[v] = worker[v]
    BY <1>1, <1>4, WorkerSet
  <2> QED BY <1>1, <1>2, <1>4, <1>9, <2>1 DEF Bonuses, Allowed
<1>12. Bonuses'
  BY <1>8, <1>10, <1>11 DEF Bonuses
<1> QED BY <1>2, <1>6, <1>7, <1>12, OrderUntouched DEF Inv

-----------------------------------------------------------------------------
(* The order and its refunds.                                              *)

LEMMA TopUpsUntouched ==
  ASSUME Inv, UNCHANGED topUpVars
  PROVE  TopUpTypes' /\ Bonuses'
BY DEF Inv, TopUpTypes, Bonuses, BonusWithinRules, topUpVars

LEMMA CheckoutStep ==
  ASSUME Inv, Checkout
  PROVE  Inv'
<1>1. LedgerTypes /\ OrderTypes /\ Price \in Nat
  BY AmountsAssumption DEF Inv
<1>2. PromoUsed(Price) \in 0..Price
  BY <1>1, PromoUsedIsPart
<1>3. LedgerTypes'
  BY <1>1, <1>2, DebitTypes DEF Checkout
<1>4. OrderTypes' /\ DebitIsSplit'
  BY <1>1, <1>2 DEF Checkout, OrderTypes, DebitIsSplit
<1> QED BY <1>3, <1>4, TopUpsUntouched DEF Checkout, Inv

\* A REFUND entry keeps the ledger of refunds typed.
LEMMA EnterTypes ==
  ASSUME OrderTypes, NEW amount \in 0..Price, Enter(amount)
  PROVE  refunds' \in Seq(Entries) /\ Len(refunds') <= MaxRefunds
<1> DEFINE e == [amount |-> amount, request |-> "NONE", sent |-> 0]
<1>1. e \in Entries
  BY AmountsAssumption DEF Entries, Requests
<1>2. refunds' = Append(refunds, e) /\ Len(refunds) < MaxRefunds
  BY DEF Enter
<1> HIDE DEF e
<1> QED BY <1>1, <1>2, LimitsAssumption DEF OrderTypes

LEMMA RefundDebitTypes ==
  ASSUME Inv, NEW amount, RefundDebit(amount)
  PROVE  LedgerTypes' /\ refunds' \in Seq(Entries) /\ Len(refunds') <= MaxRefunds
<1>1. LedgerTypes /\ OrderTypes /\ DebitIsSplit
  BY DEF Inv
<1>2. amount \in 1..order.debit.amount /\ order.debit.amount \in 0..Price
  BY <1>1 DEF RefundDebit, OrderTypes
<1>3. Restored(amount) \in 0..amount
  BY <1>1, <1>2, RestoredIsPart
<1>4. /\ amount \in Nat /\ Restored(amount) \in Nat
      /\ amount - Restored(amount) \in 0..Price
  BY <1>2, <1>3, AmountsAssumption
<1>5. LedgerTypes'
  BY <1>1, <1>4, CreditTypes DEF RefundDebit
<1> QED BY <1>1, <1>4, <1>5, EnterTypes DEF RefundDebit

LEMMA RemoveLineStep ==
  ASSUME Inv, RemoveLine
  PROVE  Inv'
<1>1. OrderTypes /\ DebitIsSplit
  BY DEF Inv
<1>2. LedgerTypes' /\ refunds' \in Seq(Entries) /\ Len(refunds') <= MaxRefunds
  BY RefundDebitTypes DEF RemoveLine
<1>3. order.left - LineAmount \in 0..Price
  BY <1>1, AmountsAssumption DEF RemoveLine, OrderTypes
<1>4. OrderTypes' /\ DebitIsSplit'
  BY <1>1, <1>2, <1>3 DEF RemoveLine, OrderTypes, DebitIsSplit
<1> QED BY <1>2, <1>4, TopUpsUntouched DEF RemoveLine, Inv

LEMMA CancelOrderStep ==
  ASSUME Inv, NEW charge \in Charges, CancelOrder(charge)
  PROVE  Inv'
<1>1. OrderTypes /\ DebitIsSplit
  BY DEF Inv
<1>2. LedgerTypes' /\ refunds' \in Seq(Entries) /\ Len(refunds') <= MaxRefunds
  BY RefundDebitTypes DEF CancelOrder
<1>3. charge \in 0..Price
  BY <1>1, AmountsAssumption, ChargesAssumption DEF CancelOrder, OrderTypes
<1>4. OrderTypes' /\ DebitIsSplit'
  BY <1>1, <1>2, <1>3 DEF CancelOrder, OrderTypes, DebitIsSplit
<1> QED BY <1>2, <1>4, TopUpsUntouched DEF CancelOrder, Inv

LEMMA RequestStep ==
  ASSUME Inv, NEW i \in DOMAIN refunds, RequestBankRefund(i)
  PROVE  Inv'
<1> DEFINE e == [refunds[i] EXCEPT !.request = "REQUESTED", !.sent = Sendable(i)]
<1>1. LedgerTypes /\ OrderTypes /\ Price \in Nat
  BY AmountsAssumption DEF Inv
<1>2. refunds[i] \in Entries /\ Sendable(i) \in 0..Price
  BY <1>1, SendableIsPart
<1>3. e \in Entries
  BY <1>2 DEF Entries, Requests
<1>4. refunds' = [refunds EXCEPT ![i] = e]
  BY DEF RequestBankRefund
<1> HIDE DEF e
<1>5. refunds' \in Seq(Entries) /\ Len(refunds') = Len(refunds)
  BY <1>1, <1>3, <1>4 DEF OrderTypes
<1>6. LedgerTypes'
  BY <1>1, <1>2, DebitTypes DEF RequestBankRefund
<1>7. OrderTypes' /\ DebitIsSplit'
  BY <1>1, <1>2, <1>5 DEF RequestBankRefund, OrderTypes, DebitIsSplit
<1> QED BY <1>6, <1>7, TopUpsUntouched DEF RequestBankRefund, Inv

\* A change of a request's state alone.
LEMMA RequestMoves ==
  ASSUME OrderTypes, NEW i \in DOMAIN refunds, NEW to \in Requests, NEW changed,
         changed = [refunds EXCEPT ![i].request = to]
  PROVE  /\ changed \in Seq(Entries) /\ Len(changed) = Len(refunds)
         /\ refunds[i].sent \in 0..Price
<1> DEFINE e == [refunds[i] EXCEPT !.request = to]
<1>1. refunds[i] \in Entries
  BY DEF OrderTypes
<1>2. e \in Entries /\ refunds[i].sent \in 0..Price
  BY <1>1 DEF Entries
<1>3. changed = [refunds EXCEPT ![i] = e]
  OBVIOUS
<1> HIDE DEF e
<1> QED BY <1>2, <1>3 DEF OrderTypes

LEMMA ReturnStep ==
  ASSUME Inv, NEW i \in DOMAIN refunds, NEW why \in Requests, Return(i, why)
  PROVE  Inv'
<1> DEFINE changed == [refunds EXCEPT ![i].request = why]
           e == [amount |-> refunds[i].sent, request |-> "NONE", sent |-> 0]
<1>1. LedgerTypes /\ OrderTypes /\ DebitIsSplit /\ Price \in Nat
  BY AmountsAssumption DEF Inv
<1>2. /\ changed \in Seq(Entries) /\ Len(changed) = Len(refunds)
      /\ refunds[i].sent \in 0..Price
  BY <1>1, RequestMoves
<1>3. e \in Entries
  BY <1>1, <1>2 DEF Entries, Requests
<1>4. refunds' = Append(changed, e) /\ Len(refunds) < MaxRefunds
  BY DEF Return
<1> HIDE DEF changed, e
<1>5. refunds' \in Seq(Entries) /\ Len(refunds') <= MaxRefunds
  BY <1>1, <1>2, <1>3, <1>4, LimitsAssumption DEF OrderTypes
<1>6. LedgerTypes'
  BY <1>1, <1>2, CreditTypes DEF Return
<1>7. OrderTypes' /\ DebitIsSplit'
  BY <1>1, <1>5 DEF Return, OrderTypes, DebitIsSplit
<1> QED BY <1>6, <1>7, TopUpsUntouched DEF Return, Inv

LEMMA DecideStep ==
  ASSUME Inv, NEW i \in DOMAIN refunds, Process(i) \/ Pay(i)
  PROVE  Inv'
<1>1. LedgerTypes /\ OrderTypes /\ DebitIsSplit
  BY DEF Inv
<1>2. PICK to \in Requests : refunds' = [refunds EXCEPT ![i].request = to]
  BY DEF Process, Pay, Requests
<1>3. /\ refunds' \in Seq(Entries) /\ Len(refunds') = Len(refunds)
      /\ refunds[i].sent \in 0..Price
  BY <1>1, <1>2, RequestMoves
<1>4. banked' \in Nat
  BY <1>1, <1>3, AmountsAssumption DEF Process, Pay, OrderTypes
<1>5. UNCHANGED <<ledger, topUpVars, order>>
  BY DEF Process, Pay
<1>6. OrderTypes' /\ DebitIsSplit' /\ LedgerTypes'
  BY <1>1, <1>3, <1>4, <1>5 DEF OrderTypes, DebitIsSplit, LedgerTypes, ledger
<1> QED BY <1>5, <1>6, TopUpsUntouched DEF Inv

-----------------------------------------------------------------------------

LEMMA StepInv == Inv /\ [Next]_vars => Inv'
<1> SUFFICES ASSUME Inv, [Next]_vars PROVE Inv'
  OBVIOUS
<1>1. CASE UNCHANGED vars
  <2>1. UNCHANGED ledger /\ UNCHANGED topUpVars /\ UNCHANGED orderVars
    BY <1>1 DEF vars
  <2>2. LedgerTypes'
    BY <2>1 DEF Inv, LedgerTypes, ledger
  <2> QED BY <2>1, <2>2, OrderUntouched, TopUpsUntouched DEF Inv
<1>2. ASSUME NEW i \in DOMAIN refunds, CancelBankRefund(i) \/ Fail(i) PROVE Inv'
  <2>1. {"CANCELLED", "FAILED"} \subseteq Requests
    BY DEF Requests
  <2> QED BY <1>2, <2>1, ReturnStep DEF CancelBankRefund, Fail
<1> QED BY <1>1, <1>2, AsideSteps, EarlySteps, CreditTopUpStep, CreditBonusStep, RedeemStep,
           CheckoutStep, RemoveLineStep, CancelOrderStep, RequestStep, DecideStep DEF Next

LEMMA InvHolds == Spec => []Inv
<1> QED BY InitInv, StepInv, PTL DEF Spec

\* Every variable keeps its type, for every value of the constants.
THEOREM TypeCorrect == Spec => []TypeOK
<1>1. Inv => TypeOK
  BY DEF Inv, TopUpTypes, LedgerTypes, OrderTypes, TypeOK, Tasks, Entries
<1> QED BY <1>1, InvHolds, PTL

\* The voucher is redeemed as often as it allows and its bonus is given on
\* credited money only (createTopUpOrder's preview holds nothing, redeemVoucher
\* looks again under its lock), whatever the workers do and wherever they stop.
THEOREM BonusKeepsTheRules == Spec => []BonusWithinRules
<1>1. Inv => BonusWithinRules
  BY DEF Inv, Bonuses
<1> QED BY <1>1, InvHolds, PTL

\* No purchase, refund or bank request that the money covers is refused for
\* its split (applyWalletMutation's "should be unreachable", wallet.ts).
THEOREM SplitNeverRefuses == Spec => []AffordableIsAccepted
<1>1. ASSUME Inv PROVE AffordableIsAccepted
  <2>1. /\ LedgerTypes /\ OrderTypes /\ DebitIsSplit
        /\ Price \in Nat /\ balance \in Nat /\ promotional \in 0..balance
    BY <1>1, AmountsAssumption DEF Inv, LedgerTypes
  <2>2. Price <= balance => Consistent(balance - Price, promotional - PromoUsed(Price))
    <3>1. /\ PromoUsed(Price) \in {Price, promotional}
          /\ PromoUsed(Price) <= Price /\ PromoUsed(Price) <= promotional
      <4>1. Price \in Int /\ promotional \in Int
        BY <2>1
      <4>2. /\ Min({Price, promotional}) \in {Price, promotional}
            /\ Min({Price, promotional}) <= Price
            /\ Min({Price, promotional}) <= promotional
        BY <4>1, MinOfTwo
      <4> QED BY <4>2 DEF PromoUsed
    <3> QED BY <2>1, <3>1 DEF Consistent
  <2>3. ASSUME NEW amount \in 1..order.debit.amount
        PROVE  Consistent(balance + amount, promotional + Restored(amount))
    <3>1. Restored(amount) \in 0..amount /\ amount \in Nat
      BY <2>1, RestoredIsPart DEF OrderTypes
    <3> QED BY <2>1, <3>1 DEF Consistent
  <2>4. ASSUME NEW i \in DOMAIN refunds
        PROVE  Consistent(balance - Sendable(i), promotional)
    <3>1. Sendable(i) \in 0..Price /\ Sendable(i) <= balance - promotional
      BY <2>1, SendableIsPart
    <3> QED BY <2>1, <3>1 DEF Consistent
  <2> QED BY <2>2, <2>3, <2>4 DEF AffordableIsAccepted
<1> QED BY <1>1, InvHolds, PTL

-----------------------------------------------------------------------------
(* Money.                                                                  *)

Sent == [i \in DOMAIN refunds |-> refunds[i].sent]

\* A top-up is credited only by a worker that knows it is paid; an order that
\* is not placed holds nothing.
Money ==
  /\ IsFiniteSet(credited) /\ IsFiniteSet(bonused)
  /\ \A w \in Workers : worker[w] # NoTask /\ worker[w].at \in {"finalize", "credit"} =>
       worker[w].topUp \in paid
  /\ order.status = "NONE" => order.left = 0
  /\ MoneyConserved

\* The equation of MoneyConserved.
Holdings == balance + order.left + banked + Held
Sources == TopUpAmount * Cardinality(credited) + Bonus * Cardinality(bonused)

LEMMA MoneyParts ==
  MoneyConserved <=> credited \subseteq paid /\ Holdings = Sources
BY DEF MoneyConserved, Holdings, Sources

LEMMA EntrySent ==
  ASSUME NEW entries \in Seq(Entries), NEW i \in DOMAIN entries
  PROVE  entries[i] \in Entries /\ entries[i].sent \in Nat /\ entries[i].sent \in Int
<1>1. entries[i] \in Entries
  OBVIOUS
<1>2. entries[i].sent \in 0..Price /\ Price \in Nat
  BY <1>1, AmountsAssumption DEF Entries
<1> QED BY <1>1, <1>2

LEMMA OpenOnes ==
  ASSUME OrderTypes
  PROVE  /\ IsFiniteSet(OpenRequests) /\ OpenRequests \subseteq DOMAIN refunds
         /\ \A i \in DOMAIN refunds : Sent[i] = refunds[i].sent /\ Sent[i] \in Nat /\ Sent[i] \in Int
         /\ Held = SumFunctionOnSet(Sent, OpenRequests) /\ Held \in Nat
<1>1. DOMAIN refunds = 1..Len(refunds) /\ Len(refunds) \in Nat
  BY DEF OrderTypes
<1>2. IsFiniteSet(OpenRequests) /\ OpenRequests \subseteq DOMAIN refunds
  <2>1. IsFiniteSet(1..Len(refunds))
    BY <1>1, FS_Interval
  <2> QED BY <1>1, <2>1, FS_Subset DEF OpenRequests
<1>3. \A i \in DOMAIN refunds : Sent[i] = refunds[i].sent /\ Sent[i] \in Nat /\ Sent[i] \in Int
  BY EntrySent DEF OrderTypes, Sent
<1>4. Held = SumFunctionOnSet(Sent, OpenRequests)
  BY DEF Held, Sent
<1> QED BY <1>2, <1>3, <1>4, SumIsNat

\* The open requests and what they hold stay, one is added, one is decided.
LEMMA HeldSame ==
  ASSUME OrderTypes, OrderTypes', OpenRequests' = OpenRequests,
         \A j \in OpenRequests : refunds'[j].sent = refunds[j].sent
  PROVE  Held' = Held
<1>1. \A j \in OpenRequests : j \in DOMAIN refunds' /\ j \in DOMAIN refunds
  BY DEF OpenRequests
<1>2. \A j \in OpenRequests : Sent[j] = Sent'[j]
  BY <1>1 DEF Sent
<1>3. SumFunctionOnSet(Sent, OpenRequests) = SumFunctionOnSet(Sent', OpenRequests)
  BY <1>2, OpenOnes, SumsAreEqual
<1> QED BY <1>3 DEF Held, Sent

LEMMA HeldMore ==
  ASSUME OrderTypes, OrderTypes', NEW i \in DOMAIN refunds', i \notin OpenRequests,
         OpenRequests' = OpenRequests \union {i},
         \A j \in OpenRequests : refunds'[j].sent = refunds[j].sent
  PROVE  Held' = Held + refunds'[i].sent
<1>1. \A j \in OpenRequests : j \in DOMAIN refunds' /\ j \in DOMAIN refunds
  BY DEF OpenRequests
<1>2. \A j \in OpenRequests : Sent[j] = Sent'[j]
  BY <1>1 DEF Sent
<1>3. Sent'[i] = refunds'[i].sent /\ \A j \in OpenRequests \union {i} : Sent'[j] \in Int
  <2>1. \A j \in DOMAIN refunds' : Sent'[j] = refunds'[j].sent /\ Sent'[j] \in Int
    BY EntrySent DEF OrderTypes, Sent
  <2> QED BY <1>1, <2>1
<1>4. SumFunctionOnSet(Sent', OpenRequests \union {i}) = Sent'[i] + SumFunctionOnSet(Sent', OpenRequests)
  BY <1>3, OpenOnes, SumWith
<1>5. SumFunctionOnSet(Sent, OpenRequests) = SumFunctionOnSet(Sent', OpenRequests)
  BY <1>2, OpenOnes, SumsAreEqual
<1>6. Held' = SumFunctionOnSet(Sent', OpenRequests') /\ Held = SumFunctionOnSet(Sent, OpenRequests)
  BY DEF Held, Sent
<1>7. Held \in Int /\ Sent'[i] \in Int
  BY <1>3, OpenOnes
<1> QED BY <1>3, <1>4, <1>5, <1>6, <1>7

LEMMA HeldLess ==
  ASSUME OrderTypes, OrderTypes', NEW i \in OpenRequests,
         OpenRequests' = OpenRequests \ {i},
         \A j \in OpenRequests : refunds'[j].sent = refunds[j].sent
  PROVE  Held = Held' + refunds[i].sent /\ Held' \in Int
<1> DEFINE R == OpenRequests \ {i}
<1>1. \A j \in R : j \in DOMAIN refunds' /\ j \in DOMAIN refunds
  BY DEF OpenRequests
<1>2. \A j \in R : Sent[j] = Sent'[j]
  BY <1>1 DEF Sent
<1>3. SumFunctionOnSet(Sent, OpenRequests) = Sent[i] + SumFunctionOnSet(Sent, R)
  BY OpenOnes, SumWithout
<1>4. IsFiniteSet(R)
  BY OpenOnes, FS_Subset
<1>5. SumFunctionOnSet(Sent, R) = SumFunctionOnSet(Sent', R)
  BY <1>2, <1>4, SumsAreEqual
<1>6. Held' = SumFunctionOnSet(Sent', OpenRequests') /\ Held = SumFunctionOnSet(Sent, OpenRequests)
  BY DEF Held, Sent
<1>7. i \in DOMAIN refunds /\ Sent[i] = refunds[i].sent /\ Sent[i] \in Int
  BY OpenOnes
<1>8. Held' \in Int
  <2>1. \A j \in R : Sent[j] \in Int
    BY OpenOnes
  <2> QED BY <1>4, <1>5, <1>6, <2>1, SumIsInt
<1> QED BY <1>3, <1>5, <1>6, <1>7, <1>8

\* Amounts of the ledger's invariant, as integers.
LEMMA Numbers ==
  ASSUME Inv
  PROVE  /\ balance \in Int /\ order.left \in Int /\ banked \in Int /\ Held \in Int
         /\ Price \in Nat /\ LineAmount \in Nat /\ TopUpAmount \in Nat /\ Bonus \in Nat
BY OpenOnes, AmountsAssumption DEF Inv, LedgerTypes, OrderTypes

\* The sources of money stay while no top-up is credited and no bonus given.
LEMMA SourcesKept ==
  ASSUME Money, credited' = credited, bonused' = bonused, paid \subseteq paid',
         \A w \in Workers : worker'[w] # NoTask /\ worker'[w].at \in {"finalize", "credit"} =>
           worker'[w] = worker[w] \/ worker'[w].topUp \in paid',
         order'.status = "NONE" => order'.left = 0,
         Holdings' = Holdings
  PROVE  Money'
<1>1. Sources' = Sources
  BY DEF Sources
<1>2. MoneyConserved'
  BY <1>1, MoneyParts DEF Money, MoneyConserved, Holdings, Sources
<1> QED BY <1>2 DEF Money

\* The top-up side, but for the two credits.
LEMMA MoneyAside ==
  ASSUME Inv, Money,
         \/ \E p \in TopUps : \/ \E code \in BOOLEAN : CreateTopUp(p, code)
                              \/ Pays(p)
         \/ \E w \in Workers : \/ \E p \in TopUps : Verify(w, p) \/ Webhook(w, p)
                               \/ Ask(w) \/ MarkFailed(w) \/ Finalize(w) \/ Redeem(w) \/ Crash(w)
         \/ OthersRedeem
         \/ SwitchVoucher
  PROVE  Money'
<1>1. /\ UNCHANGED <<ledger, orderVars, credited, bonused>> /\ paid \subseteq paid'
  BY DEF CreateTopUp, Pays, Verify, Webhook, Ask, MarkFailed, Finalize, Redeem, Crash,
         OthersRedeem, SwitchVoucher
<1>2. Holdings' = Holdings /\ order' = order
  BY <1>1 DEF Holdings, Held, OpenRequests, ledger, orderVars
<1>3. ASSUME NEW v \in Workers, worker'[v] # NoTask, worker'[v].at \in {"finalize", "credit"}
      PROVE  worker'[v] = worker[v] \/ worker'[v].topUp \in paid'
  <2>1. TopUpTypes
    BY DEF Inv
  <2>2. CASE worker' = worker
    BY <2>2
  <2>3. ASSUME NEW w \in Workers, Stops(w) PROVE worker'[v] = worker[v] \/ worker'[v].topUp \in paid'
    BY <1>3, <2>1, <2>3, WorkerSet DEF Stops
  <2>4. ASSUME NEW w \in Workers, NEW at, At(w, at), at \in {"ask", "finalize", "redeem"},
               NEW to \in {"fail", "finalize", "credit", "bonus"}, Then(w, to),
               to \in {"finalize", "credit"} => worker[w].topUp \in paid
        PROVE  worker'[v] = worker[v] \/ worker'[v].topUp \in paid'
    <3> DEFINE t == [worker[w] EXCEPT !.at = to]
    <3>0. worker[w] \in Tasks
      BY <2>1, <2>4, HeldTask
    <3>1. t \in Tasks /\ t.topUp = worker[w].topUp /\ t.at = to /\ Goes(w, t)
      BY <2>4, <3>0 DEF Then, Tasks
    <3> HIDE DEF t
    <3> QED BY <1>1, <1>3, <2>1, <2>4, <3>1, WorkerSet
  <2>5. ASSUME NEW w \in Workers, NEW p \in TopUps, Verify(w, p) \/ Webhook(w, p)
        PROVE  worker'[v] = worker[v] \/ worker'[v].topUp \in paid'
    <3>1. CASE Verify(w, p)
      BY <1>3, <2>1, <3>1 DEF Verify, Goes, TopUpTypes
    <3>2. CASE Webhook(w, p)
      BY <1>3, <2>1, <3>2 DEF Webhook, Goes, TopUpTypes
    <3> QED BY <2>5, <3>1, <3>2
  <2>6. ASSUME NEW w \in Workers, Ask(w) PROVE worker'[v] = worker[v] \/ worker'[v].topUp \in paid'
    BY <2>3, <2>4, <2>6 DEF Ask
  <2>7. ASSUME NEW w \in Workers, Finalize(w) PROVE worker'[v] = worker[v] \/ worker'[v].topUp \in paid'
    <3>1. worker[w].topUp \in paid
      BY <2>7 DEF Finalize, At, Money
    <3> QED BY <2>3, <2>4, <2>7, <3>1 DEF Finalize
  <2>8. ASSUME NEW w \in Workers, Redeem(w) PROVE worker'[v] = worker[v] \/ worker'[v].topUp \in paid'
    BY <2>3, <2>4, <2>8 DEF Redeem
  <2>9. ASSUME NEW w \in Workers, MarkFailed(w) \/ Crash(w)
        PROVE  worker'[v] = worker[v] \/ worker'[v].topUp \in paid'
    BY <2>3, <2>9 DEF MarkFailed, Crash
  <2> QED BY <2>2, <2>5, <2>6, <2>7, <2>8, <2>9 DEF CreateTopUp, Pays, OthersRedeem, SwitchVoucher
<1> QED BY <1>1, <1>2, <1>3, SourcesKept DEF Money

\* One more top-up, or one more bonus.
LEMMA TimesCount ==
  ASSUME NEW S, IsFiniteSet(S), NEW a \in Nat
  PROVE  a * Cardinality(S) \in Nat
<1>1. Cardinality(S) \in Nat
  BY FS_CardinalityType
<1> QED BY <1>1

LEMMA OneMore ==
  ASSUME NEW S, IsFiniteSet(S), NEW x, x \notin S, NEW a \in Nat
  PROVE  /\ IsFiniteSet(S \union {x})
         /\ a * Cardinality(S \union {x}) = a * Cardinality(S) + a
<1>1. /\ IsFiniteSet(S \union {x}) /\ Cardinality(S \union {x}) = Cardinality(S) + 1
      /\ Cardinality(S) \in Nat
  BY FS_AddElement, FS_CardinalityType
<1> QED BY <1>1

LEMMA MoneyCredits ==
  ASSUME Inv, Money, NEW w \in Workers, CreditTopUp(w) \/ CreditBonus(w)
  PROVE  Money'
<1> DEFINE p == worker[w].topUp
<1>1. TopUpTypes /\ UNCHANGED <<orderVars, paid>>
  BY DEF Inv, CreditTopUp, CreditBonus
<1>2. Held' = Held /\ order' = order /\ banked' = banked
  BY <1>1 DEF Held, OpenRequests, orderVars
<1>3. /\ Holdings = Sources /\ credited \subseteq paid
      /\ IsFiniteSet(credited) /\ IsFiniteSet(bonused)
  BY MoneyParts DEF Money
<1>4. ASSUME NEW v \in Workers, worker'[v] # NoTask, worker'[v].at \in {"finalize", "credit"}
      PROVE  worker'[v].topUp \in paid'
  <2>1. CASE Stops(w)
    BY <1>1, <1>4, <2>1, WorkerSet DEF Stops, Money
  <2>2. CASE CreditTopUp(w) /\ Then(w, "redeem")
    <3> DEFINE t == [worker[w] EXCEPT !.at = "redeem"]
    <3>1. t \in Tasks /\ t.at = "redeem" /\ Goes(w, t)
      BY <1>1, <2>2, HeldTask DEF CreditTopUp, Then
    <3> HIDE DEF t
    <3> QED BY <1>1, <1>4, <3>1, WorkerSet DEF Money
  <2> QED BY <2>1, <2>2 DEF CreditTopUp, CreditBonus
<1>5. CASE CreditTopUp(w)
  <2>1. p \in paid /\ bonused' = bonused /\ credited' = credited \union {p}
    BY <1>5 DEF CreditTopUp, At, Money
  <2>2. CASE p \in credited
    <3>1. credited' = credited /\ balance' = balance
      BY <1>5, <2>1, <2>2 DEF CreditTopUp, ledger
    <3>2. Holdings' = Holdings /\ Sources' = Sources
      BY <1>2, <2>1, <3>1 DEF Holdings, Sources
    <3> QED BY <1>1, <1>2, <1>3, <1>4, <2>1, <3>1, <3>2
            DEF Money, MoneyConserved, Holdings, Sources
  <2>3. CASE p \notin credited
    <3>1. balance' = balance + TopUpAmount
      BY <1>5, <2>3 DEF CreditTopUp, CreditWallet
    <3>2. /\ IsFiniteSet(credited')
          /\ TopUpAmount * Cardinality(credited') = TopUpAmount * Cardinality(credited) + TopUpAmount
          /\ TopUpAmount * Cardinality(credited) \in Nat /\ Bonus * Cardinality(bonused) \in Nat
      <4>1. Bonus \in Nat /\ TopUpAmount \in Nat
        BY AmountsAssumption
      <4>2. /\ IsFiniteSet(credited \union {p})
            /\ TopUpAmount * Cardinality(credited \union {p}) = TopUpAmount * Cardinality(credited) + TopUpAmount
        BY <1>3, <2>3, <4>1, OneMore
      <4>3. TopUpAmount * Cardinality(credited) \in Nat /\ Bonus * Cardinality(bonused) \in Nat
        BY <1>3, <4>1, TimesCount
      <4> QED BY <2>1, <4>2, <4>3
    <3>3. Holdings' = Holdings + TopUpAmount
      BY <1>2, <3>1, Numbers DEF Holdings
    <3>4. Sources' = Sources + TopUpAmount
      BY <2>1, <3>2, AmountsAssumption DEF Sources
    <3> QED BY <1>1, <1>2, <1>3, <1>4, <2>1, <3>2, <3>3, <3>4
            DEF Money, MoneyConserved, Holdings, Sources
  <2> QED BY <2>2, <2>3
<1>6. CASE CreditBonus(w)
  <2>1. credited' = credited /\ bonused' = bonused \union {p}
    BY <1>6 DEF CreditBonus
  <2>2. CASE p \in bonused
    <3>1. bonused' = bonused /\ balance' = balance
      BY <1>6, <2>1, <2>2 DEF CreditBonus, ledger
    <3>2. Holdings' = Holdings /\ Sources' = Sources
      BY <1>2, <2>1, <3>1 DEF Holdings, Sources
    <3> QED BY <1>1, <1>2, <1>3, <1>4, <2>1, <3>1, <3>2
            DEF Money, MoneyConserved, Holdings, Sources
  <2>3. CASE p \notin bonused
    <3>1. balance' = balance + Bonus
      BY <1>6, <2>3 DEF CreditBonus, CreditWallet
    <3>2. /\ IsFiniteSet(bonused')
          /\ Bonus * Cardinality(bonused') = Bonus * Cardinality(bonused) + Bonus
          /\ TopUpAmount * Cardinality(credited) \in Nat /\ Bonus * Cardinality(bonused) \in Nat
      <4>1. Bonus \in Nat /\ TopUpAmount \in Nat
        BY AmountsAssumption
      <4>2. /\ IsFiniteSet(bonused \union {p})
            /\ Bonus * Cardinality(bonused \union {p}) = Bonus * Cardinality(bonused) + Bonus
        BY <1>3, <2>3, <4>1, OneMore
      <4>3. TopUpAmount * Cardinality(credited) \in Nat /\ Bonus * Cardinality(bonused) \in Nat
        BY <1>3, <4>1, TimesCount
      <4> QED BY <2>1, <4>2, <4>3
    <3>3. Holdings' = Holdings + Bonus
      BY <1>2, <3>1, Numbers DEF Holdings
    <3>4. Sources' = Sources + Bonus
      BY <2>1, <3>2, AmountsAssumption DEF Sources
    <3> QED BY <1>1, <1>2, <1>3, <1>4, <2>1, <3>2, <3>3, <3>4
            DEF Money, MoneyConserved, Holdings, Sources
  <2> QED BY <2>2, <2>3
<1> QED BY <1>5, <1>6

\* A step of the order or its refunds that moves money between its places.
LEMMA MoneyMoves ==
  ASSUME Inv, Money, UNCHANGED topUpVars, order'.status = "NONE" => order'.left = 0,
         Holdings' = Holdings
  PROVE  Money'
<1>1. /\ credited' = credited /\ bonused' = bonused /\ paid' = paid /\ worker' = worker
  BY DEF topUpVars
<1> QED BY <1>1, SourcesKept

\* A new entry has no request.
LEMMA EntryHoldsNothing ==
  ASSUME OrderTypes, OrderTypes', NEW changed \in Seq(Entries), NEW amount,
         Len(changed) = Len(refunds),
         refunds' = Append(changed, [amount |-> amount, request |-> "NONE", sent |-> 0])
  PROVE  /\ OpenRequests' = {j \in DOMAIN refunds : changed[j].request \in Open}
         /\ \A j \in DOMAIN refunds : refunds'[j] = changed[j]
<1> DEFINE e == [amount |-> amount, request |-> "NONE", sent |-> 0]
<1>1. e.request \notin Open
  BY DEF Open
<1>2. /\ DOMAIN changed = DOMAIN refunds /\ DOMAIN refunds = 1..Len(refunds) /\ Len(refunds) \in Nat
  BY DEF OrderTypes
<1> HIDE DEF e
<1>3. /\ DOMAIN refunds' = 1..(Len(refunds) + 1)
      /\ refunds'[Len(refunds) + 1] = e
      /\ \A j \in 1..Len(refunds) : refunds'[j] = changed[j]
  BY <1>2 DEF e
<1> QED BY <1>1, <1>2, <1>3 DEF OpenRequests

LEMMA EnterHolds ==
  ASSUME OrderTypes, OrderTypes', NEW amount, Enter(amount)
  PROVE  Held' = Held
<1>1. refunds \in Seq(Entries) /\ refunds' = Append(refunds, [amount |-> amount, request |-> "NONE", sent |-> 0])
  BY DEF OrderTypes, Enter
<1>2. /\ OpenRequests' = OpenRequests
      /\ \A j \in DOMAIN refunds : refunds'[j] = refunds[j]
  BY <1>1, EntryHoldsNothing DEF OpenRequests
<1> QED BY <1>2, HeldSame, OpenOnes

LEMMA MoneyOrder ==
  ASSUME Inv, Inv', Money, Checkout \/ RemoveLine \/ \E charge \in Charges : CancelOrder(charge)
  PROVE  Money'
<1>1. /\ UNCHANGED topUpVars /\ banked' = banked /\ OrderTypes /\ OrderTypes'
  BY DEF Checkout, RemoveLine, CancelOrder, Inv
<1>2. ASSUME NEW amount, RefundDebit(amount) PROVE Held' = Held /\ balance' = balance + amount
                                                  /\ amount \in Int
  BY <1>1, <1>2, EnterHolds DEF RefundDebit, CreditWallet, OrderTypes
<1>3. CASE Checkout
  <2>1. order.left = 0 /\ order'.left = Price /\ balance' = balance - Price
        /\ refunds' = refunds /\ order'.status # "NONE"
    BY <1>3 DEF Checkout, DebitWallet, Money
  <2>2. Held' = Held
    BY <2>1 DEF Held, OpenRequests
  <2>3. Holdings' = Holdings
    BY <1>1, <2>1, <2>2, Numbers DEF Holdings
  <2> QED BY <1>1, <2>1, <2>3, MoneyMoves
<1>4. CASE RemoveLine
  <2>1. order'.left = order.left - LineAmount /\ order'.status # "NONE"
    BY <1>1, <1>4 DEF RemoveLine, OrderTypes
  <2>2. Held' = Held /\ balance' = balance + LineAmount
    BY <1>2, <1>4 DEF RemoveLine
  <2>3. Holdings' = Holdings
    BY <1>1, <2>1, <2>2, Numbers DEF Holdings
  <2> QED BY <1>1, <2>1, <2>3, MoneyMoves
<1>5. ASSUME NEW charge \in Charges, CancelOrder(charge) PROVE Money'
  <2>1. order'.left = charge /\ order'.status # "NONE"
    BY <1>1, <1>5 DEF CancelOrder, OrderTypes
  <2>0. charge \in Int
    BY ChargesAssumption
  <2>2. Held' = Held /\ balance' = balance + (order.left - charge)
    BY <1>2, <1>5 DEF CancelOrder
  <2>3. Holdings' = Holdings
    BY <1>1, <2>0, <2>1, <2>2, Numbers DEF Holdings
  <2> QED BY <1>1, <2>1, <2>3, MoneyMoves
<1> QED BY <1>3, <1>4, <1>5

LEMMA MoneyRequests ==
  ASSUME Inv, Inv', Money, NEW i \in DOMAIN refunds,
         RequestBankRefund(i) \/ CancelBankRefund(i) \/ Process(i) \/ Pay(i) \/ Fail(i)
  PROVE  Money'
<1>1. /\ UNCHANGED topUpVars /\ OrderTypes /\ OrderTypes'
      /\ order'.left = order.left /\ order'.status = order.status
  BY DEF RequestBankRefund, CancelBankRefund, Process, Pay, Fail, Return, Inv, OrderTypes
<1>2. /\ refunds[i] \in Entries /\ refunds[i].sent \in Int /\ Sendable(i) \in Int
      /\ i \in OpenRequests <=> refunds[i].request \in Open
  BY <1>1, SendableIsPart, AmountsAssumption DEF Inv, Entries, OpenRequests
<1>3. ASSUME Holdings' = Holdings PROVE Money'
  BY <1>1, <1>3, MoneyMoves DEF Money
<1>4. CASE RequestBankRefund(i)
  <2>1. /\ balance' = balance - Sendable(i) /\ banked' = banked
        /\ refunds[i].request = "NONE"
        /\ DOMAIN refunds' = DOMAIN refunds
        /\ \A j \in DOMAIN refunds \ {i} : refunds'[j] = refunds[j]
        /\ refunds'[i].request = "REQUESTED" /\ refunds'[i].sent = Sendable(i)
    BY <1>1, <1>2, <1>4 DEF RequestBankRefund, DebitWallet, OrderTypes, Entries
  <2>2. i \notin OpenRequests /\ OpenRequests' = OpenRequests \union {i}
    BY <1>2, <2>1 DEF OpenRequests, Open
  <2>3. \A j \in OpenRequests : refunds'[j].sent = refunds[j].sent
    BY <2>1, <2>2 DEF OpenRequests
  <2>4. Held' = Held + Sendable(i)
    BY <1>1, <2>1, <2>2, <2>3, HeldMore
  <2>5. Holdings' = Holdings
    BY <1>1, <1>2, <2>1, <2>4, Numbers DEF Holdings
  <2> QED BY <1>3, <2>5
<1>5. ASSUME NEW why \in Requests \ Open, Return(i, why), refunds[i].request \in Open PROVE Money'
  <2> DEFINE changed == [refunds EXCEPT ![i].request = why]
  <2>1. /\ balance' = balance + refunds[i].sent /\ banked' = banked
        /\ refunds' = Append(changed, [amount |-> refunds[i].sent, request |-> "NONE", sent |-> 0])
    BY <1>5 DEF Return, CreditWallet
  <2>2. changed \in Seq(Entries) /\ Len(changed) = Len(refunds)
    BY <1>1, <1>5, RequestMoves
  <2>3. /\ \A j \in DOMAIN refunds \ {i} : changed[j] = refunds[j]
        /\ changed[i].request = why /\ changed[i].sent = refunds[i].sent
    BY <1>1, <1>2 DEF OrderTypes, Entries
  <2> HIDE DEF changed
  <2>4. /\ OpenRequests' = {j \in DOMAIN refunds : changed[j].request \in Open}
        /\ \A j \in DOMAIN refunds : refunds'[j] = changed[j]
    BY <1>1, <2>1, <2>2, EntryHoldsNothing
  <2>5. i \in OpenRequests /\ OpenRequests' = OpenRequests \ {i}
        /\ \A j \in OpenRequests : refunds'[j].sent = refunds[j].sent
    BY <1>5, <2>3, <2>4 DEF OpenRequests
  <2>6. Held = Held' + refunds[i].sent /\ Held' \in Int
    BY <1>1, <2>5, HeldLess
  <2>7. Holdings' = Holdings
    <3>1. balance' = balance + refunds[i].sent /\ banked' = banked
      BY <2>1
    <3> QED BY <1>1, <1>2, <2>6, <3>1, Numbers DEF Holdings
  <2> QED BY <1>3, <2>7
<1>6. ASSUME NEW to \in Requests, refunds' = [refunds EXCEPT ![i].request = to]
      PROVE  /\ DOMAIN refunds' = DOMAIN refunds
             /\ \A j \in DOMAIN refunds \ {i} : refunds'[j] = refunds[j]
             /\ refunds'[i].request = to /\ \A j \in DOMAIN refunds : refunds'[j].sent = refunds[j].sent
  BY <1>1, <1>2, <1>6 DEF OrderTypes, Entries
<1>7. CASE Process(i)
  <2>1. "PROCESSING" \in Requests /\ balance' = balance /\ banked' = banked
    BY <1>7 DEF Process, Requests, ledger
  <2>2. OpenRequests' = OpenRequests /\ \A j \in OpenRequests : refunds'[j].sent = refunds[j].sent
    BY <1>6, <1>7, <2>1 DEF Process, OpenRequests, Open
  <2>3. Held' = Held
    BY <1>1, <2>2, HeldSame
  <2>4. Holdings' = Holdings
    BY <1>1, <2>1, <2>3 DEF Holdings
  <2> QED BY <1>3, <2>4
<1>8. CASE Pay(i)
  <2>1. /\ "PAID" \in Requests /\ balance' = balance /\ banked' = banked + refunds[i].sent
    BY <1>8 DEF Pay, Requests, ledger
  <2>2. /\ i \in OpenRequests /\ OpenRequests' = OpenRequests \ {i}
        /\ \A j \in OpenRequests : refunds'[j].sent = refunds[j].sent
    BY <1>2, <1>6, <1>8, <2>1 DEF Pay, Undecided, OpenRequests, Open
  <2>3. Held = Held' + refunds[i].sent /\ Held' \in Int
    BY <1>1, <2>2, HeldLess
  <2>4. Holdings' = Holdings
    BY <1>1, <1>2, <2>1, <2>3, Numbers DEF Holdings
  <2> QED BY <1>3, <2>4
<1>9. CASE CancelBankRefund(i) \/ Fail(i)
  BY <1>5, <1>9 DEF CancelBankRefund, Fail, Undecided, Requests, Open
<1> QED BY <1>4, <1>7, <1>8, <1>9

LEMMA MoneyStep == Inv /\ Inv' /\ Money /\ [Next]_vars => Money'
<1> SUFFICES ASSUME Inv, Inv', Money, [Next]_vars PROVE Money'
  OBVIOUS
<1>1. CASE UNCHANGED vars
  <2>1. UNCHANGED <<ledger, topUpVars, orderVars>>
    BY <1>1 DEF vars
  <2>2. Holdings' = Holdings /\ order' = order
    BY <2>1 DEF Holdings, Held, OpenRequests, ledger, orderVars
  <2> QED BY <2>1, <2>2, MoneyMoves DEF Money
<1>2. CASE Next
  BY <1>2, MoneyAside, MoneyCredits, MoneyOrder, MoneyRequests DEF Next
<1> QED BY <1>1, <1>2

LEMMA MoneyInit == Init => Money
<1> SUFFICES ASSUME Init PROVE Money
  OBVIOUS
<1>1. Held = 0
  <2>1. OpenRequests = {}
    BY DEF Init, OpenRequests
  <2> QED BY <2>1, SumOfEmpty DEF Held
<1>2. /\ IsFiniteSet(credited) /\ IsFiniteSet(bonused)
      /\ Cardinality(credited) = 0 /\ Cardinality(bonused) = 0
  BY FS_EmptySet DEF Init
<1>3. MoneyConserved
  BY <1>1, <1>2, AmountsAssumption DEF Init, MoneyConserved
<1> QED BY <1>2, <1>3 DEF Init, Money

\* No unit is lost or made between the top-ups, the wallet, the order, bank
\* requests and the bank, for any number of top-ups, workers and refunds.
THEOREM NoMoneyIsLost == Spec => []MoneyConserved
<1>1. Money => MoneyConserved
  BY DEF Money
<1> QED BY <1>1, MoneyInit, MoneyStep, InvHolds, PTL DEF Spec
=============================================================================
