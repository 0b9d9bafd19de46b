------------------------- MODULE OrderRefundsProofs -------------------------
(***************************************************************************)
(* Theorems about OrderRefunds for any number of refunds, workers and      *)
(* tries: what was refunded is what the gateway settled and within the     *)
(* price; no more is refunded twice than there were database errors; a     *)
(* cancelled order whose lines were refunded to the wallet shows REFUNDED  *)
(* only when its money is back and never waits for nothing.                *)
(***************************************************************************)
EXTENDS OrderRefunds, SumTheorems

Rows == [status : {"NONE", "REQUESTED"} \union Outcomes, method : {"ORIGINAL", "WALLET"},
         amount : 0..Price, attempts : 0..MaxGatewayAttempts]
Pays == [status : {"NONE", "PENDING"} \union Final, submitted : BOOLEAN]
Works == [refund : Refunds, at : {"record", "send", "mark", "settle", "finish", "commit"},
          outcome : Outcomes \union {"PENDING"}, last : BOOLEAN,
          aftercare : BOOLEAN, closes : BOOLEAN]

\* TypeOK but for the bound of what was refunded, which rests on sums.
Typed ==
  /\ order \in {"CONFIRMED", "CANCELLED", "REFUND_PENDING", "REFUNDED"}
  /\ total \in 0..Price
  /\ refund \in [Refunds -> Rows]
  /\ pay \in [Refunds -> Pays]
  /\ bank \in [Refunds -> {"NONE", "PENDING"} \union Final]
  /\ refunded \in Nat
  /\ wallet \subseteq Refunds
  /\ worker \in [Workers -> {NoTask} \union Works]
  /\ faults \in 0..MaxFaults

\* A refund nobody asked for has no amount and no record, and work in progress
\* is about one that gives money back.
TaskAsked(t) == t # NoTask => refund[t.refund].status # "NONE" /\ refund[t.refund].amount > 0
Asked ==
  /\ \A r \in Refunds : refund[r].status = "NONE" =>
       refund[r].amount = 0 /\ pay[r].status = "NONE" /\ r \notin wallet
  /\ \A r \in Refunds : refund[r].status \in {"REQUESTED", "PROCESSING"} => refund[r].amount > 0
  /\ \A r \in Refunds : pay[r].status # "NONE" => refund[r].amount > 0
  /\ \A w \in Workers : TaskAsked(worker[w])

\* What a worker and the payment's record hold as final is so at the gateway,
\* where it stays.
TaskTrue(t) ==
  t # NoTask =>
    /\ t.at \in {"send", "mark", "settle"} => pay[t.refund].status # "NONE"
    /\ t.at = "mark" => t.outcome \in Final \union {"PENDING"}
    /\ t.at = "settle" => t.outcome \in Final
    /\ t.at \in {"finish", "commit"} => t.outcome \in Outcomes
    /\ t.at \in {"mark", "settle"} /\ t.outcome \in Final => bank[t.refund] = t.outcome
RecordIsTrue ==
  /\ \A r \in Refunds : pay[r].status \in Final => bank[r] = pay[r].status
  /\ \A r \in Refunds : pay[r].status = "NONE" => bank[r] = "NONE"
  /\ \A w \in Workers : TaskTrue(worker[w])

Done == {r \in Refunds : pay[r].status = "SUCCESS"}

\* The refunds of an order share what was paid; the payment's total is that of
\* the refunds settled.
Shared ==
  /\ Sum(Refunds) <= Price
  /\ order = "CONFIRMED" => Sum(Refunds) + total = Price
  /\ refunded = Sum(Done)

Inv == Typed /\ Asked /\ RecordIsTrue /\ Shared

\* A refund is given up only when the gateway has refused it, and only then the
\* wallet is credited for it; a database error can put a refund in doubt.
TaskGivenUp(t, q) ==
  t # NoTask /\ t.refund = q =>
    /\ q \in wallet => bank[q] = "FAILED"
    /\ t.at \in {"finish", "commit"} /\ t.outcome = "FAILED" => bank[q] = "FAILED"
GivenUp(q) ==
  /\ \A w \in Workers : TaskGivenUp(worker[w], q)
  /\ q \in wallet => \/ bank[q] = "FAILED"
                     \/ refund[q].status = "SUCCESS" /\ pay[q].status = "NONE"

\* A refund somebody works on, with a record or PROCESSING was tried; one that
\* went to the wallet without a try is complete.
TaskTried(t) == t # NoTask => refund[t.refund].attempts > 0
TriedOf(r) ==
  /\ pay[r].status # "NONE" \/ refund[r].status = "PROCESSING" => refund[r].attempts > 0
  /\ refund[r].method = "WALLET" /\ refund[r].attempts = 0 =>
       /\ refund[r].status \in {"NONE", "SUCCESS"}
       /\ refund[r].amount = 0 \/ r \in wallet
Tried == (\A r \in Refunds : TriedOf(r)) /\ \A w \in Workers : TaskTried(worker[w])

\* The refunds other than the cancellation's went to the wallet when they were
\* asked for; then the cancellation's is the only one there is work on.
AtOnce(r) ==
  refund[r].status = "NONE" \/ (refund[r].method = "WALLET" /\ refund[r].attempts = 0)
OthersAtOnce == \A r \in Refunds \ {CancelRefund} : AtOnce(r)
OnlyCancel ==
  /\ \A w \in Workers : worker[w] # NoTask => worker[w].refund = CancelRefund
  /\ \A r \in Refunds \ {CancelRefund} :
       /\ pay[r].status = "NONE"
       /\ refund[r].status = "NONE" \/ (refund[r].status = "SUCCESS" /\ GivenBack(r))

\* Then a success on its way to the cancellation's refund is the gateway's, the
\* order is REFUNDED only with that money back, and it waits only while that
\* refund is open.
TaskSuccess(t) ==
  t # NoTask /\ t.at \in {"finish", "commit"} /\ t.outcome = "SUCCESS" => bank[t.refund] = "SUCCESS"
TaskCloses(t) ==
  t # NoTask /\ t.at = "commit" /\ order = "REFUND_PENDING" => t.closes
CancelGivenBack ==
  order = "REFUNDED" => refund[CancelRefund].status = "NONE" \/ GivenBack(CancelRefund)
WaitsForOne ==
  order = "REFUND_PENDING" => refund[CancelRefund].status \in {"REQUESTED", "PROCESSING"}
OneInv == /\ CancelGivenBack /\ WaitsForOne
          /\ \A w \in Workers : TaskSuccess(worker[w]) /\ TaskCloses(worker[w])

-----------------------------------------------------------------------------
(* Sums.                                                                   *)

LEMMA AmountIsNat ==
  ASSUME Typed
  PROVE  \A r \in Refunds : Amount[r] \in Nat /\ Amount[r] \in Int /\ Amount[r] = refund[r].amount
<1>1. \A r \in Refunds : refund[r].amount \in 0..Price
  BY DEF Typed, Rows
<1> QED BY <1>1, AmountsAssumption DEF Amount

LEMMA SumsOfParts ==
  ASSUME Typed, NEW S \in SUBSET Refunds
  PROVE  IsFiniteSet(S) /\ Sum(S) \in Nat /\ Sum(S) <= Sum(Refunds)
<1>1. IsFiniteSet(S) /\ \A r \in S : Amount[r] \in Nat
  BY RefundsAssumption, FS_Subset, AmountIsNat
<1> QED BY <1>1, SumIsNat, SumOfPart, AmountIsNat, RefundsAssumption DEF Sum

\* A refund that is not among those of S leaves them that much less.
LEMMA RoomForOne ==
  ASSUME Typed, NEW S \in SUBSET Refunds, NEW r \in Refunds \ S
  PROVE  Sum(S \union {r}) = refund[r].amount + Sum(S) /\ refund[r].amount + Sum(S) <= Sum(Refunds)
<1>1. IsFiniteSet(S) /\ \A q \in S \union {r} : Amount[q] \in Int
  BY RefundsAssumption, FS_Subset, AmountIsNat
<1>2. Sum(S \union {r}) = Amount[r] + Sum(S)
  BY <1>1, SumWith DEF Sum
<1> QED BY <1>2, SumsOfParts, AmountIsNat

LEMMA SharedKept ==
  ASSUME Shared, Amount' = Amount, Done' = Done, total' = total, refunded' = refunded,
         order' = "CONFIRMED" => order = "CONFIRMED"
  PROVE  Shared'
BY DEF Shared, Sum

LEMMA InitInv == Init => Inv
<1> SUFFICES ASSUME Init PROVE Inv
  OBVIOUS
<1> USE AmountsAssumption, FaultsAssumption, AttemptsAssumption
<1>1. Typed
  BY DEF Init, Typed, Rows, Pays, Outcomes, Final
<1>2. Asked /\ RecordIsTrue
  BY DEF Init, Asked, RecordIsTrue, TaskAsked, TaskTrue, Final
<1>3. Shared
  <2> DEFINE zero == [r \in Refunds |-> 0]
  <2>1. Amount = zero
    BY DEF Amount, Init
  <2>2. \A S \in SUBSET Refunds : Sum(S) = 0
    <3> SUFFICES ASSUME NEW S \in SUBSET Refunds PROVE Sum(S) = 0
      OBVIOUS
    <3>1. Sum(Refunds) \in Nat /\ Sum(S) \in Nat /\ Sum(S) <= Sum(Refunds)
      BY <1>1, SumsOfParts
    <3>2. Sum(Refunds) = 0
      BY <2>1, RefundsAssumption, SumOfZeroes DEF Sum
    <3> QED BY <3>1, <3>2
  <2>3. Done \in SUBSET Refunds
    BY DEF Done
  <2> QED BY <2>2, <2>3 DEF Init, Shared
<1> QED BY <1>1, <1>2, <1>3 DEF Inv

-----------------------------------------------------------------------------
(* Steps that change only what a worker holds.                             *)

Rest == <<order, total, refund, pay, bank, refunded, wallet>>
Tasks == {NoTask} \union Works

LEMMA WorkersTyped ==
  ASSUME Typed, NEW w \in Workers, NEW t \in Tasks, Goes(w, t)
  PROVE  /\ worker' \in [Workers -> Tasks]
         /\ worker'[w] = t
         /\ \A v \in Workers \ {w} : worker'[v] = worker[v]
BY DEF Typed, Goes, Tasks

LEMMA WorkGoesOn ==
  ASSUME Inv, NEW w \in Workers, NEW t \in Tasks, Goes(w, t), TaskAsked(t), TaskTrue(t),
         UNCHANGED Rest, faults' \in 0..MaxFaults
  PROVE  Inv'
<1>1. Typed'
  BY WorkersTyped DEF Inv, Typed, Rest, Tasks
<1>2. \A v \in Workers : TaskAsked(worker[v])' /\ TaskTrue(worker[v])'
  <2>1. TaskAsked(t)' /\ TaskTrue(t)'
    BY DEF TaskAsked, TaskTrue, Rest
  <2>2. ASSUME NEW v \in Workers \ {w} PROVE TaskAsked(worker[v])' /\ TaskTrue(worker[v])'
    BY <2>2, WorkersTyped DEF Inv, Asked, RecordIsTrue, TaskAsked, TaskTrue, Rest
  <2>3. TaskAsked(worker[w])' /\ TaskTrue(worker[w])'
    BY <2>1, WorkersTyped DEF Inv, TaskAsked, TaskTrue, Rest
  <2> QED BY <2>2, <2>3
<1>3. Asked' /\ RecordIsTrue'
  BY <1>2 DEF Inv, Asked, RecordIsTrue, Rest
<1>4. Shared'
  BY SharedKept DEF Inv, Amount, Done, Rest
<1> QED BY <1>1, <1>3, <1>4 DEF Inv

\* The task of a worker at work, and what may become of it.
LEMMA TaskOf ==
  ASSUME Inv, NEW w \in Workers, worker[w] # NoTask
  PROVE  /\ worker[w] \in Works /\ worker[w].refund \in Refunds
         /\ TaskAsked(worker[w]) /\ TaskTrue(worker[w])
         /\ refund[worker[w].refund] \in Rows /\ pay[worker[w].refund] \in Pays
BY DEF Inv, Typed, Asked, RecordIsTrue, Works

LEMMA NoTaskIsRight == NoTask \in Tasks /\ TaskAsked(NoTask) /\ TaskTrue(NoTask)
BY DEF Tasks, TaskAsked, TaskTrue

LEMMA NewWork ==
  ASSUME Inv, NEW r \in Refunds, NEW at \in {"record", "send", "settle", "finish"},
         NEW outcome \in Outcomes \union {"PENDING"}, NEW last \in BOOLEAN, NEW aftercare \in BOOLEAN
  PROVE  /\ Work(r, at, outcome, last, aftercare) \in Works
         /\ Work(r, at, outcome, last, aftercare).refund = r
         /\ Work(r, at, outcome, last, aftercare).at = at
         /\ Work(r, at, outcome, last, aftercare).outcome = outcome
BY DEF Work, Works

\* A task told an outcome, or sent on to another step before the settling.
LEMMA TaskSteps ==
  ASSUME Inv, NEW w \in Workers, worker[w] # NoTask, NEW outcome \in Outcomes
  PROVE  /\ [worker[w] EXCEPT !.at = "finish", !.outcome = outcome] \in Tasks
         /\ TaskAsked([worker[w] EXCEPT !.at = "finish", !.outcome = outcome])
         /\ TaskTrue([worker[w] EXCEPT !.at = "finish", !.outcome = outcome])
<1> DEFINE t == [worker[w] EXCEPT !.at = "finish", !.outcome = outcome]
<1>1. t \in Works /\ t.refund = worker[w].refund /\ t.at = "finish" /\ t.outcome = outcome
  BY TaskOf DEF Works
<1> HIDE DEF t
<1>2. TaskAsked(t) /\ TaskTrue(t)
  BY <1>1, TaskOf DEF TaskAsked, TaskTrue
<1> QED BY <1>1, <1>2 DEF Tasks, t

LEMMA ToldStep ==
  ASSUME Inv, NEW w \in Workers, worker[w] # NoTask, UNCHANGED Rest, faults' \in 0..MaxFaults,
         \/ AfterError(w)
         \/ \E outcome \in Outcomes : Tells(w, outcome)
         \/ Stops(w)
  PROVE  Inv'
<1>1. CASE Stops(w)
  BY <1>1, NoTaskIsRight, WorkGoesOn DEF Stops
<1>2. ASSUME NEW outcome \in Outcomes,
             Goes(w, [worker[w] EXCEPT !.at = "finish", !.outcome = outcome])
      PROVE  Inv'
  BY <1>2, TaskSteps, WorkGoesOn
<1>3. CASE AfterError(w)
  <2>1. "FAILED" \in Outcomes
    BY DEF Outcomes
  <2> QED BY <1>1, <1>2, <1>3, <2>1 DEF AfterError
<1>4. CASE \E outcome \in Outcomes : Tells(w, outcome)
  BY <1>1, <1>2, <1>4 DEF Tells
<1> QED BY <1>1, <1>3, <1>4

LEMMA FaultsStay == Inv => faults \in 0..MaxFaults
BY DEF Inv, Typed

LEMMA FaultStep ==
  ASSUME Inv, NEW w \in Workers, Fault(w)
  PROVE  Inv'
<1>1. worker[w] # NoTask /\ UNCHANGED Rest
  BY DEF Fault, At, Rest
<1>2. faults' \in 0..MaxFaults
  BY FaultsStay, FaultsAssumption DEF Fault
<1>3. "PROCESSING" \in Outcomes
  BY DEF Outcomes
<1> QED BY <1>1, <1>2, <1>3, ToldStep DEF Fault

LEMMA CrashStep ==
  ASSUME Inv, NEW w \in Workers, Crash(w)
  PROVE  Inv'
BY ToldStep, FaultsStay DEF Crash, Rest

LEMMA FinishReadStep ==
  ASSUME Inv, NEW w \in Workers, FinishRead(w)
  PROVE  Inv'
<1>1. worker[w] # NoTask /\ worker[w].at = "finish" /\ UNCHANGED Rest /\ faults' \in 0..MaxFaults
  BY FaultsStay DEF FinishRead, At, Rest
<1>2. CASE Stops(w)
  BY <1>1, <1>2, ToldStep
<1>3. ASSUME NEW closes \in BOOLEAN, Goes(w, [worker[w] EXCEPT !.at = "commit", !.closes = closes])
      PROVE  Inv'
  <2> DEFINE t == [worker[w] EXCEPT !.at = "commit", !.closes = closes]
  <2>1. t \in Works /\ t.refund = worker[w].refund /\ t.at = "commit" /\ t.outcome = worker[w].outcome
    BY <1>1, TaskOf DEF Works
  <2>2. TaskAsked(t) /\ TaskTrue(t) /\ t \in Tasks
    <3> HIDE DEF t
    <3> QED BY <1>1, <2>1, TaskOf DEF TaskAsked, TaskTrue, Tasks
  <2> QED BY <1>1, <1>3, <2>2, WorkGoesOn
<1> QED BY <1>2, <1>3 DEF FinishRead

LEMMA JobStep ==
  ASSUME Inv, NEW w \in Workers, NEW r \in Refunds,
         SendUnsent(w, r) \/ FetchRefund(w, r) \/ SweepProcessing(w, r)
  PROVE  Inv'
<1>1. UNCHANGED Rest /\ faults' \in 0..MaxFaults
  BY FaultsStay DEF SendUnsent, FetchRefund, SweepProcessing, Rest
<1>2. ASSUME NEW at \in {"record", "send", "settle", "finish"}, NEW outcome \in Outcomes \union {"PENDING"},
             NEW aftercare \in BOOLEAN, Goes(w, Work(r, at, outcome, FALSE, aftercare)),
             refund[r].status # "NONE" /\ refund[r].amount > 0,
             at = "send" => pay[r].status # "NONE", at = "finish" => outcome \in Outcomes,
             at = "settle" => pay[r].status # "NONE" /\ outcome \in Final /\ bank[r] = outcome
      PROVE  Inv'
  <2> DEFINE t == Work(r, at, outcome, FALSE, aftercare)
  <2>1. t \in Works /\ t.refund = r /\ t.at = at /\ t.outcome = outcome
    BY NewWork DEF Works, Work
  <2> HIDE DEF t
  <2>2. TaskAsked(t) /\ TaskTrue(t) /\ t \in Tasks
    BY <1>2, <2>1 DEF TaskAsked, TaskTrue, Tasks
  <2> QED BY <1>1, <1>2, <2>2, WorkGoesOn DEF t
<1>3. CASE SendUnsent(w, r)
  BY <1>2, <1>3 DEF SendUnsent, Inv, Asked
<1>4. CASE FetchRefund(w, r)
  BY <1>2, <1>4 DEF FetchRefund, Inv, Asked, Final, Outcomes
<1>5. CASE SweepProcessing(w, r)
  BY <1>2, <1>5 DEF SweepProcessing, Inv, Asked, Outcomes
<1> QED BY <1>3, <1>4, <1>5

-----------------------------------------------------------------------------
(* Steps that change a refund, its record or the gateway's.                *)

\* Refunds are asked for once, records and the gateway's word go forward.
Forward ==
  \A r \in Refunds :
    /\ refund[r].status # "NONE" => refund'[r].status # "NONE" /\ refund'[r].amount = refund[r].amount
    /\ pay[r].status # "NONE" => pay'[r].status # "NONE"
    /\ bank[r] \in Final => bank'[r] = bank[r]

LEMMA TasksKept ==
  ASSUME Inv, Forward,
         \A w \in Workers : worker'[w] = worker[w] \/ (TaskAsked(worker[w])' /\ TaskTrue(worker[w])')
  PROVE  \A w \in Workers : TaskAsked(worker[w])' /\ TaskTrue(worker[w])'
<1> SUFFICES ASSUME NEW w \in Workers, worker'[w] = worker[w], worker[w] # NoTask
             PROVE  TaskAsked(worker[w])' /\ TaskTrue(worker[w])'
  BY DEF TaskAsked, TaskTrue
<1>1. worker[w].refund \in Refunds /\ TaskAsked(worker[w]) /\ TaskTrue(worker[w])
  BY TaskOf
<1>2. TaskAsked(worker[w])'
  BY <1>1 DEF TaskAsked, Forward
<1>3. TaskTrue(worker[w])'
  <2> DEFINE t == worker[w]
  <2>1. t.at \in {"send", "mark", "settle"} => pay'[t.refund].status # "NONE"
    BY <1>1 DEF TaskTrue, Forward
  <2>2. t.at \in {"mark", "settle"} /\ t.outcome \in Final => bank'[t.refund] = t.outcome
    BY <1>1 DEF TaskTrue, Forward
  <2> QED BY <1>1, <2>1, <2>2 DEF TaskTrue
<1> QED BY <1>2, <1>3

LEMMA AskStep ==
  ASSUME Inv, NEW r \in Refunds, NEW method \in Methods, NEW amount \in 0..Price,
         Ask(r, method, amount), order = "CONFIRMED", amount <= total,
         order' \in {"CONFIRMED", "CANCELLED", "REFUND_PENDING", "REFUNDED"},
         \/ total' = total - amount
         \/ total' = total /\ order' # "CONFIRMED"
  PROVE  Inv'
<1> USE AmountsAssumption
<1>1. /\ refund[r].status = "NONE" /\ refund[r].amount = 0 /\ pay[r].status = "NONE"
      /\ refund[r] \in Rows /\ method \in {"ORIGINAL", "WALLET"} /\ total \in 0..Price
  BY MethodsAssumption DEF Ask, Inv, Asked, Typed
<1>2. /\ refund'[r].amount = amount /\ refund'[r].status \in {"SUCCESS", "REQUESTED"}
      /\ refund'[r].status = "REQUESTED" => amount > 0
      /\ \A q \in Refunds \ {r} : refund'[q] = refund[q]
  BY <1>1 DEF Ask, Inv, Typed
<1>3. Typed'
  <2>1. refund' \in [Refunds -> Rows]
    BY <1>1, AttemptsAssumption DEF Ask, Inv, Typed, Rows, Outcomes
  <2>2. total' \in 0..Price /\ wallet' \subseteq Refunds
    BY <1>1 DEF Ask, Inv, Typed
  <2> QED BY <2>1, <2>2 DEF Ask, Inv, Typed
<1>4. Forward /\ pay' = pay /\ bank' = bank /\ worker' = worker
  BY <1>1, <1>2 DEF Ask, Forward
<1>5. Asked' /\ RecordIsTrue'
  <2>1. \A w \in Workers : TaskAsked(worker[w])' /\ TaskTrue(worker[w])'
    BY <1>4, TasksKept
  <2>2. \A q \in Refunds \ {r} : q \in wallet' <=> q \in wallet
    BY DEF Ask
  <2> QED BY <1>1, <1>2, <1>4, <2>1, <2>2 DEF Inv, Asked, RecordIsTrue
<1>6. Shared'
  <2>1. \A q \in Refunds : Amount[q] \in Int /\ Amount'[q] \in Int
    BY <1>3, AmountIsNat DEF Inv, Typed, Rows, Amount
  <2>2. Amount[r] = 0 /\ Amount'[r] = amount /\ \A q \in Refunds \ {r} : Amount'[q] = Amount[q]
    BY <1>1, <1>2 DEF Amount
  <2>3. Sum(Refunds)' = Sum(Refunds) + amount
    <3>1. Sum(Refunds)' = Sum(Refunds) - Amount[r] + Amount'[r]
      BY <2>1, <2>2, RefundsAssumption, SumWithChange DEF Sum
    <3>2. Sum(Refunds) \in Nat
      BY SumsOfParts DEF Inv
    <3> QED BY <2>2, <3>1, <3>2
  <2>4. Done' = Done /\ Sum(Done)' = Sum(Done)
    <3>1. Done' = Done /\ Done \subseteq Refunds \ {r}
      BY <1>1, <1>4 DEF Done
    <3>2. IsFiniteSet(Done)
      BY <3>1, RefundsAssumption, FS_Subset
    <3> QED BY <2>2, <3>1, <3>2, SumsAreEqual DEF Sum
  <2>5. refunded' = refunded /\ Sum(Refunds) \in Nat
    BY SumsOfParts DEF Ask, Inv
  <2> QED BY <1>1, <2>3, <2>4, <2>5 DEF Inv, Shared
<1> QED BY <1>3, <1>5, <1>6 DEF Inv

LEMMA RefundPartStep ==
  ASSUME Inv, NEW method \in Methods, NEW r \in Refunds, RefundPart(r, method)
  PROVE  Inv'
<1>1. PartAmount \in 0..Price /\ PartAmount <= total
  BY AmountsAssumption DEF RefundPart, Inv, Typed
<1> QED BY <1>1, AskStep DEF RefundPart, TotalWithout

LEMMA CancelStep ==
  ASSUME Inv, NEW method \in Methods, NEW amount \in 0..Price, CancelOrder(method, amount)
  PROVE  Inv'
BY AskStep, CancelRefundAssumption DEF CancelOrder

LEMMA TriesBounded ==
  ASSUME NEW n \in 0..MaxGatewayAttempts
  PROVE  /\ Min({n + 1, MaxGatewayAttempts}) \in 1..MaxGatewayAttempts
         /\ Min({n + 1, MaxGatewayAttempts}) >= n
BY AttemptsAssumption DEF Min

LEMMA CountTryStep ==
  ASSUME Inv, NEW w \in Workers, NEW r \in Refunds, CountTry(w, r)
  PROVE  Inv'
<1> DEFINE tries == Min({refund[r].attempts + 1, MaxGatewayAttempts})
           t == Work(r, "record", "PENDING", tries = MaxGatewayAttempts, TRUE)
<1>1. tries \in 0..MaxGatewayAttempts /\ refund[r] \in Rows
  BY TriesBounded DEF Inv, Typed, Rows
<1>2. t \in Tasks /\ t.refund = r /\ t.at = "record"
  BY DEF Tasks, Works, Work
<1> HIDE DEF tries, t
<1>3. refund' = [refund EXCEPT ![r].attempts = tries] /\ Goes(w, t)
      /\ UNCHANGED <<order, total, pay, bank, refunded, wallet, faults>>
      /\ refund[r].status = "REQUESTED" /\ refund[r].amount > 0
  BY DEF CountTry, tries, t, Inv, Asked
<1>4. /\ refund' \in [Refunds -> Rows]
      /\ \A q \in Refunds : refund'[q].status = refund[q].status /\ refund'[q].amount = refund[q].amount
  BY <1>1, <1>3 DEF Inv, Typed, Rows
<1>5. Typed'
  BY <1>2, <1>3, <1>4, WorkersTyped DEF Inv, Typed, Tasks
<1>6. Asked' /\ RecordIsTrue'
  <2>1. Forward
    BY <1>3, <1>4 DEF Forward
  <2>2. TaskAsked(worker[w])' /\ TaskTrue(worker[w])'
    BY <1>2, <1>3, <1>4, WorkersTyped DEF Inv, TaskAsked, TaskTrue
  <2>3. \A v \in Workers : TaskAsked(worker[v])' /\ TaskTrue(worker[v])'
    BY <1>2, <1>3, <2>1, <2>2, WorkersTyped, TasksKept DEF Inv
  <2> QED BY <1>3, <1>4, <2>3 DEF Inv, Asked, RecordIsTrue
<1>7. Shared'
  <2>1. Amount' = Amount /\ Done' = Done
    BY <1>3, <1>4 DEF Amount, Done
  <2> QED BY <1>3, <2>1, SharedKept DEF Inv
<1> QED BY <1>5, <1>6, <1>7 DEF Inv

\* The payment's record of one refund changes, and what its worker holds.
LEMMA RecordTyped ==
  ASSUME Inv, NEW r \in Refunds, NEW p \in Pays, pay' = [pay EXCEPT ![r] = p],
         pay[r].status # "NONE" => p.status # "NONE",
         p.status # "NONE" => refund[r].amount > 0,
         pay[r].status \notin Final,
         p.status \in Final => bank[r] = p.status,
         p.status = "NONE" => bank[r] = "NONE",
         NEW w \in Workers, NEW t \in Tasks, Goes(w, t),
         UNCHANGED <<total, refund, bank, wallet, faults>>,
         TaskAsked(worker[w])', TaskTrue(worker[w])',
         order' \in {"CONFIRMED", "CANCELLED", "REFUND_PENDING", "REFUNDED"},
         refunded' \in Nat
  PROVE  Typed' /\ Asked' /\ RecordIsTrue' /\ pay'[r] = p
         /\ \A q \in Refunds \ {r} : pay'[q] = pay[q]
<1>1. pay' \in [Refunds -> Pays] /\ pay'[r] = p /\ \A q \in Refunds \ {r} : pay'[q] = pay[q]
  BY DEF Inv, Typed
<1>2. Typed'
  BY <1>1, WorkersTyped DEF Inv, Typed, Tasks
<1>3. \A v \in Workers : TaskAsked(worker[v])' /\ TaskTrue(worker[v])'
  <2>1. Forward
    BY <1>1 DEF Forward
  <2> QED BY <2>1, WorkersTyped, TasksKept DEF Inv
<1>4. Asked' /\ RecordIsTrue'
  <2>1. ASSUME NEW q \in Refunds
        PROVE  /\ refund'[q].status = "NONE" =>
                    refund'[q].amount = 0 /\ pay'[q].status = "NONE" /\ q \notin wallet'
               /\ refund'[q].status \in {"REQUESTED", "PROCESSING"} => refund'[q].amount > 0
               /\ pay'[q].status # "NONE" => refund'[q].amount > 0
               /\ pay'[q].status \in Final => bank'[q] = pay'[q].status
               /\ pay'[q].status = "NONE" => bank'[q] = "NONE"
    <3>1. CASE q = r
      <4>1. refund[r].status = "NONE" => p.status = "NONE"
        BY DEF Inv, Asked
      <4> QED BY <1>1, <3>1, <4>1 DEF Inv, Asked
    <3>2. CASE q # r
      BY <1>1, <3>2 DEF Inv, Asked, RecordIsTrue
    <3> QED BY <3>1, <3>2
  <2> QED BY <1>3, <2>1 DEF Asked, RecordIsTrue
<1> QED BY <1>1, <1>2, <1>4

LEMMA OneRecordKeepsSums ==
  ASSUME Inv, NEW r \in Refunds, pay'[r].status # "SUCCESS", pay[r].status # "SUCCESS",
         \A q \in Refunds \ {r} : pay'[q] = pay[q],
         UNCHANGED <<order, total, refund, refunded>>
  PROVE  Shared'
<1>1. Done' = Done /\ Amount' = Amount
  BY DEF Done, Amount
<1> QED BY <1>1, SharedKept DEF Inv

LEMMA RecordStep ==
  ASSUME Inv, NEW w \in Workers, RecordRefund(w)
  PROVE  Inv'
<1> DEFINE r == worker[w].refund
           t == [worker[w] EXCEPT !.at = "send"]
<1>1. /\ worker[w] # NoTask /\ worker[w].at = "record"
      /\ UNCHANGED <<order, total, refund, bank, refunded, wallet, faults>>
      /\ faults' \in 0..MaxFaults /\ r \in Refunds /\ pay[r] \in Pays
      /\ refund[r].status # "NONE" /\ refund[r].amount > 0
  BY TaskOf, FaultsStay DEF RecordRefund, At, TaskAsked
<1>2. t \in Works /\ t \in Tasks /\ t.refund = r /\ t.at = "send"
  BY TaskOf, <1>1 DEF Works, Tasks
<1> HIDE DEF t
<1>3. CASE pay[r].status = "NONE" /\ pay' = [pay EXCEPT ![r].status = "PENDING"] /\ Goes(w, t)
  <2> DEFINE p == [pay[r] EXCEPT !.status = "PENDING"]
  <2>1. p \in Pays /\ p.status = "PENDING" /\ pay' = [pay EXCEPT ![r] = p]
    BY <1>1, <1>3 DEF Pays, Inv, Typed
  <2>2. pay'[r] = p
    BY <1>1, <2>1 DEF Inv, Typed
  <2> HIDE DEF p
  <2>3. TaskAsked(worker[w])' /\ TaskTrue(worker[w])'
    <3>1. worker'[w].refund = r /\ worker'[w].at = "send"
      BY <1>2, <1>3, WorkersTyped DEF Inv
    <3> QED BY <1>1, <2>1, <2>2, <3>1 DEF TaskAsked, TaskTrue
  <2>4. "PENDING" \notin Final /\ "NONE" \notin Final
    BY DEF Final
  <2>5. order' \in {"CONFIRMED", "CANCELLED", "REFUND_PENDING", "REFUNDED"} /\ refunded' \in Nat
    BY <1>1 DEF Inv, Typed
  <2> HIDE DEF r
  <2>6. Typed' /\ Asked' /\ RecordIsTrue' /\ \A q \in Refunds \ {r} : pay'[q] = pay[q]
    <3>1. /\ pay[r].status # "NONE" => p.status # "NONE"
          /\ p.status # "NONE" => refund[r].amount > 0
          /\ pay[r].status \notin Final
          /\ p.status \in Final => bank[r] = p.status
          /\ p.status = "NONE" => bank[r] = "NONE"
      BY <1>1, <1>3, <2>1, <2>4
    <3>2. UNCHANGED <<total, refund, bank, wallet, faults>>
      BY <1>1
    <3>3. r \in Refunds /\ p \in Pays /\ t \in Tasks /\ Goes(w, t) /\ pay' = [pay EXCEPT ![r] = p]
      BY <1>1, <1>2, <1>3, <2>1
    <3> QED BY <2>3, <2>5, <3>1, <3>2, <3>3, RecordTyped
  <2>7. Shared'
    BY <1>1, <1>3, <2>1, <2>2, <2>6, OneRecordKeepsSums
  <2> QED BY <2>6, <2>7 DEF Inv
<1>4. CASE pay' = pay /\ pay[r].status # "NONE" /\ Goes(w, t)
  <2>1. TaskAsked(t) /\ TaskTrue(t)
    BY <1>1, <1>2, <1>4 DEF TaskAsked, TaskTrue
  <2> QED BY <1>1, <1>2, <1>4, <2>1, WorkGoesOn DEF Rest
<1>5. CASE pay' = pay /\ (AfterError(w) \/ \E outcome \in Outcomes : Tells(w, outcome))
  BY <1>1, <1>5, ToldStep DEF Rest
<1>6. "PROCESSING" \in Outcomes /\ Final \subseteq Outcomes
  BY DEF Outcomes, Final
<1> QED BY <1>3, <1>4, <1>5, <1>6 DEF RecordRefund, t

\* The gateway's word on one refund, which it had not given.
LEMMA BankStep ==
  ASSUME Inv, NEW r \in Refunds, NEW a \in {"PENDING"} \union Final,
         bank[r] \notin Final, bank' = [bank EXCEPT ![r] = a], pay[r].status # "NONE",
         UNCHANGED <<order, total, refund, pay, refunded, wallet, faults>>,
         worker' \in [Workers -> Tasks],
         \A w \in Workers : worker'[w] = worker[w] \/ (TaskAsked(worker[w])' /\ TaskTrue(worker[w])')
  PROVE  Inv'
<1>1. /\ bank' \in [Refunds -> {"NONE", "PENDING"} \union Final] /\ bank'[r] = a
      /\ \A q \in Refunds \ {r} : bank'[q] = bank[q]
  BY DEF Inv, Typed
<1>2. Typed'
  BY <1>1 DEF Inv, Typed, Tasks
<1>3. pay[r].status \notin Final
  BY DEF Inv, RecordIsTrue
<1>4. \A w \in Workers : TaskAsked(worker[w])' /\ TaskTrue(worker[w])'
  <2>1. Forward
    BY <1>1 DEF Forward
  <2> QED BY <2>1, TasksKept
<1>5. Asked' /\ RecordIsTrue'
  BY <1>1, <1>3, <1>4 DEF Inv, Asked, RecordIsTrue
<1>6. Shared'
  BY SharedKept DEF Inv, Amount, Done
<1> QED BY <1>2, <1>5, <1>6 DEF Inv

LEMMA GatewayStep ==
  ASSUME Inv, NEW r \in Refunds, NEW to \in LateAnswers, GatewayDecides(r, to)
  PROVE  Inv'
<1>1. to \in Final /\ bank[r] = "PENDING" /\ bank[r] \notin Final
  BY AnswersAssumption DEF GatewayDecides, Final
<1>2. pay[r].status # "NONE"
  BY <1>1 DEF Inv, RecordIsTrue
<1>3. worker' = worker /\ worker \in [Workers -> Tasks]
  BY DEF GatewayDecides, Inv, Typed, Tasks
<1> QED BY <1>1, <1>2, <1>3, BankStep DEF GatewayDecides

LEMMA SendStep ==
  ASSUME Inv, NEW w \in Workers, SendRefund(w)
  PROVE  Inv'
<1> DEFINE r == worker[w].refund
<1>1. /\ worker[w] # NoTask /\ worker[w].at = "send"
      /\ UNCHANGED <<order, total, refund, pay, refunded, wallet, faults>>
      /\ faults' \in 0..MaxFaults /\ r \in Refunds /\ pay[r].status # "NONE"
      /\ refund[r].status # "NONE" /\ refund[r].amount > 0
  BY TaskOf, FaultsStay DEF SendRefund, At, TaskAsked, TaskTrue
<1>2. "PROCESSING" \in Outcomes /\ Final \subseteq Outcomes
  BY DEF Outcomes, Final
<1>3. CASE bank' = bank /\ \E outcome \in Outcomes : Tells(w, outcome)
  BY <1>1, <1>3, ToldStep DEF Rest
<1>4. ASSUME NEW a \in Answers, bank[r] = "NONE", bank' = [bank EXCEPT ![r] = a]
      PROVE  a \in {"PENDING"} \union Final /\ bank[r] \notin Final /\ bank'[r] = a
  BY <1>1, <1>4, AnswersAssumption DEF Final, Inv, Typed
<1>5. ASSUME NEW t \in Tasks, Goes(w, t), TaskAsked(worker[w])', TaskTrue(worker[w])',
             \/ bank' = bank
             \/ bank[r] = "NONE" /\ \E a \in Answers : bank' = [bank EXCEPT ![r] = a]
      PROVE  Inv'
  <2>1. worker' \in [Workers -> Tasks] /\ \A v \in Workers \ {w} : worker'[v] = worker[v]
    BY <1>5, WorkersTyped DEF Inv
  <2>2. worker'[w] = t
    BY <1>5, WorkersTyped DEF Inv
  <2>3. CASE bank' = bank
    <3>1. TaskAsked(t) /\ TaskTrue(t)
      BY <1>1, <1>5, <2>2, <2>3 DEF TaskAsked, TaskTrue
    <3> QED BY <1>1, <1>5, <2>3, <3>1, WorkGoesOn DEF Rest
  <2>4. ASSUME NEW a \in Answers, bank[r] = "NONE", bank' = [bank EXCEPT ![r] = a]
        PROVE  Inv'
    <3>1. a \in {"PENDING"} \union Final /\ bank[r] \notin Final
      BY <1>4, <2>4
    <3> HIDE DEF r
    <3> QED BY <1>1, <1>5, <2>1, <2>4, <3>1, BankStep
  <2> QED BY <1>5, <2>3, <2>4
<1>6. ASSUME bank'[r] # "NONE", Goes(w, [worker[w] EXCEPT !.at = "mark", !.outcome = bank'[r]]),
             \/ bank' = bank
             \/ bank[r] = "NONE" /\ \E a \in Answers : bank' = [bank EXCEPT ![r] = a]
      PROVE  Inv'
  <2> DEFINE t == [worker[w] EXCEPT !.at = "mark", !.outcome = bank'[r]]
  <2>1. bank'[r] \in {"PENDING"} \union Final
    BY <1>1, <1>4, <1>6 DEF Inv, Typed
  <2>2. t \in Works /\ t \in Tasks /\ t.refund = r /\ t.at = "mark" /\ t.outcome = bank'[r]
    BY <1>1, <1>2, <2>1, TaskOf DEF Works, Tasks, Outcomes
  <2> HIDE DEF t
  <2>3. TaskAsked(worker[w])' /\ TaskTrue(worker[w])'
    <3>1. worker'[w].refund = r /\ worker'[w].at = "mark" /\ worker'[w].outcome = bank'[r]
      BY <1>6, <2>2, WorkersTyped DEF t, Inv
    <3> QED BY <1>1, <2>1, <3>1 DEF TaskAsked, TaskTrue
  <2> QED BY <1>5, <1>6, <2>2, <2>3 DEF t
<1>7. ASSUME Tells(w, AfterLostCall),
             bank[r] = "NONE", NEW a \in Answers, bank' = [bank EXCEPT ![r] = a]
      PROVE  Inv'
  <2> DEFINE t == IF worker[w].aftercare THEN [worker[w] EXCEPT !.at = "finish", !.outcome = "PROCESSING"]
                  ELSE NoTask
  <2>1. Goes(w, t)
    BY <1>7 DEF Tells, AfterLostCall, Stops
  <2>2. t \in Tasks /\ TaskAsked(t) /\ TaskTrue(t)
    BY <1>1, <1>2, TaskSteps, NoTaskIsRight
  <2>3. t # NoTask => t.refund = r /\ t.at = "finish" /\ t.outcome = "PROCESSING"
    BY <1>1, TaskOf DEF Works
  <2> HIDE DEF t
  <2>4. TaskAsked(worker[w])' /\ TaskTrue(worker[w])'
    <3>1. worker'[w] # NoTask =>
            worker'[w].refund = r /\ worker'[w].at = "finish" /\ worker'[w].outcome = "PROCESSING"
      BY <2>1, <2>2, <2>3, WorkersTyped DEF Inv
    <3> QED BY <1>1, <1>2, <3>1 DEF TaskAsked, TaskTrue
  <2> QED BY <1>5, <1>7, <2>1, <2>2, <2>4
<1> QED BY <1>1, <1>2, <1>3, <1>6, <1>7 DEF SendRefund, AfterLostCall

LEMMA MarkStep ==
  ASSUME Inv, NEW w \in Workers, MarkSubmitted(w)
  PROVE  Inv'
<1> DEFINE r == worker[w].refund
<1>1. /\ worker[w] # NoTask /\ worker[w].at = "mark"
      /\ pay' = [pay EXCEPT ![r].submitted = TRUE]
      /\ UNCHANGED <<order, total, refund, bank, refunded, wallet, faults>>
      /\ r \in Refunds /\ TaskAsked(worker[w]) /\ TaskTrue(worker[w]) /\ worker[w] \in Works
  BY TaskOf DEF MarkSubmitted, At
<1>2. pay' \in [Refunds -> Pays] /\ \A q \in Refunds : pay'[q].status = pay[q].status
  BY <1>1 DEF Inv, Typed, Pays
<1>3. ASSUME NEW t \in Tasks, Goes(w, t), TaskAsked(t), TaskTrue(t)
      PROVE  Inv'
  <2>1. Typed'
    BY <1>1, <1>2, <1>3, WorkersTyped DEF Inv, Typed, Tasks
  <2>2. \A v \in Workers : TaskAsked(worker[v])' /\ TaskTrue(worker[v])'
    <3>1. Forward
      BY <1>1, <1>2 DEF Forward
    <3>2. worker'[w] = t /\ (t # NoTask => t.refund \in Refunds)
      BY <1>3, WorkersTyped DEF Inv, Tasks, Works
    <3>3. TaskAsked(worker[w])' /\ TaskTrue(worker[w])'
      BY <1>1, <1>2, <1>3, <3>2 DEF TaskAsked, TaskTrue
    <3> QED BY <1>3, <3>1, <3>3, WorkersTyped, TasksKept DEF Inv
  <2>3. Asked' /\ RecordIsTrue'
    BY <1>1, <1>2, <2>2 DEF Inv, Asked, RecordIsTrue
  <2>4. Shared'
    <3>1. Done' = Done /\ Amount' = Amount
      BY <1>1, <1>2 DEF Done, Amount
    <3> QED BY <1>1, <3>1, SharedKept DEF Inv
  <2> QED BY <2>1, <2>3, <2>4 DEF Inv
<1>4. CASE worker[w].outcome = "PENDING" /\ Tells(w, "PROCESSING")
  <2>1. "PROCESSING" \in Outcomes
    BY DEF Outcomes
  <2> QED BY <1>1, <1>3, <1>4, <2>1, TaskSteps, NoTaskIsRight DEF Tells, Stops
<1>5. CASE worker[w].outcome # "PENDING" /\ Goes(w, [worker[w] EXCEPT !.at = "settle"])
  <2> DEFINE t == [worker[w] EXCEPT !.at = "settle"]
  <2>1. t \in Works /\ t.refund = r /\ t.at = "settle" /\ t.outcome = worker[w].outcome
    BY <1>1 DEF Works
  <2>2. TaskAsked(t) /\ TaskTrue(t) /\ t \in Tasks
    <3> HIDE DEF t
    <3> QED BY <1>1, <1>5, <2>1 DEF TaskAsked, TaskTrue, Tasks
  <2> QED BY <1>3, <1>5, <2>2
<1> QED BY <1>1, <1>4, <1>5 DEF MarkSubmitted

LEMMA SettleStep ==
  ASSUME Inv, NEW w \in Workers, SettleRefund(w)
  PROVE  Inv'
<1> DEFINE r == worker[w].refund
           to == worker[w].outcome
           p == [status |-> to, submitted |-> TRUE]
<1>1. /\ worker[w] # NoTask /\ worker[w].at = "settle"
      /\ UNCHANGED <<total, refund, bank, wallet, faults>>
      /\ r \in Refunds /\ pay[r] \in Pays /\ pay[r].status # "NONE"
      /\ to \in Final /\ bank[r] = to /\ refund[r].amount > 0 /\ refund[r].status # "NONE"
      /\ refund[r].amount \in Nat
  BY TaskOf, AmountIsNat DEF SettleRefund, At, TaskAsked, TaskTrue, Inv
<1>2. Final \subseteq Outcomes /\ "PENDING" \notin Final /\ "NONE" \notin Final
  BY DEF Outcomes, Final
<1>3. CASE ~Unsettled(r) /\ Tells(w, pay[r].status) /\ UNCHANGED <<order, pay, refunded>>
  <2>1. pay[r].status \in Outcomes
    BY <1>1, <1>2, <1>3 DEF Unsettled, Pays
  <2> QED BY <1>1, <1>3, <2>1, FaultsStay, ToldStep DEF Rest
<1>4. ASSUME Unsettled(r), Tells(w, to), pay' = [pay EXCEPT ![r] = p],
             refunded' = IF to = "SUCCESS" THEN refunded + refund[r].amount ELSE refunded,
             order' = order \/ order' = "REFUNDED"
      PROVE  Inv'
  <2> DEFINE t == IF worker[w].aftercare THEN [worker[w] EXCEPT !.at = "finish", !.outcome = to]
                  ELSE NoTask
  <2>1. Goes(w, t)
    BY <1>4 DEF Tells, Stops
  <2>2. t \in Tasks /\ (t # NoTask => t.refund = r /\ t.at = "finish" /\ t.outcome \in Outcomes)
    BY <1>1, <1>2, TaskOf, TaskSteps, NoTaskIsRight DEF Works
  <2> HIDE DEF t
  <2>3. TaskAsked(worker[w])' /\ TaskTrue(worker[w])'
    <3>1. worker'[w] # NoTask =>
            worker'[w].refund = r /\ worker'[w].at = "finish" /\ worker'[w].outcome \in Outcomes
      BY <2>1, <2>2, WorkersTyped DEF Inv
    <3> QED BY <1>1, <3>1 DEF TaskAsked, TaskTrue
  <2>4. refunded' \in Nat /\ refunded \in Nat
        /\ order' \in {"CONFIRMED", "CANCELLED", "REFUND_PENDING", "REFUNDED"}
    BY <1>1, <1>4 DEF Inv, Typed
  <2>5. /\ p \in Pays /\ p.status = to /\ pay[r].status = "PENDING"
    BY <1>1, <1>2, <1>4 DEF Pays, Unsettled
  <2>6. Typed' /\ Asked' /\ RecordIsTrue' /\ pay'[r] = p
        /\ \A q \in Refunds \ {r} : pay'[q] = pay[q]
    <3> HIDE DEF p, r
    <3>1. /\ pay[r].status # "NONE" => p.status # "NONE"
          /\ p.status # "NONE" => refund[r].amount > 0
          /\ pay[r].status \notin Final
          /\ p.status \in Final => bank[r] = p.status
          /\ p.status = "NONE" => bank[r] = "NONE"
      BY <1>1, <1>2, <2>5
    <3>2. UNCHANGED <<total, refund, bank, wallet, faults>>
      BY <1>1
    <3>3. r \in Refunds /\ p \in Pays /\ t \in Tasks /\ Goes(w, t) /\ pay' = [pay EXCEPT ![r] = p]
      BY <1>1, <1>4, <2>1, <2>2, <2>5
    <3> QED BY <2>3, <2>4, <3>1, <3>2, <3>3, RecordTyped
  <2>7. Amount' = Amount /\ r \notin Done /\ Done \in SUBSET Refunds
    BY <1>1, <2>5 DEF Amount, Done
  <2>8. CASE to = "SUCCESS"
    <3>1. Done' = Done \union {r}
      BY <1>1, <2>6, <2>8 DEF Done
    <3>2. Sum(Done \union {r}) = refund[r].amount + Sum(Done) /\ Sum(Done) \in Nat
      BY <1>1, <2>7, RoomForOne, SumsOfParts DEF Inv
    <3>3. Sum(Refunds)' = Sum(Refunds) /\ Sum(Done)' = Sum(Done \union {r})
      BY <2>7, <3>1 DEF Sum
    <3> QED BY <1>1, <1>4, <2>4, <2>6, <2>8, <3>2, <3>3 DEF Inv, Shared
  <2>9. CASE to # "SUCCESS"
    <3>1. Done' = Done
      BY <1>1, <2>5, <2>6, <2>9 DEF Done
    <3> QED BY <1>1, <1>4, <2>6, <2>7, <2>9, <3>1, SharedKept DEF Inv
  <2> QED BY <2>8, <2>9
<1> QED BY <1>3, <1>4 DEF SettleRefund

LEMMA CommitStep ==
  ASSUME Inv, NEW w \in Workers, FinishCommit(w)
  PROVE  Inv'
<1> DEFINE r == worker[w].refund
           to == worker[w].outcome
           status == IF to = "FAILED" THEN "SUCCESS" ELSE to
           method == IF to = "FAILED" THEN "WALLET" ELSE refund[r].method
           row == [refund[r] EXCEPT !.status = status, !.method = method]
<1>1. /\ worker[w] # NoTask /\ worker[w].at = "commit" /\ Stops(w)
      /\ UNCHANGED <<total, pay, bank, refunded, faults>>
      /\ r \in Refunds /\ refund[r] \in Rows /\ refund[r].amount > 0 /\ refund[r].status # "NONE"
      /\ to \in Outcomes
  BY TaskOf DEF FinishCommit, At, TaskAsked, TaskTrue
<1>2. /\ wallet' \subseteq Refunds /\ \A q \in Refunds \ {r} : q \in wallet' <=> q \in wallet
      /\ order' = order \/ order' = "REFUNDED"
  BY <1>1 DEF FinishCommit, Inv, Typed
<1>3. /\ row \in Rows /\ row.status \in {"SUCCESS", "PROCESSING"} /\ row.amount = refund[r].amount
  BY <1>1 DEF Rows, Outcomes
<1>4. /\ refund' \in [Refunds -> Rows] /\ refund'[r] = row
      /\ \A q \in Refunds \ {r} : refund'[q] = refund[q]
  <2>1. refund' = [refund EXCEPT ![r] = row]
    BY <1>1 DEF FinishCommit, Inv, Typed, Rows
  <2> HIDE DEF row
  <2> QED BY <1>1, <1>3, <2>1 DEF Inv, Typed
<1> HIDE DEF row
<1>5. Typed'
  BY <1>1, <1>2, <1>4, NoTaskIsRight, WorkersTyped DEF Inv, Typed, Tasks, Stops
<1>6. \A v \in Workers : TaskAsked(worker[v])' /\ TaskTrue(worker[v])'
  <2>1. Forward
    BY <1>1, <1>3, <1>4 DEF Forward
  <2>2. \A v \in Workers : worker'[v] = worker[v] \/ worker'[v] = NoTask
    BY <1>1, NoTaskIsRight, WorkersTyped DEF Inv, Stops
  <2> QED BY <2>1, <2>2, TasksKept DEF TaskAsked, TaskTrue
<1>7. Asked' /\ RecordIsTrue'
  BY <1>1, <1>2, <1>3, <1>4, <1>6 DEF Inv, Asked, RecordIsTrue
<1>8. Shared'
  <2>1. Done' = Done /\ Amount' = Amount
    BY <1>1, <1>3, <1>4 DEF Done, Amount
  <2> QED BY <1>1, <1>2, <2>1, SharedKept DEF Inv
<1> QED BY <1>5, <1>7, <1>8 DEF Inv

LEMMA InvStep == Inv /\ [Next]_vars => Inv'
<1> SUFFICES ASSUME Inv, [Next]_vars PROVE Inv'
  OBVIOUS
<1>1. ASSUME NEW m \in Methods, NEW r \in Refunds, RefundPart(r, m) PROVE Inv'
  BY <1>1, RefundPartStep
<1>2. ASSUME NEW m \in Methods, NEW amount \in 0..Price, CancelOrder(m, amount) PROVE Inv'
  BY <1>2, CancelStep
<1>3. ASSUME NEW w \in Workers, NEW r \in Refunds,
             \/ CountTry(w, r) \/ SendUnsent(w, r)
             \/ FetchRefund(w, r) \/ SweepProcessing(w, r)
      PROVE  Inv'
  BY <1>3, CountTryStep, JobStep
<1>4. ASSUME NEW w \in Workers, Steps(w) \/ Fault(w) \/ Crash(w) PROVE Inv'
  BY <1>4, RecordStep, SendStep, MarkStep, SettleStep, FinishReadStep, CommitStep, FaultStep, CrashStep
  DEF Steps
<1>5. ASSUME NEW r \in Refunds, NEW to \in LateAnswers, GatewayDecides(r, to) PROVE Inv'
  BY <1>5, GatewayStep
<1>6. CASE UNCHANGED vars
  <2>1. UNCHANGED Rest /\ worker' = worker /\ faults' = faults
    BY <1>6 DEF vars, Rest
  <2>2. Amount' = Amount /\ Done' = Done /\ Shared'
    BY <2>1, SharedKept DEF Inv, Rest, Amount, Done
  <2> QED BY <2>1, <2>2
          DEF Inv, Typed, Asked, RecordIsTrue, TaskAsked, TaskTrue, Rest
<1> QED BY <1>1, <1>2, <1>3, <1>4, <1>5, <1>6 DEF Next

-----------------------------------------------------------------------------
(* Theorems.                                                               *)

\* Every variable keeps its type for any refunds, workers and errors; in
\* particular the payment's refunded total never exceeds the price
\* (refundPaymentIntent's limit).
THEOREM TypeCorrect == Spec => []TypeOK
<1>1. Inv => TypeOK
  <2> SUFFICES ASSUME Inv PROVE TypeOK
    OBVIOUS
  <2>1. Done \in SUBSET Refunds
    BY DEF Done
  <2>2. Sum(Done) \in Nat /\ Sum(Refunds) \in Nat /\ Sum(Done) <= Sum(Refunds)
    BY <2>1, SumsOfParts, RefundsAssumption DEF Inv
  <2>3. refunded \in 0..Price
    BY <2>2, AmountsAssumption DEF Inv, Shared
  <2> QED BY <2>3 DEF Inv, Typed, TypeOK, Rows, Pays, Works
<1> QED BY <1>1, InitInv, InvStep, PTL DEF Spec

\* The payment's refunded amount is the sum of the refunds the gateway made,
\* whatever workers settle one refund at once and wherever they stop.
THEOREM RefundedIsWhatSettled == Spec => []RefundedIsSettled
<1>1. Inv => RefundedIsSettled
  <2> SUFFICES ASSUME Inv PROVE RefundedIsSettled
    OBVIOUS
  <2>1. refunded = Sum(Done) /\ \A r \in Done : bank[r] = "SUCCESS"
    BY DEF Inv, Shared, RecordIsTrue, Done, Final
  <2> QED BY <2>1 DEF RefundedIsSettled, Done
<1> QED BY <1>1, InitInv, InvStep, PTL DEF Spec

-----------------------------------------------------------------------------
(* Without database errors a refund is given up only when the gateway has  *)
(* refused it.                                                             *)

\* The price leaves room for every refund that was not recorded yet, so
\* refundPaymentIntent does not refuse it.
LEMMA RoomLeft ==
  ASSUME Inv, NEW r \in Refunds, pay[r].status = "NONE", refund[r].amount > 0
  PROVE  CanRefund(r)
<1> DEFINE S == {q \in Refunds : pay[q].status \in {"PENDING", "SUCCESS"}}
<1>1. S \in SUBSET Refunds /\ r \in Refunds \ S /\ Done \in SUBSET Refunds /\ r \in Refunds \ Done
  BY DEF Done
<1> HIDE DEF S
<1>2. /\ refund[r].amount + Sum(S) <= Sum(Refunds) /\ refund[r].amount + Sum(Done) <= Sum(Refunds)
      /\ Sum(S) \in Nat /\ Sum(Done) \in Nat /\ Sum(Refunds) \in Nat
  BY <1>1, RoomForOne, SumsOfParts, RefundsAssumption DEF Inv
<1>3. refund[r].amount \in Nat /\ Sum(Refunds) <= Price /\ refunded = Sum(Done) /\ Price \in Nat
  BY AmountIsNat, AmountsAssumption DEF Inv, Shared
<1>4. Sum(S) + refund[r].amount <= Price /\ refunded < Price /\ refunded \in Nat
  BY <1>2, <1>3
<1>5. IntentStatus # "REFUNDED"
  BY <1>3, <1>4 DEF IntentStatus
<1> QED BY <1>4, <1>5 DEF CanRefund, Committed, S

\* A step that leaves the gateway and the wallet as they are.
LEMMA GivenUpKept ==
  ASSUME Inv, NEW q \in Refunds, GivenUp(q), NEW w \in Workers, NEW t \in Tasks, Goes(w, t),
         TaskGivenUp(t, q), UNCHANGED <<bank, wallet>>,
         q \in wallet => \/ bank[q] = "FAILED"
                         \/ refund'[q].status = "SUCCESS" /\ pay'[q].status = "NONE"
  PROVE  GivenUp(q)'
<1>1. ASSUME NEW v \in Workers PROVE TaskGivenUp(worker[v], q)'
  <2>1. TaskGivenUp(t, q)'
    BY DEF TaskGivenUp
  <2>2. worker'[v] = t \/ worker'[v] = worker[v]
    BY WorkersTyped DEF Inv
  <2> QED BY <2>1, <2>2 DEF GivenUp, TaskGivenUp
<1> QED BY <1>1 DEF GivenUp

LEMMA GivenUpTold ==
  ASSUME Inv, NEW q \in Refunds, GivenUp(q), NEW w \in Workers, worker[w] # NoTask,
         NEW outcome \in Outcomes,
         worker[w].refund = q /\ outcome = "FAILED" => bank[q] = "FAILED"
  PROVE  /\ [worker[w] EXCEPT !.at = "finish", !.outcome = outcome] \in Tasks
         /\ TaskGivenUp([worker[w] EXCEPT !.at = "finish", !.outcome = outcome], q)
<1> DEFINE t == [worker[w] EXCEPT !.at = "finish", !.outcome = outcome]
<1>1. t \in Works /\ t.refund = worker[w].refund /\ t.at = "finish" /\ t.outcome = outcome
  BY TaskOf DEF Works
<1> HIDE DEF t
<1>2. TaskGivenUp(t, q)
  BY <1>1 DEF GivenUp, TaskGivenUp
<1> QED BY <1>1, <1>2 DEF Tasks, t

LEMMA GivenUpAsk ==
  ASSUME Inv, NEW q \in Refunds, GivenUp(q),
         NEW r \in Refunds, NEW method \in Methods, NEW amount \in 0..Price, Ask(r, method, amount)
  PROVE  GivenUp(q)'
<1>1. /\ refund[r].status = "NONE" /\ pay[r].status = "NONE" /\ r \notin wallet
      /\ \A w \in Workers : worker[w] # NoTask => worker[w].refund # r
      /\ refund \in [Refunds -> Rows]
  BY DEF Ask, Inv, Typed, Asked, TaskAsked
<1>2. /\ UNCHANGED <<pay, bank, worker>>
      /\ q # r => refund'[q] = refund[q] /\ (q \in wallet' <=> q \in wallet)
      /\ r \in wallet' => refund'[r].status = "SUCCESS"
  BY <1>1 DEF Ask
<1>3. \A w \in Workers : TaskGivenUp(worker[w], q)'
  BY <1>1, <1>2 DEF GivenUp, TaskGivenUp
<1>4. q \in wallet' => \/ bank'[q] = "FAILED"
                       \/ refund'[q].status = "SUCCESS" /\ pay'[q].status = "NONE"
  BY <1>1, <1>2 DEF GivenUp
<1> QED BY <1>3, <1>4 DEF GivenUp

LEMMA GivenUpWork ==
  ASSUME Inv, NEW q \in Refunds, GivenUp(q), NEW w \in Workers,
         RecordRefund(w) \/ MarkSubmitted(w) \/ SettleRefund(w) \/ FinishRead(w) \/ Crash(w)
  PROVE  GivenUp(q)'
<1> DEFINE r == worker[w].refund
<1>1. /\ worker[w] # NoTask /\ worker[w] \in Works /\ TaskTrue(worker[w]) /\ TaskGivenUp(worker[w], q)
      /\ UNCHANGED <<refund, bank, wallet>> /\ r \in Refunds /\ refund[r].amount > 0
      /\ pay[r] \in Pays
      /\ q # r => pay'[q] = pay[q]
  <2>1. worker[w] # NoTask /\ UNCHANGED <<refund, bank, wallet>>
    BY DEF RecordRefund, MarkSubmitted, SettleRefund, FinishRead, Crash, At
  <2>2. q # r => pay'[q] = pay[q]
    BY DEF RecordRefund, MarkSubmitted, SettleRefund, FinishRead, Crash, Inv, Typed
  <2> QED BY <2>1, <2>2, TaskOf DEF GivenUp, TaskAsked
<1>2. ASSUME NEW t \in Tasks, Goes(w, t), TaskGivenUp(t, q) PROVE GivenUp(q)'
  <2>1. q \in wallet => \/ bank[q] = "FAILED"
                        \/ refund'[q].status = "SUCCESS" /\ pay'[q].status = "NONE"
    BY <1>1 DEF GivenUp, TaskGivenUp
  <2> QED BY <1>1, <1>2, <2>1, GivenUpKept
<1>3. ASSUME Stops(w) PROVE GivenUp(q)'
  BY <1>2, <1>3, NoTaskIsRight DEF Stops, TaskGivenUp
<1>4. ASSUME NEW outcome \in Outcomes, outcome = "FAILED" => bank[r] = "FAILED", Tells(w, outcome)
      PROVE  GivenUp(q)'
  BY <1>1, <1>2, <1>3, <1>4, GivenUpTold DEF Tells
<1>5. ASSUME NEW at \in {"send", "settle"}, Goes(w, [worker[w] EXCEPT !.at = at]) PROVE GivenUp(q)'
  <2> DEFINE t == [worker[w] EXCEPT !.at = at]
  <2>1. t \in Works /\ t.refund = r /\ t.at = at
    BY <1>1 DEF Works
  <2>2. t \in Tasks /\ TaskGivenUp(t, q)
    <3> HIDE DEF t
    <3> QED BY <1>1, <2>1 DEF Tasks, TaskGivenUp
  <2> QED BY <1>2, <1>5, <2>2
<1>6. pay[r].status \in Final => pay[r].status \in Outcomes /\ bank[r] = pay[r].status
  BY <1>1 DEF Inv, RecordIsTrue, Final, Outcomes
<1>7. "PROCESSING" \in Outcomes /\ "PROCESSING" # "FAILED"
  BY DEF Outcomes
<1>8. CASE RecordRefund(w)
  <2>1. pay[r].status = "NONE" => CanRefund(r)
    BY <1>1, RoomLeft
  <2> QED BY <1>4, <1>5, <1>6, <1>7, <1>8, <2>1 DEF RecordRefund
<1>9. CASE MarkSubmitted(w)
  BY <1>4, <1>5, <1>7, <1>9 DEF MarkSubmitted
<1>10. CASE SettleRefund(w)
  <2>1. worker[w].outcome \in Outcomes /\ bank[r] = worker[w].outcome /\ pay[r].status # "NONE"
    BY <1>1, <1>10 DEF SettleRefund, At, TaskTrue, Final, Outcomes
  <2>2. CASE ~Unsettled(r) /\ Tells(w, pay[r].status)
    <3>1. pay[r].status \in Final
      BY <1>1, <2>1, <2>2 DEF Unsettled, Pays
    <3> QED BY <1>4, <1>6, <2>2, <3>1
  <2>3. CASE Tells(w, worker[w].outcome)
    BY <1>4, <2>1, <2>3
  <2> QED BY <1>10, <2>2, <2>3 DEF SettleRefund
<1>11. CASE FinishRead(w)
  <2>1. ASSUME NEW closes \in BOOLEAN, worker[w].at = "finish",
               Goes(w, [worker[w] EXCEPT !.at = "commit", !.closes = closes])
        PROVE  GivenUp(q)'
    <3> DEFINE t == [worker[w] EXCEPT !.at = "commit", !.closes = closes]
    <3>1. t \in Works /\ t.refund = r /\ t.at = "commit" /\ t.outcome = worker[w].outcome
      BY <1>1 DEF Works
    <3>2. t \in Tasks /\ TaskGivenUp(t, q)
      <4> HIDE DEF t
      <4> QED BY <1>1, <2>1, <3>1 DEF Tasks, TaskGivenUp
    <3> QED BY <1>2, <2>1, <3>2
  <2> QED BY <1>3, <1>11, <2>1 DEF FinishRead, At
<1>12. CASE Crash(w)
  BY <1>3, <1>12 DEF Crash
<1> QED BY <1>8, <1>9, <1>10, <1>11, <1>12

\* What a request or a job starts: a refund is only finished when the payment
\* has refunded enough.
LEMMA StartedWork ==
  ASSUME Inv, NEW w \in Workers, NEW r \in Refunds,
         CountTry(w, r) \/ SendUnsent(w, r) \/ FetchRefund(w, r) \/ SweepProcessing(w, r)
  PROVE  \E t \in Works : /\ Goes(w, t) /\ t.refund = r /\ t.at # "commit"
                          /\ t.at = "finish" => t.outcome = "SUCCESS" /\ Covered(r)
<1>1. CASE CountTry(w, r)
  <2> DEFINE t == Work(r, "record", "PENDING",
                       Min({refund[r].attempts + 1, MaxGatewayAttempts}) = MaxGatewayAttempts, TRUE)
  <2>1. t \in Works /\ t.refund = r /\ t.at = "record" /\ Goes(w, t)
    BY <1>1 DEF CountTry, Work, Works
  <2> HIDE DEF t
  <2> QED BY <2>1
<1>2. CASE SendUnsent(w, r)
  <2> DEFINE t == Work(r, "send", "PENDING", FALSE, FALSE)
  <2>1. t \in Works /\ t.refund = r /\ t.at = "send" /\ Goes(w, t)
    BY <1>2 DEF SendUnsent, Work, Works
  <2> HIDE DEF t
  <2> QED BY <2>1
<1>3. CASE FetchRefund(w, r)
  <2> DEFINE t == Work(r, "settle", bank[r], FALSE, FALSE)
  <2>1. t \in Works /\ t.refund = r /\ t.at = "settle" /\ Goes(w, t)
    BY <1>3 DEF FetchRefund, Work, Works, Outcomes, Final
  <2> HIDE DEF t
  <2> QED BY <2>1
<1>4. CASE SweepProcessing(w, r)
  <2> DEFINE t == Work(r, "finish", "SUCCESS", FALSE, TRUE)
  <2>1. t \in Works /\ t.refund = r /\ t.at = "finish" /\ t.outcome = "SUCCESS" /\ Goes(w, t) /\ Covered(r)
    BY <1>4 DEF SweepProcessing, Work, Works, Outcomes
  <2> HIDE DEF t
  <2> QED BY <2>1
<1> QED BY <1>1, <1>2, <1>3, <1>4

LEMMA GivenUpStart ==
  ASSUME Inv, NEW q \in Refunds, GivenUp(q), NEW w \in Workers, NEW r \in Refunds,
         CountTry(w, r) \/ SendUnsent(w, r) \/ FetchRefund(w, r) \/ SweepProcessing(w, r)
  PROVE  GivenUp(q)'
<1>1. \E t \in Works : Goes(w, t) /\ t.refund = r /\ ~(t.at \in {"finish", "commit"} /\ t.outcome = "FAILED")
  BY StartedWork
<1>2. r = q /\ q \in wallet => bank[q] = "FAILED"
  BY DEF GivenUp, CountTry, SendUnsent, FetchRefund, SweepProcessing
<1>3. UNCHANGED <<pay, bank, wallet>> /\ refund'[q].status = refund[q].status
  BY DEF CountTry, SendUnsent, FetchRefund, SweepProcessing, Inv, Typed, Rows
<1>4. PICK t \in Works : Goes(w, t) /\ t.refund = r
                         /\ ~(t.at \in {"finish", "commit"} /\ t.outcome = "FAILED")
  BY <1>1
<1>5. t \in Tasks /\ TaskGivenUp(t, q)
  BY <1>2, <1>4 DEF Tasks, TaskGivenUp
<1>6. q \in wallet => \/ bank[q] = "FAILED"
                      \/ refund'[q].status = "SUCCESS" /\ pay'[q].status = "NONE"
  BY <1>3 DEF GivenUp
<1> QED BY <1>3, <1>4, <1>5, <1>6, GivenUpKept

LEMMA GivenUpSend ==
  ASSUME Inv, NEW q \in Refunds, GivenUp(q), NEW w \in Workers, SendRefund(w)
  PROVE  GivenUp(q)'
<1> DEFINE r == worker[w].refund
<1>1. /\ worker[w] # NoTask /\ worker[w] \in Works /\ TaskGivenUp(worker[w], q) /\ r \in Refunds
      /\ UNCHANGED <<refund, pay, wallet>>
      /\ bank' = bank \/ (bank[r] = "NONE" /\ \A p \in Refunds \ {r} : bank'[p] = bank[p])
  BY TaskOf DEF SendRefund, At, GivenUp, Inv, Typed
<1>2. bank[q] = "FAILED" => bank'[q] = "FAILED"
  BY <1>1
<1>3. TaskGivenUp(worker[w], q)' /\ \A v \in Workers \ {w} : worker'[v] = worker[v]
  <2>1. \/ \E outcome \in {"PROCESSING"} \union Final : Tells(w, outcome)
                  /\ (outcome = "FAILED" => bank[r] = "FAILED")
        \/ Goes(w, [worker[w] EXCEPT !.at = "mark", !.outcome = bank'[r]])
    BY <1>1 DEF SendRefund, AfterLostCall, Inv, RecordIsTrue
  <2>2. ASSUME NEW outcome \in {"PROCESSING"} \union Final, Tells(w, outcome),
               outcome = "FAILED" => bank[r] = "FAILED"
        PROVE  TaskGivenUp(worker[w], q)' /\ \A v \in Workers \ {w} : worker'[v] = worker[v]
    <3> DEFINE t == IF worker[w].aftercare THEN [worker[w] EXCEPT !.at = "finish", !.outcome = outcome]
                    ELSE NoTask
    <3>1. Goes(w, t) /\ (t # NoTask => t.refund = r /\ t.outcome = outcome)
      BY <1>1, <2>2 DEF Tells, Stops, Works
    <3> HIDE DEF t
    <3>2. worker'[w] = t /\ \A v \in Workers \ {w} : worker'[v] = worker[v]
      BY <3>1 DEF Goes, Inv, Typed
    <3> QED BY <1>1, <1>2, <2>2, <3>1, <3>2 DEF TaskGivenUp
  <2>3. ASSUME Goes(w, [worker[w] EXCEPT !.at = "mark", !.outcome = bank'[r]])
        PROVE  TaskGivenUp(worker[w], q)' /\ \A v \in Workers \ {w} : worker'[v] = worker[v]
    <3>1. worker'[w].refund = r /\ worker'[w].at = "mark"
          /\ \A v \in Workers \ {w} : worker'[v] = worker[v]
      BY <1>1, <2>3 DEF Goes, Inv, Typed, Works
    <3> QED BY <1>1, <1>2, <3>1 DEF TaskGivenUp
  <2> QED BY <2>1, <2>2, <2>3
<1>4. \A v \in Workers : TaskGivenUp(worker[v], q)'
  BY <1>1, <1>2, <1>3 DEF GivenUp, TaskGivenUp
<1> QED BY <1>1, <1>2, <1>4 DEF GivenUp

LEMMA GivenUpCommit ==
  ASSUME Inv, NEW q \in Refunds, GivenUp(q), NEW w \in Workers, FinishCommit(w)
  PROVE  GivenUp(q)'
<1> DEFINE r == worker[w].refund
<1>1. /\ worker[w] # NoTask /\ UNCHANGED <<pay, bank>>
      /\ r # q => refund'[q] = refund[q] /\ (q \in wallet' <=> q \in wallet)
      /\ r = q /\ q \in wallet' => bank[q] = "FAILED"
  <2>1. worker[w] # NoTask /\ worker[w].at = "commit" /\ TaskGivenUp(worker[w], q) /\ r \in Refunds
    BY TaskOf DEF FinishCommit, At, GivenUp
  <2> QED BY <2>1 DEF FinishCommit, TaskGivenUp, Inv, Typed
<1>2. \A v \in Workers : worker'[v] = worker[v] \/ worker'[v] = NoTask
  BY DEF FinishCommit, Stops, Goes, Inv, Typed
<1>3. \A v \in Workers : TaskGivenUp(worker[v], q)'
  BY <1>1, <1>2 DEF GivenUp, TaskGivenUp
<1> QED BY <1>1, <1>3 DEF GivenUp

LEMMA GivenUpGateway ==
  ASSUME Inv, NEW q \in Refunds, GivenUp(q),
         NEW r \in Refunds, NEW to \in LateAnswers, GatewayDecides(r, to)
  PROVE  GivenUp(q)'
<1>1. /\ UNCHANGED <<refund, pay, wallet, worker>>
      /\ bank[q] = "FAILED" => bank'[q] = "FAILED"
  BY DEF GatewayDecides, Inv, Typed
<1>2. \A v \in Workers : TaskGivenUp(worker[v], q)'
  BY <1>1 DEF GivenUp, TaskGivenUp
<1> QED BY <1>1, <1>2 DEF GivenUp

\* A database error leaves the refunds that are not its own alone.
LEMMA GivenUpFault ==
  ASSUME Inv, NEW q \in Refunds, GivenUp(q), NEW w \in Workers, Fault(w), worker[w].refund # q
  PROVE  GivenUp(q)'
<1>1. worker[w] # NoTask /\ UNCHANGED <<refund, pay, bank, wallet>>
  BY DEF Fault, At
<1>2. worker[w] \in Works
  BY <1>1, TaskOf
<1>3. ASSUME NEW t \in Tasks, Goes(w, t), t # NoTask => t.refund = worker[w].refund
      PROVE  GivenUp(q)'
  <2>1. TaskGivenUp(t, q)
    BY <1>3 DEF TaskGivenUp
  <2> QED BY <1>1, <1>3, <2>1, GivenUpKept DEF GivenUp
<1>4. ASSUME NEW outcome \in Outcomes, Goes(w, [worker[w] EXCEPT !.at = "finish", !.outcome = outcome])
      PROVE  GivenUp(q)'
  <2> DEFINE t == [worker[w] EXCEPT !.at = "finish", !.outcome = outcome]
  <2>1. t \in Works /\ t.refund = worker[w].refund
    BY <1>2 DEF Works
  <2>2. t \in Tasks
    BY <2>1 DEF Tasks
  <2> HIDE DEF t
  <2>3. Goes(w, t)
    BY <1>4 DEF t
  <2> QED BY <1>3, <2>1, <2>2, <2>3
<1>5. CASE Stops(w)
  BY <1>3, <1>5, NoTaskIsRight DEF Stops
<1> QED BY <1>4, <1>5 DEF Fault, AfterError, Tells, Outcomes

\* Only a database error can put a refund in doubt, and only its own.
LEMMA GivenUpStep ==
  ASSUME Inv, NEW q \in Refunds, GivenUp(q), [Next]_vars,
         ~ \E w \in Workers : Fault(w) /\ worker[w].refund = q
  PROVE  GivenUp(q)'
<1>1. ASSUME NEW m \in Methods, NEW r \in Refunds, RefundPart(r, m) PROVE GivenUp(q)'
  <2>1. PartAmount \in 0..Price
    BY <1>1, AmountsAssumption DEF RefundPart, Inv, Typed
  <2> QED BY <1>1, <2>1, GivenUpAsk DEF RefundPart
<1>2. ASSUME NEW m \in Methods, NEW amount \in 0..Price, CancelOrder(m, amount) PROVE GivenUp(q)'
  BY <1>2, GivenUpAsk, CancelRefundAssumption DEF CancelOrder
<1>3. ASSUME NEW w \in Workers, NEW r \in Refunds,
             \/ CountTry(w, r) \/ SendUnsent(w, r)
             \/ FetchRefund(w, r) \/ SweepProcessing(w, r)
      PROVE  GivenUp(q)'
  BY <1>3, GivenUpStart
<1>4. ASSUME NEW w \in Workers, Steps(w) \/ Crash(w) PROVE GivenUp(q)'
  BY <1>4, GivenUpWork, GivenUpSend, GivenUpCommit DEF Steps
<1>5. ASSUME NEW w \in Workers, Fault(w) PROVE GivenUp(q)'
  BY <1>5, GivenUpFault
<1>6. ASSUME NEW r \in Refunds, NEW to \in LateAnswers, GatewayDecides(r, to) PROVE GivenUp(q)'
  BY <1>6, GivenUpGateway
<1>7. CASE UNCHANGED vars
  BY <1>7 DEF vars, GivenUp, TaskGivenUp
<1> QED BY <1>1, <1>2, <1>3, <1>4, <1>5, <1>6, <1>7 DEF Next

\* The refunds in doubt, and those both in the wallet and with the gateway.
Doubtful == {q \in Refunds : ~GivenUp(q)}
Twice == {r \in wallet : bank[r] \in {"PENDING", "SUCCESS"}}
DoubtHasFault == Cardinality(Doubtful) <= faults

LEMMA DoubtStep ==
  ASSUME Inv, DoubtHasFault, [Next]_vars
  PROVE  DoubtHasFault'
<1>1. /\ IsFiniteSet(Doubtful) /\ Cardinality(Doubtful) \in Nat /\ faults \in Nat
      /\ \A S \in SUBSET Refunds : IsFiniteSet(S) /\ Cardinality(S) \in Nat
  BY RefundsAssumption, FS_Subset, FS_CardinalityType DEF Doubtful, Inv, Typed
<1>2. Doubtful' \in SUBSET Refunds
  BY DEF Doubtful
<1>3. ASSUME NEW w \in Workers, Fault(w) PROVE DoubtHasFault'
  <2> DEFINE S == Doubtful \union {worker[w].refund}
  <2>1. worker[w] # NoTask /\ faults' = faults + 1
    BY <1>3 DEF Fault, At
  <2>2. S \in SUBSET Refunds
    BY <2>1, TaskOf DEF Doubtful
  <2>3. Cardinality(S) <= Cardinality(Doubtful) + 1
    <3>1. ASSUME NEW r PROVE Cardinality(Doubtful \union {r}) <= Cardinality(Doubtful) + 1
      <4>1. Cardinality(Doubtful \union {r})
              = IF r \in Doubtful THEN Cardinality(Doubtful) ELSE Cardinality(Doubtful) + 1
        BY <1>1, FS_AddElement
      <4> QED BY <1>1, <4>1
    <3> QED BY <3>1
  <2>4. Doubtful' \in SUBSET S
    BY <1>3, GivenUpFault DEF Doubtful
  <2> HIDE DEF S
  <2>5. ASSUME NEW D \in SUBSET S PROVE Cardinality(D) <= Cardinality(S) /\ Cardinality(D) \in Nat
    BY <1>1, <2>2, FS_Subset
  <2>6. Cardinality(S) \in Nat
    BY <1>1, <2>2
  <2>7. Cardinality(Doubtful') <= faults + 1
    BY <1>1, <2>3, <2>4, <2>5, <2>6 DEF DoubtHasFault
  <2> QED BY <2>1, <2>7 DEF DoubtHasFault
<1>4. CASE ~ \E w \in Workers : Fault(w)
  <2>1. Doubtful' \in SUBSET Doubtful
    BY <1>4, GivenUpStep DEF Doubtful
  <2>2. ASSUME NEW D \in SUBSET Doubtful PROVE Cardinality(D) <= Cardinality(Doubtful) /\ Cardinality(D) \in Nat
    BY <1>1, FS_Subset, FS_CardinalityType
  <2>3. faults' = faults
    BY <1>4 DEF Next, vars, RefundPart, CancelOrder, Ask, CountTry, SendUnsent, FetchRefund,
       SweepProcessing, Steps, RecordRefund, SendRefund, MarkSubmitted, SettleRefund,
       FinishRead, FinishCommit, Crash, GatewayDecides
  <2>4. Cardinality(Doubtful') <= faults
    BY <1>1, <2>1, <2>2 DEF DoubtHasFault
  <2> QED BY <2>3, <2>4 DEF DoubtHasFault
<1> QED BY <1>3, <1>4

LEMMA TwiceIsDoubtful ==
  ASSUME Inv
  PROVE  Twice \in SUBSET Doubtful
<1> SUFFICES ASSUME NEW r \in Twice, GivenUp(r) PROVE FALSE
  BY DEF Twice, Doubtful, Inv, Typed
<1>1. r \in Refunds /\ r \in wallet /\ bank[r] \in {"PENDING", "SUCCESS"}
  BY DEF Twice, Inv, Typed
<1>2. pay[r].status = "NONE"
  BY <1>1 DEF GivenUp
<1> QED BY <1>1, <1>2 DEF Inv, RecordIsTrue

LEMMA DoubtHolds == Spec => [](Inv /\ DoubtHasFault)
<1>1. ASSUME Init PROVE DoubtHasFault
  <2>1. Doubtful = {}
    BY <1>1 DEF Init, Doubtful, GivenUp, TaskGivenUp
  <2>2. Cardinality(Doubtful) = 0
    BY <2>1, FS_EmptySet
  <2> QED BY <1>1, <2>2 DEF Init, DoubtHasFault
<1>2. Inv /\ DoubtHasFault /\ [Next]_vars => DoubtHasFault'
  BY DoubtStep
<1> QED BY <1>1, <1>2, InitInv, InvStep, PTL DEF Spec

\* Every refund that is both in the wallet and with the gateway cost a database
\* error of its own: of any refunds and workers, no more were given back twice
\* than there were errors (each in a step of processOriginalRefund).
THEOREM TwiceNeedsFaults == Spec => [](Cardinality(Twice) <= faults)
<1>1. ASSUME Inv, DoubtHasFault PROVE Cardinality(Twice) <= faults
  <2>1. IsFiniteSet(Doubtful) /\ faults \in Nat
    BY <1>1, RefundsAssumption, FS_Subset DEF Doubtful, Inv, Typed
  <2>2. /\ Cardinality(Twice) <= Cardinality(Doubtful)
        /\ Cardinality(Twice) \in Nat /\ Cardinality(Doubtful) \in Nat
    BY <1>1, <2>1, TwiceIsDoubtful, FS_Subset, FS_CardinalityType
  <2> QED BY <1>1, <2>1, <2>2 DEF DoubtHasFault
<1> QED BY <1>1, DoubtHolds, PTL

\* As long as there was no database error, what went to the wallet is not also
\* with the gateway (refunds.ts:5), for any refunds and workers.
THEOREM NothingRefundedTwice == Spec => [](faults = 0 => NotRefundedTwice)
<1>1. ASSUME Inv, DoubtHasFault, faults = 0 PROVE NotRefundedTwice
  <2>1. IsFiniteSet(Doubtful) /\ Cardinality(Doubtful) \in Nat
    BY RefundsAssumption, FS_Subset, FS_CardinalityType DEF Doubtful
  <2>2. Doubtful = {}
    BY <1>1, <2>1, FS_EmptySet DEF DoubtHasFault
  <2>3. Twice = {}
    BY <1>1, <2>2, TwiceIsDoubtful
  <2> QED BY <1>1, <2>3 DEF Twice, NotRefundedTwice, Inv, Typed, Final
<1> QED BY <1>1, DoubtHolds, PTL

\* What wallet and gateway together give back is within what was paid, but for
\* the refunds that were given back twice.
LEMMA MoneyBackButTwice ==
  ASSUME Inv
  PROVE  Sum(wallet) + Sum({r \in Refunds : bank[r] \in {"PENDING", "SUCCESS"}}) <= Price + Sum(Twice)
<1> DEFINE B == {r \in Refunds : bank[r] \in {"PENDING", "SUCCESS"}}
           W == wallet \ Twice
<1>1. /\ W \in SUBSET Refunds /\ B \in SUBSET Refunds /\ W \cap B = {} /\ W \union B \in SUBSET Refunds
      /\ Twice \in SUBSET Refunds /\ W \cap Twice = {} /\ W \union Twice = wallet
  BY DEF Inv, Typed, Twice
<1> HIDE DEF B, W
<1>2. Sum(W \union B) = Sum(W) + Sum(B) /\ Sum(W \union Twice) = Sum(W) + Sum(Twice)
  BY <1>1, SumOfUnion, RefundsAssumption, AmountIsNat DEF Inv, Sum
<1>3. /\ Sum(W \union B) <= Sum(Refunds) /\ Sum(Refunds) \in Nat
      /\ Sum(W) \in Nat /\ Sum(B) \in Nat /\ Sum(Twice) \in Nat
  BY <1>1, SumsOfParts, RefundsAssumption DEF Inv
<1>4. Sum(Refunds) <= Price
  BY DEF Inv, Shared
<1>5. Sum(wallet) + Sum(B) <= Price + Sum(Twice)
  BY <1>1, <1>2, <1>3, <1>4, AmountsAssumption
<1> QED BY <1>5 DEF B

\* With any errors, stops and workers, wallet and gateway together exceed what
\* was paid by no more than the refunds that were given back twice.
THEOREM OverpaidOnlyByTwice ==
  Spec => [](Sum(wallet) + Sum({r \in Refunds : bank[r] \in {"PENDING", "SUCCESS"}})
               <= Price + Sum(Twice))
BY MoneyBackButTwice, DoubtHolds, PTL

\* As long as there was no database error, wallet and gateway together do not
\* give back more than was paid, however many lines are removed and whenever the
\* rest is cancelled.
THEOREM MoneyBackIsWithinPrice == Spec => [](faults = 0 => MoneyBackWithinPrice)
<1>1. ASSUME Inv, faults = 0 => NotRefundedTwice, faults = 0 PROVE MoneyBackWithinPrice
  <2>1. Twice = {}
    BY <1>1 DEF Twice, NotRefundedTwice
  <2>2. Sum(Twice) = 0
    BY <2>1, SumOfEmpty DEF Sum
  <2> QED BY <1>1, <2>2, MoneyBackButTwice, AmountsAssumption DEF MoneyBackWithinPrice
<1>2. Inv /\ (faults = 0 => NotRefundedTwice) => (faults = 0 => MoneyBackWithinPrice)
  BY <1>1
<1> QED BY <1>2, NothingRefundedTwice, DoubtHolds, PTL

-----------------------------------------------------------------------------
(* Which refunds were tried.                                               *)

LEMMA TriedInit == Init => Tried
BY DEF Init, Tried, TriedOf, TaskTried

\* A worker goes on with the refund it has, or stops.
SameWork(v) ==
  \/ worker'[v] \in {NoTask, worker[v]}
  \/ worker[v] # NoTask /\ worker'[v].refund = worker[v].refund

\* A try is never forgotten, so nor is the work it started.
LEMMA TasksTried ==
  ASSUME Inv, Tried, \A r \in Refunds : refund'[r].attempts >= refund[r].attempts,
         refund' \in [Refunds -> Rows],
         \A v \in Workers :
           \/ SameWork(v)
           \/ worker'[v].refund \in Refunds /\ refund'[worker'[v].refund].attempts > 0
  PROVE  \A v \in Workers : TaskTried(worker[v])'
<1> SUFFICES ASSUME NEW v \in Workers, worker'[v] # NoTask PROVE refund'[worker'[v].refund].attempts > 0
  BY DEF TaskTried
<1>1. \A r \in Refunds : refund[r].attempts \in Nat /\ refund'[r].attempts \in Nat
  BY DEF Inv, Typed, Rows
<1>2. worker[v] # NoTask => worker[v].refund \in Refunds /\ refund[worker[v].refund].attempts > 0
  BY TaskOf DEF Tried, TaskTried
<1> QED BY <1>1, <1>2 DEF SameWork

\* Steps of a worker on the refund it has.
LEMMA SameRefund ==
  ASSUME Inv, NEW w \in Workers, Steps(w) \/ Fault(w) \/ Crash(w)
  PROVE  /\ worker[w] # NoTask
         /\ \A v \in Workers : SameWork(v)
<1>1. worker[w] # NoTask
  BY DEF Steps, RecordRefund, SendRefund, MarkSubmitted, SettleRefund, FinishRead, FinishCommit,
         Fault, Crash, At
<1>2. worker[w] \in Works
  BY <1>1, TaskOf
<1>3. ASSUME NEW t, Goes(w, t), t = NoTask \/ t.refund = worker[w].refund
      PROVE  \A v \in Workers : SameWork(v)
  BY <1>1, <1>3 DEF Goes, SameWork, Inv, Typed
<1>4. ASSUME NEW at, Goes(w, [worker[w] EXCEPT !.at = at])
      PROVE  \A v \in Workers : SameWork(v)
  <2> DEFINE t == [worker[w] EXCEPT !.at = at]
  <2>1. t.refund = worker[w].refund /\ Goes(w, t)
    BY <1>2, <1>4 DEF Works
  <2> HIDE DEF t
  <2> QED BY <1>3, <2>1
<1>5. ASSUME NEW at, NEW outcome, Goes(w, [worker[w] EXCEPT !.at = at, !.outcome = outcome])
      PROVE  \A v \in Workers : SameWork(v)
  <2> DEFINE t == [worker[w] EXCEPT !.at = at, !.outcome = outcome]
  <2>1. t.refund = worker[w].refund /\ Goes(w, t)
    BY <1>2, <1>5 DEF Works
  <2> HIDE DEF t
  <2> QED BY <1>3, <2>1
<1>6. ASSUME NEW at, NEW closes, Goes(w, [worker[w] EXCEPT !.at = at, !.closes = closes])
      PROVE  \A v \in Workers : SameWork(v)
  <2> DEFINE t == [worker[w] EXCEPT !.at = at, !.closes = closes]
  <2>1. t.refund = worker[w].refund /\ Goes(w, t)
    BY <1>2, <1>6 DEF Works
  <2> HIDE DEF t
  <2> QED BY <1>3, <2>1
<1>7. ASSUME NEW outcome, Tells(w, outcome) \/ AfterError(w) \/ Stops(w)
      PROVE  \A v \in Workers : SameWork(v)
  BY <1>3, <1>5, <1>7 DEF Tells, AfterError, Stops
<1>8. CASE RecordRefund(w)
  <2>1. Goes(w, [worker[w] EXCEPT !.at = "send"]) => \A v \in Workers : SameWork(v)
    BY <1>4
  <2> QED BY <1>1, <1>7, <1>8, <2>1 DEF RecordRefund
<1>9. CASE SendRefund(w)
  <2>1. Goes(w, [worker[w] EXCEPT !.at = "mark", !.outcome = bank'[worker[w].refund]])
          => \A v \in Workers : SameWork(v)
    BY <1>5
  <2> QED BY <1>1, <1>7, <1>9, <2>1 DEF SendRefund
<1>10. CASE MarkSubmitted(w) \/ SettleRefund(w)
  <2>1. Goes(w, [worker[w] EXCEPT !.at = "settle"]) => \A v \in Workers : SameWork(v)
    BY <1>4
  <2> QED BY <1>1, <1>7, <1>10, <2>1 DEF MarkSubmitted, SettleRefund
<1>11. CASE FinishRead(w) \/ FinishCommit(w) \/ Fault(w) \/ Crash(w)
  <2>1. Goes(w, [worker[w] EXCEPT !.at = "commit",
                   !.closes = order = "REFUND_PENDING" /\ ~OtherOpen(worker[w].refund)])
          => \A v \in Workers : SameWork(v)
    BY <1>6
  <2> QED BY <1>1, <1>7, <1>11, <2>1 DEF FinishRead, FinishCommit, Fault, Crash
<1> QED BY <1>1, <1>8, <1>9, <1>10, <1>11 DEF Steps

LEMMA TriedAsk ==
  ASSUME Inv, Inv', Tried, NEW r \in Refunds, NEW m \in Methods, NEW amount \in 0..Price,
         Ask(r, m, amount)
  PROVE  Tried' /\ \A q \in Refunds : AtOnce(q)' => AtOnce(q)
<1>1. /\ refund[r].status = "NONE" /\ UNCHANGED <<pay, worker>>
      /\ \A q \in Refunds \ {r} : refund'[q] = refund[q] /\ (q \in wallet' <=> q \in wallet)
      /\ refund'[r].attempts = 0 /\ refund'[r].method = m /\ refund'[r].amount = amount
      /\ refund'[r].status \in {"SUCCESS", "REQUESTED"}
      /\ m = "WALLET" => refund'[r].status = "SUCCESS" /\ (amount > 0 => r \in wallet')
  BY DEF Ask, Inv, Typed
<1>2. pay[r].status = "NONE" /\ \A v \in Workers : worker[v] # NoTask => worker[v].refund # r
  BY <1>1 DEF Inv, Asked, TaskAsked
<1>3. \A q \in Refunds : TriedOf(q)'
  <2>1. TriedOf(r)'
    BY <1>1, <1>2 DEF TriedOf
  <2> QED BY <1>1, <2>1 DEF Tried, TriedOf
<1>4. \A v \in Workers : TaskTried(worker[v])'
  BY <1>1, <1>2, TaskOf DEF Tried, TaskTried
<1>5. \A q \in Refunds : AtOnce(q)' => AtOnce(q)
  BY <1>1 DEF AtOnce
<1> QED BY <1>3, <1>4, <1>5 DEF Tried

LEMMA TriedCount ==
  ASSUME Inv, Inv', Tried, NEW w \in Workers, NEW r \in Refunds,
         CountTry(w, r)
  PROVE  Tried' /\ \A q \in Refunds : AtOnce(q)' => AtOnce(q)
<1>1. /\ refund' = [refund EXCEPT ![r].attempts = Min({refund[r].attempts + 1, MaxGatewayAttempts})]
      /\ UNCHANGED <<pay, wallet>> /\ refund[r].status = "REQUESTED"
  BY DEF CountTry
<1>2. Min({refund[r].attempts + 1, MaxGatewayAttempts}) > 0
      /\ Min({refund[r].attempts + 1, MaxGatewayAttempts}) >= refund[r].attempts
  <2>1. refund[r].attempts \in 0..MaxGatewayAttempts
    BY DEF Inv, Typed, Rows
  <2> QED BY <2>1, TriesBounded, AttemptsAssumption
<1>3. /\ \A q \in Refunds \ {r} : refund'[q] = refund[q]
      /\ refund'[r].attempts > 0 /\ refund'[r].attempts >= refund[r].attempts
      /\ refund'[r].status = "REQUESTED"
  BY <1>1, <1>2 DEF Inv, Typed, Rows
<1>4. \A q \in Refunds : refund[q].attempts \in Nat /\ refund'[q].attempts \in Nat
  BY DEF Inv, Typed, Rows
<1>5. \A q \in Refunds : TriedOf(q)'
  <2> SUFFICES ASSUME NEW q \in Refunds PROVE TriedOf(q)'
    OBVIOUS
  <2>1. CASE q = r
    BY <1>3, <1>4, <2>1 DEF TriedOf
  <2>2. CASE q # r
    BY <1>1, <1>3, <2>2 DEF Tried, TriedOf
  <2> QED BY <2>1, <2>2
<1>6. PICK t \in Works : Goes(w, t) /\ t.refund = r
  BY StartedWork
<1>7. \A v \in Workers : TaskTried(worker[v])'
  BY <1>3, <1>4, <1>6, TaskOf DEF Goes, Tried, TaskTried, Inv, Typed
<1>8. \A q \in Refunds : AtOnce(q)' => AtOnce(q)
  BY <1>3, <1>4 DEF AtOnce
<1> QED BY <1>5, <1>7, <1>8 DEF Tried

LEMMA TriedJob ==
  ASSUME Inv, Tried, NEW w \in Workers, NEW r \in Refunds,
         SendUnsent(w, r) \/ FetchRefund(w, r) \/ SweepProcessing(w, r)
  PROVE  Tried' /\ \A q \in Refunds : AtOnce(q)' => AtOnce(q)
<1>1. PICK t \in Works : Goes(w, t) /\ t.refund = r
  BY StartedWork
<1>2. UNCHANGED <<refund, pay, wallet>> /\ refund[r].attempts > 0
  BY DEF SendUnsent, FetchRefund, SweepProcessing, Tried, TriedOf
<1>3. \A v \in Workers : TaskTried(worker[v])'
  BY <1>1, <1>2 DEF Goes, Tried, TaskTried, Inv, Typed
<1> QED BY <1>2, <1>3 DEF Tried, TriedOf, AtOnce

\* Only a refund that was tried falls back to the wallet.
LEMMA TriedWork ==
  ASSUME Inv, Inv', Tried, NEW w \in Workers, Steps(w) \/ Fault(w) \/ Crash(w)
  PROVE  Tried' /\ \A q \in Refunds : AtOnce(q)' => AtOnce(q)
<1> DEFINE r == worker[w].refund
<1>1. worker[w] # NoTask /\ r \in Refunds /\ refund[r].attempts > 0
  BY SameRefund, TaskOf DEF Tried, TaskTried
<1>2. /\ \A q \in Refunds : q # r => /\ refund'[q] = refund[q] /\ pay'[q] = pay[q]
                                     /\ q \in wallet' <=> q \in wallet
      /\ refund'[r].attempts = refund[r].attempts
  <2>1. CASE FinishCommit(w)
    BY <1>1, <2>1 DEF FinishCommit, Inv, Typed, Rows
  <2>2. CASE ~FinishCommit(w)
    BY <1>1, <2>2 DEF Steps, RecordRefund, SendRefund, MarkSubmitted, SettleRefund, FinishRead,
       Fault, Crash, Inv, Typed
  <2> QED BY <2>1, <2>2
<1>3. \A q \in Refunds : refund[q].attempts \in Nat
  BY DEF Inv, Typed, Rows
<1>4. \A q \in Refunds : TriedOf(q)'
  <2> SUFFICES ASSUME NEW q \in Refunds PROVE TriedOf(q)'
    OBVIOUS
  <2>1. CASE q = r
    BY <1>1, <1>2, <1>3, <2>1 DEF TriedOf
  <2>2. CASE q # r
    BY <1>2, <2>2 DEF Tried, TriedOf
  <2> QED BY <2>1, <2>2
<1>5. \A v \in Workers : TaskTried(worker[v])'
  <2>1. refund' \in [Refunds -> Rows]
    BY DEF Inv, Typed
  <2>2. \A q \in Refunds : refund'[q].attempts >= refund[q].attempts
    BY <1>2, <1>3
  <2> QED BY <2>1, <2>2, SameRefund, TasksTried
<1>6. \A q \in Refunds : AtOnce(q)' => AtOnce(q)
  <2>1. refund[r].status # "NONE"
    BY <1>1 DEF Inv, Asked, TaskAsked
  <2>2. refund'[r].status # "NONE" /\ refund'[r].attempts > 0
    <3>1. refund'[r].status # "NONE"
      <4>1. CASE FinishCommit(w)
        <5>1. worker[w].outcome # "NONE" /\ worker[w].outcome \in Outcomes
          BY <1>1, <4>1 DEF FinishCommit, At, Inv, RecordIsTrue, TaskTrue, Outcomes
        <5>2. refund'[r].status \in {"SUCCESS", worker[w].outcome}
          BY <1>1, <4>1 DEF FinishCommit, Inv, Typed, Rows
        <5> QED BY <5>1, <5>2
      <4>2. CASE ~FinishCommit(w)
        <5>1. refund' = refund
          BY <4>2 DEF Steps, RecordRefund, SendRefund, MarkSubmitted, SettleRefund, FinishRead,
             Fault, Crash
        <5> QED BY <2>1, <5>1
      <4> QED BY <4>1, <4>2
    <3> QED BY <1>1, <1>2, <3>1
  <2>3. ASSUME NEW q \in Refunds, AtOnce(q)' PROVE AtOnce(q)
    <3>1. CASE q = r
      BY <2>2, <2>3, <3>1 DEF AtOnce
    <3>2. CASE q # r
      BY <1>2, <2>3, <3>2 DEF AtOnce
    <3> QED BY <3>1, <3>2
  <2> QED BY <2>3
<1> QED BY <1>4, <1>5, <1>6 DEF Tried

\* Tries are remembered, and a refund that went to the wallet at once did so
\* from the start.
LEMMA TriedBefore ==
  ASSUME Inv, Tried, [Next]_vars
  PROVE  Tried' /\ \A q \in Refunds : AtOnce(q)' => AtOnce(q)
<1> USE InvStep
<1>1. ASSUME NEW m \in Methods, NEW r \in Refunds, RefundPart(r, m)
      PROVE  Tried' /\ \A q \in Refunds : AtOnce(q)' => AtOnce(q)
  <2>1. PartAmount \in 0..Price
    BY <1>1, AmountsAssumption DEF RefundPart, Inv, Typed
  <2> QED BY <1>1, <2>1, TriedAsk DEF RefundPart
<1>2. ASSUME NEW m \in Methods, NEW amount \in 0..Price, CancelOrder(m, amount)
      PROVE  Tried' /\ \A q \in Refunds : AtOnce(q)' => AtOnce(q)
  BY <1>2, TriedAsk, CancelRefundAssumption DEF CancelOrder
<1>3. ASSUME NEW w \in Workers, NEW r \in Refunds,
             CountTry(w, r) \/ SendUnsent(w, r) \/ FetchRefund(w, r) \/ SweepProcessing(w, r)
      PROVE  Tried' /\ \A q \in Refunds : AtOnce(q)' => AtOnce(q)
  BY <1>3, TriedCount, TriedJob
<1>4. ASSUME NEW w \in Workers, Steps(w) \/ Fault(w) \/ Crash(w)
      PROVE  Tried' /\ \A q \in Refunds : AtOnce(q)' => AtOnce(q)
  BY <1>4, TriedWork
<1>5. CASE (\E r \in Refunds, to \in LateAnswers : GatewayDecides(r, to)) \/ UNCHANGED vars
  BY <1>5 DEF GatewayDecides, vars, Tried, TriedOf, TaskTried, AtOnce
<1> QED BY <1>1, <1>2, <1>3, <1>4, <1>5 DEF Next

LEMMA TriedStep == Inv /\ Tried /\ [Next]_vars => Tried'
BY TriedBefore

LEMMA AtOnceBefore ==
  ASSUME Inv, Tried, [Next]_vars, NEW q \in Refunds, AtOnce(q)'
  PROVE  AtOnce(q)
BY TriedBefore

LEMMA OnlyCancelAtWork ==
  ASSUME Inv, Tried, OthersAtOnce
  PROVE  OnlyCancel
<1>1. ASSUME NEW r \in Refunds \ {CancelRefund}
      PROVE  /\ \A w \in Workers : worker[w] # NoTask => worker[w].refund # r
             /\ pay[r].status = "NONE"
             /\ refund[r].status = "NONE" \/ (refund[r].status = "SUCCESS" /\ GivenBack(r))
  <2>1. AtOnce(r) /\ TriedOf(r) /\ refund[r].attempts \in Nat
    BY DEF OthersAtOnce, Tried, Inv, Typed, Rows
  <2>2. CASE refund[r].status = "NONE"
    BY <2>2 DEF Inv, Asked, TaskAsked
  <2>3. CASE refund[r].status # "NONE"
    BY <2>1, <2>3 DEF AtOnce, TriedOf, GivenBack, Tried, TaskTried
  <2> QED BY <2>2, <2>3
<1>2. \A w \in Workers : worker[w] # NoTask => worker[w].refund = CancelRefund
  BY <1>1, TaskOf
<1> QED BY <1>1, <1>2 DEF OnlyCancel

-----------------------------------------------------------------------------
(* An order whose other refunds went to the wallet at once: the            *)
(* cancellation's, with errors, stops and any workers.                     *)

\* Work that goes on while the order does not start to wait.
LEMMA OneTasks ==
  ASSUME Inv, OnlyCancel, OneInv, NEW w \in Workers,
         NEW t \in Tasks, Goes(w, t), TaskSuccess(t)', TaskCloses(t)',
         order' = "REFUND_PENDING" => order = "REFUND_PENDING",
         bank[CancelRefund] = "SUCCESS" => bank'[CancelRefund] = "SUCCESS"
  PROVE  \A v \in Workers : TaskSuccess(worker[v])' /\ TaskCloses(worker[v])'
<1> SUFFICES ASSUME NEW v \in Workers PROVE TaskSuccess(worker[v])' /\ TaskCloses(worker[v])'
  OBVIOUS
<1>1. CASE v = w
  BY <1>1, WorkersTyped DEF Inv, TaskSuccess, TaskCloses
<1>2. CASE v # w
  <2>1. worker'[v] = worker[v] /\ TaskSuccess(worker[v]) /\ TaskCloses(worker[v])
    BY <1>2, WorkersTyped DEF Inv, OneInv
  <2>2. worker[v] # NoTask => worker[v].refund = CancelRefund
    BY TaskOf DEF OnlyCancel
  <2> QED BY <2>1, <2>2 DEF TaskSuccess, TaskCloses
<1> QED BY <1>1, <1>2

\* Steps that leave the order and its refund as they are for the customer.
LEMMA OneWork ==
  ASSUME Inv, OnlyCancel, OneInv, NEW w \in Workers,
         NEW t \in Tasks, Goes(w, t), TaskSuccess(t)', TaskCloses(t)',
         UNCHANGED <<order, wallet>>,
         refund'[CancelRefund].status = refund[CancelRefund].status,
         refund'[CancelRefund].amount = refund[CancelRefund].amount,
         bank[CancelRefund] = "SUCCESS" => bank'[CancelRefund] = "SUCCESS"
  PROVE  OneInv'
<1>1. \A v \in Workers : TaskSuccess(worker[v])' /\ TaskCloses(worker[v])'
  BY OneTasks
<1>2. CancelGivenBack' /\ WaitsForOne'
  BY DEF OneInv, CancelGivenBack, GivenBack, WaitsForOne
<1> QED BY <1>1, <1>2 DEF OneInv

\* A task told an outcome, given up, or stopped.
LEMMA OneTold ==
  ASSUME Inv, OnlyCancel, OneInv, NEW w \in Workers, worker[w] # NoTask,
         \/ Stops(w) \/ AfterError(w) \/ Tells(w, "PROCESSING") \/ Tells(w, "FAILED")
         \/ Tells(w, "SUCCESS") /\ bank'[CancelRefund] = "SUCCESS"
  PROVE  \E t \in Tasks : Goes(w, t) /\ TaskSuccess(t)' /\ TaskCloses(t)'
<1>1. CASE Stops(w)
  BY <1>1 DEF Stops, Tasks, TaskSuccess, TaskCloses
<1>2. ASSUME NEW outcome \in Outcomes, outcome = "SUCCESS" => bank'[CancelRefund] = "SUCCESS",
             Goes(w, [worker[w] EXCEPT !.at = "finish", !.outcome = outcome])
      PROVE  \E t \in Tasks : Goes(w, t) /\ TaskSuccess(t)' /\ TaskCloses(t)'
  <2>1. PICK t \in Works : Goes(w, t) /\ t.refund = CancelRefund /\ t.at = "finish" /\ t.outcome = outcome
    <3> DEFINE t == [worker[w] EXCEPT !.at = "finish", !.outcome = outcome]
    <3>1. t \in Works /\ t.refund = CancelRefund /\ t.at = "finish" /\ t.outcome = outcome /\ Goes(w, t)
      BY <1>2, TaskOf DEF Works, OnlyCancel
    <3> HIDE DEF t
    <3> QED BY <3>1
  <2> QED BY <1>2, <2>1 DEF Tasks, TaskSuccess, TaskCloses
<1> QED BY <1>1, <1>2 DEF AfterError, Tells, Outcomes

LEMMA OneCancel ==
  ASSUME Inv, OnlyCancel, NEW m \in Methods, NEW amount \in 0..Price,
         CancelOrder(m, amount)
  PROVE  OneInv'
<1>1. /\ refund[CancelRefund].status = "NONE" /\ worker' = worker
      /\ refund'[CancelRefund].amount = amount
      /\ refund'[CancelRefund].status = IF m = "WALLET" \/ amount = 0 THEN "SUCCESS" ELSE "REQUESTED"
      /\ m = "WALLET" /\ amount > 0 => CancelRefund \in wallet'
      /\ order' = CASE amount = 0                 -> "CANCELLED"
                  [] amount > 0 /\ m = "WALLET"  -> "REFUNDED"
                  [] OTHER                       -> "REFUND_PENDING"
  BY CancelRefundAssumption DEF CancelOrder, Ask, Inv, Typed
<1>2. \A v \in Workers : worker[v] = NoTask
  BY <1>1, TaskOf DEF TaskAsked, OnlyCancel
<1>3. \A v \in Workers : TaskSuccess(worker[v])' /\ TaskCloses(worker[v])'
  BY <1>1, <1>2 DEF TaskSuccess, TaskCloses
<1>4. amount # 0 => amount > 0
  OBVIOUS
<1>5. order' = "REFUNDED" => CancelRefund \in wallet'
  BY <1>1, <1>4
<1>6. order' = "REFUND_PENDING" => refund'[CancelRefund].status = "REQUESTED"
  BY <1>1
<1> QED BY <1>3, <1>5, <1>6 DEF OneInv, CancelGivenBack, GivenBack, WaitsForOne

\* The sweep's test, that the payment has refunded enough, can only hold for the
\* one refund there is.
LEMMA CoveredIsDone ==
  ASSUME Inv, OnlyCancel, Covered(CancelRefund)
  PROVE  bank[CancelRefund] = "SUCCESS"
<1>1. refunded # 0
  BY DEF Covered, IntentStatus
<1>2. Sum({}) = 0
  BY SumOfEmpty DEF Sum
<1>3. Done # {} /\ Done \subseteq {CancelRefund}
  BY <1>1, <1>2 DEF Inv, Shared, Done, OnlyCancel
<1> QED BY <1>3 DEF Done, Inv, RecordIsTrue, Final

LEMMA OneJob ==
  ASSUME Inv, OnlyCancel, OneInv, NEW w \in Workers, NEW r \in Refunds,
         CountTry(w, r) \/ SendUnsent(w, r) \/ FetchRefund(w, r) \/ SweepProcessing(w, r)
  PROVE  OneInv'
<1>1. r = CancelRefund
  BY DEF OnlyCancel, CountTry, SendUnsent, FetchRefund, SweepProcessing
<1>2. /\ UNCHANGED <<order, wallet, bank>>
      /\ refund'[r].status = refund[r].status /\ refund'[r].amount = refund[r].amount
  BY DEF CountTry, SendUnsent, FetchRefund, SweepProcessing, Inv, Typed, Rows
<1>3. PICK t \in Works : /\ Goes(w, t) /\ t.refund = r /\ t.at # "commit"
                         /\ t.at = "finish" => bank[r] = "SUCCESS"
  BY <1>1, StartedWork, CoveredIsDone
<1>4. t \in Tasks /\ TaskSuccess(t)' /\ TaskCloses(t)'
  BY <1>2, <1>3 DEF Tasks, TaskSuccess, TaskCloses
<1> QED BY <1>1, <1>2, <1>3, <1>4, OneWork

LEMMA OneOnTheWay ==
  ASSUME Inv, OnlyCancel, OneInv, NEW w \in Workers,
         RecordRefund(w) \/ SendRefund(w) \/ MarkSubmitted(w) \/ Fault(w) \/ Crash(w)
  PROVE  OneInv'
<1> DEFINE c == CancelRefund
<1>1. /\ worker[w] # NoTask /\ worker[w] \in Works /\ worker[w].refund = c /\ TaskTrue(worker[w])
      /\ UNCHANGED <<order, wallet, refund>> /\ pay[c] \in Pays
      /\ pay[c].status \in Final => bank[c] = pay[c].status
  <2>1. worker[w] # NoTask
    BY DEF RecordRefund, SendRefund, MarkSubmitted, Fault, Crash, At
  <2> QED BY <2>1, TaskOf
          DEF OnlyCancel, RecordRefund, SendRefund, MarkSubmitted, Fault, Crash, Inv, RecordIsTrue
<1>2. bank[c] = "SUCCESS" => bank'[c] = "SUCCESS"
  BY <1>1 DEF RecordRefund, SendRefund, MarkSubmitted, Fault, Crash, Inv, Typed
<1>3. ASSUME NEW t \in Works, Goes(w, t), t.refund = c, t.at \notin {"finish", "commit"}
      PROVE  \E u \in Tasks : Goes(w, u) /\ TaskSuccess(u)' /\ TaskCloses(u)'
  BY <1>3 DEF Tasks, TaskSuccess, TaskCloses
<1>4. ASSUME NEW at \in {"send", "settle"}, Goes(w, [worker[w] EXCEPT !.at = at])
      PROVE  \E u \in Tasks : Goes(w, u) /\ TaskSuccess(u)' /\ TaskCloses(u)'
  <2>1. PICK t \in Works : Goes(w, t) /\ t.refund = c /\ t.at = at
    BY <1>1, <1>4 DEF Works
  <2> QED BY <1>3, <2>1
<1>5. \E t \in Tasks : Goes(w, t) /\ TaskSuccess(t)' /\ TaskCloses(t)'
  <2>1. CASE RecordRefund(w)
    <3>1. bank' = bank
      BY <2>1 DEF RecordRefund
    <3> QED BY <1>1, <1>4, <2>1, <3>1, OneTold DEF RecordRefund, Final
  <2>2. CASE SendRefund(w)
    <3>1. CASE pay[c].status \in Final /\ Tells(w, pay[c].status)
      BY <1>1, <1>2, <3>1, OneTold DEF Final
    <3>2. CASE Goes(w, [worker[w] EXCEPT !.at = "mark", !.outcome = bank'[c]]) /\ bank'[c] # "NONE"
               /\ bank'[c] \in {"NONE", "PENDING"} \union Final
      <4>1. PICK t \in Works : Goes(w, t) /\ t.refund = c /\ t.at = "mark"
        <5>1. bank'[c] \in Outcomes \union {"PENDING"}
          BY <3>2 DEF Final, Outcomes
        <5> DEFINE t == [worker[w] EXCEPT !.at = "mark", !.outcome = bank'[c]]
        <5>2. t \in Works /\ t.refund = c /\ t.at = "mark" /\ Goes(w, t)
          BY <1>1, <3>2, <5>1 DEF Works
        <5> HIDE DEF t
        <5> QED BY <5>2
      <4> QED BY <1>3, <4>1
    <3>3. CASE Tells(w, "PROCESSING")
      BY <1>1, <3>3, OneTold
    <3>4. bank'[c] \in {"NONE", "PENDING"} \union Final
      BY <1>1, <2>2, AnswersAssumption, CancelRefundAssumption DEF SendRefund, Inv, Typed, Final
    <3> QED BY <1>1, <2>2, <3>1, <3>2, <3>3, <3>4 DEF SendRefund, AfterLostCall
  <2>3. CASE MarkSubmitted(w)
    BY <1>1, <1>4, <2>3, OneTold DEF MarkSubmitted
  <2>4. CASE Fault(w) \/ Crash(w)
    BY <1>1, <2>4, OneTold DEF Fault, Crash
  <2> QED BY <2>1, <2>2, <2>3, <2>4
<1> QED BY <1>1, <1>2, <1>5, OneWork

LEMMA OneSettle ==
  ASSUME Inv, OnlyCancel, OneInv, NEW w \in Workers, SettleRefund(w)
  PROVE  OneInv'
<1> DEFINE c == CancelRefund
           to == worker[w].outcome
<1>1. /\ worker[w] # NoTask /\ worker[w].refund = c /\ to \in Final /\ bank[c] = to
      /\ UNCHANGED <<wallet, refund, bank>> /\ pay[c] \in Pays
      /\ pay[c].status # "NONE" /\ (pay[c].status \in Final => bank[c] = pay[c].status)
  <2>1. worker[w] # NoTask /\ worker[w].at = "settle"
    BY DEF SettleRefund, At
  <2> QED BY <2>1, TaskOf DEF OnlyCancel, SettleRefund, TaskTrue, Inv, RecordIsTrue
<1>2. order' = order \/ (order' = "REFUNDED" /\ bank[c] = "SUCCESS")
  BY <1>1 DEF SettleRefund
<1>3. Tells(w, to)
  BY <1>1 DEF SettleRefund, Unsettled, Pays, Final
<1>4. PICK t \in Tasks : Goes(w, t) /\ TaskSuccess(t)' /\ TaskCloses(t)'
  BY <1>1, <1>3, OneTold DEF Final
<1>5. \A v \in Workers : TaskSuccess(worker[v])' /\ TaskCloses(worker[v])'
  BY <1>1, <1>2, <1>4, OneTasks
<1>6. CancelGivenBack' /\ WaitsForOne'
  BY <1>1, <1>2 DEF OneInv, CancelGivenBack, GivenBack, WaitsForOne
<1> QED BY <1>5, <1>6 DEF OneInv

\* No other refund keeps the order open, so the one that ends closes it.
LEMMA OneFinishRead ==
  ASSUME Inv, OnlyCancel, OneInv, NEW w \in Workers, FinishRead(w)
  PROVE  OneInv'
<1> DEFINE c == CancelRefund
<1>1. /\ worker[w] # NoTask /\ worker[w].refund = c /\ worker[w].at = "finish" /\ worker[w] \in Works
      /\ UNCHANGED <<order, wallet, refund, bank>> /\ TaskSuccess(worker[w])
  <2>1. worker[w] # NoTask /\ worker[w].at = "finish"
    BY DEF FinishRead, At
  <2> QED BY <2>1, TaskOf DEF OnlyCancel, FinishRead, OneInv
<1>2. ~OtherOpen(c)
  BY DEF OtherOpen, OnlyCancel
<1>3. CASE Stops(w)
  BY <1>1, <1>3, OneTold, OneWork
<1>4. CASE Goes(w, [worker[w] EXCEPT !.at = "commit", !.closes = order = "REFUND_PENDING"])
  <2>1. PICK closes \in BOOLEAN : closes <=> order = "REFUND_PENDING"
    OBVIOUS
  <2>2. closes = (order = "REFUND_PENDING")
    BY <2>1
  <2>3. PICK t \in Works : /\ Goes(w, t) /\ t.refund = c /\ t.at = "commit"
                           /\ t.outcome = worker[w].outcome /\ t.closes = closes
    <3> DEFINE t == [worker[w] EXCEPT !.at = "commit", !.closes = closes]
    <3>1. /\ t \in Works /\ t.refund = c /\ t.at = "commit"
          /\ t.outcome = worker[w].outcome /\ t.closes = closes
      BY <1>1 DEF Works
    <3>2. Goes(w, t)
      BY <1>4, <2>2
    <3> QED BY <3>1, <3>2
  <2>4. t \in Tasks /\ TaskSuccess(t)' /\ TaskCloses(t)'
    BY <1>1, <2>1, <2>3 DEF Tasks, TaskSuccess, TaskCloses
  <2> QED BY <1>1, <2>3, <2>4, OneWork
<1>5. (order = "REFUND_PENDING" /\ ~OtherOpen(c)) = (order = "REFUND_PENDING")
  BY <1>2
<1> QED BY <1>1, <1>3, <1>4, <1>5 DEF FinishRead

LEMMA OneFinishCommit ==
  ASSUME Inv, OnlyCancel, OneInv, NEW w \in Workers, FinishCommit(w)
  PROVE  OneInv'
<1> DEFINE c == CancelRefund
           to == worker[w].outcome
<1>1. /\ worker[w] # NoTask /\ worker[w].refund = c /\ worker[w].at = "commit" /\ to \in Outcomes
      /\ to = "SUCCESS" => bank[c] = "SUCCESS"
      /\ order = "REFUND_PENDING" => worker[w].closes
  <2>1. worker[w] # NoTask /\ worker[w].at = "commit"
    BY DEF FinishCommit, At
  <2> QED BY <2>1, TaskOf DEF OnlyCancel, TaskTrue, OneInv, TaskSuccess, TaskCloses
<1>2. /\ bank' = bank /\ refund'[c].amount = refund[c].amount
      /\ refund'[c].status = IF to = "FAILED" THEN "SUCCESS" ELSE to
      /\ wallet' = IF to = "FAILED" THEN wallet \union {c} ELSE wallet
      /\ order' = IF to # "PROCESSING" /\ worker[w].closes THEN "REFUNDED" ELSE order
  BY <1>1, CancelRefundAssumption DEF FinishCommit, Inv, Typed, Rows
<1>3. PICK t \in Tasks : Goes(w, t) /\ TaskSuccess(t)' /\ TaskCloses(t)'
  BY <1>1, OneTold DEF FinishCommit
<1>4. order' = "REFUND_PENDING" => order = "REFUND_PENDING" /\ to = "PROCESSING"
  BY <1>1, <1>2
<1>5. \A v \in Workers : TaskSuccess(worker[v])' /\ TaskCloses(worker[v])'
  BY <1>2, <1>3, <1>4, OneTasks
<1>6. WaitsForOne'
  BY <1>2, <1>4 DEF WaitsForOne
<1>7. order' = "REFUNDED" => order = "REFUNDED" \/ to \in {"SUCCESS", "FAILED"}
  BY <1>1, <1>2 DEF Outcomes, Final
<1>8. CancelGivenBack'
  BY <1>1, <1>2, <1>7 DEF OneInv, CancelGivenBack, GivenBack, Inv, Asked, TaskAsked
<1> QED BY <1>5, <1>6, <1>8 DEF OneInv

LEMMA OneStep ==
  ASSUME Inv, OnlyCancel, OneInv, [Next]_vars
  PROVE  OneInv'
<1>1. ASSUME NEW m \in Methods, NEW r \in Refunds, RefundPart(r, m) PROVE OneInv'
  <2>1. /\ order = "CONFIRMED" /\ order' = order /\ UNCHANGED <<worker, bank>>
    BY <1>1 DEF RefundPart, Ask
  <2> QED BY <2>1 DEF OneInv, CancelGivenBack, WaitsForOne, TaskSuccess, TaskCloses
<1>2. ASSUME NEW m \in Methods, NEW amount \in 0..Price, CancelOrder(m, amount) PROVE OneInv'
  BY <1>2, OneCancel
<1>3. ASSUME NEW w \in Workers, NEW r \in Refunds,
             \/ CountTry(w, r) \/ SendUnsent(w, r)
             \/ FetchRefund(w, r) \/ SweepProcessing(w, r)
      PROVE  OneInv'
  BY <1>3, OneJob
<1>4. ASSUME NEW w \in Workers, Steps(w) \/ Fault(w) \/ Crash(w) PROVE OneInv'
  BY <1>4, OneOnTheWay, OneSettle, OneFinishRead, OneFinishCommit DEF Steps
<1>5. ASSUME NEW r \in Refunds, NEW to \in LateAnswers, GatewayDecides(r, to) PROVE OneInv'
  <2>1. /\ UNCHANGED <<order, refund, wallet, worker>> /\ bank[CancelRefund] = "PENDING"
        /\ bank' = [bank EXCEPT ![CancelRefund] = to]
    <3>1. r = CancelRefund
      BY <1>5 DEF GatewayDecides, OnlyCancel, Inv, RecordIsTrue
    <3> QED BY <1>5, <3>1 DEF GatewayDecides
  <2>2. \A v \in Workers : TaskSuccess(worker[v])' /\ TaskCloses(worker[v])'
    <3> SUFFICES ASSUME NEW v \in Workers PROVE TaskSuccess(worker[v])' /\ TaskCloses(worker[v])'
      OBVIOUS
    <3>1. worker[v] # NoTask => worker[v].refund = CancelRefund
      BY TaskOf DEF OnlyCancel
    <3>2. TaskSuccess(worker[v]) /\ TaskCloses(worker[v])
      BY DEF OneInv
    <3> QED BY <2>1, <3>1, <3>2 DEF TaskSuccess, TaskCloses
  <2>3. CancelGivenBack' /\ WaitsForOne'
    BY <2>1 DEF OneInv, CancelGivenBack, GivenBack, WaitsForOne
  <2> QED BY <2>2, <2>3 DEF OneInv
<1>6. CASE UNCHANGED vars
  BY <1>6 DEF vars, OneInv, CancelGivenBack, GivenBack, WaitsForOne, TaskSuccess, TaskCloses
<1> QED BY <1>1, <1>2, <1>3, <1>4, <1>5, <1>6 DEF Next

LEMMA OneInit == Init => OneInv
BY DEF Init, OneInv, CancelGivenBack, WaitsForOne, TaskSuccess, TaskCloses

LEMMA OneHolds == Spec => [](Inv /\ Tried /\ (OthersAtOnce => OneInv))
<1>1. ASSUME Inv, Tried, OthersAtOnce => OneInv, [Next]_vars, OthersAtOnce' PROVE OneInv'
  <2>1. OthersAtOnce
    BY <1>1, AtOnceBefore DEF OthersAtOnce
  <2> QED BY <1>1, <2>1, OnlyCancelAtWork, OneStep
<1>2. Inv /\ Tried /\ (OthersAtOnce => OneInv) /\ [Next]_vars
        => Inv' /\ Tried' /\ (OthersAtOnce => OneInv)'
  BY <1>1, InvStep, TriedStep
<1> QED BY <1>2, OneInit, InitInv, TriedInit, PTL DEF Spec

\* As long as the refunds of its lines went to the wallet when they were asked
\* for (or there are none), an order shows REFUNDED only once all its money is
\* with the customer, whatever fails and whoever works on the cancellation's.
THEOREM RefundedIsGivenBack == Spec => [](OthersAtOnce => RefundedMeansGivenBack)
<1>1. ASSUME Inv, Tried, OthersAtOnce, OneInv PROVE RefundedMeansGivenBack
  BY <1>1, OnlyCancelAtWork DEF OneInv, CancelGivenBack, OnlyCancel, RefundedMeansGivenBack
<1> QED BY <1>1, OneHolds, PTL

\* Nor is it then left waiting when nothing is left to do (refunds.ts:723).
THEOREM NeverLeftWaiting == Spec => [](OthersAtOnce => NotLeftWaiting)
<1>1. ASSUME OneInv PROVE NotLeftWaiting
  BY <1>1, CancelRefundAssumption DEF OneInv, WaitsForOne, NotLeftWaiting, Settled
<1> QED BY <1>1, OneHolds, PTL
=============================================================================
