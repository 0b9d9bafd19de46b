------------------------ MODULE RiderTransfersProofs ------------------------
(***************************************************************************)
(* Theorems about RiderTransfers for any number of payouts, attempts and   *)
(* workers and any answers of the bank: an attempt is sent once, a payout  *)
(* shows as paid only when the bank paid, a payout holds items worth its   *)
(* amount, the whole implements RiderBalance, and what was earned is always *)
(* what is unpaid and what the payouts took.                               *)
(***************************************************************************)
EXTENDS RiderTransfers, SumTheorems

Rows == [status : Statuses, kind : {"WITHDRAWAL", "MONTHLY"}, attempts : 0..MaxAttempts,
         retries : Nat, review : BOOLEAN, due : BOOLEAN]
Works == [payout : Payouts, at : {"unflag", "claim", "call", "apply", "hold"},
          attempt : 0..MaxAttempts, answer : Answers]
BankStates == {"none", "accepted", "paid", "refused", "returned"}

\* The types the first argument needs; MoneyTypes has those of what is summed up.
Typed ==
  /\ transfer \in [Payouts -> Rows]
  /\ bank \in [Payouts \X Attempts -> BankStates]
  /\ task \in [Workers -> Works \union {NoTask}]

Moved == {"paid", "returned"}
Working(w, at) == task[w] # NoTask /\ task[w].at = at

\* Payouts are numbered without gaps (a run takes the next number).
Numbered == \A p, q \in Payouts : p < q /\ transfer[q].status # "NONE" => transfer[p].status # "NONE"

\* The bank knows nothing of an attempt that was not counted, nor of one that
\* a worker is about to send; two workers never send one attempt.
SentOnce ==
  /\ \A p \in Payouts, n \in Attempts : n > transfer[p].attempts => bank[<<p, n>>] = "none"
  /\ \A p \in Payouts : transfer[p].status = "NONE" => transfer[p].attempts = 0
  /\ \A w \in Workers : task[w] # NoTask => transfer[task[w].payout].status # "NONE"
  /\ \A w \in Workers : Working(w, "call") =>
       /\ task[w].attempt \in 1..transfer[task[w].payout].attempts
       /\ bank[<<task[w].payout, task[w].attempt>>] = "none"
  /\ \A v, w \in Workers :
       v # w /\ Working(v, "call") /\ Working(w, "call") /\ task[v].payout = task[w].payout
         => task[v].attempt # task[w].attempt

\* A success in a worker's hands is one the bank has on record for good.
SuccessHolds ==
  \A w \in Workers : Working(w, "apply") /\ task[w].answer = "SUCCESS" =>
    /\ task[w].attempt \in Attempts
    /\ bank[<<task[w].payout, task[w].attempt>>] \in Moved

Inv == Typed /\ Numbered /\ SentOnce /\ SuccessHolds /\ SuccessIsPaid

-----------------------------------------------------------------------------

LEMMA TaskSet ==
  ASSUME task \in [Workers -> Works \union {NoTask}], NEW w \in Workers,
         NEW t \in Works \union {NoTask}, task' = [task EXCEPT ![w] = t]
  PROVE  /\ task' \in [Workers -> Works \union {NoTask}]
         /\ task'[w] = t
         /\ \A v \in Workers \ {w} : task'[v] = task[v]
OBVIOUS

LEMMA AWork ==
  ASSUME NEW p \in Payouts, NEW at \in {"unflag", "claim", "call", "apply", "hold"},
         NEW n \in 0..MaxAttempts, NEW a \in Answers
  PROVE  /\ Task(p, at, n, a) \in Works
         /\ Task(p, at, n, a).payout = p
         /\ Task(p, at, n, a).at = at
         /\ Task(p, at, n, a).attempt = n
         /\ Task(p, at, n, a).answer = a
BY DEF Task, Works

LEMMA InitInv == Init => Inv
<1> SUFFICES ASSUME Init PROVE Inv
  OBVIOUS
<1>1. NoTransfer \in Rows
  BY BoundsAssumption DEF NoTransfer, Rows, Statuses
<1>2. Typed
  BY <1>1 DEF Init, Typed, BankStates
<1>3. Numbered /\ SuccessIsPaid
  BY DEF Init, Numbered, SuccessIsPaid, NoTransfer
<1>4. SentOnce /\ SuccessHolds
  BY DEF Init, SentOnce, SuccessHolds, NoTransfer, Working
<1> QED BY <1>2, <1>3, <1>4 DEF Inv

\* A step that sends nothing and counts nothing.
LEMMA QuietStep ==
  ASSUME Inv, bank' = bank,
         transfer' \in [Payouts -> Rows],
         task' \in [Workers -> Works \union {NoTask}],
         \A p \in Payouts :
           /\ transfer'[p].attempts = transfer[p].attempts
           /\ transfer'[p].status = "NONE" <=> transfer[p].status = "NONE"
           /\ transfer'[p].status = "SUCCESS" /\ transfer[p].status # "SUCCESS" =>
                \E n \in Attempts : bank[<<p, n>>] \in Moved,
         \A v \in Workers : task'[v] # NoTask => transfer[task'[v].payout].status # "NONE",
         \A v \in Workers : Working(v, "call")' => task'[v] = task[v],
         \A v \in Workers : Working(v, "apply")' /\ task'[v].answer = "SUCCESS" =>
           \/ task'[v] = task[v]
           \/ /\ task'[v].attempt \in Attempts
              /\ bank[<<task'[v].payout, task'[v].attempt>>] \in Moved
  PROVE  Inv'
<1>1. Typed'
  BY DEF Inv, Typed
<1>2. Numbered'
  BY DEF Inv, Numbered
<1>3. SuccessIsPaid'
  BY DEF Inv, SuccessIsPaid, Moved
<1>4. SuccessHolds'
  BY DEF Inv, SuccessHolds, Working
<1>5. SentOnce'
  <2>1. \A w \in Workers : task'[w] # NoTask => task'[w].payout \in Payouts
    BY DEF Works
  <2>2. \A w \in Workers : task'[w] # NoTask => transfer'[task'[w].payout].status # "NONE"
    BY <2>1
  <2>3. \A w \in Workers : Working(w, "call")' =>
          /\ Working(w, "call")
          /\ task'[w] = task[w]
          /\ task'[w].payout \in Payouts
          /\ transfer'[task'[w].payout].attempts = transfer[task[w].payout].attempts
    BY <2>1 DEF Working
  <2> QED BY <2>2, <2>3 DEF Inv, SentOnce, Working
<1> QED BY <1>1, <1>2, <1>3, <1>4, <1>5 DEF Inv

\* The next number is one past a prefix: it is free, and all below are taken.
Used == {q \in Payouts : transfer[q].status # "NONE"}

LEMMA NextNumber ==
  ASSUME Typed, Numbered, NEW p \in Payouts, p = 1 + Cardinality(Used)
  PROVE  /\ transfer[p].status = "NONE"
         /\ \A q \in Payouts : q < p => transfer[q].status # "NONE"
<1>1. IsFiniteSet(Payouts) /\ IsFiniteSet(Used) /\ Cardinality(Used) \in Nat
  <2>1. IsFiniteSet(Payouts)
    BY BoundsAssumption, FS_Interval DEF Payouts
  <2> QED BY <2>1, FS_Subset, FS_CardinalityType DEF Used
<1>2. transfer[p].status = "NONE"
  <2> SUFFICES ASSUME transfer[p].status # "NONE" PROVE FALSE
    OBVIOUS
  <2>1. 1..p \subseteq Used
    BY BoundsAssumption DEF Numbered, Used, Payouts
  <2>2. IsFiniteSet(1..p) /\ Cardinality(1..p) = p
    <3>1. p \in Int /\ 1 <= p
      BY BoundsAssumption DEF Payouts
    <3>2. /\ IsFiniteSet(1..p)
          /\ Cardinality(1..p) = IF 1 > p THEN 0 ELSE p - 1 + 1
      BY <3>1, FS_Interval
    <3> QED BY <3>1, <3>2
  <2>3. Cardinality(1..p) <= Cardinality(Used)
    BY <1>1, <2>1, FS_Subset
  <2> QED BY <1>1, <2>2, <2>3
<1>3. ASSUME NEW q \in Payouts, q < p, transfer[q].status = "NONE" PROVE FALSE
  <2>1. Used \subseteq 1..(q - 1)
    <3> SUFFICES ASSUME NEW r \in Used PROVE r \in 1..(q - 1)
      OBVIOUS
    <3>1. r \in Payouts /\ ~(q < r) /\ r # q
      BY <1>3 DEF Used, Numbered
    <3> QED BY <3>1, BoundsAssumption DEF Payouts
  <2>2. IsFiniteSet(1..(q - 1)) /\ Cardinality(1..(q - 1)) = q - 1
    <3>1. q \in Int /\ 1 <= q
      BY BoundsAssumption DEF Payouts
    <3>2. q - 1 \in Int
      BY <3>1
    <3>3. /\ IsFiniteSet(1..(q - 1))
          /\ Cardinality(1..(q - 1)) = IF 1 > q - 1 THEN 0 ELSE (q - 1) - 1 + 1
      BY <3>2, FS_Interval
    <3> QED BY <3>1, <3>3
  <2>3. Cardinality(Used) <= q - 1
    BY <2>1, <2>2, FS_Subset
  <2> QED BY <1>1, <1>3, <2>3, BoundsAssumption DEF Payouts
<1> QED BY <1>2, <1>3

\* A payout is claimed: a fresh row and a worker that will send it.
LEMMA ClaimStep ==
  ASSUME Inv, NEW w \in Workers, NEW S, NEW kind \in {"WITHDRAWAL", "MONTHLY"}, NEW what,
         ClaimItems(w, S, kind, what)
  PROVE  Inv'
<1> DEFINE p == 1 + Cardinality(Used)
           r == [NoTransfer EXCEPT !.status = "PENDING", !.kind = kind]
           t == Task(p, "claim", 0, "UNKNOWN")
<1>1. /\ p \in Payouts /\ bank' = bank /\ task[w] = NoTask
      /\ transfer' = [transfer EXCEPT ![p] = r]
      /\ task' = [task EXCEPT ![w] = t]
  BY DEF ClaimItems, Used
<1>2. Typed /\ Numbered /\ SentOnce /\ SuccessHolds /\ SuccessIsPaid
  BY DEF Inv
<1>3. transfer[p].status = "NONE" /\ \A q \in Payouts : q < p => transfer[q].status # "NONE"
  BY <1>1, <1>2, NextNumber
<1>4. NoTransfer \in Rows /\ NoTransfer.attempts = 0
  BY BoundsAssumption DEF NoTransfer, Rows, Statuses
<1>5. r \in Rows /\ r.status = "PENDING" /\ r.attempts = 0
  BY <1>4 DEF Rows, Statuses, Open
<1>6. /\ t \in Works /\ t.payout = p /\ t.at = "claim"
  BY <1>1, AWork, BoundsAssumption DEF Answers
<1> HIDE DEF p, r, t
<1>7. /\ transfer' \in [Payouts -> Rows]
      /\ transfer'[p] = r
      /\ \A q \in Payouts \ {p} : transfer'[q] = transfer[q]
  BY <1>1, <1>2, <1>5 DEF Typed
<1>8. /\ task' \in [Workers -> Works \union {NoTask}]
      /\ task'[w] = t
      /\ \A v \in Workers \ {w} : task'[v] = task[v]
  BY <1>1, <1>2, <1>6, TaskSet DEF Typed
<1>9. Typed'
  BY <1>1, <1>2, <1>7, <1>8 DEF Typed
<1>10. Numbered'
  BY <1>1, <1>2, <1>3, <1>5, <1>7 DEF Numbered, Payouts
<1>11. SuccessIsPaid'
  BY <1>1, <1>2, <1>5, <1>7 DEF SuccessIsPaid
<1>12. SuccessHolds'
  BY <1>1, <1>2, <1>6, <1>8 DEF SuccessHolds, Working
<1>13. \A v \in Workers : task[v] # NoTask => task[v].payout \in Payouts /\ task[v].payout # p
  BY <1>2, <1>3 DEF Typed, SentOnce, Works
<1>14. SentOnce'
  <2>1. \A q \in Payouts : transfer'[q].attempts = transfer[q].attempts
    BY <1>2, <1>3, <1>5, <1>7 DEF SentOnce
  <2>2. \A v \in Workers : task'[v] # NoTask => transfer'[task'[v].payout].status # "NONE"
    BY <1>2, <1>5, <1>6, <1>7, <1>8, <1>13 DEF SentOnce
  <2>3. \A v \in Workers : Working(v, "call")' => task'[v] = task[v] /\ Working(v, "call")
    BY <1>6, <1>8 DEF Working
  <2>4. \A q \in Payouts : transfer'[q].status = "NONE" => transfer[q].status = "NONE"
    BY <1>5, <1>7
  <2>5. \A v \in Workers : Working(v, "call")' =>
          transfer'[task'[v].payout].attempts = transfer[task[v].payout].attempts
    BY <1>13, <2>1, <2>3 DEF Working
  <2> QED BY <1>1, <1>2, <2>1, <2>2, <2>3, <2>4, <2>5 DEF SentOnce
<1> QED BY <1>9, <1>10, <1>11, <1>12, <1>14 DEF Inv

\* An attempt is counted, by a worker that will send it.
LEMMA CountStep ==
  ASSUME Inv, NEW w \in Workers, NEW p \in Payouts, At(w, "claim"), p = task[w].payout,
         transfer[p].attempts < MaxAttempts, transfer[p].status # "SUCCESS", bank' = bank,
         NEW r \in Rows, r.attempts = transfer[p].attempts + 1, r.status = "PROCESSING",
         transfer' = [transfer EXCEPT ![p] = r],
         task' = [task EXCEPT ![w] = Task(p, "call", transfer[p].attempts + 1, "UNKNOWN")]
  PROVE  Inv'
<1> DEFINE n == transfer[p].attempts + 1
           t == Task(p, "call", n, "UNKNOWN")
<1>1. Typed /\ Numbered /\ SentOnce /\ SuccessHolds /\ SuccessIsPaid
  BY DEF Inv
<1>2. transfer[p] \in Rows /\ transfer[p].attempts \in 0..MaxAttempts
  BY <1>1 DEF Typed, Rows
<1>3. n \in 0..MaxAttempts /\ n \in Attempts
  BY <1>2, BoundsAssumption DEF Attempts
<1>4. t \in Works /\ t.payout = p /\ t.at = "call" /\ t.attempt = n
  BY <1>3, AWork DEF Answers
<1>5. task' = [task EXCEPT ![w] = t]
  OBVIOUS
<1> HIDE DEF t
<1>6. /\ transfer' \in [Payouts -> Rows]
      /\ transfer'[p] = r
      /\ \A q \in Payouts \ {p} : transfer'[q] = transfer[q]
  BY <1>1 DEF Typed
<1>7. /\ task' \in [Workers -> Works \union {NoTask}]
      /\ task'[w] = t
      /\ \A v \in Workers \ {w} : task'[v] = task[v]
  BY <1>1, <1>4, <1>5, TaskSet DEF Typed
<1>8. Typed'
  BY <1>1, <1>6, <1>7 DEF Typed
<1>9. transfer[p].status # "NONE"
  BY <1>1 DEF SentOnce, At
<1>10. Numbered'
  BY <1>1, <1>6, <1>9 DEF Numbered
<1>11. SuccessIsPaid'
  BY <1>1, <1>6 DEF SuccessIsPaid
<1>12. SuccessHolds'
  BY <1>1, <1>4, <1>7 DEF SuccessHolds, Working
<1>13. SentOnce'
  <2>1. \A v \in Workers : task[v] # NoTask => task[v].payout \in Payouts
    BY <1>1 DEF Typed, Works
  <2>2. \A q \in Payouts, m \in Attempts : m > transfer'[q].attempts => bank'[<<q, m>>] = "none"
    <3> SUFFICES ASSUME NEW q \in Payouts, NEW m \in Attempts, m > transfer'[q].attempts
                 PROVE  bank[<<q, m>>] = "none"
      OBVIOUS
    <3>1. transfer[q].attempts \in Nat /\ m \in Nat
      BY <1>1, BoundsAssumption DEF Typed, Rows, Attempts
    <3>2. m > transfer[q].attempts
      BY <1>2, <1>6, <3>1
    <3> QED BY <1>1, <3>2 DEF SentOnce
  <2>3. \A q \in Payouts : transfer'[q].status = "NONE" => transfer'[q].attempts = 0
    BY <1>1, <1>6 DEF SentOnce
  <2>4. \A v \in Workers : task'[v] # NoTask => transfer'[task'[v].payout].status # "NONE"
    BY <1>1, <1>4, <1>6, <1>7, <2>1 DEF SentOnce
  <2>5. bank[<<p, n>>] = "none"
    BY <1>1, <1>2, <1>3 DEF SentOnce
  <2>6. ASSUME NEW v \in Workers, Working(v, "call")'
        PROVE  /\ task'[v].attempt \in 1..transfer'[task'[v].payout].attempts
               /\ bank'[<<task'[v].payout, task'[v].attempt>>] = "none"
    <3>1. CASE v = w
      BY <1>2, <1>4, <1>6, <1>7, <2>5, <3>1
    <3>2. CASE v # w
      <4>1. task'[v] = task[v] /\ Working(v, "call") /\ task[v].payout \in Payouts
        BY <1>7, <2>1, <2>6, <3>2 DEF Working
      <4>2. /\ task[v].attempt \in 1..transfer[task[v].payout].attempts
            /\ bank[<<task[v].payout, task[v].attempt>>] = "none"
        BY <1>1, <4>1 DEF SentOnce
      <4>3. CASE task[v].payout = p
        BY <1>2, <1>6, <4>1, <4>2, <4>3
      <4>4. CASE task[v].payout # p
        BY <1>6, <4>1, <4>2, <4>4
      <4> QED BY <4>3, <4>4
    <3> QED BY <3>1, <3>2
  <2>7. ASSUME NEW v \in Workers, v # w, Working(v, "call"), task[v].payout = p
        PROVE  task[v].attempt # n
    <3>1. task[v].attempt \in 1..transfer[p].attempts
      BY <1>1, <2>7 DEF SentOnce
    <3> QED BY <1>2, <3>1
  <2>8. ASSUME NEW u \in Workers, NEW v \in Workers, u # v, Working(u, "call")',
               Working(v, "call")', task'[u].payout = task'[v].payout
        PROVE  task'[u].attempt # task'[v].attempt
    <3>1. CASE u = w
      BY <1>4, <1>7, <2>7, <2>8, <3>1 DEF Working
    <3>2. CASE v = w
      BY <1>4, <1>7, <2>7, <2>8, <3>2 DEF Working
    <3>3. CASE u # w /\ v # w
      BY <1>1, <1>7, <2>8, <3>3 DEF SentOnce, Working
    <3> QED BY <3>1, <3>2, <3>3
  <2> QED BY <2>2, <2>3, <2>4, <2>6, <2>8 DEF SentOnce
<1> QED BY <1>8, <1>10, <1>11, <1>12, <1>13 DEF Inv

-----------------------------------------------------------------------------
(* The steps that change rows without counting an attempt.                 *)

Quiet ==
  /\ transfer' \in [Payouts -> Rows]
  /\ \A p \in Payouts :
       /\ transfer'[p].attempts = transfer[p].attempts
       /\ transfer'[p].status = "NONE" <=> transfer[p].status = "NONE"
       /\ transfer'[p].status = "SUCCESS" /\ transfer[p].status # "SUCCESS" =>
            \E n \in Attempts : bank[<<p, n>>] \in Moved

\* What a worker may be given to do by such a step.
Harmless(t) ==
  t # NoTask =>
    /\ t.at # "call"
    /\ transfer[t.payout].status # "NONE"
    /\ t.at = "apply" /\ t.answer = "SUCCESS" =>
         t.attempt \in Attempts /\ bank[<<t.payout, t.attempt>>] \in Moved

LEMMA WorkStep ==
  ASSUME Inv, Quiet, bank' = bank, NEW w \in Workers, NEW t \in Works \union {NoTask},
         Harmless(t), task' = [task EXCEPT ![w] = t]
  PROVE  Inv'
<1>1. Typed /\ SentOnce
  BY DEF Inv
<1>2. /\ task' \in [Workers -> Works \union {NoTask}]
      /\ task'[w] = t
      /\ \A v \in Workers \ {w} : task'[v] = task[v]
  BY <1>1, TaskSet DEF Typed
<1>3. \A v \in Workers : task'[v] # NoTask => transfer[task'[v].payout].status # "NONE"
  BY <1>1, <1>2 DEF SentOnce, Harmless
<1>4. \A v \in Workers : Working(v, "call")' => task'[v] = task[v]
  BY <1>2 DEF Working, Harmless
<1>5. \A v \in Workers : Working(v, "apply")' /\ task'[v].answer = "SUCCESS" =>
        \/ task'[v] = task[v]
        \/ /\ task'[v].attempt \in Attempts
           /\ bank[<<task'[v].payout, task'[v].attempt>>] \in Moved
  BY <1>2 DEF Working, Harmless
<1> QED BY <1>2, <1>3, <1>4, <1>5, QuietStep DEF Quiet

LEMMA NothingIsHarmless == Harmless(NoTask)
BY DEF Harmless

LEMMA SameIsQuiet ==
  ASSUME Inv, transfer' = transfer
  PROVE  Quiet
BY DEF Inv, Typed, Quiet

LEMMA RowIsQuiet ==
  ASSUME Inv, NEW p \in Payouts, NEW r \in Rows, transfer' = [transfer EXCEPT ![p] = r],
         r.attempts = transfer[p].attempts,
         r.status = "NONE" <=> transfer[p].status = "NONE",
         r.status = "SUCCESS" /\ transfer[p].status # "SUCCESS" =>
           \E n \in Attempts : bank[<<p, n>>] \in Moved
  PROVE  Quiet
<1>1. /\ transfer' \in [Payouts -> Rows]
      /\ transfer'[p] = r
      /\ \A q \in Payouts \ {p} : transfer'[q] = transfer[q]
  BY DEF Inv, Typed
<1> QED BY <1>1 DEF Quiet

\* What a worker holds is a payout with a row.
LEMMA WorkersRow ==
  ASSUME Inv, NEW w \in Workers, task[w] # NoTask
  PROVE  /\ task[w] \in Works
         /\ task[w].payout \in Payouts
         /\ task[w].attempt \in 0..MaxAttempts
         /\ transfer[task[w].payout] \in Rows
         /\ transfer[task[w].payout].status # "NONE"
BY DEF Inv, Typed, SentOnce, Works

\* applyOutcome: only a success makes a row a success, and the bank paid then.
LEMMA OutcomeIsQuiet ==
  ASSUME Inv, NEW p \in Payouts, NEW answer, Outcome(p, answer),
         answer = "SUCCESS" => \E n \in Attempts : bank[<<p, n>>] \in Moved
  PROVE  Quiet
<1>1. transfer[p] \in Rows
  BY DEF Inv, Typed
<1>2. CASE answer = "SUCCESS" /\ Succeeded(p)
  <2>1. CASE transfer[p].status \in Open /\ Move(p, "SUCCESS")
    <3> DEFINE r == [transfer[p] EXCEPT !.status = "SUCCESS", !.review = FALSE, !.due = FALSE]
    <3>1. r \in Rows /\ r.attempts = transfer[p].attempts /\ r.status = "SUCCESS"
      BY <1>1 DEF Rows, Statuses
    <3>2. transfer' = [transfer EXCEPT ![p] = r]
      BY <2>1 DEF Move
    <3>3. transfer[p].status # "NONE"
      BY <2>1 DEF Open
    <3> HIDE DEF r
    <3> QED BY <1>2, <3>1, <3>2, <3>3, RowIsQuiet
  <2>2. CASE transfer' = [transfer EXCEPT ![p].review = TRUE]
    <3> DEFINE r == [transfer[p] EXCEPT !.review = TRUE]
    <3>1. r \in Rows /\ r.attempts = transfer[p].attempts /\ r.status = transfer[p].status
      BY <1>1 DEF Rows
    <3>2. transfer' = [transfer EXCEPT ![p] = r]
      BY <2>2
    <3> HIDE DEF r
    <3> QED BY <3>1, <3>2, RowIsQuiet
  <2> QED BY <1>2, <2>1, <2>2 DEF Succeeded
<1>3. CASE answer = "REVERSED" /\ Reversed(p)
  <2> DEFINE r == [transfer[p] EXCEPT !.status = "REVERSED", !.review = TRUE]
  <2>1. r \in Rows /\ r.attempts = transfer[p].attempts /\ r.status = "REVERSED"
    BY <1>1 DEF Rows, Statuses, GivenBack
  <2>2. transfer' = [transfer EXCEPT ![p] = r] /\ transfer[p].status = "SUCCESS"
    BY <1>3 DEF Reversed
  <2> HIDE DEF r
  <2> QED BY <2>1, <2>2, RowIsQuiet
<1>4. CASE answer = "UNKNOWN" /\ Unsure(p)
  <2> DEFINE r == [transfer[p] EXCEPT !.status = "FAILED", !.review = TRUE, !.due = FALSE]
  <2>1. r \in Rows /\ r.attempts = transfer[p].attempts /\ r.status = "FAILED"
    BY <1>1 DEF Rows, Statuses, Open
  <2>2. transfer' = [transfer EXCEPT ![p] = r] /\ transfer[p].status # "NONE"
    BY <1>4 DEF Unsure
  <2> HIDE DEF r
  <2> QED BY <2>1, <2>2, RowIsQuiet
<1>5. CASE answer = "FAILED" /\ Refused(p)
  <2>1. transfer[p].status # "NONE"
    BY <1>5 DEF Refused
  <2>2. CASE transfer' = [transfer EXCEPT ![p] = [@ EXCEPT !.status = "RELEASED", !.due = FALSE]]
    <3> DEFINE r == [transfer[p] EXCEPT !.status = "RELEASED", !.due = FALSE]
    <3>1. r \in Rows /\ r.attempts = transfer[p].attempts /\ r.status = "RELEASED"
      BY <1>1 DEF Rows, Statuses, GivenBack
    <3>2. transfer' = [transfer EXCEPT ![p] = r]
      BY <2>2
    <3> HIDE DEF r
    <3> QED BY <2>1, <3>1, <3>2, RowIsQuiet
  <2>3. ASSUME NEW again \in BOOLEAN,
               transfer' = [transfer EXCEPT ![p] =
                 [@ EXCEPT !.status = "FAILED", !.due = again,
                           !.review = transfer[p].review \/ ~again]]
        PROVE  Quiet
    <3> DEFINE held == transfer[p].review \/ ~again
               r == [transfer[p] EXCEPT !.status = "FAILED", !.due = again, !.review = held]
    <3>1. held \in BOOLEAN
      BY <1>1 DEF Rows
    <3>2. transfer' = [transfer EXCEPT ![p] = r]
      BY <2>3
    <3> HIDE DEF held
    <3>3. r \in Rows /\ r.attempts = transfer[p].attempts /\ r.status = "FAILED"
      BY <1>1, <3>1 DEF Rows, Statuses, Open
    <3> HIDE DEF r
    <3> QED BY <2>1, <3>2, <3>3, RowIsQuiet
  <2>4. (transfer[p].retries < MaxRetries) \in BOOLEAN
    OBVIOUS
  <2> QED BY <1>5, <2>2, <2>3, <2>4 DEF Refused
<1> QED BY <1>2, <1>3, <1>4, <1>5 DEF Outcome

-----------------------------------------------------------------------------
(* The actions.                                                            *)

LEMMA ApplyStep ==
  ASSUME Inv, NEW w \in Workers, ApplyOutcome(w)
  PROVE  Inv'
<1> DEFINE p == task[w].payout
<1>1. /\ bank' = bank /\ task[w] # NoTask /\ task[w].at = "apply"
      /\ task' = [task EXCEPT ![w] = NoTask]
      /\ Outcome(p, task[w].answer) \/ transfer' = transfer
  BY DEF ApplyOutcome, At, Done
<1>2. p \in Payouts
  BY <1>1, WorkersRow
<1>3. task[w].answer = "SUCCESS" => \E n \in Attempts : bank[<<p, n>>] \in Moved
  BY <1>1 DEF Inv, SuccessHolds, Working
<1>4. Quiet
  <2>1. CASE Outcome(p, task[w].answer)
    BY <1>2, <1>3, <2>1, OutcomeIsQuiet
  <2>2. CASE transfer' = transfer
    BY <2>2, SameIsQuiet
  <2> QED BY <1>1, <2>1, <2>2
<1> QED BY <1>1, <1>4, NothingIsHarmless, WorkStep

LEMMA HoldStep ==
  ASSUME Inv, NEW w \in Workers, HoldForReview(w)
  PROVE  Inv'
<1> DEFINE p == task[w].payout
           r == [transfer[p] EXCEPT !.review = TRUE, !.due = FALSE]
<1>1. /\ bank' = bank /\ task[w] # NoTask
      /\ task' = [task EXCEPT ![w] = NoTask]
      /\ transfer' = [transfer EXCEPT ![p] = r] \/ transfer' = transfer
  BY DEF HoldForReview, At, Done
<1>2. p \in Payouts /\ transfer[p] \in Rows
  BY <1>1, WorkersRow
<1>3. r \in Rows /\ r.attempts = transfer[p].attempts /\ r.status = transfer[p].status
  BY <1>2 DEF Rows
<1> HIDE DEF r
<1>4. Quiet
  BY <1>1, <1>2, <1>3, RowIsQuiet, SameIsQuiet
<1> QED BY <1>1, <1>4, NothingIsHarmless, WorkStep

LEMMA UnflagStep ==
  ASSUME Inv, NEW w \in Workers, Unflag(w)
  PROVE  Inv'
<1> DEFINE p == task[w].payout
           r == [transfer[p] EXCEPT !.review = FALSE, !.due = FALSE]
           t == [task[w] EXCEPT !.at = "claim"]
<1>1. /\ bank' = bank /\ task[w] # NoTask
      /\ task' = [task EXCEPT ![w] = t]
      /\ transfer' = [transfer EXCEPT ![p] = r]
  BY DEF Unflag, At, Goto
<1>2. p \in Payouts /\ transfer[p] \in Rows /\ task[w] \in Works /\ transfer[p].status # "NONE"
  BY <1>1, WorkersRow
<1>3. r \in Rows /\ r.attempts = transfer[p].attempts /\ r.status = transfer[p].status
  BY <1>2 DEF Rows
<1>4. t \in Works /\ Harmless(t)
  BY <1>2 DEF Works, Harmless
<1> HIDE DEF r, t
<1>5. Quiet
  BY <1>1, <1>2, <1>3, RowIsQuiet
<1> QED BY <1>1, <1>4, <1>5, WorkStep

LEMMA ClaimAttemptStep ==
  ASSUME Inv, NEW w \in Workers, ClaimAttempt(w)
  PROVE  Inv'
<1> DEFINE p == task[w].payout
<1>1. bank' = bank /\ At(w, "claim") /\ task[w] # NoTask
  BY DEF ClaimAttempt, At
<1>2. /\ p \in Payouts /\ transfer[p] \in Rows
      /\ task[w] \in Works /\ transfer[p].status # "NONE"
  BY <1>1, WorkersRow
<1>3. CASE Done(w) /\ transfer' = transfer
  BY <1>1, <1>3, SameIsQuiet, NothingIsHarmless, WorkStep DEF Done
<1>4. ASSUME transfer[p].status \in {"PENDING", "FAILED"},
             transfer[p].attempts < MaxAttempts,
             transfer' = [transfer EXCEPT ![p] =
               [@ EXCEPT !.status = "PROCESSING", !.review = FALSE, !.due = FALSE,
                         !.attempts = transfer[p].attempts + 1,
                         !.retries = transfer[p].retries +
                                       (IF transfer[p].status = "FAILED" THEN 1 ELSE 0)]],
             task' = [task EXCEPT ![w] = Task(p, "call", transfer[p].attempts + 1, "UNKNOWN")]
      PROVE  Inv'
  <2> DEFINE again == transfer[p].retries + (IF transfer[p].status = "FAILED" THEN 1 ELSE 0)
             r == [transfer[p] EXCEPT !.status = "PROCESSING", !.review = FALSE, !.due = FALSE,
                     !.attempts = transfer[p].attempts + 1, !.retries = again]
  <2>1. again \in Nat
    BY <1>2 DEF Rows
  <2>2. transfer' = [transfer EXCEPT ![p] = r]
    BY <1>4
  <2> HIDE DEF again
  <2>3. transfer[p].attempts + 1 \in 0..MaxAttempts
    BY <1>2, <1>4, BoundsAssumption DEF Rows
  <2>4. r \in Rows /\ r.attempts = transfer[p].attempts + 1 /\ r.status = "PROCESSING"
    BY <1>2, <2>1, <2>3 DEF Rows, Statuses, Open
  <2> HIDE DEF r
  <2> QED BY <1>1, <1>2, <1>4, <2>2, <2>4, CountStep
<1>5. CASE Answered(w, 0, "FAILED") /\ transfer' = transfer
  <2> DEFINE t == Task(p, "apply", 0, "FAILED")
  <2>1. task' = [task EXCEPT ![w] = t]
    BY <1>5 DEF Answered
  <2>2. t \in Works /\ t.payout = p /\ t.at = "apply" /\ t.answer = "FAILED"
    BY <1>2, BoundsAssumption, AWork DEF Answers
  <2> HIDE DEF t
  <2>3. Harmless(t)
    BY <1>2, <2>2 DEF Harmless
  <2> QED BY <1>1, <1>5, <2>1, <2>2, <2>3, SameIsQuiet, WorkStep
<1>6. CASE Goto(w, "hold") /\ transfer' = transfer
  <2> DEFINE t == [task[w] EXCEPT !.at = "hold"]
  <2>1. task' = [task EXCEPT ![w] = t]
    BY <1>6 DEF Goto
  <2>2. t \in Works /\ Harmless(t)
    BY <1>2 DEF Works, Harmless
  <2> HIDE DEF t
  <2> QED BY <1>1, <1>6, <2>1, <2>2, SameIsQuiet, WorkStep
<1> QED BY <1>3, <1>4, <1>5, <1>6 DEF ClaimAttempt

\* A worker takes up a payout that has a row.
LEMMA TakeUpStep ==
  ASSUME Inv, NEW w \in Workers, NEW p \in Payouts, NEW at \in {"claim", "unflag"},
         transfer[p].status # "NONE", bank' = bank, transfer' = transfer,
         task' = [task EXCEPT ![w] = Task(p, at, 0, "UNKNOWN")]
  PROVE  Inv'
<1> DEFINE t == Task(p, at, 0, "UNKNOWN")
<1>1. t \in Works /\ t.payout = p /\ t.at = at
  BY BoundsAssumption, AWork DEF Answers
<1> HIDE DEF t
<1>2. Harmless(t)
  BY <1>1 DEF Harmless
<1> QED BY <1>1, <1>2, SameIsQuiet, WorkStep DEF t

LEMMA WebhookStep ==
  ASSUME Inv, NEW w \in Workers, NEW p \in Payouts, NEW n \in Attempts, NEW answer \in Answers,
         Webhook(w, p, n, answer)
  PROVE  Inv'
<1> DEFINE t == Task(p, "apply", n, answer)
<1>1. /\ bank' = bank /\ transfer' = transfer
      /\ task' = [task EXCEPT ![w] = t]
      /\ answer \in Told(bank[<<p, n>>])
  BY DEF Webhook
<1>2. n \in 0..MaxAttempts
  BY BoundsAssumption DEF Attempts
<1>3. t \in Works /\ t.payout = p /\ t.at = "apply" /\ t.attempt = n /\ t.answer = answer
  BY <1>2, AWork
<1> HIDE DEF t
<1>4. bank[<<p, n>>] \in BankStates /\ bank[<<p, n>>] # "none"
  BY <1>1 DEF Inv, Typed, Told, BankStates
<1>5. answer = "SUCCESS" => bank[<<p, n>>] \in Moved
  BY <1>1, <1>4 DEF Told, BankStates, Moved
<1>6. transfer[p].status # "NONE"
  <2>1. ~(n > transfer[p].attempts)
    BY <1>4 DEF Inv, SentOnce
  <2>2. transfer[p].attempts # 0
    BY <2>1, BoundsAssumption DEF Attempts
  <2> QED BY <2>2 DEF Inv, SentOnce
<1>7. Harmless(t)
  BY <1>3, <1>5, <1>6 DEF Harmless
<1> QED BY <1>1, <1>3, <1>7, SameIsQuiet, WorkStep

LEMMA ReviewReleaseStep ==
  ASSUME Inv, NEW p \in Payouts, ReviewRelease(p)
  PROVE  Inv'
<1> DEFINE r == [transfer[p] EXCEPT !.status = "RELEASED", !.review = FALSE, !.due = FALSE]
<1>1. /\ bank' = bank /\ task' = task
      /\ transfer' = [transfer EXCEPT ![p] = r]
      /\ transfer[p].status # "NONE"
  BY DEF ReviewRelease, Move
<1>2. r \in Rows /\ r.attempts = transfer[p].attempts /\ r.status = "RELEASED"
  BY DEF Inv, Typed, Rows, Statuses, GivenBack
<1> HIDE DEF r
<1>3. Quiet
  BY <1>1, <1>2, RowIsQuiet
<1>4. /\ task' \in [Workers -> Works \union {NoTask}]
      /\ \A v \in Workers : task'[v] # NoTask => transfer[task'[v].payout].status # "NONE"
  BY <1>1 DEF Inv, Typed, SentOnce
<1> QED BY <1>1, <1>3, <1>4, QuietStep DEF Quiet

-----------------------------------------------------------------------------
(* The bank's own record.                                                  *)

LEMMA CallStep ==
  ASSUME Inv, NEW w \in Workers, CallBank(w)
  PROVE  Inv'
<1> DEFINE p == task[w].payout
           n == task[w].attempt
<1>1. Typed /\ Numbered /\ SentOnce /\ SuccessHolds /\ SuccessIsPaid
  BY DEF Inv
<1>2. transfer' = transfer /\ task[w] # NoTask /\ Working(w, "call")
  BY DEF CallBank, At, Working
<1>3. p \in Payouts /\ task[w] \in Works /\ transfer[p] \in Rows /\ transfer[p].status # "NONE"
  BY <1>2, WorkersRow
<1>4. n \in 1..transfer[p].attempts /\ bank[<<p, n>>] = "none"
  BY <1>1, <1>2 DEF SentOnce
<1>5. n \in Attempts /\ n \in 0..MaxAttempts
  BY <1>3, <1>4, BoundsAssumption DEF Rows, Attempts
<1>6. PICK state \in BankStates, t \in Works \union {NoTask} :
        /\ bank' = [bank EXCEPT ![<<p, n>>] = state]
        /\ task' = [task EXCEPT ![w] = t]
        /\ t # NoTask => /\ t.at = "apply" /\ t.payout = p /\ t.attempt = n
                         /\ t.answer = "SUCCESS" => state = "paid"
  <2>1. ASSUME NEW state \in {"paid", "refused", "accepted", "none"}, NEW answer \in Answers,
               bank' = [bank EXCEPT ![<<p, n>>] = state], Answered(w, n, answer),
               answer = "SUCCESS" => state = "paid"
        PROVE  \E s \in BankStates, t \in Works \union {NoTask} :
                 /\ bank' = [bank EXCEPT ![<<p, n>>] = s]
                 /\ task' = [task EXCEPT ![w] = t]
                 /\ t # NoTask => /\ t.at = "apply" /\ t.payout = p /\ t.attempt = n
                                  /\ t.answer = "SUCCESS" => s = "paid"
    <3> DEFINE t == Task(p, "apply", n, answer)
    <3>1. /\ t \in Works /\ t.payout = p /\ t.at = "apply" /\ t.attempt = n /\ t.answer = answer
      BY <1>3, <1>5, AWork
    <3>2. task' = [task EXCEPT ![w] = t]
      BY <2>1 DEF Answered
    <3>3. state \in BankStates
      BY DEF BankStates
    <3> HIDE DEF t
    <3> QED BY <2>1, <3>1, <3>2, <3>3
  <2>2. CASE \E state \in {"paid", "refused"} :
               /\ bank' = [bank EXCEPT ![<<p, n>>] = state]
               /\ Answered(w, n, AnswerTo(state))
    <3>1. AnswerTo("paid") = "SUCCESS" /\ AnswerTo("refused") = "FAILED"
      BY DEF AnswerTo
    <3> QED BY <2>1, <2>2, <3>1 DEF Answers
  <2>3. CASE bank' = [bank EXCEPT ![<<p, n>>] = "accepted"] /\ Done(w)
    BY <2>3 DEF Done, BankStates
  <2>4. CASE \E state \in {"none", "accepted"} :
               /\ bank' = [bank EXCEPT ![<<p, n>>] = state]
               /\ Answered(w, n, "UNKNOWN")
    BY <2>1, <2>4 DEF Answers
  <2> QED BY <2>2, <2>3, <2>4 DEF CallBank
<1>7. /\ bank' \in [Payouts \X Attempts -> BankStates]
      /\ bank'[<<p, n>>] = state
      /\ \A q \in Payouts, m \in Attempts : <<q, m>> # <<p, n>> => bank'[<<q, m>>] = bank[<<q, m>>]
  BY <1>1, <1>3, <1>5, <1>6 DEF Typed
<1>8. /\ task' \in [Workers -> Works \union {NoTask}]
      /\ task'[w] = t
      /\ \A v \in Workers \ {w} : task'[v] = task[v]
  BY <1>1, <1>6, TaskSet DEF Typed
<1> HIDE DEF p, n
<1>9. \A q \in Payouts, m \in Attempts : bank[<<q, m>>] \in Moved => bank'[<<q, m>>] \in Moved
  BY <1>4, <1>7 DEF Moved
<1>10. Typed' /\ Numbered'
  BY <1>1, <1>2, <1>7, <1>8 DEF Typed, Numbered
<1>11. SuccessIsPaid'
  BY <1>1, <1>2, <1>9 DEF SuccessIsPaid, Moved
<1>12. SuccessHolds'
  <2> SUFFICES ASSUME NEW v \in Workers, Working(v, "apply")', task'[v].answer = "SUCCESS"
               PROVE  /\ task'[v].attempt \in Attempts
                      /\ bank'[<<task'[v].payout, task'[v].attempt>>] \in Moved
    BY DEF SuccessHolds
  <2>1. CASE v = w
    BY <1>5, <1>6, <1>7, <1>8, <2>1 DEF Working, Moved
  <2>2. CASE v # w
    <3>1. task'[v] = task[v] /\ Working(v, "apply") /\ task[v].payout \in Payouts
      BY <1>1, <1>8, <2>2 DEF Working, Typed, Works
    <3> QED BY <1>1, <1>9, <3>1 DEF SuccessHolds
  <2> QED BY <2>1, <2>2
<1>13. SentOnce'
  <2>1. \A q \in Payouts, m \in Attempts : m > transfer'[q].attempts => bank'[<<q, m>>] = "none"
    BY <1>1, <1>2, <1>3, <1>4, <1>7 DEF SentOnce, Rows, Attempts
  <2>2. \A q \in Payouts : transfer'[q].status = "NONE" => transfer'[q].attempts = 0
    BY <1>1, <1>2 DEF SentOnce
  <2>3. \A v \in Workers : task'[v] # NoTask => transfer'[task'[v].payout].status # "NONE"
    BY <1>1, <1>2, <1>3, <1>6, <1>8 DEF SentOnce
  <2>4. ASSUME NEW v \in Workers, Working(v, "call")'
        PROVE  v # w /\ task'[v] = task[v] /\ Working(v, "call") /\ task[v].payout \in Payouts
    BY <1>1, <1>6, <1>8, <2>4 DEF Working, Typed, Works
  <2>5. ASSUME NEW v \in Workers, Working(v, "call")'
        PROVE  /\ task'[v].attempt \in 1..transfer'[task'[v].payout].attempts
               /\ bank'[<<task'[v].payout, task'[v].attempt>>] = "none"
    <3>1. v # w /\ task'[v] = task[v] /\ Working(v, "call") /\ task[v].payout \in Payouts
      BY <2>4, <2>5
    <3>2. /\ task[v].attempt \in 1..transfer[task[v].payout].attempts
          /\ bank[<<task[v].payout, task[v].attempt>>] = "none"
      BY <1>1, <3>1 DEF SentOnce
    <3>3. task[v].attempt \in Attempts
      <4>1. transfer[task[v].payout] \in Rows
        BY <1>1, <3>1 DEF Typed
      <4> QED BY <3>2, <4>1, BoundsAssumption DEF Rows, Attempts
    <3>4. task[v].payout = p => task[v].attempt # n
      BY <1>1, <1>2, <3>1 DEF SentOnce, p, n
    <3> QED BY <1>2, <1>7, <3>1, <3>2, <3>3, <3>4
  <2>6. \A u, v \in Workers :
          u # v /\ Working(u, "call")' /\ Working(v, "call")' /\ task'[u].payout = task'[v].payout
            => task'[u].attempt # task'[v].attempt
    BY <1>1, <2>4 DEF SentOnce
  <2> QED BY <2>1, <2>2, <2>3, <2>5, <2>6 DEF SentOnce
<1> QED BY <1>10, <1>11, <1>12, <1>13 DEF Inv

LEMMA BankStep ==
  ASSUME Inv, NEW p \in Payouts, NEW n \in Attempts, NEW to \in {"paid", "refused", "returned"},
         BankMoves(p, n, to)
  PROVE  Inv'
<1>1. Typed /\ Numbered /\ SentOnce /\ SuccessHolds /\ SuccessIsPaid
  BY DEF Inv
<1>2. /\ transfer' = transfer /\ task' = task
      /\ bank' = [bank EXCEPT ![<<p, n>>] = to]
      /\ bank[<<p, n>>] # "none"
      /\ bank[<<p, n>>] \in Moved => to \in Moved
  BY DEF BankMoves, Moved
<1>3. /\ bank' \in [Payouts \X Attempts -> BankStates]
      /\ bank'[<<p, n>>] = to
      /\ \A q \in Payouts, m \in Attempts : <<q, m>> # <<p, n>> => bank'[<<q, m>>] = bank[<<q, m>>]
  BY <1>1, <1>2 DEF Typed, BankStates
<1>4. \A q \in Payouts, m \in Attempts :
        /\ bank[<<q, m>>] \in Moved => bank'[<<q, m>>] \in Moved
        /\ bank[<<q, m>>] = "none" => bank'[<<q, m>>] = "none"
  BY <1>2, <1>3
<1>5. Typed' /\ Numbered'
  BY <1>1, <1>2, <1>3 DEF Typed, Numbered
<1>6. SuccessIsPaid'
  BY <1>1, <1>2, <1>4 DEF SuccessIsPaid, Moved
<1>7. \A w \in Workers : task[w] # NoTask => task[w].payout \in Payouts
  BY <1>1 DEF Typed, Works
<1>8. SuccessHolds'
  BY <1>1, <1>2, <1>4, <1>7 DEF SuccessHolds, Working
<1>9. SentOnce'
  <2>1. \A w \in Workers : Working(w, "call") => task[w].attempt \in Attempts
    <3> SUFFICES ASSUME NEW w \in Workers, Working(w, "call")
                 PROVE  task[w].attempt \in Attempts
      OBVIOUS
    <3>1. transfer[task[w].payout] \in Rows
      BY <1>1, <1>7 DEF Typed, Working
    <3>2. task[w].attempt \in 1..transfer[task[w].payout].attempts
      BY <1>1 DEF SentOnce
    <3> QED BY <3>1, <3>2, BoundsAssumption DEF Rows, Attempts
  <2> QED BY <1>1, <1>2, <1>4, <1>7, <2>1 DEF SentOnce, Working
<1> QED BY <1>5, <1>6, <1>8, <1>9 DEF Inv

-----------------------------------------------------------------------------

\* A step that touches neither rows, nor the bank, nor the workers.
LEMMA AsideStep ==
  ASSUME Inv, transfer' = transfer, bank' = bank, task' = task
  PROVE  Inv'
<1>1. Typed' /\ Numbered'
  BY DEF Inv, Typed, Numbered
<1>2. SentOnce' /\ SuccessHolds' /\ SuccessIsPaid'
  BY DEF Inv, SentOnce, SuccessHolds, SuccessIsPaid, Working
<1> QED BY <1>1, <1>2 DEF Inv

LEMMA WorkerStep ==
  ASSUME Inv, NEW w \in Workers, Step(w)
  PROVE  Inv'
BY ClaimAttemptStep, HoldStep, CallStep, ApplyStep, UnflagStep DEF Step

LEMMA StepInv == Inv /\ [Next]_vars => Inv'
<1> SUFFICES ASSUME Inv, [Next]_vars PROVE Inv'
  OBVIOUS
<1>1. CASE UNCHANGED vars
  BY <1>1, AsideStep DEF vars
<1>2. ASSUME NEW c \in Credits, Earn(c) PROVE Inv'
  BY <1>2, AsideStep DEF Earn
<1>3. CASE MonthEnds
  BY <1>3, AsideStep DEF MonthEnds
<1>4. ASSUME NEW w \in Workers, NEW what \in Asks, Withdraw(w, what) PROVE Inv'
  BY <1>4, ClaimStep DEF Withdraw
<1>5. ASSUME NEW w \in Workers, MonthlyRun(w) PROVE Inv'
  <2> DEFINE S == Unpaid \intersect old
  <2>1. CASE ClaimItems(w, S, "MONTHLY", Total(S))
    BY <2>1, ClaimStep
  <2>2. CASE transfer' = transfer /\ bank' = bank /\ task' = task
    BY <2>2, AsideStep
  <2> QED BY <1>5, <2>1, <2>2 DEF MonthlyRun
<1>6. ASSUME NEW w \in Workers, NEW p \in Payouts, PickDue(w, p) PROVE Inv'
  <2>1. transfer[p].status # "NONE"
    BY <1>6 DEF PickDue, Due
  <2> QED BY <1>6, <2>1, TakeUpStep DEF PickDue
<1>7. ASSUME NEW w \in Workers, NEW p \in Payouts, ReviewRetry(w, p) PROVE Inv'
  <2>1. transfer[p].status # "NONE"
    BY <1>7 DEF ReviewRetry
  <2> QED BY <1>7, <2>1, TakeUpStep DEF ReviewRetry
<1>8. ASSUME NEW w \in Workers, Crash(w) PROVE Inv'
  BY <1>8, SameIsQuiet, NothingIsHarmless, WorkStep DEF Crash, Done
<1> QED
  BY <1>1, <1>2, <1>3, <1>4, <1>5, <1>6, <1>7, <1>8, WorkerStep, WebhookStep,
     ReviewReleaseStep, BankStep DEF Next

LEMMA InvHolds == Spec => []Inv
<1> QED BY InitInv, StepInv, PTL DEF Spec

\* A payout is shown as paid only when the bank paid one of its attempts,
\* whatever the number of payouts, attempts and workers, and however late the
\* bank's answers are applied (applyOutcome, transfers.ts).
THEOREM PaidMeansBankPaid == Spec => []SuccessIsPaid
<1>1. Inv => SuccessIsPaid
  BY DEF Inv
<1> QED BY <1>1, InvHolds, PTL

\* An attempt goes to the bank once: no two workers hold the same attempt, and
\* the bank has not heard of an attempt that one is about to send (the row lock
\* and PROCESSING in sendTransfer, transfers.ts).
THEOREM AttemptsAreSentOnce == Spec => []SentOnce
<1>1. Inv => SentOnce
  BY DEF Inv
<1> QED BY <1>1, InvHolds, PTL

-----------------------------------------------------------------------------
(* What items are worth, and what sets of them come to.                    *)

WorthBy(c) == [i \in Items |-> CASE i[2] = "earned" -> Value[i[1]]
                                 [] i[2] = "in"     -> c[i[1]]
                                 [] i[2] = "out"    -> 0 - c[i[1]]]
SumOf(c, S) == SumFunctionOnSet(WorthBy(c), S)

LEMMA WorthOf ==
  ASSUME NEW c \in [Payouts -> Nat]
  PROVE  /\ \A i \in Items : WorthBy(c)[i] \in Int
         /\ \A x \in Credits : /\ <<x, "earned">> \in Items
                               /\ WorthBy(c)[<<x, "earned">>] = Value[x] /\ Value[x] \in Int
         /\ \A p \in Payouts : /\ <<p, "in">> \in Items /\ <<p, "out">> \in Items
                               /\ WorthBy(c)[<<p, "in">>] = c[p]
                               /\ WorthBy(c)[<<p, "out">>] = 0 - c[p]
<1>1. ASSUME NEW x \in Credits
      PROVE  /\ <<x, "earned">> \in Items /\ Value[x] \in Int
             /\ WorthBy(c)[<<x, "earned">>] = Value[x]
  BY ValueAssumption DEF WorthBy, Items
<1>2. ASSUME NEW p \in Payouts
      PROVE  /\ <<p, "in">> \in Items /\ <<p, "out">> \in Items
             /\ WorthBy(c)[<<p, "in">>] = c[p] /\ WorthBy(c)[<<p, "out">>] = 0 - c[p]
             /\ c[p] \in Int /\ 0 - c[p] \in Int
  BY DEF WorthBy, Items
<1>3. ASSUME NEW i \in Items PROVE WorthBy(c)[i] \in Int
  <2>1. \/ \E x \in Credits : i = <<x, "earned">>
        \/ \E p \in Payouts : i = <<p, "in">> \/ i = <<p, "out">>
    BY DEF Items
  <2> QED BY <1>1, <1>2, <2>1
<1> QED BY <1>1, <1>2, <1>3

\* Another rest for one payout changes what its own pair is worth.
LEMMA WorthKeeps ==
  ASSUME NEW c \in [Payouts -> Nat], NEW d \in [Payouts -> Nat], NEW p \in Payouts,
         \A q \in Payouts \ {p} : d[q] = c[q],
         NEW i \in Items, i # <<p, "in">>, i # <<p, "out">>
  PROVE  WorthBy(d)[i] = WorthBy(c)[i]
<1>1. CASE \E x \in Credits : i = <<x, "earned">>
  BY <1>1, WorthOf
<1>2. ASSUME NEW q \in Payouts, i = <<q, "in">> \/ i = <<q, "out">>
      PROVE  WorthBy(d)[i] = WorthBy(c)[i]
  <2>1. d[q] = c[q]
    BY <1>2
  <2>2. CASE i = <<q, "in">>
    <3>1. WorthBy(d)[<<q, "in">>] = d[q] /\ WorthBy(c)[<<q, "in">>] = c[q]
      BY WorthOf
    <3> QED BY <2>1, <2>2, <3>1
  <2>3. CASE i = <<q, "out">>
    <3>1. WorthBy(d)[<<q, "out">>] = 0 - d[q] /\ WorthBy(c)[<<q, "out">>] = 0 - c[q]
      BY WorthOf
    <3> QED BY <2>1, <2>3, <3>1
  <2> QED BY <1>2, <2>2, <2>3
<1> QED BY <1>1, <1>2 DEF Items

LEMMA TotalIsSum ==
  /\ \A S : Total(S) = SumOf(carry, S)
  /\ Total(Unpaid)' = SumOf(carry', Unpaid')
  /\ \A p : Total(HeldBy(p))' = SumOf(carry', HeldBy(p)')
BY DEF Total, Unpaid, HeldBy, SumOf, WorthBy, Worth

LEMMA SumPlus ==
  ASSUME NEW c \in [Payouts -> Nat], NEW S, S \subseteq Items, IsFiniteSet(S), NEW x \in Items \ S
  PROVE  SumOf(c, S \union {x}) = WorthBy(c)[x] + SumOf(c, S)
<1>1. \A y \in S \union {x} : WorthBy(c)[y] \in Int
  BY WorthOf
<1> QED BY <1>1, SumWith DEF SumOf

LEMMA SumLaws ==
  ASSUME NEW c \in [Payouts -> Nat], NEW S, S \subseteq Items, IsFiniteSet(S)
  PROVE  /\ SumOf(c, S) \in Int
         /\ \A A, B \in SUBSET S : A \cap B = {} => SumOf(c, A \union B) = SumOf(c, A) + SumOf(c, B)
         /\ \A d : (\A x \in S : WorthBy(d)[x] = WorthBy(c)[x]) => SumOf(d, S) = SumOf(c, S)
<1>1. \A x \in Items : WorthBy(c)[x] \in Int
  BY WorthOf
<1>2. SumOf(c, S) \in Int
  BY <1>1, SumIsInt DEF SumOf
<1>3. ASSUME NEW A \in SUBSET S, NEW B \in SUBSET S, A \cap B = {}
      PROVE  SumOf(c, A \union B) = SumOf(c, A) + SumOf(c, B)
  BY <1>1, <1>3, SumOfUnion DEF SumOf
<1>4. ASSUME NEW d, \A x \in S : WorthBy(d)[x] = WorthBy(c)[x]
      PROVE  SumOf(d, S) = SumOf(c, S)
  BY <1>4, SumsAreEqual DEF SumOf
<1> QED BY <1>2, <1>3, <1>4

Live(p) == transfer[p].status \notin {"NONE"} \union GivenBack

\* Only payouts that were not given back hold items, and they hold their
\* amount; the carried pair of a payout comes with it.
MoneyTypes ==
  /\ items \subseteq Items /\ IsFiniteSet(items)
  /\ holder \in [Items -> {NoPayout} \union Payouts]
  /\ carry \in [Payouts -> Nat]
  /\ amount \in [Payouts -> Nat]
Holders == \A i \in Items : holder[i] # NoPayout => i \in items /\ Live(holder[i])
Pairs == \A p \in Payouts : transfer[p].status = "NONE" => <<p, "in">> \notin items /\ <<p, "out">> \notin items
Amounts == \A p \in Payouts : Live(p) => Total(HeldBy(p)) = amount[p]
Money == MoneyTypes /\ Holders /\ Pairs /\ Amounts

LEMMA Subtotal ==
  ASSUME MoneyTypes, NEW S \in SUBSET items
  PROVE  S \subseteq Items /\ IsFiniteSet(S) /\ Total(S) = SumOf(carry, S) /\ Total(S) \in Int
<1>1. S \subseteq Items /\ IsFiniteSet(S) /\ carry \in [Payouts -> Nat]
  BY FS_Subset DEF MoneyTypes
<1> QED BY <1>1, TotalIsSum, SumLaws

LEMMA HolderOf ==
  ASSUME Money
  PROVE  /\ Unpaid \subseteq items /\ \A p \in Payouts : HeldBy(p) \subseteq items
         /\ \A i \in Unpaid : holder[i] = NoPayout
         /\ \A i \in Items : i \notin items => holder[i] = NoPayout
         /\ \A p \in Payouts : ~Live(p) => HeldBy(p) = {}
BY DEF Money, MoneyTypes, Holders, Unpaid, HeldBy, NoPayout, Payouts

-----------------------------------------------------------------------------
(* Kinds of steps.                                                         *)

Claimed(w, S, kind, what) ==
  /\ ClaimItems(w, S, kind, what)
  /\ S \subseteq Unpaid /\ what \in Nat /\ what > 0 /\ kind \in {"WITHDRAWAL", "MONTHLY"}

\* Rows move on without a change of what is held.
Kept ==
  /\ UNCHANGED <<items, holder, carry, amount>>
  /\ \/ \A q \in Payouts : MoneyIs(transfer'[q].status) = MoneyIs(transfer[q].status)
     \/ \E p \in Payouts : /\ transfer[p].status \in Open /\ transfer'[p].status = "SUCCESS"
                           /\ \A q \in Payouts \ {p} : transfer'[q] = transfer[q]

GaveBack(p) ==
  /\ UNCHANGED <<items, carry, amount>>
  /\ Live(p) /\ Release(p)
  /\ transfer'[p].status \in GivenBack
  /\ \A q \in Payouts \ {p} : transfer'[q] = transfer[q]

LEMMA StatusKinds ==
  ASSUME Typed, NEW p \in Payouts
  PROVE  /\ transfer[p] \in Rows /\ transfer[p].status \in Statuses
         /\ Live(p) <=> MoneyIs(transfer[p].status) \in {"on its way", "paid"}
         /\ transfer[p].status = "NONE" <=> MoneyIs(transfer[p].status) = "none"
         /\ transfer[p].status \in Open <=> MoneyIs(transfer[p].status) = "on its way"
         /\ transfer[p].status = "SUCCESS" <=> MoneyIs(transfer[p].status) = "paid"
         /\ transfer[p].status \in GivenBack <=> MoneyIs(transfer[p].status) = "back"
BY DEF Typed, Rows, Statuses, Live, MoneyIs, Open, GivenBack

\* A change of one row that leaves its money where it is.
LEMMA RowKeeps ==
  ASSUME Typed, NEW p \in Payouts, UNCHANGED <<items, holder, carry, amount>>,
         \A q \in Payouts \ {p} : transfer'[q] = transfer[q],
         \/ transfer'[p].status = transfer[p].status
         \/ transfer'[p].status \in Open /\ transfer[p].status \in Open
         \/ transfer'[p].status = "SUCCESS" /\ transfer[p].status \in Open
  PROVE  Kept
<1>1. CASE transfer'[p].status = "SUCCESS" /\ transfer[p].status \in Open
  BY <1>1 DEF Kept
<1>2. CASE transfer'[p].status = transfer[p].status
  BY <1>2 DEF Kept
<1>3. CASE transfer'[p].status \in Open /\ transfer[p].status \in Open
  <2>1. \A st \in Open : MoneyIs(st) = "on its way"
    BY DEF MoneyIs, Open
  <2> QED BY <1>3, <2>1 DEF Kept
<1> QED BY <1>1, <1>2, <1>3

LEMMA OutcomeKinds ==
  ASSUME Typed, NEW p \in Payouts, NEW answer, Outcome(p, answer), UNCHANGED <<items, carry, amount>>
  PROVE  Kept \/ GaveBack(p)
<1>1. /\ transfer[p] \in Rows /\ transfer \in [Payouts -> Rows]
      /\ transfer[p].status \in Open <=> transfer[p].status \in {"PENDING", "PROCESSING", "FAILED"}
  BY DEF Typed, Open
<1>2. CASE Succeeded(p)
  <2>1. /\ holder' = holder /\ \A q \in Payouts \ {p} : transfer'[q] = transfer[q]
        /\ \/ transfer'[p].status = "SUCCESS" /\ transfer[p].status \in Open
           \/ transfer'[p].status = transfer[p].status
    <3>1. CASE transfer[p].status \in Open /\ Move(p, "SUCCESS") /\ holder' = holder
      BY <1>1, <3>1 DEF Move, Rows
    <3>2. CASE transfer' = [transfer EXCEPT ![p].review = TRUE] /\ holder' = holder
      BY <1>1, <3>2 DEF Rows
    <3> QED BY <1>2, <3>1, <3>2 DEF Succeeded
  <2> QED BY <2>1, RowKeeps
<1>3. CASE Reversed(p)
  BY <1>1, <1>3 DEF Reversed, GaveBack, Live, GivenBack, Rows
<1>4. CASE Unsure(p)
  <2>1. /\ holder' = holder /\ \A q \in Payouts \ {p} : transfer'[q] = transfer[q]
        /\ transfer'[p].status \in Open /\ transfer[p].status \in Open
    BY <1>1, <1>4 DEF Unsure, Rows, Open
  <2> QED BY <2>1, RowKeeps
<1>5. CASE Refused(p)
  <2>1. CASE /\ transfer' = [transfer EXCEPT ![p] = [@ EXCEPT !.status = "RELEASED", !.due = FALSE]]
             /\ Release(p)
    BY <1>1, <1>5, <2>1 DEF Refused, GaveBack, Live, GivenBack, Rows
  <2>2. CASE holder' = holder /\ transfer[p].kind = "MONTHLY"
    <3>1. PICK due, review : transfer' = [transfer EXCEPT ![p] = [@ EXCEPT !.status = "FAILED",
                                                                           !.due = due, !.review = review]]
      BY <1>5, <2>2 DEF Refused, Release
    <3>2. /\ \A q \in Payouts \ {p} : transfer'[q] = transfer[q]
          /\ transfer'[p].status \in Open /\ transfer[p].status \in Open
      BY <1>1, <1>5, <3>1 DEF Refused, Rows, Open
    <3> QED BY <2>2, <3>2, RowKeeps
  <2> QED BY <1>5, <2>1, <2>2 DEF Refused
<1> QED BY <1>2, <1>3, <1>4, <1>5 DEF Outcome

LEMMA WorkKinds ==
  ASSUME Inv, NEW w \in Workers, Step(w)
  PROVE  Kept \/ \E p \in Payouts : GaveBack(p)
<1> DEFINE p == task[w].payout
<1>1. Typed /\ transfer \in [Payouts -> Rows]
  BY DEF Inv, Typed
<1>2. task[w] # NoTask /\ UNCHANGED <<items, carry, amount>>
  BY DEF Step, ClaimAttempt, HoldForReview, CallBank, ApplyOutcome, Unflag, At
<1>3. p \in Payouts /\ transfer[p] \in Rows
  BY <1>2, WorkersRow
<1>4. ASSUME transfer' = transfer, holder' = holder PROVE Kept
  BY <1>2, <1>4 DEF Kept
<1>5. CASE ClaimAttempt(w)
  <2>1. holder' = holder
    BY <1>5 DEF ClaimAttempt
  <2>2. CASE transfer' # transfer
    <3>1. /\ transfer[p].status \in {"PENDING", "FAILED"}
          /\ transfer' = [transfer EXCEPT ![p] =
               [@ EXCEPT !.status = "PROCESSING", !.review = FALSE, !.due = FALSE,
                         !.attempts = transfer[p].attempts + 1,
                         !.retries = transfer[p].retries +
                                       (IF transfer[p].status = "FAILED" THEN 1 ELSE 0)]]
      BY <1>5, <2>2 DEF ClaimAttempt
    <3>2. /\ \A q \in Payouts \ {p} : transfer'[q] = transfer[q]
          /\ transfer'[p].status \in Open /\ transfer[p].status \in Open
      BY <1>1, <1>3, <3>1 DEF Rows, Open
    <3> QED BY <1>1, <1>2, <1>3, <2>1, <3>2, RowKeeps
  <2> QED BY <1>4, <2>1, <2>2
<1>6. CASE HoldForReview(w)
  <2>1. /\ holder' = holder /\ \A q \in Payouts \ {p} : transfer'[q] = transfer[q]
        /\ transfer'[p].status = transfer[p].status
    BY <1>1, <1>3, <1>6 DEF HoldForReview, Rows
  <2> QED BY <1>1, <1>2, <1>3, <2>1, RowKeeps
<1>7. CASE CallBank(w)
  BY <1>4, <1>7 DEF CallBank
<1>8. CASE ApplyOutcome(w)
  BY <1>1, <1>2, <1>3, <1>4, <1>8, OutcomeKinds DEF ApplyOutcome
<1>9. CASE Unflag(w)
  <2>1. /\ holder' = holder /\ \A q \in Payouts \ {p} : transfer'[q] = transfer[q]
        /\ transfer'[p].status = transfer[p].status
    BY <1>1, <1>3, <1>9 DEF Unflag, Rows
  <2> QED BY <1>1, <1>2, <1>3, <2>1, RowKeeps
<1> QED BY <1>5, <1>6, <1>7, <1>8, <1>9 DEF Step

LEMMA StepKinds ==
  ASSUME Inv, Money, [Next]_vars
  PROVE  \/ \E c \in Credits : Earn(c)
         \/ \E w \in Workers : \E S, kind, what : Claimed(w, S, kind, what)
         \/ Kept
         \/ \E p \in Payouts : GaveBack(p)
<1>1. ASSUME UNCHANGED <<items, holder, carry, amount, transfer>> PROVE Kept
  BY <1>1 DEF Kept
<1>2. ASSUME NEW w \in Workers, NEW what \in Asks, Withdraw(w, what)
      PROVE  Claimed(w, Unpaid, "WITHDRAWAL", what)
  BY <1>2, AsksAssumption DEF Withdraw, Claimed
<1>3. ASSUME NEW w \in Workers, MonthlyRun(w)
      PROVE  Kept \/ Claimed(w, Unpaid \intersect old, "MONTHLY", Total(Unpaid \intersect old))
  <2> DEFINE S == Unpaid \intersect old
  <2>1. CASE Total(S) > 0
    <3>1. S \in SUBSET items
      BY DEF Unpaid
    <3>2. Total(S) \in Nat
      BY <2>1, <3>1, Subtotal DEF Money
    <3> QED BY <1>3, <2>1, <3>2 DEF MonthlyRun, Claimed
  <2>2. CASE ~(Total(S) > 0)
    BY <1>1, <1>3, <2>2 DEF MonthlyRun
  <2> QED BY <2>1, <2>2
<1>4. ASSUME NEW p \in Payouts, ReviewRelease(p) PROVE GaveBack(p)
  BY <1>4 DEF ReviewRelease, Move, GaveBack, Live, GivenBack, Inv, Typed, Rows
<1>5. CASE UNCHANGED vars \/ MonthEnds
  BY <1>1, <1>5 DEF vars, MonthEnds
<1>6. ASSUME NEW w \in Workers, NEW p \in Payouts, PickDue(w, p) \/ ReviewRetry(w, p) PROVE Kept
  BY <1>1, <1>6 DEF PickDue, ReviewRetry
<1>7. ASSUME NEW w \in Workers, NEW p \in Payouts, NEW n \in Attempts, NEW answer \in Answers,
             Webhook(w, p, n, answer)
      PROVE  Kept
  BY <1>1, <1>7 DEF Webhook
<1>8. ASSUME NEW w \in Workers, Crash(w) PROVE Kept
  BY <1>1, <1>8 DEF Crash
<1>9. ASSUME NEW p \in Payouts, NEW n \in Attempts, NEW to \in {"paid", "refused", "returned"},
             BankMoves(p, n, to)
      PROVE  Kept
  BY <1>1, <1>9 DEF BankMoves
<1>10. CASE Next
  BY <1>2, <1>3, <1>4, <1>5, <1>6, <1>7, <1>8, <1>9, <1>10, WorkKinds DEF Next
<1> QED BY <1>5, <1>10

-----------------------------------------------------------------------------
(* What each kind of step does to the sums.                                *)

LEMMA InitMoney == Init => Money
<1> SUFFICES ASSUME Init PROVE Money
  OBVIOUS
<1>1. MoneyTypes
  BY FS_EmptySet DEF Init, MoneyTypes
<1>2. Holders /\ Pairs /\ Amounts
  BY DEF Init, Holders, Pairs, Amounts, Live, NoTransfer
<1> QED BY <1>1, <1>2 DEF Money

LEMMA EarnSums ==
  ASSUME Inv, Money, NEW x \in Credits, Earn(x)
  PROVE  Money' /\ Total(Unpaid)' = Total(Unpaid) + Value[x]
<1> DEFINE i == <<x, "earned">>
<1>1. /\ i \in Items /\ i \notin items /\ holder[i] = NoPayout
      /\ items' = items \union {i}
      /\ UNCHANGED <<holder, carry, amount, transfer>>
      /\ WorthBy(carry)[i] = Value[x] /\ Value[x] \in Int
  BY WorthOf, HolderOf DEF Earn, Money, MoneyTypes
<1>2. i \notin Payouts \X {"in", "out"}
  OBVIOUS
<1>3. Unpaid' = Unpaid \union {i} /\ i \notin Unpaid
  <2> HIDE DEF i
  <2> QED BY <1>1 DEF Unpaid
<1>4. \A p \in Payouts : HeldBy(p)' = HeldBy(p)
  <2> HIDE DEF i
  <2> QED BY <1>1 DEF HeldBy, NoPayout, Payouts
<1> HIDE DEF i
<1>5. MoneyTypes'
  BY <1>1, FS_AddElement DEF Money, MoneyTypes
<1>6. Holders' /\ Pairs'
  BY <1>1, <1>2 DEF Money, Holders, Pairs, Live
<1>7. Amounts'
  <2>1. \A p \in Payouts : Total(HeldBy(p))' = Total(HeldBy(p))
    BY <1>1, <1>4, TotalIsSum
  <2> QED BY <1>1, <2>1 DEF Money, Amounts, Live
<1>8. Total(Unpaid)' = Total(Unpaid) + Value[x]
  <2>1. Unpaid \subseteq Items /\ IsFiniteSet(Unpaid) /\ carry \in [Payouts -> Nat]
        /\ Total(Unpaid) = SumOf(carry, Unpaid) /\ Total(Unpaid) \in Int
    BY Subtotal DEF Money, MoneyTypes, Unpaid
  <2>2. SumOf(carry, Unpaid \union {i}) = Value[x] + SumOf(carry, Unpaid)
    BY <1>1, <1>3, <2>1, SumPlus
  <2> QED BY <1>1, <1>3, <2>1, <2>2, TotalIsSum
<1> QED BY <1>5, <1>6, <1>7, <1>8 DEF Money

LEMMA KeptSums ==
  ASSUME Inv, Money, Inv', Kept
  PROVE  Money' /\ Total(Unpaid)' = Total(Unpaid)
<1>1. UNCHANGED <<items, holder, carry, amount>>
  BY DEF Kept
<1>2. \A p \in Payouts : /\ Live(p)' <=> Live(p)
                         /\ transfer'[p].status = "NONE" <=> transfer[p].status = "NONE"
  <2>1. \A p \in Payouts : /\ Live(p) <=> MoneyIs(transfer[p].status) \in {"on its way", "paid"}
                           /\ transfer[p].status = "NONE" <=> MoneyIs(transfer[p].status) = "none"
                           /\ transfer[p].status \in Open => Live(p) /\ transfer[p].status # "NONE"
    BY StatusKinds DEF Inv, Live, Open, GivenBack
  <2>2. \A p \in Payouts : /\ Live(p)' <=> MoneyIs(transfer'[p].status) \in {"on its way", "paid"}
                           /\ transfer'[p].status = "NONE" <=> MoneyIs(transfer'[p].status) = "none"
                           /\ transfer'[p].status = "SUCCESS" => Live(p)' /\ transfer'[p].status # "NONE"
    BY DEF Inv, Typed, Rows, Statuses, Live, MoneyIs, Open, GivenBack
  <2>3. CASE \A q \in Payouts : MoneyIs(transfer'[q].status) = MoneyIs(transfer[q].status)
    BY <2>1, <2>2, <2>3
  <2>4. ASSUME NEW p \in Payouts, transfer[p].status \in Open, transfer'[p].status = "SUCCESS",
               \A q \in Payouts \ {p} : transfer'[q] = transfer[q], NEW q \in Payouts
        PROVE  /\ Live(q)' <=> Live(q)
               /\ transfer'[q].status = "NONE" <=> transfer[q].status = "NONE"
    <3>1. CASE q = p
      BY <2>1, <2>2, <2>4, <3>1
    <3>2. CASE q # p
      BY <2>4, <3>2 DEF Live
    <3> QED BY <3>1, <3>2
  <2> QED BY <2>3, <2>4 DEF Kept
<1>3. Unpaid' = Unpaid /\ \A p : HeldBy(p)' = HeldBy(p)
  BY <1>1 DEF Unpaid, HeldBy
<1>4. Total(Unpaid)' = Total(Unpaid) /\ \A p : Total(HeldBy(p))' = Total(HeldBy(p))
  BY <1>1, <1>3, TotalIsSum
<1>5. MoneyTypes' /\ Holders' /\ Pairs'
  BY <1>1, <1>2 DEF Money, MoneyTypes, Holders, Pairs
<1>6. Amounts'
  BY <1>1, <1>2, <1>4 DEF Money, Amounts
<1> QED BY <1>4, <1>5, <1>6 DEF Money

LEMMA GaveBackSums ==
  ASSUME Inv, Money, NEW p \in Payouts, GaveBack(p)
  PROVE  Money' /\ Total(Unpaid)' = Total(Unpaid) + amount[p]
<1>1. /\ UNCHANGED <<items, carry, amount>>
      /\ holder' = [i \in Items |-> IF holder[i] = p THEN NoPayout ELSE holder[i]]
      /\ Live(p) /\ ~Live(p)' /\ transfer'[p].status # "NONE"
      /\ \A q \in Payouts \ {p} : transfer'[q] = transfer[q]
  BY DEF GaveBack, Release, Live, GivenBack
<1>2. items \subseteq Items /\ holder \in [Items -> {NoPayout} \union Payouts] /\ NoPayout \notin Payouts
  BY DEF Money, MoneyTypes, NoPayout, Payouts
<1>3. /\ Unpaid' = Unpaid \union HeldBy(p) /\ Unpaid \cap HeldBy(p) = {}
      /\ \A q \in Payouts \ {p} : HeldBy(q)' = HeldBy(q)
  BY <1>1, <1>2 DEF Unpaid, HeldBy
<1>4. Total(Unpaid)' = Total(Unpaid) + amount[p]
  <2>1. /\ items \subseteq Items /\ IsFiniteSet(items) /\ carry \in [Payouts -> Nat]
        /\ Unpaid \subseteq items /\ HeldBy(p) \subseteq items
    BY DEF Money, MoneyTypes, Unpaid, HeldBy
  <2>2. SumOf(carry, Unpaid \union HeldBy(p)) = SumOf(carry, Unpaid) + SumOf(carry, HeldBy(p))
    BY <1>3, <2>1, SumLaws
  <2>3. SumOf(carry, HeldBy(p)) = amount[p]
    BY <1>1, TotalIsSum DEF Money, Amounts
  <2> QED BY <1>1, <1>3, <2>2, <2>3, TotalIsSum
<1>5. MoneyTypes'
  BY <1>1, <1>2 DEF Money, MoneyTypes
<1>6. Holders' /\ Pairs'
  BY <1>1, <1>2 DEF Money, Holders, Pairs, Live
<1>7. Amounts'
  <2> SUFFICES ASSUME NEW q \in Payouts, Live(q)' PROVE Total(HeldBy(q))' = amount'[q]
    BY DEF Amounts
  <2>1. q # p
    BY <1>1
  <2>2. Live(q) /\ Total(HeldBy(q))' = Total(HeldBy(q))
    BY <1>1, <1>3, <2>1, TotalIsSum DEF Live
  <2> QED BY <1>1, <2>2 DEF Money, Amounts
<1> QED BY <1>4, <1>5, <1>6, <1>7 DEF Money

\* The payout a claim creates, and what it takes.
LEMMA ClaimedRow ==
  ASSUME Inv, Money, NEW w \in Workers, NEW S, NEW kind, NEW what, Claimed(w, S, kind, what)
  PROVE  \E p \in Payouts :
           LET rest == Total(S) - what
           IN /\ transfer[p].status = "NONE" /\ transfer'[p].status = "PENDING"
              /\ \A q \in Payouts \ {p} : transfer'[q] = transfer[q]
              /\ rest \in Nat /\ what \in Nat /\ what > 0 /\ S \subseteq Unpaid
              /\ items' = items \union (IF rest > 0 THEN {<<p, "out">>, <<p, "in">>} ELSE {})
              /\ holder' = [i \in Items |-> IF i \in Taken(p, S, rest) THEN p ELSE holder[i]]
              /\ carry' = [carry EXCEPT ![p] = rest]
              /\ amount' = [amount EXCEPT ![p] = what]
<1> DEFINE p == 1 + Cardinality(Used)
           rest == Total(S) - what
<1>1. /\ p \in Payouts /\ rest >= 0 /\ S \subseteq Unpaid /\ what \in Nat /\ what > 0
      /\ items' = items \union (IF rest > 0 THEN {<<p, "out">>, <<p, "in">>} ELSE {})
      /\ holder' = [i \in Items |-> IF i \in Taken(p, S, rest) THEN p ELSE holder[i]]
      /\ carry' = [carry EXCEPT ![p] = rest]
      /\ amount' = [amount EXCEPT ![p] = what]
      /\ transfer' = [transfer EXCEPT ![p] = [NoTransfer EXCEPT !.status = "PENDING", !.kind = kind]]
  BY DEF Claimed, ClaimItems, Covers, Used
<1>2. rest \in Nat
  <2>1. S \in SUBSET items
    BY <1>1 DEF Unpaid
  <2> QED BY <1>1, <2>1, Subtotal DEF Money
<1> HIDE DEF p, rest
<1>3. transfer[p].status = "NONE"
  BY <1>1, NextNumber DEF Inv, p
<1>4. transfer'[p].status = "PENDING" /\ \A q \in Payouts \ {p} : transfer'[q] = transfer[q]
  BY <1>1 DEF Inv, Typed, NoTransfer
<1> QED BY <1>1, <1>2, <1>3, <1>4 DEF rest

LEMMA ClaimedSums ==
  ASSUME Inv, Money, NEW p \in Payouts, NEW S, NEW what \in Nat, NEW rest \in Nat,
         S \subseteq Unpaid, rest = Total(S) - what,
         transfer[p].status = "NONE", transfer'[p].status = "PENDING",
         \A q \in Payouts \ {p} : transfer'[q] = transfer[q],
         items' = items \union (IF rest > 0 THEN {<<p, "out">>, <<p, "in">>} ELSE {}),
         holder' = [i \in Items |-> IF i \in Taken(p, S, rest) THEN p ELSE holder[i]],
         carry' = [carry EXCEPT ![p] = rest],
         amount' = [amount EXCEPT ![p] = what]
  PROVE  Money' /\ Total(Unpaid)' = Total(Unpaid) - what
<1> DEFINE in  == <<p, "in">>
           out == <<p, "out">>
<1>1. /\ items \subseteq Items /\ IsFiniteSet(items) /\ Unpaid \subseteq items
      /\ holder \in [Items -> {NoPayout} \union Payouts] /\ NoPayout \notin Payouts
      /\ carry \in [Payouts -> Nat] /\ carry' \in [Payouts -> Nat] /\ carry'[p] = rest
      /\ \A q \in Payouts \ {p} : carry'[q] = carry[q]
      /\ amount' \in [Payouts -> Nat] /\ amount'[p] = what
      /\ \A q \in Payouts \ {p} : amount'[q] = amount[q]
      /\ ~Live(p) /\ Live(p)' /\ \A q \in Payouts \ {p} : Live(q)' <=> Live(q)
  BY DEF Money, MoneyTypes, Unpaid, NoPayout, Payouts, Live, GivenBack
<1>2. /\ in \in Items /\ out \in Items /\ in \notin items /\ out \notin items /\ in # out
      /\ WorthBy(carry')[in] = rest /\ WorthBy(carry')[out] = 0 - rest
  BY <1>1, WorthOf DEF Money, Pairs
<1>3. HeldBy(p) = {} /\ \A i \in Items : holder[i] # p
  BY <1>1 DEF Money, Holders, HeldBy
<1>4. \A i \in items : WorthBy(carry')[i] = WorthBy(carry)[i]
  <2> SUFFICES ASSUME NEW i \in items PROVE WorthBy(carry')[i] = WorthBy(carry)[i]
    OBVIOUS
  <2> SUFFICES ASSUME NEW d \in [Payouts -> Nat], \A q \in Payouts \ {p} : d[q] = carry[q]
               PROVE  WorthBy(d)[i] = WorthBy(carry)[i]
    BY <1>1
  <2>1. i \in Items /\ i # in /\ i # out
    BY <1>1, <1>2
  <2> QED BY <1>1, <2>1, WorthKeeps
<1>5. \A x : \A q \in Payouts : <<q, x>> \in {in, out} => q = p
  OBVIOUS
<1>6. \A x \in Credits, q \in Payouts : <<x, "earned">> # in /\ <<x, "earned">> # out
  OBVIOUS
<1> HIDE DEF in, out
<1>7. \A T \in SUBSET items :
        /\ T \subseteq Items /\ IsFiniteSet(T) /\ SumOf(carry', T) = SumOf(carry, T) /\ SumOf(carry, T) \in Int
  <2> SUFFICES ASSUME NEW T \in SUBSET items
               PROVE  /\ T \subseteq Items /\ IsFiniteSet(T)
                      /\ SumOf(carry', T) = SumOf(carry, T) /\ SumOf(carry, T) \in Int
    OBVIOUS
  <2>1. T \subseteq Items /\ IsFiniteSet(T)
    BY <1>1, FS_Subset
  <2>2. carry \in [Payouts -> Nat] /\ \A i \in T : WorthBy(carry')[i] = WorthBy(carry)[i]
    BY <1>1, <1>4
  <2> QED BY <2>1, <2>2, SumLaws
<1>8. /\ items' = items \union (IF rest > 0 THEN {out, in} ELSE {})
      /\ holder' = [i \in Items |-> IF i \in Taken(p, S, rest) THEN p ELSE holder[i]]
      /\ Taken(p, S, rest) = S \union (IF rest > 0 THEN {out} ELSE {})
  BY DEF in, out, Taken
<1>9. /\ S \subseteq items
      /\ HeldBy(p)' = S \union (IF rest > 0 THEN {out} ELSE {})
      /\ Unpaid' = (Unpaid \ S) \union (IF rest > 0 THEN {in} ELSE {})
      /\ \A q \in Payouts \ {p} : HeldBy(q)' = HeldBy(q)
  <2>1. \A i \in items' : holder'[i] = IF i \in Taken(p, S, rest) THEN p ELSE holder[i]
    BY <1>1, <1>2, <1>8
  <2>2. Taken(p, S, rest) \subseteq items' /\ S \subseteq items
    BY <1>1, <1>8
  <2>3. HeldBy(p)' = Taken(p, S, rest)
    BY <1>1, <1>2, <1>3, <1>8, <2>1, <2>2 DEF HeldBy
  <2>4. holder[in] = NoPayout /\ holder[out] = NoPayout
    BY <1>2, HolderOf
  <2>5. \A q \in Payouts \ {p} : HeldBy(q)' = HeldBy(q)
    BY <1>1, <1>2, <1>8, <2>1, <2>4 DEF HeldBy, Unpaid
  <2>6. Unpaid' = (Unpaid \ S) \union (IF rest > 0 THEN {in} ELSE {})
    BY <1>1, <1>2, <1>8, <2>1, <2>4 DEF Unpaid
  <2> QED BY <1>8, <2>2, <2>3, <2>5, <2>6
<1>10. /\ Total(S) = SumOf(carry, S) /\ Total(Unpaid) = SumOf(carry, Unpaid)
       /\ SumOf(carry, S) = what + rest
       /\ SumOf(carry, Unpaid) = SumOf(carry, Unpaid \ S) + SumOf(carry, S)
  <2>1. SumOf(carry, (Unpaid \ S) \union S) = SumOf(carry, Unpaid \ S) + SumOf(carry, S)
    BY <1>1, <1>9, SumLaws
  <2>2. (Unpaid \ S) \union S = Unpaid
    OBVIOUS
  <2>3. Total(S) = SumOf(carry, S) /\ Total(Unpaid) = SumOf(carry, Unpaid) /\ SumOf(carry, S) \in Int
    BY <1>7, <1>9, TotalIsSum
  <2>4. SumOf(carry, S) = what + rest
    BY <2>3
  <2> QED BY <2>1, <2>2, <2>3, <2>4
<1>11. Total(HeldBy(p))' = what
  <2>1. CASE rest > 0
    <3>1. SumOf(carry', S \union {out}) = (0 - rest) + SumOf(carry', S)
      <4> SUFFICES ASSUME NEW d \in [Payouts -> Nat], WorthBy(d)[out] = 0 - rest
                   PROVE  SumOf(d, S \union {out}) = (0 - rest) + SumOf(d, S)
        BY <1>1, <1>2
      <4>1. S \subseteq Items /\ IsFiniteSet(S) /\ out \in Items \ S
        BY <1>2, <1>7, <1>9
      <4> QED BY <4>1, SumPlus
    <3>2. Total(HeldBy(p))' = SumOf(carry', S \union {out})
      BY <1>9, <2>1, TotalIsSum
    <3>3. SumOf(carry', S) = what + rest
      BY <1>7, <1>9, <1>10
    <3> QED BY <3>1, <3>2, <3>3
  <2>2. CASE ~(rest > 0)
    <3>1. HeldBy(p)' = S /\ rest = 0
      BY <1>9, <2>2
    <3>2. Total(HeldBy(p))' = SumOf(carry', S)
      BY <3>1, TotalIsSum
    <3>3. SumOf(carry', S) = what + rest
      BY <1>7, <1>9, <1>10
    <3> QED BY <3>1, <3>2, <3>3
  <2> QED BY <2>1, <2>2
<1>12. Total(Unpaid)' = Total(Unpaid) - what
  <2> DEFINE R == Unpaid \ S
  <2>1. R \in SUBSET items /\ in \notin R
    BY <1>1, <1>2
  <2>2. SumOf(carry, Unpaid) = SumOf(carry, R) + what + rest /\ SumOf(carry, R) \in Int
        /\ SumOf(carry', R) = SumOf(carry, R)
    <3>1. SumOf(carry, R) \in Int /\ SumOf(carry', R) = SumOf(carry, R)
      <4> HIDE DEF R
      <4> QED BY <1>7, <2>1
    <3> QED BY <1>10, <3>1
  <2>3. CASE rest > 0
    <3>1. SumOf(carry', R \union {in}) = rest + SumOf(carry', R)
      <4> HIDE DEF R
      <4> SUFFICES ASSUME NEW d \in [Payouts -> Nat], WorthBy(d)[in] = rest
                   PROVE  SumOf(d, R \union {in}) = rest + SumOf(d, R)
        BY <1>1, <1>2
      <4>1. R \subseteq Items /\ IsFiniteSet(R) /\ in \in Items \ R
        BY <1>2, <1>7, <2>1
      <4> QED BY <4>1, SumPlus
    <3>2. Total(Unpaid)' = SumOf(carry', R \union {in})
      BY <1>9, <2>3, TotalIsSum
    <3> HIDE DEF R
    <3>3. SumOf(carry, R) \in Int /\ Total(Unpaid) = SumOf(carry, R) + what + rest
      BY <1>10, <2>2
    <3> QED BY <2>2, <3>1, <3>2, <3>3
  <2>4. CASE ~(rest > 0)
    <3>1. Unpaid' = R /\ rest = 0
      BY <1>9, <2>4
    <3>2. Total(Unpaid)' = SumOf(carry', R)
      BY <3>1, TotalIsSum
    <3> HIDE DEF R
    <3>3. SumOf(carry, R) \in Int /\ Total(Unpaid) = SumOf(carry, R) + what + rest
      BY <1>10, <2>2
    <3> QED BY <2>2, <3>1, <3>2, <3>3
  <2> QED BY <2>3, <2>4
<1>13. MoneyTypes'
  <2>1. items' \subseteq Items
    BY <1>1, <1>2, <1>8
  <2>2. IsFiniteSet(items')
    <3>1. IsFiniteSet(items \union {out}) /\ IsFiniteSet((items \union {out}) \union {in})
      BY <1>1, FS_AddElement
    <3>2. (items \union {out}) \union {in} = items \union {out, in}
      OBVIOUS
    <3>3. CASE rest > 0
      BY <1>8, <3>1, <3>2, <3>3
    <3>4. CASE ~(rest > 0)
      BY <1>1, <1>8, <3>4
    <3> QED BY <3>3, <3>4
  <2> QED BY <1>1, <1>8, <2>1, <2>2 DEF MoneyTypes
<1>14. Holders'
  <2> SUFFICES ASSUME NEW i \in Items, holder'[i] # NoPayout
               PROVE  i \in items' /\ transfer'[holder'[i]].status \notin {"NONE"} \union GivenBack
    BY DEF Holders, Live
  <2>1. CASE i \in Taken(p, S, rest)
    <3>1. holder'[i] = p /\ i \in items'
      BY <1>1, <1>8, <1>9, <2>1
    <3> QED BY <1>1, <3>1 DEF Live
  <2>2. CASE i \notin Taken(p, S, rest)
    <3>1. holder'[i] = holder[i]
      BY <1>8, <2>2
    <3>2. i \in items /\ Live(holder[i]) /\ holder[i] \in Payouts
      BY <1>1, <3>1 DEF Money, Holders
    <3>3. holder[i] # p
      BY <1>3
    <3> QED BY <1>1, <1>8, <3>1, <3>2, <3>3 DEF Live
  <2> QED BY <2>1, <2>2
<1>15. Pairs'
  BY <1>5, <1>8 DEF Money, Pairs
<1>16. Amounts'
  <2> SUFFICES ASSUME NEW q \in Payouts, Live(q)' PROVE Total(HeldBy(q))' = amount'[q]
    BY DEF Amounts
  <2>1. CASE q = p
    BY <1>1, <1>11, <2>1
  <2>2. CASE q # p
    <3>1. HeldBy(q)' = HeldBy(q) /\ HeldBy(q) \in SUBSET items
      BY <1>9, <2>2 DEF HeldBy
    <3>2. Total(HeldBy(q))' = Total(HeldBy(q))
      BY <1>7, <3>1, TotalIsSum
    <3> QED BY <1>1, <2>2, <3>2 DEF Money, Amounts
  <2> QED BY <2>1, <2>2
<1> QED BY <1>12, <1>13, <1>14, <1>15, <1>16 DEF Money

LEMMA ClaimedIsSums ==
  ASSUME Inv, Money, NEW w \in Workers, NEW S, NEW kind, NEW what, Claimed(w, S, kind, what)
  PROVE  /\ Money'
         /\ \E p \in Payouts :
              /\ transfer[p].status = "NONE" /\ transfer'[p].status = "PENDING"
              /\ \A q \in Payouts \ {p} : transfer'[q] = transfer[q]
              /\ what > 0 /\ amount' = [amount EXCEPT ![p] = what]
              /\ Total(Unpaid)' = Total(Unpaid) - what
<1> DEFINE rest == Total(S) - what
<1>1. PICK p \in Payouts :
        /\ transfer[p].status = "NONE" /\ transfer'[p].status = "PENDING"
        /\ \A q \in Payouts \ {p} : transfer'[q] = transfer[q]
        /\ rest \in Nat /\ what \in Nat /\ what > 0 /\ S \subseteq Unpaid
        /\ items' = items \union (IF rest > 0 THEN {<<p, "out">>, <<p, "in">>} ELSE {})
        /\ holder' = [i \in Items |-> IF i \in Taken(p, S, rest) THEN p ELSE holder[i]]
        /\ carry' = [carry EXCEPT ![p] = rest]
        /\ amount' = [amount EXCEPT ![p] = what]
  BY ClaimedRow
<1>2. PICK r \in Nat : r = rest
  BY <1>1
<1> HIDE DEF rest
<1>3. Money' /\ Total(Unpaid)' = Total(Unpaid) - what
  <2>1. r = Total(S) - what
    BY <1>2 DEF rest
  <2> QED BY <1>1, <1>2, <2>1, ClaimedSums
<1> QED BY <1>1, <1>3

-----------------------------------------------------------------------------
(* RiderTransfers implements RiderBalance.                                 *)

LEMMA InitPromise == Init => Promise!Init
<1> SUFFICES ASSUME Init PROVE Promise!Init
  OBVIOUS
<1>1. Unpaid = {}
  BY DEF Init, Unpaid
<1>2. Total(Unpaid) = 0
  BY <1>1, SumOfEmpty DEF Total
<1>3. \A p \in Payouts : amount[p] = 0 /\ MoneyIs(transfer[p].status) = "none"
  <2>1. \A p \in Payouts : amount[p] = 0 /\ transfer[p].status = "NONE"
    BY DEF Init, NoTransfer
  <2> QED BY <2>1 DEF MoneyIs, Open
<1> QED BY <1>2, <1>3 DEF Promise!Init

\* A payout's amount and where its money is.
PayoutNow == [p \in Payouts |-> [amount |-> amount[p], money |-> MoneyIs(transfer[p].status)]]

LEMMA NextPromise ==
  ASSUME Inv, Inv', Money, [Next]_vars
  PROVE  Money' /\ [Promise!Next]_(Promise!vars)
<1>1. Typed /\ Typed' /\ amount \in [Payouts -> Nat]
  BY DEF Inv, Money, MoneyTypes
<1>2. ASSUME NEW x \in Credits, Earn(x) PROVE Money' /\ Promise!Next
  <2>1. Money' /\ Total(Unpaid)' = Total(Unpaid) + Value[x]
    BY <1>2, EarnSums
  <2>2. PayoutNow' = PayoutNow
    BY <1>2 DEF Earn, PayoutNow
  <2>3. Promise!Earn(Value[x])
    BY <2>1, <2>2 DEF Promise!Earn, PayoutNow
  <2> QED BY <2>1, <2>3 DEF Promise!Next
<1>3. ASSUME NEW w \in Workers, NEW S, NEW kind, NEW what, Claimed(w, S, kind, what)
      PROVE  Money' /\ Promise!Next
  <2>1. PICK p \in Payouts :
          /\ transfer[p].status = "NONE" /\ transfer'[p].status = "PENDING"
          /\ \A q \in Payouts \ {p} : transfer'[q] = transfer[q]
          /\ what > 0 /\ amount' = [amount EXCEPT ![p] = what]
          /\ Total(Unpaid)' = Total(Unpaid) - what
    BY <1>3, ClaimedIsSums
  <2>2. Money'
    BY <1>3, ClaimedIsSums
  <2>3. PayoutNow' = [PayoutNow EXCEPT ![p] = [amount |-> what, money |-> "on its way"]]
    BY <1>1, <2>1 DEF PayoutNow, MoneyIs, Open
  <2>4. PayoutNow[p].money = "none" /\ PayoutNow'[p].amount = what
    <3>1. MoneyIs(transfer[p].status) = "none"
      BY <2>1 DEF MoneyIs, Open
    <3>2. PayoutNow[p].money = "none" /\ p \in DOMAIN PayoutNow
      BY <3>1 DEF PayoutNow
    <3> QED BY <2>3, <3>2
  <2>5. Promise!Take(p, PayoutNow'[p].amount)
    BY <2>1, <2>3, <2>4 DEF Promise!Take, PayoutNow
  <2> QED BY <2>2, <2>5 DEF Promise!Next, PayoutNow
<1>4. CASE Kept
  <2>1. Money' /\ Total(Unpaid)' = Total(Unpaid)
    BY <1>4, KeptSums
  <2>2. CASE \A q \in Payouts : MoneyIs(transfer'[q].status) = MoneyIs(transfer[q].status)
    <3>1. PayoutNow' = PayoutNow
      BY <1>4, <2>2 DEF PayoutNow, Kept
    <3> QED BY <2>1, <3>1 DEF Promise!vars, PayoutNow
  <2>3. ASSUME NEW p \in Payouts, transfer[p].status \in Open, transfer'[p].status = "SUCCESS",
               \A q \in Payouts \ {p} : transfer'[q] = transfer[q]
        PROVE  Promise!Next
    <3>1. amount' = amount /\ MoneyIs(transfer[p].status) = "on its way" /\ MoneyIs(transfer'[p].status) = "paid"
      BY <1>4, <2>3 DEF Kept, MoneyIs, Open
    <3>2. PayoutNow[p].money = "on its way" /\ PayoutNow' = [PayoutNow EXCEPT ![p].money = "paid"]
      BY <2>3, <3>1 DEF PayoutNow
    <3>3. Promise!Pay(p)
      BY <2>1, <3>2 DEF Promise!Pay, PayoutNow
    <3> QED BY <3>3 DEF Promise!Next
  <2> QED BY <1>4, <2>1, <2>2, <2>3 DEF Kept
<1>5. ASSUME NEW p \in Payouts, GaveBack(p) PROVE Money' /\ Promise!Next
  <2>1. Money' /\ Total(Unpaid)' = Total(Unpaid) + amount[p]
    BY <1>5, GaveBackSums
  <2>2. MoneyIs(transfer[p].status) \in {"on its way", "paid"} /\ MoneyIs(transfer'[p].status) = "back"
    BY <1>1, <1>5, StatusKinds DEF GaveBack, MoneyIs, GivenBack, Open
  <2>3. PayoutNow' = [PayoutNow EXCEPT ![p].money = "back"]
    <3>1. amount' = amount /\ \A q \in Payouts \ {p} : transfer'[q] = transfer[q]
      BY <1>5 DEF GaveBack
    <3>2. PayoutNow[p] = [amount |-> amount[p], money |-> MoneyIs(transfer[p].status)]
      BY DEF PayoutNow
    <3>3. PayoutNow' = [PayoutNow EXCEPT ![p] = [amount |-> amount[p], money |-> "back"]]
      <4>1. \A q \in Payouts : MoneyIs(transfer'[q].status) = IF q = p THEN "back" ELSE MoneyIs(transfer[q].status)
        BY <2>2, <3>1
      <4> QED BY <3>1, <4>1 DEF PayoutNow
    <3>4. [PayoutNow[p] EXCEPT !.money = "back"] = [amount |-> amount[p], money |-> "back"]
      BY <3>2
    <3> QED BY <3>3, <3>4
  <2>4. Promise!GiveBack(p)
    BY <2>1, <2>2, <2>3 DEF Promise!GiveBack, PayoutNow
  <2> QED BY <2>1, <2>4 DEF Promise!Next
<1> QED BY <1>2, <1>3, <1>4, <1>5, StepKinds

LEMMA MoneyHolds == Spec => [](Inv /\ Money)
<1>1. Inv /\ Money /\ [Next]_vars => (Inv /\ Money)'
  BY StepInv, NextPromise
<1> QED BY <1>1, InitInv, InitMoney, PTL DEF Spec

\* Until it is given back a payout holds exactly the items its amount is made
\* of, and nothing after that, whatever the rider earns, owes and asks for and
\* however many payouts run at once (claimIntoTransfer, releasePayout).
THEOREM AmountsAreCarried == Spec => []CarriesItsAmount
<1>1. Inv /\ Money => CarriesItsAmount
  BY HolderOf DEF Money, Amounts, CarriesItsAmount, Live
<1> QED BY <1>1, MoneyHolds, PTL

\* Every step of the transfers is a step of the rider's balance or none: a
\* payout takes its amount out once, and the money is then on its way, paid,
\* or back whole (claimIntoTransfer, applyOutcome, reviewTransfer).
THEOREM ImplementsBalance == Spec => KeepsPromise
<1>1. Inv /\ Inv' /\ Money /\ [Next]_vars => [Promise!Next]_(Promise!vars)
  BY NextPromise
<1> QED BY <1>1, InitPromise, MoneyHolds, PTL DEF Spec, KeepsPromise, Promise!Spec

\* What the promise says of one payout: its amount stays, what was paid can only
\* come back, and what came back stays back.
MovesOn(p) ==
  /\ transfer[p].status # "NONE" => transfer'[p].status # "NONE" /\ amount'[p] = amount[p]
  /\ transfer[p].status = "SUCCESS" => transfer'[p].status \in {"SUCCESS"} \union GivenBack
  /\ transfer[p].status \in GivenBack => transfer'[p].status \in GivenBack

LEMMA PromiseMovesOn ==
  ASSUME NEW p \in Payouts, PayoutNow[p].money # "none", [Promise!Next]_(Promise!vars)
  PROVE  /\ PayoutNow'[p].amount = PayoutNow[p].amount /\ PayoutNow'[p].money # "none"
         /\ PayoutNow[p].money = "paid" => PayoutNow'[p].money \in {"paid", "back"}
         /\ PayoutNow[p].money = "back" => PayoutNow'[p].money = "back"
<1>1. ASSUME PayoutNow' = PayoutNow
      PROVE  /\ PayoutNow'[p].amount = PayoutNow[p].amount /\ PayoutNow'[p].money # "none"
             /\ PayoutNow[p].money = "paid" => PayoutNow'[p].money \in {"paid", "back"}
             /\ PayoutNow[p].money = "back" => PayoutNow'[p].money = "back"
  BY <1>1
<1>2. CASE UNCHANGED Promise!vars
  BY <1>1, <1>2 DEF Promise!vars, PayoutNow
<1>3. ASSUME NEW v, Promise!Earn(v) PROVE PayoutNow' = PayoutNow
  BY <1>3 DEF Promise!Earn, PayoutNow
<1>4. \A q \in Payouts : /\ PayoutNow[q] = [amount |-> amount[q], money |-> MoneyIs(transfer[q].status)]
                        /\ q \in DOMAIN PayoutNow
  BY DEF PayoutNow
<1>5. ASSUME NEW q \in Payouts,
             \/ Promise!Pay(q) \/ Promise!GiveBack(q)
             \/ \E a : Promise!Take(q, a)
      PROVE  /\ PayoutNow'[p].amount = PayoutNow[p].amount /\ PayoutNow'[p].money # "none"
             /\ PayoutNow[p].money = "paid" => PayoutNow'[p].money \in {"paid", "back"}
             /\ PayoutNow[p].money = "back" => PayoutNow'[p].money = "back"
  <2>1. CASE q # p
    <3>1. PayoutNow'[p] = PayoutNow[p]
      BY <1>5, <2>1 DEF Promise!Pay, Promise!GiveBack, Promise!Take, PayoutNow
    <3> QED BY <3>1
  <2>2. CASE q = p
    <3>1. CASE Promise!Pay(q)
      <4>1. PayoutNow[p].money = "on its way" /\ PayoutNow' = [PayoutNow EXCEPT ![p].money = "paid"]
        BY <2>2, <3>1 DEF Promise!Pay, PayoutNow
      <4>2. PayoutNow'[p] = [PayoutNow[p] EXCEPT !.money = "paid"]
        BY <1>4, <4>1
      <4>3. PayoutNow'[p].money = "paid" /\ PayoutNow'[p].amount = PayoutNow[p].amount
        BY <1>4, <4>2
      <4> QED BY <4>1, <4>3
    <3>2. CASE Promise!GiveBack(q)
      <4>1. PayoutNow[p].money # "back" /\ PayoutNow' = [PayoutNow EXCEPT ![p].money = "back"]
        BY <2>2, <3>2 DEF Promise!GiveBack, PayoutNow
      <4>2. PayoutNow'[p] = [PayoutNow[p] EXCEPT !.money = "back"]
        BY <1>4, <4>1
      <4>3. PayoutNow'[p].money = "back" /\ PayoutNow'[p].amount = PayoutNow[p].amount
        BY <1>4, <4>2
      <4> QED BY <4>1, <4>3
    <3>3. CASE \E a : Promise!Take(q, a)
      <4>1. PayoutNow[q].money = "none"
        BY <3>3 DEF Promise!Take, PayoutNow
      <4> QED BY <2>2, <4>1
    <3> QED BY <1>5, <3>1, <3>2, <3>3
  <2> QED BY <2>1, <2>2
<1>6. CASE Promise!Next
  <2>1. \/ \E v : Promise!Earn(v)
        \/ \E q \in Payouts : \/ Promise!Pay(q) \/ Promise!GiveBack(q)
                              \/ \E a : Promise!Take(q, a)
    BY <1>6 DEF Promise!Next, Promise!Earn, Promise!Pay, Promise!GiveBack, Promise!Take
  <2> QED BY <1>1, <1>3, <1>5, <2>1
<1> QED BY <1>2, <1>6

\* A payout that went back is never paid and one that was paid never sent again
\* by this side, and its amount is what it was created with, whatever answers
\* and webhooks come in and in whatever order (applyOutcome).
THEOREM PayoutsMoveOn == Spec => [][\A p \in Payouts : MovesOn(p)]_vars
<1>1. ASSUME Inv, Inv', Money, [Next]_vars, NEW p \in Payouts PROVE MovesOn(p)
  <2>1. transfer[p].status # "NONE" => PayoutNow[p].money # "none"
    BY <1>1, StatusKinds DEF Inv, PayoutNow
  <2>2. /\ transfer[p].status = "SUCCESS" => PayoutNow[p].money = "paid"
        /\ transfer[p].status \in GivenBack => PayoutNow[p].money = "back"
        /\ transfer[p].status \in {"SUCCESS"} \union GivenBack => transfer[p].status # "NONE"
    BY <1>1, StatusKinds DEF Inv, PayoutNow, GivenBack
  <2>3. /\ transfer'[p].status = "NONE" => PayoutNow'[p].money = "none"
        /\ PayoutNow'[p].money = "paid" => transfer'[p].status = "SUCCESS"
        /\ PayoutNow'[p].money = "back" => transfer'[p].status \in GivenBack
    <3>1. transfer'[p].status \in Statuses
      BY <1>1 DEF Inv, Typed, Rows
    <3>2. PayoutNow'[p].money = MoneyIs(transfer'[p].status)
      BY DEF PayoutNow
    <3> QED BY <3>1, <3>2 DEF MoneyIs, Statuses, Open, GivenBack
  <2>4. PayoutNow'[p].amount = amount'[p] /\ PayoutNow[p].amount = amount[p]
    BY DEF PayoutNow
  <2>5. [Promise!Next]_(Promise!vars)
    BY <1>1, NextPromise
  <2> QED BY <2>1, <2>2, <2>3, <2>4, <2>5, PromiseMovesOn DEF MovesOn
<1>2. Inv /\ Inv' /\ Money /\ [Next]_vars => \A p \in Payouts : MovesOn(p)
  BY <1>1
<1> QED BY <1>2, MoneyHolds, PTL DEF Spec

-----------------------------------------------------------------------------
(* The rider's balance: the carried pairs cancel out of it.                *)

\* What is unpaid and what is in payouts that were not given back are together
\* what was earned.
NotGivenBack == {p \in Payouts : transfer[p].status \notin GivenBack}
BalanceIsRight == Total(Unpaid) + SumFunctionOnSet(amount, NotGivenBack) = Total(Earned)
NothingYet == \A p \in Payouts : transfer[p].status = "NONE" => amount[p] = 0
Balance == BalanceIsRight /\ NothingYet

LEMMA EarnedIsSum ==
  /\ Total(Earned) = SumOf(carry, Earned)
  /\ Total(Earned)' = SumOf(carry', Earned')
BY DEF Total, Earned, SumOf, WorthBy, Worth

LEMMA PaidTypes ==
  ASSUME Inv, Money
  PROVE  /\ IsFiniteSet(Payouts)
         /\ \A S \in SUBSET Payouts : IsFiniteSet(S) /\ SumFunctionOnSet(amount, S) \in Int
         /\ \A p \in Payouts : amount[p] \in Int
         /\ Earned \in SUBSET items /\ Unpaid \in SUBSET items
         /\ Total(Earned) \in Int /\ Total(Unpaid) \in Int
<1>1. IsFiniteSet(Payouts)
  BY BoundsAssumption, FS_Interval DEF Payouts
<1>2. \A p \in Payouts : amount[p] \in Int
  BY DEF Money, MoneyTypes
<1>3. ASSUME NEW S \in SUBSET Payouts PROVE IsFiniteSet(S) /\ SumFunctionOnSet(amount, S) \in Int
  <2>1. IsFiniteSet(S)
    BY <1>1, FS_Subset
  <2> QED BY <1>2, <2>1, SumIsInt
<1>4. Earned \in SUBSET items /\ Unpaid \in SUBSET items
  BY DEF Earned, Unpaid
<1>5. Total(Earned) \in Int /\ Total(Unpaid) \in Int
  BY <1>4, Subtotal DEF Money
<1> QED BY <1>1, <1>2, <1>3, <1>4, <1>5

LEMMA EarnBalances ==
  ASSUME Inv, Money, Balance, NEW x \in Credits, Earn(x)
  PROVE  Balance'
<1> DEFINE i == <<x, "earned">>
<1>1. /\ i \in Items /\ i \notin items /\ i[2] = "earned"
      /\ items' = items \union {i}
      /\ UNCHANGED <<holder, carry, amount, transfer>>
      /\ WorthBy(carry)[i] = Value[x] /\ Value[x] \in Int
  BY WorthOf DEF Earn, Money, MoneyTypes
<1>2. Total(Unpaid)' = Total(Unpaid) + Value[x]
  BY EarnSums
<1> HIDE DEF i
<1>3. Earned' = Earned \union {i} /\ i \notin Earned
  BY <1>1 DEF Earned
<1>4. Total(Earned)' = Total(Earned) + Value[x]
  <2>1. Earned \subseteq Items /\ IsFiniteSet(Earned) /\ carry \in [Payouts -> Nat]
        /\ Total(Earned) = SumOf(carry, Earned) /\ Total(Earned) \in Int
    BY Subtotal, PaidTypes DEF Money, MoneyTypes
  <2>2. SumOf(carry, Earned \union {i}) = Value[x] + SumOf(carry, Earned)
    BY <1>1, <1>3, <2>1, SumPlus
  <2> QED BY <1>1, <1>3, <2>1, <2>2, EarnedIsSum
<1>5. NotGivenBack' = NotGivenBack /\ amount' = amount
  BY <1>1 DEF NotGivenBack
<1>6. SumFunctionOnSet(amount, NotGivenBack) \in Int /\ Total(Unpaid) \in Int /\ Total(Earned) \in Int
  BY PaidTypes DEF NotGivenBack
<1>7. BalanceIsRight'
  BY <1>1, <1>2, <1>4, <1>5, <1>6 DEF Balance, BalanceIsRight
<1> QED BY <1>1, <1>7 DEF Balance, NothingYet

LEMMA KeptBalances ==
  ASSUME Inv, Inv', Money, Balance, Kept
  PROVE  Balance'
<1>1. UNCHANGED <<items, holder, carry, amount>> /\ Total(Unpaid)' = Total(Unpaid)
  BY KeptSums DEF Kept
<1>2. \A p \in Payouts : /\ transfer'[p].status \in GivenBack <=> transfer[p].status \in GivenBack
                         /\ transfer'[p].status = "NONE" <=> transfer[p].status = "NONE"
  <2> SUFFICES ASSUME NEW p \in Payouts
               PROVE  /\ transfer'[p].status \in GivenBack <=> transfer[p].status \in GivenBack
                      /\ transfer'[p].status = "NONE" <=> transfer[p].status = "NONE"
    OBVIOUS
  <2>1. transfer[p].status \in Statuses /\ transfer'[p].status \in Statuses
    BY DEF Inv, Typed, Rows
  <2>2. CASE MoneyIs(transfer'[p].status) = MoneyIs(transfer[p].status)
    BY <2>1, <2>2 DEF MoneyIs, Statuses, Open, GivenBack
  <2>3. CASE transfer[p].status \in Open /\ transfer'[p].status = "SUCCESS"
    BY <2>3 DEF Open, GivenBack
  <2> QED BY <2>2, <2>3 DEF Kept
<1>3. NotGivenBack' = NotGivenBack /\ Earned' = Earned
  BY <1>1, <1>2 DEF NotGivenBack, Earned
<1>4. Total(Earned)' = Total(Earned)
  BY <1>1, <1>3, EarnedIsSum
<1>5. BalanceIsRight'
  BY <1>1, <1>3, <1>4 DEF Balance, BalanceIsRight
<1> QED BY <1>1, <1>2, <1>5 DEF Balance, NothingYet

LEMMA GaveBackBalances ==
  ASSUME Inv, Money, Balance, NEW p \in Payouts, GaveBack(p)
  PROVE  Balance'
<1>1. /\ UNCHANGED <<items, carry, amount>>
      /\ p \in NotGivenBack /\ transfer'[p].status \in GivenBack
      /\ \A q \in Payouts \ {p} : transfer'[q] = transfer[q]
  BY DEF GaveBack, Live, NotGivenBack
<1>2. Total(Unpaid)' = Total(Unpaid) + amount[p]
  BY GaveBackSums
<1>3. NotGivenBack' = NotGivenBack \ {p} /\ Earned' = Earned
  BY <1>1 DEF NotGivenBack, Earned
<1>4. Total(Earned)' = Total(Earned)
  BY <1>1, <1>3, EarnedIsSum
<1>5. NotGivenBack \in SUBSET Payouts /\ NotGivenBack \ {p} \in SUBSET Payouts
  BY DEF NotGivenBack
<1>6. SumFunctionOnSet(amount, NotGivenBack) = amount[p] + SumFunctionOnSet(amount, NotGivenBack \ {p})
  BY <1>1, <1>5, PaidTypes, SumWithout
<1>7. BalanceIsRight'
  <2>1. /\ SumFunctionOnSet(amount, NotGivenBack \ {p}) \in Int /\ amount[p] \in Int
        /\ Total(Unpaid) \in Int /\ Total(Earned) \in Int
    BY <1>5, PaidTypes
  <2>2. SumFunctionOnSet(amount', NotGivenBack') = SumFunctionOnSet(amount, NotGivenBack \ {p})
    BY <1>1, <1>3
  <2> QED BY <1>2, <1>4, <1>6, <2>1, <2>2 DEF Balance, BalanceIsRight
<1>8. transfer'[p].status # "NONE"
  BY <1>1 DEF GivenBack
<1> QED BY <1>1, <1>7, <1>8 DEF Balance, NothingYet

LEMMA ClaimBalances ==
  ASSUME Inv, Money, Balance, NEW w \in Workers, NEW S, NEW kind, NEW what,
         Claimed(w, S, kind, what)
  PROVE  Balance'
<1> DEFINE rest == Total(S) - what
<1>1. PICK p \in Payouts :
        /\ transfer[p].status = "NONE" /\ transfer'[p].status = "PENDING"
        /\ \A q \in Payouts \ {p} : transfer'[q] = transfer[q]
        /\ rest \in Nat /\ what \in Nat
        /\ items' = items \union (IF rest > 0 THEN {<<p, "out">>, <<p, "in">>} ELSE {})
        /\ carry' = [carry EXCEPT ![p] = rest]
        /\ amount' = [amount EXCEPT ![p] = what]
  BY ClaimedRow
<1> HIDE DEF rest
<1>2. Total(Unpaid)' = Total(Unpaid) - what
  <2>1. PICK q \in Payouts : Total(Unpaid)' = Total(Unpaid) - what
    BY ClaimedIsSums
  <2> QED BY <2>1
<1>3. Earned' = Earned
  <2>1. \A i \in {<<p, "out">>, <<p, "in">>} : i[2] # "earned"
    OBVIOUS
  <2> QED BY <1>1, <2>1 DEF Earned
<1>4. Total(Earned)' = Total(Earned)
  <2>1. /\ carry \in [Payouts -> Nat] /\ carry' \in [Payouts -> Nat]
        /\ \A q \in Payouts \ {p} : carry'[q] = carry[q]
        /\ Earned \subseteq Items /\ IsFiniteSet(Earned)
        /\ \A i \in Earned : i # <<p, "in">> /\ i # <<p, "out">>
    BY <1>1, PaidTypes, Subtotal DEF Money, MoneyTypes, Earned
  <2>2. ASSUME NEW d \in [Payouts -> Nat], \A q \in Payouts \ {p} : d[q] = carry[q]
        PROVE  SumOf(d, Earned) = SumOf(carry, Earned)
    <3>1. \A i \in Earned : WorthBy(d)[i] = WorthBy(carry)[i]
      BY <2>1, <2>2, WorthKeeps
    <3> QED BY <2>1, <3>1, SumLaws
  <2> QED BY <1>3, <2>1, <2>2, EarnedIsSum
<1>5. NotGivenBack' = NotGivenBack /\ p \in NotGivenBack /\ NotGivenBack \in SUBSET Payouts
  BY <1>1 DEF NotGivenBack, GivenBack
<1>6. SumFunctionOnSet(amount', NotGivenBack) = SumFunctionOnSet(amount, NotGivenBack) + what
  <2>1. amount[p] = 0 /\ amount'[p] = what
    BY <1>1 DEF Balance, NothingYet, Money, MoneyTypes
  <2>2. \A q \in NotGivenBack : amount[q] \in Int /\ amount'[q] \in Int
    BY <1>1, <1>5 DEF Money, MoneyTypes
  <2>3. \A q \in NotGivenBack \ {p} : amount'[q] = amount[q]
    BY <1>1, <1>5 DEF Money, MoneyTypes
  <2>4. ASSUME NEW g, \A q \in NotGivenBack : g[q] \in Int, g[p] = what,
               \A q \in NotGivenBack \ {p} : g[q] = amount[q]
        PROVE  SumFunctionOnSet(g, NotGivenBack) = SumFunctionOnSet(amount, NotGivenBack) + what
    <3>1. SumFunctionOnSet(g, NotGivenBack) = SumFunctionOnSet(amount, NotGivenBack) - amount[p] + g[p]
      <4>1. IsFiniteSet(NotGivenBack)
        BY <1>5, PaidTypes
      <4>2. \A y \in NotGivenBack : amount[y] \in Int /\ g[y] \in Int
        BY <2>2, <2>4
      <4> QED BY <1>5, <2>4, <4>1, <4>2, SumWithChange
    <3>2. SumFunctionOnSet(amount, NotGivenBack) \in Int
      BY <1>5, PaidTypes
    <3> QED BY <1>1, <2>1, <2>4, <3>1, <3>2
  <2> QED BY <2>1, <2>2, <2>3, <2>4
<1>7. BalanceIsRight'
  <2>1. SumFunctionOnSet(amount, NotGivenBack) \in Int /\ Total(Unpaid) \in Int /\ Total(Earned) \in Int
    BY <1>5, PaidTypes
  <2>2. SumFunctionOnSet(amount', NotGivenBack') = SumFunctionOnSet(amount, NotGivenBack) + what
    BY <1>5, <1>6
  <2> QED BY <1>1, <1>2, <1>4, <2>1, <2>2 DEF Balance, BalanceIsRight
<1>8. NothingYet'
  BY <1>1 DEF Balance, NothingYet, Money, MoneyTypes
<1> QED BY <1>7, <1>8 DEF Balance

LEMMA InitBalance == Init => Balance
<1> SUFFICES ASSUME Init PROVE Balance
  OBVIOUS
<1>1. Total(Unpaid) = 0 /\ Total(Earned) = 0
  <2>1. Unpaid = {} /\ Earned = {}
    BY DEF Init, Unpaid, Earned
  <2> QED BY <2>1, SumOfEmpty DEF Total
<1>2. \A p \in Payouts : amount[p] = 0
  BY DEF Init
<1>3. SumFunctionOnSet(amount, NotGivenBack) = 0
  <2>1. IsFiniteSet(NotGivenBack)
    <3>1. IsFiniteSet(Payouts)
      BY BoundsAssumption, FS_Interval DEF Payouts
    <3> QED BY <3>1, FS_Subset DEF NotGivenBack
  <2>2. \A p \in NotGivenBack : amount[p] = 0
    BY <1>2 DEF NotGivenBack
  <2> QED BY <2>1, <2>2, SumOfZeroes
<1> QED BY <1>1, <1>2, <1>3 DEF Balance, BalanceIsRight, NothingYet

LEMMA BalanceHolds == Spec => [](Inv /\ Money /\ Balance)
<1>1. ASSUME Inv, Inv', Money, Balance, [Next]_vars PROVE Balance'
  BY <1>1, StepKinds, EarnBalances, KeptBalances, GaveBackBalances, ClaimBalances
<1>2. Inv /\ Inv' /\ Money /\ Balance /\ [Next]_vars => Balance'
  BY <1>1
<1> QED BY <1>2, InitBalance, MoneyHolds, PTL DEF Spec

\* No money of a rider's is lost or made: what is unpaid and what is in payouts
\* that were not given back are together what was earned, whatever is claimed,
\* carried forward, refused and given back (transfers.ts:18-20).
THEOREM BalanceStaysRight == Spec => []BalanceIsRight
<1>1. Balance => BalanceIsRight
  BY DEF Balance
<1> QED BY <1>1, BalanceHolds, PTL

\* So payouts take more than was earned exactly when the balance is negative,
\* which is what a payout given back after its rest was paid can leave.
THEOREM OverpaidIsOwed == Spec => [](PaidIsEarned <=> Total(Unpaid) >= 0)
<1>1. ASSUME Inv, Money, Balance PROVE PaidIsEarned <=> Total(Unpaid) >= 0
  <2>1. /\ SumFunctionOnSet(amount, NotGivenBack) \in Int
        /\ Total(Unpaid) \in Int /\ Total(Earned) \in Int
    BY <1>1, PaidTypes DEF NotGivenBack
  <2>2. PaidIsEarned <=> SumFunctionOnSet(amount, NotGivenBack) <= Total(Earned)
    BY DEF PaidIsEarned, NotGivenBack
  <2>3. Total(Unpaid) + SumFunctionOnSet(amount, NotGivenBack) = Total(Earned)
    BY <1>1 DEF Balance, BalanceIsRight
  <2> QED BY <2>1, <2>2, <2>3
<1> QED BY <1>1, BalanceHolds, PTL

-----------------------------------------------------------------------------
(* The types of the rest, and retries, which are never more than attempts. *)

Retried == \A p \in Payouts : transfer[p].retries <= transfer[p].attempts
Aside == /\ month \in {"open", "due", "done"}
         /\ old \subseteq Items
         /\ seen \subseteq Payouts \X Attempts \X Answers

\* No row counts another attempt or another retry.
Uncounted ==
  \A p \in Payouts : /\ transfer'[p].retries = transfer[p].retries
                     /\ transfer'[p].attempts = transfer[p].attempts

LEMMA OutcomeCounts ==
  ASSUME Typed, NEW p \in Payouts, NEW answer, Outcome(p, answer)
  PROVE  Uncounted
<1>1. transfer \in [Payouts -> Rows] /\ transfer[p] \in Rows
  BY DEF Typed
<1>2. CASE Succeeded(p)
  <2>1. CASE Move(p, "SUCCESS")
    BY <1>1, <2>1 DEF Move, Rows, Uncounted
  <2>2. CASE transfer' = [transfer EXCEPT ![p].review = TRUE]
    BY <1>1, <2>2 DEF Rows, Uncounted
  <2> QED BY <1>2, <2>1, <2>2 DEF Succeeded
<1>3. CASE Reversed(p)
  BY <1>1, <1>3 DEF Reversed, Rows, Uncounted
<1>4. CASE Unsure(p)
  BY <1>1, <1>4 DEF Unsure, Rows, Uncounted
<1>5. CASE Refused(p)
  <2>1. CASE transfer' = [transfer EXCEPT ![p] = [@ EXCEPT !.status = "RELEASED", !.due = FALSE]]
    BY <1>1, <2>1 DEF Rows, Uncounted
  <2>2. CASE \E due, review : transfer' = [transfer EXCEPT ![p] = [@ EXCEPT !.status = "FAILED",
                                                                          !.due = due, !.review = review]]
    BY <1>1, <2>2 DEF Rows, Uncounted
  <2> QED BY <1>5, <2>1, <2>2 DEF Refused
<1> QED BY <1>2, <1>3, <1>4, <1>5 DEF Outcome

LEMMA CountsStep ==
  ASSUME Inv, Retried, [Next]_vars
  PROVE  Retried'
<1>1. Typed /\ transfer \in [Payouts -> Rows]
  BY DEF Inv, Typed
<1>2. CASE Uncounted
  BY <1>2 DEF Uncounted, Retried
<1>3. CASE transfer' = transfer
  BY <1>3 DEF Retried
<1>4. ASSUME NEW w \in Workers, NEW S, NEW kind, NEW what, ClaimItems(w, S, kind, what) PROVE Retried'
  <2>1. PICK p \in Payouts : transfer' = [transfer EXCEPT ![p] =
                               [NoTransfer EXCEPT !.status = "PENDING", !.kind = kind]]
    BY <1>4 DEF ClaimItems
  <2>2. transfer'[p].retries = 0 /\ transfer'[p].attempts = 0
    BY <1>1, <2>1 DEF NoTransfer
  <2>3. \A q \in Payouts \ {p} : transfer'[q] = transfer[q]
    BY <1>1, <2>1
  <2> QED BY <2>2, <2>3 DEF Retried
<1>5. ASSUME NEW w \in Workers, Step(w) PROVE Retried'
  <2> DEFINE p == task[w].payout
  <2>1. task[w] # NoTask
    BY <1>5 DEF Step, ClaimAttempt, HoldForReview, CallBank, ApplyOutcome, Unflag, At
  <2>2. p \in Payouts /\ transfer[p] \in Rows
    BY <2>1, WorkersRow
  <2>3. CASE ClaimAttempt(w) /\ transfer' # transfer
    <3>1. transfer' = [transfer EXCEPT ![p] =
               [@ EXCEPT !.status = "PROCESSING", !.review = FALSE, !.due = FALSE,
                         !.attempts = transfer[p].attempts + 1,
                         !.retries = transfer[p].retries +
                                       (IF transfer[p].status = "FAILED" THEN 1 ELSE 0)]]
      BY <2>3 DEF ClaimAttempt
    <3>2. /\ transfer'[p].attempts = transfer[p].attempts + 1
          /\ transfer'[p].retries = transfer[p].retries + (IF transfer[p].status = "FAILED" THEN 1 ELSE 0)
      BY <1>1, <2>2, <3>1 DEF Rows
    <3>3. transfer'[p].retries <= transfer'[p].attempts
      BY <2>2, <3>2, BoundsAssumption DEF Rows, Retried
    <3>4. \A q \in Payouts \ {p} : transfer'[q] = transfer[q]
      BY <1>1, <3>1
    <3> QED BY <3>3, <3>4 DEF Retried
  <2>4. CASE HoldForReview(w)
    BY <1>1, <1>2, <2>2, <2>4 DEF HoldForReview, Rows, Uncounted
  <2>5. CASE CallBank(w)
    BY <1>3, <2>5 DEF CallBank
  <2>6. CASE ApplyOutcome(w)
    BY <1>1, <1>2, <1>3, <2>2, <2>6, OutcomeCounts DEF ApplyOutcome
  <2>7. CASE Unflag(w)
    BY <1>1, <1>2, <2>2, <2>7 DEF Unflag, Rows, Uncounted
  <2> QED BY <1>3, <1>5, <2>3, <2>4, <2>5, <2>6, <2>7 DEF Step
<1>6. ASSUME NEW p \in Payouts, ReviewRelease(p) PROVE Retried'
  BY <1>1, <1>2, <1>6 DEF ReviewRelease, Move, Rows, Uncounted
<1>7. ASSUME NEW w \in Workers, MonthlyRun(w) PROVE Retried'
  BY <1>3, <1>4, <1>7 DEF MonthlyRun
<1>8. CASE Next
  BY <1>3, <1>4, <1>5, <1>6, <1>7, <1>8 DEF Next, Earn, MonthEnds, Withdraw, PickDue, ReviewRetry,
     Webhook, Crash, BankMoves
<1> QED BY <1>3, <1>8 DEF vars

LEMMA AsideKeeps ==
  ASSUME Money, Aside, [Next]_vars
  PROVE  Aside'
<1>1. items \subseteq Items
  BY DEF Money, MoneyTypes
<1>2. CASE UNCHANGED <<month, old, seen>>
  BY <1>2 DEF Aside
<1>3. CASE MonthEnds
  BY <1>1, <1>3 DEF MonthEnds, Aside
<1>4. ASSUME NEW w \in Workers, MonthlyRun(w) PROVE Aside'
  BY <1>4 DEF MonthlyRun, ClaimItems, Aside
<1>5. ASSUME NEW w \in Workers, NEW what \in Asks, Withdraw(w, what) PROVE UNCHANGED <<month, old, seen>>
  BY <1>5 DEF Withdraw, ClaimItems
<1>6. ASSUME NEW w \in Workers, Step(w) PROVE UNCHANGED <<month, old, seen>>
  BY <1>6 DEF Step, ClaimAttempt, HoldForReview, CallBank, ApplyOutcome, Unflag
<1>7. ASSUME NEW w \in Workers, NEW p \in Payouts, NEW n \in Attempts, NEW answer \in Answers,
             Webhook(w, p, n, answer)
      PROVE  Aside'
  BY <1>7 DEF Webhook, Aside
<1>8. CASE Next
  BY <1>2, <1>3, <1>4, <1>5, <1>6, <1>7, <1>8 DEF Next, Earn, PickDue, ReviewRetry, Crash,
     ReviewRelease, BankMoves
<1> QED BY <1>2, <1>8 DEF vars

LEMMA InitAside == Init => Retried /\ Aside
BY DEF Init, Retried, Aside, NoTransfer

\* Every variable has its type; in particular a payout is never retried more
\* often than it was sent (the attempts and retries of sendTransfer).
THEOREM TypeCorrect == Spec => []TypeOK
<1>1. (Inv /\ Money) /\ (Retried /\ Aside) /\ [Next]_vars => (Retried /\ Aside)'
  BY CountsStep, AsideKeeps
<1>2. (Inv /\ Money) /\ (Retried /\ Aside) => TypeOK
  <2> SUFFICES ASSUME Inv, Money, Retried, Aside PROVE TypeOK
    OBVIOUS
  <2>1. \A p \in Payouts : transfer[p] \in
          [status : Statuses, kind : {"WITHDRAWAL", "MONTHLY"}, attempts : 0..MaxAttempts,
           retries : 0..MaxAttempts, review : BOOLEAN, due : BOOLEAN]
    BY BoundsAssumption DEF Inv, Typed, Rows, Retried
  <2> QED BY <2>1 DEF TypeOK, Inv, Typed, Works, BankStates, Money, MoneyTypes, Aside
<1> QED BY <1>1, <1>2, InitAside, MoneyHolds, PTL DEF Spec
=============================================================================
