-------------------------- MODULE DailyOrdersProofs --------------------------
(***************************************************************************)
(* Theorems about DailyOrders for any number of days, requests and bounds: *)
(* the rows keep to their order, a cancelled subscription is final and its *)
(* charges end, and the daily orders implement DayLedger.                  *)
(***************************************************************************)
EXTENDS DailyOrders, FiniteSetTheorems, TLAPS

LEMMA IdleType == Idle \in Tasks
BY DailyAssumption DEF Idle, Tasks, Steps, Keep, Days

LEMMA SyncingType ==
  ASSUME TypeOK
  PROVE  Syncing \in Tasks
BY IdleType DEF Syncing, Idle, Tasks, Steps, TypeOK

\* A request's next step is a task again, and the others keep theirs.
LEMMA TaskType ==
  ASSUME TypeOK, NEW w \in Workers, NEW t \in Tasks, Becomes(w, t)
  PROVE  task' \in [Workers -> Tasks]
BY DEF TypeOK, Becomes

LEMMA MovesType ==
  ASSUME TypeOK, NEW w \in Workers, NEW at \in Steps, MovesTo(w, at)
  PROVE  task' \in [Workers -> Tasks]
<1>1. task[w] \in Tasks
  BY DEF TypeOK
<1>2. [task[w] EXCEPT !.at = at] \in Tasks
  BY <1>1 DEF Tasks
<1> QED BY <1>2 DEF TypeOK, MovesTo

LEMMA EndedType ==
  ASSUME NEW t \in Tasks
  PROVE  Ended(t) \in Tasks
BY IdleType DEF Ended, Tasks, Steps

LEMMA InitType == Init => TypeOK
<1> SUFFICES ASSUME Init PROVE TypeOK
  OBVIOUS
<1>1. claim \in [Days -> [status : Claims, no : Nat]] /\ row \in [Days -> Rows]
  BY DEF Init, Claims, Rows, ScheduleOnly
<1>2. task \in [Workers -> Tasks]
  BY IdleType DEF Init
<1>3. today \in Days
  BY DailyAssumption DEF Init, Days
<1> QED BY <1>1, <1>2, <1>3, DailyAssumption DEF Init, TypeOK, Delivering

\* A claim and its row change together (ClaimedAs).
LEMMA ClaimedType ==
  ASSUME TypeOK, NEW d \in Days, NEW s \in Claims, ClaimedAs(d, s)
  PROVE  /\ claim' \in [Days -> [status : Claims, no : Nat]]
         /\ row' \in [Days -> Rows]
BY DEF TypeOK, ClaimedAs, Rows

LEMMA StepType == TypeOK /\ [Next]_vars => TypeOK'
<1> SUFFICES ASSUME TypeOK, [Next]_vars PROVE TypeOK'
  OBVIOUS
<1> USE DEF TypeOK, money, schedule
<1>1. ASSUME NEW w \in Workers, StartRun(w) PROVE TypeOK'
  <2>1. [Idle EXCEPT !.at = "check", !.day = today, !.job = TRUE,
                     !.live = today \notin paused] \in Tasks
    BY IdleType DEF Idle, Tasks, Steps
  <2> QED BY <1>1, <2>1, TaskType DEF StartRun
<1>2. ASSUME NEW w \in Workers, NEW d \in Days, Retry(w, d) PROVE TypeOK'
  <2>1. claim[d].no \in Nat
    OBVIOUS
  <2>2. [Idle EXCEPT !.at = "delete", !.day = d, !.no = claim[d].no] \in Tasks
    BY <2>1, IdleType DEF Idle, Tasks, Steps
  <2> QED BY <1>2, <2>2, TaskType, DailyAssumption DEF Retry, Deed
<1>3. ASSUME NEW w \in Workers, DeleteFailed(w) PROVE TypeOK'
  <2>1. task[w].day \in Days
    BY DEF Tasks
  <2>2. claim' \in [Days -> [status : Claims, no : Nat]]
    BY <1>3, <2>1 DEF DeleteFailed, Claims
  <2>3. [task[w] EXCEPT !.at = "check",
           !.live = Delivers /\ task[w].day \notin paused] \in Tasks
    BY DEF Tasks, Steps
  <2> QED BY <1>3, <2>2, <2>3, TaskType DEF DeleteFailed
<1>4. ASSUME NEW w \in Workers, Check(w) PROVE TypeOK'
  <2>1. task[w] \in Tasks /\ [task[w] EXCEPT !.out = TRUE] \in Tasks
    BY DEF Tasks
  <2>2. Ended(task[w]) \in Tasks /\ Ended([task[w] EXCEPT !.out = TRUE]) \in Tasks
    BY <2>1, EndedType
  <2>3. task' \in [Workers -> Tasks]
    BY <1>4, <2>2, TaskType, MovesType DEF Check, Steps
  <2> QED BY <1>4, <2>3 DEF Check
<1>5. ASSUME NEW w \in Workers, Pay(w) PROVE TypeOK'
  <2>1. task[w].day \in Days
    BY DEF Tasks
  <2>2. task' \in [Workers -> Tasks]
    BY <1>5, MovesType DEF Pay, Steps
  <2>3. balance' \in Nat /\ stock' \in Nat
    BY <1>5 DEF Pay, Covers
  <2>4. "CONFIRMED" \in Claims
    BY DEF Claims
  <2> QED BY <1>5, <2>1, <2>2, <2>3, <2>4, ClaimedType DEF Pay
<1>6. ASSUME NEW w \in Workers, TooPoor(w) PROVE TypeOK'
  BY <1>6, MovesType DEF TooPoor, Steps
<1>7. ASSUME NEW w \in Workers, Clash(w) PROVE TypeOK'
  BY <1>7, TaskType, IdleType DEF Clash
<1>8. ASSUME NEW w \in Workers, Fail(w) PROVE TypeOK'
  <2>1. task[w] \in Tasks /\ task[w].day \in Days
    BY DEF Tasks
  <2>2. task' \in [Workers -> Tasks]
    BY <1>8, <2>1, TaskType, EndedType, IdleType DEF Fail
  <2>3. claim' \in [Days -> [status : Claims, no : Nat]] /\ row' \in [Days -> Rows]
    <3>1. "WALLET_INSUFFICIENT" \in Claims
      BY DEF Claims
    <3> QED BY <1>8, <2>1, <3>1, ClaimedType DEF Fail
  <2>4. status' \in Delivering \union {"CANCELLED"}
    BY <1>8 DEF Fail, Delivering
  <2> QED BY <1>8, <2>2, <2>3, <2>4 DEF Fail
<1>9. ASSUME NEW w \in Workers, Activate(w) PROVE TypeOK'
  <2>1. task' \in [Workers -> Tasks]
    BY <1>9, TaskType, EndedType DEF Activate
  <2> QED BY <1>9, <2>1 DEF Activate, Delivering
<1>10. ASSUME NEW w \in Workers, SyncRead(w) PROVE TypeOK'
  <2> DEFINE open == {d \in Days : d >= task[w].day /\ row[d] \in ScheduleOnly \union {"NONE"}}
             Desired(d) == IF d \in skips \union paused THEN "SKIPPED" ELSE "SCHEDULED"
             put == [d \in Days |-> IF Delivers /\ d \in open /\ row[d] # Desired(d)
                                    THEN Desired(d) ELSE "KEEP"]
             drop == IF Delivers THEN {} ELSE {d \in open : row[d] # "NONE"}
  <2>1. put \in [Days -> ScheduleOnly \union {"KEEP"}] /\ drop \in SUBSET Days
    BY DEF ScheduleOnly
  <2> HIDE DEF put, drop
  <2>2. [task[w] EXCEPT !.at = "write", !.put = put, !.drop = drop] \in Tasks
    <3>1. task[w] \in Tasks
      OBVIOUS
    <3> QED BY <2>1, <3>1 DEF Tasks, Steps
  <2>3. Becomes(w, [task[w] EXCEPT !.at = "write", !.put = put, !.drop = drop])
    BY <1>10 DEF SyncRead, put, drop
  <2> QED BY <1>10, <2>2, <2>3, TaskType DEF SyncRead
<1>11. ASSUME NEW w \in Workers, SyncWrite(w) PROVE TypeOK'
  <2>1. row' \in [Days -> Rows]
    BY <1>11 DEF SyncWrite, Synced, Tasks, Rows, Claims
  <2>2. ASSUME NEW v \in Workers PROVE [task[v] EXCEPT !.drop = @ \ task[w].drop] \in Tasks
    BY DEF Tasks
  <2>3. task' \in [Workers -> Tasks]
    BY <1>11, <2>2, IdleType DEF SyncWrite
  <2> QED BY <1>11, <2>1, <2>3 DEF SyncWrite
<1>12. ASSUME NEW w \in Workers, NEW d \in Days, AskSkip(w, d) PROVE TypeOK'
  <2>1. /\ [Idle EXCEPT !.at = "skip", !.day = d] \in Tasks
        /\ [Idle EXCEPT !.at = "unskip", !.day = d] \in Tasks
    BY IdleType DEF Idle, Tasks, Steps
  <2> QED BY <1>12, <2>1, TaskType, DailyAssumption DEF AskSkip, Deed
<1>13. ASSUME NEW w \in Workers, Skip(w) PROVE TypeOK'
  <2>1. skips' \subseteq Days
    BY <1>13 DEF Skip, Tasks
  <2> QED BY <1>13, <2>1, TaskType, SyncingType DEF Skip
<1>14. ASSUME NEW w \in Workers, NEW from \in Days, NEW until \in Days, Pause(w, from, until)
       PROVE TypeOK'
  <2>1. from..until \subseteq Days
    BY DailyAssumption DEF Days
  <2> QED BY <1>14, <2>1, TaskType, SyncingType, DailyAssumption DEF Pause, Deed
<1>15. ASSUME NEW w \in Workers, Resume(w) PROVE TypeOK'
  BY <1>15, TaskType, SyncingType, DailyAssumption DEF Resume, Deed, Delivering
<1>16. ASSUME NEW w \in Workers, Renew(w) PROVE TypeOK'
  BY <1>16, TaskType, SyncingType, DailyAssumption DEF Renew, Deed, Delivering
<1>17. ASSUME NEW w \in Workers, Cancel(w) PROVE TypeOK'
  BY <1>17, TaskType, SyncingType DEF Cancel
<1>18. ASSUME NEW w \in Workers, Crash(w) PROVE TypeOK'
  BY <1>18, TaskType, IdleType, DailyAssumption DEF Crash, Deed
<1>19. ASSUME NEW d \in Days, CancelOrder(d) PROVE TypeOK'
  <2>1. claim' \in [Days -> [status : Claims, no : Nat]] /\ row' \in [Days -> Rows]
    BY <1>19 DEF CancelOrder, Claims, Rows
  <2> QED BY <1>19, <2>1, DailyAssumption DEF CancelOrder, Deed
<1>20. CASE JudgeRenewal
  BY <1>20 DEF JudgeRenewal, Delivering
<1>21. CASE TopUp
  BY <1>21 DEF TopUp
<1>22. CASE Restock
  BY <1>22, DailyAssumption DEF Restock, Deed
<1>23. CASE NextDay
  <2>1. today' \in Days
    BY <1>23, DailyAssumption DEF NextDay, Days
  <2> QED BY <1>23, <2>1 DEF NextDay
<1>24. CASE UNCHANGED vars
  BY <1>24 DEF vars
<1> QED
  BY <1>1, <1>2, <1>3, <1>4, <1>5, <1>6, <1>7, <1>8, <1>9, <1>10, <1>11, <1>12, <1>13, <1>14,
     <1>15, <1>16, <1>17, <1>18, <1>19, <1>20, <1>21, <1>22,
     <1>23, <1>24 DEF Next, Step

\* Every variable keeps its type, whatever the bounds.
THEOREM TypeCorrect == Spec => []TypeOK
BY InitType, StepType, PTL DEF Spec

-----------------------------------------------------------------------------

\* Nothing follows CANCELLED, for any number of requests (TC-SUB-008).
THEOREM CancelledIsFinal == Spec => FinalIsFinal
<1>1. ASSUME [Next]_vars PROVE FinalAction
  <2> USE <1>1 DEF FinalAction, money, schedule
  <2>1. ASSUME NEW w \in Workers, Step(w) PROVE FinalAction
    BY <2>1 DEF Step, DeleteFailed, Check, Pay, TooPoor, Clash, Fail, MayBecome, Activate,
                SyncRead, SyncWrite, Skip
  <2>2. ASSUME NEW w \in Workers, StartRun(w) \/ Resume(w) \/ Renew(w) \/ Cancel(w) \/ Crash(w)
        PROVE FinalAction
    BY <2>2 DEF StartRun, Resume, Renew, MayBecome, Cancel, Crash
  <2>3. ASSUME NEW w \in Workers, NEW d \in Days, Retry(w, d) \/ AskSkip(w, d) PROVE FinalAction
    BY <2>3 DEF Retry, AskSkip
  <2>4. ASSUME NEW w \in Workers, NEW from \in Days, NEW until \in Days, Pause(w, from, until)
        PROVE FinalAction
    BY <2>4 DEF Pause
  <2>5. ASSUME NEW d \in Days, CancelOrder(d) PROVE FinalAction
    BY <2>5 DEF CancelOrder
  <2>6. CASE JudgeRenewal \/ TopUp \/ Restock \/ NextDay
    BY <2>6 DEF JudgeRenewal, TopUp, Restock, NextDay
  <2>7. CASE UNCHANGED vars
    BY <2>7 DEF vars
  <2> QED BY <2>1, <2>2, <2>3, <2>4, <2>5, <2>6, <2>7 DEF Next
<1> QED BY <1>1, PTL DEF Spec, FinalIsFinal

\* A claim's row takes the claim's status, never one of the schedule.
LEMMA ClaimedNotPulledBack ==
  ASSUME TypeOK, NEW d \in Days, NEW s \in Claims, ClaimedAs(d, s)
  PROVE  NotPulledBackAction
BY DEF TypeOK, ClaimedAs, NotPulledBackAction, Claims, ScheduleOnly

\* A row that follows its order stays off the schedule, for any overlap of
\* syncs, runs and requests.
THEOREM RowKeepsToOrder == Spec => RowNotPulledBack
<1>1. ASSUME TypeOK, [Next]_vars PROVE NotPulledBackAction
  <2> USE <1>1 DEF NotPulledBackAction, money, schedule
  <2>1. ASSUME NEW w \in Workers, Pay(w) PROVE NotPulledBackAction
    BY <2>1, ClaimedNotPulledBack DEF Pay, TypeOK, Tasks, Claims
  <2>2. ASSUME NEW w \in Workers, Fail(w) PROVE NotPulledBackAction
    BY <2>2, ClaimedNotPulledBack DEF Fail, TypeOK, Tasks, Claims
  <2>3. ASSUME NEW w \in Workers, SyncWrite(w) PROVE NotPulledBackAction
    BY <2>3 DEF SyncWrite, Synced, MayPut, ScheduleOnly
  <2>4. ASSUME NEW w \in Workers,
               \/ DeleteFailed(w) \/ Check(w) \/ TooPoor(w) \/ Clash(w) \/ Activate(w)
               \/ SyncRead(w) \/ Skip(w) \/ StartRun(w) \/ Resume(w) \/ Renew(w)
               \/ Cancel(w) \/ Crash(w)
        PROVE NotPulledBackAction
    BY <2>4 DEF DeleteFailed, Check, TooPoor, Clash, Activate, SyncRead, Skip, StartRun,
                Resume, Renew, Cancel, Crash
  <2>5. ASSUME NEW w \in Workers, NEW d \in Days, Retry(w, d) \/ AskSkip(w, d)
        PROVE NotPulledBackAction
    BY <2>5 DEF Retry, AskSkip
  <2>6. ASSUME NEW w \in Workers, NEW from \in Days, NEW until \in Days, Pause(w, from, until)
        PROVE NotPulledBackAction
    BY <2>6 DEF Pause
  <2>7. ASSUME NEW d \in Days, CancelOrder(d) PROVE NotPulledBackAction
    BY <2>7 DEF CancelOrder, TypeOK, ScheduleOnly
  <2>8. CASE JudgeRenewal \/ TopUp \/ Restock \/ NextDay
    BY <2>8 DEF JudgeRenewal, TopUp, Restock, NextDay
  <2>9. CASE UNCHANGED vars
    BY <2>9 DEF vars
  <2> QED BY <2>1, <2>2, <2>3, <2>4, <2>5, <2>6, <2>7, <2>8, <2>9 DEF Next, Step
<1> QED BY <1>1, TypeCorrect, PTL DEF Spec, RowNotPulledBack

-----------------------------------------------------------------------------
(* The refinement.  A retry deletes the claim it read, by id.  That is safe *)
(* because a claim that has been replaced has another number, and the one   *)
(* it read can only have been cancelled since: RetryInv.                    *)

RetrySafe(w) ==
  task[w].at = "delete" =>
    LET c == claim[task[w].day] IN
    /\ task[w].no <= c.no
    /\ task[w].no = c.no => c.status \notin {"CONFIRMED", "REFUNDED"}
RetryInv == \A w \in Workers : RetrySafe(w)

\* Claims only count up, and one claimed anew has another number.
LEMMA ClaimedSafe ==
  ASSUME TypeOK, RetryInv, NEW d \in Days, NEW s \in Claims, ClaimedAs(d, s),
         \A w \in Workers : task'[w].at = "delete" => task'[w] = task[w]
  PROVE  RetryInv'
BY DEF TypeOK, Tasks, RetryInv, RetrySafe, ClaimedAs

\* Steps that leave the claims alone and start no deletion.
LEMMA SameClaimsSafe ==
  ASSUME TypeOK, RetryInv, claim' = claim,
         \A w \in Workers : task'[w].at = "delete" => /\ task[w].at = "delete"
                                                      /\ task'[w].day = task[w].day
                                                      /\ task'[w].no = task[w].no
  PROVE  RetryInv'
BY DEF RetryInv, RetrySafe

LEMMA BecomesSafe ==
  ASSUME TypeOK, RetryInv, claim' = claim, NEW w \in Workers, NEW t \in Tasks,
         Becomes(w, t), t.at # "delete"
  PROVE  RetryInv'
BY SameClaimsSafe DEF Becomes, TypeOK

LEMMA EndedAt ==
  ASSUME NEW t \in Tasks, t.at # "delete"
  PROVE  Ended(t) \in Tasks /\ Ended(t).at # "delete"
BY EndedType DEF Ended, Tasks, Idle

LEMMA RetryInvariant == TypeOK /\ RetryInv /\ [Next]_vars => RetryInv'
<1> SUFFICES ASSUME TypeOK, RetryInv, [Next]_vars PROVE RetryInv'
  OBVIOUS
<1> USE DEF money, schedule
<1>0. \A w \in Workers : task[w] \in Tasks /\ task[w].day \in Days
  BY DEF TypeOK, Tasks
<1>1. ASSUME NEW w \in Workers, StartRun(w) PROVE RetryInv'
  <2>1. [Idle EXCEPT !.at = "check", !.day = today, !.job = TRUE,
                     !.live = today \notin paused] \in Tasks
    BY IdleType DEF Idle, Tasks, Steps, TypeOK
  <2> QED BY <1>1, <2>1, BecomesSafe DEF StartRun, Idle
<1>2. ASSUME NEW w \in Workers, NEW d \in Days, Retry(w, d) PROVE RetryInv'
  <2>1. task'[w].day = d /\ task'[w].no = claim[d].no
    BY <1>2 DEF Retry, Becomes, TypeOK, Idle
  <2>2. \A v \in Workers \ {w} : task'[v] = task[v]
    BY <1>2 DEF Retry, Becomes, TypeOK
  <2>3. claim' = claim /\ claim[d].no \in Nat /\ claim[d].status = "WALLET_INSUFFICIENT"
    BY <1>2 DEF Retry, TypeOK
  <2> QED BY <2>1, <2>2, <2>3 DEF RetryInv, RetrySafe
<1>3. ASSUME NEW w \in Workers, DeleteFailed(w) PROVE RetryInv'
  <2>1. \A v \in Workers : task'[v].at = "delete" => v # w /\ task'[v] = task[v]
    BY <1>0, <1>3 DEF DeleteFailed, Becomes, TypeOK, Tasks
  <2>2. \A d \in Days : /\ claim'[d].no = claim[d].no
                       /\ claim'[d].status \in {claim[d].status, "NONE"}
    BY <1>3, <1>0 DEF DeleteFailed, TypeOK
  <2> QED BY <1>0, <2>1, <2>2 DEF RetryInv, RetrySafe
<1>4. ASSUME NEW w \in Workers, Check(w) PROVE RetryInv'
  <2>1. /\ [task[w] EXCEPT !.out = TRUE] \in Tasks
        /\ [task[w] EXCEPT !.out = TRUE].at # "delete" /\ task[w].at # "delete"
    BY <1>0, <1>4 DEF Check, Tasks
  <2>2. CASE MovesTo(w, "commit")
    BY <1>0, <1>4, <2>2, SameClaimsSafe DEF Check, MovesTo, TypeOK, Tasks
  <2>3. CASE Becomes(w, Ended([task[w] EXCEPT !.out = TRUE])) \/ Becomes(w, Ended(task[w]))
    BY <1>0, <1>4, <2>1, <2>3, EndedAt, BecomesSafe DEF Check
  <2> QED BY <1>4, <2>2, <2>3 DEF Check
<1>5. ASSUME NEW w \in Workers, Pay(w) PROVE RetryInv'
  <2>1. \A v \in Workers : task'[v].at = "delete" => task'[v] = task[v]
    BY <1>0, <1>5 DEF Pay, MovesTo, TypeOK, Tasks
  <2> QED BY <1>0, <1>5, <2>1, ClaimedSafe DEF Pay, Claims
<1>6. ASSUME NEW w \in Workers, TooPoor(w) PROVE RetryInv'
  BY <1>0, <1>6, SameClaimsSafe DEF TooPoor, MovesTo, TypeOK, Tasks
<1>7. ASSUME NEW w \in Workers, Clash(w) PROVE RetryInv'
  BY <1>7, IdleType, BecomesSafe DEF Clash, Idle
<1>8. ASSUME NEW w \in Workers, Fail(w) PROVE RetryInv'
  <2>1. \A v \in Workers : task'[v].at = "delete" => task'[v] = task[v]
    BY <1>0, <1>8 DEF Fail, Becomes, Ended, Idle, TypeOK, Tasks
  <2>2. CASE ClaimedAs(task[w].day, "WALLET_INSUFFICIENT")
    BY <1>0, <2>1, <2>2, ClaimedSafe DEF Claims
  <2>3. CASE claim' = claim
    BY <2>1, <2>3, SameClaimsSafe
  <2> QED BY <1>8, <2>2, <2>3 DEF Fail
<1>9. ASSUME NEW w \in Workers, Activate(w) PROVE RetryInv'
  BY <1>0, <1>9, EndedAt, BecomesSafe DEF Activate
<1>10. ASSUME NEW w \in Workers, SyncRead(w) PROVE RetryInv'
  <2>1. \A v \in Workers : task'[v].at = "delete" => task'[v] = task[v]
    BY <1>0, <1>10 DEF SyncRead, Becomes, TypeOK, Tasks
  <2> QED BY <1>10, <2>1, SameClaimsSafe DEF SyncRead
<1>11. ASSUME NEW w \in Workers, SyncWrite(w) PROVE RetryInv'
  <2>1. \A v \in Workers : task'[v].at = "delete" =>
           task'[v].at = task[v].at /\ task'[v].day = task[v].day /\ task'[v].no = task[v].no
    BY <1>0, <1>11 DEF SyncWrite, Idle, Tasks
  <2> QED BY <1>11, <2>1, SameClaimsSafe DEF SyncWrite
<1>12. ASSUME NEW w \in Workers, NEW d \in Days, AskSkip(w, d) PROVE RetryInv'
  <2>1. /\ [Idle EXCEPT !.at = "skip", !.day = d] \in Tasks
        /\ [Idle EXCEPT !.at = "unskip", !.day = d] \in Tasks
    BY IdleType DEF Idle, Tasks, Steps
  <2> QED BY <1>12, <2>1, BecomesSafe DEF AskSkip, Idle
<1>13. ASSUME NEW w \in Workers, Becomes(w, Syncing), claim' = claim PROVE RetryInv'
  <2>1. Syncing.at = "sync"
    BY DEF Syncing, Idle
  <2> QED BY <1>13, <2>1, SyncingType, BecomesSafe
<1>14. ASSUME NEW w \in Workers,
              \/ Skip(w) \/ Resume(w) \/ Renew(w) \/ Cancel(w)
              \/ \E from, until \in Days : Pause(w, from, until)
       PROVE RetryInv'
  BY <1>13, <1>14 DEF Skip, Resume, Renew, Cancel, Pause
<1>15. ASSUME NEW w \in Workers, Crash(w) PROVE RetryInv'
  BY <1>15, IdleType, BecomesSafe DEF Crash, Idle
<1>16. ASSUME NEW d \in Days, CancelOrder(d) PROVE RetryInv'
  <2>1. \A e \in Days : claim'[e].no = claim[e].no
    BY <1>16 DEF CancelOrder, TypeOK
  <2>2. \A e \in Days : claim'[e].status \in {"CONFIRMED", "REFUNDED"} =>
                          claim[e].status \in {"CONFIRMED", "REFUNDED"}
    BY <1>16 DEF CancelOrder, TypeOK
  <2>3. task' = task
    BY <1>16 DEF CancelOrder
  <2> QED BY <1>0, <2>1, <2>2, <2>3 DEF RetryInv, RetrySafe
<1>17. CASE JudgeRenewal \/ TopUp \/ Restock \/ NextDay \/ UNCHANGED vars
  BY <1>17, SameClaimsSafe DEF JudgeRenewal, TopUp, Restock, NextDay, vars
<1> QED
  BY <1>1, <1>2, <1>3, <1>4, <1>5, <1>6, <1>7, <1>8, <1>9, <1>10, <1>11, <1>12, <1>14,
     <1>15, <1>16, <1>17 DEF Next, Step

\* A step that changes neither money nor claims stutters in the ledger.
LEMMA LedgerStutters ==
  ASSUME UNCHANGED money
  PROVE  UNCHANGED <<balance, stock - extra, [d \in Days |-> LedgerDay(claim[d].status)]>>
BY DEF money

\* What the ledger sees: the wallet, the shelf and each day.
DayNow == [d \in Days |-> LedgerDay(claim[d].status)]
LedgerNow == <<balance, stock - extra, DayNow>>

LEMMA LedgerStep ==
  ASSUME TypeOK, RetryInv, [Next]_vars
  PROVE  [Ledger!Next]_LedgerNow
<1> USE DEF DayNow, LedgerNow
<1>1. ASSUME NEW w \in Workers, Pay(w) PROVE Ledger!Next
  <2> DEFINE d == task[w].day
  <2>1. d \in Days
    BY DEF TypeOK, Tasks
  <2>2. /\ LedgerDay(claim[d].status) = "OPEN"
        /\ LedgerDay(claim'[d].status) = "PAID"
        /\ \A e \in Days \ {d} : claim'[e] = claim[e]
    BY <1>1, <2>1 DEF Pay, Free, ClaimedAs, LedgerDay, TypeOK
  <2>3. [e \in Days |-> LedgerDay(claim'[e].status)] =
          [[e \in Days |-> LedgerDay(claim[e].status)] EXCEPT ![d] = "PAID"]
    BY <2>1, <2>2
  <2>4. balance > 0 /\ balance' = balance - 1 /\ stock' - extra' = (stock - extra) - 1
    BY <1>1 DEF Pay, Covers, TypeOK
  <2>5. Ledger!Pay(d)
    BY <2>1, <2>2, <2>3, <2>4 DEF Ledger!Pay
  <2> QED BY <2>1, <2>5 DEF Ledger!Next
<1>2. ASSUME NEW w \in Workers, DeleteFailed(w) PROVE UNCHANGED LedgerNow
  <2>1. \A e \in Days : LedgerDay(claim'[e].status) = LedgerDay(claim[e].status)
    BY <1>2 DEF DeleteFailed, Deletes, RetryInv, RetrySafe, LedgerDay, TypeOK, Tasks
  <2> QED BY <1>2, <2>1 DEF DeleteFailed
<1>3. ASSUME NEW w \in Workers, Fail(w) PROVE UNCHANGED LedgerNow
  <2>1. \A e \in Days : LedgerDay(claim'[e].status) = LedgerDay(claim[e].status)
    BY <1>3 DEF Fail, Free, ClaimedAs, LedgerDay, TypeOK, Tasks
  <2> QED BY <1>3, <2>1 DEF Fail
<1>4. ASSUME NEW d \in Days, CancelOrder(d) PROVE [Ledger!Next]_LedgerNow
  <2>1. CASE claim[d].status = "CONFIRMED"
    <3>1. /\ LedgerDay(claim[d].status) = "PAID"
          /\ LedgerDay(claim'[d].status) = "BACK"
          /\ \A e \in Days \ {d} : claim'[e] = claim[e]
      BY <1>4, <2>1 DEF CancelOrder, LedgerDay, TypeOK
    <3>2. [e \in Days |-> LedgerDay(claim'[e].status)] =
            [[e \in Days |-> LedgerDay(claim[e].status)] EXCEPT ![d] = "BACK"]
      <4>1. \A e \in Days \ {d} : LedgerDay(claim'[e].status) = LedgerDay(claim[e].status)
        BY <3>1
      <4> QED BY <4>1, <3>1
    <3>3. balance' = balance + 1 /\ stock' - extra' = (stock - extra) + 1
      BY <1>4, <2>1 DEF CancelOrder, TypeOK
    <3>4. Ledger!GiveBack(d)
      BY <3>1, <3>2, <3>3 DEF Ledger!GiveBack
    <3> QED BY <3>4 DEF Ledger!Next
  <2>2. CASE claim[d].status = "WALLET_INSUFFICIENT"
    <3>1. \A e \in Days : LedgerDay(claim'[e].status) = LedgerDay(claim[e].status)
      BY <1>4, <2>2 DEF CancelOrder, LedgerDay, TypeOK
    <3>2. balance' = balance /\ stock' - extra' = stock - extra
      BY <1>4, <2>2 DEF CancelOrder, TypeOK
    <3> QED BY <3>1, <3>2
  <2> QED BY <1>4, <2>1, <2>2 DEF CancelOrder
<1>5. CASE TopUp
  BY <1>5 DEF TopUp, Ledger!Next, Ledger!TopUp
<1>6. CASE Restock
  <2>1. stock' - extra' = (stock - extra) + 1
    BY <1>6 DEF Restock, TypeOK
  <2> QED BY <1>6, <2>1 DEF Restock, Ledger!Next, Ledger!Restock
<1>7. ASSUME NEW w \in Workers,
             \/ Check(w) \/ TooPoor(w) \/ Clash(w) \/ Activate(w) \/ SyncRead(w)
             \/ SyncWrite(w) \/ Skip(w) \/ StartRun(w) \/ Resume(w) \/ Renew(w)
             \/ Cancel(w) \/ Crash(w)
      PROVE UNCHANGED LedgerNow
  <2>1. UNCHANGED money
    BY <1>7 DEF Check, TooPoor, Clash, Activate, SyncRead, SyncWrite, Skip, StartRun, Resume,
                Renew, Cancel, Crash
  <2> QED BY <2>1, LedgerStutters
<1>8. ASSUME NEW w \in Workers, NEW d \in Days, Retry(w, d) \/ AskSkip(w, d) PROVE UNCHANGED LedgerNow
  BY <1>8, LedgerStutters DEF Retry, AskSkip
<1>9. ASSUME NEW w \in Workers, NEW from \in Days, NEW until \in Days, Pause(w, from, until)
      PROVE UNCHANGED LedgerNow
  BY <1>9, LedgerStutters DEF Pause
<1>10. CASE JudgeRenewal \/ NextDay \/ UNCHANGED vars
  BY <1>10, LedgerStutters DEF JudgeRenewal, NextDay, vars, money
<1> QED BY <1>1, <1>2, <1>3, <1>4, <1>5, <1>6, <1>7, <1>8, <1>9, <1>10 DEF Next, Step

\* DailyOrders implements DayLedger, for any number of days, runs, retries and
\* customer requests: no day is charged twice and no failed day is charged.
THEOREM ImplementsLedger == Spec => KeepsLedger
<1>1. Init => Ledger!Init
  <2> SUFFICES ASSUME Init PROVE Ledger!Init
    OBVIOUS
  <2>1. DayNow = [d \in Days |-> "OPEN"]
    BY DEF Init, LedgerDay, DayNow
  <2> QED BY <2>1, DailyAssumption DEF Init, Ledger!Init, DayNow
<1>2. Init => RetryInv
  BY DEF Init, RetryInv, RetrySafe, Idle
<1>3. TypeOK /\ RetryInv /\ [Next]_vars => [Ledger!Next]_LedgerNow
  BY LedgerStep
<1> QED
  BY <1>1, <1>2, <1>3, RetryInvariant, TypeCorrect, PTL DEF Spec, KeepsLedger, Ledger!Spec, LedgerNow, DayNow

-----------------------------------------------------------------------------
(* What follows from the ledger.                                           *)

PaidDays == {d \in Days : DayNow[d] = "PAID"}

\* The money and the goods there were at first are there or went into days that
\* are paid (a top-up or a restock only adds to them).
NothingLost ==
  /\ balance + Cardinality(PaidDays) >= Money
  /\ stock - extra + Cardinality(PaidDays) >= Supply

LEMMA NothingLostStep ==
  ASSUME TypeOK, NothingLost, [Ledger!Next]_LedgerNow
  PROVE  NothingLost'
<1>1. IsFiniteSet(PaidDays) /\ Cardinality(PaidDays) \in Nat
  <2>1. IsFiniteSet(Days)
    BY DailyAssumption, FS_Interval DEF Days
  <2> QED BY <2>1, FS_Subset, FS_CardinalityType DEF PaidDays
<1>2. balance \in Int /\ stock - extra \in Int /\ Money \in Int /\ Supply \in Int
  BY DailyAssumption DEF TypeOK
<1>3. ASSUME NEW d \in Days, Ledger!Pay(d) PROVE NothingLost'
  <2>1. PaidDays' = PaidDays \union {d} /\ d \notin PaidDays
    <3>1. DayNow[d] = "OPEN" /\ DayNow' = [DayNow EXCEPT ![d] = "PAID"]
      BY <1>3 DEF Ledger!Pay, DayNow
    <3>2. \A e \in Days : DayNow'[e] = IF e = d THEN "PAID" ELSE DayNow[e]
      BY <3>1 DEF DayNow
    <3> QED BY <3>1, <3>2 DEF PaidDays
  <2>2. Cardinality(PaidDays \union {d}) = Cardinality(PaidDays) + 1
    BY <1>1, <2>1, FS_AddElement
  <2>3. balance' = balance - 1 /\ stock' - extra' = (stock - extra) - 1
    BY <1>3 DEF Ledger!Pay
  <2> QED BY <1>1, <1>2, <2>1, <2>2, <2>3 DEF NothingLost
<1>4. ASSUME NEW d \in Days, Ledger!GiveBack(d) PROVE NothingLost'
  <2>1. PaidDays' = PaidDays \ {d} /\ d \in PaidDays
    <3>1. DayNow[d] = "PAID" /\ DayNow' = [DayNow EXCEPT ![d] = "BACK"]
      BY <1>4 DEF Ledger!GiveBack, DayNow
    <3>2. \A e \in Days : DayNow'[e] = IF e = d THEN "BACK" ELSE DayNow[e]
      BY <3>1 DEF DayNow
    <3> QED BY <3>1, <3>2 DEF PaidDays
  <2>2. Cardinality(PaidDays \ {d}) = Cardinality(PaidDays) - 1
    BY <1>1, <2>1, FS_RemoveElement
  <2>3. balance' = balance + 1 /\ stock' - extra' = (stock - extra) + 1
    BY <1>4 DEF Ledger!GiveBack
  <2> QED BY <1>1, <1>2, <2>1, <2>2, <2>3 DEF NothingLost
<1>5. ASSUME DayNow' = DayNow,
             balance' \in {balance, balance + 1},
             stock' - extra' \in {stock - extra, (stock - extra) + 1}
      PROVE  NothingLost'
  <2>1. PaidDays' = PaidDays
    BY <1>5 DEF PaidDays
  <2> QED BY <1>1, <1>2, <1>5, <2>1 DEF NothingLost
<1>6. CASE Ledger!TopUp \/ Ledger!Restock
  BY <1>5, <1>6 DEF Ledger!TopUp, Ledger!Restock, DayNow
<1>7. CASE UNCHANGED LedgerNow
  BY <1>5, <1>7 DEF LedgerNow
<1> QED BY <1>3, <1>4, <1>6, <1>7 DEF Ledger!Next

\* Wallet money only ever goes into paid days, and goods with it: whatever runs,
\* retries, skips, pauses and cancellations overlap and wherever they stop, what
\* a failed or cancelled day took is back (generateOneDelivery, cancelOrder).
THEOREM NothingIsLost == Spec => []NothingLost
<1>1. Init => NothingLost
  <2> SUFFICES ASSUME Init PROVE NothingLost
    OBVIOUS
  <2>1. PaidDays = {}
    BY DEF Init, PaidDays, DayNow, LedgerDay
  <2>2. Cardinality(PaidDays) = 0
    BY <2>1, FS_EmptySet
  <2> QED BY <2>2, DailyAssumption DEF Init, NothingLost
<1>2. Init => RetryInv
  BY DEF Init, RetryInv, RetrySafe, Idle
<1>3. TypeOK /\ RetryInv /\ NothingLost /\ [Next]_vars => NothingLost'
  BY LedgerStep, NothingLostStep
<1> QED BY <1>1, <1>2, <1>3, RetryInvariant, TypeCorrect, PTL DEF Spec

-----------------------------------------------------------------------------
(* After a cancellation.                                                   *)

\* A delivery that read the subscription as delivering and has not ended.
UnderWay(w) == task[w].at \in {"commit", "fail"} \/ (task[w].at = "check" /\ task[w].live)

\* Once the subscription is cancelled no delivery starts, and each charge uses
\* up one that was under way.
ChargesEndAction ==
  status = "CANCELLED" =>
    /\ \A w \in Workers : UnderWay(w)' => UnderWay(w)
    /\ balance' < balance => \E w \in Workers : UnderWay(w) /\ ~UnderWay(w)'

LEMMA BecomesUnderWay ==
  ASSUME TypeOK, NEW w \in Workers, NEW t,
         Becomes(w, t), ~(t.at \in {"commit", "fail"}), ~(t.at = "check" /\ t.live)
  PROVE  \A v \in Workers : UnderWay(v)' => UnderWay(v)
BY DEF TypeOK, Becomes, UnderWay

\* The part of CancelledStopsCharging that is safety: nothing that starts after
\* the cancellation reaches the wallet, so no more days are charged than there
\* were deliveries under way ("No further deliveries will be scheduled or
\* charged").
THEOREM CancelledChargesEnd == Spec => [][ChargesEndAction]_vars
<1>1. ASSUME TypeOK, [Next]_vars, status = "CANCELLED" PROVE ChargesEndAction
  <2> USE DEF money, schedule
  <2>0. \A w \in Workers : task[w] \in Tasks /\ task[w].day \in Days
    BY <1>1 DEF TypeOK, Tasks
  <2>1. ASSUME NEW w \in Workers, Pay(w) PROVE ChargesEndAction
    <3>1. UnderWay(w) /\ ~UnderWay(w)' /\ \A v \in Workers \ {w} : task'[v] = task[v]
      BY <1>1, <2>1, <2>0 DEF Pay, MovesTo, UnderWay, TypeOK, Tasks
    <3> QED BY <3>1 DEF ChargesEndAction, UnderWay
  <2>2. ASSUME ~(balance' < balance), \A v \in Workers : UnderWay(v)' => UnderWay(v)
        PROVE  ChargesEndAction
    BY <2>2 DEF ChargesEndAction
  <2>3. balance' = balance => ~(balance' < balance)
    BY <1>1 DEF TypeOK
  <2>4. ASSUME NEW w \in Workers, NEW t, Becomes(w, t), balance' = balance,
               ~(t.at \in {"commit", "fail"}), ~(t.at = "check" /\ t.live)
        PROVE  ChargesEndAction
    BY <1>1, <2>2, <2>3, <2>4, BecomesUnderWay
  <2>5. ASSUME NEW w \in Workers, DeleteFailed(w) PROVE ChargesEndAction
    <3> DEFINE t == [task[w] EXCEPT !.at = "check",
                                    !.live = Delivers /\ task[w].day \notin paused]
    <3>1. ~Delivers
      BY <1>1 DEF Delivers, Delivering
    <3>2. t.at = "check" /\ ~t.live
      BY <2>0, <3>1 DEF Tasks
    <3>3. Becomes(w, t) /\ balance' = balance
      BY <2>5 DEF DeleteFailed
    <3> HIDE DEF t
    <3> QED BY <2>4, <3>2, <3>3
  <2>6. ASSUME NEW w \in Workers, NEW t \in Tasks, t.at # "check", t.at # "commit", t.at # "fail",
               Becomes(w, Ended(t)) \/ Becomes(w, t), balance' = balance
        PROVE  ChargesEndAction
    <3>1. /\ ~(Ended(t).at \in {"commit", "fail"}) /\ Ended(t).at # "check"
      BY <2>6 DEF Ended, Idle, Tasks
    <3> QED BY <2>4, <2>6, <3>1
  <2>7. ASSUME NEW w \in Workers, Ended(task[w]).at \notin {"check", "commit", "fail"},
               Becomes(w, Ended(task[w])), balance' = balance
        PROVE  ChargesEndAction
    BY <2>4, <2>7
  <2>8. \A w \in Workers : /\ Ended(task[w]).at \in {"sync", "idle"}
                            /\ Ended([task[w] EXCEPT !.out = TRUE]).at \in {"sync", "idle"}
    BY <2>0 DEF Ended, Idle, Tasks
  <2>9. ASSUME NEW w \in Workers, Check(w) PROVE ChargesEndAction
    <3>1. CASE Becomes(w, Ended(task[w])) \/ Becomes(w, Ended([task[w] EXCEPT !.out = TRUE]))
      BY <2>4, <2>8, <2>9, <3>1 DEF Check
    <3>2. CASE Due(w) /\ MovesTo(w, "commit")
      <4>1. UnderWay(w) /\ \A v \in Workers \ {w} : task'[v] = task[v]
        BY <1>1, <2>9, <3>2 DEF Check, Due, MovesTo, UnderWay, TypeOK
      <4> QED BY <2>2, <2>3, <2>9, <4>1 DEF Check, UnderWay
    <3> QED BY <2>9, <3>1, <3>2 DEF Check
  <2>10. ASSUME NEW w \in Workers, TooPoor(w) PROVE ChargesEndAction
    <3>1. UnderWay(w) /\ \A v \in Workers \ {w} : task'[v] = task[v]
      BY <1>1, <2>10 DEF TooPoor, MovesTo, UnderWay, TypeOK
    <3> QED BY <2>2, <2>3, <2>10, <3>1 DEF TooPoor, UnderWay
  <2>11. ASSUME NEW w \in Workers, Clash(w) \/ Crash(w) PROVE ChargesEndAction
    BY <2>4, <2>11 DEF Clash, Crash, Idle
  <2>12. ASSUME NEW w \in Workers, Fail(w) PROVE ChargesEndAction
    <3>1. Idle.at = "idle"
      BY DEF Idle
    <3> QED BY <2>4, <2>8, <2>12, <3>1 DEF Fail
  <2>13. ASSUME NEW w \in Workers, Activate(w) PROVE ChargesEndAction
    BY <2>4, <2>8, <2>13 DEF Activate
  <2>14. ASSUME NEW w \in Workers, SyncRead(w) PROVE ChargesEndAction
    <3>1. task'[w].at = "write" /\ \A v \in Workers \ {w} : task'[v] = task[v]
      BY <1>1, <2>14, <2>0 DEF SyncRead, Becomes, TypeOK, Tasks
    <3>2. \A v \in Workers : UnderWay(v)' => UnderWay(v)
      BY <3>1 DEF UnderWay
    <3> QED BY <2>2, <2>3, <2>14, <3>2 DEF SyncRead
  <2>15. ASSUME NEW w \in Workers, SyncWrite(w) PROVE ChargesEndAction
    <3>1. \A v \in Workers : \/ task'[v].at = "idle"
                             \/ task'[v].at = task[v].at /\ task'[v].live = task[v].live
      BY <2>15, <2>0 DEF SyncWrite, Idle, Tasks
    <3>2. \A v \in Workers : UnderWay(v)' => UnderWay(v)
      BY <3>1 DEF UnderWay
    <3> QED BY <2>2, <2>3, <2>15, <3>2 DEF SyncWrite
  <2>16. ASSUME NEW w \in Workers, Becomes(w, Syncing), balance' = balance PROVE ChargesEndAction
    <3>1. Syncing.at = "sync"
      BY DEF Syncing, Idle
    <3> QED BY <2>4, <2>16, <3>1
  <2>17. ASSUME NEW w \in Workers, Skip(w) \/ Renew(w) PROVE ChargesEndAction
    BY <2>16, <2>17 DEF Skip, Renew
  <2>18. ASSUME NEW w \in Workers,
                \/ StartRun(w) \/ Resume(w) \/ Cancel(w)
                \/ \E from, until \in Days : Pause(w, from, until)
         PROVE  ChargesEndAction
    BY <1>1, <2>18 DEF StartRun, Delivers, Delivering, Resume, Cancel, Pause
  <2>19. ASSUME NEW w \in Workers, NEW d \in Days, Retry(w, d) \/ AskSkip(w, d)
         PROVE  ChargesEndAction
    <3>1. task'[w].at \in {"delete", "skip", "unskip"} /\ \A v \in Workers \ {w} : task'[v] = task[v]
      BY <1>1, <2>19 DEF Retry, AskSkip, Becomes, Idle, TypeOK
    <3>2. \A v \in Workers : UnderWay(v)' => UnderWay(v)
      BY <3>1 DEF UnderWay
    <3> QED BY <2>2, <2>3, <2>19, <3>2 DEF Retry, AskSkip
  <2>20. ASSUME UNCHANGED task, balance' >= balance PROVE ChargesEndAction
    <3>1. \A v \in Workers : UnderWay(v)' => UnderWay(v)
      BY <2>20 DEF UnderWay
    <3>2. ~(balance' < balance)
      BY <1>1, StepType, <2>20 DEF TypeOK
    <3> QED BY <2>2, <3>1, <3>2
  <2>21. ASSUME NEW d \in Days, CancelOrder(d) PROVE ChargesEndAction
    BY <1>1, <2>20, <2>21 DEF CancelOrder, TypeOK
  <2>22. CASE JudgeRenewal \/ TopUp \/ Restock \/ NextDay \/ UNCHANGED vars
    BY <1>1, <2>20, <2>22 DEF JudgeRenewal, TopUp, Restock, NextDay, vars, TypeOK
  <2> QED BY <1>1, <2>1, <2>5, <2>9, <2>10, <2>11, <2>12, <2>13, <2>14, <2>15, <2>17, <2>18,
             <2>19, <2>21, <2>22 DEF Next, Step
<1>2. TypeOK /\ [Next]_vars => ChargesEndAction
  BY <1>1 DEF ChargesEndAction
<1> QED BY <1>2, TypeCorrect, PTL DEF Spec
=============================================================================
