------------------------ MODULE PaymentIntentStates ------------------------
(***************************************************************************)
(* The state machine of one payment attempt (a row of payment_intents):    *)
(* src/lib/payment-intent-states.ts and canMove of lib/state-machines.ts.  *)
(* Every write of an intent's status goes through transitionIntent, which  *)
(* refuses a move this table does not list.                                *)
(***************************************************************************)

LiveStatuses == {"CREATED", "PENDING", "AUTHORIZED"}
PaidStatuses == {"CAPTURED", "PARTIALLY_REFUNDED", "REFUNDED"}
EndedStatuses == {"FAILED", "EXPIRED"}
IntentStatuses == LiveStatuses \union PaidStatuses \union EndedStatuses

Transitions ==
  [s \in IntentStatuses |->
     CASE s = "CREATED"    -> IntentStatuses \ {"CREATED", "PARTIALLY_REFUNDED", "REFUNDED"}
       [] s = "PENDING"    -> {"AUTHORIZED", "CAPTURED"} \union EndedStatuses
       [] s = "AUTHORIZED" -> {"CAPTURED"} \union EndedStatuses
       [] s \in {"CAPTURED", "PARTIALLY_REFUNDED"} -> {"PARTIALLY_REFUNDED", "REFUNDED"}
       [] OTHER            -> {}]

CanMove(from, to) == to \in Transitions[from]

=============================================================================
