-------------------------- MODULE MCRiderTransfers --------------------------
(* Model values for RiderTransfers: credit c is worth c rupees, workers are *)
(* interchangeable.                                                         *)
EXTENDS RiderTransfers, TLC

CreditValue == [c \in Credits |-> c]
SymmetrySets == Permutations(Workers)
=============================================================================
