-------------------------- MODULE MCOrderPayments --------------------------
(* Model values for OrderPayments: requests and workers are interchangeable. *)
EXTENDS OrderPayments, TLC

SymmetrySets == Permutations(Sessions) \union Permutations(Workers)
=============================================================================
