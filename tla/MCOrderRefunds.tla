--------------------------- MODULE MCOrderRefunds ---------------------------
(* Model values for OrderRefunds: workers are interchangeable. *)
EXTENDS OrderRefunds, TLC

SymmetrySets == Permutations(Workers)
=============================================================================
