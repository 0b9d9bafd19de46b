-------------------------- MODULE MCCustomerWallet --------------------------
(* Top-ups, and workers, are interchangeable. *)
EXTENDS CustomerWallet, TLC

SymmetrySets == Permutations(Workers) \union Permutations(TopUps)
=============================================================================
