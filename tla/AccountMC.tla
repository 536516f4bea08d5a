----------------------------- MODULE AccountMC -----------------------------
(* An instance of Account whose tokens are interchangeable. *)
EXTENDS Account, TLC

Interchangeable == Permutations(Tokens)
=============================================================================
