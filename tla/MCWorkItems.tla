---------------------------- MODULE MCWorkItems -----------------------------
(* Instances of WorkItems for TLC. *)
EXTENDS WorkItems, TLC

\* Items are alike; processes too, but for the one a run's record starts with.
ItemsAlike == Permutations(Items)
=============================================================================
