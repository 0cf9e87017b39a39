---------------------------- MODULE MCLifecycle ----------------------------
(* Model-checking instance of Lifecycle: the terminals are interchangeable. *)
EXTENDS Lifecycle, TLC

Terminals == Permutations(Sup)
=============================================================================
