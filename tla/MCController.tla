--------------------------- MODULE MCController ---------------------------
(* Instances of Controller for TLC. *)
EXTENDS Controller, TLC

Permuted == Permutations(Runner) \cup Permutations(Worker)
============================================================================
