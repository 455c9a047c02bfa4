----------------------------- MODULE MCOptiCon ------------------------------
(***************************************************************************)
(* Small instances of OptiCon for TLC.                                     *)
(***************************************************************************)
EXTENDS OptiCon, TLC

\* Brokers, slots and updates are not told apart.
Symmetry == Permutations(Brokers) \cup Permutations(Slots) \cup Permutations(Updates)
=============================================================================
