----------------------------- MODULE MCBackends -----------------------------
(* Instances of Backends for TLC.                                           *)
EXTENDS Backends, TLC

Symmetry == Permutations(Backend) \cup Permutations(Thread)
              \cup Permutations(Subject)
=============================================================================
