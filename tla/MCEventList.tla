---------------------------- MODULE MCEventList ----------------------------
(* An instance of EventList for TLC.                                        *)
EXTENDS EventList, TLC

Symmetry == Permutations(Path) \cup Permutations(Kind) \cup Permutations(RenameId)
=============================================================================
