----------------------------- MODULE MCDebounce -----------------------------
(* An instance of Debounce for TLC.                                         *)
EXTENDS Debounce
=============================================================================
