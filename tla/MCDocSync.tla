----------------------------- MODULE MCDocSync ------------------------------
(* Small instances of DocSync.                                             *)
EXTENDS DocSync, TLC

Symmetry == Permutations(Event) \cup Permutations(Handler)
=============================================================================
