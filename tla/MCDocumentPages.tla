---------------------------- MODULE MCDocumentPages ----------------------------
(* A small instance of DocumentPages: two views, of two of three nodes     *)
EXTENDS DocumentPages, TLC

CONSTANTS n1, n2, n3, v1, v2

MCNode == {n1, n2, n3}
MCView == {v1, v2}
MCNodeOf == (v1 :> n1) @@ (v2 :> n2)
MCMatches == [v \in MCView |-> Doc]

(* References, and documents with versions, are interchangeable; of the    *)
(* two, a state has one.                                                   *)
Symmetry == Permutations(Refs) \cup Permutations(Versioned)
=============================================================================
