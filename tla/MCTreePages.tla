----------------------------- MODULE MCTreePages -----------------------------
(* TreePages, on a small instance.                                         *)
EXTENDS TreePages, TLC

CONSTANTS t1, t2, t3, u1, u2

(* One user logs in twice, another one once.                               *)
MCToken == {t1, t2, t3}
MCOwner == t1 :> u1 @@ t2 :> u2 @@ t3 :> u1

(* Categories, nodes and documents are interchangeable; permuting more than *)
(* one of the sets is the same as permuting one after the other.           *)
Symmetry == Permutations(Cat) \cup Permutations(Node) \cup Permutations(Doc)
=============================================================================
