--------------------------- MODULE BatchLifecycle ---------------------------
(***************************************************************************)
(* What the row of a batch promises to those who poll it: it appears as    *)
(* pending, runs, and ends once, with counts that add up to its total; it  *)
(* failed if something failed and nothing succeeded.                       *)
(*                                                                         *)
(* BatchRun implements this specification.                                 *)
(***************************************************************************)
EXTENDS Naturals

CONSTANT Total

VARIABLES status, counts

bvars == <<status, counts>>

Zero == [success |-> 0, failed |-> 0, skipped |-> 0]

BInit == status = "none" /\ counts = Zero

Appear == status = "none" /\ status' = "pending" /\ UNCHANGED counts

Run == status = "pending" /\ status' = "running" /\ UNCHANGED counts

End(s, f, k) ==
    /\ status = "running"
    /\ s + f + k = Total
    /\ counts' = [success |-> s, failed |-> f, skipped |-> k]
    /\ status' = IF f > 0 /\ s = 0 THEN "failed" ELSE "completed"

BNext == Appear \/ Run \/ \E s, f, k \in 0..Total : End(s, f, k)

BSpec == BInit /\ [][BNext]_bvars
=============================================================================
