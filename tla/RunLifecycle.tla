---------------------------- MODULE RunLifecycle ----------------------------
(***************************************************************************)
(* What a row of workflow_runs promises to everyone who polls it (the      *)
(* administration page, the node and document buttons, batch progress):    *)
(* it appears as pending, may be seen running, settles in one of three     *)
(* verdicts, and is only ever removed after that or by a forced clean-up.  *)
(* The one licence the launcher keeps is to turn any verdict of its own    *)
(* run into "failed" while it is still talking to Prefect.                 *)
(*                                                                         *)
(* WorkflowRun implements this specification.                              *)
(***************************************************************************)
CONSTANT Run

VARIABLES status,    \* what a client reads for each run
          launching  \* runs whose launching request has not returned

lvars == <<status, launching>>

Verdict == {"success", "failed", "cancelled"}
Open    == {"pending", "running"}
Phase   == {"none", "deleted"} \cup Open \cup Verdict

LInit == /\ status = [r \in Run |-> "none"]
         /\ launching = {}

(* A request inserts the row; it may go on to talk to Prefect.             *)
Appear(r) == /\ status[r] = "none"
             /\ status' = [status EXCEPT ![r] = "pending"]
             /\ launching' \in {launching, launching \cup {r}}

(* The flow reports that it started.                                       *)
Start(r) == /\ status[r] \in Open
            /\ status' = [status EXCEPT ![r] = "running"]
            /\ UNCHANGED launching

(* A flow's report or an operator settles one run; a clean-up may settle   *)
(* several at once, but only with "failed".                                *)
Settle(r, v) == /\ status[r] \in Open
                /\ status' = [status EXCEPT ![r] = v]
                /\ UNCHANGED launching

SettleAll(R) == /\ \A r \in R : status[r] \in Open
                /\ status' = [r \in Run |-> IF r \in R THEN "failed" ELSE status[r]]
                /\ UNCHANGED launching

(* The launcher gives up on its own run, whatever the row says by then.    *)
GiveUp(r) == /\ r \in launching
             /\ status[r] \in Open \cup Verdict
             /\ status' = [status EXCEPT ![r] = "failed"]
             /\ launching' = launching \ {r}

Return(R) == /\ launching' = launching \ R
             /\ UNCHANGED status

Remove(R) == /\ \A r \in R : status[r] \in Open \cup Verdict
             /\ status' = [r \in Run |-> IF r \in R THEN "deleted" ELSE status[r]]
             /\ UNCHANGED launching

LNext == \/ \E r \in Run : Appear(r) \/ Start(r) \/ GiveUp(r)
         \/ \E r \in Run, v \in Verdict : Settle(r, v)
         \/ \E R \in SUBSET Run : SettleAll(R) \/ Return(R) \/ Remove(R)

LSpec == LInit /\ [][LNext]_lvars
=============================================================================
