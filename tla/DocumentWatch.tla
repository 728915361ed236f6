---------------------------- MODULE DocumentWatch ----------------------------
(***************************************************************************)
(* The two buttons of an open document that start work elsewhere and watch *)
(* it: SyncButton.tsx (a synchronisation, DocSync) and                     *)
(* DocumentWorkflowButton.tsx (workflow runs, WorkflowRun, which write the *)
(* document).                                                              *)
(*                                                                         *)
(* A pending synchronisation is polled until the interval has been worked  *)
(* out a number of times, a run only while its progress is shown.  When    *)
(* they see work succeed, both have the document itself fetched again.     *)
(***************************************************************************)
EXTENDS Naturals

CONSTANTS Run,         \* the ids of runs, which ascend
          None, Asked,
          MaxPolls,    \* maxPollCount
          MaxStarts    \* bound: presses of one of the two buttons

Ended == {"success", "failed", "cancelled"}

RunStates == {"new", "active"} \cup Ended

SyncStates == {"none", "pending", "success", "failed"}

WatchAssumption == /\ Run \subseteq Nat /\ None # Asked
                   /\ {None, Asked} \cap (Nat \cup RunStates \cup SyncStates) = {}
                   /\ MaxPolls \in Nat /\ MaxStarts \in Nat

VARIABLES stored,        \* the server's last_sync
          run,           \* the server's runs
          version,       \* the server's document: how often a run has written it
          wrote,         \* the version that a successful run left
          syncStatus,    \* last_sync as it is shown, or None
          statusFetch, pollCount,
          triggering,    \* syncMutation: a synchronisation is being triggered
          launching,     \* triggerMutation: a run is being triggered
          currentRunId, progressModalOpen,
          seen,          \* data of workflow-run, for each run
          runFetch,      \* its fetch, for each run
          detail, detailFetch,  \* the document in the editor (document-detail)
          failed,        \* history: a fetch of the document has failed
          starts         \* bound: presses so far

server == <<stored, run, version, wrote>>
sync == <<syncStatus, statusFetch, pollCount, triggering>>
workflow == <<launching, currentRunId, progressModalOpen, seen, runFetch>>
document == <<detail, detailFetch, failed>>
vars == <<server, sync, workflow, document, starts>>

Init == /\ stored \in {"none", "success"} /\ run = [r \in Run |-> "new"]
        /\ version = 0 /\ wrote = [r \in Run |-> 0] /\ starts = 0
        /\ syncStatus = None /\ statusFetch = Asked /\ pollCount = 0 /\ triggering = FALSE
        /\ launching = FALSE /\ currentRunId = None /\ progressModalOpen = FALSE
        /\ seen = [r \in Run |-> None] /\ runFetch = [r \in Run |-> None]
        /\ detail = 0 /\ detailFetch = None /\ failed = FALSE

-----------------------------------------------------------------------------
(* The document                                                            *)

(* Mutant: a fetch under way is taken for the one asked for.               *)
MutInvalidateDetail == detailFetch' = IF detailFetch = None THEN Asked ELSE detailFetch

(* A fetch under way gives way to a new one.                               *)
InvalidateDetail == detailFetch' = Asked

DetailRead == /\ detailFetch = Asked
              /\ detailFetch' = version
              /\ UNCHANGED <<server, sync, workflow, detail, failed, starts>>

DetailAnswer == /\ detailFetch \in Nat
                /\ detail' = detailFetch /\ detailFetch' = None
                /\ UNCHANGED <<server, sync, workflow, failed, starts>>

DetailFails == /\ detailFetch = Asked
               /\ detailFetch' = None /\ failed' = TRUE
               /\ UNCHANGED <<server, sync, workflow, detail, starts>>

-----------------------------------------------------------------------------
(* SyncButton                                                              *)

IsPending == syncStatus = "pending" \/ triggering

(* refetchInterval counts how often it is worked out - whenever a fetch    *)
(* begins or ends, and whenever the button is rendered.  Counts beyond     *)
(* MaxPolls are all alike.                                                 *)
RefetchInterval(status) ==
    pollCount' = IF status # "pending" THEN 0
                 ELSE IF pollCount < MaxPolls THEN pollCount + 1 ELSE pollCount

(* The button waits for the first answer only: without one it knows of no  *)
(* target.                                                                 *)
TriggerSync == /\ syncStatus # None /\ ~IsPending /\ starts < MaxStarts
               /\ triggering' = TRUE /\ starts' = starts + 1
               /\ UNCHANGED <<server, syncStatus, statusFetch, pollCount, workflow,
                              document>>

(* refetchStatus: a fetch under way is given up for a new one.             *)
SyncTriggered == /\ triggering
                 /\ stored' = "pending"
                 /\ triggering' = FALSE /\ statusFetch' = Asked
                 /\ RefetchInterval(syncStatus)
                 /\ UNCHANGED <<run, version, wrote, syncStatus, workflow, document, starts>>

SyncRefused == /\ triggering /\ triggering' = FALSE
               /\ UNCHANGED <<server, syncStatus, statusFetch, pollCount, workflow,
                              document, starts>>

PollSync == /\ syncStatus = "pending" /\ pollCount < MaxPolls /\ statusFetch = None
            /\ statusFetch' = Asked
            /\ RefetchInterval(syncStatus)
            /\ UNCHANGED <<server, syncStatus, triggering, workflow, document, starts>>

(* Anything may render the button, every key typed in the editor does.     *)
Render == /\ RefetchInterval(syncStatus)
          /\ UNCHANGED <<server, syncStatus, statusFetch, triggering, workflow, document,
                         starts>>

(* 刷新, in the dialog; the very first fetch is not begun again.           *)
RefreshSync == /\ statusFetch' = IF syncStatus # None \/ statusFetch = None THEN Asked
                                                                             ELSE statusFetch
               /\ RefetchInterval(syncStatus)
               /\ UNCHANGED <<server, syncStatus, triggering, workflow, document, starts>>

StatusRead == /\ statusFetch = Asked
              /\ statusFetch' = stored
              /\ UNCHANGED <<server, syncStatus, pollCount, triggering, workflow,
                             document, starts>>

StatusAnswer == /\ statusFetch \notin {None, Asked}
                /\ syncStatus' = statusFetch /\ statusFetch' = None
                /\ RefetchInterval(statusFetch)
                /\ IF statusFetch = "success" /\ syncStatus # "success"
                     THEN InvalidateDetail ELSE UNCHANGED detailFetch
                /\ UNCHANGED <<server, triggering, workflow, detail, failed, starts>>

StatusFails == /\ statusFetch = Asked
               /\ statusFetch' = None
               /\ RefetchInterval(syncStatus)
               /\ UNCHANGED <<server, syncStatus, triggering, workflow, document, starts>>

-----------------------------------------------------------------------------
(* DocumentWorkflowButton                                                  *)

TriggerWorkflow == /\ ~launching /\ starts < MaxStarts
                   /\ launching' = TRUE /\ starts' = starts + 1
                   /\ UNCHANGED <<server, sync, currentRunId, progressModalOpen, seen,
                                  runFetch,
                                  document>>

(* The run before, if any, is not watched any longer.                      *)
WorkflowTriggered(r) ==
    /\ launching /\ run[r] = "new" /\ \A q \in Run : q < r => run[q] # "new"
    /\ run' = [run EXCEPT ![r] = "active"]
    /\ launching' = FALSE /\ currentRunId' = r
    /\ runFetch' = IF progressModalOpen THEN [runFetch EXCEPT ![r] = Asked] ELSE runFetch
    /\ UNCHANGED <<stored, version, wrote, sync, progressModalOpen, seen, document, starts>>

WorkflowRefused == /\ launching /\ launching' = FALSE
                   /\ UNCHANGED <<server, sync, currentRunId, progressModalOpen, seen,
                                  runFetch,
                                  document, starts>>

(* The link in the message: the query starts, or goes on.                  *)
ShowProgress ==
    /\ currentRunId # None /\ ~progressModalOpen
    /\ progressModalOpen' = TRUE
    /\ runFetch' = [runFetch EXCEPT ![currentRunId] = IF @ = None THEN Asked ELSE @]
    /\ UNCHANGED <<server, sync, launching, currentRunId, seen, document, starts>>

CloseProgress == /\ progressModalOpen /\ progressModalOpen' = FALSE
                 /\ UNCHANGED <<server, sync, launching, currentRunId, seen, runFetch,
                                document, starts>>

(* Mutant: a run is polled until it has been seen once.                    *)
MutPollRun == /\ progressModalOpen /\ currentRunId # None
              /\ seen[currentRunId] = None /\ runFetch[currentRunId] = None
              /\ runFetch' = [runFetch EXCEPT ![currentRunId] = Asked]
              /\ UNCHANGED <<server, sync, launching, currentRunId, progressModalOpen, seen,
                             document, starts>>

PollRun == /\ progressModalOpen /\ currentRunId # None
           /\ seen[currentRunId] \notin Ended /\ runFetch[currentRunId] = None
           /\ runFetch' = [runFetch EXCEPT ![currentRunId] = Asked]
           /\ UNCHANGED <<server, sync, launching, currentRunId, progressModalOpen, seen,
                          document, starts>>

RunRead(r) == /\ runFetch[r] = Asked
              /\ runFetch' = [runFetch EXCEPT ![r] = run[r]]
              /\ UNCHANGED <<server, sync, launching, currentRunId, progressModalOpen, seen,
                             document, starts>>

(* A closed query that is enabled no longer still has its fetch answered,  *)
(* and the effect goes by the data of the run that is current.             *)
RunAnswer(r) ==
    /\ runFetch[r] \notin {None, Asked}
    /\ seen' = [seen EXCEPT ![r] = runFetch[r]]
    /\ runFetch' = [runFetch EXCEPT ![r] = None]
    /\ LET changed == r = currentRunId /\ runFetch[r] # seen[r] IN
         /\ progressModalOpen' =
              (progressModalOpen /\ ~(changed /\ runFetch[r] \in {"success", "cancelled"}))
         /\ IF changed /\ runFetch[r] = "success" THEN InvalidateDetail
                                                  ELSE UNCHANGED detailFetch
    /\ UNCHANGED <<server, sync, launching, currentRunId, detail, failed, starts>>

-----------------------------------------------------------------------------
(* The rest of the world                                                   *)

SyncEnds == /\ stored = "pending" /\ stored' \in {"success", "failed"}
            /\ UNCHANGED <<run, version, wrote, sync, workflow, document, starts>>

RunEnds(r) ==
    /\ run[r] = "active"
    /\ \/ /\ run' = [run EXCEPT ![r] = "success"]
          /\ version' = version + 1 /\ wrote' = [wrote EXCEPT ![r] = version']
       \/ /\ \E s \in {"failed", "cancelled"} : run' = [run EXCEPT ![r] = s]
          /\ UNCHANGED <<version, wrote>>
    /\ UNCHANGED <<stored, sync, workflow, document, starts>>

-----------------------------------------------------------------------------

SyncButton == \/ TriggerSync \/ SyncTriggered \/ SyncRefused \/ PollSync \/ Render
              \/ RefreshSync \/ StatusRead \/ StatusAnswer \/ StatusFails

WorkflowButton == \/ TriggerWorkflow \/ WorkflowRefused \/ ShowProgress \/ CloseProgress \/ PollRun
                  \/ \E r \in Run : WorkflowTriggered(r) \/ RunRead(r) \/ RunAnswer(r)

Next == \/ SyncButton \/ WorkflowButton
        \/ DetailRead \/ DetailAnswer \/ DetailFails
        \/ SyncEnds \/ \E r \in Run : RunEnds(r)

Spec == Init /\ [][Next]_vars

(* Timers go on, and requests are answered in the end, however often one   *)
(* presses refresh.                                                        *)
FairSpec == /\ Spec
            /\ WF_vars(PollSync) /\ SF_vars(StatusRead) /\ SF_vars(StatusAnswer)
            /\ WF_vars(PollRun)
            /\ WF_vars(\E r \in Run : RunRead(r) \/ RunAnswer(r))
-----------------------------------------------------------------------------
(* Properties                                                              *)

(* The state has its types.                                                *)
TypeOK == /\ stored \in SyncStates /\ run \in [Run -> RunStates]
          /\ version \in Nat /\ wrote \in [Run -> Nat] /\ starts \in 0..MaxStarts
          /\ syncStatus \in SyncStates \cup {None} /\ statusFetch \in SyncStates \cup {None, Asked}
          /\ pollCount \in 0..MaxPolls
          /\ {triggering, launching, progressModalOpen, failed} \subseteq BOOLEAN
          /\ currentRunId \in Run \cup {None}
          /\ seen \in [Run -> {None, "active"} \cup Ended]
          /\ runFetch \in [Run -> {None, Asked, "active"} \cup Ended]
          /\ detail \in Nat /\ detailFetch \in Nat \cup {None, Asked}

(* Once a run was seen to succeed while it was the current one, the        *)
(* document in the editor comes to be at least what that run wrote         *)
(* (DocumentWorkflowButton.tsx:104-112), unless its fetch failed.          *)
ResultIsShown == detailFetch = None /\ ~failed /\ currentRunId # None =>
                    (seen[currentRunId] = "success" => detail >= wrote[currentRunId])

(* The progress that is shown is of a run that has ended in the meantime   *)
Unseen == /\ progressModalOpen /\ currentRunId # None
          /\ run[currentRunId] \in Ended /\ seen[currentRunId] \notin Ended

(* The end of a synchronisation is shown, or its polls are used up         *)
(* (SyncButton.tsx:63-76); the end of a run whose progress stays open is   *)
(* shown (DocumentWorkflowButton.tsx:91-98).                               *)
EndIsShown ==
    /\ (syncStatus = "pending" /\ stored # "pending")
          ~> (syncStatus # "pending" \/ stored = "pending" \/ pollCount >= MaxPolls)
    /\ Unseen ~> ~Unseen
=============================================================================
