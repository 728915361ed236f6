---------------------------- MODULE BatchDialog ----------------------------
(***************************************************************************)
(* The two dialogs of the web client that run batches over the selected    *)
(* nodes: BatchWorkflowModal (any workflow, the synchronisation to MySQL   *)
(* being one) and BatchSyncModal.  Each is four steps - configure, preview,*)
(* execute, finished - and each executes node after node: it asks for the  *)
(* batch of a node, polls it to its end, and goes on with the next one.    *)
(*                                                                         *)
(* A dialog is never unmounted: what closing it does not reset, and what   *)
(* an answer sets that arrives after it was closed, meets the next use of  *)
(* the dialog.  A request in flight keeps the targets and options of the   *)
(* render that sent it (`calls', `previewing').  The batches themselves    *)
(* run on the server (BatchRun, whose rows obey BatchLifecycle).           *)
(***************************************************************************)
EXTENDS Naturals, Sequences, FiniteSets, Functions

CONSTANTS Targets,    \* the selections a dialog may be opened on: sequences of nodes
          Keys,       \* the workflow keys that the nodes offer
          SyncKey,    \* "sync_to_mysql", the key that is a synchronisation
          Configs,    \* the options of the configuration step
          Default,    \* the options nobody has changed
          None,
          MaxRuns,    \* bound: executions that overlap
          MaxBatches  \* bound: batches these start

ASSUME DialogAssumption ==
    /\ \A t \in Targets : t \in Seq(Nat) \ {<<>>} /\ IsInjective(t)
    /\ Default \in Configs
    /\ None \notin Keys \cup Configs \cup {SyncKey}
    /\ MaxRuns \in Nat /\ MaxBatches \in Nat

VARIABLES dialog,     \* which of the two dialogs this is
          open,       \* App: is it shown
          nodes,      \* App: the nodes it was last opened on
          currentStep, workflowKey, config, previewData,
          currentNodeIndex, currentBatchId, executionResults, isExecuting,
          batchStatus,  \* the polled row of currentBatchId, None before the first answer
          saved,      \* localStorage: the last key, and the options executed with each
          previewing, \* the preview that is not answered yet, or None
          calls,      \* the requests for a batch that are not answered yet
          batches,    \* the server's batches that the dialog may still come to see
          run,        \* history: executions whose answers may still arrive
          clean,      \* history: nothing of an earlier execution is left in this one
          crossed     \* history: an option or the nodes changed under the preview

ui == <<dialog, open, nodes>>
conf == <<workflowKey, config, saved>>
exec == <<currentNodeIndex, currentBatchId, executionResults, isExecuting, batchStatus>>
hist == <<run, clean, crossed>>
vars == <<ui, currentStep, conf, previewData, exec, previewing, calls, batches, hist>>

Finished == {"completed", "failed"}

Counts == {[success |-> 1, failed |-> 0], [success |-> 0, failed |-> 1]}

Zero == [success |-> 0, failed |-> 0]

(* What a request takes along from the render that made it *)
Ask == [nodes |-> nodes, key |-> workflowKey, config |-> config]

(* The four steps.  The preview names the nodes; the execution shows how   *)
(* far the batch under way has come, and no button can be pressed.         *)
Configuring == open /\ currentStep = "config"

Previewed == open /\ currentStep = "preview"

Executing == currentStep = "execute"

(* The batches that the last step sums up.                                 *)
Summed == {executionResults[k].batch : k \in DOMAIN executionResults} \ {0}

IsSyncMode == dialog = "sync" \/ workflowKey = SyncKey

Init == /\ dialog \in {"workflow", "sync"}
        /\ open = FALSE /\ nodes \in Targets
        /\ currentStep = "config" /\ config = Default
        /\ workflowKey = IF dialog = "sync" THEN SyncKey ELSE None
        /\ saved = [last |-> None, configs |-> [k \in Keys |-> Default]]
        /\ previewData = None /\ previewing = None
        /\ currentNodeIndex = 1 /\ currentBatchId = 0 /\ executionResults = <<>>
        /\ isExecuting = FALSE /\ batchStatus = None
        /\ calls = {} /\ batches = <<>>
        /\ run = 0 /\ clean = TRUE /\ crossed = FALSE

-----------------------------------------------------------------------------
(* Opening, closing, configuring                                           *)

(* Bound: while answers of an earlier execution are due, the same nodes    *)
Reopened(t) == run = 0 \/ t = nodes

ShowDialog(t) == open' = TRUE /\ nodes' = t

(* From the menu of a node, on it or on all that are selected *)
Open(t) == /\ ~open /\ Reopened(t)
           /\ ShowDialog(t)
           /\ crossed' = (crossed \/ previewing # None \/ currentStep = "preview")
           /\ UNCHANGED <<dialog, currentStep, conf, previewData, exec, previewing,
                          calls, batches,
                          run, clean>>

(* resetState: the options of the workflow dialog follow only a key that changes *)
ResetWorkflow == /\ dialog = "workflow"
                 /\ workflowKey' = saved.last
                 /\ config' = IF saved.last \in Keys /\ saved.last # workflowKey
                                THEN saved.configs[saved.last] ELSE config

ResetSync == dialog = "sync" /\ config' = Default /\ UNCHANGED workflowKey

Close == /\ ResetWorkflow \/ ResetSync
         /\ open' = FALSE /\ currentStep' = "config" /\ previewData' = None
         /\ currentNodeIndex' = 1 /\ currentBatchId' = 0 /\ batchStatus' = None
         /\ executionResults' = <<>> /\ isExecuting' = FALSE
         /\ crossed' = (previewing # None)
         /\ IF calls = {} THEN batches' = <<>> /\ run' = 0
                          ELSE UNCHANGED <<batches, run>>
         /\ UNCHANGED <<dialog, nodes, saved, previewing, calls>>

(* The buttons, which the executing step disables *)
Cancel == open /\ ~Executing /\ Close /\ UNCHANGED clean

CancelWorkflow == dialog = "workflow" /\ Cancel

CancelSync == dialog = "sync" /\ Cancel

(* The Escape key, which it does not *)
Escape == open /\ Executing /\ Close /\ clean' = (calls = {})

ChooseWorkflow(k) ==
    /\ dialog = "workflow" /\ Configuring /\ k # workflowKey
    /\ workflowKey' = k /\ config' = saved.configs[k]
    /\ crossed' = (crossed \/ previewing # None)
    /\ UNCHANGED <<ui, currentStep, saved, previewData, exec, previewing, calls, batches,
                   run, clean>>

(* Mutant: options can still be changed beside the preview.                *)
MutConfigure(c) ==
    /\ open /\ currentStep \in {"config", "preview"} /\ c # config
    /\ config' = c
    /\ crossed' = (crossed \/ previewing # None)
    /\ UNCHANGED <<ui, currentStep, workflowKey, saved, previewData, exec, previewing,
                   calls, batches,
                   run, clean>>

Configure(c) ==
    /\ Configuring /\ c # config
    /\ config' = c
    /\ crossed' = (crossed \/ previewing # None)
    /\ UNCHANGED <<ui, currentStep, workflowKey, saved, previewData, exec, previewing,
                   calls, batches,
                   run, clean>>

ConfigureWorkflow(c) == dialog = "workflow" /\ Configure(c)

(* Its one option is whether to include descendants *)
ConfigureSync(c) == dialog = "sync" /\ Configure(c)

-----------------------------------------------------------------------------
(* Previewing: one request per node, answered together or failed together  *)

Previewing == /\ Configuring /\ previewing = None
              /\ previewing' = Ask
              /\ crossed' = FALSE
              /\ UNCHANGED <<ui, currentStep, conf, previewData, exec, calls, batches,
                             run, clean>>

PreviewWorkflow == dialog = "workflow" /\ workflowKey # None /\ Previewing

PreviewSync == dialog = "sync" /\ Previewing

(* The merged answers: `can' is whether anything can be executed.  Only the *)
(* preview step reads them, so the model forgets them when it is left.     *)
Merged(ask, can) == [ask |-> ask, can |-> can]

PreviewAnswer(can) ==
    /\ previewing # None
    /\ previewData' = Merged(previewing, can) /\ currentStep' = "preview"
    /\ previewing' = None
    /\ UNCHANGED <<ui, conf, exec, calls, batches, hist>>

PreviewFails == /\ previewing # None
                /\ previewing' = None
                /\ UNCHANGED <<ui, currentStep, conf, previewData, exec, calls, batches,
                               hist>>

Back == /\ Previewed
        /\ currentStep' = "config" /\ previewData' = None
        /\ UNCHANGED <<ui, conf, exec, previewing, calls, batches, hist>>

-----------------------------------------------------------------------------
(* Executing                                                               *)

(* The step-one button: the preview of this mode found something to do     *)
MayExecute == /\ Previewed /\ ~isExecuting
              /\ previewData # None /\ previewData.can
              /\ (previewData.ask.key = SyncKey) = IsSyncMode

Call(r, i, res) == [run |-> r, ask |-> Ask, i |-> i, results |-> res]

Start == /\ run < MaxRuns
         /\ run' = run + 1
         /\ clean' = (calls = {} /\ currentBatchId = 0)
         /\ crossed' = FALSE
         /\ isExecuting' = TRUE /\ currentStep' = "execute"
         /\ currentNodeIndex' = 1 /\ executionResults' = <<>> /\ previewData' = None
         /\ calls' = calls \cup {Call(run + 1, 1, <<>>)}
         /\ UNCHANGED <<ui, workflowKey, config, currentBatchId, batchStatus, previewing,
                        batches>>

(* saveWorkflowConfig: the options become the defaults of the workflow     *)
Remembered(k, c) == [last |-> k, configs |-> [saved.configs EXCEPT ![k] = c]]

ExecuteWorkflow == /\ dialog = "workflow" /\ workflowKey # None /\ MayExecute
                   /\ saved' = Remembered(workflowKey, config)
                   /\ Start

ExecuteSync == dialog = "sync" /\ MayExecute /\ Start /\ UNCHANGED saved

NewBatch(c) == [run |-> c.run, ask |-> c.ask, i |-> c.i, status |-> "running", counts |-> Zero]

BatchAccepted(c) ==
    /\ Len(batches) < MaxBatches
    /\ batches' = Append(batches, NewBatch(c))
    /\ calls' = calls \ {c}
    /\ currentNodeIndex' = c.i /\ currentBatchId' = Len(batches) + 1 /\ batchStatus' = None
    /\ UNCHANGED <<ui, currentStep, conf, previewData, executionResults, isExecuting,
                   previewing, hist>>

(* executeNextNode: ask for the next node, or finish                       *)
NextNode(c, done, res) ==
    IF c.i < Len(c.ask.nodes)
      THEN /\ calls' = (calls \ {done}) \cup {[c EXCEPT !.i = @ + 1, !.results = res]}
           /\ UNCHANGED <<currentStep, isExecuting>>
      ELSE /\ calls' = calls \ {done}
           /\ currentStep' = "finished" /\ isExecuting' = FALSE

(* Mutant: a refused batch ends the loop over the nodes.                   *)
MutBatchRefused(c) ==
    /\ calls' = calls \ {c}
    /\ UNCHANGED <<ui, currentStep, conf, previewData, exec, previewing, batches, hist>>

(* The request fails, or its answer is lost: what the server may have      *)
(* started then, the dialog never learns of                                *)
BatchRefused(c) ==
    LET res == Append(c.results, [node |-> c.ask.nodes[c.i], batch |-> 0,
                                  counts |-> [success |-> 0, failed |-> 1]])
    IN /\ executionResults' = IF c.i < Len(c.ask.nodes) THEN executionResults ELSE res
       /\ NextNode(c, c, res)
       /\ UNCHANGED <<ui, conf, previewData, currentNodeIndex, currentBatchId,
                      batchStatus, previewing,
                      batches, hist>>

(* Mutant: the finished batch stays the one that is polled.                *)
MutKeepBatch(row) ==
    LET res  == Append(executionResults, [node |-> nodes[currentNodeIndex], batch |-> currentBatchId,
                                          counts |-> row.counts])
        here == Call(run, currentNodeIndex, executionResults)
    IN /\ executionResults' = res
       /\ NextNode(here, None, res)
       /\ batchStatus' = None
       /\ UNCHANGED currentBatchId

(* Mutant: every result is filed under the primary node.                   *)
MutPrimary(row) ==
    LET res  == Append(executionResults, [node |-> nodes[1], batch |-> currentBatchId,
                                          counts |-> row.counts])
        here == Call(run, currentNodeIndex, executionResults)
    IN /\ executionResults' = res
       /\ NextNode(here, None, res)
       /\ currentBatchId' = IF currentNodeIndex < Len(nodes) THEN 0 ELSE currentBatchId
       /\ batchStatus' = None

(* The effect on a finished status: keep the result, go on                 *)
Settle(row) ==
    LET node == IF currentNodeIndex \in DOMAIN nodes THEN nodes[currentNodeIndex] ELSE 0
        res  == Append(executionResults, [node |-> node, batch |-> currentBatchId, counts |-> row.counts])
        here == Call(run, currentNodeIndex, executionResults)
    IN /\ executionResults' = res
       /\ NextNode(here, None, res)
       /\ currentBatchId' = IF currentNodeIndex < Len(nodes) THEN 0 ELSE currentBatchId
       /\ batchStatus' = None

Polling == Executing /\ currentBatchId # 0 /\ batchStatus \notin Finished

Poll == /\ Polling
        /\ LET row == batches[currentBatchId]
           IN IF row.status \in Finished /\ isExecuting
                THEN Settle(row)
                ELSE /\ batchStatus' = row.status
                     /\ UNCHANGED <<currentStep, executionResults, isExecuting,
                                    currentBatchId, calls>>
        /\ UNCHANGED <<ui, conf, previewData, currentNodeIndex, previewing, batches,
                       hist>>

(* Each dialog has its own copy of these handlers. *)
WorkflowAnswer(c) == dialog = "workflow" /\ (BatchAccepted(c) \/ BatchRefused(c))

SyncAnswer(c) == dialog = "sync" /\ (BatchAccepted(c) \/ BatchRefused(c))

PollWorkflow == dialog = "workflow" /\ Poll

PollSync == dialog = "sync" /\ Poll

(* The server: a batch comes to an end *)
BatchEnds(b, counts) ==
    /\ batches[b].status = "running"
    /\ batches' = [batches EXCEPT ![b].counts = counts,
                                  ![b].status = IF counts.success = 0 THEN "failed" ELSE "completed"]
    /\ UNCHANGED <<ui, currentStep, conf, previewData, exec, previewing, calls, hist>>

Answer == \E c \in calls : WorkflowAnswer(c) \/ SyncAnswer(c)

Polls == PollWorkflow \/ PollSync

Server == \E b \in DOMAIN batches, n \in Counts : BatchEnds(b, n)

User == \/ \E t \in Targets : Open(t)
        \/ CancelWorkflow \/ CancelSync \/ Escape \/ Back
        \/ \E k \in Keys : ChooseWorkflow(k)
        \/ \E c \in Configs : ConfigureWorkflow(c) \/ ConfigureSync(c)
        \/ PreviewWorkflow \/ PreviewSync \/ ExecuteWorkflow \/ ExecuteSync

Next == \/ User
        \/ \E can \in BOOLEAN : PreviewAnswer(can)
        \/ PreviewFails
        \/ Answer \/ Polls \/ Server

Spec == Init /\ [][Next]_vars

(* Requests are answered, the interval timer polls, the server's workers   *)
(* finish: none of it waits for the user.                                  *)
FairSpec == Spec /\ WF_vars(Answer) /\ WF_vars(Polls) /\ WF_vars(Server)
-----------------------------------------------------------------------------
(* Properties                                                              *)

Asks == [nodes : Targets, key : Keys \cup {SyncKey, None}, config : Configs]

(* The batches of the present execution that the dialog knows of *)
Mine == {b \in DOMAIN batches : batches[b].run = run}

NodeOf(batch) == batch.ask.nodes[batch.i]

PlaceOf(n) == CHOOSE k \in DOMAIN nodes : nodes[k] = n

Outcome(r) == IF r.batch = 0 THEN [success |-> 0, failed |-> 1] ELSE batches[r.batch].counts

(* The state has its types; a step, an index and a batch agree with each   *)
(* other as the code relies on: only the executing step executes.          *)
TypeOK ==
    /\ dialog \in {"workflow", "sync"} /\ open \in BOOLEAN /\ nodes \in Targets
    /\ currentStep \in {"config", "preview", "execute", "finished"}
    /\ workflowKey \in Keys \cup {SyncKey, None} /\ config \in Configs
    /\ saved.last \in Keys \cup {SyncKey, None} /\ saved.configs \in [Keys -> Configs]
    /\ previewData # None => previewData.ask \in Asks /\ previewData.can \in BOOLEAN
    /\ previewing # None => previewing \in Asks
    /\ currentNodeIndex \in Nat \ {0} /\ currentBatchId \in 0..Len(batches)
    /\ batchStatus \in Finished \cup {"running", None}
    /\ isExecuting <=> currentStep = "execute"
    /\ \A c \in calls : c.run \in 1..run /\ c.ask \in Asks /\ c.i \in DOMAIN c.ask.nodes
    /\ \A b \in DOMAIN batches : batches[b].i \in DOMAIN batches[b].ask.nodes

(* Serial execution (BatchWorkflowModal.tsx:210,476): an execution that    *)
(* begins with nothing left of an earlier one asks for a batch only when   *)
(* every batch of it that was answered has ended, and never asks twice for *)
(* the same node - across failures, lost answers and the polling effect.   *)
OneAtATime ==
    clean /\ isExecuting =>
        LET due == {c \in calls : c.run = run}
            on  == {b \in Mine : batches[b].status = "running"}
        IN /\ Cardinality(due) + Cardinality(on) <= 1
           /\ \A b, d \in Mine : batches[b].i = batches[d].i => b = d
           /\ \A b \in Mine, c \in due : batches[b].i # c.i

(* The results are kept in the order of the nodes, each with what its own  *)
(* batch reported, and when the execution is over none of its batches is   *)
(* missing, whatever was refused before or between them.                   *)
ResultsFollowNodes ==
    clean /\ currentStep \in {"execute", "finished"} =>
        /\ \A k \in DOMAIN executionResults :
              LET r == executionResults[k] IN
              /\ r.node \in Range(nodes) /\ r.counts = Outcome(r)
              /\ r.batch # 0 => r.batch \in Mine /\ NodeOf(batches[r.batch]) = r.node
              /\ \A l \in 1..(k - 1) :
                    PlaceOf(executionResults[l].node) < PlaceOf(r.node)
        /\ currentStep = "finished" =>
              Mine = Summed

(* Every batch of an execution is for the nodes and with the options that  *)
(* the dialog shows, though each is asked for by the closure of another    *)
(* render, and some by the error handler of an earlier request.            *)
OptionsHold == clean /\ currentStep \in {"execute", "finished"} =>
    /\ \A b \in Mine : batches[b].ask = Ask
    /\ \A c \in calls : c.ask = Ask

(* An execution is what the dialog shows: one node at a time, all alike.   *)
SerialAsShown == OneAtATime /\ OptionsHold

(* What an execution starts with is what its preview showed, if neither an *)
(* option nor the nodes changed while the preview was being answered.      *)
ConfirmedStart ==
    [][run' > run /\ ~crossed => previewData.ask = Ask]_vars

(* An execution comes to its final page unless the user leaves it.         *)
Finishes == Executing ~> ~Executing
=============================================================================
