----------------------------- MODULE WorkflowRun -----------------------------
(***************************************************************************)
(* The life of a workflow run (internal/service/workflow.go): a request    *)
(* inserts a row of workflow_runs, looks up the Prefect deployment, asks   *)
(* Prefect for a flow run and writes the answer back, each step a separate *)
(* database statement or HTTP call; meanwhile IDPP flows call back,        *)
(* operators cancel or force-terminate, and administrators clean up.       *)
(*                                                                         *)
(* Prefect and the flows it starts are external.  Their calls back are a   *)
(* set that only grows: a message in it may be delivered any number of     *)
(* times, in any order, or never.                                          *)
(***************************************************************************)
EXTENDS Naturals, FiniteSets

CONSTANTS
    Run,              \* primary keys of workflow_runs
    Flow,             \* Prefect flow runs that can come into being
    Target,           \* (workflow_key, node or document) pairs
    NULL,             \* SQL NULL and the empty prefect_flow_run_id
    PrefectEnabled,   \* a Prefect URL is configured
    MaxRetries,       \* retries of CreateFlowRun (3 in the code)
    ZombieAge,        \* ZombieTaskTimeout in ticks of the clock
    MaxTime,          \* bound of the clock
    FinalReport,      \* what flows report when they end
    MayCrash,         \* whether the process may die
    CleanupRequests   \* parameters administrators use

Active   == {"pending", "running"}
Terminal == {"success", "failed", "cancelled"}
Status   == Active \cup Terminal

CleanupParams == [status : SUBSET Status, includeZombie : BOOLEAN,
                  forceCleanupActive : BOOLEAN]

ASSUME RunAssumption ==
    /\ NULL \notin Run \cup Flow \cup Target \cup Nat
    /\ IsFiniteSet(Run)
    /\ PrefectEnabled \in BOOLEAN /\ MayCrash \in BOOLEAN
    /\ MaxRetries \in Nat /\ ZombieAge \in Nat \ {0} /\ MaxTime \in Nat
    /\ CleanupRequests \subseteq CleanupParams
    /\ FinalReport \subseteq {"completed", "success", "failed", "cancelled"}

VARIABLES
    \* the table workflow_runs, one function per column
    status,       \* "none" before the insert, "deleted" after a clean-up
    target, retryOf, createdAt, startedAt, finishedAt, flowId,
    \* the request that triggers each run
    trigger,      \* what TriggerWorkflow does next
    attempt,      \* retries CreateFlowRun has made
    launched,     \* the flow run Prefect returned
    \* the other requests
    stopping,     \* runs settled by an operator, Prefect not yet told
    cleanup,      \* the clean-up request in progress
    \* Prefect and IDPP
    flow, owner, sent,
    now

row      == <<status, target, retryOf, createdAt, startedAt, finishedAt, flowId>>
request  == <<trigger, attempt, launched>>
prefect  == <<flow, owner, sent>>
vars     == <<row, request, stopping, cleanup, prefect, now>>

TriggerStep == {"idle", "lookup", "launch", "record", "fail", "done"}
InFlight(r) == trigger[r] \in {"lookup", "launch", "record", "fail"}

Exists(r)  == status[r] \in Status
IsActive(r) == status[r] \in Active

Coalesce(a, b) == IF a # NULL THEN a ELSE b
Since(r) == Coalesce(startedAt[r], createdAt[r])

IdleCleanup == [step |-> "idle", params |-> NULL, scope |-> {}, ids |-> {},
                cutoff |-> 0, count |-> 0]

Init ==
    /\ status = [r \in Run |-> "none"]
    /\ target = [r \in Run |-> NULL]
    /\ retryOf = [r \in Run |-> NULL]
    /\ createdAt = [r \in Run |-> NULL]
    /\ startedAt = [r \in Run |-> NULL]
    /\ finishedAt = [r \in Run |-> NULL]
    /\ flowId = [r \in Run |-> NULL]
    /\ trigger = [r \in Run |-> "idle"]
    /\ attempt = [r \in Run |-> 0]
    /\ launched = [r \in Run |-> NULL]
    /\ stopping = {}
    /\ cleanup = IdleCleanup
    /\ flow = [f \in Flow |-> "unborn"]
    /\ owner = [f \in Flow |-> NULL]
    /\ sent = {}
    /\ now = 0

-----------------------------------------------------------------------------
(* Triggering.  A request refused before the insert (unknown, disabled or  *)
(* missing definition, wrong workflow type, NDR failure) changes nothing.  *)

(* validateRetryOf, with the foreign key that re-checks the source row at  *)
(* the insert.                                                             *)
ValidRetryOf(src, t) == src # NULL => Exists(src) /\ target[src] = t

CreateRun(r, t, src) ==
    /\ status[r] = "none"
    /\ ValidRetryOf(src, t)
    /\ status' = [status EXCEPT ![r] = "pending"]
    /\ target' = [target EXCEPT ![r] = t]
    /\ retryOf' = [retryOf EXCEPT ![r] = src]
    /\ createdAt' = [createdAt EXCEPT ![r] = now]
    /\ trigger' = [trigger EXCEPT ![r] = IF PrefectEnabled THEN "lookup" ELSE "done"]
    /\ UNCHANGED <<startedAt, finishedAt, flowId, attempt, launched,
                   stopping, cleanup, prefect, now>>

(* Mutant: a failed lookup returns without marking the run.                *)
MutFindDeployment(r) ==
    /\ trigger[r] = "lookup"
    /\ \E next \in {"launch", "done"} : trigger' = [trigger EXCEPT ![r] = next]
    /\ UNCHANGED <<row, attempt, launched, stopping, cleanup, prefect, now>>

FindDeployment(r) ==
    /\ trigger[r] = "lookup"
    /\ \E next \in {"launch", "fail"} : trigger' = [trigger EXCEPT ![r] = next]
    /\ UNCHANGED <<row, attempt, launched, stopping, cleanup, prefect, now>>

(* Prefect accepts a POST: a flow run now exists, whether or not the       *)
(* answer reaches the client.                                              *)
Accept(r, f) ==
    /\ flow[f] = "unborn"
    /\ flow' = [flow EXCEPT ![f] = "live"]
    /\ owner' = [owner EXCEPT ![f] = r]
    /\ UNCHANGED sent

CreateFlowRun(r, f) ==
    /\ trigger[r] = "launch"
    /\ Accept(r, f)
    /\ launched' = [launched EXCEPT ![r] = f]
    /\ trigger' = [trigger EXCEPT ![r] = "record"]
    /\ UNCHANGED <<row, attempt, stopping, cleanup, now>>

(* A timeout or a 502/503/504: the POST is sent again, without an          *)
(* idempotency key, although the first one may have been accepted.         *)
RetryFlowRun(r) ==
    /\ trigger[r] = "launch"
    /\ attempt[r] < MaxRetries
    /\ \/ \E f \in Flow : Accept(r, f)
       \/ UNCHANGED prefect
    /\ attempt' = [attempt EXCEPT ![r] = @ + 1]
    /\ UNCHANGED <<row, trigger, launched, stopping, cleanup, now>>

(* Out of retries, another status code, or an answer that does not parse.  *)
GiveUpFlowRun(r) ==
    /\ trigger[r] = "launch"
    /\ \/ \E f \in Flow : Accept(r, f)
       \/ UNCHANGED prefect
    /\ trigger' = [trigger EXCEPT ![r] = "fail"]
    /\ UNCHANGED <<row, attempt, launched, stopping, cleanup, now>>

(* Mutant: the whole row is saved back, which re-inserts a deleted one.    *)
MutFailTrigger(r) ==
    /\ trigger[r] = "fail"
    /\ status' = [status EXCEPT ![r] = "failed"]
    /\ finishedAt' = [finishedAt EXCEPT ![r] = now]
    /\ trigger' = [trigger EXCEPT ![r] = "done"]
    /\ UNCHANGED <<target, retryOf, createdAt, startedAt, flowId, attempt, launched,
                   stopping, cleanup, prefect, now>>

(* Model(&run).Updates selects by primary key only: it changes the row     *)
(* whatever its status has become, and no row if it was deleted.           *)
FailTrigger(r) ==
    /\ trigger[r] = "fail"
    /\ status' = [status EXCEPT ![r] = IF Exists(r) THEN "failed" ELSE @]
    /\ finishedAt' = [finishedAt EXCEPT ![r] = IF Exists(r) THEN now ELSE @]
    /\ trigger' = [trigger EXCEPT ![r] = "done"]
    /\ UNCHANGED <<target, retryOf, createdAt, startedAt, flowId, attempt, launched,
                   stopping, cleanup, prefect, now>>

(* Mutant: the update selects by workflow and object, not by primary key.  *)
MutRecordFlowRun(r) ==
    /\ trigger[r] = "record"
    /\ flowId' = [q \in Run |-> IF target[q] = target[r] THEN launched[r] ELSE flowId[q]]
    /\ launched' = [launched EXCEPT ![r] = NULL]
    /\ trigger' = [trigger EXCEPT ![r] = "done"]
    /\ UNCHANGED <<status, target, retryOf, createdAt, startedAt, finishedAt, attempt,
                   stopping, cleanup, prefect, now>>

RecordFlowRun(r) ==
    /\ trigger[r] = "record"
    /\ flowId' = [flowId EXCEPT ![r] = IF Exists(r) THEN launched[r] ELSE @]
    /\ launched' = [launched EXCEPT ![r] = NULL]
    /\ trigger' = [trigger EXCEPT ![r] = "done"]
    /\ UNCHANGED <<status, target, retryOf, createdAt, startedAt, finishedAt, attempt,
                   stopping, cleanup, prefect, now>>

-----------------------------------------------------------------------------
(* Prefect and the IDPP flows (external).                                  *)

Report(f, s) == sent' = sent \cup {<<f, s>>}

FlowStarts(f) ==
    /\ flow[f] = "live"
    /\ Report(f, "running")
    /\ UNCHANGED <<row, request, stopping, cleanup, flow, owner, now>>

FlowEnds(f, s) ==
    /\ flow[f] \in {"live", "cancelling"}
    /\ flow' = [flow EXCEPT ![f] = "ended"]
    /\ Report(f, s)
    /\ UNCHANGED <<row, request, stopping, cleanup, owner, now>>

(* CancelFlowRun is best effort: Prefect may be out of reach, and a flow   *)
(* that has ended stays as it is.                                          *)
CancelFlowRun(f) ==
    /\ flow' \in {flow, [flow EXCEPT ![f] = IF @ = "live" THEN "cancelling" ELSE @]}
    /\ UNCHANGED <<owner, sent>>

-----------------------------------------------------------------------------
(* HandleCallback: one conditional UPDATE.                                 *)

NormalizeCallbackStatus(s) == IF s = "completed" THEN "success" ELSE s

(* Mutant: only "running" looks at the status the row has.                 *)
MutCallbackAllowedFrom(s) == IF s = "running" THEN Active ELSE Status

CallbackAllowedFrom(s) ==
    IF s \in {"running", "success", "failed"} THEN Active ELSE {}

(* Mutant: started_at is not made up when the flow ends.                   *)
MutNoStartFallback(r, reported) ==
    LET s == NormalizeCallbackStatus(reported) IN
    /\ status[r] \in CallbackAllowedFrom(s)
    /\ status' = [status EXCEPT ![r] = s]
    /\ startedAt' = [startedAt EXCEPT ![r] = IF s = "running" THEN Coalesce(@, now) ELSE @]
    /\ finishedAt' = [finishedAt EXCEPT ![r] = IF s \in Terminal THEN now ELSE @]
    /\ UNCHANGED <<target, retryOf, createdAt, flowId, request, stopping, cleanup,
                   prefect, now>>

HandleCallback(r, reported) ==
    LET s == NormalizeCallbackStatus(reported) IN
    /\ status[r] \in CallbackAllowedFrom(s)
    /\ status' = [status EXCEPT ![r] = s]
    /\ startedAt' = [startedAt EXCEPT ![r] = Coalesce(@, now)]
    /\ finishedAt' = [finishedAt EXCEPT ![r] = IF s \in Terminal THEN now ELSE @]
    /\ UNCHANGED <<target, retryOf, createdAt, flowId, request, stopping, cleanup,
                   prefect, now>>

-----------------------------------------------------------------------------
(* Operators.                                                              *)

(* Mutant: Prefect is told before the row is settled.                      *)
MutCancelWorkflowRun(r) ==
    /\ status[r] \in Active
    /\ stopping' = stopping \cup {r}
    /\ UNCHANGED <<row, request, cleanup, prefect, now>>

CancelWorkflowRun(r) ==
    /\ status[r] \in Active
    /\ status' = [status EXCEPT ![r] = "cancelled"]
    /\ finishedAt' = [finishedAt EXCEPT ![r] = now]
    /\ stopping' = stopping \cup {r}
    /\ UNCHANGED <<target, retryOf, createdAt, startedAt, flowId, request, cleanup,
                   prefect, now>>

ForceTerminateWorkflowRun(r) ==
    /\ status[r] \in Active
    /\ Since(r) + ZombieAge <= now
    /\ status' = [status EXCEPT ![r] = "failed"]
    /\ finishedAt' = [finishedAt EXCEPT ![r] = now]
    /\ stopping' = stopping \cup {r}
    /\ UNCHANGED <<target, retryOf, createdAt, startedAt, flowId, request, cleanup,
                   prefect, now>>

(* The second half of both requests reads the id the row holds by now.     *)
CancelPrefectFlowRun(r) ==
    /\ r \in stopping
    /\ stopping' = stopping \ {r}
    /\ IF PrefectEnabled /\ Exists(r) /\ flowId[r] # NULL
         THEN CancelFlowRun(flowId[r])
         ELSE UNCHANGED prefect
    /\ UNCHANGED <<row, request, cleanup, now>>

-----------------------------------------------------------------------------
(* CleanupWorkflowRuns.  The filters (date, key, node, document) compare   *)
(* columns that never change: together they are a set of runs, the scope.  *)

HasActiveStatus(p) == p.status \cap Active # {}
Sweeping(p) == HasActiveStatus(p) /\ (p.forceCleanupActive \/ p.includeZombie)

(* The rows of the active query (force) or of the zombie query.            *)
Swept(p, scope, cutoff) ==
    {r \in scope : /\ status[r] \in Active
                   /\ p.forceCleanupActive \/ Since(r) + ZombieAge < cutoff}

(* Mutant: the requested statuses are not restricted to terminal ones.     *)
MutPurged(p, scope) == {r \in scope : status[r] \in p.status}

Purged(p, scope) == {r \in scope : status[r] \in p.status \cap Terminal}

(* DELETE, with retry_of_id ON DELETE SET NULL.                            *)
Delete(R) ==
    LET Clear(col) == [r \in Run |-> IF r \in R THEN NULL ELSE col[r]] IN
    /\ status' = [r \in Run |-> IF r \in R THEN "deleted" ELSE status[r]]
    /\ target' = Clear(target)
    /\ retryOf' = [r \in Run |-> IF r \in R \/ retryOf[r] \in R THEN NULL
                                 ELSE retryOf[r]]
    /\ createdAt' = Clear(createdAt)
    /\ startedAt' = Clear(startedAt)
    /\ finishedAt' = Clear(finishedAt)
    /\ flowId' = Clear(flowId)

(* Checks the parameters; if active rows are asked for, collects the flow  *)
(* ids that the next steps will cancel.                                    *)
CleanupBegin(p, scope) ==
    /\ cleanup.step = "idle"
    /\ HasActiveStatus(p) => p.includeZombie \/ p.forceCleanupActive
    /\ cleanup' = [IdleCleanup EXCEPT
         !.step = IF Sweeping(p) THEN "stop" ELSE "purge",
         !.params = p,
         !.scope = scope,
         !.ids = IF Sweeping(p) /\ PrefectEnabled
                 THEN {flowId[r] : r \in Swept(p, scope, now)} \ {NULL} ELSE {},
         !.cutoff = now]
    /\ UNCHANGED <<row, request, stopping, prefect, now>>

CleanupCancelFlow(f) ==
    /\ cleanup.step = "stop"
    /\ f \in cleanup.ids
    /\ cleanup' = [cleanup EXCEPT !.ids = @ \ {f}]
    /\ CancelFlowRun(f)
    /\ UNCHANGED <<row, request, stopping, now>>

(* Runs the query again: force deletes what it finds now, the zombie       *)
(* clean-up marks it failed.                                               *)
CleanupSweep ==
    LET p == cleanup.params
        R == Swept(p, cleanup.scope, cleanup.cutoff) IN
    /\ cleanup.step = "stop"
    /\ cleanup.ids = {}
    /\ IF p.forceCleanupActive
         THEN Delete(R)
         ELSE /\ status' = [r \in Run |-> IF r \in R THEN "failed" ELSE status[r]]
              /\ finishedAt' = [r \in Run |-> IF r \in R THEN now ELSE finishedAt[r]]
              /\ UNCHANGED <<target, retryOf, createdAt, startedAt, flowId>>
    /\ cleanup' = [cleanup EXCEPT
         !.step = "purge",
         !.count = Cardinality(R)]
    /\ UNCHANGED <<request, stopping, prefect, now>>

CleanupPurge ==
    LET R == Purged(cleanup.params, cleanup.scope) IN
    /\ cleanup.step = "purge"
    /\ Delete(R)
    /\ cleanup' = [cleanup EXCEPT !.step = "reply",
                                  !.count = @ + Cardinality(R)]
    /\ UNCHANGED <<request, stopping, prefect, now>>

(* The response, or the early return when the next statement fails.        *)
CleanupReturn ==
    /\ cleanup.step # "idle"
    /\ cleanup.ids = {}
    /\ cleanup' = IdleCleanup
    /\ UNCHANGED <<row, request, stopping, prefect, now>>

-----------------------------------------------------------------------------
(* The environment.                                                        *)

(* The process dies: committed rows stay, every request in flight is lost. *)
Crash ==
    /\ MayCrash
    /\ trigger' = [r \in Run |-> IF InFlight(r) THEN "done" ELSE trigger[r]]
    /\ launched' = [r \in Run |-> NULL]
    /\ stopping' = {}
    /\ cleanup' = IdleCleanup
    /\ UNCHANGED <<row, attempt, prefect, now>>

Tick == /\ now < MaxTime
        /\ now' = now + 1
        /\ UNCHANGED <<row, request, stopping, cleanup, prefect>>

Trigger(r) ==
    \/ FindDeployment(r) \/ RetryFlowRun(r) \/ GiveUpFlowRun(r)
    \/ \E f \in Flow : CreateFlowRun(r, f)
    \/ FailTrigger(r) \/ RecordFlowRun(r)

Next ==
    \/ \E r \in Run, t \in Target, src \in Run \cup {NULL} : CreateRun(r, t, src)
    \/ \E r \in Run : \/ Trigger(r)
                      \/ CancelWorkflowRun(r)
                      \/ ForceTerminateWorkflowRun(r)
                      \/ CancelPrefectFlowRun(r)
    \/ \E f \in Flow : \/ FlowStarts(f)
                       \/ \E s \in FinalReport : FlowEnds(f, s)
    \/ \E m \in sent : HandleCallback(owner[m[1]], m[2])
    \/ \E p \in CleanupRequests, scope \in SUBSET Run : CleanupBegin(p, scope)
    \/ \E f \in Flow : CleanupCancelFlow(f)
    \/ CleanupSweep \/ CleanupPurge \/ CleanupReturn
    \/ Crash
    \/ Tick

Spec == Init /\ [][Next]_vars

(* The Go scheduler runs every request, and each HTTP call has a timeout.  *)
FairSpec == Spec /\ \A r \in Run : WF_vars(Trigger(r))

-----------------------------------------------------------------------------
Time == 0..MaxTime

TypeOK ==
    /\ status \in [Run -> {"none", "deleted"} \cup Status]
    /\ target \in [Run -> Target \cup {NULL}]
    /\ retryOf \in [Run -> Run \cup {NULL}]
    /\ createdAt \in [Run -> Time \cup {NULL}]
    /\ startedAt \in [Run -> Time \cup {NULL}]
    /\ finishedAt \in [Run -> Time \cup {NULL}]
    /\ flowId \in [Run -> Flow \cup {NULL}]
    /\ trigger \in [Run -> TriggerStep]
    /\ attempt \in [Run -> 0..MaxRetries]
    /\ launched \in [Run -> Flow \cup {NULL}]
    /\ stopping \subseteq Run
    /\ cleanup \in [step : {"idle", "stop", "purge", "reply"},
                     params : CleanupParams \cup {NULL},
                     scope : SUBSET Run, ids : SUBSET Flow,
                     cutoff : Time, count : Nat]
    /\ flow \in [Flow -> {"unborn", "live", "cancelling", "ended"}]
    /\ owner \in [Flow -> Run \cup {NULL}]
    /\ sent \subseteq Flow \X ({"running"} \cup FinalReport)
    /\ now \in Time

(* The timestamps tell the same story as the status, whichever handler     *)
(* wrote last: a run has finished_at exactly when it is settled, and one   *)
(* that runs or succeeded has started_at even if the "running" callback    *)
(* was lost or arrived late (workflow.go:784-793).                         *)
TimesMatchStatus ==
    \A r \in Run : Exists(r) =>
        /\ status[r] \in Terminal <=> finishedAt[r] # NULL
        /\ status[r] \in {"running", "success"} => startedAt[r] # NULL
        /\ createdAt[r] # NULL

(* The id a row holds is one of its own flow runs, although several may    *)
(* have been started for it and requests of other runs are interleaved:    *)
(* cancelling a run never stops the flow of another.                       *)
RecordedFlowIsOwn ==
    \A r \in Run : flowId[r] # NULL =>
        owner[flowId[r]] = r /\ flow[flowId[r]] # "unborn"

(* A retry points to an existing run of the same workflow and object,      *)
(* whatever clean-ups delete meanwhile.                                    *)
RetryLinkSound ==
    \A r \in Run : retryOf[r] # NULL =>
        /\ Exists(r) /\ Exists(retryOf[r])
        /\ target[retryOf[r]] = target[r]
        /\ createdAt[retryOf[r]] <= createdAt[r]

(* What a row points to is its own, for cancelling and for retrying.       *)
LinksSound == RecordedFlowIsOwn /\ RetryLinkSound

(* Requests that cancel settle the row before they tell Prefect: a flow    *)
(* that was told to stop never belongs to a run still shown as active.     *)
(* (Checked where no clean-up sweeps active runs: that one tells Prefect   *)
(* first.)                                                                 *)
StoppedRunSettled ==
    \A f \in Flow : flow[f] = "cancelling" => ~IsActive(owner[f])

(* A verdict stands: callbacks that are late, repeated or out of order     *)
(* never reopen a settled run nor change its verdict; only the request     *)
(* that launched the run may still turn it into "failed", and only a       *)
(* clean-up removes it.                                                    *)
KeepsVerdict(r) ==
    status[r] \in Terminal /\ status'[r] # status[r] =>
        \/ status'[r] = "deleted"
        \/ status'[r] = "failed" /\ trigger[r] = "fail"
VerdictStands == [][\A r \in Run : KeepsVerdict(r)]_vars

(* started_at is written once, by whichever report arrives first.          *)
KeepsStart(r) ==
    startedAt[r] # NULL /\ status'[r] # "deleted" => startedAt'[r] = startedAt[r]
StartedOnce == [][\A r \in Run : KeepsStart(r)]_vars

(* What was said of a run is not taken back: neither verdict nor start.    *)
HistoryStands == VerdictStands /\ StartedOnce

(* A clean-up removes an active row only when it was asked to force.       *)
SparesActive(r) ==
    IsActive(r) /\ status'[r] = "deleted" => cleanup.params.forceCleanupActive
CleanupSparesActive == [][\A r \in Run : SparesActive(r)]_vars

(* If the process does not die, a triggered run either gets its flow id    *)
(* recorded or is settled: no failure path forgets it as pending.          *)
LaunchResolves ==
    \A r \in Run : trigger[r] = "lookup" ~> (flowId[r] # NULL \/ ~IsActive(r))

(* The row a client polls behaves as RunLifecycle promises.                *)
Lifecycle == INSTANCE RunLifecycle WITH launching <- {r \in Run : InFlight(r)}
LifecycleSpec == Lifecycle!LSpec
=============================================================================
