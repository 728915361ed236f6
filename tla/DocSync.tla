------------------------------- MODULE DocSync -------------------------------
(***************************************************************************)
(* The synchronisation of one document to MySQL (internal/service/sync.go).*)
(* Its doc_sync_statuses row names the last event, and every event has a   *)
(* workflow_runs row of its own: two tables that requests, callbacks and   *)
(* status queries write in separate statements.  No statement touches the  *)
(* row of another document, so one document is enough.                     *)
(*                                                                         *)
(* A trigger request, the event id it generates and the workflow run it    *)
(* inserts are one element of Event.  Statements of the database succeed,  *)
(* except the transaction that creates an event.                           *)
(***************************************************************************)
EXTENDS Naturals, FiniteSets

CONSTANTS
    Event,
    Handler,          \* callbacks served at the same time
    Poller,           \* status queries served at the same time
    NULL,
    PrefectEnabled,
    Reports,          \* statuses IDPP sends
    MaxCrashes

Results   == {"success", "failed", "skipped"}
SyncValue == {"pending"} \cup Results           \* isValidSyncStatus
RunActive   == {"pending"}
RunTerminal == {"success", "failed", "cancelled"}

ASSUME SyncAssumption ==
    /\ NULL \notin Event \cup SyncValue
    /\ PrefectEnabled \in BOOLEAN
    /\ Reports \subseteq SyncValue
    /\ MaxCrashes \in Nat

VARIABLES
    event, result,  \* last_event_id and last_status; event is NULL before the insert
    aged,           \* a minute has passed since updated_at
    writer,         \* history: who wrote result, and for which event
    run,            \* status of the workflow_runs row of each event
    step, expired,  \* each trigger request: what it does next, what it timed out
    handler,        \* each callback request: what it does next, what it read
    polling,        \* status queries that have read a pending row past its minute
    flows, sent,    \* events Prefect started a flow for, and what those send
    crossed,        \* history: events two requests were ending at once, differently
    crashes

table   == <<event, result, aged, writer>>
trigger == <<step, expired>>
idpp    == <<flows, sent, crossed>>
vars    == <<table, run, trigger, handler, polling, idpp, crashes>>

Idle == [step |-> "idle", event |-> NULL, report |-> NULL]

Init ==
    /\ event = NULL /\ result = NULL /\ aged = FALSE
    /\ writer = [by |-> NULL, event |-> NULL]
    /\ run = [e \in Event |-> "none"]
    /\ step = [e \in Event |-> "idle"]
    /\ expired = [e \in Event |-> NULL]
    /\ handler = [h \in Handler |-> Idle]
    /\ polling = {}
    /\ flows = {} /\ sent = {} /\ crossed = {}
    /\ crashes = 0

Goto(e, s) == step' = [step EXCEPT ![e] = s]

(* A statement that writes last_status; GORM moves updated_at with it.     *)
Write(r, by, e) ==
    /\ result' = r
    /\ aged' = FALSE
    /\ writer' = [by |-> by, event |-> e]
    /\ UNCHANGED event

(* Mutant: the status is not part of the condition.                        *)
MutWriteIfPending(r, by, e) ==
    IF event = e THEN Write(r, by, e) ELSE UNCHANGED table

(* ... WHERE last_event_id = e AND last_status = 'pending'.                *)
WriteIfPending(r, by, e) ==
    IF event = e /\ result = "pending" THEN Write(r, by, e) ELSE UNCHANGED table

RunExists(e) == run[e] \in RunActive \cup RunTerminal
SetRun(e, s) == run' = [run EXCEPT ![e] = IF RunExists(e) THEN s ELSE @]

-----------------------------------------------------------------------------
(* TriggerSync.                                                            *)

(* Reads the row.  A request that finds a sync in progress returns it.     *)
BeginTrigger(e) ==
    /\ step[e] = "idle"
    /\ IF result = "pending"
         THEN IF aged THEN /\ Goto(e, "expireRow")
                           /\ expired' = [expired EXCEPT ![e] = event]
                      ELSE Goto(e, "done") /\ UNCHANGED expired
         ELSE Goto(e, "create") /\ UNCHANGED expired
    /\ UNCHANGED <<table, run, handler, polling, idpp, crashes>>

(* markSyncTimeout: one conditional update per table.                      *)
ExpireRow(e) ==
    /\ step[e] = "expireRow"
    /\ WriteIfPending("failed", "timeout", expired[e])
    /\ Goto(e, "expireRun")
    /\ UNCHANGED <<run, expired, handler, polling, idpp, crashes>>

ExpireRun(e) ==
    /\ step[e] = "expireRun"
    /\ run' = [run EXCEPT ![expired[e]] = IF @ \in RunActive THEN "failed" ELSE @]
    /\ Goto(e, "create")
    /\ UNCHANGED <<table, expired, handler, polling, idpp, crashes>>

(* The transaction that inserts the run and takes over the row; it may be  *)
(* rolled back, for instance when two requests insert the row.             *)
CreateEvent(e) ==
    /\ step[e] = "create"
    /\ event' = e
    /\ result' = "pending"
    /\ aged' = FALSE
    /\ writer' = [by |-> "trigger", event |-> e]
    /\ run' = [run EXCEPT ![e] = "pending"]
    /\ Goto(e, IF PrefectEnabled THEN "lookup" ELSE "done")
    /\ UNCHANGED <<expired, handler, polling, idpp, crashes>>

CreateFails(e) ==
    /\ step[e] = "create"
    /\ Goto(e, "done")
    /\ UNCHANGED <<table, run, expired, handler, polling, idpp, crashes>>

FindDeployment(e) ==
    /\ step[e] = "lookup"
    /\ \E next \in {"launch", "lookupFailed"} : Goto(e, next)
    /\ UNCHANGED <<table, run, expired, handler, polling, idpp, crashes>>

FailLookup(e) ==
    /\ step[e] = "lookupFailed"
    /\ WriteIfPending("failed", "lookup", e)
    /\ Goto(e, "done")
    /\ UNCHANGED <<run, expired, handler, polling, idpp, crashes>>

(* CreateFlowRun, with its retries: a flow may exist even when the client  *)
(* reports an error.                                                       *)
CreateFlowRun(e) ==
    /\ step[e] = "launch"
    /\ \/ flows' = flows \cup {e} /\ Goto(e, "record")
       \/ flows' \in {flows, flows \cup {e}} /\ Goto(e, "launchFailed")
    /\ UNCHANGED <<table, run, expired, handler, polling, sent, crossed, crashes>>

RecordFlowRun(e) ==
    /\ step[e] = "record"
    /\ WriteIfPending("pending", "trigger", e)
    /\ Goto(e, "done")
    /\ UNCHANGED <<run, expired, handler, polling, idpp, crashes>>

FailLaunchRow(e) ==
    /\ step[e] = "launchFailed"
    /\ WriteIfPending("failed", "launch", e)
    /\ Goto(e, "failRun")
    /\ UNCHANGED <<run, expired, handler, polling, idpp, crashes>>

FailLaunchRun(e) ==
    /\ step[e] = "failRun"
    /\ SetRun(e, "failed")
    /\ Goto(e, "done")
    /\ UNCHANGED <<table, expired, handler, polling, idpp, crashes>>

Trigger(e) ==
    \/ BeginTrigger(e) \/ ExpireRow(e) \/ ExpireRun(e)
    \/ CreateEvent(e) \/ CreateFails(e) \/ FindDeployment(e) \/ FailLookup(e)
    \/ CreateFlowRun(e) \/ RecordFlowRun(e) \/ FailLaunchRow(e) \/ FailLaunchRun(e)

-----------------------------------------------------------------------------
(* IDPP (external).  Messages may be lost, repeated and reordered.         *)

Report(e, s) ==
    /\ e \in flows
    /\ sent' = sent \cup {<<e, s>>}
    /\ UNCHANGED <<table, run, trigger, handler, polling, flows, crossed, crashes>>

-----------------------------------------------------------------------------
(* HandleSyncCallback: reads the row and checks it, then writes it by      *)
(* primary key, then writes the workflow run whose id it has read.         *)

(* Another request that has not returned ends e otherwise than with s.     *)
Crosses(e, s) ==
    \/ step[e] \in {"launchFailed", "failRun"} /\ s # "failed"
    \/ \E h \in Handler : /\ handler[h].step # "idle"
                         /\ handler[h].event = e /\ handler[h].report # s

BeginCallback(h, e, s) ==
    /\ handler[h].step = "idle"
    /\ event = e
    /\ result = "pending"
    /\ handler' = [handler EXCEPT ![h] = [step |-> "row", event |-> e, report |-> s]]
    /\ crossed' = crossed \cup (IF Crosses(e, s) THEN {e} ELSE {})
    /\ UNCHANGED <<table, run, trigger, polling, flows, sent, crashes>>

RunStatusOf(report) ==
    CASE report = "failed"  -> "failed"
      [] report = "skipped" -> "cancelled"
      [] OTHER              -> "success"

WriteResult(h) ==
    /\ handler[h].step = "row"
    /\ Write(handler[h].report, "callback", handler[h].event)
    /\ handler' = [handler EXCEPT ![h].step = "run"]
    /\ UNCHANGED <<run, trigger, polling, idpp, crashes>>

(* Mutant: the run is the one the row names by now.                        *)
MutWriteRun(h) ==
    /\ handler[h].step = "run"
    /\ SetRun(event, RunStatusOf(handler[h].report))
    /\ handler' = [handler EXCEPT ![h] = Idle]
    /\ UNCHANGED <<table, trigger, polling, idpp, crashes>>

(* Mutant: only an active run is given its verdict.                        *)
MutWriteRunIfActive(h) ==
    /\ handler[h].step = "run"
    /\ LET e == handler[h].event IN
         run' = [run EXCEPT ![e] = IF @ \in RunActive THEN RunStatusOf(handler[h].report)
                                                     ELSE @]
    /\ handler' = [handler EXCEPT ![h] = Idle]
    /\ UNCHANGED <<table, trigger, polling, idpp, crashes>>

WriteRun(h) ==
    /\ handler[h].step = "run"
    /\ SetRun(handler[h].event, RunStatusOf(handler[h].report))
    /\ handler' = [handler EXCEPT ![h] = Idle]
    /\ UNCHANGED <<table, trigger, polling, idpp, crashes>>

-----------------------------------------------------------------------------
(* GetSyncStatus: a pending row past its minute is written off.            *)

(* Mutant: only a sync that reached Prefect is written off.                *)
MutBeginPoll(p) ==
    /\ p \notin polling
    /\ result = "pending" /\ aged /\ event \in flows
    /\ polling' = polling \cup {p}
    /\ UNCHANGED <<table, run, trigger, handler, idpp, crashes>>

BeginPoll(p) ==
    /\ p \notin polling
    /\ result = "pending" /\ aged
    /\ polling' = polling \cup {p}
    /\ UNCHANGED <<table, run, trigger, handler, idpp, crashes>>

WriteTimeout(p) ==
    /\ p \in polling
    /\ Write("failed", "poll", event)
    /\ polling' = polling \ {p}
    /\ UNCHANGED <<run, trigger, handler, idpp, crashes>>

-----------------------------------------------------------------------------
(* What the rest of the system does to the runs: operators cancel and      *)
(* terminate them, clean-ups mark or remove them (module WorkflowRun).     *)

SettleRun(e) ==
    /\ run[e] \in RunActive
    /\ \E s \in {"cancelled", "failed"} : run' = [run EXCEPT ![e] = s]
    /\ UNCHANGED <<table, trigger, handler, polling, idpp, crashes>>

RemoveRun(e) ==
    /\ RunExists(e)
    /\ run' = [run EXCEPT ![e] = "deleted"]
    /\ UNCHANGED <<table, trigger, handler, polling, idpp, crashes>>

MinutePasses ==
    /\ event # NULL /\ ~aged
    /\ aged' = TRUE
    /\ UNCHANGED <<event, result, writer, run, trigger, handler, polling, idpp, crashes>>

(* Every request in flight is lost; those not yet received are not.        *)
Crash ==
    /\ crashes < MaxCrashes
    /\ crashes' = crashes + 1
    /\ step' = [e \in Event |-> IF step[e] = "idle" THEN "idle" ELSE "done"]
    /\ handler' = [h \in Handler |-> Idle]
    /\ polling' = {}
    /\ UNCHANGED <<table, run, expired, idpp>>

Next ==
    \/ \E e \in Event : \/ Trigger(e) \/ SettleRun(e) \/ RemoveRun(e)
                        \/ \E s \in Reports : Report(e, s)
    \/ \E h \in Handler : \/ \E m \in sent : BeginCallback(h, m[1], m[2])
                          \/ WriteResult(h) \/ WriteRun(h)
    \/ \E p \in Poller : BeginPoll(p) \/ WriteTimeout(p)
    \/ MinutePasses
    \/ Crash

Spec == Init /\ [][Next]_vars

(* Requests that were received are served, time passes, and someone keeps  *)
(* asking for the status.                                                  *)
FairSpec ==
    /\ Spec
    /\ \A e \in Event : WF_vars(step[e] # "idle" /\ Trigger(e))
    /\ \A h \in Handler : WF_vars(WriteResult(h) \/ WriteRun(h))
    /\ \A p \in Poller : WF_vars(BeginPoll(p) \/ WriteTimeout(p))
    /\ WF_vars(MinutePasses)

-----------------------------------------------------------------------------
TypeOK ==
    /\ event \in Event \cup {NULL}
    /\ result \in SyncValue \cup {NULL}
    /\ aged \in BOOLEAN
    /\ writer \in [by : {NULL, "trigger", "lookup", "launch", "timeout", "callback", "poll"},
                   event : Event \cup {NULL}]
    /\ run \in [Event -> {"none", "deleted"} \cup RunActive \cup RunTerminal]
    /\ step \in [Event -> {"idle", "expireRow", "expireRun", "create", "lookup",
                           "lookupFailed", "launch", "record", "launchFailed",
                           "failRun", "done"}]
    /\ expired \in [Event -> Event \cup {NULL}]
    /\ handler \in [Handler -> [step : {"idle", "row", "run"}, event : Event \cup {NULL},
                                report : Reports \cup {NULL}]]
    /\ polling \subseteq Poller
    /\ flows \subseteq Event
    /\ sent \subseteq flows \X Reports
    /\ crossed \subseteq Event
    /\ crashes \in 0..MaxCrashes

(* The launching request and the time-out it may apply never overwrite the *)
(* answer of a callback, nor write the row of another event: between two   *)
(* changes of event, only a callback or a status query that had read       *)
(* "pending" changes a row that is pending no more (sync.go:522-526).      *)
KeepsResult ==
    result # "pending" /\ result' # result /\ event' = event =>
        \/ \E h \in Handler : handler[h].step = "row"
        \/ polling # {}
ResultStands == [][KeepsResult]_vars

(* The verdict of a run stands too, against time-outs that come late and   *)
(* clean-ups of its event: only a callback that passed the event check for *)
(* it, or its own launcher giving up, still replaces it (sync.go:492-501). *)
KeepsRunVerdict(e) ==
    run[e] \in RunTerminal /\ run'[e] \notin {run[e], "deleted"} =>
        \/ \E h \in Handler : handler[h].step = "run" /\ handler[h].event = e
        \/ step[e] = "failRun"
RunVerdictStands == [][\A e \in Event : KeepsRunVerdict(e)]_vars

(* In neither table is what has ended overwritten.                         *)
VerdictsStand == ResultStands /\ RunVerdictStands

(* A run is shown as successful only if a flow of that very event reported *)
(* success, whatever event the document is at by now.                      *)
SuccessIsReported ==
    \A e \in Event : run[e] = "success" => <<e, "success">> \in sent

(* With no request in flight, the two tables give the last event the same  *)
(* end if a callback, a failed launch or the time-out of the next request  *)
(* wrote it, whoever else cancelled, timed out or removed the run.  Not if *)
(* a request was lost, if IDPP sent "pending", which sets the run to       *)
(* success, or if two requests that ended the event differently crossed:   *)
(* the writes of two callbacks to the two tables may come in opposite      *)
(* orders (sync.go:354-382), and so may those of a callback and of the     *)
(* launcher that gives up a flow which had started (sync.go:277-287).      *)
Quiescent == /\ \A e \in Event : step[e] \in {"idle", "done"}
             /\ \A h \in Handler : handler[h].step = "idle"
             /\ polling = {}

Undisturbed == /\ crashes = 0
               /\ \A e \in Event : <<e, "pending">> \notin sent
               /\ event \notin crossed

SameEnd == {<<"success", "success">>, <<"failed", "failed">>, <<"skipped", "cancelled">>}

Agrees(e) ==
    \/ <<result, run[e]>> \in SameEnd
    \/ run[e] = "deleted"
    \/ writer.by = "timeout" /\ run[e] = "cancelled"     \* an operator was first

TablesInStep ==
    /\ Quiescent /\ Undisturbed
    /\ result \in Results
    /\ writer.event = event
    /\ writer.by \in {"callback", "launch", "timeout"}
    => Agrees(event)

(* A status query that finds a sync in time-out never writes off what a    *)
(* callback has answered (sync.go:405).                                    *)
TimeoutSparesResult ==
    [][\A p \in Poller : p \in polling /\ p \notin polling' => writer.by # "callback"]_vars

(* A sync that stays pending, because a callback was lost or the process   *)
(* died, is written off if someone keeps asking.                           *)
PendingEnds == result = "pending" ~> result # "pending"
=============================================================================
