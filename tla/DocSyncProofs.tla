---------------------------- MODULE DocSyncProofs ----------------------------
(***************************************************************************)
(* Proofs about DocSync, for any number of events, of callbacks and status *)
(* queries in flight, and of crashes.                                      *)
(***************************************************************************)
EXTENDS DocSync, TLAPS

(* What the requests in flight know: the event a callback or a time-out    *)
(* works on exists, and callbacks were really sent.                        *)
Knowledge ==
    /\ result # NULL \/ polling # {} => event # NULL
    /\ \A e \in Event : step[e] \in {"expireRow", "expireRun"} => expired[e] \in Event
    /\ \A h \in Handler : handler[h].step # "idle" =>
           /\ event # NULL
           /\ <<handler[h].event, handler[h].report>> \in sent

Base == TypeOK /\ Knowledge

LEMMA InitBase == Init => Base
<1> SUFFICES ASSUME Init PROVE Base
  OBVIOUS
<1>1. TypeOK
  <2>1. crashes \in 0..MaxCrashes
    BY SyncAssumption DEF Init
  <2>2. /\ flows \subseteq Event /\ sent \subseteq flows \X Reports /\ polling \subseteq Poller
        /\ result \in SyncValue \cup {NULL} /\ event \in Event \cup {NULL} /\ aged \in BOOLEAN
    BY DEF Init
  <2>3. handler \in [Handler -> [step : {"idle", "row", "run"}, event : Event \cup {NULL},
                                 report : Reports \cup {NULL}]]
    BY DEF Init, Idle
  <2>4. QED BY <2>1, <2>2, <2>3 DEF Init, TypeOK
<1>2. Knowledge
  BY SyncAssumption DEF Init, Knowledge, Idle, SyncValue
<1>3. QED BY <1>1, <1>2 DEF Base

(* The statements on doc_sync_statuses keep its types.                     *)
LEMMA WriteType ==
    ASSUME TypeOK, NEW r \in SyncValue,
           NEW by \in {"trigger", "lookup", "launch", "timeout", "callback", "poll"},
           NEW e \in Event \cup {NULL},
           Write(r, by, e) \/ WriteIfPending(r, by, e)
    PROVE  /\ event' = event
           /\ result' \in SyncValue \cup {NULL} /\ aged' \in BOOLEAN
           /\ writer' \in [by : {NULL, "trigger", "lookup", "launch", "timeout",
                                 "callback", "poll"}, event : Event \cup {NULL}]
           /\ result' # result => Write(r, by, e)
           /\ result' # NULL => result # NULL \/ Write(r, by, e)
           /\ WriteIfPending(r, by, e) => (result' # NULL => result # NULL)
<1>1. CASE Write(r, by, e)
  BY <1>1, SyncAssumption DEF TypeOK, Write, WriteIfPending, SyncValue, table
<1>2. CASE ~Write(r, by, e)
  <2>1. UNCHANGED table
    BY <1>2 DEF WriteIfPending
  <2>2. QED BY <1>2, <2>1 DEF TypeOK, table
<1>3. QED BY <1>1, <1>2

LEMMA StepBase == Base /\ [Next]_vars => Base'
<1> SUFFICES ASSUME Base, [Next]_vars PROVE Base'
  OBVIOUS
<1> USE SyncAssumption DEF Base, Goto, idpp, trigger
<1>1. ASSUME NEW e \in Event, BeginTrigger(e) PROVE Base'
  BY <1>1 DEF BeginTrigger, TypeOK, Knowledge, table, SyncValue
<1>2. ASSUME NEW e \in Event, ExpireRow(e) PROVE Base'
  <2>1. expired[e] \in Event /\ "failed" \in SyncValue
    BY <1>2 DEF ExpireRow, TypeOK, Knowledge, SyncValue, Results
  <2>2. WriteIfPending("failed", "timeout", expired[e])
    BY <1>2 DEF ExpireRow
  <2>3. /\ event' = event
        /\ result' \in SyncValue \cup {NULL} /\ aged' \in BOOLEAN
        /\ writer' \in [by : {NULL, "trigger", "lookup", "launch", "timeout",
                              "callback", "poll"}, event : Event \cup {NULL}]
        /\ result' # NULL => result # NULL
    BY <2>1, <2>2, WriteType
  <2>4. QED BY <1>2, <2>1, <2>3 DEF ExpireRow, TypeOK, Knowledge
<1>3. ASSUME NEW e \in Event, ExpireRun(e) PROVE Base'
  BY <1>3 DEF ExpireRun, TypeOK, Knowledge, table, RunActive, RunTerminal
<1>4. ASSUME NEW e \in Event, CreateEvent(e) PROVE Base'
  BY <1>4 DEF CreateEvent, TypeOK, Knowledge, RunActive, SyncValue
<1>5. ASSUME NEW e \in Event, CreateFails(e) \/ FindDeployment(e) PROVE Base'
  BY <1>5 DEF CreateFails, FindDeployment, TypeOK, Knowledge, table
<1>6. ASSUME NEW e \in Event, NEW by \in {"lookup", "launch"},
             WriteIfPending("failed", by, e), Goto(e, "done") \/ Goto(e, "failRun"),
             UNCHANGED <<run, expired, handler, polling, idpp, crashes>>
      PROVE  Base'
  <2>1. /\ event' = event
        /\ result' \in SyncValue \cup {NULL} /\ aged' \in BOOLEAN
        /\ writer' \in [by : {NULL, "trigger", "lookup", "launch", "timeout",
                              "callback", "poll"}, event : Event \cup {NULL}]
        /\ result' # NULL => result # NULL
    BY <1>6, WriteType DEF SyncValue, Results
  <2>2. QED BY <1>6, <2>1 DEF TypeOK, Knowledge
<1>7. ASSUME NEW e \in Event, CreateFlowRun(e) PROVE Base'
  BY <1>7 DEF CreateFlowRun, TypeOK, Knowledge, table
<1>8. ASSUME NEW e \in Event, RecordFlowRun(e) PROVE Base'
  <2>1. /\ event' = event
        /\ result' \in SyncValue \cup {NULL} /\ aged' \in BOOLEAN
        /\ writer' \in [by : {NULL, "trigger", "lookup", "launch", "timeout",
                              "callback", "poll"}, event : Event \cup {NULL}]
    BY <1>8, WriteType DEF RecordFlowRun, SyncValue
  <2>2. result' = result
    BY <1>8 DEF RecordFlowRun, WriteIfPending, Write, table
  <2>3. QED BY <1>8, <2>1, <2>2 DEF RecordFlowRun, TypeOK, Knowledge
<1>9. ASSUME NEW e \in Event, FailLaunchRun(e) PROVE Base'
  BY <1>9 DEF FailLaunchRun, SetRun, TypeOK, Knowledge, table, RunActive, RunTerminal
<1>10. ASSUME NEW e \in Event, NEW s \in Reports, Report(e, s) PROVE Base'
  BY <1>10 DEF Report, TypeOK, Knowledge, table
<1>11. ASSUME NEW h \in Handler, NEW m \in sent, BeginCallback(h, m[1], m[2]) PROVE Base'
  <2>1. m[1] \in Event /\ m[2] \in Reports /\ m = <<m[1], m[2]>>
    BY DEF TypeOK
  <2>2. TypeOK'
    BY <1>11, <2>1 DEF BeginCallback, TypeOK, table
  <2>3. Knowledge'
    BY <1>11, <2>1 DEF BeginCallback, TypeOK, Knowledge, table
  <2>4. QED BY <2>2, <2>3
<1>12. ASSUME NEW h \in Handler, WriteResult(h) PROVE Base'
  <2>1. handler[h].report \in SyncValue /\ handler[h].event \in Event \cup {NULL}
    BY <1>12 DEF WriteResult, TypeOK, Knowledge
  <2>2. /\ event' = event
        /\ result' \in SyncValue \cup {NULL} /\ aged' \in BOOLEAN
        /\ writer' \in [by : {NULL, "trigger", "lookup", "launch", "timeout",
                              "callback", "poll"}, event : Event \cup {NULL}]
    BY <1>12, <2>1, WriteType DEF WriteResult
  <2>3. event # NULL
    BY <1>12 DEF WriteResult, Knowledge
  <2>4. QED BY <1>12, <2>2, <2>3 DEF WriteResult, TypeOK, Knowledge
<1>13. ASSUME NEW h \in Handler, WriteRun(h) PROVE Base'
  <2>1. RunStatusOf(handler[h].report) \in RunTerminal
    BY DEF RunStatusOf, RunTerminal
  <2>2. TypeOK'
    BY <1>13, <2>1 DEF WriteRun, SetRun, TypeOK, table, Idle
  <2>3. Knowledge'
    BY <1>13 DEF WriteRun, TypeOK, Knowledge, table, Idle
  <2>4. QED BY <2>2, <2>3
<1>14. ASSUME NEW p \in Poller, BeginPoll(p) PROVE Base'
  BY <1>14 DEF BeginPoll, TypeOK, Knowledge, table, SyncValue
<1>15. ASSUME NEW p \in Poller, WriteTimeout(p) PROVE Base'
  BY <1>15 DEF WriteTimeout, Write, TypeOK, Knowledge, SyncValue, Results
<1>16. ASSUME NEW e \in Event, SettleRun(e) \/ RemoveRun(e) PROVE Base'
  BY <1>16 DEF SettleRun, RemoveRun, TypeOK, Knowledge, table, RunTerminal
<1>17. CASE MinutePasses
  BY <1>17 DEF MinutePasses, TypeOK, Knowledge
<1>18. CASE Crash
  BY <1>18 DEF Crash, Idle, TypeOK, Knowledge, table
<1>19. CASE UNCHANGED vars
  BY <1>19 DEF vars, TypeOK, Knowledge, table
<1>20. ASSUME NEW e \in Event, FailLookup(e) \/ FailLaunchRow(e) PROVE Base'
  BY <1>20, <1>6 DEF FailLookup, FailLaunchRow
<1>21. QED
  BY <1>1, <1>2, <1>3, <1>4, <1>5, <1>7, <1>8, <1>9, <1>10, <1>11, <1>12, <1>13,
     <1>14, <1>15, <1>16, <1>17, <1>18, <1>19, <1>20
  DEF Next, Trigger

THEOREM BaseCorrect == Spec => []Base
BY InitBase, StepBase, PTL DEF Spec

(* The variables keep their types, and status values of the two tables     *)
(* never mix.                                                              *)
THEOREM TypeCorrect == Spec => []TypeOK
<1>1. Base => TypeOK
  BY DEF Base
<1>2. QED BY BaseCorrect, <1>1, PTL

-----------------------------------------------------------------------------
(* Who may change a result or a verdict.                                   *)

(* A request creates its event, and the event's run, once.                 *)
Fresh == \A e \in Event :
    step[e] \in {"idle", "expireRow", "expireRun", "create"} => run[e] = "none" /\ event # e

LEMMA StepFresh == Base /\ Fresh /\ [Next]_vars => Fresh'
<1> SUFFICES ASSUME Base, Fresh, [Next]_vars PROVE Fresh'
  OBVIOUS
<1> USE DEF Base, Fresh, Goto, RunActive, RunTerminal
<1>1. ASSUME NEW r, NEW by, NEW e, WriteIfPending(r, by, e) PROVE event' = event
  BY <1>1 DEF WriteIfPending, Write, table
<1>2. ASSUME NEW e \in Event, Trigger(e) PROVE Fresh'
  <2>1. CASE BeginTrigger(e)
    BY <2>1 DEF BeginTrigger, table, TypeOK
  <2>2. CASE ExpireRow(e)
    BY <2>2, <1>1 DEF ExpireRow, TypeOK
  <2>3. CASE ExpireRun(e)
    BY <2>3 DEF ExpireRun, table, TypeOK
  <2>4. CASE CreateEvent(e)
    BY <2>4 DEF CreateEvent, TypeOK
  <2>5. CASE CreateFails(e) \/ FindDeployment(e)
    BY <2>5 DEF CreateFails, FindDeployment, table, TypeOK
  <2>6. CASE FailLookup(e) \/ RecordFlowRun(e) \/ FailLaunchRow(e)
    BY <2>6, <1>1 DEF FailLookup, RecordFlowRun, FailLaunchRow, TypeOK
  <2>7. CASE CreateFlowRun(e)
    BY <2>7 DEF CreateFlowRun, table, TypeOK
  <2>8. CASE FailLaunchRun(e)
    BY <2>8 DEF FailLaunchRun, SetRun, table, TypeOK
  <2>9. QED
    BY <1>2, <2>1, <2>2, <2>3, <2>4, <2>5, <2>6, <2>7, <2>8 DEF Trigger
<1>3. ASSUME NEW h \in Handler, WriteRun(h) PROVE Fresh'
  BY <1>3 DEF WriteRun, SetRun, RunExists, table, trigger, TypeOK
<1>4. ASSUME NEW e \in Event, SettleRun(e) \/ RemoveRun(e) PROVE Fresh'
  BY <1>4 DEF SettleRun, RemoveRun, RunExists, table, trigger, TypeOK
<1>5. CASE Crash
  BY <1>5 DEF Crash, table, TypeOK
<1>6. CASE UNCHANGED <<event, run, trigger>>
  BY <1>6 DEF trigger
<1>7. QED
  BY <1>2, <1>3, <1>4, <1>5, <1>6
  DEF Next, Report, BeginCallback, WriteResult, Write, BeginPoll, WriteTimeout,
      MinutePasses, vars, table

LEMMA InitFresh == Init => Fresh
BY SyncAssumption DEF Init, Fresh

(* The conditional updates leave a row alone that is pending no more.      *)
LEMMA StepResult == Fresh /\ [Next]_vars => [KeepsResult]_vars
<1> SUFFICES ASSUME Fresh, [Next]_vars, result # "pending", result' # result,
                    event' = event
             PROVE  (\E h \in Handler : handler[h].step = "row") \/ polling # {}
  BY DEF KeepsResult
<1>1. ASSUME NEW r, NEW by, NEW e, WriteIfPending(r, by, e) PROVE FALSE
  BY <1>1 DEF WriteIfPending, table
<1>2. ASSUME NEW e \in Event, CreateEvent(e) PROVE FALSE
  BY <1>2 DEF CreateEvent, Fresh
<1>3. QED
  BY <1>1, <1>2
  DEF Next, Trigger, BeginTrigger, ExpireRow, ExpireRun, CreateFails, FindDeployment,
      FailLookup, CreateFlowRun, RecordFlowRun, FailLaunchRow, FailLaunchRun, Report,
      BeginCallback, WriteResult, WriteRun, BeginPoll, WriteTimeout, SettleRun,
      RemoveRun, MinutePasses, Crash, vars, table

(* The launcher and the time-out never overwrite an answer, nor another    *)
(* event's row.                                                            *)
THEOREM ResultCorrect == Spec => ResultStands
BY BaseCorrect, InitFresh, StepFresh, StepResult, PTL DEF Spec, ResultStands

LEMMA StepRun == Base /\ Fresh /\ [Next]_vars => [\A e \in Event : KeepsRunVerdict(e)]_vars
<1> SUFFICES ASSUME Base, Fresh, [Next]_vars, NEW e \in Event,
                    run[e] \in RunTerminal, run'[e] \notin {run[e], "deleted"}
             PROVE  \/ \E h \in Handler : handler[h].step = "run" /\ handler[h].event = e
                    \/ step[e] = "failRun"
  BY DEF KeepsRunVerdict
<1> USE DEF Base, TypeOK, RunTerminal, RunActive
<1>1. ASSUME NEW f \in Event, ExpireRun(f) PROVE FALSE
  BY <1>1 DEF ExpireRun
<1>2. ASSUME NEW f \in Event, CreateEvent(f) PROVE FALSE
  BY <1>2 DEF CreateEvent, Fresh
<1>3. ASSUME NEW f \in Event, FailLaunchRun(f) PROVE step[e] = "failRun"
  BY <1>3 DEF FailLaunchRun, SetRun
<1>4. ASSUME NEW h \in Handler, WriteRun(h)
      PROVE  handler[h].step = "run" /\ handler[h].event = e
  BY <1>4 DEF WriteRun, SetRun
<1>5. ASSUME NEW f \in Event, SettleRun(f) \/ RemoveRun(f) PROVE FALSE
  BY <1>5 DEF SettleRun, RemoveRun
<1>6. QED
  BY <1>1, <1>2, <1>3, <1>4, <1>5
  DEF Next, Trigger, BeginTrigger, ExpireRow, CreateFails, FindDeployment, FailLookup,
      CreateFlowRun, RecordFlowRun, FailLaunchRow, Report, BeginCallback, WriteResult,
      BeginPoll, WriteTimeout, MinutePasses, Crash, vars

(* Late time-outs never replace the verdict of a run.                      *)
THEOREM RunVerdictCorrect == Spec => RunVerdictStands
BY BaseCorrect, InitFresh, StepFresh, StepRun, PTL DEF Spec, RunVerdictStands

(* In neither table is what has ended overwritten.                         *)
THEOREM VerdictsCorrect == Spec => VerdictsStand
BY ResultCorrect, RunVerdictCorrect DEF VerdictsStand

LEMMA StepReported ==
    ASSUME "pending" \notin Reports, Base, SuccessIsReported, [Next]_vars
    PROVE  SuccessIsReported'
<1> SUFFICES ASSUME NEW e \in Event, run'[e] = "success"
             PROVE  <<e, "success">> \in sent'
  BY DEF SuccessIsReported
<1>1. sent \subseteq sent'
  BY DEF Next, Trigger, BeginTrigger, ExpireRow, ExpireRun, CreateEvent, CreateFails,
     FindDeployment, FailLookup, CreateFlowRun, RecordFlowRun, FailLaunchRow,
     FailLaunchRun, Report, BeginCallback, WriteResult, WriteRun, BeginPoll,
     WriteTimeout, SettleRun, RemoveRun, MinutePasses, Crash, vars, idpp
<1>2. CASE run[e] = "success"
  BY <1>1, <1>2 DEF SuccessIsReported
<1>3. CASE run[e] # "success"
  <2> USE DEF Base, TypeOK
  <2>1. PICK h \in Handler : WriteRun(h)
    <3>1. ASSUME NEW f \in Event, ExpireRun(f) \/ CreateEvent(f) \/ FailLaunchRun(f)
          PROVE  FALSE
      BY <1>3, <3>1 DEF ExpireRun, CreateEvent, FailLaunchRun, SetRun
    <3>2. ASSUME NEW f \in Event, SettleRun(f) \/ RemoveRun(f) PROVE FALSE
      BY <1>3, <3>2 DEF SettleRun, RemoveRun
    <3>3. QED
      BY <1>3, <3>1, <3>2
      DEF Next, Trigger, BeginTrigger, ExpireRow, CreateFails, FindDeployment, FailLookup,
          CreateFlowRun, RecordFlowRun, FailLaunchRow, Report, BeginCallback, WriteResult,
          BeginPoll, WriteTimeout, MinutePasses, Crash, vars
  <2>2. handler[h].event = e /\ RunStatusOf(handler[h].report) = "success"
    BY <1>3, <2>1 DEF WriteRun, SetRun
  <2>3. <<handler[h].event, handler[h].report>> \in sent
    BY <2>1 DEF WriteRun, Knowledge
  <2>4. handler[h].report \in Reports
    BY <2>3
  <2>5. handler[h].report = "success"
    BY <2>2, <2>4, SyncAssumption DEF RunStatusOf, SyncValue, Results
  <2>6. QED BY <1>1, <2>2, <2>3, <2>5
<1>4. QED BY <1>2, <1>3

(* If IDPP only sends final statuses, a successful run has a flow of its   *)
(* own event that reported success.                                        *)
THEOREM ReportedCorrect ==
    ASSUME "pending" \notin Reports
    PROVE  Spec => []SuccessIsReported
<1>1. Init => SuccessIsReported
  BY DEF Init, SuccessIsReported
<1>2. Base /\ SuccessIsReported /\ [Next]_vars => SuccessIsReported'
  BY StepReported, "pending" \notin Reports
<1>3. QED BY BaseCorrect, <1>1, <1>2, PTL DEF Spec

-----------------------------------------------------------------------------
(* The two tables.  No flow of an event exists before its launch, so no    *)
(* callback works for an event that is not launched.                       *)
Unlaunched == \A e \in Event :
    step[e] \in {"idle", "expireRow", "expireRun", "create", "lookup", "lookupFailed",
                 "launch"} => e \notin flows

LEMMA StepUnlaunched == Base /\ Unlaunched /\ [Next]_vars => Unlaunched'
<1> SUFFICES ASSUME Base, Unlaunched, [Next]_vars PROVE Unlaunched'
  OBVIOUS
<1> USE DEF Base, TypeOK, Unlaunched
<1>1. ASSUME NEW e \in Event, Trigger(e) PROVE Unlaunched'
  BY <1>1 DEF Trigger, BeginTrigger, ExpireRow, ExpireRun, CreateEvent, CreateFails,
     FindDeployment, FailLookup, CreateFlowRun, RecordFlowRun, FailLaunchRow,
     FailLaunchRun, Goto, idpp
<1>2. CASE Crash
  BY <1>2 DEF Crash, idpp
<1>3. CASE UNCHANGED <<step, flows>>
  BY <1>3
<1>4. QED
  BY <1>1, <1>2, <1>3
  DEF Next, Report, BeginCallback, WriteResult, WriteRun, BeginPoll, WriteTimeout,
      SettleRun, RemoveRun, MinutePasses, vars, trigger, idpp

LEMMA InitUnlaunched == Init => Unlaunched
BY DEF Init, Unlaunched

Serves(h, e) == handler[h].step # "idle" /\ handler[h].event = e
Written(by)  == writer = [by |-> by, event |-> event]
Calm         == crashes = 0 /\ \A e \in Event : <<e, "pending">> \notin sent

(* Requests that end the same event end it alike, unless they crossed.     *)
Alike == \A e \in Event \ crossed : \A h \in Handler : Serves(h, e) =>
    /\ \A g \in Handler : Serves(g, e) => handler[g].report = handler[h].report
    /\ step[e] \in {"launchFailed", "failRun"} => handler[h].report = "failed"

(* What the writer of the row leaves for those that are still at it.       *)
RowKnown == event \in Event =>
    /\ Written("callback") =>
         /\ event \in flows /\ result # "pending"
         /\ event \notin crossed =>
              /\ \A h \in Handler : Serves(h, event) => handler[h].report = result
              /\ step[event] \in {"launchFailed", "failRun"} => result = "failed"
    /\ Written("launch") => result = "failed"
    /\ Written("timeout") => result = "failed"

RunKnown ==
    /\ \A h \in Handler : handler[h].step = "run" /\ handler[h].event = event =>
         result # "pending" /\ ~Written("launch") /\ ~Written("timeout")
    /\ event \in Event =>
         /\ run[event] # "none"
         /\ result = "pending" \/ Written("timeout") => run[event] # "success"

(* A request that wrote the row still owes the run its update.             *)
Owing ==
    event \in Event \ crossed =>
    /\ Written("callback") /\ result \in Results =>
         \/ Agrees(event)
         \/ \E h \in Handler : handler[h].step = "run" /\ handler[h].event = event
    /\ Written("launch") => Agrees(event) \/ step[event] = "failRun"
    /\ Written("timeout") =>
         \/ Agrees(event)
         \/ \E e \in Event : step[e] = "expireRun" /\ expired[e] = event

InStep == Calm => Alike /\ RowKnown /\ RunKnown /\ Owing

LEMMA ServesFlow ==
    ASSUME Base, NEW h \in Handler, handler[h].step # "idle"
    PROVE  handler[h].event \in flows /\ handler[h].report \in Reports
<1>1. <<handler[h].event, handler[h].report>> \in flows \X Reports
  BY DEF Base, Knowledge, TypeOK
<1>2. QED BY <1>1

LEMMA StepCalm == Base /\ [Next]_vars /\ Calm' => Calm /\ ~Crash
<1> SUFFICES ASSUME Base, [Next]_vars, Calm' PROVE Calm /\ ~Crash
  OBVIOUS
<1> USE SyncAssumption DEF Base, TypeOK, Calm
<1>1. sent \subseteq sent' /\ crashes <= crashes' /\ (Crash => crashes < crashes')
  BY DEF Next, Trigger, BeginTrigger, ExpireRow, ExpireRun, CreateEvent, CreateFails,
     FindDeployment, FailLookup, CreateFlowRun, RecordFlowRun, FailLaunchRow,
     FailLaunchRun, Report, BeginCallback, WriteResult, WriteRun, BeginPoll,
     WriteTimeout, SettleRun, RemoveRun, MinutePasses, Crash, vars, idpp
<1>2. QED BY <1>1

(* A step that leaves the rows, the requests' knowledge and the history.   *)
LEMMA SameInStep ==
    ASSUME Calm, InStep,
           UNCHANGED <<event, result, writer, run, handler, flows, crossed>>,
           NEW e \in Event,
           \A f \in Event : step[f] = "expireRun" => expired'[f] = expired[f],
           \/ UNCHANGED step
           \/ /\ \E s \in {"expireRow", "create", "done", "lookup", "lookupFailed", "launch",
                           "record"} : Goto(e, s)
              /\ step[e] \notin {"failRun", "expireRun", "launchFailed"},
           TypeOK
    PROVE  InStep'
<1> USE DEF TypeOK, Goto
<1>1. Alike'
  BY DEF InStep, Alike, Serves
<1>2. RowKnown'
  BY DEF InStep, RowKnown, Serves, Written
<1>3. RunKnown'
  BY DEF InStep, RunKnown, Written
<1>4. Owing'
  BY DEF InStep, Owing, Written, Agrees
<1>5. QED BY <1>1, <1>2, <1>3, <1>4 DEF InStep

LEMMA StepInStep ==
    ASSUME Base, Fresh, Unlaunched, InStep, [Next]_vars
    PROVE  InStep'
<1> SUFFICES ASSUME Calm' PROVE InStep'
  BY DEF InStep
<1>0. Calm /\ ~Crash /\ Alike /\ RowKnown /\ RunKnown /\ Owing
  BY StepCalm DEF InStep
<1> USE <1>0, SyncAssumption DEF Base, TypeOK
<1>1. ASSUME NEW e \in Event, BeginTrigger(e) PROVE InStep'
  BY <1>1, SameInStep DEF BeginTrigger, idpp, table, Goto
<1>2. ASSUME NEW e \in Event, CreateFails(e) \/ FindDeployment(e) PROVE InStep'
  BY <1>2, SameInStep DEF CreateFails, FindDeployment, idpp, table
<1>3. ASSUME NEW e \in Event, CreateFlowRun(e) PROVE InStep'
  <2>1. \A h \in Handler : ~Serves(h, e)
    BY <1>3, ServesFlow DEF CreateFlowRun, Unlaunched, Serves
  <2>2. UNCHANGED <<event, result, writer, run, expired, handler, crossed>> /\ flows \subseteq flows'
    BY <1>3 DEF CreateFlowRun, table
  <2>3. step[e] = "launch" /\ step' \in {[step EXCEPT ![e] = "record"], [step EXCEPT ![e] = "launchFailed"]}
    BY <1>3 DEF CreateFlowRun, Goto
  <2>4. Alike'
    BY <2>1, <2>2, <2>3 DEF Alike, Serves
  <2>5. RowKnown' /\ RunKnown' /\ Owing'
    <3>1. CASE event = e
      <4>1. ~Written("callback") /\ ~Written("callback")'
        BY <2>2, <2>3, <3>1 DEF RowKnown, Unlaunched, Written
      <4>2. QED BY <2>1, <2>2, <2>3, <3>1, <4>1 DEF RowKnown, RunKnown, Owing, Written, Serves, Agrees
    <3>2. CASE event # e
      BY <2>2, <2>3, <3>2 DEF RowKnown, RunKnown, Owing, Written, Serves, Agrees
    <3>3. QED BY <3>1, <3>2
  <2>6. QED BY <2>4, <2>5 DEF InStep
<1>4. ASSUME NEW e \in Event, CreateEvent(e) PROVE InStep'
  <2>1. \A h \in Handler : ~Serves(h, e)
    BY <1>4, ServesFlow DEF CreateEvent, Unlaunched, Serves
  <2>2. QED
    BY <1>4, <2>1
    DEF CreateEvent, Goto, idpp, InStep, Alike, RowKnown, RunKnown, Owing, Written, Serves, Agrees, Results
<1>5. ASSUME NEW e \in Event, ExpireRow(e) PROVE InStep'
  <2>1. CASE event = expired[e] /\ result = "pending"
    BY <1>5, <2>1
    DEF ExpireRow, WriteIfPending, Write, Goto, idpp, InStep, Alike, RowKnown, RunKnown, Owing, Written, Serves, Agrees, Knowledge
  <2>2. CASE ~(event = expired[e] /\ result = "pending")
    BY <1>5, <2>2
    DEF ExpireRow, WriteIfPending, Goto, table, idpp, InStep, Alike, RowKnown, RunKnown, Owing, Written, Serves, Agrees
  <2>3. QED BY <2>1, <2>2
<1>6. ASSUME NEW e \in Event, ExpireRun(e) PROVE InStep'
  <2>1. /\ UNCHANGED <<event, result, writer, expired, handler, flows, crossed>>
        /\ step[e] = "expireRun" /\ step' = [step EXCEPT ![e] = "create"]
        /\ expired[e] \in Event
        /\ run' = [run EXCEPT ![expired[e]] = IF @ = "pending" THEN "failed" ELSE @]
    BY <1>6 DEF ExpireRun, Goto, table, idpp, Knowledge, RunActive
  <2>2. Alike' /\ RowKnown'
    BY <2>1 DEF Alike, RowKnown, Written, Serves
  <2>3. RunKnown'
    BY <2>1 DEF RunKnown, Written
  <2>4. Owing'
    <3>1. CASE expired[e] = event
      <4>1. event \in Event \ crossed /\ run[event] = "pending" => run'[event] = "failed"
        BY <2>1, <3>1
      <4>2. event \in Event \ crossed /\ run[event] # "pending" => run'[event] = run[event]
        BY <2>1, <3>1
      <4>3. Written("timeout") /\ event \in Event => Agrees(event)'
        BY <2>1, <4>1, <4>2, <3>1 DEF RowKnown, RunKnown, Agrees, SameEnd, RunActive, RunTerminal, Written
      <4>4. QED BY <2>1, <4>1, <4>2, <4>3 DEF Owing, Written, Agrees, SameEnd
    <3>2. CASE expired[e] # event
      BY <2>1, <3>2 DEF Owing, Written, Agrees
    <3>3. QED BY <3>1, <3>2
  <2>5. QED BY <2>2, <2>3, <2>4 DEF InStep
<1>7. ASSUME NEW e \in Event, FailLookup(e) \/ RecordFlowRun(e) PROVE InStep'
  <2>1. CASE UNCHANGED table
    BY <1>7, <2>1, SameInStep DEF FailLookup, RecordFlowRun, table, idpp
  <2>2. CASE ~UNCHANGED table
    BY <1>7, <2>2
    DEF FailLookup, RecordFlowRun, WriteIfPending, Write, Goto, idpp, InStep, Alike, RowKnown, RunKnown, Owing, Written, Serves
  <2>3. QED BY <2>1, <2>2
<1>8. ASSUME NEW e \in Event, FailLaunchRow(e) PROVE InStep'
  <2>1. CASE event = e /\ result = "pending"
    BY <1>8, <2>1
    DEF FailLaunchRow, WriteIfPending, Write, Goto, idpp, InStep, Alike, RowKnown, RunKnown, Owing, Written, Serves, Agrees
  <2>2. CASE ~(event = e /\ result = "pending")
    BY <1>8, <2>2
    DEF FailLaunchRow, WriteIfPending, Goto, table, idpp, InStep, Alike, RowKnown, RunKnown, Owing, Written, Serves, Agrees
  <2>3. QED BY <2>1, <2>2
<1>9. ASSUME NEW e \in Event, FailLaunchRun(e) PROVE InStep'
    BY <1>9
    DEF FailLaunchRun, SetRun, RunExists, Goto, table, idpp, InStep, Alike, RowKnown, RunKnown, Owing, Written, Serves, Agrees, RunActive, RunTerminal, SameEnd
<1>10. ASSUME NEW h \in Handler, NEW m \in sent, BeginCallback(h, m[1], m[2]) PROVE InStep'
    BY <1>10
    DEF BeginCallback, Crosses, trigger, table, InStep, Alike, RowKnown, RunKnown, Owing, Written, Serves, Agrees
<1>11. ASSUME NEW h \in Handler, WriteResult(h) PROVE InStep'
  <2> DEFINE e == handler[h].event
  <2>1. /\ handler[h].step = "row" /\ handler' = [handler EXCEPT ![h].step = "run"]
        /\ UNCHANGED <<event, run, step, expired, flows, crossed>>
        /\ result' = handler[h].report /\ writer' = [by |-> "callback", event |-> e]
    BY <1>11 DEF WriteResult, Write, trigger, idpp
  <2>2. e \in flows /\ result' # "pending"
    <3>1. <<e, handler[h].report>> \in sent /\ e \in Event
      BY <2>1, ServesFlow DEF Knowledge
    <3>2. QED BY <2>1, <3>1, ServesFlow DEF Calm
  <2>3. \A g \in Handler : /\ handler'[g].event = handler[g].event
                           /\ handler'[g].report = handler[g].report
                           /\ Serves(g, event)' <=> Serves(g, event)
    BY <2>1 DEF Serves
  <2>4. Alike'
    BY <2>1, <2>3 DEF Alike, Serves
  <2>5. RowKnown'
    BY <2>1, <2>2, <2>3 DEF RowKnown, Written, Alike, Serves
  <2>6. RunKnown'
    BY <2>1, <2>2, <2>3 DEF RunKnown, Written
  <2>7. Owing'
    BY <2>1, <2>3 DEF Owing, Written
  <2>8. QED BY <2>4, <2>5, <2>6, <2>7 DEF InStep
<1>12. ASSUME NEW h \in Handler, WriteRun(h) PROVE InStep'
    BY <1>12
    DEF WriteRun, SetRun, RunStatusOf, RunExists, RunActive, RunTerminal, Idle, trigger, idpp, table, Calm, Knowledge, InStep, Alike, RowKnown, RunKnown, Owing, Written, Serves, Agrees, SameEnd, Results
<1>13. ASSUME NEW p \in Poller, WriteTimeout(p) PROVE InStep'
    BY <1>13
    DEF WriteTimeout, Write, trigger, idpp, InStep, Alike, RowKnown, RunKnown, Owing, Written, Serves
<1>14. ASSUME NEW e \in Event, SettleRun(e) \/ RemoveRun(e) PROVE InStep'
    BY <1>14
    DEF SettleRun, RemoveRun, RunExists, RunActive, RunTerminal, trigger, idpp, table, InStep, Alike, RowKnown, RunKnown, Owing, Written, Serves, Agrees, SameEnd
<1>15. CASE UNCHANGED <<event, result, writer, run, trigger, handler, flows, crossed>>
    BY <1>15
    DEF trigger, InStep, Alike, RowKnown, RunKnown, Owing, Written, Serves, Agrees
<1>16. QED
  BY <1>1, <1>2, <1>3, <1>4, <1>5, <1>6, <1>7, <1>8, <1>9, <1>10, <1>11, <1>12, <1>13,
     <1>14, <1>15
  DEF Next, Trigger, Report, BeginPoll, MinutePasses, vars, table, idpp

(* Whatever requests overlap: once they have all returned, the two tables  *)
(* agree on the end of a sync that a callback, a failed launch or the      *)
(* time-out of the next request wrote, unless the process died, IDPP sent  *)
(* a status that is no end, or requests crossed that ended it differently. *)
THEOREM TablesCorrect == Spec => []TablesInStep
<1>1. Init => InStep
  BY SyncAssumption
  DEF Init, InStep, Alike, RowKnown, RunKnown, Owing, Written, Serves, Idle, Results, SyncValue
<1>2. Base /\ Fresh /\ Unlaunched /\ InStep /\ [Next]_vars => InStep'
  BY StepInStep
<1>3. Base /\ InStep => TablesInStep
  <2> SUFFICES ASSUME Base, InStep, Quiescent, Undisturbed, result \in Results,
                      writer.event = event, writer.by \in {"callback", "launch", "timeout"}
               PROVE  Agrees(event)
    BY DEF TablesInStep
  <2>1. event \in Event /\ writer = [by |-> writer.by, event |-> event]
    BY SyncAssumption DEF Base, TypeOK, Knowledge, Results, SyncValue
  <2>2. QED
    BY <2>1 DEF InStep, Calm, Owing, Undisturbed, Quiescent, Written
<1>4. QED
  BY BaseCorrect, InitFresh, StepFresh, InitUnlaunched, StepUnlaunched, <1>1, <1>2, <1>3, PTL
  DEF Spec
=============================================================================
