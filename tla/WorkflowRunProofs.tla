-------------------------- MODULE WorkflowRunProofs --------------------------
(***************************************************************************)
(* Proofs about WorkflowRun, for any number of runs and flow runs, any     *)
(* number of retries and any clock.                                        *)
(***************************************************************************)
EXTENDS WorkflowRun, FiniteSetTheorems, TLAPS

(* A clean-up in progress has its parameters, a flow run that exists has   *)
(* an owner before anything is said about it, and no request works on a    *)
(* run that is not in the table yet.                                       *)
Provenance ==
    /\ cleanup.step # "idle" => cleanup.params \in CleanupParams
    /\ \A f \in Flow : flow[f] # "unborn" => owner[f] \in Run
    /\ \A m \in sent : flow[m[1]] # "unborn"
    /\ \A r \in Run : launched[r] # NULL =>
           owner[launched[r]] = r /\ flow[launched[r]] # "unborn"
    /\ \A r \in Run : status[r] = "none" => trigger[r] = "idle"

Base == TypeOK /\ Provenance

LEMMA InitBase == Init => Base
BY RunAssumption DEF Init, Base, TypeOK, Provenance, IdleCleanup, TriggerStep, Status,
                     Active, Terminal, Time

LEMMA DeleteType ==
    ASSUME TypeOK, NEW R \in SUBSET Run, Delete(R)
    PROVE  /\ status' \in [Run -> {"none", "deleted"} \cup Status]
           /\ target' \in [Run -> Target \cup {NULL}]
           /\ retryOf' \in [Run -> Run \cup {NULL}]
           /\ createdAt' \in [Run -> Time \cup {NULL}]
           /\ startedAt' \in [Run -> Time \cup {NULL}]
           /\ finishedAt' \in [Run -> Time \cup {NULL}]
           /\ flowId' \in [Run -> Flow \cup {NULL}]
BY DEF TypeOK, Delete

LEMMA CountsAreNat ==
    ASSUME NEW R \in SUBSET Run
    PROVE  Cardinality(R) \in Nat
BY RunAssumption, FS_Subset, FS_CardinalityType

LEMMA StepType == Base /\ [Next]_vars => TypeOK'
<1> SUFFICES ASSUME Base, [Next]_vars PROVE TypeOK'
  OBVIOUS
<1> USE RunAssumption DEF Base
<1>1. ASSUME NEW r \in Run, NEW t \in Target, NEW src \in Run \cup {NULL},
             CreateRun(r, t, src)
      PROVE  TypeOK'
  BY <1>1 DEF CreateRun, TypeOK, TriggerStep, Status, Active, Time, prefect
<1>2. ASSUME NEW r \in Run, FindDeployment(r) PROVE TypeOK'
  BY <1>2 DEF FindDeployment, TypeOK, TriggerStep, row, prefect
<1>3. ASSUME NEW r \in Run, RetryFlowRun(r) PROVE TypeOK'
  BY <1>3 DEF RetryFlowRun, Accept, TypeOK, row, prefect
<1>4. ASSUME NEW r \in Run, GiveUpFlowRun(r) PROVE TypeOK'
  BY <1>4 DEF GiveUpFlowRun, Accept, TypeOK, TriggerStep, row, prefect
<1>5. ASSUME NEW r \in Run, NEW f \in Flow, CreateFlowRun(r, f) PROVE TypeOK'
  BY <1>5 DEF CreateFlowRun, Accept, TypeOK, TriggerStep, row
<1>6. ASSUME NEW r \in Run, FailTrigger(r) PROVE TypeOK'
  BY <1>6 DEF FailTrigger, TypeOK, TriggerStep, Status, Terminal, prefect
<1>7. ASSUME NEW r \in Run, RecordFlowRun(r) PROVE TypeOK'
  BY <1>7 DEF RecordFlowRun, TypeOK, TriggerStep, prefect
<1>8. ASSUME NEW r \in Run, CancelWorkflowRun(r) PROVE TypeOK'
  BY <1>8 DEF CancelWorkflowRun, TypeOK, Status, Terminal, request, prefect
<1>9. ASSUME NEW r \in Run, ForceTerminateWorkflowRun(r) PROVE TypeOK'
  BY <1>9 DEF ForceTerminateWorkflowRun, TypeOK, Status, Terminal, request, prefect
<1>10. ASSUME NEW r \in Run, CancelPrefectFlowRun(r) PROVE TypeOK'
  BY <1>10 DEF CancelPrefectFlowRun, CancelFlowRun, TypeOK, row, request, prefect
<1>11. ASSUME NEW f \in Flow, FlowStarts(f) PROVE TypeOK'
  BY <1>11 DEF FlowStarts, Report, TypeOK, row, request
<1>12. ASSUME NEW f \in Flow, NEW s \in FinalReport, FlowEnds(f, s) PROVE TypeOK'
  BY <1>12 DEF FlowEnds, Report, TypeOK, row, request
<1>13. ASSUME NEW m \in sent, HandleCallback(owner[m[1]], m[2]) PROVE TypeOK'
  <2>1. owner[m[1]] \in Run
    BY DEF TypeOK, Provenance
  <2>2. NormalizeCallbackStatus(m[2]) \in Status
    BY <1>13 DEF HandleCallback, CallbackAllowedFrom, Status, Active, Terminal
  <2>3. QED
    BY <1>13, <2>1, <2>2 DEF HandleCallback, Coalesce, TypeOK, request, prefect
<1>14. ASSUME NEW p \in CleanupRequests, NEW scope \in SUBSET Run, CleanupBegin(p, scope)
       PROVE  TypeOK'
  <2>1. {flowId[r] : r \in Swept(p, scope, now)} \ {NULL} \subseteq Flow
    BY DEF Swept, TypeOK
  <2>2. QED
    BY <1>14, <2>1 DEF CleanupBegin, IdleCleanup, TypeOK, row, request, prefect
<1>15. ASSUME NEW f \in Flow, CleanupCancelFlow(f) PROVE TypeOK'
  BY <1>15 DEF CleanupCancelFlow, CancelFlowRun, TypeOK, row, request
<1>16. CASE CleanupSweep
  <2> DEFINE R == Swept(cleanup.params, cleanup.scope, cleanup.cutoff)
  <2>1. R \in SUBSET Run
    BY DEF Swept, TypeOK
  <2>2. Cardinality(R) \in Nat
    BY <2>1, CountsAreNat
  <2> HIDE DEF R
  <2>3. cleanup' \in [step : {"idle", "stop", "purge", "reply"},
                      params : CleanupParams \cup {NULL},
                      scope : SUBSET Run, ids : SUBSET Flow,
                      cutoff : Time, count : Nat]
    BY <1>16, <2>1, <2>2 DEF CleanupSweep, TypeOK, R
  <2>4. CASE cleanup.params.forceCleanupActive
    <3>1. Delete(R)
      BY <1>16, <2>4 DEF CleanupSweep, R
    <3>2. QED
      BY <1>16, <2>1, <2>3, <3>1, DeleteType
      DEF CleanupSweep, TypeOK, request, prefect
  <2>5. CASE ~cleanup.params.forceCleanupActive
    <3>1. /\ status' = [r \in Run |-> IF r \in R THEN "failed" ELSE status[r]]
          /\ finishedAt' = [r \in Run |-> IF r \in R THEN now ELSE finishedAt[r]]
          /\ UNCHANGED <<target, retryOf, createdAt, startedAt, flowId>>
      BY <1>16, <2>5 DEF CleanupSweep, R
    <3>2. QED
      BY <1>16, <2>3, <3>1
      DEF CleanupSweep, TypeOK, Status, Terminal, request, prefect
  <2>6. QED BY <2>4, <2>5
<1>17. CASE CleanupPurge
  <2> DEFINE R == Purged(cleanup.params, cleanup.scope)
  <2>1. R \in SUBSET Run
    BY DEF Purged, TypeOK
  <2>2. Cardinality(R) \in Nat
    BY <2>1, CountsAreNat
  <2>3. Delete(R)
    BY <1>17 DEF CleanupPurge
  <2> HIDE DEF R
  <2>4. cleanup' \in [step : {"idle", "stop", "purge", "reply"},
                      params : CleanupParams \cup {NULL},
                      scope : SUBSET Run, ids : SUBSET Flow,
                      cutoff : Time, count : Nat]
    <3>1. cleanup' = [cleanup EXCEPT !.step = "reply",
                                     !.count = cleanup.count + Cardinality(R)]
      BY <1>17 DEF CleanupPurge, R
    <3>2. cleanup.count + Cardinality(R) \in Nat
      BY <2>1, <2>2 DEF TypeOK
    <3>3. QED BY <3>1, <3>2 DEF TypeOK
  <2>5. QED
    BY <1>17, <2>1, <2>3, <2>4, DeleteType DEF CleanupPurge, TypeOK, request, prefect
<1>18. CASE CleanupReturn
  BY <1>18 DEF CleanupReturn, IdleCleanup, TypeOK, Time, row, request, prefect
<1>19. CASE Crash
  BY <1>19 DEF Crash, IdleCleanup, TypeOK, TriggerStep, Time, row, prefect
<1>20. CASE Tick
  BY <1>20 DEF Tick, TypeOK, Time, row, request, prefect
<1>21. CASE UNCHANGED vars
  BY <1>21 DEF TypeOK, vars, row, request, prefect
<1>22. QED
  BY <1>1, <1>2, <1>3, <1>4, <1>5, <1>6, <1>7, <1>8, <1>9, <1>10, <1>11, <1>12, <1>13,
     <1>14, <1>15, <1>16, <1>17, <1>18, <1>19, <1>20, <1>21 DEF Next, Trigger

-----------------------------------------------------------------------------
(* Nothing is said about, recorded for, or returned to a request before    *)
(* the flow run exists, and its owner never changes afterwards.            *)

LEMMA FlowsKeepOwner ==
    ASSUME Base, [Next]_vars
    PROVE  /\ \A f \in Flow : flow[f] # "unborn" =>
                 flow'[f] # "unborn" /\ owner'[f] = owner[f]
           /\ \A f \in Flow : flow'[f] # "unborn" => owner'[f] \in Run
<1> USE DEF Base
<1>1. ASSUME NEW r \in Run, NEW f \in Flow, Accept(r, f)
      PROVE  /\ \A g \in Flow : flow[g] # "unborn" =>
                   flow'[g] # "unborn" /\ owner'[g] = owner[g]
             /\ \A g \in Flow : flow'[g] # "unborn" => owner'[g] \in Run
  BY <1>1 DEF Accept, TypeOK, Provenance
<1>2. ASSUME NEW f, CancelFlowRun(f)
      PROVE  /\ \A g \in Flow : flow[g] # "unborn" =>
                   flow'[g] # "unborn" /\ owner'[g] = owner[g]
             /\ \A g \in Flow : flow'[g] # "unborn" => owner'[g] \in Run
  BY <1>2 DEF CancelFlowRun, TypeOK, Provenance
<1>3. ASSUME NEW f \in Flow, NEW s, FlowEnds(f, s)
      PROVE  /\ \A g \in Flow : flow[g] # "unborn" =>
                   flow'[g] # "unborn" /\ owner'[g] = owner[g]
             /\ \A g \in Flow : flow'[g] # "unborn" => owner'[g] \in Run
  BY <1>3 DEF FlowEnds, TypeOK, Provenance
<1>4. CASE UNCHANGED <<flow, owner>>
  BY <1>4 DEF Provenance
<1>5. QED
  BY <1>1, <1>2, <1>3, <1>4
  DEF Next, Trigger, CreateRun, FindDeployment, RetryFlowRun, GiveUpFlowRun,
      CreateFlowRun, FailTrigger, RecordFlowRun, CancelWorkflowRun,
      ForceTerminateWorkflowRun, CancelPrefectFlowRun, FlowStarts, HandleCallback,
      CleanupBegin, CleanupCancelFlow, CleanupSweep, CleanupPurge, CleanupReturn,
      Crash, Tick, vars, prefect

LEMMA StepProvenance == Base /\ [Next]_vars => Provenance'
<1> SUFFICES ASSUME Base, [Next]_vars PROVE Provenance'
  OBVIOUS
<1>1. cleanup'.step # "idle" => cleanup'.params \in CleanupParams
  <2>1. CASE UNCHANGED cleanup
    BY <2>1 DEF Base, Provenance
  <2>2. CASE cleanup' = IdleCleanup
    BY <2>2 DEF IdleCleanup
  <2>3. ASSUME NEW p \in CleanupRequests, NEW scope \in SUBSET Run, CleanupBegin(p, scope)
        PROVE  cleanup'.params \in CleanupParams
    BY <2>3, RunAssumption DEF CleanupBegin, IdleCleanup
  <2>4. CASE (\E f \in Flow : CleanupCancelFlow(f)) \/ CleanupSweep \/ CleanupPurge
    <3>1. cleanup.params \in CleanupParams
      BY <2>4 DEF CleanupCancelFlow, CleanupSweep, CleanupPurge, Base, Provenance
    <3>2. cleanup'.params = cleanup.params
      BY <2>4 DEF CleanupCancelFlow, CleanupSweep, CleanupPurge, Base, TypeOK
    <3>3. QED BY <3>1, <3>2
  <2>5. QED
    BY <2>1, <2>2, <2>3, <2>4
    DEF Next, Trigger, CreateRun, FindDeployment, RetryFlowRun, GiveUpFlowRun,
        CreateFlowRun, FailTrigger, RecordFlowRun, CancelWorkflowRun,
        ForceTerminateWorkflowRun, CancelPrefectFlowRun, FlowStarts, FlowEnds,
        HandleCallback, CleanupReturn, Crash, Tick, vars
<1>2. \A f \in Flow : flow'[f] # "unborn" => owner'[f] \in Run
  BY FlowsKeepOwner
<1>3. ASSUME NEW m \in sent' PROVE flow'[m[1]] # "unborn"
  <2>1. CASE m \in sent
    BY <2>1, FlowsKeepOwner DEF Base, TypeOK, Provenance
  <2>2. CASE m \notin sent
    <3>1. PICK f \in Flow : FlowStarts(f) \/ \E s \in FinalReport : FlowEnds(f, s)
      BY <2>2
      DEF Next, Trigger, CreateRun, FindDeployment, RetryFlowRun, GiveUpFlowRun,
          CreateFlowRun, FailTrigger, RecordFlowRun, CancelWorkflowRun,
          ForceTerminateWorkflowRun, CancelPrefectFlowRun, CancelFlowRun, Accept,
          HandleCallback, CleanupBegin, CleanupCancelFlow, CleanupSweep, CleanupPurge,
          CleanupReturn, Crash, Tick, vars, prefect
    <3>2. m[1] = f
      BY <3>1, <2>2 DEF FlowStarts, FlowEnds, Report
    <3>3. flow[f] # "unborn"
      BY <3>1 DEF FlowStarts, FlowEnds
    <3>4. QED BY <3>2, <3>3, FlowsKeepOwner
  <2>3. QED BY <2>1, <2>2
<1>4. ASSUME NEW r \in Run, launched'[r] # NULL
      PROVE  owner'[launched'[r]] = r /\ flow'[launched'[r]] # "unborn"
  <2>1. CASE launched'[r] = launched[r]
    BY <1>4, <2>1, FlowsKeepOwner DEF Base, TypeOK, Provenance
  <2>2. CASE launched'[r] # launched[r]
    <3>1. PICK q \in Run, f \in Flow : CreateFlowRun(q, f)
      BY <1>4, <2>2
      DEF Next, Trigger, CreateRun, FindDeployment, RetryFlowRun, GiveUpFlowRun,
          FailTrigger, RecordFlowRun, CancelWorkflowRun, ForceTerminateWorkflowRun,
          CancelPrefectFlowRun, FlowStarts, FlowEnds, HandleCallback, CleanupBegin,
          CleanupCancelFlow, CleanupSweep, CleanupPurge, CleanupReturn, Crash, Tick,
          vars, request, Base, TypeOK
    <3>2. q = r /\ launched'[r] = f
      BY <3>1, <2>2 DEF CreateFlowRun, Base, TypeOK
    <3>3. QED BY <3>1, <3>2 DEF CreateFlowRun, Accept, Base, TypeOK
  <2>3. QED BY <2>1, <2>2
<1>5. ASSUME NEW r \in Run, status'[r] = "none" PROVE trigger'[r] = "idle"
  <2>1. ASSUME NEW R \in SUBSET Run, Delete(R) PROVE status[r] = "none"
    BY <1>5, <2>1 DEF Delete
  <2>2. Swept(cleanup.params, cleanup.scope, cleanup.cutoff) \in SUBSET Run
    BY DEF Swept, Base, TypeOK
  <2>3. Purged(cleanup.params, cleanup.scope) \in SUBSET Run
    BY DEF Purged, Base, TypeOK
  <2>4. CASE CleanupSweep
    <3>1. status[r] = "none" /\ trigger' = trigger
      BY <1>5, <2>1, <2>2, <2>4 DEF CleanupSweep, request
    <3>2. QED BY <3>1 DEF Base, Provenance
  <2>5. CASE CleanupPurge
    <3>1. status[r] = "none" /\ trigger' = trigger
      BY <1>5, <2>1, <2>3, <2>5 DEF CleanupPurge, request
    <3>2. QED BY <3>1 DEF Base, Provenance
  <2>6. ASSUME NEW q \in Run, Trigger(q) PROVE trigger'[r] = "idle"
    BY <1>5, <2>6 DEF Trigger, FindDeployment, RetryFlowRun, GiveUpFlowRun, CreateFlowRun,
       FailTrigger, RecordFlowRun, row, Base, TypeOK, Provenance, Exists, Status, Active,
       Terminal
  <2>7. CASE \E q \in Run, t \in Target, src \in Run \cup {NULL} : CreateRun(q, t, src)
    BY <1>5, <2>7 DEF CreateRun, Base, TypeOK, Provenance
  <2>8. CASE Crash
    BY <1>5, <2>8 DEF Crash, row, InFlight, Base, TypeOK, Provenance
  <2>9. ASSUME NEW m \in sent, HandleCallback(owner[m[1]], m[2])
        PROVE  trigger'[r] = "idle"
    BY <1>5, <2>9 DEF HandleCallback, CallbackAllowedFrom, request, Base, TypeOK, Provenance
  <2>10. QED
    BY <1>5, <2>4, <2>5, <2>6, <2>7, <2>8, <2>9
    DEF Next, CancelWorkflowRun, ForceTerminateWorkflowRun, CancelPrefectFlowRun,
        FlowStarts, FlowEnds, CleanupBegin, CleanupCancelFlow, CleanupReturn, Tick,
        vars, row, request, Base, TypeOK, Provenance
<1>6. QED BY <1>1, <1>2, <1>3, <1>4, <1>5 DEF Provenance

(* Type correctness, and with it the provenance of every flow id and       *)
(* message, for every value of the constants.                              *)
THEOREM BaseCorrect == Spec => []Base
<1>1. Base /\ [Next]_vars => Base'
  BY StepType, StepProvenance DEF Base
<1>2. QED BY InitBase, <1>1, PTL DEF Spec

(* Every value stays in its type, whatever the constants.                  *)
THEOREM TypeCorrect == Spec => []TypeOK
<1>1. Base => TypeOK
  BY DEF Base
<1>2. QED BY BaseCorrect, <1>1, PTL

-----------------------------------------------------------------------------
(* The columns of a row.  TimesMatchStatus is inductive once a row that is *)
(* not in the table is known to be blank: an insert then starts from NULL. *)

Blank(r) == /\ createdAt[r] = NULL /\ startedAt[r] = NULL /\ finishedAt[r] = NULL
            /\ flowId[r] = NULL /\ retryOf[r] = NULL

Columns == /\ TimesMatchStatus
           /\ \A r \in Run : ~Exists(r) => Blank(r)
           /\ \A r \in Run : createdAt[r] # NULL => createdAt[r] <= now

LEMMA DeleteColumns ==
    ASSUME Base, Columns, NEW R \in SUBSET Run, Delete(R), now' = now
    PROVE  Columns'
<1> USE DEF Exists, Status, Active, Terminal, Delete, Base
<1>1. TimesMatchStatus'
  BY DEF TypeOK, Columns, TimesMatchStatus
<1>2. \A r \in Run : ~Exists(r)' => Blank(r)'
  BY DEF TypeOK, Columns, Blank
<1>3. \A r \in Run : createdAt'[r] # NULL => createdAt'[r] <= now'
  BY DEF TypeOK, Columns
<1>4. QED BY <1>1, <1>2, <1>3 DEF Columns

LEMMA StepColumns == Base /\ Columns /\ [Next]_vars => Columns'
<1> SUFFICES ASSUME Base, Columns, [Next]_vars PROVE Columns'
  OBVIOUS
<1> USE RunAssumption DEF Base, Columns, TimesMatchStatus, Blank, Exists, Status, Active,
                          Terminal
<1>0. now \in Nat /\ now # NULL
  BY DEF TypeOK, Time
<1>1. ASSUME NEW r \in Run, NEW t \in Target, NEW src \in Run \cup {NULL},
             CreateRun(r, t, src)
      PROVE  Columns'
  BY <1>0, <1>1 DEF CreateRun, TypeOK
<1>2. ASSUME NEW r \in Run, FailTrigger(r) PROVE Columns'
  BY <1>0, <1>2 DEF FailTrigger, TypeOK
<1>3. ASSUME NEW r \in Run, RecordFlowRun(r) PROVE Columns'
  BY <1>3 DEF RecordFlowRun, TypeOK
<1>4. ASSUME NEW r \in Run, CancelWorkflowRun(r) \/ ForceTerminateWorkflowRun(r)
      PROVE  Columns'
  BY <1>0, <1>4 DEF CancelWorkflowRun, ForceTerminateWorkflowRun, TypeOK
<1>5. ASSUME NEW m \in sent, HandleCallback(owner[m[1]], m[2]) PROVE Columns'
  <2> DEFINE r == owner[m[1]]
             s == NormalizeCallbackStatus(m[2])
  <2>1. r \in Run
    BY DEF TypeOK, Provenance
  <2>2. s \in {"running", "success", "failed"} /\ status[r] \in {"pending", "running"}
    BY <1>5 DEF HandleCallback, CallbackAllowedFrom
  <2>3. /\ status' = [status EXCEPT ![r] = s]
        /\ startedAt' = [startedAt EXCEPT ![r] = Coalesce(startedAt[r], now)]
        /\ finishedAt' = [finishedAt EXCEPT ![r] = IF s \in Terminal THEN now
                                                   ELSE finishedAt[r]]
        /\ UNCHANGED <<createdAt, flowId, retryOf, now>>
    BY <1>5 DEF HandleCallback
  <2> HIDE DEF r, s
  <2>4. QED BY <1>0, <2>1, <2>2, <2>3 DEF Coalesce, TypeOK
<1>6. CASE CleanupSweep
  <2> DEFINE R == Swept(cleanup.params, cleanup.scope, cleanup.cutoff)
  <2>1. R \in SUBSET Run /\ \A r \in R : status[r] \in {"pending", "running"}
    BY DEF Swept, TypeOK
  <2>2. CASE cleanup.params.forceCleanupActive
    <3>1. Delete(R) /\ now' = now
      BY <1>6, <2>2 DEF CleanupSweep
    <3> HIDE DEF R
    <3>2. QED BY <2>1, <3>1, DeleteColumns
  <2>3. CASE ~cleanup.params.forceCleanupActive
    <3>1. /\ status' = [r \in Run |-> IF r \in R THEN "failed" ELSE status[r]]
          /\ finishedAt' = [r \in Run |-> IF r \in R THEN now ELSE finishedAt[r]]
          /\ UNCHANGED <<target, retryOf, createdAt, startedAt, flowId, now>>
      BY <1>6, <2>3 DEF CleanupSweep
    <3> HIDE DEF R
    <3>2. QED BY <1>0, <2>1, <3>1 DEF TypeOK
  <2>4. QED BY <2>2, <2>3
<1>7. CASE CleanupPurge
  <2>1. Purged(cleanup.params, cleanup.scope) \in SUBSET Run
    BY DEF Purged, TypeOK
  <2>2. QED BY <1>7, <2>1, DeleteColumns DEF CleanupPurge
<1>8. CASE UNCHANGED row /\ now' \in {now, now + 1}
  BY <1>0, <1>8 DEF row, TypeOK, Time
<1>9. QED
  BY <1>1, <1>2, <1>3, <1>4, <1>5, <1>6, <1>7, <1>8
  DEF Next, Trigger, FindDeployment, RetryFlowRun, GiveUpFlowRun, CreateFlowRun,
      CancelPrefectFlowRun, FlowStarts, FlowEnds, CleanupBegin, CleanupCancelFlow,
      CleanupReturn, Crash, Tick, vars

LEMMA InitColumns == Init => Columns
BY DEF Init, Columns, TimesMatchStatus, Blank, Exists, Status, Active, Terminal

-----------------------------------------------------------------------------
(* A row only ever learns the id of a flow run of its own.                 *)

LEMMA StepRecorded == Base /\ RecordedFlowIsOwn /\ [Next]_vars => RecordedFlowIsOwn'
<1> SUFFICES ASSUME Base, RecordedFlowIsOwn, [Next]_vars,
                    NEW r \in Run, flowId'[r] # NULL
             PROVE  owner'[flowId'[r]] = r /\ flow'[flowId'[r]] # "unborn"
  BY DEF RecordedFlowIsOwn
<1>1. CASE flowId'[r] = flowId[r]
  BY <1>1, FlowsKeepOwner DEF Base, TypeOK, RecordedFlowIsOwn
<1>2. CASE flowId'[r] # flowId[r]
  <2>1. PICK q \in Run : RecordFlowRun(q)
    <3>1. ASSUME NEW R \in SUBSET Run, Delete(R) PROVE FALSE
      BY <1>2, <3>1 DEF Delete
    <3>2. CASE CleanupSweep
      <4>1. Swept(cleanup.params, cleanup.scope, cleanup.cutoff) \in SUBSET Run
        BY DEF Swept, Base, TypeOK
      <4>2. CASE cleanup.params.forceCleanupActive
        BY <3>1, <3>2, <4>1, <4>2 DEF CleanupSweep
      <4>3. CASE ~cleanup.params.forceCleanupActive
        BY <1>2, <3>2, <4>3 DEF CleanupSweep
      <4>4. QED BY <4>2, <4>3
    <3>3. CASE CleanupPurge
      <4>1. Purged(cleanup.params, cleanup.scope) \in SUBSET Run
        BY DEF Purged, Base, TypeOK
      <4>2. QED BY <3>1, <3>3, <4>1 DEF CleanupPurge
    <3>4. CASE \E q \in Run, t \in Target, src \in Run \cup {NULL} : CreateRun(q, t, src)
      BY <1>2, <3>4 DEF CreateRun
    <3>5. QED
      BY <1>2, <3>2, <3>3, <3>4
      DEF Next, Trigger, FindDeployment, RetryFlowRun, GiveUpFlowRun, CreateFlowRun,
          FailTrigger, CancelWorkflowRun, ForceTerminateWorkflowRun,
          CancelPrefectFlowRun, FlowStarts, FlowEnds, HandleCallback, CleanupBegin,
          CleanupCancelFlow, CleanupReturn, Crash, Tick, vars, row
  <2>2. flowId'[r] = launched[r]
    BY <1>2, <2>1 DEF RecordFlowRun, Base, TypeOK
  <2>3. QED BY <2>2, FlowsKeepOwner DEF Base, TypeOK, Provenance
<1>3. QED BY <1>1, <1>2

LEMMA InitRecorded == Init => RecordedFlowIsOwn
BY DEF Init, RecordedFlowIsOwn

(* Retries keep pointing to an existing run of the same target.            *)
LEMMA DeleteRetry ==
    ASSUME Base, RetryLinkSound, NEW R \in SUBSET Run, Delete(R)
    PROVE  RetryLinkSound'
BY RunAssumption DEF Base, TypeOK, RetryLinkSound, Delete, Exists, Status, Active, Terminal

LEMMA StepRetry == Base /\ Columns /\ RetryLinkSound /\ [Next]_vars => RetryLinkSound'
<1> SUFFICES ASSUME Base, Columns, RetryLinkSound, [Next]_vars PROVE RetryLinkSound'
  OBVIOUS
<1> USE RunAssumption DEF Base
<1>1. ASSUME NEW r \in Run, NEW t \in Target, NEW src \in Run \cup {NULL},
             CreateRun(r, t, src)
      PROVE  RetryLinkSound'
  <2>1. /\ status[r] = "none" /\ ~Exists(r) /\ retryOf[r] = NULL
        /\ src # NULL => Exists(src) /\ target[src] = t /\ src # r /\ createdAt[src] <= now
    BY <1>1 DEF CreateRun, ValidRetryOf, Exists, Status, Active, Terminal, Columns, Blank,
                TimesMatchStatus
  <2>2. \A q \in Run : Exists(q) => Exists(q)' /\ q # r
    BY <1>1, <2>1 DEF CreateRun, Exists, Status, Active, TypeOK
  <2>3. Exists(r)' /\ target'[r] = t /\ retryOf'[r] = src /\ createdAt'[r] = now
    BY <1>1 DEF CreateRun, Exists, Status, Active, TypeOK
  <2>4. \A q \in Run : q # r => /\ target'[q] = target[q] /\ retryOf'[q] = retryOf[q]
                               /\ createdAt'[q] = createdAt[q]
    BY <1>1 DEF CreateRun, TypeOK
  <2>5. QED BY <2>1, <2>2, <2>3, <2>4 DEF RetryLinkSound, TypeOK
<1>2. CASE /\ UNCHANGED <<target, retryOf, createdAt>>
           /\ \A r \in Run : Exists(r) => Exists(r)'
  BY <1>2 DEF RetryLinkSound, TypeOK
<1>3. CASE \E R \in SUBSET Run : Delete(R)
  BY <1>3, DeleteRetry
<1>4. ASSUME NEW r \in Run,
             FailTrigger(r) \/ CancelWorkflowRun(r) \/ ForceTerminateWorkflowRun(r)
      PROVE  RetryLinkSound'
  <2>1. \A q \in Run : Exists(q) => Exists(q)'
    BY <1>4 DEF FailTrigger, CancelWorkflowRun, ForceTerminateWorkflowRun, Exists, Status,
                Terminal, TypeOK
  <2>2. QED
    BY <1>2, <1>4, <2>1 DEF FailTrigger, CancelWorkflowRun, ForceTerminateWorkflowRun
<1>5. ASSUME NEW m \in sent, HandleCallback(owner[m[1]], m[2]) PROVE RetryLinkSound'
  <2>1. \A q \in Run : Exists(q) => Exists(q)'
    BY <1>5 DEF HandleCallback, CallbackAllowedFrom, Exists, Status, Active, Terminal,
                TypeOK
  <2>2. QED BY <1>2, <1>5, <2>1 DEF HandleCallback
<1>6. CASE CleanupSweep
  <2>1. CASE cleanup.params.forceCleanupActive
    <3>1. Swept(cleanup.params, cleanup.scope, cleanup.cutoff) \in SUBSET Run
      BY DEF Swept, TypeOK
    <3>2. QED BY <1>3, <1>6, <2>1, <3>1 DEF CleanupSweep
  <2>2. CASE ~cleanup.params.forceCleanupActive
    <3>1. \A q \in Run : Exists(q) => Exists(q)'
      BY <1>6, <2>2 DEF CleanupSweep, Exists, Status, Terminal, TypeOK
    <3>2. QED BY <1>2, <1>6, <2>2, <3>1 DEF CleanupSweep
  <2>3. QED BY <2>1, <2>2
<1>7. CASE CleanupPurge
  <2>1. Purged(cleanup.params, cleanup.scope) \in SUBSET Run
    BY DEF Purged, TypeOK
  <2>2. QED BY <1>3, <1>7, <2>1 DEF CleanupPurge
<1>8. CASE UNCHANGED <<status, target, retryOf, createdAt>>
  BY <1>2, <1>8 DEF Exists
<1>9. QED
  BY <1>1, <1>4, <1>5, <1>6, <1>7, <1>8
  DEF Next, Trigger, FindDeployment, RetryFlowRun, GiveUpFlowRun, CreateFlowRun,
      RecordFlowRun, CancelPrefectFlowRun, FlowStarts, FlowEnds, CleanupBegin,
      CleanupCancelFlow, CleanupReturn, Crash, Tick, vars, row

LEMMA InitRetry == Init => RetryLinkSound
BY DEF Init, RetryLinkSound

(* finished_at is set exactly on settled rows, and rows that run or        *)
(* succeeded have started_at, in every interleaving of callbacks,          *)
(* cancellations, launch failures and clean-ups.                           *)
THEOREM TimesCorrect == Spec => []TimesMatchStatus
<1>1. Columns => TimesMatchStatus
  BY DEF Columns
<1>2. QED BY BaseCorrect, InitColumns, StepColumns, <1>1, PTL DEF Spec

(* Cancelling a run can only reach its own flow runs.                      *)
THEOREM RecordedCorrect == Spec => []RecordedFlowIsOwn
BY BaseCorrect, InitRecorded, StepRecorded, PTL DEF Spec

(* A retry link never dangles and never leaves the target of the retry.    *)
THEOREM RetryCorrect == Spec => []RetryLinkSound
BY BaseCorrect, InitColumns, StepColumns, InitRetry, StepRetry, PTL DEF Spec

(* Both links of a row lead to what is its own.                            *)
THEOREM LinksCorrect == Spec => []LinksSound
BY RecordedCorrect, RetryCorrect, PTL DEF LinksSound

-----------------------------------------------------------------------------
(* Every step of the detailed specification is a step of RunLifecycle, or  *)
(* leaves what it shows unchanged.                                         *)

LEMMA Simulation == Base /\ [Next]_vars => [Lifecycle!LNext]_(Lifecycle!lvars)
<1> SUFFICES ASSUME Base, [Next]_vars PROVE [Lifecycle!LNext]_(Lifecycle!lvars)
  OBVIOUS
<1> USE DEF Base, Lifecycle!lvars, Lifecycle!Open, Lifecycle!Verdict
<1> DEFINE launching == {r \in Run : InFlight(r)}
<1>1. ASSUME NEW r \in Run, NEW t \in Target, NEW src \in Run \cup {NULL},
             CreateRun(r, t, src)
      PROVE  Lifecycle!Appear(r)
  <2>1. launching' = IF PrefectEnabled THEN launching \cup {r} ELSE launching
    BY <1>1 DEF CreateRun, InFlight, TypeOK, Provenance
  <2>2. launching' \in {launching, launching \cup {r}}
    BY <1>1, <2>1 DEF CreateRun
  <2>3. QED BY <1>1, <2>2 DEF CreateRun, Lifecycle!Appear
<1>2. ASSUME NEW r \in Run, FailTrigger(r)
      PROVE  Lifecycle!GiveUp(r) \/ Lifecycle!Return({r})
  <2>1. r \in launching /\ launching' = launching \ {r}
    BY <1>2 DEF FailTrigger, InFlight, TypeOK
  <2>2. QED
    BY <1>2, <2>1 DEF FailTrigger, Lifecycle!GiveUp, Lifecycle!Return, Exists, Status,
                      Active, Terminal, TypeOK
<1>3. ASSUME NEW r \in Run, RecordFlowRun(r) PROVE Lifecycle!Return({r})
  BY <1>3 DEF RecordFlowRun, Lifecycle!Return, InFlight, TypeOK
<1>4. CASE Crash
  <2>1. launching' = launching \ Run
    BY <1>4 DEF Crash, InFlight, TypeOK
  <2>2. Lifecycle!Return(Run)
    BY <1>4, <2>1 DEF Crash, row, Lifecycle!Return
  <2>3. QED BY <2>2 DEF Lifecycle!LNext
<1>5. ASSUME NEW r \in Run, CancelWorkflowRun(r) PROVE Lifecycle!Settle(r, "cancelled")
  BY <1>5 DEF CancelWorkflowRun, request, Lifecycle!Settle, InFlight, Active
<1>6. ASSUME NEW r \in Run, ForceTerminateWorkflowRun(r)
      PROVE  Lifecycle!Settle(r, "failed")
  BY <1>6 DEF ForceTerminateWorkflowRun, request, Lifecycle!Settle, InFlight, Active
<1>7. ASSUME NEW m \in sent, HandleCallback(owner[m[1]], m[2])
      PROVE  \E r \in Run : \/ Lifecycle!Start(r)
                            \/ Lifecycle!Settle(r, "success")
                            \/ Lifecycle!Settle(r, "failed")
  <2>1. owner[m[1]] \in Run
    BY DEF TypeOK, Provenance
  <2>2. NormalizeCallbackStatus(m[2]) \in {"running", "success", "failed"}
    BY <1>7 DEF HandleCallback, CallbackAllowedFrom
  <2>3. QED
    BY <1>7, <2>1, <2>2 DEF HandleCallback, CallbackAllowedFrom, request,
       Lifecycle!Start, Lifecycle!Settle, InFlight, Active
<1>8. ASSUME NEW R \in SUBSET Run, Delete(R), UNCHANGED request,
             \A r \in R : status[r] \in Status
      PROVE  Lifecycle!Remove(R)
  BY <1>8 DEF Delete, request, Lifecycle!Remove, InFlight, Status, Active, Terminal
<1>9. CASE CleanupSweep
  <2> DEFINE R == Swept(cleanup.params, cleanup.scope, cleanup.cutoff)
  <2>1. R \in SUBSET Run /\ \A r \in R : status[r] \in Active
    BY DEF Swept, TypeOK
  <2>2. CASE cleanup.params.forceCleanupActive
    <3>1. Delete(R) /\ UNCHANGED request
      BY <1>9, <2>2 DEF CleanupSweep
    <3> HIDE DEF R
    <3>2. QED BY <2>1, <3>1, <1>8 DEF Lifecycle!LNext, Status
  <2>3. CASE ~cleanup.params.forceCleanupActive
    <3>1. /\ status' = [r \in Run |-> IF r \in R THEN "failed" ELSE status[r]]
          /\ UNCHANGED request
      BY <1>9, <2>3 DEF CleanupSweep
    <3> HIDE DEF R
    <3>2. Lifecycle!SettleAll(R)
      BY <2>1, <3>1 DEF request, Lifecycle!SettleAll, InFlight, Active
    <3>3. QED BY <2>1, <3>2 DEF Lifecycle!LNext
  <2>4. QED BY <2>2, <2>3
<1>10. CASE CleanupPurge
  <2> DEFINE R == Purged(cleanup.params, cleanup.scope)
  <2>1. R \in SUBSET Run /\ \A r \in R : status[r] \in Status
    BY DEF Purged, Status, TypeOK
  <2>2. Delete(R) /\ UNCHANGED request
    BY <1>10 DEF CleanupPurge
  <2> HIDE DEF R
  <2>3. QED BY <2>1, <2>2, <1>8 DEF Lifecycle!LNext
<1>11. ASSUME UNCHANGED row,
              \A r \in Run : InFlight(r)' <=> InFlight(r)
       PROVE  UNCHANGED Lifecycle!lvars
  BY <1>11 DEF row
<1>12. ASSUME NEW r \in Run, FindDeployment(r) PROVE UNCHANGED Lifecycle!lvars
  BY <1>12, <1>11 DEF FindDeployment, InFlight, TypeOK
<1>13. ASSUME NEW r \in Run, RetryFlowRun(r) \/ GiveUpFlowRun(r)
       PROVE  UNCHANGED Lifecycle!lvars
  BY <1>13, <1>11 DEF RetryFlowRun, GiveUpFlowRun, InFlight, TypeOK
<1>14. ASSUME NEW r \in Run, NEW f \in Flow, CreateFlowRun(r, f)
       PROVE  UNCHANGED Lifecycle!lvars
  BY <1>14, <1>11 DEF CreateFlowRun, InFlight, TypeOK
<1>15. CASE UNCHANGED <<row, request>>
  BY <1>15, <1>11 DEF request, InFlight
<1>16. QED
  <2>1. CASE \E r \in Run, t \in Target, src \in Run \cup {NULL} : CreateRun(r, t, src)
    BY <2>1, <1>1 DEF Lifecycle!LNext
  <2>2. CASE \E r \in Run : Trigger(r)
    BY <2>2, <1>2, <1>3, <1>12, <1>13, <1>14 DEF Trigger, Lifecycle!LNext
  <2>3. CASE \E r \in Run : CancelWorkflowRun(r) \/ ForceTerminateWorkflowRun(r)
    BY <2>3, <1>5, <1>6 DEF Lifecycle!LNext
  <2>4. CASE \E m \in sent : HandleCallback(owner[m[1]], m[2])
    BY <2>4, <1>7 DEF Lifecycle!LNext
  <2>5. QED
    BY <2>1, <2>2, <2>3, <2>4, <1>4, <1>9, <1>10, <1>15
    DEF Next, CancelPrefectFlowRun, FlowStarts, FlowEnds, CleanupBegin,
        CleanupCancelFlow, CleanupReturn, Tick, vars

(* The row of a run behaves as RunLifecycle promises its clients.          *)
THEOREM Refinement == Spec => LifecycleSpec
<1>1. Init => Lifecycle!LInit
  BY DEF Init, Lifecycle!LInit, InFlight
<1>2. QED BY BaseCorrect, Simulation, <1>1, PTL DEF Spec, LifecycleSpec, Lifecycle!LSpec

-----------------------------------------------------------------------------
(* What a step may never do to a row.                                      *)

RowSafe(r) == KeepsVerdict(r) /\ KeepsStart(r) /\ SparesActive(r)

LEMMA StepSafe ==
    ASSUME Base, Columns, [Next]_vars, NEW r \in Run
    PROVE  RowSafe(r)
<1> USE DEF RowSafe, KeepsVerdict, KeepsStart, SparesActive, IsActive, Base
<1>1. CASE UNCHANGED <<status, startedAt>>
  BY <1>1 DEF TypeOK, Active
<1>2. ASSUME NEW q \in Run, NEW t \in Target, NEW src \in Run \cup {NULL},
             CreateRun(q, t, src)
      PROVE  RowSafe(r)
  BY <1>2 DEF CreateRun, TypeOK, Active, Terminal
<1>3. ASSUME NEW q \in Run,
             FailTrigger(q) \/ CancelWorkflowRun(q) \/ ForceTerminateWorkflowRun(q)
      PROVE  RowSafe(r)
  BY <1>3 DEF FailTrigger, CancelWorkflowRun, ForceTerminateWorkflowRun, TypeOK, Active,
              Terminal
<1>4. ASSUME NEW m \in sent, HandleCallback(owner[m[1]], m[2]) PROVE RowSafe(r)
  BY <1>4 DEF HandleCallback, CallbackAllowedFrom, Coalesce, TypeOK, Provenance, Active,
              Terminal
<1>5. CASE CleanupSweep
  <2> DEFINE R == Swept(cleanup.params, cleanup.scope, cleanup.cutoff)
  <2>1. \A q \in R : status[q] \in Active
    BY DEF Swept
  <2>2. CASE cleanup.params.forceCleanupActive
    <3>1. Delete(R)
      BY <1>5, <2>2 DEF CleanupSweep
    <3> HIDE DEF R
    <3>2. QED BY <2>1, <2>2, <3>1 DEF Delete, Active, Terminal
  <2>3. CASE ~cleanup.params.forceCleanupActive
    <3>1. /\ status' = [q \in Run |-> IF q \in R THEN "failed" ELSE status[q]]
          /\ UNCHANGED startedAt
      BY <1>5, <2>3 DEF CleanupSweep
    <3> HIDE DEF R
    <3>2. QED BY <2>1, <3>1 DEF Active, Terminal
  <2>4. QED BY <2>2, <2>3
<1>6. CASE CleanupPurge
  <2> DEFINE R == Purged(cleanup.params, cleanup.scope)
  <2>1. \A q \in R : status[q] \in Terminal
    BY DEF Purged
  <2>2. Delete(R)
    BY <1>6 DEF CleanupPurge
  <2> HIDE DEF R
  <2>3. QED BY <2>1, <2>2 DEF Delete, Active, Terminal
<1>7. QED
  BY <1>1, <1>2, <1>3, <1>4, <1>5, <1>6
  DEF Next, Trigger, FindDeployment, RetryFlowRun, GiveUpFlowRun, CreateFlowRun,
      RecordFlowRun, CancelPrefectFlowRun, FlowStarts, FlowEnds, CleanupBegin,
      CleanupCancelFlow, CleanupReturn, Crash, Tick, vars, row

(* Late, repeated and reordered callbacks never reopen a settled run; only *)
(* the launching request may still turn a verdict into "failed".           *)
THEOREM VerdictCorrect == Spec => VerdictStands
<1>1. Base /\ Columns /\ [Next]_vars => [\A r \in Run : KeepsVerdict(r)]_vars
  BY StepSafe DEF RowSafe
<1>2. QED
  BY BaseCorrect, InitColumns, StepColumns, <1>1, PTL DEF Spec, VerdictStands

(* started_at is written once.                                             *)
THEOREM StartedCorrect == Spec => StartedOnce
<1>1. Base /\ Columns /\ [Next]_vars => [\A r \in Run : KeepsStart(r)]_vars
  BY StepSafe DEF RowSafe
<1>2. QED
  BY BaseCorrect, InitColumns, StepColumns, <1>1, PTL DEF Spec, StartedOnce

(* Neither verdict nor start of a run is taken back.                       *)
THEOREM HistoryCorrect == Spec => HistoryStands
BY VerdictCorrect, StartedCorrect DEF HistoryStands

(* A clean-up that is not forced never removes an active row, even when it *)
(* marks zombies and then purges what became terminal meanwhile.           *)
THEOREM CleanupCorrect == Spec => CleanupSparesActive
<1>1. Base /\ Columns /\ [Next]_vars => [\A r \in Run : SparesActive(r)]_vars
  BY StepSafe DEF RowSafe
<1>2. QED
  BY BaseCorrect, InitColumns, StepColumns, <1>1, PTL DEF Spec, CleanupSparesActive

-----------------------------------------------------------------------------
(* Where no clean-up sweeps active runs, Prefect is told to stop a flow    *)
(* only after its run was settled.                                         *)

Settled(r) == status[r] \in Terminal \cup {"deleted"}

NoSweeps == \A p \in CleanupRequests : ~HasActiveStatus(p)

StopInv ==
    /\ \A f \in Flow : flow[f] = "cancelling" => Settled(owner[f])
    /\ \A r \in stopping : Settled(r)
    /\ cleanup.step # "stop"

LEMMA SettledStays ==
    ASSUME Base, [Next]_vars, NEW r \in Run, Settled(r)
    PROVE  Settled(r)'
<1> USE DEF Lifecycle!Open, Lifecycle!Verdict, Settled, Terminal
<1>1. status \in [Run -> {"none", "deleted"} \cup Status]
  BY DEF Base, TypeOK
<1>2. ASSUME NEW q \in Run, Lifecycle!Appear(q) \/ Lifecycle!Start(q) PROVE Settled(r)'
  BY <1>1, <1>2 DEF Lifecycle!Appear, Lifecycle!Start
<1>3. ASSUME NEW q \in Run, Lifecycle!GiveUp(q) PROVE Settled(r)'
  BY <1>1, <1>3 DEF Lifecycle!GiveUp
<1>4. ASSUME NEW q \in Run, NEW v \in Lifecycle!Verdict, Lifecycle!Settle(q, v)
      PROVE  Settled(r)'
  BY <1>1, <1>4 DEF Lifecycle!Settle
<1>5. ASSUME NEW R \in SUBSET Run, Lifecycle!SettleAll(R) \/ Lifecycle!Remove(R)
      PROVE  Settled(r)'
  BY <1>5 DEF Lifecycle!SettleAll, Lifecycle!Remove
<1>6. CASE UNCHANGED status
  BY <1>6
<1>7. QED
  BY <1>2, <1>3, <1>4, <1>5, <1>6, Simulation
  DEF Lifecycle!LNext, Lifecycle!Return, Lifecycle!lvars

LEMMA StepStop ==
    ASSUME NoSweeps, Base, RecordedFlowIsOwn, StopInv, [Next]_vars
    PROVE  StopInv'
<1> USE DEF StopInv
<1>1. ASSUME NEW f \in Flow, flow'[f] # "cancelling" \/ flow[f] = "cancelling"
      PROVE  flow'[f] = "cancelling" => Settled(owner[f])'
  <2> SUFFICES ASSUME flow[f] = "cancelling" PROVE Settled(owner[f])'
    BY <1>1
  <2>1. owner[f] \in Run /\ owner'[f] = owner[f]
    BY FlowsKeepOwner DEF Base, Provenance
  <2>2. QED BY <2>1, SettledStays DEF Settled
<1>2. ASSUME NEW r \in stopping PROVE Settled(r)'
  BY SettledStays DEF Base, TypeOK
<1>3. ASSUME stopping' \subseteq stopping, cleanup'.step # "stop",
             \A f \in Flow : flow'[f] # "cancelling" \/ flow[f] = "cancelling"
      PROVE  StopInv'
  BY <1>1, <1>2, <1>3
<1>4. ASSUME NEW r \in Run, CancelWorkflowRun(r) \/ ForceTerminateWorkflowRun(r)
      PROVE  StopInv'
  <2>1. Settled(r)' /\ stopping' = stopping \cup {r} /\ UNCHANGED <<flow, cleanup>>
    BY <1>4 DEF CancelWorkflowRun, ForceTerminateWorkflowRun, Settled, Terminal, prefect,
                Base, TypeOK
  <2>2. QED BY <2>1, <1>1, <1>2
<1>5. ASSUME NEW r \in Run, CancelPrefectFlowRun(r) PROVE StopInv'
  <2>1. r \in stopping /\ stopping' \subseteq stopping /\ UNCHANGED cleanup
    BY <1>5 DEF CancelPrefectFlowRun
  <2>2. ASSUME NEW f \in Flow, flow'[f] = "cancelling", flow[f] # "cancelling"
        PROVE  Settled(owner[f])'
    <3>1. CancelFlowRun(flowId[r]) /\ flowId[r] # NULL
      BY <1>5, <2>2 DEF CancelPrefectFlowRun, prefect
    <3>2. f = flowId[r]
      BY <2>2, <3>1 DEF CancelFlowRun, Base, TypeOK
    <3>3. owner'[f] = r
      BY <3>1, <3>2 DEF CancelFlowRun, RecordedFlowIsOwn
    <3>4. QED BY <2>1, <3>3, <1>2 DEF Settled
  <2>3. QED BY <2>1, <2>2, <1>1, <1>2
<1>6. ASSUME NEW p \in CleanupRequests, NEW scope \in SUBSET Run, CleanupBegin(p, scope)
      PROVE  StopInv'
  <2>1. cleanup'.step = "purge"
    BY <1>6 DEF CleanupBegin, Sweeping, NoSweeps, IdleCleanup
  <2>2. QED BY <1>6, <2>1, <1>3 DEF CleanupBegin, prefect
<1>7. CASE CleanupPurge
  <2>1. cleanup'.step = "reply"
    BY <1>7 DEF CleanupPurge, Base, TypeOK
  <2>2. QED BY <1>7, <2>1, <1>3 DEF CleanupPurge, prefect
<1>8. CASE CleanupReturn
  BY <1>8, <1>3 DEF CleanupReturn, IdleCleanup, prefect
<1>9. CASE Crash
  BY <1>9, <1>3 DEF Crash, IdleCleanup, prefect
<1>10. ASSUME NEW r \in Run, NEW f \in Flow, Accept(r, f), UNCHANGED <<stopping, cleanup>>
       PROVE  StopInv'
  BY <1>10, <1>3 DEF Accept, Base, TypeOK
<1>11. ASSUME NEW f \in Flow, NEW s \in FinalReport, FlowEnds(f, s) PROVE StopInv'
  BY <1>11, <1>3 DEF FlowEnds, Base, TypeOK
<1>12. CASE UNCHANGED <<stopping, cleanup, flow>>
  BY <1>12, <1>3
<1>13. ASSUME NEW r \in Run, Trigger(r) PROVE StopInv'
  BY <1>13, <1>10, <1>12
  DEF Trigger, FindDeployment, RetryFlowRun, GiveUpFlowRun, CreateFlowRun, FailTrigger,
      RecordFlowRun, prefect
<1>14. CASE \/ \E r \in Run, t \in Target, src \in Run \cup {NULL} : CreateRun(r, t, src)
            \/ \E f \in Flow : FlowStarts(f)
            \/ \E m \in sent : HandleCallback(owner[m[1]], m[2])
            \/ Tick \/ UNCHANGED vars
  BY <1>14, <1>12 DEF CreateRun, FlowStarts, HandleCallback, Tick, vars, prefect
<1>15. ~CleanupSweep /\ \A f \in Flow : ~CleanupCancelFlow(f)
  BY DEF CleanupSweep, CleanupCancelFlow
<1>16. QED
  BY <1>4, <1>5, <1>6, <1>7, <1>8, <1>9, <1>11, <1>13, <1>14, <1>15 DEF Next

(* Cancel and force-terminate settle the row first: a flow told to stop    *)
(* never belongs to a run still shown as active.                           *)
THEOREM StopCorrect ==
    ASSUME NoSweeps
    PROVE  Spec => []StoppedRunSettled
<1>1. Init => StopInv
  BY DEF Init, StopInv, IdleCleanup
<1>2. StopInv => StoppedRunSettled
  BY DEF StopInv, StoppedRunSettled, Settled, IsActive, Terminal, Active
<1>3. Base /\ RecordedFlowIsOwn /\ StopInv /\ [Next]_vars => StopInv'
  BY StepStop, NoSweeps
<1>4. QED
  BY BaseCorrect, RecordedCorrect, <1>1, <1>2, <1>3, PTL DEF Spec
=============================================================================
