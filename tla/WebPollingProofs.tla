--------------------------- MODULE WebPollingProofs ---------------------------
(***************************************************************************)
(* Proofs about WebPolling, for any runs, workflows and bounds: of the     *)
(* page of runs (RP, RunsPage), of the buttons of a document (DW,          *)
(* DocumentWatch), and of the two together.                                *)
(***************************************************************************)
EXTENDS WebPolling, TLAPS

-----------------------------------------------------------------------------
(* The page of runs                                                        *)

Answer == RP!RowSet \cup {None, Asked}

Queries == data \in [RP!Filters -> Answer] /\ fetching \in [RP!Filters -> Answer]

(* What was read as settled once stays true: a settled run is at most      *)
(* deleted.                                                                *)
Honest(list) == \A r \in Run : list[r] = "settled" => rows[r] \in {"settled", "deleted"}

(* It is true of every answer on its way, in the cache, or in the table.   *)
AllHonest == /\ Honest(shown)
             /\ \A f \in RP!Filters : /\ data[f] # None => Honest(data[f])
                                      /\ fetching[f] \notin {None, Asked} => Honest(fetching[f])

PageInv == RP!TypeOK /\ Queries /\ AllHonest

(* A step of a run at the server: it may start, settle, and be deleted.    *)
Onward == \A r \in Run : rows[r] \in {"settled", "deleted"} => rows'[r] \in {"settled", "deleted"}

(* Rows that were true before such a step are true after it.               *)
LEMMA HonestStays ==
    ASSUME NEW list, Honest(list), Onward PROVE Honest(list)'
BY DEF Honest, Onward

(* All answers that stay where they are stay true.                         *)
LEMMA AllHonestStays ==
    ASSUME AllHonest, Onward, shown' = shown, data' = data,
           \A f \in RP!Filters : fetching'[f] \in {fetching[f], None, Asked}
    PROVE  AllHonest'
BY DEF AllHonest, Honest, Onward

(* The server's answer has the type of rows, and is true when it is given. *)
LEMMA ListedHonest ==
    ASSUME NEW f \in RP!Filters PROVE RP!Listed(f) \in RP!RowSet /\ Honest(RP!Listed(f))
BY DEF RP!Listed, RP!RowSet, Honest, RP!Matching

LEMMA NoRowsHonest == RP!NoRows \in RP!RowSet /\ Honest(RP!NoRows)
BY DEF RP!NoRows, RP!RowSet, Honest

LEMMA StandInHonest == PageInv => RP!StandIn \in RP!RowSet /\ Honest(RP!StandIn)
BY NoRowsHonest DEF PageInv, RP!TypeOK, AllHonest, RP!StandIn

LEMMA InitPageInv == RP!PageAssumption /\ RP!Init => PageInv
<1> SUFFICES ASSUME RP!PageAssumption, RP!Init PROVE PageInv
  OBVIOUS
<1>1. Queries
  BY DEF RP!Init, Queries, Answer
<1>2. \A f \in RP!Filters : data[f] = None /\ fetching[f] \in {None, Asked}
  BY DEF RP!Init
<1>3. AllHonest
  BY <1>2, NoRowsHonest DEF RP!Init, AllHonest, RP!PageAssumption
<1>4. RP!TypeOK
  BY <1>2, NoRowsHonest DEF RP!Init, RP!TypeOK, RP!Filters, RP!Call
<1> QED
  BY <1>1, <1>3, <1>4 DEF PageInv

(* Changes of the filter, and fetches.                                     *)
LEMMA QueryPageInv ==
    ASSUME RP!PageAssumption, PageInv, RP!Query PROVE PageInv'
<1> USE DEF PageInv
<1>o. rows' = rows /\ Onward /\ UNCHANGED RP!rowCalls
  BY DEF RP!Query, RP!Poll, RP!SetFilter, RP!FetchRead, RP!FetchAnswer, RP!FetchFails, Onward, RP!rowCalls
<1>f. filter \in RP!Filters
  BY DEF RP!TypeOK
<1>1. CASE RP!Poll
  <2>1. fetching' = [fetching EXCEPT ![filter] = Asked] /\ data' = data
        /\ shown' = shown /\ filter' = filter /\ previous' = previous
    BY <1>1 DEF RP!Poll
  <2>2. Queries'
    BY <2>1, <1>f DEF Queries, Answer
  <2>3. AllHonest'
    BY <2>1, <1>o, <1>f, AllHonestStays DEF Queries
  <2>4. RP!TypeOK'
    BY <2>1, <1>o, <1>f DEF RP!TypeOK, Queries, RP!rowCalls
  <2> QED
    BY <2>2, <2>3, <2>4
<1>2. ASSUME NEW f \in RP!Filters, RP!SetFilter(f) PROVE PageInv'
  <2>1. /\ fetching' = [fetching EXCEPT ![f] = IF @ = None THEN Asked ELSE @] /\ data' = data
        /\ filter' = f
    BY <1>2 DEF RP!SetFilter
  <2>p. previous' = filter \/ previous' = previous
    BY <1>2 DEF RP!SetFilter
  <2>s. \/ shown' = shown \/ shown' = RP!StandIn
        \/ data[f] # None /\ shown' = data[f]
    BY <1>2 DEF RP!SetFilter
  <2>2. Queries'
    BY <2>1 DEF Queries, Answer
  <2>3. \A g \in RP!Filters : fetching'[g] \in {fetching[g], None, Asked}
    BY <2>1 DEF Queries
  <2>4. shown' \in RP!RowSet /\ Honest(shown)'
    <3>1. RP!StandIn \in RP!RowSet /\ Honest(RP!StandIn)
      BY StandInHonest
    <3> QED
      BY <2>s, <3>1, <1>o DEF RP!TypeOK, AllHonest, Honest
  <2>5. AllHonest'
    BY <2>1, <2>3, <2>4, <1>o DEF AllHonest, Honest
  <2>6. RP!TypeOK'
    BY <2>1, <2>p, <1>f, <2>3, <2>4, <1>o DEF RP!TypeOK, RP!rowCalls
  <2> QED
    BY <2>2, <2>5, <2>6
<1>3. ASSUME NEW f \in RP!Filters, RP!FetchRead(f) PROVE PageInv'
  <2>1. fetching' = [fetching EXCEPT ![f] = RP!Listed(f)] /\ data' = data
        /\ shown' = shown /\ filter' = filter /\ previous' = previous
    BY <1>3 DEF RP!FetchRead
  <2>2. Queries'
    BY <2>1, ListedHonest DEF Queries, Answer
  <2>3. \A g \in RP!Filters : fetching'[g] = IF g = f THEN RP!Listed(f) ELSE fetching[g]
    BY <2>1 DEF Queries
  <2>4. RP!Listed(f) \in RP!RowSet /\ Honest(RP!Listed(f))
    BY ListedHonest
  <2>5. AllHonest'
    BY <2>1, <2>3, <2>4, <1>o DEF AllHonest, Honest
  <2>6. RP!TypeOK'
    BY <2>1, <2>3, <2>4, <1>o DEF RP!TypeOK, RP!rowCalls
  <2> QED
    BY <2>2, <2>5, <2>6
<1>4. ASSUME NEW f \in RP!Filters, RP!FetchAnswer(f) PROVE PageInv'
  <2>1. /\ fetching[f] \notin {None, Asked} /\ filter' = filter /\ previous' = previous
        /\ data' = [data EXCEPT ![f] = fetching[f]]
        /\ shown' = IF f = filter THEN fetching[f] ELSE shown
        /\ fetching' = [fetching EXCEPT ![f] = None]
    BY <1>4 DEF RP!FetchAnswer
  <2>2. Queries'
    BY <2>1 DEF Queries, Answer
  <2>3. \A g \in RP!Filters : /\ fetching'[g] \in {fetching[g], None}
                              /\ data'[g] = IF g = f THEN fetching[f] ELSE data[g]
    BY <2>1 DEF Queries
  <2>4. fetching[f] \in RP!RowSet /\ Honest(fetching[f])
    BY <2>1 DEF RP!TypeOK, AllHonest
  <2>5. AllHonest'
    BY <2>1, <2>3, <2>4, <1>o DEF AllHonest, Honest
  <2>6. RP!TypeOK'
    BY <2>1, <2>3, <2>4, <1>o DEF RP!TypeOK, RP!rowCalls
  <2> QED
    BY <2>2, <2>5, <2>6
<1>5. ASSUME NEW f \in RP!Filters, RP!FetchFails(f) PROVE PageInv'
  <2>1. /\ fetching' = [fetching EXCEPT ![f] = None] /\ data' = data
        /\ filter' = filter /\ previous' = previous
        /\ shown' = IF f = filter /\ data[f] = None THEN RP!NoRows ELSE shown
    BY <1>5 DEF RP!FetchFails
  <2>2. Queries'
    BY <2>1 DEF Queries, Answer
  <2>3. \A g \in RP!Filters : fetching'[g] \in {fetching[g], None}
    BY <2>1 DEF Queries
  <2>4. AllHonest'
    BY <2>1, <2>3, <1>o, NoRowsHonest DEF AllHonest, Honest
  <2>5. RP!TypeOK'
    BY <2>1, <2>3, <1>o, NoRowsHonest DEF RP!TypeOK, RP!rowCalls
  <2> QED
    BY <2>2, <2>4, <2>5
<1> QED
  BY <1>1, <1>2, <1>3, <1>4, <1>5 DEF RP!Query

(* Steps that leave the query alone, or have the filter in use fetched     *)
(* anew.                                                                   *)
LEMMA OtherPageInv ==
    ASSUME RP!PageAssumption, PageInv, Onward,
           rows' \in [Run -> {"new", "active", "settled", "deleted"}],
           UNCHANGED RP!query \/ RP!Invalidate,
           {cancellingRunId, terminatingRunId}' \subseteq Run \cup {None},
           calls' \subseteq [kind : {"cancel", "terminate", "retry"}, run : Run]
    PROVE  PageInv'
<1> USE DEF PageInv
<1>1. filter \in RP!Filters /\ UNCHANGED <<filter, data, previous>>
  BY DEF RP!TypeOK, RP!Invalidate, RP!query
<1>2. \A f \in RP!Filters : fetching'[f] \in {fetching[f], None, Asked}
  BY <1>1 DEF RP!Invalidate, RP!query, Queries
<1>3. Queries'
  BY <1>1 DEF Queries, Answer, RP!Invalidate, RP!query
<1>4. shown' \in RP!RowSet /\ Honest(shown)'
  BY StandInHonest DEF RP!Invalidate, RP!query, RP!TypeOK, AllHonest, Honest, Onward
<1>5. AllHonest'
  BY <1>1, <1>2, <1>4 DEF AllHonest, Honest, Onward
<1>6. RP!TypeOK'
  BY <1>1, <1>2, <1>4 DEF RP!TypeOK
<1> QED
  BY <1>3, <1>5, <1>6

LEMMA NextPageInv == RP!PageAssumption /\ PageInv /\ (RP!Next \/ UNCHANGED RP!vars) => PageInv'
<1> SUFFICES ASSUME RP!PageAssumption, PageInv, RP!Next \/ UNCHANGED RP!vars PROVE PageInv'
  OBVIOUS
<1> DEFINE Marks == {cancellingRunId, terminatingRunId} \subseteq Run \cup {None}
           Kinds == calls \subseteq [kind : {"cancel", "terminate", "retry"}, run : Run]
           States == [Run -> {"new", "active", "settled", "deleted"}]
<1>t. Marks /\ Kinds /\ rows \in States
  BY DEF PageInv, RP!TypeOK
<1>1. CASE RP!Query
  BY <1>1, QueryPageInv
<1>2. ASSUME NEW r \in Run, RP!HandleCancel(r) \/ RP!HandleForceTerminate(r) \/ RP!Retry(r) PROVE PageInv'
  <2>1. UNCHANGED <<rows, RP!query>>
    BY <1>2 DEF RP!HandleCancel, RP!HandleForceTerminate, RP!Retry
  <2>2. Marks' /\ Kinds'
    BY <1>2, <1>t DEF RP!HandleCancel, RP!HandleForceTerminate, RP!Retry, RP!Call
  <2> QED
    BY <2>1, <2>2, <1>t, OtherPageInv DEF Onward
<1>3. ASSUME NEW c \in calls, RP!CallSucceeds(c) \/ RP!CallFails(c) PROVE PageInv'
  <2>1. Marks' /\ Kinds'
    BY <1>3, <1>t DEF RP!CallSucceeds, RP!CallFails, RP!Settled
  <2>2. c.run \in Run
    BY <1>t
  <2>3. rows' \in States /\ Onward
    <3>1. CASE rows[c.run] = "active" /\ rows' = [rows EXCEPT ![c.run] = "settled"]
      BY <3>1, <2>2, <1>t DEF Onward
    <3>2. CASE \E n \in Run : rows[n] = "new" /\ rows' = [rows EXCEPT ![n] = "active"]
      BY <3>2, <1>t DEF Onward
    <3>3. CASE UNCHANGED rows
      BY <3>3, <1>t DEF Onward
    <3> QED
      BY <1>3, <3>1, <3>2, <3>3 DEF RP!CallSucceeds, RP!CallFails
  <2>4. UNCHANGED RP!query \/ RP!Invalidate
    BY <1>3 DEF RP!CallSucceeds, RP!CallFails
  <2> QED
    BY <2>1, <2>3, <2>4, OtherPageInv
<1>4. ASSUME NEW r \in Run, RP!RunSettles(r) PROVE PageInv'
  <2>1. rows' \in States /\ Onward
    BY <1>4, <1>t DEF RP!RunSettles, Onward
  <2>2. UNCHANGED <<RP!query, RP!rowCalls>>
    BY <1>4 DEF RP!RunSettles
  <2> QED
    BY <2>1, <2>2, <1>t, OtherPageInv DEF RP!rowCalls
<1>5. ASSUME NEW gone \in SUBSET Run, RP!CleanedUp(gone) PROVE PageInv'
  <2>1. rows' \in States /\ Onward
    BY <1>5, <1>t DEF RP!CleanedUp, Onward
  <2>2. UNCHANGED RP!rowCalls /\ RP!Invalidate
    BY <1>5 DEF RP!CleanedUp
  <2> QED
    BY <2>1, <2>2, <1>t, OtherPageInv DEF RP!rowCalls
<1>6. CASE UNCHANGED RP!vars
  BY <1>6, <1>t, OtherPageInv DEF RP!vars, RP!rowCalls, Onward
<1> QED
  BY <1>1, <1>2, <1>3, <1>4, <1>5, <1>6 DEF RP!Next, RP!Rows, RP!Answers

-----------------------------------------------------------------------------
(* The buttons of a document                                               *)

(* What is known of a run was true of it when it was read, and the current *)
(* run, like every one asked about, has been triggered.                    *)
RunsKnown ==
    \A r \in Run :
        /\ run[r] = "new" => seen[r] = None /\ runFetch[r] = None /\ currentRunId # r
        /\ "success" \in {seen[r], runFetch[r]} => run[r] = "success"
        /\ wrote[r] <= version

(* Once the current run was seen to succeed, its document is in the        *)
(* editor, or on its way, or asked for, or a fetch of it has failed.       *)
ResultComes ==
    currentRunId # None /\ seen[currentRunId] = "success" =>
        \/ failed \/ detailFetch = Asked
        \/ detailFetch \in Nat /\ detailFetch >= wrote[currentRunId]
        \/ detailFetch = None /\ detail >= wrote[currentRunId]

WatchInv == DW!TypeOK /\ RunsKnown /\ ResultComes

LEMMA InitWatchInv == DW!WatchAssumption /\ DW!Init => WatchInv
<1> SUFFICES ASSUME DW!WatchAssumption, DW!Init PROVE WatchInv
  OBVIOUS
<1>1. DW!TypeOK
  <2> USE DEF DW!WatchAssumption, DW!Init, DW!Ended, DW!RunStates, DW!SyncStates
  <2>1. {triggering, launching, progressModalOpen, failed} \subseteq BOOLEAN
    BY Zenon
  <2> QED
    BY <2>1 DEF DW!TypeOK
<1>2. None # "success" /\ None \notin Run /\ currentRunId = None /\ version = 0
  BY DEF DW!WatchAssumption, DW!Init, DW!RunStates, DW!Ended
<1>3. \A r \in Run : seen[r] = None /\ runFetch[r] = None /\ run[r] = "new" /\ wrote[r] = 0
  BY DEF DW!Init
<1>4. RunsKnown
  <2> SUFFICES ASSUME NEW r \in Run
               PROVE  /\ currentRunId # r /\ wrote[r] <= version
                      /\ "success" \in {seen[r], runFetch[r]} => run[r] = "success"
    BY <1>3 DEF RunsKnown
  <2>1. currentRunId # r
    BY <1>2
  <2>2. wrote[r] <= version
    BY <1>2, <1>3
  <2>3. "success" \notin {seen[r], runFetch[r]}
    BY <1>2, <1>3
  <2> QED
    BY <2>1, <2>2, <2>3
<1>5. ResultComes
  BY <1>2 DEF ResultComes
<1> QED
  BY <1>1, <1>4, <1>5 DEF WatchInv

(* Fetches of the document: a read gives the version there is.             *)
LEMMA DetailWatchInv ==
    ASSUME DW!WatchAssumption, WatchInv, DW!DetailRead \/ DW!DetailAnswer \/ DW!DetailFails
    PROVE  WatchInv'
<1> USE DEF WatchInv, DW!WatchAssumption
<1>1. UNCHANGED <<DW!server, DW!sync, DW!workflow, starts>>
  BY DEF DW!DetailRead, DW!DetailAnswer, DW!DetailFails
<1>2. DW!TypeOK'
  BY <1>1 DEF DW!TypeOK, DW!DetailRead, DW!DetailAnswer, DW!DetailFails, DW!server, DW!sync,
              DW!workflow
<1>3. RunsKnown'
  BY <1>1 DEF RunsKnown, DW!server, DW!workflow
<1>4. ResultComes'
  BY <1>1 DEF DW!TypeOK, RunsKnown, ResultComes, DW!DetailRead, DW!DetailAnswer,
              DW!DetailFails, DW!server, DW!workflow
<1> QED
  BY <1>2, <1>3, <1>4

(* Steps that tell nothing of runs: the document at most is asked for.     *)
LEMMA OtherWatchInv ==
    ASSUME DW!WatchAssumption, WatchInv, DW!TypeOK',
           UNCHANGED <<run, version, wrote, currentRunId, seen, detail, failed>>,
           detailFetch' = detailFetch \/ detailFetch' = Asked,
           \A r \in Run : \/ runFetch'[r] = runFetch[r]
                          \/ run[r] # "new" /\ runFetch'[r] \in {Asked, run[r]}
    PROVE  WatchInv'
<1> USE DEF WatchInv, DW!WatchAssumption
<1>1. RunsKnown'
  BY DEF RunsKnown, DW!RunStates, DW!Ended
<1>2. ResultComes'
  BY DEF ResultComes
<1> QED
  BY <1>1, <1>2

LEMMA SyncWatchInv ==
    ASSUME DW!WatchAssumption, WatchInv, DW!SyncButton PROVE WatchInv'
<1> USE DEF WatchInv
<1>1. DW!TypeOK'
  <2> USE DEF DW!TypeOK, DW!server, DW!workflow, DW!document, DW!SyncStates,
              DW!WatchAssumption
  <2>0. \A status : DW!RefetchInterval(status) => pollCount' \in 0..MaxPolls
    BY DEF DW!RefetchInterval
  <2>1. CASE DW!StatusAnswer
    BY <2>0, <2>1 DEF DW!StatusAnswer, DW!InvalidateDetail
  <2>2. CASE DW!TriggerSync
    BY <2>2 DEF DW!TriggerSync
  <2>3. CASE DW!SyncTriggered \/ DW!SyncRefused
    BY <2>0, <2>3 DEF DW!SyncTriggered, DW!SyncRefused
  <2>4. CASE DW!PollSync \/ DW!RefreshSync
    BY <2>0, <2>4 DEF DW!PollSync, DW!RefreshSync
  <2>5. CASE DW!Render \/ DW!StatusRead \/ DW!StatusFails
    BY <2>0, <2>5 DEF DW!Render, DW!StatusRead, DW!StatusFails
  <2> QED
    BY <2>1, <2>2, <2>3, <2>4, <2>5 DEF DW!SyncButton
<1>2. /\ UNCHANGED <<run, version, wrote, currentRunId, seen, runFetch, detail, failed>>
      /\ detailFetch' = detailFetch \/ detailFetch' = Asked
  BY DEF DW!SyncButton, DW!TriggerSync, DW!SyncTriggered, DW!SyncRefused, DW!PollSync,
         DW!RefreshSync, DW!Render, DW!StatusRead, DW!StatusAnswer, DW!StatusFails,
         DW!InvalidateDetail, DW!server, DW!workflow, DW!document
<1> QED
  BY <1>1, <1>2, OtherWatchInv

(* The buttons of runs, the progress that is shown, and polling it.        *)
LEMMA WorkflowWatchInv ==
    ASSUME DW!WatchAssumption, WatchInv, DW!WorkflowButton PROVE WatchInv'
<1> USE DEF WatchInv, DW!WatchAssumption
<1>1. CASE DW!TriggerWorkflow \/ DW!WorkflowRefused \/ DW!CloseProgress
  <2>0. launching' \in BOOLEAN /\ progressModalOpen' \in BOOLEAN
    BY <1>1, Zenon DEF DW!TriggerWorkflow, DW!WorkflowRefused, DW!CloseProgress, DW!TypeOK
  <2>1. DW!TypeOK'
    BY <1>1, <2>0 DEF DW!TriggerWorkflow, DW!WorkflowRefused, DW!CloseProgress, DW!TypeOK,
                      DW!server, DW!sync, DW!document
  <2>2. UNCHANGED <<run, version, wrote, currentRunId, seen, runFetch, detail, detailFetch,
                    failed>>
    BY <1>1 DEF DW!TriggerWorkflow, DW!WorkflowRefused, DW!CloseProgress, DW!server,
                DW!document
  <2> QED
    BY <2>1, <2>2, OtherWatchInv
<1>2. CASE DW!ShowProgress \/ DW!PollRun
  <2>1. currentRunId \in Run
    BY <1>2 DEF DW!ShowProgress, DW!PollRun, DW!TypeOK
  <2>2. /\ UNCHANGED <<run, version, wrote, currentRunId, seen, detail, detailFetch, failed>>
        /\ runFetch' \in [Run -> {None, Asked, "active"} \cup DW!Ended]
        /\ \A r \in Run : \/ runFetch'[r] = runFetch[r]
                          \/ r = currentRunId /\ runFetch'[r] = Asked
    BY <1>2, <2>1 DEF DW!ShowProgress, DW!PollRun, DW!TypeOK, DW!server, DW!document
  <2>3. DW!TypeOK'
    BY <1>2, <2>2 DEF DW!ShowProgress, DW!PollRun, DW!TypeOK, DW!server, DW!sync, DW!document
  <2> QED
    BY <2>1, <2>2, <2>3, OtherWatchInv DEF RunsKnown
<1>3. ASSUME NEW r \in Run, DW!RunRead(r) PROVE WatchInv'
  <2>1. run[r] \in {"active"} \cup DW!Ended
    BY <1>3 DEF DW!RunRead, RunsKnown, DW!TypeOK, DW!RunStates
  <2>2. DW!TypeOK'
    BY <1>3, <2>1 DEF DW!RunRead, DW!TypeOK, DW!server, DW!sync, DW!document
  <2>3. UNCHANGED <<run, version, wrote, currentRunId, seen, detail, detailFetch, failed>>
    BY <1>3 DEF DW!RunRead, DW!server, DW!document
  <2>4. \A q \in Run : \/ runFetch'[q] = runFetch[q]
                       \/ run[q] # "new" /\ runFetch'[q] = run[q]
    BY <1>3, <2>1 DEF DW!RunRead, DW!TypeOK, DW!Ended
  <2> QED
    BY <2>2, <2>3, <2>4, OtherWatchInv
<1>4. ASSUME NEW r \in Run, DW!RunAnswer(r) PROVE WatchInv'
  <2>1. /\ UNCHANGED <<DW!server, DW!sync, launching, currentRunId, detail, failed, starts>>
        /\ runFetch[r] \in {"active"} \cup DW!Ended
        /\ seen' = [seen EXCEPT ![r] = runFetch[r]]
        /\ runFetch' = [runFetch EXCEPT ![r] = None]
        /\ detailFetch' = detailFetch \/ detailFetch' = Asked
        /\ r = currentRunId /\ runFetch[r] = "success" /\ seen[r] # "success" =>
             detailFetch' = Asked
    BY <1>4 DEF DW!RunAnswer, DW!TypeOK, DW!InvalidateDetail
  <2>2. progressModalOpen' \in BOOLEAN
    BY <1>4, Zenon DEF DW!RunAnswer
  <2>3. DW!TypeOK'
    BY <2>1, <2>2 DEF DW!TypeOK, DW!server, DW!sync
  <2>4. \A q \in Run : /\ seen'[q] = IF q = r THEN runFetch[r] ELSE seen[q]
                       /\ runFetch'[q] = IF q = r THEN None ELSE runFetch[q]
    BY <2>1 DEF DW!TypeOK
  <2>5. RunsKnown'
    BY <2>1, <2>4 DEF RunsKnown, DW!server, DW!RunStates, DW!Ended
  <2>6. ResultComes'
    BY <2>1, <2>4 DEF ResultComes, DW!server, DW!TypeOK
  <2> QED
    BY <2>3, <2>5, <2>6
<1>5. ASSUME NEW r \in Run, DW!WorkflowTriggered(r) PROVE WatchInv'
  <2>1. /\ UNCHANGED <<stored, version, wrote, DW!sync, progressModalOpen, seen, DW!document,
                       starts>>
        /\ run[r] = "new" /\ run' = [run EXCEPT ![r] = "active"]
        /\ launching' = FALSE /\ currentRunId' = r
        /\ runFetch' \in {runFetch, [runFetch EXCEPT ![r] = Asked]}
    BY <1>5 DEF DW!WorkflowTriggered
  <2>2. DW!TypeOK'
    <3>1. launching' \in BOOLEAN
      BY <2>1, Zenon
    <3> QED
      BY <2>1, <3>1 DEF DW!TypeOK, DW!sync, DW!document, DW!RunStates
  <2>3. \A q \in Run : /\ run'[q] = IF q = r THEN "active" ELSE run[q]
                       /\ runFetch'[q] # runFetch[q] => q = r /\ runFetch'[q] = Asked
    BY <2>1 DEF DW!TypeOK
  <2>4. RunsKnown'
    BY <2>1, <2>3 DEF RunsKnown, DW!RunStates, DW!Ended
  <2>5. ResultComes'
    BY <2>1 DEF ResultComes, RunsKnown, DW!RunStates, DW!Ended
  <2> QED
    BY <2>2, <2>4, <2>5
<1> QED
  BY <1>1, <1>2, <1>3, <1>4, <1>5 DEF DW!WorkflowButton

(* A run that succeeds leaves a new version; the one that was seen to      *)
(* succeed before is not written again.                                    *)
LEMMA EndsWatchInv ==
    ASSUME DW!WatchAssumption, WatchInv, NEW r \in Run, DW!RunEnds(r) PROVE WatchInv'
<1> USE DEF WatchInv, DW!WatchAssumption
<1>1. /\ UNCHANGED <<stored, DW!sync, DW!workflow, DW!document, starts>>
      /\ run[r] = "active"
      /\ \/ /\ run' = [run EXCEPT ![r] = "success"] /\ version' = version + 1
            /\ wrote' = [wrote EXCEPT ![r] = version + 1]
         \/ /\ \E s \in {"failed", "cancelled"} : run' = [run EXCEPT ![r] = s]
            /\ UNCHANGED <<version, wrote>>
  BY DEF DW!RunEnds
<1>2. /\ run' \in [Run -> DW!RunStates] /\ version' \in Nat /\ wrote' \in [Run -> Nat]
      /\ version <= version' /\ \A q \in Run : wrote'[q] <= version'
      /\ \A q \in Run \ {r} : run'[q] = run[q] /\ wrote'[q] = wrote[q]
      /\ run'[r] # "new"
  BY <1>1 DEF DW!TypeOK, DW!RunStates, DW!Ended, RunsKnown
<1>3. DW!TypeOK'
  BY <1>1, <1>2 DEF DW!TypeOK, DW!sync, DW!workflow, DW!document
<1>4. seen[r] # "success" /\ runFetch[r] # "success"
  BY <1>1 DEF RunsKnown
<1>5. RunsKnown'
  BY <1>1, <1>2, <1>4 DEF RunsKnown, DW!workflow
<1>6. ResultComes'
  BY <1>1, <1>2, <1>4 DEF ResultComes, DW!workflow, DW!document, DW!TypeOK
<1> QED
  BY <1>3, <1>5, <1>6

LEMMA NextWatchInv ==
    ASSUME DW!WatchAssumption, WatchInv, DW!Next \/ UNCHANGED DW!vars PROVE WatchInv'
<1>1. CASE DW!SyncEnds
  <2>1. /\ UNCHANGED <<run, version, wrote, DW!sync, DW!workflow, DW!document, starts>>
        /\ stored' \in DW!SyncStates
    BY <1>1 DEF DW!SyncEnds, DW!SyncStates
  <2>2. DW!TypeOK'
    BY <2>1 DEF WatchInv, DW!TypeOK, DW!sync, DW!workflow, DW!document
  <2> QED
    BY <2>1, <2>2, OtherWatchInv DEF DW!workflow, DW!document
<1>2. CASE UNCHANGED DW!vars
  <2> USE <1>2 DEF DW!vars, DW!server, DW!sync, DW!workflow, DW!document
  <2>1. DW!TypeOK'
    BY DEF WatchInv, DW!TypeOK
  <2> QED
    BY <2>1, OtherWatchInv
<1> QED
  BY <1>1, <1>2, SyncWatchInv, WorkflowWatchInv, EndsWatchInv, DetailWatchInv DEF DW!Next

-----------------------------------------------------------------------------
(* The two together: no step disturbs the part that rests.                 *)

Inv == PageInv /\ WatchInv

LEMMA Invariant == Spec => []Inv
<1>1. Init => Inv
  BY Assumptions, InitPageInv, InitWatchInv DEF Init, Inv
<1>2. Inv /\ [Next]_vars => Inv'
  <2> SUFFICES ASSUME Inv, [Next]_vars PROVE Inv'
    OBVIOUS
  <2>1. RP!Next \/ UNCHANGED RP!vars
    BY DEF Next, OnRuns, OnDocument, vars, runsPage, RP!vars, RP!query, RP!rowCalls
  <2>2. DW!Next \/ UNCHANGED DW!vars
    BY DEF Next, OnRuns, OnDocument, vars, watch, DW!vars, DW!server, DW!sync, DW!workflow,
           DW!document
  <2> QED
    BY <2>1, <2>2, Assumptions, NextPageInv, NextWatchInv DEF Inv
<1> QED
  BY <1>1, <1>2, PTL DEF Spec

(* The state of both parts has its types.                                  *)
THEOREM TypeCorrect == Spec => []TypeOK
<1>1. Inv => TypeOK
  BY DEF Inv, PageInv, WatchInv, TypeOK
<1> QED
  BY <1>1, Invariant, PTL

(* A row that is shown as settled is settled or gone at the server,        *)
(* whatever filters, late answers, failures and clean-ups came between     *)
(* reading and showing it (SystemWorkflowRunsPage.tsx:161-169, 466).       *)
THEOREM SettledCorrect == Spec => []SettledIsSettled
<1>1. Inv => SettledIsSettled
  BY DEF Inv, PageInv, AllHonest, Honest, SettledIsSettled, RP!SettledIsSettled
<1> QED
  BY <1>1, Invariant, PTL

(* The document in the editor is at least what the current run wrote, once *)
(* that was seen to succeed and no fetch is under way or has failed        *)
(* (DocumentWorkflowButton.tsx:104-112).                                   *)
THEOREM ResultCorrect == Spec => []ResultIsShown
<1>1. Inv => ResultIsShown
  <2> SUFFICES ASSUME Inv, detailFetch = None, ~failed, currentRunId # None,
                      seen[currentRunId] = "success"
               PROVE  detail >= wrote[currentRunId]
    BY DEF ResultIsShown, DW!ResultIsShown
  <2>1. None \notin Nat /\ None # Asked
    BY Assumptions DEF DW!WatchAssumption
  <2> QED
    BY <2>1 DEF Inv, WatchInv, ResultComes
<1> QED
  BY <1>1, Invariant, PTL
=============================================================================
