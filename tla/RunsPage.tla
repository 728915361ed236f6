------------------------------ MODULE RunsPage ------------------------------
(***************************************************************************)
(* The page with the history of workflow runs (SystemWorkflowRunsPage.tsx).*)
(*                                                                         *)
(* The rows come from one query per filter.  A filter that waits for its   *)
(* first data shows the rows of the last filter that had any; a filter     *)
(* seen before shows what it had then.  Rows are polled                    *)
(* only while one of them is active.  The buttons of a row depend on the   *)
(* status that is shown, the server on the one that is stored; there, a    *)
(* settled run never becomes active again (RunLifecycle).                  *)
(***************************************************************************)
EXTENDS Naturals, FiniteSets

CONSTANTS Run, Key,      \* the ids of runs, which ascend, and the workflows
          KeyOf,         \* the workflow of a run
          None, Asked,
          MaxFilters,    \* bound: changes of the filter
          MaxCalls       \* bound: calls of row buttons under way

PageAssumption == /\ Run \subseteq Nat /\ KeyOf \in [Run -> Key]
                  /\ {None, Asked} \cap (Run \cup Key) = {} /\ None # Asked
                  /\ MaxFilters \in Nat /\ MaxCalls \in Nat

VARIABLES stored,     \* the server's runs: "new", "active", "settled" or "deleted"
          filter,     \* the workflow filtered by, or None
          data,       \* what each filter was last answered
          previous,   \* the filter whose data stand in while there are none
          shown,      \* the rows in the table
          fetching,   \* per filter: None, Asked, or the answer under way
          cancellingRunId, terminatingRunId,
          calls,      \* cancellations, terminations and retries not answered
          filters     \* bound: changes of the filter so far

query == <<filter, data, previous, shown, fetching, filters>>
rowCalls == <<cancellingRunId, terminatingRunId, calls>>
vars == <<stored, query, rowCalls>>

Filters == Key \cup {None}

Active == {"active"}

Matching(f) == {r \in Run : f = None \/ KeyOf[r] = f}

(* listWorkflowRuns: the status of each run that is listed *)
Listed(f) == [r \in Run |-> IF r \in Matching(f) /\ stored[r] \in {"active", "settled"}
                              THEN stored[r] ELSE "none"]

NoRows == [r \in Run |-> "none"]

Newer(r) == {n \in Run : n > r}

Init == /\ stored \in {s \in [Run -> {"new", "active", "settled"}] :
                          \A r \in Run : s[r] = "new" => \A n \in Newer(r) : s[n] = "new"}
        /\ filter = None /\ previous = None /\ shown = NoRows /\ filters = 0
        /\ data = [f \in Filters |-> None]
        /\ fetching = [f \in Filters |-> IF f = None THEN Asked ELSE None]
        /\ cancellingRunId = None /\ terminatingRunId = None /\ calls = {}

-----------------------------------------------------------------------------
(* The query                                                               *)

(* The first fetch of the filter has failed: it has nothing to show        *)
Failed == data[filter] = None /\ fetching[filter] = None

StandIn == IF data[previous] = None THEN NoRows ELSE data[previous]

SetFilter(f) ==
    /\ f # filter /\ filters < MaxFilters
    /\ filters' = filters + 1
    /\ filter' = f
    /\ previous' = IF data[filter] # None THEN filter ELSE previous
    /\ shown' = IF data[f] # None THEN data[f] ELSE IF Failed THEN StandIn ELSE shown
    /\ fetching' = [fetching EXCEPT ![f] = IF @ = None THEN Asked ELSE @]
    /\ UNCHANGED <<stored, data, rowCalls>>

(* Mutant: polling goes by the rows that were shown under the filter before *)
MutPoll == /\ data[None] # None /\ \E r \in Run : data[None][r] \in Active
           /\ fetching[filter] = None
           /\ fetching' = [fetching EXCEPT ![filter] = Asked]
           /\ UNCHANGED <<stored, filter, data, previous, shown, filters, rowCalls>>

(* refetchInterval: every three seconds while a row is active *)
Poll == /\ data[filter] # None /\ \E r \in Run : data[filter][r] \in Active
        /\ fetching[filter] = None
        /\ fetching' = [fetching EXCEPT ![filter] = Asked]
        /\ UNCHANGED <<stored, filter, data, previous, shown, filters, rowCalls>>

FetchRead(f) == /\ fetching[f] = Asked
                /\ fetching' = [fetching EXCEPT ![f] = Listed(f)]
                /\ UNCHANGED <<stored, filter, data, previous, shown, filters, rowCalls>>

FetchAnswer(f) == /\ fetching[f] \notin {None, Asked}
                  /\ data' = [data EXCEPT ![f] = fetching[f]]
                  /\ shown' = IF f = filter THEN fetching[f] ELSE shown
                  /\ fetching' = [fetching EXCEPT ![f] = None]
                  /\ UNCHANGED <<stored, filter, previous, filters, rowCalls>>

(* A filter that never had data then has no rows *)
FetchFails(f) == /\ fetching[f] = Asked
                 /\ fetching' = [fetching EXCEPT ![f] = None]
                 /\ shown' = IF f = filter /\ data[f] = None THEN NoRows ELSE shown
                 /\ UNCHANGED <<stored, filter, data, previous, filters, rowCalls>>

(* invalidateQueries: the filter in use is fetched anew; its first fetch,  *)
(* if that is under way, is taken for the new one.                         *)
Invalidate ==
    /\ fetching' = [fetching EXCEPT ![filter] = IF data[filter] # None \/ @ = None THEN Asked
                                                                                  ELSE @]
    /\ shown' = IF Failed THEN StandIn ELSE shown
    /\ UNCHANGED <<filter, data, previous, filters>>

-----------------------------------------------------------------------------
(* The buttons of a row                                                    *)

(* Whether a row is older than thirty minutes, and offers termination in   *)
(* place of cancelling, is left open.  Bound: MaxCalls at a time.          *)
Call(kind, r) == [kind |-> kind, run |-> r]

(* Mutant: the row is shown as cancelled before the server has said so.    *)
MutHandleCancel(r) ==
    /\ Cardinality(calls) < MaxCalls /\ shown[r] \in Active /\ cancellingRunId # r
    /\ cancellingRunId' = r
    /\ calls' = calls \cup {Call("cancel", r)}
    /\ shown' = [shown EXCEPT ![r] = "settled"]
    /\ UNCHANGED <<stored, filter, data, previous, fetching, filters, terminatingRunId>>

HandleCancel(r) ==
    /\ Cardinality(calls) < MaxCalls /\ shown[r] \in Active /\ cancellingRunId # r
    /\ cancellingRunId' = r
    /\ calls' = calls \cup {Call("cancel", r)}
    /\ UNCHANGED <<stored, query, terminatingRunId>>

HandleForceTerminate(r) ==
    /\ Cardinality(calls) < MaxCalls /\ shown[r] \in Active /\ terminatingRunId # r
    /\ terminatingRunId' = r
    /\ calls' = calls \cup {Call("terminate", r)}
    /\ UNCHANGED <<stored, query, cancellingRunId>>

Retry(r) ==
    /\ Cardinality(calls) < MaxCalls /\ shown[r] = "settled"
    /\ \A c \in calls : c.kind # "retry"
    /\ calls' = calls \cup {Call("retry", r)}
    /\ UNCHANGED <<stored, query, cancellingRunId, terminatingRunId>>

(* onSettled clears the one mark there is, whichever run it is for *)
Settled(c) ==
    /\ calls' = calls \ {c}
    /\ cancellingRunId' = IF c.kind = "cancel" THEN None ELSE cancellingRunId
    /\ terminatingRunId' = IF c.kind = "terminate" THEN None ELSE terminatingRunId

CallSucceeds(c) ==
    /\ \/ c.kind # "retry" /\ stored[c.run] = "active"
          /\ stored' = [stored EXCEPT ![c.run] = "settled"]
       \/ c.kind = "retry" /\ stored[c.run] = "settled"
          /\ \E n \in Run : /\ stored[n] = "new" /\ KeyOf[n] = KeyOf[c.run]
                            /\ \A o \in Run \ Newer(n) : o = n \/ stored[o] # "new"
                            /\ stored' = [stored EXCEPT ![n] = "active"]
    /\ Settled(c)
    /\ Invalidate

CallFails(c) == /\ Settled(c)
                /\ UNCHANGED <<stored, query>>

-----------------------------------------------------------------------------
(* The rest of the world                                                   *)

(* A clean-up of this page (RunsCleanup) has deleted rows *)
CleanedUp(gone) == /\ \A r \in gone : stored[r] \in {"active", "settled"}
                   /\ stored' = [r \in Run |-> IF r \in gone THEN "deleted" ELSE stored[r]]
                   /\ Invalidate
                   /\ UNCHANGED rowCalls

RunSettles(r) == /\ stored[r] = "active"
                 /\ stored' = [stored EXCEPT ![r] = "settled"]
                 /\ UNCHANGED <<query, rowCalls>>

Rows == \E r \in Run : HandleCancel(r) \/ HandleForceTerminate(r) \/ Retry(r)

Answers == \E c \in calls : CallSucceeds(c) \/ CallFails(c)

Query == \/ Poll
         \/ \E f \in Filters : SetFilter(f) \/ FetchRead(f) \/ FetchAnswer(f) \/ FetchFails(f)

Next == \/ Query \/ Rows \/ Answers
        \/ \E r \in Run : RunSettles(r)
        \/ \E gone \in SUBSET Run \ {{}} : CleanedUp(gone)

Spec == Init /\ [][Next]_vars

(* The timer goes on, and a fetch that is tried again and again succeeds.  *)
FairSpec == Spec /\ WF_vars(Poll)
                 /\ SF_vars(\E f \in Filters : FetchRead(f))
                 /\ WF_vars(\E f \in Filters : FetchAnswer(f))
-----------------------------------------------------------------------------
(* Properties                                                              *)

RowSet == [Run -> {"none", "active", "settled"}]

(* The state has its types.                                                *)
TypeOK == /\ stored \in [Run -> {"new", "active", "settled", "deleted"}]
          /\ {filter, previous} \subseteq Filters /\ shown \in RowSet
          /\ \A f \in Filters : /\ data[f] # None => data[f] \in RowSet
                                /\ fetching[f] \notin {None, Asked} => fetching[f] \in RowSet
          /\ {cancellingRunId, terminatingRunId} \subseteq Run \cup {None}
          /\ calls \subseteq [kind : {"cancel", "terminate", "retry"}, run : Run]

(* A row that is shown as settled - of this filter, of the one before, or  *)
(* of an earlier visit - is settled or gone at the server, so a retry      *)
(* (:466) never doubles a run that is still active.                        *)
SettledIsSettled == \A r \in Run : shown[r] = "settled" => stored[r] \in {"settled", "deleted"}

Outdated == \E r \in Run : shown[r] = "active" /\ stored[r] # "active"

(* A table that shows runs as active that have ended comes to show none    *)
(* (:161-169), whatever filters, failing fetches and clean-ups intervene.  *)
ActiveIsFollowed == Outdated ~> ~Outdated
=============================================================================
