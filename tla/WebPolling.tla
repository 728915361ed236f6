----------------------------- MODULE WebPolling -----------------------------
(***************************************************************************)
(* The two parts of the web client that follow by polling what goes on at  *)
(* the server: the page of runs and the buttons of an open document.  They *)
(* share nothing, so one of them is explored at a time, while the other    *)
(* rests in one of its initial states.                                     *)
(***************************************************************************)
EXTENDS Naturals

CONSTANTS Run, None, Asked,
          Key, KeyOf, MaxFilters, MaxCalls,    \* RunsPage
          MaxPolls, MaxStarts                  \* DocumentWatch

VARIABLES page,
          rows, filter, data, previous, shown, fetching, cancellingRunId, terminatingRunId,
          calls, filters,
          stored, run, version, wrote, syncStatus, statusFetch, pollCount, triggering,
          launching, currentRunId, progressModalOpen, seen, runFetch, detail, detailFetch,
          failed, starts

RP == INSTANCE RunsPage WITH stored <- rows

DW == INSTANCE DocumentWatch

ASSUME Assumptions == RP!PageAssumption /\ DW!WatchAssumption

runsPage == <<rows, filter, data, previous, shown, fetching, cancellingRunId, terminatingRunId,
              calls, filters>>
watch == <<stored, run, version, wrote, syncStatus, statusFetch, pollCount, triggering,
           launching, currentRunId, progressModalOpen, seen, runFetch, detail, detailFetch,
           failed, starts>>
vars == <<page, runsPage, watch>>

OnRuns(action) == page = "runs" /\ action /\ UNCHANGED <<page, watch>>

OnDocument(action) == page = "document" /\ action /\ UNCHANGED <<page, runsPage>>

Init == /\ RP!Init /\ DW!Init
        /\ \/ page = "runs" /\ stored = "none"
           \/ page = "document" /\ rows = [r \in Run |-> "new"]

Next == OnRuns(RP!Next) \/ OnDocument(DW!Next)

Spec == Init /\ [][Next]_vars

(* The fairness of the two parts, as they state it: no behaviour is on     *)
(* both pages, so one condition of each are taken together.  The requests  *)
(* of the page that rests wait for ever.                                   *)
FairSpec ==
    /\ Spec
    /\ WF_vars(OnRuns(RP!Poll) \/ OnDocument(DW!PollSync))
    /\ SF_vars(\/ OnRuns(\E f \in RP!Filters : RP!FetchRead(f))
               \/ OnDocument(DW!StatusRead))
    /\ WF_vars(OnRuns(\E f \in RP!Filters : RP!FetchAnswer(f)) \/ OnDocument(DW!PollRun))
    /\ SF_vars(OnDocument(DW!StatusAnswer))
    /\ WF_vars(OnDocument(\E r \in Run : DW!RunRead(r) \/ DW!RunAnswer(r)))
-----------------------------------------------------------------------------
(* The properties of the parts, which are stated and explained there       *)

(* Both states have their types.                                           *)
TypeOK == RP!TypeOK /\ DW!TypeOK

(* RunsPage: what is shown as settled is settled.                          *)
SettledIsSettled == RP!SettledIsSettled

(* RunsPage: what is shown as active and has ended is not shown so for     *)
(* ever.                                                                   *)
ActiveIsFollowed == RP!ActiveIsFollowed

(* DocumentWatch: the document is as new as the run that was seen to       *)
(* succeed.                                                                *)
ResultIsShown == DW!ResultIsShown

(* DocumentWatch: the end of what is watched is shown.                     *)
EndIsShown == DW!EndIsShown
=============================================================================
