------------------------------- MODULE TreePages ------------------------------
(***************************************************************************)
(* The tree, the panels of a node, the tree's clipboard of documents, and  *)
(* the session around all pages.  They share no state and no property      *)
(* relates two of them, so one is explored at a time: `page' says which,   *)
(* and the variables of the others are None.                               *)
(***************************************************************************)
EXTENDS Naturals

CONSTANTS None, Asked,
          Cat, MaxCalls,                      \* CategoryPanel
          Node, Doc, MaxTasks, MaxStarts,     \* NodePanels
          PageSize, MaxCopies, MaxPastes,
          MaxClicks,                          \* SourceClipboard, with Node and Doc
          Token, Owner, MaxRequests           \* Session

VARIABLES page,
          parent, shown, selectedIds, selectionParentId, clipboard, isMutating, calls, missed,
          loaded, fetch, early, callsSoFar,
          bound, node, sources, fetchError, selectorOpen, selectedDocs, panel, load, apart,
          unseen, loading, tasks, starts,
          held, sourceOf, copies, docClipboard, asking, pastes, mutating, pasted, clicks,
          stored, issued, token, user, loadingUser, route, loads, entering, logouts, requests,
          late, foreign

CP == INSTANCE CategoryPanel WITH MaxStarts <- MaxCalls, starts <- callsSoFar

NP == INSTANCE NodePanels

SC == INSTANCE SourceClipboard WITH isMutating <- mutating

SE == INSTANCE Session WITH loading <- loadingUser

ASSUME Assumptions == /\ CP!PanelAssumption /\ NP!PanelsAssumption
                      /\ SC!ClipboardAssumption /\ SE!SessionAssumption

tree == <<parent, shown, selectedIds, selectionParentId, clipboard, isMutating, calls, missed,
          loaded, fetch, early, callsSoFar>>
panels == <<bound, node, sources, fetchError, selectorOpen, selectedDocs, panel, load, apart,
            unseen, loading, tasks, starts>>
documents == <<held, sourceOf, copies, docClipboard, asking, pastes, mutating, pasted, clicks>>
session == <<stored, issued, token, user, loadingUser, route, loads, entering, logouts,
             requests, late, foreign>>
vars == <<page, tree, panels, documents, session>>

NoTree == /\ parent = None /\ shown = None /\ selectedIds = None
          /\ selectionParentId = None /\ clipboard = None /\ isMutating = None
          /\ calls = None /\ missed = None /\ loaded = None /\ fetch = None
          /\ early = None /\ callsSoFar = None

NoPanels == /\ bound = None /\ node = None /\ sources = None /\ fetchError = None
            /\ selectorOpen = None /\ selectedDocs = None /\ panel = None /\ load = None
            /\ apart = None /\ unseen = None /\ loading = None /\ tasks = None
            /\ starts = None

NoDocuments == /\ held = None /\ sourceOf = None /\ copies = None /\ docClipboard = None
               /\ asking = None /\ pastes = None /\ mutating = None /\ pasted = None
               /\ clicks = None

NoSession == /\ stored = None /\ issued = None /\ token = None /\ user = None
             /\ loadingUser = None /\ route = None /\ loads = None /\ entering = None
             /\ logouts = None /\ requests = None /\ late = None /\ foreign = None

Init == \/ page = "tree" /\ CP!Init /\ NoPanels /\ NoDocuments /\ NoSession
        \/ page = "panels" /\ NP!Init /\ NoTree /\ NoDocuments /\ NoSession
        \/ page = "documents" /\ SC!Init /\ NoTree /\ NoPanels /\ NoSession
        \/ page = "session" /\ SE!Init /\ NoTree /\ NoPanels /\ NoDocuments

Next == /\ UNCHANGED page
        /\ \/ page = "tree" /\ CP!Next /\ UNCHANGED <<panels, documents, session>>
           \/ page = "panels" /\ NP!Next /\ UNCHANGED <<tree, documents, session>>
           \/ page = "documents" /\ SC!Next /\ UNCHANGED <<tree, panels, session>>
           \/ page = "session" /\ SE!Next /\ UNCHANGED <<tree, panels, documents>>

Spec == Init /\ [][Next]_vars

-----------------------------------------------------------------------------
(* The properties of the parts, which are stated and explained there       *)

(* The state of the page that is shown has its types.                      *)
TypeOK == /\ page = "tree" => CP!TypeOK
          /\ page = "panels" => NP!TypeOK
          /\ page = "documents" => SC!TypeOK
          /\ page = "session" => SE!TypeOK

(* CategoryPanel: a settled tree is the server's.                          *)
TreeFollows == page = "tree" => CP!TreeFollows

(* CategoryPanel: what is selected together is shown under one parent.     *)
SelectionStaysAlike == [][page = "tree" => CP!StaysAlike]_vars

(* NodePanels: both panels show the sources of the node that is shown.     *)
PanelsCurrent == page = "panels" => NP!PanelsCurrent

(* SourceClipboard: what was below the node when it was copied is held.    *)
CopiedWhole == page = "documents" => SC!CopiedWhole

(* SourceClipboard: what pastes have told to be bound is bound.            *)
PasteKept == page = "documents" => SC!PasteKept

(* Session: the user who is shown, the token and what is stored agree.     *)
SessionAgrees == page = "session" => SE!SessionAgrees
=============================================================================
