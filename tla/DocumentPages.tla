----------------------------- MODULE DocumentPages -----------------------------
(***************************************************************************)
(* The editor of a document, the list of documents of a node, the drawer   *)
(* with the versions of a document, and the clean-up dialogs of the        *)
(* history of runs.  None reads what another one keeps, so one is open at a*)
(* time: `page' says which, and the variables of the others are None.      *)
(***************************************************************************)
CONSTANTS None, Asked,
          Refs, MaxEdits, MaxWrites,                          \* DocumentEditor
          Doc, Node, View, NodeOf, Matches, MaxTasks, MaxStarts,   \* DocumentPlaces
          Versioned, PageSize, MaxVersions, MaxRestores,      \* DocumentHistory
          Statuses, Active, Key                               \* RunsCleanup

VARIABLES page,
          server, cache, draft, isOpen, fetch, saving, changes, loading, upload, used,
          exposed, overlap, mixed, agreed,
          placed, binned, purged, view, data, fetching, early, tasks, failed, together, left,
          starts,
          versions, documentHistoryState, documentHistoryDocId, historyPage, answers, asking,
          selectedVersion, restores, restoring, outdated, troubled, restored,
          filter, options, showModal, showConfirm, counted, cleaning, touched

ED == INSTANCE DocumentEditor

DP == INSTANCE DocumentPlaces

DH == INSTANCE DocumentHistory WITH Doc <- Versioned

RC == INSTANCE RunsCleanup

ASSUME Assumptions == /\ ED!EditorAssumption /\ DP!PlacesAssumption
                      /\ DH!HistoryAssumption /\ RC!CleanupAssumption

editor == <<server, cache, draft, isOpen, fetch, saving, changes, loading, upload, used,
            exposed, overlap, mixed, agreed>>
places == <<placed, binned, purged, view, data, fetching, early, tasks, failed, together,
            left, starts>>
drawer == <<versions, documentHistoryState, documentHistoryDocId, historyPage, answers, asking,
            selectedVersion, restores, restoring, outdated, troubled, restored>>
cleanup == <<filter, options, showModal, showConfirm, counted, cleaning, touched>>
vars == <<page, editor, places, drawer, cleanup>>

NoEditor == /\ server = None /\ cache = None /\ draft = None /\ isOpen = None
            /\ fetch = None /\ saving = None /\ changes = None /\ loading = None
            /\ upload = None /\ used = None /\ exposed = None /\ overlap = None
            /\ mixed = None /\ agreed = None

NoPlaces == /\ placed = None /\ binned = None /\ purged = None /\ view = None
            /\ data = None /\ fetching = None /\ early = None /\ tasks = None /\ failed = None
            /\ together = None /\ left = None /\ starts = None

NoDrawer == /\ versions = None /\ documentHistoryState = None /\ documentHistoryDocId = None
            /\ historyPage = None /\ answers = None /\ asking = None
            /\ selectedVersion = None /\ restores = None /\ restoring = None
            /\ outdated = None /\ troubled = None /\ restored = None

NoCleanup == /\ filter = None /\ options = None /\ showModal = None
             /\ showConfirm = None /\ counted = None /\ cleaning = None
             /\ touched = None

Init == \/ page = "editor" /\ ED!Init /\ NoPlaces /\ NoDrawer /\ NoCleanup
        \/ page = "places" /\ DP!Init /\ NoEditor /\ NoDrawer /\ NoCleanup
        \/ page = "drawer" /\ DH!Init /\ NoEditor /\ NoPlaces /\ NoCleanup
        \/ page = "cleanup" /\ RC!Init /\ NoEditor /\ NoPlaces /\ NoDrawer

Next == /\ UNCHANGED page
        /\ \/ page = "editor" /\ ED!Next /\ UNCHANGED <<places, drawer, cleanup>>
           \/ page = "places" /\ DP!Next /\ UNCHANGED <<editor, drawer, cleanup>>
           \/ page = "drawer" /\ DH!Next /\ UNCHANGED <<editor, places, cleanup>>
           \/ page = "cleanup" /\ RC!Next /\ UNCHANGED <<editor, places, drawer>>

Spec == Init /\ [][Next]_vars

-----------------------------------------------------------------------------
(* The properties of the parts, which are stated and explained there       *)

(* The state of the page that is shown has its types.                      *)
TypeOK == /\ page = "editor" => ED!TypeOK
          /\ page = "places" => DP!TypeOK
          /\ page = "drawer" => DH!TypeOK
          /\ page = "cleanup" => RC!TypeOK

(* DocumentEditor: after saving, the editor shows what is stored.          *)
CacheCurrent == page = "editor" => ED!CacheCurrent

(* DocumentEditor: text that was put into a calm form stays there.         *)
DraftKept == [][page = "editor" => ED!KeepsDraft]_vars

(* DocumentEditor: saving does not bring back old references.              *)
ReferencesKept == page = "editor" => ED!ReferencesKept

(* DocumentPlaces, DocumentHistory: a list at rest is the server's.        *)
ListFollows == (page = "places" => DP!ListFollows) /\ (page = "drawer" => DH!HistoryFollows)

(* DocumentPlaces: no document ends up in no node.                         *)
NeverNowhere == page = "places" => DP!NeverNowhere

(* RunsCleanup, DocumentHistory: what is cleaned up is what was counted,   *)
(* and what is restored is the row that was pressed.                       *)
DoneAsShown == [][(page = "cleanup" => RC!Confirmed) /\ (page = "drawer" => DH!Restored)]_vars
=============================================================================
