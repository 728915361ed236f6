---------------------------- MODULE CategoryPanel ----------------------------
(***************************************************************************)
(* The category tree of the documents page: selection, context menu,       *)
(* clipboard, dragging and dialogs (CategoryTreePanel.tsx with its hooks), *)
(* and the mutations behind them (CategoryContext.tsx, useTreeActions.ts). *)
(*                                                                         *)
(* The tree that is shown is the last answer of one query.  Every          *)
(* operation takes its nodes from that tree, is one call to the server     *)
(* (CategoryBulk models the bulk ones), and ends with fetching the tree    *)
(* again.  Order and names of siblings are left out: a reordering moves a  *)
(* node under the parent it has.                                           *)
(***************************************************************************)
EXTENDS Naturals, FiniteSets

CONSTANTS Cat, None, Asked,
          MaxStarts    \* bound: calls of the server

(* What the query answers                                                  *)
Trees == [Cat -> Cat \cup {"root", "gone"}]

PanelAssumption == /\ Cat \cap {"root", "bin", "gone", "new", "undefined"} = {}
                   /\ {None, Asked} \cap Cat = {} /\ None # Asked /\ MaxStarts \in Nat
                   /\ None \notin Trees /\ Asked \notin Trees

VARIABLES parent,         \* the server's tree: the parent of each category, or "root",
                          \* "bin", "gone" (deleted for good), "new" (not yet created)
          shown,          \* data of categories-tree
          loaded,         \* the query has been answered; until then shown is empty
          fetch,          \* its fetch: None, Asked, or the answer under way
          selectedIds, selectionParentId,
          clipboard,      \* None, or mode and sourceIds
          isMutating,
          calls,          \* calls of the server that have not settled
          missed,         \* history: a fetch of the tree failed, or a refused call
                          \* had changed something
          early,          \* history: the first fetch, read before a change, was taken
                          \* for the one asked for after it
          starts          \* bound: calls so far

selection == <<selectedIds, selectionParentId>>
page == <<selection, clipboard, isMutating>>
query == <<shown, loaded, fetch, early>>
vars == <<parent, query, page, calls, missed, starts>>

Alive(t) == {c \in Cat : t[c] \in Cat \cup {"root"}}

Places(t) == Alive(t) \cup {"root"}

(* isDescendantOrSelf: the nodes of a set and all that is below them       *)
Below(t, s) ==
    LET reach[i \in 0..Cardinality(Cat)] ==
            IF i = 0 THEN s ELSE reach[i - 1] \cup {c \in Cat : t[c] \in reach[i - 1]}
    IN  reach[Cardinality(Cat)]

(* GetTree lists what is alive                                             *)
Tree == [c \in Cat |-> IF c \in Alive(parent) THEN parent[c] ELSE "gone"]

Init == /\ parent \in {p \in [Cat -> Cat \cup {"root", "new"}] :
                          \A c \in Cat : p[c] = "new" \/
                                         c \in Below(p, {r \in Cat : p[r] = "root"})}
        /\ shown = [c \in Cat |-> "gone"] /\ loaded = FALSE /\ fetch = Asked /\ early = FALSE
        /\ selectedIds = {} /\ selectionParentId = "undefined"
        /\ clipboard = None /\ isMutating = FALSE
        /\ calls = {} /\ missed = FALSE /\ starts = 0

-----------------------------------------------------------------------------
(* Selection                                                               *)

(* The effect after every render drops nodes that are gone, and takes the  *)
(* parent of the first node; which one is first is left open.              *)
Settled(ids, par, t) ==
    LET kept == ids \cap Alive(t) IN
    IF kept # {} THEN {[ids |-> kept, par |-> t[f]] : f \in kept}
    ELSE {[ids |-> {},
           par |-> IF ids # {} \/ Alive(t) = {} THEN "undefined" ELSE par]}

Select(ids, par, t) == \E s \in Settled(ids, par, t) :
                          selectedIds' = s.ids /\ selectionParentId' = s.par

NotSelecting == UNCHANGED <<parent, query, clipboard, isMutating, calls, missed, starts>>

(* The nodes that can be clicked on and dragged                            *)
TreeNodes == Alive(shown)

Siblings(c) == {d \in Cat : shown[d] = shown[c]}

(* Mutant: only adding to several nodes is checked for the parent.         *)
MutMayAdd(c, mod) == \/ selectionParentId \in {"undefined", shown[c]}
                     \/ Cardinality(selectedIds) <= 1

MayAdd(c, mod) == \/ selectionParentId \in {"undefined", shown[c]}
                  \/ Cardinality(selectedIds) <= 1 /\ mod = "plain"

(* A click; with shift, the siblings between this and the last click,      *)
(* which are left open, are added.                                         *)
HandleSelect(c, mod) ==
    /\ \/ /\ c \in selectedIds
          /\ Select(selectedIds \ {c}, IF selectedIds = {c} THEN "undefined" ELSE shown[c], shown)
       \/ /\ c \notin selectedIds /\ MayAdd(c, mod)
          /\ \/ mod = "plain" /\ Select({c}, shown[c], shown)
             \/ mod = "meta" /\ Select(selectedIds \cup {c}, shown[c], shown)
             \/ /\ mod = "shift" /\ \E s \in SUBSET Siblings(c) :
                      /\ selectionParentId = "undefined" => s = {}
                      /\ Select(selectedIds \cup s, shown[c], shown)
    /\ NotSelecting

FocusNode(c) == Select({c}, shown[c], shown)

HandleBreadcrumbNavigate(c) == FocusNode(c) /\ NotSelecting

(* A link into the page waits for a tree that has its node.                *)
FollowLink(c) == FocusNode(c) /\ NotSelecting

-----------------------------------------------------------------------------
(* Clipboard and calls                                                     *)

(* What the menu of a node works on: opening it selects the node, unless   *)
(* it is among those that are selected.                                    *)
Resolved(c) == IF c \in selectedIds THEN selectedIds ELSE {c}

OpenMenu(c) == IF c \in selectedIds THEN UNCHANGED selection ELSE FocusNode(c)

(* An entry of the menu that changes anything is pressed                   *)
InMenu(c) == ~isMutating /\ OpenMenu(c)

SetClipboard(mode, ids) == clipboard' = [mode |-> mode, sourceIds |-> ids]

ToClipboard(c, mode) == /\ InMenu(c)
                        /\ SetClipboard(mode, Resolved(c))
                        /\ UNCHANGED <<parent, query, isMutating, calls, missed, starts>>

ClearClipboard == /\ clipboard # None /\ clipboard' = None
                  /\ UNCHANGED <<parent, query, selection, isMutating, calls,
                                 missed, starts>>

Send(kind, on, to) ==
    /\ starts < MaxStarts /\ starts' = starts + 1
    /\ calls' = calls \cup {[kind |-> kind, on |-> on, to |-> to, phase |-> "sent"]}

(* Pasting as a child of a node, or before or after it *)
PasteOffered(c, to) == /\ clipboard # None
                       /\ to = c \/ (to = shown[c] /\ c \notin clipboard.sourceIds)
                       /\ to \notin Below(shown, clipboard.sourceIds)

Paste(c, to) ==
    /\ PasteOffered(c, to) /\ InMenu(c)
    /\ Send(IF clipboard.mode = "cut" THEN "move" ELSE "copy", clipboard.sourceIds, to)
    /\ isMutating' = TRUE
    /\ UNCHANGED <<parent, query, clipboard, missed>>

(* Dragging does not wait for what is under way.  The tree offers no place *)
(* below the node that is dragged.                                         *)
HandleDrop(c, to) ==
    /\ to \in Places(shown) \ Below(shown, {c})
    /\ Send("reposition", {c}, to)
    /\ isMutating' = TRUE
    /\ UNCHANGED <<parent, query, selection, clipboard, missed>>

-----------------------------------------------------------------------------
(* The dialogs: forms, the check before a deletion, and the bin.  They     *)
(* cover the page from the opening on, so each is one action with the call *)
(* that it sends; it sends one at a time.                                  *)

NotPending(kind) == \A c \in calls : c.kind # kind

RequestCreateRoot == /\ NotPending("create") /\ Send("create", {}, "root")
                     /\ isMutating' = TRUE /\ UNCHANGED selection

(* The form changes the node that is selected when it is sent.             *)
SubmitForm(c, kind) ==
    /\ InMenu(c) /\ NotPending(kind) /\ Resolved(c) = {c}
    /\ \/ kind = "create" /\ Send(kind, {}, c)
       \/ kind = "rename" /\ Send(kind, selectedIds', "root")
    /\ isMutating' = TRUE

ConfirmDelete(c) == /\ InMenu(c) /\ NotPending("delete")
                    /\ Send("delete", Resolved(c), "root")
                    /\ UNCHANGED isMutating

(* Which nodes the bin lists is left open.                                 *)
Restore(s) == /\ NotPending("restore") /\ Send("restore", s, "root")
              /\ UNCHANGED <<selection, isMutating>>

Purge(s) == /\ NotPending("purge") /\ Send("purge", s, "root")
            /\ UNCHANGED <<selection, isMutating>>

InDialogs == /\ \/ RequestCreateRoot
                \/ \E c \in TreeNodes :
                       ConfirmDelete(c) \/ SubmitForm(c, "create") \/ SubmitForm(c, "rename")
                \/ \E s \in SUBSET {k \in Cat : parent[k] = "bin"} \ {{}} :
                       Restore(s) \/ Purge(s)
             /\ UNCHANGED <<parent, query, clipboard, missed>>

-----------------------------------------------------------------------------
(* The server                                                              *)

Placed(s, to) == [c \in Cat |-> IF c \in s THEN to ELSE parent[c]]

(* The trees a call may leave; copies and restored nodes may be put        *)
(* anywhere, with what is below the sources left out.                      *)
Effects(c) ==
    CASE c.kind \in {"move", "reposition"} ->
            IF c.on \subseteq Alive(parent) /\ c.to \in Places(parent) \ Below(parent, c.on)
              THEN {Placed(c.on, c.to)} ELSE {}
      [] c.kind \in {"copy", "create"} ->
            IF c.to \in Places(parent)
              THEN {Placed(s, c.to) : s \in {n \in SUBSET Cat : /\ n # {}
                        /\ \A k \in n : parent[k] = "new"
                        /\ Cardinality(n) = IF c.kind = "copy" THEN Cardinality(c.on) ELSE 1}}
              ELSE {}
      [] c.kind = "rename" -> IF c.on \subseteq Alive(parent) THEN {parent} ELSE {}
      [] c.kind = "delete" ->
            IF c.on \subseteq Alive(parent) THEN {Placed(Below(parent, c.on), "bin")} ELSE {}
      [] c.kind = "restore" ->
            IF \A k \in c.on : parent[k] = "bin"
              THEN {Placed(c.on, to) : to \in Places(parent)} ELSE {}
      [] c.kind = "purge" ->
            IF \A k \in c.on : parent[k] = "bin" THEN {Placed(c.on, "gone")} ELSE {}

Turn(c, phase) == calls' = (calls \ {c}) \cup {[c EXCEPT !.phase = phase]}

Execute(c) == /\ c.phase = "sent" /\ parent' \in Effects(c)
              /\ Turn(c, "done")
              /\ UNCHANGED <<query, page, missed, starts>>

(* A call of several steps may fail after one that changed the tree.       *)
Refuse(c) == /\ c.phase = "sent"
             /\ \/ UNCHANGED <<parent, missed>>
                \/ parent' \in Effects(c) /\ missed' = TRUE
             /\ Turn(c, "refused")
             /\ UNCHANGED <<query, page, starts>>

-----------------------------------------------------------------------------
(* Answers                                                                 *)

(* Mutant: a fetch under way is always taken for the one asked for.        *)
MutInvalidateTree ==
    /\ fetch' = IF fetch = None THEN Asked ELSE fetch
    /\ early' = (~loaded /\ fetch' \notin {Asked, Tree})

(* A fetch under way is given up for a new one - not the first one, which  *)
(* is taken for the one asked for, whatever it has read.                   *)
InvalidateTree ==
    /\ fetch' = IF loaded \/ fetch = None THEN Asked ELSE fetch
    /\ early' = (fetch' \notin {Asked, Tree})

(* Deleting for good leaves the tree alone, unless it is done to several   *)
(* at once.  The dialogs' mutations end the mark at once, whoever has set  *)
(* it.                                                                     *)
Answer(c) ==
    /\ c.phase = "done" /\ Turn(c, "refetch")
    /\ InvalidateTree \/ (c.kind = "purge" /\ UNCHANGED <<fetch, early>>)
    /\ isMutating' = (isMutating /\ c.kind \notin {"create", "rename", "delete"})
    /\ IF c.kind = "move" THEN clipboard' = None /\ Select({}, "undefined", shown)
                          ELSE UNCHANGED <<clipboard, selection>>
    /\ UNCHANGED <<parent, shown, loaded, missed, starts>>

(* A drag has the tree fetched three times over.                           *)
FetchAgain(c) ==
    /\ c.kind = "reposition" /\ fetch = None
    /\ \/ c.phase = "refetch" /\ Turn(c, "second")
       \/ c.phase = "second" /\ Turn(c, "third")
    /\ InvalidateTree
    /\ UNCHANGED <<parent, shown, loaded, page, missed, starts>>

(* Pastes and drags wait for the tree before they end the mark.            *)
Finally(c) ==
    /\ c.phase = (IF c.kind = "reposition" THEN "third" ELSE "refetch") /\ fetch = None
    /\ calls' = calls \ {c}
    /\ isMutating' = (isMutating /\ c.kind \notin {"copy", "move", "reposition"})
    /\ UNCHANGED <<parent, query, selection, clipboard, missed, starts>>

(* In the bin, the tree is fetched also when several could not be restored *)
(* or deleted.                                                             *)
OnError(c) == /\ c.phase = "refused"
              /\ calls' = calls \ {c}
              /\ \/ UNCHANGED <<fetch, early>>
                 \/ c.kind \in {"restore", "purge"} /\ InvalidateTree
              /\ isMutating' = (isMutating /\ c.kind \in {"restore", "purge"})
              /\ UNCHANGED <<parent, shown, loaded, selection, clipboard, missed, starts>>

TreeRead == /\ fetch = Asked /\ fetch' = Tree
            /\ UNCHANGED <<parent, shown, loaded, early, page, calls, missed, starts>>

TreeAnswer == /\ fetch \notin {None, Asked}
              /\ shown' = fetch /\ loaded' = TRUE /\ fetch' = None
              /\ Select(selectedIds, selectionParentId, fetch)
              /\ UNCHANGED <<parent, early, clipboard, isMutating, calls, missed, starts>>

TreeFails == /\ fetch = Asked /\ fetch' = None /\ missed' = TRUE
             /\ UNCHANGED <<parent, shown, loaded, early, page, calls, starts>>

-----------------------------------------------------------------------------

User == \/ \E c \in TreeNodes :
              \/ \E mod \in {"plain", "meta", "shift"} : HandleSelect(c, mod)
              \/ HandleBreadcrumbNavigate(c) \/ FollowLink(c)
              \/ \E mode \in {"copy", "cut"} : ToClipboard(c, mode)
              \/ \E to \in Places(shown) : Paste(c, to) \/ HandleDrop(c, to)
        \/ ClearClipboard \/ InDialogs

Next == \/ User
        \/ \E c \in calls : \/ Execute(c) \/ Refuse(c) \/ Answer(c)
                            \/ FetchAgain(c) \/ Finally(c) \/ OnError(c)
        \/ TreeRead \/ TreeAnswer \/ TreeFails

Spec == Init /\ [][Next]_vars
-----------------------------------------------------------------------------
(* Properties                                                              *)

Kinds == {"move", "copy", "reposition", "create", "rename", "delete", "restore", "purge"}

Phases == {"sent", "done", "refused", "refetch", "second", "third"}

Calls == [kind : Kinds, on : SUBSET Cat, to : Cat \cup {"root"}, phase : Phases]

(* The state has its types.                                                *)
TypeOK == /\ parent \in [Cat -> Cat \cup {"root", "bin", "gone", "new"}]
          /\ shown \in Trees /\ (fetch \notin {None, Asked} => fetch \in Trees)
          /\ selectedIds \subseteq Cat
          /\ selectionParentId \in Cat \cup {"root", "undefined"}
          /\ clipboard # None => clipboard \in [mode : {"copy", "cut"}, sourceIds : SUBSET Cat]
          /\ calls \subseteq Calls
          /\ {isMutating, missed, loaded, early} \subseteq BOOLEAN

(* When everything has settled, the tree that is shown is the server's,    *)
(* whatever calls, answers and fetches overlapped, unless a fetch failed,  *)
(* a refused call had changed something, or the change was made beside the *)
(* very first fetch (useTreeActions.ts:29-31, useTreePaste.ts:107,         *)
(* useTreeDrag.ts:144-146).                                                *)
TreeFollows == calls = {} /\ fetch = None /\ ~missed /\ ~early => shown = Tree

Alike == \A c \in selectedIds : c \in Alive(shown) /\ shown[c] = selectionParentId

(* Nodes that are selected together are shown under one parent, the one    *)
(* that is noted (CategoryTreePanel.tsx:1098-1105: "仅支持同一父节点下的多选"), *)
(* unless the tree that is shown has moved them apart.                     *)
StaysAlike == Alike /\ shown' = shown => Alike'

SelectionStaysAlike == [][StaysAlike]_vars
=============================================================================
