--------------------------- MODULE DocumentPlaces ---------------------------
(***************************************************************************)
(* The list of documents of a node, and the operations that put documents  *)
(* elsewhere: removal (DocumentsPage in App.tsx), dropping on a node of    *)
(* the tree (useDocumentDrag.tsx), bin and restoration                     *)
(* (DocumentContext.tsx, DocumentTrashDrawer.tsx).                         *)
(*                                                                         *)
(* A removal or a drop first asks where the document is bound, then the    *)
(* user what to do, and acts on the answer, call by call.  What succeeds   *)
(* ends with fetching the list that is shown then.  A list belongs to a    *)
(* view - node, filters and page, the key of the query - and is kept; a    *)
(* fetch that is under way is not begun again by coming back to its view.  *)
(***************************************************************************)
EXTENDS Naturals, FiniteSets

CONSTANTS Doc, Node, View,
          NodeOf, Matches,    \* a view's node, and the documents its filters let through
          None, Asked,
          MaxTasks, MaxStarts \* bounds: handlers under way, handlers started

Dialogs == {"askDelete", "askDrop"}

Steps == Dialogs \cup {"checkDelete", "unbindHere", "delete", "checkDrop", "copy",
                       "moveOut", "moveIn", "restore", "purge"}

(* step: the call that is under way, or the dialog that is open            *)
TaskSet == [step : Steps, doc : Doc, node : Node, seen : SUBSET Node, todo : SUBSET Node]

PlacesAssumption == /\ NodeOf \in [View -> Node] /\ Matches \in [View -> SUBSET Doc]
                    /\ None # Asked /\ \A t \in TaskSet : t # None
                    /\ \A docs \in SUBSET Doc : docs \notin {None, Asked}
                    /\ MaxTasks \in Nat /\ MaxStarts \in Nat

VARIABLES placed,     \* the server: the nodes each document is bound to
          binned,     \* the documents in the bin
          purged,     \* those that are gone for good
          view,       \* the view that is shown
          data,       \* what each view was last answered, or None
          fetching,   \* per view: None, Asked, or the answer under way
          early,      \* history: the first fetch of the view shown, read before a change,
                      \* was taken for the one asked for after it
          tasks,      \* handlers that wait for an answer or for the user
          failed,     \* history: a call has failed
          together,   \* history: two handlers were under way together
          left,       \* history: a view was left with its fetch under way
          starts      \* bound: handlers so far

server == <<placed, binned, purged>>
query == <<view, data, fetching, early>>
history == <<failed, together, left>>
vars == <<server, query, tasks, history, starts>>

Slot == 1..MaxTasks

Task(step, d, n) == [step |-> step, doc |-> d, node |-> n, seen |-> {}, todo |-> {}]

At(i, step) == tasks[i] # None /\ tasks[i].step = step

(* What passes the filters of a view                                       *)
Filtered(v) == Matches[v] \ (binned \cup purged)

(* documentsPage.items of a view *)
Listed(v) == {d \in Filtered(v) : NodeOf[v] \in placed[d]}

Rows == IF data[view] = None THEN {} ELSE data[view]

Init == /\ placed \in [Doc -> (SUBSET Node) \ {{}}]
        /\ binned = {} /\ purged = {}
        /\ view \in View
        /\ data = [v \in View |-> None]
        /\ fetching = [v \in View |-> IF v = view THEN Asked ELSE None]
        /\ early = FALSE
        /\ tasks = [i \in Slot |-> None]
        /\ failed = FALSE /\ together = FALSE /\ left = FALSE /\ starts = 0

-----------------------------------------------------------------------------
(* The list                                                                *)

(* The mask of a dialog covers the page *)
NoDialog == \A i \in Slot : tasks[i] # None => tasks[i].step \notin Dialogs

(* The key of the query changes *)
ShowView(v) == /\ view' = v
               /\ fetching' = [fetching EXCEPT ![v] = IF @ = None THEN Asked ELSE @]
               /\ early' = FALSE

(* Selecting a node, searching, turning the page *)
SelectView(v) == /\ v # view /\ NoDialog
                 /\ ShowView(v)
                 /\ left' = (left \/ fetching[view] # None)
                 /\ UNCHANGED <<server, data, tasks, failed, together, starts>>

FetchRead(v) == /\ fetching[v] = Asked
                /\ fetching' = [fetching EXCEPT ![v] = Listed(v)]
                /\ UNCHANGED <<server, view, data, early, tasks, history, starts>>

FetchAnswer(v) == /\ fetching[v] \notin {None, Asked}
                  /\ data' = [data EXCEPT ![v] = fetching[v]]
                  /\ fetching' = [fetching EXCEPT ![v] = None]
                  /\ UNCHANGED <<server, view, early, tasks, history, starts>>

FetchFails(v) == /\ fetching[v] = Asked
                 /\ fetching' = [fetching EXCEPT ![v] = None]
                 /\ failed' = TRUE
                 /\ UNCHANGED <<server, view, data, early, tasks, together, left,
                                starts>>

Early == fetching'[view] \notin {Asked, Listed(view)'}

(* Mutant: a fetch under way is always relied on, though it may have been  *)
(* read before the change.                                                 *)
MutInvalidateQueries ==
    /\ UNCHANGED <<view, data>>
    /\ fetching' = [fetching EXCEPT ![view] = IF @ = None THEN Asked ELSE @]
    /\ early' = (data[view] = None /\ Early)

(* The fetch under way for the view shown, if any, gives way to a new one  *)
(* - not the view's first, which is taken for the one asked for, whatever  *)
(* it has read.                                                            *)
InvalidateQueries ==
    /\ UNCHANGED <<view, data>>
    /\ fetching' = [fetching EXCEPT ![view] = IF data[view] # None \/ @ = None THEN Asked
                                                                            ELSE @]
    /\ early' = Early

-----------------------------------------------------------------------------
(* Handlers                                                                *)

Begin(t) == /\ NoDialog /\ starts < MaxStarts /\ starts' = starts + 1
            /\ \E i \in Slot : /\ tasks[i] = None /\ \A j \in 1..(i - 1) : tasks[j] # None
                               /\ tasks' = [tasks EXCEPT ![i] = t]
            /\ together' = (together \/ \E i \in Slot : tasks[i] # None)
            /\ UNCHANGED <<server, query, failed, left>>

Goto(i, step) == tasks' = [tasks EXCEPT ![i].step = step]

HandleSoftDeleteDocument(d) == d \in Rows /\ Begin(Task("checkDelete", d, NodeOf[view]))

(* Rows can be dragged, once there is a node that they are listed of.      *)
Draggable(d) == d \in Rows

HandleDropOnNode(d, target) == Draggable(d) /\ Begin(Task("checkDrop", d, target))

(* Of the bin, each document offers both *)
InBin(d) == d \in binned

RestoreDocument(d) == InBin(d) /\ Begin(Task("restore", d, NodeOf[view]))

PurgeDocument(d) == InBin(d) /\ Begin(Task("purge", d, NodeOf[view]))

(* Mutant: a document bound to several nodes is taken for one bound to one *)
MutCheckDelete(i) == At(i, "checkDelete") /\ Goto(i, "unbindHere")
                     /\ UNCHANGED <<server, query, history, starts>>

(* Bound to one node at most, it goes to the bin unasked.                  *)
CheckDelete(i) == /\ At(i, "checkDelete")
                  /\ Goto(i, IF Cardinality(placed[tasks[i].doc]) > 1 THEN "askDelete"
                                                                      ELSE "delete")
                  /\ UNCHANGED <<server, query, history, starts>>

(* The dialog offers removal from this node or from all; it cannot be left *)
(* otherwise (leaving it, too, means from all).                            *)
AnswerDelete(i) == /\ At(i, "askDelete")
                   /\ \E step \in {"unbindHere", "delete"} : Goto(i, step)
                   /\ UNCHANGED <<server, query, history, starts>>

CheckDrop(i) ==
    /\ At(i, "checkDrop")
    /\ LET seen == placed[tasks[i].doc] IN
         tasks' = IF seen = {tasks[i].node} THEN [tasks EXCEPT ![i] = None]
                  ELSE [tasks EXCEPT ![i].step = "askDrop", ![i].seen = seen]
    /\ UNCHANGED <<server, query, history, starts>>

CopyToTarget(i) == /\ At(i, "askDrop")
                   /\ IF tasks[i].node \in tasks[i].seen
                        THEN tasks' = [tasks EXCEPT ![i] = None]
                        ELSE Goto(i, "copy")
                   /\ UNCHANGED <<server, query, history, starts>>

(* Out of every node it was seen in, then into the target *)
MoveToTarget(i) ==
    /\ At(i, "askDrop")
    /\ tasks' = [tasks EXCEPT ![i].todo = tasks[i].seen \ {tasks[i].node},
                              ![i].step = IF tasks[i].seen \subseteq {tasks[i].node}
                                            THEN "moveIn" ELSE "moveOut"]
    /\ UNCHANGED <<server, query, history, starts>>

CloseModal(i) == /\ At(i, "askDrop")
                 /\ tasks' = [tasks EXCEPT ![i] = None]
                 /\ UNCHANGED <<server, query, history, starts>>

-----------------------------------------------------------------------------
(* Calls                                                                   *)

BindDocument(d, n) == placed' = [placed EXCEPT ![d] = @ \cup {n}] /\ UNCHANGED <<binned, purged>>

UnbindDocument(d, n) == placed' = [placed EXCEPT ![d] = @ \ {n}] /\ UNCHANGED <<binned, purged>>

DeleteDocument(d) == binned' = binned \cup ({d} \ purged) /\ UNCHANGED <<placed, purged>>

(* The call a handler is at; "moveOut" takes several, see MoveOutAnswer.   *)
Call(i) ==
    LET t == tasks[i] IN
    \/ t.step = "unbindHere" /\ UnbindDocument(t.doc, t.node)
    \/ t.step = "delete" /\ DeleteDocument(t.doc)
    \/ t.step \in {"copy", "moveIn"} /\ BindDocument(t.doc, t.node)
    \/ t.step = "restore" /\ binned' = binned \ {t.doc} /\ UNCHANGED <<placed, purged>>
    \/ /\ t.step = "purge"
       /\ binned' = binned \ {t.doc} /\ purged' = purged \cup {t.doc} /\ UNCHANGED placed

(* One document after the other is unbound, in the order of node_ids.      *)
MoveOutAnswer(i) ==
    /\ At(i, "moveOut")
    /\ \E n \in tasks[i].todo :
         /\ UnbindDocument(tasks[i].doc, n)
         /\ IF tasks[i].todo = {n} /\ tasks[i].node \in tasks[i].seen
              THEN tasks' = [tasks EXCEPT ![i] = None] /\ InvalidateQueries
              ELSE /\ tasks' = [tasks EXCEPT ![i].todo = @ \ {n},
                                             ![i].step = IF tasks[i].todo = {n} THEN "moveIn"
                                                                                ELSE @]
                   /\ UNCHANGED query
    /\ UNCHANGED <<history, starts>>

CallAnswer(i) == /\ tasks[i] # None /\ Call(i)
                 /\ tasks' = [tasks EXCEPT ![i] = None]
                 /\ InvalidateQueries
                 /\ UNCHANGED <<history, starts>>

(* A call that fails, and may have been carried out, ends its handler.     *)
CallFails(i) == /\ tasks[i] # None /\ tasks[i].step \notin Dialogs
                /\ \/ Call(i) \/ UNCHANGED server
                   \/ /\ tasks[i].step = "moveOut"
                      /\ \E n \in tasks[i].todo : UnbindDocument(tasks[i].doc, n)
                /\ tasks' = [tasks EXCEPT ![i] = None]
                /\ failed' = TRUE
                /\ UNCHANGED <<query, together, left, starts>>

-----------------------------------------------------------------------------

Answers == \E i \in Slot : \/ CheckDelete(i) \/ CheckDrop(i)
                           \/ MoveOutAnswer(i) \/ CallAnswer(i) \/ CallFails(i)

Choices == \E i \in Slot : \/ AnswerDelete(i) \/ CopyToTarget(i)
                           \/ MoveToTarget(i) \/ CloseModal(i)

User == \/ \E v \in View : SelectView(v)
        \/ \E d \in Doc : \/ HandleSoftDeleteDocument(d) \/ RestoreDocument(d)
                          \/ PurgeDocument(d) \/ \E n \in Node : HandleDropOnNode(d, n)

Fetches == \E v \in View : FetchRead(v) \/ FetchAnswer(v) \/ FetchFails(v)

Next == User \/ Choices \/ Answers \/ Fetches

Spec == Init /\ [][Next]_vars
-----------------------------------------------------------------------------
(* Properties                                                              *)

(* The state has its types.                                                *)
TypeOK == /\ placed \in [Doc -> SUBSET Node] /\ binned \subseteq Doc /\ purged \subseteq Doc
          /\ view \in View
          /\ data \in [View -> {None} \cup SUBSET Doc]
          /\ fetching \in [View -> {None, Asked} \cup SUBSET Doc]
          /\ \A i \in Slot : tasks[i] # None => tasks[i] \in TaskSet
          /\ {early, failed, together, left} \subseteq BOOLEAN

AtRest == \A i \in Slot : tasks[i] = None

(* At rest, the list is what the server has, after every change this page  *)
(* has made, in whichever view it was begun - if no call failed, no view   *)
(* was left in the middle of its fetch, and no change was answered beside  *)
(* the first fetch of the view (DocumentContext.tsx:215-261,               *)
(* App.tsx:295-300).                                                       *)
ListFollows == AtRest /\ fetching[view] = None /\ ~failed /\ ~left /\ ~early =>
                   Rows = Listed(view)

(* A document is in some node or in the bin, unless a call failed or two   *)
(* handlers were under way together (App.tsx:445-492).                     *)
NeverNowhere == AtRest /\ ~failed /\ ~together => \A d \in Doc \ purged : placed[d] # {}
=============================================================================
