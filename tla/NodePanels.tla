----------------------------- MODULE NodePanels -----------------------------
(***************************************************************************)
(* The two panels above the documents of a node: its source documents      *)
(* (SourceDocumentManager.tsx, with DocumentTreeSelector.tsx to choose     *)
(* more of them), and its workflows (WorkflowManager.tsx).                 *)
(*                                                                         *)
(* Each panel fetches the sources for itself.  The first puts down every   *)
(* answer, also a late one for a node that was left; it does so after each *)
(* change too, and then has the second one built anew (App.tsx), which     *)
(* drops the answers meant for the one before it.                          *)
(***************************************************************************)
EXTENDS Naturals

CONSTANTS Node, Doc, None, Asked,
          MaxTasks,    \* bound: handlers under way
          MaxStarts    \* bound: handlers started

(* A handler: its documents still to (un)bind, and the answer to its fetch *)
Tasks == [kind : {"load", "add", "remove"}, node : Node, todo : SUBSET Doc,
          got : {None, Asked} \cup SUBSET Doc]

PanelsAssumption == /\ None # Asked /\ None \notin Tasks
                    /\ \A s \in SUBSET Doc : s \notin {None, Asked}
                    /\ MaxTasks \in Nat \ {0} /\ MaxStarts \in Nat

VARIABLES bound,         \* the server's source documents of each node
          node,          \* nodeId: the node that is shown
          sources, fetchError, loading,   \* SourceDocumentManager
          selectorOpen, selectedDocs,     \* its DocumentTreeSelector
          tasks,         \* its handlers that wait for an answer
          panel,         \* WorkflowManager: sources, or None
          load,          \* its load: None, Asked, or the answer under way
          apart,         \* history: no two handlers were under way together since the
                         \* last load or addition that was alone
          unseen,        \* history: a change was made whose answer was lost
          starts         \* bound: handlers so far

list == <<sources, fetchError, loading>>
selector == <<selectorOpen, selectedDocs>>
workflows == <<panel, load>>
vars == <<bound, node, list, selector, tasks, workflows, apart, unseen, starts>>

Slot == 1..MaxTasks

(* A new handler for a node; without documents, it fetches right away *)
Task(kind, n, docs) ==
    [kind |-> kind, node |-> n, todo |-> docs, got |-> IF docs = {} THEN Asked ELSE None]

Idle == \A i \in Slot : tasks[i] = None

Begin(t) == /\ starts < MaxStarts /\ starts' = starts + 1
            /\ \E i \in Slot : /\ tasks[i] = None /\ \A j \in 1..(i - 1) : tasks[j] # None
                               /\ tasks' = [tasks EXCEPT ![i] = t]
            /\ apart' = (Idle /\ (t.kind = "remove" => apart))
            /\ loading' = TRUE

Init == /\ bound \in [Node -> SUBSET Doc] /\ node \in Node
        /\ sources = {} /\ fetchError = FALSE /\ loading = TRUE
        /\ selectorOpen = FALSE /\ selectedDocs = {}
        /\ tasks = [i \in Slot |-> IF i = 1 THEN Task("load", node, {}) ELSE None]
        /\ panel = None /\ load = Asked
        /\ apart = TRUE /\ unseen = FALSE /\ starts = 0

-----------------------------------------------------------------------------
(* The node                                                                *)

(* The selector covers the tree; behind a fetch error it is not there.     *)
Visible == selectorOpen /\ ~fetchError

(* Mutant: a load for the node before is not cancelled.                    *)
MutReload == panel' = None /\ load' = IF load = None THEN Asked ELSE load

(* WorkflowManager starts empty, and cancels the load before this one.     *)
Reload == panel' = None /\ load' = Asked

SelectNode(n) == /\ n # node /\ ~Visible
                 /\ node' = n
                 /\ Begin(Task("load", n, {}))
                 /\ fetchError' = FALSE
                 /\ Reload
                 /\ UNCHANGED <<bound, sources, selector, unseen>>

(* It has its data, and offers to run a workflow if there are sources *)
PanelLoaded == panel # None

LoadRead == /\ load = Asked
            /\ load' = bound[node]
            /\ UNCHANGED <<bound, node, list, selector, tasks, panel, apart, unseen, starts>>

LoadAnswer == /\ load \notin {None, Asked}
              /\ panel' = load /\ load' = None
              /\ UNCHANGED <<bound, node, list, selector, tasks, apart, unseen, starts>>

LoadFails == /\ load = Asked
             /\ load' = None
             /\ UNCHANGED <<bound, node, list, selector, tasks, panel, apart, unseen, starts>>

-----------------------------------------------------------------------------
(* The selector                                                            *)

OpenSelector == /\ ~selectorOpen /\ ~loading /\ ~fetchError
                /\ selectorOpen' = TRUE /\ selectedDocs' = {}
                /\ UNCHANGED <<bound, node, list, tasks, workflows, apart, unseen, starts>>

CancelSelector == /\ Visible
                  /\ selectorOpen' = FALSE
                  /\ UNCHANGED <<bound, node, list, selectedDocs, tasks, workflows, apart,
                                 unseen, starts>>

(* Which documents a category offers, less the sources it was opened with, *)
(* is left open.                                                           *)
HandleDocumentClick(d) ==
    /\ Visible
    /\ selectedDocs' = IF d \in selectedDocs THEN selectedDocs \ {d} ELSE selectedDocs \cup {d}
    /\ UNCHANGED <<bound, node, list, selectorOpen, tasks, workflows, apart, unseen, starts>>

(* Documents are marked, and the button for them offered *)
Selecting == Visible /\ selectedDocs # {}

(* The button stays enabled: it can be pressed again meanwhile.            *)
HandleAddSources == /\ Selecting
                    /\ Begin(Task("add", node, selectedDocs))
                    /\ UNCHANGED <<bound, node, sources, fetchError, selector, workflows, unseen>>

-----------------------------------------------------------------------------
(* The handlers                                                            *)

(* The list, each source with its button; an error takes its place         *)
Removable(d) == d \in sources /\ ~fetchError

HandleRemoveSource(d) ==
    /\ Removable(d)
    /\ Begin(Task("remove", node, {d}))
    /\ UNCHANGED <<bound, node, sources, fetchError, selector, workflows, unseen>>

Retry == /\ fetchError
         /\ Begin(Task("load", node, {})) /\ fetchError' = FALSE
         /\ UNCHANGED <<bound, node, sources, selector, workflows, unseen>>

Bind(n, d) == bound' = [bound EXCEPT ![n] = @ \cup {d}]

Unbind(n, d) == bound' = [bound EXCEPT ![n] = @ \ {d}]

(* fetchSources, with the node the handler was made for.                   *)
FetchSources(i) == /\ tasks' = [tasks EXCEPT ![i].todo = {}, ![i].got = Asked]
                   /\ fetchError' = FALSE /\ loading' = TRUE

(* Document after document; a failure, even of a bind that was made, does  *)
(* not stop the rest.  The last one closes the selector, unless all failed *)
(* (whether they did is left open).                                        *)
BindNext(i, d) ==
    /\ tasks[i] # None /\ tasks[i].kind = "add" /\ d \in tasks[i].todo
    /\ Bind(tasks[i].node, d) \/ UNCHANGED bound
    /\ IF tasks[i].todo = {d}
         THEN /\ selectorOpen' \in {FALSE, selectorOpen}
              /\ FetchSources(i) /\ UNCHANGED sources
         ELSE /\ tasks' = [tasks EXCEPT ![i].todo = @ \ {d}]
              /\ UNCHANGED <<selectorOpen, list>>
    /\ UNCHANGED <<node, selectedDocs, workflows, apart, unseen, starts>>

UnbindAnswer(i) ==
    /\ tasks[i] # None /\ tasks[i].kind = "remove" /\ tasks[i].got = None
    /\ \E d \in tasks[i].todo : Unbind(tasks[i].node, d)
    /\ FetchSources(i)
    /\ UNCHANGED <<node, sources, selector, workflows, apart, unseen, starts>>

(* Nothing is fetched, whether the document was unbound or not.            *)
UnbindFails(i) ==
    /\ tasks[i] # None /\ tasks[i].kind = "remove" /\ tasks[i].got = None
    /\ \/ UNCHANGED <<bound, unseen>>
       \/ /\ \E d \in tasks[i].todo : Unbind(tasks[i].node, d)
          /\ unseen' = TRUE
    /\ tasks' = [tasks EXCEPT ![i] = None] /\ loading' = FALSE
    /\ UNCHANGED <<node, sources, fetchError, selector, workflows, apart, starts>>

FetchRead(i) ==
    /\ tasks[i] # None /\ tasks[i].got = Asked
    /\ tasks' = [tasks EXCEPT ![i].got = bound[tasks[i].node]]
    /\ UNCHANGED <<bound, node, list, selector, workflows, apart, unseen, starts>>

(* After a change, the workflows are built anew for the node shown.        *)
Fetched(i) == /\ loading' = FALSE /\ tasks' = [tasks EXCEPT ![i] = None]
              /\ IF tasks[i].kind = "load" THEN UNCHANGED workflows ELSE Reload

FetchAnswer(i) ==
    /\ tasks[i] # None /\ tasks[i].got \notin {None, Asked}
    /\ sources' = tasks[i].got
    /\ Fetched(i)
    /\ UNCHANGED <<bound, node, fetchError, selector, apart, unseen, starts>>

(* The error takes the place of list and selector, which then begins anew. *)
FetchFails(i) ==
    /\ tasks[i] # None /\ tasks[i].got = Asked
    /\ fetchError' = TRUE /\ selectedDocs' = {}
    /\ Fetched(i)
    /\ UNCHANGED <<bound, node, sources, selectorOpen, apart, unseen, starts>>

-----------------------------------------------------------------------------

Handlers == \E i \in Slot : \/ \E d \in Doc : BindNext(i, d)
                            \/ UnbindAnswer(i) \/ UnbindFails(i)
                            \/ FetchRead(i) \/ FetchAnswer(i) \/ FetchFails(i)

User == \/ \E n \in Node : SelectNode(n)
        \/ OpenSelector \/ CancelSelector \/ HandleAddSources \/ Retry
        \/ \E d \in Doc : HandleDocumentClick(d) \/ HandleRemoveSource(d)

Next == User \/ Handlers \/ LoadRead \/ LoadAnswer \/ LoadFails

Spec == Init /\ [][Next]_vars
-----------------------------------------------------------------------------
(* Properties                                                              *)

(* The state has its types.                                                *)
TypeOK == /\ bound \in [Node -> SUBSET Doc] /\ node \in Node
          /\ sources \subseteq Doc /\ selectedDocs \subseteq Doc
          /\ {fetchError, loading, selectorOpen, apart, unseen} \subseteq BOOLEAN
          /\ panel \in {None} \cup SUBSET Doc /\ load \in {None, Asked} \cup SUBSET Doc
          /\ tasks \in [Slot -> {None} \cup Tasks]

(* When no handler is under way, a workflow is started on the strength of  *)
(* the sources the shown node really has (WorkflowManager.tsx:94-141),     *)
(* whichever nodes were shown and changed before, and whatever failed.     *)
WorkflowsSeeSources == Idle /\ ~unseen /\ PanelLoaded => panel = bound[node]

(* The list of sources is the node's own, unless two of its handlers were  *)
(* under way together (a late answer is not held back, :32-44).            *)
SourcesListed == Idle /\ ~unseen /\ apart /\ ~fetchError => sources = bound[node]

(* Both panels show what is bound to the node that is shown.               *)
PanelsCurrent == WorkflowsSeeSources /\ SourcesListed
=============================================================================
