---------------------------- MODULE TreePagesProofs ----------------------------
(***************************************************************************)
(* Proofs about TreePages, for any categories, nodes, documents and        *)
(* bounds: of the panels of a node (NP, NodePanels), of the tree (CP,      *)
(* CategoryPanel), of its clipboard of documents (SC, SourceClipboard), of *)
(* the session (SE, Session), and of the page they are on.                 *)
(***************************************************************************)
EXTENDS TreePages, Integers, Sequences, TLAPS

-----------------------------------------------------------------------------
(* The panels of a node                                                    *)

UnderWay(i) == tasks[i] # None

(* A handler that may have changed what is bound, and has the workflows    *)
(* built anew when it ends: one that adds, or one that has unbound.        *)
Reloads(i) == /\ UnderWay(i)
              /\ \/ tasks[i].kind = "add"
                 \/ tasks[i].kind = "remove" /\ tasks[i].got # None

(* The workflows' panel and its load know what is bound now, or a handler  *)
(* is to drop both, or a change was lost.                                  *)
WorkflowsComing == \/ unseen \/ \E i \in NP!Slot : Reloads(i)
                   \/ panel \in {None, bound[node]} /\ load \in {None, Asked, bound[node]}

(* Documents are bound before their handler fetches.                       *)
BindsFirst == \A i \in NP!Slot :
    UnderWay(i) /\ tasks[i].kind = "add" /\ tasks[i].todo # {} => tasks[i].got = None

(* Handlers that count as apart are at most one at a time.                 *)
AtMostOne == apart => \A i, j \in NP!Slot : UnderWay(i) /\ UnderWay(j) => i = j

ListIsOwn == fetchError \/ sources = bound[node]

(* It is for the node that is shown, has read what is bound now, and, when *)
(* it may end without a fetch, the list was right before it.               *)
HandlerIsOwn(i) == /\ tasks[i].node = node /\ tasks[i].got \in {None, Asked, bound[node]}
                   /\ tasks[i].kind = "remove" /\ tasks[i].got = None => ListIsOwn

(* The list of sources is right, or such a handler is under way.           *)
ListComing == apart /\ ~unseen => /\ NP!Idle => ListIsOwn
                                  /\ \A i \in NP!Slot : UnderWay(i) => HandlerIsOwn(i)

PanelsInv == NP!TypeOK /\ WorkflowsComing /\ BindsFirst /\ AtMostOne /\ ListComing

(* A handler's record, field by field                                      *)
LEMMA TaskFields ==
    ASSUME NEW kind \in {"load", "add", "remove"}, NEW n \in Node, NEW docs \in SUBSET Doc
    PROVE  /\ NP!Task(kind, n, docs) \in NP!Tasks
           /\ NP!Task(kind, n, docs).kind = kind /\ NP!Task(kind, n, docs).node = n
           /\ NP!Task(kind, n, docs).todo = docs
           /\ NP!Task(kind, n, docs).got = IF docs = {} THEN Asked ELSE None
BY DEF NP!Task, NP!Tasks

(* A handler begins in a free slot.                                        *)
LEMMA BeginStep ==
    ASSUME NP!TypeOK, NEW t \in NP!Tasks, NP!Begin(t)
    PROVE  /\ tasks' \in [NP!Slot -> {None} \cup NP!Tasks]
           /\ loading' \in BOOLEAN /\ apart' \in BOOLEAN
           /\ apart' => NP!Idle /\ (t.kind = "remove" => apart)
           /\ \E i \in NP!Slot : /\ tasks[i] = None
                                 /\ \A j \in NP!Slot : tasks'[j] = IF j = i THEN t ELSE tasks[j]
<1>1. PICK i \in NP!Slot : tasks[i] = None /\ tasks' = [tasks EXCEPT ![i] = t]
  BY DEF NP!Begin
<1>2. /\ tasks' \in [NP!Slot -> {None} \cup NP!Tasks]
      /\ \A j \in NP!Slot : tasks'[j] = IF j = i THEN t ELSE tasks[j]
  BY <1>1 DEF NP!TypeOK
<1>3. loading' \in BOOLEAN /\ apart' \in BOOLEAN
  BY Zenon DEF NP!Begin
<1>4. apart' => NP!Idle /\ (t.kind = "remove" => apart)
  BY Zenon DEF NP!Begin
<1> QED
  BY <1>1, <1>2, <1>3, <1>4

(* A handler for the node that is shown begins; the workflows stay as they *)
(* are, or are loaded anew.                                                *)
LEMMA BeginPanelsInv ==
    ASSUME NP!PanelsAssumption, PanelsInv,
           NEW kind \in {"load", "add", "remove"}, NEW docs \in SUBSET Doc, node' \in Node,
           NP!Begin(NP!Task(kind, node', docs)), UNCHANGED <<bound, sources, unseen>>,
           NP!Reload \/ UNCHANGED <<node, panel, load>>,
           kind = "remove" => UNCHANGED <<node, fetchError>>
    PROVE  WorkflowsComing' /\ BindsFirst' /\ AtMostOne' /\ ListComing'
<1> DEFINE t == NP!Task(kind, node', docs)
<1>1. /\ t \in NP!Tasks /\ t.kind = kind /\ t.node = node' /\ t.todo = docs
      /\ t.got = IF docs = {} THEN Asked ELSE None
  BY TaskFields
<1>2. NP!Begin(t)
  OBVIOUS
<1> HIDE DEF t
<1>3. /\ apart' => NP!Idle /\ (kind = "remove" => apart)
      /\ \E i \in NP!Slot : /\ tasks[i] = None
                            /\ \A j \in NP!Slot : tasks'[j] = IF j = i THEN t ELSE tasks[j]
  BY <1>1, <1>2, BeginStep DEF PanelsInv
<1>4. PICK i \in NP!Slot : /\ tasks[i] = None
                           /\ \A j \in NP!Slot : tasks'[j] = IF j = i THEN t ELSE tasks[j]
  BY <1>3
<1>5. t # None
  BY <1>1 DEF NP!PanelsAssumption
<1>6. WorkflowsComing'
  <2>1. CASE \E j \in NP!Slot : Reloads(j)
    BY <2>1, <1>4 DEF WorkflowsComing, Reloads, UnderWay
  <2> QED
    BY <2>1 DEF WorkflowsComing, PanelsInv, NP!Reload
<1>7. BindsFirst'
  BY <1>1, <1>4 DEF BindsFirst, PanelsInv, UnderWay
<1>8. AtMostOne'
  BY <1>3, <1>4 DEF AtMostOne, UnderWay, NP!Idle
<1>9. ListComing'
  <2> SUFFICES ASSUME apart', ~unseen'
               PROVE  /\ NP!Idle' => ListIsOwn'
                      /\ \A j \in NP!Slot : UnderWay(j)' => HandlerIsOwn(j)'
    BY DEF ListComing
  <2>1. ~NP!Idle'
    BY <1>4, <1>5 DEF NP!Idle
  <2>2. ASSUME NEW j \in NP!Slot, UnderWay(j)' PROVE HandlerIsOwn(j)'
    <3>1. tasks'[j] = t
      BY <2>2, <1>3, <1>4 DEF UnderWay, NP!Idle
    <3>2. kind = "remove" => ListIsOwn /\ UNCHANGED <<node, fetchError>>
      BY <1>3 DEF PanelsInv, ListComing
    <3> QED
      BY <3>1, <3>2, <1>1 DEF HandlerIsOwn, ListIsOwn
  <2> QED
    BY <2>1, <2>2
<1> QED
  BY <1>6, <1>7, <1>8, <1>9

(* The user: nodes, the selector, and the buttons that begin handlers      *)
LEMMA UserPanelsInv ==
    ASSUME NP!PanelsAssumption, PanelsInv, NP!User PROVE PanelsInv'
<1> USE DEF PanelsInv
<1> DEFINE Flags == {fetchError, loading, selectorOpen, apart, unseen} \subseteq BOOLEAN
<1>t. /\ bound \in [Node -> SUBSET Doc] /\ node \in Node
      /\ sources \subseteq Doc /\ selectedDocs \subseteq Doc /\ Flags
  BY DEF NP!TypeOK
<1>1. ASSUME NEW n \in Node, NP!SelectNode(n) PROVE PanelsInv'
  <2>1. /\ NP!Begin(NP!Task("load", node', {})) /\ NP!Reload /\ node' = n
        /\ UNCHANGED <<bound, sources, selectorOpen, selectedDocs, unseen>>
    BY <1>1 DEF NP!SelectNode, NP!selector
  <2>2. /\ loading' \in BOOLEAN /\ apart' \in BOOLEAN
        /\ tasks' \in [NP!Slot -> {None} \cup NP!Tasks]
    BY <2>1, <1>1, BeginStep, TaskFields
  <2>3. fetchError' \in BOOLEAN
    BY <1>1, Zenon DEF NP!SelectNode
  <2>4. NP!TypeOK'
    BY <2>1, <2>2, <2>3, <1>t, <1>1 DEF NP!TypeOK, NP!Reload
  <2>5. WorkflowsComing' /\ BindsFirst' /\ AtMostOne' /\ ListComing'
    BY <2>1, <1>1, BeginPanelsInv
  <2> QED
    BY <2>4, <2>5
<1>2. CASE NP!HandleAddSources \/ NP!Retry \/ \E d \in Doc : NP!HandleRemoveSource(d)
  <2> DEFINE Begins(kind, docs) ==
        /\ NP!Begin(NP!Task(kind, node', docs))
        /\ UNCHANGED <<bound, node, sources, selectorOpen, selectedDocs, panel, load, unseen>>
        /\ kind = "remove" => UNCHANGED fetchError
        /\ fetchError' \in BOOLEAN
  <2>1. \E kind \in {"load", "add", "remove"}, docs \in SUBSET Doc : Begins(kind, docs)
    <3>1. CASE NP!HandleAddSources
      <4>1. Begins("add", selectedDocs)
        BY <3>1, <1>t DEF NP!HandleAddSources, NP!selector, NP!workflows
      <4> QED
        BY <4>1, <1>t
    <3>2. CASE NP!Retry
      <4>1. fetchError' \in BOOLEAN
        BY <3>2, Zenon DEF NP!Retry
      <4>2. Begins("load", {})
        BY <3>2, <4>1 DEF NP!Retry, NP!selector, NP!workflows
      <4> QED
        BY <4>2
    <3>3. ASSUME NEW d \in Doc, NP!HandleRemoveSource(d) PROVE Begins("remove", {d})
      <4>1. UNCHANGED fetchError /\ fetchError' \in BOOLEAN
        BY <3>3, <1>t, Zenon DEF NP!HandleRemoveSource
      <4> QED
        BY <3>3, <4>1 DEF NP!HandleRemoveSource, NP!selector, NP!workflows
    <3> HIDE DEF Begins
    <3>4. \A d \in Doc : {d} \in SUBSET Doc
      OBVIOUS
    <3> QED
      BY <1>2, <3>1, <3>2, <3>3, <3>4
  <2>p. PICK kind \in {"load", "add", "remove"}, docs \in SUBSET Doc : Begins(kind, docs)
    BY <2>1
  <2>2. /\ loading' \in BOOLEAN /\ apart' \in BOOLEAN
        /\ tasks' \in [NP!Slot -> {None} \cup NP!Tasks]
    BY <2>p, <1>t, BeginStep, TaskFields
  <2>3. NP!TypeOK'
    BY <2>p, <2>2, <1>t DEF NP!TypeOK
  <2>4. WorkflowsComing' /\ BindsFirst' /\ AtMostOne' /\ ListComing'
    BY <2>p, <1>t, BeginPanelsInv
  <2> QED
    BY <2>3, <2>4
<1>3. CASE \/ NP!OpenSelector \/ NP!CancelSelector
           \/ \E d \in Doc : NP!HandleDocumentClick(d)
  <2>1. /\ UNCHANGED <<bound, node, sources, fetchError, loading, tasks, panel, load, apart,
                       unseen>>
        /\ selectedDocs' \subseteq Doc
    BY <1>3, <1>t DEF NP!OpenSelector, NP!CancelSelector, NP!HandleDocumentClick, NP!list,
                      NP!workflows
  <2>2. selectorOpen' \in BOOLEAN
    <3>1. selectorOpen \in BOOLEAN
      BY <1>t
    <3> QED
      BY <3>1, <1>3, Zenon DEF NP!OpenSelector, NP!CancelSelector, NP!HandleDocumentClick
  <2>3. NP!TypeOK'
    BY <2>1, <2>2 DEF NP!TypeOK
  <2> QED
    BY <2>1, <2>3 DEF WorkflowsComing, Reloads, UnderWay, BindsFirst, AtMostOne, ListComing,
                      HandlerIsOwn, ListIsOwn, NP!Idle
<1> QED
  BY <1>1, <1>2, <1>3 DEF NP!User


(* A handler that is to fetch, and one whose answer is there               *)
LEMMA FetchSourcesStep ==
    ASSUME NP!PanelsAssumption, NP!TypeOK, NEW i \in NP!Slot, tasks[i] # None, NP!FetchSources(i)
    PROVE  /\ tasks' \in [NP!Slot -> {None} \cup NP!Tasks] /\ tasks'[i] # None
           /\ \A j \in NP!Slot \ {i} : tasks'[j] = tasks[j]
           /\ tasks'[i].kind = tasks[i].kind /\ tasks'[i].node = tasks[i].node
           /\ tasks'[i].todo = {} /\ tasks'[i].got = Asked
           /\ fetchError' \in BOOLEAN /\ loading' \in BOOLEAN
<1> DEFINE t == [tasks[i] EXCEPT !.todo = {}]
           u == [t EXCEPT !.got = Asked]
<1>1. tasks[i] \in NP!Tasks
  BY DEF NP!TypeOK
<1>2. t \in NP!Tasks /\ t.kind = tasks[i].kind /\ t.node = tasks[i].node /\ t.todo = {}
  BY <1>1 DEF NP!Tasks
<1>3. tasks' = [tasks EXCEPT ![i] = u]
  BY DEF NP!FetchSources
<1> HIDE DEF t
<1>4. /\ u \in NP!Tasks /\ u.kind = tasks[i].kind /\ u.node = tasks[i].node /\ u.todo = {}
      /\ u.got = Asked
  BY <1>2 DEF NP!Tasks
<1> HIDE DEF u
<1>5. u # None
  BY <1>4 DEF NP!PanelsAssumption
<1>6. fetchError' \in BOOLEAN /\ loading' \in BOOLEAN
  BY Zenon DEF NP!FetchSources
<1> QED
  BY <1>3, <1>4, <1>5, <1>6 DEF NP!TypeOK

(* A handler binds or unbinds a document, and remains.                     *)
LEMMA BindingPanelsInv ==
    ASSUME NP!PanelsAssumption, PanelsInv, NEW i \in NP!Slot,
           \/ \E d \in Doc : NP!BindNext(i, d)
           \/ NP!UnbindAnswer(i)
    PROVE  PanelsInv'
<1> USE DEF PanelsInv
<1>1. /\ tasks[i] # None /\ tasks[i].kind \in {"add", "remove"}
      /\ UNCHANGED <<node, sources, selectedDocs, panel, load, apart, unseen>>
      /\ bound' \in [Node -> SUBSET Doc]
  <2>1. tasks[i] # None => tasks[i] \in NP!Tasks
    BY DEF NP!TypeOK
  <2>2. ASSUME NEW d \in Doc, NP!BindNext(i, d)
        PROVE  bound' \in [Node -> SUBSET Doc]
    BY <2>1, <2>2 DEF NP!BindNext, NP!Bind, NP!TypeOK, NP!Tasks
  <2>3. CASE NP!UnbindAnswer(i)
    <3>1. PICK d \in tasks[i].todo : NP!Unbind(tasks[i].node, d)
      BY <2>3 DEF NP!UnbindAnswer
    <3>2. bound' \in [Node -> SUBSET Doc]
      BY <3>1 DEF NP!Unbind, NP!TypeOK
    <3> QED
      BY <2>3, <3>2 DEF NP!UnbindAnswer, NP!selector, NP!workflows
  <2> QED
    BY <2>2, <2>3 DEF NP!BindNext, NP!workflows, NP!list
<1>2. /\ tasks' \in [NP!Slot -> {None} \cup NP!Tasks] /\ tasks'[i] # None
      /\ \A j \in NP!Slot \ {i} : tasks'[j] = tasks[j]
      /\ tasks'[i].kind = tasks[i].kind /\ tasks'[i].node = tasks[i].node
      /\ tasks'[i].todo = {} \/ (tasks[i].kind = "add" /\ tasks'[i].got = None)
      /\ tasks'[i].got = Asked \/ (tasks[i].kind = "add" /\ tasks'[i].got = None)
      /\ {fetchError, loading, selectorOpen}' \subseteq BOOLEAN
  <2>t. {fetchError, loading, selectorOpen} \subseteq BOOLEAN /\ tasks[i] \in NP!Tasks
    BY <1>1 DEF NP!TypeOK
  <2>1. CASE NP!FetchSources(i) /\ selectorOpen' \in {FALSE, selectorOpen}
    <3>1. selectorOpen' \in BOOLEAN
      BY <2>1, <2>t, Zenon
    <3> QED
      BY <2>1, <3>1, <1>1, FetchSourcesStep
  <2>2. ASSUME NEW d \in tasks[i].todo, tasks' = [tasks EXCEPT ![i].todo = @ \ {d}],
               tasks[i].kind = "add", UNCHANGED <<selectorOpen, fetchError, loading>>
        PROVE  <1>2!:
    <3> DEFINE u == [tasks[i] EXCEPT !.todo = @ \ {d}]
    <3>1. /\ u \in NP!Tasks /\ u.kind = "add" /\ u.node = tasks[i].node /\ u.got = tasks[i].got
      BY <2>2, <2>t DEF NP!Tasks
    <3>2. tasks' = [tasks EXCEPT ![i] = u]
      BY <2>2
    <3>3. tasks[i].got = None
      BY <2>2, <1>1 DEF BindsFirst, UnderWay
    <3>4. {fetchError, loading, selectorOpen}' \subseteq BOOLEAN
      BY <2>2, <2>t
    <3> HIDE DEF u
    <3>5. u # None
      BY <3>1 DEF NP!PanelsAssumption
    <3> QED
      BY <3>1, <3>2, <3>3, <3>4, <3>5, <2>2 DEF NP!TypeOK
  <2>3. ASSUME NEW d \in Doc, NP!BindNext(i, d) PROVE <1>2!:
    BY <2>1, <2>2, <2>3 DEF NP!BindNext, NP!list
  <2>4. CASE NP!UnbindAnswer(i)
    BY <2>1, <2>4 DEF NP!UnbindAnswer, NP!selector
  <2> QED
    BY <2>3, <2>4
<1>3. NP!TypeOK'
  BY <1>1, <1>2 DEF NP!TypeOK
<1>4. None # Asked
  BY DEF NP!PanelsAssumption
<1>5. WorkflowsComing'
  <2>1. Reloads(i)'
    BY <1>1, <1>2, <1>4 DEF Reloads, UnderWay
  <2> QED
    BY <2>1 DEF WorkflowsComing
<1>6. BindsFirst' /\ AtMostOne'
  BY <1>1, <1>2 DEF BindsFirst, AtMostOne, UnderWay
<1>7. ListComing'
  <2> SUFFICES ASSUME apart', ~unseen'
               PROVE  /\ NP!Idle' => ListIsOwn'
                      /\ \A j \in NP!Slot : UnderWay(j)' => HandlerIsOwn(j)'
    BY DEF ListComing
  <2>1. ~NP!Idle'
    BY <1>2 DEF NP!Idle
  <2>2. tasks[i].node = node
    BY <1>1 DEF ListComing, UnderWay, HandlerIsOwn
  <2>3. HandlerIsOwn(i)'
    BY <1>1, <1>2, <1>4, <2>2 DEF HandlerIsOwn
  <2>4. \A j \in NP!Slot : UnderWay(j)' => j = i
    BY <1>1, <1>2 DEF AtMostOne, UnderWay
  <2> QED
    BY <2>1, <2>3, <2>4
<1> QED
  BY <1>3, <1>5, <1>6, <1>7

(* A handler reads what is bound.                                          *)
LEMMA ReadPanelsInv ==
    ASSUME NP!PanelsAssumption, PanelsInv, NEW i \in NP!Slot, NP!FetchRead(i) PROVE PanelsInv'
<1> USE DEF PanelsInv
<1> DEFINE u == [tasks[i] EXCEPT !.got = bound[tasks[i].node]]
<1>1. /\ tasks[i] # None /\ tasks[i].got = Asked /\ tasks' = [tasks EXCEPT ![i] = u]
      /\ UNCHANGED <<bound, node, NP!list, NP!selector, panel, load, apart, unseen>>
  BY DEF NP!FetchRead, NP!workflows
<1>2. tasks[i] \in NP!Tasks /\ bound[tasks[i].node] \in SUBSET Doc
  BY <1>1 DEF NP!TypeOK, NP!Tasks
<1>3. /\ u \in NP!Tasks /\ u.kind = tasks[i].kind /\ u.node = tasks[i].node
      /\ u.todo = tasks[i].todo /\ u.got = bound[tasks[i].node]
  BY <1>2 DEF NP!Tasks
<1> HIDE DEF u
<1>4. u # None /\ u.got \notin {None, Asked} /\ None # Asked
  BY <1>2, <1>3 DEF NP!PanelsAssumption
<1>5. /\ tasks' \in [NP!Slot -> {None} \cup NP!Tasks]
      /\ \A j \in NP!Slot : tasks'[j] = IF j = i THEN u ELSE tasks[j]
  BY <1>1, <1>3 DEF NP!TypeOK
<1>6. NP!TypeOK'
  BY <1>1, <1>5 DEF NP!TypeOK, NP!list, NP!selector
<1>7. WorkflowsComing'
  <2>1. ASSUME NEW j \in NP!Slot, Reloads(j) PROVE Reloads(j)'
    BY <2>1, <1>1, <1>3, <1>4, <1>5 DEF Reloads, UnderWay
  <2> QED
    BY <1>1, <2>1 DEF WorkflowsComing
<1>8. BindsFirst'
  BY <1>1, <1>3, <1>4, <1>5 DEF BindsFirst, UnderWay
<1>9. AtMostOne'
  BY <1>1, <1>5 DEF AtMostOne, UnderWay
<1>10. ListComing'
  <2> SUFFICES ASSUME apart', ~unseen'
               PROVE  /\ NP!Idle' => ListIsOwn'
                      /\ \A j \in NP!Slot : UnderWay(j)' => HandlerIsOwn(j)'
    BY DEF ListComing
  <2>1. ~NP!Idle'
    BY <1>4, <1>5 DEF NP!Idle
  <2>2. ASSUME NEW j \in NP!Slot, UnderWay(j)' PROVE HandlerIsOwn(j)'
    <3>1. j = i /\ HandlerIsOwn(i)
      BY <2>2, <1>1, <1>5 DEF AtMostOne, UnderWay, ListComing
    <3> QED
      BY <3>1, <1>1, <1>3, <1>4, <1>5 DEF HandlerIsOwn
  <2> QED
    BY <2>1, <2>2
<1> QED
  BY <1>6, <1>7, <1>8, <1>9, <1>10

(* A handler ends: it was refused, or its fetch is answered, or failed.    *)
LEMMA EndsPanelsInv ==
    ASSUME NP!PanelsAssumption, PanelsInv, NEW i \in NP!Slot,
           NP!UnbindFails(i) \/ NP!FetchAnswer(i) \/ NP!FetchFails(i)
    PROVE  PanelsInv'
<1> USE DEF PanelsInv
<1>1. /\ tasks[i] # None /\ tasks' = [tasks EXCEPT ![i] = None]
      /\ UNCHANGED <<node, selectorOpen, apart>>
      /\ selectedDocs' \subseteq Doc
  BY DEF NP!UnbindFails, NP!FetchAnswer, NP!FetchFails, NP!Fetched, NP!selector, NP!TypeOK
<1>2. tasks[i] \in NP!Tasks /\ bound[tasks[i].node] \in SUBSET Doc
  BY <1>1 DEF NP!TypeOK, NP!Tasks
<1>3. /\ tasks' \in [NP!Slot -> {None} \cup NP!Tasks]
      /\ \A j \in NP!Slot : tasks'[j] = IF j = i THEN None ELSE tasks[j]
  BY <1>1 DEF NP!TypeOK
<1>4. {fetchError, loading, unseen}' \subseteq BOOLEAN
  <2>1. fetchError \in BOOLEAN /\ unseen \in BOOLEAN
    BY DEF NP!TypeOK
  <2> QED
    BY <2>1, Zenon DEF NP!UnbindFails, NP!FetchAnswer, NP!FetchFails, NP!Fetched
<1>5. bound' \in [Node -> SUBSET Doc] /\ (bound' = bound \/ unseen')
  <2>1. CASE NP!UnbindFails(i)
    <3>1. ASSUME NEW d, NP!Unbind(tasks[i].node, d) PROVE bound' \in [Node -> SUBSET Doc]
      BY <3>1 DEF NP!Unbind, NP!TypeOK
    <3> QED
      BY <2>1, <3>1 DEF NP!UnbindFails, NP!TypeOK
  <2> QED
    BY <2>1 DEF NP!FetchAnswer, NP!FetchFails, NP!TypeOK
<1>6. \/ UNCHANGED <<panel, load>> /\ ~Reloads(i)
      \/ panel' = None /\ load' = Asked
  <2>1. tasks[i].kind = "load" => ~Reloads(i)
    BY DEF Reloads
  <2>2. NP!UnbindFails(i) => ~Reloads(i)
    BY DEF NP!UnbindFails, Reloads
  <2> QED
    BY <2>1, <2>2 DEF NP!UnbindFails, NP!FetchAnswer, NP!FetchFails, NP!Fetched, NP!Reload,
                      NP!workflows
<1>7. sources' = sources \/ (sources' = tasks[i].got /\ tasks[i].got \notin {None, Asked})
  BY DEF NP!UnbindFails, NP!FetchAnswer, NP!FetchFails
<1>8. NP!TypeOK'
  BY <1>1, <1>2, <1>3, <1>4, <1>5, <1>6, <1>7 DEF NP!TypeOK, NP!Tasks
<1>9. unseen => unseen'
  BY DEF NP!UnbindFails, NP!FetchAnswer, NP!FetchFails
<1>10. WorkflowsComing'
  <2>1. ASSUME NEW j \in NP!Slot, Reloads(j), j # i PROVE Reloads(j)'
    BY <2>1, <1>3 DEF Reloads, UnderWay
  <2> QED
    BY <1>1, <1>5, <1>6, <1>9, <2>1 DEF WorkflowsComing
<1>11. BindsFirst' /\ AtMostOne'
  BY <1>1, <1>3 DEF BindsFirst, AtMostOne, UnderWay
<1>12. ListComing'
  <2> SUFFICES ASSUME apart', ~unseen'
               PROVE  /\ NP!Idle' => ListIsOwn'
                      /\ \A j \in NP!Slot : UnderWay(j)' => HandlerIsOwn(j)'
    BY DEF ListComing
  <2>1. HandlerIsOwn(i) /\ bound' = bound
    BY <1>1, <1>5, <1>9 DEF ListComing, UnderWay
  <2>2. \A j \in NP!Slot : ~UnderWay(j)'
    BY <1>1, <1>3 DEF AtMostOne, UnderWay
  <2>3. ListIsOwn'
    <3>1. CASE NP!UnbindFails(i)
      BY <3>1, <2>1, <1>1 DEF NP!UnbindFails, HandlerIsOwn, ListIsOwn
    <3>2. CASE NP!FetchAnswer(i)
      BY <3>2, <2>1, <1>1 DEF NP!FetchAnswer, HandlerIsOwn, ListIsOwn
    <3>3. CASE NP!FetchFails(i)
      BY <3>3 DEF NP!FetchFails, ListIsOwn
    <3> QED
      BY <3>1, <3>2, <3>3
  <2> QED
    BY <2>2, <2>3
<1> QED
  BY <1>8, <1>10, <1>11, <1>12

LEMMA InitPanelsInv == NP!PanelsAssumption /\ NP!Init => PanelsInv
<1> SUFFICES ASSUME NP!PanelsAssumption, NP!Init PROVE PanelsInv
  OBVIOUS
<1> DEFINE t == NP!Task("load", node, {})
<1>1. tasks = [i \in NP!Slot |-> IF i = 1 THEN t ELSE None] /\ node \in Node
  BY DEF NP!Init
<1>2. t \in NP!Tasks /\ t.kind = "load" /\ t.node = node /\ t.todo = {} /\ t.got = Asked
  BY <1>1, TaskFields
<1> HIDE DEF t
<1>3. t # None /\ 1 \in NP!Slot
  BY <1>2 DEF NP!PanelsAssumption, NP!Slot
<1>4. {fetchError, loading, selectorOpen, apart, unseen} \subseteq BOOLEAN
  BY Zenon DEF NP!Init
<1>5. NP!TypeOK
  BY <1>1, <1>2, <1>4 DEF NP!Init, NP!TypeOK
<1>6. WorkflowsComing
  BY DEF NP!Init, WorkflowsComing
<1>7. BindsFirst /\ AtMostOne
  BY <1>1, <1>2 DEF BindsFirst, AtMostOne, UnderWay
<1>8. ListComing
  BY <1>1, <1>2, <1>3 DEF ListComing, UnderWay, HandlerIsOwn, NP!Idle
<1> QED
  BY <1>5, <1>6, <1>7, <1>8 DEF PanelsInv

LEMMA NextPanelsInv ==
    ASSUME NP!PanelsAssumption, PanelsInv, NP!Next \/ UNCHANGED NP!vars PROVE PanelsInv'
<1>1. CASE NP!LoadRead \/ NP!LoadAnswer \/ NP!LoadFails \/ UNCHANGED NP!vars
  <2> USE DEF PanelsInv
  <2>1. UNCHANGED <<bound, node, NP!list, NP!selector, tasks, apart, unseen>>
    BY <1>1 DEF NP!LoadRead, NP!LoadAnswer, NP!LoadFails, NP!vars
  <2>2. /\ panel' \in {panel, load} /\ load' \in {load, None, bound[node]}
        /\ panel' = panel \/ load \notin {None, Asked}
    BY <1>1 DEF NP!LoadRead, NP!LoadAnswer, NP!LoadFails, NP!vars, NP!workflows
  <2>3. NP!TypeOK'
    BY <2>1, <2>2 DEF NP!TypeOK, NP!list, NP!selector
  <2>4. WorkflowsComing'
    BY <2>1, <2>2 DEF WorkflowsComing, Reloads, UnderWay
  <2>5. BindsFirst' /\ AtMostOne' /\ ListComing'
    BY <2>1 DEF BindsFirst, AtMostOne, ListComing, UnderWay, HandlerIsOwn, ListIsOwn, NP!Idle,
                NP!list
  <2> QED
    BY <2>3, <2>4, <2>5
<1> QED
  BY <1>1, UserPanelsInv, BindingPanelsInv, ReadPanelsInv, EndsPanelsInv
     DEF NP!Next, NP!Handlers

-----------------------------------------------------------------------------
(* The tree                                                                *)

(* The tree that is shown is the server's, or such a tree is on its way,   *)
(* or is asked for, or will be when the answer of a call comes that may    *)
(* have changed it, or one of these was lost.                              *)
TreeComing == \/ missed \/ early \/ \E c \in calls : c.phase = "done" /\ c.kind # "purge"
              \/ fetch \in {Asked, CP!Tree}
              \/ fetch = None /\ shown = CP!Tree

TreeInv == CP!TypeOK /\ TreeComing

(* The server's tree can be told from no answer.                           *)
LEMMA TreeType == ASSUME CP!PanelAssumption PROVE CP!Tree \in CP!Trees /\ CP!Tree \notin {None, Asked}
BY DEF CP!Tree, CP!Trees, CP!Alive, CP!PanelAssumption

(* What is kept of a selection is listed, with the parent of one of them.  *)
LEMMA SelectStep ==
    ASSUME NEW ids \in SUBSET Cat, NEW par, NEW t, CP!Select(ids, par, t)
    PROVE  /\ selectedIds' = ids \cap CP!Alive(t)
           /\ \/ \E f \in selectedIds' : selectionParentId' = t[f]
              \/ selectedIds' = {} /\ selectionParentId' \in {"undefined", par}
<1> DEFINE kept == ids \cap CP!Alive(t)
<1>1. PICK s \in CP!Settled(ids, par, t) : selectedIds' = s.ids /\ selectionParentId' = s.par
  BY DEF CP!Select
<1>2. CASE kept # {}
  <2>1. \E f \in kept : s = [ids |-> kept, par |-> t[f]]
    BY <1>1, <1>2 DEF CP!Settled
  <2> QED
    BY <1>1, <2>1
<1>3. CASE kept = {}
  <2>1. s.ids = {} /\ s.par \in {"undefined", par}
    BY <1>1, <1>3 DEF CP!Settled
  <2> QED
    BY <1>1, <1>3, <2>1
<1> QED
  BY <1>2, <1>3

Selection == selectedIds \subseteq Cat /\ selectionParentId \in Cat \cup {"root", "undefined"}

(* A selection in a tree has the type of selections.                       *)
LEMMA SelectType ==
    ASSUME NEW ids \in SUBSET Cat, NEW par \in Cat \cup {"root", "undefined"}, NEW t,
           CP!Select(ids, par, t)
    PROVE  Selection'
<1>1. \A f \in CP!Alive(t) : t[f] \in Cat \cup {"root"}
  BY DEF CP!Alive
<1>2. /\ selectedIds' = ids \cap CP!Alive(t)
      /\ \/ \E f \in selectedIds' : selectionParentId' = t[f]
         \/ selectedIds' = {} /\ selectionParentId' \in {"undefined", par}
  BY SelectStep
<1>3. selectionParentId' \in Cat \cup {"root", "undefined"}
  BY <1>1, <1>2
<1> QED
  BY <1>2, <1>3 DEF Selection

(* Nodes that have one parent still have when they are selected.           *)
LEMMA SelectAlike ==
    ASSUME NEW ids \in SUBSET Cat, NEW par, NEW q, UNCHANGED shown, CP!Select(ids, par, shown),
           \A c \in ids : shown[c] = q
    PROVE  CP!Alike'
BY SelectStep DEF CP!Alike, CP!Alive

(* The clicks on nodes: what is selected together has one parent.          *)
LEMMA ClickStep ==
    ASSUME CP!PanelAssumption, CP!TypeOK, NEW c \in CP!TreeNodes,
           \/ \E mod \in {"plain", "meta", "shift"} : CP!HandleSelect(c, mod)
           \/ CP!HandleBreadcrumbNavigate(c) \/ CP!FollowLink(c)
           \/ CP!OpenMenu(c) /\ UNCHANGED shown
    PROVE  Selection' /\ CP!StaysAlike
<1>1. /\ c \in Cat /\ shown[c] \in Cat \cup {"root"} /\ UNCHANGED shown
      /\ selectedIds \subseteq Cat
  BY DEF CP!TypeOK, CP!TreeNodes, CP!Alive, CP!HandleSelect, CP!HandleBreadcrumbNavigate,
         CP!FollowLink, CP!NotSelecting, CP!query
<1>2. CASE CP!Select({c}, shown[c], shown)
  <2>1. {c} \in SUBSET Cat /\ (\A d \in {c} : shown[d] = shown[c])
    BY <1>1
  <2>2. Selection'
    BY <1>1, <1>2, <2>1, SelectType
  <2>3. CP!Alike'
    BY <1>1, <1>2, <2>1, SelectAlike
  <2> QED
    BY <2>2, <2>3 DEF CP!StaysAlike
<1>3. CASE /\ c \in selectedIds
           /\ CP!Select(selectedIds \ {c}, IF selectedIds = {c} THEN "undefined" ELSE shown[c], shown)
  <2>1. Selection'
    BY <1>1, <1>3, SelectType
  <2>2. CP!Alike => CP!Alike'
    <3> SUFFICES ASSUME CP!Alike PROVE CP!Alike'
      OBVIOUS
    <3>1. \A d \in selectedIds \ {c} : shown[d] = selectionParentId
      BY DEF CP!Alike
    <3> QED
      BY <1>1, <1>3, <3>1, SelectAlike
  <2> QED
    BY <2>1, <2>2 DEF CP!StaysAlike
<1>4. ASSUME NEW s \in SUBSET Cat, CP!Select(selectedIds \cup s, shown[c], shown),
             \A d \in s : shown[d] = shown[c],
             \/ selectionParentId = shown[c]
             \/ selectionParentId = "undefined" /\ s \in {{}, {c}}
      PROVE  Selection' /\ CP!StaysAlike
  <2>1. Selection'
    BY <1>1, <1>4, SelectType
  <2>2. CP!Alike => CP!Alike'
    <3> SUFFICES ASSUME CP!Alike PROVE CP!Alike'
      OBVIOUS
    <3>1. selectionParentId = "undefined" => selectedIds = {}
      BY DEF CP!Alike, CP!Alive, CP!PanelAssumption
    <3>2. \A d \in selectedIds \cup s : shown[d] = shown[c]
      BY <1>4, <3>1 DEF CP!Alike
    <3> QED
      BY <1>1, <1>4, <3>2, SelectAlike
  <2> QED
    BY <2>1, <2>2 DEF CP!StaysAlike
<1>5. ASSUME NEW mod \in {"plain", "meta", "shift"}, CP!HandleSelect(c, mod)
      PROVE  Selection' /\ CP!StaysAlike
  <2>1. CASE mod = "plain" /\ CP!Select({c}, shown[c], shown)
    BY <1>2, <2>1
  <2>2. CASE mod # "plain" /\ c \notin selectedIds
    <3>1. selectionParentId \in {"undefined", shown[c]}
      BY <1>5, <2>2 DEF CP!HandleSelect, CP!MayAdd
    <3>2. CASE CP!Select(selectedIds \cup {c}, shown[c], shown)
      <4>1. {c} \in SUBSET Cat /\ (\A d \in {c} : shown[d] = shown[c]) /\ {c} \in {{}, {c}}
        BY <1>1
      <4> QED
        BY <1>4, <3>1, <3>2, <4>1
    <3>3. ASSUME NEW s \in SUBSET CP!Siblings(c), selectionParentId = "undefined" => s = {},
                 CP!Select(selectedIds \cup s, shown[c], shown)
          PROVE  Selection' /\ CP!StaysAlike
      BY <1>4, <3>1, <3>3 DEF CP!Siblings
    <3> QED
      BY <1>5, <2>2, <3>2, <3>3 DEF CP!HandleSelect
  <2> QED
    BY <1>3, <1>5, <2>1, <2>2 DEF CP!HandleSelect
<1>6. CASE CP!OpenMenu(c) /\ UNCHANGED CP!selection
  BY <1>1, <1>6 DEF CP!selection, CP!StaysAlike, CP!Alike, Selection, CP!TypeOK
<1> QED
  BY <1>2, <1>5, <1>6 DEF CP!HandleBreadcrumbNavigate, CP!FollowLink, CP!FocusNode, CP!OpenMenu

(* What a call does to the tree that is listed: deletions for good nothing *)
LEMMA EffectStep ==
    ASSUME CP!PanelAssumption, CP!TypeOK, NEW c \in calls, parent' \in CP!Effects(c)
    PROVE  /\ parent' \in [Cat -> Cat \cup {"root", "bin", "gone", "new"}]
           /\ c.kind = "purge" => CP!Tree' = CP!Tree
<1>1. c.kind \in CP!Kinds /\ parent \in [Cat -> Cat \cup {"root", "bin", "gone", "new"}]
  BY DEF CP!TypeOK, CP!Calls
<1>2. ASSUME NEW s, NEW to \in Cat \cup {"root", "bin", "gone", "new"}, parent' = CP!Placed(s, to)
      PROVE  parent' \in [Cat -> Cat \cup {"root", "bin", "gone", "new"}]
  BY <1>1, <1>2 DEF CP!Placed
<1>3. CP!Places(parent) \subseteq Cat \cup {"root"}
  BY DEF CP!Places, CP!Alive
<1>4. CASE c.kind \in {"move", "reposition"}
  <2>1. parent' = CP!Placed(c.on, c.to) /\ c.to \in CP!Places(parent)
    BY <1>4 DEF CP!Effects
  <2> QED
    BY <1>2, <1>3, <1>4, <2>1
<1>5. CASE c.kind \in {"copy", "create"}
  <2>1. \E s : parent' = CP!Placed(s, c.to) /\ c.to \in CP!Places(parent)
    BY <1>5 DEF CP!Effects
  <2> QED
    BY <1>2, <1>3, <1>5, <2>1
<1>6. CASE c.kind = "rename"
  BY <1>1, <1>6 DEF CP!Effects
<1>7. CASE c.kind = "delete"
  <2>1. parent' = CP!Placed(CP!Below(parent, c.on), "bin")
    BY <1>7 DEF CP!Effects
  <2> QED
    BY <1>2, <1>7, <2>1
<1>8. CASE c.kind = "restore"
  <2>1. \E to \in CP!Places(parent) : parent' = CP!Placed(c.on, to)
    BY <1>8 DEF CP!Effects
  <2> QED
    BY <1>2, <1>3, <1>8, <2>1
<1>9. CASE c.kind = "purge"
  <2>1. parent' = CP!Placed(c.on, "gone") /\ \A k \in c.on : parent[k] = "bin"
    BY <1>9 DEF CP!Effects
  <2>2. parent' \in [Cat -> Cat \cup {"root", "bin", "gone", "new"}]
    BY <1>2, <2>1
  <2>3. \A k \in Cat : /\ (k \in CP!Alive(parent))' <=> k \in CP!Alive(parent)
                       /\ k \in CP!Alive(parent) => parent'[k] = parent[k]
    BY <1>1, <2>1 DEF CP!Alive, CP!Placed, CP!PanelAssumption
  <2>4. CP!Tree' = CP!Tree
    BY <2>3 DEF CP!Tree
  <2> QED
    BY <2>2, <2>4
<1> QED
  BY <1>1, <1>4, <1>5, <1>6, <1>7, <1>8, <1>9 DEF CP!Kinds

Clipboards == [mode : {"copy", "cut"}, sourceIds : SUBSET Cat]

(* A call that is sent joins the others.                                   *)
LEMMA SendStep ==
    ASSUME CP!TypeOK, NEW kind \in CP!Kinds, NEW on \in SUBSET Cat, NEW to \in Cat \cup {"root"},
           CP!Send(kind, on, to)
    PROVE  calls \subseteq calls' /\ calls' \subseteq CP!Calls
<1> DEFINE c == [kind |-> kind, on |-> on, to |-> to, phase |-> "sent"]
<1>1. c \in CP!Calls
  BY DEF CP!Calls, CP!Phases
<1>2. calls' = calls \cup {c} /\ calls \subseteq CP!Calls
  BY DEF CP!Send, CP!TypeOK
<1> QED
  BY <1>1, <1>2

(* In the dialogs and menus, a selection is made for the node at most, and *)
(* one call is sent.                                                       *)
LEMMA DialogStep ==
    ASSUME CP!PanelAssumption, CP!TypeOK, CP!InDialogs
    PROVE  /\ UNCHANGED <<parent, CP!query, clipboard, missed>> /\ isMutating' \in BOOLEAN
           /\ calls \subseteq calls' /\ calls' \subseteq CP!Calls
           /\ Selection' /\ CP!StaysAlike
<1> USE DEF CP!query
<1>1. UNCHANGED <<parent, CP!query, clipboard, missed>>
  BY DEF CP!InDialogs
<1>t. /\ isMutating \in BOOLEAN /\ selectedIds \subseteq Cat /\ CP!TreeNodes \subseteq Cat
      /\ Selection
  BY DEF CP!TypeOK, CP!TreeNodes, CP!Alive, Selection
<1>2. UNCHANGED CP!selection => Selection' /\ CP!StaysAlike
  BY <1>t DEF CP!selection, Selection, CP!StaysAlike, CP!Alike
<1>3. CASE CP!RequestCreateRoot
  <2>1. isMutating' \in BOOLEAN
    BY <1>3, Zenon DEF CP!RequestCreateRoot
  <2> QED
    BY <1>1, <1>2, <1>3, <2>1, SendStep DEF CP!RequestCreateRoot, CP!Kinds
<1>4. ASSUME NEW c \in CP!TreeNodes, CP!ConfirmDelete(c)
      PROVE  /\ calls \subseteq calls' /\ calls' \subseteq CP!Calls /\ isMutating' \in BOOLEAN
             /\ Selection' /\ CP!StaysAlike
  <2>1. CP!Resolved(c) \in SUBSET Cat
    BY <1>t DEF CP!Resolved
  <2>2. calls \subseteq calls' /\ calls' \subseteq CP!Calls
    BY <1>4, <2>1, SendStep DEF CP!ConfirmDelete, CP!Kinds
  <2>3. isMutating' \in BOOLEAN
    BY <1>4, <1>t, Zenon DEF CP!ConfirmDelete
  <2> QED
    BY <1>1, <1>4, <2>2, <2>3, ClickStep DEF CP!ConfirmDelete, CP!InMenu
<1>5. ASSUME NEW c \in CP!TreeNodes, NEW kind \in {"create", "rename"}, CP!SubmitForm(c, kind)
      PROVE  /\ calls \subseteq calls' /\ calls' \subseteq CP!Calls /\ isMutating' \in BOOLEAN
             /\ Selection' /\ CP!StaysAlike
  <2>1. Selection' /\ CP!StaysAlike
    BY <1>1, <1>5, ClickStep DEF CP!SubmitForm, CP!InMenu
  <2>2. PICK on \in {{}, selectedIds'}, to \in {c, "root"}, k \in {"create", "rename"} :
              CP!Send(k, on, to)
    BY <1>5 DEF CP!SubmitForm
  <2>3. on \in SUBSET Cat /\ to \in Cat \cup {"root"} /\ k \in CP!Kinds
    BY <1>t, <2>1, <2>2 DEF Selection, CP!Kinds
  <2>4. isMutating' \in BOOLEAN
    BY <1>5, Zenon DEF CP!SubmitForm
  <2> QED
    BY <2>1, <2>2, <2>3, <2>4, SendStep
<1>6. ASSUME NEW s \in SUBSET Cat, CP!Restore(s) \/ CP!Purge(s)
      PROVE  /\ calls \subseteq calls' /\ calls' \subseteq CP!Calls /\ isMutating' \in BOOLEAN
             /\ Selection' /\ CP!StaysAlike
  <2>1. calls \subseteq calls' /\ calls' \subseteq CP!Calls
    BY <1>6, SendStep DEF CP!Restore, CP!Purge, CP!Kinds
  <2>2. UNCHANGED <<CP!selection, isMutating>>
    BY <1>6 DEF CP!Restore, CP!Purge
  <2> QED
    BY <1>2, <1>t, <2>1, <2>2
<1> QED
  BY <1>1, <1>3, <1>4, <1>5, <1>6 DEF CP!InDialogs

(* What one does on the page touches neither the tree nor its fetch.       *)
LEMMA UserStep ==
    ASSUME CP!PanelAssumption, CP!TypeOK, CP!User
    PROVE  /\ UNCHANGED <<parent, CP!query, missed>> /\ isMutating' \in BOOLEAN
           /\ calls \subseteq calls' /\ calls' \subseteq CP!Calls
           /\ clipboard' # None => clipboard' \in Clipboards
           /\ Selection' /\ CP!StaysAlike
<1> USE DEF CP!query
<1> DEFINE Goal == /\ UNCHANGED <<parent, CP!query, missed>> /\ isMutating' \in BOOLEAN
                   /\ calls \subseteq calls' /\ calls' \subseteq CP!Calls
                   /\ clipboard' # None => clipboard' \in Clipboards
                   /\ Selection' /\ CP!StaysAlike
<1>t. /\ isMutating \in BOOLEAN /\ selectedIds \subseteq Cat /\ CP!TreeNodes \subseteq Cat
      /\ calls \subseteq CP!Calls /\ (clipboard # None => clipboard \in Clipboards)
      /\ CP!Places(shown) \subseteq Cat \cup {"root"}
      /\ Selection
  BY DEF CP!TypeOK, CP!TreeNodes, CP!Places, CP!Alive, Clipboards, Selection
<1>1. ASSUME NEW c \in CP!TreeNodes,
             \/ \E mod \in {"plain", "meta", "shift"} : CP!HandleSelect(c, mod)
             \/ CP!HandleBreadcrumbNavigate(c) \/ CP!FollowLink(c)
      PROVE  Goal
  <2>1. UNCHANGED <<parent, CP!query, missed, isMutating, calls, clipboard>>
    BY <1>1 DEF CP!HandleSelect, CP!HandleBreadcrumbNavigate, CP!FollowLink, CP!NotSelecting
  <2>2. isMutating' \in BOOLEAN
    BY <1>t, <2>1
  <2> QED
    BY <1>1, <1>t, <2>1, <2>2, ClickStep
<1>2. ASSUME NEW c \in CP!TreeNodes, NEW mode \in {"copy", "cut"}, CP!ToClipboard(c, mode)
      PROVE  Goal
  <2>1. UNCHANGED <<parent, CP!query, missed, isMutating, calls>>
    BY <1>2 DEF CP!ToClipboard
  <2>2. isMutating' \in BOOLEAN
    BY <1>t, <2>1
  <2>3. CP!Resolved(c) \in SUBSET Cat
    BY <1>t DEF CP!Resolved
  <2>4. clipboard' \in Clipboards
    BY <1>2, <2>3 DEF CP!ToClipboard, CP!SetClipboard, Clipboards
  <2> QED
    BY <1>2, <1>t, <2>1, <2>2, <2>4, ClickStep DEF CP!ToClipboard, CP!InMenu
<1>3. ASSUME NEW c \in CP!TreeNodes, NEW to \in CP!Places(shown), CP!Paste(c, to)
      PROVE  Goal
  <2>1. UNCHANGED <<parent, CP!query, missed, clipboard>> /\ clipboard \in Clipboards
    BY <1>3, <1>t DEF CP!Paste, CP!PasteOffered
  <2>2. isMutating' \in BOOLEAN
    BY <1>3, Zenon DEF CP!Paste
  <2>3. PICK kind \in {"move", "copy"} : CP!Send(kind, clipboard.sourceIds, to)
    BY <1>3 DEF CP!Paste
  <2>4. calls \subseteq calls' /\ calls' \subseteq CP!Calls
    BY <1>t, <2>1, <2>3, SendStep DEF CP!Kinds, Clipboards
  <2> QED
    BY <1>3, <2>1, <2>2, <2>4, ClickStep DEF CP!Paste, CP!InMenu
<1>4. ASSUME NEW c \in CP!TreeNodes, NEW to \in CP!Places(shown), CP!HandleDrop(c, to)
      PROVE  Goal
  <2>1. UNCHANGED <<parent, CP!query, missed, clipboard, CP!selection>>
    BY <1>4 DEF CP!HandleDrop
  <2>2. isMutating' \in BOOLEAN
    BY <1>4, Zenon DEF CP!HandleDrop
  <2>3. {c} \in SUBSET Cat /\ to \in Cat \cup {"root"} /\ "reposition" \in CP!Kinds
    BY <1>t DEF CP!Kinds
  <2>4. calls \subseteq calls' /\ calls' \subseteq CP!Calls
    BY <1>4, <2>3, SendStep DEF CP!HandleDrop
  <2> QED
    BY <1>t, <2>1, <2>2, <2>4 DEF CP!selection, CP!StaysAlike, CP!Alike, Selection
<1>5. CASE CP!ClearClipboard
  <2>1. UNCHANGED <<parent, CP!query, missed, isMutating, calls, CP!selection>>
        /\ clipboard' = None
    BY <1>5 DEF CP!ClearClipboard
  <2>2. isMutating' \in BOOLEAN
    BY <1>t, <2>1
  <2> QED
    BY <1>t, <2>1, <2>2 DEF CP!selection, CP!StaysAlike, CP!Alike, Selection
<1>6. CASE CP!InDialogs
  BY <1>6, <1>t, DialogStep
<1> QED
  BY <1>1, <1>2, <1>3, <1>4, <1>5, <1>6 DEF CP!User

(* A call takes its turn.                                                  *)
LEMMA TurnStep ==
    ASSUME CP!TypeOK, NEW c \in calls, NEW phase \in CP!Phases, CP!Turn(c, phase)
    PROVE  /\ calls' \subseteq CP!Calls /\ calls \ {c} \subseteq calls'
           /\ \E d \in calls' : d.kind = c.kind /\ d.phase = phase
<1> DEFINE d == [c EXCEPT !.phase = phase]
<1>1. d \in CP!Calls /\ d.kind = c.kind /\ d.phase = phase /\ calls \subseteq CP!Calls
  BY DEF CP!TypeOK, CP!Calls
<1>2. calls' = (calls \ {c}) \cup {d}
  BY DEF CP!Turn
<1> HIDE DEF d
<1> QED
  BY <1>1, <1>2

(* The server carries out a call, or refuses it half-way.                  *)
LEMMA ServerStep ==
    ASSUME CP!PanelAssumption, TreeInv, NEW c \in calls, CP!Execute(c) \/ CP!Refuse(c)
    PROVE  TreeInv' /\ CP!StaysAlike
<1> USE DEF TreeInv, CP!query
<1>1. UNCHANGED <<CP!query, selectedIds, selectionParentId, clipboard, isMutating>>
  BY DEF CP!Execute, CP!Refuse, CP!page, CP!selection
<1>2. PICK phase \in {"done", "refused"} :
          /\ c.phase = "sent" /\ CP!Turn(c, phase)
          /\ \/ phase = "done" /\ parent' \in CP!Effects(c) /\ UNCHANGED missed
             \/ UNCHANGED <<parent, missed>>
             \/ parent' \in CP!Effects(c) /\ missed'
  BY DEF CP!Execute, CP!Refuse
<1>3. /\ calls' \subseteq CP!Calls /\ calls \ {c} \subseteq calls'
      /\ \E d \in calls' : d.kind = c.kind /\ d.phase = phase
  BY <1>2, TurnStep DEF CP!Phases
<1>4. /\ parent' \in [Cat -> Cat \cup {"root", "bin", "gone", "new"}]
      /\ (c.kind = "purge" \/ parent' = parent) => CP!Tree' = CP!Tree
  <2>1. parent' = parent => CP!Tree' = CP!Tree
    BY DEF CP!Tree, CP!Alive
  <2> QED
    BY <1>2, <2>1, EffectStep DEF CP!TypeOK
<1>5. missed' \in BOOLEAN
  BY Zenon DEF CP!Execute, CP!Refuse, CP!TypeOK
<1>6. CP!TypeOK'
  BY <1>1, <1>3, <1>4, <1>5 DEF CP!TypeOK
<1>7. TreeComing'
  <2>1. CASE missed'
    BY <2>1 DEF TreeComing
  <2>2. CASE ~missed' /\ c.kind # "purge" /\ phase = "done"
    BY <2>2, <1>3 DEF TreeComing
  <2>3. CASE ~missed' /\ CP!Tree' = CP!Tree
    BY <2>3, <1>1, <1>2, <1>3 DEF TreeComing
  <2> QED
    BY <1>2, <1>4, <2>1, <2>2, <2>3
<1> QED
  BY <1>1, <1>6, <1>7 DEF CP!StaysAlike, CP!Alike

(* The answer to a call comes, and what follows it on the page             *)
LEMMA AnswerStep ==
    ASSUME CP!PanelAssumption, TreeInv, NEW c \in calls,
           CP!Answer(c) \/ CP!FetchAgain(c) \/ CP!Finally(c) \/ CP!OnError(c)
    PROVE  TreeInv' /\ CP!StaysAlike
<1> USE DEF TreeInv
<1>1. UNCHANGED <<parent, shown, loaded, missed>> /\ CP!Tree' = CP!Tree
  BY DEF CP!Answer, CP!FetchAgain, CP!Finally, CP!OnError, CP!Tree, CP!Alive, CP!query
<1>i. CP!InvalidateTree => /\ fetch' \in {fetch, Asked} /\ early' \in BOOLEAN
                           /\ early' \/ fetch' \in {Asked, CP!Tree}
  <2>1. CP!InvalidateTree => early' \in BOOLEAN
    BY Zenon DEF CP!InvalidateTree
  <2> QED
    BY <1>1, <2>1 DEF CP!InvalidateTree
<1>2. /\ calls' \subseteq CP!Calls /\ calls \ {c} \subseteq calls'
      /\ \/ CP!InvalidateTree
         \/ UNCHANGED <<fetch, early>> /\ (c.kind = "purge" \/ c.phase # "done")
  <2>1. CASE CP!Answer(c)
    BY <2>1, TurnStep DEF CP!Answer, CP!Phases
  <2>2. CASE CP!FetchAgain(c)
    BY <2>2, TurnStep DEF CP!FetchAgain, CP!Phases
  <2>3. CASE CP!Finally(c)
    BY <2>3 DEF CP!Finally, CP!TypeOK, CP!query
  <2>4. CASE CP!OnError(c)
    BY <2>4 DEF CP!OnError, CP!TypeOK
  <2> QED
    BY <2>1, <2>2, <2>3, <2>4
<1>3. isMutating' \in BOOLEAN
  <2>1. isMutating \in BOOLEAN
    BY DEF CP!TypeOK
  <2> QED
    BY <2>1, Zenon DEF CP!Answer, CP!FetchAgain, CP!Finally, CP!OnError, CP!page
<1>4. /\ clipboard' \in {None, clipboard}
      /\ CP!Select({}, "undefined", shown) \/ UNCHANGED CP!selection
  BY DEF CP!Answer, CP!FetchAgain, CP!Finally, CP!OnError, CP!page
<1>5. Selection' /\ CP!StaysAlike
  <2>1. CASE CP!Select({}, "undefined", shown)
    <3>1. \A d \in {} : shown[d] = None
      OBVIOUS
    <3> QED
      BY <1>1, <2>1, <3>1, SelectType, SelectAlike DEF CP!StaysAlike
  <2>2. CASE UNCHANGED CP!selection
    BY <1>1, <2>2 DEF CP!selection, CP!StaysAlike, CP!Alike, Selection, CP!TypeOK
  <2> QED
    BY <1>4, <2>1, <2>2
<1>6. fetch' \in {fetch, Asked} /\ early' \in BOOLEAN
  <2>1. UNCHANGED early => early' \in BOOLEAN
    BY DEF CP!TypeOK
  <2> QED
    BY <1>2, <1>i, <2>1
<1>7. CP!TypeOK'
  BY <1>1, <1>2, <1>3, <1>4, <1>5, <1>6 DEF CP!TypeOK, Selection
<1>8. TreeComing'
  BY <1>1, <1>2, <1>i DEF TreeComing
<1> QED
  BY <1>5, <1>7, <1>8

(* The fetch of the tree                                                   *)
LEMMA FetchStep ==
    ASSUME CP!PanelAssumption, TreeInv, CP!TreeRead \/ CP!TreeAnswer \/ CP!TreeFails
    PROVE  TreeInv' /\ CP!StaysAlike
<1> USE DEF TreeInv
<1>1. UNCHANGED <<parent, early, clipboard, isMutating, calls>> /\ CP!Tree' = CP!Tree
  BY DEF CP!TreeRead, CP!TreeAnswer, CP!TreeFails, CP!Tree, CP!Alive, CP!page
<1>2. missed' \in BOOLEAN /\ (missed => missed')
  <2>1. missed \in BOOLEAN
    BY DEF CP!TypeOK
  <2>2. missed' = missed \/ missed' = TRUE
    BY DEF CP!TreeRead, CP!TreeAnswer, CP!TreeFails
  <2>3. missed' \in BOOLEAN
    BY <2>1, <2>2, Zenon
  <2> QED
    BY <2>2, <2>3
<1>3. CASE CP!TreeRead
  <2>1. UNCHANGED <<shown, loaded, selectedIds, selectionParentId>> /\ fetch' = CP!Tree
    BY <1>3 DEF CP!TreeRead, CP!page, CP!selection
  <2>2. CP!TypeOK'
    BY <1>1, <1>2, <2>1, TreeType DEF CP!TypeOK
  <2> QED
    BY <1>1, <2>1, <2>2 DEF TreeComing, CP!StaysAlike, CP!Alike
<1>4. CASE CP!TreeAnswer
  <2>1. /\ fetch \in CP!Trees /\ shown' = fetch /\ fetch' = None /\ loaded'
        /\ loaded' \in BOOLEAN /\ CP!Select(selectedIds, selectionParentId, fetch)
    BY <1>4 DEF CP!TreeAnswer, CP!TypeOK
  <2>2. Selection'
    BY <2>1, SelectType DEF CP!TypeOK
  <2>3. CP!StaysAlike
    <3> SUFFICES ASSUME CP!Alike, shown' = shown PROVE CP!Alike'
      BY DEF CP!StaysAlike
    <3>1. \A d \in selectedIds : shown[d] = selectionParentId
      BY DEF CP!Alike
    <3> QED
      BY <2>1, <3>1, SelectAlike DEF CP!TypeOK
  <2>4. CP!TypeOK'
    BY <1>1, <1>2, <2>1, <2>2 DEF CP!TypeOK, Selection
  <2>5. TreeComing'
    BY <1>1, <1>2, <1>4, <2>1 DEF TreeComing, CP!TreeAnswer
  <2> QED
    BY <2>3, <2>4, <2>5
<1>5. CASE CP!TreeFails
  <2>1. UNCHANGED <<shown, loaded, selectedIds, selectionParentId>> /\ fetch' = None /\ missed'
    BY <1>5 DEF CP!TreeFails, CP!page, CP!selection
  <2>2. CP!TypeOK'
    BY <1>1, <1>2, <2>1 DEF CP!TypeOK
  <2> QED
    BY <2>1, <2>2 DEF TreeComing, CP!StaysAlike, CP!Alike
<1> QED
  BY <1>3, <1>4, <1>5

LEMMA InitTreeInv == CP!PanelAssumption /\ CP!Init => TreeInv
<1> SUFFICES ASSUME CP!PanelAssumption, CP!Init PROVE TreeInv
  OBVIOUS
<1>1. {isMutating, missed, loaded, early} \subseteq BOOLEAN
  BY Zenon DEF CP!Init
<1>2. parent \in [Cat -> Cat \cup {"root", "bin", "gone", "new"}]
  BY DEF CP!Init
<1>3. CP!TypeOK
  BY <1>1, <1>2 DEF CP!Init, CP!TypeOK, CP!Trees
<1> QED
  BY <1>3 DEF TreeInv, TreeComing, CP!Init

LEMMA NextTreeInv ==
    ASSUME CP!PanelAssumption, TreeInv, CP!Next \/ UNCHANGED CP!vars
    PROVE  TreeInv' /\ CP!StaysAlike
<1>1. CASE CP!User
  <2>1. /\ UNCHANGED <<parent, CP!query, missed>> /\ isMutating' \in BOOLEAN
        /\ calls \subseteq calls' /\ calls' \subseteq CP!Calls
        /\ clipboard' # None => clipboard' \in Clipboards
        /\ Selection' /\ CP!StaysAlike
    BY <1>1, UserStep DEF TreeInv
  <2>2. CP!TypeOK'
    BY <2>1 DEF TreeInv, CP!TypeOK, CP!query, Selection, Clipboards
  <2>3. CP!Tree' = CP!Tree
    BY <2>1 DEF CP!Tree, CP!Alive
  <2> QED
    BY <2>1, <2>2, <2>3 DEF TreeInv, TreeComing, CP!query
<1>2. CASE UNCHANGED CP!vars
  <2>1. CP!Tree' = CP!Tree
    BY <1>2 DEF CP!vars, CP!Tree, CP!Alive
  <2> QED
    BY <1>2, <2>1 DEF CP!vars, CP!query, CP!page, CP!selection, TreeInv, CP!TypeOK, TreeComing,
                      CP!StaysAlike, CP!Alike
<1> QED
  BY <1>1, <1>2, ServerStep, AnswerStep, FetchStep DEF CP!Next

-----------------------------------------------------------------------------
(* The clipboard of documents                                              *)

(* What is due to a copy has been read, or stands behind the pages read.   *)
DueIsAhead == \A s \in SC!CopySlot : copies[s] # None =>
    \A d \in copies[s].due : \/ d \in copies[s].seen
                             \/ /\ ~copies[s].last
                                /\ \E i \in DOMAIN held : copies[s].from < i /\ held[i] = d

(* What a paste owes a node is bound to it, or is still to be.             *)
OwedIsAhead == \A s \in SC!PasteSlot : pastes[s] # None =>
    /\ pastes[s].bind = {} \/ pastes[s].at \in Node
    /\ \A n \in Node, d \in Doc : <<n, d>> \in pastes[s].owed =>
           /\ d \in pastes[s].docs
           /\ \/ n \in pastes[s].todo
              \/ <<n, d>> \in sourceOf
              \/ n = pastes[s].at /\ d \in pastes[s].bind

DocumentsInv == /\ SC!TypeOK /\ SC!CopiedWhole /\ SC!PasteKept
                /\ DueIsAhead /\ OwedIsAhead

(* A document comes into the list, and the ones behind it move on.         *)
LEMMA ListedStep ==
    ASSUME NEW s \in Seq(Doc), NEW i \in 1..(Len(s) + 1), NEW d \in Doc
    PROVE  /\ SC!InsertAt(s, i, d) \in Seq(Doc)
           /\ Len(SC!InsertAt(s, i, d)) = Len(s) + 1
           /\ \A k \in 1..Len(s) :
                  SC!InsertAt(s, i, d)[IF k < i THEN k ELSE k + 1] = s[k]
<1> DEFINE front == SubSeq(s, 1, i - 1)
           back == SubSeq(s, i, Len(s))
<1>1. /\ front \in Seq(Doc) /\ Len(front) = i - 1
      /\ \A k \in 1..(i - 1) : front[k] = s[k]
  OBVIOUS
<1>2. /\ back \in Seq(Doc) /\ Len(back) = Len(s) - i + 1
      /\ \A k \in i..Len(s) : back[k - i + 1] = s[k]
  OBVIOUS
<1>3. SC!InsertAt(s, i, d) = front \o <<d>> \o back
  BY DEF SC!InsertAt
<1> HIDE DEF front, back
<1>4. /\ front \o <<d>> \in Seq(Doc) /\ Len(front \o <<d>>) = i
      /\ \A k \in 1..(i - 1) : (front \o <<d>>)[k] = s[k]
  BY <1>1
<1> QED
  BY <1>2, <1>3, <1>4

(* A document leaves the list, and the ones behind it move up.             *)
LEMMA UnlistedStep ==
    ASSUME NEW s \in Seq(Doc), NEW i \in 1..Len(s)
    PROVE  /\ SC!RemoveAt(s, i) \in Seq(Doc)
           /\ Len(SC!RemoveAt(s, i)) = Len(s) - 1
           /\ \A k \in 1..Len(s) : /\ k < i => SC!RemoveAt(s, i)[k] = s[k]
                                   /\ k > i => SC!RemoveAt(s, i)[k - 1] = s[k]
<1> DEFINE front == SubSeq(s, 1, i - 1)
           back == SubSeq(s, i + 1, Len(s))
<1>1. /\ front \in Seq(Doc) /\ Len(front) = i - 1
      /\ \A k \in 1..(i - 1) : front[k] = s[k]
  OBVIOUS
<1>2. /\ back \in Seq(Doc) /\ Len(back) = Len(s) - i
      /\ \A k \in (i + 1)..Len(s) : back[k - i] = s[k]
  OBVIOUS
<1>3. SC!RemoveAt(s, i) = front \o back
  BY DEF SC!RemoveAt
<1> HIDE DEF front, back
<1> QED
  BY <1>1, <1>2, <1>3

LEMMA InitDocumentsInv == SC!ClipboardAssumption /\ SC!Init => DocumentsInv
<1> SUFFICES ASSUME SC!ClipboardAssumption, SC!Init PROVE DocumentsInv
  OBVIOUS
<1>1. mutating \in BOOLEAN
  BY Zenon DEF SC!Init
<1>2. SC!TypeOK
  BY <1>1 DEF SC!Init, SC!TypeOK
<1> QED
  BY <1>2 DEF DocumentsInv, SC!Init, SC!CopiedWhole, SC!PasteKept, DueIsAhead, OwedIsAhead

(* Copies, page after page, and what they leave in the clipboard           *)
LEMMA CopyingStep ==
    ASSUME SC!ClipboardAssumption, DocumentsInv, SC!Copying \/ SC!ClearDocClipboard
    PROVE  DocumentsInv'
<1> USE DEF DocumentsInv
<1>1. UNCHANGED <<held, sourceOf, asking, pastes, pasted>> \/ SC!ClearDocClipboard
  BY DEF SC!Copying, SC!HandleCopySubtreeDocIds, SC!ReadPage, SC!CopyFails, SC!CopyAnswer,
         SC!pasting
<1>2. CASE SC!ClearDocClipboard
  BY <1>2 DEF SC!ClearDocClipboard, SC!copying, SC!pasting, SC!TypeOK, SC!CopiedWhole,
              SC!PasteKept, DueIsAhead, OwedIsAhead
<1>3. ASSUME NEW s \in SC!CopySlot, SC!HandleCopySubtreeDocIds(s)
      PROVE  DocumentsInv'
  <2> DEFINE new == [from |-> 0, seen |-> {}, due |-> SC!ToSet(held), last |-> FALSE]
  <2>1. /\ new \in SC!Copies
        /\ \A d \in new.due : \E i \in DOMAIN held : 0 < i /\ held[i] = d
    BY DEF SC!ToSet, SC!TypeOK, SC!Copies
  <2>2. /\ copies' = [copies EXCEPT ![s] = new]
        /\ UNCHANGED <<held, docClipboard, asking, SC!pasting, mutating>>
    BY <1>3 DEF SC!HandleCopySubtreeDocIds
  <2>3. new.from = 0 /\ new.last = FALSE
    OBVIOUS
  <2> HIDE DEF new
  <2>4. SC!TypeOK'
    BY <2>1, <2>2 DEF SC!TypeOK, SC!pasting
  <2>5. DueIsAhead'
    BY <2>1, <2>2, <2>3 DEF DueIsAhead, SC!TypeOK
  <2> QED
    BY <2>2, <2>4, <2>5 DEF SC!pasting, SC!CopiedWhole, SC!PasteKept, OwedIsAhead
<1>4. ASSUME NEW s \in SC!CopySlot, SC!ReadPage(s)
      PROVE  DocumentsInv'
  <2> DEFINE c == copies[s]
             new == SC!AfterPage(c)
  <2>1. c \in SC!Copies /\ ~c.last /\ PageSize \in Nat \ {0} /\ c # None
    BY <1>4 DEF SC!ReadPage, SC!TypeOK, SC!ClipboardAssumption
  <2>2. copies' = [copies EXCEPT ![s] = new] /\ UNCHANGED <<held, docClipboard, asking, SC!pasting, mutating>>
    BY <1>4 DEF SC!ReadPage, SC!TypeOK
  <2>3. SC!Page(c.from) \subseteq Doc /\ SC!LastPage(c.from) \in BOOLEAN
    BY DEF SC!Page, SC!LastPage, SC!TypeOK
  <2>4. /\ new \in SC!Copies /\ new.due = c.due /\ new.seen = c.seen \cup SC!Page(c.from)
        /\ new.from = c.from + PageSize /\ new.last = SC!LastPage(c.from)
    BY <2>1, <2>3 DEF SC!AfterPage, SC!Copies
  <2>5. SC!TypeOK'
    BY <2>2, <2>4 DEF SC!TypeOK, SC!pasting
  <2>6. ASSUME NEW d \in c.due
        PROVE  \/ d \in new.seen
               \/ ~new.last /\ \E i \in DOMAIN held : new.from < i /\ held[i] = d
    <3>1. CASE d \in c.seen
      BY <3>1, <2>4
    <3>2. CASE \E i \in DOMAIN held : c.from < i /\ held[i] = d
      <4>1. PICK i \in DOMAIN held : c.from < i /\ held[i] = d
        BY <3>2
      <4>2. i \in Nat /\ i <= Len(held) /\ Len(held) \in Nat /\ c.from \in Nat
        BY <4>1, <2>1 DEF SC!TypeOK, SC!Copies
      <4>3. CASE i <= c.from + PageSize
        BY <4>1, <4>3, <2>4 DEF SC!Page
      <4>4. CASE c.from + PageSize < i
        <5>1. ~(c.from + PageSize >= Len(held))
          BY <4>2, <4>4, <2>1
        <5>2. c.from + 1 \in DOMAIN held /\ held[c.from + 1] \in SC!Page(c.from)
          BY <4>2, <4>4, <2>1 DEF SC!Page, SC!TypeOK
        <5> QED
          BY <4>1, <4>4, <5>1, <5>2, <2>4 DEF SC!LastPage
      <4> QED
        BY <4>2, <4>3, <4>4, <2>1
    <3> QED
      BY <3>1, <3>2, <2>1 DEF DueIsAhead
  <2> HIDE DEF new
  <2>7. DueIsAhead'
    BY <2>2, <2>4, <2>6 DEF DueIsAhead, SC!TypeOK
  <2> QED
    BY <2>2, <2>5, <2>7 DEF SC!pasting, SC!CopiedWhole, SC!PasteKept, OwedIsAhead
<1>5. ASSUME NEW s \in SC!CopySlot, SC!CopyFails(s) \/ SC!CopyAnswer(s)
      PROVE  DocumentsInv'
  <2>1. copies' = [copies EXCEPT ![s] = None] /\ UNCHANGED <<held, asking, SC!pasting, mutating>>
    BY <1>5 DEF SC!CopyFails, SC!CopyAnswer
  <2>2. \/ UNCHANGED docClipboard
        \/ /\ copies[s] # None /\ copies[s].last
           /\ docClipboard' = [docs |-> copies[s].seen, due |-> copies[s].due]
    BY <1>5 DEF SC!CopyFails, SC!CopyAnswer
  <2>3. copies[s] # None => copies[s] \in SC!Copies
    BY DEF SC!TypeOK
  <2>4. SC!TypeOK'
    BY <2>1, <2>2, <2>3 DEF SC!TypeOK, SC!pasting, SC!Copies
  <2>5. DueIsAhead'
    BY <2>1 DEF DueIsAhead, SC!TypeOK
  <2>6. SC!CopiedWhole'
    BY <2>2 DEF SC!CopiedWhole, DueIsAhead
  <2> QED
    BY <2>1, <2>4, <2>5, <2>6 DEF SC!pasting, SC!PasteKept, OwedIsAhead
<1> QED
  BY <1>2, <1>3, <1>4, <1>5 DEF SC!Copying

(* What the clause about copies does not see                               *)
LEMMA PastesAlone ==
    ASSUME DocumentsInv, UNCHANGED <<held, copies, docClipboard>>
    PROVE  DueIsAhead' /\ SC!CopiedWhole'
BY DEF DocumentsInv, DueIsAhead, SC!CopiedWhole

(* Pastes, from the click to what they tell                                *)
LEMMA PastingStep ==
    ASSUME SC!ClipboardAssumption, DocumentsInv, SC!Pasting
    PROVE  DocumentsInv'
<1> USE DEF DocumentsInv
<1>1. CASE SC!HandlePasteAsSourceDocs \/ SC!CancelPaste
  <2>1. /\ UNCHANGED <<held, copies, docClipboard, sourceOf, pastes, pasted, mutating>>
        /\ asking' # None => asking' \in [targets : SUBSET Node, docs : SUBSET Doc]
    BY <1>1 DEF SC!HandlePasteAsSourceDocs, SC!CancelPaste, SC!copying, SC!pasting, SC!TypeOK
  <2>2. SC!TypeOK'
    BY <2>1 DEF SC!TypeOK
  <2> QED
    BY <2>1, <2>2, PastesAlone DEF SC!PasteKept, OwedIsAhead
<1>2. ASSUME NEW s \in SC!PasteSlot, SC!Confirm(s)
      PROVE  DocumentsInv'
  <2> DEFINE new == [todo |-> asking.targets, docs |-> asking.docs, at |-> None,
                     bind |-> {}, owed |-> asking.targets \X asking.docs]
  <2>1. /\ pastes' = [pastes EXCEPT ![s] = new] /\ asking' = None
        /\ UNCHANGED <<held, copies, docClipboard, sourceOf, pasted>>
    BY <1>2 DEF SC!Confirm, SC!copying
  <2>2. mutating' \in BOOLEAN
    BY <1>2, Zenon DEF SC!Confirm
  <2>3. /\ new \in SC!Pastes
        /\ \A n \in Node, d \in Doc :
               <<n, d>> \in new.owed => n \in new.todo /\ d \in new.docs
        /\ new.bind = {}
    BY <1>2 DEF SC!Confirm, SC!TypeOK, SC!Pastes
  <2> HIDE DEF new
  <2>4. SC!TypeOK'
    BY <2>1, <2>2, <2>3 DEF SC!TypeOK
  <2>5. OwedIsAhead'
    BY <2>1, <2>3 DEF OwedIsAhead, SC!TypeOK
  <2> QED
    BY <2>1, <2>4, <2>5, PastesAlone DEF SC!PasteKept
<1>3. ASSUME NEW s \in SC!PasteSlot, SC!ReadFails(s) \/ SC!Told(s)
      PROVE  DocumentsInv'
  <2>1. /\ pastes' = [pastes EXCEPT ![s] = None]
        /\ UNCHANGED <<held, copies, docClipboard, asking, sourceOf>>
        /\ \/ UNCHANGED pasted
           \/ /\ pasted' = pasted \cup pastes[s].owed /\ SC!Running(s)
              /\ pastes[s].bind = {} /\ pastes[s].todo = {}
    BY <1>3 DEF SC!ReadFails, SC!Told, SC!End, SC!copying
  <2>2. mutating' \in BOOLEAN
    BY <1>3, Zenon DEF SC!ReadFails, SC!Told, SC!End
  <2>3. SC!Running(s) => pastes[s] \in SC!Pastes
    BY DEF SC!Running, SC!TypeOK
  <2>4. SC!TypeOK'
    BY <2>1, <2>2, <2>3 DEF SC!TypeOK, SC!Pastes
  <2>5. SC!PasteKept'
    <3> SUFFICES ASSUME SC!Running(s), pastes[s].bind = {}, pastes[s].todo = {}
                 PROVE  pastes[s].owed \subseteq sourceOf
      BY <2>1 DEF SC!PasteKept
    <3>1. pastes[s].owed \subseteq Node \X Doc
      BY <2>3 DEF SC!Pastes
    <3>2. \A n \in Node, d \in Doc : <<n, d>> \in pastes[s].owed => <<n, d>> \in sourceOf
      BY DEF OwedIsAhead, SC!Running
    <3> QED
      BY <3>1, <3>2
  <2>6. OwedIsAhead'
    BY <2>1 DEF OwedIsAhead, SC!TypeOK
  <2> QED
    BY <2>1, <2>4, <2>5, <2>6, PastesAlone
<1>4. ASSUME NEW s \in SC!PasteSlot, NEW n \in Node, SC!ReadSources(s, n)
      PROVE  DocumentsInv'
  <2>1. /\ UNCHANGED <<held, copies, docClipboard, asking, sourceOf, pasted, mutating>>
        /\ pastes[s] \in SC!Pastes /\ pastes[s].bind = {} /\ pastes[s] # None
    BY <1>4 DEF SC!ReadSources, SC!Running, SC!copying, SC!TypeOK
  <2>2. /\ pastes' \in [SC!PasteSlot -> SC!Pastes \cup {None}]
        /\ \A j \in SC!PasteSlot \ {s} : pastes'[j] = pastes[j]
        /\ pastes'[s].todo = pastes[s].todo \ {n} /\ pastes'[s].at = n
        /\ pastes'[s].docs = pastes[s].docs /\ pastes'[s].owed = pastes[s].owed
        /\ pastes'[s].bind = {d \in pastes[s].docs : <<n, d>> \notin sourceOf}
    BY <1>4, <2>1 DEF SC!ReadSources, SC!TypeOK, SC!Pastes
  <2>3. SC!TypeOK'
    BY <2>1, <2>2 DEF SC!TypeOK
  <2>4. OwedIsAhead'
    BY <2>1, <2>2 DEF OwedIsAhead
  <2> QED
    BY <2>1, <2>3, <2>4, PastesAlone DEF SC!PasteKept
<1>5. ASSUME NEW s \in SC!PasteSlot, NEW d \in Doc, SC!BindNext(s, d) \/ SC!BindFails(s, d)
      PROVE  DocumentsInv'
  <2> DEFINE pair == <<pastes[s].at, d>>
  <2>1. /\ UNCHANGED <<held, copies, docClipboard, asking, pasted, mutating>>
        /\ pastes[s] \in SC!Pastes /\ pastes[s] # None /\ d \in pastes[s].bind
        /\ sourceOf \subseteq sourceOf' /\ sourceOf' \subseteq sourceOf \cup {pair}
        /\ pair \in Node \X Doc
    BY <1>5 DEF SC!BindNext, SC!BindFails, SC!Running, SC!copying, SC!TypeOK, OwedIsAhead
  <2>2. /\ pastes' \in [SC!PasteSlot -> SC!Pastes \cup {None}]
        /\ \A j \in SC!PasteSlot \ {s} : pastes'[j] = pastes[j]
        /\ pastes'[s].todo = pastes[s].todo /\ pastes'[s].at = pastes[s].at
        /\ pastes'[s].docs = pastes[s].docs /\ pastes'[s].bind = pastes[s].bind \ {d}
        /\ \/ pastes'[s].owed = pastes[s].owed /\ pair \in sourceOf'
           \/ pastes'[s].owed = pastes[s].owed \ {pair}
    <3>1. CASE SC!BindNext(s, d)
      BY <3>1, <2>1 DEF SC!BindNext, SC!TypeOK, SC!Pastes
    <3>2. CASE SC!BindFails(s, d)
      BY <3>2, <2>1 DEF SC!BindFails, SC!CountFailed, SC!TypeOK, SC!Pastes
    <3> QED
      BY <1>5, <3>1, <3>2
  <2> HIDE DEF pair
  <2>3. SC!TypeOK'
    BY <2>1, <2>2 DEF SC!TypeOK
  <2>4. OwedIsAhead'
    BY <2>1, <2>2 DEF OwedIsAhead, pair
  <2> QED
    BY <2>1, <2>3, <2>4, PastesAlone DEF SC!PasteKept
<1> QED
  BY <1>1, <1>2, <1>3, <1>4, <1>5 DEF SC!Pasting

(* What everybody else does: a removal pushes at most one document onto    *)
(* the pages that a copy has read, and that one is not due any more.       *)
LEMMA OthersStep ==
    ASSUME SC!ClipboardAssumption, DocumentsInv, SC!Others
    PROVE  DocumentsInv'
<1> USE DEF DocumentsInv
<1>1. ASSUME NEW d \in Doc, NEW i \in 1..(Len(held) + 1), SC!Listed(d, i)
      PROVE  DocumentsInv'
  <2>1. /\ UNCHANGED <<copies, docClipboard, asking, SC!pasting, mutating>>
        /\ held' = SC!InsertAt(held, i, d) /\ held \in Seq(Doc)
    BY <1>1 DEF SC!Listed, SC!TypeOK
  <2>2. /\ held' \in Seq(Doc) /\ Len(held') = Len(held) + 1
        /\ \A k \in 1..Len(held) : held'[IF k < i THEN k ELSE k + 1] = held[k]
    BY <2>1, ListedStep
  <2>3. \A from \in Nat, k \in DOMAIN held : from < k =>
            \E j \in DOMAIN held' : from < j /\ held'[j] = held[k]
    <3> SUFFICES ASSUME NEW from \in Nat, NEW k \in DOMAIN held, from < k
                 PROVE  \E j \in DOMAIN held' : from < j /\ held'[j] = held[k]
      OBVIOUS
    <3>1. k \in 1..Len(held) /\ Len(held) \in Nat /\ DOMAIN held' = 1..Len(held')
      BY <2>1, <2>2
    <3>2. (IF k < i THEN k ELSE k + 1) \in DOMAIN held' /\ from < (IF k < i THEN k ELSE k + 1)
      BY <3>1, <2>2
    <3> QED
      BY <3>1, <3>2, <2>2
  <2>4. \A s \in SC!CopySlot : copies[s] # None => copies[s].from \in Nat
    BY DEF SC!TypeOK, SC!Copies
  <2>5. DueIsAhead'
    BY <2>1, <2>3, <2>4 DEF DueIsAhead
  <2> QED
    BY <2>1, <2>2, <2>5 DEF SC!pasting, SC!TypeOK, SC!CopiedWhole, SC!PasteKept, OwedIsAhead
<1>2. ASSUME NEW i \in DOMAIN held, SC!Unlisted(i)
      PROVE  DocumentsInv'
  <2>1. /\ UNCHANGED <<docClipboard, asking, SC!pasting, mutating>>
        /\ held' = SC!RemoveAt(held, i) /\ held \in Seq(Doc) /\ i \in 1..Len(held)
    BY <1>2 DEF SC!Unlisted, SC!TypeOK
  <2>2. /\ held' \in Seq(Doc) /\ Len(held') = Len(held) - 1
        /\ \A k \in 1..Len(held) : /\ k < i => held'[k] = held[k]
                                   /\ k > i => held'[k - 1] = held[k]
    BY <2>1, UnlistedStep
  <2>3. \A s \in SC!CopySlot :
            /\ copies[s] = None => copies'[s] = None
            /\ copies[s] # None =>
                   /\ copies'[s] \in SC!Copies
                   /\ copies'[s].from = copies[s].from /\ copies'[s].seen = copies[s].seen
                   /\ copies'[s].last = copies[s].last
                   /\ copies'[s].due = copies[s].due \ SC!Passed(copies[s], i)
    BY <1>2 DEF SC!Unlisted, SC!TypeOK, SC!Copies
  <2>4. SC!TypeOK'
    <3>1. copies' \in [SC!CopySlot -> SC!Copies \cup {None}]
      BY <1>2, <2>3 DEF SC!Unlisted
    <3> QED
      BY <2>1, <2>2, <3>1 DEF SC!TypeOK, SC!pasting
  <2>5. ASSUME NEW from \in Nat, NEW k \in DOMAIN held, from < k, k \notin {i, from + 1}
        PROVE  \E j \in DOMAIN held' : from < j /\ held'[j] = held[k]
    <3>1. k \in 1..Len(held) /\ Len(held) \in Nat /\ DOMAIN held' = 1..Len(held')
      BY <2>1, <2>2
    <3>2. CASE k < i
      BY <3>1, <3>2, <2>1, <2>2, <2>5
    <3>3. CASE k > i
      <4>1. k - 1 \in DOMAIN held' /\ from < k - 1 /\ held'[k - 1] = held[k]
        BY <3>1, <3>3, <2>1, <2>2, <2>5
      <4> QED
        BY <4>1
    <3> QED
      BY <3>1, <3>2, <3>3, <2>1, <2>5
  <2>6. ASSUME NEW s \in SC!CopySlot, copies'[s] # None, NEW d \in copies'[s].due,
               d \notin copies'[s].seen
        PROVE  /\ ~copies'[s].last
               /\ \E j \in DOMAIN held' : copies'[s].from < j /\ held'[j] = d
    <3>1. copies[s] # None /\ d \in copies[s].due /\ d \notin copies[s].seen
      BY <2>3, <2>6
    <3>2. ~copies[s].last /\ \E k \in DOMAIN held : copies[s].from < k /\ held[k] = d
      BY <3>1 DEF DueIsAhead
    <3>3. PICK k \in DOMAIN held : copies[s].from < k /\ held[k] = d
      BY <3>2
    <3>4. k \notin {i, copies[s].from + 1}
      BY <3>1, <3>3, <2>3, <2>6 DEF SC!Passed
    <3>5. copies[s].from \in Nat
      BY <3>1 DEF SC!TypeOK, SC!Copies
    <3> QED
      BY <3>1, <3>2, <3>3, <3>4, <3>5, <2>3, <2>5
  <2>7. DueIsAhead'
    BY <2>6 DEF DueIsAhead
  <2> QED
    BY <2>1, <2>4, <2>7 DEF SC!pasting, SC!CopiedWhole, SC!PasteKept, OwedIsAhead
<1>3. ASSUME NEW n \in Node, NEW d \in Doc, SC!Bound(n, d)
      PROVE  DocumentsInv'
  <2>1. /\ UNCHANGED <<held, copies, docClipboard, asking, pastes, pasted, mutating>>
        /\ sourceOf' = sourceOf \cup {<<n, d>>}
    BY <1>3 DEF SC!Bound, SC!copying
  <2>2. SC!TypeOK'
    BY <2>1 DEF SC!TypeOK
  <2> QED
    BY <2>1, <2>2, PastesAlone DEF SC!PasteKept, OwedIsAhead
<1>4. ASSUME NEW n \in Node, NEW d \in Doc, SC!Unbound(n, d)
      PROVE  DocumentsInv'
  <2>1. /\ UNCHANGED <<held, copies, docClipboard, asking, mutating>>
        /\ sourceOf' = sourceOf \ {<<n, d>>} /\ pasted' = pasted \ {<<n, d>>}
    BY <1>4 DEF SC!Unbound, SC!copying
  <2>2. \A s \in SC!PasteSlot :
            /\ pastes[s] = None => pastes'[s] = None
            /\ pastes[s] # None =>
                   /\ pastes'[s] \in SC!Pastes /\ pastes'[s].todo = pastes[s].todo
                   /\ pastes'[s].docs = pastes[s].docs /\ pastes'[s].at = pastes[s].at
                   /\ pastes'[s].bind = pastes[s].bind
                   /\ \/ pastes'[s].owed = pastes[s].owed \ {<<n, d>>}
                      \/ n \in pastes[s].todo /\ pastes'[s].owed = pastes[s].owed
    <3> SUFFICES ASSUME NEW s \in SC!PasteSlot, pastes[s] # None
                 PROVE  /\ pastes'[s] \in SC!Pastes /\ pastes'[s].todo = pastes[s].todo
                        /\ pastes'[s].docs = pastes[s].docs /\ pastes'[s].at = pastes[s].at
                        /\ pastes'[s].bind = pastes[s].bind
                        /\ \/ pastes'[s].owed = pastes[s].owed \ {<<n, d>>}
                           \/ n \in pastes[s].todo /\ pastes'[s].owed = pastes[s].owed
      BY <1>4 DEF SC!Unbound, SC!Running
    <3>1. pastes[s] \in SC!Pastes
      BY DEF SC!TypeOK
    <3>2. pastes'[s] = IF n \notin pastes[s].todo
                       THEN [pastes[s] EXCEPT !.owed = @ \ {<<n, d>>}] ELSE pastes[s]
      BY <1>4 DEF SC!Unbound, SC!Running
    <3> QED
      BY <3>1, <3>2 DEF SC!Pastes
  <2>3. pastes' \in [SC!PasteSlot -> SC!Pastes \cup {None}]
    BY <1>4, <2>2 DEF SC!Unbound
  <2>4. SC!TypeOK'
    BY <2>1, <2>3 DEF SC!TypeOK
  <2>5. OwedIsAhead'
    BY <2>1, <2>2 DEF OwedIsAhead
  <2> QED
    BY <2>1, <2>4, <2>5, PastesAlone DEF SC!PasteKept
<1>5. CASE SC!OtherOperation
  <2>1. UNCHANGED <<held, copies, docClipboard, asking, pastes, pasted, sourceOf>>
    BY <1>5 DEF SC!OtherOperation, SC!copying, SC!pasting
  <2>2. mutating' \in BOOLEAN
    BY <1>5, Zenon DEF SC!OtherOperation
  <2>3. SC!TypeOK'
    BY <2>1, <2>2 DEF SC!TypeOK
  <2> QED
    BY <2>1, <2>3, PastesAlone DEF SC!PasteKept, OwedIsAhead
<1> QED
  BY <1>1, <1>2, <1>3, <1>4, <1>5 DEF SC!Others

LEMMA NextDocumentsInv ==
    ASSUME SC!ClipboardAssumption, DocumentsInv, SC!Next \/ UNCHANGED SC!vars
    PROVE  DocumentsInv'
<1>1. CASE UNCHANGED SC!vars
  BY <1>1 DEF SC!vars, SC!copying, SC!pasting, DocumentsInv, SC!TypeOK, SC!CopiedWhole,
              SC!PasteKept, DueIsAhead, OwedIsAhead
<1> QED
  BY <1>1, CopyingStep, PastingStep, OthersStep DEF SC!Next

-----------------------------------------------------------------------------
(* The session                                                             *)

(* Whoever waits, waits for the user of the present token.                 *)
Awaited == loadingUser => token \in loads

(* The user is right, or the load that will tell is under way.             *)
UserComing == ~late => \/ user = SE!UserOf(token)
                       \/ user = None /\ token \in loads

(* What is stored comes from a login.                                      *)
StoredIsIssued == stored \in issued \cup {None}

SessionInv == SE!TypeOK /\ Awaited /\ UserComing /\ StoredIsIssued
              /\ (~foreign => token = stored)

LEMMA InitSessionInv == SE!SessionAssumption /\ SE!Init => SessionInv
<1> SUFFICES ASSUME SE!SessionAssumption, SE!Init PROVE SessionInv
  OBVIOUS
<1>1. SE!TypeOK
  <2>1. {loadingUser, entering, late, foreign} \subseteq BOOLEAN
    BY Zenon DEF SE!Init
  <2>2. /\ {stored, token} \subseteq SE!Tokens /\ user = None
        /\ route \in {"login", "page"} /\ loads \subseteq issued /\ issued \subseteq Token
        /\ {logouts, requests} \subseteq 0..MaxRequests
    BY DEF SE!SessionAssumption, SE!Init, SE!Tokens
  <2> QED
    BY <2>1, <2>2, Zenon DEF SE!TypeOK
<1>2. Awaited /\ UserComing
  BY DEF SE!Init, Awaited, UserComing, SE!UserOf
<1>3. StoredIsIssued
  BY DEF SE!Init, StoredIsIssued
<1> QED
  BY <1>1, <1>2, <1>3 DEF SE!Init, SessionInv

(* Dropping the token, and whatever goes to the login                      *)
LEMMA ClearStep ==
    ASSUME SE!SessionAssumption, SessionInv, SE!Clear, route' \in {"login", "page"},
           loads' \subseteq loads, UNCHANGED issued, entering' \in BOOLEAN,
           logouts' \in 0..MaxRequests, requests' \in 0..MaxRequests
    PROVE  SessionInv'
<1>1. SE!TypeOK'
  BY DEF SessionInv, SE!TypeOK, SE!Clear, SE!Tokens
<1> QED
  BY <1>1 DEF SessionInv, SE!Clear, Awaited, UserComing, SE!UserOf, StoredIsIssued

LEMMA NextSessionInv ==
    SE!SessionAssumption /\ SessionInv /\ (SE!Next \/ UNCHANGED SE!vars) => SessionInv'
<1> SUFFICES ASSUME SE!SessionAssumption, SessionInv, SE!Next \/ UNCHANGED SE!vars
             PROVE  SessionInv'
  OBVIOUS
<1> USE DEF SE!vars, SE!state, SE!underWay
<1>0. /\ SE!TypeOK /\ loads \subseteq Token /\ MaxRequests \in Nat
      /\ logouts \in 0..MaxRequests /\ requests \in 0..MaxRequests
  BY DEF SE!SessionAssumption, SessionInv, SE!TypeOK
<1>9. entering \in BOOLEAN
  BY <1>0, Zenon DEF SE!TypeOK
<1>1. CASE UNCHANGED SE!vars
  BY <1>1 DEF SessionInv, SE!TypeOK, SE!Tokens, Awaited, UserComing, SE!UserOf, StoredIsIssued
<1>2. CASE SE!Reload
  <2>1. SE!TypeOK'
    <3>1. /\ {stored', token'} \subseteq SE!Tokens /\ user' = None
          /\ issued' \subseteq Token /\ route' \in {"login", "page"}
          /\ {logouts', requests'} \subseteq 0..MaxRequests
      BY <1>0, <1>2 DEF SE!TypeOK, SE!Reload, SE!Tokens
    <3>2. loads' \subseteq issued'
      BY <1>2 DEF SessionInv, StoredIsIssued, SE!Reload
    <3>3. {loadingUser', entering', late', foreign'} \subseteq BOOLEAN
      BY <1>2, Zenon DEF SE!Reload
    <3> QED
      BY <3>1, <3>2, <3>3, Zenon DEF SE!TypeOK
  <2> QED
    BY <1>2, <2>1 DEF SE!Reload, SessionInv, Awaited, UserComing, SE!UserOf, StoredIsIssued
<1>3. ASSUME NEW t \in Token, SE!LoadAnswer(t)
      PROVE  SessionInv'
  <2>1. {loadingUser', entering', late', foreign'} \subseteq BOOLEAN
    BY <1>0, <1>3, Zenon DEF SE!TypeOK, SE!LoadAnswer
  <2>2. /\ user' = Owner[t] /\ ~loadingUser' /\ t # None /\ loads' = loads \ {t}
        /\ UNCHANGED <<token, stored, foreign, issued, route, logouts, requests>>
    BY <1>3 DEF SE!SessionAssumption, SE!LoadAnswer
  <2>3. SE!TypeOK'
    BY <1>0, <2>1, <2>2 DEF SE!TypeOK, SE!Tokens
  <2>4. late' = (t # token)
    BY <1>3, Zenon DEF SE!LoadAnswer
  <2>5. UserComing'
    BY <2>2, <2>4 DEF UserComing, SE!UserOf
  <2> QED
    BY <2>2, <2>3, <2>5 DEF SessionInv, Awaited, StoredIsIssued
<1>4. ASSUME NEW t \in Token, SE!LoadFails(t)
      PROVE  SessionInv'
  <2>1. entering' \in BOOLEAN
    BY <1>9, <1>4, Zenon DEF SE!LoadFails
  <2> QED
    BY <1>0, <1>4, <2>1, ClearStep DEF SE!LoadFails, SE!Redirect, SE!TypeOK
<1>5. ASSUME NEW t \in Token, SE!LoginAnswer(t)
      PROVE  SessionInv'
  <2>1. SE!TypeOK'
    BY <1>0, <1>5 DEF SE!TypeOK, SE!LoginAnswer, SE!Tokens
  <2> QED
    BY <1>5, <2>1 DEF SE!SessionAssumption, SE!LoginAnswer, SessionInv, Awaited, UserComing,
                      SE!UserOf, StoredIsIssued
<1>6. CASE SE!HandleSubmit \/ SE!HandleLogout \/ SE!Request
  <2>1. UNCHANGED <<stored, token, user, loadingUser, late, foreign, issued, route, loads>>
    BY <1>6 DEF SE!HandleSubmit, SE!HandleLogout, SE!Request
  <2>2. logouts' \in 0..MaxRequests /\ requests' \in 0..MaxRequests
    BY <1>0, <1>6 DEF SE!HandleSubmit, SE!HandleLogout, SE!Request
  <2>3. entering' \in BOOLEAN
    BY <1>9, <1>6, Zenon DEF SE!HandleSubmit, SE!HandleLogout, SE!Request
  <2> QED
    BY <1>0, <2>1, <2>2, <2>3 DEF SessionInv, SE!TypeOK, SE!Tokens, Awaited, UserComing, SE!UserOf, StoredIsIssued
<1>7. CASE SE!LoginFails \/ SE!LogoutAnswer \/ SE!RequestAnswer
  <2>1. /\ UNCHANGED <<issued, loads>> /\ route' \in {"login", "page"}
        /\ logouts' \in 0..MaxRequests /\ requests' \in 0..MaxRequests
    BY <1>0, <1>7 DEF SE!LoginFails, SE!LogoutAnswer, SE!RequestAnswer, SE!HandleUnauthorized,
                      SE!Redirect, SE!TypeOK
  <2>2. entering' \in BOOLEAN
    BY <1>9, <1>7, Zenon DEF SE!LoginFails, SE!LogoutAnswer, SE!RequestAnswer
  <2>3. CASE SE!Clear
    BY <2>1, <2>2, <2>3, ClearStep
  <2>4. CASE UNCHANGED <<stored, token, user, loadingUser, late, foreign>>
    BY <1>0, <2>1, <2>2, <2>4 DEF SessionInv, SE!TypeOK, SE!Tokens, Awaited, UserComing, SE!UserOf, StoredIsIssued
  <2> QED
    BY <1>7, <2>3, <2>4 DEF SE!LoginFails, SE!LogoutAnswer, SE!RequestAnswer,
                            SE!HandleUnauthorized
<1>8. ASSUME NEW t \in SE!Tokens, SE!OtherTab(t)
      PROVE  SessionInv'
  <2>1. SE!TypeOK'
    BY <1>0, <1>8 DEF SE!TypeOK, SE!OtherTab, SE!Tokens
  <2> QED
    BY <1>8, <2>1 DEF SE!OtherTab, SessionInv, Awaited, UserComing, SE!UserOf, StoredIsIssued
<1> QED
  BY <1>1, <1>2, <1>3, <1>4, <1>5, <1>6, <1>7, <1>8 DEF SE!Next

-----------------------------------------------------------------------------
(* The page                                                                *)

Inv == /\ page = "tree" => TreeInv
       /\ page = "panels" => PanelsInv
       /\ page = "documents" => DocumentsInv
       /\ page = "session" => SessionInv

LEMMA NextInv == Inv /\ [Next]_vars => Inv' /\ (page = "tree" => CP!StaysAlike)
<1> SUFFICES ASSUME Inv, [Next]_vars PROVE Inv' /\ (page = "tree" => CP!StaysAlike)
  OBVIOUS
<1>1. /\ page' = page
      /\ page = "tree" => CP!Next \/ UNCHANGED CP!vars
      /\ page = "panels" => NP!Next \/ UNCHANGED NP!vars
      /\ page = "documents" => SC!Next \/ UNCHANGED SC!vars
      /\ page = "session" => SE!Next \/ UNCHANGED SE!vars
  BY DEF Next, vars, tree, panels, documents, session, CP!vars, CP!query, CP!page,
         CP!selection, NP!vars, NP!list, NP!selector, NP!workflows, SC!vars, SC!copying,
         SC!pasting, SE!vars, SE!state, SE!underWay
<1> QED
  BY <1>1, Assumptions, NextTreeInv, NextPanelsInv, NextDocumentsInv, NextSessionInv DEF Inv

LEMMA Invariant == Spec => []Inv
<1>1. Init => Inv
  BY Assumptions, InitTreeInv, InitPanelsInv, InitDocumentsInv, InitSessionInv DEF Init, Inv
<1>2. Inv /\ [Next]_vars => Inv'
  BY NextInv
<1> QED
  BY <1>1, <1>2, PTL DEF Spec

(* The state of the page that is shown has its types.                      *)
THEOREM TypeCorrect == Spec => []TypeOK
<1>1. Inv => TypeOK
  BY DEF Inv, TreeInv, PanelsInv, DocumentsInv, SessionInv, TypeOK
<1> QED
  BY <1>1, Invariant, PTL

(* A settled tree is the server's, unless a fetch failed, a refused call   *)
(* had changed something, or the change was made beside the first fetch,   *)
(* which the invalidation does not begin again (useTreeActions.ts:29-31,   *)
(* useTreePaste.ts:107, useTreeDrag.ts:144-146).                           *)
THEOREM TreeCorrect == Spec => []TreeFollows
<1>1. Inv => TreeFollows
  <2> SUFFICES ASSUME TreeInv, calls = {}, fetch = None, ~missed, ~early
               PROVE  shown = CP!Tree
    BY DEF Inv, TreeFollows, CP!TreeFollows
  <2>1. None # Asked /\ None # CP!Tree
    BY Assumptions, TreeType DEF CP!PanelAssumption
  <2> QED
    BY <2>1 DEF TreeInv, TreeComing
<1> QED
  BY <1>1, Invariant, PTL

(* Nodes that are selected together stay under the one parent that is      *)
(* noted, as long as the tree that is shown stays                          *)
(* (CategoryTreePanel.tsx:1098-1105).                                      *)
THEOREM SelectionCorrect == Spec => SelectionStaysAlike
<1>1. Inv /\ [Next]_vars => [page = "tree" => CP!StaysAlike]_vars
  BY NextInv
<1> QED
  BY <1>1, Invariant, PTL DEF Spec, SelectionStaysAlike

(* Once no handler is under way, both panels show what is bound to the     *)
(* node that is shown (WorkflowManager.tsx:94-141,                         *)
(* SourceDocumentManager.tsx:32-44), unless a change was lost, a fetch     *)
(* failed, or handlers of the list overlapped.                             *)
THEOREM PanelsCorrect == Spec => []PanelsCurrent
<1>1. Inv => PanelsCurrent
  <2> SUFFICES ASSUME PanelsInv, NP!Idle, ~unseen
               PROVE  /\ NP!PanelLoaded => panel = bound[node]
                      /\ apart /\ ~fetchError => sources = bound[node]
    BY DEF Inv, PanelsCurrent, NP!PanelsCurrent, NP!WorkflowsSeeSources, NP!SourcesListed
  <2>1. \A i \in NP!Slot : ~Reloads(i)
    BY DEF NP!Idle, Reloads, UnderWay
  <2> QED
    BY <2>1 DEF PanelsInv, WorkflowsComing, NP!PanelLoaded, ListComing, ListIsOwn
<1> QED
  BY <1>1, Invariant, PTL

(* The clipboard holds every document that was below the node when it was  *)
(* copied, but for one that left, or that a removal pushed onto a page     *)
(* read before (CategoryTreePanel.tsx:414-434), for every size of page and *)
(* any number of copies at a time.                                         *)
THEOREM CopiesCorrect == Spec => []CopiedWhole
<1>1. Inv => CopiedWhole
  BY DEF Inv, DocumentsInv, CopiedWhole
<1> QED
  BY <1>1, Invariant, PTL

(* What pastes have told to be bound is bound, but for the failures they   *)
(* counted and what others unbound since (CategoryTreePanel.tsx:521-561),  *)
(* however many pastes and others bind and unbind meanwhile.               *)
THEOREM PastesCorrect == Spec => []PasteKept
<1>1. Inv => PasteKept
  BY DEF Inv, DocumentsInv, PasteKept
<1> QED
  BY <1>1, Invariant, PTL

(* When no user is being loaded, nobody waits for one, and user, token and *)
(* what is stored agree, unless a load for an earlier token was answered   *)
(* last, or another tab changed what is stored (AuthContext.tsx:59-134),   *)
(* for any number of logins, logouts, requests and reloads.                *)
THEOREM SessionCorrect == Spec => []SessionAgrees
<1>1. Inv => SessionAgrees
  BY DEF Inv, SessionInv, Awaited, UserComing, SessionAgrees, SE!SessionAgrees
<1> QED
  BY <1>1, Invariant, PTL
=============================================================================
