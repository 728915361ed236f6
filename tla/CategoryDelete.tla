--------------------------- MODULE CategoryDelete ---------------------------
(***************************************************************************)
(* Deleting a category (DeleteCategory of internal/service/category.go):   *)
(* one without children, or, with the password of an administrator, with   *)
(* everything below it.  As in CategoryBulk the tree is NDR's, any call    *)
(* may fail, and the answer of one that deleted something may be lost.     *)
(* Meanwhile others may create categories; NDR is taken to delete a node   *)
(* whatever has been put below it by then.                                 *)
(*                                                                         *)
(* The recursion is a stack; the frame on top is that of the node being    *)
(* deleted.  Documents are numbers, in the order in which NDR lists them.  *)
(***************************************************************************)
EXTENDS Integers, SequencesExt, FiniteSets

CONSTANTS Existing,      \* nodes there are at first: 1..Existing
          MaxNode,       \* bound: NDR gives out no higher id
          Doc,
          PageSize,      \* 100
          None

DeleteAssumption ==
    /\ Existing \in Nat /\ MaxNode \in Nat /\ Existing <= MaxNode
    /\ Doc \subseteq Nat /\ IsFiniteSet(Doc) /\ PageSize \in Nat \ {0}
    /\ None \notin Nat /\ None \notin {"output", "source"}

Root == 0
Node == 1..MaxNode

VARIABLES parent,        \* NDR: the parent of a node, None for an id not given out
          live,          \* nodes that are not deleted
          bound,         \* what a document is to a node: "output", "source" or None
          gone,          \* documents that are deleted
          target, force, \* the request
          step,          \* the call to come, or the result
          todo,          \* frames: a node, and its children that are still to be deleted
          sourceDocIDs, page, items   \* of the node on top

ndr == <<parent, live, bound, gone>>
loop == <<sourceDocIDs, page, items>>
vars == <<ndr, target, force, step, todo, loop>>

Children(n) == {k \in live : parent[k] = n}

Frame(n) == [node |-> n, children |-> {}]

Current == Head(todo).node

(* The documents on a page, or on all *)
Listed(n) == {d \in Doc \ gone : bound[d][n] # None}
OnPage(docs, p) == {d \in docs : Cardinality({e \in docs : e < d}) \div PageSize = p - 1}

Init == /\ parent \in {p \in [Node -> {None, Root} \cup Node] :
                          \A n \in Node : IF n <= Existing THEN p[n] \in 0..(n - 1) ELSE p[n] = None}
        /\ live = 1..Existing
        /\ bound \in [Doc -> {b \in [Node -> {"output", "source", None}] :
                                \A n \in Node : n > Existing => b[n] = None}]
        /\ gone = {}
        /\ target = None /\ force = FALSE /\ step = "idle" /\ todo = <<>>
        /\ sourceDocIDs = {} /\ page = 1 /\ items = {}

DeleteCategory(n, forced) == /\ step = "idle"
                             /\ target' = n /\ force' = forced
                             /\ step' = IF forced THEN "children" ELSE "check"
                             /\ todo' = <<Frame(n)>>
                             /\ UNCHANGED <<ndr, loop>>

HasChildren == /\ step = "check"
               /\ step' = IF Children(target) = {} THEN "node" ELSE "failed"
               /\ UNCHANGED <<ndr, target, force, todo, loop>>

ListChildren == /\ step = "children"
                /\ todo' = [todo EXCEPT ![1].children = Children(Current)]
                /\ step' = "descend"
                /\ UNCHANGED <<ndr, target, force, loop>>

(* Child by child; NDR lists them in the order of their positions.         *)
Descend == /\ step = "descend"
           /\ IF Head(todo).children = {} THEN step' = "sources" /\ UNCHANGED todo
              ELSE \E k \in Head(todo).children :
                     /\ todo' = <<Frame(k), [Head(todo) EXCEPT !.children = @ \ {k}]>> \o Tail(todo)
                     /\ step' = "children"
           /\ UNCHANGED <<ndr, target, force, loop>>

ListSourceDocuments == /\ step = "sources"
                       /\ sourceDocIDs' = {d \in Doc : bound[d][Current] = "source"}
                       /\ page' = 1 /\ step' = "page"
                       /\ UNCHANGED <<ndr, target, force, todo, items>>

(* Each page is listed when the one before it has been deleted; a page     *)
(* that is not full is the last.                                           *)
ListNodeDocuments ==
    /\ step = "page"
    /\ LET docs == OnPage(Listed(Current), page) IN
         /\ items' = docs \ sourceDocIDs
         /\ page' = IF Cardinality(docs) < PageSize THEN 0 ELSE page + 1
    /\ step' = "documents"
    /\ UNCHANGED <<ndr, target, force, todo, sourceDocIDs>>

DeleteDocument(d) == gone' = gone \cup {d} /\ UNCHANGED <<parent, live, bound>>

DeleteDocuments ==
    /\ step = "documents"
    /\ IF items = {} THEN /\ step' = IF page = 0 THEN "node" ELSE "page"
                          /\ UNCHANGED <<ndr, items>>
                     ELSE \E d \in items : /\ DeleteDocument(d)
                                           /\ items' = items \ {d} /\ UNCHANGED step
    /\ UNCHANGED <<target, force, todo, sourceDocIDs, page>>

DeleteNode == /\ step = "node"
              /\ live' = live \ {Current} /\ UNCHANGED <<parent, bound, gone>>
              /\ todo' = Tail(todo)
              /\ step' = IF Tail(todo) = <<>> THEN "ok" ELSE "descend"
              /\ UNCHANGED <<target, force, loop>>

(* Mutant: the failure of a child is noted, and the rest deleted.          *)
MutCallFails == /\ step \notin {"idle", "ok", "failed"}
                /\ todo' = Tail(todo)
                /\ step' = IF Tail(todo) = <<>> THEN "failed" ELSE "descend"
                /\ UNCHANGED <<ndr, target, force, loop>>

(* A call that fails, carried out or not, ends the request at every level. *)
CallFails == /\ step \notin {"idle", "ok", "failed", "descend"}
             /\ \/ UNCHANGED ndr
                \/ step = "documents" /\ \E d \in items : DeleteDocument(d)
                \/ step = "node" /\ live' = live \ {Current} /\ UNCHANGED <<parent, bound, gone>>
             /\ step' = "failed"
             /\ UNCHANGED <<target, force, todo, loop>>

(* Somebody else, meanwhile *)
CreateCategory(n) ==
    /\ step \notin {"idle", "ok", "failed"}
    /\ \E new \in Node : /\ parent[new] = None /\ \A m \in 1..(new - 1) : parent[m] # None
                         /\ parent' = [parent EXCEPT ![new] = n] /\ live' = live \cup {new}
    /\ UNCHANGED <<bound, gone, target, force, step, todo, loop>>

Next == \/ \E n \in live, forced \in BOOLEAN : DeleteCategory(n, forced)
        \/ HasChildren \/ ListChildren \/ Descend \/ ListSourceDocuments
        \/ ListNodeDocuments \/ DeleteDocuments \/ DeleteNode \/ CallFails
        \/ \E n \in live : CreateCategory(n)

Spec == Init /\ [][Next]_vars
-----------------------------------------------------------------------------
(* Properties                                                              *)

(* The state has its types.                                                *)
TypeOK == /\ parent \in [Node -> {None, Root} \cup Node] /\ live \subseteq Node
          /\ gone \subseteq Doc
          /\ step \in {"idle", "check", "children", "descend", "sources", "page", "documents",
                       "node", "ok", "failed"}
          /\ \A i \in DOMAIN todo : todo[i].node \in Node /\ todo[i].children \subseteq Node
          /\ sourceDocIDs \cup items \subseteq Doc /\ page \in Nat

Dead == {n \in Node : parent[n] # None} \ live

(* A node and what it lies below; ids grow downwards.                      *)
Above[n \in {Root} \cup Node] ==
    {n} \cup (IF n = Root \/ parent[n] = None THEN {} ELSE Above[parent[n]])

Under(m, n) == m \in Above[n]

(* Whatever fails, a deletion takes from below: what is left of the tree   *)
(* hangs together, but for what others put below a node it had checked or  *)
(* listed.                                                                 *)
TreeHangsTogether == \A n \in 1..Existing : n \in live => parent[n] \in live \cup {Root}

(* Before a node is deleted with what is below it, its documents are, as   *)
(* far as they fit on a page.                                              *)
NothingStranded ==
    force => \A n \in Dead : Cardinality({d \in Doc : bound[d][n] # None}) <= PageSize =>
                 {d \in Doc : bound[d][n] = "output"} \subseteq gone

(* Documents are only deleted as outputs of a node that was to be deleted  *)
(* with them: the sources of workflows stay.                               *)
OthersSpared ==
    /\ Dead # {} => \A n \in Dead : Under(target, n)
    /\ \A d \in gone : force /\ \E n \in 1..Existing : Under(target, n) /\ bound[d][n] = "output"

(* What deletion takes, in every order and after every failure, is what it *)
(* should, and its success means the node is gone (deleteCategoryRecursive,*)
(* category.go:346-415).                                                   *)
DeletionSound == /\ TypeOK /\ TreeHangsTogether /\ NothingStranded /\ OthersSpared
                 /\ step = "ok" => target \notin live
=============================================================================
