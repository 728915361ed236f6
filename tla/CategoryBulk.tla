---------------------------- MODULE CategoryBulk ----------------------------
(***************************************************************************)
(* Copying and moving several categories (BulkCopyCategories and           *)
(* BulkMoveCategories of internal/service/category.go).  The tree is kept  *)
(* by NDR; a request is a sequence of calls to it, and when one fails the  *)
(* request tries to undo what it has done.                                 *)
(*                                                                         *)
(* NDR is external.  It appends new and moved nodes to their siblings,     *)
(* gives out increasing ids, and refuses to move a node below itself.  Any *)
(* call may fail, and the answer of a call that changed the tree may be    *)
(* lost.  Nobody else changes the tree meanwhile.  Calls that only read    *)
(* are taken together with the call they prepare.                          *)
(***************************************************************************)
EXTENDS Naturals, SequencesExt, FiniteSetsExt, Functions

CONSTANTS
    Existing,      \* nodes before the request are 1..Existing
    MaxNode,       \* bound: NDR gives out no higher id
    BaseName,      \* names without the suffix of a copy
    MaxCopies,     \* suffixes tried for a copy (50)
    MaxSources,    \* bound: nodes named in a request
    NULL

ASSUME BulkAssumption ==
    /\ Existing \in Nat /\ MaxNode \in Nat /\ Existing <= MaxNode
    /\ MaxCopies \in Nat /\ MaxSources \in Nat
    /\ NULL \notin Nat \cup Seq(BaseName \cup Nat) \cup {"copy", "move", "before", "after"}

Root  == 0                  \* the parent of root nodes
Node  == 1..MaxNode
Place == {Root} \cup Node

VARIABLES
    kids, name,      \* NDR: children in the order of their positions, names
    request, step,
    \* a copy
    todo, rest,      \* nodes to copy and where to; sources not begun
    label, cache,    \* the name chosen; names known by parent
    root, made,      \* the copy of the current source; createdIDs
    \* a move
    origin, moved,   \* moveRecords; how many of them are moved
    ordered, undo,   \* ordered_ids; what is left to roll back
    \* history
    before,          \* kids before the request
    copyOf,          \* what each created node was copied from
    lost, spoiled    \* an answer was lost; a call of the roll-back failed

tree    == <<kids, name>>
copying == <<todo, rest, label, cache, root, made, copyOf>>
moving  == <<origin, moved>>
vars    == <<tree, request, step, copying, moving, ordered, undo, before, lost, spoiled>>

Existed == 1..Existing
Used == {n \in Node : name[n] # NULL}
Parent(n) == CHOOSE p \in Place : Contains(kids[p], n)

(* The numbers of S in increasing order.                                   *)
InOrder(S) ==
    [i \in 1..Cardinality(S) |-> CHOOSE n \in S : Cardinality({k \in S : k <= n}) = i]

(* What is left of a row when the nodes of S are taken out of it.          *)
Without(row, S) ==
    LET left == InOrder({i \in DOMAIN row : row[i] \notin S})
    IN  [j \in DOMAIN left |-> row[left[j]]]

(* b is a or lies below it: a is in all that holds b and, with a node, its *)
(* parent.  Only the nodes there were are ever moved.                      *)
Below(a, b) ==
    \A S \in SUBSET ({Root} \cup Existed) :
        b \in S /\ (\A n \in S \ {Root} : Parent(n) \in S) => a \in S

(* A side is named with an anchor only; source_ids without duplicates.     *)
Requests ==
    LET sources == {s \in BoundedSeq(Existed, MaxSources) : s # <<>> /\ IsInjective(s)}
        places  == {<<NULL, NULL>>} \cup (Existed \X {"before", "after"})
    IN  {[kind |-> k, sources |-> s, target |-> t, anchor |-> a[1], side |-> a[2]] :
            k \in {"copy", "move"}, s \in sources, t \in {Root} \cup Existed, a \in places}

Idle == [kind |-> NULL, sources |-> <<>>, target |-> NULL,
         anchor |-> NULL, side |-> NULL]

(* The k-th name tried for a copy of a node named base.                    *)
Candidate(base, k) == IF k = 0 THEN base ELSE Append(base, k)

(* Names of nodes made by hand or as copies.                               *)
OldName == {Candidate(<<b>>, k) : b \in BaseName, k \in 0..MaxCopies}

NoNames == [p \in Place |-> NULL]

(* All ordered forests, their nodes numbered from the root and from the    *)
(* left; siblings have different names.                                    *)
Init ==
    /\ \E parent \in {p \in [Existed -> {Root} \cup Existed] : \A n \in Existed : p[n] < n} :
           kids = [p \in Place |-> InOrder({n \in Existed : parent[n] = p})]
    /\ \E b \in [Existed -> OldName] :
           /\ \A p \in Place : IsInjective([i \in DOMAIN kids[p] |-> b[kids[p][i]]])
           /\ name = [n \in Node |-> IF n \in Existed THEN b[n] ELSE NULL]
    /\ request = Idle /\ step = "idle"
    /\ todo = <<>> /\ rest = <<>> /\ label = NULL
    /\ cache = NoNames
    /\ root = NULL /\ made = <<>>
    /\ origin = <<>> /\ moved = 0
    /\ ordered = <<>> /\ undo = <<>>
    /\ before = kids
    /\ copyOf = [n \in Node |-> NULL]
    /\ lost = FALSE /\ spoiled = FALSE

Begin(r) ==
    /\ step = "idle"
    /\ request' = r
    /\ IF r.kind = "copy"
         THEN /\ step' = "fetch"
              /\ todo' = <<[src |-> Head(r.sources), under |-> r.target]>>
              /\ rest' = Tail(r.sources)
         ELSE step' = "origins" /\ UNCHANGED <<todo, rest>>
    /\ UNCHANGED <<tree, label, cache, root, made, copyOf, moving, ordered, undo,
                   before, lost, spoiled>>

RollBack(records) ==
    /\ step' = IF records = <<>> THEN "failed" ELSE "undo"
    /\ undo' = records

(* The locals of the copy that is given up                                 *)
GiveUpCopy ==
    /\ todo' = <<>> /\ rest' = <<>> /\ label' = NULL /\ cache' = NoNames /\ root' = NULL
    /\ RollBack(made)
    /\ UNCHANGED made

-----------------------------------------------------------------------------
(* BulkCopyCategories: copyCategoryRecursive for each source in turn.      *)

(* GetNode and ensureUniqueCategoryName.                                   *)
NamesUnder(p) ==
    IF cache[p] # NULL THEN cache[p] ELSE {name[n] : n \in ToSet(kids[p])}

(* Mutant: the chosen name is not added to the cache.                      *)
MutFetchSource ==
    LET f     == Head(todo)
        names == NamesUnder(f.under)
        free  == {k \in 0..MaxCopies : Candidate(name[f.src], k) \notin names}
    IN
    /\ step = "fetch"
    /\ free # {}
    /\ label' = Candidate(name[f.src], Min(free))
    /\ cache' = [cache EXCEPT ![f.under] = names]
    /\ step' = "create"
    /\ UNCHANGED <<tree, request, todo, rest, root, made, copyOf, moving, ordered,
                   undo, before, lost, spoiled>>

FetchSource ==
    LET f     == Head(todo)
        names == NamesUnder(f.under)
        free  == {k \in 0..MaxCopies : Candidate(name[f.src], k) \notin names}
    IN
    /\ step = "fetch"
    /\ free # {}
    /\ label' = Candidate(name[f.src], Min(free))
    /\ cache' = [cache EXCEPT ![f.under] = names \cup {label'}]
    /\ step' = "create"
    /\ UNCHANGED <<tree, request, todo, rest, root, made, copyOf, moving, ordered,
                   undo, before, lost, spoiled>>

NewNode(n, src, under) ==
    /\ n \in Node /\ n = 1 + Cardinality(Used)
    /\ kids' = [kids EXCEPT ![under] = Append(@, n)]
    /\ name' = [name EXCEPT ![n] = label]
    /\ copyOf' = [copyOf EXCEPT ![n] = src]

(* CreateCategory.  The children follow in the order of their positions.   *)
CreateNode(n) ==
    /\ step = "create"
    /\ NewNode(n, Head(todo).src, Head(todo).under)
    /\ root' = IF root = NULL THEN n ELSE root
    /\ todo' = <<[src |-> Head(todo).src, under |-> n]>> \o Tail(todo)
    /\ step' = "list"
    /\ UNCHANGED <<request, rest, label, cache, made, moving, ordered, undo,
                   before, lost, spoiled>>

CreateLost(n) ==
    /\ step = "create"
    /\ NewNode(n, Head(todo).src, Head(todo).under)
    /\ GiveUpCopy
    /\ lost' = TRUE
    /\ UNCHANGED <<request, moving, ordered, before, spoiled>>

ListChildren ==
    LET f        == Head(todo)
        children == kids[f.src]
        frames   == [i \in DOMAIN children |-> [src |-> children[i], under |-> f.under]]
    IN
    /\ step = "list"
    /\ todo' = frames \o Tail(todo)
    /\ step' = IF todo' # <<>> THEN "fetch" ELSE "copied"
    /\ UNCHANGED <<tree, request, rest, label, cache, root, made, copyOf, moving, ordered,
                   undo, before, lost, spoiled>>

(* The copy of a source is complete.                                       *)
Copied ==
    /\ step = "copied"
    /\ made' = Append(made, root)
    /\ root' = NULL
    /\ IF rest # <<>>
         THEN /\ todo' = <<[src |-> Head(rest), under |-> request.target]>>
              /\ rest' = Tail(rest)
              /\ step' = "fetch"
         ELSE /\ step' = IF request.anchor = NULL THEN "ok" ELSE "place"
              /\ UNCHANGED <<todo, rest>>
    /\ UNCHANGED <<tree, request, label, cache, copyOf, moving, ordered, undo,
                   before, lost, spoiled>>

CopyFails ==
    /\ step \in {"fetch", "create", "list"}
    /\ GiveUpCopy
    /\ UNCHANGED <<tree, request, copyOf, moving, ordered, before, lost, spoiled>>

-----------------------------------------------------------------------------
(* BulkMoveCategories.                                                     *)

FetchOrigins ==
    /\ step = "origins"
    /\ \/ /\ origin' = [i \in DOMAIN request.sources |-> Parent(request.sources[i])]
          /\ step' = "move"
       \/ step' = "failed" /\ UNCHANGED origin
    /\ UNCHANGED <<tree, request, copying, moved, ordered, undo, before, lost, spoiled>>

(* MoveCategory (external: NDR's update of the parent).                    *)
MoveCategory(n, p) ==
    /\ ~Below(n, p)
    /\ LET without == [kids EXCEPT ![Parent(n)] = Without(@, {n})] IN
         kids' = [without EXCEPT ![p] = Append(@, n)]
    /\ UNCHANGED name

Record(i) == [id |-> request.sources[i], originalParent |-> origin[i]]
Records(k) == [i \in 1..k |-> Record(i)]

MoveNext ==
    /\ step = "move"
    /\ MoveCategory(request.sources[moved + 1], request.target)
    /\ moved' = moved + 1
    /\ step' = IF moved' = Len(request.sources) THEN "place" ELSE "move"
    /\ UNCHANGED <<request, copying, origin, ordered, undo, before, lost, spoiled>>

(* Mutant: the records to roll back miss the last move.                    *)
MutMoveFails ==
    /\ step = "move"
    /\ RollBack(Records(IF moved = 0 THEN 0 ELSE moved - 1))
    /\ UNCHANGED <<tree, request, copying, moving, ordered, before, lost, spoiled>>

(* The failed move itself is not among the records that are rolled back.   *)
MoveFails ==
    /\ step = "move"
    /\ RollBack(Records(moved))
    /\ UNCHANGED <<tree, request, copying, moving, ordered, before, lost, spoiled>>

MoveLost ==
    /\ step = "move"
    /\ MoveCategory(request.sources[moved + 1], request.target)
    /\ RollBack(Records(moved))
    /\ lost' = TRUE
    /\ UNCHANGED <<request, copying, moving, ordered, before, spoiled>>

-----------------------------------------------------------------------------
(* Both: the new nodes are put next to the anchor.                         *)

Items == IF request.kind = "copy" THEN made ELSE request.sources

Siblings == Without(kids[request.target], ToSet(Items))

(* Mutant: "after" inserts before the anchor.                              *)
MutInserted(siblings, items) ==
    LET i == SelectInSeq(siblings, LAMBDA n : n = request.anchor) - 1 IN
    IF request.anchor = NULL THEN siblings \o items
    ELSE SubSeq(siblings, 1, i) \o items \o SubSeq(siblings, i + 1, Len(siblings))

Inserted(siblings, items) ==
    LET at == SelectInSeq(siblings, LAMBDA n : n = request.anchor)
        i  == IF request.side = "before" THEN at - 1 ELSE at
    IN  IF request.anchor = NULL THEN siblings \o items
        ELSE SubSeq(siblings, 1, i) \o items \o SubSeq(siblings, i + 1, Len(siblings))

AnchorFound ==
    \/ request.anchor = NULL
    \/ Contains(Siblings, request.anchor) /\ ~Contains(request.sources, request.anchor)

FetchSiblings ==
    /\ step = "place"
    /\ \/ /\ AnchorFound
          /\ ordered' = Inserted(Siblings, Items)
          /\ step' = "reorder"
          /\ UNCHANGED undo
       \/ /\ RollBack(IF request.kind = "copy" THEN made ELSE Records(moved))
          /\ UNCHANGED ordered
    /\ UNCHANGED <<tree, request, copying, moving, before, lost, spoiled>>

(* ReorderNodes.  A failure is not rolled back.                            *)
Reorder ==
    /\ step = "reorder"
    /\ \/ kids' = [kids EXCEPT ![request.target] = ordered] /\ step' = "ok"
       \/ kids' \in {kids, [kids EXCEPT ![request.target] = ordered]} /\ step' = "misplaced"
    /\ UNCHANGED <<name, request, copying, moving, ordered, undo, before, lost, spoiled>>

-----------------------------------------------------------------------------
(* Rolling back; errors are ignored.                                       *)

(* DeleteCategory without a password refuses a node that has children.     *)
DeleteCategory(n) ==
    /\ kids[n] = <<>>
    /\ kids' = [kids EXCEPT ![Parent(n)] = Without(@, {n})]

RollbackCreated ==
    /\ step = "undo" /\ request.kind = "copy"
    /\ RollBack(Tail(undo))
    /\ \/ DeleteCategory(Head(undo)) /\ UNCHANGED spoiled
       \/ kids[Head(undo)] # <<>> /\ UNCHANGED <<kids, spoiled>>
       \/ spoiled' = TRUE /\ UNCHANGED kids
    /\ UNCHANGED <<name, request, copying, moving, ordered, before, lost>>

RollbackMoved ==
    /\ step = "undo" /\ request.kind = "move"
    /\ RollBack(Tail(undo))
    /\ LET r == Head(undo) IN
       \/ MoveCategory(r.id, r.originalParent) /\ UNCHANGED spoiled
       \/ spoiled' = (spoiled \/ ~Below(r.id, r.originalParent)) /\ UNCHANGED tree
    /\ UNCHANGED <<request, copying, moving, ordered, before, lost>>

Next ==
    \/ \E r \in Requests : Begin(r)
    \/ FetchSource \/ ListChildren \/ Copied \/ CopyFails
    \/ \E n \in Node : CreateNode(n) \/ CreateLost(n)
    \/ FetchOrigins \/ MoveNext \/ MoveFails \/ MoveLost
    \/ FetchSiblings \/ Reorder
    \/ RollbackCreated \/ RollbackMoved

Spec == Init /\ [][Next]_vars

-----------------------------------------------------------------------------
Created == {n \in Node : copyOf[n] # NULL}
InTree  == UNION {ToSet(kids[p]) : p \in Place}

TypeOK ==
    /\ DOMAIN kids = Place /\ \A p \in Place : kids[p] \in Seq(Node)
    /\ \A p \in Place : /\ IsInjective(kids[p])
                        /\ \A q \in 0..(p - 1) : ToSet(kids[p]) \cap ToSet(kids[q]) = {}
    /\ request \in Requests \cup {Idle}
    /\ step \in {"idle", "fetch", "create", "list", "copied", "origins", "move", "place",
                "reorder", "undo", "ok", "failed", "misplaced"}
    /\ copyOf \in [Node -> Node \cup {NULL}] /\ root \in Node \cup {NULL}
    /\ made \in Seq(Node) /\ moved \in 0..MaxSources
    /\ lost \in BOOLEAN /\ spoiled \in BOOLEAN

(* A copy that succeeds made a copy of each source, in the order asked, of *)
(* its whole subtree as it was before: same children in the same order,    *)
(* and below the roots with the same names (BulkCopyCategories,            *)
(* copyCategoryRecursive).                                                 *)
CopyFaithful ==
    step = "ok" /\ request.kind = "copy" =>
        /\ [i \in DOMAIN made |-> copyOf[made[i]]] = request.sources
        /\ \A n \in Created :
               /\ [i \in DOMAIN kids[n] |-> copyOf[kids[n][i]]] = before[copyOf[n]]
               /\ ~Contains(made, n) => name[n] = name[copyOf[n]]

(* Whatever fails, a copy never leaves two categories of one name below    *)
(* one parent (ensureUniqueCategoryName and its cache).                    *)
NamesStayUnique ==
    request.kind = "copy" =>
        \A p \in Place : IsInjective([i \in DOMAIN kids[p] |-> name[kids[p][i]]])

(* What a copy makes is complete, and can be told apart.                   *)
CopySound == CopyFaithful /\ NamesStayUnique

(* When a copy fails and the calls of the roll-back do not, the copies of  *)
(* the leaves already made are gone, and the nodes that were there are     *)
(* where they were (rollbackCreatedCategories).                            *)
LeavesUndone ==
    step = "failed" /\ request.kind = "copy" /\ ~spoiled =>
        /\ \A n \in ToSet(made) \cap InTree : before[copyOf[n]] # <<>>
        /\ \A p \in Place : Without(kids[p], Node \ Existed) = before[p]

(* When a move fails, no answer was lost and the calls of the roll-back    *)
(* do not fail, every node is below its former parent, if not at its       *)
(* former position (rollbackMovedCategories).                              *)
MoveUndone ==
    step = "failed" /\ request.kind = "move" /\ ~lost /\ ~spoiled =>
        \A p \in Place : ToSet(kids[p]) = ToSet(before[p])

(* A roll-back whose calls do not fail undoes what it has a record of.     *)
RollbackUndoes == LeavesUndone /\ MoveUndone

(* A request that succeeds put its nodes next to each other in the order   *)
(* asked, on the asked side of the anchor or, without one, at the end;     *)
(* the other children of the target keep their order.                      *)
PlacedAsAsked ==
    step = "ok" =>
        LET row == kids[request.target]
            at  == SelectInSeq(row, LAMBDA n : n = Head(Items)) IN
        /\ Siblings = Without(before[request.target], ToSet(Items))
        /\ SubSeq(row, at, at + Len(Items) - 1) = Items
        /\ request.side = NULL => at + Len(Items) - 1 = Len(row)
        /\ request.side # NULL =>
               \E i \in DOMAIN row : /\ row[i] = request.anchor
                                    /\ i = IF request.side = "before" THEN at + Len(Items) ELSE at - 1
=============================================================================
