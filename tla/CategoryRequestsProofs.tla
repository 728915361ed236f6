----------------------- MODULE CategoryRequestsProofs -----------------------
(***************************************************************************)
(* Proofs about the long requests to the tree of categories, for any tree, *)
(* any documents and any request.                                          *)
(*                                                                         *)
(* Deletions come first.  Their invariant follows the recursion: the stack *)
(* is a path up to the target (Path), a node that was there from the start *)
(* and is not on its parent's list any more is deleted or being deleted    *)
(* (Covered), and when the pages of a node are through its outputs are     *)
(* deleted (Loop).                                                         *)
(*                                                                         *)
(* Copies and moves come after them.  BulkInv says what each copy still    *)
(* lacks and that the frames to come supply it (PendingInv), which names   *)
(* the cache knows (NamesInv), and which nodes are out of their places     *)
(* while they are moved and moved back (Stand).                            *)
(***************************************************************************)
EXTENDS CategoryRequests, FiniteSetTheorems, SequenceTheorems, TLAPS

LEMMA Assumptions == CD!DeleteAssumption
BY DeletionAssumption

LEMMA DocFinite == IsFiniteSet(Doc)
BY Assumptions DEF CD!DeleteAssumption, CD!IsFiniteSet, IsFiniteSet

LEMMA CardinalityIs == \A S : CD!Cardinality(S) = Cardinality(S)
BY DEF CD!Cardinality, Cardinality

Forced == {"children", "descend", "sources", "page", "documents"}

(* The frame on top has been given its children.                           *)
Filled == call \in {"descend", "sources", "page", "documents", "node"}

Waiting == call \in {"check", "node"} \cup Forced

Frames == [node : CD!Node, children : SUBSET CD!Node]

(* What lies below a node, without recursion                               *)
Reach(m) == {n \in {CD!Root} \cup CD!Node :
                \A S : m \in S /\ (\A k \in CD!Node : parent[k] # NULL /\ parent[k] \in S => k \in S)
                          => n \in S}

Known == {n \in CD!Node : parent[n] # NULL}

Outputs(n) == {d \in Doc : bound[d][n] = "output"}

Small(n) == CD!Cardinality({d \in Doc : bound[d][n] # NULL}) <= PageSize

(* What TypeOK leaves open, and what the request does not change: there    *)
(* are no documents yet below nodes that are new.                          *)
Kept ==
    /\ bound \in [Doc -> [CD!Node -> {"output", "source", NULL}]]
    /\ \A d \in Doc, n \in CD!Node : n > Existing => bound[d][n] = NULL
    /\ 1..Existing \subseteq Known /\ live \subseteq Known
    /\ force \in BOOLEAN /\ frames \in Seq(Frames)
    /\ IF call = "idle" THEN CD!Dead = {} /\ gone = {} ELSE target \in CD!Node

(* The stack is a path up to the target, and everything on it or listed in *)
(* it lies below the target.                                               *)
Path ==
    /\ Waiting => /\ frames # <<>> /\ target \in CD!Node /\ frames[Len(frames)].node = target
                  /\ call \in Forced => force
                  /\ call = "check" => ~force /\ frames = <<CD!Frame(target)>>
                  /\ ~force => Len(frames) = 1
    /\ \A i \in DOMAIN frames : /\ frames[i].node \in Reach(target)
                                /\ \A c \in frames[i].children : parent[c] = frames[i].node

(* Children that were there from the start are deleted, or on the stack.   *)
Covered ==
    /\ Waiting => \A i \in DOMAIN frames : i > 1 \/ Filled =>
          \A c \in 1..Existing : c \in live /\ parent[c] = frames[i].node =>
              c \in frames[i].children \/ (i > 1 /\ c = frames[i - 1].node)
    /\ call \in {"sources", "page", "documents", "node"} => frames[1].children = {}

(* The documents of the node on top.                                       *)
Loop ==
    /\ call \in {"page", "documents"} => sourceDocIDs = {d \in Doc : bound[d][CD!Current] = "source"}
    /\ call = "page" => page >= 1 /\ (page > 1 /\ Small(CD!Current) => Outputs(CD!Current) \subseteq gone)
    /\ call = "documents" => /\ page # 1 /\ items \subseteq Outputs(CD!Current)
                             /\ Small(CD!Current) => Outputs(CD!Current) \subseteq gone \cup items
    /\ call = "node" /\ force /\ Small(CD!Current) => Outputs(CD!Current) \subseteq gone

(* The documents that are deleted were outputs below the target.           *)
Earned == \A d \in gone : force /\ \E n \in 1..Existing : n \in Reach(target) /\ bound[d][n] = "output"

(* What has been deleted.                                                  *)
Taken ==
    /\ CD!Dead \subseteq Reach(target) /\ Earned
    /\ CD!TreeHangsTogether /\ CD!NothingStranded
    /\ call = "ok" => target \notin live

IInv == CD!TypeOK /\ Kept /\ Path /\ Covered /\ Loop /\ Taken

-----------------------------------------------------------------------------
(* Lying below                                                             *)

LEMMA ReachSelf == ASSUME NEW m \in {CD!Root} \cup CD!Node PROVE m \in Reach(m)
BY DEF Reach

LEMMA ReachStep ==
    ASSUME NEW m, NEW n \in CD!Node, parent[n] # NULL, parent[n] \in Reach(m) PROVE n \in Reach(m)
BY DEF Reach

(* Nodes that are added leave the others below what they were below.       *)
LEMMA ReachStays ==
    ASSUME target' = target, \A n \in Known : parent'[n] = parent[n]
    PROVE  Reach(target) \subseteq Reach(target)'
<1> SUFFICES ASSUME NEW n \in Reach(target), NEW S, target \in S,
                    \A k \in CD!Node : parent'[k] # NULL /\ parent'[k] \in S => k \in S
             PROVE  n \in S
  BY DEF Reach
<1>1. \A k \in CD!Node : parent[k] # NULL /\ parent[k] \in S => k \in S
  BY DEF Known
<1> QED
  BY <1>1 DEF Reach

(* What is reached is what the recursive definition finds.                 *)
LEMMA ReachUnder == ASSUME CD!TypeOK, NEW m \in CD!Node, NEW n \in Reach(m) PROVE CD!Under(m, n)
<1> DEFINE Tree == {CD!Root} \cup CD!Node
           Step(f) == [b \in Tree |-> {b} \cup (IF b = CD!Root \/ parent[b] = NULL THEN {} ELSE f[parent[b]])]
           g == [b \in Tree |-> {a \in Tree : b \in Reach(a)}]
<1>0. CD!Root \notin CD!Node
  BY Assumptions DEF CD!DeleteAssumption, CD!Node, CD!Root
<1>1. ASSUME NEW a \in Tree, NEW b \in Tree
      PROVE  b \in Reach(a) <=> b = a \/ (b # CD!Root /\ parent[b] # NULL /\ parent[b] \in Reach(a))
  <2>1. b = a => b \in Reach(a)
    BY ReachSelf
  <2>2. b # CD!Root /\ parent[b] # NULL /\ parent[b] \in Reach(a) => b \in Reach(a)
    BY ReachStep
  <2>3. ASSUME b \in Reach(a)
        PROVE  b = a \/ (b # CD!Root /\ parent[b] # NULL /\ parent[b] \in Reach(a))
    <3> DEFINE S == {c \in Tree : c = a \/ (c # CD!Root /\ parent[c] # NULL /\ parent[c] \in Reach(a))}
    <3>1. a \in S
      OBVIOUS
    <3>2. ASSUME NEW k \in CD!Node, parent[k] # NULL, parent[k] \in S PROVE k \in S
      <4>1. parent[k] \in Reach(a)
        <5>1. CASE parent[k] = a
          BY <5>1, ReachSelf
        <5>2. CASE parent[k] # a
          BY <3>2, <5>2, ReachStep, <1>0
        <5> QED
          BY <5>1, <5>2
      <4> QED
        BY <1>0, <3>2, <4>1
    <3>3. b \in S
      <4> HIDE DEF S
      <4> QED
        BY <2>3, <3>1, <3>2 DEF Reach
    <3> QED
      BY <3>3
  <2> QED
    BY <2>1, <2>2, <2>3
<1>2. \A b \in Tree : b # CD!Root /\ parent[b] # NULL => parent[b] \in Tree
  BY DEF CD!TypeOK
<1>3. g = Step(g)
  <2>1. ASSUME NEW b \in Tree PROVE g[b] = Step(g)[b]
    <3>1. CASE b = CD!Root \/ parent[b] = NULL
      BY <1>1, <3>1
    <3>2. CASE b # CD!Root /\ parent[b] # NULL
      <4>1. g[parent[b]] = {a \in Tree : parent[b] \in Reach(a)}
        BY <1>2, <3>2
      <4>2. \A a \in Tree : b \in Reach(a) <=> b = a \/ parent[b] \in Reach(a)
        BY <1>1, <3>2
      <4>3. g[b] = {a \in Tree : b \in Reach(a)}
        OBVIOUS
      <4>4. g[b] = {b} \cup g[parent[b]]
        <5> HIDE DEF g
        <5> QED
          BY <4>1, <4>2, <4>3
      <4> QED
        BY <3>2, <4>4
    <3> QED
      BY <3>1, <3>2
  <2> QED
    BY <2>1
<1>4. CD!Above = CHOOSE f : f = Step(f)
  BY DEF CD!Above
<1> HIDE DEF g
<1>5. CD!Above = Step(CD!Above)
  BY <1>3, <1>4
<1>6. \A b \in Tree : CD!Above[b] = {b} \cup (IF b = CD!Root \/ parent[b] = NULL THEN {} ELSE CD!Above[parent[b]])
  BY <1>5
<1> DEFINE S == {b \in Tree : m \in CD!Above[b]}
<1>7. m \in S
  BY <1>6
<1>8. ASSUME NEW k \in CD!Node, parent[k] # NULL, parent[k] \in S PROVE k \in S
  BY <1>0, <1>6, <1>8
<1>9. n \in S
  BY <1>7, <1>8 DEF Reach
<1> QED
  BY <1>9 DEF CD!Under

-----------------------------------------------------------------------------
(* The steps                                                               *)

LEMMA NoneNew == NULL \notin CD!Node /\ NULL # CD!Root /\ CD!Root \notin CD!Node
BY Assumptions DEF CD!DeleteAssumption, CD!Node, CD!Root

LEMMA InitIInv == ASSUME CD!Init PROVE IInv
<1> USE Assumptions, NoneNew DEF CD!DeleteAssumption
<1>1. /\ parent \in [CD!Node -> {NULL, CD!Root} \cup CD!Node] /\ live = 1..Existing
      /\ \A n \in CD!Node : IF n <= Existing THEN parent[n] \in 0..(n - 1) ELSE parent[n] = NULL
  BY DEF CD!Init
<1>2. 1..Existing \subseteq CD!Node
  BY DEF CD!Node
<1>3. Known = 1..Existing
  <2>1. \A n \in 1..Existing : parent[n] # NULL
    BY <1>1, <1>2
  <2>2. \A n \in CD!Node : parent[n] # NULL => n \in 1..Existing
    BY <1>1 DEF CD!Node
  <2> QED
    BY <1>2, <2>1, <2>2 DEF Known
<1>4. CD!Dead = {}
  BY <1>1, <1>3 DEF CD!Dead, Known
<1>5. CD!TypeOK
  BY <1>1, <1>2 DEF CD!Init, CD!TypeOK
<1>6. Kept
  <2>1. bound \in [Doc -> [CD!Node -> {"output", "source", NULL}]]
    BY DEF CD!Init
  <2>2. \A d \in Doc, n \in CD!Node : n > Existing => bound[d][n] = NULL
    BY DEF CD!Init
  <2>3. force \in BOOLEAN /\ frames = <<>> /\ gone = {} /\ call = "idle"
    BY DEF CD!Init
  <2>4. frames \in Seq(Frames)
    BY <2>3
  <2> QED
    BY <1>1, <1>3, <1>4, <2>1, <2>2, <2>3, <2>4 DEF Kept
<1>7. Path /\ Covered /\ Loop
  BY DEF CD!Init, Path, Covered, Loop, Waiting, Forced, Filled
<1>8. Taken
  <2>1. CD!TreeHangsTogether
    <3> SUFFICES ASSUME NEW n \in 1..Existing PROVE parent[n] \in live \cup {CD!Root}
      BY DEF CD!TreeHangsTogether
    <3>1. parent[n] \in 0..(n - 1)
      BY <1>1, <1>2
    <3> QED
      BY <1>1, <3>1 DEF CD!Root
  <2>2. gone = {} /\ call = "idle"
    BY DEF CD!Init
  <2> QED
    BY <1>4, <2>1, <2>2 DEF Taken, Earned, CD!NothingStranded
<1> QED
  BY <1>5, <1>6, <1>7, <1>8 DEF IInv

(* The stack of a request that is under way                                *)
LEMMA Top ==
    ASSUME IInv, Waiting
    PROVE  /\ frames \in Seq(Frames) /\ frames # <<>> /\ Len(frames) \in Nat \ {0}
           /\ 1 \in DOMAIN frames /\ frames[1] \in Frames /\ Head(frames) = frames[1]
           /\ CD!Current = frames[1].node /\ CD!Current \in CD!Node /\ CD!Current \in Reach(target)
           /\ target \in CD!Node
<1>1. frames \in Seq(Frames) /\ frames # <<>> /\ target \in CD!Node
  BY DEF IInv, Kept, Path
<1>2. Len(frames) \in Nat \ {0} /\ 1 \in DOMAIN frames /\ frames[1] \in Frames /\ Head(frames) = frames[1]
  BY <1>1
<1> QED
  BY <1>1, <1>2 DEF CD!Current, Frames, IInv, Path

(* Steps that leave NDR alone.                                             *)
LEMMA Still ==
    ASSUME IInv, call # "idle", UNCHANGED <<CD!ndr, target, force>>, frames' \in Seq(Frames),
           call' \notin {"idle", "ok"}
    PROVE  Kept' /\ Taken' /\ Reach(target)' = Reach(target)
<1>1. UNCHANGED <<parent, live, bound, gone>>
  BY DEF CD!ndr
<1>2. Reach(target)' = Reach(target) /\ Known' = Known /\ CD!Dead' = CD!Dead
  BY <1>1 DEF Reach, Known, CD!Dead
<1>3. Kept'
  BY <1>1, <1>2 DEF IInv, Kept
<1>4. Earned' /\ CD!TreeHangsTogether' /\ CD!NothingStranded'
  BY <1>1, <1>2 DEF IInv, Taken, Earned, CD!TreeHangsTogether, CD!NothingStranded
<1> QED
  BY <1>2, <1>3, <1>4 DEF IInv, Taken

(* A node that is deleted as the last of its frame leaves no child that    *)
(* was there from the start, and none of its documents.                    *)
LEMMA NodeGone ==
    ASSUME IInv, call = "node", live' = live \ {CD!Current}, UNCHANGED <<parent, bound, gone, target, force>>
    PROVE  /\ live' \subseteq Known'
           /\ Known' = Known
           /\ CD!Dead' \subseteq Reach(target)'
           /\ CD!TreeHangsTogether' /\ CD!NothingStranded'
<1> USE NoneNew
<1>1. frames \in Seq(Frames) /\ frames # <<>> /\ 1 \in DOMAIN frames /\ CD!Current = frames[1].node
  BY DEF IInv, Kept, Path, Waiting, CD!Current
<1>2. Known' = Known
  BY DEF Known
<1>3. Reach(target)' = Reach(target)
  BY DEF Reach
<1>4. CD!Dead' \subseteq CD!Dead \cup {CD!Current}
  BY DEF CD!Dead
<1>5. CD!Current \in Reach(target)
  BY <1>1 DEF IInv, Path
<1>6. CD!TreeHangsTogether'
  <2> SUFFICES ASSUME NEW n \in 1..Existing, n \in live' PROVE parent[n] \in live' \cup {CD!Root}
    BY DEF CD!TreeHangsTogether
  <2>1. parent[n] \in live \cup {CD!Root}
    BY DEF IInv, Taken, CD!TreeHangsTogether
  <2>2. parent[n] # CD!Current
    BY <1>1 DEF IInv, Covered, Waiting, Filled
  <2> QED
    BY <2>1, <2>2
<1>7. CD!NothingStranded'
  <2> SUFFICES ASSUME force, NEW n \in CD!Dead', Small(n) PROVE Outputs(n) \subseteq gone
    BY DEF CD!NothingStranded, Small, Outputs
  <2>1. CASE n = CD!Current
    BY <2>1 DEF IInv, Loop
  <2>2. CASE n \in CD!Dead
    BY <2>2 DEF IInv, Taken, CD!NothingStranded, Small, Outputs
  <2> QED
    BY <1>4, <2>1, <2>2
<1> QED
  BY <1>2, <1>3, <1>4, <1>5, <1>6, <1>7 DEF IInv, Kept, Taken

(* A document that is deleted is an output of the node on top.             *)
LEMMA DocumentGone ==
    ASSUME IInv, call = "documents", NEW d \in items, gone' = gone \cup {d},
           UNCHANGED <<parent, live, bound, target, force>>
    PROVE  gone' \subseteq Doc /\ Earned' /\ CD!NothingStranded'
<1>1. frames \in Seq(Frames) /\ frames # <<>> /\ 1 \in DOMAIN frames /\ CD!Current = frames[1].node
  BY DEF IInv, Kept, Path, Waiting, Forced, CD!Current
<1>2. d \in Doc /\ bound[d][CD!Current] = "output"
  BY DEF IInv, Loop, Outputs
<1>3. CD!Current \in CD!Node /\ CD!Current \in Reach(target) /\ force
  BY <1>1 DEF IInv, Path, CD!TypeOK, Forced, Waiting
<1>4. CD!Current \in 1..Existing
  <2>1. ~(CD!Current > Existing)
    <3>1. bound[d][CD!Current] # NULL
      BY <1>2, Assumptions DEF CD!DeleteAssumption
    <3> QED
      BY <1>2, <1>3, <3>1 DEF IInv, Kept
  <2> QED
    BY <1>3, <2>1, Assumptions DEF CD!Node, CD!DeleteAssumption
<1>5. Reach(target)' = Reach(target)
  BY DEF Reach
<1>6. Earned'
  BY <1>2, <1>3, <1>4, <1>5 DEF IInv, Taken, Earned
<1>7. CD!NothingStranded'
  BY DEF IInv, Taken, CD!NothingStranded, CD!Dead
<1> QED
  BY <1>2, <1>6, <1>7 DEF IInv, CD!TypeOK

LEMMA DeleteCategoryStep ==
    ASSUME IInv, NEW n \in live, NEW forced \in BOOLEAN, CD!DeleteCategory(n, forced) PROVE IInv'
<1> USE NoneNew
<1>1. /\ call = "idle" /\ target' = n /\ force' = forced
      /\ call' = (IF forced THEN "children" ELSE "check")
      /\ frames' = <<CD!Frame(n)>> /\ UNCHANGED <<CD!ndr, CD!loop>>
  BY DEF CD!DeleteCategory
<1>2. UNCHANGED <<parent, live, bound, gone, sourceDocIDs, page, items>>
  BY <1>1 DEF CD!ndr, CD!loop
<1>3. n \in CD!Node /\ CD!Dead = {} /\ gone = {}
  BY <1>1 DEF IInv, Kept, CD!TypeOK
<1>4. CD!Dead' = {} /\ gone' = {} /\ Known' = Known
  BY <1>2, <1>3 DEF CD!Dead, Known
<1>5. /\ frames' \in Seq(Frames) /\ Len(frames') = 1 /\ frames'[1].node = n /\ frames'[1].children = {}
      /\ DOMAIN frames' = {1} /\ frames'[Len(frames')].node = n /\ frames' # <<>>
  BY <1>1, <1>3 DEF CD!Frame, Frames
<1>6. CD!Frame(target)' = CD!Frame(n)
  BY <1>1 DEF CD!Frame
<1>7. CD!TypeOK'
  BY <1>1, <1>2, <1>3, <1>5 DEF IInv, CD!TypeOK
<1>8. Kept'
  BY <1>1, <1>2, <1>3, <1>4, <1>5 DEF IInv, Kept
<1>9. Path'
  <2>1. n \in Reach(target)'
    BY <1>1, <1>3 DEF Reach
  <2>2. \A i \in DOMAIN frames' : /\ frames'[i].node \in Reach(target)'
                               /\ \A c \in frames'[i].children : parent'[c] = frames'[i].node
    BY <1>5, <2>1
  <2>3. call' \in {"check", "children"}
    BY <1>1
  <2>4. /\ frames' # <<>> /\ target' \in CD!Node /\ frames'[Len(frames')].node = target'
        /\ Len(frames') = 1 /\ frames' = <<CD!Frame(target)'>>
    BY <1>1, <1>3, <1>5, <1>6
  <2>5. (call' = "children" => force') /\ (call' = "check" => ~force')
    BY <1>1
  <2> QED
    BY <2>2, <2>3, <2>4, <2>5 DEF Path, Forced
<1>10. Covered'
  BY <1>1, <1>5 DEF Covered, Filled
<1>11. Loop'
  BY <1>1 DEF Loop
<1>12. Taken'
  <2>1. CD!TreeHangsTogether'
    BY <1>2 DEF IInv, Taken, CD!TreeHangsTogether
  <2> QED
    BY <1>1, <1>4, <2>1 DEF Taken, Earned, CD!NothingStranded
<1> QED
  BY <1>7, <1>8, <1>9, <1>10, <1>11, <1>12 DEF IInv

LEMMA HasChildrenStep == ASSUME IInv, CD!HasChildren PROVE IInv'
<1> USE NoneNew
<1>1. /\ call = "check" /\ call' = (IF CD!Children(target) = {} THEN "node" ELSE "failed")
      /\ UNCHANGED <<CD!ndr, target, force, frames, CD!loop>>
  BY DEF CD!HasChildren
<1>2. UNCHANGED <<parent, live, bound, gone, sourceDocIDs, page, items>>
  BY <1>1 DEF CD!ndr, CD!loop
<1>3. Waiting /\ ~force /\ frames = <<CD!Frame(target)>>
  BY <1>1 DEF IInv, Path, Waiting
<1>4. Kept' /\ Taken' /\ Reach(target)' = Reach(target)
  BY <1>1, <1>3, Top, Still
<1>5. CD!TypeOK'
  BY <1>1, <1>2 DEF IInv, CD!TypeOK
<1>6. Path'
  BY <1>1, <1>2, <1>3, <1>4 DEF IInv, Path, Waiting, Forced
<1>7. Covered'
  <2> SUFFICES ASSUME call' = "node" PROVE Covered'
    BY <1>1 DEF Covered, Waiting, Forced
  <2>1. CD!Children(target) = {}
    BY <1>1
  <2>2. DOMAIN frames' = {1} /\ frames'[1].node = target /\ frames'[1].children = {}
    BY <1>1, <1>3 DEF CD!Frame
  <2>3. \A c \in 1..Existing : ~(c \in live' /\ parent'[c] = target)
    BY <1>2, <2>1 DEF CD!Children
  <2> QED
    BY <2>2, <2>3 DEF Covered
<1>8. Loop'
  BY <1>1, <1>3 DEF Loop
<1> QED
  BY <1>4, <1>5, <1>6, <1>7, <1>8 DEF IInv

LEMMA ListChildrenStep == ASSUME IInv, CD!ListChildren PROVE IInv'
<1> USE NoneNew
<1>1. /\ call = "children" /\ frames' = [frames EXCEPT ![1].children = CD!Children(CD!Current)]
      /\ call' = "descend" /\ UNCHANGED <<CD!ndr, target, force, CD!loop>>
  BY DEF CD!ListChildren
<1>2. UNCHANGED <<parent, live, bound, gone, sourceDocIDs, page, items>>
  BY <1>1 DEF CD!ndr, CD!loop
<1>3. Waiting
  BY <1>1 DEF Waiting, Forced
<1>4. CD!Children(CD!Current) \subseteq CD!Node
  BY DEF CD!Children, IInv, CD!TypeOK
<1>5. /\ frames' \in Seq(Frames) /\ Len(frames') = Len(frames) /\ DOMAIN frames' = DOMAIN frames
      /\ frames'[1].node = CD!Current /\ frames'[1].children = CD!Children(CD!Current)
      /\ \A i \in DOMAIN frames : i # 1 => frames'[i] = frames[i]
      /\ \A i \in DOMAIN frames : frames'[i].node = frames[i].node
  BY <1>1, <1>3, <1>4, Top DEF Frames
<1>6. Kept' /\ Taken' /\ Reach(target)' = Reach(target)
  BY <1>1, <1>5, Still
<1>7. CD!TypeOK'
  BY <1>1, <1>2, <1>4, <1>5 DEF IInv, CD!TypeOK
<1>8. Path'
  <2>1. \A i \in DOMAIN frames' : /\ frames'[i].node \in Reach(target)'
                               /\ \A c \in frames'[i].children : parent'[c] = frames'[i].node
    BY <1>2, <1>5, <1>6 DEF IInv, Path, CD!Children
  <2>2. /\ frames' # <<>> /\ target' \in CD!Node /\ frames'[Len(frames')].node = target' /\ force'
    BY <1>1, <1>3, <1>5, Top DEF IInv, Path, Forced
  <2> QED
    BY <1>1, <2>1, <2>2 DEF Path
<1>9. Covered'
  <2> SUFFICES ASSUME NEW i \in DOMAIN frames', NEW c \in 1..Existing,
                      c \in live', parent'[c] = frames'[i].node
               PROVE  c \in frames'[i].children \/ (i > 1 /\ c = frames'[i - 1].node)
    BY <1>1 DEF Covered
  <2>1. CASE i = 1
    BY <1>2, <1>5, <2>1 DEF CD!Children
  <2>2. CASE i > 1
    <3>1. i \in DOMAIN frames /\ i - 1 \in DOMAIN frames /\ frames'[i - 1].node = frames[i - 1].node
      BY <1>3, <1>5, <2>2, Top
    <3> QED
      BY <1>2, <1>3, <1>5, <2>2, <3>1 DEF IInv, Covered
  <2> QED
    BY <1>3, <1>5, <2>1, <2>2, Top
<1>10. Loop'
  BY <1>1 DEF Loop
<1> QED
  BY <1>6, <1>7, <1>8, <1>9, <1>10 DEF IInv

LEMMA DescendStep == ASSUME IInv, CD!Descend PROVE IInv'
<1> USE NoneNew
<1>1. call = "descend" /\ UNCHANGED <<CD!ndr, target, force, CD!loop>>
  BY DEF CD!Descend
<1>2. UNCHANGED <<parent, live, bound, gone, sourceDocIDs, page, items>>
  BY <1>1 DEF CD!ndr, CD!loop
<1>3. Waiting
  BY <1>1 DEF Waiting, Forced
<1>4. CASE frames[1].children = {} /\ call' = "sources" /\ UNCHANGED frames
  <2>1. Kept' /\ Taken' /\ Reach(target)' = Reach(target)
    BY <1>1, <1>3, <1>4, Top, Still
  <2>2. CD!TypeOK'
    BY <1>2, <1>4 DEF IInv, CD!TypeOK
  <2>3. Path'
    BY <1>1, <1>2, <1>3, <1>4, <2>1 DEF IInv, Path, Waiting, Forced
  <2>4. Covered'
    BY <1>1, <1>2, <1>3, <1>4 DEF IInv, Covered, Filled
  <2>5. Loop'
    BY <1>4 DEF Loop
  <2> QED
    BY <2>1, <2>2, <2>3, <2>4, <2>5 DEF IInv
<1>5. ASSUME NEW k \in frames[1].children, call' = "children",
             frames' = <<CD!Frame(k), [frames[1] EXCEPT !.children = @ \ {k}]>> \o Tail(frames)
      PROVE  IInv'
  <2> DEFINE top == [frames[1] EXCEPT !.children = @ \ {k}]
  <2>1. k \in CD!Node /\ CD!Frame(k) \in Frames /\ CD!Frame(k).node = k /\ CD!Frame(k).children = {}
    BY <1>3, <1>5, Top DEF CD!Frame, Frames
  <2>2. top \in Frames /\ top.node = frames[1].node /\ top.children = frames[1].children \ {k}
    BY <1>3, Top DEF Frames
  <2> HIDE DEF top
  <2>3. frames' = <<CD!Frame(k), top>> \o Tail(frames)
    BY <1>5 DEF top
  <2>4. /\ Tail(frames) \in Seq(Frames) /\ Len(Tail(frames)) = Len(frames) - 1
        /\ \A i \in 1..Len(Tail(frames)) : Tail(frames)[i] = frames[i + 1]
    BY <1>3, Top
  <2>5. /\ frames' \in Seq(Frames) /\ Len(frames') = Len(frames) + 1 /\ frames' # <<>>
        /\ DOMAIN frames' = 1..(Len(frames) + 1)
        /\ frames'[1] = CD!Frame(k) /\ frames'[2] = top
        /\ \A i \in 3..(Len(frames) + 1) : frames'[i] = Tail(frames)[i - 2]
    BY <1>3, <2>1, <2>2, <2>3, <2>4, Top
  <2>6. \A i \in 3..(Len(frames) + 1) : frames'[i] = frames[i - 1] /\ i - 1 \in DOMAIN frames
    BY <1>3, <2>4, <2>5, Top
  <2>7. Kept' /\ Taken' /\ Reach(target)' = Reach(target)
    BY <1>1, <1>5, <2>5, Still
  <2>8. CD!TypeOK'
    <3>1. \A i \in DOMAIN frames' : frames'[i].node \in CD!Node /\ frames'[i].children \subseteq CD!Node
      <4>1. \A i \in DOMAIN frames' : frames'[i] \in Frames
        BY <2>5
      <4> QED
        BY <4>1 DEF Frames
    <3> QED
      BY <1>2, <1>5, <3>1 DEF IInv, CD!TypeOK
  <2>9. Path'
    <3>1. parent[k] = frames[1].node /\ frames[1].node \in Reach(target) /\ frames[1].node \in CD!Node
      BY <1>3, <1>5, Top DEF IInv, Path
    <3>2. k \in Reach(target)
      BY <2>1, <3>1, ReachStep
    <3>3. \A i \in DOMAIN frames' : /\ frames'[i].node \in Reach(target)'
                                 /\ \A c \in frames'[i].children : parent'[c] = frames'[i].node
      <4> SUFFICES ASSUME NEW i \in 1..(Len(frames) + 1)
                   PROVE  /\ frames'[i].node \in Reach(target)
                          /\ \A c \in frames'[i].children : parent[c] = frames'[i].node
        BY <1>2, <2>5, <2>7
      <4>1. CASE i = 1
        BY <2>1, <2>5, <3>2, <4>1
      <4>2. CASE i = 2
        BY <1>3, <2>2, <2>5, <3>1, <4>2, Top DEF IInv, Path
      <4>3. CASE i \in 3..(Len(frames) + 1)
        BY <2>6, <4>3 DEF IInv, Path
      <4> QED
        BY <1>3, <4>1, <4>2, <4>3, Top
    <3>4. frames[Len(frames)].node = target /\ force /\ target \in CD!Node
      BY <1>1, <1>3 DEF IInv, Path, Forced
    <3>5. frames'[Len(frames')].node = target
      <4>1. CASE Len(frames) = 1
        BY <2>2, <2>5, <3>4, <4>1
      <4>2. CASE Len(frames) # 1
        <5>1. Len(frames') \in 3..(Len(frames) + 1) /\ Len(frames') - 1 = Len(frames)
          <6>1. Len(frames) \in Nat \ {0}
            BY <1>3, Top
          <6>2. Len(frames') = Len(frames) + 1
            BY <2>5
          <6>3. \A l \in Nat \ {0, 1} : l + 1 \in 3..(l + 1) /\ (l + 1) - 1 = l
            OBVIOUS
          <6> QED
            BY <4>2, <6>1, <6>2, <6>3
        <5> QED
          BY <2>6, <3>4, <5>1
      <4> QED
        BY <4>1, <4>2
    <3> QED
      BY <1>1, <1>5, <2>5, <3>3, <3>4, <3>5 DEF Path
  <2>10. Covered'
    <3> SUFFICES ASSUME NEW i \in DOMAIN frames', i > 1, NEW c \in 1..Existing,
                        c \in live', parent'[c] = frames'[i].node
                 PROVE  c \in frames'[i].children \/ (i > 1 /\ c = frames'[i - 1].node)
      BY <1>5 DEF Covered, Filled
    <3>1. CASE i = 2
      <4>1. c \in frames[1].children
        BY <1>1, <1>2, <1>3, <2>2, <2>5, <3>1, Top DEF IInv, Covered, Filled
      <4> QED
        BY <2>1, <2>2, <2>5, <3>1, <4>1
    <3>2. CASE i > 2
      <4>1. i \in 3..(Len(frames) + 1) /\ i - 1 \in DOMAIN frames /\ i - 1 > 1
        BY <1>3, <2>5, <3>2, Top
      <4>2. c \in frames[i - 1].children \/ c = frames[i - 2].node
        BY <1>2, <1>3, <2>6, <4>1, Top DEF IInv, Covered
      <4>3. frames'[i - 1].node = frames[i - 2].node
        <5>1. CASE i = 3
          BY <2>2, <2>5, <5>1
        <5>2. CASE i > 3
          BY <2>6, <4>1, <5>2
        <5> QED
          BY <3>2, <4>1, <5>1, <5>2
      <4> QED
        BY <2>6, <3>2, <4>1, <4>2, <4>3
    <3> QED
      BY <1>3, <2>5, <3>1, <3>2, Top
  <2>11. Loop'
    BY <1>5 DEF Loop
  <2> QED
    BY <2>7, <2>8, <2>9, <2>10, <2>11 DEF IInv
<1> QED
  BY <1>3, <1>4, <1>5, Top DEF CD!Descend

LEMMA ListSourceDocumentsStep == ASSUME IInv, CD!ListSourceDocuments PROVE IInv'
<1> USE NoneNew
<1>1. /\ call = "sources" /\ sourceDocIDs' = {d \in Doc : bound[d][CD!Current] = "source"}
      /\ page' = 1 /\ call' = "page" /\ UNCHANGED <<CD!ndr, target, force, frames, items>>
  BY DEF CD!ListSourceDocuments
<1>2. UNCHANGED <<parent, live, bound, gone>>
  BY <1>1 DEF CD!ndr
<1>3. Waiting /\ CD!Current' = CD!Current
  BY <1>1 DEF Waiting, Forced, CD!Current
<1>4. Kept' /\ Taken' /\ Reach(target)' = Reach(target)
  BY <1>1, <1>3, Top, Still
<1>5. CD!TypeOK'
  BY <1>1, <1>2 DEF IInv, CD!TypeOK
<1>6. Path'
  BY <1>1, <1>2, <1>3, <1>4 DEF IInv, Path, Waiting, Forced
<1>7. Covered'
  BY <1>1, <1>2, <1>3 DEF IInv, Covered, Filled
<1>8. Loop'
  BY <1>1, <1>2, <1>3 DEF Loop
<1> QED
  BY <1>4, <1>5, <1>6, <1>7, <1>8 DEF IInv

LEMMA QuotientOfLess == ASSUME NEW p \in Nat \ {0}, NEW n \in 0..(p - 1) PROVE n \div p = 0
OBVIOUS

(* Documents that are no more than a page are all on the first.            *)
LEMMA FirstPage ==
    ASSUME PageSize \in Nat \ {0}, Doc \subseteq Nat, IsFiniteSet(Doc), NEW docs \in SUBSET Doc,
           Cardinality(docs) <= PageSize
    PROVE  CD!OnPage(docs, 1) = docs
<1>1. IsFiniteSet(docs)
  BY FS_Subset
<1>2. ASSUME NEW d \in docs PROVE CD!Cardinality({e \in docs : e < d}) \div PageSize = 0
  <2> DEFINE less == {e \in docs : e < d}
  <2>1. less \subseteq docs \ {d}
    OBVIOUS
  <2>2. IsFiniteSet(docs \ {d}) /\ Cardinality(docs \ {d}) = Cardinality(docs) - 1
    BY <1>1, FS_RemoveElement
  <2>3. Cardinality(less) <= Cardinality(docs) - 1 /\ Cardinality(less) \in Nat /\ Cardinality(docs) \in Nat
    <3> HIDE DEF less
    <3>1. IsFiniteSet(less) /\ Cardinality(less) <= Cardinality(docs \ {d})
      BY <2>1, <2>2, FS_Subset
    <3> QED
      BY <1>1, <2>2, <3>1, FS_CardinalityType
  <2> HIDE DEF less
  <2>4. Cardinality(less) \in 0..(PageSize - 1)
    BY <2>3
  <2>5. Cardinality(less) \div PageSize = 0
    BY <2>4, QuotientOfLess
  <2> QED
    BY <2>5, CardinalityIs DEF less
<1>3. CD!OnPage(docs, 1) = {d \in docs : CD!Cardinality({e \in docs : e < d}) \div PageSize = 0}
  <2>1. 1 - 1 = 0
    OBVIOUS
  <2> QED
    BY <2>1, Zenon DEF CD!OnPage
<1> QED
  BY <1>2, <1>3, Zenon

LEMMA ListNodeDocumentsStep == ASSUME IInv, CD!ListNodeDocuments PROVE IInv'
<1> USE NoneNew
<1> DEFINE docs == CD!OnPage(CD!Listed(CD!Current), page)
<1>1. /\ call = "page" /\ items' = docs \ sourceDocIDs
      /\ page' = (IF CD!Cardinality(docs) < PageSize THEN 0 ELSE page + 1)
      /\ call' = "documents" /\ UNCHANGED <<CD!ndr, target, force, frames, sourceDocIDs>>
  BY DEF CD!ListNodeDocuments
<1>2. UNCHANGED <<parent, live, bound, gone>>
  BY <1>1 DEF CD!ndr
<1>3. Waiting /\ CD!Current' = CD!Current
  BY <1>1 DEF Waiting, Forced, CD!Current
<1>4. Kept' /\ Taken' /\ Reach(target)' = Reach(target)
  BY <1>1, <1>3, Top, Still
<1>5. docs \subseteq CD!Listed(CD!Current)
  BY DEF CD!OnPage
<1>6. items' \subseteq Outputs(CD!Current)
  <2> SUFFICES ASSUME NEW d \in docs, d \notin sourceDocIDs PROVE d \in Outputs(CD!Current)
    BY <1>1
  <2>1. d \in Doc /\ bound[d][CD!Current] # NULL
    BY <1>5 DEF CD!Listed
  <2>2. bound[d][CD!Current] \in {"output", "source", NULL}
    BY <1>3, <2>1, Top DEF IInv, Kept
  <2>3. bound[d][CD!Current] # "source"
    BY <1>1, <2>1 DEF IInv, Loop
  <2> QED
    BY <2>1, <2>2, <2>3 DEF Outputs
<1>7. page \in Nat /\ page >= 1
  BY <1>1 DEF IInv, CD!TypeOK, Loop
<1>8. page' \in Nat /\ page' # 1
  <2> HIDE DEF docs
  <2> QED
    BY <1>1, <1>7
<1>9. ASSUME Small(CD!Current) PROVE Outputs(CD!Current) \subseteq gone \cup items'
  <2>1. CASE page > 1
    BY <1>1, <1>9, <2>1 DEF IInv, Loop
  <2>2. CASE page = 1
    <3> DEFINE all == {d \in Doc : bound[d][CD!Current] # NULL}
    <3>1. Cardinality(CD!Listed(CD!Current)) <= PageSize
      <4>1. CD!Listed(CD!Current) \subseteq all
        BY DEF CD!Listed
      <4>2. IsFiniteSet(all) /\ Cardinality(all) <= PageSize
        <5>1. all \subseteq Doc
          OBVIOUS
        <5>2. Cardinality(all) <= PageSize
          BY <1>9, CardinalityIs DEF Small
        <5> HIDE DEF all
        <5> QED
          BY <5>1, <5>2, FS_Subset, DocFinite
      <4>3. /\ Cardinality(CD!Listed(CD!Current)) <= Cardinality(all)
            /\ Cardinality(CD!Listed(CD!Current)) \in Nat /\ Cardinality(all) \in Nat
        <5> HIDE DEF all
        <5> QED
          BY <4>1, <4>2, FS_Subset, FS_CardinalityType
      <4> HIDE DEF all
      <4> QED
        BY <4>2, <4>3, Assumptions DEF CD!DeleteAssumption
    <3>2. docs = CD!Listed(CD!Current)
      BY <2>2, <3>1, FirstPage, DocFinite, Assumptions DEF CD!DeleteAssumption, CD!Listed
    <3>3. ASSUME NEW d \in Outputs(CD!Current), d \notin gone PROVE d \in items'
      <4>1. d \in Doc /\ bound[d][CD!Current] = "output" /\ bound[d][CD!Current] # NULL
        BY Assumptions DEF CD!DeleteAssumption, Outputs
      <4>2. d \in docs
        BY <3>2, <3>3, <4>1 DEF CD!Listed
      <4>3. d \notin sourceDocIDs
        BY <1>1, <4>1 DEF IInv, Loop
      <4> QED
        BY <1>1, <4>2, <4>3
    <3> QED
      BY <3>3
  <2> QED
    BY <1>7, <2>1, <2>2
<1>10. CD!TypeOK'
  BY <1>1, <1>2, <1>6, <1>8 DEF IInv, CD!TypeOK, Outputs
<1>11. Path'
  BY <1>1, <1>2, <1>3, <1>4 DEF IInv, Path, Waiting, Forced
<1>12. Covered'
  BY <1>1, <1>2, <1>3 DEF IInv, Covered, Filled
<1>13. Loop'
  <2>1. Outputs(CD!Current)' = Outputs(CD!Current) /\ Small(CD!Current)' = Small(CD!Current)
    BY <1>2, <1>3 DEF Outputs, Small
  <2>2. sourceDocIDs' = {d \in Doc : bound'[d][CD!Current'] = "source"}
    BY <1>1, <1>2, <1>3 DEF IInv, Loop
  <2> QED
    BY <1>1, <1>2, <1>6, <1>8, <1>9, <2>1, <2>2 DEF Loop
<1> QED
  BY <1>4, <1>10, <1>11, <1>12, <1>13 DEF IInv

LEMMA DeleteDocumentsStep == ASSUME IInv, CD!DeleteDocuments PROVE IInv'
<1> USE NoneNew
<1>1. call = "documents" /\ UNCHANGED <<target, force, frames, sourceDocIDs, page>>
  BY DEF CD!DeleteDocuments
<1>2. Waiting /\ CD!Current' = CD!Current
  BY <1>1 DEF Waiting, Forced, CD!Current
<1>3. page # 1 /\ page \in Nat /\ (Small(CD!Current) => Outputs(CD!Current) \subseteq gone \cup items)
  BY <1>1 DEF IInv, Loop, CD!TypeOK
<1>4. CASE items = {} /\ call' = (IF page = 0 THEN "node" ELSE "page") /\ UNCHANGED <<CD!ndr, items>>
  <2>1. UNCHANGED <<parent, live, bound, gone>>
    BY <1>4 DEF CD!ndr
  <2>2. Kept' /\ Taken' /\ Reach(target)' = Reach(target)
    BY <1>1, <1>2, <1>4, Top, Still
  <2>3. CD!TypeOK'
    BY <1>1, <1>4, <2>1 DEF IInv, CD!TypeOK
  <2>4. Path'
    BY <1>1, <1>2, <1>4, <2>1, <2>2 DEF IInv, Path, Waiting, Forced
  <2>5. Covered'
    BY <1>1, <1>2, <1>4, <2>1 DEF IInv, Covered, Filled
  <2>6. Loop'
    <3>1. Outputs(CD!Current)' = Outputs(CD!Current) /\ Small(CD!Current)' = Small(CD!Current)
      BY <1>2, <2>1 DEF Outputs, Small
    <3>2. Small(CD!Current) => Outputs(CD!Current) \subseteq gone'
      BY <1>3, <1>4, <2>1
    <3>3. sourceDocIDs' = {d \in Doc : bound'[d][CD!Current'] = "source"}
      BY <1>1, <1>2, <2>1 DEF IInv, Loop
    <3>4. call' = "page" => page' >= 1
      BY <1>1, <1>3, <1>4
    <3>5. call' \in {"page", "node"}
      BY <1>4
    <3> QED
      BY <3>1, <3>2, <3>3, <3>4, <3>5 DEF Loop
  <2> QED
    BY <2>2, <2>3, <2>4, <2>5, <2>6 DEF IInv
<1>5. ASSUME NEW d \in items, CD!DeleteDocument(d), items' = items \ {d}, UNCHANGED call PROVE IInv'
  <2>1. gone' = gone \cup {d} /\ UNCHANGED <<parent, live, bound>>
    BY <1>5 DEF CD!DeleteDocument
  <2>2. gone' \subseteq Doc /\ Earned' /\ CD!NothingStranded'
    BY <1>1, <2>1, DocumentGone
  <2>3. Reach(target)' = Reach(target) /\ Known' = Known /\ CD!Dead' = CD!Dead
    BY <1>1, <2>1 DEF Reach, Known, CD!Dead
  <2>4. CD!TypeOK'
    BY <1>1, <1>5, <2>1, <2>2 DEF IInv, CD!TypeOK
  <2>5. Kept'
    BY <1>1, <1>5, <2>1, <2>3 DEF IInv, Kept
  <2>6. Path'
    BY <1>1, <1>2, <1>5, <2>1, <2>3 DEF IInv, Path, Waiting, Forced
  <2>7. Covered'
    BY <1>1, <1>2, <1>5, <2>1 DEF IInv, Covered, Filled
  <2>8. Loop'
    <3>1. Outputs(CD!Current)' = Outputs(CD!Current) /\ Small(CD!Current)' = Small(CD!Current)
      BY <1>2, <2>1 DEF Outputs, Small
    <3>2. items' \subseteq Outputs(CD!Current) /\ page' # 1
      BY <1>1, <1>5 DEF IInv, Loop
    <3>3. Small(CD!Current) => Outputs(CD!Current) \subseteq gone' \cup items'
      BY <1>3, <1>5, <2>1
    <3>4. sourceDocIDs' = {e \in Doc : bound'[e][CD!Current'] = "source"}
      BY <1>1, <1>2, <2>1 DEF IInv, Loop
    <3> QED
      BY <1>1, <1>5, <3>1, <3>2, <3>3, <3>4 DEF Loop
  <2>9. Taken'
    <3>1. CD!TreeHangsTogether'
      BY <2>1 DEF IInv, Taken, CD!TreeHangsTogether
    <3> QED
      BY <1>1, <1>5, <2>2, <2>3, <3>1 DEF IInv, Taken
  <2> QED
    BY <2>4, <2>5, <2>6, <2>7, <2>8, <2>9 DEF IInv
<1> QED
  BY <1>4, <1>5 DEF CD!DeleteDocuments

LEMMA DeleteNodeStep == ASSUME IInv, CD!DeleteNode PROVE IInv'
<1> USE NoneNew
<1>1. /\ call = "node" /\ live' = live \ {CD!Current} /\ UNCHANGED <<parent, bound, gone, target, force>>
      /\ frames' = Tail(frames) /\ call' = (IF Tail(frames) = <<>> THEN "ok" ELSE "descend")
      /\ UNCHANGED <<sourceDocIDs, page, items>>
  BY DEF CD!DeleteNode, CD!loop
<1>2. Waiting
  BY <1>1 DEF Waiting
<1>3. /\ live' \subseteq Known' /\ Known' = Known /\ CD!Dead' \subseteq Reach(target)'
      /\ CD!TreeHangsTogether' /\ CD!NothingStranded'
  BY <1>1, NodeGone
<1>4. Reach(target)' = Reach(target)
  BY <1>1 DEF Reach
<1>5. /\ frames' \in Seq(Frames) /\ Len(frames') = Len(frames) - 1
      /\ \A i \in 1..(Len(frames) - 1) : frames'[i] = frames[i + 1] /\ i + 1 \in DOMAIN frames
      /\ DOMAIN frames' = 1..(Len(frames) - 1)
      /\ Len(frames) \in Nat \ {0}
  BY <1>1, <1>2, Top
<1>6. frames' = <<>> <=> Len(frames) = 1
  BY <1>5
<1>7. CD!TypeOK'
  <2>1. \A i \in DOMAIN frames' : frames'[i].node \in CD!Node /\ frames'[i].children \subseteq CD!Node
    BY <1>5 DEF IInv, CD!TypeOK
  <2> QED
    BY <1>1, <2>1 DEF IInv, CD!TypeOK
<1>8. Kept'
  BY <1>1, <1>3, <1>5 DEF IInv, Kept
<1>9. Path'
  <2>1. \A i \in DOMAIN frames' : /\ frames'[i].node \in Reach(target)'
                               /\ \A c \in frames'[i].children : parent'[c] = frames'[i].node
    BY <1>1, <1>4, <1>5 DEF IInv, Path
  <2>2. ASSUME frames' # <<>> PROVE frames'[Len(frames')].node = target /\ force
    <3>1. Len(frames) # 1
      BY <1>6, <2>2
    <3>2. Len(frames') \in 1..(Len(frames) - 1) /\ Len(frames') + 1 = Len(frames)
      BY <1>5, <3>1
    <3>3. frames[Len(frames)].node = target /\ force
      BY <1>2, <3>1 DEF IInv, Path, Kept
    <3> QED
      BY <1>5, <3>2, <3>3
  <2>3. target' \in CD!Node
    BY <1>1, <1>2, Top
  <2> QED
    BY <1>1, <2>1, <2>2, <2>3 DEF Path, Waiting, Forced
<1>10. Covered'
  <2> SUFFICES ASSUME NEW i \in DOMAIN frames', NEW c \in 1..Existing,
                      c \in live', parent'[c] = frames'[i].node
               PROVE  c \in frames'[i].children \/ (i > 1 /\ c = frames'[i - 1].node)
    BY <1>1 DEF Covered
  <2>1. i \in 1..(Len(frames) - 1) /\ i + 1 \in DOMAIN frames /\ i + 1 > 1 /\ frames'[i] = frames[i + 1] /\ (i + 1) - 1 = i
    BY <1>5
  <2>2. c \in frames[i + 1].children \/ c = frames[i].node
    BY <1>1, <1>2, <2>1 DEF IInv, Covered
  <2>3. CASE i = 1
    BY <1>1, <1>2, <2>1, <2>2, <2>3, Top
  <2>4. CASE i > 1
    <3>1. frames'[i - 1] = frames[i]
      BY <1>5, <2>1, <2>4
    <3> QED
      BY <2>1, <2>2, <2>4, <3>1
  <2> QED
    BY <2>1, <2>3, <2>4
<1>11. Loop'
  BY <1>1 DEF Loop
<1>12. Taken'
  <2>1. Earned'
    BY <1>1, <1>4 DEF IInv, Taken, Earned
  <2>2. ASSUME call' = "ok" PROVE target' \notin live'
    <3>1. Len(frames) = 1
      BY <1>1, <1>6, <2>2
    <3>2. frames[1].node = target
      BY <1>2, <3>1 DEF IInv, Path
    <3> QED
      BY <1>1, <1>2, <3>2, Top
  <2> QED
    BY <1>3, <2>1, <2>2 DEF Taken
<1> QED
  BY <1>7, <1>8, <1>9, <1>10, <1>11, <1>12 DEF IInv

LEMMA CallFailsStep == ASSUME IInv, CD!CallFails PROVE IInv'
<1> USE NoneNew
<1>1. /\ call \notin {"idle", "ok", "failed", "descend"} /\ call' = "failed"
      /\ UNCHANGED <<target, force, frames, sourceDocIDs, page, items>>
  BY DEF CD!CallFails, CD!loop
<1>2. frames \in Seq(Frames)
  BY DEF IInv, Kept
<1>3. /\ live' \subseteq live /\ UNCHANGED <<parent, bound>>
      /\ gone' \subseteq Doc /\ live' \subseteq Known'
      /\ CD!Dead' \subseteq Reach(target)' /\ Earned' /\ CD!TreeHangsTogether' /\ CD!NothingStranded'
  <2>1. CASE UNCHANGED CD!ndr
    <3>1. UNCHANGED <<parent, live, bound, gone>>
      BY <2>1 DEF CD!ndr
    <3>2. Taken' /\ Kept'
      BY <1>1, <1>2, <2>1, Still
    <3> QED
      BY <3>1, <3>2 DEF Taken, Kept, IInv, CD!TypeOK
  <2>2. ASSUME call = "documents", NEW d \in items, CD!DeleteDocument(d)
        PROVE  /\ live' \subseteq live /\ UNCHANGED <<parent, bound>>
               /\ gone' \subseteq Doc /\ live' \subseteq Known'
               /\ CD!Dead' \subseteq Reach(target)' /\ Earned' /\ CD!TreeHangsTogether' /\ CD!NothingStranded'
    <3>1. gone' = gone \cup {d} /\ UNCHANGED <<parent, live, bound>>
      BY <2>2 DEF CD!DeleteDocument
    <3>2. gone' \subseteq Doc /\ Earned' /\ CD!NothingStranded'
      BY <1>1, <2>2, <3>1, DocumentGone
    <3>3. Reach(target)' = Reach(target) /\ Known' = Known /\ CD!Dead' = CD!Dead
      BY <1>1, <3>1 DEF Reach, Known, CD!Dead
    <3>4. CD!TreeHangsTogether'
      BY <3>1 DEF IInv, Taken, CD!TreeHangsTogether
    <3> QED
      BY <3>1, <3>2, <3>3, <3>4 DEF IInv, Kept, Taken
  <2>3. CASE call = "node" /\ live' = live \ {CD!Current} /\ UNCHANGED <<parent, bound, gone>>
    <3>1. /\ live' \subseteq Known' /\ CD!Dead' \subseteq Reach(target)'
          /\ CD!TreeHangsTogether' /\ CD!NothingStranded'
      BY <1>1, <2>3, NodeGone
    <3>2. Reach(target)' = Reach(target)
      BY <1>1, <2>3 DEF Reach
    <3>3. Earned'
      BY <1>1, <2>3, <3>2 DEF IInv, Taken, Earned
    <3> QED
      BY <2>3, <3>1, <3>3 DEF IInv, CD!TypeOK
  <2> QED
    BY <2>1, <2>2, <2>3 DEF CD!CallFails
<1>4. Reach(target)' = Reach(target) /\ Known' = Known
  BY <1>1, <1>3 DEF Reach, Known
<1>5. CD!TypeOK'
  BY <1>1, <1>3 DEF IInv, CD!TypeOK
<1>6. Kept'
  BY <1>1, <1>3, <1>4 DEF IInv, Kept
<1>7. Path'
  BY <1>1, <1>3, <1>4 DEF IInv, Path, Waiting, Forced
<1>8. Covered' /\ Loop'
  BY <1>1 DEF Covered, Loop, Waiting, Forced
<1>9. Taken'
  BY <1>1, <1>3 DEF Taken
<1> QED
  BY <1>5, <1>6, <1>7, <1>8, <1>9 DEF IInv

LEMMA CreateCategoryStep == ASSUME IInv, NEW n \in live, CD!CreateCategory(n) PROVE IInv'
<1> USE NoneNew
<1>1. /\ call \notin {"idle", "ok", "failed"}
      /\ UNCHANGED <<bound, gone, target, force, call, frames, sourceDocIDs, page, items>>
  BY DEF CD!CreateCategory, CD!loop
<1>2. PICK new \in CD!Node : /\ parent[new] = NULL
                             /\ parent' = [parent EXCEPT ![new] = n] /\ live' = live \cup {new}
  BY DEF CD!CreateCategory
<1>3. n \in CD!Node /\ parent \in [CD!Node -> {NULL, CD!Root} \cup CD!Node] /\ live \subseteq Known
  BY DEF IInv, CD!TypeOK, Kept
<1>4. /\ Known' = Known \cup {new} /\ new \notin Known
      /\ \A k \in Known : parent'[k] = parent[k]
  BY <1>2, <1>3 DEF Known
<1>5. Reach(target) \subseteq Reach(target)'
  BY <1>1, <1>4, ReachStays
<1>6. CD!Dead' = CD!Dead
  BY <1>2, <1>4 DEF CD!Dead, Known
<1>7. CD!TypeOK'
  BY <1>1, <1>2, <1>3 DEF IInv, CD!TypeOK
<1>8. Kept'
  BY <1>1, <1>2, <1>4 DEF IInv, Kept
<1>9. Path'
  <2>1. ASSUME NEW i \in DOMAIN frames, NEW c \in frames[i].children PROVE parent'[c] = frames[i].node
    <3>1. parent[c] = frames[i].node /\ frames[i].node \in CD!Node /\ c \in CD!Node
      BY DEF IInv, Path, CD!TypeOK
    <3> QED
      BY <1>4, <3>1 DEF Known
  <2>2. \A i \in DOMAIN frames : frames[i].node \in Reach(target)'
    BY <1>5 DEF IInv, Path
  <2>3. Waiting => /\ frames # <<>> /\ target \in CD!Node /\ frames[Len(frames)].node = target
                   /\ call \in Forced => force
                   /\ call = "check" => ~force /\ frames = <<CD!Frame(target)>>
                   /\ ~force => Len(frames) = 1
    BY DEF IInv, Path
  <2>4. CD!Frame(target)' = CD!Frame(target)
    BY <1>1 DEF CD!Frame
  <2> QED
    BY <1>1, <2>1, <2>2, <2>3, <2>4 DEF Path, Waiting, Forced
<1>10. Covered'
  <2>1. \A c \in 1..Existing : parent'[c] = parent[c] /\ (c \in live' => c \in live)
    BY <1>2, <1>4 DEF IInv, Kept
  <2> QED
    BY <1>1, <2>1 DEF IInv, Covered, Waiting, Forced, Filled
<1>11. Loop'
  <2>1. CD!Current' = CD!Current /\ Outputs(CD!Current)' = Outputs(CD!Current) /\ Small(CD!Current)' = Small(CD!Current)
    BY <1>1 DEF CD!Current, Outputs, Small
  <2>2. sourceDocIDs' = sourceDocIDs /\ bound' = bound /\ CD!Current' = CD!Current
    BY <1>1, <2>1
  <2> QED
    BY <1>1, <2>1, <2>2 DEF IInv, Loop
<1>12. Taken'
  <2>1. CD!TreeHangsTogether'
    BY <1>2, <1>4 DEF IInv, Kept, Taken, CD!TreeHangsTogether
  <2>2. Earned'
    BY <1>1, <1>5 DEF IInv, Taken, Earned
  <2>3. CD!NothingStranded'
    BY <1>1, <1>6 DEF IInv, Taken, CD!NothingStranded
  <2> QED
    BY <1>1, <1>5, <1>6, <2>1, <2>2, <2>3 DEF IInv, Taken
<1> QED
  BY <1>7, <1>8, <1>9, <1>10, <1>11, <1>12 DEF IInv

-----------------------------------------------------------------------------
(* Deletions                                                               *)

LEMMA NextIInv == ASSUME IInv, [CD!Next]_(CD!vars) PROVE IInv'
<1>1. CASE UNCHANGED CD!vars
  <2>1. /\ UNCHANGED <<parent, live, bound, gone, target, force, call, frames>>
        /\ UNCHANGED <<sourceDocIDs, page, items>>
    BY <1>1 DEF CD!vars, CD!ndr, CD!loop
  <2>2. Reach(target)' = Reach(target) /\ Known' = Known /\ CD!Dead' = CD!Dead /\ CD!Current' = CD!Current
    BY <2>1 DEF Reach, Known, CD!Dead, CD!Current
  <2>3. CD!TypeOK'
    BY <2>1 DEF IInv, CD!TypeOK
  <2>4. Kept'
    BY <2>1, <2>2 DEF IInv, Kept
  <2>5. Path'
    BY <2>1, <2>2 DEF IInv, Path, Waiting, Forced, CD!Frame
  <2>6. Covered'
    BY <2>1 DEF IInv, Covered, Waiting, Forced, Filled
  <2>7. Loop'
    <3>1. Outputs(CD!Current)' = Outputs(CD!Current) /\ Small(CD!Current)' = Small(CD!Current)
      BY <2>1, <2>2 DEF Outputs, Small
    <3> QED
      BY <2>1, <2>2, <3>1 DEF IInv, Loop
  <2>8. Taken'
    BY <2>1, <2>2 DEF IInv, Taken, Earned, CD!TreeHangsTogether, CD!NothingStranded
  <2> QED
    BY <2>3, <2>4, <2>5, <2>6, <2>7, <2>8 DEF IInv
<1>2. CASE CD!Next
  BY <1>2, DeleteCategoryStep, HasChildrenStep, ListChildrenStep, DescendStep,
     ListSourceDocumentsStep, ListNodeDocumentsStep, DeleteDocumentsStep, DeleteNodeStep,
     CallFailsStep, CreateCategoryStep DEF CD!Next
<1> QED
  BY <1>1, <1>2

LEMMA Sound == ASSUME IInv PROVE CD!TypeOK /\ CD!DeletionSound
<1>1. \A n \in CD!Dead : CD!Under(target, n)
  <2> SUFFICES ASSUME NEW n \in CD!Dead PROVE CD!Under(target, n)
    OBVIOUS
  <2>1. target \in CD!Node /\ n \in Reach(target)
    BY DEF IInv, Kept, Taken
  <2> QED
    BY <2>1, ReachUnder DEF IInv
<1>2. \A d \in gone : force /\ \E n \in 1..Existing : CD!Under(target, n) /\ bound[d][n] = "output"
  <2> SUFFICES ASSUME NEW d \in gone
               PROVE  force /\ \E n \in 1..Existing : CD!Under(target, n) /\ bound[d][n] = "output"
    OBVIOUS
  <2>1. PICK n \in 1..Existing : n \in Reach(target) /\ bound[d][n] = "output"
    BY DEF IInv, Taken, Earned
  <2>2. force /\ target \in CD!Node
    BY DEF IInv, Kept, Taken, Earned
  <2> QED
    BY <2>1, <2>2, ReachUnder DEF IInv
<1> QED
  BY <1>1, <1>2 DEF IInv, Taken, CD!DeletionSound, CD!OthersSpared

-----------------------------------------------------------------------------
(* The theorem                                                             *)

DeletionIInv == asked = "deletion" => IInv

(* A deletion takes from below, and only what it should, whichever call    *)
(* fails, whether its answer is lost or not, and whatever others create    *)
(* meanwhile (deleteCategoryRecursive).                                    *)
THEOREM DeletionCorrect == RequestsSpec => []TreeStands
<1>1. RequestsInit => DeletionIInv
  BY InitIInv DEF RequestsInit, DeletionIInv
<1>2. DeletionIInv /\ [RequestsNext]_<<asked, vars, deletion>> => DeletionIInv'
  <2> SUFFICES ASSUME DeletionIInv, [RequestsNext]_<<asked, vars, deletion>>, asked' = "deletion"
               PROVE  IInv'
    BY DEF DeletionIInv
  <2>1. asked = "deletion" /\ IInv
    BY DEF RequestsNext, DeletionIInv
  <2>2. [CD!Next]_(CD!vars)
    BY <2>1 DEF RequestsNext, deletion, CD!vars, CD!ndr, CD!loop
  <2> QED
    BY <2>1, <2>2, NextIInv
<1>3. DeletionIInv => TreeStands
  BY Sound DEF DeletionIInv, TreeStands
<1> QED
  BY <1>1, <1>2, <1>3, PTL DEF RequestsSpec

-----------------------------------------------------------------------------
(* Rows: Cardinality and CHOOSE do not help the provers with InOrder, so   *)
(* it is first what it lists in increasing order; Without keeps what it    *)
(* does not take out, in order.                                            *)

(* A row of numbers that grow                                              *)
Increasing(f) == \A i, j \in DOMAIN f : i < j => f[i] < f[j]

(* What numbers a finite set in increasing order is InOrder of it.         *)
LEMMA IncreasingIsInjective ==
    ASSUME NEW m \in Nat, NEW S \in SUBSET Nat, NEW f \in [1..m -> S], Increasing(f)
    PROVE  \A i, j \in 1..m : f[i] = f[j] => i = j
<1> SUFFICES ASSUME NEW i \in 1..m, NEW j \in 1..m, f[i] = f[j], i # j PROVE FALSE
  OBVIOUS
<1>1. f[i] \in Nat /\ f[j] \in Nat
  OBVIOUS
<1>2. CASE i < j
  BY <1>1, <1>2 DEF Increasing
<1>3. CASE j < i
  BY <1>1, <1>3 DEF Increasing
<1> QED
  BY <1>2, <1>3

(* The rank of a number of a row that grows is its place.                  *)
LEMMA RankOf ==
    ASSUME NEW m \in Nat, NEW S \in SUBSET Nat, NEW f \in [1..m -> S], Increasing(f),
           \A n \in S : \E i \in 1..m : f[i] = n,
           NEW i \in 1..m
    PROVE  Cardinality({k \in S : k <= f[i]}) = i
<1> DEFINE Low == {k \in S : k <= f[i]}
           g   == [j \in 1..i |-> f[j]]
<1>1. \A j \in 1..i : f[j] \in Low
  <2> SUFFICES ASSUME NEW j \in 1..i PROVE f[j] \in Low
    OBVIOUS
  <2>1. j \in 1..m /\ (j = i \/ j < i)
    OBVIOUS
  <2>2. f[i] \in Nat /\ f[j] \in S /\ f[j] \in Nat
    BY <2>1
  <2> QED
    BY <2>1, <2>2 DEF Increasing
<1>2. \A k \in Low : \E j \in 1..i : f[j] = k
  <2> SUFFICES ASSUME NEW k \in Low PROVE \E j \in 1..i : f[j] = k
    OBVIOUS
  <2>1. PICK j \in 1..m : f[j] = k
    OBVIOUS
  <2>2. ~(i < j)
    <3>1. f[i] \in Nat /\ f[j] \in Nat /\ f[j] <= f[i]
      BY <2>1
    <3> QED
      BY <3>1 DEF Increasing
  <2> QED
    BY <2>1, <2>2
<1>3. g \in Bijection(1..i, Low)
  <2>1. g \in [1..i -> Low]
    BY <1>1
  <2>2. \A j, k \in 1..i : g[j] = g[k] => j = k
    BY IncreasingIsInjective
  <2>3. \A k \in Low : \E j \in 1..i : g[j] = k
    BY <1>2
  <2> HIDE DEF g, Low
  <2> QED
    BY <2>1, <2>2, <2>3, Zenon DEF Bijection, Injection, Surjection, IsInjective
<1>4. ExistsBijection(1..i, Low)
  <2> HIDE DEF g, Low
  <2> QED
    BY <1>3 DEF ExistsBijection
<1> QED
  BY <1>4, FS_CountingElements

(* A row that grows and lists a set is InOrder of it.                      *)
LEMMA IsInOrder ==
    ASSUME NEW m \in Nat, NEW S \in SUBSET Nat, NEW f \in [1..m -> S], Increasing(f),
           \A n \in S : \E i \in 1..m : f[i] = n
    PROVE  f = InOrder(S)
<1>1. Cardinality(S) = m
  <2>1. \A i, j \in 1..m : f[i] = f[j] => i = j
    BY IncreasingIsInjective
  <2>2. f \in Bijection(1..m, S)
    BY <2>1, Zenon DEF Bijection, Injection, Surjection, IsInjective
  <2> QED
    BY <2>2, FS_CountingElements DEF ExistsBijection
<1> SUFFICES ASSUME NEW i \in 1..m PROVE f[i] = InOrder(S)[i]
  BY <1>1 DEF InOrder
<1>2. \A n \in S : Cardinality({k \in S : k <= n}) = i => n = f[i]
  <2> SUFFICES ASSUME NEW n \in S, Cardinality({k \in S : k <= n}) = i PROVE n = f[i]
    OBVIOUS
  <2>1. PICK j \in 1..m : f[j] = n
    OBVIOUS
  <2>2. Cardinality({k \in S : k <= f[j]}) = j
    BY RankOf
  <2> QED
    BY <2>1, <2>2
<1>3. Cardinality({k \in S : k <= f[i]}) = i
  BY RankOf
<1> QED
  BY <1>1, <1>2, <1>3 DEF InOrder

(* InOrder numbers the whole set, in increasing order.                     *)
LEMMA InOrderIs ==
    ASSUME NEW S \in SUBSET Nat, IsFiniteSet(S)
    PROVE  /\ Cardinality(S) \in Nat
           /\ InOrder(S) \in [1..Cardinality(S) -> S]
           /\ Increasing(InOrder(S))
           /\ \A n \in S : \E i \in 1..Cardinality(S) : InOrder(S)[i] = n
<1> DEFINE Low(n) == {k \in S : k <= n}
           c == Cardinality(S)
           r == [n \in S |-> Cardinality(Low(n))]
<1>1. c \in Nat
  BY FS_CardinalityType
<1>2. \A n \in S : Low(n) \in SUBSET S /\ IsFiniteSet(Low(n)) /\ Cardinality(Low(n)) \in 1..c
  <2> SUFFICES ASSUME NEW n \in S
               PROVE  Low(n) \in SUBSET S /\ IsFiniteSet(Low(n)) /\ Cardinality(Low(n)) \in 1..c
    OBVIOUS
  <2>1. Low(n) \in SUBSET S /\ n \in Low(n)
    OBVIOUS
  <2>2. IsFiniteSet(Low(n)) /\ Cardinality(Low(n)) <= c
    BY <2>1, FS_Subset
  <2>3. Cardinality(Low(n)) # 0
    BY <2>1, <2>2, FS_EmptySet
  <2>4. Cardinality(Low(n)) \in Nat
    BY <2>2, FS_CardinalityType
  <2> QED
    BY <1>1, <2>1, <2>2, <2>3, <2>4
<1>3. \A m, n \in S : m < n => Cardinality(Low(m)) < Cardinality(Low(n))
  <2> SUFFICES ASSUME NEW m \in S, NEW n \in S, m < n
               PROVE  Cardinality(Low(m)) < Cardinality(Low(n))
    OBVIOUS
  <2>1. Low(m) \in SUBSET Low(n) /\ Low(m) # Low(n)
    <3>1. m \in Nat /\ n \in Nat
      OBVIOUS
    <3>2. n \in Low(n) /\ n \notin Low(m)
      BY <3>1
    <3>3. \A k \in Low(m) : k \in S /\ k \in Nat /\ k <= m
      OBVIOUS
    <3>4. \A k \in Low(m) : k \in Low(n)
      BY <3>1, <3>3
    <3> QED
      BY <3>2, <3>4
  <2>2. Cardinality(Low(m)) <= Cardinality(Low(n)) /\ Cardinality(Low(m)) # Cardinality(Low(n))
    BY <1>2, <2>1, FS_Subset
  <2> QED
    BY <1>2, <2>2
<1>4. r \in Injection(S, 1..c)
  <2>1. r \in [S -> 1..c]
    BY <1>2
  <2>2. \A m, n \in S : r[m] = r[n] => m = n
    <3> SUFFICES ASSUME NEW m \in S, NEW n \in S, r[m] = r[n], m # n PROVE FALSE
      OBVIOUS
    <3>1. m \in Nat /\ n \in Nat
      OBVIOUS
    <3>2. m < n \/ n < m
      BY <3>1
    <3> QED
      BY <1>2, <1>3, <3>2
  <2> HIDE DEF r
  <2> QED
    BY <2>1, <2>2, Zenon DEF Injection, IsInjective
<1>5. r \in Surjection(S, 1..c)
  <2>1. IsFiniteSet(1..c) /\ Cardinality(1..c) = c
    BY <1>1, FS_Interval
  <2> HIDE DEF r
  <2> QED
    BY <1>4, <2>1, FS_Injection
<1>6. \A i \in 1..c : \E n \in S : Cardinality(Low(n)) = i
  <2>1. \A i \in 1..c : \E n \in S : r[n] = i
    <3> HIDE DEF r
    <3> QED
      BY <1>5, Zenon DEF Surjection
  <2> QED
    BY <2>1
<1>7. \A i \in 1..c : InOrder(S)[i] \in S /\ Cardinality(Low(InOrder(S)[i])) = i
  <2> SUFFICES ASSUME NEW i \in 1..c
               PROVE  InOrder(S)[i] \in S /\ Cardinality(Low(InOrder(S)[i])) = i
    OBVIOUS
  <2>1. InOrder(S)[i] = CHOOSE n \in S : Cardinality({k \in S : k <= n}) = i
    BY DEF InOrder
  <2> QED
    BY <1>6, <2>1
<1>8. InOrder(S) \in [1..c -> S]
  BY <1>7 DEF InOrder
<1>9. Increasing(InOrder(S))
  <2> SUFFICES ASSUME NEW i \in 1..c, NEW j \in 1..c, i < j
               PROVE  InOrder(S)[i] < InOrder(S)[j]
    BY <1>8 DEF Increasing
  <2> DEFINE a == InOrder(S)[i]
             b == InOrder(S)[j]
  <2>1. a \in S /\ b \in S /\ Cardinality(Low(a)) = i /\ Cardinality(Low(b)) = j
    BY <1>7
  <2>2. a # b /\ ~(b < a)
    <3>1. b < a => Cardinality(Low(b)) < Cardinality(Low(a))
      BY <1>3, <2>1
    <3> QED
      BY <2>1, <3>1
  <2> HIDE DEF a, b
  <2>3. a \in Nat /\ b \in Nat
    BY <2>1
  <2>4. a < b
    BY <2>2, <2>3
  <2> QED
    BY <2>4 DEF a, b
<1>10. \A n \in S : \E i \in 1..c : InOrder(S)[i] = n
  <2> SUFFICES ASSUME NEW n \in S PROVE \E i \in 1..c : InOrder(S)[i] = n
    OBVIOUS
  <2> DEFINE i == Cardinality(Low(n))
  <2>1. i \in 1..c /\ InOrder(S)[i] \in S /\ Cardinality(Low(InOrder(S)[i])) = i
    BY <1>2, <1>7
  <2>2. InOrder(S)[i] \in Nat /\ n \in Nat
    BY <2>1
  <2>3. /\ InOrder(S)[i] < n => Cardinality(Low(InOrder(S)[i])) < i
        /\ n < InOrder(S)[i] => i < Cardinality(Low(InOrder(S)[i]))
    BY <1>3, <2>1
  <2> QED
    <3> HIDE DEF i, Low
    <3> QED
      BY <2>1, <2>2, <2>3
<1> HIDE DEF c
<1> QED
  BY <1>1, <1>8, <1>9, <1>10 DEF c

-----------------------------------------------------------------------------
(* The places that Without keeps                                           *)
Left(row, S) == {i \in DOMAIN row : row[i] \notin S}

(* They are finitely many.                                                 *)
LEMMA LeftIs ==
    ASSUME NEW T, NEW row \in Seq(T), NEW S
    PROVE  Left(row, S) \in SUBSET Nat /\ IsFiniteSet(Left(row, S))
<1>1. Left(row, S) \in SUBSET (1..Len(row))
  BY DEF Left
<1>2. IsFiniteSet(1..Len(row))
  BY FS_Interval
<1> QED
  BY <1>1, <1>2, FS_Subset

(* Without keeps the places of Left, in their order.                       *)
LEMMA WithoutIs ==
    ASSUME NEW T, NEW row \in Seq(T), NEW S
    PROVE  LET w == Without(row, S)
               f == InOrder(Left(row, S))
           IN  /\ w \in Seq(T) /\ f \in [1..Len(w) -> Left(row, S)] /\ Increasing(f)
               /\ \A n \in Left(row, S) : \E j \in 1..Len(w) : f[j] = n
               /\ \A j \in 1..Len(w) : w[j] = row[f[j]]
<1> DEFINE w == Without(row, S)
           f == InOrder(Left(row, S))
           c == Cardinality(Left(row, S))
<1>1. /\ c \in Nat /\ f \in [1..c -> Left(row, S)] /\ Increasing(f)
      /\ \A n \in Left(row, S) : \E j \in 1..c : f[j] = n
  BY LeftIs, InOrderIs
<1>2. w = [j \in DOMAIN f |-> row[f[j]]]
  BY DEF Without, Left
<1> HIDE DEF w, f, c
<1>3. w = [j \in 1..c |-> row[f[j]]]
  BY <1>1, <1>2
<1>4. \A j \in 1..c : row[f[j]] \in T
  BY <1>1 DEF Left
<1>5. w \in Seq(T) /\ Len(w) = c
  BY <1>1, <1>3, <1>4
<1>6. /\ w \in Seq(T) /\ f \in [1..Len(w) -> Left(row, S)] /\ Increasing(f)
      /\ \A n \in Left(row, S) : \E j \in 1..Len(w) : f[j] = n
      /\ \A j \in 1..Len(w) : w[j] = row[f[j]]
  BY <1>1, <1>3, <1>5
<1> QED
  BY <1>6 DEF w, f

(* And nothing else does.                                                  *)
LEMMA IsWithout ==
    ASSUME NEW T, NEW row \in Seq(T), NEW S, NEW w \in Seq(T),
           NEW f \in [1..Len(w) -> Left(row, S)], Increasing(f),
           \A n \in Left(row, S) : \E j \in 1..Len(w) : f[j] = n,
           \A j \in 1..Len(w) : w[j] = row[f[j]]
    PROVE  Without(row, S) = w
<1>1. f = InOrder(Left(row, S))
  <2>1. Len(w) \in Nat /\ Left(row, S) \in SUBSET Nat
    BY LeftIs
  <2> QED
    BY <2>1, IsInOrder
<1>2. Without(row, S) = [j \in DOMAIN f |-> row[f[j]]]
  BY <1>1 DEF Without, Left
<1> QED
  BY <1>2

(* Taking nodes out takes them out of the set of a row,                    *)
LEMMA WithoutRange ==
    ASSUME NEW T, NEW row \in Seq(T), NEW S
    PROVE  /\ Without(row, S) \in Seq(T)
           /\ ToSet(Without(row, S)) = ToSet(row) \ S
<1> DEFINE w == Without(row, S)
           f == InOrder(Left(row, S))
<1>1. /\ w \in Seq(T) /\ f \in [1..Len(w) -> Left(row, S)]
      /\ \A n \in Left(row, S) : \E j \in 1..Len(w) : f[j] = n
      /\ \A j \in 1..Len(w) : w[j] = row[f[j]]
  BY WithoutIs
<1> HIDE DEF w, f
<1>2. ASSUME NEW j \in 1..Len(w) PROVE w[j] \in ToSet(row) \ S
  BY <1>1, <1>2 DEF Left, ToSet
<1>3. ASSUME NEW i \in DOMAIN row, row[i] \notin S PROVE \E j \in 1..Len(w) : w[j] = row[i]
  BY <1>1, <1>3 DEF Left
<1>4. ToSet(w) = ToSet(row) \ S
  <2>1. DOMAIN w = 1..Len(w)
    BY <1>1
  <2>2. \A n \in ToSet(w) : n \in ToSet(row) \ S
    BY <1>2, <2>1 DEF ToSet
  <2>3. \A n \in ToSet(row) \ S : n \in ToSet(w)
    BY <1>3, <2>1 DEF ToSet
  <2> QED
    BY <2>2, <2>3
<1> QED
  BY <1>1, <1>4 DEF w

(* makes no node appear twice,                                             *)
LEMMA WithoutInjective ==
    ASSUME NEW T, NEW row \in Seq(T), NEW S, IsInjective(row)
    PROVE  IsInjective(Without(row, S))
<1> DEFINE w == Without(row, S)
           f == InOrder(Left(row, S))
<1>1. /\ w \in Seq(T) /\ f \in [1..Len(w) -> Left(row, S)] /\ Increasing(f)
      /\ \A j \in 1..Len(w) : w[j] = row[f[j]]
  BY WithoutIs
<1> HIDE DEF w, f
<1>2. \A i, j \in 1..Len(w) : f[i] = f[j] => i = j
  <2>1. Len(w) \in Nat /\ Left(row, S) \in SUBSET Nat
    BY <1>1, LeftIs
  <2> QED
    BY <1>1, <2>1, IncreasingIsInjective
<1>3. \A i, j \in 1..Len(w) : w[i] = w[j] => f[i] = f[j]
  BY <1>1 DEF Left, IsInjective
<1>4. IsInjective(w)
  BY <1>1, <1>2, <1>3 DEF IsInjective
<1> QED
  BY <1>4 DEF w

(* does nothing where there are none of them,                              *)
LEMMA WithoutNone ==
    ASSUME NEW T, NEW row \in Seq(T), NEW S, ToSet(row) \cap S = {}
    PROVE  Without(row, S) = row
<1> DEFINE f == [i \in 1..Len(row) |-> i]
<1>1. \A i \in 1..Len(row) : row[i] \notin S
  BY DEF ToSet
<1>2. Left(row, S) = 1..Len(row)
  BY <1>1 DEF Left
<1>3. f \in [1..Len(row) -> Left(row, S)] /\ Increasing(f)
  BY <1>2 DEF Increasing
<1>4. \A j \in 1..Len(row) : f[j] = j
  OBVIOUS
<1> HIDE DEF f
<1> QED
  BY <1>2, <1>3, <1>4, IsWithout

(* nor with one put at the end,                                            *)
LEMMA WithoutAppend ==
    ASSUME NEW T, NEW row \in Seq(T), NEW S, NEW n \in T, n \in S
    PROVE  Without(Append(row, n), S) = Without(row, S)
<1> DEFINE more == Append(row, n)
           f == InOrder(Left(row, S))
<1>1. more \in Seq(T) /\ Len(more) = Len(row) + 1
  OBVIOUS
<1>2. (\A i \in 1..Len(row) : more[i] = row[i]) /\ more[Len(row) + 1] = n
  OBVIOUS
<1> HIDE DEF more
<1>3. Left(more, S) = Left(row, S)
  BY <1>1, <1>2 DEF Left
<1>4. \A j \in DOMAIN f : f[j] \in Left(row, S)
  BY WithoutIs
<1>5. \A j \in DOMAIN f : more[f[j]] = row[f[j]]
  BY <1>2, <1>4 DEF Left
<1>6. /\ Without(row, S) = [j \in DOMAIN f |-> row[f[j]]]
      /\ Without(more, S) = [j \in DOMAIN InOrder(Left(more, S)) |-> more[InOrder(Left(more, S))[j]]]
  BY DEF Without, Left
<1>7. Without(more, S) = [j \in DOMAIN f |-> more[f[j]]]
  BY <1>3, <1>6
<1> HIDE DEF f
<1>8. Without(more, S) = Without(row, S)
  BY <1>5, <1>6, <1>7
<1> QED
  BY <1>8 DEF more

(* and not more after some of them.                                        *)
LEMMA WithoutTwice ==
    ASSUME NEW T, NEW row \in Seq(T), NEW S, NEW A \in SUBSET S
    PROVE  Without(Without(row, A), S) = Without(row, S)
<1> DEFINE v == Without(row, A)
           w == Without(v, S)
           f == InOrder(Left(row, A))
           g == InOrder(Left(v, S))
           h == [j \in 1..Len(w) |-> f[g[j]]]
<1>1. /\ v \in Seq(T) /\ f \in [1..Len(v) -> Left(row, A)] /\ Increasing(f)
      /\ \A n \in Left(row, A) : \E j \in 1..Len(v) : f[j] = n
      /\ \A j \in 1..Len(v) : v[j] = row[f[j]]
  BY WithoutIs
<1> HIDE DEF v, f
<1>2. /\ w \in Seq(T) /\ g \in [1..Len(w) -> Left(v, S)] /\ Increasing(g)
      /\ \A n \in Left(v, S) : \E j \in 1..Len(w) : g[j] = n
      /\ \A j \in 1..Len(w) : w[j] = v[g[j]]
  BY <1>1, WithoutIs
<1> HIDE DEF w, g
<1>3. \A j \in 1..Len(w) : g[j] \in 1..Len(v) /\ v[g[j]] \notin S
  BY <1>1, <1>2 DEF Left
<1>4. \A j \in 1..Len(w) : f[g[j]] \in Left(row, S) /\ w[j] = row[f[g[j]]]
  BY <1>1, <1>2, <1>3 DEF Left
<1>5. h \in [1..Len(w) -> Left(row, S)] /\ \A j \in 1..Len(w) : w[j] = row[h[j]]
  BY <1>4
<1>6. Increasing(h)
  BY <1>1, <1>2, <1>3 DEF Increasing
<1>7. \A n \in Left(row, S) : \E j \in 1..Len(w) : h[j] = n
  <2> SUFFICES ASSUME NEW n \in Left(row, S) PROVE \E j \in 1..Len(w) : f[g[j]] = n
    OBVIOUS
  <2>1. n \in Left(row, A)
    BY DEF Left
  <2>2. PICK i \in 1..Len(v) : f[i] = n
    BY <1>1, <2>1
  <2>3. i \in Left(v, S)
    BY <1>1, <2>2 DEF Left
  <2> QED
    BY <1>2, <2>2, <2>3
<1> HIDE DEF h
<1>8. Without(row, S) = w
  BY <1>2, <1>5, <1>6, <1>7, IsWithout
<1> QED
  BY <1>8 DEF w, v

(* Taking out what was put between x and y.                                *)
Between(x, z, y, S) == ToSet(z) \subseteq S /\ ToSet(x) \cap S = {} /\ ToSet(y) \cap S = {}

LEMMA WithoutBetween ==
    ASSUME NEW S, NEW x \in Seq(Node), NEW y \in Seq(Node), NEW z \in Seq(Node), Between(x, z, y, S)
    PROVE  Without(x \o z \o y, S) = x \o y
<1> DEFINE row == x \o z \o y
           w   == x \o y
           f   == [j \in 1..Len(w) |-> IF j <= Len(x) THEN j ELSE j + Len(z)]
<1>1. row \in Seq(Node) /\ Len(row) = Len(x) + Len(z) + Len(y) /\ w \in Seq(Node) /\ Len(w) = Len(x) + Len(y)
  OBVIOUS
<1>2. /\ \A i \in 1..Len(x) : row[i] = x[i]
      /\ \A i \in 1..Len(z) : row[i + Len(x)] = z[i]
      /\ \A i \in 1..Len(y) : row[i + Len(x) + Len(z)] = y[i]
  OBVIOUS
<1>3. /\ \A i \in 1..Len(x) : w[i] = x[i]
      /\ \A i \in 1..Len(y) : w[i + Len(x)] = y[i]
  OBVIOUS
<1> HIDE DEF row, w
<1>4. /\ \A i \in 1..Len(x) : x[i] \notin S
      /\ \A i \in 1..Len(z) : z[i] \in S
      /\ \A i \in 1..Len(y) : y[i] \notin S
  BY DEF ToSet, Between
<1>5. Left(row, S) = (1..Len(x)) \cup ((Len(x) + Len(z) + 1)..Len(row))
  <2>1. ASSUME NEW i \in 1..Len(row)
        PROVE  row[i] \notin S <=> i <= Len(x) \/ i > Len(x) + Len(z)
    <3>1. CASE i <= Len(x)
      BY <1>2, <1>4, <3>1
    <3>2. CASE i > Len(x) /\ i <= Len(x) + Len(z)
      <4>1. PICK k \in 1..Len(z) : k + Len(x) = i
        <5>1. i - Len(x) \in 1..Len(z) /\ (i - Len(x)) + Len(x) = i
          BY <1>1, <3>2
        <5> QED
          BY <5>1
      <4>2. row[i] = z[k]
        BY <1>2, <4>1
      <4> QED
        BY <1>4, <3>2, <4>2
    <3>3. CASE i > Len(x) + Len(z)
      <4>1. PICK k \in 1..Len(y) : k + Len(x) + Len(z) = i
        <5>1. /\ i - Len(x) - Len(z) \in 1..Len(y)
              /\ (i - Len(x) - Len(z)) + Len(x) + Len(z) = i
          BY <1>1, <3>3
        <5> QED
          BY <5>1
      <4>2. row[i] = y[k]
        BY <1>2, <4>1
      <4> QED
        BY <1>4, <3>3, <4>2
    <3> QED
      BY <3>1, <3>2, <3>3
  <2>2. DOMAIN row = 1..Len(row)
    BY <1>1
  <2>3. \A i : i \in Left(row, S) <=> i \in (1..Len(x)) \cup ((Len(x) + Len(z) + 1)..Len(row))
    BY <1>1, <2>1, <2>2 DEF Left
  <2> QED
    BY <2>3
<1>6. f \in [1..Len(w) -> Left(row, S)] /\ Increasing(f)
  <2>1. \A j \in 1..Len(w) : f[j] \in Left(row, S)
    BY <1>1, <1>5
  <2>2. Increasing(f)
    BY <1>1 DEF Increasing
  <2> QED
    BY <2>1, <2>2
<1>7. \A n \in Left(row, S) : \E j \in 1..Len(w) : f[j] = n
  <2> SUFFICES ASSUME NEW n \in Left(row, S) PROVE \E j \in 1..Len(w) : f[j] = n
    OBVIOUS
  <2>1. CASE n \in 1..Len(x)
    BY <1>1, <2>1
  <2>2. CASE n \in (Len(x) + Len(z) + 1)..Len(row)
    <3>1. n - Len(z) \in 1..Len(w) /\ f[n - Len(z)] = n
      BY <1>1, <2>2
    <3> QED
      BY <3>1
  <2> QED
    BY <1>5, <2>1, <2>2
<1>8. \A j \in 1..Len(w) : w[j] = row[f[j]]
  <2> SUFFICES ASSUME NEW j \in 1..Len(w) PROVE w[j] = row[f[j]]
    OBVIOUS
  <2>1. CASE j <= Len(x)
    BY <1>1, <1>2, <1>3, <2>1
  <2>2. CASE j > Len(x)
    <3>1. PICK k \in 1..Len(y) : k + Len(x) = j /\ k + Len(x) + Len(z) = f[j]
      <4>1. /\ j - Len(x) \in 1..Len(y)
            /\ (j - Len(x)) + Len(x) = j /\ (j - Len(x)) + Len(x) + Len(z) = f[j]
        BY <1>1, <2>2
      <4> QED
        BY <4>1
    <3>2. w[j] = y[k] /\ row[f[j]] = y[k]
      <4>1. w[k + Len(x)] = y[k] /\ row[k + Len(x) + Len(z)] = y[k]
        BY <1>2, <1>3
      <4> HIDE DEF f
      <4> QED
        BY <3>1, <4>1
    <3> QED
      BY <3>2
  <2> QED
    BY <2>1, <2>2
<1> HIDE DEF f
<1>9. Without(row, S) = w
  <2>1. row \in Seq(Node) /\ w \in Seq(Node)
    BY <1>1
  <2>2. f = InOrder(Left(row, S))
    <3>1. Len(w) \in Nat /\ Left(row, S) \in SUBSET Nat
      BY <2>1, LeftIs
    <3> QED
      BY <1>6, <1>7, <3>1, IsInOrder
  <2>3. Without(row, S) = [j \in DOMAIN f |-> row[f[j]]]
    BY <2>2 DEF Without, Left
  <2> QED
    BY <1>6, <1>8, <2>1, <2>3
<1> QED
  BY <1>9 DEF row, w

-----------------------------------------------------------------------------
(* The invariant of copies and moves                                       *)

(* All names                                                               *)
Names == Seq(BaseName \cup Nat)

(* The names of the children of p                                          *)
NamesOf(p) == {name[n] : n \in ToSet(kids[p])}

(* A node is in one row, and there once.                                   *)
Forest(rows) ==
    /\ rows \in [Place -> Seq(Node)]
    /\ \A p \in Place : IsInjective(rows[p])
    /\ \A p, q \in Place : p # q => ToSet(rows[p]) \cap ToSet(rows[q]) = {}

(* The tree as it was before the request                                   *)
BeforeInv ==
    /\ before \in [Place -> Seq(Existed)] /\ Forest(before)
    /\ \A p \in Place : /\ \A n \in ToSet(before[p]) : p < n
                        /\ \A m, n \in ToSet(before[p]) : name[m] = name[n] => m = n
    /\ \A n \in Existed : \E p \in Place : n \in ToSet(before[p])

(* The tree as it is: copies have the next ids.                            *)
TreeInv ==
    /\ Forest(kids)
    /\ name \in [Node -> Names \cup {NULL}]
    /\ copyOf \in [Node -> Node \cup {NULL}]
    /\ \E c \in Existing..MaxNode : Used = 1..c
    /\ \A p \in Place : ToSet(kids[p]) \subseteq Used
    /\ Created \subseteq Used \ Existed

(* How far the request is, and what it has not begun                       *)
RequestInv ==
    /\ step \in {"idle", "fetch", "create", "list", "copied", "origins", "move", "place",
                "reorder", "undo", "ok", "failed", "misplaced"}
    /\ root \in Node \cup {NULL} /\ made \in Seq(Node) /\ moved \in 0..MaxSources
    /\ lost \in BOOLEAN /\ spoiled \in BOOLEAN
    /\ IF step = "idle" THEN request = Idle ELSE request \in Requests
    /\ step \in {"fetch", "create", "list", "copied"} => request.kind = "copy"
    /\ step \in {"origins", "move"} => request.kind = "move"
    /\ step = "idle" => kids = before /\ made = <<>> /\ root = NULL /\ moved = 0 /\ origin = <<>>
                        /\ cache = NoNames /\ undo = <<>>
    /\ request.kind # "copy" => Created = {}
    /\ step = "undo" <=> undo # <<>>

(* A source is being copied.                                               *)
Copying == step \in {"fetch", "create", "list", "copied"}
(* All copies are made.                                                    *)
Made == step \in {"place", "reorder", "ok", "misplaced"}
Now == Len(made) + 1       \* the source being copied

(* What is to be copied, and below which node                              *)
Frame == [src : Node, under : Place]

(* While a source is copied                                                *)
CopyingInv ==
    Copying =>
        /\ todo \in Seq(Frame) /\ (todo = <<>> <=> step = "copied")
        /\ Len(made) < Len(request.sources)
        /\ rest = SubSeq(request.sources, Len(made) + 2, Len(request.sources))
        /\ \A i \in DOMAIN todo : todo[i].src \in Used
        /\ IF root = NULL
             THEN /\ step \in {"fetch", "create"}
                  /\ todo = <<[src |-> request.sources[Now], under |-> request.target]>>
             ELSE /\ root \in Created /\ copyOf[root] = request.sources[Now]
                  /\ \A i \in DOMAIN todo : todo[i].under \in Created \ ToSet(made)
        /\ step = "list" => /\ copyOf[todo[1].under] = todo[1].src /\ todo[1].src # todo[1].under
                            /\ kids[todo[1].under] = <<>>
                            /\ root # NULL
                            /\ \A i \in DOMAIN todo : i # 1 => todo[i].under # todo[1].under
        /\ kids[request.target] = IF root = NULL THEN before[request.target] \o made
                                  ELSE Append(before[request.target] \o made, root)
        /\ \A p \in Place \ Created : p # request.target => kids[p] = before[p]

(* The copies made are the first of those asked for.                       *)
MadeInv ==
    request.kind = "copy" =>
        /\ ToSet(made) \subseteq Created /\ IsInjective(made)
        /\ Len(made) <= Len(request.sources)
        /\ \A i \in DOMAIN made : copyOf[made[i]] = request.sources[i]
        /\ \A p \in Place : p # request.target => ToSet(made) \cap ToSet(kids[p]) = {}
        /\ Made => Len(made) = Len(request.sources)
        /\ step \in {"place", "reorder"} => kids[request.target] = before[request.target] \o made

(* What is being copied, and what has been                                 *)
FramesInv == CopyingInv /\ MadeInv

(* Siblings have different names.                                          *)
UniqueNames == \A p \in Place : \A m, n \in ToSet(kids[p]) : name[m] = name[n] => m = n

(* The cache knows the names of the children, and the one chosen.          *)
NamesInv ==
    /\ step = "idle" \/ request.kind = "copy" => UniqueNames
    /\ Copying =>
        /\ DOMAIN cache = Place
        /\ \A p \in Place : cache[p] # NULL =>
              cache[p] = NamesOf(p) \cup (IF step = "create" /\ p = todo[1].under THEN {label} ELSE {})
        /\ step = "create" => label \in Names /\ label \notin NamesOf(todo[1].under)

(* S holds, with a node, the node above it.                                *)
Closed(rows, S) == \A p \in Place : ToSet(rows[p]) \cap S # {} => p \in S
(* b is a or lies below it.                                                *)
Holds(rows, a, b) == \A S \in SUBSET Place : b \in S /\ Closed(rows, S) => a \in S

(* The source being copied holds the target.                               *)
Endless == Holds(before, request.sources[Now], request.target)

(* The copy of a node has a copy of each of its children, in their order.  *)
RowDone(n) ==
    /\ Len(kids[n]) = Len(before[copyOf[n]])
    /\ \A i \in DOMAIN kids[n] : copyOf[kids[n][i]] = before[copyOf[n]][i]

(* The children not copied yet are to be copied next, o places further on. *)
PendingAt(n, o) ==
    LET row == before[copyOf[n]]
        k   == Len(kids[n])
    IN  /\ k <= Len(row)
        /\ \A i \in 1..k : copyOf[kids[n][i]] = row[i]
        /\ \A j \in (k + 1)..Len(row) : o + j \in DOMAIN todo /\ todo[o + j] = [src |-> row[j], under |-> n]
        /\ \A i \in DOMAIN todo : todo[i].under = n => i - o \in (k + 1)..Len(row)

(* Only the copy of a source may get another name.                         *)
SameName(n) == n \in ToSet(made) \cup {root} \/ name[n] = name[copyOf[n]]

(* A copy of a node that holds the target never ends.                      *)
EndlessInv ==
    Copying /\ Endless => \E i \in DOMAIN todo : Holds(kids, todo[i].src, todo[i].under)

(* A copy is listed next, or some of its children are to be copied.        *)
Task(n) == (step = "list" /\ n = todo[1].under) \/ \E o \in Int : PendingAt(n, o)

(* A copy that ends is one of nodes that were there, and what it has not   *)
(* copied yet is on its stack.                                             *)
PendingInv ==
    Copying /\ ~Endless =>
        /\ \A i \in DOMAIN todo : todo[i].src \in Existed /\ ~Holds(before, todo[i].src, request.target)
        /\ \A n \in Created : copyOf[n] \in Existed /\ SameName(n) /\ Task(n)
        /\ step = "create" /\ root # NULL => label = name[todo[1].src]

(* The copies of the sources before are complete.                          *)
DoneInv ==
    request.kind = "copy" => \A n \in ToSet(made) : copyOf[n] \in Existed /\ RowDone(n)

(* When all are made each copy is complete.                                *)
WholeInv ==
    request.kind = "copy" /\ Made =>
        \A n \in Created : copyOf[n] \in Existed /\ RowDone(n) /\ (n \in ToSet(made) \/ name[n] = name[copyOf[n]])

CopyInv == EndlessInv /\ PendingInv /\ DoneInv /\ WholeInv

(* Copies are added to the rows there were, and the roll-back leaves none  *)
(* it could delete.                                                        *)
CopyUndoInv ==
    /\ request.kind = "copy" /\ step \notin {"ok", "misplaced"} =>
          \A p \in Place : Without(kids[p], Node \ Existed) = before[p]
    /\ request.kind = "copy" /\ step \in {"undo", "failed"} =>
          /\ undo \in Seq(Node) /\ ToSet(undo) \subseteq ToSet(made)
          /\ ~spoiled => \A n \in ToSet(made) \ ToSet(undo) : n \notin InTree \/ kids[n] # <<>>

(* Nodes are being moved, or all are.                                      *)
Moving == step \in {"move", "place", "reorder"} /\ request.kind = "move"
(* A node is below the target, or where it was.                            *)
Here(n, there) == \A p \in Place : n \in ToSet(kids[p]) <=> IF there THEN p = request.target ELSE n \in ToSet(before[p])

(* What is not moved holds the target.                                     *)
Barrier(out) == \E S \in SUBSET ({Root} \cup Existed) : request.target \in S /\ Closed(kids, S) /\ S \cap out = {}

(* The nodes of out are below the target, the others where they were.      *)
Stand(out) == (\A n \in Node : Here(n, n \in out)) /\ Barrier(out)

(* The nodes of the first k moves                                          *)
Gone(k) == {request.sources[i] : i \in 1..k}
(* The nodes of records                                                    *)
Ids(records) == {r.id : r \in ToSet(records)}
(* moveRecords                                                             *)
MoveRecord == [id : Existed, originalParent : Place]

(* While nodes are moved                                                   *)
MovingInv ==
    Moving =>
        /\ moved = Len(request.sources) <=> step # "move"
        /\ Stand(Gone(moved))
        /\ Without(kids[request.target], ToSet(request.sources)) = Without(before[request.target], ToSet(request.sources))

(* While they are moved back                                               *)
MovedBackInv ==
    request.kind = "move" /\ step = "undo" =>
        /\ undo \in Seq(MoveRecord)
        /\ ~lost /\ ~spoiled =>
              /\ \A r \in ToSet(undo) : r.id \in ToSet(before[r.originalParent])
              /\ \A i, j \in DOMAIN undo : undo[i].id = undo[j].id => i = j
              /\ Stand(Ids(undo))

(* While nodes are moved, moved back, or are all back                      *)
MoveInv ==
    /\ step = "origins" => kids = before /\ moved = 0
    /\ request.kind = "move" /\ step \in {"move", "place", "reorder"} =>
          /\ moved <= Len(request.sources) /\ origin \in Seq(Place) /\ Len(origin) = Len(request.sources)
          /\ \A i \in DOMAIN request.sources : request.sources[i] \in ToSet(before[origin[i]])
    /\ MovingInv /\ MovedBackInv
    /\ request.kind = "move" /\ step = "failed" /\ ~lost /\ ~spoiled => \A n \in Node : Here(n, FALSE)

(* While they are put in order, and then                                   *)
PlaceInv ==
    /\ step = "reorder" => AnchorFound /\ ordered = Inserted(Siblings, Items)
    /\ PlacedAsAsked

(* The inductive invariant                                                 *)
BulkInv == /\ BeforeInv /\ TreeInv /\ RequestInv /\ FramesInv /\ NamesInv /\ CopyInv
           /\ CopyUndoInv /\ MoveInv /\ PlaceInv

-----------------------------------------------------------------------------
(* Sequences, and the three ways in which rows change                      *)

(* Constants                                                               *)
LEMMA BulkSizes ==
    /\ Existing \in Nat /\ MaxNode \in Nat /\ Existing <= MaxNode
    /\ MaxCopies \in Nat /\ MaxSources \in Nat
    /\ NULL \notin Nat /\ NULL \notin {"copy", "move", "before", "after"} /\ NULL \notin Names
    /\ Existed \subseteq Node /\ Node \subseteq Place /\ Place \subseteq Nat /\ Node \subseteq Nat \ {0}
    /\ Root \in Place /\ Root \notin Node /\ NULL \notin Place
BY BulkAssumption DEF Names, Existed, Node, Place, Root

(* Sequences                                                               *)
LEMMA ToSetIs ==
    ASSUME NEW T, NEW s \in Seq(T)
    PROVE  /\ ToSet(s) \subseteq T
           /\ ToSet(s) = {s[i] : i \in 1..Len(s)}
           /\ \A n : Contains(s, n) <=> n \in ToSet(s)
           /\ \A n \in ToSet(s) : \E i \in 1..Len(s) : s[i] = n
           /\ \A i \in 1..Len(s) : s[i] \in ToSet(s)
BY DEF ToSet, Contains

LEMMA AppendSet ==
    ASSUME NEW T, NEW s \in Seq(T), NEW n \in T
    PROVE  /\ Append(s, n) \in Seq(T)
           /\ ToSet(Append(s, n)) = ToSet(s) \cup {n}
           /\ IsInjective(s) /\ n \notin ToSet(s) => IsInjective(Append(s, n))
<1> DEFINE t == Append(s, n)
<1>1. /\ t \in Seq(T) /\ Len(t) = Len(s) + 1
      /\ \A i \in 1..Len(s) : t[i] = s[i]
      /\ t[Len(s) + 1] = n
  OBVIOUS
<1> HIDE DEF t
<1>2. DOMAIN t = (1..Len(s)) \cup {Len(s) + 1} /\ DOMAIN s = 1..Len(s)
  BY <1>1
<1>3. ToSet(t) = ToSet(s) \cup {n}
  BY <1>1, <1>2 DEF ToSet
<1>4. IsInjective(s) /\ n \notin ToSet(s) => IsInjective(t)
  BY <1>1, <1>2 DEF ToSet, IsInjective
<1> QED
  BY <1>1, <1>3, <1>4 DEF t

LEMMA HeadTail ==
    ASSUME NEW T, NEW s \in Seq(T), s # <<>>
    PROVE  /\ Len(s) >= 1 /\ Head(s) = s[1] /\ s[1] \in T
           /\ Tail(s) \in Seq(T) /\ Len(Tail(s)) = Len(s) - 1
           /\ \A i \in 1..(Len(s) - 1) : Tail(s)[i] = s[i + 1]
           /\ ToSet(s) = {s[1]} \cup ToSet(Tail(s))
<1> DEFINE t == Tail(s)
<1>1. /\ Len(s) \in Nat /\ Len(s) >= 1 /\ Head(s) = s[1] /\ s[1] \in T
      /\ t \in Seq(T) /\ Len(t) = Len(s) - 1
      /\ \A i \in 1..(Len(s) - 1) : t[i] = s[i + 1]
  OBVIOUS
<1> HIDE DEF t
<1>2. DOMAIN s = 1..Len(s) /\ DOMAIN t = 1..(Len(s) - 1)
  BY <1>1
<1>3. \A n \in ToSet(s) : n \in {s[1]} \cup ToSet(t)
  <2> SUFFICES ASSUME NEW i \in 1..Len(s), i # 1 PROVE s[i] \in ToSet(t)
    BY <1>2 DEF ToSet
  <2>1. i - 1 \in 1..(Len(s) - 1) /\ s[(i - 1) + 1] = s[i]
    BY <1>1
  <2> QED
    BY <1>1, <1>2, <2>1 DEF ToSet
<1>4. \A n \in ToSet(t) : n \in ToSet(s)
  <2> SUFFICES ASSUME NEW i \in 1..(Len(s) - 1) PROVE t[i] \in ToSet(s)
    BY <1>2 DEF ToSet
  <2>1. i + 1 \in 1..Len(s)
    BY <1>1
  <2> QED
    BY <1>1, <1>2, <2>1 DEF ToSet
<1>5. s[1] \in ToSet(s)
  BY <1>1, <1>2 DEF ToSet
<1>6. ToSet(s) = {s[1]} \cup ToSet(t)
  BY <1>3, <1>4, <1>5
<1> QED
  BY <1>1, <1>6 DEF t

LEMMA ConcatSet ==
    ASSUME NEW T, NEW s \in Seq(T), NEW t \in Seq(T)
    PROVE  /\ s \o t \in Seq(T)
           /\ ToSet(s \o t) = ToSet(s) \cup ToSet(t)
           /\ IsInjective(s) /\ IsInjective(t) /\ ToSet(s) \cap ToSet(t) = {}
                => IsInjective(s \o t)
<1> DEFINE u == s \o t
<1>1. /\ u \in Seq(T) /\ Len(u) = Len(s) + Len(t)
      /\ \A i \in 1..Len(s) : u[i] = s[i]
      /\ \A i \in 1..Len(t) : u[i + Len(s)] = t[i]
  OBVIOUS
<1> HIDE DEF u
<1>2. DOMAIN u = 1..Len(u) /\ DOMAIN s = 1..Len(s) /\ DOMAIN t = 1..Len(t)
  BY <1>1
<1>3. \A i \in 1..Len(u) : i \in 1..Len(s) \/ \E j \in 1..Len(t) : i = j + Len(s)
  <2> SUFFICES ASSUME NEW i \in 1..Len(u), i \notin 1..Len(s)
               PROVE  \E j \in 1..Len(t) : i = j + Len(s)
    OBVIOUS
  <2>1. i - Len(s) \in 1..Len(t) /\ i = (i - Len(s)) + Len(s)
    BY <1>1
  <2> QED
    BY <2>1
<1>4. \A j \in 1..Len(t) : j + Len(s) \in 1..Len(u)
  BY <1>1
<1>5. \A j \in 1..Len(s) : j \in 1..Len(u)
  BY <1>1
<1>6. ToSet(u) = ToSet(s) \cup ToSet(t)
  <2>1. \A n \in ToSet(u) : n \in ToSet(s) \cup ToSet(t)
    <3> SUFFICES ASSUME NEW i \in 1..Len(u) PROVE u[i] \in ToSet(s) \cup ToSet(t)
      BY <1>2 DEF ToSet
    <3>1. CASE i \in 1..Len(s)
      BY <1>1, <1>2, <3>1 DEF ToSet
    <3>2. ASSUME NEW j \in 1..Len(t), i = j + Len(s) PROVE u[i] \in ToSet(t)
      BY <1>1, <1>2, <3>2 DEF ToSet
    <3> QED
      BY <1>3, <3>1, <3>2
  <2>2. \A n \in ToSet(s) \cup ToSet(t) : n \in ToSet(u)
    BY <1>1, <1>2, <1>4, <1>5 DEF ToSet
  <2> QED
    BY <2>1, <2>2
<1>7. ASSUME IsInjective(s), IsInjective(t), ToSet(s) \cap ToSet(t) = {} PROVE IsInjective(u)
  <2> SUFFICES ASSUME NEW i \in 1..Len(u), NEW j \in 1..Len(u), u[i] = u[j] PROVE i = j
    BY <1>2 DEF IsInjective
  <2>1. CASE i \in 1..Len(s) /\ j \in 1..Len(s)
    BY <1>1, <1>2, <1>7, <2>1 DEF IsInjective
  <2>2. ASSUME NEW k \in 1..Len(t), NEW l \in 1..Len(t), i = k + Len(s), j = l + Len(s) PROVE i = j
    <3>1. t[k] = t[l]
      BY <1>1, <2>2
    <3> QED
      BY <1>2, <1>7, <2>2, <3>1 DEF IsInjective
  <2>3. ASSUME NEW k \in 1..Len(s), NEW l \in 1..Len(t), u[k] = u[l + Len(s)] PROVE FALSE
    <3>1. s[k] = t[l]
      BY <1>1, <2>3
    <3>2. s[k] \in ToSet(s) /\ t[l] \in ToSet(t)
      BY <1>2 DEF ToSet
    <3> QED
      BY <1>7, <3>1, <3>2
  <2> QED
    BY <1>3, <2>1, <2>2, <2>3
<1> QED
  BY <1>1, <1>6, <1>7 DEF u

LEMMA ConcatParts ==
    ASSUME NEW T, NEW x \in Seq(T), NEW y \in Seq(T), IsInjective(x \o y)
    PROVE  IsInjective(x) /\ IsInjective(y) /\ ToSet(x) \cap ToSet(y) = {}
<1> DEFINE u == x \o y
<1>1. /\ u \in Seq(T) /\ Len(u) = Len(x) + Len(y)
      /\ \A i \in 1..Len(x) : u[i] = x[i]
      /\ \A i \in 1..Len(y) : u[i + Len(x)] = y[i]
  OBVIOUS
<1> HIDE DEF u
<1>2. DOMAIN u = 1..Len(u) /\ DOMAIN x = 1..Len(x) /\ DOMAIN y = 1..Len(y)
  BY <1>1
<1>3. \A i, j \in 1..Len(u) : u[i] = u[j] => i = j
  BY <1>2 DEF IsInjective, u
<1>4. (\A i \in 1..Len(x) : i \in 1..Len(u)) /\ (\A j \in 1..Len(y) : j + Len(x) \in 1..Len(u))
  BY <1>1
<1>5. IsInjective(x)
  BY <1>1, <1>2, <1>3, <1>4 DEF IsInjective
<1>6. IsInjective(y)
  <2> SUFFICES ASSUME NEW i \in 1..Len(y), NEW j \in 1..Len(y), y[i] = y[j] PROVE i = j
    BY <1>2 DEF IsInjective
  <2>1. i + Len(x) = j + Len(x)
    BY <1>1, <1>3, <1>4
  <2> QED
    BY <2>1
<1>7. ASSUME NEW i \in 1..Len(x), NEW j \in 1..Len(y), x[i] = y[j] PROVE FALSE
  <2>1. i = j + Len(x)
    BY <1>1, <1>3, <1>4, <1>7
  <2> QED
    BY <2>1
<1>8. ToSet(x) \cap ToSet(y) = {}
  BY <1>2, <1>7 DEF ToSet
<1> QED
  BY <1>5, <1>6, <1>8

LEMMA ConcatInjective ==
    ASSUME NEW s \in Seq(Node), NEW t \in Seq(Node), IsInjective(s), IsInjective(t),
           ToSet(s) \cap ToSet(t) = {}
    PROVE  IsInjective(s \o t)
BY ConcatSet

(* Taking out of a row, putting at the end of one, and changing the order of one *)
Taking(rows, less, p, S) ==
    /\ less \in [Place -> Seq(Node)]
    /\ \A q \in Place : less[q] = IF q = p THEN Without(rows[q], S) ELSE rows[q]

Putting(rows, more, p, n) ==
    /\ more \in [Place -> Seq(Node)]
    /\ \A q \in Place : more[q] = IF q = p THEN Append(rows[q], n) ELSE rows[q]

Ordering(rows, new, p, row) ==
    /\ new \in [Place -> Seq(Node)]
    /\ \A q \in Place : new[q] = IF q = p THEN row ELSE rows[q]

(* Each of them keeps a forest a forest, and changes the sets of rows as   *)
(* one would expect.                                                       *)
LEMMA TakingOut ==
    ASSUME NEW rows, Forest(rows), NEW p, NEW S,
           NEW less, Taking(rows, less, p, S)
    PROVE  /\ Forest(less)
           /\ \A q \in Place : ToSet(less[q]) = IF q = p THEN ToSet(rows[q]) \ S ELSE ToSet(rows[q])
<1>0. less \in [Place -> Seq(Node)] /\ \A q \in Place : less[q] = IF q = p THEN Without(rows[q], S) ELSE rows[q]
  BY DEF Taking
<1>1. \A q \in Place : rows[q] \in Seq(Node) /\ IsInjective(rows[q])
  BY DEF Forest
<1>2. \A q \in Place : /\ Without(rows[q], S) \in Seq(Node)
                       /\ ToSet(Without(rows[q], S)) = ToSet(rows[q]) \ S
                       /\ IsInjective(Without(rows[q], S))
  BY <1>1, WithoutRange, WithoutInjective
<1>5. \A q \in Place : /\ less[q] \in Seq(Node) /\ IsInjective(less[q])
                       /\ ToSet(less[q]) = IF q = p THEN ToSet(rows[q]) \ S ELSE ToSet(rows[q])
  BY <1>0, <1>1, <1>2
<1>7. \A q, r \in Place : q # r => ToSet(rows[q]) \cap ToSet(rows[r]) = {}
  BY DEF Forest
<1>8. \A q, r \in Place : q # r => ToSet(less[q]) \cap ToSet(less[r]) = {}
  BY <1>5, <1>7
<1>9. Forest(less)
  BY <1>0, <1>5, <1>8 DEF Forest
<1> QED
  BY <1>5, <1>9

LEMMA PuttingIn ==
    ASSUME NEW rows, Forest(rows), NEW p \in Place, NEW n \in Node, \A q \in Place : n \notin ToSet(rows[q]),
           NEW more, Putting(rows, more, p, n)
    PROVE  /\ Forest(more)
           /\ \A q \in Place : ToSet(more[q]) = IF q = p THEN ToSet(rows[q]) \cup {n} ELSE ToSet(rows[q])
<1>0. more \in [Place -> Seq(Node)] /\ \A q \in Place : more[q] = IF q = p THEN Append(rows[q], n) ELSE rows[q]
  BY DEF Putting
<1>1. \A q \in Place : rows[q] \in Seq(Node) /\ IsInjective(rows[q])
  BY DEF Forest
<1>2. /\ Append(rows[p], n) \in Seq(Node)
      /\ ToSet(Append(rows[p], n)) = ToSet(rows[p]) \cup {n}
      /\ IsInjective(Append(rows[p], n))
  BY <1>1, AppendSet
<1>5. \A q \in Place : /\ more[q] \in Seq(Node) /\ IsInjective(more[q])
                       /\ ToSet(more[q]) = IF q = p THEN ToSet(rows[q]) \cup {n} ELSE ToSet(rows[q])
  BY <1>0, <1>1, <1>2
<1>7. \A q, r \in Place : q # r => ToSet(rows[q]) \cap ToSet(rows[r]) = {}
  BY DEF Forest
<1>8. \A q, r \in Place : q # r => ToSet(more[q]) \cap ToSet(more[r]) = {}
  <2> SUFFICES ASSUME NEW q \in Place, NEW r \in Place, q # r PROVE ToSet(more[q]) \cap ToSet(more[r]) = {}
    OBVIOUS
  <2>1. ToSet(rows[q]) \cap ToSet(rows[r]) = {} /\ n \notin ToSet(rows[q]) /\ n \notin ToSet(rows[r])
    BY <1>7
  <2>2. /\ ToSet(more[q]) = IF q = p THEN ToSet(rows[q]) \cup {n} ELSE ToSet(rows[q])
        /\ ToSet(more[r]) = IF r = p THEN ToSet(rows[r]) \cup {n} ELSE ToSet(rows[r])
    BY <1>5
  <2> QED
    BY <2>1, <2>2
<1>9. Forest(more)
  BY <1>0, <1>5, <1>8 DEF Forest
<1> QED
  BY <1>5, <1>9

LEMMA PuttingInOrder ==
    ASSUME NEW rows, Forest(rows), NEW p \in Place, NEW row \in Seq(Node), IsInjective(row), ToSet(row) = ToSet(rows[p]),
           NEW new, Ordering(rows, new, p, row)
    PROVE  /\ Forest(new)
           /\ \A q \in Place : ToSet(new[q]) = ToSet(rows[q])
<1>0. new \in [Place -> Seq(Node)] /\ \A q \in Place : new[q] = IF q = p THEN row ELSE rows[q]
  BY DEF Ordering
<1>1. \A q \in Place : rows[q] \in Seq(Node) /\ IsInjective(rows[q])
  BY DEF Forest
<1>2. \A q \in Place : rows[q] \in Seq(Node) /\ IsInjective(rows[q])
  BY <1>1
<1>5. \A q \in Place : /\ new[q] \in Seq(Node) /\ IsInjective(new[q])
                       /\ ToSet(new[q]) = ToSet(rows[q])
  BY <1>0, <1>1, <1>2
<1>7. \A q, r \in Place : q # r => ToSet(rows[q]) \cap ToSet(rows[r]) = {}
  BY DEF Forest
<1>8. \A q, r \in Place : q # r => ToSet(new[q]) \cap ToSet(new[r]) = {}
  BY <1>5, <1>7
<1>9. Forest(new)
  BY <1>0, <1>5, <1>8 DEF Forest
<1> QED
  BY <1>5, <1>9

(* The parent of a node is the one place it is below.                      *)
LEMMA ParentIs ==
    ASSUME Forest(kids), NEW p \in Place, NEW n \in ToSet(kids[p])
    PROVE  Parent(n) = p /\ \A q \in Place : n \in ToSet(kids[q]) => q = p
<1>1. \A q \in Place : n \in ToSet(kids[q]) => q = p
  BY DEF Forest
<1>2. \A q \in Place : Contains(kids[q], n) <=> n \in ToSet(kids[q])
  BY ToSetIs DEF Forest
<1> QED
  BY <1>1, <1>2 DEF Parent

(* A move takes a node out of its row and puts it at the end of another.   *)
LEMMA Moved ==
    ASSUME Forest(kids), NEW n \in Node, NEW p \in Place, MoveCategory(n, p)
    PROVE  /\ Forest(kids')
           /\ \A q \in Place : kids'[q] = IF q = p THEN Append(Without(kids[q], {n}), n)
                                          ELSE Without(kids[q], {n})
           /\ \A q \in Place : ToSet(kids'[q]) = IF q = p THEN ToSet(kids[q]) \cup {n}
                                                 ELSE ToSet(kids[q]) \ {n}
<1> DEFINE at   == Parent(n)
           less == [kids EXCEPT ![at] = Without(@, {n})]
           more == [less EXCEPT ![p] = Append(@, n)]
<1>1. kids' = more
  BY DEF MoveCategory
<1>2. kids \in [Place -> Seq(Node)]
  BY DEF Forest
<1>3. \A q \in Place : n \in ToSet(kids[q]) => q = at
  BY ParentIs
<1> HIDE DEF at
<1>4. \A q \in Place : Without(kids[q], {n}) \in Seq(Node) /\ ToSet(Without(kids[q], {n})) = ToSet(kids[q]) \ {n}
  BY <1>2, WithoutRange
<1>5. less \in [Place -> Seq(Node)] /\ \A q \in Place : less[q] = IF q = at THEN Without(kids[q], {n}) ELSE kids[q]
  BY <1>2, <1>4
<1> HIDE DEF less
<1>6. Forest(less)
  <2>1. Taking(kids, less, at, {n})
    BY <1>5 DEF Taking
  <2> QED
    BY <2>1, TakingOut
<1>7. \A q \in Place : ToSet(less[q]) = ToSet(kids[q]) \ {n} /\ less[q] = Without(kids[q], {n})
  <2> SUFFICES ASSUME NEW q \in Place, q # at
               PROVE  ToSet(kids[q]) = ToSet(kids[q]) \ {n} /\ kids[q] = Without(kids[q], {n})
    BY <1>4, <1>5
  <2>1. n \notin ToSet(kids[q]) /\ kids[q] \in Seq(Node)
    BY <1>2, <1>3
  <2>2. ToSet(kids[q]) \cap {n} = {}
    BY <2>1
  <2> QED
    BY <2>1, <2>2, WithoutNone
<1>8. \A q \in Place : n \notin ToSet(less[q])
  BY <1>7
<1>9. Append(less[p], n) \in Seq(Node)
  BY <1>5
<1>10. more \in [Place -> Seq(Node)] /\ \A q \in Place : more[q] = IF q = p THEN Append(less[q], n) ELSE less[q]
  BY <1>5, <1>9
<1> HIDE DEF more
<1>11. /\ Forest(more)
       /\ \A q \in Place : ToSet(more[q]) = IF q = p THEN ToSet(less[q]) \cup {n} ELSE ToSet(less[q])
  <2>1. Putting(less, more, p, n)
    BY <1>10 DEF Putting
  <2>2. Forest(less)
    BY <1>6
  <2> QED
    BY <1>8, <2>1, <2>2, PuttingIn
<1>12. \A q \in Place : ToSet(more[q]) = IF q = p THEN ToSet(kids[q]) \cup {n} ELSE ToSet(kids[q]) \ {n}
  BY <1>7, <1>11
<1>13. \A q \in Place : more[q] = IF q = p THEN Append(Without(kids[q], {n}), n) ELSE Without(kids[q], {n})
  BY <1>7, <1>10
<1> QED
  BY <1>1, <1>11, <1>12, <1>13

-----------------------------------------------------------------------------
(* What a new node, a new row and a frame are                              *)

(* The id given out is not used.                                           *)
LEMMA Fresh ==
    ASSUME TreeInv, NEW n \in Node, n = 1 + Cardinality(Used)
    PROVE  /\ Used = 1..(n - 1) /\ Existing < n
           /\ n \notin Used /\ n \notin Existed /\ n \notin Created /\ copyOf[n] = NULL
           /\ \A p \in Place : n \notin ToSet(kids[p])
<1>1. PICK c \in Existing..MaxNode : Used = 1..c
  BY DEF TreeInv
<1>2. c \in Nat /\ Existing \in Nat /\ Existing <= c
  BY <1>1, BulkSizes
<1>3. Cardinality(1..c) = c
  BY <1>2, FS_Interval
<1>4. n = c + 1
  BY <1>1, <1>3
<1>5. n \notin Used /\ n \notin Existed /\ Used = 1..(n - 1) /\ Existing < n
  BY <1>1, <1>2, <1>4 DEF Existed
<1>6. n \notin Created
  BY <1>5 DEF TreeInv
<1> QED
  BY <1>5, <1>6 DEF TreeInv, Created

(* Used ids after it                                                       *)
LEMMA Added ==
    ASSUME Forest(kids), NEW p \in Place, NEW n \in Node, \A q \in Place : n \notin ToSet(kids[q])
    PROVE  kids' = [kids EXCEPT ![p] = Append(@, n)] =>
               /\ Forest(kids')
               /\ \A q \in Place : ToSet(kids'[q]) = IF q = p THEN ToSet(kids[q]) \cup {n} ELSE ToSet(kids[q])
<1>1. ASSUME kids' = [kids EXCEPT ![p] = Append(@, n)] PROVE Putting(kids, kids', p, n)
  <2>1. kids \in [Place -> Seq(Node)] /\ Append(kids[p], n) \in Seq(Node)
    BY DEF Forest
  <2> QED
    BY <1>1, <2>1 DEF Putting
<1>2. ASSUME Putting(kids, kids', p, n)
      PROVE  /\ Forest(kids')
             /\ \A q \in Place : ToSet(kids'[q]) = IF q = p THEN ToSet(kids[q]) \cup {n} ELSE ToSet(kids[q])
  <2>1. Forest(kids')
    BY <1>2, PuttingIn
  <2>2. \A q \in Place : /\ kids[q] \in Seq(Node)
                         /\ kids'[q] = IF q = p THEN Append(kids[q], n) ELSE kids[q]
    BY <1>2 DEF Putting, Forest
  <2>3. \A q \in Place : ToSet(Append(kids[q], n)) = ToSet(kids[q]) \cup {n}
    BY <2>2, AppendSet
  <2> QED
    BY <2>1, <2>2, <2>3
<1> QED
  BY <1>1, <1>2

(* What a new node changes                                                 *)
LEMMA NewNodeIs ==
    ASSUME TreeInv, NEW n, NEW src \in Node, NEW under \in Place, NewNode(n, src, under), label \in Names
    PROVE  /\ n \in Node /\ n \notin Used /\ n \notin Existed /\ n \notin Created /\ Existing < n
           /\ Used' = Used \cup {n} /\ Created' = Created \cup {n}
           /\ \A m \in Node : /\ name'[m] = IF m = n THEN label ELSE name[m]
                              /\ copyOf'[m] = IF m = n THEN src ELSE copyOf[m]
           /\ \A p \in Place : /\ n \notin ToSet(kids[p])
                               /\ kids'[p] = IF p = under THEN Append(kids[p], n) ELSE kids[p]
                               /\ ToSet(kids'[p]) = IF p = under THEN ToSet(kids[p]) \cup {n} ELSE ToSet(kids[p])
           /\ TreeInv'
<1>1. n \in Node /\ n = 1 + Cardinality(Used)
  BY DEF NewNode
<1>2. /\ Used = 1..(n - 1) /\ Existing < n
      /\ n \notin Used /\ n \notin Existed /\ n \notin Created /\ copyOf[n] = NULL
      /\ \A p \in Place : n \notin ToSet(kids[p])
  BY <1>1, Fresh
<1>3. \A m \in Node : /\ name'[m] = IF m = n THEN label ELSE name[m]
                      /\ copyOf'[m] = IF m = n THEN src ELSE copyOf[m]
  BY <1>1 DEF TreeInv, NewNode
<1>4. Used' = Used \cup {n} /\ Created' = Created \cup {n}
  <2>1. label # NULL /\ src # NULL
    BY BulkSizes
  <2> QED
    BY <1>1, <1>3, <2>1 DEF Used, Created
<1>5. kids' = [kids EXCEPT ![under] = Append(@, n)]
  BY DEF NewNode
<1>6. /\ Forest(kids')
      /\ \A p \in Place : ToSet(kids'[p]) = IF p = under THEN ToSet(kids[p]) \cup {n} ELSE ToSet(kids[p])
  <2>1. Forest(kids)
    BY DEF TreeInv
  <2>2. n \in Node /\ \A q \in Place : n \notin ToSet(kids[q])
    BY <1>1, <1>2
  <2> QED
    BY <1>5, <2>1, <2>2, Added
<1>7. \A p \in Place : kids'[p] = IF p = under THEN Append(kids[p], n) ELSE kids[p]
  BY <1>5 DEF TreeInv, Forest
<1>8. TreeInv'
  <2>1. name' \in [Node -> Names \cup {NULL}] /\ copyOf' \in [Node -> Node \cup {NULL}]
    BY DEF TreeInv, NewNode
  <2>2. Used' = 1..n /\ n \in Existing..MaxNode
    <3>1. n \in Nat \ {0} /\ n <= MaxNode
      BY <1>1, BulkSizes DEF Node
    <3>2. Used' = (1..(n - 1)) \cup {n}
      BY <1>2, <1>4
    <3> QED
      BY <1>2, <3>1, <3>2, BulkSizes
  <2>3. \A p \in Place : ToSet(kids'[p]) \subseteq Used'
    BY <1>4, <1>6 DEF TreeInv
  <2>4. Created' \subseteq Used' \ Existed
    BY <1>2, <1>4 DEF TreeInv
  <2> QED
    BY <1>6, <2>1, <2>2, <2>3, <2>4 DEF TreeInv
<1> QED
  BY <1>1, <1>2, <1>3, <1>4, <1>6, <1>7, <1>8

(* A change of the order or of the place of nodes                          *)
LEMMA RowsChange ==
    ASSUME TreeInv, Forest(kids'), UNCHANGED <<name, copyOf>>,
           \A p \in Place : ToSet(kids'[p]) \subseteq Used
    PROVE  TreeInv'
BY DEF TreeInv, Used, Created

LEMMA TreeStays == ASSUME TreeInv, UNCHANGED <<tree, copyOf>> PROVE TreeInv'
BY DEF TreeInv, Used, Created, tree, Forest

(* The frame on top                                                        *)
LEMMA TopFrame ==
    ASSUME TreeInv, RequestInv, FramesInv, step \in {"fetch", "create", "list"}
    PROVE  /\ todo \in Seq(Frame) /\ todo # <<>> /\ Len(todo) >= 1
           /\ Head(todo) = todo[1] /\ todo[1].src \in Used /\ todo[1].src \in Node /\ todo[1].under \in Place
           /\ Tail(todo) \in Seq(Frame) /\ Len(Tail(todo)) = Len(todo) - 1
           /\ \A i \in 1..(Len(todo) - 1) : Tail(todo)[i] = todo[i + 1]
           /\ request.kind = "copy" /\ request \in Requests /\ step # "idle"
<1>1. todo \in Seq(Frame) /\ todo # <<>> /\ \A i \in DOMAIN todo : todo[i].src \in Used
  BY DEF FramesInv, CopyingInv, MadeInv, Copying
<1>2. Len(todo) >= 1 /\ Head(todo) = todo[1] /\ todo[1] \in Frame
  BY <1>1
<1>3. /\ Tail(todo) \in Seq(Frame) /\ Len(Tail(todo)) = Len(todo) - 1
      /\ \A i \in 1..(Len(todo) - 1) : Tail(todo)[i] = todo[i + 1]
  BY <1>1
<1>4. request.kind = "copy" /\ request \in Requests /\ step # "idle"
  BY DEF RequestInv
<1> QED
  BY <1>1, <1>2, <1>3, <1>4 DEF Frame

(* What a request asks for                                                 *)
LEMMA RequestIs ==
    ASSUME NEW r \in Requests
    PROVE  /\ r.kind \in {"copy", "move"} /\ r.sources \in Seq(Existed) /\ r.sources # <<>>
           /\ r.sources \in Seq(Node) /\ IsInjective(r.sources) /\ Len(r.sources) \in 1..MaxSources
           /\ r.target \in {Root} \cup Existed /\ r.target \in Place
           /\ \/ r.anchor = NULL /\ r.side = NULL
              \/ r.anchor \in Existed /\ r.side \in {"before", "after"}
<1> DEFINE sources == {s \in BoundedSeq(Existed, MaxSources) : s # <<>> /\ IsInjective(s)}
           places  == {<<NULL, NULL>>} \cup (Existed \X {"before", "after"})
<1>1. PICK k \in {"copy", "move"}, s \in sources, t \in {Root} \cup Existed, a \in places :
        r = [kind |-> k, sources |-> s, target |-> t, anchor |-> a[1], side |-> a[2]]
  <2>1. r \in {[kind |-> k, sources |-> s, target |-> t, anchor |-> a[1], side |-> a[2]] :
                 k \in {"copy", "move"}, s \in sources, t \in {Root} \cup Existed, a \in places}
    BY DEF Requests
  <2> HIDE DEF sources, places
  <2> QED
    BY <2>1
<1>2. s \in Seq(Existed) /\ s \in Seq(Node) /\ Len(s) \in 0..MaxSources
  <2>1. PICK m \in 0..MaxSources : s \in [1..m -> Existed]
    BY DEF BoundedSeq, SeqOf
  <2>2. m \in Nat /\ Existed \subseteq Node
    BY BulkSizes
  <2> QED
    BY <2>1, <2>2
<1>3. Len(s) \in 1..MaxSources
  BY <1>1, <1>2, BulkSizes
<1> QED
  BY <1>1, <1>2, <1>3, BulkSizes

-----------------------------------------------------------------------------
(* What is put next to the anchor                                          *)

(* Searching a row finds the first place.                                  *)
LEMMA SmallestOf ==
    ASSUME NEW T \in SUBSET Nat, T # {}
    PROVE  Min(T) \in T /\ \A y \in T : Min(T) <= y
<1>1. PICK x \in T : \A y \in T : ~(<<y, x>> \in OpToRel(<, Nat))
  BY NatLessThanWellFounded, WFMin, Zenon
<1>2. \A y \in T : ~(y < x)
  BY <1>1 DEF OpToRel
<1>3. \E z \in T : \A y \in T : z <= y
  BY <1>2
<1> QED
  BY <1>3 DEF Min

(* A row is cut in two.                                                    *)
LEMMA SplitAt ==
    ASSUME NEW T, NEW s \in Seq(T), NEW i \in 0..Len(s)
    PROVE  /\ SubSeq(s, 1, i) \in Seq(T) /\ SubSeq(s, i + 1, Len(s)) \in Seq(T)
           /\ Len(SubSeq(s, 1, i)) = i /\ Len(SubSeq(s, i + 1, Len(s))) = Len(s) - i
           /\ \A j \in 1..i : SubSeq(s, 1, i)[j] = s[j]
           /\ \A j \in 1..(Len(s) - i) : SubSeq(s, i + 1, Len(s))[j] = s[i + j]
           /\ SubSeq(s, 1, i) \o SubSeq(s, i + 1, Len(s)) = s
<1> DEFINE x == SubSeq(s, 1, i)
           y == SubSeq(s, i + 1, Len(s))
<1>1. x \in Seq(T) /\ Len(x) = i /\ \A j \in 1..i : x[j] = s[j]
  OBVIOUS
<1>2. y \in Seq(T) /\ Len(y) = Len(s) - i /\ \A j \in 1..(Len(s) - i) : y[j] = s[i + j]
  OBVIOUS
<1> HIDE DEF x, y
<1>3. x \o y \in Seq(T) /\ Len(x \o y) = Len(s)
  BY <1>1, <1>2
<1>4. \A j \in 1..Len(s) : (x \o y)[j] = s[j]
  <2> SUFFICES ASSUME NEW j \in 1..Len(s) PROVE (x \o y)[j] = s[j]
    OBVIOUS
  <2>0. j \in Nat /\ i \in Nat
    OBVIOUS
  <2>1. CASE j <= i
    <3>1. j \in 1..i /\ j \in 1..Len(x)
      BY <1>1, <2>1
    <3>2. (x \o y)[j] = x[j]
      BY <1>1, <1>2, <3>1
    <3> QED
      BY <1>1, <3>1, <3>2
  <2>2. CASE j > i
    <3>1. PICK k \in 1..(Len(s) - i) : j = i + k
      <4>1. j - i \in 1..(Len(s) - i) /\ j = i + (j - i)
        BY <2>2
      <4> QED
        BY <4>1
    <3>2. (x \o y)[i + k] = y[k]
      BY <1>1, <1>2
    <3> QED
      BY <1>2, <3>1, <3>2
  <2> QED
    <3>1. j <= i \/ j > i
      BY <2>0
    <3> QED
      BY <2>1, <2>2, <3>1, Zenon
<1>5. x \o y = s
  BY <1>3, <1>4, SeqEqual
<1> QED
  BY <1>1, <1>2, <1>5 DEF x, y

(* How many siblings come before what is put in                            *)
Gap(siblings) ==
    LET at == SelectInSeq(siblings, LAMBDA n : n = request.anchor) IN
    IF request.anchor = NULL THEN Len(siblings)
    ELSE IF request.side = "before" THEN at - 1 ELSE at

(* Inserted puts the items between the two parts of the siblings.          *)
LEMMA InsertedIs ==
    ASSUME request \in Requests, NEW siblings \in Seq(Node), NEW new \in Seq(Node),
           request.anchor = NULL \/ Contains(siblings, request.anchor)
    PROVE  /\ Gap(siblings) \in 0..Len(siblings)
           /\ Inserted(siblings, new) = SubSeq(siblings, 1, Gap(siblings)) \o new
                                          \o SubSeq(siblings, Gap(siblings) + 1, Len(siblings))
           /\ request.side = NULL => Gap(siblings) = Len(siblings)
           /\ request.side = "before" => /\ Gap(siblings) < Len(siblings)
                                         /\ siblings[Gap(siblings) + 1] = request.anchor
           /\ request.side = "after" => /\ Gap(siblings) > 0
                                        /\ siblings[Gap(siblings)] = request.anchor
           /\ request.side \in {NULL, "before", "after"}
<1>0. \/ request.anchor = NULL /\ request.side = NULL
      \/ request.anchor # NULL /\ request.side # NULL /\ request.side \in {"before", "after"}
  BY RequestIs, BulkSizes
<1>1. CASE request.anchor = NULL
  <2>1. Gap(siblings) = Len(siblings)
    BY <1>1 DEF Gap
  <2>2. /\ SubSeq(siblings, 1, Len(siblings)) = siblings
        /\ SubSeq(siblings, Len(siblings) + 1, Len(siblings)) = <<>>
    OBVIOUS
  <2>3. siblings \o new \o <<>> = siblings \o new
    OBVIOUS
  <2>4. Inserted(siblings, new) = siblings \o new
    BY <1>1 DEF Inserted
  <2>5. request.side # "before" /\ request.side # "after"
    BY <1>0, <1>1, BulkSizes
  <2>6. Gap(siblings) \in 0..Len(siblings)
    BY <2>1
  <2> QED
    BY <1>0, <1>1, <2>1, <2>2, <2>3, <2>4, <2>5, <2>6
<1>2. CASE request.anchor # NULL
  <2> DEFINE I  == {i \in 1..Len(siblings) : siblings[i] = request.anchor}
             at == Min(I)
             i  == IF request.side = "before" THEN at - 1 ELSE at
  <2>1. I # {} /\ I \in SUBSET Nat
    BY <1>2 DEF Contains
  <2>2. at \in I
    BY <2>1, SmallestOf
  <2>3. SelectInSeq(siblings, LAMBDA n : n = request.anchor) = at
    BY <2>1 DEF SelectInSeq
  <2>4. at \in 1..Len(siblings) /\ siblings[at] = request.anchor
    BY <2>2
  <2> HIDE DEF at, I
  <2>5. i \in 0..Len(siblings) /\ i = Gap(siblings)
    BY <1>2, <2>3, <2>4 DEF Gap
  <2>6. Inserted(siblings, new) = SubSeq(siblings, 1, i) \o new \o SubSeq(siblings, i + 1, Len(siblings))
    BY <1>2, <2>3 DEF Inserted
  <2>7. request.side = "before" => i < Len(siblings) /\ siblings[i + 1] = request.anchor
    BY <2>4
  <2>8. request.side = "after" => i > 0 /\ siblings[i] = request.anchor
    BY <2>4
  <2> HIDE DEF i
  <2> QED
    BY <1>0, <1>2, <2>5, <2>6, <2>7, <2>8
<1> QED
  BY <1>1, <1>2

(* What is put in order at the end                                         *)
LEMMA ItemsAre ==
    ASSUME TreeInv, RequestInv, BeforeInv, FramesInv, MoveInv, step \in {"place", "reorder"}
    PROVE  /\ request \in Requests /\ Items \in Seq(Node) /\ IsInjective(Items) /\ Len(Items) >= 1
           /\ ToSet(Items) \subseteq ToSet(kids[request.target])
           /\ request.target \in Place
<1>1. request \in Requests
  BY DEF RequestInv
<1>2. /\ request.sources \in Seq(Node) /\ request.sources \in Seq(Existed) /\ IsInjective(request.sources) /\ Len(request.sources) >= 1
      /\ request.target \in Place /\ request.kind \in {"copy", "move"}
  BY <1>1, RequestIs, BulkSizes
<1>3. CASE request.kind = "copy"
  <2>1. /\ made \in Seq(Node) /\ IsInjective(made) /\ Len(made) = Len(request.sources)
        /\ kids[request.target] = before[request.target] \o made
    BY <1>3 DEF FramesInv, CopyingInv, MadeInv, Made, RequestInv
  <2>2. before[request.target] \in Seq(Node)
    BY <1>2 DEF BeforeInv, Forest
  <2>3. ToSet(made) \subseteq ToSet(kids[request.target])
    BY <2>1, <2>2, ConcatSet
  <2> QED
    BY <1>1, <1>2, <1>3, <2>1, <2>3 DEF Items
<1>4. CASE request.kind = "move"
  <2>1. /\ moved = Len(request.sources)
        /\ \A n \in Node : Here(n, n \in Gone(moved))
    BY <1>4 DEF MoveInv, MovingInv, Stand, Moving
  <2>2. \A i \in 1..Len(request.sources) : request.sources[i] \in ToSet(kids[request.target])
    <3> SUFFICES ASSUME NEW i \in 1..Len(request.sources) PROVE request.sources[i] \in ToSet(kids[request.target])
      OBVIOUS
    <3>1. request.sources[i] \in Node
      BY <1>2
    <3>2. request.sources[i] \in Gone(moved)
      BY <2>1 DEF Gone
    <3> QED
      BY <1>2, <2>1, <3>1, <3>2 DEF Here
  <2>3. ToSet(request.sources) \subseteq ToSet(kids[request.target])
    BY <1>2, <2>2 DEF ToSet
  <2> QED
    BY <1>1, <1>2, <1>4, <2>3, BulkSizes DEF Items
<1> QED
  BY <1>2, <1>3, <1>4

(* The new order has the nodes the row of the target had.                  *)
LEMMA OrderedIs ==
    ASSUME TreeInv, RequestInv, BeforeInv, FramesInv, MoveInv, PlaceInv, step = "reorder"
    PROVE  ordered \in Seq(Node) /\ IsInjective(ordered) /\ ToSet(ordered) = ToSet(kids[request.target])
<1>1. /\ request \in Requests /\ Items \in Seq(Node) /\ IsInjective(Items)
      /\ ToSet(Items) \subseteq ToSet(kids[request.target]) /\ request.target \in Place
  BY ItemsAre
<1>2. kids[request.target] \in Seq(Node) /\ IsInjective(kids[request.target])
  BY <1>1 DEF TreeInv, Forest
<1>3. /\ Siblings \in Seq(Node) /\ ToSet(Siblings) = ToSet(kids[request.target]) \ ToSet(Items)
      /\ IsInjective(Siblings)
  BY <1>2, WithoutRange, WithoutInjective DEF Siblings
<1>4. ordered = Inserted(Siblings, Items) /\ (request.anchor = NULL \/ Contains(Siblings, request.anchor))
  BY DEF PlaceInv, AnchorFound
<1> DEFINE g == Gap(Siblings)
           x == SubSeq(Siblings, 1, g)
           y == SubSeq(Siblings, g + 1, Len(Siblings))
<1>5. g \in 0..Len(Siblings) /\ ordered = x \o Items \o y
  BY <1>1, <1>3, <1>4, InsertedIs
<1>6. x \in Seq(Node) /\ y \in Seq(Node) /\ Siblings = x \o y
  <2> DEFINE sib == Siblings
             k   == Gap(Siblings)
  <2>1. sib \in Seq(Node) /\ k \in 0..Len(sib)
    BY <1>3, <1>5
  <2> HIDE DEF sib, k
  <2>2. /\ SubSeq(sib, 1, k) \in Seq(Node) /\ SubSeq(sib, k + 1, Len(sib)) \in Seq(Node)
        /\ sib = SubSeq(sib, 1, k) \o SubSeq(sib, k + 1, Len(sib))
    BY <2>1, SplitAt
  <2> QED
    BY <2>2 DEF sib, k
<1> HIDE DEF x, y, g
<1>7. ordered \in Seq(Node) /\ IsInjective(ordered) /\ ToSet(ordered) = ToSet(kids[request.target])
  <2>1. ordered = x \o Items \o y
    BY <1>5
  <2>2. ToSet(Siblings) = ToSet(x) \cup ToSet(y)
    BY <1>6, ConcatSet
  <2>3. IsInjective(x) /\ IsInjective(y) /\ ToSet(x) \cap ToSet(y) = {}
    BY <1>3, <1>6, ConcatParts
  <2>4. /\ x \o Items \in Seq(Node) /\ ToSet(x \o Items) = ToSet(x) \cup ToSet(Items)
        /\ IsInjective(x \o Items)
    <3>1. ToSet(x) \cap ToSet(Items) = {}
      BY <1>3, <2>2
    <3> QED
      BY <1>1, <1>6, <2>3, <3>1, ConcatSet, ConcatInjective
  <2>5. ToSet(x \o Items) \cap ToSet(y) = {}
    BY <1>3, <2>2, <2>3, <2>4
  <2>6. /\ ordered \in Seq(Node) /\ IsInjective(ordered)
        /\ ToSet(ordered) = ToSet(x \o Items) \cup ToSet(y)
    <3> DEFINE u == x \o Items
    <3>1. ordered = u \o y
      BY <2>1
    <3>2. u \in Seq(Node) /\ IsInjective(u) /\ ToSet(u) \cap ToSet(y) = {}
      BY <2>4, <2>5
    <3> HIDE DEF u
    <3>3. u \o y \in Seq(Node) /\ IsInjective(u \o y) /\ ToSet(u \o y) = ToSet(u) \cup ToSet(y)
      BY <1>6, <2>3, <3>2, ConcatSet, ConcatInjective
    <3> QED
      BY <3>1, <3>3 DEF u
  <2> QED
    BY <1>1, <1>3, <2>2, <2>4, <2>6
<1> QED
  BY <1>7

-----------------------------------------------------------------------------
(* The nodes the steps are about; the tree                                 *)

(* The name chosen is a name.                                              *)
LEMMA LabelIs ==
    ASSUME TreeInv, RequestInv, FramesInv, NamesInv, step = "create"
    PROVE  label \in Names /\ label \notin NamesOf(todo[1].under)
BY DEF NamesInv, Copying

(* The new node of a copy                                                  *)
LEMMA CreateIs ==
    ASSUME TreeInv, RequestInv, FramesInv, NamesInv, NEW n, CreateNode(n) \/ CreateLost(n)
    PROVE  /\ step = "create" /\ todo[1].src \in Node /\ todo[1].src \in Used /\ todo[1].under \in Place
           /\ n \in Node /\ n \notin Used /\ n \notin Existed /\ n \notin Created /\ Existing < n
           /\ Used' = Used \cup {n} /\ Created' = Created \cup {n}
           /\ \A m \in Node : /\ name'[m] = IF m = n THEN label ELSE name[m]
                              /\ copyOf'[m] = IF m = n THEN todo[1].src ELSE copyOf[m]
           /\ \A p \in Place : /\ n \notin ToSet(kids[p])
                               /\ kids'[p] = IF p = todo[1].under THEN Append(kids[p], n) ELSE kids[p]
                               /\ ToSet(kids'[p]) = IF p = todo[1].under THEN ToSet(kids[p]) \cup {n} ELSE ToSet(kids[p])
           /\ TreeInv'
<1> DEFINE src == todo[1].src
           under == todo[1].under
<1>1. step = "create"
  BY DEF CreateNode, CreateLost
<1>2. src \in Node /\ src \in Used /\ under \in Place /\ Head(todo) = todo[1]
  BY <1>1, TopFrame
<1>3. NewNode(n, src, under)
  BY <1>2 DEF CreateNode, CreateLost
<1> HIDE DEF src, under
<1>4. label \in Names
  BY <1>1, LabelIs
<1>5. /\ n \in Node /\ n \notin Used /\ n \notin Existed /\ n \notin Created /\ Existing < n
      /\ Used' = Used \cup {n} /\ Created' = Created \cup {n}
      /\ \A m \in Node : /\ name'[m] = IF m = n THEN label ELSE name[m]
                         /\ copyOf'[m] = IF m = n THEN src ELSE copyOf[m]
      /\ \A p \in Place : /\ n \notin ToSet(kids[p])
                          /\ kids'[p] = IF p = under THEN Append(kids[p], n) ELSE kids[p]
                          /\ ToSet(kids'[p]) = IF p = under THEN ToSet(kids[p]) \cup {n} ELSE ToSet(kids[p])
      /\ TreeInv'
  BY <1>2, <1>3, <1>4, NewNodeIs
<1> QED
  BY <1>1, <1>2, <1>5 DEF src, under

(* The node and the place of the next move                                 *)
LEMMA NextMoveIs ==
    ASSUME RequestInv, MoveInv, step = "move"
    PROVE  /\ request \in Requests /\ request.kind = "move" /\ moved \in Nat
           /\ moved + 1 \in 1..Len(request.sources) /\ request.sources[moved + 1] \in Existed
           /\ request.target \in Place /\ Len(request.sources) \in Nat
<1>1. request \in Requests /\ request.kind = "move" /\ moved \in Nat
  BY BulkSizes DEF RequestInv
<1>2. request.sources \in Seq(Existed) /\ request.target \in Place
  BY <1>1, RequestIs
<1>3. moved <= Len(request.sources) /\ moved # Len(request.sources)
  BY <1>1 DEF MoveInv, MovingInv, MovedBackInv, MoveRecord, Stand, Gone, Moving
<1> QED
  BY <1>1, <1>2, <1>3

(* And of the next one taken back                                          *)
LEMMA TopRecord ==
    ASSUME RequestInv, MoveInv, RollbackMoved
    PROVE  /\ step = "undo" /\ request.kind = "move" /\ request \in Requests
           /\ undo \in Seq([id : Existed, originalParent : Place])
           /\ undo # <<>> /\ Len(undo) >= 1 /\ Head(undo) = undo[1]
           /\ undo[1].id \in Existed /\ undo[1].originalParent \in Place
           /\ Len(Tail(undo)) = Len(undo) - 1 /\ Tail(undo) \in Seq([id : Existed, originalParent : Place])
           /\ \A i \in 1..(Len(undo) - 1) : Tail(undo)[i] = undo[i + 1]
           /\ ToSet(undo) = {undo[1]} \cup ToSet(Tail(undo))
<1>1. step = "undo" /\ request.kind = "move"
  BY DEF RollbackMoved
<1>2. request \in Requests /\ undo # <<>>
  BY <1>1 DEF RequestInv
<1>3. undo \in Seq([id : Existed, originalParent : Place])
  BY <1>1 DEF MoveInv, MovingInv, MovedBackInv, MoveRecord, Stand, Gone
<1>4. /\ Len(undo) >= 1 /\ Head(undo) = undo[1] /\ undo[1] \in [id : Existed, originalParent : Place]
      /\ Len(Tail(undo)) = Len(undo) - 1 /\ Tail(undo) \in Seq([id : Existed, originalParent : Place])
      /\ \A i \in 1..(Len(undo) - 1) : Tail(undo)[i] = undo[i + 1]
      /\ ToSet(undo) = {undo[1]} \cup ToSet(Tail(undo))
  BY <1>2, <1>3, HeadTail
<1>5. undo[1].id \in Existed /\ undo[1].originalParent \in Place
  BY <1>4
<1> QED
  BY <1>1, <1>2, <1>3, <1>4, <1>5

(* And of the next copy taken back                                         *)
LEMMA TopCreated ==
    ASSUME TreeInv, RequestInv, CopyUndoInv, FramesInv, RollbackCreated
    PROVE  /\ step = "undo" /\ request.kind = "copy" /\ request \in Requests
           /\ undo \in Seq(Node) /\ undo # <<>> /\ Head(undo) = undo[1] /\ undo[1] \in Created
           /\ undo[1] \in ToSet(made) /\ undo[1] \in Node
           /\ Tail(undo) \in Seq(Node) /\ ToSet(undo) = {undo[1]} \cup ToSet(Tail(undo))
<1>1. step = "undo" /\ request.kind = "copy"
  BY DEF RollbackCreated
<1>2. request \in Requests /\ undo # <<>>
  BY <1>1 DEF RequestInv
<1>3. undo \in Seq(Node) /\ ToSet(undo) \subseteq ToSet(made) /\ ToSet(made) \subseteq Created
  BY <1>1 DEF CopyUndoInv, FramesInv, CopyingInv, MadeInv
<1>4. /\ Len(undo) >= 1 /\ Head(undo) = undo[1] /\ undo[1] \in Node
      /\ Len(Tail(undo)) = Len(undo) - 1 /\ Tail(undo) \in Seq(Node)
      /\ \A i \in 1..(Len(undo) - 1) : Tail(undo)[i] = undo[i + 1]
      /\ ToSet(undo) = {undo[1]} \cup ToSet(Tail(undo))
  BY <1>2, <1>3, HeadTail
<1> QED
  BY <1>1, <1>2, <1>3, <1>4

-----------------------------------------------------------------------------
(* The tree before the request stays what it was.                          *)
LEMMA BeforeStep ==
    ASSUME TreeInv, RequestInv, FramesInv, NamesInv, BeforeInv, Next
    PROVE  BeforeInv' /\ before' = before /\ \A n \in Existed : name'[n] = name[n]
<1>1. before' = before /\ \A n \in Existed : name'[n] = name[n]
  <2>1. CASE UNCHANGED <<name, before>>
    BY <2>1
  <2>2. ASSUME NEW n \in Node, CreateNode(n) \/ CreateLost(n)
        PROVE  before' = before /\ \A m \in Existed : name'[m] = name[m]
    <3>1. before' = before
      BY <2>2 DEF CreateNode, CreateLost
    <3>2. n \notin Existed /\ \A m \in Node : name'[m] = IF m = n THEN label ELSE name[m]
      BY <2>2, CreateIs
    <3> QED
      BY <3>1, <3>2, BulkSizes
  <2>3. Next => UNCHANGED <<name, before>> \/ \E n \in Node : CreateNode(n) \/ CreateLost(n)
    BY DEF Next, Begin, FetchSource, ListChildren, Copied, CopyFails, FetchOrigins, MoveNext,
           MoveFails, MoveLost, FetchSiblings, Reorder, RollbackCreated, RollbackMoved, MoveCategory, tree
  <2> QED
    BY <2>1, <2>2, <2>3
<1>2. \A p \in Place : \A n \in ToSet(before[p]) : n \in Existed
  BY ToSetIs DEF BeforeInv
<1>3. BeforeInv'
  BY <1>1, <1>2 DEF BeforeInv, Forest
<1> QED
  BY <1>1, <1>3

(* The tree stays a forest, with ids given out in order.                   *)
LEMMA TreeStep ==
    ASSUME TreeInv, RequestInv, BeforeInv, FramesInv, NamesInv, CopyUndoInv, MoveInv, PlaceInv, Next
    PROVE  TreeInv'
<1>0. Forest(kids) /\ \A p \in Place : ToSet(kids[p]) \subseteq Used
  BY DEF TreeInv
<1>1. ASSUME UNCHANGED <<tree, copyOf>> PROVE TreeInv'
  BY <1>1, TreeStays
<1>2. ASSUME NEW n, CreateNode(n) \/ CreateLost(n) PROVE TreeInv'
  BY <1>2, CreateIs
<1>3. Existed \subseteq Used
  BY BulkSizes DEF TreeInv, Existed
<1>4. ASSUME NEW n \in Existed, NEW p \in Place, MoveCategory(n, p), UNCHANGED copyOf PROVE TreeInv'
  <2>1. /\ Forest(kids')
        /\ \A q \in Place : ToSet(kids'[q]) = IF q = p THEN ToSet(kids[q]) \cup {n} ELSE ToSet(kids[q]) \ {n}
    BY <1>0, <1>4, BulkSizes, Moved
  <2>2. \A q \in Place : ToSet(kids'[q]) \subseteq Used
    BY <1>0, <1>3, <2>1
  <2> QED
    BY <1>4, <2>1, <2>2, RowsChange DEF MoveCategory
<1>5. ASSUME MoveNext \/ MoveLost PROVE TreeInv'
  <2>1. step = "move"
    BY <1>5 DEF MoveNext, MoveLost
  <2>2. request.sources[moved + 1] \in Existed /\ request.target \in Place
    BY <2>1, NextMoveIs
  <2>3. MoveCategory(request.sources[moved + 1], request.target) /\ UNCHANGED copyOf
    BY <1>5 DEF MoveNext, MoveLost, copying
  <2> QED
    BY <1>4, <2>2, <2>3
<1>6. CASE RollbackMoved
  <2>1. undo[1].id \in Existed /\ undo[1].originalParent \in Place /\ Head(undo) = undo[1]
    BY <1>6, TopRecord
  <2>2. MoveCategory(undo[1].id, undo[1].originalParent) \/ UNCHANGED tree
    BY <1>6, <2>1 DEF RollbackMoved
  <2>3. UNCHANGED copyOf
    BY <1>6 DEF RollbackMoved, copying
  <2> QED
    BY <1>1, <1>4, <2>1, <2>2, <2>3
<1>7. CASE Reorder
  <2>1. step = "reorder" /\ UNCHANGED <<name, copyOf>>
    BY <1>7 DEF Reorder, copying
  <2>2. kids' = kids \/ kids' = [kids EXCEPT ![request.target] = ordered]
    BY <1>7 DEF Reorder
  <2>3. CASE kids' = kids
    BY <1>1, <2>1, <2>3 DEF tree
  <2>4. CASE kids' = [kids EXCEPT ![request.target] = ordered]
    <3>1. ordered \in Seq(Node) /\ IsInjective(ordered) /\ ToSet(ordered) = ToSet(kids[request.target])
      BY <2>1, OrderedIs
    <3>2. request.target \in Place
      BY <2>1, ItemsAre
    <3>3. Forest(kids') /\ \A q \in Place : ToSet(kids'[q]) = ToSet(kids[q])
      <4>1. Ordering(kids, kids', request.target, ordered)
        BY <1>0, <2>4, <3>1, <3>2 DEF Ordering, Forest
      <4> QED
        BY <1>0, <3>1, <3>2, <4>1, PuttingInOrder
    <3> QED
      BY <1>0, <2>1, <3>3, RowsChange
  <2> QED
    BY <2>2, <2>3, <2>4
<1>8. CASE RollbackCreated
  <2>1. UNCHANGED <<name, copyOf>>
    BY <1>8 DEF RollbackCreated, copying
  <2>2. kids' = kids \/ \E p : kids' = [kids EXCEPT ![p] = Without(@, {Head(undo)})]
    BY <1>8 DEF RollbackCreated, DeleteCategory
  <2>3. CASE kids' = kids
    BY <1>1, <2>1, <2>3 DEF tree
  <2>4. ASSUME NEW p, kids' = [kids EXCEPT ![p] = Without(@, {Head(undo)})] PROVE TreeInv'
    <3> DEFINE S == {Head(undo)}
    <3> HIDE DEF S
    <3>1. kids' = [kids EXCEPT ![p] = Without(@, S)]
      BY <2>4 DEF S
    <3>2. /\ Forest(kids')
          /\ \A q \in Place : ToSet(kids'[q]) = IF q = p THEN ToSet(kids[q]) \ S ELSE ToSet(kids[q])
      <4>1. kids \in [Place -> Seq(Node)] /\ \A q \in Place : Without(kids[q], S) \in Seq(Node)
        BY <1>0, WithoutRange DEF Forest
      <4>2. Taking(kids, kids', p, S)
        BY <3>1, <4>1 DEF Taking
      <4> QED
        BY <1>0, <4>2, TakingOut
    <3>3. \A q \in Place : ToSet(kids'[q]) \subseteq Used
      BY <1>0, <3>2
    <3> QED
      BY <2>1, <3>2, <3>3, RowsChange
  <2> QED
    BY <2>2, <2>3, <2>4
<1>9. ASSUME \/ \E r \in Requests : Begin(r)
             \/ FetchSource \/ ListChildren \/ Copied \/ CopyFails \/ FetchOrigins \/ MoveFails
             \/ FetchSiblings
      PROVE  UNCHANGED <<tree, copyOf>>
  BY <1>9 DEF Begin, FetchSource, ListChildren, Copied, CopyFails, FetchOrigins, MoveFails, FetchSiblings,
              copying
<1> QED
  BY <1>1, <1>2, <1>5, <1>6, <1>7, <1>8, <1>9 DEF Next

-----------------------------------------------------------------------------
(* The request                                                             *)

(* The parts of the invariant                                              *)
LEMMA Parts ==
    ASSUME BulkInv
    PROVE  /\ BeforeInv /\ TreeInv /\ RequestInv /\ FramesInv /\ NamesInv /\ CopyInv
           /\ CopyUndoInv /\ MoveInv /\ PlaceInv
BY DEF BulkInv

(* Rolling back ends when no record is left.                               *)
LEMMA RollsBack ==
    ASSUME NEW records, RollBack(records)
    PROVE  /\ step' \in {"failed", "undo"} /\ (step' = "undo" <=> undo' # <<>>) /\ undo' = records
BY DEF RollBack

(* A request goes from step to step.                                       *)
LEMMA RequestStep ==
    ASSUME BulkInv, Next
    PROVE  RequestInv'
<1>0. BeforeInv /\ TreeInv /\ RequestInv /\ FramesInv /\ NamesInv /\ MoveInv
  BY Parts
<1>1. ASSUME NEW r \in Requests, Begin(r) PROVE RequestInv'
  <2>1. step = "idle" /\ request.kind # "copy" /\ Created' = Created
    BY <1>0, <1>1, BulkSizes DEF Begin, RequestInv, Idle, Created
  <2>2. step' \in {"fetch", "origins"} /\ request' = r /\ (step' = "fetch" <=> r.kind = "copy")
    BY <1>1 DEF Begin
  <2>3. r.kind \in {"copy", "move"}
    BY RequestIs
  <2> QED
    BY <1>0, <1>1, <2>1, <2>2, <2>3 DEF Begin, RequestInv, moving
<1>2. CASE FetchSource
  BY <1>0, <1>2 DEF FetchSource, RequestInv, moving, Created
<1>3. CASE ListChildren
  BY <1>0, <1>3 DEF ListChildren, RequestInv, moving, Created
<1>4. CASE Copied
  <2>1. root \in Node /\ step = "copied" /\ request.kind = "copy"
    BY <1>0, <1>4 DEF Copied, RequestInv, FramesInv, CopyingInv, MadeInv, Copying
  <2>2. made' \in Seq(Node) /\ root' = NULL /\ step' \in {"fetch", "ok", "place"}
    BY <1>0, <1>4, <2>1 DEF Copied, RequestInv
  <2> QED
    BY <1>0, <1>4, <2>1, <2>2 DEF Copied, RequestInv, moving
<1>5. CASE CopyFails
  <2>1. step \in {"fetch", "create", "list"} /\ RollBack(made)
    BY <1>5 DEF CopyFails, GiveUpCopy
  <2>2. request.kind = "copy"
    BY <1>0, <2>1 DEF RequestInv
  <2> QED
    BY <1>0, <1>5, <2>1, <2>2, RollsBack DEF CopyFails, GiveUpCopy, RequestInv, moving
<1>6. ASSUME NEW n \in Node, CreateNode(n) PROVE RequestInv'
  BY <1>0, <1>6 DEF CreateNode, RequestInv, moving
<1>7. ASSUME NEW n \in Node, CreateLost(n) PROVE RequestInv'
  <2>1. step = "create" /\ RollBack(made) /\ request.kind = "copy"
    BY <1>0, <1>7 DEF CreateLost, GiveUpCopy, RequestInv
  <2> QED
    BY <1>0, <1>7, <2>1, RollsBack DEF CreateLost, GiveUpCopy, RequestInv, moving
<1>8. CASE FetchOrigins
  BY <1>0, <1>8 DEF FetchOrigins, RequestInv, copying, Created
<1>9. CASE MoveNext \/ MoveLost \/ MoveFails
  <2>1. step = "move" /\ request.kind = "move" /\ moved + 1 \in 1..MaxSources /\ moved \in Nat
    <3>1. step = "move"
      BY <1>9 DEF MoveNext, MoveLost, MoveFails
    <3> QED
      BY <1>0, <3>1, NextMoveIs, RequestIs, BulkSizes
  <2>2. CASE MoveNext
    BY <1>0, <2>1, <2>2 DEF MoveNext, RequestInv, copying, Created
  <2>3. CASE MoveLost \/ MoveFails
    <3>1. RollBack(Records(moved))
      BY <2>3 DEF MoveLost, MoveFails
    <3> QED
      BY <1>0, <2>1, <2>3, <3>1, RollsBack DEF MoveLost, MoveFails, RequestInv, copying, moving, Created
  <2> QED
    BY <1>9, <2>2, <2>3
<1>10. CASE FetchSiblings
  <2>1. CASE step' = "reorder"
    BY <1>0, <1>10, <2>1 DEF FetchSiblings, RequestInv, RollBack, copying, moving, Created
  <2>2. ASSUME NEW records, RollBack(records) PROVE RequestInv'
    BY <1>0, <1>10, <2>2, RollsBack DEF FetchSiblings, RequestInv, copying, moving, Created
  <2> QED
    BY <1>10, <2>1, <2>2 DEF FetchSiblings
<1>11. CASE Reorder
  BY <1>0, <1>11 DEF Reorder, RequestInv, copying, moving, Created
<1>12. CASE RollbackCreated
  <2>1. RollBack(Tail(undo)) /\ spoiled' \in BOOLEAN /\ step = "undo" /\ request.kind = "copy"
    BY <1>0, <1>12 DEF RollbackCreated, RequestInv
  <2> QED
    BY <1>0, <1>12, <2>1, RollsBack DEF RollbackCreated, RequestInv, copying, moving, Created
<1>13. CASE RollbackMoved
  <2>1. RollBack(Tail(undo)) /\ step = "undo" /\ request.kind = "move"
    BY <1>13 DEF RollbackMoved
  <2>2. spoiled' \in BOOLEAN
    BY <1>0, <1>13 DEF RollbackMoved, RequestInv, Below
  <2> QED
    BY <1>0, <1>13, <2>1, <2>2, RollsBack DEF RollbackMoved, RequestInv, copying, moving, Created
<1> QED
  BY <1>1, <1>2, <1>3, <1>4, <1>5, <1>6, <1>7, <1>8, <1>9, <1>10, <1>11, <1>12, <1>13 DEF Next

-----------------------------------------------------------------------------
(* Names of siblings                                                       *)

(* A deletion takes a node out of its row, and out of no other.            *)
LEMMA Deleted ==
    ASSUME TreeInv, RequestInv, CopyUndoInv, FramesInv, RollbackCreated
    PROVE  \/ kids' = kids
           \/ /\ kids[undo[1]] = <<>> /\ UNCHANGED spoiled
              /\ \A q \in Place : /\ kids'[q] = Without(kids[q], {undo[1]})
                                  /\ ToSet(kids'[q]) = ToSet(kids[q]) \ {undo[1]}
<1> DEFINE u  == undo[1]
           at == Parent(u)
<1>1. Head(undo) = u
  BY TopCreated
<1> HIDE DEF u
<1>2. \/ kids' = kids
      \/ kids[u] = <<>> /\ kids' = [kids EXCEPT ![at] = Without(@, {u})] /\ UNCHANGED spoiled
  <2>1. kids' = kids \/ (DeleteCategory(Head(undo)) /\ UNCHANGED spoiled)
    BY DEF RollbackCreated
  <2>2. kids' = kids \/ (DeleteCategory(u) /\ UNCHANGED spoiled)
    BY <1>1, <2>1
  <2>3. DeleteCategory(u) => kids[u] = <<>> /\ kids' = [kids EXCEPT ![at] = Without(@, {u})]
    BY Zenon DEF DeleteCategory
  <2> QED
    BY <2>2, <2>3
<1>3. Forest(kids)
  BY DEF TreeInv
<1>4. kids \in [Place -> Seq(Node)]
  BY <1>3 DEF Forest
<1>5. \A q \in Place : u \in ToSet(kids[q]) => q = at
  BY <1>3, ParentIs
<1> HIDE DEF at
<1>6. \A q \in Place : ToSet(Without(kids[q], {u})) = ToSet(kids[q]) \ {u}
  BY <1>4, WithoutRange
<1>7. ASSUME kids' = [kids EXCEPT ![at] = Without(@, {u})]
      PROVE  \A q \in Place : kids'[q] = Without(kids[q], {u})
  <2> SUFFICES ASSUME NEW q \in Place, q # at PROVE kids[q] = Without(kids[q], {u})
    BY <1>4, <1>7
  <2>1. kids[q] \in Seq(Node) /\ ToSet(kids[q]) \cap {u} = {}
    BY <1>4, <1>5
  <2> QED
    BY <2>1, WithoutNone
<1>8. CASE kids' = kids
  BY <1>8
<1>9. CASE kids[u] = <<>> /\ kids' = [kids EXCEPT ![at] = Without(@, {u})] /\ UNCHANGED spoiled
  BY <1>6, <1>7, <1>9 DEF u
<1> QED
  BY <1>2, <1>8, <1>9

(* The new order of a row has the nodes the row had.                       *)
LEMMA Reordered ==
    ASSUME TreeInv, RequestInv, BeforeInv, FramesInv, MoveInv, PlaceInv, Reorder
    PROVE  /\ step = "reorder" /\ request.target \in Place /\ request \in Requests
           /\ \A q \in Place : ToSet(kids'[q]) = ToSet(kids[q])
           /\ \A q \in Place : q # request.target => kids'[q] = kids[q]
<1>1. step = "reorder" /\ request.target \in Place /\ request \in Requests
  BY ItemsAre DEF Reorder
<1>2. ordered \in Seq(Node) /\ ToSet(ordered) = ToSet(kids[request.target])
  BY <1>1, OrderedIs
<1>3. kids' = kids \/ kids' = [kids EXCEPT ![request.target] = ordered]
  BY DEF Reorder
<1>4. kids \in [Place -> Seq(Node)]
  BY DEF TreeInv, Forest
<1> QED
  BY <1>1, <1>2, <1>3, <1>4

-----------------------------------------------------------------------------
(* The names of siblings                                                   *)
LEMMA NamesStay ==
    ASSUME UniqueNames, UNCHANGED name, \A p \in Place : ToSet(kids'[p]) \subseteq ToSet(kids[p])
    PROVE  UniqueNames'
BY DEF UniqueNames

(* Names tried for a copy are names.                                       *)
LEMMA CandidateIs ==
    ASSUME NEW base \in Names, NEW k \in Nat
    PROVE  Candidate(base, k) \in Names /\ (k = 0 => Candidate(base, k) = base)
BY DEF Candidate, Names

(* The name chosen is not that of a child.                                 *)
LEMMA FetchIs ==
    ASSUME TreeInv, RequestInv, FramesInv, NamesInv, FetchSource
    PROVE  LET under == todo[1].under  src == todo[1].src IN
           /\ step = "fetch" /\ src \in Used /\ under \in Place /\ name[src] \in Names
           /\ label' \in Names /\ label' \notin NamesOf(under)
           /\ name[src] \notin NamesOf(under) => label' = name[src]
           /\ cache' = [cache EXCEPT ![under] = NamesOf(under) \cup {label'}]
<1> DEFINE src == todo[1].src
           under == todo[1].under
           names == NamesUnder(under)
           free  == {k \in 0..MaxCopies : Candidate(name[src], k) \notin names}
<1>1. step = "fetch"
  BY DEF FetchSource
<1>2. src \in Used /\ under \in Place /\ Head(todo) = todo[1]
  BY <1>1, TopFrame
<1>3. name[src] \in Names
  BY <1>2 DEF Used, TreeInv
<1>4. names = NamesOf(under)
  <2> HIDE DEF under
  <2>1. cache[under] # NULL => cache[under] = NamesOf(under)
    BY <1>1, <1>2 DEF NamesInv, Copying
  <2> QED
    BY <2>1 DEF NamesUnder, NamesOf
<1>5. free # {} /\ label' = Candidate(name[src], Min(free)) /\ cache' = [cache EXCEPT ![under] = names \cup {label'}]
  BY <1>2 DEF FetchSource
<1>6. free \subseteq Nat
  BY BulkSizes
<1>7. Min(free) \in free /\ \A k \in free : Min(free) <= k
  BY <1>5, <1>6, SmallestOf
<1>8. label' \in Names /\ label' \notin names
  BY <1>3, <1>5, <1>6, <1>7, CandidateIs
<1>9. ASSUME name[src] \notin names PROVE label' = name[src]
  <2>1. 0 \in free
    BY <1>3, <1>9, CandidateIs, BulkSizes
  <2>2. Min(free) = 0
    BY <1>6, <1>7, <2>1
  <2> QED
    BY <1>3, <1>5, <2>2, CandidateIs
<1> HIDE DEF names, src, under
<1>10. /\ step = "fetch" /\ src \in Used /\ under \in Place /\ name[src] \in Names
       /\ label' \in Names /\ label' \notin NamesOf(under)
       /\ name[src] \notin NamesOf(under) => label' = name[src]
       /\ cache' = [cache EXCEPT ![under] = NamesOf(under) \cup {label'}]
  BY <1>1, <1>2, <1>3, <1>4, <1>5, <1>8, <1>9
<1> QED
  BY <1>10 DEF src, under

(* A new node has a name of its own.                                       *)
LEMMA NamesWithNew ==
    ASSUME TreeInv, RequestInv, FramesInv, NamesInv, NEW n, CreateNode(n) \/ CreateLost(n)
    PROVE  /\ UniqueNames'
           /\ \A p \in Place : NamesOf(p)' = NamesOf(p) \cup (IF p = todo[1].under THEN {label} ELSE {})
<1> DEFINE src == todo[1].src
           under == todo[1].under
<1>1. /\ step = "create" /\ under \in Place /\ n \in Node
      /\ \A m \in Node : name'[m] = IF m = n THEN label ELSE name[m]
      /\ \A p \in Place : /\ n \notin ToSet(kids[p])
                          /\ kids'[p] = IF p = under THEN Append(kids[p], n) ELSE kids[p]
                          /\ ToSet(kids'[p]) = IF p = under THEN ToSet(kids[p]) \cup {n} ELSE ToSet(kids[p])
  BY CreateIs
<1>2. label \notin NamesOf(under) /\ UniqueNames
  BY <1>1, LabelIs DEF NamesInv, RequestInv
<1>3. \A p \in Place : ToSet(kids[p]) \subseteq Node
  BY DEF TreeInv, Used
<1> HIDE DEF under
<1>4. \A m \in ToSet(kids[under]) : name[m] # label
  BY <1>2 DEF NamesOf
<1>5. \A p \in Place : \A m \in ToSet(kids[p]) : name'[m] = name[m]
  BY <1>1, <1>3
<1>6. UniqueNames'
  <2> SUFFICES ASSUME NEW p \in Place, NEW k \in ToSet(kids'[p]), NEW m \in ToSet(kids'[p]), name'[k] = name'[m]
               PROVE  k = m
    BY DEF UniqueNames
  <2>1. CASE p # under
    BY <1>1, <1>2, <1>5, <2>1 DEF UniqueNames
  <2>2. CASE p = under
    <3>1. \A x \in ToSet(kids'[p]) : x = n \/ x \in ToSet(kids[p])
      BY <1>1
    <3>2. CASE k \in ToSet(kids[p]) /\ m \in ToSet(kids[p])
      BY <1>2, <1>5, <3>2 DEF UniqueNames
    <3>3. name'[n] = label /\ \A x \in ToSet(kids[p]) : name'[x] # label
      BY <1>1, <1>4, <1>5, <2>2
    <3> QED
      BY <3>1, <3>2, <3>3
  <2> QED
    BY <2>1, <2>2
<1>7. \A p \in Place : NamesOf(p)' = NamesOf(p) \cup (IF p = under THEN {label} ELSE {})
  <2> SUFFICES ASSUME NEW p \in Place
               PROVE  {name'[m] : m \in ToSet(kids'[p])}
                        = {name[m] : m \in ToSet(kids[p])} \cup (IF p = under THEN {label} ELSE {})
    BY DEF NamesOf
  <2>1. name'[n] = label
    BY <1>1
  <2> QED
    <3>1. CASE p # under
      <4>1. ToSet(kids'[p]) = ToSet(kids[p])
        BY <1>1, <3>1
      <4>2. \A m \in ToSet(kids[p]) : name'[m] = name[m]
        BY <1>5
      <4> QED
        BY <3>1, <4>1, <4>2
    <3>2. CASE p = under
      <4>1. ToSet(kids'[p]) = ToSet(kids[p]) \cup {n}
        BY <1>1, <3>2
      <4> QED
        BY <1>5, <2>1, <3>2, <4>1
    <3> QED
      BY <3>1, <3>2
<1> QED
  BY <1>6, <1>7 DEF under

(* Siblings keep different names, and the cache keeps up with them.        *)
LEMMA NamesStep ==
    ASSUME BulkInv, Next
    PROVE  NamesInv'
<1>0. BeforeInv /\ TreeInv /\ RequestInv /\ FramesInv /\ NamesInv /\ CopyUndoInv /\ MoveInv /\ PlaceInv
  BY Parts
<1>i. RequestInv'
  BY RequestStep
<1>a. ASSUME request.kind # "copy", UNCHANGED request, step # "idle" PROVE NamesInv'
  <2>1. ~Copying' /\ step' # "idle" /\ request'.kind # "copy"
    <3>1. request \in Requests /\ request.kind \in {"copy", "move"}
      BY <1>0, <1>a, RequestIs DEF RequestInv
    <3>2. Idle.kind = NULL
      BY DEF Idle
    <3>3. step' # "idle"
      BY <1>a, <1>i, <3>1, <3>2, BulkSizes DEF RequestInv
    <3>4. ~Copying'
      BY <1>a, <1>i DEF RequestInv, Copying
    <3> QED
      BY <1>a, <3>3, <3>4
  <2> QED
    BY <2>1 DEF NamesInv
<1>1. ASSUME NEW r \in Requests, Begin(r) PROVE NamesInv'
  <2>1. /\ step = "idle" /\ UNCHANGED <<kids, name>> /\ cache' = NoNames /\ UniqueNames /\ step' # "create"
    BY <1>0, <1>1 DEF Begin, tree, RequestInv, NamesInv
  <2>2. UniqueNames'
    BY <2>1, NamesStay
  <2>3. DOMAIN cache' = Place /\ \A p \in Place : cache'[p] = NULL
    BY <2>1 DEF NoNames
  <2> QED
    BY <2>1, <2>2, <2>3 DEF NamesInv
<1>2. CASE FetchSource
  <2> DEFINE under == todo[1].under
  <2>1. /\ step = "fetch" /\ under \in Place /\ label' \in Names /\ label' \notin NamesOf(under)
        /\ cache' = [cache EXCEPT ![under] = NamesOf(under) \cup {label'}]
    BY <1>0, <1>2, FetchIs
  <2>2. UNCHANGED <<kids, name, todo>> /\ step' = "create" /\ request.kind = "copy" /\ request' = request
    BY <1>0, <1>2 DEF FetchSource, tree, RequestInv
  <2>3. todo'[1].under = under
    BY <2>2
  <2> HIDE DEF under
  <2>4. DOMAIN cache = Place /\ \A p \in Place : cache[p] # NULL => cache[p] = NamesOf(p)
    BY <1>0, <2>1 DEF NamesInv, Copying
  <2>5. \A p \in Place : NamesOf(p)' = NamesOf(p)
    BY <2>2 DEF NamesOf
  <2>6. DOMAIN cache' = Place /\ cache'[under] = NamesOf(under) \cup {label'}
        /\ \A p \in Place : p # under => cache'[p] = cache[p]
    BY <2>1, <2>4
  <2>7. UniqueNames'
    BY <1>0, <2>2, NamesStay DEF NamesInv
  <2>8. \A p \in Place : cache'[p] # NULL => cache'[p] = NamesOf(p) \cup (IF p = under THEN {label'} ELSE {})
    BY <2>4, <2>6
  <2> QED
    BY <2>1, <2>2, <2>3, <2>5, <2>6, <2>7, <2>8 DEF NamesInv
<1>3. ASSUME NEW n \in Node, CreateNode(n) \/ CreateLost(n) PROVE NamesInv'
  <2> DEFINE under == todo[1].under
  <2>1. UniqueNames' /\ \A p \in Place : NamesOf(p)' = NamesOf(p) \cup (IF p = under THEN {label} ELSE {})
    BY <1>0, <1>3, NamesWithNew
  <2>2. step = "create"
    BY <1>3 DEF CreateNode, CreateLost
  <2>3. CASE CreateNode(n)
    <3>1. step' = "list" /\ cache' = cache
      BY <2>3 DEF CreateNode
    <3>2. DOMAIN cache = Place /\ \A p \in Place : cache[p] # NULL =>
            cache[p] = NamesOf(p) \cup (IF p = under THEN {label} ELSE {})
      BY <1>0, <2>2 DEF NamesInv, Copying
    <3> QED
      BY <2>1, <3>1, <3>2 DEF NamesInv
  <2>4. CASE CreateLost(n)
    <3>1. RollBack(made)
      BY <2>4 DEF CreateLost, GiveUpCopy
    <3>2. ~Copying'
      BY <3>1, RollsBack DEF Copying
    <3> QED
      BY <2>1, <3>2 DEF NamesInv
  <2> QED
    BY <1>3, <2>3, <2>4
<1>4. CASE ListChildren \/ Copied
  <2>1. /\ step \in {"list", "copied"} /\ step' \notin {"create", "idle"} /\ UNCHANGED <<kids, name, cache>>
    BY <1>4 DEF ListChildren, Copied, tree
  <2>2. UniqueNames'
    BY <1>0, <2>1, NamesStay DEF NamesInv, RequestInv
  <2>3. DOMAIN cache = Place /\ \A p \in Place : cache[p] # NULL => cache[p] = NamesOf(p)
    <3>1. Copying /\ step # "create"
      BY <2>1 DEF Copying
    <3>2. DOMAIN cache = Place /\ \A p \in Place : cache[p] # NULL => cache[p] = NamesOf(p) \cup {}
      BY <1>0, <3>1 DEF NamesInv
    <3> QED
      BY <3>2
  <2>4. \A p \in Place : NamesOf(p)' = NamesOf(p)
    BY <2>1 DEF NamesOf
  <2> QED
    BY <2>1, <2>2, <2>3, <2>4 DEF NamesInv
<1>5. CASE CopyFails
  <2>1. RollBack(made) /\ UNCHANGED <<kids, name>> /\ step \in {"fetch", "create", "list"}
    BY <1>5 DEF CopyFails, GiveUpCopy, tree
  <2>2. ~Copying'
    BY <2>1, RollsBack DEF Copying
  <2>3. UniqueNames'
    BY <1>0, <2>1, NamesStay DEF NamesInv, RequestInv
  <2> QED
    BY <2>2, <2>3 DEF NamesInv
<1>6. CASE FetchOrigins \/ MoveNext \/ MoveLost \/ MoveFails \/ RollbackMoved
  <2>1. request.kind = "move" /\ UNCHANGED request /\ step # "idle"
    BY <1>0, <1>6 DEF FetchOrigins, MoveNext, MoveLost, MoveFails, RollbackMoved, RequestInv
  <2> QED
    BY <1>a, <2>1
<1>7. CASE FetchSiblings \/ Reorder \/ RollbackCreated
  <2>1. UNCHANGED <<request, name>> /\ step \in {"place", "reorder", "undo"}
    BY <1>7 DEF FetchSiblings, Reorder, RollbackCreated, tree
  <2>2. step' \in {"reorder", "undo", "failed", "ok", "misplaced"}
    BY <1>7 DEF FetchSiblings, Reorder, RollbackCreated, RollBack
  <2>3. \A q \in Place : ToSet(kids'[q]) \subseteq ToSet(kids[q])
    <3>1. CASE FetchSiblings
      BY <3>1 DEF FetchSiblings, tree
    <3>2. CASE Reorder
      BY <1>0, <3>2, Reordered
    <3>3. CASE RollbackCreated
      BY <1>0, <3>3, Deleted
    <3> QED
      BY <1>7, <3>1, <3>2, <3>3
  <2>4. request.kind = "copy" => UniqueNames'
    BY <1>0, <2>1, <2>3, NamesStay DEF NamesInv
  <2> QED
    BY <2>1, <2>2, <2>4 DEF NamesInv, Copying
<1> QED
  BY <1>1, <1>2, <1>3, <1>4, <1>5, <1>6, <1>7 DEF Next

-----------------------------------------------------------------------------
(* The copies made and the frames to copy                                  *)

(* Rows of frames put together (the new frames, then those below them)      *)
LEMMA ConcatIs ==
    ASSUME NEW T, NEW s \in Seq(T), NEW t \in Seq(T)
    PROVE  /\ s \o t \in Seq(T) /\ Len(s \o t) = Len(s) + Len(t)
           /\ \A i \in 1..Len(s) : (s \o t)[i] = s[i]
           /\ \A i \in (Len(s) + 1)..(Len(s) + Len(t)) : (s \o t)[i] = t[i - Len(s)]
           /\ Len(s) \in Nat /\ Len(t) \in Nat
OBVIOUS

(* The frames when a node is made for the frame on top, and when its       *)
(* children are put in its place                                           *)
LEMMA FrameReplaced ==
    ASSUME NEW s \in Seq(Frame), s # <<>>, NEW f \in Frame
    PROVE  LET t == <<f>> \o Tail(s) IN
           /\ t \in Seq(Frame) /\ Len(t) = Len(s) /\ t[1] = f
           /\ \A i \in 2..Len(s) : t[i] = s[i]
<1> DEFINE u == Tail(s)
           v == <<f>>
           t == v \o u
<1>1. /\ Len(s) \in Nat /\ Len(s) >= 1 /\ u \in Seq(Frame) /\ Len(u) = Len(s) - 1
      /\ \A i \in 1..(Len(s) - 1) : u[i] = s[i + 1]
  BY HeadTail
<1>2. v \in Seq(Frame) /\ Len(v) = 1 /\ v[1] = f
  OBVIOUS
<1>a. v \in Seq(Frame)
  BY <1>2
<1>b. u \in Seq(Frame)
  BY <1>1
<1> HIDE DEF u, v
<1>3. /\ t \in Seq(Frame) /\ Len(t) = Len(v) + Len(u)
      /\ \A i \in 1..Len(v) : t[i] = v[i]
      /\ \A i \in (Len(v) + 1)..(Len(v) + Len(u)) : t[i] = u[i - Len(v)]
  BY <1>a, <1>b, ConcatIs
<1> HIDE DEF t
<1>4. \A i \in 2..Len(s) : t[i] = s[i]
  <2> SUFFICES ASSUME NEW i \in 2..Len(s) PROVE t[i] = s[i]
    OBVIOUS
  <2>1. t[i] = u[i - 1] /\ i - 1 \in 1..(Len(s) - 1)
    BY <1>1, <1>2, <1>3
  <2>2. u[i - 1] = s[(i - 1) + 1]
    BY <1>1, <2>1
  <2> QED
    BY <2>1, <2>2
<1>5. t \in Seq(Frame) /\ Len(t) = Len(s) /\ t[1] = f
  BY <1>1, <1>2, <1>3
<1> QED
  BY <1>4, <1>5 DEF t, u, v

(* The target is not below a copy, and has only new nodes added.           *)
LEMMA FramesBefore ==
    ASSUME NEW s \in Seq(Frame), s # <<>>, NEW f \in Seq(Frame)
    PROVE  LET t == f \o Tail(s) IN
           /\ t \in Seq(Frame) /\ Len(t) = Len(f) + Len(s) - 1
           /\ \A i \in 1..Len(f) : t[i] = f[i]
           /\ \A i \in (Len(f) + 1)..(Len(f) + Len(s) - 1) : t[i] = s[i - Len(f) + 1]
<1> DEFINE u == Tail(s)
           t == f \o u
<1>1. /\ Len(s) \in Nat /\ Len(s) >= 1 /\ u \in Seq(Frame) /\ Len(u) = Len(s) - 1
      /\ \A i \in 1..(Len(s) - 1) : u[i] = s[i + 1]
  BY HeadTail
<1> HIDE DEF u
<1>2. /\ t \in Seq(Frame) /\ Len(t) = Len(f) + Len(u) /\ Len(f) \in Nat
      /\ \A i \in 1..Len(f) : t[i] = f[i]
      /\ \A i \in (Len(f) + 1)..(Len(f) + Len(u)) : t[i] = u[i - Len(f)]
  BY <1>1, ConcatIs
<1> HIDE DEF t
<1>3. \A i \in (Len(f) + 1)..(Len(f) + Len(s) - 1) : t[i] = s[i - Len(f) + 1]
  <2> SUFFICES ASSUME NEW i \in (Len(f) + 1)..(Len(f) + Len(s) - 1) PROVE t[i] = s[i - Len(f) + 1]
    OBVIOUS
  <2>1. t[i] = u[i - Len(f)] /\ i - Len(f) \in 1..(Len(s) - 1)
    BY <1>1, <1>2
  <2> QED
    BY <1>1, <2>1
<1>4. t \in Seq(Frame) /\ Len(t) = Len(f) + Len(s) - 1
  BY <1>1, <1>2
<1> QED
  BY <1>2, <1>3, <1>4 DEF t, u

(* No row of the nodes there were is below a new one.                      *)
LEMMA RowOfNew ==
    ASSUME BeforeInv, NEW n \in Node, n \notin Existed
    PROVE  before[n] = <<>>
<1>1. before[n] \in Seq(Existed) /\ n \in Place
  BY BulkSizes DEF BeforeInv
<1>2. \A m \in ToSet(before[n]) : n < m /\ m \in Existed
  BY <1>1, ToSetIs DEF BeforeInv
<1>3. ToSet(before[n]) = {}
  <2>1. n > Existing /\ n \in Nat
    BY BulkSizes DEF Existed, Node
  <2>2. \A m \in Existed : m <= Existing /\ m \in Nat
    BY BulkSizes DEF Existed
  <2>3. Existing \in Nat
    BY BulkSizes
  <2> QED
    BY <1>2, <2>1, <2>2, <2>3
<1>4. Len(before[n]) = 0
  <2>1. Len(before[n]) # 0 => before[n][1] \in ToSet(before[n])
    BY <1>1 DEF ToSet
  <2> QED
    BY <1>3, <2>1
<1> QED
  BY <1>1, <1>4

(* The target was there.                                                   *)
LEMMA TargetIsOld ==
    ASSUME TreeInv, RequestInv, step # "idle"
    PROVE  request.target \in Place /\ request.target \notin Created /\ request.target \in {Root} \cup Existed
<1>1. request.target \in Place /\ request.target \in {Root} \cup Existed
  BY RequestIs DEF RequestInv
<1> QED
  BY <1>1, BulkSizes DEF TreeInv, Created

(* What follows the creation of a node                                     *)
LEMMA CreateNodeIs ==
    ASSUME BeforeInv, TreeInv, RequestInv, FramesInv, NamesInv, NEW n, CreateNode(n)
    PROVE  /\ step = "create" /\ step' = "list" /\ root' = IF root = NULL THEN n ELSE root
           /\ UNCHANGED <<request, rest, made, before>>
           /\ Len(todo) \in Nat \ {0} /\ todo' \in Seq(Frame) /\ Len(todo') = Len(todo)
           /\ todo'[1] = [src |-> todo[1].src, under |-> n]
           /\ \A i \in 2..Len(todo) : todo'[i] = todo[i]
           /\ kids[n] = <<>> /\ kids'[n] = <<>> /\ n # todo[1].under /\ n # todo[1].src
<1>1. /\ step = "create" /\ step' = "list" /\ root' = IF root = NULL THEN n ELSE root
      /\ UNCHANGED <<request, rest, made, before>>
      /\ todo' = <<[src |-> Head(todo).src, under |-> n]>> \o Tail(todo)
  BY DEF CreateNode
<1>2. /\ todo \in Seq(Frame) /\ todo # <<>> /\ Head(todo) = todo[1] /\ todo[1].src \in Node
      /\ todo[1].under \in Place /\ Len(todo) >= 1 /\ request.kind = "copy"
  BY <1>1, TopFrame
<1>3. /\ n \in Node /\ n \notin Used /\ n \notin Existed /\ n \notin Created /\ todo[1].src \in Used
      /\ \A p \in Place : kids'[p] = IF p = todo[1].under THEN Append(kids[p], n) ELSE kids[p]
  <2>1. CreateNode(n) \/ CreateLost(n)
    OBVIOUS
  <2>2. /\ n \in Node /\ n \notin Used /\ n \notin Existed /\ n \notin Created /\ todo[1].src \in Used
        /\ \A p \in Place : /\ n \notin ToSet(kids[p])
                            /\ kids'[p] = IF p = todo[1].under THEN Append(kids[p], n) ELSE kids[p]
                            /\ ToSet(kids'[p]) = IF p = todo[1].under THEN ToSet(kids[p]) \cup {n} ELSE ToSet(kids[p])
    BY <2>1, CreateIs
  <2> QED
    BY <2>2
<1>4. n \in Place /\ n # Root /\ [src |-> todo[1].src, under |-> n] \in Frame
  BY <1>2, <1>3, BulkSizes DEF Frame
<1>5. n # request.target
  BY <1>1, <1>3, <1>4, TargetIsOld
<1>6. before[n] = <<>>
  BY <1>3, RowOfNew
<1>7. kids[n] = <<>>
  BY <1>1, <1>3, <1>4, <1>5, <1>6 DEF FramesInv, CopyingInv, Copying
<1>8. n # todo[1].under
  <2>1. root # NULL => todo[1].under \in Created
    BY <1>1, <1>2 DEF FramesInv, CopyingInv, Copying
  <2>2. root = NULL => todo[1].under = request.target
    BY <1>1 DEF FramesInv, CopyingInv, Copying
  <2> QED
    BY <1>3, <1>5, <2>1, <2>2
<1>9. /\ todo' \in Seq(Frame) /\ Len(todo') = Len(todo)
      /\ todo'[1] = [src |-> todo[1].src, under |-> n]
      /\ \A i \in 2..Len(todo) : todo'[i] = todo[i]
  <2> DEFINE f == [src |-> todo[1].src, under |-> n]
  <2>1. f \in Frame /\ todo' = <<f>> \o Tail(todo)
    BY <1>1, <1>2, <1>4
  <2> HIDE DEF f
  <2>2. /\ todo' \in Seq(Frame) /\ Len(todo') = Len(todo) /\ todo'[1] = f
        /\ \A i \in 2..Len(todo) : todo'[i] = todo[i]
    BY <1>2, <2>1, FrameReplaced
  <2> QED
    BY <2>2 DEF f
<1> QED
  BY <1>1, <1>2, <1>3, <1>4, <1>7, <1>8, <1>9

(* What follows its listing                                                *)
LEMMA ListIs ==
    ASSUME BeforeInv, TreeInv, RequestInv, FramesInv, ListChildren
    PROVE  /\ step = "list" /\ (step' = "fetch" \/ step' = "copied") /\ (step' = "copied" <=> todo' = <<>>)
           /\ UNCHANGED <<kids, name, copyOf, request, rest, root, made, before>>
           /\ Len(todo) \in Nat \ {0} /\ Len(kids[todo[1].src]) \in Nat
           /\ todo[1].src \in Place /\ todo[1].under \in Place
           /\ kids[todo[1].src] \in Seq(Node)
           /\ todo' \in Seq(Frame) /\ Len(todo') = Len(kids[todo[1].src]) + Len(todo) - 1
           /\ \A i \in 1..Len(kids[todo[1].src]) :
                 todo'[i] = [src |-> kids[todo[1].src][i], under |-> todo[1].under]
           /\ \A i \in (Len(kids[todo[1].src]) + 1)..Len(todo') :
                 /\ todo'[i] = todo[i - Len(kids[todo[1].src]) + 1]
                 /\ i - Len(kids[todo[1].src]) + 1 \in 2..Len(todo)
<1> DEFINE src == todo[1].src
           under == todo[1].under
           row == kids[src]
           f == [i \in DOMAIN row |-> [src |-> row[i], under |-> under]]
<1>1. step = "list"
  BY DEF ListChildren
<1>2. /\ todo \in Seq(Frame) /\ todo # <<>> /\ Head(todo) = todo[1] /\ src \in Node
      /\ under \in Place /\ Len(todo) >= 1 /\ Len(todo) \in Nat
  BY <1>1, TopFrame
<1>3. /\ todo' = f \o Tail(todo) /\ (step' = IF todo' # <<>> THEN "fetch" ELSE "copied")
      /\ UNCHANGED <<kids, name, copyOf, request, rest, root, made, before>>
  BY <1>2 DEF ListChildren, tree
<1>4. row \in Seq(Node) /\ src \in Place
  BY <1>2, BulkSizes DEF TreeInv, Forest
<1> HIDE DEF src, under, row
<1>5. /\ f \in Seq(Frame) /\ Len(f) = Len(row) /\ Len(row) \in Nat
      /\ \A i \in 1..Len(row) : f[i] = [src |-> row[i], under |-> under]
  <2>1. \A i \in 1..Len(row) : [src |-> row[i], under |-> under] \in Frame
    BY <1>2, <1>4 DEF Frame
  <2>2. DOMAIN row = 1..Len(row) /\ Len(row) \in Nat
    BY <1>4
  <2>3. f \in [1..Len(row) -> Frame]
    BY <2>1, <2>2
  <2>4. f \in Seq(Frame) /\ Len(f) = Len(row)
    BY <2>2, <2>3
  <2> QED
    BY <2>2, <2>4
<1> HIDE DEF f
<1>6. /\ todo' \in Seq(Frame) /\ Len(todo') = Len(f) + Len(todo) - 1
      /\ \A i \in 1..Len(f) : todo'[i] = f[i]
      /\ \A i \in (Len(f) + 1)..(Len(f) + Len(todo) - 1) : todo'[i] = todo[i - Len(f) + 1]
  BY <1>2, <1>3, <1>5, FramesBefore
<1>7. \A i \in (Len(row) + 1)..Len(todo') : /\ todo'[i] = todo[i - Len(row) + 1]
                                           /\ i - Len(row) + 1 \in 2..Len(todo)
  BY <1>2, <1>5, <1>6
<1>8. /\ \A i \in 1..Len(row) : todo'[i] = [src |-> row[i], under |-> under]
      /\ Len(todo') = Len(row) + Len(todo) - 1 /\ Len(todo) \in Nat \ {0} /\ Len(row) \in Nat
      /\ (step' = "fetch" \/ step' = "copied") /\ (step' = "copied" <=> todo' = <<>>)
  BY <1>2, <1>3, <1>5, <1>6
<1>9. src \in Place /\ under \in Place /\ row \in Seq(Node) /\ todo' \in Seq(Frame)
  BY <1>2, <1>4, <1>6
<1> QED
  BY <1>1, <1>3, <1>7, <1>8, <1>9 DEF src, under, row

(* Copies that are complete stay so where nothing is copied.               *)
LEMMA MadeStays ==
    ASSUME MadeInv, UNCHANGED <<made, request, before>>,
           \A m \in Created : m \in Created' /\ copyOf'[m] = copyOf[m],
           \A p \in Place : ToSet(kids'[p]) \cap ToSet(made) \subseteq ToSet(kids[p]),
           request.kind = "copy" /\ Made' => Made,
           request.kind = "copy" /\ step' \in {"place", "reorder"} =>
               step \in {"place", "reorder"} /\ kids'[request.target] = kids[request.target]
    PROVE  MadeInv'
<1> SUFFICES ASSUME request.kind = "copy" PROVE MadeInv'
  BY DEF MadeInv
<1>1. \A i \in DOMAIN made : made[i] \in ToSet(made)
  BY DEF ToSet
<1>2. \A p \in Place : p # request.target => ToSet(made) \cap ToSet(kids'[p]) = {}
  BY DEF MadeInv
<1> QED
  BY <1>1, <1>2 DEF MadeInv

(* No copy is made yet.                                                    *)
LEMMA NoneMade ==
    ASSUME made = <<>>
    PROVE  ToSet(made) = {} /\ IsInjective(made) /\ Len(made) = 0 /\ DOMAIN made = {}
BY DEF ToSet, IsInjective

(* Rows put together                                                       *)
LEMMA RowsAssociate ==
    ASSUME NEW x \in Seq(Node), NEW y \in Seq(Node), NEW z \in Seq(Node)
    PROVE  (x \o y) \o z = x \o (y \o z)
BY ConcatAssociative, SMT

(* The copy that is complete becomes the next of the copies made.          *)
LEMMA CopiedIs ==
    ASSUME BulkInv, Copied
    PROVE  /\ step = "copied" /\ root \in Created /\ root \in Node /\ root \notin ToSet(made)
           /\ request.kind = "copy" /\ request \in Requests /\ copyOf[root] = request.sources[Now]
           /\ UNCHANGED <<kids, name, copyOf, request, before>>
           /\ made' = Append(made, root) /\ made' \in Seq(Node) /\ Len(made') = Len(made) + 1
           /\ \A i \in 1..Len(made) : made'[i] = made[i]
           /\ made'[Len(made) + 1] = root
           /\ ToSet(made') = ToSet(made) \cup {root} /\ IsInjective(made')
           /\ kids[request.target] = before[request.target] \o made'
           /\ root' = NULL /\ request.target \in Place /\ Len(made) \in Nat
<1>0. BeforeInv /\ TreeInv /\ RequestInv /\ FramesInv
  BY Parts
<1>1. /\ step = "copied" /\ made' = Append(made, root) /\ root' = NULL
      /\ UNCHANGED <<kids, name, copyOf, request, before>>
  BY DEF Copied, tree
<1>2. root # NULL
  BY <1>0, <1>1 DEF FramesInv, CopyingInv, Copying
<1>3. /\ root \in Created /\ copyOf[root] = request.sources[Now]
      /\ kids[request.target] = Append(before[request.target] \o made, root)
  BY <1>0, <1>1, <1>2 DEF FramesInv, CopyingInv, Copying
<1>4. root \in Node /\ made \in Seq(Node) /\ request.target \in Place /\ request.kind = "copy" /\ request \in Requests
  BY <1>0, <1>1, <1>3, TargetIsOld DEF RequestInv, Created
<1>5. before[request.target] \in Seq(Node)
  BY <1>0, <1>4 DEF BeforeInv, Forest
<1> DEFINE x == before[request.target]
           y == x \o made
<1>6. y \in Seq(Node) /\ ToSet(y) = ToSet(x) \cup ToSet(made)
  BY <1>4, <1>5, ConcatSet
<1>7. Append(y, root) = x \o Append(made, root)
  <2>1. Append(y, root) = y \o <<root>> /\ Append(made, root) = made \o <<root>> /\ <<root>> \in Seq(Node)
    <3>1. Append(y, root) = y \o <<root>>
      BY <1>4, <1>6, AppendIsConcat
    <3>2. Append(made, root) = made \o <<root>>
      BY <1>4, AppendIsConcat
    <3>3. <<root>> \in Seq(Node)
      BY <1>4
    <3> QED
      BY <3>1, <3>2, <3>3
  <2> DEFINE z == <<root>>
  <2>2. z \in Seq(Node) /\ x \in Seq(Node) /\ made \in Seq(Node)
    BY <1>4, <1>5, <2>1
  <2> HIDE DEF x, z
  <2>3. (x \o made) \o z = x \o (made \o z)
    BY <2>2, RowsAssociate
  <2> QED
    BY <2>1, <2>3 DEF z
<1>8. IsInjective(Append(y, root))
  BY <1>0, <1>3, <1>4 DEF TreeInv, Forest
<1> HIDE DEF x, y
<1>9. root \notin ToSet(y)
  <2>1. /\ DOMAIN y = 1..Len(y) /\ Len(y) \in Nat /\ DOMAIN Append(y, root) = 1..(Len(y) + 1)
        /\ Append(y, root)[Len(y) + 1] = root /\ \A i \in 1..Len(y) : Append(y, root)[i] = y[i]
    BY <1>4, <1>6
  <2>2. \A i \in 1..Len(y) : y[i] # root
    BY <1>8, <2>1 DEF IsInjective
  <2> QED
    BY <2>1, <2>2 DEF ToSet
<1>10. root \notin ToSet(made)
  BY <1>6, <1>9
<1>11. IsInjective(made)
  BY <1>0, <1>4 DEF FramesInv, MadeInv
<1>12. ToSet(made') = ToSet(made) \cup {root} /\ IsInjective(made') /\ made' \in Seq(Node)
  BY <1>1, <1>4, <1>10, <1>11, AppendSet
<1>13. /\ Len(made') = Len(made) + 1 /\ \A i \in 1..Len(made) : made'[i] = made[i]
       /\ made'[Len(made) + 1] = root /\ Len(made) \in Nat
  BY <1>1, <1>4
<1>14. kids[request.target] = before[request.target] \o made'
  BY <1>1, <1>3, <1>7 DEF x, y
<1> QED
  BY <1>1, <1>3, <1>4, <1>10, <1>12, <1>13, <1>14

(* What is left of the sources                                             *)
LEMMA RestIs ==
    ASSUME NEW s \in Seq(Existed), NEW k \in Nat, k < Len(s)
    PROVE  /\ SubSeq(s, k + 2, Len(s)) = <<>> => Len(s) = k + 1
           /\ SubSeq(s, k + 2, Len(s)) # <<>> =>
                /\ k + 1 < Len(s)
                /\ Head(SubSeq(s, k + 2, Len(s))) = s[k + 2]
                /\ Tail(SubSeq(s, k + 2, Len(s))) = SubSeq(s, k + 3, Len(s))
<1>1. Len(s) \in Nat
  OBVIOUS
<1>2. CASE k + 1 = Len(s)
  BY <1>1, <1>2
<1>3. CASE k + 1 < Len(s)
  <2>1. k + 2 \in 1..Len(s) /\ Len(s) \in (k + 2)..Len(s) /\ (k + 2) + 1 = k + 3
    BY <1>1, <1>3
  <2>2. /\ Head(SubSeq(s, k + 2, Len(s))) = s[k + 2]
        /\ Tail(SubSeq(s, k + 2, Len(s))) = SubSeq(s, (k + 2) + 1, Len(s))
    BY <2>1, HeadTailOfSubSeq
  <2>3. Len(SubSeq(s, k + 2, Len(s))) # 0 /\ Len(<<>>) = 0
    BY <1>1, <1>3
  <2>4. SubSeq(s, k + 2, Len(s)) # <<>>
    <3> DEFINE u == SubSeq(s, k + 2, Len(s))
    <3>1. Len(u) # 0
      BY <2>3
    <3> HIDE DEF u
    <3>2. u # <<>>
      BY <2>3, <3>1
    <3> QED
      BY <3>2 DEF u
  <2>5. Tail(SubSeq(s, k + 2, Len(s))) = SubSeq(s, k + 3, Len(s))
    BY <2>1, <2>2
  <2> QED
    BY <1>3, <2>2, <2>4, <2>5
<1> QED
  BY <1>1, <1>2, <1>3

(* A new node is none of the copies that are complete.                     *)
LEMMA NewNodeKeeps ==
    ASSUME TreeInv, RequestInv, FramesInv, NamesInv, NEW n, CreateNode(n) \/ CreateLost(n)
    PROVE  /\ \A m \in Created : m \in Created' /\ copyOf'[m] = copyOf[m] /\ m # n
           /\ request.kind = "copy" => n \notin ToSet(made)
           /\ \A p \in Place : ToSet(kids'[p]) \subseteq ToSet(kids[p]) \cup {n}
<1>1. /\ n \in Node /\ n \notin Created /\ Created' = Created \cup {n}
      /\ \A m \in Node : /\ name'[m] = IF m = n THEN label ELSE name[m]
                         /\ copyOf'[m] = IF m = n THEN todo[1].src ELSE copyOf[m]
      /\ \A p \in Place : /\ n \notin ToSet(kids[p])
                          /\ kids'[p] = IF p = todo[1].under THEN Append(kids[p], n) ELSE kids[p]
                          /\ ToSet(kids'[p]) = IF p = todo[1].under THEN ToSet(kids[p]) \cup {n} ELSE ToSet(kids[p])
  BY CreateIs
<1>2. \A p \in Place : ToSet(kids'[p]) \subseteq ToSet(kids[p]) \cup {n}
  BY <1>1
<1>3. \A m \in Created : m \in Node
  BY DEF Created
<1>4. \A m \in Created : m \in Created' /\ copyOf'[m] = copyOf[m] /\ m # n
  BY <1>1, <1>3
<1>5. request.kind = "copy" => n \notin ToSet(made)
  BY <1>1 DEF FramesInv, MadeInv
<1> QED
  BY <1>2, <1>4, <1>5

(* The copies are those of the first sources, in their order.              *)
LEMMA MadeStep ==
    ASSUME BulkInv, Next
    PROVE  MadeInv'
<1>0. BeforeInv /\ TreeInv /\ RequestInv /\ FramesInv /\ NamesInv /\ CopyUndoInv /\ MoveInv /\ PlaceInv
  BY Parts
<1>b. MadeInv /\ before' = before
  BY <1>0, BeforeStep DEF FramesInv
<1>a. ASSUME UNCHANGED <<made, request, copyOf>>,
             \A p \in Place : ToSet(kids'[p]) \subseteq ToSet(kids[p]),
             request.kind = "copy" /\ Made' => Made,
             request.kind = "copy" /\ step' \in {"place", "reorder"} =>
                 step \in {"place", "reorder"} /\ kids' = kids
      PROVE  MadeInv'
  <2>1. \A m \in Created : m \in Created' /\ copyOf'[m] = copyOf[m]
    BY <1>a DEF Created
  <2> QED
    BY <1>a, <1>b, <2>1, MadeStays
<1>1. ASSUME NEW r \in Requests, Begin(r) PROVE MadeInv'
  <2>1. made' = <<>> /\ request' = r /\ step' \in {"fetch", "origins"}
    BY <1>0, <1>1 DEF Begin, RequestInv
  <2>2. ToSet(made') = {} /\ IsInjective(made') /\ Len(made') = 0 /\ DOMAIN made' = {}
    BY <2>1 DEF ToSet, IsInjective
  <2>3. Len(r.sources) \in Nat
    BY RequestIs
  <2> QED
    BY <2>1, <2>2, <2>3 DEF MadeInv, Made
<1>2. CASE FetchSource \/ ListChildren
  <2>1. UNCHANGED <<made, request, copyOf, kids>> /\ step' \in {"create", "fetch", "copied"}
    BY <1>2 DEF FetchSource, ListChildren, tree
  <2> QED
    BY <1>a, <2>1 DEF Made
<1>3. CASE Copied
  <2>1. /\ request.kind = "copy" /\ UNCHANGED <<kids, copyOf, request, before>>
        /\ root \in Created /\ copyOf[root] = request.sources[Now] /\ Len(made) \in Nat
        /\ made' \in Seq(Node) /\ Len(made') = Len(made) + 1
        /\ \A i \in 1..Len(made) : made'[i] = made[i]
        /\ made'[Len(made) + 1] = root
        /\ ToSet(made') = ToSet(made) \cup {root} /\ IsInjective(made')
        /\ kids[request.target] = before[request.target] \o made'
        /\ request.target \in Place
    BY <1>3, CopiedIs
  <2>2. step = "copied" /\ request \in Requests
    BY <1>3, CopiedIs
  <2>3. Len(made) < Len(request.sources) /\ rest = SubSeq(request.sources, Len(made) + 2, Len(request.sources))
    BY <1>0, <2>2 DEF FramesInv, CopyingInv, Copying
  <2>4. ToSet(made') \subseteq Created' /\ Len(made') <= Len(request.sources)
    <3>1. Len(request.sources) \in Nat
      BY <2>2, RequestIs
    <3> QED
      BY <1>b, <2>1, <2>3, <3>1 DEF MadeInv, Created
  <2>5. \A i \in DOMAIN made' : copyOf'[made'[i]] = request'.sources[i]
    <3>1. DOMAIN made' = (1..Len(made)) \cup {Len(made) + 1}
      BY <2>1
    <3>2. \A i \in 1..Len(made) : copyOf[made[i]] = request.sources[i]
      <4>1. DOMAIN made = 1..Len(made)
        BY <1>0 DEF RequestInv
      <4> QED
        BY <1>b, <2>1, <4>1 DEF MadeInv
    <3> QED
      BY <2>1, <3>1, <3>2 DEF Now
  <2>6. \A p \in Place : p # request.target => ToSet(made') \cap ToSet(kids[p]) = {}
    <3>1. before[request.target] \in Seq(Node)
      BY <1>0, <2>1 DEF BeforeInv, Forest
    <3>2. ToSet(made') \subseteq ToSet(kids[request.target])
      BY <2>1, <3>1, ConcatSet
    <3> QED
      BY <1>0, <2>1, <3>2 DEF TreeInv, Forest
  <2>7. Made' => Len(made') = Len(request.sources)
    <3>1. request.sources \in Seq(Existed)
      BY <2>2, RequestIs
    <3>2. rest = <<>> => Len(request.sources) = Len(made) + 1
      BY <2>1, <2>3, <3>1, RestIs
    <3>3. rest # <<>> => step' = "fetch"
      BY <1>3 DEF Copied
    <3> QED
      BY <2>1, <3>2, <3>3 DEF Made
  <2> QED
    BY <2>1, <2>4, <2>5, <2>6, <2>7 DEF MadeInv
<1>4. CASE CopyFails
  <2>1. UNCHANGED <<made, request, copyOf, kids>> /\ RollBack(made)
    BY <1>4 DEF CopyFails, GiveUpCopy, tree
  <2>2. step' \in {"failed", "undo"}
    BY <2>1, RollsBack
  <2> QED
    BY <1>a, <2>1, <2>2 DEF Made
<1>5. ASSUME NEW n \in Node, CreateNode(n) \/ CreateLost(n) PROVE MadeInv'
  <2>1. UNCHANGED <<made, request>> /\ step' \in {"failed", "undo", "list"}
    <3>1. CASE CreateNode(n)
      BY <3>1 DEF CreateNode
    <3>2. CASE CreateLost(n)
      <4>1. RollBack(made) /\ UNCHANGED <<made, request>>
        BY <3>2 DEF CreateLost, GiveUpCopy
      <4> QED
        BY <4>1, RollsBack
    <3> QED
      BY <1>5, <3>1, <3>2
  <2>2. request.kind = "copy" => n \notin ToSet(made)
    BY <1>0, <1>5, NewNodeKeeps
  <2>3. \A m \in Created : m \in Created' /\ copyOf'[m] = copyOf[m]
    BY <1>0, <1>5, NewNodeKeeps
  <2>4. \A p \in Place : ToSet(kids'[p]) \subseteq ToSet(kids[p]) \cup {n}
    BY <1>0, <1>5, NewNodeKeeps
  <2>5. CASE request.kind = "copy"
    <3>1. \A p \in Place : ToSet(kids'[p]) \cap ToSet(made) \subseteq ToSet(kids[p])
      BY <2>2, <2>4, <2>5
    <3> QED
      BY <1>b, <2>1, <2>3, <3>1, MadeStays DEF Made
  <2>6. CASE request.kind # "copy"
    BY <2>1, <2>6 DEF MadeInv
  <2> QED
    BY <2>5, <2>6
<1>6. CASE FetchOrigins \/ MoveNext \/ MoveLost \/ MoveFails \/ RollbackMoved
  <2>1. request.kind = "move" /\ UNCHANGED request
    BY <1>0, <1>6 DEF FetchOrigins, MoveNext, MoveLost, MoveFails, RollbackMoved, RequestInv
  <2> QED
    BY <2>1 DEF MadeInv
<1>7. CASE FetchSiblings
  <2>1. UNCHANGED <<made, request, copyOf, kids>> /\ step = "place" /\ step' \in {"reorder", "undo", "failed"}
    BY <1>7 DEF FetchSiblings, copying, tree, RollBack
  <2> QED
    BY <1>a, <2>1 DEF Made
<1>8. CASE Reorder
  <2>1. UNCHANGED <<made, request, copyOf>> /\ step = "reorder" /\ step' \in {"ok", "misplaced"}
    BY <1>8 DEF Reorder, copying
  <2>2. \A p \in Place : ToSet(kids'[p]) \subseteq ToSet(kids[p])
    BY <1>0, <1>8, Reordered
  <2> QED
    BY <1>a, <2>1, <2>2 DEF Made
<1>9. CASE RollbackCreated
  <2>1. UNCHANGED <<made, request, copyOf>> /\ RollBack(Tail(undo))
    BY <1>9 DEF RollbackCreated, copying
  <2>2. step' \in {"failed", "undo"}
    BY <2>1, RollsBack
  <2>3. \A p \in Place : ToSet(kids'[p]) \subseteq ToSet(kids[p])
    BY <1>0, <1>9, Deleted
  <2> QED
    BY <1>a, <2>1, <2>2, <2>3 DEF Made
<1> QED
  BY <1>1, <1>2, <1>3, <1>4, <1>5, <1>6, <1>7, <1>8, <1>9 DEF Next

(* The first frame of a source                                             *)
LEMMA FirstFrame ==
    ASSUME NEW t, NEW src \in Node, NEW under \in Place, t = <<[src |-> src, under |-> under]>>
    PROVE  /\ t \in Seq(Frame) /\ t # <<>> /\ Len(t) = 1 /\ DOMAIN t = {1}
           /\ t[1] = [src |-> src, under |-> under] /\ t[1].src = src /\ t[1].under = under
<1> DEFINE f == [src |-> src, under |-> under]
<1>1. f \in Frame /\ f.src = src /\ f.under = under
  BY DEF Frame
<1>2. t = <<f>>
  OBVIOUS
<1> HIDE DEF f
<1>3. t \in Seq(Frame) /\ t # <<>> /\ Len(t) = 1 /\ DOMAIN t = {1} /\ t[1] = f
  BY <1>1, <1>2
<1> QED
  BY <1>1, <1>3 DEF f

(* How a copy begins                                                       *)
LEMMA BeginIs ==
    ASSUME BulkInv, NEW r \in Requests, Begin(r), r.kind = "copy"
    PROVE  /\ todo' = <<[src |-> r.sources[1], under |-> r.target]>> /\ r.sources[1] \in Existed
           /\ rest' = SubSeq(r.sources, 2, Len(r.sources)) /\ Len(r.sources) \in Nat \ {0}
           /\ made' = <<>> /\ root' = NULL /\ step' = "fetch" /\ request' = r /\ Created' = {}
           /\ UNCHANGED <<kids, name, copyOf, before>> /\ kids = before /\ r.target \in Place
<1>0. RequestInv
  BY Parts
<1>1. /\ step = "idle" /\ step' = "fetch" /\ request' = r /\ UNCHANGED <<kids, name, copyOf, before, made, root>>
      /\ todo' = <<[src |-> Head(r.sources), under |-> r.target]>> /\ rest' = Tail(r.sources)
  BY DEF Begin, tree
<1>2. request = Idle /\ kids = before /\ made = <<>> /\ root = NULL
  BY <1>0, <1>1 DEF RequestInv
<1>3. Created = {}
  <2>1. request.kind # "copy"
    BY <1>2, BulkSizes DEF Idle
  <2> QED
    BY <1>0, <2>1 DEF RequestInv
<1>4. r.sources \in Seq(Existed) /\ r.sources # <<>> /\ r.target \in Place
  BY RequestIs
<1>5. Head(r.sources) = r.sources[1] /\ r.sources[1] \in Existed /\ Len(r.sources) \in Nat \ {0}
  BY <1>4
<1>6. Tail(r.sources) = SubSeq(r.sources, 2, Len(r.sources))
  BY <1>4, TailIsSubSeq
<1> QED
  BY <1>1, <1>2, <1>3, <1>4, <1>5, <1>6 DEF Created

(* The frames are those of the copy of one source.                         *)
LEMMA CopyingStep ==
    ASSUME BulkInv, Next
    PROVE  CopyingInv'
<1>0. BeforeInv /\ TreeInv /\ RequestInv /\ FramesInv /\ NamesInv /\ CopyUndoInv /\ MoveInv /\ PlaceInv
  BY Parts
<1>b. MadeInv /\ CopyingInv /\ before' = before /\ Existed \subseteq Used
  BY <1>0, BeforeStep, BulkSizes DEF FramesInv, TreeInv, Existed
<1>1. ASSUME NEW r \in Requests, Begin(r) PROVE CopyingInv'
  <2>1. CASE r.kind # "copy"
    <3>1. step' = "origins"
      BY <1>1, <2>1 DEF Begin
    <3> QED
      BY <3>1 DEF CopyingInv, Copying
  <2>2. CASE r.kind = "copy"
    <3>1. /\ todo' = <<[src |-> r.sources[1], under |-> r.target]>> /\ r.sources[1] \in Existed
          /\ rest' = SubSeq(r.sources, 2, Len(r.sources)) /\ Len(r.sources) \in Nat \ {0}
          /\ made' = <<>> /\ root' = NULL /\ step' = "fetch" /\ request' = r /\ Created' = {}
          /\ UNCHANGED <<kids, name, copyOf, before>> /\ kids = before /\ r.target \in Place
      BY <1>1, <2>2, BeginIs
    <3>2. /\ todo' \in Seq(Frame) /\ todo' # <<>> /\ DOMAIN todo' = {1} /\ todo'[1].src = r.sources[1]
      <4>1. todo' = <<[src |-> r.sources[1], under |-> r.target]>>
        BY <3>1
      <4>2. r.sources[1] \in Node /\ r.target \in Place
        BY <3>1, BulkSizes
      <4> QED
        BY <4>1, <4>2, FirstFrame
    <3>3. Len(made') = 0 /\ Now' = 1
      BY <3>1 DEF Now
    <3>4. Used' = Used
      BY <3>1 DEF Used
    <3>5. before[r.target] \o <<>> = before[r.target]
      BY <1>0, <3>1, ConcatEmptySeq DEF BeforeInv, Forest
    <3>6. rest' = SubSeq(r.sources, Len(made') + 2, Len(r.sources))
      BY <3>1, <3>3
    <3>7. \A i \in DOMAIN todo' : todo'[i].src \in Used'
      BY <1>b, <3>1, <3>2, <3>4
    <3> QED
      BY <3>1, <3>2, <3>3, <3>5, <3>6, <3>7 DEF CopyingInv
  <2> QED
    BY <2>1, <2>2
<1>2. CASE FetchSource
  <2>1. /\ step = "fetch" /\ step' = "create"
        /\ UNCHANGED <<kids, name, copyOf, request, todo, rest, root, made, before>>
    BY <1>2 DEF FetchSource, tree
  <2>2. Created' = Created /\ Used' = Used /\ Now' = Now
    BY <2>1 DEF Created, Used, Now
  <2> QED
    BY <1>b, <2>1, <2>2 DEF CopyingInv, Copying
<1>3. ASSUME NEW n \in Node, CreateNode(n) PROVE CopyingInv'
  <2>1. /\ step = "create" /\ step' = "list" /\ root' = IF root = NULL THEN n ELSE root
        /\ UNCHANGED <<request, rest, made, before>>
        /\ Len(todo) \in Nat \ {0} /\ todo' \in Seq(Frame) /\ Len(todo') = Len(todo)
        /\ todo'[1] = [src |-> todo[1].src, under |-> n]
        /\ \A i \in 2..Len(todo) : todo'[i] = todo[i]
        /\ kids[n] = <<>> /\ kids'[n] = <<>> /\ n # todo[1].under /\ n # todo[1].src
    BY <1>0, <1>3, CreateNodeIs
  <2>2. /\ n \notin Created /\ Used' = Used \cup {n} /\ Created' = Created \cup {n}
        /\ todo[1].under \in Place /\ todo[1].src \in Used
        /\ \A m \in Node : /\ name'[m] = IF m = n THEN label ELSE name[m]
                           /\ copyOf'[m] = IF m = n THEN todo[1].src ELSE copyOf[m]
        /\ \A p \in Place : /\ n \notin ToSet(kids[p])
                            /\ kids'[p] = IF p = todo[1].under THEN Append(kids[p], n) ELSE kids[p]
                            /\ ToSet(kids'[p]) = IF p = todo[1].under THEN ToSet(kids[p]) \cup {n} ELSE ToSet(kids[p])
    BY <1>0, <1>3, CreateIs
  <2>3. /\ todo \in Seq(Frame) /\ Len(made) < Len(request.sources)
        /\ rest = SubSeq(request.sources, Len(made) + 2, Len(request.sources))
        /\ \A i \in DOMAIN todo : todo[i].src \in Used
        /\ IF root = NULL
             THEN todo = <<[src |-> request.sources[Now], under |-> request.target]>>
             ELSE /\ root \in Created /\ copyOf[root] = request.sources[Now]
                  /\ \A i \in DOMAIN todo : todo[i].under \in Created \ ToSet(made)
        /\ kids[request.target] = IF root = NULL THEN before[request.target] \o made
                                  ELSE Append(before[request.target] \o made, root)
        /\ \A p \in Place \ Created : p # request.target => kids[p] = before[p]
    BY <1>b, <2>1 DEF CopyingInv, Copying
  <2>4. request.kind = "copy" /\ request.target \in Place /\ request.target \notin Created /\ n # NULL
    BY <1>0, <2>1, TargetIsOld, BulkSizes DEF RequestInv
  <2>5. n \notin ToSet(made)
    BY <1>0, <1>3, <2>4, NewNodeKeeps
  <2>6. DOMAIN todo = 1..Len(todo) /\ DOMAIN todo' = 1..Len(todo)
    BY <2>1, <2>3
  <2>7. Now' = Now
    BY <2>1 DEF Now
  <2>8. todo'[1].src = todo[1].src /\ todo'[1].under = n
    BY <2>1
  <2>9. \A i \in DOMAIN todo' : i = 1 \/ (i \in 2..Len(todo) /\ i \in DOMAIN todo /\ todo'[i] = todo[i])
    BY <2>1, <2>6
  <2>10. \A i \in DOMAIN todo' : todo'[i].src \in Used'
    BY <2>2, <2>3, <2>8, <2>9
  <2>11. root' # NULL /\ root' \in Created' /\ copyOf'[root'] = request.sources[Now]
    <3>1. CASE root = NULL
      <4>1. todo[1].src = request.sources[Now]
        BY <2>3, <3>1
      <4> QED
        BY <2>1, <2>2, <2>4, <3>1, <4>1
    <3>2. CASE root # NULL
      <4>1. root \in Node /\ root # n
        BY <2>2, <2>3, <3>2 DEF Created
      <4> QED
        BY <2>1, <2>2, <2>3, <3>2, <4>1
    <3> QED
      BY <3>1, <3>2
  <2>12. \A i \in DOMAIN todo' : todo'[i].under \in Created' \ ToSet(made) /\ (i # 1 => todo'[i].under # n)
    <3>1. CASE root = NULL
      <4>1. Len(todo) = 1
        BY <2>3, <3>1
      <4>2. \A i \in DOMAIN todo' : i = 1
        BY <2>6, <4>1
      <4> QED
        BY <2>2, <2>5, <2>8, <4>2
    <3>2. CASE root # NULL
      BY <2>2, <2>3, <2>5, <2>8, <2>9, <3>2
    <3> QED
      BY <3>1, <3>2
  <2>13. kids'[request.target] = Append(before[request.target] \o made, root')
    <3>1. CASE root = NULL
      <4>1. todo[1].under = request.target
        BY <2>3, <3>1
      <4> QED
        BY <2>1, <2>2, <2>3, <2>4, <3>1, <4>1
    <3>2. CASE root # NULL
      <4>1. todo[1].under \in Created
        <5>1. 1 \in DOMAIN todo
          BY <2>1, <2>6
        <5>2. \A i \in DOMAIN todo : todo[i].under \in Created
          BY <2>3, <3>2
        <5> QED
          BY <5>1, <5>2
      <4> QED
        BY <2>1, <2>2, <2>3, <2>4, <3>2, <4>1
    <3> QED
      BY <3>1, <3>2
  <2>14. \A p \in Place \ Created' : p # request.target => kids'[p] = before[p]
    <3>1. todo[1].under = request.target \/ todo[1].under \in Created
      BY <2>1, <2>3, <2>6
    <3> QED
      BY <2>2, <2>3, <3>1
  <2>15. copyOf'[n] = todo[1].src /\ todo'[1].src # todo'[1].under
    BY <2>1, <2>2, <2>8
  <2>16. todo' # <<>>
    BY <2>1
  <2> QED
    BY <2>1, <2>3, <2>7, <2>8, <2>10, <2>11, <2>12, <2>13, <2>14, <2>15, <2>16 DEF CopyingInv
<1>4. CASE ListChildren
  <2> DEFINE c == Len(kids[todo[1].src])
             row == kids[todo[1].src]
  <2>1. /\ step = "list" /\ (step' = "fetch" \/ step' = "copied") /\ (step' = "copied" <=> todo' = <<>>)
        /\ UNCHANGED <<kids, name, copyOf, request, rest, root, made, before>>
        /\ Len(todo) \in Nat \ {0} /\ c \in Nat
        /\ todo[1].src \in Place /\ todo[1].under \in Place /\ row \in Seq(Node)
        /\ todo' \in Seq(Frame) /\ Len(todo') = c + Len(todo) - 1
        /\ \A i \in 1..c : todo'[i] = [src |-> row[i], under |-> todo[1].under]
        /\ \A i \in (c + 1)..Len(todo') : todo'[i] = todo[i - c + 1] /\ i - c + 1 \in 2..Len(todo)
    BY <1>0, <1>4, ListIs
  <2>2. /\ Created' = Created /\ Used' = Used /\ Now' = Now
    BY <2>1 DEF Created, Used, Now
  <2>3. /\ todo \in Seq(Frame) /\ root # NULL
        /\ \A i \in DOMAIN todo : todo[i].src \in Used /\ todo[i].under \in Created \ ToSet(made)
    BY <1>b, <2>1 DEF CopyingInv, Copying
  <2>4. \A i \in 1..c : row[i] \in Used
    <3>1. ToSet(row) \subseteq Used
      BY <1>0, <2>1 DEF TreeInv
    <3>2. \A i \in 1..c : row[i] \in ToSet(row)
      BY <2>1, ToSetIs
    <3> QED
      BY <3>1, <3>2
  <2> HIDE DEF c, row
  <2>5. DOMAIN todo = 1..Len(todo) /\ DOMAIN todo' = 1..Len(todo')
    BY <2>1, <2>3
  <2>6. \A i \in DOMAIN todo' : todo'[i].src \in Used /\ todo'[i].under \in Created \ ToSet(made)
    <3> SUFFICES ASSUME NEW i \in 1..Len(todo')
                 PROVE  todo'[i].src \in Used /\ todo'[i].under \in Created \ ToSet(made)
      BY <2>5
    <3>1. CASE i \in 1..c
      <4>1. todo'[i].src = row[i] /\ todo'[i].under = todo[1].under
        <5>1. todo'[i] = [src |-> row[i], under |-> todo[1].under]
          BY <2>1, <3>1
        <5> QED
          BY <5>1
      <4>2. 1 \in DOMAIN todo
        BY <2>1, <2>5
      <4> QED
        BY <2>3, <2>4, <3>1, <4>1, <4>2
    <3>2. CASE i \in (c + 1)..Len(todo')
      <4>1. todo'[i] = todo[i - c + 1] /\ i - c + 1 \in DOMAIN todo
        BY <2>1, <2>5, <3>2
      <4> QED
        BY <2>3, <4>1
    <3> QED
      BY <2>1, <3>1, <3>2
  <2> QED
    BY <1>b, <2>1, <2>2, <2>3, <2>6 DEF CopyingInv, Copying
<1>5. CASE Copied
  <2>1. /\ UNCHANGED <<kids, name, copyOf, request, before>> /\ step = "copied"
        /\ Len(made') = Len(made) + 1 /\ Len(made) \in Nat
        /\ kids[request.target] = before[request.target] \o made'
        /\ root' = NULL /\ request \in Requests
    BY <1>5, CopiedIs
  <2>2. request.sources \in Seq(Existed) /\ request.target \in Place
    BY <2>1, RequestIs
  <2>3. /\ Len(made) < Len(request.sources)
        /\ rest = SubSeq(request.sources, Len(made) + 2, Len(request.sources))
        /\ \A p \in Place \ Created : p # request.target => kids[p] = before[p]
    BY <1>b, <2>1 DEF CopyingInv, Copying
  <2>4. CASE rest = <<>>
    <3>1. step' \in {"ok", "place"}
      BY <1>5, <2>4 DEF Copied
    <3> QED
      BY <3>1 DEF CopyingInv, Copying
  <2>5. CASE rest # <<>>
    <3>1. /\ step' = "fetch" /\ todo' = <<[src |-> Head(rest), under |-> request.target]>>
          /\ rest' = Tail(rest)
      BY <1>5, <2>5 DEF Copied
    <3>2. /\ Len(made) + 1 < Len(request.sources)
          /\ Head(rest) = request.sources[Len(made) + 2]
          /\ Tail(rest) = SubSeq(request.sources, Len(made) + 3, Len(request.sources))
      BY <2>1, <2>2, <2>3, <2>5, RestIs
    <3>3. request.sources[Len(made) + 2] \in Existed
      BY <2>1, <2>2, <3>2
    <3>4. Now' = Len(made) + 2 /\ Len(made') + 2 = Len(made) + 3
      BY <2>1 DEF Now
    <3>5. todo' = <<[src |-> request.sources[Now'], under |-> request.target]>>
      BY <3>1, <3>2, <3>4
    <3>6. /\ todo' \in Seq(Frame) /\ todo' # <<>> /\ DOMAIN todo' = {1} /\ todo'[1].src \in Existed
      BY <2>2, <3>3, <3>4, <3>5, FirstFrame, BulkSizes
    <3>7. \A i \in DOMAIN todo' : todo'[i].src \in Used'
      BY <1>b, <2>1, <3>6 DEF Used
    <3>8. Created' = Created
      BY <2>1 DEF Created
    <3>9. Len(made') < Len(request'.sources) /\ rest' = SubSeq(request'.sources, Len(made') + 2, Len(request'.sources))
      BY <2>1, <3>1, <3>2, <3>4
    <3> QED
      BY <2>1, <2>3, <3>1, <3>5, <3>6, <3>7, <3>8, <3>9 DEF CopyingInv
  <2> QED
    BY <2>4, <2>5
<1>6. ASSUME NEW n \in Node, CopyFails \/ CreateLost(n) PROVE CopyingInv'
  <2>1. RollBack(made)
    BY <1>6 DEF CopyFails, CreateLost, GiveUpCopy
  <2> QED
    BY <2>1, RollsBack DEF CopyingInv, Copying
<1>7. CASE CopyFails
  <2>1. RollBack(made)
    BY <1>7 DEF CopyFails, GiveUpCopy
  <2> QED
    BY <2>1, RollsBack DEF CopyingInv, Copying
<1>8. CASE FetchOrigins \/ MoveNext \/ Reorder
  <2>1. step' \in {"move", "failed", "place", "ok", "misplaced"}
    BY <1>8 DEF FetchOrigins, MoveNext, Reorder
  <2> QED
    BY <2>1 DEF CopyingInv, Copying
<1>9. CASE MoveLost \/ MoveFails \/ FetchSiblings \/ RollbackCreated \/ RollbackMoved
  <2>1. step' \in {"failed", "undo", "reorder"}
    BY <1>9 DEF MoveLost, MoveFails, FetchSiblings, RollbackCreated, RollbackMoved, RollBack
  <2> QED
    BY <2>1 DEF CopyingInv, Copying
<1> QED
  BY <1>1, <1>2, <1>3, <1>4, <1>5, <1>6, <1>7, <1>8, <1>9 DEF Next

-----------------------------------------------------------------------------
(* Rolling back a copy                                                     *)

(* The rows without the copies                                             *)
OldRows == \A p \in Place : Without(kids[p], Node \ Existed) = before[p]

(* The nodes that were there stay where they were.                         *)
LEMMA OldRowsStep ==
    ASSUME BulkInv, Next, request'.kind = "copy", step' \notin {"ok", "misplaced"}
    PROVE  OldRows'
<1>0. BeforeInv /\ TreeInv /\ RequestInv /\ FramesInv /\ NamesInv /\ CopyUndoInv /\ MoveInv /\ PlaceInv
  BY Parts
<1>b. before' = before
  BY <1>0, BeforeStep
<1>1. ASSUME NEW r \in Requests, Begin(r) PROVE OldRows'
  <2>1. kids' = kids /\ kids = before
    BY <1>0, <1>1 DEF Begin, tree, RequestInv
  <2>2. \A p \in Place : before[p] \in Seq(Existed) /\ ToSet(before[p]) \cap (Node \ Existed) = {}
    BY <1>0, ToSetIs DEF BeforeInv
  <2> QED
    BY <1>b, <2>1, <2>2, WithoutNone DEF OldRows
<1>2. ASSUME UNCHANGED <<kids, request>>, step \notin {"ok", "misplaced"} PROVE OldRows'
  BY <1>0, <1>b, <1>2 DEF CopyUndoInv, OldRows
<1>3. CASE FetchSource \/ ListChildren \/ Copied \/ CopyFails \/ FetchSiblings
  <2>1. UNCHANGED <<kids, request>> /\ step \notin {"ok", "misplaced"}
    BY <1>3 DEF FetchSource, ListChildren, Copied, CopyFails, FetchSiblings, tree
  <2> QED
    BY <1>2, <2>1
<1>4. ASSUME NEW n \in Node, CreateNode(n) \/ CreateLost(n) PROVE OldRows'
  <2>1. step = "create" /\ request' = request
    BY <1>4 DEF CreateNode, CreateLost
  <2>2. \A p \in Place : Without(kids[p], Node \ Existed) = before[p]
    BY <1>0, <2>1 DEF CopyUndoInv, RequestInv
  <2>3. /\ n \in Node /\ n \notin Existed
        /\ \A p \in Place : /\ n \notin ToSet(kids[p])
                            /\ kids'[p] = IF p = todo[1].under THEN Append(kids[p], n) ELSE kids[p]
                            /\ ToSet(kids'[p]) = IF p = todo[1].under THEN ToSet(kids[p]) \cup {n} ELSE ToSet(kids[p])
    BY <1>0, <1>4, CreateIs
  <2>4. \A p \in Place : kids[p] \in Seq(Node)
    BY <1>0 DEF TreeInv, Forest
  <2>5. \A p \in Place : Without(Append(kids[p], n), Node \ Existed) = Without(kids[p], Node \ Existed)
    BY <2>3, <2>4, WithoutAppend
  <2> QED
    BY <1>b, <2>2, <2>3, <2>5 DEF OldRows
<1>5. CASE RollbackCreated
  <2>1. step = "undo" /\ request' = request
    BY <1>5 DEF RollbackCreated
  <2>2. undo[1] \in Created /\ request.kind = "copy"
    BY <1>0, <1>5, TopCreated
  <2>3. undo[1] \in Node \ Existed
    BY <1>0, <2>2 DEF TreeInv, Created
  <2>4. \A p \in Place : Without(kids[p], Node \ Existed) = before[p]
    BY <1>0, <2>1, <2>2 DEF CopyUndoInv
  <2>5. \A p \in Place : kids[p] \in Seq(Node)
    BY <1>0 DEF TreeInv, Forest
  <2>6. \A p \in Place : Without(Without(kids[p], {undo[1]}), Node \ Existed) = Without(kids[p], Node \ Existed)
    <3> SUFFICES ASSUME NEW p \in Place
                 PROVE  Without(Without(kids[p], {undo[1]}), Node \ Existed) = Without(kids[p], Node \ Existed)
      OBVIOUS
    <3>1. {undo[1]} \in SUBSET (Node \ Existed) /\ kids[p] \in Seq(Node)
      BY <2>3, <2>5
    <3> QED
      BY <3>1, WithoutTwice
  <2>7. kids' = kids \/ \A p \in Place : kids'[p] = Without(kids[p], {undo[1]})
    BY <1>0, <1>5, Deleted
  <2> QED
    BY <1>b, <2>4, <2>6, <2>7 DEF OldRows
<1>6. CASE Reorder
  <2>1. step' \in {"ok", "misplaced"}
    BY <1>6 DEF Reorder
  <2> QED
    BY <2>1
<1>7. CASE FetchOrigins \/ MoveNext \/ MoveLost \/ MoveFails \/ RollbackMoved
  <2>1. request.kind = "move" /\ UNCHANGED request
    BY <1>0, <1>7 DEF FetchOrigins, MoveNext, MoveLost, MoveFails, RollbackMoved, RequestInv
  <2> QED
    BY <2>1
<1> QED
  BY <1>1, <1>3, <1>4, <1>5, <1>6, <1>7 DEF Next

(* What the roll-back of a copy did away with                              *)
Undone == ~spoiled => \A n \in ToSet(made) \ ToSet(undo) : n \notin InTree \/ kids[n] # <<>>

(* A copy that is a leaf is deleted when its turn comes, if no call fails. *)
LEMMA UndoneStep ==
    ASSUME BulkInv, Next, request'.kind = "copy", step' \in {"undo", "failed"}
    PROVE  undo' \in Seq(Node) /\ ToSet(undo') \subseteq ToSet(made') /\ Undone'
<1>0. BeforeInv /\ TreeInv /\ RequestInv /\ FramesInv /\ NamesInv /\ CopyUndoInv /\ MoveInv /\ PlaceInv
  BY Parts
<1>1. ASSUME RollBack(made), UNCHANGED made
      PROVE  undo' \in Seq(Node) /\ ToSet(undo') \subseteq ToSet(made') /\ Undone'
  <2>1. undo' = made /\ made' = made
    BY <1>1 DEF RollBack
  <2> QED
    BY <1>0, <2>1 DEF RequestInv, Undone
<1>2. CASE CopyFails \/ \E n \in Node : CreateLost(n)
  <2>1. RollBack(made) /\ UNCHANGED made
    BY <1>2 DEF CopyFails, CreateLost, GiveUpCopy
  <2> QED
    BY <1>1, <2>1
<1>3. CASE FetchSiblings
  <2>1. request' = request /\ made' = made
    BY <1>3 DEF FetchSiblings, copying
  <2>2. RollBack(made)
    BY <1>3, <2>1 DEF FetchSiblings
  <2> QED
    BY <1>1, <2>1, <2>2
<1>4. CASE RollbackCreated
  <2> DEFINE u == undo[1]
  <2>1. /\ step = "undo" /\ request.kind = "copy" /\ request \in Requests
        /\ u \in ToSet(made) /\ Head(undo) = u /\ u \in Node
        /\ Tail(undo) \in Seq(Node) /\ ToSet(undo) = {u} \cup ToSet(Tail(undo))
    BY <1>0, <1>4, TopCreated
  <2>2. undo' = Tail(undo) /\ made' = made
    BY <1>4 DEF RollbackCreated, RollBack, copying
  <2>3. ToSet(undo) \subseteq ToSet(made) /\ Undone
    BY <1>0, <2>1 DEF CopyUndoInv, Undone
  <2>4. undo' \in Seq(Node) /\ ToSet(undo') \subseteq ToSet(made') /\ ToSet(undo) = {u} \cup ToSet(undo')
    BY <2>1, <2>2, <2>3
  <2>5. request.target \in Place /\ request.target \notin Created /\ ToSet(made) \subseteq Created
    BY <1>0, <2>1, TargetIsOld DEF FramesInv, MadeInv
  <2>6. \A n \in ToSet(made) : n \in Place /\ n # request.target /\ kids[n] \in Seq(Node) /\ u \notin ToSet(kids[n])
    <3>1. \A n \in ToSet(made) : n \in Place /\ n # request.target
      BY <2>5, BulkSizes DEF Created
    <3> QED
      BY <1>0, <2>1, <3>1 DEF FramesInv, MadeInv, TreeInv, Forest
  <2>7. CASE kids' = kids
    <3> SUFFICES ASSUME ~spoiled', NEW n \in ToSet(made) \ ToSet(undo')
                 PROVE  n \notin InTree' \/ kids'[n] # <<>>
      BY <2>2, <2>4 DEF Undone
    <3>1. InTree' = InTree
      BY <2>7 DEF InTree
    <3>2. CASE n = u
      <4>1. CASE kids[u] # <<>>
        BY <2>7, <3>2, <4>1
      <4>2. CASE kids[u] = <<>>
        <5>1. DeleteCategory(u)
          BY <1>4, <2>1, <4>2 DEF RollbackCreated
        <5>2. kids' = [kids EXCEPT ![Parent(u)] = Without(@, {u})]
          BY <5>1 DEF DeleteCategory
        <5>3. u \notin InTree
          <6> SUFFICES ASSUME NEW p \in Place, u \in ToSet(kids[p]) PROVE FALSE
            BY DEF InTree
          <6>1. Forest(kids) /\ kids[p] \in Seq(Node)
            BY <1>0 DEF TreeInv, Forest
          <6>2. Parent(u) = p
            BY <6>1, ParentIs
          <6>3. kids[p] = Without(kids[p], {u})
            BY <2>7, <5>2, <6>1, <6>2 DEF Forest
          <6>4. ToSet(Without(kids[p], {u})) = ToSet(kids[p]) \ {u}
            BY <6>1, WithoutRange
          <6> QED
            BY <6>3, <6>4
        <5> QED
          BY <3>1, <3>2, <5>3
      <4> QED
        BY <4>1, <4>2
    <3>3. CASE n # u
      <4>1. ~spoiled
        <5>1. spoiled' = spoiled \/ spoiled' = TRUE
          BY <1>4 DEF RollbackCreated
        <5> QED
          BY <1>0, <5>1 DEF RequestInv
      <4>2. n \in ToSet(made) \ ToSet(undo)
        BY <2>4, <3>3
      <4> QED
        BY <2>3, <2>7, <3>1, <4>1, <4>2 DEF Undone
    <3> QED
      BY <3>2, <3>3
  <2>8. CASE /\ kids[u] = <<>> /\ UNCHANGED spoiled
             /\ \A q \in Place : /\ kids'[q] = Without(kids[q], {u})
                                 /\ ToSet(kids'[q]) = ToSet(kids[q]) \ {u}
    <3> SUFFICES ASSUME ~spoiled, NEW n \in ToSet(made) \ ToSet(undo')
                 PROVE  n \notin InTree' \/ kids'[n] # <<>>
      BY <2>2, <2>4, <2>8 DEF Undone
    <3>1. \A x \in InTree' : x \in InTree /\ x # u
      BY <2>8 DEF InTree
    <3>2. CASE n = u
      BY <3>1, <3>2
    <3>3. CASE n # u
      <4>1. n \in ToSet(made) \ ToSet(undo)
        BY <2>4, <3>3
      <4>2. n \notin InTree \/ kids[n] # <<>>
        BY <2>3, <4>1 DEF Undone
      <4>3. kids'[n] = kids[n]
        <5>1. n \in Place /\ kids[n] \in Seq(Node) /\ ToSet(kids[n]) \cap {u} = {}
          BY <2>6
        <5>2. Without(kids[n], {u}) = kids[n]
          BY <5>1, WithoutNone
        <5> QED
          BY <2>8, <5>1, <5>2
      <4> QED
        BY <3>1, <4>2, <4>3
    <3> QED
      BY <3>2, <3>3
  <2>9. \/ kids' = kids
        \/ /\ kids[u] = <<>> /\ UNCHANGED spoiled
           /\ \A q \in Place : /\ kids'[q] = Without(kids[q], {u})
                               /\ ToSet(kids'[q]) = ToSet(kids[q]) \ {u}
    BY <1>0, <1>4, Deleted
  <2>10. Undone'
    BY <2>7, <2>8, <2>9
  <2> QED
    BY <2>4, <2>10
<1>5. CASE FetchOrigins \/ MoveNext \/ MoveLost \/ MoveFails \/ RollbackMoved
  <2>1. request.kind = "move" /\ UNCHANGED request
    BY <1>0, <1>5 DEF FetchOrigins, MoveNext, MoveLost, MoveFails, RollbackMoved, RequestInv
  <2> QED
    BY <2>1
<1>6. CASE \/ \E r \in Requests : Begin(r)
           \/ FetchSource \/ ListChildren \/ Copied \/ Reorder \/ \E n \in Node : CreateNode(n)
  <2>1. step' \notin {"undo", "failed"}
    BY <1>6 DEF Begin, FetchSource, ListChildren, Copied, Reorder, CreateNode
  <2> QED
    BY <2>1
<1> QED
  BY <1>2, <1>3, <1>4, <1>5, <1>6 DEF Next

(* Both                                                                    *)
LEMMA CopyUndoStep == ASSUME BulkInv, Next PROVE CopyUndoInv'
BY OldRowsStep, UndoneStep DEF CopyUndoInv, OldRows, Undone

-----------------------------------------------------------------------------
(* Moving, and moving back                                                 *)

(* A barrier keeps the target from being below what is moved.              *)
LEMMA BarrierIs ==
    ASSUME NEW out, Barrier(out)
    PROVE  \E S \in SUBSET ({Root} \cup Existed) : request.target \in S /\ Closed(kids, S) /\ S \cap out = {}
BY DEF Barrier

(* One more node is moved to the target.                                   *)
LEMMA MoveStands ==
    ASSUME TreeInv, BeforeInv, request \in Requests, NEW out, Stand(out),
           NEW n \in Existed, MoveCategory(n, request.target), UNCHANGED <<request, before>>
    PROVE  Stand(out \cup {n})'
<1> DEFINE t == request.target
<1>1. t \in Place /\ n \in Node
  BY RequestIs, BulkSizes
<1>2. Forest(kids)
  BY DEF TreeInv
<1>3. \A q \in Place : ToSet(kids'[q]) = IF q = t THEN ToSet(kids[q]) \cup {n} ELSE ToSet(kids[q]) \ {n}
  BY <1>1, <1>2, Moved
<1>4. \A k \in Node : Here(k, k \in out \cup {n})'
  <2> SUFFICES ASSUME NEW k \in Node, NEW p \in Place
               PROVE  k \in ToSet(kids'[p]) <=> IF k \in out \cup {n} THEN p = t ELSE k \in ToSet(before[p])
    BY DEF Here
  <2>1. k \in ToSet(kids[p]) <=> IF k \in out THEN p = t ELSE k \in ToSet(before[p])
    BY DEF Stand, Here
  <2>2. CASE k = n
    BY <1>3, <2>2
  <2>3. CASE k # n
    BY <1>3, <2>1, <2>3
  <2> QED
    BY <2>2, <2>3
<1>5. Barrier(out \cup {n})'
  <2>1. PICK S \in SUBSET ({Root} \cup Existed) : t \in S /\ Closed(kids, S) /\ S \cap out = {}
    BY BarrierIs DEF Stand
  <2>2. PICK T \in SUBSET ({Root} \cup Existed) : /\ t \in T /\ (\A k \in T \ {Root} : Parent(k) \in T)
                                                  /\ n \notin T
    BY DEF MoveCategory, Below
  <2> DEFINE B == S \cap T
  <2>3. B \in SUBSET ({Root} \cup Existed) /\ t \in B /\ B \cap (out \cup {n}) = {}
    BY <2>1, <2>2
  <2>4. Closed(kids', B)
    <3> SUFFICES ASSUME NEW p \in Place, NEW y \in ToSet(kids'[p]), y \in S, y \in T PROVE p \in S /\ p \in T
      BY DEF Closed
    <3>1. y \in ToSet(kids[p])
      BY <1>3, <2>2
    <3>2. p \in S
      BY <2>1, <3>1 DEF Closed
    <3>3. y \in Node
      BY <1>2, <3>1, ToSetIs DEF Forest
    <3>4. Parent(y) = p
      BY <1>2, <3>1, ParentIs
    <3> QED
      BY <2>2, <3>2, <3>3, <3>4, BulkSizes
  <2> QED
    BY <2>3, <2>4 DEF Barrier
<1> QED
  BY <1>4, <1>5 DEF Stand

(* Where the nodes are depends on the rows only.                           *)
LEMMA SameStand ==
    ASSUME NEW out, Stand(out), UNCHANGED <<kids, request, before>>
    PROVE  Stand(out)'
BY DEF Stand, Here, Barrier, Closed

(* A node is moved back to where it was.                                   *)
LEMMA BackStands ==
    ASSUME TreeInv, BeforeInv, NEW out, NEW n \in Existed, n \notin out, Stand(out \cup {n}),
           NEW p \in Place, n \in ToSet(before[p]), MoveCategory(n, p), UNCHANGED <<request, before>>
    PROVE  Stand(out)'
<1>1. n \in Node /\ Forest(kids) /\ Forest(before)
  BY BulkSizes DEF TreeInv, BeforeInv
<1>2. \A q \in Place : ToSet(kids'[q]) = IF q = p THEN ToSet(kids[q]) \cup {n} ELSE ToSet(kids[q]) \ {n}
  BY <1>1, Moved
<1>3. \A q \in Place : n \in ToSet(before[q]) <=> q = p
  BY <1>1 DEF Forest
<1>4. \A k \in Node : Here(k, k \in out)'
  <2> SUFFICES ASSUME NEW k \in Node, NEW q \in Place
               PROVE  k \in ToSet(kids'[q]) <=> IF k \in out THEN q = request.target ELSE k \in ToSet(before[q])
    BY DEF Here
  <2>1. k \in ToSet(kids[q]) <=> IF k \in out \cup {n} THEN q = request.target ELSE k \in ToSet(before[q])
    BY DEF Stand, Here
  <2>2. CASE k = n
    BY <1>2, <1>3, <2>2
  <2>3. CASE k # n
    BY <1>2, <2>1, <2>3
  <2> QED
    BY <2>2, <2>3
<1>5. Barrier(out)'
  <2>1. PICK S \in SUBSET ({Root} \cup Existed) :
               request.target \in S /\ Closed(kids, S) /\ S \cap (out \cup {n}) = {}
    BY BarrierIs DEF Stand
  <2>2. Closed(kids', S)
    <3> SUFFICES ASSUME NEW q \in Place, NEW y \in ToSet(kids'[q]), y \in S PROVE q \in S
      BY DEF Closed
    <3>1. y \in ToSet(kids[q])
      BY <1>2, <2>1
    <3> QED
      BY <2>1, <3>1 DEF Closed
  <2>3. S \cap out = {}
    BY <2>1
  <2> QED
    BY <2>1, <2>2, <2>3 DEF Barrier
<1> QED
  BY <1>4, <1>5 DEF Stand

(* NDR does not refuse to take a node back.                                *)
LEMMA NotBelow ==
    ASSUME TreeInv, BeforeInv, request \in Requests, NEW out, Stand(out), NEW n \in Existed, n \in out,
           NEW p \in Place, n \in ToSet(before[p])
    PROVE  ~Below(n, p)
<1>1. PICK T \in SUBSET ({Root} \cup Existed) : request.target \in T /\ Closed(kids, T) /\ T \cap out = {}
  BY BarrierIs DEF Stand
<1> DEFINE low == {m \in Existed : m < n}
           S == T \cup {Root} \cup low
<1>2. n \in Nat \ {0} /\ n <= Existing /\ Existing \in Nat /\ Forest(kids)
  BY BulkSizes DEF Existed, TreeInv
<1>3. n \notin S
  BY <1>1, <1>2 DEF Root
<1>a. \A q \in Place : \A m \in ToSet(before[q]) : m \in Existed => q \in {Root} \cup Existed /\ q < m
  <2> SUFFICES ASSUME NEW q \in Place, NEW m \in ToSet(before[q]), m \in Existed
               PROVE  q \in {Root} \cup Existed /\ q < m
    OBVIOUS
  <2>1. q < m
    BY DEF BeforeInv
  <2>2. m <= Existing /\ m \in Nat
    BY <1>2 DEF Existed
  <2>3. q = 0 \/ q \in 1..Existing
    <3>1. q \in Nat
      BY BulkSizes
    <3> QED
      BY <1>2, <2>1, <2>2, <3>1
  <2> QED
    BY <2>1, <2>3 DEF Root, Existed
<1>4. p \in S
  <2>1. p \in {Root} \cup Existed /\ p < n
    BY <1>a
  <2> QED
    BY <2>1
<1>5. ASSUME NEW m \in S, m # Root PROVE Parent(m) \in S
  <2>1. m \in Existed
    BY <1>5
  <2>2. m \in Node
    BY <2>1, BulkSizes
  <2>3. PICK q \in Place : m \in ToSet(before[q])
    BY <2>1 DEF BeforeInv
  <2>4. \A k \in Place : m \in ToSet(kids[k]) <=> IF m \in out THEN k = request.target ELSE m \in ToSet(before[k])
    BY <2>2 DEF Stand, Here
  <2>5. CASE m \in out
    <3>1. request.target \in Place
      BY RequestIs
    <3>2. m \in ToSet(kids[request.target])
      BY <2>4, <2>5, <3>1
    <3>3. Parent(m) = request.target
      BY <1>2, <3>1, <3>2, ParentIs
    <3> QED
      BY <1>1, <3>3
  <2>6. CASE m \notin out
    <3>1. m \in ToSet(kids[q])
      BY <2>3, <2>4, <2>6
    <3>2. Parent(m) = q
      BY <1>2, <3>1, ParentIs
    <3>3. CASE m \in T
      BY <1>1, <3>1, <3>2, <3>3 DEF Closed
    <3>4. CASE m \notin T
      <4>1. m < n /\ m \in Nat
        BY <1>2, <1>5, <2>1, <3>4 DEF Existed
      <4>2. q \in {Root} \cup Existed /\ q < m
        BY <1>a, <2>1, <2>3
      <4>3. q < n
        BY <1>2, <4>1, <4>2, BulkSizes
      <4> QED
        BY <3>2, <4>2, <4>3
    <3> QED
      BY <3>3, <3>4
  <2> QED
    BY <2>5, <2>6
<1>6. S \in SUBSET ({Root} \cup Existed)
  BY <1>1
<1> QED
  <2> HIDE DEF S
  <2>1. \A m \in S \ {Root} : Parent(m) \in S
    BY <1>5
  <2> QED
    BY <1>3, <1>4, <1>6, <2>1 DEF Below

(* The nodes moved, one further on                                         *)
LEMMA GoneNext ==
    ASSUME NEW k \in Nat
    PROVE  Gone(k + 1) = Gone(k) \cup {request.sources[k + 1]}
<1>1. 1..(k + 1) = (1..k) \cup {k + 1}
  OBVIOUS
<1> QED
  BY <1>1 DEF Gone

(* The records are those of the moves made.                                *)
LEMMA RecordsAre ==
    ASSUME request \in Requests, NEW k \in 0..Len(request.sources), origin \in Seq(Place),
           Len(origin) = Len(request.sources),
           \A i \in DOMAIN request.sources : request.sources[i] \in ToSet(before[origin[i]])
    PROVE  /\ Records(k) \in Seq(MoveRecord) /\ DOMAIN Records(k) = 1..k
           /\ Records(k) = <<>> => k = 0
           /\ \A r \in ToSet(Records(k)) : r.id \in ToSet(before[r.originalParent])
           /\ \A i, j \in DOMAIN Records(k) : Records(k)[i].id = Records(k)[j].id => i = j
           /\ Ids(Records(k)) = Gone(k)
<1>1. /\ request.sources \in Seq(Existed) /\ IsInjective(request.sources)
      /\ Len(request.sources) \in Nat /\ DOMAIN request.sources = 1..Len(request.sources)
  BY RequestIs
<1>2. \A i \in 1..k : /\ request.sources[i] \in Existed /\ origin[i] \in Place
                      /\ request.sources[i] \in ToSet(before[origin[i]])
  BY <1>1
<1> DEFINE rs == Records(k)
<1>3. /\ DOMAIN rs = 1..k /\ rs = [i \in 1..k |-> rs[i]]
      /\ \A i \in 1..k : rs[i] = [id |-> request.sources[i], originalParent |-> origin[i]]
  BY DEF Records, Record
<1>4. \A i \in 1..k : /\ rs[i] \in MoveRecord /\ rs[i].id = request.sources[i] /\ rs[i].originalParent = origin[i]
  BY <1>2, <1>3 DEF MoveRecord
<1> HIDE DEF rs
<1>5. rs \in Seq(MoveRecord)
  <2>1. rs \in [1..k -> MoveRecord] /\ k \in Nat
    BY <1>1, <1>3, <1>4
  <2> QED
    BY <2>1
<1>6. rs = <<>> => k = 0
  <2> SUFFICES ASSUME rs = <<>> PROVE k = 0
    OBVIOUS
  <2>1. 1..k = {}
    BY <1>3
  <2> QED
    BY <1>1, <2>1
<1>7. \A r \in ToSet(rs) : r.id \in ToSet(before[r.originalParent])
  <2>1. \A i \in 1..k : rs[i].id \in ToSet(before[rs[i].originalParent])
    BY <1>2, <1>4
  <2>2. \A r \in ToSet(rs) : \E i \in 1..k : r = rs[i]
    BY <1>3 DEF ToSet
  <2> QED
    BY <2>1, <2>2
<1>8. \A i, j \in 1..k : rs[i].id = rs[j].id => i = j
  <2> SUFFICES ASSUME NEW i \in 1..k, NEW j \in 1..k, rs[i].id = rs[j].id PROVE i = j
    OBVIOUS
  <2>1. request.sources[i] = request.sources[j] /\ i \in DOMAIN request.sources /\ j \in DOMAIN request.sources
    BY <1>1, <1>4
  <2> QED
    BY <1>1, <2>1 DEF IsInjective
<1>9. Ids(rs) = Gone(k)
  <2>1. Ids(rs) = {rs[i].id : i \in 1..k}
    BY <1>3 DEF Ids, ToSet
  <2>2. \A i \in 1..k : rs[i].id = request.sources[i]
    BY <1>4
  <2> QED
    BY <2>1, <2>2 DEF Gone
<1> QED
  BY <1>3, <1>5, <1>6, <1>7, <1>8, <1>9 DEF rs

(* Before anything is moved nothing is out of place.                       *)
LEMMA NoneOut ==
    ASSUME BeforeInv, request \in Requests, kids = before
    PROVE  Stand({})
<1>1. \A n \in Node : Here(n, n \in {})
  BY DEF Here
<1> DEFINE S == {Root} \cup Existed
<1>2. Closed(kids, S)
  <2> SUFFICES ASSUME NEW p \in Place, NEW m \in ToSet(before[p]), m \in S PROVE p \in S
    BY DEF Closed
  <2>1. before[p] \in Seq(Existed) /\ p < m
    BY DEF BeforeInv
  <2>2. m \in Existed
    BY <2>1, ToSetIs
  <2>3. p \in Nat /\ Existing \in Nat
    BY BulkSizes
  <2> QED
    BY <2>1, <2>2, <2>3 DEF Existed, Root
<1>3. request.target \in S
  BY RequestIs
<1>4. Barrier({})
  <2> HIDE DEF S
  <2>1. S \in SUBSET ({Root} \cup Existed)
    BY DEF S
  <2> QED
    BY <1>2, <1>3, <2>1 DEF Barrier
<1> QED
  BY <1>1, <1>4 DEF Stand

(* The same, with the rows there were                                      *)
LEMMA NoneOutIs ==
    ASSUME Stand({})
    PROVE  \A n \in Node : Here(n, FALSE)
BY DEF Stand, Here

(* Steps of a copy say nothing of a move.                                  *)
LEMMA OtherMoves ==
    ASSUME request'.kind # "move", step' # "origins"
    PROVE  MoveInv'
BY DEF MoveInv, MovingInv, MovedBackInv, Moving

(* What is known while nodes are moved                                     *)
LEMMA MovesAre ==
    ASSUME BulkInv, request.kind = "move", step \in {"move", "place", "reorder"}
    PROVE  /\ request \in Requests /\ moved \in 0..Len(request.sources) /\ Len(request.sources) \in Nat
           /\ origin \in Seq(Place) /\ Len(origin) = Len(request.sources)
           /\ \A i \in DOMAIN request.sources : request.sources[i] \in ToSet(before[origin[i]])
           /\ moved = Len(request.sources) <=> step # "move"
           /\ Stand(Gone(moved)) /\ request.target \in Place
           /\ Without(kids[request.target], ToSet(request.sources)) = Without(before[request.target], ToSet(request.sources))
<1>0. MoveInv /\ RequestInv
  BY Parts
<1>1. request \in Requests /\ moved \in Nat
  BY <1>0, BulkSizes DEF RequestInv
<1>2. Len(request.sources) \in Nat /\ request.target \in Place
  BY <1>1, RequestIs
<1>3. /\ moved <= Len(request.sources) /\ origin \in Seq(Place) /\ Len(origin) = Len(request.sources)
      /\ \A i \in DOMAIN request.sources : request.sources[i] \in ToSet(before[origin[i]])
  BY <1>0 DEF MoveInv
<1>4. /\ moved = Len(request.sources) <=> step # "move"
      /\ Stand(Gone(moved))
      /\ Without(kids[request.target], ToSet(request.sources)) = Without(before[request.target], ToSet(request.sources))
  BY <1>0 DEF MoveInv, MovingInv, Moving
<1> QED
  BY <1>1, <1>2, <1>3, <1>4

(* Where the nodes are, from the records                                   *)
LEMMA StandIds ==
    ASSUME NEW out, Stand(out)', Ids(undo)' = out
    PROVE  Stand(Ids(undo))'
BY DEF Stand, Here, Barrier

(* Where the nodes are, from the moves made                                *)
LEMMA StandGone ==
    ASSUME NEW out, Stand(out)', Gone(moved)' = out
    PROVE  Stand(Gone(moved))'
BY DEF Stand, Here, Barrier

(* A move that is given up leaves the records of what it did.              *)
LEMMA GivesUpMove ==
    ASSUME BulkInv, request.kind = "move", step \in {"move", "place"}, RollBack(Records(moved)),
           UNCHANGED <<kids, request, before>>
    PROVE  MoveInv'
<1>1. /\ request \in Requests /\ moved \in 0..Len(request.sources)
      /\ origin \in Seq(Place) /\ Len(origin) = Len(request.sources)
      /\ \A i \in DOMAIN request.sources : request.sources[i] \in ToSet(before[origin[i]])
      /\ Stand(Gone(moved))
  BY MovesAre
<1> DEFINE rs == Records(moved)
<1>2. /\ rs \in Seq(MoveRecord) /\ DOMAIN rs = 1..moved
      /\ rs = <<>> => moved = 0
      /\ \A r \in ToSet(rs) : r.id \in ToSet(before[r.originalParent])
      /\ \A i, j \in DOMAIN rs : rs[i].id = rs[j].id => i = j
      /\ Ids(rs) = Gone(moved)
  BY <1>1, RecordsAre
<1>3. step' \in {"failed", "undo"} /\ undo' = rs /\ step' = (IF rs = <<>> THEN "failed" ELSE "undo")
  BY DEF RollBack
<1> HIDE DEF rs
<1>4. Gone(0) = {}
  BY DEF Gone
<1>5. Stand(Ids(undo))'
  <2>1. PICK out : out = Ids(rs)
    OBVIOUS
  <2>2. Stand(out)
    BY <1>1, <1>2, <2>1
  <2>3. Stand(out)'
    BY <2>2, SameStand
  <2>4. Ids(undo') = out
    BY <1>3, <2>1
  <2> QED
    BY <2>3, <2>4, StandIds DEF Ids
<1>6. step' = "failed" => \A n \in Node : Here(n, FALSE)'
  <2> SUFFICES ASSUME step' = "failed" PROVE \A n \in Node : Here(n, FALSE)'
    OBVIOUS
  <2>1. moved = 0
    BY <1>2, <1>3
  <2>2. Stand({})
    BY <1>1, <1>4, <2>1
  <2>3. \A n \in Node : Here(n, FALSE)
    BY <2>2, NoneOutIs
  <2> QED
    BY <2>3 DEF Here
<1>7. MovedBackInv'
  <2>1. undo' \in Seq(MoveRecord)
    BY <1>2, <1>3
  <2>2. \A r \in ToSet(undo') : r.id \in ToSet(before'[r.originalParent])
    BY <1>2, <1>3
  <2>3. \A i, j \in DOMAIN undo' : undo'[i].id = undo'[j].id => i = j
    BY <1>2, <1>3
  <2>4. Stand(Ids(undo))'
    BY <1>5
  <2> QED
    BY <2>1, <2>2, <2>3, <2>4 DEF MovedBackInv
<1> QED
  BY <1>3, <1>6, <1>7 DEF MoveInv, MovingInv, Moving

(* A move                                                                  *)
LEMMA MoveNextMoves ==
    ASSUME BulkInv, MoveNext
    PROVE  MoveInv'
<1>0. TreeInv /\ BeforeInv /\ RequestInv /\ MoveInv
  BY Parts
<1>1. /\ step = "move" /\ moved' = moved + 1 /\ UNCHANGED <<request, origin, before>>
      /\ step' = IF moved' = Len(request.sources) THEN "place" ELSE "move"
      /\ MoveCategory(request.sources[moved + 1], request.target)
  BY DEF MoveNext
<1>2. /\ request \in Requests /\ request.kind = "move" /\ moved \in Nat
      /\ moved + 1 \in 1..Len(request.sources) /\ request.sources[moved + 1] \in Existed
      /\ request.target \in Place /\ Len(request.sources) \in Nat
  BY <1>0, <1>1, NextMoveIs
<1>3. /\ moved \in 0..Len(request.sources)
      /\ origin \in Seq(Place) /\ Len(origin) = Len(request.sources)
      /\ \A i \in DOMAIN request.sources : request.sources[i] \in ToSet(before[origin[i]])
      /\ Stand(Gone(moved))
      /\ Without(kids[request.target], ToSet(request.sources)) = Without(before[request.target], ToSet(request.sources))
  BY <1>1, <1>2, MovesAre
<1> DEFINE n == request.sources[moved + 1]
           t == request.target
           S == ToSet(request.sources)
<1>4. Stand(Gone(moved))'
  <2>1. PICK out : out = Gone(moved)
    OBVIOUS
  <2>2. PICK m : m = n
    OBVIOUS
  <2>3. Stand(out) /\ m \in Existed /\ MoveCategory(m, t)
    BY <1>1, <1>2, <1>3, <2>1, <2>2
  <2> HIDE DEF n, t
  <2>4. Stand(out \cup {m})'
    BY <1>0, <1>1, <1>2, <2>3, MoveStands DEF t
  <2>5. Gone(moved + 1) = Gone(moved) \cup {request.sources[moved + 1]}
    BY <1>2, GoneNext
  <2>6. Gone(moved)' = out \cup {m}
    <3>1. Gone(moved)' = {request.sources[i] : i \in 1..(moved + 1)}
      BY <1>1 DEF Gone
    <3> QED
      BY <2>1, <2>2, <2>5, <3>1 DEF Gone, n
  <2>7. PICK all : all = out \cup {m}
    OBVIOUS
  <2>8. Stand(all)' /\ Gone(moved)' = all
    BY <2>4, <2>6, <2>7
  <2> QED
    BY <2>8, StandGone
<1>5. Without(kids'[t], S) = Without(before[t], S)
  <2>1. Forest(kids) /\ n \in Node /\ n \in S
    <3>1. request.sources \in Seq(Existed)
      BY <1>2, RequestIs
    <3>2. n \in S
      BY <1>2, <3>1, ToSetIs
    <3> QED
      BY <1>0, <1>2, <3>2, BulkSizes DEF TreeInv
  <2>2. MoveCategory(n, t) /\ t \in Place
    BY <1>1, <1>2
  <2> HIDE DEF n, t, S
  <2>3. kids'[t] = Append(Without(kids[t], {n}), n)
    BY <2>1, <2>2, Moved
  <2>4. kids[t] \in Seq(Node)
    BY <2>1, <2>2 DEF Forest
  <2> DEFINE w == Without(kids[t], {n})
  <2>5. w \in Seq(Node)
    BY <2>4, WithoutRange
  <2>6. {n} \in SUBSET S
    BY <2>1
  <2>7. Without(w, S) = Without(kids[t], S)
    BY <2>4, <2>6, WithoutTwice
  <2> HIDE DEF w
  <2>8. Without(Append(w, n), S) = Without(w, S)
    BY <2>1, <2>5, WithoutAppend
  <2>9. kids'[t] = Append(w, n)
    BY <2>3 DEF w
  <2>10. Without(kids[t], S) = Without(before[t], S)
    BY <1>3 DEF t, S
  <2> QED
    BY <2>7, <2>8, <2>9, <2>10
<1>6. /\ step' \in {"move", "place"} /\ moved' <= Len(request'.sources)
      /\ moved' = Len(request'.sources) <=> step' # "move"
  BY <1>1, <1>2
<1>7. MovingInv'
  <2>1. Without(kids'[request'.target], ToSet(request'.sources)) = Without(before'[request'.target], ToSet(request'.sources))
    BY <1>1, <1>5
  <2> QED
    BY <1>4, <1>6, <2>1 DEF MovingInv
<1>8. origin' \in Seq(Place) /\ Len(origin') = Len(request'.sources)
      /\ \A i \in DOMAIN request'.sources : request'.sources[i] \in ToSet(before'[origin'[i]])
  BY <1>1, <1>3
<1> QED
  BY <1>6, <1>7, <1>8 DEF MoveInv, MovedBackInv

(* The parents are fetched before any move.                                *)
LEMMA FetchOriginsMoves ==
    ASSUME BulkInv, FetchOrigins
    PROVE  MoveInv'
<1>0. TreeInv /\ BeforeInv /\ RequestInv /\ MoveInv
  BY Parts
<1>1. /\ step = "origins" /\ UNCHANGED <<kids, request, before, moved, undo>>
      /\ \/ /\ origin' = [i \in DOMAIN request.sources |-> Parent(request.sources[i])]
            /\ step' = "move"
         \/ step' = "failed"
  BY DEF FetchOrigins, tree
<1>2. kids = before /\ moved = 0
  BY <1>0, <1>1 DEF MoveInv
<1>3. request \in Requests /\ request.kind = "move"
  BY <1>0, <1>1 DEF RequestInv
<1>4. Stand({}) /\ Gone(moved) = {}
  <2>1. Stand({})
    BY <1>0, <1>2, <1>3, NoneOut
  <2> QED
    BY <1>2, <2>1 DEF Gone
<1>5. CASE step' = "failed"
  <2>1. \A n \in Node : Here(n, FALSE)
    BY <1>4, NoneOutIs
  <2>2. (\A n \in Node : Here(n, FALSE))'
    BY <1>1, <2>1 DEF Here
  <2> QED
    BY <1>5, <2>2 DEF MoveInv, MovingInv, MovedBackInv, Moving
<1>6. CASE step' = "move" /\ origin' = [i \in DOMAIN request.sources |-> Parent(request.sources[i])]
  <2>1. /\ request.sources \in Seq(Existed) /\ Len(request.sources) \in Nat \ {0}
        /\ DOMAIN request.sources = 1..Len(request.sources)
    BY <1>3, RequestIs
  <2>2. Forest(kids)
    BY <1>0 DEF TreeInv
  <2>3. \A i \in 1..Len(request.sources) :
            origin'[i] \in Place /\ request.sources[i] \in ToSet(before[origin'[i]])
    <3> SUFFICES ASSUME NEW i \in 1..Len(request.sources)
                 PROVE  origin'[i] \in Place /\ request.sources[i] \in ToSet(before[origin'[i]])
      OBVIOUS
    <3>1. request.sources[i] \in Existed /\ origin'[i] = Parent(request.sources[i])
      BY <1>6, <2>1
    <3>2. PICK p \in Place : request.sources[i] \in ToSet(before[p])
      BY <1>0, <3>1 DEF BeforeInv
    <3>3. PICK n : n = request.sources[i]
      OBVIOUS
    <3>4. n \in ToSet(kids[p])
      BY <1>2, <3>2, <3>3
    <3>5. Parent(n) = p
      BY <2>2, <3>4, ParentIs
    <3> QED
      BY <3>1, <3>2, <3>3, <3>5
  <2>4. origin' \in Seq(Place) /\ Len(origin') = Len(request.sources)
    <3>1. origin' = [i \in 1..Len(request.sources) |-> Parent(request.sources[i])]
      BY <1>6, <2>1
    <3>2. origin' \in [1..Len(request.sources) -> Place]
      BY <2>3, <3>1
    <3> QED
      BY <2>1, <3>2
  <2>5. Stand(Gone(moved))'
    <3>1. Stand({})'
      BY <1>1, <1>4, SameStand
    <3>2. Gone(moved)' = {}
      BY <1>1, <1>4 DEF Gone
    <3> QED
      BY <3>1, <3>2, StandGone
  <2>6. MovingInv'
    BY <1>1, <1>2, <1>6, <2>1, <2>5 DEF MovingInv
  <2>7. moved' <= Len(request'.sources)
    BY <1>1, <1>2, <2>1
  <2> QED
    BY <1>1, <1>6, <2>1, <2>3, <2>4, <2>6, <2>7 DEF MoveInv, MovedBackInv
<1> QED
  BY <1>1, <1>5, <1>6

(* A move back                                                             *)
LEMMA RollbackMovedMoves ==
    ASSUME BulkInv, RollbackMoved
    PROVE  MoveInv'
<1>0. TreeInv /\ BeforeInv /\ RequestInv /\ MoveInv
  BY Parts
<1>1. /\ step = "undo" /\ request.kind = "move" /\ request \in Requests
      /\ undo \in Seq(MoveRecord)
      /\ undo # <<>> /\ Len(undo) >= 1 /\ Head(undo) = undo[1]
      /\ undo[1].id \in Existed /\ undo[1].originalParent \in Place
      /\ Len(Tail(undo)) = Len(undo) - 1 /\ Tail(undo) \in Seq(MoveRecord)
      /\ \A i \in 1..(Len(undo) - 1) : Tail(undo)[i] = undo[i + 1]
      /\ ToSet(undo) = {undo[1]} \cup ToSet(Tail(undo))
  BY <1>0, TopRecord DEF MoveRecord
<1> DEFINE n == undo[1].id
           p == undo[1].originalParent
           rest1 == Tail(undo)
<1>2. /\ UNCHANGED <<request, before, lost>> /\ undo' = rest1
      /\ step' = (IF rest1 = <<>> THEN "failed" ELSE "undo")
      /\ \/ MoveCategory(n, p) /\ spoiled' = spoiled
         \/ spoiled \/ ~Below(n, p) => spoiled'
  BY <1>1 DEF RollbackMoved, RollBack
<1> HIDE DEF n, p, rest1
<1>3. n \in Existed /\ p \in Place /\ rest1 \in Seq(MoveRecord) /\ step' \in {"failed", "undo"}
  BY <1>1, <1>2 DEF n, p, rest1
<1>4. CASE lost \/ spoiled
  <2>a. lost' = lost
    BY <1>2
  <2>b. spoiled => spoiled'
    BY <1>2
  <2>1. lost' \/ spoiled'
    BY <1>4, <2>a, <2>b
  <2> QED
    BY <1>2, <1>3, <2>1 DEF MoveInv, MovingInv, MovedBackInv, Moving
<1>5. CASE ~lost /\ ~spoiled
  <2>1. /\ \A r \in ToSet(undo) : r.id \in ToSet(before[r.originalParent])
        /\ \A i, j \in DOMAIN undo : undo[i].id = undo[j].id => i = j
        /\ Stand(Ids(undo))
    BY <1>0, <1>1, <1>5 DEF MoveInv, MovedBackInv
  <2>2. PICK out : out = Ids(rest1)
    OBVIOUS
  <2>3. Ids(undo) = out \cup {n}
    BY <1>1, <2>2 DEF Ids, n, rest1
  <2>4. n \notin out
    <3> SUFFICES ASSUME n \in out PROVE FALSE
      OBVIOUS
    <3>1. PICK r \in ToSet(rest1) : r.id = n
      BY <2>2 DEF Ids
    <3>2. PICK i \in 1..Len(rest1) : rest1[i] = r
      BY <1>3, ToSetIs
    <3>3. i \in 1..(Len(undo) - 1) /\ undo[i + 1].id = undo[1].id
      BY <1>1, <3>1, <3>2 DEF rest1, n
    <3>4. i + 1 \in DOMAIN undo /\ 1 \in DOMAIN undo
      BY <1>1, <3>3
    <3> QED
      BY <2>1, <3>3, <3>4
  <2>5. n \in ToSet(before[p])
    BY <1>1, <2>1 DEF n, p
  <2>6. Stand(out \cup {n})
    BY <2>1, <2>3
  <2>7. CASE spoiled'
    BY <1>2, <1>3, <2>7 DEF MoveInv, MovingInv, MovedBackInv, Moving
  <2>8. CASE ~spoiled'
    <3>1. ~Below(n, p)
      <4>1. PICK k : k = n
        OBVIOUS
      <4>2. PICK all : all = out \cup {n}
        OBVIOUS
      <4>3. PICK q : q = p
        OBVIOUS
      <4>4. Stand(all) /\ k \in all /\ k \in Existed /\ q \in Place /\ k \in ToSet(before[q])
        BY <1>3, <2>5, <2>6, <4>1, <4>2, <4>3
      <4>5. ~Below(k, q)
        BY <1>0, <1>1, <4>4, NotBelow
      <4> QED
        BY <4>1, <4>3, <4>5
    <3>2. MoveCategory(n, p)
      BY <1>2, <2>8, <3>1
    <3>3. Stand(out)'
      <4>1. PICK k : k = n
        OBVIOUS
      <4>2. PICK q : q = p
        OBVIOUS
      <4>3. /\ Stand(out \cup {k}) /\ k \notin out /\ k \in Existed /\ q \in Place /\ k \in ToSet(before[q])
            /\ MoveCategory(k, q)
        BY <1>3, <2>4, <2>5, <2>6, <3>2, <4>1, <4>2
      <4>4. UNCHANGED <<request, before>>
        BY <1>2
      <4> QED
        BY <1>0, <4>3, <4>4, BackStands
    <3>4. Ids(undo)' = out
      BY <1>2, <2>2 DEF Ids
    <3>5. Stand(Ids(undo))'
      BY <3>3, <3>4, StandIds
    <3>6. CASE step' = "failed"
      <4>1. rest1 = <<>>
        BY <1>2, <3>6
      <4>2. out = {}
        BY <2>2, <4>1 DEF Ids, ToSet
      <4>3. (\A m \in Node : Here(m, FALSE))'
        BY <3>3, <4>2 DEF Stand, Here
      <4> QED
        BY <3>6, <4>3 DEF MoveInv, MovingInv, MovedBackInv, Moving
    <3>7. CASE step' = "undo"
      <4>1. undo' \in Seq(MoveRecord)
        BY <1>2, <1>3
      <4>2. \A r \in ToSet(rest1) : r.id \in ToSet(before[r.originalParent])
        BY <1>1, <2>1 DEF rest1
      <4>3. \A i, j \in DOMAIN rest1 : rest1[i].id = rest1[j].id => i = j
        <5>1. \A i \in DOMAIN rest1 : i \in Nat /\ i + 1 \in DOMAIN undo /\ rest1[i] = undo[i + 1]
          BY <1>1 DEF rest1
        <5> SUFFICES ASSUME NEW i \in DOMAIN rest1, NEW j \in DOMAIN rest1, rest1[i].id = rest1[j].id
                     PROVE  i = j
          OBVIOUS
        <5>2. i + 1 = j + 1
          BY <2>1, <5>1
        <5> QED
          BY <5>1, <5>2
      <4>4. \A r \in ToSet(undo') : r.id \in ToSet(before'[r.originalParent])
        BY <1>2, <4>2
      <4>5. \A i, j \in DOMAIN undo' : undo'[i].id = undo'[j].id => i = j
        BY <1>2, <4>3
      <4> QED
        BY <3>5, <3>7, <4>1, <4>4, <4>5 DEF MoveInv, MovingInv, MovedBackInv, Moving
    <3> QED
      BY <1>3, <3>6, <3>7
  <2> QED
    BY <2>7, <2>8
<1> QED
  BY <1>4, <1>5

(* Nodes are where the records say.                                        *)
LEMMA MoveStep ==
    ASSUME BulkInv, Next
    PROVE  MoveInv'
<1>0. TreeInv /\ BeforeInv /\ RequestInv /\ MoveInv
  BY Parts
<1>a. /\ step = "idle" => request = Idle /\ kids = before /\ moved = 0
      /\ step \in {"fetch", "create", "list", "copied"} => request.kind = "copy"
      /\ step \in {"origins", "move"} => request.kind = "move"
      /\ step # "idle" => request.kind \in {"copy", "move"}
  BY <1>0, RequestIs DEF RequestInv
<1>1. ASSUME NEW r \in Requests, Begin(r) PROVE MoveInv'
  <2>1. /\ UNCHANGED <<kids, before, moved>> /\ request' = r /\ step = "idle"
        /\ r.kind = "copy" => step' = "fetch"
        /\ r.kind # "copy" => step' = "origins"
    BY <1>1 DEF Begin, tree, moving
  <2>2. r.kind \in {"copy", "move"}
    BY RequestIs
  <2> QED
    BY <1>a, <2>1, <2>2 DEF MoveInv, MovingInv, MovedBackInv, Moving
<1>2. ASSUME NEW n, \/ FetchSource \/ ListChildren \/ Copied \/ CopyFails
                     \/ CreateNode(n) \/ CreateLost(n) \/ RollbackCreated
      PROVE  MoveInv'
  <2>1. request' = request /\ request.kind = "copy" /\ step' # "origins"
    BY <1>a, <1>2 DEF FetchSource, ListChildren, Copied, CopyFails, CreateNode, CreateLost, RollbackCreated,
                      GiveUpCopy, RollBack
  <2> QED
    BY <2>1, OtherMoves
<1>3. CASE MoveFails
  <2>1. /\ step = "move" /\ RollBack(Records(moved)) /\ UNCHANGED <<kids, request, before>>
    BY <1>3 DEF MoveFails, tree
  <2> QED
    BY <1>a, <2>1, GivesUpMove
<1>4. CASE MoveLost
  <2>1. /\ step = "move" /\ RollBack(Records(moved)) /\ lost' /\ UNCHANGED request
    BY <1>4 DEF MoveLost
  <2>2. /\ request \in Requests /\ moved \in 0..Len(request.sources)
        /\ origin \in Seq(Place) /\ Len(origin) = Len(request.sources)
        /\ \A i \in DOMAIN request.sources : request.sources[i] \in ToSet(before[origin[i]])
    BY <1>a, <2>1, MovesAre
  <2>3. Records(moved) \in Seq(MoveRecord)
    BY <2>2, RecordsAre
  <2>4. undo' = Records(moved) /\ step' \in {"failed", "undo"}
    BY <2>1 DEF RollBack
  <2> QED
    BY <2>1, <2>3, <2>4 DEF MoveInv, MovingInv, MovedBackInv, Moving
<1>5. CASE FetchSiblings
  <2>1. /\ step = "place" /\ UNCHANGED <<kids, request, before, moved, origin>>
        /\ \/ step' = "reorder"
           \/ RollBack(IF request.kind = "copy" THEN made ELSE Records(moved))
    BY <1>5 DEF FetchSiblings, tree, moving
  <2>2. step' \in {"reorder", "failed", "undo"}
    BY <2>1 DEF RollBack
  <2>3. CASE request.kind = "copy"
    BY <2>1, <2>2, <2>3, OtherMoves
  <2>4. CASE request.kind = "move" /\ RollBack(Records(moved))
    BY <2>1, <2>4, GivesUpMove
  <2>5. CASE request.kind = "move" /\ step' = "reorder"
    <3>1. /\ moved \in 0..Len(request.sources) /\ Len(request.sources) \in Nat
          /\ origin \in Seq(Place) /\ Len(origin) = Len(request.sources)
          /\ \A i \in DOMAIN request.sources : request.sources[i] \in ToSet(before[origin[i]])
          /\ moved = Len(request.sources) <=> step # "move"
          /\ Stand(Gone(moved))
          /\ Without(kids[request.target], ToSet(request.sources)) = Without(before[request.target], ToSet(request.sources))
      BY <2>1, <2>5, MovesAre
    <3>2. Stand(Gone(moved))'
      <4>1. PICK out : out = Gone(moved)
        OBVIOUS
      <4>2. Stand(out)'
        BY <2>1, <3>1, <4>1, SameStand
      <4>3. Gone(moved)' = out
        BY <2>1, <4>1 DEF Gone
      <4> QED
        BY <4>2, <4>3, StandGone
    <3>3. MovingInv'
      BY <2>1, <2>5, <3>1, <3>2 DEF MovingInv
    <3> QED
      BY <2>1, <2>5, <3>1, <3>3 DEF MoveInv, MovedBackInv
  <2> QED
    BY <1>a, <2>1, <2>3, <2>4, <2>5
<1>6. CASE Reorder
  <2>1. step' \in {"ok", "misplaced"}
    BY <1>6 DEF Reorder
  <2> QED
    BY <2>1 DEF MoveInv, MovingInv, MovedBackInv, Moving
<1> QED
  BY <1>1, <1>2, <1>3, <1>4, <1>5, <1>6, MoveNextMoves, FetchOriginsMoves, RollbackMovedMoves, BulkSizes DEF Next

-----------------------------------------------------------------------------
(* Next to the anchor                                                      *)

(* The place of a node in a row                                            *)
First(row, m) == SelectInSeq(row, LAMBDA n : n = m)

(* A node is found at its place.                                           *)
LEMMA PlaceInRow ==
    ASSUME NEW row \in Seq(Node), IsInjective(row), NEW i \in 1..Len(row), NEW m, m = row[i]
    PROVE  First(row, m) = i
<1> DEFINE I == {j \in 1..Len(row) : row[j] = m}
<1>1. i \in I /\ \A j \in I : j = i
  BY DEF IsInjective
<1>2. I \in SUBSET Nat /\ I # {}
  BY <1>1
<1>3. First(row, m) = IF I # {} THEN Min(I) ELSE 0
  BY DEF First, SelectInSeq
<1> HIDE DEF I
<1>4. Min(I) \in I
  BY <1>2, SmallestOf
<1> QED
  BY <1>1, <1>2, <1>3, <1>4

(* Rows in which z is put between x and y                                  *)
Placing(row, x, z, y) == row = x \o z \o y /\ z # <<>> /\ IsInjective(row)

LEMMA PlacedIs ==
    ASSUME NEW x \in Seq(Node), NEW y \in Seq(Node), NEW z \in Seq(Node),
           NEW row, Placing(row, x, z, y)
    PROVE  /\ First(row, Head(z)) = Len(x) + 1
           /\ SubSeq(row, Len(x) + 1, Len(x) + Len(z)) = z
           /\ Without(row, ToSet(z)) = x \o y
           /\ Len(row) = Len(x) + Len(z) + Len(y) /\ DOMAIN row = 1..Len(row)
           /\ \A j \in 1..Len(x) : row[j] = x[j]
           /\ \A j \in 1..Len(y) : row[j + Len(x) + Len(z)] = y[j]
           /\ Len(x) \in Nat /\ Len(y) \in Nat /\ Len(z) \in Nat \ {0}
<1>0. row = x \o z \o y /\ z # <<>> /\ IsInjective(row)
  BY DEF Placing
<1>1. /\ row \in Seq(Node) /\ Len(row) = Len(x) + Len(z) + Len(y) /\ DOMAIN row = 1..Len(row)
      /\ Len(x) \in Nat /\ Len(y) \in Nat /\ Len(z) \in Nat \ {0}
  BY <1>0
<1>2. \A j \in 1..Len(x) : row[j] = x[j]
  BY <1>0
<1>3. \A j \in 1..Len(z) : row[j + Len(x)] = z[j]
  BY <1>0
<1>4. \A j \in 1..Len(y) : row[j + Len(x) + Len(z)] = y[j]
  BY <1>0
<1>5. First(row, Head(z)) = Len(x) + 1
  <2>1. Head(z) = row[Len(x) + 1] /\ Len(x) + 1 \in 1..Len(row)
    <3>1. 1 \in 1..Len(z) /\ Head(z) = z[1]
      BY <1>1
    <3> QED
      BY <1>1, <1>3, <3>1
  <2>2. PICK i \in 1..Len(row) : i = Len(x) + 1
    BY <2>1
  <2>3. Head(z) = row[i]
    BY <2>1, <2>2
  <2>4. row \in Seq(Node)
    BY <1>1
  <2>5. First(row, Head(z)) = i
    BY <1>0, <2>3, <2>4, PlaceInRow
  <2> QED
    BY <2>2, <2>5
<1>6. SubSeq(row, Len(x) + 1, Len(x) + Len(z)) = z
  <2> DEFINE s == SubSeq(row, Len(x) + 1, Len(x) + Len(z))
  <2>1. s \in Seq(Node) /\ Len(s) = Len(z)
    BY <1>1
  <2>2. \A j \in 1..Len(z) : s[j] = row[j + Len(x)]
    BY <1>1
  <2> HIDE DEF s
  <2>3. s = z
    BY <1>3, <2>1, <2>2, SeqEqual
  <2> QED
    BY <2>3 DEF s
<1>7. Without(row, ToSet(z)) = x \o y
  <2>1. x \o z \in Seq(Node) /\ ToSet(x \o z) = ToSet(x) \cup ToSet(z)
    BY ConcatSet
  <2>2. IsInjective(x \o z) /\ ToSet(x \o z) \cap ToSet(y) = {}
    BY <1>0, <2>1, ConcatParts
  <2>3. ToSet(x) \cap ToSet(z) = {}
    BY <2>2, ConcatParts
  <2> DEFINE S == ToSet(z)
  <2>4. Between(x, z, y, S)
    BY <2>1, <2>2, <2>3 DEF Between
  <2> HIDE DEF S
  <2>5. Without(x \o z \o y, S) = x \o y
    BY <2>4, WithoutBetween
  <2> QED
    BY <1>0, <2>5 DEF S
<1> QED
  BY <1>1, <1>2, <1>4, <1>5, <1>6, <1>7

(* There is a row without nodes.                                           *)
LEMMA EmptyRow == \E y \in Seq(Node) : y = <<>>
<1>1. <<>> \in Seq(Node)
  OBVIOUS
<1> QED
  BY <1>1, Zenon

(* The row of the target when the request is done                          *)
LEMMA OkPlaced ==
    ASSUME NEW x \in Seq(Node), NEW y \in Seq(Node), NEW z \in Seq(Node), z # <<>>,
           NEW row, row = x \o z \o y, IsInjective(row),
           Items' = z, kids'[request'.target] = row,
           x \o y = Without(before'[request'.target], ToSet(z)),
           request'.side = NULL => y = <<>>,
           request'.side # NULL /\ request'.side = "before" => y # <<>> /\ y[1] = request'.anchor,
           request'.side # NULL /\ request'.side # "before" => x # <<>> /\ x[Len(x)] = request'.anchor
    PROVE  PlacedAsAsked'
<1>1. /\ First(row, Head(z)) = Len(x) + 1
      /\ SubSeq(row, Len(x) + 1, Len(x) + Len(z)) = z
      /\ Without(row, ToSet(z)) = x \o y
      /\ Len(row) = Len(x) + Len(z) + Len(y) /\ DOMAIN row = 1..Len(row)
      /\ \A j \in 1..Len(x) : row[j] = x[j]
      /\ \A j \in 1..Len(y) : row[j + Len(x) + Len(z)] = y[j]
      /\ Len(x) \in Nat /\ Len(y) \in Nat /\ Len(z) \in Nat \ {0}
  <2>1. Placing(row, x, z, y)
    BY DEF Placing
  <2> QED
    BY <2>1, PlacedIs
<1>2. Siblings' = Without(before'[request'.target], ToSet(Items'))
  BY <1>1 DEF Siblings
<1> DEFINE at == First(row, Head(z))
<1>3. at + Len(z) - 1 = Len(x) + Len(z)
  BY <1>1
<1>4. SubSeq(row, at, at + Len(z) - 1) = z
  BY <1>1, <1>3
<1>5. request'.side = NULL => at + Len(z) - 1 = Len(row)
  <2> SUFFICES ASSUME request'.side = NULL PROVE at + Len(z) - 1 = Len(row)
    OBVIOUS
  <2>1. Len(y) = 0
    OBVIOUS
  <2> QED
    BY <1>1, <1>3, <2>1
<1>6. request'.side # NULL =>
         \E i \in DOMAIN row : /\ row[i] = request'.anchor
                               /\ i = IF request'.side = "before" THEN at + Len(z) ELSE at - 1
  <2>1. CASE request'.side # NULL /\ request'.side = "before"
    <3>1. 1 \in 1..Len(y) /\ y[1] = request'.anchor
      BY <2>1
    <3>2. PICK j \in 1..Len(y) : j = 1
      BY <3>1
    <3>3. row[j + Len(x) + Len(z)] = y[j]
      BY <1>1
    <3>4. at + Len(z) = j + Len(x) + Len(z)
      BY <1>1, <3>2
    <3>5. at + Len(z) \in DOMAIN row
      BY <1>1, <3>1
    <3>6. row[at + Len(z)] = request'.anchor
      BY <3>1, <3>2, <3>3, <3>4
    <3> QED
      BY <2>1, <3>5, <3>6
  <2>2. CASE request'.side # NULL /\ request'.side # "before"
    <3>1. Len(x) \in 1..Len(x) /\ x[Len(x)] = request'.anchor
      BY <1>1, <2>2
    <3>a. \A j \in 1..Len(x) : row[j] = x[j]
      BY <1>1
    <3>2. row[Len(x)] = request'.anchor
      BY <3>1, <3>a
    <3>b. at - 1 = Len(x)
      <4>1. at = Len(x) + 1 /\ Len(x) \in Nat
        BY <1>1
      <4> HIDE DEF at
      <4> QED
        BY <4>1
    <3>c. Len(x) \in DOMAIN row
      BY <1>1, <3>1
    <3>3. at - 1 = Len(x) /\ Len(x) \in DOMAIN row
      BY <3>b, <3>c
    <3> QED
      BY <2>2, <3>2, <3>3
  <2> QED
    BY <2>1, <2>2
<1> QED
  BY <1>2, <1>4, <1>5, <1>6 DEF PlacedAsAsked, First, SelectInSeq

(* Without an anchor copies are at the end.                                *)
LEMMA CopiedPlaces ==
    ASSUME BulkInv, Copied
    PROVE  PlaceInv'
<1>0. BeforeInv /\ TreeInv /\ RequestInv
  BY Parts
<1>1. /\ request \in Requests /\ request.kind = "copy" /\ step = "copied"
      /\ UNCHANGED <<kids, request, before>>
      /\ made' \in Seq(Node) /\ Len(made') = Len(made) + 1 /\ Len(made) \in Nat
      /\ kids[request.target] = before[request.target] \o made' /\ request.target \in Place
  BY CopiedIs
<1>2. step' # "reorder" /\ (step' = "ok" => request.anchor = NULL)
  BY DEF Copied
<1>3. CASE step' # "ok"
  BY <1>2, <1>3 DEF PlaceInv, PlacedAsAsked
<1>4. CASE step' = "ok"
  <2> DEFINE t   == request.target
             x   == before[t]
             row == kids[t]
  <2>1. x \in Seq(Node) /\ IsInjective(row) /\ row \in Seq(Node)
    BY <1>0, <1>1 DEF BeforeInv, TreeInv, Forest
  <2>2. row = x \o made'
    BY <1>1
  <2>3. request.side = NULL
    BY <1>1, <1>2, <1>4, RequestIs, BulkSizes
  <2>4. /\ Items' = made' /\ kids'[request'.target] = row /\ before'[request'.target] = x /\ request'.side = NULL
    BY <1>1, <2>3 DEF Items
  <2> HIDE DEF x, row
  <2>5. made' # <<>>
    BY <1>1
  <2>6. ToSet(x) \cap ToSet(made') = {}
    BY <1>1, <2>1, <2>2, ConcatParts
  <2>7. Without(x, ToSet(made')) = x
    BY <2>1, <2>6, WithoutNone
  <2>8. row = x \o made' \o <<>> /\ x \o <<>> = x
    BY <1>1, <2>1, <2>2
  <2>9. PICK y \in Seq(Node) : y = <<>>
    BY EmptyRow
  <2>10. row = x \o made' \o y /\ x \o y = Without(before'[request'.target], ToSet(made'))
    BY <2>4, <2>7, <2>8, <2>9
  <2>11. PlacedAsAsked'
    BY <1>1, <2>1, <2>4, <2>5, <2>9, <2>10, OkPlaced
  <2> QED
    BY <1>2, <2>11 DEF PlaceInv
<1> QED
  BY <1>3, <1>4

(* With one they are next to it.                                           *)
LEMMA ReorderPlaces ==
    ASSUME BulkInv, Reorder
    PROVE  PlaceInv'
<1>0. BeforeInv /\ TreeInv /\ RequestInv /\ MoveInv /\ FramesInv /\ PlaceInv
  BY Parts
<1>1. /\ step = "reorder" /\ step' \in {"ok", "misplaced"} /\ UNCHANGED <<request, before, made>>
      /\ step' = "ok" => kids' = [kids EXCEPT ![request.target] = ordered]
  BY DEF Reorder, copying
<1>2. CASE step' # "ok"
  BY <1>1, <1>2 DEF PlaceInv, PlacedAsAsked
<1>3. CASE step' = "ok"
  <2>1. /\ request \in Requests /\ Items \in Seq(Node) /\ IsInjective(Items) /\ Len(Items) >= 1
        /\ ToSet(Items) \subseteq ToSet(kids[request.target]) /\ request.target \in Place
    BY <1>0, <1>1, ItemsAre
  <2>2. kids[request.target] \in Seq(Node) /\ before[request.target] \in Seq(Node) /\ DOMAIN kids = Place
    BY <1>0, <2>1 DEF TreeInv, BeforeInv, Forest
  <2>3. Siblings \in Seq(Node)
    BY <2>2, WithoutRange DEF Siblings
  <2>4. ordered = Inserted(Siblings, Items) /\ (request.anchor = NULL \/ Contains(Siblings, request.anchor))
    BY <1>0, <1>1 DEF PlaceInv, AnchorFound
  <2>5. IsInjective(ordered)
    BY <1>0, <1>1, OrderedIs
  <2> DEFINE g == Gap(Siblings)
             x == SubSeq(Siblings, 1, g)
             y == SubSeq(Siblings, g + 1, Len(Siblings))
  <2>6. /\ g \in 0..Len(Siblings) /\ ordered = x \o Items \o y
        /\ request.side = NULL => g = Len(Siblings)
        /\ request.side = "before" => g < Len(Siblings) /\ Siblings[g + 1] = request.anchor
        /\ request.side = "after" => g > 0 /\ Siblings[g] = request.anchor
        /\ request.side \in {NULL, "before", "after"}
    BY <2>1, <2>3, <2>4, InsertedIs
  <2>7. /\ x \in Seq(Node) /\ y \in Seq(Node) /\ Siblings = x \o y
        /\ Len(x) = g /\ Len(y) = Len(Siblings) - g
        /\ \A j \in 1..g : x[j] = Siblings[j]
        /\ \A j \in 1..(Len(Siblings) - g) : y[j] = Siblings[g + j]
    <3> DEFINE k   == Gap(Siblings)
               sib == Siblings
    <3>1. sib \in Seq(Node) /\ k \in 0..Len(sib)
      BY <2>3, <2>6
    <3> HIDE DEF k, sib
    <3>2. /\ SubSeq(sib, 1, k) \in Seq(Node) /\ SubSeq(sib, k + 1, Len(sib)) \in Seq(Node)
          /\ Len(SubSeq(sib, 1, k)) = k /\ Len(SubSeq(sib, k + 1, Len(sib))) = Len(sib) - k
          /\ \A j \in 1..k : SubSeq(sib, 1, k)[j] = sib[j]
          /\ \A j \in 1..(Len(sib) - k) : SubSeq(sib, k + 1, Len(sib))[j] = sib[k + j]
          /\ SubSeq(sib, 1, k) \o SubSeq(sib, k + 1, Len(sib)) = sib
      BY <3>1, SplitAt
    <3> QED
      BY <3>2 DEF k, sib
  <2> HIDE DEF x, y, g
  <2>8. Len(Siblings) \in Nat
    BY <2>3
  <2>9. request.side = NULL => y = <<>>
    BY <2>6, <2>7, <2>8
  <2>10. request.side # NULL /\ request.side = "before" => y # <<>> /\ y[1] = request.anchor
    <3> SUFFICES ASSUME request.side = "before" PROVE y # <<>> /\ y[1] = request.anchor
      OBVIOUS
    <3>1. g < Len(Siblings) /\ Siblings[g + 1] = request.anchor /\ g \in Nat
      BY <2>6, <2>8
    <3>2. 1 \in 1..(Len(Siblings) - g)
      BY <2>8, <3>1
    <3>3. y[1] = request.anchor /\ Len(y) # 0
      BY <2>7, <3>1, <3>2
    <3> QED
      BY <3>3
  <2>11. request.side # NULL /\ request.side # "before" => x # <<>> /\ x[Len(x)] = request.anchor
    <3> SUFFICES ASSUME request.side = "after" PROVE x # <<>> /\ x[Len(x)] = request.anchor
      BY <2>6
    <3>1. g > 0 /\ Siblings[g] = request.anchor /\ g \in Nat
      BY <2>6, <2>8
    <3>2. g \in 1..g
      BY <3>1
    <3>3. x[Len(x)] = request.anchor /\ Len(x) # 0
      BY <2>7, <3>1, <3>2
    <3> QED
      BY <3>3
  <2>12. Siblings = Without(before[request.target], ToSet(Items))
    <3>1. CASE request.kind = "move"
      <4>1. Without(kids[request.target], ToSet(request.sources)) = Without(before[request.target], ToSet(request.sources))
        BY <1>1, <3>1, MovesAre
      <4> QED
        BY <3>1, <4>1, BulkSizes DEF Siblings, Items
    <3>2. CASE request.kind = "copy"
      <4>1. kids[request.target] = before[request.target] \o made /\ Items = made
        BY <1>0, <1>1, <3>2 DEF FramesInv, MadeInv, Items
      <4> DEFINE b == before[request.target]
                 S == ToSet(made)
      <4>2. IsInjective(b \o made)
        <5>1. \A q \in Place : IsInjective(kids[q])
          BY <1>0 DEF TreeInv, Forest
        <5>2. IsInjective(kids[request.target])
          BY <2>1, <5>1
        <5> QED
          BY <4>1, <5>2
      <4>3. made \in Seq(Node) /\ b \in Seq(Node)
        BY <2>1, <2>2, <4>1
      <4> HIDE DEF b
      <4>4. ToSet(b) \cap S = {}
        BY <4>2, <4>3, ConcatParts
      <4>5. Without(b, S) = b
        BY <4>3, <4>4, WithoutNone
      <4>6. PICK e \in Seq(Node) : e = <<>>
        BY EmptyRow
      <4>7. Between(b, made, e, S)
        BY <4>4, <4>6 DEF Between, ToSet
      <4> HIDE DEF S
      <4>8. Without(b \o made \o e, S) = b \o e
        BY <4>3, <4>7, WithoutBetween
      <4>9. b \o made \o e = b \o made /\ b \o e = b
        BY <4>3, <4>6
      <4>10. Without(b \o made, S) = Without(b, S)
        BY <4>5, <4>8, <4>9
      <4> QED
        BY <4>1, <4>10 DEF b, S, Siblings
    <3> QED
      BY <2>1, <3>1, <3>2, RequestIs
  <2>13. Items' = Items
    BY <1>1 DEF Items
  <2>14. Items # <<>>
    BY <2>1
  <2>15. kids'[request'.target] = ordered
    BY <1>1, <1>3, <2>1, <2>2
  <2>16. PICK z \in Seq(Node) : z = Items
    BY <2>1
  <2>17. /\ z # <<>> /\ ordered = x \o z \o y /\ Items' = z
         /\ x \o y = Without(before'[request'.target], ToSet(z))
    BY <1>1, <2>6, <2>7, <2>12, <2>13, <2>14, <2>16
  <2>18. PlacedAsAsked'
    BY <1>1, <2>5, <2>7, <2>9, <2>10, <2>11, <2>15, <2>17, OkPlaced
  <2> QED
    BY <1>3, <2>18 DEF PlaceInv
<1> QED
  BY <1>2, <1>3

(* Nodes are placed as asked.                                              *)
LEMMA PlaceStep ==
    ASSUME BulkInv, Next
    PROVE  PlaceInv'
<1>1. CASE FetchSiblings
  <2>1. step' = "reorder" => /\ AnchorFound /\ ordered' = Inserted(Siblings, Items)
                             /\ UNCHANGED <<kids, request, made>>
    BY <1>1 DEF FetchSiblings, RollBack, tree, copying
  <2>2. step' # "ok"
    BY <1>1 DEF FetchSiblings, RollBack
  <2>3. step' = "reorder" => AnchorFound' /\ ordered' = Inserted(Siblings, Items)'
    <3> SUFFICES ASSUME step' = "reorder" PROVE AnchorFound' /\ ordered' = Inserted(Siblings, Items)'
      OBVIOUS
    <3>1. Siblings' = Siblings /\ Items' = Items
      BY <2>1 DEF Siblings, Items
    <3>2. AnchorFound'
      BY <2>1, <3>1 DEF AnchorFound
    <3> QED
      BY <2>1, <3>1, <3>2 DEF Inserted, SelectInSeq
  <2> QED
    BY <2>2, <2>3 DEF PlaceInv, PlacedAsAsked
<1>2. ASSUME NEW n, \/ \E r \in Requests : Begin(r)
                    \/ FetchSource \/ ListChildren \/ CopyFails \/ CreateNode(n) \/ CreateLost(n)
                    \/ FetchOrigins \/ MoveNext \/ MoveFails \/ MoveLost \/ RollbackCreated \/ RollbackMoved
      PROVE  PlaceInv'
  <2>1. step' # "ok" /\ step' # "reorder"
    BY <1>2 DEF Begin, FetchSource, ListChildren, CopyFails, CreateNode, CreateLost, FetchOrigins,
                MoveNext, MoveFails, MoveLost, RollbackCreated, RollbackMoved, GiveUpCopy, RollBack
  <2> QED
    BY <2>1 DEF PlaceInv, PlacedAsAsked
<1> QED
  BY <1>1, <1>2, CopiedPlaces, ReorderPlaces DEF Next

-----------------------------------------------------------------------------
(* A node copied into itself: its copy never ends.                         *)

(* Rows that have all the others have                                      *)
Inside(rows, more) == \A p \in Place : ToSet(rows[p]) \subseteq ToSet(more[p])

(* hold what the others hold.                                              *)
LEMMA HoldsMore ==
    ASSUME NEW rows, NEW more, Inside(rows, more), NEW a, NEW b, Holds(rows, a, b)
    PROVE  Holds(more, a, b)
<1> SUFFICES ASSUME NEW S \in SUBSET Place, b \in S, Closed(more, S) PROVE a \in S
  BY DEF Holds
<1>1. Closed(rows, S)
  <2> SUFFICES ASSUME NEW p \in Place, NEW n \in ToSet(rows[p]), n \in S PROVE p \in S
    BY DEF Closed
  <2>1. n \in ToSet(more[p])
    BY DEF Inside
  <2> QED
    BY <2>1 DEF Closed
<1> QED
  BY <1>1 DEF Holds

(* What holds a child holds the node, and so does the node itself.         *)
LEMMA HoldsUp ==
    ASSUME NEW rows, NEW p \in Place, NEW c \in ToSet(rows[p]), NEW b, Holds(rows, c, b)
    PROVE  Holds(rows, p, b)
<1> SUFFICES ASSUME NEW S \in SUBSET Place, b \in S, Closed(rows, S) PROVE p \in S
  BY DEF Holds
<1>1. c \in S
  BY DEF Holds
<1> QED
  BY <1>1 DEF Closed

(* A node holds itself.                                                    *)
LEMMA HoldsItself == ASSUME NEW rows, NEW b PROVE Holds(rows, b, b)
BY DEF Holds

(* And what holds the parent of a node holds the node.                     *)
LEMMA HoldsDown ==
    ASSUME NEW rows, NEW a, NEW p \in Place, NEW n \in ToSet(rows[p]), Holds(rows, a, p)
    PROVE  Holds(rows, a, n)
<1> SUFFICES ASSUME NEW S \in SUBSET Place, n \in S, Closed(rows, S) PROVE a \in S
  BY DEF Holds
<1>1. p \in S
  BY DEF Closed
<1> QED
  BY <1>1 DEF Holds

(* A node that holds another has a child that does.                        *)
LEMMA HoldsChild ==
    ASSUME NEW rows, NEW a, NEW b \in Place, a # b, Holds(rows, a, b)
    PROVE  \E c \in ToSet(rows[a]) : Holds(rows, c, b)
<1> SUFFICES ASSUME \A c \in ToSet(rows[a]) : ~Holds(rows, c, b) PROVE FALSE
  OBVIOUS
<1> DEFINE M == {x \in Place : Holds(rows, x, b)}
           S == M \ {a}
<1>1. b \in S
  BY HoldsItself
<1>2. Closed(rows, S)
  <2> SUFFICES ASSUME NEW p \in Place, NEW n \in ToSet(rows[p]), n \in S PROVE p \in S
    <3> HIDE DEF S
    <3> QED
      BY DEF Closed
  <2>1. Holds(rows, n, b)
    OBVIOUS
  <2>2. Holds(rows, p, b)
    BY <2>1, HoldsUp
  <2>3. p # a
    BY <2>1
  <2> QED
    BY <2>2, <2>3
<1>3. S \in SUBSET Place /\ a \notin S
  OBVIOUS
<1> HIDE DEF S
<1> QED
  BY <1>1, <1>2, <1>3 DEF Holds

(* The rows before the request are within those now.                       *)
LEMMA OldRowsInside ==
    ASSUME BulkInv, request.kind = "copy", step \notin {"ok", "misplaced"}
    PROVE  Inside(before, kids)
<1>0. TreeInv /\ CopyUndoInv
  BY Parts
<1> SUFFICES ASSUME NEW p \in Place PROVE ToSet(before[p]) \subseteq ToSet(kids[p])
  BY DEF Inside
<1>1. kids[p] \in Seq(Node)
  BY <1>0 DEF TreeInv, Forest
<1> DEFINE S == Node \ Existed
<1>2. Without(kids[p], S) = before[p]
  BY <1>0 DEF CopyUndoInv
<1> HIDE DEF S
<1>3. ToSet(Without(kids[p], S)) = ToSet(kids[p]) \ S
  BY <1>1, WithoutRange
<1> QED
  BY <1>2, <1>3

(* What is known while a source is copied                                  *)
LEMMA CopyingIs ==
    ASSUME BulkInv, Copying
    PROVE  /\ todo \in Seq(Frame) /\ DOMAIN todo = 1..Len(todo) /\ Len(todo) \in Nat
           /\ step = "copied" <=> todo = <<>>
           /\ \A i \in DOMAIN todo : todo[i].src \in Node /\ todo[i].under \in Place
           /\ Len(made) < Len(request.sources) /\ Len(made) \in Nat
           /\ root = NULL => todo = <<[src |-> request.sources[Now], under |-> request.target]>>
           /\ root # NULL => \A i \in DOMAIN todo : todo[i].under \in Created \ ToSet(made)
           /\ request.kind = "copy" /\ request \in Requests /\ request.target \in Place
           /\ request.target \notin Created
           /\ \A p \in Place \ Created : p # request.target => kids[p] = before[p]
<1>0. FramesInv /\ RequestInv /\ TreeInv
  BY Parts
<1>1. /\ todo \in Seq(Frame)
      /\ step = "copied" <=> todo = <<>>
      /\ Len(made) < Len(request.sources)
      /\ root = NULL => todo = <<[src |-> request.sources[Now], under |-> request.target]>>
      /\ root # NULL => \A i \in DOMAIN todo : todo[i].under \in Created \ ToSet(made)
      /\ \A p \in Place \ Created : p # request.target => kids[p] = before[p]
  BY <1>0 DEF FramesInv, CopyingInv
<1>2. DOMAIN todo = 1..Len(todo) /\ Len(todo) \in Nat
  BY <1>1
<1>3. \A i \in DOMAIN todo : todo[i].src \in Node /\ todo[i].under \in Place
  <2>1. \A i \in DOMAIN todo : todo[i] \in Frame
    BY <1>1, <1>2
  <2> QED
    BY <2>1 DEF Frame
<1>4. step # "idle" /\ request.kind = "copy" /\ request \in Requests /\ Len(made) \in Nat
  BY <1>0 DEF RequestInv, Copying
<1>5. request.target \in Place /\ request.target \notin Created
  BY <1>0, <1>4, TargetIsOld
<1> QED
  BY <1>1, <1>2, <1>3, <1>4, <1>5

(* Steps that leave the frames alone                                       *)
LEMMA EndlessSame ==
    ASSUME EndlessInv, Copying, UNCHANGED <<before, made, request, todo, kids>>
    PROVE  EndlessInv'
BY DEF EndlessInv, Endless, Now, Holds, Closed

(* The copy of a node that holds the place of its copy holds it still:     *)
LEMMA EndlessCreate ==
    ASSUME BulkInv, NEW n, CreateNode(n)
    PROVE  EndlessInv'
<1>0. BeforeInv /\ TreeInv /\ RequestInv /\ FramesInv /\ NamesInv /\ EndlessInv
  BY Parts DEF CopyInv
<1>1. /\ step = "create" /\ UNCHANGED <<request, made, before>>
      /\ Len(todo) \in Nat \ {0} /\ todo' \in Seq(Frame) /\ Len(todo') = Len(todo)
      /\ todo'[1] = [src |-> todo[1].src, under |-> n]
      /\ \A i \in 2..Len(todo) : todo'[i] = todo[i]
  BY <1>0, CreateNodeIs
<1>2. /\ n \in Node
      /\ \A p \in Place : /\ kids'[p] = IF p = todo[1].under THEN Append(kids[p], n) ELSE kids[p]
                          /\ ToSet(kids'[p]) = IF p = todo[1].under THEN ToSet(kids[p]) \cup {n} ELSE ToSet(kids[p])
  BY <1>0, CreateIs
<1>3. Copying
  BY <1>1 DEF Copying
<1>4. /\ DOMAIN todo = 1..Len(todo)
      /\ \A i \in DOMAIN todo : todo[i].src \in Node /\ todo[i].under \in Place
  BY <1>3, CopyingIs
<1>5. Inside(kids, kids')
  BY <1>2 DEF Inside
<1> SUFFICES ASSUME Endless' PROVE \E i \in DOMAIN todo' : Holds(kids', todo'[i].src, todo'[i].under)
  BY DEF EndlessInv
<1>6. Endless
  BY <1>1 DEF Endless, Now, Holds, Closed
<1>7. PICK i \in DOMAIN todo : Holds(kids, todo[i].src, todo[i].under)
  BY <1>0, <1>3, <1>6 DEF EndlessInv
<1>8. DOMAIN todo' = 1..Len(todo)
  BY <1>1
<1>9. CASE i # 1
  <2>1. i \in DOMAIN todo' /\ todo'[i] = todo[i]
    BY <1>1, <1>4, <1>8, <1>9
  <2>2. PICK a, b : a = todo[i].src /\ b = todo[i].under
    OBVIOUS
  <2>3. Holds(kids, a, b)
    BY <1>7, <2>2
  <2>4. Holds(kids', a, b)
    BY <1>5, <2>3, HoldsMore
  <2> QED
    BY <2>1, <2>2, <2>4
<1>10. CASE i = 1
  <2>1. PICK a, b : a = todo[1].src /\ b = todo[1].under
    OBVIOUS
  <2>2. Holds(kids, a, b) /\ b \in Place
    BY <1>4, <1>7, <1>10, <2>1
  <2>3. Holds(kids', a, b)
    BY <1>5, <2>2, HoldsMore
  <2>4. n \in ToSet(kids'[b])
    BY <1>2, <2>1, <2>2
  <2>5. Holds(kids', a, n)
    BY <2>2, <2>3, <2>4, HoldsDown
  <2>6. 1 \in DOMAIN todo' /\ todo'[1].src = a /\ todo'[1].under = n
    BY <1>1, <1>8, <2>1
  <2> QED
    BY <2>5, <2>6
<1> QED
  BY <1>9, <1>10

(* one of its children, the copy among them, holds the copy.               *)
LEMMA EndlessList ==
    ASSUME BulkInv, ListChildren
    PROVE  EndlessInv'
<1>0. BeforeInv /\ TreeInv /\ RequestInv /\ FramesInv /\ EndlessInv
  BY Parts DEF CopyInv
<1> DEFINE src   == todo[1].src
           under == todo[1].under
           row   == kids[src]
           c     == Len(row)
<1>1. /\ step = "list"
      /\ UNCHANGED <<kids, request, made, before>>
      /\ Len(todo) \in Nat \ {0} /\ c \in Nat
      /\ src \in Place /\ under \in Place /\ row \in Seq(Node)
      /\ todo' \in Seq(Frame) /\ Len(todo') = c + Len(todo) - 1
      /\ \A i \in 1..c : todo'[i] = [src |-> row[i], under |-> under]
      /\ \A i \in (c + 1)..Len(todo') : todo'[i] = todo[i - c + 1] /\ i - c + 1 \in 2..Len(todo)
  BY <1>0, ListIs
<1> HIDE DEF c, row
<1>2. Copying
  BY <1>1 DEF Copying
<1>3. DOMAIN todo = 1..Len(todo) /\ DOMAIN todo' = 1..Len(todo')
  BY <1>1, <1>2, CopyingIs
<1>4. src # under
  BY <1>0, <1>1, <1>2 DEF FramesInv, CopyingInv
<1> SUFFICES ASSUME Endless' PROVE \E i \in DOMAIN todo' : Holds(kids', todo'[i].src, todo'[i].under)
  BY DEF EndlessInv
<1>6. Endless
  BY <1>1 DEF Endless, Now, Holds, Closed
<1>7. PICK i \in DOMAIN todo : Holds(kids, todo[i].src, todo[i].under)
  BY <1>0, <1>2, <1>6 DEF EndlessInv
<1>a. kids' = kids
  BY <1>1
<1>8. CASE i # 1
  <2> DEFINE j == i + c - 1
  <2>1. j \in (c + 1)..Len(todo') /\ j - c + 1 = i /\ j \in DOMAIN todo'
    BY <1>1, <1>3, <1>8
  <2>2. todo'[j] = todo[j - c + 1]
    BY <1>1, <2>1
  <2>3. todo'[j] = todo[i]
    BY <2>1, <2>2
  <2>4. Holds(kids', todo'[j].src, todo'[j].under)
    BY <1>7, <1>a, <2>3
  <2> QED
    BY <2>1, <2>4
<1>9. CASE i = 1
  <2>1. PICK a, b : a = src /\ b = under
    OBVIOUS
  <2>2. Holds(kids, a, b) /\ b \in Place /\ a # b
    BY <1>1, <1>4, <1>7, <1>9, <2>1
  <2>3. PICK k \in ToSet(kids[a]) : Holds(kids, k, b)
    BY <2>2, HoldsChild
  <2>4. PICK j \in 1..c : row[j] = k
    BY <1>1, <2>1, <2>3, ToSetIs DEF row, c
  <2>5. todo'[j] = [src |-> row[j], under |-> under]
    BY <1>1
  <2>6. j \in DOMAIN todo' /\ todo'[j].src = k /\ todo'[j].under = b
    BY <1>1, <1>3, <2>1, <2>4, <2>5
  <2> QED
    BY <1>a, <2>3, <2>6
<1> QED
  BY <1>8, <1>9

(* The next source, when the copy of one is complete                       *)
LEMMA NextSourceIs ==
    ASSUME BulkInv, Copied, step' = "fetch"
    PROVE  /\ todo' = <<[src |-> request.sources[Now'], under |-> request.target]>>
           /\ Now' \in 1..Len(request.sources) /\ request.sources[Now'] \in Existed
           /\ todo' \in Seq(Frame) /\ DOMAIN todo' = {1} /\ Len(todo') = 1
           /\ todo'[1].src = request.sources[Now'] /\ todo'[1].under = request.target
<1>0. FramesInv /\ RequestInv
  BY Parts
<1>1. /\ step = "copied" /\ request.kind = "copy" /\ request \in Requests
      /\ UNCHANGED <<kids, request, before>>
      /\ Len(made') = Len(made) + 1 /\ Len(made) \in Nat /\ request.target \in Place
  BY CopiedIs
<1>2. /\ rest # <<>> /\ todo' = <<[src |-> Head(rest), under |-> request.target]>>
  BY DEF Copied
<1>3. /\ Len(made) < Len(request.sources)
      /\ rest = SubSeq(request.sources, Len(made) + 2, Len(request.sources))
  BY <1>0, <1>1 DEF FramesInv, CopyingInv, Copying
<1>4. request.sources \in Seq(Existed) /\ Len(request.sources) \in Nat
  BY <1>1, RequestIs
<1>5. Now' = Len(made) + 2
  BY <1>1 DEF Now
<1>6. Len(made) + 1 < Len(request.sources) /\ Head(rest) = request.sources[Len(made) + 2]
  <2> DEFINE s == request.sources
             k == Len(made)
  <2>1. s \in Seq(Existed) /\ k \in Nat /\ k < Len(s) /\ rest = SubSeq(s, k + 2, Len(s))
    BY <1>1, <1>3, <1>4
  <2> HIDE DEF s, k
  <2>2. k + 1 < Len(s) /\ Head(rest) = s[k + 2]
    BY <1>2, <2>1, RestIs
  <2> QED
    BY <2>2 DEF s, k
<1>7. Now' \in 1..Len(request.sources)
  BY <1>1, <1>4, <1>5, <1>6
<1>8. request.sources[Now'] \in Existed /\ Existed \subseteq Node
  BY <1>4, <1>7, BulkSizes
<1>9. todo' = <<[src |-> request.sources[Now'], under |-> request.target]>>
  BY <1>2, <1>5, <1>6
<1>10. PICK a \in Node : a = request.sources[Now']
  BY <1>8
<1>11. todo' = <<[src |-> a, under |-> request.target]>>
  BY <1>9, <1>10
<1>12. /\ todo' \in Seq(Frame) /\ Len(todo') = 1 /\ DOMAIN todo' = {1}
       /\ todo'[1].src = a /\ todo'[1].under = request.target
  BY <1>1, <1>11, FirstFrame
<1> QED
  BY <1>7, <1>8, <1>9, <1>10, <1>12

(* A copy of a node that holds the target never runs out of frames.        *)
LEMMA EndlessStep ==
    ASSUME BulkInv, Next
    PROVE  EndlessInv'
<1>0. BeforeInv /\ TreeInv /\ RequestInv /\ FramesInv /\ NamesInv /\ EndlessInv
  BY Parts DEF CopyInv
<1>b. before' = before
  BY <1>0, BeforeStep
<1>1. ASSUME NEW r \in Requests, Begin(r) PROVE EndlessInv'
  <2>1. CASE r.kind = "copy"
    <3>1. /\ todo' = <<[src |-> r.sources[1], under |-> r.target]>> /\ r.sources[1] \in Existed
          /\ made' = <<>> /\ request' = r
          /\ UNCHANGED <<kids, before>> /\ kids = before /\ r.target \in Place
      BY <1>1, <2>1, BeginIs
    <3>2. PICK a \in Node, b \in Place : a = r.sources[1] /\ b = r.target
      BY <3>1, BulkSizes
    <3>3. todo' = <<[src |-> a, under |-> b]>>
      BY <3>1, <3>2
    <3>4. DOMAIN todo' = {1} /\ todo'[1].src = a /\ todo'[1].under = b
      BY <3>3, FirstFrame
    <3>5. Now' = 1
      BY <3>1 DEF Now
    <3>6. Endless' => Holds(kids', a, b)
      BY <3>1, <3>2, <3>5 DEF Endless, Holds, Closed
    <3> QED
      BY <3>4, <3>6 DEF EndlessInv
  <2>2. CASE r.kind # "copy"
    BY <1>1, <2>2 DEF Begin, EndlessInv, Copying
  <2> QED
    BY <2>1, <2>2
<1>2. CASE FetchSource
  <2>1. step = "fetch" /\ UNCHANGED <<made, request, todo, kids>>
    BY <1>2 DEF FetchSource, tree
  <2> QED
    BY <1>0, <1>b, <2>1, EndlessSame DEF Copying
<1>3. CASE Copied
  <2>1. CASE step' = "fetch"
    <3>1. /\ Now' \in 1..Len(request.sources) /\ DOMAIN todo' = {1}
          /\ todo'[1].src = request.sources[Now'] /\ todo'[1].under = request.target
      BY <1>3, <2>1, NextSourceIs
    <3>2. step = "copied" /\ request.kind = "copy" /\ UNCHANGED <<kids, request, before>>
      BY <1>3, CopiedIs
    <3>3. Inside(before, kids)
      BY <3>2, OldRowsInside
    <3> SUFFICES ASSUME Endless' PROVE Holds(kids', todo'[1].src, todo'[1].under)
      BY <3>1 DEF EndlessInv
    <3>4. PICK a, b : a = todo'[1].src /\ b = todo'[1].under
      OBVIOUS
    <3>5. Holds(before, a, b)
      BY <3>1, <3>2, <3>4 DEF Endless, Holds, Closed
    <3>6. Holds(kids, a, b)
      BY <3>3, <3>5, HoldsMore
    <3> QED
      BY <3>2, <3>4, <3>6
  <2>2. CASE step' # "fetch"
    BY <1>3, <2>2 DEF Copied, EndlessInv, Copying
  <2> QED
    BY <2>1, <2>2
<1>4. ASSUME NEW n, \/ CopyFails \/ CreateLost(n) \/ FetchOrigins \/ MoveNext \/ MoveFails \/ MoveLost
                    \/ FetchSiblings \/ Reorder \/ RollbackCreated \/ RollbackMoved
      PROVE  EndlessInv'
  <2>1. ~Copying'
    BY <1>4 DEF CopyFails, CreateLost, FetchOrigins, MoveNext, MoveFails, MoveLost, FetchSiblings, Reorder,
                RollbackCreated, RollbackMoved, GiveUpCopy, RollBack, Copying
  <2> QED
    BY <2>1 DEF EndlessInv
<1> QED
  BY <1>1, <1>2, <1>3, <1>4, EndlessCreate, EndlessList DEF Next

-----------------------------------------------------------------------------
(* A node copied elsewhere: what is left to be done for each copy          *)

(* Rows before the request are of nodes that were there.                   *)
LEMMA OldRow ==
    ASSUME BeforeInv, NEW p \in Place
    PROVE  /\ before[p] \in Seq(Existed) /\ before[p] \in Seq(Node) /\ IsInjective(before[p]) /\ Len(before[p]) \in Nat
           /\ DOMAIN before[p] = 1..Len(before[p])
           /\ \A i \in 1..Len(before[p]) : before[p][i] \in Existed /\ before[p][i] \in ToSet(before[p])
           /\ \A m, n \in ToSet(before[p]) : name[m] = name[n] => m = n
<1>1. before[p] \in Seq(Existed) /\ before[p] \in Seq(Node) /\ IsInjective(before[p])
  BY DEF BeforeInv, Forest
<1>2. \A m, n \in ToSet(before[p]) : name[m] = name[n] => m = n
  BY DEF BeforeInv
<1>3. \A i \in 1..Len(before[p]) : before[p][i] \in ToSet(before[p])
  BY <1>1, ToSetIs
<1> QED
  BY <1>1, <1>2, <1>3

(* Rows are of nodes.                                                      *)
LEMMA NowRow ==
    ASSUME TreeInv, NEW p \in Place
    PROVE  /\ kids[p] \in Seq(Node) /\ Len(kids[p]) \in Nat /\ DOMAIN kids[p] = 1..Len(kids[p])
           /\ \A i \in 1..Len(kids[p]) : kids[p][i] \in Node /\ kids[p][i] \in ToSet(kids[p])
<1>1. kids[p] \in Seq(Node)
  BY DEF TreeInv, Forest
<1> QED
  BY <1>1, ToSetIs

(* The copy of a source is below the target.                               *)
LEMMA RootInRow ==
    ASSUME BulkInv, Copying, root # NULL
    PROVE  /\ root \in Created /\ root \in Node /\ root \in ToSet(kids[request.target])
           /\ \A p \in Place : p # request.target => root \notin ToSet(kids[p])
<1>0. TreeInv /\ FramesInv /\ BeforeInv /\ RequestInv
  BY Parts
<1>1. root \in Created /\ kids[request.target] = Append(before[request.target] \o made, root)
  BY <1>0 DEF FramesInv, CopyingInv
<1>2. root \in Node /\ request.target \in Place /\ made \in Seq(Node)
  BY <1>0, <1>1, CopyingIs DEF Created, RequestInv
<1>3. before[request.target] \in Seq(Node)
  BY <1>0, <1>2, OldRow
<1>4. before[request.target] \o made \in Seq(Node)
  BY <1>2, <1>3, ConcatSet
<1>5. root \in ToSet(kids[request.target])
  <2>1. PICK s \in Seq(Node) : s = before[request.target] \o made
    BY <1>4
  <2>2. root \in ToSet(Append(s, root))
    BY <1>2, AppendSet
  <2> QED
    BY <1>1, <2>1, <2>2
<1>6. \A p \in Place : p # request.target => root \notin ToSet(kids[p])
  BY <1>0, <1>2, <1>5 DEF TreeInv, Forest
<1> QED
  BY <1>1, <1>2, <1>5, <1>6

(* What is left to be done for the node the frame on top is under          *)
LEMMA TopPending ==
    ASSUME BulkInv, Copying, ~Endless, step \in {"fetch", "create"}, root # NULL,
           NEW under, under = todo[1].under
    PROVE  /\ under \in Created \ ToSet(made) /\ under \in Node /\ under # request.target
           /\ copyOf[under] \in Existed
           /\ \E o \in Int : /\ PendingAt(under, o) /\ 1 - o = Len(kids[under]) + 1
                             /\ 1 - o \in 1..Len(before[copyOf[under]])
                             /\ todo[1].src = before[copyOf[under]][1 - o]
<1>0. TreeInv /\ BeforeInv /\ PendingInv
  BY Parts DEF CopyInv
<1>1. /\ todo \in Seq(Frame) /\ DOMAIN todo = 1..Len(todo) /\ Len(todo) \in Nat /\ todo # <<>>
      /\ \A i \in DOMAIN todo : todo[i].under \in Created \ ToSet(made)
      /\ request.target \notin Created
  BY CopyingIs
<1>2. 1 \in DOMAIN todo
  BY <1>1
<1>3. under \in Created \ ToSet(made) /\ under \in Node /\ under # request.target
  BY <1>1, <1>2 DEF Created
<1>4. copyOf[under] \in Existed /\ Task(under)
  BY <1>0, <1>3 DEF PendingInv
<1>5. PICK o \in Int : PendingAt(under, o)
  BY <1>4 DEF Task
<1> DEFINE row == before[copyOf[under]]
           k   == Len(kids[under])
<1>6. /\ k <= Len(row)
      /\ \A j \in (k + 1)..Len(row) : o + j \in DOMAIN todo /\ todo[o + j] = [src |-> row[j], under |-> under]
      /\ \A i \in DOMAIN todo : todo[i].under = under => i - o \in (k + 1)..Len(row)
  BY <1>5 DEF PendingAt
<1>7. k \in Nat /\ Len(row) \in Nat
  BY <1>0, <1>3, <1>4, OldRow, NowRow, BulkSizes
<1> HIDE DEF row, k
<1>8. 1 - o \in (k + 1)..Len(row)
  BY <1>2, <1>6
<1>9. o + (k + 1) \in DOMAIN todo
  <2>1. k + 1 \in (k + 1)..Len(row)
    BY <1>7, <1>8
  <2> QED
    BY <1>6, <2>1
<1>10. 1 - o = k + 1
  BY <1>1, <1>7, <1>8, <1>9
<1>11. todo[o + (1 - o)] = [src |-> row[1 - o], under |-> under]
  BY <1>6, <1>8
<1>12. o + (1 - o) = 1
  OBVIOUS
<1>13. todo[1].src = row[1 - o]
  BY <1>11, <1>12
<1>14. 1 - o \in 1..Len(row)
  BY <1>7, <1>8
<1> QED
  BY <1>3, <1>4, <1>5, <1>10, <1>13, <1>14 DEF row, k

(* No copy below a copy has the name of another child of the source.       *)
LEMMA NameIsFree ==
    ASSUME BulkInv, Copying, ~Endless, step = "fetch", root # NULL
    PROVE  name[todo[1].src] \notin NamesOf(todo[1].under)
<1>0. TreeInv /\ BeforeInv /\ FramesInv /\ PendingInv
  BY Parts DEF CopyInv
<1> DEFINE under == todo[1].under
           src   == todo[1].src
<1>1. /\ under \in Created \ ToSet(made) /\ under \in Node /\ under # request.target
      /\ copyOf[under] \in Existed
      /\ \E o \in Int : /\ PendingAt(under, o) /\ 1 - o = Len(kids[under]) + 1
                        /\ 1 - o \in 1..Len(before[copyOf[under]])
                        /\ src = before[copyOf[under]][1 - o]
  BY TopPending
<1> HIDE DEF under, src
<1>2. PICK o \in Int : /\ PendingAt(under, o) /\ 1 - o = Len(kids[under]) + 1
                       /\ 1 - o \in 1..Len(before[copyOf[under]])
                       /\ src = before[copyOf[under]][1 - o]
  BY <1>1
<1> DEFINE p   == copyOf[under]
           row == before[p]
           k   == Len(kids[under])
<1>3. k <= Len(row) /\ \A i \in 1..k : copyOf[kids[under][i]] = row[i]
  BY <1>2 DEF PendingAt
<1>4. p \in Place /\ under \in Place
  BY <1>1, BulkSizes
<1> HIDE DEF p
<1>5. /\ IsInjective(row) /\ Len(row) \in Nat /\ DOMAIN row = 1..Len(row)
      /\ \A i \in 1..Len(row) : row[i] \in Existed /\ row[i] \in ToSet(row)
      /\ \A m, n \in ToSet(row) : name[m] = name[n] => m = n
  BY <1>0, <1>4, OldRow
<1>6. /\ k \in Nat /\ kids[under] \in Seq(Node)
      /\ \A i \in 1..k : kids[under][i] \in Node /\ kids[under][i] \in ToSet(kids[under])
  BY <1>0, <1>4, NowRow
<1>a. src = row[1 - o] /\ 1 - o \in 1..Len(row) /\ 1 - o = k + 1
  BY <1>2 DEF p
<1> HIDE DEF row, k
<1> SUFFICES ASSUME name[src] \in NamesOf(under) PROVE FALSE
  BY DEF src, under
<1>7. PICK m \in ToSet(kids[under]) : name[m] = name[src]
  BY DEF NamesOf
<1>8. PICK i \in 1..k : kids[under][i] = m
  <2>1. kids[under] \in Seq(Node)
    BY <1>6
  <2>2. \E i \in 1..Len(kids[under]) : kids[under][i] = m
    BY <1>7, <2>1, ToSetIs
  <2> QED
    BY <2>2 DEF k
<1>9. copyOf[m] = row[i] /\ i \in 1..Len(row) /\ m \in Node
  BY <1>3, <1>5, <1>6, <1>8
<1>10. m \in Created
  <2>1. copyOf[m] \in Existed
    BY <1>5, <1>9
  <2>2. copyOf[m] # NULL
    BY <2>1, BulkSizes
  <2> QED
    BY <1>9, <2>2 DEF Created
<1>11. m \notin ToSet(made)
  <2>1. request.kind = "copy"
    BY CopyingIs
  <2>2. ToSet(made) \cap ToSet(kids[under]) = {}
    BY <1>0, <1>1, <1>4, <2>1 DEF FramesInv, MadeInv
  <2> QED
    BY <1>7, <2>2
<1>12. m # root
  BY <1>1, <1>4, <1>7, RootInRow
<1>13. SameName(m)
  BY <1>0, <1>10 DEF PendingInv
<1>14. name[m] = name[row[i]]
  BY <1>9, <1>11, <1>12, <1>13 DEF SameName
<1>15. row[i] = row[1 - o]
  BY <1>5, <1>7, <1>9, <1>14, <1>a
<1>16. i = 1 - o
  BY <1>5, <1>9, <1>15, <1>a DEF IsInjective
<1> QED
  BY <1>6, <1>8, <1>16, <1>a

(* Choosing a name                                                         *)
LEMMA PendingFetch ==
    ASSUME BulkInv, FetchSource
    PROVE  PendingInv'
<1>0. TreeInv /\ BeforeInv /\ FramesInv /\ PendingInv /\ RequestInv /\ NamesInv
  BY Parts DEF CopyInv
<1>1. /\ step = "fetch" /\ step' = "create" /\ UNCHANGED <<kids, name, request, todo, root, made, copyOf>>
  BY DEF FetchSource, tree
<1>2. before' = before
  BY DEF FetchSource
<1>3. Copying
  BY <1>1 DEF Copying
<1> SUFFICES ASSUME ~Endless' PROVE PendingInv'
  BY DEF PendingInv
<1>4. ~Endless
  BY <1>1, <1>2 DEF Endless, Now, Holds, Closed
<1>5. \A i \in DOMAIN todo : todo[i].src \in Existed /\ ~Holds(before, todo[i].src, request.target)
  BY <1>0, <1>3, <1>4 DEF PendingInv
<1>6. \A i \in DOMAIN todo' : todo'[i].src \in Existed /\ ~Holds(before', todo'[i].src, request'.target)
  BY <1>1, <1>2, <1>5
<1>7. \A n \in Created' : copyOf'[n] \in Existed /\ SameName(n)' /\ Task(n)'
  <2> SUFFICES ASSUME NEW n \in Created PROVE copyOf'[n] \in Existed /\ SameName(n)' /\ Task(n)'
    BY <1>1 DEF Created
  <2>1. copyOf[n] \in Existed /\ SameName(n) /\ Task(n)
    BY <1>0, <1>3, <1>4 DEF PendingInv
  <2>2. PICK o \in Int : PendingAt(n, o)
    BY <1>1, <2>1 DEF Task
  <2>3. PendingAt(n, o)'
    BY <1>1, <1>2, <2>2 DEF PendingAt
  <2>4. SameName(n)'
    BY <1>1, <2>1 DEF SameName
  <2> QED
    BY <1>1, <2>1, <2>3, <2>4 DEF Task
<1>8. root' # NULL => label' = name'[todo'[1].src]
  <2> SUFFICES ASSUME root # NULL PROVE label' = name[todo[1].src]
    BY <1>1
  <2>1. name[todo[1].src] \notin NamesOf(todo[1].under)
    BY <1>1, <1>3, <1>4, NameIsFree
  <2> QED
    BY <1>0, <2>1, FetchIs
<1> QED
  BY <1>6, <1>7, <1>8 DEF PendingInv

(* The node a new one is put below                                         *)
LEMMA PendingBelow ==
    ASSUME BulkInv, ~Endless, NEW n, CreateNode(n), NEW m \in Created, m = todo[1].under, root # NULL
    PROVE  \E o \in Int : PendingAt(m, o)'
<1>0. TreeInv /\ BeforeInv /\ FramesInv /\ PendingInv /\ RequestInv /\ NamesInv
  BY Parts DEF CopyInv
<1>1. /\ step = "create" /\ UNCHANGED <<request, made, before>>
      /\ Len(todo) \in Nat \ {0} /\ todo' \in Seq(Frame) /\ Len(todo') = Len(todo)
      /\ todo'[1] = [src |-> todo[1].src, under |-> n]
      /\ \A i \in 2..Len(todo) : todo'[i] = todo[i]
      /\ n # todo[1].under
  BY <1>0, CreateNodeIs
<1>2. /\ n \in Node
      /\ \A x \in Node : /\ name'[x] = IF x = n THEN label ELSE name[x]
                         /\ copyOf'[x] = IF x = n THEN todo[1].src ELSE copyOf[x]
      /\ \A p \in Place : /\ n \notin ToSet(kids[p])
                          /\ kids'[p] = IF p = todo[1].under THEN Append(kids[p], n) ELSE kids[p]
                          /\ ToSet(kids'[p]) = IF p = todo[1].under THEN ToSet(kids[p]) \cup {n} ELSE ToSet(kids[p])
  BY <1>0, CreateIs
<1>3. Copying
  BY <1>1 DEF Copying
<1>4. /\ m \in Node /\ copyOf[m] \in Existed
      /\ \E o \in Int : /\ PendingAt(m, o) /\ 1 - o = Len(kids[m]) + 1
                        /\ 1 - o \in 1..Len(before[copyOf[m]])
                        /\ todo[1].src = before[copyOf[m]][1 - o]
  BY <1>1, <1>3, TopPending
<1>5. PICK o \in Int : /\ PendingAt(m, o) /\ 1 - o = Len(kids[m]) + 1
                       /\ 1 - o \in 1..Len(before[copyOf[m]])
                       /\ todo[1].src = before[copyOf[m]][1 - o]
  BY <1>4
<1> DEFINE p   == copyOf[m]
           row == before[p]
           k   == Len(kids[m])
           was == kids[m]
           now == kids'[m]
<1>6. /\ k <= Len(row) /\ \A i \in 1..k : copyOf[was[i]] = row[i]
      /\ \A j \in (k + 1)..Len(row) : o + j \in DOMAIN todo /\ todo[o + j] = [src |-> row[j], under |-> m]
      /\ \A i \in DOMAIN todo : todo[i].under = m => i - o \in (k + 1)..Len(row)
  BY <1>5 DEF PendingAt
<1>7. m \in Place /\ p \in Place
  BY <1>4, BulkSizes
<1>8. Len(row) \in Nat
  <2> HIDE DEF p
  <2> QED
    BY <1>0, <1>7, OldRow
<1>9. was \in Seq(Node) /\ k \in Nat /\ \A i \in 1..k : was[i] \in Node /\ was[i] \in ToSet(was)
  BY <1>0, <1>7, NowRow
<1>10. now = Append(was, n) /\ n \notin ToSet(was)
  BY <1>2, <1>7
<1>11. DOMAIN todo = 1..Len(todo) /\ DOMAIN todo' = 1..Len(todo)
  BY <1>1, <1>3, CopyingIs
<1>12. before'[copyOf'[m]] = row
  BY <1>1, <1>2, <1>4
<1>a. 1 - o = k + 1 /\ 1 - o \in 1..Len(row) /\ todo[1].src = row[1 - o]
  BY <1>5
<1> HIDE DEF row, k, was, now, p
<1>13. Len(now) = k + 1 /\ \A i \in 1..k : now[i] = was[i]
  BY <1>9, <1>10 DEF k, was
<1>14. now[k + 1] = n
  BY <1>9, <1>10 DEF k, was
<1>15. \A i \in 1..(k + 1) : copyOf'[now[i]] = row[i]
  <2> SUFFICES ASSUME NEW i \in 1..(k + 1) PROVE copyOf'[now[i]] = row[i]
    OBVIOUS
  <2>1. CASE i = k + 1
    BY <1>2, <1>14, <1>a, <2>1
  <2>2. CASE i \in 1..k
    <3>1. now[i] = was[i] /\ was[i] \in Node /\ was[i] # n
      BY <1>9, <1>10, <1>13, <2>2
    <3> QED
      BY <1>2, <1>6, <2>2, <3>1
  <2> QED
    BY <1>9, <2>1, <2>2
<1>16. \A j \in (k + 2)..Len(row) : o + j \in DOMAIN todo' /\ todo'[o + j] = [src |-> row[j], under |-> m]
  <2> SUFFICES ASSUME NEW j \in (k + 2)..Len(row)
               PROVE  o + j \in DOMAIN todo' /\ todo'[o + j] = [src |-> row[j], under |-> m]
    OBVIOUS
  <2>1. j \in (k + 1)..Len(row)
    BY <1>8, <1>9
  <2>2. o + j \in DOMAIN todo /\ todo[o + j] = [src |-> row[j], under |-> m]
    BY <1>6, <2>1
  <2>3. o + j \in 2..Len(todo)
    BY <1>8, <1>9, <1>11, <1>a, <2>2
  <2> QED
    BY <1>1, <1>11, <2>2, <2>3
<1>17. \A i \in DOMAIN todo' : todo'[i].under = m => i - o \in (k + 2)..Len(row)
  <2> SUFFICES ASSUME NEW i \in 1..Len(todo), todo'[i].under = m PROVE i - o \in (k + 2)..Len(row)
    BY <1>11
  <2>1. i # 1
    BY <1>1
  <2>2. i \in 2..Len(todo) /\ i \in DOMAIN todo
    BY <1>11, <2>1
  <2>3. todo[i].under = m
    BY <1>1, <2>2
  <2>4. i - o \in (k + 1)..Len(row)
    BY <1>6, <2>2, <2>3
  <2> QED
    BY <1>8, <1>9, <1>a, <2>1, <2>4
<1>18. k + 1 <= Len(row)
  BY <1>a
<1>19. Len(now) + 1 = k + 2
  BY <1>9, <1>13
<1>20. PendingAt(m, o)'
  BY <1>12, <1>13, <1>15, <1>16, <1>17, <1>18, <1>19 DEF PendingAt, now
<1> QED
  BY <1>20

(* The other nodes                                                         *)
LEMMA PendingElsewhere ==
    ASSUME BulkInv, NEW n, CreateNode(n), NEW m \in Created, m # todo[1].under, NEW o \in Int, PendingAt(m, o),
           copyOf[m] \in Existed
    PROVE  PendingAt(m, o)'
<1>0. TreeInv /\ BeforeInv /\ FramesInv /\ PendingInv /\ RequestInv /\ NamesInv
  BY Parts DEF CopyInv
<1>1. /\ step = "create" /\ UNCHANGED <<request, made, before>>
      /\ Len(todo) \in Nat \ {0} /\ todo' \in Seq(Frame) /\ Len(todo') = Len(todo)
      /\ todo'[1] = [src |-> todo[1].src, under |-> n]
      /\ \A i \in 2..Len(todo) : todo'[i] = todo[i]
  BY <1>0, CreateNodeIs
<1>2. /\ n \in Node /\ n \notin Created
      /\ \A x \in Node : /\ name'[x] = IF x = n THEN label ELSE name[x]
                         /\ copyOf'[x] = IF x = n THEN todo[1].src ELSE copyOf[x]
      /\ \A p \in Place : /\ n \notin ToSet(kids[p])
                          /\ kids'[p] = IF p = todo[1].under THEN Append(kids[p], n) ELSE kids[p]
                          /\ ToSet(kids'[p]) = IF p = todo[1].under THEN ToSet(kids[p]) \cup {n} ELSE ToSet(kids[p])
  BY <1>0, CreateIs
<1>3. Copying
  BY <1>1 DEF Copying
<1>4. m \in Node /\ m \in Place /\ m # n
  BY <1>2, BulkSizes DEF Created
<1> DEFINE row == before[copyOf[m]]
           k   == Len(kids[m])
           was == kids[m]
<1>5. /\ k <= Len(row) /\ \A i \in 1..k : copyOf[was[i]] = row[i]
      /\ \A j \in (k + 1)..Len(row) : o + j \in DOMAIN todo /\ todo[o + j] = [src |-> row[j], under |-> m]
      /\ \A i \in DOMAIN todo : todo[i].under = m => i - o \in (k + 1)..Len(row)
  BY DEF PendingAt
<1>6. was \in Seq(Node) /\ k \in Nat /\ \A i \in 1..k : was[i] \in Node /\ was[i] \in ToSet(was)
  BY <1>0, <1>4, NowRow
<1>7. kids'[m] = was /\ n \notin ToSet(was) /\ before'[copyOf'[m]] = row
  BY <1>1, <1>2, <1>4
<1>8. DOMAIN todo = 1..Len(todo) /\ DOMAIN todo' = 1..Len(todo)
  BY <1>1, <1>3, CopyingIs
<1> HIDE DEF row, k, was
<1>9. \A i \in 1..k : copyOf'[was[i]] = row[i]
  BY <1>2, <1>5, <1>6, <1>7
<1>10. \A j \in (k + 1)..Len(row) : o + j \in DOMAIN todo' /\ todo'[o + j] = [src |-> row[j], under |-> m]
  <2> SUFFICES ASSUME NEW j \in (k + 1)..Len(row)
               PROVE  o + j \in DOMAIN todo' /\ todo'[o + j] = [src |-> row[j], under |-> m]
    OBVIOUS
  <2>1. o + j \in 1..Len(todo) /\ todo[o + j] = [src |-> row[j], under |-> m]
    BY <1>5, <1>8
  <2>2. o + j # 1
    <3> SUFFICES ASSUME o + j = 1 PROVE FALSE
      OBVIOUS
    <3>1. todo[1] = [src |-> row[j], under |-> m]
      BY <2>1
    <3> QED
      BY <3>1
  <2>3. o + j \in 2..Len(todo)
    BY <1>1, <2>1, <2>2
  <2>4. todo'[o + j] = todo[o + j]
    BY <1>1, <2>3
  <2> QED
    BY <1>8, <2>1, <2>4
<1>11. \A i \in DOMAIN todo' : todo'[i].under = m => i - o \in (k + 1)..Len(row)
  <2> SUFFICES ASSUME NEW i \in 1..Len(todo), todo'[i].under = m PROVE i - o \in (k + 1)..Len(row)
    BY <1>8
  <2>1. i # 1
    BY <1>1, <1>4
  <2>2. i \in 2..Len(todo) /\ i \in DOMAIN todo
    BY <1>8, <2>1
  <2>3. todo[i].under = m
    BY <1>1, <2>2
  <2> QED
    BY <1>5, <2>2, <2>3
<1>12. Len(was) = k
  BY DEF k, was
<1> QED
  BY <1>5, <1>7, <1>9, <1>10, <1>11, <1>12 DEF PendingAt

(* Creating a node                                                         *)
LEMMA PendingCreate ==
    ASSUME BulkInv, NEW n, CreateNode(n)
    PROVE  PendingInv'
<1>0. TreeInv /\ BeforeInv /\ FramesInv /\ PendingInv /\ RequestInv /\ NamesInv
  BY Parts DEF CopyInv
<1>1. /\ step = "create" /\ step' = "list" /\ root' = IF root = NULL THEN n ELSE root
      /\ UNCHANGED <<request, made, before>>
      /\ Len(todo) \in Nat \ {0} /\ Len(todo') = Len(todo) /\ todo' \in Seq(Frame)
      /\ todo'[1] = [src |-> todo[1].src, under |-> n]
      /\ \A i \in 2..Len(todo) : todo'[i] = todo[i]
  BY <1>0, CreateNodeIs
<1>2. /\ n \in Node /\ n \notin Created /\ n \notin Existed /\ Created' = Created \cup {n}
      /\ \A x \in Node : /\ name'[x] = IF x = n THEN label ELSE name[x]
                         /\ copyOf'[x] = IF x = n THEN todo[1].src ELSE copyOf[x]
      /\ \A p \in Place : /\ n \notin ToSet(kids[p])
                          /\ kids'[p] = IF p = todo[1].under THEN Append(kids[p], n) ELSE kids[p]
                          /\ ToSet(kids'[p]) = IF p = todo[1].under THEN ToSet(kids[p]) \cup {n} ELSE ToSet(kids[p])
  BY <1>0, CreateIs
<1>3. Copying
  BY <1>1 DEF Copying
<1> SUFFICES ASSUME ~Endless' PROVE PendingInv'
  BY DEF PendingInv
<1>4. ~Endless
  BY <1>1 DEF Endless, Now, Holds, Closed
<1>5. /\ \A i \in DOMAIN todo : todo[i].src \in Existed /\ ~Holds(before, todo[i].src, request.target)
      /\ \A m \in Created : copyOf[m] \in Existed /\ SameName(m) /\ Task(m)
      /\ root # NULL => label = name[todo[1].src]
  BY <1>0, <1>1, <1>3, <1>4 DEF PendingInv
<1>6. DOMAIN todo = 1..Len(todo) /\ DOMAIN todo' = 1..Len(todo)
  BY <1>1, <1>3, CopyingIs
<1>7. \A i \in DOMAIN todo' : i \in DOMAIN todo /\ todo'[i].src = todo[i].src
  BY <1>1, <1>6
<1>8. \A i \in DOMAIN todo' : todo'[i].src \in Existed /\ ~Holds(before', todo'[i].src, request'.target)
  BY <1>1, <1>5, <1>7
<1>9. copyOf'[n] \in Existed /\ SameName(n)' /\ Task(n)'
  <2>1. copyOf'[n] = todo[1].src /\ todo[1].src \in Existed /\ name'[n] = label
    BY <1>1, <1>2, <1>5, <1>6
  <2>2. name'[todo[1].src] = name[todo[1].src]
    BY <1>2, <2>1, BulkSizes
  <2>3. SameName(n)'
    <3>1. CASE root = NULL
      BY <1>1, <3>1 DEF SameName
    <3>2. CASE root # NULL
      <4>1. name'[n] = name'[copyOf'[n]]
        BY <1>5, <2>1, <2>2, <3>2
      <4> QED
        BY <4>1 DEF SameName
    <3> QED
      BY <3>1, <3>2
  <2>4. Task(n)'
    BY <1>1 DEF Task
  <2> QED
    BY <2>1, <2>3, <2>4
<1>10. ASSUME NEW m \in Created PROVE copyOf'[m] \in Existed /\ SameName(m)' /\ Task(m)'
  <2>1. m \in Node /\ m # n /\ copyOf[m] \in Existed /\ SameName(m) /\ Task(m) /\ m # NULL
    BY <1>2, <1>5, BulkSizes DEF Created
  <2>2. copyOf'[m] = copyOf[m] /\ name'[m] = name[m] /\ copyOf[m] \in Node /\ copyOf[m] # n
    BY <1>2, <2>1, BulkSizes
  <2>3. name'[copyOf[m]] = name[copyOf[m]]
    BY <1>2, <2>2
  <2>4. SameName(m)'
    BY <1>1, <2>1, <2>2, <2>3 DEF SameName
  <2>5. PICK o \in Int : PendingAt(m, o)
    BY <1>1, <2>1 DEF Task
  <2>6. \E q \in Int : PendingAt(m, q)'
    <3>1. CASE m = todo[1].under
      <4>1. root # NULL
        <5> SUFFICES ASSUME root = NULL PROVE FALSE
          OBVIOUS
        <5>1. request.target \notin Created /\ todo = <<[src |-> request.sources[Now], under |-> request.target]>>
          BY <1>3, CopyingIs
        <5>2. todo[1].under = request.target
          BY <5>1
        <5> QED
          BY <3>1, <5>1, <5>2
      <4> QED
        BY <1>4, <3>1, <4>1, PendingBelow
    <3>2. CASE m # todo[1].under
      BY <2>1, <2>5, <3>2, PendingElsewhere
    <3> QED
      BY <3>1, <3>2
  <2> QED
    BY <2>1, <2>2, <2>4, <2>6 DEF Task
<1>11. \A m \in Created' : copyOf'[m] \in Existed /\ SameName(m)' /\ Task(m)'
  BY <1>2, <1>9, <1>10
<1> QED
  BY <1>1, <1>8, <1>11 DEF PendingInv

(* Listing its children                                                    *)
LEMMA PendingList ==
    ASSUME BulkInv, ListChildren
    PROVE  PendingInv'
<1>0. TreeInv /\ BeforeInv /\ FramesInv /\ PendingInv /\ RequestInv /\ NamesInv
  BY Parts DEF CopyInv
<1> DEFINE src   == todo[1].src
           under == todo[1].under
           row   == kids[src]
           c     == Len(row)
<1>1. /\ step = "list" /\ (step' = "fetch" \/ step' = "copied")
      /\ UNCHANGED <<kids, name, copyOf, request, root, made, before>>
      /\ Len(todo) \in Nat \ {0} /\ c \in Nat
      /\ src \in Place /\ under \in Place /\ row \in Seq(Node)
      /\ todo' \in Seq(Frame) /\ Len(todo') = c + Len(todo) - 1
      /\ \A i \in 1..c : todo'[i] = [src |-> row[i], under |-> under]
      /\ \A i \in (c + 1)..Len(todo') : todo'[i] = todo[i - c + 1] /\ i - c + 1 \in 2..Len(todo)
  BY <1>0, ListIs
<1> HIDE DEF c, row, src, under
<1>3. Copying
  BY <1>1 DEF Copying
<1> SUFFICES ASSUME ~Endless' PROVE PendingInv'
  BY DEF PendingInv
<1>4. ~Endless
  BY <1>1 DEF Endless, Now, Holds, Closed
<1>5. /\ \A i \in DOMAIN todo : todo[i].src \in Existed /\ ~Holds(before, todo[i].src, request.target)
      /\ \A m \in Created : copyOf[m] \in Existed /\ SameName(m) /\ Task(m)
  BY <1>0, <1>3, <1>4 DEF PendingInv
<1>6. DOMAIN todo = 1..Len(todo) /\ DOMAIN todo' = 1..Len(todo') /\ 1 \in DOMAIN todo
  BY <1>1, <1>3, CopyingIs
<1>7. src \in Existed /\ ~Holds(before, src, request.target)
  BY <1>5, <1>6 DEF src
<1>8. /\ copyOf[under] = src /\ kids[under] = <<>>
      /\ \A i \in DOMAIN todo : i # 1 => todo[i].under # under
  BY <1>0, <1>1, <1>3 DEF FramesInv, CopyingInv, src, under
<1>9. row = before[src] /\ src \in Place
  <2>1. src \notin Created
    BY <1>0, <1>7 DEF TreeInv
  <2>2. src # request.target
    <3>1. PICK t : t = request.target
      OBVIOUS
    <3>2. Holds(before, t, t)
      BY HoldsItself
    <3> QED
      BY <1>7, <3>1, <3>2
  <2> QED
    BY <1>1, <1>3, <2>1, <2>2, CopyingIs DEF row
<1>10. \A i \in 1..c : row[i] \in Existed /\ ~Holds(before, row[i], request.target)
  <2> SUFFICES ASSUME NEW i \in 1..c PROVE row[i] \in Existed /\ ~Holds(before, row[i], request.target)
    OBVIOUS
  <2>1. before[src][i] \in Existed /\ before[src][i] \in ToSet(before[src])
    <3>1. i \in 1..Len(before[src])
      BY <1>9 DEF c
    <3> QED
      BY <1>0, <1>9, <3>1, OldRow
  <2>2. PICK a, t, p : a = row[i] /\ t = request.target /\ p = src
    OBVIOUS
  <2>3. Holds(before, a, t) => Holds(before, p, t)
    <3>1. a \in ToSet(before[p]) /\ p \in Place
      BY <1>9, <2>1, <2>2
    <3> QED
      BY <3>1, HoldsUp
  <2> QED
    BY <1>7, <1>9, <2>1, <2>2, <2>3
<1>11. \A i \in DOMAIN todo' : todo'[i].src \in Existed /\ ~Holds(before', todo'[i].src, request'.target)
  <2> SUFFICES ASSUME NEW i \in 1..Len(todo')
               PROVE  todo'[i].src \in Existed /\ ~Holds(before, todo'[i].src, request.target)
    BY <1>1, <1>6
  <2>1. CASE i \in 1..c
    <3>1. todo'[i].src = row[i]
      <4>1. todo'[i] = [src |-> row[i], under |-> under]
        BY <1>1, <2>1
      <4> QED
        BY <4>1
    <3> QED
      BY <1>10, <2>1, <3>1
  <2>2. CASE i \in (c + 1)..Len(todo')
    <3>1. todo'[i] = todo[i - c + 1] /\ i - c + 1 \in DOMAIN todo
      BY <1>1, <1>6, <2>2
    <3> QED
      BY <1>5, <3>1
  <2> QED
    BY <1>1, <2>1, <2>2
<1>a. UNCHANGED <<kids, copyOf, before>>
  BY <1>1
<1>12. PICK u : u = under
  OBVIOUS
<1>b. PendingAt(u, 0)'
  <2>1. Len(kids'[u]) = 0 /\ before'[copyOf'[u]] = row
    BY <1>1, <1>8, <1>9, <1>12
  <2>2. \A j \in 1..c : 0 + j \in DOMAIN todo' /\ todo'[0 + j] = [src |-> row[j], under |-> u]
    BY <1>1, <1>6, <1>12
  <2>3. \A i \in DOMAIN todo' : todo'[i].under = u => i - 0 \in 1..c
    <3> SUFFICES ASSUME NEW i \in 1..Len(todo'), todo'[i].under = u, i \notin 1..c PROVE FALSE
      BY <1>6
    <3>1. i \in (c + 1)..Len(todo')
      BY <1>1
    <3>2. todo'[i] = todo[i - c + 1] /\ i - c + 1 \in 2..Len(todo)
      BY <1>1, <3>1
    <3>3. i - c + 1 \in DOMAIN todo /\ i - c + 1 # 1
      BY <1>6, <3>2
    <3> QED
      BY <1>8, <1>12, <3>2, <3>3
  <2>4. Len(row) = c /\ 0 <= c /\ 0 + 1 = 1
    BY <1>1 DEF c
  <2>5. \A i \in 1..0 : copyOf'[kids'[u][i]] = row[i]
    OBVIOUS
  <2> QED
    BY <2>1, <2>2, <2>3, <2>4, <2>5 DEF PendingAt
<1>13. ASSUME NEW m \in Created, m # under PROVE \E o \in Int : PendingAt(m, o)'
  <2>1. PICK q \in Int : PendingAt(m, q)
    BY <1>5, <1>13 DEF Task, under
  <2> DEFINE old == before[copyOf[m]]
             k   == Len(kids[m])
             o   == q + c - 1
  <2>2. /\ k <= Len(old) /\ \A i \in 1..k : copyOf[kids[m][i]] = old[i]
        /\ \A j \in (k + 1)..Len(old) : q + j \in DOMAIN todo /\ todo[q + j] = [src |-> old[j], under |-> m]
        /\ \A i \in DOMAIN todo : todo[i].under = m => i - q \in (k + 1)..Len(old)
    BY <2>1 DEF PendingAt
  <2>3. k \in Nat /\ Len(old) \in Nat /\ m \in Node
    <3>1. m \in Node /\ m \in Place
      BY BulkSizes DEF Created
    <3>2. copyOf[m] \in Place
      BY <1>5, BulkSizes
    <3>3. PICK p \in Place : p = copyOf[m]
      BY <3>2
    <3>4. Len(before[p]) \in Nat
      BY <1>0, OldRow
    <3>5. Len(kids[m]) \in Nat
      BY <1>0, <3>1, NowRow
    <3> QED
      BY <3>1, <3>3, <3>4, <3>5
  <2> HIDE DEF old, k
  <2>4. \A j \in (k + 1)..Len(old) : o + j \in DOMAIN todo' /\ todo'[o + j] = [src |-> old[j], under |-> m]
    <3> SUFFICES ASSUME NEW j \in (k + 1)..Len(old)
                 PROVE  o + j \in DOMAIN todo' /\ todo'[o + j] = [src |-> old[j], under |-> m]
      OBVIOUS
    <3>1. q + j \in DOMAIN todo /\ todo[q + j] = [src |-> old[j], under |-> m] /\ j \in Nat
      BY <2>2, <2>3
    <3>2. q + j # 1
      <4> SUFFICES ASSUME q + j = 1 PROVE FALSE
        OBVIOUS
      <4>1. todo[1] = [src |-> old[j], under |-> m]
        BY <3>1
      <4>2. todo[1].under = m
        BY <4>1
      <4> QED
        BY <1>13, <4>2 DEF under
    <3>3. q + j \in 2..Len(todo)
      BY <1>1, <1>6, <3>1, <3>2
    <3>4. o + j \in (c + 1)..Len(todo') /\ (o + j) - c + 1 = q + j
      BY <1>1, <3>1, <3>3
    <3>5. todo'[o + j] = todo[(o + j) - c + 1]
      BY <1>1, <3>4
    <3>6. todo'[o + j] = todo[q + j]
      BY <3>4, <3>5
    <3>7. o + j \in DOMAIN todo'
      BY <1>1, <1>6, <3>4
    <3> QED
      BY <3>1, <3>6, <3>7
  <2>5. \A i \in DOMAIN todo' : todo'[i].under = m => i - o \in (k + 1)..Len(old)
    <3> SUFFICES ASSUME NEW i \in 1..Len(todo'), todo'[i].under = m PROVE i - o \in (k + 1)..Len(old)
      BY <1>6
    <3>1. CASE i \in 1..c
      <4>1. todo'[i] = [src |-> row[i], under |-> under]
        BY <1>1, <3>1
      <4> QED
        BY <1>13, <4>1
    <3>2. CASE i \in (c + 1)..Len(todo')
      <4>1. todo'[i] = todo[i - c + 1] /\ i - c + 1 \in DOMAIN todo
        BY <1>1, <1>6, <3>2
      <4>2. (i - c + 1) - q \in (k + 1)..Len(old)
        BY <2>2, <4>1
      <4>3. (i - c + 1) - q = i - o
        BY <1>1
      <4> QED
        BY <4>2, <4>3
    <3> QED
      BY <1>1, <3>1, <3>2
  <2>6. PICK w \in Int : w = o
    BY <1>1
  <2> HIDE DEF o
  <2>7. /\ \A j \in (k + 1)..Len(old) : w + j \in DOMAIN todo' /\ todo'[w + j] = [src |-> old[j], under |-> m]
        /\ \A i \in DOMAIN todo' : todo'[i].under = m => i - w \in (k + 1)..Len(old)
    BY <2>4, <2>5, <2>6
  <2>8. before'[copyOf'[m]] = old /\ Len(kids'[m]) = k
    BY <1>a DEF old, k
  <2>9. k <= Len(old) /\ \A i \in 1..k : copyOf'[kids'[m][i]] = old[i]
    BY <1>a, <2>2
  <2>10. PendingAt(m, w)'
    BY <2>7, <2>8, <2>9 DEF PendingAt
  <2> QED
    BY <2>10
<1>14. ASSUME NEW m \in Created PROVE copyOf'[m] \in Existed /\ SameName(m)' /\ Task(m)'
  <2>1. copyOf[m] \in Existed /\ SameName(m)
    BY <1>5
  <2>2. SameName(m)'
    BY <1>1, <2>1 DEF SameName
  <2>3. \E o \in Int : PendingAt(m, o)'
    <3>1. CASE m = under
      BY <1>12, <1>b, <3>1
    <3>2. CASE m # under
      BY <1>13, <3>2
    <3> QED
      BY <3>1, <3>2
  <2> QED
    BY <1>1, <2>1, <2>2, <2>3 DEF Task
<1>15. Created' = Created
  BY <1>1 DEF Created
<1> QED
  BY <1>1, <1>11, <1>14, <1>15 DEF PendingInv

(* When nothing is left to do each copy is complete.                       *)
LEMMA CompleteCopies ==
    ASSUME BulkInv, step = "copied"
    PROVE  ~Endless /\ \A n \in Created : copyOf[n] \in Existed /\ RowDone(n) /\ SameName(n)
<1>0. TreeInv /\ BeforeInv /\ EndlessInv /\ PendingInv
  BY Parts DEF CopyInv
<1>1. Copying
  BY DEF Copying
<1>2. DOMAIN todo = {}
  <2>1. todo = <<>>
    BY <1>1, CopyingIs
  <2> QED
    BY <2>1
<1>3. ~Endless
  BY <1>0, <1>1, <1>2 DEF EndlessInv
<1>4. ASSUME NEW n \in Created PROVE copyOf[n] \in Existed /\ RowDone(n) /\ SameName(n)
  <2>1. copyOf[n] \in Existed /\ SameName(n) /\ Task(n)
    BY <1>0, <1>1, <1>3 DEF PendingInv
  <2>2. PICK o \in Int : PendingAt(n, o)
    BY <2>1 DEF Task
  <2>3. n \in Place
    BY BulkSizes DEF Created
  <2> DEFINE row == before[copyOf[n]]
             k   == Len(kids[n])
  <2>4. /\ k <= Len(row) /\ \A i \in 1..k : copyOf[kids[n][i]] = row[i]
        /\ \A j \in (k + 1)..Len(row) : o + j \in DOMAIN todo
    BY <2>2 DEF PendingAt
  <2>5. k \in Nat /\ DOMAIN kids[n] = 1..k
    BY <1>0, <2>3, NowRow
  <2>6. Len(row) \in Nat
    <3>1. PICK p \in Place : p = copyOf[n]
      BY <2>1, BulkSizes
    <3> QED
      BY <1>0, <3>1, OldRow
  <2> HIDE DEF row, k
  <2>7. k = Len(row)
    <3> SUFFICES ASSUME k < Len(row) PROVE FALSE
      BY <2>4, <2>5, <2>6
    <3>1. k + 1 \in (k + 1)..Len(row)
      BY <2>5, <2>6
    <3> QED
      BY <1>2, <2>4, <3>1
  <2>8. RowDone(n)
    BY <2>4, <2>5, <2>7 DEF RowDone, row, k
  <2> QED
    BY <2>1, <2>8
<1> QED
  BY <1>3, <1>4

(* A row whose nodes stay is complete if it was.                           *)
LEMMA RowKept ==
    ASSUME TreeInv, NEW n \in Node, RowDone(n), before' = before, kids'[n] = kids[n], copyOf'[n] = copyOf[n],
           \A x \in ToSet(kids[n]) : copyOf'[x] = copyOf[x]
    PROVE  RowDone(n)'
<1>1. DOMAIN kids[n] = 1..Len(kids[n]) /\ \A i \in 1..Len(kids[n]) : kids[n][i] \in ToSet(kids[n])
  BY NowRow, BulkSizes
<1>2. \A i \in DOMAIN kids[n] : copyOf'[kids[n][i]] = copyOf[kids[n][i]]
  BY <1>1
<1> QED
  BY <1>2 DEF RowDone

(* Going on to the next source                                             *)
LEMMA PendingCopied ==
    ASSUME BulkInv, Copied, step' = "fetch"
    PROVE  PendingInv'
<1>0. TreeInv /\ BeforeInv /\ RequestInv
  BY Parts
<1>1. /\ step = "copied" /\ UNCHANGED <<kids, name, copyOf, request, before>>
      /\ ToSet(made') = ToSet(made) \cup {root}
  BY CopiedIs
<1>2. /\ Now' \in 1..Len(request.sources) /\ request.sources[Now'] \in Existed
      /\ DOMAIN todo' = {1}
      /\ todo'[1].src = request.sources[Now'] /\ todo'[1].under = request.target
  BY NextSourceIs
<1>3. /\ ~Endless /\ \A n \in Created : copyOf[n] \in Existed /\ RowDone(n) /\ SameName(n)
  BY <1>1, CompleteCopies
<1>4. request.target \notin Created
  BY <1>1, CopyingIs DEF Copying
<1> SUFFICES ASSUME ~Endless' PROVE PendingInv'
  BY DEF PendingInv
<1>5. ~Holds(before', todo'[1].src, request'.target)
  BY <1>1, <1>2 DEF Endless
<1>6. ASSUME NEW n \in Created PROVE copyOf'[n] \in Existed /\ SameName(n)' /\ Task(n)'
  <2>1. copyOf[n] \in Existed /\ RowDone(n) /\ SameName(n) /\ n \in Place
    BY <1>3, BulkSizes DEF Created
  <2>2. SameName(n)'
    BY <1>1, <2>1 DEF SameName
  <2> DEFINE row == before[copyOf[n]]
             k   == Len(kids[n])
  <2>3. k \in Nat /\ DOMAIN kids[n] = 1..k
    BY <1>0, <2>1, NowRow
  <2>4. k = Len(row) /\ \A i \in 1..k : copyOf[kids[n][i]] = row[i]
    BY <2>1, <2>3 DEF RowDone
  <2>5. before'[copyOf'[n]] = row /\ Len(kids'[n]) = k /\ \A i \in 1..k : copyOf'[kids'[n][i]] = row[i]
    BY <1>1, <2>4
  <2> HIDE DEF row, k
  <2>6. (k + 1)..Len(row) = {} /\ k <= Len(row)
    BY <2>3, <2>4
  <2>7. \A i \in DOMAIN todo' : todo'[i].under # n
    BY <1>2, <1>4
  <2>8. PendingAt(n, 0)'
    BY <2>5, <2>6, <2>7 DEF PendingAt
  <2> QED
    BY <1>1, <2>1, <2>2, <2>8 DEF Task
<1>7. Created' = Created
  BY <1>1 DEF Created
<1> QED
  BY <1>2, <1>5, <1>6, <1>7 DEF PendingInv

(* What is not copied yet is to be copied.                                 *)
LEMMA PendingStep ==
    ASSUME BulkInv, Next
    PROVE  PendingInv'
<1>1. ASSUME NEW r \in Requests, Begin(r) PROVE PendingInv'
  <2>1. CASE r.kind = "copy"
    <3>1. /\ todo' = <<[src |-> r.sources[1], under |-> r.target]>> /\ r.sources[1] \in Existed
          /\ made' = <<>> /\ request' = r /\ step' = "fetch" /\ Created' = {}
          /\ r.target \in Place
      BY <1>1, <2>1, BeginIs
    <3>2. PICK a \in Node, b \in Place : a = r.sources[1] /\ b = r.target
      BY <3>1, BulkSizes
    <3>3. todo' = <<[src |-> a, under |-> b]>>
      BY <3>1, <3>2
    <3>4. DOMAIN todo' = {1} /\ todo'[1].src = a /\ todo'[1].under = b
      BY <3>3, FirstFrame
    <3>5. Now' = 1
      BY <3>1 DEF Now
    <3>6. ~Endless' => ~Holds(before', todo'[1].src, request'.target)
      BY <3>1, <3>2, <3>4, <3>5 DEF Endless
    <3> QED
      BY <3>1, <3>2, <3>4, <3>6 DEF PendingInv
  <2>2. CASE r.kind # "copy"
    BY <1>1, <2>2 DEF Begin, PendingInv, Copying
  <2> QED
    BY <2>1, <2>2
<1>2. CASE Copied
  <2>1. CASE step' = "fetch"
    BY <1>2, <2>1, PendingCopied
  <2>2. CASE step' # "fetch"
    BY <1>2, <2>2 DEF Copied, PendingInv, Copying
  <2> QED
    BY <2>1, <2>2
<1>3. ASSUME NEW n, \/ CopyFails \/ CreateLost(n) \/ FetchOrigins \/ MoveNext \/ MoveFails \/ MoveLost
                    \/ FetchSiblings \/ Reorder \/ RollbackCreated \/ RollbackMoved
      PROVE  PendingInv'
  <2>1. ~Copying'
    BY <1>3 DEF CopyFails, CreateLost, FetchOrigins, MoveNext, MoveFails, MoveLost, FetchSiblings, Reorder,
                RollbackCreated, RollbackMoved, GiveUpCopy, RollBack, Copying
  <2> QED
    BY <2>1 DEF PendingInv
<1> QED
  BY <1>1, <1>2, <1>3, PendingFetch, PendingCreate, PendingList DEF Next

-----------------------------------------------------------------------------
(* Copies that are complete                                                *)

(* A complete copy stays complete in a step that leaves rows alone.         *)
LEMMA RowsStay ==
    ASSUME TreeInv, UNCHANGED <<kids, copyOf, before>>, NEW n, RowDone(n)
    PROVE  RowDone(n)'
BY DEF RowDone

(* The copies of the sources before are left alone.                        *)
LEMMA DoneStep ==
    ASSUME BulkInv, Next
    PROVE  DoneInv'
<1>0. BeforeInv /\ TreeInv /\ RequestInv /\ FramesInv /\ NamesInv /\ CopyUndoInv /\ MoveInv /\ PlaceInv /\ DoneInv
  BY Parts DEF CopyInv
<1>b. before' = before
  BY <1>0, BeforeStep
<1>m. request.kind = "copy" => /\ ToSet(made) \subseteq Created
                               /\ \A p \in Place : p # request.target => ToSet(made) \cap ToSet(kids[p]) = {}
  BY <1>0 DEF FramesInv, MadeInv
<1>d. request.kind = "copy" => \A n \in ToSet(made) : n \in Node /\ n \in Place /\ copyOf[n] \in Existed /\ RowDone(n)
  BY <1>0, <1>m, BulkSizes DEF DoneInv, Created
<1>1. ASSUME NEW r \in Requests, Begin(r) PROVE DoneInv'
  <2>1. CASE r.kind = "copy"
    <3>1. made' = <<>>
      BY <1>1, <2>1, BeginIs
    <3>2. ToSet(made') = {}
      BY <3>1 DEF ToSet
    <3> QED
      BY <3>2 DEF DoneInv
  <2>2. CASE r.kind # "copy"
    BY <1>1, <2>2 DEF Begin, DoneInv
  <2> QED
    BY <2>1, <2>2
<1>2. CASE FetchSource \/ ListChildren \/ CopyFails \/ FetchSiblings
  <2>1. UNCHANGED <<kids, copyOf, made, request>>
    BY <1>2 DEF FetchSource, ListChildren, CopyFails, FetchSiblings, GiveUpCopy, tree, copying
  <2>2. request.kind = "copy" => \A n \in ToSet(made) : RowDone(n)'
    BY <1>0, <1>b, <1>d, <2>1, RowsStay
  <2> QED
    BY <1>d, <2>1, <2>2 DEF DoneInv
<1>3. CASE Copied
  <2>1. /\ step = "copied" /\ UNCHANGED <<kids, copyOf, request>> /\ root \in Created
        /\ ToSet(made') = ToSet(made) \cup {root}
    BY <1>3, CopiedIs
  <2>2. \A n \in Created : copyOf[n] \in Existed /\ RowDone(n)
    BY <2>1, CompleteCopies
  <2>3. \A n \in Created : RowDone(n)'
    BY <1>0, <1>b, <2>1, <2>2, RowsStay
  <2>4. request.kind = "copy" => ToSet(made') \subseteq Created
    BY <1>m, <2>1
  <2> QED
    BY <2>1, <2>2, <2>3, <2>4 DEF DoneInv
<1>4. ASSUME NEW n, CreateNode(n) \/ CreateLost(n) PROVE DoneInv'
  <2>1. UNCHANGED <<request, made>> /\ step = "create"
    BY <1>4 DEF CreateNode, CreateLost, GiveUpCopy
  <2>2. /\ n \in Node /\ n \notin Created
        /\ \A x \in Node : /\ name'[x] = IF x = n THEN label ELSE name[x]
                           /\ copyOf'[x] = IF x = n THEN todo[1].src ELSE copyOf[x]
        /\ \A p \in Place : /\ n \notin ToSet(kids[p])
                            /\ kids'[p] = IF p = todo[1].under THEN Append(kids[p], n) ELSE kids[p]
                            /\ ToSet(kids'[p]) = IF p = todo[1].under THEN ToSet(kids[p]) \cup {n} ELSE ToSet(kids[p])
    BY <1>0, <1>4, CreateIs
  <2> SUFFICES ASSUME request.kind = "copy", NEW m \in ToSet(made) PROVE copyOf'[m] \in Existed /\ RowDone(m)'
    BY <2>1 DEF DoneInv
  <2>3. m \in Created /\ m \in Node /\ m \in Place /\ copyOf[m] \in Existed /\ RowDone(m) /\ m # n
    BY <1>d, <1>m, <2>2
  <2>4. m # todo[1].under
    <3>1. Copying
      BY <2>1 DEF Copying
    <3>2. /\ todo # <<>> /\ DOMAIN todo = 1..Len(todo) /\ Len(todo) \in Nat
          /\ root = NULL => todo = <<[src |-> request.sources[Now], under |-> request.target]>>
          /\ root # NULL => \A i \in DOMAIN todo : todo[i].under \in Created \ ToSet(made)
          /\ request.target \notin Created /\ todo \in Seq(Frame)
      BY <2>1, <3>1, CopyingIs
    <3>3. CASE root = NULL
      <4>1. todo[1].under = request.target
        BY <3>2, <3>3
      <4> QED
        BY <2>3, <3>2, <4>1
    <3>4. CASE root # NULL
      <4>1. 1 \in DOMAIN todo
        BY <3>2
      <4> QED
        BY <3>2, <3>4, <4>1
    <3> QED
      BY <3>3, <3>4
  <2>5. kids'[m] = kids[m] /\ copyOf'[m] = copyOf[m]
    BY <2>2, <2>3, <2>4
  <2>6. \A x \in ToSet(kids[m]) : copyOf'[x] = copyOf[x]
    <3> SUFFICES ASSUME NEW x \in ToSet(kids[m]) PROVE copyOf'[x] = copyOf[x]
      OBVIOUS
    <3>1. kids[m] \in Seq(Node)
      BY <1>0, <2>3, NowRow
    <3>2. x \in Node
      BY <3>1, ToSetIs
    <3>3. x # n
      BY <2>2, <2>3
    <3> QED
      BY <2>2, <3>2, <3>3
  <2>7. RowDone(m)'
    BY <1>0, <1>b, <2>3, <2>5, <2>6, RowKept
  <2> QED
    BY <2>3, <2>5, <2>7
<1>5. CASE Reorder
  <2>1. /\ step = "reorder" /\ request.target \in Place /\ request \in Requests
        /\ \A q \in Place : q # request.target => kids'[q] = kids[q]
    BY <1>0, <1>5, Reordered
  <2>2. UNCHANGED <<request, made, copyOf>>
    BY <1>5 DEF Reorder, copying
  <2>3. request.target \notin Created
    BY <1>0, <2>1, TargetIsOld
  <2>4. request.kind = "copy" => \A m \in ToSet(made) : copyOf'[m] \in Existed /\ RowDone(m)'
    BY <1>0, <1>b, <1>d, <1>m, <2>1, <2>2, <2>3, RowKept
  <2> QED
    BY <2>2, <2>4 DEF DoneInv
<1>6. CASE RollbackCreated
  <2>1. UNCHANGED <<request, made, copyOf>> /\ step = "undo" /\ request.kind = "copy"
    BY <1>6 DEF RollbackCreated, copying
  <2>2. undo[1] \in ToSet(made)
    BY <1>0, <1>6, TopCreated
  <2> SUFFICES ASSUME NEW m \in ToSet(made) PROVE copyOf'[m] \in Existed /\ RowDone(m)'
    BY <2>1 DEF DoneInv
  <2>3. m \in Created /\ m \in Node /\ m \in Place /\ copyOf[m] \in Existed /\ RowDone(m)
    BY <1>d, <1>m, <2>1
  <2>4. m # request.target
    BY <1>0, <2>1, <2>3, TargetIsOld
  <2>5. kids'[m] = kids[m]
    <3>1. CASE kids' = kids
      BY <3>1
    <3>2. CASE kids'[m] = Without(kids[m], {undo[1]})
      <4>1. kids[m] \in Seq(Node)
        BY <1>0, <2>3, NowRow
      <4>2. ToSet(kids[m]) \cap {undo[1]} = {}
        BY <1>m, <2>1, <2>2, <2>3, <2>4
      <4> DEFINE S == {undo[1]}
      <4> HIDE DEF S
      <4>3. Without(kids[m], S) = kids[m]
        BY <4>1, <4>2, WithoutNone DEF S
      <4> QED
        BY <3>2, <4>3 DEF S
    <3> QED
      BY <1>0, <1>6, <2>3, <3>1, <3>2, Deleted
  <2>6. RowDone(m)'
    BY <1>0, <1>b, <2>1, <2>3, <2>5, RowKept
  <2> QED
    BY <2>1, <2>3, <2>6
<1>7. CASE FetchOrigins \/ MoveNext \/ MoveFails \/ MoveLost \/ RollbackMoved
  <2>1. request'.kind = "move"
    BY <1>0, <1>7 DEF FetchOrigins, MoveNext, MoveFails, MoveLost, RollbackMoved, RequestInv
  <2> QED
    BY <2>1 DEF DoneInv
<1> QED
  BY <1>1, <1>2, <1>3, <1>4, <1>5, <1>6, <1>7 DEF Next

(* In the end each copy is complete.                                       *)
LEMMA WholeStep ==
    ASSUME BulkInv, Next
    PROVE  WholeInv'
<1>0. BeforeInv /\ TreeInv /\ RequestInv /\ FramesInv /\ NamesInv /\ CopyUndoInv /\ MoveInv /\ PlaceInv /\ WholeInv
  BY Parts DEF CopyInv
<1>b. before' = before
  BY <1>0, BeforeStep
<1>1. CASE Copied
  <2>1. /\ step = "copied" /\ UNCHANGED <<kids, name, copyOf, request>>
        /\ ToSet(made') = ToSet(made) \cup {root}
    BY <1>1, CopiedIs
  <2>2. \A n \in Created : copyOf[n] \in Existed /\ RowDone(n) /\ SameName(n)
    BY <2>1, CompleteCopies
  <2>3. \A n \in Created : RowDone(n)'
    BY <1>0, <1>b, <2>1, <2>2, RowsStay
  <2>4. \A n \in Created : n \in ToSet(made') \/ name'[n] = name'[copyOf'[n]]
    BY <2>1, <2>2 DEF SameName
  <2>5. Created' = Created
    BY <2>1 DEF Created
  <2> QED
    BY <2>1, <2>2, <2>3, <2>4, <2>5 DEF WholeInv
<1>2. CASE FetchSiblings
  <2>1. UNCHANGED <<kids, name, copyOf, made, request>> /\ step = "place"
    BY <1>2 DEF FetchSiblings, tree, copying
  <2> SUFFICES ASSUME request.kind = "copy", NEW n \in Created
               PROVE  copyOf'[n] \in Existed /\ RowDone(n)' /\ (n \in ToSet(made') \/ name'[n] = name'[copyOf'[n]])
    BY <2>1 DEF WholeInv, Created
  <2>2. copyOf[n] \in Existed /\ RowDone(n) /\ (n \in ToSet(made) \/ name[n] = name[copyOf[n]])
    BY <1>0, <2>1 DEF WholeInv, Made
  <2>3. RowDone(n)'
    BY <1>0, <1>b, <2>1, <2>2, RowsStay
  <2> QED
    BY <2>1, <2>2, <2>3
<1>3. CASE Reorder
  <2>1. /\ step = "reorder" /\ request.target \in Place /\ request \in Requests
        /\ \A q \in Place : q # request.target => kids'[q] = kids[q]
    BY <1>0, <1>3, Reordered
  <2>2. UNCHANGED <<request, made, copyOf, name>>
    BY <1>3 DEF Reorder, copying
  <2>3. request.target \notin Created
    BY <1>0, <2>1, TargetIsOld
  <2> SUFFICES ASSUME request.kind = "copy", NEW n \in Created
               PROVE  copyOf'[n] \in Existed /\ RowDone(n)' /\ (n \in ToSet(made') \/ name'[n] = name'[copyOf'[n]])
    BY <2>2 DEF WholeInv, Created
  <2>4. copyOf[n] \in Existed /\ RowDone(n) /\ (n \in ToSet(made) \/ name[n] = name[copyOf[n]])
    BY <1>0, <2>1 DEF WholeInv, Made
  <2>5. n \in Node /\ n \in Place /\ n # request.target
    BY <2>3, BulkSizes DEF Created
  <2>6. RowDone(n)'
    BY <1>0, <1>b, <2>1, <2>2, <2>4, <2>5, RowKept
  <2> QED
    BY <2>2, <2>4, <2>6
<1>4. ASSUME NEW n, \/ \E r \in Requests : Begin(r)
                    \/ FetchSource \/ ListChildren \/ CopyFails \/ CreateNode(n) \/ CreateLost(n)
                    \/ FetchOrigins \/ MoveFails \/ MoveLost \/ RollbackCreated \/ RollbackMoved
      PROVE  WholeInv'
  <2>1. ~Made'
    BY <1>4 DEF Begin, FetchSource, ListChildren, CopyFails, CreateNode, CreateLost, FetchOrigins,
                MoveFails, MoveLost, RollbackCreated, RollbackMoved, GiveUpCopy, RollBack, Made
  <2> QED
    BY <2>1 DEF WholeInv
<1>5. CASE MoveNext
  <2>1. request'.kind = "move"
    BY <1>0, <1>5 DEF MoveNext, RequestInv
  <2> QED
    BY <2>1 DEF WholeInv
<1> QED
  BY <1>1, <1>2, <1>3, <1>4, <1>5 DEF Next

(* All that is said of copies                                              *)
LEMMA CopyStep == ASSUME BulkInv, Next PROVE CopyInv'
BY EndlessStep, PendingStep, DoneStep, WholeStep DEF CopyInv

-----------------------------------------------------------------------------
(* The invariant holds                                                     *)

(* The rows of a tree in which a node is below a lesser one                *)
LEMMA RowsAtFirst ==
    ASSUME NEW up \in [Existed -> {Root} \cup Existed], \A n \in Existed : up[n] < n,
           NEW rows, rows = [p \in Place |-> InOrder({n \in Existed : up[n] = p})]
    PROVE  /\ rows \in [Place -> Seq(Existed)] /\ Forest(rows)
           /\ \A p \in Place : ToSet(rows[p]) = {n \in Existed : up[n] = p}
<1> DEFINE S(p) == {n \in Existed : up[n] = p}
<1>1. ASSUME NEW p \in Place
      PROVE  rows[p] \in Seq(Existed) /\ rows[p] \in Seq(Node) /\ IsInjective(rows[p]) /\ ToSet(rows[p]) = S(p)
  <2>1. PICK row : row = rows[p]
    OBVIOUS
  <2>2. S(p) \in SUBSET Nat /\ IsFiniteSet(S(p)) /\ S(p) \subseteq Existed
    <3>1. IsFiniteSet(Existed)
      BY BulkSizes, FS_Interval DEF Existed
    <3>2. S(p) \subseteq Existed
      OBVIOUS
    <3>3. Existed \subseteq Nat
      BY BulkSizes
    <3> QED
      BY <3>1, <3>2, <3>3, FS_Subset
  <2>3. PICK T : T = S(p)
    OBVIOUS
  <2>4. row = InOrder(T)
    BY <2>1, <2>3
  <2>5. PICK m : m = Cardinality(T)
    OBVIOUS
  <2>6. /\ m \in Nat /\ row \in [1..m -> T] /\ Increasing(row)
        /\ \A n \in T : \E i \in 1..m : row[i] = n
    BY <2>2, <2>3, <2>4, <2>5, InOrderIs
  <2>7. \A i, j \in 1..m : row[i] = row[j] => i = j
    BY <2>2, <2>3, <2>6, IncreasingIsInjective
  <2>8. T \subseteq Existed /\ T \subseteq Node
    BY <2>2, <2>3, BulkSizes
  <2>9. row \in Seq(Existed) /\ row \in Seq(Node) /\ DOMAIN row = 1..m
    BY <2>6, <2>8
  <2>10. IsInjective(row)
    BY <2>7, <2>9 DEF IsInjective
  <2>11. ToSet(row) = T
    BY <2>6, <2>9 DEF ToSet
  <2> QED
    BY <2>1, <2>3, <2>9, <2>10, <2>11
<1>2. DOMAIN rows = Place /\ rows = [p \in Place |-> rows[p]]
  OBVIOUS
<1>3. rows \in [Place -> Seq(Existed)] /\ rows \in [Place -> Seq(Node)]
  BY <1>1, <1>2
<1>4. \A p, q \in Place : p # q => ToSet(rows[p]) \cap ToSet(rows[q]) = {}
  BY <1>1
<1> QED
  BY <1>1, <1>3, <1>4 DEF Forest

(* It holds before a request,                                              *)
LEMMA AtFirst == ASSUME Init PROVE BulkInv
<1>1. PICK up \in [Existed -> {Root} \cup Existed] :
          (\A n \in Existed : up[n] < n) /\ kids = [p \in Place |-> InOrder({n \in Existed : up[n] = p})]
  BY DEF Init
<1>2. PICK b \in [Existed -> OldName] :
          /\ \A p \in Place : IsInjective([i \in DOMAIN kids[p] |-> b[kids[p][i]]])
          /\ name = [n \in Node |-> IF n \in Existed THEN b[n] ELSE NULL]
  BY DEF Init
<1>3. /\ request = Idle /\ step = "idle"
      /\ root = NULL /\ made = <<>> /\ origin = <<>> /\ moved = 0
      /\ undo = <<>> /\ before = kids /\ cache = NoNames
      /\ copyOf = [n \in Node |-> NULL] /\ lost = FALSE /\ spoiled = FALSE
  BY DEF Init
<1>4. /\ kids \in [Place -> Seq(Existed)] /\ Forest(kids)
      /\ \A p \in Place : ToSet(kids[p]) = {n \in Existed : up[n] = p}
  BY <1>1, RowsAtFirst
<1>5. OldName \subseteq Names
  <2> SUFFICES ASSUME NEW x \in OldName PROVE x \in Names
    OBVIOUS
  <2>0. PICK a \in BaseName, k \in 0..MaxCopies : x = Candidate(<<a>>, k)
    BY DEF OldName
  <2>1. <<a>> \in Names /\ k \in Nat
    BY BulkSizes DEF Names
  <2> QED
    BY <2>0, <2>1, CandidateIs
<1>6. \A n \in Existed : name[n] = b[n] /\ b[n] \in Names /\ name[n] # NULL
  BY <1>2, <1>5, BulkSizes
<1>7. UniqueNames
  <2> SUFFICES ASSUME NEW p \in Place, NEW m \in ToSet(kids[p]), NEW n \in ToSet(kids[p]), name[m] = name[n]
               PROVE  m = n
    BY DEF UniqueNames
  <2>1. PICK row : row = kids[p]
    OBVIOUS
  <2>2. row \in Seq(Existed)
    BY <1>4, <2>1
  <2>3. PICK i \in 1..Len(row), j \in 1..Len(row) : row[i] = m /\ row[j] = n
    BY <2>1, <2>2, ToSetIs
  <2>4. DOMAIN row = 1..Len(row) /\ m \in Existed /\ n \in Existed
    BY <2>2, <2>3
  <2>5. IsInjective([k \in DOMAIN row |-> b[row[k]]])
    BY <1>2, <2>1
  <2>6. b[row[i]] = b[row[j]]
    BY <1>6, <2>3, <2>4
  <2>7. i = j
    BY <2>4, <2>5, <2>6 DEF IsInjective
  <2> QED
    BY <2>3, <2>7
<1>8. BeforeInv
  <2>1. ASSUME NEW p \in Place PROVE \A n \in ToSet(before[p]) : p < n
    BY <1>1, <1>3, <1>4
  <2>2. \A n \in Existed : \E p \in Place : n \in ToSet(before[p])
    <3> SUFFICES ASSUME NEW n \in Existed PROVE \E p \in Place : n \in ToSet(before[p])
      OBVIOUS
    <3>1. up[n] \in Place
      BY BulkSizes
    <3>2. n \in ToSet(kids[up[n]])
      BY <1>4, <3>1
    <3> QED
      BY <1>3, <3>1, <3>2
  <2>3. \A p \in Place : \A m, n \in ToSet(before[p]) : name[m] = name[n] => m = n
    BY <1>3, <1>7 DEF UniqueNames
  <2> QED
    BY <1>3, <1>4, <2>1, <2>2, <2>3 DEF BeforeInv
<1>9. Created = {}
  BY <1>3 DEF Created
<1>10. TreeInv
  <2>1. name \in [Node -> Names \cup {NULL}]
    BY <1>2, <1>5
  <2>2. Used = Existed
    <3>1. \A n \in Node : name[n] # NULL <=> n \in Existed
      BY <1>2, <1>6
    <3> QED
      BY <3>1, BulkSizes DEF Used
  <2>3. \E c \in Existing..MaxNode : Used = 1..c
    BY <2>2, BulkSizes DEF Existed
  <2>4. \A p \in Place : ToSet(kids[p]) \subseteq Used
    BY <1>4, <2>2
  <2>5. copyOf \in [Node -> Node \cup {NULL}]
    BY <1>3
  <2> QED
    BY <1>4, <1>9, <2>1, <2>3, <2>4, <2>5 DEF TreeInv
<1>11. request.kind = NULL /\ request.kind \notin {"copy", "move"}
  BY <1>3, BulkSizes DEF Idle
<1>12. RequestInv
  <2>1. made \in Seq(Node)
    BY <1>3, EmptyRow
  <2>2. moved \in 0..MaxSources /\ step # "undo" /\ undo = <<>>
    BY <1>3, BulkSizes
  <2> QED
    BY <1>3, <1>9, <1>11, <2>1, <2>2 DEF RequestInv
<1>13. ~Copying /\ ~Made /\ ~Moving
  BY <1>3 DEF Copying, Made, Moving
<1>14. FramesInv /\ CopyInv /\ CopyUndoInv
  BY <1>11, <1>13 DEF FramesInv, CopyingInv, MadeInv, CopyInv, EndlessInv, PendingInv, DoneInv, WholeInv, CopyUndoInv
<1>15. NamesInv
  BY <1>7, <1>13 DEF NamesInv
<1>16. MoveInv
  BY <1>3, <1>11, <1>13 DEF MoveInv, MovingInv, MovedBackInv
<1>17. PlaceInv
  BY <1>3 DEF PlaceInv, PlacedAsAsked
<1> QED
  BY <1>8, <1>10, <1>12, <1>14, <1>15, <1>16, <1>17 DEF BulkInv

(* after each step,                                                        *)
LEMMA BulkStep == ASSUME BulkInv, Next PROVE BulkInv'
<1>1. BeforeInv' /\ TreeInv'
  BY BeforeStep, TreeStep, Parts
<1>2. FramesInv'
  BY CopyingStep, MadeStep DEF FramesInv
<1> QED
  BY <1>1, <1>2, RequestStep, NamesStep, CopyStep, CopyUndoStep, MoveStep, PlaceStep DEF BulkInv

(* Nothing of the invariant depends on more than the state of the requests. *)
LEMMA BulkStays == ASSUME BulkInv, UNCHANGED vars PROVE BulkInv'
<1>1. UNCHANGED <<kids, name, request, step, todo, rest, label, cache, root, made, copyOf,
                  origin, moved, ordered, undo, before, lost, spoiled>>
  BY DEF vars, tree, copying, moving
<1>2. BeforeInv' /\ TreeInv' /\ RequestInv'
  <2>1. BeforeInv'
    BY <1>1, Parts DEF BeforeInv, Forest
  <2>2. TreeInv'
    BY <1>1, Parts, TreeStays DEF tree
  <2>3. RequestInv'
    BY <1>1, Parts DEF RequestInv, Created
  <2> QED
    BY <2>1, <2>2, <2>3
<1>3. FramesInv'
  BY <1>1, Parts DEF FramesInv, CopyingInv, MadeInv, Copying, Made, Now, Used, Created
<1>4. NamesInv'
  BY <1>1, Parts DEF NamesInv, UniqueNames, Copying, NamesOf
<1>5. CopyInv'
  <2>1. EndlessInv'
    BY <1>1, Parts DEF CopyInv, EndlessInv, Copying, Endless, Holds, Closed, Now
  <2>2. PendingInv'
    <3>1. /\ Copying' = Copying /\ Created' = Created
          /\ \A n \in Node : SameName(n) => SameName(n)'
      BY <1>1 DEF Copying, Created, SameName
    <3>2. Endless => Endless'
      BY <1>1 DEF Endless, Holds, Closed, Now
    <3>3. ASSUME NEW n \in Node, Task(n) PROVE Task(n)'
      BY <1>1, <3>3 DEF Task, PendingAt
    <3>4. ASSUME NEW n, ~Holds(before, n, request.target) PROVE ~Holds(before, n, request.target)'
      BY <1>1, <3>4 DEF Holds, Closed
    <3>5. Created \subseteq Node
      BY DEF Created
    <3> QED
      BY <1>1, <3>1, <3>2, <3>3, <3>4, <3>5, Parts DEF CopyInv, PendingInv
  <2>3. DoneInv'
    BY <1>1, Parts DEF CopyInv, DoneInv, RowDone
  <2>4. WholeInv'
    BY <1>1, Parts DEF CopyInv, WholeInv, RowDone, Created, Made
  <2> QED
    BY <2>1, <2>2, <2>3, <2>4 DEF CopyInv
<1>6. CopyUndoInv'
  BY <1>1, Parts DEF CopyUndoInv, InTree
<1>7. MoveInv'
  BY <1>1, Parts DEF MoveInv, MovingInv, MovedBackInv, Moving, Stand, Here, Barrier, Closed, Gone, Ids
<1>8. PlaceInv'
  <2>1. Siblings' = Siblings /\ Items' = Items
    BY <1>1 DEF Siblings, Items
  <2>2. step = "reorder" => AnchorFound' /\ ordered' = Inserted(Siblings, Items)'
    <3> SUFFICES ASSUME step = "reorder" PROVE AnchorFound' /\ ordered' = Inserted(Siblings, Items)'
      OBVIOUS
    <3>1. AnchorFound /\ ordered = Inserted(Siblings, Items)
      BY Parts DEF PlaceInv
    <3>2. AnchorFound'
      BY <1>1, <2>1, <3>1 DEF AnchorFound
    <3> QED
      BY <1>1, <2>1, <3>1, <3>2 DEF Inserted, SelectInSeq
  <2>3. PlacedAsAsked'
    BY <1>1, <2>1, Parts DEF PlaceInv, PlacedAsAsked, SelectInSeq
  <2> QED
    BY <1>1, <2>2, <2>3 DEF PlaceInv
<1> QED
  BY <1>2, <1>3, <1>4, <1>5, <1>6, <1>7, <1>8 DEF BulkInv

-----------------------------------------------------------------------------
(* What the invariant says                                                 *)

(* The invariant of all requests: what is not asked for rests.             *)
BulkIInv == /\ asked = "bulk" => BulkInv
            /\ asked # "bulk" => RestingBulk

LEMMA FirstBulk == RequestsInit => BulkIInv
BY AtFirst DEF RequestsInit, BulkIInv

LEMMA NextBulk == BulkIInv /\ [RequestsNext]_<<asked, vars, deletion>> => BulkIInv'
<1> SUFFICES ASSUME BulkIInv, [RequestsNext]_<<asked, vars, deletion>> PROVE BulkIInv'
  OBVIOUS
<1>1. asked' = asked
  BY DEF RequestsNext
<1>2. CASE asked = "bulk"
  <2>1. BulkInv
    BY <1>2 DEF BulkIInv
  <2>2. Next \/ UNCHANGED vars
    BY <1>2 DEF RequestsNext
  <2>3. BulkInv'
    BY <2>1, <2>2, BulkStep, BulkStays
  <2> QED
    BY <1>1, <1>2, <2>3 DEF BulkIInv
<1>3. CASE asked # "bulk"
  <2>1. RestingBulk
    BY <1>3 DEF BulkIInv
  <2>2. UNCHANGED vars
    BY <1>3 DEF RequestsNext
  <2>3. RestingBulk'
    BY <2>1, <2>2 DEF RestingBulk, vars, tree, copying, moving
  <2> QED
    BY <1>1, <1>3, <2>3 DEF BulkIInv
<1> QED
  BY <1>2, <1>3

(* It says that the state has its type,                                    *)
LEMMA BulkTyped == ASSUME BulkInv PROVE TypeOK
<1>0. TreeInv /\ RequestInv
  BY Parts
<1>1. DOMAIN kids = Place /\ \A p \in Place : kids[p] \in Seq(Node) /\ IsInjective(kids[p])
  BY <1>0 DEF TreeInv, Forest
<1>2. ASSUME NEW p \in Place, NEW q \in 0..(p - 1) PROVE ToSet(kids[p]) \cap ToSet(kids[q]) = {}
  <2>1. q \in Place /\ q # p
    BY BulkSizes DEF Place, Root, Node
  <2> QED
    BY <1>0, <2>1 DEF TreeInv, Forest
<1>3. copyOf \in [Node -> Node \cup {NULL}]
  BY <1>0 DEF TreeInv
<1>4. request \in Requests \cup {Idle}
  BY <1>0 DEF RequestInv
<1> QED
  BY <1>0, <1>1, <1>2, <1>3, <1>4 DEF TypeOK, RequestInv

(* that copies are complete,                                               *)
LEMMA BulkFaithful == ASSUME BulkInv PROVE CopyFaithful
<1>0. TreeInv /\ BeforeInv /\ RequestInv /\ MadeInv /\ WholeInv
  BY Parts DEF FramesInv, CopyInv
<1> SUFFICES ASSUME step = "ok", request.kind = "copy"
             PROVE  /\ [i \in DOMAIN made |-> copyOf[made[i]]] = request.sources
                    /\ \A n \in Created :
                           /\ [i \in DOMAIN kids[n] |-> copyOf[kids[n][i]]] = before[copyOf[n]]
                           /\ ~Contains(made, n) => name[n] = name[copyOf[n]]
  BY DEF CopyFaithful
<1>1. Made /\ made \in Seq(Node) /\ request \in Requests
  BY <1>0 DEF Made, RequestInv
<1>2. [i \in DOMAIN made |-> copyOf[made[i]]] = request.sources
  <2>1. request.sources \in Seq(Existed)
    BY <1>1, RequestIs
  <2>2. Len(made) = Len(request.sources) /\ \A i \in DOMAIN made : copyOf[made[i]] = request.sources[i]
    BY <1>0, <1>1 DEF MadeInv
  <2>3. DOMAIN made = DOMAIN request.sources
    BY <1>1, <2>1, <2>2
  <2> QED
    BY <2>1, <2>2, <2>3
<1>3. ASSUME NEW n \in Created
      PROVE  /\ [i \in DOMAIN kids[n] |-> copyOf[kids[n][i]]] = before[copyOf[n]]
             /\ ~Contains(made, n) => name[n] = name[copyOf[n]]
  <2>1. copyOf[n] \in Existed /\ RowDone(n) /\ (n \in ToSet(made) \/ name[n] = name[copyOf[n]])
    BY <1>0, <1>1 DEF WholeInv
  <2>2. n \in Place /\ copyOf[n] \in Place
    BY <2>1, BulkSizes DEF Created
  <2>3. kids[n] \in Seq(Node) /\ before[copyOf[n]] \in Seq(Existed)
    BY <1>0, <2>2 DEF TreeInv, Forest, BeforeInv
  <2>4. DOMAIN kids[n] = DOMAIN before[copyOf[n]]
    BY <2>1, <2>3 DEF RowDone
  <2>5. [i \in DOMAIN kids[n] |-> copyOf[kids[n][i]]] = before[copyOf[n]]
    BY <2>1, <2>3, <2>4 DEF RowDone
  <2>6. Contains(made, n) <=> n \in ToSet(made)
    BY <1>1, ToSetIs
  <2> QED
    BY <2>1, <2>5, <2>6
<1> QED
  BY <1>2, <1>3

(* that siblings have different names,                                     *)
LEMMA BulkNames == ASSUME BulkInv PROVE NamesStayUnique
<1>0. TreeInv /\ NamesInv
  BY Parts
<1> SUFFICES ASSUME request.kind = "copy", NEW p \in Place
             PROVE  IsInjective([i \in DOMAIN kids[p] |-> name[kids[p][i]]])
  BY DEF NamesStayUnique
<1>1. PICK row : row = kids[p]
  OBVIOUS
<1>2. row \in Seq(Node) /\ IsInjective(row)
  BY <1>0, <1>1 DEF TreeInv, Forest
<1>3. \A m, n \in ToSet(row) : name[m] = name[n] => m = n
  BY <1>0, <1>1 DEF NamesInv, UniqueNames
<1>4. \A i \in DOMAIN row : row[i] \in ToSet(row)
  BY DEF ToSet
<1> QED
  BY <1>1, <1>2, <1>3, <1>4 DEF IsInjective

(* and that a roll-back undoes what it has a record of.                    *)
LEMMA BulkUndoes == ASSUME BulkInv PROVE RollbackUndoes
<1>0. TreeInv /\ BeforeInv /\ RequestInv /\ CopyUndoInv /\ MoveInv /\ DoneInv
  BY Parts DEF CopyInv
<1>1. LeavesUndone
  <2> SUFFICES ASSUME step = "failed", request.kind = "copy", ~spoiled
               PROVE  /\ \A n \in ToSet(made) \cap InTree : before[copyOf[n]] # <<>>
                      /\ \A p \in Place : Without(kids[p], Node \ Existed) = before[p]
    BY DEF LeavesUndone
  <2>1. undo = <<>>
    BY <1>0 DEF RequestInv
  <2>2. ToSet(undo) = {}
    BY <2>1 DEF ToSet
  <2>3. \A n \in ToSet(made) : n \notin InTree \/ kids[n] # <<>>
    BY <1>0, <2>2 DEF CopyUndoInv
  <2>4. ASSUME NEW n \in ToSet(made) \cap InTree PROVE before[copyOf[n]] # <<>>
    <3>1. kids[n] # <<>> /\ copyOf[n] \in Existed /\ RowDone(n)
      BY <1>0, <2>3 DEF DoneInv
    <3>2. n \in Place /\ copyOf[n] \in Place
      BY <1>0, <3>1, BulkSizes, ToSetIs DEF RequestInv
    <3>3. kids[n] \in Seq(Node) /\ before[copyOf[n]] \in Seq(Existed)
      BY <1>0, <3>2 DEF TreeInv, Forest, BeforeInv
    <3>4. Len(kids[n]) # 0
      BY <3>1, <3>3
    <3>5. Len(before[copyOf[n]]) # 0
      BY <3>1, <3>4 DEF RowDone
    <3> QED
      BY <3>5
  <2>5. \A p \in Place : Without(kids[p], Node \ Existed) = before[p]
    BY <1>0 DEF CopyUndoInv
  <2> QED
    BY <2>4, <2>5
<1>2. MoveUndone
  <2> SUFFICES ASSUME step = "failed", request.kind = "move", ~lost, ~spoiled, NEW p \in Place
               PROVE  ToSet(kids[p]) = ToSet(before[p])
    BY DEF MoveUndone
  <2>1. \A n \in Node : n \in ToSet(kids[p]) <=> n \in ToSet(before[p])
    BY <1>0 DEF MoveInv, Here
  <2>2. ToSet(kids[p]) \subseteq Node /\ ToSet(before[p]) \subseteq Node
    BY <1>0, ToSetIs DEF TreeInv, BeforeInv, Forest
  <2> QED
    BY <2>1, <2>2
<1> QED
  BY <1>1, <1>2 DEF RollbackUndoes

(* So does the state of rest.                                              *)
LEMMA RestingSound == ASSUME RestingBulk PROVE CopiesStand /\ RollbackUndoes /\ PlacedAsAsked
<1>1. /\ step = "idle" /\ request = Idle /\ request.kind # "copy" /\ made = <<>> /\ moved = 0
      /\ root = NULL /\ lost = FALSE /\ spoiled = FALSE
  BY BulkSizes DEF RestingBulk, Idle
<1>2. PICK e \in Seq(Node) : e = <<>>
  BY EmptyRow
<1>3. IsInjective(e) /\ ToSet(e) = {}
  BY <1>2 DEF IsInjective, ToSet
<1>4. \A p \in Place : kids[p] = e
  BY <1>2 DEF RestingBulk
<1>5. DOMAIN kids = Place /\ copyOf \in [Node -> Node \cup {NULL}]
  BY DEF RestingBulk
<1>6. \A p \in Place : \A q \in 0..(p - 1) : ToSet(kids[p]) \cap ToSet(kids[q]) = {}
  BY <1>3, <1>4
<1>7. \A p \in Place : kids[p] \in Seq(Node) /\ IsInjective(kids[p])
  BY <1>3, <1>4
<1>8. made \in Seq(Node) /\ moved \in 0..MaxSources /\ root \in Node \cup {NULL}
  BY <1>1, <1>2, BulkSizes
<1>9. TypeOK
  BY <1>1, <1>5, <1>6, <1>7, <1>8 DEF TypeOK
<1>10. CopySound
  BY <1>1 DEF CopySound, CopyFaithful, NamesStayUnique
<1>11. RollbackUndoes /\ PlacedAsAsked
  BY <1>1 DEF RollbackUndoes, LeavesUndone, MoveUndone, PlacedAsAsked
<1> QED
  BY <1>9, <1>10, <1>11 DEF CopiesStand

LEMMA BulkSound == BulkIInv => CopiesStand /\ RollbackUndoes /\ PlacedAsAsked
<1>1. ASSUME BulkInv PROVE CopiesStand /\ RollbackUndoes /\ PlacedAsAsked
  <2>1. CopiesStand
    BY <1>1, BulkTyped, BulkFaithful, BulkNames DEF CopiesStand, CopySound
  <2>2. RollbackUndoes
    BY <1>1, BulkUndoes
  <2>3. PlacedAsAsked
    BY <1>1, Parts DEF PlaceInv
  <2> QED
    BY <2>1, <2>2, <2>3
<1> QED
  BY <1>1, RestingSound DEF BulkIInv

(* A frame is left, so the copy is not complete.                           *)
LEMMA NeverCopied == BulkIInv => (Copying /\ Endless => step # "copied")
<1> SUFFICES ASSUME BulkIInv, Copying, Endless PROVE step # "copied"
  OBVIOUS
<1>1. asked = "bulk" /\ BulkInv
  BY DEF BulkIInv, RestingBulk, Copying
<1>2. EndlessInv /\ CopyingInv
  BY <1>1, Parts DEF CopyInv, FramesInv
<1>3. DOMAIN todo # {}
  BY <1>2 DEF EndlessInv
<1> QED
  BY <1>2, <1>3 DEF CopyingInv

(* Whatever the tree, the request and the calls that fail: a copy that     *)
(* succeeds is complete, its children in their order and under their       *)
(* names, and siblings are never left with one name                        *)
(* (copyCategoryRecursive, ensureUniqueCategoryName).                      *)
THEOREM CopiesCorrect == RequestsSpec => []CopiesStand
BY FirstBulk, NextBulk, BulkSound, PTL DEF RequestsSpec

(* When the calls of a roll-back do not fail, the complete copies of       *)
(* sources without children are gone and the nodes that were there stand   *)
(* where they were; the nodes that were moved are below their former       *)
(* parents if no answer was lost (rollbackCreatedCategories,               *)
(* rollbackMovedCategories).                                               *)
THEOREM RollbackCorrect == RequestsSpec => []RollbackUndoes
BY FirstBulk, NextBulk, BulkSound, PTL DEF RequestsSpec

(* A request that succeeds put its nodes, in the order asked, on the asked *)
(* side of the anchor or at the end, and left the order of the others      *)
(* alone (BulkCopyCategories, BulkMoveCategories).                         *)
THEOREM PlacedCorrect == RequestsSpec => []PlacedAsAsked
BY FirstBulk, NextBulk, BulkSound, PTL DEF RequestsSpec

(* The copy of a category below itself is never complete: the copies it    *)
(* makes are listed among the children it has still to copy, and it goes   *)
(* on until a call fails (copyCategoryRecursive).                          *)
THEOREM CopyIntoItselfGoesOn == RequestsSpec => [](Copying /\ Endless => step # "copied")
BY FirstBulk, NextBulk, NeverCopied, PTL DEF RequestsSpec
=============================================================================
