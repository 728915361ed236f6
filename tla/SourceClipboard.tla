--------------------------- MODULE SourceClipboard --------------------------
(***************************************************************************)
(* The tree panel's clipboard of documents (CategoryTreePanel.tsx): copy   *)
(* the documents below a node, page after page, and paste them as source   *)
(* documents of a node and of all nodes below it, call after call.         *)
(*                                                                         *)
(* Everybody else lists, removes, binds and unbinds documents meanwhile.   *)
(* One node is copied from; a change of order is a document that leaves    *)
(* the list and comes back.  Which nodes are below one, and in which order *)
(* nodes and documents are gone through, is left open.                     *)
(***************************************************************************)
EXTENDS Integers, SequencesExt

CONSTANTS Node, Doc, None,
          PageSize,              \* 100 in the code
          MaxCopies, MaxPastes,  \* bounds: of each under way together
          MaxClicks              \* bound: copies and pastes begun

(* A copy: what the pages read so far held, and how long they were.        *)
Copies == [from : Nat, seen : SUBSET Doc, due : SUBSET Doc, last : BOOLEAN]

(* A paste: nodes to go through, the one at hand and its documents to bind *)
Pastes == [todo : SUBSET Node, docs : SUBSET Doc, at : Node \cup {None}, bind : SUBSET Doc,
           owed : SUBSET (Node \X Doc)]

ClipboardAssumption == /\ PageSize \in Nat \ {0}
                       /\ {MaxCopies, MaxPastes, MaxClicks} \subseteq Nat
                       /\ None \notin Copies /\ None \notin Pastes

VARIABLES held,          \* the server's list of the documents below the node
          sourceOf,      \* the server's source documents: pairs of node and document
          copies,        \* handleCopySubtreeDocIds under way
          docClipboard,  \* None, or docIds; and, for the record, what was due
          asking,        \* None, or the paste that is to be confirmed
          pastes,        \* handlePasteAsSourceDocs under way
          isMutating,
          pasted,        \* history: pairs that pastes told of, and nobody unbound since
          clicks         \* bound: copies and pastes so far

copying == <<held, copies>>
pasting == <<sourceOf, pastes, pasted>>
vars == <<copying, docClipboard, asking, pasting, isMutating, clicks>>

CopySlot == 1..MaxCopies

PasteSlot == 1..MaxPastes

(* The list starts empty: others fill it.                                  *)
Init == /\ held = <<>> /\ sourceOf \in SUBSET (Node \X Doc)
        /\ copies = [s \in CopySlot |-> None] /\ docClipboard = None
        /\ asking = None /\ pastes = [s \in PasteSlot |-> None]
        /\ isMutating = FALSE /\ pasted = {} /\ clicks = 0

Click == clicks < MaxClicks /\ clicks' = clicks + 1

-----------------------------------------------------------------------------
(* Copying                                                                 *)

HandleCopySubtreeDocIds(s) ==
    /\ asking = None /\ copies[s] = None /\ Click
    /\ copies' = [copies EXCEPT ![s] =
                     [from |-> 0, seen |-> {}, due |-> ToSet(held), last |-> FALSE]]
    /\ UNCHANGED <<held, docClipboard, asking, pasting, isMutating>>

(* The page that is read: what it lists, and whether it is the last one    *)
Page(from) == {held[i] : i \in {k \in DOMAIN held : from < k /\ k <= from + PageSize}}

(* Mutant: the number of the page is raised before the total is tested.    *)
MutLastPage(from) == from + 2 * PageSize >= Len(held)

LastPage(from) == Page(from) = {} \/ from + PageSize >= Len(held)

AfterPage(c) == [from |-> c.from + PageSize, seen |-> c.seen \cup Page(c.from),
                 due |-> c.due, last |-> LastPage(c.from)]

ReadPage(s) ==
    /\ copies[s] # None /\ ~copies[s].last
    /\ copies' = [copies EXCEPT ![s] = AfterPage(@)]
    /\ UNCHANGED <<held, docClipboard, asking, pasting, isMutating, clicks>>

CopyFails(s) == /\ copies[s] # None /\ ~copies[s].last
                /\ copies' = [copies EXCEPT ![s] = None]
                /\ UNCHANGED <<held, docClipboard, asking, pasting, isMutating, clicks>>

(* The last page is answered; without documents, the clipboard stays.      *)
CopyAnswer(s) ==
    /\ copies[s] # None /\ copies[s].last
    /\ docClipboard' = IF copies[s].seen = {} THEN docClipboard
                       ELSE [docs |-> copies[s].seen, due |-> copies[s].due]
    /\ copies' = [copies EXCEPT ![s] = None]
    /\ UNCHANGED <<held, asking, pasting, isMutating, clicks>>

ClearDocClipboard == /\ asking = None /\ docClipboard # None
                     /\ docClipboard' = None
                     /\ UNCHANGED <<copying, asking, pasting, isMutating, clicks>>

-----------------------------------------------------------------------------
(* Pasting                                                                 *)

(* The node and those below it in the tree that is shown                   *)
HandlePasteAsSourceDocs ==
    /\ asking = None /\ docClipboard # None /\ ~isMutating /\ Click
    /\ \E targets \in SUBSET Node \ {{}} :
           asking' = [targets |-> targets, docs |-> docClipboard.docs]
    /\ UNCHANGED <<copying, docClipboard, pasting, isMutating>>

(* Up to 10 calls are confirmed without asking.                            *)
Confirm(s) ==
    /\ asking # None /\ pastes[s] = None
    /\ pastes' = [pastes EXCEPT ![s] =
                     [todo |-> asking.targets, docs |-> asking.docs, at |-> None,
                      bind |-> {}, owed |-> asking.targets \X asking.docs]]
    /\ asking' = None /\ isMutating' = TRUE
    /\ UNCHANGED <<copying, docClipboard, sourceOf, pasted, clicks>>

CancelPaste == /\ asking # None /\ asking' = None
               /\ UNCHANGED <<copying, docClipboard, pasting, isMutating, clicks>>

Running(s) == pastes[s] # None

(* The next node: what it has already is not bound again.                  *)
ReadSources(s, n) ==
    /\ Running(s) /\ pastes[s].bind = {} /\ n \in pastes[s].todo
    /\ pastes' = [pastes EXCEPT ![s].todo = @ \ {n}, ![s].at = n,
                     ![s].bind = {d \in pastes[s].docs : <<n, d>> \notin sourceOf}]
    /\ UNCHANGED <<copying, docClipboard, asking, sourceOf, isMutating, pasted, clicks>>

BindNext(s, d) ==
    /\ Running(s) /\ d \in pastes[s].bind
    /\ sourceOf' = sourceOf \cup {<<pastes[s].at, d>>}
    /\ pastes' = [pastes EXCEPT ![s].bind = @ \ {d}]
    /\ UNCHANGED <<copying, docClipboard, asking, isMutating, pasted, clicks>>

(* Mutant: a failure ends with the documents of the node.                  *)
MutCountFailed(s, d) ==
    pastes' = [pastes EXCEPT ![s].bind = {}, ![s].owed = @ \ {<<pastes[s].at, d>>}]

(* A failure is counted, and the paste goes on.                            *)
CountFailed(s, d) ==
    pastes' = [pastes EXCEPT ![s].bind = @ \ {d}, ![s].owed = @ \ {<<pastes[s].at, d>>}]

BindFails(s, d) ==
    /\ Running(s) /\ d \in pastes[s].bind
    /\ sourceOf' \in {sourceOf, sourceOf \cup {<<pastes[s].at, d>>}}
    /\ CountFailed(s, d)
    /\ UNCHANGED <<copying, docClipboard, asking, isMutating, pasted, clicks>>

End(s) == pastes' = [pastes EXCEPT ![s] = None] /\ isMutating' = FALSE

(* Sources that cannot be read end the paste, and it says so.              *)
ReadFails(s) == /\ Running(s) /\ pastes[s].bind = {} /\ pastes[s].todo # {}
                /\ End(s)
                /\ UNCHANGED <<copying, docClipboard, asking, sourceOf, pasted, clicks>>

(* All that was chosen is told to be bound, but for the failures.          *)
Told(s) == /\ Running(s) /\ pastes[s].bind = {} /\ pastes[s].todo = {}
           /\ pasted' = pasted \cup pastes[s].owed
           /\ End(s)
           /\ UNCHANGED <<copying, docClipboard, asking, sourceOf, clicks>>

-----------------------------------------------------------------------------
(* Everybody else                                                          *)

Listed(d, i) ==
    /\ d \notin ToSet(held) /\ held' = InsertAt(held, i, d)
    /\ UNCHANGED <<copies, docClipboard, asking, pasting, isMutating, clicks>>

(* The document that a removal from the pages read so far pushes onto them *)
(* will not be read; it is not due any more, nor is what leaves.           *)
Passed(c, i) == {held[k] : k \in DOMAIN held \cap {i, c.from + 1}}

Unlisted(i) ==
    /\ held' = RemoveAt(held, i)
    /\ copies' = [s \in CopySlot |-> IF copies[s] = None THEN None
                     ELSE [copies[s] EXCEPT !.due = @ \ Passed(copies[s], i)]]
    /\ UNCHANGED <<docClipboard, asking, pasting, isMutating, clicks>>

Bound(n, d) == /\ sourceOf' = sourceOf \cup {<<n, d>>}
               /\ UNCHANGED <<copying, docClipboard, asking, pastes, isMutating, pasted, clicks>>

(* A node whose sources are still to be read is given the document back.   *)
Unbound(n, d) ==
    /\ sourceOf' = sourceOf \ {<<n, d>>} /\ pasted' = pasted \ {<<n, d>>}
    /\ pastes' = [s \in PasteSlot |-> IF Running(s) /\ n \notin pastes[s].todo
                                      THEN [pastes[s] EXCEPT !.owed = @ \ {<<n, d>>}]
                                      ELSE pastes[s]]
    /\ UNCHANGED <<copying, docClipboard, asking, isMutating, clicks>>

(* Other operations of the panel share the mark, and end it at their end.  *)
OtherOperation == /\ isMutating' = ~isMutating
                  /\ UNCHANGED <<copying, docClipboard, asking, pasting, clicks>>

Others == \/ \E d \in Doc : \/ \E i \in 1..(Len(held) + 1) : Listed(d, i)
                            \/ \E n \in Node : Bound(n, d) \/ Unbound(n, d)
          \/ \E i \in DOMAIN held : Unlisted(i)
          \/ OtherOperation

Copying == \E s \in CopySlot : \/ HandleCopySubtreeDocIds(s)
                               \/ ReadPage(s) \/ CopyFails(s) \/ CopyAnswer(s)

Pasting == \/ HandlePasteAsSourceDocs \/ CancelPaste
           \/ \E s \in PasteSlot :
                  \/ Confirm(s) \/ ReadFails(s) \/ Told(s)
                  \/ \E n \in Node : ReadSources(s, n)
                  \/ \E d \in Doc : BindNext(s, d) \/ BindFails(s, d)

Next == Copying \/ ClearDocClipboard \/ Pasting \/ Others

Spec == Init /\ [][Next]_vars
-----------------------------------------------------------------------------
(* Properties                                                              *)

(* The state has its types.                                                *)
TypeOK ==
    /\ held \in Seq(Doc) /\ sourceOf \subseteq Node \X Doc /\ pasted \subseteq Node \X Doc
    /\ copies \in [CopySlot -> Copies \cup {None}]
    /\ docClipboard # None => docClipboard \in [docs : SUBSET Doc, due : SUBSET Doc]
    /\ asking # None => asking \in [targets : SUBSET Node, docs : SUBSET Doc]
    /\ pastes \in [PasteSlot -> Pastes \cup {None}]
    /\ isMutating \in BOOLEAN

(* The clipboard holds every document that was below the node when it was  *)
(* copied, however many were listed, shown twice or removed while the      *)
(* pages were read (CategoryTreePanel.tsx:414-434) - except one that left, *)
(* or that a removal pushed onto a page read before.                       *)
CopiedWhole == docClipboard # None => docClipboard.due \subseteq docClipboard.docs

(* What pastes have told to be bound is bound to every node they went      *)
(* through, but for the failures they counted and what others unbound      *)
(* since (CategoryTreePanel.tsx:521-561).                                  *)
PasteKept == pasted \subseteq sourceOf
=============================================================================
