--------------------------- MODULE DocumentHistory ---------------------------
(***************************************************************************)
(* The drawer with the versions of a document (DocumentHistoryDrawer.tsx,  *)
(* with its query and mutation in DocumentContext.tsx).                    *)
(*                                                                         *)
(* The rows come from one query per document and page, kept by its key;    *)
(* the restoration names the document that the drawer was opened for,      *)
(* which is kept apart from the one in the key.  Restoring writes the      *)
(* content of an old version as a new one.  Versions are only added, so    *)
(* that how many there were determines an answer: it is that number.       *)
(***************************************************************************)
EXTENDS Naturals, Sequences

CONSTANTS Doc,
          None, Asked,
          PageSize,
          MaxVersions,   \* bound: versions of a document
          MaxRestores    \* bound: restorations

HistoryAssumption == /\ {None, Asked} \cap (Doc \cup Nat) = {} /\ None # Asked
                     /\ {None, Asked} \cap [doc : Doc, n : Nat] = {}
                     /\ PageSize \in Nat \ {0} /\ {MaxVersions, MaxRestores} \subseteq Nat
                     /\ MaxVersions >= 2

VARIABLES versions,               \* the server: the contents of each document, by number
          documentHistoryState,   \* the document the drawer is open for, or None
          documentHistoryDocId, historyPage,   \* the key of the query
          answers,                \* what each key was last answered, or None
          asking,                 \* per key: None, Asked, or the answer under way
          selectedVersion,        \* the version in the preview, or None
          restores,               \* restorations that are not answered
          restoring,              \* the last one of them, or None
          outdated,               \* history: the list may have been read before the last
                                  \* write of somebody else, or, first fetched beside it,
                                  \* before a restoration
          troubled,               \* history: a call failed, or a page was left unanswered
          restored                \* bound: restorations so far

drawer == <<documentHistoryState, documentHistoryDocId, historyPage>>
query == <<answers, asking>>
mutation == <<restores, restoring, restored>>
vars == <<versions, drawer, query, selectedVersion, mutation, outdated, troubled>>

(* As many as can be needed *)
Pages == 1..((MaxVersions - 1) \div PageSize + 1)

QueryKeys == Doc \X Pages

QueryKey == <<documentHistoryDocId, historyPage>>

Fetching == QueryKey \in QueryKeys /\ asking[QueryKey] # None

(* The newest first: the numbers on a page of so many versions             *)
OnPage(count, page) == {n \in 1..count : (count - n) \div PageSize = page - 1}

(* versionList: the rows, each with its document and number                *)
Rows == IF QueryKey \notin QueryKeys \/ answers[QueryKey] = None THEN {}
        ELSE {[doc |-> QueryKey[1], n |-> n] : n \in OnPage(answers[QueryKey], historyPage)}

Newest(rows) == CHOOSE r \in rows : \A s \in rows : s.n <= r.n

(* The effect that keeps the preview on a row that is listed.              *)
FollowRows ==
    selectedVersion' = IF documentHistoryState' = None \/ Rows' = {} THEN None
                       ELSE IF \E r \in Rows' : selectedVersion # None /\ r.n = selectedVersion.n
                              THEN CHOOSE r \in Rows' : r.n = selectedVersion.n
                              ELSE Newest(Rows')

(* The content of the selected version                                     *)
Preview == IF selectedVersion = None THEN None
           ELSE versions[selectedVersion.doc][selectedVersion.n]

Init == /\ versions = [d \in Doc |-> <<[doc |-> d, n |-> 1], [doc |-> d, n |-> 2]>>]
        /\ documentHistoryState = None /\ documentHistoryDocId = None /\ historyPage = 1
        /\ answers = [k \in QueryKeys |-> None] /\ asking = [k \in QueryKeys |-> None]
        /\ selectedVersion = None
        /\ restores = {} /\ restoring = None /\ restored = 0
        /\ outdated = FALSE /\ troubled = FALSE

-----------------------------------------------------------------------------
(* The drawer                                                              *)

(* Keys that come to be observed; a fetch under way is relied on.          *)
Observe(keys) == asking' = [k \in QueryKeys |-> IF k \in keys /\ asking[k] = None THEN Asked
                                                                        ELSE asking[k]]

(* The list begins with the page the one before it was left on, until an   *)
(* effect turns to the first.                                              *)
HandleOpenDocumentHistory(d) ==
    /\ documentHistoryState = None
    /\ documentHistoryState' = d /\ documentHistoryDocId' = d /\ historyPage' = 1
    /\ Observe({<<d, historyPage>>, <<d, 1>>})
    /\ outdated' = FALSE
    /\ troubled' = (troubled \/ historyPage # 1)
    /\ UNCHANGED <<versions, answers, mutation>>
    /\ FollowRows

HandleCloseDocumentHistory ==
    /\ documentHistoryState # None
    /\ documentHistoryState' = None /\ documentHistoryDocId' = None
    /\ troubled' = (troubled \/ Fetching)
    /\ UNCHANGED <<versions, historyPage, query, mutation, outdated>>
    /\ FollowRows

(* A table that loads takes no clicks: neither on rows nor on pages.       *)
Usable == documentHistoryState # None /\ ~Fetching

(* As many pages as the total of the answer has                            *)
HandleDocumentHistoryPageChange(page) ==
    /\ Usable /\ page # historyPage
    /\ answers[QueryKey] # None /\ OnPage(answers[QueryKey], page) # {}
    /\ historyPage' = page
    /\ Observe({<<documentHistoryDocId, page>>})
    /\ outdated' = FALSE
    /\ UNCHANGED <<versions, documentHistoryState, documentHistoryDocId, answers, mutation,
                   troubled>>
    /\ FollowRows

SelectRow(r) == /\ Usable /\ r \in Rows
                /\ selectedVersion' = r
                /\ UNCHANGED <<versions, drawer, query, mutation, outdated, troubled>>

Refetch == /\ QueryKey \in QueryKeys /\ ~Fetching
           /\ Observe({QueryKey})
           /\ UNCHANGED <<versions, drawer, answers, selectedVersion, mutation, outdated,
                          troubled>>

FetchRead(k) == /\ asking[k] = Asked
                /\ asking' = [asking EXCEPT ![k] = Len(versions[k[1]])]
                /\ outdated' = (outdated /\ k # QueryKey)
                /\ UNCHANGED <<versions, drawer, answers, selectedVersion, mutation, troubled>>

FetchAnswer(k) == /\ asking[k] \notin {None, Asked}
                  /\ answers' = [answers EXCEPT ![k] = asking[k]]
                  /\ asking' = [asking EXCEPT ![k] = None]
                  /\ UNCHANGED <<versions, drawer, mutation, outdated, troubled>>
                  /\ FollowRows

FetchFails(k) == /\ asking[k] = Asked
                 /\ asking' = [asking EXCEPT ![k] = None]
                 /\ troubled' = TRUE
                 /\ UNCHANGED <<versions, drawer, answers, selectedVersion, mutation, outdated>>

-----------------------------------------------------------------------------
(* Restoring                                                               *)

(* The button of the version that was restored last is busy - under that   *)
(* number, whichever document is shown by then.                            *)
Restorable(r) == Usable /\ r \in Rows /\ (restoring # None => restoring.row.n # r.n)

HandleRestore(r) ==
    /\ Restorable(r) /\ restored < MaxRestores
    /\ restored' = restored + 1
    /\ restoring' = [id |-> restored', doc |-> documentHistoryState, row |-> r, stored |-> FALSE]
    /\ restores' = restores \cup {restoring'}
    /\ UNCHANGED <<versions, drawer, query, selectedVersion, outdated, troubled>>

Write(d, content) == /\ Len(versions[d]) < MaxVersions
                     /\ versions' = [versions EXCEPT ![d] = Append(@, content)]

RestoreStored(r) ==
    /\ ~r.stored /\ r.row.n \in 1..Len(versions[r.doc])
    /\ Write(r.doc, versions[r.doc][r.row.n])
    /\ restores' = (restores \ {r}) \cup {[r EXCEPT !.stored = TRUE]}
    /\ UNCHANGED <<drawer, query, selectedVersion, restoring, restored, outdated, troubled>>

Answered(r) == /\ restores' = restores \ {r}
               /\ restoring' = IF restoring # None /\ restoring.id = r.id THEN None ELSE restoring

(* All keys of the document are outdated, of which only the one shown is   *)
(* fetched.  Its fetch under way is given up, unless it is its first: that *)
(* is taken for the one asked for.                                         *)
InvalidateHistory(d) ==
    IF QueryKey \in QueryKeys /\ documentHistoryDocId = d
      THEN /\ asking' = [asking EXCEPT ![QueryKey] =
                            IF answers[QueryKey] # None \/ @ = None THEN Asked ELSE @]
           /\ outdated' = (outdated \/ asking'[QueryKey] \notin {Asked, Len(versions[d])})
      ELSE UNCHANGED <<asking, outdated>>

RestoreAnswer(r) == /\ r.stored
                    /\ Answered(r)
                    /\ InvalidateHistory(r.doc)
                    /\ UNCHANGED <<versions, drawer, answers, selectedVersion, restored, troubled>>

(* Refused, or the request or its answer is lost *)
RestoreFails(r) == /\ Answered(r)
                   /\ troubled' = TRUE
                   /\ UNCHANGED <<versions, drawer, query, selectedVersion, restored, outdated>>

(* The document is saved elsewhere                                         *)
Edit(d) == /\ Write(d, [doc |-> d, n |-> Len(versions[d]) + 1])
           /\ outdated' = (outdated \/ documentHistoryDocId = d)
           /\ UNCHANGED <<drawer, query, selectedVersion, mutation, troubled>>

-----------------------------------------------------------------------------

Drawer == \/ \E d \in Doc : HandleOpenDocumentHistory(d)
          \/ HandleCloseDocumentHistory \/ Refetch
          \/ \E page \in Pages : HandleDocumentHistoryPageChange(page)
          \/ \E r \in Rows : SelectRow(r) \/ HandleRestore(r)

Fetches == \E k \in QueryKeys : FetchRead(k) \/ FetchAnswer(k) \/ FetchFails(k)

Restores == \E r \in restores : RestoreStored(r) \/ RestoreAnswer(r) \/ RestoreFails(r)

Next == Drawer \/ Fetches \/ Restores \/ \E d \in Doc : Edit(d)

Spec == Init /\ [][Next]_vars
-----------------------------------------------------------------------------
(* Properties                                                              *)

Versions == [doc : Doc, n : 1..MaxVersions]

(* The state has its types.                                                *)
TypeOK == /\ versions \in [Doc -> Seq(Versions)]
          /\ {documentHistoryState, documentHistoryDocId} \subseteq Doc \cup {None}
          /\ historyPage \in Pages
          /\ answers \in [QueryKeys -> {None} \cup 1..MaxVersions]
          /\ asking \in [QueryKeys -> {None, Asked} \cup 1..MaxVersions]
          /\ selectedVersion \in Versions \cup {None}
          /\ restores \subseteq [id : Nat, doc : Doc, row : Versions, stored : BOOLEAN]
          /\ {outdated, troubled} \subseteq BOOLEAN

(* At rest the drawer lists the versions there are, those that were        *)
(* restored included, and previews the content of one that it lists, of    *)
(* the document it was opened for (:114-131, DocumentContext.tsx:279-294). *)
HistoryFollows ==
    documentHistoryState # None /\ ~Fetching /\ restores = {} /\ ~outdated /\ ~troubled =>
        /\ answers[QueryKey] = Len(versions[documentHistoryState])
        /\ \E r \in Rows : Preview = versions[documentHistoryState][r.n]

(* What a restoration writes is the content of the row whose button was    *)
(* pressed, and of that row's document, whichever documents were opened    *)
(* before and since.                                                       *)
Restored == \A r \in restores : ~r.stored /\ r \notin restores' /\ versions' # versions =>
                versions' = [versions EXCEPT ![r.row.doc] = Append(@, versions[r.row.doc][r.row.n])]

RestoredAsShown == [][Restored]_vars
=============================================================================
