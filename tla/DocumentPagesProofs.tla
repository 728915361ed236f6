------------------------- MODULE DocumentPagesProofs -------------------------
(***************************************************************************)
(* Proofs about DocumentPages, for any documents, references, nodes,       *)
(* views, statuses and bounds: of the editor (ED, DocumentEditor), of the  *)
(* list and where documents are (DP, DocumentPlaces), of the drawer with   *)
(* the versions (DH, DocumentHistory), of the clean-up dialogs (RC,        *)
(* RunsCleanup), and of the page they are parts of.                        *)
(***************************************************************************)
EXTENDS DocumentPages, Sequences, FiniteSetTheorems, WellFoundedInduction, TLAPS

-----------------------------------------------------------------------------
(* The parts' cardinality is that of FiniteSets.                           *)
LEMMA CardinalityIs ==
    ASSUME NEW S
    PROVE  ED!Cardinality(S) = Cardinality(S) /\ DP!Cardinality(S) = Cardinality(S)
<1>1. ED!Cardinality(S) = Cardinality(S)
  BY DEF ED!Cardinality, Cardinality
<1>2. DP!Cardinality(S) = Cardinality(S)
  BY DEF DP!Cardinality, Cardinality
<1> QED
  BY <1>1, <1>2

-----------------------------------------------------------------------------
(* The editor                                                              *)

(* What TypeOK leaves open                                                 *)
Used == [edits : Nat, saves : Nat, changes : Nat, foreign : Nat, lost : Nat]

Saving == [n : Nat, doc : [text : ED!Texts, refs : SUBSET Refs], stored : BOOLEAN]

Shape == /\ server \in ED!Docs /\ cache \in ED!Docs \cup {None} /\ draft \in ED!Texts
         /\ isOpen \in BOOLEAN /\ fetch \in ED!Docs \cup {None, Asked}
         /\ saving \subseteq Saving /\ changes \subseteq ED!Changes /\ IsFiniteSet(changes)
         /\ loading \in BOOLEAN /\ upload \in {"never", "running", "over"} /\ used \in Used

(* The answer of a fetch is under way.                                     *)
Answering == fetch \notin {None, Asked}

(* A change that was written returns the document.                         *)
WrittenDoc == \A c \in changes : c.step = "written" => c.doc \in ED!Docs

(* Nothing is under way for an editor that was closed.                     *)
Closed == ~isOpen => cache = None /\ fetch = None /\ saving = {} /\ changes = {}

HistoryType == /\ exposed \in BOOLEAN /\ overlap \in BOOLEAN /\ mixed \in BOOLEAN
               /\ agreed \subseteq Refs

(* No document is newer than the stored one.                               *)
Older == /\ cache # None => cache.ver <= server.ver
         /\ Answering => fetch.ver <= server.ver
         /\ \A c \in changes : c.step = "written" => c.doc.ver <= server.ver

(* A change of references runs beside nothing.                             *)
Alone == changes # {} => saving = {} /\ \A c, d \in changes : c = d

(* What is stored is shown, or will be.                                    *)
DocumentComing ==
    /\ changes # {} => fetch = None /\ Alone
    /\ \A c \in changes : IF c.step = "written" THEN c.doc = server ELSE cache = server
    /\ changes = {} => \/ fetch \in {Asked, server} \/ \E s \in saving : s.stored
                       \/ fetch = None /\ cache = server

(* Before a file is pasted no text has one.                                *)
NoFile == upload = "never" /\ isOpen =>
             /\ draft.file = "none" /\ server.text.file = "none"
             /\ Answering => fetch.text.file = "none"
             /\ \A s \in saving : s.doc.text.file = "none"
             /\ \A c \in changes : c.step = "written" => c.doc.text.file = "none"

(* Every copy of the document has the text of the form, ...                *)
Alike == /\ cache # None => cache.text = draft
         /\ server.text = draft
         /\ Answering => fetch.text = draft
         /\ \A c \in changes : c.step = "written" => c.doc.text = draft

(* ... or the form is ahead of what was loaded.                            *)
Ahead == /\ changes = {} /\ cache # None
         /\ server = cache \/ server.text = draft
         /\ fetch \in {None, Asked, cache} \/ (server # cache /\ fetch.text = draft)

(* Whatever comes in leaves the draft, and a save brings it to the server. *)
DraftSafe == /\ Alike \/ Ahead
             /\ \A s \in saving : ~s.stored => s.doc.text = draft

(* No save brings other references than the server has.                    *)
RefsSafe == /\ Alone
            /\ \A s \in saving : s.doc.refs = server.refs

(* The references shown, and those that come, are those the server has.    *)
RefsShown == /\ cache # None /\ changes = {} => cache.refs = server.refs
             /\ Answering => fetch.refs = server.refs

EditorInv == /\ Shape /\ WrittenDoc /\ Closed /\ HistoryType /\ Older /\ NoFile
             /\ isOpen /\ ~overlap => DocumentComing
             /\ isOpen /\ ~exposed => DraftSafe
             /\ ~mixed => server.refs = agreed /\ RefsSafe
             /\ isOpen /\ ~mixed /\ ~overlap => RefsShown
-----------------------------------------------------------------------------
LEMMA EditorFacts == None # Asked /\ None \notin ED!Docs /\ Asked \notin ED!Docs
BY Assumptions DEF ED!EditorAssumption

LEMMA InitEditor == ED!Init => EditorInv
<1> SUFFICES ASSUME ED!Init PROVE EditorInv
  OBVIOUS
<1>1. ED!Original \in ED!Texts /\ ED!Original.file = "none"
  BY DEF ED!Original, ED!Texts
<1>2. server \in ED!Docs /\ server.text = ED!Original
  BY <1>1 DEF ED!Init, ED!Docs
<1>3. Shape
  <2>1. used \in Used
    BY DEF ED!Init, Used
  <2>2. IsFiniteSet(changes) /\ changes = {}
    BY FS_EmptySet DEF ED!Init
  <2> QED
    BY <1>1, <1>2, <2>1, <2>2 DEF ED!Init, Shape
<1>4. HistoryType
  BY <1>2 DEF ED!Init, HistoryType, ED!Docs
<1>5. WrittenDoc /\ Closed /\ Older /\ NoFile /\ DocumentComing /\ RefsSafe /\ RefsShown
  BY <1>1, <1>2, EditorFacts
     DEF ED!Init, WrittenDoc, Closed, Older, NoFile, Answering, DocumentComing, RefsSafe, RefsShown, Alone
<1>6. DraftSafe
  BY <1>2 DEF ED!Init, DraftSafe, Alike, Answering
<1> QED
  BY <1>3, <1>4, <1>5, <1>6 DEF EditorInv, ED!Init

LEMMA OneChange ==
    ASSUME NEW S, IsFiniteSet(S), ~(Cardinality(S) > 1), NEW c \in S, NEW d \in S
    PROVE  c = d
<1> SUFFICES ASSUME c # d PROVE FALSE
  OBVIOUS
<1>1. Cardinality({c, d}) = 2
  <2>1. IsFiniteSet({c}) /\ Cardinality({c}) = 1
    BY FS_Singleton
  <2>2. Cardinality({c} \cup {d}) = 2
    BY <2>1, FS_AddElement
  <2>3. {c} \cup {d} = {c, d}
    OBVIOUS
  <2> QED
    BY <2>2, <2>3
<1>2. Cardinality({c, d}) <= Cardinality(S)
  BY FS_Subset
<1>3. Cardinality(S) \in Nat
  BY FS_CardinalityType
<1> QED
  BY <1>1, <1>2, <1>3

(* What a step does to the counts                                          *)
LEMMA CountIs ==
    ASSUME used \in Used
    PROVE  /\ ED!Count("edits") => /\ used' \in Used /\ used'.edits # used.edits
                                   /\ used'.saves = used.saves /\ used'.changes = used.changes
                                   /\ used'.foreign = used.foreign /\ used'.lost = used.lost
           /\ ED!Count("saves") => /\ used' \in Used /\ used'.saves # used.saves
                                   /\ used'.edits = used.edits /\ used'.changes = used.changes
                                   /\ used'.foreign = used.foreign /\ used'.lost = used.lost
           /\ ED!Count("changes") => /\ used' \in Used /\ used'.changes # used.changes
                                     /\ used'.edits = used.edits /\ used'.saves = used.saves
                                     /\ used'.foreign = used.foreign /\ used'.lost = used.lost
           /\ ED!Count("foreign") => /\ used' \in Used /\ used'.foreign # used.foreign
                                     /\ used'.edits = used.edits /\ used'.saves = used.saves
                                     /\ used'.changes = used.changes /\ used'.lost = used.lost
           /\ ED!Count("lost") => /\ used' \in Used /\ used'.lost # used.lost
                                  /\ used'.edits = used.edits /\ used'.saves = used.saves
                                  /\ used'.changes = used.changes /\ used'.foreign = used.foreign
BY DEF Used, ED!Count

(* The history of a step, given what the step does to the rest             *)
LEMMA HistoryStep ==
    ASSUME EditorInv, ED!History, Shape', WrittenDoc', Closed', Older', NoFile', isOpen' => isOpen,
           isOpen' /\ ~overlap /\ ~ED!Overlapping => DocumentComing',
           isOpen' /\ ~exposed /\ ~ED!Exposing => DraftSafe',
           ~mixed /\ ~ED!Mixing => (ED!Accepts \/ server'.refs = server.refs) /\ RefsSafe',
           isOpen' /\ ~mixed /\ ~ED!Mixing /\ ~overlap /\ ~ED!Overlapping => RefsShown'
    PROVE  EditorInv'
<1>1. exposed' \in BOOLEAN /\ overlap' \in BOOLEAN /\ mixed' \in BOOLEAN
  BY Zenon DEF ED!History
<1>2. ~overlap' => ~ED!Overlapping /\ (~overlap \/ ED!Settled)
  BY Zenon DEF ED!History
<1>3. ~exposed' => ED!Calm' \/ (~exposed /\ ~ED!Exposing)
  BY Zenon DEF ED!History
<1>4. ~mixed' => ~mixed /\ ~ED!Mixing
  BY Zenon DEF ED!History
<1>5. agreed' \subseteq Refs
  BY DEF ED!History, EditorInv, HistoryType, Shape, ED!Docs
<1>6. ED!Settled /\ isOpen' => DocumentComing' /\ RefsShown'
  BY DEF ED!Settled, DocumentComing, RefsShown, Answering
<1>7. ED!Calm' => DraftSafe'
  BY DEF ED!Calm, DraftSafe, Alike, Answering
<1>8. ~mixed' => server'.refs = agreed'
  <2>1. CASE ED!Accepts
    BY <2>1 DEF ED!History
  <2>2. CASE ~ED!Accepts
    BY <1>4, <2>2 DEF ED!History, EditorInv
  <2> QED
    BY <2>1, <2>2
<1>9. HistoryType'
  BY <1>1, <1>5 DEF HistoryType
<1>10. isOpen' /\ ~overlap' => DocumentComing'
  BY <1>2, <1>6
<1>11. isOpen' /\ ~exposed' => DraftSafe'
  BY <1>3, <1>7
<1>12. isOpen' /\ ~mixed' /\ ~overlap' => RefsShown'
  BY <1>2, <1>4, <1>6
<1> QED
  BY <1>4, <1>8, <1>9, <1>10, <1>11, <1>12 DEF EditorInv

-----------------------------------------------------------------------------
(* The form                                                                *)

(* What the parts of the form may be put to                                *)
LEMMA TextIs ==
    ASSUME draft \in ED!Texts
    PROVE  /\ \A n \in Nat : LET t == [draft EXCEPT !.edits = @ \cup {n + 1}] IN
                 t \in ED!Texts /\ t.file = draft.file /\ draft.edits \subseteq t.edits
           /\ \A f \in {"placeholder", "link", "failed"} : LET t == [draft EXCEPT !.file = f] IN
                 t \in ED!Texts /\ t.file = f /\ draft.edits = t.edits
BY DEF ED!Texts

(* While somebody types, either nothing is under way and form and cache    *)
(* come from the stored document, or the text is exposed.                  *)
LEMMA FormStep ==
    ASSUME EditorInv, ED!History, isOpen, draft' \in ED!Texts, used' \in Used,
           upload' \in {"running", "over"} \/ upload' = upload,
           used'.edits # used.edits \/ upload' # upload,
           used'.saves = used.saves, used'.changes = used.changes, used'.foreign = used.foreign,
           used'.lost = used.lost,
           upload' = upload => draft'.file = draft.file,
           UNCHANGED <<server, cache, isOpen, fetch, saving, changes, loading>>
    PROVE  EditorInv'
<1>1. Shape' /\ WrittenDoc' /\ Closed' /\ Older'
  BY DEF EditorInv, Shape, WrittenDoc, Closed, Older, Answering
<1>2. NoFile'
  BY DEF EditorInv, NoFile, Answering
<1>3. ~overlap => DocumentComing'
  BY DEF EditorInv, DocumentComing, Alone
<1>4. ~ED!Exposing => DraftSafe'
  BY EditorFacts DEF ED!Exposing, DraftSafe, Ahead, EditorInv, Shape
<1>5. ~mixed => server'.refs = server.refs /\ RefsSafe'
  BY DEF EditorInv, RefsSafe, Alone
<1>6. ~mixed /\ ~overlap => RefsShown'
  BY DEF EditorInv, RefsShown, Answering
<1> QED
  BY <1>1, <1>2, <1>3, <1>4, <1>5, <1>6, HistoryStep

LEMMA NextType == EditorInv /\ ED!Type /\ ED!History => EditorInv'
<1> SUFFICES ASSUME EditorInv, ED!Type, ED!History PROVE EditorInv'
  OBVIOUS
<1>1. draft' \in ED!Texts /\ draft'.file = draft.file
  BY TextIs DEF EditorInv, Shape, ED!Type, Used
<1>2. /\ used' \in Used /\ used'.edits # used.edits
      /\ used'.saves = used.saves /\ used'.changes = used.changes
      /\ used'.foreign = used.foreign /\ used'.lost = used.lost
  BY CountIs DEF EditorInv, Shape, ED!Type
<1> QED
  BY <1>1, <1>2, FormStep DEF ED!Type, ED!Loaded

LEMMA NextPaste == EditorInv /\ ED!Paste /\ ED!History => EditorInv'
<1> SUFFICES ASSUME EditorInv, ED!Paste, ED!History PROVE EditorInv'
  OBVIOUS
<1>1. draft' \in ED!Texts
  BY TextIs DEF EditorInv, Shape, ED!Paste
<1> QED
  BY <1>1, FormStep DEF ED!Paste, EditorInv, Shape, ED!Loaded

LEMMA NextUploadEnds ==
    ASSUME EditorInv, NEW text \in ED!UploadTexts, ED!UploadEnds(text), ED!History
    PROVE  EditorInv'
<1>1. draft' \in ED!Texts
  BY TextIs DEF EditorInv, Shape, ED!UploadEnds, ED!UploadTexts
<1> QED
  BY <1>1, FormStep DEF ED!UploadEnds, EditorInv, Shape

-----------------------------------------------------------------------------
(* The query                                                               *)

LEMMA NextRefetch == EditorInv /\ ED!Refetch /\ ED!History => EditorInv'
<1> SUFFICES ASSUME EditorInv, ED!Refetch, ED!History PROVE EditorInv'
  OBVIOUS
<1> USE DEF ED!Refetch, ED!Loaded, ED!doc
<1>1. Shape' /\ WrittenDoc' /\ Closed' /\ Older' /\ NoFile'
  BY DEF EditorInv, Shape, WrittenDoc, Closed, Older, NoFile, Answering
<1>2. ~overlap /\ ~ED!Overlapping => DocumentComing'
  BY EditorFacts DEF EditorInv, DocumentComing, ED!Overlapping
<1>3. ~exposed => DraftSafe'
  BY EditorFacts DEF EditorInv, DraftSafe, Alike, Ahead, Answering
<1>4. ~mixed => server'.refs = server.refs /\ RefsSafe'
  BY DEF EditorInv, RefsSafe, Alone
<1>5. ~mixed /\ ~overlap => RefsShown'
  BY DEF EditorInv, RefsShown, Answering
<1> QED
  BY <1>1, <1>2, <1>3, <1>4, <1>5, HistoryStep

LEMMA NextFetchRead == EditorInv /\ ED!FetchRead /\ ED!History => EditorInv'
<1> SUFFICES ASSUME EditorInv, ED!FetchRead, ED!History PROVE EditorInv'
  OBVIOUS
<1> USE DEF ED!FetchRead, ED!doc
<1>0. isOpen /\ server \in ED!Docs /\ server.ver \in Nat
  BY EditorFacts DEF EditorInv, Closed, Shape, ED!Docs
<1>1. Shape' /\ WrittenDoc' /\ Closed' /\ Older' /\ NoFile'
  BY <1>0 DEF EditorInv, Shape, WrittenDoc, Closed, Older, NoFile, Answering
<1>2. ~overlap /\ ~ED!Overlapping => DocumentComing'
  BY <1>0, EditorFacts DEF EditorInv, DocumentComing, ED!Overlapping
<1>3. ~exposed => DraftSafe'
  BY <1>0, EditorFacts DEF EditorInv, DraftSafe, Alike, Ahead, Answering
<1>4. ~mixed => server'.refs = server.refs /\ RefsSafe'
  BY DEF EditorInv, RefsSafe, Alone
<1>5. ~mixed /\ ~overlap => RefsShown'
  BY <1>0 DEF EditorInv, RefsShown, Answering
<1> QED
  BY <1>0, <1>1, <1>2, <1>3, <1>4, <1>5, HistoryStep

LEMMA NextFetchAnswer == EditorInv /\ ED!FetchAnswer /\ ED!History => EditorInv'
<1> SUFFICES ASSUME EditorInv, ED!FetchAnswer, ED!History PROVE EditorInv'
  OBVIOUS
<1> USE DEF ED!FetchAnswer, ED!Show
<1>0. isOpen /\ fetch \in ED!Docs /\ fetch # None
  BY EditorFacts DEF EditorInv, Closed, Shape
<1>1. Shape' /\ WrittenDoc' /\ Closed' /\ Older' /\ NoFile'
  BY <1>0 DEF EditorInv, Shape, WrittenDoc, Closed, Older, NoFile, Answering, ED!Docs
<1>2. ~overlap /\ ~ED!Overlapping => DocumentComing'
  BY <1>0, EditorFacts DEF EditorInv, DocumentComing, ED!Overlapping, Alone
<1>3. ~exposed => DraftSafe'
  BY <1>0, EditorFacts DEF EditorInv, DraftSafe, Alike, Ahead, Answering
<1>4. ~mixed => server'.refs = server.refs /\ RefsSafe'
  BY DEF EditorInv, RefsSafe, Alone
<1>5. ~mixed /\ ~overlap => RefsShown'
  BY <1>0 DEF EditorInv, RefsShown, Answering
<1> QED
  BY <1>0, <1>1, <1>2, <1>3, <1>4, <1>5, HistoryStep

LEMMA NextClose == EditorInv /\ isOpen /\ ED!CloseEditor /\ ED!History => EditorInv'
<1> SUFFICES ASSUME EditorInv, isOpen, ED!CloseEditor, ED!History PROVE EditorInv'
  OBVIOUS
<1> USE DEF ED!CloseEditor
<1>1. ED!Original \in ED!Texts
  BY DEF ED!Original, ED!Texts
<1>2. IsFiniteSet(changes')
  BY FS_EmptySet
<1>3. Shape' /\ WrittenDoc' /\ Closed' /\ Older' /\ NoFile'
  BY <1>1, <1>2 DEF EditorInv, Shape, WrittenDoc, Closed, Older, NoFile, Answering
<1>4. ~mixed => server'.refs = server.refs /\ RefsSafe'
  BY DEF EditorInv, RefsSafe, Alone
<1> QED
  BY <1>3, <1>4, HistoryStep

-----------------------------------------------------------------------------
(* Saving                                                                  *)

LEMMA NextSave == EditorInv /\ ED!Save /\ ED!History => EditorInv'
<1> SUFFICES ASSUME EditorInv, ED!Save, ED!History PROVE EditorInv'
  OBVIOUS
<1> USE DEF ED!Save, ED!doc
<1> DEFINE s == [n |-> used.saves, doc |-> ED!Payload, stored |-> FALSE]
<1>0. /\ s \in Saving /\ s.doc.text = draft /\ s.doc.refs = cache.refs /\ ~s.stored
      /\ saving' = saving \cup {s}
  <2>1. ED!Payload \in [text : ED!Texts, refs : SUBSET Refs]
    BY DEF EditorInv, Shape, ED!Loaded, ED!Payload, ED!Docs
  <2>2. used.saves \in Nat /\ FALSE \in BOOLEAN
    BY DEF EditorInv, Shape, Used
  <2> QED
    BY <2>1, <2>2 DEF Saving, ED!Payload
<1> HIDE DEF s
<1>a. /\ used' \in Used /\ used'.saves # used.saves
      /\ used'.edits = used.edits /\ used'.changes = used.changes
      /\ used'.foreign = used.foreign /\ used'.lost = used.lost
  BY CountIs DEF EditorInv, Shape
<1>1. Shape' /\ WrittenDoc' /\ Closed' /\ Older'
  BY <1>0, <1>a DEF EditorInv, Shape, WrittenDoc, Closed, Older, Answering, ED!Loaded
<1>b. NoFile'
  BY <1>0 DEF EditorInv, NoFile, Answering
<1>2. ~overlap /\ ~ED!Overlapping => DocumentComing'
  BY <1>0, EditorFacts DEF EditorInv, DocumentComing, ED!Overlapping, ED!Loaded
<1>3. ~exposed => DraftSafe'
  BY <1>0 DEF EditorInv, DraftSafe, Alike, Ahead, Answering, ED!Loaded
<1>4. ~mixed /\ ~ED!Mixing => server'.refs = server.refs /\ RefsSafe'
  <2> SUFFICES ASSUME ~mixed, ~ED!Mixing PROVE RefsSafe'
    OBVIOUS
  <2>1. changes = {} /\ ~overlap
    BY <1>0, <1>a DEF ED!Mixing
  <2>2. cache.refs = server.refs
    BY <2>1 DEF EditorInv, RefsShown, ED!Loaded
  <2> QED
    BY <1>0, <2>1, <2>2 DEF EditorInv, RefsSafe, Alone
<1>5. ~mixed /\ ~overlap => RefsShown'
  BY DEF EditorInv, RefsShown, Answering, ED!Loaded
<1> QED
  BY <1>1, <1>b, <1>2, <1>3, <1>4, <1>5, HistoryStep DEF ED!Loaded

LEMMA NextSaveStored ==
    ASSUME EditorInv, NEW s \in saving, ED!SaveStored(s), ED!History
    PROVE  EditorInv'
<1> USE DEF ED!SaveStored
<1> DEFINE t == [s EXCEPT !.stored = TRUE]
<1>0. /\ s \in Saving /\ t \in Saving /\ t.doc = s.doc /\ t.stored
      /\ saving' = (saving \ {s}) \cup {t} /\ isOpen
  BY DEF EditorInv, Shape, Saving, Closed
<1>a. t \in saving' /\ \A q \in saving' : q = t \/ q \in saving
  BY <1>0
<1> HIDE DEF t
<1>b. /\ server' \in ED!Docs /\ server'.text = s.doc.text /\ server'.refs = ED!Merged(s.doc.refs)
      /\ server'.ver = server.ver + 1 /\ server.ver \in Nat
  BY <1>0 DEF ED!Written, ED!Docs, EditorInv, Shape, ED!Merged, Saving
<1>c. /\ cache # None => cache \in ED!Docs /\ cache.ver \in Nat /\ cache # server'
      /\ Answering => fetch \in ED!Docs /\ fetch.ver \in Nat /\ fetch # server'
  BY <1>b DEF EditorInv, Shape, Answering, ED!Docs, Older
<1>1. Shape' /\ WrittenDoc' /\ Closed'
  BY <1>0, <1>b DEF EditorInv, Shape, WrittenDoc, Closed
<1>d. Older'
  <2>1. \A c \in changes : c.step = "written" => c.doc.ver \in Nat
    BY DEF EditorInv, WrittenDoc, ED!Docs
  <2> QED
    BY <1>b, <1>c, <2>1 DEF EditorInv, Older, Answering
<1>e. NoFile'
  BY <1>0, <1>a, <1>b DEF EditorInv, NoFile, Answering
<1>2. ~overlap /\ ~ED!Overlapping => DocumentComing'
  BY <1>0, <1>a DEF EditorInv, DocumentComing, Alone
<1>3. ~exposed => DraftSafe'
  <2> SUFFICES ASSUME ~exposed PROVE DraftSafe'
    OBVIOUS
  <2>1. server'.text = draft
    BY <1>0, <1>b DEF EditorInv, DraftSafe
  <2>2. \A q \in saving' : ~q.stored => q.doc.text = draft
    BY <1>0, <1>a DEF EditorInv, DraftSafe
  <2>3. Alike \/ Ahead
    BY <1>0 DEF EditorInv, DraftSafe
  <2>4. CASE Alike
    BY <2>1, <2>2, <2>4 DEF DraftSafe, Alike, Answering
  <2>5. CASE Ahead
    BY <1>c, <2>1, <2>2, <2>5 DEF DraftSafe, Ahead
  <2> QED
    BY <2>3, <2>4, <2>5
<1>4. ~mixed => server'.refs = server.refs /\ RefsSafe'
  BY <1>0, <1>a, <1>b DEF EditorInv, RefsSafe, Alone, ED!Merged
<1>5. ~mixed /\ ~overlap => RefsShown'
  BY <1>0, <1>4 DEF EditorInv, RefsShown, Answering
<1> QED
  BY <1>0, <1>1, <1>d, <1>e, <1>2, <1>3, <1>4, <1>5, HistoryStep

LEMMA NextSaveAnswered ==
    ASSUME EditorInv, NEW s \in saving, ED!SaveAnswered(s), ED!History
    PROVE  EditorInv'
<1> USE DEF ED!SaveAnswered, ED!doc
<1>1. Shape' /\ WrittenDoc' /\ Closed' /\ Older' /\ NoFile' /\ isOpen
  BY DEF EditorInv, Shape, WrittenDoc, Closed, Older, NoFile, Answering
<1>2. ~overlap /\ ~ED!Overlapping => DocumentComing'
  BY <1>1, EditorFacts DEF EditorInv, DocumentComing, Alone
<1>3. ~exposed => DraftSafe'
  BY <1>1 DEF EditorInv, DraftSafe, Alike, Ahead, Answering
<1>4. ~mixed => server'.refs = server.refs /\ RefsSafe'
  BY DEF EditorInv, RefsSafe, Alone
<1>5. ~mixed /\ ~overlap => RefsShown'
  BY <1>1 DEF EditorInv, RefsShown, Answering
<1> QED
  BY <1>1, <1>2, <1>3, <1>4, <1>5, HistoryStep

LEMMA NextSaveFails ==
    ASSUME EditorInv, NEW s \in saving, ED!SaveFails(s), ED!History
    PROVE  EditorInv'
<1> USE DEF ED!SaveFails, ED!doc
<1>0. /\ used' \in Used /\ isOpen
      /\ s.stored => used'.lost # used.lost
  BY CountIs DEF EditorInv, Shape, Closed
<1>1. Shape' /\ WrittenDoc' /\ Closed' /\ Older' /\ NoFile'
  BY <1>0 DEF EditorInv, Shape, WrittenDoc, Closed, Older, NoFile, Answering
<1>2. ~overlap /\ ~ED!Overlapping => DocumentComing'
  BY <1>0, EditorFacts DEF EditorInv, DocumentComing, Alone, ED!Overlapping
<1>3. ~exposed => DraftSafe'
  BY <1>0 DEF EditorInv, DraftSafe, Alike, Ahead, Answering
<1>4. ~mixed => server'.refs = server.refs /\ RefsSafe'
  BY DEF EditorInv, RefsSafe, Alone
<1>5. ~mixed /\ ~overlap => RefsShown'
  BY <1>0 DEF EditorInv, RefsShown, Answering
<1> QED
  BY <1>0, <1>1, <1>2, <1>3, <1>4, <1>5, HistoryStep

-----------------------------------------------------------------------------
(* References                                                              *)

LEMMA NextChangeReference ==
    ASSUME EditorInv, NEW r \in Refs, ED!ChangeReference(r), ED!History
    PROVE  EditorInv'
<1> USE DEF ED!ChangeReference, ED!doc
<1> DEFINE c == ED!Request(r)
<1>0. c \in ED!Changes /\ c.step = "sent" /\ changes' = changes \cup {c}
  <2>1. /\ used.changes \in Nat /\ (r \notin cache.refs) \in BOOLEAN /\ {} \in SUBSET Refs
        /\ TRUE \in BOOLEAN
    BY DEF EditorInv, Shape, Used
  <2> QED
    BY <2>1 DEF ED!Request, ED!Changes
<1> HIDE DEF c
<1>a. /\ used' \in Used /\ used'.changes # used.changes /\ isOpen
      /\ used'.edits = used.edits /\ used'.saves = used.saves
      /\ used'.foreign = used.foreign /\ used'.lost = used.lost
  BY CountIs DEF EditorInv, Shape, ED!Loaded
<1>b. IsFiniteSet(changes')
  BY <1>0, FS_AddElement DEF EditorInv, Shape
<1>1. Shape' /\ WrittenDoc' /\ Closed' /\ Older' /\ NoFile'
  BY <1>0, <1>a, <1>b DEF EditorInv, Shape, WrittenDoc, Closed, Older, NoFile, Answering
<1>c. ~(ED!Cardinality(changes') > 1) => \A d, e \in changes' : d = e
  BY <1>b, OneChange, CardinalityIs
<1>2. ~overlap /\ ~ED!Overlapping => DocumentComing'
  <2> SUFFICES ASSUME ~overlap, ~ED!Overlapping PROVE DocumentComing'
    OBVIOUS
  <2>1. fetch = None /\ saving = {} /\ \A d, e \in changes' : d = e
    BY <1>0, <1>c DEF ED!Overlapping
  <2>2. cache = server
    <3>1. CASE changes = {}
      BY <1>a, <2>1, <3>1, EditorFacts DEF EditorInv, DocumentComing, Shape
    <3>2. CASE changes # {}
      BY <1>0, <1>a, <2>1, <3>2 DEF EditorInv, DocumentComing
    <3> QED
      BY <3>1, <3>2
  <2> QED
    BY <1>0, <2>1, <2>2 DEF DocumentComing, Alone
<1>3. ~exposed /\ ~ED!Exposing => DraftSafe'
  <2> SUFFICES ASSUME ~exposed, ~ED!Exposing PROVE DraftSafe'
    OBVIOUS
  <2>1. draft = cache.text
    BY <1>a DEF ED!Exposing
  <2>2. Alike
    BY <1>a, <2>1 DEF EditorInv, DraftSafe, Alike, Ahead, Answering
  <2> QED
    BY <1>0, <1>a, <2>2 DEF EditorInv, DraftSafe, Alike, Answering
<1>4. ~mixed /\ ~ED!Mixing => server'.refs = server.refs /\ RefsSafe'
  BY <1>0, <1>c DEF EditorInv, RefsSafe, Alone, ED!Mixing
<1>5. ~mixed /\ ~overlap => RefsShown'
  BY <1>0, <1>a DEF EditorInv, RefsShown, Answering
<1> QED
  BY <1>a, <1>1, <1>2, <1>3, <1>4, <1>5, HistoryStep

(* The references of a change that goes on                                 *)
LEMMA ReplaceIs ==
    ASSUME NEW c \in changes, NEW d, ED!Replace(c, d), IsFiniteSet(changes)
    PROVE  /\ IsFiniteSet(changes') /\ d \in changes'
           /\ \A e \in changes' : e = d \/ (e \in changes /\ e # c)
           /\ (\A e, f \in changes : e = f) => changes' = {d}
<1>1. IsFiniteSet(changes \ {c})
  BY FS_Subset
<1>2. IsFiniteSet((changes \ {c}) \cup {d})
  BY <1>1, FS_AddElement
<1> QED
  BY <1>2 DEF ED!Replace

LEMMA NextReferenceRead ==
    ASSUME EditorInv, NEW c \in changes, ED!ReferenceRead(c), ED!History
    PROVE  EditorInv'
<1> USE DEF ED!ReferenceRead, ED!doc
<1> DEFINE d == [c EXCEPT !.step = "read", !.refs = server.refs]
<1>0. /\ c \in ED!Changes /\ d \in ED!Changes /\ d.step = "read" /\ isOpen
      /\ ED!Replace(c, d)
  BY DEF EditorInv, Shape, ED!Changes, Closed, ED!Docs
<1> HIDE DEF d
<1>a. /\ IsFiniteSet(changes') /\ d \in changes'
      /\ \A e \in changes' : e = d \/ (e \in changes /\ e # c)
      /\ (\A e, f \in changes : e = f) => changes' = {d}
  BY <1>0, ReplaceIs DEF EditorInv, Shape
<1>1. Shape' /\ WrittenDoc' /\ Closed' /\ Older' /\ NoFile'
  BY <1>0, <1>a DEF EditorInv, Shape, WrittenDoc, Closed, Older, NoFile, Answering
<1>2. ~overlap => DocumentComing'
  BY <1>0, <1>a DEF EditorInv, DocumentComing, Alone
<1>3. ~exposed => DraftSafe'
  BY <1>0, <1>a DEF EditorInv, DraftSafe, Alike, Ahead, Answering
<1>4. ~mixed => server'.refs = server.refs /\ RefsSafe'
  BY <1>a DEF EditorInv, RefsSafe, Alone
<1>5. ~mixed /\ ~overlap => RefsShown'
  BY <1>0, <1>a DEF EditorInv, RefsShown, Answering
<1> QED
  BY <1>0, <1>1, <1>2, <1>3, <1>4, <1>5, HistoryStep

LEMMA NextReferenceWrite ==
    ASSUME EditorInv, NEW c \in changes, ED!ReferenceWrite(c), ED!History
    PROVE  EditorInv'
<1> USE DEF ED!ReferenceWrite
<1> DEFINE d == [c EXCEPT !.step = "written", !.doc = server']
<1>b. /\ server' \in ED!Docs /\ server'.text = server.text
      /\ server'.ver = server.ver + 1 /\ server.ver \in Nat /\ isOpen /\ c \in ED!Changes
  BY DEF ED!Written, ED!Docs, EditorInv, Shape, ED!Changed, ED!Changes, Closed
<1>0. /\ d \in ED!Changes /\ d.step = "written" /\ d.doc = server' /\ ED!Replace(c, d)
  BY <1>b DEF ED!Changes
<1> HIDE DEF d
<1>a. /\ IsFiniteSet(changes') /\ d \in changes'
      /\ \A e \in changes' : e = d \/ (e \in changes /\ e # c)
      /\ (\A e, f \in changes : e = f) => changes' = {d}
  BY <1>0, ReplaceIs DEF EditorInv, Shape
<1>1. Shape' /\ WrittenDoc' /\ Closed'
  BY <1>0, <1>a, <1>b DEF EditorInv, Shape, WrittenDoc, Closed
<1>c. /\ cache # None => cache \in ED!Docs /\ cache.ver \in Nat /\ cache # server'
      /\ Answering => fetch \in ED!Docs /\ fetch.ver \in Nat /\ fetch # server'
      /\ \A e \in changes : e.step = "written" => e.doc.ver \in Nat
  BY <1>b DEF EditorInv, Shape, Answering, ED!Docs, Older, WrittenDoc
<1>d. Older'
  BY <1>0, <1>a, <1>b, <1>c DEF EditorInv, Older, Answering
<1>e. NoFile'
  BY <1>0, <1>a, <1>b DEF EditorInv, NoFile, Answering
<1>2. ~overlap => DocumentComing'
  BY <1>0, <1>a, <1>b DEF EditorInv, DocumentComing, Alone
<1>3. ~exposed => DraftSafe'
  BY <1>0, <1>a, <1>b DEF EditorInv, DraftSafe, Alike, Ahead, Answering
<1>4. ~mixed => ED!Accepts /\ RefsSafe'
  <2> SUFFICES ASSUME ~mixed PROVE ED!Accepts /\ RefsSafe'
    OBVIOUS
  <2>1. saving = {} /\ \A e, f \in changes : e = f
    BY DEF EditorInv, RefsSafe, Alone
  <2>2. d \notin changes
    BY <1>0, <2>1
  <2> QED
    BY <1>0, <1>a, <2>1, <2>2 DEF ED!Accepts, RefsSafe, Alone
<1>5. ~mixed /\ ~overlap => RefsShown'
  <2> SUFFICES ASSUME ~mixed, ~overlap PROVE RefsShown'
    OBVIOUS
  <2>1. fetch = None
    BY <1>b DEF EditorInv, DocumentComing
  <2> QED
    BY <1>a, <2>1 DEF RefsShown, Answering
<1> QED
  BY <1>b, <1>1, <1>d, <1>e, <1>2, <1>3, <1>4, <1>5, HistoryStep

LEMMA NextReferenceAnswer ==
    ASSUME EditorInv, NEW c \in changes, ED!ReferenceAnswer(c), ED!History
    PROVE  EditorInv'
<1> USE DEF ED!ReferenceAnswer, ED!Show
<1>0. isOpen /\ c.doc \in ED!Docs
  BY DEF EditorInv, Closed, WrittenDoc
<1>a. IsFiniteSet(changes')
  BY FS_Subset DEF EditorInv, Shape
<1>1. Shape' /\ WrittenDoc' /\ Closed' /\ Older'
  BY <1>0, <1>a DEF EditorInv, Shape, WrittenDoc, Closed, Older, Answering, ED!Docs
<1>b. NoFile'
  BY <1>0 DEF EditorInv, NoFile, Answering
<1>2. ~overlap => DocumentComing'
  BY <1>0, EditorFacts DEF EditorInv, DocumentComing, Alone
<1>3. ~exposed => DraftSafe'
  <2> SUFFICES ASSUME ~exposed PROVE DraftSafe'
    OBVIOUS
  <2>1. Alike /\ \A s \in saving : ~s.stored => s.doc.text = draft
    BY <1>0 DEF EditorInv, DraftSafe, Ahead
  <2>2. draft' = draft
    BY <2>1 DEF Alike
  <2> QED
    BY <1>0, <2>1, <2>2 DEF DraftSafe, Alike, Answering
<1>4. ~mixed => server'.refs = server.refs /\ RefsSafe'
  BY DEF EditorInv, RefsSafe, Alone
<1>5. ~mixed /\ ~overlap => RefsShown'
  <2> SUFFICES ASSUME ~mixed, ~overlap PROVE RefsShown'
    OBVIOUS
  <2>1. fetch = None /\ c.doc = server
    BY <1>0 DEF EditorInv, DocumentComing
  <2> QED
    BY <2>1 DEF RefsShown, Answering
<1> QED
  BY <1>0, <1>1, <1>b, <1>2, <1>3, <1>4, <1>5, HistoryStep

LEMMA NextReferenceFails ==
    ASSUME EditorInv, NEW c \in changes, ED!ReferenceFails(c), ED!History
    PROVE  EditorInv'
<1> USE DEF ED!ReferenceFails, ED!doc
<1>0. isOpen /\ UNCHANGED <<server, cache, draft, isOpen, fetch, saving, upload>> /\ loading' \in BOOLEAN
  BY DEF EditorInv, Closed
<1>3. ASSUME used' \in Used, IsFiniteSet(changes'), changes' \subseteq ED!Changes,
             \A d \in changes' : \E e \in changes : d.step = e.step /\ d.doc = e.doc,
             (\A d, e \in changes : d = e) => \A d, e \in changes' : d = e,
             changes' = {} /\ ~ED!Overlapping => \A e \in changes : e = c => c.step # "written"
      PROVE  EditorInv'
  <2>1. Shape' /\ Closed' /\ NoFile'
    BY <1>0, <1>3 DEF EditorInv, Shape, Closed, NoFile, Answering
  <2>2. WrittenDoc' /\ Older'
    BY <1>0, <1>3 DEF EditorInv, WrittenDoc, Older, Answering
  <2>3. ~overlap /\ ~ED!Overlapping => DocumentComing' /\ RefsShown'
    <3> SUFFICES ASSUME ~overlap, ~ED!Overlapping PROVE DocumentComing' /\ RefsShown'
      OBVIOUS
    <3>1. fetch = None /\ Alone /\ \A e \in changes : IF e.step = "written" THEN e.doc = server ELSE cache = server
      BY <1>0 DEF EditorInv, DocumentComing
    <3>2. changes' = {} => cache = server
      BY <1>3, <3>1
    <3>3. DocumentComing'
      BY <1>0, <1>3, <3>1, <3>2 DEF DocumentComing, Alone
    <3>4. RefsShown'
      BY <1>0, <3>1, <3>2 DEF RefsShown, Answering
    <3> QED
      BY <3>3, <3>4
  <2>4. ~exposed => DraftSafe'
    BY <1>0, <1>3 DEF EditorInv, DraftSafe, Alike, Ahead, Answering
  <2>5. ~mixed => server'.refs = server.refs /\ RefsSafe'
    BY <1>0, <1>3 DEF EditorInv, RefsSafe, Alone
  <2> QED
    BY <1>0, <2>1, <2>2, <2>3, <2>4, <2>5, HistoryStep
<1>1. CASE changes' = changes \ {c}
  <2>1. used' \in Used /\ (c.step = "written" => used'.lost # used.lost)
    BY <1>1, CountIs DEF EditorInv, Shape, ED!Replace
  <2>2. IsFiniteSet(changes')
    BY <1>1, FS_Subset DEF EditorInv, Shape
  <2>3. ~ED!Overlapping => c.step # "written"
    BY <2>1 DEF ED!Overlapping
  <2>4. changes' \subseteq ED!Changes
    BY <1>1 DEF EditorInv, Shape
  <2> QED
    BY <1>1, <1>3, <2>1, <2>2, <2>3, <2>4
<1>2. CASE changes' # changes \ {c}
  <2> DEFINE d == [c EXCEPT !.heard = FALSE]
  <2>1. ED!Replace(c, d) /\ used' = used
    BY <1>2
  <2>2. c \in ED!Changes /\ d \in ED!Changes /\ d.step = c.step /\ d.doc = c.doc
    BY DEF EditorInv, Shape, ED!Changes
  <2> HIDE DEF d
  <2>3. /\ IsFiniteSet(changes') /\ d \in changes'
        /\ \A e \in changes' : e = d \/ (e \in changes /\ e # c)
        /\ (\A e, f \in changes : e = f) => changes' = {d}
    BY <2>1, ReplaceIs DEF EditorInv, Shape
  <2>4. used' \in Used /\ changes' \subseteq ED!Changes
    BY <2>1, <2>2, <2>3 DEF EditorInv, Shape
  <2>5. \A e \in changes' : \E f \in changes : e.step = f.step /\ e.doc = f.doc
    BY <2>2, <2>3
  <2>6. (\A e, f \in changes : e = f) => \A e, f \in changes' : e = f
    BY <2>3
  <2> QED
    BY <1>3, <2>3, <2>4, <2>5, <2>6
<1> QED
  BY <1>1, <1>2

-----------------------------------------------------------------------------

LEMMA NextForeignText == EditorInv /\ ED!ForeignText /\ ED!History => EditorInv'
<1> SUFFICES ASSUME EditorInv, ED!ForeignText, ED!History PROVE EditorInv'
  OBVIOUS
<1> USE DEF ED!ForeignText
<1> DEFINE text == [ED!Original EXCEPT !.foreign = used.foreign + 1]
<1>a. /\ used' \in Used /\ used'.foreign # used.foreign
  BY CountIs DEF EditorInv, Shape
<1>b. text \in ED!Texts /\ text.file = "none"
  BY DEF ED!Original, ED!Texts, EditorInv, Shape, Used
<1>c. server' = ED!Written(text, server.refs)
  OBVIOUS
<1> HIDE DEF text
<1>d. /\ server' \in ED!Docs /\ server'.text.file = "none" /\ server'.refs = server.refs
      /\ server'.ver = server.ver + 1 /\ server.ver \in Nat
  BY <1>b, <1>c DEF ED!Written, ED!Docs, EditorInv, Shape
<1>1. Shape' /\ WrittenDoc' /\ Closed'
  BY <1>a, <1>d DEF EditorInv, Shape, WrittenDoc, Closed
<1>e. /\ cache # None => cache.ver \in Nat
      /\ Answering => fetch.ver \in Nat
      /\ \A e \in changes : e.step = "written" => e.doc.ver \in Nat
  BY DEF EditorInv, Shape, Answering, ED!Docs, WrittenDoc
<1>f. Older'
  BY <1>d, <1>e DEF EditorInv, Older, Answering
<1>g. NoFile'
  BY <1>d DEF EditorInv, NoFile, Answering
<1>2. ED!Overlapping /\ ED!Exposing
  BY <1>a DEF ED!Overlapping, ED!Exposing
<1>4. ~mixed => server'.refs = server.refs /\ RefsSafe'
  BY <1>d DEF EditorInv, RefsSafe, Alone
<1> QED
  BY <1>1, <1>f, <1>g, <1>2, <1>4, HistoryStep

LEMMA NextEditor == EditorInv /\ (ED!Next \/ UNCHANGED ED!vars) => EditorInv'
<1> SUFFICES ASSUME EditorInv, ED!Next \/ UNCHANGED ED!vars PROVE EditorInv'
  OBVIOUS
<1>1. CASE ED!Form /\ ED!History
  BY <1>1, NextType, NextPaste, NextUploadEnds DEF ED!Form
<1>2. CASE ED!Query /\ ED!History
  <2>1. CASE ED!Leave \/ ED!FetchFails
    BY <1>2, <2>1, NextClose DEF ED!Leave, ED!FetchFails
  <2> QED
    BY <1>2, <2>1, NextRefetch, NextFetchRead, NextFetchAnswer DEF ED!Query
<1>3. CASE ED!Saves /\ ED!History
  BY <1>3, NextSave, NextSaveStored, NextSaveAnswered, NextSaveFails DEF ED!Saves, ED!PressSave
<1>4. CASE ED!References /\ ED!History
  <2>1. ASSUME NEW r \in Refs, ED!AddReference(r) \/ ED!RemoveReference(r) PROVE EditorInv'
    BY <1>4, <2>1, NextChangeReference DEF ED!AddReference, ED!RemoveReference
  <2>2. ASSUME NEW c \in changes,
               ED!ReferenceRead(c) \/ ED!ReferenceWrite(c) \/ ED!ReferenceAnswer(c) \/ ED!ReferenceFails(c)
        PROVE  EditorInv'
    BY <1>4, <2>2, NextReferenceRead, NextReferenceWrite, NextReferenceAnswer, NextReferenceFails
  <2> QED
    BY <1>4, <2>1, <2>2 DEF ED!References
<1>5. CASE ED!ForeignText /\ ED!History
  BY <1>5, NextForeignText
<1>6. CASE UNCHANGED ED!vars
  BY <1>6 DEF ED!vars, ED!doc, ED!hist, EditorInv, Shape, WrittenDoc, Closed, HistoryType, Older,
              NoFile, Answering, DocumentComing, Alone, DraftSafe, Alike, Ahead, RefsSafe, RefsShown
<1> QED
  BY <1>1, <1>2, <1>3, <1>4, <1>5, <1>6 DEF ED!Next

LEMMA EditorHolds == EditorInv => ED!TypeOK /\ ED!CacheCurrent /\ ED!ReferencesKept
<1> SUFFICES ASSUME EditorInv PROVE ED!TypeOK /\ ED!CacheCurrent /\ ED!ReferencesKept
  OBVIOUS
<1>1. ED!TypeOK
  BY DEF EditorInv, Shape, HistoryType, ED!TypeOK, Saving
<1>2. ED!CacheCurrent
  BY EditorFacts DEF EditorInv, Shape, DocumentComing, ED!CacheCurrent, ED!Quiet
<1>3. ED!ReferencesKept
  BY DEF EditorInv, ED!ReferencesKept
<1> QED
  BY <1>1, <1>2, <1>3

LEMMA NextKeepsDraft == EditorInv /\ ED!Next => ED!KeepsDraft
<1> SUFFICES ASSUME EditorInv, ED!Next, isOpen, isOpen', ~exposed
             PROVE  /\ draft.edits \subseteq draft'.edits
                    /\ draft.file = "link" => draft'.file = "link"
  BY DEF ED!KeepsDraft
<1>1. CASE ED!Type
  BY <1>1, TextIs DEF ED!Type, EditorInv, Shape, Used
<1>2. CASE ED!Paste
  <2>1. draft.file = "none"
    BY <1>2 DEF ED!Paste, EditorInv, NoFile
  <2> QED
    BY <1>2, <2>1, TextIs DEF ED!Paste, EditorInv, Shape
<1>3. ASSUME NEW text \in ED!UploadTexts, ED!UploadEnds(text)
      PROVE  draft.edits \subseteq draft'.edits /\ (draft.file = "link" => draft'.file = "link")
  BY <1>3, TextIs DEF ED!UploadEnds, ED!UploadTexts, EditorInv, Shape
<1>4. CASE ED!FetchAnswer
  <2>1. draft' = draft
    BY <1>4 DEF ED!FetchAnswer, ED!Show, EditorInv, DraftSafe, Alike, Ahead, Answering
  <2> QED
    BY <2>1
<1>5. ASSUME NEW c \in changes, ED!ReferenceAnswer(c)
      PROVE  draft' = draft
  BY <1>5 DEF ED!ReferenceAnswer, ED!Show, EditorInv, DraftSafe, Alike, Ahead
<1>6. ~ED!Leave /\ ~ED!FetchFails
  BY DEF ED!Leave, ED!FetchFails, ED!CloseEditor
<1>7. \/ ED!Type \/ ED!Paste \/ (\E text \in ED!UploadTexts : ED!UploadEnds(text))
      \/ ED!FetchAnswer \/ (\E c \in changes : ED!ReferenceAnswer(c)) \/ draft' = draft
  BY <1>6 DEF ED!Next, ED!Form, ED!Query, ED!Refetch, ED!FetchRead, ED!Saves, ED!Save, ED!PressSave,
              ED!SaveStored, ED!SaveAnswered, ED!SaveFails, ED!References, ED!AddReference,
              ED!RemoveReference, ED!ChangeReference, ED!ReferenceRead, ED!ReferenceWrite,
              ED!ReferenceFails, ED!ForeignText, ED!doc
<1> QED
  BY <1>1, <1>2, <1>3, <1>4, <1>5, <1>7

-----------------------------------------------------------------------------
(* The list of documents, and where they are                               *)

(* What TypeOK leaves open: that there is a function of the handlers.      *)
Handlers == tasks \in [DP!Slot -> DP!TaskSet \cup {None}]

-----------------------------------------------------------------------------
(* The list.  Handlers that have changed the server and not said so yet    *)

Moving == \E i \in DP!Slot : DP!At(i, "moveOut") \/ DP!At(i, "moveIn")

(* Only the view that is shown is fetched, and what it was answered, or    *)
(* will be, is what the server has - unless its first fetch came early, or *)
(* a move is under way, which has the list asked again at its end.         *)
ListKept ==
    ~failed /\ ~left =>
        /\ \A v \in View \ {view} : fetching[v] = None
        /\ ~Moving /\ ~early => /\ fetching[view] \in {Asked, None, DP!Listed(view)}
                                /\ fetching[view] = None => data[view] = DP!Listed(view)

-----------------------------------------------------------------------------
(* The documents.  What a handler that is alone knows of its document      *)

OneHandler == \A i, j \in DP!Slot : tasks[i] # None /\ tasks[j] # None => i = j

Known(t) ==
    /\ t.step \notin {"moveOut", "moveIn"} => placed[t.doc] # {}
    /\ t.step = "askDelete" => Cardinality(placed[t.doc]) > 1
    /\ t.step = "unbindHere" => placed[t.doc] \ {t.node} # {}
    /\ t.step = "askDrop" => t.seen = placed[t.doc]
    /\ t.step = "moveOut" => placed[t.doc] = t.todo \cup (t.seen \cap {t.node}) /\ t.node \notin t.todo

PlacesKept ==
    ~failed /\ ~together =>
        /\ OneHandler
        /\ \A d \in Doc : placed[d] = {} => d \in purged \/ \E i \in DP!Slot : tasks[i] # None /\ tasks[i].doc = d
        /\ \A i \in DP!Slot : tasks[i] # None => tasks[i].doc \in purged \/ Known(tasks[i])

PlacesInv == DP!TypeOK /\ Handlers /\ ListKept /\ PlacesKept

-----------------------------------------------------------------------------
(* What steps of a handler come to                                         *)

LEMMA Updated ==
    ASSUME Handlers, NEW i \in DP!Slot, NEW x \in DP!TaskSet \cup {None}, tasks' = [tasks EXCEPT ![i] = x]
    PROVE  Handlers' /\ tasks'[i] = x /\ \A j \in DP!Slot \ {i} : tasks'[j] = tasks[j]
BY DEF Handlers

LEMMA Current ==
    ASSUME DP!TypeOK, NEW i \in DP!Slot, tasks[i] # None
    PROVE  /\ tasks[i] \in DP!TaskSet /\ tasks[i].doc \in Doc /\ tasks[i].node \in Node
           /\ tasks[i].seen \subseteq Node /\ tasks[i].todo \subseteq Node
BY DEF DP!TypeOK, DP!TaskSet

LEMMA Typed ==
    ASSUME DP!TypeOK, Handlers', placed' \in [Doc -> SUBSET Node], binned' \subseteq Doc, purged' \subseteq Doc,
           view' \in View, data' = data, fetching' \in [View -> {None, Asked} \cup SUBSET Doc],
           failed' \in BOOLEAN, together' \in BOOLEAN, early' \in BOOLEAN, UNCHANGED left
    PROVE  DP!TypeOK'
BY DEF DP!TypeOK, Handlers, DP!TaskSet

(* The list stands if the server and the queries are left alone and no     *)
(* move ends, or while a move is under way.                                *)
LEMMA ListStands ==
    ASSUME ListKept, UNCHANGED <<DP!query, failed, left>>,
           \/ UNCHANGED DP!server /\ (Moving => Moving')
           \/ Moving'
    PROVE  ListKept'
<1>1. CASE Moving'
  BY <1>1 DEF ListKept, DP!query
<1>2. CASE UNCHANGED DP!server /\ ~Moving
  <2>1. \A v \in View : DP!Listed(v)' = DP!Listed(v)
    BY <1>2 DEF DP!Listed, DP!Filtered, DP!server
  <2> QED
    BY <1>2, <2>1 DEF ListKept, DP!Listed, DP!Filtered, DP!query, DP!server
<1> QED
  BY <1>1, <1>2

(* So it does when the view shown is asked again.                          *)
LEMMA ListAsked ==
    ASSUME DP!TypeOK, ListKept, DP!PlacesAssumption, DP!InvalidateQueries, UNCHANGED <<failed, left>>
    PROVE  /\ ListKept' /\ early' \in BOOLEAN
           /\ fetching' \in [View -> {None, Asked} \cup SUBSET Doc]
<1>1. /\ view \in View /\ view' = view /\ fetching'[view] # None
      /\ \A v \in View \ {view} : fetching'[v] = fetching[v]
  BY DEF DP!TypeOK, DP!InvalidateQueries, DP!PlacesAssumption
<1>2. fetching' \in [View -> {None, Asked} \cup SUBSET Doc]
  BY DEF DP!TypeOK, DP!InvalidateQueries
<1>3. early' \in BOOLEAN /\ (~early' => fetching'[view'] \in {Asked, DP!Listed(view)'})
  BY <1>1 DEF DP!InvalidateQueries, DP!Early
<1> QED
  BY <1>1, <1>2, <1>3 DEF ListKept

(* A handler that is alone goes on, or ends, with its document somewhere.  *)
LEMMA PlacesStep ==
    ASSUME DP!TypeOK, Handlers, PlacesKept, NEW i \in DP!Slot, tasks[i] # None,
           NEW x \in DP!TaskSet \cup {None}, tasks' = [tasks EXCEPT ![i] = x],
           UNCHANGED <<failed, together>>, purged \subseteq purged',
           \A d \in Doc \ {tasks[i].doc} : placed'[d] = placed[d],
           Known(tasks[i]) /\ x # None => x.doc = tasks[i].doc /\ Known(x)',
           Known(tasks[i]) /\ x = None => placed'[tasks[i].doc] # {} \/ tasks[i].doc \in purged',
           x # None => x.doc = tasks[i].doc
    PROVE  PlacesKept'
<1> SUFFICES ASSUME ~failed, ~together PROVE PlacesKept'
  BY DEF PlacesKept
<1>1. /\ OneHandler
      /\ tasks[i].doc \in purged \/ Known(tasks[i])
      /\ \A d \in Doc : placed[d] = {} => d \in purged \/ \E j \in DP!Slot : tasks[j] # None /\ tasks[j].doc = d
  BY DEF PlacesKept
<1>2. tasks'[i] = x /\ \A j \in DP!Slot \ {i} : tasks'[j] = tasks[j] /\ tasks[j] = None
  BY <1>1, Updated DEF OneHandler
<1>3. OneHandler'
  BY <1>2 DEF OneHandler
<1>4. ASSUME NEW d \in Doc, placed'[d] = {}
      PROVE  d \in purged' \/ \E j \in DP!Slot : tasks'[j] # None /\ tasks'[j].doc = d
  <2>1. CASE d = tasks[i].doc
    BY <1>1, <1>2, <1>4, <2>1
  <2>2. CASE d # tasks[i].doc
    <3>1. placed[d] = {}
      BY <1>4, <2>2
    <3>2. d \in purged
      BY <1>1, <1>2, <2>2, <3>1
    <3> QED
      BY <3>2
  <2> QED
    BY <2>1, <2>2
<1>5. ASSUME NEW j \in DP!Slot, tasks'[j] # None
      PROVE  (tasks[j].doc \in purged \/ Known(tasks[j]))'
  <2>1. j = i /\ tasks'[j] = x /\ x # None
    BY <1>2, <1>5
  <2>2. CASE tasks[i].doc \in purged
    BY <2>1, <2>2
  <2>3. CASE Known(tasks[i])
    BY <2>1, <2>3 DEF Known
  <2> QED
    BY <1>1, <2>2, <2>3
<1> QED
  BY <1>3, <1>4, <1>5 DEF PlacesKept

(* A call that fails ends all promises.                                    *)
LEMMA FailedKept == ASSUME failed' PROVE ListKept' /\ PlacesKept'
BY DEF ListKept, PlacesKept

-----------------------------------------------------------------------------
(* The state at the beginning, and the list by itself                      *)

LEMMA InitPlaces == DP!PlacesAssumption /\ DP!Init => PlacesInv
<1> SUFFICES ASSUME DP!PlacesAssumption, DP!Init PROVE PlacesInv
  OBVIOUS
<1>1. \A i \in DP!Slot : tasks[i] = None
  BY DEF DP!Init
<1>2. DP!TypeOK
  <2>1. /\ placed \in [Doc -> SUBSET Node] /\ early \in BOOLEAN
        /\ failed \in BOOLEAN /\ together \in BOOLEAN /\ left \in BOOLEAN
    BY DEF DP!Init
  <2> QED
    BY <1>1, <2>1 DEF DP!Init, DP!TypeOK
<1>3. Handlers
  BY DEF DP!Init, Handlers
<1>4. ListKept
  <2>1. \A v \in View : fetching[v] = IF v = view THEN Asked ELSE None
    BY DEF DP!Init
  <2> QED
    BY <1>2, <2>1 DEF DP!TypeOK, ListKept, DP!PlacesAssumption
<1>5. PlacesKept
  <2>1. placed \in [Doc -> (SUBSET Node) \ {{}}]
    BY DEF DP!Init
  <2>2. \A d \in Doc : placed[d] # {}
    BY <2>1
  <2> QED
    BY <1>1, <2>2 DEF PlacesKept, OneHandler
<1> QED
  BY <1>2, <1>3, <1>4, <1>5 DEF PlacesInv

LEMMA Listing == ASSUME DP!TypeOK, DP!PlacesAssumption, NEW v \in View PROVE DP!Listed(v) \in SUBSET Doc
BY DEF DP!TypeOK, DP!Listed, DP!Filtered, DP!PlacesAssumption

(* Nothing that only concerns the list touches documents and handlers.     *)
LEMMA PlacesStand ==
    ASSUME PlacesKept, UNCHANGED <<DP!server, tasks, together>>, failed => failed'
    PROVE  PlacesKept'
BY DEF PlacesKept, OneHandler, Known, DP!server

LEMMA NextQuery ==
    ASSUME DP!PlacesAssumption, PlacesInv, DP!Fetches \/ \E v \in View : DP!SelectView(v) PROVE PlacesInv'
<1> USE DEF PlacesInv
<1>1. UNCHANGED <<DP!server, tasks, together>> /\ Handlers'
  BY DEF DP!Fetches, DP!FetchRead, DP!FetchAnswer, DP!FetchFails, DP!SelectView, Handlers, DP!history
<1>2. (Moving' <=> Moving) /\ \A v \in View : DP!Listed(v)' = DP!Listed(v)
  BY <1>1 DEF Moving, DP!At, DP!Listed, DP!Filtered, DP!server
<1>3. view \in View /\ data \in [View -> {None} \cup SUBSET Doc]
      /\ fetching \in [View -> {None, Asked} \cup SUBSET Doc]
  BY DEF DP!TypeOK
<1>4. ASSUME NEW v \in View, DP!SelectView(v) PROVE PlacesInv'
  <2>1. /\ view' = v /\ v # view /\ data' = data /\ failed' = failed
        /\ fetching' = [fetching EXCEPT ![v] = IF @ = None THEN Asked ELSE @]
        /\ left' = (left \/ fetching[view] # None) /\ early' = FALSE
    BY <1>4 DEF DP!SelectView, DP!ShowView
  <2>2. DP!TypeOK'
    BY <1>1, <1>3, <2>1 DEF DP!TypeOK, DP!server
  <2>3. ListKept'
    BY <1>3, <2>1 DEF ListKept, DP!PlacesAssumption
  <2>4. PlacesKept'
    BY <1>1, <2>1, PlacesStand
  <2> QED
    BY <1>1, <2>2, <2>3, <2>4
<1>5. ASSUME NEW v \in View, DP!FetchRead(v) PROVE PlacesInv'
  <2>1. /\ fetching[v] = Asked /\ fetching' = [fetching EXCEPT ![v] = DP!Listed(v)]
        /\ UNCHANGED <<view, data, early, failed, left>>
    BY <1>5 DEF DP!FetchRead, DP!history
  <2>2. DP!Listed(v) \in SUBSET Doc
    BY Listing
  <2>3. DP!TypeOK'
    BY <1>1, <1>3, <2>1, <2>2 DEF DP!TypeOK, DP!server
  <2>4. ListKept'
    <3>1. \A w \in View : fetching'[w] = IF w = v THEN DP!Listed(v) ELSE fetching[w]
      BY <1>3, <2>1
    <3>2. DP!Listed(v) # None /\ Asked # None
      BY <2>2 DEF DP!PlacesAssumption
    <3>3. CASE v = view
      BY <1>2, <1>3, <2>1, <3>1, <3>2, <3>3 DEF ListKept
    <3>4. CASE v # view
      BY <1>2, <1>3, <2>1, <3>1, <3>2, <3>4 DEF ListKept
    <3> QED
      BY <3>3, <3>4
  <2>5. PlacesKept'
    BY <1>1, <2>1, PlacesStand
  <2> QED
    BY <1>1, <2>3, <2>4, <2>5
<1>6. ASSUME NEW v \in View, DP!FetchAnswer(v) PROVE PlacesInv'
  <2>1. /\ fetching[v] \notin {None, Asked}
        /\ data' = [data EXCEPT ![v] = fetching[v]] /\ fetching' = [fetching EXCEPT ![v] = None]
        /\ UNCHANGED <<view, early, failed, left>>
    BY <1>6 DEF DP!FetchAnswer, DP!history
  <2>2. DP!TypeOK'
    BY <1>1, <1>3, <2>1 DEF DP!TypeOK, DP!server
  <2>3. ListKept'
    <3>1. \A w \in View : fetching'[w] = IF w = v THEN None ELSE fetching[w]
      BY <1>3, <2>1
    <3>2. data'[v] = fetching[v]
      BY <1>3, <2>1
    <3> QED
      BY <1>2, <1>3, <2>1, <3>1, <3>2 DEF ListKept
  <2>4. PlacesKept'
    BY <1>1, <2>1, PlacesStand
  <2> QED
    BY <1>1, <2>2, <2>3, <2>4
<1>7. ASSUME NEW v \in View, DP!FetchFails(v) PROVE PlacesInv'
  <2>1. /\ failed' = TRUE /\ fetching' = [fetching EXCEPT ![v] = None]
        /\ UNCHANGED <<view, data, early, left>>
    BY <1>7 DEF DP!FetchFails
  <2>2. DP!TypeOK'
    BY <1>1, <1>3, <2>1 DEF DP!TypeOK, DP!server
  <2> QED
    BY <1>1, <2>1, <2>2, FailedKept
<1> QED
  BY <1>4, <1>5, <1>6, <1>7 DEF DP!Fetches

-----------------------------------------------------------------------------
(* Handlers                                                                *)

(* A handler with some of its fields changed.                              *)
LEMMA Going ==
    ASSUME DP!TypeOK, NEW i \in DP!Slot, tasks[i] # None, NEW st \in DP!Steps, DP!Goto(i, st)
    PROVE  \E x \in DP!TaskSet : /\ tasks' = [tasks EXCEPT ![i] = x] /\ x.step = st
                                 /\ x.doc = tasks[i].doc /\ x.node = tasks[i].node
                                 /\ x.seen = tasks[i].seen /\ x.todo = tasks[i].todo
<1> DEFINE x == [tasks[i] EXCEPT !.step = st]
<1>1. /\ x \in DP!TaskSet /\ x.step = st /\ x.doc = tasks[i].doc /\ x.node = tasks[i].node
      /\ x.seen = tasks[i].seen /\ x.todo = tasks[i].todo
  BY Current DEF DP!TaskSet
<1>2. tasks' = [tasks EXCEPT ![i] = x]
  BY DEF DP!Goto
<1> QED
  BY <1>1, <1>2

Sort(i, st, todo) == tasks' = [tasks EXCEPT ![i].todo = todo, ![i].step = st]

LEMMA Sorting ==
    ASSUME DP!TypeOK, NEW i \in DP!Slot, tasks[i] # None, NEW st \in DP!Steps, NEW todo \in SUBSET Node,
           Sort(i, st, todo)
    PROVE  \E x \in DP!TaskSet : /\ tasks' = [tasks EXCEPT ![i] = x] /\ x.step = st
                                 /\ x.doc = tasks[i].doc /\ x.node = tasks[i].node
                                 /\ x.seen = tasks[i].seen /\ x.todo = todo
<1> DEFINE y == [tasks[i] EXCEPT !.todo = todo]
           x == [y EXCEPT !.step = st]
<1>1. /\ y \in DP!TaskSet /\ y.step = tasks[i].step /\ y.doc = tasks[i].doc /\ y.node = tasks[i].node
      /\ y.seen = tasks[i].seen /\ y.todo = todo
  BY Current DEF DP!TaskSet
<1>2. tasks' = [tasks EXCEPT ![i] = x]
  BY DEF Sort
<1> HIDE DEF y
<1>3. /\ x \in DP!TaskSet /\ x.step = st /\ x.doc = y.doc /\ x.node = y.node
      /\ x.seen = y.seen /\ x.todo = todo
  BY <1>1 DEF DP!TaskSet
<1> QED
  BY <1>1, <1>2, <1>3

(* A handler that changes nothing but itself, and was not moving.          *)
LEMMA QuietStep ==
    ASSUME DP!PlacesAssumption, PlacesInv, UNCHANGED <<DP!server, DP!query, DP!history>>,
           NEW i \in DP!Slot, tasks[i] # None, tasks[i].step \notin {"moveOut", "moveIn"},
           NEW x \in DP!TaskSet \cup {None}, tasks' = [tasks EXCEPT ![i] = x],
           x # None => x.doc = tasks[i].doc,
           x # None /\ Known(tasks[i]) => Known(x)'
    PROVE  PlacesInv'
<1> USE DEF PlacesInv
<1>1. Handlers' /\ \A j \in DP!Slot \ {i} : tasks'[j] = tasks[j]
  BY Updated
<1>2. DP!TypeOK'
  BY <1>1, Typed DEF DP!TypeOK, DP!server, DP!query, DP!history
<1>3. Moving => Moving'
  BY <1>1 DEF Moving, DP!At
<1>4. ListKept'
  BY <1>3, ListStands DEF DP!history
<1>5. PlacesKept'
  BY PlacesStep DEF DP!server, DP!history, Known
<1> QED
  BY <1>1, <1>2, <1>4, <1>5

(* A handler that ends by having the list asked again.                     *)
LEMMA LastStep ==
    ASSUME DP!PlacesAssumption, PlacesInv, NEW i \in DP!Slot, tasks[i] # None,
           tasks' = [tasks EXCEPT ![i] = None], DP!InvalidateQueries, UNCHANGED DP!history,
           placed' \in [Doc -> SUBSET Node], binned' \subseteq Doc, purged' \subseteq Doc,
           purged \subseteq purged',
           \A d \in Doc \ {tasks[i].doc} : placed'[d] = placed[d],
           Known(tasks[i]) => placed'[tasks[i].doc] # {} \/ tasks[i].doc \in purged'
    PROVE  PlacesInv'
<1> USE DEF PlacesInv
<1>1. Handlers'
  BY Updated
<1>2. ListKept' /\ early' \in BOOLEAN /\ fetching' \in [View -> {None, Asked} \cup SUBSET Doc]
  BY ListAsked DEF DP!history
<1>3. DP!TypeOK'
  BY <1>1, <1>2, Typed DEF DP!TypeOK, DP!history, DP!InvalidateQueries
<1>4. PlacesKept'
  BY PlacesStep DEF DP!history
<1> QED
  BY <1>1, <1>2, <1>3, <1>4

LEMMA NextBegin ==
    ASSUME DP!PlacesAssumption, PlacesInv, NEW d \in Doc, NEW n \in Node,
           NEW st \in DP!Steps, st \notin {"moveOut", "moveIn", "askDelete", "unbindHere", "askDrop"},
           DP!Begin(DP!Task(st, d, n))
    PROVE  PlacesInv'
<1> USE DEF PlacesInv
<1> DEFINE t == DP!Task(st, d, n)
<1>1. t \in DP!TaskSet /\ t.doc = d /\ t.step = st
  BY DEF DP!Task, DP!TaskSet
<1> HIDE DEF t
<1>2. PICK i \in DP!Slot : tasks[i] = None /\ tasks' = [tasks EXCEPT ![i] = t]
  BY DEF DP!Begin, t
<1>3. /\ UNCHANGED <<DP!server, DP!query, failed, left>>
      /\ together' = (together \/ \E j \in DP!Slot : tasks[j] # None)
  BY DEF DP!Begin
<1>4. Handlers' /\ tasks'[i] = t /\ \A j \in DP!Slot \ {i} : tasks'[j] = tasks[j]
  BY <1>1, <1>2, Updated
<1>5. DP!TypeOK'
  <2>1. together' \in BOOLEAN
    BY <1>3
  <2> QED
    BY <1>3, <1>4, <2>1, Typed DEF DP!TypeOK, DP!server, DP!query
<1>6. ListKept'
  <2>1. Moving => Moving'
    BY <1>2, <1>4 DEF Moving, DP!At
  <2> QED
    BY <1>3, <2>1, ListStands
<1>7. PlacesKept'
  <2> SUFFICES ASSUME ~failed', ~together' PROVE PlacesKept'
    BY DEF PlacesKept
  <2>1. /\ ~failed /\ ~together /\ \A j \in DP!Slot : tasks[j] = None
        /\ placed' = placed /\ purged' = purged
    BY <1>3 DEF DP!server
  <2>2. \A e \in Doc : placed[e] = {} => e \in purged
    BY <2>1 DEF PlacesKept
  <2>3. OneHandler' /\ \A j \in DP!Slot : tasks'[j] # None => j = i
    BY <1>4, <2>1 DEF OneHandler
  <2>4. d \in purged \/ placed[d] # {}
    BY <2>2
  <2>5. \A j \in DP!Slot : tasks'[j] # None => (tasks[j].doc \in purged \/ Known(tasks[j]))'
    BY <1>1, <1>4, <2>1, <2>3, <2>4 DEF Known
  <2> QED
    BY <2>1, <2>2, <2>3, <2>5 DEF PlacesKept
<1> QED
  BY <1>4, <1>5, <1>6, <1>7

(* The dialogs of a handler.                                               *)
LEMMA NextDialog ==
    ASSUME DP!PlacesAssumption, PlacesInv, NEW i \in DP!Slot,
           DP!CheckDelete(i) \/ DP!AnswerDelete(i) \/ DP!CheckDrop(i) \/ DP!CopyToTarget(i)
             \/ DP!MoveToTarget(i) \/ DP!CloseModal(i)
    PROVE  PlacesInv'
<1> USE DEF PlacesInv
<1> DEFINE t == tasks[i]
<1>1. UNCHANGED <<DP!server, DP!query, DP!history>> /\ placed' = placed
      /\ t # None /\ t.step \in {"checkDelete", "askDelete", "checkDrop", "askDrop"}
  BY DEF DP!CheckDelete, DP!AnswerDelete, DP!CheckDrop, DP!CopyToTarget, DP!MoveToTarget,
         DP!CloseModal, DP!At, DP!server
<1>2. t \in DP!TaskSet /\ t.doc \in Doc /\ t.node \in Node /\ t.seen \subseteq Node
      /\ placed[t.doc] \subseteq Node
  BY <1>1, Current DEF DP!TypeOK
<1>3. CASE tasks' = [tasks EXCEPT ![i] = None]
  BY <1>1, <1>3, QuietStep
<1>4. CASE DP!CheckDelete(i)
  <2>1. PICK st \in {"askDelete", "delete"} :
           DP!Goto(i, st) /\ (st = "askDelete" => Cardinality(placed[t.doc]) > 1) /\ t.step = "checkDelete"
    BY <1>4, CardinalityIs DEF DP!CheckDelete, DP!At
  <2>2. PICK x \in DP!TaskSet : tasks' = [tasks EXCEPT ![i] = x] /\ x.step = st /\ x.doc = t.doc
    BY <1>1, <2>1, Going DEF DP!Steps, DP!Dialogs
  <2>3. Known(t) => Known(x)'
    BY <1>1, <2>1, <2>2 DEF Known
  <2> QED
    BY <1>1, <2>2, <2>3, QuietStep
<1>5. CASE DP!AnswerDelete(i)
  <2>1. PICK st \in {"unbindHere", "delete"} : DP!Goto(i, st) /\ t.step = "askDelete"
    BY <1>5 DEF DP!AnswerDelete, DP!At
  <2>2. PICK x \in DP!TaskSet : tasks' = [tasks EXCEPT ![i] = x] /\ x.step = st
                             /\ x.doc = t.doc /\ x.node = t.node
    BY <1>1, <2>1, Going DEF DP!Steps, DP!Dialogs
  <2>3. Cardinality(placed[t.doc]) > 1 => placed[t.doc] \ {t.node} # {}
    <3>1. placed[t.doc] \ {t.node} = {} => placed[t.doc] = {} \/ placed[t.doc] = {t.node}
      OBVIOUS
    <3>2. Cardinality({}) = 0
      BY FS_EmptySet
    <3>3. Cardinality({t.node}) = 1
      BY FS_Singleton
    <3> HIDE DEF t
    <3> QED
      BY <3>1, <3>2, <3>3
  <2>4. Known(t) => Known(x)'
    BY <1>1, <2>1, <2>2, <2>3 DEF Known
  <2> QED
    BY <1>1, <2>2, <2>4, QuietStep
<1>6. CASE DP!CheckDrop(i) /\ tasks' # [tasks EXCEPT ![i] = None]
  <2>1. /\ tasks' = [tasks EXCEPT ![i].step = "askDrop", ![i].seen = placed[t.doc]]
        /\ t.step = "checkDrop"
    BY <1>6 DEF DP!CheckDrop, DP!At
  <2>2. PICK x \in DP!TaskSet : /\ tasks' = [tasks EXCEPT ![i] = x] /\ x.step = "askDrop"
                                /\ x.doc = t.doc /\ x.seen = placed[t.doc]
    <3> DEFINE y == [t EXCEPT !.step = "askDrop"]
               z == [y EXCEPT !.seen = placed[t.doc]]
    <3>1. tasks' = [tasks EXCEPT ![i] = z]
      BY <2>1
    <3>2. y \in DP!TaskSet /\ y.step = "askDrop" /\ y.doc = t.doc
      BY <1>2 DEF DP!TaskSet, DP!Steps, DP!Dialogs
    <3> HIDE DEF y
    <3>3. z \in DP!TaskSet /\ z.step = "askDrop" /\ z.doc = t.doc /\ z.seen = placed[t.doc]
      BY <1>2, <3>2 DEF DP!TaskSet
    <3> QED
      BY <3>1, <3>3
  <2>3. Known(t) => Known(x)'
    BY <1>1, <2>1, <2>2 DEF Known
  <2> QED
    BY <1>1, <2>1, <2>2, <2>3, QuietStep
<1>7. CASE DP!CopyToTarget(i) /\ tasks' # [tasks EXCEPT ![i] = None]
  <2>1. DP!Goto(i, "copy") /\ t.step = "askDrop"
    BY <1>7 DEF DP!CopyToTarget, DP!At
  <2>2. PICK x \in DP!TaskSet : tasks' = [tasks EXCEPT ![i] = x] /\ x.step = "copy" /\ x.doc = t.doc
    BY <1>1, <2>1, Going DEF DP!Steps
  <2>3. Known(t) => Known(x)'
    BY <1>1, <2>1, <2>2 DEF Known
  <2> QED
    BY <1>1, <2>2, <2>3, QuietStep
<1>8. CASE DP!MoveToTarget(i)
  <2>1. PICK st \in {"moveIn", "moveOut"} :
           tasks' = [tasks EXCEPT ![i].todo = t.seen \ {t.node}, ![i].step = st]
    BY <1>8 DEF DP!MoveToTarget
  <2>2. PICK x \in DP!TaskSet : tasks' = [tasks EXCEPT ![i] = x] /\ x.step = st /\ x.doc = t.doc
                             /\ x.node = t.node /\ x.seen = t.seen /\ x.todo = t.seen \ {t.node}
    <3>1. st \in DP!Steps
      BY DEF DP!Steps
    <3>2. PICK todo \in SUBSET Node : todo = t.seen \ {t.node}
      BY <1>2
    <3>3. Sort(i, st, todo)
      BY <2>1, <3>2 DEF Sort
    <3> HIDE DEF t
    <3> QED
      BY <1>1, <3>1, <3>2, <3>3, Sorting DEF t
  <2>3. Known(t) => Known(x)'
    BY <1>1, <1>8, <2>1, <2>2 DEF Known, DP!MoveToTarget, DP!At
  <2> QED
    BY <1>1, <2>2, <2>3, QuietStep
<1> QED
  BY <1>3, <1>4, <1>5, <1>6, <1>7, <1>8 DEF DP!CloseModal

(* Out of one more node.                                                   *)
LEMMA NextMoveOut ==
    ASSUME DP!PlacesAssumption, PlacesInv, NEW i \in DP!Slot, DP!MoveOutAnswer(i) PROVE PlacesInv'
<1> USE DEF PlacesInv
<1> DEFINE t == tasks[i]
<1>1. /\ t # None /\ t.step = "moveOut" /\ UNCHANGED DP!history
      /\ UNCHANGED <<failed, together, left>>
  BY DEF DP!MoveOutAnswer, DP!At, DP!history
<1>2. PICK n \in t.todo :
        /\ DP!UnbindDocument(t.doc, n)
        /\ IF t.todo = {n} /\ t.node \in t.seen
             THEN tasks' = [tasks EXCEPT ![i] = None] /\ DP!InvalidateQueries
             ELSE /\ tasks' = [tasks EXCEPT ![i].todo = @ \ {n},
                                            ![i].step = IF t.todo = {n} THEN "moveIn" ELSE @]
                  /\ UNCHANGED DP!query
  BY DEF DP!MoveOutAnswer
<1>3. /\ t \in DP!TaskSet /\ t.doc \in Doc /\ t.node \in Node
      /\ t.seen \subseteq Node /\ t.todo \subseteq Node
  BY <1>1, Current
<1>4. /\ placed' = [placed EXCEPT ![t.doc] = @ \ {n}] /\ binned' = binned /\ purged' = purged
      /\ placed \in [Doc -> SUBSET Node] /\ binned \subseteq Doc /\ purged \subseteq Doc
  BY <1>2 DEF DP!UnbindDocument, DP!TypeOK
<1>5. /\ placed' \in [Doc -> SUBSET Node] /\ placed'[t.doc] = placed[t.doc] \ {n}
      /\ \A d \in Doc \ {t.doc} : placed'[d] = placed[d]
  BY <1>3, <1>4
<1>6. CASE t.todo = {n} /\ t.node \in t.seen
  <2>1. Known(t) => placed'[t.doc] # {}
    BY <1>1, <1>5, <1>6 DEF Known
  <2> QED
    BY <1>1, <1>2, <1>4, <1>5, <1>6, <2>1, LastStep
<1>7. CASE ~(t.todo = {n} /\ t.node \in t.seen)
  <2>1. PICK st \in DP!Steps : st = IF t.todo = {n} THEN "moveIn" ELSE "moveOut"
    BY DEF DP!Steps
  <2>2. PICK todo \in SUBSET Node : todo = t.todo \ {n}
    BY <1>3
  <2>3. Sort(i, st, todo) /\ UNCHANGED DP!query
    BY <1>1, <1>2, <1>7, <2>1, <2>2 DEF Sort
  <2> HIDE DEF t
  <2>4. PICK x \in DP!TaskSet : /\ tasks' = [tasks EXCEPT ![i] = x] /\ x.step = st /\ x.doc = t.doc
                                /\ x.node = t.node /\ x.seen = t.seen /\ x.todo = todo
    BY <1>1, <2>3, Sorting DEF t
  <2>5. Handlers' /\ tasks'[i] = x
    BY <2>4, Updated
  <2>6. DP!TypeOK'
    BY <1>1, <1>4, <1>5, <2>3, <2>5, Typed DEF DP!TypeOK, DP!query
  <2>7. ListKept'
    <3>1. x # None
      BY DEF DP!PlacesAssumption
    <3>2. Moving'
      BY <2>1, <2>4, <2>5, <3>1 DEF Moving, DP!At
    <3> QED
      BY <1>1, <2>3, <3>2, ListStands DEF DP!query
  <2>8. PlacesKept'
    <3>1. Known(t) => Known(x)'
      BY <1>1, <1>5, <2>1, <2>2, <2>4 DEF Known
    <3>2. x # None
      BY DEF DP!PlacesAssumption
    <3> QED
      BY <1>1, <1>4, <1>5, <2>4, <3>1, <3>2, PlacesStep DEF t
  <2> QED
    BY <2>5, <2>6, <2>7, <2>8
<1> QED
  BY <1>6, <1>7

(* What a call does to the document it is about, and to no other.          *)
LEMMA CallTypes ==
    ASSUME DP!TypeOK, NEW i \in DP!Slot, tasks[i] # None,
           \/ DP!Call(i) \/ UNCHANGED DP!server
           \/ \E n \in tasks[i].todo : DP!UnbindDocument(tasks[i].doc, n)
    PROVE  /\ placed' \in [Doc -> SUBSET Node] /\ binned' \subseteq Doc /\ purged' \subseteq Doc
           /\ purged \subseteq purged'
           /\ \A d \in Doc \ {tasks[i].doc} : placed'[d] = placed[d]
<1> DEFINE t == tasks[i]
<1>1. /\ t.doc \in Doc /\ t.node \in Node
      /\ placed \in [Doc -> SUBSET Node] /\ binned \subseteq Doc /\ purged \subseteq Doc
  BY Current DEF DP!TypeOK
<1>2. CASE \E n \in Node : DP!BindDocument(t.doc, n)
  BY <1>1, <1>2 DEF DP!BindDocument
<1>3. CASE \E n : DP!UnbindDocument(t.doc, n)
  BY <1>1, <1>3 DEF DP!UnbindDocument
<1>4. CASE DP!DeleteDocument(t.doc)
  BY <1>1, <1>4 DEF DP!DeleteDocument
<1>5. CASE /\ binned' = binned \ {t.doc} /\ placed' = placed
           /\ purged' = purged \/ purged' = purged \cup {t.doc}
  BY <1>1, <1>5
<1>6. CASE UNCHANGED DP!server
  BY <1>1, <1>6 DEF DP!server
<1> QED
  BY <1>1, <1>2, <1>3, <1>4, <1>5, <1>6 DEF DP!Call

LEMMA NextCall ==
    ASSUME DP!PlacesAssumption, PlacesInv, NEW i \in DP!Slot, DP!CallAnswer(i) PROVE PlacesInv'
<1> USE DEF PlacesInv
<1> DEFINE t == tasks[i]
<1>1. /\ t # None /\ DP!Call(i) /\ tasks' = [tasks EXCEPT ![i] = None] /\ DP!InvalidateQueries
      /\ UNCHANGED DP!history
  BY DEF DP!CallAnswer
<1>2. /\ placed' \in [Doc -> SUBSET Node] /\ binned' \subseteq Doc /\ purged' \subseteq Doc
      /\ purged \subseteq purged'
      /\ \A d \in Doc \ {t.doc} : placed'[d] = placed[d]
  BY <1>1, CallTypes
<1>3. Known(t) => placed'[t.doc] # {} \/ t.doc \in purged'
  <2>1. t.doc \in Doc /\ placed \in [Doc -> SUBSET Node]
    BY <1>1, Current DEF DP!TypeOK
  <2>2. CASE t.step = "unbindHere" /\ DP!UnbindDocument(t.doc, t.node)
    BY <2>1, <2>2 DEF DP!UnbindDocument, Known
  <2>3. CASE t.step \in {"copy", "moveIn"} /\ DP!BindDocument(t.doc, t.node)
    BY <2>1, <2>3 DEF DP!BindDocument
  <2>4. CASE t.step \in {"delete", "restore", "purge"} /\ placed' = placed
    BY <2>4 DEF Known
  <2> QED
    BY <1>1, <2>2, <2>3, <2>4 DEF DP!Call, DP!DeleteDocument
<1> HIDE DEF t
<1> QED
  BY <1>1, <1>2, <1>3, LastStep DEF t

LEMMA NextFail ==
    ASSUME DP!PlacesAssumption, PlacesInv, NEW i \in DP!Slot, DP!CallFails(i) PROVE PlacesInv'
<1> USE DEF PlacesInv
<1>1. /\ tasks[i] # None /\ tasks' = [tasks EXCEPT ![i] = None] /\ failed' = TRUE
      /\ UNCHANGED <<DP!query, together, left>>
  BY DEF DP!CallFails
<1>2. /\ placed' \in [Doc -> SUBSET Node] /\ binned' \subseteq Doc /\ purged' \subseteq Doc
  BY <1>1, CallTypes DEF DP!CallFails
<1>3. Handlers'
  BY <1>1, Updated
<1>4. DP!TypeOK'
  BY <1>1, <1>2, <1>3, Typed DEF DP!TypeOK, DP!query
<1> QED
  BY <1>1, <1>3, <1>4, FailedKept

LEMMA NextPlaces == ASSUME DP!PlacesAssumption, PlacesInv, (DP!Next \/ UNCHANGED DP!vars) PROVE PlacesInv'
<1>1. CASE UNCHANGED DP!vars
  <2>1. UNCHANGED <<DP!server, DP!query, tasks, DP!history>> /\ UNCHANGED <<failed, together, left>>
    BY <1>1 DEF DP!vars, DP!history
  <2>2. DP!TypeOK' /\ Handlers'
    BY <2>1 DEF PlacesInv, DP!TypeOK, Handlers, DP!server, DP!query
  <2>3. ListKept'
    BY <2>1, ListStands DEF PlacesInv, Moving, DP!At
  <2>4. PlacesKept'
    BY <2>1, PlacesStand DEF PlacesInv
  <2> QED
    BY <2>2, <2>3, <2>4 DEF PlacesInv
<1>2. CASE DP!User
  <2>1. ASSUME NEW v \in View, DP!SelectView(v) PROVE PlacesInv'
    BY <2>1, NextQuery
  <2>2. NodeOf[view] \in Node
    BY DEF PlacesInv, DP!TypeOK, DP!PlacesAssumption
  <2>3. ASSUME NEW d \in Doc, DP!HandleSoftDeleteDocument(d) PROVE PlacesInv'
    BY <2>2, <2>3, NextBegin DEF DP!HandleSoftDeleteDocument, DP!Steps
  <2>4. ASSUME NEW d \in Doc, DP!RestoreDocument(d) PROVE PlacesInv'
    BY <2>2, <2>4, NextBegin DEF DP!RestoreDocument, DP!Steps
  <2>5. ASSUME NEW d \in Doc, DP!PurgeDocument(d) PROVE PlacesInv'
    BY <2>2, <2>5, NextBegin DEF DP!PurgeDocument, DP!Steps
  <2>6. ASSUME NEW d \in Doc, NEW n \in Node, DP!HandleDropOnNode(d, n) PROVE PlacesInv'
    BY <2>6, NextBegin DEF DP!HandleDropOnNode, DP!Draggable, DP!Steps
  <2> QED
    BY <1>2, <2>1, <2>3, <2>4, <2>5, <2>6 DEF DP!User
<1>3. CASE DP!Choices
  BY <1>3, NextDialog DEF DP!Choices
<1>4. CASE DP!Answers
  BY <1>4, NextDialog, NextMoveOut, NextCall, NextFail DEF DP!Answers
<1>5. CASE DP!Fetches
  BY <1>5, NextQuery
<1> QED
  BY <1>1, <1>2, <1>3, <1>4, <1>5 DEF DP!Next

-----------------------------------------------------------------------------
(* The drawer with the versions                                            *)

(* The drawer is open for the document in the key, and what is restored is *)
(* restored into the document it is a version of.                          *)
SameDocument == /\ documentHistoryState # None => documentHistoryDocId = documentHistoryState
                /\ documentHistoryState = None => documentHistoryDocId = None
                /\ restored \in Nat
                /\ \A r \in restores : r.doc = r.row.doc

(* No answer counts more versions than there are.                          *)
Grown == \A k \in DH!QueryKeys : /\ Len(versions[k[1]]) \in 1..MaxVersions
                                 /\ answers[k] # None => answers[k] <= Len(versions[k[1]])
                                 /\ asking[k] \notin {None, Asked} => asking[k] <= Len(versions[k[1]])

(* Only the list that is shown is asked for.                               *)
OnlyShown == ~troubled => \A k \in DH!QueryKeys : k # DH!QueryKey => asking[k] = None

(* The page that is shown has versions.                                    *)
PageThere == documentHistoryState # None =>
                DH!OnPage(Len(versions[documentHistoryState]), historyPage) # {}

(* The preview is of a row.                                                *)
RowChosen == documentHistoryState # None /\ DH!Rows # {} => selectedVersion \in DH!Rows

(* The versions there are are listed, or their list comes.                 *)
VersionsComing ==
    /\ documentHistoryState # None /\ ~troubled /\ ~outdated
    /\ \A r \in restores : r.stored => r.doc # documentHistoryDocId
    => \/ asking[DH!QueryKey] \in {Asked, Len(versions[documentHistoryState])}
       \/ asking[DH!QueryKey] = None /\ answers[DH!QueryKey] = Len(versions[documentHistoryState])

DrawerInv == /\ DH!TypeOK /\ SameDocument /\ Grown /\ OnlyShown /\ PageThere /\ RowChosen
             /\ VersionsComing

-----------------------------------------------------------------------------
LEMMA DrawerFacts ==
    /\ None # Asked /\ None \notin Versioned /\ None \notin Nat /\ Asked \notin Nat
    /\ None \notin [doc : Versioned, n : Nat]
    /\ PageSize \in Nat \ {0} /\ MaxVersions \in Nat /\ MaxVersions >= 2
BY Assumptions DEF DH!HistoryAssumption

LEMMA Least ==
    ASSUME NEW T \in SUBSET Nat, T # {}
    PROVE  \E x \in T : \A y \in T : x <= y
<1>1. PICK x \in T : \A y \in T : ~(<<y, x>> \in OpToRel(<, Nat))
  BY NatLessThanWellFounded, WFMin, Zenon
<1>2. \A y \in T : ~(y < x)
  BY <1>1 DEF OpToRel
<1> QED
  BY <1>2

LEMMA Greatest ==
    ASSUME NEW c \in Nat, NEW S \in SUBSET (1..c), S # {}
    PROVE  \E m \in S : \A n \in S : n <= m
<1> DEFINE T == {c - s : s \in S}
<1>1. T \subseteq Nat /\ T # {}
  <2>1. \A s \in S : c - s \in Nat
    OBVIOUS
  <2> QED
    BY <2>1
<1> HIDE DEF T
<1>2. PICK x \in T : \A y \in T : x <= y
  BY <1>1, Least
<1>3. PICK m \in S : x = c - m
  BY DEF T
<1>4. ASSUME NEW n \in S PROVE n <= m
  <2>1. c - n \in T
    BY DEF T
  <2> QED
    BY <1>2, <1>3, <2>1
<1> QED
  BY <1>4

LEMMA PagesFacts == 1 \in DH!Pages /\ DH!Pages \subseteq Nat
<1>1. (MaxVersions - 1) \div PageSize \in Nat
  BY DrawerFacts
<1> QED
  BY <1>1 DEF DH!Pages

LEMMA OnPageIn == ASSUME NEW c, NEW p PROVE DH!OnPage(c, p) \subseteq 1..c
BY DEF DH!OnPage

(* The first page has the newest version, and no page loses its rows when  *)
(* versions are added.                                                     *)
LEMMA FirstPage == ASSUME NEW c \in Nat \ {0} PROVE DH!OnPage(c, 1) # {}
<1>1. c \in 1..c /\ (c - c) \div PageSize = 1 - 1
  BY DrawerFacts
<1> QED
  BY <1>1 DEF DH!OnPage

LEMMA PageGrows ==
    ASSUME NEW c \in Nat, NEW d \in Nat, c <= d, NEW p, DH!OnPage(c, p) # {}
    PROVE  DH!OnPage(d, p) # {}
<1>1. PICK n \in 1..c : (c - n) \div PageSize = p - 1
  BY DEF DH!OnPage
<1>2. n + (d - c) \in 1..d /\ d - (n + (d - c)) = c - n
  OBVIOUS
<1> QED
  BY <1>1, <1>2 DEF DH!OnPage

LEMMA NewestIn ==
    ASSUME NEW d, NEW c \in Nat, NEW S \in SUBSET (1..c), S # {}
    PROVE  DH!Newest({[doc |-> d, n |-> n] : n \in S}) \in {[doc |-> d, n |-> n] : n \in S}
<1> DEFINE R == {[doc |-> d, n |-> n] : n \in S}
<1>1. PICK m \in S : \A n \in S : n <= m
  BY Greatest
<1>2. [doc |-> d, n |-> m] \in R /\ \A s \in R : s.n <= m
  BY <1>1
<1>3. \E r \in R : \A s \in R : s.n <= r.n
  BY <1>2
<1> QED
  BY <1>3 DEF DH!Newest

(* The rows are versions of the document in the key.                       *)
RowsOf(c, p, d) == {[doc |-> d, n |-> n] : n \in DH!OnPage(c, p)}

KeyOK == /\ documentHistoryDocId \in Versioned \cup {None} /\ historyPage \in DH!Pages
         /\ answers \in [DH!QueryKeys -> {None} \cup 1..MaxVersions]

LEMMA QueryKeyIn ==
    ASSUME documentHistoryDocId \in Versioned \cup {None}, historyPage \in DH!Pages
    PROVE  /\ DH!QueryKey \in DH!QueryKeys <=> documentHistoryDocId # None
           /\ DH!QueryKey[1] = documentHistoryDocId
BY DrawerFacts DEF DH!QueryKey, DH!QueryKeys

LEMMA RowsAre ==
    ASSUME KeyOK
    PROVE  DH!Rows = IF documentHistoryDocId = None \/ answers[DH!QueryKey] = None THEN {}
                  ELSE RowsOf(answers[DH!QueryKey], historyPage, documentHistoryDocId)
<1>1. DH!QueryKey \in DH!QueryKeys <=> documentHistoryDocId # None
  BY DrawerFacts DEF KeyOK, DH!QueryKey, DH!QueryKeys
<1>2. DH!QueryKey[1] = documentHistoryDocId
  BY DEF DH!QueryKey
<1> QED
  BY <1>1, <1>2 DEF DH!Rows, RowsOf

LEMMA RowsOfType ==
    ASSUME NEW c \in 1..MaxVersions, NEW p, NEW d \in Versioned
    PROVE  /\ \A r \in RowsOf(c, p, d) : /\ r \in DH!Versions /\ r.doc = d
                                         /\ r.n \in 1..c /\ r = [doc |-> d, n |-> r.n]
           /\ RowsOf(c, p, d) # {} <=> DH!OnPage(c, p) # {}
           /\ RowsOf(c, p, d) # {} => DH!Newest(RowsOf(c, p, d)) \in RowsOf(c, p, d)
<1>1. DH!OnPage(c, p) \subseteq 1..c
  BY OnPageIn
<1>2. DH!OnPage(c, p) # {} => DH!Newest(RowsOf(c, p, d)) \in RowsOf(c, p, d)
  <2>1. c \in Nat /\ DH!OnPage(c, p) \in SUBSET (1..c)
    BY <1>1
  <2> QED
    BY <2>1, NewestIn, Zenon DEF RowsOf
<1>a. \A n \in 1..c : n \in 1..MaxVersions
  BY DrawerFacts
<1>3. \A r \in RowsOf(c, p, d) : r \in DH!Versions /\ r.doc = d /\ r.n \in 1..c /\ r = [doc |-> d, n |-> r.n]
  BY <1>1, <1>a DEF RowsOf, DH!Versions
<1> QED
  BY <1>2, <1>3 DEF RowsOf

LEMMA RowsType ==
    ASSUME KeyOK
    PROVE  /\ \A r \in DH!Rows : /\ documentHistoryDocId \in Versioned /\ r \in DH!Versions
                                 /\ r.doc = documentHistoryDocId
           /\ DH!Rows # {} => DH!Newest(DH!Rows) \in DH!Rows
<1>1. CASE documentHistoryDocId = None \/ answers[DH!QueryKey] = None
  BY <1>1, RowsAre
<1>2. CASE documentHistoryDocId # None /\ answers[DH!QueryKey] # None
  <2>1. documentHistoryDocId \in Versioned /\ answers[DH!QueryKey] \in 1..MaxVersions
    BY <1>2 DEF KeyOK, DH!QueryKey, DH!QueryKeys
  <2> QED
    BY <1>2, <2>1, RowsAre, RowsOfType
<1> QED
  BY <1>1, <1>2

LEMMA FollowCorrect ==
    ASSUME DH!FollowRows, KeyOK'
    PROVE  selectedVersion' \in DH!Versions \cup {None} /\ RowChosen'
<1>1. /\ \A r \in DH!Rows' : r \in DH!Versions
      /\ DH!Rows' # {} => DH!Newest(DH!Rows') \in DH!Rows'
  <2>1. CASE documentHistoryDocId' = None \/ answers'[DH!QueryKey'] = None
    <3>1. DH!Rows' = {}
      BY <2>1, DrawerFacts DEF KeyOK, DH!Rows, DH!QueryKey, DH!QueryKeys
    <3> QED
      BY <3>1
  <2>2. CASE documentHistoryDocId' # None /\ answers'[DH!QueryKey'] # None
    <3>1. documentHistoryDocId' \in Versioned /\ answers'[DH!QueryKey'] \in 1..MaxVersions
      BY <2>2 DEF KeyOK, DH!QueryKey, DH!QueryKeys
    <3>2. DH!Rows' = RowsOf(answers'[DH!QueryKey'], historyPage', documentHistoryDocId')
      BY <2>2 DEF KeyOK, DH!Rows, RowsOf, DH!QueryKey, DH!QueryKeys
    <3> QED
      BY <3>1, <3>2, RowsOfType
  <2> QED
    BY <2>1, <2>2
<1>2. CASE documentHistoryState' = None \/ DH!Rows' = {}
  BY <1>2 DEF DH!FollowRows, RowChosen
<1>3. CASE documentHistoryState' # None /\ DH!Rows' # {}
  <2>1. selectedVersion' \in DH!Rows'
    <3>1. CASE \E r \in DH!Rows' : selectedVersion # None /\ r.n = selectedVersion.n
      BY <1>3, <3>1 DEF DH!FollowRows
    <3>2. CASE ~\E r \in DH!Rows' : selectedVersion # None /\ r.n = selectedVersion.n
      BY <1>1, <1>3, <3>2 DEF DH!FollowRows
    <3> QED
      BY <3>1, <3>2
  <2> QED
    BY <1>1, <2>1 DEF RowChosen
<1> QED
  BY <1>2, <1>3

-----------------------------------------------------------------------------
LEMMA InitDrawer == DH!Init => DrawerInv
<1> SUFFICES ASSUME DH!Init PROVE DrawerInv
  OBVIOUS
<1>1. versions = [d \in Versioned |-> <<[doc |-> d, n |-> 1], [doc |-> d, n |-> 2]>>]
  BY DEF DH!Init
<1>2. \A d \in Versioned : versions[d] \in Seq(DH!Versions) /\ Len(versions[d]) = 2
  <2> TAKE d \in Versioned
  <2>1. [doc |-> d, n |-> 1] \in DH!Versions /\ [doc |-> d, n |-> 2] \in DH!Versions
    BY DrawerFacts DEF DH!Versions
  <2> QED
    BY <1>1, <2>1
<1>3. DH!TypeOK
  <2>1. versions \in [Versioned -> Seq(DH!Versions)]
    BY <1>1, <1>2
  <2>2. outdated \in BOOLEAN /\ troubled \in BOOLEAN
    BY DEF DH!Init
  <2>3. {outdated, troubled} \subseteq BOOLEAN
    BY <2>2, Zenon
  <2> QED
    BY <2>1, <2>3, PagesFacts DEF DH!Init, DH!TypeOK
<1>4. \A k \in DH!QueryKeys : Len(versions[k[1]]) \in 1..MaxVersions
  <2>1. \A k \in DH!QueryKeys : k[1] \in Versioned
    BY DEF DH!QueryKeys
  <2>2. 2 \in 1..MaxVersions
    BY DrawerFacts
  <2> QED
    BY <1>2, <2>1, <2>2
<1>5. SameDocument /\ OnlyShown /\ PageThere /\ RowChosen /\ VersionsComing
  BY DEF DH!Init, SameDocument, OnlyShown, PageThere, RowChosen, VersionsComing
<1>6. Grown
  BY <1>4 DEF DH!Init, Grown
<1> QED
  BY <1>3, <1>5, <1>6 DEF DrawerInv

(* What a fetch may be                                                     *)
Asking == {None, Asked} \cup 1..MaxVersions

LEMMA ObserveIs ==
    ASSUME asking \in [DH!QueryKeys -> Asking], NEW keys, DH!Observe(keys)
    PROVE  /\ asking' \in [DH!QueryKeys -> Asking]
           /\ \A k \in DH!QueryKeys : asking'[k] = IF k \in keys /\ asking[k] = None THEN Asked ELSE asking[k]
BY DEF DH!Observe, Asking

LEMMA StateFacts ==
    ASSUME DrawerInv
    PROVE  /\ KeyOK /\ asking \in [DH!QueryKeys -> Asking]
           /\ \A d \in Versioned : versions[d] \in Seq(DH!Versions) /\ Len(versions[d]) \in 1..MaxVersions
           /\ documentHistoryState # None =>
                 /\ documentHistoryState \in Versioned /\ documentHistoryDocId = documentHistoryState
                 /\ DH!QueryKey \in DH!QueryKeys /\ DH!QueryKey = <<documentHistoryState, historyPage>>
                 /\ DH!QueryKey[1] = documentHistoryState
           /\ documentHistoryState = None => documentHistoryDocId = None /\ DH!QueryKey \notin DH!QueryKeys
<1>1. KeyOK /\ asking \in [DH!QueryKeys -> Asking]
  BY DEF DrawerInv, DH!TypeOK, KeyOK, Asking
<1>2. \A d \in Versioned : Len(versions[d]) \in 1..MaxVersions
  <2> TAKE d \in Versioned
  <2>1. <<d, 1>> \in DH!QueryKeys /\ <<d, 1>>[1] = d
    BY PagesFacts DEF DH!QueryKeys
  <2> QED
    BY <2>1 DEF DrawerInv, Grown
<1>3. documentHistoryState \in Versioned \cup {None} /\ historyPage \in DH!Pages
  BY DEF DrawerInv, DH!TypeOK
<1> QED
  BY <1>1, <1>2, <1>3, DrawerFacts DEF DrawerInv, DH!TypeOK, SameDocument, DH!QueryKey, DH!QueryKeys

(* The versions do not change when nothing else does than the drawer.      *)
LEMMA NextOpenDrawer ==
    ASSUME DrawerInv, NEW d \in Versioned, DH!HandleOpenDocumentHistory(d)
    PROVE  DrawerInv'
<1> USE DEF DH!HandleOpenDocumentHistory
<1>1. /\ d # None /\ documentHistoryState' = d /\ documentHistoryDocId' = d /\ historyPage' = 1
      /\ historyPage \in DH!Pages
  BY DrawerFacts DEF DrawerInv, DH!TypeOK
<1>2. /\ KeyOK /\ asking \in [DH!QueryKeys -> Asking]
      /\ \A c \in Versioned : versions[c] \in Seq(DH!Versions) /\ Len(versions[c]) \in 1..MaxVersions
      /\ DH!QueryKey \notin DH!QueryKeys
  BY StateFacts
<1>3. /\ asking' \in [DH!QueryKeys -> Asking]
      /\ \A k \in DH!QueryKeys : asking'[k] = IF k \in {<<d, historyPage>>, <<d, 1>>} /\ asking[k] = None
                                             THEN Asked ELSE asking[k]
  BY <1>2, ObserveIs
<1>4. DH!QueryKey' = <<d, 1>> /\ DH!QueryKey' \in DH!QueryKeys
  BY <1>1, PagesFacts DEF DH!QueryKey, DH!QueryKeys
<1>5. KeyOK'
  BY <1>1, <1>2, PagesFacts DEF KeyOK
<1>6. selectedVersion' \in DH!Versions \cup {None} /\ RowChosen'
  BY <1>5, FollowCorrect
<1>7. DH!TypeOK'
  <2>1. troubled' \in BOOLEAN
    BY Zenon
  <2>2. {outdated', troubled'} \subseteq BOOLEAN
    BY <2>1, Zenon
  <2> QED
    BY <1>1, <1>3, <1>5, <1>6, <2>2 DEF DrawerInv, DH!TypeOK, KeyOK, DH!mutation, Asking
<1>8. SameDocument' /\ Grown'
  BY <1>1, <1>3 DEF DrawerInv, SameDocument, Grown, DH!mutation
<1>9. OnlyShown'
  <2> SUFFICES ASSUME ~troubled' PROVE \A k \in DH!QueryKeys : k # DH!QueryKey' => asking'[k] = None
    BY DEF OnlyShown
  <2>1. ~troubled /\ historyPage = 1
    BY Zenon
  <2>2. \A k \in DH!QueryKeys : asking[k] = None
    BY <1>2, <2>1 DEF DrawerInv, OnlyShown
  <2> QED
    BY <1>3, <1>4, <2>1, <2>2
<1>10. PageThere'
  <2>1. Len(versions[d]) \in Nat \ {0} /\ versions' = versions
    BY <1>2
  <2> QED
    BY <1>1, <2>1, FirstPage DEF PageThere
<1>11. VersionsComing'
  <2> SUFFICES ASSUME ~troubled' PROVE asking'[DH!QueryKey'] = Asked
    BY DEF VersionsComing
  <2>1. ~troubled
    BY Zenon
  <2>2. asking[DH!QueryKey'] = None
    BY <1>2, <1>4, <2>1 DEF DrawerInv, OnlyShown
  <2> QED
    BY <1>3, <1>4, <2>2
<1> QED
  BY <1>6, <1>7, <1>8, <1>9, <1>10, <1>11 DEF DrawerInv

LEMMA NextCloseDrawer ==
    ASSUME DrawerInv, DH!HandleCloseDocumentHistory
    PROVE  DrawerInv'
<1> USE DEF DH!HandleCloseDocumentHistory, DH!query, DH!mutation
<1>1. KeyOK'
  BY DEF DrawerInv, DH!TypeOK, KeyOK
<1>2. selectedVersion' \in DH!Versions \cup {None} /\ RowChosen'
  BY <1>1, FollowCorrect
<1>3. DH!TypeOK'
  <2>1. troubled' \in BOOLEAN /\ outdated' \in BOOLEAN
    <3>1. outdated \in BOOLEAN
      BY DEF DrawerInv, DH!TypeOK
    <3> QED
      BY <3>1, Zenon
  <2>2. {outdated', troubled'} \subseteq BOOLEAN
    BY <2>1, Zenon
  <2> QED
    BY <1>1, <1>2, <2>2 DEF DrawerInv, DH!TypeOK, KeyOK
<1>4. SameDocument' /\ Grown' /\ PageThere' /\ VersionsComing'
  BY DEF DrawerInv, SameDocument, Grown, PageThere, VersionsComing
<1>5. OnlyShown'
  <2> SUFFICES ASSUME ~troubled', NEW k \in DH!QueryKeys PROVE asking[k] = None
    BY DEF OnlyShown
  <2>1. ~troubled /\ ~DH!Fetching
    BY Zenon
  <2> QED
    BY <2>1 DEF DrawerInv, OnlyShown, DH!Fetching
<1> QED
  BY <1>2, <1>3, <1>4, <1>5 DEF DrawerInv

LEMMA NextPage ==
    ASSUME DrawerInv, NEW p \in DH!Pages, DH!HandleDocumentHistoryPageChange(p)
    PROVE  DrawerInv'
<1> USE DEF DH!HandleDocumentHistoryPageChange, DH!mutation
<1>1. /\ KeyOK /\ asking \in [DH!QueryKeys -> Asking]
      /\ \A c \in Versioned : versions[c] \in Seq(DH!Versions) /\ Len(versions[c]) \in 1..MaxVersions
      /\ documentHistoryState \in Versioned /\ documentHistoryDocId = documentHistoryState
      /\ DH!QueryKey \in DH!QueryKeys /\ DH!QueryKey[1] = documentHistoryState
  BY StateFacts DEF DH!Usable
<1> DEFINE d == documentHistoryState
<1>2. documentHistoryState' = d /\ documentHistoryDocId' = d /\ historyPage' = p /\ d # None
  BY <1>1, DrawerFacts
<1>3. DH!QueryKey' = <<d, p>> /\ DH!QueryKey' \in DH!QueryKeys /\ DH!QueryKey' # DH!QueryKey
  BY <1>1, <1>2 DEF DH!QueryKey, DH!QueryKeys
<1>4. /\ asking' \in [DH!QueryKeys -> Asking]
      /\ \A k \in DH!QueryKeys : asking'[k] = IF k = <<d, p>> /\ asking[k] = None THEN Asked ELSE asking[k]
  BY <1>1, ObserveIs
<1>5. KeyOK'
  BY <1>1, <1>2 DEF KeyOK
<1>6. selectedVersion' \in DH!Versions \cup {None} /\ RowChosen'
  BY <1>5, FollowCorrect
<1>7. DH!TypeOK'
  <2>1. outdated' \in BOOLEAN /\ troubled' \in BOOLEAN
    <3>1. troubled \in BOOLEAN
      BY DEF DrawerInv, DH!TypeOK
    <3> QED
      BY <3>1, Zenon
  <2>2. {outdated', troubled'} \subseteq BOOLEAN
    BY <2>1, Zenon
  <2> QED
    BY <1>1, <1>2, <1>4, <1>5, <1>6, <2>2 DEF DrawerInv, DH!TypeOK, KeyOK, Asking
<1>8. SameDocument' /\ Grown'
  BY <1>2, <1>4 DEF DrawerInv, SameDocument, Grown
<1>a. ~troubled => \A k \in DH!QueryKeys : asking[k] = None
  BY <1>1 DEF DrawerInv, OnlyShown, DH!Usable, DH!Fetching
<1>9. OnlyShown'
  BY <1>3, <1>4, <1>a DEF OnlyShown
<1>10. PageThere'
  <2>1. /\ answers[DH!QueryKey] \in Nat /\ Len(versions[d]) \in Nat
        /\ answers[DH!QueryKey] <= Len(versions[d]) /\ DH!OnPage(answers[DH!QueryKey], p) # {}
    BY <1>1 DEF DrawerInv, Grown, KeyOK
  <2> QED
    BY <1>2, <2>1, PageGrows DEF PageThere
<1>11. VersionsComing'
  <2> SUFFICES ASSUME ~troubled' PROVE asking'[DH!QueryKey'] = Asked
    BY DEF VersionsComing
  <2> QED
    BY <1>3, <1>4, <1>a
<1> QED
  BY <1>6, <1>7, <1>8, <1>9, <1>10, <1>11 DEF DrawerInv

LEMMA NextSelect ==
    ASSUME DrawerInv, NEW r \in DH!Rows, DH!SelectRow(r)
    PROVE  DrawerInv'
<1> USE DEF DH!SelectRow, DH!drawer, DH!query, DH!mutation
<1>1. r \in DH!Versions
  BY StateFacts, RowsType
<1>2. DH!TypeOK'
  BY <1>1 DEF DrawerInv, DH!TypeOK
<1>3. RowChosen'
  <2>1. DH!Rows' = DH!Rows
    BY DEF DH!Rows, DH!QueryKey
  <2> QED
    BY <2>1 DEF RowChosen
<1>4. SameDocument' /\ Grown' /\ OnlyShown' /\ PageThere' /\ VersionsComing'
  BY DEF DrawerInv, SameDocument, Grown, OnlyShown, PageThere, VersionsComing, DH!QueryKey
<1> QED
  BY <1>2, <1>3, <1>4 DEF DrawerInv

(* Steps that leave the drawer and the answers alone                       *)
LEMMA SameRows ==
    ASSUME UNCHANGED <<DH!drawer, answers, selectedVersion>>
    PROVE  DH!Rows' = DH!Rows /\ DH!QueryKey' = DH!QueryKey /\ (RowChosen => RowChosen')
BY DEF DH!drawer, DH!Rows, DH!QueryKey, RowChosen

LEMMA NextListRefetch ==
    ASSUME DrawerInv, DH!Refetch
    PROVE  DrawerInv'
<1> USE DEF DH!Refetch, DH!drawer, DH!mutation
<1>1. KeyOK /\ asking \in [DH!QueryKeys -> Asking] /\ DH!QueryKey' = DH!QueryKey /\ RowChosen'
  BY StateFacts, SameRows DEF DrawerInv
<1>2. /\ asking' \in [DH!QueryKeys -> Asking]
      /\ \A k \in DH!QueryKeys : asking'[k] = IF k = DH!QueryKey /\ asking[k] = None THEN Asked ELSE asking[k]
  BY <1>1, ObserveIs
<1>3. DH!TypeOK'
  BY <1>2 DEF DrawerInv, DH!TypeOK, Asking
<1>4. SameDocument' /\ Grown' /\ OnlyShown' /\ PageThere'
  BY <1>1, <1>2 DEF DrawerInv, SameDocument, Grown, OnlyShown, PageThere
<1>5. asking'[DH!QueryKey'] = Asked
  BY <1>1, <1>2 DEF DH!Fetching
<1>6. VersionsComing'
  BY <1>5 DEF VersionsComing
<1> QED
  BY <1>1, <1>3, <1>4, <1>6 DEF DrawerInv

LEMMA NextListRead ==
    ASSUME DrawerInv, NEW k \in DH!QueryKeys, DH!FetchRead(k)
    PROVE  DrawerInv'
<1> USE DEF DH!FetchRead, DH!drawer, DH!mutation
<1>1. /\ KeyOK /\ asking \in [DH!QueryKeys -> Asking] /\ DH!QueryKey' = DH!QueryKey /\ RowChosen'
      /\ \A c \in Versioned : versions[c] \in Seq(DH!Versions) /\ Len(versions[c]) \in 1..MaxVersions
      /\ k[1] \in Versioned
  BY StateFacts, SameRows DEF DrawerInv, DH!QueryKeys
<1> DEFINE count == Len(versions[k[1]])
<1>2. count \in 1..MaxVersions /\ count \in Nat /\ count \notin {None, Asked}
  BY <1>1, DrawerFacts
<1>3. /\ asking' \in [DH!QueryKeys -> Asking]
      /\ asking'[k] = count
      /\ \A l \in DH!QueryKeys : l # k => asking'[l] = asking[l]
  BY <1>1, <1>2 DEF Asking
<1>4. DH!TypeOK'
  <2>1. outdated' \in BOOLEAN /\ troubled' \in BOOLEAN
    <3>1. troubled \in BOOLEAN
      BY DEF DrawerInv, DH!TypeOK
    <3> QED
      BY <3>1, Zenon
  <2>2. {outdated', troubled'} \subseteq BOOLEAN
    BY <2>1, Zenon
  <2> QED
    BY <1>3, <2>2 DEF DrawerInv, DH!TypeOK, Asking
<1>5. SameDocument' /\ PageThere'
  BY DEF DrawerInv, SameDocument, PageThere
<1>6. Grown'
  BY <1>1, <1>2, <1>3 DEF DrawerInv, Grown
<1>7. OnlyShown'
  <2>1. ~troubled => k = DH!QueryKey
    BY DrawerFacts DEF DrawerInv, OnlyShown
  <2> QED
    BY <1>1, <1>3, <2>1 DEF DrawerInv, OnlyShown
<1>8. VersionsComing'
  <2> SUFFICES ASSUME documentHistoryState # None, ~troubled, ~outdated',
                      \A r \in restores : r.stored => r.doc # documentHistoryDocId
               PROVE  asking'[DH!QueryKey] = Len(versions[documentHistoryState])
    BY <1>1 DEF VersionsComing
  <2>1. k = DH!QueryKey
    BY DrawerFacts DEF DrawerInv, OnlyShown
  <2> QED
    BY <1>3, <2>1, StateFacts
<1> QED
  BY <1>1, <1>4, <1>5, <1>6, <1>7, <1>8 DEF DrawerInv

LEMMA NextListAnswer ==
    ASSUME DrawerInv, NEW k \in DH!QueryKeys, DH!FetchAnswer(k)
    PROVE  DrawerInv'
<1> USE DEF DH!FetchAnswer, DH!drawer, DH!mutation
<1>1. /\ KeyOK /\ asking \in [DH!QueryKeys -> Asking] /\ DH!QueryKey' = DH!QueryKey
      /\ answers \in [DH!QueryKeys -> {None} \cup 1..MaxVersions]
  BY StateFacts DEF DrawerInv, DH!QueryKey, KeyOK
<1>2. /\ asking[k] \in 1..MaxVersions
      /\ answers' \in [DH!QueryKeys -> {None} \cup 1..MaxVersions] /\ answers'[k] = asking[k]
      /\ \A l \in DH!QueryKeys : l # k => answers'[l] = answers[l]
      /\ asking' \in [DH!QueryKeys -> Asking] /\ asking'[k] = None
      /\ \A l \in DH!QueryKeys : l # k => asking'[l] = asking[l]
  BY <1>1 DEF Asking
<1>3. KeyOK'
  BY <1>1, <1>2 DEF KeyOK
<1>4. selectedVersion' \in DH!Versions \cup {None} /\ RowChosen'
  BY <1>3, FollowCorrect
<1>5. DH!TypeOK'
  BY <1>2, <1>4 DEF DrawerInv, DH!TypeOK, Asking
<1>6. SameDocument' /\ PageThere'
  BY DEF DrawerInv, SameDocument, PageThere
<1>7. Grown' /\ OnlyShown'
  BY <1>1, <1>2 DEF DrawerInv, Grown, OnlyShown
<1>8. VersionsComing'
  <2> SUFFICES ASSUME documentHistoryState # None, ~troubled, ~outdated,
                      \A r \in restores : r.stored => r.doc # documentHistoryDocId
               PROVE  asking'[DH!QueryKey] = None /\ answers'[DH!QueryKey] = Len(versions[documentHistoryState])
    BY <1>1 DEF VersionsComing
  <2>1. k = DH!QueryKey
    BY DEF DrawerInv, OnlyShown
  <2>2. asking[DH!QueryKey] = Len(versions[documentHistoryState])
    BY <2>1 DEF DrawerInv, VersionsComing
  <2> QED
    BY <1>2, <2>1, <2>2
<1> QED
  BY <1>4, <1>5, <1>6, <1>7, <1>8 DEF DrawerInv

LEMMA NextListFails ==
    ASSUME DrawerInv, NEW k \in DH!QueryKeys, DH!FetchFails(k)
    PROVE  DrawerInv'
<1> USE DEF DH!FetchFails, DH!drawer, DH!mutation
<1>1. asking \in [DH!QueryKeys -> Asking] /\ DH!QueryKey' = DH!QueryKey /\ RowChosen'
  BY StateFacts, SameRows DEF DrawerInv
<1>2. /\ asking' \in [DH!QueryKeys -> Asking] /\ asking'[k] = None
      /\ \A l \in DH!QueryKeys : l # k => asking'[l] = asking[l]
  BY <1>1 DEF Asking
<1>3. DH!TypeOK'
  <2>1. outdated' \in BOOLEAN
    BY DEF DrawerInv, DH!TypeOK
  <2>2. {outdated', troubled'} \subseteq BOOLEAN
    BY <2>1, Zenon
  <2> QED
    BY <1>2, <2>2 DEF DrawerInv, DH!TypeOK, Asking
<1>4. SameDocument' /\ Grown' /\ OnlyShown' /\ PageThere' /\ VersionsComing'
  BY <1>2 DEF DrawerInv, SameDocument, Grown, OnlyShown, PageThere, VersionsComing
<1> QED
  BY <1>1, <1>3, <1>4 DEF DrawerInv

LEMMA NextRestore ==
    ASSUME DrawerInv, NEW r \in DH!Rows, DH!HandleRestore(r)
    PROVE  DrawerInv'
<1> USE DEF DH!HandleRestore, DH!drawer, DH!query
<1>1. /\ r \in DH!Versions /\ r.doc = documentHistoryDocId /\ DH!QueryKey' = DH!QueryKey /\ RowChosen'
      /\ documentHistoryState \in Versioned /\ documentHistoryDocId = documentHistoryState
  BY StateFacts, RowsType, SameRows DEF DrawerInv, DH!Restorable, DH!Usable
<1>2. restored' \in Nat
  BY DEF DrawerInv, SameDocument
<1>3. /\ restoring' \in [id : Nat, doc : Versioned, row : DH!Versions, stored : BOOLEAN]
      /\ restoring'.doc = restoring'.row.doc /\ ~restoring'.stored
  <2>1. /\ restoring' = [id |-> restored', doc |-> documentHistoryState, row |-> r, stored |-> FALSE]
        /\ FALSE \in BOOLEAN
    OBVIOUS
  <2> QED
    BY <1>1, <1>2, <2>1
<1>4. DH!TypeOK'
  BY <1>3 DEF DrawerInv, DH!TypeOK
<1>5. SameDocument' /\ Grown' /\ OnlyShown' /\ PageThere'
  BY <1>1, <1>2, <1>3 DEF DrawerInv, SameDocument, Grown, OnlyShown, PageThere
<1>6. VersionsComing'
  BY <1>1, <1>3 DEF DrawerInv, VersionsComing
<1> QED
  BY <1>1, <1>4, <1>5, <1>6 DEF DrawerInv

(* One more version                                                        *)
LEMMA WriteGrows ==
    ASSUME DrawerInv, NEW d \in Versioned, NEW content \in DH!Versions, DH!Write(d, content),
           UNCHANGED <<documentHistoryState, historyPage, answers, asking>>
    PROVE  /\ versions' \in [Versioned -> Seq(DH!Versions)] /\ Grown' /\ PageThere'
           /\ \A c \in Versioned : c # d => versions'[c] = versions[c]
<1>1. \A c \in Versioned : versions[c] \in Seq(DH!Versions) /\ Len(versions[c]) \in 1..MaxVersions
  BY StateFacts
<1>2. /\ versions' \in [Versioned -> Seq(DH!Versions)] /\ Len(versions'[d]) = Len(versions[d]) + 1
      /\ \A c \in Versioned : c # d => versions'[c] = versions[c]
  <2>1. Append(versions[d], content) \in Seq(DH!Versions)
    BY <1>1
  <2>2. /\ versions' = [versions EXCEPT ![d] = Append(versions[d], content)]
        /\ versions \in [Versioned -> Seq(DH!Versions)]
    BY DEF DH!Write, DrawerInv, DH!TypeOK
  <2>3. Len(Append(versions[d], content)) = Len(versions[d]) + 1
    BY <1>1
  <2> QED
    BY <2>1, <2>2, <2>3
<1>3. \A c \in Versioned : /\ Len(versions'[c]) \in 1..MaxVersions /\ Len(versions[c]) <= Len(versions'[c])
                           /\ Len(versions[c]) \in Nat /\ Len(versions'[c]) \in Nat
  BY <1>1, <1>2, DrawerFacts DEF DH!Write
<1>4. Grown'
  <2>1. \A k \in DH!QueryKeys : k[1] \in Versioned
    BY DEF DH!QueryKeys
  <2>2. /\ answers \in [DH!QueryKeys -> {None} \cup 1..MaxVersions]
        /\ asking \in [DH!QueryKeys -> {None, Asked} \cup 1..MaxVersions]
    BY DEF DrawerInv, DH!TypeOK
  <2>3. ASSUME NEW k \in DH!QueryKeys
        PROVE  /\ answers[k] # None => answers[k] <= Len(versions'[k[1]])
               /\ asking[k] \notin {None, Asked} => asking[k] <= Len(versions'[k[1]])
    <3>1. /\ answers[k] # None => answers[k] \in Nat /\ answers[k] <= Len(versions[k[1]])
          /\ asking[k] \notin {None, Asked} => asking[k] \in Nat /\ asking[k] <= Len(versions[k[1]])
      BY <2>2 DEF DrawerInv, Grown
    <3> QED
      BY <1>3, <2>1, <3>1
  <2> QED
    BY <1>3, <2>1, <2>3 DEF Grown
<1>5. PageThere'
  BY <1>3, StateFacts, PageGrows DEF DrawerInv, PageThere
<1> QED
  BY <1>2, <1>4, <1>5

LEMMA NextRestoreStored ==
    ASSUME DrawerInv, NEW r \in restores, DH!RestoreStored(r)
    PROVE  DrawerInv'
<1> USE DEF DH!RestoreStored, DH!drawer, DH!query
<1>1. r \in [id : Nat, doc : Versioned, row : DH!Versions, stored : BOOLEAN] /\ r.doc = r.row.doc
  BY DEF DrawerInv, DH!TypeOK, SameDocument
<1>2. versions[r.doc][r.row.n] \in DH!Versions
  BY <1>1, StateFacts
<1>3. /\ versions' \in [Versioned -> Seq(DH!Versions)] /\ Grown' /\ PageThere'
      /\ \A c \in Versioned : c # r.doc => versions'[c] = versions[c]
  BY <1>1, <1>2, WriteGrows
<1>4. DH!QueryKey' = DH!QueryKey /\ RowChosen'
  BY SameRows DEF DrawerInv
<1> DEFINE s == [r EXCEPT !.stored = TRUE]
<1>5. /\ s \in [id : Nat, doc : Versioned, row : DH!Versions, stored : BOOLEAN]
      /\ s.doc = r.doc /\ s.row = r.row /\ s.stored
  BY <1>1
<1>6. s \in restores' /\ \A q \in restores' : q = s \/ q \in restores
  OBVIOUS
<1> HIDE DEF s
<1>7. DH!TypeOK'
  BY <1>3, <1>5, <1>6 DEF DrawerInv, DH!TypeOK
<1>8. SameDocument' /\ OnlyShown'
  BY <1>1, <1>4, <1>5, <1>6 DEF DrawerInv, SameDocument, OnlyShown
<1>9. VersionsComing'
  <2> SUFFICES ASSUME documentHistoryState # None, ~troubled, ~outdated,
                      \A q \in restores' : q.stored => q.doc # documentHistoryDocId
               PROVE  VersionsComing'
    BY DEF VersionsComing
  <2>1. r.doc # documentHistoryDocId
    BY <1>5, <1>6
  <2>2. versions'[documentHistoryState] = versions[documentHistoryState]
    BY <1>3, <2>1, StateFacts
  <2>3. \A q \in restores : q.stored => q.doc # documentHistoryDocId
    <3>1. \A q \in restores : q.stored => q \in restores'
      OBVIOUS
    <3> QED
      BY <3>1
  <2> QED
    BY <1>4, <2>2, <2>3 DEF DrawerInv, VersionsComing
<1> QED
  BY <1>3, <1>4, <1>7, <1>8, <1>9 DEF DrawerInv

LEMMA NextRestoreAnswer ==
    ASSUME DrawerInv, NEW r \in restores, DH!RestoreAnswer(r)
    PROVE  DrawerInv'
<1> USE DEF DH!RestoreAnswer, DH!drawer, DH!Answered
<1> DEFINE k == DH!QueryKey
<1>1. asking \in [DH!QueryKeys -> Asking] /\ k' = k /\ RowChosen'
  BY StateFacts, SameRows DEF DrawerInv
<1>2. /\ outdated' \in BOOLEAN /\ (outdated => outdated')
      /\ asking' \in [DH!QueryKeys -> Asking]
      /\ \A q \in DH!QueryKeys : asking'[q] \in {asking[q], Asked} /\ (q # k => asking'[q] = asking[q])
  <2>1. CASE k \in DH!QueryKeys /\ documentHistoryDocId = r.doc
    BY <1>1, <2>1 DEF DH!InvalidateHistory, Asking, DrawerInv, DH!TypeOK
  <2>2. CASE ~(k \in DH!QueryKeys /\ documentHistoryDocId = r.doc)
    BY <1>1, <2>2 DEF DH!InvalidateHistory, DrawerInv, DH!TypeOK
  <2> QED
    BY <2>1, <2>2
<1>3. DH!TypeOK'
  <2>1. {outdated', troubled'} \subseteq BOOLEAN
    BY <1>2 DEF DrawerInv, DH!TypeOK
  <2> QED
    BY <1>2, <2>1 DEF DrawerInv, DH!TypeOK, Asking
<1>4. SameDocument' /\ OnlyShown' /\ PageThere'
  BY <1>1, <1>2 DEF DrawerInv, SameDocument, OnlyShown, PageThere
<1>g. Grown'
  BY <1>2 DEF DrawerInv, Grown
<1>5. VersionsComing'
  <2> SUFFICES ASSUME documentHistoryState # None, ~troubled, ~outdated',
                      \A q \in restores' : q.stored => q.doc # documentHistoryDocId
               PROVE  VersionsComing'
    BY DEF VersionsComing
  <2>1. k \in DH!QueryKeys /\ ~outdated /\ documentHistoryDocId = documentHistoryState
    BY <1>2, StateFacts
  <2>2. CASE documentHistoryDocId = r.doc
    <3>1. asking'[k] \in {Asked, Len(versions[r.doc])}
      BY <2>1, <2>2 DEF DH!InvalidateHistory
    <3> QED
      BY <1>1, <2>1, <2>2, <3>1 DEF VersionsComing
  <2>3. CASE documentHistoryDocId # r.doc
    <3>1. \A q \in restores : q.stored => q.doc # documentHistoryDocId
      BY <2>3
    <3>2. asking' = asking
      BY <2>3 DEF DH!InvalidateHistory
    <3> QED
      BY <1>1, <2>1, <2>3, <3>1, <3>2 DEF DrawerInv, VersionsComing
  <2> QED
    BY <2>2, <2>3
<1> QED
  BY <1>1, <1>3, <1>4, <1>g, <1>5 DEF DrawerInv

LEMMA NextRestoreFails ==
    ASSUME DrawerInv, NEW r \in restores, DH!RestoreFails(r)
    PROVE  DrawerInv'
<1> USE DEF DH!RestoreFails, DH!drawer, DH!query, DH!Answered
<1>1. DH!QueryKey' = DH!QueryKey /\ RowChosen'
  BY SameRows DEF DrawerInv
<1>2. DH!TypeOK'
  <2>1. outdated' \in BOOLEAN
    BY DEF DrawerInv, DH!TypeOK
  <2>2. {outdated', troubled'} \subseteq BOOLEAN
    BY <2>1, Zenon
  <2> QED
    BY <2>2 DEF DrawerInv, DH!TypeOK
<1>3. SameDocument' /\ Grown' /\ OnlyShown' /\ PageThere' /\ VersionsComing'
  BY <1>1 DEF DrawerInv, SameDocument, Grown, OnlyShown, PageThere, VersionsComing
<1> QED
  BY <1>1, <1>2, <1>3 DEF DrawerInv

LEMMA NextEdit ==
    ASSUME DrawerInv, NEW d \in Versioned, DH!Edit(d)
    PROVE  DrawerInv'
<1> USE DEF DH!Edit, DH!drawer, DH!query, DH!mutation
<1>1. DH!QueryKey' = DH!QueryKey /\ RowChosen'
  BY SameRows DEF DrawerInv
<1>2. [doc |-> d, n |-> Len(versions[d]) + 1] \in DH!Versions
  <2>1. Len(versions[d]) \in 1..MaxVersions /\ Len(versions[d]) < MaxVersions
    BY StateFacts DEF DH!Write
  <2> QED
    BY <2>1, DrawerFacts DEF DH!Versions
<1>3. /\ versions' \in [Versioned -> Seq(DH!Versions)] /\ Grown' /\ PageThere'
      /\ \A c \in Versioned : c # d => versions'[c] = versions[c]
  BY <1>2, WriteGrows
<1>4. DH!TypeOK'
  <2>1. outdated' \in BOOLEAN /\ troubled' \in BOOLEAN
    <3>1. troubled \in BOOLEAN
      BY DEF DrawerInv, DH!TypeOK
    <3> QED
      BY <3>1, Zenon
  <2>2. {outdated', troubled'} \subseteq BOOLEAN
    BY <2>1, Zenon
  <2> QED
    BY <1>3, <2>2 DEF DrawerInv, DH!TypeOK
<1>5. SameDocument' /\ OnlyShown'
  BY <1>1 DEF DrawerInv, SameDocument, OnlyShown
<1>6. VersionsComing'
  <2> SUFFICES ASSUME documentHistoryState # None, ~troubled, ~outdated',
                      \A q \in restores : q.stored => q.doc # documentHistoryDocId
               PROVE  VersionsComing'
    BY DEF VersionsComing
  <2>1. documentHistoryDocId # d /\ ~outdated
    BY Zenon
  <2>2. versions'[documentHistoryState] = versions[documentHistoryState]
    BY <1>3, <2>1, StateFacts
  <2> QED
    BY <1>1, <2>1, <2>2 DEF DrawerInv, VersionsComing
<1> QED
  BY <1>1, <1>3, <1>4, <1>5, <1>6 DEF DrawerInv

LEMMA NextDrawer == DrawerInv /\ (DH!Next \/ UNCHANGED DH!vars) => DrawerInv'
<1> SUFFICES ASSUME DrawerInv, DH!Next \/ UNCHANGED DH!vars PROVE DrawerInv'
  OBVIOUS
<1>1. CASE DH!Drawer
  BY <1>1, NextOpenDrawer, NextCloseDrawer, NextListRefetch, NextPage, NextSelect, NextRestore DEF DH!Drawer
<1>2. CASE DH!Fetches
  BY <1>2, NextListRead, NextListAnswer, NextListFails DEF DH!Fetches
<1>3. CASE DH!Restores
  BY <1>3, NextRestoreStored, NextRestoreAnswer, NextRestoreFails DEF DH!Restores
<1>4. CASE \E d \in Versioned : DH!Edit(d)
  BY <1>4, NextEdit
<1>5. CASE UNCHANGED DH!vars
  <2>1. DH!QueryKey' = DH!QueryKey /\ RowChosen'
    BY <1>5, SameRows DEF DrawerInv, DH!vars, DH!query
  <2> QED
    BY <1>5, <2>1 DEF DrawerInv, DH!vars, DH!drawer, DH!query, DH!mutation, DH!TypeOK, SameDocument,
                      Grown, OnlyShown, PageThere, VersionsComing
<1> QED
  BY <1>1, <1>2, <1>3, <1>4, <1>5 DEF DH!Next

LEMMA HistoryHolds == DrawerInv => DH!HistoryFollows
<1> SUFFICES ASSUME DrawerInv, documentHistoryState # None, ~DH!Fetching, restores = {}, ~outdated, ~troubled
             PROVE  /\ answers[DH!QueryKey] = Len(versions[documentHistoryState])
                    /\ \E r \in DH!Rows : DH!Preview = versions[documentHistoryState][r.n]
  BY DEF DH!HistoryFollows
<1>1. /\ KeyOK /\ documentHistoryState \in Versioned /\ documentHistoryDocId = documentHistoryState
      /\ DH!QueryKey \in DH!QueryKeys /\ Len(versions[documentHistoryState]) \in 1..MaxVersions
  BY StateFacts
<1>2. asking[DH!QueryKey] = None
  BY <1>1 DEF DH!Fetching
<1>3. answers[DH!QueryKey] = Len(versions[documentHistoryState])
  BY <1>1, <1>2, DrawerFacts DEF DrawerInv, VersionsComing
<1>4. DH!Rows = RowsOf(answers[DH!QueryKey], historyPage, documentHistoryState)
  <2>1. answers[DH!QueryKey] # None /\ documentHistoryDocId # None
    BY <1>1, <1>3, DrawerFacts
  <2> QED
    BY <1>1, <2>1, RowsAre
<1>5. DH!Rows # {}
  BY <1>1, <1>3, <1>4, RowsOfType DEF DrawerInv, PageThere
<1>6. selectedVersion \in DH!Rows /\ selectedVersion.doc = documentHistoryState /\ selectedVersion # None
  BY <1>1, <1>5, RowsType, DrawerFacts DEF DrawerInv, RowChosen, DH!Versions
<1>7. DH!Preview = versions[documentHistoryState][selectedVersion.n]
  BY <1>6 DEF DH!Preview
<1> QED
  BY <1>3, <1>6, <1>7

LEMMA NextRestored == DrawerInv /\ DH!Next => DH!Restored
<1> SUFFICES ASSUME DrawerInv, DH!Next, NEW r \in restores, ~r.stored, r \notin restores', versions' # versions
             PROVE  versions' = [versions EXCEPT ![r.row.doc] = Append(@, versions[r.row.doc][r.row.n])]
  BY DEF DH!Restored
<1>1. PICK q \in restores : DH!RestoreStored(q)
  BY DEF DH!Next, DH!Drawer, DH!HandleOpenDocumentHistory, DH!HandleCloseDocumentHistory,
         DH!Refetch, DH!HandleDocumentHistoryPageChange, DH!SelectRow, DH!HandleRestore, DH!Fetches,
         DH!FetchRead, DH!FetchAnswer, DH!FetchFails, DH!Restores, DH!RestoreAnswer,
         DH!RestoreFails, DH!Edit, DH!mutation
<1>2. q = r
  BY <1>1 DEF DH!RestoreStored
<1>3. r.doc = r.row.doc
  BY DEF DrawerInv, SameDocument
<1> QED
  BY <1>1, <1>2, <1>3 DEF DH!RestoreStored, DH!Write

-----------------------------------------------------------------------------
(* The dialogs that clean up the runs                                      *)

(* A mutation for what the page has at present, which was checked.         *)
Present(params) == params.options = options /\ params.key = filter /\ RC!Valid(options)

(* The two dialogs are never open together, and the second one not while   *)
(* a dry run is under way: nothing changes options or filter below a count.*)
OneDialog == /\ showConfirm => ~showModal
             /\ cleaning # None /\ cleaning.dry => ~showConfirm

(* Unless something was touched, dry run and count are of the present.     *)
Untouched == ~touched => /\ cleaning # None /\ cleaning.dry => Present(cleaning)
                         /\ counted # None => Present(counted)

CleanupInv == RC!TypeOK /\ OneDialog /\ Untouched

LEMMA InitCleanup == RC!Init => CleanupInv
<1> SUFFICES ASSUME RC!Init PROVE CleanupInv
  OBVIOUS
<1>1. RC!Initially \in RC!Choices
  BY DEF RC!Initially, RC!Choices
<1>2. RC!TypeOK
  BY <1>1 DEF RC!Init, RC!TypeOK, RC!Filters
<1> QED
  BY <1>2 DEF RC!Init, CleanupInv, OneDialog, Untouched

LEMMA ParamsType ==
    ASSUME RC!TypeOK, NEW d \in BOOLEAN
    PROVE  /\ RC!Params(d) \in [dry : {d}, options : RC!Choices, key : RC!Filters]
           /\ RC!Params(d) \in [dry : BOOLEAN, options : RC!Choices, key : RC!Filters]
BY DEF RC!TypeOK, RC!Params

(* A clean-up with the parameters of its dry run.                          *)
LEMMA ForReal ==
    ASSUME NEW params \in [dry : {TRUE}, options : RC!Choices, key : RC!Filters]
    PROVE  [params EXCEPT !.dry = FALSE] = [dry |-> FALSE, options |-> params.options, key |-> params.key]
<1>1. \A v : [params EXCEPT !.dry = v] = [dry |-> v, options |-> params.options, key |-> params.key]
  OBVIOUS
<1> QED
  BY <1>1, Zenon

LEMMA NextCleanup == CleanupInv /\ (RC!Next \/ UNCHANGED RC!vars) => CleanupInv'
<1> SUFFICES ASSUME CleanupInv, (RC!Next \/ UNCHANGED RC!vars) PROVE CleanupInv'
  OBVIOUS
<1> USE DEF CleanupInv, OneDialog, Untouched, Present, RC!Valid
<1>1. ASSUME NEW k \in RC!Filters, RC!SetFilter(k) PROVE CleanupInv'
  BY <1>1 DEF RC!SetFilter, RC!Uncovered, RC!TypeOK
<1>2. CASE RC!HandleCleanup
  BY <1>2 DEF RC!HandleCleanup, RC!Uncovered, RC!TypeOK
<1>3. CASE RC!Choose
  <2>1. ASSUME NEW o \in RC!Choices, RC!Change(o) PROVE CleanupInv'
    BY <2>1 DEF RC!Change, RC!TypeOK
  <2>2. options \in [statuses : SUBSET Statuses, zombie : BOOLEAN, force : BOOLEAN]
    BY DEF RC!TypeOK, RC!Choices
  <2>3. \E o \in RC!Choices : RC!Change(o)
    <3>1. ASSUME NEW s \in SUBSET Statuses PROVE [options EXCEPT !.statuses = s] \in RC!Choices
      BY <2>2 DEF RC!Choices
    <3>2. /\ [options EXCEPT !.force = ~@, !.zombie = options.force /\ @] \in RC!Choices
          /\ [options EXCEPT !.zombie = ~@] \in RC!Choices
      BY <2>2 DEF RC!Choices
    <3> QED
      BY <1>3, <3>1, <3>2 DEF RC!Choose, RC!ToggleForce, RC!ToggleZombie, RC!ChooseStatuses
  <2> QED
    BY <2>1, <2>3
<1>4. CASE RC!PreviewCleanup
  <2>1. cleaning'.dry /\ cleaning'.options = options /\ cleaning'.key = filter
    BY <1>4 DEF RC!PreviewCleanup, RC!Params
  <2>2. ~showConfirm /\ counted = None
    BY <1>4 DEF RC!PreviewCleanup, RC!TypeOK
  <2>3. RC!TypeOK'
    BY <1>4, ParamsType DEF RC!PreviewCleanup, RC!TypeOK
  <2> QED
    BY <1>4, <2>1, <2>2, <2>3 DEF RC!PreviewCleanup
<1>5. ASSUME NEW any \in BOOLEAN, RC!DryRunAnswer(any) PROVE CleanupInv'
  <2>1. cleaning \in [dry : {TRUE}, options : RC!Choices, key : RC!Filters]
    BY <1>5 DEF RC!DryRunAnswer, RC!TypeOK
  <2> QED
    BY <1>5, <2>1 DEF RC!DryRunAnswer, RC!TypeOK
<1>6. CASE RC!CancelDialog
  BY <1>6 DEF RC!CancelDialog, RC!TypeOK
<1>7. CASE RC!ConfirmCleanup
  <2>1. ~cleaning'.dry
    BY <1>7 DEF RC!ConfirmCleanup, RC!Params
  <2>2. RC!TypeOK'
    BY <1>7, ParamsType DEF RC!ConfirmCleanup, RC!TypeOK
  <2> QED
    BY <1>7, <2>1, <2>2 DEF RC!ConfirmCleanup
<1>8. CASE RC!CleanupAnswer
  BY <1>8 DEF RC!CleanupAnswer, RC!TypeOK
<1>9. CASE RC!CleanupFails
  BY <1>9 DEF RC!CleanupFails, RC!TypeOK
<1>u. CASE UNCHANGED RC!vars
  BY <1>u DEF RC!vars, RC!TypeOK
<1> QED
  BY <1>1, <1>2, <1>3, <1>4, <1>5, <1>6, <1>7, <1>8, <1>9, <1>u DEF RC!Next

(* Only a confirmation starts a clean-up that is not a dry run.            *)
LEMMA NextConfirmed == CleanupInv /\ (RC!Next \/ UNCHANGED RC!vars) => RC!Confirmed
<1> SUFFICES ASSUME CleanupInv, (RC!Next \/ UNCHANGED RC!vars),
                    cleaning' # cleaning, cleaning' # None, ~cleaning'.dry, ~touched
             PROVE  cleaning' = [counted EXCEPT !.dry = FALSE] /\ RC!Valid(cleaning'.options)
  BY DEF RC!Confirmed
<1>1. RC!ConfirmCleanup
  <2>1. ~RC!PreviewCleanup
    BY DEF RC!PreviewCleanup, RC!Params
  <2> QED
    BY <2>1 DEF RC!Next, RC!vars, RC!SetFilter, RC!HandleCleanup, RC!Choose, RC!Change,
                RC!ChooseStatuses, RC!ToggleForce, RC!ToggleZombie, RC!DryRunAnswer,
                RC!CancelDialog, RC!CleanupAnswer, RC!CleanupFails
<1>2. counted \in [dry : {TRUE}, options : RC!Choices, key : RC!Filters] /\ Present(counted)
  BY <1>1 DEF RC!ConfirmCleanup, CleanupInv, RC!TypeOK, Untouched
<1>3. cleaning' = [dry |-> FALSE, options |-> counted.options, key |-> counted.key]
  BY <1>1, <1>2 DEF RC!ConfirmCleanup, RC!Params, Present
<1>4. RC!Valid(cleaning'.options)
  BY <1>2, <1>3 DEF Present
<1>5. cleaning' = [counted EXCEPT !.dry = FALSE]
  BY <1>2, <1>3, ForReal
<1> QED
  BY <1>4, <1>5

-----------------------------------------------------------------------------
(* The page                                                                *)

Inv == /\ page = "editor" => EditorInv
       /\ page = "places" => PlacesInv
       /\ page = "drawer" => DrawerInv
       /\ page = "cleanup" => CleanupInv

(* A step of the page is one of the part that is open.                     *)
LEMMA PageStep ==
    ASSUME [Next]_vars
    PROVE  /\ page' = page
           /\ page = "editor" => ED!Next \/ UNCHANGED ED!vars
           /\ page = "places" => DP!Next \/ UNCHANGED DP!vars
           /\ page = "drawer" => DH!Next \/ UNCHANGED DH!vars
           /\ page = "cleanup" => RC!Next \/ UNCHANGED RC!vars
BY DEF Next, vars, editor, places, drawer, cleanup, ED!vars, ED!doc, ED!hist, DP!vars, DP!server,
       DP!query, DP!history, DH!vars, DH!drawer, DH!query, DH!mutation, RC!vars

LEMMA NextInv == Inv /\ [Next]_vars => Inv'
<1> SUFFICES ASSUME Inv, [Next]_vars PROVE Inv'
  OBVIOUS
<1> QED
  BY PageStep, Assumptions, NextEditor, NextPlaces, NextDrawer, NextCleanup DEF Inv

LEMMA Invariant == Spec => []Inv
<1>1. Init => Inv
  BY Assumptions, InitEditor, InitPlaces, InitDrawer, InitCleanup DEF Init, Inv
<1> QED
  BY <1>1, NextInv, PTL DEF Spec

(* The state of the page that is shown has its types.                      *)
THEOREM TypeCorrect == Spec => []TypeOK
<1>1. Inv => TypeOK
  BY EditorHolds DEF Inv, PlacesInv, DrawerInv, CleanupInv, TypeOK
<1> QED
  BY <1>1, Invariant, PTL

(* Once nothing is under way the editor shows what is stored, unless       *)
(* something ran beside a change of references, somebody else wrote, or an *)
(* answer was lost (DocumentEditor.tsx:743).                               *)
THEOREM CacheCorrect == Spec => []CacheCurrent
<1>1. Inv => CacheCurrent
  BY EditorHolds DEF Inv, CacheCurrent
<1> QED
  BY <1>1, Invariant, PTL

(* Refetching, saving and calls that fail never cost text that was put     *)
(* into a calm form (DocumentEditor.tsx:278-303).                          *)
THEOREM DraftCorrect == Spec => DraftKept
<1>1. Inv /\ [Next]_vars => [page = "editor" => ED!KeepsDraft]_vars
  <2> SUFFICES ASSUME Inv, Next, page = "editor" PROVE ED!KeepsDraft
    OBVIOUS
  <2>1. ED!Next
    BY DEF Next
  <2> QED
    BY <2>1, NextKeepsDraft DEF Inv
<1> QED
  BY <1>1, Invariant, PTL DEF Spec, DraftKept

(* As long as no save ran beside a change of references or was sent from   *)
(* an outdated editor, the stored references are those that the accepted   *)
(* changes make (DocumentEditor.tsx:531-542).                              *)
THEOREM ReferencesCorrect == Spec => []ReferencesKept
<1>1. Inv => ReferencesKept
  BY EditorHolds DEF Inv, ReferencesKept
<1> QED
  BY <1>1, Invariant, PTL

(* At rest, the list of documents and the list of versions are what the    *)
(* server has, after every change made here, in whichever view it was      *)
(* begun - if no call failed, no view was left in the middle of its fetch, *)
(* no change was answered beside a list's first fetch, and nobody else     *)
(* wrote since (DocumentContext.tsx:215-294, App.tsx:295-300,              *)
(* DocumentHistoryDrawer.tsx:114-131).                                     *)
THEOREM ListCorrect == Spec => []ListFollows
<1>1. Inv => ListFollows
  <2>1. PlacesInv => DP!ListFollows
    <3> SUFFICES ASSUME PlacesInv, DP!AtRest, fetching[view] = None, ~failed, ~left, ~early
                 PROVE  DP!Rows = DP!Listed(view)
      BY DEF DP!ListFollows
    <3>1. ~Moving
      BY DEF DP!AtRest, Moving, DP!At
    <3>2. data[view] = DP!Listed(view)
      BY <3>1 DEF PlacesInv, ListKept
    <3>3. DP!Listed(view) # None
      BY Listing, Assumptions DEF PlacesInv, DP!TypeOK, DP!PlacesAssumption
    <3> QED
      BY <3>2, <3>3 DEF DP!Rows
  <2> QED
    BY <2>1, HistoryHolds DEF Inv, ListFollows
<1> QED
  BY <1>1, Invariant, PTL

(* A document is in some node or in the bin, unless a call failed or two   *)
(* handlers were under way together (App.tsx:445-492).                     *)
THEOREM NowhereCorrect == Spec => []NeverNowhere
<1>1. Inv => NeverNowhere
  BY DEF Inv, PlacesInv, PlacesKept, NeverNowhere, DP!NeverNowhere, DP!AtRest
<1> QED
  BY <1>1, Invariant, PTL

(* What a clean-up deletes is what was counted for it, with options that   *)
(* were checked, unless they changed under the dry run                     *)
(* (SystemWorkflowRunsPage.tsx:297-319); and what a restoration writes is  *)
(* the row whose button was pressed.                                       *)
THEOREM DoneCorrect == Spec => DoneAsShown
<1>1. Inv /\ [Next]_vars => [(page = "cleanup" => RC!Confirmed) /\ (page = "drawer" => DH!Restored)]_vars
  <2> SUFFICES ASSUME Inv, Next
               PROVE  (page = "cleanup" => RC!Confirmed) /\ (page = "drawer" => DH!Restored)
    OBVIOUS
  <2>1. page = "cleanup" => RC!Next
    BY DEF Next
  <2>2. page = "drawer" => DH!Next
    BY DEF Next
  <2> QED
    BY <2>1, <2>2, NextConfirmed, NextRestored DEF Inv
<1> QED
  BY <1>1, Invariant, PTL DEF Spec, DoneAsShown
=============================================================================
