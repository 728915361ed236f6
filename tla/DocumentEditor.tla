--------------------------- MODULE DocumentEditor ---------------------------
(***************************************************************************)
(* The editor of one existing document (DocumentEditor.tsx in edit mode,   *)
(* with DocumentReferenceModal and useFileUpload) against the server.      *)
(*                                                                         *)
(* The form (`draft') is filled from the query cache: whenever the cached  *)
(* document is another one than before, an effect resets the whole form.   *)
(* The cache changes when a fetch is answered - after a save, on focus, or *)
(* when a flow is seen to succeed - and when a change of the references    *)
(* returns the updated document.  A save sends the form with the           *)
(* references of the cached document.  The server changes references by    *)
(* reading the document and writing all of them back.                      *)
(*                                                                         *)
(* A text is what was typed into it since the document was loaded, the     *)
(* version of foreign text under that, and the state of one pasted file.   *)
(***************************************************************************)
EXTENDS Naturals, FiniteSets

CONSTANTS Refs,        \* documents that may be referenced
          None, Asked,
          MaxEdits,    \* bound: edits typed
          MaxWrites    \* bound: saves, changes of references, and texts written by others

Texts == [foreign : Nat, edits : SUBSET (Nat \ {0}),
          file : {"none", "placeholder", "link", "failed"}]

(* A document as the API returns it                                        *)
Docs == [ver : Nat, text : Texts, refs : SUBSET Refs]

EditorAssumption == /\ None # Asked /\ {None, Asked} \cap Docs = {}
                    /\ {MaxEdits, MaxWrites} \subseteq Nat

VARIABLES server,  \* the stored document
          cache,   \* existingDoc, None while it is loading
          draft,   \* the form
          isOpen,  \* the editor is mounted
          fetch,   \* the fetch of the document: None, Asked, or its answer under way
          saving,  \* saves that are not answered
          changes, \* changes of references that are not answered
          loading, \* the modal of references takes no removal
          upload,  \* of the pasted file: "never", "running", "over"
          used,    \* counts, for the bounds: edits, saves, changes, foreign texts, lost answers
          exposed, \* history: the draft may be reset to something else
          overlap, \* history: the cache may be outdated
          mixed,   \* history: a save may have met a change of references
          agreed   \* history: the references that the last change left

doc == <<server, cache, draft, isOpen>>
hist == <<exposed, overlap, mixed, agreed>>
vars == <<doc, fetch, saving, changes, loading, upload, used, hist>>

Original == [foreign |-> 0, edits |-> {}, file |-> "none"]

Init == /\ server \in [ver : {0}, text : {Original}, refs : SUBSET Refs]
        /\ cache = None /\ fetch = Asked
        /\ draft = Original /\ isOpen = TRUE
        /\ saving = {} /\ changes = {} /\ loading = FALSE /\ upload = "never"
        /\ used = [edits |-> 0, saves |-> 0, changes |-> 0, foreign |-> 0, lost |-> 0]
        /\ exposed = FALSE /\ overlap = FALSE /\ mixed = FALSE /\ agreed = server.refs

Loaded == isOpen /\ cache # None

Count(what) == used' = [used EXCEPT ![what] = @ + 1]

MayWrite == used.saves + used.changes + used.foreign < MaxWrites

Written(text, refs) == [ver |-> server.ver + 1, text |-> text, refs |-> refs]

-----------------------------------------------------------------------------
(* The form and the query                                                  *)

(* The effect on existingDoc: equal answers keep the cached object, any    *)
(* other one resets the form.                                              *)
MutShow(d) == cache' = d /\ draft' = d.text

Show(d) == /\ cache' = d
           /\ draft' = IF d # cache THEN d.text ELSE draft

Type == /\ Loaded /\ used.edits < MaxEdits
        /\ Count("edits")
        /\ draft' = [draft EXCEPT !.edits = @ \cup {used.edits + 1}]
        /\ UNCHANGED <<server, cache, isOpen, fetch, saving, changes, loading, upload>>

(* Pasting a file leaves a placeholder, which the end of the upload        *)
(* replaces wherever the form has it by then.                              *)
Paste == /\ Loaded /\ upload = "never"
         /\ upload' = "running"
         /\ draft' = [draft EXCEPT !.file = "placeholder"]
         /\ UNCHANGED <<server, cache, isOpen, fetch, saving, changes, loading, used>>

(* What replaces it: a link to the file, or a note that it failed *)
UploadTexts == {"link", "failed"}

UploadEnds(text) ==
    /\ isOpen /\ upload = "running"
    /\ upload' = "over"
    /\ draft' = IF draft.file = "placeholder" THEN [draft EXCEPT !.file = text] ELSE draft
    /\ UNCHANGED <<server, cache, isOpen, fetch, saving, changes, loading, used>>

(* On focus, on reconnection, and when SyncButton or DocumentWorkflowButton *)
(* invalidates the document: a fetch under way is given up for a new one,  *)
(* the first one is taken for it.                                          *)
Refetch == /\ Loaded
           /\ fetch' = Asked
           /\ UNCHANGED <<doc, saving, changes, loading, upload, used>>

FetchRead == /\ fetch = Asked
             /\ fetch' = server
             /\ UNCHANGED <<doc, saving, changes, loading, upload, used>>

FetchAnswer == /\ fetch \notin {None, Asked}
               /\ Show(fetch)
               /\ fetch' = None
               /\ UNCHANGED <<server, isOpen, saving, changes, loading, upload, used>>

(* The model ends with the editor: what is under way has no form to return *)
(* to.                                                                     *)
CloseEditor == /\ isOpen' = FALSE /\ cache' = None /\ draft' = Original /\ fetch' = None
               /\ saving' = {} /\ changes' = {} /\ loading' = FALSE /\ upload' = "never"
               /\ UNCHANGED <<server, used>>

Leave == isOpen /\ CloseEditor

(* A fetch that fails closes the editor, also when a document is shown.    *)
FetchFails == isOpen /\ fetch # None /\ CloseEditor

-----------------------------------------------------------------------------
(* Saving                                                                  *)

Payload == [text |-> draft, refs |-> cache.refs]

(* Ctrl+S has no look at a save that is under way; the button has.         *)
Save == /\ Loaded /\ MayWrite
        /\ Count("saves")
        /\ saving' = saving \cup {[n |-> used.saves, doc |-> Payload, stored |-> FALSE]}
        /\ UNCHANGED <<doc, fetch, changes, loading, upload>>

PressSave == saving = {} /\ Save

(* The repository merges metadata: a payload without references leaves them. *)
Merged(refs) == IF refs = {} THEN server.refs ELSE refs

SaveStored(s) == /\ ~s.stored
                 /\ server' = Written(s.doc.text, Merged(s.doc.refs))
                 /\ saving' = (saving \ {s}) \cup {[s EXCEPT !.stored = TRUE]}
                 /\ UNCHANGED <<cache, draft, isOpen, fetch, changes, loading, upload, used>>

(* Mutant: a fetch under way is not given up for the one after the save.   *)
MutSaveAnswered(s) == /\ s.stored
                      /\ saving' = saving \ {s}
                      /\ fetch' = IF fetch = None THEN Asked ELSE fetch
                      /\ UNCHANGED <<doc, changes, loading, upload, used>>

SaveAnswered(s) == /\ s.stored
                   /\ saving' = saving \ {s}
                   /\ fetch' = Asked
                   /\ UNCHANGED <<doc, changes, loading, upload, used>>

(* The request or its answer is lost *)
SaveFails(s) == /\ saving' = saving \ {s}
                /\ IF s.stored THEN Count("lost") ELSE UNCHANGED used
                /\ UNCHANGED <<doc, fetch, changes, loading, upload>>

-----------------------------------------------------------------------------
(* References.  Documents can be added while a change is under way; only   *)
(* removing waits for `loading', which the first answer clears.            *)

(* heard: the modal waits for the answer *)
Request(r) == [n |-> used.changes, ref |-> r, adds |-> r \notin cache.refs, step |-> "sent",
               refs |-> {}, doc |-> None, heard |-> TRUE]

ChangeReference(r) ==
    /\ Loaded /\ MayWrite
    /\ Count("changes")
    /\ changes' = changes \cup {Request(r)} /\ loading' = TRUE
    /\ UNCHANGED <<doc, fetch, saving, upload>>

(* The picker leaves out what the document refers to, and loads its list   *)
(* again when that changes.                                                *)
Offered(r) == Loaded /\ r \notin cache.refs

AddReference(r) == Offered(r) /\ ChangeReference(r)

RemoveReference(r) == Loaded /\ r \in cache.refs /\ ~loading /\ ChangeReference(r)

Replace(c, d) == changes' = (changes \ {c}) \cup {d}

(* The server reads the document, refuses what is already so, and writes   *)
(* back all metadata that it read, of which the model has the references.  *)
ReferenceRead(c) ==
    /\ c.step = "sent" /\ c.adds = (c.ref \notin server.refs)
    /\ Replace(c, [c EXCEPT !.step = "read", !.refs = server.refs])
    /\ UNCHANGED <<doc, fetch, saving, loading, upload, used>>

Changed(c) == IF c.adds THEN c.refs \cup {c.ref} ELSE c.refs \ {c.ref}

ReferenceWrite(c) ==
    /\ c.step = "read"
    /\ server' = Written(server.text, Changed(c))
    /\ Replace(c, [c EXCEPT !.step = "written", !.doc = server'])
    /\ UNCHANGED <<cache, draft, isOpen, fetch, saving, loading, upload, used>>

(* Mutant: the returned document is not put into the cache.                *)
MutReferenceAnswer(c) ==
    /\ c.step = "written" /\ c.heard
    /\ changes' = changes \ {c} /\ loading' = FALSE
    /\ UNCHANGED <<doc, fetch, saving, upload, used>>

ReferenceAnswer(c) ==
    /\ c.step = "written" /\ c.heard
    /\ Show(c.doc)
    /\ changes' = changes \ {c} /\ loading' = FALSE
    /\ UNCHANGED <<server, isOpen, fetch, saving, upload, used>>

(* Refused, or the request or its answer is lost; a request that is given  *)
(* up may go on at the server.                                             *)
ReferenceFails(c) ==
    /\ loading' = (loading /\ ~c.heard)
    /\ \/ /\ changes' = changes \ {c}
          /\ IF c.step = "written" THEN Count("lost") ELSE UNCHANGED used
       \/ /\ c.heard /\ c.step # "written"
          /\ Replace(c, [c EXCEPT !.heard = FALSE])
          /\ UNCHANGED used
    /\ UNCHANGED <<doc, fetch, saving, upload>>

(* A flow, or somebody in another editor, replaces the text                *)
ForeignText ==
    /\ isOpen /\ MayWrite
    /\ Count("foreign")
    /\ server' = Written([Original EXCEPT !.foreign = used.foreign + 1], server.refs)
    /\ UNCHANGED <<cache, draft, isOpen, fetch, saving, changes, loading, upload>>

-----------------------------------------------------------------------------
(* History.  Text is exposed when it enters the form while the form shows  *)
(* an outdated document or something is under way that will replace it,    *)
(* when references are changed beside it, or when somebody else writes.    *)
Exposing == \/ /\ used'.edits # used.edits \/ upload' # upload
               /\ \/ saving # {} \/ changes # {} \/ cache # server
                  \/ fetch \notin {None, Asked, cache}
            \/ used'.changes # used.changes /\ draft # cache.text
            \/ used'.foreign # used.foreign

(* Nothing is under way, and form, cache and server agree *)
Calm == /\ saving = {} /\ changes = {} /\ cache = server /\ fetch \in {None, Asked, cache}
        /\ draft = cache.text

(* A change of references runs beside something else, somebody else writes,*)
(* or an answer is lost, and nothing has made up for it since.             *)
Overlapping == \/ changes' # {} /\ (fetch' # None \/ saving' # {} \/ Cardinality(changes') > 1)
               \/ used'.foreign # used.foreign \/ used'.lost # used.lost

Settled == fetch' = None /\ changes' = {} /\ saving' = {} /\ cache' = server'

(* A change of references meets another one or a save, or a save is sent   *)
(* from a cache that may be outdated.                                      *)
Mixing == \/ changes' # {} /\ (saving' # {} \/ Cardinality(changes') > 1)
          \/ used'.saves # used.saves /\ overlap

Accepts == \E c \in changes' \ changes : c.step = "written"

History == /\ exposed' = (~Calm' /\ (exposed \/ Exposing))
           /\ overlap' = (Overlapping \/ (overlap /\ ~Settled))
           /\ mixed' = (mixed \/ Mixing)
           /\ agreed' = IF Accepts THEN server'.refs ELSE agreed

-----------------------------------------------------------------------------
Form == Type \/ Paste \/ \E text \in UploadTexts : UploadEnds(text)

Query == Refetch \/ FetchRead \/ FetchAnswer \/ FetchFails \/ Leave

Saves == Save \/ PressSave \/ \E s \in saving : SaveStored(s) \/ SaveAnswered(s) \/ SaveFails(s)

References == \/ \E r \in Refs : AddReference(r) \/ RemoveReference(r)
              \/ \E c \in changes : \/ ReferenceRead(c) \/ ReferenceWrite(c)
                                   \/ ReferenceAnswer(c) \/ ReferenceFails(c)

Next == (Form \/ Query \/ Saves \/ References \/ ForeignText) /\ History

Spec == Init /\ [][Next]_vars
-----------------------------------------------------------------------------
(* Properties                                                              *)

Changes == [n : Nat, ref : Refs, adds : BOOLEAN, step : {"sent", "read", "written"},
            refs : SUBSET Refs, doc : Docs \cup {None}, heard : BOOLEAN]

(* The state has its types.                                                *)
TypeOK == /\ server \in Docs /\ cache \in Docs \cup {None} /\ draft \in Texts
          /\ isOpen \in BOOLEAN /\ fetch \in Docs \cup {None, Asked}
          /\ \A s \in saving : s.doc.text \in Texts /\ s.doc.refs \subseteq Refs
          /\ changes \subseteq Changes /\ loading \in BOOLEAN
          /\ upload \in {"never", "running", "over"}
          /\ agreed \subseteq Refs

Quiet == isOpen /\ fetch = None /\ saving = {} /\ changes = {}

(* Saves, also several at once and beside refetches that are given up, end *)
(* with the editor showing what is stored; so does a change of references  *)
(* that nothing else ran beside.  (invalidateQueries, :743; setQueryData)  *)
CacheCurrent == Quiet /\ ~overlap => cache = server

(* What is in the form stays there (:278-303) unless it was put there while*)
(* something was under way or the editor was outdated, references were     *)
(* changed beside it, or somebody else wrote: refetching as such, saving   *)
(* and a failing or lost request never cost text.                          *)
KeepsDraft == isOpen /\ isOpen' /\ ~exposed => /\ draft.edits \subseteq draft'.edits
                                               /\ draft.file = "link" => draft'.file = "link"

DraftKept == [][KeepsDraft]_vars

(* References change only by being changed (:531-542 keeps those of the    *)
(* document in the payload): as long as no save ran beside a change of     *)
(* references or was sent from an outdated editor, the stored references   *)
(* are those that the accepted changes make.                               *)
ReferencesKept == ~mixed => server.refs = agreed
=============================================================================
