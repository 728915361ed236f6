----------------------------- MODULE BatchFilter ----------------------------
(***************************************************************************)
(* What a batch of node workflows decides for one node: the preview        *)
(* (PreviewBatchWorkflow) tells the user what would happen, the worker of  *)
(* executeBatchAsync decides again, with code of its own, and hands the    *)
(* source documents it kept to TriggerWorkflow, which decides what the     *)
(* flow gets as inputs and as documents to generate.                       *)
(*                                                                         *)
(* The name filter is a flag of the request, documents have a type, and    *)
(* every call to NDR may fail.  The node does not change in between.       *)
(***************************************************************************)
EXTENDS Naturals, FiniteSets

CONSTANTS
    Doc,        \* documents of NDR
    DocType,    \* document types ("" among them)
    PageSize    \* documents TriggerWorkflow lists (100)

ASSUME FilterAssumption == PageSize \in Nat \ {0}

VARIABLES
    request,            \* the options of the batch, for this node
    node,               \* its source documents, its direct documents, and every type
    plan,               \* what the preview showed
    step,               \* of the preview, then of the worker
    ids,                \* sourceDocIDs the worker prefetched
    inputs, targets,    \* parameters of the flow
    outcome,            \* how the worker's item ended
    broken              \* a call to NDR has failed

filterVars == <<request, node, plan, step, ids, inputs, targets, outcome, broken>>

given == <<request, node>>

Request ==
    [named : BOOLEAN,          \* the name contains one of SkipNameContains
     skipNoSource : BOOLEAN,
     skipNoOutput : BOOLEAN,
     skipDocTypes : SUBSET DocType,
     generates : BOOLEAN]      \* the key starts with generate_node_documents

Node == [sources : SUBSET Doc, direct : SUBSET Doc, type : [Doc -> DocType]]

FilterInit ==
    /\ request \in Request
    /\ node \in Node
    /\ plan = "none" /\ step = "preview"
    /\ ids = {} /\ inputs = {} /\ targets = {}
    /\ outcome = "none"
    /\ broken = FALSE

(* The loops that drop the source documents of skipped types.              *)
Filtered == {d \in node.sources : node.type[d] \notin request.skipDocTypes}

(* nodeHasOutputDocuments reads every page.                                *)
HasOutputDocuments(sourceDocIDs) == node.direct \ sourceDocIDs # {}

-----------------------------------------------------------------------------
(* The preview.                                                            *)

Show(p) ==
    /\ step = "preview"
    /\ step' = "name"
    /\ plan' = p
    /\ UNCHANGED <<given, ids, inputs, targets, outcome>>

(* Mutant: the preview forgets the option skip_no_output.                  *)
MutPreviewSkips ==
    \/ request.named
    \/ Filtered = {} /\ request.skipNoSource

PreviewSkips ==
    \/ request.named
    \/ Filtered = {} /\ request.skipNoSource
    \/ request.skipNoOutput /\ ~HasOutputDocuments(Filtered)

Preview == Show(IF PreviewSkips THEN "skip" ELSE "execute") /\ UNCHANGED broken

(* Listing the sources fails, or the direct documents if they are needed.  *)
PreviewFails == Show("skip") /\ ~request.named /\ broken' = TRUE

-----------------------------------------------------------------------------
(* The worker.                                                             *)

End(o) ==
    /\ step' = "ended"
    /\ outcome' = o
    /\ UNCHANGED <<given, plan, ids, inputs, targets>>

NDRFails == broken' = TRUE /\ End("failed")

(* Mutant: skipped types alone do not need the source documents.           *)
MutNeedsSources == request.skipNoSource \/ request.skipNoOutput

NeedsSources == request.skipNoSource \/ request.skipNoOutput \/ request.skipDocTypes # {}

CheckName ==
    /\ step = "name"
    /\ UNCHANGED broken
    /\ IF request.named
       THEN End("skipped")
       ELSE /\ step' = IF NeedsSources THEN "sources" ELSE "trigger"
            /\ UNCHANGED <<given, plan, ids, inputs, targets, outcome>>

CheckSources ==
    /\ step = "sources"
    /\ \/ NDRFails
       \/ Filtered = {} /\ request.skipNoSource /\ End("skipped") /\ UNCHANGED broken
       \/ /\ Filtered # {} \/ ~request.skipNoSource
          /\ ids' = Filtered
          /\ step' = IF request.skipNoOutput THEN "output" ELSE "trigger"
          /\ UNCHANGED <<given, plan, inputs, targets, outcome, broken>>

CheckOutput ==
    /\ step = "output"
    /\ \/ NDRFails
       \/ ~HasOutputDocuments(ids) /\ End("skipped") /\ UNCHANGED broken
       \/ /\ HasOutputDocuments(ids)
          /\ step' = "trigger"
          /\ UNCHANGED <<given, plan, ids, inputs, targets, outcome, broken>>

-----------------------------------------------------------------------------
(* TriggerWorkflow.                                                        *)

(* Prefetched source documents are used if there are any (len > 0), and    *)
(* otherwise all of them are listed.                                       *)
FindInputs ==
    /\ step = "trigger"
    /\ \/ ids = {} /\ NDRFails
       \/ /\ inputs' = IF ids # {} THEN ids ELSE node.sources
          /\ step' = IF request.generates THEN "targets" ELSE "launch"
          /\ UNCHANGED <<given, plan, ids, targets, outcome, broken>>

(* One page of the direct documents, without the inputs.                   *)
FirstPage ==
    IF Cardinality(node.direct) <= PageSize
    THEN {node.direct}
    ELSE {page \in SUBSET node.direct : Cardinality(page) = PageSize}

FindTargets ==
    /\ step = "targets"
    /\ \/ NDRFails
       \/ \E page \in FirstPage :
             /\ targets' = page \ inputs
             /\ step' = "launch"
             /\ UNCHANGED <<given, plan, ids, inputs, outcome, broken>>

(* WorkflowRun models what happens from here on.                           *)
Launch ==
    /\ step = "launch"
    /\ End("success") \/ End("failed")
    /\ UNCHANGED broken

FilterNext ==
    \/ Preview \/ PreviewFails
    \/ CheckName \/ CheckSources \/ CheckOutput
    \/ FindInputs \/ FindTargets \/ Launch

FilterSpec == FilterInit /\ [][FilterNext]_filterVars

-----------------------------------------------------------------------------
FilterTypeOK ==
    /\ request \in Request
    /\ node \in Node
    /\ plan \in {"none", "skip", "execute"}
    /\ step \in {"preview", "name", "sources", "output", "trigger", "targets", "launch", "ended"}
    /\ ids \subseteq Doc /\ inputs \subseteq Doc /\ targets \subseteq Doc
    /\ outcome \in {"none", "success", "failed", "skipped"}
    /\ broken \in BOOLEAN

Launched == outcome = "success"

OfSkippedType == {d \in Doc : node.type[d] \in request.skipDocTypes}

(* The preview and the worker have each their own copy of the filters, the *)
(* worker's with a condition on when to read the source documents: as long *)
(* as NDR answers, they skip the same nodes.                               *)
PreviewIsHonest ==
    outcome # "none" /\ ~broken => (plan = "skip" <=> outcome = "skipped")

(* A flow that is launched under skip_no_source has inputs, and none of    *)
(* them has a skipped type: TriggerWorkflow never falls back to listing    *)
(* all of them.                                                            *)
InputsAreWanted ==
    Launched /\ request.skipNoSource => inputs # {} /\ inputs \cap OfSkippedType = {}

(* Whatever the options, a node that has a source document of a wanted     *)
(* type gets those and no others, although each option decides separately  *)
(* whether source documents are prefetched.                                *)
WantedSourcesSuffice ==
    Launched /\ Filtered # {} => inputs = Filtered

(* A flow gets the source documents that are wanted, if they are asked for *)
(* or if there are any.                                                    *)
InputsAreRight == InputsAreWanted /\ WantedSourcesSuffice
=============================================================================
