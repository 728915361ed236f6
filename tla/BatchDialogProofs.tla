-------------------------- MODULE BatchDialogProofs -------------------------
(***************************************************************************)
(* Proofs about BatchDialog, for any selections, workflows, options and    *)
(* bounds.                                                                 *)
(***************************************************************************)
EXTENDS BatchDialog, FiniteSetTheorems, TLAPS

Totals == [success : 0..1, failed : 0..1]

ResultSet == [node : Nat, batch : Nat, counts : Totals]

CallSet == [run : Nat, ask : Asks, i : Nat, results : Seq(ResultSet)]

BatchSet == [run : Nat, ask : Asks, i : Nat, status : Finished \cup {"running"}, counts : Totals]

(* What TypeOK leaves open: of which kind requests and batches are, and    *)
(* that none belongs to an execution that is still to come.                *)
Kinds == /\ calls \subseteq CallSet /\ batches \in Seq(BatchSet)
         /\ executionResults \in Seq(ResultSet)
         /\ run \in Nat /\ clean \in BOOLEAN /\ crossed \in BOOLEAN
         /\ isExecuting => run >= 1
         /\ \A b \in DOMAIN batches : batches[b].run <= run

(* A preview is answered before its step is reached.                       *)
PreviewKept ==
    /\ currentStep \in {"preview", "execute"} => previewing = None
    /\ ~crossed /\ previewing # None => previewing = Ask
    /\ ~crossed /\ currentStep = "preview" => previewData.ask = Ask

(* An execution either waits for one request, past everything it started,  *)
(* or for the batch that is polled, which is its last.                     *)
WaitsForCall == /\ currentBatchId = 0
                /\ \E c \in calls : /\ calls = {c} /\ c.run = run
                                    /\ \A b \in Mine : batches[b].status # "running" /\ batches[b].i < c.i

WaitsForBatch == /\ calls = {} /\ currentBatchId \in Mine
                 /\ batches[currentBatchId].i = currentNodeIndex
                 /\ \A b \in Mine \ {currentBatchId} :
                       batches[b].status # "running" /\ batches[b].i < currentNodeIndex

(* Everything of the present execution is for what the dialog shows, node  *)
(* after node.                                                             *)
Alike == \A b \in Mine : batches[b].ask = Ask

InOrder == \A b, d \in Mine : batches[b].i = batches[d].i => b = d

Serial ==
    /\ clean /\ currentStep # "execute" => calls = {}
    /\ clean /\ currentStep \in {"execute", "finished"} =>
          open /\ Alike /\ InOrder /\ \A c \in calls : c.ask = Ask
    /\ clean /\ currentStep = "execute" => WaitsForCall \/ WaitsForBatch

IInv == TypeOK /\ Kinds /\ PreviewKept /\ Serial

(* Results for nodes before the i-th, in the order of the nodes, each with *)
(* what its own batch - one of these, and over - has reported.             *)
Filed(ns, bs, mine, res, i) ==
    \A k \in DOMAIN res :
        /\ \E p \in DOMAIN ns :
              /\ p < i /\ ns[p] = res[k].node
              /\ res[k].batch # 0 => /\ res[k].batch \in mine /\ bs[res[k].batch].i = p
                                     /\ bs[res[k].batch].status # "running"
              /\ \A l \in 1..(k - 1) : \E q \in DOMAIN ns : q < p /\ ns[q] = res[l].node
        /\ res[k].counts = IF res[k].batch = 0 THEN [success |-> 0, failed |-> 1]
                                               ELSE bs[res[k].batch].counts

Known(res, ids) == \A b \in ids : \E k \in DOMAIN res : res[k].batch = b

(* The results on the screen lack the refusals that a request carries on;  *)
(* both are in order, and nothing but the batch that is polled is missing. *)
Filing ==
    /\ clean /\ currentStep = "execute" =>
          /\ \A c \in calls :
                /\ Filed(nodes, batches, Mine, executionResults, c.i) /\ Known(executionResults, Mine)
                /\ Filed(nodes, batches, Mine, c.results, c.i) /\ Known(c.results, Mine)
          /\ calls = {} => /\ Filed(nodes, batches, Mine, executionResults, currentNodeIndex)
                           /\ Known(executionResults, Mine \ {currentBatchId})
    /\ clean /\ currentStep = "finished" =>
          /\ Filed(nodes, batches, Mine, executionResults, Len(nodes) + 1)
          /\ Known(executionResults, Mine)

-----------------------------------------------------------------------------
(* Facts about the data                                                    *)

LEMMA AskType == ASSUME TypeOK PROVE Ask \in Asks /\ Ask.nodes = nodes
BY DEF TypeOK, Ask, Asks

LEMMA NodesType ==
    ASSUME NEW ask \in Asks
    PROVE  ask.nodes \in Seq(Nat) /\ ask.nodes # <<>> /\ Len(ask.nodes) \in Nat \ {0}
           /\ DOMAIN ask.nodes = 1..Len(ask.nodes)
BY DialogAssumption DEF Asks

LEMMA BatchType ==
    ASSUME Kinds, NEW b \in DOMAIN batches
    PROVE  batches[b].run \in Nat /\ batches[b].i \in Nat /\ batches[b].run <= run
           /\ batches[b].counts \in Totals
<1>1. batches[b] \in BatchSet
  BY DEF Kinds
<1> QED
  BY <1>1 DEF Kinds, BatchSet

(* A batch that is added leaves the others where they are.                 *)
LEMMA Added ==
    ASSUME NEW s \in Seq(BatchSet), NEW x \in BatchSet
    PROVE  /\ Append(s, x) \in Seq(BatchSet)
           /\ DOMAIN Append(s, x) = 1..(Len(s) + 1) /\ DOMAIN s = 1..Len(s)
           /\ Len(Append(s, x)) = Len(s) + 1 /\ Len(s) \in Nat
           /\ Append(s, x)[Len(s) + 1] = x
           /\ \A b \in DOMAIN s : Append(s, x)[b] = s[b]
OBVIOUS

(* A batch that ends changes its status and its counts only.               *)
LEMMA Ended ==
    ASSUME Kinds, NEW b \in DOMAIN batches, NEW n \in Counts, BatchEnds(b, n)
    PROVE  /\ batches' \in Seq(BatchSet) /\ Len(batches') = Len(batches)
           /\ DOMAIN batches' = DOMAIN batches /\ batches'[b].status # "running"
           /\ \A d \in DOMAIN batches :
                 /\ batches'[d].run = batches[d].run /\ batches'[d].ask = batches[d].ask
                 /\ batches'[d].i = batches[d].i
                 /\ d # b => batches'[d] = batches[d]
<1> DEFINE st == IF n.success = 0 THEN "failed" ELSE "completed"
           new == [batches[b] EXCEPT !.counts = n, !.status = st]
<1>1. n \in Totals /\ st \in Finished
  BY DEF Counts, Totals, Finished
<1>2. batches \in Seq(BatchSet) /\ batches[b] \in BatchSet
  BY DEF Kinds
<1>3. new \in BatchSet /\ new.status = st
      /\ new.run = batches[b].run /\ new.ask = batches[b].ask /\ new.i = batches[b].i
  BY <1>1, <1>2 DEF BatchSet
<1>4. batches' = [batches EXCEPT ![b] = new]
  BY <1>2 DEF BatchEnds, BatchSet
<1>5. st # "running"
  OBVIOUS
<1> HIDE DEF new, st
<1> QED
  BY <1>2, <1>3, <1>4, <1>5

-----------------------------------------------------------------------------
(* The initial states                                                      *)

LEMMA InitIInv == Init => IInv
<1> SUFFICES ASSUME Init PROVE IInv
  OBVIOUS
<1>1. saved.last = None /\ saved.configs \in [Keys -> Configs]
  BY DialogAssumption DEF Init
<1>2. workflowKey \in Keys \cup {SyncKey, None} /\ config \in Configs
  BY DialogAssumption DEF Init
<1>3. /\ currentStep = "config" /\ previewing = None /\ ~isExecuting
      /\ calls = {} /\ batches = <<>> /\ executionResults = <<>>
      /\ run = 0 /\ clean \in BOOLEAN /\ crossed \in BOOLEAN
  BY DEF Init
<1>4. /\ dialog \in {"workflow", "sync"} /\ open \in BOOLEAN /\ nodes \in Targets
      /\ previewData = None /\ currentNodeIndex = 1 /\ currentBatchId = 0 /\ batchStatus = None
  BY DEF Init
<1>5. TypeOK
  BY <1>1, <1>2, <1>3, <1>4 DEF TypeOK
<1>6. Kinds
  <2>1. calls \subseteq CallSet /\ batches \in Seq(BatchSet) /\ executionResults \in Seq(ResultSet)
    BY <1>3
  <2> QED
    BY <1>3, <2>1 DEF Kinds
<1>7. PreviewKept
  BY <1>3 DEF PreviewKept
<1>8. Serial
  BY <1>3 DEF Serial
<1> QED
  BY <1>5, <1>6, <1>7, <1>8 DEF IInv

-----------------------------------------------------------------------------
(* Steps that leave the execution alone                                    *)

LEMMA Undisturbed ==
    ASSUME IInv, UNCHANGED <<calls, batches, run, clean, currentBatchId, currentNodeIndex>>,
           \/ currentStep # "execute" /\ currentStep' \in {"config", "preview"}
           \/ currentStep' = currentStep
              /\ (clean /\ currentStep \in {"execute", "finished"} => Ask' = Ask /\ open' = open)
    PROVE  Serial'
<1>1. Mine' = Mine
  BY DEF Mine
<1>2. CASE currentStep # "execute" /\ currentStep' \in {"config", "preview"}
  BY <1>2 DEF IInv, Serial
<1>3. CASE currentStep' = currentStep
           /\ (clean /\ currentStep \in {"execute", "finished"} => Ask' = Ask /\ open' = open)
  BY <1>1, <1>3 DEF IInv, Serial, WaitsForCall, WaitsForBatch, Alike, InOrder
<1> QED
  BY <1>2, <1>3

LEMMA ConfigureIInv ==
    ASSUME IInv,
           \/ \E t \in Targets : Open(t)
           \/ \E k \in Keys : ChooseWorkflow(k)
           \/ \E c \in Configs : Configure(c)
           \/ Previewing \/ PreviewFails \/ Back
           \/ \E can \in BOOLEAN : PreviewAnswer(can)
    PROVE  IInv'
<1> USE DEF IInv
<1>1. ASSUME NEW t \in Targets, Open(t) PROVE IInv'
  <2>1. TypeOK' /\ Kinds'
    BY <1>1 DEF Open, ShowDialog, TypeOK, Kinds, conf, exec
  <2>2. PreviewKept'
    BY <1>1 DEF Open, ShowDialog, PreviewKept, conf, exec, TypeOK, Kinds
  <2>3. Serial'
    BY <1>1, Undisturbed DEF Open, exec, Serial
  <2> QED
    BY <2>1, <2>2, <2>3
<1>2. ASSUME NEW k \in Keys, ChooseWorkflow(k) PROVE IInv'
  <2>1. TypeOK' /\ Kinds'
    BY <1>2 DEF ChooseWorkflow, Configuring, TypeOK, Kinds, ui, exec
  <2>2. PreviewKept'
    BY <1>2 DEF ChooseWorkflow, Configuring, PreviewKept, ui, exec, Kinds
  <2>3. Serial'
    BY <1>2, Undisturbed DEF ChooseWorkflow, Configuring, exec
  <2> QED
    BY <2>1, <2>2, <2>3
<1>3. ASSUME NEW c \in Configs, Configure(c) PROVE IInv'
  <2>1. TypeOK' /\ Kinds'
    BY <1>3 DEF Configure, Configuring, TypeOK, Kinds, ui, exec
  <2>2. PreviewKept'
    BY <1>3 DEF Configure, Configuring, PreviewKept, ui, exec, Kinds
  <2>3. Serial'
    BY <1>3, Undisturbed DEF Configure, Configuring, exec
  <2> QED
    BY <2>1, <2>2, <2>3
<1>4. CASE Previewing
  <2>1. TypeOK' /\ Kinds'
    <3>1. previewing' \in Asks
      BY <1>4, AskType DEF Previewing
    <3>2. crossed' \in BOOLEAN
      BY <1>4 DEF Previewing
    <3> QED
      BY <1>4, <3>1, <3>2 DEF Previewing, TypeOK, Kinds, ui, conf, exec
  <2>2. PreviewKept'
    BY <1>4 DEF Previewing, Configuring, PreviewKept, Ask, ui, conf
  <2>3. Serial'
    BY <1>4, Undisturbed DEF Previewing, Configuring, exec
  <2> QED
    BY <2>1, <2>2, <2>3
<1>5. CASE PreviewFails
  <2>1. TypeOK' /\ Kinds'
    BY <1>5 DEF PreviewFails, TypeOK, Kinds, ui, conf, exec, hist
  <2>2. PreviewKept'
    BY <1>5 DEF PreviewFails, PreviewKept, Ask, ui, conf, hist
  <2>3. Serial'
    BY <1>5, Undisturbed DEF PreviewFails, Ask, ui, conf, exec, hist
  <2> QED
    BY <2>1, <2>2, <2>3
<1>6. CASE Back
  <2>1. TypeOK' /\ Kinds'
    BY <1>6 DEF Back, Previewed, TypeOK, Kinds, ui, conf, exec, hist
  <2>2. PreviewKept'
    BY <1>6 DEF Back, Previewed, PreviewKept, Ask, ui, conf, hist
  <2>3. Serial'
    BY <1>6, Undisturbed DEF Back, Previewed, exec, hist
  <2> QED
    BY <2>1, <2>2, <2>3
<1>7. ASSUME NEW can \in BOOLEAN, PreviewAnswer(can) PROVE IInv'
  <2>1. currentStep # "execute" /\ previewing \in Asks
    BY <1>7 DEF PreviewAnswer, PreviewKept, TypeOK
  <2>2. TypeOK' /\ Kinds'
    BY <1>7, <2>1 DEF PreviewAnswer, Merged, TypeOK, Kinds, ui, conf, exec, hist
  <2>3. PreviewKept'
    BY <1>7 DEF PreviewAnswer, Merged, PreviewKept, Ask, ui, conf, hist
  <2>4. Serial'
    BY <1>7, <2>1, Undisturbed DEF PreviewAnswer, exec, hist
  <2> QED
    BY <2>2, <2>3, <2>4
<1> QED
  BY <1>1, <1>2, <1>3, <1>4, <1>5, <1>6, <1>7

LEMMA CloseIInv ==
    ASSUME IInv, Close, clean' \in BOOLEAN, clean' => calls = {} PROVE IInv'
<1> USE DEF IInv
<1>1. TypeOK'
  <2>1. workflowKey' \in Keys \cup {SyncKey, None} /\ config' \in Configs
    BY DialogAssumption DEF Close, ResetWorkflow, ResetSync, TypeOK
  <2>2. currentNodeIndex' \in Nat \ {0} /\ currentBatchId' = 0 /\ batchStatus' = None
        /\ currentBatchId' \in 0..Len(batches')
    BY DEF Close, Kinds
  <2>3. \A c \in calls' : c.run \in 1..run' /\ c.ask \in Asks /\ c.i \in DOMAIN c.ask.nodes
    BY DEF Close, TypeOK
  <2>4. \A b \in DOMAIN batches' : batches'[b].i \in DOMAIN batches'[b].ask.nodes
    BY DEF Close, TypeOK
  <2> QED
    BY <2>1, <2>2, <2>3, <2>4 DEF Close, TypeOK
<1>2. Kinds'
  <2>1. crossed' \in BOOLEAN /\ ~isExecuting' /\ executionResults' \in Seq(ResultSet)
    BY DEF Close
  <2>2. calls' = calls /\ ((batches' = <<>> /\ run' = 0) \/ UNCHANGED <<batches, run>>)
    BY DEF Close
  <2>3. /\ calls' \subseteq CallSet /\ batches' \in Seq(BatchSet) /\ run' \in Nat
        /\ \A b \in DOMAIN batches' : batches'[b].run <= run'
    <3>1. CASE batches' = <<>> /\ run' = 0
      BY <2>2, <3>1 DEF Kinds
    <3>2. CASE UNCHANGED <<batches, run>>
      BY <2>2, <3>2 DEF Kinds
    <3> QED
      BY <2>2, <3>1, <3>2
  <2> QED
    BY <2>1, <2>3 DEF Kinds
<1>3. PreviewKept'
  BY DEF Close, PreviewKept
<1>4. Serial'
  BY DEF Close, Serial
<1> QED
  BY <1>1, <1>2, <1>3, <1>4

-----------------------------------------------------------------------------
(* Steps of the execution                                                  *)

(* Nothing is known of an execution that begins.                           *)
LEMMA StartIInv ==
    ASSUME IInv, MayExecute, Start,
           saved'.last \in Keys \cup {SyncKey, None}, saved'.configs \in [Keys -> Configs]
    PROVE  IInv'
<1> USE DEF IInv
<1> DEFINE c == Call(run + 1, 1, <<>>)
<1>1. c \in CallSet /\ c.run = run + 1 /\ c.ask = Ask /\ c.i = 1 /\ 1 \in DOMAIN c.ask.nodes
  <2>1. Ask \in Asks /\ 1 \in DOMAIN Ask.nodes
    BY AskType, NodesType
  <2> QED
    BY <2>1 DEF Call, CallSet, Kinds
<1>2. /\ calls' = calls \cup {c} /\ batches' = batches /\ run' = run + 1
      /\ currentStep' = "execute" /\ isExecuting' /\ executionResults' = <<>>
      /\ currentNodeIndex' = 1 /\ previewData' = None
      /\ UNCHANGED <<ui, workflowKey, config, currentBatchId, batchStatus, previewing>>
  BY DEF Start
<1> HIDE DEF c
<1>3. run' \in Nat /\ run' >= 1 /\ run' > run
  BY <1>2 DEF Kinds
<1>4. TypeOK'
  <2>1. \A d \in calls' : d.run \in 1..run' /\ d.ask \in Asks /\ d.i \in DOMAIN d.ask.nodes
    <3>1. ASSUME NEW d \in calls
          PROVE  d.run \in 1..run' /\ d.ask \in Asks /\ d.i \in DOMAIN d.ask.nodes
      <4>1. d.run \in 1..run /\ d.ask \in Asks /\ d.i \in DOMAIN d.ask.nodes
        BY DEF TypeOK
      <4> QED
        BY <4>1, <1>2, <1>3 DEF Kinds
    <3>2. c.run \in 1..run' /\ c.ask \in Asks /\ c.i \in DOMAIN c.ask.nodes
      BY <1>1, <1>2, <1>3, AskType DEF Kinds
    <3> QED
      BY <3>1, <3>2, <1>2
  <2> QED
    BY <1>2, <2>1 DEF TypeOK, ui
<1>5. Kinds'
  <2>1. clean' \in BOOLEAN /\ crossed' \in BOOLEAN
    BY DEF Start
  <2>2. executionResults' \in Seq(ResultSet)
    BY <1>2
  <2>3. \A b \in DOMAIN batches' : batches'[b].run <= run'
    <3>1. \A b \in DOMAIN batches : batches[b].run \in Nat /\ batches[b].run <= run
      BY BatchType
    <3> QED
      BY <1>2, <1>3, <3>1 DEF Kinds
  <2> QED
    BY <1>1, <1>2, <1>3, <2>1, <2>2, <2>3 DEF Kinds
<1>6. PreviewKept'
  BY <1>2 DEF PreviewKept, MayExecute, Previewed
<1>7. Mine' = {}
  BY <1>2, <1>3 DEF Mine, Kinds, BatchSet
<1>8. Serial'
  <2>1. Ask' = Ask /\ open'
    BY <1>2 DEF Ask, ui, MayExecute, Previewed
  <2>2. clean' => calls = {} /\ currentBatchId = 0
    BY DEF Start
  <2>3. clean' => WaitsForCall'
    BY <1>1, <1>2, <1>7, <2>2 DEF WaitsForCall
  <2>4. Alike' /\ InOrder'
    BY <1>7 DEF Alike, InOrder
  <2> QED
    BY <1>1, <1>2, <2>1, <2>2, <2>3, <2>4 DEF Serial
<1> QED
  BY <1>4, <1>5, <1>6, <1>8

(* A clean execution that has a request has no other one, and no batch.    *)
LEMMA OnlyCall ==
    ASSUME IInv, clean, NEW c \in calls
    PROVE  /\ currentStep = "execute" /\ open /\ Alike /\ InOrder
           /\ calls = {c} /\ c.run = run /\ c.ask = Ask /\ currentBatchId = 0
           /\ \A b \in Mine : batches[b].status # "running" /\ batches[b].i < c.i
BY DEF IInv, Serial, WaitsForCall, WaitsForBatch

LEMMA AcceptedIInv ==
    ASSUME IInv, NEW c \in calls, BatchAccepted(c) PROVE IInv'
<1> USE DEF IInv
<1> DEFINE x == NewBatch(c)
           n == Len(batches) + 1
<1>1. /\ c \in CallSet /\ c.run \in 1..run /\ c.ask \in Asks /\ c.i \in DOMAIN c.ask.nodes
      /\ c.i \in Nat \ {0}
  <2>1. c \in CallSet /\ c.run \in 1..run /\ c.ask \in Asks /\ c.i \in DOMAIN c.ask.nodes
    BY DEF TypeOK, Kinds
  <2> QED
    BY <2>1, NodesType
<1>2. x \in BatchSet /\ x.run = c.run /\ x.ask = c.ask /\ x.i = c.i
  BY <1>1 DEF NewBatch, BatchSet, CallSet, Zero, Totals
<1>3. /\ batches' = Append(batches, x) /\ calls' = calls \ {c}
      /\ currentNodeIndex' = c.i /\ currentBatchId' = n /\ batchStatus' = None
      /\ UNCHANGED <<ui, currentStep, conf, previewData, executionResults, isExecuting,
                     previewing, hist>>
  BY DEF BatchAccepted
<1> HIDE DEF x
<1>4. /\ batches' \in Seq(BatchSet) /\ DOMAIN batches' = DOMAIN batches \cup {n}
      /\ Len(batches') = n /\ n \in Nat /\ n \notin DOMAIN batches
      /\ batches'[n] = x /\ \A b \in DOMAIN batches : batches'[b] = batches[b]
  BY <1>2, <1>3, Added DEF Kinds
<1>5. TypeOK'
  <2>1. \A b \in DOMAIN batches' : batches'[b].i \in DOMAIN batches'[b].ask.nodes
    BY <1>1, <1>2, <1>4 DEF TypeOK
  <2>2. currentBatchId' \in 0..Len(batches')
    BY <1>3, <1>4
  <2> QED
    BY <1>1, <1>3, <2>1, <2>2 DEF TypeOK, ui, conf, hist
<1>6. Kinds'
  BY <1>1, <1>2, <1>3, <1>4 DEF Kinds, hist
<1>7. PreviewKept'
  BY <1>3 DEF PreviewKept, Ask, ui, conf, hist
<1>8. Serial'
  <2>1. CASE clean
    <3>1. /\ currentStep = "execute" /\ open /\ Alike /\ InOrder
          /\ calls = {c} /\ c.run = run /\ c.ask = Ask
          /\ \A b \in Mine : batches[b].status # "running" /\ batches[b].i < c.i
      BY <2>1, OnlyCall
    <3>2. Mine' = Mine \cup {n} /\ n \notin Mine /\ Ask' = Ask /\ calls' = {}
      BY <1>2, <1>3, <1>4, <3>1 DEF Mine, Ask, ui, conf, hist
    <3>3. \A b \in Mine : batches'[b] = batches[b] /\ batches[b].i \in Nat
      BY <1>4, BatchType DEF Mine
    <3>4. Alike' /\ InOrder'
      BY <1>1, <1>2, <1>4, <3>1, <3>2, <3>3 DEF Alike, InOrder
    <3>5. WaitsForBatch'
      BY <1>2, <1>3, <1>4, <3>1, <3>2, <3>3 DEF WaitsForBatch
    <3> QED
      BY <1>3, <2>1, <3>1, <3>2, <3>4, <3>5 DEF Serial, ui, hist
  <2>2. CASE ~clean
    BY <1>3, <2>2 DEF Serial, hist
  <2> QED
    BY <2>1, <2>2
<1> QED
  BY <1>5, <1>6, <1>7, <1>8

(* Going on from a node: to a request for the next one, or to the end.     *)
LEMMA Advance ==
    ASSUME TypeOK, Kinds, NEW c \in CallSet, c.run \in 1..run, c.ask \in Asks, c.i \in Nat \ {0},
           NEW done, NEW res \in Seq(ResultSet), NextNode(c, done, res)
    PROVE  /\ \/ /\ UNCHANGED <<currentStep, isExecuting>>
                 /\ c.i < Len(c.ask.nodes)
                 /\ \E d \in CallSet : /\ calls' = (calls \ {done}) \cup {d} /\ d.results = res
                                       /\ d.run = c.run /\ d.ask = c.ask /\ d.i = c.i + 1
              \/ /\ ~(c.i < Len(c.ask.nodes))
                 /\ calls' = calls \ {done}
                 /\ currentStep' = "finished" /\ ~isExecuting'
           /\ isExecuting' <=> currentStep' = "execute"
           /\ calls' \subseteq CallSet
           /\ \A d \in calls' : d.run \in 1..run /\ d.ask \in Asks /\ d.i \in DOMAIN d.ask.nodes
<1>1. CASE c.i < Len(c.ask.nodes)
  <2> DEFINE d == [c EXCEPT !.i = @ + 1, !.results = res]
  <2>1. d \in CallSet /\ d.run = c.run /\ d.ask = c.ask /\ d.i = c.i + 1 /\ d.results = res
    <3> DEFINE next == [c EXCEPT !.i = @ + 1]
    <3>1. next \in CallSet /\ next.run = c.run /\ next.ask = c.ask /\ next.i = c.i + 1
      BY DEF CallSet
    <3>2. d = [next EXCEPT !.results = res]
      OBVIOUS
    <3> HIDE DEF next, d
    <3>3. d \in CallSet /\ d.run = next.run /\ d.ask = next.ask /\ d.i = next.i /\ d.results = res
      BY <3>1, <3>2 DEF CallSet
    <3> QED
      BY <3>1, <3>3
  <2>2. calls' = (calls \ {done}) \cup {d} /\ UNCHANGED <<currentStep, isExecuting>>
    BY <1>1 DEF NextNode
  <2> HIDE DEF d
  <2>3. d.i \in DOMAIN d.ask.nodes
    BY <1>1, <2>1, NodesType
  <2>4. calls' \subseteq CallSet
    BY <2>1, <2>2 DEF Kinds
  <2>5. \A e \in calls' : e.run \in 1..run /\ e.ask \in Asks /\ e.i \in DOMAIN e.ask.nodes
    BY <2>1, <2>2, <2>3 DEF TypeOK
  <2>6. isExecuting' <=> currentStep' = "execute"
    BY <2>2 DEF TypeOK
  <2> QED
    BY <1>1, <2>1, <2>2, <2>4, <2>5, <2>6
<1>2. CASE ~(c.i < Len(c.ask.nodes))
  <2>1. calls' = calls \ {done} /\ currentStep' = "finished" /\ ~isExecuting'
    BY <1>2 DEF NextNode
  <2> QED
    BY <1>2, <2>1 DEF TypeOK, Kinds
<1> QED
  BY <1>1, <1>2

LEMMA RefusedIInv ==
    ASSUME IInv, NEW c \in calls, BatchRefused(c) PROVE IInv'
<1> USE DEF IInv
<1> DEFINE x == [node |-> c.ask.nodes[c.i], batch |-> 0, counts |-> [success |-> 0, failed |-> 1]]
           res == Append(c.results, x)
<1>1. c \in CallSet /\ c.run \in 1..run /\ c.ask \in Asks /\ c.i \in DOMAIN c.ask.nodes
  BY DEF TypeOK, Kinds
<1>2. c.i \in Nat \ {0} /\ c.ask.nodes[c.i] \in Nat
  BY <1>1, NodesType
<1>3. res \in Seq(ResultSet)
  <2>1. x \in ResultSet
    BY <1>2 DEF ResultSet, Totals
  <2>2. c.results \in Seq(ResultSet)
    BY <1>1 DEF CallSet
  <2> QED
    BY <2>1, <2>2
<1>4. /\ executionResults' \in {executionResults, res}
      /\ NextNode(c, c, res)
      /\ UNCHANGED <<ui, conf, previewData, currentNodeIndex, currentBatchId, batchStatus,
                     previewing, batches, hist>>
  BY DEF BatchRefused
<1> HIDE DEF res
<1>5. /\ \/ /\ UNCHANGED <<currentStep, isExecuting>>
            /\ \E d \in CallSet : /\ calls' = (calls \ {c}) \cup {d}
                                  /\ d.run = c.run /\ d.ask = c.ask /\ d.i = c.i + 1
         \/ /\ calls' = calls \ {c}
            /\ currentStep' = "finished" /\ ~isExecuting'
      /\ isExecuting' <=> currentStep' = "execute"
      /\ calls' \subseteq CallSet
      /\ \A d \in calls' : d.run \in 1..run /\ d.ask \in Asks /\ d.i \in DOMAIN d.ask.nodes
  BY <1>1, <1>2, <1>3, <1>4, Advance
<1>6. TypeOK'
  BY <1>4, <1>5 DEF TypeOK, ui, conf, hist
<1>7. Kinds'
  <2>1. isExecuting' => run >= 1
    BY <1>1 DEF Kinds
  <2> QED
    BY <1>3, <1>4, <1>5, <2>1 DEF Kinds, hist
<1>8. PreviewKept'
  BY <1>4, <1>5 DEF PreviewKept, Ask, ui, conf, hist
<1>9. Serial'
  <2>1. CASE clean
    <3>1. /\ currentStep = "execute" /\ open /\ Alike /\ InOrder
          /\ calls = {c} /\ c.run = run /\ c.ask = Ask /\ currentBatchId = 0
          /\ \A b \in Mine : batches[b].status # "running" /\ batches[b].i < c.i
      BY <2>1, OnlyCall
    <3>2. Mine' = Mine /\ Ask' = Ask /\ open' /\ Alike' /\ InOrder'
      BY <1>4, <3>1 DEF Mine, Ask, Alike, InOrder, ui, conf, hist
    <3>3. CASE calls' = calls \ {c} /\ currentStep' = "finished"
      BY <3>1, <3>2, <3>3 DEF Serial
    <3>4. ASSUME NEW d \in CallSet, calls' = (calls \ {c}) \cup {d}, UNCHANGED currentStep,
                 d.run = c.run, d.ask = c.ask, d.i = c.i + 1
          PROVE  Serial'
      <4>1. \A b \in Mine : batches[b].i < d.i
        BY <1>2, <3>1, <3>4, BatchType DEF Mine
      <4>2. WaitsForCall'
        BY <1>4, <3>1, <3>2, <3>4, <4>1 DEF WaitsForCall, hist
      <4> QED
        BY <3>1, <3>2, <3>4, <4>2 DEF Serial
    <3> QED
      BY <1>5, <3>3, <3>4
  <2>2. CASE ~clean
    BY <1>4, <2>2 DEF Serial, hist
  <2> QED
    BY <2>1, <2>2
<1> QED
  BY <1>6, <1>7, <1>8, <1>9

LEMMA PollIInv == ASSUME IInv, Poll PROVE IInv'
<1> USE DEF IInv
<1> DEFINE row == batches[currentBatchId]
           x == [node |-> IF currentNodeIndex \in DOMAIN nodes THEN nodes[currentNodeIndex] ELSE 0,
                 batch |-> currentBatchId, counts |-> row.counts]
           res == Append(executionResults, x)
           here == Call(run, currentNodeIndex, executionResults)
<1>1. currentStep = "execute" /\ isExecuting /\ currentBatchId \in DOMAIN batches
  BY DEF Poll, Polling, Executing, TypeOK, Kinds
<1>2. row.counts \in Totals /\ currentBatchId \in Nat
  BY <1>1, BatchType DEF Kinds
<1>3. UNCHANGED <<ui, conf, previewData, currentNodeIndex, previewing, batches, hist>>
  BY DEF Poll
<1>4. Mine' = Mine /\ Ask' = Ask
  BY <1>3 DEF Mine, Ask, ui, conf, hist
<1>5. CASE row.status \notin Finished
  <2>1. batchStatus' = row.status
        /\ UNCHANGED <<currentStep, executionResults, isExecuting, currentBatchId, calls>>
    BY <1>5 DEF Poll
  <2>2. row.status = "running"
    <3>1. row \in BatchSet
      BY <1>1 DEF Kinds
    <3> QED
      BY <1>5, <3>1 DEF BatchSet
  <2>3. TypeOK' /\ Kinds'
    BY <1>3, <2>1, <2>2 DEF TypeOK, Kinds, ui, conf, hist
  <2>4. PreviewKept'
    BY <1>1, <1>3, <2>1 DEF PreviewKept, hist
  <2>5. Serial'
    BY <1>3, <1>4, <2>1, Undisturbed DEF ui, hist
  <2> QED
    BY <2>3, <2>4, <2>5
<1>6. CASE row.status \in Finished
  <2>1. /\ executionResults' = res
        /\ NextNode(here, None, res)
        /\ currentBatchId' = IF currentNodeIndex < Len(nodes) THEN 0 ELSE currentBatchId
        /\ batchStatus' = None
    BY <1>1, <1>6 DEF Poll, Settle
  <2>2. res \in Seq(ResultSet)
    <3>1. x \in ResultSet
      BY <1>2, DialogAssumption DEF ResultSet, TypeOK
    <3> QED
      BY <3>1 DEF Kinds
  <2>3. /\ here \in CallSet /\ here.run = run /\ here.run \in 1..run /\ here.ask = Ask
        /\ here.ask \in Asks /\ here.i = currentNodeIndex /\ here.i \in Nat \ {0}
    BY <1>1, AskType DEF Call, CallSet, Kinds, TypeOK
  <2> HIDE DEF here, res
  <2>4. /\ \/ /\ UNCHANGED <<currentStep, isExecuting>>
              /\ here.i < Len(here.ask.nodes)
              /\ \E d \in CallSet : /\ calls' = (calls \ {None}) \cup {d}
                                    /\ d.run = here.run /\ d.ask = here.ask /\ d.i = here.i + 1
           \/ /\ calls' = calls \ {None}
              /\ currentStep' = "finished" /\ ~isExecuting'
        /\ isExecuting' <=> currentStep' = "execute"
        /\ calls' \subseteq CallSet
        /\ \A d \in calls' : d.run \in 1..run /\ d.ask \in Asks /\ d.i \in DOMAIN d.ask.nodes
    BY <2>1, <2>2, <2>3, Advance
  <2>5. TypeOK'
    <3>1. currentBatchId' \in 0..Len(batches')
      BY <1>3, <2>1, <1>2 DEF TypeOK, Kinds
    <3> QED
      BY <1>3, <2>1, <2>4, <3>1 DEF TypeOK, ui, conf, hist
  <2>6. Kinds'
    <3>1. isExecuting' => run >= 1
      BY <1>1 DEF Kinds
    <3> QED
      BY <1>3, <2>1, <2>2, <2>4, <3>1 DEF Kinds, hist
  <2>7. PreviewKept'
    BY <1>1, <1>3, <2>4 DEF PreviewKept, hist
  <2>8. Serial'
    <3>1. CASE clean
      <4>1. /\ calls = {} /\ currentBatchId \in Mine /\ row.i = currentNodeIndex
            /\ \A b \in Mine \ {currentBatchId} :
                  batches[b].status # "running" /\ batches[b].i < currentNodeIndex
        BY <1>1, <3>1, DialogAssumption DEF Serial, WaitsForCall, WaitsForBatch, Poll, Polling
      <4>2. open' /\ Alike' /\ InOrder'
        BY <1>1, <1>3, <1>4, <3>1 DEF Serial, Alike, InOrder, ui
      <4>3. CASE calls' = calls \ {None} /\ currentStep' = "finished"
        BY <4>1, <4>2, <4>3 DEF Serial
      <4>4. ASSUME NEW d \in CallSet, calls' = (calls \ {None}) \cup {d}, UNCHANGED currentStep,
                   here.i < Len(here.ask.nodes),
                   d.run = here.run, d.ask = here.ask, d.i = here.i + 1
            PROVE  Serial'
        <5>1. calls' = {d} /\ currentBatchId' = 0
          BY <2>1, <2>3, <4>1, <4>4, AskType
        <5>2. \A b \in Mine : batches[b].status # "running" /\ batches[b].i < d.i
          BY <1>6, <2>3, <4>1, <4>4, BatchType DEF Mine, Finished
        <5>3. WaitsForCall'
          BY <1>3, <1>4, <2>3, <4>4, <5>1, <5>2 DEF WaitsForCall, hist
        <5> QED
          BY <1>1, <1>4, <2>3, <4>2, <4>4, <5>1, <5>3 DEF Serial
      <4> QED
        BY <2>4, <4>3, <4>4
    <3>2. CASE ~clean
      BY <1>3, <3>2 DEF Serial, hist
    <3> QED
      BY <3>1, <3>2
  <2> QED
    BY <2>5, <2>6, <2>7, <2>8
<1> QED
  BY <1>5, <1>6

LEMMA EndsIInv ==
    ASSUME IInv, NEW e \in DOMAIN batches, NEW n \in Counts, BatchEnds(e, n) PROVE IInv'
<1> USE DEF IInv
<1>1. UNCHANGED <<ui, currentStep, conf, previewData, exec, previewing, calls, hist>>
  BY DEF BatchEnds
<1>2. /\ batches' \in Seq(BatchSet) /\ Len(batches') = Len(batches)
      /\ DOMAIN batches' = DOMAIN batches /\ batches'[e].status # "running"
      /\ \A d \in DOMAIN batches :
            /\ batches'[d].run = batches[d].run /\ batches'[d].ask = batches[d].ask
            /\ batches'[d].i = batches[d].i
            /\ d # e => batches'[d] = batches[d]
  BY Ended
<1>3. Mine' = Mine /\ Ask' = Ask
  BY <1>1, <1>2 DEF Mine, Ask, ui, conf, hist
<1>4. TypeOK'
  BY <1>1, <1>2 DEF TypeOK, ui, conf, exec, hist
<1>5. Kinds'
  BY <1>1, <1>2 DEF Kinds, exec, hist
<1>6. PreviewKept'
  BY <1>1, <1>3 DEF PreviewKept, hist
<1>7. Serial'
  <2>1. \A b \in Mine : /\ batches'[b].ask = batches[b].ask /\ batches'[b].i = batches[b].i
                        /\ batches[b].status # "running" => batches'[b].status # "running"
    BY <1>2 DEF Mine
  <2>2. (Alike => Alike') /\ (InOrder => InOrder')
    BY <1>3, <2>1 DEF Alike, InOrder
  <2>3. (WaitsForCall => WaitsForCall') /\ (WaitsForBatch => WaitsForBatch')
    BY <1>1, <1>3, <2>1 DEF WaitsForCall, WaitsForBatch, exec, hist
  <2> QED
    BY <1>1, <1>3, <2>2, <2>3 DEF Serial, ui, hist
<1> QED
  BY <1>4, <1>5, <1>6, <1>7

-----------------------------------------------------------------------------
(* Results                                                                 *)

LEMMA NextIInv == IInv /\ [Next]_vars => IInv'
<1> SUFFICES ASSUME IInv, [Next]_vars PROVE IInv'
  OBVIOUS
<1>1. CASE \/ \E t \in Targets : Open(t)
           \/ \E k \in Keys : ChooseWorkflow(k)
           \/ \E c \in Configs : ConfigureWorkflow(c) \/ ConfigureSync(c)
           \/ PreviewWorkflow \/ PreviewSync \/ Back \/ PreviewFails
           \/ \E can \in BOOLEAN : PreviewAnswer(can)
  BY <1>1, ConfigureIInv DEF ConfigureWorkflow, ConfigureSync, PreviewWorkflow, PreviewSync
<1>2. CASE CancelWorkflow \/ CancelSync \/ Escape
  <2>1. Close
    BY <1>2 DEF CancelWorkflow, CancelSync, Cancel, Escape
  <2>2. \/ clean' = clean /\ currentStep # "execute"
        \/ clean' = (calls = {})
    BY <1>2 DEF CancelWorkflow, CancelSync, Cancel, Escape, Executing
  <2>3. clean' \in BOOLEAN /\ (clean' => calls = {})
    <3>1. CASE clean' = clean /\ currentStep # "execute"
      BY <3>1 DEF IInv, Kinds, Serial
    <3>2. CASE clean' = (calls = {})
      BY <3>2
    <3> QED
      BY <2>2, <3>1, <3>2
  <2> QED
    BY <2>1, <2>3, CloseIInv
<1>3. CASE ExecuteWorkflow
  <2>1. saved'.last \in Keys \cup {SyncKey, None} /\ saved'.configs \in [Keys -> Configs]
    BY <1>3 DEF ExecuteWorkflow, Remembered, IInv, TypeOK
  <2> QED
    BY <1>3, <2>1, StartIInv DEF ExecuteWorkflow
<1>4. CASE ExecuteSync
  <2>1. saved'.last \in Keys \cup {SyncKey, None} /\ saved'.configs \in [Keys -> Configs]
    BY <1>4 DEF ExecuteSync, IInv, TypeOK
  <2> QED
    BY <1>4, <2>1, StartIInv DEF ExecuteSync
<1>5. CASE Answer
  BY <1>5, AcceptedIInv, RefusedIInv DEF Answer, WorkflowAnswer, SyncAnswer
<1>6. CASE Polls
  BY <1>6, PollIInv DEF Polls, PollWorkflow, PollSync
<1>7. CASE Server
  BY <1>7, EndsIInv DEF Server
<1>8. CASE UNCHANGED vars
  <2>1. UNCHANGED <<ui, currentStep, conf, previewData, exec, previewing, calls, batches, hist>>
    BY <1>8 DEF vars
  <2>2. TypeOK' /\ Kinds' /\ PreviewKept'
    BY <2>1 DEF IInv, TypeOK, Kinds, PreviewKept, Ask, ui, conf, exec, hist
  <2>3. Serial'
    BY <2>1, Undisturbed DEF Ask, ui, conf, exec, hist
  <2> QED
    BY <2>2, <2>3 DEF IInv
<1> QED
  BY <1>1, <1>2, <1>3, <1>4, <1>5, <1>6, <1>7, <1>8 DEF Next, User

LEMMA Invariant == Spec => []IInv
BY InitIInv, NextIInv, PTL DEF Spec

(* The state has its types, and step, index and batch agree.               *)
THEOREM TypeCorrect == Spec => []TypeOK
BY Invariant, PTL DEF IInv

(* What is about to run is a preview of what the dialog shows.             *)
LEMMA NextConfirmed == IInv /\ [Next]_vars => [run' > run /\ ~crossed => previewData.ask = Ask]_vars
<1> SUFFICES ASSUME IInv, [Next]_vars, run' > run, ~crossed PROVE previewData.ask = Ask
  OBVIOUS
<1>1. run \in Nat
  BY DEF IInv, Kinds
<1>2. MayExecute
  <2>1. ~(UNCHANGED run) /\ run' # 0
    BY <1>1
  <2>2. ~Close
    BY <2>1 DEF Close
  <2> QED
    BY <2>1, <2>2 DEF Next, vars, hist, User, Open, CancelWorkflow, CancelSync, Cancel, Escape, Back,
           ChooseWorkflow, ConfigureWorkflow, ConfigureSync, Configure, PreviewWorkflow,
           PreviewSync, Previewing, ExecuteWorkflow, ExecuteSync, PreviewAnswer, PreviewFails,
           Answer, WorkflowAnswer, SyncAnswer, BatchAccepted, BatchRefused, Polls, PollWorkflow,
           PollSync, Poll, Server, BatchEnds
<1> QED
  BY <1>2 DEF MayExecute, Previewed, IInv, PreviewKept

(* An execution starts with what its preview showed                        *)
(* (BatchWorkflowModal.tsx:476-505), if neither options nor nodes changed  *)
(* while the preview was being answered, whichever dialog it is.           *)
THEOREM ConfirmedCorrect == Spec => ConfirmedStart
BY Invariant, NextConfirmed, PTL DEF Spec, ConfirmedStart

(* One request or one running batch at a time is what Serial comes to.     *)
LEMMA IInvOneAtATime == IInv => OneAtATime
<1> SUFFICES ASSUME IInv, clean, isExecuting PROVE OneAtATime
  BY DEF OneAtATime
<1> DEFINE due == {c \in calls : c.run = run}
           on == {b \in Mine : batches[b].status = "running"}
<1>1. InOrder /\ (WaitsForCall \/ WaitsForBatch)
  BY DEF IInv, TypeOK, Serial
<1>2. \A b \in Mine : batches[b].i \in Nat
  BY BatchType DEF IInv, Mine
<1>3. /\ Cardinality(due) + Cardinality(on) <= 1
      /\ \A b \in Mine, c \in due : batches[b].i # c.i
  <2>1. CASE WaitsForCall
    <3>1. PICK c \in calls : /\ calls = {c} /\ c.run = run
                             /\ \A b \in Mine : batches[b].status # "running" /\ batches[b].i < c.i
      BY <2>1 DEF WaitsForCall
    <3>2. due = {c} /\ on = {}
      <4>1. due = {c}
        BY <3>1
      <4>2. on = {}
        BY <3>1
      <4> QED
        BY <4>1, <4>2
    <3>3. \A b \in Mine : batches[b].i # c.i
      <4>1. c.i \in Nat
        BY DEF IInv, Kinds, CallSet
      <4> QED
        BY <1>2, <3>1, <4>1
    <3>4. Cardinality(due) = 1 /\ Cardinality(on) = 0
      BY <3>2, FS_EmptySet, FS_Singleton
    <3> QED
      BY <3>2, <3>3, <3>4
  <2>2. CASE WaitsForBatch
    <3>1. due = {} /\ (on = {} \/ on = {currentBatchId})
      BY <2>2 DEF WaitsForBatch
    <3>2. Cardinality(due) = 0 /\ Cardinality(on) \in {0, 1}
      BY <3>1, FS_EmptySet, FS_Singleton
    <3> QED
      BY <3>1, <3>2
  <2> QED
    BY <1>1, <2>1, <2>2
<1> QED
  BY <1>1, <1>3 DEF OneAtATime, InOrder

(* An execution that begins with nothing left of an earlier one has one    *)
(* request or one running batch at a time, none twice for a node, and all  *)
(* for the nodes and options that are shown (BatchWorkflowModal.tsx:210,   *)
(* 476), whatever is refused, lost, closed or opened again.                *)
THEOREM SerialCorrect == Spec => []SerialAsShown
<1>1. IInv => OptionsHold
  BY DEF IInv, Serial, Alike, OptionsHold
<1>2. IInv => SerialAsShown
  BY <1>1, IInvOneAtATime DEF SerialAsShown
<1> QED
  BY <1>2, Invariant, PTL

-----------------------------------------------------------------------------
(* The results of an execution                                             *)

(* What is filed stays filed while more batches come and others go on.     *)
LEMMA FiledStays ==
    ASSUME NEW ns \in Seq(Nat), NEW bs, NEW cs, NEW mine, NEW more, mine \subseteq more,
           \A b \in mine : bs[b].status # "running" => cs[b] = bs[b],
           NEW res \in Seq(ResultSet), NEW i \in Nat, NEW j \in Nat, i <= j,
           Filed(ns, bs, mine, res, i)
    PROVE  Filed(ns, cs, more, res, j)
<1> SUFFICES ASSUME NEW k \in DOMAIN res
             PROVE  /\ \E p \in DOMAIN ns :
                          /\ p < j /\ ns[p] = res[k].node
                          /\ res[k].batch # 0 => /\ res[k].batch \in more /\ cs[res[k].batch].i = p
                                                 /\ cs[res[k].batch].status # "running"
                          /\ \A l \in 1..(k - 1) : \E q \in DOMAIN ns : q < p /\ ns[q] = res[l].node
                    /\ res[k].counts = IF res[k].batch = 0 THEN [success |-> 0, failed |-> 1]
                                                           ELSE cs[res[k].batch].counts
  BY DEF Filed
<1>1. PICK p \in DOMAIN ns :
              /\ p < i /\ ns[p] = res[k].node
              /\ res[k].batch # 0 => /\ res[k].batch \in mine /\ bs[res[k].batch].i = p
                                     /\ bs[res[k].batch].status # "running"
              /\ \A l \in 1..(k - 1) : \E q \in DOMAIN ns : q < p /\ ns[q] = res[l].node
  BY DEF Filed
<1>2. res[k].counts = IF res[k].batch = 0 THEN [success |-> 0, failed |-> 1]
                                          ELSE bs[res[k].batch].counts
  BY DEF Filed
<1>3. p < j
  BY <1>1
<1>4. res[k].batch # 0 => res[k].batch \in more /\ cs[res[k].batch] = bs[res[k].batch]
  BY <1>1
<1> QED
  BY <1>1, <1>2, <1>3, <1>4

(* The result of the i-th node goes to the end.                            *)
LEMMA FiledOne ==
    ASSUME NEW ns \in Seq(Nat), NEW bs, NEW mine, NEW res \in Seq(ResultSet), NEW i \in DOMAIN ns,
           Filed(ns, bs, mine, res, i), NEW x \in ResultSet, x.node = ns[i],
           x.batch # 0 => x.batch \in mine /\ bs[x.batch].i = i /\ bs[x.batch].status # "running",
           x.counts = IF x.batch = 0 THEN [success |-> 0, failed |-> 1] ELSE bs[x.batch].counts
    PROVE  Filed(ns, bs, mine, Append(res, x), i + 1)
<1> DEFINE new == Append(res, x)
<1>1. /\ DOMAIN new = 1..(Len(res) + 1) /\ DOMAIN res = 1..Len(res) /\ Len(res) \in Nat
      /\ new[Len(res) + 1] = x /\ \A k \in DOMAIN res : new[k] = res[k]
  OBVIOUS
<1> HIDE DEF new
<1> SUFFICES ASSUME NEW k \in DOMAIN new
             PROVE  /\ \E p \in DOMAIN ns :
                          /\ p < i + 1 /\ ns[p] = new[k].node
                          /\ new[k].batch # 0 => /\ new[k].batch \in mine /\ bs[new[k].batch].i = p
                                                 /\ bs[new[k].batch].status # "running"
                          /\ \A l \in 1..(k - 1) : \E q \in DOMAIN ns : q < p /\ ns[q] = new[l].node
                    /\ new[k].counts = IF new[k].batch = 0 THEN [success |-> 0, failed |-> 1]
                                                           ELSE bs[new[k].batch].counts
  BY DEF Filed, new
<1>2. ASSUME NEW l \in 1..(k - 1) PROVE l \in DOMAIN res /\ new[l] = res[l]
  <2>1. k \in 1..(Len(res) + 1)
    BY <1>1
  <2>2. l \in 1..Len(res)
    BY <1>1, <2>1
  <2> QED
    BY <1>1, <2>2
<1>3. CASE k \in DOMAIN res
  <2>1. PICK p \in DOMAIN ns :
              /\ p < i /\ ns[p] = res[k].node
              /\ res[k].batch # 0 => /\ res[k].batch \in mine /\ bs[res[k].batch].i = p
                                     /\ bs[res[k].batch].status # "running"
              /\ \A l \in 1..(k - 1) : \E q \in DOMAIN ns : q < p /\ ns[q] = res[l].node
    BY <1>3 DEF Filed
  <2>2. res[k].counts = IF res[k].batch = 0 THEN [success |-> 0, failed |-> 1]
                                            ELSE bs[res[k].batch].counts
    BY <1>3 DEF Filed
  <2>3. p < i + 1 /\ new[k] = res[k]
    BY <1>1, <1>3, <2>1
  <2>4. \A l \in 1..(k - 1) : \E q \in DOMAIN ns : q < p /\ ns[q] = new[l].node
    BY <1>2, <2>1
  <2> QED
    BY <2>1, <2>2, <2>3, <2>4
<1>4. CASE k = Len(res) + 1
  <2>1. \A l \in 1..(k - 1) : \E q \in DOMAIN ns : q < i /\ ns[q] = new[l].node
    BY <1>2 DEF Filed
  <2>2. i < i + 1 /\ new[k] = x
    BY <1>1, <1>4
  <2> QED
    BY <2>1, <2>2
<1> QED
  BY <1>1, <1>3, <1>4

LEMMA KnownMore ==
    ASSUME NEW ids, NEW res \in Seq(ResultSet), NEW x \in ResultSet, Known(res, ids)
    PROVE  Known(Append(res, x), ids \cup {x.batch})
<1> DEFINE new == Append(res, x)
<1>1. /\ DOMAIN new = 1..(Len(res) + 1) /\ DOMAIN res = 1..Len(res) /\ Len(res) \in Nat
      /\ new[Len(res) + 1] = x /\ \A k \in DOMAIN res : new[k] = res[k]
  OBVIOUS
<1> HIDE DEF new
<1>2. \A b \in ids : \E k \in DOMAIN new : new[k].batch = b
  BY <1>1 DEF Known
<1>3. \E k \in DOMAIN new : new[k].batch = x.batch
  BY <1>1
<1> QED
  BY <1>2, <1>3 DEF Known, new

(* A step that leaves the execution alone, or away from it.                *)
LEMMA FilingStays ==
    ASSUME Filing,
           \/ ~clean'
           \/ currentStep' \in {"config", "preview"}
           \/ UNCHANGED <<clean, currentStep, calls, nodes, batches, run, executionResults,
                          currentNodeIndex, currentBatchId>>
    PROVE  Filing'
<1>1. CASE ~clean' \/ currentStep' \in {"config", "preview"}
  BY <1>1 DEF Filing
<1>2. CASE UNCHANGED <<clean, currentStep, calls, nodes, batches, run, executionResults,
                       currentNodeIndex, currentBatchId>>
  BY <1>2 DEF Filing, Mine
<1> QED
  BY <1>1, <1>2

LEMMA StartFiling ==
    ASSUME IInv, MayExecute, Start PROVE Filing'
<1> DEFINE c == Call(run + 1, 1, <<>>)
<1>1. /\ calls' = calls \cup {c} /\ batches' = batches /\ run' = run + 1
      /\ currentStep' = "execute" /\ executionResults' = <<>> /\ (clean' => calls = {})
  BY DEF Start
<1>2. c.results = <<>> /\ c.i = 1
  BY DEF Call
<1> HIDE DEF c
<1>3. Mine' = {}
  <2>1. \A b \in DOMAIN batches : batches[b].run # run + 1
    BY BatchType DEF IInv, Kinds
  <2> QED
    BY <1>1, <2>1 DEF Mine
<1>4. \A ns, bs : Filed(ns, bs, {}, <<>>, 1)
  BY DEF Filed
<1>5. Known(<<>>, {})
  BY DEF Known
<1> QED
  BY <1>1, <1>2, <1>3, <1>4, <1>5 DEF Filing

LEMMA AcceptedFiling ==
    ASSUME IInv, Filing, NEW c \in calls, BatchAccepted(c) PROVE Filing'
<1> USE DEF IInv
<1> SUFFICES ASSUME clean PROVE Filing'
  BY FilingStays DEF BatchAccepted, hist
<1> DEFINE x == NewBatch(c)
           n == Len(batches) + 1
<1>1. /\ currentStep = "execute" /\ calls = {c} /\ c.run = run
  BY OnlyCall
<1>2. /\ batches' = Append(batches, x) /\ calls' = {} /\ currentStep' = currentStep
      /\ currentNodeIndex' = c.i /\ currentBatchId' = n
      /\ UNCHANGED <<nodes, executionResults, run>>
  BY <1>1 DEF BatchAccepted, ui, hist
<1>3. c \in CallSet /\ c.ask \in Asks /\ c.i \in Nat
  BY DEF TypeOK, Kinds, CallSet
<1>4. x \in BatchSet /\ x.run = run
  BY <1>1, <1>3 DEF NewBatch, BatchSet, CallSet, Zero, Totals
<1> HIDE DEF x
<1>5. /\ DOMAIN batches' = DOMAIN batches \cup {n} /\ n \notin DOMAIN batches
      /\ batches'[n] = x /\ \A b \in DOMAIN batches : batches'[b] = batches[b]
  BY <1>2, <1>4, Added DEF Kinds
<1>6. Mine' = Mine \cup {n} /\ n \notin Mine /\ \A b \in Mine : batches'[b] = batches[b]
  BY <1>2, <1>4, <1>5 DEF Mine
<1>7. Filed(nodes, batches, Mine, executionResults, c.i) /\ Known(executionResults, Mine)
  BY <1>1 DEF Filing
<1>8. Filed(nodes, batches', Mine', executionResults, c.i)
  BY <1>3, <1>6, <1>7, FiledStays, DialogAssumption DEF TypeOK, Kinds
<1>9. Known(executionResults, Mine' \ {n})
  BY <1>6, <1>7 DEF Known
<1> QED
  BY <1>1, <1>2, <1>8, <1>9 DEF Filing

LEMMA RefusedFiling ==
    ASSUME IInv, Filing, NEW c \in calls, BatchRefused(c) PROVE Filing'
<1> USE DEF IInv
<1> SUFFICES ASSUME clean PROVE Filing'
  BY FilingStays DEF BatchRefused, hist
<1> DEFINE x == [node |-> c.ask.nodes[c.i], batch |-> 0, counts |-> [success |-> 0, failed |-> 1]]
           res == Append(c.results, x)
<1>1. currentStep = "execute" /\ calls = {c} /\ c.ask = Ask /\ Ask.nodes = nodes
  BY OnlyCall, AskType
<1>2. c \in CallSet /\ c.run \in 1..run /\ c.ask \in Asks /\ c.i \in DOMAIN nodes /\ c.i \in Nat \ {0}
      /\ nodes \in Seq(Nat)
  <2>1. c \in CallSet /\ c.run \in 1..run /\ c.ask \in Asks /\ c.i \in DOMAIN c.ask.nodes
    BY DEF TypeOK, Kinds
  <2> QED
    BY <1>1, <2>1, NodesType
<1>3. x \in ResultSet /\ c.results \in Seq(ResultSet) /\ executionResults \in Seq(ResultSet)
  BY <1>1, <1>2 DEF ResultSet, Totals, CallSet, Kinds
<1>4. x.node = nodes[c.i] /\ x.batch = 0 /\ x.counts = [success |-> 0, failed |-> 1]
  BY <1>1
<1> HIDE DEF x
<1>5. res \in Seq(ResultSet)
  BY <1>3
<1>6. /\ executionResults' = IF c.i < Len(nodes) THEN executionResults ELSE res
      /\ NextNode(c, c, res)
      /\ UNCHANGED <<nodes, batches, run, currentNodeIndex, currentBatchId>>
  BY <1>1 DEF BatchRefused, ui, hist, x
<1>7. Filed(nodes, batches, Mine, executionResults, c.i) /\ Known(executionResults, Mine)
      /\ Filed(nodes, batches, Mine, c.results, c.i) /\ Known(c.results, Mine)
  BY <1>1 DEF Filing
<1>8. Filed(nodes, batches, Mine, res, c.i + 1)
  BY <1>2, <1>3, <1>4, <1>7, FiledOne
<1>9. Known(res, Mine)
  <2>1. Known(res, Mine \cup {x.batch})
    BY <1>3, <1>7, KnownMore
  <2> QED
    BY <2>1 DEF Known
<1>10. Filed(nodes, batches, Mine, executionResults, c.i + 1)
  BY <1>2, <1>3, <1>7, FiledStays
<1> HIDE DEF res
<1>11. Mine' = Mine
  BY <1>6 DEF Mine
<1>12. \/ /\ c.i < Len(nodes) /\ currentStep' = "execute"
          /\ \E d \in CallSet : calls' = {d} /\ d.results = res /\ d.i = c.i + 1
       \/ /\ ~(c.i < Len(nodes)) /\ calls' = {} /\ currentStep' = "finished"
  BY <1>1, <1>2, <1>5, <1>6, Advance
<1>13. CASE c.i < Len(nodes) /\ currentStep' = "execute"
  BY <1>6, <1>7, <1>8, <1>9, <1>10, <1>11, <1>12, <1>13 DEF Filing
<1>14. CASE ~(c.i < Len(nodes)) /\ currentStep' = "finished"
  <2>1. c.i = Len(nodes)
    BY <1>2, <1>14
  <2> QED
    BY <1>6, <1>8, <1>9, <1>11, <1>14, <2>1 DEF Filing
<1> QED
  BY <1>12, <1>13, <1>14

LEMMA PollFiling ==
    ASSUME IInv, Filing, Poll PROVE Filing'
<1> USE DEF IInv
<1> SUFFICES ASSUME clean PROVE Filing'
  BY FilingStays DEF Poll, hist
<1> DEFINE row == batches[currentBatchId]
           x == [node |-> nodes[currentNodeIndex], batch |-> currentBatchId, counts |-> row.counts]
           res == Append(executionResults, x)
           here == Call(run, currentNodeIndex, executionResults)
<1>1. /\ currentStep = "execute" /\ isExecuting /\ calls = {} /\ currentBatchId \in Mine
      /\ currentBatchId \in Nat \ {0} /\ row.i = currentNodeIndex /\ row.ask = Ask
  BY DialogAssumption DEF Serial, WaitsForCall, WaitsForBatch, Alike, Poll, Polling, Executing, TypeOK, Mine
<1>2. UNCHANGED <<nodes, batches, currentNodeIndex, run, clean>>
  BY DEF Poll, ui, hist
<1>3. CASE row.status \notin Finished
  BY <1>2, <1>3, FilingStays DEF Poll
<1>4. CASE row.status \in Finished
  <2>1. /\ currentNodeIndex \in DOMAIN nodes /\ currentNodeIndex \in Nat \ {0} /\ nodes \in Seq(Nat)
        /\ Ask \in Asks /\ Ask.nodes = nodes
    BY <1>1, AskType, DialogAssumption DEF TypeOK, Mine
  <2>2. executionResults' = res /\ NextNode(here, None, res)
    BY <1>1, <1>4, <2>1 DEF Poll, Settle
  <2>3. x \in ResultSet /\ executionResults \in Seq(ResultSet)
    <3>1. row.counts \in Totals
      BY <1>1, BatchType DEF Mine
    <3>2. nodes[currentNodeIndex] \in Nat
      BY <2>1
    <3> QED
      BY <1>1, <3>1, <3>2 DEF ResultSet, Kinds
  <2>4. x.node = nodes[currentNodeIndex] /\ x.batch = currentBatchId /\ x.counts = row.counts
    OBVIOUS
  <2> HIDE DEF x
  <2>5. res \in Seq(ResultSet)
    BY <2>3
  <2>6. /\ here \in CallSet /\ here.run \in 1..run /\ here.ask = Ask /\ here.i = currentNodeIndex
    BY <1>1, <2>1 DEF Call, CallSet, Kinds, TypeOK
  <2>7. Filed(nodes, batches, Mine, executionResults, currentNodeIndex)
        /\ Known(executionResults, Mine \ {currentBatchId})
    BY <1>1 DEF Filing
  <2>8. Filed(nodes, batches, Mine, res, currentNodeIndex + 1)
    <3>1. row.status # "running"
      BY <1>4 DEF Finished
    <3> QED
      BY <1>1, <2>1, <2>3, <2>4, <2>7, <3>1, FiledOne
  <2>9. Known(res, Mine)
    <3>1. Known(res, (Mine \ {currentBatchId}) \cup {x.batch})
      BY <2>3, <2>7, KnownMore
    <3> QED
      BY <2>4, <3>1 DEF Known
  <2> HIDE DEF res, here
  <2>10. Mine' = Mine
    BY <1>2 DEF Mine
  <2>11. \/ /\ currentStep' = "execute"
            /\ \E d \in CallSet : calls' = {d} /\ d.results = res /\ d.i = currentNodeIndex + 1
         \/ /\ ~(currentNodeIndex < Len(nodes)) /\ calls' = {} /\ currentStep' = "finished"
    <3>1. here.ask \in Asks /\ here.ask.nodes = nodes /\ here.i \in Nat \ {0}
      BY <2>1, <2>6
    <3>2. \/ /\ UNCHANGED currentStep
             /\ \E d \in CallSet : /\ calls' = (calls \ {None}) \cup {d} /\ d.results = res
                                   /\ d.i = here.i + 1
          \/ /\ ~(here.i < Len(here.ask.nodes))
             /\ calls' = calls \ {None} /\ currentStep' = "finished"
      BY <2>2, <2>5, <2>6, <3>1, Advance
    <3>3. calls \ {None} = {} /\ \A d : {} \cup {d} = {d}
      BY <1>1
    <3> QED
      BY <1>1, <2>6, <3>1, <3>2, <3>3
  <2>12. CASE currentStep' = "execute"
    BY <1>2, <2>2, <2>8, <2>9, <2>10, <2>11, <2>12 DEF Filing
  <2>13. CASE ~(currentNodeIndex < Len(nodes)) /\ currentStep' = "finished"
    <3>1. currentNodeIndex = Len(nodes)
      BY <2>1, <2>13
    <3> QED
      BY <1>2, <2>2, <2>8, <2>9, <2>10, <2>13, <3>1 DEF Filing
  <2> QED
    BY <2>11, <2>12, <2>13
<1> QED
  BY <1>3, <1>4

(* Only a batch that is not filed yet can end.                             *)
LEMMA EndsFiling ==
    ASSUME IInv, Filing, NEW e \in DOMAIN batches, NEW n \in Counts, BatchEnds(e, n)
    PROVE  Filing'
<1> USE DEF IInv
<1>1. UNCHANGED <<nodes, currentStep, executionResults, currentNodeIndex, currentBatchId, calls,
                  run, clean>>
  BY DEF BatchEnds, ui, exec, hist
<1>2. /\ DOMAIN batches' = DOMAIN batches /\ batches[e].status = "running"
      /\ \A d \in DOMAIN batches : /\ batches'[d].run = batches[d].run
                                   /\ d # e => batches'[d] = batches[d]
  BY Ended DEF BatchEnds
<1>3. Mine' = Mine /\ \A b \in Mine : batches[b].status # "running" => batches'[b] = batches[b]
  BY <1>1, <1>2 DEF Mine
<1>4. ASSUME NEW res \in Seq(ResultSet), NEW i \in Nat, Filed(nodes, batches, Mine, res, i)
      PROVE  Filed(nodes, batches', Mine, res, i)
  BY <1>3, <1>4, FiledStays, DialogAssumption DEF TypeOK
<1>5. \A c \in calls : c.results \in Seq(ResultSet) /\ c.i \in Nat
  BY DEF Kinds, CallSet
<1>6. executionResults \in Seq(ResultSet) /\ currentNodeIndex \in Nat /\ Len(nodes) + 1 \in Nat
  BY DialogAssumption DEF Kinds, TypeOK
<1> QED
  BY <1>1, <1>3, <1>4, <1>5, <1>6 DEF Filing

LEMMA NextFiling == IInv /\ Filing /\ [Next]_vars => Filing'
<1> SUFFICES ASSUME IInv, Filing, [Next]_vars PROVE Filing'
  OBVIOUS
<1>1. ASSUME NEW t \in Targets, Open(t) PROVE Filing'
  BY <1>1, FilingStays DEF Open, IInv, TypeOK, Serial
<1>2. CASE \/ \E k \in Keys : ChooseWorkflow(k)
           \/ \E c \in Configs : ConfigureWorkflow(c) \/ ConfigureSync(c)
           \/ PreviewWorkflow \/ PreviewSync \/ Back
           \/ \E can \in BOOLEAN : PreviewAnswer(can)
           \/ CancelWorkflow \/ CancelSync \/ Escape
  <2>1. currentStep' \in {"config", "preview"}
    BY <1>2 DEF ChooseWorkflow, ConfigureWorkflow, ConfigureSync, Configure, Configuring,
           PreviewWorkflow, PreviewSync, Previewing, Back, PreviewAnswer,
           CancelWorkflow, CancelSync, Cancel, Escape, Close
  <2> QED
    BY <2>1, FilingStays
<1>3. CASE PreviewFails
  BY <1>3, FilingStays DEF PreviewFails, ui, exec, hist
<1>4. CASE ExecuteWorkflow \/ ExecuteSync
  BY <1>4, StartFiling DEF ExecuteWorkflow, ExecuteSync
<1>5. CASE Answer
  BY <1>5, AcceptedFiling, RefusedFiling DEF Answer, WorkflowAnswer, SyncAnswer
<1>6. CASE Polls
  BY <1>6, PollFiling DEF Polls, PollWorkflow, PollSync
<1>7. CASE Server
  BY <1>7, EndsFiling DEF Server
<1>8. CASE UNCHANGED vars
  BY <1>8, FilingStays DEF vars, ui, exec, hist
<1> QED
  BY <1>1, <1>2, <1>3, <1>4, <1>5, <1>6, <1>7, <1>8 DEF Next, User

(* A node has one place in a selection.                                    *)
LEMMA PlaceIs ==
    ASSUME nodes \in Targets, NEW p \in DOMAIN nodes PROVE PlaceOf(nodes[p]) = p
<1>1. IsInjective(nodes)
  BY DialogAssumption
<1>2. \A k \in DOMAIN nodes : nodes[k] = nodes[p] => k = p
  BY <1>1 DEF IsInjective
<1> QED
  BY <1>2 DEF PlaceOf

LEMMA FilingResults == IInv /\ Filing => ResultsFollowNodes
<1> SUFFICES ASSUME IInv, Filing, clean, currentStep \in {"execute", "finished"}
             PROVE  /\ \A k \in DOMAIN executionResults :
                          LET r == executionResults[k] IN
                          /\ r.node \in Range(nodes) /\ r.counts = Outcome(r)
                          /\ r.batch # 0 => r.batch \in Mine /\ NodeOf(batches[r.batch]) = r.node
                          /\ \A l \in 1..(k - 1) :
                                PlaceOf(executionResults[l].node) < PlaceOf(r.node)
                    /\ currentStep = "finished" => Mine = Summed
  BY DEF ResultsFollowNodes
<1>1. PICK i \in Nat : Filed(nodes, batches, Mine, executionResults, i)
  <2>1. CASE currentStep = "finished"
    <3>1. Len(nodes) + 1 \in Nat
      BY DialogAssumption DEF IInv, TypeOK
    <3> QED
      BY <2>1, <3>1 DEF Filing
  <2>2. CASE currentStep = "execute" /\ calls = {}
    BY <2>2 DEF Filing, IInv, TypeOK
  <2>3. CASE currentStep = "execute" /\ calls # {}
    BY <2>3 DEF Filing, IInv, Kinds, CallSet
  <2> QED
    BY <2>1, <2>2, <2>3
<1>2. ASSUME NEW k \in DOMAIN executionResults
      PROVE  LET r == executionResults[k] IN
             /\ r.node \in Range(nodes) /\ r.counts = Outcome(r)
             /\ r.batch # 0 => r.batch \in Mine /\ NodeOf(batches[r.batch]) = r.node
             /\ \A l \in 1..(k - 1) : PlaceOf(executionResults[l].node) < PlaceOf(r.node)
  <2> DEFINE r == executionResults[k]
  <2>1. PICK p \in DOMAIN nodes :
              /\ p < i /\ nodes[p] = r.node
              /\ r.batch # 0 => r.batch \in Mine /\ batches[r.batch].i = p
              /\ \A l \in 1..(k - 1) : \E q \in DOMAIN nodes : q < p /\ nodes[q] = executionResults[l].node
    BY <1>1 DEF Filed
  <2>2. r.counts = Outcome(r)
    BY <1>1 DEF Filed, Outcome
  <2>3. r.node \in Range(nodes)
    BY <2>1 DEF Range
  <2>4. r.batch # 0 => NodeOf(batches[r.batch]) = r.node
    <3>1. \A b \in Mine : batches[b].ask.nodes = nodes
      BY AskType DEF IInv, Serial, Alike
    <3> QED
      BY <2>1, <3>1 DEF NodeOf
  <2>5. \A l \in 1..(k - 1) : PlaceOf(executionResults[l].node) < PlaceOf(r.node)
    <3>1. PlaceOf(r.node) = p
      BY <2>1, PlaceIs DEF IInv, TypeOK
    <3>2. ASSUME NEW l \in 1..(k - 1) PROVE PlaceOf(executionResults[l].node) < p
      <4>1. PICK q \in DOMAIN nodes : q < p /\ nodes[q] = executionResults[l].node
        BY <2>1
      <4>2. PlaceOf(nodes[q]) = q
        BY PlaceIs DEF IInv, TypeOK
      <4> QED
        BY <4>1, <4>2
    <3> QED
      BY <3>1, <3>2
  <2> QED
    BY <2>1, <2>2, <2>3, <2>4, <2>5
<1>3. ASSUME currentStep = "finished" PROVE Mine = Summed
  <2>1. \A b \in Mine : b # 0 /\ \E k \in DOMAIN executionResults : executionResults[k].batch = b
    BY <1>3 DEF Filing, Known, Mine, IInv, Kinds
  <2>2. \A k \in DOMAIN executionResults : executionResults[k].batch # 0 => executionResults[k].batch \in Mine
    BY <1>1 DEF Filed
  <2> QED
    BY <2>1, <2>2 DEF Summed
<1> QED
  BY <1>2, <1>3

(* The results of an execution that begins with nothing left of an earlier *)
(* one stand in the order of the nodes, each with what its own batch has   *)
(* reported; at its end no batch of it is missing (BatchWorkflowModal.tsx: *)
(* 210-250), whatever was refused or lost before or between.               *)
THEOREM ResultsCorrect == Spec => []ResultsFollowNodes
<1>1. Init => Filing
  BY DEF Init, Filing
<1> QED
  BY <1>1, NextFiling, FilingResults, Invariant, PTL DEF Spec
=============================================================================
