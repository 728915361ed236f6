------------------------------ MODULE BatchRun ------------------------------
(***************************************************************************)
(* A batch (executeBatchAsync of internal/service/batch_workflow.go and    *)
(* executeBatchSyncAsync of batch_sync.go, which have the same structure): *)
(* a goroutine starts one worker per node or document, a buffered channel  *)
(* used as a semaphore limits how many work at the same time, a mutex      *)
(* protects the counters, and a wait group tells when all have returned.   *)
(*                                                                         *)
(* What a worker finds for its item is decided by BatchFilter; here each   *)
(* item may turn out any way.                                              *)
(***************************************************************************)
EXTENDS Integers, FiniteSets

CONSTANTS
    Total,                \* nodes or documents collected
    Requests,             \* values of "concurrency" clients send
    DefaultConcurrency,   \* DefaultBatchConcurrency (1), or DefaultSyncConcurrency (10)
    MaxConcurrency,       \* MaxBatchConcurrency (20)
    MayCrash

ASSUME BatchAssumption ==
    /\ Total \in Nat \ {0}
    /\ Requests \subseteq Int
    /\ DefaultConcurrency \in Nat \ {0} /\ MaxConcurrency \in Nat \ {0}
    /\ MayCrash \in BOOLEAN

Item    == 1..Total
Outcome == {"success", "failed", "skipped"}
Ended   == {"completed", "failed"}

VARIABLES
    status, counts,   \* the row of the batch
    pc, next, limit,  \* the dispatching goroutine: its step, item and semaphore size
    slots, wg,        \* tokens in the semaphore, the wait group's counter
    worker, result,   \* each worker: its step, and how its item turned out
    tally             \* the counters behind the mutex

row        == <<status, counts>>
dispatcher == <<pc, next, limit>>
vars       == <<row, dispatcher, slots, wg, worker, result, tally>>

Zero == [o \in Outcome |-> 0]

Init ==
    /\ status = "none" /\ counts = Zero
    /\ pc = "idle" /\ next = 1 /\ limit = 0
    /\ slots = 0 /\ wg = 0
    /\ worker = [i \in Item |-> "none"]
    /\ result = [i \in Item |-> "none"]
    /\ tally = Zero

(* Mutant: zero is taken as a request.                                     *)
MutZeroAllowed(requested) ==
    LET c == IF requested < 0 THEN DefaultConcurrency ELSE requested
    IN  IF c > MaxConcurrency THEN MaxConcurrency ELSE c

Concurrency(requested) ==
    LET c == IF requested <= 0 THEN DefaultConcurrency ELSE requested
    IN  IF c > MaxConcurrency THEN MaxConcurrency ELSE c

-----------------------------------------------------------------------------
(* The request inserts the row and starts the goroutine.                   *)
ExecuteBatch ==
    /\ pc = "idle"
    /\ status' = "pending"
    /\ pc' = "start"
    /\ UNCHANGED <<counts, next, limit, slots, wg, worker, result, tally>>

Begin(requested) ==
    /\ pc = "start"
    /\ status' = "running"
    /\ limit' = Concurrency(requested)
    /\ pc' = "dispatch"
    /\ UNCHANGED <<counts, next, slots, wg, worker, result, tally>>

(* wg.Add(1), then the semaphore, then the goroutine.                      *)
Dispatch ==
    /\ pc = "dispatch"
    /\ next \in Item
    /\ slots < limit
    /\ slots' = slots + 1
    /\ wg' = wg + 1
    /\ worker' = [worker EXCEPT ![next] = "checking"]
    /\ next' = next + 1
    /\ UNCHANGED <<row, pc, limit, result, tally>>

(* wg.Wait(), then the counters are written to the row.                    *)
Finish ==
    /\ pc = "dispatch"
    /\ next \notin Item
    /\ wg = 0
    /\ status' = IF tally["failed"] > 0 /\ tally["success"] = 0 THEN "failed" ELSE "completed"
    /\ counts' = tally
    /\ pc' = "done"
    /\ UNCHANGED <<next, limit, slots, wg, worker, result, tally>>

-----------------------------------------------------------------------------
(* A worker.                                                               *)

Check(i) ==
    /\ worker[i] = "checking"
    /\ \/ /\ worker' = [worker EXCEPT ![i] = "triggering"]
          /\ UNCHANGED result
       \/ /\ worker' = [worker EXCEPT ![i] = "counting"]
          /\ \E o \in {"skipped", "failed"} : result' = [result EXCEPT ![i] = o]
    /\ UNCHANGED <<row, dispatcher, slots, wg, tally>>

(* TriggerWorkflow or TriggerSync.                                         *)
Trigger(i) ==
    /\ worker[i] = "triggering"
    /\ worker' = [worker EXCEPT ![i] = "counting"]
    /\ \E o \in {"success", "failed"} : result' = [result EXCEPT ![i] = o]
    /\ UNCHANGED <<row, dispatcher, slots, wg, tally>>

(* Mutant: an early return that forgets its counter.                       *)
MutCount(i) ==
    /\ worker[i] = "counting"
    /\ worker' = [worker EXCEPT ![i] = "returning"]
    /\ tally' = IF result[i] = "skipped" THEN tally ELSE [tally EXCEPT ![result[i]] = @ + 1]
    /\ UNCHANGED <<row, dispatcher, slots, wg, result>>

Count(i) ==
    /\ worker[i] = "counting"
    /\ worker' = [worker EXCEPT ![i] = "returning"]
    /\ tally' = [tally EXCEPT ![result[i]] = @ + 1]
    /\ UNCHANGED <<row, dispatcher, slots, wg, result>>

(* Mutant: the token is returned at the end of the body and not deferred,  *)
(* so an early return keeps it.                                            *)
MutRelease(i) ==
    /\ worker[i] = "returning"
    /\ worker' = [worker EXCEPT ![i] = "released"]
    /\ slots' = IF result[i] = "success" THEN slots - 1 ELSE slots
    /\ UNCHANGED <<row, dispatcher, wg, result, tally>>

(* The deferred calls, last one first.                                     *)
Release(i) ==
    /\ worker[i] = "returning"
    /\ worker' = [worker EXCEPT ![i] = "released"]
    /\ slots' = slots - 1
    /\ UNCHANGED <<row, dispatcher, wg, result, tally>>

Done(i) ==
    /\ worker[i] = "released"
    /\ worker' = [worker EXCEPT ![i] = "done"]
    /\ wg' = wg - 1
    /\ UNCHANGED <<row, dispatcher, slots, result, tally>>

Work(i) == Check(i) \/ Trigger(i) \/ Count(i) \/ Release(i) \/ Done(i)

(* The process dies with its goroutines; the row stays as it is, and       *)
(* nothing picks the batch up again.                                       *)
Crash ==
    /\ MayCrash
    /\ pc # "idle"
    /\ pc' = "dead"
    /\ worker' = [i \in Item |-> "dead"]
    /\ UNCHANGED <<row, next, limit, slots, wg, result, tally>>

Next ==
    \/ ExecuteBatch \/ Dispatch \/ Finish
    \/ \E requested \in Requests : Begin(requested)
    \/ \E i \in Item : Work(i)
    \/ Crash

Spec == Init /\ [][Next]_vars

(* The Go scheduler runs every goroutine that can run.                     *)
FairSpec ==
    /\ Spec
    /\ WF_vars(Dispatch \/ Finish \/ \E requested \in Requests : Begin(requested))
    /\ \A i \in Item : WF_vars(Work(i))

-----------------------------------------------------------------------------
TypeOK ==
    /\ status \in {"none", "pending", "running"} \cup Ended
    /\ counts \in [Outcome -> Nat]
    /\ pc \in {"idle", "start", "dispatch", "done", "dead"}
    /\ next \in 1..Total + 1
    /\ limit \in 0..MaxConcurrency
    /\ slots \in Nat /\ wg \in Nat
    /\ worker \in [Item -> {"none", "checking", "triggering", "counting", "returning",
                            "released", "done", "dead"}]
    /\ result \in [Item -> Outcome \cup {"none"}]
    /\ tally \in [Outcome -> Nat]

(* However many workers start and return in whatever order, the semaphore  *)
(* holds one token for each worker that may call NDR or Prefect, and never *)
(* more than the clamped limit.                                            *)
Busy == {i \in Item : worker[i] \in {"checking", "triggering", "counting", "returning"}}

SlotsMatchWorkers ==
    pc # "dead" => /\ Cardinality(Busy) = slots
                   /\ slots <= limit
                   /\ pc \in {"dispatch", "done"} => limit >= 1

(* Once the batch is shown as ended, none of its workers is at work: it    *)
(* launches no more flows, and its counts are final.                       *)
EndedIsIdle ==
    status \in Ended => \A i \in Item : worker[i] \in {"done", "dead"}

(* Tokens, limit and the row of the batch agree with who is at work.       *)
WorkersMatchRow == SlotsMatchWorkers /\ EndedIsIdle

(* A poller sees the batch end once, with counts that add up.              *)
Lifecycle == INSTANCE BatchLifecycle
    WITH counts <- [success |-> counts["success"], failed |-> counts["failed"],
                    skipped |-> counts["skipped"]]
LifecycleSpec == Lifecycle!BSpec

(* Unless the process dies, every batch ends, whatever concurrency the     *)
(* client asked for.                                                       *)
BatchEnds == status = "pending" ~> status \in Ended \/ pc = "dead"
=============================================================================
