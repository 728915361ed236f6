----------------------------- MODULE BatchProofs ----------------------------
(***************************************************************************)
(* Proofs about BatchRun, for any number of items and any limits, and      *)
(* about BatchFilter, for any documents and types.                         *)
(***************************************************************************)
EXTENDS BatchRun, BatchFilter, FiniteSetTheorems, TLAPS

(***************************************************************************)
(* BatchRun.  The invariant counts: the semaphore, the wait group and the  *)
(* three counters are cardinalities of sets of workers.                    *)
(***************************************************************************)

(* Workers whose wg.Done() is still to come.                               *)
Open == {i \in Item : worker[i] \in {"checking", "triggering", "counting", "returning", "released"}}

(* Workers that have counted an outcome.                                   *)
Counted(o) == {i \in Item : result[i] = o /\ worker[i] \in {"returning", "released", "done"}}

WorkersKept ==
    /\ \A i \in Item : worker[i] # "dead"
    /\ \A i \in Item : worker[i] = "none" <=> i >= next
    /\ \A i \in Item :
          worker[i] \in {"counting", "returning", "released", "done"} => result[i] \in Outcome
    /\ pc \in {"idle", "start"} => next = 1

CountersKept ==
    /\ slots = Cardinality(Busy)
    /\ wg = Cardinality(Open)
    /\ \A o \in Outcome : tally[o] = Cardinality(Counted(o))

LimitKept ==
    /\ slots <= limit
    /\ pc \in {"dispatch", "done"} => limit >= 1

RowKept ==
    /\ pc = "idle" <=> status = "none"
    /\ pc = "start" => status = "pending"
    /\ pc = "dispatch" => status = "running"
    /\ pc = "done" <=> status \in Ended /\ pc # "dead"
    /\ status \notin Ended => counts = Zero
    /\ pc = "done" => \A i \in Item : worker[i] = "done"
    /\ pc = "dead" => \A i \in Item : worker[i] = "dead"

IInv ==
    /\ TypeOK
    /\ RowKept
    /\ pc # "dead" => WorkersKept /\ CountersKept /\ LimitKept

-----------------------------------------------------------------------------
LEMMA ItemFinite == IsFiniteSet(Item) /\ Cardinality(Item) = Total
BY FS_Interval, BatchAssumption DEF Item

LEMMA Grow ==
    ASSUME NEW S \in SUBSET Item, NEW x \in Item, x \notin S
    PROVE  Cardinality(S \cup {x}) = Cardinality(S) + 1
BY ItemFinite, FS_Subset, FS_AddElement

LEMMA Shrink ==
    ASSUME NEW S \in SUBSET Item, NEW x \in S
    PROVE  Cardinality(S \ {x}) = Cardinality(S) - 1
BY ItemFinite, FS_Subset, FS_RemoveElement

LEMMA CardinalityNat ==
    ASSUME NEW S \in SUBSET Item
    PROVE  Cardinality(S) \in Nat
BY ItemFinite, FS_Subset, FS_CardinalityType

(* Three sets that divide the items have as many elements as there are     *)
(* items.                                                                  *)
LEMMA Partition ==
    ASSUME NEW A \in SUBSET Item, NEW B \in SUBSET Item, NEW C \in SUBSET Item,
           A \cup B \cup C = Item,
           A \cap B = {}, A \cap C = {}, B \cap C = {}
    PROVE  Cardinality(A) + Cardinality(B) + Cardinality(C) = Total
<1>1. IsFiniteSet(A) /\ IsFiniteSet(B) /\ IsFiniteSet(C)
  BY ItemFinite, FS_Subset
<1>c. Cardinality({}) = 0
  BY FS_EmptySet
<1>n. Cardinality(A) \in Nat /\ Cardinality(B) \in Nat /\ Cardinality(C) \in Nat
  BY CardinalityNat
<1>2. IsFiniteSet(A \cup B) /\ Cardinality(A \cup B) = Cardinality(A) + Cardinality(B)
  <2>1. IsFiniteSet(A \cup B)
        /\ Cardinality(A \cup B) = Cardinality(A) + Cardinality(B) - Cardinality(A \cap B)
    BY <1>1, FS_Union
  <2>2. Cardinality(A \cap B) = 0
    BY <1>c
  <2> QED
    BY <2>1, <2>2, <1>n
<1>3. (A \cup B) \cap C = {}
  OBVIOUS
<1>4. Cardinality((A \cup B) \cup C)
        = Cardinality(A \cup B) + Cardinality(C) - Cardinality((A \cup B) \cap C)
  BY <1>1, <1>2, FS_Union
<1>5. Cardinality((A \cup B) \cap C) = 0
  BY <1>3, <1>c
<1>6. Cardinality((A \cup B) \cup C) = Total
  BY ItemFinite
<1> QED
  BY <1>2, <1>4, <1>5, <1>6, <1>n

-----------------------------------------------------------------------------
LEMMA InitIInv == Init => IInv
<1> SUFFICES ASSUME Init PROVE IInv
  OBVIOUS
<1>1. Busy = {} /\ Open = {} /\ \A o \in Outcome : Counted(o) = {}
  BY DEF Init, Busy, Open, Counted
<1>2. CountersKept
  BY <1>1, FS_EmptySet DEF Init, CountersKept, Zero
<1>3. TypeOK
  BY BatchAssumption DEF Init, TypeOK, Zero, Item, Outcome
<1>4. WorkersKept
  BY BatchAssumption DEF Init, WorkersKept, Item
<1>5. RowKept /\ LimitKept
  BY DEF Init, RowKept, LimitKept, Ended
<1> QED
  BY <1>2, <1>3, <1>4, <1>5 DEF IInv

LEMMA ConcurrencyBounds ==
    ASSUME NEW requested \in Requests
    PROVE  Concurrency(requested) \in 1..MaxConcurrency
BY BatchAssumption DEF Concurrency

-----------------------------------------------------------------------------
(* The actions, one by one.  A step that changes workers says how the sets *)
(* behind the counters change.                                             *)

LEMMA ExecuteBatchIInv == IInv /\ ExecuteBatch => IInv'
BY DEF IInv, ExecuteBatch, TypeOK, RowKept, WorkersKept, CountersKept, LimitKept, Busy, Open,
       Counted, Ended

LEMMA BeginIInv ==
    ASSUME IInv, NEW requested \in Requests, Begin(requested)
    PROVE  IInv'
<1>1. limit' \in 1..MaxConcurrency
  BY ConcurrencyBounds DEF Begin
<1>2. Busy = {}
  BY DEF IInv, Begin, WorkersKept, Busy, Item
<1>3. slots = 0
  BY <1>2, FS_EmptySet DEF IInv, CountersKept, Begin
<1>4. TypeOK'
  BY <1>1, BatchAssumption DEF IInv, Begin, TypeOK
<1>5. LimitKept'
  BY <1>1, <1>3, BatchAssumption DEF Begin, LimitKept
<1>6. WorkersKept' /\ CountersKept'
  BY DEF IInv, Begin, WorkersKept, CountersKept, Busy, Open, Counted
<1>7. RowKept'
  BY DEF IInv, Begin, RowKept, Ended
<1> QED
  BY <1>4, <1>5, <1>6, <1>7 DEF IInv

LEMMA DispatchIInv == IInv /\ Dispatch => IInv'
<1> SUFFICES ASSUME IInv, Dispatch PROVE IInv'
  OBVIOUS
<1>0. /\ WorkersKept /\ CountersKept /\ LimitKept /\ TypeOK /\ RowKept
      /\ pc = "dispatch" /\ worker[next] = "none" /\ next \in Item
  BY DEF IInv, Dispatch, WorkersKept, Item
<1>1. Busy' = Busy \cup {next} /\ next \notin Busy
  BY <1>0 DEF Dispatch, Busy, TypeOK
<1>2. Open' = Open \cup {next} /\ next \notin Open
  BY <1>0 DEF Dispatch, Open, TypeOK
<1>3. \A o \in Outcome : Counted(o)' = Counted(o)
  BY <1>0 DEF Dispatch, Counted, TypeOK
<1>4. CountersKept'
  <2>1. Busy \subseteq Item /\ Open \subseteq Item
    BY DEF Busy, Open
  <2>2. slots' = Cardinality(Busy') /\ wg' = Cardinality(Open')
    BY <1>0, <1>1, <1>2, <2>1, Grow DEF CountersKept, Dispatch
  <2> QED
    BY <1>0, <1>3, <2>2 DEF CountersKept, Dispatch
<1>5. TypeOK'
  BY <1>0, BatchAssumption DEF Dispatch, TypeOK, Item, row
<1>6. WorkersKept'
  BY <1>0, BatchAssumption DEF Dispatch, WorkersKept, TypeOK, Item
<1>7. LimitKept'
  BY <1>0, BatchAssumption DEF Dispatch, LimitKept, TypeOK
<1>8. RowKept'
  BY <1>0 DEF Dispatch, RowKept, Ended, row
<1> QED
  BY <1>0, <1>4, <1>5, <1>6, <1>7, <1>8 DEF IInv, Dispatch

(* When the wait group is at zero after the last item, all have returned.  *)
LEMMA AllDone ==
    ASSUME IInv, pc = "dispatch", next \notin Item, wg = 0
    PROVE  \A i \in Item : worker[i] = "done"
<1>1. Open \subseteq Item /\ IsFiniteSet(Open) /\ Cardinality(Open) = 0
  BY ItemFinite, FS_Subset DEF IInv, CountersKept, Open
<1>2. Open = {}
  BY <1>1, FS_EmptySet
<1>3. \A i \in Item : i < next
  BY BatchAssumption DEF IInv, TypeOK, Item
<1>4. \A i \in Item : worker[i] # "none" /\ worker[i] # "dead"
  BY <1>3 DEF IInv, WorkersKept, Item, TypeOK
<1> QED
  BY <1>2, <1>4 DEF Open, IInv, TypeOK

LEMMA FinishIInv == IInv /\ Finish => IInv'
<1> SUFFICES ASSUME IInv, Finish PROVE IInv'
  OBVIOUS
<1>1. \A i \in Item : worker[i] = "done"
  BY AllDone DEF Finish
<1>2. TypeOK'
  BY DEF IInv, Finish, TypeOK, Ended
<1>3. WorkersKept' /\ CountersKept' /\ LimitKept'
  BY DEF IInv, Finish, WorkersKept, CountersKept, LimitKept, Busy, Open, Counted
<1>4. RowKept'
  BY <1>1 DEF IInv, Finish, RowKept, Ended
<1> QED
  BY <1>2, <1>3, <1>4 DEF IInv

(* What the steps of a worker have in common.                              *)
LEMMA WorkKept ==
    ASSUME IInv, NEW i \in Item, Work(i)
    PROVE  /\ pc = "dispatch" /\ UNCHANGED <<row, dispatcher>>
           /\ RowKept'
           /\ i < next
<1>1. worker[i] \in {"checking", "triggering", "counting", "returning", "released"}
  BY DEF Work, Check, Trigger, Count, Release, Done
<1>2. UNCHANGED <<row, dispatcher>>
  BY DEF Work, Check, Trigger, Count, Release, Done, dispatcher
<1>3. pc = "dispatch"
  <2>1. pc # "dead" /\ pc # "done"
    BY <1>1 DEF IInv, RowKept
  <2>2. ~(pc \in {"idle", "start"})
    BY <1>1, <2>1 DEF IInv, WorkersKept, Item
  <2> QED
    BY <2>1, <2>2 DEF IInv, TypeOK
<1>4. RowKept'
  BY <1>2, <1>3 DEF IInv, RowKept, row, dispatcher, Ended
<1>5. i < next
  BY <1>1, <1>3, BatchAssumption DEF IInv, WorkersKept, TypeOK, Item
<1> QED
  BY <1>2, <1>3, <1>4, <1>5

LEMMA CheckIInv == ASSUME IInv, NEW i \in Item, Check(i) PROVE IInv'
<1>0. /\ pc = "dispatch" /\ UNCHANGED <<row, dispatcher>> /\ RowKept' /\ i < next
      /\ WorkersKept /\ CountersKept /\ LimitKept /\ TypeOK
  BY WorkKept DEF Work, IInv
<1>1. PICK w \in {"triggering", "counting"}, o \in Outcome \cup {"none"} :
         /\ worker' = [worker EXCEPT ![i] = w]
         /\ result' = [result EXCEPT ![i] = o]
         /\ w = "counting" => o \in Outcome
  <2>1. CASE worker' = [worker EXCEPT ![i] = "triggering"] /\ UNCHANGED result
    <3>1. result' = [result EXCEPT ![i] = result[i]] /\ result[i] \in Outcome \cup {"none"}
      BY <1>0, <2>1 DEF TypeOK
    <3> QED
      BY <2>1, <3>1
  <2>2. CASE /\ worker' = [worker EXCEPT ![i] = "counting"]
             /\ \E o \in {"skipped", "failed"} : result' = [result EXCEPT ![i] = o]
    BY <2>2 DEF Outcome
  <2> QED
    BY <2>1, <2>2 DEF Check
<1>2. worker[i] = "checking" /\ UNCHANGED <<slots, wg, tally>>
  BY DEF Check
<1>3. Busy' = Busy /\ Open' = Open
  BY <1>0, <1>1, <1>2 DEF Busy, Open, TypeOK
<1>4. \A x \in Outcome : Counted(x)' = Counted(x)
  BY <1>0, <1>1, <1>2 DEF Counted, TypeOK
<1>5. CountersKept'
  BY <1>0, <1>2, <1>3, <1>4 DEF CountersKept
<1>6. TypeOK'
  BY <1>0, <1>1, <1>2 DEF TypeOK, row, dispatcher
<1>7. WorkersKept'
  BY <1>0, <1>1, <1>2 DEF WorkersKept, TypeOK, dispatcher, Item
<1>8. LimitKept'
  BY <1>0, <1>2 DEF LimitKept, dispatcher
<1> QED
  BY <1>0, <1>5, <1>6, <1>7, <1>8 DEF IInv

LEMMA TriggerIInv == ASSUME IInv, NEW i \in Item, Trigger(i) PROVE IInv'
<1>0. /\ pc = "dispatch" /\ UNCHANGED <<row, dispatcher>> /\ RowKept' /\ i < next
      /\ WorkersKept /\ CountersKept /\ LimitKept /\ TypeOK
  BY WorkKept DEF Work, IInv
<1>1. PICK o \in Outcome : /\ worker' = [worker EXCEPT ![i] = "counting"]
                           /\ result' = [result EXCEPT ![i] = o]
  BY DEF Trigger, Outcome
<1>2. worker[i] = "triggering" /\ UNCHANGED <<slots, wg, tally>>
  BY DEF Trigger
<1>3. Busy' = Busy /\ Open' = Open
  BY <1>0, <1>1, <1>2 DEF Busy, Open, TypeOK
<1>4. \A x \in Outcome : Counted(x)' = Counted(x)
  BY <1>0, <1>1, <1>2 DEF Counted, TypeOK
<1>5. CountersKept'
  BY <1>0, <1>2, <1>3, <1>4 DEF CountersKept
<1>6. TypeOK'
  BY <1>0, <1>1, <1>2 DEF TypeOK, row, dispatcher
<1>7. WorkersKept'
  BY <1>0, <1>1, <1>2 DEF WorkersKept, TypeOK, dispatcher, Item
<1>8. LimitKept'
  BY <1>0, <1>2 DEF LimitKept, dispatcher
<1> QED
  BY <1>0, <1>5, <1>6, <1>7, <1>8 DEF IInv

LEMMA CountIInv == ASSUME IInv, NEW i \in Item, Count(i) PROVE IInv'
<1>0. /\ pc = "dispatch" /\ UNCHANGED <<row, dispatcher>> /\ RowKept' /\ i < next
      /\ WorkersKept /\ CountersKept /\ LimitKept /\ TypeOK
  BY WorkKept DEF Work, IInv
<1>1. /\ worker[i] = "counting" /\ worker' = [worker EXCEPT ![i] = "returning"]
      /\ result[i] \in Outcome /\ tally' = [tally EXCEPT ![result[i]] = @ + 1]
      /\ UNCHANGED <<slots, wg, result>>
  BY <1>0 DEF Count, WorkersKept
<1>3. Busy' = Busy /\ Open' = Open
  BY <1>0, <1>1 DEF Busy, Open, TypeOK
<1>4. \A x \in Outcome :
         Counted(x)' = IF x = result[i] THEN Counted(x) \cup {i} ELSE Counted(x)
  BY <1>0, <1>1 DEF Counted, TypeOK
<1>5. CountersKept'
  <2>1. ASSUME NEW x \in Outcome PROVE tally'[x] = Cardinality(Counted(x)')
    <3>1. Counted(x) \subseteq Item /\ i \notin Counted(x)
      BY <1>1 DEF Counted
    <3>2. tally[x] = Cardinality(Counted(x)) /\ tally \in [Outcome -> Nat]
      BY <1>0 DEF CountersKept, TypeOK
    <3>3. Cardinality(Counted(x) \cup {i}) = Cardinality(Counted(x)) + 1
      BY <3>1, Grow
    <3>4. CASE x = result[i]
      BY <1>1, <1>4, <3>2, <3>3, <3>4
    <3>5. CASE x # result[i]
      BY <1>1, <1>4, <3>2, <3>5
    <3> QED
      BY <3>4, <3>5
  <2> QED
    BY <1>0, <1>1, <1>3, <2>1 DEF CountersKept
<1>6. TypeOK'
  BY <1>0, <1>1 DEF TypeOK, row, dispatcher
<1>7. WorkersKept'
  BY <1>0, <1>1 DEF WorkersKept, TypeOK, dispatcher, Item
<1>8. LimitKept'
  BY <1>0, <1>1 DEF LimitKept, dispatcher
<1> QED
  BY <1>0, <1>5, <1>6, <1>7, <1>8 DEF IInv

LEMMA ReleaseIInv == ASSUME IInv, NEW i \in Item, Release(i) PROVE IInv'
<1>0. /\ pc = "dispatch" /\ UNCHANGED <<row, dispatcher>> /\ RowKept' /\ i < next
      /\ WorkersKept /\ CountersKept /\ LimitKept /\ TypeOK
  BY WorkKept DEF Work, IInv
<1>1. /\ worker[i] = "returning" /\ worker' = [worker EXCEPT ![i] = "released"]
      /\ slots' = slots - 1 /\ UNCHANGED <<wg, result, tally>>
  BY DEF Release
<1>2. Busy' = Busy \ {i} /\ i \in Busy /\ Busy \subseteq Item
  BY <1>0, <1>1 DEF Busy, TypeOK
<1>3. Open' = Open /\ \A x \in Outcome : Counted(x)' = Counted(x)
  BY <1>0, <1>1 DEF Open, Counted, TypeOK
<1>4. slots' = Cardinality(Busy')
  BY <1>0, <1>1, <1>2, Shrink DEF CountersKept
<1>5. CountersKept'
  BY <1>0, <1>1, <1>3, <1>4 DEF CountersKept
<1>6. slots' \in Nat
  <2>1. Busy' \subseteq Item
    BY <1>2
  <2> QED
    BY <1>4, <2>1, CardinalityNat
<1>7. TypeOK'
  BY <1>0, <1>1, <1>6 DEF TypeOK, row, dispatcher
<1>8. WorkersKept'
  BY <1>0, <1>1 DEF WorkersKept, TypeOK, dispatcher, Item
<1>9. LimitKept'
  BY <1>0, <1>1, BatchAssumption DEF LimitKept, TypeOK, dispatcher
<1> QED
  BY <1>0, <1>5, <1>7, <1>8, <1>9 DEF IInv

LEMMA DoneIInv == ASSUME IInv, NEW i \in Item, Done(i) PROVE IInv'
<1>0. /\ pc = "dispatch" /\ UNCHANGED <<row, dispatcher>> /\ RowKept' /\ i < next
      /\ WorkersKept /\ CountersKept /\ LimitKept /\ TypeOK
  BY WorkKept DEF Work, IInv
<1>1. /\ worker[i] = "released" /\ worker' = [worker EXCEPT ![i] = "done"]
      /\ wg' = wg - 1 /\ UNCHANGED <<slots, result, tally>>
  BY DEF Done
<1>2. Open' = Open \ {i} /\ i \in Open /\ Open \subseteq Item
  BY <1>0, <1>1 DEF Open, TypeOK
<1>3. Busy' = Busy /\ \A x \in Outcome : Counted(x)' = Counted(x)
  BY <1>0, <1>1 DEF Busy, Counted, TypeOK
<1>4. wg' = Cardinality(Open')
  BY <1>0, <1>1, <1>2, Shrink DEF CountersKept
<1>5. CountersKept'
  BY <1>0, <1>1, <1>3, <1>4 DEF CountersKept
<1>6. wg' \in Nat
  <2>1. Open' \subseteq Item
    BY <1>2
  <2> QED
    BY <1>4, <2>1, CardinalityNat
<1>7. TypeOK'
  BY <1>0, <1>1, <1>6 DEF TypeOK, row, dispatcher
<1>8. WorkersKept'
  BY <1>0, <1>1 DEF WorkersKept, TypeOK, dispatcher, Item
<1>9. LimitKept'
  BY <1>0, <1>1 DEF LimitKept, dispatcher
<1> QED
  BY <1>0, <1>5, <1>7, <1>8, <1>9 DEF IInv

LEMMA CrashIInv == IInv /\ Crash => IInv'
<1> SUFFICES ASSUME IInv, Crash PROVE IInv'
  OBVIOUS
<1>1. TypeOK'
  BY DEF IInv, Crash, TypeOK, row
<1>2. RowKept'
  BY DEF IInv, Crash, RowKept, row, Ended
<1> QED
  BY <1>1, <1>2 DEF IInv, Crash

LEMMA StutterIInv == IInv /\ UNCHANGED vars => IInv'
BY DEF IInv, vars, row, dispatcher, TypeOK, RowKept, WorkersKept, CountersKept, LimitKept, Busy,
       Open, Counted, Ended

LEMMA NextIInv == IInv /\ [Next]_vars => IInv'
BY ExecuteBatchIInv, BeginIInv, DispatchIInv, FinishIInv, CheckIInv, TriggerIInv, CountIInv,
   ReleaseIInv, DoneIInv, CrashIInv, StutterIInv DEF Next, Work

LEMMA Inductive == Spec => []IInv
BY InitIInv, NextIInv, PTL DEF Spec

-----------------------------------------------------------------------------
(* Every value of the model stays in its type; the counters never go below *)
(* zero.                                                                   *)
THEOREM TypeCorrect == Spec => []TypeOK
<1>1. IInv => TypeOK
  BY DEF IInv
<1> QED
  BY <1>1, Inductive, PTL

(* The semaphore holds one token for each busy worker, never more than the *)
(* clamped limit, and the limit is at least one.                           *)
THEOREM SlotsCorrect == Spec => []SlotsMatchWorkers
<1>1. IInv => SlotsMatchWorkers
  BY DEF IInv, SlotsMatchWorkers, CountersKept, LimitKept
<1> QED
  BY <1>1, Inductive, PTL

(* A batch is shown as ended only when no worker is at work.               *)
THEOREM EndedCorrect == Spec => []EndedIsIdle
<1>1. IInv => EndedIsIdle
  <2> SUFFICES ASSUME IInv, status \in Ended
               PROVE  \A i \in Item : worker[i] \in {"done", "dead"}
    BY DEF EndedIsIdle
  <2>1. pc = "done" \/ pc = "dead"
    BY DEF IInv, RowKept
  <2> QED
    BY <2>1 DEF IInv, RowKept
<1> QED
  BY <1>1, Inductive, PTL

(* Tokens, limit and the row of the batch agree with who is at work.       *)
THEOREM WorkersCorrect == Spec => []WorkersMatchRow
BY SlotsCorrect, EndedCorrect, PTL DEF WorkersMatchRow

(* At the end of a batch the counts add up to the number of its items.     *)
LEMMA CountsAddUp ==
    ASSUME IInv, pc = "dispatch", next \notin Item, wg = 0
    PROVE  tally["success"] + tally["failed"] + tally["skipped"] = Total
<1>1. \A i \in Item : worker[i] = "done"
  BY AllDone
<1>2. \A i \in Item : result[i] \in Outcome
  BY <1>1 DEF IInv, WorkersKept
<1>3. \A o \in Outcome : Counted(o) = {i \in Item : result[i] = o}
  BY <1>1 DEF Counted
<1>4. \A o \in Outcome : tally[o] = Cardinality(Counted(o)) /\ Counted(o) \in SUBSET Item
  BY DEF IInv, CountersKept, Counted
<1>5. Cardinality(Counted("success")) + Cardinality(Counted("failed"))
        + Cardinality(Counted("skipped")) = Total
  <2> DEFINE A == Counted("success")
             B == Counted("failed")
             C == Counted("skipped")
  <2>1. A \in SUBSET Item /\ B \in SUBSET Item /\ C \in SUBSET Item
    BY <1>4 DEF Outcome
  <2>2. A \cup B \cup C = Item
    BY <1>2, <1>3 DEF Outcome
  <2>3. A \cap B = {} /\ A \cap C = {} /\ B \cap C = {}
    BY <1>3 DEF Outcome
  <2> HIDE DEF A, B, C
  <2>4. Cardinality(A) + Cardinality(B) + Cardinality(C) = Total
    BY <2>1, <2>2, <2>3, Partition
  <2> QED
    BY <2>4 DEF A, B, C
<1> QED
  BY <1>4, <1>5 DEF Outcome

(* The row of the batch implements what a poller relies on.                *)
THEOREM Refinement == Spec => LifecycleSpec
<1>1. Init => Lifecycle!BInit
  BY DEF Init, Zero, Outcome, Lifecycle!BInit, Lifecycle!Zero
<1>2. IInv /\ [Next]_vars => [Lifecycle!BNext]_(Lifecycle!bvars)
  <2> SUFFICES ASSUME IInv, [Next]_vars PROVE [Lifecycle!BNext]_(Lifecycle!bvars)
    OBVIOUS
  <2>1. CASE ExecuteBatch
    BY <2>1 DEF ExecuteBatch, IInv, RowKept, Lifecycle!BNext, Lifecycle!Appear
  <2>2. CASE \E requested \in Requests : Begin(requested)
    BY <2>2 DEF Begin, IInv, RowKept, Lifecycle!BNext, Lifecycle!Run
  <2>3. CASE Finish
    <3> DEFINE s == tally["success"]
               f == tally["failed"]
               k == tally["skipped"]
    <3>1. s + f + k = Total
      BY <2>3, CountsAddUp DEF Finish
    <3>2. s \in Nat /\ f \in Nat /\ k \in Nat
      BY DEF IInv, TypeOK, Outcome
    <3>3. s \in 0..Total /\ f \in 0..Total /\ k \in 0..Total
      BY <3>1, <3>2, BatchAssumption
    <3>4. status = "running"
      BY <2>3 DEF Finish, IInv, RowKept
    <3>5. Lifecycle!End(s, f, k)
      BY <2>3, <3>1, <3>4 DEF Finish, Lifecycle!End
    <3> QED
      BY <3>3, <3>5 DEF Lifecycle!BNext
  <2>4. CASE Dispatch \/ Crash \/ (\E i \in Item : Work(i)) \/ UNCHANGED vars
    <3>1. UNCHANGED row
      BY <2>4 DEF Dispatch, Crash, Work, Check, Trigger, Count, Release, Done, vars
    <3> QED
      BY <3>1 DEF row, Lifecycle!bvars
  <2> QED
    BY <2>1, <2>2, <2>3, <2>4 DEF Next
<1> QED
  BY <1>1, <1>2, Inductive, PTL DEF Spec, LifecycleSpec, Lifecycle!BSpec

-----------------------------------------------------------------------------
(***************************************************************************)
(* BatchFilter.  The invariant says which filters a worker has passed.     *)
(***************************************************************************)

(* Past the filters of the worker.                                         *)
Through == step \in {"trigger", "targets", "launch"} \/ outcome = "success"

(* The inputs of the flow have been chosen.                                *)
Chosen == step \in {"targets", "launch"} \/ outcome = "success"

(* What the preview has shown is what its filters say, if NDR answered.    *)
PlanKept ==
    /\ step = "preview" <=> plan = "none"
    /\ step # "preview" /\ ~broken => (plan = "skip" <=> PreviewSkips)

(* How far the worker has got tells which of the filters are passed.       *)
FiltersKept ==
    /\ step \in {"sources", "output"} \/ Through => ~request.named
    /\ (step = "output" \/ Through) /\ request.skipNoSource => Filtered # {}
    /\ step = "output" => request.skipNoOutput /\ ids = Filtered
    /\ Through /\ request.skipNoOutput => HasOutputDocuments(Filtered)
    /\ Through /\ Filtered # {} => ids = Filtered \/ (ids = {} /\ Filtered = node.sources)
    /\ ids \in {{}, Filtered}

OutcomeKept ==
    /\ step = "ended" <=> outcome # "none"
    /\ outcome = "skipped" => PreviewSkips
    /\ outcome = "failed" /\ ~broken => ~PreviewSkips
    /\ Chosen => inputs = IF ids # {} THEN ids ELSE node.sources

FilterIInv == FilterTypeOK /\ PlanKept /\ FiltersKept /\ OutcomeKept

(* Filtering with no skipped type drops nothing.                           *)
LEMMA NothingFiltered ==
    ASSUME FilterTypeOK, request.skipDocTypes = {}
    PROVE  Filtered = node.sources
BY DEF FilterTypeOK, Filtered, Request, Node

LEMMA InitFilterIInv == FilterInit => FilterIInv
BY DEF FilterInit, FilterIInv, FilterTypeOK, PlanKept, FiltersKept, OutcomeKept, Through, Chosen, Request, Node

LEMMA FilteredKept ==
    ASSUME UNCHANGED given
    PROVE  /\ Filtered' = Filtered
           /\ PreviewSkips' <=> PreviewSkips
           /\ HasOutputDocuments(Filtered)' <=> HasOutputDocuments(Filtered)
           /\ NeedsSources' <=> NeedsSources
BY DEF given, Filtered, PreviewSkips, HasOutputDocuments, NeedsSources

LEMMA NextFilterIInv == FilterIInv /\ [FilterNext]_filterVars => FilterIInv'
<1> SUFFICES ASSUME FilterIInv, [FilterNext]_filterVars PROVE FilterIInv'
  OBVIOUS
<1> USE DEF FilterIInv, PlanKept, FiltersKept, OutcomeKept, Through, Chosen
<1>0. UNCHANGED given
  BY DEF FilterNext, filterVars, given, Preview, PreviewFails, Show, CheckName, CheckSources, CheckOutput,
         FindInputs, FindTargets, Launch, End, NDRFails
<1>f. /\ Filtered' = Filtered
      /\ PreviewSkips' <=> PreviewSkips
      /\ HasOutputDocuments(Filtered)' <=> HasOutputDocuments(Filtered)
  BY <1>0, FilteredKept
<1>1. CASE Preview
  BY <1>1, <1>f DEF Preview, Show, FilterTypeOK, given
<1>2. CASE PreviewFails
  BY <1>2, <1>f DEF PreviewFails, Show, FilterTypeOK, given
<1>3. CASE CheckName
  <2>1. CASE request.named
    BY <1>3, <1>f, <2>1 DEF CheckName, End, FilterTypeOK, given, PreviewSkips
  <2>2. CASE ~request.named /\ NeedsSources
    BY <1>3, <1>f, <2>2 DEF CheckName, FilterTypeOK, given
  <2>3. CASE ~request.named /\ ~NeedsSources
    <3>1. Filtered = node.sources
      BY <2>3, NothingFiltered DEF NeedsSources, FilterTypeOK
    <3> QED
      BY <1>3, <1>f, <2>3, <3>1 DEF CheckName, FilterTypeOK, given, NeedsSources
  <2> QED
    BY <2>1, <2>2, <2>3
<1>t. request.skipNoSource \in BOOLEAN /\ request.skipNoOutput \in BOOLEAN
      /\ request.named \in BOOLEAN /\ Filtered \subseteq Doc
  BY DEF FilterTypeOK, Request, Node, Filtered
<1>4. CASE CheckSources
  <2>0. step = "sources" /\ ~request.named /\ outcome = "none" /\ plan # "none"
    BY <1>4 DEF CheckSources
  <2>1. CASE NDRFails
    BY <2>0, <2>1, <1>f DEF NDRFails, End, FilterTypeOK, given
  <2>2. CASE Filtered = {} /\ request.skipNoSource /\ End("skipped") /\ UNCHANGED broken
    BY <2>0, <2>2, <1>f DEF End, FilterTypeOK, given, PreviewSkips
  <2>3. CASE /\ Filtered # {} \/ ~request.skipNoSource
             /\ ids' = Filtered
             /\ step' = IF request.skipNoOutput THEN "output" ELSE "trigger"
             /\ UNCHANGED <<given, plan, inputs, targets, outcome, broken>>
    <3>1. FilterTypeOK'
      BY <2>3, <1>t DEF FilterTypeOK, given
    <3>2. PlanKept'
      BY <2>0, <2>3, <1>f
    <3>3. FiltersKept'
      BY <2>0, <2>3, <1>f, <1>t DEF given
    <3>4. OutcomeKept'
      BY <2>0, <2>3, <1>f
    <3> QED
      BY <3>1, <3>2, <3>3, <3>4
  <2> QED
    BY <1>4, <2>1, <2>2, <2>3 DEF CheckSources
<1>5. CASE CheckOutput
  <2>0. step = "output" /\ ~request.named /\ outcome = "none" /\ plan # "none"
        /\ request.skipNoOutput /\ ids = Filtered
    BY <1>5 DEF CheckOutput
  <2>1. CASE NDRFails
    BY <2>0, <2>1, <1>f DEF NDRFails, End, FilterTypeOK, given
  <2>2. CASE ~HasOutputDocuments(Filtered) /\ End("skipped") /\ UNCHANGED broken
    BY <2>0, <2>2, <1>f DEF End, FilterTypeOK, given, PreviewSkips
  <2>3. CASE /\ HasOutputDocuments(Filtered)
             /\ step' = "trigger"
             /\ UNCHANGED <<given, plan, ids, inputs, targets, outcome, broken>>
    BY <2>0, <2>3, <1>f, <1>t DEF FilterTypeOK, given
  <2> QED
    BY <1>5, <2>0, <2>1, <2>2, <2>3 DEF CheckOutput
<1>6. CASE FindInputs
  BY <1>6, <1>f DEF FindInputs, NDRFails, End, FilterTypeOK, given, PreviewSkips, Node
<1>7. CASE FindTargets
  <2>0. step = "targets" /\ outcome = "none" /\ plan # "none" /\ ids' = ids /\ inputs' = inputs
    BY <1>7 DEF FindTargets, NDRFails, End
  <2>1. CASE NDRFails
    BY <2>0, <2>1, <1>f DEF NDRFails, End, FilterTypeOK, given
  <2>2. ASSUME NEW page \in FirstPage, targets' = page \ inputs, step' = "launch",
               UNCHANGED <<given, plan, ids, inputs, outcome, broken>>
        PROVE  FilterIInv'
    <3>1. page \subseteq Doc
      BY <2>2 DEF FirstPage, FilterTypeOK, Node
    <3>2. FilterTypeOK'
      BY <2>2, <3>1 DEF FilterTypeOK, given
    <3> QED
      BY <2>0, <2>2, <3>2, <1>f DEF given
  <2> QED
    BY <1>7, <2>1, <2>2 DEF FindTargets
<1>8. CASE Launch
  BY <1>8, <1>f DEF Launch, End, FilterTypeOK, given, PreviewSkips
<1>9. CASE UNCHANGED filterVars
  BY <1>9, <1>f DEF filterVars, given, FilterTypeOK
<1> QED
  BY <1>1, <1>2, <1>3, <1>4, <1>5, <1>6, <1>7, <1>8, <1>9 DEF FilterNext

LEMMA FilterInductive == FilterSpec => []FilterIInv
BY InitFilterIInv, NextFilterIInv, PTL DEF FilterSpec

(* Every value of the model stays in its type.                             *)
THEOREM FilterTypeCorrect == FilterSpec => []FilterTypeOK
<1>1. FilterIInv => FilterTypeOK
  BY DEF FilterIInv
<1> QED
  BY <1>1, FilterInductive, PTL

(* The preview and the worker skip the same nodes as long as NDR answers.  *)
THEOREM PreviewCorrect == FilterSpec => []PreviewIsHonest
<1>1. FilterIInv => PreviewIsHonest
  BY DEF FilterIInv, PlanKept, FiltersKept, OutcomeKept, Through, Chosen, PreviewIsHonest, FilterTypeOK, PreviewSkips
<1> QED
  BY <1>1, FilterInductive, PTL

(* Under skip_no_source, a launched flow has inputs of wanted types only.  *)
THEOREM InputsCorrect == FilterSpec => []InputsAreWanted
<1>1. FilterIInv => InputsAreWanted
  <2> SUFFICES ASSUME FilterIInv, Launched, request.skipNoSource
               PROVE  inputs # {} /\ inputs \cap OfSkippedType = {}
    BY DEF InputsAreWanted
  <2>1. Filtered # {} /\ inputs = Filtered
    BY DEF FilterIInv, FiltersKept, OutcomeKept, Through, Chosen, Launched
  <2> QED
    BY <2>1 DEF Filtered, OfSkippedType
<1> QED
  BY <1>1, FilterInductive, PTL

(* A node with wanted source documents gets those and no others.           *)
THEOREM SourcesCorrect == FilterSpec => []WantedSourcesSuffice
<1>1. FilterIInv => WantedSourcesSuffice
  BY DEF FilterIInv, FiltersKept, OutcomeKept, Through, Chosen, WantedSourcesSuffice, Launched
<1> QED
  BY <1>1, FilterInductive, PTL

(* A flow gets the source documents that are wanted, if they are asked for *)
(* or if there are any.                                                    *)
THEOREM RightCorrect == FilterSpec => []InputsAreRight
BY InputsCorrect, SourcesCorrect, PTL DEF InputsAreRight
=============================================================================
