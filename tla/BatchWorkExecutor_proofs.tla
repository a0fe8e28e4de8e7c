----------------------- MODULE BatchWorkExecutor_proofs -----------------------
(* Machine-checked proofs about BatchWorkExecutor, for every number of     *)
(* items, batch size, number of workers, retry limit and number of         *)
(* executions and faults.                                                  *)
EXTENDS BatchWorkExecutor, SequenceLemmas, FiniteSetTheorems

(* Tasks are made of what they should be.                                  *)
LEMMA TaskTypes ==
  ASSUME ExecutorAssumption, custom \in BOOLEAN, NEW B \in SUBSET Items
  PROVE  /\ Task(B) \in Tasks
         /\ Over("ok") \in Tasks /\ Over("failed") \in Tasks
BY DEF ExecutorAssumption, Task, Over, Tasks, Running, Ended

(* A step of a worker replaces one task.                                   *)
LEMMA Update ==
  ASSUME tasks \in Seq(Tasks), NEW t \in Ids, NEW r \in Tasks, tasks' = [tasks EXCEPT ![t] = r]
  PROVE  /\ tasks' \in Seq(Tasks) /\ Ids' = Ids
         /\ tasks'[t] = r
         /\ \A u \in Ids : u # t => tasks'[u] = tasks[u]
BY DEF Ids

(* A batch is finite; one that is not empty has a size of one at least.    *)
LEMMA SizeFacts ==
  ASSUME ExecutorAssumption, TypeOK, NEW t \in Ids
  PROVE  /\ tasks[t] \in Tasks
         /\ Size(t) \in Nat
         /\ tasks[t].items # {} => Size(t) >= 1
<1>1. tasks[t] \in Tasks
  BY DEF TypeOK, Ids
<1>2. IsFiniteSet(Items)
  BY FS_Interval DEF Items, ExecutorAssumption
<1>3. tasks[t].items \in SUBSET Items
  BY <1>1 DEF Tasks
<1>4. IsFiniteSet(tasks[t].items)
  BY <1>2, <1>3, FS_Subset
<1>5. Size(t) \in Nat /\ (Size(t) = 0 <=> tasks[t].items = {})
  BY <1>4, FS_CardinalityType, FS_EmptySet DEF Size
<1>q. QED BY <1>1, <1>5

(* What is retried next is part of what is left.                           *)
LEMMA UnitFacts ==
  ASSUME ExecutorAssumption, TypeOK, NEW t \in Ids, tasks[t].left # {}
  PROVE  /\ Unit(t) \subseteq tasks[t].left
         /\ tasks[t].left # Unit(t) => tasks[t].left \ Unit(t) # {}
<1>1. tasks[t] \in Tasks
  BY DEF TypeOK, Ids
<1>2. tasks[t].left \in SUBSET Nat
  BY <1>1 DEF Tasks, Items, ExecutorAssumption
<1>3. Min(tasks[t].left) \in tasks[t].left
  BY <1>2, MinFacts
<1>q. QED BY <1>3 DEF Unit

(* What a worker may do to its task t, and to everything else: it never    *)
(* takes up items anew, collects items it had still to collect, and all of *)
(* those it drops unless the task fails; a task that ended stays as it is. *)
Progress(t) ==
  /\ main' = main
  /\ tasks' \in Seq(Tasks) /\ Ids' = Ids
  /\ \A u \in Ids : u # t => tasks'[u] = tasks[u]
  /\ tasks[t].status \in Ended => tasks'[t] = tasks[t]
  /\ Todo(t)' \subseteq Todo(t)
  /\ \E S \in SUBSET (Todo(t) \ Todo(t)') :
       Collected(S) /\ (~Failed(t)' => S = Todo(t) \ Todo(t)')
  /\ batchSize' \in 1 .. StartingBatchSize /\ changed' \in BOOLEAN
  /\ holding' \in SUBSET Ids
  /\ faults' \in 0 .. MaxFaults
  /\ tasks'[t].status \in {"queued", "first", "grow"} => tasks'[t].items # {}
  /\ tasks'[t].status \in {"shrink", "retry"} => tasks'[t].left # {}
  /\ tasks'[t].status = "grow" => Size(t)' * 2 <= StartingBatchSize
  /\ tasks'[t].status = "shrink" => Size(t)' \in 2 .. StartingBatchSize

LEMMA FaultType == ASSUME ExecutorAssumption, TypeOK, Fault PROVE faults' \in 0 .. MaxFaults
BY DEF Fault, TypeOK, ExecutorAssumption

(* Collecting nothing is collecting, too.                                  *)
LEMMA CollectNothing == ASSUME TypeOK, count' = count PROVE Collected({})
BY DEF Collected, TypeOK

LEMMA WorkerProgress ==
  ASSUME ExecutorAssumption, TypeOK, Shapes, NEW t \in Ids, Worker(t)
  PROVE  Progress(t)
<1>1. /\ tasks[t] \in Tasks /\ tasks \in Seq(Tasks) /\ Size(t) \in Nat
      /\ tasks[t].items # {} => Size(t) >= 1
  BY SizeFacts DEF TypeOK
<1>2. /\ batchSize \in 1 .. StartingBatchSize /\ StartingBatchSize \in Nat
      /\ changed \in BOOLEAN /\ holding \in SUBSET Ids /\ faults \in 0 .. MaxFaults
  BY DEF TypeOK, ExecutorAssumption
<1>3. Over("ok") \in Tasks /\ Over("failed") \in Tasks
  BY TaskTypes DEF TypeOK
<1>4. count' = count => Collected({})
  BY CollectNothing
<1>5. Fault => faults' \in 0 .. MaxFaults
  BY FaultType
<1>6. CASE Start(t)
  <2> DEFINE r == [tasks[t] EXCEPT !.status = "first"]
  <2>1. r \in Tasks /\ tasks' = [tasks EXCEPT ![t] = r]
    BY <1>1, <1>6 DEF Start, Tasks, Running
  <2>2. /\ tasks' \in Seq(Tasks) /\ Ids' = Ids /\ tasks'[t] = r
        /\ \A u \in Ids : u # t => tasks'[u] = tasks[u]
    BY <1>1, <2>1, Update
  <2>3. tasks[t].status = "queued" /\ Todo(t)' = Todo(t) /\ r.status = "first" /\ r.items = tasks[t].items
    BY <1>1, <1>6, <2>2 DEF Start, Queued, Todo, Tasks
  <2>q. QED BY <1>2, <1>4, <1>6, <2>2, <2>3 DEF Progress, Start, Ended, Shapes
<1>7. CASE FirstOk(t)
  <2>1. tasks[t].status = "first" /\ Todo(t) = tasks[t].items /\ tasks[t].items # {}
    BY <1>7 DEF FirstOk, Todo, Shapes
  <2>2. CASE tasks' = [tasks EXCEPT ![t] = Over("ok")]
    <3>1. /\ tasks' \in Seq(Tasks) /\ Ids' = Ids /\ tasks'[t] = Over("ok")
          /\ \A u \in Ids : u # t => tasks'[u] = tasks[u]
      BY <1>1, <1>3, <2>2, Update
    <3>2. Todo(t)' = {}
      BY <3>1 DEF Todo, Over
    <3>q. QED BY <1>2, <1>7, <2>1, <3>1, <3>2 DEF Progress, FirstOk, Ended, Over
  <2>3. CASE MayGrow(t) /\ tasks' = [tasks EXCEPT ![t].status = "grow"]
    <3> DEFINE r == [tasks[t] EXCEPT !.status = "grow"]
    <3>1. r \in Tasks /\ tasks' = [tasks EXCEPT ![t] = r]
      BY <1>1, <2>3 DEF Tasks, Running
    <3>2. /\ tasks' \in Seq(Tasks) /\ Ids' = Ids /\ tasks'[t] = r
          /\ \A u \in Ids : u # t => tasks'[u] = tasks[u]
      BY <1>1, <3>1, Update
    <3>3. r.status = "grow" /\ r.items = tasks[t].items
      BY <1>1 DEF Tasks
    <3> HIDE DEF r
    <3>4. Todo(t)' = {} /\ Size(t)' = Size(t)
      BY <3>2, <3>3 DEF Todo, Size
    <3>q. QED BY <1>2, <1>7, <2>1, <2>3, <3>2, <3>3, <3>4 DEF Progress, FirstOk, MayGrow, Ended
  <2>q. QED BY <1>7, <2>2, <2>3 DEF FirstOk
<1>8. CASE Grow(t)
  <2>1. tasks[t].status = "grow" /\ Todo(t) = {} /\ batchSize' = Size(t) * 2
    BY <1>8 DEF Grow, Todo
  <2>2. /\ tasks' \in Seq(Tasks) /\ Ids' = Ids /\ tasks'[t] = Over("ok")
        /\ \A u \in Ids : u # t => tasks'[u] = tasks[u]
    BY <1>1, <1>3, <1>8, Update DEF Grow
  <2>3. Todo(t)' = {}
    BY <2>2 DEF Todo, Over
  <2>4. batchSize' \in 1 .. StartingBatchSize
    BY <1>1, <1>2, <2>1 DEF Shapes
  <2>q. QED BY <1>2, <1>4, <1>8, <2>1, <2>2, <2>3, <2>4 DEF Progress, Grow, Ended, Over
<1>9. CASE FirstRetriable(t)
  <2> DEFINE shrinks == ~tasks[t].custom /\ batchSize = Size(t) /\ batchSize > 1
             r == [tasks[t] EXCEPT !.status = IF shrinks THEN "shrink" ELSE "retry",
                                   !.left = tasks[t].items]
  <2>1. r \in Tasks /\ tasks' = [tasks EXCEPT ![t] = r]
    BY <1>1, <1>9 DEF FirstRetriable, Tasks, Running
  <2>2. /\ tasks' \in Seq(Tasks) /\ Ids' = Ids /\ tasks'[t] = r
        /\ \A u \in Ids : u # t => tasks'[u] = tasks[u]
    BY <1>1, <2>1, Update
  <2>3. /\ r.left = tasks[t].items /\ r.items = tasks[t].items
        /\ r.status \in {"shrink", "retry"} /\ (r.status = "shrink" => shrinks)
    BY <1>1 DEF Tasks
  <2> HIDE DEF r
  <2>4. tasks[t].status = "first" /\ Todo(t) = tasks[t].items /\ tasks[t].items # {}
    BY <1>9 DEF FirstRetriable, Todo, Shapes
  <2>5. Todo(t)' = tasks[t].items /\ Size(t)' = Size(t)
    BY <2>2, <2>3 DEF Todo, Size
  <2>6. r.status = "shrink" => Size(t)' \in 2 .. StartingBatchSize
    BY <1>1, <1>2, <2>3, <2>5
  <2>q. QED BY <1>2, <1>4, <1>5, <1>9, <2>2, <2>3, <2>4, <2>5, <2>6 DEF Progress, FirstRetriable, Ended
<1>10. CASE Shrink(t)
  <2> DEFINE r == [tasks[t] EXCEPT !.status = "retry"]
  <2>1. r \in Tasks /\ tasks' = [tasks EXCEPT ![t] = r]
    BY <1>1, <1>10 DEF Shrink, Tasks, Running
  <2>2. /\ tasks' \in Seq(Tasks) /\ Ids' = Ids /\ tasks'[t] = r
        /\ \A u \in Ids : u # t => tasks'[u] = tasks[u]
    BY <1>1, <2>1, Update
  <2>3. r.status = "retry" /\ r.left = tasks[t].left
    BY <1>1 DEF Tasks
  <2> HIDE DEF r
  <2>4. tasks[t].status = "shrink" /\ Todo(t) = tasks[t].left /\ tasks[t].left # {}
        /\ Size(t) \in 2 .. StartingBatchSize
    BY <1>10 DEF Shrink, Todo, Shapes
  <2>5. Todo(t)' = tasks[t].left
    BY <2>2, <2>3 DEF Todo
  <2>6. batchSize' \in 1 .. StartingBatchSize
    BY <1>2, <1>10, <2>4 DEF Shrink
  <2>q. QED BY <1>2, <1>4, <1>10, <2>2, <2>3, <2>4, <2>5, <2>6 DEF Progress, Shrink, Ended
<1>11. CASE RetryOk(t)
  <2>1. tasks[t].status = "retry" /\ Todo(t) = tasks[t].left /\ tasks[t].left # {}
    BY <1>11 DEF RetryOk, Todo, Shapes
  <2>2. Unit(t) \subseteq tasks[t].left
        /\ (tasks[t].left # Unit(t) => tasks[t].left \ Unit(t) # {})
    BY <2>1, UnitFacts
  <2>3. CASE tasks[t].left = Unit(t)
    <3>1. tasks' = [tasks EXCEPT ![t] = Over("ok")]
      BY <1>11, <2>3 DEF RetryOk
    <3>2. /\ tasks' \in Seq(Tasks) /\ Ids' = Ids /\ tasks'[t] = Over("ok")
          /\ \A u \in Ids : u # t => tasks'[u] = tasks[u]
      BY <1>1, <1>3, <3>1, Update
    <3>3. Todo(t)' = {}
      BY <3>2 DEF Todo, Over
    <3>4. Collected(Todo(t) \ Todo(t)')
      BY <1>11, <2>1, <2>3, <3>3 DEF RetryOk
    <3>5. /\ main' = main /\ holding' = holding /\ batchSize' = batchSize
          /\ changed' = changed /\ faults' = faults
      BY <1>11 DEF RetryOk
    <3>q. QED BY <1>2, <2>1, <3>2, <3>3, <3>4, <3>5 DEF Progress, Ended, Over
  <2>4. CASE tasks[t].left # Unit(t)
    <3> DEFINE r == [tasks[t] EXCEPT !.left = @ \ Unit(t), !.attempt = 1]
    <3>0. tasks' = [tasks EXCEPT ![t] = r]
      BY <1>1, <1>11, <2>4 DEF RetryOk, Ids
    <3>1. r \in Tasks
      <4>1. 1 \in 1 .. MaxRetries
        BY DEF ExecutorAssumption
      <4>2. tasks[t].left \ Unit(t) \in SUBSET Items
        BY <1>1 DEF Tasks
      <4>q. QED BY <1>1, <4>1, <4>2 DEF Tasks
    <3>2. /\ tasks' \in Seq(Tasks) /\ Ids' = Ids /\ tasks'[t] = r
          /\ \A u \in Ids : u # t => tasks'[u] = tasks[u]
      BY <1>1, <3>0, <3>1, Update
    <3>3. r.status = "retry" /\ r.left = tasks[t].left \ Unit(t)
      BY <1>1, <2>1 DEF Tasks
    <3> HIDE DEF r
    <3>4. Todo(t)' = tasks[t].left \ Unit(t)
      BY <3>2, <3>3 DEF Todo
    <3>5. Todo(t) \ Todo(t)' = Unit(t) /\ Todo(t)' \subseteq Todo(t)
      BY <2>1, <2>2, <3>4
    <3>6. Collected(Todo(t) \ Todo(t)')
      BY <1>11, <3>5 DEF RetryOk
    <3>q. QED BY <1>2, <1>11, <2>1, <2>2, <2>4, <3>2, <3>3, <3>5, <3>6 DEF Progress, RetryOk, Ended
  <2>q. QED BY <2>3, <2>4
<1>12. CASE RetryFails(t)
  <2>1. tasks[t].status = "retry" /\ Todo(t) = tasks[t].left /\ tasks[t].left # {}
    BY <1>12 DEF RetryFails, Todo, Shapes
  <2>2. CASE tasks[t].attempt < MaxRetries
    <3> DEFINE r == [tasks[t] EXCEPT !.attempt = @ + 1]
    <3>0. tasks' = [tasks EXCEPT ![t] = r]
      BY <1>1, <1>12, <2>2 DEF RetryFails, Ids
    <3>1. r \in Tasks
      <4>1. tasks[t].attempt + 1 \in 1 .. MaxRetries
        BY <1>1, <2>2 DEF Tasks, ExecutorAssumption
      <4>q. QED BY <1>1, <4>1 DEF Tasks
    <3>2. /\ tasks' \in Seq(Tasks) /\ Ids' = Ids /\ tasks'[t] = r
          /\ \A u \in Ids : u # t => tasks'[u] = tasks[u]
      BY <1>1, <3>0, <3>1, Update
    <3>3. r.status = "retry" /\ r.left = tasks[t].left
      BY <1>1, <2>1 DEF Tasks
    <3> HIDE DEF r
    <3>4. Todo(t)' = Todo(t)
      BY <2>1, <3>2, <3>3 DEF Todo
    <3>q. QED BY <1>2, <1>4, <1>5, <1>12, <2>1, <3>2, <3>3, <3>4 DEF Progress, RetryFails, Ended
  <2>3. CASE ~(tasks[t].attempt < MaxRetries)
    <3>1. tasks' = [tasks EXCEPT ![t] = Over("failed")]
      BY <1>12, <2>3 DEF RetryFails
    <3>2. /\ tasks' \in Seq(Tasks) /\ Ids' = Ids /\ tasks'[t] = Over("failed")
          /\ \A u \in Ids : u # t => tasks'[u] = tasks[u]
      BY <1>1, <1>3, <3>1, Update
    <3>3. Todo(t)' = {} /\ Failed(t)'
      BY <3>2 DEF Todo, Over, Failed
    <3>q. QED BY <1>2, <1>4, <1>5, <1>12, <2>1, <3>2, <3>3 DEF Progress, RetryFails, Ended, Over
  <2>q. QED BY <2>2, <2>3
<1>13. CASE Fatal(t)
  <2>1. /\ tasks' \in Seq(Tasks) /\ Ids' = Ids /\ tasks'[t] = Over("failed")
        /\ \A u \in Ids : u # t => tasks'[u] = tasks[u]
    BY <1>1, <1>3, <1>13, Update DEF Fatal
  <2>2. Todo(t)' = {} /\ Failed(t)'
    BY <2>1 DEF Todo, Over, Failed
  <2>3. tasks[t].status \in {"first", "retry"}
    BY <1>13 DEF Fatal
  <2>4. (IF tasks[t].status = "first" THEN tasks[t].items ELSE Unit(t)) \subseteq Todo(t)
    <3>1. CASE tasks[t].status = "first"
      BY <3>1 DEF Todo
    <3>2. CASE tasks[t].status = "retry"
      BY <3>2, UnitFacts DEF Todo, Shapes
    <3>q. QED BY <2>3, <3>1, <3>2
  <2>5. PICK S \in SUBSET (IF tasks[t].status = "first" THEN tasks[t].items ELSE Unit(t)) : Collected(S)
    BY <1>13 DEF Fatal
  <2>6. S \in SUBSET (Todo(t) \ Todo(t)')
    BY <2>2, <2>4, <2>5
  <2>q. QED BY <1>2, <1>5, <1>13, <2>1, <2>2, <2>3, <2>5, <2>6 DEF Progress, Fatal, Ended, Over
<1>14. CASE Release(t)
  <2>1. tasks' = tasks /\ tasks[t].status \in Ended /\ Todo(t) = {} /\ Todo(t)' = {}
    BY <1>14 DEF Release, Todo, Ended
  <2>q. QED BY <1>1, <1>2, <1>4, <1>14, <2>1 DEF Progress, Release, Ended, Ids
<1>q. QED
  BY <1>6, <1>7, <1>8, <1>9, <1>10, <1>11, <1>12, <1>13, <1>14 DEF Worker

(* A worker's step keeps the invariant.                                    *)
LEMMA WorkerStep ==
  ASSUME ExecutorAssumption, IInv, NEW t \in Ids, Progress(t)
  PROVE  IInv'
<1> USE DEF IInv
<1>1. /\ pc' = pc /\ outcome' = outcome /\ raised' = raised /\ executions' = executions
      /\ custom' = custom /\ pos' = pos /\ batch' = batch /\ scan' = scan
      /\ futures' = futures /\ lateBatches' = lateBatches
  BY DEF Progress, main
<1>2. /\ tasks' \in Seq(Tasks) /\ Ids' = Ids
      /\ \A u \in Ids : u # t => tasks'[u] = tasks[u]
      /\ tasks[t].status \in Ended => tasks'[t] = tasks[t]
  BY DEF Progress
<1>3. \A u \in Ids : tasks[u].status \in Ended => tasks'[u] = tasks[u]
  BY <1>2
<1>4. \A u \in Ids : Todo(u)' \subseteq Todo(u) /\ (u # t => Todo(u)' = Todo(u))
  BY <1>2 DEF Progress, Todo
<1>5. PICK S \in SUBSET (Todo(t) \ Todo(t)') :
        Collected(S) /\ (~Failed(t)' => S = Todo(t) \ Todo(t)')
  BY DEF Progress
<1>6. /\ count \in [Items -> Nat] /\ count' \in [Items -> Nat]
      /\ \A i \in Items : count'[i] = IF i \in S THEN count[i] + 1 ELSE count[i]
  BY <1>5 DEF TypeOK, Collected
<1>7. TypeOK'
  BY <1>1, <1>2, <1>6 DEF TypeOK, Progress
<1>8. Shapes'
  <2>1. SUFFICES ASSUME NEW u \in Ids, u # t
                 PROVE  /\ tasks'[u].status \in {"queued", "first", "grow"} => tasks'[u].items # {}
                        /\ tasks'[u].status \in {"shrink", "retry"} => tasks'[u].left # {}
                        /\ tasks'[u].status = "grow" => Size(u)' * 2 <= StartingBatchSize
                        /\ tasks'[u].status = "shrink" => Size(u)' \in 2 .. StartingBatchSize
    BY <1>2 DEF Shapes, Progress
  <2>2. tasks'[u] = tasks[u] /\ Size(u)' = Size(u)
    BY <1>2, <2>1 DEF Size
  <2>q. QED BY <2>2 DEF Shapes
<1>9. Phases'
  BY <1>1, <1>3 DEF Phases, TypeOK, Ids
<1>10. Tracked'
  BY <1>1, <1>2, <1>3 DEF Tracked, Ended
<1>11. Doomed'
  <2>1. \A u \in Ids : Failed(u) => Failed(u)'
    BY <1>3 DEF Failed, Ended
  <2>2. DOMAIN scan = DOMAIN scan' /\ \A k \in DOMAIN scan : scan[k] \in Ids /\ scan'[k] = scan[k]
    BY <1>1 DEF TypeOK
  <2>q. QED BY <1>1, <1>2, <2>1, <2>2 DEF Doomed, Failed
<1>12. CASE raised
  <2>1. Counted'
    BY <1>1, <1>12 DEF Counted
  <2>2. ExactlyOnce'
    BY <1>1, <1>12 DEF Doomed, ExactlyOnce, Returned
  <2>q. QED BY <1>7, <1>8, <1>9, <1>10, <1>11, <2>1, <2>2
<1>13. CASE ~raised
  <2>1. \A i \in S : i \in Pending /\ i \notin Pending'
    <3>1. ASSUME NEW i \in S PROVE i \in Pending
      BY <1>5, <3>1 DEF Pending
    <3>2. ASSUME NEW i \in S, NEW u \in Ids PROVE i \notin Todo(u)'
      BY <1>4, <1>5, <1>13, <3>2 DEF Counted
    <3>3. ASSUME NEW i \in S PROVE i \notin batch'
      BY <1>1, <1>5, <1>13, <3>3 DEF Counted
    <3>q. QED BY <1>2, <3>1, <3>2, <3>3 DEF Pending
  <2>2. Pending' \subseteq Pending
    BY <1>1, <1>2, <1>4 DEF Pending
  <2>3. \A u \in Ids : Failed(u) => Failed(u)'
    BY <1>3 DEF Failed, Ended
  <2>4. ASSUME \A u \in Ids : ~Failed(u)' PROVE Pending \ Pending' \subseteq S
    <3>1. ASSUME NEW i \in Pending, i \notin Pending' PROVE i \in S
      <4>1. PICK u \in Ids : i \in Todo(u) /\ i \notin Todo(u)'
        BY <1>1, <1>2, <3>1 DEF Pending
      <4>q. QED BY <1>4, <1>5, <2>4, <4>1
    <3>q. QED BY <3>1
  <2>5. Counted'
    <3>1. \A u \in Ids : Todo(u)' \cap batch' = {}
      BY <1>1, <1>4, <1>13 DEF Counted
    <3>2. \A u, w \in Ids : u # w => Todo(u)' \cap Todo(w)' = {}
      BY <1>4, <1>13 DEF Counted
    <3>3. \A i \in Pending' : i <= pos'
      BY <1>1, <1>13, <2>2 DEF Counted
    <3>4. \A i \in Items : i \in Pending' \/ i > pos' => count'[i] = 0
      <4>1. ASSUME NEW i \in Items, i \in Pending' \/ i > pos PROVE i \notin S
        <5>1. i \in S => i \in Pending /\ i <= pos
          BY <1>13, <2>1 DEF Counted
        <5>q. QED BY <2>1, <4>1, <5>1 DEF TypeOK, Items
      <4>q. QED BY <1>1, <1>6, <1>13, <2>2, <4>1 DEF Counted
    <3>5. (\A u \in Ids : ~Failed(u)') => \A i \in Items \ Pending' : i <= pos' => count'[i] = 1
      <4>1. SUFFICES ASSUME \A u \in Ids : ~Failed(u)', NEW i \in Items \ Pending', i <= pos
                     PROVE  count'[i] = 1
        BY <1>1
      <4>2. CASE i \in Pending
        BY <1>6, <1>13, <2>4, <4>1, <4>2 DEF Counted
      <4>3. CASE i \notin Pending
        BY <1>6, <1>13, <2>1, <2>3, <4>1, <4>3 DEF Counted
      <4>q. QED BY <4>2, <4>3
    <3>q. QED BY <1>2, <3>1, <3>2, <3>3, <3>4, <3>5 DEF Counted
  <2>6. ExactlyOnce'
    <3>1. \A i \in Items : count'[i] <= 1
      BY <1>6, <1>13, <2>1 DEF ExactlyOnce, Counted
    <3>2. ASSUME Returned PROVE \A i \in Items : count'[i] = 1
      <4>1. futures = <<>>
        BY <1>13, <3>2 DEF Returned, Tracked
      <4>2. Range(futures) = {}
        BY <4>1 DEF Range
      <4>3. Todo(t) = {}
        BY <4>2 DEF Tracked, Todo
      <4>q. QED BY <1>5, <1>6, <3>2, <4>3 DEF ExactlyOnce
    <3>q. QED BY <1>1, <3>1, <3>2 DEF ExactlyOnce, Returned
  <2>q. QED BY <1>7, <1>8, <1>9, <1>10, <1>11, <2>5, <2>6
<1>q. QED BY <1>12, <1>13

LEMMA InitHolds == ExecutorAssumption /\ Init => IInv
<1> SUFFICES ASSUME ExecutorAssumption, Init PROVE IInv
  OBVIOUS
<1>1. Ids = {}
  BY DEF Init, Ids
<1>2. TypeOK
  <2>1. <<>> \in Seq(Tasks) /\ <<>> \in Seq(Ids)
    OBVIOUS
  <2>2. [i \in Items |-> 0] \in [Items -> Nat]
    OBVIOUS
  <2>3. /\ 0 \in 0 .. MaxExecutions /\ 0 \in 0 .. NumItems /\ 0 \in 0 .. MaxFaults
        /\ StartingBatchSize \in 1 .. StartingBatchSize
    BY DEF ExecutorAssumption
  <2>q. QED BY <2>1, <2>2, <2>3 DEF Init, TypeOK
<1>3. Pending = {}
  BY <1>1 DEF Init, Pending
<1>4. Shapes /\ Phases /\ Tracked /\ Doomed /\ ExactlyOnce
  BY <1>1 DEF Init, Shapes, Phases, Tracked, Doomed, ExactlyOnce, Returned, IsInjective
<1>5. Counted
  BY <1>1, <1>3 DEF Init, Counted, Items, ExecutorAssumption
<1>q. QED BY <1>2, <1>4, <1>5 DEF IInv

(* What a step of the main thread that submits nothing leaves alone.       *)
LEMMA Frame ==
  ASSUME IInv, UNCHANGED <<tasks, batch, pos, count, raised>>
  PROVE  Shapes' /\ Counted'
<1>1. Shapes'
  BY DEF IInv, Shapes, Ids, Size
<1>2. Ids' = Ids /\ (\A u \in Ids : Todo(u)' = Todo(u)) /\ Pending' = Pending
  BY DEF Ids, Todo, Pending
<1>3. \A u \in Ids : Failed(u)' <=> Failed(u)
  BY DEF Failed
<1>4. Counted'
  BY <1>2, <1>3 DEF IInv, Counted
<1>q. QED BY <1>1, <1>4

(* A new execution starts from scratch, if the ones before returned.       *)
LEMMA BeginStep == ASSUME ExecutorAssumption, IInv, Begin PROVE IInv'
<1> USE DEF IInv
<1>1. /\ pc = "idle" /\ pc' = "next" /\ pos' = 0 /\ batch' = batch /\ tasks' = tasks
      /\ raised' = raised /\ futures' = futures /\ scan' = scan /\ lateBatches' = 0
      /\ outcome' = "none" /\ count' = [i \in Items |-> 0]
  BY DEF Begin
<1>2. TypeOK'
  BY <1>1 DEF Begin, TypeOK, ExecutorAssumption, Ids
<1>3. Shapes'
  BY <1>1 DEF Shapes, Ids, Size
<1>4. Phases'
  BY <1>1 DEF Phases
<1>5. Tracked'
  BY <1>1 DEF Tracked, Ids
<1>6. Doomed'
  BY <1>1 DEF Doomed, Ids, Failed
<1>7. Counted'
  <2>1. SUFFICES ASSUME ~raised PROVE Counted'
    BY <1>1 DEF Counted
  <2>2. futures = <<>> /\ batch = {}
    BY <1>1, <2>1 DEF Tracked, Phases
  <2>3. Range(futures) = {}
    BY <2>2 DEF Range
  <2>4. \A t \in Ids : Todo(t)' = {}
    BY <1>1, <2>3 DEF Tracked, Todo
  <2>5. Ids' = Ids /\ batch' = {} /\ Pending' = {}
    BY <1>1, <2>2, <2>4 DEF Pending, Ids
  <2>q. QED BY <1>1, <2>4, <2>5 DEF Counted, Items, ExecutorAssumption
<1>8. ExactlyOnce'
  BY <1>1 DEF ExactlyOnce, Returned
<1>q. QED BY <1>2, <1>3, <1>4, <1>5, <1>6, <1>7, <1>8

(* The items taken next are not pending, and become so.                    *)
LEMMA NextBatchStep == ASSUME ExecutorAssumption, IInv, NextBatch PROVE IInv'
<1> USE DEF IInv
<1>1. /\ pc = "next" /\ pc' = "check" /\ scan' = futures /\ tasks' = tasks /\ count' = count
      /\ raised' = raised /\ futures' = futures /\ lateBatches' = lateBatches
      /\ outcome' = outcome
  BY DEF NextBatch
<1>2. batch = {}
  BY <1>1 DEF Phases
<1>3. PICK n \in Items : pos + n <= NumItems /\ pos' = pos + n /\ batch' = pos + 1 .. pos + n
  BY DEF NextBatch
<1>4. /\ pos \in Nat /\ n \in Nat /\ n >= 1 /\ NumItems \in Nat
      /\ pos' \in 0 .. NumItems /\ batch' # {} /\ batch' \in SUBSET Items
  <2>1. pos \in Nat /\ n \in Nat /\ n >= 1 /\ NumItems \in Nat
    BY DEF TypeOK, Items, ExecutorAssumption
  <2>2. pos + 1 \in batch' /\ \A i \in batch' : i \in 1 .. NumItems
    BY <1>3, <2>1
  <2>q. QED BY <1>3, <2>1, <2>2 DEF Items
<1>5. TypeOK'
  BY <1>1, <1>4 DEF NextBatch, TypeOK, Ids
<1>6. Shapes'
  BY <1>1 DEF Shapes, Ids, Size
<1>7. Phases'
  BY <1>1, <1>4 DEF Phases
<1>8. Tracked'
  BY <1>1 DEF Tracked, Ids
<1>9. Doomed'
  <2>1. ASSUME NEW t \in Ids, Failed(t) PROVE \E k \in DOMAIN futures : Failed(futures[k])
    <3>1. t \in Range(futures)
      BY <2>1 DEF Tracked, Failed
    <3>q. QED BY <2>1, <3>1 DEF Range
  <2>2. \A t \in Ids : Failed(t)' <=> Failed(t)
    BY <1>1 DEF Failed
  <2>3. (\E k \in DOMAIN futures : Failed(futures[k])) => \E k \in DOMAIN scan' : Failed(scan[k])'
    BY <1>1 DEF Failed
  <2>4. Ids' = Ids
    BY <1>1 DEF Ids
  <2>q. QED BY <1>1, <2>1, <2>2, <2>3, <2>4 DEF Doomed
<1>10. Counted'
  <2>1. SUFFICES ASSUME ~raised PROVE Counted'
    BY <1>1 DEF Counted
  <2>2. Ids' = Ids /\ \A u \in Ids : Todo(u)' = Todo(u) /\ Todo(u) \subseteq Items
    <3>1. Ids' = Ids /\ \A u \in Ids : Todo(u)' = Todo(u)
      BY <1>1 DEF Todo, Ids
    <3>2. ASSUME NEW u \in Ids PROVE tasks[u].items \subseteq Items /\ tasks[u].left \subseteq Items
      BY SizeFacts DEF Tasks
    <3>q. QED BY <3>1, <3>2 DEF Todo
  <2>3. Pending' = Pending \cup (pos + 1 .. pos + n) /\ Pending \subseteq Items
    BY <1>2, <1>3, <2>2 DEF Pending
  <2>4. \A i \in Pending : i <= pos
    BY <2>1 DEF Counted
  <2>5. \A t \in Ids : Todo(t)' \cap batch' = {}
    <3>1. \A t \in Ids : Todo(t) \subseteq Pending
      BY DEF Pending
    <3>q. QED BY <1>3, <1>4, <2>2, <2>3, <2>4, <3>1 DEF Items
  <2>6. \A t, u \in Ids : t # u => Todo(t)' \cap Todo(u)' = {}
    BY <2>1, <2>2 DEF Counted
  <2>7. \A i \in Pending' : i <= pos'
    BY <1>3, <1>4, <2>3, <2>4 DEF Items
  <2>8. \A i \in Items : i \in Pending' \/ i > pos' => count'[i] = 0
    <3>1. \A i \in Items : i \in Pending' \/ i > pos' => i \in Pending \/ i > pos
      BY <1>3, <1>4, <2>3 DEF Items
    <3>q. QED BY <1>1, <2>1, <3>1 DEF Counted
  <2>9. \A i \in Items \ Pending' : i <= pos' => i \notin Pending /\ i <= pos
    BY <1>3, <1>4, <2>3 DEF Items
  <2>10. (\A t \in Ids : ~Failed(t)') => \A i \in Items \ Pending' : i <= pos' => count'[i] = 1
    BY <1>1, <2>1, <2>9 DEF Counted, Failed
  <2>q. QED BY <2>2, <2>5, <2>6, <2>7, <2>8, <2>10 DEF Counted
<1>11. ExactlyOnce'
  BY <1>1 DEF ExactlyOnce, Returned
<1>q. QED BY <1>5, <1>6, <1>7, <1>8, <1>9, <1>10, <1>11

LEMMA ExhaustedStep == ASSUME ExecutorAssumption, IInv, Exhausted PROVE IInv'
<1> USE DEF IInv
<1>1. /\ pc = "next" /\ pc' = "wait" /\ pos = NumItems
      /\ UNCHANGED <<outcome, raised, executions, custom, pos, batch, scan, futures, lateBatches,
                     tasks, holding, batchSize, changed, count, faults>>
  BY DEF Exhausted
<1>2. TypeOK' /\ Tracked' /\ Phases' /\ ExactlyOnce'
  BY <1>1 DEF TypeOK, Tracked, Phases, ExactlyOnce, Returned, Ids
<1>3. Doomed'
  BY <1>1 DEF Doomed, Failed, Ids
<1>q. QED BY <1>1, <1>2, <1>3, Frame

(* A future that is still running tells nothing of the failed one, and in  *)
(* wait there is none.                                                     *)
LEMMA CheckPendingStep == ASSUME ExecutorAssumption, IInv, CheckPending PROVE IInv'
<1> USE DEF IInv
<1>1. /\ pc \in {"check", "final"} /\ scan # <<>> /\ scan' = Tail(scan)
      /\ tasks[Head(scan)].status \notin Ended
      /\ UNCHANGED <<pc, outcome, raised, executions, custom, pos, batch, futures, lateBatches,
                     tasks, holding, batchSize, changed, count, faults>>
  BY DEF CheckPending
<1>2. /\ scan \in Seq(Ids) /\ Len(scan) \in Nat \ {0} /\ Head(scan) = scan[1]
      /\ Tail(scan) \in Seq(Ids) /\ DOMAIN Tail(scan) = 1 .. Len(scan) - 1
      /\ \A k \in 1 .. Len(scan) - 1 : Tail(scan)[k] = scan[k + 1]
  BY <1>1 DEF TypeOK
<1>3. pc = "check"
  BY <1>1, <1>2 DEF Phases
<1>4. TypeOK' /\ Tracked' /\ Phases' /\ ExactlyOnce'
  BY <1>1, <1>2, <1>3 DEF TypeOK, Tracked, Phases, ExactlyOnce, Returned, Ids
<1>5. Doomed'
  <2>1. ASSUME NEW k \in DOMAIN scan, Failed(scan[k])
        PROVE  \E h \in DOMAIN scan' : Failed(scan[h])'
    <3>1. k # 1 /\ k - 1 \in 1 .. Len(scan) - 1 /\ Tail(scan)[k - 1] = scan[k]
      BY <1>1, <1>2, <2>1 DEF Failed, Ended
    <3>q. QED BY <1>1, <1>2, <2>1, <3>1 DEF Failed
  <2>q. QED BY <1>1, <1>3, <2>1 DEF Doomed, Failed, Ids
<1>q. QED BY <1>1, <1>4, <1>5, Frame

(* A future that succeeded goes; the failed one stays.                     *)
LEMMA CheckOkStep == ASSUME ExecutorAssumption, IInv, CheckOk PROVE IInv'
<1> USE DEF IInv
<1>1. /\ pc \in {"check", "final"} /\ scan # <<>> /\ scan' = Tail(scan)
      /\ tasks[Head(scan)].status = "ok" /\ futures' = RemoveFirst(futures, Head(scan))
      /\ UNCHANGED <<pc, outcome, raised, executions, custom, pos, batch, lateBatches,
                     tasks, holding, batchSize, changed, count, faults>>
  BY DEF CheckOk
<1>2. /\ scan \in Seq(Ids) /\ Len(scan) \in Nat \ {0} /\ Head(scan) = scan[1] /\ Head(scan) \in Ids
      /\ Tail(scan) \in Seq(Ids) /\ DOMAIN Tail(scan) = 1 .. Len(scan) - 1
      /\ \A k \in 1 .. Len(scan) - 1 : Tail(scan)[k] = scan[k + 1]
  BY <1>1 DEF TypeOK
<1>3. /\ futures' \in Seq(Ids) /\ IsInjective(futures')
      /\ Range(futures') = Range(futures) \ {Head(scan)}
  <2>1. futures \in Seq(Ids) /\ IsInjective(futures)
    BY DEF TypeOK, Tracked
  <2> DEFINE r == RemoveFirst(futures, Head(scan))
  <2>2. r \in Seq(Ids) /\ IsInjective(r) /\ Range(r) = Range(futures) \ {Head(scan)}
    BY <1>2, <2>1, RemoveFirstRange
  <2>q. QED BY <1>1, <2>2
<1>4. TypeOK'
  BY <1>1, <1>2, <1>3 DEF TypeOK, Ids
<1>5. Tracked'
  BY <1>1, <1>3 DEF Tracked, Ids
<1>6. Phases'
  <2>1. CASE pc = "check"
    BY <1>1, <2>1 DEF Phases
  <2>2. CASE pc = "final"
    <3>1. scan = futures
      BY <2>2 DEF Phases
    <3>2. futures' = Tail(futures) /\ scan' = Tail(futures)
      BY <1>1, <3>1, RemoveHead DEF TypeOK, Tracked
    <3>3. \A k \in DOMAIN futures' : tasks[futures'[k]].status \in Ended
      BY <1>2, <2>2, <3>1, <3>2 DEF Phases
    <3>q. QED BY <1>1, <2>2, <3>2, <3>3 DEF Phases
  <2>q. QED BY <1>1, <2>1, <2>2
<1>7. Doomed'
  <2>1. ASSUME NEW k \in DOMAIN scan, Failed(scan[k])
        PROVE  \E h \in DOMAIN scan' : Failed(scan[h])'
    <3>1. k # 1 /\ k - 1 \in 1 .. Len(scan) - 1 /\ Tail(scan)[k - 1] = scan[k]
      BY <1>1, <1>2, <2>1 DEF Failed
    <3>q. QED BY <1>1, <1>2, <2>1, <3>1 DEF Failed
  <2>q. QED BY <1>1, <2>1 DEF Doomed, Failed, Ids
<1>8. ExactlyOnce'
  BY <1>1 DEF ExactlyOnce, Returned
<1>q. QED BY <1>1, <1>4, <1>5, <1>6, <1>7, <1>8, Frame

LEMMA CheckFailedStep == ASSUME ExecutorAssumption, IInv, CheckFailed PROVE IInv'
<1> USE DEF IInv
<1>1. /\ pc' = "idle" /\ outcome' = "error" /\ raised' = TRUE /\ scan' = <<>> /\ batch' = {}
      /\ scan # <<>> /\ Failed(Head(scan))
      /\ UNCHANGED <<executions, custom, pos, futures, lateBatches,
                     tasks, holding, batchSize, changed, count, faults>>
  BY DEF CheckFailed
<1>2. Head(scan) \in Ids
  BY <1>1 DEF TypeOK
<1>3. TypeOK' /\ Phases'
  BY <1>1 DEF TypeOK, Phases, Ids
<1>4. Shapes'
  BY <1>1 DEF Shapes, Ids, Size
<1>5. Tracked' /\ Counted' /\ ExactlyOnce'
  BY <1>1 DEF Tracked, Counted, ExactlyOnce, Returned, Ids
<1>6. Doomed'
  BY <1>1, <1>2 DEF Doomed, Failed, Ids
<1>q. QED BY <1>3, <1>4, <1>5, <1>6

(* The check got to its end: there was no failed future to meet.           *)
LEMMA CheckedStep == ASSUME ExecutorAssumption, IInv, Checked PROVE IInv'
<1> USE DEF IInv
<1>1. /\ pc = "check" /\ pc' = "submit" /\ scan = <<>>
      /\ UNCHANGED <<outcome, raised, executions, custom, pos, batch, scan, futures, lateBatches,
                     tasks, holding, batchSize, changed, count, faults>>
  BY DEF Checked
<1>2. TypeOK' /\ Tracked' /\ Phases' /\ ExactlyOnce'
  BY <1>1 DEF TypeOK, Tracked, Phases, ExactlyOnce, Returned, Ids
<1>3. DOMAIN scan = {}
  BY <1>1
<1>4. Doomed'
  BY <1>1, <1>3 DEF Doomed
<1>q. QED BY <1>1, <1>2, <1>4, Frame

(* The batch becomes a task; what is pending stays the same.               *)
LEMMA SubmitStep == ASSUME ExecutorAssumption, IInv, Submit PROVE IInv'
<1> USE DEF IInv
<1>0. PICK n \in Nat : n = Len(tasks) + 1
  BY DEF TypeOK
<1>1. /\ pc = "submit" /\ pc' = "next" /\ batch' = {}
      /\ tasks' = Append(tasks, Task(batch)) /\ holding' = holding \cup {n}
      /\ futures' = Append(futures, n)
      /\ lateBatches' = IF \E t \in Ids : Failed(t) THEN lateBatches + 1 ELSE lateBatches
      /\ UNCHANGED <<outcome, raised, executions, custom, pos, scan,
                     batchSize, changed, count, faults>>
  BY <1>0 DEF Submit
<1>2. /\ tasks \in Seq(Tasks) /\ futures \in Seq(Ids) /\ scan \in Seq(Ids) /\ Task(batch) \in Tasks
      /\ Ids = 1 .. Len(tasks) /\ Len(tasks) \in Nat
  BY TaskTypes DEF TypeOK, Ids
<1>3. /\ tasks' \in Seq(Tasks) /\ Ids' = Ids \cup {n} /\ n \notin Ids
      /\ tasks'[n] = Task(batch) /\ \A t \in Ids : tasks'[t] = tasks[t]
  BY <1>0, <1>1, <1>2 DEF Ids
<1>4. /\ futures \in Seq(Ids') /\ scan' \in Seq(Ids') /\ futures' \in Seq(Ids')
      /\ DOMAIN futures' = 1 .. Len(futures) + 1 /\ Len(futures) \in Nat
      /\ DOMAIN futures = 1 .. Len(futures)
      /\ futures'[Len(futures) + 1] = n
      /\ \A k \in DOMAIN futures : futures'[k] = futures[k] /\ futures[k] \in Ids
  <2>1. n \in Ids' /\ Ids \subseteq Ids'
    BY <1>3
  <2>2. \A s \in Seq(Ids) : s \in Seq(Ids')
    BY <2>1, SeqMonotonic
  <2>q. QED BY <1>1, <1>2, <2>1, <2>2
<1>5. scan = <<>> /\ batch # {} /\ ~raised /\ lateBatches = 0
  BY <1>1 DEF Phases, Doomed, TypeOK
<1>6. TypeOK'
  BY <1>1, <1>3, <1>4, <1>5 DEF TypeOK
<1>7. Task(batch).status = "queued" /\ Task(batch).items = batch
  BY DEF Task
<1>8. Shapes'
  <2>1. ASSUME NEW t \in Ids
        PROVE  tasks'[t] = tasks[t] /\ Size(t)' = Size(t)
    BY <1>3, <2>1 DEF Size
  <2>q. QED BY <1>3, <1>5, <1>7, <2>1 DEF Shapes
<1>9. Phases'
  BY <1>1, <1>5 DEF Phases
<1>10. Tracked'
  <2>1. IsInjective(futures')
    BY <1>3, <1>4 DEF Tracked, IsInjective
  <2>2. \A t \in Range(futures) : t \in Range(futures')
    BY <1>4 DEF Range
  <2>3. n \in Range(futures')
    BY <1>4 DEF Range
  <2>q. QED BY <1>1, <1>3, <2>1, <2>2, <2>3 DEF Tracked
<1>11. Doomed'
  <2>1. \A t \in Ids : Failed(t)' <=> Failed(t)
    BY <1>3 DEF Failed
  <2>q. QED BY <1>1, <1>3, <1>5, <2>1 DEF Doomed
<1>12. Counted'
  <2>1. Todo(n)' = batch /\ \A t \in Ids : Todo(t)' = Todo(t)
    BY <1>3, <1>7 DEF Todo
  <2>2. Pending' = Pending
    BY <1>1, <1>3, <2>1 DEF Pending
  <2>3. \A t \in Ids : Todo(t) \cap batch = {}
    BY <1>5 DEF Counted
  <2>4. \A t \in Ids' : Todo(t)' \cap batch' = {}
    BY <1>1
  <2>5. \A t, u \in Ids' : t # u => Todo(t)' \cap Todo(u)' = {}
    BY <1>3, <1>5, <2>1, <2>3 DEF Counted
  <2>6. \A t \in Ids : Failed(t)' <=> Failed(t)
    BY <1>3 DEF Failed
  <2>q. QED BY <1>1, <1>3, <1>5, <2>2, <2>4, <2>5, <2>6 DEF Counted
<1>13. ExactlyOnce'
  BY <1>1 DEF ExactlyOnce, Returned
<1>q. QED BY <1>6, <1>8, <1>9, <1>10, <1>11, <1>12, <1>13

LEMMA WaitStep == ASSUME ExecutorAssumption, IInv, Wait PROVE IInv'
<1> USE DEF IInv
<1>1. /\ pc = "wait" /\ pc' = "final" /\ scan' = futures
      /\ \A k \in DOMAIN futures : tasks[futures[k]].status \in Ended
      /\ UNCHANGED <<outcome, raised, executions, custom, pos, batch, futures, lateBatches,
                     tasks, holding, batchSize, changed, count, faults>>
  BY DEF Wait
<1>2. TypeOK' /\ Tracked' /\ Phases' /\ ExactlyOnce'
  BY <1>1 DEF TypeOK, Tracked, Phases, ExactlyOnce, Returned, Ids
<1>3. Doomed'
  BY <1>1 DEF Doomed, Failed, Ids
<1>q. QED BY <1>1, <1>2, <1>3, Frame

(* All futures are seen to have succeeded: nothing failed, nothing is      *)
(* pending, everything is collected.                                       *)
LEMMA ReturnStep == ASSUME ExecutorAssumption, IInv, Return PROVE IInv'
<1> USE DEF IInv
<1>1. /\ pc = "final" /\ pc' = "idle" /\ scan = <<>> /\ outcome' = "ok"
      /\ UNCHANGED <<raised, executions, custom, pos, batch, scan, futures, lateBatches,
                     tasks, holding, batchSize, changed, count, faults>>
  BY DEF Return
<1>2. futures = <<>> /\ pos = NumItems /\ batch = {}
  BY <1>1 DEF Phases
<1>3. Range(futures) = {}
  BY <1>2 DEF Range
<1>4. \A t \in Ids : tasks[t].status = "ok" /\ ~Failed(t) /\ Todo(t) = {}
  BY <1>3 DEF Tracked, Failed, Todo
<1>5. Pending = {}
  BY <1>2, <1>4 DEF Pending
<1>6. ~raised /\ lateBatches # 1
  BY <1>4 DEF Doomed
<1>7. \A i \in Items : count[i] = 1
  BY <1>2, <1>4, <1>5, <1>6 DEF Counted, Items, ExecutorAssumption
<1>8. TypeOK' /\ Tracked' /\ Phases'
  BY <1>1, <1>2 DEF TypeOK, Tracked, Phases, Ids
<1>9. Doomed'
  BY <1>1, <1>6 DEF Doomed
<1>10. ExactlyOnce'
  BY <1>1, <1>7 DEF ExactlyOnce
<1>q. QED BY <1>1, <1>8, <1>9, <1>10, Frame

LEMMA StutterStep == ASSUME IInv, UNCHANGED vars PROVE IInv'
<1>1. TypeOK' /\ Phases' /\ Tracked' /\ ExactlyOnce'
  BY DEF vars, main, IInv, TypeOK, Phases, Tracked, ExactlyOnce, Returned, Ids
<1>2. Doomed'
  BY DEF vars, main, IInv, Doomed, Failed, Ids
<1>q. QED BY <1>1, <1>2, Frame DEF IInv, vars, main

LEMMA NextHolds == ExecutorAssumption /\ IInv /\ [Next]_vars => IInv'
<1> SUFFICES ASSUME ExecutorAssumption, IInv, [Next]_vars PROVE IInv'
  OBVIOUS
<1>1. CASE Begin
  BY <1>1, BeginStep
<1>2. CASE Main
  BY <1>2, NextBatchStep, ExhaustedStep, CheckPendingStep, CheckOkStep, CheckFailedStep,
     CheckedStep, SubmitStep, WaitStep, ReturnStep DEF Main
<1>3. CASE \E t \in Ids : Worker(t)
  <2>1. PICK t \in Ids : Worker(t)
    BY <1>3
  <2>2. Progress(t)
    BY <2>1, WorkerProgress DEF IInv
  <2>q. QED BY <2>2, WorkerStep
<1>4. CASE Stop \/ UNCHANGED vars
  BY <1>4, StutterStep DEF Stop
<1>q. QED BY <1>1, <1>2, <1>3, <1>4 DEF Next

LEMMA Invariance == Spec => []IInv
<1>1. ExecutorAssumption
  BY ExecutorAssumption
<1>q. QED BY <1>1, InitHolds, NextHolds, PTL DEF Spec
-----------------------------------------------------------------------------
(* The adaptive batch size, raced over by all workers, stays between one   *)
(* and what it started with, and all else has its type.                    *)
THEOREM TypeCorrect == Spec => []TypeOK
BY Invariance, PTL DEF IInv

(* Whatever fails and is retried, an execution that returns has collected  *)
(* every item once.                                                        *)
THEOREM EveryItemOnce == Spec => []ExactlyOnce
BY Invariance, PTL DEF IInv

(* No worker is at work behind the back of an execution that returned.     *)
THEOREM Quiet == Spec => []QuietAfterReturn
<1>1. IInv => QuietAfterReturn
  <2>1. SUFFICES ASSUME IInv, Returned PROVE futures = <<>> /\ \A t \in Ids : tasks[t].status = "ok"
    BY DEF QuietAfterReturn
  <2>2. futures = <<>>
    BY <2>1 DEF Returned, IInv, Doomed, Tracked
  <2>3. Range(futures) = {}
    BY <2>2 DEF Range
  <2>q. QED BY <2>1, <2>2, <2>3 DEF IInv, Tracked
<1>q. QED BY <1>1, Invariance, PTL

(* One more batch at most is submitted after a failure.                    *)
THEOREM FailsFast == Spec => []FailFast
BY Invariance, PTL DEF IInv, Doomed, FailFast

(* An executor that raised never works again.                              *)
THEOREM PoisonStays == Spec => PoisonIsPermanent
<1>1. ExecutorAssumption
  BY ExecutorAssumption
<1>2. ExecutorAssumption /\ IInv /\ [Next]_vars
        => [raised => outcome' # "ok" /\ Len(tasks') = Len(tasks)]_vars
  <2>1. SUFFICES ASSUME ExecutorAssumption, IInv, [Next]_vars, raised
                 PROVE  outcome' # "ok" /\ Len(tasks') = Len(tasks)
    OBVIOUS
  <2>2. raised'
    <3>1. CASE \E t \in Ids : Worker(t)
      BY <2>1, <3>1, WorkerProgress DEF IInv, Progress, main
    <3>2. CASE ~ \E t \in Ids : Worker(t)
      BY <2>1, <3>2 DEF Next, Begin, Main, Stop, NextBatch, Exhausted, CheckPending, CheckOk,
         CheckFailed, Checked, Submit, Wait, Return, vars, main
    <3>q. QED BY <3>1, <3>2
  <2>3. outcome' # "ok"
    BY <2>1, <2>2, NextHolds DEF IInv, Doomed
  <2>4. Len(tasks') = Len(tasks)
    <3>1. ~Submit
      BY <2>1 DEF IInv, Doomed, Submit
    <3>2. CASE \E t \in Ids : Worker(t)
      <4>1. PICK t \in Ids : Worker(t)
        BY <3>2
      <4>2. Progress(t)
        BY <2>1, <4>1, WorkerProgress DEF IInv
      <4>3. tasks \in Seq(Tasks) /\ tasks' \in Seq(Tasks) /\ DOMAIN tasks' = DOMAIN tasks
        BY <2>1, <4>2 DEF Progress, Ids, IInv, TypeOK
      <4>q. QED BY <4>3
    <3>3. CASE ~ \E t \in Ids : Worker(t)
      <4>1. tasks' = tasks
        BY <2>1, <3>1, <3>3 DEF Next, Begin, Main, Stop, NextBatch, Exhausted, CheckPending,
           CheckOk, CheckFailed, Checked, Wait, Return, vars, main
      <4>q. QED BY <4>1
    <3>q. QED BY <3>2, <3>3
  <2>q. QED BY <2>3, <2>4
<1>q. QED BY <1>1, <1>2, Invariance, PTL DEF Spec, PoisonIsPermanent
=============================================================================
