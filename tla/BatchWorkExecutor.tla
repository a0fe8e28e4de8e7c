-------------------------- MODULE BatchWorkExecutor --------------------------
(***************************************************************************)
(* The executor a job hands its work to: the main thread cuts the items    *)
(* into batches of an adaptive size and submits them to a bounded thread   *)
(* pool, the workers run the job's handler on a batch and fall back to one *)
(* item at a time, and the main thread collects the futures.  One executor *)
(* lives as long as its job: it executes once per attempt of a round.      *)
(*                                                                         *)
(* Items are numbered, a task is a batch that was submitted.  A handler    *)
(* that raises a retry exception does so from its RPC call, before it      *)
(* collects anything; any other error may leave part of a batch collected. *)
(***************************************************************************)
EXTENDS Integers, FiniteSets, SequencesExt

CONSTANTS
  NumItems,           \* items of one execution
  StartingBatchSize,  \* batch size the executor starts with, and its maximum
  MaxWorkers,         \* threads of the pool
  MaxRetries,         \* max_retries of execute_with_retries
  MaxExecutions,      \* bound: calls of execute, each followed by wait
  MaxFaults           \* bound: errors raised by handlers

Items == 1 .. NumItems

ASSUME ExecutorAssumption ==
  /\ NumItems \in Nat /\ StartingBatchSize \in Nat \ {0}
  /\ MaxWorkers \in Nat \ {0} /\ MaxRetries \in Nat \ {0}
  /\ MaxExecutions \in Nat /\ MaxFaults \in Nat

VARIABLES
  pc,          \* what the main thread is about to do; "idle" outside execute and wait
  outcome,     \* how the last execution ended: "none", "ok" or "error"
  raised,      \* history: some execution has ended in an error
  executions,  \* calls of execute so far
  custom,      \* the execution has a split_method of its own
  pos,         \* items taken from the iterable
  batch,       \* the batch about to be submitted
  scan,        \* the futures _check_completed_futures has still to look at
  futures,     \* self._futures
  tasks,       \* the submitted tasks, in the order of submission
  holding,     \* tasks that hold a permit of the bounded executor
  batchSize,   \* self.batch_size
  changed,     \* latest_batch_size_change_time is not None
  count,       \* history: how often an item is collected in this execution
  lateBatches, \* history: batches submitted after a future had failed
  faults

main == <<pc, outcome, raised, executions, custom, pos, batch, scan, futures, lateBatches>>
vars == <<main, tasks, holding, batchSize, changed, count, faults>>

(* A task: the items of its batch, whether it was cut by a split_method,   *)
(* what its worker is doing, the items left to retry and the attempt.      *)
Running == {"first", "grow", "shrink", "retry"}
Ended   == {"ok", "failed"}
Task(B) == [items |-> B, custom |-> custom, status |-> "queued", left |-> {}, attempt |-> 1]
(* Of a task that ended, only how it ended matters.                        *)
Over(s) == [items |-> {}, custom |-> FALSE, status |-> s, left |-> {}, attempt |-> 1]

Tasks == [items : SUBSET Items, custom : BOOLEAN, left : SUBSET Items,
          status : {"queued"} \cup Running \cup Ended, attempt : 1 .. MaxRetries]

Ids   == DOMAIN tasks
Failed(t) == tasks[t].status = "failed"

Init ==
  /\ pc = "idle" /\ outcome = "none" /\ raised = FALSE /\ executions = 0
  /\ custom = FALSE /\ pos = 0 /\ batch = {} /\ scan = <<>> /\ futures = <<>>
  /\ tasks = <<>> /\ holding = {}
  /\ batchSize = StartingBatchSize /\ changed = FALSE
  /\ count = [i \in Items |-> 0] /\ lateBatches = 0 /\ faults = 0
-----------------------------------------------------------------------------
(* The main thread: execute, then wait.                                    *)

(* The data buffer is empty when a job starts: collections count anew.     *)
Begin ==
  /\ pc = "idle" /\ executions < MaxExecutions
  /\ executions' = executions + 1
  /\ custom' \in BOOLEAN
  /\ pos' = 0 /\ count' = [i \in Items |-> 0] /\ lateBatches' = 0
  /\ outcome' = "none" /\ pc' = "next"
  /\ UNCHANGED <<raised, batch, scan, futures, tasks, holding, batchSize, changed, faults>>

(* Mutant of NextBatch: futures are checked in wait only.                  *)
NextBatchUnchecked ==
  /\ pc = "next" /\ pos < NumItems
  /\ \E n \in Items :
       /\ ~custom => n = batchSize \/ (n < batchSize /\ pos + n = NumItems)
       /\ pos + n <= NumItems
       /\ pos' = pos + n
       /\ batch' = pos + 1 .. pos + n
  /\ scan' = <<>>
  /\ pc' = "check"
  /\ UNCHANGED <<outcome, raised, executions, custom, futures, lateBatches,
                 tasks, holding, batchSize, changed, count, faults>>

(* The iterator asks for the batch size when it starts a batch; a split    *)
(* method cuts as it likes.                                                *)
NextBatch ==
  /\ pc = "next" /\ pos < NumItems
  /\ \E n \in Items :
       /\ ~custom => n = batchSize \/ (n < batchSize /\ pos + n = NumItems)
       /\ pos + n <= NumItems
       /\ pos' = pos + n
       /\ batch' = pos + 1 .. pos + n
  /\ scan' = futures
  /\ pc' = "check"
  /\ UNCHANGED <<outcome, raised, executions, custom, futures, lateBatches,
                 tasks, holding, batchSize, changed, count, faults>>

Exhausted ==
  /\ pc = "next" /\ pos = NumItems
  /\ pc' = "wait"
  /\ UNCHANGED <<outcome, raised, executions, custom, pos, batch, scan, futures, lateBatches,
                 tasks, holding, batchSize, changed, count, faults>>

(* _check_completed_futures looks at one future after another, while the   *)
(* workers go on.                                                          *)
CheckPending ==
  /\ pc \in {"check", "final"} /\ scan # <<>>
  /\ tasks[Head(scan)].status \notin Ended
  /\ scan' = Tail(scan)
  /\ UNCHANGED <<pc, outcome, raised, executions, custom, pos, batch, futures, lateBatches,
                 tasks, holding, batchSize, changed, count, faults>>

CheckOk ==
  /\ pc \in {"check", "final"} /\ scan # <<>>
  /\ tasks[Head(scan)].status = "ok"
  /\ scan' = Tail(scan)
  /\ futures' = RemoveFirst(futures, Head(scan))
  /\ UNCHANGED <<pc, outcome, raised, executions, custom, pos, batch, lateBatches,
                 tasks, holding, batchSize, changed, count, faults>>

(* Mutant of CheckFailed: the future is removed before result() raises.    *)
CheckFailedForgets ==
  /\ pc \in {"check", "final"} /\ scan # <<>>
  /\ Failed(Head(scan))
  /\ pc' = "idle" /\ outcome' = "error" /\ raised' = TRUE
  /\ scan' = <<>> /\ batch' = {}
  /\ futures' = RemoveFirst(futures, Head(scan))
  /\ UNCHANGED <<executions, custom, pos, lateBatches,
                 tasks, holding, batchSize, changed, count, faults>>

(* result() raises before the future is removed.                           *)
CheckFailed ==
  /\ pc \in {"check", "final"} /\ scan # <<>>
  /\ Failed(Head(scan))
  /\ pc' = "idle" /\ outcome' = "error" /\ raised' = TRUE
  /\ scan' = <<>> /\ batch' = {}
  /\ UNCHANGED <<executions, custom, pos, futures, lateBatches,
                 tasks, holding, batchSize, changed, count, faults>>

Checked ==
  /\ pc = "check" /\ scan = <<>>
  /\ pc' = "submit"
  /\ UNCHANGED <<outcome, raised, executions, custom, pos, batch, scan, futures, lateBatches,
                 tasks, holding, batchSize, changed, count, faults>>

(* The bounded executor blocks until a permit is free.                     *)
Submit ==
  /\ pc = "submit" /\ Cardinality(holding) < MaxWorkers + 1
  /\ tasks' = Append(tasks, Task(batch))
  /\ holding' = holding \cup {Len(tasks) + 1}
  /\ futures' = Append(futures, Len(tasks) + 1)
  /\ lateBatches' = IF \E t \in Ids : Failed(t) THEN lateBatches + 1 ELSE lateBatches
  /\ batch' = {}
  /\ pc' = "next"
  /\ UNCHANGED <<outcome, raised, executions, custom, pos, scan,
                 batchSize, changed, count, faults>>

(* Mutant of Wait: it does not wait.                                       *)
WaitNot ==
  /\ pc = "wait"
  /\ scan' = futures
  /\ pc' = "final"
  /\ UNCHANGED <<outcome, raised, executions, custom, pos, batch, futures, lateBatches,
                 tasks, holding, batchSize, changed, count, faults>>

Wait ==
  /\ pc = "wait" /\ \A k \in DOMAIN futures : tasks[futures[k]].status \in Ended
  /\ scan' = futures
  /\ pc' = "final"
  /\ UNCHANGED <<outcome, raised, executions, custom, pos, batch, futures, lateBatches,
                 tasks, holding, batchSize, changed, count, faults>>

(* The assertion in wait is a property below, not a guard.                 *)
Return ==
  /\ pc = "final" /\ scan = <<>>
  /\ pc' = "idle" /\ outcome' = "ok"
  /\ UNCHANGED <<raised, executions, custom, pos, batch, scan, futures, lateBatches,
                 tasks, holding, batchSize, changed, count, faults>>

Main ==
  \/ NextBatch \/ Exhausted \/ CheckPending \/ CheckOk \/ CheckFailed
  \/ Checked \/ Submit \/ Wait \/ Return
-----------------------------------------------------------------------------
(* The workers: _fail_safe_execute.                                        *)

Busy == {t \in Ids : tasks[t].status \in Running \/ (tasks[t].status \in Ended /\ t \in holding)}
Queued == {t \in Ids : tasks[t].status = "queued"}

Start(t) ==
  /\ t \in Queued /\ t = Min(Queued)
  /\ Cardinality(Busy) < MaxWorkers
  /\ tasks' = [tasks EXCEPT ![t].status = "first"]
  /\ UNCHANGED <<main, holding, batchSize, changed, count, faults>>

Collected(S) == count' = [i \in Items |-> IF i \in S THEN count[i] + 1 ELSE count[i]]

Fault == faults < MaxFaults /\ faults' = faults + 1

(* The size of a batch, and whether the cooldown is over, which only the   *)
(* clock knows.                                                            *)
Size(t) == Cardinality(tasks[t].items)

(* Mutant of MayGrow: no maximum.                                          *)
MayGrowOn(t) == ~tasks[t].custom /\ changed

MayGrow(t) == ~tasks[t].custom /\ Size(t) * 2 <= StartingBatchSize /\ changed

FirstOk(t) ==
  /\ t \in Ids /\ tasks[t].status = "first"
  /\ Collected(tasks[t].items)
  /\ \/ tasks' = [tasks EXCEPT ![t] = Over("ok")]
     \/ MayGrow(t) /\ tasks' = [tasks EXCEPT ![t].status = "grow"]
  /\ UNCHANGED <<main, holding, batchSize, changed, faults>>

(* _try_increase_batch_size assigns what it computed, whatever other       *)
(* workers have assigned in between.                                       *)
Grow(t) ==
  /\ t \in Ids /\ tasks[t].status = "grow"
  /\ batchSize' = Size(t) * 2
  /\ tasks' = [tasks EXCEPT ![t] = Over("ok")]
  /\ UNCHANGED <<main, holding, changed, count, faults>>

(* A retry exception: the size is halved if it is still the batch's own.   *)
FirstRetriable(t) ==
  /\ t \in Ids /\ tasks[t].status = "first"
  /\ Fault
  /\ LET shrinks == ~tasks[t].custom /\ batchSize = Size(t) /\ batchSize > 1
     IN  tasks' = [tasks EXCEPT ![t].status = IF shrinks THEN "shrink" ELSE "retry",
                                ![t].left = tasks[t].items]
  /\ UNCHANGED <<main, holding, batchSize, changed, count>>

Shrink(t) ==
  /\ t \in Ids /\ tasks[t].status = "shrink"
  /\ batchSize' = Size(t) \div 2
  /\ changed' = TRUE
  /\ tasks' = [tasks EXCEPT ![t].status = "retry"]
  /\ UNCHANGED <<main, holding, count, faults>>

(* One item at a time, in order; a batch of a split method as a whole.     *)
Unit(t) == IF tasks[t].custom THEN tasks[t].left ELSE {Min(tasks[t].left)}

(* Mutant of RetryOk: the handler is called with the batch, not the item.  *)
RetryOkWhole(t) ==
  /\ t \in Ids /\ tasks[t].status = "retry"
  /\ Collected(tasks[t].items)
  /\ tasks' = IF tasks[t].left = Unit(t)
              THEN [tasks EXCEPT ![t] = Over("ok")]
              ELSE [tasks EXCEPT ![t].left = @ \ Unit(t), ![t].attempt = 1]
  /\ UNCHANGED <<main, holding, batchSize, changed, faults>>

RetryOk(t) ==
  /\ t \in Ids /\ tasks[t].status = "retry"
  /\ Collected(Unit(t))
  /\ tasks' = IF tasks[t].left = Unit(t)
              THEN [tasks EXCEPT ![t] = Over("ok")]
              ELSE [tasks EXCEPT ![t].left = @ \ Unit(t), ![t].attempt = 1]
  /\ UNCHANGED <<main, holding, batchSize, changed, faults>>

RetryFails(t) ==
  /\ t \in Ids /\ tasks[t].status = "retry"
  /\ Fault
  /\ tasks' = IF tasks[t].attempt < MaxRetries
              THEN [tasks EXCEPT ![t].attempt = @ + 1]
              ELSE [tasks EXCEPT ![t] = Over("failed")]
  /\ UNCHANGED <<main, holding, batchSize, changed, count>>

(* Any other exception fails the future at once.                           *)
Fatal(t) ==
  /\ t \in Ids /\ tasks[t].status \in {"first", "retry"}
  /\ Fault
  /\ \E S \in SUBSET (IF tasks[t].status = "first" THEN tasks[t].items ELSE Unit(t)) :
       Collected(S)
  /\ tasks' = [tasks EXCEPT ![t] = Over("failed")]
  /\ UNCHANGED <<main, holding, batchSize, changed>>

(* Mutant of Release: the permit of a failed batch is lost.                *)
ReleaseOnSuccess(t) ==
  /\ t \in holding /\ tasks[t].status = "ok"
  /\ holding' = holding \ {t}
  /\ UNCHANGED <<main, tasks, batchSize, changed, count, faults>>

(* The done-callback runs in the worker, after the future is done.         *)
Release(t) ==
  /\ t \in holding /\ tasks[t].status \in Ended
  /\ holding' = holding \ {t}
  /\ UNCHANGED <<main, tasks, batchSize, changed, count, faults>>

Worker(t) ==
  \/ Start(t) \/ FirstOk(t) \/ Grow(t) \/ FirstRetriable(t) \/ Shrink(t)
  \/ RetryOk(t) \/ RetryFails(t) \/ Fatal(t) \/ Release(t)

Stop == pc = "idle" /\ UNCHANGED vars

Next == Begin \/ Main \/ (\E t \in Ids : Worker(t)) \/ Stop

Spec == Init /\ [][Next]_vars

(* The main thread and each worker go on, the operating system willing.    *)
(* Nothing makes a job execute again.                                      *)
FairSpec ==
  /\ Spec
  /\ WF_vars(Main)
  /\ WF_vars(\E t \in Ids : Worker(t))
-----------------------------------------------------------------------------
(* Properties.                                                             *)

(* Type correctness.  The adaptive size stays between 1 and the size the   *)
(* executor was configured with, whatever the workers' races do to it.     *)
TypeOK ==
  /\ pc \in {"idle", "next", "check", "submit", "wait", "final"}
  /\ outcome \in {"none", "ok", "error"} /\ raised \in BOOLEAN
  /\ executions \in 0 .. MaxExecutions /\ custom \in BOOLEAN
  /\ pos \in 0 .. NumItems /\ batch \in SUBSET Items
  /\ scan \in Seq(Ids) /\ futures \in Seq(Ids)
  /\ tasks \in Seq(Tasks)
  /\ holding \in SUBSET Ids
  /\ batchSize \in 1 .. StartingBatchSize /\ changed \in BOOLEAN
  /\ count \in [Items -> Nat] /\ lateBatches \in Nat
  /\ faults \in 0 .. MaxFaults

Returned == pc = "idle" /\ outcome = "ok"

(* When wait returns, every item was collected once, however its batch was *)
(* cut, failed and was retried; an executor that never raised never        *)
(* collects an item twice.                                                 *)
ExactlyOnce ==
  /\ ~raised => \A i \in Items : count[i] <= 1
  /\ Returned => \A i \in Items : count[i] = 1

(* When wait returns no worker is still at it: nobody appends to the data  *)
(* buffer behind the job's back, and the assertion in wait holds.          *)
QuietAfterReturn ==
  Returned => futures = <<>> /\ \A t \in Ids : tasks[t].status = "ok"

(* Fail fast: at most one batch is submitted after a future has failed.    *)
FailFast == lateBatches <= 1

(* An executor that raised once never returns, and never submits, again:   *)
(* the failed future stays in the list that every execution looks through  *)
(* first.                                                                  *)
PoisonIsPermanent == [][raised => outcome' # "ok" /\ Len(tasks') = Len(tasks)]_vars

(* execute and wait end, with a result or an error: a submission that      *)
(* blocks on a permit gets one.  All permits return to the semaphore, those*)
(* of failed batches too, and those of executions that were given up.      *)
Returns == (pc # "idle" ~> pc = "idle") /\ <>[](holding = {})
-----------------------------------------------------------------------------
(* The inductive invariant behind the safety properties.                   *)

(* The items task t has still to collect, and those nobody has collected.  *)
Todo(t) ==
  CASE tasks[t].status \in {"queued", "first"} -> tasks[t].items
    [] tasks[t].status \in {"shrink", "retry"} -> tasks[t].left
    [] OTHER -> {}
Pending == batch \cup UNION {Todo(t) : t \in Ids}

(* What is known of a task in each of its states.                          *)
Shapes ==
  \A t \in Ids :
    /\ tasks[t].status \in {"queued", "first", "grow"} => tasks[t].items # {}
    /\ tasks[t].status \in {"shrink", "retry"} => tasks[t].left # {}
    /\ tasks[t].status = "grow" => Size(t) * 2 <= StartingBatchSize
    /\ tasks[t].status = "shrink" => Size(t) \in 2 .. StartingBatchSize

Phases ==
  /\ pc \in {"check", "submit"} <=> batch # {}
  /\ pc \in {"wait", "final"} => pos = NumItems
  /\ pc \notin {"check", "final"} => scan = <<>>
  /\ pc = "final" => scan = futures /\ \A k \in DOMAIN futures : tasks[futures[k]].status \in Ended

(* A future is in the list, once, until it is seen to have succeeded.      *)
Tracked ==
  /\ IsInjective(futures)
  /\ \A t \in Ids : t \in Range(futures) \/ tasks[t].status = "ok"
  /\ pc = "idle" /\ ~raised => futures = <<>>

(* A failed future found once, or met by a submission, bars the way to the *)
(* next one.                                                               *)
Doomed ==
  /\ lateBatches <= 1
  /\ raised => outcome # "ok"
  /\ raised \/ lateBatches = 1 =>
       /\ \E t \in Ids : Failed(t)
       /\ pc = "check" => \E k \in DOMAIN scan : Failed(scan[k])
       /\ pc # "submit"

(* What is pending has one owner and is not collected; the rest of what    *)
(* was taken is collected once, unless something failed.                   *)
Counted ==
  ~raised =>
    /\ \A t \in Ids : Todo(t) \cap batch = {}
    /\ \A t, u \in Ids : t # u => Todo(t) \cap Todo(u) = {}
    /\ \A i \in Pending : i <= pos
    /\ \A i \in Items : i \in Pending \/ i > pos => count[i] = 0
    /\ (\A t \in Ids : ~Failed(t)) => \A i \in Items \ Pending : i <= pos => count[i] = 1

IInv ==
  /\ TypeOK /\ Shapes /\ Phases /\ Tracked /\ Doomed /\ Counted /\ ExactlyOnce
=============================================================================
