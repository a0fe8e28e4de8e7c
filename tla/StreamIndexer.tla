---------------------------- MODULE StreamIndexer ----------------------------
(***************************************************************************)
(* One mission of the stream indexer: the loop of StreamController, the    *)
(* dispatcher and the job scheduler it drives, the jobs of a round with    *)
(* the data buffer and the executors they share, the item exporters, the   *)
(* sync recorder, and the crash and restart of the whole process.          *)
(*                                                                         *)
(* A job is the position it has in the complete job list: 0 is the         *)
(* ExportBlocksJob that instantiate_jobs inserts in front, 1 .. LastJob    *)
(* are the other resolved jobs in the order resolve_dependencies gives     *)
(* them.  The data a job derives from one block is one item, named by the  *)
(* block.                                                                  *)
(***************************************************************************)
EXTENDS Integers, FiniteSets

CONSTANTS
  LastJob,        \* number of resolved jobs other than ExportBlocksJob
  Deps,           \* Deps[j]: the jobs whose items job j reads from the buffer
  Exported,       \* the jobs with an output type the mission requires
  LastExporter,   \* number of item exporters
  Steps,          \* block_batch_size
  StartBlock,     \* --start-block, or None
  EndBlock,       \* --end-block, or None
  MaxRetries,     \* max_retries of the controller
  RetryErrors,    \* retry_errors of the controller
  RecorderKind,   \* "pg" or "file"
  None,
  MaxBlock,       \* bound: the chain stops growing at this block
  MaxLag,         \* bound: how far behind the head a node may answer
  MaxFaults,      \* bound: number of errors met over the whole behaviour
  MaxCrashes      \* bound: number of crashes of the process

Jobs      == 0 .. LastJob
Exporters == 1 .. LastExporter
Blocks    == 0 .. MaxBlock

(* How the controller tells errors apart: the three kinds of HemeraBase-   *)
(* Exception (crashable, retriable, neither) and every other exception.    *)
Kinds == {"crashable", "retriable", "final", "other"}

(* Deps points backwards: that is what resolve_dependencies establishes.   *)
ASSUME StreamAssumption ==
  /\ LastJob \in Nat /\ LastExporter \in Nat
  /\ Deps \in [Jobs -> SUBSET Jobs]
  /\ \A j \in Jobs : \A d \in Deps[j] : d < j
  /\ Exported \subseteq Jobs
  /\ Steps \in Nat \ {0} /\ MaxRetries \in Nat \ {0}
  /\ None \notin Int /\ None \notin Kinds
  /\ StartBlock \in Nat \cup {None} /\ EndBlock \in Nat \cup {None}
  /\ RetryErrors \in BOOLEAN
  /\ RecorderKind \in {"pg", "file"}
  /\ MaxBlock \in Nat /\ MaxLag \in Nat /\ MaxFaults \in Nat /\ MaxCrashes \in Nat

VARIABLES
  head,       \* highest block of the chain
  pc,         \* what the main thread is about to do; "down" between processes
  last,       \* last_synced_block
  target,     \* target_block of the round
  tries,      \* failed rounds in a row
  jobs,       \* the jobs in JobScheduler.jobs
  at,         \* the job of the round that is running
  out,        \* the exporter it exports to
  poison,     \* poison[j]: the error a failed future left in job j's executor
  buff,       \* buff[j]: items of job j in the data buffer, of this attempt
  stale,      \* stale[j]: items in the data buffer that a worker of an earlier,
              \* failed attempt appended after the buffer was cleared
  late,       \* late[j]: items workers of a failed attempt still hold
  sink,       \* sink[e]: the <<job, block>> items exporter e has written
  rec,        \* the number the sync recorder was last given
  torn,       \* the recorder's file is truncated: it holds no number at all
  partial,    \* history: a round has run with an incomplete list of jobs
  faults, crashes

memory == <<last, target, tries, jobs, at, out, poison, buff, stale, late>>
vars == <<head, pc, memory, sink, rec, torn, partial, faults, crashes>>

NoItems  == [j \in Jobs |-> {}]
NoPoison == [j \in Jobs |-> None]
(* The memory of a process that is not running, and of a fresh one.        *)
Fresh(l) ==
  /\ last' = l /\ target' = 0 /\ tries' = 0
  /\ jobs' = {} /\ at' = 0 /\ out' = 1 /\ poison' = NoPoison
  /\ buff' = NoItems /\ stale' = NoItems /\ late' = NoItems

Min2(a, b) == IF a <= b THEN a ELSE b

Init ==
  /\ head \in Blocks
  /\ pc = "down"
  /\ last = 0 /\ target = 0 /\ tries = 0
  /\ jobs = {} /\ at = 0 /\ out = 1 /\ poison = NoPoison
  /\ buff = NoItems /\ stale = NoItems /\ late = NoItems
  /\ sink = [e \in Exporters |-> {}]
  /\ rec = 0 /\ torn = FALSE
  /\ partial = FALSE
  /\ faults = 0 /\ crashes = 0
-----------------------------------------------------------------------------
(* The environment.                                                        *)

GrowChain ==
  /\ head < MaxBlock
  /\ head' = head + 1
  /\ UNCHANGED <<pc, memory, sink, rec, torn, partial, faults, crashes>>

(* The process is killed, or the machine goes down.                        *)
Crash ==
  /\ pc \notin {"down", "done"}
  /\ crashes < MaxCrashes
  /\ crashes' = crashes + 1
  /\ pc' = "down" /\ Fresh(0)
  /\ UNCHANGED <<head, sink, rec, torn, partial, faults>>

(* Mutant of Boot: the recorder is not read.                               *)
BootFromZero ==
  /\ pc = "down" /\ ~torn
  /\ pc' = "poll"
  /\ Fresh(IF StartBlock # None THEN StartBlock - 1 ELSE 0)
  /\ UNCHANGED <<head, sink, rec, torn, partial, faults, crashes>>

(* docker-compose restarts the container with the same settings.  A torn   *)
(* recorder file does not parse: the process ends before its loop, again   *)
(* and again.                                                              *)
Boot ==
  /\ pc = "down" /\ ~torn
  /\ pc' = "poll"
  /\ Fresh(IF StartBlock # None THEN StartBlock - 1 ELSE rec)
  /\ UNCHANGED <<head, sink, rec, torn, partial, faults, crashes>>

BootLoop ==
  /\ pc = "down" /\ torn
  /\ UNCHANGED vars
-----------------------------------------------------------------------------
(* The error paths.                                                        *)

(* Mutant of Exits: one retry too many.                                    *)
ExitsLate(kind) ==
  \/ kind \in {"crashable", "final"}
  \/ kind = "other" /\ ~RetryErrors
  \/ tries + 1 > MaxRetries

(* What the except branches of the loop do with an exception.              *)
Exits(kind) ==
  \/ kind \in {"crashable", "final"}
  \/ kind = "other" /\ ~RetryErrors
  \/ tries + 1 >= MaxRetries

(* Mutant of FailRound: the count of failures starts anew in every round.  *)
FailRoundUncounted(kind, jobs1, poison1, late1) ==
  IF Exits(kind)
  THEN pc' = "down" /\ Fresh(0)
  ELSE /\ pc' = "poll"
       /\ tries' = 0
       /\ jobs' = jobs1 /\ poison' = poison1 /\ late' = late1
       /\ buff' = NoItems /\ stale' = NoItems
       /\ at' = 0 /\ out' = 1
       /\ UNCHANGED <<last, target>>

(* The round ends in an exception.  The dispatcher clears the data buffer  *)
(* on its way out; executors and the job list live as long as the process. *)
FailRound(kind, jobs1, poison1, late1) ==
  IF Exits(kind)
  THEN pc' = "down" /\ Fresh(0)
  ELSE /\ pc' = "poll"
       /\ tries' = tries + 1
       /\ jobs' = jobs1 /\ poison' = poison1 /\ late' = late1
       /\ buff' = NoItems /\ stale' = NoItems
       /\ at' = 0 /\ out' = 1
       /\ UNCHANGED <<last, target>>

(* An error of its own strikes the round, not one kept from another.       *)
Fault == faults < MaxFaults /\ faults' = faults + 1
-----------------------------------------------------------------------------
(* The loop of the controller.                                             *)

AtEnd == EndBlock # None /\ last >= EndBlock

Finish ==
  /\ pc = "poll" /\ AtEnd
  /\ pc' = "done"
  /\ UNCHANGED <<head, memory, sink, rec, torn, partial, faults, crashes>>

Finished == pc = "done" /\ UNCHANGED vars

TargetBlock(current) ==
  LET reach == Min2(current, last + Steps)
  IN  IF EndBlock # None THEN Min2(reach, EndBlock) ELSE reach

(* What a node may answer for the block number.                            *)
Reported == {n \in Blocks : n <= head /\ n + MaxLag >= head}

(* Nothing to sync: the loop sleeps, and forgets the failures before.      *)
PollNothing ==
  /\ pc = "poll" /\ ~AtEnd
  /\ \E current \in Reported : TargetBlock(current) <= last
  /\ tries' = 0
  /\ UNCHANGED <<head, pc, last, target, jobs, at, out, poison, buff, stale, late,
                 sink, rec, torn, partial, faults, crashes>>

(* Mutant of PollRound: the target is recorded before its blocks are       *)
(* exported.                                                               *)
PollRoundRecords ==
  /\ pc = "poll" /\ ~AtEnd
  /\ \E current \in Reported :
       /\ TargetBlock(current) > last
       /\ target' = TargetBlock(current)
  /\ pc' = "start"
  /\ rec' = target'
  /\ UNCHANGED <<head, last, tries, jobs, at, out, poison, buff, stale, late,
                 sink, torn, partial, faults, crashes>>

PollRound ==
  /\ pc = "poll" /\ ~AtEnd
  /\ \E current \in Reported :
       /\ TargetBlock(current) > last
       /\ target' = TargetBlock(current)
  /\ pc' = "start"
  /\ UNCHANGED <<head, last, tries, jobs, at, out, poison, buff, stale, late,
                 sink, rec, torn, partial, faults, crashes>>

PollFails ==
  /\ pc = "poll" /\ ~AtEnd
  /\ Fault
  /\ FailRound("other", jobs, poison, late)
  /\ UNCHANGED <<head, sink, rec, torn, partial, crashes>>
-----------------------------------------------------------------------------
(* JobScheduler.run_jobs.                                                  *)

(* A job list that is not empty is taken for complete.                     *)
StartJobs ==
  /\ pc = "start"
  /\ jobs' = IF jobs = {} THEN Jobs ELSE jobs
  /\ at' = IF 0 \in jobs' THEN 0 ELSE 1
  /\ out' = 1
  /\ partial' = (partial \/ jobs' # Jobs)
  /\ pc' = "collect"
  /\ UNCHANGED <<head, last, target, tries, poison, buff, stale, late,
                 sink, rec, torn, faults, crashes>>

(* The constructor of job n + 1, or of ExportBlocksJob, which comes last,  *)
(* raises: the jobs built so far stay in the list.                         *)
InstantiateFails ==
  /\ pc = "start" /\ jobs = {}
  /\ Fault
  /\ \E n \in Jobs : FailRound("other", 1 .. n, poison, late)
  /\ UNCHANGED <<head, sink, rec, torn, partial, crashes>>
-----------------------------------------------------------------------------
(* One job: BaseJob.run.                                                   *)

(* The items job j derives: from the blocks of the round and the items of  *)
(* the jobs it depends on.  An item left by an earlier attempt is as good  *)
(* to it as a new one.                                                     *)
Derived(j) == {b \in Blocks : last < b /\ b <= target /\ \A d \in Deps[j] : b \in buff[d]}
DerivedStale(j) ==
  {b \in Blocks : /\ \A d \in Deps[j] : b \in buff[d] \cup stale[d]
                  /\ \E d \in Deps[j] : b \in stale[d]}

(* Mutant of Collect: failed batches are logged and skipped.               *)
CollectLossy ==
  /\ pc = "collect" /\ poison[at] = None
  /\ \E got \in SUBSET Derived(at) : buff' = [buff EXCEPT ![at] = got]
  /\ stale' = [stale EXCEPT ![at] = stale[at] \cup DerivedStale(at)]
  /\ out' = 1
  /\ pc' = "export"
  /\ UNCHANGED <<head, last, target, tries, jobs, at, poison, late,
                 sink, rec, torn, partial, faults, crashes>>

Collect ==
  /\ pc = "collect" /\ poison[at] = None
  /\ buff' = [buff EXCEPT ![at] = Derived(at)]
  /\ stale' = [stale EXCEPT ![at] = stale[at] \cup DerivedStale(at)]
  /\ out' = 1
  /\ pc' = "export"
  /\ UNCHANGED <<head, last, target, tries, jobs, at, poison, late,
                 sink, rec, torn, partial, faults, crashes>>

(* Mutant of CollectFails: the failed future is dropped from the executor. *)
CollectFailsForgives ==
  /\ pc = "collect" /\ poison[at] = None
  /\ Fault
  /\ \E kind \in Kinds, held \in SUBSET Derived(at) :
       /\ held # Derived(at)
       /\ FailRound(kind, jobs, poison, [late EXCEPT ![at] = @ \cup held])
  /\ UNCHANGED <<head, sink, rec, torn, partial, crashes>>

(* A work handler fails for good on some item.  The executor fails fast:   *)
(* batches of other items may still be in the hands of its workers.  The   *)
(* failed future stays in the executor.                                    *)
CollectFails ==
  /\ pc = "collect" /\ poison[at] = None
  /\ Fault
  /\ \E kind \in Kinds, held \in SUBSET Derived(at) :
       /\ held # Derived(at)
       /\ FailRound(kind, jobs, [poison EXCEPT ![at] = kind], [late EXCEPT ![at] = @ \cup held])
  /\ UNCHANGED <<head, sink, rec, torn, partial, crashes>>

(* The future of a failed attempt raises its exception a second time.      *)
CollectPoisoned ==
  /\ pc = "collect" /\ poison[at] # None
  /\ FailRound(poison[at], jobs, poison, late)
  /\ UNCHANGED <<head, sink, rec, torn, partial, faults, crashes>>

(* A worker of a failed attempt appends its item to the shared buffer.     *)
LateCollect ==
  /\ pc \notin {"down", "done"}
  /\ \E j \in Jobs : \E b \in late[j] :
       /\ late' = [late EXCEPT ![j] = @ \ {b}]
       /\ stale' = [stale EXCEPT ![j] = @ \cup {b}]
  /\ UNCHANGED <<head, pc, last, target, tries, jobs, at, out, poison, buff,
                 sink, rec, torn, partial, faults, crashes>>

Items(j) == IF j \in Exported THEN {j} \X (buff[j] \cup stale[j]) ELSE {}

(* Mutant of Export: the exporter logs an error and goes on.               *)
ExportSwallows ==
  /\ pc = "export" /\ out \in Exporters
  /\ \E written \in SUBSET Items(at) : sink' = [sink EXCEPT ![out] = @ \cup written]
  /\ out' = out + 1
  /\ UNCHANGED <<head, pc, last, target, tries, jobs, at, poison, buff, stale, late,
                 rec, torn, partial, faults, crashes>>

Export ==
  /\ pc = "export" /\ out \in Exporters
  /\ sink' = [sink EXCEPT ![out] = @ \cup Items(at)]
  /\ out' = out + 1
  /\ UNCHANGED <<head, pc, last, target, tries, jobs, at, poison, buff, stale, late,
                 rec, torn, partial, faults, crashes>>

NextJob ==
  /\ pc = "export" /\ out \notin Exporters
  /\ IF at + 1 \in jobs
     THEN at' = at + 1 /\ pc' = "collect"
     ELSE at' = at /\ pc' = "flush"
  /\ UNCHANGED <<head, last, target, tries, jobs, out, poison, buff, stale, late,
                 sink, rec, torn, partial, faults, crashes>>

(* The _process stage raises, or an exporter does: it commits table by     *)
(* table and batch by batch, and what it committed stays.  (So ends, with  *)
(* nothing written, a _collect that raises outside of the executor.)       *)
ExportFails ==
  /\ pc = "export" /\ out \in Exporters
  /\ Fault
  /\ \E written \in SUBSET Items(at) : sink' = [sink EXCEPT ![out] = @ \cup written]
  /\ FailRound("other", jobs, poison, late)
  /\ UNCHANGED <<head, rec, torn, partial, crashes>>
-----------------------------------------------------------------------------
(* The end of the round: the dispatcher flushes the exception log and      *)
(* clears the buffer, the controller records the block.                    *)

Flush ==
  /\ pc = "flush"
  /\ buff' = NoItems /\ stale' = NoItems
  /\ pc' = "record"
  /\ UNCHANGED <<head, last, target, tries, jobs, at, out, poison, late,
                 sink, rec, torn, partial, faults, crashes>>

FlushFails ==
  /\ pc = "flush"
  /\ Fault
  /\ FailRound("other", jobs, poison, late)
  /\ UNCHANGED <<head, sink, rec, torn, partial, crashes>>

(* Mutant of Recorded: the memory advances by a whole step.                *)
RecordedStep ==
  /\ rec' = target /\ torn' = FALSE
  /\ last' = last + Steps /\ tries' = 0
  /\ pc' = "poll"
  /\ UNCHANGED <<head, target, jobs, at, out, poison, buff, stale, late,
                 sink, partial, faults, crashes>>

(* The recorder holds the target block: so does the controller's memory.   *)
Recorded ==
  /\ rec' = target /\ torn' = FALSE
  /\ last' = target /\ tries' = 0
  /\ pc' = "poll"
  /\ UNCHANGED <<head, target, jobs, at, out, poison, buff, stale, late,
                 sink, partial, faults, crashes>>

RecordPG == pc = "record" /\ RecorderKind = "pg" /\ Recorded

(* open(..., "w") truncates the file; the number reaches it with close().  *)
TruncateFile ==
  /\ pc = "record" /\ RecorderKind = "file"
  /\ torn' = TRUE
  /\ pc' = "write"
  /\ UNCHANGED <<head, memory, sink, rec, partial, faults, crashes>>

WriteFile == pc = "write" /\ Recorded

(* A commit that raises may have reached the database all the same.        *)
RecordFails ==
  /\ pc \in {"record", "write"}
  /\ Fault
  /\ FailRound("other", jobs, poison, late)
  /\ rec' \in {rec} \cup (IF RecorderKind = "pg" THEN {target} ELSE {})
  /\ UNCHANGED <<head, sink, torn, partial, crashes>>
-----------------------------------------------------------------------------
(* The steps of the main thread that meet no error of their own.           *)
Main ==
  \/ Finish \/ PollNothing \/ PollRound \/ StartJobs
  \/ Collect \/ CollectPoisoned \/ Export \/ NextJob
  \/ Flush \/ RecordPG \/ TruncateFile \/ WriteFile

Errors ==
  \/ PollFails \/ InstantiateFails \/ CollectFails
  \/ ExportFails \/ FlushFails \/ RecordFails

Next ==
  \/ GrowChain \/ Crash \/ Boot \/ BootLoop
  \/ Main \/ Errors \/ LateCollect \/ Finished

Spec == Init /\ [][Next]_vars

(* The main thread does not stop between two statements, and docker brings *)
(* a dead container back.  Nothing is assumed of errors, crashes, late     *)
(* workers, or of how fresh a node's answer is.                            *)
FairSpec ==
  /\ Spec
  /\ WF_vars(GrowChain) /\ WF_vars(Main) /\ WF_vars(Boot)
-----------------------------------------------------------------------------
(* Properties.                                                             *)

(* Empty, complete, or what was built before a constructor raised.         *)
JobLists == {Jobs} \cup {1 .. n : n \in Jobs}

(* Type correctness.  A retry count at the limit ends the process, and the *)
(* job list is empty, complete, or cut short by a constructor that raised. *)
TypeOK ==
  /\ head \in Blocks
  /\ pc \in {"down", "poll", "start", "collect", "export", "flush", "record", "write", "done"}
  /\ last \in Nat \cup {-1} /\ target \in Blocks
  /\ tries \in Nat /\ tries < MaxRetries
  /\ jobs \in JobLists
  /\ at \in Nat /\ out \in 1 .. LastExporter + 1
  /\ poison \in [Jobs -> Kinds \cup {None}]
  /\ buff \in [Jobs -> SUBSET Blocks]
  /\ stale \in [Jobs -> SUBSET Blocks]
  /\ late \in [Jobs -> SUBSET Blocks]
  /\ sink \in [Exporters -> SUBSET (Jobs \X Blocks)]
  /\ rec \in Blocks /\ torn \in BOOLEAN /\ partial \in BOOLEAN
  /\ faults \in 0 .. MaxFaults /\ crashes \in 0 .. MaxCrashes

(* The first block a mission must export: --start-block, or the one after  *)
(* the 0 that a recorder answers before its first record.                  *)
FirstBlock == IF StartBlock # None THEN StartBlock ELSE 1

(* Blocks all of whose required items every exporter has written.          *)
Covered == {b \in Blocks : \A e \in Exporters, j \in Exported : <<j, b>> \in sink[e]}

BS == INSTANCE BlockSync WITH covered <- Covered, recorded <- rec, intact <- ~partial

(* No silent gap: whatever fails, crashes or is retried, every block from  *)
(* the first to the recorded one has all its required items in all the     *)
(* exporters' sinks, unless a round ran with an incomplete list of jobs.   *)
NoSilentGap == ~partial => BS!Promise(rec) \subseteq Covered

(* The claim without its exception, as the documentation makes it: the     *)
(* block the recorder tells is one the mission can resume after.           *)
ResumeIsSafe == BS!Promise(rec) \subseteq Covered

(* A row never precedes the rows it was derived from: when the sink of an  *)
(* exporter has an item of a job, it has that block's items of the jobs it *)
(* depends on, also after a round that failed half way.                    *)
DerivedFromStored ==
  \A e \in Exporters : \A x \in sink[e] :
    \A d \in Deps[x[1]] \cap Exported : <<d, x[2]>> \in sink[e]

(* A job exports only what its own attempt collected: what late workers of *)
(* a failed attempt leave in the shared buffer never reaches an exporter   *)
(* (the rows would be written twice, which one INSERT cannot do).          *)
NoLeftovers == pc = "export" => stale[at] = {}

(* The number in memory is never ahead of the recorder's while a mission   *)
(* without --start-block runs, whatever rounds failed before; behind it is *)
(* only after a commit whose outcome was not known.                        *)
MemoryMatchesRecord ==
  StartBlock = None /\ pc # "down" =>
    last <= rec /\ (RecorderKind = "file" => last = rec)

(* Without --start-block the number in a recorder's file never goes back,  *)
(* crashes included.  (The one in a database may: after a commit whose     *)
(* outcome was not known, if a node behind the others answers next.)       *)
RecordNeverRegresses == [][StartBlock = None /\ RecorderKind = "file" => rec' >= rec]_rec

(* Every change of sinks and recorder is one the abstract promise allows.  *)
ImplementsBlockSync == BS!Spec

(* A round fails only if something fails in it: retrying is of use.  The   *)
(* failures of an earlier round are not the failures of this one.          *)
FailureHasCause == [][tries' > tries \/ (pc # "down" /\ pc' = "down") => faults' > faults \/ crashes' > crashes]_vars

(* Block b is one the mission must record, and no node can hide it.        *)
Due(b) == /\ head >= b + MaxLag
          /\ EndBlock # None => b <= EndBlock

(* With a recorder that is not torn by a crash, every block that is far    *)
(* enough below the head is recorded in the end: finitely many errors and  *)
(* crashes, poisoned executors included, do not stop the mission.          *)
CatchesUp == \A b \in Blocks : Due(b) ~> (rec >= b)
-----------------------------------------------------------------------------
(* The inductive invariant behind these properties.                        *)

(* Job j has collected in this round.                                      *)
Ran(j) ==
  /\ j \in jobs
  /\ \/ pc = "flush"
     \/ pc \in {"collect", "export"} /\ j < at
     \/ pc = "export" /\ j = at

Position ==
  /\ pc \in {"collect", "export"} => at \in jobs
  /\ pc \in {"start", "collect", "export", "flush", "record", "write"} => last < target
  /\ pc \in {"collect", "export", "flush"} /\ ~partial => jobs = Jobs

(* What a failed attempt leaves behind is behind a poisoned executor, and  *)
(* a round cannot get past one.                                            *)
Quarantine ==
  \A j \in Jobs :
    /\ stale[j] # {} \/ late[j] # {} => poison[j] # None
    /\ poison[j] # None => j \in jobs
    /\ Ran(j) => poison[j] = None

(* The buffer holds what the jobs of this attempt derived, from each other *)
(* and, if the job list is complete, from every block of the round.        *)
Buffered ==
  \A j \in Jobs :
    /\ buff[j] # {} => Ran(j)
    /\ Ran(j) => \A d \in Deps[j] : buff[j] \subseteq buff[d]
    /\ Ran(j) /\ ~partial => \A b \in Blocks : last < b /\ b <= target => b \in buff[j]

(* The jobs behind the running one have exported to every exporter, the    *)
(* running one to the exporters before out.                                *)
Stored ==
  \A j \in Exported, e \in Exporters :
    Ran(j) /\ (j < at \/ pc = "flush" \/ e < out) => \A b \in buff[j] : <<j, b>> \in sink[e]

(* What the controller remembers, and what it is about to record, is       *)
(* exported.                                                               *)
Accounted ==
  ~partial =>
    /\ pc # "down" => BS!Promise(last) \subseteq Covered
    /\ pc \in {"record", "write"} => BS!Promise(target) \subseteq Covered
    /\ BS!Promise(rec) \subseteq Covered

IInv ==
  /\ TypeOK /\ Position /\ Quarantine /\ Buffered /\ Stored /\ Accounted
  /\ DerivedFromStored /\ MemoryMatchesRecord
=============================================================================
