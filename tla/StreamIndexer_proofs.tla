------------------------- MODULE StreamIndexer_proofs -------------------------
(* Machine-checked proofs about StreamIndexer, for every chain length,     *)
(* number of jobs, dependency relation, exporter count and retry limit.    *)
EXTENDS StreamIndexer, TLAPS

(* The empty maps are what the variables they are assigned to should be.   *)
LEMMA EmptyMaps ==
  /\ NoItems \in [Jobs -> SUBSET Blocks]
  /\ NoPoison \in [Jobs -> Kinds \cup {None}]
  /\ \A j \in Jobs : NoItems[j] = {} /\ NoPoison[j] = None
BY DEF NoItems, NoPoison

(* The round's target is a block, beyond the last one synced.              *)
LEMMA TargetType ==
  ASSUME StreamAssumption, TypeOK, NEW current \in Reported, TargetBlock(current) > last
  PROVE  TargetBlock(current) \in Blocks
<1>1. current \in Blocks /\ current \in Int /\ last \in Int /\ last >= -1
  BY DEF Reported, TypeOK, Blocks
<1>2. TargetBlock(current) <= current /\ TargetBlock(current) \in Int
  <2>1. CASE EndBlock = None
    BY <1>1, <2>1 DEF TargetBlock, Min2, StreamAssumption
  <2>2. CASE EndBlock # None
    BY <1>1, <2>2 DEF TargetBlock, Min2, StreamAssumption
  <2>q. QED BY <2>1, <2>2
<1>q. QED BY <1>1, <1>2 DEF Blocks, StreamAssumption

(* A job list is an initial segment of the jobs behind ExportBlocksJob, or *)
(* complete.                                                               *)
LEMMA JobListFacts ==
  ASSUME StreamAssumption
  PROVE  /\ {} \in JobLists /\ Jobs \in JobLists
         /\ \A n \in Jobs : 1 .. n \in JobLists
         /\ \A J \in JobLists :
              /\ J \subseteq Jobs
              /\ J # {} => 0 \in J \/ 1 \in J
              /\ \A i, k \in J, h \in Int : i <= h /\ h <= k => h \in J
<1>1. 0 \in Jobs /\ 1 .. 0 = {}
  BY DEF Jobs, StreamAssumption
<1>2. {} \in JobLists /\ Jobs \in JobLists /\ \A n \in Jobs : 1 .. n \in JobLists
  BY <1>1 DEF JobLists
<1>3. ASSUME NEW J \in JobLists
      PROVE  /\ J \subseteq Jobs
             /\ J # {} => 0 \in J \/ 1 \in J
             /\ \A i, k \in J, h \in Int : i <= h /\ h <= k => h \in J
  <2>1. CASE J = Jobs
    BY <1>1, <2>1 DEF Jobs, StreamAssumption
  <2>2. CASE \E n \in Jobs : J = 1 .. n
    BY <2>2 DEF Jobs, StreamAssumption
  <2>q. QED BY <2>1, <2>2 DEF JobLists
<1>q. QED BY <1>2, <1>3

(* The bounds among the assumptions, as the type proofs need them.         *)
LEMMA Bounds ==
  ASSUME StreamAssumption
  PROVE  /\ 0 \in Blocks /\ 1 \in 1 .. LastExporter + 1
         /\ 0 \in Nat /\ 0 < MaxRetries /\ MaxRetries \in Nat
         /\ 0 \in 0 .. MaxFaults /\ 0 \in 0 .. MaxCrashes
BY DEF StreamAssumption, Blocks

LEMMA TypeInit == StreamAssumption /\ Init => TypeOK
<1>1. SUFFICES ASSUME StreamAssumption, Init PROVE TypeOK
  OBVIOUS
<1>2. sink \in [Exporters -> SUBSET (Jobs \X Blocks)]
  BY <1>1 DEF Init
<1>3. /\ poison \in [Jobs -> Kinds \cup {None}] /\ jobs \in JobLists
      /\ buff \in [Jobs -> SUBSET Blocks]
      /\ stale \in [Jobs -> SUBSET Blocks]
      /\ late \in [Jobs -> SUBSET Blocks]
  BY <1>1, EmptyMaps, JobListFacts DEF Init
<1>q. QED BY <1>1, <1>2, <1>3, Bounds DEF Init, TypeOK

(* Both ways a failed round can end keep the types of what it touches.     *)
LEMMA FailRoundType ==
  ASSUME StreamAssumption, TypeOK, NEW kind \in Kinds,
         NEW jobs1 \in JobLists,
         NEW poison1 \in [Jobs -> Kinds \cup {None}],
         NEW late1 \in [Jobs -> SUBSET Blocks],
         FailRound(kind, jobs1, poison1, late1)
  PROVE  /\ pc' \in {"down", "poll"}
         /\ last' \in Nat \cup {-1} /\ target' \in Blocks
         /\ tries' \in Nat /\ tries' < MaxRetries
         /\ jobs' \in JobLists
         /\ at' \in Nat /\ out' \in 1 .. LastExporter + 1
         /\ poison' \in [Jobs -> Kinds \cup {None}]
         /\ buff' \in [Jobs -> SUBSET Blocks]
         /\ stale' \in [Jobs -> SUBSET Blocks]
         /\ late' \in [Jobs -> SUBSET Blocks]
<1>1. CASE Exits(kind)
  BY <1>1, JobListFacts, EmptyMaps, Bounds DEF FailRound, Fresh
<1>2. CASE ~Exits(kind)
  <2>1. tries + 1 < MaxRetries /\ tries + 1 \in Nat
    BY <1>2, Bounds DEF Exits, TypeOK
  <2>q. QED BY <1>2, <2>1, EmptyMaps, Bounds DEF FailRound, TypeOK
<1>q. QED BY <1>1, <1>2

LEMMA TypeStep ==
  ASSUME StreamAssumption, TypeOK, Position, [Next]_vars
  PROVE  TypeOK'
<1> USE DEF TypeOK
<1>0. pc \in {"collect", "export"} => at \in Jobs
  BY JobListFacts DEF Position
<1>1. CASE UNCHANGED vars
  BY <1>1 DEF vars, memory
<1>2. CASE GrowChain
  BY <1>2, Bounds DEF GrowChain, memory, Blocks, StreamAssumption
<1>3. CASE Crash
  BY <1>3, EmptyMaps, JobListFacts, Bounds DEF Crash, Fresh, StreamAssumption
<1>4. CASE Boot
  <2>1. (IF StartBlock # None THEN StartBlock - 1 ELSE rec) \in Nat \cup {-1}
    BY DEF StreamAssumption, Blocks
  <2>q. QED BY <1>4, <2>1, EmptyMaps, JobListFacts, Bounds DEF Boot, Fresh
<1>5. CASE BootLoop \/ Finished
  BY <1>5 DEF BootLoop, Finished, vars, memory
<1>6. CASE Finish
  BY <1>6 DEF Finish, memory
<1>7. CASE PollNothing
  BY <1>7, Bounds DEF PollNothing
<1>8. CASE PollRound
  BY <1>8, TargetType DEF PollRound
<1>9. CASE StartJobs
  <2>1. jobs' \in JobLists /\ at' \in Nat /\ partial' \in BOOLEAN /\ out' \in 1 .. LastExporter + 1
    BY <1>9, JobListFacts, Bounds DEF StartJobs
  <2>q. QED BY <1>9, <2>1 DEF StartJobs
<1>10. CASE Collect
  <2>1. Derived(at) \subseteq Blocks /\ DerivedStale(at) \subseteq Blocks
    BY DEF Derived, DerivedStale
  <2>2. buff' \in [Jobs -> SUBSET Blocks]
    BY <1>10, <2>1 DEF Collect
  <2>3. stale' \in [Jobs -> SUBSET Blocks]
    BY <1>10, <2>1 DEF Collect
  <2>q. QED BY <1>10, <2>2, <2>3, Bounds DEF Collect
<1>11. CASE CollectPoisoned
  <2>1. poison[at] \in Kinds
    BY <1>0, <1>11 DEF CollectPoisoned
  <2>2. FailRound(poison[at], jobs, poison, late)
    BY <1>11 DEF CollectPoisoned
  <2>q. QED BY <1>11, <2>1, <2>2, FailRoundType DEF CollectPoisoned
<1>12. CASE LateCollect
  <2>1. late' \in [Jobs -> SUBSET Blocks] /\ stale' \in [Jobs -> SUBSET Blocks]
    BY <1>12 DEF LateCollect
  <2>q. QED BY <1>12, <2>1 DEF LateCollect
<1>13. CASE Export
  <2>1. Items(at) \in SUBSET (Jobs \X Blocks)
    BY <1>0, <1>13 DEF Export, Items
  <2>2. sink' \in [Exporters -> SUBSET (Jobs \X Blocks)]
    BY <1>13, <2>1 DEF Export
  <2>3. out' \in 1 .. LastExporter + 1
    BY <1>13 DEF Export, Exporters, StreamAssumption
  <2>q. QED BY <1>13, <2>2, <2>3 DEF Export
<1>14. CASE NextJob
  BY <1>14 DEF NextJob
<1>15. CASE Flush
  BY <1>15, EmptyMaps DEF Flush
<1>16. CASE RecordPG \/ WriteFile
  <2>1. Recorded
    BY <1>16 DEF RecordPG, WriteFile
  <2>2. target \in Nat
    BY DEF Blocks, StreamAssumption
  <2>q. QED BY <2>1, <2>2, Bounds DEF Recorded
<1>17. CASE TruncateFile
  BY <1>17 DEF TruncateFile, memory
<1>18. CASE Errors
  <2>0. Fault => faults' \in 0 .. MaxFaults
    BY DEF Fault, StreamAssumption
  <2>1. CASE PollFails \/ FlushFails \/ RecordFails
    <3>1. FailRound("other", jobs, poison, late) /\ Fault
      BY <2>1 DEF PollFails, FlushFails, RecordFails
    <3>2. UNCHANGED <<head, sink, torn, partial, crashes>> /\ rec' \in Blocks
      BY <2>1 DEF PollFails, FlushFails, RecordFails
    <3>q. QED BY <2>0, <3>1, <3>2, FailRoundType DEF Kinds
  <2>2. CASE InstantiateFails
    <3>1. PICK n \in Jobs : FailRound("other", 1 .. n, poison, late)
      BY <2>2 DEF InstantiateFails
    <3>2. 1 .. n \in JobLists
      BY JobListFacts
    <3>q. QED BY <2>0, <2>2, <3>1, <3>2, FailRoundType DEF InstantiateFails, Kinds
  <2>3. CASE CollectFails
    <3>1. PICK kind \in Kinds, held \in SUBSET Derived(at) :
            FailRound(kind, jobs, [poison EXCEPT ![at] = kind], [late EXCEPT ![at] = @ \cup held])
      BY <2>3 DEF CollectFails
    <3>2. [poison EXCEPT ![at] = kind] \in [Jobs -> Kinds \cup {None}]
      OBVIOUS
    <3>3. held \subseteq Blocks
      BY DEF Derived
    <3>4. [late EXCEPT ![at] = @ \cup held] \in [Jobs -> SUBSET Blocks]
      BY <3>3
    <3>q. QED BY <2>0, <2>3, <3>1, <3>2, <3>4, FailRoundType DEF CollectFails
  <2>4. CASE ExportFails
    <3>1. FailRound("other", jobs, poison, late)
      BY <2>4 DEF ExportFails
    <3>2. Items(at) \in SUBSET (Jobs \X Blocks)
      BY <1>0, <2>4 DEF ExportFails, Items
    <3>3. sink' \in [Exporters -> SUBSET (Jobs \X Blocks)]
      BY <2>4, <3>2 DEF ExportFails
    <3>q. QED BY <2>0, <2>4, <3>1, <3>3, FailRoundType DEF ExportFails, Kinds
  <2>q. QED BY <1>18, <2>1, <2>2, <2>3, <2>4 DEF Errors
<1>q. QED BY <1>1, <1>2, <1>3, <1>4, <1>5, <1>6, <1>7, <1>8, <1>9, <1>10, <1>11, <1>12,
             <1>13, <1>14, <1>15, <1>16, <1>17, <1>18 DEF Next, Main
-----------------------------------------------------------------------------
(* The steps that end a round without recording it, and those that start a *)
(* process: no job is running after them and the buffer is empty.          *)
RoundOver == pc' \in {"down", "poll"} /\ buff' = NoItems /\ stale' = NoItems

LEMMA FailedRounds ==
  ASSUME CollectPoisoned \/ Errors
  PROVE  /\ RoundOver /\ partial' = partial
         /\ \/ rec' = rec
            \/ RecordFails /\ RecorderKind = "pg" /\ rec' = target /\ pc \in {"record", "write"}
         /\ pc' = "poll" => last' = last /\ pc # "down"
<1>1. ASSUME NEW k, NEW J, NEW p, NEW l, FailRound(k, J, p, l)
      PROVE  RoundOver /\ (pc' = "poll" => last' = last)
  BY <1>1 DEF FailRound, Fresh, RoundOver
<1>2. CASE CollectPoisoned
  BY <1>1, <1>2 DEF CollectPoisoned
<1>3. CASE PollFails \/ FlushFails \/ RecordFails
  BY <1>1, <1>3 DEF PollFails, FlushFails, RecordFails
<1>4. CASE InstantiateFails
  BY <1>1, <1>4 DEF InstantiateFails
<1>5. CASE CollectFails
  BY <1>1, <1>5 DEF CollectFails
<1>6. CASE ExportFails
  BY <1>1, <1>6 DEF ExportFails
<1>q. QED BY <1>2, <1>3, <1>4, <1>5, <1>6 DEF Errors

LEMMA NoJobRuns == RoundOver => \A j \in Jobs : ~Ran(j)' /\ buff'[j] = {} /\ stale'[j] = {}
BY EmptyMaps DEF RoundOver, Ran

LEMMA PositionStep ==
  ASSUME StreamAssumption, TypeOK, Position, [Next]_vars
  PROVE  Position'
<1> USE DEF Position
<1>1. CASE UNCHANGED vars
  BY <1>1 DEF vars, memory
<1>2. CASE GrowChain \/ Finish \/ TruncateFile
  BY <1>2 DEF GrowChain, Finish, TruncateFile, memory
<1>3. CASE Crash \/ Boot
  BY <1>3 DEF Crash, Boot
<1>4. CASE CollectPoisoned \/ Errors
  BY <1>4, FailedRounds DEF RoundOver
<1>5. CASE PollNothing \/ PollRound \/ RecordPG \/ WriteFile
  BY <1>5 DEF PollNothing, PollRound, RecordPG, WriteFile, Recorded
<1>6. CASE StartJobs
  <2>1. jobs' \in JobLists /\ jobs' # {}
    <3>1. Jobs # {}
      BY DEF Jobs, StreamAssumption
    <3>q. QED BY <1>6, <3>1, JobListFacts DEF StartJobs, TypeOK
  <2>2. at' \in jobs'
    BY <1>6, <2>1, JobListFacts DEF StartJobs
  <2>q. QED BY <1>6, <2>2 DEF StartJobs
<1>7. CASE Collect \/ Export \/ LateCollect \/ NextJob \/ Flush
  BY <1>7 DEF Collect, Export, LateCollect, NextJob, Flush
<1>8. CASE BootLoop \/ Finished
  BY <1>8 DEF BootLoop, Finished, vars, memory
<1>q. QED BY <1>1, <1>2, <1>3, <1>4, <1>5, <1>6, <1>7, <1>8 DEF Next, Main

(* Going on to the next job, or to the flush behind the last one, changes  *)
(* nothing about who has run.                                              *)
LEMMA NextJobRan ==
  ASSUME StreamAssumption, TypeOK, Position, NextJob, NEW j \in Jobs
  PROVE  Ran(j)' <=> Ran(j)
<1>1. /\ j \in Int /\ at \in Int /\ at \in jobs /\ jobs' = jobs
      /\ Ran(j) <=> j \in jobs /\ j <= at
  BY DEF NextJob, Ran, Position, Jobs, TypeOK
<1>2. CASE at + 1 \in jobs
  BY <1>1, <1>2 DEF NextJob, Ran
<1>3. CASE at + 1 \notin jobs
  <2>1. j \in jobs => ~(at < j)
    <3>1. at < j => at + 1 <= j /\ at <= at + 1 /\ at + 1 \in Int
      BY <1>1
    <3>q. QED BY <1>1, <1>3, <3>1, JobListFacts DEF TypeOK
  <2>q. QED BY <1>1, <1>3, <2>1 DEF NextJob, Ran
<1>q. QED BY <1>2, <1>3

(* A fresh process has no executor yet; a failed one is a failure of the   *)
(* running job, or was there before.                                       *)
LEMMA QuarantineStep ==
  ASSUME StreamAssumption, TypeOK, Position, Quarantine, [Next]_vars
  PROVE  Quarantine'
<1> USE DEF Quarantine
<1>0. ASSUME NEW k, NEW J, NEW p, NEW l, FailRound(k, J, p, l),
             \A j \in Jobs : (l[j] # {} => p[j] # None) /\ (p[j] # None => j \in J)
      PROVE  Quarantine'
  <2>1. RoundOver
    BY <1>0 DEF FailRound, Fresh, RoundOver
  <2>2. CASE Exits(k)
    BY <1>0, <2>1, <2>2, NoJobRuns, EmptyMaps DEF FailRound, Fresh
  <2>3. CASE ~Exits(k)
    BY <1>0, <2>1, <2>3, NoJobRuns DEF FailRound
  <2>q. QED BY <2>2, <2>3
<1>1. CASE UNCHANGED vars \/ BootLoop \/ Finished
  BY <1>1 DEF vars, memory, Ran, BootLoop, Finished
<1>2. CASE GrowChain \/ Finish \/ TruncateFile
  BY <1>2 DEF GrowChain, Finish, TruncateFile, memory, Ran
<1>3. CASE Crash \/ Boot
  BY <1>3, EmptyMaps DEF Crash, Boot, Fresh, Ran
<1>4. CASE PollNothing \/ PollRound \/ RecordPG \/ WriteFile
  BY <1>4 DEF PollNothing, PollRound, RecordPG, WriteFile, Recorded, Ran
<1>5. CASE StartJobs
  <2>1. \A j \in Jobs : ~Ran(j)'
    <3>1. \A j \in jobs' : ~(j < at')
      <4>1. jobs' \in JobLists /\ \A j \in jobs' : j \in Int /\ j >= 0
        BY <1>5, JobListFacts DEF StartJobs, TypeOK, Jobs
      <4>q. QED BY <1>5, <4>1 DEF StartJobs
    <3>q. QED BY <1>5, <3>1 DEF StartJobs, Ran
  <2>2. \A j \in jobs : j \in jobs'
    BY <1>5 DEF StartJobs
  <2>q. QED BY <1>5, <2>1, <2>2 DEF StartJobs
<1>6. CASE Collect
  <2>1. at \in jobs /\ at \in Jobs /\ jobs \subseteq Jobs
    BY <1>6, JobListFacts DEF Collect, Position, TypeOK
  <2>2. DerivedStale(at) = {}
    <3>1. \A d \in Deps[at] : d \in Jobs /\ d < at
      BY <2>1 DEF StreamAssumption
    <3>2. \A d \in Deps[at] : d \in jobs => stale[d] = {}
      BY <1>6, <3>1 DEF Collect, Ran
    <3>q. QED BY <3>1, <3>2 DEF DerivedStale
  <2>3. stale' = stale /\ late' = late /\ poison' = poison /\ jobs' = jobs
    BY <1>6, <2>1, <2>2 DEF Collect, TypeOK
  <2>4. \A j \in Jobs : Ran(j)' => Ran(j) \/ j = at
    BY <1>6 DEF Collect, Ran
  <2>q. QED BY <1>6, <2>3, <2>4 DEF Collect
<1>7. CASE CollectPoisoned
  BY <1>0, <1>7 DEF CollectPoisoned
<1>8. CASE LateCollect
  <2>1. PICK j \in Jobs, b \in Blocks :
          /\ b \in late[j]
          /\ late' = [late EXCEPT ![j] = @ \ {b}]
          /\ stale' = [stale EXCEPT ![j] = @ \cup {b}]
    BY <1>8 DEF LateCollect, TypeOK
  <2>2. poison[j] # None
    BY <2>1
  <2>3. \A i \in Jobs : Ran(i)' <=> Ran(i)
    BY <1>8 DEF LateCollect, Ran
  <2>4. \A i \in Jobs : i # j => late'[i] = late[i] /\ stale'[i] = stale[i]
    BY <2>1 DEF TypeOK
  <2>q. QED BY <1>8, <2>2, <2>3, <2>4 DEF LateCollect
<1>9. CASE Export
  BY <1>9 DEF Export, Ran
<1>10. CASE NextJob
  <2>1. \A j \in Jobs : Ran(j)' <=> Ran(j)
    BY <1>10, NextJobRan
  <2>q. QED BY <1>10, <2>1 DEF NextJob
<1>11. CASE Flush
  BY <1>11, EmptyMaps DEF Flush, Ran
<1>12. CASE PollFails \/ FlushFails \/ RecordFails \/ ExportFails
  BY <1>0, <1>12 DEF PollFails, FlushFails, RecordFails, ExportFails
<1>13. CASE InstantiateFails
  <2>1. \A j \in Jobs : poison[j] = None
    BY <1>13 DEF InstantiateFails
  <2>q. QED BY <1>0, <1>13, <2>1 DEF InstantiateFails
<1>14. CASE CollectFails
  <2>1. PICK kind \in Kinds, held \in SUBSET Derived(at) :
          FailRound(kind, jobs, [poison EXCEPT ![at] = kind], [late EXCEPT ![at] = @ \cup held])
    BY <1>14 DEF CollectFails
  <2>2. at \in jobs /\ kind # None
    BY <1>14 DEF CollectFails, Position, StreamAssumption
  <2>3. \A j \in Jobs :
          /\ [late EXCEPT ![at] = @ \cup held][j] # {} => [poison EXCEPT ![at] = kind][j] # None
          /\ [poison EXCEPT ![at] = kind][j] # None => j \in jobs
    BY <2>2 DEF TypeOK
  <2>q. QED BY <1>0, <2>1, <2>3
<1>q. QED BY <1>1, <1>2, <1>3, <1>4, <1>5, <1>6, <1>7, <1>8, <1>9, <1>10, <1>11, <1>12,
             <1>13, <1>14 DEF Next, Main, Errors

(* What the buffer promises of a job holds from its collect stage to the   *)
(* end of the round.                                                       *)
LEMMA BufferedStep ==
  ASSUME StreamAssumption, TypeOK, Position, Buffered, [Next]_vars
  PROVE  Buffered'
<1> USE DEF Buffered
<1>0. ASSUME RoundOver PROVE Buffered'
  BY <1>0, NoJobRuns
<1>1. CASE UNCHANGED vars \/ BootLoop \/ Finished
  BY <1>1 DEF vars, memory, Ran, BootLoop, Finished
<1>2. CASE GrowChain \/ Finish \/ TruncateFile
  BY <1>2 DEF GrowChain, Finish, TruncateFile, memory, Ran
<1>3. CASE Crash \/ Boot
  BY <1>0, <1>3 DEF Crash, Boot, Fresh, RoundOver
<1>4. CASE PollNothing \/ PollRound \/ RecordPG \/ WriteFile
  BY <1>4 DEF PollNothing, PollRound, RecordPG, WriteFile, Recorded, Ran
<1>5. CASE StartJobs
  <2>1. \A j \in Jobs : buff[j] = {}
    BY <1>5 DEF StartJobs, Ran
  <2>2. \A j \in Jobs : ~Ran(j)'
    <3>1. jobs' \in JobLists /\ \A j \in jobs' : j \in Int /\ j >= 0
      BY <1>5, JobListFacts DEF StartJobs, TypeOK, Jobs
    <3>q. QED BY <1>5, <3>1 DEF StartJobs, Ran
  <2>q. QED BY <1>5, <2>1, <2>2 DEF StartJobs
<1>6. CASE Collect
  <2>1. at \in jobs /\ at \in Jobs /\ at \in Int /\ Jobs \subseteq Int
    BY <1>6, JobListFacts DEF Collect, Position, TypeOK, Jobs
  <2>2. /\ buff'[at] = Derived(at)
        /\ \A j \in Jobs : j # at => buff'[j] = buff[j]
    BY <1>6, <2>1 DEF Collect, TypeOK
  <2>3. \A j \in Jobs : /\ Ran(j) => j < at
                       /\ Ran(j)' <=> Ran(j) \/ j = at
    BY <1>6, <2>1 DEF Collect, Ran
  <2>4. ASSUME NEW j \in Jobs, NEW d \in Deps[j]
        PROVE  d \in Jobs /\ d < j
    BY <2>4 DEF StreamAssumption
  <2>5. \A j \in Jobs : Ran(j)' => \A d \in Deps[j] : buff'[j] \subseteq buff'[d]
    <3>1. ASSUME NEW j \in Jobs, Ran(j)', NEW d \in Deps[j]
          PROVE  buff'[j] \subseteq buff'[d]
      <4>1. CASE j = at
        BY <2>1, <2>2, <2>4, <3>1, <4>1 DEF Derived
      <4>2. CASE j # at
        <5>1. d # at /\ Ran(j) /\ d \in Jobs
          BY <2>1, <2>3, <2>4, <3>1, <4>2
        <5>q. QED BY <2>2, <3>1, <4>2, <5>1
      <4>q. QED BY <4>1, <4>2
    <3>q. QED BY <3>1
  <2>6. ASSUME ~partial, NEW b \in Blocks, last < b, b <= target
        PROVE  b \in Derived(at)
    <3>1. \A d \in Deps[at] : Ran(d)
      BY <1>6, <2>1, <2>4, <2>6 DEF Collect, Position, Ran
    <3>q. QED BY <2>1, <2>4, <2>6, <3>1 DEF Derived
  <2>q. QED BY <1>6, <2>1, <2>2, <2>3, <2>5, <2>6 DEF Collect
<1>7. CASE LateCollect
  BY <1>7 DEF LateCollect, Ran
<1>8. CASE Export
  BY <1>8 DEF Export, Ran
<1>9. CASE NextJob
  BY <1>9, NextJobRan DEF NextJob
<1>10. CASE Flush
  BY <1>10, EmptyMaps DEF Flush, Ran
<1>11. CASE CollectPoisoned \/ Errors
  BY <1>0, <1>11, FailedRounds
<1>q. QED BY <1>1, <1>2, <1>3, <1>4, <1>5, <1>6, <1>7, <1>8, <1>9, <1>10, <1>11 DEF Next, Main

(* Sinks only grow, and nothing else than an export touches them.          *)
LEMMA SinksGrow ==
  ASSUME StreamAssumption, TypeOK, [Next]_vars
  PROVE  /\ \A e \in Exporters : sink[e] \subseteq sink'[e]
         /\ Export \/ ExportFails \/ sink' = sink
<1>1. CASE Export
  BY <1>1 DEF Export, TypeOK
<1>2. CASE ExportFails
  BY <1>2 DEF ExportFails, TypeOK
<1>3. CASE ~Export /\ ~ExportFails
  BY <1>3 DEF Next, Main, Errors, GrowChain, Crash, Boot, BootLoop, LateCollect, Finished,
       Finish, PollNothing, PollRound, StartJobs, Collect, CollectPoisoned, NextJob, Flush,
       RecordPG, TruncateFile, WriteFile, Recorded, PollFails, InstantiateFails, CollectFails,
       FlushFails, RecordFails, vars
<1>q. QED BY <1>1, <1>2, <1>3

LEMMA StoredStep ==
  ASSUME StreamAssumption, TypeOK, Position, Stored, [Next]_vars
  PROVE  Stored'
<1> USE DEF Stored
<1>a. Exported \subseteq Jobs /\ Jobs \subseteq Int /\ Exporters \subseteq Int
  BY DEF StreamAssumption, Jobs, Exporters
<1>0. ASSUME RoundOver PROVE Stored'
  BY <1>0, <1>a, NoJobRuns
<1>1. CASE UNCHANGED vars \/ BootLoop \/ Finished
  BY <1>1 DEF vars, memory, Ran, BootLoop, Finished
<1>2. CASE GrowChain \/ Finish \/ TruncateFile
  BY <1>2 DEF GrowChain, Finish, TruncateFile, memory, Ran
<1>3. CASE Crash \/ Boot
  BY <1>0, <1>3 DEF Crash, Boot, Fresh, RoundOver
<1>4. CASE PollNothing \/ PollRound \/ RecordPG \/ WriteFile
  BY <1>4 DEF PollNothing, PollRound, RecordPG, WriteFile, Recorded, Ran
<1>5. CASE StartJobs
  <2>1. \A j \in Jobs : ~Ran(j)'
    <3>1. jobs' \in JobLists /\ \A j \in jobs' : j \in Int /\ j >= 0
      BY <1>5, JobListFacts DEF StartJobs, TypeOK, Jobs
    <3>q. QED BY <1>5, <3>1 DEF StartJobs, Ran
  <2>q. QED BY <1>a, <2>1
<1>6. CASE Collect
  <2>1. at \in Jobs /\ out' = 1 /\ sink' = sink /\ at' = at /\ pc' = "export"
    BY <1>6, JobListFacts DEF Collect, Position, TypeOK
  <2>2. \A j \in Jobs : j # at => buff'[j] = buff[j]
    BY <1>6, <2>1 DEF Collect, TypeOK
  <2>3. \A j \in Jobs : Ran(j)' /\ j # at => Ran(j) /\ j < at
    BY <1>6, <1>a, <2>1 DEF Collect, Ran
  <2>4. \A e \in Exporters : ~(e < out')
    BY <2>1 DEF Exporters
  <2>5. \A j \in Jobs : j < at => j # at
    BY <1>a, <2>1
  <2>q. QED BY <1>a, <2>1, <2>2, <2>3, <2>4, <2>5
<1>7. CASE LateCollect
  BY <1>7 DEF LateCollect, Ran
<1>8. CASE Export
  <2>1. ASSUME NEW j \in Exported, NEW e \in Exporters, Ran(j)', j < at \/ e < out + 1,
               NEW b \in buff[j]
        PROVE  <<j, b>> \in sink'[e]
    <3>1. Ran(j) /\ at \in Int /\ out \in Int /\ j \in Int /\ e \in Int
      BY <1>8, <1>a, <2>1 DEF Export, Ran, TypeOK
    <3>2. CASE j < at \/ e < out
      BY <1>8, <2>1, <3>1, <3>2, SinksGrow
    <3>3. CASE j = at /\ e = out
      BY <1>8, <2>1, <3>3 DEF Export, Items, TypeOK
    <3>q. QED BY <1>8, <2>1, <3>1, <3>2, <3>3 DEF Export, Ran
  <2>q. QED BY <1>8, <2>1 DEF Export
<1>9. CASE NextJob
  <2>1. \A e \in Exporters : e < out
    BY <1>9 DEF NextJob, TypeOK, Exporters, StreamAssumption
  <2>2. \A j \in Exported : Ran(j)' => Ran(j)
    BY <1>9, <1>a, NextJobRan
  <2>q. QED BY <1>9, <2>1, <2>2 DEF NextJob
<1>10. CASE Flush
  BY <1>10 DEF Flush, Ran
<1>11. CASE CollectPoisoned \/ Errors
  BY <1>0, <1>11, FailedRounds
<1>q. QED BY <1>1, <1>2, <1>3, <1>4, <1>5, <1>6, <1>7, <1>8, <1>9, <1>10, <1>11 DEF Next, Main

(* An item a job is about to export was derived from items the buffer      *)
(* holds, and those are exported already.                                  *)
LEMMA DerivedStep ==
  ASSUME StreamAssumption, IInv, [Next]_vars
  PROVE  DerivedFromStored'
<1> USE DEF IInv
<1>1. ASSUME NEW e \in Exporters, NEW x \in Items(at), NEW d \in Deps[x[1]] \cap Exported,
             pc = "export", e = out
      PROVE  <<d, x[2]>> \in sink[e]
  <2>1. at \in jobs /\ at \in Jobs /\ jobs \subseteq Jobs
    BY <1>1, JobListFacts DEF Position, TypeOK
  <2>2. Ran(at) /\ stale[at] = {}
    BY <1>1, <2>1 DEF Ran, Quarantine
  <2>3. x[1] = at /\ x[2] \in buff[at]
    BY <2>2 DEF Items
  <2>4. d \in Jobs /\ d < at /\ x[2] \in buff[d]
    BY <2>1, <2>2, <2>3 DEF StreamAssumption, Buffered
  <2>5. Ran(d)
    BY <2>4 DEF Buffered
  <2>q. QED BY <2>4, <2>5 DEF Stored
<1>2. CASE sink' = sink
  BY <1>2 DEF DerivedFromStored
<1>3. CASE Export \/ ExportFails
  <2>1. PICK W \in SUBSET Items(at) : sink' = [sink EXCEPT ![out] = @ \cup W]
    BY <1>3 DEF Export, ExportFails
  <2>2. ASSUME NEW e \in Exporters, NEW x \in sink'[e], NEW d \in Deps[x[1]] \cap Exported
        PROVE  <<d, x[2]>> \in sink'[e]
    <3>1. CASE x \in sink[e]
      BY <3>1, SinksGrow DEF DerivedFromStored
    <3>2. CASE x \notin sink[e]
      <4>1. x \in Items(at) /\ e = out
        BY <2>1, <3>2 DEF TypeOK
      <4>2. <<d, x[2]>> \in sink[e]
        BY <1>1, <1>3, <4>1 DEF Export, ExportFails
      <4>q. QED BY <4>2, SinksGrow
    <3>q. QED BY <3>1, <3>2
  <2>q. QED BY <2>2 DEF DerivedFromStored
<1>q. QED BY <1>2, <1>3, SinksGrow

(* The number in memory and the one in the recorder change together.       *)
LEMMA MemoryStep ==
  ASSUME StreamAssumption, IInv, [Next]_vars
  PROVE  MemoryMatchesRecord'
<1> USE DEF IInv, MemoryMatchesRecord
<1>1. CASE UNCHANGED vars \/ BootLoop \/ Finished
  BY <1>1 DEF vars, memory, BootLoop, Finished
<1>2. CASE GrowChain \/ Finish \/ TruncateFile
  BY <1>2 DEF GrowChain, Finish, TruncateFile, memory
<1>3. CASE Crash
  BY <1>3 DEF Crash
<1>4. CASE Boot
  BY <1>4 DEF Boot, Fresh
<1>5. CASE CollectPoisoned \/ Errors
  <2>1. pc \in {"record", "write"} => last <= target
    BY DEF Position, TypeOK, Blocks
  <2>2. RecorderKind = "pg" => RecorderKind # "file"
    OBVIOUS
  <2>q. QED BY <1>5, <2>1, <2>2, FailedRounds DEF RoundOver
<1>6. CASE RecordPG \/ WriteFile
  BY <1>6 DEF RecordPG, WriteFile, Recorded, TypeOK, Blocks
<1>7. CASE PollNothing \/ PollRound \/ StartJobs \/ Collect \/ Export \/ LateCollect \/ NextJob \/ Flush
  BY <1>7 DEF PollNothing, PollRound, StartJobs, Collect, Export, LateCollect, NextJob, Flush
<1>q. QED BY <1>1, <1>2, <1>3, <1>4, <1>5, <1>6, <1>7 DEF Next, Main

(* Blocks once covered stay covered.                                       *)
LEMMA CoveredGrows ==
  ASSUME StreamAssumption, TypeOK, [Next]_vars
  PROVE  Covered \subseteq Covered'
BY SinksGrow DEF Covered

(* A round that comes to its flush with the complete job list has exported *)
(* every block up to its target.                                           *)
LEMMA RoundCovers ==
  ASSUME StreamAssumption, IInv, pc = "flush", ~partial
  PROVE  BS!Promise(target) \subseteq Covered
<1> USE DEF IInv
<1>1. ASSUME NEW b \in BS!Promise(target)
      PROVE  b \in Covered
  <2>1. b \in Blocks /\ b \in Int /\ last \in Int /\ b <= target
    BY <1>1 DEF BS!Promise, TypeOK, Blocks
  <2>2. CASE b <= last
    BY <1>1, <2>1, <2>2 DEF BS!Promise, Accounted
  <2>3. CASE last < b
    <3>1. ASSUME NEW e \in Exporters, NEW j \in Exported
          PROVE  <<j, b>> \in sink[e]
      <4>1. j \in Jobs /\ Ran(j)
        BY DEF Position, Ran, StreamAssumption
      <4>2. b \in buff[j]
        BY <2>1, <2>3, <4>1 DEF Buffered
      <4>q. QED BY <4>1, <4>2 DEF Stored
    <3>q. QED BY <2>1, <3>1 DEF Covered
  <2>q. QED BY <2>1, <2>2, <2>3
<1>q. QED BY <1>1

LEMMA AccountedStep ==
  ASSUME StreamAssumption, IInv, [Next]_vars
  PROVE  Accounted'
<1> USE DEF IInv
<1>a. Covered \subseteq Covered'
  BY CoveredGrows
<1>b. ASSUME rec' = rec, partial' \/ partial' = partial, pc' \notin {"record", "write"},
             pc' # "down" => last' = last /\ pc # "down"
      PROVE  Accounted'
  BY <1>a, <1>b DEF Accounted
<1>1. CASE UNCHANGED vars \/ BootLoop \/ Finished
  BY <1>a, <1>1 DEF vars, memory, BootLoop, Finished, Accounted
<1>2. CASE GrowChain
  BY <1>a, <1>2 DEF GrowChain, memory, Accounted
<1>3. CASE Crash
  BY <1>b, <1>3 DEF Crash
<1>4. CASE Boot
  <2>1. CASE StartBlock = None
    BY <1>a, <1>4, <2>1 DEF Boot, Fresh, Accounted
  <2>2. CASE StartBlock # None
    <3>1. last' = StartBlock - 1 /\ StartBlock \in Nat
      BY <1>4, <2>2 DEF Boot, Fresh, StreamAssumption
    <3>2. BS!Promise(last') = {}
      BY <2>2, <3>1 DEF BS!Promise, FirstBlock, Blocks
    <3>q. QED BY <1>a, <1>4, <3>2 DEF Boot, Accounted
  <2>q. QED BY <2>1, <2>2
<1>5. CASE CollectPoisoned \/ Errors
  <2>1. CASE rec' = rec
    BY <1>b, <1>5, <2>1, FailedRounds DEF RoundOver
  <2>2. CASE rec' = target /\ pc \in {"record", "write"}
    BY <1>a, <1>5, <2>2, FailedRounds DEF RoundOver, Accounted
  <2>q. QED BY <1>5, <2>1, <2>2, FailedRounds
<1>6. CASE RecordPG \/ WriteFile
  BY <1>a, <1>6 DEF RecordPG, WriteFile, Recorded, Accounted
<1>7. CASE Flush
  <2>1. ~partial => BS!Promise(target) \subseteq Covered
    BY <1>7, RoundCovers DEF Flush
  <2>q. QED BY <1>a, <1>7, <2>1 DEF Flush, Accounted
<1>8. CASE TruncateFile
  BY <1>a, <1>8 DEF TruncateFile, memory, Accounted
<1>9. CASE Finish
  BY <1>b, <1>9 DEF Finish, memory
<1>10. CASE PollNothing \/ PollRound \/ Collect \/ Export \/ NextJob
  BY <1>b, <1>10 DEF PollNothing, PollRound, Collect, Export, NextJob
<1>11. CASE LateCollect
  BY <1>a, <1>11 DEF LateCollect, Accounted
<1>12. CASE StartJobs
  BY <1>b, <1>12 DEF StartJobs, TypeOK
<1>q. QED BY <1>1, <1>2, <1>3, <1>4, <1>5, <1>6, <1>7, <1>8, <1>9, <1>10, <1>11, <1>12
          DEF Next, Main
-----------------------------------------------------------------------------
(* Theorems about every behaviour.                                         *)

LEMMA IInvInit == StreamAssumption /\ Init => IInv
<1>1. SUFFICES ASSUME StreamAssumption, Init PROVE IInv
  OBVIOUS
<1>2. TypeOK
  BY <1>1, TypeInit
<1>3. \A j \in Jobs : ~Ran(j) /\ buff[j] = {} /\ stale[j] = {} /\ late[j] = {} /\ poison[j] = None
  BY <1>1, EmptyMaps DEF Init, Ran
<1>4. BS!Promise(rec) = {}
  BY <1>1 DEF Init, BS!Promise, Blocks
<1>5. DerivedFromStored
  BY <1>1 DEF Init, DerivedFromStored
<1>6. Exported \subseteq Jobs
  BY <1>1 DEF StreamAssumption
<1>q. QED BY <1>1, <1>2, <1>3, <1>4, <1>5, <1>6
          DEF Init, IInv, Position, Quarantine, Buffered, Stored, Accounted, MemoryMatchesRecord

LEMMA IInvStep == StreamAssumption /\ IInv /\ [Next]_vars => IInv'
BY TypeStep, PositionStep, QuarantineStep, BufferedStep, StoredStep, AccountedStep,
   DerivedStep, MemoryStep DEF IInv

LEMMA Invariance == Spec => []IInv
<1>1. StreamAssumption
  BY StreamAssumption
<1>q. QED BY <1>1, IInvInit, IInvStep, PTL DEF Spec

(* The state always has its types: in particular a process never goes on   *)
(* after its last retry, and works with one of the job lists that          *)
(* instantiate_jobs can leave behind.                                      *)
THEOREM TypeCorrect == Spec => []TypeOK
BY Invariance, PTL DEF IInv

(* No silent gap, for every chain, job graph, number of exporters, errors, *)
(* crashes and restarts: what the recorder says is done has been exported, *)
(* unless a round ran with an incomplete list of jobs.                     *)
THEOREM NoGap == Spec => []NoSilentGap
<1>1. IInv => NoSilentGap
  BY DEF IInv, Accounted, NoSilentGap
<1>q. QED BY <1>1, Invariance, PTL

(* A sink never holds an item without the items it was derived from.       *)
THEOREM SinksAreClosed == Spec => []DerivedFromStored
BY Invariance, PTL DEF IInv

(* Nothing a failed attempt left in the buffer is ever exported.           *)
THEOREM LeftoversStay == Spec => []NoLeftovers
<1>1. StreamAssumption
  BY StreamAssumption
<1>2. IInv => NoLeftovers
  <2>1. SUFFICES ASSUME IInv, pc = "export" PROVE stale[at] = {}
    BY DEF NoLeftovers
  <2>2. at \in jobs /\ at \in Jobs
    BY <1>1, <2>1, JobListFacts DEF IInv, Position, TypeOK
  <2>q. QED BY <2>1, <2>2 DEF IInv, Quarantine, Ran
<1>q. QED BY <1>2, Invariance, PTL

(* The controller never believes more than the recorder knows.             *)
THEOREM MemoryIsBehind == Spec => []MemoryMatchesRecord
BY Invariance, PTL DEF IInv

(* Without --start-block the number in a recorder's file never goes back.  *)
THEOREM RecorderAdvances == Spec => RecordNeverRegresses
<1>1. StreamAssumption
  BY StreamAssumption
<1>2. IInv /\ [Next]_vars => [StartBlock = None /\ RecorderKind = "file" => rec' >= rec]_rec
  <2>1. SUFFICES ASSUME IInv, [Next]_vars, StartBlock = None, RecorderKind = "file", rec' # rec
                 PROVE  rec' >= rec
    OBVIOUS
  <2>2. RecordPG \/ WriteFile
    BY <2>1, FailedRounds DEF Next, Main, GrowChain, Crash, Boot, BootLoop, LateCollect, Finished,
       Finish, PollNothing, PollRound, StartJobs, Collect, Export, NextJob, Flush, TruncateFile, vars
  <2>3. rec' = target /\ last = rec /\ last < target
    BY <2>1, <2>2 DEF RecordPG, WriteFile, Recorded, IInv, MemoryMatchesRecord, Position
  <2>4. last \in Int /\ target \in Int
    BY <2>1 DEF IInv, TypeOK, Blocks
  <2>q. QED BY <2>3, <2>4
<1>q. QED BY <1>2, Invariance, PTL DEF Spec, RecordNeverRegresses

(* The mission implements the abstract promise: exports and records in any *)
(* order and number, but no record ahead of the exports it stands for.     *)
THEOREM Refinement == Spec => ImplementsBlockSync
<1>1. StreamAssumption
  BY StreamAssumption
<1>2. Init => BS!Init
  BY DEF Init, BS!Init, Covered
<1>3. IInv /\ [Next]_vars => [BS!Next]_(BS!vars)
  <2>1. SUFFICES ASSUME IInv, [Next]_vars PROVE [BS!Next]_(BS!vars)
    OBVIOUS
  <2>0. CASE RecordFails /\ rec' # rec
    <3>1. rec' = target /\ partial' = partial /\ sink' = sink /\ pc \in {"record", "write"}
      BY <2>0, FailedRounds DEF RecordFails, Errors
    <3>2. Covered' = Covered
      BY <3>1 DEF Covered
    <3>3. target \in Blocks
      BY <2>1 DEF IInv, TypeOK
    <3>4. ~partial => BS!Promise(target) \subseteq Covered
      BY <2>1, <3>1 DEF IInv, Accounted
    <3>q. QED BY <3>1, <3>2, <3>3, <3>4 DEF BS!Next, BS!Record
  <2>2. CASE Export \/ ExportFails
    <3>1. Covered' = Covered \cup Covered' /\ Covered' \in SUBSET Blocks
      BY <1>1, <2>1, CoveredGrows DEF IInv, Covered
    <3>2. rec' = rec /\ partial' = partial
      BY <2>2 DEF Export, ExportFails
    <3>q. QED BY <3>1, <3>2 DEF BS!Next, BS!Export
  <2>3. CASE RecordPG \/ WriteFile
    <3>1. rec' = target /\ partial' = partial /\ sink' = sink
      BY <2>3 DEF RecordPG, WriteFile, Recorded
    <3>2. Covered' = Covered
      BY <3>1 DEF Covered
    <3>3. target \in Blocks
      BY <2>1 DEF IInv, TypeOK
    <3>4. ~partial => BS!Promise(target) \subseteq Covered
      BY <2>1, <2>3 DEF RecordPG, WriteFile, IInv, Accounted
    <3>q. QED BY <3>1, <3>2, <3>3, <3>4 DEF BS!Next, BS!Record
  <2>4. CASE StartJobs
    <3>1. rec' = rec /\ sink' = sink /\ (partial' = partial \/ partial' = TRUE)
      BY <2>1, <2>4 DEF StartJobs, IInv, TypeOK
    <3>2. Covered' = Covered
      BY <3>1 DEF Covered
    <3>q. QED BY <3>1, <3>2 DEF BS!Next, BS!Degrade, BS!vars
  <2>5. CASE ~Export /\ ~ExportFails /\ ~RecordPG /\ ~WriteFile /\ ~StartJobs
               /\ ~(RecordFails /\ rec' # rec)
    <3>1. sink' = sink
      BY <1>1, <2>1, <2>5, SinksGrow DEF IInv
    <3>2. rec' = rec /\ partial' = partial
      BY <2>1, <2>5, FailedRounds DEF Next, Main, GrowChain, Crash, Boot, BootLoop, LateCollect,
         Finished, Finish, PollNothing, PollRound, Collect, NextJob, Flush, TruncateFile, vars
    <3>3. Covered' = Covered
      BY <3>1 DEF Covered
    <3>q. QED BY <3>2, <3>3 DEF BS!vars
  <2>q. QED BY <2>0, <2>2, <2>3, <2>4, <2>5
<1>q. QED BY <1>2, <1>3, Invariance, PTL DEF Spec, ImplementsBlockSync, BS!Spec
=============================================================================
