----------------------------- MODULE JobScheduler -----------------------------
(***************************************************************************)
(* What the constructor of JobScheduler computes from the job classes that *)
(* are registered: which of them a mission requires, and an order to run   *)
(* them in, and the list instantiate_jobs makes of that order.  Classes    *)
(* declare the types they output and depend on in any way: the initial     *)
(* states range over all declarations.                                     *)
(*                                                                         *)
(* The deques are sets here: the order in which they give back what was    *)
(* put in depends on the iteration order of Python sets of classes, which  *)
(* differs from process to process.                                        *)
(***************************************************************************)
EXTENDS Integers, FiniteSets, SequencesExt

CONSTANTS
  Jobs,       \* the job classes
  Types,      \* the domain types
  BlocksJob   \* ExportBlocksJob, which depends on nothing

ASSUME SchedulerAssumption ==
  /\ IsFiniteSet(Jobs) /\ IsFiniteSet(Types)
  /\ BlocksJob \in Jobs

VARIABLES
  outputs,    \* outputs[j]: output_types of class j
  needs,      \* needs[j]: dependency_types of class j
  requested,  \* required_output_types
  phase,      \* "close", "sort", then "resolved" and "built", or "cycle"
  wanted,     \* job_queue of get_required_job_classes
  required,   \* required_job_classes
  inDegree,   \* in_degree of resolve_dependencies
  sources,    \* sources of resolve_dependencies
  order,      \* sorted_order of resolve_dependencies
  jobs        \* JobScheduler.jobs, classes instead of instances

classes == <<outputs, needs, requested>>
vars == <<classes, phase, wanted, required, inDegree, sources, order, jobs>>

Producers(T) == {j \in Jobs : T \in outputs[j]}

(* The edges into job c from the jobs in S: a dependency type that one job *)
(* outputs is an edge, two types of one job are two.                       *)
Edges(c, S) == {e \in Types \X S : e[1] \in needs[c] /\ e[1] \in outputs[e[2]]}

Init ==
  /\ outputs \in [Jobs -> SUBSET Types]
  /\ needs \in [Jobs -> SUBSET Types] /\ needs[BlocksJob] = {}
  /\ requested \in SUBSET Types
  /\ phase = "close"
  /\ wanted = requested /\ required = {}
  /\ inDegree = [j \in Jobs |-> 0] /\ sources = {}
  /\ order = <<>> /\ jobs = <<>>
-----------------------------------------------------------------------------
(* Mutant of Expand: dependencies are not followed.                        *)
ExpandDirect ==
  /\ phase = "close"
  /\ \E T \in wanted :
       /\ required' = required \cup Producers(T)
       /\ wanted' = wanted \ {T}
  /\ UNCHANGED <<classes, phase, inDegree, sources, order, jobs>>

(* get_required_job_classes: one type off the queue, and what the jobs it  *)
(* brings in depend on onto it.                                            *)
Expand ==
  /\ phase = "close"
  /\ \E T \in wanted :
       LET new == Producers(T) \ required
       IN  /\ required' = required \cup new
           /\ wanted' = (wanted \ {T}) \cup UNION {needs[j] : j \in new}
  /\ UNCHANGED <<classes, phase, inDegree, sources, order, jobs>>

(* Mutant of StartSort: in-degrees count jobs where Place subtracts edges. *)
StartSortByJob ==
  /\ phase = "close" /\ wanted = {}
  /\ inDegree' = [j \in Jobs |-> Cardinality({p \in required : j \in required /\ Edges(j, {p}) # {}})]
  /\ sources' = {j \in required : inDegree'[j] = 0}
  /\ phase' = "sort"
  /\ UNCHANGED <<classes, wanted, required, order, jobs>>

StartSort ==
  /\ phase = "close" /\ wanted = {}
  /\ inDegree' = [j \in Jobs |-> IF j \in required THEN Cardinality(Edges(j, required)) ELSE 0]
  /\ sources' = {j \in required : inDegree'[j] = 0}
  /\ phase' = "sort"
  /\ UNCHANGED <<classes, wanted, required, order, jobs>>

Children(j) == {c \in required : Edges(c, {j}) # {}}

(* Mutant of Place: a child is ready as soon as one parent is placed.      *)
PlaceEager ==
  /\ phase = "sort"
  /\ \E j \in sources :
       /\ order' = Append(order, j)
       /\ inDegree' = [c \in Jobs |-> IF c \in Children(j)
                                      THEN inDegree[c] - Cardinality(Edges(c, {j}))
                                      ELSE inDegree[c]]
       /\ sources' = (sources \ {j}) \cup {c \in Children(j) : inDegree[c] > 0}
  /\ UNCHANGED <<classes, phase, wanted, required, jobs>>

Place ==
  /\ phase = "sort"
  /\ \E j \in sources :
       /\ order' = Append(order, j)
       /\ inDegree' = [c \in Jobs |-> IF c \in Children(j)
                                      THEN inDegree[c] - Cardinality(Edges(c, {j}))
                                      ELSE inDegree[c]]
       /\ sources' = (sources \ {j}) \cup {c \in Children(j) : inDegree'[c] = 0}
  /\ UNCHANGED <<classes, phase, wanted, required, jobs>>

(* Mutant of Sorted: the lengths are not compared.                         *)
SortedUnchecked ==
  /\ phase = "sort" /\ sources = {}
  /\ phase' = "resolved"
  /\ UNCHANGED <<classes, wanted, required, inDegree, sources, order, jobs>>

Sorted ==
  /\ phase = "sort" /\ sources = {}
  /\ phase' = IF Len(order) # Cardinality(required) THEN "cycle" ELSE "resolved"
  /\ UNCHANGED <<classes, wanted, required, inDegree, sources, order, jobs>>

(* Mutant of Instantiate: the loop does not skip ExportBlocksJob.          *)
InstantiateTwice ==
  /\ phase = "resolved"
  /\ jobs' = <<BlocksJob>> \o order
  /\ phase' = "built"
  /\ UNCHANGED <<classes, wanted, required, inDegree, sources, order>>

(* ExportBlocksJob is built last and inserted first, required or not.      *)
Instantiate ==
  /\ phase = "resolved"
  /\ jobs' = <<BlocksJob>> \o RemoveFirst(order, BlocksJob)
  /\ phase' = "built"
  /\ UNCHANGED <<classes, wanted, required, inDegree, sources, order>>

Finished == phase \in {"cycle", "built"} /\ UNCHANGED vars

Resolve == Expand \/ StartSort \/ Place \/ Sorted \/ Instantiate

Next == Resolve \/ Finished

Spec == Init /\ [][Next]_vars

-----------------------------------------------------------------------------
(* Properties.                                                             *)

(* Type correctness: no in-degree goes below zero, not even when a job     *)
(* depends on several types of one other job.                              *)
TypeOK ==
  /\ outputs \in [Jobs -> SUBSET Types] /\ needs \in [Jobs -> SUBSET Types]
  /\ needs[BlocksJob] = {}
  /\ requested \in SUBSET Types
  /\ phase \in {"close", "sort", "resolved", "built", "cycle"}
  /\ wanted \in SUBSET Types /\ required \in SUBSET Jobs
  /\ inDegree \in [Jobs -> Nat] /\ sources \in SUBSET required
  /\ order \in Seq(Jobs) /\ jobs \in Seq(Jobs)

(* The jobs that job j reads from.                                         *)
Parents(j) == {p \in Jobs : needs[j] \cap outputs[p] # {}}

Before(list, p, j) == \A i \in DOMAIN list : list[i] = j => \E k \in 1 .. i - 1 : list[k] = p

(* A job runs after every required job that outputs a type it depends on,  *)
(* in the resolved order and in the list of instances, where ExportBlocks- *)
(* Job was moved to the front: the data buffer holds what it reads.        *)
RespectsDependencies ==
  \A j \in required : \A p \in Parents(j) \cap required :
    Before(order, p, j) /\ Before(jobs, p, j)

(* The list holds every required job, and ExportBlocksJob, once.           *)
EachOnce ==
  phase = "built" =>
    Range(jobs) = required \cup {BlocksJob} /\ IsInjective(jobs)

(* A set of jobs that can run on its own: it outputs what was requested    *)
(* and what its jobs depend on, as far as any job does.                    *)
Closed(S) == \A T \in requested \cup UNION {needs[j] : j \in S} : Producers(T) \subseteq S

(* The jobs that run are those the requested types need and no others.     *)
LeastClosure ==
  phase # "close" => Closed(required) /\ \A S \in SUBSET Jobs : Closed(S) => required \subseteq S

(* Some required jobs wait for each other, one may wait for itself.        *)
Cyclic == \E S \in (SUBSET required) \ {{}} : \A j \in S : Parents(j) \cap S # {}

(* The constructor refuses the declarations that no order can satisfy, and *)
(* only those.                                                             *)
RefusesCycles ==
  /\ phase = "cycle" => Cyclic
  /\ phase \in {"resolved", "built"} => ~Cyclic
-----------------------------------------------------------------------------
(* The inductive invariant behind these properties.                        *)

Placed == Range(order)

(* An in-degree counts the edges from the jobs that are not placed yet,    *)
(* the sources are the unplaced jobs it is zero for, and nothing is placed *)
(* twice, or before a required parent.                                     *)
Degrees ==
  phase = "sort" =>
    /\ \A j \in required : inDegree[j] = Cardinality(Edges(j, required \ Placed))
    /\ \A j \in required : inDegree[j] = 0 <=> j \in sources \/ j \in Placed
    /\ sources \cap Placed = {}

Ordered ==
  /\ phase = "close" => order = <<>> /\ sources = {}
  /\ phase # "built" => jobs = <<>>
  /\ Placed \subseteq required
  /\ IsInjective(order)
  /\ \A i \in DOMAIN order : \A p \in Parents(order[i]) \cap required :
       \E k \in 1 .. i - 1 : order[k] = p

Complete == phase \in {"resolved", "built"} => Placed = required

(* What is still wanted, and what is required already, belongs to every    *)
(* closed set; what is needed is wanted, or its producers are required.    *)
Closing ==
  /\ \A S \in SUBSET Jobs : Closed(S) =>
       required \subseteq S /\ wanted \subseteq requested \cup UNION {needs[j] : j \in S}
  /\ \A T \in (requested \cup UNION {needs[j] : j \in required}) \ wanted :
       Producers(T) \subseteq required
  /\ phase # "close" => wanted = {}

IInv ==
  /\ TypeOK /\ Closing /\ Degrees /\ Ordered /\ Complete
  /\ RespectsDependencies /\ EachOnce /\ RefusesCycles
=============================================================================
