------------------------- MODULE JobScheduler_proofs -------------------------
(* Machine-checked proofs about JobScheduler, for every set of job classes *)
(* and types and every declaration of outputs and dependencies.            *)
EXTENDS JobScheduler, SequenceLemmas, FiniteSetTheorems, WellFoundedInduction

(* There are finitely many edges, and none means no parent.                *)
LEMMA EdgeFacts ==
  ASSUME SchedulerAssumption, NEW c \in Jobs, NEW S \in SUBSET Jobs
  PROVE  /\ IsFiniteSet(Edges(c, S))
         /\ Cardinality(Edges(c, S)) \in Nat
         /\ Cardinality(Edges(c, S)) = 0 <=> Edges(c, S) = {}
<1>1. IsFiniteSet(Types \X Jobs)
  BY FS_Product DEF SchedulerAssumption
<1>2. Edges(c, S) \in SUBSET (Types \X Jobs)
  BY DEF Edges
<1>3. IsFiniteSet(Edges(c, S))
  BY <1>1, <1>2, FS_Subset
<1>q. QED
  BY <1>3, FS_CardinalityType, FS_EmptySet

(* An edge from a job in S is a parent in S.                               *)
LEMMA EdgesAreParents ==
  ASSUME TypeOK, NEW c \in Jobs, NEW S \in SUBSET Jobs
  PROVE  Edges(c, S) = {} <=> Parents(c) \cap S = {}
<1>1. ASSUME NEW e \in Edges(c, S) PROVE e[2] \in Parents(c) \cap S
  BY DEF Edges, Parents
<1>2. ASSUME NEW p \in Parents(c) \cap S PROVE Edges(c, S) # {}
  <2>1. PICK T \in Types : T \in needs[c] /\ T \in outputs[p]
    BY <1>2 DEF Parents, TypeOK
  <2>2. <<T, p>> \in Edges(c, S)
    BY <1>2, <2>1 DEF Edges
  <2>q. QED BY <2>2
<1>q. QED BY <1>1, <1>2

(* Placing a job takes its edges away from every in-degree.                *)
LEMMA EdgesSplit ==
  ASSUME SchedulerAssumption, NEW c \in Jobs, NEW S \in SUBSET Jobs, NEW j \in S
  PROVE  /\ Cardinality(Edges(c, S \ {j})) = Cardinality(Edges(c, S)) - Cardinality(Edges(c, {j}))
         /\ Edges(c, {j}) = {} => Edges(c, S \ {j}) = Edges(c, S)
<1>1. Edges(c, S \ {j}) = Edges(c, S) \ Edges(c, {j})
  BY DEF Edges
<1>2. Edges(c, S) \cap Edges(c, {j}) = Edges(c, {j})
  BY DEF Edges
<1>3. IsFiniteSet(Edges(c, S))
  BY EdgeFacts
<1>4. Cardinality(Edges(c, S) \ Edges(c, {j})) = Cardinality(Edges(c, S)) - Cardinality(Edges(c, {j}))
  BY <1>2, <1>3, FS_Difference
<1>q. QED
  BY <1>1, <1>4

LEMMA InitIInv == SchedulerAssumption /\ Init => IInv
<1> SUFFICES ASSUME SchedulerAssumption, Init PROVE IInv
  OBVIOUS
<1>1. /\ IsInjective(order) /\ DOMAIN order = {} /\ DOMAIN jobs = {} /\ Placed = {}
      /\ order \in Seq(Jobs) /\ jobs \in Seq(Jobs)
  BY DEF Init, IsInjective, Placed, Range
<1>2. TypeOK
  BY <1>1 DEF Init, TypeOK
<1>3. Closing
  BY DEF Init, Closing, Closed
<1>4. Degrees /\ Ordered /\ Complete /\ RespectsDependencies /\ EachOnce /\ RefusesCycles
  BY <1>1 DEF Init, Degrees, Ordered, Complete, RespectsDependencies, EachOnce, RefusesCycles,
              Before
<1>q. QED BY <1>2, <1>3, <1>4 DEF IInv
-----------------------------------------------------------------------------
(* Expand: the closure grows towards every closed set, and leaves nothing  *)
(* out.                                                                    *)
LEMMA ExpandStep ==
  ASSUME SchedulerAssumption, IInv, Expand
  PROVE  IInv'
<1> USE DEF IInv
<1>1. PICK T \in wanted :
        /\ required' = required \cup (Producers(T) \ required)
        /\ wanted' = (wanted \ {T}) \cup UNION {needs[j] : j \in Producers(T) \ required}
  BY DEF Expand
<1>2. /\ phase = "close" /\ phase' = phase /\ outputs' = outputs /\ needs' = needs
      /\ requested' = requested /\ inDegree' = inDegree /\ sources' = sources
      /\ order' = order /\ jobs' = jobs
  BY DEF Expand, classes
<1>3. Producers(T) \subseteq Jobs /\ T \in Types
  BY DEF Producers, TypeOK
<1>4. TypeOK'
  <2>1. required' \in SUBSET Jobs
    BY <1>1, <1>3 DEF TypeOK
  <2>2. wanted' \in SUBSET Types
    BY <1>1, <1>3 DEF TypeOK
  <2>q. QED BY <1>1, <1>2, <2>1, <2>2 DEF TypeOK
<1>5. Closing'
  <2>1. ASSUME NEW S \in SUBSET Jobs, Closed(S)'
        PROVE  required' \subseteq S /\ wanted' \subseteq requested \cup UNION {needs[j] : j \in S}
    <3>1. Closed(S)
      BY <1>2, <2>1 DEF Closed, Producers
    <3>2. required \subseteq S /\ wanted \subseteq requested \cup UNION {needs[j] : j \in S}
      BY <3>1 DEF Closing
    <3>3. Producers(T) \subseteq S
      BY <3>1, <3>2 DEF Closed
    <3>q. QED BY <1>1, <3>2, <3>3
  <2>2. ASSUME NEW U \in (requested \cup UNION {needs[j] : j \in required'}) \ wanted'
        PROVE  Producers(U) \subseteq required'
    <3>1. CASE U = T
      BY <1>1, <3>1
    <3>2. CASE U # T
      <4>1. U \notin wanted
        BY <1>1, <2>2, <3>2
      <4>2. U \in requested \cup UNION {needs[j] : j \in required}
        BY <1>1, <2>2
      <4>3. Producers(U) \subseteq required
        BY <4>1, <4>2 DEF Closing
      <4>q. QED BY <1>1, <4>3
    <3>q. QED BY <3>1, <3>2
  <2>3. \A U : Producers(U)' = Producers(U)
    BY <1>2 DEF Producers
  <2>q. QED BY <1>2, <2>1, <2>2, <2>3 DEF Closing
<1>6. DOMAIN order = {} /\ DOMAIN jobs = {}
  BY <1>2 DEF Ordered
<1>7. (Degrees /\ Ordered /\ Complete /\ EachOnce /\ RefusesCycles)'
  <2>1. Placed' = Placed /\ Placed = {}
    BY <1>2, <1>6 DEF Placed, Range
  <2>q. QED
    BY <1>2, <1>6, <2>1 DEF Degrees, Ordered, Complete, EachOnce, RefusesCycles, IsInjective
<1>8. RespectsDependencies'
  BY <1>2, <1>6 DEF RespectsDependencies, Before
<1>q. QED BY <1>4, <1>5, <1>7, <1>8

(* Steps of the sort leave the declarations and the closure alone.         *)
LEMMA ClosingKept ==
  ASSUME IInv, phase' # "close", phase # "close" \/ wanted = {},
         UNCHANGED <<classes, wanted, required>>
  PROVE  Closing'
<1>1. /\ outputs' = outputs /\ needs' = needs /\ requested' = requested
      /\ wanted' = wanted /\ required' = required
  BY DEF classes
<1>2. /\ \A T : Producers(T)' = Producers(T)
      /\ \A S : Closed(S)' = Closed(S)
  BY <1>1 DEF Closed, Producers
<1>q. QED BY <1>1, <1>2 DEF IInv, Closing

(* The in-degrees start as the numbers of edges from required jobs.        *)
LEMMA StartSortStep ==
  ASSUME SchedulerAssumption, IInv, StartSort
  PROVE  IInv'
<1> USE DEF IInv
<1>1. /\ phase = "close" /\ wanted = {} /\ phase' = "sort"
      /\ inDegree' = [j \in Jobs |-> IF j \in required THEN Cardinality(Edges(j, required)) ELSE 0]
      /\ sources' = {j \in required : inDegree'[j] = 0}
      /\ outputs' = outputs /\ needs' = needs /\ requested' = requested
      /\ wanted' = wanted /\ required' = required /\ order' = order /\ jobs' = jobs
  BY DEF StartSort, classes
<1>2. required \subseteq Jobs /\ DOMAIN order = {} /\ DOMAIN jobs = {}
  BY <1>1 DEF TypeOK, Ordered
<1>3. \A j \in Jobs : Cardinality(Edges(j, required)) \in Nat
  BY <1>2, EdgeFacts
<1>4. inDegree' \in [Jobs -> Nat]
  BY <1>1, <1>3
<1>5. TypeOK'
  BY <1>1, <1>4 DEF TypeOK
<1>6. Closing'
  BY <1>1, ClosingKept DEF classes
<1>7. Placed' = {} /\ \A j : Edges(j, required)' = Edges(j, required)
  BY <1>1, <1>2 DEF Placed, Range, Edges
<1>8. Degrees'
  <2>1. \A j \in required : inDegree'[j] = Cardinality(Edges(j, required \ {}))
    BY <1>1, <1>2
  <2>q. QED BY <1>1, <1>7, <2>1 DEF Degrees, Edges
<1>9. (Ordered /\ Complete /\ EachOnce /\ RefusesCycles)'
  BY <1>1, <1>2, <1>7 DEF Ordered, Complete, EachOnce, RefusesCycles, IsInjective
<1>10. RespectsDependencies'
  BY <1>1, <1>2 DEF RespectsDependencies, Before
<1>q. QED BY <1>5, <1>6, <1>8, <1>9, <1>10

(* Placing a source: its parents are all placed, the in-degrees go on to   *)
(* count the edges from unplaced jobs, and zero is reached once.           *)
LEMMA PlaceStep ==
  ASSUME SchedulerAssumption, IInv, Place
  PROVE  IInv'
<1> USE DEF IInv
<1>1. PICK j \in sources :
        /\ order' = Append(order, j)
        /\ inDegree' = [c \in Jobs |-> IF c \in Children(j)
                                       THEN inDegree[c] - Cardinality(Edges(c, {j}))
                                       ELSE inDegree[c]]
        /\ sources' = (sources \ {j}) \cup {c \in Children(j) : inDegree'[c] = 0}
  BY DEF Place
<1>2. /\ phase = "sort" /\ phase' = "sort"
      /\ outputs' = outputs /\ needs' = needs /\ requested' = requested
      /\ wanted' = wanted /\ required' = required /\ jobs' = jobs /\ jobs = <<>>
  BY DEF Place, classes, Ordered
<1>3. /\ j \in required /\ required \subseteq Jobs /\ j \notin Placed /\ j \in Jobs
      /\ order \in Seq(Jobs)
  BY <1>1, <1>2 DEF TypeOK, Degrees
<1> DEFINE U == required \ Placed
<1>4. j \in U /\ U \in SUBSET Jobs
  BY <1>3
<1>5. Placed' = Placed \cup {j}
  <2>1. /\ DOMAIN order' = DOMAIN order \cup {Len(order) + 1}
        /\ order'[Len(order) + 1] = j
        /\ \A i \in DOMAIN order : order'[i] = order[i]
    BY <1>1, <1>3
  <2>q. QED BY <2>1 DEF Placed, Range
<1>6. required' \ Placed' = U \ {j}
  BY <1>2, <1>5
<1>7. \A c \in required : inDegree[c] = 0 => c \notin Children(j)
  <2>1. SUFFICES ASSUME NEW c \in required, inDegree[c] = 0 PROVE Edges(c, {j}) = {}
    BY DEF Children
  <2>2. Cardinality(Edges(c, U)) = 0
    BY <1>2, <2>1 DEF Degrees
  <2>3. Edges(c, U) = {}
    BY <1>3, <1>4, <2>2, EdgeFacts
  <2>q. QED BY <1>4, <2>3 DEF Edges
<1>8. \A c \in required : inDegree'[c] = Cardinality(Edges(c, U \ {j}))
  <2>1. SUFFICES ASSUME NEW c \in required
                 PROVE  inDegree'[c] = Cardinality(Edges(c, U \ {j}))
    OBVIOUS
  <2>2. c \in Jobs /\ inDegree[c] = Cardinality(Edges(c, U))
    BY <1>2, <1>3, <2>1 DEF Degrees
  <2>3. CASE c \in Children(j)
    BY <1>1, <1>4, <2>2, <2>3, EdgesSplit
  <2>4. CASE c \notin Children(j)
    <3>1. Edges(c, {j}) = {}
      BY <2>4 DEF Children
    <3>2. Edges(c, U \ {j}) = Edges(c, U)
      BY <1>4, <2>2, <3>1, EdgesSplit
    <3>q. QED BY <1>1, <2>2, <2>4, <3>2
  <2>q. QED BY <2>3, <2>4
<1>9. inDegree' \in [Jobs -> Nat]
  <2>1. ASSUME NEW c \in Jobs PROVE inDegree'[c] \in Nat
    <3>1. CASE c \in required
      BY <1>4, <1>8, <3>1, EdgeFacts, U \ {j} \in SUBSET Jobs
    <3>2. CASE c \notin required
      BY <1>1, <3>2 DEF Children, TypeOK
    <3>q. QED BY <3>1, <3>2
  <2>2. inDegree' = [c \in Jobs |-> inDegree'[c]]
    BY <1>1
  <2>q. QED BY <2>1, <2>2
<1>10. TypeOK'
  <2>1. sources' \subseteq required
    BY <1>1 DEF Children, TypeOK
  <2>2. order' \in Seq(Jobs)
    BY <1>1, <1>3
  <2>q. QED BY <1>2, <1>9, <2>1, <2>2 DEF TypeOK
<1>11. Closing'
  BY <1>2, ClosingKept DEF classes
<1>12. Degrees'
  <2>1. \A c, S : Edges(c, S)' = Edges(c, S)
    BY <1>2 DEF Edges
  <2>3. ASSUME NEW c \in required
        PROVE  inDegree'[c] = 0 <=> c \in sources' \/ c \in Placed'
    <3>1. CASE c \in Children(j)
      BY <1>1, <1>2, <1>5, <1>7, <3>1 DEF Degrees
    <3>2. CASE c \notin Children(j)
      BY <1>1, <1>2, <1>3, <1>5, <3>2 DEF Degrees
    <3>q. QED BY <3>1, <3>2
  <2>4. sources' \cap Placed' = {}
    <3>1. ASSUME NEW c \in sources', c \in Placed' PROVE FALSE
      <4>1. c \in required /\ inDegree[c] = 0
        BY <1>2, <1>3, <1>5, <3>1, <1>1 DEF Degrees, Ordered
      <4>2. c \in sources \ {j}
        BY <1>1, <1>7, <3>1, <4>1
      <4>q. QED BY <1>2, <1>5, <3>1, <4>2 DEF Degrees
    <3>q. QED BY <3>1
  <2>q. QED BY <1>2, <1>6, <1>8, <2>1, <2>3, <2>4 DEF Degrees
<1>13. Ordered'
  <2>1. /\ Len(order) \in Nat /\ DOMAIN order = 1 .. Len(order)
        /\ DOMAIN order' = 1 .. Len(order) + 1
        /\ order'[Len(order) + 1] = j
        /\ \A i \in 1 .. Len(order) : order'[i] = order[i]
    BY <1>1, <1>3
  <2>2. Placed' \subseteq required'
    BY <1>2, <1>3, <1>5 DEF Ordered
  <2>3. \A i \in 1 .. Len(order) : order[i] \in Placed
    BY <2>1 DEF Placed, Range
  <2>4. IsInjective(order')
    BY <1>3, <2>1, <2>3 DEF Ordered, IsInjective
  <2>5. Parents(j) \cap required \subseteq Placed
    <3>1. inDegree[j] = 0 /\ Cardinality(Edges(j, U)) = 0
      BY <1>1, <1>2, <1>3 DEF Degrees
    <3>2. Edges(j, U) = {}
      BY <1>3, <1>4, <3>1, EdgeFacts
    <3>q. QED BY <1>3, <1>4, <3>2, EdgesAreParents
  <2>6. \A c : Parents(c)' = Parents(c)
    BY <1>2 DEF Parents
  <2>7. ASSUME NEW i \in DOMAIN order', NEW p \in Parents(order'[i]) \cap required
        PROVE  \E k \in 1 .. i - 1 : order'[k] = p
    <3>1. CASE i = Len(order) + 1
      <4>1. PICK k \in DOMAIN order : order[k] = p
        BY <2>1, <2>5, <2>7, <3>1 DEF Placed, Range
      <4>q. QED BY <2>1, <3>1, <4>1
    <3>2. CASE i # Len(order) + 1
      <4>1. i \in 1 .. Len(order) /\ order'[i] = order[i]
        BY <2>1, <3>2
      <4>2. PICK k \in 1 .. i - 1 : order[k] = p
        BY <2>1, <2>7, <4>1 DEF Ordered
      <4>q. QED BY <2>1, <4>1, <4>2
    <3>q. QED BY <3>1, <3>2
  <2>q. QED BY <1>2, <2>2, <2>4, <2>6, <2>7 DEF Ordered
<1>14. (Complete /\ EachOnce /\ RefusesCycles)'
  BY <1>2 DEF Complete, EachOnce, RefusesCycles
<1>15. RespectsDependencies'
  <2>2. ASSUME NEW c \in required, NEW p \in Parents(c) \cap required
        PROVE  Before(order', p, c) /\ Before(jobs', p, c)
    BY <1>2, <1>13, <2>2 DEF Ordered, Before, Parents
  <2>3. \A c : Parents(c)' = Parents(c)
    BY <1>2 DEF Parents
  <2>q. QED BY <1>2, <2>2, <2>3 DEF RespectsDependencies, Before
<1>q. QED BY <1>10, <1>11, <1>12, <1>13, <1>14, <1>15

(* The order is as long as the set of placed jobs is large.                *)
LEMMA OrderLength ==
  ASSUME TypeOK, IsInjective(order)
  PROVE  IsFiniteSet(Placed) /\ Cardinality(Placed) = Len(order)
<1>1. Len(order) \in Nat /\ DOMAIN order = 1 .. Len(order) /\ order \in Seq(Jobs)
  BY DEF TypeOK
<1>2. IsFiniteSet(1 .. Len(order)) /\ Cardinality(1 .. Len(order)) = Len(order)
  BY <1>1, FS_Interval
<1>3. order \in Surjection(1 .. Len(order), Placed)
  BY <1>1 DEF Surjection, Placed, Range
<1>4. order \in Injection(1 .. Len(order), Placed)
  BY <1>1, <1>3 DEF Surjection, Injection, IsInjective
<1>q. QED BY <1>2, <1>3, <1>4, FS_Surjection

(* Jobs that are all placed, each after its parents, are not cyclic.       *)
LEMMA OrderedNotCyclic ==
  ASSUME TypeOK, Ordered, Placed = required
  PROVE  ~Cyclic
<1>1. SUFFICES ASSUME NEW S \in (SUBSET required) \ {{}}, \A j \in S : Parents(j) \cap S # {}
               PROVE  FALSE
  BY DEF Cyclic
<1> DEFINE D == {i \in DOMAIN order : order[i] \in S}
<1>2. D \subseteq Nat /\ D # {}
  <2>1. DOMAIN order = 1 .. Len(order) /\ Len(order) \in Nat
    BY DEF TypeOK
  <2>2. PICK j \in S : TRUE
    BY <1>1
  <2>3. PICK i \in DOMAIN order : order[i] = j
    BY <1>1, <2>2 DEF Placed, Range
  <2>q. QED BY <2>1, <2>2, <2>3
<1>3. PICK i \in D : \A k \in D : ~(<<k, i>> \in OpToRel(<, Nat))
  BY <1>2, NatLessThanWellFounded, WFMin
<1>4. \A k \in D : ~(k < i)
  BY <1>2, <1>3 DEF OpToRel
<1>5. PICK p \in Parents(order[i]) \cap S : TRUE
  BY <1>1
<1>6. PICK k \in 1 .. i - 1 : order[k] = p
  BY <1>1, <1>5 DEF Ordered
<1>7. k \in D /\ k < i
  BY <1>2, <1>5, <1>6 DEF TypeOK
<1>q. QED BY <1>4, <1>7

(* The sort stops: with every required job placed, or with jobs left that  *)
(* wait for each other.                                                    *)
LEMMA SortedStep ==
  ASSUME SchedulerAssumption, IInv, Sorted
  PROVE  IInv'
<1> USE DEF IInv
<1>1. /\ phase = "sort" /\ sources = {}
      /\ phase' = IF Len(order) # Cardinality(required) THEN "cycle" ELSE "resolved"
      /\ outputs' = outputs /\ needs' = needs /\ requested' = requested
      /\ wanted' = wanted /\ required' = required /\ inDegree' = inDegree
      /\ sources' = sources /\ order' = order /\ jobs' = jobs
  BY DEF Sorted, classes
<1>2. phase' \in {"cycle", "resolved"}
  BY <1>1
<1>3. TypeOK' /\ Closing' /\ RespectsDependencies' /\ Degrees' /\ EachOnce' /\ Ordered'
  <2>1. /\ Placed' = Placed
        /\ \A c : Parents(c)' = Parents(c)
    BY <1>1 DEF Placed, Parents
  <2>2. TypeOK'
    BY <1>1, <1>2 DEF TypeOK
  <2>3. Closing'
    BY <1>1, <1>2, ClosingKept DEF classes
  <2>4. RespectsDependencies'
    BY <1>1, <2>1 DEF RespectsDependencies, Before
  <2>5. (Degrees /\ EachOnce)'
    BY <1>2 DEF Degrees, EachOnce
  <2>6. Ordered'
    BY <1>1, <1>2, <2>1 DEF Ordered
  <2>q. QED BY <2>2, <2>3, <2>4, <2>5, <2>6
<1>4. /\ Placed \subseteq required /\ required \in SUBSET Jobs
      /\ IsFiniteSet(required) /\ Cardinality(Placed) = Len(order)
  BY OrderLength, FS_Subset DEF Ordered, TypeOK, SchedulerAssumption
<1>5. Placed' = Placed /\ Cyclic' = Cyclic
  BY <1>1 DEF Placed, Cyclic, Parents
<1>6. CASE phase' = "resolved"
  <2>1. Placed = required
    BY <1>1, <1>4, <1>6, FS_Subset
  <2>q. QED BY <1>1, <1>3, <1>5, <1>6, <2>1, OrderedNotCyclic DEF Complete, RefusesCycles
<1>7. CASE phase' = "cycle"
  <2> DEFINE S == required \ Placed
  <2>1. S # {}
    <3>1. Len(order) # Cardinality(required)
      BY <1>1, <1>7
    <3>2. Placed # required
      BY <1>4, <3>1
    <3>q. QED BY <1>4, <3>2
  <2>2. ASSUME NEW j \in S PROVE Parents(j) \cap S # {}
    <3>1. inDegree[j] # 0 /\ inDegree[j] = Cardinality(Edges(j, S))
      BY <1>1, <2>2 DEF Degrees
    <3>2. Edges(j, S) # {}
      BY <1>4, <3>1, EdgeFacts
    <3>q. QED BY <1>4, <3>2, EdgesAreParents
  <2>3. Cyclic
    BY <2>1, <2>2 DEF Cyclic
  <2>q. QED BY <1>1, <1>3, <1>5, <1>7, <2>3 DEF Complete, RefusesCycles
<1>q. QED BY <1>2, <1>6, <1>7

(* Skipping ExportBlocksJob keeps the others, in their order.              *)
LEMMA RestFacts ==
  ASSUME SchedulerAssumption, TypeOK, IsInjective(order)
  PROVE  LET R == RemoveFirst(order, BlocksJob)
         IN  /\ R \in Seq(Jobs) /\ IsInjective(R) /\ Range(R) = Placed \ {BlocksJob}
             /\ \A a, b \in DOMAIN order :
                  a < b /\ order[a] # BlocksJob /\ order[b] # BlocksJob =>
                    \E i, k \in DOMAIN R : i < k /\ R[i] = order[a] /\ R[k] = order[b]
<1> DEFINE R == RemoveFirst(order, BlocksJob)
<1>1. order \in Seq(Jobs) /\ DOMAIN order = 1 .. Len(order) /\ Len(order) \in Nat
  BY DEF TypeOK
<1>2. CASE \E n \in DOMAIN order : order[n] = BlocksJob
  <2>1. PICK n \in DOMAIN order : order[n] = BlocksJob
    BY <1>2
  <2>2. /\ R \in Seq(Jobs) /\ Len(R) = Len(order) - 1
        /\ \A i \in 1 .. Len(order) - 1 : R[i] = IF i < n THEN order[i] ELSE order[i + 1]
    BY <1>1, <2>1, RemoveFirstFacts DEF SchedulerAssumption
  <2> HIDE DEF R
  <2>3. DOMAIN R = 1 .. Len(order) - 1
    BY <2>2
  <2> DEFINE new(a) == IF a < n THEN a ELSE a - 1
             old(i) == IF i < n THEN i ELSE i + 1
  <2>4. \A a \in DOMAIN order : order[a] # BlocksJob => new(a) \in DOMAIN R /\ R[new(a)] = order[a]
    BY <1>1, <2>1, <2>2, <2>3
  <2>5. \A i \in DOMAIN R : old(i) \in DOMAIN order /\ old(i) # n /\ R[i] = order[old(i)]
    BY <1>1, <2>1, <2>2, <2>3
  <2>6. \A a, b \in DOMAIN order : order[a] = order[b] => a = b
    BY DEF IsInjective
  <2>7. IsInjective(R)
    <3>1. ASSUME NEW i \in DOMAIN R, NEW k \in DOMAIN R, R[i] = R[k] PROVE i = k
      <4>1. old(i) = old(k)
        BY <2>5, <2>6, <3>1
      <4>q. QED BY <1>1, <2>1, <2>3, <4>1
    <3>q. QED BY <3>1 DEF IsInjective
  <2>8. Range(R) = Placed \ {BlocksJob}
    <3>1. ASSUME NEW x \in Range(R) PROVE x \in Placed \ {BlocksJob}
      BY <2>1, <2>5, <2>6 DEF Range, Placed
    <3>2. ASSUME NEW x \in Placed \ {BlocksJob} PROVE x \in Range(R)
      BY <2>4 DEF Range, Placed
    <3>q. QED BY <3>1, <3>2
  <2>9. ASSUME NEW a \in DOMAIN order, NEW b \in DOMAIN order, a < b,
               order[a] # BlocksJob, order[b] # BlocksJob
        PROVE  \E i, k \in DOMAIN R : i < k /\ R[i] = order[a] /\ R[k] = order[b]
    <3>1. new(a) < new(b)
      BY <1>1, <2>1, <2>9
    <3>q. QED BY <2>4, <2>9, <3>1
  <2>q. QED BY <2>2, <2>7, <2>8, <2>9 DEF R
<1>3. CASE ~\E n \in DOMAIN order : order[n] = BlocksJob
  <2>1. R = order
    BY <1>1, <1>3 DEF RemoveFirst
  <2>q. QED BY <1>1, <1>3, <2>1 DEF Range, Placed
<1>q. QED BY <1>2, <1>3

(* ExportBlocksJob can go first: it has no parents.                        *)
LEMMA InstantiateStep ==
  ASSUME SchedulerAssumption, IInv, Instantiate
  PROVE  IInv'
<1> USE DEF IInv
<1> DEFINE R == RemoveFirst(order, BlocksJob)
<1>1. /\ phase = "resolved" /\ phase' = "built" /\ jobs' = <<BlocksJob>> \o R
      /\ outputs' = outputs /\ needs' = needs /\ requested' = requested
      /\ wanted' = wanted /\ required' = required /\ inDegree' = inDegree
      /\ sources' = sources /\ order' = order
  BY DEF Instantiate, classes
<1>2. /\ R \in Seq(Jobs) /\ IsInjective(R) /\ Range(R) = Placed \ {BlocksJob}
      /\ \A a, b \in DOMAIN order :
           a < b /\ order[a] # BlocksJob /\ order[b] # BlocksJob =>
             \E i, k \in DOMAIN R : i < k /\ R[i] = order[a] /\ R[k] = order[b]
  BY RestFacts DEF Ordered
<1>3. BlocksJob \in Jobs /\ order \in Seq(Jobs) /\ Placed = required
  BY <1>1 DEF SchedulerAssumption, TypeOK, Complete
<1> HIDE DEF R
<1>4. /\ jobs' \in Seq(Jobs) /\ Len(jobs') = Len(R) + 1 /\ Len(R) \in Nat
      /\ DOMAIN R = 1 .. Len(R) /\ DOMAIN jobs' = 1 .. Len(R) + 1
      /\ jobs'[1] = BlocksJob
      /\ \A i \in 1 .. Len(R) : jobs'[i + 1] = R[i]
      /\ \A i \in DOMAIN jobs' : i # 1 => i - 1 \in DOMAIN R /\ jobs'[i] = R[i - 1]
  <2>1. <<BlocksJob>> \in Seq(Jobs) /\ Len(<<BlocksJob>>) = 1 /\ <<BlocksJob>>[1] = BlocksJob
    BY <1>3
  <2>2. /\ jobs' \in Seq(Jobs) /\ Len(jobs') = 1 + Len(R)
        /\ \A i \in 1 .. 1 + Len(R) : jobs'[i] = IF i <= 1 THEN <<BlocksJob>>[i] ELSE R[i - 1]
    BY <1>1, <1>2, <2>1, ConcatProperties
  <2>q. QED BY <1>2, <2>1, <2>2
<1>5. \A i \in DOMAIN R : R[i] # BlocksJob
  BY <1>2 DEF Range
<1>6. TypeOK'
  BY <1>1, <1>4 DEF TypeOK
<1>7. Closing'
  BY <1>1, ClosingKept DEF classes
<1>8. EachOnce'
  <2>1. Range(jobs') = required \cup {BlocksJob}
    <3>1. ASSUME NEW x \in Range(jobs') PROVE x \in required \cup {BlocksJob}
      BY <1>2, <1>3, <1>4 DEF Range
    <3>2. ASSUME NEW x \in required \cup {BlocksJob} PROVE x \in Range(jobs')
      <4>1. CASE x = BlocksJob
        BY <1>4, <4>1 DEF Range
      <4>2. CASE x # BlocksJob
        <5>1. PICK i \in DOMAIN R : R[i] = x
          BY <1>2, <1>3, <3>2, <4>2 DEF Range
        <5>2. i + 1 \in DOMAIN jobs' /\ jobs'[i + 1] = x
          BY <1>4, <5>1
        <5>q. QED BY <5>2 DEF Range
      <4>q. QED BY <4>1, <4>2
    <3>q. QED BY <3>1, <3>2
  <2>2. ASSUME NEW i \in DOMAIN jobs', NEW k \in DOMAIN jobs', jobs'[i] = jobs'[k]
        PROVE  i = k
    <3>1. CASE i = 1 \/ k = 1
      BY <1>4, <1>5, <2>2, <3>1
    <3>2. CASE i # 1 /\ k # 1
      <4>1. i - 1 = k - 1
        BY <1>2, <1>4, <2>2, <3>2 DEF IsInjective
      <4>q. QED BY <1>4, <4>1
    <3>q. QED BY <3>1, <3>2
  <2>q. QED BY <1>1, <2>1, <2>2 DEF EachOnce, IsInjective
<1>9. ASSUME NEW c \in required, NEW p \in Parents(c) \cap required
      PROVE  Before(order, p, c) /\ Before(jobs', p, c)
  <2>1. Before(order, p, c)
    BY <1>9 DEF Ordered, Before
  <2>2. c # BlocksJob
    BY <1>9 DEF Parents, TypeOK
  <2>3. ASSUME NEW i \in DOMAIN jobs', jobs'[i] = c
        PROVE  \E k \in 1 .. i - 1 : jobs'[k] = p
    <3>1. i # 1 /\ i - 1 \in DOMAIN R /\ R[i - 1] = c
      BY <1>4, <2>2, <2>3
    <3>2. CASE p = BlocksJob
      BY <1>4, <3>1, <3>2
    <3>3. CASE p # BlocksJob
      <4>1. PICK b \in DOMAIN order : order[b] = c
        BY <1>3, <1>9 DEF Placed, Range
      <4>2. PICK a \in 1 .. b - 1 : order[a] = p
        BY <2>1, <4>1 DEF Before
      <4>3. a \in DOMAIN order /\ a < b
        BY <1>3, <4>1, <4>2
      <4>4. PICK x, y \in DOMAIN R : x < y /\ R[x] = p /\ R[y] = c
        BY <1>2, <2>2, <3>3, <4>1, <4>2, <4>3
      <4>5. y = i - 1
        BY <1>2, <3>1, <4>4 DEF IsInjective
      <4>6. x + 1 \in 1 .. i - 1 /\ jobs'[x + 1] = p
        BY <1>4, <4>4, <4>5
      <4>q. QED BY <4>6
    <3>q. QED BY <3>2, <3>3
  <2>q. QED BY <2>1, <2>3 DEF Before
<1>10. /\ Placed' = Placed
       /\ \A c : Parents(c)' = Parents(c)
  BY <1>1 DEF Placed, Parents
<1>11. RespectsDependencies'
  BY <1>1, <1>9, <1>10 DEF RespectsDependencies, Before
<1>12. (Degrees /\ Ordered /\ Complete /\ RefusesCycles)'
  <2>1. Cyclic' = Cyclic
    BY <1>1, <1>10 DEF Cyclic
  <2>2. Degrees' /\ Ordered'
    BY <1>1, <1>10 DEF Degrees, Ordered
  <2>3. Complete' /\ RefusesCycles'
    BY <1>1, <1>3, <1>10, <2>1 DEF Complete, RefusesCycles
  <2>q. QED BY <2>2, <2>3
<1>q. QED BY <1>6, <1>7, <1>8, <1>11, <1>12
-----------------------------------------------------------------------------
LEMMA StutterStep ==
  ASSUME IInv, UNCHANGED vars
  PROVE  IInv'
<1>1. /\ outputs' = outputs /\ needs' = needs /\ requested' = requested
      /\ phase' = phase /\ wanted' = wanted /\ required' = required
      /\ inDegree' = inDegree /\ sources' = sources /\ order' = order /\ jobs' = jobs
  BY DEF vars, classes
<1>2. /\ Placed' = Placed
      /\ \A c : Parents(c)' = Parents(c)
      /\ \A T : Producers(T)' = Producers(T)
      /\ \A c, S : Edges(c, S)' = Edges(c, S)
  BY <1>1 DEF Placed, Parents, Producers, Edges
<1>3. Cyclic' = Cyclic /\ \A S : Closed(S)' = Closed(S)
  BY <1>1, <1>2 DEF Cyclic, Closed
<1>4. TypeOK' /\ EachOnce' /\ RefusesCycles'
  BY <1>1, <1>3 DEF IInv, TypeOK, EachOnce, RefusesCycles
<1>5. Closing'
  BY <1>1, <1>2, <1>3 DEF IInv, Closing
<1>6. Degrees' /\ Ordered' /\ Complete'
  BY <1>1, <1>2 DEF IInv, Degrees, Ordered, Complete
<1>7. RespectsDependencies'
  BY <1>1, <1>2 DEF IInv, RespectsDependencies, Before
<1>q. QED BY <1>4, <1>5, <1>6, <1>7 DEF IInv

LEMMA Invariance == Spec => []IInv
<1>1. SchedulerAssumption /\ Init => IInv
  BY InitIInv
<1>2. SchedulerAssumption /\ IInv /\ [Next]_vars => IInv'
  BY ExpandStep, StartSortStep, PlaceStep, SortedStep, InstantiateStep, StutterStep
  DEF Next, Resolve, Finished
<1>q. QED BY <1>1, <1>2, SchedulerAssumption, PTL DEF Spec

(* The constructor's state is what it should be; in-degrees are never      *)
(* negative.                                                               *)
THEOREM TypeCorrect == Spec => []TypeOK
<1>1. IInv => TypeOK
  BY DEF IInv
<1>q. QED BY <1>1, Invariance, PTL

(* Every job runs after the jobs it reads from, however many there are and *)
(* whatever they declare: what StreamIndexer assumes of Deps.              *)
THEOREM DependenciesFirst == Spec => []RespectsDependencies
<1>1. IInv => RespectsDependencies
  BY DEF IInv
<1>q. QED BY <1>1, Invariance, PTL

(* No required job is lost or doubled on the way to the list of instances. *)
THEOREM ListIsComplete == Spec => []EachOnce
<1>1. IInv => EachOnce
  BY DEF IInv
<1>q. QED BY <1>1, Invariance, PTL

(* The closure is the least one.                                           *)
THEOREM ClosureIsLeast == Spec => []LeastClosure
<1>1. IInv => LeastClosure
  BY DEF IInv, Closing, LeastClosure, Closed
<1>q. QED BY <1>1, Invariance, PTL

(* The length test finds exactly the cyclic declarations.                  *)
THEOREM CyclesAreRefused == Spec => []RefusesCycles
<1>1. IInv => RefusesCycles
  BY DEF IInv
<1>q. QED BY <1>1, Invariance, PTL
=============================================================================
