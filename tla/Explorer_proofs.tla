---------------------------- MODULE Explorer_proofs ----------------------------
(***************************************************************************)
(* The explorer API, for all requests and rows and any size of a page: the *)
(* promises of the tables that it reads, the types of what it reads, the   *)
(* totals that it tells, and that who turns its pages misses nothing.      *)
(***************************************************************************)
EXTENDS Explorer, TLAPS, FiniteSetTheorems, SequenceTheorems, WellFoundedInduction

(***************************************************************************)
(* The promises of the tables.                                             *)
(***************************************************************************)

(* The recorded block is a number and the tables hold rows of the chain.   *)
THEOREM TablesTypeOK == DB!Spec => []DB!TypeOK
<1> USE TablesAssumption DEF DB!TypeOK, WellFormed
<1>1. DB!Init => DB!TypeOK
  BY DEF DB!Init
<1>2. DB!TypeOK /\ [DB!Next]_(DB!vars) => DB!TypeOK'
  <2> SUFFICES ASSUME DB!TypeOK, [DB!Next]_(DB!vars) PROVE DB!TypeOK'
    OBVIOUS
  <2>1. CASE DB!Write
    BY <2>1 DEF DB!Write
  <2>2. CASE DB!Record
    BY <2>2 DEF DB!Record
  <2>3. CASE UNCHANGED DB!vars
    BY <2>3 DEF DB!vars
  <2> QED
    BY <2>1, <2>2, <2>3 DEF DB!Next
<1> QED
  BY <1>1, <1>2, PTL DEF DB!Spec

(* No row is stored without the row it refers to: a commit writes rows     *)
(* whose referents earlier commits have written.                           *)
THEOREM TablesNoOrphans == DB!Spec => []DB!NoOrphans
<1>1. DB!Init => DB!NoOrphans
  BY DEF DB!Init, DB!NoOrphans
<1>2. DB!NoOrphans /\ [DB!Next]_(DB!vars) => DB!NoOrphans'
  <2> SUFFICES ASSUME DB!NoOrphans, [DB!Next]_(DB!vars) PROVE DB!NoOrphans'
    OBVIOUS
  <2>1. CASE DB!Write
    BY <2>1 DEF DB!Write, DB!NoOrphans
  <2>2. CASE DB!Record
    BY <2>2 DEF DB!Record, DB!NoOrphans
  <2>3. CASE UNCHANGED DB!vars
    BY <2>3 DEF DB!vars, DB!NoOrphans
  <2> QED
    BY <2>1, <2>2, <2>3 DEF DB!Next
<1> QED
  BY <1>1, <1>2, PTL DEF DB!Spec

(* Rows are those of the rounds so far: the recorded block never falls, so *)
(* a row written for one round stays below the end of the next.            *)
TablesInv == DB!TypeOK /\ First - 1 <= synced /\ DB!NotAhead

THEOREM TablesNotAhead == DB!Spec => []DB!NotAhead
<1> USE TablesAssumption DEF WellFormed
<1>1. DB!Init => TablesInv
  BY DEF DB!Init, TablesInv, DB!TypeOK, DB!NotAhead
<1>2. TablesInv /\ [DB!Next]_(DB!vars) => TablesInv'
  <2> SUFFICES ASSUME TablesInv, [DB!Next]_(DB!vars) PROVE TablesInv'
    OBVIOUS
  <2>1. CASE DB!Write
    <3>1. DB!TypeOK' /\ First - 1 <= synced'
      BY <2>1 DEF TablesInv, DB!TypeOK, DB!Write
    <3>2. ASSUME NEW r \in stored'
          PROVE  First <= BlockOf[r] /\ BlockOf[r] <= synced' + Steps
      <4>1. CASE r \in stored
        BY <2>1, <4>1 DEF TablesInv, DB!TypeOK, DB!NotAhead, DB!Write
      <4>2. CASE r \notin stored
        BY <2>1, <3>2, <4>2 DEF TablesInv, DB!TypeOK, DB!InRound, DB!Write
      <4> QED
        BY <4>1, <4>2
    <3> QED
      BY <3>1, <3>2 DEF TablesInv, DB!NotAhead
  <2>2. CASE DB!Record
    <3>1. PICK n \in 1..Steps : synced' = synced + n /\ UNCHANGED stored
      BY <2>2 DEF DB!Record
    <3>2. DB!TypeOK' /\ First - 1 <= synced'
      BY <3>1 DEF TablesInv, DB!TypeOK
    <3>3. ASSUME NEW r \in stored
          PROVE  First <= BlockOf[r] /\ BlockOf[r] <= synced' + Steps
      BY <3>1 DEF TablesInv, DB!TypeOK, DB!NotAhead
    <3> QED
      BY <3>1, <3>2, <3>3 DEF TablesInv, DB!NotAhead
  <2>3. CASE UNCHANGED DB!vars
    BY <2>3 DEF DB!vars, TablesInv, DB!TypeOK, DB!NotAhead
  <2> QED
    BY <2>1, <2>2, <2>3 DEF DB!Next
<1>3. TablesInv => DB!NotAhead
  BY DEF TablesInv
<1> QED
  BY <1>1, <1>2, <1>3, PTL DEF DB!Spec

(* What was stored stays stored.                                           *)
THEOREM TablesRowsStay == DB!Spec => DB!RowsStay
<1>1. [DB!Next]_(DB!vars) => [stored \subseteq stored']_(DB!vars)
  BY DEF DB!Next, DB!Write, DB!Record, DB!vars
<1> QED
  BY <1>1, PTL DEF DB!Spec, DB!RowsStay

(* A commit writes rows of blocks above the recorded one only.             *)
THEOREM TablesRecordedIsFinal == DB!Spec => DB!RecordedIsFinal
<1>1. [DB!Next]_(DB!vars) => [\A r \in stored' \ stored : BlockOf[r] > synced]_(DB!vars)
  <2> SUFFICES ASSUME [DB!Next]_(DB!vars), TRUE
               PROVE  [\A r \in stored' \ stored : BlockOf[r] > synced]_(DB!vars)
    OBVIOUS
  <2>1. CASE DB!Write
    BY <2>1 DEF DB!Write, DB!InRound
  <2>2. CASE DB!Record
    BY <2>2 DEF DB!Record
  <2>3. CASE UNCHANGED DB!vars
    BY <2>3
  <2> QED
    BY <2>1, <2>2, <2>3 DEF DB!Next
<1> QED
  BY <1>1, PTL DEF DB!Spec, DB!RecordedIsFinal

(***************************************************************************)
(* The rows of a page.                                                     *)
(***************************************************************************)

(* The order of a list is a strict one of classes of tied rows.            *)
LEMMA AboveOrders ==
  ASSUME request.keys \in Nat
  PROVE  \A r, s, t \in Rows : /\ ~Above(r, r)
                               /\ Above(r, s) => ~Above(s, r)
                               /\ Above(r, s) => Above(r, t) \/ Above(t, s)
<1>1. \A r \in Rows : r.block \in Nat /\ r.tx \in Nat /\ r.at \in Nat
  BY TablesAssumption, RecordsAssumption DEF WellFormed
<1> QED
  BY <1>1 DEF Above

(* A set of numbers with an upper bound, or a set of natural numbers, has  *)
(* one that is the greatest, or the least.                                 *)
LEMMA LeastNumber ==
  ASSUME NEW S \in SUBSET Nat, S # {}
  PROVE  \E n \in S : \A m \in S : n <= m
<1>1. PICK x \in S : \A y \in S : ~(<<y, x>> \in OpToRel(<, Nat))
  BY NatLessThanWellFounded, WFMin
<1>2. \A y \in S : ~(y < x)
  BY <1>1 DEF OpToRel
<1> QED
  BY <1>2

(* Numbers with an upper bound have a greatest one.                        *)
LEMMA GreatestNumber ==
  ASSUME NEW S \in SUBSET Nat, S # {}, NEW b \in Nat, \A n \in S : n <= b
  PROVE  \E n \in S : \A m \in S : m <= n
<1> DEFINE T == {b - n : n \in S}
<1>1. T \in SUBSET Nat /\ T # {}
  <2>1. \A n \in S : n \in Nat /\ n <= b
    OBVIOUS
  <2>2. \A n \in S : b - n \in Nat
    BY <2>1
  <2> QED
    BY <2>2
<1>2. PICK k \in T : \A m \in T : k <= m
  BY <1>1, LeastNumber
<1>3. PICK n \in S : k = b - n
  BY <1>2
<1>4. ASSUME NEW m \in S PROVE m <= n
  <2>1. b - m \in T
    OBVIOUS
  <2>2. b - n <= b - m
    BY <1>2, <1>3, <2>1
  <2>3. m \in Nat /\ n \in Nat
    OBVIOUS
  <2> HIDE DEF T
  <2> QED
    BY <2>2, <2>3
<1> QED
  BY <1>4

Over(M, r) == {s \in M : Above(s, r)}
UpTo(M, r) == Over(M, r) \cup Tied(M, r)

(* What a page shows of the first n rows.                                  *)
Cut(n, p) == IF n <= Offset(p) THEN 0 ELSE IF Offset(p) + PageSize <= n THEN PageSize ELSE n - Offset(p)

(* Pages follow each other: where one starts the one before it ends.       *)
LEMMA OffsetFacts ==
  ASSUME NEW p \in Nat \ {0}
  PROVE  Offset(p) \in Nat /\ Offset(p) + PageSize = p * PageSize /\ PageSize \in Nat \ {0}
<1>1. PageSize \in Nat \ {0}
  BY ExplorerAssumption
<1>2. \A k, n \in Nat : k * n \in Nat
  OBVIOUS
<1> QED
  BY <1>1, <1>2 DEF Offset

(* The rows above one and those tied to it are apart and finitely many.    *)
LEMMA Classes ==
  ASSUME request.keys \in Nat, NEW M \in SUBSET Rows, NEW r \in M
  PROVE  /\ IsFiniteSet(Over(M, r)) /\ IsFiniteSet(Tied(M, r)) /\ IsFiniteSet(UpTo(M, r))
         /\ Over(M, r) \cap Tied(M, r) = {} /\ r \in Tied(M, r)
         /\ Cardinality(Over(M, r)) \in Nat /\ Cardinality(Tied(M, r)) \in Nat
         /\ Cardinality(UpTo(M, r)) = Cardinality(Over(M, r)) + Cardinality(Tied(M, r))
<1>1. IsFiniteSet(M)
  BY RecordsAssumption, FS_Subset
<1>2. IsFiniteSet(Over(M, r)) /\ IsFiniteSet(Tied(M, r)) /\ IsFiniteSet(UpTo(M, r))
  <2>1. Over(M, r) \subseteq M /\ Tied(M, r) \subseteq M /\ UpTo(M, r) \subseteq M
    BY DEF Over, Tied, UpTo
  <2> QED
    BY <1>1, <2>1, FS_Subset
<1>3. Over(M, r) \cap Tied(M, r) = {} /\ r \in Tied(M, r)
  BY AboveOrders DEF Over, Tied
<1>4. Cardinality(UpTo(M, r)) = Cardinality(Over(M, r)) + Cardinality(Tied(M, r))
  <2>1. Cardinality(Over(M, r) \cup Tied(M, r))
          = Cardinality(Over(M, r)) + Cardinality(Tied(M, r)) - Cardinality(Over(M, r) \cap Tied(M, r))
    BY <1>2, FS_Union
  <2>2. Cardinality(Over(M, r) \cap Tied(M, r)) = 0
    BY <1>3, FS_EmptySet
  <2>3. Cardinality(Over(M, r)) \in Nat /\ Cardinality(Tied(M, r)) \in Nat
    BY <1>2, FS_CardinalityType
  <2> QED
    BY <2>1, <2>2, <2>3 DEF UpTo
<1> QED
  BY <1>2, <1>3, <1>4, FS_CardinalityType

(* A row is above all that is not up to it, and has fewer above it.        *)
LEMMA FewerAbove ==
  ASSUME request.keys \in Nat, NEW M \in SUBSET Rows, NEW q \in M, NEW r \in M, Above(q, r)
  PROVE  /\ UpTo(M, q) \subseteq Over(M, r)
         /\ Cardinality(Over(M, q)) < Cardinality(Over(M, r))
<1>1. \A s \in M : s \in UpTo(M, q) => Above(s, r)
  BY AboveOrders DEF UpTo, Over, Tied
<1>2. UpTo(M, q) \subseteq Over(M, r)
  BY <1>1 DEF UpTo, Over, Tied
<1>3. Over(M, q) \subseteq Over(M, r) /\ Over(M, q) # Over(M, r)
  BY <1>2, AboveOrders DEF UpTo, Over
<1> QED
  BY <1>2, <1>3, Classes, FS_Subset, FS_CardinalityType

(* The row that has the most above it among some rows: all of them are up  *)
(* to it.                                                                  *)
LEMMA Lowest ==
  ASSUME request.keys \in Nat, NEW M \in SUBSET Rows, NEW S \in SUBSET M, S # {}
  PROVE  \E q \in S : S \subseteq UpTo(M, q)
<1> DEFINE N == {Cardinality(Over(M, q)) : q \in S}
<1>1. IsFiniteSet(M) /\ Cardinality(M) \in Nat
  BY RecordsAssumption, FS_Subset, FS_CardinalityType
<1>2. \A q \in S : Cardinality(Over(M, q)) \in Nat /\ Cardinality(Over(M, q)) <= Cardinality(M)
  <2> TAKE q \in S
  <2>1. Over(M, q) \subseteq M
    BY DEF Over
  <2> QED
    BY <1>1, <2>1, FS_Subset, FS_CardinalityType
<1>3. PICK n \in N : \A m \in N : m <= n
  <2>1. N \in SUBSET Nat /\ N # {} /\ \A m \in N : m <= Cardinality(M)
    BY <1>2
  <2> HIDE DEF N
  <2> QED
    BY <1>1, <2>1, GreatestNumber
<1>4. PICK q \in S : n = Cardinality(Over(M, q))
  BY <1>3
<1>5. ASSUME NEW s \in S PROVE s \in UpTo(M, q)
  <2>1. ~Above(q, s)
    <3>1. Cardinality(Over(M, s)) <= Cardinality(Over(M, q))
      BY <1>3, <1>4
    <3>2. Above(q, s) => Cardinality(Over(M, q)) < Cardinality(Over(M, s))
      <4>1. q \in M /\ s \in M
        OBVIOUS
      <4> QED
        BY <4>1, FewerAbove
    <3> QED
      BY <1>2, <3>1, <3>2
  <2> QED
    BY <2>1 DEF UpTo, Over, Tied
<1> QED
  BY <1>5

(* A page shows of the rows up to one what lies between its ends.          *)
LEMMA PageShows ==
  ASSUME request.keys \in Nat, NEW M \in SUBSET Rows, NEW p \in Nat \ {0}, NEW P \in PagesOf(M, p)
  PROVE  /\ P \subseteq M
         /\ \A r \in M : Cardinality(P \cap UpTo(M, r)) = Cut(Cardinality(UpTo(M, r)), p)
<1>1. P \subseteq M /\ IsFiniteSet(M) /\ IsFiniteSet(P)
  BY RecordsAssumption, FS_Subset DEF PagesOf
<1> DEFINE lo(r) == Cardinality(Over(M, r))
           hi(r) == Cardinality(UpTo(M, r))
           good(r) == Cardinality(P \cap UpTo(M, r)) = Cut(hi(r), p)
<1>2. \A r \in M : lo(r) \in Nat /\ hi(r) \in Nat /\ lo(r) <= hi(r)
  <2> TAKE r \in M
  <2>1. /\ lo(r) \in Nat /\ Cardinality(Tied(M, r)) \in Nat
        /\ hi(r) = lo(r) + Cardinality(Tied(M, r))
    BY Classes
  <2> HIDE DEF lo, hi
  <2> QED
    BY <2>1
<1>3. \A r \in M : Cardinality(P \cap Tied(M, r)) = Cut(hi(r), p) - Cut(lo(r), p)
  <2> TAKE r \in M
  <2>1. Cardinality(P \cap Tied(M, r)) = Share(M, r, p)
    BY DEF PagesOf
  <2>2. hi(r) = lo(r) + Cardinality(Tied(M, r)) /\ Cardinality(Tied(M, r)) \in Nat
    BY Classes
  <2>3. Share(M, r, p) = LET from == IF lo(r) < Offset(p) THEN Offset(p) ELSE lo(r)
                             to == IF hi(r) < Offset(p) + PageSize THEN hi(r) ELSE Offset(p) + PageSize
                         IN  IF from < to THEN to - from ELSE 0
    BY <2>2 DEF Share, Over
  <2> HIDE DEF lo, hi
  <2>4. Offset(p) \in Nat /\ PageSize \in Nat \ {0}
    BY OffsetFacts
  <2>5. lo(r) \in Nat /\ hi(r) \in Nat /\ lo(r) <= hi(r)
    BY <1>2
  <2>6. Share(M, r, p) = Cut(hi(r), p) - Cut(lo(r), p)
    BY <2>3, <2>4, <2>5 DEF Cut
  <2> QED
    BY <2>1, <2>6
<1>4. \A r \in M : (\A q \in M : lo(q) < lo(r) => good(q)) => good(r)
  <2> SUFFICES ASSUME NEW r \in M, \A q \in M : lo(q) < lo(r) => good(q) PROVE good(r)
    OBVIOUS
  <2>1. Cardinality(P \cap UpTo(M, r)) = Cardinality(P \cap Over(M, r)) + Cardinality(P \cap Tied(M, r))
    <3>1. /\ P \cap UpTo(M, r) = (P \cap Over(M, r)) \cup (P \cap Tied(M, r))
          /\ (P \cap Over(M, r)) \cap (P \cap Tied(M, r)) = {}
      BY Classes DEF UpTo
    <3>2. IsFiniteSet(P \cap Over(M, r)) /\ IsFiniteSet(P \cap Tied(M, r))
      BY <1>1, FS_Subset
    <3>3. Cardinality((P \cap Over(M, r)) \cup (P \cap Tied(M, r)))
            = Cardinality(P \cap Over(M, r)) + Cardinality(P \cap Tied(M, r)) - 0
      BY <3>1, <3>2, FS_Union, FS_EmptySet
    <3>4. Cardinality(P \cap Over(M, r)) \in Nat /\ Cardinality(P \cap Tied(M, r)) \in Nat
      BY <3>2, FS_CardinalityType
    <3> QED
      BY <3>1, <3>3, <3>4
  <2>2. Cardinality(P \cap Over(M, r)) = Cut(lo(r), p)
    <3>1. CASE Over(M, r) = {}
      <4>1. P \cap Over(M, r) = {} /\ lo(r) = 0
        BY <3>1, FS_EmptySet
      <4>2. Cut(0, p) = 0
        BY OffsetFacts DEF Cut
      <4> QED
        BY <4>1, <4>2, FS_EmptySet
    <3>2. CASE Over(M, r) # {}
      <4>1. PICK q \in Over(M, r) : Over(M, r) \subseteq UpTo(M, q)
        <5>1. Over(M, r) \in SUBSET M
          BY DEF Over
        <5> QED
          BY <3>2, <5>1, Lowest
      <4>2. q \in M /\ Above(q, r)
        BY <4>1 DEF Over
      <4>3. UpTo(M, q) = Over(M, r) /\ lo(q) < lo(r)
        BY <4>1, <4>2, FewerAbove
      <4>4. good(q)
        BY <4>2, <4>3
      <4> QED
        BY <4>3, <4>4
    <3> QED
      BY <3>1, <3>2
  <2>3. Cut(lo(r), p) \in Nat /\ Cut(hi(r), p) \in Nat
    <3> HIDE DEF lo, hi
    <3> QED
      BY <1>2, OffsetFacts DEF Cut
  <2> QED
    BY <1>3, <2>1, <2>2, <2>3
<1>5. \A r \in M : good(r)
  <2> SUFFICES ASSUME \E r \in M : ~good(r) PROVE FALSE
    OBVIOUS
  <2> DEFINE B == {lo(r) : r \in {q \in M : ~good(q)}}
  <2>1. B \in SUBSET Nat /\ B # {}
    BY <1>2
  <2>2. PICK n \in B : \A m \in B : n <= m
    <3> HIDE DEF B
    <3> QED
      BY <2>1, LeastNumber
  <2>3. PICK r \in M : n = lo(r) /\ ~good(r)
    BY <2>2
  <2>4. \A q \in M : ~good(q) => lo(r) <= lo(q)
    BY <2>2, <2>3
  <2> HIDE DEF good, lo
  <2> QED
    BY <1>2, <1>4, <2>3, <2>4
<1> QED
  BY <1>1, <1>5

(* The length of a page, and the rows that no key ties to another.         *)
LEMMA PageFacts ==
  ASSUME request.keys \in Nat, NEW M \in SUBSET Rows, NEW p \in Nat \ {0}, NEW P \in PagesOf(M, p)
  PROVE  /\ P \subseteq M /\ IsFiniteSet(P) /\ Cardinality(P) \in Nat
         /\ Cardinality(P) = Cut(Cardinality(M), p)
         /\ \A r \in M : Tied(M, r) = {r} =>
              (r \in P <=> /\ Offset(p) <= Cardinality(Over(M, r))
                           /\ Cardinality(Over(M, r)) < Offset(p) + PageSize)
<1>1. P \subseteq M /\ IsFiniteSet(M) /\ IsFiniteSet(P) /\ Cardinality(P) \in Nat
  BY PageShows, RecordsAssumption, FS_Subset, FS_CardinalityType
<1>2. Cardinality(P) = Cut(Cardinality(M), p)
  <2>1. CASE M = {}
    BY <1>1, <2>1, FS_EmptySet, OffsetFacts DEF Cut
  <2>2. CASE M # {}
    <3>1. PICK q \in M : M \subseteq UpTo(M, q)
      BY <2>2, Lowest
    <3>2. UpTo(M, q) = M /\ P \cap M = P
      BY <1>1, <3>1 DEF UpTo, Over, Tied
    <3> QED
      BY <3>2, PageShows
  <2> QED
    BY <2>1, <2>2
<1>3. ASSUME NEW r \in M, Tied(M, r) = {r}
      PROVE  r \in P <=> /\ Offset(p) <= Cardinality(Over(M, r))
                         /\ Cardinality(Over(M, r)) < Offset(p) + PageSize
  <2>1. Cardinality(P \cap {r}) = Share(M, r, p) /\ Cardinality(Over(M, r)) \in Nat
    BY <1>3, Classes DEF PagesOf
  <2>2. Cardinality({r}) = 1 /\ Cardinality({}) = 0
    BY FS_Singleton, FS_EmptySet
  <2>3. P \cap {r} = IF r \in P THEN {r} ELSE {}
    OBVIOUS
  <2>4. Share(M, r, p) = LET lo == Cardinality(Over(M, r))
                             hi == lo + 1
                             from == IF lo < Offset(p) THEN Offset(p) ELSE lo
                             to == IF hi < Offset(p) + PageSize THEN hi ELSE Offset(p) + PageSize
                         IN  IF from < to THEN to - from ELSE 0
    BY <1>3, <2>2 DEF Share, Over
  <2>5. r \in P <=> Share(M, r, p) = 1
    BY <2>1, <2>2, <2>3
  <2>6. Share(M, r, p) = 1 <=> /\ Offset(p) <= Cardinality(Over(M, r))
                               /\ Cardinality(Over(M, r)) < Offset(p) + PageSize
    <3>1. Offset(p) \in Nat /\ PageSize \in Nat \ {0}
      BY OffsetFacts
    <3> QED
      BY <2>1, <2>4, <3>1
  <2> QED
    BY <2>5, <2>6
<1> QED
  BY <1>1, <1>2, <1>3

(***************************************************************************)
(* The queries of a request.                                               *)
(***************************************************************************)

(* Sequences that are written out.                                         *)
LEMMA Spelled ==
  ASSUME NEW S, NEW s \in Seq(S), NEW t \in Seq(S), NEW u \in Seq(S), Len(u) = Len(s) + Len(t),
         \A i \in 1..Len(s) : u[i] = s[i], \A i \in 1..Len(t) : u[Len(s) + i] = t[i]
  PROVE  s \o t = u
<1>1. s \o t \in Seq(S) /\ Len(s \o t) = Len(u)
  OBVIOUS
<1>2. ASSUME NEW i \in 1..Len(u) PROVE (s \o t)[i] = u[i]
  <2>1. CASE i <= Len(s)
    BY <2>1
  <2>2. CASE i > Len(s)
    <3>1. i - Len(s) \in 1..Len(t) /\ Len(s) + (i - Len(s)) = i
      BY <2>2
    <3>2. (s \o t)[i] = t[i - Len(s)]
      BY <2>2
    <3> QED
      BY <3>1, <3>2
  <2> QED
    BY <2>1, <2>2
<1> QED
  BY <1>1, <1>2, SeqEqual

(* Queries followed by those that are left.                                *)
LEMMA Written ==
  /\ \A a, z : <<a>> \o <<z>> = <<a, z>>
  /\ \A a, b, z : <<a, b>> \o <<z>> = <<a, b, z>>
  /\ \A a, b, c, z : <<a, b, c>> \o <<z>> = <<a, b, c, z>>
  /\ \A a, b, c, d, z : <<a, b, c, d>> \o <<z>> = <<a, b, c, d, z>>
  /\ \A a, b, c, d, e, z : <<a, b, c, d, e>> \o <<z>> = <<a, b, c, d, e, z>>
  /\ \A a, b, c, z : <<a>> \o <<b, c, z>> = <<a, b, c, z>>
  /\ \A a, b, c, d, z : <<a, b>> \o <<c, d, z>> = <<a, b, c, d, z>>
<1>1. \A a, z : <<a>> \o <<z>> = <<a, z>>
  <2> TAKE a, z
  <2> DEFINE S == {a, z}
  <2>1. /\ Len(<<a, z>>) = Len(<<a>>) + Len(<<z>>)
        /\ \A i \in 1..Len(<<a>>) : <<a, z>>[i] = <<a>>[i]
        /\ \A i \in 1..Len(<<z>>) : <<a, z>>[Len(<<a>>) + i] = <<z>>[i]
    <3>1. Len(<<a, z>>) = Len(<<a>>) + Len(<<z>>)
      OBVIOUS
    <3>2. \A i \in 1..Len(<<a>>) : <<a, z>>[i] = <<a>>[i]
      OBVIOUS
    <3>3. \A i \in 1..Len(<<z>>) : <<a, z>>[Len(<<a>>) + i] = <<z>>[i]
      OBVIOUS
    <3> QED
      BY <3>1, <3>2, <3>3
  <2>2. <<a>> \in Seq(S) /\ <<z>> \in Seq(S) /\ <<a, z>> \in Seq(S)
    OBVIOUS
  <2> HIDE DEF S
  <2> QED
    BY <2>1, <2>2, Spelled
<1>2. \A a, b, z : <<a, b>> \o <<z>> = <<a, b, z>>
  <2> TAKE a, b, z
  <2> DEFINE S == {a, b, z}
  <2>1. /\ Len(<<a, b, z>>) = Len(<<a, b>>) + Len(<<z>>)
        /\ \A i \in 1..Len(<<a, b>>) : <<a, b, z>>[i] = <<a, b>>[i]
        /\ \A i \in 1..Len(<<z>>) : <<a, b, z>>[Len(<<a, b>>) + i] = <<z>>[i]
    OBVIOUS
  <2>2. <<a, b>> \in Seq(S) /\ <<z>> \in Seq(S) /\ <<a, b, z>> \in Seq(S)
    OBVIOUS
  <2> HIDE DEF S
  <2> QED
    BY <2>1, <2>2, Spelled
<1>3. \A a, b, c, z : <<a, b, c>> \o <<z>> = <<a, b, c, z>>
  <2> TAKE a, b, c, z
  <2> DEFINE S == {a, b, c, z}
  <2>1. /\ Len(<<a, b, c, z>>) = Len(<<a, b, c>>) + Len(<<z>>)
        /\ \A i \in 1..Len(<<a, b, c>>) : <<a, b, c, z>>[i] = <<a, b, c>>[i]
        /\ \A i \in 1..Len(<<z>>) : <<a, b, c, z>>[Len(<<a, b, c>>) + i] = <<z>>[i]
    OBVIOUS
  <2>2. <<a, b, c>> \in Seq(S) /\ <<z>> \in Seq(S) /\ <<a, b, c, z>> \in Seq(S)
    OBVIOUS
  <2> HIDE DEF S
  <2> QED
    BY <2>1, <2>2, Spelled
<1>4. \A a, b, c, d, z : <<a, b, c, d>> \o <<z>> = <<a, b, c, d, z>>
  <2> TAKE a, b, c, d, z
  <2> DEFINE S == {a, b, c, d, z}
  <2>1. /\ Len(<<a, b, c, d, z>>) = Len(<<a, b, c, d>>) + Len(<<z>>)
        /\ \A i \in 1..Len(<<a, b, c, d>>) : <<a, b, c, d, z>>[i] = <<a, b, c, d>>[i]
        /\ \A i \in 1..Len(<<z>>) : <<a, b, c, d, z>>[Len(<<a, b, c, d>>) + i] = <<z>>[i]
    OBVIOUS
  <2>2. <<a, b, c, d>> \in Seq(S) /\ <<z>> \in Seq(S) /\ <<a, b, c, d, z>> \in Seq(S)
    OBVIOUS
  <2> HIDE DEF S
  <2> QED
    BY <2>1, <2>2, Spelled
<1>5. \A a, b, c, d, e, z : <<a, b, c, d, e>> \o <<z>> = <<a, b, c, d, e, z>>
  <2> TAKE a, b, c, d, e, z
  <2> DEFINE S == {a, b, c, d, e, z}
  <2>1. /\ Len(<<a, b, c, d, e, z>>) = Len(<<a, b, c, d, e>>) + Len(<<z>>)
        /\ \A i \in 1..Len(<<a, b, c, d, e>>) : <<a, b, c, d, e, z>>[i] = <<a, b, c, d, e>>[i]
        /\ \A i \in 1..Len(<<z>>) : <<a, b, c, d, e, z>>[Len(<<a, b, c, d, e>>) + i] = <<z>>[i]
    OBVIOUS
  <2>2. <<a, b, c, d, e>> \in Seq(S) /\ <<z>> \in Seq(S) /\ <<a, b, c, d, e, z>> \in Seq(S)
    OBVIOUS
  <2> HIDE DEF S
  <2> QED
    BY <2>1, <2>2, Spelled
<1>6. \A a, b, c, z : <<a>> \o <<b, c, z>> = <<a, b, c, z>>
  <2> TAKE a, b, c, z
  <2> DEFINE S == {a, b, c, z}
  <2>1. /\ Len(<<a, b, c, z>>) = Len(<<a>>) + Len(<<b, c, z>>)
        /\ \A i \in 1..Len(<<a>>) : <<a, b, c, z>>[i] = <<a>>[i]
        /\ \A i \in 1..Len(<<b, c, z>>) : <<a, b, c, z>>[Len(<<a>>) + i] = <<b, c, z>>[i]
    OBVIOUS
  <2>2. <<a>> \in Seq(S) /\ <<b, c, z>> \in Seq(S) /\ <<a, b, c, z>> \in Seq(S)
    OBVIOUS
  <2> HIDE DEF S
  <2> QED
    BY <2>1, <2>2, Spelled
<1>7. \A a, b, c, d, z : <<a, b>> \o <<c, d, z>> = <<a, b, c, d, z>>
  <2> TAKE a, b, c, d, z
  <2> DEFINE S == {a, b, c, d, z}
  <2>1. /\ Len(<<a, b, c, d, z>>) = Len(<<a, b>>) + Len(<<c, d, z>>)
        /\ \A i \in 1..Len(<<a, b>>) : <<a, b, c, d, z>>[i] = <<a, b>>[i]
        /\ \A i \in 1..Len(<<c, d, z>>) : <<a, b, c, d, z>>[Len(<<a, b>>) + i] = <<c, d, z>>[i]
    OBVIOUS
  <2>2. <<a, b>> \in Seq(S) /\ <<c, d, z>> \in Seq(S) /\ <<a, b, c, d, z>> \in Seq(S)
    OBVIOUS
  <2> HIDE DEF S
  <2> QED
    BY <2>1, <2>2, Spelled
<1> QED
  BY <1>1, <1>2, <1>3, <1>4, <1>5, <1>6, <1>7

(* No queries followed by those that are left.                             *)
LEMMA NothingBefore ==
  /\ \A z : <<>> \o <<z>> = <<z>>
  /\ \A y, z : <<>> \o <<y, z>> = <<y, z>>
  /\ \A x, y, z : <<>> \o <<x, y, z>> = <<x, y, z>>
  /\ \A w, x, y, z : <<>> \o <<w, x, y, z>> = <<w, x, y, z>>
OBVIOUS

(* The queries of each list.                                               *)
LEMMA Queries ==
  /\ \A f : TransactionList(f).queries =
              IF f.by = "block" THEN <<"block", "rows">>
              ELSE IF f.by = "address" THEN <<"metadata", "recent", "statistics", "rows">>
              ELSE <<"rows">>
  /\ \A f : TokenTransferList(f).queries =
              IF f.by = "none" THEN <<"estimate", "rows">>
              ELSE <<"metadata", "statistics", "recent", "rows">>
  /\ MainStats.queries = <<"daily", "later", "newest">>
  /\ \A a : AddressTokenTransfers(a).queries = <<"rows", "metadata", "statistics", "recent">>
  /\ \A a : TokenTokenTransfers(a).queries = <<"token", "rows", "metadata", "statistics", "recent">>
<1> USE DEF List, JoinedList
<1>1. <<"block">> \o <<"rows">> = <<"block", "rows">>
  BY Written
<1>2. <<"estimate">> \o <<"rows">> = <<"estimate", "rows">>
  BY Written
<1>3. <<"metadata", "recent", "statistics">> \o <<"rows">> = <<"metadata", "recent", "statistics", "rows">>
  BY Written
<1>4. <<"metadata", "statistics", "recent">> \o <<"rows">> = <<"metadata", "statistics", "recent", "rows">>
  BY Written
<1>5. <<"daily", "later">> \o <<"newest">> = <<"daily", "later", "newest">>
  BY Written
<1>6. <<"rows">> \o <<"metadata", "statistics", "recent">> = <<"rows", "metadata", "statistics", "recent">>
  BY Written
<1>7. <<"token", "rows">> \o <<"metadata", "statistics", "recent">> = <<"token", "rows", "metadata", "statistics", "recent">>
  BY Written
<1>8. <<>> \o <<"rows">> = <<"rows">>
  BY NothingBefore
<1> QED
  BY <1>1, <1>2, <1>3, <1>4, <1>5, <1>6, <1>7, <1>8
     DEF AddressTransactionCnt, TokenTransferCnt, TotalTxnCount,
         TransactionList, TokenTransferList, MainStats, AddressTokenTransfers, TokenTokenTransfers

(* What is known of a request from its rule.                               *)
Shape(q) ==
  /\ q.keys \in 0..3
  /\ q.rule \in {"transactions", "internal", "before", "whole", "detail", "after", "uncached",
                 "address", "count", "shown", "once", "export"}
  /\ q.joins # {} => q.rule \in {"whole", "shown", "export"}
  /\ q.rule = "transactions" =>
       /\ q.table = "Transaction"
       /\ \/ q.filter.by \in {"none", "date"} /\ q.queries = <<"rows">>
          \/ q.filter.by = "block" /\ q.queries = <<"block", "rows">>
          \/ q.filter.by = "address" /\ q.queries = <<"metadata", "recent", "statistics", "rows">>
  /\ q.rule \in {"internal", "address", "count", "shown"} =>
       q.table \notin {"Block", "StateBatch"} /\ q.queries = <<"rows">>
  /\ q.rule = "before" =>
       \/ q = BlockList /\ q.queries = <<"last", "numbers">>
       \/ q = MainStats /\ q.queries = <<"daily", "later", "newest">>
       \/ q.table = "TokenTransfer" /\ q.filter.by = "none" /\ q.queries = <<"estimate", "rows">>
       \/ /\ q.table = "TokenTransfer" /\ q.filter.by = "address"
          /\ q.queries = <<"metadata", "statistics", "recent", "rows">>
  /\ q.rule = "whole" =>
       \/ q.table \notin {"Block", "StateBatch"} /\ q.queries = <<"all">>
       \/ q = StateBatchDetail(q.filter.value) /\ q.filter.value \in Nat /\ q.queries = <<"all", "is_last">>
  /\ q.rule = "detail" =>
       q = BlockDetail(q.filter.value) /\ q.filter.value \in Nat /\ q.queries = <<"all", "earlier", "is_last">>
  /\ q.rule \in {"after", "uncached"} =>
       \/ q.table \notin {"Block", "StateBatch"} /\ q.queries = <<"rows", "count">>
       \/ q.table = "StateBatch" /\ q.filter = Everything /\ q.queries = <<"rows", "index">>
  /\ q.rule = "once" =>
       /\ q.table = "TokenTransfer"
       /\ q.queries \in {<<"rows", "metadata", "statistics", "recent">>,
                         <<"token", "rows", "metadata", "statistics", "recent">>}
  /\ q.rule = "export" =>
       /\ q.table \in {"Transaction", "ContractInternalTransaction", "TokenTransfer"}
       /\ q.filter.by = "address_and_date" /\ q.filter.value[2] \in Nat
       /\ q.queries \in {<<"first_block", "last_block", "range">>,
                         <<"first_block", "last_block", "range", "tokens">>}

(* Every request has a shape: the cases are its endpoints.                 *)
LEMMA Shapes == \A q \in Requests : Shape(q)
<1> SUFFICES ASSUME NEW q \in Requests PROVE Shape(q)
  OBVIOUS
<1> DEFINE f == q.filter
           v == q.filter.value
<1>0. Endpoint(q)
  BY RequestsAssumption
<1>1. CASE q = TransactionList(f) /\ f \in {Everything, OfAddress(v), OfBlock(v), OfDay(v)}
  <2>1. /\ q.table = "Transaction"
        /\ q.rule = "transactions"
        /\ q.keys = 2
        /\ q.joins = {}
        /\ f.by \in {"none", "address", "block", "date"}
        /\ q.queries = TransactionList(f).queries
    BY <1>1 DEF TransactionList, Everything, OfAddress, OfBlock, OfDay, List, JoinedList
  <2>2. \/ f.by \in {"none", "date"} /\ q.queries = <<"rows">>
        \/ f.by = "block" /\ q.queries = <<"block", "rows">>
        \/ f.by = "address" /\ q.queries = <<"metadata", "recent", "statistics", "rows">>
    BY <2>1, Queries
  <2> QED
    BY <2>1, <2>2 DEF Shape
<1>2. CASE q = InternalTransactionList(f)
  <2>1. /\ q.table = "ContractInternalTransaction"
        /\ q.rule = "internal"
        /\ q.keys = 2
        /\ q.joins = {}
        /\ q.queries = <<"rows">>
    BY <1>2 DEF InternalTransactionList, List, JoinedList
  <2> QED
    BY <1>2, <2>1 DEF Shape
<1>3. CASE q = TokenTransferList(f) /\ f \in {Everything, OfAddress(v)}
  <2>1. /\ q.table = "TokenTransfer"
        /\ q.rule = "before"
        /\ q.keys = 3
        /\ q.joins = {}
        /\ f.by \in {"none", "address"}
        /\ q.queries = TokenTransferList(f).queries
    BY <1>3 DEF TokenTransferList, Everything, OfAddress, List, JoinedList
  <2>2. \/ f.by = "none" /\ q.queries = <<"estimate", "rows">>
        \/ f.by = "address" /\ q.queries = <<"metadata", "statistics", "recent", "rows">>
    BY <2>1, Queries
  <2> QED
    BY <2>1, <2>2 DEF Shape
<1>4. CASE q = BlockList
  <2>1. /\ q.rule = "before"
        /\ q.keys = 1
        /\ q.joins = {}
        /\ q.queries = <<"last", "numbers">>
    BY <1>4 DEF BlockList, List, JoinedList
  <2> QED
    BY <1>4, <2>1 DEF Shape
<1>5. CASE q = MainStats
  <2>1. /\ q.rule = "before"
        /\ q.keys = 2
        /\ q.joins = {}
        /\ q.queries = MainStats.queries
    BY <1>5 DEF MainStats, List, JoinedList
  <2> QED
    BY <1>5, <2>1, Queries DEF Shape
<1>6. CASE q = TokenList
  <2>1. /\ q.table = "Token"
        /\ q.rule = "after"
        /\ q.keys = 0
        /\ q.joins = {}
        /\ q.queries = <<"rows", "count">>
    BY <1>6 DEF TokenList, List, JoinedList
  <2> QED
    BY <1>6, <2>1 DEF Shape
<1>7. CASE q = DABatches
  <2>1. /\ q.table = "DATransaction"
        /\ q.rule = "uncached"
        /\ q.keys = 2
        /\ q.joins = {}
        /\ q.queries = <<"rows", "count">>
    BY <1>7 DEF DABatches, List, JoinedList
  <2> QED
    BY <1>7, <2>1 DEF Shape
<1>8. CASE q = StateBatches
  <2>1. /\ q.table = "StateBatch"
        /\ q.rule = "after"
        /\ q.keys = 2
        /\ q.joins = {}
        /\ f = Everything
        /\ q.queries = <<"rows", "index">>
    BY <1>8 DEF StateBatches, List, JoinedList
  <2> QED
    BY <1>8, <2>1 DEF Shape
<1>9. CASE q \in {TransactionDetail(v), TransactionTraces(v), TransactionInternals(v)}
  <2>1. /\ q.table \notin {"Block", "StateBatch"}
        /\ q.rule = "whole"
        /\ q.keys \in 0..3
        /\ q.joins = {}
        /\ q.queries = <<"all">>
    BY <1>9 DEF TransactionDetail, TransactionTraces, TransactionInternals, List, JoinedList
  <2> QED
    BY <1>9, <2>1 DEF Shape
<1>10. CASE q \in {TransactionLogs(v), TransactionTokenTransfers(v)}
  <2>1. /\ q.table \notin {"Block", "StateBatch"}
        /\ q.rule = "whole"
        /\ q.keys = 0
        /\ q.queries = <<"all">>
    BY <1>10 DEF TransactionLogs, TransactionTokenTransfers, List, JoinedList
  <2> QED
    BY <1>10, <2>1 DEF Shape
<1>11. CASE q = BlockDetail(v) /\ v \in Nat
  <2>1. /\ q.rule = "detail"
        /\ q.keys = 1
        /\ q.joins = {}
        /\ q.queries = <<"all", "earlier", "is_last">>
    BY <1>11 DEF BlockDetail, List, JoinedList
  <2> QED
    BY <1>11, <2>1 DEF Shape
<1>12. CASE q = StateBatchDetail(v) /\ v \in Nat
  <2>1. /\ q.rule = "whole"
        /\ q.keys = 2
        /\ q.joins = {}
        /\ q.queries = <<"all", "is_last">>
    BY <1>12 DEF StateBatchDetail, List, JoinedList
  <2> QED
    BY <1>12, <2>1 DEF Shape
<1>13. CASE q = AddressTransactions(v)
  <2>1. /\ q.table = "Transaction"
        /\ q.rule = "address"
        /\ q.keys = 2
        /\ q.joins = {}
        /\ q.queries = <<"rows">>
    BY <1>13 DEF AddressTransactions, List, JoinedList
  <2> QED
    BY <1>13, <2>1 DEF Shape
<1>14. CASE q = AddressInternals(v)
  <2>1. /\ q.table = "ContractInternalTransaction"
        /\ q.rule = "count"
        /\ q.keys = 2
        /\ q.joins = {}
        /\ q.queries = <<"rows">>
    BY <1>14 DEF AddressInternals, List, JoinedList
  <2> QED
    BY <1>14, <2>1 DEF Shape
<1>15. CASE q = AddressLogs(v)
  <2>1. /\ q.table = "Log"
        /\ q.rule = "shown"
        /\ q.keys = 0
        /\ q.queries = <<"rows">>
    BY <1>15 DEF AddressLogs, List, JoinedList
  <2> QED
    BY <1>15, <2>1 DEF Shape
<1>16. CASE q \in {AddressTokenTransfers(v), TokenTokenTransfers(v)}
  <2>1. /\ q.table = "TokenTransfer"
        /\ q.rule = "once"
        /\ q.keys = 3
        /\ q.joins = {}
        /\ q.queries \in {AddressTokenTransfers(v).queries, TokenTokenTransfers(v).queries}
    BY <1>16 DEF AddressTokenTransfers, TokenTokenTransfers, List, JoinedList
  <2>2. q.queries \in {<<"rows", "metadata", "statistics", "recent">>,
                        <<"token", "rows", "metadata", "statistics", "recent">>}
    BY <2>1, Queries
  <2> QED
    BY <2>1, <2>2 DEF Shape
<1>17. CASE q \in {Deposits(f), Withdrawals(f)}
  <2>1. /\ q.table \notin {"Block", "StateBatch"}
        /\ q.rule = "after"
        /\ q.keys = 1
        /\ q.joins = {}
        /\ q.queries = <<"rows", "count">>
    BY <1>17 DEF Deposits, Withdrawals, List, JoinedList
  <2> QED
    BY <1>17, <2>1 DEF Shape
<1>18. CASE f.by = "address_and_date" /\ v[2] \in Nat
            /\ q \in {Export("Transaction", v[1], v[2]), Export("ContractInternalTransaction", v[1], v[2])}
  <2>1. /\ q.table \in {"Transaction", "ContractInternalTransaction"}
        /\ q.rule = "export"
        /\ q.keys = 2
        /\ q.queries = <<"first_block", "last_block", "range">>
    BY <1>18 DEF Export, List, JoinedList
  <2> QED
    BY <1>18, <2>1 DEF Shape
<1>19. CASE f.by = "address_and_date" /\ v[2] \in Nat /\ q = ExportTransfers(v[1], v[2])
  <2>1. /\ q.table = "TokenTransfer"
        /\ q.rule = "export"
        /\ q.keys = 1
        /\ q.queries = <<"first_block", "last_block", "range", "tokens">>
    BY <1>19 DEF ExportTransfers, List, JoinedList
  <2> QED
    BY <1>19, <2>1 DEF Shape
<1> QED
  BY <1>0, <1>1, <1>2, <1>3, <1>4, <1>5, <1>6, <1>7, <1>8, <1>9, <1>10, <1>11, <1>12, <1>13, <1>14, <1>15, <1>16, <1>17, <1>18, <1>19
     DEF Endpoint

(***************************************************************************)
(* The queries that may be left.                                           *)
(***************************************************************************)
Counting == {<<"metadata", "recent", "statistics", "answer">>, <<"recent", "statistics", "answer">>,
             <<"statistics", "answer">>}
CountingFirst ==
  {<<"metadata", "recent", "statistics", "rows", "answer">>, <<"recent", "statistics", "rows", "answer">>,
   <<"statistics", "rows", "answer">>}
CountingTransfers ==
  {<<"metadata", "statistics", "recent", "answer">>, <<"statistics", "recent", "answer">>,
   <<"recent", "answer">>}
CountingTransfersFirst ==
  {<<"metadata", "statistics", "recent", "rows", "answer">>, <<"statistics", "recent", "rows", "answer">>,
   <<"recent", "rows", "answer">>}
CountingAll == {<<"daily", "later", "answer">>, <<"later", "answer">>}

TransactionsLeft(q, t) ==
  \/ t \in {<<"rows", "answer">>, <<"shown", "answer">>, <<"count", "answer">>} \cup CountingAll
  \/ q.filter.by = "block" /\ t = <<"block", "rows", "answer">>
  \/ q.filter.by = "address" /\ t \in CountingFirst
InternalLeft(t) ==
  t \in {<<"rows", "answer">>, <<"shown", "answer">>, <<"count", "answer">>, <<"estimate", "answer">>}
BlocksLeft(t) == t \in {<<"last", "numbers", "answer">>, <<"numbers", "answer">>}
StatsLeft(t) ==
  t \in {<<"daily", "later", "newest", "answer">>, <<"later", "newest", "answer">>,
         <<"newest", "answer">>}
TransfersLeft(q, t) ==
  \/ t = <<"rows", "answer">>
  \/ q.filter.by = "none" /\ t = <<"estimate", "rows", "answer">>
  \/ q.filter.by = "address" /\ t \in CountingTransfersFirst
WholeLeft(q, t) ==
  \/ q.table # "StateBatch" /\ t = <<"all", "answer">>
  \/ q.table = "StateBatch" /\ t \in {<<"all", "is_last", "answer">>, <<"is_last", "answer">>}
DetailLeft(t) ==
  t \in {<<"all", "earlier", "is_last", "answer">>, <<"earlier", "is_last", "answer">>,
         <<"is_last", "answer">>}
AfterLeft(q, t) ==
  \/ q.table # "StateBatch" /\ t \in {<<"rows", "count", "answer">>, <<"count", "answer">>}
  \/ q.table = "StateBatch" /\ t \in {<<"rows", "index", "answer">>, <<"index", "answer">>}
AddressLeft(t) == t \in {<<"rows", "answer">>, <<"shown", "answer">>} \cup Counting
CountLeft(t) == t \in {<<"rows", "answer">>, <<"shown", "answer">>, <<"count", "answer">>}
ShownLeft(t) == t \in {<<"rows", "answer">>, <<"shown", "answer">>}
OnceLeft(t) ==
  \/ t \in CountingTransfers
  \/ t = <<"rows", "metadata", "statistics", "recent", "answer">>
  \/ t = <<"token", "rows", "metadata", "statistics", "recent", "answer">>
ExportLeft(t) ==
  t \in {<<"first_block", "last_block", "range", "answer">>, <<"last_block", "range", "answer">>,
         <<"range", "answer">>, <<"first_block", "last_block", "range", "tokens", "answer">>,
         <<"last_block", "range", "tokens", "answer">>, <<"range", "tokens", "answer">>,
         <<"tokens", "answer">>}

OnTrack(q, t) ==
  \/ t \in {<<>>, <<"answer">>}
  \/ q.rule = "transactions" /\ TransactionsLeft(q, t)
  \/ q.rule = "internal" /\ InternalLeft(t)
  \/ q.rule = "before" /\ q.table = "Block" /\ BlocksLeft(t)
  \/ q.rule = "before" /\ q.table = "Transaction" /\ StatsLeft(t)
  \/ q.rule = "before" /\ q.table = "TokenTransfer" /\ TransfersLeft(q, t)
  \/ q.rule = "whole" /\ WholeLeft(q, t)
  \/ q.rule = "detail" /\ DetailLeft(t)
  \/ q.rule \in {"after", "uncached"} /\ AfterLeft(q, t)
  \/ q.rule = "address" /\ AddressLeft(t)
  \/ q.rule = "count" /\ CountLeft(t)
  \/ q.rule = "shown" /\ ShownLeft(t)
  \/ q.rule = "once" /\ OnceLeft(t)
  \/ q.rule = "export" /\ ExportLeft(t)

(* A request starts on its track.                                          *)
LEMMA StartsOnTrack ==
  \A q \in Requests : q.queries \o <<"answer">> # <<>> /\ OnTrack(q, q.queries \o <<"answer">>)
<1> SUFFICES ASSUME NEW q \in Requests, NEW t, t = q.queries \o <<"answer">>
             PROVE  t # <<>> /\ OnTrack(q, t)
  OBVIOUS
<1>0. Shape(q)
  BY Shapes
<1>1. CASE q.rule = "transactions"
  <2>1. q.queries = <<"rows">> => t = <<"rows", "answer">>
    BY Written
  <2>2. q.queries = <<"block", "rows">> => t = <<"block", "rows", "answer">>
    BY Written
  <2>3. q.queries = <<"metadata", "recent", "statistics", "rows">> => t = <<"metadata", "recent", "statistics", "rows", "answer">>
    BY Written
  <2> QED
    BY <1>0, <1>1, <2>1, <2>2, <2>3
       DEF Shape, OnTrack, CountingFirst, CountingTransfersFirst, TransactionsLeft,
           InternalLeft, BlocksLeft, StatsLeft, TransfersLeft, WholeLeft, DetailLeft, AfterLeft,
           AddressLeft, CountLeft, ShownLeft, OnceLeft, ExportLeft
<1>2. CASE q.rule \in {"internal", "address", "count", "shown"}
  <2>1. q.queries = <<"rows">> => t = <<"rows", "answer">>
    BY Written
  <2> QED
    BY <1>0, <1>2, <2>1
       DEF Shape, OnTrack, CountingFirst, CountingTransfersFirst, TransactionsLeft,
           InternalLeft, BlocksLeft, StatsLeft, TransfersLeft, WholeLeft, DetailLeft, AfterLeft,
           AddressLeft, CountLeft, ShownLeft, OnceLeft, ExportLeft
<1>3. CASE q.rule = "before"
  <2>1. q.queries = <<"last", "numbers">> => t = <<"last", "numbers", "answer">>
    BY Written
  <2>2. q.queries = <<"daily", "later", "newest">> => t = <<"daily", "later", "newest", "answer">>
    BY Written
  <2>3. q.queries = <<"estimate", "rows">> => t = <<"estimate", "rows", "answer">>
    BY Written
  <2>4. q.queries = <<"metadata", "statistics", "recent", "rows">> => t = <<"metadata", "statistics", "recent", "rows", "answer">>
    BY Written
  <2>5. /\ q = BlockList => q.table = "Block"
        /\ q = MainStats => q.table = "Transaction"
    BY DEF BlockList, MainStats, List, JoinedList
  <2> QED
    BY <1>0, <1>3, <2>1, <2>2, <2>3, <2>4, <2>5
       DEF Shape, OnTrack, CountingFirst, CountingTransfersFirst, TransactionsLeft,
           InternalLeft, BlocksLeft, StatsLeft, TransfersLeft, WholeLeft, DetailLeft, AfterLeft,
           AddressLeft, CountLeft, ShownLeft, OnceLeft, ExportLeft
<1>4. CASE q.rule \in {"whole", "detail"}
  <2>1. q.queries = <<"all">> => t = <<"all", "answer">>
    BY Written
  <2>2. q.queries = <<"all", "is_last">> => t = <<"all", "is_last", "answer">>
    BY Written
  <2>3. q.queries = <<"all", "earlier", "is_last">> => t = <<"all", "earlier", "is_last", "answer">>
    BY Written
  <2>4. /\ q = StateBatchDetail(q.filter.value) => q.table = "StateBatch"
    BY DEF StateBatchDetail, List, JoinedList
  <2> QED
    BY <1>0, <1>4, <2>1, <2>2, <2>3, <2>4
       DEF Shape, OnTrack, CountingFirst, CountingTransfersFirst, TransactionsLeft,
           InternalLeft, BlocksLeft, StatsLeft, TransfersLeft, WholeLeft, DetailLeft, AfterLeft,
           AddressLeft, CountLeft, ShownLeft, OnceLeft, ExportLeft
<1>5. CASE q.rule \in {"after", "uncached"}
  <2>1. q.queries = <<"rows", "count">> => t = <<"rows", "count", "answer">>
    BY Written
  <2>2. q.queries = <<"rows", "index">> => t = <<"rows", "index", "answer">>
    BY Written
  <2> QED
    BY <1>0, <1>5, <2>1, <2>2
       DEF Shape, OnTrack, CountingFirst, CountingTransfersFirst, TransactionsLeft,
           InternalLeft, BlocksLeft, StatsLeft, TransfersLeft, WholeLeft, DetailLeft, AfterLeft,
           AddressLeft, CountLeft, ShownLeft, OnceLeft, ExportLeft
<1>6. CASE q.rule = "once"
  <2>1. q.queries = <<"rows", "metadata", "statistics", "recent">> => t = <<"rows", "metadata", "statistics", "recent", "answer">>
    BY Written
  <2>2. q.queries = <<"token", "rows", "metadata", "statistics", "recent">> => t = <<"token", "rows", "metadata", "statistics", "recent", "answer">>
    BY Written
  <2> QED
    BY <1>0, <1>6, <2>1, <2>2
       DEF Shape, OnTrack, CountingFirst, CountingTransfersFirst, TransactionsLeft,
           InternalLeft, BlocksLeft, StatsLeft, TransfersLeft, WholeLeft, DetailLeft, AfterLeft,
           AddressLeft, CountLeft, ShownLeft, OnceLeft, ExportLeft
<1>7. CASE q.rule = "export"
  <2>1. q.queries = <<"first_block", "last_block", "range">> => t = <<"first_block", "last_block", "range", "answer">>
    BY Written
  <2>2. q.queries = <<"first_block", "last_block", "range", "tokens">> => t = <<"first_block", "last_block", "range", "tokens", "answer">>
    BY Written
  <2> QED
    BY <1>0, <1>7, <2>1, <2>2
       DEF Shape, OnTrack, CountingFirst, CountingTransfersFirst, TransactionsLeft,
           InternalLeft, BlocksLeft, StatsLeft, TransfersLeft, WholeLeft, DetailLeft, AfterLeft,
           AddressLeft, CountLeft, ShownLeft, OnceLeft, ExportLeft
<1> QED
  BY <1>0, <1>1, <1>2, <1>3, <1>4, <1>5, <1>6, <1>7 DEF Shape

(* And stays on it, query by query.                                        *)
LEMMA StaysOnTrack ==
  ASSUME NEW q, NEW t, OnTrack(q, t), t # <<>>, Head(t) # "rows", Head(t) # "answer"
  PROVE  OnTrack(q, Tail(t)) /\ Tail(t) # <<>>
<1>1. CASE q.rule = "transactions" /\ TransactionsLeft(q, t)
  <2>1. (TransactionsLeft(q, Tail(t)) \/ Tail(t) = <<"answer">>) /\ Tail(t) # <<>>
    <3> USE DEF TransactionsLeft, CountingAll, CountingFirst
    <3>1. CASE t = <<"rows", "answer">>
      BY <1>1, <3>1
    <3>2. CASE t = <<"shown", "answer">>
      BY <1>1, <3>2
    <3>3. CASE t = <<"count", "answer">>
      BY <1>1, <3>3
    <3>4. CASE t = <<"block", "rows", "answer">>
      BY <1>1, <3>4
    <3>5. CASE t = <<"daily", "later", "answer">>
      BY <1>1, <3>5
    <3>6. CASE t = <<"later", "answer">>
      BY <1>1, <3>6
    <3>7. CASE t = <<"metadata", "recent", "statistics", "rows", "answer">>
      BY <1>1, <3>7
    <3>8. CASE t = <<"recent", "statistics", "rows", "answer">>
      BY <1>1, <3>8
    <3>9. CASE t = <<"statistics", "rows", "answer">>
      BY <1>1, <3>9
    <3> QED
      BY <1>1, <3>1, <3>2, <3>3, <3>4, <3>5, <3>6, <3>7, <3>8, <3>9
  <2> QED
    BY <1>1, <2>1 DEF OnTrack
<1>2. CASE q.rule = "internal" /\ InternalLeft(t)
  <2>1. (InternalLeft(Tail(t)) \/ Tail(t) = <<"answer">>) /\ Tail(t) # <<>>
    <3> USE DEF InternalLeft
    <3>1. CASE t = <<"rows", "answer">>
      BY <1>2, <3>1
    <3>2. CASE t = <<"shown", "answer">>
      BY <1>2, <3>2
    <3>3. CASE t = <<"count", "answer">>
      BY <1>2, <3>3
    <3>4. CASE t = <<"estimate", "answer">>
      BY <1>2, <3>4
    <3> QED
      BY <1>2, <3>1, <3>2, <3>3, <3>4
  <2> QED
    BY <1>2, <2>1 DEF OnTrack
<1>3. CASE q.rule = "before" /\ q.table = "Block" /\ BlocksLeft(t)
  <2>1. (BlocksLeft(Tail(t)) \/ Tail(t) = <<"answer">>) /\ Tail(t) # <<>>
    <3> USE DEF BlocksLeft
    <3>1. CASE t = <<"last", "numbers", "answer">>
      BY <1>3, <3>1
    <3>2. CASE t = <<"numbers", "answer">>
      BY <1>3, <3>2
    <3> QED
      BY <1>3, <3>1, <3>2
  <2> QED
    BY <1>3, <2>1 DEF OnTrack
<1>4. CASE q.rule = "before" /\ q.table = "Transaction" /\ StatsLeft(t)
  <2>1. (StatsLeft(Tail(t)) \/ Tail(t) = <<"answer">>) /\ Tail(t) # <<>>
    <3> USE DEF StatsLeft
    <3>1. CASE t = <<"daily", "later", "newest", "answer">>
      BY <1>4, <3>1
    <3>2. CASE t = <<"later", "newest", "answer">>
      BY <1>4, <3>2
    <3>3. CASE t = <<"newest", "answer">>
      BY <1>4, <3>3
    <3> QED
      BY <1>4, <3>1, <3>2, <3>3
  <2> QED
    BY <1>4, <2>1 DEF OnTrack
<1>5. CASE q.rule = "before" /\ q.table = "TokenTransfer" /\ TransfersLeft(q, t)
  <2>1. (TransfersLeft(q, Tail(t)) \/ Tail(t) = <<"answer">>) /\ Tail(t) # <<>>
    <3> USE DEF TransfersLeft, CountingTransfersFirst
    <3>1. CASE t = <<"rows", "answer">>
      BY <1>5, <3>1
    <3>2. CASE t = <<"estimate", "rows", "answer">>
      BY <1>5, <3>2
    <3>3. CASE t = <<"metadata", "statistics", "recent", "rows", "answer">>
      BY <1>5, <3>3
    <3>4. CASE t = <<"statistics", "recent", "rows", "answer">>
      BY <1>5, <3>4
    <3>5. CASE t = <<"recent", "rows", "answer">>
      BY <1>5, <3>5
    <3> QED
      BY <1>5, <3>1, <3>2, <3>3, <3>4, <3>5
  <2> QED
    BY <1>5, <2>1 DEF OnTrack
<1>6. CASE q.rule = "whole" /\ WholeLeft(q, t)
  <2>1. (WholeLeft(q, Tail(t)) \/ Tail(t) = <<"answer">>) /\ Tail(t) # <<>>
    <3> USE DEF WholeLeft
    <3>1. CASE t = <<"all", "answer">>
      BY <1>6, <3>1
    <3>2. CASE t = <<"all", "is_last", "answer">>
      BY <1>6, <3>2
    <3>3. CASE t = <<"is_last", "answer">>
      BY <1>6, <3>3
    <3> QED
      BY <1>6, <3>1, <3>2, <3>3
  <2> QED
    BY <1>6, <2>1 DEF OnTrack
<1>7. CASE q.rule = "detail" /\ DetailLeft(t)
  <2>1. (DetailLeft(Tail(t)) \/ Tail(t) = <<"answer">>) /\ Tail(t) # <<>>
    <3> USE DEF DetailLeft
    <3>1. CASE t = <<"all", "earlier", "is_last", "answer">>
      BY <1>7, <3>1
    <3>2. CASE t = <<"earlier", "is_last", "answer">>
      BY <1>7, <3>2
    <3>3. CASE t = <<"is_last", "answer">>
      BY <1>7, <3>3
    <3> QED
      BY <1>7, <3>1, <3>2, <3>3
  <2> QED
    BY <1>7, <2>1 DEF OnTrack
<1>8. CASE q.rule \in {"after", "uncached"} /\ AfterLeft(q, t)
  <2>1. (AfterLeft(q, Tail(t)) \/ Tail(t) = <<"answer">>) /\ Tail(t) # <<>>
    <3> USE DEF AfterLeft
    <3>1. CASE t = <<"rows", "count", "answer">>
      BY <1>8, <3>1
    <3>2. CASE t = <<"count", "answer">>
      BY <1>8, <3>2
    <3>3. CASE t = <<"rows", "index", "answer">>
      BY <1>8, <3>3
    <3>4. CASE t = <<"index", "answer">>
      BY <1>8, <3>4
    <3> QED
      BY <1>8, <3>1, <3>2, <3>3, <3>4
  <2> QED
    BY <1>8, <2>1 DEF OnTrack
<1>9. CASE q.rule = "address" /\ AddressLeft(t)
  <2>1. (AddressLeft(Tail(t)) \/ Tail(t) = <<"answer">>) /\ Tail(t) # <<>>
    <3> USE DEF AddressLeft, Counting
    <3>1. CASE t = <<"rows", "answer">>
      BY <1>9, <3>1
    <3>2. CASE t = <<"shown", "answer">>
      BY <1>9, <3>2
    <3>3. CASE t = <<"metadata", "recent", "statistics", "answer">>
      BY <1>9, <3>3
    <3>4. CASE t = <<"recent", "statistics", "answer">>
      BY <1>9, <3>4
    <3>5. CASE t = <<"statistics", "answer">>
      BY <1>9, <3>5
    <3> QED
      BY <1>9, <3>1, <3>2, <3>3, <3>4, <3>5
  <2> QED
    BY <1>9, <2>1 DEF OnTrack
<1>10. CASE q.rule = "count" /\ CountLeft(t)
  <2>1. (CountLeft(Tail(t)) \/ Tail(t) = <<"answer">>) /\ Tail(t) # <<>>
    <3> USE DEF CountLeft
    <3>1. CASE t = <<"rows", "answer">>
      BY <1>10, <3>1
    <3>2. CASE t = <<"shown", "answer">>
      BY <1>10, <3>2
    <3>3. CASE t = <<"count", "answer">>
      BY <1>10, <3>3
    <3> QED
      BY <1>10, <3>1, <3>2, <3>3
  <2> QED
    BY <1>10, <2>1 DEF OnTrack
<1>11. CASE q.rule = "shown" /\ ShownLeft(t)
  <2>1. (ShownLeft(Tail(t)) \/ Tail(t) = <<"answer">>) /\ Tail(t) # <<>>
    <3> USE DEF ShownLeft
    <3>1. CASE t = <<"rows", "answer">>
      BY <1>11, <3>1
    <3>2. CASE t = <<"shown", "answer">>
      BY <1>11, <3>2
    <3> QED
      BY <1>11, <3>1, <3>2
  <2> QED
    BY <1>11, <2>1 DEF OnTrack
<1>12. CASE q.rule = "once" /\ OnceLeft(t)
  <2>1. (OnceLeft(Tail(t)) \/ Tail(t) = <<"answer">>) /\ Tail(t) # <<>>
    <3> USE DEF OnceLeft, CountingTransfers
    <3>1. CASE t = <<"rows", "metadata", "statistics", "recent", "answer">>
      BY <1>12, <3>1
    <3>2. CASE t = <<"token", "rows", "metadata", "statistics", "recent", "answer">>
      BY <1>12, <3>2
    <3>3. CASE t = <<"metadata", "statistics", "recent", "answer">>
      BY <1>12, <3>3
    <3>4. CASE t = <<"statistics", "recent", "answer">>
      BY <1>12, <3>4
    <3>5. CASE t = <<"recent", "answer">>
      BY <1>12, <3>5
    <3> QED
      BY <1>12, <3>1, <3>2, <3>3, <3>4, <3>5
  <2> QED
    BY <1>12, <2>1 DEF OnTrack
<1>13. CASE q.rule = "export" /\ ExportLeft(t)
  <2>1. (ExportLeft(Tail(t)) \/ Tail(t) = <<"answer">>) /\ Tail(t) # <<>>
    <3> USE DEF ExportLeft
    <3>1. CASE t = <<"first_block", "last_block", "range", "answer">>
      BY <1>13, <3>1
    <3>2. CASE t = <<"last_block", "range", "answer">>
      BY <1>13, <3>2
    <3>3. CASE t = <<"range", "answer">>
      BY <1>13, <3>3
    <3>4. CASE t = <<"first_block", "last_block", "range", "tokens", "answer">>
      BY <1>13, <3>4
    <3>5. CASE t = <<"last_block", "range", "tokens", "answer">>
      BY <1>13, <3>5
    <3>6. CASE t = <<"range", "tokens", "answer">>
      BY <1>13, <3>6
    <3>7. CASE t = <<"tokens", "answer">>
      BY <1>13, <3>7
    <3> QED
      BY <1>13, <3>1, <3>2, <3>3, <3>4, <3>5, <3>6, <3>7
  <2> QED
    BY <1>13, <2>1 DEF OnTrack
<1>14. t # <<"answer">>
  OBVIOUS
<1> QED
  BY <1>1, <1>2, <1>3, <1>4, <1>5, <1>6, <1>7, <1>8, <1>9, <1>10, <1>11, <1>12, <1>13, <1>14 DEF OnTrack

(* What comes after the rows.                                              *)
LEMMA RestIs ==
  ASSUME NEW P, NEW total
  PROVE  /\ request.rule = "transactions" =>
              Rest(P, total) \in {<<>>, <<"shown">>, <<"count">>, <<"daily", "later">>}
         /\ request.rule = "internal" => Rest(P, total) \in {<<"shown">>, <<"count">>, <<"estimate">>}
         /\ request.rule = "address" =>
              Rest(P, total) \in {<<"shown">>, <<"metadata", "recent", "statistics">>}
         /\ request.rule = "count" => Rest(P, total) \in {<<"shown">>, <<"count">>}
         /\ request.rule = "shown" => Rest(P, total) = <<"shown">>
         /\ request.rule \in {"before", "after", "uncached", "once"} => Rest(P, total) = <<>>
<1>1. CASE request.rule = "transactions"
  BY <1>1 DEF Rest, TransactionsRest, TotalTxnCount
<1>2. CASE request.rule = "internal"
  BY <1>2 DEF Rest, InternalRest
<1>3. CASE request.rule = "address"
  BY <1>3 DEF Rest, AddressRest, AddressTransactionCnt
<1>4. CASE request.rule = "count"
  BY <1>4 DEF Rest, InternalsRest
<1>5. CASE request.rule = "shown"
  BY <1>5 DEF Rest
<1>6. CASE request.rule \in {"before", "after", "uncached", "once"}
  BY <1>6 DEF Rest
<1> QED
  BY <1>1, <1>2, <1>3, <1>4, <1>5, <1>6

(* The rows are asked for in these places.                                 *)
LEMMA RowsThen ==
  ASSUME OnTrack(request, todo), Query("rows")
  PROVE  /\ request.rule \in {"transactions", "internal", "address", "count", "shown", "before",
                              "after", "uncached", "once"}
         /\ request.rule \in {"transactions", "internal", "address", "count", "shown", "before"} =>
              Tail(todo) = <<"answer">>
         /\ request.rule \in {"after", "uncached"} =>
              \/ request.table # "StateBatch" /\ Tail(todo) = <<"count", "answer">>
              \/ request.table = "StateBatch" /\ Tail(todo) = <<"index", "answer">>
         /\ request.rule = "once" => Tail(todo) = <<"metadata", "statistics", "recent", "answer">>
<1>1. todo # <<>> /\ Head(todo) = "rows"
  BY DEF Query
<1>2. CASE todo = <<"rows", "answer">>
  <2>1. Tail(todo) = <<"answer">>
    BY <1>2
  <2>2. request.rule \in {"transactions", "internal", "address", "count", "shown", "before"}
    BY <1>2 DEF OnTrack, Counting, CountingFirst, CountingTransfers, CountingTransfersFirst, CountingAll,
       TransactionsLeft, InternalLeft, BlocksLeft, StatsLeft,
       TransfersLeft, WholeLeft, DetailLeft, AfterLeft, AddressLeft, CountLeft, ShownLeft, OnceLeft, ExportLeft
  <2> QED
    BY <2>1, <2>2
<1>3. CASE todo = <<"rows", "count", "answer">>
  <2>1. Tail(todo) = <<"count", "answer">>
    BY <1>3
  <2>2. request.rule \in {"after", "uncached"} /\ request.table # "StateBatch"
    BY <1>3 DEF OnTrack, Counting, CountingFirst, CountingTransfers, CountingTransfersFirst, CountingAll,
       TransactionsLeft, InternalLeft, BlocksLeft, StatsLeft,
       TransfersLeft, WholeLeft, DetailLeft, AfterLeft, AddressLeft, CountLeft, ShownLeft, OnceLeft, ExportLeft
  <2> QED
    BY <2>1, <2>2
<1>4. CASE todo = <<"rows", "index", "answer">>
  <2>1. Tail(todo) = <<"index", "answer">>
    BY <1>4
  <2>2. request.rule \in {"after", "uncached"} /\ request.table = "StateBatch"
    BY <1>4 DEF OnTrack, Counting, CountingFirst, CountingTransfers, CountingTransfersFirst, CountingAll,
       TransactionsLeft, InternalLeft, BlocksLeft, StatsLeft,
       TransfersLeft, WholeLeft, DetailLeft, AfterLeft, AddressLeft, CountLeft, ShownLeft, OnceLeft, ExportLeft
  <2> QED
    BY <2>1, <2>2
<1>5. CASE todo = <<"rows", "metadata", "statistics", "recent", "answer">>
  <2>1. Tail(todo) = <<"metadata", "statistics", "recent", "answer">>
    BY <1>5
  <2>2. request.rule = "once"
    BY <1>5 DEF OnTrack, Counting, CountingFirst, CountingTransfers, CountingTransfersFirst, CountingAll,
       TransactionsLeft, InternalLeft, BlocksLeft, StatsLeft,
       TransfersLeft, WholeLeft, DetailLeft, AfterLeft, AddressLeft, CountLeft, ShownLeft, OnceLeft, ExportLeft
  <2> QED
    BY <2>1, <2>2
<1>6. todo \in {<<"rows", "answer">>, <<"rows", "count", "answer">>, <<"rows", "index", "answer">>,
                <<"rows", "metadata", "statistics", "recent", "answer">>}
  <2>1. CASE TransactionsLeft(request, todo)
    <3>1. todo # <<"shown", "answer">>
      BY <1>1
    <3>2. todo # <<"count", "answer">>
      BY <1>1
    <3>3. todo # <<"block", "rows", "answer">>
      BY <1>1
    <3>4. todo # <<"daily", "later", "answer">>
      BY <1>1
    <3>5. todo # <<"later", "answer">>
      BY <1>1
    <3>6. todo # <<"metadata", "recent", "statistics", "rows", "answer">>
      BY <1>1
    <3>7. todo # <<"recent", "statistics", "rows", "answer">>
      BY <1>1
    <3>8. todo # <<"statistics", "rows", "answer">>
      BY <1>1
    <3> QED
      BY <2>1, <3>1, <3>2, <3>3, <3>4, <3>5, <3>6, <3>7, <3>8 DEF TransactionsLeft, CountingAll, CountingFirst
  <2>2. CASE InternalLeft(todo)
    <3>1. todo # <<"shown", "answer">>
      BY <1>1
    <3>2. todo # <<"count", "answer">>
      BY <1>1
    <3>3. todo # <<"estimate", "answer">>
      BY <1>1
    <3> QED
      BY <2>2, <3>1, <3>2, <3>3 DEF InternalLeft
  <2>3. CASE BlocksLeft(todo)
    <3>1. todo # <<"last", "numbers", "answer">>
      BY <1>1
    <3>2. todo # <<"numbers", "answer">>
      BY <1>1
    <3> QED
      BY <2>3, <3>1, <3>2 DEF BlocksLeft
  <2>4. CASE StatsLeft(todo)
    <3>1. todo # <<"daily", "later", "newest", "answer">>
      BY <1>1
    <3>2. todo # <<"later", "newest", "answer">>
      BY <1>1
    <3>3. todo # <<"newest", "answer">>
      BY <1>1
    <3> QED
      BY <2>4, <3>1, <3>2, <3>3 DEF StatsLeft
  <2>5. CASE TransfersLeft(request, todo)
    <3>1. todo # <<"estimate", "rows", "answer">>
      BY <1>1
    <3>2. todo # <<"metadata", "statistics", "recent", "rows", "answer">>
      BY <1>1
    <3>3. todo # <<"statistics", "recent", "rows", "answer">>
      BY <1>1
    <3>4. todo # <<"recent", "rows", "answer">>
      BY <1>1
    <3> QED
      BY <2>5, <3>1, <3>2, <3>3, <3>4 DEF TransfersLeft, CountingTransfersFirst
  <2>6. CASE WholeLeft(request, todo)
    <3>1. todo # <<"all", "answer">>
      BY <1>1
    <3>2. todo # <<"all", "is_last", "answer">>
      BY <1>1
    <3>3. todo # <<"is_last", "answer">>
      BY <1>1
    <3> QED
      BY <2>6, <3>1, <3>2, <3>3 DEF WholeLeft
  <2>7. CASE DetailLeft(todo)
    <3>1. todo # <<"all", "earlier", "is_last", "answer">>
      BY <1>1
    <3>2. todo # <<"earlier", "is_last", "answer">>
      BY <1>1
    <3>3. todo # <<"is_last", "answer">>
      BY <1>1
    <3> QED
      BY <2>7, <3>1, <3>2, <3>3 DEF DetailLeft
  <2>8. CASE AfterLeft(request, todo)
    <3>1. todo # <<"count", "answer">>
      BY <1>1
    <3>2. todo # <<"index", "answer">>
      BY <1>1
    <3> QED
      BY <2>8, <3>1, <3>2 DEF AfterLeft
  <2>9. CASE AddressLeft(todo)
    <3>1. todo # <<"shown", "answer">>
      BY <1>1
    <3>2. todo # <<"metadata", "recent", "statistics", "answer">>
      BY <1>1
    <3>3. todo # <<"recent", "statistics", "answer">>
      BY <1>1
    <3>4. todo # <<"statistics", "answer">>
      BY <1>1
    <3> QED
      BY <2>9, <3>1, <3>2, <3>3, <3>4 DEF AddressLeft, Counting
  <2>10. CASE CountLeft(todo)
    <3>1. todo # <<"shown", "answer">>
      BY <1>1
    <3>2. todo # <<"count", "answer">>
      BY <1>1
    <3> QED
      BY <2>10, <3>1, <3>2 DEF CountLeft
  <2>11. CASE ShownLeft(todo)
    <3>1. todo # <<"shown", "answer">>
      BY <1>1
    <3> QED
      BY <2>11, <3>1 DEF ShownLeft
  <2>12. CASE OnceLeft(todo)
    <3>1. todo # <<"token", "rows", "metadata", "statistics", "recent", "answer">>
      BY <1>1
    <3>2. todo # <<"metadata", "statistics", "recent", "answer">>
      BY <1>1
    <3>3. todo # <<"statistics", "recent", "answer">>
      BY <1>1
    <3>4. todo # <<"recent", "answer">>
      BY <1>1
    <3> QED
      BY <2>12, <3>1, <3>2, <3>3, <3>4 DEF OnceLeft, CountingTransfers
  <2>13. CASE ExportLeft(todo)
    <3>1. todo # <<"first_block", "last_block", "range", "answer">>
      BY <1>1
    <3>2. todo # <<"last_block", "range", "answer">>
      BY <1>1
    <3>3. todo # <<"range", "answer">>
      BY <1>1
    <3>4. todo # <<"first_block", "last_block", "range", "tokens", "answer">>
      BY <1>1
    <3>5. todo # <<"last_block", "range", "tokens", "answer">>
      BY <1>1
    <3>6. todo # <<"range", "tokens", "answer">>
      BY <1>1
    <3>7. todo # <<"tokens", "answer">>
      BY <1>1
    <3> QED
      BY <2>13, <3>1, <3>2, <3>3, <3>4, <3>5, <3>6, <3>7 DEF ExportLeft
  <2>14. todo \notin {<<>>, <<"answer">>}
    <3>1. todo # <<"answer">>
      BY <1>1
    <3> QED
      BY <1>1, <3>1
  <2> QED
    BY <2>1, <2>2, <2>3, <2>4, <2>5, <2>6, <2>7, <2>8, <2>9, <2>10, <2>11, <2>12, <2>13, <2>14 DEF OnTrack
<1> QED
  BY <1>2, <1>3, <1>4, <1>5, <1>6

(* And what comes after them is on the track.                              *)
LEMMA RowsOnTrack ==
  ASSUME OnTrack(request, todo), Query("rows"), NEW P, NEW total
  PROVE  OnTrack(request, Rest(P, total) \o Tail(todo)) /\ Rest(P, total) \o Tail(todo) # <<>>
<1> DEFINE rest == Rest(P, total)
<1>1. /\ request.rule \in {"transactions", "internal", "address", "count", "shown", "before",
                           "after", "uncached", "once"}
      /\ request.rule \in {"transactions", "internal", "address", "count", "shown", "before"} =>
           Tail(todo) = <<"answer">>
      /\ request.rule \in {"after", "uncached"} =>
           \/ request.table # "StateBatch" /\ Tail(todo) = <<"count", "answer">>
           \/ request.table = "StateBatch" /\ Tail(todo) = <<"index", "answer">>
      /\ request.rule = "once" => Tail(todo) = <<"metadata", "statistics", "recent", "answer">>
  BY RowsThen
<1>2. <<>> \o <<"answer">> = <<"answer">>
  BY NothingBefore
<1>3. <<"shown">> \o <<"answer">> = <<"shown", "answer">>
  BY Written
<1>4. <<"count">> \o <<"answer">> = <<"count", "answer">>
  BY Written
<1>5. <<"estimate">> \o <<"answer">> = <<"estimate", "answer">>
  BY Written
<1>6. <<"daily", "later">> \o <<"answer">> = <<"daily", "later", "answer">>
  BY Written
<1>7. <<"metadata", "recent", "statistics">> \o <<"answer">>
        = <<"metadata", "recent", "statistics", "answer">>
  BY Written
<1>8. <<>> \o <<"count", "answer">> = <<"count", "answer">>
  BY NothingBefore
<1>9. <<>> \o <<"index", "answer">> = <<"index", "answer">>
  BY NothingBefore
<1>10. <<>> \o <<"metadata", "statistics", "recent", "answer">>
         = <<"metadata", "statistics", "recent", "answer">>
  BY NothingBefore
<1>11. CASE request.rule = "transactions"
  <2>1. rest \o Tail(todo) \in {<<"answer">>, <<"shown", "answer">>, <<"count", "answer">>,
                                <<"daily", "later", "answer">>}
    BY <1>1, <1>2, <1>3, <1>4, <1>6, <1>11, RestIs
  <2> QED
    BY <1>11, <2>1 DEF OnTrack, CountingAll, TransactionsLeft
<1>12. CASE request.rule = "internal"
  <2>1. rest \o Tail(todo) \in {<<"shown", "answer">>, <<"count", "answer">>, <<"estimate", "answer">>}
    BY <1>1, <1>3, <1>4, <1>5, <1>12, RestIs
  <2> QED
    BY <1>12, <2>1 DEF OnTrack, InternalLeft
<1>13. CASE request.rule = "address"
  <2>1. rest \o Tail(todo) \in {<<"shown", "answer">>, <<"metadata", "recent", "statistics", "answer">>}
    BY <1>1, <1>3, <1>7, <1>13, RestIs
  <2> QED
    <3> HIDE DEF rest
    <3>1. rest \o Tail(todo) # <<>>
      BY <2>1
    <3>2. AddressLeft(rest \o Tail(todo))
      BY <2>1 DEF AddressLeft, Counting
    <3> QED
      BY <1>13, <3>1, <3>2 DEF OnTrack, rest
<1>14. CASE request.rule \in {"count", "shown"}
  <2>1. /\ rest \o Tail(todo) \in {<<"shown", "answer">>, <<"count", "answer">>}
        /\ request.rule = "shown" => rest \o Tail(todo) = <<"shown", "answer">>
    BY <1>1, <1>3, <1>4, <1>14, RestIs
  <2> HIDE DEF rest
  <2>2. rest \o Tail(todo) # <<>>
    BY <2>1
  <2> QED
    BY <1>14, <2>1, <2>2 DEF OnTrack, rest, CountLeft, ShownLeft, AfterLeft
<1>15. CASE request.rule = "before"
  <2>1. rest \o Tail(todo) = <<"answer">>
    BY <1>1, <1>2, <1>15, RestIs
  <2> QED
    BY <1>15, <2>1 DEF OnTrack
<1>16. CASE request.rule \in {"after", "uncached"}
  <2>1. \/ request.table # "StateBatch" /\ rest \o Tail(todo) = <<"count", "answer">>
        \/ request.table = "StateBatch" /\ rest \o Tail(todo) = <<"index", "answer">>
    BY <1>1, <1>8, <1>9, <1>16, RestIs
  <2> HIDE DEF rest
  <2>2. rest \o Tail(todo) # <<>>
    BY <2>1
  <2> QED
    BY <1>16, <2>1, <2>2 DEF OnTrack, rest, CountLeft, ShownLeft, AfterLeft
<1>17. CASE request.rule = "once"
  <2>1. rest \o Tail(todo) = <<"metadata", "statistics", "recent", "answer">>
    BY <1>1, <1>10, <1>17, RestIs
  <2> QED
    BY <1>17, <2>1 DEF OnTrack, CountingTransfers, OnceLeft
<1> QED
  BY <1>1, <1>11, <1>12, <1>13, <1>14, <1>15, <1>16, <1>17

(***************************************************************************)
(* The types.                                                              *)
(***************************************************************************)
AnswerType ==
  [rows : SUBSET Rows, total : Nat, since : Nat, found : BOOLEAN, rough : BOOLEAN,
   had : SUBSET Rows, latest : Nat, days : Nat, version : Nat]

(* What is read is in the tables, and is not more than a page.             *)
Fits(a) ==
  /\ a \in AnswerType /\ a.rows \subseteq stored
  /\ request.rule \in Whole \/ Cardinality(a.rows) <= PageSize

Typed ==
  /\ DB!TypeOK /\ aggregated \in Days \cup {0}
  /\ request \in Requests /\ OnTrack(request, todo)
  /\ page \in Pages \cup {0} /\ (page = 0 => todo = <<>>)
  /\ Fits(got) /\ Fits(answer)
  /\ DOMAIN cache = Pages /\ \A p \in Pages : Fits(cache[p])

(* What the queries read are numbers and rows.                             *)
LEMMA Numbered ==
  ASSUME DB!TypeOK, aggregated \in Days \cup {0}
  PROVE  /\ \A M \in SUBSET Rows : IsFiniteSet(M) /\ Cardinality(M) \in Nat
         /\ aggregated \in Nat
         /\ \A r \in Rows : r.block \in Blocks /\ r.block \in Nat /\ r.tx \in Nat /\ DayOf[r.block] \in Nat \ {0}
         /\ stored \in SUBSET Rows /\ Matching \subseteq stored /\ Due \subseteq stored
         /\ StoredBlocks \subseteq Blocks /\ Blocks \subseteq Nat
<1>1. \A M \in SUBSET Rows : IsFiniteSet(M) /\ Cardinality(M) \in Nat
  BY RecordsAssumption, FS_Subset, FS_CardinalityType
<1>2. aggregated \in Nat
  BY ExplorerAssumption
<1>3. \A r \in Rows : r.block \in Blocks /\ r.block \in Nat /\ r.tx \in Nat
  BY RecordsAssumption, TablesAssumption DEF WellFormed, Blocks
<1>4. \A r \in Rows : DayOf[r.block] \in Nat \ {0}
  BY <1>3, ExplorerAssumption DEF Days
<1>5. stored \in SUBSET Rows /\ Matching \subseteq stored /\ Due \subseteq stored
  BY DEF DB!TypeOK, Matching, Due
<1>6. StoredBlocks \subseteq Blocks
  BY <1>3, <1>5 DEF StoredBlocks
<1>7. Blocks \subseteq Nat
  BY TablesAssumption DEF WellFormed, Blocks
<1> QED
  BY <1>1, <1>2, <1>3, <1>4, <1>5, <1>6, <1>7

(* The newest and the smallest of finitely many numbers.                   *)
LEMMA NewestFacts ==
  ASSUME NEW B \in SUBSET Nat, IsFiniteSet(B)
  PROVE  /\ Newest(B) \in Nat /\ \A b \in B : b <= Newest(B)
         /\ B # {} => Newest(B) \in B
         /\ B = {} => Newest(B) = 0
<1>1. CASE B = {}
  BY <1>1 DEF Newest
<1>2. CASE B # {}
  <2> DEFINE over(b) == {m \in B : b < m}
             N == {Cardinality(over(b)) : b \in B}
  <2>1. \A b \in B : IsFiniteSet(over(b)) /\ Cardinality(over(b)) \in Nat
    BY FS_Subset, FS_CardinalityType
  <2>2. PICK n \in B : \A b \in B : Cardinality(over(n)) <= Cardinality(over(b))
    <3>1. N \in SUBSET Nat /\ N # {}
      BY <1>2, <2>1
    <3>2. PICK k \in N : \A m \in N : k <= m
      <4> HIDE DEF N
      <4> QED
        BY <3>1, LeastNumber
    <3> QED
      BY <3>2
  <2>3. ASSUME NEW m \in B, n < m PROVE FALSE
    <3>0. m \in Nat /\ n \in Nat /\ B \subseteq Nat
      OBVIOUS
    <3>a. m \in over(n) /\ m \notin over(m)
      BY <2>3, <3>0
    <3>b. over(m) \subseteq over(n)
      <4> SUFFICES ASSUME NEW k \in B, m < k PROVE n < k
        OBVIOUS
      <4> QED
        BY <2>3, <3>0
    <3>1. over(m) \subseteq over(n) /\ over(m) # over(n)
      BY <3>a, <3>b
    <3>2. Cardinality(over(m)) < Cardinality(over(n))
      BY <2>1, <3>1, FS_Subset, FS_CardinalityType
    <3> HIDE DEF over
    <3> QED
      BY <2>1, <2>2, <3>2
  <2>4. \E k \in B : \A m \in B : m <= k
    BY <2>3
  <2>5. Newest(B) = CHOOSE k \in B : \A m \in B : m <= k
    BY <1>2 DEF Newest
  <2>6. Newest(B) \in B /\ \A m \in B : m <= Newest(B)
    BY <2>4, <2>5
  <2> QED
    BY <1>2, <2>6
<1> QED
  BY <1>1, <1>2

(* The smallest of some numbers is one of them, and none is below it.      *)
LEMMA SmallestFacts ==
  ASSUME NEW B \in SUBSET Nat
  PROVE  Smallest(B) \in Nat /\ (B # {} => Smallest(B) \in B) /\ \A b \in B : Smallest(B) <= b
<1>1. CASE B = {}
  BY <1>1 DEF Smallest
<1>2. CASE B # {}
  <2>1. \E n \in B : \A m \in B : n <= m
    BY <1>2, LeastNumber
  <2>2. Smallest(B) = CHOOSE n \in B : \A m \in B : n <= m
    BY <1>2 DEF Smallest
  <2>3. Smallest(B) \in B /\ \A m \in B : Smallest(B) <= m
    BY <2>1, <2>2
  <2> QED
    BY <2>3
<1> QED
  BY <1>1, <1>2

(* The query at the head of what is left, for each rule.                    *)
LEMMA Heads ==
  /\ \A q, t : TransactionsLeft(q, t) => t # <<>> /\ Head(t) \in {"rows", "shown", "count", "block", "daily", "later", "metadata", "recent", "statistics"}
  /\ \A q, t : InternalLeft(t) => t # <<>> /\ Head(t) \in {"rows", "shown", "count", "estimate"}
  /\ \A q, t : BlocksLeft(t) => t # <<>> /\ Head(t) \in {"last", "numbers"}
  /\ \A q, t : StatsLeft(t) => t # <<>> /\ Head(t) \in {"daily", "later", "newest"}
  /\ \A q, t : TransfersLeft(q, t) => t # <<>> /\ Head(t) \in {"rows", "estimate", "metadata", "statistics", "recent"}
  /\ \A q, t : WholeLeft(q, t) => t # <<>> /\ Head(t) \in {"all", "is_last"}
  /\ \A q, t : DetailLeft(t) => t # <<>> /\ Head(t) \in {"all", "earlier", "is_last"}
  /\ \A q, t : AfterLeft(q, t) => t # <<>> /\ Head(t) \in {"rows", "count", "index"}
  /\ \A q, t : AddressLeft(t) => t # <<>> /\ Head(t) \in {"rows", "shown", "metadata", "recent", "statistics"}
  /\ \A q, t : CountLeft(t) => t # <<>> /\ Head(t) \in {"rows", "shown", "count"}
  /\ \A q, t : ShownLeft(t) => t # <<>> /\ Head(t) \in {"rows", "shown"}
  /\ \A q, t : OnceLeft(t) => t # <<>> /\ Head(t) \in {"rows", "token", "metadata", "statistics", "recent"}
  /\ \A q, t : ExportLeft(t) => t # <<>> /\ Head(t) \in {"first_block", "last_block", "range", "tokens"}
<1>1. ASSUME NEW q, NEW t PROVE TransactionsLeft(q, t) => t # <<>> /\ Head(t) \in {"rows", "shown", "count", "block", "daily", "later", "metadata", "recent", "statistics"}
  <2> USE DEF TransactionsLeft, CountingAll, CountingFirst
  <2>1. CASE t = <<"rows", "answer">>
    BY <2>1
  <2>2. CASE t = <<"shown", "answer">>
    BY <2>2
  <2>3. CASE t = <<"count", "answer">>
    BY <2>3
  <2>4. CASE t = <<"block", "rows", "answer">>
    BY <2>4
  <2>5. CASE t = <<"daily", "later", "answer">>
    BY <2>5
  <2>6. CASE t = <<"later", "answer">>
    BY <2>6
  <2>7. CASE t = <<"metadata", "recent", "statistics", "rows", "answer">>
    BY <2>7
  <2>8. CASE t = <<"recent", "statistics", "rows", "answer">>
    BY <2>8
  <2>9. CASE t = <<"statistics", "rows", "answer">>
    BY <2>9
  <2> QED
    BY <2>1, <2>2, <2>3, <2>4, <2>5, <2>6, <2>7, <2>8, <2>9
<1>2. ASSUME NEW q, NEW t PROVE InternalLeft(t) => t # <<>> /\ Head(t) \in {"rows", "shown", "count", "estimate"}
  <2> USE DEF InternalLeft
  <2>1. CASE t = <<"rows", "answer">>
    BY <2>1
  <2>2. CASE t = <<"shown", "answer">>
    BY <2>2
  <2>3. CASE t = <<"count", "answer">>
    BY <2>3
  <2>4. CASE t = <<"estimate", "answer">>
    BY <2>4
  <2> QED
    BY <2>1, <2>2, <2>3, <2>4
<1>3. ASSUME NEW q, NEW t PROVE BlocksLeft(t) => t # <<>> /\ Head(t) \in {"last", "numbers"}
  <2> USE DEF BlocksLeft
  <2>1. CASE t = <<"last", "numbers", "answer">>
    BY <2>1
  <2>2. CASE t = <<"numbers", "answer">>
    BY <2>2
  <2> QED
    BY <2>1, <2>2
<1>4. ASSUME NEW q, NEW t PROVE StatsLeft(t) => t # <<>> /\ Head(t) \in {"daily", "later", "newest"}
  <2> USE DEF StatsLeft
  <2>1. CASE t = <<"daily", "later", "newest", "answer">>
    BY <2>1
  <2>2. CASE t = <<"later", "newest", "answer">>
    BY <2>2
  <2>3. CASE t = <<"newest", "answer">>
    BY <2>3
  <2> QED
    BY <2>1, <2>2, <2>3
<1>5. ASSUME NEW q, NEW t PROVE TransfersLeft(q, t) => t # <<>> /\ Head(t) \in {"rows", "estimate", "metadata", "statistics", "recent"}
  <2> USE DEF TransfersLeft, CountingTransfersFirst
  <2>1. CASE t = <<"rows", "answer">>
    BY <2>1
  <2>2. CASE t = <<"estimate", "rows", "answer">>
    BY <2>2
  <2>3. CASE t = <<"metadata", "statistics", "recent", "rows", "answer">>
    BY <2>3
  <2>4. CASE t = <<"statistics", "recent", "rows", "answer">>
    BY <2>4
  <2>5. CASE t = <<"recent", "rows", "answer">>
    BY <2>5
  <2> QED
    BY <2>1, <2>2, <2>3, <2>4, <2>5
<1>6. ASSUME NEW q, NEW t PROVE WholeLeft(q, t) => t # <<>> /\ Head(t) \in {"all", "is_last"}
  <2> USE DEF WholeLeft
  <2>1. CASE t = <<"all", "answer">>
    BY <2>1
  <2>2. CASE t = <<"all", "is_last", "answer">>
    BY <2>2
  <2>3. CASE t = <<"is_last", "answer">>
    BY <2>3
  <2> QED
    BY <2>1, <2>2, <2>3
<1>7. ASSUME NEW q, NEW t PROVE DetailLeft(t) => t # <<>> /\ Head(t) \in {"all", "earlier", "is_last"}
  <2> USE DEF DetailLeft
  <2>1. CASE t = <<"all", "earlier", "is_last", "answer">>
    BY <2>1
  <2>2. CASE t = <<"earlier", "is_last", "answer">>
    BY <2>2
  <2>3. CASE t = <<"is_last", "answer">>
    BY <2>3
  <2> QED
    BY <2>1, <2>2, <2>3
<1>8. ASSUME NEW q, NEW t PROVE AfterLeft(q, t) => t # <<>> /\ Head(t) \in {"rows", "count", "index"}
  <2> USE DEF AfterLeft
  <2>1. CASE t = <<"rows", "count", "answer">>
    BY <2>1
  <2>2. CASE t = <<"count", "answer">>
    BY <2>2
  <2>3. CASE t = <<"rows", "index", "answer">>
    BY <2>3
  <2>4. CASE t = <<"index", "answer">>
    BY <2>4
  <2> QED
    BY <2>1, <2>2, <2>3, <2>4
<1>9. ASSUME NEW q, NEW t PROVE AddressLeft(t) => t # <<>> /\ Head(t) \in {"rows", "shown", "metadata", "recent", "statistics"}
  <2> USE DEF AddressLeft, Counting
  <2>1. CASE t = <<"rows", "answer">>
    BY <2>1
  <2>2. CASE t = <<"shown", "answer">>
    BY <2>2
  <2>3. CASE t = <<"metadata", "recent", "statistics", "answer">>
    BY <2>3
  <2>4. CASE t = <<"recent", "statistics", "answer">>
    BY <2>4
  <2>5. CASE t = <<"statistics", "answer">>
    BY <2>5
  <2> QED
    BY <2>1, <2>2, <2>3, <2>4, <2>5
<1>10. ASSUME NEW q, NEW t PROVE CountLeft(t) => t # <<>> /\ Head(t) \in {"rows", "shown", "count"}
  <2> USE DEF CountLeft
  <2>1. CASE t = <<"rows", "answer">>
    BY <2>1
  <2>2. CASE t = <<"shown", "answer">>
    BY <2>2
  <2>3. CASE t = <<"count", "answer">>
    BY <2>3
  <2> QED
    BY <2>1, <2>2, <2>3
<1>11. ASSUME NEW q, NEW t PROVE ShownLeft(t) => t # <<>> /\ Head(t) \in {"rows", "shown"}
  <2> USE DEF ShownLeft
  <2>1. CASE t = <<"rows", "answer">>
    BY <2>1
  <2>2. CASE t = <<"shown", "answer">>
    BY <2>2
  <2> QED
    BY <2>1, <2>2
<1>12. ASSUME NEW q, NEW t PROVE OnceLeft(t) => t # <<>> /\ Head(t) \in {"rows", "token", "metadata", "statistics", "recent"}
  <2> USE DEF OnceLeft, CountingTransfers
  <2>1. CASE t = <<"rows", "metadata", "statistics", "recent", "answer">>
    BY <2>1
  <2>2. CASE t = <<"token", "rows", "metadata", "statistics", "recent", "answer">>
    BY <2>2
  <2>3. CASE t = <<"metadata", "statistics", "recent", "answer">>
    BY <2>3
  <2>4. CASE t = <<"statistics", "recent", "answer">>
    BY <2>4
  <2>5. CASE t = <<"recent", "answer">>
    BY <2>5
  <2> QED
    BY <2>1, <2>2, <2>3, <2>4, <2>5
<1>13. ASSUME NEW q, NEW t PROVE ExportLeft(t) => t # <<>> /\ Head(t) \in {"first_block", "last_block", "range", "tokens"}
  <2> USE DEF ExportLeft
  <2>1. CASE t = <<"first_block", "last_block", "range", "answer">>
    BY <2>1
  <2>2. CASE t = <<"last_block", "range", "answer">>
    BY <2>2
  <2>3. CASE t = <<"range", "answer">>
    BY <2>3
  <2>4. CASE t = <<"first_block", "last_block", "range", "tokens", "answer">>
    BY <2>4
  <2>5. CASE t = <<"last_block", "range", "tokens", "answer">>
    BY <2>5
  <2>6. CASE t = <<"range", "tokens", "answer">>
    BY <2>6
  <2>7. CASE t = <<"tokens", "answer">>
    BY <2>7
  <2> QED
    BY <2>1, <2>2, <2>3, <2>4, <2>5, <2>6, <2>7
<1> QED
  BY <1>1, <1>2, <1>3, <1>4, <1>5, <1>6, <1>7, <1>8, <1>9, <1>10, <1>11, <1>12, <1>13

(* Which requests ask a query that needs one of its kind.                  *)
LEMMA WhoAsks ==
  ASSUME OnTrack(request, todo), todo # <<>>
  PROVE  /\ Head(todo) \in {"all", "range"} => request.rule \in Whole
         /\ Head(todo) = "numbers" => request.rule = "before" /\ request.table = "Block"
<1>1. CASE request.rule = "before" /\ request.table = "Block" /\ BlocksLeft(todo)
  BY <1>1, Heads
<1>2. CASE request.rule \in Whole
  <2>1. ASSUME Head(todo) = "numbers" PROVE FALSE
    <3>1. todo # <<"answer">>
      BY <2>1
    <3>2. WholeLeft(request, todo) \/ DetailLeft(todo) \/ ExportLeft(todo)
      BY <1>2, <3>1 DEF OnTrack, Whole
    <3> QED
      BY <2>1, <3>2, Heads
  <2> QED
    BY <1>2, <2>1
<1>3. CASE ~(request.rule = "before" /\ request.table = "Block" /\ BlocksLeft(todo)) /\ request.rule \notin Whole
  <2>1. ASSUME Head(todo) \in {"all", "range", "numbers"} PROVE FALSE
    <3>1. todo # <<"answer">>
      BY <2>1
    <3>2. \/ TransactionsLeft(request, todo) \/ InternalLeft(todo) \/ StatsLeft(todo)
          \/ TransfersLeft(request, todo) \/ AfterLeft(request, todo) \/ AddressLeft(todo)
          \/ CountLeft(todo) \/ ShownLeft(todo) \/ OnceLeft(todo)
      BY <1>3, <3>1 DEF OnTrack, Whole
    <3> QED
      BY <2>1, <3>2, Heads
  <2> QED
    BY <2>1
<1> QED
  BY <1>1, <1>2, <1>3

(* The numbers of what is stored are finitely many.                        *)
LEMMA FiniteNumbers ==
  ASSUME DB!TypeOK
  PROVE  /\ IsFiniteSet(StoredBlocks) /\ StoredBlocks \in SUBSET Nat
         /\ IsFiniteSet({r.tx : r \in {s \in stored : s.kind = "StateBatch"}})
         /\ {r.tx : r \in {s \in stored : s.kind = "StateBatch"}} \in SUBSET Nat
<1> DEFINE B == {r \in stored : r.kind = "Block"}
           I == {s \in stored : s.kind = "StateBatch"}
           X == {r.tx : r \in I}
           fb == [r \in B |-> r.block]
           fi == [r \in I |-> r.tx]
<1>1. stored \subseteq Rows
  BY DEF DB!TypeOK
<1>2. IsFiniteSet(B) /\ IsFiniteSet(I)
  BY <1>1, RecordsAssumption, FS_Subset
<1>3. \A r \in Rows : r.block \in Nat /\ r.tx \in Nat
  BY RecordsAssumption, TablesAssumption DEF WellFormed
<1>4. fb \in Surjection(B, StoredBlocks)
  BY DEF Surjection, StoredBlocks
<1>5. fi \in Surjection(I, X)
  BY DEF Surjection
<1>6. IsFiniteSet(StoredBlocks)
  <2> HIDE DEF fb, B
  <2> QED
    BY <1>2, <1>4, FS_Surjection
<1>7. IsFiniteSet(X)
  <2> HIDE DEF fi, I, X
  <2> QED
    BY <1>2, <1>5, FS_Surjection
<1>8. StoredBlocks \in SUBSET Nat /\ X \in SUBSET Nat
  BY <1>1, <1>3 DEF StoredBlocks
<1> QED
  BY <1>6, <1>7, <1>8

(* The last block and the last batch have numbers.                         *)
LEMMA LastIsNumber ==
  ASSUME DB!TypeOK
  PROVE  LastBlock \in Nat /\ LastIndex \in Nat /\ Latest \in Nat
<1>1. LastBlock \in Nat
  BY FiniteNumbers, NewestFacts DEF LastBlock
<1>2. LastIndex \in Nat
  BY FiniteNumbers, NewestFacts DEF LastIndex
<1> QED
  BY <1>1, <1>2 DEF Latest

(* A page of a list fits, as do as many blocks as it has numbers.          *)
LEMMA PageFits ==
  ASSUME Typed, page \in Pages, NEW P \in PagesOf(Matching, page)
  PROVE  P \subseteq Matching /\ Cardinality(P) <= PageSize
<1>1. IsFiniteSet(Matching) /\ Matching \subseteq Rows
  BY Numbered DEF Typed
<1>2. page \in Nat \ {0}
  BY DEF Pages
<1>3. request.keys \in Nat
  BY Shapes DEF Shape, Typed
<1>4. P \subseteq Matching /\ Cardinality(P) = Cut(Cardinality(Matching), page)
  BY <1>1, <1>2, <1>3, PageFacts
<1>5. Cardinality(Matching) \in Nat
  BY <1>1, FS_CardinalityType
<1>6. Offset(page) \in Nat
  BY <1>2, OffsetFacts
<1> QED
  BY <1>4, <1>5, <1>6, ExplorerAssumption DEF Cut

(* A range of numbers has no more blocks than a page has rows: a block     *)
(* has one row.                                                            *)
LEMMA NumbersFit ==
  ASSUME Typed, request.table = "Block", NEW end \in Int
  PROVE  Cardinality({r \in Matching : r.block \in Numbers(end)}) <= PageSize
<1> DEFINE R == {r \in Matching : r.block \in Numbers(end)}
           T == (end - PageSize + 1)..end
           f == [r \in R |-> r.block]
<1>0. PageSize \in Nat \ {0}
  BY ExplorerAssumption
<1>1. \A r \in R : r \in Rows /\ r.kind = "Block" /\ r.block \in Int /\ end - PageSize < r.block /\ r.block <= end
  <2> SUFFICES ASSUME NEW r \in R
               PROVE  r \in Rows /\ r.kind = "Block" /\ r.block \in Int /\ end - PageSize < r.block /\ r.block <= end
    OBVIOUS
  <2>1. r \in Matching /\ r.block \in Numbers(end)
    OBVIOUS
  <2>2. r \in stored /\ r.kind = "Block"
    BY <2>1 DEF Matching, Asked
  <2>3. r \in Rows /\ r.block \in Nat
    BY <2>2, Numbered DEF Typed
  <2> QED
    BY <2>1, <2>2, <2>3 DEF Numbers
<1>2. f \in Injection(R, T)
  <2>1. \A r \in R : r.block \in T
    BY <1>0, <1>1
  <2>2. \A r, s \in R : r.block = s.block => r = s
    BY <1>1, RecordsAssumption
  <2> HIDE DEF R, T
  <2> QED
    BY <2>1, <2>2 DEF Injection, IsInjective
<1>3. IsFiniteSet(T) /\ Cardinality(T) = PageSize
  <2>1. end - PageSize + 1 \in Int /\ ~(end - PageSize + 1 > end)
    BY <1>0
  <2>2. IsFiniteSet(T) /\ Cardinality(T) = end - (end - PageSize + 1) + 1
    BY <2>1, FS_Interval
  <2> QED
    BY <1>0, <2>2
<1> HIDE DEF f, T
<1>4. Cardinality(R) <= Cardinality(T)
  BY <1>2, <1>3, FS_Injection
<1> QED
  BY <1>3, <1>4

(* The tables are empty at first, and nothing has been read.               *)
LEMMA InitTyped == Init => Typed
<1> SUFFICES ASSUME Init PROVE Typed
  OBVIOUS
<1>1. DB!TypeOK
  BY TablesAssumption DEF Init, DB!Init, DB!TypeOK, WellFormed
<1>2. NoAnswer \in AnswerType
  BY DEF NoAnswer, AnswerType
<1>3. NoAnswer.rows = {}
  BY DEF NoAnswer
<1>4. Fits(NoAnswer)
  BY <1>2, <1>3, FS_EmptySet, ExplorerAssumption DEF Fits
<1>5. \A p \in Pages : cache[p] = NoAnswer
  BY DEF Init
<1>6. OnTrack(request, todo)
  BY DEF Init, OnTrack
<1> QED
  BY <1>1, <1>4, <1>5, <1>6 DEF Init, Typed

(* Only what a query reads changes in it.                                  *)
LEMMA GoesTyped ==
  ASSUME Typed, todo # <<>>, NEW g, NEW rest, Goes(g, rest), Fits(g), OnTrack(request, rest)
  PROVE  Typed'
<1> USE DEF Goes, dbVars
<1>1. DB!TypeOK' /\ (aggregated \in Days \cup {0})'
  BY DEF Typed, DB!TypeOK, Days, Blocks
<1>2. Fits(got)'
  BY DEF Fits
<1>3. Fits(answer)' /\ \A p \in Pages : Fits(cache[p])'
  BY DEF Typed, Fits
<1>4. page # 0 /\ page' = page
  BY DEF Typed
<1> QED
  BY <1>1, <1>2, <1>3, <1>4 DEF Typed

(* What is added to what has been read.                                    *)
LEMMA Fitting ==
  ASSUME Fits(got)
  PROVE  /\ \A n \in Nat : Fits(Counted(n)) /\ Fits([got EXCEPT !.since = n])
         /\ \A n, m \in Nat : Fits([got EXCEPT !.total = n, !.since = m])
         /\ \A n \in Nat : Fits([got EXCEPT !.total = n, !.rough = TRUE])
         /\ \A n, m \in Nat : Fits([Counted(n) EXCEPT !.version = m])
         /\ \A f \in BOOLEAN, n \in Nat : Fits([got EXCEPT !.found = f, !.version = n])
         /\ Fits([got EXCEPT !.found = FALSE])
         /\ Fits([got EXCEPT !.since = 0])
         /\ \A P \in SUBSET stored : stored \subseteq Rows /\ Cardinality(stored) \in Nat
              /\ (request.rule \in Whole \/ Cardinality(P) <= PageSize) =>
              /\ Fits(Shown(P)) /\ Fits([got EXCEPT !.rows = P])
              /\ \A n \in Nat : Fits([Shown(P) EXCEPT !.total = n])
         /\ Fits([got EXCEPT !.found = FALSE, !.rows = {}])
<1>1. got \in AnswerType /\ got.rows \subseteq stored
  BY DEF Fits
<1>2. request.rule \in Whole \/ Cardinality(got.rows) <= PageSize
  BY DEF Fits
<1>3. 0 <= PageSize /\ Cardinality({}) = 0
  BY FS_EmptySet, ExplorerAssumption
<1>4. ASSUME NEW n \in Nat, NEW m \in Nat, NEW f \in BOOLEAN
      PROVE  /\ Fits(Counted(n)) /\ Fits([got EXCEPT !.since = n])
             /\ Fits([got EXCEPT !.total = n, !.since = m])
             /\ Fits([got EXCEPT !.total = n, !.rough = TRUE])
             /\ Fits([Counted(n) EXCEPT !.version = m])
             /\ Fits([got EXCEPT !.found = f, !.version = n])
             /\ Fits([got EXCEPT !.found = FALSE])
             /\ Fits([got EXCEPT !.since = 0])
  BY <1>1, <1>2 DEF Fits, AnswerType, Counted
<1>5. ASSUME NEW P \in SUBSET stored, stored \subseteq Rows, Cardinality(stored) \in Nat,
             request.rule \in Whole \/ Cardinality(P) <= PageSize
      PROVE  /\ Fits(Shown(P)) /\ Fits([got EXCEPT !.rows = P])
             /\ \A n \in Nat : Fits([Shown(P) EXCEPT !.total = n])
  BY <1>1, <1>5 DEF Fits, AnswerType, Shown
<1>6. Fits([got EXCEPT !.found = FALSE, !.rows = {}])
  BY <1>1, <1>3 DEF Fits, AnswerType
<1> QED
  BY <1>4, <1>5, <1>6

(* A query reads what is in the tables, and no more than a page of it.     *)
LEMMA ReadTyped == Typed /\ Read => Typed'
<1> SUFFICES ASSUME Typed, Read PROVE Typed'
  OBVIOUS
<1>0. /\ OnTrack(request, todo) /\ Fits(got) /\ DB!TypeOK /\ aggregated \in Days \cup {0}
      /\ request \in Requests
  BY DEF Typed
<1>1. todo # <<>>
  BY DEF Read, Query, ReadMetadata, ReadRecent, ReadStatistics, ReadDaily, ReadLater,
         ReadCount, ReadEstimate, ReadBlock, ReadRows, ReadAll, ReadShown, ReadLast, ReadNumbers,
         ReadNewest, ReadIndex, ReadEarlier, ReadIsLast, ReadToken, ReadFirstBlock, ReadLastBlock,
         ReadRange, ReadTokens
<1>2. /\ Head(todo) \notin {"rows", "answer"} => OnTrack(request, Tail(todo))
      /\ OnTrack(request, <<"answer">>)
  BY <1>0, <1>1, StaysOnTrack DEF OnTrack
<1>3. /\ got.total \in Nat /\ got.since \in Nat /\ got.rows \subseteq stored
      /\ Cardinality(got.rows) \in Nat
  BY <1>0, Numbered DEF Fits, AnswerType
<1>4. /\ stored \subseteq Rows /\ Cardinality(stored) \in Nat /\ Matching \subseteq stored
      /\ \A M \in SUBSET Rows : Cardinality(M) \in Nat
      /\ aggregated \in Nat
  BY <1>0, Numbered
<1>5. page \in Pages /\ page \in Nat \ {0} /\ Offset(page) \in Nat
  <2>1. page \in Pages
    BY <1>1 DEF Typed
  <2>2. page \in Nat \ {0}
    BY <2>1 DEF Pages
  <2> QED
    BY <2>1, <2>2, OffsetFacts
<1>6. LastBlock \in Nat /\ LastIndex \in Nat
  BY <1>0, LastIsNumber
<1>7. \A n \in Nat : Goes(Counted(n), Tail(todo)) /\ Head(todo) \notin {"rows", "answer"} => Typed'
  BY <1>0, <1>1, <1>2, Fitting, GoesTyped
<1>8. \A g : Goes(g, <<"answer">>) /\ Fits(g) => Typed'
  BY <1>1, <1>2, GoesTyped
<1>9. \A g : Goes(g, Tail(todo)) /\ Fits(g) /\ Head(todo) \notin {"rows", "answer"} => Typed'
  BY <1>1, <1>2, GoesTyped
<1> USE DEF Query
<1>10. CASE ReadMetadata
  BY <1>10, <1>0, <1>4, <1>9, Fitting DEF ReadMetadata
<1>11. CASE ReadRecent
  <2>1. Cardinality(Recent(got.since)) \in Nat
    BY <1>4 DEF Recent
  <2>2. got.total + Cardinality(Recent(got.since)) \in Nat
    BY <1>3, <2>1
  <2> QED
    BY <1>11, <1>7, <2>2 DEF ReadRecent
<1>12. CASE ReadStatistics
  <2>1. Cardinality(Past) \in Nat
    BY <1>4 DEF Past
  <2>2. got.total + Cardinality(Past) \in Nat
    BY <1>3, <2>1
  <2> QED
    BY <1>12, <1>7, <2>2 DEF ReadStatistics
<1>13. CASE ReadDaily
  <2>1. Cardinality(AllPast) \in Nat
    BY <1>4 DEF AllPast
  <2>2. Fits([got EXCEPT !.total = Cardinality(AllPast), !.since = aggregated])
    BY <1>0, <1>4, <2>1, Fitting
  <2> QED
    BY <1>13, <1>9, <2>2 DEF ReadDaily
<1>14. CASE ReadLater
  <2>1. Cardinality(AllRecent(got.since)) \in Nat
    BY <1>4 DEF AllRecent
  <2>2. got.total + Cardinality(AllRecent(got.since)) \in Nat
    BY <1>3, <2>1
  <2> QED
    BY <1>14, <1>7, <2>2 DEF ReadLater
<1>15. CASE ReadCount
  BY <1>15, <1>4, <1>7 DEF ReadCount
<1>16. CASE ReadEstimate
  <2>1. PICK n \in {0, Cardinality(Rows)} : Goes([got EXCEPT !.total = n, !.rough = TRUE], Tail(todo))
    BY <1>16 DEF ReadEstimate
  <2>2. n \in Nat
    BY <1>4
  <2>3. Fits([got EXCEPT !.total = n, !.rough = TRUE])
    BY <1>0, <2>2, Fitting
  <2> QED
    BY <1>16, <1>9, <2>1, <2>3 DEF ReadEstimate
<1>17. CASE ReadBlock
  <2>1. TransactionsCount(request.filter.value) \in Nat
    BY <1>4 DEF TransactionsCount
  <2>2. Fits([got EXCEPT !.found = FALSE])
    BY <1>0, Fitting
  <2> QED
    BY <1>17, <1>7, <1>8, <2>1, <2>2 DEF ReadBlock
<1>18. CASE ReadRows
  <2>1. PICK P \in PagesOf(Matching, page) : Goes(Shown(P), Rest(P, got.total) \o Tail(todo))
    BY <1>18 DEF ReadRows
  <2>2. P \subseteq Matching /\ Cardinality(P) <= PageSize
    BY <1>5, PageFits
  <2>3. Fits(Shown(P))
    BY <1>0, <1>4, <2>2, Fitting
  <2>4. OnTrack(request, Rest(P, got.total) \o Tail(todo))
    BY <1>0, <1>18, RowsOnTrack DEF ReadRows
  <2> QED
    BY <1>1, <2>1, <2>3, <2>4, GoesTyped
<1>19. CASE ReadAll
  <2>1. request.rule \in Whole
    BY <1>0, <1>1, <1>19, WhoAsks DEF ReadAll
  <2>2. Cardinality(Matching) \in Nat
    BY <1>4
  <2>3. Fits([Shown(Matching) EXCEPT !.total = Cardinality(Matching)]) /\ Fits([got EXCEPT !.found = FALSE])
    BY <1>0, <1>4, <2>1, <2>2, Fitting
  <2> QED
    BY <1>19, <1>8, <1>9, <2>3 DEF ReadAll
<1>20. CASE ReadShown
  <2>1. (page - 1) * PageSize + Cardinality(got.rows) \in Nat
    BY <1>3, <1>5 DEF Offset
  <2> QED
    BY <1>20, <1>7, <2>1 DEF ReadShown
<1>21. CASE ReadLast
  <2>1. Fits([Counted(LastBlock) EXCEPT !.version = LastBlock])
    BY <1>0, <1>6, Fitting
  <2> QED
    BY <1>21, <1>9, <2>1 DEF ReadLast
<1>22. CASE ReadNumbers
  <2> DEFINE P == {r \in Matching : r.block \in Numbers(got.total - Offset(page))}
  <2>1. Cardinality(P) <= PageSize
    BY <1>0, <1>1, <1>3, <1>5, <1>22, WhoAsks, NumbersFit DEF ReadNumbers
  <2>2. Fits([got EXCEPT !.rows = P])
    BY <1>0, <1>4, <2>1, Fitting
  <2> QED
    BY <1>22, <1>9, <2>2 DEF ReadNumbers
<1>23. CASE ReadNewest
  <2>1. Fits([got EXCEPT !.found = LastBlock # 0, !.version = LastBlock])
    BY <1>0, <1>6, Fitting
  <2> QED
    BY <1>23, <1>9, <2>1 DEF ReadNewest
<1>24. CASE ReadIndex
  BY <1>24, <1>6, <1>7 DEF ReadIndex
<1>25. CASE ReadEarlier
  BY <1>25, <1>0, <1>8, <1>9, Fitting DEF ReadEarlier
<1>26. CASE ReadIsLast
  BY <1>26, <1>7 DEF ReadIsLast
<1>27. CASE ReadToken
  BY <1>27, <1>0, <1>8, <1>9, Fitting DEF ReadToken
<1>28. CASE ReadFirstBlock
  <2> DEFINE n == Smallest({b \in StoredBlocks : DayOf[b] >= request.filter.value[2]})
  <2>1. n \in Nat
    BY <1>0, FiniteNumbers, SmallestFacts
  <2>2. Fits([got EXCEPT !.since = n])
    BY <1>0, <2>1, Fitting
  <2> QED
    BY <1>28, <1>9, <2>2 DEF ReadFirstBlock
<1>29. CASE ReadLastBlock
  <2> DEFINE B == {b \in StoredBlocks : DayOf[b] <= request.filter.value[2]}
  <2>1. IsFiniteSet(B) /\ B \in SUBSET Nat
    BY <1>0, FiniteNumbers, FS_Subset
  <2>2. Newest(B) \in Nat
    BY <2>1, NewestFacts
  <2> QED
    BY <1>29, <1>7, <2>2 DEF ReadLastBlock
<1>30. CASE ReadRange
  <2> DEFINE P == {r \in stored : /\ r.kind = request.table /\ request.filter.value[1] \in r.names
                                  /\ got.since <= r.block /\ r.block <= got.total
                                  /\ Joined(r)}
  <2>1. request.rule \in Whole
    BY <1>0, <1>1, <1>30, WhoAsks DEF ReadRange
  <2>2. P \in SUBSET stored
    OBVIOUS
  <2>3. Fits(Shown(P))
    <3> HIDE DEF P
    <3> QED
      BY <1>0, <1>4, <2>1, <2>2, Fitting
  <2> QED
    BY <1>30, <1>9, <2>3 DEF ReadRange
<1>31. CASE ReadTokens
  BY <1>31, <1>0, <1>8, <1>9, Fitting DEF ReadTokens
<1> QED
  BY <1>10, <1>11, <1>12, <1>13, <1>14, <1>15, <1>16, <1>17, <1>18, <1>19, <1>20, <1>21, <1>22,
     <1>23, <1>24, <1>25, <1>26, <1>27, <1>28, <1>29, <1>30, <1>31 DEF Read

(* Before the first query nothing has been read.                           *)
LEMMA BlankFits == ASSUME Typed PROVE Fits(Blank) /\ Fits(NoAnswer)
<1>1. Blank \in AnswerType /\ Blank.rows = {}
  <2>1. Latest \in Nat /\ aggregated \in Nat /\ Due \subseteq Rows
    BY LastIsNumber, Numbered DEF Typed
  <2> QED
    BY <2>1 DEF Blank, AnswerType
<1>2. NoAnswer \in AnswerType /\ NoAnswer.rows = {}
  BY DEF NoAnswer, AnswerType
<1> QED
  BY <1>1, <1>2, FS_EmptySet, ExplorerAssumption DEF Fits

(* A page that is asked for is one that may be asked for.                  *)
LEMMA TurnTyped == ASSUME Typed, Turn PROVE page' \in Pages
<1>1. PageSize \in Nat \ {0} /\ MaxShown \in Nat
  BY ExplorerAssumption
<1>2. page \in Nat
  BY DEF Typed, Pages
<1>3. page' \in Nat \ {0} /\ page' * PageSize <= MaxShown
  BY <1>2 DEF Turn, MayAsk
<1>4. ASSUME NEW p \in Nat \ {0}, NEW k \in Nat \ {0}, NEW m \in Nat, p * k <= m
      PROVE  p \in 1..m
  <2>1. PICK i \in Nat : k = i + 1
    <3>1. k - 1 \in Nat /\ k = (k - 1) + 1
      OBVIOUS
    <3> QED
      BY <3>1
  <2>2. p * k = p * i + p
    BY <2>1
  <2>3. p * i \in Nat
    BY <2>1
  <2> QED
    BY <1>4, <2>2, <2>3
<1>5. page' \in 1..MaxShown
  BY <1>1, <1>3, <1>4
<1> QED
  BY <1>3, <1>5 DEF Pages, MayAsk

(* Every step keeps the types: one case for each action.                   *)
LEMMA StepTyped == Typed /\ [Next]_vars => Typed'
<1> SUFFICES ASSUME Typed, [Next]_vars PROVE Typed'
  OBVIOUS
<1>1. CASE Ask
  <2>1. page' \in Pages
    BY <1>1, TurnTyped DEF Ask
  <2>2. OnTrack(request, todo')
    BY <1>1, StartsOnTrack DEF Ask, Typed
  <2>3. Fits(got)' /\ Fits(answer)' /\ \A p \in Pages : Fits(cache[p])'
    BY <1>1, BlankFits DEF Ask, Typed, Fits, dbVars
  <2>4. page' # 0
    BY <2>1 DEF Pages
  <2> QED
    BY <1>1, <2>1, <2>2, <2>3, <2>4 DEF Ask, Typed, dbVars, DB!TypeOK, Days, Blocks
<1>2. CASE Read
  BY <1>2, ReadTyped
<1>3. CASE Answer
  <2>1. page \in Pages /\ todo # <<>>
    BY <1>3 DEF Answer, Query, Typed
  <2>2. Fits([got EXCEPT !.since = 0])
    BY Fitting DEF Typed
  <2>3. Fits(NoAnswer)
    BY BlankFits
  <2>4. Fits(got)' /\ Fits(answer)'
    BY <1>3, <2>2, <2>3 DEF Answer, Fits, dbVars
  <2>5. DOMAIN cache' = Pages /\ \A p \in Pages : Fits(cache'[p])
    BY <1>3, <2>1, <2>2 DEF Answer, Typed
  <2>6. \A p \in Pages : Fits(cache[p])'
    BY <1>3, <2>5 DEF Answer, Fits, dbVars
  <2>7. OnTrack(request, todo')
    BY <1>3 DEF Answer, OnTrack
  <2> QED
    BY <1>3, <2>1, <2>4, <2>5, <2>6, <2>7 DEF Answer, Typed, dbVars, DB!TypeOK, Days, Blocks
<1>4. CASE AnswerFromCache
  <2>1. page' \in Pages
    BY <1>4, TurnTyped DEF AnswerFromCache
  <2>2. Fits(answer')
    BY <1>4, <2>1 DEF AnswerFromCache, Typed
  <2>3. Fits(got)' /\ Fits(answer)' /\ \A p \in Pages : Fits(cache[p])'
    BY <1>4, <2>2 DEF AnswerFromCache, Typed, Fits, dbVars
  <2>4. page' # 0
    BY <2>1 DEF Pages
  <2> QED
    BY <1>4, <2>1, <2>3, <2>4 DEF AnswerFromCache, Typed, dbVars, DB!TypeOK, Days, Blocks
<1>5. CASE Write
  <2>1. DB!TypeOK' /\ stored \subseteq stored'
    BY <1>5 DEF Write, DB!Write, DB!TypeOK, Typed
  <2>2. Fits(got)' /\ Fits(answer)' /\ \A p \in Pages : Fits(cache[p])'
    BY <1>5, <2>1 DEF Write, Typed, Fits
  <2> QED
    BY <1>5, <2>1, <2>2 DEF Write, Typed, Days, Blocks
<1>6. CASE Record
  <2>1. DB!TypeOK' /\ stored' = stored
    BY <1>6, TablesAssumption DEF Record, DB!Record, DB!TypeOK, Typed, WellFormed
  <2>2. Fits(got)' /\ Fits(answer)' /\ \A p \in Pages : Fits(cache[p])'
    BY <1>6, <2>1 DEF Record, Typed, Fits
  <2> QED
    BY <1>6, <2>1, <2>2 DEF Record, Typed, Days, Blocks
<1>7. CASE Aggregate
  <2>1. Fits(got)' /\ Fits(answer)' /\ \A p \in Pages : Fits(cache[p])'
    BY <1>7 DEF Aggregate, Typed, Fits, dbVars
  <2> QED
    BY <1>7, <2>1 DEF Aggregate, Typed, dbVars, DB!TypeOK, Days, Blocks
<1>8. CASE UNCHANGED vars
  <2>1. Fits(got)' /\ Fits(answer)' /\ \A p \in Pages : Fits(cache[p])'
    BY <1>8 DEF vars, Typed, Fits, dbVars
  <2> QED
    BY <1>8, <2>1 DEF vars, Typed, dbVars, DB!TypeOK, Days, Blocks
<1> QED
  BY <1>1, <1>2, <1>3, <1>4, <1>5, <1>6, <1>7, <1>8 DEF Next

(* What is read is in the tables, and no page is longer than it may be.    *)
THEOREM ExplorerTypeOK == Spec => []TypeOK
<1>1. Typed => TypeOK
  <2> SUFFICES ASSUME Typed PROVE TypeOK
    OBVIOUS
  <2>1. page \in Nat /\ page * PageSize <= MaxShown
    <3>1. CASE page = 0
      BY <3>1, ExplorerAssumption
    <3>2. CASE page # 0
      BY <3>2 DEF Typed, Pages, MayAsk
    <3> QED
      BY <3>1, <3>2
  <2> QED
    BY <2>1 DEF Typed, TypeOK, Fits, AnswerType
<1>2. Spec => []Typed
  BY InitTyped, StepTyped, PTL DEF Spec
<1> QED
  BY <1>1, <1>2, PTL

(***************************************************************************)
(* The totals.                                                             *)
(***************************************************************************)
TellsIfLast(q) == q.rule = "detail" \/ (q.rule = "whole" /\ q.table = "StateBatch")

(* How the queries of a request begin, and whether they ask for the last.  *)
LEMMA Begins ==
  \A q :
    /\ q.queries = <<"rows">> => Head(q.queries) = "rows" /\ ~Reads(q, "is_last")
    /\ q.queries = <<"block", "rows">> => Head(q.queries) = "block" /\ ~Reads(q, "is_last")
    /\ q.queries = <<"metadata", "recent", "statistics", "rows">> => Head(q.queries) = "metadata" /\ ~Reads(q, "is_last")
    /\ q.queries = <<"last", "numbers">> => Head(q.queries) = "last" /\ ~Reads(q, "is_last")
    /\ q.queries = <<"daily", "later", "newest">> => Head(q.queries) = "daily" /\ ~Reads(q, "is_last")
    /\ q.queries = <<"estimate", "rows">> => Head(q.queries) = "estimate" /\ ~Reads(q, "is_last")
    /\ q.queries = <<"metadata", "statistics", "recent", "rows">> => Head(q.queries) = "metadata" /\ ~Reads(q, "is_last")
    /\ q.queries = <<"all">> => Head(q.queries) = "all" /\ ~Reads(q, "is_last")
    /\ q.queries = <<"all", "is_last">> => Head(q.queries) = "all" /\ Reads(q, "is_last")
    /\ q.queries = <<"all", "earlier", "is_last">> => Head(q.queries) = "all" /\ Reads(q, "is_last")
    /\ q.queries = <<"rows", "count">> => Head(q.queries) = "rows" /\ ~Reads(q, "is_last")
    /\ q.queries = <<"rows", "index">> => Head(q.queries) = "rows" /\ ~Reads(q, "is_last")
    /\ q.queries = <<"rows", "metadata", "statistics", "recent">> => Head(q.queries) = "rows" /\ ~Reads(q, "is_last")
    /\ q.queries = <<"token", "rows", "metadata", "statistics", "recent">> => Head(q.queries) = "token" /\ ~Reads(q, "is_last")
    /\ q.queries = <<"first_block", "last_block", "range">> => Head(q.queries) = "first_block" /\ ~Reads(q, "is_last")
    /\ q.queries = <<"first_block", "last_block", "range", "tokens">> => Head(q.queries) = "first_block" /\ ~Reads(q, "is_last")
<1> USE DEF Reads
<1>1. ASSUME NEW q, q.queries = <<"rows">>
      PROVE  Head(q.queries) = "rows" /\ ~Reads(q, "is_last")
  BY <1>1
<1>2. ASSUME NEW q, q.queries = <<"block", "rows">>
      PROVE  Head(q.queries) = "block" /\ ~Reads(q, "is_last")
  BY <1>2
<1>3. ASSUME NEW q, q.queries = <<"metadata", "recent", "statistics", "rows">>
      PROVE  Head(q.queries) = "metadata" /\ ~Reads(q, "is_last")
  BY <1>3
<1>4. ASSUME NEW q, q.queries = <<"last", "numbers">>
      PROVE  Head(q.queries) = "last" /\ ~Reads(q, "is_last")
  BY <1>4
<1>5. ASSUME NEW q, q.queries = <<"daily", "later", "newest">>
      PROVE  Head(q.queries) = "daily" /\ ~Reads(q, "is_last")
  BY <1>5
<1>6. ASSUME NEW q, q.queries = <<"estimate", "rows">>
      PROVE  Head(q.queries) = "estimate" /\ ~Reads(q, "is_last")
  BY <1>6
<1>7. ASSUME NEW q, q.queries = <<"metadata", "statistics", "recent", "rows">>
      PROVE  Head(q.queries) = "metadata" /\ ~Reads(q, "is_last")
  BY <1>7
<1>8. ASSUME NEW q, q.queries = <<"all">>
      PROVE  Head(q.queries) = "all" /\ ~Reads(q, "is_last")
  BY <1>8
<1>9. ASSUME NEW q, q.queries = <<"all", "is_last">>
      PROVE  Head(q.queries) = "all" /\ Reads(q, "is_last")
  BY <1>9
<1>10. ASSUME NEW q, q.queries = <<"all", "earlier", "is_last">>
      PROVE  Head(q.queries) = "all" /\ Reads(q, "is_last")
  BY <1>10
<1>11. ASSUME NEW q, q.queries = <<"rows", "count">>
      PROVE  Head(q.queries) = "rows" /\ ~Reads(q, "is_last")
  BY <1>11
<1>12. ASSUME NEW q, q.queries = <<"rows", "index">>
      PROVE  Head(q.queries) = "rows" /\ ~Reads(q, "is_last")
  BY <1>12
<1>13. ASSUME NEW q, q.queries = <<"rows", "metadata", "statistics", "recent">>
      PROVE  Head(q.queries) = "rows" /\ ~Reads(q, "is_last")
  BY <1>13
<1>14. ASSUME NEW q, q.queries = <<"token", "rows", "metadata", "statistics", "recent">>
      PROVE  Head(q.queries) = "token" /\ ~Reads(q, "is_last")
  BY <1>14
<1>15. ASSUME NEW q, q.queries = <<"first_block", "last_block", "range">>
      PROVE  Head(q.queries) = "first_block" /\ ~Reads(q, "is_last")
  BY <1>15
<1>16. ASSUME NEW q, q.queries = <<"first_block", "last_block", "range", "tokens">>
      PROVE  Head(q.queries) = "first_block" /\ ~Reads(q, "is_last")
  BY <1>16
<1> QED
  BY <1>1, <1>2, <1>3, <1>4, <1>5, <1>6, <1>7, <1>8, <1>9, <1>10, <1>11, <1>12, <1>13, <1>14, <1>15, <1>16

(* The properties tell requests by their queries, the proof by their       *)
(* rules: both tell the same.                                              *)
LEMMA Branches ==
  \A q \in Requests :
    /\ Reads(q, "is_last") <=> TellsIfLast(q)
    /\ Head(q.queries) = "last" <=> q.rule = "before" /\ q.table = "Block"
    /\ Head(q.queries) = "block" <=> q.rule = "transactions" /\ q.filter.by = "block"
    /\ Head(q.queries) = "token" => q.rule = "once"
<1> SUFFICES ASSUME NEW q \in Requests
             PROVE /\ Reads(q, "is_last") <=> TellsIfLast(q)
                   /\ Head(q.queries) = "last" <=> q.rule = "before" /\ q.table = "Block"
                   /\ Head(q.queries) = "block" <=> q.rule = "transactions" /\ q.filter.by = "block"
                   /\ Head(q.queries) = "token" => q.rule = "once"
  OBVIOUS
<1>0. Shape(q)
  BY Shapes
<1> USE DEF TellsIfLast
<1>1. CASE q.rule = "transactions"
  BY <1>0, <1>1, Begins DEF Shape
<1>2. CASE q.rule \in {"internal", "address", "count", "shown"}
  BY <1>0, <1>2, Begins DEF Shape
<1>3. CASE q.rule = "before"
  <2>1. /\ q = BlockList => q.table = "Block"
        /\ q = MainStats => q.table = "Transaction"
    BY DEF BlockList, MainStats, List, JoinedList
  <2> QED
    BY <1>0, <1>3, <2>1, Begins DEF Shape
<1>4. CASE q.rule = "whole"
  <2>1. q = StateBatchDetail(q.filter.value) => q.table = "StateBatch"
    BY DEF StateBatchDetail, List, JoinedList
  <2> QED
    BY <1>0, <1>4, <2>1, Begins DEF Shape
<1>5. CASE q.rule = "detail"
  BY <1>0, <1>5, Begins DEF Shape
<1>6. CASE q.rule \in {"after", "uncached", "once"}
  BY <1>0, <1>6, Begins DEF Shape
<1>7. CASE q.rule = "export"
  BY <1>0, <1>7, Begins DEF Shape
<1> QED
  BY <1>0, <1>1, <1>2, <1>3, <1>4, <1>5, <1>6, <1>7 DEF Shape

(* How far a request is: what it asks next, and of the two counts that it  *)
(* sums up, whether it has the other one.                                  *)
FirstCount == {<<"recent", "statistics", "answer">>, <<"recent", "statistics", "rows", "answer">>, <<"statistics", "recent", "answer">>, <<"statistics", "recent", "rows", "answer">>}
SecondStatistics == {<<"statistics", "answer">>, <<"statistics", "rows", "answer">>}
SecondRecent == {<<"recent", "answer">>, <<"recent", "rows", "answer">>}
Stage(t) ==
  IF t = <<"answer">> THEN "answer"
  ELSE IF t \in FirstCount THEN "first"
  ELSE IF t \in SecondStatistics THEN "second_statistics"
  ELSE IF t \in SecondRecent THEN "second_recent"
  ELSE Head(t)

OfTransfers(q) == q.rule = "before" /\ q.table = "TokenTransfer"
OfStats(q)     == q.rule = "before" /\ q.table = "Transaction"
OfBlocks(q)    == q.rule = "before" /\ q.table = "Block"

(* The query h of stage s comes before stage n.                            *)
Follow(q, h, s, n) ==
  \/ h = "answer" /\ s = "answer"
  \/ /\ h = "rows" /\ s = "rows"
     /\ \/ q.rule \in {"transactions", "internal", "after", "uncached", "address", "count", "shown", "once"}
        \/ OfTransfers(q)
  \/ h = "metadata" /\ s = "metadata" /\ n = "first"
  \/ h = "recent" /\ s = "first" /\ n = "second_statistics"
  \/ h = "statistics" /\ s = "first" /\ n = "second_recent"
  \/ /\ h = "statistics" /\ s = "second_statistics"
     /\ \/ n = "answer" /\ q.rule = "address"
        \/ n = "rows" /\ q.rule = "transactions" /\ q.filter.by = "address"
  \/ /\ h = "recent" /\ s = "second_recent"
     /\ ((n = "answer" /\ q.rule = "once") \/ (n = "rows" /\ OfTransfers(q)))
  \/ h = "daily" /\ s = "daily" /\ n = "later" /\ (q.rule = "transactions" \/ OfStats(q))
  \/ /\ h = "later" /\ s = "later"
     /\ ((n = "answer" /\ q.rule = "transactions") \/ (n = "newest" /\ OfStats(q)))
  \/ h = "newest" /\ s = "newest" /\ n = "answer" /\ OfStats(q)
  \/ /\ h = "count" /\ s = "count" /\ n = "answer"
     /\ \/ q.rule \in {"transactions", "internal", "count"}
        \/ q.rule \in {"after", "uncached"} /\ q.table # "StateBatch"
  \/ /\ h = "shown" /\ s = "shown" /\ n = "answer"
     /\ q.rule \in {"transactions", "internal", "address", "count", "shown"}
  \/ /\ h = "estimate" /\ s = "estimate"
     /\ ((n = "answer" /\ q.rule = "internal") \/ (n = "rows" /\ OfTransfers(q)))
  \/ h = "block" /\ s = "block" /\ n = "rows" /\ q.rule = "transactions" /\ q.filter.by = "block"
  \/ h = "token" /\ s = "token" /\ n = "rows" /\ q.rule = "once"
  \/ h = "last" /\ s = "last" /\ n = "numbers" /\ OfBlocks(q)
  \/ h = "numbers" /\ s = "numbers" /\ n = "answer" /\ OfBlocks(q)
  \/ /\ h = "index" /\ s = "index" /\ n = "answer"
     /\ q.rule \in {"after", "uncached"} /\ q.table = "StateBatch"
  \/ /\ h = "all" /\ s = "all"
     /\ \/ n = "answer" /\ q.rule = "whole" /\ q.table # "StateBatch"
        \/ n = "is_last" /\ q.rule = "whole" /\ q.table = "StateBatch"
        \/ n = "earlier" /\ q.rule = "detail"
  \/ h = "earlier" /\ s = "earlier" /\ n = "is_last" /\ q.rule = "detail"
  \/ h = "is_last" /\ s = "is_last" /\ n = "answer" /\ TellsIfLast(q)
  \/ q.rule = "export" /\ h \notin {"answer", "rows"} /\ h = s

(* The queries come in these orders.                                       *)
LEMMA Follows ==
  ASSUME NEW q, NEW t, OnTrack(q, t), t # <<>>
  PROVE  Follow(q, Head(t), Stage(t), Stage(Tail(t)))
<1>1. CASE q.rule = "transactions" /\ TransactionsLeft(q, t)
  <2>1. CASE t = <<"rows", "answer">>
    <3>1. Head(t) = "rows" /\ Stage(t) = "rows"
      BY <2>1 DEF Stage, FirstCount, SecondStatistics, SecondRecent
    <3> QED
      BY <1>1, <2>1, <3>1 DEF Follow, TellsIfLast, OfTransfers, OfStats, OfBlocks, TransactionsLeft, CountingAll, CountingFirst
  <2>2. CASE t = <<"shown", "answer">>
    <3>1. Head(t) = "shown" /\ Stage(t) = "shown" /\ Stage(Tail(t)) = "answer"
      BY <2>2 DEF Stage, FirstCount, SecondStatistics, SecondRecent
    <3> QED
      BY <1>1, <2>2, <3>1 DEF Follow, TellsIfLast, OfTransfers, OfStats, OfBlocks, TransactionsLeft, CountingAll, CountingFirst
  <2>3. CASE t = <<"count", "answer">>
    <3>1. Head(t) = "count" /\ Stage(t) = "count" /\ Stage(Tail(t)) = "answer"
      BY <2>3 DEF Stage, FirstCount, SecondStatistics, SecondRecent
    <3> QED
      BY <1>1, <2>3, <3>1 DEF Follow, TellsIfLast, OfTransfers, OfStats, OfBlocks, TransactionsLeft, CountingAll, CountingFirst
  <2>4. CASE t = <<"block", "rows", "answer">>
    <3>1. Head(t) = "block" /\ Stage(t) = "block" /\ Stage(Tail(t)) = "rows"
      BY <2>4 DEF Stage, FirstCount, SecondStatistics, SecondRecent
    <3> QED
      BY <1>1, <2>4, <3>1 DEF Follow, TellsIfLast, OfTransfers, OfStats, OfBlocks, TransactionsLeft, CountingAll, CountingFirst
  <2>5. CASE t = <<"daily", "later", "answer">>
    <3>1. Head(t) = "daily" /\ Stage(t) = "daily" /\ Stage(Tail(t)) = "later"
      BY <2>5 DEF Stage, FirstCount, SecondStatistics, SecondRecent
    <3> QED
      BY <1>1, <2>5, <3>1 DEF Follow, TellsIfLast, OfTransfers, OfStats, OfBlocks, TransactionsLeft, CountingAll, CountingFirst
  <2>6. CASE t = <<"later", "answer">>
    <3>1. Head(t) = "later" /\ Stage(t) = "later" /\ Stage(Tail(t)) = "answer"
      BY <2>6 DEF Stage, FirstCount, SecondStatistics, SecondRecent
    <3> QED
      BY <1>1, <2>6, <3>1 DEF Follow, TellsIfLast, OfTransfers, OfStats, OfBlocks, TransactionsLeft, CountingAll, CountingFirst
  <2>7. CASE t = <<"metadata", "recent", "statistics", "rows", "answer">>
    <3>1. Head(t) = "metadata" /\ Stage(t) = "metadata" /\ Stage(Tail(t)) = "first"
      BY <2>7 DEF Stage, FirstCount, SecondStatistics, SecondRecent
    <3> QED
      BY <1>1, <2>7, <3>1 DEF Follow, TellsIfLast, OfTransfers, OfStats, OfBlocks, TransactionsLeft, CountingAll, CountingFirst
  <2>8. CASE t = <<"recent", "statistics", "rows", "answer">>
    <3>1. Head(t) = "recent" /\ Stage(t) = "first" /\ Stage(Tail(t)) = "second_statistics"
      BY <2>8 DEF Stage, FirstCount, SecondStatistics, SecondRecent
    <3> QED
      BY <1>1, <2>8, <3>1 DEF Follow, TellsIfLast, OfTransfers, OfStats, OfBlocks, TransactionsLeft, CountingAll, CountingFirst
  <2>9. CASE t = <<"statistics", "rows", "answer">>
    <3>1. Head(t) = "statistics" /\ Stage(t) = "second_statistics" /\ Stage(Tail(t)) = "rows"
      BY <2>9 DEF Stage, FirstCount, SecondStatistics, SecondRecent
    <3> QED
      BY <1>1, <2>9, <3>1 DEF Follow, TellsIfLast, OfTransfers, OfStats, OfBlocks, TransactionsLeft, CountingAll, CountingFirst
  <2> QED
    BY <1>1, <2>1, <2>2, <2>3, <2>4, <2>5, <2>6, <2>7, <2>8, <2>9 DEF TransactionsLeft, CountingAll, CountingFirst
<1>2. CASE q.rule = "internal" /\ InternalLeft(t)
  <2>1. CASE t = <<"rows", "answer">>
    <3>1. Head(t) = "rows" /\ Stage(t) = "rows"
      BY <2>1 DEF Stage, FirstCount, SecondStatistics, SecondRecent
    <3> QED
      BY <1>2, <3>1 DEF Follow, OfTransfers, OfStats, OfBlocks, TellsIfLast
  <2>2. CASE t = <<"shown", "answer">>
    <3>1. Head(t) = "shown" /\ Stage(t) = "shown" /\ Stage(Tail(t)) = "answer"
      BY <2>2 DEF Stage, FirstCount, SecondStatistics, SecondRecent
    <3> QED
      BY <1>2, <3>1 DEF Follow, OfTransfers, OfStats, OfBlocks, TellsIfLast
  <2>3. CASE t = <<"count", "answer">>
    <3>1. Head(t) = "count" /\ Stage(t) = "count" /\ Stage(Tail(t)) = "answer"
      BY <2>3 DEF Stage, FirstCount, SecondStatistics, SecondRecent
    <3> QED
      BY <1>2, <3>1 DEF Follow, OfTransfers, OfStats, OfBlocks, TellsIfLast
  <2>4. CASE t = <<"estimate", "answer">>
    <3>1. Head(t) = "estimate" /\ Stage(t) = "estimate" /\ Stage(Tail(t)) = "answer"
      BY <2>4 DEF Stage, FirstCount, SecondStatistics, SecondRecent
    <3> QED
      BY <1>2, <3>1 DEF Follow, OfTransfers, OfStats, OfBlocks, TellsIfLast
  <2> QED
    BY <1>2, <2>1, <2>2, <2>3, <2>4 DEF InternalLeft
<1>3. CASE q.rule = "before" /\ q.table = "Block" /\ BlocksLeft(t)
  <2>1. CASE t = <<"last", "numbers", "answer">>
    <3>1. Head(t) = "last" /\ Stage(t) = "last" /\ Stage(Tail(t)) = "numbers"
      BY <2>1 DEF Stage, FirstCount, SecondStatistics, SecondRecent
    <3> QED
      BY <1>3, <3>1 DEF Follow, OfTransfers, OfStats, OfBlocks, TellsIfLast
  <2>2. CASE t = <<"numbers", "answer">>
    <3>1. Head(t) = "numbers" /\ Stage(t) = "numbers" /\ Stage(Tail(t)) = "answer"
      BY <2>2 DEF Stage, FirstCount, SecondStatistics, SecondRecent
    <3> QED
      BY <1>3, <3>1 DEF Follow, OfTransfers, OfStats, OfBlocks, TellsIfLast
  <2> QED
    BY <1>3, <2>1, <2>2 DEF BlocksLeft
<1>4. CASE q.rule = "before" /\ q.table = "Transaction" /\ StatsLeft(t)
  <2>1. CASE t = <<"daily", "later", "newest", "answer">>
    <3>1. Head(t) = "daily" /\ Stage(t) = "daily" /\ Stage(Tail(t)) = "later"
      BY <2>1 DEF Stage, FirstCount, SecondStatistics, SecondRecent
    <3> QED
      BY <1>4, <3>1 DEF Follow, OfTransfers, OfStats, OfBlocks, TellsIfLast
  <2>2. CASE t = <<"later", "newest", "answer">>
    <3>1. Head(t) = "later" /\ Stage(t) = "later" /\ Stage(Tail(t)) = "newest"
      BY <2>2 DEF Stage, FirstCount, SecondStatistics, SecondRecent
    <3> QED
      BY <1>4, <3>1 DEF Follow, OfTransfers, OfStats, OfBlocks, TellsIfLast
  <2>3. CASE t = <<"newest", "answer">>
    <3>1. Head(t) = "newest" /\ Stage(t) = "newest" /\ Stage(Tail(t)) = "answer"
      BY <2>3 DEF Stage, FirstCount, SecondStatistics, SecondRecent
    <3> QED
      BY <1>4, <3>1 DEF Follow, OfTransfers, OfStats, OfBlocks, TellsIfLast
  <2> QED
    BY <1>4, <2>1, <2>2, <2>3 DEF StatsLeft
<1>5. CASE q.rule = "before" /\ q.table = "TokenTransfer" /\ TransfersLeft(q, t)
  <2>1. CASE t = <<"rows", "answer">>
    <3>1. Head(t) = "rows" /\ Stage(t) = "rows"
      BY <2>1 DEF Stage, FirstCount, SecondStatistics, SecondRecent
    <3> QED
      BY <1>5, <2>1, <3>1 DEF Follow, TellsIfLast, OfTransfers, OfStats, OfBlocks, TransfersLeft, CountingTransfersFirst
  <2>2. CASE t = <<"estimate", "rows", "answer">>
    <3>1. Head(t) = "estimate" /\ Stage(t) = "estimate" /\ Stage(Tail(t)) = "rows"
      BY <2>2 DEF Stage, FirstCount, SecondStatistics, SecondRecent
    <3> QED
      BY <1>5, <2>2, <3>1 DEF Follow, TellsIfLast, OfTransfers, OfStats, OfBlocks, TransfersLeft, CountingTransfersFirst
  <2>3. CASE t = <<"metadata", "statistics", "recent", "rows", "answer">>
    <3>1. Head(t) = "metadata" /\ Stage(t) = "metadata" /\ Stage(Tail(t)) = "first"
      BY <2>3 DEF Stage, FirstCount, SecondStatistics, SecondRecent
    <3> QED
      BY <1>5, <2>3, <3>1 DEF Follow, TellsIfLast, OfTransfers, OfStats, OfBlocks, TransfersLeft, CountingTransfersFirst
  <2>4. CASE t = <<"statistics", "recent", "rows", "answer">>
    <3>1. Head(t) = "statistics" /\ Stage(t) = "first" /\ Stage(Tail(t)) = "second_recent"
      BY <2>4 DEF Stage, FirstCount, SecondStatistics, SecondRecent
    <3> QED
      BY <1>5, <2>4, <3>1 DEF Follow, TellsIfLast, OfTransfers, OfStats, OfBlocks, TransfersLeft, CountingTransfersFirst
  <2>5. CASE t = <<"recent", "rows", "answer">>
    <3>1. Head(t) = "recent" /\ Stage(t) = "second_recent" /\ Stage(Tail(t)) = "rows"
      BY <2>5 DEF Stage, FirstCount, SecondStatistics, SecondRecent
    <3> QED
      BY <1>5, <2>5, <3>1 DEF Follow, TellsIfLast, OfTransfers, OfStats, OfBlocks, TransfersLeft, CountingTransfersFirst
  <2> QED
    BY <1>5, <2>1, <2>2, <2>3, <2>4, <2>5 DEF TransfersLeft, CountingTransfersFirst
<1>6. CASE q.rule = "whole" /\ WholeLeft(q, t)
  <2>1. CASE t = <<"all", "answer">>
    <3>1. Head(t) = "all" /\ Stage(t) = "all" /\ Stage(Tail(t)) = "answer"
      BY <2>1 DEF Stage, FirstCount, SecondStatistics, SecondRecent
    <3> QED
      BY <1>6, <2>1, <3>1 DEF Follow, TellsIfLast, OfTransfers, OfStats, OfBlocks, WholeLeft
  <2>2. CASE t = <<"all", "is_last", "answer">>
    <3>1. Head(t) = "all" /\ Stage(t) = "all" /\ Stage(Tail(t)) = "is_last"
      BY <2>2 DEF Stage, FirstCount, SecondStatistics, SecondRecent
    <3> QED
      BY <1>6, <2>2, <3>1 DEF Follow, TellsIfLast, OfTransfers, OfStats, OfBlocks, WholeLeft
  <2>3. CASE t = <<"is_last", "answer">>
    <3>1. Head(t) = "is_last" /\ Stage(t) = "is_last" /\ Stage(Tail(t)) = "answer"
      BY <2>3 DEF Stage, FirstCount, SecondStatistics, SecondRecent
    <3> QED
      BY <1>6, <2>3, <3>1 DEF Follow, TellsIfLast, OfTransfers, OfStats, OfBlocks, WholeLeft
  <2> QED
    BY <1>6, <2>1, <2>2, <2>3 DEF WholeLeft
<1>7. CASE q.rule = "detail" /\ DetailLeft(t)
  <2>1. CASE t = <<"all", "earlier", "is_last", "answer">>
    <3>1. Head(t) = "all" /\ Stage(t) = "all" /\ Stage(Tail(t)) = "earlier"
      BY <2>1 DEF Stage, FirstCount, SecondStatistics, SecondRecent
    <3> QED
      BY <1>7, <3>1 DEF Follow, OfTransfers, OfStats, OfBlocks, TellsIfLast
  <2>2. CASE t = <<"earlier", "is_last", "answer">>
    <3>1. Head(t) = "earlier" /\ Stage(t) = "earlier" /\ Stage(Tail(t)) = "is_last"
      BY <2>2 DEF Stage, FirstCount, SecondStatistics, SecondRecent
    <3> QED
      BY <1>7, <3>1 DEF Follow, OfTransfers, OfStats, OfBlocks, TellsIfLast
  <2>3. CASE t = <<"is_last", "answer">>
    <3>1. Head(t) = "is_last" /\ Stage(t) = "is_last" /\ Stage(Tail(t)) = "answer"
      BY <2>3 DEF Stage, FirstCount, SecondStatistics, SecondRecent
    <3> QED
      BY <1>7, <3>1 DEF Follow, OfTransfers, OfStats, OfBlocks, TellsIfLast
  <2> QED
    BY <1>7, <2>1, <2>2, <2>3 DEF DetailLeft
<1>8. CASE q.rule \in {"after", "uncached"} /\ AfterLeft(q, t)
  <2>1. CASE t = <<"rows", "count", "answer">>
    <3>1. Head(t) = "rows" /\ Stage(t) = "rows"
      BY <2>1 DEF Stage, FirstCount, SecondStatistics, SecondRecent
    <3> QED
      BY <1>8, <2>1, <3>1 DEF Follow, TellsIfLast, OfTransfers, OfStats, OfBlocks, AfterLeft
  <2>2. CASE t = <<"count", "answer">>
    <3>1. Head(t) = "count" /\ Stage(t) = "count" /\ Stage(Tail(t)) = "answer"
      BY <2>2 DEF Stage, FirstCount, SecondStatistics, SecondRecent
    <3> QED
      BY <1>8, <2>2, <3>1 DEF Follow, TellsIfLast, OfTransfers, OfStats, OfBlocks, AfterLeft
  <2>3. CASE t = <<"rows", "index", "answer">>
    <3>1. Head(t) = "rows" /\ Stage(t) = "rows"
      BY <2>3 DEF Stage, FirstCount, SecondStatistics, SecondRecent
    <3> QED
      BY <1>8, <2>3, <3>1 DEF Follow, TellsIfLast, OfTransfers, OfStats, OfBlocks, AfterLeft
  <2>4. CASE t = <<"index", "answer">>
    <3>1. Head(t) = "index" /\ Stage(t) = "index" /\ Stage(Tail(t)) = "answer"
      BY <2>4 DEF Stage, FirstCount, SecondStatistics, SecondRecent
    <3> QED
      BY <1>8, <2>4, <3>1 DEF Follow, TellsIfLast, OfTransfers, OfStats, OfBlocks, AfterLeft
  <2> QED
    BY <1>8, <2>1, <2>2, <2>3, <2>4 DEF AfterLeft
<1>9. CASE q.rule = "address" /\ AddressLeft(t)
  <2>1. CASE t = <<"rows", "answer">>
    <3>1. Head(t) = "rows" /\ Stage(t) = "rows"
      BY <2>1 DEF Stage, FirstCount, SecondStatistics, SecondRecent
    <3> QED
      BY <1>9, <3>1 DEF Follow, OfTransfers, OfStats, OfBlocks, TellsIfLast
  <2>2. CASE t = <<"shown", "answer">>
    <3>1. Head(t) = "shown" /\ Stage(t) = "shown" /\ Stage(Tail(t)) = "answer"
      BY <2>2 DEF Stage, FirstCount, SecondStatistics, SecondRecent
    <3> QED
      BY <1>9, <3>1 DEF Follow, OfTransfers, OfStats, OfBlocks, TellsIfLast
  <2>3. CASE t = <<"metadata", "recent", "statistics", "answer">>
    <3>1. Head(t) = "metadata" /\ Stage(t) = "metadata" /\ Stage(Tail(t)) = "first"
      BY <2>3 DEF Stage, FirstCount, SecondStatistics, SecondRecent
    <3> QED
      BY <1>9, <3>1 DEF Follow, OfTransfers, OfStats, OfBlocks, TellsIfLast
  <2>4. CASE t = <<"recent", "statistics", "answer">>
    <3>1. Head(t) = "recent" /\ Stage(t) = "first" /\ Stage(Tail(t)) = "second_statistics"
      BY <2>4 DEF Stage, FirstCount, SecondStatistics, SecondRecent
    <3> QED
      BY <1>9, <3>1 DEF Follow, OfTransfers, OfStats, OfBlocks, TellsIfLast
  <2>5. CASE t = <<"statistics", "answer">>
    <3>1. Head(t) = "statistics" /\ Stage(t) = "second_statistics" /\ Stage(Tail(t)) = "answer"
      BY <2>5 DEF Stage, FirstCount, SecondStatistics, SecondRecent
    <3> QED
      BY <1>9, <3>1 DEF Follow, OfTransfers, OfStats, OfBlocks, TellsIfLast
  <2> QED
    BY <1>9, <2>1, <2>2, <2>3, <2>4, <2>5 DEF AddressLeft, Counting
<1>10. CASE q.rule = "count" /\ CountLeft(t)
  <2>1. CASE t = <<"rows", "answer">>
    <3>1. Head(t) = "rows" /\ Stage(t) = "rows"
      BY <2>1 DEF Stage, FirstCount, SecondStatistics, SecondRecent
    <3> QED
      BY <1>10, <3>1 DEF Follow, OfTransfers, OfStats, OfBlocks, TellsIfLast
  <2>2. CASE t = <<"shown", "answer">>
    <3>1. Head(t) = "shown" /\ Stage(t) = "shown" /\ Stage(Tail(t)) = "answer"
      BY <2>2 DEF Stage, FirstCount, SecondStatistics, SecondRecent
    <3> QED
      BY <1>10, <3>1 DEF Follow, OfTransfers, OfStats, OfBlocks, TellsIfLast
  <2>3. CASE t = <<"count", "answer">>
    <3>1. Head(t) = "count" /\ Stage(t) = "count" /\ Stage(Tail(t)) = "answer"
      BY <2>3 DEF Stage, FirstCount, SecondStatistics, SecondRecent
    <3> QED
      BY <1>10, <3>1 DEF Follow, OfTransfers, OfStats, OfBlocks, TellsIfLast
  <2> QED
    BY <1>10, <2>1, <2>2, <2>3 DEF CountLeft
<1>11. CASE q.rule = "shown" /\ ShownLeft(t)
  <2>1. CASE t = <<"rows", "answer">>
    <3>1. Head(t) = "rows" /\ Stage(t) = "rows"
      BY <2>1 DEF Stage, FirstCount, SecondStatistics, SecondRecent
    <3> QED
      BY <1>11, <3>1 DEF Follow, OfTransfers, OfStats, OfBlocks, TellsIfLast
  <2>2. CASE t = <<"shown", "answer">>
    <3>1. Head(t) = "shown" /\ Stage(t) = "shown" /\ Stage(Tail(t)) = "answer"
      BY <2>2 DEF Stage, FirstCount, SecondStatistics, SecondRecent
    <3> QED
      BY <1>11, <3>1 DEF Follow, OfTransfers, OfStats, OfBlocks, TellsIfLast
  <2> QED
    BY <1>11, <2>1, <2>2 DEF ShownLeft
<1>12. CASE q.rule = "once" /\ OnceLeft(t)
  <2>1. CASE t = <<"rows", "metadata", "statistics", "recent", "answer">>
    <3>1. Head(t) = "rows" /\ Stage(t) = "rows"
      BY <2>1 DEF Stage, FirstCount, SecondStatistics, SecondRecent
    <3> QED
      BY <1>12, <3>1 DEF Follow, OfTransfers, OfStats, OfBlocks, TellsIfLast
  <2>2. CASE t = <<"token", "rows", "metadata", "statistics", "recent", "answer">>
    <3>1. Head(t) = "token" /\ Stage(t) = "token" /\ Stage(Tail(t)) = "rows"
      BY <2>2 DEF Stage, FirstCount, SecondStatistics, SecondRecent
    <3> QED
      BY <1>12, <3>1 DEF Follow, OfTransfers, OfStats, OfBlocks, TellsIfLast
  <2>3. CASE t = <<"metadata", "statistics", "recent", "answer">>
    <3>1. Head(t) = "metadata" /\ Stage(t) = "metadata" /\ Stage(Tail(t)) = "first"
      BY <2>3 DEF Stage, FirstCount, SecondStatistics, SecondRecent
    <3> QED
      BY <1>12, <3>1 DEF Follow, OfTransfers, OfStats, OfBlocks, TellsIfLast
  <2>4. CASE t = <<"statistics", "recent", "answer">>
    <3>1. Head(t) = "statistics" /\ Stage(t) = "first" /\ Stage(Tail(t)) = "second_recent"
      BY <2>4 DEF Stage, FirstCount, SecondStatistics, SecondRecent
    <3> QED
      BY <1>12, <3>1 DEF Follow, OfTransfers, OfStats, OfBlocks, TellsIfLast
  <2>5. CASE t = <<"recent", "answer">>
    <3>1. Head(t) = "recent" /\ Stage(t) = "second_recent" /\ Stage(Tail(t)) = "answer"
      BY <2>5 DEF Stage, FirstCount, SecondStatistics, SecondRecent
    <3> QED
      BY <1>12, <3>1 DEF Follow, OfTransfers, OfStats, OfBlocks, TellsIfLast
  <2> QED
    BY <1>12, <2>1, <2>2, <2>3, <2>4, <2>5 DEF OnceLeft, CountingTransfers
<1>13. CASE q.rule = "export" /\ ExportLeft(t)
  <2>1. CASE t = <<"first_block", "last_block", "range", "answer">>
    <3>1. Head(t) = "first_block" /\ Stage(t) = "first_block" /\ Stage(Tail(t)) = "last_block"
      BY <2>1 DEF Stage, FirstCount, SecondStatistics, SecondRecent
    <3> QED
      BY <1>13, <3>1 DEF Follow, OfTransfers, OfStats, OfBlocks, TellsIfLast
  <2>2. CASE t = <<"last_block", "range", "answer">>
    <3>1. Head(t) = "last_block" /\ Stage(t) = "last_block" /\ Stage(Tail(t)) = "range"
      BY <2>2 DEF Stage, FirstCount, SecondStatistics, SecondRecent
    <3> QED
      BY <1>13, <3>1 DEF Follow, OfTransfers, OfStats, OfBlocks, TellsIfLast
  <2>3. CASE t = <<"range", "answer">>
    <3>1. Head(t) = "range" /\ Stage(t) = "range" /\ Stage(Tail(t)) = "answer"
      BY <2>3 DEF Stage, FirstCount, SecondStatistics, SecondRecent
    <3> QED
      BY <1>13, <3>1 DEF Follow, OfTransfers, OfStats, OfBlocks, TellsIfLast
  <2>4. CASE t = <<"first_block", "last_block", "range", "tokens", "answer">>
    <3>1. Head(t) = "first_block" /\ Stage(t) = "first_block" /\ Stage(Tail(t)) = "last_block"
      BY <2>4 DEF Stage, FirstCount, SecondStatistics, SecondRecent
    <3> QED
      BY <1>13, <3>1 DEF Follow, OfTransfers, OfStats, OfBlocks, TellsIfLast
  <2>5. CASE t = <<"last_block", "range", "tokens", "answer">>
    <3>1. Head(t) = "last_block" /\ Stage(t) = "last_block" /\ Stage(Tail(t)) = "range"
      BY <2>5 DEF Stage, FirstCount, SecondStatistics, SecondRecent
    <3> QED
      BY <1>13, <3>1 DEF Follow, OfTransfers, OfStats, OfBlocks, TellsIfLast
  <2>6. CASE t = <<"range", "tokens", "answer">>
    <3>1. Head(t) = "range" /\ Stage(t) = "range" /\ Stage(Tail(t)) = "tokens"
      BY <2>6 DEF Stage, FirstCount, SecondStatistics, SecondRecent
    <3> QED
      BY <1>13, <3>1 DEF Follow, OfTransfers, OfStats, OfBlocks, TellsIfLast
  <2>7. CASE t = <<"tokens", "answer">>
    <3>1. Head(t) = "tokens" /\ Stage(t) = "tokens" /\ Stage(Tail(t)) = "answer"
      BY <2>7 DEF Stage, FirstCount, SecondStatistics, SecondRecent
    <3> QED
      BY <1>13, <3>1 DEF Follow, OfTransfers, OfStats, OfBlocks, TellsIfLast
  <2> QED
    BY <1>13, <2>1, <2>2, <2>3, <2>4, <2>5, <2>6, <2>7 DEF ExportLeft
<1>14. CASE t = <<"answer">>
  <2>1. Head(t) = "answer" /\ Stage(t) = "answer"
    BY <1>14 DEF Stage
  <2> QED
    BY <2>1 DEF Follow
<1> QED
  BY <1>1, <1>2, <1>3, <1>4, <1>5, <1>6, <1>7, <1>8, <1>9, <1>10, <1>11, <1>12, <1>13, <1>14 DEF OnTrack

(* What a request sees of the tables and of the statistics.                *)
AllTransactions == {r \in stored : r.kind = "Transaction"}
View == [m |-> Matching, all |-> AllTransactions, day |-> aggregated,
         latest |-> Latest, block |-> LastBlock, index |-> LastIndex]

Through(S, d) == {r \in S : DayOf[r.block] <= d}
After(S, d) == {r \in S : DayOf[r.block] > d}
Between(S, c, d) == {r \in S : c < DayOf[r.block] /\ DayOf[r.block] <= d}

IsView(q, v) ==
  /\ v.m \in SUBSET Rows /\ v.all \in SUBSET Rows /\ v.day \in Nat
  /\ v.latest \in Nat /\ v.block \in Nat /\ v.index \in Nat
  /\ (q.table = "Transaction" /\ q.filter.by = "none") => v.all = v.m
  /\ (q.rule = "transactions" /\ q.filter.by = "block") =>
       Cardinality(v.m) <= TransactionsCount(q.filter.value)
  /\ (q.table = "StateBatch" /\ q.rule # "whole") => Cardinality(v.m) - 1 <= v.index
  /\ OfBlocks(q) => v.latest = v.block
  /\ (TellsIfLast(q) /\ v.m # {}) => q.filter.value <= v.latest

(* The view w is a later one than v.                                       *)
Onward(v, w) ==
  /\ v.m \subseteq w.m /\ v.all \subseteq w.all /\ v.day <= w.day
  /\ v.latest <= w.latest /\ v.block <= w.block /\ v.index <= w.index

(* What is known of a total: of one that is summed up, of one in general.  *)
SummedIn(v, a) ==
  /\ Cardinality(a.had) <= a.total
  /\ a.total <= Cardinality(v.m) + Cardinality(Between(v.m, a.days, v.day))

SoundIn(q, v, a, p) ==
  (/\ a.found /\ ~a.rough /\ q.rule \notin {"shown", "export"}
   /\ ~(q.filter.by = "date" /\ p > 1 /\ a.rows = {}))
  => IF TellsIfLast(q) THEN \/ a.total = 0 /\ v.latest > q.filter.value
                            \/ a.total = 1 /\ a.latest <= q.filter.value
     ELSE IF OfBlocks(q) THEN a.latest <= a.total /\ a.total <= v.block
     ELSE IF q.table = "StateBatch" THEN Cardinality(a.had) - 1 <= a.total /\ a.total <= v.index
     ELSE IF q.rule = "transactions" /\ q.filter.by = "block"
          THEN Cardinality(a.had) <= a.total /\ a.total <= TransactionsCount(q.filter.value)
     ELSE SummedIn(v, a)

KeptIn(q, v, a) ==
  /\ a.had \subseteq v.m /\ a.latest <= v.latest /\ a.days <= v.day
  /\ q.rule # "export" => a.rows \subseteq v.m

(* What is known of what a request has read when it is at a stage.         *)
SinceIn(v, g) == g.days <= g.since /\ g.since <= v.day
RowsReady(q, v, g) ==
  /\ q.rule = "transactions" =>
       /\ q.filter.by \in {"none", "date"} => g.total = 0
       /\ q.filter.by = "block" =>
            Cardinality(g.had) <= g.total /\ g.total <= TransactionsCount(q.filter.value)
       /\ q.filter.by = "address" => SummedIn(v, g)
  /\ q.rule = "before" => (g.rough \/ SummedIn(v, g))
  /\ q.rule \in {"address", "once"} => g.total = 0

OnCourse(q, v, g, p, s) ==
  q.rule \notin {"shown", "export"} =>
  /\ s = "answer" => SoundIn(q, v, g, p)
  /\ s = "shown" => /\ Cardinality(g.had) <= Offset(p) + Cardinality(g.rows)
                    /\ Offset(p) + Cardinality(g.rows) <= Cardinality(v.m)
  /\ s \in {"daily", "later"} => \/ (q.table = "Transaction" /\ q.filter.by = "none")
                                 \/ (q.filter.by = "date" /\ p > 1 /\ g.rows = {})
  /\ (s = "later" /\ q.filter.by = "none") =>
       /\ Cardinality(Through(g.had, g.since)) <= g.total
       /\ g.total <= Cardinality(Through(v.all, g.since))
  /\ s = "newest" => SummedIn(v, g)
  /\ s = "numbers" => g.latest <= g.total /\ g.total <= v.block
  /\ s \in {"metadata", "token", "block", "first"} => g.total = 0
  /\ s \in {"first", "second_statistics", "second_recent"} => SinceIn(v, g)
  /\ s = "second_statistics" => /\ Cardinality(After(g.had, g.since)) <= g.total
                                /\ g.total <= Cardinality(After(v.m, g.since))
  /\ s = "second_recent" => /\ Cardinality(Through(g.had, g.since)) <= g.total
                            /\ g.total <= Cardinality(Through(v.m, v.day))
  /\ s = "rows" => RowsReady(q, v, g)
  /\ s \in {"earlier", "is_last"} => TellsIfLast(q) /\ q.filter.value <= v.latest
  /\ (q.rule = "transactions" /\ p > 1) => g.had # {}
  /\ q.rule \in OnePage => p = 1

(* Sets of rows: sizes, and how one is made up of two.                     *)
LEMMA Sizes ==
  /\ \A S \in SUBSET Rows : IsFiniteSet(S) /\ Cardinality(S) \in Nat /\ (S = {} <=> Cardinality(S) = 0)
  /\ \A S \in SUBSET Rows : \A T \in SUBSET S : T \in SUBSET Rows /\ Cardinality(T) <= Cardinality(S)
<1>1. \A S \in SUBSET Rows : IsFiniteSet(S) /\ Cardinality(S) \in Nat
  BY RecordsAssumption, FS_Subset, FS_CardinalityType
<1>2. \A S \in SUBSET Rows : (S = {} <=> Cardinality(S) = 0)
  BY <1>1, FS_EmptySet
<1>3. \A S \in SUBSET Rows : \A T \in SUBSET S : T \in SUBSET Rows /\ Cardinality(T) <= Cardinality(S)
  BY <1>1, FS_Subset
<1> QED
  BY <1>1, <1>2, <1>3

(* Rows have days.                                                         *)
LEMMA DaysOfRows == \A r \in Rows : DayOf[r.block] \in Nat
<1>1. \A r \in Rows : r.block \in Blocks
  BY RecordsAssumption DEF Blocks
<1> QED
  BY <1>1, ExplorerAssumption DEF Days

(* Some rows are those up to a day and those after it.                     *)
LEMMA Split ==
  ASSUME NEW S \in SUBSET Rows, NEW d \in Nat
  PROVE  /\ Cardinality(S) = Cardinality(Through(S, d)) + Cardinality(After(S, d))
         /\ Through(S, d) \in SUBSET S /\ After(S, d) \in SUBSET S
<1> DEFINE A == Through(S, d)
           B == After(S, d)
<1>1. A \in SUBSET S /\ B \in SUBSET S
  BY DEF Through, After
<1>2. A \cup B = S /\ A \cap B = {}
  BY DaysOfRows DEF Through, After
<1>3. IsFiniteSet(A) /\ IsFiniteSet(B) /\ Cardinality(A) \in Nat /\ Cardinality(B) \in Nat
  BY <1>1, Sizes
<1> HIDE DEF A, B
<1>4. Cardinality(A \cup B) = Cardinality(A) + Cardinality(B) - Cardinality(A \cap B)
  BY <1>3, FS_Union
<1>5. Cardinality(A \cup B) = Cardinality(A) + Cardinality(B)
  <2>1. Cardinality(A \cap B) = 0
    BY <1>2, FS_EmptySet
  <2> QED
    BY <1>3, <1>4, <2>1
<1> QED
  BY <1>1, <1>2, <1>5 DEF A, B

(* Counting the days up to c and the days after d, both of which may be    *)
(* between: no less than all and no more than all and what is between.     *)
LEMMA Summing ==
  ASSUME NEW M \in SUBSET Rows, NEW a \in Nat, NEW d \in Nat, NEW c \in Nat, a <= d, d <= c
  PROVE  Cardinality(After(M, d)) + Cardinality(Through(M, c)) <= Cardinality(M) + Cardinality(Between(M, a, c))
<1> DEFINE A == After(M, d)
           B == Through(M, c)
<1>1. A \in SUBSET M /\ B \in SUBSET M
  BY DEF Through, After
<1>2. A \cup B \in SUBSET M /\ A \cap B \in SUBSET Between(M, a, c) /\ Between(M, a, c) \in SUBSET M
  BY DaysOfRows DEF Through, After, Between
<1>3. IsFiniteSet(A) /\ IsFiniteSet(B) /\ Cardinality(A) \in Nat /\ Cardinality(B) \in Nat
  BY <1>1, Sizes
<1> HIDE DEF A, B
<1>4. Cardinality(A \cup B) = Cardinality(A) + Cardinality(B) - Cardinality(A \cap B)
  BY <1>3, FS_Union
<1>5. /\ Cardinality(A \cup B) <= Cardinality(M)
      /\ Cardinality(A \cap B) <= Cardinality(Between(M, a, c))
      /\ Cardinality(A \cap B) \in Nat
  BY <1>2, Sizes
<1>6. /\ Cardinality(A \cup B) \in Nat /\ Cardinality(M) \in Nat
      /\ Cardinality(Between(M, a, c)) \in Nat
  BY <1>2, Sizes
<1> QED
  BY <1>3, <1>4, <1>5, <1>6 DEF A, B

(* What does not change while a request is answered.                       *)
SameRequest(g, h) == h.had = g.had /\ h.days = g.days /\ h.latest = g.latest

(* What is known of an answer stays true of later views.                   *)
LEMMA StaysTrue ==
  ASSUME NEW q \in Requests, NEW v, NEW w, IsView(q, v), IsView(q, w), Onward(v, w),
         NEW a \in AnswerType, KeptIn(q, v, a), NEW p \in Nat, NEW s
  PROVE  /\ KeptIn(q, w, a)
         /\ SoundIn(q, v, a, p) => SoundIn(q, w, a, p)
         /\ OnCourse(q, v, a, p, s) => OnCourse(q, w, a, p, s)
<1>1. /\ v.m \in SUBSET Rows /\ w.m \in SUBSET Rows /\ v.all \in SUBSET Rows /\ w.all \in SUBSET Rows
      /\ v.day \in Nat /\ w.day \in Nat /\ v.latest \in Nat /\ w.latest \in Nat
      /\ v.block \in Nat /\ w.block \in Nat /\ v.index \in Nat /\ w.index \in Nat
      /\ v.m \in SUBSET w.m /\ v.all \in SUBSET w.all /\ v.day <= w.day
      /\ v.latest <= w.latest /\ v.block <= w.block /\ v.index <= w.index
  BY DEF IsView, Onward
<1>2. /\ a.had \in SUBSET Rows /\ a.total \in Nat /\ a.since \in Nat /\ a.latest \in Nat /\ a.days \in Nat
      /\ a.had \subseteq v.m /\ a.latest <= v.latest /\ a.days <= v.day
  BY DEF AnswerType, KeptIn
<1>3. KeptIn(q, w, a)
  BY <1>1, <1>2 DEF KeptIn
<1>4. SummedIn(v, a) => SummedIn(w, a)
  <2>1. Between(v.m, a.days, v.day) \in SUBSET Between(w.m, a.days, w.day)
    <3> SUFFICES ASSUME NEW r \in Between(v.m, a.days, v.day) PROVE r \in Between(w.m, a.days, w.day)
      OBVIOUS
    <3>1. r \in v.m /\ a.days < DayOf[r.block] /\ DayOf[r.block] <= v.day
      BY DEF Between
    <3>2. DayOf[r.block] \in Nat /\ r \in w.m
      BY <1>1, <3>1, DaysOfRows
    <3> QED
      BY <1>1, <3>1, <3>2 DEF Between
  <2>2. Between(w.m, a.days, w.day) \in SUBSET Rows
    BY <1>1 DEF Between
  <2>3. /\ Cardinality(Between(v.m, a.days, v.day)) <= Cardinality(Between(w.m, a.days, w.day))
        /\ Cardinality(v.m) <= Cardinality(w.m)
        /\ Cardinality(v.m) \in Nat /\ Cardinality(w.m) \in Nat /\ Cardinality(a.had) \in Nat
        /\ Cardinality(Between(v.m, a.days, v.day)) \in Nat
        /\ Cardinality(Between(w.m, a.days, w.day)) \in Nat
    BY <1>1, <1>2, <2>1, <2>2, Sizes
  <2> QED
    BY <1>2, <2>3 DEF SummedIn
<1>5. TellsIfLast(q) => q.filter.value \in Nat
  <2>1. \A x : BlockDetail(x).table = "Block"
    BY DEF BlockDetail, List, JoinedList
  <2> QED
    BY Shapes DEF Shape, TellsIfLast
<1>6. SoundIn(q, v, a, p) => SoundIn(q, w, a, p)
  <2> SUFFICES ASSUME SoundIn(q, v, a, p) PROVE SoundIn(q, w, a, p)
    OBVIOUS
  <2>1. CASE TellsIfLast(q)
    BY <1>1, <1>2, <1>5, <2>1 DEF SoundIn
  <2>2. CASE ~TellsIfLast(q)
    BY <1>1, <1>2, <1>4, <2>2 DEF SoundIn
  <2> QED
    BY <2>1, <2>2
<1>7. ASSUME OnCourse(q, v, a, p, s) PROVE OnCourse(q, w, a, p, s)
  <2>1. /\ Cardinality(v.m) <= Cardinality(w.m)
        /\ Cardinality(v.m) \in Nat /\ Cardinality(w.m) \in Nat /\ Cardinality(a.rows) \in Nat
    BY <1>1, Sizes DEF AnswerType
  <2>2. /\ Through(v.all, a.since) \in SUBSET Through(w.all, a.since)
        /\ After(v.m, a.since) \in SUBSET After(w.m, a.since)
        /\ Through(w.all, a.since) \in SUBSET Rows /\ After(w.m, a.since) \in SUBSET Rows
        /\ Through(w.m, w.day) \in SUBSET Rows
    BY <1>1 DEF Through, After
  <2>3. Through(v.m, v.day) \in SUBSET Through(w.m, w.day)
    <3> SUFFICES ASSUME NEW r \in v.m, DayOf[r.block] <= v.day PROVE DayOf[r.block] <= w.day
      BY <1>1 DEF Through
    <3>1. DayOf[r.block] \in Nat
      BY <1>1, DaysOfRows
    <3> QED
      BY <1>1, <3>1
  <2>4. /\ Cardinality(Through(v.all, a.since)) <= Cardinality(Through(w.all, a.since))
        /\ Cardinality(After(v.m, a.since)) <= Cardinality(After(w.m, a.since))
        /\ Cardinality(Through(v.m, v.day)) <= Cardinality(Through(w.m, w.day))
        /\ Cardinality(Through(v.all, a.since)) \in Nat /\ Cardinality(Through(w.all, a.since)) \in Nat
        /\ Cardinality(After(v.m, a.since)) \in Nat /\ Cardinality(After(w.m, a.since)) \in Nat
        /\ Cardinality(Through(v.m, v.day)) \in Nat /\ Cardinality(Through(w.m, w.day)) \in Nat
    BY <2>2, <2>3, Sizes
  <2>5. Offset(p) \in Int
    <3>1. \A i, k \in Int : i * k \in Int
      OBVIOUS
    <3> QED
      BY <3>1, ExplorerAssumption DEF Offset
  <2>6. RowsReady(q, v, a) => RowsReady(q, w, a)
    BY <1>4 DEF RowsReady
  <2>7. SinceIn(v, a) => SinceIn(w, a)
    BY <1>1, <1>2 DEF SinceIn
  <2>8. TellsIfLast(q) /\ q.filter.value <= v.latest => q.filter.value <= w.latest
    BY <1>1, <1>5
  <2> QED
    <3> SUFFICES ASSUME q.rule \notin {"shown", "export"} PROVE OnCourse(q, w, a, p, s)
      BY DEF OnCourse
    <3> DEFINE shown == Offset(p) + Cardinality(a.rows)
    <3>1. shown <= Cardinality(v.m) => shown <= Cardinality(w.m)
      BY <2>1, <2>5
    <3> HIDE DEF shown
    <3>2. \A x \in Nat : /\ x <= Cardinality(Through(v.all, a.since)) => x <= Cardinality(Through(w.all, a.since))
                         /\ x <= Cardinality(After(v.m, a.since)) => x <= Cardinality(After(w.m, a.since))
                         /\ x <= Cardinality(Through(v.m, v.day)) => x <= Cardinality(Through(w.m, w.day))
                         /\ x <= v.block => x <= w.block
      BY <1>1, <2>4
    <3> QED
      BY <1>2, <1>4, <1>6, <1>7, <2>6, <2>7, <2>8, <3>1, <3>2 DEF OnCourse, shown
<1> QED
  BY <1>3, <1>6, <1>7

(* What the queries add keeps a request on its course.  Which total a      *)
(* request of a rule tells:                                                *)
LEMMA TellsSum ==
  ASSUME NEW q \in Requests, NEW v, IsView(q, v), NEW a \in AnswerType, KeptIn(q, v, a), NEW p,
         ~TellsIfLast(q), ~OfBlocks(q), q.table # "StateBatch", SummedIn(v, a),
         (q.rule = "transactions" /\ q.filter.by = "block") => a.total <= Cardinality(v.m)
  PROVE  SoundIn(q, v, a, p)
<1>1. CASE q.rule = "transactions" /\ q.filter.by = "block"
  <2>1. /\ Cardinality(v.m) <= TransactionsCount(q.filter.value)
        /\ Cardinality(v.m) \in Nat /\ a.total \in Nat /\ TransactionsCount(q.filter.value) \in Nat
    BY <1>1, Sizes DEF IsView, AnswerType, TransactionsCount
  <2>2. a.total <= TransactionsCount(q.filter.value)
    BY <1>1, <2>1
  <2> QED
    BY <1>1, <2>2 DEF SoundIn, SummedIn
<1>2. CASE ~(q.rule = "transactions" /\ q.filter.by = "block")
  BY <1>2 DEF SoundIn
<1> QED
  BY <1>1, <1>2

(* A total between what there was and what there is.                       *)
LEMMA Within ==
  ASSUME NEW q, NEW v, IsView(q, v), NEW a \in AnswerType, KeptIn(q, v, a),
         Cardinality(a.had) <= a.total, a.total <= Cardinality(v.m)
  PROVE  SummedIn(v, a)
<1>1. Between(v.m, a.days, v.day) \in SUBSET Rows /\ v.m \in SUBSET Rows
  BY DEF Between, IsView
<1>2. Cardinality(Between(v.m, a.days, v.day)) \in Nat /\ Cardinality(v.m) \in Nat /\ a.total \in Nat
  BY <1>1, Sizes DEF AnswerType
<1> QED
  BY <1>2 DEF SummedIn

(* Which requests tell which total.                                        *)
LEMMA Tellers ==
  ASSUME NEW q \in Requests
  PROVE  /\ q.rule \in {"transactions", "internal", "address", "count", "once"} =>
              ~TellsIfLast(q) /\ ~OfBlocks(q) /\ q.table # "StateBatch" /\ q.table # "Block"
         /\ OfStats(q) => ~TellsIfLast(q) /\ ~OfBlocks(q) /\ q.filter.by = "none"
         /\ OfTransfers(q) => ~TellsIfLast(q) /\ ~OfBlocks(q)
         /\ q.rule \in {"after", "uncached"} => ~TellsIfLast(q) /\ ~OfBlocks(q)
         /\ q.rule = "transactions" =>
              q.table = "Transaction" /\ q.filter.by \in {"none", "date", "block", "address"}
         /\ q.rule \in {"detail", "whole"} => ~OfBlocks(q)
         /\ TellsIfLast(q) => q.table \in {"Block", "StateBatch"} /\ q.filter.value \in Nat
<1>1. Shape(q)
  BY Shapes
<1>2. /\ BlockList.table = "Block" /\ MainStats.table = "Transaction" /\ MainStats.filter.by = "none"
      /\ \A x : BlockDetail(x).table = "Block" /\ StateBatchDetail(x).table = "StateBatch"
  BY DEF BlockList, MainStats, BlockDetail, StateBatchDetail, List, JoinedList, Everything
<1>3. OfStats(q) => q.filter.by = "none"
  BY <1>1, <1>2 DEF OfStats, Shape
<1>4. q.rule \in {"transactions", "internal", "address", "count", "once"} =>
        q.table # "StateBatch" /\ q.table # "Block"
  BY <1>1 DEF Shape
<1>5. q.rule = "transactions" =>
        q.table = "Transaction" /\ q.filter.by \in {"none", "date", "block", "address"}
  BY <1>1 DEF Shape
<1>6. TellsIfLast(q) => q.table \in {"Block", "StateBatch"} /\ q.filter.value \in Nat
  BY <1>1, <1>2 DEF Shape, TellsIfLast
<1> QED
  BY <1>3, <1>4, <1>5, <1>6 DEF OfStats, OfBlocks, OfTransfers, TellsIfLast

(* The two counts that are summed up, the first and the second.            *)
LEMMA OnMetadata ==
  ASSUME NEW q \in Requests, NEW v, IsView(q, v), NEW p, NEW g \in AnswerType, NEW h \in AnswerType,
         KeptIn(q, v, g), SameRequest(g, h), h.rows = g.rows,
         OnCourse(q, v, g, p, "metadata"), h.total = g.total, h.since = v.day
  PROVE  KeptIn(q, v, h) /\ OnCourse(q, v, h, p, "first")
<1>1. v.day \in Nat /\ g.days <= v.day
  BY DEF IsView, KeptIn
<1>2. KeptIn(q, v, h)
  BY DEF KeptIn, SameRequest
<1>3. SinceIn(v, h)
  BY <1>1 DEF SinceIn, SameRequest
<1> QED
  BY <1>2, <1>3 DEF OnCourse, SameRequest

(* The first count is zero and the count of one part, the second needs     *)
(* the other part.                                                         *)
LEMMA OnFirst ==
  ASSUME NEW q \in Requests, NEW v, IsView(q, v), NEW p, NEW g \in AnswerType, NEW h \in AnswerType,
         KeptIn(q, v, g), SameRequest(g, h), h.rows = g.rows, h.since = g.since,
         OnCourse(q, v, g, p, "first")
  PROVE  /\ KeptIn(q, v, h)
         /\ h.total = g.total + Cardinality(After(v.m, g.since)) => OnCourse(q, v, h, p, "second_statistics")
         /\ h.total = g.total + Cardinality(Through(v.m, v.day)) => OnCourse(q, v, h, p, "second_recent")
<1>1. v.day \in Nat /\ v.m \in SUBSET Rows /\ h.had \subseteq v.m /\ g.since \in Nat
  BY DEF IsView, KeptIn, SameRequest, AnswerType
<1>2. KeptIn(q, v, h)
  BY DEF KeptIn, SameRequest
<1> SUFFICES ASSUME q.rule \notin {"shown", "export"}
             PROVE  /\ h.total = g.total + Cardinality(After(v.m, g.since)) => OnCourse(q, v, h, p, "second_statistics")
                    /\ h.total = g.total + Cardinality(Through(v.m, v.day)) => OnCourse(q, v, h, p, "second_recent")
  BY <1>2 DEF OnCourse
<1>3. g.total = 0 /\ SinceIn(v, h) /\ g.since <= v.day
  BY DEF OnCourse, SinceIn, SameRequest
<1>4. After(h.had, g.since) \in SUBSET After(v.m, g.since) /\ After(v.m, g.since) \in SUBSET Rows
  BY <1>1 DEF After
<1>5. Through(h.had, g.since) \in SUBSET Through(v.m, v.day)
  <2> SUFFICES ASSUME NEW r \in v.m, DayOf[r.block] <= g.since PROVE DayOf[r.block] <= v.day
    BY <1>1 DEF Through
  <2>1. DayOf[r.block] \in Nat
    BY <1>1, DaysOfRows
  <2> QED
    BY <1>1, <1>3, <2>1
<1>6. Through(v.m, v.day) \in SUBSET Rows
  BY <1>1 DEF Through
<1>7. /\ Cardinality(After(h.had, g.since)) <= Cardinality(After(v.m, g.since))
      /\ Cardinality(After(v.m, g.since)) \in Nat
      /\ Cardinality(Through(h.had, g.since)) <= Cardinality(Through(v.m, v.day))
      /\ Cardinality(Through(v.m, v.day)) \in Nat
  BY <1>4, <1>5, <1>6, Sizes
<1>8. (q.rule = "transactions" /\ p > 1 => h.had # {}) /\ (q.rule \in OnePage => p = 1)
  BY DEF OnCourse, SameRequest
<1>9. ASSUME h.total = g.total + Cardinality(After(v.m, g.since)) PROVE OnCourse(q, v, h, p, "second_statistics")
  <2>1. h.total = Cardinality(After(v.m, g.since))
    BY <1>3, <1>7, <1>9
  <2> QED
    BY <1>3, <1>7, <1>8, <2>1 DEF OnCourse
<1>10. ASSUME h.total = g.total + Cardinality(Through(v.m, v.day)) PROVE OnCourse(q, v, h, p, "second_recent")
  <2>1. h.total = Cardinality(Through(v.m, v.day))
    BY <1>3, <1>7, <1>10
  <2> QED
    BY <1>3, <1>7, <1>8, <2>1 DEF OnCourse
<1> QED
  BY <1>9, <1>10

(* The two counts together: a day that was aggregated in between may be    *)
(* in both.                                                                *)
LEMMA OnSecond ==
  ASSUME NEW q \in Requests, NEW v, IsView(q, v), NEW p, NEW g \in AnswerType, NEW h \in AnswerType,
         KeptIn(q, v, g), SameRequest(g, h), q.rule \notin {"shown", "export"},
         \/ /\ OnCourse(q, v, g, p, "second_statistics")
            /\ h.total = g.total + Cardinality(Through(v.m, v.day))
         \/ /\ OnCourse(q, v, g, p, "second_recent")
            /\ h.total = g.total + Cardinality(After(v.m, g.since))
  PROVE  SummedIn(v, h)
<1>1. /\ v.day \in Nat /\ v.m \in SUBSET Rows /\ h.had \in SUBSET v.m /\ g.since \in Nat
      /\ g.total \in Nat /\ h.days \in Nat /\ h.had \in SUBSET Rows
  BY DEF IsView, KeptIn, SameRequest, AnswerType
<1>2. h.days <= g.since /\ g.since <= v.day
  BY DEF OnCourse, SinceIn, SameRequest
<1>3. /\ Through(v.m, v.day) \in SUBSET Rows /\ After(v.m, g.since) \in SUBSET Rows
      /\ Between(v.m, h.days, v.day) \in SUBSET Rows
      /\ After(h.had, g.since) \in SUBSET After(v.m, g.since)
      /\ Through(h.had, g.since) \in SUBSET Rows /\ After(h.had, g.since) \in SUBSET Rows
  BY <1>1 DEF Through, After, Between
<1>4. Through(h.had, g.since) \in SUBSET Through(v.m, v.day)
  <2> SUFFICES ASSUME NEW r \in v.m, DayOf[r.block] <= g.since PROVE DayOf[r.block] <= v.day
    BY <1>1 DEF Through
  <2>1. DayOf[r.block] \in Nat
    BY <1>1, DaysOfRows
  <2> QED
    BY <1>1, <1>2, <2>1
<1>5. /\ Cardinality(Through(v.m, v.day)) \in Nat /\ Cardinality(After(v.m, g.since)) \in Nat
      /\ Cardinality(Through(h.had, g.since)) \in Nat /\ Cardinality(After(h.had, g.since)) \in Nat
      /\ Cardinality(Between(v.m, h.days, v.day)) \in Nat /\ Cardinality(v.m) \in Nat
      /\ Cardinality(After(h.had, g.since)) <= Cardinality(After(v.m, g.since))
      /\ Cardinality(Through(h.had, g.since)) <= Cardinality(Through(v.m, v.day))
  BY <1>1, <1>3, <1>4, Sizes
<1>6. Cardinality(h.had) = Cardinality(Through(h.had, g.since)) + Cardinality(After(h.had, g.since))
  BY <1>1, Split
<1>7. Cardinality(After(v.m, g.since)) + Cardinality(Through(v.m, v.day))
        <= Cardinality(v.m) + Cardinality(Between(v.m, h.days, v.day))
  BY <1>1, <1>2, Summing
<1>8. CASE /\ OnCourse(q, v, g, p, "second_statistics")
           /\ h.total = g.total + Cardinality(Through(v.m, v.day))
  <2>1. /\ Cardinality(After(h.had, g.since)) <= g.total
        /\ g.total <= Cardinality(After(v.m, g.since))
    BY <1>8 DEF OnCourse, SameRequest
  <2> QED
    BY <1>1, <1>5, <1>6, <1>7, <1>8, <2>1 DEF SummedIn
<1>9. CASE /\ OnCourse(q, v, g, p, "second_recent")
           /\ h.total = g.total + Cardinality(After(v.m, g.since))
  <2>1. /\ Cardinality(Through(h.had, g.since)) <= g.total
        /\ g.total <= Cardinality(Through(v.m, v.day))
    BY <1>9 DEF OnCourse, SameRequest
  <2> QED
    BY <1>1, <1>5, <1>6, <1>7, <1>9, <2>1 DEF SummedIn
<1> QED
  BY <1>8, <1>9

(* What a request is ready for, from what it tells.                        *)
LEMMA ReadyToAnswer ==
  ASSUME NEW q, NEW v, NEW p, NEW s, NEW g, NEW h, OnCourse(q, v, g, p, s), SameRequest(g, h),
         q.rule \notin {"shown", "export"} => SoundIn(q, v, h, p)
  PROVE  OnCourse(q, v, h, p, "answer")
BY DEF OnCourse, SameRequest

(* A request is ready for its rows when its total is.                      *)
LEMMA ReadyForRows ==
  ASSUME NEW q, NEW v, NEW p, NEW s, NEW g, NEW h, OnCourse(q, v, g, p, s), SameRequest(g, h),
         q.rule \notin {"shown", "export"} => RowsReady(q, v, h)
  PROVE  OnCourse(q, v, h, p, "rows")
BY DEF OnCourse, SameRequest

(* An error tells no total.                                                *)
LEMMA NotFound ==
  ASSUME NEW q, NEW v, NEW p, NEW s, NEW g, NEW h, KeptIn(q, v, g), OnCourse(q, v, g, p, s),
         SameRequest(g, h), ~h.found, h.rows = g.rows \/ h.rows = {}
  PROVE  KeptIn(q, v, h) /\ OnCourse(q, v, h, p, "answer")
<1>1. KeptIn(q, v, h)
  BY DEF KeptIn, SameRequest
<1>2. SoundIn(q, v, h, p)
  BY DEF SoundIn
<1> QED
  BY <1>1, <1>2, ReadyToAnswer

(* After the second count the request answers, or asks for its rows.       *)
LEMMA OnSecondEnds ==
  ASSUME NEW q \in Requests, NEW v, IsView(q, v), NEW p, NEW g \in AnswerType, NEW h \in AnswerType,
         KeptIn(q, v, g), SameRequest(g, h), h.rows = g.rows, NEW s, NEW n,
         \/ /\ s = "second_statistics" /\ h.total = g.total + Cardinality(Through(v.m, v.day))
            /\ \/ n = "answer" /\ q.rule = "address"
               \/ n = "rows" /\ q.rule = "transactions" /\ q.filter.by = "address"
         \/ /\ s = "second_recent" /\ h.total = g.total + Cardinality(After(v.m, g.since))
            /\ \/ n = "answer" /\ q.rule = "once"
               \/ n = "rows" /\ OfTransfers(q),
         OnCourse(q, v, g, p, s)
  PROVE  KeptIn(q, v, h) /\ OnCourse(q, v, h, p, n)
<1>0. KeptIn(q, v, h)
  BY DEF KeptIn, SameRequest
<1>1. q.rule \notin {"shown", "export"} => SummedIn(v, h)
  BY OnSecond
<1>2. CASE n = "answer"
  <2>1. q.rule \notin {"shown", "export"} => SoundIn(q, v, h, p)
    BY <1>0, <1>1, <1>2, TellsSum, Tellers DEF OfTransfers
  <2> QED
    BY <1>0, <1>2, <2>1, ReadyToAnswer
<1>3. CASE n = "rows"
  <2>1. q.rule \notin {"shown", "export"} => RowsReady(q, v, h)
    BY <1>1, <1>3 DEF RowsReady, OfTransfers
  <2> QED
    BY <1>0, <1>3, <2>1, ReadyForRows
<1> QED
  BY <1>2, <1>3

(* The transactions of the aggregated days.                                *)
LEMMA OnDaily ==
  ASSUME NEW q \in Requests, NEW v, IsView(q, v), NEW p, NEW g \in AnswerType, NEW h \in AnswerType,
         KeptIn(q, v, g), SameRequest(g, h), h.rows = g.rows,
         OnCourse(q, v, g, p, "daily"), h.total = Cardinality(Through(v.all, v.day)), h.since = v.day
  PROVE  KeptIn(q, v, h) /\ OnCourse(q, v, h, p, "later")
<1>1. KeptIn(q, v, h)
  BY DEF KeptIn, SameRequest
<1>2. Through(v.all, v.day) \in SUBSET Rows
  BY DEF Through, IsView
<1>3. ASSUME q.rule \notin {"shown", "export"}, q.filter.by = "none"
      PROVE  Cardinality(Through(h.had, v.day)) <= Cardinality(Through(v.all, v.day))
  <2>0. q.filter.by # "date"
    BY <1>3
  <2>1. q.table = "Transaction"
    BY <1>3, <2>0 DEF OnCourse
  <2>2. v.all = v.m
    BY <1>3, <2>1 DEF IsView
  <2>3. Through(h.had, v.day) \in SUBSET Through(v.all, v.day)
    BY <2>2 DEF Through, KeptIn, SameRequest
  <2> QED
    BY <1>2, <2>3, Sizes
<1>4. Cardinality(Through(v.all, v.day)) \in Nat
  BY <1>2, Sizes
<1> QED
  BY <1>1, <1>3, <1>4 DEF OnCourse, SameRequest

(* And of the days after them: together all there are.                     *)
LEMMA OnLater ==
  ASSUME NEW q \in Requests, NEW v, IsView(q, v), NEW p, NEW g \in AnswerType, NEW h \in AnswerType,
         KeptIn(q, v, g), SameRequest(g, h), h.rows = g.rows,
         OnCourse(q, v, g, p, "later"), h.total = g.total + Cardinality(After(v.all, g.since)),
         NEW n, \/ n = "answer" /\ q.rule = "transactions"
                \/ n = "newest" /\ OfStats(q)
  PROVE  KeptIn(q, v, h) /\ OnCourse(q, v, h, p, n)
<1>0. KeptIn(q, v, h)
  BY DEF KeptIn, SameRequest
<1>1. q.rule \notin {"shown", "export"} /\ q.table = "Transaction"
  BY Tellers DEF OfStats
<1>2. ASSUME q.filter.by = "none" PROVE SummedIn(v, h) /\ h.total <= Cardinality(v.m)
  <2>1. /\ Cardinality(Through(g.had, g.since)) <= g.total
        /\ g.total <= Cardinality(Through(v.all, g.since))
    BY <1>1, <1>2 DEF OnCourse
  <2>2. v.all = v.m /\ v.m \in SUBSET Rows /\ g.had \in SUBSET v.m /\ g.since \in Nat /\ g.total \in Nat
    BY <1>1, <1>2 DEF IsView, KeptIn, AnswerType
  <2>3. /\ Cardinality(v.m) = Cardinality(Through(v.m, g.since)) + Cardinality(After(v.m, g.since))
        /\ Cardinality(g.had) = Cardinality(Through(g.had, g.since)) + Cardinality(After(g.had, g.since))
    BY <2>2, Split
  <2>4. /\ After(g.had, g.since) \in SUBSET After(v.m, g.since) /\ After(v.m, g.since) \in SUBSET Rows
        /\ Through(v.m, g.since) \in SUBSET Rows /\ Through(g.had, g.since) \in SUBSET Rows
    BY <2>2 DEF After, Through
  <2>5. /\ Cardinality(After(g.had, g.since)) <= Cardinality(After(v.m, g.since))
        /\ Cardinality(After(g.had, g.since)) \in Nat /\ Cardinality(After(v.m, g.since)) \in Nat
        /\ Cardinality(Through(v.m, g.since)) \in Nat /\ Cardinality(Through(g.had, g.since)) \in Nat
    BY <2>4, Sizes
  <2>6. Cardinality(h.had) <= h.total /\ h.total <= Cardinality(v.m)
    BY <2>1, <2>2, <2>3, <2>5 DEF SameRequest
  <2> QED
    BY <1>0, <2>6, Within
<1>3. CASE n = "answer"
  <2>1. CASE q.filter.by = "none"
    <3>1. SoundIn(q, v, h, p)
      BY <1>0, <1>2, <1>3, <2>1, TellsSum, Tellers DEF OfStats
    <3> QED
      BY <1>0, <1>3, <3>1, ReadyToAnswer
  <2>2. CASE q.filter.by # "none"
    <3>1. q.filter.by = "date" /\ p > 1 /\ h.rows = {}
      BY <1>1, <2>2 DEF OnCourse
    <3>2. SoundIn(q, v, h, p)
      BY <3>1 DEF SoundIn
    <3> QED
      BY <1>0, <1>3, <3>2, ReadyToAnswer
  <2> QED
    BY <2>1, <2>2
<1>4. CASE n = "newest"
  <2>1. SummedIn(v, h)
    BY <1>2, <1>4, Tellers
  <2> QED
    BY <1>0, <1>4, <2>1 DEF OnCourse, SameRequest
<1> QED
  BY <1>3, <1>4

(* A count of all rows there are is exact.                                 *)
LEMMA OnCount ==
  ASSUME NEW q \in Requests, NEW v, IsView(q, v), NEW p, NEW g \in AnswerType, NEW h \in AnswerType,
         KeptIn(q, v, g), SameRequest(g, h), h.rows \subseteq v.m, NEW s,
         OnCourse(q, v, g, p, s), h.total = Cardinality(v.m), q.table # "StateBatch", ~TellsIfLast(q), ~OfBlocks(q)
  PROVE  KeptIn(q, v, h) /\ OnCourse(q, v, h, p, "answer")
<1>0. KeptIn(q, v, h)
  BY DEF KeptIn, SameRequest
<1>1. v.m \in SUBSET Rows /\ h.had \in SUBSET v.m
  BY <1>0 DEF IsView, KeptIn
<1>2. Cardinality(h.had) <= h.total /\ h.total <= Cardinality(v.m)
  BY <1>1, Sizes
<1>3. SummedIn(v, h)
  BY <1>0, <1>2, Within
<1>4. SoundIn(q, v, h, p)
  BY <1>0, <1>2, <1>3, TellsSum
<1> QED
  BY <1>0, <1>4, ReadyToAnswer

(* The total that a short page tells is that of the rows.                  *)
LEMMA OnShown ==
  ASSUME NEW q \in Requests, NEW v, IsView(q, v), NEW p, NEW g \in AnswerType, NEW h \in AnswerType,
         KeptIn(q, v, g), SameRequest(g, h), h.rows = g.rows,
         OnCourse(q, v, g, p, "shown"), h.total = Offset(p) + Cardinality(g.rows),
         q.rule \in {"transactions", "internal", "address", "count", "shown"}
  PROVE  KeptIn(q, v, h) /\ OnCourse(q, v, h, p, "answer")
<1>0. KeptIn(q, v, h)
  BY DEF KeptIn, SameRequest
<1>1. ASSUME q.rule \notin {"shown", "export"} PROVE SoundIn(q, v, h, p)
  <2>1. Cardinality(h.had) <= h.total /\ h.total <= Cardinality(v.m)
    BY <1>1 DEF OnCourse, SameRequest
  <2>2. SummedIn(v, h)
    BY <1>0, <2>1, Within
  <2> QED
    BY <1>0, <1>1, <2>1, <2>2, TellsSum, Tellers
<1> QED
  BY <1>0, <1>1, ReadyToAnswer

(* A rough total is left out of what is known.                             *)
LEMMA OnEstimate ==
  ASSUME NEW q \in Requests, NEW v, IsView(q, v), NEW p, NEW g \in AnswerType, NEW h \in AnswerType,
         KeptIn(q, v, g), SameRequest(g, h), h.rows = g.rows, h.rough,
         NEW s, OnCourse(q, v, g, p, s),
         NEW n, \/ n = "answer" /\ q.rule = "internal"
                \/ n = "rows" /\ OfTransfers(q)
  PROVE  KeptIn(q, v, h) /\ OnCourse(q, v, h, p, n)
<1>1. KeptIn(q, v, h)
  BY DEF KeptIn, SameRequest
<1>2. SoundIn(q, v, h, p)
  BY DEF SoundIn
<1>3. OfTransfers(q) => RowsReady(q, v, h)
  BY DEF RowsReady, OfTransfers
<1> QED
  BY <1>1, <1>2, <1>3, ReadyToAnswer, ReadyForRows

(* A block knows the number of its transactions.                           *)
LEMMA OnBlock ==
  ASSUME NEW q \in Requests, NEW v, IsView(q, v), NEW p, NEW g \in AnswerType, NEW h \in AnswerType,
         KeptIn(q, v, g), SameRequest(g, h), h.rows = g.rows,
         q.rule = "transactions", q.filter.by = "block", h.total = TransactionsCount(q.filter.value),
         NEW s, OnCourse(q, v, g, p, s)
  PROVE  KeptIn(q, v, h) /\ OnCourse(q, v, h, p, "rows")
<1>1. KeptIn(q, v, h)
  BY DEF KeptIn, SameRequest
<1>2. Cardinality(h.had) <= h.total /\ h.total <= TransactionsCount(q.filter.value)
  <2>1. v.m \in SUBSET Rows /\ h.had \in SUBSET v.m /\ Cardinality(v.m) <= TransactionsCount(q.filter.value)
    BY <1>1 DEF IsView, KeptIn
  <2>2. /\ Cardinality(h.had) <= Cardinality(v.m)
        /\ Cardinality(h.had) \in Nat /\ Cardinality(v.m) \in Nat /\ h.total \in Nat
    BY <2>1, Sizes DEF AnswerType
  <2> QED
    BY <2>1, <2>2
<1>3. RowsReady(q, v, h)
  BY <1>2 DEF RowsReady
<1> QED
  BY <1>1, <1>3, ReadyForRows

(* The token is read for its name only.                                    *)
LEMMA OnToken ==
  ASSUME NEW q, NEW v, NEW p, NEW g, KeptIn(q, v, g), q.rule = "once",
         OnCourse(q, v, g, p, "token")
  PROVE  OnCourse(q, v, g, p, "rows")
<1>1. RowsReady(q, v, g)
  BY DEF RowsReady, OnCourse
<1> QED
  BY <1>1, ReadyForRows DEF SameRequest

(* The newest block tells the total of a list of blocks.                   *)
LEMMA OnLast ==
  ASSUME NEW q \in Requests, NEW v, IsView(q, v), NEW p, NEW g \in AnswerType, NEW h \in AnswerType,
         KeptIn(q, v, g), SameRequest(g, h), h.rows = g.rows, OfBlocks(q), h.total = v.block,
         OnCourse(q, v, g, p, "last")
  PROVE  KeptIn(q, v, h) /\ OnCourse(q, v, h, p, "numbers")
<1>1. KeptIn(q, v, h)
  BY DEF KeptIn, SameRequest
<1>2. h.latest <= h.total /\ h.total <= v.block
  BY DEF IsView, KeptIn, SameRequest
<1> QED
  BY <1>1, <1>2 DEF OnCourse, SameRequest

(* And is not read again for its page.                                     *)
LEMMA OnNumbers ==
  ASSUME NEW q \in Requests, NEW v, NEW p, NEW g \in AnswerType, NEW h \in AnswerType,
         KeptIn(q, v, g), SameRequest(g, h), h.rows \subseteq v.m, OfBlocks(q), h.total = g.total,
         OnCourse(q, v, g, p, "numbers")
  PROVE  KeptIn(q, v, h) /\ OnCourse(q, v, h, p, "answer")
<1>1. KeptIn(q, v, h)
  BY DEF KeptIn, SameRequest
<1>2. ~TellsIfLast(q) /\ q.rule \notin {"shown", "export"}
  BY DEF OfBlocks, TellsIfLast
<1>3. h.latest <= h.total /\ h.total <= v.block
  BY <1>2 DEF OnCourse, SameRequest
<1>4. SoundIn(q, v, h, p)
  BY <1>2, <1>3 DEF SoundIn
<1> QED
  BY <1>1, <1>4, ReadyToAnswer

(* The newest block is not part of the number of transactions.             *)
LEMMA OnNewest ==
  ASSUME NEW q \in Requests, NEW v, NEW p, NEW g \in AnswerType, NEW h \in AnswerType,
         KeptIn(q, v, g), SameRequest(g, h), h.rows = g.rows, OfStats(q), h.total = g.total,
         OnCourse(q, v, g, p, "newest")
  PROVE  KeptIn(q, v, h) /\ OnCourse(q, v, h, p, "answer")
<1>1. KeptIn(q, v, h)
  BY DEF KeptIn, SameRequest
<1>2. ~TellsIfLast(q) /\ ~OfBlocks(q) /\ q.rule = "before" /\ q.table = "Transaction"
  BY DEF OfBlocks, TellsIfLast, OfStats
<1>3. SummedIn(v, h)
  BY <1>2 DEF OnCourse, SameRequest, SummedIn
<1>4. SoundIn(q, v, h, p)
  BY <1>2, <1>3 DEF SoundIn
<1> QED
  BY <1>1, <1>4, ReadyToAnswer

(* The highest index is not below the number of the other batches.         *)
LEMMA OnIndex ==
  ASSUME NEW q \in Requests, NEW v, IsView(q, v), NEW p, NEW g \in AnswerType, NEW h \in AnswerType,
         KeptIn(q, v, g), SameRequest(g, h), h.rows = g.rows,
         q.rule \in {"after", "uncached"}, q.table = "StateBatch", h.total = v.index,
         OnCourse(q, v, g, p, "index")
  PROVE  KeptIn(q, v, h) /\ OnCourse(q, v, h, p, "answer")
<1>1. KeptIn(q, v, h)
  BY DEF KeptIn, SameRequest
<1>2. ~TellsIfLast(q) /\ ~OfBlocks(q)
  BY DEF OfBlocks, TellsIfLast
<1>3. Cardinality(h.had) - 1 <= h.total /\ h.total <= v.index
  <2>1. v.m \in SUBSET Rows /\ h.had \in SUBSET v.m /\ Cardinality(v.m) - 1 <= v.index /\ v.index \in Nat
    BY <1>1 DEF IsView, KeptIn
  <2>2. Cardinality(h.had) <= Cardinality(v.m) /\ Cardinality(h.had) \in Nat /\ Cardinality(v.m) \in Nat
    BY <2>1, Sizes
  <2> QED
    BY <2>1, <2>2
<1>4. SoundIn(q, v, h, p)
  BY <1>2, <1>3 DEF SoundIn
<1> QED
  BY <1>1, <1>4, ReadyToAnswer

(* What is read whole is counted whole; a detail is not above the last     *)
(* one.                                                                    *)
LEMMA OnAll ==
  ASSUME NEW q \in Requests, NEW v, IsView(q, v), NEW p, NEW g \in AnswerType, NEW h \in AnswerType,
         KeptIn(q, v, g), SameRequest(g, h), h.rows = v.m, h.total = Cardinality(v.m),
         OnCourse(q, v, g, p, "all"), v.m # {} \/ ~TellsIfLast(q),
         NEW n, \/ n = "answer" /\ q.rule = "whole" /\ q.table # "StateBatch"
                \/ n = "is_last" /\ q.rule = "whole" /\ q.table = "StateBatch"
                \/ n = "earlier" /\ q.rule = "detail"
  PROVE  KeptIn(q, v, h) /\ OnCourse(q, v, h, p, n)
<1>1. KeptIn(q, v, h)
  BY DEF KeptIn, SameRequest
<1>2. CASE n = "answer"
  BY <1>2, OnCount DEF TellsIfLast, OfBlocks
<1>3. CASE n # "answer"
  <2>1. TellsIfLast(q)
    BY <1>3 DEF TellsIfLast
  <2>2. q.filter.value <= v.latest
    BY <2>1 DEF IsView
  <2> QED
    BY <1>1, <1>3, <2>1, <2>2 DEF OnCourse, SameRequest
<1> QED
  BY <1>2, <1>3

(* The block before is read for its timestamp only.                        *)
LEMMA OnEarlier ==
  ASSUME NEW q, NEW v, NEW p, NEW g, OnCourse(q, v, g, p, "earlier")
  PROVE  OnCourse(q, v, g, p, "is_last")
BY DEF OnCourse

(* Of a detail the total tells whether it is the last one.                 *)
LEMMA OnIsLast ==
  ASSUME NEW q \in Requests, NEW v, IsView(q, v), NEW p, NEW g \in AnswerType, NEW h \in AnswerType,
         KeptIn(q, v, g), SameRequest(g, h), h.rows = g.rows, TellsIfLast(q),
         h.total = (IF v.latest = q.filter.value THEN 1 ELSE 0),
         OnCourse(q, v, g, p, "is_last")
  PROVE  KeptIn(q, v, h) /\ OnCourse(q, v, h, p, "answer")
<1>1. KeptIn(q, v, h)
  BY DEF KeptIn, SameRequest
<1>2. q.filter.value \in Nat /\ q.filter.value <= v.latest /\ v.latest \in Nat /\ h.latest \in Nat /\ h.latest <= v.latest
  <2>1. q.filter.value <= v.latest
    BY DEF OnCourse, TellsIfLast
  <2> QED
    BY <1>1, <2>1, Tellers DEF IsView, KeptIn, AnswerType
<1>3. \/ h.total = 0 /\ v.latest > q.filter.value
      \/ h.total = 1 /\ h.latest <= q.filter.value
  BY <1>2
<1>4. SoundIn(q, v, h, p)
  BY <1>3 DEF SoundIn
<1> QED
  BY <1>1, <1>4, ReadyToAnswer

(* Nothing is claimed of the total of an export.                           *)
LEMMA OnExport ==
  ASSUME NEW q, NEW v, NEW p, NEW g, NEW h, KeptIn(q, v, g), SameRequest(g, h), q.rule = "export", NEW n
  PROVE  KeptIn(q, v, h) /\ OnCourse(q, v, h, p, n)
BY DEF KeptIn, SameRequest, OnCourse

(* What is asked next after the rows.                                      *)
LEMMA Stages ==
  /\ Stage(<<"answer">>) = "answer" /\ Stage(<<"shown", "answer">>) = "shown"
  /\ Stage(<<"count", "answer">>) = "count" /\ Stage(<<"estimate", "answer">>) = "estimate"
  /\ Stage(<<"index", "answer">>) = "index" /\ Stage(<<"daily", "later", "answer">>) = "daily"
  /\ Stage(<<"metadata", "recent", "statistics", "answer">>) = "metadata"
  /\ Stage(<<"metadata", "statistics", "recent", "answer">>) = "metadata"
<1> USE DEF Stage, FirstCount, SecondStatistics, SecondRecent
<1>1. Stage(<<"answer">>) = "answer"
  OBVIOUS
<1>2. Stage(<<"shown", "answer">>) = "shown"
  OBVIOUS
<1>3. Stage(<<"count", "answer">>) = "count"
  OBVIOUS
<1>4. Stage(<<"estimate", "answer">>) = "estimate"
  OBVIOUS
<1>5. Stage(<<"index", "answer">>) = "index"
  OBVIOUS
<1>6. Stage(<<"daily", "later", "answer">>) = "daily"
  OBVIOUS
<1>7. Stage(<<"metadata", "recent", "statistics", "answer">>) = "metadata"
  OBVIOUS
<1>8. Stage(<<"metadata", "statistics", "recent", "answer">>) = "metadata"
  OBVIOUS
<1> QED
  BY <1>1, <1>2, <1>3, <1>4, <1>5, <1>6, <1>7, <1>8

(* What is asked after the rows of a page.                                 *)
LEMMA RowsStage ==
  ASSUME OnTrack(request, todo), Query("rows"), NEW P, NEW total
  PROVE  /\ request.rule \in {"transactions", "internal", "address", "count", "shown", "before"} =>
              /\ Rest(P, total) = <<>> => Stage(Rest(P, total) \o Tail(todo)) = "answer"
              /\ Rest(P, total) = <<"shown">> => Stage(Rest(P, total) \o Tail(todo)) = "shown"
              /\ Rest(P, total) = <<"count">> => Stage(Rest(P, total) \o Tail(todo)) = "count"
              /\ Rest(P, total) = <<"estimate">> => Stage(Rest(P, total) \o Tail(todo)) = "estimate"
              /\ Rest(P, total) = <<"daily", "later">> => Stage(Rest(P, total) \o Tail(todo)) = "daily"
              /\ Rest(P, total) = <<"metadata", "recent", "statistics">> =>
                   Stage(Rest(P, total) \o Tail(todo)) = "metadata"
         /\ request.rule \in {"after", "uncached"} =>
              Stage(Rest(P, total) \o Tail(todo)) = (IF request.table = "StateBatch" THEN "index" ELSE "count")
         /\ request.rule = "once" => Stage(Rest(P, total) \o Tail(todo)) = "metadata"
         /\ request.rule = "before" => OfTransfers(request)
<1> DEFINE rest == Rest(P, total)
<1>1. /\ request.rule \in {"transactions", "internal", "address", "count", "shown", "before"} =>
           Tail(todo) = <<"answer">>
      /\ request.rule \in {"after", "uncached"} =>
           \/ request.table # "StateBatch" /\ Tail(todo) = <<"count", "answer">>
           \/ request.table = "StateBatch" /\ Tail(todo) = <<"index", "answer">>
      /\ request.rule = "once" => Tail(todo) = <<"metadata", "statistics", "recent", "answer">>
  BY RowsThen
<1>2. /\ <<>> \o <<"answer">> = <<"answer">>
      /\ <<"shown">> \o <<"answer">> = <<"shown", "answer">>
      /\ <<"count">> \o <<"answer">> = <<"count", "answer">>
      /\ <<"estimate">> \o <<"answer">> = <<"estimate", "answer">>
  BY NothingBefore, Written
<1>3. <<"daily", "later">> \o <<"answer">> = <<"daily", "later", "answer">>
  BY Written
<1>4. <<"metadata", "recent", "statistics">> \o <<"answer">>
        = <<"metadata", "recent", "statistics", "answer">>
  BY Written
<1>5. /\ <<>> \o <<"count", "answer">> = <<"count", "answer">>
      /\ <<>> \o <<"index", "answer">> = <<"index", "answer">>
  BY NothingBefore
<1>6. <<>> \o <<"metadata", "statistics", "recent", "answer">>
         = <<"metadata", "statistics", "recent", "answer">>
  BY NothingBefore
<1>7. request.rule \in {"after", "uncached", "once"} => rest = <<>>
  BY RestIs
<1>8. request.rule = "before" => OfTransfers(request)
  <2>1. todo # <<>> /\ Head(todo) = "rows"
    BY DEF Query
  <2>2. Follow(request, Head(todo), Stage(todo), Stage(Tail(todo)))
    BY <2>1, Follows
  <2> QED
    BY <2>1, <2>2 DEF Follow
<1> HIDE DEF rest
<1>9. CASE request.rule \in {"transactions", "internal", "address", "count", "shown", "before"}
  BY <1>1, <1>2, <1>3, <1>4, <1>8, <1>9, Stages DEF rest
<1>10. CASE request.rule \in {"after", "uncached"}
  BY <1>1, <1>5, <1>7, <1>10, Stages DEF rest
<1>11. CASE request.rule = "once"
  BY <1>1, <1>6, <1>7, <1>11, Stages DEF rest
<1> QED
  BY <1>9, <1>10, <1>11

(* A short page tells the total, unless it is an empty one after the first. *)
LEMMA ShortTells ==
  ASSUME NEW M \in SUBSET Rows, NEW P \in SUBSET M, NEW p \in Nat \ {0},
         Cardinality(P) = Cut(Cardinality(M), p), Short(P), P # {} \/ p = 1
  PROVE  Offset(p) + Cardinality(P) = Cardinality(M)
<1>1. /\ Offset(p) \in Nat /\ PageSize \in Nat \ {0} /\ Cardinality(M) \in Nat /\ Cardinality(P) \in Nat
      /\ (P = {} <=> Cardinality(P) = 0)
  BY OffsetFacts, Sizes
<1>2. p = 1 => Offset(p) = 0
  <2>1. (1 - 1) * PageSize = 0
    BY <1>1
  <2> QED
    BY <2>1 DEF Offset
<1> QED
  BY <1>1, <1>2 DEF Cut, Short

(* The rows of a page, for each rule: what the next query relies on is     *)
(* known.                                                                  *)
LEMMA OnRows ==
  ASSUME request \in Requests, OnTrack(request, todo), Query("rows"), page \in Nat \ {0},
         got \in AnswerType, NEW v, IsView(request, v), KeptIn(request, v, got),
         OnCourse(request, v, got, page, "rows"),
         NEW P \in SUBSET v.m, Cardinality(P) = Cut(Cardinality(v.m), page),
         NEW h \in AnswerType, SameRequest(got, h), h.rows = P, h.total = got.total,
         h.rough = got.rough
  PROVE  /\ KeptIn(request, v, h)
         /\ OnCourse(request, v, h, page, Stage(Rest(P, got.total) \o Tail(todo)))
<1> DEFINE rest == Rest(P, got.total)
           n == Stage(rest \o Tail(todo))
<1>1. KeptIn(request, v, h)
  BY DEF KeptIn, SameRequest
<1>2. /\ v.m \in SUBSET Rows /\ h.had \in SUBSET v.m /\ h.had = got.had
      /\ Cardinality(v.m) \in Nat /\ Cardinality(h.had) \in Nat /\ Cardinality(h.had) <= Cardinality(v.m)
      /\ (h.had = {} <=> Cardinality(h.had) = 0)
      /\ h.total \in Nat
  <2>1. v.m \in SUBSET Rows /\ h.had \in SUBSET v.m /\ h.had = got.had /\ h.total \in Nat
    BY <1>1 DEF IsView, KeptIn, SameRequest, AnswerType
  <2> QED
    BY <2>1, Sizes
<1>3. /\ Short(P) /\ (P # {} \/ page = 1) =>
           /\ Cardinality(h.had) <= Offset(page) + Cardinality(h.rows)
           /\ Offset(page) + Cardinality(h.rows) <= Cardinality(v.m)
      /\ P = {} => Short(P)
  <2>1. PageSize \in Nat \ {0} /\ (P = {} => Cardinality(P) = 0)
    BY <1>2, Sizes, OffsetFacts
  <2> QED
    BY <1>2, <2>1, ShortTells DEF Short
<1>4. CASE request.rule \in {"shown", "export"}
  BY <1>1, <1>4 DEF OnCourse
<1> SUFFICES ASSUME request.rule \notin {"shown", "export"}
             PROVE  OnCourse(request, v, h, page, n)
  BY <1>1, <1>4
<1>5. RowsReady(request, v, got)
  BY DEF OnCourse
<1>6. /\ (request.rule = "transactions" /\ page > 1) => h.had # {}
      /\ request.rule \in OnePage => page = 1
  BY DEF OnCourse, SameRequest
<1>7. n \in {"count", "estimate", "index"} => OnCourse(request, v, h, page, n)
  BY <1>6 DEF OnCourse
<1>8. (n = "shown" /\ Short(P) /\ (P # {} \/ page = 1)) => OnCourse(request, v, h, page, n)
  BY <1>3, <1>6 DEF OnCourse
<1>9. (n = "answer" /\ SoundIn(request, v, h, page)) => OnCourse(request, v, h, page, n)
  BY <1>6 DEF OnCourse
<1>10. (n = "metadata" /\ h.total = 0) => OnCourse(request, v, h, page, n)
  BY <1>6 DEF OnCourse
<1>11. (n = "daily" /\ (\/ (request.table = "Transaction" /\ request.filter.by = "none")
                        \/ (request.filter.by = "date" /\ page > 1 /\ h.rows = {})))
          => OnCourse(request, v, h, page, n)
  BY <1>6 DEF OnCourse
<1>12. SummedIn(v, got) => SummedIn(v, h)
  BY DEF SummedIn, SameRequest
<1> HIDE DEF n, rest
<1>13. CASE request.rule = "transactions"
  <2>0. /\ rest = <<>> => n = "answer"
        /\ rest = <<"shown">> => n = "shown"
        /\ rest = <<"count">> => n = "count"
        /\ rest = <<"daily", "later">> => n = "daily"
    BY <1>13, RowsStage DEF n, rest
  <2>1. CASE Short(P) /\ (P # {} \/ page = 1)
    <3>1. rest = <<"shown">>
      BY <1>13, <2>1 DEF rest, Rest, TransactionsRest
    <3> QED
      BY <1>8, <2>0, <2>1, <3>1
  <2>2. CASE ~(Short(P) /\ (P # {} \/ page = 1)) /\ got.total # 0
    <3>1. rest = <<>>
      BY <1>13, <2>2 DEF rest, Rest, TransactionsRest
    <3>2. request.filter.by \in {"block", "address"}
      BY <1>5, <1>13, <2>2, Tellers DEF RowsReady
    <3>3. SoundIn(request, v, h, page)
      <4>1. ~TellsIfLast(request) /\ ~OfBlocks(request) /\ request.table # "StateBatch"
        BY <1>13, Tellers
      <4>2. CASE request.filter.by = "block"
        BY <1>5, <1>13, <4>1, <4>2 DEF SoundIn, RowsReady, SameRequest
      <4>3. CASE request.filter.by = "address"
        BY <1>5, <1>12, <1>13, <4>1, <4>3 DEF SoundIn, RowsReady
      <4> QED
        BY <3>2, <4>2, <4>3
    <3> QED
      BY <1>9, <2>0, <3>1, <3>3
  <2>3. CASE ~(Short(P) /\ (P # {} \/ page = 1)) /\ got.total = 0 /\ request.filter.by # "none" /\ P # {}
    <3>1. rest = <<"count">>
      BY <1>13, <2>3 DEF rest, Rest, TransactionsRest
    <3> QED
      BY <1>7, <2>0, <3>1
  <2>4. CASE /\ ~(Short(P) /\ (P # {} \/ page = 1)) /\ got.total = 0
             /\ (request.filter.by = "none" \/ P = {})
    <3>1. rest = <<"daily", "later">>
      BY <1>13, <2>4 DEF rest, Rest, TransactionsRest, TotalTxnCount
    <3>2. request.table = "Transaction" /\ request.filter.by \in {"none", "date", "block", "address"}
      BY <1>13, Tellers
    <3>3. P = {} => page > 1
      BY <1>3, <2>4
    <3>4. (P = {} /\ request.filter.by # "none") => request.filter.by = "date"
      <4> SUFFICES ASSUME P = {}, request.filter.by \in {"block", "address"} PROVE FALSE
        BY <3>2
      <4>1. Cardinality(got.had) <= 0
        BY <1>5, <1>13, <2>4 DEF RowsReady, SummedIn
      <4> QED
        BY <1>2, <1>6, <1>13, <3>3, <4>1
    <3> QED
      BY <1>11, <2>0, <2>4, <3>1, <3>2, <3>3, <3>4
  <2> QED
    BY <2>1, <2>2, <2>3, <2>4
<1>14. CASE request.rule = "internal"
  <2>0. /\ rest = <<"shown">> => n = "shown"
        /\ rest = <<"count">> => n = "count"
        /\ rest = <<"estimate">> => n = "estimate"
    BY <1>14, RowsStage DEF n, rest
  <2>1. rest = IF Short(P) /\ (P # {} \/ page = 1) THEN <<"shown">>
               ELSE IF request.filter.by = "none" THEN <<"estimate">> ELSE <<"count">>
    BY <1>14 DEF rest, Rest, InternalRest
  <2> QED
    BY <1>7, <1>8, <2>0, <2>1
<1>15. CASE request.rule \in {"address", "count"}
  <2>0. /\ rest = <<"shown">> => n = "shown"
        /\ rest = <<"count">> => n = "count"
        /\ rest = <<"metadata", "recent", "statistics">> => n = "metadata"
    BY <1>15, RowsStage DEF n, rest
  <2>1. page = 1 /\ (request.rule = "address" => h.total = 0)
    BY <1>5, <1>6, <1>15 DEF OnePage, RowsReady
  <2>2. CASE Short(P)
    <3>1. rest = <<"shown">>
      BY <1>15, <2>2 DEF rest, Rest, AddressRest, InternalsRest
    <3> QED
      BY <1>8, <2>0, <2>1, <2>2, <3>1
  <2>3. CASE ~Short(P)
    <3>1. rest = IF request.rule = "count" THEN <<"count">> ELSE <<"metadata", "recent", "statistics">>
      BY <1>15, <2>3 DEF rest, Rest, AddressRest, InternalsRest, AddressTransactionCnt
    <3> QED
      BY <1>7, <1>10, <1>15, <2>0, <2>1, <3>1
  <2> QED
    BY <2>2, <2>3
<1>16. CASE request.rule = "before"
  <2>1. n = "answer" /\ OfTransfers(request)
    BY <1>16, RowsStage, RestIs DEF n, rest
  <2>2. ~TellsIfLast(request) /\ ~OfBlocks(request) /\ request.table # "StateBatch"
    BY <2>1, Tellers DEF OfTransfers
  <2>3. SoundIn(request, v, h, page)
    BY <1>5, <1>12, <1>16, <2>2 DEF SoundIn, RowsReady
  <2> QED
    BY <1>9, <2>1, <2>3
<1>17. CASE request.rule \in {"after", "uncached"}
  <2>1. n \in {"count", "index"}
    BY <1>17, RowsStage DEF n, rest
  <2> QED
    BY <1>7, <2>1
<1>18. CASE request.rule = "once"
  <2>1. n = "metadata" /\ h.total = 0
    BY <1>5, <1>18, RowsStage DEF n, rest, RowsReady
  <2> QED
    BY <1>10, <2>1
<1> QED
  BY <1>13, <1>14, <1>15, <1>16, <1>17, <1>18, RowsThen

(* Only lists of logs and of transfers are joined to others.               *)
LEMMA Unjoined ==
  \A q \in Requests : /\ q.joins # {} => q.table \in {"Log", "TokenTransfer"}
                      /\ q.joins \subseteq {"Transaction", "Token"}
<1> SUFFICES ASSUME NEW q \in Requests
             PROVE  /\ q.joins # {} => q.table \in {"Log", "TokenTransfer"}
                    /\ q.joins \subseteq {"Transaction", "Token"}
  OBVIOUS
<1>1. Endpoint(q)
  BY RequestsAssumption
<1>2. /\ \A f : TransactionList(f).joins = {} /\ InternalTransactionList(f).joins = {} /\ TokenTransferList(f).joins = {}
      /\ BlockList.joins = {} /\ MainStats.joins = {} /\ TokenList.joins = {} /\ StateBatches.joins = {} /\ DABatches.joins = {}
      /\ \A x : /\ TransactionDetail(x).joins = {} /\ TransactionTraces(x).joins = {} /\ TransactionInternals(x).joins = {}
                /\ BlockDetail(x).joins = {} /\ StateBatchDetail(x).joins = {}
                /\ AddressTransactions(x).joins = {} /\ AddressTokenTransfers(x).joins = {} /\ AddressInternals(x).joins = {}
                /\ TokenTokenTransfers(x).joins = {} /\ Deposits(x).joins = {} /\ Withdrawals(x).joins = {}
                /\ TransactionLogs(x).table = "Log" /\ AddressLogs(x).table = "Log"
                /\ TransactionTokenTransfers(x).table = "TokenTransfer"
                /\ TransactionLogs(x).joins = {"Transaction"} /\ AddressLogs(x).joins = {"Transaction"}
                /\ TransactionTokenTransfers(x).joins = {"Token"}
      /\ \A x, y, z : Export(x, y, z).joins = {} /\ ExportTransfers(y, z).table = "TokenTransfer"
                    /\ ExportTransfers(y, z).joins = {"Transaction"}
  BY DEF TransactionList, InternalTransactionList, TokenTransferList, BlockList, MainStats, TokenList, StateBatches,
         DABatches, TransactionDetail, TransactionTraces, TransactionInternals, BlockDetail, StateBatchDetail,
         AddressTransactions, AddressTokenTransfers, AddressInternals, TokenTokenTransfers, Deposits, Withdrawals,
         TransactionLogs, AddressLogs, TransactionTokenTransfers, Export, ExportTransfers, List, JoinedList
<1> QED
  BY <1>1, <1>2 DEF Endpoint

(* The newest of more numbers is no older.                                 *)
LEMMA NewestGrows ==
  ASSUME NEW C \in SUBSET Nat, IsFiniteSet(C), NEW B \in SUBSET C
  PROVE  Newest(B) <= Newest(C)
<1>1. IsFiniteSet(B) /\ B \in SUBSET Nat
  BY FS_Subset
<1>2. CASE B = {}
  BY <1>1, <1>2, NewestFacts
<1>3. CASE B # {}
  BY <1>1, <1>3, NewestFacts
<1> QED
  BY <1>2, <1>3

(* Batches have different numbers, from 0 to the last one.                 *)
LEMMA BatchesCount ==
  ASSUME NEW S \in SUBSET Rows, \A r \in S : r.kind = "StateBatch", NEW n \in Nat, \A r \in S : r.tx <= n
  PROVE  Cardinality(S) - 1 <= n
<1> DEFINE f == [r \in S |-> r.tx]
<1>1. \A r \in S : r.tx \in 0..n
  <2> SUFFICES ASSUME NEW r \in S PROVE r.tx \in 0..n
    OBVIOUS
  <2>1. r.tx \in Nat /\ r.tx <= n
    BY RecordsAssumption
  <2> QED
    BY <2>1
<1>2. f \in Injection(S, 0..n)
  <2>1. f \in [S -> 0..n]
    BY <1>1
  <2>2. \A r, s \in S : f[r] = f[s] => r = s
    BY RecordsAssumption
  <2> QED
    BY <2>1, <2>2 DEF Injection, IsInjective
<1>3. IsFiniteSet(0..n) /\ Cardinality(0..n) = n + 1
  BY FS_Interval
<1> HIDE DEF f
<1>4. Cardinality(S) <= Cardinality(0..n)
  BY <1>2, <1>3, FS_Injection
<1> QED
  BY <1>3, <1>4, Sizes

(* What a request sees is a view.                                          *)
LEMMA Viewed == Typed => IsView(request, View)
<1> SUFFICES ASSUME Typed PROVE IsView(request, View)
  OBVIOUS
<1>1. request \in Requests /\ DB!TypeOK /\ stored \in SUBSET Rows /\ Matching \in SUBSET stored /\ aggregated \in Nat
  BY Numbered DEF Typed
<1>2. Latest \in Nat /\ LastBlock \in Nat /\ LastIndex \in Nat
  BY <1>1, LastIsNumber
<1>3. AllTransactions \in SUBSET Rows
  BY <1>1 DEF AllTransactions
<1>4. ASSUME request.table = "Transaction", request.filter.by = "none" PROVE AllTransactions = Matching
  <2>1. request.joins = {}
    BY <1>1, <1>4, Unjoined
  <2> QED
    BY <1>4, <2>1 DEF AllTransactions, Matching, Asked, Joined, Match
<1>5. ASSUME request.rule = "transactions", request.filter.by = "block"
      PROVE  Cardinality(Matching) <= TransactionsCount(request.filter.value)
  <2> DEFINE T == {r \in Rows : r.kind = "Transaction" /\ r.block = request.filter.value}
  <2>1. T \in SUBSET Rows /\ Matching \in SUBSET T
    BY <1>1, <1>5, Tellers DEF Matching, Asked, Match
  <2> HIDE DEF T
  <2>2. Cardinality(Matching) <= Cardinality(T)
    BY <2>1, Sizes
  <2> QED
    BY <2>2 DEF T, TransactionsCount
<1>6. ASSUME request.table = "StateBatch" PROVE Cardinality(Matching) - 1 <= LastIndex
  <2> DEFINE B == {r.tx : r \in {s \in stored : s.kind = "StateBatch"}}
  <2>1. \A b \in B : b <= Newest(B)
    BY <1>1, FiniteNumbers, NewestFacts
  <2>2. \A r \in Matching : r.kind = "StateBatch" /\ r.tx <= LastIndex
    BY <1>1, <1>6, <2>1 DEF Matching, Asked, LastIndex
  <2> QED
    BY <1>1, <1>2, <2>2, BatchesCount
<1>7. OfBlocks(request) => Latest = LastBlock
  BY DEF OfBlocks, Latest
<1>8. ASSUME TellsIfLast(request), Matching # {} PROVE request.filter.value <= Latest
  <2>1. PICK r \in Matching : TRUE
    BY <1>8
  <2>2. \A x : BlockDetail(x).table = "Block" /\ StateBatchDetail(x).table = "StateBatch"
               /\ BlockDetail(x).filter = OfBlock(x) /\ StateBatchDetail(x).filter = OfTx(x)
    BY DEF BlockDetail, StateBatchDetail, List, JoinedList
  <2>3. \/ request.table = "Block" /\ request.filter.by = "block"
        \/ request.table = "StateBatch" /\ request.filter.by = "transaction"
    <3>1. Shape(request)
      BY <1>1, Shapes
    <3>2. CASE request.rule = "detail"
      <4>1. request = BlockDetail(request.filter.value)
        BY <3>1, <3>2 DEF Shape
      <4>2. request.filter = OfBlock(request.filter.value) /\ request.table = "Block"
        BY <2>2, <4>1
      <4> QED
        BY <4>2 DEF OfBlock
    <3>3. CASE request.rule = "whole" /\ request.table = "StateBatch"
      <4>1. request = StateBatchDetail(request.filter.value)
        BY <3>1, <3>3 DEF Shape
      <4>2. request.filter = OfTx(request.filter.value)
        BY <2>2, <4>1
      <4> QED
        BY <3>3, <4>2 DEF OfTx
    <3> QED
      BY <1>8, <3>2, <3>3 DEF TellsIfLast
  <2>4. CASE request.table = "Block" /\ request.filter.by = "block"
    <3>1. r \in stored /\ r.kind = "Block" /\ r.block = request.filter.value
      BY <2>1, <2>4 DEF Matching, Asked, Match
    <3>2. request.filter.value \in StoredBlocks
      BY <3>1 DEF StoredBlocks
    <3>3. \A b \in StoredBlocks : b <= LastBlock
      BY <1>1, FiniteNumbers, NewestFacts DEF LastBlock
    <3> QED
      BY <2>4, <3>2, <3>3 DEF Latest
  <2>5. CASE request.table = "StateBatch" /\ request.filter.by = "transaction"
    <3> DEFINE B == {s.tx : s \in {t \in stored : t.kind = "StateBatch"}}
    <3>1. r \in stored /\ r.kind = "StateBatch" /\ r.tx = request.filter.value
      BY <2>1, <2>5 DEF Matching, Asked, Match
    <3>2. request.filter.value \in B
      BY <3>1
    <3>3. \A b \in B : b <= LastIndex
      BY <1>1, FiniteNumbers, NewestFacts DEF LastIndex
    <3> QED
      BY <2>5, <3>2, <3>3 DEF Latest
  <2> QED
    BY <2>3, <2>4, <2>5
<1> QED
  BY <1>1, <1>2, <1>3, <1>4, <1>5, <1>6, <1>7, <1>8 DEF IsView, View

(* What the tables hold, and the days in the statistics, only grow.        *)
Indexes == {r.tx : r \in {s \in stored : s.kind = "StateBatch"}}

(* The numbers of blocks and batches are finitely many in every state.     *)
LEMMA FiniteAlways ==
  DB!TypeOK => /\ IsFiniteSet(StoredBlocks) /\ StoredBlocks \in SUBSET Nat
               /\ IsFiniteSet(Indexes) /\ Indexes \in SUBSET Nat
BY FiniteNumbers DEF Indexes

(* What the tables hold, and the days in the statistics, only grow.        *)
LEMMA GrowsOnward ==
  Typed /\ Typed' /\ stored \subseteq stored' /\ aggregated <= aggregated' /\ UNCHANGED request
    => Onward(View, View')
<1>1. (DB!TypeOK => /\ IsFiniteSet(StoredBlocks) /\ StoredBlocks \in SUBSET Nat
                    /\ IsFiniteSet(Indexes) /\ Indexes \in SUBSET Nat)'
  BY FiniteAlways, PTL
<1> SUFFICES ASSUME Typed, Typed', stored \subseteq stored', aggregated <= aggregated', UNCHANGED request
             PROVE  Onward(View, View')
  OBVIOUS
<1>2. /\ IsFiniteSet(StoredBlocks') /\ StoredBlocks' \in SUBSET Nat
      /\ IsFiniteSet(Indexes') /\ Indexes' \in SUBSET Nat
  BY <1>1 DEF Typed
<1>3. Matching \subseteq Matching'
  BY DEF Matching, Asked, Joined, HasTransaction, HasToken
<1>4. AllTransactions \subseteq AllTransactions'
  BY DEF AllTransactions
<1>5. StoredBlocks \subseteq StoredBlocks' /\ Indexes \subseteq Indexes'
  BY DEF StoredBlocks, Indexes
<1>6. LastBlock <= LastBlock' /\ LastIndex <= LastIndex'
  <2>1. Newest(StoredBlocks) <= Newest(StoredBlocks') /\ Newest(Indexes) <= Newest(Indexes')
    BY <1>2, <1>5, NewestGrows
  <2> QED
    BY <2>1 DEF LastBlock, LastIndex, Indexes
<1>7. Latest <= Latest'
  BY <1>6 DEF Latest
<1> QED
  BY <1>3, <1>4, <1>6, <1>7 DEF Onward, View

(* What has been read, what was answered and what is kept is true.         *)
RecordedStored == \A r \in Relevant : BlockOf[r] <= synced => r \in stored
Course ==
  /\ KeptIn(request, View, got) /\ KeptIn(request, View, answer)
  /\ SoundIn(request, View, answer, page)
  /\ \A p \in Pages : KeptIn(request, View, cache[p]) /\ SoundIn(request, View, cache[p], p)
  /\ todo # <<>> => OnCourse(request, View, got, page, Stage(todo))
  /\ request.rule \in OnePage => page <= 1
  /\ RecordedStored

(* A request sees the same until the tables or the statistics change.      *)
LEMMA SameView == UNCHANGED <<dbVars, aggregated, request>> => View' = View
BY DEF dbVars, View, Matching, Asked, Joined, HasTransaction, HasToken, AllTransactions, Latest, LastBlock,
       LastIndex, StoredBlocks

(* A query changes only what has been read and what is left.               *)
LEMMA GoesOnCourse ==
  ASSUME Course, NEW g, NEW rest, Goes(g, rest), KeptIn(request, View, g),
         OnCourse(request, View, g, page, Stage(rest))
  PROVE  Course'
<1>1. /\ UNCHANGED <<synced, stored, aggregated, request, page, cache, answer>> /\ View' = View
      /\ got' = g /\ todo' = rest
  BY SameView DEF Goes, dbVars
<1>2. RecordedStored'
  BY <1>1 DEF Course, RecordedStored, Relevant
<1>3. KeptIn(request, View, got)' /\ KeptIn(request, View, answer)'
  BY <1>1 DEF Course
<1>4. SoundIn(request, View, answer, page)' /\ (request.rule \in OnePage => page <= 1)'
  BY <1>1 DEF Course
<1>5. \A p \in Pages : (KeptIn(request, View, cache[p]) /\ SoundIn(request, View, cache[p], p))'
  BY <1>1 DEF Course
<1>6. OnCourse(request', View', got', page', Stage(todo'))
  BY <1>1
<1> QED
  BY <1>2, <1>3, <1>4, <1>5, <1>6 DEF Course

(* No query changes what is known from when the request began.             *)
LEMMA ReadKeeps == ASSUME got \in AnswerType, Read PROVE SameRequest(got, got') /\ \E rest : Goes(got', rest)
<1> USE DEF AnswerType, SameRequest, Counted, Shown, Goes
<1>1. CASE ReadMetadata
  BY <1>1 DEF ReadMetadata
<1>2. CASE ReadRecent
  BY <1>2 DEF ReadRecent
<1>3. CASE ReadStatistics
  BY <1>3 DEF ReadStatistics
<1>4. CASE ReadDaily
  BY <1>4 DEF ReadDaily
<1>5. CASE ReadLater
  BY <1>5 DEF ReadLater
<1>6. CASE ReadCount
  BY <1>6 DEF ReadCount
<1>7. CASE ReadEstimate
  BY <1>7 DEF ReadEstimate
<1>8. CASE ReadBlock
  BY <1>8 DEF ReadBlock
<1>9. CASE ReadRows
  BY <1>9 DEF ReadRows
<1>10. CASE ReadAll
  BY <1>10 DEF ReadAll
<1>11. CASE ReadShown
  BY <1>11 DEF ReadShown
<1>12. CASE ReadLast
  BY <1>12 DEF ReadLast
<1>13. CASE ReadNumbers
  BY <1>13 DEF ReadNumbers
<1>14. CASE ReadNewest
  BY <1>14 DEF ReadNewest
<1>15. CASE ReadIndex
  BY <1>15 DEF ReadIndex
<1>16. CASE ReadEarlier
  BY <1>16 DEF ReadEarlier
<1>17. CASE ReadIsLast
  BY <1>17 DEF ReadIsLast
<1>18. CASE ReadToken
  BY <1>18 DEF ReadToken
<1>19. CASE ReadFirstBlock
  BY <1>19 DEF ReadFirstBlock
<1>20. CASE ReadLastBlock
  BY <1>20 DEF ReadLastBlock
<1>21. CASE ReadRange
  BY <1>21 DEF ReadRange
<1>22. CASE ReadTokens
  BY <1>22 DEF ReadTokens
<1> QED
  BY <1>1, <1>2, <1>3, <1>4, <1>5, <1>6, <1>7, <1>8, <1>9, <1>10, <1>11, <1>12, <1>13, <1>14, <1>15, <1>16, <1>17, <1>18, <1>19, <1>20, <1>21, <1>22 DEF Read

(* Every query keeps the course: one case for each.                        *)
LEMMA ReadOnCourse == Typed /\ Typed' /\ Course /\ Read => Course'
<1> SUFFICES ASSUME Typed, Typed', Course, Read PROVE Course'
  OBVIOUS
<1>0. /\ request \in Requests /\ OnTrack(request, todo) /\ got \in AnswerType
      /\ IsView(request, View) /\ KeptIn(request, View, got)
  BY Viewed DEF Typed, Fits, Course
<1>1. todo # <<>>
  BY DEF Read, Query, ReadMetadata, ReadRecent, ReadStatistics, ReadDaily, ReadLater,
         ReadCount, ReadEstimate, ReadBlock, ReadRows, ReadAll, ReadShown, ReadLast, ReadNumbers,
         ReadNewest, ReadIndex, ReadEarlier, ReadIsLast, ReadToken, ReadFirstBlock, ReadLastBlock,
         ReadRange, ReadTokens
<1>2. OnCourse(request, View, got, page, Stage(todo)) /\ page \in Nat \ {0}
  BY <1>1 DEF Course, Typed, Pages
<1>3. got' \in AnswerType
  BY DEF Typed, Fits
<1> DEFINE n == Stage(Tail(todo))
<1>4. Follow(request, Head(todo), Stage(todo), n)
  BY <1>0, <1>1, Follows
<1>5. ASSUME NEW rest, Goes(got', rest), KeptIn(request, View, got'),
             OnCourse(request, View, got', page, Stage(rest))
      PROVE  Course'
  BY <1>5, GoesOnCourse
<1>6. ASSUME Goes(got', <<"answer">>), SameRequest(got, got'), ~got'.found, got'.rows = got.rows \/ got'.rows = {}
      PROVE  Course'
  <2>1. KeptIn(request, View, got') /\ OnCourse(request, View, got', page, "answer")
    BY <1>0, <1>2, <1>6, NotFound
  <2> QED
    BY <1>5, <1>6, <2>1, Stages
<1>7. /\ View.m = Matching /\ View.all = AllTransactions /\ View.day = aggregated
      /\ View.latest = Latest /\ View.block = LastBlock /\ View.index = LastIndex
  BY DEF View
<1>8. /\ \A d : After(View.m, d) = Recent(d) /\ After(View.all, d) = AllRecent(d)
      /\ Through(View.m, View.day) = Past /\ Through(View.all, View.day) = AllPast
  BY <1>7 DEF After, Through, Recent, AllRecent, Past, AllPast, AllTransactions
<1> HIDE DEF n
<1>9. CASE request.rule = "export"
  <2>1. SameRequest(got, got')
    BY <1>0, ReadKeeps
  <2>2. PICK rest : Goes(got', rest)
    BY <1>0, ReadKeeps
  <2> QED
    BY <1>0, <1>5, <1>9, <2>1, <2>2, OnExport
<1> SUFFICES ASSUME request.rule # "export" PROVE Course'
  BY <1>9
<1> USE DEF Query
<1>10. CASE ReadMetadata
  <2>1. Head(todo) = "metadata" /\ Goes(got', Tail(todo)) /\ got' = [got EXCEPT !.since = aggregated]
    BY <1>10 DEF ReadMetadata, Goes
  <2>2. Stage(todo) = "metadata" /\ n = "first"
    BY <1>4, <2>1, request.rule # "export" DEF Follow
  <2>3. SameRequest(got, got') /\ got'.rows = got.rows /\ got'.total = got.total /\ got'.since = View.day
    BY <1>0, <1>7, <1>8, <2>1 DEF AnswerType, SameRequest, Counted, Shown
  <2>4. KeptIn(request, View, got') /\ OnCourse(request, View, got', page, n)
    BY <1>0, <1>2, <1>3, <2>2, <2>3, OnMetadata
  <2> QED
    BY <1>5, <2>1, <2>4 DEF n
<1>11. CASE ReadRecent
  <2>1. Head(todo) = "recent" /\ Goes(got', Tail(todo)) /\ got' = Counted(got.total + Cardinality(Recent(got.since)))
    BY <1>11 DEF ReadRecent, Goes
  <2>2. \/ Stage(todo) = "first" /\ n = "second_statistics"
        \/ /\ Stage(todo) = "second_recent"
           /\ ((n = "answer" /\ request.rule = "once") \/ (n = "rows" /\ OfTransfers(request)))
    BY <1>4, <2>1, request.rule # "export" DEF Follow
  <2>3. /\ SameRequest(got, got') /\ got'.rows = got.rows /\ got'.since = got.since
        /\ got'.total = got.total + Cardinality(After(View.m, got.since))
    BY <1>0, <1>8, <2>1 DEF AnswerType, SameRequest, Counted, Shown
  <2>4. KeptIn(request, View, got') /\ OnCourse(request, View, got', page, n)
    <3>1. CASE Stage(todo) = "first"
      BY <1>0, <1>2, <1>3, <2>2, <2>3, <3>1, OnFirst
    <3>2. CASE Stage(todo) = "second_recent"
      BY <1>0, <1>2, <1>3, <2>2, <2>3, <3>2, OnSecondEnds
    <3> QED
      BY <2>2, <3>1, <3>2
  <2> QED
    BY <1>5, <2>1, <2>4 DEF n
<1>12. CASE ReadStatistics
  <2>1. Head(todo) = "statistics" /\ Goes(got', Tail(todo)) /\ got' = Counted(got.total + Cardinality(Past))
    BY <1>12 DEF ReadStatistics, Goes
  <2>2. \/ Stage(todo) = "first" /\ n = "second_recent"
        \/ /\ Stage(todo) = "second_statistics"
           /\ \/ n = "answer" /\ request.rule = "address"
              \/ n = "rows" /\ request.rule = "transactions" /\ request.filter.by = "address"
    BY <1>4, <2>1, request.rule # "export" DEF Follow
  <2>3. /\ SameRequest(got, got') /\ got'.rows = got.rows /\ got'.since = got.since
        /\ got'.total = got.total + Cardinality(Through(View.m, View.day))
    BY <1>0, <1>8, <2>1 DEF AnswerType, SameRequest, Counted, Shown
  <2>4. KeptIn(request, View, got') /\ OnCourse(request, View, got', page, n)
    <3>1. CASE Stage(todo) = "first"
      BY <1>0, <1>2, <1>3, <2>2, <2>3, <3>1, OnFirst
    <3>2. CASE Stage(todo) = "second_statistics"
      BY <1>0, <1>2, <1>3, <2>2, <2>3, <3>2, OnSecondEnds
    <3> QED
      BY <2>2, <3>1, <3>2
  <2> QED
    BY <1>5, <2>1, <2>4 DEF n
<1>13. CASE ReadDaily
  <2>1. Head(todo) = "daily" /\ Goes(got', Tail(todo)) /\ got' = [got EXCEPT !.total = Cardinality(AllPast), !.since = aggregated]
    BY <1>13 DEF ReadDaily, Goes
  <2>2. Stage(todo) = "daily" /\ n = "later"
    BY <1>4, <2>1, request.rule # "export" DEF Follow
  <2>3. SameRequest(got, got') /\ got'.rows = got.rows /\ got'.total = Cardinality(Through(View.all, View.day)) /\ got'.since = View.day
    BY <1>0, <1>7, <1>8, <2>1 DEF AnswerType, SameRequest, Counted, Shown
  <2>4. KeptIn(request, View, got') /\ OnCourse(request, View, got', page, n)
    BY <1>0, <1>2, <1>3, <2>2, <2>3, OnDaily
  <2> QED
    BY <1>5, <2>1, <2>4 DEF n
<1>14. CASE ReadLater
  <2>1. Head(todo) = "later" /\ Goes(got', Tail(todo)) /\ got' = Counted(got.total + Cardinality(AllRecent(got.since)))
    BY <1>14 DEF ReadLater, Goes
  <2>2. /\ Stage(todo) = "later"
        /\ \/ n = "answer" /\ request.rule = "transactions"
           \/ n = "newest" /\ OfStats(request)
    BY <1>4, <2>1, request.rule # "export" DEF Follow
  <2>3. SameRequest(got, got') /\ got'.rows = got.rows /\ got'.total = got.total + Cardinality(After(View.all, got.since))
    BY <1>0, <1>7, <1>8, <2>1 DEF AnswerType, SameRequest, Counted, Shown
  <2>4. KeptIn(request, View, got') /\ OnCourse(request, View, got', page, n)
    BY <1>0, <1>2, <1>3, <2>2, <2>3, OnLater
  <2> QED
    BY <1>5, <2>1, <2>4 DEF n
<1>15. CASE ReadCount
  <2>1. Head(todo) = "count" /\ Goes(got', Tail(todo)) /\ got' = Counted(Cardinality(Matching))
    BY <1>15 DEF ReadCount, Goes
  <2>2. /\ Stage(todo) = "count" /\ n = "answer"
        /\ \/ request.rule \in {"transactions", "internal", "count"}
           \/ request.rule \in {"after", "uncached"} /\ request.table # "StateBatch"
    BY <1>4, <2>1, request.rule # "export" DEF Follow
  <2>3. SameRequest(got, got') /\ got'.rows \subseteq View.m /\ got'.total = Cardinality(View.m)
    BY <1>0, <1>7, <2>1, request.rule # "export" DEF AnswerType, SameRequest, Counted, Shown, KeptIn
  <2>4. KeptIn(request, View, got') /\ OnCourse(request, View, got', page, n)
    BY <1>0, <1>2, <1>3, <2>2, <2>3, OnCount, Tellers
  <2> QED
    BY <1>5, <2>1, <2>4 DEF n
<1>16. CASE ReadEstimate
  <2>1. PICK k \in {0, Cardinality(Rows)} : Goes([got EXCEPT !.total = k, !.rough = TRUE], Tail(todo))
    BY <1>16 DEF ReadEstimate
  <2>2. Head(todo) = "estimate" /\ Goes(got', Tail(todo)) /\ got' = [got EXCEPT !.total = k, !.rough = TRUE]
    BY <1>16, <2>1 DEF ReadEstimate, Goes
  <2>3. ((n = "answer" /\ request.rule = "internal") \/ (n = "rows" /\ OfTransfers(request)))
    BY <1>4, <2>2, request.rule # "export" DEF Follow
  <2>4. SameRequest(got, got') /\ got'.rows = got.rows /\ got'.rough
    BY <1>0, <2>2 DEF AnswerType, SameRequest
  <2>5. KeptIn(request, View, got') /\ OnCourse(request, View, got', page, n)
    BY <1>0, <1>2, <1>3, <2>3, <2>4, OnEstimate
  <2> QED
    BY <1>5, <2>2, <2>5 DEF n
<1>17. CASE ReadBlock
  <2>1. Head(todo) = "block"
    BY <1>17 DEF ReadBlock
  <2>2. n = "rows" /\ request.rule = "transactions" /\ request.filter.by = "block"
    BY <1>4, <2>1, request.rule # "export" DEF Follow
  <2>3. CASE BlockIsThere(request.filter.value)
    <3>1. Goes(got', Tail(todo)) /\ got' = Counted(TransactionsCount(request.filter.value))
      BY <1>17, <2>3 DEF ReadBlock, Goes
    <3>2. SameRequest(got, got') /\ got'.rows = got.rows /\ got'.total = TransactionsCount(request.filter.value)
      BY <1>0, <3>1 DEF AnswerType, SameRequest, Counted
    <3>3. KeptIn(request, View, got') /\ OnCourse(request, View, got', page, "rows")
      BY <1>0, <1>2, <1>3, <2>2, <3>2, OnBlock
    <3> QED
      BY <1>5, <2>2, <3>1, <3>3 DEF n
  <2>4. CASE ~BlockIsThere(request.filter.value)
    <3>1. Goes(got', <<"answer">>) /\ got' = [got EXCEPT !.found = FALSE]
      BY <1>17, <2>4 DEF ReadBlock, Goes
    <3>2. SameRequest(got, got') /\ ~got'.found /\ got'.rows = got.rows
      BY <1>0, <3>1 DEF AnswerType, SameRequest
    <3> QED
      BY <1>6, <3>1, <3>2
  <2> QED
    BY <2>3, <2>4
<1>18. CASE ReadRows
  <2>1. PICK P \in PagesOf(Matching, page) : Goes(Shown(P), Rest(P, got.total) \o Tail(todo))
    BY <1>18 DEF ReadRows
  <2>2. Head(todo) = "rows" /\ got' = Shown(P) /\ Stage(todo) = "rows"
    BY <1>4, <1>18, <2>1, request.rule # "export" DEF ReadRows, Goes, Follow
  <2>3. P \in SUBSET View.m /\ Cardinality(P) = Cut(Cardinality(View.m), page)
    <3>1. request.keys \in Nat /\ Matching \in SUBSET Rows
      BY <1>0, <1>7, Shapes DEF Shape, IsView
    <3> QED
      BY <1>2, <1>7, <3>1, PageFacts
  <2>4. SameRequest(got, got') /\ got'.rows = P /\ got'.total = got.total /\ got'.rough = got.rough
    BY <1>0, <2>2 DEF AnswerType, SameRequest, Shown
  <2>5. /\ KeptIn(request, View, got')
        /\ OnCourse(request, View, got', page, Stage(Rest(P, got.total) \o Tail(todo)))
    BY <1>0, <1>1, <1>2, <1>3, <2>2, <2>3, <2>4, OnRows
  <2> QED
    BY <1>5, <2>1, <2>2, <2>5
<1>19. CASE ReadAll
  <2>1. Head(todo) = "all"
    BY <1>19 DEF ReadAll
  <2>2. /\ Stage(todo) = "all"
        /\ \/ n = "answer" /\ request.rule = "whole" /\ request.table # "StateBatch"
           \/ n = "is_last" /\ request.rule = "whole" /\ request.table = "StateBatch"
           \/ n = "earlier" /\ request.rule = "detail"
    BY <1>4, <2>1, request.rule # "export" DEF Follow
  <2>3. CASE ~(Matching = {} /\ request.table \in Details)
    <3>1. Goes(got', Tail(todo)) /\ got' = [Shown(Matching) EXCEPT !.total = Cardinality(Matching)]
      BY <1>19, <2>3 DEF ReadAll, Goes
    <3>2. /\ SameRequest(got, got') /\ got'.rows = View.m /\ got'.total = Cardinality(View.m)
          /\ View.m # {} \/ ~TellsIfLast(request)
      BY <1>0, <1>7, <2>3, <3>1, Tellers DEF AnswerType, SameRequest, Shown, Details
    <3>3. KeptIn(request, View, got') /\ OnCourse(request, View, got', page, n)
      BY <1>0, <1>2, <1>3, <2>2, <3>2, OnAll
    <3> QED
      BY <1>5, <3>1, <3>3 DEF n
  <2>4. CASE ~(~(Matching = {} /\ request.table \in Details))
    <3>1. Goes(got', <<"answer">>) /\ got' = [got EXCEPT !.found = FALSE]
      BY <1>19, <2>4 DEF ReadAll, Goes
    <3>2. SameRequest(got, got') /\ ~got'.found /\ got'.rows = got.rows
      BY <1>0, <3>1 DEF AnswerType, SameRequest
    <3> QED
      BY <1>6, <3>1, <3>2
  <2> QED
    BY <2>3, <2>4
<1>20. CASE ReadShown
  <2>1. Head(todo) = "shown" /\ Goes(got', Tail(todo)) /\ got' = Counted((page - 1) * PageSize + Cardinality(got.rows))
    BY <1>20 DEF ReadShown, Goes
  <2>2. /\ Stage(todo) = "shown" /\ n = "answer"
        /\ request.rule \in {"transactions", "internal", "address", "count", "shown"}
    BY <1>4, <2>1, request.rule # "export" DEF Follow
  <2>3. SameRequest(got, got') /\ got'.rows = got.rows /\ got'.total = Offset(page) + Cardinality(got.rows)
    BY <1>0, <2>1 DEF AnswerType, SameRequest, Counted, Offset
  <2>4. KeptIn(request, View, got') /\ OnCourse(request, View, got', page, n)
    BY <1>0, <1>2, <1>3, <2>2, <2>3, OnShown
  <2> QED
    BY <1>5, <2>1, <2>4 DEF n
<1>21. CASE ReadLast
  <2>1. Head(todo) = "last" /\ Goes(got', Tail(todo)) /\ got' = [Counted(LastBlock) EXCEPT !.version = LastBlock]
    BY <1>21 DEF ReadLast, Goes
  <2>2. Stage(todo) = "last" /\ n = "numbers" /\ OfBlocks(request)
    BY <1>4, <2>1, request.rule # "export" DEF Follow
  <2>3. SameRequest(got, got') /\ got'.rows = got.rows /\ got'.total = View.block
    BY <1>0, <1>7, <1>8, <2>1 DEF AnswerType, SameRequest, Counted, Shown
  <2>4. KeptIn(request, View, got') /\ OnCourse(request, View, got', page, n)
    BY <1>0, <1>2, <1>3, <2>2, <2>3, OnLast
  <2> QED
    BY <1>5, <2>1, <2>4 DEF n
<1>22. CASE ReadNumbers
  <2>1. Head(todo) = "numbers" /\ Goes(got', Tail(todo)) /\ got' = [got EXCEPT !.rows = {r \in Matching : r.block \in Numbers(got.total - Offset(page))}]
    BY <1>22 DEF ReadNumbers, Goes
  <2>2. Stage(todo) = "numbers" /\ n = "answer" /\ OfBlocks(request)
    BY <1>4, <2>1, request.rule # "export" DEF Follow
  <2>3. SameRequest(got, got') /\ got'.rows \subseteq View.m /\ got'.total = got.total
    BY <1>0, <1>7, <1>8, <2>1 DEF AnswerType, SameRequest, Counted, Shown
  <2>4. KeptIn(request, View, got') /\ OnCourse(request, View, got', page, n)
    BY <1>0, <1>2, <1>3, <2>2, <2>3, OnNumbers
  <2> QED
    BY <1>5, <2>1, <2>4 DEF n
<1>23. CASE ReadNewest
  <2>1. Head(todo) = "newest" /\ Goes(got', Tail(todo)) /\ got' = [got EXCEPT !.found = LastBlock # 0, !.version = LastBlock]
    BY <1>23 DEF ReadNewest, Goes
  <2>2. Stage(todo) = "newest" /\ n = "answer" /\ OfStats(request)
    BY <1>4, <2>1, request.rule # "export" DEF Follow
  <2>3. SameRequest(got, got') /\ got'.rows = got.rows /\ got'.total = got.total
    BY <1>0, <1>7, <1>8, <2>1 DEF AnswerType, SameRequest, Counted, Shown
  <2>4. KeptIn(request, View, got') /\ OnCourse(request, View, got', page, n)
    BY <1>0, <1>2, <1>3, <2>2, <2>3, OnNewest
  <2> QED
    BY <1>5, <2>1, <2>4 DEF n
<1>24. CASE ReadIndex
  <2>1. Head(todo) = "index" /\ Goes(got', Tail(todo)) /\ got' = Counted(LastIndex)
    BY <1>24 DEF ReadIndex, Goes
  <2>2. /\ Stage(todo) = "index" /\ n = "answer"
        /\ request.rule \in {"after", "uncached"} /\ request.table = "StateBatch"
    BY <1>4, <2>1, request.rule # "export" DEF Follow
  <2>3. SameRequest(got, got') /\ got'.rows = got.rows /\ got'.total = View.index
    BY <1>0, <1>7, <1>8, <2>1 DEF AnswerType, SameRequest, Counted, Shown
  <2>4. KeptIn(request, View, got') /\ OnCourse(request, View, got', page, n)
    BY <1>0, <1>2, <1>3, <2>2, <2>3, OnIndex
  <2> QED
    BY <1>5, <2>1, <2>4 DEF n
<1>25. CASE ReadEarlier
  <2>1. Head(todo) = "earlier"
    BY <1>25 DEF ReadEarlier
  <2>2. Stage(todo) = "earlier" /\ n = "is_last"
    BY <1>4, <2>1, request.rule # "export" DEF Follow
  <2>3. CASE BlockIsThere(Earlier(request.filter.value))
    <3>1. Goes(got', Tail(todo)) /\ got' = got
      BY <1>25, <2>3 DEF ReadEarlier, Goes
    <3>2. got' = got
      BY <3>1 DEF AnswerType
    <3>3. KeptIn(request, View, got') /\ OnCourse(request, View, got', page, n)
      BY <1>0, <1>2, <2>2, <3>2, OnEarlier
    <3> QED
      BY <1>5, <3>1, <3>3 DEF n
  <2>4. CASE ~(BlockIsThere(Earlier(request.filter.value)))
    <3>1. Goes(got', <<"answer">>) /\ got' = [got EXCEPT !.found = FALSE, !.rows = {}]
      BY <1>25, <2>4 DEF ReadEarlier, Goes
    <3>2. SameRequest(got, got') /\ ~got'.found /\ got'.rows = {}
      BY <1>0, <3>1 DEF AnswerType, SameRequest
    <3> QED
      BY <1>6, <3>1, <3>2
  <2> QED
    BY <2>3, <2>4
<1>26. CASE ReadIsLast
  <2>1. Head(todo) = "is_last" /\ Goes(got', Tail(todo)) /\ got' = Counted(IF IsLast THEN 1 ELSE 0)
    BY <1>26 DEF ReadIsLast, Goes
  <2>2. Stage(todo) = "is_last" /\ n = "answer" /\ TellsIfLast(request)
    BY <1>4, <2>1, request.rule # "export" DEF Follow
  <2>3. SameRequest(got, got') /\ got'.rows = got.rows /\ got'.total = (IF View.latest = request.filter.value THEN 1 ELSE 0)
    BY <1>0, <1>7, <1>8, <2>1 DEF AnswerType, SameRequest, Counted, Shown, IsLast
  <2>4. KeptIn(request, View, got') /\ OnCourse(request, View, got', page, n)
    BY <1>0, <1>2, <1>3, <2>2, <2>3, OnIsLast
  <2> QED
    BY <1>5, <2>1, <2>4 DEF n
<1>27. CASE ReadToken
  <2>1. Head(todo) = "token"
    BY <1>27 DEF ReadToken
  <2>2. Stage(todo) = "token" /\ n = "rows" /\ request.rule = "once"
    BY <1>4, <2>1, request.rule # "export" DEF Follow
  <2>3. CASE \E s \in stored : s.kind = "Token" /\ request.filter.value \in s.names
    <3>1. Goes(got', Tail(todo)) /\ got' = got
      BY <1>27, <2>3 DEF ReadToken, Goes
    <3>2. got' = got
      BY <3>1 DEF AnswerType
    <3>3. KeptIn(request, View, got') /\ OnCourse(request, View, got', page, n)
      BY <1>0, <1>2, <2>2, <3>2, OnToken
    <3> QED
      BY <1>5, <3>1, <3>3 DEF n
  <2>4. CASE ~(\E s \in stored : s.kind = "Token" /\ request.filter.value \in s.names)
    <3>1. Goes(got', <<"answer">>) /\ got' = [got EXCEPT !.found = FALSE]
      BY <1>27, <2>4 DEF ReadToken, Goes
    <3>2. SameRequest(got, got') /\ ~got'.found /\ got'.rows = got.rows
      BY <1>0, <3>1 DEF AnswerType, SameRequest
    <3> QED
      BY <1>6, <3>1, <3>2
  <2> QED
    BY <2>3, <2>4
<1>28. CASE ReadFirstBlock \/ ReadLastBlock \/ ReadRange \/ ReadTokens
  <2>1. Head(todo) \in {"first_block", "last_block", "range", "tokens"}
    BY <1>28 DEF ReadFirstBlock, ReadLastBlock, ReadRange, ReadTokens
  <2> QED
    BY <1>4, <2>1, request.rule # "export" DEF Follow
<1> QED
  BY <1>10, <1>11, <1>12, <1>13, <1>14, <1>15, <1>16, <1>17, <1>18, <1>19, <1>20, <1>21, <1>22, <1>23,
     <1>24, <1>25, <1>26, <1>27, <1>28 DEF Read

(* What the indexer and the aggregation do keeps the course.               *)
LEMMA GrowsOnCourse ==
  (/\ Typed /\ Typed' /\ Course /\ stored \subseteq stored' /\ aggregated <= aggregated'
   /\ request' = request /\ page' = page /\ todo' = todo /\ got' = got /\ cache' = cache /\ answer' = answer
   /\ RecordedStored')
  => Course'
<1>1. (Typed => IsView(request, View))'
  BY Viewed, PTL
<1> SUFFICES ASSUME Typed, Typed', Course, stored \subseteq stored', aggregated <= aggregated',
                    request' = request, page' = page, todo' = todo, got' = got, cache' = cache,
                    answer' = answer, RecordedStored'
             PROVE  Course'
  OBVIOUS
<1>2. IsView(request, View) /\ IsView(request, View') /\ Onward(View, View') /\ request \in Requests
  BY <1>1, Viewed, GrowsOnward DEF Typed
<1>3. got \in AnswerType /\ answer \in AnswerType /\ \A p \in Pages : cache[p] \in AnswerType
  BY DEF Typed, Fits
<1>4. page \in Nat /\ \A p \in Pages : p \in Nat
  BY DEF Typed, Pages
<1> DEFINE v == View
           w == View'
<1>5. IsView(request, v) /\ IsView(request, w) /\ Onward(v, w)
  BY <1>2
<1>6. /\ KeptIn(request, v, got) /\ KeptIn(request, v, answer) /\ SoundIn(request, v, answer, page)
      /\ \A p \in Pages : KeptIn(request, v, cache[p]) /\ SoundIn(request, v, cache[p], p)
      /\ todo # <<>> => OnCourse(request, v, got, page, Stage(todo))
  BY DEF Course
<1> HIDE DEF v, w
<1>7. /\ KeptIn(request, w, got)
      /\ todo # <<>> => OnCourse(request, w, got, page, Stage(todo))
  BY <1>2, <1>3, <1>4, <1>5, <1>6, StaysTrue
<1>8. KeptIn(request, w, answer) /\ SoundIn(request, w, answer, page)
  BY <1>2, <1>3, <1>4, <1>5, <1>6, StaysTrue
<1>9. \A p \in Pages : KeptIn(request, w, cache[p]) /\ SoundIn(request, w, cache[p], p)
  BY <1>2, <1>3, <1>4, <1>5, <1>6, StaysTrue
<1>10. \A p \in Pages : (KeptIn(request, View, cache[p]) /\ SoundIn(request, View, cache[p], p))'
  BY <1>9 DEF w
<1>11. (todo # <<>> => OnCourse(request, View, got, page, Stage(todo)))'
  BY <1>7 DEF w
<1> QED
  BY <1>7, <1>8, <1>10, <1>11 DEF Course, w

(* How a request starts.                                                   *)
LEMMA StartStages ==
  /\ Stage(<<"rows">> \o <<"answer">>) = "rows"
  /\ Stage(<<"block", "rows">> \o <<"answer">>) = "block"
  /\ Stage(<<"metadata", "recent", "statistics", "rows">> \o <<"answer">>) = "metadata"
  /\ Stage(<<"last", "numbers">> \o <<"answer">>) = "last"
  /\ Stage(<<"daily", "later", "newest">> \o <<"answer">>) = "daily"
  /\ Stage(<<"estimate", "rows">> \o <<"answer">>) = "estimate"
  /\ Stage(<<"metadata", "statistics", "recent", "rows">> \o <<"answer">>) = "metadata"
  /\ Stage(<<"all">> \o <<"answer">>) = "all"
  /\ Stage(<<"all", "is_last">> \o <<"answer">>) = "all"
  /\ Stage(<<"all", "earlier", "is_last">> \o <<"answer">>) = "all"
  /\ Stage(<<"rows", "count">> \o <<"answer">>) = "rows"
  /\ Stage(<<"rows", "index">> \o <<"answer">>) = "rows"
  /\ Stage(<<"rows", "metadata", "statistics", "recent">> \o <<"answer">>) = "rows"
  /\ Stage(<<"token", "rows", "metadata", "statistics", "recent">> \o <<"answer">>) = "token"
<1> USE DEF Stage, FirstCount, SecondStatistics, SecondRecent
<1>1. Stage(<<"rows">> \o <<"answer">>) = "rows"
  <2>1. <<"rows">> \o <<"answer">> = <<"rows", "answer">>
    BY Written
  <2>2. Stage(<<"rows", "answer">>) = "rows"
    OBVIOUS
  <2> QED
    BY <2>1, <2>2
<1>2. Stage(<<"block", "rows">> \o <<"answer">>) = "block"
  <2>1. <<"block", "rows">> \o <<"answer">> = <<"block", "rows", "answer">>
    BY Written
  <2>2. Stage(<<"block", "rows", "answer">>) = "block"
    OBVIOUS
  <2> QED
    BY <2>1, <2>2
<1>3. Stage(<<"metadata", "recent", "statistics", "rows">> \o <<"answer">>) = "metadata"
  <2>1. <<"metadata", "recent", "statistics", "rows">> \o <<"answer">> = <<"metadata", "recent", "statistics", "rows", "answer">>
    BY Written
  <2>2. Stage(<<"metadata", "recent", "statistics", "rows", "answer">>) = "metadata"
    OBVIOUS
  <2> QED
    BY <2>1, <2>2
<1>4. Stage(<<"last", "numbers">> \o <<"answer">>) = "last"
  <2>1. <<"last", "numbers">> \o <<"answer">> = <<"last", "numbers", "answer">>
    BY Written
  <2>2. Stage(<<"last", "numbers", "answer">>) = "last"
    OBVIOUS
  <2> QED
    BY <2>1, <2>2
<1>5. Stage(<<"daily", "later", "newest">> \o <<"answer">>) = "daily"
  <2>1. <<"daily", "later", "newest">> \o <<"answer">> = <<"daily", "later", "newest", "answer">>
    BY Written
  <2>2. Stage(<<"daily", "later", "newest", "answer">>) = "daily"
    OBVIOUS
  <2> QED
    BY <2>1, <2>2
<1>6. Stage(<<"estimate", "rows">> \o <<"answer">>) = "estimate"
  <2>1. <<"estimate", "rows">> \o <<"answer">> = <<"estimate", "rows", "answer">>
    BY Written
  <2>2. Stage(<<"estimate", "rows", "answer">>) = "estimate"
    OBVIOUS
  <2> QED
    BY <2>1, <2>2
<1>7. Stage(<<"metadata", "statistics", "recent", "rows">> \o <<"answer">>) = "metadata"
  <2>1. <<"metadata", "statistics", "recent", "rows">> \o <<"answer">> = <<"metadata", "statistics", "recent", "rows", "answer">>
    BY Written
  <2>2. Stage(<<"metadata", "statistics", "recent", "rows", "answer">>) = "metadata"
    OBVIOUS
  <2> QED
    BY <2>1, <2>2
<1>8. Stage(<<"all">> \o <<"answer">>) = "all"
  <2>1. <<"all">> \o <<"answer">> = <<"all", "answer">>
    BY Written
  <2>2. Stage(<<"all", "answer">>) = "all"
    OBVIOUS
  <2> QED
    BY <2>1, <2>2
<1>9. Stage(<<"all", "is_last">> \o <<"answer">>) = "all"
  <2>1. <<"all", "is_last">> \o <<"answer">> = <<"all", "is_last", "answer">>
    BY Written
  <2>2. Stage(<<"all", "is_last", "answer">>) = "all"
    OBVIOUS
  <2> QED
    BY <2>1, <2>2
<1>10. Stage(<<"all", "earlier", "is_last">> \o <<"answer">>) = "all"
  <2>1. <<"all", "earlier", "is_last">> \o <<"answer">> = <<"all", "earlier", "is_last", "answer">>
    BY Written
  <2>2. Stage(<<"all", "earlier", "is_last", "answer">>) = "all"
    OBVIOUS
  <2> QED
    BY <2>1, <2>2
<1>11. Stage(<<"rows", "count">> \o <<"answer">>) = "rows"
  <2>1. <<"rows", "count">> \o <<"answer">> = <<"rows", "count", "answer">>
    BY Written
  <2>2. Stage(<<"rows", "count", "answer">>) = "rows"
    OBVIOUS
  <2> QED
    BY <2>1, <2>2
<1>12. Stage(<<"rows", "index">> \o <<"answer">>) = "rows"
  <2>1. <<"rows", "index">> \o <<"answer">> = <<"rows", "index", "answer">>
    BY Written
  <2>2. Stage(<<"rows", "index", "answer">>) = "rows"
    OBVIOUS
  <2> QED
    BY <2>1, <2>2
<1>13. Stage(<<"rows", "metadata", "statistics", "recent">> \o <<"answer">>) = "rows"
  <2>1. <<"rows", "metadata", "statistics", "recent">> \o <<"answer">> = <<"rows", "metadata", "statistics", "recent", "answer">>
    BY Written
  <2>2. Stage(<<"rows", "metadata", "statistics", "recent", "answer">>) = "rows"
    OBVIOUS
  <2> QED
    BY <2>1, <2>2
<1>14. Stage(<<"token", "rows", "metadata", "statistics", "recent">> \o <<"answer">>) = "token"
  <2>1. <<"token", "rows", "metadata", "statistics", "recent">> \o <<"answer">> = <<"token", "rows", "metadata", "statistics", "recent", "answer">>
    BY Written
  <2>2. Stage(<<"token", "rows", "metadata", "statistics", "recent", "answer">>) = "token"
    OBVIOUS
  <2> QED
    BY <2>1, <2>2
<1> QED
  BY <1>1, <1>2, <1>3, <1>4, <1>5, <1>6, <1>7, <1>8, <1>9, <1>10, <1>11, <1>12, <1>13, <1>14

(* How the queries of a request start, by its rule.                        *)
LEMMA Starts ==
  ASSUME NEW q \in Requests, q.rule # "export"
  PROVE  LET s == Stage(q.queries \o <<"answer">>) IN
         /\ s \in {"rows", "block", "metadata", "last", "daily", "estimate", "all", "token"}
         /\ s = "rows" => /\ q.rule # "before"
                          /\ q.rule = "transactions" => q.filter.by \in {"none", "date"}
         /\ s = "daily" => q.table = "Transaction" /\ q.filter.by = "none"
<1> DEFINE s == Stage(q.queries \o <<"answer">>)
<1>0. Shape(q)
  BY Shapes
<1>1. MainStats.table = "Transaction" /\ MainStats.filter.by = "none"
  BY DEF MainStats, List, JoinedList, Everything
<1>2. CASE q.rule = "transactions"
  BY <1>0, <1>2, StartStages DEF Shape
<1>3. CASE q.rule \in {"internal", "address", "count", "shown"}
  BY <1>0, <1>3, StartStages DEF Shape
<1>4. CASE q.rule = "before"
  BY <1>0, <1>1, <1>4, StartStages DEF Shape
<1>5. CASE q.rule \in {"whole", "detail"}
  BY <1>0, <1>5, StartStages DEF Shape
<1>6. CASE q.rule \in {"after", "uncached", "once"}
  BY <1>0, <1>6, StartStages DEF Shape
<1> QED
  BY <1>0, <1>2, <1>3, <1>4, <1>5, <1>6 DEF Shape

(* What was there when a request began could be shown, joins and all.      *)
LEMMA DueMatches ==
  ASSUME Typed, Course
  PROVE  Due \subseteq Matching
<1>0. request \in Requests /\ stored \in SUBSET Rows
  BY DEF Typed, DB!TypeOK
<1> SUFFICES ASSUME NEW r \in Due, r.block <= synced, NEW k \in request.joins
             PROVE  IF k = "Token" THEN HasToken(r) ELSE HasTransaction(r)
  BY DEF Due, Matching, Joined
<1>1. r \in stored /\ r.kind = request.table /\ Match(request.filter, r)
  BY DEF Due, Asked
<1>2. r \in OfTable(request)
  BY <1>0, <1>1 DEF OfTable
<1>3. PICK s \in Rows : /\ s.kind = k /\ s.block <= r.block
                        /\ IF k = "Token" THEN s.names \subseteq r.names ELSE s.tx = r.tx
  BY <1>0, <1>2, JoinsAssumption
<1>4. k \in {"Transaction", "Token"}
  BY <1>0, Unjoined
<1>5. s \in Relevant
  BY <1>0, <1>2, <1>3, <1>4 DEF Relevant, RelevantTo
<1>6. BlockOf[s] <= synced
  <2>1. s.block = BlockOf[s] /\ s.block \in Nat /\ r.block \in Nat /\ synced \in Nat
    BY <1>0, <1>1, RecordsAssumption, TablesAssumption DEF WellFormed, Typed, DB!TypeOK
  <2> QED
    BY <1>3, <2>1
<1>7. s \in stored
  BY <1>5, <1>6 DEF Course, RecordedStored
<1> QED
  BY <1>3, <1>4, <1>7 DEF HasToken, HasTransaction

(* No answer tells nothing.                                                *)
LEMMA Nothing ==
  ASSUME NEW q, NEW v, IsView(q, v), NEW p
  PROVE  KeptIn(q, v, NoAnswer) /\ SoundIn(q, v, NoAnswer, p)
BY DEF NoAnswer, KeptIn, SoundIn, IsView

(* A new request starts on its course: another page is asked for after     *)
(* one with rows.                                                          *)
LEMMA AskOnCourse == ASSUME Typed, Typed', Course, Ask PROVE Course'
<1>0. request \in Requests /\ IsView(request, View) /\ page \in Nat
  BY Viewed DEF Typed, Pages
<1>1. /\ UNCHANGED <<synced, stored, aggregated, request, cache>> /\ View' = View
      /\ got' = Blank /\ todo' = request.queries \o <<"answer">> /\ answer' = NoAnswer
  BY SameView DEF Ask, dbVars
<1>2. KeptIn(request, View, Blank)
  <2>1. Due \subseteq Matching /\ Latest \in Nat /\ aggregated \in Nat
    BY <1>0, DueMatches DEF IsView, View
  <2> QED
    BY <2>1 DEF KeptIn, Blank, View
<1>3. /\ page' \in Nat
      /\ page' = 1 \/ (page' = page + 1 /\ request.rule \notin OnePage /\ answer.rows # {})
  BY <1>0 DEF Ask, Turn, Paged
<1>4. OnCourse(request, View, Blank, page', Stage(request.queries \o <<"answer">>))
  <2>0. CASE request.rule = "export"
    BY <2>0 DEF OnCourse
  <2> DEFINE s == Stage(request.queries \o <<"answer">>)
  <2>1. CASE request.rule # "export"
    <3>1. /\ s \in {"rows", "block", "metadata", "last", "daily", "estimate", "all", "token"}
          /\ s = "rows" => /\ request.rule # "before"
                           /\ request.rule = "transactions" => request.filter.by \in {"none", "date"}
          /\ s = "daily" => request.table = "Transaction" /\ request.filter.by = "none"
      BY <1>0, <2>1, Starts
    <3>2. Blank.total = 0 /\ Blank.had = Due
      BY DEF Blank
    <3>3. s = "rows" => RowsReady(request, View, Blank)
      BY <3>1, <3>2 DEF RowsReady
    <3>4. (request.rule = "transactions" /\ page' > 1) => Due # {}
      <4> SUFFICES ASSUME request.rule = "transactions", page' > 1 PROVE Due # {}
        OBVIOUS
      <4>1. answer.rows # {}
        BY <1>3
      <4>2. answer.rows \subseteq Matching
        BY <2>1 DEF Course, KeptIn, View
      <4>3. Head(request.queries) # "token"
        BY <1>0, Branches
      <4>4. Matching \subseteq Due
        BY <4>3 DEF Matching, Due, NeedsMore
      <4> QED
        BY <4>1, <4>2, <4>4
    <3>5. request.rule \in OnePage => page' = 1
      BY <1>3
    <3> HIDE DEF s
    <3>6. OnCourse(request, View, Blank, page', s)
      BY <3>1, <3>2, <3>3, <3>4, <3>5 DEF OnCourse
    <3> QED
      BY <3>6 DEF s
  <2> QED
    BY <2>0, <2>1
<1>5. RecordedStored'
  BY <1>1 DEF Course, RecordedStored, Relevant
<1>6. KeptIn(request, View, got)' /\ KeptIn(request, View, answer)' /\ SoundIn(request, View, answer, page)'
  BY <1>0, <1>1, <1>2, Nothing
<1>7. \A p \in Pages : (KeptIn(request, View, cache[p]) /\ SoundIn(request, View, cache[p], p))'
  BY <1>1 DEF Course
<1>8. (todo # <<>> => OnCourse(request, View, got, page, Stage(todo)))'
  BY <1>1, <1>4
<1>9. (request.rule \in OnePage => page <= 1)'
  BY <1>1, <1>3
<1> QED
  BY <1>5, <1>6, <1>7, <1>8, <1>9 DEF Course

(* An answer that is kept is as true as when it was given.                 *)
LEMMA CacheOnCourse == ASSUME Typed, Typed', Course, AnswerFromCache PROVE Course'
<1>0. page \in Nat /\ page' \in Pages
  BY TurnTyped DEF Typed, Pages, AnswerFromCache
<1>1. /\ UNCHANGED <<synced, stored, aggregated, request, cache, todo, got>> /\ View' = View
      /\ todo = <<>> /\ answer' = cache[page']
  BY SameView DEF AnswerFromCache, dbVars, Turn
<1>2. RecordedStored'
  BY <1>1 DEF Course, RecordedStored, Relevant
<1>3. KeptIn(request, View, got)' /\ KeptIn(request, View, answer)' /\ SoundIn(request, View, answer, page)'
  BY <1>0, <1>1 DEF Course
<1>4. \A p \in Pages : (KeptIn(request, View, cache[p]) /\ SoundIn(request, View, cache[p], p))'
  BY <1>1 DEF Course
<1>5. (todo # <<>> => OnCourse(request, View, got, page, Stage(todo)))'
  BY <1>1
<1>6. (request.rule \in OnePage => page <= 1)'
  BY <1>0, <1>1 DEF AnswerFromCache, Turn, Paged
<1> QED
  BY <1>2, <1>3, <1>4, <1>5, <1>6 DEF Course

(* An answer is what has been read.                                        *)
LEMMA AnswerOnCourse == ASSUME Typed, Typed', Course, Answer PROVE Course'
<1>0. request \in Requests /\ IsView(request, View) /\ got \in AnswerType /\ OnTrack(request, todo)
  BY Viewed DEF Typed, Fits
<1> DEFINE a == [got EXCEPT !.since = 0]
<1>1. /\ UNCHANGED <<synced, stored, aggregated, request, page>> /\ View' = View
      /\ todo # <<>> /\ Head(todo) = "answer" /\ todo' = <<>> /\ got' = NoAnswer
      /\ answer' = a /\ (cache' = [cache EXCEPT ![page] = a] \/ cache' = cache)
  BY SameView DEF Answer, dbVars, Query
<1>2. KeptIn(request, View, a) /\ SoundIn(request, View, a, page)
  <2>1. Stage(todo) = "answer"
    BY <1>0, <1>1, Follows DEF Follow
  <2>2. request.rule \notin {"shown", "export"} => SoundIn(request, View, got, page)
    BY <1>1, <2>1 DEF Course, OnCourse
  <2>3. SoundIn(request, View, got, page)
    BY <2>2 DEF SoundIn
  <2>4. /\ a.rows = got.rows /\ a.total = got.total /\ a.had = got.had /\ a.days = got.days
        /\ a.latest = got.latest /\ a.found = got.found /\ a.rough = got.rough
    BY <1>0 DEF AnswerType
  <2> HIDE DEF a
  <2>5. KeptIn(request, View, a)
    BY <2>4 DEF Course, KeptIn
  <2>6. SoundIn(request, View, a, page)
    BY <2>3, <2>4 DEF SoundIn, SummedIn
  <2> QED
    BY <2>5, <2>6
<1> HIDE DEF a
<1>3. RecordedStored'
  BY <1>1 DEF Course, RecordedStored, Relevant
<1>4. KeptIn(request, View, got)' /\ KeptIn(request, View, answer)' /\ SoundIn(request, View, answer, page)'
  BY <1>0, <1>1, <1>2, Nothing
<1>5. \A p \in Pages : (KeptIn(request, View, cache[p]) /\ SoundIn(request, View, cache[p], p))'
  <2> SUFFICES ASSUME NEW p \in Pages
               PROVE  KeptIn(request, View, cache'[p]) /\ SoundIn(request, View, cache'[p], p)
    BY <1>1
  <2>1. CASE cache'[p] = cache[p]
    BY <2>1 DEF Course
  <2>2. CASE cache'[p] = a /\ p = page
    BY <1>2, <2>2
  <2> QED
    BY <1>1, <2>1, <2>2 DEF Typed
<1>6. (todo # <<>> => OnCourse(request, View, got, page, Stage(todo)))'
  BY <1>1
<1>7. (request.rule \in OnePage => page <= 1)'
  BY <1>1 DEF Course
<1> QED
  BY <1>3, <1>4, <1>5, <1>6, <1>7 DEF Course

(* Nothing is claimed at first.                                            *)
LEMMA InitOnCourse == Init => Course
<1> SUFFICES ASSUME Init PROVE Course
  OBVIOUS
<1>0. request \in Requests /\ IsView(request, View)
  BY InitTyped, Viewed DEF Typed
<1>1. /\ got = NoAnswer /\ answer = NoAnswer /\ todo = <<>> /\ page = 0 /\ synced = First - 1
      /\ \A p \in Pages : cache[p] = NoAnswer
  BY DEF Init, DB!Init
<1>2. RecordedStored
  <2>1. \A r \in Rows : ~(BlockOf[r] <= synced)
    <3> SUFFICES ASSUME NEW r \in Rows PROVE ~(BlockOf[r] <= synced)
      OBVIOUS
    <3>1. First <= BlockOf[r]
      BY RecordsAssumption
    <3>2. BlockOf[r] \in Nat /\ First \in Nat
      BY TablesAssumption DEF WellFormed
    <3> QED
      BY <1>1, <3>1, <3>2
  <2>2. Relevant \subseteq Rows
    BY <1>0 DEF Relevant, RelevantTo, OfTable
  <2> QED
    BY <2>1, <2>2 DEF RecordedStored
<1>3. KeptIn(request, View, got) /\ KeptIn(request, View, answer) /\ SoundIn(request, View, answer, page)
  BY <1>0, <1>1, Nothing
<1>4. \A p \in Pages : KeptIn(request, View, cache[p]) /\ SoundIn(request, View, cache[p], p)
  BY <1>0, <1>1, Nothing
<1> QED
  BY <1>1, <1>2, <1>3, <1>4 DEF Course

(* Every step keeps the course: one case for each action.                  *)
LEMMA StepOnCourse == Typed /\ Typed' /\ Course /\ [Next]_vars => Course'
<1> SUFFICES ASSUME Typed, Typed', Course, [Next]_vars PROVE Course'
  OBVIOUS
<1>0. aggregated \in Nat /\ stored \subseteq Rows
  BY Numbered DEF Typed
<1>1. CASE Ask
  BY <1>1, AskOnCourse
<1>2. CASE Read
  BY <1>2, ReadOnCourse
<1>3. CASE Answer
  BY <1>3, AnswerOnCourse
<1>4. CASE AnswerFromCache
  BY <1>4, CacheOnCourse
<1>5. CASE Write
  <2>1. stored \subseteq stored' /\ synced' = synced /\ aggregated' = aggregated /\ request' = request
    BY <1>5 DEF Write, DB!Write
  <2>2. RecordedStored'
    BY <2>1 DEF Course, RecordedStored, Relevant
  <2>3. page' = page /\ todo' = todo /\ got' = got /\ cache' = cache /\ answer' = answer
    BY <1>5 DEF Write
  <2> QED
    BY <1>0, <2>1, <2>2, <2>3, GrowsOnCourse
<1>6. CASE Record
  <2>1. stored' = stored /\ aggregated' = aggregated /\ request' = request
    BY <1>6 DEF Record, DB!Record
  <2>2. RecordedStored'
    BY <1>6, <2>1 DEF Record, RecordedStored, Relevant
  <2>3. page' = page /\ todo' = todo /\ got' = got /\ cache' = cache /\ answer' = answer
    BY <1>6 DEF Record
  <2> QED
    BY <1>0, <2>1, <2>2, <2>3, GrowsOnCourse
<1>7. CASE Aggregate
  <2>1. stored' = stored /\ synced' = synced /\ request' = request
    BY <1>7 DEF Aggregate, dbVars
  <2>2. aggregated' \in Nat /\ aggregated < aggregated'
    BY <1>7, ExplorerAssumption DEF Aggregate
  <2>3. RecordedStored'
    BY <2>1 DEF Course, RecordedStored, Relevant
  <2>4. page' = page /\ todo' = todo /\ got' = got /\ cache' = cache /\ answer' = answer
    BY <1>7 DEF Aggregate
  <2> QED
    BY <1>0, <2>1, <2>2, <2>3, <2>4, GrowsOnCourse
<1>8. CASE UNCHANGED vars
  <2>1. /\ stored' = stored /\ synced' = synced /\ aggregated' = aggregated /\ request' = request
        /\ page' = page /\ todo' = todo /\ got' = got /\ cache' = cache /\ answer' = answer
    BY <1>8 DEF vars, dbVars
  <2>2. RecordedStored'
    BY <2>1 DEF Course, RecordedStored, Relevant
  <2> QED
    BY <1>0, <2>1, <2>2, GrowsOnCourse
<1> QED
  BY <1>1, <1>2, <1>3, <1>4, <1>5, <1>6, <1>7, <1>8 DEF Next

(* What is known of an answer is what the property says of it.             *)
LEMMA CourseIsExact == ASSUME Typed, Course PROVE TotalsAreExact
<1>0. request \in Requests /\ answer \in AnswerType /\ IsView(request, View)
  BY Viewed DEF Typed, Fits
<1> SUFFICES ASSUME answer.found, ~answer.rough, ~PastTheDay, request.rule \notin {"shown", "export"}
             PROVE  Least(answer) <= answer.total /\ answer.total <= Most(answer)
  BY DEF TotalsAreExact
<1>1. /\ View.m = Matching /\ View.day = aggregated /\ View.latest = Latest
      /\ View.block = LastBlock /\ View.index = LastIndex
  BY DEF View
<1>2. IF TellsIfLast(request) THEN \/ answer.total = 0 /\ Latest > request.filter.value
                                   \/ answer.total = 1 /\ answer.latest <= request.filter.value
      ELSE IF OfBlocks(request) THEN answer.latest <= answer.total /\ answer.total <= LastBlock
      ELSE IF request.table = "StateBatch"
           THEN Cardinality(answer.had) - 1 <= answer.total /\ answer.total <= LastIndex
      ELSE IF request.rule = "transactions" /\ request.filter.by = "block"
           THEN /\ Cardinality(answer.had) <= answer.total
                /\ answer.total <= TransactionsCount(request.filter.value)
      ELSE SummedIn(View, answer)
  BY <1>1 DEF Course, SoundIn, PastTheDay
<1>3. /\ Reads(request, "is_last") <=> TellsIfLast(request)
      /\ ByNumber <=> OfBlocks(request)
      /\ Head(request.queries) = "block" <=> request.rule = "transactions" /\ request.filter.by = "block"
  BY <1>0, Branches DEF ByNumber, OfBlocks
<1>4. CASE TellsIfLast(request)
  <2>1. Latest \in Nat /\ request.filter.value \in Nat /\ answer.latest \in Nat
    BY <1>0, <1>1, <1>4, Tellers DEF IsView, AnswerType
  <2> QED
    BY <1>2, <1>3, <1>4, <2>1 DEF Least, Most, IsLast
<1>5. CASE ~TellsIfLast(request) /\ OfBlocks(request)
  BY <1>2, <1>3, <1>5 DEF Least, Most
<1>6. CASE ~TellsIfLast(request) /\ ~OfBlocks(request) /\ request.table = "StateBatch"
  BY <1>2, <1>3, <1>6 DEF Least, Most
<1>7. CASE /\ ~TellsIfLast(request) /\ ~OfBlocks(request) /\ request.table # "StateBatch"
           /\ request.rule = "transactions" /\ request.filter.by = "block"
  BY <1>2, <1>3, <1>7 DEF Least, Most
<1>8. CASE /\ ~TellsIfLast(request) /\ ~OfBlocks(request) /\ request.table # "StateBatch"
           /\ ~(request.rule = "transactions" /\ request.filter.by = "block")
  <2>1. Between(View.m, answer.days, View.day) = Twice(answer)
    BY <1>1 DEF Between, Twice
  <2>2. /\ Cardinality(answer.had) <= answer.total
        /\ answer.total <= Cardinality(Matching) + Cardinality(Twice(answer))
    BY <1>1, <1>2, <1>8, <2>1 DEF SummedIn
  <2> QED
    BY <1>3, <1>8, <2>2 DEF Least, Most
<1> QED
  BY <1>4, <1>5, <1>6, <1>7, <1>8

(* A total is never less than there was when the request began and never   *)
(* more than there is now: statistics and recent rows are read apart       *)
(* while the indexer and the aggregation move on.                          *)
THEOREM ExplorerTotalsAreExact == Spec => []TotalsAreExact
<1>1. Typed /\ Course => TotalsAreExact
  BY CourseIsExact
<1>2. Spec => [](Typed /\ Course)
  <2>1. Init => Typed /\ Course
    BY InitTyped, InitOnCourse
  <2>2. (Typed /\ Course) /\ [Next]_vars => (Typed /\ Course)'
    BY StepTyped, StepOnCourse
  <2> QED
    BY <2>1, <2>2, PTL DEF Spec
<1> QED
  BY <1>1, <1>2, PTL

(***************************************************************************)
(* Walks: what is known of them.                                           *)
(***************************************************************************)
(* What holds of the tables and of a walk whatever the request: rows come  *)
(* after those they refer to, only those the request may read, the blocks  *)
(* in their order; days that are aggregated are recorded.                  *)
Grounds ==
  /\ DB!NoOrphans
  /\ stored \subseteq Relevant
  /\ \A r \in stored, s \in Rows :
       r.kind = "Block" /\ s.kind = "Block" /\ s.block < r.block => s \in stored
  /\ \A b \in Blocks : DayOf[b] <= aggregated => b <= synced
  /\ NeedsMore => \A r \in got.had : r.block <= synced
  /\ walk \in [seen : SUBSET Rows, from : SUBSET Rows, version : Nat, ordered : BOOLEAN]

(* The pages of a walk that were answered.                                 *)
Turned == IF todo = <<>> THEN page ELSE page - 1

(* The order of a list, its rows in the tables S, and the part of them     *)
(* that page p is.                                                         *)
Sorted(q, r, s) ==
  \/ q.keys > 0 /\ r.block > s.block
  \/ q.keys > 1 /\ r.block = s.block /\ r.tx > s.tx
  \/ q.keys > 2 /\ r.block = s.block /\ r.tx = s.tx /\ r.at > s.at
Ahead(q, M, r) == {s \in M : Sorted(q, s, r)}
Alone(q, M, r) == \A s \in M : (~Sorted(q, r, s) /\ ~Sorted(q, s, r)) => s = r
Finds(q, S) ==
  {r \in S : /\ r.kind = q.table /\ Match(q.filter, r)
             /\ \A k \in q.joins :
                  IF k = "Token" THEN \E s \in S : s.kind = "Token" /\ s.names \subseteq r.names
                  ELSE \E s \in S : s.kind = "Transaction" /\ s.tx = r.tx}
PageOf(q, M, P, p) ==
  /\ Cardinality(P) = Cut(Cardinality(M), p)
  /\ \A r \in M : Alone(q, M, r) =>
       (r \in P <=> /\ Offset(p) <= Cardinality(Ahead(q, M, r))
                    /\ Cardinality(Ahead(q, M, r)) < Offset(p) + PageSize)

(* H[n]: what the tables held when they had n rows, S being what they hold.*)
Chain(H, S) ==
  /\ H \in [Nat -> SUBSET Rows] /\ H[0] = {}
  /\ \A m, n \in Nat : m <= n => H[m] \subseteq H[n]
  /\ \A n \in Nat : Cardinality(S) <= n => H[n] = S

(* The rows of an answer are a page of what the tables held when they were *)
(* read, and that holds what there was when the request began.             *)
Told(q, H, S, a, p) == a.version <= Cardinality(S) /\ PageOf(q, Finds(q, H[a.version]), a.rows, p)
HadBy(q, H, a) == a.had \subseteq Finds(q, H[a.version])

(* After n pages, what a walk has not seen is behind them.                 *)
Walked(q, H, S, w, n) ==
  w.ordered =>
    /\ w.version <= Cardinality(S)
    /\ \A r \in w.from :
         /\ r \in Finds(q, H[w.version])
         /\ Alone(q, Finds(q, S), r) =>
              r \in w.seen \/ n * PageSize <= Cardinality(Ahead(q, Finds(q, H[w.version]), r))

(* The lists of rows, and their queries while the rows are not read.       *)
Listed(q) == q.rule \notin Whole /\ ~OfBlocks(q) /\ ~OfStats(q)
NotYet ==
  {<<"rows", "answer">>, <<"block", "rows", "answer">>, <<"estimate", "rows", "answer">>,
   <<"metadata", "recent", "statistics", "rows", "answer">>, <<"recent", "statistics", "rows", "answer">>,
   <<"statistics", "rows", "answer">>, <<"metadata", "statistics", "recent", "rows", "answer">>,
   <<"statistics", "recent", "rows", "answer">>, <<"recent", "rows", "answer">>,
   <<"rows", "count", "answer">>, <<"rows", "index", "answer">>,
   <<"rows", "metadata", "statistics", "recent", "answer">>,
   <<"token", "rows", "metadata", "statistics", "recent", "answer">>}

ListBy(H) ==
  /\ Chain(H, stored)
  /\ todo # <<>> => /\ Told(request, H, stored, got, page)
                    /\ todo \in NotYet \/ HadBy(request, H, got)
  /\ page > 0 => Told(request, H, stored, answer, page) /\ HadBy(request, H, answer)
  /\ \A p \in Pages : Told(request, H, stored, cache[p], p) /\ HadBy(request, H, cache[p])
  /\ Walked(request, H, stored, walk, Turned)
  /\ (todo = <<>> /\ page > 0) => walk.version = answer.version
TokenFirst ==
  todo = <<"token", "rows", "metadata", "statistics", "recent", "answer">> => Head(request.queries) = "token"
ListsKept == Listed(request) => TokenFirst /\ \E H : ListBy(H)

(* The list of blocks: the answer for page p has the rows of its numbers.  *)
NumbersIn(a, p) ==
  /\ a.version = a.total
  /\ \A r \in a.had : r.block <= a.total
  /\ \A r \in Rows :
       r.kind = "Block" /\ a.total - p * PageSize < r.block /\ r.block <= a.total - Offset(p) => r \in a.rows
NumbersSoFar ==
  /\ Head(todo) \in {"last", "numbers"} => \A r \in got.had : r.block <= got.latest
  /\ Head(todo) = "numbers" =>
       /\ got.version = got.total
       /\ \A s \in Rows : s.kind = "Block" /\ s.block <= got.total => s \in stored
  /\ Head(todo) = "answer" => NumbersIn(got, page)
NumbersKept ==
  OfBlocks(request) =>
    /\ todo # <<>> => NumbersSoFar
    /\ page > 0 => NumbersIn(answer, page)
    /\ \A p \in Pages : NumbersIn(cache[p], p)
    /\ walk.ordered =>
         \A r \in walk.from : /\ r.kind = "Block"
                              /\ r \in walk.seen \/ r.block <= walk.version - Turned * PageSize
    /\ (todo = <<>> /\ page > 0) => walk.version = answer.version

(* What is read whole: the answer has what there was, or an export raised. *)
Has(q, a) ==
  a.had \subseteq a.rows \/ (q.rule = "export" /\ ~a.found /\ a.days < q.filter.value[2])
TokensLater ==
  {<<"first_block", "last_block", "range", "tokens", "answer">>, <<"last_block", "range", "tokens", "answer">>,
   <<"range", "tokens", "answer">>, <<"tokens", "answer">>}
WholeSoFar ==
  /\ Head(todo) \in {"earlier", "is_last", "tokens", "answer"} => Has(request, got)
  /\ Head(todo) = "tokens" => \A r \in got.rows : r.kind = request.table
  /\ Head(todo) \in {"last_block", "range"} => \A r \in got.had : got.since <= r.block
  /\ Head(todo) = "range" => \A r \in got.had : r.block <= got.total
  /\ todo \in TokensLater => Reads(request, "tokens")
WholeKept ==
  request.rule \in Whole =>
    /\ page <= 1
    /\ todo # <<>> => walk = NewWalk /\ WholeSoFar
    /\ Has(request, answer) /\ \A p \in Pages : Has(request, cache[p])
    /\ (todo = <<>> /\ page = 1) => walk.from = answer.had /\ walk.seen = answer.rows

(* A request sees the tables as they are, and a page as PageFacts has it.  *)
LEMMA SeesAll ==
  /\ Matching = Finds(request, stored)
  /\ \A r, s : Above(r, s) <=> Sorted(request, r, s)
  /\ \A M, r : Over(M, r) = Ahead(request, M, r)
<1>1. Matching = Finds(request, stored)
  BY DEF Matching, Finds, Asked, Joined, HasToken, HasTransaction
<1>2. \A r, s : Above(r, s) <=> Sorted(request, r, s)
  BY DEF Above, Sorted
<1>3. \A M, r : Over(M, r) = Ahead(request, M, r)
  BY <1>2 DEF Over, Ahead
<1> QED
  BY <1>1, <1>2, <1>3

(* What a query for a page answers is the page.                            *)
LEMMA ReadsPage ==
  ASSUME Typed, page \in Pages, NEW P \in PagesOf(Matching, page)
  PROVE  P \subseteq Matching /\ PageOf(request, Finds(request, stored), P, page)
<1>1. Matching \in SUBSET Rows
  BY Numbered DEF Typed
<1>2. page \in Nat \ {0}
  BY DEF Pages
<1>3. request.keys \in Nat
  BY Shapes DEF Shape, Typed
<1>4. /\ P \subseteq Matching /\ Cardinality(P) = Cut(Cardinality(Matching), page)
      /\ \A r \in Matching : Tied(Matching, r) = {r} =>
           (r \in P <=> /\ Offset(page) <= Cardinality(Over(Matching, r))
                        /\ Cardinality(Over(Matching, r)) < Offset(page) + PageSize)
  BY <1>1, <1>2, <1>3, PageFacts
<1>5. ASSUME NEW r \in Matching, Alone(request, Matching, r)
      PROVE  Tied(Matching, r) = {r}
  <2>1. \A s \in Matching : (~Above(r, s) /\ ~Above(s, r)) => s = r
    BY <1>5, SeesAll DEF Alone
  <2>2. ~Above(r, r)
    BY <1>1, <1>3, AboveOrders
  <2> QED
    BY <2>1, <2>2 DEF Tied
<1>6. PageOf(request, Matching, P, page)
  BY <1>4, <1>5, SeesAll DEF PageOf
<1> QED
  BY <1>4, <1>6, SeesAll

(* A list finds the more the more there is; a row gets no further ahead,   *)
(* and only less alone.                                                    *)
LEMMA FindsMore ==
  ASSUME NEW q, NEW S \in SUBSET Rows, NEW T \in SUBSET Rows, S \subseteq T
  PROVE  /\ Finds(q, S) \subseteq Finds(q, T) /\ Finds(q, S) \in SUBSET Rows /\ Finds(q, T) \in SUBSET Rows
         /\ \A r : Cardinality(Ahead(q, Finds(q, S), r)) <= Cardinality(Ahead(q, Finds(q, T), r))
         /\ \A r : Alone(q, Finds(q, T), r) => Alone(q, Finds(q, S), r)
         /\ \A r : Cardinality(Ahead(q, Finds(q, S), r)) \in Nat
         /\ \A r : Cardinality(Ahead(q, Finds(q, T), r)) \in Nat
<1>1. Finds(q, S) \subseteq Finds(q, T) /\ Finds(q, S) \in SUBSET Rows /\ Finds(q, T) \in SUBSET Rows
  <2>1. Finds(q, S) \subseteq S /\ Finds(q, T) \subseteq T
    BY DEF Finds
  <2>2. ASSUME NEW r \in Finds(q, S) PROVE r \in Finds(q, T)
    BY <2>2 DEF Finds
  <2> QED
    BY <2>1, <2>2
<1>2. ASSUME NEW r
      PROVE  /\ Cardinality(Ahead(q, Finds(q, S), r)) <= Cardinality(Ahead(q, Finds(q, T), r))
             /\ Cardinality(Ahead(q, Finds(q, S), r)) \in Nat
             /\ Cardinality(Ahead(q, Finds(q, T), r)) \in Nat
  <2>1. /\ Ahead(q, Finds(q, S), r) \in SUBSET Ahead(q, Finds(q, T), r)
        /\ Ahead(q, Finds(q, T), r) \in SUBSET Rows
        /\ Ahead(q, Finds(q, S), r) \in SUBSET Rows
    BY <1>1 DEF Ahead
  <2> QED
    BY <2>1, Sizes
<1>3. \A r : Alone(q, Finds(q, T), r) => Alone(q, Finds(q, S), r)
  BY <1>1 DEF Alone
<1> QED
  BY <1>1, <1>2, <1>3

(* A page of nothing is empty.                                             *)
LEMMA NoPage ==
  ASSUME NEW q, NEW p \in Nat \ {0}
  PROVE  Finds(q, {}) = {} /\ PageOf(q, {}, {}, p)
<1>1. Finds(q, {}) = {}
  BY DEF Finds
<1>2. Cardinality({}) = 0
  BY FS_EmptySet
<1>3. Cut(0, p) = 0
  BY OffsetFacts DEF Cut
<1>4. PageOf(q, {}, {}, p)
  BY <1>2, <1>3 DEF PageOf
<1> QED
  BY <1>1, <1>4

(* One more row: the tables are as they were for each number before.       *)
Grown(H, S, T) == \E G : Chain(G, T) /\ \A n \in 0..Cardinality(S) : G[n] = H[n]
LEMMA ChainGrows ==
  ASSUME NEW S \in SUBSET Rows, NEW x \in Rows, x \notin S, NEW H, Chain(H, S)
  PROVE  /\ Cardinality(S \cup {x}) = Cardinality(S) + 1
         /\ Grown(H, S, S \cup {x})
<1> DEFINE T == S \cup {x}
           G == [n \in Nat |-> IF n <= Cardinality(S) THEN H[n] ELSE T]
<1>1. IsFiniteSet(S) /\ Cardinality(S) \in Nat /\ T \in SUBSET Rows
  BY Sizes
<1>2. Cardinality(T) = Cardinality(S) + 1
  BY <1>1, FS_AddElement
<1>3. H \in [Nat -> SUBSET Rows] /\ H[0] = {} /\ (\A m, n \in Nat : m <= n => H[m] \subseteq H[n])
      /\ H[Cardinality(S)] = S
  BY <1>1 DEF Chain
<1>4. G \in [Nat -> SUBSET Rows]
  BY <1>1, <1>3
<1>5. \A n \in Nat : G[n] = IF n <= Cardinality(S) THEN H[n] ELSE T
  OBVIOUS
<1> HIDE DEF G, T
<1>6. G[0] = {} /\ \A n \in 0..Cardinality(S) : G[n] = H[n]
  BY <1>1, <1>3, <1>5
<1>7. ASSUME NEW m \in Nat, NEW n \in Nat, m <= n PROVE G[m] \subseteq G[n]
  <2>1. CASE n <= Cardinality(S)
    BY <1>1, <1>3, <1>5, <1>7, <2>1
  <2>2. CASE Cardinality(S) < m
    BY <1>1, <1>5, <1>7, <2>2
  <2>3. CASE m <= Cardinality(S) /\ ~(n <= Cardinality(S))
    <3>1. H[m] \subseteq S
      BY <1>1, <1>3, <2>3
    <3> QED
      BY <1>5, <2>3, <3>1 DEF T
  <2> QED
    BY <1>1, <2>1, <2>2, <2>3
<1>8. \A n \in Nat : Cardinality(T) <= n => G[n] = T
  BY <1>1, <1>2, <1>5
<1>9. Chain(G, T)
  BY <1>4, <1>6, <1>7, <1>8 DEF Chain
<1>10. Grown(H, S, T)
  BY <1>6, <1>9 DEF Grown
<1> QED
  BY <1>2, <1>10 DEF T

(* A page that is turned: what was behind the pages before is on this one, *)
(* or behind it too.                                                       *)
LEMMA PageTurns ==
  ASSUME NEW q, NEW S \in SUBSET Rows, NEW H, Chain(H, S), NEW p \in Nat \ {0},
         NEW a \in AnswerType, Told(q, H, S, a, p), HadBy(q, H, a),
         NEW w \in [seen : SUBSET Rows, from : SUBSET Rows, version : Nat, ordered : BOOLEAN],
         Walked(q, H, S, w, p - 1)
  PROVE  /\ Walked(q, H, S, Onwards(w, p, a), p)
         /\ Onwards(w, p, a).version = a.version
<1> DEFINE o == Onwards(w, p, a)
<1>1. /\ o.seen = w.seen \cup a.rows /\ o.from = (IF p = 1 THEN a.had ELSE w.from)
      /\ o.version = a.version /\ (o.ordered <=> w.ordered /\ w.version <= a.version)
  BY DEF Onwards
<1> HIDE DEF o
<1> DEFINE M == Finds(q, H[a.version])
<1>2. a.version \in Nat /\ w.version \in Nat
  BY DEF AnswerType
<1>3. H \in [Nat -> SUBSET Rows] /\ (\A m, n \in Nat : m <= n => H[m] \subseteq H[n])
      /\ H[Cardinality(S)] = S /\ Cardinality(S) \in Nat
  BY Sizes DEF Chain
<1>4. H[a.version] \in SUBSET Rows /\ H[a.version] \subseteq S
  BY <1>2, <1>3 DEF Told
<1>5. Offset(p) \in Nat /\ Offset(p) = (p - 1) * PageSize /\ p * PageSize = Offset(p) + PageSize
      /\ PageSize \in Nat
  <2>1. Offset(p) \in Nat /\ Offset(p) = (p - 1) * PageSize /\ PageSize \in Nat
    BY OffsetFacts DEF Offset
  <2>2. p * PageSize = (p - 1) * PageSize + PageSize
    BY <2>1
  <2> QED
    BY <2>1, <2>2
<1>6. SUFFICES ASSUME w.ordered, w.version <= a.version, NEW r \in o.from
               PROVE  /\ r \in M
                      /\ Alone(q, Finds(q, S), r) => r \in o.seen \/ p * PageSize <= Cardinality(Ahead(q, M, r))
  BY <1>1 DEF Walked, Told, o
<1>7. r \in M /\ (Alone(q, Finds(q, S), r) => r \in o.seen \/ Offset(p) <= Cardinality(Ahead(q, M, r)))
  <2>1. CASE p = 1
    <3>1. r \in M
      BY <1>1, <2>1 DEF HadBy
    <3>2. Cardinality(Ahead(q, M, r)) \in Nat
      BY <1>4, FindsMore
    <3>3. Offset(p) = 0
      <4>1. (1 - 1) * PageSize = 0
        BY <1>5
      <4> QED
        BY <2>1, <4>1 DEF Offset
    <3> QED
      BY <3>1, <3>2, <3>3
  <2>2. CASE p # 1
    <3>1. r \in w.from
      BY <1>1, <2>2
    <3>2. /\ r \in Finds(q, H[w.version])
          /\ Alone(q, Finds(q, S), r) =>
               r \in w.seen \/ Offset(p) <= Cardinality(Ahead(q, Finds(q, H[w.version]), r))
      BY <1>5, <1>6, <3>1 DEF Walked
    <3>3. H[w.version] \subseteq H[a.version] /\ H[w.version] \in SUBSET Rows
      BY <1>2, <1>3, <1>6
    <3>4. /\ Finds(q, H[w.version]) \subseteq M
          /\ Cardinality(Ahead(q, Finds(q, H[w.version]), r)) <= Cardinality(Ahead(q, M, r))
          /\ Cardinality(Ahead(q, Finds(q, H[w.version]), r)) \in Nat
          /\ Cardinality(Ahead(q, M, r)) \in Nat
      BY <1>4, <3>3, FindsMore
    <3> HIDE DEF M
    <3>5. r \in M
      BY <3>2, <3>4
    <3>6. Alone(q, Finds(q, S), r) => r \in o.seen \/ Offset(p) <= Cardinality(Ahead(q, M, r))
      BY <1>1, <1>5, <3>2, <3>4
    <3> QED
      BY <3>5, <3>6
  <2> QED
    BY <2>1, <2>2
<1>8. SUFFICES ASSUME Alone(q, Finds(q, S), r), r \notin o.seen
               PROVE  p * PageSize <= Cardinality(Ahead(q, M, r))
  BY <1>7
<1>9. Alone(q, M, r)
  BY <1>4, <1>8, FindsMore
<1>10. r \notin a.rows
  BY <1>1, <1>8
<1>11. ~(Offset(p) <= Cardinality(Ahead(q, M, r)) /\ Cardinality(Ahead(q, M, r)) < Offset(p) + PageSize)
  BY <1>7, <1>9, <1>10 DEF Told, PageOf
<1>12. Cardinality(Ahead(q, M, r)) \in Nat
  BY <1>4, FindsMore
<1> QED
  BY <1>5, <1>7, <1>8, <1>11, <1>12

(***************************************************************************)
(* Walks: rows come after those they refer to.                             *)
(***************************************************************************)
(* Nothing is there at first.                                              *)
LEMMA InitGrounds == Init => Grounds
<1> SUFFICES ASSUME Init PROVE Grounds
  OBVIOUS
<1>1. stored = {} /\ aggregated = 0 /\ got = NoAnswer /\ walk = NewWalk
  BY DEF Init, DB!Init
<1>2. DB!NoOrphans /\ stored \subseteq Relevant
  BY <1>1 DEF DB!NoOrphans
<1>3. \A b \in Blocks : ~(DayOf[b] <= aggregated)
  BY <1>1, ExplorerAssumption DEF Days
<1>4. \A r \in got.had : r.block <= synced
  BY <1>1 DEF NoAnswer
<1>5. walk \in [seen : SUBSET Rows, from : SUBSET Rows, version : Nat, ordered : BOOLEAN]
  BY <1>1 DEF NewWalk
<1> QED
  BY <1>1, <1>2, <1>3, <1>4, <1>5 DEF Grounds

(* What the tables hold stays as it was, with the request and the walk.    *)
LEMMA GroundsStay ==
  ASSUME Typed, Grounds, UNCHANGED <<synced, stored, aggregated, request>>,
         got'.had = got.had \/ got'.had = {},
         walk' \in [seen : SUBSET Rows, from : SUBSET Rows, version : Nat, ordered : BOOLEAN]
  PROVE  Grounds'
<1>1. DB!NoOrphans' /\ (stored \subseteq Relevant)'
  BY DEF Grounds, DB!NoOrphans, Relevant
<1>2. (\A r \in stored, s \in Rows :
         r.kind = "Block" /\ s.kind = "Block" /\ s.block < r.block => s \in stored)'
  BY DEF Grounds
<1>3. (\A b \in Blocks : DayOf[b] <= aggregated => b <= synced)'
  BY DEF Grounds
<1>4. (NeedsMore => \A r \in got.had : r.block <= synced)'
  BY DEF Grounds, NeedsMore
<1> QED
  BY <1>1, <1>2, <1>3, <1>4 DEF Grounds

(* A walk that goes on is one of rows.                                     *)
LEMMA WalkGoesOn ==
  ASSUME NEW w \in [seen : SUBSET Rows, from : SUBSET Rows, version : Nat, ordered : BOOLEAN],
         NEW p, NEW a \in AnswerType
  PROVE  Onwards(w, p, a) \in [seen : SUBSET Rows, from : SUBSET Rows, version : Nat, ordered : BOOLEAN]
BY DEF Onwards, AnswerType

(* Every step keeps it.                                                    *)
LEMMA StepGrounds == Typed /\ Typed' /\ Grounds /\ [Next]_vars => Grounds'
<1> SUFFICES ASSUME Typed, Typed', Grounds, [Next]_vars PROVE Grounds'
  OBVIOUS
<1> DEFINE W == [seen : SUBSET Rows, from : SUBSET Rows, version : Nat, ordered : BOOLEAN]
<1>0. /\ walk \in W /\ NewWalk \in W /\ got \in AnswerType /\ SoFar \in W
      /\ synced \in Nat /\ stored \in SUBSET Rows
  BY DEF Grounds, NewWalk, Typed, Fits, SoFar, DB!TypeOK
<1>1. CASE Ask
  <2>1. UNCHANGED <<synced, stored, aggregated, request>> /\ got' = Blank /\ walk' \in W
    BY <1>0, <1>1 DEF Ask, dbVars
  <2>2. (NeedsMore => \A r \in got.had : r.block <= synced)'
    BY <2>1 DEF Blank, Due, NeedsMore
  <2>3. DB!NoOrphans' /\ (stored \subseteq Relevant)'
    BY <2>1 DEF Grounds, DB!NoOrphans, Relevant
  <2>4. (\A r \in stored, s \in Rows :
           r.kind = "Block" /\ s.kind = "Block" /\ s.block < r.block => s \in stored)'
    BY <2>1 DEF Grounds
  <2>5. (\A b \in Blocks : DayOf[b] <= aggregated => b <= synced)'
    BY <2>1 DEF Grounds
  <2> QED
    BY <2>1, <2>2, <2>3, <2>4, <2>5 DEF Grounds
<1>2. CASE Read
  <2>1. SameRequest(got, got') /\ \E rest : Goes(got', rest)
    BY <1>0, <1>2, ReadKeeps
  <2>2. UNCHANGED <<synced, stored, aggregated, request>> /\ got'.had = got.had /\ walk' = walk
    BY <2>1 DEF Goes, dbVars, SameRequest
  <2> QED
    BY <1>0, <2>2, GroundsStay
<1>3. CASE Answer
  <2>1. /\ UNCHANGED <<synced, stored, aggregated, request>> /\ got' = NoAnswer
        /\ walk' = Onwards(walk, page, got)
    BY <1>3 DEF Answer, dbVars
  <2>2. walk' \in W /\ got'.had = {}
    BY <1>0, <2>1, WalkGoesOn DEF NoAnswer
  <2> QED
    BY <2>1, <2>2, GroundsStay
<1>4. CASE AnswerFromCache
  <2>1. /\ UNCHANGED <<synced, stored, aggregated, request, got>>
        /\ walk' = Onwards(SoFar, page', answer')
    BY <1>4 DEF AnswerFromCache, dbVars
  <2>2. answer' \in AnswerType
    BY DEF Typed, Fits
  <2>3. walk' \in W
    BY <1>0, <2>1, <2>2, WalkGoesOn
  <2> QED
    BY <2>1, <2>3, GroundsStay
<1>5. CASE Write
  <2>1. PICK r \in Relevant \ stored :
          /\ r.kind = "Block" => \A s \in Rows : s.kind = "Block" /\ s.block < r.block => s \in stored
          /\ stored' = stored \cup {r}
    BY <1>5 DEF Write
  <2>2. UNCHANGED <<synced, aggregated, request, got, walk>>
    BY <1>5 DEF Write, DB!Write
  <2>3. \A s \in stored' \ stored : Parent[s] = NoRow \/ Parent[s] \in stored
    BY <1>5 DEF Write, DB!Write
  <2>4. DB!NoOrphans'
    BY <2>1, <2>3 DEF Grounds, DB!NoOrphans
  <2>5. (stored \subseteq Relevant)'
    BY <2>1, <2>2 DEF Grounds, Relevant
  <2>6. (\A t \in stored, s \in Rows :
           t.kind = "Block" /\ s.kind = "Block" /\ s.block < t.block => s \in stored)'
    BY <2>1 DEF Grounds
  <2>7. (\A b \in Blocks : DayOf[b] <= aggregated => b <= synced)'
    BY <2>2 DEF Grounds
  <2>8. (NeedsMore => \A t \in got.had : t.block <= synced)'
    BY <2>2 DEF Grounds, NeedsMore
  <2>9. (walk \in W)'
    BY <1>0, <2>2
  <2> QED
    BY <2>4, <2>5, <2>6, <2>7, <2>8, <2>9 DEF Grounds
<1>6. CASE Record
  <2>1. UNCHANGED <<stored, aggregated, request, got, walk>> /\ synced' \in Nat /\ synced <= synced'
    <3>1. PICK n \in 1..Steps : synced' = synced + n
      BY <1>6 DEF Record, DB!Record
    <3>2. Steps \in Nat
      BY TablesAssumption DEF WellFormed
    <3> QED
      BY <1>0, <1>6, <3>1, <3>2 DEF Record, DB!Record
  <2>2. DB!NoOrphans' /\ (stored \subseteq Relevant)'
    BY <2>1 DEF Grounds, DB!NoOrphans, Relevant
  <2>3. (\A r \in stored, s \in Rows :
           r.kind = "Block" /\ s.kind = "Block" /\ s.block < r.block => s \in stored)'
    BY <2>1 DEF Grounds
  <2>4. Blocks \subseteq Nat
    BY <1>0, Numbered DEF Typed
  <2>5. (\A b \in Blocks : DayOf[b] <= aggregated => b <= synced)'
    BY <1>0, <2>1, <2>4 DEF Grounds
  <2>6. (NeedsMore => \A r \in got.had : r.block <= synced)'
    <3>1. got.had \subseteq Rows /\ \A r \in Rows : r.block \in Nat
      BY <1>0, Numbered DEF Typed, AnswerType
    <3> QED
      BY <1>0, <2>1, <3>1 DEF Grounds, NeedsMore
  <2>7. (walk \in W)'
    BY <1>0, <2>1
  <2> QED
    BY <2>2, <2>3, <2>5, <2>6, <2>7 DEF Grounds
<1>7. CASE Aggregate
  <2>1. UNCHANGED <<synced, stored, request, got, walk>>
    BY <1>7 DEF Aggregate, dbVars
  <2>2. (\A b \in Blocks : DayOf[b] <= aggregated => b <= synced)'
    BY <1>7, <2>1 DEF Aggregate
  <2>3. DB!NoOrphans' /\ (stored \subseteq Relevant)'
    BY <2>1 DEF Grounds, DB!NoOrphans, Relevant
  <2>4. (\A r \in stored, s \in Rows :
           r.kind = "Block" /\ s.kind = "Block" /\ s.block < r.block => s \in stored)'
    BY <2>1 DEF Grounds
  <2>5. (NeedsMore => \A r \in got.had : r.block <= synced)'
    BY <2>1 DEF Grounds, NeedsMore
  <2>6. (walk \in W)'
    BY <1>0, <2>1
  <2> QED
    BY <2>2, <2>3, <2>4, <2>5, <2>6 DEF Grounds
<1>8. CASE UNCHANGED vars
  <2>1. UNCHANGED <<synced, stored, aggregated, request, got, walk>>
    BY <1>8 DEF vars, dbVars
  <2> QED
    BY <1>0, <2>1, GroundsStay
<1> QED
  BY <1>1, <1>2, <1>3, <1>4, <1>5, <1>6, <1>7, <1>8 DEF Next

(* The block of a transaction, a call or a transfer is there before it.    *)
LEMMA BlockBefore ==
  ASSUME Typed, Grounds, NEW r \in stored,
         r.kind \in {"Transaction", "ContractInternalTransaction", "TokenTransfer"}
  PROVE  BlockIsThere(r.block)
<1>1. r \in Rows
  BY DEF Typed, DB!TypeOK
<1>2. PICK b \in Rows : /\ b.kind = "Block" /\ b.block = r.block
                        /\ b = Parent[r] \/ (Parent[r] \in Rows /\ b = Parent[Parent[r]])
  BY <1>1, ParentsAssumption
<1>3. \A s \in stored : Parent[s] = NoRow \/ Parent[s] \in stored
  BY DEF Grounds, DB!NoOrphans
<1>4. NoRow \notin Rows
  BY TablesAssumption DEF WellFormed
<1>5. b \in stored
  BY <1>2, <1>3, <1>4
<1> QED
  BY <1>2, <1>5 DEF BlockIsThere

(* The action of a query is told by the head of what is left.               *)
LEMMA ActionOf ==
  ASSUME Read
  PROVE  /\ todo # <<>>
         /\ \/ Head(todo) = "metadata" /\ ReadMetadata
            \/ Head(todo) = "recent" /\ ReadRecent
            \/ Head(todo) = "statistics" /\ ReadStatistics
            \/ Head(todo) = "daily" /\ ReadDaily
            \/ Head(todo) = "later" /\ ReadLater
            \/ Head(todo) = "count" /\ ReadCount
            \/ Head(todo) = "estimate" /\ ReadEstimate
            \/ Head(todo) = "block" /\ ReadBlock
            \/ Head(todo) = "rows" /\ ReadRows
            \/ Head(todo) = "all" /\ ReadAll
            \/ Head(todo) = "shown" /\ ReadShown
            \/ Head(todo) = "last" /\ ReadLast
            \/ Head(todo) = "numbers" /\ ReadNumbers
            \/ Head(todo) = "newest" /\ ReadNewest
            \/ Head(todo) = "index" /\ ReadIndex
            \/ Head(todo) = "earlier" /\ ReadEarlier
            \/ Head(todo) = "is_last" /\ ReadIsLast
            \/ Head(todo) = "token" /\ ReadToken
            \/ Head(todo) = "first_block" /\ ReadFirstBlock
            \/ Head(todo) = "last_block" /\ ReadLastBlock
            \/ Head(todo) = "range" /\ ReadRange
            \/ Head(todo) = "tokens" /\ ReadTokens
<1>1. ASSUME ReadMetadata PROVE todo # <<>> /\ Head(todo) = "metadata"
  BY <1>1 DEF ReadMetadata, Query
<1>2. ASSUME ReadRecent PROVE todo # <<>> /\ Head(todo) = "recent"
  BY <1>2 DEF ReadRecent, Query
<1>3. ASSUME ReadStatistics PROVE todo # <<>> /\ Head(todo) = "statistics"
  BY <1>3 DEF ReadStatistics, Query
<1>4. ASSUME ReadDaily PROVE todo # <<>> /\ Head(todo) = "daily"
  BY <1>4 DEF ReadDaily, Query
<1>5. ASSUME ReadLater PROVE todo # <<>> /\ Head(todo) = "later"
  BY <1>5 DEF ReadLater, Query
<1>6. ASSUME ReadCount PROVE todo # <<>> /\ Head(todo) = "count"
  BY <1>6 DEF ReadCount, Query
<1>7. ASSUME ReadEstimate PROVE todo # <<>> /\ Head(todo) = "estimate"
  BY <1>7 DEF ReadEstimate, Query
<1>8. ASSUME ReadBlock PROVE todo # <<>> /\ Head(todo) = "block"
  BY <1>8 DEF ReadBlock, Query
<1>9. ASSUME ReadRows PROVE todo # <<>> /\ Head(todo) = "rows"
  BY <1>9 DEF ReadRows, Query
<1>10. ASSUME ReadAll PROVE todo # <<>> /\ Head(todo) = "all"
  BY <1>10 DEF ReadAll, Query
<1>11. ASSUME ReadShown PROVE todo # <<>> /\ Head(todo) = "shown"
  BY <1>11 DEF ReadShown, Query
<1>12. ASSUME ReadLast PROVE todo # <<>> /\ Head(todo) = "last"
  BY <1>12 DEF ReadLast, Query
<1>13. ASSUME ReadNumbers PROVE todo # <<>> /\ Head(todo) = "numbers"
  BY <1>13 DEF ReadNumbers, Query
<1>14. ASSUME ReadNewest PROVE todo # <<>> /\ Head(todo) = "newest"
  BY <1>14 DEF ReadNewest, Query
<1>15. ASSUME ReadIndex PROVE todo # <<>> /\ Head(todo) = "index"
  BY <1>15 DEF ReadIndex, Query
<1>16. ASSUME ReadEarlier PROVE todo # <<>> /\ Head(todo) = "earlier"
  BY <1>16 DEF ReadEarlier, Query
<1>17. ASSUME ReadIsLast PROVE todo # <<>> /\ Head(todo) = "is_last"
  BY <1>17 DEF ReadIsLast, Query
<1>18. ASSUME ReadToken PROVE todo # <<>> /\ Head(todo) = "token"
  BY <1>18 DEF ReadToken, Query
<1>19. ASSUME ReadFirstBlock PROVE todo # <<>> /\ Head(todo) = "first_block"
  BY <1>19 DEF ReadFirstBlock, Query
<1>20. ASSUME ReadLastBlock PROVE todo # <<>> /\ Head(todo) = "last_block"
  BY <1>20 DEF ReadLastBlock, Query
<1>21. ASSUME ReadRange PROVE todo # <<>> /\ Head(todo) = "range"
  BY <1>21 DEF ReadRange, Query
<1>22. ASSUME ReadTokens PROVE todo # <<>> /\ Head(todo) = "tokens"
  BY <1>22 DEF ReadTokens, Query
<1> QED
  BY <1>1, <1>2, <1>3, <1>4, <1>5, <1>6, <1>7, <1>8, <1>9, <1>10, <1>11, <1>12, <1>13, <1>14, <1>15, <1>16, <1>17, <1>18, <1>19, <1>20, <1>21, <1>22 DEF Read

(***************************************************************************)
(* A walk through the list of blocks.                                      *)
(***************************************************************************)

(* The list of blocks joins and leaves out nothing.                        *)
LEMMA AllBlocks ==
  ASSUME request \in Requests, OfBlocks(request)
  PROVE  /\ request.filter = Everything /\ request.joins = {}
         /\ Matching = {r \in stored : r.kind = "Block"}
<1>1. Shape(request)
  BY Shapes
<1>2. MainStats.table # "Block"
  BY DEF MainStats, List, JoinedList
<1>3. request = BlockList
  BY <1>1, <1>2 DEF Shape, OfBlocks
<1>4. request.filter = Everything /\ request.joins = {}
  BY <1>3 DEF BlockList, List, JoinedList
<1>5. \A r \in stored : Joined(r) /\ Match(request.filter, r)
  BY <1>4 DEF Joined, Match, Everything
<1> QED
  BY <1>4, <1>5 DEF Matching, Asked, OfBlocks

(* Up to the last one, no block is missing.                                *)
LEMMA BlocksUpToLast ==
  ASSUME Typed, Grounds, NEW s \in Rows, s.kind = "Block", s.block <= LastBlock
  PROVE  s \in stored
<1>1. s.block \in Nat /\ First <= s.block /\ First \in Nat \ {0}
  BY RecordsAssumption, TablesAssumption DEF WellFormed
<1>2. LastBlock \in StoredBlocks
  BY <1>1, FiniteNumbers, NewestFacts DEF Typed, LastBlock
<1>3. PICK r \in stored : r.kind = "Block" /\ r.block = LastBlock
  BY <1>2 DEF StoredBlocks
<1>4. r \in Rows /\ r.block \in Nat
  BY <1>3, RecordsAssumption, TablesAssumption DEF WellFormed, Typed, DB!TypeOK
<1>5. CASE s.block = r.block
  BY <1>3, <1>4, <1>5, RecordsAssumption
<1>6. CASE s.block < r.block
  BY <1>3, <1>6 DEF Grounds
<1> QED
  BY <1>1, <1>3, <1>4, <1>5, <1>6

(* A row has the number of a block, none of which is 0.                    *)
LEMMA Placed == \A r \in Rows : r.block \in Nat /\ 1 <= r.block
<1> SUFFICES ASSUME NEW r \in Rows PROVE r.block \in Nat /\ 1 <= r.block
  OBVIOUS
<1>1. r.block = BlockOf[r] /\ First <= r.block
  BY RecordsAssumption
<1>2. First \in Nat \ {0} /\ BlockOf[r] \in Nat
  BY TablesAssumption DEF WellFormed
<1> QED
  BY <1>1, <1>2

(* The answers of the list of blocks have numbers.                         *)
LEMMA NoNumbers ==
  ASSUME NEW p \in Nat \ {0}
  PROVE  NumbersIn(NoAnswer, p)
<1>1. \A r \in Rows : r.block \in Nat /\ 1 <= r.block
  BY Placed
<1>2. Offset(p) \in Nat
  BY OffsetFacts
<1>3. /\ NoAnswer.version = 0 /\ NoAnswer.total = 0 /\ NoAnswer.had = {}
  BY DEF NoAnswer
<1>4. ASSUME NEW r \in Rows PROVE ~(r.block <= 0 - Offset(p))
  BY <1>1, <1>2
<1> QED
  BY <1>3, <1>4 DEF NumbersIn

(* A page of numbers that is turned.                                       *)
LEMMA NumbersTurn ==
  ASSUME NEW p \in Nat \ {0}, NEW a \in AnswerType, NumbersIn(a, p), \A r \in a.had : r.kind = "Block",
         NEW w \in [seen : SUBSET Rows, from : SUBSET Rows, version : Nat, ordered : BOOLEAN],
         w.ordered => \A r \in w.from : /\ r.kind = "Block"
                                        /\ r \in w.seen \/ r.block <= w.version - (p - 1) * PageSize
  PROVE  LET o == Onwards(w, p, a) IN
         /\ o.version = a.version
         /\ o.ordered => \A r \in o.from : /\ r.kind = "Block"
                                           /\ r \in o.seen \/ r.block <= o.version - p * PageSize
<1> DEFINE o == Onwards(w, p, a)
<1>1. /\ o.seen = w.seen \cup a.rows /\ o.from = (IF p = 1 THEN a.had ELSE w.from)
      /\ o.version = a.version /\ (o.ordered <=> w.ordered /\ w.version <= a.version)
  BY DEF Onwards
<1> HIDE DEF o
<1>2. /\ Offset(p) \in Nat /\ Offset(p) = (p - 1) * PageSize /\ p * PageSize = Offset(p) + PageSize
      /\ PageSize \in Nat /\ (p = 1 => Offset(p) = 0)
  <2>1. Offset(p) \in Nat /\ Offset(p) = (p - 1) * PageSize /\ PageSize \in Nat
    BY OffsetFacts DEF Offset
  <2>2. p * PageSize = (p - 1) * PageSize + PageSize
    BY <2>1
  <2>3. (1 - 1) * PageSize = 0
    BY <2>1
  <2> QED
    BY <2>1, <2>2, <2>3
<1>3. a.version = a.total /\ a.total \in Nat /\ w.version \in Nat
  BY DEF NumbersIn, AnswerType
<1>4. ASSUME o.ordered, NEW r \in o.from
      PROVE  r.kind = "Block" /\ (r \in o.seen \/ r.block <= o.version - p * PageSize)
  <2>0. r \in Rows /\ r.block \in Nat
    <3>1. r \in Rows
      BY <1>1, <1>4 DEF AnswerType
    <3> QED
      BY <3>1, RecordsAssumption, TablesAssumption DEF WellFormed
  <2>1. r.kind = "Block" /\ (r \in o.seen \/ r.block <= a.total - Offset(p))
    <3>1. CASE p = 1
      <4>1. r \in a.had /\ Offset(p) = 0
        BY <1>1, <1>2, <1>4, <3>1
      <4>2. r.kind = "Block" /\ r.block <= a.total
        BY <4>1 DEF NumbersIn
      <4> QED
        BY <1>3, <2>0, <4>1, <4>2
    <3>2. CASE p # 1
      <4>1. r \in w.from /\ w.ordered /\ w.version <= a.total
        BY <1>1, <1>3, <1>4, <3>2
      <4>2. r.kind = "Block" /\ (r \in w.seen \/ r.block <= w.version - Offset(p))
        BY <1>2, <4>1
      <4> QED
        BY <1>1, <1>2, <1>3, <2>0, <4>1, <4>2
    <3> QED
      BY <3>1, <3>2
  <2>2. r.block <= a.total - Offset(p) /\ ~(r.block <= a.total - p * PageSize) => r \in a.rows
    <3> SUFFICES ASSUME r.block <= a.total - Offset(p), ~(r.block <= a.total - p * PageSize)
                 PROVE  r \in a.rows
      OBVIOUS
    <3>1. a.total - p * PageSize < r.block
      <4> DEFINE k == p * PageSize
      <4>1. k \in Int
        BY <1>2
      <4> HIDE DEF k
      <4>2. ~(r.block <= a.total - k) => a.total - k < r.block
        BY <1>3, <2>0, <4>1
      <4> QED
        BY <4>2 DEF k
    <3> QED
      BY <2>0, <2>1, <3>1 DEF NumbersIn
  <2> QED
    BY <1>1, <1>3, <2>1, <2>2
<1> QED
  BY <1>1, <1>4 DEF o

(***************************************************************************)
(* Walks by number.                                                        *)
(***************************************************************************)
(* A step is one of a request, or the tables and statistics move on.       *)
LEMMA StepsAre ==
  ASSUME [Next]_vars
  PROVE  /\ request' = request
         /\ \/ Ask \/ Read \/ Answer \/ AnswerFromCache
            \/ stored' = stored /\ UNCHANGED <<page, todo, got, cache, answer, walk>>
            \/ Write /\ UNCHANGED <<page, todo, got, cache, answer, walk>>
<1>1. CASE Ask
  BY <1>1 DEF Ask
<1>2. CASE Read
  <2>1. \E g, rest : Goes(g, rest)
    BY <1>2 DEF Read, ReadMetadata, ReadRecent, ReadStatistics, ReadDaily, ReadLater, ReadCount, ReadEstimate,
         ReadBlock, ReadRows, ReadAll, ReadShown, ReadLast, ReadNumbers, ReadNewest, ReadIndex, ReadEarlier,
         ReadIsLast, ReadToken, ReadFirstBlock, ReadLastBlock, ReadRange, ReadTokens
  <2> QED
    BY <1>2, <2>1 DEF Goes
<1>3. CASE Answer
  BY <1>3 DEF Answer
<1>4. CASE AnswerFromCache
  BY <1>4 DEF AnswerFromCache
<1>5. CASE Write
  BY <1>5 DEF Write
<1>6. CASE Record
  BY <1>6 DEF Record, DB!Record
<1>7. CASE Aggregate
  BY <1>7 DEF Aggregate, dbVars
<1>8. CASE UNCHANGED vars
  BY <1>8 DEF vars, dbVars
<1> QED
  BY <1>1, <1>2, <1>3, <1>4, <1>5, <1>6, <1>7, <1>8 DEF Next

(* The next page goes on with the walk, the first one starts another.      *)
LEMMA Turning ==
  ASSUME Typed, Turn
  PROVE  /\ page' \in Pages /\ page' \in Nat \ {0} /\ todo = <<>>
         /\ \/ page' = 1 /\ SoFar = NewWalk
            \/ page' = page + 1 /\ page' # 1 /\ SoFar = walk
<1>1. page' \in Pages /\ page \in Nat
  BY TurnTyped DEF Typed, Pages
<1> QED
  BY <1>1 DEF Turn, SoFar, Pages

(* What the list of blocks may have left.                                  *)
LEMMA BlocksTodo ==
  ASSUME request \in Requests, OnTrack(request, todo), OfBlocks(request)
  PROVE  /\ \/ todo = <<>>
            \/ todo = <<"answer">> /\ Head(todo) = "answer"
            \/ todo = <<"last", "numbers", "answer">> /\ Head(todo) = "last" /\ Tail(todo) = <<"numbers", "answer">>
            \/ todo = <<"numbers", "answer">> /\ Head(todo) = "numbers" /\ Tail(todo) = <<"answer">>
         /\ request.queries \o <<"answer">> = <<"last", "numbers", "answer">>
<1>1. todo \in {<<>>, <<"answer">>, <<"last", "numbers", "answer">>, <<"numbers", "answer">>}
  BY DEF OnTrack, OfBlocks, BlocksLeft
<1>2. todo = <<"answer">> => Head(todo) = "answer"
  OBVIOUS
<1>3. todo = <<"last", "numbers", "answer">> => Head(todo) = "last"
  OBVIOUS
<1>4. todo = <<"last", "numbers", "answer">> => Tail(todo) = <<"numbers", "answer">>
  OBVIOUS
<1>5. todo = <<"numbers", "answer">> => Head(todo) = "numbers"
  OBVIOUS
<1>6. todo = <<"numbers", "answer">> => Tail(todo) = <<"answer">>
  OBVIOUS
<1>7. request = BlockList /\ request.queries = <<"last", "numbers">>
  <2>1. Shape(request)
    BY Shapes
  <2>2. MainStats.table # "Block"
    BY DEF MainStats, List, JoinedList
  <2> QED
    BY <2>1, <2>2 DEF Shape, OfBlocks
<1>8. request.queries \o <<"answer">> = <<"last", "numbers", "answer">>
  BY <1>7, Written
<1> QED
  BY <1>1, <1>2, <1>3, <1>4, <1>5, <1>6, <1>8

(* No walk has begun at first.                                             *)
LEMMA InitNumbers == Init => NumbersKept
<1> SUFFICES ASSUME Init PROVE NumbersKept
  OBVIOUS
<1>1. todo = <<>> /\ page = 0 /\ walk = NewWalk /\ \A p \in Pages : cache[p] = NoAnswer
  BY DEF Init
<1>2. \A p \in Pages : NumbersIn(NoAnswer, p)
  BY NoNumbers DEF Pages
<1>3. walk.from = {}
  BY <1>1 DEF NewWalk
<1> QED
  BY <1>1, <1>2, <1>3 DEF NumbersKept

(* What a walk through the blocks has not seen has a lower number.         *)
Lower(w, n) ==
  w.ordered => \A r \in w.from : /\ r.kind = "Block"
                                 /\ r \in w.seen \/ r.block <= w.version - n * PageSize

(* A new request: the newest block is the highest of those there.          *)
LEMMA AskNumbers ==
  ASSUME Typed, OfBlocks(request), NumbersKept, Ask
  PROVE  NumbersKept'
<1>0. request \in Requests /\ OnTrack(request, todo)
  BY DEF Typed
<1>1. /\ UNCHANGED <<stored, request, cache>>
      /\ got' = Blank /\ todo' = request.queries \o <<"answer">> /\ answer' = NoAnswer
      /\ walk' = SoFar /\ Turn
  BY DEF Ask, dbVars
<1>2. /\ page' \in Pages /\ page' \in Nat \ {0} /\ todo = <<>>
      /\ \/ page' = 1 /\ SoFar = NewWalk
         \/ page' = page + 1 /\ page' # 1 /\ SoFar = walk
  BY <1>1, Turning
<1>3. todo' # <<>> /\ Head(todo') = "last"
  <2>1. todo' = <<"last", "numbers", "answer">>
    BY <1>0, <1>1, BlocksTodo
  <2>2. Head(<<"last", "numbers", "answer">>) = "last"
    OBVIOUS
  <2>3. <<"last", "numbers", "answer">> # <<>>
    OBVIOUS
  <2> QED
    BY <2>1, <2>2, <2>3
<1>4. \A r \in Blank.had : r.block <= Blank.latest
  <2>1. Blank.had = Due /\ Blank.latest = LastBlock
    BY DEF Blank, Latest, OfBlocks
  <2>2. \A r \in Due : r \in stored /\ r.kind = "Block"
    BY DEF Due, Asked, OfBlocks
  <2>3. \A r \in Due : r.block \in StoredBlocks
    BY <2>2 DEF StoredBlocks
  <2>4. \A n \in StoredBlocks : n <= LastBlock
    BY FiniteNumbers, NewestFacts DEF LastBlock, Typed
  <2> QED
    BY <2>1, <2>3, <2>4
<1>5. NumbersSoFar'
  <2>1. Head(todo') # "numbers" /\ Head(todo') # "answer"
    BY <1>3
  <2> QED
    BY <1>1, <1>4, <2>1 DEF NumbersSoFar
<1>6. NumbersIn(answer, page)'
  BY <1>1, <1>2, NoNumbers DEF NumbersIn
<1>7. (\A p \in Pages : NumbersIn(cache[p], p))'
  BY <1>1 DEF NumbersKept, NumbersIn
<1>8. Lower(walk', page' - 1)
  <2>1. CASE page' = 1 /\ SoFar = NewWalk
    BY <1>1, <2>1 DEF Lower, NewWalk
  <2>2. CASE page' = page + 1 /\ SoFar = walk
    <3>1. page' - 1 = page /\ Turned = page
      BY <1>2, <2>2 DEF Typed, Pages, Turned
    <3>2. Lower(walk, page)
      BY <3>1 DEF NumbersKept, Lower
    <3> QED
      BY <1>1, <2>2, <3>1, <3>2
  <2> QED
    BY <1>2, <2>1, <2>2
<1>9. Turned' = page' - 1
  BY <1>3 DEF Turned
<1> QED
  BY <1>3, <1>5, <1>6, <1>7, <1>8, <1>9 DEF NumbersKept, Lower

(* A query: up to the number that is read last, every block is there.      *)
LEMMA ReadNumbersKept ==
  ASSUME Typed, Typed', Course, Grounds, OfBlocks(request), NumbersKept, Read
  PROVE  NumbersKept'
<1>0. request \in Requests /\ OnTrack(request, todo) /\ got \in AnswerType
  BY DEF Typed, Fits
<1>1. todo # <<>> /\ NumbersSoFar
  BY ActionOf DEF NumbersKept
<1>2. \/ /\ todo = <<"last", "numbers", "answer">> /\ Head(todo) = "last"
         /\ Tail(todo) = <<"numbers", "answer">> /\ ReadLast
      \/ /\ todo = <<"numbers", "answer">> /\ Head(todo) = "numbers"
         /\ Tail(todo) = <<"answer">> /\ ReadNumbers
  <2>1. CASE Head(todo) = "answer"
    BY <2>1, ActionOf
  <2>2. CASE Head(todo) = "last"
    <3>1. ReadLast
      BY <2>2, ActionOf
    <3> QED
      BY <1>0, <1>1, <2>2, <3>1, BlocksTodo
  <2>3. CASE Head(todo) = "numbers"
    <3>1. ReadNumbers
      BY <2>3, ActionOf
    <3> QED
      BY <1>0, <1>1, <2>3, <3>1, BlocksTodo
  <2> QED
    BY <1>0, <1>1, <2>1, <2>2, <2>3, BlocksTodo
<1>3. UNCHANGED <<stored, request, page, cache, answer, walk>>
  BY <1>0, ReadKeeps DEF Goes, dbVars
<1>4. todo' # <<>> /\ NumbersSoFar'
  <2>1. CASE todo = <<"last", "numbers", "answer">>
    <3>1. /\ ReadLast /\ Head(todo) = "last" /\ Tail(todo) = <<"numbers", "answer">>
      BY <1>2, <2>1
    <3>2. got' = [Counted(LastBlock) EXCEPT !.version = LastBlock] /\ todo' = <<"numbers", "answer">>
      BY <3>1 DEF ReadLast, Goes
    <3>3. /\ got'.had = got.had /\ got'.latest = got.latest
          /\ got'.version = LastBlock /\ got'.total = LastBlock
      BY <1>0, <3>2 DEF Counted, AnswerType
    <3>4. todo' # <<>> /\ Head(todo') = "numbers"
      <4>1. Head(<<"numbers", "answer">>) = "numbers"
        OBVIOUS
      <4>2. <<"numbers", "answer">> # <<>>
        OBVIOUS
      <4> QED
        BY <3>2, <4>1, <4>2
    <3>5. \A s \in Rows : s.kind = "Block" /\ s.block <= LastBlock => s \in stored
      BY BlocksUpToLast
    <3>6. \A r \in got.had : r.block <= got.latest
      BY <1>1, <3>1 DEF NumbersSoFar
    <3> QED
      BY <1>3, <3>3, <3>4, <3>5, <3>6 DEF NumbersSoFar
  <2>2. CASE todo = <<"numbers", "answer">>
    <3>1. /\ ReadNumbers /\ Head(todo) = "numbers" /\ Tail(todo) = <<"answer">>
      BY <1>2, <2>2
    <3> DEFINE R == {r \in Matching : r.block \in Numbers(got.total - Offset(page))}
    <3>2. got' = [got EXCEPT !.rows = R] /\ todo' = <<"answer">>
      BY <3>1 DEF ReadNumbers, Goes
    <3>3. /\ got'.had = got.had /\ got'.version = got.version /\ got'.total = got.total /\ got'.rows = R
      BY <1>0, <3>2 DEF AnswerType
    <3>4. todo' # <<>> /\ Head(todo') = "answer"
      <4>1. Head(<<"answer">>) = "answer"
        OBVIOUS
      <4>2. <<"answer">> # <<>>
        OBVIOUS
      <4> QED
        BY <3>2, <4>1, <4>2
    <3>5. /\ got.version = got.total /\ \A r \in got.had : r.block <= got.latest
          /\ \A s \in Rows : s.kind = "Block" /\ s.block <= got.total => s \in stored
      BY <1>1, <3>1 DEF NumbersSoFar
    <3>6. got.latest <= got.total
      <4>1. Stage(todo) = "numbers"
        BY <2>2 DEF Stage, FirstCount, SecondStatistics, SecondRecent
      <4> QED
        BY <1>1, <4>1 DEF Course, OnCourse, OfBlocks
    <3>7. \A r \in got.had : r.block <= got.total
      <4>1. \A r \in got.had : r \in Rows /\ r.block \in Nat
        BY <1>0, Placed DEF AnswerType
      <4>2. got.latest \in Nat /\ got.total \in Nat
        BY <1>0 DEF AnswerType
      <4> QED
        BY <3>5, <3>6, <4>1, <4>2
    <3>8. ASSUME NEW r \in Rows, r.kind = "Block", got.total - page * PageSize < r.block,
                 r.block <= got.total - Offset(page)
          PROVE  r \in R
      <4>1. page \in Nat \ {0} /\ PageSize \in Nat /\ Offset(page) \in Nat
        BY <1>1, OffsetFacts DEF Typed, Pages
      <4>2. page * PageSize = Offset(page) + PageSize
        <5>1. page * PageSize = (page - 1) * PageSize + PageSize
          BY <4>1
        <5> QED
          BY <5>1 DEF Offset
      <4>3. r.block \in Nat /\ got.total \in Nat /\ r.block \in Blocks
        BY <1>0, Placed, Numbered DEF AnswerType, Typed
      <4>4. r.block <= got.total
        BY <3>8, <4>1, <4>3
      <4>5. r \in Matching
        BY <1>0, <3>5, <3>8, <4>4, AllBlocks
      <4>6. (got.total - Offset(page)) - PageSize < r.block
        BY <3>8, <4>1, <4>2, <4>3
      <4> QED
        BY <3>8, <4>3, <4>5, <4>6 DEF Numbers
    <3> HIDE DEF R
    <3>9. NumbersIn(got', page)
      BY <3>3, <3>5, <3>7, <3>8 DEF NumbersIn
    <3>10. Head(todo') # "last" /\ Head(todo') # "numbers"
      BY <3>4
    <3> QED
      BY <1>3, <3>4, <3>9, <3>10 DEF NumbersSoFar, NumbersIn
  <2> QED
    BY <1>2, <2>1, <2>2
<1>5. Turned' = Turned
  BY <1>1, <1>3, <1>4 DEF Turned
<1>6. (page > 0 => NumbersIn(answer, page))' /\ (\A p \in Pages : NumbersIn(cache[p], p))'
  BY <1>3 DEF NumbersKept, NumbersIn
<1>7. Lower(walk, Turned)'
  BY <1>3, <1>5 DEF NumbersKept, Lower
<1> QED
  BY <1>4, <1>6, <1>7 DEF NumbersKept, Lower

(* An answer, kept or not: the walk turns a page.                          *)
LEMMA AnswerNumbers ==
  ASSUME Typed, Typed', Course, Grounds, OfBlocks(request), NumbersKept, Answer \/ AnswerFromCache
  PROVE  NumbersKept'
<1>0. /\ got \in AnswerType /\ \A p \in Pages : cache[p] \in AnswerType
      /\ page \in Pages \cup {0} /\ (page = 0 => todo = <<>>)
  BY DEF Typed, Fits
<1> DEFINE W == [seen : SUBSET Rows, from : SUBSET Rows, version : Nat, ordered : BOOLEAN]
<1>a. \A r \in Matching : r.kind = "Block"
  BY DEF Matching, Asked, OfBlocks
<1>1. \E a \in AnswerType, w \in W :
        /\ NumbersIn(a, page') /\ (\A r \in a.had : r.kind = "Block") /\ Lower(w, page' - 1)
        /\ walk' = Onwards(w, page', a) /\ page' \in Nat \ {0}
        /\ answer'.rows = a.rows /\ answer'.had = a.had /\ answer'.total = a.total
        /\ answer'.version = a.version
  <2>1. CASE Answer
    <3>1. /\ page' = page /\ walk' = Onwards(walk, page, got) /\ todo # <<>> /\ Head(todo) = "answer"
          /\ answer' = [got EXCEPT !.since = 0]
      BY <2>1 DEF Answer, Query
    <3>2. NumbersIn(got, page)
      BY <3>1 DEF NumbersKept, NumbersSoFar
    <3>3. \A r \in got.had : r.kind = "Block"
      BY <1>a DEF Course, KeptIn, View
    <3>4. Lower(walk, page - 1)
      BY <3>1 DEF NumbersKept, Lower, Turned
    <3>5. walk \in W
      BY DEF Grounds
    <3>6. /\ answer'.rows = got.rows /\ answer'.had = got.had /\ answer'.total = got.total
          /\ answer'.version = got.version
      BY <1>0, <3>1 DEF AnswerType
    <3>7. page \in Nat \ {0}
      BY <1>0, <3>1 DEF Pages
    <3> QED
      BY <1>0, <3>1, <3>2, <3>3, <3>4, <3>5, <3>6, <3>7
  <2>2. CASE AnswerFromCache
    <3>1. Turn /\ answer' = cache[page'] /\ walk' = Onwards(SoFar, page', answer')
      BY <2>2 DEF AnswerFromCache
    <3>2. /\ page' \in Pages /\ page' \in Nat \ {0} /\ todo = <<>>
          /\ \/ page' = 1 /\ SoFar = NewWalk
             \/ page' = page + 1 /\ page' # 1 /\ SoFar = walk
      BY <3>1, Turning
    <3>3. NumbersIn(answer', page') /\ answer' \in AnswerType
      BY <1>0, <3>1, <3>2 DEF NumbersKept
    <3>4. \A r \in answer'.had : r.kind = "Block"
      BY <1>a, <3>1, <3>2 DEF Course, KeptIn, View
    <3>5. SoFar \in W
      <4>1. walk \in W
        BY DEF Grounds
      <4>2. NewWalk \in W
        BY DEF NewWalk
      <4> QED
        BY <3>2, <4>1, <4>2
    <3>6. Lower(SoFar, page' - 1)
      <4>1. CASE page' = 1 /\ SoFar = NewWalk
        BY <4>1 DEF Lower, NewWalk
      <4>2. CASE page' = page + 1 /\ SoFar = walk
        <5>1. page' - 1 = page /\ Turned = page
          BY <1>0, <3>2, <4>2 DEF Pages, Turned
        <5>2. Lower(walk, page)
          BY <5>1 DEF NumbersKept, Lower
        <5> QED
          BY <4>2, <5>1, <5>2
      <4> QED
        BY <3>2, <4>1, <4>2
    <3> QED
      BY <3>1, <3>2, <3>3, <3>4, <3>5, <3>6
  <2> QED
    BY <2>1, <2>2
<1>2. PICK a \in AnswerType, w \in W :
        /\ NumbersIn(a, page') /\ (\A r \in a.had : r.kind = "Block") /\ Lower(w, page' - 1)
        /\ walk' = Onwards(w, page', a) /\ page' \in Nat \ {0}
        /\ answer'.rows = a.rows /\ answer'.had = a.had /\ answer'.total = a.total
        /\ answer'.version = a.version
  BY <1>1
<1>3. walk'.version = a.version /\ Lower(walk', page')
  <2>1. \A p \in Nat \ {0} : NumbersIn(a, p) /\ Lower(w, p - 1) =>
          Onwards(w, p, a).version = a.version /\ Lower(Onwards(w, p, a), p)
    BY <1>2, NumbersTurn DEF Lower
  <2> QED
    BY <1>2, <2>1
<1>4. NumbersIn(answer', page')
  BY <1>2 DEF NumbersIn
<1>5. todo' = <<>>
  BY DEF Answer, AnswerFromCache, Turn
<1>6. \A p \in Pages : NumbersIn(cache'[p], p)
  <2>1. cache' = cache \/ (page' = page /\ cache' = [cache EXCEPT ![page] = answer'])
    BY DEF Answer, AnswerFromCache
  <2>2. DOMAIN cache = Pages
    BY DEF Typed
  <2>3. CASE cache' = cache
    BY <2>3 DEF NumbersKept
  <2>4. CASE page' = page /\ cache' = [cache EXCEPT ![page] = answer']
    <3> SUFFICES ASSUME NEW p \in Pages PROVE NumbersIn(cache'[p], p)
      OBVIOUS
    <3>1. CASE p = page
      BY <1>4, <2>2, <2>4, <3>1
    <3>2. CASE p # page
      BY <2>2, <2>4, <3>2 DEF NumbersKept
    <3> QED
      BY <3>1, <3>2
  <2> QED
    BY <2>1, <2>3, <2>4
<1>7. Turned' = page'
  BY <1>5 DEF Turned
<1>8. (NumbersIn(answer, page))' /\ (\A p \in Pages : NumbersIn(cache[p], p))' /\ Lower(walk, Turned)'
  BY <1>3, <1>4, <1>6, <1>7 DEF NumbersIn, Lower
<1>9. walk'.version = answer'.version
  BY <1>2, <1>3
<1> QED
  BY <1>5, <1>8, <1>9 DEF NumbersKept, Lower

(* Every step keeps what is known of the walk through the blocks.          *)
LEMMA StepNumbers == Typed /\ Typed' /\ Course /\ Grounds /\ NumbersKept /\ [Next]_vars => NumbersKept'
<1> SUFFICES ASSUME Typed, Typed', Course, Grounds, NumbersKept, [Next]_vars, OfBlocks(request') PROVE NumbersKept'
  BY DEF NumbersKept
<1>1. request' = request /\ OfBlocks(request)
  BY StepsAre
<1>2. CASE Ask
  BY <1>1, <1>2, AskNumbers
<1>3. CASE Read
  BY <1>1, <1>3, ReadNumbersKept
<1>4. CASE Answer \/ AnswerFromCache
  BY <1>1, <1>4, AnswerNumbers
<1>5. CASE stored \subseteq stored' /\ UNCHANGED <<page, todo, got, cache, answer, walk>>
  <2>1. (todo # <<>> => NumbersSoFar)'
    <3>1. todo # <<>> => NumbersSoFar
      BY <1>1 DEF NumbersKept
    <3> QED
      BY <1>5, <3>1 DEF NumbersSoFar, NumbersIn
  <2>2. (page > 0 => NumbersIn(answer, page))' /\ (\A p \in Pages : NumbersIn(cache[p], p))'
    BY <1>1, <1>5 DEF NumbersKept, NumbersIn
  <2>3. Turned' = Turned
    BY <1>5 DEF Turned
  <2>4. Lower(walk, Turned)'
    BY <1>1, <1>5, <2>3 DEF NumbersKept, Lower
  <2>5. ((todo = <<>> /\ page > 0) => walk.version = answer.version)'
    BY <1>1, <1>5 DEF NumbersKept
  <2> QED
    BY <2>1, <2>2, <2>4, <2>5 DEF NumbersKept, Lower
<1>6. Write => stored \subseteq stored'
  BY DEF Write
<1> QED
  BY <1>2, <1>3, <1>4, <1>5, <1>6, StepsAre

(***************************************************************************)
(* Walks of what is read whole.                                            *)
(***************************************************************************)
(* What is read whole may have left, and what comes after each query.      *)
LEMMA WholeSteps ==
  ASSUME OnTrack(request, todo), request.rule \in Whole, todo # <<>>, Head(todo) # "answer"
  PROVE  /\ Tail(todo) # <<>>
         /\ Head(todo) \in {"all", "earlier", "is_last", "first_block", "last_block", "range", "tokens"}
         /\ Head(todo) = "all" => Head(Tail(todo)) \in {"answer", "is_last", "earlier"}
         /\ Head(todo) = "earlier" => Head(Tail(todo)) = "is_last" /\ request.rule = "detail"
         /\ Head(todo) \in {"is_last", "tokens"} => Head(Tail(todo)) = "answer"
         /\ Head(todo) = "first_block" => Head(Tail(todo)) = "last_block"
         /\ Head(todo) = "last_block" => Head(Tail(todo)) = "range"
         /\ Head(todo) = "range" => Head(Tail(todo)) \in {"answer", "tokens"}
         /\ Head(todo) \in {"first_block", "last_block", "range", "tokens"} => request.rule = "export"
         /\ Head(todo) = "tokens" => todo \in TokensLater
         /\ Tail(todo) \in TokensLater => todo \in TokensLater
<1>0. \/ request.rule \in {"whole", "detail"} /\ todo \in {<<"all", "answer">>,
                                                         <<"all", "is_last", "answer">>,
                                                         <<"is_last", "answer">>,
                                                         <<"all", "earlier", "is_last", "answer">>,
                                                         <<"earlier", "is_last", "answer">>}
      \/ request.rule = "export" /\ ExportLeft(todo)
  <2>1. todo # <<"answer">>
    OBVIOUS
  <2> QED
    BY <2>1 DEF OnTrack, Whole, WholeLeft, DetailLeft
<1>d. request.rule = "whole" => todo # <<"earlier", "is_last", "answer">>
  <2>1. todo # <<"answer">>
    OBVIOUS
  <2>2. ASSUME request.rule = "whole" PROVE WholeLeft(request, todo)
    BY <2>1, <2>2 DEF OnTrack
  <2>3. /\ <<"earlier", "is_last", "answer">> # <<"all", "answer">>
        /\ <<"earlier", "is_last", "answer">> # <<"is_last", "answer">>
        /\ <<"earlier", "is_last", "answer">> # <<"all", "is_last", "answer">>
    OBVIOUS
  <2> QED
    BY <2>2, <2>3 DEF WholeLeft
<1>1. CASE todo = <<"all", "answer">>
  <2>1. Head(todo) = "all"
    BY <1>1
  <2>2. Tail(todo) = <<"answer">>
    BY <1>1
  <2>3. Tail(todo) # <<>>
    BY <2>2
  <2>4. Head(Tail(todo)) = "answer"
    <3>1. Head(<<"answer">>) = "answer"
      OBVIOUS
    <3> QED
      BY <2>2, <3>1
  <2>6. Tail(todo) \notin TokensLater
    <3>1. Tail(todo) # <<"first_block", "last_block", "range", "tokens", "answer">>
      BY <2>2
    <3>2. Tail(todo) # <<"last_block", "range", "tokens", "answer">>
      BY <2>2
    <3>3. Tail(todo) # <<"range", "tokens", "answer">>
      BY <2>2
    <3>4. Tail(todo) # <<"tokens", "answer">>
      BY <2>2
    <3> QED
      BY <3>1, <3>2, <3>3, <3>4 DEF TokensLater
  <2> QED
    BY <2>1, <2>3, <2>4, <2>6
<1>2. CASE todo = <<"all", "is_last", "answer">>
  <2>1. Head(todo) = "all"
    BY <1>2
  <2>2. Tail(todo) = <<"is_last", "answer">>
    BY <1>2
  <2>3. Tail(todo) # <<>>
    BY <2>2
  <2>4. Head(Tail(todo)) = "is_last"
    <3>1. Head(<<"is_last", "answer">>) = "is_last"
      OBVIOUS
    <3> QED
      BY <2>2, <3>1
  <2>6. Tail(todo) \notin TokensLater
    <3>1. Tail(todo) # <<"first_block", "last_block", "range", "tokens", "answer">>
      BY <2>2
    <3>2. Tail(todo) # <<"last_block", "range", "tokens", "answer">>
      BY <2>2
    <3>3. Tail(todo) # <<"range", "tokens", "answer">>
      BY <2>2
    <3>4. Tail(todo) # <<"tokens", "answer">>
      BY <2>2
    <3> QED
      BY <3>1, <3>2, <3>3, <3>4 DEF TokensLater
  <2> QED
    BY <2>1, <2>3, <2>4, <2>6
<1>3. CASE todo = <<"is_last", "answer">>
  <2>1. Head(todo) = "is_last"
    BY <1>3
  <2>2. Tail(todo) = <<"answer">>
    BY <1>3
  <2>3. Tail(todo) # <<>>
    BY <2>2
  <2>4. Head(Tail(todo)) = "answer"
    <3>1. Head(<<"answer">>) = "answer"
      OBVIOUS
    <3> QED
      BY <2>2, <3>1
  <2>6. Tail(todo) \notin TokensLater
    <3>1. Tail(todo) # <<"first_block", "last_block", "range", "tokens", "answer">>
      BY <2>2
    <3>2. Tail(todo) # <<"last_block", "range", "tokens", "answer">>
      BY <2>2
    <3>3. Tail(todo) # <<"range", "tokens", "answer">>
      BY <2>2
    <3>4. Tail(todo) # <<"tokens", "answer">>
      BY <2>2
    <3> QED
      BY <3>1, <3>2, <3>3, <3>4 DEF TokensLater
  <2> QED
    BY <2>1, <2>3, <2>4, <2>6
<1>4. CASE todo = <<"all", "earlier", "is_last", "answer">>
  <2>1. Head(todo) = "all"
    BY <1>4
  <2>2. Tail(todo) = <<"earlier", "is_last", "answer">>
    BY <1>4
  <2>3. Tail(todo) # <<>>
    BY <2>2
  <2>4. Head(Tail(todo)) = "earlier"
    <3>1. Head(<<"earlier", "is_last", "answer">>) = "earlier"
      OBVIOUS
    <3> QED
      BY <2>2, <3>1
  <2>6. Tail(todo) \notin TokensLater
    <3>1. Tail(todo) # <<"first_block", "last_block", "range", "tokens", "answer">>
      BY <2>2
    <3>2. Tail(todo) # <<"last_block", "range", "tokens", "answer">>
      BY <2>2
    <3>3. Tail(todo) # <<"range", "tokens", "answer">>
      BY <2>2
    <3>4. Tail(todo) # <<"tokens", "answer">>
      BY <2>2
    <3> QED
      BY <3>1, <3>2, <3>3, <3>4 DEF TokensLater
  <2> QED
    BY <2>1, <2>3, <2>4, <2>6
<1>5. CASE todo = <<"earlier", "is_last", "answer">>
  <2>1. Head(todo) = "earlier"
    BY <1>5
  <2>2. Tail(todo) = <<"is_last", "answer">>
    BY <1>5
  <2>3. Tail(todo) # <<>>
    BY <2>2
  <2>4. Head(Tail(todo)) = "is_last"
    <3>1. Head(<<"is_last", "answer">>) = "is_last"
      OBVIOUS
    <3> QED
      BY <2>2, <3>1
  <2>6. Tail(todo) \notin TokensLater
    <3>1. Tail(todo) # <<"first_block", "last_block", "range", "tokens", "answer">>
      BY <2>2
    <3>2. Tail(todo) # <<"last_block", "range", "tokens", "answer">>
      BY <2>2
    <3>3. Tail(todo) # <<"range", "tokens", "answer">>
      BY <2>2
    <3>4. Tail(todo) # <<"tokens", "answer">>
      BY <2>2
    <3> QED
      BY <3>1, <3>2, <3>3, <3>4 DEF TokensLater
  <2>7. request.rule = "detail"
    <3>1. request.rule # "export"
      <4> SUFFICES ASSUME request.rule = "export" PROVE FALSE
        OBVIOUS
      <4>1. ExportLeft(todo)
        BY <1>0
      <4> QED
        BY <2>1, <4>1, Heads
    <3> QED
      BY <1>0, <1>d, <1>5, <3>1
  <2> QED
    BY <2>1, <2>3, <2>4, <2>6, <2>7
<1>6. CASE todo = <<"first_block", "last_block", "range", "answer">>
  <2>1. Head(todo) = "first_block"
    BY <1>6
  <2>2. Tail(todo) = <<"last_block", "range", "answer">>
    BY <1>6
  <2>3. Tail(todo) # <<>>
    BY <2>2
  <2>4. Head(Tail(todo)) = "last_block"
    <3>1. Head(<<"last_block", "range", "answer">>) = "last_block"
      OBVIOUS
    <3> QED
      BY <2>2, <3>1
  <2>5. request.rule = "export"
    <3>1. Head(todo) \notin {"all", "earlier", "is_last"}
      BY <2>1
    <3>2. Head(<<"all", "answer">>) = "all"
      OBVIOUS
    <3>3. Head(<<"all", "is_last", "answer">>) = "all"
      OBVIOUS
    <3>4. Head(<<"all", "earlier", "is_last", "answer">>) = "all"
      OBVIOUS
    <3>5. Head(<<"earlier", "is_last", "answer">>) = "earlier"
      OBVIOUS
    <3>6. Head(<<"is_last", "answer">>) = "is_last"
      OBVIOUS
    <3> QED
      BY <1>0, <3>1, <3>2, <3>3, <3>4, <3>5, <3>6
  <2>6. Tail(todo) \notin TokensLater
    <3>1. Tail(todo) # <<"first_block", "last_block", "range", "tokens", "answer">>
      BY <2>2
    <3>2. Tail(todo) # <<"last_block", "range", "tokens", "answer">>
      BY <2>2
    <3>3. Tail(todo) # <<"range", "tokens", "answer">>
      BY <2>2
    <3>4. Tail(todo) # <<"tokens", "answer">>
      BY <2>2
    <3> QED
      BY <3>1, <3>2, <3>3, <3>4 DEF TokensLater
  <2> QED
    BY <2>1, <2>3, <2>4, <2>5, <2>6
<1>7. CASE todo = <<"last_block", "range", "answer">>
  <2>1. Head(todo) = "last_block"
    BY <1>7
  <2>2. Tail(todo) = <<"range", "answer">>
    BY <1>7
  <2>3. Tail(todo) # <<>>
    BY <2>2
  <2>4. Head(Tail(todo)) = "range"
    <3>1. Head(<<"range", "answer">>) = "range"
      OBVIOUS
    <3> QED
      BY <2>2, <3>1
  <2>5. request.rule = "export"
    <3>1. Head(todo) \notin {"all", "earlier", "is_last"}
      BY <2>1
    <3>2. Head(<<"all", "answer">>) = "all"
      OBVIOUS
    <3>3. Head(<<"all", "is_last", "answer">>) = "all"
      OBVIOUS
    <3>4. Head(<<"all", "earlier", "is_last", "answer">>) = "all"
      OBVIOUS
    <3>5. Head(<<"earlier", "is_last", "answer">>) = "earlier"
      OBVIOUS
    <3>6. Head(<<"is_last", "answer">>) = "is_last"
      OBVIOUS
    <3> QED
      BY <1>0, <3>1, <3>2, <3>3, <3>4, <3>5, <3>6
  <2>6. Tail(todo) \notin TokensLater
    <3>1. Tail(todo) # <<"first_block", "last_block", "range", "tokens", "answer">>
      BY <2>2
    <3>2. Tail(todo) # <<"last_block", "range", "tokens", "answer">>
      BY <2>2
    <3>3. Tail(todo) # <<"range", "tokens", "answer">>
      BY <2>2
    <3>4. Tail(todo) # <<"tokens", "answer">>
      BY <2>2
    <3> QED
      BY <3>1, <3>2, <3>3, <3>4 DEF TokensLater
  <2> QED
    BY <2>1, <2>3, <2>4, <2>5, <2>6
<1>8. CASE todo = <<"range", "answer">>
  <2>1. Head(todo) = "range"
    BY <1>8
  <2>2. Tail(todo) = <<"answer">>
    BY <1>8
  <2>3. Tail(todo) # <<>>
    BY <2>2
  <2>4. Head(Tail(todo)) = "answer"
    <3>1. Head(<<"answer">>) = "answer"
      OBVIOUS
    <3> QED
      BY <2>2, <3>1
  <2>5. request.rule = "export"
    <3>1. Head(todo) \notin {"all", "earlier", "is_last"}
      BY <2>1
    <3>2. Head(<<"all", "answer">>) = "all"
      OBVIOUS
    <3>3. Head(<<"all", "is_last", "answer">>) = "all"
      OBVIOUS
    <3>4. Head(<<"all", "earlier", "is_last", "answer">>) = "all"
      OBVIOUS
    <3>5. Head(<<"earlier", "is_last", "answer">>) = "earlier"
      OBVIOUS
    <3>6. Head(<<"is_last", "answer">>) = "is_last"
      OBVIOUS
    <3> QED
      BY <1>0, <3>1, <3>2, <3>3, <3>4, <3>5, <3>6
  <2>6. Tail(todo) \notin TokensLater
    <3>1. Tail(todo) # <<"first_block", "last_block", "range", "tokens", "answer">>
      BY <2>2
    <3>2. Tail(todo) # <<"last_block", "range", "tokens", "answer">>
      BY <2>2
    <3>3. Tail(todo) # <<"range", "tokens", "answer">>
      BY <2>2
    <3>4. Tail(todo) # <<"tokens", "answer">>
      BY <2>2
    <3> QED
      BY <3>1, <3>2, <3>3, <3>4 DEF TokensLater
  <2> QED
    BY <2>1, <2>3, <2>4, <2>5, <2>6
<1>9. CASE todo = <<"first_block", "last_block", "range", "tokens", "answer">>
  <2>1. Head(todo) = "first_block"
    BY <1>9
  <2>2. Tail(todo) = <<"last_block", "range", "tokens", "answer">>
    BY <1>9
  <2>3. Tail(todo) # <<>>
    BY <2>2
  <2>4. Head(Tail(todo)) = "last_block"
    <3>1. Head(<<"last_block", "range", "tokens", "answer">>) = "last_block"
      OBVIOUS
    <3> QED
      BY <2>2, <3>1
  <2>5. request.rule = "export"
    <3>1. Head(todo) \notin {"all", "earlier", "is_last"}
      BY <2>1
    <3>2. Head(<<"all", "answer">>) = "all"
      OBVIOUS
    <3>3. Head(<<"all", "is_last", "answer">>) = "all"
      OBVIOUS
    <3>4. Head(<<"all", "earlier", "is_last", "answer">>) = "all"
      OBVIOUS
    <3>5. Head(<<"earlier", "is_last", "answer">>) = "earlier"
      OBVIOUS
    <3>6. Head(<<"is_last", "answer">>) = "is_last"
      OBVIOUS
    <3> QED
      BY <1>0, <3>1, <3>2, <3>3, <3>4, <3>5, <3>6
  <2>6. todo \in TokensLater
    BY <1>9 DEF TokensLater
  <2> QED
    BY <2>1, <2>3, <2>4, <2>5, <2>6
<1>10. CASE todo = <<"last_block", "range", "tokens", "answer">>
  <2>1. Head(todo) = "last_block"
    BY <1>10
  <2>2. Tail(todo) = <<"range", "tokens", "answer">>
    BY <1>10
  <2>3. Tail(todo) # <<>>
    BY <2>2
  <2>4. Head(Tail(todo)) = "range"
    <3>1. Head(<<"range", "tokens", "answer">>) = "range"
      OBVIOUS
    <3> QED
      BY <2>2, <3>1
  <2>5. request.rule = "export"
    <3>1. Head(todo) \notin {"all", "earlier", "is_last"}
      BY <2>1
    <3>2. Head(<<"all", "answer">>) = "all"
      OBVIOUS
    <3>3. Head(<<"all", "is_last", "answer">>) = "all"
      OBVIOUS
    <3>4. Head(<<"all", "earlier", "is_last", "answer">>) = "all"
      OBVIOUS
    <3>5. Head(<<"earlier", "is_last", "answer">>) = "earlier"
      OBVIOUS
    <3>6. Head(<<"is_last", "answer">>) = "is_last"
      OBVIOUS
    <3> QED
      BY <1>0, <3>1, <3>2, <3>3, <3>4, <3>5, <3>6
  <2>6. todo \in TokensLater
    BY <1>10 DEF TokensLater
  <2> QED
    BY <2>1, <2>3, <2>4, <2>5, <2>6
<1>11. CASE todo = <<"range", "tokens", "answer">>
  <2>1. Head(todo) = "range"
    BY <1>11
  <2>2. Tail(todo) = <<"tokens", "answer">>
    BY <1>11
  <2>3. Tail(todo) # <<>>
    BY <2>2
  <2>4. Head(Tail(todo)) = "tokens"
    <3>1. Head(<<"tokens", "answer">>) = "tokens"
      OBVIOUS
    <3> QED
      BY <2>2, <3>1
  <2>5. request.rule = "export"
    <3>1. Head(todo) \notin {"all", "earlier", "is_last"}
      BY <2>1
    <3>2. Head(<<"all", "answer">>) = "all"
      OBVIOUS
    <3>3. Head(<<"all", "is_last", "answer">>) = "all"
      OBVIOUS
    <3>4. Head(<<"all", "earlier", "is_last", "answer">>) = "all"
      OBVIOUS
    <3>5. Head(<<"earlier", "is_last", "answer">>) = "earlier"
      OBVIOUS
    <3>6. Head(<<"is_last", "answer">>) = "is_last"
      OBVIOUS
    <3> QED
      BY <1>0, <3>1, <3>2, <3>3, <3>4, <3>5, <3>6
  <2>6. todo \in TokensLater
    BY <1>11 DEF TokensLater
  <2> QED
    BY <2>1, <2>3, <2>4, <2>5, <2>6
<1>12. CASE todo = <<"tokens", "answer">>
  <2>1. Head(todo) = "tokens"
    BY <1>12
  <2>2. Tail(todo) = <<"answer">>
    BY <1>12
  <2>3. Tail(todo) # <<>>
    BY <2>2
  <2>4. Head(Tail(todo)) = "answer"
    <3>1. Head(<<"answer">>) = "answer"
      OBVIOUS
    <3> QED
      BY <2>2, <3>1
  <2>5. request.rule = "export"
    <3>1. Head(todo) \notin {"all", "earlier", "is_last"}
      BY <2>1
    <3>2. Head(<<"all", "answer">>) = "all"
      OBVIOUS
    <3>3. Head(<<"all", "is_last", "answer">>) = "all"
      OBVIOUS
    <3>4. Head(<<"all", "earlier", "is_last", "answer">>) = "all"
      OBVIOUS
    <3>5. Head(<<"earlier", "is_last", "answer">>) = "earlier"
      OBVIOUS
    <3>6. Head(<<"is_last", "answer">>) = "is_last"
      OBVIOUS
    <3> QED
      BY <1>0, <3>1, <3>2, <3>3, <3>4, <3>5, <3>6
  <2>6. todo \in TokensLater
    BY <1>12 DEF TokensLater
  <2> QED
    BY <2>1, <2>3, <2>4, <2>5, <2>6
<1> QED
  BY <1>0, <1>1, <1>2, <1>3, <1>4, <1>5, <1>6, <1>7, <1>8, <1>9, <1>10, <1>11, <1>12 DEF ExportLeft

(* Who reads tokens later does not read all first.                         *)
LEMMA LaterHeads == \A t \in TokensLater : Head(t) # "all" /\ Head(t) # "answer"
<1>1. ASSUME NEW t, t = <<"first_block", "last_block", "range", "tokens", "answer">> PROVE Head(t) = "first_block"
  BY <1>1
<1>2. ASSUME NEW t, t = <<"last_block", "range", "tokens", "answer">> PROVE Head(t) = "last_block"
  BY <1>2
<1>3. ASSUME NEW t, t = <<"range", "tokens", "answer">> PROVE Head(t) = "range"
  BY <1>3
<1>4. ASSUME NEW t, t = <<"tokens", "answer">> PROVE Head(t) = "tokens"
  BY <1>4
<1> QED
  BY <1>1, <1>2, <1>3, <1>4 DEF TokensLater

(* An export without tokens is not one with them.                          *)
LEMMA Longer ==
  <<"first_block", "last_block", "range", "answer">> # <<"first_block", "last_block", "range", "tokens", "answer">>
<1>1. ASSUME NEW t, t = <<"first_block", "last_block", "range", "answer">> PROVE Len(t) = 4
  BY <1>1
<1>2. ASSUME NEW t, t = <<"first_block", "last_block", "range", "tokens", "answer">> PROVE Len(t) = 5
  BY <1>2
<1>3. \A t : ~(Len(t) = 4 /\ Len(t) = 5)
  OBVIOUS
<1> QED
  BY <1>1, <1>2, <1>3, Zenon

(* How what is read whole begins.                                          *)
LEMMA WholeStarts ==
  ASSUME NEW q \in Requests, q.rule \in Whole, NEW t, t = q.queries \o <<"answer">>
  PROVE  t # <<>> /\ Head(t) \in {"all", "first_block"} /\ (t \in TokensLater => Reads(q, "tokens"))
<1>0. Shape(q)
  BY Shapes
<1> DEFINE Fine(u) == u # <<>> /\ Head(u) \in {"all", "first_block"}
<1>1. CASE q.queries = <<"all">>
  <2>1. t = <<"all", "answer">>
    BY <1>1, Written
  <2>2. t # <<>> /\ Head(t) = "all"
    BY <2>1
  <2>3. t \notin TokensLater
    BY <2>2, LaterHeads
  <2> QED
    BY <2>2, <2>3
<1>2. CASE q.queries = <<"all", "is_last">>
  <2>1. t = <<"all", "is_last", "answer">>
    BY <1>2, Written
  <2>2. t # <<>> /\ Head(t) = "all"
    BY <2>1
  <2>3. t \notin TokensLater
    BY <2>2, LaterHeads
  <2> QED
    BY <2>2, <2>3
<1>3. CASE q.queries = <<"all", "earlier", "is_last">>
  <2>1. t = <<"all", "earlier", "is_last", "answer">>
    BY <1>3, Written
  <2>2. t # <<>> /\ Head(t) = "all"
    BY <2>1
  <2>3. t \notin TokensLater
    BY <2>2, LaterHeads
  <2> QED
    BY <2>2, <2>3
<1>4. CASE q.queries = <<"first_block", "last_block", "range">>
  <2>1. t = <<"first_block", "last_block", "range", "answer">>
    BY <1>4, Written
  <2>2. t # <<>> /\ Head(t) = "first_block"
    BY <2>1
  <2>3. t \notin TokensLater
    <3>1. t # <<"first_block", "last_block", "range", "tokens", "answer">>
      BY <2>1, Longer
    <3>2. t # <<"last_block", "range", "tokens", "answer">>
      <4>1. Head(<<"last_block", "range", "tokens", "answer">>) = "last_block"
        OBVIOUS
      <4> QED
        BY <2>2, <4>1
    <3>3. t # <<"range", "tokens", "answer">>
      BY <2>1
    <3>4. t # <<"tokens", "answer">>
      BY <2>1
    <3> QED
      BY <3>1, <3>2, <3>3, <3>4 DEF TokensLater
  <2> QED
    BY <2>2, <2>3
<1>5. CASE q.queries = <<"first_block", "last_block", "range", "tokens">>
  <2>1. t = <<"first_block", "last_block", "range", "tokens", "answer">>
    BY <1>5, Written
  <2>2. t # <<>> /\ Head(t) = "first_block"
    BY <2>1
  <2>3. Reads(q, "tokens")
    <3>1. 4 \in DOMAIN q.queries /\ q.queries[4] = "tokens"
      BY <1>5
    <3> QED
      BY <3>1 DEF Reads
  <2> QED
    BY <2>2, <2>3
<1> QED
  BY <1>0, <1>1, <1>2, <1>3, <1>4, <1>5 DEF Shape, Whole

(* Nothing has been read at first.                                         *)
LEMMA InitWhole == Init => WholeKept
<1> SUFFICES ASSUME Init PROVE WholeKept
  OBVIOUS
<1>1. /\ todo = <<>> /\ page = 0 /\ walk = NewWalk /\ answer = NoAnswer
      /\ \A p \in Pages : cache[p] = NoAnswer
  BY DEF Init
<1>2. Has(request, NoAnswer)
  BY DEF Has, NoAnswer
<1> QED
  BY <1>1, <1>2 DEF WholeKept

(* Of what is read whole there is one page, the first.                     *)
LEMMA OneWhole ==
  ASSUME Typed, request.rule \in Whole, WholeKept, Turn
  PROVE  page' = 1 /\ SoFar = NewWalk /\ todo = <<>>
<1>0. request \in Requests /\ page \in Nat
  BY DEF Typed, Pages
<1>1. ~ByNumber
  BY <1>0, Branches DEF ByNumber, Whole
<1>2. page \in {0, 1}
  BY <1>0 DEF WholeKept
<1>3. page' = 1
  <2>1. CASE page = 0
    BY <2>1 DEF Turn
  <2>2. CASE page = 1
    <3>1. todo = <<>>
      BY DEF Turn
    <3>2. Ended
      BY <1>1, <2>2, <3>1 DEF Ended
    <3> QED
      BY <3>2 DEF Turn
  <2> QED
    BY <1>2, <2>1, <2>2
<1> QED
  BY <1>3 DEF Turn, SoFar

(* A new request for what is read whole.                                   *)
LEMMA AskWhole ==
  ASSUME Typed, request.rule \in Whole, WholeKept, Ask
  PROVE  WholeKept'
<1>1. /\ UNCHANGED <<request, cache>> /\ todo' = request.queries \o <<"answer">> /\ answer' = NoAnswer
      /\ walk' = SoFar /\ Turn
  BY DEF Ask
<1>2. page' = 1 /\ walk' = NewWalk
  BY <1>1, OneWhole
<1>3. /\ todo' # <<>> /\ Head(todo') \in {"all", "first_block"}
      /\ todo' \in TokensLater => Reads(request, "tokens")
  BY <1>1, WholeStarts DEF Typed
<1>4. WholeSoFar'
  BY <1>1, <1>3 DEF WholeSoFar
<1>5. Has(request, answer)'
  BY <1>1 DEF Has, NoAnswer
<1>6. (\A p \in Pages : Has(request, cache[p]))'
  BY <1>1 DEF WholeKept, Has
<1> QED
  BY <1>2, <1>3, <1>4, <1>5, <1>6 DEF WholeKept

(* The block before one that was recorded is there.                        *)
LEMMA EarlierIsThere ==
  ASSUME Typed, Course, Grounds, request.rule = "detail", NEW r \in got.had
  PROVE  BlockIsThere(Earlier(request.filter.value))
<1>0. request \in Requests
  BY DEF Typed
<1>1. /\ request = BlockDetail(request.filter.value) /\ request.filter.value \in Nat
      /\ request.table = "Block" /\ request.filter.by = "block"
  <2>1. request = BlockDetail(request.filter.value) /\ request.filter.value \in Nat
    BY <1>0, Shapes DEF Shape
  <2>2. /\ BlockDetail(request.filter.value).table = "Block"
        /\ BlockDetail(request.filter.value).filter.by = "block"
    BY DEF BlockDetail, List, JoinedList, OfBlock
  <2> QED
    BY <2>1, <2>2
<1>2. r \in stored /\ r.kind = "Block" /\ Match(request.filter, r)
  BY <1>1 DEF Course, KeptIn, View, Matching, Asked
<1>3. r.block = request.filter.value
  BY <1>1, <1>2 DEF Match
<1>4. r \in Rows /\ r.block \in Nat /\ 1 <= r.block
  BY <1>2, Placed DEF Typed, DB!TypeOK
<1>5. PICK s \in Rows : s.kind = "Block" /\ s.block = Earlier(request.filter.value)
  BY <1>0, <1>2, <1>3, <1>4, EarlierAssumption
<1>6. s.block <= r.block
  BY <1>3, <1>4, <1>5 DEF Earlier
<1>7. r.block <= synced
  BY DEF Grounds, NeedsMore
<1>8. s \in Relevant
  BY <1>0, <1>1, <1>5 DEF Relevant, RelevantTo, OfBridge
<1>9. BlockOf[s] <= synced
  <2>1. BlockOf[s] = s.block /\ s.block \in Nat
    BY <1>5, Placed, RecordsAssumption
  <2>2. synced \in Nat
    BY DEF Typed, DB!TypeOK
  <2> QED
    BY <1>4, <1>6, <1>7, <2>1, <2>2
<1>10. s \in stored
  BY <1>8, <1>9 DEF Course, RecordedStored
<1> QED
  BY <1>5, <1>10 DEF BlockIsThere

(* The rows of a day's export are transactions, calls or transfers, whose  *)
(* blocks are there.                                                       *)
LEMMA ExportRows ==
  ASSUME Typed, Course, Grounds, request.rule = "export", NEW r \in stored, r.kind = request.table,
         Match(request.filter, r)
  PROVE  /\ r.block \in StoredBlocks /\ r.block \in Nat
         /\ DayOf[r.block] = request.filter.value[2] /\ request.filter.value[1] \in r.names
<1>0. /\ request \in Requests /\ r \in Rows
      /\ request.table \in {"Transaction", "ContractInternalTransaction", "TokenTransfer"}
      /\ request.filter.by = "address_and_date"
  BY Shapes DEF Typed, DB!TypeOK, Shape
<1>1. BlockIsThere(r.block)
  BY <1>0, BlockBefore
<1>2. r.block \in StoredBlocks
  BY <1>1 DEF BlockIsThere, StoredBlocks
<1>3. DayOf[r.block] = request.filter.value[2] /\ request.filter.value[1] \in r.names
  BY <1>0 DEF Match
<1> QED
  BY <1>0, <1>2, <1>3, Placed

(* On a day that was over, the token of a transfer is there.               *)
LEMMA TokenIsThere ==
  ASSUME Typed, Course, Grounds, request.rule = "export", Reads(request, "tokens"),
         request.filter.value[2] <= got.days, NEW r \in got.rows, r.kind = request.table
  PROVE  HasToken(r)
<1>0. /\ request \in Requests /\ got \in AnswerType /\ got.rows \subseteq stored
      /\ request.table \in {"Transaction", "ContractInternalTransaction", "TokenTransfer"}
      /\ request.filter.value[2] \in Nat /\ stored \in SUBSET Rows /\ synced \in Nat
  BY Shapes DEF Typed, Fits, Shape, DB!TypeOK
<1>1. r \in OfTable(request)
  <2>1. r \in Relevant
    BY <1>0 DEF Grounds
  <2>2. r.kind \notin {"Block", "Token"}
    BY <1>0
  <2>3. ~(r.kind = "Transaction" /\ r.kind \in request.joins)
    BY <1>0, Unjoined
  <2> QED
    BY <1>0, <2>1, <2>2, <2>3 DEF Relevant, RelevantTo
<1>2. Match(request.filter, r)
  <2>1. ~Reads(request, "is_last")
    BY <1>0, Branches DEF TellsIfLast
  <2> QED
    BY <1>1, <2>1 DEF OfTable
<1>3. DayOf[r.block] = request.filter.value[2]
  BY <1>0, <1>2, ExportRows
<1>4. got.days <= aggregated
  BY DEF Course, KeptIn, View
<1>5. r.block <= synced
  <2>1. r.block \in Blocks /\ aggregated \in Nat /\ got.days \in Nat
    BY <1>0, Numbered DEF Typed, AnswerType
  <2>2. DayOf[r.block] <= aggregated
    BY <1>0, <1>3, <1>4, <2>1
  <2> QED
    BY <2>1, <2>2 DEF Grounds
<1>6. PICK s \in Rows : s.kind = "Token" /\ s.block <= r.block /\ s.names \subseteq r.names
  BY <1>0, <1>1, TokensAssumption
<1>7. s \in Relevant
  BY <1>0, <1>1, <1>6 DEF Relevant, RelevantTo
<1>8. BlockOf[s] <= synced
  <2>1. BlockOf[s] = s.block /\ s.block \in Nat /\ r.block \in Nat
    BY <1>0, <1>6, Placed, RecordsAssumption
  <2> QED
    BY <1>0, <1>5, <1>6, <2>1
<1>9. s \in stored
  BY <1>7, <1>8 DEF Course, RecordedStored
<1> QED
  BY <1>6, <1>9 DEF HasToken

(* What a query leaves as it is.                                           *)
LEMMA HasStill ==
  ASSUME NEW q, NEW a, NEW b, Has(q, a), b.had = a.had, b.rows = a.rows, b.found = a.found, b.days = a.days
  PROVE  Has(q, b)
BY DEF Has

(* A query of what is read whole: what there was is read.                  *)
LEMMA ReadWhole ==
  ASSUME Typed, Typed', Course, Grounds, request.rule \in Whole, WholeKept, Read
  PROVE  WholeKept'
<1>0. request \in Requests /\ OnTrack(request, todo) /\ got \in AnswerType /\ stored \in SUBSET Rows
  BY DEF Typed, Fits, DB!TypeOK
<1>1. todo # <<>> /\ WholeSoFar /\ walk = NewWalk
  BY ActionOf DEF WholeKept
<1>2. /\ UNCHANGED <<stored, request, page, cache, answer, walk>>
      /\ got'.had = got.had /\ got'.days = got.days
  BY <1>0, ReadKeeps DEF Goes, dbVars, SameRequest
<1>3. Head(todo) # "answer"
  BY ActionOf
<1>4. /\ Tail(todo) # <<>>
      /\ Head(todo) \in {"all", "earlier", "is_last", "first_block", "last_block", "range", "tokens"}
      /\ Head(todo) = "all" => Head(Tail(todo)) \in {"answer", "is_last", "earlier"}
      /\ Head(todo) = "earlier" => Head(Tail(todo)) = "is_last" /\ request.rule = "detail"
      /\ Head(todo) \in {"is_last", "tokens"} => Head(Tail(todo)) = "answer"
      /\ Head(todo) = "first_block" => Head(Tail(todo)) = "last_block"
      /\ Head(todo) = "last_block" => Head(Tail(todo)) = "range"
      /\ Head(todo) = "range" => Head(Tail(todo)) \in {"answer", "tokens"}
      /\ Head(todo) \in {"first_block", "last_block", "range", "tokens"} => request.rule = "export"
      /\ Head(todo) = "tokens" => todo \in TokensLater
      /\ Tail(todo) \in TokensLater => todo \in TokensLater
  BY <1>0, <1>1, <1>3, WholeSteps
<1>5. /\ <<"answer">> # <<>> /\ Head(<<"answer">>) = "answer" /\ <<"answer">> \notin TokensLater
  <2>1. <<"answer">> # <<>>
    OBVIOUS
  <2>2. Head(<<"answer">>) = "answer"
    OBVIOUS
  <2> QED
    BY <2>1, <2>2, LaterHeads
<1>6. Tail(todo) \in TokensLater => Reads(request, "tokens")
  BY <1>1, <1>4 DEF WholeSoFar
<1>7. /\ got.had \subseteq Matching /\ \A r \in got.had : r \in stored /\ r.kind = request.table /\ Match(request.filter, r)
  BY DEF Course, KeptIn, View, Matching, Asked
<1> DEFINE Still(b) == /\ b.had = got.had /\ b.rows = got.rows /\ b.found = got.found /\ b.days = got.days
<1>8. todo' # <<>> /\ WholeSoFar'
  <2>1. CASE Head(todo) = "all"
    <3>1. ReadAll
      BY <2>1, ActionOf
    <3>2. CASE got' = [got EXCEPT !.found = FALSE] /\ todo' = <<"answer">> /\ Matching = {}
      <4>1. Has(request, got')
        BY <1>0, <1>2, <1>7, <3>2 DEF Has
      <4>2. Head(todo') = "answer"
        BY <1>5, <3>2
      <4> QED
        BY <1>2, <1>5, <3>2, <4>1, <4>2 DEF WholeSoFar
    <3>3. CASE got' = [Shown(Matching) EXCEPT !.total = Cardinality(Matching)] /\ todo' = Tail(todo)
      <4>1. got'.rows = Matching
        BY <1>0, <3>3 DEF Shown, AnswerType
      <4>2. Has(request, got')
        BY <1>2, <1>7, <4>1 DEF Has
      <4>3. Head(todo') \notin {"tokens", "last_block", "range"}
        BY <1>4, <2>1, <3>3
      <4> QED
        BY <1>2, <1>4, <1>6, <3>3, <4>2, <4>3 DEF WholeSoFar
    <3> QED
      BY <3>1, <3>2, <3>3 DEF ReadAll, Goes
  <2>2. CASE Head(todo) = "earlier"
    <3>1. ReadEarlier
      BY <2>2, ActionOf
    <3>2. CASE got' = [got EXCEPT !.found = FALSE, !.rows = {}] /\ todo' = <<"answer">>
               /\ ~BlockIsThere(Earlier(request.filter.value))
      <4>1. got.had = {}
        BY <1>4, <2>2, <3>2, EarlierIsThere
      <4>2. Has(request, got')
        BY <1>2, <4>1 DEF Has
      <4>3. Head(todo') = "answer"
        BY <1>5, <3>2
      <4> QED
        BY <1>2, <1>5, <3>2, <4>2, <4>3 DEF WholeSoFar
    <3>3. CASE got' = got /\ todo' = Tail(todo)
      <4>1. Has(request, got')
        BY <1>1, <2>2, <3>3 DEF WholeSoFar
      <4>2. Head(todo') = "is_last"
        BY <1>4, <2>2, <3>3
      <4> QED
        BY <1>2, <1>4, <1>6, <3>3, <4>1, <4>2 DEF WholeSoFar
    <3> QED
      BY <3>1, <3>2, <3>3 DEF ReadEarlier, Goes
  <2>3. CASE Head(todo) = "is_last"
    <3>1. ReadIsLast
      BY <2>3, ActionOf
    <3>2. todo' = Tail(todo) /\ Still(got')
      BY <1>0, <3>1 DEF ReadIsLast, Goes, Counted, AnswerType
    <3>3. Has(request, got')
      BY <1>1, <2>3, <3>2, HasStill DEF WholeSoFar
    <3>4. Head(todo') = "answer"
      BY <1>4, <2>3, <3>2
    <3> QED
      BY <1>2, <1>4, <1>6, <3>2, <3>3, <3>4 DEF WholeSoFar
  <2>4. CASE Head(todo) = "first_block"
    <3> DEFINE B == {b \in StoredBlocks : DayOf[b] >= request.filter.value[2]}
    <3>1. ReadFirstBlock
      BY <2>4, ActionOf
    <3>2. got' = [got EXCEPT !.since = Smallest(B)] /\ todo' = Tail(todo)
      BY <3>1 DEF ReadFirstBlock, Goes
    <3>3. got'.since = Smallest(B)
      BY <1>0, <3>2 DEF AnswerType
    <3>4. B \in SUBSET Nat
      BY FiniteNumbers DEF Typed
    <3>5. ASSUME NEW r \in got.had PROVE Smallest(B) <= r.block
      <4>1. r \in stored /\ r.kind = request.table /\ Match(request.filter, r) /\ request.rule = "export"
        BY <1>4, <1>7, <2>4
      <4>2. r.block \in StoredBlocks /\ DayOf[r.block] = request.filter.value[2] /\ request.filter.value[2] \in Nat
        BY <1>0, <4>1, ExportRows, Shapes DEF Shape
      <4>3. r.block \in B
        BY <4>2
      <4> HIDE DEF B
      <4> QED
        BY <3>4, <4>3, SmallestFacts
    <3>6. Head(todo') = "last_block"
      BY <1>4, <2>4, <3>2
    <3> HIDE DEF B
    <3> QED
      BY <1>2, <1>4, <1>6, <3>2, <3>3, <3>5, <3>6 DEF WholeSoFar
  <2>5. CASE Head(todo) = "last_block"
    <3> DEFINE B == {b \in StoredBlocks : DayOf[b] <= request.filter.value[2]}
    <3>1. ReadLastBlock
      BY <2>5, ActionOf
    <3>2. got' = Counted(Newest(B)) /\ todo' = Tail(todo)
      BY <3>1 DEF ReadLastBlock, Goes
    <3>3. got'.total = Newest(B) /\ got'.since = got.since
      BY <1>0, <3>2 DEF AnswerType, Counted
    <3>4. B \in SUBSET Nat /\ IsFiniteSet(B)
      BY FiniteNumbers, FS_Subset DEF Typed
    <3>5. ASSUME NEW r \in got.had PROVE r.block <= Newest(B)
      <4>1. r \in stored /\ r.kind = request.table /\ Match(request.filter, r) /\ request.rule = "export"
        BY <1>4, <1>7, <2>5
      <4>2. r.block \in StoredBlocks /\ DayOf[r.block] = request.filter.value[2] /\ request.filter.value[2] \in Nat
        BY <1>0, <4>1, ExportRows, Shapes DEF Shape
      <4>3. r.block \in B
        BY <4>2
      <4> HIDE DEF B
      <4> QED
        BY <3>4, <4>3, NewestFacts
    <3>6. Head(todo') = "range"
      BY <1>4, <2>5, <3>2
    <3>7. \A r \in got.had : got.since <= r.block
      BY <1>1, <2>5 DEF WholeSoFar
    <3> HIDE DEF B
    <3> QED
      BY <1>2, <1>4, <1>6, <3>2, <3>3, <3>5, <3>6, <3>7 DEF WholeSoFar
  <2>6. CASE Head(todo) = "range"
    <3> DEFINE R == {r \in stored : /\ r.kind = request.table /\ request.filter.value[1] \in r.names
                                    /\ got.since <= r.block /\ r.block <= got.total
                                    /\ Joined(r)}
    <3>1. ReadRange
      BY <2>6, ActionOf
    <3>2. got' = Shown(R) /\ todo' = Tail(todo)
      BY <3>1 DEF ReadRange, Goes
    <3>3. got'.rows = R
      BY <1>0, <3>2 DEF AnswerType, Shown
    <3>4. ASSUME NEW r \in got.had PROVE r \in R
      <4>1. r \in stored /\ r.kind = request.table /\ Match(request.filter, r) /\ request.rule = "export"
        BY <1>4, <1>7, <2>6
      <4>2. request.filter.value[1] \in r.names
        BY <4>1, ExportRows
      <4>3. got.since <= r.block /\ r.block <= got.total
        BY <1>1, <2>6 DEF WholeSoFar
      <4>4. Joined(r)
        BY <1>7 DEF Matching
      <4> QED
        BY <4>1, <4>2, <4>3, <4>4
    <3>5. \A r \in R : r.kind = request.table
      OBVIOUS
    <3> HIDE DEF R
    <3>6. Has(request, got')
      BY <1>2, <3>3, <3>4 DEF Has
    <3>7. Head(todo') \in {"answer", "tokens"}
      BY <1>4, <2>6, <3>2
    <3> QED
      BY <1>2, <1>4, <1>6, <3>2, <3>3, <3>5, <3>6, <3>7 DEF WholeSoFar
  <2>7. CASE Head(todo) = "tokens"
    <3>0. request.rule = "export" /\ Reads(request, "tokens") /\ Has(request, got) /\ \A r \in got.rows : r.kind = request.table
      BY <1>1, <1>4, <2>7 DEF WholeSoFar
    <3>1. ReadTokens
      BY <2>7, ActionOf
    <3>2. CASE got' = got /\ todo' = Tail(todo)
      <4>1. Head(todo') = "answer"
        BY <1>4, <2>7, <3>2
      <4> QED
        BY <1>2, <1>4, <1>6, <3>0, <3>2, <4>1 DEF WholeSoFar
    <3>3. CASE /\ got' = [got EXCEPT !.found = FALSE, !.rows = {}] /\ todo' = <<"answer">>
               /\ ~(\A r \in got.rows : HasToken(r))
      <4>1. ~(request.filter.value[2] <= got.days)
        BY <3>0, <3>3, TokenIsThere
      <4>2. request.filter.value[2] \in Nat /\ got.days \in Nat
        BY <1>0, <3>0, Shapes DEF Shape, AnswerType
      <4>3. got.days < request.filter.value[2]
        BY <4>1, <4>2
      <4>4. ~got'.found
        BY <1>0, <3>3 DEF AnswerType
      <4>5. Has(request, got')
        BY <1>2, <3>0, <4>3, <4>4 DEF Has
      <4>6. Head(todo') = "answer"
        BY <1>5, <3>3
      <4> QED
        BY <1>2, <1>5, <3>3, <4>5, <4>6 DEF WholeSoFar
    <3> QED
      BY <3>1, <3>2, <3>3 DEF ReadTokens, Goes
  <2> QED
    BY <1>4, <2>1, <2>2, <2>3, <2>4, <2>5, <2>6, <2>7
<1>9. Has(request, answer)' /\ (\A p \in Pages : Has(request, cache[p]))'
  BY <1>2 DEF WholeKept, Has
<1>10. page' <= 1 /\ walk' = NewWalk
  BY <1>1, <1>2 DEF WholeKept
<1> QED
  BY <1>8, <1>9, <1>10 DEF WholeKept

(* An answer with what is read whole.                                      *)
LEMMA AnswerWhole ==
  ASSUME Typed, Typed', request.rule \in Whole, WholeKept, Answer \/ AnswerFromCache
  PROVE  WholeKept'
<1>0. /\ got \in AnswerType /\ page \in Pages \cup {0} /\ (page = 0 => todo = <<>>) /\ DOMAIN cache = Pages
  BY DEF Typed, Fits
<1>1. /\ request' = request /\ todo' = <<>> /\ page' = 1
      /\ Has(request, answer') /\ walk'.from = answer'.had /\ walk'.seen = answer'.rows
      /\ \A p \in Pages : Has(request, cache'[p])
  <2>1. CASE Answer
    <3>1. /\ UNCHANGED <<request, page>> /\ todo' = <<>> /\ answer' = [got EXCEPT !.since = 0]
          /\ cache' = cache \/ cache' = [cache EXCEPT ![page] = answer']
          /\ walk' = Onwards(walk, page, got) /\ todo # <<>> /\ Head(todo) = "answer"
      BY <2>1 DEF Answer, Query
    <3>2. page = 1
      BY <1>0, <3>1 DEF WholeKept, Pages
    <3>3. walk = NewWalk /\ Has(request, got)
      BY <3>1 DEF WholeKept, WholeSoFar
    <3>4. /\ answer'.had = got.had /\ answer'.rows = got.rows /\ answer'.found = got.found
          /\ answer'.days = got.days
      BY <1>0, <3>1 DEF AnswerType
    <3>5. Has(request, answer')
      BY <3>3, <3>4, HasStill
    <3>6. walk'.from = got.had /\ walk'.seen = got.rows
      BY <3>1, <3>2, <3>3 DEF Onwards, NewWalk
    <3>7. \A p \in Pages : Has(request, cache'[p])
      BY <1>0, <3>1, <3>5 DEF WholeKept
    <3> QED
      BY <3>1, <3>2, <3>4, <3>5, <3>6, <3>7
  <2>2. CASE AnswerFromCache
    <3>1. /\ UNCHANGED <<request, todo, cache>> /\ Turn /\ answer' = cache[page']
          /\ walk' = Onwards(SoFar, page', answer')
      BY <2>2 DEF AnswerFromCache
    <3>2. page' = 1 /\ SoFar = NewWalk /\ todo = <<>> /\ page' \in Pages
      BY <3>1, OneWhole, TurnTyped
    <3>3. Has(request, answer')
      BY <3>1, <3>2 DEF WholeKept
    <3>4. walk'.from = answer'.had /\ walk'.seen = answer'.rows
      BY <3>1, <3>2 DEF Onwards, NewWalk
    <3> QED
      BY <3>1, <3>2, <3>3, <3>4 DEF WholeKept
  <2> QED
    BY <2>1, <2>2
<1> QED
  BY <1>1 DEF WholeKept, Has

(* Every step keeps it.                                                    *)
LEMMA StepWhole == Typed /\ Typed' /\ Course /\ Grounds /\ WholeKept /\ [Next]_vars => WholeKept'
<1> SUFFICES ASSUME Typed, Typed', Course, Grounds, WholeKept, [Next]_vars, request'.rule \in Whole PROVE WholeKept'
  BY DEF WholeKept
<1>1. request' = request /\ request.rule \in Whole
  BY StepsAre
<1>2. CASE Ask
  BY <1>1, <1>2, AskWhole
<1>3. CASE Read
  BY <1>1, <1>3, ReadWhole
<1>4. CASE Answer \/ AnswerFromCache
  BY <1>1, <1>4, AnswerWhole
<1>5. CASE UNCHANGED <<page, todo, got, cache, answer, walk>>
  <2>1. (todo # <<>> => walk = NewWalk /\ WholeSoFar)'
    <3>1. todo # <<>> => walk = NewWalk /\ WholeSoFar
      BY <1>1 DEF WholeKept
    <3> QED
      BY <1>1, <1>5, <3>1 DEF WholeSoFar, Has
  <2> QED
    BY <1>1, <1>5, <2>1 DEF WholeKept, Has
<1> QED
  BY <1>2, <1>3, <1>4, <1>5, StepsAre

(***************************************************************************)
(* Walks of lists.                                                         *)
(***************************************************************************)
(* The rows come after the queries before them; nothing is answered yet.   *)
LEMMA NotYetThen ==
  ASSUME NEW t \in NotYet
  PROVE  t # <<>> /\ Head(t) # "answer" /\ (Head(t) # "rows" => Tail(t) \in NotYet)
<1>1. CASE t = <<"rows", "answer">>
  <2>1. t # <<>> /\ Head(t) = "rows"
    BY <1>1
  <2> QED
    BY <2>1
<1>2. CASE t = <<"block", "rows", "answer">>
  <2>1. t # <<>> /\ Head(t) = "block"
    BY <1>2
  <2>2. Tail(t) = <<"rows", "answer">>
    BY <1>2
  <2>3. Tail(t) \in NotYet
    BY <2>2 DEF NotYet
  <2> QED
    BY <2>1, <2>3
<1>3. CASE t = <<"estimate", "rows", "answer">>
  <2>1. t # <<>> /\ Head(t) = "estimate"
    BY <1>3
  <2>2. Tail(t) = <<"rows", "answer">>
    BY <1>3
  <2>3. Tail(t) \in NotYet
    BY <2>2 DEF NotYet
  <2> QED
    BY <2>1, <2>3
<1>4. CASE t = <<"metadata", "recent", "statistics", "rows", "answer">>
  <2>1. t # <<>> /\ Head(t) = "metadata"
    BY <1>4
  <2>2. Tail(t) = <<"recent", "statistics", "rows", "answer">>
    BY <1>4
  <2>3. Tail(t) \in NotYet
    BY <2>2 DEF NotYet
  <2> QED
    BY <2>1, <2>3
<1>5. CASE t = <<"recent", "statistics", "rows", "answer">>
  <2>1. t # <<>> /\ Head(t) = "recent"
    BY <1>5
  <2>2. Tail(t) = <<"statistics", "rows", "answer">>
    BY <1>5
  <2>3. Tail(t) \in NotYet
    BY <2>2 DEF NotYet
  <2> QED
    BY <2>1, <2>3
<1>6. CASE t = <<"statistics", "rows", "answer">>
  <2>1. t # <<>> /\ Head(t) = "statistics"
    BY <1>6
  <2>2. Tail(t) = <<"rows", "answer">>
    BY <1>6
  <2>3. Tail(t) \in NotYet
    BY <2>2 DEF NotYet
  <2> QED
    BY <2>1, <2>3
<1>7. CASE t = <<"metadata", "statistics", "recent", "rows", "answer">>
  <2>1. t # <<>> /\ Head(t) = "metadata"
    BY <1>7
  <2>2. Tail(t) = <<"statistics", "recent", "rows", "answer">>
    BY <1>7
  <2>3. Tail(t) \in NotYet
    BY <2>2 DEF NotYet
  <2> QED
    BY <2>1, <2>3
<1>8. CASE t = <<"statistics", "recent", "rows", "answer">>
  <2>1. t # <<>> /\ Head(t) = "statistics"
    BY <1>8
  <2>2. Tail(t) = <<"recent", "rows", "answer">>
    BY <1>8
  <2>3. Tail(t) \in NotYet
    BY <2>2 DEF NotYet
  <2> QED
    BY <2>1, <2>3
<1>9. CASE t = <<"recent", "rows", "answer">>
  <2>1. t # <<>> /\ Head(t) = "recent"
    BY <1>9
  <2>2. Tail(t) = <<"rows", "answer">>
    BY <1>9
  <2>3. Tail(t) \in NotYet
    BY <2>2 DEF NotYet
  <2> QED
    BY <2>1, <2>3
<1>10. CASE t = <<"rows", "count", "answer">>
  <2>1. t # <<>> /\ Head(t) = "rows"
    BY <1>10
  <2> QED
    BY <2>1
<1>11. CASE t = <<"rows", "index", "answer">>
  <2>1. t # <<>> /\ Head(t) = "rows"
    BY <1>11
  <2> QED
    BY <2>1
<1>12. CASE t = <<"rows", "metadata", "statistics", "recent", "answer">>
  <2>1. t # <<>> /\ Head(t) = "rows"
    BY <1>12
  <2> QED
    BY <2>1
<1>13. CASE t = <<"token", "rows", "metadata", "statistics", "recent", "answer">>
  <2>1. t # <<>> /\ Head(t) = "token"
    BY <1>13
  <2>2. Tail(t) = <<"rows", "metadata", "statistics", "recent", "answer">>
    BY <1>13
  <2>3. Tail(t) \in NotYet
    BY <2>2 DEF NotYet
  <2> QED
    BY <2>1, <2>3
<1> QED
  BY <1>1, <1>2, <1>3, <1>4, <1>5, <1>6, <1>7, <1>8, <1>9, <1>10, <1>11, <1>12, <1>13 DEF NotYet

(* How a list begins.                                                      *)
LEMMA ListStarts ==
  ASSUME NEW q \in Requests, Listed(q), NEW t, t = q.queries \o <<"answer">>
  PROVE  t \in NotYet /\ (Head(t) = "token" => Head(q.queries) = "token")
<1>0. Shape(q)
  BY Shapes
<1>1. CASE q.queries = <<"rows">>
  <2>1. t = <<"rows", "answer">>
    BY <1>1, Written
  <2>2. t \in NotYet
    BY <2>1 DEF NotYet
  <2>3. Head(t) = "rows"
    <3>1. Head(<<"rows", "answer">>) = "rows"
      OBVIOUS
    <3> QED
      BY <2>1, <3>1
  <2> QED
    BY <2>2, <2>3
<1>2. CASE q.queries = <<"block", "rows">>
  <2>1. t = <<"block", "rows", "answer">>
    BY <1>2, Written
  <2>2. t \in NotYet
    BY <2>1 DEF NotYet
  <2>3. Head(t) = "block"
    <3>1. Head(<<"block", "rows", "answer">>) = "block"
      OBVIOUS
    <3> QED
      BY <2>1, <3>1
  <2> QED
    BY <2>2, <2>3
<1>3. CASE q.queries = <<"metadata", "recent", "statistics", "rows">>
  <2>1. t = <<"metadata", "recent", "statistics", "rows", "answer">>
    BY <1>3, Written
  <2>2. t \in NotYet
    BY <2>1 DEF NotYet
  <2>3. Head(t) = "metadata"
    <3>1. Head(<<"metadata", "recent", "statistics", "rows", "answer">>) = "metadata"
      OBVIOUS
    <3> QED
      BY <2>1, <3>1
  <2> QED
    BY <2>2, <2>3
<1>4. CASE q.queries = <<"estimate", "rows">>
  <2>1. t = <<"estimate", "rows", "answer">>
    BY <1>4, Written
  <2>2. t \in NotYet
    BY <2>1 DEF NotYet
  <2>3. Head(t) = "estimate"
    <3>1. Head(<<"estimate", "rows", "answer">>) = "estimate"
      OBVIOUS
    <3> QED
      BY <2>1, <3>1
  <2> QED
    BY <2>2, <2>3
<1>5. CASE q.queries = <<"metadata", "statistics", "recent", "rows">>
  <2>1. t = <<"metadata", "statistics", "recent", "rows", "answer">>
    BY <1>5, Written
  <2>2. t \in NotYet
    BY <2>1 DEF NotYet
  <2>3. Head(t) = "metadata"
    <3>1. Head(<<"metadata", "statistics", "recent", "rows", "answer">>) = "metadata"
      OBVIOUS
    <3> QED
      BY <2>1, <3>1
  <2> QED
    BY <2>2, <2>3
<1>6. CASE q.queries = <<"rows", "count">>
  <2>1. t = <<"rows", "count", "answer">>
    BY <1>6, Written
  <2>2. t \in NotYet
    BY <2>1 DEF NotYet
  <2>3. Head(t) = "rows"
    <3>1. Head(<<"rows", "count", "answer">>) = "rows"
      OBVIOUS
    <3> QED
      BY <2>1, <3>1
  <2> QED
    BY <2>2, <2>3
<1>7. CASE q.queries = <<"rows", "index">>
  <2>1. t = <<"rows", "index", "answer">>
    BY <1>7, Written
  <2>2. t \in NotYet
    BY <2>1 DEF NotYet
  <2>3. Head(t) = "rows"
    <3>1. Head(<<"rows", "index", "answer">>) = "rows"
      OBVIOUS
    <3> QED
      BY <2>1, <3>1
  <2> QED
    BY <2>2, <2>3
<1>8. CASE q.queries = <<"rows", "metadata", "statistics", "recent">>
  <2>1. t = <<"rows", "metadata", "statistics", "recent", "answer">>
    BY <1>8, Written
  <2>2. t \in NotYet
    BY <2>1 DEF NotYet
  <2>3. Head(t) = "rows"
    <3>1. Head(<<"rows", "metadata", "statistics", "recent", "answer">>) = "rows"
      OBVIOUS
    <3> QED
      BY <2>1, <3>1
  <2> QED
    BY <2>2, <2>3
<1>9. CASE q.queries = <<"token", "rows", "metadata", "statistics", "recent">>
  <2>1. t = <<"token", "rows", "metadata", "statistics", "recent", "answer">>
    BY <1>9, Written
  <2>2. t \in NotYet
    BY <2>1 DEF NotYet
  <2>3. Head(t) = "token"
    <3>1. Head(<<"token", "rows", "metadata", "statistics", "recent", "answer">>) = "token"
      OBVIOUS
    <3> QED
      BY <2>1, <3>1
  <2>4. Head(q.queries) = "token"
    BY <1>9
  <2> QED
    BY <2>2, <2>4
<1>10. /\ q = BlockList => q.table = "Block"
       /\ q = MainStats => q.table = "Transaction"
  BY DEF BlockList, MainStats, List, JoinedList
<1>11. q.queries \in {<<"rows">>,
                      <<"block", "rows">>,
                      <<"metadata", "recent", "statistics", "rows">>,
                      <<"estimate", "rows">>,
                      <<"metadata", "statistics", "recent", "rows">>,
                      <<"rows", "count">>,
                      <<"rows", "index">>,
                      <<"rows", "metadata", "statistics", "recent">>,
                      <<"token", "rows", "metadata", "statistics", "recent">>}
  <2>1. q.rule \in {"transactions", "internal", "before", "after", "uncached", "address", "count", "shown", "once"}
    BY <1>0 DEF Shape, Listed, Whole
  <2>2. CASE q.rule = "transactions"
    BY <1>0, <2>2 DEF Shape
  <2>3. CASE q.rule \in {"internal", "address", "count", "shown"}
    BY <1>0, <2>3 DEF Shape
  <2>4. CASE q.rule = "before"
    BY <1>0, <1>10, <2>4 DEF Shape, Listed, OfBlocks, OfStats
  <2>5. CASE q.rule \in {"after", "uncached"}
    BY <1>0, <2>5 DEF Shape
  <2>6. CASE q.rule = "once"
    BY <1>0, <2>6 DEF Shape
  <2> QED
    BY <2>1, <2>2, <2>3, <2>4, <2>5, <2>6
<1> QED
  BY <1>11, <1>1, <1>2, <1>3, <1>4, <1>5, <1>6, <1>7, <1>8, <1>9

(* The queries of a list.                                                  *)
LEMMA ListHeads ==
  ASSUME OnTrack(request, todo), Listed(request), todo # <<>>, request \in Requests
  PROVE  Head(todo) \in {"answer", "rows", "shown", "count", "block", "daily", "later", "metadata", "recent",
                         "statistics", "estimate", "index", "token"}
<1>1. CASE todo = <<"answer">>
  BY <1>1
<1>2. CASE todo # <<"answer">>
  <2>1. \/ TransactionsLeft(request, todo) \/ InternalLeft(todo) \/ TransfersLeft(request, todo)
        \/ AfterLeft(request, todo) \/ AddressLeft(todo) \/ CountLeft(todo) \/ ShownLeft(todo)
        \/ OnceLeft(todo)
    BY <1>2 DEF OnTrack, Listed, Whole, OfBlocks, OfStats
  <2> QED
    BY <2>1, Heads
<1> QED
  BY <1>1, <1>2

(* Nothing is there at first, and there never was.                         *)
LEMMA InitLists == Init => ListsKept
<1> SUFFICES ASSUME Init PROVE ListsKept
  OBVIOUS
<1> DEFINE H == [n \in Nat |-> {}]
<1>1. /\ stored = {} /\ todo = <<>> /\ page = 0 /\ walk = NewWalk /\ answer = NoAnswer
      /\ \A p \in Pages : cache[p] = NoAnswer
  BY DEF Init, DB!Init
<1>2. H \in [Nat -> SUBSET Rows] /\ \A n \in Nat : H[n] = {}
  OBVIOUS
<1> HIDE DEF H
<1>3. Chain(H, stored)
  BY <1>1, <1>2 DEF Chain
<1>4. Cardinality(stored) = 0
  BY <1>1, FS_EmptySet
<1>5. ASSUME NEW p \in Nat \ {0}
      PROVE  Told(request, H, stored, NoAnswer, p) /\ HadBy(request, H, NoAnswer)
  <2>1. NoAnswer.rows = {} /\ NoAnswer.version = 0 /\ NoAnswer.had = {}
    BY DEF NoAnswer
  <2>2. Finds(request, H[0]) = {} /\ PageOf(request, {}, {}, p)
    BY <1>2, NoPage
  <2> QED
    BY <1>4, <2>1, <2>2 DEF Told, HadBy
<1>6. \A p \in Pages : p \in Nat \ {0}
  BY DEF Pages
<1>7. Walked(request, H, stored, walk, Turned)
  <2>1. walk.from = {} /\ walk.version = 0
    BY <1>1 DEF NewWalk
  <2> QED
    BY <1>4, <2>1 DEF Walked
<1>8. ListBy(H)
  BY <1>1, <1>3, <1>5, <1>6, <1>7 DEF ListBy
<1>9. TokenFirst
  <2>1. <<"token", "rows", "metadata", "statistics", "recent", "answer">> # <<>>
    OBVIOUS
  <2> QED
    BY <1>1, <2>1 DEF TokenFirst
<1> QED
  BY <1>8, <1>9 DEF ListsKept

(* An answer with the same rows of the same tables is as true.             *)
LEMMA ToldAlike ==
  ASSUME NEW q, NEW H, NEW S, NEW a, NEW b, NEW p, b.version = a.version
  PROVE  /\ (b.rows = a.rows /\ Told(q, H, S, a, p)) => Told(q, H, S, b, p)
         /\ (b.had = a.had /\ HadBy(q, H, a)) => HadBy(q, H, b)
BY DEF Told, HadBy

(* One more row in the tables changes nothing of what was told before.     *)
LEMMA ToldStill ==
  ASSUME NEW q, NEW S \in SUBSET Rows, NEW x \in Rows, x \notin S, NEW H, Chain(H, S), NEW G,
         \A n \in 0..Cardinality(S) : G[n] = H[n], NEW p, NEW a \in AnswerType, Told(q, H, S, a, p)
  PROVE  Told(q, G, S \cup {x}, a, p) /\ (HadBy(q, H, a) => HadBy(q, G, a))
<1>1. Cardinality(S) \in Nat /\ Cardinality(S \cup {x}) = Cardinality(S) + 1 /\ a.version \in Nat
  BY Sizes, ChainGrows DEF AnswerType
<1>2. a.version <= Cardinality(S)
  BY DEF Told
<1>3. G[a.version] = H[a.version] /\ a.version <= Cardinality(S \cup {x})
  BY <1>1, <1>2
<1> QED
  BY <1>3 DEF Told, HadBy

(* Nor of the walk: rows that come are ahead of those of the first page.   *)
LEMMA WalkedStill ==
  ASSUME NEW q, NEW S \in SUBSET Rows, NEW x \in Rows, x \notin S, NEW H, Chain(H, S), NEW G,
         \A n \in 0..Cardinality(S) : G[n] = H[n], NEW n,
         NEW w \in [seen : SUBSET Rows, from : SUBSET Rows, version : Nat, ordered : BOOLEAN],
         Walked(q, H, S, w, n)
  PROVE  Walked(q, G, S \cup {x}, w, n)
<1> SUFFICES ASSUME w.ordered
             PROVE  /\ w.version <= Cardinality(S \cup {x})
                    /\ \A r \in w.from :
                         /\ r \in Finds(q, G[w.version])
                         /\ Alone(q, Finds(q, S \cup {x}), r) =>
                              \/ r \in w.seen
                              \/ n * PageSize <= Cardinality(Ahead(q, Finds(q, G[w.version]), r))
  BY DEF Walked
<1>1. Cardinality(S) \in Nat /\ Cardinality(S \cup {x}) = Cardinality(S) + 1 /\ w.version \in Nat
  BY Sizes, ChainGrows
<1>2. w.version <= Cardinality(S)
  BY DEF Walked
<1>3. G[w.version] = H[w.version] /\ w.version <= Cardinality(S \cup {x})
  BY <1>1, <1>2
<1>4. \A r : Alone(q, Finds(q, S \cup {x}), r) => Alone(q, Finds(q, S), r)
  BY FindsMore
<1> QED
  BY <1>3, <1>4 DEF Walked

(* A row that is written.                                                  *)
LEMMA WriteLists ==
  ASSUME Typed, Grounds, Listed(request), ListsKept, request' = request, Write,
         UNCHANGED <<page, todo, got, cache, answer, walk>>
  PROVE  ListsKept'
<1>0. /\ stored \in SUBSET Rows /\ got \in AnswerType /\ answer \in AnswerType
      /\ \A p \in Pages : cache[p] \in AnswerType
  BY DEF Typed, DB!TypeOK, Fits
<1>1. PICK x \in Rows \ stored : stored' = stored \cup {x}
  <2>1. Relevant \subseteq Rows
    BY DEF Typed, Relevant, RelevantTo, OfTable
  <2> QED
    BY <2>1 DEF Write
<1>2. PICK H : ListBy(H)
  BY DEF ListsKept
<1>3. Chain(H, stored)
  BY <1>2 DEF ListBy
<1>4. PICK G : Chain(G, stored \cup {x}) /\ \A n \in 0..Cardinality(stored) : G[n] = H[n]
  <2>1. x \in Rows /\ x \notin stored
    BY <1>1
  <2>2. Grown(H, stored, stored \cup {x})
    BY <1>0, <1>3, <2>1, ChainGrows
  <2> QED
    BY <2>2 DEF Grown
<1>5. \A a \in AnswerType : \A p : Told(request, H, stored, a, p) =>
        Told(request, G, stored', a, p) /\ (HadBy(request, H, a) => HadBy(request, G, a))
  BY <1>0, <1>1, <1>3, <1>4, ToldStill
<1>6. Walked(request, G, stored', walk, Turned)
  BY <1>0, <1>1, <1>2, <1>3, <1>4, WalkedStill DEF ListBy, Grounds
<1>7. Turned' = Turned
  BY DEF Turned
<1>8. ListBy(G)'
  <2>1. Chain(G, stored')
    BY <1>1, <1>4
  <2>2. (todo # <<>> => /\ Told(request, G, stored, got, page)
                        /\ todo \in NotYet \/ HadBy(request, G, got))'
    BY <1>0, <1>2, <1>5 DEF ListBy
  <2>3. (page > 0 => Told(request, G, stored, answer, page) /\ HadBy(request, G, answer))'
    BY <1>0, <1>2, <1>5 DEF ListBy
  <2>4. (\A p \in Pages : Told(request, G, stored, cache[p], p) /\ HadBy(request, G, cache[p]))'
    BY <1>0, <1>2, <1>5 DEF ListBy
  <2>5. ((todo = <<>> /\ page > 0) => walk.version = answer.version)'
    BY <1>2 DEF ListBy
  <2>6. Walked(request, G, stored, walk, Turned)'
    BY <1>6, <1>7
  <2> QED
    BY <2>1, <2>2, <2>3, <2>4, <2>5, <2>6 DEF ListBy
<1>9. TokenFirst'
  BY DEF ListsKept, TokenFirst
<1> QED
  BY <1>8, <1>9 DEF ListsKept

(* A new request for a page of a list.                                     *)
LEMMA AskLists ==
  ASSUME Typed, Listed(request), ListsKept, Ask
  PROVE  ListsKept'
<1>0. request \in Requests /\ page \in Nat /\ stored \in SUBSET Rows
  BY DEF Typed, Pages, DB!TypeOK
<1>1. /\ UNCHANGED <<stored, request, cache>>
      /\ got' = Blank /\ todo' = request.queries \o <<"answer">> /\ answer' = NoAnswer
      /\ walk' = SoFar /\ Turn
  BY DEF Ask, dbVars
<1>2. /\ page' \in Pages /\ page' \in Nat \ {0} /\ todo = <<>>
      /\ \/ page' = 1 /\ SoFar = NewWalk
         \/ page' = page + 1 /\ page' # 1 /\ SoFar = walk
  BY <1>1, Turning
<1>3. todo' \in NotYet /\ todo' # <<>> /\ (Head(todo') = "token" => Head(request.queries) = "token")
  BY <1>0, <1>1, ListStarts, NotYetThen
<1>4. PICK H : ListBy(H)
  BY DEF ListsKept
<1>5. Chain(H, stored) /\ H[0] = {} /\ Cardinality(stored) \in Nat
  BY <1>0, <1>4, Sizes DEF ListBy, Chain
<1>6. Finds(request, H[0]) = {} /\ PageOf(request, {}, {}, page')
  BY <1>2, <1>5, NoPage
<1>7. Told(request, H, stored, Blank, page')
  <2>1. Blank.rows = {} /\ Blank.version = 0
    BY DEF Blank
  <2> QED
    BY <1>5, <1>6, <2>1 DEF Told
<1>8. Told(request, H, stored, NoAnswer, page') /\ HadBy(request, H, NoAnswer)
  <2>1. NoAnswer.rows = {} /\ NoAnswer.version = 0 /\ NoAnswer.had = {}
    BY DEF NoAnswer
  <2> QED
    BY <1>5, <1>6, <2>1 DEF Told, HadBy
<1>9. Walked(request, H, stored, SoFar, page' - 1)
  <2>1. CASE page' = 1 /\ SoFar = NewWalk
    <3>1. NewWalk.from = {} /\ NewWalk.version = 0
      BY DEF NewWalk
    <3> QED
      BY <1>5, <2>1, <3>1 DEF Walked
  <2>2. CASE page' = page + 1 /\ SoFar = walk
    <3>1. Turned = page' - 1
      BY <1>0, <1>2, <2>2 DEF Turned
    <3> QED
      BY <1>4, <2>2, <3>1 DEF ListBy
  <2> QED
    BY <1>2, <2>1, <2>2
<1>10. Turned' = page' - 1
  BY <1>3 DEF Turned
<1>11. ListBy(H)'
  <2>1. Chain(H, stored')
    BY <1>1, <1>5
  <2>2. (todo # <<>> => /\ Told(request, H, stored, got, page)
                        /\ todo \in NotYet \/ HadBy(request, H, got))'
    BY <1>1, <1>3, <1>7
  <2>3. (page > 0 => Told(request, H, stored, answer, page) /\ HadBy(request, H, answer))'
    BY <1>1, <1>8
  <2>4. (\A p \in Pages : Told(request, H, stored, cache[p], p) /\ HadBy(request, H, cache[p]))'
    BY <1>1, <1>4 DEF ListBy
  <2>5. ((todo = <<>> /\ page > 0) => walk.version = answer.version)'
    BY <1>3
  <2>6. Walked(request, H, stored, walk, Turned)'
    BY <1>1, <1>9, <1>10
  <2> QED
    BY <2>1, <2>2, <2>3, <2>4, <2>5, <2>6 DEF ListBy
<1>12. TokenFirst'
  <2>1. Head(<<"token", "rows", "metadata", "statistics", "recent", "answer">>) = "token"
    OBVIOUS
  <2> QED
    BY <1>1, <1>3, <2>1 DEF TokenFirst
<1> QED
  BY <1>11, <1>12 DEF ListsKept

(* An answer with a page of a list, kept or not.                           *)
LEMMA AnswerLists ==
  ASSUME Typed, Grounds, Listed(request), ListsKept, Answer \/ AnswerFromCache
  PROVE  ListsKept'
<1>0. /\ got \in AnswerType /\ \A p \in Pages : cache[p] \in AnswerType
      /\ page \in Pages \cup {0} /\ (page = 0 => todo = <<>>) /\ stored \in SUBSET Rows
      /\ Cardinality(stored) \in Nat /\ DOMAIN cache = Pages
  BY Sizes DEF Typed, Fits, DB!TypeOK
<1> DEFINE W == [seen : SUBSET Rows, from : SUBSET Rows, version : Nat, ordered : BOOLEAN]
<1>1. PICK H : ListBy(H)
  BY DEF ListsKept
<1>2. Chain(H, stored)
  BY <1>1 DEF ListBy
<1>3. \E a \in AnswerType, w \in W :
        /\ Told(request, H, stored, a, page') /\ HadBy(request, H, a)
        /\ Walked(request, H, stored, w, page' - 1)
        /\ walk' = Onwards(w, page', a) /\ page' \in Nat \ {0}
        /\ answer'.rows = a.rows /\ answer'.had = a.had /\ answer'.version = a.version
  <2>1. CASE Answer
    <3>1. /\ page' = page /\ walk' = Onwards(walk, page, got) /\ todo # <<>> /\ Head(todo) = "answer"
          /\ answer' = [got EXCEPT !.since = 0]
      BY <2>1 DEF Answer, Query
    <3>2. todo \notin NotYet
      BY <3>1, NotYetThen
    <3>3. Told(request, H, stored, got, page) /\ HadBy(request, H, got)
      BY <1>1, <3>1, <3>2 DEF ListBy
    <3>4. Walked(request, H, stored, walk, page - 1)
      BY <1>1, <3>1 DEF ListBy, Turned
    <3>5. walk \in W
      BY DEF Grounds
    <3>6. /\ answer'.rows = got.rows /\ answer'.had = got.had /\ answer'.version = got.version
      BY <1>0, <3>1 DEF AnswerType
    <3>7. page \in Nat \ {0}
      BY <1>0, <3>1 DEF Pages
    <3> QED
      BY <1>0, <3>1, <3>3, <3>4, <3>5, <3>6, <3>7
  <2>2. CASE AnswerFromCache
    <3>1. Turn /\ answer' = cache[page'] /\ walk' = Onwards(SoFar, page', answer')
      BY <2>2 DEF AnswerFromCache
    <3>2. /\ page' \in Pages /\ page' \in Nat \ {0} /\ todo = <<>>
          /\ \/ page' = 1 /\ SoFar = NewWalk
             \/ page' = page + 1 /\ page' # 1 /\ SoFar = walk
      BY <3>1, Turning
    <3>3. /\ Told(request, H, stored, answer', page') /\ HadBy(request, H, answer')
          /\ answer' \in AnswerType
      BY <1>0, <1>1, <3>1, <3>2 DEF ListBy
    <3>4. SoFar \in W
      <4>1. walk \in W
        BY DEF Grounds
      <4>2. NewWalk \in W
        BY DEF NewWalk
      <4> QED
        BY <3>2, <4>1, <4>2
    <3>5. Walked(request, H, stored, SoFar, page' - 1)
      <4>1. CASE page' = 1 /\ SoFar = NewWalk
        <5>1. NewWalk.from = {} /\ NewWalk.version = 0
          BY DEF NewWalk
        <5> QED
          BY <1>0, <4>1, <5>1 DEF Walked
      <4>2. CASE page' = page + 1 /\ SoFar = walk
        <5>1. Turned = page' - 1
          BY <1>0, <3>2, <4>2 DEF Turned, Pages
        <5> QED
          BY <1>1, <4>2, <5>1 DEF ListBy
      <4> QED
        BY <3>2, <4>1, <4>2
    <3> QED
      BY <3>1, <3>2, <3>3, <3>4, <3>5
  <2> QED
    BY <2>1, <2>2
<1>4. PICK a \in AnswerType, w \in W :
        /\ Told(request, H, stored, a, page') /\ HadBy(request, H, a)
        /\ Walked(request, H, stored, w, page' - 1)
        /\ walk' = Onwards(w, page', a) /\ page' \in Nat \ {0}
        /\ answer'.rows = a.rows /\ answer'.had = a.had /\ answer'.version = a.version
  BY <1>3
<1>5. walk'.version = a.version /\ Walked(request, H, stored, walk', page')
  <2>1. ASSUME NEW p \in Nat \ {0}, Told(request, H, stored, a, p), HadBy(request, H, a),
               Walked(request, H, stored, w, p - 1)
        PROVE  Walked(request, H, stored, Onwards(w, p, a), p) /\ Onwards(w, p, a).version = a.version
    <3>1. w \in [seen : SUBSET Rows, from : SUBSET Rows, version : Nat, ordered : BOOLEAN] /\ stored \in SUBSET Rows
      BY <1>0
    <3> HIDE DEF W
    <3> QED
      BY <1>2, <2>1, <3>1, PageTurns
  <2> QED
    BY <1>4, <2>1
<1>6. Told(request, H, stored, answer', page') /\ HadBy(request, H, answer')
  BY <1>4, ToldAlike
<1>7. todo' = <<>> /\ UNCHANGED <<stored, request>>
  BY DEF Answer, AnswerFromCache, Turn, dbVars
<1>8. \A p \in Pages : Told(request, H, stored, cache'[p], p) /\ HadBy(request, H, cache'[p])
  <2>1. cache' = cache \/ (page' = page /\ cache' = [cache EXCEPT ![page] = answer'])
    BY DEF Answer, AnswerFromCache
  <2>2. CASE cache' = cache
    BY <1>1, <2>2 DEF ListBy
  <2>3. CASE page' = page /\ cache' = [cache EXCEPT ![page] = answer']
    <3> SUFFICES ASSUME NEW p \in Pages
                 PROVE  Told(request, H, stored, cache'[p], p) /\ HadBy(request, H, cache'[p])
      OBVIOUS
    <3>1. CASE p = page
      BY <1>0, <1>6, <2>3, <3>1
    <3>2. CASE p # page
      BY <1>0, <1>1, <2>3, <3>2 DEF ListBy
    <3> QED
      BY <3>1, <3>2
  <2> QED
    BY <2>1, <2>2, <2>3
<1>9. Turned' = page'
  BY <1>7 DEF Turned
<1>10. ListBy(H)'
  <2>1. Chain(H, stored')
    BY <1>2, <1>7
  <2>2. (todo # <<>> => /\ Told(request, H, stored, got, page)
                        /\ todo \in NotYet \/ HadBy(request, H, got))'
    BY <1>7
  <2>3. (page > 0 => Told(request, H, stored, answer, page) /\ HadBy(request, H, answer))'
    BY <1>6, <1>7
  <2>4. (\A p \in Pages : Told(request, H, stored, cache[p], p) /\ HadBy(request, H, cache[p]))'
    BY <1>7, <1>8
  <2>5. ((todo = <<>> /\ page > 0) => walk.version = answer.version)'
    BY <1>4, <1>5
  <2>6. Walked(request, H, stored, walk, Turned)'
    BY <1>5, <1>7, <1>9
  <2> QED
    BY <2>1, <2>2, <2>3, <2>4, <2>5, <2>6 DEF ListBy
<1>11. TokenFirst'
  <2>1. <<"token", "rows", "metadata", "statistics", "recent", "answer">> # <<>>
    OBVIOUS
  <2> QED
    BY <1>7, <2>1 DEF TokenFirst
<1> QED
  BY <1>10, <1>11 DEF ListsKept

(* The block of a page is there when a transaction of it was.              *)
LEMMA ParentIsThere ==
  ASSUME Typed, Grounds, NEW r \in got.had, got.had \subseteq Matching,
         request.rule = "transactions", request.filter.by = "block"
  PROVE  BlockIsThere(request.filter.value)
<1>1. request.table = "Transaction"
  BY Shapes DEF Typed, Shape
<1>2. r \in stored /\ r.kind = "Transaction" /\ Match(request.filter, r)
  BY <1>1 DEF Matching, Asked
<1>3. r.block = request.filter.value
  BY <1>2 DEF Match
<1> QED
  BY <1>2, <1>3, BlockBefore

(* So is a token that is read first, when a transfer of it was.            *)
LEMMA TokenFirstIsThere ==
  ASSUME Typed, Grounds, RecordedStored, NEW r \in got.had, got.had \subseteq Matching,
         request.rule = "once", Head(request.queries) = "token"
  PROVE  \E s \in stored : s.kind = "Token" /\ request.filter.value \in s.names
<1>0. request \in Requests /\ stored \in SUBSET Rows /\ synced \in Nat
  BY DEF Typed, DB!TypeOK
<1>1. Reads(request, "token")
  <2>1. request.queries \in {<<"rows", "metadata", "statistics", "recent">>,
                             <<"token", "rows", "metadata", "statistics", "recent">>}
    BY <1>0, Shapes DEF Shape
  <2>2. request.queries = <<"token", "rows", "metadata", "statistics", "recent">>
    BY <2>1, Begins
  <2>3. 1 \in DOMAIN request.queries /\ request.queries[1] = "token"
    BY <2>2
  <2> QED
    BY <2>3 DEF Reads
<1>2. r \in stored /\ r.kind = request.table /\ Match(request.filter, r)
  BY DEF Matching, Asked
<1>3. r \in OfTable(request)
  BY <1>0, <1>2 DEF OfTable
<1>4. r.block <= synced
  BY DEF Grounds, NeedsMore
<1>5. PICK s \in Rows : /\ s.kind = "Token" /\ s.block <= r.block /\ s.names \subseteq r.names
                        /\ request.filter.value \in s.names
  BY <1>0, <1>1, <1>3, TokensAssumption
<1>6. s \in Relevant
  BY <1>0, <1>1, <1>3, <1>5 DEF Relevant, RelevantTo
<1>7. BlockOf[s] <= synced
  <2>1. BlockOf[s] = s.block /\ s.block \in Nat /\ r.block \in Nat
    BY <1>0, <1>2, <1>5, Placed, RecordsAssumption
  <2> QED
    BY <1>0, <1>4, <1>5, <2>1
<1>8. s \in stored
  BY <1>6, <1>7 DEF RecordedStored
<1> QED
  BY <1>5, <1>8

(* The queries of a list other than for its rows change neither the rows   *)
(* that were read nor what is told of them.                                *)
LEMMA BesidesRows ==
  ASSUME Typed, Course, Grounds, Listed(request), TokenFirst, Read, Head(todo) # "rows"
  PROVE  /\ got'.rows = got.rows /\ got'.version = got.version /\ got'.had = got.had
         /\ todo' = Tail(todo) \/ (todo' = <<"answer">> /\ got.had = {})
<1>0. request \in Requests /\ OnTrack(request, todo) /\ got \in AnswerType
  BY DEF Typed, Fits
<1>1. todo # <<>> /\ Head(todo) # "answer"
  BY ActionOf
<1>2. Head(todo) \in {"shown", "count", "block", "daily", "later", "metadata", "recent",
                      "statistics", "estimate", "index", "token"}
  BY <1>0, <1>1, ListHeads
<1>3. got.had \subseteq Matching
  BY DEF Course, KeptIn, View
<1>4. Follow(request, Head(todo), Stage(todo), Stage(Tail(todo)))
  BY <1>0, <1>1, Follows
<1>5. request.rule # "export"
  BY DEF Listed, Whole
<1> USE DEF Goes, Counted, AnswerType
<1>6. CASE Head(todo) = "block"
  <2>1. ReadBlock
    BY <1>6, ActionOf
  <2>2. request.rule = "transactions" /\ request.filter.by = "block"
    BY <1>4, <1>5, <1>6 DEF Follow
  <2>3. ~BlockIsThere(request.filter.value) => got.had = {}
    BY <1>3, <2>2, ParentIsThere
  <2> QED
    BY <1>0, <2>1, <2>3 DEF ReadBlock
<1>7. CASE Head(todo) = "token"
  <2>1. ReadToken
    BY <1>7, ActionOf
  <2>2. request.rule = "once"
    BY <1>4, <1>5, <1>7 DEF Follow
  <2>3. Head(request.queries) = "token"
    <3>1. todo # <<"answer">>
      BY <1>7
    <3>2. OnceLeft(todo)
      BY <1>0, <1>1, <2>2, <3>1 DEF OnTrack
    <3>3. todo \notin CountingTransfers
      <4>1. todo # <<"metadata", "statistics", "recent", "answer">>
        BY <1>7
      <4>2. todo # <<"statistics", "recent", "answer">>
        BY <1>7
      <4>3. todo # <<"recent", "answer">>
        BY <1>7
      <4> QED
        BY <4>1, <4>2, <4>3 DEF CountingTransfers
    <3>4. todo # <<"rows", "metadata", "statistics", "recent", "answer">>
      BY <1>7
    <3> QED
      BY <3>2, <3>3, <3>4 DEF OnceLeft, TokenFirst
  <2>4. ~(\E s \in stored : s.kind = "Token" /\ request.filter.value \in s.names) => got.had = {}
    BY <1>3, <2>2, <2>3, TokenFirstIsThere DEF Course
  <2> QED
    BY <1>0, <2>1, <2>4 DEF ReadToken
<1>8. CASE Head(todo) = "shown"
  <2>1. ReadShown
    BY <1>8, ActionOf
  <2> QED
    BY <1>0, <2>1 DEF ReadShown
<1>9. CASE Head(todo) = "count"
  <2>1. ReadCount
    BY <1>9, ActionOf
  <2> QED
    BY <1>0, <2>1 DEF ReadCount
<1>10. CASE Head(todo) = "daily"
  <2>1. ReadDaily
    BY <1>10, ActionOf
  <2> QED
    BY <1>0, <2>1 DEF ReadDaily
<1>11. CASE Head(todo) = "later"
  <2>1. ReadLater
    BY <1>11, ActionOf
  <2> QED
    BY <1>0, <2>1 DEF ReadLater
<1>12. CASE Head(todo) = "metadata"
  <2>1. ReadMetadata
    BY <1>12, ActionOf
  <2> QED
    BY <1>0, <2>1 DEF ReadMetadata
<1>13. CASE Head(todo) = "recent"
  <2>1. ReadRecent
    BY <1>13, ActionOf
  <2> QED
    BY <1>0, <2>1 DEF ReadRecent
<1>14. CASE Head(todo) = "statistics"
  <2>1. ReadStatistics
    BY <1>14, ActionOf
  <2> QED
    BY <1>0, <2>1 DEF ReadStatistics
<1>15. CASE Head(todo) = "estimate"
  <2>1. ReadEstimate
    BY <1>15, ActionOf
  <2> QED
    BY <1>0, <2>1 DEF ReadEstimate
<1>16. CASE Head(todo) = "index"
  <2>1. ReadIndex
    BY <1>16, ActionOf
  <2> QED
    BY <1>0, <2>1 DEF ReadIndex
<1> QED
  BY <1>2, <1>6, <1>7, <1>8, <1>9, <1>10, <1>11, <1>12, <1>13, <1>14, <1>15, <1>16

(* The next query follows, or the answer.                                  *)
LEMMA ReadGoesOn ==
  ASSUME Read, Head(todo) # "rows"
  PROVE  todo' = Tail(todo) \/ todo' = <<"answer">>
BY ActionOf DEF Goes, ReadMetadata, ReadRecent, ReadStatistics, ReadDaily, ReadLater, ReadCount, ReadEstimate,
   ReadBlock, ReadAll, ReadShown, ReadLast, ReadNumbers, ReadNewest, ReadIndex, ReadEarlier,
   ReadIsLast, ReadToken, ReadFirstBlock, ReadLastBlock, ReadRange, ReadTokens

(* A token is read first or not at all.                                    *)
LEMMA TokenOnce ==
  ASSUME Typed, Listed(request), Read
  PROVE  todo' # <<"token", "rows", "metadata", "statistics", "recent", "answer">>
<1> DEFINE t == <<"token", "rows", "metadata", "statistics", "recent", "answer">>
<1>0. request \in Requests /\ OnTrack(request, todo)
  BY DEF Typed
<1>1. todo # <<>> /\ Head(todo) # "answer" /\ request.rule # "export"
  BY ActionOf DEF Listed, Whole
<1>2. Head(t) = "token"
  OBVIOUS
<1>3. Stage(t) = "token"
  BY DEF Stage, FirstCount, SecondStatistics, SecondRecent
<1>4. <<"answer">> # t
  OBVIOUS
<1>5. CASE Head(todo) = "rows"
  <2>1. Query("rows") /\ ReadRows
    BY <1>5, ActionOf DEF ReadRows
  <2>2. PICK P : todo' = Rest(P, got.total) \o Tail(todo)
    BY <2>1 DEF ReadRows, Goes
  <2>3. Stage(todo') # "token"
    BY <1>0, <2>1, <2>2, RowsThen, RowsStage, RestIs
  <2> HIDE DEF t
  <2> QED
    BY <1>3, <2>3 DEF t
<1>6. CASE Head(todo) # "rows"
  <2>1. todo' = Tail(todo) \/ todo' = <<"answer">>
    BY <1>5, <1>6, ReadGoesOn
  <2>2. Follow(request, Head(todo), Stage(todo), Stage(Tail(todo)))
    BY <1>0, <1>1, Follows
  <2>3. Stage(Tail(todo)) # "token"
    BY <1>1, <1>6, <2>2 DEF Follow
  <2> HIDE DEF t
  <2> QED
    BY <1>3, <1>4, <2>1, <2>3 DEF t
<1> QED
  BY <1>5, <1>6

(* A query of a list: its rows are the page of what the tables hold.       *)
LEMMA ReadLists ==
  ASSUME Typed, Course, Grounds, Listed(request), ListsKept, Read
  PROVE  ListsKept'
<1>0. /\ request \in Requests /\ OnTrack(request, todo) /\ got \in AnswerType
      /\ stored \in SUBSET Rows /\ page \in Pages \cup {0} /\ (page = 0 => todo = <<>>)
  BY DEF Typed, Fits, DB!TypeOK
<1>1. todo # <<>> /\ Head(todo) # "answer"
  BY ActionOf
<1>2. page \in Pages
  BY <1>0, <1>1
<1>3. UNCHANGED <<stored, request, page, cache, answer, walk>>
  BY <1>0, ReadKeeps DEF Goes, dbVars
<1>4. PICK H : ListBy(H)
  BY DEF ListsKept
<1>5. Chain(H, stored)
  BY <1>4 DEF ListBy
<1>6. ASSUME Head(todo) = "rows"
      PROVE  /\ todo' # <<>> /\ Told(request, H, stored, got', page)
             /\ todo' \in NotYet \/ HadBy(request, H, got')
  <2>1. ReadRows /\ Query("rows")
    BY <1>6, ActionOf DEF ReadRows
  <2>2. PICK P \in PagesOf(Matching, page) : Goes(Shown(P), Rest(P, got.total) \o Tail(todo))
    BY <2>1 DEF ReadRows
  <2>3. /\ got'.rows = P /\ got'.version = Cardinality(stored) /\ got'.had = got.had
    BY <1>0, <2>2 DEF Goes, Shown, AnswerType
  <2>4. todo' # <<>>
    BY <1>0, <2>1, <2>2, RowsOnTrack DEF Goes
  <2>5. PageOf(request, Finds(request, stored), P, page)
    BY <1>2, <2>2, ReadsPage
  <2>6. H[Cardinality(stored)] = stored /\ Cardinality(stored) \in Nat
    BY <1>0, <1>5, Sizes DEF Chain
  <2>7. Told(request, H, stored, got', page)
    BY <2>3, <2>5, <2>6 DEF Told
  <2>8. HadBy(request, H, got')
    <3>1. got.had \subseteq Matching
      BY DEF Course, KeptIn, View
    <3>2. Matching = Finds(request, stored)
      BY SeesAll
    <3> QED
      BY <2>3, <2>6, <3>1, <3>2 DEF HadBy
  <2> QED
    BY <2>4, <2>7, <2>8
<1>7. ASSUME Head(todo) # "rows"
      PROVE  /\ todo' # <<>> /\ Told(request, H, stored, got', page)
             /\ todo' \in NotYet \/ HadBy(request, H, got')
  <2>1. /\ got'.rows = got.rows /\ got'.version = got.version /\ got'.had = got.had
        /\ todo' = Tail(todo) \/ (todo' = <<"answer">> /\ got.had = {})
    BY <1>7, BesidesRows DEF ListsKept
  <2>2. Told(request, H, stored, got', page)
    <3>1. Told(request, H, stored, got, page)
      BY <1>1, <1>4 DEF ListBy
    <3> QED
      BY <2>1, <3>1, ToldAlike
  <2>3. todo' # <<>>
    <3>1. Tail(todo) # <<>>
      BY <1>0, <1>1, <1>7, StaysOnTrack
    <3>2. <<"answer">> # <<>>
      OBVIOUS
    <3> QED
      BY <2>1, <3>1, <3>2
  <2>4. todo' \in NotYet \/ HadBy(request, H, got')
    <3>1. CASE got.had = {}
      BY <2>1, <3>1 DEF HadBy
    <3>2. CASE todo' = Tail(todo) /\ todo \in NotYet
      BY <1>7, <3>2, NotYetThen
    <3>3. CASE todo \notin NotYet
      <4>1. HadBy(request, H, got)
        BY <1>1, <1>4, <3>3 DEF ListBy
      <4> QED
        BY <2>1, <4>1, ToldAlike
    <3> QED
      BY <2>1, <3>1, <3>2, <3>3
  <2> QED
    BY <2>2, <2>3, <2>4
<1>8. /\ todo' # <<>> /\ Told(request, H, stored, got', page)
      /\ todo' \in NotYet \/ HadBy(request, H, got')
  BY <1>6, <1>7
<1>9. Turned' = Turned
  BY <1>1, <1>3, <1>8 DEF Turned
<1>10. ListBy(H)'
  <2>1. Chain(H, stored')
    BY <1>3, <1>5
  <2>2. (todo # <<>> => /\ Told(request, H, stored, got, page)
                        /\ todo \in NotYet \/ HadBy(request, H, got))'
    BY <1>3, <1>8
  <2>3. (page > 0 => Told(request, H, stored, answer, page) /\ HadBy(request, H, answer))'
    BY <1>3, <1>4 DEF ListBy
  <2>4. (\A p \in Pages : Told(request, H, stored, cache[p], p) /\ HadBy(request, H, cache[p]))'
    BY <1>3, <1>4 DEF ListBy
  <2>5. ((todo = <<>> /\ page > 0) => walk.version = answer.version)'
    BY <1>8
  <2>6. Walked(request, H, stored, walk, Turned)'
    BY <1>3, <1>4, <1>9 DEF ListBy
  <2> QED
    BY <2>1, <2>2, <2>3, <2>4, <2>5, <2>6 DEF ListBy
<1>11. TokenFirst'
  BY TokenOnce DEF TokenFirst
<1> QED
  BY <1>10, <1>11 DEF ListsKept

(* Every step keeps it.                                                    *)
LEMMA StepLists == Typed /\ Course /\ Grounds /\ ListsKept /\ [Next]_vars => ListsKept'
<1> SUFFICES ASSUME Typed, Course, Grounds, ListsKept, [Next]_vars PROVE ListsKept'
  OBVIOUS
<1>1. request' = request
  BY StepsAre
<1>2. CASE ~Listed(request)
  BY <1>1, <1>2 DEF ListsKept, Listed
<1>3. CASE Listed(request)
  <2>1. CASE Ask
    BY <1>3, <2>1, AskLists
  <2>2. CASE Read
    BY <1>3, <2>2, ReadLists
  <2>3. CASE Answer \/ AnswerFromCache
    BY <1>3, <2>3, AnswerLists
  <2>4. CASE stored' = stored /\ UNCHANGED <<page, todo, got, cache, answer, walk>>
    <3>1. PICK H : ListBy(H)
      BY <1>3 DEF ListsKept
    <3>2. Turned' = Turned
      BY <2>4 DEF Turned
    <3>3. ListBy(H)'
      BY <1>1, <2>4, <3>1, <3>2 DEF ListBy
    <3>4. TokenFirst'
      BY <1>1, <1>3, <2>4 DEF ListsKept, TokenFirst
    <3> QED
      BY <3>3, <3>4 DEF ListsKept
  <2>5. CASE Write /\ UNCHANGED <<page, todo, got, cache, answer, walk>>
    BY <1>1, <1>3, <2>5, WriteLists
  <2> QED
    BY <2>1, <2>2, <2>3, <2>4, <2>5, StepsAre
<1> QED
  BY <1>2, <1>3

(***************************************************************************)
(* No walk misses anything.                                                *)
(***************************************************************************)
(* A list whose last page is short: nothing is behind that page.           *)
LEMMA ListMissesNothing ==
  ASSUME Typed, Grounds, Listed(request), ListsKept, Ended, walk.ordered, Ordered
  PROVE  walk.from \subseteq walk.seen
<1>0. /\ request \in Requests /\ answer \in AnswerType /\ stored \in SUBSET Rows
      /\ page \in Pages \cup {0}
      /\ walk \in [seen : SUBSET Rows, from : SUBSET Rows, version : Nat, ordered : BOOLEAN]
  BY DEF Typed, Fits, DB!TypeOK, Grounds
<1>1. /\ page > 0 /\ todo = <<>> /\ Short(answer.rows)
  <2>1. ~ByNumber /\ request.rule \notin Whole
    BY <1>0, Branches DEF ByNumber, Listed, OfBlocks
  <2> QED
    BY <2>1 DEF Ended
<1>2. page \in Nat \ {0}
  BY <1>0, <1>1 DEF Pages
<1>3. PICK H : ListBy(H)
  BY DEF ListsKept
<1> DEFINE M == Finds(request, H[answer.version])
           n == page * PageSize
<1>4. /\ Chain(H, stored) /\ Told(request, H, stored, answer, page)
      /\ Walked(request, H, stored, walk, page) /\ walk.version = answer.version
  BY <1>1, <1>3 DEF ListBy, Turned
<1>5. H[answer.version] \in SUBSET Rows
  BY <1>0, <1>4 DEF Chain, AnswerType
<1>6. M \in SUBSET Rows
  BY <1>5, FindsMore
<1>7. /\ Cardinality(answer.rows) < PageSize /\ Cardinality(answer.rows) = Cut(Cardinality(M), page)
  BY <1>1, <1>4 DEF Short, Told, PageOf
<1>8. Cardinality(M) < n
  <2>1. /\ Offset(page) \in Nat /\ Offset(page) + PageSize = n /\ PageSize \in Nat \ {0}
        /\ Cardinality(M) \in Nat
    BY <1>2, <1>6, OffsetFacts, Sizes
  <2> HIDE DEF M, n
  <2> QED
    BY <1>7, <2>1 DEF Cut
<1>9. ASSUME NEW r \in walk.from PROVE r \in walk.seen
  <2>1. r \in M /\ (Alone(request, Finds(request, stored), r) =>
                      r \in walk.seen \/ n <= Cardinality(Ahead(request, M, r)))
    BY <1>4, <1>9 DEF Walked
  <2>2. Alone(request, Finds(request, stored), r)
    <3>1. Tied(Matching, r) = {r}
      BY <1>9 DEF Ordered
    <3>2. \A s \in Matching : ~Above(r, s) /\ ~Above(s, r) => s = r
      BY <3>1 DEF Tied
    <3> QED
      BY <3>2, SeesAll DEF Alone
  <2>3. Cardinality(Ahead(request, M, r)) <= Cardinality(M) /\ Cardinality(Ahead(request, M, r)) \in Nat
    <3>1. Ahead(request, M, r) \in SUBSET M
      BY DEF Ahead
    <3> QED
      BY <1>6, <3>1, Sizes
  <2>4. n \in Nat /\ Cardinality(M) \in Nat
    BY <1>2, <1>6, OffsetFacts, Sizes
  <2> HIDE DEF M, n
  <2> QED
    BY <1>8, <2>1, <2>2, <2>3, <2>4
<1> QED
  BY <1>9

(* A list of numbers that ended below the first one.                       *)
LEMMA NumbersMissNothing ==
  ASSUME Typed, Grounds, OfBlocks(request), NumbersKept, Ended, walk.ordered
  PROVE  walk.from \subseteq walk.seen
<1>0. /\ request \in Requests /\ answer \in AnswerType /\ page \in Pages \cup {0}
      /\ walk \in [seen : SUBSET Rows, from : SUBSET Rows, version : Nat, ordered : BOOLEAN]
  BY DEF Typed, Fits, Grounds
<1> DEFINE n == page * PageSize
<1>1. page > 0 /\ todo = <<>> /\ n >= answer.total
  <2>1. ByNumber
    BY <1>0, Branches DEF ByNumber, OfBlocks
  <2> QED
    BY <2>1 DEF Ended
<1>2. walk.version = answer.version /\ answer.version = answer.total
  BY <1>1 DEF NumbersKept, NumbersIn
<1>3. n \in Nat /\ answer.total \in Nat
  BY <1>0, <1>1, OffsetFacts DEF Pages, AnswerType
<1>4. ASSUME NEW r \in walk.from PROVE r \in walk.seen
  <2>1. r \in walk.seen \/ r.block <= answer.total - n
    BY <1>1, <1>2, <1>4 DEF NumbersKept, Turned
  <2>2. r.block \in Nat /\ 1 <= r.block
    BY <1>0, <1>4, Placed
  <2> HIDE DEF n
  <2> QED
    BY <1>1, <1>3, <2>1, <2>2
<1> QED
  BY <1>4

(* What is read whole is one page, with all there was unless an export     *)
(* raised.                                                                 *)
LEMMA WholeMissesNothing ==
  ASSUME Typed, request.rule \in Whole, WholeKept, Ended, ~Raised
  PROVE  walk.from \subseteq walk.seen
<1>1. page = 1 /\ todo = <<>>
  <2>1. page \in Nat /\ page > 0 /\ page <= 1 /\ todo = <<>>
    BY DEF Typed, Pages, Ended, WholeKept
  <2> QED
    BY <2>1
<1>2. walk.from = answer.had /\ walk.seen = answer.rows /\ Has(request, answer)
  BY <1>1 DEF WholeKept
<1> QED
  BY <1>2 DEF Has, Raised

(* What is known of a walk.                                                *)
WalkKnown == Grounds /\ ListsKept /\ NumbersKept /\ WholeKept
LEMMA KnownMissesNothing == Typed /\ WalkKnown => WalkMissesNothing
<1> SUFFICES ASSUME Typed, WalkKnown, Ended, walk.ordered, ~Raised, Ordered \/ request.rule \in Whole,
                    Head(request.queries) # "daily"
             PROVE  walk.from \subseteq walk.seen
  BY DEF WalkMissesNothing
<1>1. CASE request.rule \in Whole
  BY <1>1, WholeMissesNothing DEF WalkKnown
<1>2. CASE OfBlocks(request)
  BY <1>2, NumbersMissNothing DEF WalkKnown
<1>3. CASE Listed(request)
  <2>1. Ordered
    BY <1>3 DEF Listed
  <2> QED
    BY <1>3, <2>1, ListMissesNothing DEF WalkKnown
<1>4. ~OfStats(request)
  <2> SUFFICES ASSUME OfStats(request) PROVE FALSE
    OBVIOUS
  <2>1. request = BlockList => request.table = "Block"
    BY DEF BlockList, List, JoinedList
  <2>2. request.queries = <<"daily", "later", "newest">>
    BY <2>1, Shapes DEF Shape, Typed, OfStats
  <2> QED
    BY <2>2, Begins
<1> QED
  BY <1>1, <1>2, <1>3, <1>4 DEF Listed

(* Every step keeps it.                                                    *)
LEMMA StepKnown == Typed /\ Typed' /\ Course /\ WalkKnown /\ [Next]_vars => WalkKnown'
BY StepGrounds, StepLists, StepNumbers, StepWhole DEF WalkKnown

(* Who turns the pages until one is short, and gets no page that is older  *)
(* than the one before it, misses nothing that was there when the first    *)
(* page was asked for, whatever is indexed meanwhile; and what is read     *)
(* whole misses nothing in any case.                                       *)
THEOREM ExplorerWalkMissesNothing == Spec => []WalkMissesNothing
<1>1. Typed /\ WalkKnown => WalkMissesNothing
  BY KnownMissesNothing
<1>2. Spec => [](Typed /\ Course /\ WalkKnown)
  <2>1. Init => Typed /\ Course /\ WalkKnown
    BY InitTyped, InitOnCourse, InitGrounds, InitLists, InitNumbers, InitWhole DEF WalkKnown
  <2>2. (Typed /\ Course /\ WalkKnown) /\ [Next]_vars => (Typed /\ Course /\ WalkKnown)'
    BY StepTyped, StepOnCourse, StepKnown
  <2> QED
    BY <2>1, <2>2, PTL DEF Spec
<1> QED
  BY <1>1, <1>2, PTL
===============================================================================
