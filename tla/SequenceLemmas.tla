--------------------------- MODULE SequenceLemmas ---------------------------
(* What the sequence and set operators that the models take from the       *)
(* community modules do, where the theorem library does not say it.        *)
EXTENDS Integers, FiniteSets, SequencesExt, SequenceTheorems, WellFoundedInduction, TLAPS

(* Taking out the only occurrence of an element shifts what follows it.    *)
LEMMA RemoveFirstFacts ==
  ASSUME NEW S, NEW s \in Seq(S), NEW e \in S, NEW n \in DOMAIN s, s[n] = e, IsInjective(s)
  PROVE  /\ RemoveFirst(s, e) \in Seq(S)
         /\ Len(RemoveFirst(s, e)) = Len(s) - 1
         /\ \A i \in 1 .. Len(s) - 1 : RemoveFirst(s, e)[i] = IF i < n THEN s[i] ELSE s[i + 1]
<1> DEFINE I == {i \in 1 .. Len(s) : s[i] = e}
<1>1. I = {n}
  BY DEF IsInjective
<1>2. SelectInSeq(s, LAMBDA v : v = e) = n
  <2>1. Min(I) = n
    BY <1>1 DEF Min
  <2>q. QED BY <1>1, <2>1 DEF SelectInSeq
<1>3. RemoveFirst(s, e) = SubSeq(s, 1, n - 1) \o SubSeq(s, n + 1, Len(s))
  <2>1. \E i \in 1 .. Len(s) : s[i] = e
    OBVIOUS
  <2>q. QED BY <1>2, <2>1 DEF RemoveFirst, RemoveAt
<1>4. n \in 1 .. Len(s) /\ Len(s) \in Nat
  OBVIOUS
<1> DEFINE A == SubSeq(s, 1, n - 1)
           B == SubSeq(s, n + 1, Len(s))
<1>5. A \in Seq(S) /\ Len(A) = n - 1 /\ \A i \in 1 .. n - 1 : A[i] = s[i]
  BY <1>4, SubSeqProperties
<1>6. B \in Seq(S) /\ Len(B) = Len(s) - n /\ \A i \in 1 .. Len(s) - n : B[i] = s[n + i]
  BY <1>4, SubSeqProperties
<1> HIDE DEF A, B
<1>7. /\ A \o B \in Seq(S) /\ Len(A \o B) = Len(s) - 1
      /\ \A i \in 1 .. Len(s) - 1 : (A \o B)[i] = IF i <= n - 1 THEN A[i] ELSE B[i - (n - 1)]
  BY <1>4, <1>5, <1>6, ConcatProperties
<1>8. ASSUME NEW i \in 1 .. Len(s) - 1
      PROVE  (A \o B)[i] = IF i < n THEN s[i] ELSE s[i + 1]
  <2>1. (A \o B)[i] = IF i <= n - 1 THEN A[i] ELSE B[i - (n - 1)]
    BY <1>7
  <2>2. CASE i < n
    <3>1. i \in 1 .. n - 1
      BY <1>4, <2>2
    <3>2. A[i] = s[i]
      BY <1>5, <3>1
    <3>q. QED BY <1>4, <2>1, <2>2, <3>1, <3>2
  <2>3. CASE ~(i < n)
    <3>1. i - (n - 1) \in 1 .. Len(s) - n /\ n + (i - (n - 1)) = i + 1 /\ ~(i <= n - 1)
      BY <1>4, <2>3
    <3>2. B[i - (n - 1)] = s[i + 1]
      BY <1>6, <3>1
    <3>q. QED BY <2>1, <2>3, <3>1, <3>2
  <2>q. QED BY <2>2, <2>3
<1>q. QED
  BY <1>3, <1>7, <1>8 DEF A, B

(* Taking an element out of a sequence without repetitions takes it out of *)
(* its range, and leaves a sequence without repetitions.                   *)
LEMMA RemoveFirstRange ==
  ASSUME NEW S, NEW s \in Seq(S), NEW e \in S, IsInjective(s)
  PROVE  LET r == RemoveFirst(s, e)
         IN  r \in Seq(S) /\ IsInjective(r) /\ Range(r) = Range(s) \ {e}
<1> DEFINE r == RemoveFirst(s, e)
<1>1. DOMAIN s = 1 .. Len(s) /\ Len(s) \in Nat
  OBVIOUS
<1>2. CASE \E n \in DOMAIN s : s[n] = e
  <2>1. PICK n \in DOMAIN s : s[n] = e
    BY <1>2
  <2>2. /\ r \in Seq(S) /\ Len(r) = Len(s) - 1
        /\ \A i \in 1 .. Len(s) - 1 : r[i] = IF i < n THEN s[i] ELSE s[i + 1]
    BY <2>1, RemoveFirstFacts
  <2> HIDE DEF r
  <2>3. DOMAIN r = 1 .. Len(s) - 1
    BY <2>2
  <2> DEFINE new(a) == IF a < n THEN a ELSE a - 1
             old(i) == IF i < n THEN i ELSE i + 1
  <2>4. \A a \in DOMAIN s : s[a] # e => new(a) \in DOMAIN r /\ r[new(a)] = s[a]
    BY <1>1, <2>1, <2>2, <2>3
  <2>5. \A i \in DOMAIN r : old(i) \in DOMAIN s /\ old(i) # n /\ r[i] = s[old(i)]
    BY <1>1, <2>1, <2>2, <2>3
  <2>6. \A a, b \in DOMAIN s : s[a] = s[b] => a = b
    BY DEF IsInjective
  <2>7. ASSUME NEW i \in DOMAIN r, NEW k \in DOMAIN r, r[i] = r[k] PROVE i = k
    <3>1. old(i) = old(k)
      BY <2>5, <2>6, <2>7
    <3>q. QED BY <1>1, <2>1, <2>3, <3>1
  <2>8. ASSUME NEW x \in Range(r) PROVE x \in Range(s) \ {e}
    BY <2>1, <2>5, <2>6 DEF Range
  <2>9. ASSUME NEW x \in Range(s) \ {e} PROVE x \in Range(r)
    BY <2>4 DEF Range
  <2>q. QED BY <2>2, <2>7, <2>8, <2>9 DEF IsInjective, r
<1>3. CASE ~ \E n \in DOMAIN s : s[n] = e
  <2>1. r = s
    BY <1>1, <1>3 DEF RemoveFirst
  <2>q. QED BY <1>3, <2>1 DEF Range
<1>q. QED BY <1>2, <1>3

(* The first element can be taken out at the front.                        *)
LEMMA RemoveHead ==
  ASSUME NEW S, NEW s \in Seq(S), s # <<>>, IsInjective(s)
  PROVE  RemoveFirst(s, Head(s)) = Tail(s)
<1>1. Len(s) \in Nat \ {0} /\ Head(s) = s[1] /\ 1 \in DOMAIN s /\ Head(s) \in S
  OBVIOUS
<1> DEFINE r == RemoveFirst(s, Head(s))
<1>2. /\ r \in Seq(S) /\ Len(r) = Len(s) - 1
      /\ \A i \in 1 .. Len(s) - 1 : r[i] = IF i < 1 THEN s[i] ELSE s[i + 1]
  BY <1>1, RemoveFirstFacts
<1> HIDE DEF r
<1>3. /\ Tail(s) \in Seq(S) /\ Len(Tail(s)) = Len(s) - 1
      /\ \A i \in 1 .. Len(s) - 1 : Tail(s)[i] = s[i + 1]
  BY <1>1
<1>4. \A i \in 1 .. Len(s) - 1 : r[i] = Tail(s)[i]
  BY <1>1, <1>2, <1>3
<1>5. r = Tail(s)
  BY <1>2, <1>3, <1>4, SeqEqual
<1>q. QED BY <1>5 DEF r

(* A set of natural numbers that is not empty has a least element.         *)
LEMMA MinFacts ==
  ASSUME NEW T \in SUBSET Nat, T # {}
  PROVE  Min(T) \in T /\ \A y \in T : Min(T) <= y
<1>1. PICK x \in T : \A y \in T : ~(<<y, x>> \in OpToRel(<, Nat))
  BY NatLessThanWellFounded, WFMin
<1>2. \A y \in T : ~(y < x)
  BY <1>1 DEF OpToRel
<1>3. \A y \in T : x <= y
  BY <1>2
<1>q. QED BY <1>3 DEF Min
=============================================================================
