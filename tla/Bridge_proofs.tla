----------------------------- MODULE Bridge_proofs -----------------------------
(***************************************************************************)
(* What the bridge tables hold and the explorer shows of them, for every   *)
(* history of the two chains, any end blocks and batch size, and any       *)
(* number of rounds that fail.                                             *)
(***************************************************************************)
EXTENDS Bridge, FiniteSetTheorems, WellFoundedInduction, TLAPS

Places == Tables \X Keys

Shape == DOMAIN stage = Sides /\ buff = [side \in Sides |-> buff[side]]

(* The buffer of a round under way has the items of its events.            *)
Gathered ==
  \A side \in Sides :
    buff[side] = IF stage[side] = "collect" THEN {} ELSE Items(Events(side))

(* The items of a type whose turn is over have their rows.                 *)
Committed ==
  \A side \in Sides : \A r \in buff[side] :
    Position(side, r.kind) < Position(side, stage[side]) => rows[At(r)] # NoRow

(* A row is that of an item that was converted.                            *)
Source(r, k) ==
  /\ Converts(r.kind) /\ At(r) = k /\ rows[k] = RowOf(r)
  /\ r.block <= RoundEnd(SideOf(r.kind))
Sourced ==
  \A k \in Places : rows[k] # NoRow => \E r \in Items(history) : Source(r, k)

(* What a recorded block says has a row.                                   *)
Kept ==
  \A r \in Items(history) : r.block <= synced[SideOf(r.kind)] => rows[At(r)] # NoRow

IInv == TypeOK /\ Shape /\ Gathered /\ Committed /\ Sourced /\ Kept
-----------------------------------------------------------------------------
(* The items of a set of events.                                           *)

ItemKinds == Kinds \ {"MessageDelivered"}

(* An item comes from an event of its block, side, table and column.       *)
LEMMA ItemFacts ==
  ASSUME NEW h \in Histories, NEW T \in SUBSET h, NEW r \in Items(T)
  PROVE  /\ r.kind \in ItemKinds /\ r.key \in Keys /\ r.block \in Nat \ {0}
         /\ r \in [kind : Kinds, key : Keys, block : Nat]
         /\ \E e \in T : /\ e.kind \in Kinds /\ e.block = r.block
                         /\ \/ e.kind = r.kind
                            \/ e.kind = "MessageDelivered" /\ r.kind = "InboxMessageDelivered"
                         /\ \/ e.key = r.key
                            \/ r.kind = "SequencerBatchDelivered" /\ e.tag = "unknown" /\ r.key = 0
<1>1. \A e \in T : /\ e.kind \in Kinds /\ e.block \in Nat \ {0} /\ e.key \in Keys
                   /\ e.key \in Nat
  BY BridgeAssumption DEF Keys
<1>2. 0 \in Keys
  BY DEF Keys
<1>3. CASE \E kind \in ItemKinds : r \in Simple(T, kind)
  BY <1>1, <1>3 DEF Simple, Item
<1>4. CASE r \in ArbitrumDeposits(T)
  BY <1>1, <1>4 DEF ArbitrumDeposits, Item, ItemKinds, Kinds, L1Kinds
<1>5. CASE r \in ArbitrumBatches(T)
  <2>1. PICK e \in T : /\ e.kind = "SequencerBatchDelivered"
                       /\ r = [Item("SequencerBatchDelivered", e)
                                EXCEPT !.key = IF e.tag = "unknown" THEN 0 ELSE @]
    BY <1>5 DEF ArbitrumBatches
  <2>2. /\ r.kind = "SequencerBatchDelivered" /\ r.block = e.block
        /\ r.key = IF e.tag = "unknown" THEN 0 ELSE e.key
        /\ r = [kind |-> r.kind, key |-> r.key, block |-> r.block]
    BY <2>1 DEF Item
  <2> QED
    BY <1>1, <1>2, <2>1, <2>2 DEF ItemKinds, Kinds, L1Kinds
<1>7. r \in BedrockItems(T) => \E kind \in ItemKinds : r \in Simple(T, kind)
  BY DEF BedrockItems, ItemKinds, Kinds, L1Kinds, L2Kinds
<1>8. r \in UNION {Simple(T, kind) : kind \in {"BridgeCallTriggered", "NodeCreated", "NodeConfirmed",
                                               "TicketCreated", "L2ToL1Tx"}}
        => \E kind \in ItemKinds : r \in Simple(T, kind)
  BY DEF ItemKinds, Kinds, L1Kinds, L2Kinds
<1>9. \/ \E kind \in ItemKinds : r \in Simple(T, kind)
      \/ r \in ArbitrumDeposits(T)
      \/ r \in ArbitrumBatches(T)
  BY <1>7, <1>8 DEF Items, ArbitrumItems
<1> QED
  BY <1>3, <1>4, <1>5, <1>9

(* An event and its item are of the same side, table and column.           *)
LEMMA ItemAlike ==
  ASSUME NEW k \in Kinds, NEW l \in Kinds,
         k = l \/ (k = "MessageDelivered" /\ l = "InboxMessageDelivered")
  PROVE  SideOf(k) = SideOf(l) /\ Table(k) = Table(l) /\ Column(k) = Column(l)
BY DEF SideOf, Table, Column, L1Kinds, L2Kinds

LEMMA Codomains ==
  ASSUME NEW k \in Kinds
  PROVE  SideOf(k) \in Sides /\ Table(k) \in Tables /\ Column(k) \in Columns
BY DEF SideOf, Sides, Table, Tables, Column, Columns, Kinds, L1Kinds, L2Kinds

(* The items of a round are those of the history of its side and blocks.   *)
LEMMA ItemsOfRound ==
  ASSUME history \in Histories, NEW side \in Sides, synced \in [Sides -> Nat]
  PROVE  \A r : r \in Items(Events(side)) <=>
                  /\ r \in Items(history) /\ SideOf(r.kind) = side
                  /\ synced[side] < r.block /\ r.block <= RoundEnd(side)
<1> DEFINE In(e) == SideOf(e.kind) = side /\ synced[side] < e.block /\ e.block <= RoundEnd(side)
<1>1. \A e : e \in Events(side) <=> e \in history /\ In(e)
  BY DEF Events
<1>2. ASSUME NEW r, NEW kind
      PROVE  r \in Simple(Events(side), kind) <=> r \in Simple(history, kind) /\ In(r)
  BY <1>1 DEF Simple, Item
<1>3. ASSUME NEW r
      PROVE  r \in ArbitrumDeposits(Events(side)) <=> r \in ArbitrumDeposits(history) /\ In(r)
  <2>1. SideOf("MessageDelivered") = SideOf("InboxMessageDelivered")
    BY DEF SideOf, L1Kinds
  <2>2. ASSUME NEW d \in history, d.kind = "MessageDelivered",
               NEW i \in history, i.kind = "InboxMessageDelivered", i.key = d.key
        PROVE  d \in Events(side) <=> i \in Events(side)
    <3>1. d.block = i.block
      BY <2>2, HistoryAssumption
    <3> QED
      BY <1>1, <2>1, <2>2, <3>1
  <2>3. ASSUME NEW d \in history, d.kind = "MessageDelivered"
        PROVE  In(d) <=> In(Item("InboxMessageDelivered", d))
    BY <2>1, <2>3 DEF Item
  <2> QED
    BY <1>1, <2>2, <2>3 DEF ArbitrumDeposits
<1>4. ASSUME NEW r
      PROVE  r \in ArbitrumBatches(Events(side)) <=> r \in ArbitrumBatches(history) /\ In(r)
  <2> DEFINE B(e) == [Item("SequencerBatchDelivered", e) EXCEPT !.key = IF e.tag = "unknown" THEN 0 ELSE @]
  <2>1. ASSUME NEW e, e.kind = "SequencerBatchDelivered" PROVE In(e) <=> In(B(e))
    <3>1. B(e).kind = e.kind /\ B(e).block = e.block
      BY <2>1 DEF Item
    <3> HIDE DEF B
    <3> QED
      BY <3>1
  <2>2. \A T : ArbitrumBatches(T) = {B(e) : e \in {f \in T : f.kind = "SequencerBatchDelivered"}}
    BY DEF ArbitrumBatches
  <2> HIDE DEF B, In
  <2> QED
    BY <1>1, <2>1, <2>2
<1> HIDE DEF In
<1>5. ASSUME NEW r PROVE r \in BedrockItems(Events(side)) <=> r \in BedrockItems(history) /\ In(r)
  BY <1>2 DEF BedrockItems
<1>6. ASSUME NEW r
      PROVE  r \in ArbitrumItems(Events(side)) <=> r \in ArbitrumItems(history) /\ In(r)
  BY <1>2, <1>3, <1>4 DEF ArbitrumItems
<1>7. ASSUME NEW r PROVE r \in Items(Events(side)) <=> r \in Items(history) /\ In(r)
  BY <1>5, <1>6 DEF Items
<1> QED
  BY <1>7 DEF In

(* A row of an item is one.                                                *)
LEMMA RowFacts ==
  ASSUME NEW h \in Histories, NEW r \in Items(h)
  PROVE  /\ At(r) \in Places /\ RowOf(r) \in [Columns -> Nat] /\ RowOf(r) # NoRow
         /\ \A c \in Columns : RowOf(r)[c] = IF c = Column(r.kind) THEN r.block ELSE 0
<1>1. r.kind \in Kinds /\ r.key \in Keys /\ r.block \in Nat \ {0}
  BY ItemFacts DEF ItemKinds
<1>2. Table(r.kind) \in Tables /\ Column(r.kind) \in Columns
  BY <1>1, Codomains
<1> QED
  BY <1>1, <1>2 DEF At, Places, RowOf, NoRow
-----------------------------------------------------------------------------
(* The order of the export.                                                *)

LEMMA PlanFacts ==
  ASSUME NEW side \in Sides
  PROVE  /\ DOMAIN Plan[side] = 1..Len(Plan[side]) /\ Len(Plan[side]) \in Nat \ {0}
         /\ Plan[side][Len(Plan[side])] = "record"
         /\ \A i \in DOMAIN Plan[side] : Plan[side][i] # "collect"
         /\ \A i, j \in DOMAIN Plan[side] : Plan[side][i] = Plan[side][j] => i = j
         /\ \A k \in ItemKinds : SideOf(k) = side => \E i \in DOMAIN Plan[side] : Plan[side][i] = k
<1>1. CASE side = "L1"
  BY <1>1 DEF Plan, Sides, ItemKinds, Kinds, L1Kinds, L2Kinds, SideOf
<1>2. CASE side = "L2"
  BY <1>2 DEF Plan, Sides, ItemKinds, Kinds, L1Kinds, L2Kinds, SideOf
<1> QED
  BY <1>1, <1>2 DEF Sides

LEMMA PositionOf ==
  ASSUME NEW side \in Sides, NEW i \in DOMAIN Plan[side]
  PROVE  Position(side, Plan[side][i]) = i
BY PlanFacts DEF Position

LEMMA Least ==
  ASSUME NEW S \in SUBSET Nat, S # {}
  PROVE  \E n \in S : \A m \in S : n <= m
<1>1. PICK n \in S : \A m \in S : ~(<<m, n>> \in OpToRel(<, Nat))
  BY NatLessThanWellFounded, WFMin
<1>2. \A m \in S : ~(m < n)
  BY <1>1 DEF OpToRel
<1> QED
  BY <1>2

(* The next stage is later, and no type with items is passed over.         *)
LEMMA AfterFacts ==
  ASSUME NEW side \in Sides, NEW s \in StagesOf(side) \ {"record"}, NEW items,
         \A r \in items : r.kind \in ItemKinds /\ SideOf(r.kind) = side
  PROVE  /\ After(side, s, items) \in StagesOf(side) \ {"collect"}
         /\ \A r \in items :
              /\ Position(side, r.kind) \in Nat \ {0}
              /\ Position(side, r.kind) < Position(side, After(side, s, items))
                   => Position(side, r.kind) <= Position(side, s)
<1> DEFINE P == Plan[side]
           open == {i \in DOMAIN P : /\ i > Position(side, s)
                                     /\ P[i] = "record" \/ \E r \in items : r.kind = P[i]}
           n == CHOOSE i \in open : \A j \in open : i <= j
<1>1. /\ DOMAIN P = 1..Len(P) /\ Len(P) \in Nat \ {0} /\ P[Len(P)] = "record"
      /\ \A i \in DOMAIN P : P[i] # "collect" /\ Position(side, P[i]) = i
  BY PlanFacts, PositionOf
<1>2. Position(side, s) \in Nat /\ Position(side, s) < Len(P)
  <2>1. CASE s = "collect"
    BY <1>1, <2>1 DEF Position
  <2>2. CASE s # "collect"
    <3>1. PICK i \in DOMAIN P : s = P[i]
      BY <2>2 DEF StagesOf
    <3> QED
      BY <1>1, <3>1
  <2> QED
    BY <2>1, <2>2
<1>3. n \in open /\ \A j \in open : n <= j
  <2>1. Len(P) \in open /\ open \subseteq Nat
    BY <1>1, <1>2
  <2> HIDE DEF open
  <2>2. \E i \in open : \A j \in open : i <= j
    BY <2>1, Least
  <2> QED
    BY <2>2
<1>4. After(side, s, items) = P[n]
  BY DEF After
<1> HIDE DEF n
<1>5. n \in DOMAIN P /\ Position(side, P[n]) = n
  BY <1>1, <1>3
<1>6. ASSUME NEW r \in items
      PROVE  /\ Position(side, r.kind) \in Nat \ {0}
             /\ Position(side, r.kind) < n => Position(side, r.kind) <= Position(side, s)
  <2>1. PICK i \in DOMAIN P : P[i] = r.kind
    BY PlanFacts
  <2>2. Position(side, r.kind) = i
    BY <1>1, <2>1
  <2>3. i > Position(side, s) => i \in open
    BY <2>1
  <2>4. i \in Nat \ {0} /\ n \in Nat
    BY <1>1, <1>5
  <2> QED
    BY <1>2, <1>3, <2>2, <2>3, <2>4
<1>7. P[n] \in StagesOf(side) \ {"collect"}
  BY <1>1, <1>5 DEF StagesOf
<1> QED
  BY <1>4, <1>5, <1>6, <1>7
-----------------------------------------------------------------------------
(* The steps keep the invariant.                                           *)

LEMMA RoundEndFacts ==
  ASSUME synced \in [Sides -> Nat], \A side \in Sides : synced[side] <= To[side], NEW side \in Sides
  PROVE  RoundEnd(side) \in Nat /\ synced[side] <= RoundEnd(side) /\ RoundEnd(side) <= To[side]
BY BridgeAssumption DEF RoundEnd

(* A step of a mission within its round, or one that drops the round.      *)
LEMMA Moves ==
  ASSUME IInv, NEW side \in Sides, NEW s \in StagesOf(side), NEW items,
         UNCHANGED <<history, synced>>, failures' \in Nat,
         stage' = [stage EXCEPT ![side] = s], buff' = [buff EXCEPT ![side] = items],
         items = IF s = "collect" THEN {} ELSE Items(Events(side)),
         \A r \in items : Position(side, r.kind) < Position(side, s) => rows'[At(r)] # NoRow,
         rows' \in [Places -> [Columns -> Nat]],
         \A k \in Places :
           \/ rows'[k] = rows[k]
           \/ /\ rows[k] = NoRow
              /\ \E r \in Items(history) : Source(r, k)'
  PROVE  IInv'
<1>1. /\ history \in Histories /\ synced \in [Sides -> Nat]
      /\ \A o \in Sides : synced[o] <= To[o]
      /\ DOMAIN stage = Sides /\ DOMAIN buff = Sides
  BY DEF IInv, TypeOK, Shape
<1>2. Events(side) \subseteq history
  BY DEF Events
<1>3. /\ \A o \in Sides : stage'[o] = IF o = side THEN s ELSE stage[o]
      /\ \A o \in Sides : buff'[o] = IF o = side THEN items ELSE buff[o]
      /\ DOMAIN stage' = Sides /\ DOMAIN buff' = Sides
  BY <1>1
<1>4. \A o : Events(o)' = Events(o) /\ RoundEnd(o)' = RoundEnd(o)
  BY DEF Events, RoundEnd
<1>5. TypeOK'
  <2>1. items \subseteq [kind : Kinds, key : Keys, block : Nat]
    BY <1>1, <1>2, ItemFacts
  <2> QED
    BY <1>1, <1>3, <2>1 DEF IInv, TypeOK, Places
<1>6. Gathered'
  <2> SUFFICES ASSUME NEW o \in Sides
               PROVE  buff'[o] = IF stage'[o] = "collect" THEN {} ELSE Items(Events(o))'
    BY DEF Gathered
  <2>1. Items(Events(o))' = Items(Events(o))
    BY <1>4 DEF Items, BedrockItems, ArbitrumItems, ArbitrumDeposits, ArbitrumBatches, Simple
  <2> QED
    BY <1>3, <2>1 DEF IInv, Gathered
<1>7. Committed'
  <2> SUFFICES ASSUME NEW o \in Sides, NEW r \in buff'[o],
                      Position(o, r.kind) < Position(o, stage'[o])
               PROVE  rows'[At(r)] # NoRow
    BY DEF Committed, Position
  <2>1. CASE o = side
    BY <1>3, <2>1
  <2>2. CASE o # side
    <3>1. r \in buff[o] /\ stage'[o] = stage[o]
      BY <1>3, <2>2
    <3>2. rows[At(r)] # NoRow
      BY <3>1 DEF IInv, Committed
    <3>3. r \in Items(history)
      BY <1>1, <3>1, ItemsOfRound DEF IInv, Gathered
    <3>4. At(r) \in Places
      BY <1>1, <3>3, RowFacts
    <3> QED
      BY <3>2, <3>4
  <2> QED
    BY <2>1, <2>2
<1>8. Sourced'
  <2> SUFFICES ASSUME NEW k \in Places, rows'[k] # NoRow
               PROVE  \E r \in Items(history) : Source(r, k)'
    BY DEF Sourced
  <2>1. CASE rows'[k] = rows[k]
    <3>1. PICK r \in Items(history) : Source(r, k)
      BY <2>1 DEF IInv, Sourced
    <3> QED
      BY <1>4, <2>1, <3>1 DEF Source
  <2> QED
    BY <2>1
<1>9. Kept'
  <2> SUFFICES ASSUME NEW r \in Items(history), r.block <= synced[SideOf(r.kind)]
               PROVE  rows'[At(r)] # NoRow
    BY DEF Kept
  <2>1. At(r) \in Places /\ rows[At(r)] # NoRow
    BY <1>1, RowFacts DEF IInv, Kept
  <2> QED
    BY <2>1
<1>10. Shape'
  BY <1>1, <1>3 DEF IInv, Shape
<1> QED
  BY <1>5, <1>6, <1>7, <1>8, <1>9, <1>10 DEF IInv

(* The items of a round are of the kinds the plan of its side has.         *)
LEMMA RoundItems ==
  ASSUME IInv, NEW side \in Sides
  PROVE  \A r \in Items(Events(side)) :
           /\ r.kind \in ItemKinds /\ SideOf(r.kind) = side /\ r \in Items(history)
           /\ r.block <= RoundEnd(side) /\ At(r) \in Places
<1>1. history \in Histories /\ synced \in [Sides -> Nat]
  BY DEF IInv, TypeOK
<1> QED
  BY <1>1, ItemsOfRound, ItemFacts, RowFacts

LEMMA CollectKeeps ==
  ASSUME IInv, NEW side \in Sides, Collect(side)
  PROVE  IInv'
<1> DEFINE items == Items(Events(side))
           s == After(side, "collect", items)
<1>1. /\ stage' = [stage EXCEPT ![side] = s] /\ buff' = [buff EXCEPT ![side] = items]
      /\ UNCHANGED <<history, synced, rows, failures>>
  BY DEF Collect
<1>2. \A r \in items : r.kind \in ItemKinds /\ SideOf(r.kind) = side
  BY RoundItems
<1> HIDE DEF items
<1>3. "collect" \in StagesOf(side) \ {"record"} /\ Position(side, "collect") = 0
  BY DEF StagesOf, Position
<1>4. s \in StagesOf(side) \ {"collect"}
  BY <1>2, <1>3, AfterFacts
<1>5. \A r \in items : ~(Position(side, r.kind) < Position(side, s))
  <2> SUFFICES ASSUME NEW r \in items, Position(side, r.kind) < Position(side, s) PROVE FALSE
    OBVIOUS
  <2>1. Position(side, r.kind) \in Nat \ {0} /\ Position(side, r.kind) <= 0
    BY <1>2, <1>3, AfterFacts
  <2> QED
    BY <2>1
<1>6. rows' \in [Places -> [Columns -> Nat]] /\ failures' \in Nat
  BY <1>1 DEF IInv, TypeOK, Places
<1> HIDE DEF s
<1> QED
  BY <1>1, <1>4, <1>5, <1>6, Moves DEF items

LEMMA FailKeeps ==
  ASSUME IInv, NEW side \in Sides, RoundFails(side)
  PROVE  IInv'
<1>1. rows' \in [Places -> [Columns -> Nat]] /\ failures' \in Nat /\ "collect" \in StagesOf(side)
  BY DEF IInv, TypeOK, Places, RoundFails, StagesOf
<1> DEFINE s == "collect"
           items == {}
<1>2. /\ s \in StagesOf(side) /\ stage' = [stage EXCEPT ![side] = s]
      /\ buff' = [buff EXCEPT ![side] = items]
      /\ UNCHANGED <<history, synced, rows>>
  BY <1>1 DEF RoundFails
<1>3. items = IF s = "collect" THEN {} ELSE Items(Events(side))
  OBVIOUS
<1>4. \A r \in items : Position(side, r.kind) < Position(side, s) => rows'[At(r)] # NoRow
  OBVIOUS
<1> HIDE DEF s, items
<1> QED
  BY <1>1, <1>2, <1>3, <1>4, Moves

(* What an insert does: a row that is there stays, a new one is that of an *)
(* item, and every item has a row.                                         *)
LEMMA InsertFacts ==
  ASSUME history \in Histories, NEW items \in SUBSET Items(history), Insert(items),
         rows \in [Places -> [Columns -> Nat]]
  PROVE  /\ rows' \in [Places -> [Columns -> Nat]]
         /\ \A k \in Places :
              \/ rows'[k] = rows[k]
              \/ rows[k] = NoRow /\ \E r \in items : At(r) = k /\ rows'[k] = RowOf(r)
         /\ \A r \in items : rows'[At(r)] # NoRow
<1> DEFINE new == {At(r) : r \in {q \in items : rows[At(q)] = NoRow}}
<1>1. PICK first \in [new -> items] :
        /\ \A k \in new : At(first[k]) = k
        /\ rows' = [k \in Tables \X Keys |-> IF k \in new THEN RowOf(first[k]) ELSE rows[k]]
  BY DEF Insert
<1>2. \A r \in items : /\ At(r) \in Places /\ RowOf(r) \in [Columns -> Nat] /\ RowOf(r) # NoRow
  BY RowFacts
<1>3. \A k \in new : rows[k] = NoRow /\ first[k] \in items
  OBVIOUS
<1>4. \A r \in items : At(r) \in new \/ rows[At(r)] # NoRow
  OBVIOUS
<1> HIDE DEF new
<1> QED
  BY <1>1, <1>2, <1>3, <1>4 DEF Places

LEMMA CommitKeeps ==
  ASSUME IInv, NEW side \in Sides, NEW kind \in Kinds, Commit(side, kind)
  PROVE  IInv'
<1> DEFINE items == Items(Events(side))
           own == {r \in items : r.kind = kind}
           s == After(side, kind, items)
<1>1. stage[side] = kind /\ Converts(kind) /\ kind # "collect" /\ kind # "record"
  BY DEF Commit, Kinds, L1Kinds, L2Kinds
<1>2. buff[side] = items
  BY <1>1 DEF IInv, Gathered
<1>3. /\ stage' = [stage EXCEPT ![side] = s] /\ Insert(own)
      /\ UNCHANGED <<history, synced, buff, failures>>
  BY <1>2 DEF Commit
<1>4. \A r \in items : /\ r.kind \in ItemKinds /\ SideOf(r.kind) = side /\ r \in Items(history)
                       /\ r.block <= RoundEnd(side) /\ At(r) \in Places
  BY RoundItems
<1> HIDE DEF items
<1>5. kind \in StagesOf(side) \ {"record"}
  BY <1>1 DEF IInv, TypeOK
<1>6. /\ s \in StagesOf(side) \ {"collect"}
      /\ \A r \in items : Position(side, r.kind) \in Nat \ {0}
      /\ \A r \in items : Position(side, r.kind) < Position(side, s)
                            => Position(side, r.kind) <= Position(side, kind)
  BY <1>4, <1>5, AfterFacts
<1> HIDE DEF s
<1>7. /\ rows' \in [Places -> [Columns -> Nat]]
      /\ \A k \in Places :
           \/ rows'[k] = rows[k]
           \/ rows[k] = NoRow /\ \E r \in own : At(r) = k /\ rows'[k] = RowOf(r)
      /\ \A r \in own : rows'[At(r)] # NoRow
  <2>1. history \in Histories /\ rows \in [Places -> [Columns -> Nat]] /\ own \subseteq Items(history)
    BY <1>4 DEF IInv, TypeOK, Places
  <2> HIDE DEF own
  <2> QED
    BY <1>3, <2>1, InsertFacts
<1>8. PICK n \in DOMAIN Plan[side] : Plan[side][n] = kind
  BY <1>1, <1>5 DEF StagesOf
<1>9. ASSUME NEW r \in items, Position(side, r.kind) < Position(side, s)
      PROVE  rows'[At(r)] # NoRow
  <2>1. PICK i \in DOMAIN Plan[side] : Plan[side][i] = r.kind
    BY <1>4, PlanFacts
  <2>2. Position(side, r.kind) = i /\ Position(side, kind) = n /\ i \in Nat /\ n \in Nat
    BY <1>8, <2>1, PositionOf, PlanFacts
  <2>3. i <= n
    BY <1>6, <1>9, <2>2
  <2>4. CASE i = n
    BY <1>7, <1>8, <2>1, <2>4
  <2>5. CASE i < n
    <3>1. rows[At(r)] # NoRow
      BY <1>1, <1>2, <2>2, <2>5 DEF IInv, Committed
    <3> QED
      BY <1>4, <1>7, <3>1
  <2> QED
    BY <2>2, <2>3, <2>4, <2>5
<1>10. \A o : RoundEnd(o)' = RoundEnd(o)
  BY <1>3 DEF RoundEnd
<1>11. \A k \in Places :
         \/ rows'[k] = rows[k]
         \/ rows[k] = NoRow /\ \E r \in Items(history) : Source(r, k)'
  <2>1. ASSUME NEW k \in Places, NEW r \in own, At(r) = k, rows'[k] = RowOf(r)
        PROVE  r \in Items(history) /\ Source(r, k)'
    BY <1>1, <1>4, <1>10, <2>1 DEF Source, At, RowOf, Converts
  <2> QED
    BY <1>7, <2>1
<1>12. buff' = [buff EXCEPT ![side] = items] /\ failures' \in Nat
  <2>1. buff = [o \in Sides |-> buff[o]] /\ failures \in Nat
    BY DEF IInv, TypeOK, Shape
  <2>2. [buff EXCEPT ![side] = items] = buff
    BY <1>2, <2>1
  <2> QED
    BY <1>3, <2>1, <2>2
<1> QED
  BY <1>3, <1>6, <1>7, <1>9, <1>11, <1>12, Moves DEF items

LEMMA RecordKeeps ==
  ASSUME IInv, NEW side \in Sides, Record(side)
  PROVE  IInv'
<1>1. /\ stage[side] = "record" /\ synced' = [synced EXCEPT ![side] = RoundEnd(side)]
      /\ buff' = [buff EXCEPT ![side] = {}] /\ stage' = [stage EXCEPT ![side] = "collect"]
      /\ UNCHANGED <<history, rows, failures>>
  BY DEF Record
<1>2. /\ history \in Histories /\ synced \in [Sides -> Nat]
      /\ \A o \in Sides : synced[o] <= To[o]
      /\ DOMAIN stage = Sides /\ DOMAIN buff = Sides
  BY DEF IInv, TypeOK, Shape
<1>3. RoundEnd(side) \in Nat /\ synced[side] <= RoundEnd(side) /\ RoundEnd(side) <= To[side]
  BY <1>2, RoundEndFacts
<1>4. /\ synced' \in [Sides -> Nat] /\ \A o \in Sides : synced'[o] <= To[o]
      /\ \A o \in Sides : synced'[o] = IF o = side THEN RoundEnd(side) ELSE synced[o]
  BY <1>1, <1>2, <1>3
<1>5. /\ \A o \in Sides : stage'[o] = IF o = side THEN "collect" ELSE stage[o]
      /\ \A o \in Sides : buff'[o] = IF o = side THEN {} ELSE buff[o]
      /\ DOMAIN stage' = Sides /\ buff' = [o \in Sides |-> buff'[o]]
  BY <1>1, <1>2 DEF IInv, Shape
<1>6. TypeOK' /\ Shape'
  BY <1>1, <1>4, <1>5 DEF IInv, TypeOK, StagesOf, Shape
<1>7. Gathered'
  <2> SUFFICES ASSUME NEW o \in Sides
               PROVE  buff'[o] = IF stage'[o] = "collect" THEN {} ELSE Items(Events(o))'
    BY DEF Gathered
  <2>1. CASE o = side
    BY <1>5, <2>1
  <2>2. CASE o # side
    <3>1. Events(o)' = Events(o)
      BY <1>1, <1>4, <2>2 DEF Events, RoundEnd
    <3>2. Items(Events(o))' = Items(Events(o))
      BY <3>1 DEF Items, BedrockItems, ArbitrumItems, ArbitrumDeposits, ArbitrumBatches, Simple
    <3> QED
      BY <1>5, <2>2, <3>2 DEF IInv, Gathered
  <2> QED
    BY <2>1, <2>2
<1>8. Committed'
  <2> SUFFICES ASSUME NEW o \in Sides, NEW r \in buff'[o],
                      Position(o, r.kind) < Position(o, stage'[o])
               PROVE  rows'[At(r)] # NoRow
    BY DEF Committed, Position
  <2> QED
    BY <1>1, <1>5 DEF IInv, Committed
<1>9. ASSUME NEW o \in Sides PROVE RoundEnd(o) \in Nat /\ RoundEnd(o) <= RoundEnd(o)'
  <2>1. RoundEnd(o) \in Nat /\ synced[o] <= RoundEnd(o) /\ RoundEnd(o) <= To[o]
    BY <1>2, RoundEndFacts
  <2>2. RoundEnd(o)' = IF synced'[o] + Steps < To[o] THEN synced'[o] + Steps ELSE To[o]
    BY DEF RoundEnd
  <2>3. synced'[o] \in Nat /\ synced[o] \in Nat /\ synced[o] <= synced'[o] /\ To[o] \in Nat
        /\ Steps \in Nat
    BY <1>2, <1>3, <1>4, BridgeAssumption
  <2> QED
    BY <2>1, <2>2, <2>3 DEF RoundEnd
<1>10. Sourced'
  <2> SUFFICES ASSUME NEW k \in Places, rows[k] # NoRow
               PROVE  \E r \in Items(history) : Source(r, k)'
    BY <1>1 DEF Sourced
  <2>1. PICK r \in Items(history) : Source(r, k)
    BY DEF IInv, Sourced
  <2>2. PICK o \in Sides : o = SideOf(r.kind)
    BY <1>2, ItemFacts, Codomains DEF ItemKinds
  <2>3. r.block \in Nat /\ RoundEnd(o)' \in Nat
    BY <1>2, <1>4, ItemFacts, BridgeAssumption DEF RoundEnd
  <2>4. r.block <= RoundEnd(o)'
    BY <1>9, <2>1, <2>2, <2>3 DEF Source
  <2> QED
    BY <1>1, <2>1, <2>2, <2>4 DEF Source
<1>11. Kept'
  <2> SUFFICES ASSUME NEW r \in Items(history), r.block <= synced'[SideOf(r.kind)]
               PROVE  rows[At(r)] # NoRow
    BY <1>1 DEF Kept
  <2>1. r.kind \in ItemKinds /\ SideOf(r.kind) \in Sides /\ r.block \in Nat
    BY <1>2, ItemFacts, Codomains DEF ItemKinds
  <2>2. CASE r.block <= synced[SideOf(r.kind)]
    BY <2>2 DEF IInv, Kept
  <2>3. CASE ~(r.block <= synced[SideOf(r.kind)])
    <3>1. SideOf(r.kind) = side /\ synced[side] < r.block /\ r.block <= RoundEnd(side)
      BY <1>2, <1>4, <2>1, <2>3
    <3>2. r \in buff[side]
      BY <1>1, <1>2, <3>1, ItemsOfRound DEF IInv, Gathered
    <3>3. PICK i \in DOMAIN Plan[side] : Plan[side][i] = r.kind
      BY <2>1, <3>1, PlanFacts
    <3>4. i # Len(Plan[side])
      BY <2>1, <3>3, PlanFacts DEF ItemKinds, Kinds, L1Kinds, L2Kinds
    <3>5. Position(side, r.kind) = i /\ Position(side, "record") = Len(Plan[side]) /\ i < Len(Plan[side])
      BY <3>3, <3>4, PlanFacts, PositionOf
    <3> QED
      BY <1>1, <3>2, <3>5 DEF IInv, Committed
  <2> QED
    BY <2>2, <2>3
<1> QED
  BY <1>6, <1>7, <1>8, <1>10, <1>11 DEF IInv

LEMMA Begins == Init => IInv
<1> SUFFICES ASSUME Init PROVE IInv
  OBVIOUS
<1>1. /\ history \in Histories /\ synced = [side \in Sides |-> 0]
      /\ stage = [side \in Sides |-> "collect"] /\ buff = [side \in Sides |-> {}]
      /\ rows = [k \in Places |-> NoRow] /\ failures = 0
  BY DEF Init, Start, Places
<1>2. TypeOK
  BY <1>1, BridgeAssumption DEF TypeOK, StagesOf, NoRow, Places
<1>3. Kept
  <2> SUFFICES ASSUME NEW r \in Items(history), r.block <= synced[SideOf(r.kind)] PROVE FALSE
    BY DEF Kept
  <2>1. SideOf(r.kind) \in Sides /\ r.block \in Nat \ {0}
    BY <1>1, ItemFacts, Codomains DEF ItemKinds
  <2> QED
    BY <1>1, <2>1
<1> QED
  BY <1>1, <1>2, <1>3 DEF IInv, Shape, Gathered, Committed, Sourced

LEMMA Inductive == IInv /\ [Next]_vars => IInv'
<1> SUFFICES ASSUME IInv, [Next]_vars PROVE IInv'
  OBVIOUS
<1>1. CASE Next
  BY <1>1, CollectKeeps, CommitKeeps, RecordKeeps, FailKeeps DEF Next
<1>2. CASE UNCHANGED vars
  <2>1. \A side : Events(side)' = Events(side) /\ RoundEnd(side)' = RoundEnd(side)
    BY <1>2 DEF vars, Events, RoundEnd
  <2>2. TypeOK' /\ Shape'
    BY <1>2 DEF vars, IInv, TypeOK, Shape
  <2>3. Gathered'
    <3>1. \A side : Items(Events(side))' = Items(Events(side))
      BY <2>1 DEF Items, BedrockItems, ArbitrumItems, ArbitrumDeposits, ArbitrumBatches, Simple
    <3> QED
      BY <1>2, <3>1 DEF vars, IInv, Gathered
  <2>4. Committed' /\ Kept'
    BY <1>2 DEF vars, IInv, Committed, Kept, Position
  <2>5. Sourced'
    BY <1>2, <2>1 DEF vars, IInv, Sourced, Source
  <2> QED
    BY <2>2, <2>3, <2>4, <2>5 DEF IInv
<1> QED
  BY <1>1, <1>2

(* The tables hold rows of the history, the missions stay within their end *)
(* blocks and the stages within the plan.                                  *)
THEOREM TypeCorrect == Spec => []TypeOK
<1>1. IInv => TypeOK
  BY DEF IInv
<1> QED
  BY <1>1, Begins, Inductive, PTL DEF Spec
-----------------------------------------------------------------------------
(* What the tables hold.                                                   *)

(* A row with a column filled is that of an event of the history.          *)
LEMMA RowsAreReal ==
  ASSUME IInv, NEW k \in Places, NEW c \in Columns, rows[k][c] # 0
  PROVE  \E r \in Items(history) :
           /\ Source(r, k) /\ c = Column(r.kind) /\ rows[k][c] = r.block
           /\ \A d \in Columns : d # c => rows[k][d] = 0
<1>1. history \in Histories
  BY DEF IInv, TypeOK
<1>2. rows[k] # NoRow
  BY DEF NoRow
<1>3. PICK r \in Items(history) : Source(r, k)
  BY <1>2 DEF IInv, Sourced
<1>4. \A d \in Columns : rows[k][d] = IF d = Column(r.kind) THEN r.block ELSE 0
  BY <1>1, <1>3, RowFacts DEF Source
<1> QED
  BY <1>3, <1>4

(* Whatever failed and whichever mission came first: what a recorded block *)
(* says has a row, and no column of a row is made up.                      *)
THEOREM EverythingIsStored == Spec => []MessagesStored
<1>1. IInv => MessagesStored
  <2> SUFFICES ASSUME IInv, NEW k \in Places, NEW c \in Columns, rows[k][c] # 0
               PROVE  \E e \in history :
                        /\ Table(e.kind) = k[1]
                        /\ (e.key = k[2] \/ (e.tag = "unknown" /\ k[2] = 0))
                        /\ Column(e.kind) = c /\ e.block = rows[k][c]
                        /\ e.block <= RoundEnd(SideOf(e.kind))
    BY DEF MessagesStored, IInv, Kept, Places
  <2>1. PICK r \in Items(history) : Source(r, k) /\ c = Column(r.kind) /\ rows[k][c] = r.block
    BY RowsAreReal
  <2>2. history \in Histories
    BY DEF IInv, TypeOK
  <2>3. PICK e \in history :
          /\ e.kind \in Kinds /\ e.block = r.block
          /\ e.kind = r.kind \/ (e.kind = "MessageDelivered" /\ r.kind = "InboxMessageDelivered")
          /\ e.key = r.key \/ (e.tag = "unknown" /\ r.key = 0)
    BY <2>2, ItemFacts
  <2>4. r.kind \in Kinds
    BY <2>2, ItemFacts DEF ItemKinds
  <2>5. /\ SideOf(e.kind) = SideOf(r.kind) /\ Table(e.kind) = Table(r.kind)
        /\ Column(e.kind) = Column(r.kind)
    BY <2>3, <2>4, ItemAlike
  <2>6. k[1] = Table(r.kind) /\ k[2] = r.key
    BY <2>1 DEF Source, At
  <2> QED
    BY <2>1, <2>3, <2>5, <2>6 DEF Source
<1> QED
  BY <1>1, Begins, Inductive, PTL DEF Spec
-----------------------------------------------------------------------------
(* What the explorer shows.                                                *)

(* Of a finite set of events that is not empty, one has the highest key.   *)
LEMMA Highest ==
  ASSUME NEW S, IsFiniteSet(S), S # {}, \A e \in S : e.key \in Nat
  PROVE  \E e \in S : \A f \in S : f.key <= e.key
<1> DEFINE above(e) == {f \in S : f.key > e.key}
           N == {Cardinality(above(e)) : e \in S}
<1>1. \A e \in S : IsFiniteSet(above(e)) /\ Cardinality(above(e)) \in Nat
  <2>1. \A e \in S : above(e) \in SUBSET S
    OBVIOUS
  <2> HIDE DEF above
  <2> QED
    BY <2>1, FS_Subset, FS_CardinalityType
<1>2. PICK n \in N : \A m \in N : n <= m
  <2>1. N \in SUBSET Nat /\ N # {}
    BY <1>1
  <2> HIDE DEF N
  <2> QED
    BY <2>1, Least
<1>3. PICK e \in S : n = Cardinality(above(e))
  OBVIOUS
<1>4. ASSUME NEW f \in S, ~(f.key <= e.key) PROVE FALSE
  <2>1. f \in above(e) /\ f \notin above(f)
    BY <1>4
  <2>2. above(f) \in SUBSET above(e)
    BY <1>4
  <2>3. Cardinality(above(e)) <= Cardinality(above(f))
    BY <1>2, <1>3
  <2> HIDE DEF above
  <2>4. Cardinality(above(f)) = Cardinality(above(e))
    BY <1>1, <2>2, <2>3, FS_Subset
  <2>5. above(f) = above(e)
    BY <1>1, <2>2, <2>4, FS_Subset
  <2> QED
    BY <2>1, <2>5
<1> QED
  BY <1>4

(* The finalized block is that of an output no other is above.             *)
Finalized ==
  /\ FinalizedBlock \in Nat
  /\ Outputs = {} => FinalizedBlock = 0
  /\ Outputs # {} =>
       \E o \in Outputs : FinalizedBlock = o.upTo /\ \A f \in Outputs : f.key <= o.key

LEMMA FinalizedBy == TypeOK => Finalized
<1> SUFFICES ASSUME TypeOK PROVE Finalized
  OBVIOUS
<1>1. CASE Outputs = {}
  BY <1>1 DEF Finalized, FinalizedBlock
<1>2. CASE Outputs # {}
  <2>1. /\ Outputs \subseteq history /\ IsFiniteSet(history)
        /\ \A e \in history : e.key \in Nat /\ e.upTo \in Nat
    BY BridgeAssumption DEF Outputs, TypeOK
  <2>2. IsFiniteSet(Outputs)
    BY <2>1, FS_Subset
  <2>3. \E e \in Outputs : \A f \in Outputs : f.key <= e.key
    BY <1>2, <2>1, <2>2, Highest
  <2> QED
    BY <1>2, <2>1, <2>3 DEF FinalizedBlock, Finalized
<1> QED
  BY <1>1, <1>2

LEMMA FinalizedByNext == TypeOK' => Finalized'
BY FinalizedBy, PTL

(* A withdrawal that is shown as ready to prove is one whose block an      *)
(* output of L1 covers, and one that is shown as relayed was finalized.    *)
THEOREM ShownTruly == Spec => []ShownIsTrue
<1>1. ASSUME IInv, NEW w \in Keys, Shown(w) >= 2
      PROVE  /\ \E e, o \in history : /\ e.kind = "MessagePassed" /\ e.key = w
                                      /\ o.kind = "OutputProposed" /\ e.block <= o.upTo
                                      /\ o.block <= RoundEnd("L1")
             /\ Shown(w) # 5
  <2> DEFINE k == <<"l2_to_l1", w>>
  <2>1. k \in Places /\ "l2" \in Columns /\ "l1" \in Columns
    BY DEF Places, Tables, Columns
  <2>2. history \in Histories /\ rows \in [Places -> [Columns -> Nat]]
    BY <1>1 DEF IInv, TypeOK, Places
  <2>3. rows[k]["l2"] # 0 /\ ~(FinalizedBlock < rows[k]["l2"])
    BY <1>1 DEF Shown, State, Withdrawal
  <2>4. rows[k]["l2"] \in Nat /\ FinalizedBlock \in Nat
    BY <1>1, <2>1, <2>2, FinalizedBy DEF IInv, Finalized
  <2>5. PICK r \in Items(history) : /\ Source(r, k) /\ Column(r.kind) = "l2" /\ rows[k]["l2"] = r.block
                                    /\ rows[k]["l1"] = 0
    BY <1>1, <2>1, <2>3, RowsAreReal
  <2>6. r.kind = "MessagePassed" /\ r.key = w
    <3>1. Table(r.kind) = "l2_to_l1" /\ r.key = w /\ r.kind # "L2ToL1Tx" /\ r.kind \in Kinds
      BY <2>2, <2>5, ItemFacts DEF Source, At, Converts, ItemKinds
    <3> QED
      BY <2>5, <3>1 DEF Table, Column, Kinds, L1Kinds, L2Kinds
  <2>7. PICK e \in history : e.kind = "MessagePassed" /\ e.key = w /\ e.block = r.block
    BY <2>2, <2>6, ItemFacts
  <2>8. Outputs # {}
    BY <1>1, <2>3, <2>4, FinalizedBy DEF IInv, Finalized
  <2>9. PICK o \in Outputs : FinalizedBlock = o.upTo
    BY <1>1, <2>8, FinalizedBy DEF IInv, Finalized
  <2>10. /\ o \in history /\ o.kind = "OutputProposed" /\ o.key \in Nat
         /\ <<"outputs", o.key>> \in Places /\ rows[<<"outputs", o.key>>] # NoRow
    BY <2>2, BridgeAssumption DEF Outputs, Places, Tables, Keys
  <2>11. PICK q \in Items(history) : Source(q, <<"outputs", o.key>>)
    BY <1>1, <2>10 DEF IInv, Sourced
  <2>12. q.kind = "OutputProposed" /\ q.key = o.key /\ q.block <= RoundEnd("L1")
    <3>1. Table(q.kind) = "outputs" /\ q.key = o.key /\ q.kind \in Kinds
      BY <2>2, <2>11, ItemFacts DEF Source, At, ItemKinds
    <3>2. q.kind = "OutputProposed"
      BY <3>1 DEF Table, Kinds, L1Kinds, L2Kinds
    <3>3. SideOf("OutputProposed") = "L1"
      BY DEF SideOf, L1Kinds
    <3> QED
      BY <2>11, <3>1, <3>2, <3>3 DEF Source
  <2>13. PICK p \in history : p.kind = "OutputProposed" /\ p.key = o.key /\ p.block = q.block
    BY <2>2, <2>12, ItemFacts
  <2>14. p.upTo = o.upTo
    <3>1. p.upTo <= o.upTo /\ o.upTo <= p.upTo
      BY <2>2, <2>10, <2>13, HistoryAssumption
    <3>2. p.upTo \in Nat /\ o.upTo \in Nat
      BY <2>2, <2>10, BridgeAssumption
    <3> QED
      BY <3>1, <3>2
  <2>15. e.block <= p.upTo
    BY <2>3, <2>4, <2>5, <2>7, <2>9, <2>14
  <2>16. Shown(w) # 5
    BY <2>5 DEF Shown, State, Withdrawal
  <2> QED
    BY <2>7, <2>12, <2>13, <2>15, <2>16
<1>2. IInv => ShownIsTrue
  BY <1>1 DEF ShownIsTrue
<1> QED
  BY <1>2, Begins, Inductive, PTL DEF Spec

(* A row stays as it is, whatever a step does.                             *)
LEMMA RowsStay ==
  ASSUME IInv, [Next]_vars, NEW k \in Places, rows[k] # NoRow
  PROVE  rows'[k] = rows[k]
<1>1. CASE UNCHANGED rows
  BY <1>1
<1>2. CASE \E side \in Sides, kind \in Kinds : Commit(side, kind)
  <2>1. PICK side \in Sides, kind \in Kinds : Commit(side, kind)
    BY <1>2
  <2> DEFINE own == {r \in buff[side] : r.kind = kind}
  <2>2. own \subseteq Items(history)
    BY RoundItems DEF IInv, Gathered
  <2>3. Insert(own) /\ history \in Histories /\ rows \in [Places -> [Columns -> Nat]]
    BY <2>1 DEF Commit, IInv, TypeOK, Places
  <2> HIDE DEF own
  <2> QED
    BY <2>2, <2>3, InsertFacts
<1> QED
  BY <1>1, <1>2 DEF Next, Collect, Record, RoundFails, vars

(* What is shown of a withdrawal never goes back, whatever is retried and  *)
(* whichever mission lags.                                                 *)
THEOREM NothingGoesBack == Spec => ShownNeverGoesBack
<1>1. ASSUME IInv, IInv', [Next]_vars, NEW w \in Keys
      PROVE  Shown(w) <= Shown(w)'
  <2> DEFINE k == <<"l2_to_l1", w>>
  <2>1. k \in Places /\ {"l1", "l2", "proven"} \subseteq Columns
    BY DEF Places, Tables, Columns
  <2>2. history \in Histories /\ history' = history /\ rows \in [Places -> [Columns -> Nat]]
        /\ rows' \in [Places -> [Columns -> Nat]]
    BY <1>1 DEF IInv, TypeOK, Places, Next, Collect, Commit, Record, RoundFails, vars
  <2>3. FinalizedBlock \in Nat /\ FinalizedBlock' \in Nat /\ FinalizedBlock <= FinalizedBlock'
    <3>1. Outputs \subseteq Outputs'
      <4> SUFFICES ASSUME NEW e \in Outputs PROVE rows'[<<"outputs", e.key>>] # NoRow
        BY <2>2 DEF Outputs
      <4>1. <<"outputs", e.key>> \in Places /\ rows[<<"outputs", e.key>>] # NoRow
        BY <2>2 DEF Outputs, Places, Tables, Keys
      <4> QED
        BY <1>1, <4>1, RowsStay
    <3>2. Finalized /\ Finalized'
      BY <1>1, FinalizedBy, FinalizedByNext DEF IInv
    <3>3. CASE Outputs = {}
      BY <3>2, <3>3 DEF Finalized
    <3>4. CASE Outputs # {}
      <4>1. PICK o \in Outputs : FinalizedBlock = o.upTo
        BY <3>2, <3>4 DEF Finalized
      <4>2. PICK q \in Outputs' : FinalizedBlock' = q.upTo /\ \A f \in Outputs' : f.key <= q.key
        BY <3>1, <3>2, <3>4 DEF Finalized
      <4>3. /\ o \in history /\ q \in history /\ o.key <= q.key
            /\ o.kind = "OutputProposed" /\ q.kind = "OutputProposed"
        BY <2>2, <3>1, <4>2 DEF Outputs
      <4>4. o.upTo <= q.upTo
        BY <2>2, <4>3, HistoryAssumption
      <4> QED
        BY <3>2, <4>1, <4>2, <4>4 DEF Finalized
    <3> QED
      BY <3>3, <3>4
  <2>4. CASE rows[k] = NoRow
    <3>1. Shown(w) = 0
      BY <2>1, <2>4 DEF Shown, State, Withdrawal, NoRow
    <3>2. Shown(w)' \in Nat
      BY DEF Shown, State
    <3> QED
      BY <3>1, <3>2
  <2>5. CASE rows[k] # NoRow
    <3>1. rows'[k] = rows[k]
      BY <1>1, <2>1, <2>5, RowsStay
    <3>2. rows[k] \in [Columns -> Nat] /\ rows[k]["l2"] \in Nat
      BY <2>1, <2>2 DEF Columns
    <3> QED
      BY <2>3, <3>1, <3>2 DEF Shown, State, Withdrawal
  <2> QED
    BY <2>4, <2>5
<1>2. IInv /\ IInv' /\ [Next]_vars => [\A w \in Keys : Shown(w) <= Shown(w)']_vars
  BY <1>1
<1> QED
  BY <1>2, Begins, Inductive, PTL DEF Spec, ShownNeverGoesBack
=============================================================================
