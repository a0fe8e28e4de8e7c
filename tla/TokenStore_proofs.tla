--------------------------- MODULE TokenStore_proofs ---------------------------
(***************************************************************************)
(* What the token tables hold, for every chain, any number of missions on  *)
(* the same tables, any failures and crashes.                              *)
(***************************************************************************)
EXTENDS TokenStore, FiniteSetTheorems, WellFoundedInduction, TLAPS

TransferTypes == {"ERC20TokenTransfer", "ERC721TokenTransfer", "ERC1155TokenTransfer"}
DetailTypes   == {"ERC721TokenIdDetail", "ERC1155TokenIdDetail"}
UpdateTypes   == {"UpdateERC721TokenIdDetail", "UpdateERC1155TokenIdDetail"}
BalanceTypes  == {"TokenBalance", "CurrentTokenBalance"}

Balance == [address : Addresses, token : TokenAddresses, block : Nat \ {0}, id : Nat]
IdItem  == {r \in [token : TokenAddresses, id : Nat, block : Nat \ {0}] : Id(r) \in Ids}

Of(T, c) == {t \in T : ContractType[t.token] = c}

(* The items of a mission's buffer are of their types, and an upsert's are *)
(* of distinct rows.                                                       *)
TypedBy(m) ==
  /\ buff[m] = [type \in ItemTypes |-> buff[m][type]]
  /\ \A type \in TransferTypes : buff[m][type] \subseteq Chain
  /\ buff[m]["Token"] \subseteq
       {r \in [token : TokenAddresses, type : TokenTypes, block : Nat \ {0}] : r.type = ContractType[r.token]}
  /\ buff[m]["UpdateToken"] \subseteq [token : TokenAddresses, block : Nat \ {0}]
  /\ \A type \in BalanceTypes : buff[m][type] \subseteq Balance
  /\ \A type \in DetailTypes \cup UpdateTypes \cup {"ERC721TokenIdChange"} :
       buff[m][type] \subseteq IdItem
  /\ OnePerGroup(buff[m]["CurrentTokenBalance"], {"address", "token"})
  /\ OnePerGroup(buff[m]["UpdateToken"], {"token"})
  /\ \A type \in UpdateTypes : OnePerGroup(buff[m][type], {"token", "id"})
  /\ From[m] <= synced[m] + 1
  /\ \A a \in TokenAddresses : cache[m][a] \in {ContractType[a], Unknown, Null}

(* A buffer has the items of the ids that move in T.                       *)
IdsIn(b, T) ==
  /\ b["ERC721TokenIdDetail"]        = IdItems(Minted(Of(T, "ERC721")))
  /\ b["ERC1155TokenIdDetail"]       = IdItems(Minted(Of(T, "ERC1155")))
  /\ b["UpdateERC721TokenIdDetail"]  = Newest(IdItems(Of(T, "ERC721")), {"token", "id"})
  /\ b["UpdateERC1155TokenIdDetail"] = Newest(IdItems(Of(T, "ERC1155")), {"token", "id"})

(* They are what the jobs that had their turn make of the round's          *)
(* transfers.                                                              *)
GatheredBy(m) ==
  LET T == Logs(m) IN
  /\ stage[m] = "tokens_and_transfers" => buff[m] = Nothing
  /\ stage[m] # "tokens_and_transfers" =>
       /\ synced[m] < To[m]
       /\ \A c \in TokenTypes : buff[m][TransferType(c)] = Of(T, c)
       /\ buff[m]["UpdateToken"] = SupplyUpdates(T)
       /\ \A t \in T : cache[m][t.token] # Unknown
  /\ Position(stage[m]) > Position("token_balances") =>
       /\ buff[m]["TokenBalance"] = BalanceItems(T)
       /\ buff[m]["CurrentTokenBalance"] \subseteq BalanceItems(T)
       /\ \A r \in BalanceItems(T) : \E s \in buff[m]["CurrentTokenBalance"] :
            Pair(s) = Pair(r) /\ s.block >= r.block
  /\ Position(stage[m]) > Position("token_id_infos") => IdsIn(buff[m], T)

(* What the row of an id says is that of the block, or a later mint made   *)
(* the row.                                                                *)
Fresh(d, block) == d.readAt >= block \/ (d.readAt = 0 /\ d.uri /\ d.block > block)

(* The tables have what an item says, or something newer.                  *)
Applied(type, r) ==
  /\ \A c \in TokenTypes : type = TransferType(c) => r \in transfers[c]
  /\ type = "Token" => tokens[r.token].type # Unknown
  /\ type = "UpdateToken" => tokens[r.token].block >= r.block
  /\ type = "TokenBalance" => \E s \in balances : SameBalance(r, s)
  /\ type = "CurrentTokenBalance" => current[Pair(r)].block >= r.block
  /\ type \in DetailTypes => details[Id(r)] # NoDetail
  /\ type \in UpdateTypes => Fresh(details[Id(r)], r.block)

(* The items of a type whose turn is over are in the tables.               *)
CommittedBy(m) ==
  \A type \in ItemTypes : Position(type) < Position(stage[m]) =>
    \A r \in buff[m][type] : Applied(type, r)

(* A token a process knows has its row, or is about to get it.             *)
CachedBy(m) ==
  \A a \in TokenAddresses \ lost : cache[m][a] # Unknown =>
    \/ tokens[a].type = ContractType[a]
    \/ Position(stage[m]) <= Position("Token") /\ \E r \in buff[m]["Token"] : r.token = a

(* The tables have what a recorded transfer says.                          *)
Stored(t) ==
  /\ t \in transfers[ContractType[t.token]]
  /\ t.token \notin lost => tokens[t.token].type = ContractType[t.token]
  /\ \A a \in Parties(t) :
       /\ current[<<a, t.token>>].block >= t.block
       /\ \E r \in balances : Pair(r) = <<a, t.token>> /\ r.block = t.block
  /\ t.token \in Countable /\ ~t.multi => tokens[t.token].block >= t.block
  /\ ContractType[t.token] # "ERC20" /\ t \in Answered({t}) => Fresh(details[Id(t)], t.block)
KeptBy(m) == \A t \in Chain : From[m] <= t.block /\ t.block <= synced[m] => Stored(t)

Local(m) == TypedBy(m) /\ GatheredBy(m) /\ CommittedBy(m) /\ CachedBy(m) /\ KeptBy(m)

(* A row is of its contract's type, a current balance that of a transfer   *)
(* and of a row of the history, an id's is whole.                          *)
TokenRows ==
  \A a \in TokenAddresses :
    /\ tokens[a].type \in {ContractType[a], Unknown, Null}
    /\ tokens[a].type = Unknown => tokens[a].block = 0
    /\ a \notin lost => tokens[a].type # Null
BalanceRows ==
  \A p \in Pairs : current[p].block > 0 =>
    /\ \E r \in balances : Pair(r) = p /\ r.block = current[p].block
    /\ \E t \in Chain : /\ p[2] = t.token /\ p[1] \in Parties(t)
                        /\ t.block = current[p].block
                        /\ t.multi => t.id = current[p].id
FirstMint(t) ==
  /\ t.from = ZeroAddress /\ ContractType[t.token] # "ERC20" /\ t \in Answered({t})
  /\ \A u \in Chain : Id(u) = Id(t) =>
       /\ t.block <= u.block
       /\ \A m \in Missions : From[m] <= u.block /\ u.block <= To[m] => From[m] <= t.block
DetailRows ==
  /\ \A i \in Ids : /\ details[i].readAt > 0 => details[i].readAt = details[i].block
                    /\ details[i].block = 0 => details[i] = NoDetail
                    /\ details[i].readAt = 0 /\ details[i] # NoDetail => details[i].uri
  /\ \A t \in Chain : FirstMint(t) /\ details[Id(t)] # NoDetail => details[Id(t)].uri
TransferRows == \A c \in TokenTypes : \A t \in transfers[c] : c = ContractType[t.token]
Rows == TransferRows /\ TokenRows /\ BalanceRows /\ DetailRows

Shape == buff = [m \in Missions |-> buff[m]]
IInv == TypeOK /\ Shape /\ Rows /\ \A m \in Missions : Local(m)

(* What no step does to the rows.                                          *)
Improve ==
  /\ \A c \in TokenTypes : transfers[c] \subseteq transfers'[c]
  /\ balances \subseteq balances'
  /\ \A p \in Pairs : current'[p].block >= current[p].block
  /\ \A a \in TokenAddresses : /\ tokens'[a].block >= tokens[a].block
                               /\ tokens[a].type # Unknown => tokens'[a].type = tokens[a].type
  /\ \A i \in Ids : \/ details'[i] = details[i]
                    \/ details[i] = NoDetail
                    \/ /\ details'[i].readAt = details'[i].block
                       /\ details'[i].block >= details[i].block
                       /\ details'[i].uri = details[i].uri
  /\ lost \subseteq lost'
-----------------------------------------------------------------------------
(* The order of a round.                                                   *)

LEMMA PlanFacts ==
  /\ DOMAIN Plan = 1..16
  /\ \A i, j \in DOMAIN Plan : Plan[i] = Plan[j] => i = j
  /\ Plan[1] = "tokens_and_transfers" /\ Plan[16] = "record"
<1>1. DOMAIN Plan = 1..16 /\ Plan[1] = "tokens_and_transfers" /\ Plan[16] = "record"
  BY DEF Plan
<1>2. \A i, j \in DOMAIN Plan : Plan[i] = Plan[j] => i = j
  BY DEF Plan
<1> QED
  BY <1>1, <1>2

LEMMA PositionOf == \A i \in 1..16 : Position(Plan[i]) = i
BY PlanFacts DEF Position

LEMMA Positions ==
  /\ Position("tokens_and_transfers") = 1 /\ Position("ERC20TokenTransfer") = 2
  /\ Position("ERC721TokenTransfer") = 3 /\ Position("ERC1155TokenTransfer") = 4
  /\ Position("Token") = 5 /\ Position("UpdateToken") = 6 /\ Position("token_balances") = 7
  /\ Position("TokenBalance") = 8 /\ Position("CurrentTokenBalance") = 9
  /\ Position("token_id_infos") = 10 /\ Position("ERC721TokenIdChange") = 11
  /\ Position("ERC721TokenIdDetail") = 12 /\ Position("UpdateERC721TokenIdDetail") = 13
  /\ Position("ERC1155TokenIdDetail") = 14 /\ Position("UpdateERC1155TokenIdDetail") = 15
  /\ Position("record") = 16
<1>1. /\ Plan[1] = "tokens_and_transfers" /\ Plan[2] = "ERC20TokenTransfer"
      /\ Plan[3] = "ERC721TokenTransfer" /\ Plan[4] = "ERC1155TokenTransfer"
      /\ Plan[5] = "Token" /\ Plan[6] = "UpdateToken" /\ Plan[7] = "token_balances"
      /\ Plan[8] = "TokenBalance" /\ Plan[9] = "CurrentTokenBalance"
      /\ Plan[10] = "token_id_infos" /\ Plan[11] = "ERC721TokenIdChange"
      /\ Plan[12] = "ERC721TokenIdDetail" /\ Plan[13] = "UpdateERC721TokenIdDetail"
      /\ Plan[14] = "ERC1155TokenIdDetail" /\ Plan[15] = "UpdateERC1155TokenIdDetail"
      /\ Plan[16] = "record"
  BY DEF Plan
<1> QED
  BY <1>1, PositionOf

LEMMA StageFacts ==
  /\ Stages = Jobs \cup ItemTypes /\ Jobs \cap ItemTypes = {}
  /\ ItemTypes = TransferTypes \cup {"Token", "UpdateToken", "ERC721TokenIdChange"}
                   \cup BalanceTypes \cup DetailTypes \cup UpdateTypes
  /\ \A s \in Stages : Position(s) \in 1..16 /\ Plan[Position(s)] = s
<1>1. \A s : s \in Stages <=> \E i \in 1..16 : s = Plan[i]
  BY PlanFacts DEF Stages
<1>2. \A s \in Stages : Position(s) \in 1..16 /\ Plan[Position(s)] = s
  BY <1>1, PositionOf
<1>3. \A i \in 1..16 : i \in {1, 2, 3, 4, 5, 6, 7, 8, 9, 10, 11, 12, 13, 14, 15, 16}
  OBVIOUS
<1>4. Stages = Jobs \cup TransferTypes \cup {"Token", "UpdateToken", "ERC721TokenIdChange"}
                   \cup BalanceTypes \cup DetailTypes \cup UpdateTypes
  BY <1>1, <1>3 DEF Plan, Jobs, TransferTypes, BalanceTypes, DetailTypes, UpdateTypes
<1>5. Jobs \cap (TransferTypes \cup {"Token", "UpdateToken", "ERC721TokenIdChange"}
                   \cup BalanceTypes \cup DetailTypes \cup UpdateTypes) = {}
  BY DEF Jobs, TransferTypes, BalanceTypes, DetailTypes, UpdateTypes
<1> QED
  BY <1>2, <1>4, <1>5 DEF ItemTypes

LEMMA Least ==
  ASSUME NEW S \in SUBSET Nat, S # {}
  PROVE  \E n \in S : \A m \in S : n <= m
<1>1. PICK n \in S : \A m \in S : ~(<<m, n>> \in OpToRel(<, Nat))
  BY NatLessThanWellFounded, WFMin
<1>2. \A m \in S : ~(m < n)
  BY <1>1 DEF OpToRel
<1> QED
  BY <1>2

(* The next stage is later; no job and no type with items is passed over.  *)
LEMMA AfterFacts ==
  ASSUME NEW s \in Stages \ {"record"}, NEW b
  PROVE  /\ After(s, b) \in Stages \ {"tokens_and_transfers"}
         /\ Position(s) < Position(After(s, b))
         /\ \A o \in Stages : (o \in Jobs \/ b[o] # {}) /\ Position(o) < Position(After(s, b))
              => Position(o) <= Position(s)
<1> DEFINE open == {i \in DOMAIN Plan : /\ i > Position(s)
                                        /\ Plan[i] \in Jobs \/ b[Plan[i]] # {}}
           n == CHOOSE i \in open : \A j \in open : i <= j
<1>1. Position(s) \in 1..16 /\ Position(s) # 16
  BY StageFacts, PlanFacts
<1>2. n \in open /\ \A j \in open : n <= j
  <2>1. 16 \in open /\ open \subseteq Nat
    BY <1>1, PlanFacts DEF Jobs
  <2> HIDE DEF open
  <2>2. \E i \in open : \A j \in open : i <= j
    BY <2>1, Least
  <2> QED
    BY <2>2
<1>3. After(s, b) = Plan[n]
  BY DEF After
<1> HIDE DEF n
<1>4. n \in 1..16 /\ Position(s) < n /\ Position(Plan[n]) = n
  BY <1>1, <1>2, PlanFacts, PositionOf
<1>5. Plan[n] \in Stages \ {"tokens_and_transfers"}
  BY <1>1, <1>4, PlanFacts DEF Stages
<1>6. ASSUME NEW o \in Stages, o \in Jobs \/ b[o] # {}, Position(o) < n
      PROVE  Position(o) <= Position(s)
  <2>1. Position(o) \in 1..16 /\ Plan[Position(o)] = o
    BY StageFacts
  <2>2. ~(Position(o) \in open)
    BY <1>2, <1>4, <1>6, <2>1
  <2> QED
    BY <1>1, <1>6, <2>1, <2>2, PlanFacts
<1> QED
  BY <1>3, <1>4, <1>5, <1>6
-----------------------------------------------------------------------------
(* What the jobs make of a set of transfers.                               *)

LEMMA ChainFacts ==
  ASSUME NEW t \in Chain
  PROVE  /\ t.block \in Nat \ {0} /\ t.log \in Nat /\ t.token \in TokenAddresses
         /\ t.multi \in BOOLEAN /\ t.id \in Nat
         /\ t.from \in Addresses \cup {ZeroAddress} /\ t.to \in Addresses \cup {ZeroAddress}
         /\ Id(t) \in Ids /\ Id(t) = <<t.token, t.id>>
         /\ Parties(t) \subseteq Addresses
         /\ ContractType[t.token] \in TokenTypes /\ (t.multi <=> ContractType[t.token] = "ERC1155")
BY TokenAssumption DEF Ids, Id, Parties

LEMMA LogsFacts ==
  ASSUME NEW m \in Missions, synced[m] \in Nat, From[m] <= synced[m] + 1
  PROVE  /\ Logs(m) \in SUBSET Chain
         /\ RoundEnd(m) \in Nat /\ RoundEnd(m) <= To[m]
         /\ \A t \in Chain : t \in Logs(m) <=> synced[m] < t.block /\ t.block <= RoundEnd(m)
         /\ \A t \in Logs(m) : From[m] <= t.block /\ t.block <= To[m]
<1>1. RoundEnd(m) \in Nat /\ RoundEnd(m) <= To[m]
  BY TokenAssumption DEF RoundEnd
<1>2. From[m] \in Nat /\ To[m] \in Nat
  BY TokenAssumption
<1> QED
  BY <1>1, <1>2, ChainFacts DEF Logs

(* A finite set has a member of the highest block.                         *)
LEMMA Highest ==
  ASSUME NEW S, IsFiniteSet(S), S # {}, \A e \in S : e.block \in Nat
  PROVE  \E e \in S : \A f \in S : f.block <= e.block
<1> DEFINE above(e) == {f \in S : f.block > e.block}
           N == {Cardinality(above(e)) : e \in S}
<1>1. \A e \in S : IsFiniteSet(above(e)) /\ Cardinality(above(e)) \in Nat
  <2>1. \A e \in S : above(e) \in SUBSET S
    OBVIOUS
  <2> HIDE DEF above
  <2> QED
    BY <2>1, FS_Subset, FS_CardinalityType
<1>2. PICK n \in N : \A k \in N : n <= k
  <2>1. N \in SUBSET Nat /\ N # {}
    BY <1>1
  <2> HIDE DEF N
  <2> QED
    BY <2>1, Least
<1>3. PICK e \in S : n = Cardinality(above(e))
  OBVIOUS
<1>4. ASSUME NEW f \in S, ~(f.block <= e.block) PROVE FALSE
  <2>1. f \in above(e) /\ f \notin above(f)
    BY <1>4
  <2>2. above(f) \in SUBSET above(e)
    BY <1>4
  <2>3. Cardinality(above(e)) <= Cardinality(above(f))
    BY <1>2, <1>3
  <2> HIDE DEF above
  <2>4. Cardinality(above(f)) = Cardinality(above(e))
    BY <1>1, <2>2, <2>3, FS_Subset
  <2>5. above(f) = above(e)
    BY <1>1, <2>2, <2>4, FS_Subset
  <2> QED
    BY <2>1, <2>5
<1> QED
  BY <1>4

LEMMA LastBlockFacts ==
  ASSUME NEW T \in SUBSET Chain, NEW a \in Seen(T)
  PROVE  /\ LastBlock(T, a) \in Nat \ {0}
         /\ \A t \in T : t.token = a => t.block <= LastBlock(T, a)
<1> DEFINE S == {u \in T : u.token = a}
           B == {t.block : t \in S}
<1>1. /\ S # {} /\ \A t \in S : t.block \in Nat \ {0}
      /\ IsFiniteSet(S)
  <2>1. S \in SUBSET Chain /\ IsFiniteSet(Chain)
    BY TokenAssumption
  <2>2. IsFiniteSet(S)
    BY <2>1, FS_Subset
  <2> QED
    BY <2>2, ChainFacts DEF Seen
<1>2. PICK e \in S : \A f \in S : f.block <= e.block
  <2> HIDE DEF S
  <2> QED
    BY <1>1, Highest
<1>3. \E b \in B : \A c \in B : c <= b
  BY <1>2
<1>4. LastBlock(T, a) \in B /\ \A c \in B : c <= LastBlock(T, a)
  BY <1>3 DEF LastBlock
<1> QED
  BY <1>1, <1>4

LEMMA SupplyFacts ==
  ASSUME NEW T \in SUBSET Chain
  PROVE  /\ SupplyUpdates(T) \subseteq [token : TokenAddresses, block : Nat \ {0}]
         /\ OnePerGroup(SupplyUpdates(T), {"token"})
         /\ \A r \in SupplyUpdates(T) : r.token \in Seen(T)
         /\ \A t \in T : t.token \in Countable /\ ~t.multi =>
              \E r \in SupplyUpdates(T) : r.token = t.token /\ r.block >= t.block
<1>1. Seen(T) \subseteq TokenAddresses
  BY ChainFacts DEF Seen
<1>2. \A a \in Seen(T) : LastBlock(T, a) \in Nat \ {0} /\ \A t \in T : t.token = a => t.block <= LastBlock(T, a)
  BY LastBlockFacts
<1>3. \A t \in T : t.block \in Nat /\ (~t.multi => ContractType[t.token] # "ERC1155") /\ t.token \in Seen(T)
  BY ChainFacts DEF Seen
<1>4. \A r : r \in SupplyUpdates(T) <=>
         \E a \in Seen(T) \cap Countable : /\ ContractType[a] # "ERC1155"
                                           /\ r = [token |-> a, block |-> LastBlock(T, a)]
  BY DEF SupplyUpdates
<1>5. ASSUME NEW t \in T, t.token \in Countable, ~t.multi
      PROVE  \E r \in SupplyUpdates(T) : r.token = t.token /\ r.block >= t.block
  <2> DEFINE r == [token |-> t.token, block |-> LastBlock(T, t.token)]
  <2>1. r \in SupplyUpdates(T)
    BY <1>3, <1>4, <1>5
  <2> QED
    BY <1>2, <1>3, <2>1
<1>6. OnePerGroup(SupplyUpdates(T), {"token"})
  BY <1>4 DEF OnePerGroup, SameGroup
<1>7. /\ SupplyUpdates(T) \subseteq [token : TokenAddresses, block : Nat \ {0}]
      /\ \A r \in SupplyUpdates(T) : r.token \in Seen(T)
  BY <1>1, <1>2, <1>4
<1> QED
  BY <1>5, <1>6, <1>7

LEMMA BalanceFacts ==
  ASSUME NEW T \in SUBSET Chain
  PROVE  /\ BalanceItems(T) \subseteq Balance
         /\ \A r \in BalanceItems(T) : \E t \in T : /\ r.token = t.token /\ r.address \in Parties(t)
                                                    /\ r.block = t.block /\ (t.multi => r.id = t.id)
         /\ \A t \in T : \A a \in Parties(t) :
              \E r \in BalanceItems(T) : Pair(r) = <<a, t.token>> /\ r.block = t.block
<1> DEFINE item(a, t) == [address |-> a, token |-> t.token, block |-> t.block,
                          id |-> IF t.multi THEN t.id ELSE 0]
<1>2. \A r : r \in BalanceItems(T) <=> \E t \in T : \E a \in Parties(t) : r = item(a, t)
  BY DEF BalanceItems, Parties
<1>4. \A t \in T : \A a \in Parties(t) : item(a, t) \in Balance
  BY ChainFacts DEF Balance
<1>5. BalanceItems(T) \subseteq Balance
  <2> HIDE DEF item
  <2> QED
    BY <1>2, <1>4
<1>6. ASSUME NEW t \in T, NEW a \in Parties(t)
      PROVE  \E r \in BalanceItems(T) : Pair(r) = <<a, t.token>> /\ r.block = t.block
  <2>1. Pair(item(a, t)) = <<a, t.token>> /\ item(a, t).block = t.block
    BY DEF Pair
  <2> HIDE DEF item
  <2> QED
    BY <1>2, <1>6, <2>1
<1>7. ASSUME NEW r \in BalanceItems(T)
      PROVE  \E t \in T : /\ r.token = t.token /\ r.address \in Parties(t)
                          /\ r.block = t.block /\ (t.multi => r.id = t.id)
  BY <1>2, <1>7
<1> QED
  BY <1>5, <1>6, <1>7

(* Every item of a group has a newest one.                                 *)
LEMMA NewestFacts ==
  ASSUME NEW B, NEW n \in Nat, \A r \in B : r.block \in Nat /\ r.block <= n,
         NEW keys, NEW r \in B
  PROVE  \E s \in Newest(B, keys) : SameGroup(s, r, keys) /\ s.block >= r.block
<1> DEFINE G == {s \in B : SameGroup(s, r, keys)}
           gaps == {n - s.block : s \in G}
<1>1. r \in G
  BY DEF SameGroup
<1>2. PICK g \in gaps : \A f \in gaps : g <= f
  <2>1. gaps \in SUBSET Nat /\ gaps # {}
    BY <1>1
  <2> HIDE DEF gaps
  <2> QED
    BY <2>1, Least
<1>3. PICK s \in G : g = n - s.block
  OBVIOUS
<1>4. \A f \in G : f.block <= s.block
  <2> SUFFICES ASSUME NEW f \in G PROVE f.block <= s.block
    OBVIOUS
  <2>1. n - s.block <= n - f.block
    BY <1>2, <1>3
  <2>2. f.block \in Nat /\ s.block \in Nat
    OBVIOUS
  <2> QED
    BY <2>1, <2>2
<1>5. s \in Newest(B, keys)
  BY <1>4 DEF Newest, SameGroup
<1> QED
  BY <1>1, <1>4, <1>5

LEMMA LastOfChain == \E n \in Nat : \A t \in Chain : t.block <= n
<1>1. CASE Chain = {}
  BY <1>1
<1>2. CASE Chain # {}
  <2>1. IsFiniteSet(Chain)
    BY TokenAssumption
  <2>2. \A t \in Chain : t.block \in Nat
    BY ChainFacts
  <2>3. \E e \in Chain : \A f \in Chain : f.block <= e.block
    BY <1>2, <2>1, <2>2, Highest
  <2> QED
    BY <2>2, <2>3
<1> QED
  BY <1>1, <1>2

LEMMA IdFacts ==
  ASSUME NEW T \in SUBSET Chain
  PROVE  /\ IdItems(T) \subseteq IdItem
         /\ \A r \in IdItems(T) : \E t \in T : t \in Answered(T) /\ Id(r) = Id(t) /\ r.block = t.block
         /\ \A t \in T : t \in Answered({t}) => \E r \in IdItems(T) : Id(r) = Id(t) /\ r.block = t.block
         /\ OnePerGroup(Newest(IdItems(T), {"token", "id"}), {"token", "id"})
         /\ \A r \in IdItems(T) : \E s \in Newest(IdItems(T), {"token", "id"}) :
              Id(s) = Id(r) /\ s.block >= r.block
<1> DEFINE item(t) == [token |-> t.token, id |-> t.id, block |-> t.block]
<1>1. \A r : r \in IdItems(T) <=> \E t \in T : t \in Answered(T) /\ r = item(t)
  BY DEF IdItems, Answered
<1>2. \A t \in T : item(t) \in IdItem /\ Id(item(t)) = Id(t) /\ item(t).block = t.block
  BY ChainFacts DEF IdItem, Id
<1>4. \A t \in T : t \in Answered({t}) => t \in Answered(T)
  BY DEF Answered
<1>5. IdItems(T) \subseteq IdItem
  BY <1>1, <1>2
<1>6. \A r, s \in IdItem : SameGroup(r, s, {"token", "id"}) <=> Id(r) = Id(s)
  BY DEF IdItem, Id, SameGroup
<1>7. OnePerGroup(Newest(IdItems(T), {"token", "id"}), {"token", "id"})
  <2> SUFFICES ASSUME NEW r \in Newest(IdItems(T), {"token", "id"}),
                      NEW s \in Newest(IdItems(T), {"token", "id"}),
                      SameGroup(r, s, {"token", "id"})
               PROVE  r = s
    BY DEF OnePerGroup
  <2>1. r \in IdItem /\ s \in IdItem /\ r.block <= s.block /\ s.block <= r.block
    BY <1>5 DEF Newest, SameGroup
  <2>2. r.token = s.token /\ r.id = s.id
    BY DEF SameGroup
  <2>3. r.block = s.block
    BY <2>1 DEF IdItem
  <2> QED
    BY <2>1, <2>2, <2>3 DEF IdItem
<1>8. ASSUME NEW r \in IdItems(T)
      PROVE  \E s \in Newest(IdItems(T), {"token", "id"}) : Id(s) = Id(r) /\ s.block >= r.block
  <2>1. PICK n \in Nat : \A t \in Chain : t.block <= n
    BY LastOfChain
  <2>2. \A q \in IdItems(T) : q.block \in Nat /\ q.block <= n
    <3>1. \A q \in IdItems(T) : \E t \in Chain : q.block = t.block
      BY <1>1, <1>2
    <3> QED
      BY <1>5, <2>1, <3>1 DEF IdItem
  <2>4. PICK s \in Newest(IdItems(T), {"token", "id"}) :
          SameGroup(s, r, {"token", "id"}) /\ s.block >= r.block
    BY <2>2, NewestFacts
  <2>3. s \in IdItem /\ r \in IdItem
    BY <1>5 DEF Newest
  <2> QED
    BY <1>6, <2>3, <2>4
<1> HIDE DEF item
<1> QED
  BY <1>1, <1>2, <1>4, <1>5, <1>7, <1>8
-----------------------------------------------------------------------------
(* What a step that only improves the rows leaves true.                    *)

TablesTyped ==
  /\ transfers \in [TokenTypes -> SUBSET Chain]
  /\ tokens \in [TokenAddresses -> [type : TokenTypes \cup {Unknown, Null}, block : Nat]]
  /\ balances \subseteq [address : Addresses, token : TokenAddresses, block : Nat, id : Nat]
  /\ current \in [Pairs -> [id : Nat, block : Nat]]
  /\ details \in [Ids -> [uri : BOOLEAN, readAt : Nat, block : Nat]]
  /\ changes \subseteq [token : TokenAddresses, id : Nat, block : Nat]
  /\ lost \subseteq TokenAddresses

LEMMA FreshStays ==
  ASSUME TablesTyped, TablesTyped', DetailRows, DetailRows', Improve,
         NEW i \in Ids, NEW block \in Nat \ {0}, Fresh(details[i], block)
  PROVE  Fresh(details'[i], block)
<1>1. /\ details[i] \in [uri : BOOLEAN, readAt : Nat, block : Nat]
      /\ details'[i] \in [uri : BOOLEAN, readAt : Nat, block : Nat]
  BY DEF TablesTyped
<1>2. details[i].readAt > 0 => details[i].readAt = details[i].block
  BY DEF DetailRows
<1>3. details[i] # NoDetail
  BY <1>1 DEF Fresh, NoDetail
<1>4. \/ details'[i] = details[i]
      \/ details'[i].readAt = details'[i].block /\ details'[i].block >= details[i].block
  BY <1>3 DEF Improve
<1> QED
  BY <1>1, <1>2, <1>4 DEF Fresh

LEMMA AppliedStays ==
  ASSUME TablesTyped, TablesTyped', DetailRows, DetailRows', Improve,
         NEW m \in Missions, TypedBy(m),
         NEW type \in ItemTypes, NEW r \in buff[m][type], Applied(type, r)
  PROVE  Applied(type, r)'
<1>1. \A c \in TokenTypes : type = TransferType(c) => r \in transfers'[c]
  BY DEF Applied, Improve
<1>2. type = "Token" => tokens'[r.token].type # Unknown
  <2> SUFFICES ASSUME type = "Token" PROVE tokens'[r.token].type # Unknown
    OBVIOUS
  <2>1. r.token \in TokenAddresses
    BY DEF TypedBy
  <2> QED
    BY <2>1 DEF Applied, Improve
<1>3. type = "UpdateToken" => tokens'[r.token].block >= r.block
  <2> SUFFICES ASSUME type = "UpdateToken" PROVE tokens'[r.token].block >= r.block
    OBVIOUS
  <2>1. r.token \in TokenAddresses /\ r.block \in Nat
    BY DEF TypedBy
  <2>2. tokens[r.token].block \in Nat /\ tokens'[r.token].block \in Nat
    BY <2>1 DEF TablesTyped
  <2> QED
    BY <2>1, <2>2 DEF Applied, Improve
<1>4. type = "TokenBalance" => \E s \in balances' : SameBalance(r, s)
  BY DEF Applied, Improve
<1>5. type = "CurrentTokenBalance" => current'[Pair(r)].block >= r.block
  <2> SUFFICES ASSUME type = "CurrentTokenBalance" PROVE current'[Pair(r)].block >= r.block
    OBVIOUS
  <2>1. Pair(r) \in Pairs /\ r.block \in Nat
    BY DEF TypedBy, BalanceTypes, Balance, Pair, Pairs
  <2>2. current[Pair(r)].block \in Nat /\ current'[Pair(r)].block \in Nat
    BY <2>1 DEF TablesTyped
  <2> QED
    BY <2>1, <2>2 DEF Applied, Improve
<1>6. type \in DetailTypes \cup UpdateTypes => Id(r) \in Ids /\ r.block \in Nat \ {0}
  BY DEF TypedBy, IdItem
<1>7. type \in DetailTypes => details'[Id(r)] # NoDetail
  <2> SUFFICES ASSUME type \in DetailTypes PROVE details'[Id(r)] # NoDetail
    OBVIOUS
  <2>1. details[Id(r)] # NoDetail
    BY DEF Applied
  <2>2. details[Id(r)].block # 0 /\ details[Id(r)].block \in Nat /\ details'[Id(r)].block \in Nat
    BY <1>6, <2>1 DEF DetailRows, TablesTyped
  <2> QED
    BY <1>6, <2>1, <2>2 DEF Improve, NoDetail
<1>8. type \in UpdateTypes => Fresh(details'[Id(r)], r.block)
  BY <1>6, FreshStays DEF Applied
<1>9. SameBalance(r, r)' <=> SameBalance(r, r)
  BY DEF SameBalance
<1> QED
  BY <1>1, <1>2, <1>3, <1>4, <1>5, <1>7, <1>8 DEF Applied, SameBalance

LEMMA StoredStays ==
  ASSUME TablesTyped, TablesTyped', DetailRows, DetailRows', Improve,
         NEW t \in Chain, Stored(t)
  PROVE  Stored(t)'
<1>1. /\ t.token \in TokenAddresses /\ t.block \in Nat \ {0} /\ Id(t) \in Ids
      /\ Parties(t) \subseteq Addresses /\ ContractType[t.token] \in TokenTypes
  BY ChainFacts
<1>2. t \in transfers'[ContractType[t.token]]
  BY <1>1 DEF Stored, Improve
<1>3. t.token \notin lost' => tokens'[t.token].type = ContractType[t.token]
  <2>1. ContractType[t.token] # Unknown
    BY <1>1 DEF TokenTypes, Unknown
  <2> QED
    BY <1>1, <2>1 DEF Stored, Improve
<1>4. ASSUME NEW a \in Parties(t)
      PROVE  /\ current'[<<a, t.token>>].block >= t.block
             /\ \E r \in balances' : Pair(r) = <<a, t.token>> /\ r.block = t.block
  <2>1. <<a, t.token>> \in Pairs
    BY <1>1 DEF Pairs
  <2>2. current[<<a, t.token>>].block \in Nat /\ current'[<<a, t.token>>].block \in Nat
    BY <2>1 DEF TablesTyped
  <2>3. current[<<a, t.token>>].block >= t.block
    BY DEF Stored
  <2> QED
    BY <1>1, <2>1, <2>2, <2>3 DEF Stored, Improve
<1>5. t.token \in Countable /\ ~t.multi => tokens'[t.token].block >= t.block
  <2>1. tokens[t.token].block \in Nat /\ tokens'[t.token].block \in Nat
    BY <1>1 DEF TablesTyped
  <2> QED
    BY <1>1, <2>1 DEF Stored, Improve
<1>6. ContractType[t.token] # "ERC20" /\ t \in Answered({t}) => Fresh(details'[Id(t)], t.block)
  BY <1>1, FreshStays DEF Stored
<1> QED
  BY <1>2, <1>3, <1>4, <1>5, <1>6 DEF Stored, Pair, Parties, Answered, Exists

(* The missions that do not take the step are as they were.                *)
LEMMA OthersStay ==
  ASSUME IInv, TablesTyped', Rows', Improve, NEW o \in Missions,
         synced'[o] = synced[o], stage'[o] = stage[o], buff'[o] = buff[o], cache'[o] = cache[o]
  PROVE  Local(o)'
<1>1. /\ TablesTyped /\ DetailRows /\ DetailRows' /\ Local(o)
      /\ stage[o] \in Stages
  BY DEF IInv, TypeOK, TablesTyped, Rows
<1>2. TypedBy(o)'
  BY <1>1 DEF Local, TypedBy
<1>3. GatheredBy(o)'
  <2>1. Logs(o)' = Logs(o)
    BY DEF Logs, RoundEnd
  <2> QED
    BY <1>1, <2>1 DEF Local, GatheredBy
<1>4. CommittedBy(o)'
  <2> SUFFICES ASSUME NEW type \in ItemTypes, Position(type) < Position(stage[o]),
                      NEW r \in buff[o][type]
               PROVE  Applied(type, r)'
    BY DEF CommittedBy, Position
  <2>1. Applied(type, r) /\ TypedBy(o)
    BY <1>1 DEF Local, CommittedBy
  <2> QED
    BY <1>1, <2>1, AppliedStays
<1>5. CachedBy(o)'
  <2> SUFFICES ASSUME NEW a \in TokenAddresses \ lost', cache[o][a] # Unknown
               PROVE  \/ tokens'[a].type = ContractType[a]
                      \/ Position(stage[o]) <= Position("Token") /\ \E r \in buff[o]["Token"] : r.token = a
    BY DEF CachedBy, Position
  <2>1. a \notin lost
    BY DEF Improve
  <2>2. ContractType[a] # Unknown
    BY TokenAssumption DEF TokenTypes, Unknown
  <2> QED
    BY <1>1, <2>1, <2>2 DEF Local, CachedBy, Improve
<1>6. KeptBy(o)'
  <2> SUFFICES ASSUME NEW t \in Chain, From[o] <= t.block, t.block <= synced[o]
               PROVE  Stored(t)'
    BY DEF KeptBy
  <2> QED
    BY <1>1, StoredStays DEF Local, KeptBy
<1> QED
  BY <1>2, <1>3, <1>4, <1>5, <1>6 DEF Local

LEMMA Combine ==
  ASSUME IInv, TypeOK', Shape', Rows', Improve, NEW m \in Missions, Local(m)',
         \A o \in Missions \ {m} :
           /\ synced'[o] = synced[o] /\ stage'[o] = stage[o]
           /\ buff'[o] = buff[o] /\ cache'[o] = cache[o]
  PROVE  IInv' /\ Improve
<1>1. TablesTyped'
  BY DEF TypeOK, TablesTyped
<1>2. \A o \in Missions : Local(o)'
  BY <1>1, OthersStay
<1> QED
  BY <1>2 DEF IInv
-----------------------------------------------------------------------------
(* The three ways a mission moves: a commit, a job, a new round.           *)

LEMMA Typed ==
  ASSUME IInv, NEW m \in Missions
  PROVE  /\ synced[m] \in Nat /\ stage[m] \in Stages /\ Local(m) /\ TablesTyped
         /\ DOMAIN synced = Missions /\ DOMAIN stage = Missions /\ DOMAIN buff = Missions
         /\ DOMAIN cache = Missions
BY DEF IInv, TypeOK, TablesTyped, Shape

LEMMA CommitMoves ==
  ASSUME IInv, NEW m \in Missions, NEW type \in ItemTypes, stage[m] = type, Advance(m),
         TablesTyped', Rows', Improve,
         \A r \in buff[m][type] : Applied(type, r)'
  PROVE  IInv' /\ Improve
<1> DEFINE s == After(type, buff[m])
<1>1. /\ synced[m] \in Nat /\ stage[m] \in Stages /\ Local(m) /\ TablesTyped
      /\ DOMAIN stage = Missions
      /\ stage' = [stage EXCEPT ![m] = s]
      /\ UNCHANGED <<synced, cache, buff, lost, failures, crashes>>
  BY Typed DEF Advance
<1>2. type \in Stages \ {"record", "tokens_and_transfers"}
  BY StageFacts DEF Jobs
<1>3. /\ s \in Stages \ {"tokens_and_transfers"}
      /\ Position(type) < Position(s)
      /\ \A o \in Stages : (o \in Jobs \/ buff[m][o] # {}) /\ Position(o) < Position(s)
            => Position(o) <= Position(type)
  BY <1>2, AfterFacts
<1> HIDE DEF s
<1>4. \A o \in Stages : Position(o) \in 1..16 /\ Plan[Position(o)] = o
  BY StageFacts
<1>5. stage'[m] = s
  BY <1>1
<1>6. TypeOK' /\ Shape'
  BY <1>1, <1>3 DEF IInv, TypeOK, TablesTyped, Shape
<1>7. TypedBy(m)'
  BY <1>1 DEF Local, TypedBy
<1>8. GatheredBy(m)'
  <2>1. Logs(m)' = Logs(m)
    BY <1>1 DEF Logs, RoundEnd
  <2>2. \A job \in {"token_balances", "token_id_infos"} :
          Position(s) > Position(job) => Position(type) > Position(job)
    <3> SUFFICES ASSUME NEW job \in {"token_balances", "token_id_infos"},
                        Position(s) > Position(job)
                 PROVE  Position(type) > Position(job)
      OBVIOUS
    <3>1. job \in Stages /\ job \in Jobs /\ job \notin ItemTypes
      BY StageFacts DEF Jobs
    <3>2. Position(job) <= Position(type) /\ Position(job) # Position(type)
      BY <1>2, <1>3, <1>4, <3>1
    <3> QED
      BY <1>2, <1>4, <3>1, <3>2
  <2>3. GatheredBy(m) /\ stage[m] # "tokens_and_transfers"
    BY <1>1, <1>2 DEF Local
  <2>4. s # "tokens_and_transfers"
    BY <1>3
  <2> QED
    BY <1>1, <1>5, <2>1, <2>2, <2>3, <2>4 DEF GatheredBy, Position
<1>9. CommittedBy(m)'
  <2> SUFFICES ASSUME NEW o \in ItemTypes, Position(o) < Position(s), NEW r \in buff[m][o]
               PROVE  Applied(o, r)'
    BY <1>1, <1>5 DEF CommittedBy, Position
  <2>1. o \in Stages /\ Position(o) <= Position(type)
    BY <1>3, StageFacts
  <2>2. CASE o = type
    BY <2>2
  <2>3. CASE Position(o) < Position(type)
    <3>1. Applied(o, r) /\ TypedBy(m)
      BY <1>1, <2>3 DEF Local, CommittedBy
    <3>2. DetailRows /\ DetailRows'
      BY DEF IInv, Rows
    <3> QED
      BY <1>1, <3>1, <3>2, AppliedStays
  <2> QED
    BY <1>2, <1>4, <2>1, <2>2, <2>3
<1>10. CachedBy(m)'
  <2> SUFFICES ASSUME NEW a \in TokenAddresses, a \notin lost, cache[m][a] # Unknown,
                      tokens'[a].type # ContractType[a]
               PROVE  Position(s) <= Position("Token") /\ \E r \in buff[m]["Token"] : r.token = a
    BY <1>1, <1>5 DEF CachedBy, Position
  <2>1. tokens[a].type # ContractType[a]
    <3>1. ContractType[a] # Unknown
      BY TokenAssumption DEF TokenTypes, Unknown
    <3> QED
      BY <3>1 DEF Improve
  <2>2. PICK r \in buff[m]["Token"] : r.token = a
    BY <1>1, <2>1 DEF Local, CachedBy
  <2>3. Position(type) <= Position("Token")
    BY <1>1, <2>1 DEF Local, CachedBy
  <2>4. "Token" \in Stages
    BY StageFacts
  <2>5. type # "Token"
    <3> SUFFICES ASSUME type = "Token" PROVE FALSE
      OBVIOUS
    <3>1. tokens'[a].type # Unknown
      BY <2>2 DEF Applied
    <3>2. a \notin lost'
      BY <1>1
    <3> QED
      BY <3>1, <3>2 DEF Rows, TokenRows
  <2>6. Position(type) < Position("Token")
    BY <1>2, <1>4, <2>3, <2>4, <2>5
  <2>7. ~(Position("Token") < Position(s))
    BY <1>2, <1>3, <1>4, <2>2, <2>4, <2>6
  <2> QED
    BY <1>3, <1>4, <2>2, <2>4, <2>7
<1>11. KeptBy(m)'
  <2> SUFFICES ASSUME NEW t \in Chain, From[m] <= t.block, t.block <= synced[m]
               PROVE  Stored(t)'
    BY <1>1 DEF KeptBy
  <2>1. Stored(t) /\ DetailRows /\ DetailRows'
    BY <1>1 DEF Local, KeptBy, IInv, Rows
  <2> QED
    BY <1>1, <2>1, StoredStays
<1>12. Local(m)'
  BY <1>7, <1>8, <1>9, <1>10, <1>11 DEF Local
<1> QED
  BY <1>1, <1>6, <1>12, Combine

LEMMA RowsSame ==
  ASSUME UNCHANGED tables, UNCHANGED lost, IInv
  PROVE  Rows' /\ Improve /\ TablesTyped'
<1>1. TablesTyped /\ Rows
  BY DEF IInv, TypeOK, TablesTyped
<1>2. TablesTyped'
  BY <1>1 DEF TablesTyped, tables
<1>3. Improve
  BY <1>1 DEF Improve, TablesTyped, tables
<1>4. Rows'
  BY <1>1 DEF Rows, TransferRows, TokenRows, BalanceRows, DetailRows, FirstMint, Parties,
                Answered, Exists, tables
<1> QED
  BY <1>2, <1>3, <1>4

(* A job leaves the items b in the buffer.                                 *)
Leaves(m, job, b) ==
  /\ stage[m] = job
  /\ buff' = [buff EXCEPT ![m] = b] /\ stage' = [stage EXCEPT ![m] = After(job, b)]
  /\ UNCHANGED <<synced, tables, lost, failures, crashes>>
  /\ cache' \in [Missions -> [TokenAddresses -> TokenTypes \cup {Unknown, Null}]]
  /\ \A o \in Missions \ {m} : cache'[o] = cache[o]
  /\ \A type \in ItemTypes : Position(type) < Position(job) => b[type] = buff[m][type]

LEMMA JobMoves ==
  ASSUME IInv, NEW m \in Missions, NEW job \in Jobs \ {"record"}, NEW b, Leaves(m, job, b),
         TypedBy(m)', GatheredBy(m)', CachedBy(m)'
  PROVE  IInv' /\ Improve
<1>0. /\ stage[m] = job
      /\ buff' = [buff EXCEPT ![m] = b] /\ stage' = [stage EXCEPT ![m] = After(job, b)]
      /\ UNCHANGED <<synced, tables, lost, failures, crashes>>
      /\ cache' \in [Missions -> [TokenAddresses -> TokenTypes \cup {Unknown, Null}]]
      /\ \A o \in Missions \ {m} : cache'[o] = cache[o]
      /\ \A type \in ItemTypes : Position(type) < Position(job) => b[type] = buff[m][type]
  BY DEF Leaves
<1> DEFINE s == After(job, b)
<1>1. /\ synced[m] \in Nat /\ Local(m) /\ TablesTyped
      /\ DOMAIN stage = Missions /\ DOMAIN buff = Missions
  BY Typed
<1>2. job \in Stages \ {"record"} /\ job \notin ItemTypes
  BY StageFacts
<1>3. /\ s \in Stages
      /\ \A o \in Stages : (o \in Jobs \/ b[o] # {}) /\ Position(o) < Position(s)
            => Position(o) <= Position(job)
  BY <1>2, AfterFacts
<1> HIDE DEF s
<1>4. stage'[m] = s /\ buff'[m] = b
  BY <1>0, <1>1 DEF s
<1>5. Rows' /\ Improve /\ TablesTyped'
  BY <1>0, RowsSame
<1>6. TypeOK' /\ Shape'
  BY <1>0, <1>1, <1>3, <1>5 DEF IInv, TypeOK, TablesTyped, Shape, s
<1>7. CommittedBy(m)'
  <2> SUFFICES ASSUME NEW o \in ItemTypes, Position(o) < Position(s), NEW r \in b[o]
               PROVE  Applied(o, r)'
    BY <1>4 DEF CommittedBy, Position
  <2>1. o \in Stages /\ Position(o) <= Position(job) /\ Position(o) # Position(job)
    BY <1>2, <1>3, StageFacts
  <2>2. Position(o) < Position(job)
    BY <1>2, <2>1, StageFacts
  <2>3. r \in buff[m][o] /\ Applied(o, r) /\ TypedBy(m)
    BY <1>0, <1>1, <2>2 DEF Local, CommittedBy
  <2>4. DetailRows /\ DetailRows'
    BY <1>5 DEF IInv, Rows
  <2> QED
    BY <1>1, <1>5, <2>3, <2>4, AppliedStays
<1>8. KeptBy(m)'
  <2> SUFFICES ASSUME NEW t \in Chain, From[m] <= t.block, t.block <= synced[m]
               PROVE  Stored(t)'
    BY <1>0 DEF KeptBy
  <2>1. Stored(t) /\ DetailRows /\ DetailRows'
    BY <1>1, <1>5 DEF Local, KeptBy, IInv, Rows
  <2> QED
    BY <1>1, <1>5, <2>1, StoredStays
<1>9. Local(m)'
  BY <1>7, <1>8 DEF Local
<1> QED
  BY <1>0, <1>1, <1>5, <1>6, <1>9, Combine

LEMMA NewRound ==
  ASSUME IInv, NEW m \in Missions, UNCHANGED tables,
         buff' = [buff EXCEPT ![m] = Nothing],
         stage' = [stage EXCEPT ![m] = "tokens_and_transfers"],
         synced' \in [Missions -> Nat], synced[m] <= synced'[m],
         cache' \in [Missions -> [TokenAddresses -> TokenTypes \cup {Unknown, Null}]],
         lost \subseteq lost', lost' \subseteq TokenAddresses, failures' \in Nat, crashes' \in Nat,
         \A o \in Missions \ {m} : cache'[o] = cache[o] /\ synced'[o] = synced[o],
         \A a \in TokenAddresses : cache'[m][a] \in {ContractType[a], Unknown, Null},
         CachedBy(m)', KeptBy(m)'
  PROVE  IInv' /\ Improve
<1>1. /\ synced[m] \in Nat /\ Local(m) /\ TablesTyped
      /\ DOMAIN stage = Missions /\ DOMAIN buff = Missions
  BY Typed
<1>2. "tokens_and_transfers" \in Stages
  BY StageFacts DEF Jobs
<1>3. stage'[m] = "tokens_and_transfers" /\ buff'[m] = Nothing
  BY <1>1
<1>4. TablesTyped' /\ Improve
  BY <1>1 DEF TablesTyped, Improve, tables
<1>5. Rows'
  <2>1. Rows
    BY DEF IInv
  <2>2. TransferRows' /\ BalanceRows' /\ DetailRows'
    BY <2>1 DEF Rows, TransferRows, BalanceRows, DetailRows, FirstMint, Parties,
                Answered, Exists, tables
  <2>3. TokenRows'
    BY <2>1 DEF Rows, TokenRows, tables
  <2> QED
    BY <2>2, <2>3 DEF Rows
<1>6. TypeOK' /\ Shape'
  BY <1>1, <1>2, <1>4 DEF IInv, TypeOK, TablesTyped, Shape
<1>7. TypedBy(m)'
  <2>1. \A type \in ItemTypes : Nothing[type] = {}
    BY DEF Nothing
  <2>2. /\ TransferTypes \subseteq ItemTypes /\ BalanceTypes \subseteq ItemTypes
        /\ DetailTypes \cup UpdateTypes \cup {"ERC721TokenIdChange"} \subseteq ItemTypes
        /\ {"Token", "UpdateToken", "CurrentTokenBalance"} \subseteq ItemTypes
        /\ UpdateTypes \subseteq ItemTypes
    BY StageFacts DEF BalanceTypes
  <2>3. Nothing = [type \in ItemTypes |-> Nothing[type]]
    BY DEF Nothing
  <2>4. From[m] <= synced'[m] + 1
    BY <1>1, TokenAssumption DEF Local, TypedBy
  <2> QED
    BY <1>3, <2>1, <2>2, <2>3, <2>4 DEF TypedBy, OnePerGroup
<1>8. GatheredBy(m)'
  <2>1. /\ Position("tokens_and_transfers") = 1 /\ Position("token_balances") = 7
        /\ Position("token_id_infos") = 10
    BY Positions
  <2>2. Position(stage[m])' = Position(stage'[m])
    BY DEF Position
  <2>3. /\ Position("token_balances")' = Position("token_balances")
        /\ Position("token_id_infos")' = Position("token_id_infos")
    BY DEF Position
  <2> QED
    BY <1>3, <2>1, <2>2, <2>3 DEF GatheredBy
<1>9. CommittedBy(m)'
  <2>1. \A type \in ItemTypes : Nothing[type] = {}
    BY DEF Nothing
  <2> QED
    BY <1>3, <2>1 DEF CommittedBy
<1>10. Local(m)'
  BY <1>7, <1>8, <1>9 DEF Local
<1> QED
  BY <1>1, <1>3, <1>4, <1>5, <1>6, <1>10, Combine
-----------------------------------------------------------------------------
(* The commits.                                                            *)

LEMMA KeptRows ==
  ASSUME IInv, UNCHANGED lost
  PROVE  /\ transfers' = transfers => TransferRows'
         /\ tokens' = tokens => TokenRows'
         /\ current' = current /\ balances \subseteq balances' => BalanceRows'
         /\ details' = details => DetailRows'
<1>1. TransferRows /\ TokenRows /\ BalanceRows /\ DetailRows
  BY DEF IInv, Rows
<1>2. transfers' = transfers => TransferRows'
  BY <1>1 DEF TransferRows
<1>3. tokens' = tokens => TokenRows'
  BY <1>1 DEF TokenRows
<1>4. current' = current /\ balances \subseteq balances' => BalanceRows'
  BY <1>1 DEF BalanceRows, Pair, Parties
<1>5. details' = details => DetailRows'
  BY <1>1 DEF DetailRows, FirstMint, Answered, Exists
<1> QED
  BY <1>2, <1>3, <1>4, <1>5

(* What a mission has where it commits items of a type.                    *)
LEMMA AtCommit ==
  ASSUME IInv, NEW m \in Missions, stage[m] \in ItemTypes
  PROVE  /\ TypedBy(m) /\ TablesTyped /\ Rows
         /\ synced[m] < To[m]
         /\ \A c \in TokenTypes : buff[m][TransferType(c)] = Of(Logs(m), c)
         /\ buff[m]["UpdateToken"] = SupplyUpdates(Logs(m))
         /\ \A t \in Logs(m) : cache[m][t.token] # Unknown
         /\ Logs(m) \in SUBSET Chain
         /\ \A o \in ItemTypes : Position(o) < Position(stage[m]) =>
              \A r \in buff[m][o] : Applied(o, r)
<1>1. stage[m] # "tokens_and_transfers"
  BY StageFacts DEF Jobs
<1>2. synced[m] \in Nat /\ Local(m) /\ TablesTyped
  BY Typed
<1>3. TypedBy(m) /\ GatheredBy(m) /\ CommittedBy(m)
  BY <1>2 DEF Local
<1>4. Logs(m) \in SUBSET Chain
  BY <1>2, <1>3, LogsFacts DEF TypedBy
<1> QED
  BY <1>1, <1>2, <1>3, <1>4 DEF GatheredBy, CommittedBy, IInv

LEMMA TransfersKeep ==
  ASSUME IInv, NEW m \in Missions, NEW c \in TokenTypes, CommitTransfers(m, c)
  PROVE  IInv' /\ Improve
<1> DEFINE type == TransferType(c)
<1>1. type \in ItemTypes /\ stage[m] = type
  BY StageFacts DEF TransferType, TransferTypes, TokenTypes, CommitTransfers
<1>2. /\ transfers' = [transfers EXCEPT ![c] = @ \cup buff[m][type]]
      /\ Advance(m) /\ UNCHANGED <<tokens, balances, current, details, changes, lost>>
  BY DEF CommitTransfers, Advance
<1>3. TablesTyped /\ Rows /\ buff[m][type] = Of(Logs(m), c) /\ Logs(m) \in SUBSET Chain
  BY <1>1, AtCommit
<1>4. \A d \in TokenTypes : transfers'[d] = IF d = c THEN transfers[d] \cup Of(Logs(m), c) ELSE transfers[d]
  BY <1>2, <1>3 DEF TablesTyped
<1>5. TablesTyped'
  BY <1>2, <1>3 DEF TablesTyped, Of
<1>6. Improve
  BY <1>2, <1>3, <1>4 DEF Improve, TablesTyped
<1>7. TransferRows'
  BY <1>3, <1>4 DEF Rows, TransferRows, Of
<1>8. Rows'
  BY <1>2, <1>7, KeptRows DEF Rows
<1>9. \A r \in buff[m][type] : Applied(type, r)'
  <2>1. \A d \in TokenTypes : type = TransferType(d) => d = c
    BY DEF TransferType, TokenTypes
  <2>2. type \notin {"Token", "UpdateToken"} \cup BalanceTypes \cup DetailTypes \cup UpdateTypes
    BY DEF TransferType, TokenTypes, BalanceTypes, DetailTypes, UpdateTypes
  <2> HIDE DEF type
  <2> QED
    BY <1>3, <1>4, <2>1, <2>2 DEF Applied, BalanceTypes
<1> HIDE DEF type
<1> QED
  BY <1>1, <1>2, <1>5, <1>6, <1>8, <1>9, CommitMoves

LEMMA NotATransfer ==
  ASSUME NEW type \in ItemTypes \ TransferTypes
  PROVE  \A c \in TokenTypes : type # TransferType(c)
BY DEF TransferType, TransferTypes, TokenTypes

LEMMA TokenKeeps ==
  ASSUME IInv, NEW m \in Missions, CommitToken(m)
  PROVE  IInv' /\ Improve
<1>1. "Token" \in ItemTypes \ TransferTypes /\ stage[m] = "Token"
  BY StageFacts DEF CommitToken, TransferTypes
<1>2. /\ Advance(m) /\ UNCHANGED <<transfers, balances, current, details, changes, lost>>
  BY DEF CommitToken, Advance
<1>3. TablesTyped /\ Rows /\ TypedBy(m)
  BY <1>1, AtCommit
<1> DEFINE new(a) == {r \in buff[m]["Token"] : r.token = a}
<1>4. \A a \in TokenAddresses :
        \/ tokens'[a] = tokens[a] /\ (tokens[a].type # Unknown \/ new(a) = {})
        \/ /\ tokens[a].type = Unknown
           /\ \E r \in new(a) : tokens'[a] = [type |-> r.type, block |-> r.block]
  BY DEF CommitToken
<1>5. \A a \in TokenAddresses : \A r \in new(a) :
        r.token = a /\ r.type = ContractType[a] /\ r.type \in TokenTypes /\ r.block \in Nat \ {0}
  BY <1>3 DEF TypedBy
<1>6. tokens' = [a \in TokenAddresses |-> tokens'[a]]
  BY DEF CommitToken
<1> HIDE DEF new
<1>7. \A a \in TokenAddresses :
        /\ tokens[a] \in [type : TokenTypes \cup {Unknown, Null}, block : Nat]
        /\ tokens'[a] \in [type : TokenTypes \cup {Unknown, Null}, block : Nat]
        /\ \/ tokens'[a] = tokens[a]
           \/ /\ tokens[a].type = Unknown /\ tokens'[a].type = ContractType[a]
              /\ tokens'[a].block > 0
  <2> SUFFICES ASSUME NEW a \in TokenAddresses
               PROVE
        /\ tokens[a] \in [type : TokenTypes \cup {Unknown, Null}, block : Nat]
        /\ tokens'[a] \in [type : TokenTypes \cup {Unknown, Null}, block : Nat]
        /\ \/ tokens'[a] = tokens[a]
           \/ /\ tokens[a].type = Unknown /\ tokens'[a].type = ContractType[a]
              /\ tokens'[a].block > 0
    OBVIOUS
  <2>1. tokens[a] \in [type : TokenTypes \cup {Unknown, Null}, block : Nat]
    BY <1>3 DEF TablesTyped
  <2>2. ASSUME NEW r \in new(a), tokens[a].type = Unknown,
               tokens'[a] = [type |-> r.type, block |-> r.block]
        PROVE  /\ tokens'[a] \in [type : TokenTypes \cup {Unknown, Null}, block : Nat]
               /\ tokens'[a].type = ContractType[a] /\ tokens'[a].block > 0
    <3>1. r.type = ContractType[a] /\ r.type \in TokenTypes /\ r.block \in Nat \ {0}
      BY <1>5, <2>2
    <3> QED
      BY <2>2, <3>1
  <2> QED
    BY <1>4, <2>1, <2>2
<1>8. TablesTyped'
  BY <1>2, <1>3, <1>6, <1>7 DEF TablesTyped
<1>9. TokenRows'
  <2>1. \A a \in TokenAddresses : ContractType[a] # Unknown /\ ContractType[a] # Null
    BY TokenAssumption DEF TokenTypes, Unknown, Null
  <2> QED
    BY <1>2, <1>3, <1>7, <2>1 DEF Rows, TokenRows
<1>10. Improve
  BY <1>2, <1>3, <1>7 DEF Improve, TablesTyped, Rows, TokenRows
<1>11. Rows'
  BY <1>2, <1>9, KeptRows DEF Rows
<1>12. ASSUME NEW r \in buff[m]["Token"] PROVE Applied("Token", r)'
  <2>1. r.token \in TokenAddresses /\ r \in new(r.token)
    BY <1>3 DEF TypedBy, new
  <2>2. tokens'[r.token].type # Unknown
    <3>1. ContractType[r.token] # Unknown
      BY <2>1, TokenAssumption DEF TokenTypes, Unknown
    <3>2. CASE tokens'[r.token] = tokens[r.token] /\ tokens[r.token].type # Unknown
      BY <3>2
    <3>3. ASSUME NEW q \in new(r.token), tokens'[r.token] = [type |-> q.type, block |-> q.block]
          PROVE  tokens'[r.token].type # Unknown
      <4>1. q.type = ContractType[r.token]
        BY <1>5, <2>1
      <4> QED
        BY <3>1, <3>3, <4>1
    <3> QED
      BY <1>4, <2>1, <3>2, <3>3
  <2> QED
    BY <1>1, <2>2, NotATransfer DEF Applied, DetailTypes, UpdateTypes
<1> QED
  BY <1>1, <1>2, <1>8, <1>10, <1>11, <1>12, CommitMoves

LEMMA SuppliesKeep ==
  ASSUME IInv, NEW m \in Missions, CommitUpdateToken(m)
  PROVE  IInv' /\ Improve
<1>1. "UpdateToken" \in ItemTypes \ TransferTypes /\ stage[m] = "UpdateToken"
  BY StageFacts DEF CommitUpdateToken, TransferTypes
<1>2. /\ Advance(m) /\ UNCHANGED <<transfers, balances, current, details, changes, lost>>
  BY DEF CommitUpdateToken, Advance
<1>3. /\ TablesTyped /\ Rows /\ TypedBy(m) /\ Logs(m) \in SUBSET Chain
      /\ buff[m]["UpdateToken"] = SupplyUpdates(Logs(m))
      /\ \A t \in Logs(m) : cache[m][t.token] # Unknown
  BY <1>1, AtCommit
<1> DEFINE new(a) == {r \in buff[m]["UpdateToken"] : r.token = a /\ r.block > tokens[a].block}
<1>4. \A a \in TokenAddresses :
        \/ tokens'[a] = tokens[a] /\ new(a) = {}
        \/ \E r \in new(a) : /\ tokens'[a].block = r.block
                            /\ tokens'[a] = [type |-> IF tokens[a].type = Unknown THEN Null ELSE tokens[a].type,
                                            block |-> r.block]
  BY DEF CommitUpdateToken
<1>5. \A a \in TokenAddresses : \A r \in new(a) :
        r.token = a /\ r.block \in Nat \ {0} /\ r.block > tokens[a].block
  BY <1>3 DEF TypedBy
<1>6. tokens' = [a \in TokenAddresses |-> tokens'[a]]
  BY DEF CommitUpdateToken
<1>7. \A a \in TokenAddresses \ lost : new(a) # {} => tokens[a].type # Unknown
  <2> SUFFICES ASSUME NEW a \in TokenAddresses \ lost, NEW r \in new(a)
               PROVE  tokens[a].type # Unknown
    OBVIOUS
  <2>1. a \in Seen(Logs(m))
    BY <1>3, SupplyFacts
  <2>2. cache[m][a] # Unknown
    BY <1>3, <2>1 DEF Seen
  <2>3. CachedBy(m)
    BY Typed DEF Local
  <2>4. ~(Position(stage[m]) <= Position("Token"))
    BY <1>1, Positions
  <2>5. ContractType[a] # Unknown
    BY TokenAssumption DEF TokenTypes, Unknown
  <2> QED
    BY <2>2, <2>3, <2>4, <2>5 DEF CachedBy
<1> HIDE DEF new
<1>8. \A a \in TokenAddresses :
        /\ tokens[a] \in [type : TokenTypes \cup {Unknown, Null}, block : Nat]
        /\ tokens'[a] \in [type : TokenTypes \cup {Unknown, Null}, block : Nat]
        /\ tokens'[a].block >= tokens[a].block
        /\ tokens[a].type # Unknown => tokens'[a].type = tokens[a].type
        /\ tokens[a].type = Unknown /\ a \notin lost => tokens'[a] = tokens[a]
        /\ tokens'[a] = tokens[a] \/ tokens'[a].type # Unknown
        /\ tokens[a].type = Unknown => tokens'[a].type \in {Unknown, Null}
  <2> SUFFICES ASSUME NEW a \in TokenAddresses
               PROVE
        /\ tokens[a] \in [type : TokenTypes \cup {Unknown, Null}, block : Nat]
        /\ tokens'[a] \in [type : TokenTypes \cup {Unknown, Null}, block : Nat]
        /\ tokens'[a].block >= tokens[a].block
        /\ tokens[a].type # Unknown => tokens'[a].type = tokens[a].type
        /\ tokens[a].type = Unknown /\ a \notin lost => tokens'[a] = tokens[a]
        /\ tokens'[a] = tokens[a] \/ tokens'[a].type # Unknown
        /\ tokens[a].type = Unknown => tokens'[a].type \in {Unknown, Null}
    OBVIOUS
  <2>1. tokens[a] \in [type : TokenTypes \cup {Unknown, Null}, block : Nat]
    BY <1>3 DEF TablesTyped
  <2>2. CASE tokens'[a] = tokens[a]
    BY <2>1, <2>2
  <2>3. ASSUME NEW r \in new(a),
               tokens'[a] = [type |-> IF tokens[a].type = Unknown THEN Null ELSE tokens[a].type,
                             block |-> r.block]
        PROVE  /\ tokens'[a] \in [type : TokenTypes \cup {Unknown, Null}, block : Nat]
               /\ tokens'[a].block >= tokens[a].block
               /\ tokens[a].type # Unknown => tokens'[a].type = tokens[a].type
               /\ ~(tokens[a].type = Unknown /\ a \notin lost)
               /\ tokens'[a].type # Unknown
               /\ tokens[a].type = Unknown => tokens'[a].type \in {Unknown, Null}
    <3>1. r.block \in Nat /\ r.block > tokens[a].block
      BY <1>5, <2>3
    <3>2. Unknown # Null
      BY DEF Unknown, Null
    <3> QED
      BY <1>7, <2>1, <2>3, <3>1, <3>2
  <2> QED
    BY <1>4, <2>1, <2>2, <2>3
<1>9. TablesTyped'
  BY <1>2, <1>3, <1>6, <1>8 DEF TablesTyped
<1>10. TokenRows'
  BY <1>2, <1>3, <1>8 DEF Rows, TokenRows
<1>11. Improve
  BY <1>2, <1>3, <1>8 DEF Improve, TablesTyped
<1>12. Rows'
  BY <1>2, <1>10, KeptRows DEF Rows
<1>13. ASSUME NEW r \in buff[m]["UpdateToken"] PROVE Applied("UpdateToken", r)'
  <2> DEFINE a == r.token
  <2>1. a \in TokenAddresses /\ r.block \in Nat
    BY <1>3 DEF TypedBy
  <2>2. \A q \in new(a) : q = r
    BY <1>3 DEF TypedBy, OnePerGroup, SameGroup, new
  <2>3. new(a) = {} => ~(r.block > tokens[a].block)
    BY DEF new
  <2>4. tokens[a].block \in Nat
    BY <2>1, <1>8
  <2>5. tokens'[a].block >= r.block
    <3>1. CASE new(a) = {}
      <4>1. tokens'[a] = tokens[a]
        BY <1>4, <2>1, <3>1
      <4> QED
        BY <2>1, <2>3, <2>4, <3>1, <4>1
    <3>2. CASE new(a) # {}
      <4>1. \E q \in new(a) : tokens'[a].block = q.block
        BY <1>4, <2>1, <3>2
      <4>2. tokens'[a].block = r.block
        BY <2>2, <4>1
      <4> QED
        BY <2>1, <4>2
    <3> QED
      BY <3>1, <3>2
  <2> QED
    BY <1>1, <2>5, NotATransfer DEF Applied, DetailTypes, UpdateTypes
<1> QED
  BY <1>1, <1>2, <1>9, <1>11, <1>12, <1>13, CommitMoves

LEMMA BalancesKeep ==
  ASSUME IInv, NEW m \in Missions, CommitTokenBalance(m)
  PROVE  IInv' /\ Improve
<1>1. "TokenBalance" \in ItemTypes \ TransferTypes /\ stage[m] = "TokenBalance"
  BY StageFacts DEF CommitTokenBalance, TransferTypes, BalanceTypes
<1>2. /\ Advance(m) /\ UNCHANGED <<transfers, tokens, current, details, changes, lost>>
  BY DEF CommitTokenBalance, Advance
<1>3. TablesTyped /\ TypedBy(m)
  BY <1>1, AtCommit
<1> DEFINE fresh == {r \in buff[m]["TokenBalance"] : \A s \in balances : ~SameBalance(r, s)}
<1>4. PICK new \in SUBSET fresh : /\ \A r \in fresh : \E s \in new : SameBalance(r, s)
                                 /\ balances' = balances \cup new
  BY DEF CommitTokenBalance
<1>5. TablesTyped'
  <2>1. fresh \subseteq [address : Addresses, token : TokenAddresses, block : Nat, id : Nat]
    BY <1>3 DEF TypedBy, BalanceTypes, Balance
  <2> HIDE DEF fresh
  <2> QED
    BY <1>2, <1>3, <1>4, <2>1 DEF TablesTyped
<1>6. Improve
  BY <1>2, <1>3, <1>4 DEF Improve, TablesTyped
<1>7. Rows'
  BY <1>2, <1>4, KeptRows DEF Rows
<1>8. ASSUME NEW r \in buff[m]["TokenBalance"] PROVE Applied("TokenBalance", r)'
  <2>1. \E s \in balances' : SameBalance(r, s)
    BY <1>4
  <2> QED
    BY <1>1, <2>1, NotATransfer DEF Applied, DetailTypes, UpdateTypes, SameBalance
<1> QED
  BY <1>1, <1>2, <1>5, <1>6, <1>7, <1>8, CommitMoves

LEMMA CurrentKeeps ==
  ASSUME IInv, NEW m \in Missions, CommitCurrent(m)
  PROVE  IInv' /\ Improve
<1>1. "CurrentTokenBalance" \in ItemTypes \ TransferTypes /\ stage[m] = "CurrentTokenBalance"
      /\ "TokenBalance" \in ItemTypes
  BY StageFacts DEF CommitCurrent, TransferTypes, BalanceTypes
<1>2. /\ Advance(m) /\ UNCHANGED <<transfers, tokens, balances, details, changes, lost>>
  BY DEF CommitCurrent, Advance
<1>3. /\ TablesTyped /\ Rows /\ TypedBy(m) /\ Logs(m) \in SUBSET Chain
      /\ \A r \in buff[m]["TokenBalance"] : Applied("TokenBalance", r)
  BY <1>1, AtCommit, Positions
<1>4. /\ buff[m]["TokenBalance"] = BalanceItems(Logs(m))
      /\ buff[m]["CurrentTokenBalance"] \subseteq BalanceItems(Logs(m))
  BY <1>1, Typed, Positions DEF Local, GatheredBy
<1> DEFINE new(p) == {r \in buff[m]["CurrentTokenBalance"] : Pair(r) = p /\ r.block > current[p].block}
<1>5. \A p \in Pairs :
        \/ current'[p] = current[p] /\ new(p) = {}
        \/ \E r \in new(p) : current'[p] = [id |-> r.id, block |-> r.block]
  BY DEF CommitCurrent
<1>6. current' = [p \in Pairs |-> current'[p]]
  BY DEF CommitCurrent
<1>7. \A p \in Pairs : \A r \in new(p) :
        /\ r \in buff[m]["CurrentTokenBalance"] /\ Pair(r) = p /\ r.block > current[p].block
        /\ r.block \in Nat /\ r.id \in Nat
  BY <1>3 DEF TypedBy, BalanceTypes, Balance
<1> HIDE DEF new
<1>8. \A p \in Pairs : /\ current[p] \in [id : Nat, block : Nat]
                       /\ current'[p] \in [id : Nat, block : Nat]
                       /\ current'[p].block >= current[p].block
  <2> SUFFICES ASSUME NEW p \in Pairs
               PROVE  /\ current[p] \in [id : Nat, block : Nat]
                      /\ current'[p] \in [id : Nat, block : Nat]
                      /\ current'[p].block >= current[p].block
    OBVIOUS
  <2>1. current[p] \in [id : Nat, block : Nat]
    BY <1>3 DEF TablesTyped
  <2>2. ASSUME NEW r \in new(p), current'[p] = [id |-> r.id, block |-> r.block]
        PROVE  current'[p] \in [id : Nat, block : Nat] /\ current'[p].block >= current[p].block
    BY <1>7, <2>1, <2>2
  <2>3. CASE current'[p] = current[p]
    BY <2>1, <2>3
  <2>4. CASE current'[p] # current[p]
    <3>1. PICK r \in new(p) : current'[p] = [id |-> r.id, block |-> r.block]
      BY <1>5, <2>4
    <3> QED
      BY <2>1, <2>2, <3>1
  <2> QED
    BY <2>3, <2>4
<1>9. TablesTyped'
  BY <1>2, <1>3, <1>6, <1>8 DEF TablesTyped
<1>10. Improve
  BY <1>2, <1>3, <1>8 DEF Improve, TablesTyped
<1>11. BalanceRows'
  <2> SUFFICES ASSUME NEW p \in Pairs, current'[p].block > 0
               PROVE  /\ \E r \in balances' : Pair(r) = p /\ r.block = current'[p].block
                      /\ \E t \in Chain : /\ p[2] = t.token /\ p[1] \in Parties(t)
                                          /\ t.block = current'[p].block
                                          /\ t.multi => t.id = current'[p].id
    BY DEF BalanceRows, Parties, Pair
  <2>1. CASE current'[p] = current[p]
    BY <1>2, <1>3, <2>1 DEF Rows, BalanceRows
  <2>2. ASSUME NEW r \in new(p), current'[p] = [id |-> r.id, block |-> r.block]
        PROVE  /\ \E s \in balances' : Pair(s) = p /\ s.block = current'[p].block
               /\ \E t \in Chain : /\ p[2] = t.token /\ p[1] \in Parties(t)
                                   /\ t.block = current'[p].block
                                   /\ t.multi => t.id = current'[p].id
    <3>1. r \in BalanceItems(Logs(m)) /\ Pair(r) = p
      BY <1>4, <1>7
    <3>2. PICK t \in Logs(m) : /\ r.token = t.token /\ r.address \in Parties(t)
                              /\ r.block = t.block /\ (t.multi => r.id = t.id)
      BY <1>3, <3>1, BalanceFacts
    <3>3. \E s \in balances : SameBalance(r, s)
      BY <1>3, <1>4, <3>1 DEF Applied
    <3>4. \E s \in balances' : Pair(s) = p /\ s.block = current'[p].block
      BY <1>2, <2>2, <3>1, <3>3 DEF SameBalance
    <3>5. p[1] = r.address /\ p[2] = r.token
      BY <3>1 DEF Pair
    <3> QED
      BY <1>3, <2>2, <3>2, <3>4, <3>5
  <2> QED
    BY <1>5, <2>1, <2>2
<1>12. Rows'
  BY <1>2, <1>11, KeptRows DEF Rows
<1>13. ASSUME NEW r \in buff[m]["CurrentTokenBalance"] PROVE Applied("CurrentTokenBalance", r)'
  <2> DEFINE p == Pair(r)
  <2>1. p \in Pairs /\ r.block \in Nat
    BY <1>3 DEF TypedBy, BalanceTypes, Balance, Pair, Pairs
  <2>2. \A q \in new(p) : q = r
    <3> SUFFICES ASSUME NEW q \in new(p) PROVE q = r
      OBVIOUS
    <3>1. q \in buff[m]["CurrentTokenBalance"] /\ Pair(q) = Pair(r)
      BY <1>7, <2>1
    <3>2. q.address = r.address /\ q.token = r.token
      BY <3>1 DEF Pair
    <3>3. SameGroup(q, r, {"address", "token"})
      <4>1. \A k \in {"address", "token"} : q[k] = r[k]
        BY <3>2
      <4> QED
        BY <4>1 DEF SameGroup
    <3> QED
      BY <1>3, <3>1, <3>3 DEF TypedBy, OnePerGroup
  <2>3. new(p) = {} => ~(r.block > current[p].block)
    BY DEF new
  <2>4. current[p].block \in Nat
    BY <1>8, <2>1
  <2> HIDE DEF p
  <2>5. CASE new(p) = {}
    <3>1. current'[p] = current[p]
      BY <1>5, <2>1, <2>5
    <3>2. current'[p].block >= r.block
      BY <2>1, <2>3, <2>4, <2>5, <3>1
    <3> QED
      BY <1>1, <3>2, NotATransfer DEF Applied, DetailTypes, UpdateTypes, p, Pair
  <2>6. CASE new(p) # {}
    <3>1. current'[p].block = r.block
      <4>1. PICK q \in new(p) : current'[p] = [id |-> q.id, block |-> q.block]
        BY <1>5, <2>1, <2>6
      <4> QED
        BY <2>2, <4>1
    <3>2. current'[p].block >= r.block
      BY <2>1, <3>1
    <3> QED
      BY <1>1, <3>2, NotATransfer DEF Applied, DetailTypes, UpdateTypes, p, Pair
  <2> QED
    BY <2>5, <2>6
<1> QED
  BY <1>1, <1>2, <1>9, <1>10, <1>12, <1>13, CommitMoves

LEMMA ChangesKeep ==
  ASSUME IInv, NEW m \in Missions, CommitChanges(m)
  PROVE  IInv' /\ Improve
<1> DEFINE type == "ERC721TokenIdChange"
<1>1. type \in ItemTypes \ TransferTypes /\ stage[m] = type
  BY StageFacts DEF CommitChanges, TransferTypes
<1>2. /\ changes' = changes \cup buff[m][type]
      /\ Advance(m) /\ UNCHANGED <<transfers, tokens, balances, current, details, lost>>
  BY DEF CommitChanges, Advance
<1>3. TablesTyped /\ TypedBy(m)
  BY <1>1, AtCommit
<1>4. TablesTyped'
  <2>1. buff[m][type] \subseteq [token : TokenAddresses, id : Nat, block : Nat]
    BY <1>3 DEF TypedBy, IdItem
  <2> QED
    BY <1>2, <1>3, <2>1 DEF TablesTyped
<1>5. Improve
  BY <1>2, <1>3 DEF Improve, TablesTyped
<1>6. Rows'
  BY <1>2, KeptRows DEF Rows
<1>7. \A r \in buff[m][type] : Applied(type, r)'
  BY <1>1, NotATransfer DEF Applied, DetailTypes, UpdateTypes
<1> HIDE DEF type
<1> QED
  BY <1>1, <1>2, <1>4, <1>5, <1>6, <1>7, CommitMoves

LEMMA DetailsKeep ==
  ASSUME IInv, NEW m \in Missions, NEW type \in DetailTypes, CommitDetail(m, type)
  PROVE  IInv' /\ Improve
<1>1. /\ type \in ItemTypes \ TransferTypes /\ stage[m] = type
      /\ type \notin {"Token", "UpdateToken"} \cup BalanceTypes \cup UpdateTypes
  BY StageFacts DEF CommitDetail, TransferTypes, DetailTypes, UpdateTypes, BalanceTypes
<1>2. /\ Advance(m) /\ UNCHANGED <<transfers, tokens, balances, current, changes, lost>>
  BY DEF CommitDetail, Advance
<1>3. TablesTyped /\ Rows /\ TypedBy(m)
  BY <1>1, AtCommit
<1>4. PICK first \in SUBSET buff[m][type] :
        /\ {Id(r) : r \in first} = {Id(r) : r \in buff[m][type]}
        /\ details' = [i \in Ids |->
             LET new == {r \in first : Id(r) = i} IN
             IF details[i] = NoDetail /\ new # {}
             THEN [uri |-> TRUE, readAt |-> 0, block |-> (CHOOSE r \in new : TRUE).block]
             ELSE details[i]]
  BY DEF CommitDetail
<1> DEFINE new(i) == {r \in first : Id(r) = i}
<1>5. \A i \in Ids :
        \/ details'[i] = details[i] /\ (details[i] # NoDetail \/ new(i) = {})
        \/ /\ details[i] = NoDetail
           /\ \E r \in new(i) : details'[i] = [uri |-> TRUE, readAt |-> 0, block |-> r.block]
  BY <1>4
<1>6. \A i \in Ids : \A r \in new(i) : r.block \in Nat \ {0}
  BY <1>3 DEF TypedBy, IdItem
<1>7. details' = [i \in Ids |-> details'[i]]
  BY <1>4
<1>8. \A r \in buff[m][type] : Id(r) \in Ids /\ new(Id(r)) # {}
  <2> SUFFICES ASSUME NEW r \in buff[m][type] PROVE Id(r) \in Ids /\ new(Id(r)) # {}
    OBVIOUS
  <2>1. Id(r) \in Ids
    BY <1>3 DEF TypedBy, IdItem
  <2>2. Id(r) \in {Id(q) : q \in first}
    BY <1>4
  <2> QED
    BY <2>1, <2>2
<1> HIDE DEF new
<1>9. \A i \in Ids :
        /\ details[i] \in [uri : BOOLEAN, readAt : Nat, block : Nat]
        /\ \/ details'[i] = details[i]
           \/ /\ details[i] = NoDetail /\ details'[i].uri = TRUE /\ details'[i].readAt = 0
              /\ details'[i].block \in Nat \ {0}
              /\ details'[i] \in [uri : BOOLEAN, readAt : Nat, block : Nat]
  <2> SUFFICES ASSUME NEW i \in Ids, ~(details'[i] = details[i])
               PROVE  /\ details[i] = NoDetail /\ details'[i].uri = TRUE /\ details'[i].readAt = 0
                      /\ details'[i].block \in Nat \ {0}
                      /\ details'[i] \in [uri : BOOLEAN, readAt : Nat, block : Nat]
    BY <1>3 DEF TablesTyped
  <2>1. details[i] = NoDetail
    BY <1>5
  <2>2. PICK r \in new(i) : details'[i] = [uri |-> TRUE, readAt |-> 0, block |-> r.block]
    BY <1>5
  <2>3. r.block \in Nat \ {0}
    BY <1>6
  <2> QED
    BY <2>1, <2>2, <2>3
<1>10. TablesTyped'
  BY <1>2, <1>3, <1>7, <1>9 DEF TablesTyped
<1>11. Improve
  BY <1>2, <1>3, <1>9 DEF Improve, TablesTyped
<1>12. DetailRows'
  <2>1. DetailRows
    BY <1>3 DEF Rows
  <2>2. \A t \in Chain : FirstMint(t)' = FirstMint(t) /\ Id(t) \in Ids
    BY ChainFacts DEF FirstMint, Answered, Exists
  <2>3. \A i \in Ids : /\ details'[i].readAt > 0 => details'[i].readAt = details'[i].block
                       /\ details'[i].block = 0 => details'[i] = NoDetail
                       /\ details'[i].readAt = 0 /\ details'[i] # NoDetail => details'[i].uri
    BY <1>9, <2>1 DEF DetailRows
  <2>4. \A t \in Chain : FirstMint(t) /\ details'[Id(t)] # NoDetail => details'[Id(t)].uri
    BY <1>9, <2>1, <2>2 DEF DetailRows
  <2> QED
    BY <2>2, <2>3, <2>4 DEF DetailRows
<1>13. Rows'
  BY <1>2, <1>12, KeptRows DEF Rows
<1>14. ASSUME NEW r \in buff[m][type] PROVE Applied(type, r)'
  <2>1. details'[Id(r)] # NoDetail
    <3>1. details'[Id(r)] = details[Id(r)] => details[Id(r)] # NoDetail
      <4> SUFFICES ASSUME details'[Id(r)] = details[Id(r)], details[Id(r)] = NoDetail PROVE FALSE
        OBVIOUS
      <4>1. PICK q \in new(Id(r)) : details'[Id(r)] = [uri |-> TRUE, readAt |-> 0, block |-> q.block]
        BY <1>5, <1>8
      <4>2. details'[Id(r)].uri = TRUE /\ NoDetail.uri = FALSE
        BY <4>1 DEF NoDetail
      <4> QED
        BY <4>2
    <3>2. NoDetail.uri = FALSE
      BY DEF NoDetail
    <3> QED
      BY <1>8, <1>9, <3>1, <3>2
  <2> QED
    BY <1>1, <2>1, NotATransfer DEF Applied, BalanceTypes
<1> QED
  BY <1>1, <1>2, <1>10, <1>11, <1>13, <1>14, CommitMoves

(* An update never makes the row of an id whose first mint is to be in it. *)
LEMMA MintComesFirst ==
  ASSUME IInv, NEW m \in Missions, NEW type \in UpdateTypes, stage[m] = type,
         NEW r \in buff[m][type], NEW t \in Chain, FirstMint(t), Id(t) = Id(r)
  PROVE  details[Id(t)] # NoDetail
<1> DEFINE c == IF type = "UpdateERC721TokenIdDetail" THEN "ERC721" ELSE "ERC1155"
           mints == IF c = "ERC721" THEN "ERC721TokenIdDetail" ELSE "ERC1155TokenIdDetail"
           T == Logs(m)
<1>1. /\ type \in ItemTypes /\ mints \in ItemTypes /\ mints \in DetailTypes
      /\ Position(mints) < Position(type) /\ Position(type) > Position("token_id_infos")
  BY StageFacts, Positions DEF UpdateTypes, DetailTypes
<1>2. /\ synced[m] \in Nat /\ Local(m) /\ TablesTyped /\ T \in SUBSET Chain
      /\ \A q \in buff[m][mints] : Applied(mints, q)
  BY <1>1, Typed, AtCommit
<1>3. /\ buff[m][type] = Newest(IdItems(Of(T, c)), {"token", "id"})
      /\ buff[m][mints] = IdItems(Minted(Of(T, c)))
  BY <1>1, <1>2 DEF Local, GatheredBy, IdsIn, UpdateTypes
<1>4. Of(T, c) \in SUBSET Chain /\ Minted(Of(T, c)) \in SUBSET Chain
  BY <1>2 DEF Of, Minted
<1>5. PICK u \in Of(T, c) : Id(u) = Id(t)
  <2>1. r \in IdItems(Of(T, c))
    BY <1>3 DEF Newest
  <2> HIDE DEF T, c
  <2> QED
    BY <1>4, <2>1, IdFacts
<1>6. /\ u \in T /\ u \in Chain /\ From[m] <= u.block /\ u.block <= To[m]
      /\ synced[m] < u.block /\ u.block <= RoundEnd(m) /\ RoundEnd(m) \in Nat
      /\ \A v \in Chain : v \in T <=> synced[m] < v.block /\ v.block <= RoundEnd(m)
  BY <1>2, <1>5, LogsFacts DEF Of, Local, TypedBy
<1>7. /\ t.from = ZeroAddress /\ t \in Answered({t}) /\ ContractType[t.token] # "ERC20"
      /\ t.block <= u.block /\ From[m] <= t.block
  BY <1>5, <1>6 DEF FirstMint
<1>8. t.block \in Nat \ {0} /\ u.block \in Nat
  BY <1>6, ChainFacts
<1>9. CASE t.block <= synced[m]
  <2>1. Fresh(details[Id(t)], t.block)
    BY <1>2, <1>7, <1>9 DEF Local, KeptBy, Stored
  <2> QED
    BY <1>8, <2>1 DEF Fresh, NoDetail
<1>10. CASE synced[m] < t.block
  <2>1. t \in T
    BY <1>6, <1>7, <1>8, <1>10
  <2>2. t.token = u.token
    BY <1>5, <1>6, ChainFacts
  <2>3. t \in Minted(Of(T, c))
    BY <1>5, <1>7, <2>1, <2>2 DEF Of, Minted
  <2>4. PICK q \in IdItems(Minted(Of(T, c))) : Id(q) = Id(t)
    <3> HIDE DEF T, c
    <3> QED
      BY <1>4, <1>7, <2>3, IdFacts
  <2>5. Applied(mints, q)
    BY <1>2, <1>3, <2>4
  <2> HIDE DEF mints
  <2> QED
    BY <1>1, <2>4, <2>5 DEF Applied
<1> QED
  BY <1>2, <1>8, <1>9, <1>10

LEMMA UpdatesKeep ==
  ASSUME IInv, NEW m \in Missions, NEW type \in UpdateTypes, CommitUpdateDetail(m, type)
  PROVE  IInv' /\ Improve
<1>1. /\ type \in ItemTypes \ TransferTypes /\ stage[m] = type
      /\ type \notin {"Token", "UpdateToken"} \cup BalanceTypes \cup DetailTypes
  BY StageFacts DEF CommitUpdateDetail, TransferTypes, DetailTypes, UpdateTypes, BalanceTypes
<1>2. /\ Advance(m) /\ UNCHANGED <<transfers, tokens, balances, current, changes, lost>>
  BY DEF CommitUpdateDetail, Advance
<1>3. TablesTyped /\ Rows /\ TypedBy(m)
  BY <1>1, AtCommit
<1> DEFINE new(i) == {r \in buff[m][type] : Id(r) = i /\ r.block >= details[i].block}
<1>4. details' = [i \in Ids |->
         IF new(i) = {} THEN details[i]
         ELSE LET r == CHOOSE r \in new(i) : TRUE
              IN  [details[i] EXCEPT !.readAt = r.block, !.block = r.block]]
  BY DEF CommitUpdateDetail
<1>5. \A i \in Ids :
        \/ details'[i] = details[i] /\ new(i) = {}
        \/ \E r \in new(i) : details'[i] = [details[i] EXCEPT !.readAt = r.block, !.block = r.block]
  BY <1>4
<1>6. details' = [i \in Ids |-> details'[i]]
  BY <1>4
<1>7. \A i \in Ids : \A r \in new(i) :
        r \in buff[m][type] /\ Id(r) = i /\ r.block \in Nat \ {0} /\ r.block >= details[i].block
  BY <1>3 DEF TypedBy, IdItem
<1>8. \A r \in buff[m][type] : Id(r) \in Ids /\ r.block \in Nat \ {0}
                             /\ (new(Id(r)) = {} => ~(r.block >= details[Id(r)].block))
  BY <1>3 DEF TypedBy, IdItem
<1> HIDE DEF new
<1>9. ASSUME NEW i \in Ids
      PROVE  /\ details[i] \in [uri : BOOLEAN, readAt : Nat, block : Nat]
             /\ details'[i] \in [uri : BOOLEAN, readAt : Nat, block : Nat]
             /\ \/ details'[i] = details[i]
                \/ \E r \in new(i) : /\ details'[i].readAt = r.block /\ details'[i].block = r.block
                                    /\ details'[i].uri = details[i].uri
  <2>1. details[i] \in [uri : BOOLEAN, readAt : Nat, block : Nat]
    BY <1>3 DEF TablesTyped
  <2>2. CASE details'[i] = details[i]
    BY <2>1, <2>2
  <2>3. CASE details'[i] # details[i]
    <3>1. PICK r \in new(i) : details'[i] = [details[i] EXCEPT !.readAt = r.block, !.block = r.block]
      BY <1>5, <2>3
    <3>2. r.block \in Nat
      BY <1>7
    <3> QED
      BY <2>1, <3>1, <3>2
  <2> QED
    BY <2>2, <2>3
<1>10. TablesTyped'
  BY <1>2, <1>3, <1>6, <1>9 DEF TablesTyped
<1>11. Improve
  <2>1. \A i \in Ids : \/ details'[i] = details[i]
                       \/ /\ details'[i].readAt = details'[i].block
                          /\ details'[i].block >= details[i].block
                          /\ details'[i].uri = details[i].uri
    BY <1>7, <1>9
  <2> QED
    BY <1>2, <1>3, <2>1 DEF Improve, TablesTyped
<1>12. DetailRows'
  <2>1. DetailRows
    BY <1>3 DEF Rows
  <2>2. \A t \in Chain : FirstMint(t)' = FirstMint(t) /\ Id(t) \in Ids
    BY ChainFacts DEF FirstMint, Answered, Exists
  <2>3. ASSUME NEW i \in Ids
        PROVE  /\ details'[i].readAt > 0 => details'[i].readAt = details'[i].block
               /\ details'[i].block = 0 => details'[i] = NoDetail
               /\ details'[i].readAt = 0 /\ details'[i] # NoDetail => details'[i].uri
    <3>1. CASE details'[i] = details[i]
      BY <2>1, <3>1 DEF DetailRows
    <3>2. CASE \E r \in new(i) : details'[i].readAt = r.block /\ details'[i].block = r.block
      BY <1>7, <3>2
    <3> QED
      BY <1>9, <3>1, <3>2
  <2>4. ASSUME NEW t \in Chain, FirstMint(t), details'[Id(t)] # NoDetail
        PROVE  details'[Id(t)].uri
    <3>1. Id(t) \in Ids
      BY <2>2
    <3>2. details[Id(t)] # NoDetail
      <4>1. CASE details'[Id(t)] = details[Id(t)]
        BY <2>4, <4>1
      <4>2. CASE \E r \in new(Id(t)) : TRUE
        <5>1. PICK r \in new(Id(t)) : TRUE
          BY <4>2
        <5>2. r \in buff[m][type] /\ Id(t) = Id(r)
          BY <1>7, <3>1
        <5> QED
          BY <1>1, <2>4, <5>2, MintComesFirst
      <4> QED
        BY <1>9, <3>1, <4>1, <4>2
    <3>3. details[Id(t)].uri
      BY <2>1, <2>4, <3>2 DEF DetailRows
    <3>4. details'[Id(t)].uri = details[Id(t)].uri
      BY <1>9, <3>1
    <3> QED
      BY <3>3, <3>4
  <2>5. \A t \in Chain : FirstMint(t) /\ details'[Id(t)] # NoDetail => details'[Id(t)].uri
    BY <2>4
  <2> QED
    BY <2>2, <2>3, <2>5 DEF DetailRows
<1>13. Rows'
  BY <1>2, <1>12, KeptRows DEF Rows
<1>14. ASSUME NEW r \in buff[m][type] PROVE Applied(type, r)'
  <2> DEFINE i == Id(r)
  <2>1. i \in Ids /\ r.block \in Nat \ {0} /\ (new(i) = {} => ~(r.block >= details[i].block))
    BY <1>8
  <2>2. \A q \in new(i) : q = r
    <3> SUFFICES ASSUME NEW q \in new(i) PROVE q = r
      OBVIOUS
    <3>1. q \in buff[m][type] /\ Id(q) = Id(r)
      BY <1>7, <2>1
    <3>2. q.token = r.token /\ q.id = r.id
      BY <3>1 DEF Id
    <3>3. SameGroup(q, r, {"token", "id"})
      <4>1. \A k \in {"token", "id"} : q[k] = r[k]
        BY <3>2
      <4> QED
        BY <4>1 DEF SameGroup
    <3> QED
      BY <1>3, <3>1, <3>3 DEF TypedBy, OnePerGroup
  <2> HIDE DEF i
  <2>3. Fresh(details'[i], r.block)
    <3>1. CASE new(i) = {}
      <4>1. details'[i] = details[i] /\ details[i] \in [uri : BOOLEAN, readAt : Nat, block : Nat]
        BY <1>5, <1>9, <2>1, <3>1
      <4>2. details[i].block > r.block
        BY <2>1, <3>1, <4>1
      <4>3. details[i] # NoDetail
        BY <2>1, <4>2 DEF NoDetail
      <4>4. details[i].readAt = 0 => details[i].uri
        BY <1>3, <2>1, <4>3 DEF Rows, DetailRows
      <4>5. details[i].readAt > 0 => details[i].readAt = details[i].block
        BY <1>3, <2>1 DEF Rows, DetailRows
      <4> QED
        BY <2>1, <4>1, <4>2, <4>4, <4>5 DEF Fresh
    <3>2. CASE new(i) # {}
      <4>1. PICK q \in new(i) : details'[i] = [details[i] EXCEPT !.readAt = q.block, !.block = q.block]
        BY <1>5, <2>1, <3>2
      <4>2. details[i] \in [uri : BOOLEAN, readAt : Nat, block : Nat]
        BY <1>9, <2>1
      <4>3. details'[i].readAt = r.block
        BY <2>2, <4>1, <4>2
      <4> QED
        BY <2>1, <4>3 DEF Fresh
    <3> QED
      BY <3>1, <3>2
  <2> QED
    BY <1>1, <2>3, NotATransfer DEF Applied, BalanceTypes, i, Id
<1> QED
  BY <1>1, <1>2, <1>10, <1>11, <1>13, <1>14, CommitMoves

LEMMA CommitKeeps ==
  ASSUME IInv, NEW m \in Missions, Commit(m)
  PROVE  IInv' /\ Improve
BY TransfersKeep, TokenKeeps, SuppliesKeep, BalancesKeep, CurrentKeeps, ChangesKeep, DetailsKeep,
   UpdatesKeep DEF Commit, DetailTypes, UpdateTypes
-----------------------------------------------------------------------------
(* The jobs.                                                               *)

LEMMA NextJob ==
  ASSUME NEW job \in Jobs \ {"record"}, NEW b
  PROVE  LET s == After(job, b) IN
         /\ s # "tokens_and_transfers" /\ Position(s) \in 1..16
         /\ job = "tokens_and_transfers" => Position(s) <= 7
         /\ job = "token_balances" => Position(s) <= 10 /\ Position(s) > 7
         /\ job = "token_id_infos" => Position(s) > 10
         /\ job = "tokens_and_transfers" /\ b["Token"] # {} => Position(s) <= 5
<1> DEFINE s == After(job, b)
<1>1. job \in Stages \ {"record"} /\ {"token_balances", "token_id_infos"} \subseteq Jobs
      /\ "Token" \in Stages /\ Jobs \subseteq Stages
  BY StageFacts DEF Jobs
<1>2. /\ s \in Stages \ {"tokens_and_transfers"} /\ Position(job) < Position(s)
      /\ \A o \in Stages : (o \in Jobs \/ b[o] # {}) /\ Position(o) < Position(s)
            => Position(o) <= Position(job)
  BY <1>1, AfterFacts
<1> HIDE DEF s
<1>3. Position(s) \in 1..16
  BY <1>2, StageFacts
<1>4. /\ Position("tokens_and_transfers") = 1 /\ Position("Token") = 5
      /\ Position("token_balances") = 7 /\ Position("token_id_infos") = 10
  BY Positions
<1>5. /\ 7 < Position(s) => 7 <= Position(job)
      /\ 10 < Position(s) => 10 <= Position(job)
      /\ b["Token"] # {} /\ 5 < Position(s) => 5 <= Position(job)
  BY <1>1, <1>2, <1>4
<1>6. /\ s # "tokens_and_transfers" /\ Position(s) \in 1..16
      /\ job = "tokens_and_transfers" => Position(s) <= 7
      /\ job = "token_balances" => Position(s) <= 10 /\ Position(s) > 7
      /\ job = "token_id_infos" => Position(s) > 10
      /\ job = "tokens_and_transfers" /\ b["Token"] # {} => Position(s) <= 5
  BY <1>2, <1>3, <1>4, <1>5
<1> QED
  BY <1>6 DEF s

(* A transfer that gets a type gets that of its contract.                  *)
LEMMA SpecificTypes ==
  ASSUME NEW t \in Chain, NEW known, known[t.token] \in {ContractType[t.token], Unknown, Null},
         SpecificType(t, known) \in TokenTypes
  PROVE  SpecificType(t, known) = ContractType[t.token]
<1>1. t.multi <=> ContractType[t.token] = "ERC1155"
  BY ChainFacts
<1>2. Unknown \notin TokenTypes /\ Null \notin TokenTypes /\ Unknown # "ERC1155" /\ Null # "ERC1155"
  BY DEF TokenTypes, Unknown, Null
<1>3. CASE t.multi
  BY <1>1, <1>3 DEF SpecificType
<1>4. CASE ~t.multi
  BY <1>1, <1>2, <1>4 DEF SpecificType
<1> QED
  BY <1>3, <1>4

LEMMA TransfersCollected ==
  ASSUME IInv, NEW m \in Missions, CollectTransfers(m)
  PROVE  IInv' /\ Improve
<1> DEFINE T == Logs(m)
           known == Known(m, T)
           b == [Nothing EXCEPT
                   !["ERC20TokenTransfer"]   = TransferItems(T, known, "ERC20"),
                   !["ERC721TokenTransfer"]  = TransferItems(T, known, "ERC721"),
                   !["ERC1155TokenTransfer"] = TransferItems(T, known, "ERC1155"),
                   !["Token"]       = NewTokens(m, T),
                   !["UpdateToken"] = SupplyUpdates(T)]
           job == "tokens_and_transfers"
           s == After(job, b)
<1>1. /\ stage[m] = job /\ synced[m] < To[m]
      /\ \A t \in T : SpecificType(t, known) \in TokenTypes
      /\ cache' = [cache EXCEPT ![m] = known]
      /\ buff' = [buff EXCEPT ![m] = b]
      /\ stage' = [stage EXCEPT ![m] = s]
      /\ UNCHANGED <<synced, tables, lost, failures, crashes>>
  BY DEF CollectTransfers
<1>2. /\ synced[m] \in Nat /\ Local(m) /\ TablesTyped
      /\ DOMAIN stage = Missions /\ DOMAIN buff = Missions /\ DOMAIN cache = Missions
      /\ T \in SUBSET Chain /\ Logs(m)' = T
  BY <1>1, Typed, LogsFacts DEF Local, TypedBy, Logs, RoundEnd
<1>3. \A a \in TokenAddresses : cache[m][a] \in {ContractType[a], Unknown, Null}
                               /\ ContractType[a] \in TokenTypes
  BY <1>2, TokenAssumption DEF Local, TypedBy
<1>4. /\ known = [a \in TokenAddresses |-> known[a]]
      /\ \A a \in TokenAddresses : known[a] \in {ContractType[a], Unknown, Null}
      /\ \A a \in TokenAddresses : known[a] # Unknown => cache[m][a] # Unknown \/ a \in Seen(T)
      /\ \A t \in T : known[t.token] # Unknown
  <2>1. \A a \in TokenAddresses :
          known[a] = IF a \in Seen(T) /\ cache[m][a] = Unknown THEN ContractType[a] ELSE cache[m][a]
    BY DEF Known
  <2>2. known = [a \in TokenAddresses |-> known[a]]
    BY DEF Known
  <2> HIDE DEF known, T
  <2>3. Unknown \notin TokenTypes
    BY DEF TokenTypes, Unknown
  <2>4. \A t \in T : t.token \in TokenAddresses /\ t.token \in Seen(T)
    BY <1>2, ChainFacts DEF Seen
  <2> QED
    BY <1>3, <2>1, <2>2, <2>3, <2>4
<1> HIDE DEF known
<1>5. \A c \in TokenTypes : TransferItems(T, known, c) = Of(T, c)
  <2>1. \A t \in T : SpecificType(t, known) = ContractType[t.token]
    <3> SUFFICES ASSUME NEW t \in T PROVE SpecificType(t, known) = ContractType[t.token]
      OBVIOUS
    <3>1. t \in Chain /\ t.token \in TokenAddresses
      BY <1>2, ChainFacts
    <3> QED
      BY <1>1, <1>4, <3>1, SpecificTypes
  <2> QED
    BY <2>1 DEF TransferItems, Of
<1>6. /\ b = [type \in ItemTypes |-> b[type]]
      /\ \A c \in TokenTypes : b[TransferType(c)] = Of(T, c)
      /\ b["Token"] = NewTokens(m, T) /\ b["UpdateToken"] = SupplyUpdates(T)
      /\ \A type \in ItemTypes \ (TransferTypes \cup {"Token", "UpdateToken"}) : b[type] = {}
  <2>1. TransferTypes \cup {"Token", "UpdateToken"} \subseteq ItemTypes
    BY StageFacts
  <2> HIDE DEF T
  <2> QED
    BY <1>5, <2>1 DEF Nothing, TransferTypes, TransferType, TokenTypes
<1>7. \A r : r \in NewTokens(m, T) <=>
        \E a \in Seen(T) : /\ cache[m][a] = Unknown
                           /\ r = [token |-> a, type |-> ContractType[a], block |-> LastBlock(T, a)]
  BY DEF NewTokens
<1> HIDE DEF b
<1>8. /\ s # job /\ Position(s) \in 1..16 /\ Position(s) <= 7
      /\ b["Token"] # {} => Position(s) <= 5
  BY NextJob DEF Jobs
<1> HIDE DEF s
<1>9. stage'[m] = s /\ buff'[m] = b /\ cache'[m] = known
  BY <1>1, <1>2
<1>10. TypedBy(m)'
  <2>1. \A type \in TransferTypes : b[type] \subseteq Chain
    <3>1. \A type \in TransferTypes : \E c \in TokenTypes : type = TransferType(c)
      BY DEF TransferTypes, TransferType, TokenTypes
    <3> QED
      BY <1>2, <1>6, <3>1 DEF Of
  <2>2. b["Token"] \subseteq {r \in [token : TokenAddresses, type : TokenTypes, block : Nat \ {0}] :
                                r.type = ContractType[r.token]}
    <3>1. Seen(T) \subseteq TokenAddresses
      BY <1>2, ChainFacts DEF Seen
    <3>2. \A a \in Seen(T) : LastBlock(T, a) \in Nat \ {0}
      <4> HIDE DEF T
      <4> QED
        BY <1>2, LastBlockFacts
    <3> QED
      BY <1>3, <1>6, <1>7, <3>1, <3>2
  <2>3. /\ b["UpdateToken"] \subseteq [token : TokenAddresses, block : Nat \ {0}]
        /\ OnePerGroup(b["UpdateToken"], {"token"})
    <3> HIDE DEF T
    <3> QED
      BY <1>2, <1>6, SupplyFacts
  <2>4. /\ \A type \in BalanceTypes \cup DetailTypes \cup UpdateTypes \cup {"ERC721TokenIdChange"} :
             b[type] = {}
        /\ UpdateTypes \subseteq DetailTypes \cup UpdateTypes
        /\ "CurrentTokenBalance" \in BalanceTypes
    <3>1. (BalanceTypes \cup DetailTypes \cup UpdateTypes \cup {"ERC721TokenIdChange"})
            \cap (TransferTypes \cup {"Token", "UpdateToken"}) = {}
      BY DEF BalanceTypes, DetailTypes, UpdateTypes, TransferTypes
    <3> QED
      BY <1>6, <3>1, StageFacts DEF BalanceTypes
  <2>5. /\ From[m] <= synced'[m] + 1
        /\ \A a \in TokenAddresses : cache'[m][a] \in {ContractType[a], Unknown, Null}
    BY <1>1, <1>2, <1>4, <1>9 DEF Local, TypedBy
  <2> QED
    BY <1>6, <1>9, <2>1, <2>2, <2>3, <2>4, <2>5 DEF TypedBy, OnePerGroup
<1>11. GatheredBy(m)'
  <2>1. Position(stage[m])' = Position(s)
    BY <1>9 DEF Position
  <2>2. /\ Position("token_balances")' = Position("token_balances")
        /\ Position("token_id_infos")' = Position("token_id_infos")
    BY DEF Position
  <2>3. Position("token_balances") = 7 /\ Position("token_id_infos") = 10
    BY Positions
  <2>4. ~(Position(s) > 7) /\ ~(Position(s) > 10)
    BY <1>8
  <2>5. synced'[m] = synced[m] /\ SupplyUpdates(T)' = SupplyUpdates(Logs(m)')
    BY <1>1, <1>2 DEF SupplyUpdates, Seen, LastBlock, Logs, RoundEnd
  <2> HIDE DEF T
  <2>6. SupplyUpdates(T)' = SupplyUpdates(T)
    BY <1>2, <2>5
  <2> QED
    BY <1>1, <1>2, <1>4, <1>6, <1>8, <1>9, <2>1, <2>2, <2>3, <2>4, <2>5, <2>6 DEF GatheredBy
<1>12. CachedBy(m)'
  <2> SUFFICES ASSUME NEW a \in TokenAddresses, a \notin lost, known[a] # Unknown,
                      tokens[a].type # ContractType[a]
               PROVE  Position(s) <= Position("Token") /\ \E r \in b["Token"] : r.token = a
    BY <1>1, <1>9 DEF CachedBy, Position, tables
  <2>1. cache[m][a] = Unknown
    <3>1. buff[m]["Token"] = {}
      BY <1>1, <1>2, StageFacts DEF Local, GatheredBy, Nothing
    <3> QED
      BY <1>2, <3>1 DEF Local, CachedBy
  <2>2. a \in Seen(T)
    BY <1>4, <2>1
  <2> DEFINE r == [token |-> a, type |-> ContractType[a], block |-> LastBlock(T, a)]
  <2>3. r \in b["Token"] /\ r.token = a
    <3>1. r \in NewTokens(m, T)
      BY <1>7, <2>1, <2>2
    <3> QED
      BY <1>6, <3>1
  <2> QED
    BY <1>8, <2>3, Positions
<1>13. \A type \in ItemTypes : Position(type) < Position(job) => b[type] = buff[m][type]
  <2>1. \A type \in ItemTypes : Position(type) \in 1..16
    BY StageFacts
  <2> QED
    BY <2>1, Positions
<1>14. cache' \in [Missions -> [TokenAddresses -> TokenTypes \cup {Unknown, Null}]]
  <2>1. known \in [TokenAddresses -> TokenTypes \cup {Unknown, Null}]
    BY <1>3, <1>4
  <2> QED
    BY <1>1, <2>1 DEF IInv, TypeOK
<1>15. \A o \in Missions \ {m} : cache'[o] = cache[o]
  BY <1>1, <1>2
<1>16. job \in Jobs \ {"record"}
  BY DEF Jobs
<1>17. stage' = [stage EXCEPT ![m] = After(job, b)]
  BY <1>1 DEF s
<1>18. Leaves(m, job, b)
  BY <1>1, <1>13, <1>14, <1>15, <1>17 DEF Leaves
<1> HIDE DEF job, T
<1> QED
  BY <1>10, <1>11, <1>12, <1>16, <1>18, JobMoves

(* What a later job has before it, and what stays of it.                   *)
LEMMA AtJob ==
  ASSUME IInv, NEW m \in Missions, stage[m] \in {"token_balances", "token_id_infos", "record"}
  PROVE  /\ TypedBy(m) /\ TablesTyped /\ synced[m] \in Nat
         /\ synced[m] < To[m]
         /\ \A c \in TokenTypes : buff[m][TransferType(c)] = Of(Logs(m), c)
         /\ Logs(m) \in SUBSET Chain /\ Collected(m) = Logs(m)
         /\ \A a \in TokenAddresses \ lost : cache[m][a] # Unknown => tokens[a].type = ContractType[a]
<1>1. synced[m] \in Nat /\ Local(m) /\ TablesTyped
  BY Typed
<1>2. stage[m] # "tokens_and_transfers"
  OBVIOUS
<1>3. ~(Position(stage[m]) <= Position("Token"))
  BY Positions
<1>4. Logs(m) \in SUBSET Chain
  BY <1>1, LogsFacts DEF Local, TypedBy
<1>5. \A c \in TokenTypes : buff[m][TransferType(c)] = Of(Logs(m), c)
  BY <1>1, <1>2 DEF Local, GatheredBy
<1>6. Collected(m) = Logs(m)
  BY <1>4, <1>5, ChainFacts DEF Collected, Of
<1> QED
  BY <1>1, <1>2, <1>3, <1>4, <1>5, <1>6 DEF Local, GatheredBy, CachedBy

LEMMA BalancesCollected ==
  ASSUME IInv, NEW m \in Missions, CollectBalances(m)
  PROVE  IInv' /\ Improve
<1> DEFINE T == Logs(m)
           B == BalanceItems(T)
           job == "token_balances"
<1>1. stage[m] = job /\ UNCHANGED <<synced, cache, tables, lost, failures, crashes>>
  BY DEF CollectBalances
<1>2. /\ TypedBy(m) /\ TablesTyped /\ synced[m] \in Nat /\ synced[m] < To[m]
      /\ \A c \in TokenTypes : buff[m][TransferType(c)] = Of(T, c)
      /\ T \in SUBSET Chain /\ Collected(m) = T
      /\ \A a \in TokenAddresses \ lost : cache[m][a] # Unknown => tokens[a].type = ContractType[a]
  BY <1>1, AtJob
<1>3. PICK C \in SUBSET Newest(B, {"address", "token"}) :
        LET b == [buff[m] EXCEPT !["TokenBalance"] = B, !["CurrentTokenBalance"] = C]
        IN /\ OnePerGroup(C, {"address", "token"}) /\ {Pair(r) : r \in C} = {Pair(r) : r \in B}
           /\ buff' = [buff EXCEPT ![m] = b]
           /\ stage' = [stage EXCEPT ![m] = After(job, b)]
  BY <1>2 DEF CollectBalances
<1> DEFINE b == [buff[m] EXCEPT !["TokenBalance"] = B, !["CurrentTokenBalance"] = C]
           s == After(job, b)
<1>4. /\ OnePerGroup(C, {"address", "token"}) /\ {Pair(r) : r \in C} = {Pair(r) : r \in B}
      /\ buff' = [buff EXCEPT ![m] = b] /\ stage' = [stage EXCEPT ![m] = After(job, b)]
  BY <1>3
<1>5. /\ b = [type \in ItemTypes |-> b[type]]
      /\ b["TokenBalance"] = B /\ b["CurrentTokenBalance"] = C
      /\ \A type \in ItemTypes \ BalanceTypes : b[type] = buff[m][type]
  <2>1. /\ buff[m] = [type \in ItemTypes |-> buff[m][type]]
        /\ {"TokenBalance", "CurrentTokenBalance"} \subseteq ItemTypes
    BY <1>2, StageFacts DEF TypedBy, BalanceTypes
  <2> QED
    BY <2>1 DEF BalanceTypes
<1>6. C \subseteq B /\ B \subseteq Balance
  <2>1. B \subseteq Balance
    <3> HIDE DEF T
    <3> QED
      BY <1>2, BalanceFacts
  <2> QED
    BY <2>1 DEF Newest
<1>7. \A r \in B : \E q \in C : Pair(q) = Pair(r) /\ q.block >= r.block
  <2> SUFFICES ASSUME NEW r \in B PROVE \E q \in C : Pair(q) = Pair(r) /\ q.block >= r.block
    OBVIOUS
  <2>1. PICK q \in C : Pair(q) = Pair(r)
    <3>1. Pair(r) \in {Pair(q) : q \in C}
      BY <1>4
    <3> QED
      BY <3>1
  <2>2. q.address = r.address /\ q.token = r.token
    BY <2>1 DEF Pair
  <2>3. SameGroup(q, r, {"address", "token"})
    <3>1. \A k \in {"address", "token"} : q[k] = r[k]
      BY <2>2
    <3> QED
      BY <3>1 DEF SameGroup
  <2>4. r.block <= q.block /\ r.block \in Nat /\ q.block \in Nat
    BY <1>6, <2>3 DEF Newest, Balance
  <2> QED
    BY <2>1, <2>4
<1> HIDE DEF b, B
<1>8. s # "tokens_and_transfers" /\ Position(s) \in 1..16 /\ Position(s) <= 10 /\ Position(s) > 7
  BY NextJob DEF Jobs
<1>9. stage'[m] = s /\ buff'[m] = b /\ cache'[m] = cache[m] /\ synced'[m] = synced[m]
      /\ Logs(m)' = T
  <2>1. DOMAIN stage = Missions /\ DOMAIN buff = Missions
    BY Typed
  <2> QED
    BY <1>1, <1>4, <2>1 DEF Logs, RoundEnd
<1> HIDE DEF s
<1>10. TypedBy(m)'
  <2>1. TransferTypes \cup {"Token", "UpdateToken", "ERC721TokenIdChange"} \cup DetailTypes \cup UpdateTypes
          \subseteq ItemTypes \ BalanceTypes
    BY StageFacts DEF TransferTypes, DetailTypes, UpdateTypes, BalanceTypes
  <2>2. \A type \in BalanceTypes : b[type] \subseteq Balance
    BY <1>5, <1>6 DEF BalanceTypes
  <2>3. /\ \A type \in TransferTypes \cup DetailTypes \cup UpdateTypes \cup
                         {"Token", "UpdateToken", "ERC721TokenIdChange"} : b[type] = buff[m][type]
    BY <1>5, <2>1
  <2> QED
    BY <1>2, <1>4, <1>5, <1>9, <2>2, <2>3 DEF TypedBy
<1>11. GatheredBy(m)'
  <2>1. Position(stage[m])' = Position(s)
    BY <1>9 DEF Position
  <2>2. /\ Position("token_balances")' = Position("token_balances")
        /\ Position("token_id_infos")' = Position("token_id_infos")
    BY DEF Position
  <2>3. Position("token_balances") = 7 /\ Position("token_id_infos") = 10
    BY Positions
  <2>4. Position(s) > 7 /\ ~(Position(s) > 10)
    BY <1>8
  <2>5. \A c \in TokenTypes : TransferType(c) \in ItemTypes \ BalanceTypes
    BY StageFacts DEF TransferType, TransferTypes, TokenTypes, BalanceTypes
  <2>6. "UpdateToken" \in ItemTypes \ BalanceTypes
    BY StageFacts DEF BalanceTypes
  <2>7. /\ \A c \in TokenTypes : buff'[m][TransferType(c)] = Of(T, c)
        /\ buff'[m]["UpdateToken"] = buff[m]["UpdateToken"]
        /\ buff'[m]["TokenBalance"] = B
        /\ buff'[m]["CurrentTokenBalance"] = C
    BY <1>2, <1>5, <1>9, <2>5, <2>6
  <2>8. /\ buff[m]["UpdateToken"] = SupplyUpdates(T)
        /\ \A t \in T : cache[m][t.token] # Unknown
    BY <1>1, Typed DEF Local, GatheredBy
  <2>9. SupplyUpdates(T)' = SupplyUpdates(T) /\ BalanceItems(T)' = BalanceItems(T)
    BY <1>9 DEF SupplyUpdates, Seen, LastBlock, BalanceItems
  <2>10. B = BalanceItems(T)
    BY DEF B
  <2> HIDE DEF T
  <2> QED
    BY <1>2, <1>6, <1>7, <1>8, <1>9, <2>1, <2>2, <2>3, <2>4, <2>7, <2>8, <2>9, <2>10 DEF GatheredBy, Pair
<1>12. CachedBy(m)'
  BY <1>1, <1>2, <1>9 DEF CachedBy, tables
<1>13. Leaves(m, job, b)
  <2>1. cache' \in [Missions -> [TokenAddresses -> TokenTypes \cup {Unknown, Null}]]
    BY <1>1 DEF IInv, TypeOK
  <2>2. \A type \in ItemTypes : Position(type) < Position(job) => b[type] = buff[m][type]
    BY <1>5, Positions DEF BalanceTypes
  <2> QED
    BY <1>1, <1>4, <2>1, <2>2 DEF Leaves
<1>14. job \in Jobs \ {"record"}
  BY DEF Jobs
<1> HIDE DEF job, T
<1> QED
  BY <1>10, <1>11, <1>12, <1>13, <1>14, JobMoves

LEMMA IdsCollected ==
  ASSUME IInv, NEW m \in Missions, CollectIds(m)
  PROVE  IInv' /\ Improve
<1> DEFINE T    == Logs(m)
           T721  == buff[m]["ERC721TokenTransfer"]
           T1155 == buff[m]["ERC1155TokenTransfer"]
           job == "token_id_infos"
           b == [buff[m] EXCEPT
              !["ERC721TokenIdChange"]        = IdItems(T721),
              !["ERC721TokenIdDetail"]        = IdItems(Minted(T721)),
              !["UpdateERC721TokenIdDetail"]  = Newest(IdItems(T721), {"token", "id"}),
              !["ERC1155TokenIdDetail"]       = IdItems(Minted(T1155)),
              !["UpdateERC1155TokenIdDetail"] = Newest(IdItems(T1155), {"token", "id"})]
           s == After(job, b)
           own == DetailTypes \cup UpdateTypes \cup {"ERC721TokenIdChange"}
<1>1. /\ stage[m] = job /\ UNCHANGED <<synced, cache, tables, lost, failures, crashes>>
      /\ buff' = [buff EXCEPT ![m] = b] /\ stage' = [stage EXCEPT ![m] = After(job, b)]
  BY DEF CollectIds
<1>2. /\ TypedBy(m) /\ TablesTyped /\ synced[m] \in Nat /\ synced[m] < To[m]
      /\ \A c \in TokenTypes : buff[m][TransferType(c)] = Of(T, c)
      /\ T \in SUBSET Chain
      /\ \A a \in TokenAddresses \ lost : cache[m][a] # Unknown => tokens[a].type = ContractType[a]
  BY <1>1, AtJob
<1>3. T721 = Of(T, "ERC721") /\ T1155 = Of(T, "ERC1155")
  BY <1>2 DEF TransferType, TokenTypes
<1> HIDE DEF T721, T1155
<1>4. /\ T721 \in SUBSET Chain /\ T1155 \in SUBSET Chain
      /\ Minted(T721) \in SUBSET Chain /\ Minted(T1155) \in SUBSET Chain
  BY <1>2, <1>3 DEF Of, Minted
<1>5. /\ b = [type \in ItemTypes |-> b[type]]
      /\ b["ERC721TokenIdChange"] = IdItems(T721)
      /\ b["ERC721TokenIdDetail"] = IdItems(Minted(T721))
      /\ b["UpdateERC721TokenIdDetail"] = Newest(IdItems(T721), {"token", "id"})
      /\ b["ERC1155TokenIdDetail"] = IdItems(Minted(T1155))
      /\ b["UpdateERC1155TokenIdDetail"] = Newest(IdItems(T1155), {"token", "id"})
      /\ \A type \in ItemTypes \ own : b[type] = buff[m][type]
  <2>1. /\ buff[m] = [type \in ItemTypes |-> buff[m][type]] /\ own \subseteq ItemTypes
    BY <1>2, StageFacts DEF TypedBy
  <2> QED
    BY <2>1 DEF DetailTypes, UpdateTypes
<1>6. /\ \A type \in own : b[type] \subseteq IdItem
      /\ \A type \in UpdateTypes : OnePerGroup(b[type], {"token", "id"})
  <2>1. /\ IdItems(T721) \subseteq IdItem /\ IdItems(T1155) \subseteq IdItem
        /\ IdItems(Minted(T721)) \subseteq IdItem /\ IdItems(Minted(T1155)) \subseteq IdItem
        /\ OnePerGroup(Newest(IdItems(T721), {"token", "id"}), {"token", "id"})
        /\ OnePerGroup(Newest(IdItems(T1155), {"token", "id"}), {"token", "id"})
    BY <1>4, IdFacts
  <2>2. /\ Newest(IdItems(T721), {"token", "id"}) \subseteq IdItem
        /\ Newest(IdItems(T1155), {"token", "id"}) \subseteq IdItem
    BY <2>1 DEF Newest
  <2> HIDE DEF b
  <2> QED
    BY <1>5, <2>1, <2>2 DEF DetailTypes, UpdateTypes
<1> HIDE DEF b
<1>7. s # "tokens_and_transfers" /\ Position(s) \in 1..16 /\ Position(s) > 10
  BY NextJob DEF Jobs
<1>8. stage'[m] = s /\ buff'[m] = b /\ cache'[m] = cache[m] /\ synced'[m] = synced[m]
      /\ Logs(m)' = T
  <2>1. DOMAIN stage = Missions /\ DOMAIN buff = Missions
    BY Typed
  <2> QED
    BY <1>1, <2>1 DEF Logs, RoundEnd
<1> HIDE DEF s
<1>9. TransferTypes \cup BalanceTypes \cup {"Token", "UpdateToken"} \subseteq ItemTypes \ own
  BY StageFacts DEF TransferTypes, DetailTypes, UpdateTypes, BalanceTypes
<1>10. TypedBy(m)'
  <2>1. \A type \in TransferTypes \cup BalanceTypes \cup {"Token", "UpdateToken"} :
          b[type] = buff[m][type]
    BY <1>5, <1>9
  <2>2. "CurrentTokenBalance" \in BalanceTypes
    BY DEF BalanceTypes
  <2> QED
    BY <1>2, <1>5, <1>6, <1>8, <2>1, <2>2 DEF TypedBy
<1>11. GatheredBy(m)'
  <2>1. Position(stage[m])' = Position(s)
    BY <1>8 DEF Position
  <2>2. /\ Position("token_balances")' = Position("token_balances")
        /\ Position("token_id_infos")' = Position("token_id_infos")
    BY DEF Position
  <2>3. Position("token_balances") = 7 /\ Position("token_id_infos") = 10
    BY Positions
  <2>4. Position(s) > 7 /\ Position(s) > 10
    BY <1>7
  <2>5. \A c \in TokenTypes : TransferType(c) \in TransferTypes
    BY DEF TransferType, TransferTypes, TokenTypes
  <2>6. /\ \A c \in TokenTypes : buff'[m][TransferType(c)] = Of(T, c)
        /\ buff'[m]["UpdateToken"] = buff[m]["UpdateToken"]
        /\ buff'[m]["TokenBalance"] = buff[m]["TokenBalance"]
        /\ buff'[m]["CurrentTokenBalance"] = buff[m]["CurrentTokenBalance"]
    BY <1>2, <1>5, <1>8, <1>9, <2>5 DEF BalanceTypes
  <2>7. /\ buff[m]["UpdateToken"] = SupplyUpdates(T)
        /\ \A t \in T : cache[m][t.token] # Unknown
    BY <1>1, Typed DEF Local, GatheredBy
  <2>8. /\ buff[m]["TokenBalance"] = BalanceItems(T)
        /\ buff[m]["CurrentTokenBalance"] \subseteq BalanceItems(T)
        /\ \A r \in BalanceItems(T) : \E q \in buff[m]["CurrentTokenBalance"] :
             Pair(q) = Pair(r) /\ q.block >= r.block
    <3>1. Position(stage[m]) > Position("token_balances")
      BY <1>1, Positions
    <3> QED
      BY <3>1, Typed DEF Local, GatheredBy
  <2>9. /\ SupplyUpdates(T)' = SupplyUpdates(T) /\ BalanceItems(T)' = BalanceItems(T)
    BY <1>8 DEF SupplyUpdates, Seen, LastBlock, BalanceItems
  <2>10. IdsIn(b, T)
    BY <1>3, <1>5 DEF IdsIn
  <2>11. IdsIn(buff[m], Logs(m))' <=> IdsIn(b, T)
    BY <1>8 DEF IdsIn, IdItems, Minted, Of, Newest, Answered, Exists, SameGroup, Id
  <2> HIDE DEF T
  <2> QED
    BY <1>2, <1>7, <1>8, <2>1, <2>2, <2>3, <2>4, <2>6, <2>7, <2>8, <2>9, <2>10, <2>11
    DEF GatheredBy, Pair
<1>12. CachedBy(m)'
  BY <1>1, <1>2, <1>8 DEF CachedBy, tables
<1>13. Leaves(m, job, b)
  <2>1. cache' \in [Missions -> [TokenAddresses -> TokenTypes \cup {Unknown, Null}]]
    BY <1>1 DEF IInv, TypeOK
  <2>2. \A type \in ItemTypes : Position(type) < Position(job) => b[type] = buff[m][type]
    BY <1>5, Positions DEF DetailTypes, UpdateTypes
  <2> QED
    BY <1>1, <2>1, <2>2 DEF Leaves
<1>14. job \in Jobs \ {"record"}
  BY DEF Jobs
<1> HIDE DEF job, T
<1> QED
  BY <1>10, <1>11, <1>12, <1>13, <1>14, JobMoves
-----------------------------------------------------------------------------
(* The end of a round.                                                     *)

(* When all items of a round are in the tables, so is what its transfers   *)
(* say.                                                                    *)
LEMMA RoundStored ==
  ASSUME IInv, NEW m \in Missions, stage[m] = "record", NEW t \in Logs(m)
  PROVE  Stored(t)
<1> DEFINE T == Logs(m)
           c == ContractType[t.token]
<1>1. /\ TypedBy(m) /\ TablesTyped /\ T \in SUBSET Chain
      /\ \A d \in TokenTypes : buff[m][TransferType(d)] = Of(T, d)
      /\ \A a \in TokenAddresses \ lost : cache[m][a] # Unknown => tokens[a].type = ContractType[a]
  BY AtJob
<1>2. \A type \in ItemTypes : \A r \in buff[m][type] : Applied(type, r)
  <2> SUFFICES ASSUME NEW type \in ItemTypes PROVE \A r \in buff[m][type] : Applied(type, r)
    OBVIOUS
  <2>1. Position(type) \in 1..16 /\ Plan[Position(type)] = type /\ type # "record"
    BY StageFacts DEF Jobs
  <2>2. Position(type) < Position("record")
    BY <2>1, Positions, PlanFacts
  <2> QED
    BY <2>2, Typed DEF Local, CommittedBy
<1>3. /\ buff[m]["UpdateToken"] = SupplyUpdates(T)
      /\ \A u \in T : cache[m][u.token] # Unknown
      /\ buff[m]["TokenBalance"] = BalanceItems(T)
      /\ buff[m]["CurrentTokenBalance"] \subseteq BalanceItems(T)
      /\ \A r \in BalanceItems(T) : \E s \in buff[m]["CurrentTokenBalance"] :
           Pair(s) = Pair(r) /\ s.block >= r.block
      /\ IdsIn(buff[m], T)
  BY Typed, Positions DEF Local, GatheredBy
<1>4. /\ t \in Chain /\ t.block \in Nat \ {0} /\ t.token \in TokenAddresses /\ c \in TokenTypes
      /\ Parties(t) \subseteq Addresses /\ Id(t) \in Ids
  BY <1>1, ChainFacts
<1>5. t \in transfers[c]
  <2>1. t \in buff[m][TransferType(c)]
    BY <1>1, <1>4 DEF Of
  <2>2. TransferType(c) \in ItemTypes
    BY <1>4, StageFacts DEF TransferType, TransferTypes, TokenTypes
  <2> QED
    BY <1>2, <1>4, <2>1, <2>2 DEF Applied
<1>6. t.token \notin lost => tokens[t.token].type = c
  BY <1>1, <1>3, <1>4
<1> HIDE DEF T
<1>7. ASSUME NEW a \in Parties(t)
      PROVE  /\ current[<<a, t.token>>].block >= t.block
             /\ \E r \in balances : Pair(r) = <<a, t.token>> /\ r.block = t.block
  <2>1. PICK r \in BalanceItems(T) : Pair(r) = <<a, t.token>> /\ r.block = t.block
    BY <1>1, BalanceFacts DEF T
  <2>2. PICK s \in buff[m]["CurrentTokenBalance"] : Pair(s) = Pair(r) /\ s.block >= r.block
    BY <1>3
  <2>3. {"TokenBalance", "CurrentTokenBalance"} \subseteq ItemTypes
    BY StageFacts DEF BalanceTypes
  <2>4. PICK q \in balances : SameBalance(r, q)
    BY <1>2, <1>3, <2>3 DEF Applied
  <2>5. current[Pair(s)].block >= s.block
    BY <1>2, <2>3 DEF Applied
  <2>6. s.block \in Nat /\ current[<<a, t.token>>].block \in Nat
    <3>1. <<a, t.token>> \in Pairs
      BY <1>4 DEF Pairs
    <3>2. s.block \in Nat
      BY <1>1 DEF TypedBy, BalanceTypes, Balance
    <3> QED
      BY <1>1, <3>1, <3>2 DEF TablesTyped
  <2> QED
    BY <1>4, <2>1, <2>2, <2>4, <2>5, <2>6 DEF SameBalance
<1>8. t.token \in Countable /\ ~t.multi => tokens[t.token].block >= t.block
  <2> SUFFICES ASSUME t.token \in Countable, ~t.multi PROVE tokens[t.token].block >= t.block
    OBVIOUS
  <2>1. PICK r \in SupplyUpdates(T) : r.token = t.token /\ r.block >= t.block
    BY <1>1, SupplyFacts DEF T
  <2>2. "UpdateToken" \in ItemTypes
    BY StageFacts
  <2>3. tokens[t.token].block >= r.block
    BY <1>2, <1>3, <2>1, <2>2 DEF Applied
  <2>4. r.block \in Nat
    BY <1>1, <2>1, SupplyFacts DEF T
  <2>5. tokens[t.token].block \in Nat
    BY <1>1, <1>4 DEF TablesTyped
  <2> QED
    BY <1>4, <2>1, <2>3, <2>4, <2>5
<1>9. c # "ERC20" /\ t \in Answered({t}) => Fresh(details[Id(t)], t.block)
  <2> SUFFICES ASSUME c # "ERC20", t \in Answered({t}) PROVE Fresh(details[Id(t)], t.block)
    OBVIOUS
  <2> DEFINE type == IF c = "ERC721" THEN "UpdateERC721TokenIdDetail" ELSE "UpdateERC1155TokenIdDetail"
  <2>1. type \in UpdateTypes /\ type \in ItemTypes
    BY StageFacts DEF UpdateTypes
  <2>2. buff[m][type] = Newest(IdItems(Of(T, c)), {"token", "id"})
    <3>1. c = "ERC721" \/ c = "ERC1155"
      BY <1>4 DEF TokenTypes
    <3> QED
      BY <1>3, <3>1 DEF IdsIn
  <2>3. Of(T, c) \in SUBSET Chain /\ t \in Of(T, c)
    BY <1>1 DEF Of, T
  <2> HIDE DEF c, type
  <2>4. PICK r \in IdItems(Of(T, c)) : Id(r) = Id(t) /\ r.block = t.block
    BY <2>3, IdFacts
  <2>5. PICK s \in Newest(IdItems(Of(T, c)), {"token", "id"}) : Id(s) = Id(r) /\ s.block >= r.block
    BY <2>3, IdFacts
  <2>6. Fresh(details[Id(s)], s.block)
    BY <1>2, <2>1, <2>2 DEF Applied
  <2>7. s.block \in Nat /\ details[Id(t)].block \in Nat /\ details[Id(t)].readAt \in Nat
    <3>1. s.block \in Nat
      BY <1>1, <2>1, <2>2 DEF TypedBy, IdItem
    <3> QED
      BY <1>1, <1>4, <3>1 DEF TablesTyped
  <2> QED
    BY <1>4, <2>4, <2>5, <2>6, <2>7 DEF Fresh
<1> QED
  BY <1>5, <1>6, <1>7, <1>8, <1>9 DEF Stored

LEMMA StoredSame ==
  ASSUME UNCHANGED tables, lost \subseteq lost', NEW t \in Chain, Stored(t)
  PROVE  Stored(t)'
BY DEF Stored, tables, Pair, Parties, Answered, Exists, Fresh, Id

LEMMA RecordKeeps ==
  ASSUME IInv, NEW m \in Missions, Record(m)
  PROVE  IInv' /\ Improve
<1>1. /\ stage[m] = "record" /\ synced' = [synced EXCEPT ![m] = RoundEnd(m)]
      /\ buff' = [buff EXCEPT ![m] = Nothing]
      /\ stage' = [stage EXCEPT ![m] = "tokens_and_transfers"]
      /\ UNCHANGED <<cache, tables, lost, failures, crashes>>
  BY DEF Record
<1>2. /\ TypedBy(m) /\ synced[m] \in Nat /\ synced[m] < To[m]
      /\ \A a \in TokenAddresses \ lost : cache[m][a] # Unknown => tokens[a].type = ContractType[a]
  BY <1>1, AtJob
<1>3. /\ RoundEnd(m) \in Nat
      /\ \A t \in Chain : t \in Logs(m) <=> synced[m] < t.block /\ t.block <= RoundEnd(m)
  BY <1>2, LogsFacts DEF TypedBy
<1>4. synced[m] <= RoundEnd(m)
  BY <1>2, TokenAssumption DEF RoundEnd
<1>5. synced \in [Missions -> Nat] /\ lost \subseteq TokenAddresses
  BY DEF IInv, TypeOK
<1>6. synced'[m] = RoundEnd(m) /\ synced' \in [Missions -> Nat]
      /\ \A o \in Missions \ {m} : synced'[o] = synced[o]
  BY <1>1, <1>3, <1>5
<1>7. KeptBy(m)'
  <2> SUFFICES ASSUME NEW t \in Chain, From[m] <= t.block, t.block <= RoundEnd(m)
               PROVE  Stored(t)'
    BY <1>6 DEF KeptBy
  <2>1. Stored(t)
    <3>1. CASE t.block <= synced[m]
      BY <3>1, Typed DEF Local, KeptBy
    <3>2. CASE synced[m] < t.block
      BY <1>1, <1>3, <3>2, RoundStored
    <3> QED
      BY <1>2, <3>1, <3>2, ChainFacts
  <2> QED
    BY <1>1, <2>1, StoredSame
<1>8. CachedBy(m)'
  BY <1>1, <1>2 DEF CachedBy, tables
<1>9. /\ cache' \in [Missions -> [TokenAddresses -> TokenTypes \cup {Unknown, Null}]]
      /\ \A a \in TokenAddresses : cache'[m][a] \in {ContractType[a], Unknown, Null}
      /\ failures' \in Nat /\ crashes' \in Nat
      /\ \A o \in Missions \ {m} : cache'[o] = cache[o] /\ synced'[o] = synced[o]
  BY <1>1, <1>2, <1>6 DEF IInv, TypeOK, TypedBy
<1>10. synced[m] <= synced'[m] /\ lost \subseteq lost' /\ lost' \subseteq TokenAddresses
  BY <1>1, <1>4, <1>5, <1>6
<1>11. UNCHANGED tables
  BY <1>1
<1> QED
  BY <1>1, <1>6, <1>7, <1>8, <1>9, <1>10, <1>11, NewRound

LEMMA FailKeeps ==
  ASSUME IInv, NEW m \in Missions, RoundFails(m)
  PROVE  IInv' /\ Improve
<1>1. /\ UNCHANGED <<synced, cache, tables, crashes>>
      /\ buff' = [buff EXCEPT ![m] = Nothing]
      /\ stage' = [stage EXCEPT ![m] = "tokens_and_transfers"]
      /\ failures' = failures + 1
      /\ lost' = IF Position(stage[m]) <= Position("Token")
                 THEN lost \cup {r.token : r \in buff[m]["Token"]} ELSE lost
  BY DEF RoundFails
<1>2. Local(m) /\ synced[m] \in Nat
  BY Typed
<1>3. lost \subseteq lost' /\ lost' \subseteq TokenAddresses
  <2>1. {r.token : r \in buff[m]["Token"]} \subseteq TokenAddresses
    BY <1>2 DEF Local, TypedBy
  <2> QED
    BY <1>1, <2>1 DEF IInv, TypeOK
<1>4. KeptBy(m)'
  <2> SUFFICES ASSUME NEW t \in Chain, From[m] <= t.block, t.block <= synced[m]
               PROVE  Stored(t)'
    BY <1>1 DEF KeptBy
  <2>1. Stored(t)
    BY <1>2 DEF Local, KeptBy
  <2> QED
    BY <1>1, <1>3, <2>1, StoredSame
<1>5. CachedBy(m)'
  <2> SUFFICES ASSUME NEW a \in TokenAddresses, a \notin lost', cache[m][a] # Unknown
               PROVE  tokens[a].type = ContractType[a]
    BY <1>1 DEF CachedBy, tables
  <2>1. CASE \E r \in buff[m]["Token"] : r.token = a
    <3>1. ~(Position(stage[m]) <= Position("Token"))
      BY <1>1, <2>1
    <3> QED
      BY <1>2, <1>3, <3>1 DEF Local, CachedBy
  <2>2. CASE ~\E r \in buff[m]["Token"] : r.token = a
    BY <1>2, <1>3, <2>2 DEF Local, CachedBy
  <2> QED
    BY <2>1, <2>2
<1>6. /\ synced' \in [Missions -> Nat] /\ synced[m] <= synced'[m]
      /\ cache' \in [Missions -> [TokenAddresses -> TokenTypes \cup {Unknown, Null}]]
      /\ failures' \in Nat /\ crashes' \in Nat
      /\ \A a \in TokenAddresses : cache'[m][a] \in {ContractType[a], Unknown, Null}
      /\ \A o \in Missions \ {m} : cache'[o] = cache[o] /\ synced'[o] = synced[o]
  BY <1>1, <1>2 DEF IInv, TypeOK, Local, TypedBy
<1>7. UNCHANGED tables
  BY <1>1
<1> QED
  BY <1>1, <1>3, <1>4, <1>5, <1>6, <1>7, NewRound

LEMMA CrashKeeps ==
  ASSUME IInv, NEW m \in Missions, Crash(m)
  PROVE  IInv' /\ Improve
<1>1. /\ UNCHANGED <<synced, tables, lost, failures>>
      /\ buff' = [buff EXCEPT ![m] = Nothing]
      /\ stage' = [stage EXCEPT ![m] = "tokens_and_transfers"]
      /\ crashes' = crashes + 1
      /\ cache' = [cache EXCEPT ![m] = [a \in TokenAddresses |-> tokens[a].type]]
  BY DEF Crash
<1>2. Local(m) /\ synced[m] \in Nat /\ TablesTyped /\ DOMAIN cache = Missions
  BY Typed
<1>3. TokenRows
  BY DEF IInv, Rows
<1>4. \A a \in TokenAddresses : cache'[m][a] = tokens[a].type
  BY <1>1, <1>2
<1>5. KeptBy(m)'
  <2> SUFFICES ASSUME NEW t \in Chain, From[m] <= t.block, t.block <= synced[m]
               PROVE  Stored(t)'
    BY <1>1 DEF KeptBy
  <2>1. Stored(t)
    BY <1>2 DEF Local, KeptBy
  <2> QED
    BY <1>1, <2>1, StoredSame
<1>6. CachedBy(m)'
  BY <1>1, <1>3, <1>4 DEF CachedBy, TokenRows, tables
<1>7. /\ synced' \in [Missions -> Nat] /\ synced[m] <= synced'[m]
      /\ failures' \in Nat /\ crashes' \in Nat
      /\ lost \subseteq lost' /\ lost' \subseteq TokenAddresses
      /\ \A a \in TokenAddresses : cache'[m][a] \in {ContractType[a], Unknown, Null}
      /\ \A o \in Missions \ {m} : cache'[o] = cache[o] /\ synced'[o] = synced[o]
  BY <1>1, <1>2, <1>3, <1>4 DEF IInv, TypeOK, TokenRows
<1>8. cache' \in [Missions -> [TokenAddresses -> TokenTypes \cup {Unknown, Null}]]
  <2>1. [a \in TokenAddresses |-> tokens[a].type] \in [TokenAddresses -> TokenTypes \cup {Unknown, Null}]
    BY <1>2 DEF TablesTyped
  <2> QED
    BY <1>1, <2>1 DEF IInv, TypeOK
<1>9. UNCHANGED tables
  BY <1>1
<1> QED
  BY <1>1, <1>5, <1>6, <1>7, <1>8, <1>9, NewRound
-----------------------------------------------------------------------------
LEMMA Begins == Init => IInv
<1> SUFFICES ASSUME Init PROVE IInv
  OBVIOUS
<1>1. /\ synced = [m \in Missions |-> From[m] - 1]
      /\ stage = [m \in Missions |-> "tokens_and_transfers"]
      /\ cache = [m \in Missions |-> [a \in TokenAddresses |-> Unknown]]
      /\ buff = [m \in Missions |-> Nothing]
      /\ transfers = [type \in TokenTypes |-> {}]
      /\ tokens = [a \in TokenAddresses |-> NoToken]
      /\ balances = {} /\ current = [p \in Pairs |-> NoBalance]
      /\ details = [i \in Ids |-> NoDetail] /\ changes = {}
      /\ lost = {} /\ failures = 0 /\ crashes = 0
  BY DEF Init
<1>2. /\ NoToken \in [type : TokenTypes \cup {Unknown, Null}, block : Nat]
      /\ NoToken.type = Unknown /\ NoToken.block = 0
      /\ NoBalance \in [id : Nat, block : Nat] /\ NoBalance.block = 0
      /\ NoDetail \in [uri : BOOLEAN, readAt : Nat, block : Nat] /\ NoDetail.readAt = 0
      /\ Unknown # Null
  BY DEF NoToken, NoBalance, NoDetail, Unknown, Null
<1>3. TypeOK
  <2>1. "tokens_and_transfers" \in Stages
    BY StageFacts DEF Jobs
  <2>2. synced \in [Missions -> Nat]
    BY <1>1, TokenAssumption
  <2> QED
    BY <1>1, <1>2, <2>1, <2>2 DEF TypeOK
<1>4. Rows
  <2>1. TransferRows /\ TokenRows /\ BalanceRows
    BY <1>1, <1>2 DEF TransferRows, TokenRows, BalanceRows
  <2>2. DetailRows
    BY <1>1, <1>2, ChainFacts DEF DetailRows
  <2> QED
    BY <2>1, <2>2 DEF Rows
<1>5. Shape
  BY <1>1 DEF Shape
<1>6. ASSUME NEW m \in Missions PROVE Local(m)
  <2>1. /\ synced[m] = From[m] - 1 /\ stage[m] = "tokens_and_transfers" /\ buff[m] = Nothing
        /\ \A a \in TokenAddresses : cache[m][a] = Unknown
    BY <1>1
  <2>2. \A type \in ItemTypes : Nothing[type] = {}
    BY DEF Nothing
  <2>3. TypedBy(m)
    <3>1. /\ TransferTypes \subseteq ItemTypes /\ BalanceTypes \subseteq ItemTypes
          /\ DetailTypes \cup UpdateTypes \cup {"ERC721TokenIdChange"} \subseteq ItemTypes
          /\ {"Token", "UpdateToken", "CurrentTokenBalance"} \subseteq ItemTypes
          /\ UpdateTypes \subseteq ItemTypes
      BY StageFacts DEF BalanceTypes
    <3>2. Nothing = [type \in ItemTypes |-> Nothing[type]]
      BY DEF Nothing
    <3>3. From[m] <= synced[m] + 1
      BY <2>1, TokenAssumption
    <3> QED
      BY <2>1, <2>2, <3>1, <3>2, <3>3 DEF TypedBy, OnePerGroup
  <2>4. GatheredBy(m)
    BY <2>1, Positions DEF GatheredBy
  <2>5. CommittedBy(m)
    BY <2>1, <2>2 DEF CommittedBy
  <2>6. CachedBy(m)
    BY <2>1 DEF CachedBy
  <2>7. KeptBy(m)
    <3>1. \A t \in Chain : ~(From[m] <= t.block /\ t.block <= synced[m])
      BY <2>1, ChainFacts, TokenAssumption
    <3> QED
      BY <3>1 DEF KeptBy
  <2> QED
    BY <2>3, <2>4, <2>5, <2>6, <2>7 DEF Local
<1> QED
  BY <1>3, <1>4, <1>5, <1>6 DEF IInv

LEMMA StaysSame == IInv /\ UNCHANGED vars => IInv' /\ Improve
<1> SUFFICES ASSUME IInv, UNCHANGED vars PROVE IInv' /\ Improve
  OBVIOUS
<1>1. /\ UNCHANGED <<synced, stage, cache, buff, lost, failures, crashes>> /\ UNCHANGED tables
  BY DEF vars
<1>2. TypeOK' /\ Shape' /\ Rows' /\ Improve /\ TablesTyped'
  BY <1>1, RowsSame DEF IInv, TypeOK, Shape, tables
<1>3. \A o \in Missions : Local(o)'
  BY <1>1, <1>2, OthersStay
<1> QED
  BY <1>2, <1>3 DEF IInv

LEMMA Inductive == IInv /\ [Next]_vars => IInv' /\ Improve
<1> SUFFICES ASSUME IInv, [Next]_vars PROVE IInv' /\ Improve
  OBVIOUS
<1>1. CASE UNCHANGED vars
  BY <1>1, StaysSame
<1>2. ASSUME NEW m \in Missions, Step(m) PROVE IInv' /\ Improve
  <2>1. CASE CollectTransfers(m)
    BY <2>1, TransfersCollected
  <2>2. CASE CollectBalances(m)
    BY <2>2, BalancesCollected
  <2>3. CASE CollectIds(m)
    BY <2>3, IdsCollected
  <2>4. CASE Commit(m)
    BY <2>4, CommitKeeps
  <2>5. CASE Record(m)
    BY <2>5, RecordKeeps
  <2> QED
    BY <1>2, <2>1, <2>2, <2>3, <2>4, <2>5 DEF Step
<1>3. ASSUME NEW m \in Missions, RoundFails(m) PROVE IInv' /\ Improve
  BY <1>3, FailKeeps
<1>4. ASSUME NEW m \in Missions, Crash(m) PROVE IInv' /\ Improve
  BY <1>4, CrashKeeps
<1> QED
  BY <1>1, <1>2, <1>3, <1>4 DEF Next
-----------------------------------------------------------------------------
(* What the invariant says of the tables.                                  *)

LEMMA RecordedStored ==
  ASSUME IInv, NEW t \in Recorded
  PROVE  t \in Chain /\ Stored(t)
<1>1. PICK m \in Missions : From[m] <= t.block /\ t.block <= synced[m]
  BY DEF Recorded
<1>2. t \in Chain
  BY DEF Recorded
<1>3. Local(m)
  BY Typed
<1> QED
  BY <1>1, <1>2, <1>3 DEF Local, KeptBy

LEMMA ImpliesStored == IInv => TransfersStored
<1> SUFFICES ASSUME IInv PROVE TransfersStored
  OBVIOUS
<1>1. TransferRows
  BY DEF IInv, Rows
<1>2. \A t \in Recorded : t \in transfers[ContractType[t.token]]
  BY RecordedStored DEF Stored
<1> QED
  BY <1>1, <1>2 DEF TransfersStored, TransferRows

LEMMA ImpliesOnce == IInv => UpsertsTouchARowOnce
<1> SUFFICES ASSUME IInv, NEW m \in Missions
             PROVE  /\ OnePerGroup(buff[m]["CurrentTokenBalance"], {"address", "token"})
                    /\ OnePerGroup(buff[m]["UpdateERC721TokenIdDetail"], {"token", "id"})
                    /\ OnePerGroup(buff[m]["UpdateERC1155TokenIdDetail"], {"token", "id"})
                    /\ OnePerGroup(buff[m]["UpdateToken"], {"token"})
  BY DEF UpsertsTouchARowOnce
<1>1. TypedBy(m)
  BY Typed DEF Local
<1> QED
  BY <1>1 DEF TypedBy, UpdateTypes

LEMMA ImpliesDescribed == IInv => TokensDescribed
<1> SUFFICES ASSUME IInv PROVE TokensDescribed
  OBVIOUS
<1>1. TokenRows
  BY DEF IInv, Rows
<1>2. \A t \in Recorded : t.token \notin lost => tokens[t.token].type = ContractType[t.token]
  BY RecordedStored DEF Stored
<1> QED
  BY <1>1, <1>2 DEF TokensDescribed, TokenRows

LEMMA ImpliesCurrent == IInv => RowsAreCurrent
<1> SUFFICES ASSUME IInv PROVE RowsAreCurrent
  OBVIOUS
<1>1. BalanceRows /\ DetailRows /\ TablesTyped
  BY DEF IInv, Rows, TypeOK, TablesTyped
<1>2. CurrentIsLatest
  <2>1. \A t \in Recorded : \A a \in Parties(t) :
          /\ current[<<a, t.token>>].block >= t.block
          /\ \E r \in balances : Pair(r) = <<a, t.token>> /\ r.block = t.block
    BY RecordedStored DEF Stored
  <2> QED
    BY <1>1, <2>1 DEF CurrentIsLatest, BalanceRows
<1>3. SupplyIsCurrent
  BY RecordedStored DEF Stored, SupplyIsCurrent
<1>4. OwnerIsCurrent
  <2>1. \A t \in Recorded : ContractType[t.token] # "ERC20" /\ t \in Answered({t}) =>
          Fresh(details[Id(t)], t.block)
    BY RecordedStored DEF Stored
  <2>2. \A i \in Ids : details[i].readAt > 0 => details[i].readAt = details[i].block
    BY <1>1 DEF DetailRows
  <2> QED
    BY <2>1, <2>2 DEF OwnerIsCurrent, Fresh
<1>5. UriKept
  <2> SUFFICES ASSUME NEW t \in Recorded, FirstMint(t) PROVE details[Id(t)].uri
    BY DEF UriKept, FirstMint
  <2>1. t \in Chain /\ t.block \in Nat \ {0} /\ Fresh(details[Id(t)], t.block)
    BY RecordedStored, ChainFacts DEF Stored, FirstMint
  <2>2. details[Id(t)] # NoDetail
    BY <2>1 DEF Fresh, NoDetail
  <2> QED
    BY <1>1, <2>1, <2>2 DEF DetailRows
<1> QED
  BY <1>2, <1>3, <1>4, <1>5 DEF RowsAreCurrent

(* The action of RowsOnlyImprove.                                          *)
RowsImprove ==
  /\ \A p \in Pairs : current'[p].block >= current[p].block
  /\ \A a \in TokenAddresses : tokens'[a].block >= tokens[a].block
                               /\ (tokens[a].type # Unknown => tokens'[a].type = tokens[a].type)
  /\ \A i \in Ids : details'[i].block >= details[i].block
                    /\ (details[i].uri => details'[i].uri)
  /\ balances \subseteq balances'

LEMMA ImpliesImprove ==
  ASSUME IInv, IInv', Improve
  PROVE  RowsImprove
<1>1. TablesTyped /\ TablesTyped'
  BY DEF IInv, TypeOK, TablesTyped
<1>2. ASSUME NEW i \in Ids
      PROVE  details'[i].block >= details[i].block /\ (details[i].uri => details'[i].uri)
  <2>1. /\ details[i] \in [uri : BOOLEAN, readAt : Nat, block : Nat]
        /\ details'[i] \in [uri : BOOLEAN, readAt : Nat, block : Nat]
    BY <1>1 DEF TablesTyped
  <2>2. CASE details'[i] = details[i]
    BY <2>1, <2>2
  <2>3. CASE details[i] = NoDetail
    BY <2>1, <2>3 DEF NoDetail
  <2>4. CASE details'[i].block >= details[i].block /\ details'[i].uri = details[i].uri
    BY <2>4
  <2> QED
    BY <2>2, <2>3, <2>4 DEF Improve
<1> QED
  BY <1>2 DEF RowsImprove, Improve
-----------------------------------------------------------------------------
(* Every item of every job is of its table's types, in every state.        *)
THEOREM Typing == Spec => []TypeOK
<1>1. IInv => TypeOK
  BY DEF IInv
<1> QED
  BY <1>1, Begins, Inductive, PTL DEF Spec

(* However the rounds of however many missions interleave, fail and are    *)
(* retried, a recorded block's transfers are in the tables of their types, *)
(* and in no other.                                                        *)
THEOREM NoTransferMissed == Spec => []TransfersStored
BY Begins, Inductive, ImpliesStored, PTL DEF Spec

(* No round makes the database refuse an upsert for two items of one row.  *)
THEOREM NoUpsertRefused == Spec => []UpsertsTouchARowOnce
BY Begins, Inductive, ImpliesOnce, PTL DEF Spec

(* A token of a recorded block has its row and its type unless a round     *)
(* failed between caching and exporting it; crashes lose none.             *)
THEOREM TokensKeepTheirType == Spec => []TokensDescribed
BY Begins, Inductive, ImpliesDescribed, PTL DEF Spec

(* Current balances, supplies, owners and uris are as new as the last      *)
(* recorded transfer that bears on them, whichever mission wrote last.     *)
THEOREM RowsCurrent == Spec => []RowsAreCurrent
BY Begins, Inductive, ImpliesCurrent, PTL DEF Spec

(* No commit of any mission, in any order, makes a row older or takes its  *)
(* type or uri away.                                                       *)
THEOREM NothingGetsOlder == Spec => RowsOnlyImprove
<1>1. IInv /\ [Next]_vars => IInv' /\ [RowsImprove]_vars
  BY Inductive, ImpliesImprove
<1>2. RowsOnlyImprove <=> [][RowsImprove]_vars
  BY DEF RowsOnlyImprove, RowsImprove
<1> QED
  BY <1>1, <1>2, Begins, PTL DEF Spec
=============================================================================
