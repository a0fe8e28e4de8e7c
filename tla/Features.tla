------------------------------- MODULE Features -------------------------------
(***************************************************************************)
(* The jobs that derive features from the chain data of their round:       *)
(* Uniswap V3 pools and positions, the activeness of addresses and the     *)
(* operations of ERC-4337 bundles.  They come after the chain jobs in the  *)
(* plan of their mission.  The first three keep what they know in memory,  *)
(* read it from their tables when the process starts, and change it before *)
(* the round is exported.                                                  *)
(***************************************************************************)
EXTENDS ChainData

CONSTANTS
  PoolLogs,      \* PoolCreated of the factory, and Swap of any contract
  Pools,         \* what PoolCreated and Swap name as a pool
  FactoryPools,  \* those whose factory() is the factory
  NftLogs,       \* Transfer and liquidity events of the position NFT
  Bundles,       \* transactions with a UserOperationEvent, and their input
  BundleLogs     \* BeforeExecution and UserOperationEvent

ASSUME FeaturesAssumption ==
  /\ FactoryPools \subseteq Pools
  /\ PoolLogs \subseteq [block : Blocks, tx : Nat, at : Nat, kind : {"created", "swap"}, pool : Pools]
  /\ NftLogs \subseteq [block : Blocks, tx : Nat, at : Nat,
                        kind : {"mint", "move", "burn", "liquidity"}, token : Nat, owner : Nat]
  /\ Bundles \subseteq [block : Blocks, tx : Nat, decodes : BOOLEAN, ops : Seq(Nat)]
  /\ BundleLogs \subseteq [block : Blocks, tx : Nat, at : Nat, kind : {"before", "event"}, op : Nat]

(* Finitely many logs, each at a place of its own in a transaction.        *)
Placed(L) ==
  /\ IsFiniteSet(L)
  /\ \A l \in L : \E t \in Transactions :
       t.block = l.block /\ t.index = l.tx /\ l.at \in 1..t.logs
  /\ \A l, m \in L : l.block = m.block /\ l.tx = m.tx /\ l.at = m.at => l = m

IsEvent(l) == l.kind = "event"

(* The factory announces its own pools, and the hash of an operation is    *)
(* that of no other.                                                       *)
ASSUME LogsAssumption ==
  /\ Placed(PoolLogs) /\ Placed(NftLogs) /\ Placed(BundleLogs)
  /\ \A l \in PoolLogs : l.kind = "created" => l.pool \in FactoryPools
  /\ \A u, v \in Bundles : u.block = v.block /\ u.tx = v.tx => u = v
  /\ \A l, m \in BundleLogs : IsEvent(l) /\ IsEvent(m) /\ l.op = m.op => l = m

PoolRecord   == "AllFeatureValueRecordUniswapV3Pool"
TokenRecord  == "AllFeatureValueRecordUniswapV3Token"
ActiveRecord == "AllFeatureValueRecordTraitsActiveness"

(* What a stage needs to have come before it: the dependencies of the jobs *)
(* and the job that makes the items of a type.                             *)
Needs ==
  {<<"transactions_and_logs", "uniswap_pools">>, <<"uniswap_pools", PoolRecord>>,
   <<"uniswap_pools", "UniswapV3Pool">>,
   <<"transactions_and_logs", "uniswap_tokens">>, <<"uniswap_tokens", TokenRecord>>,
   <<"uniswap_tokens", "UniswapV3Token">>,
   <<"contracts", "activeness">>, <<"activeness", ActiveRecord>>,
   <<"activeness", "CurrentTraitsActiveness">>,
   <<"transactions_and_logs", "user_ops">>, <<"user_ops", "UserOperationsResult">>}

(* The filters of a mission ask for the logs of its jobs; the job of the   *)
(* activeness has no filter.                                               *)
SomeLog(L) == {t \in Transactions : \E l \in L : l.block = t.block /\ l.tx = t.index}

ASSUME FeaturePlanAssumption ==
  \A m \in Missions : LET P == PlanOf[m] IN
    /\ \A d \in Needs : \A i \in DOMAIN P : P[i] = d[2] =>
         \E j \in DOMAIN P : j < i /\ P[j] = d[1]
    /\ m \in Filtered => \A i \in DOMAIN P :
         /\ P[i] = "uniswap_pools" => SomeLog(PoolLogs) \subseteq Watched[m]
         /\ P[i] = "uniswap_tokens" => SomeLog(NftLogs) \subseteq Watched[m]
         /\ P[i] = "user_ops" => SomeLog({l \in BundleLogs : IsEvent(l)}) \subseteq Watched[m]
         /\ P[i] # "activeness"

VARIABLES
  found,      \* the items of the feature types in BaseJob._data_buff
  known,      \* _exist_pools: the pools the process knows
  knownIds,   \* _exist_token_ids: the positions it knows
  stats,      \* _latest_address_stats: transactions of an address
  prices,     \* af_ records of pools: <<pool, block>>
  pools,      \* feature_uniswap_v3_pools
  holdings,   \* af_ records of positions: <<owner, block>> and its positions
  positions,  \* feature_uniswap_v3_tokens
  activeness, \* af_ records of activeness: <<address, block>> and the count
  current,    \* current_traits_activeness
  operations, \* user_operations_results
  lost,       \* history: what was known by a round that failed before it was exported
  recounted   \* history: the addresses a failed round had counted

tables == <<prices, pools, holdings, positions, activeness, current, operations>>
caches == <<known, knownIds, stats>>
featureVars == <<found, caches, tables, lost, recounted>>
vars == <<chainVars, featureVars>>

FeatureTypes == {PoolRecord, "UniswapV3Pool", TokenRecord, "UniswapV3Token",
                 ActiveRecord, "CurrentTraitsActiveness", "UserOperationsResult"}
Nothing == [type \in FeatureTypes |-> {}]

Tokens    == {l.token : l \in NftLogs}
Addresses == (UNION {{t.from, t.to} : t \in Transactions}) \ {NoAddress}

NoPool == [block |-> 0, fee |-> FALSE]

FeatureInit ==
  /\ found = Nothing
  /\ known = {} /\ knownIds = {} /\ stats = [a \in Addresses |-> 0]
  /\ prices = {} /\ pools = [p \in Pools |-> NoPool]
  /\ holdings = [x \in {} |-> {}] /\ positions = [i \in Tokens |-> 0]
  /\ activeness = [x \in {} |-> 0] /\ current = [a \in Addresses |-> 0]
  /\ operations = {} /\ lost = {} /\ recounted = {}

Init == ChainInit /\ FeatureInit

(* The logs the node sent of a set of logs.                                *)
Received(L) == {l \in L : Row("Log", l.block, l.tx, l.at) \in buff["Log"]}

Later(l, m) == \/ l.block > m.block
               \/ l.block = m.block /\ l.tx > m.tx
               \/ l.block = m.block /\ l.tx = m.tx /\ l.at > m.at

LatestOf(S) == CHOOSE l \in S : \A m \in S : ~Later(m, l)
LastBlockOf(S) == CHOOSE b \in {l.block : l \in S} : \A l \in S : l.block <= b

(* A function over a larger domain: the rows of an upsert.                 *)
Upsert(f, g) == [x \in DOMAIN f \cup DOMAIN g |-> IF x \in DOMAIN g THEN g[x] ELSE f[x]]

(* A job is done with its items: the first type it exports is next.        *)
Found(items) ==
  /\ found' = items /\ stage' = Next1(stage)
  /\ UNCHANGED <<mission, synced, buff, stored, counts, missed, unanswered, faults>>
-----------------------------------------------------------------------------
(* ExportUniSwapV3PoolJob                                                  *)

(* Of the logs of a contract, a topic and a block, the last one counts;    *)
(* every PoolCreated is a log of the factory.                              *)
LastLogs(L) ==
  {l \in L : \A m \in L :
     (m.kind = l.kind /\ m.block = l.block /\ (l.kind = "swap" => m.pool = l.pool)) => ~Later(m, l)}

Swaps(L, p) == {l \in L : l.kind = "swap" /\ l.pool = p}

(* Pools that are known for no other reason than a swap.                   *)
FirstSwapped(L) == {p \in FactoryPools \ known : Swaps(L, p) # {}}

(* Mutant of NewPools: a pool that swaps is one the factory announced.     *)
NewPoolsAnnounced(L) ==
  {[pool |-> l.pool, block |-> l.block, fee |-> TRUE] : l \in {m \in L : m.kind = "created"}}

(* What a swap tells of a pool takes the place of what PoolCreated told;   *)
(* only PoolCreated tells its fee.                                         *)
NewPools(L) ==
  {[pool |-> l.pool, block |-> l.block, fee |-> TRUE] :
     l \in {m \in L : m.kind = "created" /\ m.pool \notin FirstSwapped(L)}}
    \cup {[pool |-> p, block |-> LastBlockOf(Swaps(L, p)), fee |-> FALSE] : p \in FirstSwapped(L)}

(* A batch of the executor keeps the last price of a pool: of the swaps of *)
(* a round all but the last one may be passed over.                        *)
CollectPools ==
  /\ stage = "uniswap_pools"
  /\ LET L == LastLogs(Received(PoolLogs))
         new == NewPools(L)
         mine == known \cup {r.pool : r \in new}
         swaps == {l \in L : l.kind = "swap" /\ l.pool \in mine}
     IN \E priced \in SUBSET swaps :
          /\ \A p \in mine : Swaps(L, p) # {} => LatestOf(Swaps(L, p)) \in priced
          /\ known' = mine
          /\ Found([found EXCEPT !["UniswapV3Pool"] = new,
                                 ![PoolRecord] = {<<l.pool, l.block>> : l \in priced}])
  /\ UNCHANGED <<knownIds, stats, tables, lost, recounted>>
-----------------------------------------------------------------------------
(* ExportUniSwapV3TokensJob                                                *)

Owner(i, b) ==
  LatestOf({l \in NftLogs : l.token = i /\ l.kind # "liquidity" /\ l.block <= b}).owner

(* The positions to ask for and the blocks: none up to the block in which  *)
(* the round burns the position.                                           *)
Touched(L) ==
  {<<l.token, l.block>> : l \in
     {m \in L : \A n \in L : (n.kind = "burn" /\ n.token = m.token) => n.block < m.block}}

(* The row of a new position names one of the blocks it was asked for at.  *)
NewPositions(T, new) ==
  /\ {r.token : r \in new} = {x[1] : x \in T} \ knownIds
  /\ \A r, s \in new : r.token = s.token => r = s

Holdings(T) ==
  LET keys == {<<Owner(x[1], x[2]), x[2]>> : x \in T} IN
  {<<k, {x[1] : x \in {y \in T : y[2] = k[2] /\ Owner(y[1], y[2]) = k[1]}}>> : k \in keys}

CollectPositions ==
  /\ stage = "uniswap_tokens"
  /\ LET T == Touched(Received(NftLogs)) IN
     \E new \in SUBSET {[token |-> x[1], block |-> x[2]] : x \in T} :
       /\ NewPositions(T, new)
       /\ knownIds' = knownIds \cup {r.token : r \in new}
       /\ Found([found EXCEPT !["UniswapV3Token"] = new, ![TokenRecord] = Holdings(T)])
  /\ UNCHANGED <<known, stats, tables, lost, recounted>>
-----------------------------------------------------------------------------
(* ExportAllFeatureDayMiningActivenessJob                                  *)

(* txn_count of an address among some transactions.                        *)
CountOf(T, a) == Cardinality({t \in T : t.from = a \/ t.to = a})

InBlocks(T, a) == {t.block : t \in {u \in T : u.from = a \/ u.to = a}}
UpTo(T, b) == {t \in T : t.block <= b}

(* A contract of the round is added to a dictionary instead of to the      *)
(* number in it: the job raises, in every attempt.                         *)
CollectActiveness ==
  /\ stage = "activeness"
  /\ buff["Contract"] = {}
  /\ LET T == {t \in Transactions : InBuffer(t)}
         keys == UNION {{<<a, b>> : b \in InBlocks(T, a)} : a \in Addresses}
         counted == [k \in keys |-> stats[k[1]] + CountOf(UpTo(T, k[2]), k[1])]
     IN /\ stats' = [a \in Addresses |-> stats[a] + CountOf(T, a)]
        /\ Found([found EXCEPT
                    ![ActiveRecord] = {<<k, counted[k]>> : k \in keys},
                    !["CurrentTraitsActiveness"] =
                      {<<a, stats[a] + CountOf(T, a)>> : a \in {k[1] : k \in keys}}])
  /\ UNCHANGED <<known, knownIds, tables, lost, recounted>>
-----------------------------------------------------------------------------
(* ExportUserOpsJob                                                        *)

(* Logs of a transaction, in their order.                                  *)
Rank(l, L)  == Cardinality({m \in L : m.at < l.at})
InOrder(L)  == [i \in 1..Cardinality(L) |-> CHOOSE l \in L : Rank(l, L) = i - 1]

LogSet(u)   == {l \in BundleLogs : l.block = u.block /\ l.tx = u.tx}
LogsOf(u)   == InOrder(LogSet(u))
EventsOf(u) == InOrder({l \in LogSet(u) : IsEvent(l)})

(* Mutant of Matches: the sender and the nonce are not looked at.          *)
MatchesByCount(u) == Len(u.ops) = Len(EventsOf(u))

(* A BeforeExecution after another log, a different number of operations   *)
(* or an operation that is not that of its event: no results.              *)
Matches(u) ==
  /\ \A i \in DOMAIN LogsOf(u) : LogsOf(u)[i].kind = "before" => i = 1
  /\ Len(u.ops) = Len(EventsOf(u))
  /\ \A i \in DOMAIN u.ops : i < Len(LogsOf(u)) => u.ops[i] = EventsOf(u)[i].op

(* Each operation is given a log and the one after it: the second one is   *)
(* its event where there is a BeforeExecution; where there is none the     *)
(* first one is, and the last operation is left out.                       *)
ResultsOf(u) ==
  {[block |-> u.block, tx |-> u.tx, op |-> EventsOf(u)[i].op, input |-> u.ops[i],
    start |-> LogsOf(u)[i].at, end |-> LogsOf(u)[i + 1].at] :
     i \in {j \in DOMAIN u.ops : j < Len(LogsOf(u))}}

(* Every transaction with an event is taken for a call of handleOps: one   *)
(* whose input cannot be decoded raises, in every attempt.                 *)
CollectOperations ==
  /\ stage = "user_ops"
  /\ LET U == {u \in Bundles : \E l \in Received(BundleLogs) :
                 l.block = u.block /\ l.tx = u.tx /\ IsEvent(l)}
     IN /\ \A u \in U : u.decodes
        /\ Found([found EXCEPT
                    !["UserOperationsResult"] = UNION {ResultsOf(u) : u \in {v \in U : Matches(v)}}])
  /\ UNCHANGED <<caches, tables, lost, recounted>>
-----------------------------------------------------------------------------
(* The commits: every table is updated always, except that of the          *)
(* operations, which keeps the first row of a hash.                        *)

AsFunction(S) == [x \in {y[1] : y \in S} |-> (CHOOSE y \in S : y[1] = x)[2]]

Advance ==
  /\ stage' = Next1(stage)
  /\ UNCHANGED <<mission, synced, buff, stored, counts, missed, unanswered, faults>>
  /\ UNCHANGED <<found, caches, lost, recounted>>

CommitPrices ==
  /\ stage = PoolRecord
  /\ prices' = prices \cup found[PoolRecord]
  /\ Advance /\ UNCHANGED <<pools, holdings, positions, activeness, current, operations>>

CommitPools ==
  /\ stage = "UniswapV3Pool"
  /\ pools' = Upsert(pools, AsFunction({<<r.pool, [block |-> r.block, fee |-> r.fee]>> :
                                          r \in found["UniswapV3Pool"]}))
  /\ Advance /\ UNCHANGED <<prices, holdings, positions, activeness, current, operations>>

CommitHoldings ==
  /\ stage = TokenRecord
  /\ holdings' = Upsert(holdings, AsFunction(found[TokenRecord]))
  /\ Advance /\ UNCHANGED <<prices, pools, positions, activeness, current, operations>>

CommitPositions ==
  /\ stage = "UniswapV3Token"
  /\ positions' = Upsert(positions, AsFunction({<<r.token, r.block>> : r \in found["UniswapV3Token"]}))
  /\ Advance /\ UNCHANGED <<prices, pools, holdings, activeness, current, operations>>

CommitActiveness ==
  /\ stage = ActiveRecord
  /\ activeness' = Upsert(activeness, AsFunction(found[ActiveRecord]))
  /\ Advance /\ UNCHANGED <<prices, pools, holdings, positions, current, operations>>

CommitCurrent ==
  /\ stage = "CurrentTraitsActiveness"
  /\ current' = Upsert(current, AsFunction(found["CurrentTraitsActiveness"]))
  /\ Advance /\ UNCHANGED <<prices, pools, holdings, positions, activeness, operations>>

CommitOperations ==
  /\ stage = "UserOperationsResult"
  /\ operations' = operations \cup
       {r \in found["UserOperationsResult"] : \A s \in operations : s.op # r.op}
  /\ Advance /\ UNCHANGED <<prices, pools, holdings, positions, activeness, current>>

CollectFeatures ==
  CollectPools \/ CollectPositions \/ CollectActiveness \/ CollectOperations
CommitFeatures ==
  \/ CommitPrices \/ CommitPools \/ CommitHoldings \/ CommitPositions
  \/ CommitActiveness \/ CommitCurrent \/ CommitOperations
-----------------------------------------------------------------------------
(* The end of a round.  What a process knows outlives a round that fails,  *)
(* and is read from the tables when the process is started again.          *)

RowsOfPools     == {p \in Pools : pools[p] # NoPool}
RowsOfPositions == {i \in Tokens : positions[i] # 0}

(* Known now without a row in the table.                                   *)
Unexported == (known \ RowsOfPools) \cup (knownIds \ RowsOfPositions)
Counted == {x[1] : x \in found["CurrentTraitsActiveness"]}

FeaturesRecord == /\ Record /\ found' = Nothing
                  /\ UNCHANGED <<caches, tables, lost, recounted>>

(* The round is dropped, not what the process knows.                       *)
Dropped ==
  /\ found' = Nothing
  /\ lost' = lost \cup Unexported /\ recounted' = recounted \cup Counted
  /\ UNCHANGED <<caches, tables>>

FeaturesRaise == ReceiptMissing /\ Dropped
FeaturesFail  == RoundFails /\ Dropped

(* get_exist_pools; get_exist_token_ids keys its result by tuples, which   *)
(* no id is ever found among.                                              *)
KnownPools == RowsOfPools

(* Mutant of Reloaded: the process starts from zero.                       *)
ReloadedZero == [a \in Addresses |-> 0]

(* get_latest_address_stats_from_pg.                                       *)
Reloaded == current

FeaturesRestart ==
  /\ Restart
  /\ found' = Nothing
  /\ known' = KnownPools /\ knownIds' = {} /\ stats' = Reloaded
  /\ recounted' = recounted \cup (IF Passed("CurrentTraitsActiveness") THEN Counted ELSE {})
  /\ UNCHANGED <<tables, lost>>

Step ==
  \/ Collect /\ UNCHANGED featureVars
  \/ Commit /\ UNCHANGED featureVars
  \/ CollectFeatures
  \/ CommitFeatures
  \/ FeaturesRecord
  \/ FeaturesRaise

Next == Step \/ FeaturesFail \/ FeaturesRestart

Spec == Init /\ [][Next]_vars

(* A round goes on as long as no exception ends it; the controller starts  *)
(* the next one at once.                                                   *)
FairSpec == Spec /\ WF_vars(Step)
-----------------------------------------------------------------------------
(* The state and what a commit is given are of their types.                *)
TypeOK ==
  /\ ChainTypeOK
  /\ known \subseteq Pools /\ knownIds \subseteq Tokens
  /\ stats \in [Addresses -> Nat] /\ current \in [Addresses -> Nat]
  /\ prices \cup found[PoolRecord] \subseteq FactoryPools \X Blocks
  /\ \A r \in found["UniswapV3Pool"] : r.pool \in known
  /\ \A r \in found["UniswapV3Token"] : r.token \in knownIds
  /\ positions \in [Tokens -> Nat]
  /\ \A k \in DOMAIN holdings : holdings[k] \subseteq Tokens /\ k[2] \in Blocks
  /\ DOMAIN activeness \subseteq Addresses \X Blocks
  /\ \A r \in operations : r.start <= r.end
  /\ lost \subseteq Pools \cup Tokens /\ recounted \subseteq Addresses

(* The logs of the recorded blocks that the node sent.                     *)
Recorded(L) ==
  {l \in L : /\ l.block <= synced
             /\ BlockRow(l.block) \notin unanswered
             /\ Row(Receipts, l.block, l.tx, 0) \notin unanswered}

BurnedBy(b) == {l.token : l \in {m \in NftLogs : m.kind = "burn" /\ m.block <= b}}

(* The newest price of a pool of the factory is recorded with its block,   *)
(* and a pool with a price, or a position with an owner, has a row that    *)
(* describes it, unless a round that came to know it failed before it      *)
(* exported it: the process then takes it for known until it ends.  (A     *)
(* position is passed over once its round burns it.)                       *)
KnownIsStored ==
  /\ \A p \in FactoryPools :
       LET S == Swaps(Recorded(PoolLogs), p) IN
       S # {} => /\ Runs(PoolRecord) => <<p, LastBlockOf(S)>> \in prices
                 /\ Runs("UniswapV3Pool") => p \in RowsOfPools \cup lost
  /\ Runs("UniswapV3Token") => \A k \in DOMAIN holdings :
       {l \in NftLogs : l.block = k[2]} \subseteq Recorded(NftLogs) =>
         holdings[k] \subseteq RowsOfPositions \cup lost \cup BurnedBy(synced)

(* The transactions of an address are counted once, however rounds and     *)
(* processes end, except those that a failed round counted: they are       *)
(* counted again when it is retried.  None is ever left out.               *)
ActivenessExact ==
  Runs(ActiveRecord) /\ Runs("CurrentTraitsActiveness") =>
    LET T == {t \in Transactions : t.block <= synced /\ BlockRow(t.block) \notin unanswered} IN
    /\ \A a \in Addresses :
         /\ current[a] >= CountOf(T, a)
         /\ a \notin recounted /\ ~Passed("CurrentTraitsActiveness")
              => current[a] = CountOf(T, a)
    /\ \A k \in DOMAIN activeness :
         (k[1] \notin recounted /\ k[2] <= synced /\ BlockRow(k[2]) \notin unanswered)
           => activeness[k] = CountOf(UpTo(T, k[2]), k[1])

(* BeforeExecution first, then the event of each operation in the order of *)
(* the input.                                                              *)
Regular(u) ==
  /\ Len(LogsOf(u)) = Len(u.ops) + 1 /\ LogsOf(u)[1].kind = "before"
  /\ \A i \in DOMAIN u.ops : LogsOf(u)[i + 1].kind = "event" /\ LogsOf(u)[i + 1].op = u.ops[i]

(* Every operation of a recorded regular bundle has a row, whose logs end  *)
(* with its event; in any bundle, the logs of two operations do not        *)
(* overlap and a row joins an event with the input of its operation.       *)
OperationsArePaired ==
  /\ Runs("UserOperationsResult") =>
       \A u \in Bundles : Regular(u) =>
         \A l \in {e \in Recorded(BundleLogs) : IsEvent(e) /\ e.block = u.block /\ e.tx = u.tx} :
           \E r \in operations : r.op = l.op /\ r.end = l.at /\ r.tx = u.tx /\ r.block = u.block
  /\ \A r \in operations : r.input = r.op
  /\ \A r, s \in operations :
       r # s /\ r.block = s.block /\ r.tx = s.tx => r.end <= s.start \/ s.end <= r.start

(* What no attempt gets past: a block without transactions, for traces; a  *)
(* created contract, for activeness; a bundle whose input is not a call of *)
(* handleOps, for operations.                                              *)
Obstacle(b) ==
  \/ Runs("traces") /\ ~HasTransactions(b)
  \/ Runs("activeness") /\ \E c \in Calls : c.block = b /\ Creates(c)
  \/ Runs("user_ops") /\ \E u \in Bundles : u.block = b /\ ~u.decodes

(* A mission gets to its end block, or to a round with an obstacle in it:  *)
(* nothing else, neither a failed round nor a restart, holds it up.        *)
Reaches == <>[](synced = EndBlock \/ \E b \in Round : Obstacle(b))
===============================================================================
