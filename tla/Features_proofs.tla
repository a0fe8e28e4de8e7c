---------------------------- MODULE Features_proofs ----------------------------
(***************************************************************************)
(* The chain and the feature jobs keep the promises of Tables, for every   *)
(* chain, every set of missions whose plans respect the dependencies, and  *)
(* any number of omitted answers, failures and restarts.                   *)
(***************************************************************************)
EXTENDS Features, TLAPS, FiniteSetTheorems, WellFoundedInduction

(* A round runs only while there are blocks left.                          *)
Staged ==
  /\ mission \in Missions
  /\ \E i \in DOMAIN Plan : stage = Plan[i]
  /\ synced \in Nat /\ StartBlock - 1 <= synced
  /\ stage # "blocks" => synced < EndBlock
  /\ stored \subseteq Rows

(* The items of a type are rows of the blocks of the round, each with the  *)
(* row it refers to among the items of the type above.                     *)
ItemOf(t, r) ==
  /\ r \in Rows /\ r.kind = t
  /\ synced < r.block /\ r.block <= synced + Steps
  /\ t # "Block" => ParentOf[r] \in buff[TypeAbove[t]]
Filled ==
  /\ DOMAIN buff = Types \cup {Receipts}
  /\ \A t \in RowTypes : \A r \in buff[t] : ItemOf(t, r)

(* What a job has not collected yet is not there, and what was exported is.*)
Fresh == \A t \in RowTypes : ~Passed(JobOf[t]) => buff[t] = {}
Exported == \A t \in RowTypes : Passed(t) => buff[t] \subseteq stored

IInv == Staged /\ Filled /\ Fresh /\ Exported

(* What each job that is passed owes to the answers it was given.          *)
Missing(kind, b) == \E r \in missed : r.kind = kind /\ r.block = b

Dated == /\ \A r \in missed : r.block \in Round
         /\ \A r \in unanswered : r.block \in StartBlock..synced
Replaced ==
  \A r \in missed : r.kind = "Unavailable" =>
    Passed("traces") /\ PlaceholderRow(r.block) \in buff["Trace"]
BlocksTold ==
  mission \notin Filtered /\ Passed("blocks") =>
    \A b \in Round : Missing("Block", b) \/ BlockRow(b) \in buff["Block"]
TransactionsTold ==
  mission \notin Filtered =>
    \A t \in Transactions : BlockRow(t.block) \in buff["Block"] => InBuffer(t)
LogsTold ==
  Passed("transactions_and_logs") =>
    \A t \in Transactions : TransactionRow(t) \in buff[Receipts] =>
      \A i \in 1..t.logs : LogRow(t, i) \in buff["Log"]
ReceiptsTold == Passed("Transaction") => AllFilled
TracesTold ==
  Passed("traces") =>
    \A c \in Calls : BlockRow(c.block) \in buff["Block"] =>
      \/ Missing("Trace", c.block) \/ Missing("Unavailable", c.block)
      \/ /\ TraceRow(c) \in buff["Trace"]
         /\ Internal(c) => InternalRow(c) \in buff["ContractInternalTransaction"]
ContractsTold ==
  Passed("contracts") =>
    \A c \in Calls : TraceRow(c) \in buff["Trace"] /\ Creates(c) =>
      ContractRow(c) \in buff["Contract"] \cup missed
BalancesTold ==
  Passed("coin_balances") =>
    \A r \in buff["Block"] :
      \A a \in Parties(r.block, {t \in Transactions : InBuffer(t)},
                       {c \in Calls : InternalRow(c) \in buff["ContractInternalTransaction"]}) :
        BalanceRow(r.block, a) \in buff["CoinBalance"] \cup missed

Told ==
  /\ Dated /\ Replaced /\ BlocksTold /\ TransactionsTold /\ LogsTold
  /\ ReceiptsTold /\ TracesTold /\ ContractsTold /\ BalancesTold
-----------------------------------------------------------------------------
(* The rows and what they refer to.                                        *)

(* The row of a block, and the placeholder of its traces.                   *)
LEMMA BlockFields ==
  ASSUME NEW b \in Blocks
  PROVE  /\ BlockRow(b) \in Rows /\ BlockRow(b).kind = "Block" /\ BlockRow(b).block = b
         /\ PlaceholderRow(b) \in Rows /\ PlaceholderRow(b).kind = "Trace"
         /\ PlaceholderRow(b).block = b
         /\ ParentOf[BlockRow(b)] = NoRow /\ ParentOf[PlaceholderRow(b)] = BlockRow(b)
<1>1. BlockRow(b) \in Rows /\ PlaceholderRow(b) \in Rows
  BY DEF Rows
<1> QED
  BY <1>1 DEF ParentOf, BlockRow, PlaceholderRow, Row

(* The rows of a transaction and of its logs.                               *)
LEMMA TransactionFields ==
  ASSUME NEW t \in Transactions
  PROVE  /\ TransactionRow(t) \in Rows /\ TransactionRow(t).kind = "Transaction"
         /\ TransactionRow(t).block = t.block /\ t.block \in Blocks
         /\ ParentOf[TransactionRow(t)] = BlockRow(t.block)
         /\ \A i \in 1..t.logs :
              /\ LogRow(t, i) \in Rows /\ LogRow(t, i).kind = "Log"
              /\ LogRow(t, i).block = t.block
              /\ ParentOf[LogRow(t, i)] = TransactionRow(t)
<1>1. TransactionRow(t) \in Rows /\ \A i \in 1..t.logs : LogRow(t, i) \in Rows
  BY DEF Rows
<1>2. t.block \in Blocks
  BY ChainAssumption
<1> QED
  BY <1>1, <1>2 DEF ParentOf, BlockRow, TransactionRow, LogRow, Row

(* The rows of a call.                                                      *)
LEMMA CallFields ==
  ASSUME NEW c \in Calls
  PROVE  /\ c.block \in Blocks
         /\ TraceRow(c) \in Rows /\ TraceRow(c).kind = "Trace" /\ TraceRow(c).block = c.block
         /\ ParentOf[TraceRow(c)] = BlockRow(c.block)
         /\ InternalRow(c) \in Rows /\ InternalRow(c).kind = "ContractInternalTransaction"
         /\ InternalRow(c).block = c.block /\ ParentOf[InternalRow(c)] = TraceRow(c)
         /\ ContractRow(c) \in Rows /\ ContractRow(c).kind = "Contract"
         /\ ContractRow(c).block = c.block /\ ParentOf[ContractRow(c)] = TraceRow(c)
<1>1. TraceRow(c) \in Rows /\ InternalRow(c) \in Rows /\ ContractRow(c) \in Rows
  BY DEF Rows
<1>2. c.block \in Blocks
  BY ChainAssumption
<1> QED
  BY <1>1, <1>2 DEF ParentOf, BlockRow, TraceRow, InternalRow, ContractRow, Row

(* The row of a balance of someone who had a part in a block.               *)
LEMMA BalanceFields ==
  ASSUME NEW b \in Blocks, NEW T \in SUBSET Transactions, NEW C \in SUBSET Calls,
         NEW a \in Parties(b, T, C)
  PROVE  /\ BalanceRow(b, a) \in Rows /\ BalanceRow(b, a).kind = "CoinBalance"
         /\ BalanceRow(b, a).block = b /\ ParentOf[BalanceRow(b, a)] = BlockRow(b)
<1>1. a \in Parties(b, Transactions, Calls)
  BY DEF Parties, PartiesOfCalls
<1>2. BalanceRow(b, a) \in Rows
  BY <1>1 DEF Rows
<1> QED
  BY <1>2 DEF ParentOf, BlockRow, BalanceRow, Row

(* A row of a block is told by its number.                                 *)
LEMMA BlockRows ==
  ASSUME NEW r \in Rows, r.kind = "Block"
  PROVE  r.block \in Blocks /\ r = BlockRow(r.block)
BY DEF Rows, BlockRow, PlaceholderRow, TransactionRow, LogRow, TraceRow, InternalRow,
       ContractRow, BalanceRow, Row
-----------------------------------------------------------------------------
(* The plan of a mission.                                                  *)

(* A stage comes once in a plan.                                           *)
LEMMA PositionOf ==
  ASSUME mission \in Missions, NEW i \in DOMAIN Plan
  PROVE  Position(Plan[i]) = i
BY PlanAssumption DEF Plan, Position

(* What a plan is, for the mission at hand.                                *)
LEMMA PlanFacts ==
  ASSUME mission \in Missions
  PROVE  /\ Len(Plan) \in Nat /\ Len(Plan) > 1 /\ DOMAIN Plan = 1..Len(Plan)
         /\ Plan[1] = "blocks" /\ Plan[Len(Plan)] = "record"
         /\ \A i, j \in DOMAIN Plan : Plan[i] = Plan[j] => i = j
         /\ \A i \in DOMAIN Plan : Plan[i] \in RowTypes =>
              \E j \in DOMAIN Plan : j < i /\ Plan[j] = JobOf[Plan[i]]
         /\ \A i \in DOMAIN Plan : Plan[i] \in RowTypes \ {"Block"} =>
              \E j \in DOMAIN Plan : j < i /\ Plan[j] = TypeAbove[Plan[i]]
         /\ \A i, j \in DOMAIN Plan : <<Plan[i], Plan[j]>> \in Order => i < j
BY PlanAssumption DEF Plan

(* A step to the next stage: it exists, and the stage before it is passed. *)
LEMMA NextStage ==
  ASSUME Staged, stage # "record", stage' = Next1(stage), mission' = mission
  PROVE  /\ \E i \in DOMAIN Plan : stage' = Plan[i]
         /\ stage' # "blocks"
         /\ \A s : Passed(s)' <=> (Passed(s) \/ s = stage)
<1>1. PICK n \in DOMAIN Plan : stage = Plan[n]
  BY DEF Staged
<1>2. mission \in Missions /\ Plan' = Plan
  BY DEF Staged, Plan
<1>3. Position(stage) = n
  BY <1>1, <1>2, PositionOf
<1>4. n # Len(Plan)
  BY <1>1, <1>2, PlanFacts
<1>5. n \in 1..Len(Plan) /\ Len(Plan) \in Nat
  BY <1>2, PlanFacts
<1>6. n + 1 \in DOMAIN Plan /\ n + 1 # 1
  BY <1>4, <1>5, <1>2, PlanFacts
<1>7. stage' = Plan[n + 1]
  BY <1>3 DEF Next1
<1>8. Position(stage') = n + 1
  BY <1>2, <1>6, <1>7, PositionOf
<1>9. Position(stage)' = n + 1
  BY <1>2, <1>8 DEF Position
<1>10. stage' # "blocks"
  BY <1>2, <1>6, <1>7, PlanFacts
<1>11. ASSUME NEW s PROVE Passed(s)' <=> (Passed(s) \/ s = stage)
  <2>1. Passed(s)' <=> \E i \in DOMAIN Plan : Plan[i] = s /\ i < n + 1
    BY <1>2, <1>9 DEF Passed
  <2>2. Passed(s) <=> \E i \in DOMAIN Plan : Plan[i] = s /\ i < n
    BY <1>3 DEF Passed
  <2>3. \A i \in DOMAIN Plan : i < n + 1 <=> (i < n \/ i = n)
    BY <1>2, <1>5, PlanFacts
  <2> QED
    BY <2>1, <2>2, <2>3, <1>1
<1> QED
  BY <1>6, <1>7, <1>10, <1>11

(* Nothing is passed at the first stage.                                   *)
LEMMA FirstStage ==
  ASSUME mission \in Missions, stage = "blocks"
  PROVE  (\E i \in DOMAIN Plan : stage = Plan[i]) /\ \A s : ~Passed(s)
<1>1. 1 \in DOMAIN Plan /\ stage = Plan[1]
  BY PlanFacts
<1>2. Position(stage) = 1
  BY <1>1, PositionOf
<1>3. \A i \in DOMAIN Plan : ~(i < 1)
  BY PlanFacts
<1> QED
  BY <1>1, <1>2, <1>3 DEF Passed

(* A job at its stage has exported none of its types, and a type at its    *)
(* stage comes after the type it refers to.                                *)
LEMMA StageOrder ==
  ASSUME Staged
  PROVE  /\ \A t \in RowTypes : JobOf[t] = stage => ~Passed(t)
         /\ ~Passed(stage)
         /\ stage \in RowTypes \ {"Block"} => Passed(TypeAbove[stage])
         /\ \A s : <<stage, s>> \in Order => ~Passed(s)
<1>1. PICK n \in DOMAIN Plan : stage = Plan[n]
  BY DEF Staged
<1>2. mission \in Missions
  BY DEF Staged
<1>3. Position(stage) = n
  BY <1>1, <1>2, PositionOf
<1>4. \A s : Passed(s) <=> \E i \in DOMAIN Plan : Plan[i] = s /\ i < n
  BY <1>3 DEF Passed
<1>5. n \in Nat /\ \A i \in DOMAIN Plan : i \in Nat
  BY <1>2, PlanFacts
<1>6. ASSUME NEW t \in RowTypes, JobOf[t] = stage, Passed(t) PROVE FALSE
  <2>1. PICK i \in DOMAIN Plan : Plan[i] = t /\ i < n
    BY <1>4, <1>6
  <2>2. PICK j \in DOMAIN Plan : j < i /\ Plan[j] = JobOf[t]
    BY <1>2, <2>1, PlanFacts
  <2>3. j = n
    BY <1>1, <1>2, <1>6, <2>2, PlanFacts
  <2> QED
    BY <1>5, <2>1, <2>2, <2>3
<1>7. ~Passed(stage)
  BY <1>1, <1>2, <1>4, <1>5, PlanFacts
<1>8. stage \in RowTypes \ {"Block"} => Passed(TypeAbove[stage])
  BY <1>1, <1>2, <1>4, PlanFacts
<1>9. ASSUME NEW s, <<stage, s>> \in Order, Passed(s) PROVE FALSE
  <2>1. PICK i \in DOMAIN Plan : Plan[i] = s /\ i < n
    BY <1>4, <1>9
  <2>2. n < i
    BY <1>1, <1>2, <1>9, <2>1, PlanFacts
  <2> QED
    BY <1>5, <2>1, <2>2
<1> QED
  BY <1>6, <1>7, <1>8, <1>9
-----------------------------------------------------------------------------
(* A commit, or a step of a job that has no row: on to the next stage.     *)
LEMMA Exports ==
  ASSUME IInv, stage # "record", stage' = Next1(stage),
         UNCHANGED <<mission, synced, buff>>,
         stored \subseteq stored', stored' \subseteq Rows,
         stage \in RowTypes => buff[stage] \subseteq stored',
         \A t \in RowTypes : JobOf[t] # stage
  PROVE  IInv'
<1>1. /\ \E i \in DOMAIN Plan : stage' = Plan[i]
      /\ stage' # "blocks"
      /\ \A s : Passed(s)' <=> (Passed(s) \/ s = stage)
  BY NextStage DEF IInv
<1>2. Staged'
  <2>1. stage # "blocks"
    BY DEF JobOf, RowTypes, Types
  <2> QED
    BY <1>1, <2>1 DEF IInv, Staged, Plan
<1>3. Filled'
  BY DEF IInv, Filled, ItemOf
<1>4. Fresh'
  BY <1>1 DEF IInv, Fresh
<1>5. Exported'
  BY <1>1 DEF IInv, Exported
<1> QED
  BY <1>2, <1>3, <1>4, <1>5 DEF IInv

(* A job has collected the items of its types and of no other.             *)
LEMMA Collects ==
  ASSUME IInv, stage # "record", stage' = Next1(stage), synced < EndBlock,
         UNCHANGED <<mission, synced, stored>>,
         Filled', stage \notin RowTypes,
         \A t \in RowTypes : JobOf[t] # stage => buff'[t] = buff[t]
  PROVE  IInv'
<1>1. /\ \E i \in DOMAIN Plan : stage' = Plan[i]
      /\ stage' # "blocks"
      /\ \A s : Passed(s)' <=> (Passed(s) \/ s = stage)
  BY NextStage DEF IInv
<1>2. Staged'
  BY <1>1 DEF IInv, Staged, Plan
<1>3. Fresh'
  BY <1>1 DEF IInv, Fresh
<1>4. ASSUME NEW t \in RowTypes, Passed(t)' PROVE buff'[t] \subseteq stored'
  <2>1. Passed(t)
    BY <1>1, <1>4
  <2>2. JobOf[t] # stage
    BY <2>1, StageOrder DEF IInv
  <2> QED
    BY <2>1, <2>2 DEF IInv, Exported
<1> QED
  BY <1>2, <1>3, <1>4 DEF IInv, Exported

(* A round begins, with nothing collected.                                 *)
Begun ==
  /\ mission \in Missions /\ stage = "blocks" /\ buff = Empty /\ stored \subseteq Rows
  /\ synced \in Nat /\ StartBlock - 1 <= synced

(* A round that begins has nothing in its buffer.                           *)
LEMMA Begins == Begun => IInv
<1> SUFFICES ASSUME Begun PROVE IInv
  OBVIOUS
<1>1. (\E i \in DOMAIN Plan : stage = Plan[i]) /\ \A s : ~Passed(s)
  BY FirstStage DEF Begun
<1>2. DOMAIN buff = Types \cup {Receipts} /\ \A t \in RowTypes : buff[t] = {}
  BY DEF Begun, Empty, RowTypes
<1> QED
  BY <1>1, <1>2 DEF Begun, IInv, Staged, Filled, Fresh, Exported

(* The same of the next state.                                              *)
LEMMA BeginsNext == Begun' => IInv'
BY Begins, PTL
-----------------------------------------------------------------------------
(* The jobs.                                                               *)

(* The blocks of a round are those after the recorded one.                 *)
LEMMA RoundBlocks ==
  ASSUME synced \in Nat /\ StartBlock - 1 <= synced, NEW b \in Round
  PROVE  b \in Blocks /\ synced < b /\ b <= synced + Steps
BY ChainAssumption DEF Round, RoundEnd, Blocks

(* The blocks a row may be of are those of the round.                       *)
LEMMA InTheRound ==
  ASSUME IInv, NEW b \in Blocks, synced < b, b <= synced + Steps
  PROVE  b \in Round
BY ChainAssumption DEF IInv, Staged, Round, RoundEnd, Blocks

(* What a job collects are rows that refer to rows of the buffer, and the   *)
(* job owes nothing more to the answers: the blocks and transactions.       *)
LEMMA BlocksCollected == IInv /\ CollectBlocks => IInv' /\ (Told => Told')
<1> SUFFICES ASSUME IInv, CollectBlocks PROVE IInv' /\ (Told => Told')
  OBVIOUS
<1>1. PICK gone \in SUBSET Requested :
        Collected([buff EXCEPT
                    !["Block"] = {BlockRow(b) : b \in Requested \ gone},
                    !["Transaction"] =
                      {TransactionRow(t) : t \in {u \in Transactions :
                                      u.block \in Requested \ gone /\ Wanted(u)}}],
                 {BlockRow(b) : b \in gone})
  BY DEF CollectBlocks
<1> DEFINE got == Requested \ gone
<1>2. /\ stage = "blocks" /\ synced < EndBlock /\ stage' = Next1(stage)
      /\ UNCHANGED <<mission, synced, stored>>
  BY <1>1 DEF CollectBlocks, Collected
<1>3. DOMAIN buff = Types \cup {Receipts}
  BY DEF IInv, Filled
<1>4. /\ buff'["Block"] = {BlockRow(b) : b \in got}
      /\ buff'["Transaction"] =
           {TransactionRow(t) : t \in {u \in Transactions : u.block \in got /\ Wanted(u)}}
      /\ \A t \in RowTypes : t \notin {"Block", "Transaction"} => buff'[t] = buff[t]
      /\ DOMAIN buff' = Types \cup {Receipts}
  BY <1>1, <1>3 DEF Collected, Types, RowTypes
<1>5. \A t \in RowTypes : buff[t] = {}
  BY <1>2, FirstStage DEF IInv, Staged, Fresh
<1>6. \A b \in got : b \in Blocks /\ synced < b /\ b <= synced + Steps
  BY RoundBlocks DEF Requested, IInv, Staged
<1>7. \A r \in buff'["Block"] : ItemOf("Block", r)'
  BY <1>2, <1>4, <1>6, BlockFields DEF ItemOf
<1>8. \A r \in buff'["Transaction"] : ItemOf("Transaction", r)'
  BY <1>2, <1>4, <1>6, TransactionFields DEF ItemOf, TypeAbove
<1>9. Filled'
  BY <1>4, <1>5, <1>7, <1>8 DEF Filled
<1>10. \A t \in RowTypes : JobOf[t] # stage => buff'[t] = buff[t]
  BY <1>2, <1>4 DEF JobOf, RowTypes, Types
<1>11. IInv'
  BY <1>2, <1>9, <1>10, Collects DEF RowTypes, Types
<1>12. /\ missed' = missed \cup {BlockRow(b) : b \in gone} /\ unanswered' = unanswered
       /\ \A s : Passed(s)' <=> s = "blocks"
  BY <1>1, <1>2, NextStage, FirstStage DEF Collected, IInv, Staged
<1>13. ASSUME Told PROVE Told'
  <2>1. \A r \in {BlockRow(b) : b \in gone} : r.block \in Round /\ r.kind = "Block"
    BY RoundBlocks, BlockFields DEF Requested, IInv, Staged
  <2>2. Dated'
    BY <1>2, <1>12, <1>13, <2>1 DEF Told, Dated, Round, RoundEnd
  <2>3. Replaced'
    BY <1>2, <1>12, <1>13, <2>1, FirstStage DEF Told, Replaced, IInv, Staged
  <2>4. ASSUME mission \notin Filtered, NEW b \in Round
        PROVE  Missing("Block", b)' \/ BlockRow(b) \in buff'["Block"]
    <3>1. b \in Requested /\ b \in Blocks
      BY <2>4, RoundBlocks DEF Requested, IInv, Staged
    <3>2. CASE b \in gone
      BY <1>12, <3>1, <3>2, BlockFields DEF Missing
    <3> QED
      BY <1>4, <3>1, <3>2
  <2>5. BlocksTold'
    BY <1>2, <2>4 DEF BlocksTold, Round, RoundEnd
  <2>6. ASSUME mission \notin Filtered, NEW t \in Transactions,
               BlockRow(t.block) \in buff'["Block"]
        PROVE  TransactionRow(t) \in buff'["Transaction"]
    <3>1. PICK b \in got : BlockRow(t.block) = BlockRow(b)
      BY <1>4, <2>6
    <3>2. t.block = b
      BY <3>1 DEF BlockRow, Row
    <3> QED
      BY <1>4, <2>6, <3>2 DEF Wanted
  <2>7. TransactionsTold'
    BY <1>2, <2>6 DEF TransactionsTold, InBuffer
  <2>8. LogsTold' /\ ReceiptsTold' /\ TracesTold' /\ ContractsTold' /\ BalancesTold'
    BY <1>12 DEF LogsTold, ReceiptsTold, TracesTold, ContractsTold, BalancesTold
  <2> QED
    BY <2>2, <2>3, <2>5, <2>7, <2>8 DEF Told
<1> QED
  BY <1>11, <1>13

(* The same of the receipts and the logs.                                   *)
LEMMA ReceiptsCollected == IInv /\ CollectReceipts => IInv' /\ (Told => Told')
<1> SUFFICES ASSUME IInv, CollectReceipts PROVE IInv' /\ (Told => Told')
  OBVIOUS
<1> DEFINE buffered == {t \in Transactions : InBuffer(t)}
<1>1. PICK gone \in SUBSET buffered :
        Collected([buff EXCEPT
                    ![Receipts] = {TransactionRow(t) : t \in buffered \ gone},
                    !["Log"] = UNION {{LogRow(t, i) : i \in 1..t.logs} : t \in buffered \ gone}],
                 {Row(Receipts, t.block, t.index, 0) : t \in gone})
  BY DEF CollectReceipts
<1>2. /\ stage = "transactions_and_logs" /\ stage' = Next1(stage)
      /\ UNCHANGED <<mission, synced, stored>>
  BY <1>1 DEF CollectReceipts, Collected
<1>3. DOMAIN buff = Types \cup {Receipts}
  BY DEF IInv, Filled
<1>4. /\ buff'["Log"] = UNION {{LogRow(t, i) : i \in 1..t.logs} : t \in buffered \ gone}
      /\ \A t \in RowTypes : t # "Log" => buff'[t] = buff[t]
      /\ DOMAIN buff' = Types \cup {Receipts}
  BY <1>1, <1>3 DEF Collected, Types, RowTypes, Receipts
<1>5. ASSUME NEW r \in buff'["Log"] PROVE ItemOf("Log", r)'
  <2>1. PICK t \in buffered : \E i \in 1..t.logs : r = LogRow(t, i)
    BY <1>4
  <2>2. ItemOf("Transaction", TransactionRow(t))
    BY <2>1 DEF InBuffer, IInv, Filled, RowTypes, Types
  <2>3. /\ r \in Rows /\ r.kind = "Log" /\ r.block = TransactionRow(t).block
        /\ ParentOf[r] = TransactionRow(t)
    BY <2>1, TransactionFields
  <2>4. TransactionRow(t) \in buff'["Transaction"]
    BY <1>4, <2>1 DEF InBuffer, RowTypes, Types
  <2> QED
    BY <1>2, <2>2, <2>3, <2>4 DEF ItemOf, TypeAbove
<1>6. ASSUME NEW t \in RowTypes, t # "Log", NEW r \in buff[t] PROVE ItemOf(t, r)'
  <2>1. ItemOf(t, r)
    BY <1>6 DEF IInv, Filled
  <2>2. t # "Block" => TypeAbove[t] \in RowTypes \ {"Log"}
    BY DEF TypeAbove, RowTypes, Types
  <2> QED
    BY <1>2, <1>4, <2>1, <2>2 DEF ItemOf
<1>7. Filled'
  BY <1>4, <1>5, <1>6 DEF Filled
<1>8. \A t \in RowTypes : JobOf[t] # stage => buff'[t] = buff[t]
  BY <1>2, <1>4 DEF JobOf, RowTypes, Types
<1>9. IInv'
  BY <1>2, <1>7, <1>8, Collects DEF IInv, Staged, RowTypes, Types
<1>10. /\ missed' = missed \cup {Row(Receipts, t.block, t.index, 0) : t \in gone}
       /\ unanswered' = unanswered
       /\ buff'[Receipts] = {TransactionRow(t) : t \in buffered \ gone}
       /\ \A s : Passed(s)' <=> (Passed(s) \/ s = "transactions_and_logs")
  BY <1>1, <1>2, <1>3, NextStage DEF Collected, IInv, Receipts, Types
<1>11. ASSUME Told PROVE Told'
  <2>1. \A t \in buffered : t.block \in Round
    BY TransactionFields, InTheRound DEF InBuffer, IInv, Filled, ItemOf, RowTypes, Types
  <2>2. \A r \in {Row(Receipts, t.block, t.index, 0) : t \in gone} :
          r.block \in Round /\ r.kind = Receipts
    BY <2>1 DEF Row
  <2>3. Dated'
    BY <1>2, <1>10, <1>11, <2>2 DEF Told, Dated, Round, RoundEnd
  <2>4. Replaced'
    BY <1>4, <1>10, <1>11, <2>2 DEF Told, Replaced, Receipts, RowTypes, Types
  <2>5. /\ buff'["Block"] = buff["Block"] /\ buff'["Transaction"] = buff["Transaction"]
        /\ buff'["Trace"] = buff["Trace"] /\ buff'["Contract"] = buff["Contract"]
        /\ buff'["CoinBalance"] = buff["CoinBalance"]
        /\ buff'["ContractInternalTransaction"] = buff["ContractInternalTransaction"]
    BY <1>4 DEF RowTypes, Types
  <2>6. BlocksTold' /\ TransactionsTold'
    BY <1>2, <1>10, <1>11, <2>5
       DEF Told, BlocksTold, TransactionsTold, Missing, Round, RoundEnd, InBuffer
  <2>7. ASSUME NEW t \in Transactions, TransactionRow(t) \in buff'[Receipts], NEW i \in 1..t.logs
        PROVE  LogRow(t, i) \in buff'["Log"]
    <3>1. PICK u \in buffered \ gone : TransactionRow(t) = TransactionRow(u)
      BY <1>10, <2>7
    <3>2. t = u
      BY <3>1, ChainAssumption DEF TransactionRow, Row
    <3> QED
      BY <1>4, <3>2
  <2>8. LogsTold'
    BY <2>7 DEF LogsTold
  <2>9. ReceiptsTold'
    BY <1>2, <1>10, StageOrder DEF ReceiptsTold, Order, IInv
  <2>10. TracesTold' /\ ContractsTold'
    BY <1>10, <1>11, <2>5 DEF Told, TracesTold, ContractsTold, Missing
  <2>11. BalancesTold'
    BY <1>10, <1>11, <2>5 DEF Told, BalancesTold, InBuffer
  <2> QED
    BY <2>3, <2>4, <2>6, <2>8, <2>9, <2>10, <2>11 DEF Told
<1> QED
  BY <1>9, <1>11

(* The blocks that a job asks for are those in the buffer.                 *)
LEMMA AskedBlocks ==
  ASSUME IInv, NEW b \in {r.block : r \in buff["Block"]}
  PROVE  b \in Blocks /\ synced < b /\ b <= synced + Steps /\ BlockRow(b) \in buff["Block"]
<1>1. PICK r \in buff["Block"] : b = r.block
  OBVIOUS
<1>2. ItemOf("Block", r)
  BY <1>1 DEF IInv, Filled, RowTypes, Types
<1> QED
  BY <1>1, <1>2, BlockRows DEF ItemOf

(* The same of the traces and the internal transactions.                    *)
LEMMA TracesCollected == IInv /\ CollectTraces => IInv' /\ (Told => Told')
<1> SUFFICES ASSUME IInv, CollectTraces PROVE IInv' /\ (Told => Told')
  OBVIOUS
<1> DEFINE asked == {r.block : r \in buff["Block"]}
<1>1. PICK gone \in SUBSET asked : \E unavailable \in SUBSET (asked \ gone) :
        Collected([buff EXCEPT
                     !["Trace"] = TraceItems(asked \ (gone \cup unavailable), unavailable),
                     !["ContractInternalTransaction"] =
                       {InternalRow(c) : c \in {d \in Calls :
                          d.block \in asked \ (gone \cup unavailable) /\ Internal(d)}},
                     !["UpdateBlockInternalCount"] =
                       CountItems(TraceItems(asked \ (gone \cup unavailable), unavailable))],
                  {Row("Trace", b, 0, 0) : b \in gone}
                    \cup {Row("Unavailable", b, 0, 0) : b \in unavailable})
  BY DEF CollectTraces
<1>2. PICK unavailable \in SUBSET (asked \ gone) :
        Collected([buff EXCEPT
                     !["Trace"] = TraceItems(asked \ (gone \cup unavailable), unavailable),
                     !["ContractInternalTransaction"] =
                       {InternalRow(c) : c \in {d \in Calls :
                          d.block \in asked \ (gone \cup unavailable) /\ Internal(d)}},
                     !["UpdateBlockInternalCount"] =
                       CountItems(TraceItems(asked \ (gone \cup unavailable), unavailable))],
                  {Row("Trace", b, 0, 0) : b \in gone}
                    \cup {Row("Unavailable", b, 0, 0) : b \in unavailable})
  BY <1>1
<1> DEFINE answered == asked \ (gone \cup unavailable)
<1> HIDE DEF asked
<1>3. /\ stage = "traces" /\ stage' = Next1(stage)
      /\ UNCHANGED <<mission, synced, stored>>
  BY <1>2 DEF CollectTraces, Collected
<1>4. DOMAIN buff = Types \cup {Receipts}
  BY DEF IInv, Filled
<1>5. /\ buff'["Trace"] = TraceItems(answered, unavailable)
      /\ buff'["ContractInternalTransaction"] =
           {InternalRow(c) : c \in {d \in Calls : d.block \in answered /\ Internal(d)}}
      /\ \A t \in RowTypes :
           t \notin {"Trace", "ContractInternalTransaction"} => buff'[t] = buff[t]
      /\ DOMAIN buff' = Types \cup {Receipts}
  BY <1>2, <1>4 DEF Collected, Types, RowTypes
<1>6. \A b \in asked :
        b \in Blocks /\ synced < b /\ b <= synced + Steps /\ BlockRow(b) \in buff'["Block"]
  BY <1>5, AskedBlocks DEF asked, RowTypes, Types
<1>7. ASSUME NEW r \in buff'["Trace"] PROVE ItemOf("Trace", r)'
  <2>1. CASE \E c \in Calls : c.block \in answered /\ r = TraceRow(c)
    BY <1>3, <1>6, <2>1, CallFields DEF ItemOf, TypeAbove
  <2>2. CASE \E b \in unavailable : r = PlaceholderRow(b)
    BY <1>3, <1>6, <2>2, BlockFields DEF ItemOf, TypeAbove
  <2> QED
    BY <1>5, <2>1, <2>2 DEF TraceItems
<1>8. ASSUME NEW r \in buff'["ContractInternalTransaction"]
      PROVE  ItemOf("ContractInternalTransaction", r)'
  <2>1. PICK c \in Calls : c.block \in answered /\ r = InternalRow(c)
    BY <1>5
  <2>2. TraceRow(c) \in buff'["Trace"]
    BY <1>5, <2>1 DEF TraceItems
  <2> QED
    BY <1>3, <1>6, <2>1, <2>2, CallFields DEF ItemOf, TypeAbove
<1>9. buff["Contract"] = {}
  BY <1>3, StageOrder DEF IInv, Fresh, JobOf, RowTypes, Types, Order
<1>10. ASSUME NEW t \in RowTypes \ {"Trace", "ContractInternalTransaction"}, NEW r \in buff[t]
       PROVE  ItemOf(t, r)'
  <2>1. ItemOf(t, r)
    BY <1>10 DEF IInv, Filled
  <2>2. t # "Block" => TypeAbove[t] \in RowTypes \ {"Trace", "ContractInternalTransaction"}
    BY <1>9, <1>10 DEF TypeAbove, RowTypes, Types
  <2> QED
    BY <1>3, <1>5, <2>1, <2>2 DEF ItemOf
<1>11. Filled'
  BY <1>5, <1>7, <1>8, <1>10 DEF Filled
<1>12. \A t \in RowTypes : JobOf[t] # stage => buff'[t] = buff[t]
  BY <1>3, <1>5 DEF JobOf, RowTypes, Types
<1>13. IInv'
  BY <1>3, <1>11, <1>12, Collects DEF IInv, Staged, RowTypes, Types
<1>14. /\ missed' = missed \cup ({Row("Trace", b, 0, 0) : b \in gone}
                                  \cup {Row("Unavailable", b, 0, 0) : b \in unavailable})
       /\ unanswered' = unanswered /\ buff'[Receipts] = buff[Receipts]
  BY <1>2, <1>4 DEF Collected, Receipts, Types
<1>15. /\ \A s : Passed(s)' <=> (Passed(s) \/ s = "traces")
       /\ ~Passed("traces") /\ ~Passed("contracts") /\ ~Passed("coin_balances")
  BY <1>3, NextStage, StageOrder DEF IInv, Order
<1>16. ASSUME Told PROVE Told'
  <2>1. asked \subseteq Round
    BY AskedBlocks, InTheRound DEF asked
  <2>2. Dated'
    <3>1. \A b \in gone : Row("Trace", b, 0, 0).block \in Round
      BY <2>1 DEF Row
    <3>2. \A b \in unavailable : Row("Unavailable", b, 0, 0).block \in Round
      BY <2>1 DEF Row
    <3> QED
      BY <1>3, <1>14, <1>16, <3>1, <3>2 DEF Told, Dated, Round, RoundEnd
  <2>3. ASSUME NEW r \in missed', r.kind = "Unavailable"
        PROVE  PlaceholderRow(r.block) \in buff'["Trace"]
    <3>1. r \notin missed
      BY <1>15, <1>16, <2>3 DEF Told, Replaced
    <3>2. r \notin {Row("Trace", b, 0, 0) : b \in gone}
      BY <2>3 DEF Row
    <3>3. PICK b \in unavailable : r = Row("Unavailable", b, 0, 0)
      BY <1>14, <3>1, <3>2
    <3> QED
      BY <1>5, <3>3 DEF TraceItems, Row
  <2>4. Replaced'
    BY <1>15, <2>3 DEF Replaced
  <2>5. buff'["Block"] = buff["Block"] /\ buff'["Transaction"] = buff["Transaction"]
        /\ buff'["Log"] = buff["Log"]
    BY <1>5 DEF RowTypes, Types
  <2>6. BlocksTold' /\ TransactionsTold' /\ LogsTold' /\ ReceiptsTold'
    BY <1>3, <1>14, <1>15, <1>16, <2>5
       DEF Told, BlocksTold, TransactionsTold, LogsTold, ReceiptsTold, AllFilled, Missing,
           Round, RoundEnd, InBuffer
  <2>7. ASSUME NEW c \in Calls, BlockRow(c.block) \in buff'["Block"]
        PROVE  \/ Missing("Trace", c.block)' \/ Missing("Unavailable", c.block)'
               \/ /\ TraceRow(c) \in buff'["Trace"]
                  /\ Internal(c) => InternalRow(c) \in buff'["ContractInternalTransaction"]
    <3>1. c.block \in asked
      <4>1. BlockRow(c.block).block = c.block
        BY DEF BlockRow, Row
      <4> QED
        BY <2>5, <2>7, <4>1 DEF asked
    <3>2. CASE c.block \in gone
      <4>1. Row("Trace", c.block, 0, 0) \in missed'
        BY <1>14, <3>2
      <4> QED
        BY <4>1 DEF Missing, Row
    <3>3. CASE c.block \in unavailable
      <4>1. Row("Unavailable", c.block, 0, 0) \in missed'
        BY <1>14, <3>3
      <4> QED
        BY <4>1 DEF Missing, Row
    <3>4. CASE c.block \in answered
      BY <1>5, <3>4 DEF TraceItems
    <3> QED
      BY <3>1, <3>2, <3>3, <3>4
  <2>8. TracesTold'
    BY <2>7 DEF TracesTold
  <2>9. ContractsTold' /\ BalancesTold'
    BY <1>15 DEF ContractsTold, BalancesTold
  <2> QED
    BY <2>2, <2>4, <2>6, <2>8, <2>9 DEF Told
<1> QED
  BY <1>13, <1>16

(* The same of the contracts.                                               *)
LEMMA ContractsCollected == IInv /\ CollectContracts => IInv' /\ (Told => Told')
<1> SUFFICES ASSUME IInv, CollectContracts PROVE IInv' /\ (Told => Told')
  OBVIOUS
<1> DEFINE asked == {ContractRow(c) : c \in {d \in Calls : TraceRow(d) \in buff["Trace"] /\ Creates(d)}}
<1>1. PICK gone \in SUBSET asked : Collected([buff EXCEPT !["Contract"] = asked \ gone], gone)
  BY DEF CollectContracts
<1>2. /\ stage = "contracts" /\ stage' = Next1(stage)
      /\ UNCHANGED <<mission, synced, stored>>
  BY <1>1 DEF CollectContracts, Collected
<1>3. DOMAIN buff = Types \cup {Receipts}
  BY DEF IInv, Filled
<1>4. /\ buff'["Contract"] \subseteq asked
      /\ \A t \in RowTypes : t # "Contract" => buff'[t] = buff[t]
      /\ DOMAIN buff' = Types \cup {Receipts}
  BY <1>1, <1>3 DEF Collected, Types, RowTypes
<1>5. ASSUME NEW r \in buff'["Contract"] PROVE ItemOf("Contract", r)'
  <2>1. PICK c \in Calls : TraceRow(c) \in buff["Trace"] /\ r = ContractRow(c)
    BY <1>4
  <2>2. ItemOf("Trace", TraceRow(c))
    BY <2>1 DEF IInv, Filled, RowTypes, Types
  <2>3. TraceRow(c) \in buff'["Trace"]
    BY <1>4, <2>1 DEF RowTypes, Types
  <2> QED
    BY <1>2, <2>1, <2>2, <2>3, CallFields DEF ItemOf, TypeAbove
<1>6. ASSUME NEW t \in RowTypes \ {"Contract"}, NEW r \in buff[t] PROVE ItemOf(t, r)'
  <2>1. ItemOf(t, r)
    BY <1>6 DEF IInv, Filled
  <2>2. t # "Block" => TypeAbove[t] \in RowTypes \ {"Contract"}
    BY DEF TypeAbove, RowTypes, Types
  <2> QED
    BY <1>2, <1>4, <2>1, <2>2 DEF ItemOf
<1>7. Filled'
  BY <1>4, <1>5, <1>6 DEF Filled
<1>8. \A t \in RowTypes : JobOf[t] # stage => buff'[t] = buff[t]
  BY <1>2, <1>4 DEF JobOf, RowTypes, Types
<1>9. IInv'
  BY <1>2, <1>7, <1>8, Collects DEF IInv, Staged, RowTypes, Types
<1>10. /\ missed' = missed \cup gone /\ unanswered' = unanswered
       /\ buff'[Receipts] = buff[Receipts] /\ buff'["Contract"] = asked \ gone
       /\ \A s : Passed(s)' <=> (Passed(s) \/ s = "contracts")
  BY <1>1, <1>2, <1>3, NextStage DEF Collected, IInv, Receipts, Types
<1>11. ASSUME Told PROVE Told'
  <2>1. \A r \in gone : r.block \in Round /\ r.kind = "Contract"
    <3>1. \A c \in Calls : TraceRow(c) \in buff["Trace"] => c.block \in Round
      BY CallFields, InTheRound DEF IInv, Filled, ItemOf, RowTypes, Types
    <3> QED
      BY <3>1, CallFields
  <2>2. Dated'
    BY <1>2, <1>10, <1>11, <2>1 DEF Told, Dated, Round, RoundEnd
  <2>3. /\ buff'["Block"] = buff["Block"] /\ buff'["Transaction"] = buff["Transaction"]
        /\ buff'["Log"] = buff["Log"] /\ buff'["Trace"] = buff["Trace"]
        /\ buff'["ContractInternalTransaction"] = buff["ContractInternalTransaction"]
        /\ buff'["CoinBalance"] = buff["CoinBalance"]
    BY <1>4 DEF RowTypes, Types
  <2>4. Replaced' /\ BlocksTold' /\ TransactionsTold'
    BY <1>2, <1>10, <1>11, <2>1, <2>3
       DEF Told, Replaced, BlocksTold, TransactionsTold, Missing, Round, RoundEnd, InBuffer
  <2>5. LogsTold' /\ ReceiptsTold' /\ TracesTold' /\ BalancesTold'
    BY <1>10, <1>11, <2>3
       DEF Told, LogsTold, ReceiptsTold, AllFilled, TracesTold, BalancesTold, Missing, InBuffer
  <2>6. ContractsTold'
    BY <1>10, <2>3 DEF ContractsTold
  <2> QED
    BY <2>2, <2>4, <2>5, <2>6 DEF Told
<1> QED
  BY <1>9, <1>11

(* The same of the balances.                                                *)
LEMMA BalancesCollected == IInv /\ CollectBalances => IInv' /\ (Told => Told')
<1> SUFFICES ASSUME IInv, CollectBalances PROVE IInv' /\ (Told => Told')
  OBVIOUS
<1> DEFINE C == {c \in Calls : InternalRow(c) \in buff["ContractInternalTransaction"]}
           T == {t \in Transactions : InBuffer(t)}
           asked == UNION {{BalanceRow(r.block, a) : a \in Parties(r.block, T, C)} : r \in buff["Block"]}
<1>1. PICK gone \in SUBSET asked : Collected([buff EXCEPT !["CoinBalance"] = asked \ gone], gone)
  BY DEF CollectBalances
<1>2. /\ stage = "coin_balances" /\ stage' = Next1(stage)
      /\ UNCHANGED <<mission, synced, stored>>
  BY <1>1 DEF CollectBalances, Collected
<1>3. DOMAIN buff = Types \cup {Receipts}
  BY DEF IInv, Filled
<1>4. /\ buff'["CoinBalance"] \subseteq asked
      /\ \A t \in RowTypes : t # "CoinBalance" => buff'[t] = buff[t]
      /\ DOMAIN buff' = Types \cup {Receipts}
  BY <1>1, <1>3 DEF Collected, Types, RowTypes
<1>5. ASSUME NEW r \in buff'["CoinBalance"] PROVE ItemOf("CoinBalance", r)'
  <2>1. PICK s \in buff["Block"] : \E a \in Parties(s.block, T, C) : r = BalanceRow(s.block, a)
    BY <1>4
  <2>2. /\ s.block \in Blocks /\ synced < s.block /\ s.block <= synced + Steps
        /\ BlockRow(s.block) \in buff["Block"]
    BY <2>1, AskedBlocks
  <2>3. T \in SUBSET Transactions /\ C \in SUBSET Calls
    OBVIOUS
  <2>4. /\ r \in Rows /\ r.kind = "CoinBalance" /\ r.block = s.block
        /\ ParentOf[r] = BlockRow(s.block)
    BY <2>1, <2>2, <2>3, BalanceFields
  <2>5. BlockRow(s.block) \in buff'["Block"]
    BY <1>4, <2>2 DEF RowTypes, Types
  <2> QED
    BY <1>2, <2>2, <2>4, <2>5 DEF ItemOf, TypeAbove
<1>6. ASSUME NEW t \in RowTypes \ {"CoinBalance"}, NEW r \in buff[t] PROVE ItemOf(t, r)'
  <2>1. ItemOf(t, r)
    BY <1>6 DEF IInv, Filled
  <2>2. t # "Block" => TypeAbove[t] \in RowTypes \ {"CoinBalance"}
    BY DEF TypeAbove, RowTypes, Types
  <2> QED
    BY <1>2, <1>4, <2>1, <2>2 DEF ItemOf
<1>7. Filled'
  BY <1>4, <1>5, <1>6 DEF Filled
<1>8. \A t \in RowTypes : JobOf[t] # stage => buff'[t] = buff[t]
  BY <1>2, <1>4 DEF JobOf, RowTypes, Types
<1>9. IInv'
  BY <1>2, <1>7, <1>8, Collects DEF IInv, Staged, RowTypes, Types
<1>10. /\ missed' = missed \cup gone /\ unanswered' = unanswered
       /\ buff'[Receipts] = buff[Receipts] /\ buff'["CoinBalance"] = asked \ gone
       /\ \A s : Passed(s)' <=> (Passed(s) \/ s = "coin_balances")
  BY <1>1, <1>2, <1>3, NextStage DEF Collected, IInv, Receipts, Types
<1>11. ASSUME Told PROVE Told'
  <2>1. ASSUME NEW r \in gone PROVE r.block \in Round /\ r.kind = "CoinBalance"
    <3>1. PICK q \in buff["Block"] : \E a \in Parties(q.block, T, C) : r = BalanceRow(q.block, a)
      OBVIOUS
    <3>2. q.block \in Round
      BY AskedBlocks, InTheRound
    <3> QED
      BY <3>1, <3>2 DEF BalanceRow, Row
  <2>2. Dated'
    BY <1>2, <1>10, <1>11, <2>1 DEF Told, Dated, Round, RoundEnd
  <2>3. /\ buff'["Block"] = buff["Block"] /\ buff'["Transaction"] = buff["Transaction"]
        /\ buff'["Log"] = buff["Log"] /\ buff'["Trace"] = buff["Trace"]
        /\ buff'["ContractInternalTransaction"] = buff["ContractInternalTransaction"]
        /\ buff'["Contract"] = buff["Contract"]
    BY <1>4 DEF RowTypes, Types
  <2>4. Replaced' /\ BlocksTold' /\ TransactionsTold'
    BY <1>2, <1>10, <1>11, <2>1, <2>3
       DEF Told, Replaced, BlocksTold, TransactionsTold, Missing, Round, RoundEnd, InBuffer
  <2>5. LogsTold' /\ ReceiptsTold' /\ TracesTold' /\ ContractsTold'
    BY <1>10, <1>11, <2>3
       DEF Told, LogsTold, ReceiptsTold, AllFilled, TracesTold, ContractsTold, Missing
  <2>6. BalancesTold'
    <3>1. /\ T = {t \in Transactions : InBuffer(t)'}
          /\ C = {c \in Calls : InternalRow(c) \in buff'["ContractInternalTransaction"]}
      BY <2>3 DEF InBuffer
    <3>2. ASSUME NEW q \in buff["Block"], NEW a \in Parties(q.block, T, C)
          PROVE  BalanceRow(q.block, a) \in buff'["CoinBalance"] \cup missed'
      <4> HIDE DEF T, C
      <4>1. BalanceRow(q.block, a) \in {BalanceRow(q.block, e) : e \in Parties(q.block, T, C)}
        OBVIOUS
      <4>2. BalanceRow(q.block, a) \in asked
        BY <4>1
      <4> HIDE DEF asked
      <4> QED
        BY <1>10, <4>2
    <3> HIDE DEF T, C
    <3> QED
      BY <2>3, <3>1, <3>2 DEF BalancesTold
  <2> QED
    BY <2>2, <2>4, <2>5, <2>6 DEF Told
<1> QED
  BY <1>9, <1>11
-----------------------------------------------------------------------------
(* The exports and the end of a round.                                     *)

(* A commit comes after the commits of the rows that its rows refer to.     *)
LEMMA Exported1 == IInv /\ Commit => IInv'
<1> SUFFICES ASSUME IInv, Commit PROVE IInv'
  OBVIOUS
<1>1. stored \subseteq Rows /\ \A t \in RowTypes : buff[t] \subseteq Rows
  BY DEF IInv, Staged, Filled, ItemOf
<1>2. CASE CommitRows \/ CommitTransactions
  <2>1. /\ stage \in RowTypes /\ stage' = Next1(stage) /\ stored' = stored \cup buff[stage]
        /\ UNCHANGED <<mission, synced, buff>>
    BY <1>2 DEF CommitRows, CommitTransactions, Committed, RowTypes, Types
  <2>2. stage # "record" /\ \A t \in RowTypes : JobOf[t] # stage
    BY <2>1 DEF JobOf, RowTypes, Types
  <2> QED
    BY <1>1, <2>1, <2>2, Exports
<1>3. CASE CommitCounts
  <2>1. /\ stage = "UpdateBlockInternalCount" /\ stage' = Next1(stage) /\ stored' = stored
        /\ UNCHANGED <<mission, synced, buff>>
    BY <1>3 DEF CommitCounts, Committed
  <2>2. /\ stage # "record" /\ stage \notin RowTypes
        /\ \A t \in RowTypes : JobOf[t] # stage
    BY <2>1 DEF JobOf, RowTypes, Types
  <2> QED
    BY <1>1, <2>1, <2>2, Exports
<1> QED
  BY <1>2, <1>3 DEF Commit

(* The feature jobs and their commits leave the chain tables alone.        *)
Apart ==
  /\ stage \in {"uniswap_pools", "uniswap_tokens", "activeness", "user_ops"} \cup FeatureTypes
  /\ stage' = Next1(stage)
  /\ UNCHANGED <<mission, synced, buff, stored, missed, unanswered>>

(* The feature jobs touch nothing of the chain jobs.                        *)
LEMMA FeaturesAreApart == CollectFeatures \/ CommitFeatures => Apart
<1>1. CollectFeatures => Apart
  BY DEF CollectFeatures, CollectPools, CollectPositions, CollectActiveness, CollectOperations,
         Found, Apart
<1>2. CommitFeatures => Apart
  BY DEF CommitFeatures, CommitPrices, CommitPools, CommitHoldings, CommitPositions,
         CommitActiveness, CommitCurrent, CommitOperations, Advance, Apart, FeatureTypes
<1> QED
  BY <1>1, <1>2

(* So they keep the invariant.                                              *)
LEMMA ApartKeeps == IInv /\ Apart => IInv'
<1> SUFFICES ASSUME IInv, Apart PROVE IInv'
  OBVIOUS
<1>1. /\ stage # "record" /\ stage \notin RowTypes
      /\ \A t \in RowTypes : JobOf[t] # stage
  BY DEF Apart, FeatureTypes, PoolRecord, TokenRecord, ActiveRecord, JobOf, RowTypes, Types
<1>2. stored \subseteq Rows
  BY DEF IInv, Staged
<1> QED
  BY <1>1, <1>2, Exports DEF Apart

(* A round that fails leaves its rows in the tables.                        *)
LEMMA StartsOver == IInv /\ StartOver => IInv'
<1> SUFFICES ASSUME IInv, StartOver PROVE Begun'
  BY BeginsNext
<1> QED
  BY DEF IInv, Staged, StartOver, Begun, Empty

(* A round is recorded as Tables records it.                                *)
LEMMA Records == IInv /\ Record => IInv' /\ Promise!Record
<1> SUFFICES ASSUME IInv, Record PROVE Begun' /\ Promise!Record
  BY BeginsNext
<1>1. /\ synced \in Nat /\ StartBlock - 1 <= synced /\ synced < EndBlock /\ synced' = RoundEnd
      /\ StartBlock \in Nat /\ EndBlock \in Nat /\ Steps \in Nat \ {0} /\ stored' = stored
  BY ChainAssumption DEF IInv, Staged, Record
<1>2. synced' \in Nat /\ StartBlock - 1 <= synced' /\ synced' - synced \in 1..Steps
  BY <1>1 DEF RoundEnd
<1>3. synced' = synced + (synced' - synced)
  BY <1>1, <1>2
<1> QED
  BY <1>1, <1>2, <1>3 DEF IInv, Staged, Record, Begun, Empty, Promise!Record
-----------------------------------------------------------------------------
(* Every step keeps the invariant, whatever the features do.               *)
LEMMA Inductive == IInv /\ [Next]_vars => IInv'
<1> SUFFICES ASSUME IInv, [Next]_vars PROVE IInv'
  OBVIOUS
<1>1. CASE Collect
  BY <1>1, BlocksCollected, ReceiptsCollected, TracesCollected, ContractsCollected,
     BalancesCollected DEF Collect
<1>2. CASE Commit
  BY <1>2, Exported1
<1>3. CASE CollectFeatures \/ CommitFeatures
  BY <1>3, FeaturesAreApart, ApartKeeps
<1>4. CASE FeaturesRecord
  BY <1>4, Records DEF FeaturesRecord
<1>5. CASE FeaturesRaise \/ FeaturesFail \/ FeaturesRestart
  BY <1>5, StartsOver
     DEF FeaturesRaise, FeaturesFail, FeaturesRestart, ReceiptMissing, RoundFails, Restart
<1>6. CASE UNCHANGED vars
  BY <1>6 DEF vars, chainVars, IInv, Staged, Filled, ItemOf, Fresh, Exported, Passed, Position, Plan
<1> QED
  BY <1>1, <1>2, <1>3, <1>4, <1>5, <1>6 DEF Next, Step

(* A commit writes rows of the round after those they refer to.            *)
LEMMA CommitWrites == IInv /\ Commit => Promise!Write \/ UNCHANGED <<synced, stored>>
<1> SUFFICES ASSUME IInv, Commit PROVE Promise!Write \/ UNCHANGED <<synced, stored>>
  OBVIOUS
<1>1. CASE CommitCounts
  BY <1>1 DEF CommitCounts, Committed
<1>2. CASE CommitRows \/ CommitTransactions
  <2>1. stage \in RowTypes /\ stored' = stored \cup buff[stage] /\ synced' = synced
    BY <1>2 DEF CommitRows, CommitTransactions, Committed, RowTypes, Types
  <2>2. stored' \subseteq Rows
    BY <2>1 DEF IInv, Staged, Filled, ItemOf
  <2>3. ASSUME NEW r \in buff[stage]
        PROVE  /\ synced < BlockNumber[r] /\ BlockNumber[r] <= synced + Steps
               /\ ParentOf[r] = NoRow \/ ParentOf[r] \in stored
    <3>1. ItemOf(stage, r)
      BY <2>1 DEF IInv, Filled
    <3>2. BlockNumber[r] = r.block
      BY <3>1 DEF ItemOf, BlockNumber
    <3>3. CASE stage = "Block"
      BY <3>1, <3>2, <3>3, BlockRows, BlockFields DEF ItemOf
    <3>4. CASE stage # "Block"
      <4>1. Passed(TypeAbove[stage])
        BY <2>1, <3>4, StageOrder DEF IInv
      <4>2. TypeAbove[stage] \in RowTypes
        BY <2>1, <3>4 DEF TypeAbove, RowTypes, Types
      <4> QED
        BY <3>1, <3>2, <3>4, <4>1, <4>2 DEF ItemOf, IInv, Exported
    <3> QED
      BY <3>3, <3>4
  <2> QED
    BY <2>1, <2>2, <2>3 DEF Promise!Write, Promise!InRound
<1> QED
  BY <1>1, <1>2 DEF Commit

(* The jobs implement Tables: a row is written in the round of its block   *)
(* and after the row it refers to, and nothing is taken away, wherever a   *)
(* round fails or its process ends.                                        *)
THEOREM KeepsThePromise == Spec => ImplementsTables
<1>1. Init => IInv
  <2> SUFFICES ASSUME Init PROVE Begun
    BY Begins
  <2> QED
    BY ChainAssumption DEF Init, ChainInit, Begun
<1>2. Init => Promise!Init
  BY DEF Init, ChainInit, Promise!Init
<1>3. IInv /\ [Next]_vars => [Promise!Next]_(Promise!vars)
  <2> SUFFICES ASSUME IInv, [Next]_vars
               PROVE  Promise!Record \/ Promise!Write \/ UNCHANGED <<synced, stored>>
    BY DEF Promise!Next, Promise!vars
  <2>1. CASE Collect
    BY <2>1 DEF Collect, CollectBlocks, CollectReceipts, CollectTraces, CollectContracts,
                CollectBalances, Collected
  <2>2. CASE Commit
    BY <2>2, CommitWrites
  <2>3. CASE CollectFeatures \/ CommitFeatures
    BY <2>3, FeaturesAreApart DEF Apart
  <2>4. CASE FeaturesRecord
    BY <2>4, Records DEF FeaturesRecord
  <2>5. CASE FeaturesRaise \/ FeaturesFail \/ FeaturesRestart
    BY <2>5 DEF FeaturesRaise, FeaturesFail, FeaturesRestart, ReceiptMissing, RoundFails,
                Restart, StartOver
  <2>6. CASE UNCHANGED vars
    BY <2>6 DEF vars, chainVars
  <2> QED
    BY <2>1, <2>2, <2>3, <2>4, <2>5, <2>6 DEF Next, Step
<1> QED
  BY <1>1, <1>2, <1>3, Inductive, PTL DEF Spec, ImplementsTables, Promise!Spec
-----------------------------------------------------------------------------
(* What the jobs owe to the answers they were given outlives every step.   *)

Jobs == {"blocks", "transactions_and_logs", "traces", "contracts", "coin_balances"}

(* An export changes nothing that was collected.                           *)
LEMMA ExportsTell ==
  ASSUME IInv, Told, stage # "record", stage \notin Jobs, stage' = Next1(stage),
         UNCHANGED <<mission, synced, buff, missed, unanswered>>,
         stage = "Transaction" => AllFilled
  PROVE  Told'
<1>1. \A s : Passed(s)' <=> (Passed(s) \/ s = stage)
  BY NextStage DEF IInv
<1>2. Dated' /\ BlocksTold' /\ TransactionsTold'
  BY <1>1 DEF Told, Dated, BlocksTold, TransactionsTold, Missing, Round, RoundEnd, InBuffer, Jobs
<1>3. Replaced' /\ TracesTold' /\ ContractsTold'
  BY <1>1 DEF Told, Replaced, TracesTold, ContractsTold, Missing, Jobs
<1>4. LogsTold' /\ ReceiptsTold'
  BY <1>1 DEF Told, LogsTold, ReceiptsTold, AllFilled, Jobs
<1>5. BalancesTold'
  BY <1>1 DEF Told, BalancesTold, InBuffer, Jobs
<1> QED
  BY <1>2, <1>3, <1>4, <1>5 DEF Told

(* A round begins with nothing to account for.                             *)
Unburdened == Begun /\ missed = {} /\ Dated

(* A round that begins owes nothing.                                        *)
LEMMA BeginsTold == Unburdened => Told
<1> SUFFICES ASSUME Begun, missed = {}, Dated PROVE Told
  BY DEF Unburdened
<1>1. \A s : ~Passed(s)
  BY FirstStage DEF Begun
<1>2. buff["Block"] = {}
  BY DEF Begun, Empty, Types
<1> QED
  BY <1>1, <1>2 DEF Told, Replaced, BlocksTold, TransactionsTold, LogsTold, ReceiptsTold,
                    TracesTold, ContractsTold, BalancesTold

(* The same of the next state.                                              *)
LEMMA BeginsToldNext == Unburdened' => Told'
BY BeginsTold, PTL

(* The rows of a block that is recorded in this step: each was collected,  *)
(* for a mission that exports every type, and so is in the tables.         *)
LEMMA RoundPaid ==
  ASSUME IInv, Told, Record, mission \notin Filtered,
         RowTypes \subseteq {Plan[i] : i \in DOMAIN Plan},
         NEW b \in Round, NEW r \in Due(b)'
  PROVE  r \in stored
<1>1. ASSUME NEW kind PROVE NoAnswer(kind, b)' <=> Missing(kind, b)
  <2>1. \A q \in unanswered : q.block # b
    BY RoundBlocks DEF Told, Dated, IInv, Staged
  <2> QED
    BY <2>1 DEF NoAnswer, Missing, Record
<1>2. ~Missing("Block", b) /\ r \notin missed
  BY <1>1 DEF Due, Record
<1>3. ASSUME NEW i \in DOMAIN Plan, Plan[i] # "record" PROVE Passed(Plan[i])
  <2>1. mission \in Missions /\ stage = Plan[Len(Plan)] /\ Len(Plan) \in DOMAIN Plan
    BY PlanFacts DEF IInv, Staged, Record
  <2>2. Position(stage) = Len(Plan)
    BY <2>1, PositionOf
  <2>3. i < Len(Plan)
    BY <1>3, <2>1, PlanFacts
  <2> QED
    BY <2>2, <2>3 DEF Passed
<1>4. \A t \in RowTypes : Passed(t) /\ buff[t] \subseteq stored
  BY <1>3 DEF IInv, Exported, RowTypes, Types
<1>5. ASSUME NEW t \in RowTypes PROVE Passed(JobOf[t])
  <2>1. PICK i \in DOMAIN Plan : Plan[i] = t
    OBVIOUS
  <2>2. PICK j \in DOMAIN Plan : Plan[j] = JobOf[t]
    BY <2>1, PlanFacts DEF IInv, Staged
  <2>3. JobOf[t] # "record"
    BY DEF JobOf, RowTypes, Types
  <2> QED
    BY <1>3, <2>2, <2>3
<1>6. \A s \in Jobs : Passed(s)
  BY <1>5 DEF JobOf, RowTypes, Types, Jobs
<1>7. BlockRow(b) \in buff["Block"]
  BY <1>2, <1>6 DEF Told, BlocksTold, Jobs
<1>8. \A t \in TransactionsIn(b) : InBuffer(t)
  BY <1>7 DEF Told, TransactionsTold, TransactionsIn
<1>9. \A t \in TransactionsIn(b) : \A i \in 1..t.logs : LogRow(t, i) \in buff["Log"]
  BY <1>4, <1>6, <1>8
     DEF Told, LogsTold, ReceiptsTold, AllFilled, InBuffer, Jobs, TransactionsIn, RowTypes, Types
<1>10. ASSUME NEW c \in CallsTold(b)'
       PROVE  /\ c \in Calls /\ c.block = b /\ TraceRow(c) \in buff["Trace"]
              /\ Internal(c) => InternalRow(c) \in buff["ContractInternalTransaction"]
              /\ Creates(c) => ContractRow(c) \in buff["Contract"] \cup missed
  <2>1. c \in Calls /\ c.block = b /\ ~Missing("Trace", b) /\ ~Missing("Unavailable", b)
    BY <1>1 DEF CallsTold
  <2>2. /\ TraceRow(c) \in buff["Trace"]
        /\ Internal(c) => InternalRow(c) \in buff["ContractInternalTransaction"]
    BY <1>6, <1>7, <2>1 DEF Told, TracesTold, Jobs
  <2> QED
    BY <1>6, <2>1, <2>2 DEF Told, ContractsTold, Jobs
<1>11. ASSUME NEW a \in Parties(b, TransactionsIn(b), {d \in CallsTold(b)' : Internal(d)})
       PROVE  BalanceRow(b, a) \in buff["CoinBalance"] \cup missed
  <2>1. a \in Parties(b, {t \in Transactions : InBuffer(t)},
                      {c \in Calls : InternalRow(c) \in buff["ContractInternalTransaction"]})
    BY <1>8, <1>10 DEF Parties, PartiesOfCalls, TransactionsIn
  <2>2. BlockRow(b).block = b
    BY DEF BlockRow, Row
  <2> QED
    BY <1>6, <1>7, <2>1, <2>2 DEF Told, BalancesTold, Jobs
<1>12. ASSUME Missing("Unavailable", b) PROVE PlaceholderRow(b) \in buff["Trace"]
  BY <1>12 DEF Missing, Told, Replaced
<1>13. \/ r = BlockRow(b)
       \/ \E t \in TransactionsIn(b) : r = TransactionRow(t) \/ \E i \in 1..t.logs : r = LogRow(t, i)
       \/ \E c \in CallsTold(b)' :
            \/ r = TraceRow(c)
            \/ Internal(c) /\ r = InternalRow(c)
            \/ Creates(c) /\ r = ContractRow(c)
       \/ \E a \in Parties(b, TransactionsIn(b), {d \in CallsTold(b)' : Internal(d)}) :
            r = BalanceRow(b, a)
       \/ NoAnswer("Unavailable", b)' /\ r = PlaceholderRow(b)
  BY DEF Due
<1>14. CASE r = BlockRow(b)
  BY <1>4, <1>7, <1>14 DEF RowTypes, Types
<1>15. CASE \E t \in TransactionsIn(b) : r = TransactionRow(t) \/ \E i \in 1..t.logs : r = LogRow(t, i)
  BY <1>4, <1>8, <1>9, <1>15 DEF InBuffer, RowTypes, Types
<1>16. CASE \E c \in CallsTold(b)' :
              \/ r = TraceRow(c)
              \/ Internal(c) /\ r = InternalRow(c)
              \/ Creates(c) /\ r = ContractRow(c)
  BY <1>2, <1>4, <1>10, <1>16 DEF RowTypes, Types
<1>17. CASE \E a \in Parties(b, TransactionsIn(b), {d \in CallsTold(b)' : Internal(d)}) :
              r = BalanceRow(b, a)
  BY <1>2, <1>4, <1>11, <1>17 DEF RowTypes, Types
<1>18. CASE NoAnswer("Unavailable", b)' /\ r = PlaceholderRow(b)
  BY <1>1, <1>4, <1>12, <1>18 DEF RowTypes, Types
<1> QED
  BY <1>13, <1>14, <1>15, <1>16, <1>17, <1>18

(* The record of a round leaves what older blocks are owed as it is.       *)
LEMMA RecordPays ==
  ASSUME IInv, Told, CompleteOnceSynced, Record
  PROVE  Told' /\ CompleteOnceSynced'
<1>1. /\ synced \in Nat /\ StartBlock - 1 <= synced /\ synced < EndBlock
      /\ StartBlock \in Nat /\ EndBlock \in Nat /\ Steps \in Nat \ {0}
  BY ChainAssumption DEF IInv, Staged, Record
<1>2. synced' = RoundEnd /\ RoundEnd \in Nat /\ synced < RoundEnd
  BY <1>1 DEF Record, RoundEnd
<1>3. Told'
  <2>1. Begun'
    BY <1>1, <1>2 DEF Begun, IInv, Staged, Record, Empty
  <2>2. Round \subseteq StartBlock..synced' /\ StartBlock..synced \subseteq StartBlock..synced'
    BY <1>1, <1>2 DEF Round
  <2>3. missed' = {} /\ unanswered' = unanswered \cup missed
    BY DEF Record
  <2>4. Dated'
    BY <2>2, <2>3 DEF Told, Dated
  <2> QED
    BY <2>1, <2>3, <2>4, BeginsToldNext DEF Unburdened
<1>4. ASSUME mission \notin Filtered, RowTypes \subseteq {Plan[i] : i \in DOMAIN Plan},
             NEW b \in StartBlock..synced', NEW r \in Due(b)'
      PROVE  r \in stored
  <2>1. CASE b \in Round
    BY <1>4, <2>1, RoundPaid
  <2>2. CASE b \notin Round
    <3>1. b \in StartBlock..synced
      BY <1>1, <1>2, <2>2 DEF Round
    <3>2. ASSUME NEW kind PROVE NoAnswer(kind, b)' <=> NoAnswer(kind, b)
      <4>1. \A q \in missed : q.block # b
        BY <2>2 DEF Told, Dated
      <4> QED
        BY <4>1 DEF NoAnswer, Record
    <3>3. CallsTold(b)' = CallsTold(b)
      BY <3>2 DEF CallsTold
    <3>4. unanswered \subseteq unanswered'
      BY DEF Record
    <3>5. r \in Due(b)
      BY <1>4, <3>2, <3>3, <3>4 DEF Due
    <3> QED
      BY <1>4, <3>1, <3>5 DEF CompleteOnceSynced
  <2> QED
    BY <2>1, <2>2
<1>5. stored' = stored /\ mission' = mission /\ Plan' = Plan
  BY DEF Record, Plan
<1> QED
  BY <1>3, <1>4, <1>5 DEF CompleteOnceSynced

(* A step that records nothing and takes no row away.                      *)
LEMMA StillPaid ==
  ASSUME CompleteOnceSynced, UNCHANGED <<mission, synced, unanswered>>, stored \subseteq stored'
  PROVE  CompleteOnceSynced'
<1>1. Plan' = Plan
  BY DEF Plan
<1>2. ASSUME NEW b PROVE Due(b)' = Due(b)
  BY DEF Due, CallsTold, NoAnswer
<1> QED
  BY <1>1, <1>2 DEF CompleteOnceSynced

PInv == IInv /\ Told /\ CompleteOnceSynced

(* Every step pays what it owes.                                            *)
LEMMA Pays == PInv /\ [Next]_vars => PInv'
<1> SUFFICES ASSUME PInv, [Next]_vars PROVE Told' /\ CompleteOnceSynced'
  BY Inductive DEF PInv
<1>1. CASE Collect
  <2>1. UNCHANGED <<mission, synced, stored, unanswered>>
    BY <1>1 DEF Collect, CollectBlocks, CollectReceipts, CollectTraces, CollectContracts,
                CollectBalances, Collected
  <2>2. Told'
    BY <1>1, BlocksCollected, ReceiptsCollected, TracesCollected, ContractsCollected,
       BalancesCollected DEF Collect, PInv
  <2> QED
    BY <2>1, <2>2, StillPaid DEF PInv
<1>2. CASE Commit
  <2>1. /\ stage \in Types /\ stage' = Next1(stage) /\ stored \subseteq stored'
        /\ UNCHANGED <<mission, synced, buff, missed, unanswered>>
        /\ stage = "Transaction" => AllFilled
    BY <1>2 DEF Commit, CommitRows, CommitTransactions, CommitCounts, Committed, Types
  <2>2. stage # "record" /\ stage \notin Jobs
    BY <2>1 DEF Types, Jobs
  <2> QED
    BY <2>1, <2>2, ExportsTell, StillPaid DEF PInv
<1>3. CASE CollectFeatures \/ CommitFeatures
  <2>1. Apart
    BY <1>3, FeaturesAreApart
  <2>2. stage # "record" /\ stage \notin Jobs /\ stage # "Transaction"
    BY <2>1 DEF Apart, FeatureTypes, PoolRecord, TokenRecord, ActiveRecord, Jobs
  <2> QED
    BY <2>1, <2>2, ExportsTell, StillPaid DEF PInv, Apart
<1>4. CASE FeaturesRecord
  BY <1>4, RecordPays DEF FeaturesRecord, PInv
<1>5. CASE FeaturesRaise \/ FeaturesFail \/ FeaturesRestart
  <2>1. StartOver
    BY <1>5 DEF FeaturesRaise, FeaturesFail, FeaturesRestart, ReceiptMissing, RoundFails, Restart
  <2>2. Begun' /\ missed' = {}
    BY <2>1 DEF PInv, IInv, Staged, StartOver, Begun, Empty
  <2>3. Dated'
    BY <2>1 DEF PInv, Told, Dated, StartOver
  <2> QED
    BY <2>1, <2>2, <2>3, BeginsToldNext, StillPaid DEF PInv, StartOver, Unburdened
<1>6. CASE UNCHANGED vars
  <2>1. UNCHANGED chainVars
    BY <1>6 DEF vars
  <2>2. Told'
    BY <2>1 DEF chainVars, PInv, Told, Dated, Replaced, BlocksTold, TransactionsTold, LogsTold,
       ReceiptsTold, TracesTold, ContractsTold, BalancesTold, Missing, Round, RoundEnd,
       InBuffer, AllFilled, Passed, Position, Plan
  <2> QED
    BY <2>1, <2>2, StillPaid DEF PInv, chainVars
<1> QED
  BY <1>1, <1>2, <1>3, <1>4, <1>5, <1>6 DEF Next, Step

(* The invariant behind NothingIsLost.                                      *)
LEMMA Accounts == Spec => []PInv
<1>1. Init => PInv
  <2> SUFFICES ASSUME Init PROVE PInv
    OBVIOUS
  <2>1. Begun /\ missed = {} /\ Dated
    BY ChainAssumption DEF Init, ChainInit, Begun, Dated
  <2>2. StartBlock..synced = {}
    BY ChainAssumption DEF Init, ChainInit
  <2> QED
    BY <2>1, <2>2, Begins, BeginsTold DEF PInv, CompleteOnceSynced, Unburdened
<1> QED
  BY <1>1, Pays, PTL DEF Spec

(* Nothing the node told of a recorded block is missing from the tables,   *)
(* for a mission that exports them all, wherever rounds failed and the     *)
(* process was started again.                                              *)
THEOREM NothingIsLost == Spec => []CompleteOnceSynced
<1>1. PInv => CompleteOnceSynced
  BY DEF PInv
<1> QED
  BY <1>1, Accounts, PTL

(***************************************************************************)
(* Finite sets and the order of logs.                                      *)
(***************************************************************************)

(* The values of a function on a finite set are finitely many.             *)
LEMMA ImageFinite ==
  ASSUME NEW S, IsFiniteSet(S), NEW f
  PROVE  IsFiniteSet({f[x] : x \in S})
<1> DEFINE T == {f[x] : x \in S}
           g == [x \in S |-> f[x]]
<1>1. g \in Surjection(S, T)
  BY DEF Surjection
<1> QED
  BY <1>1, FS_Surjection

(* A set of numbers has a least one.                                       *)
LEMMA Least ==
  ASSUME NEW S \in SUBSET Nat, S # {}
  PROVE  \E n \in S : \A m \in S : n <= m
<1>1. PICK n \in S : \A m \in S : ~(<<m, n>> \in OpToRel(<, Nat))
  BY NatLessThanWellFounded, WFMin
<1>2. \A m \in S : ~(m < n)
  BY <1>1 DEF OpToRel
<1> QED
  BY <1>2

(* A log has a block, a transaction and a place there.                     *)
At(L) == \A l \in L : l.block \in Nat /\ l.tx \in Nat /\ l.at \in Nat

(* The logs of the feature jobs have a place.                               *)
LEMMA LogsAt == At(PoolLogs) /\ At(NftLogs) /\ At(BundleLogs)
<1>1. Blocks \subseteq Nat
  BY ChainAssumption DEF Blocks
<1> QED
  BY <1>1, FeaturesAssumption DEF At

(* Later orders the logs of a chain.                                       *)
LEMMA LaterOrders ==
  ASSUME NEW L, At(L), Placed(L), NEW l \in L, NEW m \in L
  PROVE  /\ ~Later(l, l)
         /\ \A n \in L : Later(l, m) /\ Later(m, n) => Later(l, n)
         /\ l = m \/ Later(l, m) \/ Later(m, l)
         /\ ~Later(l, m) => l.block <= m.block
<1>1. \A n \in L : n.block \in Nat /\ n.tx \in Nat /\ n.at \in Nat
  BY DEF At
<1>2. l = m \/ l.block # m.block \/ l.tx # m.tx \/ l.at # m.at
  BY DEF Placed
<1> QED
  BY <1>1, <1>2 DEF Later

(* The last log of a set of logs.                                          *)
LEMMA LatestFacts ==
  ASSUME NEW L, At(L), Placed(L), NEW S \in SUBSET L, S # {}
  PROVE  /\ LatestOf(S) \in S
         /\ \A m \in S : ~Later(m, LatestOf(S)) /\ m.block <= LatestOf(S).block
         /\ \A l \in S : (\A m \in S : ~Later(m, l)) => l = LatestOf(S)
<1> DEFINE above(l) == {m \in S : Later(m, l)}
<1>1. IsFiniteSet(S)
  BY FS_Subset DEF Placed
<1>2. \A l : IsFiniteSet(above(l)) /\ Cardinality(above(l)) \in Nat
  BY <1>1, FS_Subset, FS_CardinalityType
<1>3. PICK l \in S : \A m \in S : Cardinality(above(l)) <= Cardinality(above(m))
  <2> DEFINE N == {Cardinality(above(m)) : m \in S}
  <2>1. N \in SUBSET Nat /\ N # {}
    BY <1>2
  <2>2. PICK n \in N : \A k \in N : n <= k
    <3> HIDE DEF N
    <3> QED
      BY <2>1, Least
  <2> QED
    BY <2>2
<1>4. ASSUME NEW m \in S, Later(m, l) PROVE FALSE
  <2>1. above(m) \subseteq above(l)
    BY <1>4, LaterOrders
  <2>2. m \in above(l) /\ m \notin above(m)
    BY <1>4, LaterOrders
  <2>3. above(m) \in SUBSET above(l) /\ above(m) # above(l)
    BY <2>1, <2>2
  <2> HIDE DEF above
  <2>4. Cardinality(above(m)) < Cardinality(above(l))
    BY <1>2, <2>3, FS_Subset
  <2> QED
    BY <1>2, <1>3, <2>4
<1>5. LatestOf(S) \in S /\ \A m \in S : ~Later(m, LatestOf(S))
  BY <1>4 DEF LatestOf
<1>6. \A m \in S : m.block <= LatestOf(S).block
  BY <1>5, LaterOrders
<1>7. \A k \in S : (\A m \in S : ~Later(m, k)) => k = LatestOf(S)
  BY <1>5, LaterOrders
<1> QED
  BY <1>5, <1>6, <1>7

(* The last block of a set of logs is that of its last log.                *)
LEMMA LastBlockFacts ==
  ASSUME NEW L, At(L), Placed(L), NEW S \in SUBSET L, S # {}
  PROVE  LastBlockOf(S) = LatestOf(S).block
<1>1. LatestOf(S) \in S /\ \A m \in S : m.block <= LatestOf(S).block
  BY LatestFacts
<1>2. \A m \in S : m.block \in Nat
  BY DEF At
<1>3. LastBlockOf(S) \in {l.block : l \in S} /\ \A l \in S : l.block <= LastBlockOf(S)
  BY <1>1 DEF LastBlockOf
<1> QED
  BY <1>1, <1>2, <1>3

(* Logs of one transaction: a sequence in the order of their places, in    *)
(* which each of them is found.                                            *)
LEMMA InOrderFacts ==
  ASSUME NEW L, IsFiniteSet(L), \A l \in L : l.at \in Nat,
         \A l, m \in L : l.at = m.at => l = m
  PROVE  /\ Cardinality(L) \in Nat
         /\ DOMAIN InOrder(L) = 1..Cardinality(L) /\ Len(InOrder(L)) = Cardinality(L)
         /\ \A i \in 1..Cardinality(L) :
              InOrder(L)[i] \in L /\ Rank(InOrder(L)[i], L) = i - 1
         /\ \A l \in L : /\ Rank(l, L) + 1 \in 1..Cardinality(L)
                         /\ InOrder(L)[Rank(l, L) + 1] = l
         /\ \A l, m \in L : l.at < m.at <=> Rank(l, L) < Rank(m, L)
<1> DEFINE n == Cardinality(L)
           below(l) == {m \in L : m.at < l.at}
<1>1. n \in Nat
  BY FS_CardinalityType
<1>2. \A l : IsFiniteSet(below(l)) /\ Cardinality(below(l)) \in Nat /\ Rank(l, L) = Cardinality(below(l))
  BY FS_Subset, FS_CardinalityType DEF Rank
<1>3. ASSUME NEW l \in L, NEW m \in L, l.at < m.at PROVE Rank(l, L) < Rank(m, L)
  <2>1. below(l) \in SUBSET below(m) /\ l \in below(m) /\ l \notin below(l)
    BY <1>3
  <2>2. below(l) # below(m)
    BY <2>1
  <2> HIDE DEF below
  <2> QED
    BY <1>2, <2>1, <2>2, FS_Subset
<1>4. \A l, m \in L : l.at < m.at <=> Rank(l, L) < Rank(m, L)
  <2>1. \A l \in L : Rank(l, L) \in Nat
    BY <1>2
  <2>2. \A l, m \in L : l.at < m.at => Rank(l, L) < Rank(m, L)
    BY <1>3
  <2>3. \A l, m \in L : l.at < m.at \/ m.at < l.at \/ l = m
    OBVIOUS
  <2> QED
    BY <2>1, <2>2, <2>3
<1>5. ASSUME NEW l \in L PROVE Rank(l, L) \in 0..n - 1
  <2>1. below(l) \in SUBSET L /\ l \notin below(l)
    OBVIOUS
  <2>2. below(l) # L
    BY <2>1
  <2> HIDE DEF below
  <2>3. Cardinality(below(l)) <= n /\ Cardinality(below(l)) # n
    BY <2>1, <2>2, FS_Subset
  <2> QED
    BY <1>1, <1>2, <2>3
<1>6. \A l, m \in L : Rank(l, L) = Rank(m, L) => l = m
  BY <1>2, <1>4
<1> DEFINE f == [l \in L |-> Rank(l, L)]
<1>7. f \in Injection(L, 0..n - 1)
  BY <1>5, <1>6 DEF Injection, IsInjective
<1>8. IsFiniteSet(0..n - 1) /\ Cardinality(0..n - 1) = n
  BY <1>1, FS_Interval
<1>9. f \in Surjection(L, 0..n - 1)
  <2> HIDE DEF f
  <2> QED
    BY <1>7, <1>8, FS_Injection
<1>10. \A k \in 0..n - 1 : \E l \in L : Rank(l, L) = k
  BY <1>9 DEF Surjection
<1>11. ASSUME NEW i \in 1..n PROVE InOrder(L)[i] \in L /\ Rank(InOrder(L)[i], L) = i - 1
  <2>1. \E l \in L : Rank(l, L) = i - 1
    BY <1>1, <1>10
  <2> QED
    BY <2>1 DEF InOrder
<1>12. DOMAIN InOrder(L) = 1..n /\ Len(InOrder(L)) = n
  BY <1>1 DEF InOrder
<1>13. ASSUME NEW l \in L PROVE Rank(l, L) + 1 \in 1..n /\ InOrder(L)[Rank(l, L) + 1] = l
  <2>1. PICK i \in 1..n : i = Rank(l, L) + 1
    BY <1>1, <1>5
  <2>2. InOrder(L)[i] \in L /\ Rank(InOrder(L)[i], L) = i - 1
    BY <1>11
  <2>3. Rank(InOrder(L)[i], L) = Rank(l, L)
    BY <1>5, <2>1, <2>2
  <2> QED
    BY <1>6, <2>1, <2>2, <2>3
<1> QED
  BY <1>1, <1>4, <1>11, <1>12, <1>13

(***************************************************************************)
(* What an attempt keeps of the answers it was given.                      *)
(***************************************************************************)

(* The blocks of a round that were answered are in the buffer, with the    *)
(* transactions the mission wants of them.                                 *)
BlocksAnswered ==
  Passed("blocks") =>
    \A b \in Requested : BlockRow(b) \in buff["Block"] <=> BlockRow(b) \notin missed
TransactionsKept ==
  \A t \in Transactions : BlockRow(t.block) \in buff["Block"] /\ Wanted(t) => InBuffer(t)

(* A transaction has its receipt, or the request for it had no answer.     *)
ReceiptsAnswered ==
  /\ buff[Receipts] \subseteq buff["Transaction"]
  /\ ~Passed("transactions_and_logs") =>
       buff[Receipts] = {} /\ \A r \in missed : r.kind # Receipts
  /\ Passed("transactions_and_logs") =>
       \A t \in Transactions : InBuffer(t) =>
         (TransactionRow(t) \in buff[Receipts] <=> Row(Receipts, t.block, t.index, 0) \notin missed)

(* A log comes with the receipt of its transaction.                        *)
LogsKept ==
  \A r \in buff["Log"] : \E t \in Transactions :
    TransactionRow(t) \in buff[Receipts] /\ \E i \in 1..t.logs : r = LogRow(t, i)

Bounded ==
  /\ stage = "blocks" => missed = {}
  /\ \A r \in missed \cup unanswered : r.kind \in RequestKinds
  /\ faults \in 0..MaxFaults

Answered ==
  BlocksAnswered /\ TransactionsKept /\ ReceiptsAnswered /\ LogsKept /\ Bounded

(* A round that goes on, and one that ends.                                *)
GoesOn ==
  /\ stage # "record" /\ stage' = Next1(stage)
  /\ UNCHANGED <<mission, synced, unanswered>>
Ends ==
  /\ stage' = "blocks" /\ buff' = Empty /\ missed' = {}
  /\ UNCHANGED <<mission, stored, counts>>
  /\ (synced' = synced /\ unanswered' = unanswered) \/ Record

(* A round that goes on has passed one stage more.                          *)
LEMMA GoingOn ==
  ASSUME IInv, GoesOn
  PROVE  /\ \A s : Passed(s)' <=> (Passed(s) \/ s = stage)
         /\ stage' # "blocks"
         /\ UNCHANGED <<Plan, Round, RoundEnd>>
         /\ \A s : Runs(s)' <=> Runs(s)
<1>1. /\ \A s : Passed(s)' <=> (Passed(s) \/ s = stage)
      /\ stage' # "blocks"
  BY NextStage DEF IInv, GoesOn
<1>2. UNCHANGED <<Plan, Round, RoundEnd>>
  BY DEF GoesOn, Plan, Round, RoundEnd
<1> QED
  BY <1>1, <1>2 DEF Runs

(* A round that ends leaves nothing in the buffer and has passed no stage.  *)
LEMMA Ending ==
  ASSUME IInv, Ends
  PROVE  /\ \A s : ~Passed(s)'
         /\ Plan' = Plan /\ (\A s : Runs(s)' <=> Runs(s))
         /\ \A t \in Types \cup {Receipts} : buff'[t] = {}
<1>1. mission' \in Missions /\ stage' = "blocks"
  BY DEF IInv, Staged, Ends
<1>2. Plan' = Plan
  BY DEF Ends, Plan
<1>3. Position(stage)' = 1 /\ \A i \in DOMAIN Plan : ~(i < 1)
  <2>1. mission \in Missions
    BY DEF IInv, Staged
  <2>2. 1 \in DOMAIN Plan /\ Plan[1] = "blocks" /\ \A i \in DOMAIN Plan : ~(i < 1)
    BY <2>1, PlanFacts
  <2>3. Position("blocks") = 1
    BY <2>1, <2>2, PositionOf
  <2> QED
    BY <1>1, <1>2, <2>2, <2>3 DEF Position
<1>4. \A s : ~Passed(s)'
  BY <1>2, <1>3 DEF Passed
<1> QED
  BY <1>2, <1>4 DEF Ends, Empty, Runs

(* The steps of the system: what they do to the round.                     *)
LEMMA StepsGoOn ==
  ASSUME Collect \/ Commit \/ CollectFeatures \/ CommitFeatures
  PROVE  GoesOn
<1>1. CASE Collect
  BY <1>1 DEF Collect, CollectBlocks, CollectReceipts, CollectTraces, CollectContracts,
              CollectBalances, Collected, GoesOn
<1>2. CASE Commit
  BY <1>2 DEF Commit, CommitRows, CommitTransactions, CommitCounts, Committed, GoesOn, Types
<1>3. CASE CollectFeatures \/ CommitFeatures
  <2>1. Apart
    BY <1>3, FeaturesAreApart
  <2> QED
    BY <2>1 DEF Apart, GoesOn, FeatureTypes, PoolRecord, TokenRecord, ActiveRecord
<1> QED
  BY <1>1, <1>2, <1>3

(* Four actions end a round.                                                *)
LEMMA StepsEnd ==
  ASSUME FeaturesRecord \/ FeaturesRaise \/ FeaturesFail \/ FeaturesRestart
  PROVE  Ends
BY DEF FeaturesRecord, FeaturesRaise, FeaturesFail, FeaturesRestart, Record, ReceiptMissing,
       RoundFails, Restart, StartOver, Ends

(* Only the jobs of the chain touch the buffer, and each its own items.    *)
LEMMA WhatGoesOn ==
  ASSUME IInv, Collect \/ Commit \/ CollectFeatures \/ CommitFeatures
  PROVE  /\ stage # "blocks" => /\ buff'["Block"] = buff["Block"]
                                /\ buff'["Transaction"] = buff["Transaction"]
         /\ stage # "transactions_and_logs" => /\ buff'["Log"] = buff["Log"]
                                               /\ buff'[Receipts] = buff[Receipts]
         /\ stage # "traces" => /\ buff'["Trace"] = buff["Trace"]
                                /\ buff'["UpdateBlockInternalCount"] = buff["UpdateBlockInternalCount"]
         /\ stage \notin Jobs => buff' = buff /\ missed' = missed
         /\ stage \in Jobs => stored' = stored /\ counts' = counts
         /\ missed \subseteq missed'
<1>1. DOMAIN buff = Types \cup {Receipts}
  BY DEF IInv, Filled
<1>2. CASE Collect
  BY <1>1, <1>2 DEF Collect, CollectBlocks, CollectReceipts, CollectTraces, CollectContracts,
              CollectBalances, Collected, Types, Receipts, Jobs
<1>3. CASE Commit
  BY <1>3 DEF Commit, CommitRows, CommitTransactions, CommitCounts, Committed, Types, Jobs
<1>4. CASE CollectFeatures \/ CommitFeatures
  <2>1. Apart
    BY <1>4, FeaturesAreApart
  <2>2. stage \notin Jobs
    BY <2>1 DEF Apart, FeatureTypes, PoolRecord, TokenRecord, ActiveRecord, Jobs
  <2> QED
    BY <2>1, <2>2 DEF Apart
<1> QED
  BY <1>2, <1>3, <1>4

(* The requests of an attempt are finitely many.                           *)
LEMMA RoundIsFinite ==
  ASSUME IInv
  PROVE  /\ IsFiniteSet(Round)
         /\ IsFiniteSet(buff["Block"]) /\ IsFiniteSet({r.block : r \in buff["Block"]})
<1>1. IsFiniteSet(Round)
  BY ChainAssumption, FS_Interval DEF Round, RoundEnd, IInv, Staged
<1>2. {r.block : r \in buff["Block"]} \subseteq Round
  BY AskedBlocks, InTheRound
<1>3. buff["Block"] \subseteq {BlockRow(b) : b \in Round}
  <2>1. ASSUME NEW r \in buff["Block"] PROVE r.block \in Round /\ r = BlockRow(r.block)
    BY <1>2, BlockRows DEF IInv, Filled, ItemOf, RowTypes, Types
  <2> QED
    BY <2>1
<1>4. IsFiniteSet({BlockRow(b) : b \in Round})
  <2> DEFINE f == [b \in Round |-> BlockRow(b)]
  <2>1. {f[b] : b \in Round} = {BlockRow(b) : b \in Round}
    OBVIOUS
  <2> HIDE DEF f
  <2> QED
    BY <1>1, <2>1, ImageFinite
<1> QED
  BY <1>1, <1>2, <1>3, <1>4, FS_Subset

(* Finitely many have a part in a block.                                    *)
LEMMA PartiesAreFinite ==
  ASSUME NEW b, NEW T \in SUBSET Transactions, NEW C \in SUBSET Calls
  PROVE  IsFiniteSet(Parties(b, T, C))
<1>1. IsFiniteSet(T) /\ IsFiniteSet(C)
  BY ChainAssumption, FS_Subset
<1> DEFINE pair(x) == {x.from, x.to}
           U == {t \in T : t.block = b}
           D == {c \in C : c.block = b}
<1>2. \A x : IsFiniteSet(pair(x))
  <2>1. \A x, y : IsFiniteSet({x} \cup {y})
    BY FS_Singleton, FS_Union
  <2> TAKE x
  <2>2. pair(x) = {x.from} \cup {x.to}
    OBVIOUS
  <2> HIDE DEF pair
  <2> QED
    BY <2>1, <2>2
<1>3. ASSUME NEW S, IsFiniteSet(S) PROVE IsFiniteSet(UNION {pair(x) : x \in S})
  <2> DEFINE f == [x \in S |-> pair(x)]
  <2>1. {f[x] : x \in S} = {pair(x) : x \in S}
    OBVIOUS
  <2> HIDE DEF f, pair
  <2>2. IsFiniteSet({pair(x) : x \in S})
    <3>1. IsFiniteSet({f[x] : x \in S})
      BY <1>3, ImageFinite
    <3> QED
      BY <2>1, <3>1
  <2>3. \A P \in {pair(x) : x \in S} : IsFiniteSet(P)
    BY <1>2
  <2> QED
    BY <2>2, <2>3, FS_UNION
<1>4. IsFiniteSet(U) /\ IsFiniteSet(D)
  BY <1>1, FS_Subset
<1>5. IsFiniteSet(UNION {pair(x) : x \in U}) /\ IsFiniteSet(UNION {pair(x) : x \in D})
  BY <1>3, <1>4
<1>6. Parties(b, T, C) \subseteq
        ({Miner[b]} \cup (UNION {pair(x) : x \in U})) \cup (UNION {pair(x) : x \in D})
  BY DEF Parties, PartiesOfCalls
<1> HIDE DEF U, D, pair
<1>7. IsFiniteSet({Miner[b]} \cup (UNION {pair(x) : x \in U}))
  BY <1>5, FS_Singleton, FS_Union
<1>8. IsFiniteSet(({Miner[b]} \cup (UNION {pair(x) : x \in U})) \cup (UNION {pair(x) : x \in D}))
  BY <1>5, <1>7, FS_Union
<1> QED
  BY <1>6, <1>8, FS_Subset

(* An attempt takes no more answers away than the faults that are left.    *)
LEMMA FaultsWithin ==
  ASSUME IInv, faults \in 0..MaxFaults, Collect
  PROVE  faults' \in 0..MaxFaults
<1>1. ASSUME NEW b, NEW omitted, IsFiniteSet(omitted), Collected(b, omitted)
      PROVE  faults' \in 0..MaxFaults
  <2>1. Cardinality(omitted) \in Nat
    BY <1>1, FS_CardinalityType
  <2> QED
    BY <1>1, <2>1, ChainAssumption DEF Collected
<1>2. CASE CollectBlocks
  <2>1. PICK gone \in SUBSET Requested : \E b : Collected(b, {BlockRow(x) : x \in gone})
    BY <1>2 DEF CollectBlocks
  <2>2. IsFiniteSet(gone)
    BY RoundIsFinite, FS_Subset DEF Requested
  <2> DEFINE f == [x \in gone |-> BlockRow(x)]
  <2>3. {f[x] : x \in gone} = {BlockRow(x) : x \in gone}
    OBVIOUS
  <2> HIDE DEF f
  <2> QED
    BY <1>1, <2>1, <2>2, <2>3, ImageFinite
<1>3. CASE CollectReceipts
  <2>1. PICK gone \in SUBSET {t \in Transactions : InBuffer(t)} : \E b :
          Collected(b, {Row(Receipts, t.block, t.index, 0) : t \in gone})
    BY <1>3 DEF CollectReceipts
  <2>2. IsFiniteSet(gone)
    BY ChainAssumption, FS_Subset
  <2> DEFINE f == [t \in gone |-> Row(Receipts, t.block, t.index, 0)]
  <2>3. {f[t] : t \in gone} = {Row(Receipts, t.block, t.index, 0) : t \in gone}
    OBVIOUS
  <2> HIDE DEF f
  <2> QED
    BY <1>1, <2>1, <2>2, <2>3, ImageFinite
<1>4. CASE CollectTraces
  <2> DEFINE asked == {r.block : r \in buff["Block"]}
  <2>1. PICK gone \in SUBSET asked : \E unavailable \in SUBSET (asked \ gone) : \E b :
          Collected(b, {Row("Trace", x, 0, 0) : x \in gone}
                         \cup {Row("Unavailable", x, 0, 0) : x \in unavailable})
    BY <1>4 DEF CollectTraces
  <2>2. PICK unavailable \in SUBSET (asked \ gone) : \E b :
          Collected(b, {Row("Trace", x, 0, 0) : x \in gone}
                         \cup {Row("Unavailable", x, 0, 0) : x \in unavailable})
    BY <2>1
  <2>3. IsFiniteSet(gone) /\ IsFiniteSet(unavailable)
    BY RoundIsFinite, FS_Subset
  <2> DEFINE f == [x \in gone |-> Row("Trace", x, 0, 0)]
             g == [x \in unavailable |-> Row("Unavailable", x, 0, 0)]
  <2>4. {f[x] : x \in gone} = {Row("Trace", x, 0, 0) : x \in gone}
    OBVIOUS
  <2>5. {g[x] : x \in unavailable} = {Row("Unavailable", x, 0, 0) : x \in unavailable}
    OBVIOUS
  <2> HIDE DEF f, g
  <2>6. IsFiniteSet({f[x] : x \in gone}) /\ IsFiniteSet({g[x] : x \in unavailable})
    BY <2>3, ImageFinite
  <2>7. /\ IsFiniteSet({Row("Trace", x, 0, 0) : x \in gone})
        /\ IsFiniteSet({Row("Unavailable", x, 0, 0) : x \in unavailable})
    BY <2>4, <2>5, <2>6
  <2> QED
    BY <1>1, <2>2, <2>7, FS_Union
<1>5. CASE CollectContracts
  <2> DEFINE C == {d \in Calls : TraceRow(d) \in buff["Trace"] /\ Creates(d)}
             f == [c \in C |-> ContractRow(c)]
  <2>1. PICK gone \in SUBSET {ContractRow(c) : c \in C} : \E b : Collected(b, gone)
    BY <1>5 DEF CollectContracts
  <2>2. IsFiniteSet(C)
    BY ChainAssumption, FS_Subset
  <2>3. {f[c] : c \in C} = {ContractRow(c) : c \in C}
    OBVIOUS
  <2> HIDE DEF f, C
  <2>4. IsFiniteSet({ContractRow(c) : c \in C})
    BY <2>2, <2>3, ImageFinite
  <2> QED
    BY <1>1, <2>1, <2>4, FS_Subset
<1>6. CASE CollectBalances
  <2> DEFINE C == {c \in Calls : InternalRow(c) \in buff["ContractInternalTransaction"]}
             T == {t \in Transactions : InBuffer(t)}
             part(r) == {BalanceRow(r.block, a) : a \in Parties(r.block, T, C)}
  <2>1. PICK gone \in SUBSET (UNION {part(r) : r \in buff["Block"]}) : \E b : Collected(b, gone)
    BY <1>6 DEF CollectBalances
  <2>2. T \in SUBSET Transactions /\ C \in SUBSET Calls
    OBVIOUS
  <2> HIDE DEF T, C
  <2>3. ASSUME NEW r PROVE IsFiniteSet(part(r))
    <3>1. IsFiniteSet(Parties(r.block, T, C))
      BY <2>2, PartiesAreFinite
    <3> DEFINE f == [a \in Parties(r.block, T, C) |-> BalanceRow(r.block, a)]
    <3>2. {f[a] : a \in Parties(r.block, T, C)} = part(r)
      OBVIOUS
    <3> HIDE DEF f, part
    <3>3. IsFiniteSet({f[a] : a \in Parties(r.block, T, C)})
      BY <3>1, ImageFinite
    <3> QED
      BY <3>2, <3>3
  <2> DEFINE g == [r \in buff["Block"] |-> part(r)]
  <2>4. {g[r] : r \in buff["Block"]} = {part(r) : r \in buff["Block"]}
    OBVIOUS
  <2>5. \A P \in {part(r) : r \in buff["Block"]} : IsFiniteSet(P)
    BY <2>3
  <2> HIDE DEF g, part
  <2>6. IsFiniteSet({part(r) : r \in buff["Block"]})
    <3>1. IsFiniteSet({g[r] : r \in buff["Block"]})
      BY RoundIsFinite, ImageFinite
    <3> QED
      BY <2>4, <3>1
  <2>7. IsFiniteSet(UNION {part(r) : r \in buff["Block"]})
    BY <2>5, <2>6, FS_UNION
  <2>8. IsFiniteSet(gone)
    BY <2>7, FS_Subset
  <2> QED
    BY <1>1, <2>1, <2>8
<1> QED
  BY <1>2, <1>3, <1>4, <1>5, <1>6 DEF Collect

(* ExportBlocksJob keeps the answers it was given.                          *)
LEMMA AnswersBlocks ==
  ASSUME IInv, Answered, CollectBlocks
  PROVE  Answered'
<1>1. PICK gone \in SUBSET Requested :
        Collected([buff EXCEPT
                    !["Block"] = {BlockRow(b) : b \in Requested \ gone},
                    !["Transaction"] =
                      {TransactionRow(t) : t \in {u \in Transactions :
                                      u.block \in Requested \ gone /\ Wanted(u)}}],
                 {BlockRow(b) : b \in gone})
  BY DEF CollectBlocks
<1> DEFINE got == Requested \ gone
<1>2. /\ stage = "blocks" /\ GoesOn /\ missed = {}
      /\ missed' = {BlockRow(b) : b \in gone}
  BY <1>1 DEF CollectBlocks, Collected, GoesOn, Answered, Bounded
<1>3. DOMAIN buff = Types \cup {Receipts}
  BY DEF IInv, Filled
<1>4. /\ buff'["Block"] = {BlockRow(b) : b \in got}
      /\ buff'["Transaction"] =
           {TransactionRow(t) : t \in {u \in Transactions : u.block \in got /\ Wanted(u)}}
      /\ buff'["Log"] = buff["Log"] /\ buff'[Receipts] = buff[Receipts]
  BY <1>1, <1>3 DEF Collected, Types, Receipts
<1>5. /\ \A s : ~Passed(s)
      /\ \A s : Passed(s)' <=> s = "blocks"
      /\ Requested' = Requested
  BY <1>2, GoingOn, FirstStage DEF IInv, Staged, GoesOn, Requested
<1>6. \A b, c : BlockRow(b) = BlockRow(c) => b = c
  BY DEF BlockRow, Row
<1>7. BlocksAnswered'
  BY <1>2, <1>4, <1>5, <1>6 DEF BlocksAnswered
<1>8. TransactionsKept'
  <2>1. ASSUME NEW t \in Transactions, BlockRow(t.block) \in buff'["Block"], Wanted(t)'
        PROVE  TransactionRow(t) \in buff'["Transaction"]
    <3>1. t.block \in got /\ Wanted(t)
      BY <1>2, <1>4, <1>6, <2>1 DEF Wanted, GoesOn
    <3> QED
      BY <1>4, <3>1
  <2> QED
    BY <2>1 DEF TransactionsKept, InBuffer
<1>9. ReceiptsAnswered'
  <2>1. buff'[Receipts] = {}
    BY <1>4, <1>5 DEF Answered, ReceiptsAnswered
  <2>2. \A r \in missed' : r.kind # Receipts
    BY <1>2 DEF BlockRow, Row, Receipts
  <2> QED
    BY <1>5, <2>1, <2>2 DEF ReceiptsAnswered
<1>10. LogsKept'
  BY <1>4 DEF Answered, LogsKept
<1>11. Bounded'
  <2>1. \A r \in missed' : r.kind = "Block"
    BY <1>2 DEF BlockRow, Row
  <2>5. faults' \in 0..MaxFaults
    BY FaultsWithin DEF Collect, Answered, Bounded
  <2>6. unanswered' = unanswered /\ stage' # "blocks"
    BY <1>2, GoingOn DEF GoesOn
  <2> QED
    BY <2>1, <2>5, <2>6 DEF Answered, Bounded, RequestKinds
<1> QED
  BY <1>7, <1>8, <1>9, <1>10, <1>11 DEF Answered

(* ExportTransactionsAndLogsJob keeps the answers it was given.             *)
LEMMA AnswersReceipts ==
  ASSUME IInv, Answered, CollectReceipts
  PROVE  Answered'
<1> DEFINE buffered == {t \in Transactions : InBuffer(t)}
<1>1. PICK gone \in SUBSET buffered :
        Collected([buff EXCEPT
                    ![Receipts] = {TransactionRow(t) : t \in buffered \ gone},
                    !["Log"] = UNION {{LogRow(t, i) : i \in 1..t.logs} : t \in buffered \ gone}],
                 {Row(Receipts, t.block, t.index, 0) : t \in gone})
  BY DEF CollectReceipts
<1>2. /\ stage = "transactions_and_logs" /\ GoesOn
      /\ missed' = missed \cup {Row(Receipts, t.block, t.index, 0) : t \in gone}
  BY <1>1 DEF CollectReceipts, Collected, GoesOn
<1>3. DOMAIN buff = Types \cup {Receipts}
  BY DEF IInv, Filled
<1>4. /\ buff'[Receipts] = {TransactionRow(t) : t \in buffered \ gone}
      /\ buff'["Log"] = UNION {{LogRow(t, i) : i \in 1..t.logs} : t \in buffered \ gone}
      /\ buff'["Block"] = buff["Block"] /\ buff'["Transaction"] = buff["Transaction"]
  BY <1>1, <1>3 DEF Collected, Types, Receipts
<1>5. /\ \A s : Passed(s)' <=> (Passed(s) \/ s = "transactions_and_logs")
      /\ ~Passed("transactions_and_logs") /\ stage' # "blocks"
      /\ Requested' = Requested /\ unanswered' = unanswered
  <2>1. Round' = Round /\ mission' = mission
    BY <1>2, GoingOn DEF GoesOn
  <2> QED
    BY <1>2, <2>1, GoingOn, StageOrder DEF IInv, GoesOn, Requested
<1>6. \A t, u \in Transactions :
        /\ TransactionRow(t) = TransactionRow(u) => t = u
        /\ Row(Receipts, t.block, t.index, 0) = Row(Receipts, u.block, u.index, 0) => t = u
  BY ChainAssumption DEF TransactionRow, Row
<1>7. BlocksAnswered'
  <2>1. \A t \in gone : Row(Receipts, t.block, t.index, 0).kind # "Block"
    BY DEF Row, Receipts
  <2>2. \A b : BlockRow(b).kind = "Block"
    BY DEF BlockRow, Row
  <2>3. \A b : BlockRow(b) \in missed' <=> BlockRow(b) \in missed
    BY <1>2, <2>1, <2>2
  <2> QED
    BY <1>4, <1>5, <2>3 DEF Answered, BlocksAnswered
<1>8. TransactionsKept'
  BY <1>2, <1>4 DEF Answered, TransactionsKept, InBuffer, Wanted, GoesOn
<1>9. ReceiptsAnswered'
  <2>1. buff'[Receipts] \subseteq buff'["Transaction"]
    BY <1>4 DEF InBuffer
  <2>2. ASSUME NEW t \in Transactions, InBuffer(t)
        PROVE  TransactionRow(t) \in buff'[Receipts] <=> Row(Receipts, t.block, t.index, 0) \notin missed'
    <3>1. Row(Receipts, t.block, t.index, 0) \notin missed
      <4>1. Row(Receipts, t.block, t.index, 0).kind = Receipts
        BY DEF Row
      <4> QED
        BY <1>5, <4>1 DEF Answered, ReceiptsAnswered
    <3>2. TransactionRow(t) \in buff'[Receipts] <=> t \notin gone
      BY <1>4, <1>6, <2>2
    <3>3. Row(Receipts, t.block, t.index, 0) \in missed' <=> t \in gone
      BY <1>2, <1>6, <3>1
    <3> QED
      BY <3>2, <3>3
  <2>3. \A t : InBuffer(t)' <=> InBuffer(t)
    BY <1>4 DEF InBuffer
  <2> QED
    BY <1>5, <2>1, <2>2, <2>3 DEF ReceiptsAnswered
<1>10. LogsKept'
  BY <1>4 DEF LogsKept
<1>11. Bounded'
  <2>1. \A t \in gone : Row(Receipts, t.block, t.index, 0).kind = Receipts
    BY DEF Row
  <2>2. faults' \in 0..MaxFaults
    BY FaultsWithin DEF Collect, Answered, Bounded
  <2> QED
    BY <1>2, <1>5, <2>1, <2>2 DEF Answered, Bounded, RequestKinds
<1> QED
  BY <1>7, <1>8, <1>9, <1>10, <1>11 DEF Answered

(* Other steps of a round ask for neither blocks nor receipts.             *)
LEMMA AnswersOther ==
  ASSUME IInv, Answered, GoesOn, stage \notin {"blocks", "transactions_and_logs"},
         buff'["Block"] = buff["Block"], buff'["Transaction"] = buff["Transaction"],
         buff'["Log"] = buff["Log"], buff'[Receipts] = buff[Receipts],
         missed \subseteq missed',
         \A r \in missed' \ missed : r.kind \in RequestKinds \ {"Block", Receipts},
         faults' \in 0..MaxFaults
  PROVE  Answered'
<1>1. /\ \A s : Passed(s)' <=> (Passed(s) \/ s = stage)
      /\ stage' # "blocks"
      /\ Requested' = Requested /\ unanswered' = unanswered /\ mission' = mission
  <2>1. Round' = Round /\ mission' = mission
    BY GoingOn DEF GoesOn
  <2> QED
    BY <2>1, GoingOn DEF GoesOn, Requested
<1>2. \A b : BlockRow(b) \in missed' <=> BlockRow(b) \in missed
  <2>1. \A b : BlockRow(b).kind = "Block"
    BY DEF BlockRow, Row
  <2> QED
    BY <2>1
<1>3. \A t : Row(Receipts, t.block, t.index, 0) \in missed' <=> Row(Receipts, t.block, t.index, 0) \in missed
  <2>1. \A t : Row(Receipts, t.block, t.index, 0).kind = Receipts
    BY DEF Row
  <2> QED
    BY <2>1
<1>4. BlocksAnswered' /\ TransactionsKept'
  BY <1>1, <1>2 DEF Answered, BlocksAnswered, TransactionsKept, InBuffer, Wanted
<1>5. ReceiptsAnswered'
  <2>1. Passed("transactions_and_logs")' <=> Passed("transactions_and_logs")
    BY <1>1
  <2>2. ~Passed("transactions_and_logs") => \A r \in missed' : r.kind # Receipts
    BY DEF Answered, ReceiptsAnswered
  <2>3. \A t : InBuffer(t)' <=> InBuffer(t)
    BY DEF InBuffer
  <2> QED
    BY <1>3, <2>1, <2>2, <2>3 DEF Answered, ReceiptsAnswered
<1>6. LogsKept' /\ Bounded'
  BY <1>1 DEF Answered, LogsKept, Bounded
<1> QED
  BY <1>4, <1>5, <1>6 DEF Answered

(* The end of a round keeps no answers.                                     *)
LEMMA AnswersEnd ==
  ASSUME IInv, Answered, Ends, faults' \in 0..MaxFaults
  PROVE  Answered'
<1>1. /\ \A s : ~Passed(s)'
      /\ \A t \in Types \cup {Receipts} : buff'[t] = {}
  BY Ending
<1>2. unanswered' \subseteq unanswered \cup missed /\ missed' = {}
  BY DEF Ends, Record
<1>3. BlocksAnswered' /\ TransactionsKept' /\ ReceiptsAnswered' /\ LogsKept'
  BY <1>1, <1>2 DEF BlocksAnswered, TransactionsKept, ReceiptsAnswered, LogsKept, Types, Receipts
<1>4. Bounded'
  BY <1>2 DEF Answered, Bounded
<1> QED
  BY <1>3, <1>4 DEF Answered

AInv == IInv /\ Told /\ Answered

(* Every step keeps the answers of the round.                               *)
LEMMA KeepsAnswers == IInv /\ Answered /\ [Next]_vars => Answered'
<1> SUFFICES ASSUME IInv, Answered, [Next]_vars PROVE Answered'
  OBVIOUS
<1>1. CASE CollectBlocks \/ CollectReceipts
  BY <1>1, AnswersBlocks, AnswersReceipts
<1>2. CASE CollectTraces \/ CollectContracts \/ CollectBalances
  <2>1. /\ stage \in {"traces", "contracts", "coin_balances"} /\ GoesOn
        /\ missed \subseteq missed' /\ faults' \in 0..MaxFaults
    <3>1. Collect
      BY <1>2 DEF Collect
    <3> QED
      BY <1>2, <3>1, StepsGoOn, FaultsWithin, WhatGoesOn
         DEF Answered, Bounded, CollectTraces, CollectContracts, CollectBalances
  <2>2. \A r \in missed' \ missed : r.kind \in RequestKinds \ {"Block", Receipts}
    <3>1. CASE CollectTraces
      <4>1. PICK gone, unavailable :
              missed' = missed \cup ({Row("Trace", b, 0, 0) : b \in gone}
                         \cup {Row("Unavailable", b, 0, 0) : b \in unavailable})
        BY <3>1 DEF CollectTraces, Collected
      <4>2. \A b : Row("Trace", b, 0, 0).kind = "Trace" /\ Row("Unavailable", b, 0, 0).kind = "Unavailable"
        BY DEF Row
      <4> QED
        BY <4>1, <4>2 DEF RequestKinds, Receipts
    <3>2. CASE CollectContracts
      <4>1. missed' \ missed \subseteq {ContractRow(c) : c \in Calls}
        BY <3>2 DEF CollectContracts, Collected
      <4> QED
        BY <4>1, CallFields DEF RequestKinds, Receipts
    <3>3. CASE CollectBalances
      <4>1. missed' \ missed \subseteq
              UNION {{BalanceRow(r.block, a) :
                        a \in Parties(r.block, {t \in Transactions : InBuffer(t)},
                                      {c \in Calls : InternalRow(c) \in buff["ContractInternalTransaction"]})} :
                     r \in buff["Block"]}
        BY <3>3 DEF CollectBalances, Collected
      <4>2. ASSUME NEW r \in missed' \ missed PROVE r.kind = "CoinBalance"
        <5>1. PICK b, a : r = BalanceRow(b, a)
          BY <4>1
        <5> QED
          BY <5>1 DEF BalanceRow, Row
      <4> QED
        BY <4>2 DEF RequestKinds, Receipts
    <3> QED
      BY <1>2, <3>1, <3>2, <3>3
  <2>3. /\ buff'["Block"] = buff["Block"] /\ buff'["Transaction"] = buff["Transaction"]
        /\ buff'["Log"] = buff["Log"] /\ buff'[Receipts] = buff[Receipts]
    <3>1. Collect
      BY <1>2 DEF Collect
    <3> QED
      BY <2>1, <3>1, WhatGoesOn
  <2> QED
    BY <2>1, <2>2, <2>3, AnswersOther
<1>3. CASE Commit \/ CollectFeatures \/ CommitFeatures
  <2>1. faults' = faults /\ stage \notin Jobs
    <3>1. CASE Commit
      BY <3>1 DEF Commit, CommitRows, CommitTransactions, CommitCounts, Committed, Types, Jobs
    <3>2. CASE CollectFeatures
      BY <3>2 DEF CollectFeatures, CollectPools, CollectPositions, CollectActiveness,
                  CollectOperations, Found, Jobs
    <3>3. CASE CommitFeatures
      BY <3>3 DEF CommitFeatures, CommitPrices, CommitPools, CommitHoldings, CommitPositions,
                  CommitActiveness, CommitCurrent, CommitOperations, Advance, Jobs,
                  PoolRecord, TokenRecord, ActiveRecord
    <3> QED
      BY <1>3, <3>1, <3>2, <3>3
  <2>2. GoesOn /\ buff' = buff /\ missed' = missed
    BY <1>3, <2>1, StepsGoOn, WhatGoesOn
  <2>3. faults' \in 0..MaxFaults /\ stage \notin {"blocks", "transactions_and_logs"}
    BY <2>1 DEF Answered, Bounded, Jobs
  <2> QED
    BY <2>2, <2>3, AnswersOther
<1>4. CASE FeaturesRecord \/ FeaturesRaise \/ FeaturesFail \/ FeaturesRestart
  <2>1. faults' \in 0..MaxFaults
    <3>1. faults' = faults \/ (faults < MaxFaults /\ faults' = faults + 1)
      BY <1>4 DEF FeaturesRecord, FeaturesRaise, FeaturesFail, FeaturesRestart, Record,
                  ReceiptMissing, RoundFails, Restart
    <3> QED
      BY <3>1, ChainAssumption DEF Answered, Bounded
  <2> QED
    BY <1>4, <2>1, StepsEnd, AnswersEnd
<1>5. CASE UNCHANGED vars
  BY <1>5 DEF vars, chainVars, Answered, BlocksAnswered, TransactionsKept, ReceiptsAnswered,
     LogsKept, Bounded, Requested, Round, RoundEnd, InBuffer, Wanted, Passed, Position, Plan
<1> QED
  BY <1>1, <1>2, <1>3, <1>4, <1>5 DEF Next, Step, Collect

(* The invariant of the answers.                                            *)
LEMMA AnswersAreKept == Spec => []AInv
<1>1. Init => Answered
  <2> SUFFICES ASSUME Init PROVE Answered
    OBVIOUS
  <2>1. Begun /\ missed = {}
    BY ChainAssumption DEF Init, ChainInit, Begun
  <2>2. \A s : ~Passed(s)
    BY <2>1, FirstStage DEF Begun
  <2>3. \A t \in Types \cup {Receipts} : buff[t] = {}
    BY <2>1 DEF Begun, Empty
  <2>4. BlocksAnswered /\ TransactionsKept /\ ReceiptsAnswered /\ LogsKept
    BY <2>1, <2>2, <2>3 DEF BlocksAnswered, TransactionsKept, ReceiptsAnswered, LogsKept, Types, Receipts
  <2>5. Bounded
    BY ChainAssumption DEF Bounded, Init, ChainInit
  <2> QED
    BY <2>4, <2>5 DEF Answered
<1>2. PInv => IInv /\ Told
  BY DEF PInv
<1> QED
  BY <1>1, <1>2, Accounts, KeepsAnswers, PTL DEF Spec, AInv

(***************************************************************************)
(* What is recorded of the logs is what the attempt received.              *)
(***************************************************************************)

(* A stage comes after those it needs.                                     *)
LEMMA NeededBefore ==
  ASSUME IInv, NEW d \in Needs
  PROVE  /\ Runs(d[2]) => Runs(d[1])
         /\ Passed(d[2]) => Passed(d[1])
         /\ stage = d[2] => Passed(d[1])
<1>1. PICK n \in DOMAIN Plan : stage = Plan[n]
  BY DEF IInv, Staged
<1>2. mission \in Missions
  BY DEF IInv, Staged
<1>3. Position(stage) = n
  BY <1>1, <1>2, PositionOf
<1>4. \A i \in DOMAIN Plan : i \in Nat
  BY <1>2, PlanFacts
<1>5. \A i \in DOMAIN Plan : Plan[i] = d[2] => \E j \in DOMAIN Plan : j < i /\ Plan[j] = d[1]
  BY <1>2, FeaturePlanAssumption DEF Plan
<1> QED
  BY <1>1, <1>3, <1>4, <1>5 DEF Runs, Passed

(* What a mission runs is over when its round is recorded.                 *)
LEMMA AllPassed ==
  ASSUME IInv
  PROVE  /\ stage = "record" => \A s : Runs(s) /\ s # "record" => Passed(s)
         /\ stage # "blocks" => Passed("blocks")
         /\ \A s : Passed(s) => Runs(s)
         /\ ~Passed(stage)
<1>1. PICK n \in DOMAIN Plan : stage = Plan[n]
  BY DEF IInv, Staged
<1>2. mission \in Missions
  BY DEF IInv, Staged
<1>3. Position(stage) = n
  BY <1>1, <1>2, PositionOf
<1>4. Len(Plan) \in Nat /\ DOMAIN Plan = 1..Len(Plan) /\ 1 \in DOMAIN Plan /\ Len(Plan) \in DOMAIN Plan
  BY <1>2, PlanFacts
<1>5. ASSUME stage = "record" PROVE n = Len(Plan)
  <2>1. Plan[Len(Plan)] = Plan[n] /\ Len(Plan) \in DOMAIN Plan
    BY <1>1, <1>2, <1>4, <1>5, PlanFacts
  <2> QED
    BY <1>2, <2>1, PlanFacts
<1>6. ASSUME stage = "record", NEW s, Runs(s), s # "record" PROVE Passed(s)
  <2>1. PICK i \in DOMAIN Plan : Plan[i] = s
    BY <1>6 DEF Runs
  <2>2. i # Len(Plan)
    BY <1>2, <1>6, <2>1, PlanFacts
  <2> QED
    BY <1>3, <1>4, <1>5, <1>6, <2>1, <2>2 DEF Passed
<1>7. stage # "blocks" => Passed("blocks")
  BY <1>1, <1>2, <1>3, <1>4, PlanFacts DEF Passed
<1> QED
  BY <1>6, <1>7, StageOrder DEF Runs, Passed, IInv

(* Logs that the mission asks the node for.                                *)
AskedFor(L) ==
  /\ Placed(L) /\ \A l \in L : l.block \in Blocks
  /\ \A t \in SomeLog(L) : Wanted(t)

(* A mission that runs a feature job asks for its logs.                     *)
LEMMA MissionAsks ==
  ASSUME IInv
  PROVE  /\ Runs("uniswap_pools") => AskedFor(PoolLogs)
         /\ Runs("uniswap_tokens") => AskedFor(NftLogs)
         /\ Runs("user_ops") => AskedFor({l \in BundleLogs : IsEvent(l)})
         /\ Runs("activeness") => mission \notin Filtered
<1>1. mission \in Missions
  BY DEF IInv, Staged
<1>2. /\ \A l \in PoolLogs : l.block \in Blocks
      /\ \A l \in NftLogs : l.block \in Blocks
      /\ \A l \in BundleLogs : l.block \in Blocks
  BY FeaturesAssumption
<1>3. Placed(PoolLogs) /\ Placed(NftLogs) /\ Placed({l \in BundleLogs : IsEvent(l)})
  <2>1. IsFiniteSet({l \in BundleLogs : IsEvent(l)})
    BY LogsAssumption, FS_Subset DEF Placed
  <2> QED
    BY <2>1, LogsAssumption DEF Placed
<1>4. mission \in Filtered =>
        /\ Runs("uniswap_pools") => SomeLog(PoolLogs) \subseteq Watched[mission]
        /\ Runs("uniswap_tokens") => SomeLog(NftLogs) \subseteq Watched[mission]
        /\ Runs("user_ops") => SomeLog({l \in BundleLogs : IsEvent(l)}) \subseteq Watched[mission]
        /\ ~Runs("activeness")
  BY <1>1, FeaturePlanAssumption DEF Runs, Plan
<1> QED
  BY <1>2, <1>3, <1>4 DEF AskedFor, Wanted

(* The transaction of a log.                                               *)
LEMMA LogOf ==
  ASSUME NEW L, Placed(L), NEW l \in L
  PROVE  \E t \in SomeLog(L) :
           /\ t \in Transactions /\ t.block = l.block /\ t.index = l.tx /\ l.at \in 1..t.logs
           /\ Row("Log", l.block, l.tx, l.at) = LogRow(t, l.at)
           /\ Row(Receipts, l.block, l.tx, 0) = Row(Receipts, t.block, t.index, 0)
<1>1. PICK t \in Transactions : t.block = l.block /\ t.index = l.tx /\ l.at \in 1..t.logs
  BY DEF Placed
<1>2. t \in SomeLog(L)
  BY <1>1 DEF SomeLog
<1> QED
  BY <1>1, <1>2 DEF LogRow, Row

(* A log that is in the buffer came with its block and its receipt.        *)
LEMMA ReceivedAnswered ==
  ASSUME AInv, Passed("transactions_and_logs"), NEW L, AskedFor(L), NEW l \in Received(L)
  PROVE  /\ l \in L /\ l.block \in Round
         /\ BlockRow(l.block) \notin missed /\ Row(Receipts, l.block, l.tx, 0) \notin missed
<1>1. PICK t \in SomeLog(L) :
           /\ t \in Transactions /\ t.block = l.block /\ t.index = l.tx /\ l.at \in 1..t.logs
           /\ Row("Log", l.block, l.tx, l.at) = LogRow(t, l.at)
           /\ Row(Receipts, l.block, l.tx, 0) = Row(Receipts, t.block, t.index, 0)
  BY LogOf DEF AskedFor, Received
<1>2. LogRow(t, l.at) \in buff["Log"]
  BY <1>1 DEF Received
<1>3. TransactionRow(t) \in buff[Receipts]
  <2>1. PICK u \in Transactions : TransactionRow(u) \in buff[Receipts] /\ \E i \in 1..u.logs : LogRow(t, l.at) = LogRow(u, i)
    BY <1>2 DEF AInv, Answered, LogsKept
  <2>2. u.block = t.block /\ u.index = t.index
    BY <2>1 DEF LogRow, Row
  <2> QED
    BY <1>1, <2>1, <2>2, ChainAssumption
<1>4. InBuffer(t)
  BY <1>3 DEF AInv, Answered, ReceiptsAnswered, InBuffer
<1>5. BlockRow(t.block) \in buff["Block"] /\ t.block \in Round
  <2>1. ItemOf("Transaction", TransactionRow(t))
    BY <1>4 DEF AInv, IInv, Filled, InBuffer, RowTypes, Types
  <2> QED
    BY <1>1, <2>1, TransactionFields, InTheRound DEF ItemOf, TypeAbove, AInv
<1>6. t.block \in Requested
  BY <1>1, <1>5 DEF Requested, AskedFor, Wanted
<1>7. Passed("blocks")
  <2>1. stage # "blocks"
    BY FirstStage DEF AInv, IInv, Staged
  <2> QED
    BY <2>1, AllPassed DEF AInv
<1>8. BlockRow(t.block) \notin missed
  BY <1>5, <1>6, <1>7 DEF AInv, Answered, BlocksAnswered
<1>9. Row(Receipts, t.block, t.index, 0) \notin missed
  BY <1>1, <1>3, <1>4 DEF AInv, Answered, ReceiptsAnswered
<1> QED
  BY <1>1, <1>5, <1>8, <1>9 DEF Received

(* The logs of the recorded blocks, once a round is recorded, are those    *)
(* that were recorded before and those of the round that were received.    *)
LEMMA RecordedLogs ==
  ASSUME AInv, Record, Passed("transactions_and_logs"), NEW L, AskedFor(L)
  PROVE  /\ Recorded(L)' = Recorded(L) \cup Received(L)
         /\ \A l \in Recorded(L) : l \in L /\ l.block <= synced
         /\ \A l \in Received(L) : l \in L /\ l.block \in Round
         /\ synced' = RoundEnd /\ RoundEnd \in Nat /\ synced \in Nat /\ synced < RoundEnd
<1>1. /\ synced \in Nat /\ synced < EndBlock /\ StartBlock - 1 <= synced
      /\ EndBlock \in Nat /\ Steps \in Nat \ {0} /\ StartBlock \in Nat \ {0}
  BY ChainAssumption DEF AInv, IInv, Staged, Record
<1>2. RoundEnd \in Nat /\ synced < RoundEnd /\ synced' = RoundEnd
      /\ unanswered' = unanswered \cup missed
  BY <1>1 DEF RoundEnd, Record
<1>3. \A r \in missed : r.block \in Round
  BY DEF AInv, Told, Dated
<1>4. \A r \in unanswered : r.block <= synced
  BY <1>1 DEF AInv, Told, Dated
<1>5. \A l : /\ BlockRow(l.block).block = l.block
             /\ Row(Receipts, l.block, l.tx, 0).block = l.block
  BY DEF BlockRow, Row
<1>6. \A l \in L : l.block \in Nat
  BY ChainAssumption DEF AskedFor, Blocks
<1>7. ASSUME NEW l \in Recorded(L) PROVE l \in Recorded(L)'
  <2>1. l \in L /\ l.block <= synced /\ l.block \notin Round
    BY <1>1, <1>6, <1>7 DEF Recorded, Round
  <2>2. BlockRow(l.block) \notin missed /\ Row(Receipts, l.block, l.tx, 0) \notin missed
    BY <1>3, <1>5, <2>1
  <2>3. l.block <= synced'
    BY <1>1, <1>2, <1>6, <2>1
  <2> QED
    BY <1>2, <1>7, <2>1, <2>2, <2>3 DEF Recorded
<1>8. ASSUME NEW l \in Received(L) PROVE l \in Recorded(L)' /\ l \in L /\ l.block \in Round
  <2>1. /\ l \in L /\ l.block \in Round
        /\ BlockRow(l.block) \notin missed /\ Row(Receipts, l.block, l.tx, 0) \notin missed
    BY <1>8, ReceivedAnswered
  <2>2. l.block \in Nat /\ synced < l.block /\ l.block <= RoundEnd
    BY <1>1, <1>2, <1>6, <2>1 DEF Round
  <2>3. BlockRow(l.block) \notin unanswered /\ Row(Receipts, l.block, l.tx, 0) \notin unanswered
    BY <1>1, <1>4, <1>5, <2>2
  <2> QED
    BY <1>2, <2>1, <2>2, <2>3 DEF Recorded
<1>9. ASSUME NEW l \in Recorded(L)', l \notin Recorded(L) PROVE l \in Received(L)
  <2>1. /\ l \in L /\ l.block <= RoundEnd
        /\ BlockRow(l.block) \notin unanswered \cup missed
        /\ Row(Receipts, l.block, l.tx, 0) \notin unanswered \cup missed
    BY <1>2, <1>9 DEF Recorded
  <2>2. l.block \in Round
    BY <1>1, <1>2, <1>6, <1>9, <2>1 DEF Recorded, Round
  <2>3. PICK t \in SomeLog(L) :
           /\ t \in Transactions /\ t.block = l.block /\ t.index = l.tx /\ l.at \in 1..t.logs
           /\ Row("Log", l.block, l.tx, l.at) = LogRow(t, l.at)
           /\ Row(Receipts, l.block, l.tx, 0) = Row(Receipts, t.block, t.index, 0)
    BY <2>1, LogOf DEF AskedFor
  <2>4. t.block \in Requested /\ Wanted(t)
    BY <2>2, <2>3 DEF Requested, AskedFor, Wanted
  <2>5. Passed("blocks")
    BY AllPassed DEF AInv, Record
  <2>6. BlockRow(t.block) \in buff["Block"]
    BY <2>1, <2>3, <2>4, <2>5 DEF AInv, Answered, BlocksAnswered
  <2>7. InBuffer(t)
    BY <2>3, <2>4, <2>6 DEF AInv, Answered, TransactionsKept
  <2>8. TransactionRow(t) \in buff[Receipts]
    BY <2>1, <2>3, <2>7 DEF AInv, Answered, ReceiptsAnswered
  <2>9. LogRow(t, l.at) \in buff["Log"]
    BY <2>3, <2>8 DEF AInv, Told, LogsTold
  <2> QED
    BY <2>1, <2>3, <2>9 DEF Received
<1> QED
  BY <1>1, <1>2, <1>7, <1>8, <1>9 DEF Recorded

(***************************************************************************)
(* The features: which step changes what.                                  *)
(***************************************************************************)

(* A job has its items until the round ends.                               *)
FoundInv ==
  /\ DOMAIN found = FeatureTypes
  /\ ~Passed("uniswap_pools") => found[PoolRecord] = {} /\ found["UniswapV3Pool"] = {}
  /\ ~Passed("uniswap_tokens") => found[TokenRecord] = {} /\ found["UniswapV3Token"] = {}
  /\ ~Passed("activeness") => found[ActiveRecord] = {} /\ found["CurrentTraitsActiveness"] = {}
  /\ ~Passed("user_ops") => found["UserOperationsResult"] = {}

OnGoing ==
  \/ Collect /\ UNCHANGED featureVars
  \/ Commit /\ UNCHANGED featureVars
  \/ CollectFeatures
  \/ CommitFeatures
Closing == FeaturesRecord \/ FeaturesRaise \/ FeaturesFail \/ FeaturesRestart

(* A step goes on with a round or ends it.                                  *)
LEMMA NextIs == Next => OnGoing \/ Closing
BY DEF Next, Step, OnGoing, Closing

(* A step that goes on changes no history.                                  *)
LEMMA OnGoingIs ==
  ASSUME OnGoing
  PROVE  /\ Collect \/ Commit \/ CollectFeatures \/ CommitFeatures
         /\ GoesOn
         /\ UNCHANGED <<lost, recounted>>
<1>1. Collect \/ Commit \/ CollectFeatures \/ CommitFeatures
  BY DEF OnGoing
<1>2. UNCHANGED <<lost, recounted>>
  BY DEF OnGoing, featureVars, CollectFeatures, CollectPools, CollectPositions, CollectActiveness,
         CollectOperations, CommitFeatures, CommitPrices, CommitPools, CommitHoldings,
         CommitPositions, CommitActiveness, CommitCurrent, CommitOperations, Advance, Found
<1> QED
  BY <1>1, <1>2, StepsGoOn

(* The stage tells which step it is.                                       *)
LEMMA StageTells ==
  ASSUME OnGoing
  PROVE  /\ stage = "uniswap_pools" => CollectPools
         /\ stage = "uniswap_tokens" => CollectPositions
         /\ stage = "activeness" => CollectActiveness
         /\ stage = "user_ops" => CollectOperations
         /\ stage = PoolRecord => CommitPrices
         /\ stage = "UniswapV3Pool" => CommitPools
         /\ stage = TokenRecord => CommitHoldings
         /\ stage = "UniswapV3Token" => CommitPositions
         /\ stage = ActiveRecord => CommitActiveness
         /\ stage = "CurrentTraitsActiveness" => CommitCurrent
         /\ stage = "UserOperationsResult" => CommitOperations
         /\ stage = "UpdateBlockInternalCount" => CommitCounts
         /\ stage = "traces" => CollectTraces
         /\ stage = "Trace" => CommitRows
<1>1. CASE Collect
  BY <1>1 DEF Collect, CollectBlocks, CollectReceipts, CollectTraces, CollectContracts,
              CollectBalances, PoolRecord, TokenRecord, ActiveRecord
<1>2. CASE Commit
  BY <1>2 DEF Commit, CommitRows, CommitTransactions, CommitCounts, Types, PoolRecord,
              TokenRecord, ActiveRecord
<1>3. CASE CollectFeatures
  BY <1>3 DEF CollectFeatures, CollectPools, CollectPositions, CollectActiveness,
              CollectOperations, PoolRecord, TokenRecord, ActiveRecord
<1>4. CASE CommitFeatures
  BY <1>4 DEF CommitFeatures, CommitPrices, CommitPools, CommitHoldings, CommitPositions,
              CommitActiveness, CommitCurrent, CommitOperations, PoolRecord, TokenRecord,
              ActiveRecord
<1> QED
  BY <1>1, <1>2, <1>3, <1>4 DEF OnGoing

(* What a step leaves alone.                                               *)
LEMMA WhatIsKept ==
  ASSUME FoundInv, OnGoing
  PROVE  /\ stage # "uniswap_pools" =>
              /\ known' = known /\ found'[PoolRecord] = found[PoolRecord]
              /\ found'["UniswapV3Pool"] = found["UniswapV3Pool"]
         /\ stage # "uniswap_tokens" =>
              /\ knownIds' = knownIds /\ found'[TokenRecord] = found[TokenRecord]
              /\ found'["UniswapV3Token"] = found["UniswapV3Token"]
         /\ stage # "activeness" =>
              /\ stats' = stats /\ found'[ActiveRecord] = found[ActiveRecord]
              /\ found'["CurrentTraitsActiveness"] = found["CurrentTraitsActiveness"]
         /\ stage # "user_ops" => found'["UserOperationsResult"] = found["UserOperationsResult"]
         /\ stage # PoolRecord => prices' = prices
         /\ stage # "UniswapV3Pool" => pools' = pools
         /\ stage # TokenRecord => holdings' = holdings
         /\ stage # "UniswapV3Token" => positions' = positions
         /\ stage # ActiveRecord => activeness' = activeness
         /\ stage # "CurrentTraitsActiveness" => current' = current
         /\ stage # "UserOperationsResult" => operations' = operations
         /\ DOMAIN found' = FeatureTypes
<1>1. CASE UNCHANGED featureVars
  BY <1>1 DEF featureVars, caches, tables, FoundInv
<1>2. CASE CollectPools
  BY <1>2 DEF CollectPools, Found, tables, FoundInv, FeatureTypes, PoolRecord, TokenRecord, ActiveRecord
<1>3. CASE CollectPositions
  BY <1>3 DEF CollectPositions, Found, tables, FoundInv, FeatureTypes, PoolRecord, TokenRecord, ActiveRecord
<1>4. CASE CollectActiveness
  BY <1>4 DEF CollectActiveness, Found, tables, FoundInv, FeatureTypes, PoolRecord, TokenRecord, ActiveRecord
<1>5. CASE CollectOperations
  BY <1>5 DEF CollectOperations, Found, tables, caches, FoundInv, FeatureTypes, PoolRecord, TokenRecord, ActiveRecord
<1>6. CASE CommitFeatures
  BY <1>6 DEF CommitFeatures, CommitPrices, CommitPools, CommitHoldings, CommitPositions,
              CommitActiveness, CommitCurrent, CommitOperations, Advance, caches, FoundInv
<1> QED
  BY <1>1, <1>2, <1>3, <1>4, <1>5, <1>6 DEF OnGoing, CollectFeatures

(* What the end of a round leaves of what the process knows.               *)
LEMMA WhatEnds ==
  ASSUME IInv, Closing
  PROVE  /\ Ends /\ found' = Nothing /\ UNCHANGED tables
         /\ \A s : ~Passed(s)'
         /\ UNCHANGED <<mission, Plan>> /\ \A s : Runs(s)' <=> Runs(s)
         /\ \A t \in FeatureTypes : found'[t] = {}
         /\ \/ Record /\ FeaturesRecord
            \/ Dropped /\ UNCHANGED <<synced, unanswered>>
            \/ FeaturesRestart /\ UNCHANGED <<synced, unanswered>>
<1>1. Ends
  BY StepsEnd DEF Closing
<1>2. /\ found' = Nothing /\ UNCHANGED tables
      /\ \/ Record /\ FeaturesRecord
         \/ Dropped /\ UNCHANGED <<synced, unanswered>>
         \/ FeaturesRestart /\ UNCHANGED <<synced, unanswered>>
  BY DEF Closing, FeaturesRecord, FeaturesRaise, FeaturesFail, FeaturesRestart, Dropped, tables,
         ReceiptMissing, RoundFails, Restart, StartOver
<1> QED
  BY <1>1, <1>2, Ending DEF Ends, Nothing

(* Every step keeps what the feature jobs found apart.                      *)
LEMMA FoundKept == IInv /\ FoundInv /\ [Next]_vars => FoundInv'
<1> SUFFICES ASSUME IInv, FoundInv, [Next]_vars PROVE FoundInv'
  OBVIOUS
<1>1. CASE OnGoing
  <2>1. \A s : Passed(s)' <=> (Passed(s) \/ s = stage)
    BY <1>1, OnGoingIs, GoingOn
  <2> QED
    BY <1>1, <2>1, WhatIsKept DEF FoundInv
<1>2. CASE Closing
  BY <1>2, WhatEnds DEF FoundInv, Nothing, FeatureTypes
<1>3. CASE UNCHANGED vars
  BY <1>3 DEF vars, chainVars, featureVars, FoundInv, Passed, Position, Plan
<1> QED
  BY <1>1, <1>2, <1>3, NextIs

(* The invariant of what they found.                                        *)
LEMMA FoundIs == Spec => []FoundInv
<1>1. Init => FoundInv
  BY DEF Init, FeatureInit, Nothing, FoundInv, FeatureTypes, PoolRecord, TokenRecord, ActiveRecord
<1>2. AInv => IInv
  BY DEF AInv
<1> QED
  BY <1>1, <1>2, FoundKept, AnswersAreKept, PTL DEF Spec

(* What was received does not change once the receipts are there.          *)
LEMMA ReceivedStays ==
  ASSUME IInv, OnGoing, NEW L, Passed("transactions_and_logs")
  PROVE  Received(L)' = Received(L)
<1>1. stage # "transactions_and_logs"
  BY AllPassed
<1> QED
  BY <1>1, OnGoingIs, WhatGoesOn DEF Received

(***************************************************************************)
(* The pools.                                                              *)
(***************************************************************************)

(* The rows of an upsert.                                                  *)
Upserts(g, f, S) ==
  /\ DOMAIN g = DOMAIN f \cup {y[1] : y \in S}
  /\ \A x \in DOMAIN f : x \notin {y[1] : y \in S} => g[x] = f[x]
  /\ \A y \in S : \E z \in S : z[1] = y[1] /\ g[y[1]] = z[2]

(* What an upsert leaves in a table.                                        *)
LEMMA Upserted ==
  ASSUME NEW f, NEW S
  PROVE  Upserts(Upsert(f, AsFunction(S)), f, S)
<1>1. DOMAIN AsFunction(S) = {y[1] : y \in S}
  BY DEF AsFunction
<1>2. ASSUME NEW y \in S PROVE \E z \in S : z[1] = y[1] /\ AsFunction(S)[y[1]] = z[2]
  <2> DEFINE x == y[1]
             z == CHOOSE w \in S : w[1] = x
  <2>1. z \in S /\ z[1] = x
    OBVIOUS
  <2>2. x \in {w[1] : w \in S}
    OBVIOUS
  <2>3. AsFunction(S)[x] = z[2]
    BY <2>2 DEF AsFunction
  <2> HIDE DEF x, z
  <2> QED
    BY <2>1, <2>3 DEF x
<1>3. DOMAIN Upsert(f, AsFunction(S)) = DOMAIN f \cup {y[1] : y \in S}
  BY <1>1 DEF Upsert
<1>4. \A x \in DOMAIN f : x \notin {y[1] : y \in S} => Upsert(f, AsFunction(S))[x] = f[x]
  BY <1>1 DEF Upsert
<1>5. ASSUME NEW y \in S PROVE Upsert(f, AsFunction(S))[y[1]] = AsFunction(S)[y[1]]
  BY <1>1 DEF Upsert
<1> QED
  BY <1>2, <1>3, <1>4, <1>5 DEF Upserts

PoolsTyped ==
  /\ known \subseteq FactoryPools
  /\ DOMAIN pools = Pools /\ RowsOfPools \subseteq FactoryPools
  /\ \A r \in found["UniswapV3Pool"] : r.pool \in known /\ r.block \in Blocks
  /\ found[PoolRecord] \subseteq FactoryPools \X Blocks
  /\ prices \subseteq FactoryPools \X Blocks

(* A known pool has a row, or is about to have one, or came to be known in *)
(* a round that failed.                                                    *)
PoolsKept ==
  /\ Runs("UniswapV3Pool") =>
       \A p \in known : \/ p \in RowsOfPools \cup lost
                        \/ \E r \in found["UniswapV3Pool"] : r.pool = p
  /\ Passed("UniswapV3Pool") => \A r \in found["UniswapV3Pool"] : r.pool \in RowsOfPools

PoolsPriced ==
  /\ Passed("uniswap_pools") =>
       \A p \in FactoryPools : LET S == Swaps(Received(PoolLogs), p) IN
         S # {} => p \in known /\ <<p, LastBlockOf(S)>> \in found[PoolRecord]
  /\ Passed(PoolRecord) => found[PoolRecord] \subseteq prices

PoolsDone ==
  \A p \in FactoryPools :
    LET S == Swaps(Recorded(PoolLogs), p) IN
    S # {} => /\ Runs(PoolRecord) => <<p, LastBlockOf(S)>> \in prices
              /\ Runs("UniswapV3Pool") => p \in RowsOfPools \cup lost

(* The swaps of a pool that count, and the last of them.                   *)
LEMMA SwapsOfPool ==
  ASSUME NEW R \in SUBSET PoolLogs, NEW p
  PROVE  /\ LastLogs(R) \subseteq R
         /\ Swaps(LastLogs(R), p) = {} <=> Swaps(R, p) = {}
         /\ Swaps(R, p) # {} =>
              /\ LatestOf(Swaps(LastLogs(R), p)) = LatestOf(Swaps(R, p))
              /\ LatestOf(Swaps(R, p)) \in Swaps(R, p)
              /\ LastBlockOf(Swaps(LastLogs(R), p)) = LastBlockOf(Swaps(R, p))
              /\ LastBlockOf(Swaps(R, p)) = LatestOf(Swaps(R, p)).block
<1>1. At(PoolLogs) /\ Placed(PoolLogs)
  BY LogsAt, LogsAssumption
<1>2. LastLogs(R) \subseteq R /\ Swaps(LastLogs(R), p) \subseteq Swaps(R, p)
  BY DEF LastLogs, Swaps
<1>3. ASSUME Swaps(R, p) # {}
      PROVE  /\ LatestOf(Swaps(R, p)) \in Swaps(R, p)
             /\ LatestOf(Swaps(R, p)) \in Swaps(LastLogs(R), p)
             /\ LatestOf(Swaps(LastLogs(R), p)) = LatestOf(Swaps(R, p))
  <2> DEFINE l == LatestOf(Swaps(R, p))
  <2>1. Swaps(R, p) \in SUBSET PoolLogs
    BY DEF Swaps
  <2>2. l \in Swaps(R, p) /\ \A m \in Swaps(R, p) : ~Later(m, l)
    BY <1>1, <1>3, <2>1, LatestFacts
  <2>3. l \in LastLogs(R)
    BY <2>2 DEF LastLogs, Swaps
  <2>4. l \in Swaps(LastLogs(R), p)
    BY <2>2, <2>3 DEF Swaps
  <2>5. \A m \in Swaps(LastLogs(R), p) : ~Later(m, l)
    BY <1>2, <2>2
  <2>6. Swaps(LastLogs(R), p) \in SUBSET PoolLogs /\ Swaps(LastLogs(R), p) # {}
    BY <1>2, <2>1, <2>4
  <2> HIDE DEF l
  <2>7. l = LatestOf(Swaps(LastLogs(R), p))
    BY <1>1, <2>4, <2>5, <2>6, LatestFacts
  <2> QED
    BY <2>2, <2>4, <2>7 DEF l
<1>4. ASSUME Swaps(R, p) # {}
      PROVE  /\ LastBlockOf(Swaps(LastLogs(R), p)) = LatestOf(Swaps(LastLogs(R), p)).block
             /\ LastBlockOf(Swaps(R, p)) = LatestOf(Swaps(R, p)).block
  <2>1. Swaps(R, p) \in SUBSET PoolLogs
    BY DEF Swaps
  <2>2. Swaps(LastLogs(R), p) \in SUBSET PoolLogs /\ Swaps(LastLogs(R), p) # {}
    BY <1>2, <1>3, <1>4, <2>1
  <2> QED
    BY <1>1, <1>4, <2>1, <2>2, LastBlockFacts
<1> QED
  BY <1>2, <1>3, <1>4

(* The job announces only pools of the factory, and every one that swaps.  *)
LEMMA NewPoolsAre ==
  ASSUME NEW L \in SUBSET PoolLogs, NEW r \in NewPools(L)
  PROVE  r.pool \in FactoryPools /\ r.block \in Blocks
<1>1. CASE \E l \in L : l.kind = "created" /\ r = [pool |-> l.pool, block |-> l.block, fee |-> TRUE]
  BY <1>1, LogsAssumption, FeaturesAssumption
<1>2. CASE \E p \in FirstSwapped(L) : r = [pool |-> p, block |-> LastBlockOf(Swaps(L, p)), fee |-> FALSE]
  <2>1. PICK p \in FactoryPools :
          Swaps(L, p) # {} /\ r = [pool |-> p, block |-> LastBlockOf(Swaps(L, p)), fee |-> FALSE]
    BY <1>2 DEF FirstSwapped
  <2>2. Swaps(L, p) \in SUBSET PoolLogs
    BY DEF Swaps
  <2>3. LastBlockOf(Swaps(L, p)) = LatestOf(Swaps(L, p)).block /\ LatestOf(Swaps(L, p)) \in PoolLogs
    BY <2>1, <2>2, LogsAt, LogsAssumption, LastBlockFacts, LatestFacts
  <2> QED
    BY <2>1, <2>3, FeaturesAssumption
<1> QED
  BY <1>1, <1>2 DEF NewPools

(* What ExportUniSwapV3PoolJob knows and hands over.                        *)
LEMMA PoolsCollected ==
  ASSUME FoundInv, PoolsTyped, CollectPools
  PROVE  /\ known \subseteq known' /\ known' \subseteq FactoryPools
         /\ \A p \in known' \ known : \E r \in found'["UniswapV3Pool"] : r.pool = p
         /\ \A r \in found'["UniswapV3Pool"] : r.pool \in known' /\ r.block \in Blocks
         /\ found'[PoolRecord] \subseteq FactoryPools \X Blocks
         /\ \A p \in FactoryPools : LET S == Swaps(Received(PoolLogs), p) IN
              S # {} => p \in known' /\ <<p, LastBlockOf(S)>> \in found'[PoolRecord]
<1> DEFINE R == Received(PoolLogs)
           L == LastLogs(R)
           new == NewPools(L)
           mine == known \cup {r.pool : r \in new}
           swaps == {l \in L : l.kind = "swap" /\ l.pool \in mine}
<1>1. PICK priced \in SUBSET swaps :
          /\ \A p \in mine : Swaps(L, p) # {} => LatestOf(Swaps(L, p)) \in priced
          /\ known' = mine
          /\ found' = [found EXCEPT !["UniswapV3Pool"] = new,
                                    ![PoolRecord] = {<<l.pool, l.block>> : l \in priced}]
  BY DEF CollectPools, Found
<1>2. found'["UniswapV3Pool"] = new /\ found'[PoolRecord] = {<<l.pool, l.block>> : l \in priced}
  BY <1>1 DEF FoundInv, FeatureTypes, PoolRecord
<1>3. R \in SUBSET PoolLogs /\ L \in SUBSET PoolLogs
  BY DEF Received, LastLogs
<1>4. \A r \in new : r.pool \in FactoryPools /\ r.block \in Blocks
  BY <1>3, NewPoolsAre
<1>5. mine \subseteq FactoryPools
  BY <1>4 DEF PoolsTyped
<1>6. found'[PoolRecord] \subseteq FactoryPools \X Blocks
  <2>1. \A l \in priced : l.pool \in FactoryPools /\ l.block \in Blocks
    BY <1>3, <1>5, FeaturesAssumption
  <2> QED
    BY <1>2, <2>1
<1>7. ASSUME NEW p \in FactoryPools, Swaps(R, p) # {}
      PROVE  p \in known' /\ <<p, LastBlockOf(Swaps(R, p))>> \in found'[PoolRecord]
  <2>1. Swaps(L, p) # {} /\ LatestOf(Swaps(L, p)) \in Swaps(R, p)
        /\ LastBlockOf(Swaps(R, p)) = LatestOf(Swaps(L, p)).block
    BY <1>3, <1>7, SwapsOfPool
  <2>2. p \in mine
    <3>1. CASE p \notin known
      <4>1. p \in FirstSwapped(L)
        BY <2>1, <3>1 DEF FirstSwapped
      <4>2. [pool |-> p, block |-> LastBlockOf(Swaps(L, p)), fee |-> FALSE] \in new
        BY <4>1 DEF NewPools
      <4> QED
        BY <4>2
    <3> QED
      BY <3>1
  <2>3. LatestOf(Swaps(L, p)) \in priced
    BY <1>1, <2>1, <2>2
  <2>4. LatestOf(Swaps(L, p)).pool = p
    BY <2>1 DEF Swaps
  <2> QED
    BY <1>1, <1>2, <2>1, <2>2, <2>3, <2>4
<1> QED
  BY <1>1, <1>2, <1>4, <1>5, <1>6, <1>7

(* A pool keeps its row, and those of a round get theirs.                  *)
LEMMA PoolsCommitted ==
  ASSUME PoolsTyped, CommitPools
  PROVE  /\ DOMAIN pools' = Pools /\ RowsOfPools \subseteq RowsOfPools'
         /\ RowsOfPools' \subseteq FactoryPools
         /\ \A r \in found["UniswapV3Pool"] : r.pool \in RowsOfPools'
<1> DEFINE S == {<<r.pool, [block |-> r.block, fee |-> r.fee]>> : r \in found["UniswapV3Pool"]}
<1>1. pools' = Upsert(pools, AsFunction(S))
  BY DEF CommitPools
<1>2. \A y \in S : y[1] \in FactoryPools /\ y[2] # NoPool
  <2>1. 0 \notin Blocks
    BY ChainAssumption DEF Blocks
  <2>2. ASSUME NEW r \in found["UniswapV3Pool"]
        PROVE  [block |-> r.block, fee |-> r.fee] # NoPool /\ r.pool \in FactoryPools
    <3>1. r.block # 0
      BY <2>1 DEF PoolsTyped
    <3> QED
      BY <3>1 DEF PoolsTyped, NoPool
  <2> QED
    BY <2>2
<1> HIDE DEF S
<1>3. /\ DOMAIN pools' = DOMAIN pools \cup {y[1] : y \in S}
      /\ \A x \in DOMAIN pools : x \notin {y[1] : y \in S} => pools'[x] = pools[x]
      /\ \A y \in S : \E z \in S : z[1] = y[1] /\ pools'[y[1]] = z[2]
  <2>1. Upserts(pools', pools, S)
    BY <1>1, Upserted
  <2> QED
    BY <2>1 DEF Upserts
<1>4. DOMAIN pools' = Pools
  BY <1>2, <1>3, FeaturesAssumption DEF PoolsTyped
<1>5. \A y \in S : pools'[y[1]] # NoPool
  BY <1>2, <1>3
<1>6. RowsOfPools \subseteq RowsOfPools'
  BY <1>3, <1>5 DEF RowsOfPools, PoolsTyped
<1>7. RowsOfPools' \subseteq FactoryPools
  BY <1>2, <1>3 DEF RowsOfPools, PoolsTyped
<1>8. \A r \in found["UniswapV3Pool"] : r.pool \in RowsOfPools'
  <2>1. ASSUME NEW r \in found["UniswapV3Pool"]
        PROVE  r.pool \in RowsOfPools'
    <3> DEFINE y == <<r.pool, [block |-> r.block, fee |-> r.fee]>>
    <3>1. y \in S /\ y[1] = r.pool
      BY DEF S
    <3>2. r.pool \in Pools /\ pools'[r.pool] # NoPool
      BY <1>2, <1>5, <3>1, FeaturesAssumption
    <3> QED
      BY <3>2 DEF RowsOfPools
  <2> QED
    BY <2>1
<1> QED
  BY <1>4, <1>6, <1>7, <1>8

PoolsInv == PoolsTyped /\ PoolsKept /\ PoolsPriced /\ PoolsDone

(* A step of a round.                                                      *)
LEMMA PoolsGoOn ==
  ASSUME AInv, FoundInv, PoolsInv, OnGoing
  PROVE  PoolsInv'
<1>1. /\ \A s : Passed(s)' <=> (Passed(s) \/ s = stage)
      /\ \A s : Runs(s)' <=> Runs(s)
      /\ lost' = lost /\ synced' = synced /\ unanswered' = unanswered
  BY OnGoingIs, GoingOn DEF AInv, GoesOn
<1>2. /\ Passed("uniswap_pools") => Passed("transactions_and_logs")
      /\ stage = "uniswap_pools" => Passed("transactions_and_logs")
      /\ stage = PoolRecord => Passed("uniswap_pools")
      /\ stage = "UniswapV3Pool" => Passed("uniswap_pools")
      /\ Passed(PoolRecord) => Passed("uniswap_pools")
      /\ Passed("UniswapV3Pool") => Passed("uniswap_pools")
  <2>1. /\ <<"transactions_and_logs", "uniswap_pools">> \in Needs
        /\ <<"uniswap_pools", PoolRecord>> \in Needs /\ <<"uniswap_pools", "UniswapV3Pool">> \in Needs
    BY DEF Needs
  <2> QED
    BY <2>1, NeededBefore DEF AInv
<1>3. Recorded(PoolLogs)' = Recorded(PoolLogs)
  BY <1>1 DEF Recorded
<1>4. Passed("transactions_and_logs") => Received(PoolLogs)' = Received(PoolLogs)
  BY ReceivedStays DEF AInv
<1>5. ~Passed(stage)
  BY AllPassed DEF AInv
<1>6. CASE stage = "uniswap_pools"
  <2>1. CollectPools
    BY <1>6, StageTells
  <2>2. UNCHANGED <<pools, prices>>
    BY <1>6, WhatIsKept DEF PoolRecord
  <2>3. ~Passed("uniswap_pools") /\ ~Passed(PoolRecord) /\ ~Passed("UniswapV3Pool")
    BY <1>2, <1>5, <1>6
  <2>4. /\ known \subseteq known' /\ known' \subseteq FactoryPools
        /\ \A p \in known' \ known : \E r \in found'["UniswapV3Pool"] : r.pool = p
        /\ \A r \in found'["UniswapV3Pool"] : r.pool \in known' /\ r.block \in Blocks
        /\ found'[PoolRecord] \subseteq FactoryPools \X Blocks
        /\ \A p \in FactoryPools : LET S == Swaps(Received(PoolLogs), p) IN
             S # {} => p \in known' /\ <<p, LastBlockOf(S)>> \in found'[PoolRecord]
    BY <2>1, PoolsCollected DEF PoolsInv
  <2>5. PoolsTyped'
    BY <2>2, <2>4 DEF PoolsInv, PoolsTyped, RowsOfPools
  <2>6. PoolsKept'
    <3>1. found["UniswapV3Pool"] = {}
      BY <2>3 DEF FoundInv
    <3>2. ~Passed("UniswapV3Pool")'
      BY <1>1, <1>6, <2>3
    <3> QED
      BY <1>1, <2>2, <2>4, <3>1, <3>2 DEF PoolsInv, PoolsKept, RowsOfPools
  <2>7. PoolsPriced'
    <3>1. ~Passed(PoolRecord)'
      BY <1>1, <1>6, <2>3 DEF PoolRecord
    <3>2. Received(PoolLogs)' = Received(PoolLogs)
      BY <1>2, <1>4, <1>6
    <3> QED
      BY <2>4, <3>1, <3>2 DEF PoolsPriced
  <2>8. PoolsDone'
    BY <1>1, <1>3, <2>2 DEF PoolsInv, PoolsDone, RowsOfPools
  <2> QED
    BY <2>5, <2>6, <2>7, <2>8 DEF PoolsInv
<1>7. CASE stage = PoolRecord
  <2>1. prices' = prices \cup found[PoolRecord]
    BY <1>7, StageTells DEF CommitPrices
  <2>2. /\ UNCHANGED <<known, pools>> /\ found'[PoolRecord] = found[PoolRecord]
        /\ found'["UniswapV3Pool"] = found["UniswapV3Pool"]
    BY <1>7, WhatIsKept DEF PoolRecord
  <2>3. PoolsTyped' /\ PoolsKept'
    BY <1>1, <1>7, <2>1, <2>2 DEF PoolsInv, PoolsTyped, PoolsKept, RowsOfPools, PoolRecord
  <2>4. Received(PoolLogs)' = Received(PoolLogs) /\ Passed("uniswap_pools")
    BY <1>2, <1>4, <1>7
  <2>5. PoolsPriced'
    BY <1>1, <2>1, <2>2, <2>4 DEF PoolsInv, PoolsPriced
  <2>6. PoolsDone'
    BY <1>1, <1>3, <2>1, <2>2 DEF PoolsInv, PoolsDone, RowsOfPools
  <2> QED
    BY <2>3, <2>5, <2>6 DEF PoolsInv
<1>8. CASE stage = "UniswapV3Pool"
  <2>1. CommitPools
    BY <1>8, StageTells
  <2>2. /\ UNCHANGED <<known, prices>> /\ found'[PoolRecord] = found[PoolRecord]
        /\ found'["UniswapV3Pool"] = found["UniswapV3Pool"]
    BY <1>8, WhatIsKept DEF PoolRecord
  <2>3. /\ DOMAIN pools' = Pools /\ RowsOfPools \subseteq RowsOfPools'
        /\ RowsOfPools' \subseteq FactoryPools
        /\ \A r \in found["UniswapV3Pool"] : r.pool \in RowsOfPools'
    BY <2>1, PoolsCommitted DEF PoolsInv
  <2>4. PoolsTyped'
    BY <2>2, <2>3 DEF PoolsInv, PoolsTyped
  <2>5. PoolsKept'
    BY <1>1, <2>2, <2>3 DEF PoolsInv, PoolsKept
  <2>6. Received(PoolLogs)' = Received(PoolLogs) /\ Passed("uniswap_pools")
    BY <1>2, <1>4, <1>8
  <2>7. PoolsPriced'
    BY <1>1, <1>8, <2>2, <2>6 DEF PoolsInv, PoolsPriced, PoolRecord
  <2>8. PoolsDone'
    BY <1>1, <1>3, <2>2, <2>3 DEF PoolsInv, PoolsDone
  <2> QED
    BY <2>4, <2>5, <2>7, <2>8 DEF PoolsInv
<1>9. CASE stage \notin {"uniswap_pools", PoolRecord, "UniswapV3Pool"}
  <2>1. /\ UNCHANGED <<known, prices, pools>> /\ found'[PoolRecord] = found[PoolRecord]
        /\ found'["UniswapV3Pool"] = found["UniswapV3Pool"]
    BY <1>9, WhatIsKept
  <2>2. PoolsTyped' /\ PoolsKept'
    BY <1>1, <1>9, <2>1 DEF PoolsInv, PoolsTyped, PoolsKept, RowsOfPools
  <2>3. PoolsPriced'
    BY <1>1, <1>2, <1>4, <1>9, <2>1 DEF PoolsInv, PoolsPriced
  <2>4. PoolsDone'
    BY <1>1, <1>3, <2>1 DEF PoolsInv, PoolsDone, RowsOfPools
  <2> QED
    BY <2>2, <2>3, <2>4 DEF PoolsInv
<1> QED
  BY <1>6, <1>7, <1>8, <1>9

(* The end of a round.                                                     *)
LEMMA PoolsEnd ==
  ASSUME AInv, FoundInv, PoolsInv, Closing
  PROVE  PoolsInv'
<1>1. /\ found' = Nothing /\ UNCHANGED <<pools, prices>>
      /\ \A s : ~Passed(s)'
      /\ \A s : Runs(s)' <=> Runs(s)
      /\ found'["UniswapV3Pool"] = {} /\ found'[PoolRecord] = {}
      /\ \/ Record /\ FeaturesRecord
         \/ Dropped /\ UNCHANGED <<synced, unanswered>>
         \/ FeaturesRestart /\ UNCHANGED <<synced, unanswered>>
  BY WhatEnds DEF AInv, FeatureTypes, tables
<1>2. RowsOfPools' = RowsOfPools
  BY <1>1 DEF RowsOfPools
<1>3. PoolsPriced'
  BY <1>1 DEF PoolsPriced
<1>4. CASE Record /\ FeaturesRecord
  <2>1. UNCHANGED <<known, lost>> /\ stage = "record"
    BY <1>4 DEF FeaturesRecord, caches, Record
  <2>2. \A s : Runs(s) /\ s # "record" => Passed(s)
    BY <2>1, AllPassed DEF AInv
  <2>3. PoolsTyped'
    BY <1>1, <1>2, <2>1 DEF PoolsInv, PoolsTyped
  <2>4. PoolsKept'
    <3>1. Runs("UniswapV3Pool") => \A p \in known : p \in RowsOfPools \cup lost
      BY <2>2 DEF PoolsInv, PoolsKept
    <3> QED
      BY <1>1, <1>2, <2>1, <3>1 DEF PoolsKept
  <2>5. PoolsDone'
    <3> SUFFICES ASSUME NEW p \in FactoryPools, Swaps(Recorded(PoolLogs)', p) # {},
                        Runs(PoolRecord) \/ Runs("UniswapV3Pool")
                 PROVE  /\ Runs(PoolRecord) => <<p, LastBlockOf(Swaps(Recorded(PoolLogs)', p))>> \in prices
                        /\ Runs("UniswapV3Pool") => p \in RowsOfPools \cup lost
      BY <1>1, <1>2, <2>1 DEF PoolsDone
    <3>1. /\ <<"transactions_and_logs", "uniswap_pools">> \in Needs
          /\ <<"uniswap_pools", PoolRecord>> \in Needs /\ <<"uniswap_pools", "UniswapV3Pool">> \in Needs
      BY DEF Needs
    <3>2. Runs("uniswap_pools") /\ Passed("uniswap_pools") /\ Passed("transactions_and_logs")
      BY <2>2, <3>1, NeededBefore DEF AInv
    <3>3. AskedFor(PoolLogs)
      BY <3>2, MissionAsks DEF AInv
    <3>4. /\ Recorded(PoolLogs)' = Recorded(PoolLogs) \cup Received(PoolLogs)
          /\ \A l \in Recorded(PoolLogs) : l \in PoolLogs /\ l.block <= synced
          /\ \A l \in Received(PoolLogs) : l \in PoolLogs /\ l.block \in Round
          /\ synced \in Nat /\ RoundEnd \in Nat /\ synced < RoundEnd
      BY <1>4, <3>2, <3>3, RecordedLogs
    <3> DEFINE S == Swaps(Recorded(PoolLogs), p)
               N == Swaps(Received(PoolLogs), p)
               A == Swaps(Recorded(PoolLogs)', p)
    <3>5. A = S \cup N /\ A \in SUBSET PoolLogs /\ N \in SUBSET PoolLogs /\ S \in SUBSET PoolLogs
      BY <3>4 DEF Swaps
    <3>6. At(PoolLogs) /\ Placed(PoolLogs)
      BY LogsAt, LogsAssumption
    <3>7. CASE N = {}
      <4>1. A = S
        BY <3>5, <3>7
      <4> QED
        BY <4>1 DEF PoolsInv, PoolsDone
    <3>8. CASE N # {}
      <4>1. p \in known /\ <<p, LastBlockOf(N)>> \in found[PoolRecord]
        BY <3>2, <3>8 DEF PoolsInv, PoolsPriced
      <4>2. Runs("UniswapV3Pool") => p \in RowsOfPools \cup lost
        BY <2>2, <4>1 DEF PoolsInv, PoolsKept
      <4>3. Runs(PoolRecord) => <<p, LastBlockOf(N)>> \in prices
        <5>1. Runs(PoolRecord) => Passed(PoolRecord)
          BY <2>2 DEF PoolRecord
        <5> QED
          BY <4>1, <5>1 DEF PoolsInv, PoolsPriced
      <4>4. LastBlockOf(A) = LastBlockOf(N)
        <5>1. /\ LatestOf(N) \in N /\ LastBlockOf(N) = LatestOf(N).block
              /\ LatestOf(A) \in A /\ LastBlockOf(A) = LatestOf(A).block
              /\ \A m \in A : m.block <= LatestOf(A).block
              /\ \A m \in N : m.block <= LatestOf(N).block
          BY <3>5, <3>6, <3>8, LatestFacts, LastBlockFacts
        <5>2. /\ \A l \in S : l.block <= synced
              /\ \A l \in N : synced < l.block
              /\ \A l \in A : l.block \in Nat
          BY <3>4, <3>5, <3>6 DEF Swaps, At, Round
        <5>3. LatestOf(N).block <= LatestOf(A).block
          BY <3>5, <5>1
        <5>4. LatestOf(A) \in N
          <6>1. LatestOf(A).block \in Nat /\ LatestOf(N).block \in Nat /\ synced < LatestOf(N).block
            BY <3>5, <5>1, <5>2
          <6>2. LatestOf(A) \notin S
            BY <3>4, <5>2, <5>3, <6>1
          <6> QED
            BY <3>5, <5>1, <6>2
        <5> QED
          BY <3>5, <5>1, <5>2, <5>3, <5>4
      <4> QED
        BY <4>2, <4>3, <4>4
    <3> QED
      BY <3>7, <3>8
  <2> QED
    BY <1>3, <2>3, <2>4, <2>5 DEF PoolsInv
<1>5. CASE (Dropped \/ FeaturesRestart) /\ UNCHANGED <<synced, unanswered>>
  <2>1. Recorded(PoolLogs)' = Recorded(PoolLogs) /\ lost \subseteq lost'
    BY <1>1, <1>5 DEF Recorded, Dropped, FeaturesRestart
  <2>2. known' = RowsOfPools \/ (known' = known /\ known \ RowsOfPools \subseteq lost')
    BY <1>5 DEF Dropped, FeaturesRestart, KnownPools, Unexported, caches
  <2>3. PoolsTyped'
    BY <1>1, <1>2, <2>2 DEF PoolsInv, PoolsTyped
  <2>4. PoolsKept'
    BY <1>1, <1>2, <2>2 DEF PoolsKept
  <2>5. PoolsDone'
    BY <1>1, <1>2, <2>1 DEF PoolsInv, PoolsDone
  <2> QED
    BY <1>3, <2>3, <2>4, <2>5 DEF PoolsInv
<1> QED
  BY <1>1, <1>4, <1>5

(***************************************************************************)
(* The positions.                                                          *)
(***************************************************************************)

(* A record of holdings names positions with a log in its block.           *)
Held(k, I) ==
  k[2] \in Blocks /\ \A i \in I : \E l \in NftLogs : l.token = i /\ l.block = k[2]

PositionsTyped ==
  /\ knownIds \subseteq Tokens
  /\ DOMAIN positions = Tokens /\ positions \in [Tokens -> Nat]
  /\ \A r \in found["UniswapV3Token"] : r.token \in knownIds /\ r.block \in Blocks
  /\ \A x \in found[TokenRecord] : Held(x[1], x[2]) /\ x[1][2] \in Round
  /\ \A k \in DOMAIN holdings : Held(k, holdings[k])

PositionsKept ==
  /\ Runs("UniswapV3Token") =>
       \A i \in knownIds : \/ i \in RowsOfPositions \cup lost
                           \/ \E r \in found["UniswapV3Token"] : r.token = i
  /\ Passed("UniswapV3Token") => \A r \in found["UniswapV3Token"] : r.token \in RowsOfPositions

PositionsTouched ==
  Passed("uniswap_tokens") => \A x \in Touched(Received(NftLogs)) : x[1] \in knownIds

PositionsDone ==
  Runs("UniswapV3Token") => \A k \in DOMAIN holdings :
    {l \in NftLogs : l.block = k[2]} \subseteq Recorded(NftLogs) =>
      holdings[k] \subseteq RowsOfPositions \cup lost \cup BurnedBy(synced)

PositionsInv == PositionsTyped /\ PositionsKept /\ PositionsTouched /\ PositionsDone

(* What ExportUniSwapV3TokensJob knows and hands over.                      *)
LEMMA PositionsCollected ==
  ASSUME FoundInv, PositionsTyped, CollectPositions, Received(NftLogs) \subseteq NftLogs,
         \A l \in Received(NftLogs) : l.block \in Round /\ l.block \in Blocks
  PROVE  /\ knownIds \subseteq knownIds' /\ knownIds' \subseteq Tokens
         /\ \A i \in knownIds' \ knownIds : \E r \in found'["UniswapV3Token"] : r.token = i
         /\ \A r \in found'["UniswapV3Token"] : r.token \in knownIds' /\ r.block \in Blocks
         /\ \A x \in found'[TokenRecord] : Held(x[1], x[2]) /\ x[1][2] \in Round
         /\ \A x \in Touched(Received(NftLogs)) : x[1] \in knownIds'
<1> DEFINE T == Touched(Received(NftLogs))
<1>1. PICK new \in SUBSET {[token |-> x[1], block |-> x[2]] : x \in T} :
        /\ NewPositions(T, new)
        /\ knownIds' = knownIds \cup {r.token : r \in new}
        /\ found' = [found EXCEPT !["UniswapV3Token"] = new, ![TokenRecord] = Holdings(T)]
  BY DEF CollectPositions, Found
<1>2. found'["UniswapV3Token"] = new /\ found'[TokenRecord] = Holdings(T)
  BY <1>1 DEF FoundInv, FeatureTypes, TokenRecord
<1>3. \A x \in T : /\ x = <<x[1], x[2]>>
                   /\ \E l \in Received(NftLogs) : l.token = x[1] /\ l.block = x[2]
  BY DEF Touched
<1>4. \A x \in T : x[1] \in Tokens /\ x[2] \in Blocks /\ x[2] \in Round
  BY <1>3 DEF Tokens
<1> HIDE DEF T
<1>5. \A r \in new : \E x \in T : r.token = x[1] /\ r.block = x[2]
  <2>1. ASSUME NEW r \in new PROVE \E x \in T : r.token = x[1] /\ r.block = x[2]
    <3>1. r \in {[token |-> x[1], block |-> x[2]] : x \in T}
      OBVIOUS
    <3>2. PICK x \in T : r = [token |-> x[1], block |-> x[2]]
      BY <3>1
    <3> QED
      BY <3>2
  <2> QED
    BY <2>1
<1>6. knownIds' \subseteq Tokens
  BY <1>1, <1>4, <1>5 DEF PositionsTyped
<1>7. \A x \in T : x[1] \in knownIds'
  BY <1>1 DEF NewPositions
<1>8. ASSUME NEW x \in Holdings(T) PROVE Held(x[1], x[2]) /\ x[1][2] \in Round
  <2> DEFINE keys == {<<Owner(y[1], y[2]), y[2]>> : y \in T}
             held(k) == {y[1] : y \in {z \in T : z[2] = k[2] /\ Owner(z[1], z[2]) = k[1]}}
  <2>1. PICK k \in keys : x = <<k, held(k)>>
    BY DEF Holdings
  <2>2. PICK y \in T : k = <<Owner(y[1], y[2]), y[2]>>
    OBVIOUS
  <2>3. k[2] \in Blocks /\ k[2] \in Round
    BY <1>4, <2>2
  <2>4. ASSUME NEW i \in held(k) PROVE \E l \in NftLogs : l.token = i /\ l.block = k[2]
    <3>1. PICK z \in T : z[2] = k[2] /\ i = z[1]
      OBVIOUS
    <3> QED
      BY <1>3, <3>1
  <2> HIDE DEF held, keys
  <2>5. x[1] = k /\ x[2] = held(k)
    BY <2>1
  <2> QED
    BY <2>3, <2>4, <2>5 DEF Held
<1>9. \A i \in knownIds' \ knownIds : \E r \in new : r.token = i
  BY <1>1
<1>10. \A r \in new : r.token \in knownIds' /\ r.block \in Blocks
  BY <1>1, <1>4, <1>5
<1> QED
  BY <1>1, <1>2, <1>6, <1>7, <1>8, <1>9, <1>10 DEF T

(* A position keeps its row, and those of a round get theirs.               *)
LEMMA PositionsCommitted ==
  ASSUME PositionsTyped, CommitPositions
  PROVE  /\ DOMAIN positions' = Tokens /\ positions' \in [Tokens -> Nat]
         /\ RowsOfPositions \subseteq RowsOfPositions'
         /\ \A r \in found["UniswapV3Token"] : r.token \in RowsOfPositions'
<1> DEFINE S == {<<r.token, r.block>> : r \in found["UniswapV3Token"]}
<1>1. positions' = Upsert(positions, AsFunction(S))
  BY DEF CommitPositions
<1>2. \A y \in S : y[1] \in Tokens /\ y[2] # 0 /\ y[2] \in Nat
  <2>1. 0 \notin Blocks /\ Blocks \subseteq Nat
    BY ChainAssumption DEF Blocks
  <2>2. ASSUME NEW r \in found["UniswapV3Token"]
        PROVE  r.token \in Tokens /\ r.block # 0 /\ r.block \in Nat
    BY <2>1 DEF PositionsTyped
  <2> QED
    BY <2>2
<1>3. \A r \in found["UniswapV3Token"] : <<r.token, r.block>> \in S
  OBVIOUS
<1> HIDE DEF S
<1>4. /\ DOMAIN positions' = DOMAIN positions \cup {y[1] : y \in S}
      /\ \A x \in DOMAIN positions : x \notin {y[1] : y \in S} => positions'[x] = positions[x]
      /\ \A y \in S : \E z \in S : z[1] = y[1] /\ positions'[y[1]] = z[2]
  <2>1. Upserts(positions', positions, S)
    BY <1>1, Upserted
  <2> QED
    BY <2>1 DEF Upserts
<1>5. DOMAIN positions' = Tokens
  BY <1>2, <1>4 DEF PositionsTyped
<1>6. \A y \in S : positions'[y[1]] # 0 /\ positions'[y[1]] \in Nat
  BY <1>2, <1>4
<1>7. \A i \in Tokens : positions'[i] \in Nat
  BY <1>4, <1>6 DEF PositionsTyped
<1>8. positions' = [i \in Tokens |-> positions'[i]]
  <2>1. positions' = [i \in DOMAIN positions' |-> positions'[i]]
    BY <1>1 DEF Upsert
  <2> QED
    BY <1>5, <2>1
<1>9. positions' \in [Tokens -> Nat]
  BY <1>7, <1>8
<1>10. RowsOfPositions \subseteq RowsOfPositions'
  BY <1>4, <1>6 DEF RowsOfPositions, PositionsTyped
<1>11. ASSUME NEW r \in found["UniswapV3Token"] PROVE r.token \in RowsOfPositions'
  <2>1. PICK y \in S : y[1] = r.token
    BY <1>3
  <2> QED
    BY <1>2, <1>6, <2>1 DEF RowsOfPositions
<1> QED
  BY <1>5, <1>9, <1>10, <1>11

(* The holdings of a round replace those of the same owner and block.       *)
LEMMA HoldingsCommitted ==
  ASSUME IInv, PositionsTyped, CommitHoldings
  PROVE  /\ \A k \in DOMAIN holdings' : Held(k, holdings'[k])
         /\ \A k \in DOMAIN holdings' :
               \/ k \in DOMAIN holdings /\ holdings'[k] = holdings[k]
               \/ k[2] \in Round
<1> DEFINE S == found[TokenRecord]
<1>1. holdings' = Upsert(holdings, AsFunction(S))
  BY DEF CommitHoldings
<1>2. \A x \in S : Held(x[1], x[2]) /\ x[1][2] \in Round
  BY DEF PositionsTyped
<1> HIDE DEF S
<1>3. /\ DOMAIN holdings' = DOMAIN holdings \cup {y[1] : y \in S}
      /\ \A x \in DOMAIN holdings : x \notin {y[1] : y \in S} => holdings'[x] = holdings[x]
      /\ \A y \in S : \E z \in S : z[1] = y[1] /\ holdings'[y[1]] = z[2]
  <2>1. Upserts(holdings', holdings, S)
    BY <1>1, Upserted
  <2> QED
    BY <2>1 DEF Upserts
<1>4. ASSUME NEW k \in DOMAIN holdings'
      PROVE  /\ Held(k, holdings'[k])
             /\ (k \in DOMAIN holdings /\ holdings'[k] = holdings[k]) \/ k[2] \in Round
  <2>1. CASE k \in {y[1] : y \in S}
    <3>1. PICK z \in S : z[1] = k /\ holdings'[k] = z[2]
      BY <1>3, <2>1
    <3> QED
      BY <1>2, <3>1
  <2>2. CASE k \notin {y[1] : y \in S}
    BY <1>3, <2>2 DEF PositionsTyped
  <2> QED
    BY <2>1, <2>2
<1> QED
  BY <1>4

(* A step of a round keeps the positions.                                   *)
LEMMA PositionsGoOn ==
  ASSUME AInv, FoundInv, PositionsInv, OnGoing
  PROVE  PositionsInv'
<1>1. /\ \A s : Passed(s)' <=> (Passed(s) \/ s = stage)
      /\ \A s : Runs(s)' <=> Runs(s)
      /\ lost' = lost /\ synced' = synced /\ unanswered' = unanswered /\ Round' = Round
  BY OnGoingIs, GoingOn DEF AInv, GoesOn
<1>2. /\ Passed("uniswap_tokens") => Passed("transactions_and_logs")
      /\ stage = "uniswap_tokens" => Passed("transactions_and_logs") /\ Runs("uniswap_tokens")
      /\ stage = TokenRecord => Passed("uniswap_tokens")
      /\ stage = "UniswapV3Token" => Passed("uniswap_tokens")
      /\ Passed(TokenRecord) => Passed("uniswap_tokens")
      /\ Passed("UniswapV3Token") => Passed("uniswap_tokens")
  <2>1. /\ <<"transactions_and_logs", "uniswap_tokens">> \in Needs
        /\ <<"uniswap_tokens", TokenRecord>> \in Needs
        /\ <<"uniswap_tokens", "UniswapV3Token">> \in Needs
    BY DEF Needs
  <2>2. stage = "uniswap_tokens" => Runs("uniswap_tokens")
    BY DEF AInv, IInv, Staged, Runs
  <2> QED
    BY <2>1, <2>2, NeededBefore DEF AInv
<1>3. Recorded(NftLogs)' = Recorded(NftLogs) /\ BurnedBy(synced)' = BurnedBy(synced)
  BY <1>1 DEF Recorded, BurnedBy
<1>4. Passed("transactions_and_logs") => Received(NftLogs)' = Received(NftLogs)
  BY ReceivedStays DEF AInv
<1>5. ~Passed(stage)
  BY AllPassed DEF AInv
<1>6. CASE stage = "uniswap_tokens"
  <2>1. CollectPositions
    BY <1>6, StageTells
  <2>2. UNCHANGED <<positions, holdings>>
    BY <1>6, WhatIsKept DEF TokenRecord
  <2>3. ~Passed("uniswap_tokens") /\ ~Passed("UniswapV3Token")
    BY <1>2, <1>5, <1>6
  <2>4. Received(NftLogs) \subseteq NftLogs /\ \A l \in Received(NftLogs) : l.block \in Round /\ l.block \in Blocks
    <3>1. AskedFor(NftLogs)
      BY <1>2, <1>6, MissionAsks DEF AInv
    <3> QED
      BY <1>2, <1>6, <3>1, ReceivedAnswered DEF AskedFor
  <2>5. /\ knownIds \subseteq knownIds' /\ knownIds' \subseteq Tokens
        /\ \A i \in knownIds' \ knownIds : \E r \in found'["UniswapV3Token"] : r.token = i
        /\ \A r \in found'["UniswapV3Token"] : r.token \in knownIds' /\ r.block \in Blocks
        /\ \A x \in found'[TokenRecord] : Held(x[1], x[2]) /\ x[1][2] \in Round
        /\ \A x \in Touched(Received(NftLogs)) : x[1] \in knownIds'
    BY <2>1, <2>4, PositionsCollected DEF PositionsInv
  <2>6. PositionsTyped'
    BY <1>1, <2>2, <2>5 DEF PositionsInv, PositionsTyped, Held
  <2>7. PositionsKept'
    <3>1. found["UniswapV3Token"] = {}
      BY <2>3 DEF FoundInv
    <3>2. ~Passed("UniswapV3Token")'
      BY <1>1, <1>6, <2>3
    <3> QED
      BY <1>1, <2>2, <2>5, <3>1, <3>2 DEF PositionsInv, PositionsKept, RowsOfPositions
  <2>8. PositionsTouched'
    <3>1. Received(NftLogs)' = Received(NftLogs)
      BY <1>2, <1>4, <1>6
    <3> QED
      BY <2>5, <3>1 DEF PositionsTouched
  <2>9. PositionsDone'
    BY <1>1, <1>3, <2>2 DEF PositionsInv, PositionsDone, RowsOfPositions
  <2> QED
    BY <2>6, <2>7, <2>8, <2>9 DEF PositionsInv
<1>7. CASE stage = TokenRecord
  <2>1. CommitHoldings
    BY <1>7, StageTells
  <2>2. /\ UNCHANGED <<knownIds, positions>> /\ found'[TokenRecord] = found[TokenRecord]
        /\ found'["UniswapV3Token"] = found["UniswapV3Token"]
    BY <1>7, WhatIsKept DEF TokenRecord
  <2>3. /\ \A k \in DOMAIN holdings' : Held(k, holdings'[k])
        /\ \A k \in DOMAIN holdings' :
               \/ k \in DOMAIN holdings /\ holdings'[k] = holdings[k]
               \/ k[2] \in Round
    BY <2>1, HoldingsCommitted DEF AInv, PositionsInv
  <2>4. PositionsTyped'
    BY <1>1, <2>2, <2>3 DEF PositionsInv, PositionsTyped, Held
  <2>5. PositionsKept'
    BY <1>1, <1>7, <2>2 DEF PositionsInv, PositionsKept, RowsOfPositions, TokenRecord
  <2>6. Received(NftLogs)' = Received(NftLogs) /\ Passed("uniswap_tokens")
    BY <1>2, <1>4, <1>7
  <2>7. PositionsTouched'
    BY <1>1, <2>2, <2>6 DEF PositionsInv, PositionsTouched
  <2>8. PositionsDone'
    <3>1. ASSUME Runs("UniswapV3Token"), NEW k \in DOMAIN holdings',
                 {l \in NftLogs : l.block = k[2]} \subseteq Recorded(NftLogs)
          PROVE  holdings'[k] \subseteq RowsOfPositions \cup lost \cup BurnedBy(synced)
      <4>1. CASE k \in DOMAIN holdings /\ holdings'[k] = holdings[k]
        BY <3>1, <4>1 DEF PositionsInv, PositionsDone
      <4>2. CASE k[2] \in Round
        <5>1. synced < k[2]
          <6>1. k[2] \in Nat /\ synced \in Nat /\ RoundEnd \in Nat
            BY <4>2, ChainAssumption DEF Round, RoundEnd, AInv, IInv, Staged
          <6> QED
            BY <4>2, <6>1 DEF Round
        <5>2. ASSUME NEW i \in holdings'[k] PROVE FALSE
          <6>1. PICK l \in NftLogs : l.token = i /\ l.block = k[2]
            BY <2>3 DEF Held
          <6>2. l.block <= synced /\ l.block \in Nat
            BY <3>1, <6>1, LogsAt DEF Recorded, At
          <6> QED
            BY <5>1, <6>1, <6>2 DEF AInv, IInv, Staged
        <5> QED
          BY <5>2
      <4> QED
        BY <2>3, <4>1, <4>2
    <3> QED
      BY <1>1, <1>3, <2>2, <3>1 DEF PositionsDone, RowsOfPositions
  <2> QED
    BY <2>4, <2>5, <2>7, <2>8 DEF PositionsInv
<1>8. CASE stage = "UniswapV3Token"
  <2>1. CommitPositions
    BY <1>8, StageTells
  <2>2. /\ UNCHANGED <<knownIds, holdings>> /\ found'[TokenRecord] = found[TokenRecord]
        /\ found'["UniswapV3Token"] = found["UniswapV3Token"]
    BY <1>8, WhatIsKept DEF TokenRecord
  <2>3. /\ DOMAIN positions' = Tokens /\ positions' \in [Tokens -> Nat]
        /\ RowsOfPositions \subseteq RowsOfPositions'
        /\ \A r \in found["UniswapV3Token"] : r.token \in RowsOfPositions'
    BY <2>1, PositionsCommitted DEF PositionsInv
  <2>4. PositionsTyped'
    BY <1>1, <2>2, <2>3 DEF PositionsInv, PositionsTyped, Held
  <2>5. PositionsKept'
    BY <1>1, <2>2, <2>3 DEF PositionsInv, PositionsKept
  <2>6. Received(NftLogs)' = Received(NftLogs) /\ Passed("uniswap_tokens")
    BY <1>2, <1>4, <1>8
  <2>7. PositionsTouched'
    BY <1>1, <2>2, <2>6 DEF PositionsInv, PositionsTouched
  <2>8. PositionsDone'
    BY <1>1, <1>3, <2>2, <2>3 DEF PositionsInv, PositionsDone
  <2> QED
    BY <2>4, <2>5, <2>7, <2>8 DEF PositionsInv
<1>9. CASE stage \notin {"uniswap_tokens", TokenRecord, "UniswapV3Token"}
  <2>1. /\ UNCHANGED <<knownIds, positions, holdings>> /\ found'[TokenRecord] = found[TokenRecord]
        /\ found'["UniswapV3Token"] = found["UniswapV3Token"]
    BY <1>9, WhatIsKept
  <2>2. PositionsTyped' /\ PositionsKept'
    BY <1>1, <1>9, <2>1 DEF PositionsInv, PositionsTyped, PositionsKept, RowsOfPositions, Held
  <2>3. PositionsTouched'
    BY <1>1, <1>2, <1>4, <1>9, <2>1 DEF PositionsInv, PositionsTouched
  <2>4. PositionsDone'
    BY <1>1, <1>3, <2>1 DEF PositionsInv, PositionsDone, RowsOfPositions
  <2> QED
    BY <2>2, <2>3, <2>4 DEF PositionsInv
<1> QED
  BY <1>6, <1>7, <1>8, <1>9

(* The end of a round keeps the positions.                                  *)
LEMMA PositionsEnd ==
  ASSUME AInv, FoundInv, PositionsInv, Closing
  PROVE  PositionsInv'
<1>1. /\ UNCHANGED <<positions, holdings>>
      /\ \A s : ~Passed(s)'
      /\ \A s : Runs(s)' <=> Runs(s)
      /\ found'["UniswapV3Token"] = {} /\ found'[TokenRecord] = {}
      /\ \/ Record /\ FeaturesRecord
         \/ Dropped /\ UNCHANGED <<synced, unanswered>>
         \/ FeaturesRestart /\ UNCHANGED <<synced, unanswered>>
  BY WhatEnds DEF AInv, FeatureTypes, tables
<1>2. RowsOfPositions' = RowsOfPositions
  BY <1>1 DEF RowsOfPositions
<1>3. PositionsTouched'
  BY <1>1 DEF PositionsTouched
<1>4. CASE Record /\ FeaturesRecord
  <2>1. UNCHANGED <<knownIds, lost>> /\ stage = "record"
    BY <1>4 DEF FeaturesRecord, caches, Record
  <2>2. \A s : Runs(s) /\ s # "record" => Passed(s)
    BY <2>1, AllPassed DEF AInv
  <2>3. PositionsTyped'
    BY <1>1, <2>1 DEF PositionsInv, PositionsTyped, Held
  <2>4. PositionsKept'
    <3>1. Runs("UniswapV3Token") => \A i \in knownIds : i \in RowsOfPositions \cup lost
      BY <2>2 DEF PositionsInv, PositionsKept
    <3> QED
      BY <1>1, <1>2, <2>1, <3>1 DEF PositionsKept
  <2>5. PositionsDone'
    <3> SUFFICES ASSUME Runs("UniswapV3Token"), NEW k \in DOMAIN holdings,
                        {l \in NftLogs : l.block = k[2]} \subseteq Recorded(NftLogs)',
                        NEW i \in holdings[k]
                 PROVE  i \in RowsOfPositions \cup lost \cup BurnedBy(synced')
      BY <1>1, <1>2, <2>1 DEF PositionsDone, BurnedBy
    <3>1. /\ <<"transactions_and_logs", "uniswap_tokens">> \in Needs
          /\ <<"uniswap_tokens", "UniswapV3Token">> \in Needs
      BY DEF Needs
    <3>2. /\ Runs("uniswap_tokens") /\ Passed("uniswap_tokens")
          /\ Passed("transactions_and_logs") /\ Passed("UniswapV3Token")
      BY <2>2, <3>1, NeededBefore DEF AInv
    <3>3. AskedFor(NftLogs)
      BY <3>2, MissionAsks DEF AInv
    <3>4. /\ Recorded(NftLogs)' = Recorded(NftLogs) \cup Received(NftLogs)
          /\ \A l \in Recorded(NftLogs) : l \in NftLogs /\ l.block <= synced
          /\ \A l \in Received(NftLogs) : l \in NftLogs /\ l.block \in Round
          /\ synced' = RoundEnd /\ synced \in Nat /\ RoundEnd \in Nat /\ synced < RoundEnd
      BY <1>4, <3>2, <3>3, RecordedLogs
    <3>5. \A l \in NftLogs : l.block \in Nat
      BY LogsAt DEF At
    <3>6. \A l \in Received(NftLogs) : synced < l.block /\ l.block <= RoundEnd
      BY <3>4, <3>5 DEF Round
    <3>7. PICK l \in NftLogs : l.token = i /\ l.block = k[2]
      BY DEF PositionsInv, PositionsTyped, Held
    <3>8. l \in Recorded(NftLogs) \/ l \in Received(NftLogs)
      BY <3>4, <3>7
    <3>9. CASE l \in Recorded(NftLogs)
      <4>1. {m \in NftLogs : m.block = k[2]} \subseteq Recorded(NftLogs)
        <5>1. k[2] <= synced
          BY <3>4, <3>7, <3>9
        <5>2. ASSUME NEW m \in NftLogs, m.block = k[2] PROVE m \in Recorded(NftLogs)
          <6>1. m \notin Received(NftLogs)
            BY <3>4, <3>5, <3>6, <5>1, <5>2
          <6>2. m \in Recorded(NftLogs)'
            BY <5>2
          <6> QED
            BY <3>4, <6>1, <6>2
        <5> QED
          BY <5>2
      <4>2. i \in RowsOfPositions \cup lost \cup BurnedBy(synced)
        BY <4>1 DEF PositionsInv, PositionsDone
      <4>3. BurnedBy(synced) \subseteq BurnedBy(synced')
        BY <3>4, <3>5 DEF BurnedBy
      <4> QED
        BY <4>2, <4>3
    <3>10. CASE l \in Received(NftLogs)
      <4>1. CASE \E n \in Received(NftLogs) : n.kind = "burn" /\ n.token = i
        <5>1. PICK n \in Received(NftLogs) : n.kind = "burn" /\ n.token = i
          BY <4>1
        <5>2. n \in NftLogs /\ n.block <= synced'
          BY <3>4, <3>6
        <5> QED
          BY <5>1, <5>2 DEF BurnedBy
      <4>2. CASE ~\E n \in Received(NftLogs) : n.kind = "burn" /\ n.token = i
        <5>1. <<i, l.block>> \in Touched(Received(NftLogs))
          BY <3>7, <3>10, <4>2 DEF Touched
        <5>2. i \in knownIds
          BY <3>2, <5>1 DEF PositionsInv, PositionsTouched
        <5> QED
          BY <3>2, <5>2 DEF PositionsInv, PositionsKept
      <4> QED
        BY <4>1, <4>2
    <3> QED
      BY <3>8, <3>9, <3>10
  <2> QED
    BY <1>3, <2>3, <2>4, <2>5 DEF PositionsInv
<1>5. CASE (Dropped \/ FeaturesRestart) /\ UNCHANGED <<synced, unanswered>>
  <2>1. /\ Recorded(NftLogs)' = Recorded(NftLogs) /\ BurnedBy(synced)' = BurnedBy(synced)
        /\ lost \subseteq lost'
    BY <1>1, <1>5 DEF Recorded, BurnedBy, Dropped, FeaturesRestart
  <2>2. knownIds' = {} \/ (knownIds' = knownIds /\ knownIds \ RowsOfPositions \subseteq lost')
    BY <1>5 DEF Dropped, FeaturesRestart, Unexported, caches
  <2>3. PositionsTyped'
    BY <1>1, <2>2 DEF PositionsInv, PositionsTyped, Held
  <2>4. PositionsKept'
    BY <1>1, <1>2, <2>2 DEF PositionsKept
  <2>5. PositionsDone'
    BY <1>1, <1>2, <2>1 DEF PositionsInv, PositionsDone
  <2> QED
    BY <1>3, <2>3, <2>4, <2>5 DEF PositionsInv
<1> QED
  BY <1>1, <1>4, <1>5

UInv == PoolsInv /\ PositionsInv

(* Every step keeps pools and positions.                                    *)
LEMMA KeepsUniswap == AInv /\ FoundInv /\ UInv /\ [Next]_vars => UInv'
<1> SUFFICES ASSUME AInv, FoundInv, UInv, [Next]_vars PROVE UInv'
  OBVIOUS
<1>1. CASE OnGoing
  BY <1>1, PoolsGoOn, PositionsGoOn DEF UInv
<1>2. CASE Closing
  BY <1>2, PoolsEnd, PositionsEnd DEF UInv
<1>3. CASE UNCHANGED vars
  <2>1. /\ UNCHANGED <<found, known, knownIds, prices, pools, holdings, positions, lost>>
        /\ UNCHANGED <<mission, synced, stage, buff, unanswered, Plan, Round>>
        /\ \A s : (Passed(s)' <=> Passed(s)) /\ (Runs(s)' <=> Runs(s))
    BY <1>3 DEF vars, chainVars, featureVars, caches, tables, Passed, Runs, Position, Plan, Round, RoundEnd
  <2>2. /\ \A L : Received(L)' = Received(L) /\ Recorded(L)' = Recorded(L)
        /\ RowsOfPools' = RowsOfPools /\ RowsOfPositions' = RowsOfPositions
        /\ BurnedBy(synced)' = BurnedBy(synced)
    BY <2>1 DEF Received, Recorded, RowsOfPools, RowsOfPositions, BurnedBy
  <2>3. PoolsInv'
    BY <2>1, <2>2 DEF UInv, PoolsInv, PoolsTyped, PoolsKept, PoolsPriced, PoolsDone
  <2>4. PositionsInv'
    BY <2>1, <2>2 DEF UInv, PositionsInv, PositionsTyped, PositionsKept, PositionsTouched,
                      PositionsDone, Held
  <2> QED
    BY <2>3, <2>4 DEF UInv
<1> QED
  BY <1>1, <1>2, <1>3, NextIs

(* The invariant of the pools and the positions.                            *)
LEMMA UniswapIsKept == Spec => []UInv
<1>1. Init => UInv
  <2> SUFFICES ASSUME Init PROVE UInv
    OBVIOUS
  <2>1. /\ \A t \in FeatureTypes : found[t] = {}
        /\ known = {} /\ knownIds = {} /\ prices = {} /\ pools = [p \in Pools |-> NoPool]
        /\ holdings = [x \in {} |-> {}] /\ positions = [i \in Tokens |-> 0]
    BY DEF Init, FeatureInit, Nothing
  <2>2. Begun /\ synced = StartBlock - 1
    BY ChainAssumption DEF Init, ChainInit, Begun
  <2>3. \A s : ~Passed(s)
    BY <2>2, FirstStage DEF Begun
  <2>4. /\ found[PoolRecord] = {} /\ found["UniswapV3Pool"] = {}
        /\ found[TokenRecord] = {} /\ found["UniswapV3Token"] = {}
        /\ RowsOfPools = {} /\ DOMAIN holdings = {}
    BY <2>1 DEF FeatureTypes, RowsOfPools
  <2>5. Recorded(PoolLogs) = {}
    BY <2>2, ChainAssumption, FeaturesAssumption DEF Recorded, Blocks
  <2>6. PoolsInv
    BY <2>1, <2>3, <2>4, <2>5 DEF PoolsInv, PoolsTyped, PoolsKept, PoolsPriced, PoolsDone, Swaps
  <2>7. PositionsInv
    BY <2>1, <2>3, <2>4 DEF PositionsInv, PositionsTyped, PositionsKept, PositionsTouched, PositionsDone
  <2> QED
    BY <2>6, <2>7 DEF UInv
<1> QED
  BY <1>1, KeepsUniswap, AnswersAreKept, FoundIs, PTL DEF Spec

(* Every price, pool and position that a mission records is in its table,  *)
(* unless a round that failed had come to know it.                         *)
THEOREM KnownStaysStored == Spec => []KnownIsStored
<1>1. UInv => KnownIsStored
  BY DEF UInv, PoolsInv, PoolsDone, PositionsInv, PositionsDone, KnownIsStored
<1> QED
  BY <1>1, UniswapIsKept, PTL

(***************************************************************************)
(* The activeness.                                                         *)
(***************************************************************************)

(* The transactions of the recorded blocks, and those of the round.        *)
Done == {t \in Transactions : t.block <= synced /\ BlockRow(t.block) \notin unanswered}
Now  == {t \in Transactions : InBuffer(t)}

Party(t, a) == t.from = a \/ t.to = a
KeyOf(k) ==
  /\ k \in Addresses \X Blocks
  /\ \E t \in Transactions : t.block = k[2] /\ Party(t, k[1])

ActiveTyped ==
  /\ stats \in [Addresses -> Nat] /\ current \in [Addresses -> Nat]
  /\ recounted \subseteq Addresses
  /\ \A x \in found["CurrentTraitsActiveness"] : x[1] \in Addresses /\ x[2] = stats[x[1]]
  /\ \A x \in found[ActiveRecord] : KeyOf(x[1]) /\ x[1][2] \in Round
  /\ \A k \in DOMAIN activeness : KeyOf(k)

(* What counts the transactions S, of everyone or of those not recounted.  *)
Counts(f, S) ==
  \A a \in Addresses :
    f[a] >= CountOf(S, a) /\ (a \notin recounted => f[a] = CountOf(S, a))

StatsCount ==
  /\ ~Passed("activeness") => Counts(stats, Done)
  /\ Passed("activeness") => Counts(stats, Done \cup Now)
CurrentCount ==
  /\ ~Passed("CurrentTraitsActiveness") => Counts(current, Done)
  /\ Passed("CurrentTraitsActiveness") => Counts(current, Done \cup Now)

(* The round has an item for each address, and for each of its blocks.     *)
ItemsCount ==
  Passed("activeness") =>
    /\ \A t \in Now : \A a \in Addresses : Party(t, a) =>
         a \in Counted /\ \E x \in found[ActiveRecord] : x[1] = <<a, t.block>>
    /\ \A x \in found[ActiveRecord] :
         x[1][1] \notin recounted => x[2] = CountOf(UpTo(Done \cup Now, x[1][2]), x[1][1])
RowsCount ==
  /\ Passed(ActiveRecord) =>
       \A x \in found[ActiveRecord] : x[1][1] \notin recounted =>
         activeness[x[1]] = CountOf(UpTo(Done \cup Now, x[1][2]), x[1][1])
  /\ \A k \in DOMAIN activeness :
       (k[1] \notin recounted /\ k[2] <= synced /\ BlockRow(k[2]) \notin unanswered)
         => activeness[k] = CountOf(UpTo(Done, k[2]), k[1])

BothRun == Runs(ActiveRecord) /\ Runs("CurrentTraitsActiveness")
ActiveInv ==
  /\ ActiveTyped
  /\ BothRun => StatsCount /\ CurrentCount /\ ItemsCount /\ RowsCount

(* Counting the transactions of an address.                                 *)
LEMMA CountFacts ==
  ASSUME NEW S \in SUBSET Transactions, NEW U \in SUBSET Transactions, NEW a
  PROVE  /\ CountOf(S, a) \in Nat
         /\ CountOf(S, a) <= CountOf(S \cup U, a)
         /\ S \cap U = {} => CountOf(S \cup U, a) = CountOf(S, a) + CountOf(U, a)
         /\ (\A t \in U : ~Party(t, a)) => CountOf(S \cup U, a) = CountOf(S, a)
<1> DEFINE of(X) == {t \in X : t.from = a \/ t.to = a}
<1>1. \A X \in SUBSET Transactions : IsFiniteSet(of(X)) /\ Cardinality(of(X)) \in Nat
  BY ChainAssumption, FS_Subset, FS_CardinalityType
<1>2. of(S \cup U) = of(S) \cup of(U)
  OBVIOUS
<1>3. \A X : CountOf(X, a) = Cardinality(of(X))
  BY DEF CountOf
<1>4. (\A t \in U : ~Party(t, a)) => of(U) = {}
  BY DEF Party
<1>5. S \cap U = {} => of(S) \cap of(U) = {}
  OBVIOUS
<1> HIDE DEF of
<1>6. IsFiniteSet(of(S)) /\ IsFiniteSet(of(U)) /\ IsFiniteSet(of(S \cup U))
  BY <1>1
<1>7. Cardinality(of(S)) <= Cardinality(of(S \cup U))
  BY <1>2, <1>6, FS_Subset
<1>8. S \cap U = {} => Cardinality(of(S \cup U)) = Cardinality(of(S)) + Cardinality(of(U))
  <2>1. Cardinality(of(S) \cup of(U)) =
          Cardinality(of(S)) + Cardinality(of(U)) - Cardinality(of(S) \cap of(U))
    BY <1>6, FS_Union
  <2>2. Cardinality({}) = 0
    BY FS_EmptySet
  <2>3. Cardinality(of(S)) \in Nat /\ Cardinality(of(U)) \in Nat
    BY <1>1
  <2>4. ASSUME S \cap U = {}
        PROVE  Cardinality(of(S) \cup of(U)) = Cardinality(of(S)) + Cardinality(of(U)) - 0
    BY <1>5, <2>1, <2>2, <2>4
  <2>5. Cardinality(of(S \cup U)) = Cardinality(of(S) \cup of(U))
    BY <1>2
  <2>6. Cardinality(of(S)) + Cardinality(of(U)) - 0 = Cardinality(of(S)) + Cardinality(of(U))
    BY <2>3
  <2> QED
    BY <2>4, <2>5, <2>6
<1>9. of(U) = {} => of(S \cup U) = of(S)
  BY <1>2
<1> QED
  BY <1>1, <1>3, <1>4, <1>7, <1>8, <1>9

(* The transactions of a round come after the recorded ones.               *)
LEMMA DoneAndNow ==
  ASSUME IInv
  PROVE  /\ Done \in SUBSET Transactions /\ Now \in SUBSET Transactions
         /\ Done \cap Now = {}
         /\ \A t \in Now : t.block \in Round
         /\ \A t \in Transactions : t.block \in Nat
         /\ synced \in Nat /\ \A b \in Round : synced < b /\ b \in Nat
<1>1. synced \in Nat /\ StartBlock - 1 <= synced
  BY DEF IInv, Staged
<1>2. Blocks \subseteq Nat
  BY ChainAssumption DEF Blocks
<1>3. \A t \in Transactions : t.block \in Blocks
  BY ChainAssumption
<1>4. \A b \in Round : synced < b /\ b \in Nat
  BY <1>1, <1>2, RoundBlocks
<1>5. ASSUME NEW t \in Now PROVE t.block \in Round
  <2>1. ItemOf("Transaction", TransactionRow(t))
    BY DEF IInv, Filled, Now, InBuffer, RowTypes, Types
  <2> QED
    BY <2>1, TransactionFields, InTheRound DEF ItemOf, Now
<1>6. \A t \in Done : t.block <= synced
  BY DEF Done
<1>7. Done \cap Now = {}
  <2>1. ASSUME NEW t \in Done, t \in Now PROVE FALSE
    BY <1>1, <1>4, <1>5, <1>6, <2>1
  <2> QED
    BY <2>1
<1> QED
  BY <1>1, <1>2, <1>3, <1>4, <1>5, <1>7 DEF Done, Now

(* The transactions of the round are recorded with it.                     *)
LEMMA RecordedTransactions ==
  ASSUME AInv, Record, mission \notin Filtered
  PROVE  /\ Done' = Done \cup Now
         /\ \A t \in Transactions :
              t.block \in Round /\ BlockRow(t.block) \notin missed => t \in Now
<1>1. synced \in Nat /\ synced' = RoundEnd /\ unanswered' = unanswered \cup missed
  BY DEF AInv, IInv, Staged, Record
<1>2. RoundEnd \in Nat /\ synced <= RoundEnd
  BY <1>1, ChainAssumption DEF RoundEnd, AInv, IInv, Staged, Record
<1>3. /\ \A r \in missed : r.block \in Round
      /\ \A r \in unanswered : r.block <= synced
  BY <1>1, ChainAssumption DEF AInv, Told, Dated
<1>4. \A b : BlockRow(b).block = b
  BY DEF BlockRow, Row
<1>5. Passed("blocks")
  BY AllPassed DEF AInv, Record
<1>6. Requested = Round
  BY DEF Requested
<1>7. ASSUME NEW t \in Transactions, t.block \in Round, BlockRow(t.block) \notin missed
      PROVE  t \in Now
  <2>1. BlockRow(t.block) \in buff["Block"]
    BY <1>5, <1>6, <1>7 DEF AInv, Answered, BlocksAnswered
  <2> QED
    BY <2>1 DEF AInv, Answered, TransactionsKept, Wanted, Now
<1>8. ASSUME NEW t \in Now PROVE BlockRow(t.block) \notin missed /\ t.block \in Round
  <2>1. ItemOf("Transaction", TransactionRow(t))
    BY DEF AInv, IInv, Filled, Now, InBuffer, RowTypes, Types
  <2>2. BlockRow(t.block) \in buff["Block"]
    BY <2>1, TransactionFields DEF ItemOf, TypeAbove, Now
  <2>3. t.block \in Round
    BY DoneAndNow DEF AInv
  <2> QED
    BY <1>5, <1>6, <2>2, <2>3 DEF AInv, Answered, BlocksAnswered
<1>9. \A t \in Transactions : t.block \in Nat /\ (t.block \in Round <=> synced < t.block /\ t.block <= RoundEnd)
  BY <1>1, <1>2, DoneAndNow DEF AInv, Round
<1>10. ASSUME NEW t \in Transactions PROVE t \in Done' <=> t \in Done \cup Now
  <2>1. CASE t.block \in Round
    <3>1. BlockRow(t.block) \notin unanswered
      BY <1>1, <1>3, <1>4, <1>9, <2>1
    <3>2. t \notin Done
      BY <1>1, <1>9, <2>1 DEF Done
    <3>3. t \in Done' <=> BlockRow(t.block) \notin missed
      BY <1>1, <1>9, <2>1, <3>1 DEF Done
    <3> QED
      BY <1>7, <1>8, <2>1, <3>2, <3>3
  <2>2. CASE t.block \notin Round
    <3>1. BlockRow(t.block) \notin missed
      BY <1>3, <1>4, <2>2
    <3>2. t \notin Now
      BY <1>8, <2>2
    <3> QED
      BY <1>1, <1>2, <1>9, <2>2, <3>1, <3>2 DEF Done
  <2> QED
    BY <2>1, <2>2
<1>11. Done' \subseteq Transactions /\ Done \subseteq Transactions /\ Now \subseteq Transactions
  BY DEF Done, Now
<1> QED
  BY <1>7, <1>10, <1>11

(* The job counts the transactions of its round.                           *)
LEMMA ActivenessCollected ==
  ASSUME IInv, FoundInv, ActiveTyped, CollectActiveness
  PROVE  /\ stats' \in [Addresses -> Nat]
         /\ \A a \in Addresses : stats'[a] = stats[a] + CountOf(Now, a)
         /\ \A x \in found'["CurrentTraitsActiveness"] : x[1] \in Addresses /\ x[2] = stats'[x[1]]
         /\ \A x \in found'[ActiveRecord] :
              /\ KeyOf(x[1]) /\ x[1][2] \in Round
              /\ x[2] = stats[x[1][1]] + CountOf(UpTo(Now, x[1][2]), x[1][1])
         /\ \A t \in Now : \A a \in Addresses : Party(t, a) =>
              /\ a \in {x[1] : x \in found'["CurrentTraitsActiveness"]}
              /\ \E x \in found'[ActiveRecord] : x[1] = <<a, t.block>>
<1> DEFINE keys == UNION {{<<a, b>> : b \in InBlocks(Now, a)} : a \in Addresses}
           counted == [k \in keys |-> stats[k[1]] + CountOf(UpTo(Now, k[2]), k[1])]
           items == {<<k, counted[k]>> : k \in keys}
           totals == {<<a, stats[a] + CountOf(Now, a)>> : a \in {k[1] : k \in keys}}
<1>1. /\ stats' = [a \in Addresses |-> stats[a] + CountOf(Now, a)]
      /\ found' = [found EXCEPT ![ActiveRecord] = items, !["CurrentTraitsActiveness"] = totals]
  BY DEF CollectActiveness, Found, Now
<1>2. found'[ActiveRecord] = items /\ found'["CurrentTraitsActiveness"] = totals
  <2> HIDE DEF items, totals
  <2> QED
    BY <1>1 DEF FoundInv, FeatureTypes, ActiveRecord
<1>3. stats' \in [Addresses -> Nat]
  <2>1. \A a : CountOf(Now, a) \in Nat
    BY CountFacts, DoneAndNow
  <2>2. \A a \in Addresses : stats[a] + CountOf(Now, a) \in Nat
    BY <2>1 DEF ActiveTyped
  <2> QED
    BY <1>1, <2>2
<1>4. ASSUME NEW k \in keys PROVE KeyOf(k) /\ k[2] \in Round
  <2>1. PICK a \in Addresses : k \in {<<a, b>> : b \in InBlocks(Now, a)}
    OBVIOUS
  <2>2. PICK b \in InBlocks(Now, a) : k = <<a, b>>
    BY <2>1
  <2>3. PICK t \in Now : Party(t, a) /\ b = t.block
    BY DEF InBlocks, Party
  <2>4. t \in Transactions /\ t.block \in Round /\ t.block \in Blocks
    BY DoneAndNow, ChainAssumption
  <2> QED
    BY <2>2, <2>3, <2>4 DEF KeyOf
<1>5. ASSUME NEW t \in Now, NEW a \in Addresses, Party(t, a) PROVE <<a, t.block>> \in keys
  <2>1. t.block \in InBlocks(Now, a)
    BY <1>5 DEF InBlocks, Party
  <2> QED
    BY <2>1
<1> HIDE DEF keys
<1>6. ASSUME NEW x \in items
      PROVE  /\ KeyOf(x[1]) /\ x[1][2] \in Round
             /\ x[2] = stats[x[1][1]] + CountOf(UpTo(Now, x[1][2]), x[1][1])
  <2>1. PICK k \in keys : x = <<k, counted[k]>>
    OBVIOUS
  <2>2. counted[k] = stats[k[1]] + CountOf(UpTo(Now, k[2]), k[1])
    OBVIOUS
  <2> HIDE DEF counted
  <2>3. x[1] = k /\ x[2] = counted[k]
    BY <2>1
  <2> QED
    BY <1>4, <2>2, <2>3
<1>7. ASSUME NEW x \in totals PROVE x[1] \in Addresses /\ x[2] = stats'[x[1]]
  <2>1. PICK k \in keys : x = <<k[1], stats[k[1]] + CountOf(Now, k[1])>>
    OBVIOUS
  <2>2. k[1] \in Addresses
    BY <1>4 DEF KeyOf
  <2> QED
    BY <1>1, <2>1, <2>2
<1>8. ASSUME NEW t \in Now, NEW a \in Addresses, Party(t, a)
      PROVE  /\ a \in {x[1] : x \in totals}
             /\ \E x \in items : x[1] = <<a, t.block>>
  <2> DEFINE k == <<a, t.block>>
  <2>1. k \in keys
    BY <1>5, <1>8
  <2>2. <<k, counted[k]>> \in items /\ <<k, counted[k]>>[1] = k
    BY <2>1
  <2>3. <<a, stats[a] + CountOf(Now, a)>> \in totals /\ <<a, stats[a] + CountOf(Now, a)>>[1] = a
    <3>1. a \in {j[1] : j \in keys}
      BY <2>1
    <3> QED
      BY <3>1
  <2> HIDE DEF items, totals
  <2> QED
    BY <2>2, <2>3
<1>9. \A a \in Addresses : stats'[a] = stats[a] + CountOf(Now, a)
  BY <1>1
<1> HIDE DEF items, totals
<1> QED
  BY <1>2, <1>3, <1>6, <1>7, <1>8, <1>9

(* The transactions up to a block, before and in the round.                *)
LEMMA UpToFacts ==
  ASSUME IInv, NEW b \in Nat
  PROVE  /\ b <= synced => UpTo(Done \cup Now, b) = UpTo(Done, b)
         /\ b \in Round => UpTo(Done \cup Now, b) = Done \cup UpTo(Now, b)
         /\ UpTo(Now, b) \in SUBSET Transactions /\ Done \cap UpTo(Now, b) = {}
<1>1. \A t \in Now : synced < t.block /\ t.block \in Nat
  BY DoneAndNow
<1>2. \A t \in Done : t.block <= synced /\ t.block \in Nat /\ synced \in Nat
  BY DoneAndNow DEF Done
<1>3. b \in Round => synced < b
  BY DoneAndNow
<1>4. Done \cap Now = {} /\ Now \subseteq Transactions
  BY DoneAndNow
<1>5. ASSUME b <= synced PROVE UpTo(Done \cup Now, b) = UpTo(Done, b)
  <2>1. \A t \in Now : ~(t.block <= b)
    BY <1>1, <1>5, DoneAndNow
  <2> QED
    BY <2>1 DEF UpTo
<1>6. ASSUME b \in Round PROVE UpTo(Done \cup Now, b) = Done \cup UpTo(Now, b)
  <2>1. \A t \in Done : t.block <= b
    BY <1>2, <1>3, <1>6
  <2> QED
    BY <2>1 DEF UpTo
<1> QED
  BY <1>4, <1>5, <1>6 DEF UpTo

(* The records of a round replace those of the same address and block.      *)
LEMMA ActivenessCommitted ==
  ASSUME ActiveTyped, CommitActiveness
  PROVE  /\ \A k \in DOMAIN activeness' : KeyOf(k)
         /\ \A k \in DOMAIN activeness' :
              (k \in DOMAIN activeness /\ activeness'[k] = activeness[k]) \/ k[2] \in Round
         /\ \A x \in found[ActiveRecord] :
              \E z \in found[ActiveRecord] : z[1] = x[1] /\ activeness'[x[1]] = z[2]
<1> DEFINE S == found[ActiveRecord]
<1>1. activeness' = Upsert(activeness, AsFunction(S))
  BY DEF CommitActiveness
<1>2. \A x \in S : KeyOf(x[1]) /\ x[1][2] \in Round
  BY DEF ActiveTyped
<1> HIDE DEF S
<1>3. /\ DOMAIN activeness' = DOMAIN activeness \cup {y[1] : y \in S}
      /\ \A x \in DOMAIN activeness : x \notin {y[1] : y \in S} => activeness'[x] = activeness[x]
      /\ \A y \in S : \E z \in S : z[1] = y[1] /\ activeness'[y[1]] = z[2]
  <2>1. Upserts(activeness', activeness, S)
    BY <1>1, Upserted
  <2> QED
    BY <2>1 DEF Upserts
<1>4. \A k \in DOMAIN activeness' : KeyOf(k)
  BY <1>2, <1>3 DEF ActiveTyped
<1>5. \A k \in DOMAIN activeness' :
        (k \in DOMAIN activeness /\ activeness'[k] = activeness[k]) \/ k[2] \in Round
  BY <1>2, <1>3
<1> QED
  BY <1>3, <1>4, <1>5 DEF S

(* The addresses of a round get their new count, others keep theirs.        *)
LEMMA CurrentCommitted ==
  ASSUME ActiveTyped, CommitCurrent
  PROVE  /\ current' \in [Addresses -> Nat]
         /\ \A a \in Counted : current'[a] = stats[a]
         /\ \A a \in Addresses \ Counted : current'[a] = current[a]
<1> DEFINE S == found["CurrentTraitsActiveness"]
<1>1. current' = Upsert(current, AsFunction(S))
  BY DEF CommitCurrent
<1>2. \A x \in S : x[1] \in Addresses /\ x[2] = stats[x[1]]
  BY DEF ActiveTyped
<1>3. Counted = {x[1] : x \in S}
  BY DEF Counted
<1> HIDE DEF S
<1>4. /\ DOMAIN current' = DOMAIN current \cup {y[1] : y \in S}
      /\ \A x \in DOMAIN current : x \notin {y[1] : y \in S} => current'[x] = current[x]
      /\ \A y \in S : \E z \in S : z[1] = y[1] /\ current'[y[1]] = z[2]
  <2>1. Upserts(current', current, S)
    BY <1>1, Upserted
  <2> QED
    BY <2>1 DEF Upserts
<1>5. DOMAIN current' = Addresses
  BY <1>2, <1>4 DEF ActiveTyped
<1>6. ASSUME NEW a \in Counted PROVE current'[a] = stats[a]
  <2>1. PICK y \in S : y[1] = a
    BY <1>3
  <2>2. PICK z \in S : z[1] = a /\ current'[a] = z[2]
    BY <1>4, <2>1
  <2> QED
    BY <1>2, <2>2
<1>7. \A a \in Addresses \ Counted : current'[a] = current[a]
  BY <1>3, <1>4 DEF ActiveTyped
<1>8. \A a \in Addresses : current'[a] \in Nat
  BY <1>6, <1>7 DEF ActiveTyped
<1>9. current' = [a \in DOMAIN current' |-> current'[a]]
  BY <1>1 DEF Upsert
<1>10. current' \in [Addresses -> Nat]
  BY <1>5, <1>8, <1>9
<1> QED
  BY <1>6, <1>7, <1>10

(* What is true of the counts with and without the round for an address    *)
(* that the round does not name.                                           *)
LEMMA CountsWithout ==
  ASSUME IInv, NEW a, \A t \in Now : ~Party(t, a)
  PROVE  CountOf(Done \cup Now, a) = CountOf(Done, a)
BY CountFacts, DoneAndNow

(* A step of a round keeps the counts of the addresses.                     *)
LEMMA ActiveGoOn ==
  ASSUME AInv, FoundInv, ActiveInv, OnGoing
  PROVE  ActiveInv'
<1>1. /\ \A s : Passed(s)' <=> (Passed(s) \/ s = stage)
      /\ \A s : Runs(s)' <=> Runs(s)
      /\ recounted' = recounted /\ synced' = synced /\ unanswered' = unanswered /\ Round' = Round
  BY OnGoingIs, GoingOn DEF AInv, GoesOn
<1>2. /\ stage = ActiveRecord => Passed("activeness")
      /\ stage = "CurrentTraitsActiveness" => Passed("activeness")
      /\ Passed(ActiveRecord) => Passed("activeness")
      /\ Passed("CurrentTraitsActiveness") => Passed("activeness")
      /\ ~Passed(stage) /\ (Passed("activeness") => stage # "blocks")
  <2>1. /\ <<"activeness", ActiveRecord>> \in Needs
        /\ <<"activeness", "CurrentTraitsActiveness">> \in Needs
    BY DEF Needs
  <2>2. Passed("activeness") => stage # "blocks"
    BY FirstStage DEF AInv, IInv, Staged
  <2> QED
    BY <2>1, <2>2, NeededBefore, AllPassed DEF AInv
<1>3. Done' = Done /\ (BothRun' <=> BothRun)
  BY <1>1 DEF Done, BothRun
<1>4. stage # "blocks" => Now' = Now
  BY OnGoingIs, WhatGoesOn DEF AInv, Now, InBuffer
<1>5. CASE stage = "activeness"
  <2>1. CollectActiveness
    BY <1>5, StageTells
  <2>2. UNCHANGED <<activeness, current>> /\ Now' = Now
    BY <1>4, <1>5, WhatIsKept DEF ActiveRecord
  <2>3. /\ ~Passed("activeness") /\ ~Passed(ActiveRecord) /\ ~Passed("CurrentTraitsActiveness")
        /\ Passed("activeness")' /\ ~Passed(ActiveRecord)' /\ ~Passed("CurrentTraitsActiveness")'
    BY <1>1, <1>2, <1>5 DEF ActiveRecord
  <2>4. /\ stats' \in [Addresses -> Nat]
        /\ \A a \in Addresses : stats'[a] = stats[a] + CountOf(Now, a)
        /\ \A x \in found'["CurrentTraitsActiveness"] : x[1] \in Addresses /\ x[2] = stats'[x[1]]
        /\ \A x \in found'[ActiveRecord] :
             /\ KeyOf(x[1]) /\ x[1][2] \in Round
             /\ x[2] = stats[x[1][1]] + CountOf(UpTo(Now, x[1][2]), x[1][1])
        /\ \A t \in Now : \A a \in Addresses : Party(t, a) =>
             /\ a \in {x[1] : x \in found'["CurrentTraitsActiveness"]}
             /\ \E x \in found'[ActiveRecord] : x[1] = <<a, t.block>>
    BY <2>1, ActivenessCollected DEF AInv, ActiveInv
  <2>5. ActiveTyped'
    BY <1>1, <2>2, <2>4 DEF ActiveInv, ActiveTyped
  <2>6. ASSUME BothRun PROVE StatsCount' /\ CurrentCount' /\ ItemsCount' /\ RowsCount'
    <3>1. Counts(stats, Done)
      BY <2>3, <2>6 DEF ActiveInv, StatsCount
    <3>2. StatsCount'
      <4>1. ASSUME NEW a \in Addresses
            PROVE  /\ stats'[a] >= CountOf(Done \cup Now, a)
                   /\ a \notin recounted => stats'[a] = CountOf(Done \cup Now, a)
        <5>1. /\ CountOf(Done \cup Now, a) = CountOf(Done, a) + CountOf(Now, a)
              /\ CountOf(Done, a) \in Nat /\ CountOf(Now, a) \in Nat
          BY CountFacts, DoneAndNow DEF AInv
        <5>2. stats[a] >= CountOf(Done, a) /\ (a \notin recounted => stats[a] = CountOf(Done, a))
          BY <3>1 DEF Counts
        <5>3. stats[a] \in Nat /\ stats'[a] = stats[a] + CountOf(Now, a)
          BY <2>4 DEF ActiveInv, ActiveTyped
        <5> QED
          BY <5>1, <5>2, <5>3
      <4> QED
        BY <1>1, <1>3, <2>2, <2>3, <4>1 DEF StatsCount, Counts
    <3>3. CurrentCount'
      BY <1>1, <1>3, <2>2, <2>3, <2>6 DEF ActiveInv, CurrentCount, Counts
    <3>4. ItemsCount'
      <4>1. ASSUME NEW x \in found'[ActiveRecord], x[1][1] \notin recounted
            PROVE  x[2] = CountOf(UpTo(Done \cup Now, x[1][2]), x[1][1])
        <5> DEFINE a == x[1][1]
                   b == x[1][2]
        <5>1. a \in Addresses /\ b \in Round /\ b \in Nat
          BY <2>4, DoneAndNow DEF KeyOf, AInv
        <5>2. stats[a] = CountOf(Done, a)
          BY <3>1, <4>1, <5>1 DEF Counts
        <5>3. x[2] = stats[a] + CountOf(UpTo(Now, b), a)
          BY <2>4
        <5> HIDE DEF a, b
        <5>4. /\ UpTo(Done \cup Now, b) = Done \cup UpTo(Now, b)
              /\ UpTo(Now, b) \in SUBSET Transactions /\ Done \cap UpTo(Now, b) = {}
          BY <5>1, UpToFacts DEF AInv
        <5>5. CountOf(Done \cup UpTo(Now, b), a) = CountOf(Done, a) + CountOf(UpTo(Now, b), a)
          BY <5>4, CountFacts, DoneAndNow DEF AInv
        <5>6. x[2] = CountOf(UpTo(Done \cup Now, b), a)
          BY <5>2, <5>3, <5>4, <5>5
        <5> QED
          BY <5>6 DEF a, b
      <4> QED
        BY <1>1, <1>3, <2>2, <2>4, <4>1 DEF ItemsCount, Counted
    <3>5. RowsCount'
      BY <1>1, <1>3, <2>2, <2>3, <2>6 DEF ActiveInv, RowsCount
    <3> QED
      BY <3>2, <3>3, <3>4, <3>5
  <2> QED
    BY <1>3, <2>5, <2>6 DEF ActiveInv
<1>6. CASE stage = ActiveRecord
  <2>1. CommitActiveness
    BY <1>6, StageTells
  <2>2. /\ UNCHANGED <<stats, current>> /\ found'[ActiveRecord] = found[ActiveRecord] /\ Now' = Now
        /\ found'["CurrentTraitsActiveness"] = found["CurrentTraitsActiveness"]
    BY <1>4, <1>6, WhatIsKept DEF ActiveRecord
  <2>3. Passed("activeness")
    BY <1>2, <1>6
  <2>4. /\ \A k \in DOMAIN activeness' : KeyOf(k)
        /\ \A k \in DOMAIN activeness' :
             (k \in DOMAIN activeness /\ activeness'[k] = activeness[k]) \/ k[2] \in Round
        /\ \A x \in found[ActiveRecord] :
             \E z \in found[ActiveRecord] : z[1] = x[1] /\ activeness'[x[1]] = z[2]
    BY <2>1, ActivenessCommitted DEF ActiveInv
  <2>5. ActiveTyped'
    BY <1>1, <2>2, <2>4 DEF ActiveInv, ActiveTyped
  <2>6. ASSUME BothRun PROVE StatsCount' /\ CurrentCount' /\ ItemsCount' /\ RowsCount'
    <3>1. StatsCount'
      BY <1>1, <1>3, <2>2, <2>3, <2>6 DEF ActiveInv, StatsCount, Counts
    <3>2. CurrentCount'
      BY <1>1, <1>3, <1>6, <2>2, <2>6 DEF ActiveInv, CurrentCount, Counts, ActiveRecord
    <3>3. ItemsCount'
      BY <1>1, <1>3, <2>2, <2>3, <2>6 DEF ActiveInv, ItemsCount, Counted
    <3>4. \A x \in found[ActiveRecord] : x[1][1] \notin recounted =>
            activeness'[x[1]] = CountOf(UpTo(Done \cup Now, x[1][2]), x[1][1])
      BY <2>3, <2>4, <2>6 DEF ActiveInv, ItemsCount
    <3>5. ASSUME NEW k \in DOMAIN activeness', k[1] \notin recounted, k[2] <= synced,
                 BlockRow(k[2]) \notin unanswered
          PROVE  activeness'[k] = CountOf(UpTo(Done, k[2]), k[1])
      <4>1. k[2] \notin Round
        BY <3>5, DoneAndNow DEF AInv
      <4> QED
        BY <2>4, <2>6, <3>5, <4>1 DEF ActiveInv, RowsCount
    <3>6. RowsCount'
      BY <1>1, <1>3, <2>2, <3>4, <3>5 DEF RowsCount
    <3> QED
      BY <3>1, <3>2, <3>3, <3>6
  <2> QED
    BY <1>3, <2>5, <2>6 DEF ActiveInv
<1>7. CASE stage = "CurrentTraitsActiveness"
  <2>1. CommitCurrent
    BY <1>7, StageTells
  <2>2. /\ UNCHANGED <<stats, activeness>> /\ found'[ActiveRecord] = found[ActiveRecord] /\ Now' = Now
        /\ found'["CurrentTraitsActiveness"] = found["CurrentTraitsActiveness"]
    BY <1>4, <1>7, WhatIsKept DEF ActiveRecord
  <2>3. Passed("activeness") /\ ~Passed("CurrentTraitsActiveness") /\ Passed("CurrentTraitsActiveness")'
    BY <1>1, <1>2, <1>7
  <2>4. /\ current' \in [Addresses -> Nat]
        /\ \A a \in Counted : current'[a] = stats[a]
        /\ \A a \in Addresses \ Counted : current'[a] = current[a]
    BY <2>1, CurrentCommitted DEF ActiveInv
  <2>5. ActiveTyped'
    BY <1>1, <2>2, <2>4 DEF ActiveInv, ActiveTyped
  <2>6. ASSUME BothRun PROVE StatsCount' /\ CurrentCount' /\ ItemsCount' /\ RowsCount'
    <3>1. StatsCount'
      BY <1>1, <1>3, <2>2, <2>3, <2>6 DEF ActiveInv, StatsCount, Counts
    <3>2. ItemsCount'
      BY <1>1, <1>3, <2>2, <2>3, <2>6 DEF ActiveInv, ItemsCount, Counted
    <3>3. RowsCount'
      BY <1>1, <1>3, <1>7, <2>2, <2>6 DEF ActiveInv, RowsCount, ActiveRecord
    <3>4. Counts(stats, Done \cup Now) /\ Counts(current, Done)
      BY <2>3, <2>6 DEF ActiveInv, StatsCount, CurrentCount
    <3>5. ASSUME NEW a \in Addresses
          PROVE  /\ current'[a] >= CountOf(Done \cup Now, a)
                 /\ a \notin recounted => current'[a] = CountOf(Done \cup Now, a)
      <4>1. CASE a \in Counted
        BY <2>4, <3>4, <4>1 DEF Counts
      <4>2. CASE a \notin Counted
        <5>1. \A t \in Now : ~Party(t, a)
          BY <2>3, <2>6, <4>2 DEF ActiveInv, ItemsCount
        <5>2. CountOf(Done \cup Now, a) = CountOf(Done, a)
          BY <5>1, CountsWithout DEF AInv
        <5> QED
          BY <2>4, <3>4, <4>2, <5>2 DEF Counts
      <4> QED
        BY <4>1, <4>2
    <3>6. CurrentCount'
      BY <1>1, <1>3, <2>2, <2>3, <3>5 DEF CurrentCount, Counts
    <3> QED
      BY <3>1, <3>2, <3>3, <3>6
  <2> QED
    BY <1>3, <2>5, <2>6 DEF ActiveInv
<1>8. CASE stage \notin {"activeness", ActiveRecord, "CurrentTraitsActiveness"}
  <2>1. /\ UNCHANGED <<stats, activeness, current>> /\ found'[ActiveRecord] = found[ActiveRecord]
        /\ found'["CurrentTraitsActiveness"] = found["CurrentTraitsActiveness"]
    BY <1>8, WhatIsKept
  <2>2. ActiveTyped'
    BY <1>1, <2>1 DEF ActiveInv, ActiveTyped
  <2>3. /\ Passed("activeness")' <=> Passed("activeness")
        /\ Passed(ActiveRecord)' <=> Passed(ActiveRecord)
        /\ Passed("CurrentTraitsActiveness")' <=> Passed("CurrentTraitsActiveness")
    BY <1>1, <1>8
  <2>4. Passed("activeness") => Now' = Now
    BY <1>2, <1>4
  <2>5. ASSUME BothRun PROVE StatsCount' /\ CurrentCount' /\ ItemsCount' /\ RowsCount'
    <3>1. StatsCount'
      BY <1>1, <1>3, <2>1, <2>3, <2>4, <2>5 DEF ActiveInv, StatsCount, Counts
    <3>2. CurrentCount'
      BY <1>1, <1>2, <1>3, <2>1, <2>3, <2>4, <2>5 DEF ActiveInv, CurrentCount, Counts
    <3>3. ItemsCount'
      BY <1>1, <1>3, <2>1, <2>3, <2>4, <2>5 DEF ActiveInv, ItemsCount, Counted
    <3>4. RowsCount'
      BY <1>1, <1>2, <1>3, <2>1, <2>3, <2>4, <2>5 DEF ActiveInv, RowsCount
    <3> QED
      BY <3>1, <3>2, <3>3, <3>4
  <2> QED
    BY <1>3, <2>2, <2>5 DEF ActiveInv
<1> QED
  BY <1>5, <1>6, <1>7, <1>8

(* A round that is dropped: whom it did not count has no transaction in it.*)
LEMMA DropsCounts ==
  ASSUME IInv, ActiveTyped, ItemsCount, Passed("activeness"), NEW f, NEW R,
         Counts(f, Done \cup Now), f \in [Addresses -> Nat], recounted \cup Counted \subseteq R
  PROVE  \A a \in Addresses : f[a] >= CountOf(Done, a) /\ (a \notin R => f[a] = CountOf(Done, a))
<1> SUFFICES ASSUME NEW a \in Addresses
             PROVE  f[a] >= CountOf(Done, a) /\ (a \notin R => f[a] = CountOf(Done, a))
  OBVIOUS
<1>1. /\ f[a] >= CountOf(Done \cup Now, a) /\ f[a] \in Nat
      /\ a \notin recounted => f[a] = CountOf(Done \cup Now, a)
  BY DEF Counts
<1>2. /\ CountOf(Done, a) \in Nat /\ CountOf(Done \cup Now, a) \in Nat
      /\ CountOf(Done, a) <= CountOf(Done \cup Now, a)
  <2>1. Done \in SUBSET Transactions /\ Now \in SUBSET Transactions /\ Done \cup Now \in SUBSET Transactions
    BY DoneAndNow
  <2>2. CountOf(Done, a) \in Nat /\ CountOf(Done, a) <= CountOf(Done \cup Now, a)
    BY <2>1, CountFacts
  <2>3. CountOf(Done \cup Now, a) \in Nat
    BY <2>1, CountFacts
  <2> QED
    BY <2>2, <2>3
<1>3. ASSUME a \notin R PROVE CountOf(Done \cup Now, a) = CountOf(Done, a)
  <2>1. \A t \in Now : ~Party(t, a)
    BY <1>3 DEF ItemsCount
  <2> QED
    BY <2>1, CountsWithout
<1> QED
  BY <1>1, <1>2, <1>3

(* The end of a round keeps the counts of the addresses.                    *)
LEMMA ActiveEnd ==
  ASSUME AInv, FoundInv, ActiveInv, Closing
  PROVE  ActiveInv'
<1>1. /\ UNCHANGED <<activeness, current>>
      /\ \A s : ~Passed(s)'
      /\ (BothRun' <=> BothRun)
      /\ found'["CurrentTraitsActiveness"] = {} /\ found'[ActiveRecord] = {}
      /\ \/ Record /\ FeaturesRecord
         \/ Dropped /\ UNCHANGED <<synced, unanswered>>
         \/ FeaturesRestart /\ UNCHANGED <<synced, unanswered>>
  BY WhatEnds DEF AInv, FeatureTypes, tables, BothRun
<1>2. /\ Passed(ActiveRecord) => Passed("activeness")
      /\ Passed("CurrentTraitsActiveness") => Passed("activeness")
      /\ BothRun => Runs("activeness")
  <2>1. /\ <<"activeness", ActiveRecord>> \in Needs
        /\ <<"activeness", "CurrentTraitsActiveness">> \in Needs
    BY DEF Needs
  <2> QED
    BY <2>1, NeededBefore DEF AInv, BothRun
<1>3. ItemsCount'
  BY <1>1 DEF ItemsCount
<1>4. CASE Record /\ FeaturesRecord
  <2>1. UNCHANGED <<stats, recounted>> /\ stage = "record"
    BY <1>4 DEF FeaturesRecord, caches, Record
  <2>2. ActiveTyped'
    BY <1>1, <2>1 DEF ActiveInv, ActiveTyped
  <2>3. ASSUME BothRun PROVE StatsCount' /\ CurrentCount' /\ RowsCount'
    <3>1. Passed("activeness") /\ Passed(ActiveRecord) /\ Passed("CurrentTraitsActiveness")
      BY <1>2, <2>1, <2>3, AllPassed DEF AInv, BothRun, ActiveRecord
    <3>2. mission \notin Filtered
      BY <1>2, <2>3, MissionAsks DEF AInv
    <3>3. /\ Done' = Done \cup Now
          /\ \A t \in Transactions :
               t.block \in Round /\ BlockRow(t.block) \notin missed => t \in Now
      BY <1>4, <3>2, RecordedTransactions
    <3>4. StatsCount' /\ CurrentCount'
      BY <1>1, <2>1, <2>3, <3>1, <3>3 DEF ActiveInv, StatsCount, CurrentCount, Counts
    <3>5. ASSUME NEW k \in DOMAIN activeness, k[1] \notin recounted, k[2] <= synced',
                 BlockRow(k[2]) \notin unanswered'
          PROVE  activeness[k] = CountOf(UpTo(Done', k[2]), k[1])
      <4>1. /\ synced' = RoundEnd /\ unanswered' = unanswered \cup missed
        BY <1>4 DEF Record
      <4>2. PICK t \in Transactions : t.block = k[2] /\ Party(t, k[1])
        BY DEF ActiveInv, ActiveTyped, KeyOf
      <4>3. k[2] \in Nat /\ k[1] \in Addresses /\ k = <<k[1], k[2]>> /\ synced \in Nat
        BY <4>2, DoneAndNow DEF ActiveInv, ActiveTyped, KeyOf, AInv
      <4>4. CASE k[2] <= synced
        <5>1. activeness[k] = CountOf(UpTo(Done, k[2]), k[1])
          BY <2>3, <3>5, <4>1, <4>4 DEF ActiveInv, RowsCount
        <5> QED
          BY <3>3, <4>3, <4>4, <5>1, UpToFacts DEF AInv
      <4>5. CASE ~(k[2] <= synced)
        <5>1. k[2] \in Round
          <6>1. RoundEnd \in Nat
            BY <4>3, ChainAssumption DEF RoundEnd
          <6> QED
            BY <3>5, <4>1, <4>3, <4>5, <6>1 DEF Round
        <5>2. t \in Now
          BY <3>3, <3>5, <4>1, <4>2, <5>1
        <5>3. PICK x \in found[ActiveRecord] : x[1] = <<k[1], k[2]>>
          BY <2>3, <3>1, <4>2, <4>3, <5>2 DEF ActiveInv, ItemsCount
        <5>4. x[1] = k
          BY <4>3, <5>3
        <5>5. activeness[k] = CountOf(UpTo(Done \cup Now, k[2]), k[1])
          BY <2>3, <3>1, <3>5, <5>4 DEF ActiveInv, RowsCount
        <5> QED
          BY <3>3, <5>5
      <4> QED
        BY <4>4, <4>5
    <3>6. RowsCount'
      BY <1>1, <2>1, <3>5 DEF RowsCount
    <3> QED
      BY <3>4, <3>6
  <2> QED
    BY <1>1, <1>3, <2>2, <2>3 DEF ActiveInv
<1>5. CASE (Dropped \/ FeaturesRestart) /\ UNCHANGED <<synced, unanswered>>
  <2>1. Done' = Done
    BY <1>5 DEF Done
  <2>2. /\ recounted \subseteq recounted'
        /\ recounted' = recounted \/ recounted' = recounted \cup Counted
        /\ Passed("CurrentTraitsActiveness") => recounted' = recounted \cup Counted
        /\ stats' = current \/ (stats' = stats /\ recounted' = recounted \cup Counted)
    BY <1>5 DEF Dropped, FeaturesRestart, Reloaded, caches
  <2>3. ActiveTyped'
    <3>1. Counted \subseteq Addresses
      BY DEF ActiveInv, ActiveTyped, Counted
    <3> QED
      BY <1>1, <2>2, <3>1 DEF ActiveInv, ActiveTyped
  <2>4. ASSUME BothRun PROVE StatsCount' /\ CurrentCount' /\ RowsCount'
    <3>1. current \in [Addresses -> Nat] /\ stats \in [Addresses -> Nat]
      BY DEF ActiveInv, ActiveTyped
    <3>2. \A a \in Addresses : /\ current[a] >= CountOf(Done, a)
                               /\ a \notin recounted' => current[a] = CountOf(Done, a)
      <4>1. CASE Passed("CurrentTraitsActiveness")
        <5>1. Counts(current, Done \cup Now) /\ ItemsCount /\ ActiveTyped
          BY <2>4, <4>1 DEF ActiveInv, CurrentCount
        <5>2. recounted \cup Counted \subseteq recounted'
          BY <2>2, <4>1
        <5> QED
          BY <1>2, <3>1, <4>1, <5>1, <5>2, DropsCounts DEF AInv
      <4>2. CASE ~Passed("CurrentTraitsActiveness")
        BY <2>2, <2>4, <4>2 DEF ActiveInv, CurrentCount, Counts
      <4> QED
        BY <4>1, <4>2
    <3>3. CurrentCount'
      BY <1>1, <2>1, <3>2 DEF CurrentCount, Counts
    <3>4. \A a \in Addresses : /\ stats'[a] >= CountOf(Done, a)
                               /\ a \notin recounted' => stats'[a] = CountOf(Done, a)
      <4>1. CASE stats' = current
        BY <3>2, <4>1
      <4>2. CASE stats' = stats /\ recounted' = recounted \cup Counted
        <5>1. CASE Passed("activeness")
          <6>1. Counts(stats, Done \cup Now) /\ ItemsCount /\ ActiveTyped
            BY <2>4, <5>1 DEF ActiveInv, StatsCount
          <6>2. \A a \in Addresses : /\ stats[a] >= CountOf(Done, a)
                                     /\ a \notin recounted' => stats[a] = CountOf(Done, a)
            BY <3>1, <4>2, <5>1, <6>1, DropsCounts DEF AInv
          <6> QED
            BY <4>2, <6>2
        <5>2. CASE ~Passed("activeness")
          BY <2>2, <2>4, <4>2, <5>2 DEF ActiveInv, StatsCount, Counts
        <5> QED
          BY <5>1, <5>2
      <4> QED
        BY <2>2, <4>1, <4>2
    <3>5. StatsCount'
      BY <1>1, <2>1, <3>4 DEF StatsCount, Counts
    <3>6. RowsCount'
      BY <1>1, <1>5, <2>1, <2>2, <2>4 DEF ActiveInv, RowsCount
    <3> QED
      BY <3>3, <3>5, <3>6
  <2> QED
    BY <1>1, <1>3, <2>3, <2>4 DEF ActiveInv
<1> QED
  BY <1>1, <1>4, <1>5

(* Every step keeps the counts of the addresses.                            *)
LEMMA KeepsCounts == AInv /\ FoundInv /\ ActiveInv /\ [Next]_vars => ActiveInv'
<1> SUFFICES ASSUME AInv, FoundInv, ActiveInv, [Next]_vars PROVE ActiveInv'
  OBVIOUS
<1>1. CASE OnGoing
  BY <1>1, ActiveGoOn
<1>2. CASE Closing
  BY <1>2, ActiveEnd
<1>3. CASE UNCHANGED vars
  <2>1. /\ UNCHANGED <<found, stats, activeness, current, recounted>>
        /\ UNCHANGED <<mission, synced, stage, buff, unanswered, Plan, Round>>
        /\ \A s : (Passed(s)' <=> Passed(s)) /\ (Runs(s)' <=> Runs(s))
    BY <1>3 DEF vars, chainVars, featureVars, caches, tables, Passed, Runs, Position, Plan, Round, RoundEnd
  <2>2. Done' = Done /\ Now' = Now /\ (BothRun' <=> BothRun) /\ Counted' = Counted
    BY <2>1 DEF Done, Now, InBuffer, BothRun, Counted
  <2>3. ActiveTyped'
    BY <2>1 DEF ActiveInv, ActiveTyped
  <2>4. BothRun => StatsCount' /\ CurrentCount' /\ ItemsCount' /\ RowsCount'
    BY <2>1, <2>2 DEF ActiveInv, StatsCount, CurrentCount, ItemsCount, RowsCount, Counts
  <2> QED
    BY <2>2, <2>3, <2>4 DEF ActiveInv
<1> QED
  BY <1>1, <1>2, <1>3, NextIs

(* The invariant of the activeness.                                         *)
LEMMA CountsAreKept == Spec => []ActiveInv
<1>1. Init => ActiveInv
  <2> SUFFICES ASSUME Init PROVE ActiveInv
    OBVIOUS
  <2>1. /\ found[ActiveRecord] = {} /\ found["CurrentTraitsActiveness"] = {}
        /\ stats = [a \in Addresses |-> 0] /\ current = [a \in Addresses |-> 0]
        /\ activeness = [x \in {} |-> 0] /\ recounted = {}
    BY DEF Init, FeatureInit, Nothing, FeatureTypes
  <2>2. Begun /\ synced = StartBlock - 1
    BY ChainAssumption DEF Init, ChainInit, Begun
  <2>3. \A s : ~Passed(s)
    BY <2>2, FirstStage DEF Begun
  <2>4. Done = {}
    BY <2>2, ChainAssumption DEF Done, Blocks
  <2>5. \A a : CountOf(Done, a) = 0
    BY <2>4, FS_EmptySet DEF CountOf
  <2>6. Counts(stats, Done) /\ Counts(current, Done)
    BY <2>1, <2>5 DEF Counts
  <2>7. ActiveTyped
    BY <2>1 DEF ActiveTyped
  <2>8. StatsCount /\ CurrentCount /\ ItemsCount /\ RowsCount
    BY <2>1, <2>3, <2>6 DEF StatsCount, CurrentCount, ItemsCount, RowsCount
  <2> QED
    BY <2>7, <2>8 DEF ActiveInv
<1> QED
  BY <1>1, KeepsCounts, AnswersAreKept, FoundIs, PTL DEF Spec

(* No transaction of an address is left out of its count, and none counts  *)
(* twice but for those of a round that failed after it had counted them.   *)
THEOREM CountsAreExact == Spec => []ActivenessExact
<1>1. AInv /\ ActiveInv => ActivenessExact
  <2> SUFFICES ASSUME AInv, ActiveInv, BothRun
               PROVE  /\ \A a \in Addresses :
                           /\ current[a] >= CountOf(Done, a)
                           /\ a \notin recounted /\ ~Passed("CurrentTraitsActiveness")
                                => current[a] = CountOf(Done, a)
                      /\ \A k \in DOMAIN activeness :
                           (k[1] \notin recounted /\ k[2] <= synced /\ BlockRow(k[2]) \notin unanswered)
                             => activeness[k] = CountOf(UpTo(Done, k[2]), k[1])
    BY DEF ActivenessExact, BothRun, Done
  <2>1. ASSUME NEW a \in Addresses
        PROVE  /\ current[a] >= CountOf(Done, a)
               /\ a \notin recounted /\ ~Passed("CurrentTraitsActiveness")
                    => current[a] = CountOf(Done, a)
    <3>1. CASE ~Passed("CurrentTraitsActiveness")
      BY <3>1 DEF ActiveInv, CurrentCount, Counts
    <3>2. CASE Passed("CurrentTraitsActiveness")
      <4>1. current[a] >= CountOf(Done \cup Now, a) /\ current[a] \in Nat
        BY <3>2 DEF ActiveInv, ActiveTyped, CurrentCount, Counts
      <4>2. Done \in SUBSET Transactions /\ Now \in SUBSET Transactions /\ Done \cup Now \in SUBSET Transactions
        BY DoneAndNow DEF AInv
      <4>3. CountOf(Done, a) \in Nat /\ CountOf(Done, a) <= CountOf(Done \cup Now, a)
        BY <4>2, CountFacts
      <4>4. CountOf(Done \cup Now, a) \in Nat
        BY <4>2, CountFacts
      <4> QED
        BY <3>2, <4>1, <4>3, <4>4
    <3> QED
      BY <3>1, <3>2
  <2> QED
    BY <2>1 DEF ActiveInv, RowsCount
<1> QED
  BY <1>1, CountsAreKept, AnswersAreKept, PTL

(***************************************************************************)
(* The operations.                                                         *)
(***************************************************************************)

Events     == {l \in BundleLogs : IsEvent(l)}
EventSet(u) == {l \in LogSet(u) : IsEvent(l)}
AllResults == UNION {ResultsOf(u) : u \in {v \in Bundles : Matches(v)}}

(* A row for each result of the bundles that match, by its hash.           *)
HasRows(L) ==
  \A l \in L : \A u \in Bundles : l.block = u.block /\ l.tx = u.tx /\ Matches(u) =>
    \A r \in ResultsOf(u) : \E s \in operations : s.op = r.op

OperationsInv ==
  /\ operations \subseteq AllResults /\ found["UserOperationsResult"] \subseteq AllResults
  /\ Passed("user_ops") =>
       \A l \in Received(Events) : \A u \in Bundles :
         l.block = u.block /\ l.tx = u.tx /\ Matches(u) =>
           ResultsOf(u) \subseteq found["UserOperationsResult"]
  /\ Passed("UserOperationsResult") =>
       \A r \in found["UserOperationsResult"] : \E s \in operations : s.op = r.op
  /\ Runs("UserOperationsResult") => HasRows(Recorded(Events))

(* The logs of a bundle, and its events, in their order.                   *)
LEMMA BundleFacts ==
  ASSUME NEW u \in Bundles
  PROVE  /\ DOMAIN u.ops = 1..Len(u.ops) /\ Len(u.ops) \in Nat
         /\ \A L \in {LogSet(u), EventSet(u)} :
              IsFiniteSet(L) /\ (\A l \in L : l.at \in Nat) /\ \A l, m \in L : l.at = m.at => l = m
         /\ Len(LogsOf(u)) = Cardinality(LogSet(u)) /\ DOMAIN LogsOf(u) = 1..Cardinality(LogSet(u))
         /\ Len(EventsOf(u)) = Cardinality(EventSet(u))
         /\ Cardinality(LogSet(u)) \in Nat /\ Cardinality(EventSet(u)) \in Nat
         /\ \A i \in 1..Cardinality(LogSet(u)) :
              LogsOf(u)[i] \in LogSet(u) /\ Rank(LogsOf(u)[i], LogSet(u)) = i - 1
         /\ \A i \in 1..Cardinality(EventSet(u)) :
              EventsOf(u)[i] \in EventSet(u) /\ Rank(EventsOf(u)[i], EventSet(u)) = i - 1
<1>1. u.ops \in Seq(Nat)
  BY FeaturesAssumption
<1>2. LogSet(u) \subseteq BundleLogs /\ EventSet(u) \subseteq BundleLogs
  BY DEF LogSet, EventSet
<1>3. IsFiniteSet(LogSet(u)) /\ IsFiniteSet(EventSet(u))
  BY <1>2, LogsAssumption, FS_Subset DEF Placed
<1>4. \A l \in BundleLogs : l.at \in Nat
  BY LogsAt DEF At
<1>5. \A l, m \in LogSet(u) : l.at = m.at => l = m
  BY LogsAssumption DEF Placed, LogSet
<1>6. \A l, m \in EventSet(u) : l.at = m.at => l = m
  BY <1>5 DEF EventSet
<1>7. LogsOf(u) = InOrder(LogSet(u)) /\ EventsOf(u) = InOrder(EventSet(u))
  BY DEF LogsOf, EventsOf, EventSet
<1>8. /\ Len(LogsOf(u)) = Cardinality(LogSet(u)) /\ DOMAIN LogsOf(u) = 1..Cardinality(LogSet(u))
      /\ Cardinality(LogSet(u)) \in Nat
      /\ \A i \in 1..Cardinality(LogSet(u)) :
           LogsOf(u)[i] \in LogSet(u) /\ Rank(LogsOf(u)[i], LogSet(u)) = i - 1
  BY <1>2, <1>3, <1>4, <1>5, <1>7, InOrderFacts
<1>9. /\ Len(EventsOf(u)) = Cardinality(EventSet(u)) /\ Cardinality(EventSet(u)) \in Nat
      /\ \A i \in 1..Cardinality(EventSet(u)) :
           EventsOf(u)[i] \in EventSet(u) /\ Rank(EventsOf(u)[i], EventSet(u)) = i - 1
  BY <1>2, <1>3, <1>4, <1>6, <1>7, InOrderFacts
<1> QED
  BY <1>1, <1>2, <1>3, <1>4, <1>5, <1>6, <1>8, <1>9

(* The logs of a bundle come in the order of their places.                 *)
LEMMA LogsRise ==
  ASSUME NEW u \in Bundles, NEW i \in 1..Len(LogsOf(u)), NEW j \in 1..Len(LogsOf(u)), i <= j
  PROVE  LogsOf(u)[i].at <= LogsOf(u)[j].at
<1> DEFINE A == LogSet(u)
           l == LogsOf(u)[i]
           m == LogsOf(u)[j]
<1>1. l \in A /\ m \in A /\ Rank(l, A) = i - 1 /\ Rank(m, A) = j - 1
  BY BundleFacts
<1>2. m.at < l.at <=> Rank(m, A) < Rank(l, A)
  <2>1. IsFiniteSet(A) /\ (\A k \in A : k.at \in Nat) /\ \A k, n \in A : k.at = n.at => k = n
    BY BundleFacts
  <2> HIDE DEF A, l, m
  <2> QED
    BY <1>1, <2>1, InOrderFacts
<1>3. l.at \in Nat /\ m.at \in Nat
  BY <1>1, BundleFacts
<1>4. i \in Nat /\ j \in Nat
  BY BundleFacts
<1> HIDE DEF l, m, A
<1>5. ~(m.at < l.at)
  BY <1>1, <1>2, <1>4
<1> QED
  BY <1>3, <1>5 DEF l, m

(* A result of a bundle: its event, and the two logs it is given.          *)
LEMMA ResultFacts ==
  ASSUME NEW u \in Bundles, Matches(u), NEW r \in ResultsOf(u)
  PROVE  \E i \in DOMAIN u.ops :
           /\ i \in Nat /\ 1 <= i /\ i + 1 \in 1..Len(LogsOf(u)) /\ i \in 1..Len(LogsOf(u))
           /\ EventsOf(u)[i] \in EventSet(u) /\ Rank(EventsOf(u)[i], EventSet(u)) = i - 1
           /\ u.ops[i] = EventsOf(u)[i].op
           /\ r = [block |-> u.block, tx |-> u.tx, op |-> EventsOf(u)[i].op, input |-> u.ops[i],
                   start |-> LogsOf(u)[i].at, end |-> LogsOf(u)[i + 1].at]
<1>1. PICK i \in DOMAIN u.ops :
        /\ i < Len(LogsOf(u))
        /\ r = [block |-> u.block, tx |-> u.tx, op |-> EventsOf(u)[i].op, input |-> u.ops[i],
                start |-> LogsOf(u)[i].at, end |-> LogsOf(u)[i + 1].at]
  BY DEF ResultsOf
<1>2. i \in 1..Len(u.ops) /\ Len(u.ops) \in Nat /\ Len(u.ops) = Len(EventsOf(u)) /\ Len(LogsOf(u)) \in Nat
  BY BundleFacts DEF Matches
<1>3. EventsOf(u)[i] \in EventSet(u) /\ Rank(EventsOf(u)[i], EventSet(u)) = i - 1
  BY <1>2, BundleFacts
<1>4. u.ops[i] = EventsOf(u)[i].op
  BY <1>1 DEF Matches
<1>5. i \in Nat /\ 1 <= i /\ i + 1 \in 1..Len(LogsOf(u)) /\ i \in 1..Len(LogsOf(u))
  BY <1>1, <1>2
<1> QED
  BY <1>1, <1>3, <1>4, <1>5

(* Two results of one operation are one, and those of two operations of a  *)
(* transaction do not overlap.                                             *)
LEMMA ResultsApart ==
  ASSUME NEW r \in AllResults, NEW s \in AllResults
  PROVE  /\ r.op = s.op => r = s
         /\ r.input = r.op /\ r.start <= r.end
         /\ r # s /\ r.block = s.block /\ r.tx = s.tx => r.end <= s.start \/ s.end <= r.start
<1>1. PICK u \in Bundles : Matches(u) /\ r \in ResultsOf(u)
  BY DEF AllResults
<1>2. PICK v \in Bundles : Matches(v) /\ s \in ResultsOf(v)
  BY DEF AllResults
<1>3. PICK i \in DOMAIN u.ops :
           /\ i \in Nat /\ 1 <= i /\ i + 1 \in 1..Len(LogsOf(u)) /\ i \in 1..Len(LogsOf(u))
           /\ EventsOf(u)[i] \in EventSet(u) /\ Rank(EventsOf(u)[i], EventSet(u)) = i - 1
           /\ u.ops[i] = EventsOf(u)[i].op
           /\ r = [block |-> u.block, tx |-> u.tx, op |-> EventsOf(u)[i].op, input |-> u.ops[i],
                   start |-> LogsOf(u)[i].at, end |-> LogsOf(u)[i + 1].at]
  BY <1>1, ResultFacts
<1>4. PICK j \in DOMAIN v.ops :
           /\ j \in Nat /\ 1 <= j /\ j + 1 \in 1..Len(LogsOf(v)) /\ j \in 1..Len(LogsOf(v))
           /\ EventsOf(v)[j] \in EventSet(v) /\ Rank(EventsOf(v)[j], EventSet(v)) = j - 1
           /\ v.ops[j] = EventsOf(v)[j].op
           /\ s = [block |-> v.block, tx |-> v.tx, op |-> EventsOf(v)[j].op, input |-> v.ops[j],
                   start |-> LogsOf(v)[j].at, end |-> LogsOf(v)[j + 1].at]
  BY <1>2, ResultFacts
<1>5. ASSUME r.op = s.op PROVE r = s
  <2> DEFINE l == EventsOf(u)[i]
             m == EventsOf(v)[j]
  <2>1. /\ l \in BundleLogs /\ IsEvent(l) /\ l.block = u.block /\ l.tx = u.tx
        /\ m \in BundleLogs /\ IsEvent(m) /\ m.block = v.block /\ m.tx = v.tx
    BY <1>3, <1>4 DEF EventSet, LogSet
  <2>2. l.op = m.op
    BY <1>3, <1>4, <1>5
  <2> HIDE DEF l, m
  <2>3. l = m
    BY <2>1, <2>2, LogsAssumption
  <2>4. u = v
    BY <2>1, <2>3, LogsAssumption
  <2>5. i = j
    BY <1>3, <1>4, <2>3, <2>4 DEF l, m
  <2> QED
    BY <1>3, <1>4, <2>4, <2>5
<1>6. r.input = r.op
  BY <1>3
<1>7. r.start <= r.end
  BY <1>3, LogsRise
<1>8. ASSUME r # s, r.block = s.block, r.tx = s.tx PROVE r.end <= s.start \/ s.end <= r.start
  <2>1. u = v
    <3>1. u.block = v.block /\ u.tx = v.tx
      BY <1>3, <1>4, <1>8
    <3> QED
      BY <3>1, LogsAssumption
  <2>2. i # j
    BY <1>3, <1>4, <1>8, <2>1
  <2>3. i + 1 <= j \/ j + 1 <= i
    BY <1>3, <1>4, <2>2
  <2>4. CASE i + 1 <= j
    <3>1. LogsOf(u)[i + 1].at <= LogsOf(u)[j].at
      BY <1>3, <1>4, <2>1, <2>4, LogsRise
    <3> QED
      BY <1>3, <1>4, <2>1, <3>1
  <2>5. CASE j + 1 <= i
    <3>1. LogsOf(u)[j + 1].at <= LogsOf(u)[i].at
      BY <1>3, <1>4, <2>1, <2>5, LogsRise
    <3> QED
      BY <1>3, <1>4, <2>1, <3>1
  <2> QED
    BY <2>3, <2>4, <2>5
<1> QED
  BY <1>5, <1>6, <1>7, <1>8

(* A regular bundle matches, and each of its events has its result.        *)
LEMMA RegularFacts ==
  ASSUME NEW u \in Bundles, Regular(u)
  PROVE  /\ Matches(u)
         /\ \A l \in EventSet(u) : \E r \in ResultsOf(u) :
              r.op = l.op /\ r.end = l.at /\ r.tx = u.tx /\ r.block = u.block
<1> DEFINE A == LogSet(u)
           E == EventSet(u)
           n == Len(u.ops)
           first == LogsOf(u)[1]
<1>1. /\ n \in Nat /\ DOMAIN u.ops = 1..n
      /\ Cardinality(A) = n + 1 /\ Len(LogsOf(u)) = n + 1 /\ DOMAIN LogsOf(u) = 1..n + 1
      /\ IsFiniteSet(A) /\ (\A l \in A : l.at \in Nat) /\ \A l, m \in A : l.at = m.at => l = m
  BY BundleFacts DEF Regular
<1>2. \A i \in 1..n + 1 : LogsOf(u)[i] \in A /\ Rank(LogsOf(u)[i], A) = i - 1
  BY <1>1, BundleFacts
<1>3. \A l \in A : Rank(l, A) + 1 \in 1..n + 1 /\ LogsOf(u)[Rank(l, A) + 1] = l
  BY <1>1, InOrderFacts DEF LogsOf
<1>4. \A l, m \in A : l.at < m.at <=> Rank(l, A) < Rank(m, A)
  BY <1>1, InOrderFacts
<1>5. first \in A /\ ~IsEvent(first) /\ Rank(first, A) = 0
  BY <1>1, <1>2 DEF Regular, IsEvent
<1>6. \A i \in 1..n : /\ i + 1 \in 1..n + 1
                      /\ IsEvent(LogsOf(u)[i + 1]) /\ LogsOf(u)[i + 1].op = u.ops[i]
  BY <1>1 DEF Regular, IsEvent
<1>7. \A l \in A : Rank(l, A) \in Nat
  BY <1>1, FS_Subset, FS_CardinalityType DEF Rank
<1>8. ASSUME NEW l \in A, l # first PROVE l \in E /\ Rank(l, A) \in 1..n
  <2>1. Rank(l, A) # 0
    BY <1>3, <1>8
  <2>2. Rank(l, A) \in 1..n
    BY <1>1, <1>3, <1>7, <2>1
  <2>3. IsEvent(l)
    BY <1>3, <1>6, <2>2
  <2> QED
    BY <2>2, <2>3 DEF EventSet
<1>9. E = A \ {first}
  BY <1>5, <1>8 DEF EventSet
<1>10. Cardinality(E) = n
  <2>1. Cardinality(A \ {first}) = Cardinality(A) - 1
    BY <1>1, <1>5, FS_RemoveElement
  <2> QED
    BY <1>1, <1>9, <2>1
<1>11. ASSUME NEW l \in E PROVE Rank(l, E) = Rank(l, A) - 1
  <2> DEFINE below == {m \in A : m.at < l.at}
  <2>1. l \in A /\ l # first
    BY <1>9
  <2>2. first.at < l.at
    BY <1>4, <1>5, <1>8, <2>1
  <2>3. {m \in E : m.at < l.at} = below \ {first}
    BY <1>9
  <2>4. IsFiniteSet(below) /\ first \in below
    BY <1>1, <1>5, <2>2, FS_Subset
  <2> HIDE DEF below
  <2>5. Cardinality(below \ {first}) = Cardinality(below) - 1
    BY <2>4, FS_RemoveElement
  <2> QED
    BY <2>3, <2>5 DEF Rank, below
<1>12. ASSUME NEW i \in 1..n PROVE EventsOf(u)[i] = LogsOf(u)[i + 1]
  <2> DEFINE e == EventsOf(u)[i]
  <2>1. e \in E /\ Rank(e, E) = i - 1
    BY <1>10, BundleFacts
  <2>2. e \in A /\ Rank(e, A) \in Nat
    BY <1>7, <1>9, <2>1
  <2>3. Rank(e, A) = i
    BY <1>11, <2>1, <2>2
  <2> HIDE DEF e
  <2>4. LogsOf(u)[i + 1] = e
    BY <1>3, <2>2, <2>3
  <2> QED
    BY <2>4 DEF e
<1>13. Len(EventsOf(u)) = n
  BY <1>10, BundleFacts
<1>14. Matches(u)
  <2>1. ASSUME NEW i \in 1..n + 1, LogsOf(u)[i].kind = "before" PROVE i = 1
    <3>1. CASE i # 1
      <4>1. i - 1 \in 1..n /\ (i - 1) + 1 = i
        BY <1>1, <3>1
      <4>2. IsEvent(LogsOf(u)[i])
        BY <1>6, <4>1
      <4> QED
        BY <2>1, <4>2 DEF IsEvent
    <3> QED
      BY <3>1
  <2> QED
    BY <1>1, <1>6, <1>12, <1>13, <2>1 DEF Matches
<1>15. ASSUME NEW l \in E
       PROVE  \E r \in ResultsOf(u) : r.op = l.op /\ r.end = l.at /\ r.tx = u.tx /\ r.block = u.block
  <2> DEFINE i == Rank(l, A)
             r == [block |-> u.block, tx |-> u.tx, op |-> EventsOf(u)[i].op, input |-> u.ops[i],
                   start |-> LogsOf(u)[i].at, end |-> LogsOf(u)[i + 1].at]
  <2>1. l \in A /\ i \in 1..n /\ LogsOf(u)[i + 1] = l
    BY <1>3, <1>8, <1>9
  <2>2. EventsOf(u)[i] = l
    BY <1>12, <2>1
  <2>3. i \in DOMAIN u.ops /\ i < Len(LogsOf(u))
    BY <1>1, <2>1
  <2>4. r.op = l.op /\ r.end = l.at /\ r.tx = u.tx /\ r.block = u.block
    BY <2>1, <2>2
  <2> HIDE DEF i
  <2>5. r \in ResultsOf(u)
    BY <2>3 DEF ResultsOf
  <2> QED
    BY <2>4, <2>5
<1> QED
  BY <1>14, <1>15

(* A step of a round keeps the operations.                                  *)
LEMMA OperationsGoOn ==
  ASSUME AInv, FoundInv, OperationsInv, OnGoing
  PROVE  OperationsInv'
<1>1. /\ \A s : Passed(s)' <=> (Passed(s) \/ s = stage)
      /\ \A s : Runs(s)' <=> Runs(s)
      /\ synced' = synced /\ unanswered' = unanswered
  BY OnGoingIs, GoingOn DEF AInv, GoesOn
<1>2. /\ Passed("user_ops") => Passed("transactions_and_logs")
      /\ stage = "user_ops" => Passed("transactions_and_logs")
      /\ stage = "UserOperationsResult" => Passed("user_ops")
      /\ Passed("UserOperationsResult") => Passed("user_ops")
      /\ ~Passed(stage)
  <2>1. /\ <<"transactions_and_logs", "user_ops">> \in Needs
        /\ <<"user_ops", "UserOperationsResult">> \in Needs
    BY DEF Needs
  <2> QED
    BY <2>1, NeededBefore, AllPassed DEF AInv
<1>3. Recorded(Events)' = Recorded(Events)
  BY <1>1 DEF Recorded
<1>4. Passed("transactions_and_logs") => Received(Events)' = Received(Events)
  BY ReceivedStays DEF AInv
<1>5. operations \subseteq operations' =>
        (Runs("UserOperationsResult")' => HasRows(Recorded(Events))')
  BY <1>1, <1>3 DEF OperationsInv, HasRows
<1>6. CASE stage = "user_ops"
  <2> DEFINE U == {u \in Bundles : \E l \in Received(BundleLogs) :
                     l.block = u.block /\ l.tx = u.tx /\ IsEvent(l)}
  <2>1. found' = [found EXCEPT !["UserOperationsResult"] =
                    UNION {ResultsOf(u) : u \in {v \in U : Matches(v)}}]
    BY <1>6, StageTells DEF CollectOperations, Found
  <2>2. found'["UserOperationsResult"] = UNION {ResultsOf(u) : u \in {v \in U : Matches(v)}}
    <3> HIDE DEF U
    <3> QED
      BY <2>1 DEF FoundInv, FeatureTypes
  <2>3. operations' = operations
    BY <1>6, WhatIsKept
  <2>4. ~Passed("UserOperationsResult")'
    BY <1>1, <1>2, <1>6
  <2>5. found'["UserOperationsResult"] \subseteq AllResults
    BY <2>2 DEF AllResults
  <2>6. ASSUME NEW l \in Received(Events)', NEW u \in Bundles,
               l.block = u.block, l.tx = u.tx, Matches(u)
        PROVE  ResultsOf(u) \subseteq found'["UserOperationsResult"]
    <3>1. l \in Received(BundleLogs) /\ IsEvent(l)
      BY <1>2, <1>4, <1>6 DEF Received, Events
    <3>2. u \in {v \in U : Matches(v)}
      BY <2>6, <3>1
    <3> QED
      BY <2>2, <3>2
  <2> QED
    BY <1>5, <2>3, <2>4, <2>5, <2>6 DEF OperationsInv
<1>7. CASE stage = "UserOperationsResult"
  <2>1. operations' = operations \cup
          {r \in found["UserOperationsResult"] : \A s \in operations : s.op # r.op}
    BY <1>7, StageTells DEF CommitOperations
  <2>2. found'["UserOperationsResult"] = found["UserOperationsResult"]
    BY <1>7, WhatIsKept
  <2>3. Received(Events)' = Received(Events) /\ Passed("user_ops")
    BY <1>2, <1>4, <1>7
  <2>4. operations \subseteq operations' /\ operations' \subseteq AllResults
    BY <2>1 DEF OperationsInv
  <2>5. \A r \in found["UserOperationsResult"] : \E s \in operations' : s.op = r.op
    BY <2>1
  <2> QED
    BY <1>1, <1>5, <2>2, <2>3, <2>4, <2>5 DEF OperationsInv
<1>8. CASE stage \notin {"user_ops", "UserOperationsResult"}
  <2>1. operations' = operations /\ found'["UserOperationsResult"] = found["UserOperationsResult"]
    BY <1>8, WhatIsKept
  <2>2. /\ Passed("user_ops")' <=> Passed("user_ops")
        /\ Passed("UserOperationsResult")' <=> Passed("UserOperationsResult")
    BY <1>1, <1>8
  <2> QED
    BY <1>2, <1>4, <1>5, <2>1, <2>2 DEF OperationsInv
<1> QED
  BY <1>6, <1>7, <1>8

(* The end of a round keeps the operations.                                 *)
LEMMA OperationsEnd ==
  ASSUME AInv, FoundInv, OperationsInv, Closing
  PROVE  OperationsInv'
<1>1. /\ operations' = operations
      /\ \A s : ~Passed(s)'
      /\ \A s : Runs(s)' <=> Runs(s)
      /\ found'["UserOperationsResult"] = {}
      /\ \/ Record /\ FeaturesRecord
         \/ UNCHANGED <<synced, unanswered>>
  BY WhatEnds DEF AInv, FeatureTypes, tables
<1>2. ASSUME Runs("UserOperationsResult") PROVE HasRows(Recorded(Events))'
  <2>1. CASE UNCHANGED <<synced, unanswered>>
    BY <1>1, <1>2, <2>1 DEF OperationsInv, HasRows, Recorded
  <2>2. CASE Record /\ FeaturesRecord
    <3>1. stage = "record" /\ Passed("UserOperationsResult")
      BY <1>2, <2>2, AllPassed DEF AInv, Record
    <3>2. Passed("user_ops") /\ Runs("user_ops") /\ Passed("transactions_and_logs")
      <4>1. /\ <<"transactions_and_logs", "user_ops">> \in Needs
            /\ <<"user_ops", "UserOperationsResult">> \in Needs
        BY DEF Needs
      <4> QED
        BY <1>2, <3>1, <4>1, NeededBefore DEF AInv
    <3>3. AskedFor(Events)
      BY <3>2, MissionAsks DEF AInv, Events
    <3>4. Recorded(Events)' = Recorded(Events) \cup Received(Events)
      BY <2>2, <3>2, <3>3, RecordedLogs
    <3>5. HasRows(Recorded(Events)) /\ HasRows(Received(Events))
      BY <1>2, <3>1, <3>2 DEF OperationsInv, HasRows
    <3> QED
      BY <1>1, <3>4, <3>5 DEF HasRows
  <2> QED
    BY <1>1, <2>1, <2>2
<1> QED
  BY <1>1, <1>2 DEF OperationsInv

(* Every step keeps the operations.                                         *)
LEMMA KeepsOperations == AInv /\ FoundInv /\ OperationsInv /\ [Next]_vars => OperationsInv'
<1> SUFFICES ASSUME AInv, FoundInv, OperationsInv, [Next]_vars PROVE OperationsInv'
  OBVIOUS
<1>1. CASE OnGoing
  BY <1>1, OperationsGoOn
<1>2. CASE Closing
  BY <1>2, OperationsEnd
<1>3. CASE UNCHANGED vars
  BY <1>3 DEF vars, chainVars, featureVars, tables, Passed, Runs, Position, Plan, Received,
     Recorded, HasRows, OperationsInv
<1> QED
  BY <1>1, <1>2, <1>3, NextIs

(* The invariant of the operations.                                         *)
LEMMA OperationsAreKept == Spec => []OperationsInv
<1>1. Init => OperationsInv
  <2> SUFFICES ASSUME Init PROVE OperationsInv
    OBVIOUS
  <2>1. found["UserOperationsResult"] = {} /\ operations = {}
    BY DEF Init, FeatureInit, Nothing, FeatureTypes
  <2>2. Begun /\ synced = StartBlock - 1
    BY ChainAssumption DEF Init, ChainInit, Begun
  <2>3. \A s : ~Passed(s)
    BY <2>2, FirstStage DEF Begun
  <2>4. Recorded(Events) = {}
    <3>1. \A l \in Events : l.block \in Blocks
      BY FeaturesAssumption DEF Events
    <3> QED
      BY <2>2, <3>1, ChainAssumption DEF Recorded, Blocks
  <2> QED
    BY <2>1, <2>3, <2>4 DEF OperationsInv, HasRows
<1> QED
  BY <1>1, KeepsOperations, AnswersAreKept, FoundIs, PTL DEF Spec

(* Each operation of a recorded regular bundle has the row that ends with  *)
(* its event, and no row takes logs of another operation.                  *)
THEOREM OperationsStayPaired == Spec => []OperationsArePaired
<1>1. OperationsInv => OperationsArePaired
  <2> SUFFICES ASSUME OperationsInv PROVE OperationsArePaired
    OBVIOUS
  <2>1. ASSUME Runs("UserOperationsResult"), NEW u \in Bundles, Regular(u),
               NEW l \in Recorded(BundleLogs), IsEvent(l), l.block = u.block, l.tx = u.tx
        PROVE  \E r \in operations : r.op = l.op /\ r.end = l.at /\ r.tx = u.tx /\ r.block = u.block
    <3>1. l \in EventSet(u) /\ l \in Recorded(Events)
      BY <2>1 DEF Recorded, EventSet, LogSet, Events
    <3>2. PICK r \in ResultsOf(u) : r.op = l.op /\ r.end = l.at /\ r.tx = u.tx /\ r.block = u.block
      BY <2>1, <3>1, RegularFacts
    <3>3. Matches(u)
      BY <2>1, RegularFacts
    <3>4. PICK s \in operations : s.op = r.op
      BY <2>1, <3>1, <3>3 DEF OperationsInv, HasRows
    <3>5. r \in AllResults /\ s \in AllResults
      BY <3>3 DEF AllResults, OperationsInv
    <3>6. s = r
      BY <3>4, <3>5, ResultsApart
    <3> QED
      BY <3>2, <3>6
  <2>2. \A r, s \in operations :
          /\ r.input = r.op
          /\ r # s /\ r.block = s.block /\ r.tx = s.tx => r.end <= s.start \/ s.end <= r.start
    BY ResultsApart DEF OperationsInv
  <2> QED
    BY <2>1, <2>2 DEF OperationsArePaired
<1> QED
  BY <1>1, OperationsAreKept, PTL

(***************************************************************************)
(* The counts of the blocks.                                               *)
(***************************************************************************)

CallRows(b) == {TraceRow(c) : c \in {d \in Calls : d.block = b}}
Buffered(b) == {r \in buff["Trace"] : r.block = b}

(* A block that the mission ever asks for.                                 *)
Sought(b) == mission \in Filtered => \E t \in Watched[mission] : t.block = b

Within == synced = StartBlock - 1 \/ synced \in Blocks

(* The traces of a block in the buffer: a placeholder, or all of them,     *)
(* or none, when its request had no answer.                                *)
TracesBuffered ==
  /\ \A r \in buff["Block"] : Sought(r.block)
  /\ buff["UpdateBlockInternalCount"] = CountItems(buff["Trace"])
  /\ \A b \in Blocks : \/ Buffered(b) \in {{}, {PlaceholderRow(b)}}
                       \/ Buffered(b) = CallRows(b)
  /\ Passed("traces") => \A b \in Blocks : BlockRow(b) \in buff["Block"] =>
       Buffered(b) # {} \/ Row("Trace", b, 0, 0) \in missed
TracesStored ==
  \A b \in Blocks :
    /\ TracesOf(b) \subseteq {PlaceholderRow(b)} \cup CallRows(b)
    /\ TracesOf(b) \cap CallRows(b) = {} \/ CallRows(b) \subseteq TracesOf(b)
    /\ TracesOf(b) # {} => Sought(b)

(* The count of a block is that of one of its attempts.                    *)
Backed(b) ==
  \/ counts[b].traces = 1 /\ PlaceholderRow(b) \in stored
  \/ /\ CallRows(b) # {} /\ CallRows(b) \subseteq stored
     /\ counts[b].traces = Cardinality(CallRows(b))
CountsTyped ==
  /\ counts \in [Blocks -> [traces : Nat, internal : Nat]]
  /\ \A b \in Blocks : counts[b].internal = 0
CountsTold ==
  Runs("Trace") =>
    /\ \A b \in Blocks : counts[b].traces = 0 \/ Backed(b)
    /\ Passed("UpdateBlockInternalCount") =>
         \A b \in Blocks : Buffered(b) # {} => counts[b].traces = Cardinality(Buffered(b))
    /\ Runs("UpdateBlockInternalCount") =>
         \A b \in StartBlock..synced : Asked(b) /\ Sought(b) => Backed(b)

CountsInv == Within /\ TracesBuffered /\ TracesStored /\ CountsTyped /\ CountsTold

(* The traces of a block.                                                  *)
LEMMA CallRowsFacts ==
  ASSUME NEW b
  PROVE  /\ IsFiniteSet(CallRows(b)) /\ Cardinality(CallRows(b)) \in Nat
         /\ PlaceholderRow(b) \notin CallRows(b)
         /\ \A r \in CallRows(b) \cup {PlaceholderRow(b)} : r.kind = "Trace" /\ r.block = b
         /\ HasTransactions(b) => CallRows(b) # {}
         /\ CallRows(b) # {} => Cardinality(CallRows(b)) > 0
<1> DEFINE C == {d \in Calls : d.block = b}
           f == [c \in C |-> TraceRow(c)]
<1>1. IsFiniteSet(C)
  BY ChainAssumption, FS_Subset
<1>2. {f[c] : c \in C} = CallRows(b)
  BY DEF CallRows
<1>3. IsFiniteSet(CallRows(b))
  <2> HIDE DEF f, C
  <2>1. IsFiniteSet({f[c] : c \in C})
    BY <1>1, ImageFinite
  <2> QED
    BY <1>2, <2>1
<1>4. \A c \in C : TraceRow(c).tx # -1 /\ TraceRow(c).kind = "Trace" /\ TraceRow(c).block = b
  BY ChainAssumption DEF TraceRow, Row
<1>5. PlaceholderRow(b).tx = -1 /\ PlaceholderRow(b).kind = "Trace" /\ PlaceholderRow(b).block = b
  BY DEF PlaceholderRow, Row
<1>6. PlaceholderRow(b) \notin CallRows(b)
  BY <1>4, <1>5 DEF CallRows
<1>7. ASSUME HasTransactions(b) PROVE CallRows(b) # {}
  <2>1. PICK t \in Transactions : t.block = b
    BY <1>7 DEF HasTransactions
  <2>2. PICK c \in Calls : c.block = t.block
    BY ChainAssumption
  <2>3. TraceRow(c) \in CallRows(b)
    BY <2>1, <2>2 DEF CallRows
  <2> QED
    BY <2>3
<1>8. Cardinality(CallRows(b)) \in Nat /\ (CallRows(b) # {} => Cardinality(CallRows(b)) > 0)
  BY <1>3, FS_CardinalityType, FS_EmptySet
<1> QED
  BY <1>3, <1>4, <1>5, <1>6, <1>7, <1>8 DEF CallRows

(* ExportTracesJob has for a block all its traces, a placeholder, or        *)
(* nothing, when its request had no answer.                                 *)
LEMMA TracesAnswered ==
  ASSUME IInv, CollectTraces
  PROVE  /\ \A b : \/ Buffered(b)' \in {{}, {PlaceholderRow(b)}}
                   \/ Buffered(b)' = CallRows(b)
         /\ \A b : BlockRow(b) \in buff["Block"] =>
              Buffered(b)' # {} \/ Row("Trace", b, 0, 0) \in missed'
         /\ buff'["UpdateBlockInternalCount"] = CountItems(buff'["Trace"])
<1> DEFINE asked == {r.block : r \in buff["Block"]}
<1>1. PICK gone \in SUBSET asked : \E unavailable \in SUBSET (asked \ gone) :
        /\ \A b \in asked \ (gone \cup unavailable) : HasTransactions(b)
        /\ Collected([buff EXCEPT
                     !["Trace"] = TraceItems(asked \ (gone \cup unavailable), unavailable),
                     !["ContractInternalTransaction"] =
                       {InternalRow(c) : c \in {d \in Calls :
                          d.block \in asked \ (gone \cup unavailable) /\ Internal(d)}},
                     !["UpdateBlockInternalCount"] =
                       CountItems(TraceItems(asked \ (gone \cup unavailable), unavailable))],
                  {Row("Trace", b, 0, 0) : b \in gone}
                    \cup {Row("Unavailable", b, 0, 0) : b \in unavailable})
  BY DEF CollectTraces
<1>2. PICK unavailable \in SUBSET (asked \ gone) :
        /\ \A b \in asked \ (gone \cup unavailable) : HasTransactions(b)
        /\ Collected([buff EXCEPT
                     !["Trace"] = TraceItems(asked \ (gone \cup unavailable), unavailable),
                     !["ContractInternalTransaction"] =
                       {InternalRow(c) : c \in {d \in Calls :
                          d.block \in asked \ (gone \cup unavailable) /\ Internal(d)}},
                     !["UpdateBlockInternalCount"] =
                       CountItems(TraceItems(asked \ (gone \cup unavailable), unavailable))],
                  {Row("Trace", b, 0, 0) : b \in gone}
                    \cup {Row("Unavailable", b, 0, 0) : b \in unavailable})
  BY <1>1
<1> DEFINE answered == asked \ (gone \cup unavailable)
           T == TraceItems(answered, unavailable)
<1>3. DOMAIN buff = Types \cup {Receipts}
  BY DEF IInv, Filled
<1>4. /\ buff'["Trace"] = T /\ buff'["UpdateBlockInternalCount"] = CountItems(T)
      /\ \A b \in gone : Row("Trace", b, 0, 0) \in missed'
  BY <1>2, <1>3 DEF Collected, Types
<1>5. ASSUME NEW b
      PROVE  /\ b \in answered => Buffered(b)' = CallRows(b)
             /\ b \in unavailable => Buffered(b)' = {PlaceholderRow(b)}
             /\ b \notin answered \cup unavailable => Buffered(b)' = {}
  <2>1. Buffered(b)' = {r \in T : r.block = b}
    BY <1>4 DEF Buffered
  <2>2. \A c \in Calls : TraceRow(c).block = c.block
    BY DEF TraceRow, Row
  <2>3. \A x : PlaceholderRow(x).block = x
    BY DEF PlaceholderRow, Row
  <2>4. answered \cap unavailable = {}
    OBVIOUS
  <2> HIDE DEF answered
  <2>5. b \in answered => {r \in T : r.block = b} = CallRows(b)
    BY <2>2, <2>3, <2>4 DEF TraceItems, CallRows
  <2>6. b \in unavailable => {r \in T : r.block = b} = {PlaceholderRow(b)}
    BY <2>2, <2>3, <2>4 DEF TraceItems
  <2>7. b \notin answered \cup unavailable => {r \in T : r.block = b} = {}
    BY <2>2, <2>3 DEF TraceItems
  <2> QED
    BY <2>1, <2>5, <2>6, <2>7
<1>6. ASSUME NEW b, BlockRow(b) \in buff["Block"]
      PROVE  Buffered(b)' # {} \/ Row("Trace", b, 0, 0) \in missed'
  <2>1. b \in asked
    <3>1. BlockRow(b).block = b
      BY DEF BlockRow, Row
    <3> QED
      BY <1>6, <3>1
  <2>2. CASE b \in gone
    BY <1>4, <2>2
  <2>3. CASE b \in unavailable
    BY <1>5, <2>3
  <2>4. CASE b \in answered
    BY <1>2, <1>5, <2>4, CallRowsFacts
  <2> QED
    BY <2>1, <2>2, <2>3, <2>4
<1> HIDE DEF T, answered
<1>7. buff'["UpdateBlockInternalCount"] = CountItems(buff'["Trace"])
  BY <1>4
<1>8. ASSUME NEW b PROVE Buffered(b)' \in {{}, {PlaceholderRow(b)}} \/ Buffered(b)' = CallRows(b)
  BY <1>5
<1> QED
  BY <1>6, <1>7, <1>8

(* The update gives a block that has traces in the buffer their number.    *)
LEMMA CountsCommitted ==
  ASSUME CountsTyped, TracesBuffered, CommitCounts
  PROVE  /\ CountsTyped'
         /\ \A b \in Blocks : /\ Buffered(b) = {} => counts'[b] = counts[b]
                              /\ Buffered(b) # {} => counts'[b].traces = Cardinality(Buffered(b))
<1> DEFINE new(b) == {r \in buff["UpdateBlockInternalCount"] : r.block = b}
           count(b) == IF new(b) = {} THEN counts[b]
                       ELSE LET r == CHOOSE r \in new(b) : TRUE IN
                            [traces |-> r.traces, internal |-> r.internal]
<1>1. counts' = [b \in Blocks |-> count(b)]
  BY DEF CommitCounts
<1>2. buff["UpdateBlockInternalCount"] =
        {[block |-> b, traces |-> Cardinality(Buffered(b)), internal |-> 0] :
           b \in {r.block : r \in buff["Trace"]}}
  BY DEF TracesBuffered, CountItems, Buffered
<1>3. ASSUME NEW b \in Blocks
      PROVE  /\ Buffered(b) = {} => new(b) = {}
             /\ Buffered(b) # {} => new(b) = {[block |-> b, traces |-> Cardinality(Buffered(b)), internal |-> 0]}
  <2>1. Buffered(b) = {} <=> b \notin {r.block : r \in buff["Trace"]}
    BY DEF Buffered
  <2> QED
    BY <1>2, <2>1
<1>4. ASSUME NEW b \in Blocks, Buffered(b) # {}
      PROVE  counts'[b] = [traces |-> Cardinality(Buffered(b)), internal |-> 0]
  <2> DEFINE item == [block |-> b, traces |-> Cardinality(Buffered(b)), internal |-> 0]
  <2>1. new(b) = {item}
    BY <1>3, <1>4
  <2>2. counts'[b] = count(b)
    BY <1>1
  <2> HIDE DEF new, item
  <2>3. (CHOOSE r \in new(b) : TRUE) = item
    BY <2>1
  <2>4. count(b) = [traces |-> item.traces, internal |-> item.internal]
    BY <2>1, <2>3
  <2> QED
    BY <2>2, <2>4 DEF item
<1>5. ASSUME NEW b \in Blocks, Buffered(b) = {} PROVE counts'[b] = counts[b]
  BY <1>1, <1>3, <1>5
<1>6. \A b \in Blocks : Cardinality(Buffered(b)) \in Nat
  <2>1. ASSUME NEW b \in Blocks PROVE IsFiniteSet(Buffered(b))
    <3>1. IsFiniteSet({}) /\ IsFiniteSet({PlaceholderRow(b)}) /\ IsFiniteSet(CallRows(b))
      BY FS_EmptySet, FS_Singleton, CallRowsFacts
    <3> QED
      BY <3>1 DEF TracesBuffered
  <2> QED
    BY <2>1, FS_CardinalityType
<1>7. \A b \in Blocks : counts'[b] \in [traces : Nat, internal : Nat] /\ counts'[b].internal = 0
  <2>1. ASSUME NEW b \in Blocks
        PROVE  counts'[b] \in [traces : Nat, internal : Nat] /\ counts'[b].internal = 0
    <3>1. CASE Buffered(b) = {}
      BY <1>5, <3>1 DEF CountsTyped
    <3>2. CASE Buffered(b) # {}
      <4>1. PICK n \in Nat : n = Cardinality(Buffered(b))
        BY <1>6
      <4>2. counts'[b] = [traces |-> n, internal |-> 0]
        BY <1>4, <3>2, <4>1
      <4> QED
        BY <4>2
    <3> QED
      BY <3>1, <3>2
  <2> QED
    BY <2>1
<1>8. counts' = [b \in Blocks |-> counts'[b]]
  BY <1>1
<1> HIDE DEF new, count
<1>9. CountsTyped'
  BY <1>7, <1>8 DEF CountsTyped
<1>10. ASSUME NEW b \in Blocks, Buffered(b) # {}
       PROVE  counts'[b].traces = Cardinality(Buffered(b))
  <2>1. PICK n : n = Cardinality(Buffered(b))
    OBVIOUS
  <2>2. counts'[b] = [traces |-> n, internal |-> 0]
    BY <1>4, <1>10, <2>1
  <2> QED
    BY <2>1, <2>2
<1> QED
  BY <1>5, <1>9, <1>10

(* Traces come before their table, and their table before their number.    *)
LEMMA TracesFirst ==
  ASSUME IInv
  PROVE  /\ Passed("Trace") \/ stage = "Trace" => Passed("traces")
         /\ Runs("Trace") /\ (Passed("UpdateBlockInternalCount") \/ stage = "UpdateBlockInternalCount")
              => Passed("Trace")
<1>1. PICK n \in DOMAIN Plan : stage = Plan[n]
  BY DEF IInv, Staged
<1>2. mission \in Missions
  BY DEF IInv, Staged
<1>3. Position(stage) = n
  BY <1>1, <1>2, PositionOf
<1>4. \A i \in DOMAIN Plan : i \in Nat
  BY <1>2, PlanFacts
<1>5. \A i \in DOMAIN Plan : Plan[i] = "Trace" => \E j \in DOMAIN Plan : j < i /\ Plan[j] = "traces"
  <2>1. "Trace" \in RowTypes /\ JobOf["Trace"] = "traces"
    BY DEF RowTypes, Types, JobOf
  <2> QED
    BY <1>2, <2>1, PlanFacts
<1>6. \A i, j \in DOMAIN Plan : Plan[i] = "Trace" /\ Plan[j] = "UpdateBlockInternalCount" => i < j
  <2>1. <<"Trace", "UpdateBlockInternalCount">> \in Order
    BY DEF Order
  <2> QED
    BY <1>2, <2>1, PlanFacts
<1>7. Passed("Trace") \/ stage = "Trace" => Passed("traces")
  BY <1>1, <1>3, <1>4, <1>5 DEF Passed
<1>8. Runs("Trace") /\ (Passed("UpdateBlockInternalCount") \/ stage = "UpdateBlockInternalCount")
        => Passed("Trace")
  BY <1>1, <1>3, <1>4, <1>6 DEF Passed, Runs
<1> QED
  BY <1>7, <1>8

(* Which step touches the traces and the counts in the tables.             *)
LEMMA TracesTouched ==
  ASSUME IInv, OnGoing
  PROVE  /\ stage # "UpdateBlockInternalCount" => counts' = counts
         /\ stage = "Trace" => stored' = stored \cup buff["Trace"]
         /\ stage # "Trace" => \A r : r.kind = "Trace" => (r \in stored' <=> r \in stored)
         /\ stage # "blocks" => buff'["Block"] = buff["Block"]
         /\ stage # "traces" => /\ buff'["Trace"] = buff["Trace"]
                                /\ buff'["UpdateBlockInternalCount"] = buff["UpdateBlockInternalCount"]
         /\ missed \subseteq missed'
<1>1. ASSUME Collect PROVE stage \in Jobs
  BY <1>1 DEF Collect, CollectBlocks, CollectReceipts, CollectTraces, CollectContracts,
              CollectBalances, Jobs
<1>2. ASSUME Collect \/ CollectFeatures \/ CommitFeatures
      PROVE  counts' = counts /\ stored' = stored /\ stage # "Trace"
  <2>1. CASE Collect
    BY <1>1, <2>1, WhatGoesOn DEF Jobs
  <2>2. CASE CollectFeatures \/ CommitFeatures
    <3>1. stored' = stored /\ counts' = counts
      BY <2>2 DEF CollectFeatures, CollectPools, CollectPositions, CollectActiveness,
                  CollectOperations, Found, CommitFeatures, CommitPrices, CommitPools,
                  CommitHoldings, CommitPositions, CommitActiveness, CommitCurrent,
                  CommitOperations, Advance
    <3>2. stage # "Trace"
      BY <2>2, FeaturesAreApart DEF Apart, FeatureTypes, PoolRecord, TokenRecord, ActiveRecord
    <3> QED
      BY <3>1, <3>2
  <2> QED
    BY <1>2, <2>1, <2>2
<1>3. ASSUME CommitRows \/ CommitTransactions
      PROVE  counts' = counts /\ stored' = stored \cup buff[stage] /\ \A r \in buff[stage] : r.kind = stage
  <2>1. /\ stage \in RowTypes /\ stored' = stored \cup buff[stage] /\ counts' = counts
    BY <1>3 DEF CommitRows, CommitTransactions, Committed, RowTypes, Types
  <2>2. \A r \in buff[stage] : r.kind = stage
    BY <2>1 DEF IInv, Filled, ItemOf
  <2> QED
    BY <2>1, <2>2
<1>4. ASSUME CommitCounts PROVE stored' = stored /\ stage = "UpdateBlockInternalCount"
  BY <1>4 DEF CommitCounts, Committed
<1>5. /\ stage # "UpdateBlockInternalCount" => counts' = counts
      /\ stage = "Trace" => stored' = stored \cup buff["Trace"]
      /\ stage # "Trace" => \A r : r.kind = "Trace" => (r \in stored' <=> r \in stored)
  <2>1. Collect \/ CollectFeatures \/ CommitFeatures \/ CommitRows \/ CommitTransactions \/ CommitCounts
    BY OnGoingIs DEF Commit
  <2> QED
    BY <1>2, <1>3, <1>4, <2>1
<1> QED
  BY <1>5, OnGoingIs, WhatGoesOn

(* A step of a round keeps the counts of the blocks.                        *)
LEMMA CountsGoOn ==
  ASSUME AInv, CountsInv, OnGoing
  PROVE  CountsInv'
<1>1. /\ \A s : Passed(s)' <=> (Passed(s) \/ s = stage)
      /\ \A s : Runs(s)' <=> Runs(s)
      /\ synced' = synced /\ unanswered' = unanswered /\ mission' = mission
      /\ ~Passed(stage)
  BY OnGoingIs, GoingOn, AllPassed DEF AInv, GoesOn
<1>2. Within' /\ (\A b : Sought(b)' <=> Sought(b)) /\ (\A b : Asked(b)' <=> Asked(b))
  BY <1>1 DEF CountsInv, Within, Sought, Asked
<1>3. /\ stage # "UpdateBlockInternalCount" => counts' = counts
      /\ stage = "Trace" => stored' = stored \cup buff["Trace"]
      /\ stage # "Trace" => \A r : r.kind = "Trace" => (r \in stored' <=> r \in stored)
      /\ stage # "blocks" => buff'["Block"] = buff["Block"]
      /\ stage # "traces" => /\ buff'["Trace"] = buff["Trace"]
                             /\ buff'["UpdateBlockInternalCount"] = buff["UpdateBlockInternalCount"]
      /\ missed \subseteq missed'
  BY TracesTouched DEF AInv
<1>4. /\ Passed("Trace") \/ stage = "Trace" => Passed("traces")
      /\ Runs("Trace") /\ (Passed("UpdateBlockInternalCount") \/ stage = "UpdateBlockInternalCount")
           => Passed("Trace")
  BY TracesFirst DEF AInv
<1>5. stage # "traces" => \A b : Buffered(b)' = Buffered(b)
  BY <1>3 DEF Buffered
<1>6. stage # "Trace" => \A b : TracesOf(b)' = TracesOf(b)
  BY <1>3 DEF TracesOf
<1>7. \A b \in Blocks : /\ PlaceholderRow(b).kind = "Trace" /\ PlaceholderRow(b).block = b
                        /\ \A r \in CallRows(b) : r.kind = "Trace" /\ r.block = b
  BY CallRowsFacts
<1>8. TracesBuffered'
  <2>1. CASE stage = "blocks"
    <3>1. CollectBlocks /\ ~Passed("traces")'
      <4>1. ~Passed("traces")
        BY <2>1, FirstStage DEF AInv, IInv, Staged
      <4>2. CollectBlocks
        BY <2>1 DEF OnGoing, Collect, Commit, CollectBlocks, CollectReceipts, CollectTraces,
           CollectContracts, CollectBalances, CommitRows, CommitTransactions, CommitCounts, Types,
           CollectFeatures, CollectPools, CollectPositions, CollectActiveness, CollectOperations,
           CommitFeatures, CommitPrices, CommitPools, CommitHoldings, CommitPositions,
           CommitActiveness, CommitCurrent, CommitOperations, PoolRecord, TokenRecord, ActiveRecord
      <4> QED
        BY <1>1, <2>1, <4>1, <4>2
    <3>2. \A r \in buff'["Block"] : Sought(r.block)
      <4>1. PICK gone \in SUBSET Requested : buff'["Block"] = {BlockRow(b) : b \in Requested \ gone}
        BY <3>1 DEF CollectBlocks, Collected, AInv, IInv, Filled, Types
      <4>2. \A b \in Requested : Sought(b)
        BY DEF Requested, Sought
      <4>3. \A b : BlockRow(b).block = b
        BY DEF BlockRow, Row
      <4> QED
        BY <4>1, <4>2, <4>3
    <3> QED
      BY <1>2, <1>3, <1>5, <2>1, <3>1, <3>2 DEF CountsInv, TracesBuffered
  <2>2. CASE stage = "traces"
    <3>1. CollectTraces
      BY <2>2, StageTells
    <3>2. /\ \A b : \/ Buffered(b)' \in {{}, {PlaceholderRow(b)}}
                    \/ Buffered(b)' = CallRows(b)
          /\ \A b : BlockRow(b) \in buff["Block"] =>
               Buffered(b)' # {} \/ Row("Trace", b, 0, 0) \in missed'
          /\ buff'["UpdateBlockInternalCount"] = CountItems(buff'["Trace"])
      BY <3>1, TracesAnswered DEF AInv
    <3> QED
      BY <1>2, <1>3, <2>2, <3>2 DEF CountsInv, TracesBuffered
  <2>3. CASE stage \notin {"blocks", "traces"}
    BY <1>1, <1>2, <1>3, <1>5, <2>3 DEF CountsInv, TracesBuffered
  <2> QED
    BY <2>1, <2>2, <2>3
<1>9. TracesStored'
  <2>1. CASE stage = "Trace"
    <3>1. \A b : TracesOf(b)' = TracesOf(b) \cup Buffered(b)
      <4>1. \A r \in buff["Trace"] : r.kind = "Trace"
        BY DEF AInv, IInv, Filled, ItemOf, RowTypes, Types
      <4> QED
        BY <1>3, <2>1, <4>1 DEF TracesOf, Buffered
    <3>2. ASSUME NEW b \in Blocks, Buffered(b) # {} PROVE Sought(b)
      <4>1. PICK r \in buff["Trace"] : r.block = b
        BY <3>2 DEF Buffered
      <4>2. r \in Rows /\ r.kind = "Trace" /\ ParentOf[r] \in buff["Block"]
        BY DEF AInv, IInv, Filled, ItemOf, RowTypes, Types, TypeAbove
      <4>3. ParentOf[r] = BlockRow(b) /\ BlockRow(b).block = b
        BY <4>1, <4>2 DEF ParentOf, BlockRow, Row
      <4> QED
        BY <4>2, <4>3 DEF CountsInv, TracesBuffered
    <3>3. ASSUME NEW b \in Blocks
          PROVE  /\ TracesOf(b)' \subseteq {PlaceholderRow(b)} \cup CallRows(b)
                 /\ TracesOf(b)' \cap CallRows(b) = {} \/ CallRows(b) \subseteq TracesOf(b)'
                 /\ TracesOf(b)' # {} => Sought(b)
      <4>1. Buffered(b) \in {{}, {PlaceholderRow(b)}} \/ Buffered(b) = CallRows(b)
        BY DEF CountsInv, TracesBuffered
      <4>2. PlaceholderRow(b) \notin CallRows(b)
        BY CallRowsFacts
      <4> QED
        BY <3>1, <3>2, <4>1, <4>2 DEF CountsInv, TracesStored
    <3> QED
      BY <1>2, <3>3 DEF TracesStored
  <2>2. CASE stage # "Trace"
    BY <1>2, <1>6, <2>2 DEF CountsInv, TracesStored
  <2> QED
    BY <2>1, <2>2
<1>10. \A b \in Blocks : stage # "UpdateBlockInternalCount" => (Backed(b) => Backed(b)')
  <2>1. \A r : r.kind = "Trace" /\ r \in stored => r \in stored'
    BY <1>3
  <2> QED
    BY <1>3, <1>7, <2>1 DEF Backed
<1>11. CASE stage = "UpdateBlockInternalCount"
  <2>1. CommitCounts
    BY <1>11, StageTells
  <2>2. /\ CountsTyped'
        /\ \A b \in Blocks : /\ Buffered(b) = {} => counts'[b] = counts[b]
                             /\ Buffered(b) # {} => counts'[b].traces = Cardinality(Buffered(b))
    BY <2>1, CountsCommitted DEF CountsInv
  <2>3. ASSUME Runs("Trace") PROVE CountsTold'
    <3>1. buff["Trace"] \subseteq stored
      <4>1. "Trace" \in RowTypes
        BY DEF RowTypes, Types
      <4> QED
        BY <1>4, <1>11, <2>3, <4>1 DEF AInv, IInv, Exported
    <3>2. ASSUME NEW b \in Blocks, Buffered(b) # {} PROVE Backed(b)'
      <4>1. Buffered(b) \subseteq stored'
        <5>1. \A r \in buff["Trace"] : r.kind = "Trace"
          BY DEF AInv, IInv, Filled, ItemOf, RowTypes, Types
        <5> QED
          BY <1>3, <1>11, <3>1, <5>1 DEF Buffered
      <4>2. CASE Buffered(b) = {PlaceholderRow(b)}
        <5>1. Cardinality({PlaceholderRow(b)}) = 1
          BY FS_Singleton
        <5> QED
          BY <2>2, <3>2, <4>1, <4>2, <5>1 DEF Backed
      <4>3. CASE Buffered(b) = CallRows(b)
        BY <2>2, <3>2, <4>1, <4>3 DEF Backed
      <4> QED
        BY <3>2, <4>2, <4>3 DEF CountsInv, TracesBuffered
    <3>3. ASSUME NEW b \in Blocks, Backed(b) PROVE Backed(b)'
      <4>1. CASE Buffered(b) = {}
        <5>1. counts'[b] = counts[b]
          BY <2>2, <4>1
        <5>2. \A r : r.kind = "Trace" /\ r \in stored => r \in stored'
          BY <1>3, <1>11
        <5> QED
          BY <1>7, <3>3, <5>1, <5>2 DEF Backed
      <4> QED
        BY <3>2, <4>1
    <3>4. ASSUME NEW b \in Blocks PROVE counts'[b].traces = 0 \/ Backed(b)'
      <4>1. CASE Buffered(b) = {}
        <5>1. counts'[b] = counts[b]
          BY <2>2, <4>1
        <5>2. counts[b].traces = 0 \/ Backed(b)
          BY <2>3 DEF CountsInv, CountsTold
        <5> QED
          BY <3>3, <5>1, <5>2
      <4> QED
        BY <3>2, <4>1
    <3>5. \A b \in StartBlock..synced : b \in Blocks
      BY ChainAssumption DEF CountsInv, Within, Blocks
    <3>6. Runs("UpdateBlockInternalCount")' =>
            \A b \in StartBlock..synced : Asked(b) /\ Sought(b) => Backed(b)'
      BY <1>1, <2>3, <3>3, <3>5 DEF CountsInv, CountsTold
    <3> QED
      BY <1>1, <1>2, <1>5, <1>11, <2>2, <3>4, <3>6 DEF CountsTold
  <2>4. CountsTold'
    BY <1>1, <2>3 DEF CountsTold
  <2> QED
    BY <1>2, <1>8, <1>9, <2>2, <2>4 DEF CountsInv
<1>12. CASE stage # "UpdateBlockInternalCount"
  <2>1. counts' = counts /\ CountsTyped'
    BY <1>3, <1>12 DEF CountsInv, CountsTyped
  <2>2. ASSUME Runs("Trace") PROVE CountsTold'
    <3>1. \A b \in StartBlock..synced : b \in Blocks
      BY ChainAssumption DEF CountsInv, Within, Blocks
    <3>2. \A b \in Blocks : counts'[b].traces = 0 \/ Backed(b)'
      BY <1>10, <1>12, <2>1, <2>2 DEF CountsInv, CountsTold
    <3>3. Passed("UpdateBlockInternalCount")' =>
            \A b \in Blocks : Buffered(b)' # {} => counts'[b].traces = Cardinality(Buffered(b)')
      <4>1. CASE stage = "traces"
        BY <1>1, <1>4, <1>12, <2>2, <4>1
      <4>2. CASE stage # "traces"
        BY <1>1, <1>5, <1>12, <2>1, <2>2, <4>2 DEF CountsInv, CountsTold
      <4> QED
        BY <4>1, <4>2
    <3>4. Runs("UpdateBlockInternalCount")' =>
            \A b \in StartBlock..synced : Asked(b) /\ Sought(b) => Backed(b)'
      BY <1>1, <1>10, <1>12, <2>2, <3>1 DEF CountsInv, CountsTold
    <3> QED
      BY <1>1, <1>2, <3>2, <3>3, <3>4 DEF CountsTold
  <2>3. CountsTold'
    BY <1>1, <2>2 DEF CountsTold
  <2> QED
    BY <1>2, <1>8, <1>9, <2>1, <2>3 DEF CountsInv
<1> QED
  BY <1>11, <1>12

(* The block of a round that is recorded has the count of its traces.      *)
LEMMA RoundCounted ==
  ASSUME AInv, CountsInv, Record, Runs("Trace"), Runs("UpdateBlockInternalCount"),
         NEW b \in Round, b \in Blocks, Asked(b)', Sought(b)
  PROVE  Backed(b)
<1>1. /\ Passed("UpdateBlockInternalCount") /\ Passed("Trace") /\ Passed("traces")
      /\ Passed("blocks")
  <2>1. Passed("UpdateBlockInternalCount") /\ Passed("Trace") /\ Passed("blocks")
    BY AllPassed DEF AInv, Record
  <2> QED
    BY <2>1, TracesFirst DEF AInv
<1>2. BlockRow(b) \notin missed /\ Row("Trace", b, 0, 0) \notin missed
  <2>1. /\ BlockRow(b).block = b /\ BlockRow(b).kind = "Block"
        /\ Row("Trace", b, 0, 0).block = b /\ Row("Trace", b, 0, 0).kind = "Trace"
    BY DEF BlockRow, Row
  <2>2. \A r \in missed : r.block = b => r.kind \notin {"Block", "Trace"}
    BY DEF Asked, Record
  <2> QED
    BY <2>1, <2>2
<1>3. b \in Requested
  BY DEF Requested, Sought
<1>4. BlockRow(b) \in buff["Block"]
  BY <1>1, <1>2, <1>3 DEF AInv, Answered, BlocksAnswered
<1>5. Buffered(b) # {}
  BY <1>1, <1>2, <1>4 DEF CountsInv, TracesBuffered
<1>6. counts[b].traces = Cardinality(Buffered(b))
  BY <1>1, <1>5 DEF CountsInv, CountsTold
<1>7. Buffered(b) \subseteq stored
  <2>1. "Trace" \in RowTypes
    BY DEF RowTypes, Types
  <2> QED
    BY <1>1, <2>1 DEF AInv, IInv, Exported, Buffered
<1>8. CASE Buffered(b) = {PlaceholderRow(b)}
  <2>1. Cardinality({PlaceholderRow(b)}) = 1
    BY FS_Singleton
  <2> QED
    BY <1>6, <1>7, <1>8, <2>1 DEF Backed
<1>9. CASE Buffered(b) = CallRows(b)
  BY <1>5, <1>6, <1>7, <1>9 DEF Backed
<1> QED
  BY <1>5, <1>8, <1>9 DEF CountsInv, TracesBuffered

(* The end of a round keeps the counts of the blocks.                       *)
LEMMA CountsEnd ==
  ASSUME AInv, CountsInv, Closing
  PROVE  CountsInv'
<1>1. /\ Ends /\ UNCHANGED mission /\ (\A s : Runs(s)' <=> Runs(s))
      /\ (\A s : ~Passed(s)')
      /\ Record \/ UNCHANGED <<synced, unanswered>>
  BY WhatEnds DEF AInv
<1>2. counts' = counts /\ stored' = stored /\ buff' = Empty
  BY <1>1 DEF Ends
<1>3. /\ \A b : Backed(b)' <=> Backed(b)
      /\ \A b : TracesOf(b)' = TracesOf(b)
      /\ \A b : Sought(b)' <=> Sought(b)
      /\ \A b : Buffered(b)' = {}
  BY <1>1, <1>2 DEF Backed, TracesOf, Sought, Buffered, Empty, Types
<1>4. TracesStored' /\ CountsTyped'
  BY <1>2, <1>3 DEF CountsInv, TracesStored, CountsTyped
<1>5. TracesBuffered'
  <2>1. buff'["Block"] = {} /\ buff'["Trace"] = {} /\ buff'["UpdateBlockInternalCount"] = {}
    BY <1>2 DEF Empty, Types
  <2>2. CountItems({}) = {}
    BY DEF CountItems
  <2> QED
    BY <1>1, <1>3, <2>1, <2>2 DEF TracesBuffered
<1>6. Within' /\ (Runs("Trace") => CountsTold')
  <2>1. CASE Record
    <3>1. /\ synced \in Nat /\ synced < EndBlock /\ StartBlock - 1 <= synced
          /\ EndBlock \in Nat /\ Steps \in Nat \ {0} /\ StartBlock \in Nat \ {0}
      BY <2>1, ChainAssumption DEF AInv, IInv, Staged, Record
    <3>2. synced' = RoundEnd /\ RoundEnd \in Blocks /\ RoundEnd \in Nat
      BY <2>1, <3>1 DEF RoundEnd, Record, Blocks
    <3>3. Within'
      BY <3>2 DEF Within, Blocks
    <3>4. \A b : Asked(b)' => Asked(b)
      BY <2>1 DEF Asked, Record
    <3>5. ASSUME NEW b \in StartBlock..synced', Runs("Trace"), Runs("UpdateBlockInternalCount"),
                 Asked(b)', Sought(b)
          PROVE  Backed(b)
      <4>1. CASE b \in Round
        <5>1. b \in Blocks
          BY <3>1, <4>1, RoundBlocks
        <5> QED
          BY <2>1, <3>5, <4>1, <5>1, RoundCounted
      <4>2. CASE b \notin Round
        <5>1. b \in StartBlock..synced
          BY <3>1, <3>2, <4>2 DEF Round
        <5> QED
          BY <3>4, <3>5, <5>1 DEF CountsInv, CountsTold
      <4> QED
        BY <4>1, <4>2
    <3>6. ASSUME Runs("Trace") PROVE CountsTold'
      <4>1. \A b \in Blocks : counts'[b].traces = 0 \/ Backed(b)'
        BY <1>2, <1>3, <3>6 DEF CountsInv, CountsTold
      <4>2. Runs("UpdateBlockInternalCount")' =>
              \A b \in StartBlock..synced' : Asked(b)' /\ Sought(b)' => Backed(b)'
        BY <1>1, <1>3, <3>5, <3>6
      <4> QED
        BY <1>1, <4>1, <4>2 DEF CountsTold
    <3> QED
      BY <3>3, <3>6
  <2>2. CASE UNCHANGED <<synced, unanswered>>
    <3>1. \A b : Asked(b)' <=> Asked(b)
      BY <2>2 DEF Asked
    <3>2. Within'
      BY <2>2 DEF CountsInv, Within
    <3>3. ASSUME Runs("Trace") PROVE CountsTold'
      <4>1. \A b \in Blocks : counts'[b].traces = 0 \/ Backed(b)'
        BY <1>2, <1>3, <3>3 DEF CountsInv, CountsTold
      <4>2. Runs("UpdateBlockInternalCount")' =>
              \A b \in StartBlock..synced' : Asked(b)' /\ Sought(b)' => Backed(b)'
        BY <1>1, <1>3, <2>2, <3>1, <3>3 DEF CountsInv, CountsTold
      <4> QED
        BY <1>1, <4>1, <4>2 DEF CountsTold
    <3> QED
      BY <3>2, <3>3
  <2> QED
    BY <1>1, <2>1, <2>2
<1>7. CountsTold'
  BY <1>1, <1>6 DEF CountsTold
<1> QED
  BY <1>4, <1>5, <1>6, <1>7 DEF CountsInv

(* Every step keeps the counts of the blocks.                               *)
LEMMA KeepsCountsOfBlocks == AInv /\ CountsInv /\ [Next]_vars => CountsInv'
<1> SUFFICES ASSUME AInv, CountsInv, [Next]_vars PROVE CountsInv'
  OBVIOUS
<1>1. CASE UNCHANGED vars
  BY <1>1 DEF vars, chainVars, CountsInv, Within, TracesBuffered, TracesStored, CountsTyped,
     CountsTold, Backed, TracesOf, Sought, Asked, Buffered, Runs, Passed, Position, Plan
<1> QED
  BY <1>1, CountsGoOn, CountsEnd, NextIs

(* The invariant of the counts of the blocks.                               *)
LEMMA CountsAreTold == Spec => []CountsInv
<1>1. Init => CountsInv
  <2> SUFFICES ASSUME Init PROVE CountsInv
    OBVIOUS
  <2>1. /\ synced = StartBlock - 1 /\ buff = Empty /\ stored = {} /\ stage = "blocks"
        /\ counts = [b \in Blocks |-> NoCount] /\ mission \in Missions
    BY DEF Init, ChainInit
  <2>2. /\ buff["Block"] = {} /\ buff["Trace"] = {} /\ buff["UpdateBlockInternalCount"] = {}
        /\ \A b : Buffered(b) = {} /\ TracesOf(b) = {}
    BY <2>1 DEF Empty, Types, Buffered, TracesOf
  <2>3. CountItems({}) = {}
    BY DEF CountItems
  <2>4. \A s : ~Passed(s)
    BY <2>1, FirstStage
  <2>5. StartBlock..synced = {}
    BY <2>1, ChainAssumption
  <2>6. \A b \in Blocks : counts[b] = NoCount
    BY <2>1
  <2>7. CountsTyped /\ \A b \in Blocks : counts[b].traces = 0
    BY <2>1 DEF CountsTyped, NoCount
  <2>8. TracesBuffered
    BY <2>2, <2>3, <2>4 DEF TracesBuffered
  <2>9. TracesStored
    BY <2>2 DEF TracesStored
  <2>10. CountsTold
    BY <2>4, <2>5, <2>7 DEF CountsTold
  <2> QED
    BY <2>1, <2>7, <2>8, <2>9, <2>10 DEF CountsInv, Within
<1> QED
  BY <1>1, KeepsCountsOfBlocks, AnswersAreKept, PTL DEF Spec

(* What the invariant says of the traces of a block.                       *)
LEMMA TracesCounted ==
  ASSUME CountsInv, Runs("Trace"), Runs("UpdateBlockInternalCount"), NEW b \in StartBlock..synced
  PROVE  LET T == TracesOf(b) IN
         /\ counts[b].traces <= Cardinality(T)
         /\ \/ ~Asked(b)
            \/ counts[b].traces = Cardinality(T)
            \/ /\ PlaceholderRow(b) \in T /\ Cardinality(T) > 1
               /\ counts[b].traces \in {1, Cardinality(T) - 1}
         /\ counts[b].internal = 0
<1> DEFINE T == TracesOf(b)
           P == PlaceholderRow(b)
           C == CallRows(b)
           n == counts[b].traces
<1>1. b \in Blocks
  BY ChainAssumption DEF CountsInv, Within, Blocks
<1>2. counts[b].internal = 0
  BY <1>1 DEF CountsInv, CountsTyped
<1>3. /\ T \subseteq {P} \cup C
      /\ T \cap C = {} \/ C \subseteq T
      /\ T # {} => Sought(b)
  BY <1>1 DEF CountsInv, TracesStored
<1>4. /\ n = 0 \/ Backed(b)
      /\ Asked(b) /\ Sought(b) => Backed(b)
  BY <1>1 DEF CountsInv, CountsTold
<1>5. /\ IsFiniteSet(C) /\ Cardinality(C) \in Nat /\ P \notin C
      /\ C # {} => Cardinality(C) > 0
      /\ \A r \in C \cup {P} : r.kind = "Trace" /\ r.block = b
  BY CallRowsFacts
<1>6. Backed(b) => \/ n = 1 /\ P \in T
                   \/ C # {} /\ C \subseteq T /\ n = Cardinality(C)
  BY <1>5 DEF Backed, TracesOf
<1>7. \/ T = {} /\ Cardinality(T) = 0
      \/ T = {P} /\ Cardinality(T) = 1
      \/ T = C /\ Cardinality(T) = Cardinality(C)
      \/ T = C \cup {P} /\ Cardinality(T) = Cardinality(C) + 1
  <2>1. T = {} \/ T = {P} \/ T = C \/ T = C \cup {P}
    BY <1>3
  <2>2. Cardinality({}) = 0 /\ Cardinality({P}) = 1 /\ Cardinality(C \cup {P}) = Cardinality(C) + 1
    BY <1>5, FS_EmptySet, FS_Singleton, FS_AddElement
  <2> QED
    BY <2>1, <2>2
<1>8. T = {} \/ Backed(b) \/ ~Asked(b)
  BY <1>3, <1>4
<1>9. n <= Cardinality(T) /\ (\/ ~Asked(b)
                              \/ n = Cardinality(T)
                              \/ /\ P \in T /\ Cardinality(T) > 1 /\ n \in {1, Cardinality(T) - 1})
  <2> HIDE DEF T, P, C, n
  <2>1. CASE Backed(b)
    <3>1. CASE n = 1 /\ P \in T
      BY <1>5, <1>7, <3>1
    <3>2. CASE C # {} /\ C \subseteq T /\ n = Cardinality(C)
      BY <1>5, <1>7, <3>2
    <3> QED
      BY <1>6, <2>1, <3>1, <3>2
  <2>2. CASE ~Backed(b)
    <3>1. n = 0 /\ (T = {} => Cardinality(T) = 0) /\ (T # {} => ~Asked(b))
      BY <1>4, <1>8, <2>2, FS_EmptySet
    <3>2. Cardinality(T) \in Nat
      BY <1>5, <1>7
    <3> QED
      BY <3>1, <3>2
  <2> QED
    BY <2>1, <2>2
<1> QED
  BY <1>2, <1>9

(* The number of traces that a recorded block is given is that of the      *)
(* traces of one of its attempts, all of which are in the table.           *)
THEOREM CountsStayBacked == Spec => []CountsAreBacked
<1>1. CountsInv => CountsAreBacked
  BY TracesCounted DEF CountsAreBacked
<1> QED
  BY <1>1, CountsAreTold, PTL

(***************************************************************************)
(* The types.                                                              *)
(***************************************************************************)

LostTyped == lost \subseteq Pools \cup Tokens

(* What a failed round knew are pools and positions.                        *)
LEMMA LostIsTyped == Spec => []LostTyped
<1>1. Init => LostTyped
  BY DEF Init, FeatureInit, LostTyped
<1>2. UInv /\ AInv /\ LostTyped /\ [Next]_vars => LostTyped'
  <2> SUFFICES ASSUME UInv, AInv, LostTyped, [Next]_vars PROVE LostTyped'
    OBVIOUS
  <2>1. CASE OnGoing
    BY <2>1, OnGoingIs DEF LostTyped, Tokens
  <2>2. CASE Closing
    <3>1. lost' = lost \/ lost' = lost \cup Unexported
      BY <2>2 DEF Closing, FeaturesRecord, FeaturesRaise, FeaturesFail, FeaturesRestart, Dropped
    <3>2. Unexported \subseteq Pools \cup Tokens
      BY FeaturesAssumption
         DEF Unexported, UInv, PoolsInv, PoolsTyped, PositionsInv, PositionsTyped
    <3> QED
      BY <3>1, <3>2 DEF LostTyped, Tokens
  <2>3. CASE UNCHANGED vars
    BY <2>3 DEF vars, featureVars, LostTyped, Tokens
  <2> QED
    BY <2>1, <2>2, <2>3, NextIs
<1> QED
  BY <1>1, <1>2, UniswapIsKept, AnswersAreKept, PTL DEF Spec

(* The part of the chain jobs.                                              *)
LEMMA ChainIsTyped == AInv /\ CountsInv => ChainTypeOK
<1> SUFFICES ASSUME AInv, CountsInv PROVE ChainTypeOK
  OBVIOUS
<1>1. /\ mission \in Missions /\ stage \in {Plan[i] : i \in DOMAIN Plan} /\ stored \subseteq Rows
      /\ synced \in Nat /\ StartBlock - 1 <= synced
  BY DEF AInv, IInv, Staged
<1>2. synced \in {StartBlock - 1} \cup Blocks /\ counts \in [Blocks -> [traces : Nat, internal : Nat]]
  BY DEF CountsInv, Within, CountsTyped
<1>3. \A type \in RowTypes : buff[type] \subseteq Rows
  BY DEF AInv, IInv, Filled, ItemOf
<1>4. buff[Receipts] \subseteq buff["Transaction"] /\ faults \in 0..MaxFaults
  BY DEF AInv, Answered, ReceiptsAnswered, Bounded
<1>5. \A r \in missed : r.block \in Blocks
  BY <1>1, RoundBlocks DEF AInv, Told, Dated
<1>6. \A r \in unanswered : r.block \in Blocks
  <2>1. \A b \in StartBlock..synced : b \in Blocks
    BY <1>2, ChainAssumption DEF Blocks
  <2> QED
    BY <2>1 DEF AInv, Told, Dated
<1>7. \A r \in missed \cup unanswered : r.kind \in RequestKinds /\ r.block \in Blocks
  BY <1>5, <1>6 DEF AInv, Answered, Bounded
<1> QED
  BY <1>1, <1>2, <1>3, <1>4, <1>7 DEF ChainTypeOK

(* Every variable keeps its type: what a round has in hand are rows of the *)
(* chain, a receipt belongs to a transaction of the round, and what a      *)
(* commit is given is known to the job that found it.                      *)
THEOREM TypeCorrect == Spec => []TypeOK
<1>1. AInv /\ CountsInv /\ UInv /\ ActiveInv /\ OperationsInv /\ LostTyped => TypeOK
  <2> SUFFICES ASSUME AInv, CountsInv, UInv, ActiveInv, OperationsInv, LostTyped PROVE TypeOK
    OBVIOUS
  <2>1. ChainTypeOK
    BY ChainIsTyped
  <2>2. /\ known \subseteq Pools /\ prices \cup found[PoolRecord] \subseteq FactoryPools \X Blocks
        /\ \A r \in found["UniswapV3Pool"] : r.pool \in known
    BY FeaturesAssumption DEF UInv, PoolsInv, PoolsTyped
  <2>3. /\ knownIds \subseteq Tokens /\ positions \in [Tokens -> Nat]
        /\ \A r \in found["UniswapV3Token"] : r.token \in knownIds
    BY DEF UInv, PositionsInv, PositionsTyped
  <2>4. \A k \in DOMAIN holdings : holdings[k] \subseteq Tokens /\ k[2] \in Blocks
    <3>1. \A k \in DOMAIN holdings : Held(k, holdings[k])
      BY DEF UInv, PositionsInv, PositionsTyped
    <3> QED
      BY <3>1 DEF Held, Tokens
  <2>5. /\ stats \in [Addresses -> Nat] /\ current \in [Addresses -> Nat]
        /\ recounted \subseteq Addresses
        /\ DOMAIN activeness \subseteq Addresses \X Blocks
    BY DEF ActiveInv, ActiveTyped, KeyOf
  <2>6. \A r \in operations : r.start <= r.end
    BY ResultsApart DEF OperationsInv
  <2> QED
    BY <2>1, <2>2, <2>3, <2>4, <2>5, <2>6 DEF TypeOK, LostTyped
<1> QED
  BY <1>1, AnswersAreKept, CountsAreTold, UniswapIsKept, CountsAreKept, OperationsAreKept,
     LostIsTyped, PTL
===============================================================================
