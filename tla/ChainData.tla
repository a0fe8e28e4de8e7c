------------------------------- MODULE ChainData -------------------------------
(***************************************************************************)
(* What the chain jobs leave in the database: a round of a mission runs    *)
(* ExportBlocksJob, ExportTransactionsAndLogsJob, ExportTracesJob,         *)
(* ExportContractsJob and ExportCoinBalancesJob, as far as its required    *)
(* output types ask for them, and each job exports its required types with *)
(* one commit per type.  A node answers a batch of requests; it may leave  *)
(* some of them out, or have lost the state behind a trace.                *)
(*                                                                         *)
(* A row is identified by its key: its block, its transaction (for a       *)
(* balance, its address) and its place there.  The values in a row do not  *)
(* change from one attempt to the next, the node's answers being final.    *)
(***************************************************************************)
EXTENDS Integers, FiniteSets, Sequences

CONSTANTS
  StartBlock, EndBlock,  \* --start-block, --end-block
  Steps,                 \* block_batch_size
  Transactions,          \* the transactions on the chain
  Calls,                 \* the calls made in them, the outermost one included
  Miner,                 \* Miner[b]: the miner of a block
  Missions,              \* what a process may have been started for
  PlanOf,                \* PlanOf[m]: its jobs and the types each of them exports
  Watched,               \* Watched[m]: the transactions with a log its filters ask for
  Filtered,              \* the missions whose required types are all filter data
  MaxFaults              \* bound: answers left out, failed rounds, restarts

Blocks == StartBlock..EndBlock
NoAddress == 0
Kinds == {"call", "delegatecall", "create"}

(* The path of a call is the sequence of its and its callers' positions.   *)
ASSUME ChainAssumption ==
  /\ StartBlock \in Nat \ {0} /\ EndBlock \in Nat /\ Steps \in Nat \ {0}
  /\ MaxFaults \in Nat
  /\ IsFiniteSet(Transactions) /\ IsFiniteSet(Calls)
  /\ Transactions \subseteq [block : Blocks, index : Nat, from : Nat, to : Nat, logs : Nat]
  /\ Calls \subseteq [block : Blocks, tx : Nat, path : Seq(Nat), kind : Kinds,
                      from : Nat, to : Nat, moves : BOOLEAN, ok : BOOLEAN]
  /\ \A t, u \in Transactions : t.block = u.block /\ t.index = u.index => t = u
  /\ \A t \in Transactions : \E c \in Calls :
       c.block = t.block /\ c.tx = t.index /\ c.path = <<>>
  /\ Miner \in [Blocks -> Nat \ {0}]
  /\ Filtered \subseteq Missions /\ Watched \in [Missions -> SUBSET Transactions]

VARIABLES
  mission,    \* the required output types, by name
  synced,     \* the last recorded block
  stage,      \* the job that collects next, or the type that is committed next
  buff,       \* BaseJob._data_buff
  stored,     \* the rows in the tables
  counts,     \* traces_count and internal_transactions_count of blocks
  missed,     \* history: requests of this attempt that got no answer
  unanswered, \* history: those of the attempts that were recorded
  faults

chainVars == <<mission, synced, stage, buff, stored, counts, missed, unanswered, faults>>

Row(kind, b, tx, at) == [kind |-> kind, block |-> b, tx |-> tx, at |-> at]

BlockRow(b)       == Row("Block", b, 0, 0)
TransactionRow(t) == Row("Transaction", t.block, t.index, 0)
LogRow(t, i)      == Row("Log", t.block, t.index, i)
BalanceRow(b, a)  == Row("CoinBalance", b, a, 0)

(* trace_id "<block>_?_?"                                                  *)
PlaceholderRow(b) == Row("Trace", b, -1, 0)

Plan  == PlanOf[mission]
Types == {"Block", "Transaction", "Log", "Trace", "ContractInternalTransaction",
          "UpdateBlockInternalCount", "Contract", "CoinBalance"}
RowTypes == Types \ {"UpdateBlockInternalCount"}
Receipts == "Receipt"   \* the transactions that were given their receipt
Empty == [type \in Types \cup {Receipts} |-> {}]
NoCount == [traces |-> 0, internal |-> 0]

(* The job that makes the items of a type, and the type they refer to.     *)
JobOf ==
  [Block |-> "blocks", Transaction |-> "blocks", Log |-> "transactions_and_logs",
   Trace |-> "traces", ContractInternalTransaction |-> "traces",
   Contract |-> "contracts", CoinBalance |-> "coin_balances"]
TypeAbove ==
  [Transaction |-> "Block", Log |-> "Transaction", Trace |-> "Block",
   ContractInternalTransaction |-> "Trace", Contract |-> "Trace", CoinBalance |-> "Block"]

(* What else comes in order, where it comes.                               *)
Order == {<<"traces", "contracts">>, <<"traces", "coin_balances">>,
          <<"transactions_and_logs", "Transaction">>,
          <<"Trace", "UpdateBlockInternalCount">>}

(* A plan is what the scheduler makes of the dependencies of the jobs: a   *)
(* job comes once, before its types, and a type after that it refers to.   *)
ASSUME PlanAssumption ==
  \A m \in Missions : LET P == PlanOf[m] IN
    /\ P \in Seq(STRING) /\ Len(P) > 1 /\ P[1] = "blocks" /\ P[Len(P)] = "record"
    /\ \A i, j \in DOMAIN P : P[i] = P[j] => i = j
    /\ \A i \in DOMAIN P : P[i] \in RowTypes => \E j \in DOMAIN P : j < i /\ P[j] = JobOf[P[i]]
    /\ \A i \in DOMAIN P : P[i] \in RowTypes \ {"Block"} =>
         \E j \in DOMAIN P : j < i /\ P[j] = TypeAbove[P[i]]
    /\ \A i, j \in DOMAIN P : <<P[i], P[j]>> \in Order => i < j

Position(s) == CHOOSE i \in DOMAIN Plan : Plan[i] = s
Next1(s) == Plan[Position(s) + 1]

(* A job or a type is in the plan, and is over in this attempt.            *)
Runs(s)   == \E i \in DOMAIN Plan : Plan[i] = s
Passed(s) == \E i \in DOMAIN Plan : Plan[i] = s /\ i < Position(stage)

(* Mutant of RoundEnd: the last round is as long as the others.            *)
RoundEndUncapped == synced + Steps

RoundEnd == IF synced + Steps < EndBlock THEN synced + Steps ELSE EndBlock
Round    == synced + 1 .. RoundEnd

ChainInit ==
  /\ mission \in Missions
  /\ synced = StartBlock - 1 /\ stage = "blocks" /\ buff = Empty
  /\ stored = {} /\ counts = [b \in Blocks |-> NoCount]
  /\ missed = {} /\ unanswered = {} /\ faults = 0

(* The end of a collect: the requests without an answer are fewer than the *)
(* faults that are left.                                                   *)
Collected(b, omitted) ==
  /\ faults + Cardinality(omitted) <= MaxFaults
  /\ faults' = faults + Cardinality(omitted)
  /\ missed' = missed \cup omitted
  /\ buff' = b
  /\ stage' = Next1(stage)
  /\ UNCHANGED <<mission, synced, stored, counts, unanswered>>
-----------------------------------------------------------------------------
(* ExportBlocksJob: a filtered mission asks for the blocks of the logs     *)
(* eth_getLogs gave it and keeps their transactions with such a log.       *)

Wanted(t) == mission \in Filtered => t \in Watched[mission]

Requested ==
  IF mission \in Filtered
  THEN {b \in Round : \E t \in Watched[mission] : t.block = b}
  ELSE Round

CollectBlocks ==
  /\ stage = "blocks" /\ synced < EndBlock
  /\ \E gone \in SUBSET Requested :
       LET got == Requested \ gone IN
       Collected([buff EXCEPT
                    !["Block"] = {BlockRow(b) : b \in got},
                    !["Transaction"] =
                      {TransactionRow(t) : t \in {u \in Transactions :
                                                    u.block \in got /\ Wanted(u)}}],
                 {BlockRow(b) : b \in gone})
-----------------------------------------------------------------------------
(* ExportTransactionsAndLogsJob: Transaction.fill_with_receipt of each     *)
(* receipt in the answer; its logs are items of their own.                 *)

InBuffer(t) == TransactionRow(t) \in buff["Transaction"]

CollectReceipts ==
  /\ stage = "transactions_and_logs"
  /\ \E gone \in SUBSET {t \in Transactions : InBuffer(t)} :
       LET got == {t \in Transactions : InBuffer(t)} \ gone IN
       Collected([buff EXCEPT
                    ![Receipts] = {TransactionRow(t) : t \in got},
                    !["Log"] = UNION {{LogRow(t, i) : i \in 1..t.logs} : t \in got}],
                 {Row(Receipts, t.block, t.index, 0) : t \in gone})
-----------------------------------------------------------------------------
(* ExportTracesJob                                                         *)

SameTransaction(c, d) == c.block = d.block /\ c.tx = d.tx

(* geth_trace_to_traces numbers the calls of a transaction in the order in *)
(* which it comes to them: a call before its own calls, in their order.    *)
Before(p, q) ==
  \/ Len(p) < Len(q) /\ p = SubSeq(q, 1, Len(p))
  \/ \E i \in DOMAIN p \cap DOMAIN q :
       p[i] < q[i] /\ \A j \in 1..i-1 : p[j] = q[j]

TraceIndex(c) == Cardinality({d \in Calls : SameTransaction(c, d) /\ Before(d.path, c.path)})

TraceRow(c)    == Row("Trace", c.block, c.tx, TraceIndex(c))
InternalRow(c) == Row("ContractInternalTransaction", c.block, c.tx, TraceIndex(c))
ContractRow(c) == Row("Contract", c.block, c.tx, TraceIndex(c))

IsContractCreation(c) == c.kind = "create"
IsTransferValue(c) == c.moves /\ c.from # c.to /\ c.kind # "delegatecall"
Internal(c) == IsContractCreation(c) \/ IsTransferValue(c)

(* Mutant of TraceItems: only the outermost call of a transaction.         *)
TraceItemsOutermost(answered, unavailable) ==
  {TraceRow(c) : c \in {d \in Calls : d.block \in answered /\ d.path = <<>>}}
    \cup {PlaceholderRow(b) : b \in unavailable}

TraceItems(answered, unavailable) ==
  {TraceRow(c) : c \in {d \in Calls : d.block \in answered}}
    \cup {PlaceholderRow(b) : b \in unavailable}

(* Mutant of CountItems: a placeholder is not a trace.                     *)
CountItemsOfCalls(T) ==
  {[block |-> b, traces |-> Cardinality({r \in T : r.block = b /\ r.tx >= 0}), internal |-> 0] :
     b \in {r.block : r \in T}}

(* One count for each block that has a trace.  The iterator of a group is  *)
(* used up when the internal transactions are counted: there are none.     *)
CountItems(T) ==
  {[block |-> b, traces |-> Cardinality({r \in T : r.block = b}), internal |-> 0] :
     b \in {r.block : r \in T}}

(* ExtractTraces looks at the first transaction of the answer: a block     *)
(* without transactions raises in every attempt.                           *)
HasTransactions(b) == \E t \in Transactions : t.block = b

CollectTraces ==
  /\ stage = "traces"
  /\ LET asked == {r.block : r \in buff["Block"]} IN
     \E gone \in SUBSET asked : \E unavailable \in SUBSET (asked \ gone) :
       LET answered == asked \ (gone \cup unavailable)
           T == TraceItems(answered, unavailable)
       IN /\ \A b \in answered : HasTransactions(b)
          /\ Collected([buff EXCEPT
                          !["Trace"] = T,
                          !["ContractInternalTransaction"] =
                            {InternalRow(c) : c \in {d \in Calls : d.block \in answered /\ Internal(d)}},
                          !["UpdateBlockInternalCount"] = CountItems(T)],
                       {Row("Trace", b, 0, 0) : b \in gone}
                         \cup {Row("Unavailable", b, 0, 0) : b \in unavailable})
-----------------------------------------------------------------------------
(* ExportContractsJob: every contract whose creation the trace calls a     *)
(* success and for whose name the node has an answer.  Where the call of   *)
(* name() reverts the name is left empty.                                  *)

Creates(c) == IsContractCreation(c) /\ c.to # NoAddress /\ c.ok

CollectContracts ==
  /\ stage = "contracts"
  /\ LET asked == {ContractRow(c) : c \in {d \in Calls : TraceRow(d) \in buff["Trace"] /\ Creates(d)}}
     IN \E gone \in SUBSET asked :
          Collected([buff EXCEPT !["Contract"] = asked \ gone], gone)
-----------------------------------------------------------------------------
(* ExportCoinBalancesJob: the balance of everyone who had a part in a      *)
(* block.  Where the node is not reachable the balance is left empty.      *)

PartiesOfCalls(b, C) == UNION {{c.from, c.to} : c \in {d \in C : d.block = b}}

Parties(b, T, C) ==
  ({Miner[b]} \cup (UNION {{t.from, t.to} : t \in {u \in T : u.block = b}})
              \cup PartiesOfCalls(b, C)) \ {NoAddress}

CollectBalances ==
  /\ stage = "coin_balances"
  /\ LET C == {c \in Calls : InternalRow(c) \in buff["ContractInternalTransaction"]}
         T == {t \in Transactions : InBuffer(t)}
         asked == UNION {{BalanceRow(r.block, a) : a \in Parties(r.block, T, C)} : r \in buff["Block"]}
     IN \E gone \in SUBSET asked :
          Collected([buff EXCEPT !["CoinBalance"] = asked \ gone], gone)
-----------------------------------------------------------------------------
(* PostgresItemExporter: one commit for the items of a type, every table   *)
(* but blocks with on conflict do nothing.                                 *)

Committed(rows) ==
  /\ stored' = stored \cup rows
  /\ stage' = Next1(stage)
  /\ UNCHANGED <<mission, synced, buff, missed, unanswered, faults>>

CommitRows ==
  /\ stage \in Types \ {"Transaction", "UpdateBlockInternalCount"}
  /\ Committed(buff[stage])
  /\ UNCHANGED counts

(* Mutant of AllFilled: the converter takes a transaction as it is.        *)
AllFilledAny == TRUE

(* The converter of transactions reads their receipts.                     *)
AllFilled == buff["Transaction"] = buff[Receipts]

CommitTransactions ==
  /\ stage = "Transaction" /\ AllFilled
  /\ Committed(buff["Transaction"])
  /\ UNCHANGED counts

(* The update names the two counts only; the rows of Block leave them.     *)
CommitCounts ==
  /\ stage = "UpdateBlockInternalCount"
  /\ counts' = [b \in Blocks |->
       LET new == {r \in buff["UpdateBlockInternalCount"] : r.block = b} IN
       IF new = {} THEN counts[b]
       ELSE LET r == CHOOSE r \in new : TRUE IN [traces |-> r.traces, internal |-> r.internal]]
  /\ Committed({})

Commit == CommitRows \/ CommitTransactions \/ CommitCounts
-----------------------------------------------------------------------------
(* The round ends, or fails, or its process does.                          *)

Record ==
  /\ stage = "record"
  /\ synced' = RoundEnd /\ unanswered' = unanswered \cup missed
  /\ stage' = "blocks" /\ buff' = Empty /\ missed' = {}
  /\ UNCHANGED <<mission, stored, counts, faults>>

StartOver ==
  /\ stage' = "blocks" /\ buff' = Empty /\ missed' = {}
  /\ UNCHANGED <<mission, synced, stored, counts, unanswered>>

(* Mutant of ReceiptMissing: the items are exported again as they are.     *)
ReceiptMissingAgain ==
  /\ stage = "Transaction" /\ ~AllFilled
  /\ UNCHANGED chainVars

(* A transaction without its receipt: the export raises.                   *)
ReceiptMissing ==
  /\ stage = "Transaction" /\ ~AllFilled
  /\ StartOver /\ UNCHANGED faults

(* A job, the exporter or the recorder raises; the controller retries.     *)
RoundFails ==
  /\ stage # "blocks" /\ faults < MaxFaults
  /\ faults' = faults + 1
  /\ StartOver

(* The process ends, at any point, and is started again.                   *)
Restart ==
  /\ faults < MaxFaults
  /\ faults' = faults + 1
  /\ StartOver

Collect == \/ CollectBlocks \/ CollectReceipts \/ CollectTraces
           \/ CollectContracts \/ CollectBalances
-----------------------------------------------------------------------------
RequestKinds == {"Block", Receipts, "Trace", "Unavailable", "Contract", "CoinBalance"}

(* Every row that an attempt may write.                                    *)
Rows ==
  {BlockRow(b) : b \in Blocks} \cup {PlaceholderRow(b) : b \in Blocks}
    \cup {TransactionRow(t) : t \in Transactions}
    \cup (UNION {{LogRow(t, i) : i \in 1..t.logs} : t \in Transactions})
    \cup (UNION {{TraceRow(c), InternalRow(c), ContractRow(c)} : c \in Calls})
    \cup (UNION {{BalanceRow(b, a) : a \in Parties(b, Transactions, Calls)} : b \in Blocks})

ChainTypeOK ==
  /\ mission \in Missions
  /\ synced \in {StartBlock - 1} \cup Blocks
  /\ stage \in {Plan[i] : i \in DOMAIN Plan}
  /\ \A type \in RowTypes : buff[type] \subseteq Rows
  /\ buff[Receipts] \subseteq buff["Transaction"]
  /\ stored \subseteq Rows
  /\ counts \in [Blocks -> [traces : Nat, internal : Nat]]
  /\ \A r \in missed \cup unanswered : r.kind \in RequestKinds /\ r.block \in Blocks
  /\ faults \in 0..MaxFaults

NoAnswer(kind, b) == \E r \in unanswered : r.kind = kind /\ r.block = b

TransactionsIn(b) == {t \in Transactions : t.block = b}
CallsTold(b) ==
  IF NoAnswer("Trace", b) \/ NoAnswer("Unavailable", b) THEN {} ELSE {c \in Calls : c.block = b}

(* The rows a recorded block owes to the answers its attempt was given.    *)
Due(b) ==
  IF NoAnswer("Block", b) THEN {}
  ELSE ({BlockRow(b)} \cup {TransactionRow(t) : t \in TransactionsIn(b)}
          \cup (UNION {{LogRow(t, i) : i \in 1..t.logs} : t \in TransactionsIn(b)})
          \cup {TraceRow(c) : c \in CallsTold(b)}
          \cup {InternalRow(c) : c \in {d \in CallsTold(b) : Internal(d)}}
          \cup {ContractRow(c) : c \in {d \in CallsTold(b) : Creates(d)}}
          \cup {BalanceRow(b, a) :
                  a \in Parties(b, TransactionsIn(b), {d \in CallsTold(b) : Internal(d)})}
          \cup (IF NoAnswer("Unavailable", b) THEN {PlaceholderRow(b)} ELSE {})) \ unanswered

(* Once a mission for all the tables has recorded a block, everything the  *)
(* node told of the block is in them, whatever failed and was tried again  *)
(* on the way, and every transaction of it was given its receipt.  An      *)
(* answer that is left out is the one way to lose something:               *)
(* rpc_response_batch_to_results and zip_rpc_response pass over it, and    *)
(* the block is not asked for again.                                       *)
CompleteOnceSynced ==
  mission \notin Filtered /\ RowTypes \subseteq {Plan[i] : i \in DOMAIN Plan} =>
    \A b \in StartBlock..synced : Due(b) \subseteq stored

TracesOf(b) == {r \in stored : r.kind = "Trace" /\ r.block = b}
Asked(b) == \A r \in unanswered : r.block = b => r.kind \notin {"Block", "Trace"}

(* traces_count of a recorded block is the number of its traces, unless a  *)
(* placeholder of one attempt and the traces of another are both there,    *)
(* when one of the two attempts was counted; it never exceeds them.        *)
(* internal_transactions_count is zero, whatever the block did.            *)
CountsAreBacked ==
  Runs("Trace") /\ Runs("UpdateBlockInternalCount") =>
    \A b \in StartBlock..synced :
      LET T == TracesOf(b) IN
      /\ counts[b].traces <= Cardinality(T)
      /\ \/ ~Asked(b)
         \/ counts[b].traces = Cardinality(T)
         \/ /\ PlaceholderRow(b) \in T /\ Cardinality(T) > 1
            /\ counts[b].traces \in {1, Cardinality(T) - 1}
      /\ counts[b].internal = 0

(* The row a row refers to.                                                *)
NoRow == Row("none", 0, 0, 0)
ParentOf == [r \in Rows |->
  IF r.kind = "Block" THEN NoRow
  ELSE IF r.kind = "Log" THEN Row("Transaction", r.block, r.tx, 0)
  ELSE IF r.kind \in {"ContractInternalTransaction", "Contract"}
       THEN Row("Trace", r.block, r.tx, r.at)
  ELSE BlockRow(r.block)]

BlockNumber == [r \in Rows |-> r.block]

Promise == INSTANCE Tables WITH
  Parent <- ParentOf, BlockOf <- BlockNumber, First <- StartBlock

ASSUME RowsAssumption == Promise!WellFormed

(* The chain jobs keep the promises of Tables: the jobs run in the order   *)
(* of what they depend on and each exports its types in the order of what  *)
(* they refer to, so a round that stops anywhere leaves no row without the *)
(* row it refers to.                                                       *)
ImplementsTables == Promise!Spec
===============================================================================
