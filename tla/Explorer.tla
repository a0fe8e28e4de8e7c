------------------------------- MODULE Explorer -------------------------------
(***************************************************************************)
(* The explorer API reads the tables while the indexer writes them.  A     *)
(* request is a sequence of queries, each of which sees what is committed  *)
(* when it starts; its answer is kept in a cache for a while.  A client    *)
(* walks through the pages of a list.  The indexer is any that keeps the   *)
(* promises of Tables.  A job outside this repository writes statistics:   *)
(* of whole days, and when the day is over and indexed.                    *)
(***************************************************************************)
EXTENDS TableRows, FiniteSets, Sequences

CONSTANTS
  DayOf,       \* DayOf[b]: the day of a block
  Requests,    \* the lists and details a client may ask for
  PageSize,    \* ?size=, and PAGE_SIZE
  MaxShown,    \* MAX_TRANSACTION and the like
  MaxWalks     \* bound: walks of the client

(* A row has kind, block, transaction, place and the addresses it names.   *)
RowKinds == {"Block", "Transaction", "Log", "Trace", "ContractInternalTransaction",
             "TokenTransfer", "Token", "L1ToL2BridgeTransaction", "L2ToL1BridgeTransaction", "StateBatch", "DATransaction"}

VARIABLES
  synced, stored,  \* as in Tables
  aggregated,      \* the last day in the statistics
  request,         \* what the client walks through
  walks,           \* its walks so far
  page,            \* the page asked for, 0 before the first
  todo,            \* the queries the request has left
  got,             \* what it has read
  cache,           \* answers kept, by page
  answer,          \* the last answer
  walk             \* history: what the pages of the walk showed, and whether in order

dbVars == <<synced, stored>>
vars == <<dbVars, aggregated, request, walks, page, todo, got, cache, answer, walk>>

DB == INSTANCE Tables

Blocks == {BlockOf[r] : r \in Rows}
Days == {DayOf[b] : b \in Blocks}

ASSUME ExplorerAssumption ==
  /\ \A r \in Rows : r.kind \in RowKinds
  /\ PageSize \in Nat \ {0} /\ MaxShown \in Nat /\ MaxWalks \in Nat
  /\ Days \subseteq Nat \ {0}
  /\ \A b, c \in Blocks : b <= c => DayOf[b] <= DayOf[c]

(* Finitely many rows, none before the first block; a block and a batch    *)
(* have one row each.                                                      *)
ASSUME RecordsAssumption ==
  /\ IsFiniteSet(Rows)
  /\ \A r \in Rows : r.block = BlockOf[r] /\ First <= r.block /\ r.tx \in Nat /\ r.at \in Nat
  /\ \A r, s \in Rows :
       r.kind = "Block" /\ s.kind = "Block" /\ r.block = s.block => r = s
  /\ \A r, s \in Rows :
       r.kind = "StateBatch" /\ s.kind = "StateBatch" /\ r.tx = s.tx => r = s
-----------------------------------------------------------------------------
(* What a request is about.                                                *)

Everything     == [by |-> "none", value |-> 0]
OfAddress(a)   == [by |-> "address", value |-> a]
OfBlock(b)     == [by |-> "block", value |-> b]
OfDay(d)       == [by |-> "date", value |-> d]
OfTx(t)        == [by |-> "transaction", value |-> t]
OfAddressOn(a, d) == [by |-> "address_and_date", value |-> <<a, d>>]

Match(f, r) ==
  \/ f.by = "none"
  \/ f.by = "address" /\ f.value \in r.names
  \/ f.by = "block" /\ r.block = f.value
  \/ f.by = "date" /\ DayOf[r.block] = f.value
  \/ f.by = "transaction" /\ r.tx = f.value
  \/ f.by = "address_and_date" /\ f.value[1] \in r.names /\ DayOf[r.block] = f.value[2]

(* What a list joins to its rows: the transaction of a log, the token of a *)
(* transaction's transfer, the transaction of an exported one.  A row that *)
(* has none is left out.                                                   *)
HasTransaction(r) == \E s \in stored : s.kind = "Transaction" /\ s.tx = r.tx
HasToken(r)       == \E s \in stored : s.kind = "Token" /\ s.names \subseteq r.names
Joined(r) == \A k \in request.joins : IF k = "Token" THEN HasToken(r) ELSE HasTransaction(r)

Asked(r) == r.kind = request.table /\ Match(request.filter, r)
Matching == {r \in stored : Asked(r) /\ Joined(r)}

(* The queries of get_address_transaction_cnt, in its order, of            *)
(* get_address_token_transfer_cnt and get_token_address_token_transfer_cnt *)
(* in theirs, and of get_total_txn_count.                                  *)
AddressTransactionCnt == <<"metadata", "recent", "statistics">>
TokenTransferCnt      == <<"metadata", "statistics", "recent">>
TotalTxnCount         == <<"daily", "later">>

(* A list: the queries before and including the rows, the rule for those   *)
(* after them, and the keys of its order: the block, the number of the     *)
(* transaction along the chain (or of the batch), the place in it.         *)
JoinedList(table, joins, f, queries, rule, keys) ==
  [table |-> table, joins |-> joins, filter |-> f, queries |-> queries, rule |-> rule, keys |-> keys]
List(table, f, queries, rule, keys) == JoinedList(table, {}, f, queries, rule, keys)

(* ExplorerTransactions                                                    *)
TransactionList(f) ==
  List("Transaction", f,
       (IF f.by = "block" THEN <<"block">>
        ELSE IF f.by = "address" THEN AddressTransactionCnt ELSE <<>>) \o <<"rows">>,
       "transactions", 2)

(* ExplorerInternalTransactions: a transaction's calls are not ordered.    *)
InternalTransactionList(f) ==
  List("ContractInternalTransaction", f, <<"rows">>, "internal", 2)

(* ExplorerTokenTransfers: the total comes first.                          *)
TokenTransferList(f) ==
  List("TokenTransfer", f,
       (IF f.by = "none" THEN <<"estimate">> ELSE TokenTransferCnt) \o <<"rows">>, "before", 3)

(* ExplorerBlocks: the page is a range of numbers below the newest block.  *)
BlockList == List("Block", Everything, <<"last", "numbers">>, "before", 1)

(* ExplorerMainStats: the number of transactions, then the newest block.   *)
MainStats == List("Transaction", Everything, TotalTxnCount \o <<"newest">>, "before", 2)

(* ExplorerTransactionDetail and the lists under it: all the rows of a     *)
(* transaction.                                                            *)
TransactionDetail(t) == List("Transaction", OfTx(t), <<"all">>, "whole", 3)
TransactionTraces(t) == List("Trace", OfTx(t), <<"all">>, "whole", 3)
TransactionLogs(t) == JoinedList("Log", {"Transaction"}, OfTx(t), <<"all">>, "whole", 0)
TransactionTokenTransfers(t) ==
  JoinedList("TokenTransfer", {"Token"}, OfTx(t), <<"all">>, "whole", 0)
TransactionInternals(t) == List("ContractInternalTransaction", OfTx(t), <<"all">>, "whole", 2)

(* ExplorerBlockDetail, and ExplorerStateBatchDetail: is it the last one?  *)
BlockDetail(b) == List("Block", OfBlock(b), <<"all", "earlier", "is_last">>, "detail", 1)
StateBatchDetail(i) == List("StateBatch", OfTx(i), <<"all", "is_last">>, "whole", 2)

(* ExplorerTokens of a type: in the order of what another program writes.  *)
TokenList == List("Token", Everything, <<"rows", "count">>, "after", 0)

(* The first page of what an address has: ExplorerAddressTransactions,     *)
(* ExplorerAddressTokenTransfers, ExplorerAddressInternalTransactions and  *)
(* ExplorerAddressLogs; ExplorerTokenTokenTransfers of a token.            *)
AddressTransactions(a) == List("Transaction", OfAddress(a), <<"rows">>, "address", 2)
AddressTokenTransfers(a) ==
  List("TokenTransfer", OfAddress(a), <<"rows">> \o TokenTransferCnt, "once", 3)
AddressInternals(a) == List("ContractInternalTransaction", OfAddress(a), <<"rows">>, "count", 2)
AddressLogs(a) == JoinedList("Log", {"Transaction"}, OfAddress(a), <<"rows">>, "shown", 0)
TokenTokenTransfers(a) ==
  List("TokenTransfer", OfAddress(a), <<"token", "rows">> \o TokenTransferCnt, "once", 3)

(* The lists of the L2 explorer.  Deposits and withdrawals are ordered by  *)
(* block only; without a filter, or for an address and a type, the request *)
(* raises after the rows: the statistics it reads have no model.           *)
Deposits(f)    == List("L1ToL2BridgeTransaction", f, <<"rows", "count">>, "after", 1)
Withdrawals(f) == List("L2ToL1BridgeTransaction", f, <<"rows", "count">>, "after", 1)
StateBatches   == List("StateBatch", Everything, <<"rows", "index">>, "after", 2)
DABatches      == List("DATransaction", Everything, <<"rows", "count">>, "uncached", 2)

(* ExplorerExportTransactions and ExplorerExportInternalTransactions, by   *)
(* date: the rows of an address from the first block of the day to the     *)
(* last one, fewer than the limit of an export.                            *)
Export(table, a, d) ==
  List(table, OfAddressOn(a, d), <<"first_block", "last_block", "range">>, "export", 2)

(* token_transfers, for the exports of the three types of tokens: the      *)
(* tokens of the transfers are read after them.                            *)
ExportTransfers(a, d) ==
  JoinedList("TokenTransfer", {"Transaction"}, OfAddressOn(a, d),
             <<"first_block", "last_block", "range", "tokens">>, "export", 1)

(* The requests: each of these for any address, block, day or transaction. *)
Endpoint(q) ==
  LET f == q.filter  v == f.value IN
  \/ q = TransactionList(f) /\ f \in {Everything, OfAddress(v), OfBlock(v), OfDay(v)}
  \/ q = InternalTransactionList(f) /\ f \in {Everything, OfAddress(v), OfBlock(v)}
  \/ q = TokenTransferList(f) /\ f \in {Everything, OfAddress(v)}
  \/ q \in {BlockList, MainStats, TokenList, StateBatches, DABatches}
  \/ q \in {TransactionDetail(v), TransactionTraces(v), TransactionLogs(v),
            TransactionTokenTransfers(v), TransactionInternals(v)}
  \/ q \in {BlockDetail(v), StateBatchDetail(v)} /\ v \in Nat
  \/ q \in {AddressTransactions(v), AddressTokenTransfers(v), AddressInternals(v),
            AddressLogs(v), TokenTokenTransfers(v)}
  \/ q \in {Deposits(f), Withdrawals(f)} /\ f \in {OfAddress(v), OfBlock(v)}
  \/ /\ f.by = "address_and_date" /\ v[2] \in Nat
     /\ q \in {Export("Transaction", v[1], v[2]), Export("ContractInternalTransaction", v[1], v[2]),
               ExportTransfers(v[1], v[2])}

ASSUME RequestsAssumption == \A q \in Requests : Endpoint(q)

OnePage == {"address", "count", "shown", "once"}
Whole   == {"whole", "detail", "export"}
-----------------------------------------------------------------------------
(* The rows of a page.                                                     *)

(* Mutant of Offset: pages are taken to start at 0.                        *)
OffsetFromZero(p) == p * PageSize

Offset(p) == (p - 1) * PageSize

Above(r, s) ==
  \/ request.keys > 0 /\ r.block > s.block
  \/ request.keys > 1 /\ r.block = s.block /\ r.tx > s.tx
  \/ request.keys > 2 /\ r.block = s.block /\ r.tx = s.tx /\ r.at > s.at

(* Where a page and the run of rows that no key tells from r overlap.      *)
Tied(M, r) == {s \in M : ~Above(r, s) /\ ~Above(s, r)}
Share(M, r, p) ==
  LET lo == Cardinality({s \in M : Above(s, r)})
      hi == lo + Cardinality(Tied(M, r))
      from == IF lo < Offset(p) THEN Offset(p) ELSE lo
      to == IF hi < Offset(p) + PageSize THEN hi ELSE Offset(p) + PageSize
  IN  IF from < to THEN to - from ELSE 0

(* ORDER BY ... LIMIT ... OFFSET ...: what is tied comes in any order, and *)
(* in another one each time.                                               *)
PagesOf(M, p) ==
  {P \in SUBSET {r \in M : Share(M, r, p) > 0} :
     \A r \in M : Cardinality(P \cap Tied(M, r)) = Share(M, r, p)}

Short(P) == Cardinality(P) < PageSize
Smallest(B) == IF B = {} THEN 0 ELSE CHOOSE b \in B : \A c \in B : b <= c
Newest(B) == IF B = {} THEN 0 ELSE CHOOSE b \in B : \A c \in B : c <= b
StoredBlocks == {s.block : s \in {r \in stored : r.kind = "Block"}}
LastBlock == Newest(StoredBlocks)
LastIndex == Newest({r.tx : r \in {s \in stored : s.kind = "StateBatch"}})
Latest == IF request.table = "StateBatch" THEN LastIndex ELSE LastBlock

(* The rule of ExplorerTransactions: a short page tells the total; a total *)
(* of zero is counted again, without the filter where the page is empty.   *)
TransactionsRest(P, total) ==
  IF Short(P) /\ (P # {} \/ page = 1) THEN <<"shown">>
  ELSE IF total # 0 THEN <<>>
  ELSE IF request.filter.by # "none" /\ P # {} THEN <<"count">>
  ELSE TotalTxnCount

InternalRest(P) ==
  IF Short(P) /\ (P # {} \/ page = 1) THEN <<"shown">>
  ELSE IF request.filter.by = "none" THEN <<"estimate">> ELSE <<"count">>

AddressRest(P) == IF Short(P) THEN <<"shown">> ELSE AddressTransactionCnt
InternalsRest(P) == IF Short(P) THEN <<"shown">> ELSE <<"count">>

Rest(P, total) ==
  CASE request.rule = "transactions" -> TransactionsRest(P, total)
    [] request.rule = "internal"     -> InternalRest(P)
    [] request.rule = "address"      -> AddressRest(P)
    [] request.rule = "count"        -> InternalsRest(P)
    [] request.rule = "shown"        -> <<"shown">>
    [] OTHER                         -> <<>>
-----------------------------------------------------------------------------
(* The queries.  An answer is made of what they read and, as a history,    *)
(* of what there was when the request began: rows of recorded blocks, and  *)
(* what else could be shown then (but for the details of a block, which    *)
(* need the one before it, and the transfers of a token, which need it).   *)

NeedsMore == request.rule = "detail" \/ Head(request.queries) = "token"
Due == {r \in stored : Asked(r) /\ (r.block <= synced \/ (~NeedsMore /\ Joined(r)))}

Blank == [rows |-> {}, total |-> 0, since |-> 0, found |-> TRUE, rough |-> FALSE,
          had |-> Due, latest |-> Latest, days |-> aggregated, version |-> 0]
NoAnswer == [rows |-> {}, total |-> 0, since |-> 0, found |-> FALSE, rough |-> FALSE,
             had |-> {}, latest |-> 0, days |-> 0, version |-> 0]

Query(q) == todo # <<>> /\ Head(todo) = q
Goes(g, rest) ==
  /\ got' = g /\ todo' = rest
  /\ UNCHANGED <<dbVars, aggregated, request, walks, page, cache, answer, walk>>
Counted(n) == [got EXCEPT !.total = n]

(* ScheduledWalletCountMetadata.last_data_timestamp and its like.          *)
ReadMetadata == Query("metadata") /\ Goes([got EXCEPT !.since = aggregated], Tail(todo))

(* Mutant of Recent: the first day after the statistics is left out.       *)
RecentLater(since) == {r \in Matching : DayOf[r.block] > since + 1}

Recent(since) == {r \in Matching : DayOf[r.block] > since}
ReadRecent ==
  Query("recent") /\ Goes(Counted(got.total + Cardinality(Recent(got.since))), Tail(todo))

Past == {r \in Matching : DayOf[r.block] <= aggregated}
ReadStatistics ==
  Query("statistics") /\ Goes(Counted(got.total + Cardinality(Past)), Tail(todo))

(* DailyTransactionsAggregates: the count and its day are one row.         *)
AllPast == {r \in stored : r.kind = "Transaction" /\ DayOf[r.block] <= aggregated}
AllRecent(since) == {r \in stored : r.kind = "Transaction" /\ DayOf[r.block] > since}
ReadDaily ==
  /\ Query("daily")
  /\ Goes([got EXCEPT !.total = Cardinality(AllPast), !.since = aggregated], Tail(todo))
ReadLater ==
  Query("later") /\ Goes(Counted(got.total + Cardinality(AllRecent(got.since))), Tail(todo))

ReadCount == Query("count") /\ Goes(Counted(Cardinality(Matching)), Tail(todo))

(* pg_class.reltuples                                                      *)
ReadEstimate ==
  /\ Query("estimate")
  /\ \E n \in {0, Cardinality(Rows)} :
       Goes([got EXCEPT !.total = n, !.rough = TRUE], Tail(todo))

(* get_block_by_number: the block has its number of transactions with it.  *)
TransactionsCount(b) == Cardinality({r \in Rows : r.kind = "Transaction" /\ r.block = b})
BlockIsThere(b) == \E r \in stored : r.kind = "Block" /\ r.block = b
ReadBlock ==
  /\ Query("block")
  /\ IF BlockIsThere(request.filter.value)
     THEN Goes(Counted(TransactionsCount(request.filter.value)), Tail(todo))
     ELSE Goes([got EXCEPT !.found = FALSE], <<"answer">>)

Shown(P) == [got EXCEPT !.rows = P, !.version = Cardinality(stored)]

ReadRows ==
  /\ Query("rows")
  /\ \E P \in PagesOf(Matching, page) : Goes(Shown(P), Rest(P, got.total) \o Tail(todo))

(* Nothing for a transaction, a block or a batch is an error; for what is  *)
(* in a transaction it is an answer.                                       *)
Details == {"Transaction", "Block", "StateBatch"}
ReadAll ==
  /\ Query("all")
  /\ IF Matching = {} /\ request.table \in Details
     THEN Goes([got EXCEPT !.found = FALSE], <<"answer">>)
     ELSE Goes([Shown(Matching) EXCEPT !.total = Cardinality(Matching)], Tail(todo))

(* The block before, which the first one is for itself: its timestamp is   *)
(* read without asking whether it is there.                                *)
Earlier(b) == IF b > 1 THEN b - 1 ELSE 1
ReadEarlier ==
  /\ Query("earlier")
  /\ IF BlockIsThere(Earlier(request.filter.value))
     THEN Goes(got, Tail(todo))
     ELSE Goes([got EXCEPT !.found = FALSE, !.rows = {}], <<"answer">>)

IsLast == Latest = request.filter.value
ReadIsLast == Query("is_last") /\ Goes(Counted(IF IsLast THEN 1 ELSE 0), Tail(todo))

(* get_token_by_address                                                    *)
ReadToken ==
  /\ Query("token")
  /\ IF \E s \in stored : s.kind = "Token" /\ request.filter.value \in s.names
     THEN Goes(got, Tail(todo))
     ELSE Goes([got EXCEPT !.found = FALSE], <<"answer">>)

ReadShown ==
  /\ Query("shown")
  /\ Goes(Counted((page - 1) * PageSize + Cardinality(got.rows)), Tail(todo))

ReadLast ==
  Query("last") /\ Goes([Counted(LastBlock) EXCEPT !.version = LastBlock], Tail(todo))

(* Mutant of Numbers: the first number of the page is one too low.         *)
NumbersAndOne(end) == {b \in Blocks : end - PageSize <= b /\ b <= end}

Numbers(end) == {b \in Blocks : end - PageSize < b /\ b <= end}
ReadNumbers ==
  /\ Query("numbers")
  /\ Goes([got EXCEPT !.rows = {r \in Matching : r.block \in Numbers(got.total - Offset(page))}],
          Tail(todo))

(* The highest index of a batch, from 0.                                   *)
ReadIndex == Query("index") /\ Goes(Counted(LastIndex), Tail(todo))

(* get_block_number_range: 0 where there is no such block.                 *)
ReadFirstBlock ==
  /\ Query("first_block")
  /\ Goes([got EXCEPT !.since =
              Smallest({b \in StoredBlocks : DayOf[b] >= request.filter.value[2]})], Tail(todo))
ReadLastBlock ==
  /\ Query("last_block")
  /\ Goes(Counted(Newest({b \in StoredBlocks : DayOf[b] <= request.filter.value[2]})), Tail(todo))
ReadRange ==
  /\ Query("range")
  /\ Goes(Shown({r \in stored : /\ r.kind = request.table /\ request.filter.value[1] \in r.names
                                /\ got.since <= r.block /\ r.block <= got.total
                                /\ Joined(r)}), Tail(todo))

(* The name of each token is read without asking whether it is there.      *)
ReadTokens ==
  /\ Query("tokens")
  /\ IF \A r \in got.rows : HasToken(r)
     THEN Goes(got, Tail(todo))
     ELSE Goes([got EXCEPT !.found = FALSE, !.rows = {}], <<"answer">>)

(* An empty chain has no newest block: the statistics raise.               *)
ReadNewest ==
  Query("newest") /\ Goes([got EXCEPT !.found = LastBlock # 0, !.version = LastBlock], Tail(todo))

Read ==
  \/ ReadMetadata \/ ReadRecent \/ ReadStatistics \/ ReadDaily \/ ReadLater
  \/ ReadCount \/ ReadEstimate \/ ReadBlock \/ ReadRows \/ ReadAll \/ ReadShown
  \/ ReadLast \/ ReadNumbers \/ ReadNewest \/ ReadIndex
  \/ ReadEarlier \/ ReadIsLast \/ ReadToken
  \/ ReadFirstBlock \/ ReadLastBlock \/ ReadRange \/ ReadTokens
-----------------------------------------------------------------------------
(* The client and the cache.                                               *)

MayAsk(p) == p * PageSize <= MaxShown

NewWalk == [seen |-> {}, from |-> {}, version |-> 0, ordered |-> TRUE]
Onwards(w, p, a) ==
  [seen |-> w.seen \cup a.rows,
   from |-> IF p = 1 THEN a.had ELSE w.from,
   version |-> a.version,
   ordered |-> w.ordered /\ w.version <= a.version]

(* A list of numbers ends below the first one, another with a short page.  *)
Paged == request.rule \notin OnePage
ByNumber == Head(request.queries) = "last"
Ended ==
  /\ page > 0 /\ todo = <<>>
  /\ IF ByNumber THEN page * PageSize >= answer.total
     ELSE Short(answer.rows) \/ request.rule \in Whole

(* The next page of a walk, or the first one of another.                   *)
Turn ==
  /\ todo = <<>>
  /\ \/ Paged /\ ~Ended /\ answer.rows # {} /\ page' = page + 1 /\ UNCHANGED walks
     \/ walks < MaxWalks /\ page' = 1 /\ walks' = walks + 1
  /\ MayAsk(page')
SoFar == IF page' = 1 THEN NewWalk ELSE walk

(* A request that the cache does not answer, or no longer.                 *)
Ask ==
  /\ Turn
  /\ got' = Blank /\ todo' = request.queries \o <<"answer">> /\ answer' = NoAnswer
  /\ walk' = SoFar
  /\ UNCHANGED <<dbVars, aggregated, request, cache>>

(* cache.cached                                                            *)
AnswerFromCache ==
  /\ Turn
  /\ cache[page'] # NoAnswer /\ answer' = cache[page']
  /\ walk' = Onwards(SoFar, page', answer')
  /\ UNCHANGED <<dbVars, aggregated, request, todo, got, cache>>

(* Answers are kept, errors are not.                                       *)
Answer ==
  /\ Query("answer")
  /\ todo' = <<>> /\ got' = NoAnswer
  /\ answer' = [got EXCEPT !.since = 0]
  /\ cache' = IF got.found /\ request.rule \notin {"uncached", "export"} THEN [cache EXCEPT ![page] = answer'] ELSE cache
  /\ walk' = Onwards(walk, page, got)
  /\ UNCHANGED <<dbVars, aggregated, request, walks, page>>
-----------------------------------------------------------------------------
(* The indexer and the aggregation.                                        *)

(* A commit of several rows is as many of one row, with no query between.  *)
(* Rows that the request does not read are left out: the lists of the L2   *)
(* explorer and that of the tokens read no blocks.                         *)
OfBridge == {"L1ToL2BridgeTransaction", "L2ToL1BridgeTransaction", "StateBatch", "DATransaction"}
Reads(req, q) == \E i \in DOMAIN req.queries : req.queries[i] = q
OfTable(req) ==
  {r \in Rows :
     /\ r.kind = req.table
     /\ Match(req.filter, r) \/ req.rule = "transactions" \/ Reads(req, "is_last")}
RelevantTo == [req \in Requests |->
  OfTable(req) \cup
  {r \in Rows :
     \/ r.kind = "Block" /\ req.table \notin OfBridge \cup {"Token"}
     \/ r.kind = "Transaction" /\ r.kind \in req.joins /\ \E s \in OfTable(req) : s.tx = r.tx
     \/ /\ r.kind = "Token" /\ \E s \in OfTable(req) : r.names \subseteq s.names
        /\ r.kind \in req.joins \/ Reads(req, "token") \/ Reads(req, "tokens")}]
Relevant == RelevantTo[request]

(* What a row is joined to comes no later than the row.                    *)
ASSUME JoinsAssumption ==
  \A q \in Requests : \A r \in OfTable(q), k \in q.joins :
    \E s \in Rows : /\ s.kind = k /\ s.block <= r.block
                    /\ IF k = "Token" THEN s.names \subseteq r.names ELSE s.tx = r.tx

(* So does a token that is read beside its transfers.                      *)
ASSUME TokensAssumption ==
  \A q \in Requests : Reads(q, "token") \/ Reads(q, "tokens") =>
    \A r \in OfTable(q) :
      \E s \in Rows : /\ s.kind = "Token" /\ s.block <= r.block /\ s.names \subseteq r.names
                      /\ Reads(q, "token") => q.filter.value \in s.names

(* A transaction, a transfer and a call (its trace) refer to their block.  *)
ASSUME ParentsAssumption ==
  \A r \in Rows : r.kind \in {"Transaction", "ContractInternalTransaction", "TokenTransfer"} =>
    \E b \in Rows : /\ b.kind = "Block" /\ b.block = r.block
                    /\ b = Parent[r] \/ (Parent[r] \in Rows /\ b = Parent[Parent[r]])

(* Block details are those of blocks after which the mission began.        *)
ASSUME EarlierAssumption ==
  \A q \in Requests, r \in Rows :
    q.rule = "detail" /\ r.kind = "Block" /\ r.block = q.filter.value =>
      \E s \in Rows : s.kind = "Block" /\ s.block = Earlier(q.filter.value)

(* The blocks of a round come in their order.                              *)
Write ==
  /\ \E r \in Relevant \ stored :
       /\ r.kind = "Block" =>
            \A s \in Rows : s.kind = "Block" /\ s.block < r.block => s \in stored
       /\ stored' = stored \cup {r}
  /\ DB!Write
  /\ UNCHANGED <<aggregated, request, walks, page, todo, got, cache, answer, walk>>

(* The recorder is told when the round is stored.                          *)
Record ==
  /\ \E b \in Blocks : synced' = b
  /\ DB!Record
  /\ \A r \in Relevant : BlockOf[r] <= synced' => r \in stored
  /\ UNCHANGED <<aggregated, request, walks, page, todo, got, cache, answer, walk>>

Aggregate ==
  /\ \E d \in Days :
       /\ aggregated < d /\ \A b \in Blocks : DayOf[b] <= d => b <= synced
       /\ aggregated' = d
  /\ UNCHANGED <<dbVars, request, walks, page, todo, got, cache, answer, walk>>
-----------------------------------------------------------------------------
Pages == {p \in 1..MaxShown : MayAsk(p)}

Init ==
  /\ DB!Init
  /\ aggregated = 0
  /\ request \in Requests
  /\ walks = 0 /\ page = 0 /\ todo = <<>>
  /\ got = NoAnswer /\ answer = NoAnswer
  /\ cache = [p \in Pages |-> NoAnswer]
  /\ walk = NewWalk

Next == Ask \/ Read \/ Answer \/ AnswerFromCache \/ Write \/ Record \/ Aggregate

Spec == Init /\ [][Next]_vars
-----------------------------------------------------------------------------
(* Types: what is read is in the tables, and no page goes beyond the rows  *)
(* that the API is ready to show, unless all of a transaction is asked for.*)
TypeOK ==
  /\ DB!TypeOK
  /\ aggregated \in Days \cup {0}
  /\ page \in Nat /\ page * PageSize <= MaxShown
  /\ \A a \in {got, answer} :
       /\ a.rows \subseteq stored /\ a.total \in Nat
       /\ request.rule \in Whole \/ Cardinality(a.rows) <= PageSize

(* A total is never less than there was when the request began and never   *)
(* more than there is now, although it is summed up from statistics and    *)
(* recent rows that are read apart while both move on.  Rows of the days   *)
(* that are aggregated in between may be counted twice; a block tells the  *)
(* number of its transactions before they are there; the size of a whole   *)
(* table is a rough one; the logs of an address tell the page's, batches   *)
(* the highest index.  (Of a block or a batch the total is whether it is   *)
(* the last one: it is not, if there was a later one when it was asked     *)
(* for.)  An empty page after the last one of a day tells the number of    *)
(* all transactions, contrary to the rule in ExplorerTransactions.         *)
PastTheDay == request.filter.by = "date" /\ page > 1 /\ answer.rows = {}
Twice(a) == {r \in Matching : a.days < DayOf[r.block] /\ DayOf[r.block] <= aggregated}
Most(a) ==
  IF Reads(request, "is_last") THEN (IF a.latest > request.filter.value THEN 0 ELSE 1)
  ELSE IF ByNumber THEN LastBlock
  ELSE IF request.table = "StateBatch" THEN LastIndex
  ELSE IF Head(request.queries) = "block" THEN TransactionsCount(request.filter.value)
  ELSE Cardinality(Matching) + Cardinality(Twice(a))
Least(a) ==
  IF Reads(request, "is_last") THEN (IF IsLast THEN 1 ELSE 0)
  ELSE IF ByNumber THEN a.latest
  ELSE IF request.table = "StateBatch" THEN Cardinality(a.had) - 1
  ELSE Cardinality(a.had)
TotalsAreExact ==
  (answer.found /\ ~answer.rough /\ ~PastTheDay /\ request.rule \notin {"shown", "export"}) =>
    Least(answer) <= answer.total /\ answer.total <= Most(answer)

(* Who turns the pages until one is short, and gets no page that is older  *)
(* than the one before it, misses nothing that was there when the first    *)
(* page was asked for: what is indexed meanwhile moves rows to later pages *)
(* only.  This needs an order without ties, which tokens, logs, internal   *)
(* transactions, deposits and withdrawals do not have.  What is read whole *)
(* misses nothing in any case, least of all rows of recorded blocks, and   *)
(* no error is answered for what was there; but an export of transfers     *)
(* raises when the token of one is not there yet, on a day that was not    *)
(* over when it was asked for.                                             *)
Ordered == \A r \in walk.from : Tied(Matching, r) = {r}
Raised == /\ request.rule = "export" /\ ~answer.found
          /\ answer.days < request.filter.value[2]
WalkMissesNothing ==
  (/\ Ended /\ walk.ordered /\ ~Raised
   /\ Ordered \/ request.rule \in Whole
   /\ Head(request.queries) # "daily") =>
    walk.from \subseteq walk.seen
===============================================================================
