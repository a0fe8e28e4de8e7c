------------------------------ MODULE MCExplorer ------------------------------
(***************************************************************************)
(* Three blocks on two days, read through pages of two rows.               *)
(***************************************************************************)
EXTENDS Explorer

Row(kind, b, t, at, names) == [kind |-> kind, block |-> b, tx |-> t, at |-> at, names |-> names]

MCBlockRows == {Row("Block", b, 0, 0, {}) : b \in 1..3}

(* Address 1 sends all transactions; block 2 has two of them.  That of     *)
(* block 3 is in no list that a client asks for.                           *)
MCTransactionRows ==
  {Row("Transaction", 1, 1, 0, {1, 2}), Row("Transaction", 2, 2, 0, {1}),
   Row("Transaction", 2, 3, 0, {1, 2})}

MCTransferRows ==
  {Row("TokenTransfer", 1, 1, 1, {1, 3, 9}), Row("TokenTransfer", 2, 2, 1, {1, 3, 9}),
   Row("TokenTransfer", 3, 4, 1, {1, 2, 9})}

(* Token 9 is the one that is transferred.                                 *)
MCTokenRows == {Row("Token", 1, 1, 0, {9}), Row("Token", 2, 2, 0, {8}), Row("Token", 3, 4, 0, {7})}
MCTraceRows == {Row("Trace", 2, 2, 0, {1}), Row("Trace", 2, 2, 1, {1})}

MCInternalRows ==
  {Row("ContractInternalTransaction", 2, 2, 0, {1}), Row("ContractInternalTransaction", 2, 2, 1, {1}),
   Row("ContractInternalTransaction", 3, 4, 0, {1, 3})}

MCLogRows == {Row("Log", 2, 2, 0, {1}), Row("Log", 2, 2, 1, {9}), Row("Log", 2, 2, 2, {9})}

(* Deposits and withdrawals are tied within a block; batches are numbered. *)
MCBridgeRows ==
  {Row("L1ToL2BridgeTransaction", 1, 1, 0, {1}), Row("L1ToL2BridgeTransaction", 2, 2, 0, {1, 9}),
   Row("L1ToL2BridgeTransaction", 2, 3, 0, {1}), Row("L2ToL1BridgeTransaction", 1, 1, 0, {1}),
   Row("L2ToL1BridgeTransaction", 2, 2, 0, {1}), Row("L2ToL1BridgeTransaction", 3, 4, 0, {1})}
MCBatchRows ==
  {Row("StateBatch", 1, 0, 0, {}), Row("StateBatch", 2, 1, 0, {}), Row("StateBatch", 2, 2, 0, {}),
   Row("DATransaction", 1, 1, 0, {}), Row("DATransaction", 2, 3, 0, {}), Row("DATransaction", 3, 4, 0, {})}

MCRows == MCBlockRows \cup MCTransactionRows \cup MCTransferRows \cup MCInternalRows \cup MCLogRows
            \cup MCTokenRows \cup MCTraceRows \cup MCBridgeRows \cup MCBatchRows
MCNoRow == Row("Block", 0, 0, 0, {})
MCBlockOf == [r \in MCRows |-> r.block]
MCDayOf == [b \in 1..3 |-> IF b = 1 THEN 1 ELSE 2]

(* All that a block holds comes after it; the bridge missions export no    *)
(* blocks.                                                                 *)
MCParent ==
  [r \in MCRows |-> IF r.kind = "Block" \/ r \in MCBridgeRows \cup MCBatchRows \cup MCTokenRows THEN MCNoRow
                    ELSE CHOOSE s \in MCBlockRows : s.block = r.block]

MCRequests ==
  {TransactionList(f) : f \in {Everything, OfBlock(2), OfAddress(1), OfDay(2)}}
  \cup {InternalTransactionList(f) : f \in {Everything, OfAddress(1)}}
  \cup {TokenTransferList(f) : f \in {Everything, OfAddress(1)}}
  \cup {BlockList, MainStats, TransactionDetail(2), TransactionLogs(2),
        TransactionTokenTransfers(2), TransactionInternals(2), AddressTransactions(1),
        AddressTokenTransfers(2), AddressInternals(1), AddressLogs(9), TokenTokenTransfers(9),
        BlockDetail(2), StateBatchDetail(1), TransactionTraces(2), TokenList, ExportTransfers(3, 2),
        Deposits(OfAddress(1)), Withdrawals(OfAddress(1)), StateBatches, DABatches,
        Export("Transaction", 1, 2), Export("ContractInternalTransaction", 1, 2)}
===============================================================================
