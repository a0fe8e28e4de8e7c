------------------------------ MODULE MCFeatures ------------------------------
(***************************************************************************)
(* A chain of seven blocks for the chain and the feature jobs.             *)
(***************************************************************************)
EXTENDS Features

MCMiner == [b \in Blocks |-> 9]

Tx(b, i, from, to, logs) == [block |-> b, index |-> i, from |-> from, to |-> to, logs |-> logs]

(* Two transactions in blocks 1 and 3, none in block 7; one to oneself.    *)
MCTransactions ==
  {Tx(1, 0, 1, 2, 2), Tx(1, 1, 2, 1, 0), Tx(2, 0, 1, 1, 3), Tx(3, 0, 2, 3, 1), Tx(3, 1, 1, 2, 4),
   Tx(4, 0, 1, 3, 2), Tx(5, 0, 3, 0, 1), Tx(6, 0, 1, 2, 1)}

Call(b, i, path, kind, from, to, moves, ok) ==
  [block |-> b, tx |-> i, path |-> path, kind |-> kind, from |-> from, to |-> to,
   moves |-> moves, ok |-> ok]

Outermost == {Call(t.block, t.index, <<>>, IF t.to = 0 THEN "create" ELSE "call",
                   t.from, IF t.to = 0 THEN 5 ELSE t.to, t.block = 1, TRUE) : t \in MCTransactions}

(* Nested calls in block 1, with a transfer to oneself and a delegatecall; *)
(* a creation that failed in block 2.                                      *)
MCCalls == Outermost \cup
  {Call(1, 0, <<0>>, "call", 2, 4, TRUE, TRUE), Call(1, 0, <<0, 0>>, "delegatecall", 4, 3, TRUE, TRUE),
   Call(1, 0, <<1>>, "call", 2, 2, TRUE, TRUE), Call(2, 0, <<0>>, "create", 1, 6, FALSE, FALSE)}

Pl(b, i, at, kind, pool) == [block |-> b, tx |-> i, at |-> at, kind |-> kind, pool |-> pool]

(* Pool 11 is created and swaps in one round, 12 came before the first *)
(* block, 13 is created only, 14 belongs to another factory.               *)
MCPools == {11, 12, 13, 14}
MCFactoryPools == {11, 12, 13}
MCPoolLogs ==
  {Pl(1, 0, 1, "created", 11), Pl(1, 0, 2, "swap", 11), Pl(2, 0, 1, "swap", 11),
   Pl(2, 0, 2, "swap", 12), Pl(3, 0, 1, "created", 13), Pl(3, 1, 1, "swap", 14),
   Pl(4, 0, 1, "swap", 12), Pl(6, 0, 1, "swap", 12)}

Nl(b, i, at, kind, token, owner) ==
  [block |-> b, tx |-> i, at |-> at, kind |-> kind, token |-> token, owner |-> owner]

MCNftLogs ==
  {Nl(2, 0, 3, "mint", 1, 1), Nl(3, 1, 2, "mint", 2, 2), Nl(3, 1, 3, "liquidity", 1, 0),
   Nl(4, 0, 2, "burn", 2, 0), Nl(5, 0, 1, "move", 1, 3)}

Bu(b, i, decodes, ops) == [block |-> b, tx |-> i, decodes |-> decodes, ops |-> ops]
Bl(b, i, at, kind, op) == [block |-> b, tx |-> i, at |-> at, kind |-> kind, op |-> op]

(* A regular bundle, one without BeforeExecution, one whose events are in  *)
(* another order, and one that is sent through another contract.           *)
MCBundles == {Bu(2, 0, TRUE, <<1, 2>>), Bu(1, 0, TRUE, <<3, 4>>),
              Bu(3, 1, TRUE, <<6, 5>>), Bu(6, 0, FALSE, <<>>)}
MCBundleLogs ==
  {Bl(2, 0, 1, "before", 0), Bl(2, 0, 2, "event", 1), Bl(2, 0, 3, "event", 2),
   Bl(1, 0, 1, "event", 3), Bl(1, 0, 2, "event", 4),
   Bl(3, 1, 1, "before", 0), Bl(3, 1, 2, "event", 5), Bl(3, 1, 3, "event", 6),
   Bl(6, 0, 1, "event", 7)}

MCMissions == {"explorer", "uniswap", "activeness", "user_ops"}

(* The filters of the uniswap mission ask for the logs of pools and of the *)
(* position NFT, those of the user_ops mission for UserOperationEvent.     *)
MCFiltered == {"uniswap", "user_ops"}
HasLog(t, L) == \E l \in L : l.block = t.block /\ l.tx = t.index
MCWatched ==
  [m \in MCMissions |->
     IF m = "uniswap" THEN {t \in MCTransactions : HasLog(t, MCPoolLogs \cup MCNftLogs)}
     ELSE IF m = "user_ops" THEN {t \in MCTransactions : HasLog(t, {l \in MCBundleLogs : l.kind = "event"})}
     ELSE {}]

(* The jobs of a mission and, after each, its required types in the order  *)
(* of its export.                                                          *)
MCPlanOf ==
  [explorer |-> <<"blocks", "Block", "transactions_and_logs", "Transaction", "Log",
                  "traces", "Trace", "ContractInternalTransaction", "UpdateBlockInternalCount",
                  "contracts", "Contract", "coin_balances", "CoinBalance", "record">>,
   uniswap |-> <<"blocks", "transactions_and_logs",
                 "uniswap_pools", "AllFeatureValueRecordUniswapV3Pool", "UniswapV3Pool",
                 "uniswap_tokens", "AllFeatureValueRecordUniswapV3Token", "UniswapV3Token", "record">>,
   activeness |-> <<"blocks", "transactions_and_logs", "traces", "contracts",
                    "activeness", "AllFeatureValueRecordTraitsActiveness",
                    "CurrentTraitsActiveness", "record">>,
   user_ops |-> <<"blocks", "transactions_and_logs", "user_ops", "UserOperationsResult", "record">>]
===============================================================================
