------------------------------ MODULE TokenStore ------------------------------
(***************************************************************************)
(* What the token jobs leave in the database.  Each mission is a process   *)
(* with a recorder and a token cache of its own; all write the same tables.*)
(* A round of a mission runs ExportTokensAndTransfersJob,                  *)
(* ExportTokenBalancesJob and ExportTokenIdInfosJob; each collects its     *)
(* items and exports them with one commit per item type.                   *)
(*                                                                         *)
(* A value read from a contract (a balance, an owner, a supply) is         *)
(* represented by the block it was read at: the node's answer at a block   *)
(* does not change.  A contract emits one kind of transfer event.          *)
(***************************************************************************)
EXTENDS Integers, FiniteSets, Sequences

CONSTANTS
  Missions,
  From, To,       \* --start-block and --end-block of a mission
  Steps,          \* block_batch_size
  Chain,          \* the transfers on the chain
  Addresses, ZeroAddress,
  TokenAddresses,
  ContractType,   \* what the name, decimals, ownerOf ... calls say a contract is
  Countable,      \* contracts that answer totalSupply
  MaxFailures,    \* bound: rounds that fail and are retried by the same process
  MaxCrashes      \* bound: processes that end and are started again

TokenTypes == {"ERC20", "ERC721", "ERC1155"}

(* A multi transfer is that of one id out of a TransferSingle or           *)
(* TransferBatch event, a plain one comes from Transfer, Deposit or        *)
(* Withdrawal.                                                             *)
ASSUME TokenAssumption ==
  /\ Steps \in Nat \ {0} /\ MaxFailures \in Nat /\ MaxCrashes \in Nat
  /\ From \in [Missions -> Nat \ {0}] /\ To \in [Missions -> Nat]
  /\ ZeroAddress \notin Addresses /\ Countable \subseteq TokenAddresses
  /\ ContractType \in [TokenAddresses -> TokenTypes]
  /\ IsFiniteSet(Chain)
  /\ Chain \subseteq [block : Nat \ {0}, log : Nat, token : TokenAddresses, multi : BOOLEAN,
                      from : Addresses \cup {ZeroAddress}, to : Addresses \cup {ZeroAddress},
                      id : Nat]
  /\ \A t \in Chain : t.multi <=> ContractType[t.token] = "ERC1155"

VARIABLES
  synced,     \* last recorded block of a mission
  stage,      \* the job a mission collects for next, or the item type it commits next
  cache,      \* BaseJob.tokens: the token types a mission's process knows
  buff,       \* BaseJob._data_buff
  transfers,  \* erc20_, erc721_ and erc1155_token_transfers
  tokens,     \* tokens
  balances,   \* address_token_balances
  current,    \* address_current_token_balances
  details,    \* erc721_ and erc1155_token_id_details
  changes,    \* erc721_token_id_changes
  lost,       \* history: tokens that were cached by a round that failed before it exported them
  failures, crashes

tables == <<transfers, tokens, balances, current, details, changes>>
vars   == <<synced, stage, cache, buff, tables, lost, failures, crashes>>

Unknown == "unknown"   \* a token that is not in the cache, or has no row
Null    == "null"      \* a row without a token type

NoToken   == [type |-> Unknown, block |-> 0]
NoBalance == [id |-> 0, block |-> 0]
NoDetail  == [uri |-> FALSE, readAt |-> 0, block |-> 0]

Pairs == Addresses \X TokenAddresses
Ids   == {<<t.token, t.id>> : t \in Chain}
Pair(r) == <<r.address, r.token>>
Id(r)   == <<r.token, r.id>>

(* Mutant of Plan: the updates of an id are exported before its details.   *)
PlanUpdatesFirst ==
  <<"tokens_and_transfers",
      "ERC20TokenTransfer", "ERC721TokenTransfer", "ERC1155TokenTransfer",
      "Token", "UpdateToken",
    "token_balances",
      "TokenBalance", "CurrentTokenBalance",
    "token_id_infos",
      "ERC721TokenIdChange", "UpdateERC721TokenIdDetail", "ERC721TokenIdDetail",
      "UpdateERC1155TokenIdDetail", "ERC1155TokenIdDetail",
    "record">>

(* The jobs and, after each, its output types in the order of the export.  *)
Plan == <<"tokens_and_transfers",
            "ERC20TokenTransfer", "ERC721TokenTransfer", "ERC1155TokenTransfer",
            "Token", "UpdateToken",
          "token_balances",
            "TokenBalance", "CurrentTokenBalance",
          "token_id_infos",
            "ERC721TokenIdChange", "ERC721TokenIdDetail", "UpdateERC721TokenIdDetail",
            "ERC1155TokenIdDetail", "UpdateERC1155TokenIdDetail",
          "record">>

Jobs      == {"tokens_and_transfers", "token_balances", "token_id_infos", "record"}
Stages    == {Plan[i] : i \in DOMAIN Plan}
ItemTypes == Stages \ Jobs
Nothing   == [type \in ItemTypes |-> {}]

Position(s) == CHOOSE i \in DOMAIN Plan : Plan[i] = s

(* Where the round goes on: an item type without items is passed over.     *)
After(s, b) ==
  LET open == {i \in DOMAIN Plan : /\ i > Position(s)
                                   /\ Plan[i] \in Jobs \/ b[Plan[i]] # {}}
  IN  Plan[CHOOSE i \in open : \A j \in open : i <= j]

TransferType(type) == IF type = "ERC20" THEN "ERC20TokenTransfer"
                      ELSE IF type = "ERC721" THEN "ERC721TokenTransfer"
                      ELSE "ERC1155TokenTransfer"

RoundEnd(m) == IF synced[m] + Steps < To[m] THEN synced[m] + Steps ELSE To[m]

(* The items of a set that are the newest of their group.                  *)
SameGroup(r, s, keys) == \A k \in keys : r[k] = s[k]
Newest(S, keys) == {r \in S : \A s \in S : SameGroup(r, s, keys) => s.block <= r.block}
OnePerGroup(S, keys) == \A r, s \in S : SameGroup(r, s, keys) => r = s

Init ==
  /\ synced = [m \in Missions |-> From[m] - 1]
  /\ stage = [m \in Missions |-> "tokens_and_transfers"]
  /\ cache = [m \in Missions |-> [a \in TokenAddresses |-> Unknown]]
  /\ buff = [m \in Missions |-> Nothing]
  /\ transfers = [type \in TokenTypes |-> {}]
  /\ tokens = [a \in TokenAddresses |-> NoToken]
  /\ balances = {} /\ current = [p \in Pairs |-> NoBalance]
  /\ details = [i \in Ids |-> NoDetail] /\ changes = {}
  /\ lost = {} /\ failures = 0 /\ crashes = 0
-----------------------------------------------------------------------------
(* ExportTokensAndTransfersJob                                             *)

Logs(m) == {t \in Chain : synced[m] < t.block /\ t.block <= RoundEnd(m)}

(* Mutant of LastBlock: a token keeps the block it is first seen at.       *)
LastBlockFirstSeen(T, a) ==
  LET B == {t.block : t \in {u \in T : u.token = a}}
  IN  CHOOSE b \in B : \A c \in B : b <= c

Seen(T) == {t.token : t \in T}
LastBlock(T, a) ==
  LET B == {t.block : t \in {u \in T : u.token = a}}
  IN  CHOOSE b \in B : \A c \in B : c <= b

(* The cache after the calls for the tokens it did not know.               *)
Known(m, T) == [a \in TokenAddresses |->
  IF a \in Seen(T) /\ cache[m][a] = Unknown THEN ContractType[a] ELSE cache[m][a]]

(* Mutant of SpecificType: the type is that of the event.                  *)
SpecificTypeOfEvent(t, known) == IF t.multi THEN "ERC1155" ELSE "ERC20"

(* token_type of a transfer: that of the event, or the one in the cache    *)
(* where the event has no token id.  A plain transfer of an ERC1155 token  *)
(* counts as ERC20.                                                        *)
SpecificType(t, known) ==
  IF t.multi THEN "ERC1155"
  ELSE IF known[t.token] = "ERC1155" THEN "ERC20" ELSE known[t.token]

TransferItems(T, known, type) == {t \in T : SpecificType(t, known) = type}

NewTokens(m, T) ==
  {[token |-> a, type |-> ContractType[a], block |-> LastBlock(T, a)] :
     a \in {b \in Seen(T) : cache[m][b] = Unknown}}

(* The supply of every token of the round is asked for, not only that of   *)
(* the tokens known before, but never that of an ERC1155 token.            *)
SupplyUpdates(T) ==
  {[token |-> a, block |-> LastBlock(T, a)] :
     a \in {b \in Seen(T) \cap Countable : ContractType[b] # "ERC1155"}}

(* A row without a type gives a transfer no class: to_specific_transfer    *)
(* raises, the job's executor is poisoned, and the next process meets the  *)
(* same row.  The mission goes no further.                                 *)
CollectTransfers(m) ==
  LET T == Logs(m)
      known == Known(m, T)
      b == [Nothing EXCEPT
              !["ERC20TokenTransfer"]   = TransferItems(T, known, "ERC20"),
              !["ERC721TokenTransfer"]  = TransferItems(T, known, "ERC721"),
              !["ERC1155TokenTransfer"] = TransferItems(T, known, "ERC1155"),
              !["Token"]       = NewTokens(m, T),
              !["UpdateToken"] = SupplyUpdates(T)]
  IN /\ stage[m] = "tokens_and_transfers" /\ synced[m] < To[m]
     /\ \A t \in T : SpecificType(t, known) \in TokenTypes
     /\ cache' = [cache EXCEPT ![m] = known]
     /\ buff' = [buff EXCEPT ![m] = b]
     /\ stage' = [stage EXCEPT ![m] = After("tokens_and_transfers", b)]
     /\ UNCHANGED <<synced, tables, lost, failures, crashes>>
-----------------------------------------------------------------------------
(* ExportTokenBalancesJob: one balance for each address, token, id and     *)
(* block that moved; the current balance is one of the newest of its       *)
(* address and token, whatever its id.                                     *)

Collected(m) == UNION {buff[m][TransferType(type)] : type \in TokenTypes}

BalanceItems(T) ==
  UNION {{[address |-> a, token |-> t.token, block |-> t.block,
           id |-> IF t.multi THEN t.id ELSE 0] :
            a \in {t.from, t.to} \ {ZeroAddress}} : t \in T}

CollectBalances(m) ==
  /\ stage[m] = "token_balances"
  /\ LET B == BalanceItems(Collected(m)) IN
     \E C \in SUBSET Newest(B, {"address", "token"}) :
       LET b == [buff[m] EXCEPT !["TokenBalance"] = B, !["CurrentTokenBalance"] = C]
       IN /\ OnePerGroup(C, {"address", "token"}) /\ {Pair(r) : r \in C} = {Pair(r) : r \in B}
          /\ buff' = [buff EXCEPT ![m] = b]
          /\ stage' = [stage EXCEPT ![m] = After("token_balances", b)]
  /\ UNCHANGED <<synced, cache, tables, lost, failures, crashes>>
-----------------------------------------------------------------------------
(* ExportTokenIdInfosJob: the uri of a minted id, the owner or the supply  *)
(* of an id that moved.                                                    *)

(* The calls of an ERC721 id revert when the id does not exist (any more)  *)
(* at the end of the block; their items are left out.                      *)
Exists(t) ==
  LET moves == {u \in Chain : Id(u) = Id(t) /\ u.block <= t.block}
      last  == CHOOSE u \in moves : \A v \in moves :
                 v.block < u.block \/ (v.block = u.block /\ v.log <= u.log)
  IN  last.to # ZeroAddress

Answered(T) == {t \in T : t.multi \/ Exists(t)}
IdItems(T) == {[token |-> t.token, id |-> t.id, block |-> t.block] : t \in Answered(T)}
Minted(T) == {t \in T : t.from = ZeroAddress}

(* Mutant of CollectIds: the updates of a round are not grouped by id.     *)
CollectIdsUngrouped(m) ==
  LET T721  == buff[m]["ERC721TokenTransfer"]
      T1155 == buff[m]["ERC1155TokenTransfer"]
      b == [buff[m] EXCEPT
              !["ERC721TokenIdChange"]        = IdItems(T721),
              !["ERC721TokenIdDetail"]        = IdItems(Minted(T721)),
              !["UpdateERC721TokenIdDetail"]  = IdItems(T721),
              !["ERC1155TokenIdDetail"]       = IdItems(Minted(T1155)),
              !["UpdateERC1155TokenIdDetail"] = IdItems(T1155)]
  IN /\ stage[m] = "token_id_infos"
     /\ buff' = [buff EXCEPT ![m] = b]
     /\ stage' = [stage EXCEPT ![m] = After("token_id_infos", b)]
     /\ UNCHANGED <<synced, cache, tables, lost, failures, crashes>>

CollectIds(m) ==
  LET T721  == buff[m]["ERC721TokenTransfer"]
      T1155 == buff[m]["ERC1155TokenTransfer"]
      b == [buff[m] EXCEPT
              !["ERC721TokenIdChange"]        = IdItems(T721),
              !["ERC721TokenIdDetail"]        = IdItems(Minted(T721)),
              !["UpdateERC721TokenIdDetail"]  = Newest(IdItems(T721), {"token", "id"}),
              !["ERC1155TokenIdDetail"]       = IdItems(Minted(T1155)),
              !["UpdateERC1155TokenIdDetail"] = Newest(IdItems(T1155), {"token", "id"})]
  IN /\ stage[m] = "token_id_infos"
     /\ buff' = [buff EXCEPT ![m] = b]
     /\ stage' = [stage EXCEPT ![m] = After("token_id_infos", b)]
     /\ UNCHANGED <<synced, cache, tables, lost, failures, crashes>>
-----------------------------------------------------------------------------
(* PostgresItemExporter: one commit for the items of a type.               *)

Advance(m) == /\ stage' = [stage EXCEPT ![m] = After(stage[m], buff[m])]
              /\ UNCHANGED <<synced, cache, buff, lost, failures, crashes>>

CommitTransfers(m, type) ==
  /\ stage[m] = TransferType(type)
  /\ transfers' = [transfers EXCEPT ![type] = @ \cup buff[m][TransferType(type)]]
  /\ Advance(m)
  /\ UNCHANGED <<tokens, balances, current, details, changes>>

(* Token: on conflict do nothing.                                          *)
CommitToken(m) ==
  /\ stage[m] = "Token"
  /\ tokens' = [a \in TokenAddresses |->
       LET new == {r \in buff[m]["Token"] : r.token = a} IN
       IF tokens[a].type = Unknown /\ new # {}
       THEN LET r == CHOOSE r \in new : TRUE IN [type |-> r.type, block |-> r.block]
       ELSE tokens[a]]
  /\ Advance(m)
  /\ UNCHANGED <<transfers, balances, current, details, changes>>

(* UpdateToken carries no type.  EXCLUDED.block_number > block_number.     *)
CommitUpdateToken(m) ==
  /\ stage[m] = "UpdateToken"
  /\ tokens' = [a \in TokenAddresses |->
       LET new == {r \in buff[m]["UpdateToken"] : r.token = a /\ r.block > tokens[a].block} IN
       IF new = {} THEN tokens[a]
       ELSE [type  |-> IF tokens[a].type = Unknown THEN Null ELSE tokens[a].type,
             block |-> (CHOOSE r \in new : TRUE).block]]
  /\ Advance(m)
  /\ UNCHANGED <<transfers, balances, current, details, changes>>

(* The primary key is address, token and block: of several ids, the first  *)
(* one stays.                                                              *)
SameBalance(r, s) == Pair(r) = Pair(s) /\ r.block = s.block

CommitTokenBalance(m) ==
  /\ stage[m] = "TokenBalance"
  /\ LET fresh == {r \in buff[m]["TokenBalance"] : \A s \in balances : ~SameBalance(r, s)} IN
     \E new \in SUBSET fresh :
       /\ \A r \in fresh : \E s \in new : SameBalance(r, s)
       /\ \A r, s \in new : SameBalance(r, s) => r = s
       /\ balances' = balances \cup new
  /\ Advance(m)
  /\ UNCHANGED <<transfers, tokens, current, details, changes>>

(* Mutant of CommitCurrent: on conflict do nothing.                        *)
CommitCurrentOnce(m) ==
  /\ stage[m] = "CurrentTokenBalance"
  /\ current' = [p \in Pairs |->
       LET new == {r \in buff[m]["CurrentTokenBalance"] :
                     Pair(r) = p /\ current[p].block = 0} IN
       IF new = {} THEN current[p]
       ELSE LET r == CHOOSE r \in new : TRUE IN [id |-> r.id, block |-> r.block]]
  /\ Advance(m)
  /\ UNCHANGED <<transfers, tokens, balances, details, changes>>

(* Mutant of CommitCurrent: an update without a condition.                 *)
CommitCurrentAlways(m) ==
  /\ stage[m] = "CurrentTokenBalance"
  /\ current' = [p \in Pairs |->
       LET new == {r \in buff[m]["CurrentTokenBalance"] : Pair(r) = p} IN
       IF new = {} THEN current[p]
       ELSE LET r == CHOOSE r \in new : TRUE IN [id |-> r.id, block |-> r.block]]
  /\ Advance(m)
  /\ UNCHANGED <<transfers, tokens, balances, details, changes>>

(* EXCLUDED.block_number > block_number.                                   *)
CommitCurrent(m) ==
  /\ stage[m] = "CurrentTokenBalance"
  /\ current' = [p \in Pairs |->
       LET new == {r \in buff[m]["CurrentTokenBalance"] :
                     Pair(r) = p /\ r.block > current[p].block} IN
       IF new = {} THEN current[p]
       ELSE LET r == CHOOSE r \in new : TRUE IN [id |-> r.id, block |-> r.block]]
  /\ Advance(m)
  /\ UNCHANGED <<transfers, tokens, balances, details, changes>>

CommitChanges(m) ==
  /\ stage[m] = "ERC721TokenIdChange"
  /\ changes' = changes \cup buff[m]["ERC721TokenIdChange"]
  /\ Advance(m)
  /\ UNCHANGED <<transfers, tokens, balances, current, details>>

(* ERC721TokenIdDetail, ERC1155TokenIdDetail: on conflict do nothing.  An  *)
(* id minted several times in a round has several items, in the order the  *)
(* calls of the batches were answered; the first one makes the row.        *)
CommitDetail(m, type) ==
  /\ stage[m] = type
  /\ \E first \in SUBSET buff[m][type] :
       /\ OnePerGroup(first, {"token", "id"}) /\ {Id(r) : r \in first} = {Id(r) : r \in buff[m][type]}
       /\ details' = [i \in Ids |->
            LET new == {r \in first : Id(r) = i} IN
            IF details[i] = NoDetail /\ new # {}
            THEN [uri |-> TRUE, readAt |-> 0, block |-> (CHOOSE r \in new : TRUE).block]
            ELSE details[i]]
  /\ Advance(m)
  /\ UNCHANGED <<transfers, tokens, balances, current, changes>>

(* Mutant of CommitUpdateDetail: EXCLUDED.block_number > block_number.     *)
CommitUpdateDetailNewer(m, type) ==
  /\ stage[m] = type
  /\ details' = [i \in Ids |->
       LET new == {r \in buff[m][type] : Id(r) = i /\ r.block > details[i].block} IN
       IF new = {} THEN details[i]
       ELSE LET r == CHOOSE r \in new : TRUE
            IN  [details[i] EXCEPT !.readAt = r.block, !.block = r.block]]
  /\ Advance(m)
  /\ UNCHANGED <<transfers, tokens, balances, current, changes>>

(* The updates carry no uri.  EXCLUDED.block_number >= block_number.       *)
CommitUpdateDetail(m, type) ==
  /\ stage[m] = type
  /\ details' = [i \in Ids |->
       LET new == {r \in buff[m][type] : Id(r) = i /\ r.block >= details[i].block} IN
       IF new = {} THEN details[i]
       ELSE LET r == CHOOSE r \in new : TRUE
            IN  [details[i] EXCEPT !.readAt = r.block, !.block = r.block]]
  /\ Advance(m)
  /\ UNCHANGED <<transfers, tokens, balances, current, changes>>

Commit(m) ==
  \/ \E type \in TokenTypes : CommitTransfers(m, type)
  \/ CommitToken(m)
  \/ CommitUpdateToken(m)
  \/ CommitTokenBalance(m)
  \/ CommitCurrent(m)
  \/ CommitChanges(m)
  \/ \E type \in {"ERC721TokenIdDetail", "ERC1155TokenIdDetail"} : CommitDetail(m, type)
  \/ \E type \in {"UpdateERC721TokenIdDetail", "UpdateERC1155TokenIdDetail"} :
       CommitUpdateDetail(m, type)
-----------------------------------------------------------------------------
(* The round ends, or fails, or its process does.                          *)

Record(m) ==
  /\ stage[m] = "record"
  /\ synced' = [synced EXCEPT ![m] = RoundEnd(m)]
  /\ buff' = [buff EXCEPT ![m] = Nothing]
  /\ stage' = [stage EXCEPT ![m] = "tokens_and_transfers"]
  /\ UNCHANGED <<cache, tables, lost, failures, crashes>>

(* An export, a later job or the recorder raises: the dispatcher clears    *)
(* the buffer and the controller runs the round again.  The cache stays.   *)
(* The last commit before may be one that raised and was applied.          *)
RoundFails(m) ==
  /\ stage[m] # "tokens_and_transfers"
  /\ failures < MaxFailures
  /\ failures' = failures + 1
  /\ lost' = IF Position(stage[m]) <= Position("Token")
             THEN lost \cup {r.token : r \in buff[m]["Token"]} ELSE lost
  /\ buff' = [buff EXCEPT ![m] = Nothing]
  /\ stage' = [stage EXCEPT ![m] = "tokens_and_transfers"]
  /\ UNCHANGED <<synced, cache, tables, crashes>>

(* Mutant of Crash: the cache is not read again.                           *)
CrashKeepsCache(m) ==
  /\ crashes < MaxCrashes
  /\ crashes' = crashes + 1
  /\ buff' = [buff EXCEPT ![m] = Nothing]
  /\ stage' = [stage EXCEPT ![m] = "tokens_and_transfers"]
  /\ UNCHANGED <<synced, cache, tables, lost, failures>>

(* Mutant of Crash: the cache only notes that a token is known.            *)
CrashCachesNames(m) ==
  /\ crashes < MaxCrashes
  /\ crashes' = crashes + 1
  /\ cache' = [cache EXCEPT ![m] = [a \in TokenAddresses |->
                IF tokens[a].type = Unknown THEN Unknown ELSE "known"]]
  /\ buff' = [buff EXCEPT ![m] = Nothing]
  /\ stage' = [stage EXCEPT ![m] = "tokens_and_transfers"]
  /\ UNCHANGED <<synced, tables, lost, failures>>

(* A process is killed, or gives up because a job's executor is poisoned;  *)
(* the next one loads the cache from the tokens table.                     *)
Crash(m) ==
  /\ crashes < MaxCrashes
  /\ crashes' = crashes + 1
  /\ cache' = [cache EXCEPT ![m] = [a \in TokenAddresses |-> tokens[a].type]]
  /\ buff' = [buff EXCEPT ![m] = Nothing]
  /\ stage' = [stage EXCEPT ![m] = "tokens_and_transfers"]
  /\ UNCHANGED <<synced, tables, lost, failures>>

Step(m) == \/ CollectTransfers(m)
           \/ CollectBalances(m)
           \/ CollectIds(m)
           \/ Commit(m)
           \/ Record(m)

Next == \E m \in Missions : Step(m) \/ RoundFails(m) \/ Crash(m)

Spec == Init /\ [][Next]_vars

(* A mission is a loop of its own; failures and crashes need not happen.   *)
FairSpec == Spec /\ \A m \in Missions : WF_vars(Step(m))
-----------------------------------------------------------------------------
Recorded == {t \in Chain : \E m \in Missions : From[m] <= t.block /\ t.block <= synced[m]}
Parties(t) == {t.from, t.to} \ {ZeroAddress}

(* Types of all state.                                                     *)
TypeOK ==
  /\ synced \in [Missions -> Nat] /\ stage \in [Missions -> Stages]
  /\ cache \in [Missions -> [TokenAddresses -> TokenTypes \cup {Unknown, Null}]]
  /\ transfers \in [TokenTypes -> SUBSET Chain]
  /\ tokens \in [TokenAddresses -> [type : TokenTypes \cup {Unknown, Null}, block : Nat]]
  /\ balances \subseteq [address : Addresses, token : TokenAddresses, block : Nat, id : Nat]
  /\ current \in [Pairs -> [id : Nat, block : Nat]]
  /\ details \in [Ids -> [uri : BOOLEAN, readAt : Nat, block : Nat]]
  /\ changes \subseteq [token : TokenAddresses, id : Nat, block : Nat]
  /\ lost \subseteq TokenAddresses /\ failures \in Nat /\ crashes \in Nat

(* Whatever failed and was retried, every transfer of a recorded block is  *)
(* in the table of its type, and in no other one.                          *)
TransfersStored ==
  /\ \A t \in Recorded : t \in transfers[ContractType[t.token]]
  /\ \A type \in TokenTypes : \A t \in transfers[type] : type = ContractType[t.token]

(* One INSERT ... ON CONFLICT DO UPDATE may touch a row only once, or the  *)
(* database refuses the statement: the items to upsert have distinct keys. *)
UpsertsTouchARowOnce ==
  \A m \in Missions :
    /\ OnePerGroup(buff[m]["CurrentTokenBalance"], {"address", "token"})
    /\ OnePerGroup(buff[m]["UpdateERC721TokenIdDetail"], {"token", "id"})
    /\ OnePerGroup(buff[m]["UpdateERC1155TokenIdDetail"], {"token", "id"})
    /\ OnePerGroup(buff[m]["UpdateToken"], {"token"})

(* The cache keeps a token from being exported a second time; so a token   *)
(* of a recorded transfer has its row, with its type, and a row without a  *)
(* type, which stops every later process, belongs to a token whose round   *)
(* failed after it was cached and before it was exported.  Crashes at any  *)
(* point lose no token.                                                    *)
TokensDescribed ==
  /\ \A t \in Recorded : t.token \notin lost => tokens[t.token].type = ContractType[t.token]
  /\ \A a \in TokenAddresses \ lost : tokens[a].type # Null

(* The current balance of an address is never older than a recorded        *)
(* transfer of its, is a balance of the history table, and was read at a   *)
(* block that moved it: true with two missions on the same rows, and with  *)
(* rounds that were exported in part.                                      *)
CurrentIsLatest ==
  /\ \A t \in Recorded : \A a \in Parties(t) :
       /\ current[<<a, t.token>>].block >= t.block
       /\ \E r \in balances : Pair(r) = <<a, t.token>> /\ r.block = t.block
  /\ \A p \in Pairs : current[p].block > 0 =>
       /\ \E r \in balances : Pair(r) = p /\ r.block = current[p].block
       /\ \E t \in Chain : /\ p[2] = t.token /\ p[1] \in Parties(t)
                           /\ t.block = current[p].block
                           /\ t.multi => t.id = current[p].id

(* The supply of a token is never older than its last recorded transfer.   *)
SupplyIsCurrent ==
  \A t \in Recorded :
    t.token \in Countable /\ ~t.multi => tokens[t.token].block >= t.block

(* The owner or supply of an id that moved was read at or after its last   *)
(* recorded move, or the move burnt it; unless the row was made by a later *)
(* mint, which makes the updates of the blocks before it lose, and the     *)
(* round of that mint has not got to its own update yet.                   *)
OwnerIsCurrent ==
  /\ \A t \in Recorded : ContractType[t.token] # "ERC20" /\ t \in Answered({t}) =>
       LET d == details[Id(t)] IN
       d.readAt >= t.block \/ (d.readAt = 0 /\ d.uri /\ d.block > t.block)
  /\ \A i \in Ids : details[i].readAt > 0 => details[i].readAt = details[i].block

(* An id whose mint is recorded has its uri, where the mint is its first   *)
(* move and no mission starts between it and a later one.                  *)
UriKept ==
  \A t \in Recorded :
    /\ t.from = ZeroAddress /\ ContractType[t.token] # "ERC20" /\ t \in Answered({t})
    /\ \A u \in Chain : Id(u) = Id(t) =>
         /\ t.block <= u.block
         /\ \A m \in Missions : From[m] <= u.block /\ u.block <= To[m] => From[m] <= t.block
    => details[Id(t)].uri

(* What a row says is as new as the last recorded transfer that bears on   *)
(* it: of balances, of supplies, of owners and of uris.                    *)
RowsAreCurrent == CurrentIsLatest /\ SupplyIsCurrent /\ OwnerIsCurrent /\ UriKept

(* A row that was there is neither taken back nor made older.              *)
RowsOnlyImprove ==
  [][/\ \A p \in Pairs : current'[p].block >= current[p].block
     /\ \A a \in TokenAddresses : tokens'[a].block >= tokens[a].block
                                  /\ (tokens[a].type # Unknown => tokens'[a].type = tokens[a].type)
     /\ \A i \in Ids : details'[i].block >= details[i].block
                       /\ (details[i].uri => details'[i].uri)
     /\ balances \subseteq balances']_vars

Finished == \A m \in Missions : synced[m] = To[m]

(* "Hemera Indexer will read the last synced block from the PostgreSQL     *)
(* database and resume from it": whatever failed before, a mission that    *)
(* is left alone records its blocks.                                       *)
Resumes == <>Finished
=============================================================================
