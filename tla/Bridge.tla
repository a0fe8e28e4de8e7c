-------------------------------- MODULE Bridge --------------------------------
(***************************************************************************)
(* The bridge jobs.  One mission indexes L1 and one indexes L2; both write *)
(* the rows of the bridge tables, keyed by message, output, node or batch, *)
(* and the explorer reads from a row how far a withdrawal has come.  Every *)
(* bridge domain is inserted ON CONFLICT DO NOTHING: the first item of a   *)
(* key makes its row, a later one leaves it as it is.                      *)
(*                                                                         *)
(* A history is what happens on the two chains, a set of events.  An item  *)
(* is named by the kind of event it is made from, a row by its table and   *)
(* key; of its columns those of an event are represented by the block of   *)
(* that event.                                                             *)
(***************************************************************************)
EXTENDS Integers, FiniteSets, Sequences

CONSTANTS
  Histories,     \* what may happen on the two chains
  To,            \* --end-block of each mission
  Steps,         \* block_batch_size
  MaxFailures    \* bound: rounds that fail, or whose process does

Sides == {"L1", "L2"}
Start == [side \in Sides |-> 0]

L1Kinds == {"TransactionDeposited", "WithdrawalProven", "WithdrawalFinalized", "OutputProposed",
            "MessageDelivered", "InboxMessageDelivered", "BridgeCallTriggered",
            "NodeCreated", "NodeConfirmed", "SequencerBatchDelivered"}
L2Kinds == {"MessagePassed", "RelayedMessage", "TicketCreated", "L2ToL1Tx"}
Kinds   == L1Kinds \cup L2Kinds

(* key: the message, output, node or batch an event is about.  upTo: the   *)
(* last L2 block of a proposed output.  tag: the kind of a delivered       *)
(* message ("9", "12", "7" ...); "unknown" for a batch whose transaction   *)
(* calls neither function the parser knows; "short" for a deposit or a     *)
(* withdrawal whose call data is too short for the arguments of            *)
(* relayMessage, which every call that passes the messenger has.           *)
ASSUME BridgeAssumption ==
  /\ Steps \in Nat \ {0} /\ MaxFailures \in Nat /\ To \in [Sides -> Nat]
  /\ \A h \in Histories :
       /\ IsFiniteSet(h)
       /\ h \subseteq [kind : Kinds, block : Nat \ {0}, key : Nat, upTo : Nat, tag : STRING]

(* Both events of a message to L2 are of one transaction; an output covers *)
(* what the outputs before it cover.                                       *)
ASSUME HistoryAssumption ==
  \A h \in Histories : \A e, f \in h :
    /\ e.kind = "MessageDelivered" /\ f.kind = "InboxMessageDelivered" /\ e.key = f.key
         => e.block = f.block
    /\ e.kind = "OutputProposed" /\ f.kind = "OutputProposed" /\ e.key <= f.key
         => e.upTo <= f.upTo

VARIABLES
  history,   \* the events of the two chains
  synced,    \* last recorded block of a mission
  stage,     \* "collect", the kind of item a mission commits next, or "record"
  buff,      \* BaseJob._data_buff
  rows,      \* the bridge tables
  failures

vars == <<history, synced, stage, buff, rows, failures>>

SideOf(kind) == IF kind \in L1Kinds THEN "L1" ELSE "L2"

(* The output types of the jobs of a side, in the order of the export.  A  *)
(* mission runs those of one rollup.                                       *)
Plan == [side \in Sides |->
  IF side = "L1"
  THEN <<"TransactionDeposited", "WithdrawalProven", "WithdrawalFinalized", "OutputProposed",
         "InboxMessageDelivered", "BridgeCallTriggered", "NodeConfirmed", "NodeCreated",
         "SequencerBatchDelivered", "record">>
  ELSE <<"MessagePassed", "RelayedMessage", "TicketCreated", "L2ToL1Tx", "record">>]

StagesOf(side) == {"collect"} \cup {Plan[side][i] : i \in DOMAIN Plan[side]}

Position(side, s) == IF s = "collect" THEN 0
                     ELSE CHOOSE i \in DOMAIN Plan[side] : Plan[side][i] = s

(* The next type that has items.                                           *)
After(side, s, items) ==
  LET open == {i \in DOMAIN Plan[side] :
                 /\ i > Position(side, s)
                 /\ Plan[side][i] = "record" \/ \E r \in items : r.kind = Plan[side][i]}
  IN  Plan[side][CHOOSE i \in open : \A j \in open : i <= j]

Table(kind) ==
  CASE kind \in {"TransactionDeposited", "RelayedMessage", "MessageDelivered",
                 "InboxMessageDelivered", "TicketCreated"}          -> "l1_to_l2"
    [] kind \in {"MessagePassed", "WithdrawalProven", "WithdrawalFinalized", "L2ToL1Tx",
                 "BridgeCallTriggered"}                             -> "l2_to_l1"
    [] kind = "OutputProposed"                                      -> "outputs"
    [] kind \in {"NodeCreated", "NodeConfirmed"}                    -> "nodes"
    [] kind = "SequencerBatchDelivered"                             -> "batches"

(* The columns an item fills.                                              *)
Column(kind) ==
  CASE kind = "WithdrawalProven" -> "proven"
    [] kind = "NodeCreated"      -> "created"
    [] kind \in L2Kinds          -> "l2"
    [] OTHER                     -> "l1"

Columns == {"l1", "l2", "proven", "created"}
Tables  == {"l1_to_l2", "l2_to_l1", "outputs", "nodes", "batches"}
Keys    == {0} \cup UNION {{e.key : e \in h} : h \in Histories}
NoRow   == [c \in Columns |-> 0]

RowOf(item) == [NoRow EXCEPT ![Column(item.kind)] = item.block]
At(item)    == <<Table(item.kind), item.key>>

(* Mutant of RoundEnd: the last round is as long as the others.            *)
RoundEndUncapped(side) == synced[side] + Steps

RoundEnd(side) == IF synced[side] + Steps < To[side] THEN synced[side] + Steps ELSE To[side]

Init ==
  /\ history \in Histories
  /\ synced = Start
  /\ stage = [side \in Sides |-> "collect"]
  /\ buff = [side \in Sides |-> {}]
  /\ rows = [k \in Tables \X Keys |-> NoRow]
  /\ failures = 0
-----------------------------------------------------------------------------
(* The jobs                                                                *)

(* Mutant of Events: a round reaches one block too far.                    *)
EventsOneMore(side) == {e \in history : /\ SideOf(e.kind) = side
                                        /\ synced[side] < e.block
                                        /\ e.block <= RoundEnd(side) + 1}

(* The events of the round a mission is in.                                *)
Events(side) == {e \in history : /\ SideOf(e.kind) = side
                                 /\ synced[side] < e.block /\ e.block <= RoundEnd(side)}

Item(kind, e) == [kind |-> kind, key |-> e.key, block |-> e.block]

Simple(T, kind) == {Item(kind, e) : e \in {f \in T : f.kind = kind}}

BedrockItems(T) ==
  UNION {Simple(T, kind) : kind \in {"TransactionDeposited", "WithdrawalProven",
                                     "WithdrawalFinalized", "OutputProposed",
                                     "MessagePassed", "RelayedMessage"}}

(* The two events of a message to L2 are merged by its index; the other    *)
(* kinds of message give no item.                                          *)
DepositKinds == {"3", "9", "11", "12"}
ArbitrumDeposits(T) ==
  {Item("InboxMessageDelivered", d) :
     d \in {e \in T : /\ e.kind = "MessageDelivered" /\ e.tag \in DepositKinds
                      /\ \E i \in T : i.kind = "InboxMessageDelivered" /\ i.key = e.key}}

(* The index of a batch that was not decoded stays 0.                      *)
ArbitrumBatches(T) ==
  {[Item("SequencerBatchDelivered", e) EXCEPT !.key = IF e.tag = "unknown" THEN 0 ELSE @] :
     e \in {f \in T : f.kind = "SequencerBatchDelivered"}}

ArbitrumItems(T) ==
  (UNION {Simple(T, kind) : kind \in {"BridgeCallTriggered", "NodeCreated", "NodeConfirmed",
                                      "TicketCreated", "L2ToL1Tx"}})
  \cup ArbitrumDeposits(T) \cup ArbitrumBatches(T)

Items(T) == BedrockItems(T) \cup ArbitrumItems(T)

(* The parsers raise for a message of a kind they do not know and for call *)
(* data they cannot decode, and with them the job.                         *)
Decodes(T) ==
  /\ \A e, i \in T :
       e.kind = "MessageDelivered" /\ i.kind = "InboxMessageDelivered" /\ e.key = i.key
         => e.tag \in DepositKinds \cup {"13"}
  /\ \A e \in T : e.kind \in {"TransactionDeposited", "MessagePassed"} => e.tag # "short"

Collect(side) ==
  /\ stage[side] = "collect" /\ synced[side] < To[side]
  /\ Decodes(Events(side))
  /\ LET items == Items(Events(side)) IN
       /\ buff' = [buff EXCEPT ![side] = items]
       /\ stage' = [stage EXCEPT ![side] = After(side, "collect", items)]
  /\ UNCHANGED <<history, synced, rows, failures>>
-----------------------------------------------------------------------------
(* The export                                                              *)

(* general_converter reads msg_hash as a hex string; that of an Arbitrum   *)
(* withdrawal is a number, and the export raises.                          *)
Converts(kind) == kind \notin {"L2ToL1Tx", "BridgeCallTriggered"}

(* Mutant of Insert: a row that is there takes the columns of the item and *)
(* loses its others.                                                       *)
InsertOver(items) ==
  LET hit == {At(r) : r \in items} IN
  \E first \in [hit -> items] :
    /\ \A k \in hit : At(first[k]) = k
    /\ rows' = [k \in Tables \X Keys |-> IF k \in hit THEN RowOf(first[k]) ELSE rows[k]]

(* The first item of a key makes the row, if there is none.                *)
Insert(items) ==
  LET new == {At(r) : r \in {s \in items : rows[At(s)] = NoRow}} IN
  \E first \in [new -> items] :
    /\ \A k \in new : At(first[k]) = k
    /\ rows' = [k \in Tables \X Keys |-> IF k \in new THEN RowOf(first[k]) ELSE rows[k]]

Commit(side, kind) ==
  /\ stage[side] = kind /\ kind \in Kinds /\ Converts(kind)
  /\ Insert({r \in buff[side] : r.kind = kind})
  /\ stage' = [stage EXCEPT ![side] = After(side, kind, buff[side])]
  /\ UNCHANGED <<history, synced, buff, failures>>

Record(side) ==
  /\ stage[side] = "record"
  /\ synced' = [synced EXCEPT ![side] = RoundEnd(side)]
  /\ buff' = [buff EXCEPT ![side] = {}]
  /\ stage' = [stage EXCEPT ![side] = "collect"]
  /\ UNCHANGED <<history, rows, failures>>

(* Mutant of RoundFails: the recorder is written before the export.        *)
RoundFailsRecorded(side) ==
  /\ stage[side] # "collect" /\ failures < MaxFailures
  /\ failures' = failures + 1
  /\ synced' = [synced EXCEPT ![side] = RoundEnd(side)]
  /\ buff' = [buff EXCEPT ![side] = {}]
  /\ stage' = [stage EXCEPT ![side] = "collect"]
  /\ UNCHANGED <<history, rows>>

(* A round fails before one of its commits, or its process ends; the next  *)
(* attempt starts from the recorder.  The jobs keep nothing of their own.  *)
RoundFails(side) ==
  /\ stage[side] # "collect" /\ failures < MaxFailures
  /\ failures' = failures + 1
  /\ buff' = [buff EXCEPT ![side] = {}]
  /\ stage' = [stage EXCEPT ![side] = "collect"]
  /\ UNCHANGED <<history, synced, rows>>

Next == \E side \in Sides :
  \/ Collect(side)
  \/ \E kind \in Kinds : Commit(side, kind)
  \/ Record(side)
  \/ RoundFails(side)

Spec == Init /\ [][Next]_vars
-----------------------------------------------------------------------------
(* What the explorer shows                                                 *)

Withdrawal(w) == rows[<<"l2_to_l1", w>>]

(* end_block_number of the output with the highest index; 0 without any.   *)
Outputs == {e \in history : e.kind = "OutputProposed" /\ rows[<<"outputs", e.key>>] # NoRow}
FinalizedBlock ==
  IF Outputs = {} THEN 0
  ELSE (CHOOSE e \in Outputs : \A f \in Outputs : f.key <= e.key).upTo

(* Mutant of State: any output will do.                                    *)
StateWithoutOutput(row) ==
  IF row["l2"] = 0 THEN 0
  ELSE IF FinalizedBlock = 0 THEN 1
  ELSE IF row["l1"] # 0 THEN 5
  ELSE IF row["proven"] = 0 THEN 2
  ELSE 3

(* 0: not in the list.  1: Not Finalized.  2: Ready to Prove.  3: In       *)
(* Challenge Period, or past it (a matter of the clock).  5: Relayed.      *)
State(row) ==
  IF row["l2"] = 0 THEN 0
  ELSE IF FinalizedBlock < row["l2"] THEN 1
  ELSE IF row["l1"] # 0 THEN 5
  ELSE IF row["proven"] = 0 THEN 2
  ELSE 3

Shown(w) == State(Withdrawal(w))
-----------------------------------------------------------------------------
(* Properties                                                              *)

TypeOK ==
  /\ history \in Histories
  /\ synced \in [Sides -> Nat] /\ \A side \in Sides : synced[side] <= To[side]
  /\ \A side \in Sides : stage[side] \in StagesOf(side)
  /\ \A side \in Sides : buff[side] \subseteq [kind : Kinds, key : Keys, block : Nat]
  /\ rows \in [Tables \X Keys -> [Columns -> Nat]]
  /\ failures \in Nat

Recorded(e) == e.block <= synced[SideOf(e.kind)]

(* Whatever failed, whichever mission came first: what a recorded block    *)
(* says of a message, an output, a node or a batch has a row, and no       *)
(* column of a row is made up: it is that of an event of this key, in a    *)
(* block its mission has reached.                                          *)
MessagesStored ==
  /\ \A r \in Items(history) : r.block <= synced[SideOf(r.kind)] => rows[At(r)] # NoRow
  /\ \A k \in Tables \X Keys : \A c \in Columns :
       rows[k][c] # 0 =>
         \E e \in history :
           /\ Table(e.kind) = k[1] /\ (e.key = k[2] \/ (e.tag = "unknown" /\ k[2] = 0))
           /\ Column(e.kind) = c /\ e.block = rows[k][c]
           /\ e.block <= RoundEnd(SideOf(e.kind))

(* A withdrawal that is shown as ready to prove is one whose block an      *)
(* output of L1 covers, and one that is shown as relayed was finalized.    *)
ShownIsTrue ==
  \A w \in Keys :
    /\ Shown(w) >= 2 =>
         \E e, o \in history : /\ e.kind = "MessagePassed" /\ e.key = w
                               /\ o.kind = "OutputProposed" /\ e.block <= o.upTo
                               /\ o.block <= RoundEnd("L1")
    /\ Shown(w) = 5 => \E e \in history : e.kind = "WithdrawalFinalized" /\ e.key = w

(* What is shown of a withdrawal never goes back, whatever is retried and  *)
(* whichever mission lags.                                                 *)
ShownNeverGoesBack == [][\A w \in Keys : Shown(w) <= Shown(w)']_vars

(* common/utils/bridge_utils.py:137: a withdrawal that L2 passed and L1    *)
(* finalized, both recorded, is shown as 'Relayed'.                        *)
RelayedIsShown ==
  \A e, f \in history :
    /\ e.kind = "MessagePassed" /\ f.kind = "WithdrawalFinalized" /\ e.key = f.key
    /\ Recorded(e) /\ Recorded(f)
    => Shown(e.key) = 5
=============================================================================
