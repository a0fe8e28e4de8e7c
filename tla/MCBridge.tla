------------------------------- MODULE MCBridge -------------------------------
(* Histories of an OP Stack and of an Arbitrum rollup for Bridge.          *)
EXTENDS Bridge

MCTo == [side \in Sides |-> IF side = "L1" THEN 3 ELSE 2]

Event(kind, key, block) == [kind |-> kind, key |-> key, block |-> block, upTo |-> 0, tag |-> ""]
Output(key, block, upTo) == [Event("OutputProposed", key, block) EXCEPT !.upTo = upTo]
Tagged(kind, key, block, tag) == [Event(kind, key, block) EXCEPT !.tag = tag]

(* Deposit 1 and withdrawal 2.  An output covers the withdrawal before it  *)
(* is proven; what happens at block 4 of L1 is not indexed.                *)
Bedrock(deposited, relayed, passed, proposed, proven) ==
  {Event("TransactionDeposited", 1, deposited), Event("RelayedMessage", 1, relayed),
   Event("MessagePassed", 2, passed), Output(1, 1, 1), Output(2, proposed, 2),
   Event("WithdrawalProven", 2, proven), Event("WithdrawalFinalized", 2, IF proven < 3 THEN 3 ELSE proven)}

(* Both events of a message are of one transaction.                        *)
Message(key, block, tag) ==
  {Tagged("MessageDelivered", key, block, tag), Event("InboxMessageDelivered", key, block)}

(* A retryable 1, a deposit of ether 2, a spending report 3, a node, and   *)
(* batches of which two were posted by a call the parser does not know.    *)
Arbitrum(delivered, ticket, created, confirmed) ==
  Message(1, delivered, "9") \cup Message(2, 3, "12") \cup Message(3, 2, "13")
  \cup {Event("TicketCreated", 1, ticket),
        Event("NodeCreated", 1, created), Event("NodeConfirmed", 1, confirmed),
        Tagged("SequencerBatchDelivered", 1, 1, "known"),
        Tagged("SequencerBatchDelivered", 2, 2, "unknown"),
        Tagged("SequencerBatchDelivered", 3, 3, "unknown")}

MCHistories ==
  {Bedrock(d, r, p, 2, 3) : d \in {1, 2}, r \in {1, 2}, p \in {1, 2}}
  \cup {Bedrock(1, 2, 1, 3, 2), Bedrock(1, 2, 2, 3, 4)}
  \cup {Arbitrum(d, t, 1, c) : d \in {1, 3}, t \in {1, 2}, c \in {2, 3}}
  \cup {Arbitrum(1, 1, 1, 2) \cup Message(4, 3, "7"),
        Bedrock(1, 2, 1, 2, 3) \cup {Tagged("MessagePassed", 3, 2, "short")},
        Arbitrum(1, 1, 1, 2) \cup {Event("L2ToL1Tx", 4, 2), Event("BridgeCallTriggered", 4, 3)}}
=============================================================================
