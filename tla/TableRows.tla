------------------------------- MODULE TableRows -------------------------------
(***************************************************************************)
(* The rows a chain has for the tables of the indexer, and the rounds they *)
(* come in.                                                                *)
(***************************************************************************)
EXTENDS Integers

CONSTANTS
  Rows,      \* the rows the chain has for the tables
  NoRow,     \* what a row refers to that refers to no other
  Parent,    \* the row that a row refers to
  BlockOf,   \* the block of a row
  First,     \* --start-block
  Steps      \* block_batch_size

(* A row refers to one of its own block, if to any.                        *)
WellFormed ==
  /\ NoRow \notin Rows
  /\ Parent \in [Rows -> Rows \cup {NoRow}]
  /\ BlockOf \in [Rows -> Nat]
  /\ First \in Nat \ {0}
  /\ Steps \in Nat \ {0}
  /\ \A r \in Rows : Parent[r] \in Rows => BlockOf[Parent[r]] = BlockOf[r]

ASSUME TablesAssumption == WellFormed
===============================================================================
