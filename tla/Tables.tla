-------------------------------- MODULE Tables --------------------------------
(***************************************************************************)
(* What the indexer promises to those who read its tables, the explorer    *)
(* above all.  Rows of a block appear only in the round that indexes it,   *)
(* each after the row it refers to; none is taken away; the recorded block *)
(* only grows.                                                             *)
(***************************************************************************)
EXTENDS TableRows

VARIABLES
  synced,   \* the last recorded block
  stored    \* the rows in the tables

vars == <<synced, stored>>

Init ==
  /\ synced = First - 1
  /\ stored = {}

InRound(r) == synced < BlockOf[r] /\ BlockOf[r] <= synced + Steps

(* One commit of the exporter: rows that are new come after those they     *)
(* refer to; which of them come together is left open.                     *)
Write ==
  /\ stored \subseteq stored' /\ stored' \subseteq Rows
  /\ \A r \in stored' \ stored :
       InRound(r) /\ (Parent[r] = NoRow \/ Parent[r] \in stored)
  /\ UNCHANGED synced

(* The recorder: the round may be cut at the block the chain is at.        *)
Record ==
  /\ \E n \in 1..Steps : synced' = synced + n
  /\ UNCHANGED stored

Next == Write \/ Record

Spec == Init /\ [][Next]_vars
-----------------------------------------------------------------------------
TypeOK ==
  /\ synced \in Nat
  /\ stored \subseteq Rows

(* A row is never in the tables without the row it refers to: a log, its   *)
(* transaction; a transaction, a trace or a balance, its block; a contract *)
(* or an internal transaction, its trace.  The explorer joins the tables   *)
(* without asking whether the other side is there.                         *)
NoOrphans == \A r \in stored : Parent[r] = NoRow \/ Parent[r] \in stored

(* Rows are written for the round at hand only: what a block above the     *)
(* next round will hold is not there yet, nor what one before the first    *)
(* round holds.                                                            *)
NotAhead == \A r \in stored : First <= BlockOf[r] /\ BlockOf[r] <= synced + Steps

(* A row that was read once can be read again.                             *)
RowsStay == [][stored \subseteq stored']_vars

(* Once a block is recorded its rows are final: the explorer's pages over  *)
(* recorded blocks do not change.                                          *)
RecordedIsFinal ==
  [][\A r \in stored' \ stored : BlockOf[r] > synced]_vars
===============================================================================
