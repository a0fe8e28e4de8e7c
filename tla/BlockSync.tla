------------------------------ MODULE BlockSync ------------------------------
(***************************************************************************)
(* What the indexer promises its operator, without saying how.  Blocks are *)
(* exported in any order and any number of times; the number kept by the   *)
(* sync recorder only ever says what is true: every block of the mission   *)
(* up to it has been exported completely.  The one thing that voids the    *)
(* promise is an indexer that runs with an incomplete list of jobs.        *)
(***************************************************************************)
EXTENDS Integers

CONSTANTS
  Blocks,      \* the block numbers the mission may cover
  FirstBlock   \* the first block the mission must export

VARIABLES
  covered,     \* blocks whose every required item is in every sink
  recorded,    \* the last synced block, as the sync recorder tells it
  intact       \* no round has run with an incomplete list of jobs

vars == <<covered, recorded, intact>>

(* Block 0 stays out: a recorder that says 0 says "nothing yet".           *)
Promise(n) == {b \in Blocks : b > 0 /\ FirstBlock <= b /\ b <= n}

Init ==
  /\ covered \in SUBSET Blocks
  /\ recorded = 0
  /\ intact = TRUE

Export ==
  /\ \E S \in SUBSET Blocks : covered' = covered \cup S
  /\ UNCHANGED <<recorded, intact>>

Record ==
  /\ \E n \in Blocks \cup {0} :
       /\ recorded' = n
       /\ intact => Promise(n) \subseteq covered
  /\ UNCHANGED <<covered, intact>>

Degrade ==
  /\ intact' = FALSE
  /\ UNCHANGED <<covered, recorded>>

Next == Export \/ Record \/ Degrade

Spec == Init /\ [][Next]_vars
=============================================================================
