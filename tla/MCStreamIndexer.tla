--------------------------- MODULE MCStreamIndexer ---------------------------
(* Instances of StreamIndexer for TLC.  Job 0 exports blocks, job 1 the    *)
(* transactions of them, job 2 tokens, derived from both.                  *)
EXTENDS StreamIndexer

MCDeps2 == [j \in 0 .. 1 |-> 0 .. j - 1]
MCDeps3 == [j \in 0 .. 2 |-> 0 .. j - 1]
AllExported == Jobs
=============================================================================
