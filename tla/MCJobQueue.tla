----------------------------- MODULE MCJobQueue -----------------------------
(* Instances of JobQueue for TLC. *)
EXTENDS JobQueue, TLC

CONSTANTS j1, j2, j3, w1, w2

\* One attempt for the first job, two for the others.
OneAndTwo == [j \in Jobs |-> IF j = j1 THEN 1 ELSE 2]

\* A job the worker knows, one it does not, and one that does not decode.
AllKinds == [j \in Jobs |-> CASE j = j1 -> "garbled"
                              [] j = j2 -> "unknown"
                              [] OTHER  -> "registered"]
=============================================================================
