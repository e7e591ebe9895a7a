----------------------------- MODULE MCJobMemory ----------------------------
(* Instances of JobMemory for TLC. *)
EXTENDS JobMemory, TLC

CONSTANTS j1, j2, j3, w1, w2, mail, media

OneAndTwo == [j \in Jobs |-> IF j = j1 THEN 1 ELSE 2]

\* The second job is on a queue of its own, which only the second worker serves.
TwoQueues == [j \in Jobs |-> IF j = j2 THEN media ELSE mail]
Split == (w1 :> {mail}) @@ (w2 :> {mail, media})
=============================================================================
