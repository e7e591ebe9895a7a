---------------------------- MODULE MCSyncOutbox ----------------------------
(* Instances of SyncOutbox for TLC. *)
EXTENDS SyncOutbox, TLC

CONSTANTS v1, v2, m1, c1, c2, t1, t2

\* Each query has parameters, so a compartment of its own.
OwnHomes == [v \in Views |-> IF v = v1 THEN c1 ELSE c2]

\* The mutation shows in the first view, and in the second one if it is read from the
\* stream's compartment.
FirstOnly == [m \in Muts |-> {v1}]

\* A view may be dropped while its driver replays a batch.
Interrupted == {"replay"}
=============================================================================
