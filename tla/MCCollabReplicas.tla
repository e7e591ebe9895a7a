--------------------------- MODULE MCCollabReplicas ---------------------------
(* Instances of CollabReplicas for TLC.                                      *)
EXTENDS CollabReplicas, TLC

CONSTANTS p1, p2, c1, c2, e1, e2

AllFirst == [e \in Edits |-> c1]
Alike == Permutations({p1, p2})
=============================================================================
