----------------------------- MODULE MCAuthClient ---------------------------
(* Instances of AuthClient for TLC. *)
EXTENDS AuthClient, TLC

CONSTANTS ta, tb, u1, u2, a1, a2, b1

\* Two calls of the first tab and one of the second.
TwoTabs == [c \in Calls |-> IF c = b1 THEN tb ELSE ta]
=============================================================================
