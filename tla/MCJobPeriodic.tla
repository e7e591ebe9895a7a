---------------------------- MODULE MCJobPeriodic ---------------------------
(* Instances of JobPeriodic for TLC. *)
EXTENDS JobPeriodic, TLC

CONSTANTS w1, w2

\* A cron job that fires more often than its lock expires, and an interval job
\* that has never fired.
Dense == {1, 2, 3, 4}
Often == [every |-> 0, cron |-> Dense, ttl |-> 99, since |-> 0]
EveryTwo == [every |-> 2, cron |-> {}, ttl |-> 4, since |-> Never]

Both == {Often, EveryTwo}
=============================================================================
