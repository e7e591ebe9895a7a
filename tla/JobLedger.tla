----------------------------- MODULE JobLedger ------------------------------
(***************************************************************************)
(* What a job queue promises, without streams, workers or crashes: a job   *)
(* is submitted once, is retried with a growing attempt while it is live,  *)
(* and is settled once, either done or dead, and never moves again.  Only  *)
(* a queue that persists nothing may lose live jobs.                       *)
(***************************************************************************)
EXTENDS Naturals

CONSTANTS
  Jobs, MaxAttempts,
  Volatile   \* whether live jobs may be lost

VARIABLES
  status,   \* [Jobs -> Statuses]
  attempt   \* [Jobs -> Nat]: the attempt a live job's envelope carries

Statuses == {"absent", "live", "done", "dead", "lost"}

Init == /\ status = [j \in Jobs |-> "absent"]
        /\ attempt = [j \in Jobs |-> 0]

Submit(j) == /\ status[j] = "absent"
             /\ status' = [status EXCEPT ![j] = "live"]
             /\ attempt' = [attempt EXCEPT ![j] = 1]

RetryJob(j) == /\ status[j] = "live"
               /\ attempt'[j] \in (attempt[j] + 1) .. MaxAttempts[j]
               /\ attempt' = [attempt EXCEPT ![j] = attempt'[j]]
               /\ UNCHANGED status

Settle(j) == /\ status[j] = "live"
             /\ status'[j] \in {"done", "dead"}
             /\ status' = [status EXCEPT ![j] = status'[j]]
             /\ attempt' = [attempt EXCEPT ![j] = 0]

Lose(S) == /\ \A j \in S : status[j] = "live"
           /\ status' = [j \in Jobs |-> IF j \in S THEN "lost" ELSE status[j]]
           /\ attempt' = [j \in Jobs |-> IF j \in S THEN 0 ELSE attempt[j]]

Next == \/ \E j \in Jobs : Submit(j) \/ RetryJob(j) \/ Settle(j)
        \/ Volatile /\ \E S \in SUBSET Jobs : Lose(S)

Spec == Init /\ [][Next]_<<status, attempt>>
=============================================================================
