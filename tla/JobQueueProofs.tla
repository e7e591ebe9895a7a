--------------------------- MODULE JobQueueProofs ---------------------------
(***************************************************************************)
(* Proofs about JobQueue for every number of workers and jobs and every    *)
(* batch size, retry budget and number of crashes: its types, the custody  *)
(* of every job, the retry budget, and that the queue implements the       *)
(* abstract ledger.                                                        *)
(***************************************************************************)
EXTENDS JobQueue, TLAPS

\* What XADD does to a stream.
LEMMA AppendFacts ==
  ASSUME NEW s \in Seq(Envelopes), NEW e \in Envelopes
  PROVE  /\ Append(s, e) \in Seq(Envelopes)
         /\ Len(s) \in Nat
         /\ Len(Append(s, e)) = Len(s) + 1
         /\ \A i \in 1 .. Len(s) : Append(s, e)[i] = s[i] /\ s[i] \in Envelopes
         /\ Append(s, e)[Len(s) + 1] = e
  OBVIOUS

\* An envelope with another attempt is an envelope of the same job.
LEMMA EnvelopeFacts ==
  ASSUME NEW env \in Envelopes
  PROVE  /\ env.job \in Jobs
         /\ env.attempt \in Nat \ {0}
         /\ [env EXCEPT !.attempt = @ + 1] \in Envelopes
         /\ [env EXCEPT !.attempt = @ + 1].job = env.job
         /\ [env EXCEPT !.attempt = @ + 1].attempt = env.attempt + 1
  BY DEF Envelopes

\* The entries of the stream that workers hold or Redis has pending.
LEMMA EntryFacts ==
  ASSUME TypeOK
  PROVE  /\ Len(stream) \in Nat /\ Len(dead) \in Nat
         /\ delivered \in Nat /\ delivered <= Len(stream)
         /\ \A id \in Ids : stream[id] \in Envelopes /\ id \in Nat \ {0}
         /\ \A w \in Workers : \A id \in held[w] : id \in Ids /\ id <= delivered
         /\ \A id \in pel : id \in Ids /\ id <= delivered
  BY DEF TypeOK, Ids

\* What a worker runs is a run of some envelope.
LEMMA RunFacts ==
  ASSUME TypeOK, NEW w \in Workers, running[w] # NoRun
  PROVE  /\ running[w] \in Runs
         /\ running[w].id \in Nat \ {0}
         /\ running[w].env \in Envelopes
  BY DEF TypeOK, Runs

\* TypeOK holds in every reachable state: in particular the pending entries
\* are always delivered ones and every envelope carries a positive attempt.
LEMMA TypeStep == TypeOK /\ [Next]_vars => TypeOK'
<1> SUFFICES ASSUME TypeOK, [Next]_vars PROVE TypeOK'
  OBVIOUS
<1> USE JobsAssumption
<1>1. ASSUME NEW j \in Jobs, Enqueue(j) PROVE TypeOK'
  <2>1. NewEnvelope(j) \in Envelopes
    BY DEF NewEnvelope, Envelopes
  <2> QED
    BY <1>1, <2>1, AppendFacts DEF TypeOK, Enqueue, worker
<1>2. ASSUME NEW j \in Jobs, Schedule(j) PROVE TypeOK'
  <2>1. NewEnvelope(j) \in Envelopes
    BY DEF NewEnvelope, Envelopes
  <2> QED
    BY <1>2, <2>1 DEF TypeOK, Schedule, worker
<1>3. ASSUME NEW env \in scheduled, BecomeDue(env) PROVE TypeOK'
  BY <1>3 DEF TypeOK, BecomeDue, worker, history
<1>4. ASSUME NEW id \in pel, GoStale(id) PROVE TypeOK'
  BY <1>4 DEF TypeOK, GoStale, worker, history
<1>5. ASSUME NEW w \in Workers, ScanDue(w) PROVE TypeOK'
  BY <1>5 DEF TypeOK, ScanDue, redis, history
<1>6. ASSUME NEW w \in Workers, Promote(w) PROVE TypeOK'
  <2>1. PICK env \in promos[w] :
          IF Kind[env.job] = "garbled"
          THEN GiveUp(w) /\ UNCHANGED redis
          ELSE /\ PromoteScheduled(env)
               /\ promos' = [promos EXCEPT ![w] = @ \ {env}]
               /\ UNCHANGED <<delivered, pel, stale, dead, phase, held, running>>
    BY <1>6 DEF Promote
  <2>2. env \in Envelopes
    BY DEF TypeOK
  <2>3. UNCHANGED <<history, aborts>>
    BY <1>6 DEF Promote
  <2>4. CASE Kind[env.job] = "garbled"
    BY <2>1, <2>3, <2>4 DEF TypeOK, GiveUp, redis, history
  <2>5. CASE Kind[env.job] # "garbled"
    <3>1. /\ stream' = stream \/ stream' = Append(stream, env)
          /\ scheduled' = scheduled \ {env} /\ due' = due \ {env}
          /\ promos' = [promos EXCEPT ![w] = @ \ {env}]
          /\ UNCHANGED <<delivered, pel, stale, dead, phase, held, running>>
      BY <2>1, <2>5 DEF PromoteScheduled
    <3>2. /\ stream \in Seq(Envelopes) /\ Append(stream, env) \in Seq(Envelopes)
          /\ Len(Append(stream, env)) = Len(stream) + 1
      BY <2>2, AppendFacts DEF TypeOK
    <3>3. stream' \in Seq(Envelopes) /\ delivered \in 0 .. Len(stream')
      <4>1. delivered \in 0 .. Len(stream) /\ delivered \in 0 .. (Len(stream) + 1)
        BY EntryFacts
      <4>2. CASE stream' = stream
        BY <3>2, <4>1, <4>2
      <4>3. CASE stream' = Append(stream, env)
        BY <3>2, <4>1, <4>3
      <4> QED
        BY <3>1, <4>2, <4>3
    <3> QED
      BY <2>3, <3>1, <3>3 DEF TypeOK, history
  <2> QED
    BY <2>4, <2>5
<1>7. ASSUME NEW w \in Workers, ClaimStale(w) PROVE TypeOK'
  BY <1>7 DEF TypeOK, ClaimStale, history
<1>8. ASSUME NEW w \in Workers, ReadNew(w) PROVE TypeOK'
  <2> DEFINE last == delivered + SmallerOf(BatchSize, Len(stream) - delivered)
  <2>1. /\ delivered' = last /\ last \in Nat /\ delivered <= last /\ last <= Len(stream)
        /\ pel' = pel \cup ((delivered + 1) .. last)
        /\ held' = [held EXCEPT ![w] = (delivered + 1) .. last]
    BY <1>8, EntryFacts DEF ReadNew, SmallerOf
  <2>2. /\ (delivered + 1) .. last \subseteq 1 .. last
        /\ 1 .. delivered \subseteq 1 .. last
    BY <2>1, EntryFacts
  <2> HIDE DEF last
  <2>3. /\ delivered' \in 0 .. Len(stream) /\ pel' \subseteq 1 .. delivered'
        /\ held' \in [Workers -> SUBSET (1 .. delivered')] /\ stale \subseteq pel'
    BY <2>1, <2>2, EntryFacts DEF TypeOK
  <2> QED
    BY <1>8, <2>3 DEF TypeOK, ReadNew, history
<1>9. ASSUME NEW w \in Workers, DropGarbled(w) PROVE TypeOK'
  <2>1. PICK id \in Ids : PlainAck(id, stream[id].job)
    BY <1>9 DEF DropGarbled
  <2>2. stream[id].job \in Jobs
    BY EntryFacts, EnvelopeFacts
  <2> QED
    BY <1>9, <2>1, <2>2 DEF TypeOK, DropGarbled, PlainAck, XAck, GiveUp
<1>10. ASSUME NEW w \in Workers, NEW id \in Ids, NEW env \in Envelopes, id \in held[w],
              Release(w, id), Start(w, id, env),
              UNCHANGED <<phase, promos, submitted, aborts>>
       PROVE  TypeOK'
  <2>1. held' \in [Workers -> SUBSET (1 .. delivered)]
    BY <1>10 DEF TypeOK, Release
  <2>2. CASE Kind[env.job] = "unknown"
    <3>1. dead' = dead \/ dead' = Append(dead, env)
      BY <1>10, <2>2 DEF Start, DeadLetterAndAck
    <3>2. dead \in Seq(Envelopes) /\ Append(dead, env) \in Seq(Envelopes)
      BY AppendFacts DEF TypeOK
    <3>3. dead' \in Seq(Envelopes)
      BY <3>1, <3>2
    <3> QED
      BY <1>10, <2>1, <2>2, <3>3 DEF TypeOK, Start, DeadLetterAndAck, XAck
  <2>3. CASE Kind[env.job] # "unknown"
    <3>1. [id |-> id, env |-> env, result |-> "pending"] \in Runs
      BY <1>10, EntryFacts DEF Runs
    <3>3. /\ running' = [running EXCEPT ![w] = [id |-> id, env |-> env, result |-> "pending"]]
          /\ UNCHANGED <<redis, acked>>
      BY <1>10, <2>3 DEF Start
    <3>4. running' \in [Workers -> Runs \cup {NoRun}]
      BY <3>1, <3>3 DEF TypeOK
    <3> QED
      BY <1>10, <2>1, <3>3, <3>4 DEF TypeOK, redis
  <2> QED
    BY <2>2, <2>3
<1>11. ASSUME NEW w \in Workers, TakeDelivered(w) PROVE TypeOK'
  <2>1. PICK id \in Ids : Heads(w, id) /\ Release(w, id) /\ Start(w, id, stream[id])
    BY <1>11 DEF TakeDelivered
  <2>2. stream[id] \in Envelopes
    BY EntryFacts
  <2> QED
    BY <1>10, <1>11, <2>1, <2>2 DEF TakeDelivered, Heads
<1>12. ASSUME NEW w \in Workers, TakeReclaimed(w) PROVE TypeOK'
  <2>1. PICK id \in Ids :
          /\ Heads(w, id)
          /\ Release(w, id)
          /\ \/ DeadLetterAndAck(id, stream[id]) /\ UNCHANGED running
             \/ Start(w, id, [stream[id] EXCEPT !.attempt = @ + 1])
    BY <1>12 DEF TakeReclaimed
  <2>2. stream[id] \in Envelopes /\ [stream[id] EXCEPT !.attempt = @ + 1] \in Envelopes
    BY EntryFacts, EnvelopeFacts
  <2>3. CASE DeadLetterAndAck(id, stream[id]) /\ UNCHANGED running
    BY <1>12, <2>1, <2>2, <2>3 DEF TakeReclaimed, TypeOK, Release, DeadLetterAndAck, XAck
  <2>4. CASE Start(w, id, [stream[id] EXCEPT !.attempt = @ + 1])
    BY <1>10, <1>12, <2>1, <2>2, <2>4 DEF TakeReclaimed, Heads
  <2> QED
    BY <2>1, <2>3, <2>4
<1>13. ASSUME NEW w \in Workers, HandlerReturns(w) PROVE TypeOK'
  <2>1. PICK result \in {"ok", "err"} : running' = [running EXCEPT ![w].result = result]
    BY <1>13 DEF HandlerReturns
  <2>2. [running[w] EXCEPT !.result = result] \in Runs
    BY <1>13, RunFacts DEF HandlerReturns, Runs
  <2> QED
    BY <1>13, <2>1, <2>2 DEF TypeOK, HandlerReturns, redis, history
<1>14. ASSUME NEW w \in Workers, Complete(w) PROVE TypeOK'
  <2>1. running[w].env.job \in Jobs
    BY <1>14, RunFacts, EnvelopeFacts DEF Complete, Settling
  <2> QED
    BY <1>14, <2>1 DEF TypeOK, Complete, Settling, PlainAck, XAck
<1>15. ASSUME NEW w \in Workers, Retry(w) PROVE TypeOK'
  <2>1. [running[w].env EXCEPT !.attempt = @ + 1] \in Envelopes
    BY <1>15, RunFacts, EnvelopeFacts DEF Retry, Settling
  <2>2. /\ ScheduleRetryAndAck(running[w].id, [running[w].env EXCEPT !.attempt = @ + 1])
        /\ Settling(w, "err")
    BY <1>15 DEF Retry
  <2>3. scheduled' \subseteq Envelopes /\ due' \subseteq scheduled'
    BY <2>1, <2>2 DEF TypeOK, ScheduleRetryAndAck
  <2> QED
    BY <2>2, <2>3 DEF TypeOK, Settling, ScheduleRetryAndAck, XAck
<1>16. ASSUME NEW w \in Workers, Bury(w) PROVE TypeOK'
  <2>1. running[w].env \in Envelopes
    BY <1>16, RunFacts DEF Bury, Settling
  <2>2. dead' \in Seq(Envelopes)
    BY <1>16, <2>1, AppendFacts DEF TypeOK, Bury, DeadLetterAndAck
  <2> QED
    BY <1>16, <2>2 DEF TypeOK, Bury, Settling, DeadLetterAndAck, XAck
<1>17. ASSUME NEW w \in Workers, Abort(w) PROVE TypeOK'
  BY <1>17 DEF TypeOK, Abort, GiveUp, redis, history
<1>18. CASE UNCHANGED vars
  BY <1>18 DEF TypeOK, vars, redis, worker, history
<1> QED
  BY <1>1, <1>2, <1>3, <1>4, <1>5, <1>6, <1>7, <1>8, <1>9, <1>11, <1>12, <1>13,
     <1>14, <1>15, <1>16, <1>17, <1>18 DEF Next, Work

\* The types hold in every reachable state: pending and held entries have been
\* delivered, and an attempt is a positive number.
THEOREM TypeCorrect == Spec => []TypeOK
<1>1. Init => TypeOK
  BY JobsAssumption DEF Init, TypeOK
<1> QED
  BY <1>1, TypeStep, PTL DEF Spec

-----------------------------------------------------------------------------
(* Custody: every submitted job has exactly one copy.                      *)

\* OneCopy and NothingLost as one statement: the four places partition the
\* submitted jobs, and no place holds a job twice.
Custody ==
  /\ OneLiveEntry /\ OneScheduled /\ OneGrave
  /\ Queued \cap JobsOf(scheduled) = {}
  /\ Settled \cap (Queued \cup JobsOf(scheduled)) = {}
  /\ acked \cap Buried = {}
  /\ submitted = Queued \cup JobsOf(scheduled) \cup Settled

\* What a worker runs is the job of the entry it will settle.
RunsMatch ==
  \A w \in Workers : running[w] # NoRun =>
    /\ running[w].id \in 1 .. delivered
    /\ running[w].env.job = stream[running[w].id].job

IInv == TypeOK /\ RunsMatch /\ Custody

\* How the elementary changes of Redis move a job from place to place.
LEMMA QueuedGains ==
  ASSUME TypeOK, OneLiveEntry, NEW env \in Envelopes, env.job \notin Queued,
         stream' = Append(stream, env), UNCHANGED <<delivered, pel>>
  PROVE  OneLiveEntry' /\ Queued' = Queued \cup {env.job}
<1> DEFINE new == Len(stream) + 1
<1>1. /\ Len(stream') = new
      /\ \A i \in 1 .. Len(stream) : stream'[i] = stream[i]
      /\ stream'[new] = env
  BY AppendFacts DEF TypeOK
<1>2. Live' = Live \cup {new} /\ Live \subseteq 1 .. Len(stream) /\ new \notin Live
  <2>1. /\ Len(stream) \in Nat /\ delivered \in Nat /\ delivered <= Len(stream)
        /\ pel \subseteq 1 .. Len(stream)
    BY EntryFacts DEF TypeOK, Ids
  <2>2. (delivered + 1) .. new = ((delivered + 1) .. Len(stream)) \cup {new}
    BY <2>1
  <2>3. Live' = pel \cup ((delivered + 1) .. new)
    BY <1>1 DEF Live
  <2>4. Live \subseteq 1 .. Len(stream)
    <3>1. (delivered + 1) .. Len(stream) \subseteq 1 .. Len(stream)
      BY <2>1
    <3> QED
      BY <2>1, <3>1 DEF Live
  <2>5. new \notin Live
    BY <2>1, <2>4
  <2> HIDE DEF new
  <2>6. Live' = Live \cup {new}
    BY <2>2, <2>3 DEF Live
  <2> QED
    BY <2>4, <2>5, <2>6
<1>3. \A i \in Live : stream'[i] = stream[i] /\ stream[i].job # env.job
  BY <1>1, <1>2 DEF Queued
<1> HIDE DEF new
<1>4. OneLiveEntry'
  <2> SUFFICES ASSUME NEW i \in Live', NEW k \in Live', stream'[i].job = stream'[k].job
               PROVE  i = k
    BY DEF OneLiveEntry
  <2> QED
    BY <1>1, <1>2, <1>3 DEF OneLiveEntry
<1>5. Queued' = Queued \cup {env.job}
  BY <1>1, <1>2, <1>3 DEF Queued
<1> QED
  BY <1>4, <1>5

\* Acknowledging an entry takes its job, and no other, out of the queue.
LEMMA QueuedLoses ==
  ASSUME TypeOK, OneLiveEntry, NEW id \in pel,
         pel' = pel \ {id}, UNCHANGED <<stream, delivered>>
  PROVE  /\ OneLiveEntry'
         /\ stream[id].job \in Queued
         /\ Queued' = Queued \ {stream[id].job}
<1>1. id \in Live /\ Live' = Live \ {id}
  BY EntryFacts DEF Live, TypeOK
<1>2. OneLiveEntry'
  BY <1>1 DEF OneLiveEntry
<1>3. Queued' = Queued \ {stream[id].job}
  BY <1>1 DEF Queued, OneLiveEntry
<1> QED
  BY <1>1, <1>2, <1>3 DEF Queued

\* A retry adds its job to the scheduled set, once.
LEMMA ScheduledGains ==
  ASSUME OneScheduled, NEW env, env.job \notin JobsOf(scheduled),
         scheduled' = scheduled \cup {env}
  PROVE  OneScheduled' /\ JobsOf(scheduled)' = JobsOf(scheduled) \cup {env.job}
  BY DEF OneScheduled, JobsOf

\* ZREM takes the job of the envelope, and no other, out of the scheduled set.
LEMMA ScheduledLoses ==
  ASSUME OneScheduled, NEW env \in scheduled, scheduled' = scheduled \ {env}
  PROVE  /\ OneScheduled'
         /\ env.job \in JobsOf(scheduled)
         /\ JobsOf(scheduled)' = JobsOf(scheduled) \ {env.job}
  BY DEF OneScheduled, JobsOf

\* A dead record buries its job, once.
LEMMA BuriedGains ==
  ASSUME TypeOK, OneGrave, NEW env \in Envelopes, env.job \notin Buried,
         dead' = Append(dead, env)
  PROVE  OneGrave' /\ Buried' = Buried \cup {env.job}
<1> DEFINE new == Len(dead) + 1
<1>1. /\ Len(dead') = new /\ Len(dead) \in Nat
      /\ \A i \in 1 .. Len(dead) : dead'[i] = dead[i]
      /\ dead'[new] = env
  BY AppendFacts DEF TypeOK
<1>2. 1 .. Len(dead') = (1 .. Len(dead)) \cup {new} /\ new \notin 1 .. Len(dead)
  BY <1>1
<1>3. \A i \in 1 .. Len(dead) : dead[i].job # env.job
  BY DEF Buried
<1> HIDE DEF new
<1>4. OneGrave'
  <2> SUFFICES ASSUME NEW i \in 1 .. Len(dead'), NEW k \in 1 .. Len(dead'),
                      dead'[i].job = dead'[k].job
               PROVE  i = k
    BY DEF OneGrave
  <2> QED
    BY <1>1, <1>2, <1>3 DEF OneGrave
<1>5. Buried' = Buried \cup {env.job}
  BY <1>1, <1>2, <1>3 DEF Buried
<1> QED
  BY <1>4, <1>5

\* A step that moves no job keeps custody.
LEMMA Unmoved ==
  ASSUME Custody, UNCHANGED <<stream, delivered, pel, scheduled, dead, acked, submitted>>
  PROVE  Custody'
<1>1. Live' = Live
  BY DEF Live
<1>2. /\ Queued' = Queued /\ JobsOf(scheduled)' = JobsOf(scheduled)
      /\ Buried' = Buried /\ acked' = acked /\ submitted' = submitted
  BY <1>1 DEF Queued, JobsOf, Buried
<1>3. OneLiveEntry' /\ OneScheduled' /\ OneGrave'
  BY <1>1 DEF Custody, OneLiveEntry, OneScheduled, OneGrave
<1> QED
  BY <1>2, <1>3 DEF Custody, Settled

\* The three ways to settle an entry; each does nothing when the entry was
\* settled before.
LEMMA PlainAckCustody ==
  ASSUME TypeOK, Custody, NEW id \in 1 .. delivered, PlainAck(id, stream[id].job),
         UNCHANGED submitted
  PROVE  Custody'
<1>1. CASE id \notin pel
  BY <1>1, Unmoved DEF PlainAck, XAck
<1>2. CASE id \in pel
  <2>1. /\ OneLiveEntry' /\ stream[id].job \in Queued
        /\ Queued' = Queued \ {stream[id].job}
    BY <1>2, QueuedLoses DEF PlainAck, XAck, Custody
  <2>2. /\ acked' = acked \cup {stream[id].job}
        /\ OneScheduled' /\ OneGrave'
        /\ JobsOf(scheduled)' = JobsOf(scheduled) /\ Buried' = Buried
    BY <1>2 DEF PlainAck, Custody, OneScheduled, OneGrave, JobsOf, Buried
  <2> QED
    BY <2>1, <2>2 DEF Custody, Settled
<1> QED
  BY <1>1, <1>2

\* Burying moves a job from the queue to the dead stream, or nothing.
LEMMA DeadLetterCustody ==
  ASSUME TypeOK, Custody, NEW id \in 1 .. delivered, NEW env \in Envelopes,
         env.job = stream[id].job, DeadLetterAndAck(id, env), UNCHANGED submitted
  PROVE  Custody'
<1>1. CASE id \notin pel
  BY <1>1, Unmoved DEF DeadLetterAndAck, XAck
<1>2. CASE id \in pel
  <2>1. /\ OneLiveEntry' /\ env.job \in Queued /\ Queued' = Queued \ {env.job}
    BY <1>2, QueuedLoses DEF DeadLetterAndAck, XAck, Custody
  <2>2. OneGrave' /\ Buried' = Buried \cup {env.job}
    BY <1>2, <2>1, BuriedGains DEF DeadLetterAndAck, Custody, Settled
  <2>3. /\ OneScheduled' /\ JobsOf(scheduled)' = JobsOf(scheduled) /\ acked' = acked
    BY DEF DeadLetterAndAck, Custody, OneScheduled, JobsOf
  <2> QED
    BY <2>1, <2>2, <2>3 DEF Custody, Settled
<1> QED
  BY <1>1, <1>2

\* A retry moves a job from the queue to the scheduled set, or nothing.
LEMMA RetryCustody ==
  ASSUME TypeOK, Custody, NEW id \in 1 .. delivered, NEW env \in Envelopes,
         env.job = stream[id].job, ScheduleRetryAndAck(id, env), UNCHANGED submitted
  PROVE  Custody'
<1>1. CASE id \notin pel
  BY <1>1, Unmoved DEF ScheduleRetryAndAck, XAck
<1>2. CASE id \in pel
  <2>1. /\ OneLiveEntry' /\ env.job \in Queued /\ Queued' = Queued \ {env.job}
    BY <1>2, QueuedLoses DEF ScheduleRetryAndAck, XAck, Custody
  <2>2. OneScheduled' /\ JobsOf(scheduled)' = JobsOf(scheduled) \cup {env.job}
    BY <1>2, <2>1, ScheduledGains DEF ScheduleRetryAndAck, Custody
  <2>3. OneGrave' /\ Buried' = Buried /\ acked' = acked
    BY DEF ScheduleRetryAndAck, Custody, OneGrave, Buried
  <2> QED
    BY <2>1, <2>2, <2>3 DEF Custody, Settled
<1> QED
  BY <1>1, <1>2

\* Promotion moves a job from the scheduled set to the stream, or nothing.
LEMMA PromoteCustody ==
  ASSUME TypeOK, Custody, NEW env \in Envelopes, PromoteScheduled(env),
         UNCHANGED <<delivered, pel, dead, acked, submitted>>
  PROVE  Custody'
<1>1. CASE env \notin scheduled
  BY <1>1, Unmoved DEF PromoteScheduled
<1>2. CASE env \in scheduled
  <2>1. /\ OneScheduled' /\ env.job \in JobsOf(scheduled)
        /\ JobsOf(scheduled)' = JobsOf(scheduled) \ {env.job}
    BY <1>2, ScheduledLoses DEF PromoteScheduled, Custody
  <2>2. OneLiveEntry' /\ Queued' = Queued \cup {env.job}
    BY <1>2, <2>1, QueuedGains DEF PromoteScheduled, Custody
  <2>3. OneGrave' /\ Buried' = Buried /\ acked' = acked
    BY DEF Custody, OneGrave, Buried
  <2> QED
    BY <2>1, <2>2, <2>3 DEF Custody, Settled
<1> QED
  BY <1>1, <1>2

\* Custody is inductive: one case per action.
LEMMA CustodyStep == IInv /\ [Next]_vars => Custody'
<1> SUFFICES ASSUME TypeOK, RunsMatch, Custody, [Next]_vars PROVE Custody'
  BY DEF IInv
<1>1. ASSUME NEW j \in Jobs, Enqueue(j) PROVE Custody'
  <2> DEFINE env == NewEnvelope(j)
  <2>1. /\ env \in Envelopes /\ env.job = j /\ j \notin submitted
        /\ stream' = Append(stream, env) /\ submitted' = submitted \cup {j}
        /\ UNCHANGED <<delivered, pel, scheduled, dead, acked>>
    BY <1>1 DEF Enqueue, NewEnvelope, Envelopes
  <2> HIDE DEF env
  <2>2. OneLiveEntry' /\ Queued' = Queued \cup {j}
    BY <2>1, QueuedGains DEF Custody
  <2>3. /\ OneScheduled' /\ OneGrave' /\ acked' = acked
        /\ JobsOf(scheduled)' = JobsOf(scheduled) /\ Buried' = Buried
    BY <2>1 DEF Custody, OneScheduled, OneGrave, JobsOf, Buried
  <2> QED
    BY <2>1, <2>2, <2>3 DEF Custody, Settled
<1>2. ASSUME NEW j \in Jobs, Schedule(j) PROVE Custody'
  <2> DEFINE env == NewEnvelope(j)
  <2>1. /\ env.job = j /\ j \notin submitted
        /\ scheduled' = scheduled \cup {env} /\ submitted' = submitted \cup {j}
        /\ UNCHANGED <<stream, delivered, pel, dead, acked>>
    BY <1>2 DEF Schedule, NewEnvelope
  <2> HIDE DEF env
  <2>2. OneScheduled' /\ JobsOf(scheduled)' = JobsOf(scheduled) \cup {j}
    BY <2>1, ScheduledGains DEF Custody
  <2>3. Live' = Live
    BY <2>1 DEF Live
  <2>4. /\ OneLiveEntry' /\ OneGrave' /\ acked' = acked
        /\ Queued' = Queued /\ Buried' = Buried
    BY <2>1, <2>3 DEF Custody, OneLiveEntry, OneGrave, Queued, Buried
  <2> QED
    BY <2>1, <2>2, <2>4 DEF Custody, Settled
<1>3. ASSUME NEW env \in scheduled, BecomeDue(env) PROVE Custody'
  BY <1>3, Unmoved DEF BecomeDue, history
<1>4. ASSUME NEW id \in pel, GoStale(id) PROVE Custody'
  BY <1>4, Unmoved DEF GoStale, history
<1>5. ASSUME NEW w \in Workers, ScanDue(w) PROVE Custody'
  BY <1>5, Unmoved DEF ScanDue, redis, history
<1>6. ASSUME NEW w \in Workers, Promote(w) PROVE Custody'
  <2>1. PICK env \in promos[w] :
          IF Kind[env.job] = "garbled"
          THEN GiveUp(w) /\ UNCHANGED redis
          ELSE /\ PromoteScheduled(env)
               /\ UNCHANGED <<delivered, pel, dead>>
    BY <1>6 DEF Promote
  <2>2. env \in Envelopes /\ UNCHANGED history
    BY <1>6 DEF TypeOK, Promote
  <2>3. CASE Kind[env.job] = "garbled"
    BY <2>1, <2>2, <2>3, Unmoved DEF redis, history
  <2>4. CASE Kind[env.job] # "garbled"
    BY <2>1, <2>2, <2>4, PromoteCustody DEF history
  <2> QED
    BY <2>3, <2>4
<1>7. ASSUME NEW w \in Workers, ClaimStale(w) PROVE Custody'
  BY <1>7, Unmoved DEF ClaimStale, history
<1>8. ASSUME NEW w \in Workers, ReadNew(w) PROVE Custody'
  <2> DEFINE last == delivered + SmallerOf(BatchSize, Len(stream) - delivered)
  <2>1. /\ delivered' = last /\ last \in Nat /\ delivered <= last /\ last <= Len(stream)
        /\ pel' = pel \cup ((delivered + 1) .. last)
        /\ UNCHANGED <<stream, scheduled, dead, acked, submitted>>
    BY <1>8, EntryFacts, JobsAssumption DEF ReadNew, SmallerOf, history
  <2> HIDE DEF last
  <2>2. Live' = Live
    BY <2>1, EntryFacts DEF Live
  <2>3. /\ Queued' = Queued /\ JobsOf(scheduled)' = JobsOf(scheduled)
        /\ Buried' = Buried /\ acked' = acked /\ submitted' = submitted
    BY <2>1, <2>2 DEF Queued, JobsOf, Buried
  <2>4. OneLiveEntry' /\ OneScheduled' /\ OneGrave'
    BY <2>1, <2>2 DEF Custody, OneLiveEntry, OneScheduled, OneGrave
  <2> QED
    BY <2>3, <2>4 DEF Custody, Settled
<1>9. ASSUME NEW w \in Workers, DropGarbled(w) PROVE Custody'
  <2>1. PICK id \in Ids : id \in held[w] /\ PlainAck(id, stream[id].job)
    BY <1>9 DEF DropGarbled, Heads
  <2> QED
    BY <1>9, <2>1, PlainAckCustody DEF DropGarbled, TypeOK
<1>10. ASSUME NEW w \in Workers, NEW id \in Ids, NEW env \in Envelopes, id \in held[w],
              env.job = stream[id].job, Start(w, id, env), UNCHANGED submitted
       PROVE  Custody'
  <2>1. CASE Kind[env.job] = "unknown"
    BY <1>10, <2>1, DeadLetterCustody DEF Start, TypeOK
  <2>2. CASE Kind[env.job] # "unknown"
    BY <1>10, <2>2, Unmoved DEF Start, redis
  <2> QED
    BY <2>1, <2>2
<1>11. ASSUME NEW w \in Workers, TakeDelivered(w) PROVE Custody'
  <2>1. PICK id \in Ids : id \in held[w] /\ Start(w, id, stream[id])
    BY <1>11 DEF TakeDelivered, Heads
  <2> QED
    BY <1>10, <1>11, <2>1, EntryFacts DEF TakeDelivered
<1>12. ASSUME NEW w \in Workers, TakeReclaimed(w) PROVE Custody'
  <2>1. PICK id \in Ids :
          /\ id \in held[w]
          /\ \/ DeadLetterAndAck(id, stream[id])
             \/ Start(w, id, [stream[id] EXCEPT !.attempt = @ + 1])
    BY <1>12 DEF TakeReclaimed, Heads
  <2>2. stream[id] \in Envelopes /\ id \in 1 .. delivered /\ UNCHANGED submitted
    BY <1>12, <2>1, EntryFacts DEF TakeReclaimed, TypeOK
  <2>3. CASE DeadLetterAndAck(id, stream[id])
    BY <2>2, <2>3, DeadLetterCustody
  <2>4. CASE Start(w, id, [stream[id] EXCEPT !.attempt = @ + 1])
    BY <1>10, <2>1, <2>2, <2>4, EnvelopeFacts
  <2> QED
    BY <2>1, <2>3, <2>4
<1>13. ASSUME NEW w \in Workers, HandlerReturns(w) PROVE Custody'
  BY <1>13, Unmoved DEF HandlerReturns, redis, history
<1>14. ASSUME NEW w \in Workers, Complete(w) PROVE Custody'
  BY <1>14, PlainAckCustody DEF Complete, Settling, RunsMatch
<1>15. ASSUME NEW w \in Workers, Retry(w) PROVE Custody'
  <2>1. /\ running[w] # NoRun /\ UNCHANGED submitted
        /\ ScheduleRetryAndAck(running[w].id, [running[w].env EXCEPT !.attempt = @ + 1])
    BY <1>15 DEF Retry, Settling
  <2>2. /\ running[w].id \in 1 .. delivered
        /\ [running[w].env EXCEPT !.attempt = @ + 1] \in Envelopes
        /\ [running[w].env EXCEPT !.attempt = @ + 1].job = stream[running[w].id].job
    BY <2>1, RunFacts, EnvelopeFacts DEF RunsMatch
  <2> QED
    BY <2>1, <2>2, RetryCustody
<1>16. ASSUME NEW w \in Workers, Bury(w) PROVE Custody'
  BY <1>16, RunFacts, DeadLetterCustody DEF Bury, Settling, RunsMatch
<1>17. ASSUME NEW w \in Workers, Abort(w) PROVE Custody'
  BY <1>17, Unmoved DEF Abort, redis, history
<1>18. CASE UNCHANGED vars
  BY <1>18, Unmoved DEF vars, redis, history
<1> QED
  BY <1>1, <1>2, <1>3, <1>4, <1>5, <1>6, <1>7, <1>8, <1>9, <1>11, <1>12, <1>13,
     <1>14, <1>15, <1>16, <1>17, <1>18 DEF Next, Work

\* A stream only grows, so a run keeps matching the entry it was started from.
LEMMA RunsMatchKept ==
  ASSUME TypeOK, RunsMatch, delivered \in Nat, delivered' \in Nat,
         delivered <= delivered',
         \A id \in 1 .. delivered : stream'[id] = stream[id],
         \A w \in Workers : running'[w] # NoRun =>
           \/ /\ running[w] # NoRun
              /\ running'[w].id = running[w].id /\ running'[w].env = running[w].env
           \/ /\ running'[w].id \in 1 .. delivered
              /\ running'[w].env.job = stream[running'[w].id].job
  PROVE  RunsMatch'
  BY DEF RunsMatch

\* RunsMatch is inductive: one case per action.
LEMMA RunsMatchStep == IInv /\ [Next]_vars => RunsMatch'
<1> SUFFICES ASSUME TypeOK, RunsMatch, [Next]_vars PROVE RunsMatch'
  BY DEF IInv
<1> DEFINE Kept(w) == running'[w] # NoRun =>
             \/ /\ running[w] # NoRun
                /\ running'[w].id = running[w].id /\ running'[w].env = running[w].env
             \/ /\ running'[w].id \in 1 .. delivered
                /\ running'[w].env.job = stream[running'[w].id].job
<1>1. /\ delivered \in Nat /\ delivered' \in Nat /\ delivered <= delivered'
      /\ \A id \in 1 .. delivered : stream'[id] = stream[id]
  <2>1. \A id \in 1 .. delivered : id \in 1 .. Len(stream)
    BY EntryFacts
  <2>2. ASSUME NEW env \in Envelopes, NEW id \in 1 .. delivered
        PROVE  Append(stream, env)[id] = stream[id]
    BY <2>1, AppendFacts DEF TypeOK
  <2>3. delivered' = delivered \/ \E w \in Workers : ReadNew(w)
    BY DEF Next, Work, Enqueue, Schedule, BecomeDue, GoStale, ScanDue, Promote,
           PromoteScheduled, GiveUp, ClaimStale, DropGarbled, PlainAck, TakeDelivered,
           TakeReclaimed, Start, DeadLetterAndAck, HandlerReturns, Complete, Retry,
           ScheduleRetryAndAck, Bury, Abort, vars, redis
  <2>4. ASSUME NEW w \in Workers, ReadNew(w)
        PROVE  delivered' \in Nat /\ delivered <= delivered'
    BY <2>4, EntryFacts, JobsAssumption DEF ReadNew, SmallerOf
  <2>5. \/ stream' = stream
        \/ \E env \in Envelopes : stream' = Append(stream, env)
    <3>1. ASSUME NEW j \in Jobs PROVE NewEnvelope(j) \in Envelopes
      BY DEF NewEnvelope, Envelopes
    <3>2. ASSUME NEW w \in Workers, NEW env \in promos[w] PROVE env \in Envelopes
      BY DEF TypeOK
    <3> QED
      BY <3>1, <3>2
         DEF Next, Work, Enqueue, Schedule, BecomeDue, GoStale, ScanDue, Promote,
             PromoteScheduled, ClaimStale, ReadNew, DropGarbled, PlainAck, TakeDelivered,
             TakeReclaimed, Start, DeadLetterAndAck, HandlerReturns, Complete, Retry,
             ScheduleRetryAndAck, Bury, Abort, vars, redis
  <2> QED
    BY <2>2, <2>3, <2>4, <2>5, EntryFacts
<1>2. ASSUME NEW w \in Workers PROVE Kept(w)
  <2>1. CASE running' = running
    BY <2>1
  <2>2. ASSUME NEW v \in Workers, NEW run, running' = [running EXCEPT ![v] = run],
               \/ run = NoRun
               \/ run.id \in 1 .. delivered /\ run.env.job = stream[run.id].job
        PROVE  Kept(w)
    BY <2>2 DEF TypeOK
  <2>3. ASSUME NEW v \in Workers, GiveUp(v) PROVE Kept(w)
    BY <2>2, <2>3 DEF GiveUp
  <2>4. ASSUME NEW v \in Workers, NEW id \in held[v], NEW env \in Envelopes,
               env.job = stream[id].job, Start(v, id, env)
        PROVE  Kept(w)
    BY <2>1, <2>2, <2>4 DEF Start, TypeOK
  <2>5. ASSUME NEW v \in Workers, Promote(v) PROVE Kept(w)
    BY <2>1, <2>3, <2>5 DEF Promote
  <2>6. ASSUME NEW v \in Workers, DropGarbled(v) PROVE Kept(w)
    BY <2>3, <2>6 DEF DropGarbled
  <2>7. ASSUME NEW v \in Workers, TakeDelivered(v) PROVE Kept(w)
    BY <2>4, <2>7, EntryFacts DEF TakeDelivered, Heads
  <2>8. ASSUME NEW v \in Workers, TakeReclaimed(v) PROVE Kept(w)
    <3>1. PICK id \in Ids :
            /\ id \in held[v]
            /\ \/ running' = running
               \/ Start(v, id, [stream[id] EXCEPT !.attempt = @ + 1])
      BY <2>8 DEF TakeReclaimed, Heads
    <3> QED
      BY <2>1, <2>4, <3>1, EntryFacts, EnvelopeFacts
  <2>9. ASSUME NEW v \in Workers, HandlerReturns(v) PROVE Kept(w)
    <3>1. PICK result \in {"ok", "err"} : running' = [running EXCEPT ![v].result = result]
      BY <2>9 DEF HandlerReturns
    <3>2. running[v] \in Runs /\ running[v] # NoRun
      BY <2>9, RunFacts DEF HandlerReturns
    <3>3. /\ running'[v] = [running[v] EXCEPT !.result = result]
          /\ w # v => running'[w] = running[w]
      BY <3>1 DEF TypeOK
    <3>4. running'[v].id = running[v].id /\ running'[v].env = running[v].env
      BY <3>2, <3>3 DEF Runs
    <3> QED
      BY <3>2, <3>3, <3>4
  <2>10. ASSUME NEW v \in Workers, Complete(v) \/ Retry(v) \/ Bury(v) PROVE Kept(w)
    BY <2>2, <2>10 DEF Complete, Retry, Bury, Settling
  <2>11. ASSUME NEW v \in Workers, Abort(v) PROVE Kept(w)
    BY <2>3, <2>11 DEF Abort
  <2> QED
    BY <2>1, <2>5, <2>6, <2>7, <2>8, <2>9, <2>10, <2>11
       DEF Next, Work, Enqueue, Schedule, BecomeDue, GoStale, ScanDue, ClaimStale,
           ReadNew, worker, vars
<1> QED
  BY <1>1, <1>2, RunsMatchKept

\* The inductive invariant: custody needs to know that a worker settles the
\* entry of the very job it ran.
LEMMA Inductive == Spec => []IInv
<1>1. Init => IInv
  <2> SUFFICES ASSUME Init PROVE IInv
    OBVIOUS
  <2>1. TypeOK
    BY JobsAssumption DEF Init, TypeOK
  <2>2. RunsMatch
    BY DEF Init, RunsMatch
  <2>3. Live = {} /\ Queued = {} /\ JobsOf(scheduled) = {} /\ Buried = {}
    BY DEF Init, Live, Queued, JobsOf, Buried
  <2> QED
    BY <2>1, <2>2, <2>3
       DEF Init, IInv, Custody, OneLiveEntry, OneScheduled, OneGrave, Settled
<1>2. IInv /\ [Next]_vars => IInv'
  BY TypeStep, RunsMatchStep, CustodyStep DEF IInv
<1> QED
  BY <1>1, <1>2, PTL DEF Spec

\* However crashes, reclaims and late settlements interleave, a job never has
\* two copies in Redis.
THEOREM OneCopyHolds == Spec => []OneCopy
<1>1. IInv => OneCopy
  BY DEF IInv, Custody, OneCopy
<1> QED
  BY <1>1, Inductive, PTL

\* And never none: no crash point loses a submitted job.
THEOREM NothingLostHolds == Spec => []NothingLost
<1>1. IInv => NothingLost
  BY DEF IInv, Custody, NothingLost
<1> QED
  BY <1>1, Inductive, PTL

-----------------------------------------------------------------------------
(* The budget.                                                             *)

\* Attempts grow along the stream, and only the last entry of a job can be live.
Advance ==
  \A i, k \in Ids : i < k /\ stream[i].job = stream[k].job
    => stream[i].attempt < stream[k].attempt /\ i \notin Live

\* A scheduled retry is ahead of every entry the job has had.
RetriesLead ==
  \A e \in scheduled, i \in Ids : stream[i].job = e.job => stream[i].attempt < e.attempt

\* Whatever carries an attempt carries one within the budget, and a run is at
\* least as far as its entry.
WithinBudget ==
  /\ \A i \in Ids : /\ stream[i].attempt <= MaxAttempts[stream[i].job]
                    /\ stream[i].job \in submitted
  /\ \A e \in scheduled : e.attempt <= MaxAttempts[e.job]
  /\ \A w \in Workers : running[w] # NoRun =>
       /\ running[w].env.attempt <= MaxAttempts[running[w].env.job]
       /\ stream[running[w].id].attempt <= running[w].env.attempt

Budget == Advance /\ RetriesLead /\ WithinBudget /\ BuriedAtBudget

\* A retry may follow the entries of its job.
Follows(env) ==
  /\ env.attempt <= MaxAttempts[env.job]
  /\ \A i \in Ids : stream[i].job = env.job => stream[i].attempt < env.attempt

\* A step that adds an entry to the stream.
LEMMA AppendBudget ==
  ASSUME TypeOK, RunsMatch, Budget, NEW env \in Envelopes, Follows(env),
         env.job \notin Queued, stream' = Append(stream, env),
         env.job \in submitted', submitted \subseteq submitted',
         scheduled' \subseteq scheduled, \A e \in scheduled' : e.job # env.job,
         UNCHANGED <<delivered, pel, dead, running>>
  PROVE  Budget'
<1> DEFINE new == Len(stream) + 1
<1>1. /\ Len(stream) \in Nat /\ Len(stream') = new
      /\ \A i \in Ids : stream'[i] = stream[i] /\ stream[i] \in Envelopes /\ i \in Nat
      /\ stream'[new] = env
  BY AppendFacts, EntryFacts DEF TypeOK, Ids
<1>2. /\ Ids' = Ids \cup {new} /\ new \notin Ids
      /\ \A i \in Ids : i < new
  BY <1>1 DEF Ids
<1>3. \A i \in Ids : i \in Live' => i \in Live
  BY <1>1, EntryFacts DEF Live, Ids
<1>4. \A i \in Ids : stream[i].job = env.job => i \notin Live
  BY DEF Queued
<1> HIDE DEF new
<1>5. Advance'
  <2> SUFFICES ASSUME NEW i \in Ids', NEW k \in Ids', i < k, stream'[i].job = stream'[k].job
               PROVE  stream'[i].attempt < stream'[k].attempt /\ i \notin Live'
    BY DEF Advance
  <2>1. i \in Ids
    <3>1. CASE i = new
      <4>1. k = new \/ k \in Ids
        BY <1>2
      <4>2. new \in Nat
        BY <1>1 DEF new
      <4> QED
        BY <1>1, <1>2, <3>1, <4>1, <4>2
    <3> QED
      BY <1>2, <3>1
  <2>2. CASE k \in Ids
    BY <1>1, <1>3, <2>1, <2>2 DEF Advance, Budget
  <2>3. CASE k = new
    BY <1>1, <1>3, <1>4, <2>1, <2>3 DEF Follows
  <2> QED
    BY <1>2, <2>2, <2>3
<1>6. RetriesLead'
  BY <1>1, <1>2 DEF RetriesLead, Budget
<1>7. WithinBudget'
  <2>1. \A w \in Workers : running[w] # NoRun => running[w].id \in Ids
    BY EntryFacts DEF RunsMatch, Ids
  <2>2. \A i \in Ids' : /\ stream'[i].attempt <= MaxAttempts[stream'[i].job]
                        /\ stream'[i].job \in submitted'
    BY <1>1, <1>2 DEF WithinBudget, Budget, Follows
  <2>3. \A e \in scheduled' : e.attempt <= MaxAttempts[e.job]
    BY DEF WithinBudget, Budget
  <2>4. \A w \in Workers : running'[w] # NoRun =>
       /\ running'[w].env.attempt <= MaxAttempts[running'[w].env.job]
       /\ stream'[running'[w].id].attempt <= running'[w].env.attempt
    BY <1>1, <2>1 DEF WithinBudget, Budget
  <2> QED
    BY <2>2, <2>3, <2>4 DEF WithinBudget
<1>8. BuriedAtBudget'
  BY DEF BuriedAtBudget, Budget
<1> QED
  BY <1>5, <1>6, <1>7, <1>8 DEF Budget

\* A step that adds none: it may start runs, schedule a retry and bury.
LEMMA OtherBudget ==
  ASSUME TypeOK, Budget, UNCHANGED stream, submitted \subseteq submitted', Live' \subseteq Live,
         \A e \in scheduled' : e \in scheduled \/ Follows(e),
         \A w \in Workers : running'[w] # NoRun =>
           \/ /\ running[w] # NoRun
              /\ running'[w].id = running[w].id /\ running'[w].env = running[w].env
           \/ /\ running'[w].env.attempt <= MaxAttempts[running'[w].env.job]
              /\ stream[running'[w].id].attempt <= running'[w].env.attempt,
         dead' = dead \/ \E env \in Envelopes :
           /\ dead' = Append(dead, env)
           /\ Kind[env.job] = "registered" => env.attempt = MaxAttempts[env.job]
  PROVE  Budget'
<1>1. Ids' = Ids
  BY DEF Ids
<1>2. Advance'
  BY <1>1 DEF Budget, Advance
<1>3. RetriesLead'
  BY <1>1 DEF Budget, RetriesLead, Follows
<1>4. WithinBudget'
  <2>1. \A i \in Ids' : /\ stream'[i].attempt <= MaxAttempts[stream'[i].job]
                        /\ stream'[i].job \in submitted'
    BY <1>1 DEF Budget, WithinBudget
  <2>2. \A e \in scheduled' : e.attempt <= MaxAttempts[e.job]
    BY DEF Budget, WithinBudget, Follows
  <2>3. \A w \in Workers : running'[w] # NoRun =>
       /\ running'[w].env.attempt <= MaxAttempts[running'[w].env.job]
       /\ stream'[running'[w].id].attempt <= running'[w].env.attempt
    BY DEF Budget, WithinBudget
  <2> QED
    BY <2>1, <2>2, <2>3 DEF WithinBudget
<1>5. BuriedAtBudget'
  <2>1. CASE dead' = dead
    BY <2>1 DEF Budget, BuriedAtBudget
  <2>2. ASSUME NEW env \in Envelopes, dead' = Append(dead, env),
               Kind[env.job] = "registered" => env.attempt = MaxAttempts[env.job]
        PROVE  BuriedAtBudget'
    <3>1. /\ Len(dead') = Len(dead) + 1 /\ Len(dead) \in Nat
          /\ \A i \in 1 .. Len(dead) : dead'[i] = dead[i]
          /\ dead'[Len(dead) + 1] = env
      BY <2>2, AppendFacts DEF TypeOK
    <3>2. 1 .. Len(dead') = (1 .. Len(dead)) \cup {Len(dead) + 1}
      BY <3>1
    <3> QED
      BY <2>2, <3>1, <3>2 DEF Budget, BuriedAtBudget
  <2> QED
    BY <2>1, <2>2
<1> QED
  BY <1>2, <1>3, <1>4, <1>5 DEF Budget

\* The runs after a step are runs from before it, or begin within the budget.
RunsKept ==
  \A w \in Workers : running'[w] # NoRun =>
    \/ /\ running[w] # NoRun
       /\ running'[w].id = running[w].id /\ running'[w].env = running[w].env
    \/ /\ running'[w].env.attempt <= MaxAttempts[running'[w].env.job]
       /\ stream[running'[w].id].attempt <= running'[w].env.attempt

\* Giving up and settling end one run and keep the others.
LEMMA RunEnds ==
  ASSUME TypeOK, NEW v \in Workers, running' = [running EXCEPT ![v] = NoRun]
  PROVE  RunsKept
  BY DEF TypeOK, RunsKept

\* The budget is kept by every step.
LEMMA BudgetStep == IInv /\ Budget /\ [Next]_vars => Budget'
<1> SUFFICES ASSUME TypeOK, RunsMatch, Custody, Budget, [Next]_vars PROVE Budget'
  BY DEF IInv
<1>1. ASSUME UNCHANGED <<stream, delivered, pel, dead, submitted>>,
             \A e \in scheduled' : e \in scheduled \/ Follows(e), RunsKept
      PROVE  Budget'
  <2>1. Live' = Live
    BY <1>1 DEF Live
  <2> QED
    BY <1>1, <2>1, OtherBudget DEF RunsKept
<1>2. ASSUME UNCHANGED running PROVE RunsKept
  BY <1>2 DEF RunsKept
<1>3. ASSUME NEW j \in Jobs, j \notin submitted
      PROVE  /\ NewEnvelope(j) \in Envelopes /\ NewEnvelope(j).job = j
             /\ Follows(NewEnvelope(j)) /\ j \notin Queued
             /\ \A e \in scheduled : e.job # j
  <2>1. NewEnvelope(j) \in Envelopes /\ NewEnvelope(j).job = j /\ NewEnvelope(j).attempt = 1
    BY DEF NewEnvelope, Envelopes
  <2>2. \A i \in Ids : stream[i].job # j
    BY <1>3 DEF Budget, WithinBudget
  <2>3. 1 <= MaxAttempts[j]
    BY JobsAssumption
  <2>4. j \notin Queued /\ j \notin JobsOf(scheduled)
    BY <1>3 DEF Custody
  <2> QED
    BY <2>1, <2>2, <2>3, <2>4 DEF Follows, JobsOf
<1>4. ASSUME NEW j \in Jobs, Enqueue(j) PROVE Budget'
  <2> DEFINE env == NewEnvelope(j)
  <2>1. /\ j \notin submitted /\ submitted' = submitted \cup {j}
        /\ stream' = Append(stream, env)
        /\ UNCHANGED <<delivered, pel, scheduled, dead, running>>
    BY <1>4 DEF Enqueue, worker
  <2> HIDE DEF env
  <2> QED
    BY <1>3, <2>1, AppendBudget DEF env
<1>5. ASSUME NEW j \in Jobs, Schedule(j) PROVE Budget'
  <2>1. /\ j \notin submitted /\ submitted' = submitted \cup {j}
        /\ scheduled' = scheduled \cup {NewEnvelope(j)}
        /\ UNCHANGED <<stream, delivered, pel, dead, running>>
    BY <1>5 DEF Schedule, worker
  <2>2. Live' = Live
    BY <2>1 DEF Live
  <2> QED
    BY <1>2, <1>3, <2>1, <2>2, OtherBudget DEF RunsKept
<1>6. ASSUME NEW env \in scheduled, BecomeDue(env) PROVE Budget'
  BY <1>1, <1>2, <1>6 DEF BecomeDue, worker, history
<1>7. ASSUME NEW id \in pel, GoStale(id) PROVE Budget'
  BY <1>1, <1>2, <1>7 DEF GoStale, worker, history
<1>8. ASSUME NEW w \in Workers, ScanDue(w) \/ ClaimStale(w) PROVE Budget'
  BY <1>1, <1>2, <1>8 DEF ScanDue, ClaimStale, redis, history
<1>9. ASSUME NEW w \in Workers, Promote(w) PROVE Budget'
  <2>1. PICK env \in promos[w] :
          IF Kind[env.job] = "garbled"
          THEN GiveUp(w) /\ UNCHANGED redis
          ELSE /\ PromoteScheduled(env)
               /\ UNCHANGED <<delivered, pel, dead, running>>
    BY <1>9 DEF Promote
  <2>2. env \in Envelopes /\ UNCHANGED history
    BY <1>9 DEF TypeOK, Promote
  <2>3. CASE Kind[env.job] = "garbled"
    BY <1>1, <2>1, <2>2, <2>3, RunEnds DEF GiveUp, redis, history
  <2>4. CASE Kind[env.job] # "garbled" /\ env \notin scheduled
    BY <1>1, <1>2, <2>1, <2>2, <2>4 DEF PromoteScheduled, history
  <2>5. CASE Kind[env.job] # "garbled" /\ env \in scheduled
    <3>1. /\ stream' = Append(stream, env) /\ scheduled' = scheduled \ {env}
          /\ UNCHANGED <<delivered, pel, dead, running, submitted>>
      BY <2>1, <2>2, <2>5 DEF PromoteScheduled, history
    <3>2. env.job \in JobsOf(scheduled)
      BY <2>5 DEF JobsOf
    <3>3. env.job \notin Queued /\ env.job \in submitted
      BY <3>2 DEF Custody
    <3>4. \A e \in scheduled' : e.job # env.job
      BY <2>5, <3>1 DEF Custody, OneScheduled
    <3>5. Follows(env)
      BY <2>5 DEF Follows, Budget, RetriesLead, WithinBudget
    <3> QED
      BY <2>2, <3>1, <3>3, <3>4, <3>5, AppendBudget
  <2> QED
    BY <2>3, <2>4, <2>5
<1>10. ASSUME NEW w \in Workers, ReadNew(w) PROVE Budget'
  <2> DEFINE last == delivered + SmallerOf(BatchSize, Len(stream) - delivered)
  <2>1. /\ delivered' = last /\ last \in Nat /\ delivered <= last /\ last <= Len(stream)
        /\ pel' = pel \cup ((delivered + 1) .. last)
        /\ UNCHANGED <<stream, scheduled, dead, submitted, running>>
    BY <1>10, EntryFacts, JobsAssumption DEF ReadNew, SmallerOf, history
  <2> HIDE DEF last
  <2>2. Live' = Live
    BY <2>1, EntryFacts DEF Live
  <2> QED
    BY <1>2, <2>1, <2>2, OtherBudget DEF RunsKept
<1>11. ASSUME UNCHANGED <<stream, delivered, submitted>>, NEW id, pel' = pel \ {id},
              \A e \in scheduled' : e \in scheduled \/ Follows(e), RunsKept,
              dead' = dead \/ \E env \in Envelopes :
                /\ dead' = Append(dead, env)
                /\ Kind[env.job] = "registered" => env.attempt = MaxAttempts[env.job]
       PROVE  Budget'
  <2>1. Live' \subseteq Live
    BY <1>11 DEF Live
  <2> QED
    BY <1>11, <2>1, OtherBudget DEF RunsKept
<1>12. ASSUME NEW w \in Workers, DropGarbled(w) PROVE Budget'
  <2>1. PICK id \in Ids : PlainAck(id, stream[id].job)
    BY <1>12 DEF DropGarbled
  <2> QED
    BY <1>11, <1>12, <2>1, RunEnds DEF DropGarbled, GiveUp, PlainAck, XAck
<1>13. ASSUME NEW w \in Workers, NEW id \in Ids, NEW env \in Envelopes, UNCHANGED submitted,
              env.attempt <= MaxAttempts[env.job], stream[id].attempt <= env.attempt,
              Start(w, id, env)
       PROVE  Budget'
  <2>1. CASE Kind[env.job] = "unknown"
    BY <1>2, <1>11, <1>13, <2>1 DEF Start, DeadLetterAndAck, XAck
  <2>2. CASE Kind[env.job] # "unknown"
    <3>1. /\ running' = [running EXCEPT ![w] = [id |-> id, env |-> env, result |-> "pending"]]
          /\ UNCHANGED <<stream, delivered, pel, scheduled, dead>>
      BY <1>13, <2>2 DEF Start, redis
    <3>2. RunsKept
      BY <1>13, <3>1 DEF RunsKept, TypeOK
    <3> QED
      BY <1>1, <1>13, <3>1, <3>2
  <2> QED
    BY <2>1, <2>2
<1>14. ASSUME NEW w \in Workers, TakeDelivered(w) PROVE Budget'
  <2>1. PICK id \in Ids : Start(w, id, stream[id])
    BY <1>14 DEF TakeDelivered
  <2>2. /\ stream[id] \in Envelopes /\ stream[id].attempt \in Nat
        /\ stream[id].attempt <= MaxAttempts[stream[id].job]
    BY EntryFacts, EnvelopeFacts DEF Budget, WithinBudget
  <2> QED
    BY <1>13, <1>14, <2>1, <2>2 DEF TakeDelivered
<1>15. ASSUME NEW w \in Workers, TakeReclaimed(w) PROVE Budget'
  <2>1. PICK id \in Ids :
          IF stream[id].attempt >= MaxAttempts[stream[id].job]
          THEN DeadLetterAndAck(id, stream[id]) /\ UNCHANGED running
          ELSE Start(w, id, [stream[id] EXCEPT !.attempt = @ + 1])
    BY <1>15 DEF TakeReclaimed
  <2> DEFINE env == stream[id]  next == [env EXCEPT !.attempt = @ + 1]
  <2>2. /\ env \in Envelopes /\ env.job \in Jobs /\ env.attempt \in Nat
        /\ env.attempt <= MaxAttempts[env.job] /\ MaxAttempts[env.job] \in Nat
        /\ next \in Envelopes /\ next.job = env.job /\ next.attempt = env.attempt + 1
    BY EntryFacts, EnvelopeFacts, JobsAssumption DEF Budget, WithinBudget
  <2>3. UNCHANGED submitted
    BY <1>15 DEF TakeReclaimed
  <2>4. CASE env.attempt >= MaxAttempts[env.job]
    <3>1. DeadLetterAndAck(id, env) /\ UNCHANGED running /\ env.attempt = MaxAttempts[env.job]
      BY <2>1, <2>2, <2>4
    <3> HIDE DEF env
    <3> QED
      BY <1>2, <1>11, <2>2, <2>3, <3>1 DEF DeadLetterAndAck, XAck
  <2>5. CASE ~ (env.attempt >= MaxAttempts[env.job])
    <3>1. Start(w, id, next) /\ next.attempt <= MaxAttempts[next.job]
          /\ stream[id].attempt <= next.attempt
      BY <2>1, <2>2, <2>5
    <3> HIDE DEF next
    <3> QED
      BY <1>13, <2>2, <2>3, <3>1
  <2> QED
    BY <2>4, <2>5
<1>16. ASSUME NEW w \in Workers, HandlerReturns(w) PROVE Budget'
  <2>1. PICK result \in {"ok", "err"} : running' = [running EXCEPT ![w].result = result]
    BY <1>16 DEF HandlerReturns
  <2>2. running[w] \in Runs /\ running[w] # NoRun
    BY <1>16, RunFacts DEF HandlerReturns
  <2>3. /\ running'[w] = [running[w] EXCEPT !.result = result]
        /\ \A v \in Workers : v # w => running'[v] = running[v]
    BY <2>1 DEF TypeOK
  <2>4. running'[w].id = running[w].id /\ running'[w].env = running[w].env
    BY <2>2, <2>3 DEF Runs
  <2>5. RunsKept
    BY <2>2, <2>3, <2>4 DEF RunsKept
  <2> QED
    BY <1>1, <1>16, <2>5 DEF HandlerReturns, redis, history
<1>17. ASSUME NEW w \in Workers, Complete(w) PROVE Budget'
  BY <1>11, <1>17, RunEnds DEF Complete, Settling, PlainAck, XAck
<1>18. ASSUME NEW w \in Workers, Retry(w) PROVE Budget'
  <2> DEFINE env == running[w].env  id == running[w].id  next == [env EXCEPT !.attempt = @ + 1]
  <2>1. /\ running[w] # NoRun /\ env.attempt < MaxAttempts[env.job]
        /\ running' = [running EXCEPT ![w] = NoRun] /\ UNCHANGED <<dead, submitted>>
        /\ ScheduleRetryAndAck(id, next)
    BY <1>18 DEF Retry, Settling, ScheduleRetryAndAck
  <2>2. /\ env \in Envelopes /\ env.attempt \in Nat /\ MaxAttempts[env.job] \in Nat
        /\ next \in Envelopes /\ next.job = env.job /\ next.attempt = env.attempt + 1
    BY <2>1, RunFacts, EnvelopeFacts, JobsAssumption
  <2>3. /\ id \in Ids /\ stream[id].job = env.job /\ stream[id].attempt <= env.attempt
    BY <2>1, EntryFacts DEF RunsMatch, Budget, WithinBudget, Ids
  <2> HIDE DEF next, env, id
  <2>4. id \in pel => Follows(next)
    <3> SUFFICES ASSUME id \in pel, NEW i \in Ids, stream[i].job = env.job
                 PROVE  stream[i].attempt < next.attempt
      BY <2>1, <2>2 DEF Follows
    <3>1. id \in Live
      BY DEF Live
    <3>2. stream[i].attempt <= stream[id].attempt
      <4>1. i \in Nat /\ id \in Nat /\ stream[i].attempt \in Nat /\ stream[id].attempt \in Nat
        BY <2>3, EntryFacts, EnvelopeFacts
      <4> QED
        BY <2>3, <3>1, <4>1 DEF Budget, Advance
    <3>3. stream[i].attempt \in Nat /\ stream[id].attempt \in Nat
      BY <2>3, EntryFacts, EnvelopeFacts
    <3> QED
      BY <2>2, <2>3, <3>2, <3>3
  <2>5. \A e \in scheduled' : e \in scheduled \/ Follows(e)
    BY <2>1, <2>4 DEF ScheduleRetryAndAck
  <2> QED
    BY <1>11, <2>1, <2>5, RunEnds DEF ScheduleRetryAndAck, XAck
<1>19. ASSUME NEW w \in Workers, Bury(w) PROVE Budget'
  <2> DEFINE env == running[w].env  id == running[w].id
  <2>1. /\ running[w] # NoRun /\ env.attempt >= MaxAttempts[env.job]
        /\ running' = [running EXCEPT ![w] = NoRun] /\ UNCHANGED submitted
        /\ DeadLetterAndAck(id, env)
    BY <1>19 DEF Bury, Settling
  <2>2. env \in Envelopes /\ env.attempt = MaxAttempts[env.job]
    <3>1. env \in Envelopes /\ env.attempt \in Nat /\ MaxAttempts[env.job] \in Nat
      BY <2>1, RunFacts, EnvelopeFacts, JobsAssumption
    <3>2. env.attempt <= MaxAttempts[env.job]
      BY <2>1 DEF Budget, WithinBudget
    <3> QED
      BY <2>1, <3>1, <3>2
  <2> HIDE DEF env, id
  <2> QED
    BY <1>11, <2>1, <2>2, RunEnds DEF DeadLetterAndAck, XAck
<1>20. ASSUME NEW w \in Workers, Abort(w) PROVE Budget'
  BY <1>1, <1>20, RunEnds DEF Abort, GiveUp, redis, history
<1>21. CASE UNCHANGED vars
  BY <1>1, <1>2, <1>21 DEF vars, redis, worker, history
<1> QED
  BY <1>4, <1>5, <1>6, <1>7, <1>8, <1>9, <1>10, <1>12, <1>14, <1>15, <1>16, <1>17,
     <1>18, <1>19, <1>20, <1>21 DEF Next, Work

\* Custody and the budget, in every reachable state.
LEMMA BudgetInductive == Spec => [](IInv /\ Budget)
<1>1. Init => Budget
  <2> SUFFICES ASSUME Init PROVE Budget
    OBVIOUS
  <2>1. Ids = {} /\ 1 .. Len(dead) = {}
    BY DEF Init, Ids
  <2> QED
    BY <2>1 DEF Init, Budget, Advance, RetriesLead, WithinBudget, BuriedAtBudget
<1> QED
  BY <1>1, BudgetStep, Inductive, PTL DEF Spec

\* Attempts only go up, none exceeds the budget, and a job the worker knows is
\* buried at its end only, whatever crashes, reclaims and late settlements do.
THEOREM BudgetKeptHolds == Spec => []BudgetKept
<1>1. Budget => BudgetKept
  BY DEF Budget, Advance, WithinBudget, BudgetKept, AttemptsAdvance
<1> QED
  BY <1>1, BudgetInductive, PTL

-----------------------------------------------------------------------------
(* The queue implements the ledger.                                        *)

\* The ledger's variables, as JobQueue maps them.
status  == [j \in Jobs |-> StatusOf(j)]
attempt == [j \in Jobs |-> IF StatusOf(j) = "live" THEN CHOOSE a \in Copies(j) : TRUE ELSE 0]

\* CHOOSE takes the one element there is.
LEMMA TheOnly == ASSUME NEW S, NEW x, S = {x} PROVE (CHOOSE a \in S : TRUE) = x
  OBVIOUS

\* What the mapping says of a job, by the place of its one copy.
Mapped ==
  \A j \in Jobs :
    /\ j \in acked  => status[j] = "done" /\ attempt[j] = 0
    /\ j \in Buried => status[j] = "dead" /\ attempt[j] = 0
    /\ \A i \in Live : stream[i].job = j => status[j] = "live" /\ attempt[j] = stream[i].attempt
    /\ \A e \in scheduled : e.job = j => status[j] = "live" /\ attempt[j] = e.attempt
    /\ j \notin submitted => status[j] = "absent" /\ attempt[j] = 0

\* What the ledger sees of a job follows from where its one copy lies.
LEMMA MappedNow == IInv => Mapped
<1> SUFFICES ASSUME Custody, NEW j \in Jobs
             PROVE  /\ j \in acked  => status[j] = "done" /\ attempt[j] = 0
                    /\ j \in Buried => status[j] = "dead" /\ attempt[j] = 0
                    /\ \A i \in Live : stream[i].job = j
                         => status[j] = "live" /\ attempt[j] = stream[i].attempt
                    /\ \A e \in scheduled : e.job = j
                         => status[j] = "live" /\ attempt[j] = e.attempt
                    /\ j \notin submitted => status[j] = "absent" /\ attempt[j] = 0
  BY DEF IInv, Mapped
<1>1. ASSUME j \notin Queued, j \notin JobsOf(scheduled) PROVE Copies(j) = {}
  <2>1. {k \in Live : stream[k].job = j} = {} /\ {f \in scheduled : f.job = j} = {}
    BY <1>1 DEF Queued, JobsOf
  <2> QED
    BY <2>1 DEF Copies
<1>2. CASE j \in acked
  <2>1. j \notin Buried /\ j \notin Queued /\ j \notin JobsOf(scheduled) /\ j \in submitted
    BY <1>2 DEF Custody, Settled
  <2>2. StatusOf(j) = "done"
    BY <1>2, <1>1, <2>1 DEF StatusOf
  <2> QED
    BY <1>2, <2>1, <2>2 DEF status, attempt, Queued, JobsOf
<1>3. CASE j \in Buried
  <2>1. j \notin acked /\ j \notin Queued /\ j \notin JobsOf(scheduled) /\ j \in submitted
    BY <1>3 DEF Custody, Settled
  <2>2. StatusOf(j) = "dead"
    BY <1>3, <1>1, <2>1 DEF StatusOf
  <2> QED
    BY <1>3, <2>1, <2>2 DEF status, attempt, Queued, JobsOf
<1>4. ASSUME j \notin Settled, NEW x, Copies(j) = {x}
      PROVE  status[j] = "live" /\ attempt[j] = x
  <2>1. StatusOf(j) = "live"
    BY <1>4 DEF StatusOf, Settled
  <2> QED
    BY <1>4, <2>1, TheOnly DEF status, attempt
<1>5. ASSUME NEW i \in Live, stream[i].job = j
      PROVE  /\ status[j] = "live" /\ attempt[j] = stream[i].attempt
             /\ j \notin Settled /\ j \in submitted /\ j \notin JobsOf(scheduled)
  <2>1. j \in Queued
    BY <1>5 DEF Queued
  <2>2. j \notin JobsOf(scheduled) /\ j \notin Settled /\ j \in submitted
    BY <2>1 DEF Custody
  <2>3. {k \in Live : stream[k].job = j} = {i} /\ {e \in scheduled : e.job = j} = {}
    BY <1>5, <2>2 DEF Custody, OneLiveEntry, JobsOf
  <2>4. Copies(j) = {stream[i].attempt}
    BY <2>3 DEF Copies
  <2> QED
    BY <1>4, <2>2, <2>4
<1>6. ASSUME NEW e \in scheduled, e.job = j
      PROVE  /\ status[j] = "live" /\ attempt[j] = e.attempt
             /\ j \notin Settled /\ j \in submitted /\ j \notin Queued
  <2>1. j \in JobsOf(scheduled)
    BY <1>6 DEF JobsOf
  <2>2. j \notin Queued /\ j \notin Settled /\ j \in submitted
    BY <2>1 DEF Custody
  <2>3. {k \in Live : stream[k].job = j} = {} /\ {f \in scheduled : f.job = j} = {e}
    BY <1>6, <2>2 DEF Custody, OneScheduled, Queued
  <2>4. Copies(j) = {e.attempt}
    BY <2>3 DEF Copies
  <2> QED
    BY <1>4, <2>2, <2>4
<1>7. CASE j \notin submitted
  <2>1. j \notin Queued /\ j \notin JobsOf(scheduled) /\ j \notin acked /\ j \notin Buried
    BY <1>7 DEF Custody, Settled
  <2>2. {k \in Live : stream[k].job = j} = {} /\ {f \in scheduled : f.job = j} = {}
    BY <2>1 DEF Queued, JobsOf
  <2>3. StatusOf(j) = "absent"
    BY <1>1, <2>1 DEF StatusOf
  <2> QED
    BY <1>7, <2>1, <2>2, <2>3 DEF status, attempt
<1> QED
  BY <1>2, <1>3, <1>5, <1>6, <1>7 DEF Settled

\* So it does after the step.
LEMMA MappedThen == IInv' => Mapped'
  BY MappedNow, PTL

\* A job whose copies and settlement a step leaves alone looks the same after it.
Alone(j) == (j \in acked' <=> j \in acked) /\ (j \in Buried' <=> j \in Buried) /\ Copies(j)' = Copies(j)

\* The ledger sees no change in a job that was left alone.
LEMMA SameJob ==
  ASSUME NEW j \in Jobs, Alone(j)
  PROVE  status'[j] = status[j] /\ attempt'[j] = attempt[j]
<1>1. StatusOf(j)' = StatusOf(j)
  BY DEF StatusOf, Alone
<1> QED
  BY <1>1 DEF status, attempt, Alone

\* A step that leaves every job alone stutters ...
LEMMA Stutters ==
  ASSUME \A j \in Jobs : Alone(j) PROVE status' = status /\ attempt' = attempt
<1>1. \A j \in Jobs : status'[j] = status[j] /\ attempt'[j] = attempt[j]
  BY SameJob
<1>2. /\ status = [j \in Jobs |-> status[j]] /\ status' = [j \in Jobs |-> status'[j]]
      /\ attempt = [j \in Jobs |-> attempt[j]] /\ attempt' = [j \in Jobs |-> attempt'[j]]
  BY DEF status, attempt
<1> QED
  BY <1>1, <1>2

\* ... and one that leaves all but one alone changes the ledger at that job.
LEMMA ChangesOne ==
  ASSUME NEW j \in Jobs, \A k \in Jobs \ {j} : Alone(k)
  PROVE  /\ status' = [status EXCEPT ![j] = status'[j]]
         /\ attempt' = [attempt EXCEPT ![j] = attempt'[j]]
<1>1. \A k \in Jobs \ {j} : status'[k] = status[k] /\ attempt'[k] = attempt[k]
  BY SameJob
<1>2. /\ status = [k \in Jobs |-> status[k]] /\ status' = [k \in Jobs |-> status'[k]]
      /\ attempt = [k \in Jobs |-> attempt[k]] /\ attempt' = [k \in Jobs |-> attempt'[k]]
  BY DEF status, attempt
<1> QED
  BY <1>1, <1>2

\* What a step of the queue is to the ledger.
LedgerMoves == (status' = status /\ attempt' = attempt) \/ Ledger!Next

\* A client's job appears: Submit.
LEMMA Submits ==
  ASSUME IInv, IInv', NEW j \in Jobs, j \notin submitted, \A k \in Jobs \ {j} : Alone(k),
         status'[j] = "live", attempt'[j] = 1
  PROVE  LedgerMoves
<1>1. status[j] = "absent"
  BY MappedNow DEF Mapped
<1>2. Ledger!Submit(j)
  BY <1>1, ChangesOne DEF Ledger!Submit, status, attempt
<1> QED
  BY <1>2 DEF LedgerMoves, Ledger!Next

\* A live entry is settled: Settle.
LEMMA Settles ==
  ASSUME IInv, IInv', NEW i \in Live, stream[i].job \in Jobs, stream[i].job \in Settled',
         \A k \in Jobs \ {stream[i].job} : Alone(k)
  PROVE  LedgerMoves
<1> DEFINE j == stream[i].job
<1>1. status[j] = "live"
  BY MappedNow DEF Mapped
<1>2. status'[j] \in {"done", "dead"} /\ attempt'[j] = 0
  BY MappedThen DEF Mapped, Settled
<1> HIDE DEF j
<1>3. /\ status' = [status EXCEPT ![j] = status'[j]]
      /\ attempt' = [attempt EXCEPT ![j] = 0]
  BY <1>2, ChangesOne DEF j
<1>4. Ledger!Settle(j)
  BY <1>1, <1>2, <1>3 DEF Ledger!Settle, status, attempt
<1> QED
  BY <1>4 DEF LedgerMoves, Ledger!Next, j

\* A live entry makes way for a retry with a higher attempt: RetryJob.
LEMMA Retries ==
  ASSUME IInv, IInv', NEW i \in Live, stream[i].job \in Jobs,
         NEW e \in scheduled', e.job = stream[i].job, \A k \in Jobs \ {e.job} : Alone(k),
         e.attempt \in (stream[i].attempt + 1) .. MaxAttempts[e.job]
  PROVE  LedgerMoves
<1> DEFINE j == e.job
<1>1. status[j] = "live" /\ attempt[j] = stream[i].attempt
  BY MappedNow DEF Mapped
<1>2. status'[j] = "live" /\ attempt'[j] = e.attempt
  BY MappedThen DEF Mapped
<1> HIDE DEF j
<1>3. /\ status' = [status EXCEPT ![j] = "live"]
      /\ attempt' = [attempt EXCEPT ![j] = attempt'[j]]
  BY <1>2, ChangesOne DEF j
<1>4. status' = status
  BY <1>1, <1>3 DEF status
<1>5. attempt'[j] \in (attempt[j] + 1) .. MaxAttempts[j]
  BY <1>1, <1>2 DEF j
<1>6. Ledger!RetryJob(j)
  BY <1>1, <1>3, <1>4, <1>5 DEF Ledger!RetryJob, status, attempt
<1> QED
  BY <1>6 DEF LedgerMoves, Ledger!Next, j

-----------------------------------------------------------------------------
(* Which jobs the commands leave alone.                                    *)

\* Whatever leaves the queue's contents alone is a stuttering step.
LEMMA NoneMoves ==
  ASSUME UNCHANGED <<stream, scheduled, dead, acked>>, Live' = Live
  PROVE  LedgerMoves
<1>1. \A j \in Jobs : Alone(j)
  BY DEF Alone, Copies, Buried
<1> QED
  BY <1>1, Stutters DEF LedgerMoves

\* An entry that is appended is a copy of its job, and of no other.
LEMMA LiveGains ==
  ASSUME TypeOK, NEW env \in Envelopes, stream' = Append(stream, env),
         UNCHANGED <<delivered, pel>>
  PROVE  /\ Live' = Live \cup {Len(stream) + 1} /\ stream'[Len(stream) + 1] = env
         /\ \A i \in Live : stream'[i] = stream[i]
<1> DEFINE new == Len(stream) + 1
<1>1. /\ Len(stream') = new
      /\ \A i \in 1 .. Len(stream) : stream'[i] = stream[i]
      /\ stream'[new] = env
  BY AppendFacts DEF TypeOK
<1>2. /\ Len(stream) \in Nat /\ delivered \in Nat /\ delivered <= Len(stream)
      /\ pel \subseteq 1 .. Len(stream)
  BY EntryFacts DEF TypeOK, Ids
<1>3. (delivered + 1) .. new = ((delivered + 1) .. Len(stream)) \cup {new}
  BY <1>2
<1>4. Live' = pel \cup ((delivered + 1) .. new)
  BY <1>1 DEF Live
<1>5. Live \subseteq 1 .. Len(stream)
  <2>1. (delivered + 1) .. Len(stream) \subseteq 1 .. Len(stream)
    BY <1>2
  <2> QED
    BY <1>2, <2>1 DEF Live
<1> HIDE DEF new
<1>6. Live' = Live \cup {new}
  BY <1>3, <1>4 DEF Live
<1> QED
  BY <1>1, <1>5, <1>6 DEF new

\* An acknowledged entry was its job's only copy in the queue.
LEMMA AckLeaves ==
  ASSUME TypeOK, NEW id \in pel, pel' = pel \ {id}, UNCHANGED <<stream, delivered>>
  PROVE  /\ id \in Live /\ Live' = Live \ {id} /\ stream[id].job \in Jobs
         /\ \A k \in Jobs \ {stream[id].job} :
              {i \in Live' : stream'[i].job = k} = {i \in Live : stream[i].job = k}
<1>1. id \in Live /\ Live' = Live \ {id}
  BY EntryFacts DEF Live, TypeOK
<1>2. stream[id].job \in Jobs
  BY EntryFacts, EnvelopeFacts
<1> QED
  BY <1>1, <1>2

\* An XACK that does not count changes nothing.
LEMMA NoAck ==
  ASSUME NEW id, id \notin pel, XAck(id), UNCHANGED <<stream, delivered>>
  PROVE  Live' = Live
  BY DEF XAck, Live

\* A job is settled by a plain XACK ...
LEMMA PlainAckMoves ==
  ASSUME IInv, IInv', NEW id, PlainAck(id, stream[id].job)
  PROVE  LedgerMoves
<1>1. CASE id \notin pel
  BY <1>1, NoAck, NoneMoves DEF PlainAck
<1>2. CASE id \in pel
  <2>1. /\ pel' = pel \ {id} /\ acked' = acked \cup {stream[id].job}
        /\ UNCHANGED <<stream, delivered, scheduled, dead>>
    BY <1>2 DEF PlainAck, XAck
  <2>2. \A k \in Jobs \ {stream[id].job} : Alone(k)
    BY <1>2, <2>1, AckLeaves DEF IInv, Alone, Copies, Buried
  <2>3. stream[id].job \in Settled'
    BY <2>1 DEF Settled
  <2> QED
    BY <1>2, <2>1, <2>2, <2>3, AckLeaves, Settles DEF IInv
<1> QED
  BY <1>1, <1>2

\* ... or by a dead letter;
LEMMA DeadLetterMoves ==
  ASSUME IInv, IInv', NEW id, NEW env \in Envelopes, env.job = stream[id].job,
         DeadLetterAndAck(id, env)
  PROVE  LedgerMoves
<1>1. CASE id \notin pel
  BY <1>1, NoAck, NoneMoves DEF DeadLetterAndAck
<1>2. CASE id \in pel
  <2>1. /\ pel' = pel \ {id} /\ dead' = Append(dead, env)
        /\ UNCHANGED <<stream, delivered, scheduled, acked>>
    BY <1>2 DEF DeadLetterAndAck, XAck
  <2>2. /\ id \in Live /\ stream[id].job \in Jobs
        /\ \A k \in Jobs \ {env.job} :
             {i \in Live' : stream'[i].job = k} = {i \in Live : stream[i].job = k}
    BY <1>2, <2>1, AckLeaves DEF IInv
  <2>3. env.job \notin Buried
    BY <2>2 DEF IInv, Custody, Queued, Settled
  <2>4. Buried' = Buried \cup {env.job}
    BY <2>1, <2>3, BuriedGains DEF IInv, Custody
  <2>5. \A k \in Jobs \ {env.job} : Alone(k)
    BY <2>1, <2>2, <2>4 DEF Alone, Copies
  <2> QED
    BY <2>2, <2>4, <2>5, Settles DEF Settled
<1> QED
  BY <1>1, <1>2

\* a promotion moves the copy, and keeps its attempt.
LEMMA PromoteMoves ==
  ASSUME IInv, IInv', NEW env \in Envelopes, PromoteScheduled(env),
         UNCHANGED <<delivered, pel, dead, acked>>
  PROVE  LedgerMoves
<1>1. CASE env \notin scheduled
  <2>1. Live' = Live
    BY <1>1 DEF PromoteScheduled, Live
  <2> QED
    BY <1>1, <2>1, NoneMoves DEF PromoteScheduled
<1>2. CASE env \in scheduled
  <2>1. /\ stream' = Append(stream, env) /\ scheduled' = scheduled \ {env}
    BY <1>2 DEF PromoteScheduled
  <2>2. /\ Live' = Live \cup {Len(stream) + 1} /\ stream'[Len(stream) + 1] = env
        /\ \A i \in Live : stream'[i] = stream[i]
    BY <2>1, LiveGains DEF IInv
  <2>3. ASSUME NEW j \in Jobs PROVE Copies(j)' = Copies(j)
    <3> DEFINE new == Len(stream) + 1
               entries == {i \in Live : stream[i].job = j}
               retries == {f \in scheduled : f.job = j}
    <3> HIDE DEF new
    <3>1. CASE env.job = j
      <4>1. entries' = entries \cup {new} /\ retries = retries' \cup {env}
        BY <1>2, <2>1, <2>2, <3>1 DEF new
      <4>2. \A i \in entries : stream'[i] = stream[i]
        BY <2>2
      <4> HIDE DEF entries, retries
      <4>3. {stream'[i].attempt : i \in entries'} = {stream[i].attempt : i \in entries} \cup {env.attempt}
        BY <2>2, <4>1, <4>2 DEF new
      <4>4. {f.attempt : f \in retries} = {f.attempt : f \in retries'} \cup {env.attempt}
        BY <4>1
      <4> QED
        BY <4>3, <4>4 DEF Copies, entries, retries
    <3>2. CASE env.job # j
      <4>1. entries' = entries /\ retries' = retries
        BY <1>2, <2>1, <2>2, <3>2 DEF new
      <4>2. \A i \in entries : stream'[i] = stream[i]
        BY <2>2
      <4> HIDE DEF entries, retries
      <4>3. {stream'[i].attempt : i \in entries'} = {stream[i].attempt : i \in entries}
        BY <4>1, <4>2
      <4> QED
        BY <4>1, <4>3 DEF Copies, entries, retries
    <3> QED
      BY <3>1, <3>2
  <2>4. \A j \in Jobs : Alone(j)
    BY <2>3 DEF Alone, Buried
  <2> QED
    BY <2>4, Stutters DEF LedgerMoves
<1> QED
  BY <1>1, <1>2

\* Every step of the queue is a step of the ledger or a stutter.
LEMMA LedgerStep == IInv /\ IInv' /\ Budget /\ [Next]_vars => LedgerMoves
<1> SUFFICES ASSUME IInv, IInv', Budget, [Next]_vars PROVE LedgerMoves
  OBVIOUS
<1> USE DEF IInv
<1>1. ASSUME UNCHANGED <<stream, delivered, pel, scheduled, dead, acked>> PROVE LedgerMoves
  <2>1. Live' = Live
    BY <1>1 DEF Live
  <2> QED
    BY <1>1, <2>1, NoneMoves
<1>2. ASSUME NEW j \in Jobs, Enqueue(j) PROVE LedgerMoves
  <2> DEFINE env == NewEnvelope(j)  new == Len(stream) + 1
  <2>1. /\ env \in Envelopes /\ env.job = j /\ env.attempt = 1 /\ j \notin submitted
        /\ stream' = Append(stream, env)
        /\ UNCHANGED <<delivered, pel, scheduled, dead, acked>>
    BY <1>2 DEF Enqueue, NewEnvelope, Envelopes
  <2> HIDE DEF env
  <2>2. /\ Live' = Live \cup {new} /\ stream'[new] = env
        /\ \A i \in Live : stream'[i] = stream[i]
    BY <2>1, LiveGains
  <2> HIDE DEF new
  <2>3. ASSUME NEW k \in Jobs \ {j} PROVE Alone(k)
    <3>1. {i \in Live' : stream'[i].job = k} = {i \in Live : stream[i].job = k}
      BY <2>1, <2>2
    <3>2. {stream'[i].attempt : i \in {l \in Live' : stream'[l].job = k}}
            = {stream[i].attempt : i \in {l \in Live : stream[l].job = k}}
      BY <2>2, <3>1
    <3> QED
      BY <2>1, <3>2 DEF Alone, Copies, Buried
  <2>4. status'[j] = "live" /\ attempt'[j] = 1
    <3>1. new \in Live' /\ stream'[new].job = j /\ stream'[new].attempt = 1
      BY <2>1, <2>2
    <3>2. Mapped'
      BY MappedThen
    <3> QED
      BY <3>1, <3>2 DEF Mapped
  <2> QED
    BY <2>1, <2>3, <2>4, Submits
<1>3. ASSUME NEW j \in Jobs, Schedule(j) PROVE LedgerMoves
  <2> DEFINE env == NewEnvelope(j)
  <2>1. /\ env.job = j /\ env.attempt = 1 /\ j \notin submitted
        /\ scheduled' = scheduled \cup {env}
        /\ UNCHANGED <<stream, delivered, pel, dead, acked>>
    BY <1>3 DEF Schedule, NewEnvelope
  <2> HIDE DEF env
  <2>2. Live' = Live
    BY <2>1 DEF Live
  <2>3. \A k \in Jobs \ {j} : Alone(k)
    BY <2>1, <2>2 DEF Alone, Copies, Buried
  <2>4. status'[j] = "live" /\ attempt'[j] = 1
    BY <2>1, MappedThen DEF Mapped
  <2> QED
    BY <2>1, <2>3, <2>4, Submits
<1>4. ASSUME NEW env \in scheduled, BecomeDue(env) PROVE LedgerMoves
  BY <1>1, <1>4 DEF BecomeDue, history
<1>5. ASSUME NEW id \in pel, GoStale(id) PROVE LedgerMoves
  BY <1>1, <1>5 DEF GoStale, history
<1>6. ASSUME NEW w \in Workers,
             ScanDue(w) \/ ClaimStale(w) \/ HandlerReturns(w) \/ Abort(w)
      PROVE  LedgerMoves
  BY <1>1, <1>6 DEF ScanDue, ClaimStale, HandlerReturns, Abort, redis, history
<1>7. ASSUME NEW w \in Workers, Promote(w) PROVE LedgerMoves
  <2>1. PICK env \in promos[w] :
          IF Kind[env.job] = "garbled"
          THEN UNCHANGED redis
          ELSE PromoteScheduled(env) /\ UNCHANGED <<delivered, pel, dead>>
    BY <1>7 DEF Promote
  <2>2. env \in Envelopes /\ UNCHANGED acked
    BY <1>7 DEF TypeOK, Promote, history
  <2> QED
    BY <1>1, <2>1, <2>2, PromoteMoves DEF redis
<1>8. ASSUME NEW w \in Workers, ReadNew(w) PROVE LedgerMoves
  <2> DEFINE last == delivered + SmallerOf(BatchSize, Len(stream) - delivered)
  <2>1. /\ delivered' = last /\ last \in Nat /\ delivered <= last /\ last <= Len(stream)
        /\ pel' = pel \cup ((delivered + 1) .. last)
        /\ UNCHANGED <<stream, scheduled, dead, acked>>
    BY <1>8, EntryFacts, JobsAssumption DEF ReadNew, SmallerOf, history
  <2> HIDE DEF last
  <2>2. Live' = Live
    BY <2>1, EntryFacts DEF Live
  <2> QED
    BY <2>1, <2>2, NoneMoves
<1>9. ASSUME NEW w \in Workers, DropGarbled(w) PROVE LedgerMoves
  BY <1>9, PlainAckMoves DEF DropGarbled
<1>10. ASSUME NEW w \in Workers, NEW id, NEW env \in Envelopes,
              env.job = stream[id].job, Start(w, id, env)
       PROVE  LedgerMoves
  BY <1>1, <1>10, DeadLetterMoves DEF Start, redis
<1>11. ASSUME NEW w \in Workers, TakeDelivered(w) PROVE LedgerMoves
  BY <1>10, <1>11, EntryFacts DEF TakeDelivered
<1>12. ASSUME NEW w \in Workers, TakeReclaimed(w) PROVE LedgerMoves
  <2>1. PICK id \in Ids :
          \/ DeadLetterAndAck(id, stream[id])
          \/ Start(w, id, [stream[id] EXCEPT !.attempt = @ + 1])
    BY <1>12 DEF TakeReclaimed
  <2>2. stream[id] \in Envelopes
    BY EntryFacts
  <2> QED
    BY <1>10, <2>1, <2>2, EnvelopeFacts, DeadLetterMoves
<1>13. ASSUME NEW w \in Workers, Complete(w) PROVE LedgerMoves
  BY <1>13, PlainAckMoves DEF Complete, Settling, RunsMatch
<1>14. ASSUME NEW w \in Workers, Retry(w) PROVE LedgerMoves
  <2> DEFINE env == running[w].env  id == running[w].id  next == [env EXCEPT !.attempt = @ + 1]
  <2>1. /\ running[w] # NoRun /\ env.attempt < MaxAttempts[env.job]
        /\ ScheduleRetryAndAck(id, next)
    BY <1>14 DEF Retry, Settling
  <2>2. /\ env \in Envelopes /\ env.attempt \in Nat /\ MaxAttempts[env.job] \in Nat
        /\ next \in Envelopes /\ next.job = env.job /\ next.attempt = env.attempt + 1
    BY <2>1, RunFacts, EnvelopeFacts, JobsAssumption
  <2>3. /\ id \in Ids /\ stream[id].job = env.job /\ stream[id].attempt <= env.attempt
        /\ stream[id].attempt \in Nat
    <3>1. id \in Ids /\ stream[id].job = env.job
      BY <2>1, EntryFacts DEF RunsMatch, Ids
    <3>2. stream[id].attempt <= env.attempt
      BY <2>1 DEF Budget, WithinBudget
    <3>3. stream[id].attempt \in Nat
      BY <3>1, EntryFacts, EnvelopeFacts
    <3> QED
      BY <3>1, <3>2, <3>3
  <2> HIDE DEF next, env, id
  <2>4. CASE id \notin pel
    BY <2>1, <2>4, NoAck, NoneMoves DEF ScheduleRetryAndAck
  <2>5. CASE id \in pel
    <3>1. /\ pel' = pel \ {id} /\ scheduled' = scheduled \cup {next}
          /\ UNCHANGED <<stream, delivered, dead, acked>>
      BY <2>1, <2>5 DEF ScheduleRetryAndAck, XAck
    <3>2. /\ id \in Live /\ stream[id].job \in Jobs
          /\ \A k \in Jobs \ {next.job} :
               {i \in Live' : stream'[i].job = k} = {i \in Live : stream[i].job = k}
      BY <2>2, <2>3, <2>5, <3>1, AckLeaves
    <3>3. ASSUME NEW k \in Jobs \ {next.job} PROVE Alone(k)
      <4>1. {e \in scheduled' : e.job = k} = {e \in scheduled : e.job = k}
        BY <3>1
      <4> QED
        BY <3>1, <3>2, <4>1 DEF Alone, Copies, Buried
    <3>4. next.attempt \in (stream[id].attempt + 1) .. MaxAttempts[next.job]
      BY <2>1, <2>2, <2>3
    <3> QED
      BY <2>2, <2>3, <3>1, <3>2, <3>3, <3>4, Retries
  <2> QED
    BY <2>4, <2>5
<1>15. ASSUME NEW w \in Workers, Bury(w) PROVE LedgerMoves
  BY <1>15, RunFacts, DeadLetterMoves DEF Bury, Settling, RunsMatch
<1>16. CASE UNCHANGED vars
  BY <1>1, <1>16 DEF vars, redis, history
<1> QED
  BY <1>2, <1>3, <1>4, <1>5, <1>6, <1>7, <1>8, <1>9, <1>11, <1>12, <1>13, <1>14,
     <1>15, <1>16 DEF Next, Work

\* The Redis backend implements the abstract ledger: a job is submitted once, its
\* attempt grows within its budget while it is live, it is settled once, and nothing
\* else that clients, workers, crashes and the clock do is visible.
THEOREM LedgerImplemented == Spec => ImplementsLedger
<1>1. Init => Ledger!Init
  <2> SUFFICES ASSUME Init PROVE Ledger!Init
    OBVIOUS
  <2>1. Live = {} /\ acked = {} /\ Buried = {} /\ scheduled = {}
    BY DEF Init, Live, Buried
  <2>2. \A j \in Jobs : Copies(j) = {}
    BY <2>1 DEF Copies
  <2>3. \A j \in Jobs : StatusOf(j) = "absent"
    BY <2>1, <2>2 DEF StatusOf
  <2> QED
    BY <2>3 DEF Ledger!Init
<1>2. IInv /\ IInv' /\ Budget /\ [Next]_vars => [Ledger!Next]_<<status, attempt>>
  BY LedgerStep DEF LedgerMoves
<1> QED
  BY <1>1, <1>2, BudgetInductive, PTL DEF Spec, ImplementsLedger, Ledger!Spec, status, attempt

-----------------------------------------------------------------------------
(* Late workers.                                                           *)

\* A worker that promotes holds no entries, and one that holds entries has no
\* promotions left.
PassesApart ==
  \A w \in Workers : /\ phase[w] = "promote" => held[w] = {}
                     /\ phase[w] # "promote" => promos[w] = {}

\* The phases of a pass follow each other.
LEMMA PassesApartStep == TypeOK /\ PassesApart /\ [Next]_vars => PassesApart'
<1> SUFFICES ASSUME TypeOK, PassesApart, [Next]_vars PROVE PassesApart'
  OBVIOUS
<1>1. CASE UNCHANGED worker
  BY <1>1 DEF PassesApart, worker
<1>2. ASSUME NEW v \in Workers, GiveUp(v) PROVE PassesApart'
  BY <1>2 DEF PassesApart, TypeOK, GiveUp
<1>3. ASSUME NEW v \in Workers, ScanDue(v) \/ ClaimStale(v) \/ ReadNew(v) PROVE PassesApart'
  BY <1>3 DEF PassesApart, TypeOK, ScanDue, ClaimStale, ReadNew, Idle
<1>4. ASSUME NEW v \in Workers, NEW s, promos' = [promos EXCEPT ![v] = @ \ s],
             UNCHANGED <<phase, held>>
      PROVE  PassesApart'
  BY <1>4 DEF PassesApart, TypeOK
<1>5. ASSUME NEW v \in Workers, NEW id, Release(v, id), UNCHANGED <<phase, promos>>
      PROVE  PassesApart'
  BY <1>5 DEF PassesApart, TypeOK, Release
<1>6. CASE UNCHANGED <<phase, promos, held>>
  BY <1>6 DEF PassesApart
<1> QED
  BY <1>1, <1>2, <1>3, <1>4, <1>5, <1>6
     DEF Next, Work, Enqueue, Schedule, BecomeDue, GoStale, Promote, DropGarbled,
         TakeDelivered, TakeReclaimed, HandlerReturns, Complete, Retry, Bury, Settling,
         Abort, worker, vars

\* An entry its job has left behind is not pending any more: XACK will not count it.
LEMMA OvertakenNotPending ==
  ASSUME IInv, Budget, NEW id \in Ids, EntryOvertaken(id)
  PROVE  id \notin pel
<1> SUFFICES ASSUME id \in pel PROVE FALSE
  OBVIOUS
<1>1. id \in Live /\ stream[id].job \in Queued
  BY DEF Live, Queued
<1>2. stream[id].job \notin Settled \cup JobsOf(scheduled)
  BY <1>1 DEF IInv, Custody
<1>3. PICK later \in Ids : later > id /\ stream[later].job = stream[id].job
  BY <1>2 DEF EntryOvertaken
<1>4. id < later
  BY <1>3, EntryFacts DEF IInv
<1> QED
  BY <1>1, <1>3, <1>4 DEF Budget, Advance

\* An envelope its job has left behind is not scheduled any more: ZREM will not find it.
LEMMA OvertakenNotScheduled ==
  ASSUME IInv, Budget, NEW env \in Envelopes, PromotionOvertaken(env)
  PROVE  env \notin scheduled
<1> SUFFICES ASSUME env \in scheduled PROVE FALSE
  OBVIOUS
<1>1. env.job \in JobsOf(scheduled)
  BY DEF JobsOf
<1>2. env.job \notin Settled
  BY <1>1 DEF IInv, Custody
<1>3. PICK id \in Ids : stream[id].job = env.job /\ stream[id].attempt >= env.attempt
  BY <1>2 DEF PromotionOvertaken
<1>4. stream[id].attempt \in Nat /\ env.attempt \in Nat
  BY EntryFacts, EnvelopeFacts DEF IInv
<1> QED
  BY <1>3, <1>4 DEF Budget, RetriesLead

\* What a step does to the jobs that a worker lets go of too late.
LateStep ==
  \A w \in Workers, j \in Jobs : LateFor(w, j) => Whereabouts(j)' = Whereabouts(j)

\* A step that leaves Redis alone moves no job ...
LEMMA StillStep ==
  ASSUME UNCHANGED <<stream, delivered, pel, scheduled, dead, acked>>
  PROVE  LateStep
<1>1. Live' = Live
  BY DEF Live
<1> QED
  BY <1>1 DEF LateStep, Whereabouts

\* ... nor does a step in which no worker lets go of anything ...
LEMMA NothingLetGo ==
  ASSUME UNCHANGED <<promos, held, running>>
  PROVE  LateStep
  BY DEF LateStep, LateFor, InHand

\* ... and a worker that lets go of one entry touches Redis only if XACK counts it.
LEMMA OneLetGo ==
  ASSUME IInv, Budget, NEW v \in Workers, NEW id \in Ids, UNCHANGED promos,
         \A w \in Workers : InHand(w) \ InHand(w)' \subseteq IF w = v THEN {id} ELSE {},
         id \notin pel => UNCHANGED <<stream, delivered, pel, scheduled, dead, acked>>
  PROVE  LateStep
<1>1. CASE id \notin pel
  BY <1>1, StillStep
<1>2. CASE id \in pel
  <2>1. ~ EntryOvertaken(id)
    BY <1>2, OvertakenNotPending
  <2>2. ASSUME NEW w \in Workers, NEW j \in Jobs PROVE ~ LateFor(w, j)
    BY <2>1 DEF LateFor
  <2> QED
    BY <2>2 DEF LateStep
<1> QED
  BY <1>1, <1>2

\* The settlements change Redis only if XACK counts the entry.
LEMMA SettlesOnlyPending ==
  ASSUME NEW id, NEW env, NEW j, id \notin pel,
         \/ PlainAck(id, j)
         \/ DeadLetterAndAck(id, env)
         \/ ScheduleRetryAndAck(id, env)
  PROVE  UNCHANGED <<stream, delivered, pel, scheduled, dead, acked>>
  BY DEF PlainAck, DeadLetterAndAck, ScheduleRetryAndAck, XAck

\* The entries a batch gives up with a garbled one are of other jobs, or were
\* acknowledged before.
LEMMA GarbledLetsGo ==
  ASSUME IInv, Budget, PassesApart, NEW v \in Workers, DropGarbled(v)
  PROVE  LateStep
<1>1. PICK id \in Ids : Heads(v, id) /\ PlainAck(id, stream[id].job)
  BY DEF DropGarbled
<1>2. CASE id \notin pel
  BY <1>1, <1>2, SettlesOnlyPending, StillStep
<1>3. CASE id \in pel
  <2>1. /\ held[v] # {} /\ promos[v] = {} /\ running[v] = NoRun
        /\ \A other \in held[v] : id <= other
    BY <1>1 DEF Heads, PassesApart
  <2>2. /\ \A w \in Workers \ {v} : /\ held'[w] = held[w] /\ promos'[w] = promos[w]
                                    /\ running'[w] = running[w]
    BY DEF DropGarbled, GiveUp, IInv, TypeOK
  <2>3. InHand(v) \subseteq held[v]
    BY <2>1 DEF InHand, NoRun
  <2>4. id \in Live /\ ~ EntryOvertaken(id)
    BY <1>3, OvertakenNotPending DEF Live
  <2>5. ASSUME NEW other \in held[v], EntryOvertaken(other)
        PROVE  stream[other].job # stream[id].job
    <3> SUFFICES ASSUME stream[other].job = stream[id].job PROVE FALSE
      OBVIOUS
    <3>1. other \in Ids /\ id \in Nat /\ other \in Nat /\ id <= other
      BY <2>1, EntryFacts DEF IInv
    <3>2. other = id \/ other > id
      BY <3>1
    <3> QED
      BY <2>4, <2>5, <3>1, <3>2 DEF EntryOvertaken
  <2>6. /\ pel' = pel \ {id} /\ acked' = acked \cup {stream[id].job}
        /\ UNCHANGED <<stream, delivered, scheduled, dead>>
    BY <1>1, <1>3 DEF PlainAck, XAck
  <2>7. ASSUME NEW j \in Jobs \ {stream[id].job} PROVE Whereabouts(j)' = Whereabouts(j)
    <3>1. {i \in Live' : stream'[i].job = j} = {i \in Live : stream[i].job = j}
      BY <1>3, <2>6, AckLeaves DEF IInv
    <3>2. (j \in acked') = (j \in acked)
      BY <2>6
    <3> QED
      BY <2>6, <3>1, <3>2 DEF Whereabouts
  <2>8. ASSUME NEW w \in Workers, NEW j \in Jobs, LateFor(w, j) PROVE j # stream[id].job
    <3>1. w = v
      BY <2>2, <2>8 DEF LateFor, InHand
    <3> QED
      BY <2>1, <2>3, <2>5, <2>8, <3>1 DEF LateFor
  <2> QED
    BY <2>7, <2>8 DEF LateStep
<1> QED
  BY <1>2, <1>3

\* No step that a worker takes too late moves a job: one case per action.
LEMMA LateStepHolds == IInv /\ Budget /\ PassesApart /\ [Next]_vars => LateStep
<1> SUFFICES ASSUME IInv, TypeOK, Budget, PassesApart, [Next]_vars PROVE LateStep
  BY DEF IInv
<1>1. ASSUME NEW j \in Jobs, Enqueue(j) \/ Schedule(j) PROVE LateStep
  BY <1>1, NothingLetGo DEF Enqueue, Schedule, worker
<1>2. ASSUME NEW env \in scheduled, BecomeDue(env) PROVE LateStep
  BY <1>2, NothingLetGo DEF BecomeDue, worker
<1>3. ASSUME NEW id \in pel, GoStale(id) PROVE LateStep
  BY <1>3, NothingLetGo DEF GoStale, worker
<1>4. ASSUME NEW w \in Workers,
             ScanDue(w) \/ ClaimStale(w) \/ HandlerReturns(w) \/ Abort(w)
      PROVE  LateStep
  BY <1>4, StillStep DEF ScanDue, ClaimStale, HandlerReturns, Abort, redis, history
<1>5. ASSUME NEW w \in Workers, ReadNew(w) PROVE LateStep
  <2> DEFINE last == delivered + SmallerOf(BatchSize, Len(stream) - delivered)
  <2>1. /\ delivered' = last /\ last \in Nat /\ delivered <= last /\ last <= Len(stream)
        /\ pel' = pel \cup ((delivered + 1) .. last)
        /\ UNCHANGED <<stream, scheduled, dead, acked>>
    BY <1>5, EntryFacts, JobsAssumption DEF ReadNew, SmallerOf, history
  <2> HIDE DEF last
  <2>2. Live' = Live
    BY <2>1, EntryFacts DEF Live
  <2> QED
    BY <2>1, <2>2 DEF LateStep, Whereabouts
<1>6. ASSUME NEW w \in Workers, Promote(w) PROVE LateStep
  <2>1. PICK env \in promos[w] :
          IF Kind[env.job] = "garbled"
          THEN UNCHANGED redis
          ELSE /\ PromoteScheduled(env)
               /\ promos' = [promos EXCEPT ![w] = @ \ {env}]
               /\ UNCHANGED <<delivered, pel, stale, dead, phase, held, running>>
    BY <1>6 DEF Promote
  <2>2. env \in Envelopes /\ UNCHANGED acked
    BY <1>6 DEF TypeOK, Promote, history
  <2>3. CASE Kind[env.job] = "garbled"
    BY <2>1, <2>2, <2>3, StillStep DEF redis
  <2>4. CASE Kind[env.job] # "garbled" /\ env \notin scheduled
    BY <2>1, <2>2, <2>4, StillStep DEF PromoteScheduled
  <2>5. CASE Kind[env.job] # "garbled" /\ env \in scheduled
    <3>1. ~ PromotionOvertaken(env)
      BY <2>2, <2>5, OvertakenNotScheduled
    <3>2. ASSUME NEW v \in Workers, NEW j \in Jobs PROVE ~ LateFor(v, j)
      BY <2>1, <2>5, <3>1 DEF LateFor, InHand, TypeOK
    <3> QED
      BY <3>2 DEF LateStep
  <2> QED
    BY <2>3, <2>4, <2>5
<1>7. ASSUME NEW w \in Workers, DropGarbled(w) PROVE LateStep
  BY <1>7, GarbledLetsGo
<1>8. ASSUME NEW w \in Workers, NEW id \in Ids, NEW env, id \in held[w], Release(w, id),
             UNCHANGED <<promos, running>>, DeadLetterAndAck(id, env)
      PROVE  LateStep
  <2>1. \A v \in Workers : InHand(v) \ InHand(v)' \subseteq IF v = w THEN {id} ELSE {}
    BY <1>8 DEF InHand, Release, TypeOK
  <2> QED
    BY <1>8, <2>1, SettlesOnlyPending, OneLetGo
<1>9. ASSUME NEW w \in Workers, NEW id \in Ids, NEW env, id \in held[w], Release(w, id),
             UNCHANGED promos, Start(w, id, env)
      PROVE  LateStep
  BY <1>8, <1>9, StillStep DEF Start, redis
<1>10. ASSUME NEW w \in Workers, TakeDelivered(w) PROVE LateStep
  BY <1>9, <1>10 DEF TakeDelivered, Heads
<1>11. ASSUME NEW w \in Workers, TakeReclaimed(w) PROVE LateStep
  <2>1. PICK id \in Ids :
          /\ id \in held[w] /\ Release(w, id)
          /\ \/ DeadLetterAndAck(id, stream[id]) /\ UNCHANGED running
             \/ Start(w, id, [stream[id] EXCEPT !.attempt = @ + 1])
    BY <1>11 DEF TakeReclaimed, Heads
  <2>2. UNCHANGED promos
    BY <1>11 DEF TakeReclaimed
  <2> QED
    BY <1>8, <1>9, <2>1, <2>2
<1>12. ASSUME NEW w \in Workers, NEW result, Settling(w, result), NEW env, NEW j,
              \/ PlainAck(running[w].id, j)
              \/ DeadLetterAndAck(running[w].id, env)
              \/ ScheduleRetryAndAck(running[w].id, env)
       PROVE  LateStep
  <2>1. running[w].id \in Ids /\ UNCHANGED promos
    BY <1>12, EntryFacts DEF Settling, IInv, RunsMatch, Ids
  <2>2. \A v \in Workers :
          InHand(v) \ InHand(v)' \subseteq IF v = w THEN {running[w].id} ELSE {}
    BY <1>12 DEF InHand, Settling, TypeOK
  <2> QED
    BY <1>12, <2>1, <2>2, SettlesOnlyPending, OneLetGo
<1>13. ASSUME NEW w \in Workers, Complete(w) \/ Retry(w) \/ Bury(w) PROVE LateStep
  <2>1. CASE Complete(w)
    BY <1>12, <2>1 DEF Complete
  <2>2. CASE Retry(w)
    BY <1>12, <2>2 DEF Retry
  <2>3. CASE Bury(w)
    BY <1>12, <2>3 DEF Bury
  <2> QED
    BY <1>13, <2>1, <2>2, <2>3
<1>14. CASE UNCHANGED vars
  BY <1>14, StillStep DEF vars, redis, history
<1> QED
  BY <1>1, <1>2, <1>3, <1>4, <1>5, <1>6, <1>7, <1>10, <1>11, <1>13, <1>14 DEF Next, Work

\* A worker that comes too late moves nothing of the job: whatever became of it since,
\* a second owner's verdict, a retry, a promotion by another, a late settlement or a late
\* promotion adds no record, no retry and no entry.
THEOREM LateChangesNothingHolds == Spec => LateChangesNothing
<1>1. Init => PassesApart
  BY DEF Init, PassesApart
<1>2. TypeOK /\ PassesApart /\ [Next]_vars => PassesApart'
  BY PassesApartStep
<1>3. IInv /\ Budget /\ PassesApart /\ [Next]_vars => [LateStep]_vars
  BY LateStepHolds
<1> QED
  BY <1>1, <1>2, <1>3, TypeCorrect, BudgetInductive, PTL DEF Spec, LateChangesNothing, LateStep

=============================================================================
