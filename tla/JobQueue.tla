------------------------------ MODULE JobQueue ------------------------------
(***************************************************************************)
(* The Redis backend of pocopine-jobs: one queue stream with its consumer  *)
(* group and pending-entries list (PEL), the scheduled set, the dead       *)
(* stream, and a set of workers running run_redis_once in a loop.          *)
(*                                                                         *)
(* Every Redis command and every Lua script is one atomic step; a worker   *)
(* can be preempted, fail or crash between any two of them.  Clock time is *)
(* abstracted to the two facts the code asks of it: whether a scheduled    *)
(* envelope is due, and whether a pending entry has been idle for longer   *)
(* than the visibility timeout.                                            *)
(***************************************************************************)
EXTENDS Naturals, Sequences, FiniteSets

CONSTANTS
  Workers,      \* worker processes consuming the queue
  Jobs,         \* job ids
  MaxAttempts,  \* [Jobs -> Nat \ {0}]: JobEnvelope.max_attempts
  Kind,         \* [Jobs -> Kinds]: what the worker makes of the envelope
  BatchSize,    \* WorkerConfig.batch_size
  MaxPromote,   \* DEFAULT_MAX_PROMOTE
  MaxAborts     \* bound on crashes and Redis errors

\* A registered job has a descriptor in the worker binary, an unknown one has
\* none (a rolling deploy); a garbled one no longer decodes (serde_json writes
\* a payload nested beyond the depth it is willing to read back).
Kinds == {"registered", "unknown", "garbled"}

ASSUME JobsAssumption ==
  /\ MaxAttempts \in [Jobs -> Nat \ {0}]
  /\ Kind \in [Jobs -> Kinds]
  /\ BatchSize \in Nat \ {0}
  /\ MaxPromote \in Nat \ {0}
  /\ MaxAborts \in Nat

VARIABLES
  stream,     \* the queue stream: every entry ever XADDed; ids are positions
  delivered,  \* the group's last-delivered id
  pel,        \* ids delivered and not acknowledged
  stale,      \* pending ids idle for longer than the visibility timeout
  scheduled,  \* the scheduled ZSET
  due,        \* scheduled members whose score the clock has reached
  dead,       \* the dead stream
  phase,      \* what each worker's pass is doing
  promos,     \* ZRANGEBYSCORE reply the worker still has to promote
  held,       \* ids of the reply the worker still has to process
  running,    \* the entry whose envelope the worker is running
  submitted,  \* history: jobs enqueued or scheduled by a client
  acked,      \* history: jobs that left the queue by a plain XACK
  aborts      \* how many passes were cut short so far

redis   == <<stream, delivered, pel, stale, scheduled, due, dead>>
worker  == <<phase, promos, held, running>>
history == <<submitted, acked>>
vars    == <<redis, worker, history, aborts>>

Envelopes == [job : Jobs, attempt : Nat \ {0}]
Ids       == 1 .. Len(stream)
NoRun     == [id |-> 0]
Runs      == [id : Nat \ {0}, env : Envelopes, result : {"pending", "ok", "err"}]

TypeOK ==
  /\ stream \in Seq(Envelopes)
  /\ delivered \in 0 .. Len(stream)
  /\ pel \subseteq 1 .. delivered
  /\ stale \subseteq pel
  /\ scheduled \subseteq Envelopes
  /\ due \subseteq scheduled
  /\ dead \in Seq(Envelopes)
  /\ phase \in [Workers -> {"promote", "reclaim", "read"}]
  /\ promos \in [Workers -> SUBSET Envelopes]
  /\ held \in [Workers -> SUBSET (1 .. delivered)]
  /\ running \in [Workers -> Runs \cup {NoRun}]
  /\ submitted \subseteq Jobs
  /\ acked \subseteq Jobs
  /\ aborts \in 0 .. MaxAborts

Init ==
  /\ stream = <<>> /\ delivered = 0 /\ pel = {} /\ stale = {}
  /\ scheduled = {} /\ due = {} /\ dead = <<>>
  /\ phase = [w \in Workers |-> "read"]
  /\ promos = [w \in Workers |-> {}]
  /\ held = [w \in Workers |-> {}]
  /\ running = [w \in Workers |-> NoRun]
  /\ submitted = {} /\ acked = {}
  /\ aborts = 0

-----------------------------------------------------------------------------
(* The client: enqueue_json and schedule_json_at.                          *)

\* A mutant of NewEnvelope: attempts count from zero.
NewEnvelopeFromZero(j) == [job |-> j, attempt |-> 0]

\* JobEnvelope::new: attempts count from one.
NewEnvelope(j) == [job |-> j, attempt |-> 1]

Enqueue(j) ==
  /\ j \notin submitted
  /\ submitted' = submitted \cup {j}
  /\ stream' = Append(stream, NewEnvelope(j))
  /\ UNCHANGED <<delivered, pel, stale, scheduled, due, dead, worker, acked, aborts>>

Schedule(j) ==
  /\ j \notin submitted
  /\ submitted' = submitted \cup {j}
  /\ scheduled' = scheduled \cup {NewEnvelope(j)}
  /\ UNCHANGED <<stream, delivered, pel, stale, due, dead, worker, acked, aborts>>

-----------------------------------------------------------------------------
(* The clock.                                                              *)

BecomeDue(env) ==
  /\ env \in scheduled \ due
  /\ due' = due \cup {env}
  /\ UNCHANGED <<stream, delivered, pel, stale, scheduled, dead, worker, history, aborts>>

GoStale(id) ==
  /\ id \in pel \ stale
  /\ stale' = stale \cup {id}
  /\ UNCHANGED <<stream, delivered, pel, scheduled, due, dead, worker, history, aborts>>

-----------------------------------------------------------------------------
(* The Redis commands and scripts that settle an entry.  XACK names only   *)
(* the entry, so it succeeds whoever owns it, once.                        *)

XAck(id) == /\ pel' = pel \ {id}
            /\ stale' = stale \ {id}

\* Mutants of ScheduleRetryAndAck: the retry is written whatever XACK says, or
\* is forgotten.
ScheduleRetryAlways(id, env) ==
  /\ XAck(id)
  /\ scheduled' = scheduled \cup {env}
  /\ UNCHANGED <<stream, delivered, due, dead, acked>>

AckWithoutRetry(id, env) ==
  /\ XAck(id)
  /\ UNCHANGED <<stream, delivered, scheduled, due, dead, acked>>

\* SCHEDULE_RETRY_AND_ACK_SCRIPT: nothing is written unless the XACK counted.
\* The new member's score lies retry_delay_ms in the future.
ScheduleRetryAndAck(id, env) ==
  /\ XAck(id)
  /\ scheduled' = IF id \in pel THEN scheduled \cup {env} ELSE scheduled
  /\ UNCHANGED <<stream, delivered, due, dead, acked>>

\* A mutant of DeadLetterAndAck: the record is written whatever XACK says.
DeadLetterAlways(id, env) ==
  /\ XAck(id)
  /\ dead' = Append(dead, env)
  /\ UNCHANGED <<stream, delivered, scheduled, due, acked>>

\* DEAD_LETTER_AND_ACK_SCRIPT
DeadLetterAndAck(id, env) ==
  /\ XAck(id)
  /\ dead' = IF id \in pel THEN Append(dead, env) ELSE dead
  /\ UNCHANGED <<stream, delivered, scheduled, due, acked>>

\* ack
PlainAck(id, j) ==
  /\ XAck(id)
  /\ acked' = IF id \in pel THEN acked \cup {j} ELSE acked
  /\ UNCHANGED <<stream, delivered, scheduled, due, dead>>

\* A mutant of PromoteScheduled: XADD without looking at what ZREM removed.
PromoteUnclaimed(env) ==
  /\ scheduled' = scheduled \ {env}
  /\ due' = due \ {env}
  /\ stream' = Append(stream, env)

\* PROMOTE_SCHEDULED_SCRIPT: ZREM is the claim.
PromoteScheduled(env) ==
  /\ scheduled' = scheduled \ {env}
  /\ due' = due \ {env}
  /\ stream' = IF env \in scheduled THEN Append(stream, env) ELSE stream

-----------------------------------------------------------------------------
(* One pass of a worker: promote_due_jobs, reclaim_stale_jobs and          *)
(* read_ready_jobs, one after the other.  A pass is over when it is        *)
(* reading and holds nothing more.                                         *)

Idle(w)      == held[w] = {} /\ running[w] = NoRun
SmallerOf(a, b) == IF a <= b THEN a ELSE b

\* The `?` of a Redis or decode error: the pass returns, its local batch is
\* gone, and run() starts over after a back-off.
GiveUp(w) ==
  /\ phase' = [phase EXCEPT ![w] = "read"]
  /\ promos' = [promos EXCEPT ![w] = {}]
  /\ held' = [held EXCEPT ![w] = {}]
  /\ running' = [running EXCEPT ![w] = NoRun]

\* ZRANGEBYSCORE -inf now LIMIT 0 100
ScanDue(w) ==
  /\ phase[w] = "read" /\ Idle(w)
  /\ \E reply \in SUBSET due :
       /\ Cardinality(reply) = SmallerOf(Cardinality(due), MaxPromote)
       /\ promos' = [promos EXCEPT ![w] = reply]
  /\ phase' = [phase EXCEPT ![w] = "promote"]
  /\ UNCHANGED <<redis, held, running, history, aborts>>

Promote(w) ==
  /\ phase[w] = "promote"
  /\ \E env \in promos[w] :
       IF Kind[env.job] = "garbled"
       THEN GiveUp(w) /\ UNCHANGED redis
       ELSE /\ PromoteScheduled(env)
            /\ promos' = [promos EXCEPT ![w] = @ \ {env}]
            /\ UNCHANGED <<delivered, pel, stale, dead, phase, held, running>>
  /\ UNCHANGED <<history, aborts>>

\* XAUTOCLAIM from 0-0: the oldest stale entries, whose idle time restarts.
ClaimStale(w) ==
  /\ phase[w] = "promote" /\ promos[w] = {}
  /\ \E claimed \in SUBSET stale :
       /\ Cardinality(claimed) = SmallerOf(Cardinality(stale), BatchSize)
       /\ \A id \in claimed, other \in stale \ claimed : id < other
       /\ held' = [held EXCEPT ![w] = claimed]
       /\ stale' = stale \ claimed
  /\ phase' = [phase EXCEPT ![w] = "reclaim"]
  /\ UNCHANGED <<stream, delivered, pel, scheduled, due, dead, promos, running, history, aborts>>

\* XREADGROUP >: the next undelivered entries.
ReadNew(w) ==
  /\ phase[w] = "reclaim" /\ Idle(w)
  /\ LET last == delivered + SmallerOf(BatchSize, Len(stream) - delivered)
         new  == (delivered + 1) .. last
     IN /\ delivered' = last
        /\ pel' = pel \cup new
        /\ held' = [held EXCEPT ![w] = new]
  /\ phase' = [phase EXCEPT ![w] = "read"]
  /\ UNCHANGED <<stream, stale, scheduled, due, dead, promos, running, history, aborts>>

\* The entry of the reply the worker turns to next.
Heads(w, id) ==
  /\ running[w] = NoRun
  /\ id \in held[w]
  /\ \A other \in held[w] : id <= other

Release(w, id) == held' = [held EXCEPT ![w] = @ \ {id}]

\* run_envelope up to the handler's start.
Start(w, id, env) ==
  IF Kind[env.job] = "unknown"
  THEN /\ DeadLetterAndAck(id, env)
       /\ UNCHANGED running
  ELSE /\ running' = [running EXCEPT ![w] = [id |-> id, env |-> env, result |-> "pending"]]
       /\ UNCHANGED <<redis, acked>>

\* Decode failure: acknowledge the entry and fail the pass.
DropGarbled(w) ==
  /\ \E id \in Ids :
       /\ Heads(w, id)
       /\ Kind[stream[id].job] = "garbled"
       /\ PlainAck(id, stream[id].job)
  /\ GiveUp(w)
  /\ UNCHANGED <<submitted, aborts>>

\* The loop body of read_ready_jobs.
TakeDelivered(w) ==
  /\ phase[w] = "read"
  /\ \E id \in Ids :
       /\ Heads(w, id)
       /\ Kind[stream[id].job] # "garbled"
       /\ Release(w, id)
       /\ Start(w, id, stream[id])
  /\ UNCHANGED <<phase, promos, submitted, aborts>>

\* The loop body of reclaim_stale_jobs.  The bumped attempt lives in the
\* worker only; the stream entry keeps the one it was added with.
TakeReclaimed(w) ==
  /\ phase[w] = "reclaim"
  /\ \E id \in Ids :
       LET env == stream[id]
       IN /\ Heads(w, id)
          /\ Kind[env.job] # "garbled"
          /\ Release(w, id)
          /\ IF env.attempt >= MaxAttempts[env.job]
             THEN DeadLetterAndAck(id, env) /\ UNCHANGED running
             ELSE Start(w, id, [env EXCEPT !.attempt = @ + 1])
  /\ UNCHANGED <<phase, promos, submitted, aborts>>

\* run_handler_safely: a panic is an error too.
HandlerReturns(w) ==
  /\ running[w] # NoRun
  /\ running[w].result = "pending"
  /\ \E result \in {"ok", "err"} :
       running' = [running EXCEPT ![w].result = result]
  /\ UNCHANGED <<redis, phase, promos, held, history, aborts>>

Settling(w, result) ==
  /\ running[w] # NoRun
  /\ running[w].result = result
  /\ running' = [running EXCEPT ![w] = NoRun]
  /\ UNCHANGED <<phase, promos, held, submitted, aborts>>

Complete(w) ==
  /\ Settling(w, "ok")
  /\ PlainAck(running[w].id, running[w].env.job)

Retry(w) ==
  /\ Settling(w, "err")
  /\ LET env == running[w].env
     IN /\ env.attempt < MaxAttempts[env.job]
        /\ ScheduleRetryAndAck(running[w].id, [env EXCEPT !.attempt = @ + 1])

\* A mutant of Bury: an attempt too early.
BuryEarly(w) ==
  /\ Settling(w, "err")
  /\ LET env == running[w].env
     IN /\ env.attempt + 1 >= MaxAttempts[env.job]
        /\ DeadLetterAndAck(running[w].id, env)

Bury(w) ==
  /\ Settling(w, "err")
  /\ LET env == running[w].env
     IN /\ env.attempt >= MaxAttempts[env.job]
        /\ DeadLetterAndAck(running[w].id, env)

\* The worker process dies, or a Redis call fails: either way Redis keeps what
\* it has and the worker forgets what it held.
Abort(w) ==
  /\ aborts < MaxAborts
  /\ ~ (phase[w] = "read" /\ Idle(w))
  /\ aborts' = aborts + 1
  /\ GiveUp(w)
  /\ UNCHANGED <<redis, history>>

Work(w) ==
  \/ ScanDue(w)
  \/ Promote(w)
  \/ ClaimStale(w)
  \/ ReadNew(w)
  \/ DropGarbled(w)
  \/ TakeDelivered(w)
  \/ TakeReclaimed(w)
  \/ HandlerReturns(w)
  \/ Complete(w)
  \/ Retry(w)
  \/ Bury(w)

Next ==
  \/ \E j \in Jobs : Enqueue(j) \/ Schedule(j)
  \/ \E env \in scheduled : BecomeDue(env)
  \/ \E id \in pel : GoStale(id)
  \/ \E w \in Workers : Work(w) \/ Abort(w)

Spec == Init /\ [][Next]_vars

\* The clock runs, and a worker that is up keeps stepping: run() never returns,
\* a handler ends (run_handler_safely waits for it without a time limit), and a
\* crashed worker process is restarted.
Fairness ==
  /\ WF_vars(\E env \in scheduled : BecomeDue(env))
  /\ WF_vars(\E id \in pel : GoStale(id))
  /\ \A w \in Workers : WF_vars(Work(w))

FairSpec == Spec /\ Fairness

-----------------------------------------------------------------------------
(* What the queue promises.                                                *)

\* The entries that will still be delivered or are pending.
Live == pel \cup ((delivered + 1) .. Len(stream))

JobsOf(entries) == {e.job : e \in entries}
Queued == {stream[id].job : id \in Live}
Buried == {dead[i].job : i \in 1 .. Len(dead)}
Settled == acked \cup Buried

\* A job never has two copies that could each still run or be buried: not two
\* live entries, not an entry beside a scheduled retry, not a copy of a job
\* already settled, and never two records in the dead stream.  This is what the
\* ZREM and XACK checks of the Lua scripts are for when a reclaimed entry is
\* settled by both its old and its new owner.
OneLiveEntry == \A i, k \in Live : stream[i].job = stream[k].job => i = k
OneScheduled == \A e, f \in scheduled : e.job = f.job => e = f
OneGrave     == \A i, k \in 1 .. Len(dead) : dead[i].job = dead[k].job => i = k
OneCopy ==
  /\ OneLiveEntry /\ OneScheduled /\ OneGrave
  /\ Queued \cap JobsOf(scheduled) = {}
  /\ Settled \cap (Queued \cup JobsOf(scheduled)) = {}
  /\ acked \cap Buried = {}

\* Whatever crashes or fails, a submitted job is still somewhere in Redis until
\* it has run to the end or lies in the dead stream.
NothingLost == submitted = Queued \cup JobsOf(scheduled) \cup Settled

\* The budget is kept: the attempts of a job grow up to it, and one that is known
\* is buried only at its end (the `attempt >= max_attempts` of both settlements).
\* Every entry XADDed for a job carries a higher attempt than the ones before,
\* and none exceeds the budget: neither promotion races nor late settlements
\* turn an attempt back.
AttemptsAdvance ==
  /\ \A i, k \in Ids : i < k /\ stream[i].job = stream[k].job
                       => stream[i].attempt < stream[k].attempt
  /\ \A i \in Ids : stream[i].attempt <= MaxAttempts[stream[i].job]

BuriedAtBudget ==
  \A i \in 1 .. Len(dead) :
    Kind[dead[i].job] = "registered" => dead[i].attempt = MaxAttempts[dead[i].job]
BudgetKept == AttemptsAdvance /\ BuriedAtBudget

\* A worker goes on with what Redis told it some time ago.  Meanwhile its entry
\* may have been reclaimed, and the job be settled, wait for a retry or have a later
\* entry; and the envelope it means to promote may have been promoted, and more.
\* What such a worker still does with it, whichever branch it takes, moves nothing
\* of the job: no second verdict, no second retry, no entry beside the job's own.
InHand(w) == held[w] \cup ({running[w].id} \ {0})

EntryOvertaken(id) ==
  \/ stream[id].job \in Settled \cup JobsOf(scheduled)
  \/ \E later \in Ids : later > id /\ stream[later].job = stream[id].job

PromotionOvertaken(env) ==
  \/ env.job \in Settled
  \/ \E id \in Ids : stream[id].job = env.job /\ stream[id].attempt >= env.attempt

Whereabouts(j) == [entries |-> {id \in Live : stream[id].job = j},
                   retries |-> {e \in scheduled : e.job = j},
                   done    |-> j \in acked,
                   graves  |-> {i \in 1 .. Len(dead) : dead[i].job = j}]

\* The worker lets go of something of the job that the job has left behind.
LateFor(w, j) ==
  \/ \E id \in InHand(w) \ InHand(w)' : stream[id].job = j /\ EntryOvertaken(id)
  \/ \E env \in promos[w] \ promos[w]' : env.job = j /\ PromotionOvertaken(env)

LateChangesNothing ==
  [][\A w \in Workers, j \in Jobs : LateFor(w, j) => Whereabouts(j)' = Whereabouts(j)]_vars

\* The time comes when every submitted job is settled, however many passes fail:
\* unless a scheduled member does not decode, which fails the promotion of every
\* pass.
Blocked == \E env \in scheduled : Kind[env.job] = "garbled"
EventuallySettled == <>[](Blocked \/ submitted = Settled)

\* The queue implements the abstract ledger: wherever a job's one copy lies, it
\* is live with that copy's attempt; promotion, delivery, reclaim, crashes and
\* settlements that come too late are stuttering steps.
Copies(j) == {stream[id].attempt : id \in {i \in Live : stream[i].job = j}}
             \cup {e.attempt : e \in {f \in scheduled : f.job = j}}

StatusOf(j) ==
  CASE j \in acked  -> "done"
    [] j \in Buried -> "dead"
    [] Copies(j) # {} -> "live"
    [] OTHER -> "absent"

Ledger == INSTANCE JobLedger WITH
  Volatile <- FALSE,
  status  <- [j \in Jobs |-> StatusOf(j)],
  attempt <- [j \in Jobs |-> IF StatusOf(j) = "live" THEN CHOOSE a \in Copies(j) : TRUE
                                                    ELSE 0]

ImplementsLedger == Ledger!Spec

=============================================================================
