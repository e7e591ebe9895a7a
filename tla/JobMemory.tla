------------------------------ MODULE JobMemory -----------------------------
(***************************************************************************)
(* The process-local memory backend of pocopine-jobs: one MemoryStore      *)
(* behind a mutex and the workers of the process.  Each call that takes    *)
(* the mutex is one step.  A popped batch is in nobody's custody but its   *)
(* worker's: there is no pending list, and a host that drops the run_once  *)
(* future it owns drops the batch with it.                                 *)
(***************************************************************************)
EXTENDS Naturals, Sequences, FiniteSets, SequencesExt

CONSTANTS
  Workers, Jobs,
  MaxAttempts,  \* [Jobs -> Nat \ {0}]
  QueueOf,      \* [Jobs -> queue names]
  Serves,       \* [Workers -> sets of queue names]: WorkerConfig.queues
  Known,        \* the jobs with a descriptor
  BatchSize,    \* WorkerConfig.batch_size
  MaxPromote,   \* DEFAULT_MAX_PROMOTE
  DeadCap,      \* DEFAULT_MEMORY_DEAD_LETTER_CAP
  MaxCancels    \* bound on dropped run_once futures

ASSUME MemoryAssumption ==
  /\ MaxAttempts \in [Jobs -> Nat \ {0}]
  /\ Known \subseteq Jobs
  /\ {BatchSize, MaxPromote, DeadCap} \subseteq Nat \ {0}
  /\ MaxCancels \in Nat

VARIABLES
  ready, scheduled, dead,  \* MemoryState
  due,                     \* scheduled envelopes whose time has come
  step,                    \* [Workers -> where the pass is]
  batch,                   \* [Workers -> envelopes popped and not run yet]
  running,                 \* [Workers -> the result of the envelope at the batch's head]
  submitted, done,         \* history: jobs submitted and jobs that ran to the end
  graves,                  \* history: every envelope buried, in order
  drained,                 \* history: how many records drain_dead_letter returned
  dropped,                 \* history: jobs in a batch whose future was dropped
  cancels

store == <<ready, scheduled, dead>>
work  == <<step, batch, running>>
hist  == <<submitted, done, graves, drained, dropped>>
vars  == <<store, due, work, hist, cancels>>

Envelopes == [job : Jobs, attempt : Nat \ {0}]

TypeOK ==
  /\ {ready, scheduled, dead, graves} \subseteq Seq(Envelopes)
  /\ due \subseteq Envelopes
  /\ step \in [Workers -> {"idle", "promoted", "running"}]
  /\ batch \in [Workers -> Seq(Envelopes)]
  /\ running \in [Workers -> {"no", "pending", "ok", "err"}]
  /\ submitted \subseteq Jobs /\ done \subseteq Jobs /\ dropped \subseteq Jobs
  /\ drained \in Nat
  /\ cancels \in 0 .. MaxCancels

Init ==
  /\ ready = <<>> /\ scheduled = <<>> /\ dead = <<>> /\ due = {}
  /\ step = [w \in Workers |-> "idle"]
  /\ batch = [w \in Workers |-> <<>>]
  /\ running = [w \in Workers |-> "no"]
  /\ submitted = {} /\ done = {} /\ graves = <<>> /\ drained = 0 /\ dropped = {}
  /\ cancels = 0

-----------------------------------------------------------------------------
\* The k-th of a set of positions, and the entries of s at such positions, in order.
Nth(I, k) == CHOOSE i \in I : Cardinality({j \in I : j <= i}) = k
At(s, I) == [k \in 1..Cardinality(I) |-> s[Nth(I, k)]]

\* The first n positions of s whose entry is in S.
FirstIn(s, S, n) ==
  LET hits == {i \in DOMAIN s : s[i] \in S}
  IN {i \in hits : Cardinality({k \in hits : k < i}) < n}

\* A mutant of NewEnvelope: attempts count from zero.
NewEnvelopeFromZero(j) == [job |-> j, attempt |-> 0]

NewEnvelope(j) == [job |-> j, attempt |-> 1]

\* memory_enqueue_envelope
Enqueue(j) ==
  /\ j \notin submitted
  /\ submitted' = submitted \cup {j}
  /\ ready' = Append(ready, NewEnvelope(j))
  /\ UNCHANGED <<scheduled, dead, due, work, done, graves, drained, dropped, cancels>>

\* memory_schedule_envelope
Schedule(j) ==
  /\ j \notin submitted
  /\ submitted' = submitted \cup {j}
  /\ scheduled' = Append(scheduled, NewEnvelope(j))
  /\ UNCHANGED <<ready, dead, due, work, done, graves, drained, dropped, cancels>>

BecomeDue ==
  /\ \E env \in ToSet(scheduled) \ due : due' = due \cup {env}
  /\ UNCHANGED <<store, work, hist, cancels>>

\* A mutant of Promote: what is due beyond the cap is drained and not put back.
PromoteDropsRest(w) ==
  /\ step[w] = "idle"
  /\ LET moved == FirstIn(scheduled, due, MaxPromote)
     IN /\ ready' = ready \o At(scheduled, moved)
        /\ scheduled' = SelectSeq(scheduled, LAMBDA env : env \notin due)
        /\ due' = due \ {scheduled[i] : i \in moved}
  /\ step' = [step EXCEPT ![w] = "promoted"]
  /\ UNCHANGED <<dead, batch, running, hist, cancels>>

\* memory_promote_due_envelopes
Promote(w) ==
  /\ step[w] = "idle"
  /\ LET moved == FirstIn(scheduled, due, MaxPromote)
     IN /\ ready' = ready \o At(scheduled, moved)
        /\ scheduled' = At(scheduled, DOMAIN scheduled \ moved)
        /\ due' = due \ {scheduled[i] : i \in moved}
  /\ step' = [step EXCEPT ![w] = "promoted"]
  /\ UNCHANGED <<dead, batch, running, hist, cancels>>

\* Mutants of Pop: the popped envelopes stay in the queue, or the newest are
\* taken first.
PopAndKeep(w) ==
  /\ step[w] = "promoted"
  /\ LET allowed == {env \in ToSet(ready) : QueueOf[env.job] \in Serves[w]}
         taken   == FirstIn(ready, allowed, BatchSize)
     IN /\ batch' = [batch EXCEPT ![w] = At(ready, taken)]
        /\ step' = [step EXCEPT ![w] = IF taken = {} THEN "idle" ELSE "running"]
  /\ UNCHANGED <<store, due, running, hist, cancels>>

PopNewest(w) ==
  /\ step[w] = "promoted"
  /\ LET allowed == {env \in ToSet(ready) : QueueOf[env.job] \in Serves[w]}
         taken   == {Len(ready) + 1 - i : i \in FirstIn(Reverse(ready), allowed, BatchSize)}
     IN /\ batch' = [batch EXCEPT ![w] = At(ready, taken)]
        /\ ready' = At(ready, DOMAIN ready \ taken)
        /\ step' = [step EXCEPT ![w] = IF taken = {} THEN "idle" ELSE "running"]
  /\ UNCHANGED <<scheduled, dead, due, running, hist, cancels>>

\* memory_pop_ready_envelopes
Pop(w) ==
  /\ step[w] = "promoted"
  /\ LET allowed == {env \in ToSet(ready) : QueueOf[env.job] \in Serves[w]}
         taken   == FirstIn(ready, allowed, BatchSize)
     IN /\ batch' = [batch EXCEPT ![w] = At(ready, taken)]
        /\ ready' = At(ready, DOMAIN ready \ taken)
        /\ step' = [step EXCEPT ![w] = IF taken = {} THEN "idle" ELSE "running"]
  /\ UNCHANGED <<scheduled, dead, due, running, hist, cancels>>

\* memory_move_to_dead
MoveToDead(env) ==
  LET grown == Append(dead, env)
  IN /\ dead' = IF Len(grown) > DeadCap THEN Tail(grown) ELSE grown
     /\ graves' = Append(graves, env)

\* The loop over the batch goes on, or the pass ends.
Advance(w) ==
  /\ batch' = [batch EXCEPT ![w] = Tail(@)]
  /\ running' = [running EXCEPT ![w] = "no"]
  /\ step' = [step EXCEPT ![w] = IF Len(batch[w]) = 1 THEN "idle" ELSE "running"]

Turn(w, result) == step[w] = "running" /\ running[w] = result

\* run_envelope_memory
BuryUnknown(w) ==
  /\ Turn(w, "no")
  /\ Head(batch[w]).job \notin Known
  /\ MoveToDead(Head(batch[w]))
  /\ Advance(w)
  /\ UNCHANGED <<ready, scheduled, due, submitted, done, drained, dropped, cancels>>

Start(w) ==
  /\ Turn(w, "no")
  /\ Head(batch[w]).job \in Known
  /\ running' = [running EXCEPT ![w] = "pending"]
  /\ UNCHANGED <<store, due, step, batch, hist, cancels>>

HandlerReturns(w) ==
  /\ Turn(w, "pending")
  /\ \E result \in {"ok", "err"} : running' = [running EXCEPT ![w] = result]
  /\ UNCHANGED <<store, due, step, batch, hist, cancels>>

Complete(w) ==
  /\ Turn(w, "ok")
  /\ done' = done \cup {Head(batch[w]).job}
  /\ Advance(w)
  /\ UNCHANGED <<store, due, submitted, graves, drained, dropped, cancels>>

\* A mutant of Retry: one attempt beyond the budget.
RetryOnceMore(w) ==
  /\ Turn(w, "err")
  /\ LET env == Head(batch[w])
     IN /\ env.attempt <= MaxAttempts[env.job]
        /\ scheduled' = Append(scheduled, [env EXCEPT !.attempt = @ + 1])
  /\ Advance(w)
  /\ UNCHANGED <<ready, dead, due, hist, cancels>>

Retry(w) ==
  /\ Turn(w, "err")
  /\ LET env == Head(batch[w])
     IN /\ env.attempt < MaxAttempts[env.job]
        /\ scheduled' = Append(scheduled, [env EXCEPT !.attempt = @ + 1])
  /\ Advance(w)
  /\ UNCHANGED <<ready, dead, due, hist, cancels>>

Bury(w) ==
  /\ Turn(w, "err")
  /\ LET env == Head(batch[w])
     IN /\ env.attempt >= MaxAttempts[env.job]
        /\ MoveToDead(env)
  /\ Advance(w)
  /\ UNCHANGED <<ready, scheduled, due, submitted, done, drained, dropped, cancels>>

\* The host drops the future of run_once, which only ever waits for a handler;
\* the handler's own task runs on, but nobody waits for it any more.
Cancel(w) ==
  /\ cancels < MaxCancels
  /\ Turn(w, "pending")
  /\ cancels' = cancels + 1
  /\ dropped' = dropped \cup {env.job : env \in ToSet(batch[w])}
  /\ batch' = [batch EXCEPT ![w] = <<>>]
  /\ running' = [running EXCEPT ![w] = "no"]
  /\ step' = [step EXCEPT ![w] = "idle"]
  /\ UNCHANGED <<store, due, submitted, done, graves, drained>>

\* drain_dead_letter
Drain ==
  /\ dead # <<>>
  /\ drained' = drained + Len(dead)
  /\ dead' = <<>>
  /\ UNCHANGED <<ready, scheduled, due, work, submitted, done, graves, dropped, cancels>>

Work(w) ==
  \/ Promote(w) \/ Pop(w)
  \/ BuryUnknown(w) \/ Start(w) \/ HandlerReturns(w)
  \/ Complete(w) \/ Retry(w) \/ Bury(w)

Next ==
  \/ \E j \in Jobs : Enqueue(j) \/ Schedule(j)
  \/ BecomeDue
  \/ Drain
  \/ \E w \in Workers : Work(w) \/ Cancel(w)

Spec == Init /\ [][Next]_vars

\* The clock runs and every worker of the process keeps being polled.
FairSpec == Spec /\ WF_vars(BecomeDue) /\ \A w \in Workers : WF_vars(Work(w))

-----------------------------------------------------------------------------
JobsOf(s) == {env.job : env \in ToSet(s)}
Batched == UNION {JobsOf(batch[w]) : w \in Workers}

Distinct(s) == Cardinality(JobsOf(s)) = Len(s)

\* A job has one copy: in the ready queue, in the scheduled list, in the batch
\* of one worker, or among the buried; and it never lies there twice.
OneCopy ==
  /\ Distinct(ready) /\ Distinct(scheduled) /\ Distinct(graves)
  /\ \A w \in Workers : Distinct(batch[w])
  /\ \A w, v \in Workers : w # v => JobsOf(batch[w]) \cap JobsOf(batch[v]) = {}
  /\ Batched \cap (JobsOf(ready) \cup JobsOf(scheduled)) = {}
  /\ JobsOf(ready) \cap JobsOf(scheduled) = {}
  /\ (done \cup JobsOf(graves))
       \cap (JobsOf(ready) \cup JobsOf(scheduled) \cup Batched) = {}
  /\ done \cap JobsOf(graves) = {}

\* Only a dropped future loses jobs, and only those of its own batch.
NothingLost ==
  /\ submitted = JobsOf(ready) \cup JobsOf(scheduled) \cup Batched
                   \cup done \cup JobsOf(graves) \cup dropped
  /\ Cardinality(dropped) <= cancels * BatchSize

\* The dead-letter buffer stays within its cap and holds the newest graves: a
\* record leaves it drained, or pushed out by newer ones when it is full.
KeepsNewest ==
  /\ Len(dead) <= DeadCap
  /\ dead = SubSeq(graves, Len(graves) - Len(dead) + 1, Len(graves))
  /\ drained + Len(dead) <= Len(graves)

\* The queues are sound: one copy of a job, none lost, and the buffer of the dead
\* holds the newest.
QueuesSound == OneCopy /\ NothingLost /\ KeepsNewest

\* The jobs of one queue leave the ready queue in the order they came in, also
\* past the jobs of queues the worker does not serve.
QueueOrder ==
  [][\A i, k \in DOMAIN ready :
       i < k /\ QueueOf[ready[i].job] = QueueOf[ready[k].job]
         => (ready[i] \in ToSet(ready') => ready[k] \in ToSet(ready'))]_vars

\* The memory backend keeps the same ledger as Redis, but for the jobs of a
\* dropped batch, which end lost: they leave no other trace.
LiveAttempt(j) ==
  {env.attempt : env \in {e \in UNION ({ToSet(ready), ToSet(scheduled)}
                                         \cup {ToSet(batch[w]) : w \in Workers}) : e.job = j}}

StatusOf(j) ==
  CASE j \in done           -> "done"
    [] j \in JobsOf(graves) -> "dead"
    [] LiveAttempt(j) # {}  -> "live"
    [] j \in dropped        -> "lost"
    [] OTHER                -> "absent"

Ledger == INSTANCE JobLedger WITH
  Volatile <- TRUE,
  status  <- [j \in Jobs |-> StatusOf(j)],
  attempt <- [j \in Jobs |-> IF StatusOf(j) = "live" THEN CHOOSE a \in LiveAttempt(j) : TRUE
                                                    ELSE 0]

ImplementsLedger == Ledger!Spec

\* Every submitted job is settled in the end, unless its batch was dropped.
EventuallySettled ==
  \A j \in Jobs : j \in submitted ~> j \in done \cup JobsOf(graves) \cup dropped
=============================================================================
