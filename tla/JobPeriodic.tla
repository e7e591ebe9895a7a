----------------------------- MODULE JobPeriodic ----------------------------
(***************************************************************************)
(* The recurring schedule of one job descriptor on the Redis backend of    *)
(* pocopine-jobs: workers read the clock and the last-fired key, compute   *)
(* the due slots, and for each slot take a lock, add the job to the queue  *)
(* and set the last-fired key, four commands that other workers and        *)
(* crashes come between.  Times are multiples of one tick.                 *)
(*                                                                         *)
(* What every module has (the initial states, Next, ...) is called         *)
(* PeriodicInit and so on, as the proofs extend JobMemory with this one.   *)
(***************************************************************************)
EXTENDS Integers, Sequences, FiniteSets, FiniteSetsExt

CONSTANTS
  Schedulers,   \* the workers, each of which runs the pass
  Schedules,    \* the descriptors' schedules and last-fired keys at the start
  PollWindow,   \* scheduler_interval, the look-back of a cron job never fired
  MaxCatchUp,   \* WorkerConfig.max_periodic_catch_up
  Horizon,      \* bound on the clock
  PassBound,    \* bound on the ticks one run of enqueue_due_periodic_jobs takes
  MaxAborts     \* bound on crashes and Redis errors

Times == 0 .. Horizon
Never == -1

\* A schedule: PeriodicSchedule::Every(every), or the instants of a cron
\* expression; ttl is periodic_lock_ttl_ms, since the last-fired key at the start.
ASSUME PeriodicAssumption ==
  /\ \A s \in Schedules :
       /\ s \in [every : Nat, cron : SUBSET Times, ttl : Nat \ {0},
                 since : Times \cup {Never}]
       /\ (s.every = 0) # (s.cron = {})
  /\ {MaxCatchUp, PassBound} \subseteq Nat \ {0}
  /\ {PollWindow, Horizon, MaxAborts} \subseteq Nat

VARIABLES
  schedule,\* the descriptor's schedule, fixed
  now,     \* the Redis clock
  locks,   \* [Times -> expiry of the slot's lock key, or Never]
  last,    \* the last-fired key, or Never
  fired,   \* the slots whose job was added to the queue, in order
  pass,    \* [Schedulers -> where each worker is in its pass]
  aborts

periodicVars == <<schedule, now, locks, last, fired, pass, aborts>>

Idle == [at |-> "idle", now |-> 0, slots |-> {}]
Steps == {"idle", "clock", "lock", "add", "set"}

PeriodicTypeOK ==
  /\ schedule \in Schedules
  /\ now \in Times
  /\ locks \in [Times -> Nat \cup {Never}]
  /\ last \in Times \cup {Never}
  /\ fired \in Seq(Times)
  /\ pass \in [Schedulers -> [at : Steps, now : Times, slots : SUBSET Times]]
  /\ aborts \in 0 .. MaxAborts

PeriodicInit ==
  /\ schedule \in Schedules
  /\ now = 0
  /\ locks = [t \in Times |-> Never]
  /\ last = schedule.since
  /\ fired = <<>>
  /\ pass = [w \in Schedulers |-> Idle]
  /\ aborts = 0

\* The n earliest members of a set of times.
Earliest(n, S) == {t \in S : Cardinality({u \in S : u < t}) < n}

\* Mutants of DueSlots: the latest slots instead of the earliest, or an
\* instant multiplied where it should be rounded down to its slot.
DueSlotsLatest(at, lastFired) ==
  LET dueNow == {t \in schedule.cron : lastFired < t /\ t <= at}
  IN {t \in dueNow : Cardinality({u \in dueNow : u > t}) < MaxCatchUp}

DueSlotsBeyond(at, lastFired) ==
  LET slot == at * schedule.every
  IN IF lastFired # Never /\ lastFired >= slot THEN {} ELSE {slot}

\* due_periodic_slots
DueSlots(at, lastFired) ==
  IF schedule.every > 0
  THEN LET slot == (at \div schedule.every) * schedule.every
       IN IF lastFired # Never /\ lastFired >= slot THEN {} ELSE {slot}
  ELSE LET start == IF lastFired = Never THEN at - PollWindow ELSE lastFired
       IN {t \in Earliest(MaxCatchUp, {u \in schedule.cron : u > start}) : t <= at}

\* The clock; no pass is stretched beyond PassBound.
Tick ==
  /\ now < Horizon
  /\ \A w \in Schedulers : pass[w].at # "idle" => now + 1 - pass[w].now <= PassBound
  /\ now' = now + 1
  /\ UNCHANGED <<schedule, locks, last, fired, pass, aborts>>

\* redis_time_ms at the top of run_redis_once
ReadClock(w) ==
  /\ pass[w].at = "idle"
  /\ pass' = [pass EXCEPT ![w] = [at |-> "clock", now |-> now, slots |-> {}]]
  /\ UNCHANGED <<schedule, now, locks, last, fired, aborts>>

ReadLast(w) ==
  /\ pass[w].at = "clock"
  /\ LET slots == DueSlots(pass[w].now, last)
     IN pass' = [pass EXCEPT ![w] =
                   IF slots = {} THEN Idle ELSE [@ EXCEPT !.at = "lock", !.slots = slots]]
  /\ UNCHANGED <<schedule, now, locks, last, fired, aborts>>

\* On to the next slot, or out of the loop.
NextSlot(w, slot) ==
  LET rest == pass[w].slots \ {slot}
  IN pass' = [pass EXCEPT ![w] =
                IF rest = {} THEN Idle ELSE [@ EXCEPT !.at = "lock", !.slots = rest]]

Held(slot) == locks[slot] > now

\* A mutant of TryLock: SET without NX.
LockAnyway(w) ==
  /\ pass[w].at = "lock"
  /\ locks' = [locks EXCEPT ![Min(pass[w].slots)] = now + schedule.ttl]
  /\ pass' = [pass EXCEPT ![w].at = "add"]
  /\ UNCHANGED <<schedule, now, last, fired, aborts>>

\* SET lock NX PX ttl
TryLock(w) ==
  /\ pass[w].at = "lock"
  /\ LET slot == Min(pass[w].slots)
     IN IF Held(slot)
        THEN NextSlot(w, slot) /\ UNCHANGED locks
        ELSE /\ locks' = [locks EXCEPT ![slot] = now + schedule.ttl]
             /\ pass' = [pass EXCEPT ![w].at = "add"]
  /\ UNCHANGED <<schedule, now, last, fired, aborts>>

AddJob(w) ==
  /\ pass[w].at = "add"
  /\ fired' = Append(fired, Min(pass[w].slots))
  /\ pass' = [pass EXCEPT ![w].at = "set"]
  /\ UNCHANGED <<schedule, now, locks, last, aborts>>

\* redis_set_u64 of the last-fired key: unconditional.
SetLast(w) ==
  /\ pass[w].at = "set"
  /\ last' = Min(pass[w].slots)
  /\ NextSlot(w, Min(pass[w].slots))
  /\ UNCHANGED <<schedule, now, locks, fired, aborts>>

\* A crash or a failed Redis command ends the pass where it stands.
Abort(w) ==
  /\ aborts < MaxAborts
  /\ pass[w].at # "idle"
  /\ aborts' = aborts + 1
  /\ pass' = [pass EXCEPT ![w] = Idle]
  /\ UNCHANGED <<schedule, now, locks, last, fired>>

PassStep(w) ==
  \/ ReadClock(w) \/ ReadLast(w) \/ TryLock(w) \/ AddJob(w) \/ SetLast(w)

PeriodicNext == Tick \/ \E w \in Schedulers : PassStep(w) \/ Abort(w)

PeriodicSpec == PeriodicInit /\ [][PeriodicNext]_periodicVars

PeriodicFairSpec ==
  /\ PeriodicSpec
  /\ WF_periodicVars(Tick) /\ \A w \in Schedulers : WF_periodicVars(PassStep(w))

-----------------------------------------------------------------------------
Fired == {fired[i] : i \in DOMAIN fired}

\* A slot is enqueued at most once, whatever races and crashes happen between
\* the lock, the XADD and the last-fired key (docs/guides/jobs/jobs.md:
\* "At-most-one-per-slot for periodic").
SlotOnce == \A i, k \in DOMAIN fired : fired[i] = fired[k] => i = k

\* The instants of a cron job that has fired before and may not be missed.
Owed == {t \in schedule.cron : schedule.since # Never /\ t > schedule.since}

\* Catch-up leaves no gap: while no pass is cut short, every instant before the
\* last-fired key has been enqueued, or the worker that took its lock is about
\* to.  The key itself moves back when two workers set it out of order.
InHand == {Min(pass[w].slots) : w \in {v \in Schedulers : pass[v].at = "add"}}
NoGap == aborts = 0 => {t \in Owed : t < last} \subseteq Fired \cup InHand

\* So the slots are exact: none twice, none left out.
SlotsExact == SlotOnce /\ NoGap

\* A cron job goes on firing: every instant is enqueued in the end if no pass is
\* cut short (WorkerConfig: "Maximum missed periodic slots to enqueue in one
\* loop").
KeepsFiring == \A t \in Times : [](t \in Owed => <>(t \in Fired \/ aborts > 0))
=============================================================================
