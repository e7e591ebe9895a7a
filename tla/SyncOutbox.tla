----------------------------- MODULE SyncOutbox -----------------------------
(***************************************************************************)
(* Offline writes in the query client (pocopine-sync-query): a mutation is *)
(* shown as an optimistic overlay in the views it matches, saved in the    *)
(* local store, pushed, and after a transport error replayed from a queue  *)
(* that the drivers of all views share.  One stream; the server provides   *)
(* no principal and keeps its schema version.  Every task of the page runs *)
(* in one thread: an action is what happens between two awaits.            *)
(***************************************************************************)
EXTENDS Naturals, Sequences, FiniteSets, SequencesExt

CONSTANTS
  Views,        \* the queries a page observes
  Muts,         \* the mutations, each made at most once
  Tasks,        \* identities for subscriptions and their driver tasks
  Home,         \* [Views -> the store compartment of the query]
  Bare,         \* the compartment of the stream itself
  Match,        \* [Muts -> the views its optimistic change applies to]
  Interrupts,   \* the driver states in which a view may be dropped
  MaxBreaks,    \* bound on views dropped and page reloads
  NoView

ASSUME OutboxAssumption ==
  /\ IsFiniteSet(Muts)
  /\ Match \in [Muts -> SUBSET Views]
  /\ MaxBreaks \in Nat
  /\ NoView \notin Views

VARIABLES
  task,      \* [Tasks -> a subscription's overlays and where its driver is]
  live,      \* the subscriptions in the registry: their epoch is current
  queue,     \* QueryClientInner::replay_queue
  saved,     \* [Compartments -> the pending mutations in the local store]
  call,      \* [Muts -> where QueryClient::mutate is]
  server,    \* [Muts -> what the server's idempotency log holds]
  breaks,    \* views dropped and reloads so far
  \* history
  settled,   \* mutations whose fate the client was told, or which it gave up
  dropped    \* mutations of a batch whose driver was dropped while replaying it

vars == <<task, live, queue, saved, call, server, breaks, settled, dropped>>

Compartments == {Home[v] : v \in Views} \cup {Bare}
Entries == [mut : Muts, hydrated : BOOLEAN]
PersistTail == {"enqueue", "sweep", "mark"}
States == PersistTail \cup {"gone", "hydrate", "adopt", "open", "pull",
                            "retire", "save", "replay", "forget"}
Idle == [view |-> NoView, at |-> "gone", boot |-> FALSE, overlay |-> {},
         ids |-> {}, where |-> {}, batch |-> <<>>]

Types ==
  /\ task \in [Tasks -> [view : Views \cup {NoView}, at : States, boot : BOOLEAN,
                         overlay : SUBSET Muts, ids : SUBSET Muts,
                         where : SUBSET Compartments, batch : Seq(Entries)]]
  /\ live \subseteq Tasks
  /\ queue \in Seq(Entries)
  /\ saved \in [Compartments -> SUBSET Muts]
  /\ call \in [Muts -> [at : {"new", "saving", "sent", "clearing", "over"},
                        left : SUBSET Compartments]]
  /\ server \in [Muts -> {"unseen", "applied", "refused"}]
  /\ breaks \in 0 .. MaxBreaks
  /\ settled \subseteq Muts /\ dropped \subseteq Muts

\* A subscription has one driver, whoever else observes its query.
OneDriverEach == \A i, j \in live : task[i].view = task[j].view => i = j

TypeOK == Types /\ OneDriverEach

Init ==
  /\ task = [i \in Tasks |-> Idle]
  /\ live = {}
  /\ queue = <<>>
  /\ saved = [c \in Compartments |-> {}]
  /\ call = [m \in Muts |-> [at |-> "new", left |-> {}]]
  /\ server = [m \in Muts |-> "unseen"]
  /\ breaks = 0
  /\ settled = {} /\ dropped = {}
-----------------------------------------------------------------------------
(* The registry. *)

\* T without the overlays of the mutations in S, in every subscription.
Dequeue(T, S) ==
  [i \in Tasks |-> IF i \in live THEN [T[i] EXCEPT !.overlay = @ \ S] ELSE T[i]]

\* Where the live subscriptions keep their pendings, and the stream's compartment: a
\* clear collects these before its first await.
Mounted == {Home[task[i].view] : i \in live} \cup {Bare}

\* The store without S in the compartments C: the awaits of a clear taken as one.
Cleared(S, C) == [c \in Compartments |-> IF c \in C THEN saved[c] \ S ELSE saved[c]]

\* The driver of i reaches a check of its epoch and goes on at the state s.
Resume(T, i, s) == [T EXCEPT ![i] = IF i \in live THEN [@ EXCEPT !.at = s] ELSE Idle]

\* Mutant of Mount: whoever observes a query spawns a driver.
MountEach(v) ==
  /\ \E i \in Tasks : task[i] = Idle
  /\ LET i == CHOOSE j \in Tasks : task[j] = Idle IN
       /\ live' = live \cup {i}
       /\ task' = [task EXCEPT ![i] = [Idle EXCEPT !.view = v, !.at = "hydrate", !.boot = TRUE]]
  /\ UNCHANGED <<queue, saved, call, server, breaks, settled, dropped>>

\* The first to observe a query spawns its driver; the others share its subscription.
Mount(v) ==
  /\ \A i \in live : task[i].view # v
  /\ \E i \in Tasks : task[i] = Idle
  /\ LET i == CHOOSE j \in Tasks : task[j] = Idle IN
       /\ live' = live \cup {i}
       /\ task' = [task EXCEPT ![i] = [Idle EXCEPT !.view = v, !.at = "hydrate", !.boot = TRUE]]
  /\ UNCHANGED <<queue, saved, call, server, breaks, settled, dropped>>

Unmount(i) ==
  /\ i \in live
  /\ task[i].at \in Interrupts
  /\ breaks < MaxBreaks
  /\ breaks' = breaks + 1
  /\ live' = live \ {i}
  /\ UNCHANGED <<task, queue, saved, call, server, settled, dropped>>

\* The page is loaded anew: only the local store is left. A write that was still
\* being saved had not been given to the app.
Reload ==
  /\ breaks < MaxBreaks
  /\ breaks' = breaks + 1
  /\ task' = [i \in Tasks |-> Idle]
  /\ live' = {}
  /\ queue' = <<>>
  /\ call' = [m \in Muts |-> IF call[m].at = "new" THEN call[m]
                                                   ELSE [at |-> "over", left |-> {}]]
  /\ settled' = settled \cup {m \in Muts : call[m].at = "saving"}
  /\ dropped' = {}
  /\ UNCHANGED <<saved, server>>
-----------------------------------------------------------------------------
(* QueryClient::mutate. *)

Mutate(m) ==
  /\ call[m].at = "new"
  /\ LET hit == {i \in live : task[i].view \in Match[m]}
     IN  /\ task' = [i \in Tasks |-> IF i \in hit THEN [task[i] EXCEPT !.overlay = @ \cup {m}]
                                                  ELSE task[i]]
         /\ call' = [call EXCEPT ![m] = [at |-> "saving",
              left |-> IF hit = {} THEN {Bare} ELSE {Home[task[i].view] : i \in hit}]]
  /\ UNCHANGED <<live, queue, saved, server, breaks, settled, dropped>>

SaveCall(m) ==
  /\ call[m].at = "saving"
  /\ \E c \in call[m].left :
       /\ saved' = [saved EXCEPT ![c] = @ \cup {m}]
       /\ call' = [call EXCEPT ![m].left = @ \ {c},
                               ![m].at = IF call[m].left = {c} THEN "sent" ELSE @]
  /\ UNCHANGED <<task, live, queue, server, breaks, settled, dropped>>

InFlight(m) ==
  \/ call[m].at = "sent"
  \/ \E i \in Tasks : task[i].at = "replay" /\ Head(task[i].batch).mut = m

Serve(m) ==
  /\ InFlight(m)
  /\ server[m] = "unseen"
  /\ \E verdict \in {"applied", "refused"} : server' = [server EXCEPT ![m] = verdict]
  /\ UNCHANGED <<task, live, queue, saved, call, breaks, settled, dropped>>

\* An accepted call clears the store too; a refused one is rolled back in memory.
CallAnswered(m) ==
  /\ call[m].at = "sent"
  /\ server[m] # "unseen"
  /\ task' = Dequeue(task, {m})
  /\ call' = [call EXCEPT ![m] = IF server[m] = "applied"
                                 THEN [at |-> "clearing", left |-> Mounted]
                                 ELSE [at |-> "over", left |-> {}]]
  /\ settled' = settled \cup {m}
  /\ UNCHANGED <<live, queue, saved, server, breaks, dropped>>

CallOffline(m) ==
  /\ call[m].at = "sent"
  /\ queue' = Append(queue, [mut |-> m, hydrated |-> FALSE])
  /\ call' = [call EXCEPT ![m].at = "over"]
  /\ UNCHANGED <<task, live, saved, server, breaks, settled, dropped>>

ClearCall(m) ==
  /\ call[m].at = "clearing"
  /\ saved' = Cleared({m}, call[m].left)
  /\ call' = [call EXCEPT ![m] = [at |-> "over", left |-> {}]]
  /\ UNCHANGED <<task, live, queue, server, breaks, settled, dropped>>

\* The app drops the future: RollbackGuard takes the overlay back.
Cancel(m) ==
  /\ call[m].at \in {"saving", "sent", "clearing"}
  /\ task' = IF call[m].at = "clearing" THEN task ELSE Dequeue(task, {m})
  /\ call' = [call EXCEPT ![m] = [at |-> "over", left |-> {}]]
  /\ settled' = settled \cup {m}
  /\ UNCHANGED <<live, queue, saved, server, breaks, dropped>>
-----------------------------------------------------------------------------
(* The driver of one subscription: hydrate, open, pull. *)

\* The pendings of the query's own compartment and of the stream's; a mutation is
\* in one or the other, so the two reads are one step.
Hydrate(i) ==
  /\ task[i].at = "hydrate"
  /\ task' = Resume([task EXCEPT ![i].ids = saved[Home[task[i].view]] \cup saved[Bare]],
                    i, "adopt")
  /\ UNCHANGED <<live, queue, saved, call, server, breaks, settled, dropped>>

Adopt(i) ==
  /\ task[i].at = "adopt"
  /\ task' = Resume([task EXCEPT ![i].overlay = @ \cup task[i].ids], i, "open")
  /\ UNCHANGED <<live, queue, saved, call, server, breaks, settled, dropped>>

\* Mutant of Open: pendings are queued only if /open answered.
OpenOnline(i) ==
  /\ task[i].at = "open"
  /\ \E answered \in BOOLEAN :
       /\ task' = Resume([task EXCEPT ![i].ids = {}, ![i].boot = answered], i, "pull")
       /\ IF i \in live /\ answered
          THEN \E s \in SetToSeqs(task[i].ids) :
                 queue' = queue \o [k \in DOMAIN s |-> [mut |-> s[k], hydrated |-> TRUE]]
          ELSE UNCHANGED queue
  /\ UNCHANGED <<live, saved, call, server, breaks, settled, dropped>>

\* /open answered or failed: the hydrated pendings are queued either way, but a
\* failed one skips the initial pull.
Open(i) ==
  /\ task[i].at = "open"
  /\ \E answered \in BOOLEAN :
       task' = Resume([task EXCEPT ![i].ids = {}, ![i].boot = answered],
                      i, "pull")
  /\ IF i \in live
     THEN \E s \in SetToSeqs(task[i].ids) :
            queue' = queue \o [k \in DOMAIN s |-> [mut |-> s[k], hydrated |-> TRUE]]
     ELSE UNCHANGED queue
  /\ UNCHANGED <<live, saved, call, server, breaks, settled, dropped>>

\* A driver at "pull" waits for its tick, then for the response.  The end of a
\* tick's pull, in T: replay_pending takes the whole queue. The first
\* pull is not followed by a replay.
EndPull(T, i) ==
  LET takes == i \in live /\ ~task[i].boot
  IN  /\ task' = IF takes /\ queue # <<>>
                 THEN [T EXCEPT ![i].at = "replay", ![i].batch = queue]
                 ELSE Resume([T EXCEPT ![i].boot = FALSE], i, "pull")
      /\ queue' = IF takes THEN <<>> ELSE queue

PullFails(i) ==
  /\ task[i].at = "pull"
  /\ EndPull(task, i)
  /\ UNCHANGED <<live, saved, call, server, breaks, settled, dropped>>

\* persist_snapshot captures the overlays before its first await.
Persist(T, i) == Resume([T EXCEPT ![i].ids = T[i].overlay], i, "save")

\* The changes of the response name the applied mutations of E as their origin.
Pull(i) ==
  /\ task[i].at = "pull"
  /\ \E E \in SUBSET {m \in Muts : server[m] = "applied"} :
       LET echoed == {m \in E : i \in live /\ \E j \in live : m \in task[j].overlay}
           T == Dequeue(task, echoed)
       IN  /\ settled' = settled \cup echoed
           /\ task' = IF echoed = {} THEN Persist(T, i)
                      ELSE [T EXCEPT ![i].at = "retire", ![i].ids = echoed, ![i].where = Mounted]
  /\ UNCHANGED <<live, queue, saved, call, server, breaks, dropped>>

Retire(i) ==
  /\ task[i].at = "retire"
  /\ saved' = Cleared(task[i].ids, task[i].where)
  /\ task' = Persist([task EXCEPT ![i].where = {}], i)
  /\ UNCHANGED <<live, queue, call, server, breaks, settled, dropped>>
-----------------------------------------------------------------------------
(* The driver: persist_snapshot and its sweep. *)

\* In T the pendings are saved; the durable ones are read.
ReadBack(T, i) == [T EXCEPT ![i].ids = saved'[Home[task[i].view]], ![i].at = "sweep"]

\* Rows and cursor are saved; the epoch is checked here and not again before the
\* sweep is over.
Save(i) ==
  /\ task[i].at = "save"
  /\ UNCHANGED saved
  /\ task' = IF i \in live /\ task[i].ids = {} THEN ReadBack(task, i)
                                              ELSE Resume(task, i, "enqueue")
  /\ UNCHANGED <<live, queue, call, server, breaks, settled, dropped>>

Enqueue(i) ==
  /\ task[i].at = "enqueue"
  /\ \E m \in task[i].ids :
       /\ saved' = [saved EXCEPT ![Home[task[i].view]] = @ \cup {m}]
       /\ task' = IF task[i].ids = {m} THEN ReadBack(task, i)
                                       ELSE [task EXCEPT ![i].ids = @ \ {m}]
  /\ UNCHANGED <<live, queue, call, server, breaks, settled, dropped>>

\* The driver of a dropped view finds its subscription gone and sweeps nothing.
Sweep(i) ==
  /\ task[i].at = "sweep"
  /\ LET stale == IF i \in live THEN task[i].ids \ task[i].overlay ELSE {}
     IN  IF stale = {}
         THEN EndPull([task EXCEPT ![i].ids = {}], i)
         ELSE /\ task' = [task EXCEPT ![i].ids = stale, ![i].at = "mark"]
              /\ UNCHANGED queue
  /\ UNCHANGED <<live, saved, call, server, breaks, settled, dropped>>

Mark(i) ==
  /\ task[i].at = "mark"
  /\ saved' = [saved EXCEPT ![Home[task[i].view]] = @ \ task[i].ids]
  /\ EndPull([task EXCEPT ![i].ids = {}], i)
  /\ UNCHANGED <<live, call, server, breaks, settled, dropped>>
-----------------------------------------------------------------------------
(* The driver: replay_pending, one entry of the batch at a time. *)

MutsOf(s) == {s[k].mut : k \in DOMAIN s}

\* The loop goes on with the rest of the batch, in T, unless the epoch is stale:
\* then the batch is lost.
NextEntry(T, i, rest) ==
  /\ task' = Resume([T EXCEPT ![i].batch = rest, ![i].ids = {}, ![i].where = {}], i,
                    IF rest = <<>> THEN "pull" ELSE "replay")
  /\ dropped' = IF i \in live THEN dropped ELSE dropped \cup MutsOf(rest)

Entry(i) == Head(task[i].batch)

ReplayAccepted(i) ==
  /\ task[i].at = "replay"
  /\ server[Entry(i).mut] = "applied"
  /\ NextEntry(Dequeue(task, {Entry(i).mut}), i, Tail(task[i].batch))
  /\ settled' = settled \cup {Entry(i).mut}
  /\ UNCHANGED <<live, queue, saved, call, server, breaks>>

\* A driver with a stale epoch returns before it can put the entry back.
ReplayOffline(i) ==
  /\ task[i].at = "replay"
  /\ queue' = IF i \in live THEN Append(queue, Entry(i)) ELSE queue
  /\ NextEntry(task, i, IF i \in live THEN Tail(task[i].batch) ELSE task[i].batch)
  /\ UNCHANGED <<live, saved, call, server, breaks, settled>>

\* Mutant of ReplayRefused: only the driver's own subscription is rolled back.
RefuseTyped(i) ==
  /\ task[i].at = "replay"
  /\ server[Entry(i).mut] = "refused"
  /\ i \in live
  /\ settled' = settled \cup {Entry(i).mut}
  /\ task' = [task EXCEPT ![i].overlay = @ \ {Entry(i).mut}, ![i].at = "forget",
                          ![i].ids = {Entry(i).mut}, ![i].where = Mounted,
                          ![i].batch = Tail(@)]
  /\ UNCHANGED <<live, queue, saved, call, server, breaks, dropped>>

\* The replay of a hydrated entry rolls the overlays back itself; the driver does
\* it for the others, if its epoch is current.
ReplayRefused(i) ==
  /\ task[i].at = "replay"
  /\ server[Entry(i).mut] = "refused"
  /\ settled' = settled \cup {Entry(i).mut}
  /\ LET m == Entry(i).mut
         T == IF i \in live \/ Entry(i).hydrated THEN Dequeue(task, {m}) ELSE task
         rest == Tail(task[i].batch)
     IN  IF i \in live
         THEN /\ task' = [T EXCEPT ![i].at = "forget", ![i].ids = {m}, ![i].where = Mounted,
                                      ![i].batch = rest]
              /\ UNCHANGED dropped
         ELSE NextEntry(T, i, IF Entry(i).hydrated THEN rest ELSE task[i].batch)
  /\ UNCHANGED <<live, queue, saved, call, server, breaks>>

Forget(i) ==
  /\ task[i].at = "forget"
  /\ saved' = Cleared(task[i].ids, task[i].where)
  /\ NextEntry(task, i, task[i].batch)
  /\ UNCHANGED <<live, queue, call, server, breaks, settled>>
-----------------------------------------------------------------------------
Call(m) ==
  \/ Mutate(m) \/ SaveCall(m) \/ CallAnswered(m) \/ CallOffline(m) \/ ClearCall(m)
  \/ Cancel(m)

Driver(i) ==
  \/ Hydrate(i) \/ Adopt(i) \/ Open(i)
  \/ PullFails(i) \/ Pull(i) \/ Retire(i)
  \/ Save(i) \/ Enqueue(i) \/ Sweep(i) \/ Mark(i)
  \/ ReplayAccepted(i) \/ ReplayOffline(i) \/ ReplayRefused(i) \/ Forget(i)

Next ==
  \/ \E m \in Muts : Call(m) \/ Serve(m)
  \/ \E i \in Tasks : Driver(i) \/ Unmount(i)
  \/ \E v \in Views : Mount(v)
  \/ Reload

Spec == Init /\ [][Next]_vars

\* The executor polls every task, the page observes its views again, and a push
\* repeated forever is served, and answered, at last.
Fairness ==
  /\ \A m \in Muts : /\ WF_vars(SaveCall(m) \/ ClearCall(m))
                     /\ WF_vars(CallAnswered(m) \/ CallOffline(m))
                     /\ SF_vars(Serve(m))
  /\ \A i \in Tasks : /\ WF_vars(Driver(i))
                      /\ SF_vars(ReplayAccepted(i) \/ ReplayRefused(i))
  /\ \A v \in Views : WF_vars(Mount(v))

FairSpec == Spec /\ Fairness
-----------------------------------------------------------------------------
(* Properties. *)

\* The write has been made and the client has not been told what became of it.
Owed(m) == call[m].at \in {"sent", "over"} /\ m \notin settled

\* Someone is going to settle the mutation: the call itself, the replay queue, a
\* driver's batch, or a driver that has just read it from the store.
Tracked(m) ==
  \/ call[m].at \in {"saving", "sent"}
  \/ m \in MutsOf(queue)
  \/ \E i \in Tasks : m \in MutsOf(task[i].batch)
  \/ \E i \in live : task[i].at = "open" /\ m \in task[i].ids

\* Every optimistic overlay on the screen belongs to a write that someone still
\* pushes or rolls back (replay_pending, dequeue_pending_any, the rollback guard),
\* whatever order calls, echoes, hydrations and two drivers' replays come in; only
\* a batch whose driver was dropped leaves overlays behind.
OverlaysTracked ==
  \A i \in live : \A m \in task[i].overlay : Tracked(m) \/ m \in dropped

\* A write on the screen whose fate is open is in the local store, so a reload
\* still replays it: neither a clear nor the sweep of persist_snapshot takes the
\* only copy of a write that some view shows.
ShownWritesSaved ==
  \A i \in live : \A m \in task[i].overlay :
    Owed(m) => \E c \in Compartments : m \in saved[c]

\* So what a view shows beyond the server's rows is backed by work and by the store.
OverlaysBacked == OverlaysTracked /\ ShownWritesSaved

\* Every write made is settled in the end and its overlays are gone, whatever fails
\* and however often the page is loaded, unless a dropped driver held it.
WritesSettle ==
  \A m \in Muts :
    call[m].at = "sent" ~>
      \/ m \in settled /\ \A i \in live : m \notin task[i].overlay
      \/ m \in dropped
=============================================================================
