---------------------------- MODULE CollabReplicas ----------------------------
(***************************************************************************)
(* One collaborative document of pocopine-collab: the server processes     *)
(* that each hold a replica, the fan-out log in Redis that connects them,  *)
(* the snapshot store, the detached checkpoint tasks that save a replica   *)
(* and trim the log behind it, and the editors connected over the gateway. *)
(*                                                                         *)
(* A document is the set of edits merged into it: yrs updates commute and  *)
(* repeat harmlessly, so applying one is a union, and the difference a     *)
(* hello asks for is a set difference.  A log entry is the set of edits    *)
(* its update carries; entry ids are positions, and the first `base`       *)
(* entries are trimmed.                                                    *)
(***************************************************************************)
EXTENDS Naturals, Sequences, FiniteSets

CONSTANTS
  Procs,            \* server processes behind one load balancer
  Clients,          \* editors, each with one session at a time
  Writers,          \* the editors whose connections may write
  Edits,            \* the edits that will be made
  Author,           \* [Edits -> Writers]
  Nowhere,          \* the host of an editor without a session
  CheckpointEvery,  \* CollabSync.checkpoint_every
  Failures,         \* which remote calls may fail: a subset of Fallible
  MaxBreaks         \* bound on disconnects, crashes and failed calls

Fallible == {"load", "save", "subscribe", "publish", "doorbell"}

ASSUME CollabAssumption ==
  /\ Writers \subseteq Clients
  /\ Author \in [Edits -> Writers]
  /\ Nowhere \notin Procs
  /\ CheckpointEvery \in Nat \ {0}
  /\ Failures \subseteq Fallible
  /\ MaxBreaks \in Nat

VARIABLES
  log,      \* the topic's stream: every update ever published
  base,     \* how many of its oldest entries are trimmed
  store,    \* the CollabStore's row for the document
  topic,    \* each process's TopicState with the variables of its apply loop
  tasks,    \* checkpoint_task's in flight
  link,     \* how far each editor's session has come
  host,     \* the process each session is connected to
  mem,      \* each editor's own document
  wire,     \* updates an editor sent and its session has not handled yet
  pub,      \* the update a session applied and is about to publish
  tail,     \* the subscription that a session's pump_topic reads
  made,     \* history: the edits made so far
  partial,  \* history: a loop replayed only the retained tail of a trimmed log
  breaks    \* how many disconnects, crashes and failed calls there were

redis    == <<log, base>>
sessions == <<link, host, mem, wire, pub, tail>>
vars     == <<redis, store, topic, tasks, sessions, made, partial, breaks>>

Docs      == SUBSET Edits
NoUpdate  == <<>>
\* `refused` is a session whose subscription failed, `deaf` one whose pump ended.
Links     == {"off", "refused", "joined", "greeted", "deaf"}
Snapshots == [saved : BOOLEAN, blob : Docs, seq : Nat]
Tails     == [next : Nat, seen : Nat]

\* `none` is a topic without state; `load` and `resume` are the awaits of
\* seed_from_snapshot and subscribe_recovering, `retry` and `reload` those of
\* the recovery; `dead` is a loop that returned.
Phases == {"none", "load", "resume", "fold", "retry", "reload", "dead"}

Topics == [phase : Phases,
           doc   : Docs,
           after : Nat,      \* the snapshot's cursor
           whole : BOOLEAN,  \* the next subscribe passes no cursor
           folded: Nat,      \* highest_seq, published as last_folded
           last  : Nat,      \* last_checkpointed
           count : Nat,      \* folded since the last checkpoint
           next  : Nat,      \* the stream: the last entry handed out ...
           seen  : Nat]      \* ... and the last one fetched (last_seen)

\* `slot` marks the one task the apply loop knows about.
Tasks == [proc : Procs, slot : BOOLEAN, doc : Docs, seq : Nat,
          step : {"saving", "trimming"}]

NoTopic == [phase |-> "none", doc |-> {}, after |-> 0, whole |-> FALSE, folded |-> 0,
            last |-> 0, count |-> 0, next |-> 0, seen |-> 0]
NoTail  == [next |-> 0, seen |-> 0]

\* No cursor of a topic points past the log.
InLog(t) == /\ t.next <= t.seen /\ t.seen <= Len(log)
            /\ t.folded <= Len(log) /\ t.after <= Len(log)

TypeOK ==
  /\ log \in Seq(Docs)
  /\ base \in 0 .. Len(log)
  /\ store \in Snapshots /\ store.seq <= Len(log)
  /\ topic \in [Procs -> Topics]
  /\ \A p \in Procs : InLog(topic[p])
  /\ tasks \subseteq Tasks
  /\ \A t \in tasks : t.seq <= Len(log)
  /\ link \in [Clients -> Links]
  /\ host \in [Clients -> Procs \cup {Nowhere}]
  /\ mem \in [Clients -> Docs]
  /\ wire \in [Clients -> Seq(Docs)]
  /\ pub \in [Clients -> {NoUpdate} \cup {<<d>> : d \in Docs}]
  /\ tail \in [Clients -> Tails]
  /\ \A c \in Clients : tail[c].seen <= Len(log)
  /\ made \subseteq Edits
  /\ partial \in BOOLEAN
  /\ breaks \in 0 .. MaxBreaks

Init ==
  /\ log = <<>> /\ base = 0
  /\ store = [saved |-> FALSE, blob |-> {}, seq |-> 0]
  /\ topic = [p \in Procs |-> NoTopic]
  /\ tasks = {}
  /\ link = [c \in Clients |-> "off"]
  /\ host = [c \in Clients |-> Nowhere]
  /\ mem = [c \in Clients |-> {}]
  /\ wire = [c \in Clients |-> <<>>]
  /\ pub = [c \in Clients |-> NoUpdate]
  /\ tail = [c \in Clients |-> NoTail]
  /\ made = {} /\ partial = FALSE /\ breaks = 0

LargerOf(a, b) == IF a >= b THEN a ELSE b
Entries(from, to) == UNION {log[i] : i \in (from + 1) .. to}
Connected(p) == {c \in Clients : host[c] = p}

\* topic_subscribed counts a session once its subscription stands.
Subscribers(p) == {c \in Connected(p) : link[c] # "refused"}

Break == /\ breaks < MaxBreaks
         /\ breaks' = breaks + 1
Fails(call) == call \in Failures /\ Break

-----------------------------------------------------------------------------
(* The store and the trim: checkpoint_task, detached from whoever spawned   *)
(* it.  It holds the document as it was when it was spawned, the least the  *)
(* code can save: the replica only grows until the task locks it.           *)

\* A mutant of Saved: the monotonic guard is missing.
SavedAlways(t) == [saved |-> TRUE, blob |-> t.doc, seq |-> t.seq]

\* save_snapshot: only a strictly fresher cursor replaces the row.
Saved(t) ==
  IF store.saved /\ store.seq >= t.seq
  THEN store
  ELSE [saved |-> TRUE, blob |-> t.doc, seq |-> t.seq]

SaveSnapshot(t) ==
  /\ t.step = "saving"
  /\ store' = Saved(t)
  /\ tasks' = (tasks \ {t}) \cup {[t EXCEPT !.step = "trimming"]}
  /\ UNCHANGED <<redis, topic, sessions, made, partial, breaks>>

\* An error, or CHECKPOINT_TIMEOUT, after which the row may be written or not:
\* there is no trim.
SaveFails(t) ==
  /\ t.step = "saving"
  /\ Fails("save")
  /\ store' \in {store, Saved(t)}
  /\ tasks' = tasks \ {t}
  /\ UNCHANGED <<redis, topic, sessions, made, partial>>

\* trim_after: XTRIM MINID ~ drops whole nodes, so less than asked, or nothing
\* when the call fails.
TrimAfter(t) ==
  /\ t.step = "trimming"
  /\ base' \in base .. LargerOf(base, t.seq)
  /\ tasks' = tasks \ {t}
  /\ UNCHANGED <<log, store, topic, sessions, made, partial, breaks>>

Checkpoint(p, slot, doc, seq) ==
  [proc |-> p, slot |-> slot, doc |-> doc, seq |-> seq, step |-> "saving"]

-----------------------------------------------------------------------------
(* run_apply_loop.                                                          *)

In(p, phase) == topic[p].phase = phase

\* seed_from_snapshot: the replica merges the stored document, and the loop
\* resumes at its cursor, or from the start when there is none.
Seeded(t) ==
  [t EXCEPT !.phase = "resume",
            !.doc = @ \cup store.blob,
            !.after = store.seq,
            !.whole = ~ store.saved]

\* Reading the store again after a gap moves the loop's own cursors up.
Reseeded(t) ==
  [Seeded(t) EXCEPT !.folded = LargerOf(@, store.seq),
                    !.last = LargerOf(@, store.seq)]

LoadSnapshot(p) ==
  /\ \/ In(p, "load") /\ topic' = [topic EXCEPT ![p] = Seeded(@)]
     \/ In(p, "reload") /\ topic' = [topic EXCEPT ![p] = Reseeded(@)]
  /\ UNCHANGED <<redis, store, tasks, sessions, made, partial, breaks>>

LoadFails(p) ==
  /\ In(p, "load") \/ In(p, "reload")
  /\ Fails("load")
  /\ topic' = [topic EXCEPT ![p] = [@ EXCEPT !.phase = "resume", !.after = 0, !.whole = TRUE]]
  /\ UNCHANGED <<redis, store, tasks, sessions, made, partial>>

\* RedisFanout::subscribe replays from the cursor; the gap is what the replay
\* does not hold.
Gap(after) == after < base

\* Without a cursor the replay is the retained tail, and a stream whose replay is
\* empty believes it has seen nothing: its last_seen is 0 however long the log.
Retained == IF base < Len(log) THEN [next |-> base, seen |-> Len(log)] ELSE NoTail

\* Behind a cursor it holds everything published after it.
From(after) == [next |-> after, seen |-> Len(log)]

\* A mutant of Opened: the stream starts out one entry ahead of the head.
OpenedPastHead(t, tl) ==
  [t EXCEPT !.phase = "fold", !.next = tl.next, !.seen = tl.seen + 1]

\* The loop goes on with the stream it has opened.
Opened(t, tl) ==
  [t EXCEPT !.phase = "fold", !.next = tl.next, !.seen = tl.seen]

\* subscribe_recovering: at the cursor, and across a gap once more without one.
Subscribe(p) ==
  /\ In(p, "resume")
  /\ LET t == topic[p]
     IN IF ~ t.whole /\ Gap(t.after)
        THEN /\ topic' = [topic EXCEPT ![p].whole = TRUE]
             /\ UNCHANGED partial
        ELSE /\ topic' = [topic EXCEPT ![p] =
                  [Opened(t, IF t.whole THEN Retained ELSE From(t.after)) EXCEPT
                     !.folded = LargerOf(@, t.after),
                     !.last = LargerOf(@, t.after)]]
             /\ partial' = (partial \/ (t.whole /\ base > 0))
  /\ UNCHANGED <<redis, store, tasks, sessions, made, breaks>>

SubscribeFails(p) ==
  /\ In(p, "resume")
  /\ Fails("subscribe")
  /\ topic' = [topic EXCEPT ![p].phase = "dead"]
  /\ UNCHANGED <<redis, store, tasks, sessions, made, partial>>

SlotFree(p) == \A t \in tasks : ~ (t.proc = p /\ t.slot)

\* One entry of the stream: fold it, and start a checkpoint when one is due,
\* none is running and there is something new to save.
Fold(p) ==
  /\ In(p, "fold")
  /\ topic[p].next < topic[p].seen
  /\ LET t      == topic[p]
         doc    == t.doc \cup log[t.next + 1]
         folded == LargerOf(t.folded, t.next + 1)
         due    == t.count + 1 >= CheckpointEvery
         save   == due /\ SlotFree(p) /\ folded > t.last
     IN /\ topic' = [topic EXCEPT ![p] = [t EXCEPT
                       !.doc = doc, !.folded = folded, !.next = @ + 1,
                       !.count = IF due THEN 0 ELSE @ + 1,
                       !.last = IF save THEN folded ELSE @]]
        /\ tasks' = IF save THEN tasks \cup {Checkpoint(p, TRUE, doc, folded)} ELSE tasks
  /\ UNCHANGED <<redis, store, sessions, made, partial, breaks>>

\* The doorbell rings for an entry not yet fetched.  A hole before what XRANGE
\* returns is a lag; when everything new is trimmed already XRANGE returns
\* nothing, and the stream goes back to waiting.
Fetch(p) ==
  /\ In(p, "fold")
  /\ topic[p].next = topic[p].seen
  /\ topic[p].seen < Len(log) /\ base < Len(log)
  /\ topic' = [topic EXCEPT ![p] = IF Gap(@.seen) THEN [@ EXCEPT !.phase = "retry"]
                                                  ELSE [@ EXCEPT !.seen = Len(log)]]
  /\ UNCHANGED <<redis, store, tasks, sessions, made, partial, breaks>>

\* The pub/sub connection closes.
DoorbellLost(p) ==
  /\ In(p, "fold")
  /\ topic[p].next = topic[p].seen
  /\ Fails("doorbell")
  /\ topic' = [topic EXCEPT ![p].phase = "retry"]
  /\ UNCHANGED <<redis, store, tasks, sessions, made, partial>>

\* A mutant of Retry: the gap of the resumed stream is not looked at.
RetryBlindly(p) ==
  /\ In(p, "retry")
  /\ topic' = [topic EXCEPT ![p] = Opened(@, From(LargerOf(@.folded, base)))]
  /\ UNCHANGED <<redis, store, tasks, sessions, made, partial, breaks>>

\* The first tier of the recovery resumes at the loop's own cursor; a gap or an
\* error leads to the second.
Retry(p) ==
  /\ In(p, "retry")
  /\ topic' = [topic EXCEPT ![p] = IF Gap(@.folded) THEN [@ EXCEPT !.phase = "reload"]
                                                    ELSE Opened(@, From(@.folded))]
  /\ UNCHANGED <<redis, store, tasks, sessions, made, partial, breaks>>

RetryFails(p) ==
  /\ In(p, "retry")
  /\ Fails("subscribe")
  /\ topic' = [topic EXCEPT ![p].phase = "reload"]
  /\ UNCHANGED <<redis, store, tasks, sessions, made, partial>>

-----------------------------------------------------------------------------
(* The gateway session of one editor, and the editor itself.                *)

\* The load balancer picks a process.  open_topic subscribes to the retained
\* tail; the first subscriber makes on_topic_active create the topic's state
\* and spawn its apply loop.
Join(c, p) ==
  /\ link[c] = "off"
  /\ link' = [link EXCEPT ![c] = "joined"]
  /\ host' = [host EXCEPT ![c] = p]
  /\ tail' = [tail EXCEPT ![c] = Retained]
  /\ topic' = IF In(p, "none") THEN [topic EXCEPT ![p].phase = "load"] ELSE topic
  /\ UNCHANGED <<redis, store, tasks, mem, wire, pub, made, partial, breaks>>

\* open_topic's own subscribe fails: the session stays open without the topic.
\* The editor is told and asks again only on its next connection.
JoinFails(c, p) ==
  /\ link[c] = "off"
  /\ Fails("subscribe")
  /\ link' = [link EXCEPT ![c] = "refused"]
  /\ host' = [host EXCEPT ![c] = p]
  /\ UNCHANGED <<redis, store, topic, tasks, mem, wire, pub, tail, made, partial>>

\* A mutant of Greet: the editor sends nothing back.
GreetOneWay(c) ==
  /\ link[c] = "joined"
  /\ link' = [link EXCEPT ![c] = "greeted"]
  /\ mem' = [mem EXCEPT ![c] = @ \cup topic[host[c]].doc
                                 \cup Entries(tail[c].next, tail[c].seen)]
  /\ tail' = [tail EXCEPT ![c].next = tail[c].seen]
  /\ UNCHANGED <<redis, store, topic, tasks, host, wire, pub, made, partial, breaks>>

\* The hello: the server answers with what the editor lacks of its replica, in
\* whatever state that is, and opens the outbound gate, so that the replay the
\* subscription has buffered follows; an editor that may write answers with what
\* the replica lacks, be it nothing.  What it writes between the two answers is
\* part of its own, as if it had been written before.
Greet(c) ==
  LET doc == topic[host[c]].doc
  IN /\ link[c] = "joined"
     /\ link' = [link EXCEPT ![c] = "greeted"]
     /\ mem' = [mem EXCEPT ![c] = @ \cup doc \cup Entries(tail[c].next, tail[c].seen)]
     /\ tail' = [tail EXCEPT ![c].next = tail[c].seen]
     /\ wire' = IF c \in Writers THEN [wire EXCEPT ![c] = Append(@, mem[c] \ doc)] ELSE wire
     /\ UNCHANGED <<redis, store, topic, tasks, host, pub, made, partial, breaks>>

\* push_local_steps: the update is sent once the peer's hello was accepted.
\* Without a bound topic it stays in the outbox, and after a reconnect is
\* refused there ahead of the hello, which carries it anyway.
Edit(c, e) ==
  /\ Author[e] = c /\ e \notin made
  /\ made' = made \cup {e}
  /\ mem' = [mem EXCEPT ![c] = @ \cup {e}]
  /\ wire' = IF link[c] = "greeted" THEN [wire EXCEPT ![c] = Append(@, {e})] ELSE wire
  /\ UNCHANGED <<redis, store, topic, tasks, link, host, pub, tail, partial, breaks>>

\* on_data: the update is applied to the replica before it is published.
Handle(c) ==
  /\ wire[c] # <<>> /\ pub[c] = NoUpdate
  /\ pub' = [pub EXCEPT ![c] = <<Head(wire[c])>>]
  /\ topic' = [topic EXCEPT ![host[c]].doc = @ \cup Head(wire[c])]
  /\ wire' = [wire EXCEPT ![c] = Tail(@)]
  /\ UNCHANGED <<redis, store, tasks, link, host, mem, tail, made, partial, breaks>>

Publish(c) ==
  /\ pub[c] # NoUpdate
  /\ log' = Append(log, pub[c][1])
  /\ pub' = [pub EXCEPT ![c] = NoUpdate]
  /\ UNCHANGED <<base, store, topic, tasks, link, host, mem, wire, tail, made, partial, breaks>>

\* The editor is told of a bad frame and keeps its session.
PublishFails(c) ==
  /\ pub[c] # NoUpdate
  /\ Fails("publish")
  /\ pub' = [pub EXCEPT ![c] = NoUpdate]
  /\ UNCHANGED <<redis, store, topic, tasks, link, host, mem, wire, tail, made, partial>>

\* pump_topic behind the open gate: a doorbell fetches what is new.  After a gap
\* the pump ends and the editor is told; it forgets the topic's reference, and
\* nothing subscribes again.
Receive(c) ==
  /\ link[c] = "greeted"
  /\ LET seen == tail[c].seen
     IN /\ seen < Len(log) /\ base < Len(log)
        /\ IF Gap(seen)
           THEN /\ link' = [link EXCEPT ![c] = "deaf"]
                /\ UNCHANGED <<mem, tail>>
           ELSE /\ mem' = [mem EXCEPT ![c] = @ \cup Entries(seen, Len(log))]
                /\ tail' = [tail EXCEPT ![c] = [next |-> Len(log), seen |-> Len(log)]]
                /\ UNCHANGED link
  /\ UNCHANGED <<redis, store, topic, tasks, host, wire, pub, made, partial, breaks>>

\* The pump's source fails behind the open gate: pump_topic answers with a gap
\* and ends, and the session still counts as a subscriber.
PumpFails(c) ==
  /\ link[c] = "greeted"
  /\ Fails("doorbell")
  /\ link' = [link EXCEPT ![c] = "deaf"]
  /\ UNCHANGED <<redis, store, topic, tasks, host, mem, wire, pub, tail, made, partial>>

\* on_topic_idle: the last subscriber left.  A final checkpoint is spawned, the
\* loop is aborted and the replica dropped; a task of its own runs on.
GoIdle(p) ==
  /\ tasks' = {[t EXCEPT !.slot = IF t.proc = p THEN FALSE ELSE @] : t \in tasks}
              \cup {Checkpoint(p, FALSE, topic[p].doc, topic[p].folded)}
  /\ topic' = [topic EXCEPT ![p] = NoTopic]

CutOff(gone) ==
  /\ link' = [c \in Clients |-> IF c \in gone THEN "off" ELSE link[c]]
  /\ host' = [c \in Clients |-> IF c \in gone THEN Nowhere ELSE host[c]]
  /\ wire' = [c \in Clients |-> IF c \in gone THEN <<>> ELSE wire[c]]
  /\ pub' = [c \in Clients |-> IF c \in gone THEN NoUpdate ELSE pub[c]]
  /\ tail' = [c \in Clients |-> IF c \in gone THEN NoTail ELSE tail[c]]

\* The socket drops, or the page is reloaded and its document forgotten.  The
\* session handles the message at hand to the end before it shuts down.
Leave(c) ==
  /\ link[c] # "off" /\ pub[c] = NoUpdate
  /\ Break
  /\ \E kept \in {mem[c], {}} : mem' = [mem EXCEPT ![c] = kept]
  /\ CutOff({c})
  /\ IF Subscribers(host[c]) = {c} THEN GoIdle(host[c]) ELSE UNCHANGED <<topic, tasks>>
  /\ UNCHANGED <<redis, store, made, partial>>

\* The process dies with its replica, its tasks and its sessions.
Crash(p) ==
  /\ Connected(p) # {} \/ \E t \in tasks : t.proc = p
  /\ Break
  /\ topic' = [topic EXCEPT ![p] = NoTopic]
  /\ tasks' = {t \in tasks : t.proc # p}
  /\ CutOff(Connected(p))
  /\ UNCHANGED <<redis, store, mem, made, partial>>

-----------------------------------------------------------------------------
Loop(p) == LoadSnapshot(p) \/ Subscribe(p) \/ Fold(p) \/ Fetch(p) \/ Retry(p)

LoopFails(p) ==
  \/ LoadFails(p)
  \/ SubscribeFails(p)
  \/ DoorbellLost(p)
  \/ RetryFails(p)

Session(c) == Greet(c) \/ Handle(c) \/ Publish(c) \/ Receive(c)

Next ==
  \/ \E p \in Procs : Loop(p) \/ LoopFails(p) \/ Crash(p)
  \/ \E t \in tasks : SaveSnapshot(t) \/ SaveFails(t) \/ TrimAfter(t)
  \/ \E c \in Clients : Session(c) \/ PublishFails(c) \/ PumpFails(c) \/ Leave(c)
  \/ \E c \in Clients, p \in Procs : Join(c, p) \/ JoinFails(c, p)
  \/ \E c \in Clients, e \in Edits : Edit(c, e)

Spec == Init /\ [][Next]_vars

\* Spawned tasks and sessions run, and an editor's transport reconnects for as
\* long as its page is open.
Fairness ==
  /\ \A p \in Procs : WF_vars(Loop(p))
  /\ \A c \in Clients : /\ WF_vars(\E p \in Procs : Join(c, p))
                        /\ WF_vars(Greet(c))
                        /\ WF_vars(Handle(c) \/ Publish(c))
                        /\ WF_vars(Receive(c))
  /\ WF_vars(\E t \in tasks : SaveSnapshot(t) \/ TrimAfter(t))

FairSpec == Spec /\ Fairness

-----------------------------------------------------------------------------
(* What the replicas promise.                                              *)

Published == Entries(0, Len(log))

\* The log is trimmed only behind the stored cursor, whatever order checkpoints
\* of several processes and their time-outs come in: a loop that reads the
\* store can always resume at its cursor.
TrimmedIsSaved == base > 0 => store.saved /\ base <= store.seq

\* A replica holds every entry up to its last_folded, and the stored snapshot
\* every entry up to its cursor, as long as no loop had to start from the
\* retained tail of a trimmed log: a cursor ahead of what was merged
\* makes the next checkpoint overwrite the only copy of the difference.
Covered(doc, seq) == \A i \in 1 .. seq : log[i] \subseteq doc
CursorsCover ==
  ~ partial =>
    /\ Covered(store.blob, store.seq)
    /\ \A t \in tasks : Covered(t.doc, t.seq)
    /\ \A p \in Procs : Covered(topic[p].doc, topic[p].folded)

\* An editor with a session and no reference to the topic: its first subscribe
\* failed, or its pump ended.  Neither it nor the server subscribes again, and
\* what it writes stays in its outbox until its socket drops.
Stranded(c) == link[c] \in {"refused", "deaf"}

\* What an editor writes reaches the log or the store in the end, through
\* however many crashes and reconnects, if the page stays open, the editor is
\* not stranded on a live socket and every publish goes through: the server is at least once
\* through the client, whose hello uploads again what a crash took with it.
\* (The store alone can be all it reaches: a checkpoint may save an update that
\* its session applied and never came to publish.)
EditsArrive ==
  \A c \in Clients, e \in Edits :
    (e \in mem[c] /\ Author[e] = c)
      ~> (e \in Published \cup store.blob \/ e \notin mem[c] \/ Stranded(c))

-----------------------------------------------------------------------------
(* What the documentation claims.                                          *)

\* handler.rs: "everything `<= last_seq` is durable".
SnapshotComplete == Covered(store.blob, store.seq)
=============================================================================
