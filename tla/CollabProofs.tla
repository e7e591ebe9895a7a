----------------------------- MODULE CollabProofs -----------------------------
(***************************************************************************)
(* Proofs about CollabReplicas for every number of server processes,       *)
(* editors, edits and failures, and every checkpoint interval.             *)
(***************************************************************************)
EXTENDS CollabReplicas, TLAPS

-----------------------------------------------------------------------------
(* Facts about the data.                                                   *)

\* What PUBLISH does to the stream.
LEMMA LogFacts ==
  ASSUME NEW s \in Seq(Docs), NEW d \in Docs
  PROVE  /\ Append(s, d) \in Seq(Docs)
         /\ Len(s) \in Nat
         /\ Len(Append(s, d)) = Len(s) + 1
         /\ \A i \in 1 .. Len(s) : Append(s, d)[i] = s[i] /\ s[i] \in Docs
  OBVIOUS

\* Handling a session's oldest update.
LEMMA WireFacts ==
  ASSUME NEW s \in Seq(Docs), s # <<>>
  PROVE  Head(s) \in Docs /\ Tail(s) \in Seq(Docs)
  OBVIOUS

\* The larger of two cursors.
LEMMA LargerFacts ==
  ASSUME NEW a \in Nat, NEW b \in Nat
  PROVE  /\ LargerOf(a, b) \in Nat
         /\ a <= LargerOf(a, b) /\ b <= LargerOf(a, b)
         /\ LargerOf(a, b) = a \/ LargerOf(a, b) = b
  BY DEF LargerOf

\* The fields of a topic.
LEMMA TopicFacts ==
  ASSUME NEW t \in Topics
  PROVE  /\ t.phase \in Phases /\ t.doc \in Docs /\ t.whole \in BOOLEAN
         /\ t.after \in Nat /\ t.folded \in Nat /\ t.last \in Nat
         /\ t.count \in Nat /\ t.next \in Nat /\ t.seen \in Nat
  BY DEF Topics

\* A topic after an entry was folded.
LEMMA AdvancedTopic ==
  ASSUME NEW t \in Topics, NEW doc \in Docs, NEW folded \in Nat, NEW next \in Nat,
         NEW count \in Nat, NEW last \in Nat
  PROVE  [t EXCEPT !.doc = doc, !.folded = folded, !.next = next,
                   !.count = count, !.last = last] \in Topics
  BY DEF Topics

\* A topic without state, and a session without a subscription.
LEMMA NoTopicFacts == NoTopic \in Topics /\ NoTail \in Tails
  BY DEF NoTopic, NoTail, Topics, Tails, Docs, Phases

\* What the store keeps of a checkpoint.
LEMMA SavedFacts ==
  ASSUME store \in Snapshots, NEW t \in Tasks
  PROVE  /\ Saved(t) \in Snapshots
         /\ Saved(t).seq = store.seq \/ Saved(t).seq = t.seq
         /\ Saved(t).saved /\ t.seq <= Saved(t).seq
         /\ store.saved => store.seq <= Saved(t).seq
         /\ \/ Saved(t) = store
            \/ Saved(t).blob = t.doc /\ Saved(t).seq = t.seq
  BY DEF Saved, Snapshots, Tasks

\* What the transformations of a topic make of its fields.
LEMMA LoopFacts ==
  ASSUME TypeOK, NEW t \in Topics, InLog(t), NEW tl \in Tails,
         tl.next <= tl.seen, tl.seen <= Len(log)
  PROVE  /\ Seeded(t) \in Topics /\ InLog(Seeded(t))
         /\ Reseeded(t) \in Topics /\ InLog(Reseeded(t))
         /\ Opened(t, tl) \in Topics /\ InLog(Opened(t, tl))
<1>1. store \in Snapshots /\ store.seq \in Nat /\ store.seq <= Len(log) /\ store.blob \in Docs
  BY DEF TypeOK, Snapshots
<1>2. t.doc \cup store.blob \in Docs
  BY <1>1, TopicFacts DEF Docs
<1>3. Seeded(t) \in Topics /\ InLog(Seeded(t))
  BY <1>1, <1>2 DEF Seeded, Topics, InLog, Phases, Snapshots
<1>4. Seeded(t).folded = t.folded /\ Seeded(t).last = t.last
  BY DEF Seeded, Topics
<1>5. /\ LargerOf(t.folded, store.seq) \in Nat /\ LargerOf(t.folded, store.seq) <= Len(log)
      /\ LargerOf(t.last, store.seq) \in Nat
  BY <1>1, TopicFacts, LargerFacts DEF InLog
<1>6. Reseeded(t) \in Topics /\ InLog(Reseeded(t))
  BY <1>3, <1>4, <1>5 DEF Reseeded, Topics, InLog
<1>7. Opened(t, tl) \in Topics /\ InLog(Opened(t, tl))
  BY DEF Opened, Topics, InLog, Phases, Tails
<1> QED
  BY <1>3, <1>6, <1>7

\* The two streams a subscriber can open.
LEMMA StreamFacts ==
  ASSUME TypeOK, NEW after \in Nat, after <= Len(log)
  PROVE  /\ From(after) \in Tails /\ From(after).next <= From(after).seen
         /\ From(after).seen <= Len(log)
         /\ Retained \in Tails /\ Retained.next <= Retained.seen
         /\ Retained.seen <= Len(log)
  BY DEF TypeOK, From, Retained, NoTail, Tails

-----------------------------------------------------------------------------
(* Types.                                                                  *)

\* A step of a process that changes its topic and its checkpoints.
LEMMA TopicStep ==
  ASSUME TypeOK, NEW p \in Procs, NEW t \in Topics, InLog(t),
         topic' = [topic EXCEPT ![p] = t],
         UNCHANGED <<redis, store, sessions, made>>,
         tasks' = tasks \/ (tasks' \subseteq Tasks /\ \A k \in tasks' : k.seq <= Len(log)),
         partial' \in BOOLEAN, breaks' \in 0 .. MaxBreaks
  PROVE  TypeOK'
<1>1. topic' \in [Procs -> Topics] /\ log' = log
  BY DEF TypeOK, redis
<1>2. \A q \in Procs : InLog(topic[q])'
  BY <1>1 DEF TypeOK, InLog
<1>3. tasks' \subseteq Tasks /\ \A k \in tasks' : k.seq <= Len(log)
  BY DEF TypeOK
<1> QED
  BY <1>1, <1>2, <1>3 DEF TypeOK, redis, sessions

\* The apply loop keeps the types.
LEMMA LoopType == ASSUME TypeOK, NEW p \in Procs, Loop(p) PROVE TypeOK'
<1> USE CollabAssumption
<1>0. topic[p] \in Topics /\ InLog(topic[p]) /\ partial \in BOOLEAN /\ breaks \in 0 .. MaxBreaks
      /\ Len(log) \in Nat
  BY DEF TypeOK
<1>1. ASSUME LoadSnapshot(p) PROVE TypeOK'
  <2>1. Seeded(topic[p]) \in Topics /\ InLog(Seeded(topic[p]))
    BY <1>0, LoopFacts, StreamFacts
  <2>2. Reseeded(topic[p]) \in Topics /\ InLog(Reseeded(topic[p]))
    BY <1>0, LoopFacts, StreamFacts
  <2>3. CASE topic' = [topic EXCEPT ![p] = Seeded(topic[p])]
    BY <1>0, <1>1, <2>1, <2>3, TopicStep DEF LoadSnapshot
  <2>4. CASE topic' = [topic EXCEPT ![p] = Reseeded(topic[p])]
    BY <1>0, <1>1, <2>2, <2>4, TopicStep DEF LoadSnapshot
  <2> QED
    BY <1>1, <2>3, <2>4 DEF LoadSnapshot
<1>2. ASSUME Subscribe(p) PROVE TypeOK'
  <2> DEFINE t == topic[p]
             tl == IF t.whole THEN Retained ELSE From(t.after)
             o  == [Opened(t, tl) EXCEPT !.folded = LargerOf(t.folded, t.after),
                                         !.last = LargerOf(t.last, t.after)]
  <2>1. t.after \in Nat /\ t.after <= Len(log) /\ t.folded \in Nat /\ t.last \in Nat
        /\ t.folded <= Len(log)
    BY <1>0, TopicFacts DEF InLog
  <2>2. tl \in Tails /\ tl.next <= tl.seen /\ tl.seen <= Len(log)
    BY <2>1, StreamFacts
  <2>3. Opened(t, tl) \in Topics /\ InLog(Opened(t, tl))
    BY <1>0, <2>2, LoopFacts
  <2>4. o \in Topics /\ InLog(o)
    BY <2>1, <2>3, LargerFacts DEF Topics, InLog
  <2>5. [t EXCEPT !.whole = TRUE] \in Topics /\ InLog([t EXCEPT !.whole = TRUE])
    BY <1>0 DEF Topics, InLog
  <2>6. CASE topic' = [topic EXCEPT ![p] = [t EXCEPT !.whole = TRUE]] /\ UNCHANGED partial
    BY <1>0, <1>2, <2>5, <2>6, TopicStep DEF Subscribe
  <2>7. CASE topic' = [topic EXCEPT ![p] = o] /\ partial' = (partial \/ (t.whole /\ base > 0))
    <3>1. partial' \in BOOLEAN
      BY <2>7
    <3> QED
      BY <1>0, <1>2, <2>4, <2>7, <3>1, TopicStep DEF Subscribe
  <2>8. Opened(t, tl).folded = t.folded /\ Opened(t, tl).last = t.last
    BY DEF Opened, Topics
  <2> QED
    BY <1>0, <1>2, <2>3, <2>6, <2>7, <2>8 DEF Subscribe, Topics
<1>3. ASSUME Fold(p) PROVE TypeOK'
  <2> DEFINE t      == topic[p]
             doc    == t.doc \cup log[t.next + 1]
             folded == LargerOf(t.folded, t.next + 1)
             due    == t.count + 1 >= CheckpointEvery
             save   == due /\ SlotFree(p) /\ folded > t.last
             count  == IF due THEN 0 ELSE t.count + 1
             last   == IF save THEN folded ELSE t.last
             o      == [t EXCEPT !.doc = doc, !.folded = folded, !.next = t.next + 1,
                                 !.count = count, !.last = last]
             k      == Checkpoint(p, TRUE, doc, folded)
  <2>1. /\ t.next \in Nat /\ t.next + 1 \in Nat /\ t.next + 1 \in 1 .. Len(log) /\ t.next + 1 <= t.seen
        /\ t.folded \in Nat /\ t.folded <= Len(log) /\ t.count \in Nat /\ t.last \in Nat
        /\ t.seen <= Len(log) /\ t.after <= Len(log) /\ t.doc \in Docs
    <3>1. t.next < t.seen
      BY <1>3 DEF Fold
    <3>2. /\ t.next \in Nat /\ t.seen \in Nat /\ t.folded \in Nat /\ t.count \in Nat
          /\ t.last \in Nat /\ t.doc \in Docs
      BY <1>0, TopicFacts
    <3>3. t.seen <= Len(log) /\ t.folded <= Len(log) /\ t.after <= Len(log)
      BY <1>0 DEF InLog
    <3> QED
      BY <1>0, <3>1, <3>2, <3>3
  <2>2. doc \in Docs
    <3>1. log[t.next + 1] \in Docs
      BY <2>1 DEF TypeOK
    <3> QED
      BY <2>1, <3>1 DEF Docs
  <2>3. folded \in Nat /\ folded <= Len(log)
    BY <2>1 DEF LargerOf
  <2>4. o \in Topics /\ InLog(o)
    <3>1. count \in Nat /\ last \in Nat
      BY <2>1, <2>3
    <3> HIDE DEF doc, folded, count, last
    <3>2. o \in Topics
      BY <1>0, <2>1, <2>2, <2>3, <3>1, AdvancedTopic
    <3>3. o.next = t.next + 1 /\ o.seen = t.seen /\ o.folded = folded /\ o.after = t.after
      BY <1>0 DEF Topics
    <3> QED
      BY <2>1, <2>3, <3>2, <3>3 DEF InLog
  <2>5. k \in Tasks /\ k.seq <= Len(log)
    BY <2>2, <2>3 DEF Checkpoint, Tasks
  <2>6. tasks' = tasks \/ tasks' = tasks \cup {k}
    BY <1>3 DEF Fold
  <2>7. tasks' = tasks \/ (tasks' \subseteq Tasks /\ \A m \in tasks' : m.seq <= Len(log))
    BY <2>5, <2>6 DEF TypeOK
  <2>8. topic' = [topic EXCEPT ![p] = o] /\ UNCHANGED <<redis, store, sessions, made>>
    BY <1>3 DEF Fold
  <2>9. partial' \in BOOLEAN /\ breaks' \in 0 .. MaxBreaks
    BY <1>0, <1>3 DEF Fold
  <2> HIDE DEF o
  <2> QED
    BY <2>4, <2>7, <2>8, <2>9, TopicStep
<1>4. ASSUME Fetch(p) PROVE TypeOK'
  <2> DEFINE t == topic[p]
  <2>1. [t EXCEPT !.phase = "retry"] \in Topics /\ InLog([t EXCEPT !.phase = "retry"])
    BY <1>0 DEF Topics, InLog, Phases
  <2>2. [t EXCEPT !.seen = Len(log)] \in Topics /\ InLog([t EXCEPT !.seen = Len(log)])
    <3>1. /\ t.next \in Nat /\ t.seen \in Nat /\ t.next <= t.seen /\ t.seen <= Len(log)
          /\ t.folded <= Len(log) /\ t.after <= Len(log)
      BY <1>0, TopicFacts DEF InLog
    <3>2. [t EXCEPT !.seen = Len(log)] \in Topics
      BY <1>0 DEF Topics
    <3>3. /\ [t EXCEPT !.seen = Len(log)].next = t.next
          /\ [t EXCEPT !.seen = Len(log)].seen = Len(log)
          /\ [t EXCEPT !.seen = Len(log)].folded = t.folded
          /\ [t EXCEPT !.seen = Len(log)].after = t.after
      BY <1>0 DEF Topics
    <3> QED
      BY <1>0, <3>1, <3>2, <3>3 DEF InLog
  <2> QED
    BY <1>0, <1>4, <2>1, <2>2, TopicStep DEF Fetch
<1>5. ASSUME Retry(p) PROVE TypeOK'
  <2> DEFINE t == topic[p]
  <2>1. [t EXCEPT !.phase = "reload"] \in Topics /\ InLog([t EXCEPT !.phase = "reload"])
    BY <1>0 DEF Topics, InLog, Phases
  <2>2. t.folded \in Nat /\ t.folded <= Len(log)
    BY <1>0, TopicFacts DEF InLog
  <2>3. Opened(t, From(t.folded)) \in Topics /\ InLog(Opened(t, From(t.folded)))
    BY <1>0, <2>2, StreamFacts, LoopFacts
  <2> QED
    BY <1>0, <1>5, <2>1, <2>3, TopicStep DEF Retry
<1> QED
  BY <1>1, <1>2, <1>3, <1>4, <1>5 DEF Loop

\* The failures of the loop's remote calls keep the types.
LEMMA LoopFailsType == ASSUME TypeOK, NEW p \in Procs, LoopFails(p) PROVE TypeOK'
<1> USE CollabAssumption
<1> DEFINE t == topic[p]
<1>1. t \in Topics /\ InLog(t) /\ partial \in BOOLEAN /\ breaks \in 0 .. MaxBreaks /\ Len(log) \in Nat
  BY DEF TypeOK
<1>2. breaks' \in 0 .. MaxBreaks /\ partial' \in BOOLEAN
  BY <1>1 DEF LoopFails, LoadFails, SubscribeFails, DoorbellLost, RetryFails, Fails, Break
<1>3. \A ph \in Phases : [t EXCEPT !.phase = ph] \in Topics /\ InLog([t EXCEPT !.phase = ph])
  BY <1>1 DEF Topics, InLog
<1>4. [t EXCEPT !.phase = "resume", !.after = 0, !.whole = TRUE] \in Topics
      /\ InLog([t EXCEPT !.phase = "resume", !.after = 0, !.whole = TRUE])
  <2> DEFINE u == [t EXCEPT !.phase = "resume", !.after = 0, !.whole = TRUE]
  <2>1. u \in Topics
    BY <1>1 DEF Topics, Phases
  <2>2. u.next = t.next /\ u.seen = t.seen /\ u.folded = t.folded /\ u.after = 0
    BY <1>1 DEF Topics
  <2> QED
    BY <1>1, <2>1, <2>2 DEF InLog
<1>5. CASE LoadFails(p)
  BY <1>2, <1>4, <1>5, TopicStep DEF LoadFails
<1>6. CASE SubscribeFails(p)
  BY <1>2, <1>3, <1>6, TopicStep DEF SubscribeFails, Phases
<1>7. CASE DoorbellLost(p)
  BY <1>2, <1>3, <1>7, TopicStep DEF DoorbellLost, Phases
<1>8. CASE RetryFails(p)
  BY <1>2, <1>3, <1>8, TopicStep DEF RetryFails, Phases
<1> QED
  BY <1>5, <1>6, <1>7, <1>8 DEF LoopFails

\* A step of the store, the trim and the checkpoints.
LEMMA StoreStep ==
  ASSUME TypeOK, UNCHANGED <<log, topic, sessions, made, partial>>,
         base' \in 0 .. Len(log), store' \in Snapshots, store'.seq <= Len(log),
         tasks' \subseteq Tasks, \A k \in tasks' : k.seq <= Len(log),
         breaks' \in 0 .. MaxBreaks
  PROVE  TypeOK'
  BY DEF TypeOK, sessions, InLog

\* Saving and trimming keep the types.
LEMMA TaskType ==
  ASSUME TypeOK, NEW t \in tasks, SaveSnapshot(t) \/ SaveFails(t) \/ TrimAfter(t)
  PROVE  TypeOK'
<1> USE CollabAssumption
<1> DEFINE u == [t EXCEPT !.step = "trimming"]
<1>1. /\ t \in Tasks /\ t.seq <= Len(log) /\ breaks \in 0 .. MaxBreaks
      /\ base \in 0 .. Len(log) /\ store \in Snapshots /\ store.seq <= Len(log)
      /\ tasks \subseteq Tasks /\ \A k \in tasks : k.seq <= Len(log)
  BY DEF TypeOK
<1>2. t.seq \in Nat /\ Len(log) \in Nat /\ base \in Nat /\ u \in Tasks /\ u.seq = t.seq
  <2>1. Len(log) \in Nat
    BY DEF TypeOK
  <2> QED
    BY <1>1, <2>1 DEF Tasks
<1>3. Saved(t) \in Snapshots /\ Saved(t).seq <= Len(log)
  <2>1. Saved(t) \in Snapshots /\ (Saved(t).seq = store.seq \/ Saved(t).seq = t.seq)
    BY <1>1, SavedFacts
  <2> QED
    BY <1>1, <2>1
<1>4. CASE SaveSnapshot(t)
  <2>1. tasks' \subseteq Tasks /\ \A k \in tasks' : k.seq <= Len(log)
    BY <1>1, <1>2, <1>4 DEF SaveSnapshot
  <2> QED
    BY <1>1, <1>3, <1>4, <2>1, StoreStep DEF SaveSnapshot, redis
<1>5. CASE SaveFails(t)
  <2>1. tasks' \subseteq Tasks /\ \A k \in tasks' : k.seq <= Len(log)
    BY <1>1, <1>5 DEF SaveFails
  <2>2. store' \in Snapshots /\ store'.seq <= Len(log)
    BY <1>1, <1>3, <1>5 DEF SaveFails
  <2>3. breaks' \in 0 .. MaxBreaks
    BY <1>1, <1>5 DEF SaveFails, Fails, Break
  <2> QED
    BY <1>1, <1>5, <2>1, <2>2, <2>3, StoreStep DEF SaveFails, redis
<1>6. CASE TrimAfter(t)
  <2>1. tasks' \subseteq Tasks /\ \A k \in tasks' : k.seq <= Len(log)
    BY <1>1, <1>6 DEF TrimAfter
  <2>2. base' \in 0 .. Len(log)
    BY <1>1, <1>2, <1>6 DEF TrimAfter, LargerOf
  <2> QED
    BY <1>1, <1>6, <2>1, <2>2, StoreStep DEF TrimAfter
<1> QED
  BY <1>4, <1>5, <1>6

\* A step of a session that leaves the log and the processes alone.
LEMMA SessionStep ==
  ASSUME TypeOK, UNCHANGED <<redis, store, topic, tasks, partial>>,
         made' \subseteq Edits, breaks' \in 0 .. MaxBreaks,
         link' \in [Clients -> Links],
         host' \in [Clients -> Procs \cup {Nowhere}],
         mem' \in [Clients -> Docs],
         wire' \in [Clients -> Seq(Docs)],
         pub' \in [Clients -> {NoUpdate} \cup {<<d>> : d \in Docs}],
         tail' \in [Clients -> Tails], \A c \in Clients : tail'[c].seen <= Len(log)
  PROVE  TypeOK'
  BY DEF TypeOK, redis, InLog

\* The update a session holds between applying and publishing it.
LEMMA PubFacts ==
  ASSUME TypeOK, NEW c \in Clients, pub[c] # NoUpdate
  PROVE  pub[c][1] \in Docs
<1>1. PICK d \in Docs : pub[c] = <<d>>
  BY DEF TypeOK
<1> QED
  BY <1>1

\* What an editor is sent out of the log.
LEMMA EntriesFacts ==
  ASSUME TypeOK, NEW from \in Nat, NEW to \in Nat, to <= Len(log)
  PROVE  Entries(from, to) \in Docs
<1>1. \A i \in (from + 1) .. to : log[i] \subseteq Edits
  BY DEF TypeOK, Docs
<1> QED
  BY <1>1 DEF Entries, Docs

\* What TypeOK says of sessions.
LEMMA SessionTypes ==
  ASSUME TypeOK
  PROVE  /\ made \subseteq Edits /\ breaks \in 0 .. MaxBreaks
         /\ link \in [Clients -> Links]
         /\ host \in [Clients -> Procs \cup {Nowhere}]
         /\ mem \in [Clients -> Docs]
         /\ wire \in [Clients -> Seq(Docs)]
         /\ pub \in [Clients -> {NoUpdate} \cup {<<d>> : d \in Docs}]
         /\ tail \in [Clients -> Tails] /\ \A c \in Clients : tail[c].seen <= Len(log)
         /\ log \in Seq(Docs) /\ Len(log) \in Nat
         /\ topic \in [Procs -> Topics]
  BY DEF TypeOK

\* An editor that has a session is connected to a process.
Hosted == \A c \in Clients : link[c] # "off" \/ wire[c] # <<>> => host[c] \in Procs

\* The hello keeps the types.
LEMMA GreetType ==
  ASSUME TypeOK, Hosted, NEW c \in Clients, Greet(c) PROVE TypeOK'
<1> DEFINE doc == topic[host[c]].doc
           got == Entries(tail[c].next, tail[c].seen)
<1> USE SessionTypes
<1>1. host[c] \in Procs /\ topic[host[c]] \in Topics
  BY DEF Greet, Hosted
<1>2. doc \in Docs /\ mem[c] \in Docs /\ mem[c] \ doc \in Docs
  BY <1>1, TopicFacts DEF Docs
<1>3. got \in Docs
  <2>1. tail[c].next \in Nat /\ tail[c].seen \in Nat /\ tail[c].seen <= Len(log)
    BY DEF Tails
  <2> QED
    BY <2>1, EntriesFacts
<1>7. link' \in [Clients -> Links]
  BY DEF Greet, Links
<1>4. mem' \in [Clients -> Docs]
  BY <1>2, <1>3 DEF Greet, Docs
<1>5. wire' \in [Clients -> Seq(Docs)]
  <2>1. Append(wire[c], mem[c] \ doc) \in Seq(Docs)
    BY <1>2
  <2> QED
    BY <2>1 DEF Greet
<1>6. tail' \in [Clients -> Tails] /\ \A d \in Clients : tail'[d].seen <= Len(log)
  BY DEF Greet, Tails
<1> QED
  BY <1>4, <1>5, <1>6, <1>7, SessionStep DEF Greet, redis

\* An edit keeps the types.
LEMMA EditType ==
  ASSUME TypeOK, NEW c \in Clients, NEW e \in Edits, Edit(c, e) PROVE TypeOK'
<1>1. mem[c] \cup {e} \in Docs /\ {e} \in Docs
  BY SessionTypes DEF Docs
<1>2. Append(wire[c], {e}) \in Seq(Docs)
  BY <1>1, SessionTypes
<1>3. mem' \in [Clients -> Docs] /\ wire' \in [Clients -> Seq(Docs)]
  BY <1>1, <1>2, SessionTypes DEF Edit
<1> QED
  BY <1>3, SessionTypes, SessionStep DEF Edit, redis

\* Applying an editor's update keeps the types.
LEMMA HandleType ==
  ASSUME TypeOK, Hosted, NEW c \in Clients, Handle(c) PROVE TypeOK'
<1> DEFINE p == host[c]
           d == Head(wire[c])
           t == [topic[p] EXCEPT !.doc = topic[p].doc \cup d]
<1>1. wire[c] \in Seq(Docs) /\ wire[c] # <<>> /\ p \in Procs /\ topic[p] \in Topics
  BY SessionTypes DEF Handle, Hosted
<1>2. d \in Docs /\ Tail(wire[c]) \in Seq(Docs)
  BY <1>1, WireFacts
<1>3. topic[p].doc \cup d \in Docs
  BY <1>1, <1>2, TopicFacts DEF Docs
<1>4. t \in Topics /\ t.next = topic[p].next /\ t.seen = topic[p].seen
      /\ t.folded = topic[p].folded /\ t.after = topic[p].after
  BY <1>1, <1>3 DEF Topics
<1>5. topic' = [topic EXCEPT ![p] = t] /\ log' = log
  BY <1>1 DEF Handle, redis
<1>6. topic' \in [Procs -> Topics]
  BY <1>4, <1>5, SessionTypes
<1>7. \A q \in Procs : InLog(topic[q])'
  BY <1>4, <1>5, SessionTypes DEF TypeOK, InLog
<1>8. wire' \in [Clients -> Seq(Docs)] /\ pub' \in [Clients -> {NoUpdate} \cup {<<u>> : u \in Docs}]
  BY <1>2, SessionTypes DEF Handle
<1> HIDE DEF t
<1> QED
  BY <1>5, <1>6, <1>7, <1>8 DEF TypeOK, Handle, redis

\* Publishing keeps the types: no cursor is ahead of a longer log.
LEMMA PublishType ==
  ASSUME TypeOK, NEW c \in Clients, Publish(c) PROVE TypeOK'
<1>1. pub[c][1] \in Docs
  BY PubFacts DEF Publish
<1>2. log' \in Seq(Docs) /\ Len(log') = Len(log) + 1 /\ Len(log) \in Nat
  BY <1>1, LogFacts, SessionTypes DEF Publish
<1>3. \A q \in Procs : InLog(topic[q])'
  <2> SUFFICES ASSUME NEW q \in Procs PROVE InLog(topic[q])'
    OBVIOUS
  <2>1. topic[q] \in Topics /\ InLog(topic[q]) /\ topic' = topic
    BY DEF TypeOK, Publish
  <2>2. topic[q].seen \in Nat /\ topic[q].folded \in Nat /\ topic[q].after \in Nat
    BY <2>1, TopicFacts
  <2> QED
    BY <1>2, <2>1, <2>2 DEF InLog
<1>4. base' \in 0 .. Len(log') /\ store' \in Snapshots /\ store'.seq <= Len(log')
  BY <1>2 DEF TypeOK, Publish, Snapshots
<1>5. tasks' \subseteq Tasks /\ \A t \in tasks' : t.seq <= Len(log')
  BY <1>2 DEF TypeOK, Publish, Tasks
<1>6. tail' \in [Clients -> Tails] /\ \A d \in Clients : tail'[d].seen <= Len(log')
  BY <1>2, SessionTypes DEF Publish, Tails
<1>7. pub' \in [Clients -> {NoUpdate} \cup {<<u>> : u \in Docs}]
  BY SessionTypes DEF Publish
<1> QED
  BY <1>2, <1>3, <1>4, <1>5, <1>6, <1>7 DEF TypeOK, Publish

\* What the pump delivers keeps the types.
LEMMA ReceiveType ==
  ASSUME TypeOK, NEW c \in Clients, Receive(c) PROVE TypeOK'
<1> USE SessionTypes
<1> DEFINE seen == tail[c].seen
<1>1. seen \in Nat /\ seen <= Len(log)
  BY DEF Tails
<1>2. mem[c] \cup Entries(seen, Len(log)) \in Docs
  <2>1. Entries(seen, Len(log)) \in Docs
    BY <1>1, EntriesFacts
  <2> QED
    BY <2>1 DEF Docs
<1>3. [next |-> Len(log), seen |-> Len(log)] \in Tails
  BY DEF Tails
<1>4. CASE link' = [link EXCEPT ![c] = "deaf"] /\ UNCHANGED <<mem, tail>>
  BY <1>4, SessionStep DEF Receive, redis, Links
<1>5. CASE /\ mem' = [mem EXCEPT ![c] = @ \cup Entries(seen, Len(log))]
           /\ tail' = [tail EXCEPT ![c] = [next |-> Len(log), seen |-> Len(log)]]
           /\ UNCHANGED link
  <2>1. mem' \in [Clients -> Docs]
    BY <1>2, <1>5
  <2>2. tail' \in [Clients -> Tails] /\ \A d \in Clients : tail'[d].seen <= Len(log)
    BY <1>3, <1>5
  <2> QED
    BY <1>5, <2>1, <2>2, SessionStep DEF Receive, redis
<1> QED
  BY <1>4, <1>5 DEF Receive

\* A failed publish keeps the types.
LEMMA PublishFailsType ==
  ASSUME TypeOK, NEW c \in Clients, PublishFails(c) PROVE TypeOK'
<1>1. breaks' \in 0 .. MaxBreaks
  BY CollabAssumption, SessionTypes DEF PublishFails, Fails, Break
<1>2. pub' \in [Clients -> {NoUpdate} \cup {<<u>> : u \in Docs}]
  BY SessionTypes DEF PublishFails
<1> QED
  BY <1>1, <1>2, SessionTypes, SessionStep DEF PublishFails, redis

\* Opening a topic keeps the types.
LEMMA JoinType ==
  ASSUME TypeOK, NEW c \in Clients, NEW p \in Procs, Join(c, p) PROVE TypeOK'
<1> USE SessionTypes
<1>1. Retained \in Tails /\ Retained.seen <= Len(log)
  <2>1. 0 \in Nat /\ 0 <= Len(log)
    OBVIOUS
  <2> QED
    BY <2>1, StreamFacts
<1>2. [topic[p] EXCEPT !.phase = "load"] \in Topics
      /\ (InLog(topic[p]) => InLog([topic[p] EXCEPT !.phase = "load"]))
  BY DEF Topics, InLog, Phases
<1>3. topic' \in [Procs -> Topics]
  BY <1>2 DEF Join
<1>4. \A q \in Procs : InLog(topic[q])'
  BY <1>2 DEF Join, TypeOK, InLog, redis
<1>5. tail' \in [Clients -> Tails] /\ \A d \in Clients : tail'[d].seen <= Len(log)
  BY <1>1 DEF Join
<1>6. link' \in [Clients -> Links] /\ host' \in [Clients -> Procs \cup {Nowhere}]
  BY DEF Join, Links
<1> QED
  BY <1>3, <1>4, <1>5, <1>6 DEF TypeOK, Join, redis

\* A subscription that fails and a pump that ends keep the types.
LEMMA StrandedType ==
  ASSUME TypeOK, NEW c \in Clients, PumpFails(c) \/ \E p \in Procs : JoinFails(c, p)
  PROVE  TypeOK'
<1>1. breaks' \in 0 .. MaxBreaks
  BY CollabAssumption, SessionTypes DEF PumpFails, JoinFails, Fails, Break
<1>2. /\ link' \in [Clients -> Links] /\ host' \in [Clients -> Procs \cup {Nowhere}]
      /\ UNCHANGED <<redis, store, topic, tasks, mem, wire, pub, tail, made, partial>>
  BY SessionTypes DEF PumpFails, JoinFails, Links
<1> QED
  BY <1>1, <1>2, SessionTypes, SessionStep

\* What a closed topic leaves behind.
LEMMA IdleFacts ==
  ASSUME TypeOK, NEW p \in Procs, GoIdle(p)
  PROVE  /\ topic' = [topic EXCEPT ![p] = NoTopic]
         /\ topic' \in [Procs -> Topics]
         /\ \A k \in tasks' : \/ k = Checkpoint(p, FALSE, topic[p].doc, topic[p].folded)
                              \/ \E t \in tasks : k.doc = t.doc /\ k.seq = t.seq /\ k.step = t.step
         /\ tasks' \subseteq Tasks
         /\ \A k \in tasks' : k.seq <= Len(log)
<1>1. topic' = [topic EXCEPT ![p] = NoTopic] /\ topic' \in [Procs -> Topics]
  BY NoTopicFacts, SessionTypes DEF GoIdle
<1>2. ASSUME NEW t \in tasks
      PROVE  LET k == [t EXCEPT !.slot = IF t.proc = p THEN FALSE ELSE @]
             IN k \in Tasks /\ k.doc = t.doc /\ k.seq = t.seq /\ k.step = t.step
  BY DEF TypeOK, Tasks
<1>3. topic[p] \in Topics /\ InLog(topic[p])
  BY DEF TypeOK
<1>4. /\ Checkpoint(p, FALSE, topic[p].doc, topic[p].folded) \in Tasks
      /\ Checkpoint(p, FALSE, topic[p].doc, topic[p].folded).seq <= Len(log)
  BY <1>3, TopicFacts DEF Checkpoint, Tasks, InLog
<1>5. \A t \in tasks : t.seq <= Len(log)
  BY DEF TypeOK
<1>6. ASSUME NEW k \in tasks'
      PROVE  /\ k \in Tasks /\ k.seq <= Len(log)
             /\ \/ k = Checkpoint(p, FALSE, topic[p].doc, topic[p].folded)
                \/ \E t \in tasks : k.doc = t.doc /\ k.seq = t.seq /\ k.step = t.step
  <2>1. CASE k = Checkpoint(p, FALSE, topic[p].doc, topic[p].folded)
    BY <1>4, <2>1
  <2>2. CASE \E t \in tasks : k = [t EXCEPT !.slot = IF t.proc = p THEN FALSE ELSE @]
    BY <1>2, <1>5, <2>2
  <2> QED
    BY <2>1, <2>2 DEF GoIdle
<1> QED
  BY <1>1, <1>6

\* Sessions that end.
LEMMA CutOffFacts ==
  ASSUME TypeOK, Hosted, NEW gone \in SUBSET Clients, CutOff(gone)
  PROVE  /\ link' \in [Clients -> Links]
         /\ host' \in [Clients -> Procs \cup {Nowhere}]
         /\ wire' \in [Clients -> Seq(Docs)]
         /\ pub' \in [Clients -> {NoUpdate} \cup {<<d>> : d \in Docs}]
         /\ tail' \in [Clients -> Tails] /\ \A c \in Clients : tail'[c].seen <= Len(log)
         /\ Hosted'
<1> USE SessionTypes
<1>1. link' \in [Clients -> Links]
  BY DEF CutOff, Links
<1>2. host' \in [Clients -> Procs \cup {Nowhere}]
  BY DEF CutOff
<1>3. wire' \in [Clients -> Seq(Docs)]
  BY DEF CutOff
<1>4. pub' \in [Clients -> {NoUpdate} \cup {<<d>> : d \in Docs}]
  BY DEF CutOff
<1>5. tail' \in [Clients -> Tails] /\ \A c \in Clients : tail'[c].seen <= Len(log)
  BY NoTopicFacts DEF CutOff, NoTail
<1>6. Hosted'
  BY DEF CutOff, Hosted
<1> QED
  BY <1>1, <1>2, <1>3, <1>4, <1>5, <1>6

\* The end of a session, and the idle flush after the last one, keep the types.
LEMMA LeaveType ==
  ASSUME TypeOK, Hosted, NEW c \in Clients, Leave(c) PROVE TypeOK'
<1>1. host[c] \in Procs /\ CutOff({c}) /\ UNCHANGED <<redis, store, made, partial>>
  BY DEF Leave, Hosted
<1>2. /\ topic' \in [Procs -> Topics] /\ \A p \in Procs : InLog(topic[p])'
      /\ tasks' \subseteq Tasks /\ \A k \in tasks' : k.seq <= Len(log)
  <2>1. CASE GoIdle(host[c])
    <3>1. InLog(NoTopic)
      BY SessionTypes DEF NoTopic, InLog
    <3>2. topic' = [topic EXCEPT ![host[c]] = NoTopic] /\ log' = log
      BY <1>1, <2>1, IdleFacts DEF redis
    <3> QED
      BY <1>1, <2>1, <3>1, <3>2, IdleFacts DEF TypeOK, InLog
  <2>2. CASE UNCHANGED <<topic, tasks>>
    BY <1>1, <2>2 DEF TypeOK, redis, InLog
  <2> QED
    BY <2>1, <2>2 DEF Leave
<1>3. mem' \in [Clients -> Docs] /\ breaks' \in 0 .. MaxBreaks
  BY CollabAssumption, SessionTypes DEF Leave, Break, Docs
<1> QED
  BY <1>1, <1>2, <1>3, CutOffFacts DEF TypeOK, redis

\* The death of a process keeps the types.
LEMMA CrashType ==
  ASSUME TypeOK, Hosted, NEW p \in Procs, Crash(p) PROVE TypeOK'
<1>1. CutOff(Connected(p)) /\ Connected(p) \in SUBSET Clients /\ UNCHANGED <<redis, store, mem, made, partial>>
  BY DEF Crash, Connected
<1>2. topic' \in [Procs -> Topics]
  BY NoTopicFacts, SessionTypes DEF Crash
<1>3. \A q \in Procs : InLog(topic[q])'
  BY SessionTypes DEF Crash, TypeOK, InLog, NoTopic, redis
<1>4. tasks' \subseteq Tasks /\ \A k \in tasks' : k.seq <= Len(log)
  BY DEF Crash, TypeOK
<1>5. breaks' \in 0 .. MaxBreaks
  BY CollabAssumption, SessionTypes DEF Crash, Break
<1> QED
  BY <1>1, <1>2, <1>3, <1>4, <1>5, CutOffFacts DEF TypeOK, redis

\* Which action a step is.
LEMMA StepCases ==
  ASSUME Next
  PROVE  \/ \E p \in Procs : Loop(p) \/ LoopFails(p)
         \/ \E p \in Procs : Crash(p)
         \/ \E t \in tasks : SaveSnapshot(t) \/ SaveFails(t) \/ TrimAfter(t)
         \/ \E c \in Clients : Greet(c) \/ Handle(c) \/ Publish(c) \/ Receive(c)
         \/ \E c \in Clients : PublishFails(c) \/ PumpFails(c) \/ Leave(c)
         \/ \E c \in Clients, p \in Procs : Join(c, p) \/ JoinFails(c, p)
         \/ \E c \in Clients, e \in Edits : Edit(c, e)
<1>1. CASE \E p \in Procs : Loop(p) \/ LoopFails(p) \/ Crash(p)
  BY <1>1
<1>2. CASE \E c \in Clients : Session(c) \/ PublishFails(c) \/ PumpFails(c) \/ Leave(c)
  BY <1>2 DEF Session
<1> QED
  BY <1>1, <1>2 DEF Next

\* Sessions and their hosts: what a loop or a task does leaves them alone.
LEMMA HostedStep ==
  ASSUME TypeOK, Hosted, [Next]_vars PROVE Hosted'
<1> USE SessionTypes
<1>1. ASSUME UNCHANGED sessions PROVE Hosted'
  BY <1>1 DEF sessions, Hosted
<1>2. ASSUME NEW p \in Procs, Loop(p) \/ LoopFails(p) PROVE Hosted'
  BY <1>1, <1>2 DEF Loop, LoadSnapshot, Subscribe, Fold, Fetch, Retry,
                    LoopFails, LoadFails, SubscribeFails, DoorbellLost, RetryFails
<1>3. ASSUME NEW t \in tasks, SaveSnapshot(t) \/ SaveFails(t) \/ TrimAfter(t) PROVE Hosted'
  BY <1>1, <1>3 DEF SaveSnapshot, SaveFails, TrimAfter
<1>4. ASSUME NEW p \in Procs, Crash(p) PROVE Hosted'
  <2>1. Connected(p) \in SUBSET Clients /\ CutOff(Connected(p))
    BY <1>4 DEF Crash, Connected
  <2> QED
    BY <2>1, CutOffFacts
<1>5. ASSUME NEW c \in Clients, Leave(c) PROVE Hosted'
  <2>1. {c} \in SUBSET Clients /\ CutOff({c})
    BY <1>5 DEF Leave
  <2> QED
    BY <2>1, CutOffFacts
<1>6. ASSUME NEW c \in Clients, Greet(c) PROVE Hosted'
  BY <1>6 DEF Greet, Hosted
<1>7. ASSUME NEW c \in Clients, NEW e \in Edits, Edit(c, e) PROVE Hosted'
  BY <1>7 DEF Edit, Hosted
<1>8. ASSUME NEW c \in Clients, Handle(c) \/ Publish(c) \/ PublishFails(c) PROVE Hosted'
  <2>1. link' = link /\ host' = host /\ \A d \in Clients : wire[d] = <<>> => wire'[d] = <<>>
    BY <1>8 DEF Handle, Publish, PublishFails
  <2> QED
    BY <2>1 DEF Hosted
<1>9. ASSUME NEW c \in Clients, Receive(c) PROVE Hosted'
  BY <1>9 DEF Receive, Hosted
<1>10. ASSUME NEW c \in Clients, NEW p \in Procs, Join(c, p) PROVE Hosted'
  BY <1>10 DEF Join, Hosted
<1>11. ASSUME NEW c \in Clients, PumpFails(c) \/ \E p \in Procs : JoinFails(c, p)
       PROVE  Hosted'
  BY <1>11 DEF PumpFails, JoinFails, Hosted
<1>12. CASE UNCHANGED vars
  BY <1>1, <1>12 DEF vars, sessions
<1> QED
  BY <1>2, <1>3, <1>4, <1>5, <1>6, <1>7, <1>8, <1>9, <1>10, <1>11, <1>12, StepCases

\* Every step keeps the types.
LEMMA TypeStep ==
  ASSUME TypeOK, Hosted, [Next]_vars PROVE TypeOK'
<1>1. CASE UNCHANGED vars
  BY <1>1 DEF vars, redis, sessions, TypeOK, InLog
<1>2. CASE Next
  BY <1>2, StepCases, LoopType, LoopFailsType, CrashType, TaskType, GreetType, EditType,
     HandleType, PublishType, ReceiveType, PublishFailsType, StrandedType, LeaveType, JoinType
<1> QED
  BY <1>1, <1>2

\* The initial state.
LEMMA TypeInit == Init => TypeOK /\ Hosted
<1> SUFFICES ASSUME Init PROVE TypeOK /\ Hosted
  OBVIOUS
<1>1. store \in Snapshots /\ {} \in Docs
  BY DEF Init, Snapshots, Docs
<1>2. topic \in [Procs -> Topics] /\ tail \in [Clients -> Tails]
  BY NoTopicFacts DEF Init
<1>3. log \in Seq(Docs) /\ Len(log) = 0
  BY DEF Init
<1>4. \A p \in Procs : InLog(topic[p])
  BY <1>3 DEF Init, InLog, NoTopic
<1>5. wire \in [Clients -> Seq(Docs)] /\ mem \in [Clients -> Docs]
  BY <1>1 DEF Init
<1>6. /\ store.seq <= Len(log) /\ base \in 0 .. Len(log) /\ breaks \in 0 .. MaxBreaks
      /\ tasks \subseteq Tasks /\ \A t \in tasks : t.seq <= Len(log)
      /\ made \subseteq Edits /\ partial \in BOOLEAN
  <2>1. store.seq = 0 /\ base = 0 /\ tasks = {} /\ made = {} /\ partial = FALSE
    BY DEF Init
  <2>2. breaks \in 0 .. MaxBreaks
    BY CollabAssumption DEF Init
  <2>3. store.seq <= Len(log) /\ base \in 0 .. Len(log)
    BY <1>3, <2>1
  <2>4. tasks \subseteq Tasks /\ \A t \in tasks : t.seq <= Len(log)
    BY ONLY <2>1
  <2>5. made \subseteq Edits
    BY ONLY <2>1
  <2> QED
    BY ONLY <2>1, <2>2, <2>3, <2>4, <2>5
<1>7. /\ link \in [Clients -> Links]
      /\ host \in [Clients -> Procs \cup {Nowhere}]
      /\ pub \in [Clients -> {NoUpdate} \cup {<<d>> : d \in Docs}]
      /\ \A c \in Clients : tail[c].seen <= Len(log)
  BY <1>3 DEF Init, NoTail, Links
<1>8. Hosted
  BY DEF Init, Hosted
<1> QED
  BY <1>1, <1>2, <1>3, <1>4, <1>5, <1>6, <1>7, <1>8 DEF TypeOK

\* The types hold in every reachable state: no cursor of a loop, of a session's
\* subscription, of a checkpoint or of the store is ahead of the log.
THEOREM TypeCorrect == Spec => []TypeOK
<1>1. TypeOK /\ Hosted /\ [Next]_vars => TypeOK' /\ Hosted'
  BY TypeStep, HostedStep
<1> QED
  BY <1>1, TypeInit, PTL DEF Spec

-----------------------------------------------------------------------------
(* The trim stays behind the stored cursor.                                 *)

\* A checkpoint that is about to trim has been saved, at its cursor or a fresher one.
Behind == \A t \in tasks : t.step = "trimming" => store.saved /\ t.seq <= store.seq

\* A step that neither saves nor trims, and takes no checkpoint further.
LEMMA BehindKept ==
  ASSUME TrimmedIsSaved, Behind, UNCHANGED <<base, store>>,
         \A k \in tasks' : \/ k.step = "saving"
                           \/ \E t \in tasks : k.seq = t.seq /\ k.step = t.step
  PROVE  TrimmedIsSaved' /\ Behind'
<1>1. TrimmedIsSaved'
  BY DEF TrimmedIsSaved
<1>2. ASSUME NEW k \in tasks', k.step = "trimming" PROVE store'.saved /\ k.seq <= store'.seq
  BY <1>2 DEF Behind
<1> QED
  BY <1>1, <1>2 DEF Behind

\* Saving and trimming keep the trim behind the store.
LEMMA BehindTask ==
  ASSUME TypeOK, TrimmedIsSaved, Behind,
         NEW t \in tasks, SaveSnapshot(t) \/ SaveFails(t) \/ TrimAfter(t)
  PROVE  TrimmedIsSaved' /\ Behind'
<1>1. /\ t \in Tasks /\ store \in Snapshots /\ base \in Nat /\ store.seq \in Nat
      /\ \A k \in tasks : k.seq \in Nat
  BY DEF TypeOK, Tasks, Snapshots
<1>2. /\ Saved(t).saved /\ t.seq <= Saved(t).seq /\ Saved(t).seq \in Nat
      /\ store.saved => store.seq <= Saved(t).seq
  BY <1>1, SavedFacts DEF Snapshots
<1>3. ASSUME store' = Saved(t), base' = base,
             \A k \in tasks' : k \in tasks \/ k.seq = t.seq
      PROVE  TrimmedIsSaved' /\ Behind'
  <2>1. TrimmedIsSaved'
    BY <1>1, <1>2, <1>3 DEF TrimmedIsSaved
  <2>2. ASSUME NEW k \in tasks', k.step = "trimming" PROVE store'.saved /\ k.seq <= store'.seq
    BY <1>1, <1>2, <1>3, <2>2 DEF Behind
  <2> QED
    BY <2>1, <2>2 DEF Behind
<1>4. CASE SaveSnapshot(t)
  <2>1. [t EXCEPT !.step = "trimming"].seq = t.seq
    BY <1>1 DEF Tasks
  <2> QED
    BY <1>3, <1>4, <2>1 DEF SaveSnapshot, redis
<1>5. CASE SaveFails(t)
  <2>1. UNCHANGED base /\ tasks' \subseteq tasks
    BY <1>5 DEF SaveFails, redis
  <2>2. CASE store' = store
    BY <2>1, <2>2, BehindKept
  <2>3. CASE store' = Saved(t)
    BY <1>3, <2>1, <2>3
  <2> QED
    BY <1>5, <2>2, <2>3 DEF SaveFails
<1>6. CASE TrimAfter(t)
  <2>1. t.step = "trimming" /\ store' = store /\ tasks' \subseteq tasks
    BY <1>6 DEF TrimAfter
  <2>2. store.saved /\ t.seq <= store.seq
    BY <2>1 DEF Behind
  <2>3. base' \in Nat /\ (base' <= base \/ base' <= t.seq)
    BY <1>1, <1>6 DEF TrimAfter, LargerOf
  <2>4. TrimmedIsSaved'
    BY <1>1, <2>1, <2>2, <2>3 DEF TrimmedIsSaved
  <2>5. Behind'
    BY <2>1 DEF Behind
  <2> QED
    BY <2>4, <2>5
<1> QED
  BY <1>4, <1>5, <1>6

\* TrimmedIsSaved and Behind are inductive: one case per action.
LEMMA BehindStep ==
  ASSUME TypeOK, Hosted, TrimmedIsSaved, Behind, [Next]_vars
  PROVE  TrimmedIsSaved' /\ Behind'
<1>1. ASSUME UNCHANGED <<base, store>>, tasks' \subseteq tasks PROVE TrimmedIsSaved' /\ Behind'
  BY <1>1, BehindKept
<1>2. ASSUME NEW p \in Procs, Loop(p) PROVE TrimmedIsSaved' /\ Behind'
  <2>1. CASE Fold(p)
    <3>1. \A doc, seq : Checkpoint(p, TRUE, doc, seq).step = "saving"
      BY DEF Checkpoint
    <3>2. /\ UNCHANGED <<base, store>>
          /\ \A k \in tasks' : k \in tasks \/ k.step = "saving"
      BY <2>1, <3>1 DEF Fold, redis
    <3> QED
      BY <3>2, BehindKept
  <2> QED
    BY <1>1, <1>2, <2>1 DEF Loop, LoadSnapshot, Subscribe, Fetch, Retry, redis
<1>3. ASSUME NEW p \in Procs, LoopFails(p) PROVE TrimmedIsSaved' /\ Behind'
  BY <1>1, <1>3 DEF LoopFails, LoadFails, SubscribeFails, DoorbellLost, RetryFails, redis
<1>4. ASSUME NEW p \in Procs, Crash(p) PROVE TrimmedIsSaved' /\ Behind'
  BY <1>1, <1>4 DEF Crash, redis
<1>5. ASSUME NEW c \in Clients, Leave(c) PROVE TrimmedIsSaved' /\ Behind'
  <2>1. UNCHANGED <<base, store>> /\ host[c] \in Procs
    BY <1>5 DEF Leave, redis, Hosted
  <2>2. CASE GoIdle(host[c])
    <3>1. Checkpoint(host[c], FALSE, topic[host[c]].doc, topic[host[c]].folded).step = "saving"
      BY DEF Checkpoint
    <3> QED
      BY <2>1, <2>2, <3>1, IdleFacts, BehindKept
  <2> QED
    BY <1>1, <1>5, <2>1, <2>2 DEF Leave
<1>6. ASSUME NEW c \in Clients,
             \/ Greet(c) \/ Handle(c) \/ Publish(c) \/ Receive(c) \/ PublishFails(c)
             \/ PumpFails(c) \/ \E p \in Procs : JoinFails(c, p)
      PROVE  TrimmedIsSaved' /\ Behind'
  BY <1>1, <1>6 DEF Greet, Handle, Publish, Receive, PublishFails, PumpFails, JoinFails, redis
<1>7. ASSUME NEW c \in Clients, NEW p \in Procs, Join(c, p) PROVE TrimmedIsSaved' /\ Behind'
  BY <1>1, <1>7 DEF Join, redis
<1>8. ASSUME NEW c \in Clients, NEW e \in Edits, Edit(c, e) PROVE TrimmedIsSaved' /\ Behind'
  BY <1>1, <1>8 DEF Edit, redis
<1>9. CASE UNCHANGED vars
  BY <1>1, <1>9 DEF vars, redis
<1> QED
  BY <1>2, <1>3, <1>4, <1>5, <1>6, <1>7, <1>8, <1>9, BehindTask, StepCases

\* The log is trimmed only behind the cursor of the stored snapshot, in whatever
\* order the detached checkpoints of all processes save, time out and trim.
THEOREM TrimmedIsSavedHolds == Spec => []TrimmedIsSaved
<1>1. Init => TrimmedIsSaved /\ Behind
  BY DEF Init, TrimmedIsSaved, Behind
<1>2. TypeOK /\ Hosted /\ TrimmedIsSaved /\ Behind /\ [Next]_vars => TrimmedIsSaved' /\ Behind'
  BY BehindStep
<1>3. TypeOK /\ Hosted /\ [Next]_vars => TypeOK' /\ Hosted'
  BY TypeStep, HostedStep
<1> QED
  BY <1>1, <1>2, <1>3, TypeInit, PTL DEF Spec

-----------------------------------------------------------------------------
(* No cursor runs ahead of what was merged.                                 *)

\* Covered, of a given log.
CoversOf(l, doc, seq) == \A i \in 1 .. seq : l[i] \subseteq doc

\* Besides last_folded, the cursor at which a loop is about to subscribe and the
\* position of the stream it reads are covered by its replica.
TopicCovers(l, t) ==
  /\ CoversOf(l, t.doc, t.folded)
  /\ t.phase = "resume" => CoversOf(l, t.doc, t.after)
  /\ t.phase = "fold" => CoversOf(l, t.doc, t.next)

Cursors ==
  ~ partial =>
    /\ CoversOf(log, store.blob, store.seq)
    /\ \A t \in tasks : CoversOf(log, t.doc, t.seq)
    /\ \A p \in Procs : TopicCovers(log, topic[p])

\* A larger replica covers what a smaller one covers.
LEMMA CoversGrown ==
  ASSUME NEW l, NEW d, NEW e, NEW n \in Nat, CoversOf(l, d, n), d \subseteq e
  PROVE  CoversOf(l, e, n)
  BY DEF CoversOf

\* The cursor 0 stands for nothing.
LEMMA CoversNone == ASSUME NEW l, NEW d PROVE CoversOf(l, d, 0)
  BY DEF CoversOf

\* Folding the next entry moves the cursor on by one.
LEMMA CoversNext ==
  ASSUME NEW l, NEW d, NEW n \in Nat, CoversOf(l, d, n)
  PROVE  CoversOf(l, d \cup l[n + 1], n + 1)
<1>1. \A i \in 1 .. (n + 1) : i \in 1 .. n \/ i = n + 1
  OBVIOUS
<1> QED
  BY <1>1 DEF CoversOf

\* A longer log has the same entries up to its old head.
LEMMA CoversAppended ==
  ASSUME NEW l \in Seq(Docs), NEW u \in Docs, NEW d, NEW n \in Nat, n <= Len(l),
         CoversOf(l, d, n)
  PROVE  CoversOf(Append(l, u), d, n)
<1>1. \A i \in 1 .. n : i \in 1 .. Len(l)
  BY LogFacts
<1> QED
  BY <1>1, LogFacts DEF CoversOf

\* A step of a process that changes its topic and perhaps adds a checkpoint.
LEMMA CursorsTopic ==
  ASSUME TypeOK, Cursors, NEW p \in Procs, NEW t \in Topics,
         UNCHANGED <<log, store>>, topic' = [topic EXCEPT ![p] = t],
         partial => partial',
         ~ partial' => TopicCovers(log, t),
         ~ partial' => \A k \in tasks' : k \in tasks \/ CoversOf(log, k.doc, k.seq)
  PROVE  Cursors'
<1>1. \A q \in Procs : topic'[q] = IF q = p THEN t ELSE topic[q]
  BY DEF TypeOK
<1> QED
  BY <1>1 DEF Cursors

\* Subscribing: at the cursor, or from the start if nothing is trimmed.
LEMMA CursorsSubscribe ==
  ASSUME TypeOK, Cursors, NEW p \in Procs, Subscribe(p) PROVE Cursors'
<1> DEFINE t  == topic[p]
           tl == IF t.whole THEN Retained ELSE From(t.after)
           o  == [Opened(t, tl) EXCEPT !.folded = LargerOf(t.folded, t.after),
                                       !.last = LargerOf(t.last, t.after)]
           w  == [t EXCEPT !.whole = TRUE]
<1>1. /\ t \in Topics /\ InLog(t) /\ t.phase = "resume" /\ Len(log) \in Nat
      /\ partial \in BOOLEAN /\ base \in Nat /\ base <= Len(log)
      /\ t.after \in Nat /\ t.after <= Len(log) /\ t.folded \in Nat /\ t.last \in Nat
  BY TopicFacts DEF TypeOK, InLog, Subscribe, In
<1>2. UNCHANGED <<log, store, tasks>>
  BY DEF Subscribe, redis
<1>3. ~ partial => CoversOf(log, t.doc, t.folded) /\ CoversOf(log, t.doc, t.after)
  BY <1>1 DEF Cursors, TopicCovers
<1>4. CASE topic' = [topic EXCEPT ![p] = w] /\ UNCHANGED partial
  <2>1. w \in Topics /\ w.phase = "resume" /\ w.doc = t.doc /\ w.folded = t.folded
        /\ w.after = t.after
    BY <1>1 DEF Topics
  <2>2. ~ partial' => TopicCovers(log, w)
    BY <1>3, <1>4, <2>1 DEF TopicCovers
  <2> HIDE DEF w
  <2> QED
    BY <1>2, <1>4, <2>1, <2>2, CursorsTopic
<1>5. CASE topic' = [topic EXCEPT ![p] = o] /\ partial' = (partial \/ (t.whole /\ base > 0))
  <2>1. tl \in Tails
    BY <1>1, StreamFacts
  <2>2. o \in Topics /\ o.phase = "fold" /\ o.doc = t.doc /\ o.next = tl.next
        /\ o.folded = LargerOf(t.folded, t.after)
    <3>1. LargerOf(t.folded, t.after) \in Nat /\ LargerOf(t.last, t.after) \in Nat
      BY <1>1, LargerFacts
    <3> HIDE DEF tl
    <3>2. Opened(t, tl) \in Topics /\ Opened(t, tl).phase = "fold"
          /\ Opened(t, tl).doc = t.doc /\ Opened(t, tl).next = tl.next
      BY <1>1, <2>1 DEF Opened, Topics, Phases, Tails
    <3> QED
      BY <3>1, <3>2 DEF Topics
  <2>3. ~ partial' => tl.next = 0 \/ tl.next = t.after
    <3>1. ~ partial' => ~ t.whole \/ ~ (base > 0)
      BY <1>5
    <3>2. ~ (base > 0) => Retained.next = 0
      BY <1>1 DEF Retained, NoTail
    <3>3. From(t.after).next = t.after
      BY DEF From
    <3> QED
      BY <3>1, <3>2, <3>3
  <2>4. ~ partial' => CoversOf(log, t.doc, tl.next)
    BY <1>3, <1>5, <2>3, CoversNone
  <2>5. ~ partial' => CoversOf(log, t.doc, LargerOf(t.folded, t.after))
    BY <1>1, <1>3, <1>5, LargerFacts
  <2> HIDE DEF o, tl
  <2>6. ~ partial' => TopicCovers(log, o)
    BY <2>2, <2>4, <2>5 DEF TopicCovers
  <2> QED
    BY <1>2, <1>5, <2>2, <2>6, CursorsTopic
<1>6. /\ topic' = [topic EXCEPT ![p].whole = TRUE] => topic' = [topic EXCEPT ![p] = w]
      /\ Opened(t, tl).folded = t.folded /\ Opened(t, tl).last = t.last
  BY <1>1 DEF Opened, Topics
<1> QED
  BY <1>1, <1>4, <1>5, <1>6 DEF Subscribe

\* Folding an entry, and the checkpoint it may start.
LEMMA CursorsFold ==
  ASSUME TypeOK, Cursors, NEW p \in Procs, Fold(p) PROVE Cursors'
<1> DEFINE t      == topic[p]
           doc    == t.doc \cup log[t.next + 1]
           folded == LargerOf(t.folded, t.next + 1)
           due    == t.count + 1 >= CheckpointEvery
           save   == due /\ SlotFree(p) /\ folded > t.last
           count  == IF due THEN 0 ELSE t.count + 1
           last   == IF save THEN folded ELSE t.last
           o      == [t EXCEPT !.doc = doc, !.folded = folded, !.next = t.next + 1,
                               !.count = count, !.last = last]
           k      == Checkpoint(p, TRUE, doc, folded)
<1>1. /\ t \in Topics /\ InLog(t) /\ t.phase = "fold" /\ t.next < t.seen /\ Len(log) \in Nat
      /\ t.next \in Nat /\ t.seen \in Nat /\ t.folded \in Nat /\ t.count \in Nat
      /\ t.last \in Nat /\ t.doc \in Docs
  BY TopicFacts DEF TypeOK, Fold, In
<1>2. /\ UNCHANGED <<log, store, partial>> /\ topic' = [topic EXCEPT ![p] = o]
      /\ tasks' = tasks \/ tasks' = tasks \cup {k}
  BY DEF Fold, redis
<1>3. t.next + 1 \in 1 .. Len(log) /\ t.next + 1 \in Nat
  BY <1>1 DEF InLog
<1>4. doc \in Docs
  <2>1. log[t.next + 1] \in Docs
    BY <1>3 DEF TypeOK
  <2> QED
    BY <1>1, <2>1 DEF Docs
<1>5. folded \in Nat /\ (folded = t.folded \/ folded = t.next + 1)
  BY <1>1, <1>3, LargerFacts
<1>6. ~ partial => CoversOf(log, doc, t.next + 1) /\ CoversOf(log, doc, folded)
  <2>1. ~ partial => CoversOf(log, t.doc, t.folded) /\ CoversOf(log, t.doc, t.next)
    BY <1>1 DEF Cursors, TopicCovers
  <2>2. ~ partial => CoversOf(log, doc, t.next + 1)
    BY <1>1, <2>1, CoversNext
  <2>3. ~ partial => CoversOf(log, doc, t.folded)
    BY <1>1, <2>1, CoversGrown
  <2> QED
    BY <1>5, <2>2, <2>3
<1>7. count \in Nat /\ last \in Nat
  BY <1>1, <1>5
<1> HIDE DEF doc, folded, count, last
<1>8. o \in Topics
  BY <1>1, <1>3, <1>4, <1>5, <1>7, AdvancedTopic
<1>9. o.phase = "fold" /\ o.doc = doc /\ o.folded = folded /\ o.next = t.next + 1
  BY <1>1 DEF Topics
<1>10. ~ partial => TopicCovers(log, o)
  BY <1>6, <1>9 DEF TopicCovers
<1>11. ~ partial => CoversOf(log, k.doc, k.seq)
  BY <1>6 DEF Checkpoint
<1> HIDE DEF o, k
<1> QED
  BY <1>2, <1>8, <1>10, <1>11, CursorsTopic

\* Merging the stored snapshot takes over its cursor.
LEMMA CursorsLoad ==
  ASSUME TypeOK, Cursors, NEW p \in Procs, LoadSnapshot(p) PROVE Cursors'
<1> DEFINE t == topic[p]
           s == Seeded(t)
           r == Reseeded(t)
<1>1. /\ t \in Topics /\ InLog(t) /\ t.folded \in Nat /\ t.last \in Nat /\ t.doc \in Docs
      /\ store \in Snapshots /\ store.seq \in Nat /\ store.blob \in Docs
      /\ UNCHANGED <<log, store, tasks, partial>>
  BY TopicFacts DEF TypeOK, LoadSnapshot, Snapshots, redis
<1>2. /\ s \in Topics /\ s.phase = "resume" /\ s.doc = t.doc \cup store.blob
      /\ s.after = store.seq /\ s.folded = t.folded /\ s.last = t.last
  <2>1. t.doc \cup store.blob \in Docs
    BY <1>1 DEF Docs
  <2> QED
    BY <1>1, <2>1 DEF Seeded, Topics, Phases, Snapshots
<1>3. /\ r \in Topics /\ r.phase = "resume" /\ r.doc = s.doc /\ r.after = s.after
      /\ r.folded = LargerOf(t.folded, store.seq)
  <2>1. LargerOf(t.folded, store.seq) \in Nat /\ LargerOf(t.last, store.seq) \in Nat
    BY <1>1, LargerFacts
  <2> HIDE DEF s
  <2>2. r = [s EXCEPT !.folded = LargerOf(t.folded, store.seq),
                      !.last = LargerOf(t.last, store.seq)]
    BY <1>2 DEF Reseeded, s
  <2> QED
    BY <1>2, <2>1, <2>2 DEF Topics
<1>4. ~ partial => CoversOf(log, t.doc \cup store.blob, store.seq)
                   /\ CoversOf(log, t.doc \cup store.blob, t.folded)
  <2>1. ~ partial => CoversOf(log, store.blob, store.seq) /\ CoversOf(log, t.doc, t.folded)
    BY DEF Cursors, TopicCovers
  <2> QED
    BY <1>1, <2>1, CoversGrown
<1> HIDE DEF s, r
<1>5. ~ partial => TopicCovers(log, s)
  BY <1>2, <1>4 DEF TopicCovers
<1>6. ~ partial => TopicCovers(log, r)
  BY <1>1, <1>2, <1>3, <1>4, LargerFacts DEF TopicCovers
<1>7. topic' = [topic EXCEPT ![p] = s] \/ topic' = [topic EXCEPT ![p] = r]
  BY DEF LoadSnapshot, s, r
<1>8. CASE topic' = [topic EXCEPT ![p] = s]
  BY <1>1, <1>2, <1>5, <1>8, CursorsTopic
<1>9. CASE topic' = [topic EXCEPT ![p] = r]
  BY <1>1, <1>3, <1>6, <1>9, CursorsTopic
<1> QED
  BY <1>7, <1>8, <1>9

\* The rest of the loop moves between phases and reads ahead.
LEMMA CursorsLoop ==
  ASSUME TypeOK, Cursors, NEW p \in Procs, Loop(p) \/ LoopFails(p) PROVE Cursors'
<1> DEFINE t == topic[p]
<1>1. /\ t \in Topics /\ InLog(t) /\ t.folded \in Nat /\ t.folded <= Len(log) /\ Len(log) \in Nat
  BY TopicFacts DEF TypeOK, InLog
<1>2. ~ partial => TopicCovers(log, t)
  BY DEF Cursors
<1>3. ASSUME UNCHANGED <<log, store, tasks, partial>>, NEW ph \in Phases \ {"resume", "fold"},
             topic' = [topic EXCEPT ![p] = [t EXCEPT !.phase = ph]]
      PROVE  Cursors'
  <2>1. [t EXCEPT !.phase = ph] \in Topics /\ [t EXCEPT !.phase = ph].phase = ph
        /\ [t EXCEPT !.phase = ph].doc = t.doc /\ [t EXCEPT !.phase = ph].folded = t.folded
    BY <1>1 DEF Topics
  <2>2. ~ partial => TopicCovers(log, [t EXCEPT !.phase = ph])
    BY <1>2, <2>1 DEF TopicCovers
  <2> QED
    BY <1>3, <2>1, <2>2, CursorsTopic
<1>4. CASE LoadFails(p)
  <2> DEFINE u == [t EXCEPT !.phase = "resume", !.after = 0, !.whole = TRUE]
  <2>1. u \in Topics /\ u.phase = "resume" /\ u.doc = t.doc /\ u.folded = t.folded /\ u.after = 0
    BY <1>1 DEF Topics, Phases
  <2>2. ~ partial => TopicCovers(log, u)
    BY <1>2, <2>1, CoversNone DEF TopicCovers
  <2>3. topic' = [topic EXCEPT ![p] = u] /\ UNCHANGED <<log, store, tasks, partial>>
    BY <1>4 DEF LoadFails, redis
  <2> HIDE DEF u
  <2> QED
    BY <2>1, <2>2, <2>3, CursorsTopic
<1>5. CASE SubscribeFails(p)
  BY <1>3, <1>5 DEF SubscribeFails, redis, Phases
<1>6. CASE DoorbellLost(p)
  BY <1>3, <1>6 DEF DoorbellLost, redis, Phases
<1>7. CASE RetryFails(p)
  BY <1>3, <1>7 DEF RetryFails, redis, Phases
<1>8. CASE Fetch(p)
  <2> DEFINE u == [t EXCEPT !.seen = Len(log)]
  <2>1. UNCHANGED <<log, store, tasks, partial>>
    BY <1>8 DEF Fetch, redis
  <2>2. CASE topic' = [topic EXCEPT ![p] = [t EXCEPT !.phase = "retry"]]
    BY <1>3, <2>1, <2>2 DEF Phases
  <2>3. CASE topic' = [topic EXCEPT ![p] = u]
    <3>1. /\ u \in Topics /\ u.phase = t.phase /\ u.doc = t.doc /\ u.folded = t.folded
          /\ u.after = t.after /\ u.next = t.next
      BY <1>1 DEF Topics
    <3>2. ~ partial => TopicCovers(log, u)
      BY <1>2, <3>1 DEF TopicCovers
    <3> HIDE DEF u
    <3> QED
      BY <2>1, <2>3, <3>1, <3>2, CursorsTopic
  <2> QED
    BY <1>8, <2>2, <2>3 DEF Fetch
<1>9. CASE Retry(p)
  <2> DEFINE u == Opened(t, From(t.folded))
  <2>1. UNCHANGED <<log, store, tasks, partial>>
    BY <1>9 DEF Retry, redis
  <2>2. CASE topic' = [topic EXCEPT ![p] = [t EXCEPT !.phase = "reload"]]
    BY <1>3, <2>1, <2>2 DEF Phases
  <2>3. CASE topic' = [topic EXCEPT ![p] = u]
    <3>1. /\ u \in Topics /\ u.phase = "fold" /\ u.doc = t.doc /\ u.folded = t.folded
          /\ u.next = t.folded
      BY <1>1 DEF Opened, From, Topics, Phases
    <3>2. ~ partial => TopicCovers(log, u)
      BY <1>2, <3>1 DEF TopicCovers
    <3> HIDE DEF u
    <3> QED
      BY <2>1, <2>3, <3>1, <3>2, CursorsTopic
  <2> QED
    BY <1>9, <2>2, <2>3 DEF Retry
<1> QED
  BY <1>4, <1>5, <1>6, <1>7, <1>8, <1>9, CursorsLoad, CursorsSubscribe, CursorsFold
     DEF Loop, LoopFails

\* A step that leaves the log and the topics alone, and of whose checkpoints every
\* one carries what another carried.
LEMMA CursorsTasks ==
  ASSUME TypeOK, Cursors, UNCHANGED <<log, topic, partial>>,
         \A k \in tasks' : \E t \in tasks : k.doc = t.doc /\ k.seq = t.seq,
         \/ store' = store
         \/ \E t \in tasks : store'.blob = t.doc /\ store'.seq = t.seq
  PROVE  Cursors'
<1> SUFFICES ASSUME ~ partial PROVE Cursors'
  BY DEF Cursors
<1>1. CoversOf(log', store'.blob, store'.seq)
  BY DEF Cursors
<1>2. ASSUME NEW k \in tasks' PROVE CoversOf(log', k.doc, k.seq)
  BY <1>2 DEF Cursors
<1>3. \A p \in Procs : TopicCovers(log', topic'[p])
  BY DEF Cursors
<1> QED
  BY <1>1, <1>2, <1>3 DEF Cursors

\* Saving replaces the snapshot by a checkpoint that covers its own cursor.
LEMMA CursorsTask ==
  ASSUME TypeOK, Cursors, NEW t \in tasks, SaveSnapshot(t) \/ SaveFails(t) \/ TrimAfter(t)
  PROVE  Cursors'
<1>1. /\ t \in Tasks /\ store \in Snapshots
      /\ Saved(t) = store \/ (Saved(t).blob = t.doc /\ Saved(t).seq = t.seq)
  BY SavedFacts DEF TypeOK
<1>2. CASE SaveSnapshot(t)
  <2>1. [t EXCEPT !.step = "trimming"].doc = t.doc /\ [t EXCEPT !.step = "trimming"].seq = t.seq
    BY <1>1 DEF Tasks
  <2>2. \A k \in tasks' : \E u \in tasks : k.doc = u.doc /\ k.seq = u.seq
    BY <1>2, <2>1 DEF SaveSnapshot
  <2>3. store' = Saved(t) /\ UNCHANGED <<log, topic, partial>>
    BY <1>2 DEF SaveSnapshot, redis
  <2> QED
    BY <1>1, <2>2, <2>3, CursorsTasks
<1>3. CASE SaveFails(t)
  <2>1. /\ tasks' \subseteq tasks /\ store' \in {store, Saved(t)}
        /\ UNCHANGED <<log, topic, partial>>
    BY <1>3 DEF SaveFails, redis
  <2> QED
    BY <1>1, <2>1, CursorsTasks
<1>4. CASE TrimAfter(t)
  <2>1. tasks' \subseteq tasks /\ UNCHANGED <<log, store, topic, partial>>
    BY <1>4 DEF TrimAfter
  <2> QED
    BY <2>1, CursorsTasks
<1> QED
  BY <1>2, <1>3, <1>4

\* Applying an update makes a replica larger, and its cursors stay.
LEMMA CursorsHandle ==
  ASSUME TypeOK, Hosted, Cursors, NEW c \in Clients, Handle(c) PROVE Cursors'
<1> DEFINE p == host[c]
           d == topic[p].doc \cup Head(wire[c])
           t == [topic[p] EXCEPT !.doc = d]
<1>1. wire[c] \in Seq(Docs) /\ wire[c] # <<>> /\ p \in Procs /\ topic[p] \in Topics
  BY SessionTypes DEF Handle, Hosted
<1>2. d \in Docs
  <2>1. Head(wire[c]) \in Docs /\ topic[p].doc \in Docs
    BY <1>1, WireFacts, TopicFacts
  <2> QED
    BY <2>1 DEF Docs
<1>3. UNCHANGED <<log, store, tasks, partial>> /\ topic' = [topic EXCEPT ![p] = t]
  BY <1>1 DEF Handle, redis
<1>4. /\ t \in Topics /\ t.doc = d /\ t.phase = topic[p].phase /\ t.next = topic[p].next
      /\ t.folded = topic[p].folded /\ t.after = topic[p].after
  <2> HIDE DEF d
  <2> QED
    BY <1>1, <1>2 DEF Topics
<1>5. topic[p].folded \in Nat /\ topic[p].after \in Nat /\ topic[p].next \in Nat
  BY <1>1, TopicFacts
<1>6. topic[p].doc \subseteq d
  OBVIOUS
<1> HIDE DEF t, d
<1>7. ~ partial => TopicCovers(log, t)
  <2>1. ~ partial => TopicCovers(log, topic[p])
    BY <1>1 DEF Cursors
  <2> QED
    BY <1>4, <1>5, <1>6, <2>1, CoversGrown DEF TopicCovers
<1> QED
  BY <1>1, <1>3, <1>4, <1>7, CursorsTopic

\* A new entry lies behind every cursor: none was ahead of the log.
LEMMA CursorsPublish ==
  ASSUME TypeOK, Cursors, NEW c \in Clients, Publish(c) PROVE Cursors'
<1> DEFINE u == pub[c][1]
<1>1. u \in Docs /\ log \in Seq(Docs) /\ Len(log) \in Nat
  BY PubFacts, SessionTypes DEF Publish
<1>2. log' = Append(log, u) /\ UNCHANGED <<store, topic, tasks, partial>>
  BY DEF Publish
<1> HIDE DEF u
<1> SUFFICES ASSUME ~ partial PROVE Cursors'
  BY <1>2 DEF Cursors
<1>3. CoversOf(log', store.blob, store.seq)
  <2>1. store.seq \in Nat /\ store.seq <= Len(log)
    BY DEF TypeOK, Snapshots
  <2> QED
    BY <1>1, <1>2, <2>1, CoversAppended DEF Cursors
<1>4. ASSUME NEW t \in tasks PROVE CoversOf(log', t.doc, t.seq)
  <2>1. t.seq \in Nat /\ t.seq <= Len(log)
    BY DEF TypeOK, Tasks
  <2> QED
    BY <1>1, <1>2, <2>1, CoversAppended DEF Cursors
<1>5. ASSUME NEW p \in Procs PROVE TopicCovers(log', topic[p])
  <2> DEFINE t == topic[p]
  <2>1. t \in Topics /\ InLog(t)
    BY DEF TypeOK
  <2>2. /\ t.folded \in Nat /\ t.after \in Nat /\ t.next \in Nat
        /\ t.folded <= Len(log) /\ t.after <= Len(log) /\ t.next <= Len(log)
    BY <1>1, <2>1, TopicFacts DEF InLog
  <2>3. TopicCovers(log, t)
    BY DEF Cursors
  <2> QED
    BY <1>1, <1>2, <2>2, <2>3, CoversAppended DEF TopicCovers
<1> QED
  BY <1>2, <1>3, <1>4, <1>5 DEF Cursors

\* A closed topic leaves a checkpoint of exactly what it had.
LEMMA CursorsIdle ==
  ASSUME TypeOK, Cursors, NEW p \in Procs, GoIdle(p), UNCHANGED <<log, store, partial>>
  PROVE  Cursors'
<1> DEFINE k == Checkpoint(p, FALSE, topic[p].doc, topic[p].folded)
<1> SUFFICES ASSUME ~ partial PROVE Cursors'
  BY DEF Cursors
<1>1. NoTopic.folded = 0 /\ NoTopic.phase = "none"
  BY DEF NoTopic
<1>2. TopicCovers(log, NoTopic)
  BY <1>1, CoversNone DEF TopicCovers
<1>3. CoversOf(log, k.doc, k.seq)
  BY DEF Cursors, TopicCovers, Checkpoint
<1> HIDE DEF k
<1>4. ASSUME NEW m \in tasks' PROVE CoversOf(log, m.doc, m.seq)
  <2>1. m = k \/ \E t \in tasks : m.doc = t.doc /\ m.seq = t.seq
    BY IdleFacts DEF k
  <2> QED
    BY <1>3, <2>1 DEF Cursors
<1>5. topic' = [topic EXCEPT ![p] = NoTopic]
  BY IdleFacts
<1> QED
  BY <1>2, <1>4, <1>5, NoTopicFacts, CursorsTopic

\* Cursors is inductive: one case per action.
LEMMA CursorsStep ==
  ASSUME TypeOK, Hosted, Cursors, [Next]_vars PROVE Cursors'
<1>1. ASSUME UNCHANGED <<log, store, topic, tasks, partial>> PROVE Cursors'
  BY <1>1 DEF Cursors
<1>2. ASSUME NEW p \in Procs, Crash(p) PROVE Cursors'
  <2>1. TopicCovers(log, NoTopic)
    BY CoversNone DEF TopicCovers, NoTopic
  <2>2. /\ UNCHANGED <<log, store, partial>> /\ tasks' \subseteq tasks
        /\ topic' = [topic EXCEPT ![p] = NoTopic]
    BY <1>2 DEF Crash, redis
  <2> QED
    BY <2>1, <2>2, NoTopicFacts, CursorsTopic
<1>3. ASSUME NEW c \in Clients, Leave(c) PROVE Cursors'
  <2>1. UNCHANGED <<log, store, partial>> /\ host[c] \in Procs
    BY <1>3 DEF Leave, redis, Hosted
  <2>2. GoIdle(host[c]) \/ UNCHANGED <<topic, tasks>>
    BY <1>3 DEF Leave
  <2> QED
    BY <1>1, <2>1, <2>2, CursorsIdle
<1>4. ASSUME NEW c \in Clients,
             \/ Greet(c) \/ Receive(c) \/ PublishFails(c)
             \/ PumpFails(c) \/ \E p \in Procs : JoinFails(c, p)
      PROVE  Cursors'
  BY <1>1, <1>4 DEF Greet, Receive, PublishFails, PumpFails, JoinFails, redis
<1>5. ASSUME NEW c \in Clients, NEW e \in Edits, Edit(c, e) PROVE Cursors'
  BY <1>1, <1>5 DEF Edit, redis
<1>6. ASSUME NEW c \in Clients, NEW p \in Procs, Join(c, p) PROVE Cursors'
  <2> DEFINE t == [topic[p] EXCEPT !.phase = "load"]
  <2>1. topic[p] \in Topics /\ UNCHANGED <<log, store, tasks, partial>>
    BY <1>6 DEF TypeOK, Join, redis
  <2>2. t \in Topics /\ t.phase = "load" /\ t.doc = topic[p].doc /\ t.folded = topic[p].folded
    BY <2>1 DEF Topics, Phases
  <2>3. ~ partial => TopicCovers(log, t)
    BY <2>2 DEF Cursors, TopicCovers
  <2>4. topic' = topic \/ topic' = [topic EXCEPT ![p] = t]
    BY <1>6 DEF Join
  <2> HIDE DEF t
  <2> QED
    BY <1>1, <2>1, <2>2, <2>3, <2>4, CursorsTopic
<1>7. CASE UNCHANGED vars
  BY <1>1, <1>7 DEF vars, redis
<1> QED
  BY <1>2, <1>3, <1>4, <1>5, <1>6, <1>7, CursorsLoop, CursorsTask, CursorsHandle,
     CursorsPublish, StepCases

\* As long as no loop had to start from the retained tail of a trimmed log, no
\* replica, no checkpoint in flight and no stored snapshot has a cursor ahead of
\* the entries merged into it, whatever gaps, failures and crashes there were.
THEOREM CursorsCoverHolds == Spec => []CursorsCover
<1>1. Init => Cursors
  BY CoversNone DEF Init, Cursors, TopicCovers, NoTopic
<1>2. TypeOK /\ Hosted /\ Cursors /\ [Next]_vars => Cursors'
  BY CursorsStep
<1>3. TypeOK /\ Hosted /\ [Next]_vars => TypeOK' /\ Hosted'
  BY TypeStep, HostedStep
<1>4. Cursors => CursorsCover
  BY DEF Cursors, CursorsCover, TopicCovers, Covered, CoversOf
<1> QED
  BY <1>1, <1>2, <1>3, <1>4, TypeInit, PTL DEF Spec
=============================================================================
