-------------------------- MODULE SyncOutboxProofs --------------------------
(***************************************************************************)
(* Proofs about SyncOutbox for any number of views, writes, tasks and      *)
(* breaks.  A step of a driver is first described by what it does to the   *)
(* tasks (the Facts lemmas), then by what it keeps of their form, of the   *)
(* work in the queue and of the store (the Keeps predicates); the two      *)
(* invariants are shown from these.                                        *)
(***************************************************************************)
EXTENDS SyncOutbox, FiniteSetTheorems, TLAPS

TaskRecs == [view : Views \cup {NoView}, at : States, boot : BOOLEAN,
             overlay : SUBSET Muts, ids : SUBSET Muts,
             where : SUBSET Compartments, batch : Seq(Entries)]
CallRecs == [at : {"new", "saving", "sent", "clearing", "over"}, left : SUBSET Compartments]

-----------------------------------------------------------------------------
(* Queues.                                                                 *)

\* The writes of a queue when an entry is added or taken.
LEMMA QueueFacts ==
  ASSUME NEW s \in Seq(Entries)
  PROVE  /\ MutsOf(s) \subseteq Muts /\ MutsOf(<<>>) = {}
         /\ \A e \in Entries : Append(s, e) \in Seq(Entries)
                               /\ MutsOf(Append(s, e)) = MutsOf(s) \cup {e.mut}
         /\ \A t \in Seq(Entries) : s \o t \in Seq(Entries) /\ MutsOf(s \o t) = MutsOf(s) \cup MutsOf(t)
         /\ s # <<>> => /\ Head(s) \in Entries /\ Tail(s) \in Seq(Entries)
                        /\ MutsOf(s) = {Head(s).mut} \cup MutsOf(Tail(s))
<1>1. MutsOf(s) \subseteq Muts /\ MutsOf(<<>>) = {}
  <2>1. \A k \in DOMAIN s : s[k] \in Entries
    OBVIOUS
  <2>2. \A e \in Entries : e.mut \in Muts
    BY DEF Entries
  <2>3. DOMAIN <<>> = {}
    OBVIOUS
  <2> QED
    BY <2>1, <2>2, <2>3 DEF MutsOf
<1>2. ASSUME NEW e \in Entries
      PROVE  Append(s, e) \in Seq(Entries) /\ MutsOf(Append(s, e)) = MutsOf(s) \cup {e.mut}
  <2>1. /\ Append(s, e) \in Seq(Entries) /\ Len(Append(s, e)) = Len(s) + 1
        /\ \A k \in 1 .. Len(s) : Append(s, e)[k] = s[k]
        /\ Append(s, e)[Len(s) + 1] = e
    OBVIOUS
  <2>2. DOMAIN s = 1 .. Len(s) /\ DOMAIN Append(s, e) = 1 .. Len(s) + 1 /\ Len(s) \in Nat
    BY <2>1
  <2>3. ASSUME NEW m \in MutsOf(Append(s, e)) PROVE m \in MutsOf(s) \cup {e.mut}
    <3>1. PICK k \in 1 .. Len(s) + 1 : m = Append(s, e)[k].mut
      BY <2>2, <2>3 DEF MutsOf
    <3>2. k \in 1 .. Len(s) \/ k = Len(s) + 1
      BY <2>2
    <3> QED
      BY <2>1, <2>2, <3>1, <3>2 DEF MutsOf
  <2>4. ASSUME NEW k \in DOMAIN s PROVE s[k].mut \in MutsOf(Append(s, e))
    <3>1. k \in 1 .. Len(s) + 1 /\ s[k] = Append(s, e)[k]
      BY <2>1, <2>2
    <3> QED
      BY <2>2, <3>1 DEF MutsOf
  <2>5. e.mut \in MutsOf(Append(s, e))
    BY <2>1, <2>2 DEF MutsOf
  <2>6. MutsOf(s) \subseteq MutsOf(Append(s, e))
    BY <2>4 DEF MutsOf
  <2> QED
    BY <2>1, <2>3, <2>5, <2>6
<1>3. ASSUME NEW t \in Seq(Entries)
      PROVE  s \o t \in Seq(Entries) /\ MutsOf(s \o t) = MutsOf(s) \cup MutsOf(t)
  <2>1. /\ s \o t \in Seq(Entries) /\ Len(s \o t) = Len(s) + Len(t)
        /\ \A k \in 1 .. Len(s) + Len(t) : (s \o t)[k] = IF k <= Len(s) THEN s[k] ELSE t[k - Len(s)]
        /\ Len(s) \in Nat /\ Len(t) \in Nat /\ DOMAIN s = 1 .. Len(s) /\ DOMAIN t = 1 .. Len(t)
    OBVIOUS
  <2>2. DOMAIN (s \o t) = 1 .. Len(s) + Len(t)
    BY <2>1
  <2>3. ASSUME NEW k \in DOMAIN (s \o t) PROVE (s \o t)[k].mut \in MutsOf(s) \cup MutsOf(t)
    <3>1. CASE k <= Len(s)
      BY <2>1, <2>2, <3>1 DEF MutsOf
    <3>2. CASE ~ (k <= Len(s))
      <4>1. k - Len(s) \in DOMAIN t /\ (s \o t)[k] = t[k - Len(s)]
        BY <2>1, <2>2, <3>2
      <4> QED
        BY <4>1 DEF MutsOf
    <3> QED
      BY <3>1, <3>2
  <2>4. ASSUME NEW k \in DOMAIN s PROVE s[k].mut \in MutsOf(s \o t)
    <3>1. k \in DOMAIN (s \o t) /\ (s \o t)[k] = s[k]
      BY <2>1, <2>2
    <3> QED
      BY <3>1 DEF MutsOf
  <2>5. ASSUME NEW k \in DOMAIN t PROVE t[k].mut \in MutsOf(s \o t)
    <3>1. k + Len(s) \in DOMAIN (s \o t) /\ (s \o t)[k + Len(s)] = t[k]
      BY <2>1, <2>2
    <3> QED
      BY <3>1 DEF MutsOf
  <2> QED
    BY <2>1, <2>3, <2>4, <2>5 DEF MutsOf
<1>4. ASSUME s # <<>>
      PROVE  /\ Head(s) \in Entries /\ Tail(s) \in Seq(Entries)
             /\ MutsOf(s) = {Head(s).mut} \cup MutsOf(Tail(s))
  <2>1. /\ Head(s) \in Entries /\ Tail(s) \in Seq(Entries) /\ Len(s) \in Nat \ {0}
        /\ DOMAIN s = 1 .. Len(s) /\ Head(s) = s[1]
    BY <1>4
  <2>2. DOMAIN Tail(s) = 1 .. Len(s) - 1 /\ \A k \in 1 .. Len(s) - 1 : Tail(s)[k] = s[k + 1]
    BY <1>4
  <2>3. ASSUME NEW k \in DOMAIN s PROVE s[k].mut \in {Head(s).mut} \cup MutsOf(Tail(s))
    <3>1. CASE k = 1
      BY <2>1, <3>1
    <3>2. CASE k # 1
      <4>1. k - 1 \in DOMAIN Tail(s) /\ Tail(s)[k - 1] = s[k]
        BY <2>1, <2>2, <3>2
      <4> QED
        BY <4>1 DEF MutsOf
    <3> QED
      BY <3>1, <3>2
  <2>4. ASSUME NEW k \in DOMAIN Tail(s) PROVE Tail(s)[k].mut \in MutsOf(s)
    <3>1. k + 1 \in DOMAIN s /\ Tail(s)[k] = s[k + 1]
      BY <2>1, <2>2
    <3> QED
      BY <3>1 DEF MutsOf
  <2>5. Head(s).mut \in MutsOf(s)
    BY <2>1 DEF MutsOf
  <2> QED
    BY <2>1, <2>3, <2>4, <2>5 DEF MutsOf
<1> QED
  BY <1>1, <1>2, <1>3, <1>4

\* Hydrated pendings are queued once each, in any order.
LEMMA OrderFacts ==
  ASSUME NEW S \in SUBSET Muts, NEW s \in SetToSeqs(S)
  PROVE  LET h == [k \in DOMAIN s |-> [mut |-> s[k], hydrated |-> TRUE]]
         IN  h \in Seq(Entries) /\ MutsOf(h) = S
<1>1. IsFiniteSet(S)
  BY FS_Subset, OutboxAssumption
<1> DEFINE n == Cardinality(S)
<1>2. n \in Nat
  BY <1>1, FS_CardinalityType
<1>3. s \in [1 .. n -> S] /\ \A i, j \in 1 .. n : i # j => s[i] # s[j]
  BY DEF SetToSeqs
<1>4. IsFiniteSet(1 .. n) /\ Cardinality(1 .. n) = n
  BY <1>2, FS_Interval
<1>5. s \in Injection(1 .. n, S)
  BY <1>3 DEF Injection, IsInjective
<1>6. s \in Surjection(1 .. n, S)
  BY <1>1, <1>4, <1>5, FS_Injection
<1>7. \A x \in S : \E k \in 1 .. n : s[k] = x
  BY <1>6 DEF Surjection
<1> DEFINE h == [k \in DOMAIN s |-> [mut |-> s[k], hydrated |-> TRUE]]
<1>8. h \in [1 .. n -> Entries]
  BY <1>3 DEF Entries
<1>9. h \in Seq(Entries)
  BY <1>2, <1>8
<1>10. MutsOf(h) = S
  BY <1>3, <1>7 DEF MutsOf
<1> QED
  BY <1>9, <1>10

-----------------------------------------------------------------------------
(* Tasks.                                                                  *)

\* What is left of a task array when the overlays of S go, and when a driver goes on.
LEMMA DequeueFacts ==
  ASSUME NEW T \in [Tasks -> TaskRecs], NEW S \in SUBSET Muts, NEW D, D = Dequeue(T, S)
  PROVE  /\ D \in [Tasks -> TaskRecs]
         /\ \A j \in Tasks \ live : D[j] = T[j]
         /\ \A j \in Tasks :
              /\ D[j].view = T[j].view /\ D[j].at = T[j].at /\ D[j].boot = T[j].boot
              /\ D[j].ids = T[j].ids /\ D[j].where = T[j].where /\ D[j].batch = T[j].batch
              /\ j \in live => D[j].overlay = T[j].overlay \ S
              /\ j \notin live => D[j].overlay = T[j].overlay
<1> DEFINE cut(j) == [T[j] EXCEPT !.overlay = @ \ S]
<1>1. ASSUME NEW j \in Tasks
      PROVE  /\ cut(j) \in TaskRecs /\ T[j] \in TaskRecs
             /\ cut(j).view = T[j].view /\ cut(j).at = T[j].at /\ cut(j).boot = T[j].boot
             /\ cut(j).ids = T[j].ids /\ cut(j).where = T[j].where /\ cut(j).batch = T[j].batch
             /\ cut(j).overlay = T[j].overlay \ S
  BY DEF TaskRecs
<1>2. D = [j \in Tasks |-> IF j \in live THEN cut(j) ELSE T[j]]
  BY DEF Dequeue
<1> HIDE DEF cut
<1> QED
  BY <1>1, <1>2

LEMMA IdleFacts ==
  /\ Idle \in TaskRecs /\ Idle.view = NoView /\ Idle.at = "gone" /\ Idle.overlay = {}
  /\ Idle.ids = {} /\ Idle.where = {} /\ Idle.batch = <<>>
  BY DEF Idle, TaskRecs, States, PersistTail

LEMMA ResumeFacts ==
  ASSUME NEW T \in [Tasks -> TaskRecs], NEW i \in Tasks, NEW s \in States
  PROVE  /\ Resume(T, i, s) \in [Tasks -> TaskRecs]
         /\ \A j \in Tasks \ {i} : Resume(T, i, s)[j] = T[j]
         /\ i \notin live => Resume(T, i, s)[i] = Idle
         /\ i \in live => LET r == Resume(T, i, s)[i]
              IN  /\ r.view = T[i].view /\ r.at = s /\ r.boot = T[i].boot
                  /\ r.ids = T[i].ids /\ r.where = T[i].where /\ r.batch = T[i].batch
                  /\ r.overlay = T[i].overlay
<1> DEFINE q == [T[i] EXCEPT !.at = s]
           r == IF i \in live THEN q ELSE Idle
<1>1. /\ q \in TaskRecs /\ q.view = T[i].view /\ q.at = s /\ q.boot = T[i].boot
      /\ q.ids = T[i].ids /\ q.where = T[i].where /\ q.batch = T[i].batch /\ q.overlay = T[i].overlay
  BY DEF TaskRecs
<1>2. Resume(T, i, s) = [T EXCEPT ![i] = r]
  BY DEF Resume
<1> HIDE DEF q
<1> QED
  BY <1>1, <1>2, IdleFacts

\* A task that is not running is Idle, and only a replay has a batch.
Shape(i) ==
  /\ task[i].at = "gone" => task[i] = Idle
  /\ task[i].at # "gone" => task[i].view \in Views
  /\ i \in live => task[i].at # "gone"
  /\ task[i].at \notin {"replay", "forget"} => task[i].batch = <<>>
  /\ task[i].at = "replay" => task[i].batch # <<>>

Formed == Types /\ OneDriverEach /\ \A i \in Tasks : Shape(i)

\* Of all other tasks the step of one driver changes only overlays on the screen.
Others(i, S) ==
  \A j \in Tasks \ {i} :
    /\ j \notin live => task'[j] = task[j]
    /\ task'[j].view = task[j].view /\ task'[j].at = task[j].at
    /\ task'[j].ids = task[j].ids /\ task'[j].where = task[j].where
    /\ task'[j].batch = task[j].batch
    /\ task'[j].overlay = IF j \in live THEN task[j].overlay \ S ELSE task[j].overlay

\* The driver of i goes on at the state at, with these fields, or is gone.
Goes(i, at, overlay, ids, where, batch) ==
  IF i \in live
  THEN /\ task'[i].view = task[i].view /\ task'[i].at = at /\ task'[i].overlay = overlay
       /\ task'[i].ids = ids /\ task'[i].where = where /\ task'[i].batch = batch
  ELSE task'[i] = Idle

\* Every step of a driver keeps the form of the tasks.
LEMMA GoesFormed ==
  ASSUME Formed, NEW i \in Tasks, NEW S, Others(i, S), task' \in [Tasks -> TaskRecs],
         live' = live,
         \/ task'[i] = Idle /\ i \notin live
         \/ /\ task'[i].view = task[i].view /\ task[i].at # "gone" /\ task'[i].at # "gone"
            /\ task'[i].at \notin {"replay", "forget"} => task'[i].batch = <<>>
            /\ task'[i].at = "replay" => task'[i].batch # <<>>
  PROVE  OneDriverEach' /\ \A j \in Tasks : Shape(j)'
<1>1. ASSUME NEW j \in Tasks PROVE Shape(j)'
  <2>1. CASE j = i
    BY <2>1, IdleFacts DEF Formed, Shape
  <2>2. CASE j # i
    <3>1. Shape(j)
      BY DEF Formed
    <3>2. CASE j \in live
      BY <2>2, <3>1, <3>2 DEF Others, Shape
    <3>3. CASE j \notin live
      BY <2>2, <3>1, <3>3 DEF Others, Shape
    <3> QED
      BY <3>2, <3>3
  <2> QED
    BY <2>1, <2>2
<1>2. \A j \in live : j \in Tasks /\ task'[j].view = task[j].view
  <2>1. live \subseteq Tasks
    BY DEF Formed, Types
  <2> QED
    BY <2>1 DEF Others
<1>3. OneDriverEach'
  BY <1>2 DEF OneDriverEach, Formed
<1> QED
  BY <1>1, <1>3

-----------------------------------------------------------------------------
(* What the steps of a driver do to the tasks.                             *)

LEMMA FormedFacts ==
  ASSUME Formed
  PROVE  /\ task \in [Tasks -> TaskRecs] /\ live \subseteq Tasks /\ queue \in Seq(Entries)
         /\ saved \in [Compartments -> SUBSET Muts] /\ call \in [Muts -> CallRecs]
         /\ Mounted \subseteq Compartments /\ Bare \in Compartments
         /\ \A i \in Tasks : /\ Shape(i) /\ task[i] \in TaskRecs
                             /\ task[i].view \in Views => Home[task[i].view] \in Compartments
<1>1. /\ task \in [Tasks -> TaskRecs] /\ live \subseteq Tasks /\ queue \in Seq(Entries)
      /\ saved \in [Compartments -> SUBSET Muts] /\ call \in [Muts -> CallRecs]
  BY DEF Formed, Types, TaskRecs, CallRecs
<1>2. Bare \in Compartments /\ \A v \in Views : Home[v] \in Compartments
  BY DEF Compartments
<1>3. \A i \in Tasks : Shape(i)
  BY DEF Formed
<1>4. \A i \in live : task[i].view \in Views
  BY <1>1, <1>3 DEF Shape
<1> QED
  BY <1>1, <1>2, <1>3, <1>4 DEF Mounted

LEMMA HydrateFacts ==
  ASSUME Formed, NEW i \in Tasks, Hydrate(i)
  PROVE  /\ task' \in [Tasks -> TaskRecs] /\ Others(i, {})
         /\ Goes(i, "adopt", task[i].overlay, saved[Home[task[i].view]] \cup saved[Bare],
                 task[i].where, task[i].batch)
<1> DEFINE X == saved[Home[task[i].view]] \cup saved[Bare]
           q == [task[i] EXCEPT !.ids = X]
           T == [task EXCEPT ![i] = q]
<1>1. X \in SUBSET Muts /\ task[i] \in TaskRecs /\ task \in [Tasks -> TaskRecs]
  BY FormedFacts DEF Hydrate, Shape
<1>2. task' = Resume(T, i, "adopt")
  BY DEF Hydrate
<1> HIDE DEF X
<1>3. /\ q \in TaskRecs /\ q.ids = X /\ q.view = task[i].view /\ q.overlay = task[i].overlay
      /\ q.where = task[i].where /\ q.batch = task[i].batch
  BY <1>1 DEF TaskRecs
<1> HIDE DEF q
<1>4. T \in [Tasks -> TaskRecs] /\ T[i] = q /\ \A j \in Tasks \ {i} : T[j] = task[j]
  BY <1>1, <1>3
<1> HIDE DEF T
<1>5. "adopt" \in States
  BY DEF States
<1> QED
  BY <1>1, <1>2, <1>3, <1>4, <1>5, ResumeFacts DEF Others, Goes, X

LEMMA AdoptFacts ==
  ASSUME Formed, NEW i \in Tasks, Adopt(i)
  PROVE  /\ task' \in [Tasks -> TaskRecs] /\ Others(i, {})
         /\ Goes(i, "open", task[i].overlay \cup task[i].ids, task[i].ids, task[i].where, task[i].batch)
<1> DEFINE X == task[i].overlay \cup task[i].ids
           q == [task[i] EXCEPT !.overlay = X]
           T == [task EXCEPT ![i] = q]
<1>1. X \in SUBSET Muts /\ task[i] \in TaskRecs /\ task \in [Tasks -> TaskRecs]
  BY FormedFacts DEF TaskRecs
<1>2. task' = Resume(T, i, "open")
  BY DEF Adopt
<1> HIDE DEF X
<1>3. /\ q \in TaskRecs /\ q.ids = task[i].ids /\ q.view = task[i].view /\ q.overlay = X
      /\ q.where = task[i].where /\ q.batch = task[i].batch
  BY <1>1 DEF TaskRecs
<1> HIDE DEF q
<1>4. T \in [Tasks -> TaskRecs] /\ T[i] = q /\ \A j \in Tasks \ {i} : T[j] = task[j]
  BY <1>1, <1>3
<1> HIDE DEF T
<1>5. "open" \in States
  BY DEF States
<1> QED
  BY <1>1, <1>2, <1>3, <1>4, <1>5, ResumeFacts DEF Others, Goes, X

LEMMA OpenFacts ==
  ASSUME Formed, NEW i \in Tasks, Open(i)
  PROVE  /\ task' \in [Tasks -> TaskRecs] /\ Others(i, {})
         /\ Goes(i, "pull", task[i].overlay, {}, task[i].where, task[i].batch)
         /\ queue' \in Seq(Entries)
         /\ MutsOf(queue) \subseteq MutsOf(queue')
         /\ i \in live => MutsOf(queue') = MutsOf(queue) \cup task[i].ids
         /\ i \notin live => queue' = queue
<1>1. PICK answered \in BOOLEAN :
        task' = Resume([task EXCEPT ![i].ids = {}, ![i].boot = answered], i, "pull")
  BY DEF Open
<1> DEFINE q == [task[i] EXCEPT !.ids = {}, !.boot = answered]
           T == [task EXCEPT ![i] = q]
<1>0. queue \in Seq(Entries) /\ task[i].ids \in SUBSET Muts
  BY FormedFacts DEF TaskRecs
<1>2. task[i] \in TaskRecs /\ task \in [Tasks -> TaskRecs]
  BY FormedFacts
<1>3. /\ q \in TaskRecs /\ q.ids = {} /\ q.view = task[i].view /\ q.overlay = task[i].overlay
      /\ q.where = task[i].where /\ q.batch = task[i].batch
  BY <1>2 DEF TaskRecs
<1>4. task' = Resume(T, i, "pull")
  BY <1>1
<1> HIDE DEF q
<1>5. T \in [Tasks -> TaskRecs] /\ T[i] = q /\ \A j \in Tasks \ {i} : T[j] = task[j]
  BY <1>2, <1>3
<1> HIDE DEF T
<1>6. "pull" \in States
  BY DEF States
<1>7. /\ task' \in [Tasks -> TaskRecs] /\ Others(i, {})
      /\ Goes(i, "pull", task[i].overlay, {}, task[i].where, task[i].batch)
  BY <1>2, <1>3, <1>4, <1>5, <1>6, ResumeFacts DEF Others, Goes
<1>8. CASE i \in live
  <2>1. PICK s \in SetToSeqs(task[i].ids) :
          queue' = queue \o [k \in DOMAIN s |-> [mut |-> s[k], hydrated |-> TRUE]]
    BY <1>8 DEF Open
  <2> DEFINE h == [k \in DOMAIN s |-> [mut |-> s[k], hydrated |-> TRUE]]
  <2>2. h \in Seq(Entries) /\ MutsOf(h) = task[i].ids
    BY <1>0, OrderFacts
  <2> HIDE DEF h
  <2>3. queue' = queue \o h
    BY <2>1 DEF h
  <2> QED
    BY <1>0, <1>7, <1>8, <2>2, <2>3, QueueFacts
<1>9. CASE i \notin live
  BY <1>0, <1>7, <1>9 DEF Open
<1> QED
  BY <1>8, <1>9

\* The end of a tick: the driver takes the queue, or waits for the next tick.
LEMMA EndPullFacts ==
  ASSUME Formed, NEW i \in Tasks, NEW T \in [Tasks -> TaskRecs],
         \A j \in Tasks \ {i} : T[j] = task[j], T[i].view = task[i].view,
         T[i].overlay = task[i].overlay, T[i].batch = <<>>, EndPull(T, i)
  PROVE  /\ task' \in [Tasks -> TaskRecs] /\ Others(i, {})
         /\ \/ /\ i \in live /\ queue # <<>> /\ queue' = <<>>
               /\ Goes(i, "replay", task[i].overlay, T[i].ids, T[i].where, queue)
            \/ /\ queue' = queue
               /\ Goes(i, "pull", task[i].overlay, T[i].ids, T[i].where, <<>>)
<1> DEFINE takes == i \in live /\ ~ task[i].boot
<1>0. queue \in Seq(Entries) /\ "pull" \in States /\ "replay" \in States /\ T[i] \in TaskRecs
  BY FormedFacts DEF States
<1>1. CASE takes /\ queue # <<>>
  <2> DEFINE q == [T[i] EXCEPT !.at = "replay", !.batch = queue]
  <2>1. task' = [T EXCEPT ![i] = q] /\ queue' = <<>>
    BY <1>1 DEF EndPull
  <2>2. /\ q \in TaskRecs /\ q.ids = T[i].ids /\ q.view = T[i].view /\ q.overlay = T[i].overlay
        /\ q.where = T[i].where /\ q.batch = queue /\ q.at = "replay"
    BY <1>0 DEF TaskRecs
  <2> HIDE DEF q
  <2>3. task' \in [Tasks -> TaskRecs] /\ task'[i] = q /\ \A j \in Tasks \ {i} : task'[j] = task[j]
    BY <2>1, <2>2
  <2> QED
    BY <1>1, <2>1, <2>2, <2>3 DEF Others, Goes
<1>2. CASE ~ (takes /\ queue # <<>>)
  <2> DEFINE q == [T[i] EXCEPT !.boot = FALSE]
             U == [T EXCEPT ![i] = q]
  <2>1. task' = Resume(U, i, "pull") /\ queue' = queue
    BY <1>2 DEF EndPull
  <2>2. /\ q \in TaskRecs /\ q.ids = T[i].ids /\ q.view = T[i].view /\ q.overlay = T[i].overlay
        /\ q.where = T[i].where /\ q.batch = T[i].batch
    BY <1>0 DEF TaskRecs
  <2> HIDE DEF q
  <2>3. U \in [Tasks -> TaskRecs] /\ U[i] = q /\ \A j \in Tasks \ {i} : U[j] = task[j]
    BY <2>2
  <2> HIDE DEF U
  <2> QED
    BY <1>0, <2>1, <2>2, <2>3, ResumeFacts DEF Others, Goes
<1> QED
  BY <1>1, <1>2

LEMMA PersistFacts ==
  ASSUME NEW T \in [Tasks -> TaskRecs], NEW i \in Tasks
  PROVE  /\ Persist(T, i) \in [Tasks -> TaskRecs]
         /\ \A j \in Tasks \ {i} : Persist(T, i)[j] = T[j]
         /\ i \notin live => Persist(T, i)[i] = Idle
         /\ i \in live => LET r == Persist(T, i)[i]
              IN  /\ r.view = T[i].view /\ r.at = "save" /\ r.ids = T[i].overlay
                  /\ r.where = T[i].where /\ r.batch = T[i].batch /\ r.overlay = T[i].overlay
<1> DEFINE q == [T[i] EXCEPT !.ids = T[i].overlay]
           U == [T EXCEPT ![i] = q]
<1>1. /\ q \in TaskRecs /\ q.ids = T[i].overlay /\ q.view = T[i].view /\ q.overlay = T[i].overlay
      /\ q.where = T[i].where /\ q.batch = T[i].batch
  BY DEF TaskRecs
<1>2. Persist(T, i) = Resume(U, i, "save")
  BY DEF Persist
<1> HIDE DEF q
<1>3. U \in [Tasks -> TaskRecs] /\ U[i] = q /\ \A j \in Tasks \ {i} : U[j] = T[j]
  BY <1>1
<1> HIDE DEF U
<1>4. "save" \in States
  BY DEF States
<1> QED
  BY <1>1, <1>2, <1>3, <1>4, ResumeFacts

LEMMA PullFacts ==
  ASSUME Formed, NEW i \in Tasks, Pull(i)
  PROVE  \E E \in SUBSET Muts :
           /\ settled' = settled \cup E
           /\ \A m \in E : \E j \in live : m \in task[j].overlay
           /\ task' \in [Tasks -> TaskRecs] /\ Others(i, E)
           /\ \/ Goes(i, "save", task[i].overlay \ E, task[i].overlay \ E, task[i].where, task[i].batch)
              \/ i \in live /\ Goes(i, "retire", task[i].overlay \ E, E, Mounted, task[i].batch)
<1>1. PICK E \in SUBSET Muts : LET T == Dequeue(task, E) IN
        /\ settled' = settled \cup E
        /\ \A m \in E : \E j \in live : m \in task[j].overlay
        /\ E # {} => i \in live
        /\ task' = IF E = {} THEN Persist(T, i)
                             ELSE [T EXCEPT ![i].at = "retire", ![i].ids = E, ![i].where = Mounted]
  <2>1. PICK F \in SUBSET {m \in Muts : server[m] = "applied"} :
          LET echoed == {m \in F : i \in live /\ \E j \in live : m \in task[j].overlay}
              T == Dequeue(task, echoed)
          IN  /\ settled' = settled \cup echoed
              /\ task' = IF echoed = {} THEN Persist(T, i)
                         ELSE [T EXCEPT ![i].at = "retire", ![i].ids = echoed, ![i].where = Mounted]
    BY DEF Pull
  <2> DEFINE echoed == {m \in F : i \in live /\ \E j \in live : m \in task[j].overlay}
  <2>2. /\ echoed \in SUBSET Muts /\ (echoed # {} => i \in live)
        /\ \A m \in echoed : \E j \in live : m \in task[j].overlay
    OBVIOUS
  <2> QED
    BY <2>1, <2>2
<1> DEFINE T == Dequeue(task, E)
<1>0. task \in [Tasks -> TaskRecs]
  BY FormedFacts
<1>2. /\ T \in [Tasks -> TaskRecs]
      /\ \A j \in Tasks \ live : T[j] = task[j]
      /\ \A j \in Tasks :
           /\ T[j].view = task[j].view /\ T[j].at = task[j].at
           /\ T[j].ids = task[j].ids /\ T[j].where = task[j].where /\ T[j].batch = task[j].batch
           /\ T[j].overlay = IF j \in live THEN task[j].overlay \ E ELSE task[j].overlay
  <2> HIDE DEF T
  <2>1. T = Dequeue(task, E)
    BY DEF T
  <2>2. T \in [Tasks -> TaskRecs]
    BY <1>0, <2>1, DequeueFacts
  <2>3. \A j \in Tasks \ live : T[j] = task[j]
    BY <1>0, <2>1, DequeueFacts
  <2>4. \A j \in Tasks :
           /\ T[j].view = task[j].view /\ T[j].at = task[j].at
           /\ T[j].ids = task[j].ids /\ T[j].where = task[j].where /\ T[j].batch = task[j].batch
    BY <1>0, <2>1, DequeueFacts
  <2>5. ASSUME NEW j \in Tasks
        PROVE  /\ j \in live => T[j].overlay = task[j].overlay \ E
               /\ j \notin live => T[j].overlay = task[j].overlay
    BY <1>0, <2>1, DequeueFacts
  <2>6. \A j \in Tasks :
           T[j].overlay = IF j \in live THEN task[j].overlay \ E ELSE task[j].overlay
    BY <2>5
  <2> QED
    BY <2>2, <2>3, <2>4, <2>6
<1> HIDE DEF T
<1>3. CASE E = {}
  <2>1. task' = Persist(T, i)
    BY <1>1, <1>3 DEF T
  <2>2. /\ task' \in [Tasks -> TaskRecs] /\ Others(i, E)
        /\ Goes(i, "save", task[i].overlay \ E, task[i].overlay \ E, task[i].where, task[i].batch)
    <3>1. /\ task' \in [Tasks -> TaskRecs] /\ \A j \in Tasks \ {i} : task'[j] = T[j]
          /\ i \notin live => task'[i] = Idle
          /\ i \in live =>
               /\ task'[i].view = T[i].view /\ task'[i].at = "save" /\ task'[i].ids = T[i].overlay
               /\ task'[i].where = T[i].where /\ task'[i].batch = T[i].batch
               /\ task'[i].overlay = T[i].overlay
      BY <1>2, <2>1, PersistFacts
    <3>2. Others(i, E)
      BY <1>2, <3>1 DEF Others
    <3>3. Goes(i, "save", task[i].overlay \ E, task[i].overlay \ E, task[i].where, task[i].batch)
      BY <1>2, <3>1 DEF Goes
    <3> QED
      BY <3>1, <3>2, <3>3
  <2> QED
    BY <1>1, <2>2
<1>4. CASE E # {}
  <2> DEFINE q == [T[i] EXCEPT !.at = "retire", !.ids = E, !.where = Mounted]
  <2>1. task' = [T EXCEPT ![i] = q]
    BY <1>1, <1>4 DEF T
  <2>2. T[i] \in TaskRecs /\ "retire" \in States /\ Mounted \in SUBSET Compartments
    BY <1>2, FormedFacts DEF States
  <2>3. /\ q \in TaskRecs /\ q.ids = E /\ q.view = T[i].view /\ q.overlay = T[i].overlay
        /\ q.where = Mounted /\ q.batch = T[i].batch /\ q.at = "retire"
    BY <2>2 DEF TaskRecs
  <2> HIDE DEF q
  <2>4. task' \in [Tasks -> TaskRecs] /\ task'[i] = q /\ \A j \in Tasks \ {i} : task'[j] = T[j]
    BY <1>2, <2>1, <2>3
  <2>5. Others(i, E)
    BY <1>2, <2>4 DEF Others
  <2>6. i \in live /\ Goes(i, "retire", task[i].overlay \ E, E, Mounted, task[i].batch)
    BY <1>1, <1>2, <1>4, <2>3, <2>4 DEF Goes
  <2> QED
    BY <1>1, <2>4, <2>5, <2>6
<1> QED
  BY <1>3, <1>4

LEMMA RetireFacts ==
  ASSUME Formed, NEW i \in Tasks, Retire(i)
  PROVE  /\ task' \in [Tasks -> TaskRecs] /\ Others(i, {})
         /\ Goes(i, "save", task[i].overlay, task[i].overlay, {}, task[i].batch)
<1> DEFINE q == [task[i] EXCEPT !.where = {}]
           T == [task EXCEPT ![i] = q]
<1>1. task[i] \in TaskRecs /\ task \in [Tasks -> TaskRecs]
  BY FormedFacts
<1>2. task' = Persist(T, i)
  BY DEF Retire
<1>3. /\ q \in TaskRecs /\ q.view = task[i].view /\ q.overlay = task[i].overlay
      /\ q.where = {} /\ q.batch = task[i].batch
  BY <1>1 DEF TaskRecs
<1> HIDE DEF q
<1>4. T \in [Tasks -> TaskRecs] /\ T[i] = q /\ \A j \in Tasks \ {i} : T[j] = task[j]
  BY <1>1, <1>3
<1> HIDE DEF T
<1> QED
  BY <1>1, <1>2, <1>3, <1>4, PersistFacts DEF Others, Goes

\* A store after a clear or a save.
LEMMA StoreFacts ==
  ASSUME Formed
  PROVE  /\ \A S, C : /\ Cleared(S, C) \in [Compartments -> SUBSET Muts]
                      /\ \A c \in Compartments : /\ Cleared(S, C)[c] \subseteq saved[c]
                                                 /\ saved[c] \ S \subseteq Cleared(S, C)[c]
         /\ \A c, X : X \in SUBSET Muts
              => /\ [saved EXCEPT ![c] = X] \in [Compartments -> SUBSET Muts]
                 /\ \A d \in Compartments : [saved EXCEPT ![c] = X][d] = IF d = c THEN X ELSE saved[d]
  BY FormedFacts DEF Cleared

\* A driver that still saves pendings goes on whether its view is there or not.
LEMMA SavingFacts ==
  ASSUME Formed, NEW i \in Tasks, Save(i) \/ Enqueue(i)
  PROVE  /\ task' \in [Tasks -> TaskRecs] /\ Others(i, {})
         /\ saved' \in [Compartments -> SUBSET Muts]
         /\ \A c \in Compartments : /\ saved[c] \subseteq saved'[c]
                                    /\ saved'[c] \subseteq saved[c] \cup task[i].ids
         /\ \/ i \notin live /\ task'[i] = Idle
            \/ /\ task'[i].view = task[i].view /\ task'[i].overlay = task[i].overlay
               /\ task'[i].batch = task[i].batch
               /\ \/ task'[i].at = "enqueue" /\ task'[i].ids \subseteq task[i].ids
                  \/ task'[i].at = "sweep" /\ task'[i].ids = saved'[Home[task[i].view]]
<1> DEFINE H == Home[task[i].view]
<1>0. /\ task[i] \in TaskRecs /\ task \in [Tasks -> TaskRecs] /\ H \in Compartments
      /\ task[i].ids \in SUBSET Muts /\ saved \in [Compartments -> SUBSET Muts]
  BY FormedFacts DEF Save, Enqueue, Shape, TaskRecs
<1>1. ASSUME saved' \in [Compartments -> SUBSET Muts], task' = ReadBack(task, i)
      PROVE  /\ task' \in [Tasks -> TaskRecs] /\ Others(i, {})
             /\ task'[i].view = task[i].view /\ task'[i].overlay = task[i].overlay
             /\ task'[i].batch = task[i].batch
             /\ task'[i].at = "sweep" /\ task'[i].ids = saved'[H]
  <2> DEFINE X == saved'[H]
             q == [task[i] EXCEPT !.ids = X, !.at = "sweep"]
  <2>1. X \in SUBSET Muts /\ "sweep" \in States
    BY <1>0, <1>1 DEF States, PersistTail
  <2>2. task' = [task EXCEPT ![i] = q]
    BY <1>1 DEF ReadBack
  <2> HIDE DEF X
  <2>3. /\ q \in TaskRecs /\ q.ids = X /\ q.view = task[i].view /\ q.overlay = task[i].overlay
        /\ q.batch = task[i].batch /\ q.at = "sweep"
    BY <1>0, <2>1 DEF TaskRecs
  <2> HIDE DEF q
  <2>4. task' \in [Tasks -> TaskRecs] /\ task'[i] = q /\ \A j \in Tasks \ {i} : task'[j] = task[j]
    BY <1>0, <2>2, <2>3
  <2> QED
    BY <1>0, <2>3, <2>4 DEF Others, X
<1>2. CASE Save(i)
  <2>1. saved' = saved
    BY <1>2 DEF Save
  <2>2. CASE i \in live /\ task[i].ids = {}
    <3>1. task' = ReadBack(task, i)
      BY <1>2, <2>2 DEF Save
    <3> QED
      BY <1>0, <1>1, <2>1, <3>1
  <2>3. CASE ~ (i \in live /\ task[i].ids = {})
    <3>1. task' = Resume(task, i, "enqueue") /\ "enqueue" \in States
      BY <1>2, <2>3 DEF Save, States, PersistTail
    <3> QED
      BY <1>0, <2>1, <3>1, ResumeFacts DEF Others
  <2> QED
    BY <2>2, <2>3
<1>3. CASE Enqueue(i)
  <2>1. PICK m \in task[i].ids :
          /\ saved' = [saved EXCEPT ![H] = saved[H] \cup {m}]
          /\ task' = IF task[i].ids = {m} THEN ReadBack(task, i)
                                          ELSE [task EXCEPT ![i].ids = task[i].ids \ {m}]
    BY <1>0, <1>3 DEF Enqueue
  <2>2. saved[H] \cup {m} \in SUBSET Muts
    BY <1>0
  <2>3. /\ saved' \in [Compartments -> SUBSET Muts]
        /\ \A c \in Compartments : saved'[c] = IF c = H THEN saved[H] \cup {m} ELSE saved[c]
    BY <2>1, <2>2, StoreFacts
  <2>4. CASE task[i].ids = {m}
    BY <1>0, <1>1, <2>1, <2>3, <2>4
  <2>5. CASE task[i].ids # {m}
    <3> DEFINE X == task[i].ids \ {m}
               q == [task[i] EXCEPT !.ids = X]
    <3>1. task' = [task EXCEPT ![i] = q] /\ X \in SUBSET Muts /\ X \subseteq task[i].ids
      BY <1>0, <2>1, <2>5
    <3> HIDE DEF X
    <3>2. /\ q \in TaskRecs /\ q.ids = X /\ q.view = task[i].view /\ q.overlay = task[i].overlay
          /\ q.batch = task[i].batch /\ q.at = task[i].at
      BY <1>0, <3>1 DEF TaskRecs
    <3> HIDE DEF q
    <3>3. task' \in [Tasks -> TaskRecs] /\ task'[i] = q /\ \A j \in Tasks \ {i} : task'[j] = task[j]
      BY <1>0, <3>1, <3>2
    <3>4. Others(i, {})
      BY <1>0, <3>3 DEF Others
    <3>5. task[i].at = "enqueue"
      BY <1>3 DEF Enqueue
    <3> QED
      BY <2>3, <3>1, <3>2, <3>3, <3>4, <3>5
  <2> QED
    BY <2>4, <2>5
<1> QED
  BY <1>2, <1>3

\* T is what task is when the overlays of S are gone from the screen.
Same(T, S) ==
  /\ T \in [Tasks -> TaskRecs]
  /\ \A j \in Tasks :
       /\ j \notin live => T[j] = task[j]
       /\ T[j].view = task[j].view /\ T[j].at = task[j].at
       /\ T[j].ids = task[j].ids /\ T[j].where = task[j].where
       /\ T[j].batch = task[j].batch
       /\ j \in live => T[j].overlay = task[j].overlay \ S
       /\ j \notin live => T[j].overlay = task[j].overlay

LEMMA SameFacts ==
  ASSUME Formed, NEW S \in SUBSET Muts
  PROVE  Same(Dequeue(task, S), S) /\ Same(task, {})
<1> DEFINE D == Dequeue(task, S)
<1>1. task \in [Tasks -> TaskRecs]
  BY FormedFacts
<1>2. D = Dequeue(task, S)
  OBVIOUS
<1> HIDE DEF D
<1>3. D \in [Tasks -> TaskRecs]
  BY <1>1, <1>2, DequeueFacts
<1>4. ASSUME NEW j \in Tasks
      PROVE  /\ j \notin live => D[j] = task[j]
             /\ D[j].view = task[j].view /\ D[j].at = task[j].at
             /\ D[j].ids = task[j].ids /\ D[j].where = task[j].where
             /\ D[j].batch = task[j].batch
             /\ j \in live => D[j].overlay = task[j].overlay \ S
             /\ j \notin live => D[j].overlay = task[j].overlay
  BY <1>1, <1>2, DequeueFacts
<1>5. Same(D, S)
  BY <1>3, <1>4 DEF Same
<1>6. Same(task, {})
  BY <1>1 DEF Same
<1> QED
  BY <1>2, <1>5, <1>6

LEMMA PullFailsFacts ==
  ASSUME Formed, NEW i \in Tasks, PullFails(i)
  PROVE  /\ task' \in [Tasks -> TaskRecs] /\ Others(i, {})
         /\ \/ /\ i \in live /\ queue # <<>> /\ queue' = <<>>
               /\ Goes(i, "replay", task[i].overlay, task[i].ids, task[i].where, queue)
            \/ /\ queue' = queue
               /\ Goes(i, "pull", task[i].overlay, task[i].ids, task[i].where, <<>>)
<1>1. task \in [Tasks -> TaskRecs] /\ task[i].batch = <<>> /\ EndPull(task, i)
  BY FormedFacts DEF PullFails, Shape
<1> QED
  BY <1>1, EndPullFacts

\* The end of a persist: the tail of the tick, with nothing in hand.
LEMMA SweptFacts ==
  ASSUME Formed, NEW i \in Tasks, task[i].at \in {"sweep", "mark"},
         EndPull([task EXCEPT ![i].ids = {}], i)
  PROVE  /\ task' \in [Tasks -> TaskRecs] /\ Others(i, {})
         /\ \/ /\ i \in live /\ queue # <<>> /\ queue' = <<>>
               /\ Goes(i, "replay", task[i].overlay, {}, task[i].where, queue)
            \/ /\ queue' = queue
               /\ Goes(i, "pull", task[i].overlay, {}, task[i].where, <<>>)
<1> DEFINE q == [task[i] EXCEPT !.ids = {}]
           T == [task EXCEPT ![i] = q]
<1>1. task[i] \in TaskRecs /\ task \in [Tasks -> TaskRecs] /\ task[i].batch = <<>>
  BY FormedFacts DEF Shape
<1>2. EndPull(T, i)
  OBVIOUS
<1>3. /\ q \in TaskRecs /\ q.ids = {} /\ q.view = task[i].view /\ q.overlay = task[i].overlay
      /\ q.where = task[i].where /\ q.batch = task[i].batch
  BY <1>1 DEF TaskRecs
<1> HIDE DEF q
<1>4. T \in [Tasks -> TaskRecs] /\ T[i] = q /\ \A j \in Tasks \ {i} : T[j] = task[j]
  BY <1>1, <1>3
<1> HIDE DEF T
<1> QED
  BY <1>1, <1>2, <1>3, <1>4, EndPullFacts

LEMMA SweepFacts ==
  ASSUME Formed, NEW i \in Tasks, Sweep(i)
  PROVE  /\ task' \in [Tasks -> TaskRecs] /\ Others(i, {})
         /\ \/ /\ i \in live /\ queue # <<>> /\ queue' = <<>>
               /\ Goes(i, "replay", task[i].overlay, {}, task[i].where, queue)
            \/ /\ queue' = queue
               /\ Goes(i, "pull", task[i].overlay, {}, task[i].where, <<>>)
            \/ /\ queue' = queue /\ i \in live
               /\ Goes(i, "mark", task[i].overlay, task[i].ids \ task[i].overlay, task[i].where, <<>>)
<1> DEFINE stale == IF i \in live THEN task[i].ids \ task[i].overlay ELSE {}
<1>1. CASE stale = {}
  <2>1. task[i].at \in {"sweep", "mark"} /\ EndPull([task EXCEPT ![i].ids = {}], i)
    BY <1>1 DEF Sweep
  <2> QED
    BY <2>1, SweptFacts
<1>2. CASE stale # {}
  <2> DEFINE X == task[i].ids \ task[i].overlay
             q == [task[i] EXCEPT !.ids = X, !.at = "mark"]
  <2>1. task' = [task EXCEPT ![i] = q] /\ queue' = queue /\ i \in live
    BY <1>2 DEF Sweep
  <2>2. /\ task[i] \in TaskRecs /\ task \in [Tasks -> TaskRecs] /\ task[i].batch = <<>>
        /\ "mark" \in States /\ X \in SUBSET Muts
    BY FormedFacts DEF Sweep, Shape, States, PersistTail, TaskRecs
  <2> HIDE DEF X
  <2>3. /\ q \in TaskRecs /\ q.ids = X /\ q.view = task[i].view /\ q.overlay = task[i].overlay
        /\ q.where = task[i].where /\ q.batch = task[i].batch /\ q.at = "mark"
    BY <2>2 DEF TaskRecs
  <2> HIDE DEF q
  <2>4. task' \in [Tasks -> TaskRecs] /\ task'[i] = q /\ \A j \in Tasks \ {i} : task'[j] = task[j]
    BY <2>1, <2>2, <2>3
  <2>5. Others(i, {})
    BY <2>4 DEF Others
  <2>6. Goes(i, "mark", task[i].overlay, X, task[i].where, <<>>)
    BY <2>1, <2>2, <2>3, <2>4 DEF Goes
  <2> QED
    BY <2>1, <2>4, <2>5, <2>6 DEF X
<1> QED
  BY <1>1, <1>2

LEMMA MarkFacts ==
  ASSUME Formed, NEW i \in Tasks, Mark(i)
  PROVE  /\ task' \in [Tasks -> TaskRecs] /\ Others(i, {})
         /\ \/ /\ i \in live /\ queue # <<>> /\ queue' = <<>>
               /\ Goes(i, "replay", task[i].overlay, {}, task[i].where, queue)
            \/ /\ queue' = queue
               /\ Goes(i, "pull", task[i].overlay, {}, task[i].where, <<>>)
         /\ saved' \in [Compartments -> SUBSET Muts]
         /\ \A c \in Compartments :
              saved'[c] = IF c = Home[task[i].view] THEN saved[c] \ task[i].ids ELSE saved[c]
<1> DEFINE H == Home[task[i].view]
           X == saved[H] \ task[i].ids
<1>1. task[i].at \in {"sweep", "mark"} /\ EndPull([task EXCEPT ![i].ids = {}], i)
  BY DEF Mark
<1>2. H \in Compartments /\ saved \in [Compartments -> SUBSET Muts]
  BY FormedFacts DEF Mark, Shape
<1>3. saved' = [saved EXCEPT ![H] = X] /\ X \in SUBSET Muts
  BY <1>2 DEF Mark
<1>4. /\ saved' \in [Compartments -> SUBSET Muts]
      /\ \A c \in Compartments : saved'[c] = IF c = H THEN X ELSE saved[c]
  BY <1>2, <1>3
<1> QED
  BY <1>1, <1>4, SweptFacts

\* The replay loop goes on with the rest of the batch, or drops it.
LEMMA NextEntryFacts ==
  ASSUME Formed, NEW i \in Tasks, NEW S, NEW T, Same(T, S), NEW rest \in Seq(Entries),
         NextEntry(T, i, rest)
  PROVE  /\ task' \in [Tasks -> TaskRecs] /\ Others(i, S)
         /\ Goes(i, IF rest = <<>> THEN "pull" ELSE "replay", task[i].overlay \ S, {}, {}, rest)
         /\ i \in live => dropped' = dropped
         /\ i \notin live => dropped' = dropped \cup MutsOf(rest)
<1> DEFINE q == [T[i] EXCEPT !.batch = rest, !.ids = {}, !.where = {}]
           U == [T EXCEPT ![i] = q]
           s == IF rest = <<>> THEN "pull" ELSE "replay"
<1>1. task' = Resume(U, i, s) /\ s \in States
  BY DEF NextEntry, States
<1>2. /\ i \in live => dropped' = dropped
      /\ i \notin live => dropped' = dropped \cup MutsOf(rest)
  BY DEF NextEntry
<1>3. T[i] \in TaskRecs /\ T \in [Tasks -> TaskRecs]
  BY DEF Same
<1>4. /\ q \in TaskRecs /\ q.view = T[i].view /\ q.overlay = T[i].overlay
      /\ q.ids = {} /\ q.where = {} /\ q.batch = rest
  BY <1>3 DEF TaskRecs
<1> HIDE DEF q
<1>5. U \in [Tasks -> TaskRecs] /\ U[i] = q /\ \A j \in Tasks \ {i} : U[j] = T[j]
  BY <1>3, <1>4
<1> HIDE DEF U, s
<1>6. /\ task' \in [Tasks -> TaskRecs] /\ \A j \in Tasks \ {i} : task'[j] = T[j]
      /\ i \notin live => task'[i] = Idle
      /\ i \in live =>
           /\ task'[i].view = T[i].view /\ task'[i].at = s /\ task'[i].ids = {}
           /\ task'[i].where = {} /\ task'[i].batch = rest /\ task'[i].overlay = T[i].overlay
  <2>1. /\ task' \in [Tasks -> TaskRecs] /\ \A j \in Tasks \ {i} : task'[j] = U[j]
        /\ i \notin live => task'[i] = Idle
    BY <1>1, <1>5, ResumeFacts
  <2>2. ASSUME i \in live
        PROVE  /\ task'[i].view = U[i].view /\ task'[i].at = s /\ task'[i].ids = U[i].ids
               /\ task'[i].where = U[i].where /\ task'[i].batch = U[i].batch
               /\ task'[i].overlay = U[i].overlay
    BY <1>1, <1>5, <2>2, ResumeFacts
  <2> QED
    BY <1>4, <1>5, <2>1, <2>2
<1>7. Others(i, S)
  <2>1. ASSUME NEW j \in Tasks \ {i}
        PROVE  /\ j \notin live => task'[j] = task[j]
               /\ task'[j].view = task[j].view /\ task'[j].at = task[j].at
               /\ task'[j].ids = task[j].ids /\ task'[j].where = task[j].where
               /\ task'[j].batch = task[j].batch
               /\ j \in live => task'[j].overlay = task[j].overlay \ S
               /\ j \notin live => task'[j].overlay = task[j].overlay
    BY <1>6 DEF Same
  <2> QED
    BY <2>1 DEF Others
<1>8. Goes(i, s, task[i].overlay \ S, {}, {}, rest)
  BY <1>6 DEF Goes, Same
<1> QED
  BY <1>2, <1>6, <1>7, <1>8 DEF s

LEMMA EntryFacts ==
  ASSUME Formed, NEW i \in Tasks, task[i].at = "replay"
  PROVE  /\ Entry(i) \in Entries /\ Entry(i).mut \in Muts /\ {Entry(i).mut} \in SUBSET Muts
         /\ task[i].batch \in Seq(Entries) /\ Tail(task[i].batch) \in Seq(Entries)
         /\ MutsOf(task[i].batch) = {Entry(i).mut} \cup MutsOf(Tail(task[i].batch))
         /\ MutsOf(task[i].batch) \subseteq Muts /\ MutsOf(Tail(task[i].batch)) \subseteq Muts
         /\ queue \in Seq(Entries) /\ dropped \subseteq Muts /\ settled \subseteq Muts
<1>1. task[i].batch \in Seq(Entries) /\ task[i].batch # <<>> /\ queue \in Seq(Entries)
  BY FormedFacts DEF Shape, TaskRecs
<1>2. dropped \subseteq Muts /\ settled \subseteq Muts
  BY DEF Formed, Types
<1>3. /\ Entry(i) \in Entries /\ Tail(task[i].batch) \in Seq(Entries)
      /\ MutsOf(task[i].batch) = {Entry(i).mut} \cup MutsOf(Tail(task[i].batch))
  BY <1>1, QueueFacts DEF Entry
<1>4. Entry(i).mut \in Muts
  BY <1>3 DEF Entries
<1> QED
  BY <1>1, <1>2, <1>3, <1>4, QueueFacts

\* A replay goes on with the rest of the batch, waits for a clear, or waits for the
\* next tick, and no entry of the batch is forgotten.
Replayed(i, S, at, ids, where, rest) ==
  /\ rest \in Seq(Entries)
  /\ at \in {"pull", "replay", "forget"}
  /\ at = "replay" => rest # <<>>
  /\ at = "pull" => rest = <<>>
  /\ at # "forget" => ids = {}
  /\ ids \subseteq settled'
  /\ task' \in [Tasks -> TaskRecs]
  /\ Others(i, S)
  /\ Goes(i, at, task[i].overlay \ S, ids, where, rest)
  /\ settled \subseteq settled' /\ settled' \subseteq Muts
  /\ dropped \subseteq dropped' /\ dropped' \subseteq Muts
  /\ queue' \in Seq(Entries)
  /\ MutsOf(queue) \subseteq MutsOf(queue')
  /\ i \in live => MutsOf(task[i].batch) \subseteq S \cup MutsOf(queue') \cup MutsOf(rest)
  /\ i \notin live => MutsOf(task[i].batch) \subseteq S \cup dropped'

LEMMA AcceptedFacts ==
  ASSUME Formed, NEW i \in Tasks, ReplayAccepted(i)
  PROVE  \E S \in SUBSET Muts : \E at, ids, where, rest : Replayed(i, S, at, ids, where, rest)
<1> DEFINE m == Entry(i).mut
           rest == Tail(task[i].batch)
           at == IF rest = <<>> THEN "pull" ELSE "replay"
<1>1. /\ m \in Muts /\ {m} \in SUBSET Muts /\ rest \in Seq(Entries)
      /\ MutsOf(task[i].batch) = {m} \cup MutsOf(rest) /\ MutsOf(rest) \subseteq Muts
      /\ queue \in Seq(Entries) /\ dropped \subseteq Muts /\ settled \subseteq Muts
  BY EntryFacts DEF ReplayAccepted
<1>2. NextEntry(Dequeue(task, {m}), i, rest) /\ settled' = settled \cup {m} /\ queue' = queue
  BY DEF ReplayAccepted
<1> HIDE DEF m, rest
<1>3. Same(Dequeue(task, {m}), {m})
  BY <1>1, SameFacts
<1>4. /\ task' \in [Tasks -> TaskRecs] /\ Others(i, {m})
      /\ Goes(i, at, task[i].overlay \ {m}, {}, {}, rest)
      /\ i \in live => dropped' = dropped
      /\ i \notin live => dropped' = dropped \cup MutsOf(rest)
  BY <1>1, <1>2, <1>3, NextEntryFacts
<1>5. Replayed(i, {m}, at, {}, {}, rest)
  BY <1>1, <1>2, <1>4 DEF Replayed
<1> QED
  BY <1>1, <1>5

LEMMA OfflineFacts ==
  ASSUME Formed, NEW i \in Tasks, ReplayOffline(i)
  PROVE  \E S \in SUBSET Muts : \E at, ids, where, rest : Replayed(i, S, at, ids, where, rest)
<1> DEFINE rest == IF i \in live THEN Tail(task[i].batch) ELSE task[i].batch
           at == IF rest = <<>> THEN "pull" ELSE "replay"
<1>1. /\ Entry(i) \in Entries /\ task[i].batch \in Seq(Entries) /\ Tail(task[i].batch) \in Seq(Entries)
      /\ MutsOf(task[i].batch) = {Entry(i).mut} \cup MutsOf(Tail(task[i].batch))
      /\ MutsOf(task[i].batch) \subseteq Muts
      /\ queue \in Seq(Entries) /\ dropped \subseteq Muts /\ settled \subseteq Muts
  BY EntryFacts DEF ReplayOffline
<1>2. /\ NextEntry(task, i, rest) /\ settled' = settled
      /\ queue' = IF i \in live THEN Append(queue, Entry(i)) ELSE queue
  BY DEF ReplayOffline
<1>3. rest \in Seq(Entries)
  BY <1>1
<1>4. /\ i \in live => rest = Tail(task[i].batch)
      /\ i \notin live => rest = task[i].batch
  OBVIOUS
<1> HIDE DEF rest
<1>5. Same(task, {})
  BY SameFacts
<1>6. /\ task' \in [Tasks -> TaskRecs] /\ Others(i, {})
      /\ Goes(i, at, task[i].overlay \ {}, {}, {}, rest)
      /\ i \in live => dropped' = dropped
      /\ i \notin live => dropped' = dropped \cup MutsOf(rest)
  BY <1>2, <1>3, <1>5, NextEntryFacts
<1>7. /\ queue' \in Seq(Entries)
      /\ i \in live => MutsOf(queue') = MutsOf(queue) \cup {Entry(i).mut}
      /\ i \notin live => queue' = queue
  BY <1>1, <1>2, QueueFacts
<1>8. Replayed(i, {}, at, {}, {}, rest)
  BY <1>1, <1>2, <1>3, <1>4, <1>6, <1>7 DEF Replayed
<1> QED
  BY <1>8

LEMMA RefusedFacts ==
  ASSUME Formed, NEW i \in Tasks, ReplayRefused(i)
  PROVE  \E S \in SUBSET Muts : \E at, ids, where, rest : Replayed(i, S, at, ids, where, rest)
<1> DEFINE m == Entry(i).mut
           D == Dequeue(task, {m})
           rest == Tail(task[i].batch)
<1>1. /\ m \in Muts /\ {m} \in SUBSET Muts /\ rest \in Seq(Entries)
      /\ task[i].batch \in Seq(Entries) /\ MutsOf(task[i].batch) \subseteq Muts
      /\ MutsOf(task[i].batch) = {m} \cup MutsOf(rest) /\ MutsOf(rest) \subseteq Muts
      /\ queue \in Seq(Entries) /\ dropped \subseteq Muts /\ settled \subseteq Muts
  BY EntryFacts DEF ReplayRefused
<1>2. settled' = settled \cup {m} /\ queue' = queue
  BY DEF ReplayRefused
<1>3. Same(D, {m}) /\ Same(task, {})
  BY <1>1, SameFacts
<1>4. CASE i \in live
  <2> DEFINE q == [D[i] EXCEPT !.at = "forget", !.ids = {m}, !.where = Mounted, !.batch = rest]
  <2>1. task' = [D EXCEPT ![i] = q] /\ dropped' = dropped
    BY <1>4 DEF ReplayRefused
  <2> HIDE DEF D, rest, m
  <2>2. /\ D \in [Tasks -> TaskRecs] /\ D[i] \in TaskRecs /\ Mounted \in SUBSET Compartments
        /\ "forget" \in States
    BY <1>3, FormedFacts DEF Same, States
  <2>3. /\ q \in TaskRecs /\ q.view = D[i].view /\ q.overlay = D[i].overlay /\ q.at = "forget"
        /\ q.ids = {m} /\ q.where = Mounted /\ q.batch = rest
    BY <1>1, <2>2 DEF TaskRecs
  <2> HIDE DEF q
  <2>4. task' \in [Tasks -> TaskRecs] /\ task'[i] = q /\ \A j \in Tasks \ {i} : task'[j] = D[j]
    BY <2>1, <2>2, <2>3
  <2>5. Others(i, {m})
    <3>1. ASSUME NEW j \in Tasks \ {i}
          PROVE  /\ j \notin live => task'[j] = task[j]
                 /\ task'[j].view = task[j].view /\ task'[j].at = task[j].at
                 /\ task'[j].ids = task[j].ids /\ task'[j].where = task[j].where
                 /\ task'[j].batch = task[j].batch
                 /\ j \in live => task'[j].overlay = task[j].overlay \ {m}
                 /\ j \notin live => task'[j].overlay = task[j].overlay
      BY <1>3, <2>4 DEF Same
    <3> QED
      BY <3>1 DEF Others
  <2>6. Goes(i, "forget", task[i].overlay \ {m}, {m}, Mounted, rest)
    BY <1>3, <1>4, <2>3, <2>4 DEF Goes, Same
  <2>7. Replayed(i, {m}, "forget", {m}, Mounted, rest)
    BY <1>1, <1>2, <1>4, <2>1, <2>4, <2>5, <2>6 DEF Replayed
  <2> QED
    BY <1>1, <2>7
<1>5. CASE i \notin live /\ Entry(i).hydrated
  <2> DEFINE at == IF rest = <<>> THEN "pull" ELSE "replay"
  <2>1. NextEntry(D, i, rest)
    BY <1>5 DEF ReplayRefused
  <2> HIDE DEF D, rest, m
  <2>2. /\ task' \in [Tasks -> TaskRecs] /\ Others(i, {m})
        /\ Goes(i, at, task[i].overlay \ {m}, {}, {}, rest)
        /\ dropped' = dropped \cup MutsOf(rest)
    BY <1>1, <1>3, <1>5, <2>1, NextEntryFacts
  <2>3. Replayed(i, {m}, at, {}, {}, rest)
    BY <1>1, <1>2, <1>5, <2>2 DEF Replayed
  <2> QED
    BY <1>1, <2>3
<1>6. CASE i \notin live /\ ~ Entry(i).hydrated
  <2> DEFINE all == task[i].batch
             at == IF all = <<>> THEN "pull" ELSE "replay"
  <2>1. NextEntry(task, i, all)
    BY <1>6 DEF ReplayRefused
  <2> HIDE DEF D, rest, m
  <2>2. /\ task' \in [Tasks -> TaskRecs] /\ Others(i, {})
        /\ Goes(i, at, task[i].overlay \ {}, {}, {}, all)
        /\ dropped' = dropped \cup MutsOf(all)
    BY <1>1, <1>3, <1>6, <2>1, NextEntryFacts
  <2>3. Replayed(i, {}, at, {}, {}, all)
    BY <1>1, <1>2, <1>6, <2>2 DEF Replayed
  <2> QED
    BY <2>3
<1> QED
  BY <1>4, <1>5, <1>6

LEMMA ForgetFacts ==
  ASSUME Formed, NEW i \in Tasks, Forget(i)
  PROVE  \E S \in SUBSET Muts : \E at, ids, where, rest : Replayed(i, S, at, ids, where, rest)
<1> DEFINE all == task[i].batch
           at == IF all = <<>> THEN "pull" ELSE "replay"
<1>1. /\ all \in Seq(Entries) /\ MutsOf(all) \subseteq Muts
      /\ queue \in Seq(Entries) /\ dropped \subseteq Muts /\ settled \subseteq Muts
  BY FormedFacts, QueueFacts DEF TaskRecs, Formed, Types
<1>2. NextEntry(task, i, all) /\ settled' = settled /\ queue' = queue
  BY DEF Forget
<1>3. Same(task, {})
  BY SameFacts
<1>4. /\ task' \in [Tasks -> TaskRecs] /\ Others(i, {})
      /\ Goes(i, at, task[i].overlay \ {}, {}, {}, all)
      /\ i \in live => dropped' = dropped
      /\ i \notin live => dropped' = dropped \cup MutsOf(all)
  BY <1>1, <1>2, <1>3, NextEntryFacts
<1>5. Replayed(i, {}, at, {}, {}, all)
  BY <1>1, <1>2, <1>4 DEF Replayed
<1> QED
  BY <1>5

-----------------------------------------------------------------------------
(* What every step of a driver keeps.                                      *)

\* The form of the tasks: only overlays of S go from the screen, and the driver
\* stays in its view or is gone.
KeepsForm(i, S) ==
  /\ S \in SUBSET Muts /\ task' \in [Tasks -> TaskRecs] /\ Others(i, S)
  /\ UNCHANGED <<live, call, server, breaks>>
  /\ settled \subseteq settled' /\ settled' \subseteq Muts
  /\ dropped \subseteq dropped' /\ dropped' \subseteq Muts
  /\ queue' \in Seq(Entries)
  /\ saved' \in [Compartments -> SUBSET Muts]
  /\ \/ task'[i] = Idle /\ i \notin live
     \/ /\ task'[i].view = task[i].view /\ task[i].at # "gone" /\ task'[i].at # "gone"
        /\ task'[i].at \notin {"replay", "forget"} => task'[i].batch = <<>>
        /\ task'[i].at = "replay" => task'[i].batch # <<>>

\* The work: what was queued or in the batch stays so, goes from the screen, or is
\* dropped, and hydrated pendings are queued.
KeepsWork(i, S) ==
  /\ MutsOf(queue) \cup MutsOf(task[i].batch)
       \subseteq S \cup MutsOf(queue') \cup MutsOf(task'[i].batch) \cup dropped'
  /\ i \in live /\ task[i].at = "open" => task[i].ids \subseteq MutsOf(queue')
  /\ i \in live => task'[i].overlay
       \subseteq (task[i].overlay \ S) \cup (IF task'[i].at = "open" THEN task'[i].ids ELSE {})

Keeps(i) == \E S : KeepsForm(i, S) /\ KeepsWork(i, S)

LEMMA StillFacts ==
  ASSUME Formed
  PROVE  /\ queue \in Seq(Entries) /\ saved \in [Compartments -> SUBSET Muts]
         /\ settled \subseteq Muts /\ dropped \subseteq Muts
         /\ MutsOf(<<>>) = {} /\ Idle.at = "gone" /\ Idle.batch = <<>> /\ Idle.overlay = {}
         /\ Idle.ids = {} /\ <<>> \in Seq(Entries)
  BY FormedFacts, QueueFacts, IdleFacts DEF Formed, Types

LEMMA LoadKeeps ==
  ASSUME Formed, NEW i \in Tasks, Hydrate(i) \/ Adopt(i) \/ Open(i)
  PROVE  Keeps(i)
<1>0. task[i].batch = <<>> /\ task[i].at # "gone"
  BY FormedFacts DEF Shape, Hydrate, Adopt, Open
<1>1. CASE Hydrate(i)
  <2>1. /\ UNCHANGED <<live, call, server, breaks, settled, dropped, queue, saved>>
        /\ task[i].at = "hydrate"
    BY <1>1 DEF Hydrate
  <2>2. /\ task' \in [Tasks -> TaskRecs] /\ Others(i, {})
        /\ Goes(i, "adopt", task[i].overlay, saved[Home[task[i].view]] \cup saved[Bare],
                task[i].where, task[i].batch)
    BY <1>1, HydrateFacts
  <2>3. KeepsForm(i, {}) /\ KeepsWork(i, {})
    BY <1>0, <2>1, <2>2, StillFacts DEF Goes, KeepsForm, KeepsWork
  <2> QED
    BY <2>3 DEF Keeps
<1>2. CASE Adopt(i)
  <2>1. /\ UNCHANGED <<live, call, server, breaks, settled, dropped, queue, saved>>
        /\ task[i].at = "adopt"
    BY <1>2 DEF Adopt
  <2>2. /\ task' \in [Tasks -> TaskRecs] /\ Others(i, {})
        /\ Goes(i, "open", task[i].overlay \cup task[i].ids, task[i].ids, task[i].where, task[i].batch)
    BY <1>2, AdoptFacts
  <2>3. KeepsForm(i, {}) /\ KeepsWork(i, {})
    BY <1>0, <2>1, <2>2, StillFacts DEF Goes, KeepsForm, KeepsWork
  <2> QED
    BY <2>3 DEF Keeps
<1>3. CASE Open(i)
  <2>1. /\ UNCHANGED <<live, call, server, breaks, settled, dropped, saved>>
        /\ task[i].at = "open"
    BY <1>3 DEF Open
  <2>2. /\ task' \in [Tasks -> TaskRecs] /\ Others(i, {})
        /\ Goes(i, "pull", task[i].overlay, {}, task[i].where, task[i].batch)
        /\ queue' \in Seq(Entries)
        /\ MutsOf(queue) \subseteq MutsOf(queue')
        /\ i \in live => MutsOf(queue') = MutsOf(queue) \cup task[i].ids
    BY <1>3, OpenFacts
  <2>3. KeepsForm(i, {}) /\ KeepsWork(i, {})
    BY <1>0, <2>1, <2>2, StillFacts DEF Goes, KeepsForm, KeepsWork
  <2> QED
    BY <2>3 DEF Keeps
<1> QED
  BY <1>1, <1>2, <1>3

LEMMA PullKeeps ==
  ASSUME Formed, NEW i \in Tasks, PullFails(i) \/ Pull(i) \/ Retire(i)
  PROVE  Keeps(i)
<1>0. task[i].batch = <<>> /\ task[i].at # "gone"
  BY FormedFacts DEF Shape, PullFails, Pull, Retire
<1>1. CASE PullFails(i)
  <2>1. /\ UNCHANGED <<live, call, server, breaks, settled, dropped, saved>>
        /\ task[i].at = "pull"
    BY <1>1 DEF PullFails
  <2>2. /\ task' \in [Tasks -> TaskRecs] /\ Others(i, {})
        /\ \/ /\ i \in live /\ queue # <<>> /\ queue' = <<>>
              /\ Goes(i, "replay", task[i].overlay, task[i].ids, task[i].where, queue)
           \/ /\ queue' = queue
              /\ Goes(i, "pull", task[i].overlay, task[i].ids, task[i].where, <<>>)
    BY <1>1, PullFailsFacts
  <2>3. KeepsForm(i, {}) /\ KeepsWork(i, {})
    BY <1>0, <2>1, <2>2, StillFacts DEF Goes, KeepsForm, KeepsWork
  <2> QED
    BY <2>3 DEF Keeps
<1>2. CASE Pull(i)
  <2>1. /\ UNCHANGED <<live, call, server, breaks, dropped, queue, saved>>
        /\ task[i].at = "pull"
    BY <1>2 DEF Pull
  <2>2. PICK E \in SUBSET Muts :
           /\ settled' = settled \cup E
           /\ task' \in [Tasks -> TaskRecs] /\ Others(i, E)
           /\ \/ Goes(i, "save", task[i].overlay \ E, task[i].overlay \ E, task[i].where, task[i].batch)
              \/ i \in live /\ Goes(i, "retire", task[i].overlay \ E, E, Mounted, task[i].batch)
    BY <1>2, PullFacts
  <2>3. KeepsForm(i, E)
    BY <1>0, <2>1, <2>2, StillFacts DEF Goes, KeepsForm
  <2>4. KeepsWork(i, E)
    BY <1>0, <2>1, <2>2, StillFacts DEF Goes, KeepsWork
  <2> QED
    BY <2>3, <2>4 DEF Keeps
<1>3. CASE Retire(i)
  <2>1. /\ UNCHANGED <<live, call, server, breaks, settled, dropped, queue>>
        /\ task[i].at = "retire" /\ saved' = Cleared(task[i].ids, task[i].where)
    BY <1>3 DEF Retire
  <2>2. saved' \in [Compartments -> SUBSET Muts]
    BY <2>1, StoreFacts
  <2>3. /\ task' \in [Tasks -> TaskRecs] /\ Others(i, {})
        /\ Goes(i, "save", task[i].overlay, task[i].overlay, {}, task[i].batch)
    BY <1>3, RetireFacts
  <2>4. KeepsForm(i, {}) /\ KeepsWork(i, {})
    BY <1>0, <2>1, <2>2, <2>3, StillFacts DEF Goes, KeepsForm, KeepsWork
  <2> QED
    BY <2>4 DEF Keeps
<1> QED
  BY <1>1, <1>2, <1>3

LEMMA PersistKeeps ==
  ASSUME Formed, NEW i \in Tasks, Save(i) \/ Enqueue(i) \/ Sweep(i) \/ Mark(i)
  PROVE  Keeps(i)
<1>0. task[i].batch = <<>> /\ task[i].at # "gone"
  BY FormedFacts DEF Shape, Save, Enqueue, Sweep, Mark
<1>1. CASE Save(i) \/ Enqueue(i)
  <2>1. /\ UNCHANGED <<live, call, server, breaks, settled, dropped, queue>>
        /\ task[i].at \in {"save", "enqueue"}
    BY <1>1 DEF Save, Enqueue
  <2>2. /\ task' \in [Tasks -> TaskRecs] /\ Others(i, {})
        /\ saved' \in [Compartments -> SUBSET Muts]
        /\ \/ i \notin live /\ task'[i] = Idle
           \/ /\ task'[i].view = task[i].view /\ task'[i].overlay = task[i].overlay
              /\ task'[i].batch = task[i].batch
              /\ task'[i].at \in {"enqueue", "sweep"}
    BY <1>1, SavingFacts
  <2>3. KeepsForm(i, {}) /\ KeepsWork(i, {})
    BY <1>0, <2>1, <2>2, StillFacts DEF KeepsForm, KeepsWork
  <2> QED
    BY <2>3 DEF Keeps
<1>2. CASE Sweep(i)
  <2>1. /\ UNCHANGED <<live, call, server, breaks, settled, dropped, saved>>
        /\ task[i].at = "sweep"
    BY <1>2 DEF Sweep
  <2>2. /\ task' \in [Tasks -> TaskRecs] /\ Others(i, {})
        /\ \/ /\ i \in live /\ queue # <<>> /\ queue' = <<>>
              /\ Goes(i, "replay", task[i].overlay, {}, task[i].where, queue)
           \/ /\ queue' = queue
              /\ Goes(i, "pull", task[i].overlay, {}, task[i].where, <<>>)
           \/ /\ queue' = queue /\ i \in live
              /\ Goes(i, "mark", task[i].overlay, task[i].ids \ task[i].overlay, task[i].where, <<>>)
    BY <1>2, SweepFacts
  <2>3. KeepsForm(i, {}) /\ KeepsWork(i, {})
    BY <1>0, <2>1, <2>2, StillFacts DEF Goes, KeepsForm, KeepsWork
  <2> QED
    BY <2>3 DEF Keeps
<1>3. CASE Mark(i)
  <2>1. /\ UNCHANGED <<live, call, server, breaks, settled, dropped>>
        /\ task[i].at = "mark"
    BY <1>3 DEF Mark
  <2>2. /\ task' \in [Tasks -> TaskRecs] /\ Others(i, {})
        /\ saved' \in [Compartments -> SUBSET Muts]
        /\ \/ /\ i \in live /\ queue # <<>> /\ queue' = <<>>
              /\ Goes(i, "replay", task[i].overlay, {}, task[i].where, queue)
           \/ /\ queue' = queue
              /\ Goes(i, "pull", task[i].overlay, {}, task[i].where, <<>>)
    BY <1>3, MarkFacts
  <2>3. KeepsForm(i, {}) /\ KeepsWork(i, {})
    BY <1>0, <2>1, <2>2, StillFacts DEF Goes, KeepsForm, KeepsWork
  <2> QED
    BY <2>3 DEF Keeps
<1> QED
  BY <1>1, <1>2, <1>3

LEMMA ReplayKeeps ==
  ASSUME Formed, NEW i \in Tasks,
         ReplayAccepted(i) \/ ReplayOffline(i) \/ ReplayRefused(i) \/ Forget(i)
  PROVE  Keeps(i)
<1>1. PICK S \in SUBSET Muts : \E at, ids, where, rest : Replayed(i, S, at, ids, where, rest)
  BY AcceptedFacts, OfflineFacts, RefusedFacts, ForgetFacts
<1>2. PICK at, ids, where, rest : Replayed(i, S, at, ids, where, rest)
  BY <1>1
<1>3. task[i].at \in {"replay", "forget"} /\ UNCHANGED <<live, call, server, breaks>>
  BY DEF ReplayAccepted, ReplayOffline, ReplayRefused, Forget
<1>4. saved' \in [Compartments -> SUBSET Muts]
  BY StillFacts, StoreFacts DEF ReplayAccepted, ReplayOffline, ReplayRefused, Forget
<1>5. KeepsForm(i, S)
  BY <1>2, <1>3, <1>4 DEF Replayed, Goes, KeepsForm
<1>6. KeepsWork(i, S)
  BY <1>2, <1>3, StillFacts DEF Replayed, Goes, KeepsWork
<1> QED
  BY <1>5, <1>6 DEF Keeps

LEMMA DriverKeeps ==
  ASSUME Formed, NEW i \in Tasks, Driver(i)
  PROVE  Keeps(i)
  BY LoadKeeps, PullKeeps, PersistKeeps, ReplayKeeps DEF Driver

-----------------------------------------------------------------------------
(* The steps of a call keep the form of the tasks.                         *)

\* Only overlays of tasks on the screen change.
Redrawn ==
  /\ task' \in [Tasks -> TaskRecs] /\ live' = live
  /\ \A j \in Tasks :
       /\ j \notin live => task'[j] = task[j]
       /\ task'[j].view = task[j].view /\ task'[j].at = task[j].at
       /\ task'[j].ids = task[j].ids /\ task'[j].where = task[j].where
       /\ task'[j].batch = task[j].batch

LEMMA RedrawnFormed ==
  ASSUME Formed, Redrawn
  PROVE  OneDriverEach' /\ \A j \in Tasks : Shape(j)'
<1>1. ASSUME NEW j \in Tasks PROVE Shape(j)'
  <2>1. Shape(j)
    BY DEF Formed
  <2>2. CASE j \in live
    BY <2>1, <2>2 DEF Shape, Redrawn
  <2>3. CASE j \notin live
    BY <2>1, <2>3 DEF Shape, Redrawn
  <2> QED
    BY <2>2, <2>3
<1>2. \A j \in live : j \in Tasks /\ task'[j].view = task[j].view
  <2>1. live \subseteq Tasks
    BY DEF Formed, Types
  <2> QED
    BY <2>1 DEF Redrawn
<1>3. OneDriverEach'
  BY <1>2 DEF OneDriverEach, Formed, Redrawn
<1> QED
  BY <1>1, <1>3

\* The call of one mutation moves on; the others stay.
LEMMA CallFacts ==
  ASSUME call \in [Muts -> CallRecs], NEW m \in Muts, NEW r \in CallRecs
  PROVE  /\ [call EXCEPT ![m] = r] \in [Muts -> CallRecs]
         /\ \A n \in Muts : [call EXCEPT ![m] = r][n] = IF n = m THEN r ELSE call[n]
  OBVIOUS

LEMMA CallRecFacts ==
  ASSUME NEW at \in {"new", "saving", "sent", "clearing", "over"}, NEW left \in SUBSET Compartments
  PROVE  /\ [at |-> at, left |-> left] \in CallRecs
         /\ [at |-> at, left |-> left].at = at /\ [at |-> at, left |-> left].left = left
  BY DEF CallRecs

\* A mutation is drawn in the views it matches, and is then being saved.
LEMMA MutateFacts ==
  ASSUME Formed, NEW m \in Muts, Mutate(m)
  PROVE  /\ Redrawn /\ call' \in [Muts -> CallRecs]
         /\ \A n \in Muts \ {m} : call'[n] = call[n]
         /\ call'[m].at = "saving"
         /\ \A j \in Tasks : task'[j].overlay # task[j].overlay
              => /\ j \in live /\ task'[j].overlay = task[j].overlay \cup {m}
                 /\ Home[task[j].view] \in call'[m].left
<1> DEFINE hit == {i \in live : task[i].view \in Match[m]}
           cut(j) == [task[j] EXCEPT !.overlay = @ \cup {m}]
           L == IF hit = {} THEN {Bare} ELSE {Home[task[i].view] : i \in hit}
           r == [at |-> "saving", left |-> L]
<1>1. /\ task \in [Tasks -> TaskRecs] /\ live \subseteq Tasks /\ call \in [Muts -> CallRecs]
      /\ Bare \in Compartments
      /\ \A j \in live : Home[task[j].view] \in Compartments
  BY FormedFacts DEF Shape
<1>2. L \in SUBSET Compartments
  BY <1>1
<1>3. /\ task' = [j \in Tasks |-> IF j \in hit THEN cut(j) ELSE task[j]]
      /\ call' = [call EXCEPT ![m] = r] /\ live' = live
  BY DEF Mutate
<1>4. ASSUME NEW j \in Tasks
      PROVE  /\ cut(j) \in TaskRecs /\ task[j] \in TaskRecs
             /\ cut(j).view = task[j].view /\ cut(j).at = task[j].at /\ cut(j).ids = task[j].ids
             /\ cut(j).where = task[j].where /\ cut(j).batch = task[j].batch
             /\ cut(j).overlay = task[j].overlay \cup {m}
  BY <1>1 DEF TaskRecs
<1>5. \A j \in hit : j \in live /\ Home[task[j].view] \in L
  OBVIOUS
<1> HIDE DEF hit, cut, L
<1>6. r \in CallRecs /\ r.at = "saving" /\ r.left = L
  BY <1>2, CallRecFacts
<1> HIDE DEF r
<1>7. Redrawn
  BY <1>3, <1>4, <1>5 DEF Redrawn
<1>8. /\ call' \in [Muts -> CallRecs] /\ call'[m] = r
      /\ \A n \in Muts \ {m} : call'[n] = call[n]
  BY <1>1, <1>3, <1>6, CallFacts
<1>9. ASSUME NEW j \in Tasks, task'[j].overlay # task[j].overlay
      PROVE  /\ j \in live /\ task'[j].overlay = task[j].overlay \cup {m}
             /\ Home[task[j].view] \in L
  <2>1. j \in hit
    BY <1>3, <1>9
  <2> QED
    BY <1>3, <1>4, <1>5, <2>1
<1> QED
  BY <1>6, <1>7, <1>8, <1>9

\* One more compartment has the mutation; after the last it is sent.
LEMMA SaveCallFacts ==
  ASSUME Formed, NEW m \in Muts, SaveCall(m)
  PROVE  /\ call' \in [Muts -> CallRecs] /\ \A n \in Muts \ {m} : call'[n] = call[n]
         /\ call'[m].at \in {"saving", "sent"}
         /\ saved' \in [Compartments -> SUBSET Muts]
         /\ \A c \in Compartments : saved[c] \subseteq saved'[c] /\ saved'[c] \subseteq saved[c] \cup {m}
         /\ \A c \in call[m].left : m \in saved'[c] \/ (call'[m].at = "saving" /\ c \in call'[m].left)
<1>1. /\ saved \in [Compartments -> SUBSET Muts] /\ call \in [Muts -> CallRecs]
      /\ call[m].left \in SUBSET Compartments /\ call[m].at = "saving"
  BY FormedFacts DEF SaveCall, CallRecs
<1>2. PICK c \in call[m].left :
        /\ saved' = [saved EXCEPT ![c] = saved[c] \cup {m}]
        /\ call' = [call EXCEPT ![m].left = @ \ {c},
                                ![m].at = IF call[m].left = {c} THEN "sent" ELSE @]
  BY <1>1 DEF SaveCall
<1>3. c \in Compartments /\ saved[c] \cup {m} \in SUBSET Muts
  BY <1>1
<1>4. /\ saved' \in [Compartments -> SUBSET Muts]
      /\ \A d \in Compartments : saved'[d] = IF d = c THEN saved[c] \cup {m} ELSE saved[d]
  BY <1>1, <1>2, <1>3
<1> DEFINE L == call[m].left \ {c}
           at == IF call[m].left = {c} THEN "sent" ELSE call[m].at
           r == [call[m] EXCEPT !.left = L, !.at = at]
<1>5. call[m] \in CallRecs /\ L \in SUBSET Compartments /\ at \in {"saving", "sent"}
  BY <1>1
<1>6. call' = [call EXCEPT ![m] = r]
  BY <1>1, <1>2
<1>7. call[m].left # {c} => at = "saving"
  BY <1>1
<1>8. ASSUME NEW d \in call[m].left, d # c
      PROVE  call[m].left # {c} /\ d \in L
  BY <1>8
<1> HIDE DEF L, at
<1>9. r \in CallRecs /\ r.left = L /\ r.at = at
  BY <1>5 DEF CallRecs
<1> HIDE DEF r
<1>10. /\ call' \in [Muts -> CallRecs] /\ call'[m] = r
       /\ \A n \in Muts \ {m} : call'[n] = call[n]
  BY <1>1, <1>6, <1>9, CallFacts
<1>11. call'[m].at \in {"saving", "sent"}
  BY <1>5, <1>9, <1>10
<1>12. \A d \in Compartments : saved[d] \subseteq saved'[d] /\ saved'[d] \subseteq saved[d] \cup {m}
  BY <1>4
<1>13. ASSUME NEW d \in call[m].left
       PROVE  m \in saved'[d] \/ (call'[m].at = "saving" /\ d \in call'[m].left)
  <2>1. CASE d = c
    BY <1>3, <1>4, <2>1
  <2>2. CASE d # c
    BY <1>7, <1>8, <1>9, <1>10, <2>2
  <2> QED
    BY <2>1, <2>2
<1> QED
  BY <1>4, <1>10, <1>11, <1>12, <1>13

\* An answer or a cancelled future takes the overlays of one mutation back.
LEMMA TakenBack ==
  ASSUME Formed, NEW m \in Muts, CallAnswered(m) \/ Cancel(m)
  PROVE  /\ Redrawn /\ call' \in [Muts -> CallRecs]
         /\ \A n \in Muts \ {m} : call'[n] = call[n]
         /\ call[m].at # "new" /\ call'[m].at \in {"clearing", "over"}
         /\ \A j \in live : task'[j].overlay \subseteq task[j].overlay
         /\ call[m].at \in {"saving", "sent"} => \A j \in live : m \notin task'[j].overlay
<1>1. /\ task \in [Tasks -> TaskRecs] /\ live \subseteq Tasks /\ call \in [Muts -> CallRecs]
      /\ Mounted \in SUBSET Compartments /\ {m} \in SUBSET Muts
  BY FormedFacts
<1>2. \E at \in {"clearing", "over"}, left \in SUBSET Compartments :
        call' = [call EXCEPT ![m] = [at |-> at, left |-> left]]
  BY <1>1 DEF CallAnswered, Cancel
<1>3. PICK at \in {"clearing", "over"}, left \in SUBSET Compartments :
        call' = [call EXCEPT ![m] = [at |-> at, left |-> left]]
  BY <1>2
<1> DEFINE r == [at |-> at, left |-> left]
<1>4. r \in CallRecs /\ r.at = at
  BY CallRecFacts
<1>5. call' = [call EXCEPT ![m] = r]
  BY <1>3
<1> HIDE DEF r
<1>6. /\ call' \in [Muts -> CallRecs] /\ call'[m] = r
      /\ \A n \in Muts \ {m} : call'[n] = call[n]
  BY <1>1, <1>4, <1>5, CallFacts
<1>7. live' = live /\ call[m].at # "new"
  BY DEF CallAnswered, Cancel
<1>8. CASE task' = task /\ call[m].at \notin {"saving", "sent"}
  <2>1. Redrawn
    BY <1>1, <1>7, <1>8 DEF Redrawn
  <2> QED
    BY <1>4, <1>6, <1>7, <1>8, <2>1
<1>9. CASE task' = Dequeue(task, {m})
  <2>1. Same(task', {m})
    BY <1>1, <1>9, SameFacts
  <2>2. Redrawn
    BY <1>7, <2>1 DEF Same, Redrawn
  <2>3. \A j \in live : task'[j].overlay = task[j].overlay \ {m}
    BY <1>1, <2>1 DEF Same
  <2> QED
    BY <1>4, <1>6, <1>7, <2>2, <2>3
<1> QED
  BY <1>8, <1>9 DEF CallAnswered, Cancel

\* A mutation is queued, its clear is over, or the server decides on it.
LEMMA MovedOnFacts ==
  ASSUME Formed, NEW m \in Muts, CallOffline(m) \/ ClearCall(m)
  PROVE  /\ Redrawn /\ call' \in [Muts -> CallRecs]
         /\ \A n \in Muts \ {m} : call'[n] = call[n]
         /\ call[m].at \in {"sent", "clearing"} /\ call'[m].at = "over"
         /\ \A j \in Tasks : task'[j].overlay = task[j].overlay
<1>1. /\ task \in [Tasks -> TaskRecs] /\ call \in [Muts -> CallRecs] /\ call[m] \in CallRecs
  BY FormedFacts
<1>2. Redrawn /\ \A j \in Tasks : task'[j].overlay = task[j].overlay
  BY <1>1 DEF Redrawn, CallOffline, ClearCall
<1> DEFINE r == IF call[m].at = "sent" THEN [call[m] EXCEPT !.at = "over"]
                                       ELSE [at |-> "over", left |-> {}]
<1>3. call' = [call EXCEPT ![m] = r] /\ call[m].at \in {"sent", "clearing"}
  BY DEF CallOffline, ClearCall
<1>4. r \in CallRecs /\ r.at = "over"
  BY <1>1 DEF CallRecs
<1> HIDE DEF r
<1>5. /\ call' \in [Muts -> CallRecs] /\ call'[m] = r
      /\ \A n \in Muts \ {m} : call'[n] = call[n]
  BY <1>1, <1>3, <1>4, CallFacts
<1> QED
  BY <1>2, <1>3, <1>4, <1>5

LEMMA MountFacts ==
  ASSUME Formed, NEW v \in Views, Mount(v)
  PROVE  \E i \in Tasks :
           /\ i \notin live /\ live' = live \cup {i} /\ task' \in [Tasks -> TaskRecs]
           /\ task[i].batch = <<>>
           /\ \A j \in Tasks \ {i} : task'[j] = task[j]
           /\ task'[i].view = v /\ task'[i].at = "hydrate" /\ task'[i].overlay = {}
           /\ task'[i].ids = {} /\ task'[i].batch = <<>>
<1> DEFINE i == CHOOSE j \in Tasks : task[j] = Idle
           q == [Idle EXCEPT !.view = v, !.at = "hydrate", !.boot = TRUE]
<1>1. i \in Tasks /\ task[i] = Idle
  BY DEF Mount
<1>2. live' = live \cup {i} /\ task' = [task EXCEPT ![i] = q]
  BY DEF Mount
<1> HIDE DEF i
<1>3. /\ q \in TaskRecs /\ q.view = v /\ q.at = "hydrate" /\ q.overlay = {}
      /\ q.ids = {} /\ q.batch = <<>>
  BY IdleFacts DEF Idle, TaskRecs, States, PersistTail
<1> HIDE DEF q
<1>4. task \in [Tasks -> TaskRecs] /\ i \notin live
  BY <1>1, FormedFacts, IdleFacts DEF Shape
<1>5. /\ task' \in [Tasks -> TaskRecs] /\ task'[i] = q
      /\ \A j \in Tasks \ {i} : task'[j] = task[j]
  BY <1>1, <1>2, <1>3, <1>4
<1> QED
  BY <1>1, <1>2, <1>3, <1>4, <1>5, IdleFacts

\* After a page load only the store and the calls that were never made are left.
LEMMA ReloadFacts ==
  ASSUME Formed, Reload
  PROVE  /\ task' = [i \in Tasks |-> Idle] /\ live' = {} /\ queue' = <<>> /\ saved' = saved
         /\ call' \in [Muts -> CallRecs] /\ breaks' \in 0 .. MaxBreaks
         /\ \A m \in Muts : call'[m] = call[m] \/ (call[m].at # "new" /\ call'[m].at = "over")
         /\ settled \subseteq settled' /\ settled' \subseteq Muts /\ dropped' = {}
<1> DEFINE r(m) == IF call[m].at = "new" THEN call[m] ELSE [at |-> "over", left |-> {}]
<1>1. ASSUME NEW m \in Muts
      PROVE  r(m) \in CallRecs /\ (r(m) = call[m] \/ (call[m].at # "new" /\ r(m).at = "over"))
  BY FormedFacts, CallRecFacts
<1>2. call' = [m \in Muts |-> r(m)]
  BY DEF Reload
<1> HIDE DEF r
<1>3. /\ call' \in [Muts -> CallRecs]
      /\ \A m \in Muts : call'[m] = call[m] \/ (call[m].at # "new" /\ call'[m].at = "over")
  BY <1>1, <1>2
<1>4. breaks' \in 0 .. MaxBreaks
  BY OutboxAssumption DEF Reload, Formed, Types
<1>5. settled \subseteq settled' /\ settled' \subseteq Muts
  BY DEF Reload, Formed, Types
<1> QED
  BY <1>3, <1>4, <1>5 DEF Reload

-----------------------------------------------------------------------------
(* Type correctness and the form of the tasks.                             *)

LEMMA InitFormed ==
  Init => Formed
<1> SUFFICES ASSUME Init PROVE Formed
  OBVIOUS
<1>1. Types
  <2>1. task \in [Tasks -> TaskRecs] /\ queue \in Seq(Entries)
    BY IdleFacts DEF Init
  <2>2. call \in [Muts -> CallRecs] /\ saved \in [Compartments -> SUBSET Muts]
    BY CallRecFacts DEF Init, CallRecs
  <2> QED
    BY <2>1, <2>2, OutboxAssumption DEF Init, Types, TaskRecs, CallRecs
<1>2. OneDriverEach /\ \A i \in Tasks : Shape(i)
  BY IdleFacts DEF Init, OneDriverEach, Shape
<1> QED
  BY <1>1, <1>2 DEF Formed

LEMMA NextFormed ==
  Formed /\ [Next]_vars => Formed'
<1> SUFFICES ASSUME Formed, [Next]_vars PROVE Formed'
  OBVIOUS
<1> USE DEF Formed
<1>0. /\ task \in [Tasks -> TaskRecs] /\ live \subseteq Tasks /\ queue \in Seq(Entries)
      /\ saved \in [Compartments -> SUBSET Muts] /\ call \in [Muts -> CallRecs]
      /\ server \in [Muts -> {"unseen", "applied", "refused"}] /\ breaks \in 0 .. MaxBreaks
      /\ settled \subseteq Muts /\ dropped \subseteq Muts
  BY FormedFacts DEF Types
<1>T. ASSUME task' \in [Tasks -> TaskRecs], live' \subseteq Tasks, queue' \in Seq(Entries),
             saved' \in [Compartments -> SUBSET Muts], call' \in [Muts -> CallRecs],
             server' \in [Muts -> {"unseen", "applied", "refused"}], breaks' \in 0 .. MaxBreaks,
             settled' \subseteq Muts, dropped' \subseteq Muts
      PROVE  Types'
  BY <1>T DEF Types, TaskRecs, CallRecs
<1>1. ASSUME NEW m \in Muts, Call(m) PROVE Formed'
  <2>1. CASE Mutate(m)
    <3>1. Redrawn /\ call' \in [Muts -> CallRecs]
      BY <2>1, MutateFacts
    <3>2. UNCHANGED <<live, queue, saved, server, breaks, settled, dropped>>
      BY <2>1 DEF Mutate
    <3>3. Types'
      BY <1>0, <1>T, <3>1, <3>2 DEF Redrawn
    <3> QED
      BY <3>1, <3>3, RedrawnFormed
  <2>2. CASE SaveCall(m)
    <3>1. call' \in [Muts -> CallRecs] /\ saved' \in [Compartments -> SUBSET Muts]
      BY <2>2, SaveCallFacts
    <3>2. UNCHANGED <<task, live, queue, server, breaks, settled, dropped>>
      BY <2>2 DEF SaveCall
    <3>3. Types'
      BY <1>0, <1>T, <3>1, <3>2
    <3>4. Redrawn
      BY <1>0, <3>2 DEF Redrawn
    <3> QED
      BY <3>3, <3>4, RedrawnFormed
  <2>3. CASE CallAnswered(m) \/ Cancel(m)
    <3>1. Redrawn /\ call' \in [Muts -> CallRecs]
      BY <2>3, TakenBack
    <3>2. UNCHANGED <<live, queue, saved, server, breaks, dropped>> /\ settled' = settled \cup {m}
      BY <2>3 DEF CallAnswered, Cancel
    <3>3. Types'
      BY <1>0, <1>T, <3>1, <3>2 DEF Redrawn
    <3> QED
      BY <3>1, <3>3, RedrawnFormed
  <2>4. CASE CallOffline(m) \/ ClearCall(m)
    <3>1. Redrawn /\ call' \in [Muts -> CallRecs]
      BY <2>4, MovedOnFacts
    <3>2. UNCHANGED <<live, server, breaks, settled, dropped>>
      BY <2>4 DEF CallOffline, ClearCall
    <3>3. [mut |-> m, hydrated |-> FALSE] \in Entries
      BY DEF Entries
    <3>4. queue' = Append(queue, [mut |-> m, hydrated |-> FALSE]) \/ queue' = queue
      BY <2>4 DEF CallOffline, ClearCall
    <3>5. queue' \in Seq(Entries)
      BY <1>0, <3>3, <3>4, QueueFacts
    <3>6. saved' \in [Compartments -> SUBSET Muts]
      BY <1>0, <2>4, StoreFacts DEF CallOffline, ClearCall
    <3>7. Types'
      BY <1>0, <1>T, <3>1, <3>2, <3>5, <3>6 DEF Redrawn
    <3> QED
      BY <3>1, <3>7, RedrawnFormed
  <2> QED
    BY <1>1, <2>1, <2>2, <2>3, <2>4 DEF Call
<1>2. ASSUME NEW m \in Muts, Serve(m) PROVE Formed'
  <2>1. UNCHANGED <<task, live, queue, saved, call, breaks, settled, dropped>>
    BY <1>2 DEF Serve
  <2>2. server' \in [Muts -> {"unseen", "applied", "refused"}]
    BY <1>0, <1>2 DEF Serve
  <2>3. Types'
    BY <1>0, <1>T, <2>1, <2>2
  <2>4. Redrawn
    BY <1>0, <2>1 DEF Redrawn
  <2> QED
    BY <2>3, <2>4, RedrawnFormed
<1>3. ASSUME NEW i \in Tasks, Driver(i) PROVE Formed'
  <2>1. PICK S : KeepsForm(i, S)
    BY <1>3, DriverKeeps DEF Keeps
  <2>2. Types'
    BY <1>0, <1>T, <2>1 DEF KeepsForm
  <2>3. OneDriverEach' /\ \A j \in Tasks : Shape(j)'
    BY <2>1, GoesFormed DEF KeepsForm
  <2> QED
    BY <2>2, <2>3
<1>4. ASSUME NEW i \in Tasks, Unmount(i) PROVE Formed'
  <2>1. /\ UNCHANGED <<task, queue, saved, call, server, settled, dropped>>
        /\ live' = live \ {i} /\ breaks < MaxBreaks /\ breaks' = breaks + 1
    BY <1>4 DEF Unmount
  <2>2. breaks' \in 0 .. MaxBreaks
    BY <1>0, <2>1, OutboxAssumption
  <2>3. Types'
    BY <1>0, <1>T, <2>1, <2>2
  <2>4. OneDriverEach'
    BY <2>1 DEF OneDriverEach
  <2>5. ASSUME NEW j \in Tasks PROVE Shape(j)'
    BY <2>1 DEF Shape
  <2> QED
    BY <2>3, <2>4, <2>5
<1>5. ASSUME NEW v \in Views, Mount(v) PROVE Formed'
  <2>1. PICK i \in Tasks :
           /\ i \notin live /\ live' = live \cup {i} /\ task' \in [Tasks -> TaskRecs]
           /\ \A j \in Tasks \ {i} : task'[j] = task[j]
           /\ task'[i].view = v /\ task'[i].at = "hydrate" /\ task'[i].batch = <<>>
    BY <1>5, MountFacts
  <2>2. /\ UNCHANGED <<queue, saved, call, server, breaks, settled, dropped>>
        /\ \A j \in live : task[j].view # v
    BY <1>5 DEF Mount
  <2>3. Types'
    BY <1>0, <1>T, <2>1, <2>2
  <2>4. OneDriverEach'
    <3>1. \A j \in live : j \in Tasks /\ task'[j] = task[j]
      BY <1>0, <2>1
    <3> QED
      BY <2>1, <2>2, <3>1 DEF OneDriverEach
  <2>5. ASSUME NEW j \in Tasks PROVE Shape(j)'
    <3>1. CASE j = i
      BY <2>1, <3>1, IdleFacts DEF Shape
    <3>2. CASE j # i
      <4>1. Shape(j)
        OBVIOUS
      <4> QED
        BY <2>1, <3>2, <4>1 DEF Shape
    <3> QED
      BY <3>1, <3>2
  <2> QED
    BY <2>3, <2>4, <2>5
<1>6. ASSUME Reload PROVE Formed'
  <2>1. /\ task' = [i \in Tasks |-> Idle] /\ live' = {} /\ queue' = <<>> /\ saved' = saved
        /\ call' \in [Muts -> CallRecs] /\ breaks' \in 0 .. MaxBreaks
        /\ settled' \subseteq Muts /\ dropped' = {}
    BY <1>6, ReloadFacts
  <2>2. server' = server /\ <<>> \in Seq(Entries) /\ task' \in [Tasks -> TaskRecs]
    BY <1>6, <2>1, IdleFacts DEF Reload
  <2>3. Types'
    BY <1>0, <1>T, <2>1, <2>2
  <2>4. OneDriverEach' /\ \A j \in Tasks : Shape(j)'
    BY <2>1, IdleFacts DEF OneDriverEach, Shape
  <2> QED
    BY <2>3, <2>4
<1>7. ASSUME UNCHANGED vars PROVE Formed'
  BY <1>7 DEF vars, Types, OneDriverEach, Shape
<1> QED
  BY <1>1, <1>2, <1>3, <1>4, <1>5, <1>6, <1>7 DEF Next

\* Every variable keeps to its type: a batch holds entries, an overlay mutations, a
\* clear and a save name compartments, and no query has two drivers, whatever order
\* calls, drivers, dropped views and page loads come in.
THEOREM TypeCorrect == Spec => []TypeOK
<1>1. Formed => TypeOK
  BY DEF Formed, TypeOK
<1> QED
  BY <1>1, InitFormed, NextFormed, PTL DEF Spec

-----------------------------------------------------------------------------
(* Every overlay on the screen is somebody's work.                         *)

\* A strengthening of Tracked for one subscription: what a driver has just read from
\* the store backs the overlays of its own subscription only, so dropping another
\* view takes nothing away.
Backed(i, m) ==
  \/ call[m].at \in {"saving", "sent"}
  \/ m \in MutsOf(queue)
  \/ \E j \in Tasks : m \in MutsOf(task[j].batch)
  \/ task[i].at = "open" /\ m \in task[i].ids
  \/ m \in dropped

AllBacked == \A i \in live : \A m \in task[i].overlay : Backed(i, m)

LEMMA DriverBacked ==
  ASSUME Formed, AllBacked, NEW i \in Tasks, Driver(i)
  PROVE  AllBacked'
<1>1. PICK S : KeepsForm(i, S) /\ KeepsWork(i, S)
  BY DriverKeeps DEF Keeps
<1>2. /\ live' = live /\ live \subseteq Tasks /\ call' = call /\ dropped \subseteq dropped'
      /\ Others(i, S)
  BY <1>1, FormedFacts DEF KeepsForm
<1>3. ASSUME NEW m, m \notin S,
             \/ m \in MutsOf(queue)
             \/ \E j \in Tasks : m \in MutsOf(task[j].batch)
             \/ m \in dropped
      PROVE  \/ m \in MutsOf(queue')
             \/ \E j \in Tasks : m \in MutsOf(task'[j].batch)
             \/ m \in dropped'
  <2>1. CASE m \in MutsOf(queue) \cup MutsOf(task[i].batch)
    <3>1. m \in MutsOf(queue') \cup MutsOf(task'[i].batch) \cup dropped'
      BY <1>1, <1>3, <2>1 DEF KeepsWork
    <3> QED
      BY <3>1
  <2>2. CASE \E j \in Tasks \ {i} : m \in MutsOf(task[j].batch)
    <3>1. PICK j \in Tasks \ {i} : m \in MutsOf(task[j].batch)
      BY <2>2
    <3>2. task'[j].batch = task[j].batch
      BY <1>2 DEF Others
    <3>3. m \in MutsOf(task'[j].batch)
      BY <3>1, <3>2
    <3> QED
      BY <3>3
  <2>3. CASE m \in dropped
    BY <1>2, <2>3
  <2> QED
    BY <1>3, <2>1, <2>2, <2>3
<1>4. ASSUME NEW j \in live, NEW m \in task'[j].overlay PROVE Backed(j, m)'
  <2>1. CASE j # i
    <3>1. /\ task'[j].at = task[j].at /\ task'[j].ids = task[j].ids
          /\ task'[j].overlay = task[j].overlay \ S
      BY <1>2, <2>1 DEF Others
    <3>2. m \notin S /\ Backed(j, m)
      BY <1>4, <3>1 DEF AllBacked
    <3> QED
      BY <1>2, <1>3, <3>1, <3>2 DEF Backed
  <2>2. CASE j = i
    <3>1. CASE m \in task[i].overlay \ S
      <4>1. m \notin S /\ Backed(i, m)
        BY <1>4, <2>2, <3>1 DEF AllBacked
      <4>2. task[i].at = "open" /\ m \in task[i].ids => m \in MutsOf(queue')
        BY <1>1, <1>4, <2>2 DEF KeepsWork
      <4> QED
        BY <1>2, <1>3, <2>2, <4>1, <4>2 DEF Backed
    <3>2. CASE m \notin task[i].overlay \ S
      <4>1. task'[i].at = "open" /\ m \in task'[i].ids
        BY <1>1, <1>4, <2>2, <3>2 DEF KeepsWork
      <4> QED
        BY <2>2, <4>1 DEF Backed
    <3> QED
      BY <3>1, <3>2
  <2> QED
    BY <2>1, <2>2
<1> QED
  BY <1>2, <1>4 DEF AllBacked

LEMMA RedrawnBacked ==
  ASSUME Formed, AllBacked, Redrawn, NEW m \in Muts, dropped' = dropped,
         \A n \in Muts \ {m} : call'[n] = call[n],
         MutsOf(queue) \subseteq MutsOf(queue'),
         \A j \in live : task'[j].overlay \subseteq task[j].overlay \cup {m},
         \/ call'[m].at \in {"saving", "sent"}
         \/ m \in MutsOf(queue')
         \/ \A j \in live : m \notin task'[j].overlay
         \/ /\ call[m].at \notin {"saving", "sent"}
            /\ \A j \in live : task'[j].overlay \subseteq task[j].overlay
  PROVE  AllBacked'
<1>0. live' = live /\ live \subseteq Tasks /\ task' \in [Tasks -> TaskRecs]
  BY FormedFacts DEF Redrawn
<1>1. ASSUME NEW j \in live, NEW n \in task'[j].overlay PROVE Backed(j, n)'
  <2>0. /\ j \in Tasks /\ n \in Muts /\ task'[j].at = task[j].at /\ task'[j].ids = task[j].ids
        /\ \A k \in Tasks : task'[k].batch = task[k].batch
    BY <1>0, <1>1 DEF Redrawn, TaskRecs
  <2>1. ASSUME n \in task[j].overlay,
               call[n].at \in {"saving", "sent"} => call'[n].at \in {"saving", "sent"}
        PROVE  Backed(j, n)'
    <3>1. Backed(j, n)
      BY <1>1, <2>1 DEF AllBacked
    <3> QED
      BY <2>0, <2>1, <3>1 DEF Backed
  <2>2. CASE n # m
    <3>1. n \in task[j].overlay /\ call'[n] = call[n]
      BY <1>1, <2>0, <2>2
    <3> QED
      BY <2>1, <3>1
  <2>3. CASE n = m
    <3>1. CASE call'[m].at \in {"saving", "sent"} \/ m \in MutsOf(queue')
      BY <2>3, <3>1 DEF Backed
    <3>2. CASE \A k \in live : m \notin task'[k].overlay
      BY <1>1, <2>3, <3>2
    <3>3. CASE /\ call[m].at \notin {"saving", "sent"}
               /\ \A k \in live : task'[k].overlay \subseteq task[k].overlay
      BY <1>1, <2>1, <2>3, <3>3
    <3> QED
      BY <3>1, <3>2, <3>3
  <2> QED
    BY <2>2, <2>3
<1> QED
  BY <1>0, <1>1 DEF AllBacked

LEMMA CallBacked ==
  ASSUME Formed, AllBacked, NEW m \in Muts, Call(m)
  PROVE  AllBacked'
<1>0. queue \in Seq(Entries) /\ live \subseteq Tasks
  BY FormedFacts
<1>1. CASE Mutate(m)
  <2>1. dropped' = dropped /\ queue' = queue
    BY <1>1 DEF Mutate
  <2>2. /\ Redrawn /\ call'[m].at = "saving" /\ \A n \in Muts \ {m} : call'[n] = call[n]
        /\ \A j \in live : task'[j].overlay \subseteq task[j].overlay \cup {m}
    BY <1>0, <1>1, MutateFacts
  <2> QED
    BY <2>1, <2>2, RedrawnBacked
<1>2. CASE SaveCall(m)
  <2>1. dropped' = dropped /\ queue' = queue /\ task' = task /\ live' = live
    BY <1>2 DEF SaveCall
  <2>2. Redrawn
    BY <2>1, FormedFacts DEF Redrawn
  <2>3. call'[m].at \in {"saving", "sent"} /\ \A n \in Muts \ {m} : call'[n] = call[n]
    BY <1>2, SaveCallFacts
  <2> QED
    BY <2>1, <2>2, <2>3, RedrawnBacked
<1>3. CASE CallAnswered(m) \/ Cancel(m)
  <2>1. dropped' = dropped /\ queue' = queue
    BY <1>3 DEF CallAnswered, Cancel
  <2>2. /\ Redrawn /\ \A n \in Muts \ {m} : call'[n] = call[n]
        /\ \A j \in live : task'[j].overlay \subseteq task[j].overlay
        /\ call[m].at \in {"saving", "sent"} => \A j \in live : m \notin task'[j].overlay
    BY <1>3, TakenBack
  <2>3. \A j \in live : task'[j].overlay \subseteq task[j].overlay \cup {m}
    BY <2>2
  <2> QED
    BY <2>1, <2>2, <2>3, RedrawnBacked
<1>4. CASE CallOffline(m) \/ ClearCall(m)
  <2>1. /\ Redrawn /\ \A n \in Muts \ {m} : call'[n] = call[n]
        /\ call[m].at \in {"sent", "clearing"}
        /\ \A j \in Tasks : task'[j].overlay = task[j].overlay
    BY <1>4, MovedOnFacts
  <2>2. /\ \A j \in live : task'[j].overlay \subseteq task[j].overlay
        /\ \A j \in live : task'[j].overlay \subseteq task[j].overlay \cup {m}
    BY <1>0, <2>1
  <2>3. CASE CallOffline(m)
    <3> DEFINE e == [mut |-> m, hydrated |-> FALSE]
    <3>1. e \in Entries /\ e.mut = m
      BY DEF Entries
    <3>2. queue' = Append(queue, e) /\ dropped' = dropped
      BY <2>3 DEF CallOffline
    <3> HIDE DEF e
    <3>3. MutsOf(queue') = MutsOf(queue) \cup {m}
      BY <1>0, <3>1, <3>2, QueueFacts
    <3> QED
      BY <2>1, <2>2, <3>2, <3>3, RedrawnBacked
  <2>4. CASE ClearCall(m)
    <3>1. queue' = queue /\ dropped' = dropped /\ call[m].at = "clearing"
      BY <2>4 DEF ClearCall
    <3> QED
      BY <2>1, <2>2, <3>1, RedrawnBacked
  <2> QED
    BY <1>4, <2>3, <2>4
<1> QED
  BY <1>1, <1>2, <1>3, <1>4 DEF Call

LEMMA NextBacked ==
  Formed /\ AllBacked /\ [Next]_vars => AllBacked'
<1> SUFFICES ASSUME Formed, AllBacked, [Next]_vars PROVE AllBacked'
  OBVIOUS
<1>0. live \subseteq Tasks
  BY FormedFacts
<1>1. ASSUME NEW m \in Muts, Serve(m) PROVE AllBacked'
  BY <1>1 DEF Serve, AllBacked, Backed
<1>2. ASSUME NEW i \in Tasks, Unmount(i) PROVE AllBacked'
  BY <1>2 DEF Unmount, AllBacked, Backed
<1>3. ASSUME NEW v \in Views, Mount(v) PROVE AllBacked'
  <2>1. PICK i \in Tasks :
           /\ i \notin live /\ live' = live \cup {i} /\ task[i].batch = <<>>
           /\ \A j \in Tasks \ {i} : task'[j] = task[j]
           /\ task'[i].overlay = {}
    BY <1>3, MountFacts
  <2>2. queue' = queue /\ call' = call /\ dropped' = dropped /\ MutsOf(<<>>) = {}
    BY <1>3, StillFacts DEF Mount
  <2>3. ASSUME NEW j \in live', NEW m \in task'[j].overlay PROVE Backed(j, m)'
    <3>1. j \in Tasks \ {i} /\ j \in live /\ task'[j] = task[j]
      BY <1>0, <2>1, <2>3
    <3>2. Backed(j, m)
      BY <2>3, <3>1 DEF AllBacked
    <3>3. ASSUME NEW k \in Tasks, m \in MutsOf(task[k].batch)
          PROVE  m \in MutsOf(task'[k].batch)
      <4>1. k # i
        BY <2>1, <2>2, <3>3
      <4> QED
        BY <2>1, <3>3, <4>1
    <3> QED
      BY <2>2, <3>1, <3>2, <3>3 DEF Backed
  <2> QED
    BY <2>3 DEF AllBacked
<1>4. ASSUME Reload PROVE AllBacked'
  BY <1>4 DEF Reload, AllBacked
<1>5. ASSUME UNCHANGED vars PROVE AllBacked'
  BY <1>5 DEF vars, AllBacked, Backed
<1> QED
  BY <1>1, <1>2, <1>3, <1>4, <1>5, DriverBacked, CallBacked DEF Next

LEMMA BackedTracked ==
  Formed /\ AllBacked => OverlaysTracked
<1> SUFFICES ASSUME Formed, AllBacked, NEW i \in live, NEW m \in task[i].overlay
             PROVE  Tracked(m) \/ m \in dropped
  BY DEF OverlaysTracked
<1>1. Backed(i, m)
  BY DEF AllBacked
<1> QED
  BY <1>1 DEF Backed, Tracked

\* Whatever order calls, echoes, hydrations, two drivers' replays, dropped views and
\* page loads come in, an overlay on the screen belongs to a write that a call, the
\* replay queue, a batch or a driver still settles, or to a batch lost with its driver.
THEOREM OverlaysTrackedHolds == Spec => []OverlaysTracked
<1>1. Init => AllBacked
  BY DEF Init, AllBacked
<1> QED
  BY <1>1, InitFormed, NextFormed, NextBacked, BackedTracked, PTL DEF Spec

-----------------------------------------------------------------------------
(* Every write on the screen is in the store.                              *)

\* Where a step of the driver of i can put mutations in the store, or take them.
KeepsStore(i) ==
  /\ \A m \in task'[i].overlay :
       m \in task[i].overlay \/ (task[i].at = "adopt" /\ m \in task[i].ids)
  /\ task'[i].at = "adopt"
       => saved' = saved /\ task'[i].ids \subseteq saved[Home[task[i].view]] \cup saved[Bare]
  /\ task'[i].at \in {"retire", "forget"} => task'[i].ids \subseteq settled'
  /\ task'[i].at = "mark" => i \in live /\ task'[i].ids \cap task'[i].overlay = {}
  /\ task'[i].at # "forget" => \A m \in task'[i].ids :
       \/ task[i].at # "forget" /\ m \in task[i].ids
       \/ \E j \in Tasks : m \in task[j].overlay
       \/ \E c \in Compartments : m \in saved[c]
  /\ \A c \in Compartments : \A m \in saved'[c] :
       m \in saved[c] \/ (task[i].at # "forget" /\ m \in task[i].ids)
  /\ \A c \in Compartments : \A m \in saved[c] :
       \/ m \in saved'[c]
       \/ task[i].at \in {"retire", "forget"} /\ m \in task[i].ids
       \/ task[i].at = "mark" /\ c = Home[task[i].view] /\ m \in task[i].ids

LEMMA LoadStore ==
  ASSUME Formed, NEW i \in Tasks, Hydrate(i) \/ Adopt(i) \/ Open(i)
  PROVE  KeepsStore(i)
<1>1. CASE Hydrate(i)
  <2>1. saved' = saved /\ task[i].at = "hydrate" /\ Home[task[i].view] \in Compartments
    BY <1>1, FormedFacts DEF Hydrate, Shape
  <2>2. Goes(i, "adopt", task[i].overlay, saved[Home[task[i].view]] \cup saved[Bare],
             task[i].where, task[i].batch)
    BY <1>1, HydrateFacts
  <2> QED
    BY <2>1, <2>2, StillFacts, FormedFacts DEF Goes, KeepsStore
<1>2. CASE Adopt(i)
  <2>1. saved' = saved /\ task[i].at = "adopt"
    BY <1>2 DEF Adopt
  <2>2. Goes(i, "open", task[i].overlay \cup task[i].ids, task[i].ids, task[i].where, task[i].batch)
    BY <1>2, AdoptFacts
  <2> QED
    BY <2>1, <2>2, StillFacts DEF Goes, KeepsStore
<1>3. CASE Open(i)
  <2>1. saved' = saved /\ task[i].at = "open"
    BY <1>3 DEF Open
  <2>2. Goes(i, "pull", task[i].overlay, {}, task[i].where, task[i].batch)
    BY <1>3, OpenFacts
  <2> QED
    BY <2>1, <2>2, StillFacts DEF Goes, KeepsStore
<1> QED
  BY <1>1, <1>2, <1>3

LEMMA PullStore ==
  ASSUME Formed, NEW i \in Tasks, PullFails(i) \/ Pull(i) \/ Retire(i)
  PROVE  KeepsStore(i)
<1>1. CASE PullFails(i)
  <2>1. saved' = saved /\ task[i].at = "pull"
    BY <1>1 DEF PullFails
  <2>2. \/ i \in live /\ Goes(i, "replay", task[i].overlay, task[i].ids, task[i].where, queue)
        \/ Goes(i, "pull", task[i].overlay, task[i].ids, task[i].where, <<>>)
    BY <1>1, PullFailsFacts
  <2> QED
    BY <2>1, <2>2, StillFacts DEF Goes, KeepsStore
<1>2. CASE Pull(i)
  <2>1. saved' = saved /\ task[i].at = "pull"
    BY <1>2 DEF Pull
  <2>2. PICK E \in SUBSET Muts :
           /\ settled' = settled \cup E
           /\ \A m \in E : \E j \in live : m \in task[j].overlay
           /\ \/ Goes(i, "save", task[i].overlay \ E, task[i].overlay \ E, task[i].where, task[i].batch)
              \/ i \in live /\ Goes(i, "retire", task[i].overlay \ E, E, Mounted, task[i].batch)
    BY <1>2, PullFacts
  <2>3. \A m \in E : \E j \in Tasks : m \in task[j].overlay
    BY <2>2, FormedFacts
  <2>4. CASE Goes(i, "save", task[i].overlay \ E, task[i].overlay \ E, task[i].where, task[i].batch)
    BY <2>1, <2>4, StillFacts DEF Goes, KeepsStore
  <2>5. CASE i \in live /\ Goes(i, "retire", task[i].overlay \ E, E, Mounted, task[i].batch)
    BY <2>1, <2>2, <2>3, <2>5, StillFacts DEF Goes, KeepsStore
  <2> QED
    BY <2>2, <2>4, <2>5
<1>3. CASE Retire(i)
  <2>1. task[i].at = "retire" /\ saved' = Cleared(task[i].ids, task[i].where)
    BY <1>3 DEF Retire
  <2>2. \A c \in Compartments : saved'[c] \subseteq saved[c] /\ saved[c] \ task[i].ids \subseteq saved'[c]
    BY <2>1, StoreFacts
  <2>3. Goes(i, "save", task[i].overlay, task[i].overlay, {}, task[i].batch)
    BY <1>3, RetireFacts
  <2> QED
    BY <2>1, <2>2, <2>3, StillFacts DEF Goes, KeepsStore
<1> QED
  BY <1>1, <1>2, <1>3

LEMMA PersistStore ==
  ASSUME Formed, NEW i \in Tasks, Save(i) \/ Enqueue(i) \/ Sweep(i) \/ Mark(i)
  PROVE  KeepsStore(i)
<1>0. Home[task[i].view] \in Compartments
  BY FormedFacts DEF Shape, Save, Enqueue, Sweep, Mark
<1>1. CASE Save(i) \/ Enqueue(i)
  <2>1. task[i].at \in {"save", "enqueue"}
    BY <1>1 DEF Save, Enqueue
  <2>2. /\ \A c \in Compartments : /\ saved[c] \subseteq saved'[c]
                                   /\ saved'[c] \subseteq saved[c] \cup task[i].ids
        /\ \/ i \notin live /\ task'[i] = Idle
           \/ /\ task'[i].overlay = task[i].overlay
              /\ \/ task'[i].at = "enqueue" /\ task'[i].ids \subseteq task[i].ids
                 \/ task'[i].at = "sweep" /\ task'[i].ids = saved'[Home[task[i].view]]
    BY <1>1, SavingFacts
  <2> QED
    BY <1>0, <2>1, <2>2, StillFacts DEF KeepsStore
<1>2. CASE Sweep(i)
  <2>1. saved' = saved /\ task[i].at = "sweep"
    BY <1>2 DEF Sweep
  <2>2. \/ i \in live /\ Goes(i, "replay", task[i].overlay, {}, task[i].where, queue)
        \/ Goes(i, "pull", task[i].overlay, {}, task[i].where, <<>>)
        \/ i \in live
           /\ Goes(i, "mark", task[i].overlay, task[i].ids \ task[i].overlay, task[i].where, <<>>)
    BY <1>2, SweepFacts
  <2> QED
    BY <2>1, <2>2, StillFacts DEF Goes, KeepsStore
<1>3. CASE Mark(i)
  <2>1. task[i].at = "mark"
    BY <1>3 DEF Mark
  <2>2. /\ \/ i \in live /\ Goes(i, "replay", task[i].overlay, {}, task[i].where, queue)
           \/ Goes(i, "pull", task[i].overlay, {}, task[i].where, <<>>)
        /\ \A c \in Compartments :
             saved'[c] = IF c = Home[task[i].view] THEN saved[c] \ task[i].ids ELSE saved[c]
    BY <1>3, MarkFacts
  <2> QED
    BY <2>1, <2>2, StillFacts DEF Goes, KeepsStore
<1> QED
  BY <1>1, <1>2, <1>3

LEMMA ReplayStore ==
  ASSUME Formed, NEW i \in Tasks,
         ReplayAccepted(i) \/ ReplayOffline(i) \/ ReplayRefused(i) \/ Forget(i)
  PROVE  KeepsStore(i)
<1>1. PICK S, at, ids, where, rest : Replayed(i, S, at, ids, where, rest)
  BY AcceptedFacts, OfflineFacts, RefusedFacts, ForgetFacts
<1>2. /\ at \in {"pull", "replay", "forget"} /\ (at # "forget" => ids = {})
      /\ ids \subseteq settled' /\ Goes(i, at, task[i].overlay \ S, ids, where, rest)
  BY <1>1 DEF Replayed
<1>3. /\ task[i].at \in {"replay", "forget"}
      /\ saved' = saved \/ (task[i].at = "forget" /\ saved' = Cleared(task[i].ids, task[i].where))
  BY DEF ReplayAccepted, ReplayOffline, ReplayRefused, Forget
<1>4. \A c \in Compartments :
        /\ saved'[c] \subseteq saved[c]
        /\ \A m \in saved[c] : m \in saved'[c] \/ (task[i].at = "forget" /\ m \in task[i].ids)
  BY <1>3, StoreFacts
<1> QED
  BY <1>2, <1>3, <1>4, StillFacts DEF Goes, KeepsStore

LEMMA DriverStore ==
  ASSUME Formed, NEW i \in Tasks, Driver(i)
  PROVE  KeepsStore(i)
  BY LoadStore, PullStore, PersistStore, ReplayStore DEF Driver

\* Every query has parameters: a compartment of its own, that the stream's is not.
HomesApart ==
  /\ \A v, w \in Views : Home[v] = Home[w] => v = w
  /\ \A v \in Views : Home[v] # Bare

\* A mutation not made yet is nowhere.
Unmade ==
  \A m \in Muts : call[m].at = "new" =>
    /\ \A c \in Compartments : m \notin saved[c]
    /\ \A i \in Tasks : m \notin task[i].overlay /\ (task[i].at # "forget" => m \notin task[i].ids)

\* m is in the store where the driver of i reads it, or its call is about to put it there.
Safe(i, m) ==
  \/ call[m].at = "saving" /\ Home[task[i].view] \in call[m].left
  \/ m \in saved[Home[task[i].view]]
  \/ m \in saved[Bare]

\* What a view shows, or is about to show, is safe until it is settled.
ShownSafe ==
  \A i \in live : \A m \in Muts :
    /\ m \in task[i].overlay \/ (task[i].at = "adopt" /\ m \in task[i].ids)
    /\ m \notin settled
    => Safe(i, m)

\* A clear takes settled mutations only.
ClearsSettled ==
  /\ \A m \in Muts : call[m].at = "clearing" => m \in settled
  /\ \A i \in Tasks : task[i].at \in {"retire", "forget"} => task[i].ids \subseteq settled

\* A sweep takes only what its view, which is still there, does not show.
SweepsHidden ==
  \A i \in Tasks : task[i].at = "mark" => i \in live /\ task[i].ids \cap task[i].overlay = {}

AllSaved == Unmade /\ ShownSafe /\ ClearsSettled /\ SweepsHidden

LEMMA DriverSaved ==
  ASSUME HomesApart, Formed, AllSaved, NEW i \in Tasks, Driver(i)
  PROVE  AllSaved'
<1>1. PICK S : KeepsForm(i, S)
  BY DriverKeeps DEF Keeps
<1>2. KeepsStore(i)
  BY DriverStore
<1>3. /\ live' = live /\ live \subseteq Tasks /\ call' = call /\ settled \subseteq settled'
      /\ Others(i, S) /\ (i \in live => task'[i].view = task[i].view)
      /\ task' \in [Tasks -> TaskRecs]
  <2>1. KeepsForm(i, S) /\ live \subseteq Tasks
    BY <1>1, FormedFacts
  <2> QED
    BY <2>1 DEF KeepsForm
<1>4. \A j \in Tasks \ {i} :
        /\ task'[j].view = task[j].view /\ task'[j].at = task[j].at /\ task'[j].ids = task[j].ids
        /\ \A m \in task'[j].overlay : m \in task[j].overlay
  <2>1. ASSUME NEW j \in Tasks \ {i}, NEW m \in task'[j].overlay PROVE m \in task[j].overlay
    BY <1>3, <2>1 DEF Others
  <2> QED
    BY <1>3, <2>1 DEF Others
<1>5. Unmade'
  <2>1. SUFFICES ASSUME NEW m \in Muts, call[m].at = "new"
                 PROVE  /\ \A c \in Compartments : m \notin saved'[c]
                        /\ \A j \in Tasks : /\ m \notin task'[j].overlay
                                            /\ task'[j].at # "forget" => m \notin task'[j].ids
    BY <1>3 DEF Unmade
  <2>2. /\ \A c \in Compartments : m \notin saved[c]
        /\ \A j \in Tasks : m \notin task[j].overlay /\ (task[j].at # "forget" => m \notin task[j].ids)
    BY <2>1 DEF AllSaved, Unmade
  <2>3. \A c \in Compartments : m \notin saved'[c]
    BY <1>2, <2>2 DEF KeepsStore
  <2>4. m \notin task'[i].overlay /\ (task'[i].at # "forget" => m \notin task'[i].ids)
    BY <1>2, <2>2 DEF KeepsStore
  <2> QED
    BY <1>4, <2>2, <2>3, <2>4
<1>6. ShownSafe'
  <2>1. SUFFICES ASSUME NEW j \in live, NEW m \in Muts,
                        m \in task'[j].overlay \/ (task'[j].at = "adopt" /\ m \in task'[j].ids),
                        m \notin settled'
                 PROVE  \/ call[m].at = "saving" /\ Home[task[j].view] \in call[m].left
                        \/ m \in saved'[Home[task[j].view]]
                        \/ m \in saved'[Bare]
    <3>1. \A j \in live : task'[j].view = task[j].view
      BY <1>3, <1>4
    <3> QED
      BY <1>3, <2>1, <3>1 DEF ShownSafe, Safe
  <2>2. CASE j = i /\ task'[i].at = "adopt" /\ m \in task'[i].ids
    BY <1>2, <2>2 DEF KeepsStore
  <2>3. CASE m \in task[j].overlay \/ (task[j].at = "adopt" /\ m \in task[j].ids)
    <3>1. Safe(j, m) /\ m \notin settled
      BY <1>3, <2>1, <2>3 DEF AllSaved, ShownSafe
    <3>2. /\ j \in Tasks /\ task[j].view \in Views /\ Home[task[j].view] \in Compartments
          /\ Bare \in Compartments
      BY <1>3, FormedFacts DEF Shape
    <3>3. ASSUME NEW c \in {Home[task[j].view], Bare}, m \in saved[c] PROVE m \in saved'[c]
      <4>1. SUFFICES ASSUME m \notin saved'[c] PROVE FALSE
        OBVIOUS
      <4>2. c \in Compartments
        BY <3>2
      <4>3. \/ task[i].at \in {"retire", "forget"} /\ m \in task[i].ids
            \/ task[i].at = "mark" /\ c = Home[task[i].view] /\ m \in task[i].ids
        BY <1>2, <3>3, <4>1, <4>2 DEF KeepsStore
      <4>4. task[i].at = "mark" /\ c = Home[task[i].view] /\ m \in task[i].ids
        BY <3>1, <4>3 DEF AllSaved, ClearsSettled
      <4>5. i \in live /\ m \notin task[i].overlay
        BY <4>4 DEF AllSaved, SweepsHidden
      <4>6. task[i].view \in Views
        BY <4>5, FormedFacts DEF Shape
      <4>7. c # Bare
        BY <4>4, <4>6 DEF HomesApart
      <4>8. task[i].view = task[j].view
        BY <3>2, <4>4, <4>6, <4>7 DEF HomesApart
      <4>9. i = j
        BY <4>5, <4>8 DEF Formed, OneDriverEach
      <4> QED
        BY <2>3, <4>4, <4>5, <4>9
    <3> QED
      BY <3>1, <3>3 DEF Safe
  <2>4. CASE j = i /\ m \in task'[i].overlay
    <3>1. m \in task[j].overlay \/ (task[j].at = "adopt" /\ m \in task[j].ids)
      BY <1>2, <2>4 DEF KeepsStore
    <3> QED
      BY <2>3, <3>1
  <2>5. CASE j # i
    <3>1. m \in task[j].overlay \/ (task[j].at = "adopt" /\ m \in task[j].ids)
      BY <1>3, <1>4, <2>1, <2>5
    <3> QED
      BY <2>3, <3>1
  <2> QED
    BY <2>1, <2>2, <2>4, <2>5
<1>7. ClearsSettled'
  <2>1. \A m \in Muts : call[m].at = "clearing" => m \in settled'
    BY <1>3 DEF AllSaved, ClearsSettled
  <2>2. ASSUME NEW j \in Tasks, task'[j].at \in {"retire", "forget"}
        PROVE  task'[j].ids \subseteq settled'
    <3>1. CASE j = i
      BY <1>2, <2>2, <3>1 DEF KeepsStore
    <3>2. CASE j # i
      BY <1>3, <1>4, <2>2, <3>2 DEF AllSaved, ClearsSettled
    <3> QED
      BY <3>1, <3>2
  <2> QED
    BY <1>3, <2>1, <2>2 DEF ClearsSettled
<1>8. SweepsHidden'
  <2>1. ASSUME NEW j \in Tasks, task'[j].at = "mark"
        PROVE  j \in live /\ task'[j].ids \cap task'[j].overlay = {}
    <3>1. CASE j = i
      BY <1>2, <2>1, <3>1 DEF KeepsStore
    <3>2. CASE j # i
      <4>1. j \in live /\ task[j].ids \cap task[j].overlay = {}
        BY <1>4, <2>1, <3>2 DEF AllSaved, SweepsHidden
      <4> QED
        BY <1>4, <3>2, <4>1
    <3> QED
      BY <3>1, <3>2
  <2> QED
    BY <1>3, <2>1 DEF SweepsHidden
<1> QED
  BY <1>5, <1>6, <1>7, <1>8 DEF AllSaved

\* A call that has been made moves on, and its mutation is settled or still safe.
LEMMA RedrawnSaved ==
  ASSUME Formed, AllSaved, Redrawn, NEW m \in Muts,
         \A n \in Muts \ {m} : call'[n] = call[n],
         call'[m].at # "new", settled \subseteq settled',
         \A j \in Tasks : task'[j].overlay \subseteq task[j].overlay,
         \A c \in Compartments : /\ saved'[c] \subseteq saved[c] \cup {m}
                                 /\ saved[c] \subseteq saved'[c] \cup {m},
         \/ m \in settled'
         \/ /\ call'[m].at # "clearing"
            /\ \A c \in Compartments : saved[c] \subseteq saved'[c]
            /\ call[m].at = "saving" => \A c \in call[m].left :
                 m \in saved'[c] \/ (call'[m].at = "saving" /\ c \in call'[m].left)
  PROVE  AllSaved'
<1>0. live' = live /\ live \subseteq Tasks /\ Bare \in Compartments
  BY FormedFacts DEF Redrawn
<1>1. \A j \in Tasks : /\ task'[j].view = task[j].view /\ task'[j].at = task[j].at
                       /\ task'[j].ids = task[j].ids
  BY DEF Redrawn
<1>2. Unmade'
  <2>1. SUFFICES ASSUME NEW n \in Muts, call'[n].at = "new"
                 PROVE  /\ \A c \in Compartments : n \notin saved'[c]
                        /\ \A j \in Tasks : /\ n \notin task'[j].overlay
                                            /\ task'[j].at # "forget" => n \notin task'[j].ids
    BY DEF Unmade
  <2>2. n # m /\ call[n].at = "new"
    BY <2>1
  <2> QED
    BY <1>1, <2>2 DEF AllSaved, Unmade
<1>3. ShownSafe'
  <2>1. SUFFICES ASSUME NEW j \in live, NEW n \in Muts,
                        n \in task'[j].overlay \/ (task'[j].at = "adopt" /\ n \in task'[j].ids),
                        n \notin settled'
                 PROVE  \/ call'[n].at = "saving" /\ Home[task[j].view] \in call'[n].left
                        \/ n \in saved'[Home[task[j].view]]
                        \/ n \in saved'[Bare]
    <3>1. \A j \in live : task'[j].view = task[j].view
      BY <1>0, <1>1
    <3> QED
      BY <1>0, <2>1, <3>1 DEF ShownSafe, Safe
  <2>2. n \in task[j].overlay \/ (task[j].at = "adopt" /\ n \in task[j].ids)
    BY <1>0, <1>1, <2>1
  <2>3. Safe(j, n)
    BY <2>1, <2>2 DEF AllSaved, ShownSafe
  <2>4. Home[task[j].view] \in Compartments
    BY <1>0, FormedFacts DEF Shape
  <2>5. CASE n # m
    BY <1>0, <2>3, <2>4, <2>5 DEF Safe
  <2>6. CASE n = m
    <3>1. /\ \A c \in Compartments : saved[c] \subseteq saved'[c]
          /\ call[m].at = "saving" => \A c \in call[m].left :
               m \in saved'[c] \/ (call'[m].at = "saving" /\ c \in call'[m].left)
      BY <2>1, <2>6
    <3> QED
      BY <1>0, <2>3, <2>4, <2>6, <3>1 DEF Safe
  <2> QED
    BY <2>5, <2>6
<1>4. ClearsSettled'
  <2>1. ASSUME NEW n \in Muts, call'[n].at = "clearing" PROVE n \in settled'
    <3>1. CASE n = m
      BY <2>1, <3>1
    <3>2. CASE n # m
      BY <2>1, <3>2 DEF AllSaved, ClearsSettled
    <3> QED
      BY <3>1, <3>2
  <2>2. \A j \in Tasks : task'[j].at \in {"retire", "forget"} => task'[j].ids \subseteq settled'
    BY <1>1 DEF AllSaved, ClearsSettled
  <2> QED
    BY <2>1, <2>2 DEF ClearsSettled
<1>5. SweepsHidden'
  <2>1. ASSUME NEW j \in Tasks, task'[j].at = "mark"
        PROVE  j \in live /\ task'[j].ids \cap task'[j].overlay = {}
    <3>1. j \in live /\ task[j].ids \cap task[j].overlay = {}
      BY <1>1, <2>1 DEF AllSaved, SweepsHidden
    <3> QED
      BY <1>1, <3>1
  <2> QED
    BY <1>0, <2>1 DEF SweepsHidden
<1> QED
  BY <1>2, <1>3, <1>4, <1>5 DEF AllSaved

\* A mutation is shown and about to be saved where the views that show it look for it.
LEMMA MutateSaved ==
  ASSUME Formed, AllSaved, NEW m \in Muts, Mutate(m)
  PROVE  AllSaved'
<1>0. /\ live' = live /\ live \subseteq Tasks /\ saved' = saved /\ settled' = settled
      /\ call[m].at = "new"
  BY FormedFacts DEF Mutate
<1>1. /\ \A j \in Tasks : /\ task'[j].view = task[j].view /\ task'[j].at = task[j].at
                          /\ task'[j].ids = task[j].ids
      /\ \A n \in Muts \ {m} : call'[n] = call[n]
      /\ call'[m].at = "saving"
      /\ \A j \in Tasks : task'[j].overlay # task[j].overlay
           => /\ task'[j].overlay = task[j].overlay \cup {m}
              /\ Home[task[j].view] \in call'[m].left
  <2>1. Redrawn
    BY MutateFacts
  <2> QED
    BY <2>1, MutateFacts DEF Redrawn
<1>2. \A j \in Tasks : m \notin task[j].overlay /\ (task[j].at # "forget" => m \notin task[j].ids)
  BY <1>0 DEF AllSaved, Unmade
<1>3. \A j \in Tasks : \A n \in task'[j].overlay :
        n \in task[j].overlay \/ (n = m /\ Home[task[j].view] \in call'[m].left)
  BY <1>1
<1>4. Unmade'
  <2>1. SUFFICES ASSUME NEW n \in Muts, call'[n].at = "new"
                 PROVE  /\ \A c \in Compartments : n \notin saved'[c]
                        /\ \A j \in Tasks : /\ n \notin task'[j].overlay
                                            /\ task'[j].at # "forget" => n \notin task'[j].ids
    BY DEF Unmade
  <2>2. n # m /\ call[n].at = "new"
    BY <1>1, <2>1
  <2>3. /\ \A c \in Compartments : n \notin saved[c]
        /\ \A j \in Tasks : n \notin task[j].overlay /\ (task[j].at # "forget" => n \notin task[j].ids)
    BY <2>2 DEF AllSaved, Unmade
  <2> QED
    BY <1>0, <1>1, <1>3, <2>2, <2>3
<1>5. ShownSafe'
  <2>1. SUFFICES ASSUME NEW j \in live, NEW n \in Muts,
                        n \in task'[j].overlay \/ (task'[j].at = "adopt" /\ n \in task'[j].ids),
                        n \notin settled
                 PROVE  \/ call'[n].at = "saving" /\ Home[task[j].view] \in call'[n].left
                        \/ n \in saved[Home[task[j].view]]
                        \/ n \in saved[Bare]
    <3>1. \A j \in live : task'[j].view = task[j].view
      BY <1>0, <1>1
    <3> QED
      BY <1>0, <2>1, <3>1 DEF ShownSafe, Safe
  <2>2. j \in Tasks
    BY <1>0
  <2>3. CASE n = m
    <3>1. m \in task'[j].overlay
      BY <1>1, <1>2, <2>1, <2>2, <2>3
    <3>2. Home[task[j].view] \in call'[m].left
      BY <1>2, <1>3, <2>2, <3>1
    <3> QED
      BY <1>1, <2>3, <3>2
  <2>4. CASE n # m
    <3>1. n \in task[j].overlay \/ (task[j].at = "adopt" /\ n \in task[j].ids)
      BY <1>1, <1>3, <2>1, <2>2, <2>4
    <3>2. Safe(j, n) /\ call'[n] = call[n]
      BY <1>1, <2>1, <2>4, <3>1 DEF AllSaved, ShownSafe
    <3> QED
      BY <3>2 DEF Safe
  <2> QED
    BY <2>3, <2>4
<1>6. ClearsSettled'
  <2>1. ASSUME NEW n \in Muts, call'[n].at = "clearing" PROVE n \in settled'
    <3>1. n # m /\ call'[n] = call[n]
      BY <1>1, <2>1
    <3> QED
      BY <1>0, <2>1, <3>1 DEF AllSaved, ClearsSettled
  <2>2. \A j \in Tasks : task'[j].at \in {"retire", "forget"} => task'[j].ids \subseteq settled'
    BY <1>0, <1>1 DEF AllSaved, ClearsSettled
  <2> QED
    BY <2>1, <2>2 DEF ClearsSettled
<1>7. SweepsHidden'
  <2>1. ASSUME NEW j \in Tasks, task'[j].at = "mark"
        PROVE  j \in live /\ task'[j].ids \cap task'[j].overlay = {}
    <3>1. task[j].at = "mark" /\ task'[j].ids = task[j].ids
      BY <1>1, <2>1
    <3>2. j \in live /\ task[j].ids \cap task[j].overlay = {} /\ m \notin task[j].ids
      BY <1>2, <3>1 DEF AllSaved, SweepsHidden
    <3> QED
      BY <1>3, <3>1, <3>2
  <2> QED
    BY <1>0, <2>1 DEF SweepsHidden
<1> QED
  BY <1>4, <1>5, <1>6, <1>7 DEF AllSaved

LEMMA CallSaved ==
  ASSUME Formed, AllSaved, NEW m \in Muts, Call(m)
  PROVE  AllSaved'
<1>1. CASE SaveCall(m)
  <2>1. task' = task /\ live' = live /\ settled' = settled /\ call[m].at = "saving"
    BY <1>1 DEF SaveCall
  <2>2. Redrawn /\ \A j \in Tasks : task'[j].overlay \subseteq task[j].overlay
    BY <2>1, FormedFacts DEF Redrawn
  <2>3. /\ \A n \in Muts \ {m} : call'[n] = call[n]
        /\ call'[m].at \in {"saving", "sent"}
        /\ \A c \in Compartments : saved[c] \subseteq saved'[c] /\ saved'[c] \subseteq saved[c] \cup {m}
        /\ \A c \in call[m].left : m \in saved'[c] \/ (call'[m].at = "saving" /\ c \in call'[m].left)
    BY <1>1, SaveCallFacts
  <2>4. /\ \A c \in Compartments : /\ saved'[c] \subseteq saved[c] \cup {m}
                                   /\ saved[c] \subseteq saved'[c] \cup {m}
        /\ call'[m].at # "new" /\ call'[m].at # "clearing" /\ settled \subseteq settled'
    BY <2>1, <2>3
  <2> QED
    BY <2>2, <2>3, <2>4, RedrawnSaved
<1>2. CASE CallAnswered(m) \/ Cancel(m)
  <2>1. saved' = saved /\ settled' = settled \cup {m}
    BY <1>2 DEF CallAnswered, Cancel
  <2>2. /\ Redrawn /\ \A n \in Muts \ {m} : call'[n] = call[n]
        /\ call'[m].at # "new"
        /\ \A j \in live : task'[j].overlay \subseteq task[j].overlay
    BY <1>2, TakenBack
  <2>3. \A j \in Tasks : task'[j].overlay \subseteq task[j].overlay
    BY <2>2 DEF Redrawn
  <2>4. /\ \A c \in Compartments : /\ saved'[c] \subseteq saved[c] \cup {m}
                                   /\ saved[c] \subseteq saved'[c] \cup {m}
        /\ m \in settled' /\ settled \subseteq settled'
    BY <2>1
  <2> QED
    BY <2>2, <2>3, <2>4, RedrawnSaved
<1>3. CASE CallOffline(m)
  <2>1. saved' = saved /\ settled' = settled /\ call[m].at = "sent"
    BY <1>3 DEF CallOffline
  <2>2. /\ Redrawn /\ \A n \in Muts \ {m} : call'[n] = call[n]
        /\ \A j \in Tasks : task'[j].overlay = task[j].overlay
    BY <1>3, MovedOnFacts
  <2>3. call'[m].at = "over"
    BY <1>3, MovedOnFacts
  <2>4. /\ \A c \in Compartments : /\ saved'[c] \subseteq saved[c] \cup {m}
                                   /\ saved[c] \subseteq saved'[c] \cup {m}
                                   /\ saved[c] \subseteq saved'[c]
        /\ settled \subseteq settled' /\ \A j \in Tasks : task'[j].overlay \subseteq task[j].overlay
    BY <2>1, <2>2
  <2> QED
    BY <2>1, <2>2, <2>3, <2>4, RedrawnSaved
<1>4. CASE ClearCall(m)
  <2>1. saved' = Cleared({m}, call[m].left) /\ settled' = settled /\ call[m].at = "clearing"
    BY <1>4 DEF ClearCall
  <2>2. m \in settled'
    BY <2>1 DEF AllSaved, ClearsSettled
  <2>3. /\ Redrawn /\ call'[m].at = "over"
        /\ \A n \in Muts \ {m} : call'[n] = call[n]
        /\ \A j \in Tasks : task'[j].overlay = task[j].overlay
    BY <1>4, MovedOnFacts
  <2>4. \A c \in Compartments : saved'[c] \subseteq saved[c] /\ saved[c] \ {m} \subseteq saved'[c]
    BY <2>1, StoreFacts
  <2>5. /\ \A c \in Compartments : /\ saved'[c] \subseteq saved[c] \cup {m}
                                   /\ saved[c] \subseteq saved'[c] \cup {m}
        /\ settled \subseteq settled' /\ \A j \in Tasks : task'[j].overlay \subseteq task[j].overlay
    BY <2>1, <2>3, <2>4
  <2> QED
    BY <2>2, <2>3, <2>5, RedrawnSaved
<1> QED
  BY <1>1, <1>2, <1>3, <1>4, MutateSaved DEF Call

LEMMA NextSaved ==
  ASSUME HomesApart, "mark" \notin Interrupts
  PROVE  Formed /\ AllSaved /\ [Next]_vars => AllSaved'
<1> SUFFICES ASSUME Formed, AllSaved, [Next]_vars PROVE AllSaved'
  OBVIOUS
<1>0. live \subseteq Tasks /\ task \in [Tasks -> TaskRecs]
  BY FormedFacts
<1> USE DEF AllSaved
<1>1. ASSUME NEW m \in Muts, Serve(m) PROVE AllSaved'
  BY <1>1 DEF Serve, Unmade, ShownSafe, Safe, ClearsSettled, SweepsHidden
<1>2. ASSUME NEW i \in Tasks, Unmount(i) PROVE AllSaved'
  <2>1. /\ UNCHANGED <<task, queue, saved, call, server, settled, dropped>>
        /\ live' = live \ {i} /\ task[i].at # "mark"
    BY <1>2 DEF Unmount
  <2> QED
    BY <2>1 DEF Unmade, ShownSafe, Safe, ClearsSettled, SweepsHidden
<1>3. ASSUME NEW v \in Views, Mount(v) PROVE AllSaved'
  <2>1. PICK i \in Tasks :
           /\ i \notin live /\ live' = live \cup {i}
           /\ \A j \in Tasks \ {i} : task'[j] = task[j]
           /\ task'[i].at = "hydrate" /\ task'[i].overlay = {} /\ task'[i].ids = {}
    BY <1>3, MountFacts
  <2>2. saved' = saved /\ call' = call /\ settled' = settled
    BY <1>3 DEF Mount
  <2>3. Unmade' /\ ClearsSettled' /\ SweepsHidden'
    BY <2>1, <2>2 DEF Unmade, ClearsSettled, SweepsHidden
  <2>4. ShownSafe'
    <3>1. \A j \in live : j \in Tasks \ {i} /\ task'[j] = task[j]
      BY <1>0, <2>1
    <3> QED
      BY <2>1, <2>2, <3>1 DEF ShownSafe, Safe
  <2> QED
    BY <2>3, <2>4
<1>4. ASSUME Reload PROVE AllSaved'
  <2>1. /\ task' = [i \in Tasks |-> Idle] /\ live' = {} /\ saved' = saved
        /\ \A m \in Muts : call'[m] = call[m] \/ (call[m].at # "new" /\ call'[m].at = "over")
        /\ settled \subseteq settled'
    BY <1>4, ReloadFacts
  <2>2. Unmade'
    BY <2>1, IdleFacts DEF Unmade
  <2>3. ShownSafe' /\ SweepsHidden'
    BY <2>1, IdleFacts DEF ShownSafe, SweepsHidden
  <2>4. ClearsSettled'
    BY <2>1, IdleFacts DEF ClearsSettled
  <2> QED
    BY <2>2, <2>3, <2>4
<1>5. ASSUME UNCHANGED vars PROVE AllSaved'
  BY <1>5 DEF vars, Unmade, ShownSafe, Safe, ClearsSettled, SweepsHidden
<1> QED
  BY <1>1, <1>2, <1>3, <1>4, <1>5, DriverSaved, CallSaved DEF Next

LEMMA InitSaved ==
  Init => AllSaved
<1> SUFFICES ASSUME Init PROVE AllSaved
  OBVIOUS
<1> QED
  BY IdleFacts DEF Init, AllSaved, Unmade, ShownSafe, ClearsSettled, SweepsHidden

LEMMA SavedShown ==
  Formed /\ AllSaved => ShownWritesSaved
<1> SUFFICES ASSUME Formed, AllSaved, NEW i \in live, NEW m \in task[i].overlay, Owed(m)
             PROVE  \E c \in Compartments : m \in saved[c]
  BY DEF ShownWritesSaved
<1>1. i \in Tasks /\ m \in Muts /\ Bare \in Compartments /\ Home[task[i].view] \in Compartments
  BY FormedFacts DEF Shape, TaskRecs
<1>2. Safe(i, m)
  BY <1>1 DEF AllSaved, ShownSafe, Owed
<1> QED
  BY <1>1, <1>2 DEF Safe, Owed

\* While every query has a compartment of its own and no view is dropped between the
\* read of a sweep and its delete, what a view shows beyond the server's rows is backed
\* by work and by the store: no clear and no sweep takes the only copy of a write.
THEOREM OverlaysBackedHolds ==
  ASSUME HomesApart, "mark" \notin Interrupts
  PROVE  Spec => []OverlaysBacked
<1>1. Init => AllBacked
  BY DEF Init, AllBacked
<1>2. Formed /\ AllBacked /\ AllSaved => OverlaysBacked
  BY BackedTracked, SavedShown DEF OverlaysBacked
<1>3. Formed /\ AllSaved /\ [Next]_vars => AllSaved'
  BY NextSaved
<1> QED
  BY <1>1, <1>2, <1>3, InitFormed, InitSaved, NextFormed, NextBacked, PTL DEF Spec

=============================================================================
