---------------------------- MODULE UploadProofs ----------------------------
(***************************************************************************)
(* BytesAreTheFile, DoneHasObject and TypeOK of Upload, for files, chunks, *)
(* tabs and sessions of any number and size and any number of crashes and  *)
(* losses, as long as no connection drops while its blocking work runs:    *)
(* with Detach the mutex no longer serializes, and the run UploadOverlap   *)
(* shows what follows.                                                     *)
(*                                                                         *)
(*  - Ind is about the disk and the work of the server: what each handler  *)
(*    has read is still so, because its session's mutex is its own.        *)
(*  - Talk is about the senders: each waits for at most one request, which *)
(*    is for the session and the phase it is in, and an answer says what   *)
(*    the request asked.                                                   *)
(*  - Kept says what a complete session keeps: its object.                 *)
(*  - Finished is what a sender that was told of an object relies on, and  *)
(*    what no step takes away, not even that of a sweep.                   *)
(***************************************************************************)
EXTENDS Upload, SequenceTheorems, TLAPS

-----------------------------------------------------------------------------
(* Bytes.                                                                  *)

Contents == Seq(Nat \ {0})

\* A file that begins with the first n bytes of the uploaded one.
Has(f, n) ==
    /\ f \in Contents /\ Len(f) >= n
    /\ \A i \in 1..n : f[i] = i

\* No byte of a file is that of Gone.
LEMMA NotGone == ASSUME NEW f \in Contents PROVE f # Gone
<1> SUFFICES ASSUME f = Gone PROVE FALSE
  OBVIOUS
<1>1. Len(f) = 1 /\ f[1] = 0
  BY DEF Gone
<1>2. f[1] \in Nat \ {0}
  <2>1. 1 \in 1..Len(f)
    BY <1>1
  <2> QED
    BY <2>1, ElementOfSeq DEF Contents
<1> QED
  BY <1>1, <1>2

\* The file that is uploaded.
LEMMA FileFacts ==
  File \in Contents /\ Len(File) = Size /\ File # Gone /\ \A i \in 1..Size : File[i] = i
<1>1. File \in [1..Size -> Nat \ {0}]
  BY SizesAssumption DEF File
<1>2. File \in Contents
  BY <1>1, SizesAssumption, SeqDef DEF Contents
<1>3. DOMAIN File = 1..Len(File) /\ Len(File) \in Nat
  BY <1>2, LenProperties DEF Contents
<1>4. Len(File) = Size
  BY <1>1, <1>3, SizesAssumption
<1> QED
  BY <1>2, <1>4, NotGone DEF File

\* Some of the file, from an offset on.
LEMMA PartFacts ==
  ASSUME NEW o \in 0..Size, NEW e \in o..Size
  PROVE  LET part == SubSeq(File, o + 1, e)
         IN /\ part \in Contents /\ Len(part) = e - o
            /\ \A i \in 1..(e - o) : part[i] = o + i
<1>1. o + 1 \in Int /\ e \in Int
  BY SizesAssumption
<1>2. \A i \in (o + 1)..e : File[i] \in Nat \ {0}
  BY FileFacts, SizesAssumption
<1>3. /\ SubSeq(File, o + 1, e) \in Seq(Nat \ {0})
      /\ Len(SubSeq(File, o + 1, e)) = IF o + 1 <= e THEN e - (o + 1) + 1 ELSE 0
      /\ \A i \in 1 .. e - (o + 1) + 1 : SubSeq(File, o + 1, e)[i] = File[o + 1 + i - 1]
  BY <1>1, <1>2, SubSeqProperties
<1>4. \A i \in 1..(e - o) : SubSeq(File, o + 1, e)[i] = o + i
  BY <1>3, FileFacts, SizesAssumption
<1> QED
  BY <1>3, <1>4, SizesAssumption DEF Contents

\* The chunk at an offset.
LEMMA ChunkFacts == ASSUME NEW o \in 0..Size PROVE ChunkEnd(o) \in o..Size
  BY SizesAssumption DEF ChunkEnd

\* Whatever is appended to a file leaves its beginning as it is ...
LEMMA AppendKeeps ==
  ASSUME NEW n \in Nat, NEW f, Has(f, n), NEW g \in Contents
  PROVE  Has(f \o g, n)
  BY ConcatProperties, LenProperties DEF Has, Contents

\* ... the right bytes at the right place lengthen it ...
LEMMA AppendGrows ==
  ASSUME NEW o \in 0..Size, NEW e \in o..Size, NEW f, Has(f, o), Len(f) = o
  PROVE  Has(f \o SubSeq(File, o + 1, e), e)
<1> DEFINE g == SubSeq(File, o + 1, e)
<1>1. g \in Contents /\ Len(g) = e - o /\ \A i \in 1..(e - o) : g[i] = o + i
  BY PartFacts
<1> HIDE DEF g
<1>2. /\ f \o g \in Contents
      /\ Len(f \o g) = Len(f) + Len(g)
      /\ \A i \in 1 .. Len(f) + Len(g) : (f \o g)[i] = IF i <= Len(f) THEN f[i] ELSE g[i - Len(f)]
  BY <1>1, ConcatProperties DEF Has, Contents
<1>3. Has(f \o g, e)
  BY <1>1, <1>2, SizesAssumption DEF Has
<1> QED
  BY <1>3 DEF g

\* ... and what is cut off behind it was not part of it.
LEMMA CutKeeps ==
  ASSUME NEW n \in Nat, NEW f, Has(f, n)
  PROVE  LET g == IF Len(f) > n THEN SubSeq(f, 1, n) ELSE f IN Has(g, n) /\ Len(g) = n
<1>1. Len(f) \in Nat
  BY LenProperties DEF Has, Contents
<1>2. CASE Len(f) > n
  <2>1. \A i \in 1..n : f[i] \in Nat \ {0}
    BY DEF Has
  <2>2. /\ SubSeq(f, 1, n) \in Seq(Nat \ {0})
        /\ Len(SubSeq(f, 1, n)) = IF 1 <= n THEN n - 1 + 1 ELSE 0
        /\ \A i \in 1 .. n - 1 + 1 : SubSeq(f, 1, n)[i] = f[1 + i - 1]
    BY <2>1, SubSeqProperties
  <2> QED
    BY <1>2, <2>2 DEF Has, Contents
<1>3. CASE ~ (Len(f) > n)
  BY <1>1, <1>3 DEF Has
<1> QED
  BY <1>2, <1>3

\* A file of the right length is the file.
LEMMA HasAll == ASSUME NEW f, Has(f, Size), Len(f) = Size PROVE f = File
  BY FileFacts, SeqEqual DEF Has, Contents

-----------------------------------------------------------------------------
(* The invariant.                                                          *)

Metas == [status : {"none", "open", "expired", "complete"}, offset : 0..Size]

Fields == {"op", "sess", "offset", "pc", "seen"}

Shape ==
  /\ meta \in [Sessions -> Metas]
  /\ tmp = [s \in Sessions |-> tmp[s]] /\ object = [s \in Sessions |-> object[s]]
  /\ holder = [s \in Sessions |-> holder[s]]
  /\ task = [t \in Tasks |-> task[t]]
  /\ \A t \in Tasks : Fields \subseteq DOMAIN task[t]
  /\ made \in 0..MaxSessions /\ late \subseteq 1..made /\ sweeping \subseteq late
  /\ \A s \in Sessions : s > made => meta[s].status = "none"

\* What the disk says of a session whose time is not over: the bytes begin as the
\* metadata says, or are gone because they are the object. (A sweep may take the one and
\* leave the other of a session whose time is over.)
Saved(s) ==
  /\ s \notin late =>
       /\ tmp[s] = Gone \/ Has(tmp[s], meta[s].offset)
       /\ meta[s].status = "none" => tmp[s] = Gone
       /\ meta[s].status = "open" /\ tmp[s] = Gone => object[s] = File /\ meta[s].offset = Size
       /\ meta[s].status # "expired"
  /\ object[s] \in {Gone, File}

\* The metadata has not changed since the task read it, as long as the session's time is
\* not over: after that a sweep may take it.
Unmoved(s, seen) == s \in late \/ (meta[s].status = "open" /\ meta[s].offset = seen)

\* What running work on a session may rely on: it alone holds the session, and its steps
\* so far have brought the bytes to where the next one wants them, unless a sweep has
\* taken them since.
Stage(p, s) ==
  /\ p.pc # "read" => p.seen \in 0..Size /\ Unmoved(s, p.seen)
  /\ p.pc \notin {"read", "expire"} /\ p.op = "append" => p.offset = p.seen
  /\ p.pc = "expire" => s \in late
  /\ p.pc = "reconcile" => /\ tmp[s] = Gone \/ Has(tmp[s], p.seen)
                           /\ s \notin late /\ tmp[s] = Gone => p.seen = Size
  /\ p.pc = "write" => /\ p.op = "append" /\ (s \notin late => tmp[s] # Gone)
                       /\ tmp[s] # Gone => Has(tmp[s], p.seen) /\ Len(tmp[s]) = p.seen
  /\ p.pc = "commit" /\ p.op = "append"
       => s \in late \/ tmp[s] = Gone \/ Has(tmp[s], ChunkEnd(p.seen))
  /\ p.pc = "move" => p.op # "append" /\ p.seen = Size /\ tmp[s] \in {Gone, File}
  /\ p.pc = "remove" => p.op # "append" /\ p.seen = Size /\ object[s] = File
  /\ p.pc = "commit" /\ p.op # "append" => object[s] = File

UnderWay(t) ==
  Running(t) /\ task[t].sess \in Sessions =>
    holder[task[t].sess] = t /\ Stage(task[t], task[t].sess)

Ind == Shape /\ (\A s \in Sessions : Saved(s)) /\ (\A t \in Tasks : UnderWay(t))

-----------------------------------------------------------------------------
(* Who disturbs what.                                                      *)

\* What neither the disk nor the tasks see.
LEMMA Quiet ==
  ASSUME Ind, UNCHANGED <<disk, late, sweeping, server, made>> PROVE Ind'
  BY DEF Ind, Shape, Saved, UnderWay, Stage, Unmoved, Running, disk, server

\* A task that is not running after the step: its locks may be gone.
LEMMA Leaves ==
  ASSUME Ind, NEW c \in Tasks, NEW q, task' = [task EXCEPT ![c] = q],
         Fields \subseteq DOMAIN q,
         q.pc \notin {"read", "expire", "reconcile", "write", "move", "remove", "commit"},
         holder' = [s \in Sessions |-> holder'[s]],
         \A s \in Sessions : holder'[s] = holder[s] \/ holder[s] = c,
         UNCHANGED <<disk, late, sweeping, made>>
  PROVE  Ind'
<1>1. \A t \in Tasks : task'[t] = IF t = c THEN q ELSE task[t]
  BY DEF Ind, Shape
<1>2. Shape'
  BY <1>1 DEF Ind, Shape, disk
<1>3. \A s \in Sessions : Saved(s)'
  BY DEF Ind, Saved, disk
<1>4. ASSUME NEW t \in Tasks PROVE UnderWay(t)'
  <2>1. CASE t = c
    BY <1>1, <2>1 DEF UnderWay, Running
  <2>2. CASE t # c
    BY <1>1, <2>2 DEF Ind, UnderWay, Running, Stage, Unmoved, disk
  <2> QED
    BY <2>1, <2>2
<1> QED
  BY <1>2, <1>3, <1>4 DEF Ind

\* A step of the task that holds a session touches no other session, and nobody else is
\* at work on this one.
LEMMA OwnStep ==
  ASSUME Ind, NEW t \in Tasks, Running(t), NEW s, s = task[t].sess,
         NEW q, task' = [task EXCEPT ![t] = q],
         Fields \subseteq DOMAIN q, q.sess = s \/ q.pc = Free,
         meta' \in [Sessions -> Metas],
         tmp' = [x \in Sessions |-> tmp'[x]], object' = [x \in Sessions |-> object'[x]],
         holder' = [x \in Sessions |-> holder'[x]],
         \A x \in Sessions \ {s} : meta'[x] = meta[x] /\ tmp'[x] = tmp[x] /\ object'[x] = object[x],
         \A x \in Sessions : holder'[x] = holder[x] \/ holder[x] = t,
         UNCHANGED <<late, sweeping, made>>,
         s \in Sessions => (s > made => meta'[s].status = "none") /\ Saved(s)' /\ UnderWay(t)'
  PROVE  Ind'
<1>1. \A u \in Tasks : task'[u] = IF u = t THEN q ELSE task[u]
  BY DEF Ind, Shape
<1>2. Shape'
  <2>1. \A x \in Sessions : x > made => meta'[x].status = "none"
    <3>1. \A x \in Sessions \ {s} : x > made => meta'[x].status = "none"
      BY DEF Ind, Shape
    <3> QED
      BY <3>1
  <2> QED
    BY <1>1, <2>1 DEF Ind, Shape
<1>3. ASSUME NEW x \in Sessions PROVE Saved(x)'
  <2>1. CASE x # s
    BY <2>1 DEF Ind, Saved
  <2> QED
    BY <2>1
<1>4. ASSUME NEW u \in Tasks PROVE UnderWay(u)'
  <2>1. CASE u = t
    BY <1>1, <2>1 DEF UnderWay, Running, Free
  <2>2. CASE u # t
    <3> SUFFICES ASSUME Running(u), task[u].sess \in Sessions
                 PROVE  holder'[task[u].sess] = u /\ Stage(task[u], task[u].sess)'
      BY <1>1, <2>2 DEF UnderWay, Running
    <3> DEFINE x == task[u].sess
    <3>1. holder[x] = u /\ Stage(task[u], x)
      BY DEF Ind, UnderWay
    <3>2. x # s
      BY <2>2, <3>1 DEF Ind, UnderWay
    <3>3. holder'[x] = u
      BY <2>2, <3>1
    <3>4. meta'[x] = meta[x] /\ tmp'[x] = tmp[x] /\ object'[x] = object[x]
      BY <3>2
    <3>5. task'[u] = task[u]
      BY <1>1, <2>2
    <3>6. x' = x
      BY <3>5
    <3> HIDE DEF x
    <3>7. Stage(task[u], x)'
      BY <3>1, <3>4, <3>5, <3>6 DEF Stage, Unmoved
    <3> QED
      BY <3>3, <3>5, <3>7 DEF x
  <2> QED
    BY <2>1, <2>2
<1> QED
  BY <1>2, <1>3, <1>4 DEF Ind

\* The guard that is dropped is the task's own.
LEMMA Unlocks ==
  ASSUME NEW t, Unlock(t)
  PROVE  /\ holder' = [s \in Sessions |-> holder'[s]]
         /\ \A s \in Sessions : holder'[s] = holder[s] \/ holder[s] = t
  BY DEF Unlock

\* What the task is when it has answered.
LEMMA NoTaskFacts ==
  /\ Fields \subseteq DOMAIN NoTask /\ NoTask.pc = Free
  /\ Free \notin {"read", "expire", "reconcile", "write", "move", "remove", "commit"}
  BY DEF NoTask, Fields, Free

\* A request that is answered with a failure leaves the disk alone.
LEMMA FailsKeeps ==
  ASSUME Ind, NEW t \in Tasks, NEW reply, Fails(t, reply), UNCHANGED <<late, sweeping, made>>
  PROVE  Ind'
<1>1. task' = [task EXCEPT ![t] = NoTask]
  BY DEF Fails, Answer
<1>2. /\ holder' = [s \in Sessions |-> holder'[s]]
      /\ \A s \in Sessions : holder'[s] = holder[s] \/ holder[s] = t
  BY Unlocks DEF Fails
<1> QED
  BY <1>1, <1>2, NoTaskFacts, Leaves DEF Fails

-----------------------------------------------------------------------------
(* The steps of a task that holds a session.                               *)

\* What a step of a task on a session need not look at.
LEMMA Typed ==
  ASSUME Ind
  PROVE  /\ meta \in [Sessions -> Metas]
         /\ tmp = [s \in Sessions |-> tmp[s]] /\ object = [s \in Sessions |-> object[s]]
         /\ holder = [s \in Sessions |-> holder[s]]
         /\ \A t \in Tasks : Fields \subseteq DOMAIN task[t]
         /\ \A s \in Sessions : s > made => meta[s].status = "none"
  BY DEF Ind, Shape

\* A session that has metadata, or whose time is over, is one that was made.
LEMMA WasMade ==
  ASSUME Ind, NEW s \in Sessions, meta[s].status # "none" \/ s \in late PROVE s <= made
<1>1. made \in Nat /\ s \in Nat /\ late \subseteq 1..made
  BY BoundsAssumption DEF Ind, Shape, Sessions
<1>2. meta[s].status # "none" => ~ (s > made)
  BY Typed
<1> QED
  BY <1>1, <1>2

\* The metadata is read: a session that has run out will be closed, an open one is
\* worked on.
LEMMA ReadKeeps ==
  ASSUME Ind, NEW t \in Tasks, NEW s, s = task[t].sess, Read(t) PROVE Ind'
<1>1. Running(t) /\ UNCHANGED <<late, sweeping, made>>
  BY DEF Read, Running, bounds, clock
<1>2. CASE \E reply : Fails(t, reply)
  BY <1>1, <1>2, FailsKeeps
<1>3. ASSUME NEW pc \in {"expire", "reconcile"},
             task' = [task EXCEPT ![t].pc = pc, ![t].seen = meta[s].offset],
             UNCHANGED <<disk, holder, tab>>,
             pc = "expire" => Status(s) = "expired",
             pc = "reconcile" => /\ Status(s) = "open"
                                 /\ task[t].op = "append" => task[t].offset = meta[s].offset
      PROVE  Ind'
  <2> DEFINE q == [task[t] EXCEPT !.pc = pc, !.seen = meta[s].offset]
  <2>1. task' = [task EXCEPT ![t] = q]
    BY <1>3
  <2>2. /\ Fields \subseteq DOMAIN q /\ q.sess = s /\ q.pc = pc /\ q.seen = meta[s].offset
        /\ q.op = task[t].op /\ q.offset = task[t].offset
    BY Typed DEF Fields
  <2>3. ASSUME s \in Sessions PROVE Saved(s)' /\ UnderWay(t)'
    <3>1. meta[s].offset \in 0..Size
      BY <2>3, Typed DEF Metas
    <3>2. holder[s] = t
      BY <1>1, <2>3 DEF Ind, UnderWay
    <3>3. task'[t] = q
      BY <2>1 DEF Ind, Shape
    <3> HIDE DEF q
    <3>4. Saved(s)'
      BY <1>1, <1>3, <2>3 DEF Ind, Saved, disk
    <3>5. UnderWay(t)'
      <4>1. CASE pc = "expire"
        <5>1. s \in late
          BY <1>3, <2>3, <4>1 DEF Ind, Saved, Status
        <5> QED
          BY <1>1, <1>3, <2>2, <3>1, <3>2, <3>3, <4>1, <5>1 DEF UnderWay, Stage, Unmoved, disk
      <4>2. CASE pc = "reconcile"
        <5>1. meta[s].status = "open" /\ s \notin late
          BY <1>3, <4>2 DEF Status
        <5>2. /\ tmp[s] = Gone \/ Has(tmp[s], meta[s].offset)
              /\ tmp[s] = Gone => meta[s].offset = Size
          BY <2>3, <5>1 DEF Ind, Saved
        <5> QED
          BY <1>1, <1>3, <2>2, <3>1, <3>2, <3>3, <4>2, <5>1, <5>2 DEF UnderWay, Stage, Unmoved, disk
      <4> QED
        BY <4>1, <4>2
    <3> QED
      BY <3>4, <3>5
  <2> HIDE DEF q
  <2>4. /\ meta' \in [Sessions -> Metas]
        /\ tmp' = [x \in Sessions |-> tmp'[x]] /\ object' = [x \in Sessions |-> object'[x]]
        /\ holder' = [x \in Sessions |-> holder'[x]]
        /\ \A x \in Sessions \ {s} : meta'[x] = meta[x] /\ tmp'[x] = tmp[x] /\ object'[x] = object[x]
        /\ \A x \in Sessions : holder'[x] = holder[x]
        /\ s \in Sessions => (s > made => meta'[s].status = "none")
    BY <1>3, Typed DEF disk
  <2> QED
    BY <1>1, <2>1, <2>2, <2>3, <2>4, OwnStep
<1>4. \/ \E reply : Fails(t, reply)
      \/ /\ task' = [task EXCEPT ![t].pc = "expire", ![t].seen = meta[s].offset]
         /\ UNCHANGED <<disk, holder, tab>> /\ Status(s) = "expired"
      \/ /\ Status(s) = "open" /\ (task[t].op = "append" => task[t].offset = meta[s].offset)
         /\ task' = [task EXCEPT ![t].pc = "reconcile", ![t].seen = meta[s].offset]
         /\ UNCHANGED <<disk, holder, tab>>
  BY DEF Read
<1> QED
  BY <1>2, <1>3, <1>4

\* A step of the work on a session's files.
LEMMA Moves ==
  ASSUME Ind, NEW t \in Tasks, Running(t), NEW s, s = task[t].sess,
         NEW pc, task' = [task EXCEPT ![t].pc = pc],
         tmp' = [x \in Sessions |-> tmp'[x]], object' = [x \in Sessions |-> object'[x]],
         \A x \in Sessions \ {s} : tmp'[x] = tmp[x] /\ object'[x] = object[x],
         UNCHANGED <<meta, holder, late, sweeping, made>>,
         s \in Sessions => Saved(s)' /\ Stage(task[t], s)'
  PROVE  Ind'
<1> DEFINE q == [task[t] EXCEPT !.pc = pc]
<1>1. task' = [task EXCEPT ![t] = q] /\ Fields \subseteq DOMAIN q /\ q.sess = s
  BY Typed DEF Fields
<1> HIDE DEF q
<1>2. task'[t].sess = s
  BY <1>1 DEF Ind, Shape
<1>3. s \in Sessions => UnderWay(t)'
  BY <1>2 DEF UnderWay, Ind
<1>4. /\ meta' \in [Sessions -> Metas]
      /\ tmp' = [x \in Sessions |-> tmp'[x]] /\ object' = [x \in Sessions |-> object'[x]]
      /\ holder' = [x \in Sessions |-> holder'[x]]
      /\ \A x \in Sessions \ {s} : meta'[x] = meta[x] /\ tmp'[x] = tmp[x] /\ object'[x] = object[x]
      /\ s \in Sessions => (s > made => meta'[s].status = "none")
  BY Typed
<1> QED
  BY <1>1, <1>3, <1>4, OwnStep

\* The bytes are brought to the committed length.
LEMMA ReconcileKeeps ==
  ASSUME Ind, NEW t \in Tasks, NEW s, s = task[t].sess, Reconcile(t) PROVE Ind'
<1> DEFINE n == task[t].seen
           f == IF TempLen(s) > n THEN SubSeq(tmp[s], 1, n) ELSE tmp[s]
<1>1. /\ Running(t) /\ task[t].pc = "reconcile" /\ UNCHANGED <<late, sweeping, made>>
      /\ s \in Sessions => holder[s] = t /\ Stage(task[t], s)
  BY DEF Reconcile, Running, bounds, clock, Ind, UnderWay
<1>2. CASE \E reply : Fails(t, reply)
  BY <1>1, <1>2, FailsKeeps
<1>3. ASSUME TempLen(s) >= n, s \in Sessions
      PROVE  /\ n \in 0..Size /\ Unmoved(s, n)
             /\ \/ tmp[s] = Gone /\ f = Gone /\ n # Size /\ s \in late
                \/ tmp[s] # Gone /\ f # Gone /\ Has(f, n) /\ Len(f) = n
  <2>1. n \in 0..Size /\ Unmoved(s, n)
    BY <1>1, <1>3 DEF Stage
  <2>2. CASE tmp[s] = Gone
    <3>1. TempLen(s) = 0 /\ n = 0
      BY <1>3, <2>1, <2>2 DEF TempLen
    <3> QED
      BY <1>1, <1>3, <2>1, <2>2, <3>1, SizesAssumption DEF Stage
  <2>3. CASE tmp[s] # Gone
    <3>1. Has(tmp[s], n)
      BY <1>1, <1>3, <2>3 DEF Stage
    <3>2. TempLen(s) = Len(tmp[s])
      BY <2>3 DEF TempLen
    <3>3. Has(f, n) /\ Len(f) = n
      <4>1. f = IF Len(tmp[s]) > n THEN SubSeq(tmp[s], 1, n) ELSE tmp[s]
        BY <3>2
      <4>2. n \in Nat
        BY <2>1, SizesAssumption
      <4> HIDE DEF f, n
      <4> QED
        BY <3>1, <4>1, <4>2, CutKeeps
    <3>4. f # Gone
      BY <3>3, NotGone DEF Has
    <3> QED
      BY <2>1, <2>3, <3>3, <3>4
  <2> QED
    BY <2>2, <2>3
<1>4. Trusted(s, n) = [tmp EXCEPT ![s] = f]
  BY DEF Trusted
<1>5. ASSUME TempLen(s) >= n, tmp' = [tmp EXCEPT ![s] = f], UNCHANGED <<meta, object>>,
             s \in Sessions
      PROVE  Saved(s)' /\ tmp'[s] = f
  <2>1. tmp'[s] = f
    BY <1>5, Typed
  <2>2. s \notin late => meta[s].offset = n
    BY <1>3, <1>5 DEF Unmoved
  <2> HIDE DEF f, n
  <2> QED
    BY <1>1, <1>3, <1>5, <2>1, <2>2 DEF Ind, Saved
<1>6. ASSUME TempLen(s) >= n, tmp' = Trusted(s, n), UNCHANGED <<meta, object>>,
             Answer(t, "rejected", 0), Unlock(t)
      PROVE  Ind'
  <2>1. task' = [task EXCEPT ![t] = NoTask]
    BY <1>6 DEF Answer
  <2>2. s \in Sessions => Saved(s)'
    BY <1>4, <1>5, <1>6
  <2>3. UnderWay(t)'
    BY <2>1, NoTaskFacts DEF UnderWay, Running, Ind, Shape
  <2>4. /\ holder' = [x \in Sessions |-> holder'[x]]
        /\ \A x \in Sessions : holder'[x] = holder[x] \/ holder[x] = t
    BY <1>6, Unlocks
  <2>5. tmp' = [x \in Sessions |-> tmp'[x]] /\ \A x \in Sessions \ {s} : tmp'[x] = tmp[x]
    BY <1>4, <1>6, Typed
  <2>6. /\ meta' \in [Sessions -> Metas] /\ object' = [x \in Sessions |-> object'[x]]
        /\ \A x \in Sessions \ {s} : meta'[x] = meta[x] /\ object'[x] = object[x]
        /\ s \in Sessions => (s > made => meta'[s].status = "none")
    BY <1>6, Typed
  <2>7. s \in Sessions => (s > made => meta'[s].status = "none") /\ Saved(s)' /\ UnderWay(t)'
    BY <2>2, <2>3, <2>6
  <2>8. /\ meta' \in [Sessions -> Metas]
        /\ tmp' = [x \in Sessions |-> tmp'[x]] /\ object' = [x \in Sessions |-> object'[x]]
        /\ \A x \in Sessions \ {s} : meta'[x] = meta[x] /\ tmp'[x] = tmp[x] /\ object'[x] = object[x]
    BY <2>5, <2>6
  <2> HIDE DEF f, n
  <2> QED
    BY <1>1, <2>1, <2>4, <2>7, <2>8, NoTaskFacts, OwnStep
<1>7. ASSUME NEW pc \in {"write", "move"}, TempLen(s) >= n, tmp' = Trusted(s, n),
             UNCHANGED <<meta, object, holder>>, task' = [task EXCEPT ![t].pc = pc],
             pc = "write" => task[t].op = "append",
             pc = "move" => task[t].op # "append" /\ n = Size
      PROVE  Ind'
  <2>1. s \in Sessions => Saved(s)' /\ Stage(task[t], s)'
    <3> SUFFICES ASSUME s \in Sessions PROVE Saved(s)' /\ Stage(task[t], s)'
      OBVIOUS
    <3>1. Saved(s)' /\ tmp'[s] = f
      BY <1>4, <1>5, <1>7
    <3>2. /\ task'[t].pc = pc /\ task'[t].seen = n /\ task'[t].op = task[t].op
          /\ task'[t].offset = task[t].offset
      BY <1>7, Typed DEF Fields, Ind, Shape
    <3>3. Has(f, n) /\ Len(f) = n /\ n = Size => f = File
      BY HasAll
    <3> HIDE DEF f, n
    <3>4. Stage(task[t], s)'
      BY <1>1, <1>3, <1>7, <3>1, <3>2, <3>3 DEF Stage, Unmoved, n
    <3> QED
      BY <3>1, <3>4
  <2>2. /\ tmp' = [x \in Sessions |-> tmp'[x]] /\ object' = [x \in Sessions |-> object'[x]]
        /\ \A x \in Sessions \ {s} : tmp'[x] = tmp[x] /\ object'[x] = object[x]
    BY <1>4, <1>7, Typed
  <2> QED
    BY <1>1, <1>7, <2>1, <2>2, Moves
<1> QED
  BY <1>1, <1>2, <1>6, <1>7 DEF Reconcile, Goes

\* The chunk is written behind the committed bytes.
LEMMA WriteKeeps ==
  ASSUME Ind, NEW t \in Tasks, NEW s, s = task[t].sess, Write(t) PROVE Ind'
<1> DEFINE n == task[t].seen
           f == (IF tmp[s] = Gone THEN <<>> ELSE tmp[s]) \o Chunk(t)
<1>1. /\ Running(t) /\ task[t].pc = "write" /\ UNCHANGED <<late, sweeping, made>>
      /\ s \in Sessions => holder[s] = t /\ Stage(task[t], s)
  BY DEF Write, Running, bounds, clock, Ind, UnderWay
<1>2. CASE \E reply : Fails(t, reply)
  BY <1>1, <1>2, FailsKeeps
<1>3. CASE /\ tmp' = Appended(s, Chunk(t)) /\ Goes(t, "commit")
           /\ UNCHANGED <<meta, object>>
  <2>1. task' = [task EXCEPT ![t].pc = "commit"] /\ UNCHANGED <<meta, object, holder>>
    BY <1>3 DEF Goes
  <2>2. tmp' = [tmp EXCEPT ![s] = f]
    BY <1>3 DEF Appended
  <2>3. ASSUME s \in Sessions PROVE Saved(s)' /\ Stage(task[t], s)'
    <3>1. /\ n \in 0..Size /\ Unmoved(s, n) /\ task[t].op = "append" /\ task[t].offset = n
          /\ s \notin late => tmp[s] # Gone
          /\ tmp[s] # Gone => Has(tmp[s], n) /\ Len(tmp[s]) = n
      BY <1>1, <2>3 DEF Stage
    <3>2. tmp'[s] = f
      BY <2>2, <2>3, Typed
    <3>3. task'[t] = [task[t] EXCEPT !.pc = "commit"]
      BY <2>1 DEF Ind, Shape
    <3>4. /\ task'[t].pc = "commit" /\ task'[t].op = "append" /\ task'[t].seen = n
          /\ task'[t].offset = n
      BY <3>1, <3>3, Typed DEF Fields
    <3>5. ASSUME s \notin late PROVE Has(f, ChunkEnd(n)) /\ Has(f, n) /\ f # Gone
      <4>1. ChunkEnd(n) \in n..Size
        BY <3>1, ChunkFacts
      <4>2. f = tmp[s] \o SubSeq(File, n + 1, ChunkEnd(n))
        BY <3>1, <3>5 DEF Chunk
      <4> HIDE DEF f, n
      <4>3. Has(f, ChunkEnd(n))
        BY <3>1, <3>5, <4>1, <4>2, AppendGrows
      <4> QED
        BY <3>1, <4>1, <4>3, NotGone, SizesAssumption DEF Has
    <3> HIDE DEF f, n
    <3>6. Saved(s)'
      BY <1>1, <2>1, <2>3, <3>1, <3>2, <3>5 DEF Ind, Saved, Unmoved
    <3>7. Stage(task[t], s)'
      BY <1>1, <2>1, <3>1, <3>2, <3>4, <3>5 DEF Stage, Unmoved
    <3> QED
      BY <3>6, <3>7
  <2>4. /\ tmp' = [x \in Sessions |-> tmp'[x]] /\ object' = [x \in Sessions |-> object'[x]]
        /\ \A x \in Sessions \ {s} : tmp'[x] = tmp[x] /\ object'[x] = object[x]
    BY <2>1, <2>2, Typed
  <2> QED
    BY <1>1, <2>1, <2>3, <2>4, Moves
<1> QED
  BY <1>2, <1>3 DEF Write

\* The task writes the metadata and is done with the session, or goes on to another
\* operation on it.
LEMMA Commits ==
  ASSUME Ind, NEW t \in Tasks, Running(t), NEW s, s = task[t].sess,
         NEW q, task' = [task EXCEPT ![t] = q], Fields \subseteq DOMAIN q,
         q = NoTask \/ (q.pc = "admit" /\ q.sess = s),
         NEW m, meta' = [meta EXCEPT ![s] = m], s \in Sessions => m \in Metas /\ m.status # "none",
         Unlock(t), UNCHANGED <<tmp, object, late, sweeping, made>>,
         s \in Sessions => meta[s].status # "none" \/ s \in late,
         s \in Sessions => Saved(s)'
  PROVE  Ind'
<1>1. task'[t] = q
  BY DEF Ind, Shape
<1>2. ~ Running(t)'
  BY <1>1, NoTaskFacts DEF Running
<1>3. UnderWay(t)'
  BY <1>2 DEF UnderWay
<1>4. meta' \in [Sessions -> Metas] /\ \A x \in Sessions \ {s} : meta'[x] = meta[x]
  BY Typed
<1>5. s \in Sessions => s <= made
  BY WasMade
<1>6. s \in Sessions => ~ (s > made)
  BY <1>5, BoundsAssumption DEF Ind, Shape, Sessions
<1>7. /\ holder' = [x \in Sessions |-> holder'[x]]
      /\ \A x \in Sessions : holder'[x] = holder[x] \/ holder[x] = t
  BY Unlocks
<1>8. /\ tmp' = [x \in Sessions |-> tmp'[x]] /\ object' = [x \in Sessions |-> object'[x]]
      /\ \A x \in Sessions \ {s} : meta'[x] = meta[x] /\ tmp'[x] = tmp[x] /\ object'[x] = object[x]
  BY <1>4, Typed
<1>9. q.sess = s \/ q.pc = Free
  BY NoTaskFacts
<1> QED
  BY <1>3, <1>4, <1>6, <1>7, <1>8, <1>9, OwnStep

\* The new offset is written.
LEMMA CommitAppendKeeps ==
  ASSUME Ind, NEW t \in Tasks, NEW s, s = task[t].sess, CommitAppend(t) PROVE Ind'
<1> DEFINE n == task[t].seen
           end == ChunkEnd(task[t].offset)
           m == [status |-> "open", offset |-> end]
<1>1. /\ Running(t) /\ task[t].pc = "commit" /\ task[t].op = "append"
      /\ UNCHANGED <<tmp, object, late, sweeping, made>> /\ Unlock(t) /\ meta' = [meta EXCEPT ![s] = m]
      /\ s \in Sessions => Stage(task[t], s)
  BY DEF CommitAppend, Running, bounds, clock, Ind, UnderWay
<1>2. ASSUME s \in Sessions
      PROVE  /\ m \in Metas /\ m.status # "none" /\ Saved(s)'
             /\ meta[s].status # "none" \/ s \in late
  <2>1. /\ n \in 0..Size /\ task[t].offset = n /\ Unmoved(s, n)
        /\ s \in late \/ tmp[s] = Gone \/ Has(tmp[s], ChunkEnd(n))
    BY <1>1, <1>2 DEF Stage
  <2>2. end \in n..Size
    BY <2>1, ChunkFacts
  <2>3. m \in Metas /\ meta'[s] = m
    BY <1>1, <1>2, <2>1, <2>2, Typed, SizesAssumption DEF Metas
  <2>4. tmp[s] = Gone /\ s \notin late => object[s] = File /\ end = Size
    <3> SUFFICES ASSUME tmp[s] = Gone, s \notin late PROVE object[s] = File /\ end = Size
      OBVIOUS
    <3>1. meta[s].status = "open" /\ meta[s].offset = n
      BY <2>1 DEF Unmoved
    <3>2. object[s] = File /\ n = Size
      BY <1>2, <3>1 DEF Ind, Saved
    <3> QED
      BY <2>2, <3>2, SizesAssumption
  <2>5. object[s] \in {Gone, File}
    BY <1>2 DEF Ind, Saved
  <2> HIDE DEF n
  <2>6. s \in late \/ tmp[s] = Gone \/ Has(tmp[s], end)
    BY <2>1
  <2> HIDE DEF end
  <2>7. Saved(s)'
    BY <1>1, <2>3, <2>4, <2>5, <2>6 DEF Saved
  <2> QED
    BY <2>1, <2>3, <2>7 DEF Unmoved
<1>3. \E q : /\ task' = [task EXCEPT ![t] = q] /\ Fields \subseteq DOMAIN q
             /\ q = NoTask \/ (q.pc = "admit" /\ q.sess = s)
  <2>1. CASE task' = [task EXCEPT ![t].op = "complete", ![t].pc = "admit"]
    <3> DEFINE q == [task[t] EXCEPT !.op = "complete", !.pc = "admit"]
    <3>1. task' = [task EXCEPT ![t] = q]
      BY <2>1
    <3>2. Fields \subseteq DOMAIN q /\ q.pc = "admit" /\ q.sess = s
      BY Typed DEF Fields
    <3> HIDE DEF q
    <3> QED
      BY <3>1, <3>2
  <2>2. CASE task' = [task EXCEPT ![t] = NoTask]
    BY <2>2, NoTaskFacts
  <2> QED
    BY <2>1, <2>2 DEF CommitAppend, Answer
<1> HIDE DEF m
<1> QED
  BY <1>1, <1>2, <1>3, Commits

\* The bytes become the object, by a rename or by a copy.
LEMMA MoveKeeps ==
  ASSUME Ind, NEW t \in Tasks, NEW s, s = task[t].sess, Move(t) \/ Copy(t) \/ RemoveTemp(t)
  PROVE  Ind'
<1>1. /\ Running(t) /\ UNCHANGED <<late, sweeping, made>>
      /\ s \in Sessions => Stage(task[t], s)
  BY DEF Move, Copy, RemoveTemp, Running, bounds, clock, Ind, UnderWay
<1>2. CASE \E reply : Fails(t, reply)
  BY <1>1, <1>2, FailsKeeps
<1>3. ASSUME NEW pc \in {"commit", "remove"}, task' = [task EXCEPT ![t].pc = pc],
             UNCHANGED <<meta, holder>>,
             tmp' = tmp \/ tmp' = [tmp EXCEPT ![s] = Gone],
             object' = object \/ object' = [object EXCEPT ![s] = tmp[s]],
             s \in Sessions => /\ task[t].op # "append" /\ task[t].seen = Size
                               /\ object'[s] = File
                               /\ task[t].pc # "read" /\ tmp'[s] \in {Gone, tmp[s]}
      PROVE  Ind'
  <2>1. ASSUME s \in Sessions PROVE Saved(s)' /\ Stage(task[t], s)'
    <3>1. /\ task'[t].pc = pc /\ task'[t].op = task[t].op /\ task'[t].seen = task[t].seen
          /\ task'[t].offset = task[t].offset
      BY <1>3, Typed DEF Fields, Ind, Shape
    <3>2. Unmoved(s, Size) /\ Size \in 0..Size
      BY <1>1, <1>3, <2>1, SizesAssumption DEF Stage
    <3>3. Stage(task[t], s)'
      BY <1>1, <1>3, <2>1, <3>1, <3>2 DEF Stage, Unmoved
    <3>4. Saved(s)'
      BY <1>1, <1>3, <2>1, <3>2 DEF Ind, Saved, Unmoved
    <3> QED
      BY <3>3, <3>4
  <2>2. /\ tmp' = [x \in Sessions |-> tmp'[x]] /\ object' = [x \in Sessions |-> object'[x]]
        /\ \A x \in Sessions \ {s} : tmp'[x] = tmp[x] /\ object'[x] = object[x]
    BY <1>3, Typed
  <2>3. task' = [task EXCEPT ![t].pc = pc] /\ UNCHANGED <<meta, holder, late, sweeping, made>> /\ Running(t)
    BY <1>1, <1>3
  <2> QED
    BY <2>1, <2>2, <2>3, Moves
<1>4. CASE Copy(t)
  <2>1. s \in Sessions => tmp[s] = File /\ task[t].op # "append" /\ task[t].seen = Size
    BY <1>1, <1>4 DEF Copy, Stage
  <2>2. /\ task' = [task EXCEPT ![t].pc = "remove"] /\ UNCHANGED <<meta, holder, tmp>>
        /\ object' = [object EXCEPT ![s] = tmp[s]] /\ task[t].pc = "move"
    BY <1>4 DEF Copy, Goes
  <2>3. s \in Sessions => object'[s] = tmp[s]
    BY <2>2, Typed
  <2>4. s \in Sessions => object'[s] = File /\ task[t].pc # "read" /\ tmp'[s] = tmp[s]
    BY <2>1, <2>2, <2>3
  <2> QED
    BY <1>3, <2>1, <2>2, <2>4
<1>5. CASE RemoveTemp(t)
  <2>1. s \in Sessions => object[s] = File /\ task[t].op # "append" /\ task[t].seen = Size
    BY <1>1, <1>5 DEF RemoveTemp, Stage
  <2>2. /\ task' = [task EXCEPT ![t].pc = "commit"] /\ UNCHANGED <<meta, holder, object>>
        /\ tmp' = [tmp EXCEPT ![s] = Gone] /\ task[t].pc = "remove"
    BY <1>5 DEF RemoveTemp, Goes
  <2>3. s \in Sessions => tmp'[s] = Gone
    BY <2>2, Typed
  <2>4. s \in Sessions => object'[s] = File /\ task[t].pc # "read" /\ tmp'[s] = Gone
    BY <2>1, <2>2, <2>3
  <2> QED
    BY <1>3, <2>1, <2>2, <2>4
<1>6. CASE Move(t) /\ ~ \E reply : Fails(t, reply)
  <2>1. /\ task' = [task EXCEPT ![t].pc = "commit"] /\ UNCHANGED <<meta, holder>>
        /\ object' = [object EXCEPT ![s] = tmp[s]] /\ tmp' = [tmp EXCEPT ![s] = Gone]
        /\ tmp[s] # Gone /\ task[t].pc = "move"
    BY <1>6 DEF Move, Goes
  <2>2. s \in Sessions => tmp[s] = File /\ task[t].op # "append" /\ task[t].seen = Size
    BY <1>1, <2>1 DEF Stage
  <2>3. s \in Sessions => object'[s] = tmp[s] /\ tmp'[s] = Gone
    BY <2>1, Typed
  <2>4. s \in Sessions => object'[s] = File /\ task[t].pc # "read" /\ tmp'[s] = Gone
    BY <2>1, <2>2, <2>3
  <2> QED
    BY <1>3, <2>1, <2>2, <2>4
<1> QED
  BY <1>2, <1>4, <1>5, <1>6

\* The session is complete.
LEMMA CommitCompleteKeeps ==
  ASSUME Ind, NEW t \in Tasks, NEW s, s = task[t].sess, CommitComplete(t) PROVE Ind'
<1> DEFINE m == [status |-> "complete", offset |-> task[t].seen]
<1>1. /\ Running(t) /\ task[t].pc = "commit" /\ task[t].op # "append"
      /\ UNCHANGED <<tmp, object, late, sweeping, made>> /\ Unlock(t) /\ meta' = [meta EXCEPT ![s] = m]
      /\ task' = [task EXCEPT ![t] = NoTask]
      /\ s \in Sessions => Stage(task[t], s)
  BY DEF CommitComplete, Running, bounds, clock, Ind, UnderWay, Answer
<1>2. ASSUME s \in Sessions
      PROVE  /\ m \in Metas /\ m.status # "none" /\ Saved(s)'
             /\ meta[s].status # "none" \/ s \in late
  <2>1. task[t].seen \in 0..Size /\ Unmoved(s, task[t].seen) /\ object[s] = File
    BY <1>1, <1>2 DEF Stage
  <2>2. m \in Metas /\ meta'[s] = m
    BY <1>1, <1>2, <2>1, Typed DEF Metas
  <2>3. s \in late \/ tmp[s] = Gone \/ Has(tmp[s], task[t].seen)
    BY <1>2, <2>1 DEF Ind, Saved, Unmoved
  <2>4. Saved(s)'
    BY <1>1, <2>1, <2>2, <2>3 DEF Saved
  <2> QED
    BY <2>1, <2>2, <2>4 DEF Unmoved
<1> HIDE DEF m
<1> QED
  BY <1>1, <1>2, NoTaskFacts, Commits

\* The expiry is written down ...
LEMMA PersistExpiredKeeps ==
  ASSUME Ind, NEW t \in Tasks, NEW s, s = task[t].sess, PersistExpired(t) PROVE Ind'
<1> DEFINE m == [status |-> "expired", offset |-> task[t].seen]
<1>1. /\ Running(t) /\ task[t].pc = "expire"
      /\ UNCHANGED <<tmp, object, late, sweeping, made>> /\ Unlock(t)
      /\ meta' = [meta EXCEPT ![s] = m] /\ task' = [task EXCEPT ![t] = NoTask]
      /\ s \in Sessions => Stage(task[t], s)
  BY DEF PersistExpired, Running, bounds, clock, Ind, UnderWay, Answer
<1>2. ASSUME s \in Sessions
      PROVE  m \in Metas /\ m.status # "none" /\ Saved(s)' /\ s \in late
  <2>1. task[t].seen \in 0..Size /\ s \in late
    BY <1>1, <1>2 DEF Stage
  <2>2. m \in Metas
    BY <2>1 DEF Metas
  <2>3. Saved(s)'
    BY <1>1, <1>2, <2>1 DEF Ind, Saved
  <2> QED
    BY <2>1, <2>2, <2>3
<1> HIDE DEF m
<1> QED
  BY <1>1, <1>2, NoTaskFacts, Commits

\* ... or a sweep takes away what was being written.
LEMMA WriteLostKeeps == ASSUME Ind, NEW t \in Tasks, WriteLost(t) PROVE Ind'
  BY FailsKeeps DEF WriteLost, bounds, clock

-----------------------------------------------------------------------------
(* The other steps.                                                        *)

\* A session is opened: nobody has been at work on it.
LEMMA InitiateKeeps == ASSUME Ind, NEW t \in Tasks, Initiate(t) PROVE Ind'
<1>1. task' = [task EXCEPT ![t] = NoTask] /\ UNCHANGED <<object, late, sweeping, holder>>
  BY DEF Initiate, Answer, clock
<1>2. CASE UNCHANGED <<made, meta, tmp>>
  <2>1. /\ holder' = [s \in Sessions |-> holder'[s]]
        /\ \A s \in Sessions : holder'[s] = holder[s]
    BY <1>1, Typed
  <2> QED
    BY <1>1, <1>2, <2>1, NoTaskFacts, Leaves DEF disk
<1>3. CASE /\ made < MaxSessions /\ made' = made + 1
           /\ meta' = [meta EXCEPT ![made'] = [status |-> "open", offset |-> 0]]
           /\ tmp' = [tmp EXCEPT ![made'] = <<>>]
  <2> DEFINE new == made + 1
  <2>1. made \in Nat /\ MaxSessions \in Nat /\ late \subseteq 1..made /\ new \in Sessions
    BY <1>3, BoundsAssumption DEF Ind, Shape, Sessions
  <2>2. /\ \A x \in Sessions \ {new} : meta'[x] = meta[x] /\ tmp'[x] = tmp[x]
        /\ meta'[new] = [status |-> "open", offset |-> 0] /\ tmp'[new] = <<>>
        /\ meta' \in [Sessions -> Metas] /\ tmp' = [x \in Sessions |-> tmp'[x]]
    <3>1. [status |-> "open", offset |-> 0] \in Metas
      BY SizesAssumption DEF Metas
    <3>2. meta' = [meta EXCEPT ![new] = [status |-> "open", offset |-> 0]]
      BY <1>3
    <3>3. tmp' = [tmp EXCEPT ![new] = <<>>]
      BY <1>3
    <3> HIDE DEF new
    <3>4. /\ \A x \in Sessions \ {new} : tmp'[x] = tmp[x]
          /\ tmp'[new] = <<>> /\ tmp' = [x \in Sessions |-> tmp'[x]]
      BY <2>1, <3>3, Typed
    <3>5. /\ \A x \in Sessions \ {new} : meta'[x] = meta[x]
          /\ meta'[new] = [status |-> "open", offset |-> 0] /\ meta' \in [Sessions -> Metas]
      BY <2>1, <3>1, <3>2, Typed
    <3> QED
      BY <3>4, <3>5
  <2>3. meta[new].status = "none" /\ new \notin late
    BY <2>1, Typed
  <2>4. \A u \in Tasks : task'[u] = IF u = t THEN NoTask ELSE task[u]
    BY <1>1 DEF Ind, Shape
  <2>5. Shape'
    <3>1. made' \in 0..MaxSessions /\ late' \subseteq 1..made'
      BY <1>1, <1>3, <2>1
    <3>2. \A x \in Sessions : x > made' => x # new /\ x > made
      BY <1>3, <2>1 DEF Sessions
    <3>3. \A x \in Sessions : x > made' => meta'[x].status = "none"
      BY <2>2, <3>2, Typed
    <3> QED
      BY <1>1, <2>2, <2>4, <3>1, <3>3, NoTaskFacts DEF Ind, Shape
  <2>6. ASSUME NEW x \in Sessions PROVE Saved(x)'
    <3>1. CASE x = new
      <4>1. <<>> \in Contents /\ Len(<<>>) = 0
        BY EmptySeq DEF Contents
      <4>2. Has(<<>>, 0) /\ <<>> # Gone
        BY <4>1, NotGone DEF Has
      <4> QED
        BY <1>1, <2>2, <3>1, <4>2 DEF Ind, Saved
    <3>2. CASE x # new
      BY <1>1, <2>2, <3>2 DEF Ind, Saved
    <3> QED
      BY <3>1, <3>2
  <2>7. ASSUME NEW u \in Tasks PROVE UnderWay(u)'
    <3>1. CASE u = t
      BY <2>4, <3>1, NoTaskFacts DEF UnderWay, Running
    <3>2. CASE u # t
      <4>1. task'[u] = task[u]
        BY <2>4, <3>2
      <4>2. ASSUME NEW x \in Sessions, x = task[u].sess, Running(u)
            PROVE  holder'[x] = u /\ Stage(task[u], x)'
        <5>1. holder[x] = u /\ Stage(task[u], x)
          BY <4>2 DEF Ind, UnderWay
        <5>2. CASE x = new
          <6>1. task[u].pc = "read"
            BY <2>3, <5>1, <5>2 DEF Stage, Unmoved
          <6> QED
            BY <1>1, <4>1, <5>1, <6>1 DEF Stage
        <5>3. CASE x # new
          <6>1. meta'[x] = meta[x] /\ tmp'[x] = tmp[x]
            BY <2>2, <5>3
          <6> QED
            BY <1>1, <4>1, <5>1, <6>1 DEF Stage, Unmoved
        <5> QED
          BY <5>2, <5>3
      <4>3. Running(u)' <=> Running(u)
        BY <4>1 DEF Running
      <4> QED
        BY <4>1, <4>2, <4>3 DEF UnderWay
    <3> QED
      BY <3>1, <3>2
  <2> QED
    BY <2>5, <2>6, <2>7 DEF Ind
<1> QED
  BY <1>2, <1>3 DEF Initiate

\* A request is let in, or answered at once.
LEMMA AdmitKeeps == ASSUME Ind, NEW t \in Tasks, Admit(t) PROVE Ind'
<1>1. UNCHANGED <<disk, late, sweeping, holder, made>>
  BY DEF Admit, bounds, clock
<1>2. \E q : /\ task' = [task EXCEPT ![t] = q] /\ Fields \subseteq DOMAIN q
             /\ q.pc \notin {"read", "expire", "reconcile", "write", "move", "remove", "commit"}
  <2>1. CASE task' = [task EXCEPT ![t] = NoTask]
    BY <2>1, NoTaskFacts
  <2>2. ASSUME NEW r \in Asked(t), task' = [task EXCEPT ![t] = [r EXCEPT !.pc = "lock"]]
        PROVE  \E q : /\ task' = [task EXCEPT ![t] = q] /\ Fields \subseteq DOMAIN q
                      /\ q.pc \notin {"read", "expire", "reconcile", "write", "move", "remove", "commit"}
    <3>1. Fields \subseteq DOMAIN r
      BY Typed DEF Asked, NoTask, Fields
    <3> DEFINE q == [r EXCEPT !.pc = "lock"]
    <3>2. Fields \subseteq DOMAIN q /\ q.pc = "lock"
      BY <3>1 DEF Fields
    <3> HIDE DEF q
    <3>3. task' = [task EXCEPT ![t] = q]
      BY <2>2 DEF q
    <3> QED
      BY <3>2, <3>3
  <2> QED
    BY <2>1, <2>2 DEF Admit, Answer
<1>3. /\ holder' = [s \in Sessions |-> holder'[s]]
      /\ \A s \in Sessions : holder'[s] = holder[s]
  BY <1>1, Typed
<1> QED
  BY <1>1, <1>2, <1>3, Leaves

\* The mutex is taken: it was free, so nobody is at work on the session.
LEMMA LockKeeps ==
  ASSUME Ind, NEW t \in Tasks, NEW s, s = task[t].sess, Lock(t) PROVE Ind'
<1>1. /\ holder[s] = Free /\ holder' = [holder EXCEPT ![s] = t]
      /\ task' = [task EXCEPT ![t].pc = "read"] /\ UNCHANGED <<disk, late, sweeping, made>>
  BY DEF Lock, bounds, clock
<1> DEFINE q == [task[t] EXCEPT !.pc = "read"]
<1>2. Fields \subseteq DOMAIN q /\ q.pc = "read" /\ q.sess = s
  BY Typed DEF Fields
<1>3. \A u \in Tasks : task'[u] = IF u = t THEN q ELSE task[u]
  BY <1>1 DEF Ind, Shape
<1> HIDE DEF q
<1>4. Shape'
  <2>1. task' = [u \in Tasks |-> task'[u]]
    BY <1>1 DEF Ind, Shape
  <2>2. holder' = [x \in Sessions |-> holder'[x]]
    BY <1>1, Typed
  <2> QED
    BY <1>1, <1>2, <1>3, <2>1, <2>2 DEF Ind, Shape, disk
<1>5. \A x \in Sessions : Saved(x)'
  BY <1>1 DEF Ind, Saved, disk
<1>6. ASSUME NEW u \in Tasks PROVE UnderWay(u)'
  <2>1. CASE u = t
    BY <1>1, <1>2, <1>3, <2>1, Typed DEF UnderWay, Running, Stage
  <2>2. CASE u # t
    <3>1. task'[u] = task[u] /\ u # Free
      BY <1>3, <2>2, TabsAssumption DEF Tasks, Free, Loose
    <3>2. ASSUME NEW x \in Sessions, x = task[u].sess, Running(u)
          PROVE  holder'[x] = u /\ Stage(task[u], x)'
      <4>1. holder[x] = u /\ Stage(task[u], x)
        BY <3>2 DEF Ind, UnderWay
      <4>2. holder'[x] = u
        BY <1>1, <3>1, <4>1, Typed
      <4> QED
        BY <1>1, <3>1, <4>1, <4>2 DEF Stage, Unmoved, disk
    <3>3. Running(u)' <=> Running(u)
      BY <3>1 DEF Running
    <3> QED
      BY <3>1, <3>2, <3>3 DEF UnderWay
  <2> QED
    BY <2>1, <2>2
<1> QED
  BY <1>4, <1>5, <1>6 DEF Ind

\* A handler whose connection is gone has not reached the blocking pool.
LEMMA DropKeeps ==
  ASSUME ~ Detach, Ind, NEW c \in Tabs, Dropped(c), UNCHANGED <<disk, late, sweeping, made>> PROVE Ind'
<1>1. ~ Running(c) /\ c \in Tasks
  BY DEF Dropped, Droppable, Tasks
<1>2. task' = [task EXCEPT ![c] = NoTask]
  BY <1>1 DEF Dropped
<1>3. /\ holder' = [s \in Sessions |-> holder'[s]]
      /\ \A s \in Sessions : holder'[s] = holder[s] \/ holder[s] = c
  BY Unlocks DEF Dropped
<1> QED
  BY <1>1, <1>2, <1>3, NoTaskFacts, Leaves

\* A sweep finds a session that has run out.
LEMMA SweepReadKeeps == ASSUME Ind, NEW s \in Sessions, SweepRead(s) PROVE Ind'
<1>1. s \in late
  BY DEF SweepRead, Status, Ind, Saved
<1>2. sweeping' = sweeping \cup {s} /\ UNCHANGED <<meta, tmp, object, late, task, holder, made>>
  BY DEF SweepRead, disk, server, bounds, clock
<1>3. Shape'
  BY <1>1, <1>2 DEF Ind, Shape
<1>4. ASSUME NEW x \in Sessions PROVE Saved(x)'
  BY <1>2 DEF Ind, Saved
<1>5. ASSUME NEW u \in Tasks PROVE UnderWay(u)'
  BY <1>2 DEF Ind, UnderWay, Running, Stage, Unmoved
<1> QED
  BY <1>3, <1>4, <1>5 DEF Ind

\* It removes what it likes of the session: whoever is at work on it may find its files
\* gone, as those of a session that ran out may be.
LEMMA SweepKeeps ==
  ASSUME Ind, NEW s \in Sessions, SweepUnlink(s) PROVE Ind'
<1>1. /\ s \in sweeping /\ s \in late /\ sweeping' \subseteq sweeping
      /\ UNCHANGED <<object, late, task, holder, made>>
      /\ meta' = meta \/ meta' = [meta EXCEPT ![s] = [status |-> "none", offset |-> 0]]
      /\ tmp' = tmp \/ tmp' = [tmp EXCEPT ![s] = Gone]
  BY DEF SweepUnlink, server, bounds, clock, Ind, Shape
<1>2. /\ meta' \in [Sessions -> Metas] /\ meta'[s].status \in {"none", meta[s].status}
      /\ \A x \in Sessions \ {s} : meta'[x] = meta[x]
  <2>1. [status |-> "none", offset |-> 0] \in Metas
    BY SizesAssumption DEF Metas
  <2> QED
    BY <1>1, <2>1, Typed
<1>3. /\ tmp' = [x \in Sessions |-> tmp'[x]] /\ tmp'[s] \in {Gone, tmp[s]}
      /\ \A x \in Sessions \ {s} : tmp'[x] = tmp[x]
  BY <1>1, Typed
<1>4. Shape'
  <2>1. \A x \in Sessions : x > made => meta'[x].status = "none"
    BY <1>2 DEF Ind, Shape
  <2> QED
    BY <1>1, <1>2, <1>3, <2>1 DEF Ind, Shape
<1>5. ASSUME NEW x \in Sessions PROVE Saved(x)'
  BY <1>1, <1>2, <1>3 DEF Ind, Saved
<1>6. ASSUME NEW u \in Tasks PROVE UnderWay(u)'
  <2>1. ASSUME NEW x \in Sessions, x = task[u].sess, Running(u)
        PROVE  holder'[x] = u /\ Stage(task[u], x)'
    <3>1. holder[x] = u /\ Stage(task[u], x)
      BY <2>1 DEF Ind, UnderWay
    <3>2. CASE x = s
      BY <1>1, <1>3, <3>1, <3>2 DEF Stage, Unmoved
    <3>3. CASE x # s
      BY <1>1, <1>2, <1>3, <3>1, <3>3 DEF Stage, Unmoved
    <3> QED
      BY <3>2, <3>3
  <2> QED
    BY <1>1, <2>1 DEF UnderWay, Running
<1> QED
  BY <1>4, <1>5, <1>6 DEF Ind

\* A session runs out.
LEMMA ExpireKeeps == ASSUME Ind, NEW s \in Sessions, Expire(s) PROVE Ind'
<1>1. late' = late \cup {s} /\ s <= made /\ UNCHANGED <<meta, tmp, object, sweeping, task, holder, made>>
  BY DEF Expire, disk, server, bounds, clock
<1>2. Shape'
  <2>1. late' \subseteq 1..made'
    BY <1>1, BoundsAssumption DEF Ind, Shape, Sessions
  <2> QED
    BY <1>1, <2>1 DEF Ind, Shape
<1>3. ASSUME NEW x \in Sessions PROVE Saved(x)'
  BY <1>1 DEF Ind, Saved
<1>4. ASSUME NEW u \in Tasks PROVE UnderWay(u)'
  BY <1>1 DEF Ind, UnderWay, Running, Stage, Unmoved
<1> QED
  BY <1>2, <1>3, <1>4 DEF Ind

\* The server stops in mid-write: what the chunk left behind is not acknowledged.
LEMMA CrashKeeps == ASSUME Ind, Crash PROVE Ind'
<1>1. /\ task' = [u \in Tasks |-> NoTask] /\ holder' = [x \in Sessions |-> Free]
      /\ UNCHANGED <<meta, object, late, made>> /\ sweeping' = {}
  BY DEF Crash
<1>2. PICK t \in Tasks : Running(t) /\ tmp' \in Torn(t)
  BY DEF Crash
<1> DEFINE s == task[t].sess
<1>3. /\ tmp' = [x \in Sessions |-> tmp'[x]]
      /\ \A x \in Sessions :
           \/ tmp'[x] = tmp[x]
           \/ x \in late
           \/ tmp'[x] # Gone /\ meta[x].status = "open" /\ Has(tmp'[x], meta[x].offset)
  <2>1. CASE tmp' = tmp
    BY <2>1, Typed
  <2>2. CASE tmp' # tmp
    <3>1. PICK n \in 0..Len(Chunk(t)) : tmp' = Appended(s, SubSeq(Chunk(t), 1, n))
      BY <1>2, <2>2 DEF Torn
    <3>2. task[t].pc = "write"
      BY <1>2, <2>2 DEF Torn
    <3> DEFINE g == SubSeq(Chunk(t), 1, n)
               f == (IF tmp[s] = Gone THEN <<>> ELSE tmp[s]) \o g
    <3>3. tmp' = [tmp EXCEPT ![s] = f]
      BY <3>1 DEF Appended
    <3>4. ASSUME s \in Sessions, s \notin late
          PROVE  f # Gone /\ meta[s].status = "open" /\ Has(f, meta[s].offset)
      <4>1. /\ tmp[s] # Gone /\ task[t].seen \in 0..Size /\ task[t].offset = task[t].seen
            /\ meta[s].status = "open" /\ meta[s].offset = task[t].seen
        BY <1>2, <3>2, <3>4 DEF Ind, UnderWay, Stage, Unmoved
      <4>2. Has(tmp[s], meta[s].offset)
        BY <3>4, <4>1 DEF Ind, Saved
      <4>3. Chunk(t) \in Contents
        BY <4>1, ChunkFacts, PartFacts DEF Chunk
      <4>4. g \in Contents
        <5>1. Len(Chunk(t)) \in Nat /\ \A i \in 1..Len(Chunk(t)) : Chunk(t)[i] \in Nat \ {0}
          BY <4>3, LenProperties, ElementOfSeq DEF Contents
        <5>2. 1 \in Int /\ n \in Int /\ \A i \in 1..n : Chunk(t)[i] \in Nat \ {0}
          BY <5>1
        <5> QED
          BY <5>2, SubSeqProperties DEF Contents
      <4> HIDE DEF g
      <4>5. Has(tmp[s] \o g, meta[s].offset)
        BY <4>1, <4>2, <4>4, AppendKeeps
      <4> QED
        BY <4>1, <4>5, NotGone DEF Has
    <3> HIDE DEF f
    <3>5. \A x \in Sessions : tmp'[x] = IF x = s THEN f ELSE tmp[x]
      BY <3>3, Typed
    <3>6. tmp' = [x \in Sessions |-> tmp'[x]]
      BY <3>3, Typed
    <3> QED
      BY <3>2, <3>4, <3>5, <3>6
  <2> QED
    BY <2>1, <2>2
<1>4. Shape'
  BY <1>1, <1>3, NoTaskFacts DEF Ind, Shape
<1>5. ASSUME NEW x \in Sessions PROVE Saved(x)'
  BY <1>1, <1>3 DEF Ind, Saved
<1>6. ASSUME NEW u \in Tasks PROVE UnderWay(u)'
  BY <1>1, NoTaskFacts DEF UnderWay, Running
<1> QED
  BY <1>4, <1>5, <1>6 DEF Ind

-----------------------------------------------------------------------------
(* The theorem.                                                            *)

\* At first there is no session and no request.
LEMMA InitKeeps == Init => Ind
<1> SUFFICES ASSUME Init PROVE Ind
  OBVIOUS
<1>1. Shape
  <2>1. [status |-> "none", offset |-> 0] \in Metas
    BY SizesAssumption DEF Metas
  <2> QED
    BY <2>1, BoundsAssumption, NoTaskFacts DEF Init, Shape
<1>2. \A s \in Sessions : Saved(s)
  BY DEF Init, Saved
<1>3. \A t \in Tasks : UnderWay(t)
  BY NoTaskFacts DEF Init, UnderWay, Running
<1> QED
  BY <1>1, <1>2, <1>3 DEF Ind

\* Every step keeps the invariant, as long as no connection drops while its blocking
\* work runs.
LEMMA NextKeeps == ASSUME ~ Detach, Ind, [Next]_vars PROVE Ind'
<1>1. ASSUME NEW t \in Tasks, Works(t) PROVE Ind'
  BY <1>1, InitiateKeeps, AdmitKeeps, LockKeeps DEF Works
<1>2. ASSUME NEW t \in Tasks, Blocks(t) PROVE Ind'
  BY <1>2, ReadKeeps, PersistExpiredKeeps, WriteLostKeeps, ReconcileKeeps, WriteKeeps, CommitAppendKeeps, MoveKeeps,
     CommitCompleteKeeps DEF Blocks
<1>3. ASSUME NEW s \in Sessions, Expire(s) \/ SweepRead(s) \/ SweepUnlink(s)
      PROVE  Ind'
  BY <1>3, ExpireKeeps, SweepReadKeeps, SweepKeeps
<1>4. ASSUME NEW c \in Tabs, Send(c) \/ Receive(c) \/ LoseAnswer(c) PROVE Ind'
  BY <1>4, Quiet DEF Send, Receive, LoseAnswer, bounds, clock
<1>5. ASSUME NEW c \in Tabs, Drop(c) PROVE Ind'
  BY <1>5, DropKeeps DEF Drop, clock
<1>6. ASSUME NEW c \in Tabs, Reload(c) PROVE Ind'
  BY <1>6, DropKeeps, Quiet DEF Reload, clock
<1>7. CASE Crash
  BY <1>7, CrashKeeps
<1>8. CASE UNCHANGED vars
  BY <1>8, Quiet DEF vars, bounds, clock
<1> QED
  BY <1>1, <1>2, <1>3, <1>4, <1>5, <1>6, <1>7, <1>8 DEF Next

\* What the invariant says of the bytes on the disk.
LEMMA IndBytes == Ind => BytesAreTheFile
<1> SUFFICES ASSUME Ind PROVE BytesAreTheFile
  OBVIOUS
<1>1. ObjectWhole
  BY DEF Ind, Saved, ObjectWhole
<1>2. ASSUME NEW s \in Sessions, Status(s) = "open", object[s] = Gone
      PROVE  /\ TempLen(s) >= meta[s].offset
             /\ SubSeq(tmp[s], 1, meta[s].offset) = Prefix(meta[s].offset)
  <2> DEFINE n == meta[s].offset
             f == tmp[s]
  <2>1. n \in 0..Size
    BY Typed DEF Metas
  <2>2. f # Gone /\ Has(f, n)
    BY <1>2, FileFacts DEF Ind, Saved, Status
  <2> HIDE DEF n, f
  <2>3. /\ SubSeq(File, 0 + 1, n) \in Contents /\ Len(SubSeq(File, 0 + 1, n)) = n - 0
        /\ \A i \in 1..(n - 0) : SubSeq(File, 0 + 1, n)[i] = 0 + i
    <3>1. 0 \in 0..Size /\ n \in 0..Size
      BY <2>1, SizesAssumption
    <3> QED
      BY <3>1, PartFacts
  <2>4. Prefix(n) \in Contents /\ Len(Prefix(n)) = n /\ \A i \in 1..n : Prefix(n)[i] = i
    BY <2>1, <2>3 DEF Prefix
  <2>5. Len(f) \in Nat /\ \A i \in 1..n : f[i] \in Nat \ {0}
    BY <2>2, LenProperties DEF Has, Contents
  <2>6. /\ SubSeq(f, 1, n) \in Contents /\ Len(SubSeq(f, 1, n)) = n
        /\ \A i \in 1..n : SubSeq(f, 1, n)[i] = i
    <3>1. /\ SubSeq(f, 1, n) \in Seq(Nat \ {0})
          /\ Len(SubSeq(f, 1, n)) = IF 1 <= n THEN n - 1 + 1 ELSE 0
          /\ \A i \in 1 .. n - 1 + 1 : SubSeq(f, 1, n)[i] = f[1 + i - 1]
      BY <2>1, <2>5, SubSeqProperties
    <3> QED
      BY <2>1, <2>2, <3>1, SizesAssumption DEF Has, Contents
  <2>7. SubSeq(f, 1, n) = Prefix(n)
    BY <2>4, <2>6, SeqEqual DEF Contents
  <2> QED
    BY <2>2, <2>7 DEF TempLen, Has, n, f
<1> QED
  BY <1>1, <1>2 DEF BytesAreTheFile, CommittedKept

\* What the server has acknowledged is on the disk, in order, and an object that can be
\* read is the whole file: for files, chunks and tabs of any number and size, whatever
\* crashes, lost answers, reloads, expiries and sweeps come in between, as long as no
\* connection drops while the blocking task of its handler runs (local_fs.rs).
THEOREM BytesAreTheFileHolds == ASSUME ~ Detach PROVE Spec => []BytesAreTheFile
<1>1. Init => Ind
  BY InitKeeps
<1>2. Ind /\ [Next]_vars => Ind'
  BY NextKeeps
<1>3. Ind => BytesAreTheFile
  BY IndBytes
<1> QED
  BY <1>1, <1>2, <1>3, PTL DEF Spec
-----------------------------------------------------------------------------
(* What is said to the senders.                                            *)

Places == {Free, "admit", "lock", "read", "expire", "reconcile", "write", "move", "remove", "commit"}
TaskShape ==
  [op : {"none", "inspect", "initiate", "append", "complete"}, sess : 0..MaxSessions,
   offset : 0..Size, seen : 0..Size, pc : Places]
\* A request that has been let in is for a session there was.
TaskRecs == {q \in TaskShape : q.pc # Free => q.sess \in Sessions}
TabRecs ==
  [phase : Phases, sess : 0..MaxSessions, offset : 0..Size, tries : 0..RetryLimit,
   reply : Replies, told : 0..(Size + MaxSessions)]

\* A session with its object, which is complete, or was before a sweep that had come
\* upon it earlier took its metadata: no task is at work on it that could write them again.
Past == {"expire", "reconcile", "write", "move", "remove", "commit"}
Finished(s) ==
  /\ object[s] = File /\ s <= made
  /\ meta[s].status = "complete" \/ (meta[s].status = "none" /\ s \in late)
  /\ \A t \in Tasks : task[t].sess = s => task[t].pc \notin Past

\* A sender and its request: the request is for what the sender waits for, an answer
\* tells a session where one was asked for and an offset elsewhere, and success is only
\* reported of a finished session.
Client(r, q) ==
  /\ r \in TabRecs /\ r.sess \in 0..made
  /\ r.phase = "create" /\ r.reply = "session" => r.told \in 1..made
  /\ r.phase # "create" => r.told \in 0..Size
  /\ q.pc # Free => /\ r.reply = "none" /\ r.phase \in {"patch", "complete"}
                    /\ q.sess = r.sess /\ q.op \in {"append", "complete"}
  /\ proto = "native" /\ (r.reply = "object" \/ r.phase = "done")
       => r.sess \in Sessions /\ Finished(r.sess)

Fits(f) == f \in Seq(1..Size) /\ Len(f) <= Size

Counters ==
  /\ proto \in {"native", "tus"}
  /\ stored \in 0..made /\ made \in 0..MaxSessions /\ sends \in 0..MaxSends
  /\ crashes \in 0..MaxCrashes /\ lost \in 0..MaxLost

Talk ==
  /\ Counters
  /\ holder \in [Sessions -> Tasks \cup {Free}]
  /\ task \in [Tasks -> TaskRecs] /\ tab \in [Tabs -> TabRecs]
  /\ \A c \in Tabs : Client(tab[c], task[c])

\* The bytes of a session never get longer than the file, and a complete session has
\* its object.
Kept ==
  \A s \in Sessions : /\ tmp[s] = Gone \/ Fits(tmp[s])
                      /\ meta[s].status = "complete" => object[s] = File

-----------------------------------------------------------------------------
(* The disk.                                                               *)

\* What a step must leave alone for a finished session to stay one.
LEMMA LeftAlone ==
  ASSUME NEW s \in Sessions, Finished(s), made \in Nat, made' \in Nat, made <= made',
         late \subseteq late', object'[s] = object[s],
         meta'[s] = meta[s] \/ (meta'[s].status = "none" /\ s \in late),
         \A t \in Tasks : task'[t].sess = s => task'[t].pc \notin Past
  PROVE  Finished(s)'
<1>1. s <= made'
  BY DEF Finished, Sessions
<1> QED
  BY <1>1 DEF Finished

\* The step of a task that ends, or is somewhere else afterwards.
LEMMA TaskLeaves ==
  ASSUME Ind, NEW s \in Sessions, Finished(s), NEW t \in Tasks, NEW q, task' = [task EXCEPT ![t] = q],
         q.sess # s \/ q.pc \notin Past
  PROVE  \A u \in Tasks : task'[u].sess = s => task'[u].pc \notin Past
<1>1. \A u \in Tasks : task'[u] = IF u = t THEN q ELSE task[u]
  BY DEF Ind, Shape
<1> QED
  BY <1>1 DEF Finished

\* Work on another session changes nothing of this one.
LEMMA ElsewhereStays ==
  ASSUME Ind, NEW s \in Sessions, Finished(s), NEW t \in Tasks, Blocks(t), task[t].sess # s
  PROVE  Finished(s)'
<1> SUFFICES ASSUME NEW x, x = task[t].sess PROVE Finished(s)'
  OBVIOUS
<1>1. UNCHANGED <<late, made>> /\ made \in Nat
  BY BoundsAssumption DEF Blocks, Read, PersistExpired, WriteLost, Reconcile, Write, CommitAppend, Move, Copy,
         RemoveTemp, CommitComplete, bounds, clock, Ind, Shape
<1>2. \E m : meta' = meta \/ meta' = [meta EXCEPT ![x] = m]
  BY DEF Blocks, Read, PersistExpired, WriteLost, Reconcile, Write, CommitAppend, Move, Copy,
         RemoveTemp, CommitComplete, Fails, disk
<1>3. \E f : object' = object \/ object' = [object EXCEPT ![x] = f]
  BY DEF Blocks, Read, PersistExpired, WriteLost, Reconcile, Write, CommitAppend, Move, Copy,
         RemoveTemp, CommitComplete, Fails, disk
<1>4. meta'[s] = meta[s] /\ object'[s] = object[s]
  BY <1>2, <1>3, Typed
<1>5. \E q : task' = [task EXCEPT ![t] = q] /\ (q.sess = x \/ q.pc = Free)
  <2>1. ASSUME NEW pc, task' = [task EXCEPT ![t].pc = pc]
        PROVE  \E q : task' = [task EXCEPT ![t] = q] /\ (q.sess = x \/ q.pc = Free)
    <3> DEFINE q == [task[t] EXCEPT !.pc = pc]
    <3>1. task' = [task EXCEPT ![t] = q] /\ q.sess = x
      BY <2>1, Typed DEF Fields
    <3> HIDE DEF q
    <3> QED
      BY <3>1
  <2>2. ASSUME NEW pc, NEW n, \/ task' = [task EXCEPT ![t].pc = pc, ![t].seen = n]
                              \/ task' = [task EXCEPT ![t].op = n, ![t].pc = pc]
        PROVE  \E q : task' = [task EXCEPT ![t] = q] /\ (q.sess = x \/ q.pc = Free)
    <3>1. CASE task' = [task EXCEPT ![t].pc = pc, ![t].seen = n]
      <4> DEFINE q == [task[t] EXCEPT !.pc = pc, !.seen = n]
      <4>1. task' = [task EXCEPT ![t] = q] /\ q.sess = x
        BY <3>1, Typed DEF Fields
      <4> HIDE DEF q
      <4> QED
        BY <4>1
    <3>2. CASE task' = [task EXCEPT ![t].op = n, ![t].pc = pc]
      <4> DEFINE q == [task[t] EXCEPT !.op = n, !.pc = pc]
      <4>1. task' = [task EXCEPT ![t] = q] /\ q.sess = x
        BY <3>2, Typed DEF Fields
      <4> HIDE DEF q
      <4> QED
        BY <4>1
    <3> QED
      BY <2>2, <3>1, <3>2
  <2>3. ASSUME task' = [task EXCEPT ![t] = NoTask]
        PROVE  \E q : task' = [task EXCEPT ![t] = q] /\ (q.sess = x \/ q.pc = Free)
    BY <2>3, NoTaskFacts
  <2>4. \/ \E pc : task' = [task EXCEPT ![t].pc = pc]
        \/ \E pc, n : \/ task' = [task EXCEPT ![t].pc = pc, ![t].seen = n]
                      \/ task' = [task EXCEPT ![t].op = n, ![t].pc = pc]
        \/ task' = [task EXCEPT ![t] = NoTask]
    BY DEF Blocks, Read, PersistExpired, WriteLost, Reconcile, Write, CommitAppend, Move, Copy,
           RemoveTemp, CommitComplete, Fails, Answer, Goes
  <2> QED
    BY <2>1, <2>2, <2>3, <2>4
<1>6. \A u \in Tasks : task'[u].sess = s => task'[u].pc \notin Past
  BY <1>5, TaskLeaves DEF Past, Free
<1> QED
  BY <1>1, <1>4, <1>6, LeftAlone

\* No step takes a finished session back: a request for it is let in and reads of it only
\* that there is nothing to do.
LEMMA FinishedStays ==
  ASSUME Ind, Next, NEW s \in Sessions, Finished(s) PROVE Finished(s)'
<1>1. made \in Nat /\ \A u \in Tasks : task[u].sess = s => task[u].pc \notin Past
  BY BoundsAssumption DEF Ind, Shape, Finished
<1>2. ASSUME NEW t \in Tasks, Initiate(t) PROVE Finished(s)'
  <2>1. task' = [task EXCEPT ![t] = NoTask] /\ UNCHANGED <<late, object>>
    BY <1>2 DEF Initiate, Answer, clock
  <2>2. made' = made \/ made' = made + 1
    BY <1>2 DEF Initiate
  <2>3. meta'[s] = meta[s]
    <3>1. CASE made' = made + 1 /\ meta' = [meta EXCEPT ![made'] = [status |-> "open", offset |-> 0]]
      <4>1. s # made'
        BY <1>1, <3>1 DEF Finished, Sessions
      <4> QED
        BY <3>1, <4>1, Typed
    <3> QED
      BY <1>2, <3>1 DEF Initiate
  <2>4. \A u \in Tasks : task'[u].sess = s => task'[u].pc \notin Past
    BY <2>1, NoTaskFacts, TaskLeaves DEF Past
  <2> QED
    BY <1>1, <2>1, <2>2, <2>3, <2>4, LeftAlone
<1>3. ASSUME NEW t \in Tasks, Admit(t) \/ Lock(t) PROVE Finished(s)'
  <2>1. UNCHANGED <<disk, late, made>>
    BY <1>3 DEF Admit, Lock, clock, bounds
  <2>2. \E q : task' = [task EXCEPT ![t] = q] /\ q.pc \notin Past
    <3>1. CASE task' = [task EXCEPT ![t] = NoTask]
      BY <3>1, NoTaskFacts DEF Past
    <3>2. ASSUME NEW r \in Asked(t), task' = [task EXCEPT ![t] = [r EXCEPT !.pc = "lock"]]
          PROVE  \E q : task' = [task EXCEPT ![t] = q] /\ q.pc \notin Past
      <4> DEFINE q == [r EXCEPT !.pc = "lock"]
      <4>1. q.pc = "lock"
        BY Typed DEF Asked, NoTask, Fields
      <4>2. task' = [task EXCEPT ![t] = q]
        BY <3>2
      <4> HIDE DEF q
      <4> QED
        BY <4>1, <4>2 DEF Past
    <3>3. CASE task' = [task EXCEPT ![t].pc = "read"]
      <4> DEFINE q == [task[t] EXCEPT !.pc = "read"]
      <4>1. q.pc = "read"
        BY Typed DEF Fields
      <4>2. task' = [task EXCEPT ![t] = q]
        BY <3>3
      <4> HIDE DEF q
      <4> QED
        BY <4>1, <4>2 DEF Past
    <3> QED
      BY <1>3, <3>1, <3>2, <3>3 DEF Admit, Lock, Answer
  <2>3. \A u \in Tasks : task'[u].sess = s => task'[u].pc \notin Past
    BY <2>2, TaskLeaves
  <2> QED
    BY <1>1, <2>1, <2>3, LeftAlone DEF disk
<1>4. ASSUME NEW t \in Tasks, Blocks(t), task[t].sess = s PROVE Finished(s)'
  <2>1. Read(t)
    BY <1>1, <1>4 DEF Blocks, PersistExpired, WriteLost, Reconcile, Write, CommitAppend, Move, Copy,
           RemoveTemp, CommitComplete, Past
  <2>2. Status(s) \notin {"open", "expired"}
    BY DEF Finished, Status
  <2>3. \E reply : Fails(t, reply)
    BY <1>4, <2>1, <2>2 DEF Read
  <2>4. task' = [task EXCEPT ![t] = NoTask] /\ UNCHANGED <<disk, late, made>>
    BY <2>1, <2>3 DEF Read, Fails, Answer, clock, bounds
  <2>5. \A u \in Tasks : task'[u].sess = s => task'[u].pc \notin Past
    BY <2>4, NoTaskFacts, TaskLeaves DEF Past
  <2> QED
    BY <1>1, <2>4, <2>5, LeftAlone DEF disk
<1>5. ASSUME NEW x \in Sessions, Expire(x) \/ SweepRead(x) \/ SweepUnlink(x)
      PROVE  Finished(s)'
  <2>1. UNCHANGED <<object, task, made>> /\ late \subseteq late'
    BY <1>5 DEF Expire, SweepRead, SweepUnlink, disk, server, bounds, clock
  <2>2. \/ meta' = meta
        \/ meta' = [meta EXCEPT ![x] = [status |-> "none", offset |-> 0]] /\ x \in late
    BY <1>5 DEF Expire, SweepRead, SweepUnlink, disk, Ind, Shape
  <2>3. meta'[s] = meta[s] \/ (meta'[s].status = "none" /\ s \in late)
    BY <2>2, Typed
  <2> QED
    BY <1>1, <2>1, <2>3, LeftAlone
<1>6. ASSUME NEW c \in Tabs, Send(c) \/ Receive(c) \/ Drop(c) \/ LoseAnswer(c) \/ Reload(c)
      PROVE  Finished(s)'
  <2>1. UNCHANGED <<disk, late, made>>
    BY <1>6 DEF Send, Receive, Drop, LoseAnswer, Reload, clock, bounds
  <2>2. \A u \in Tasks : task'[u].sess = s => task'[u].pc \notin Past
    <3>1. CASE task' = task
      BY <1>1, <3>1
    <3>2. CASE task' = [task EXCEPT ![c] = NoTask]
      <4>1. c \in Tasks
        BY DEF Tasks
      <4> QED
        BY <3>2, <4>1, NoTaskFacts, TaskLeaves DEF Past
    <3>3. CASE task' = [task EXCEPT ![Loose] = task[c], ![c] = NoTask]
      <4>1. \A u \in Tasks : task'[u] \in {task[u], task[c], NoTask} /\ c \in Tasks
        BY <3>3 DEF Ind, Shape, Tasks
      <4> QED
        BY <1>1, <4>1, NoTaskFacts DEF Past
    <3> QED
      BY <1>6, <3>1, <3>2, <3>3 DEF Send, Receive, Drop, LoseAnswer, Reload, Dropped, server
  <2> QED
    BY <1>1, <2>1, <2>2, LeftAlone DEF disk
<1>7. CASE Crash
  <2>1. task' = [u \in Tasks |-> NoTask] /\ UNCHANGED <<meta, object, late, made>>
    BY <1>7 DEF Crash
  <2>2. \A u \in Tasks : task'[u].sess = s => task'[u].pc \notin Past
    BY <2>1, NoTaskFacts DEF Past
  <2> QED
    BY <1>1, <2>1, <2>2, LeftAlone
<1> QED
  BY <1>2, <1>3, <1>4, <1>5, <1>6, <1>7, ElsewhereStays DEF Next, Works

\* A task that finds or writes down that its session is complete leaves it finished: the
\* mutex keeps the others from it.
LEMMA Finishes ==
  ASSUME Ind, NEW t \in Tasks, Running(t), NEW s \in Sessions, s = task[t].sess,
         task' = [task EXCEPT ![t] = NoTask], UNCHANGED <<object, late, made>>,
         meta'[s].status = "complete", object[s] = File, s <= made
  PROVE  Finished(s)'
<1>1. \A u \in Tasks : task'[u] = IF u = t THEN NoTask ELSE task[u]
  BY DEF Ind, Shape
<1>2. ASSUME NEW u \in Tasks, u # t, task[u].sess = s PROVE task[u].pc \notin Past
  <2>1. holder[s] = t
    BY DEF Ind, UnderWay
  <2>2. ~ Running(u)
    BY <1>2, <2>1 DEF Ind, UnderWay
  <2> QED
    BY <2>2 DEF Running, Past
<1>3. \A u \in Tasks : task'[u].sess = s => task'[u].pc \notin Past
  BY <1>1, <1>2, NoTaskFacts DEF Past
<1> QED
  BY <1>3 DEF Finished

\* A piece of what was in the file, and a piece of the uploaded file, are of its bytes.
LEMMA FitsFacts ==
  /\ Fits(<<>>) /\ Fits(File)
  /\ \A f : Fits(f) => \A n \in 0..Size : n <= Len(f) => Fits(SubSeq(f, 1, n))
<1>1. Fits(<<>>)
  BY SizesAssumption, EmptySeq DEF Fits
<1>2. Fits(File)
  <2>1. File \in [1..Size -> 1..Size]
    BY SizesAssumption DEF File
  <2>2. File \in Seq(1..Size)
    BY <2>1, SizesAssumption, SeqDef
  <2> QED
    BY <2>2, FileFacts, SizesAssumption DEF Fits
<1>3. ASSUME NEW f, Fits(f), NEW n \in 0..Size, n <= Len(f) PROVE Fits(SubSeq(f, 1, n))
  <2>1. Len(f) \in Nat /\ \A i \in 1..n : f[i] \in 1..Size
    <3>1. f \in Seq(1..Size)
      BY <1>3 DEF Fits
    <3>2. Len(f) \in Nat /\ \A i \in 1..Len(f) : f[i] \in 1..Size
      BY <3>1, LenProperties, ElementOfSeq
    <3> QED
      BY <1>3, <3>2, SizesAssumption
  <2>2. 1 \in Int /\ n \in Int
    BY SizesAssumption
  <2>3. /\ SubSeq(f, 1, n) \in Seq(1..Size)
        /\ Len(SubSeq(f, 1, n)) = IF 1 <= n THEN n - 1 + 1 ELSE 0
    BY <2>1, <2>2, SubSeqProperties
  <2> QED
    BY <1>3, <2>3, SizesAssumption DEF Fits
<1> QED
  BY <1>1, <1>2, <1>3

\* The chunk at an offset is of the file's bytes and ends with the file at the latest.
LEMMA ChunkBytes ==
  ASSUME NEW o \in 0..Size
  PROVE  LET c == SubSeq(File, o + 1, ChunkEnd(o))
         IN c \in Seq(1..Size) /\ Len(c) \in Nat /\ Len(c) <= Size - o
<1> DEFINE c == SubSeq(File, o + 1, ChunkEnd(o))
<1>1. ChunkEnd(o) \in o..Size
  BY ChunkFacts
<1>2. /\ c \in Contents /\ Len(c) = ChunkEnd(o) - o
      /\ \A i \in 1..(ChunkEnd(o) - o) : c[i] = o + i
  BY <1>1, PartFacts
<1> HIDE DEF c
<1>3. \A i \in 1..Len(c) : c[i] \in 1..Size
  BY <1>1, <1>2, SizesAssumption
<1>4. Len(c) \in Nat /\ Len(c) <= Size - o
  BY <1>1, <1>2, SizesAssumption
<1>5. c \in Seq(1..Size)
  <2>1. c \in [1..Len(c) -> 1..Size]
    BY <1>2, <1>3, LenProperties DEF Contents
  <2> QED
    BY <1>4, <2>1, SeqDef
<1> QED
  BY <1>4, <1>5 DEF c

\* Any part of it, behind at most as many bytes, fits.
LEMMA PartFits ==
  ASSUME NEW o \in 0..Size, NEW f, Fits(f), Len(f) \in 0..o,
         NEW c \in Seq(1..Size), Len(c) <= Size - o, NEW n \in 0..Len(c)
  PROVE  Fits(f \o SubSeq(c, 1, n)) /\ Fits(f \o c)
<1>1. Len(c) \in Nat /\ \A i \in 1..Len(c) : c[i] \in 1..Size
  BY LenProperties, ElementOfSeq
<1>2. SubSeq(c, 1, n) \in Seq(1..Size) /\ Len(SubSeq(c, 1, n)) = n
  <2>1. 1 \in Int /\ n \in Int /\ \A i \in 1..n : c[i] \in 1..Size
    BY <1>1
  <2>2. /\ SubSeq(c, 1, n) \in Seq(1..Size)
        /\ Len(SubSeq(c, 1, n)) = IF 1 <= n THEN n - 1 + 1 ELSE 0
    BY <2>1, SubSeqProperties
  <2> QED
    BY <1>1, <2>2
<1>3. \A g \in Seq(1..Size) : Len(g) <= Size - o => Fits(f \o g)
  BY ConcatProperties, LenProperties, SizesAssumption DEF Fits
<1>4. Len(SubSeq(c, 1, n)) <= Size - o
  BY <1>1, <1>2, SizesAssumption
<1> QED
  BY <1>2, <1>3, <1>4

\* The bytes of a session, after a step of the work on it.
LEMMA BytesKept ==
  ASSUME Ind, Kept, NEW t \in Tasks, NEW s, s = task[t].sess,
         Reconcile(t) \/ Write(t) \/ Move(t) \/ Copy(t) \/ RemoveTemp(t)
  PROVE  \A x \in Sessions : tmp'[x] = Gone \/ Fits(tmp'[x])
<1> DEFINE n == task[t].seen
<1>1. Running(t) /\ (s \in Sessions => Stage(task[t], s))
  BY DEF Reconcile, Write, Move, Copy, RemoveTemp, Running, Ind, UnderWay
<1>2. CASE tmp' = tmp
  BY <1>2 DEF Kept
<1>3. ASSUME NEW f, tmp' = [tmp EXCEPT ![s] = f], s \in Sessions => f = Gone \/ Fits(f)
      PROVE  \A x \in Sessions : tmp'[x] = Gone \/ Fits(tmp'[x])
  BY <1>3, Typed DEF Kept
<1>4. CASE Reconcile(t) /\ tmp' # tmp
  <2> DEFINE f == IF TempLen(s) > n THEN SubSeq(tmp[s], 1, n) ELSE tmp[s]
  <2>1. tmp' = [tmp EXCEPT ![s] = f] /\ task[t].pc = "reconcile"
    BY <1>4 DEF Reconcile, Fails, Trusted, disk
  <2>2. ASSUME s \in Sessions PROVE f = Gone \/ Fits(f)
    <3>1. n \in 0..Size
      BY <1>1, <2>1, <2>2 DEF Stage
    <3>2. CASE tmp[s] = Gone
      <4>1. TempLen(s) = 0
        BY <3>2 DEF TempLen
      <4> QED
        BY <3>1, <3>2, <4>1, SizesAssumption
    <3>3. CASE Fits(tmp[s]) /\ tmp[s] # Gone
      <4>1. TempLen(s) = Len(tmp[s]) /\ Len(tmp[s]) \in Nat
        BY <3>3, LenProperties DEF TempLen, Fits
      <4> HIDE DEF n
      <4>2. CASE TempLen(s) > n
        <5>1. n <= Len(tmp[s])
          BY <3>1, <4>1, <4>2, SizesAssumption
        <5>2. Fits(SubSeq(tmp[s], 1, n))
          BY <3>1, <3>3, <5>1, FitsFacts
        <5> QED
          BY <4>2, <5>2
      <4>3. CASE ~ (TempLen(s) > n)
        BY <3>3, <4>3
      <4> QED
        BY <4>2, <4>3
    <3> QED
      BY <2>2, <3>2, <3>3 DEF Kept
  <2> HIDE DEF f
  <2> QED
    BY <1>3, <2>1, <2>2
<1>5. CASE Write(t) /\ tmp' # tmp
  <2> DEFINE f == (IF tmp[s] = Gone THEN <<>> ELSE tmp[s]) \o Chunk(t)
  <2>1. tmp' = [tmp EXCEPT ![s] = f] /\ task[t].pc = "write"
    BY <1>5 DEF Write, Fails, Appended, disk
  <2>2. ASSUME s \in Sessions PROVE Fits(f)
    <3>1. (tmp[s] # Gone => Len(tmp[s]) = n) /\ n \in 0..Size /\ task[t].offset = n
      BY <1>1, <2>1, <2>2 DEF Stage
    <3> DEFINE c == SubSeq(File, n + 1, ChunkEnd(n))
               b == IF tmp[s] = Gone THEN <<>> ELSE tmp[s]
    <3>2. c \in Seq(1..Size) /\ Len(c) \in Nat /\ Len(c) <= Size - n /\ f = b \o c
      BY <3>1, ChunkBytes DEF Chunk
    <3>3. Fits(b) /\ Len(b) \in 0..n
      BY <2>2, <3>1, FitsFacts, EmptySeq, SizesAssumption DEF Kept
    <3> HIDE DEF b, c, n
    <3>4. 0 \in 0..Len(c)
      BY <3>2
    <3>5. Fits(b \o c)
      BY <3>1, <3>2, <3>3, <3>4, PartFits
    <3> QED
      BY <3>2, <3>5
  <2> HIDE DEF f
  <2> QED
    BY <1>3, <2>1, <2>2
<1>6. CASE (Move(t) \/ Copy(t) \/ RemoveTemp(t)) /\ tmp' # tmp
  <2>1. tmp' = [tmp EXCEPT ![s] = Gone]
    BY <1>6 DEF Move, Copy, RemoveTemp, Fails, disk
  <2> QED
    BY <1>3, <2>1
<1> QED
  BY <1>2, <1>4, <1>5, <1>6

\* What a stop of the server leaves of a chunk still fits.
LEMMA TornFits ==
  ASSUME Ind, Kept, Crash
  PROVE  \A x \in Sessions : tmp'[x] = Gone \/ Fits(tmp'[x])
<1>1. PICK t \in Tasks : Running(t) /\ tmp' \in Torn(t)
  BY DEF Crash
<1> DEFINE s == task[t].sess
           n == task[t].seen
<1>2. CASE tmp' = tmp
  BY <1>2 DEF Kept
<1>3. CASE tmp' # tmp
  <2>1. PICK k \in 0..Len(Chunk(t)) : tmp' = Appended(s, SubSeq(Chunk(t), 1, k))
    BY <1>1, <1>3 DEF Torn
  <2>2. task[t].pc = "write"
    BY <1>1, <1>3 DEF Torn
  <2> DEFINE f == (IF tmp[s] = Gone THEN <<>> ELSE tmp[s]) \o SubSeq(Chunk(t), 1, k)
  <2>3. tmp' = [tmp EXCEPT ![s] = f]
    BY <2>1 DEF Appended
  <2>4. ASSUME s \in Sessions PROVE Fits(f)
    <3>1. (tmp[s] # Gone => Len(tmp[s]) = n) /\ n \in 0..Size /\ task[t].offset = n
      BY <1>1, <2>2, <2>4 DEF Ind, UnderWay, Stage
    <3> DEFINE c == SubSeq(File, n + 1, ChunkEnd(n))
               b == IF tmp[s] = Gone THEN <<>> ELSE tmp[s]
    <3>2. Fits(b) /\ Len(b) \in 0..n
      BY <2>4, <3>1, FitsFacts, EmptySeq, SizesAssumption DEF Kept
    <3>3. /\ c \in Seq(1..Size) /\ Len(c) \in Nat /\ Len(c) <= Size - n
          /\ f = b \o SubSeq(c, 1, k) /\ k \in 0..Len(c)
      BY <3>1, ChunkBytes DEF Chunk
    <3> HIDE DEF b, c, n
    <3>4. Fits(b \o SubSeq(c, 1, k))
      BY <3>1, <3>2, <3>3, PartFits
    <3> QED
      BY <3>3, <3>4
  <2> HIDE DEF f
  <2> QED
    BY <2>3, <2>4, Typed DEF Kept
<1> QED
  BY <1>2, <1>3

\* An object that is there stays, and is the file.
LEMMA ObjectStays ==
  ASSUME Ind, Ind', Next, NEW s \in Sessions, object[s] = File
  PROVE  object'[s] = File
<1>1. CASE object' = object
  BY <1>1
<1>2. ASSUME NEW t \in Tasks, Move(t) \/ Copy(t), object' # object PROVE object'[s] # Gone
  <2> DEFINE x == task[t].sess
  <2>1. tmp[x] # Gone /\ object' = [object EXCEPT ![x] = tmp[x]]
    BY <1>2 DEF Move, Copy, Fails, disk
  <2> QED
    BY <2>1, FileFacts, Typed
<1>3. \/ object' = object
      \/ \E t \in Tasks : Move(t) \/ Copy(t)
  BY DEF Next, Works, Initiate, Admit, Lock, Blocks, Read, PersistExpired, WriteLost, Reconcile, Write,
         CommitAppend, RemoveTemp, CommitComplete, Fails, Expire, SweepRead, SweepUnlink, Send, Receive, Drop, LoseAnswer, Reload, Crash, disk
<1>4. object'[s] \in {Gone, File}
  BY DEF Ind, Saved
<1> QED
  BY <1>1, <1>2, <1>3, <1>4

LEMMA KeptKept ==
  ASSUME Ind, Ind', Kept, Next PROVE Kept'
<1>1. \A x \in Sessions : tmp'[x] = Gone \/ Fits(tmp'[x])
  <2>1. CASE tmp' = tmp
    BY <2>1 DEF Kept
  <2>2. ASSUME NEW t \in Tasks, Initiate(t) PROVE \A x \in Sessions : tmp'[x] = Gone \/ Fits(tmp'[x])
    <3>1. CASE tmp' = [tmp EXCEPT ![made'] = <<>>]
      BY <3>1, FitsFacts, Typed DEF Kept
    <3> QED
      BY <2>1, <2>2, <3>1 DEF Initiate
  <2>3. ASSUME NEW x \in Sessions, tmp' = [tmp EXCEPT ![x] = Gone]
        PROVE  \A y \in Sessions : tmp'[y] = Gone \/ Fits(tmp'[y])
    BY <2>3, Typed DEF Kept
  <2>4. \/ tmp' = tmp \/ Crash
        \/ \E t \in Tasks : \/ Initiate(t) \/ Reconcile(t) \/ Write(t)
                            \/ Move(t) \/ Copy(t) \/ RemoveTemp(t)
        \/ \E x \in Sessions : tmp' = [tmp EXCEPT ![x] = Gone]
    BY DEF Next, Works, Admit, Lock, Blocks, Read, PersistExpired, WriteLost, CommitAppend,
           CommitComplete, Fails, Expire, SweepRead, SweepUnlink, Send, Receive, Drop, LoseAnswer, Reload, disk
  <2> QED
    BY <2>1, <2>2, <2>3, <2>4, BytesKept, TornFits
<1>2. ASSUME NEW s \in Sessions, meta'[s].status = "complete" PROVE object'[s] = File
  <2>1. CASE meta[s].status = "complete"
    BY <2>1, ObjectStays DEF Kept
  <2>2. ASSUME NEW t \in Tasks, CommitComplete(t), meta[s].status # "complete" PROVE object[s] = File
    <3>1. /\ task[t].sess = s
      BY <1>2, <2>2, Typed DEF CommitComplete
    <3>2. Running(t) /\ task[t].pc = "commit" /\ task[t].op # "append"
      BY <2>2 DEF CommitComplete, Running
    <3> QED
      BY <3>1, <3>2 DEF Ind, UnderWay, Stage
  <2>3. CASE meta[s].status # "complete"
    <3>1. \E t \in Tasks : CommitComplete(t)
      <4>1. CASE \E t \in Tasks : Initiate(t)
        <5>1. meta' = meta \/ meta' = [meta EXCEPT ![made'] = [status |-> "open", offset |-> 0]]
          BY <4>1 DEF Initiate
        <5> QED
          BY <1>2, <2>3, <5>1, Typed
      <4>2. ASSUME NEW t \in Tasks, PersistExpired(t) PROVE FALSE
        <5>1. \E o : meta' = [meta EXCEPT ![task[t].sess] = [status |-> "expired", offset |-> o]]
          BY <4>2 DEF PersistExpired
        <5> QED
          BY <1>2, <2>3, <5>1, Typed
      <4>3. ASSUME NEW t \in Tasks, CommitAppend(t) PROVE FALSE
        <5>1. \E o : meta' = [meta EXCEPT ![task[t].sess] = [status |-> "open", offset |-> o]]
          BY <4>3 DEF CommitAppend
        <5> QED
          BY <1>2, <2>3, <5>1, Typed
      <4>4. ASSUME NEW x \in Sessions, SweepUnlink(x) PROVE FALSE
        <5>1. meta' = meta \/ meta' = [meta EXCEPT ![x] = [status |-> "none", offset |-> 0]]
          BY <4>4 DEF SweepUnlink
        <5> QED
          BY <1>2, <2>3, <5>1, Typed
      <4>5. \/ meta' = meta
            \/ \E t \in Tasks : Initiate(t) \/ PersistExpired(t) \/ CommitAppend(t) \/ CommitComplete(t)
            \/ \E x \in Sessions : SweepUnlink(x)
        BY DEF Next, Works, Admit, Lock, Blocks, Read, WriteLost, Reconcile, Write, Move, Copy, RemoveTemp,
               Fails, Expire, SweepRead, Send, Receive, Drop, LoseAnswer, Reload, Crash, disk
      <4> QED
        BY <1>2, <2>3, <4>1, <4>2, <4>3, <4>4, <4>5
    <3> QED
      BY <2>2, <2>3, <3>1, ObjectStays
  <2> QED
    BY <2>1, <2>3
<1> QED
  BY <1>1, <1>2 DEF Kept

-----------------------------------------------------------------------------
(* The senders and their requests.                                         *)

\* A step that gives one sender and its request other values.
LEMMA OneClient ==
  ASSUME Ind, Talk, Next, UNCHANGED proto, made <= made', made' \in Nat,
         NEW c \in Tasks, NEW q \in TaskRecs, NEW r,
         task' = [task EXCEPT ![c] = q], tab' = [tab EXCEPT ![c] = r],
         c \in Tabs => Client(r, q)'
  PROVE  /\ task' \in [Tasks -> TaskRecs] /\ tab' \in [Tabs -> TabRecs]
         /\ \A x \in Tabs : Client(tab[x], task[x])'
<1>1. task' \in [Tasks -> TaskRecs] /\ \A x \in Tasks : task'[x] = IF x = c THEN q ELSE task[x]
  BY DEF Talk
<1>2. \A x \in Tabs : tab'[x] = IF x = c THEN r ELSE tab[x]
  BY DEF Talk
<1>3. tab' \in [Tabs -> TabRecs]
  BY <1>2 DEF Talk, Client
<1>4. ASSUME NEW x \in Tabs, x # c PROVE Client(tab[x], task[x])'
  <2> SUFFICES ASSUME NEW a, a = tab[x], NEW b, b = task[x] PROVE Client(tab[x], task[x])'
    OBVIOUS
  <2>1. tab'[x] = a /\ task'[x] = b
    BY <1>1, <1>2, <1>4 DEF Tasks
  <2>2. Client(a, b) /\ made \in Nat /\ a \in TabRecs
    BY <1>4, BoundsAssumption DEF Talk, Counters
  <2>3. a.sess \in Sessions /\ Finished(a.sess) => Finished(a.sess)'
    BY FinishedStays
  <2>4. a.sess \in 0..made => a.sess \in 0..made'
    BY <2>2
  <2>5. a.told \in 1..made => a.told \in 1..made'
    BY <2>2
  <2>6. Client(a, b)'
    BY <2>2, <2>3, <2>4, <2>5 DEF Client
  <2> QED
    BY <2>1, <2>6
<1>5. c \in Tabs => Client(tab[c], task[c])'
  BY <1>1, <1>2 DEF Tasks
<1> QED
  BY <1>1, <1>3, <1>4, <1>5

\* A step of a task that says nothing.
LEMMA SilentStep ==
  ASSUME Ind, Talk, Next, UNCHANGED <<proto, tab, made>>,
         NEW t \in Tasks, NEW q \in TaskRecs, task' = [task EXCEPT ![t] = q],
         t \in Tabs /\ q.pc # Free => /\ tab[t].reply = "none" /\ tab[t].phase \in {"patch", "complete"}
                                      /\ q.sess = tab[t].sess /\ q.op \in {"append", "complete"}
  PROVE  /\ task' \in [Tasks -> TaskRecs] /\ tab' \in [Tabs -> TabRecs]
         /\ \A x \in Tabs : Client(tab[x], task[x])'
<1> SUFFICES ASSUME NEW r, r = tab[t]
             PROVE  /\ task' \in [Tasks -> TaskRecs] /\ tab' \in [Tabs -> TabRecs]
                    /\ \A x \in Tabs : Client(tab[x], task[x])'
  OBVIOUS
<1>1. tab' = [tab EXCEPT ![t] = r]
  BY DEF Talk
<1>2. made \in Nat /\ made <= made'
  BY BoundsAssumption DEF Talk, Counters
<1>3. t \in Tabs => Client(r, q)'
  <2> SUFFICES ASSUME t \in Tabs PROVE Client(r, q)'
    OBVIOUS
  <2>1. Client(r, task[t]) /\ made \in Nat
    BY BoundsAssumption DEF Talk, Counters
  <2>2. r.sess \in Sessions /\ Finished(r.sess) => Finished(r.sess)'
    BY FinishedStays
  <2>3. q.pc # Free => /\ r.reply = "none" /\ r.phase \in {"patch", "complete"}
                       /\ q.sess = r.sess /\ q.op \in {"append", "complete"}
    OBVIOUS
  <2> QED
    BY <2>1, <2>2, <2>3 DEF Client
<1> QED
  BY <1>1, <1>2, <1>3, OneClient

\* A step that gives a sender its answer.
LEMMA AnswerStep ==
  ASSUME Ind, Talk, Next, UNCHANGED proto, made <= made', made' \in 0..MaxSessions,
         NEW t \in Tasks, NEW reply \in Replies, NEW offset \in 0..(Size + MaxSessions),
         Answer(t, reply, offset),
         t \in Tabs => tab[t].phase \notin {"idle", "done", "failed"},
         t \in Tabs /\ tab[t].phase = "create" /\ reply = "session" => offset \in 1..made',
         t \in Tabs /\ tab[t].phase # "create" => offset \in 0..Size,
         t \in Tabs /\ proto = "native" /\ reply = "object"
           => \E s \in Sessions : s = tab[t].sess /\ Finished(s)'
  PROVE  /\ task' \in [Tasks -> TaskRecs] /\ tab' \in [Tabs -> TabRecs]
         /\ \A x \in Tabs : Client(tab[x], task[x])'
<1> SUFFICES ASSUME NEW a, a = tab[t], NEW r, r = [a EXCEPT !.reply = reply, !.told = offset]
             PROVE  /\ task' \in [Tasks -> TaskRecs] /\ tab' \in [Tabs -> TabRecs]
                    /\ \A x \in Tabs : Client(tab[x], task[x])'
  OBVIOUS
<1>1. task' = [task EXCEPT ![t] = NoTask] /\ NoTask \in TaskRecs /\ NoTask.pc = Free
  <2>1. MaxSessions \in Nat /\ 0 \in 0..MaxSessions /\ 0 \in 0..Size
    BY BoundsAssumption, SizesAssumption
  <2> QED
    BY <2>1 DEF Answer, NoTask, TaskRecs, TaskShape, Places
<1>2. tab' = [tab EXCEPT ![t] = r]
  <2>1. CASE t = Loose
    <3>1. tab' = tab /\ t \notin Tabs
      BY <2>1, TabsAssumption DEF Answer
    <3> QED
      BY <3>1 DEF Talk
  <2>2. CASE t # Loose
    BY <2>2 DEF Answer, Told
  <2> QED
    BY <2>1, <2>2
<1>3. t \in Tabs => Client(r, NoTask)'
  <2> SUFFICES ASSUME t \in Tabs PROVE Client(r, NoTask)'
    OBVIOUS
  <2>1. Client(a, task[t]) /\ a \in TabRecs /\ made \in Nat /\ made' \in Nat
    BY BoundsAssumption DEF Talk, Counters
  <2>2. /\ a.phase \notin {"idle", "done", "failed"}
        /\ a.phase = "create" /\ reply = "session" => offset \in 1..made'
        /\ a.phase # "create" => offset \in 0..Size
        /\ proto = "native" /\ reply = "object"
             => a.sess \in Sessions /\ Finished(a.sess)'
    OBVIOUS
  <2>3. a.sess \in 0..made'
    BY <2>1 DEF Client
  <2>4. /\ r \in TabRecs /\ r.phase = a.phase /\ r.sess = a.sess
        /\ r.reply = reply /\ r.told = offset
    BY <2>1 DEF TabRecs
  <2> QED
    BY <1>1, <2>2, <2>3, <2>4 DEF Client, NoTask
<1>4. made' \in Nat
  BY BoundsAssumption
<1> QED
  BY <1>1, <1>2, <1>3, <1>4, OneClient

\* What a handler is asked.
LEMMA AskedFacts ==
  ASSUME Talk, NEW t \in Tasks, NEW q \in Asked(t)
  PROVE  /\ q \in TaskRecs
         /\ t \in Tabs =>
              /\ tab[t].reply = "none" /\ q.sess = tab[t].sess
              /\ tab[t].phase \notin {"idle", "done", "failed"}
              /\ tab[t].phase = "create" <=> q.op = "initiate"
              /\ q.op \in {"append", "complete"} => tab[t].phase \in {"patch", "complete"}
<1>1. CASE task[t].pc = "admit"
  <2>1. q = task[t] /\ q \in TaskRecs /\ q.pc # Free
    BY <1>1 DEF Asked, Talk, Free
  <2>2. t \in Tabs => Client(tab[t], q)
    BY <2>1 DEF Talk
  <2> QED
    BY <2>1, <2>2 DEF Client
<1>2. CASE task[t].pc # "admit"
  <2> DEFINE a == tab[t]
  <2>1. t \in Tabs /\ Active(t) /\ a.reply = "none" /\ a \in TabRecs
    BY <1>2 DEF Asked, Waits, Talk
  <2>2. q = [NoTask EXCEPT !.op = Operation[a.phase], !.sess = a.sess, !.offset = a.offset]
    BY <1>2, <2>1 DEF Asked
  <2>3. a.phase \in {"load", "create", "probe", "patch", "resync", "complete"}
    BY <2>1 DEF Active, TabRecs, Phases
  <2> HIDE DEF a
  <2>4. /\ Operation[a.phase] \in {"inspect", "initiate", "append", "complete"}
        /\ a.phase = "create" <=> Operation[a.phase] = "initiate"
        /\ Operation[a.phase] \in {"append", "complete"} => a.phase \in {"patch", "complete"}
    BY <2>3 DEF Operation
  <2>5. q \in TaskRecs /\ q.op = Operation[a.phase] /\ q.sess = a.sess
    <3>1. q = [op |-> Operation[a.phase], sess |-> a.sess, offset |-> a.offset, pc |-> Free, seen |-> 0]
      BY <2>2 DEF NoTask
    <3>2. a.sess \in 0..MaxSessions /\ a.offset \in 0..Size /\ 0 \in 0..Size
      BY <2>1, SizesAssumption DEF TabRecs
    <3> QED
      BY <2>4, <3>1, <3>2 DEF TaskRecs, TaskShape, Places
  <2> QED
    BY <2>1, <2>3, <2>4, <2>5 DEF a
<1> QED
  BY <1>1, <1>2

\* A request that has been let in.
LEMMA InHand ==
  ASSUME Talk, NEW t \in Tasks, task[t].pc # Free
  PROVE  /\ task[t] \in TaskShape /\ task[t].sess \in Sessions
         /\ t \in Tabs => /\ tab[t].reply = "none" /\ tab[t].phase \in {"patch", "complete"}
                          /\ task[t].sess = tab[t].sess /\ task[t].op \in {"append", "complete"}
<1>1. task[t] \in TaskRecs /\ (t \in Tabs => Client(tab[t], task[t]))
  BY DEF Talk
<1> QED
  BY <1>1 DEF TaskRecs, Client

\* The handler of such a request answers ...
LEMMA SaysStep ==
  ASSUME Ind, Talk, Next, UNCHANGED <<proto, made>>, NEW t \in Tasks, task[t].pc # Free,
         NEW reply \in Replies, NEW offset \in 0..Size, Answer(t, reply, offset),
         reply = "object" => \E s \in Sessions : s = task[t].sess /\ Finished(s)'
  PROVE  /\ task' \in [Tasks -> TaskRecs] /\ tab' \in [Tabs -> TabRecs]
         /\ \A x \in Tabs : Client(tab[x], task[x])'
<1>1. made' <= made' /\ made \in 0..MaxSessions /\ made <= made' /\ made' \in 0..MaxSessions
  BY BoundsAssumption DEF Talk, Counters
<1>2. offset \in 0..(Size + MaxSessions)
  BY SizesAssumption, BoundsAssumption
<1>3. t \in Tabs => /\ tab[t].phase \in {"patch", "complete"}
                    /\ reply = "object" => \E s \in Sessions : s = tab[t].sess /\ Finished(s)'
  BY InHand
<1> QED
  BY <1>1, <1>2, <1>3, AnswerStep

\* ... or goes on.
LEMMA GoesStep ==
  ASSUME Ind, Talk, Next, UNCHANGED <<proto, made, tab>>, NEW t \in Tasks, task[t].pc # Free,
         NEW q \in TaskShape, task' = [task EXCEPT ![t] = q],
         q.sess = task[t].sess, q.op \in {task[t].op, "complete"}
  PROVE  /\ task' \in [Tasks -> TaskRecs] /\ tab' \in [Tabs -> TabRecs]
         /\ \A x \in Tabs : Client(tab[x], task[x])'
<1>1. q \in TaskRecs
  BY InHand DEF TaskRecs
<1>2. t \in Tabs => /\ tab[t].reply = "none" /\ tab[t].phase \in {"patch", "complete"}
                    /\ q.sess = tab[t].sess /\ q.op \in {"append", "complete"}
  BY InHand
<1> QED
  BY <1>1, <1>2, SilentStep

LEMMA InitiateTalks ==
  ASSUME Ind, Talk, Next, NEW t \in Tasks, Initiate(t)
  PROVE  /\ task' \in [Tasks -> TaskRecs] /\ tab' \in [Tabs -> TabRecs]
         /\ \A x \in Tabs : Client(tab[x], task[x])'
         /\ made' \in 0..MaxSessions /\ made <= made' /\ made' \in Nat
<1>1. made \in 0..MaxSessions /\ MaxSessions \in Nat /\ Size \in Nat
  BY BoundsAssumption, SizesAssumption DEF Talk, Counters
<1>2. PICK q \in Asked(t) : q.op = "initiate"
  BY DEF Initiate
<1>3. t \in Tabs => tab[t].phase = "create"
  BY <1>2, AskedFacts
<1>4. CASE made < MaxSessions
  <2>1. made' = made + 1 /\ Answer(t, "session", made') /\ UNCHANGED proto
    BY <1>4 DEF Initiate
  <2>2. made' \in 1..MaxSessions /\ made' \in 0..(Size + MaxSessions) /\ made' \in 1..made'
        /\ made <= made' /\ made' \in 0..MaxSessions /\ made' \in Nat
    BY <1>1, <1>4, <2>1
  <2> SUFFICES ASSUME NEW n, n = made'
               PROVE  /\ task' \in [Tasks -> TaskRecs] /\ tab' \in [Tabs -> TabRecs]
                      /\ \A x \in Tabs : Client(tab[x], task[x])'
    BY <2>2
  <2>3. Answer(t, "session", n) /\ n \in 0..(Size + MaxSessions) /\ n \in 1..made'
    BY <2>1, <2>2
  <2>4. "session" \in Replies
    BY DEF Replies
  <2> QED
    BY <1>3, <2>1, <2>2, <2>3, <2>4, AnswerStep
<1>5. CASE ~ (made < MaxSessions)
  <2>1. Answer(t, "backend", 0) /\ UNCHANGED <<proto, made>>
    BY <1>5 DEF Initiate
  <2>2. 0 \in 0..(Size + MaxSessions) /\ "backend" \in Replies /\ made <= made'
        /\ made' \in 0..MaxSessions /\ made' \in Nat /\ 0 \in 0..Size
    BY <1>1, <2>1 DEF Replies
  <2> QED
    BY <1>3, <2>1, <2>2, AnswerStep
<1> QED
  BY <1>4, <1>5

LEMMA AdmitTalks ==
  ASSUME Ind, Talk, Next, NEW t \in Tasks, Admit(t)
  PROVE  /\ task' \in [Tasks -> TaskRecs] /\ tab' \in [Tabs -> TabRecs]
         /\ \A x \in Tabs : Client(tab[x], task[x])'
<1>1. made \in 0..MaxSessions /\ MaxSessions \in Nat /\ Size \in Nat /\ UNCHANGED <<proto, made>>
  BY BoundsAssumption, SizesAssumption DEF Talk, Counters, Admit, bounds, clock
<1>2. PICK q \in Asked(t) :
        /\ q.op # "initiate"
        /\ \/ Answer(t, "unknown", 0)
           \/ Known(q.sess) /\ Answer(t, Status(q.sess), meta[q.sess].offset)
           \/ Answer(t, "mismatch", 0)
           \/ /\ Known(q.sess) /\ q.op \in {"append", "complete"}
              /\ task' = [task EXCEPT ![t] = [q EXCEPT !.pc = "lock"]] /\ UNCHANGED tab
  BY DEF Admit
<1>3. /\ q \in TaskRecs
      /\ t \in Tabs =>
           /\ tab[t].reply = "none" /\ q.sess = tab[t].sess
           /\ tab[t].phase \notin {"idle", "done", "failed", "create"}
           /\ q.op \in {"append", "complete"} => tab[t].phase \in {"patch", "complete"}
  BY <1>2, AskedFacts
<1>4. Known(q.sess) => q.sess \in Sessions
  BY <1>1, <1>3 DEF Known, TaskRecs, TaskShape, Sessions
<1>5. ASSUME NEW reply \in Replies \ {"object", "session"}, NEW offset \in 0..Size, Answer(t, reply, offset)
      PROVE  /\ task' \in [Tasks -> TaskRecs] /\ tab' \in [Tabs -> TabRecs]
             /\ \A x \in Tabs : Client(tab[x], task[x])'
  <2>1. offset \in 0..(Size + MaxSessions) /\ made <= made' /\ made' \in 0..MaxSessions
    BY <1>1
  <2> QED
    BY <1>1, <1>3, <1>5, <2>1, AnswerStep
<1>6. CASE Answer(t, "unknown", 0) \/ Answer(t, "mismatch", 0)
  <2>1. 0 \in 0..Size /\ {"unknown", "mismatch"} \subseteq Replies \ {"object", "session"}
    BY <1>1 DEF Replies
  <2> QED
    BY <1>5, <1>6, <2>1
<1>7. CASE Known(q.sess) /\ Answer(t, Status(q.sess), meta[q.sess].offset)
  <2>1. meta[q.sess] \in Metas /\ meta[q.sess].status # "none"
    BY <1>4, <1>7, Typed DEF Known
  <2>2. Status(q.sess) \in Replies \ {"object", "session"} /\ meta[q.sess].offset \in 0..Size
    BY <2>1 DEF Metas, Status, Replies, Looked
  <2> SUFFICES ASSUME NEW reply, reply = Status(q.sess), NEW offset, offset = meta[q.sess].offset
               PROVE  /\ task' \in [Tasks -> TaskRecs] /\ tab' \in [Tabs -> TabRecs]
                      /\ \A x \in Tabs : Client(tab[x], task[x])'
    OBVIOUS
  <2> QED
    BY <1>5, <1>7, <2>2
<1>8. CASE /\ Known(q.sess) /\ q.op \in {"append", "complete"}
           /\ task' = [task EXCEPT ![t] = [q EXCEPT !.pc = "lock"]] /\ UNCHANGED tab
  <2> DEFINE z == [q EXCEPT !.pc = "lock"]
  <2>1. z \in TaskRecs /\ z.pc = "lock" /\ z.sess = q.sess /\ z.op = q.op
    BY <1>3, <1>4, <1>8 DEF TaskRecs, TaskShape, Places
  <2>2. task' = [task EXCEPT ![t] = z]
    BY <1>8
  <2> HIDE DEF z
  <2> QED
    BY <1>1, <1>3, <1>8, <2>1, <2>2, SilentStep
<1> QED
  BY <1>2, <1>6, <1>7, <1>8

\* The place of a request changes.
LEMMA PlaceStep ==
  ASSUME Ind, Talk, Next, UNCHANGED <<proto, made, tab>>, NEW t \in Tasks, task[t].pc # Free,
         NEW pc \in Places, task' = [task EXCEPT ![t].pc = pc]
  PROVE  /\ task' \in [Tasks -> TaskRecs] /\ tab' \in [Tabs -> TabRecs]
         /\ \A x \in Tabs : Client(tab[x], task[x])'
<1> DEFINE q == [task[t] EXCEPT !.pc = pc]
<1>1. q \in TaskShape /\ q.sess = task[t].sess /\ q.op = task[t].op
  BY InHand DEF TaskShape
<1>2. task' = [task EXCEPT ![t] = q]
  OBVIOUS
<1> HIDE DEF q
<1> QED
  BY <1>1, <1>2, GoesStep

LEMMA BlocksTalk ==
  ASSUME Ind, Talk, Kept, Next, NEW t \in Tasks, Lock(t) \/ Blocks(t)
  PROVE  /\ task' \in [Tasks -> TaskRecs] /\ tab' \in [Tabs -> TabRecs]
         /\ \A x \in Tabs : Client(tab[x], task[x])'
         /\ UNCHANGED <<proto, made>>
<1> SUFFICES ASSUME NEW s, s = task[t].sess
             PROVE  /\ task' \in [Tasks -> TaskRecs] /\ tab' \in [Tabs -> TabRecs]
                    /\ \A x \in Tabs : Client(tab[x], task[x])'
                    /\ UNCHANGED <<proto, made>>
  OBVIOUS
<1>1. task[t].pc # Free /\ UNCHANGED <<proto, made>>
  BY DEF Lock, Blocks, Read, PersistExpired, WriteLost, Reconcile, Write, CommitAppend, Move, Copy,
         RemoveTemp, CommitComplete, Free, bounds
<1>2. /\ s \in Sessions /\ meta[s] \in Metas /\ task[t] \in TaskShape /\ 0 \in 0..Size
      /\ task[t].seen \in 0..Size /\ task[t].offset \in 0..Size
  BY <1>1, InHand, Typed, SizesAssumption DEF TaskShape
<1>3. ASSUME NEW reply \in Replies, NEW offset \in 0..Size, Answer(t, reply, offset),
             reply = "object" => Finished(s)'
      PROVE  /\ task' \in [Tasks -> TaskRecs] /\ tab' \in [Tabs -> TabRecs]
             /\ \A x \in Tabs : Client(tab[x], task[x])'
  BY <1>1, <1>2, <1>3, SaysStep
<1>4. ASSUME NEW reply \in Replies, Fails(t, reply), reply = "object" => Finished(s)'
      PROVE  /\ task' \in [Tasks -> TaskRecs] /\ tab' \in [Tabs -> TabRecs]
             /\ \A x \in Tabs : Client(tab[x], task[x])'
  <2>1. Answer(t, reply, 0)
    BY <1>4 DEF Fails
  <2> QED
    BY <1>2, <1>3, <1>4, <2>1
<1>5. ASSUME NEW pc \in Places, Goes(t, pc)
      PROVE  /\ task' \in [Tasks -> TaskRecs] /\ tab' \in [Tabs -> TabRecs]
             /\ \A x \in Tabs : Client(tab[x], task[x])'
  BY <1>1, <1>5, PlaceStep DEF Goes
<1>6. /\ "unknown" \in Replies /\ "closed" \in Replies /\ "complete" \in Replies /\ "object" \in Replies
      /\ "mismatch" \in Replies /\ "backend" \in Replies /\ "rejected" \in Replies /\ "session" \in Replies
  BY DEF Replies
<1>7. /\ "read" \in Places /\ "expire" \in Places /\ "reconcile" \in Places /\ "write" \in Places /\ "move" \in Places
      /\ "remove" \in Places /\ "commit" \in Places
  BY DEF Places
<1>8. CASE Lock(t)
  <2>1. "read" \in Places /\ task' = [task EXCEPT ![t].pc = "read"] /\ UNCHANGED tab
    BY <1>7, <1>8 DEF Lock
  <2> QED
    BY <1>1, <2>1, PlaceStep
<1>9. CASE Read(t)
  <2>1. \/ Fails(t, "unknown") \/ Fails(t, "mismatch")
        \/ Status(s) = "complete" /\ (Fails(t, "object") \/ Fails(t, "complete"))
        \/ \E pc \in {"expire", "reconcile"} :
             /\ task' = [task EXCEPT ![t].pc = pc, ![t].seen = meta[s].offset]
             /\ UNCHANGED tab
    BY <1>9 DEF Read
  <2>2. CASE Fails(t, "unknown") \/ Fails(t, "mismatch")
    BY <1>1, <1>4, <1>6, <2>2
  <2>3. CASE Status(s) = "complete" /\ (Fails(t, "object") \/ Fails(t, "complete"))
    <3>1. meta[s].status = "complete" /\ object[s] = File
      BY <1>2, <2>3 DEF Status, Kept
    <3>2. task' = [task EXCEPT ![t] = NoTask] /\ UNCHANGED <<disk, late>> /\ Running(t)
      BY <1>9, <2>3 DEF Read, Fails, Answer, clock, Running
    <3>3. s <= made
      BY <1>2, <3>1, WasMade
    <3>4. Finished(s)'
      BY <1>1, <1>2, <3>1, <3>2, <3>3, Finishes DEF disk
    <3> QED
      BY <1>1, <1>4, <1>6, <2>3, <3>4
  <2>4. ASSUME NEW pc \in {"expire", "reconcile"},
               task' = [task EXCEPT ![t].pc = pc, ![t].seen = meta[s].offset], UNCHANGED tab
        PROVE  /\ task' \in [Tasks -> TaskRecs] /\ tab' \in [Tabs -> TabRecs]
               /\ \A x \in Tabs : Client(tab[x], task[x])'
    <3> SUFFICES ASSUME NEW q, q = [task[t] EXCEPT !.pc = pc, !.seen = meta[s].offset]
                 PROVE  /\ task' \in [Tasks -> TaskRecs] /\ tab' \in [Tabs -> TabRecs]
                        /\ \A x \in Tabs : Client(tab[x], task[x])'
      OBVIOUS
    <3>1. task' = [task EXCEPT ![t] = q] /\ UNCHANGED tab
      BY <2>4
    <3>2. meta[s].offset \in 0..Size
      BY <1>2 DEF Metas
    <3>3. q \in TaskShape /\ q.sess = task[t].sess /\ q.op = task[t].op
      BY <1>2, <1>7, <3>2 DEF TaskShape
    <3> QED
      BY <1>1, <3>1, <3>3, GoesStep
  <2> QED
    BY <1>1, <2>1, <2>2, <2>3, <2>4
<1>10. CASE Reconcile(t)
  <2>1. Fails(t, "backend") \/ Goes(t, "write") \/ Goes(t, "move") \/ Answer(t, "rejected", 0)
    BY <1>10 DEF Reconcile
  <2> QED
    BY <1>1, <1>2, <1>3, <1>4, <1>5, <1>6, <1>7, <2>1
<1>11. CASE Write(t) \/ Move(t) \/ Copy(t) \/ RemoveTemp(t)
  <2>1. Fails(t, "backend") \/ Goes(t, "commit") \/ Goes(t, "remove")
    BY <1>11 DEF Write, Move, Copy, RemoveTemp
  <2> QED
    BY <1>1, <1>4, <1>5, <1>6, <1>7, <2>1
<1>14. CASE PersistExpired(t) \/ WriteLost(t)
  <2>1. Answer(t, "closed", 0) \/ Fails(t, "backend")
    BY <1>14 DEF PersistExpired, WriteLost
  <2> QED
    BY <1>1, <1>2, <1>3, <1>4, <1>6, <2>1
<1>12. CASE CommitAppend(t)
  <2>1. CASE task' = [task EXCEPT ![t].op = "complete", ![t].pc = "admit"] /\ UNCHANGED tab
    <3> DEFINE q == [task[t] EXCEPT !.op = "complete", !.pc = "admit"]
    <3>1. task' = [task EXCEPT ![t] = q] /\ UNCHANGED tab
      BY <2>1
    <3>2. q \in TaskShape /\ q.sess = task[t].sess /\ q.op = "complete"
      BY <1>2 DEF TaskShape, Places
    <3> HIDE DEF q
    <3> QED
      BY <1>1, <3>1, <3>2, GoesStep
  <2>2. CASE Answer(t, "session", ChunkEnd(task[t].offset))
    <3>1. ChunkEnd(task[t].offset) \in 0..Size
      BY <1>2, ChunkFacts, SizesAssumption
    <3> SUFFICES ASSUME NEW n, n = ChunkEnd(task[t].offset)
                 PROVE  /\ task' \in [Tasks -> TaskRecs] /\ tab' \in [Tabs -> TabRecs]
                        /\ \A x \in Tabs : Client(tab[x], task[x])'
      BY <1>1
    <3> QED
      BY <1>3, <1>6, <2>2, <3>1
  <2> QED
    BY <1>12, <2>1, <2>2 DEF CommitAppend
<1>13. CASE CommitComplete(t)
  <2>1. /\ Answer(t, "session", task[t].seen) \/ Answer(t, "object", task[t].seen)
        /\ meta' = [meta EXCEPT ![s] = [status |-> "complete", offset |-> task[t].seen]]
    BY <1>13 DEF CommitComplete
  <2>2. Finished(s)'
    <3>1. meta'[s].status = "complete"
      BY <1>2, <2>1, Typed
    <3>2. /\ task' = [task EXCEPT ![t] = NoTask] /\ UNCHANGED <<object, late>> /\ Running(t)
          /\ task[t].pc = "commit" /\ task[t].op # "append"
      BY <1>13 DEF CommitComplete, Answer, clock, Running
    <3>3. object[s] = File /\ Unmoved(s, task[t].seen)
      BY <1>2, <3>2 DEF Ind, UnderWay, Stage
    <3>4. s <= made
      BY <1>2, <3>3, WasMade DEF Unmoved
    <3> QED
      BY <1>1, <1>2, <3>1, <3>2, <3>3, <3>4, Finishes
  <2> SUFFICES ASSUME NEW n, n = task[t].seen
               PROVE  /\ task' \in [Tasks -> TaskRecs] /\ tab' \in [Tabs -> TabRecs]
                      /\ \A x \in Tabs : Client(tab[x], task[x])'
    BY <1>1
  <2> QED
    BY <1>2, <1>3, <1>6, <2>1, <2>2
<1> QED
  BY <1>1, <1>8, <1>9, <1>10, <1>11, <1>12, <1>13, <1>14 DEF Blocks

\* What a sender makes of an answer.
LEMMA ReceiveTurns ==
  ASSUME Ind, Talk, NEW c \in Tabs, Receive(c)
  PROVE  /\ \/ \E ph \in Phases, se \in 0..made, of \in 0..Size :
                 /\ Turns(c, ph, se, of)
                 /\ ph = "done" /\ proto = "native" => se \in Sessions /\ Finished(se)
            \/ Again(c) /\ tab[c].phase \in {"patch", "complete"}
         /\ stored' \in 0..made
<1> DEFINE a == tab[c]
<1>1. /\ a \in TabRecs /\ a.sess \in 0..made /\ made \in Nat /\ stored \in 0..made
      /\ a.phase = "create" /\ a.reply = "session" => a.told \in 1..made
      /\ a.phase # "create" => a.told \in 0..Size
      /\ proto = "native" /\ a.reply = "object" => a.sess \in Sessions /\ Finished(a.sess)
  BY BoundsAssumption DEF Talk, Client, Counters
<1>2. a.offset \in 0..Size /\ 0 \in 0..Size /\ 0 \in 0..made
  BY <1>1, SizesAssumption DEF TabRecs
<1>3. ASSUME NEW ph \in Phases \ {"done"}, NEW se \in 0..made, NEW of \in 0..Size, Turns(c, ph, se, of)
      PROVE  \E p \in Phases, x \in 0..made, o \in 0..Size :
               /\ Turns(c, p, x, o)
               /\ p = "done" /\ proto = "native" => x \in Sessions /\ Finished(x)
  <2>1. ph \in Phases /\ ph # "done"
    OBVIOUS
  <2> QED
    BY <1>3, <2>1
<1>4. {"patch", "complete", "probe", "create", "resync", "failed"} \subseteq Phases \ {"done"} /\ "done" \in Phases
  BY DEF Phases
<1>5. ASSUME Continues(c, a.sess, a.told), a.phase # "create"
      PROVE  /\ \E p \in Phases, x \in 0..made, o \in 0..Size :
                  /\ Turns(c, p, x, o)
                  /\ p = "done" /\ proto = "native" => x \in Sessions /\ Finished(x)
             /\ stored' \in 0..made
  <2>1. CASE (Turns(c, "patch", a.sess, a.told) \/ Turns(c, "complete", a.sess, a.told)) /\ Keeps(c, a.sess)
    BY <1>1, <1>3, <1>4, <1>5, <2>1 DEF Keeps
  <2>2. CASE proto # "native" /\ Turns(c, "done", a.sess, a.told) /\ stored' = 0
    BY <1>1, <1>2, <1>4, <1>5, <2>2
  <2> QED
    BY <1>5, <2>1, <2>2 DEF Continues
<1>6. CASE GivesUp(c)
  <2>1. Turns(c, "failed", 0, 0) /\ stored' = stored
    BY <1>6 DEF GivesUp
  <2> QED
    BY <1>1, <1>2, <1>3, <1>4, <2>1
<1>7. CASE Loaded(c) /\ ~ GivesUp(c)
  <2>1. \/ Turns(c, "probe", a.sess, 0) /\ stored' = a.sess
        \/ Continues(c, a.sess, a.told) /\ a.phase # "create"
        \/ Turns(c, "create", 0, 0) /\ stored' = 0
    BY <1>7 DEF Loaded
  <2> QED
    BY <1>1, <1>2, <1>3, <1>4, <1>5, <2>1
<1>8. CASE Created(c) /\ ~ GivesUp(c)
  <2>1. /\ Turns(c, "probe", a.told, 0) \/ Turns(c, "patch", a.told, 0)
        /\ stored' = a.told /\ a.phase = "create" /\ a.reply = "session"
    BY <1>8 DEF Created
  <2>2. a.told \in 0..made
    BY <1>1, <2>1
  <2> QED
    BY <1>2, <1>3, <1>4, <2>1, <2>2
<1>9. CASE Inspected(c) /\ ~ GivesUp(c)
  <2>1. Continues(c, a.sess, a.told) /\ a.phase # "create"
    BY <1>9 DEF Inspected
  <2> QED
    BY <1>5, <2>1
<1>10. CASE Patched(c) /\ ~ GivesUp(c)
  <2>1. /\ a.phase = "patch"
        /\ \/ Continues(c, a.sess, a.told)
           \/ Turns(c, "resync", a.sess, a.offset) /\ stored' = stored
           \/ Again(c)
    BY <1>10 DEF Patched
  <2>2. CASE Again(c)
    BY <1>1, <2>1, <2>2 DEF Again, GivesUp
  <2> QED
    BY <1>1, <1>2, <1>3, <1>4, <1>5, <2>1, <2>2
<1>11. CASE Completed(c) /\ ~ GivesUp(c)
  <2>1. /\ a.phase = "complete"
        /\ \/ a.reply = "object" /\ Turns(c, "done", a.sess, a.offset) /\ stored' = 0
           \/ Again(c)
    BY <1>11 DEF Completed
  <2>2. CASE Again(c)
    BY <1>1, <2>1, <2>2 DEF Again, GivesUp
  <2>3. CASE a.reply = "object" /\ Turns(c, "done", a.sess, a.offset) /\ stored' = 0
    BY <1>1, <1>2, <1>4, <2>3
  <2> QED
    BY <2>1, <2>2, <2>3
<1> QED
  BY <1>6, <1>7, <1>8, <1>9, <1>10, <1>11 DEF Receive

\* What a sender does by itself.
LEMMA SenderTalks ==
  ASSUME ~ Detach, Ind, Talk, Next, NEW c \in Tabs,
         Send(c) \/ Receive(c) \/ Drop(c) \/ LoseAnswer(c) \/ Reload(c)
  PROVE  /\ task' \in [Tasks -> TaskRecs] /\ tab' \in [Tabs -> TabRecs]
         /\ \A x \in Tabs : Client(tab[x], task[x])'
<1>1. /\ UNCHANGED <<proto, made, meta>> /\ c \in Tasks /\ made \in Nat /\ made <= made' /\ made' \in Nat
      /\ made \in 0..MaxSessions /\ stored \in 0..made /\ MaxSessions \in Nat /\ Size \in Nat
      /\ RetryLimit \in Nat
  BY BoundsAssumption, SizesAssumption
     DEF Send, Receive, Drop, LoseAnswer, Reload, disk, bounds, clock, Tasks, Talk, Counters
<1> SUFFICES ASSUME NEW a, a = tab[c], NEW b, b = task[c]
             PROVE  /\ task' \in [Tasks -> TaskRecs] /\ tab' \in [Tabs -> TabRecs]
                    /\ \A x \in Tabs : Client(tab[x], task[x])'
  OBVIOUS
<1>2. Client(a, b) /\ a \in TabRecs /\ b \in TaskRecs /\ (a.reply # "none" => b.pc = Free)
  BY <1>1 DEF Talk, Client
<1>3. NoTask \in TaskRecs /\ NoTask.pc = Free
  <2>1. 0 \in 0..MaxSessions /\ 0 \in 0..Size
    BY <1>1
  <2> QED
    BY <2>1 DEF NoTask, TaskRecs, TaskShape, Places
<1>4. task = [task EXCEPT ![c] = b]
  BY <1>1 DEF Talk
<1>5. \A r : tab' = [tab EXCEPT ![c] = r] /\ Client(r, b)' /\ task' = [task EXCEPT ![c] = b]
             => /\ task' \in [Tasks -> TaskRecs] /\ tab' \in [Tabs -> TabRecs]
                /\ \A x \in Tabs : Client(tab[x], task[x])'
  BY <1>1, <1>2, OneClient
<1>6. \A r : tab' = [tab EXCEPT ![c] = r] /\ Client(r, NoTask)' /\ task' = [task EXCEPT ![c] = NoTask]
             => /\ task' \in [Tasks -> TaskRecs] /\ tab' \in [Tabs -> TabRecs]
                /\ \A x \in Tabs : Client(tab[x], task[x])'
  BY <1>1, <1>3, OneClient
<1>7. ASSUME NEW q, q.pc = Free, NEW ph \in Phases, NEW se \in 0..made, NEW of \in 0..Size,
             ph = "done" /\ proto = "native" => se \in Sessions /\ Finished(se),
             NEW r, r = [phase |-> ph, sess |-> se, offset |-> of, tries |-> 0, reply |-> "none", told |-> 0]
      PROVE  Client(r, q)'
  <2>1. r.phase = ph /\ r.sess = se /\ r.reply = "none" /\ r.told = 0
    BY <1>7
  <2>2. /\ se \in 0..MaxSessions /\ 0 \in 0..RetryLimit /\ 0 \in 0..(Size + MaxSessions)
        /\ 0 \in 0..Size /\ "none" \in Replies
    BY <1>1 DEF Replies
  <2>3. r \in TabRecs
    BY <1>7, <2>2 DEF TabRecs
  <2>4. made' = made /\ proto' = proto /\ (se \in Sessions /\ Finished(se) => Finished(se)')
    BY <1>1, FinishedStays
  <2> QED
    BY <1>7, <2>1, <2>2, <2>3, <2>4 DEF Client
<1>14. ASSUME NEW q, q.pc = Free, NEW ph \in Phases, NEW se \in 0..made, NEW of \in 0..Size,
              ph = "done" /\ proto = "native" => se \in Sessions /\ Finished(se)
       PROVE  Client([Idle EXCEPT !.phase = ph, !.sess = se, !.offset = of], q)'
  <2> SUFFICES ASSUME NEW r, r = [Idle EXCEPT !.phase = ph, !.sess = se, !.offset = of]
               PROVE  Client(r, q)'
    OBVIOUS
  <2>1. r = [phase |-> ph, sess |-> se, offset |-> of, tries |-> 0, reply |-> "none", told |-> 0]
    BY DEF Idle
  <2> QED
    BY <1>7, <1>14, <2>1
<1>8. CASE Send(c)
  <2> DEFINE ph == IF stored = 0 THEN "create" ELSE "load"
  <2>1. /\ tab' = [tab EXCEPT ![c] = [Idle EXCEPT !.phase = ph, !.sess = stored]]
        /\ task' = task /\ a.phase \in {"idle", "done", "failed"}
    BY <1>8 DEF Send, server, Active
  <2>2. b.pc = Free
    BY <1>2, <2>1 DEF Client
  <2>3. ph \in Phases /\ ph # "done"
    BY DEF Phases
  <2> HIDE DEF ph
  <2> SUFFICES ASSUME NEW se, se = stored, NEW p, p = ph,
                      NEW r, r = [Idle EXCEPT !.phase = p, !.sess = se]
               PROVE  /\ task' \in [Tasks -> TaskRecs] /\ tab' \in [Tabs -> TabRecs]
                      /\ \A x \in Tabs : Client(tab[x], task[x])'
    OBVIOUS
  <2>4. r = [phase |-> p, sess |-> se, offset |-> 0, tries |-> 0, reply |-> "none", told |-> 0]
    BY DEF Idle
  <2>5. 0 \in 0..Size
    BY <1>1
  <2>6. Client(r, b)'
    BY <1>1, <1>7, <2>2, <2>3, <2>4, <2>5
  <2>7. tab' = [tab EXCEPT ![c] = r]
    BY <2>1
  <2> QED
    BY <1>4, <1>5, <2>1, <2>6, <2>7
<1>9. CASE Receive(c)
  <2>1. b.pc = Free /\ task' = task
    BY <1>2, <1>9 DEF Receive, server
  <2>2. CASE \E ph \in Phases, se \in 0..made, of \in 0..Size :
               /\ Turns(c, ph, se, of)
               /\ ph = "done" /\ proto = "native" => se \in Sessions /\ Finished(se)
    <3>1. PICK ph \in Phases, se \in 0..made, of \in 0..Size :
            /\ Turns(c, ph, se, of)
            /\ ph = "done" /\ proto = "native" => se \in Sessions /\ Finished(se)
      BY <2>2
    <3>2. Client([Idle EXCEPT !.phase = ph, !.sess = se, !.offset = of], b)'
      BY <1>14, <2>1, <3>1
    <3> QED
      BY <1>4, <1>5, <2>1, <3>1, <3>2 DEF Turns
  <2>3. CASE Again(c) /\ a.phase \in {"patch", "complete"}
    <3> SUFFICES ASSUME NEW r, r = [a EXCEPT !.reply = "none", !.told = 0, !.tries = @ + 1]
                 PROVE  /\ task' \in [Tasks -> TaskRecs] /\ tab' \in [Tabs -> TabRecs]
                        /\ \A x \in Tabs : Client(tab[x], task[x])'
      OBVIOUS
    <3>1. CASE a.tries < RetryLimit
      <4>1. tab' = [tab EXCEPT ![c] = r]
        <5>1. tab' = [tab EXCEPT ![c].reply = "none", ![c].told = 0, ![c].tries = a.tries + 1]
          <6>1. ~ (tab[c].tries >= RetryLimit)
            BY <1>1, <1>2, <3>1 DEF TabRecs
          <6> QED
            BY <2>3, <6>1 DEF Again
        <5> QED
          BY <5>1 DEF Talk
      <4>2. /\ r.reply = "none" /\ r.told = 0 /\ r.sess = a.sess /\ r.offset = a.offset
            /\ r.phase = a.phase /\ r.tries = a.tries + 1
            /\ r = [phase |-> r.phase, sess |-> r.sess, offset |-> r.offset, tries |-> r.tries,
                    reply |-> r.reply, told |-> r.told]
        BY <1>2, <3>1 DEF TabRecs
      <4>3. /\ r.tries \in 0..RetryLimit /\ "none" \in Replies /\ 0 \in 0..(Size + MaxSessions)
        BY <1>1, <1>2, <3>1, <4>2 DEF TabRecs, Replies
      <4>4. r \in TabRecs
        BY <1>2, <4>2, <4>3 DEF TabRecs
      <4>5. Client(r, b)'
        BY <1>1, <1>2, <2>1, <2>3, <4>2, <4>4 DEF Client
      <4> QED
        BY <1>4, <1>5, <2>1, <4>1, <4>5
    <3>2. CASE ~ (a.tries < RetryLimit)
      <4>1. Turns(c, "failed", 0, 0) /\ "failed" \in Phases /\ 0 \in 0..made /\ 0 \in 0..Size
        BY <1>1, <1>2, <2>3, <3>2 DEF Again, GivesUp, Phases, TabRecs
      <4> QED
        BY <2>2, <4>1
    <3> QED
      BY <3>1, <3>2
  <2> QED
    BY <1>9, <2>2, <2>3, ReceiveTurns
<1>10. ASSUME NEW q, q.pc = Free PROVE Client([a EXCEPT !.reply = "network", !.told = 0], q)'
  <2> SUFFICES ASSUME NEW r, r = [a EXCEPT !.reply = "network", !.told = 0] PROVE Client(r, q)'
    OBVIOUS
  <2>1. "network" \in Replies /\ 0 \in 0..(Size + MaxSessions) /\ 0 \in 0..Size
    BY <1>1 DEF Replies
  <2>2. /\ r \in TabRecs /\ r.reply = "network" /\ r.told = 0 /\ r.sess = a.sess /\ r.phase = a.phase
    BY <1>2, <2>1 DEF TabRecs
  <2>3. a.sess \in Sessions /\ Finished(a.sess) => Finished(a.sess)'
    BY FinishedStays
  <2> QED
    BY <1>1, <1>2, <1>10, <2>1, <2>2, <2>3 DEF Client
<1>11. CASE Drop(c)
  <2>1. /\ tab' = [tab EXCEPT ![c] = [a EXCEPT !.reply = "network", !.told = 0]]
        /\ task' = [task EXCEPT ![c] = NoTask]
    <3>1. tab' = Told(c, "network", 0) /\ Dropped(c) /\ ~ Running(c)
      BY <1>11 DEF Drop, Dropped, Droppable
    <3> QED
      BY <3>1 DEF Dropped, Told
  <2> QED
    BY <1>3, <1>6, <1>10, <2>1
<1>12. CASE LoseAnswer(c)
  <2>1. /\ tab' = [tab EXCEPT ![c] = [a EXCEPT !.reply = "network", !.told = 0]]
        /\ task' = task /\ b.pc = Free
    BY <1>2, <1>12 DEF LoseAnswer, Told, server
  <2> QED
    BY <1>4, <1>5, <1>10, <2>1
<1>13. CASE Reload(c)
  <2>1. "idle" \in Phases /\ 0 \in 0..made /\ 0 \in 0..Size
    <3>1. 0 \in 0..made /\ 0 \in 0..Size
      BY <1>1
    <3> QED
      BY <3>1 DEF Phases
  <2>2. ASSUME NEW q, q.pc = Free PROVE Client(Idle, q)'
    <3> SUFFICES ASSUME NEW r, r = Idle PROVE Client(r, q)'
      OBVIOUS
    <3>1. r = [phase |-> "idle", sess |-> 0, offset |-> 0, tries |-> 0, reply |-> "none", told |-> 0]
      BY DEF Idle
    <3> QED
      BY <1>7, <2>1, <2>2, <3>1
  <2>3. tab' = [tab EXCEPT ![c] = Idle]
    BY <1>13 DEF Reload
  <2>4. CASE Waits(c)
    <3>1. task' = [task EXCEPT ![c] = NoTask]
      BY <1>13, <2>4 DEF Reload, Dropped, Droppable
    <3> QED
      BY <1>3, <1>6, <2>2, <2>3, <3>1
  <2>5. CASE ~ Waits(c)
    <3>1. task' = task /\ a.reply # "none"
      BY <1>13, <2>5 DEF Reload, Waits, server
    <3> QED
      BY <1>2, <1>4, <1>5, <2>2, <2>3, <3>1
  <2> QED
    BY <2>4, <2>5
<1> QED
  BY <1>8, <1>9, <1>11, <1>12, <1>13

\* The server stops: whoever waited is told nothing.
LEMMA CrashTalks ==
  ASSUME Ind, Talk, Crash, Next
  PROVE  /\ task' \in [Tasks -> TaskRecs] /\ tab' \in [Tabs -> TabRecs]
         /\ \A x \in Tabs : Client(tab[x], task[x])'
<1>1. /\ task' = [t \in Tasks |-> NoTask] /\ UNCHANGED <<proto, made, meta>>
      /\ tab' = [c \in Tabs |-> IF Waits(c) THEN [tab[c] EXCEPT !.reply = "network", !.told = 0] ELSE tab[c]]
      /\ 0 \in 0..MaxSessions /\ 0 \in 0..Size /\ 0 \in 0..(Size + MaxSessions) /\ "network" \in Replies
  <2>1. MaxSessions \in Nat /\ Size \in Nat
    BY BoundsAssumption, SizesAssumption
  <2>2. 0 \in 0..MaxSessions /\ 0 \in 0..Size /\ 0 \in 0..(Size + MaxSessions)
    BY <2>1
  <2>3. "network" \in Replies
    BY DEF Replies
  <2>4. /\ task' = [t \in Tasks |-> NoTask] /\ UNCHANGED <<proto, made, meta>>
        /\ tab' = [c \in Tabs |-> IF Waits(c) THEN [tab[c] EXCEPT !.reply = "network", !.told = 0] ELSE tab[c]]
    BY DEF Crash
  <2> QED
    BY <2>2, <2>3, <2>4
<1>2. NoTask \in TaskRecs /\ NoTask.pc = Free
  BY <1>1 DEF NoTask, TaskRecs, TaskShape, Places
<1>3. ASSUME NEW c \in Tabs, NEW r, r = tab'[c] PROVE Client(r, NoTask)' /\ r \in TabRecs
  <2> SUFFICES ASSUME NEW a, a = tab[c] PROVE Client(r, NoTask)' /\ r \in TabRecs
    OBVIOUS
  <2>1. /\ Client(a, task[c]) /\ a \in TabRecs
        /\ a.sess \in Sessions /\ Finished(a.sess) => Finished(a.sess)'
    BY FinishedStays DEF Talk
  <2>2. CASE Waits(c)
    <3>1. r = [a EXCEPT !.reply = "network", !.told = 0]
      BY <1>1, <1>3, <2>2
    <3>2. r \in TabRecs /\ r.reply = "network" /\ r.told = 0 /\ r.sess = a.sess /\ r.phase = a.phase
      BY <1>1, <2>1, <3>1 DEF TabRecs
    <3> QED
      BY <1>1, <1>2, <2>1, <3>2 DEF Client, NoTask
  <2>3. CASE ~ Waits(c)
    <3>1. r = a
      BY <1>1, <1>3, <2>3
    <3> QED
      BY <1>1, <1>2, <2>1, <3>1 DEF Client, NoTask
  <2> QED
    BY <2>2, <2>3
<1>4. ASSUME NEW c \in Tabs PROVE Client(tab[c], task[c])' /\ tab'[c] \in TabRecs
  <2> SUFFICES ASSUME NEW r, r = tab'[c], NEW q, q = task'[c] PROVE Client(r, q)' /\ r \in TabRecs
    OBVIOUS
  <2>1. q = NoTask
    BY <1>1 DEF Tasks
  <2> QED
    BY <1>3, <2>1
<1>5. tab' \in [Tabs -> TabRecs]
  BY <1>1, <1>4
<1> QED
  BY <1>1, <1>2, <1>4, <1>5

\* The numbers, and who holds what.
LEMMA CountersKept ==
  ASSUME Ind, Talk, Next PROVE Counters' /\ holder' \in [Sessions -> Tasks \cup {Free}]
<1>1. /\ MaxSessions \in Nat /\ MaxSends \in Nat /\ MaxCrashes \in Nat /\ MaxLost \in Nat
      /\ made \in 0..MaxSessions /\ stored \in 0..made /\ sends \in 0..MaxSends
      /\ crashes \in 0..MaxCrashes /\ lost \in 0..MaxLost /\ proto \in {"native", "tus"}
      /\ holder \in [Sessions -> Tasks \cup {Free}]
  BY BoundsAssumption DEF Talk, Counters
<1>2. Counters'
  <2>1. ASSUME NEW t \in Tasks, Initiate(t) PROVE Counters'
    <3>1. (made' = made \/ (made < MaxSessions /\ made' = made + 1))
          /\ UNCHANGED <<proto, stored, sends, crashes, lost>>
      BY <2>1 DEF Initiate
    <3>2. made' \in 0..MaxSessions /\ stored' \in 0..made'
      BY <1>1, <3>1
    <3> QED
      BY <1>1, <3>1, <3>2 DEF Counters
  <2>2. ASSUME NEW c \in Tabs, Send(c) PROVE Counters'
    BY <1>1, <2>2 DEF Send, Counters
  <2>3. ASSUME NEW c \in Tabs, Receive(c) PROVE Counters'
    <3>1. stored' \in 0..made
      BY <2>3, ReceiveTurns
    <3> QED
      BY <1>1, <2>3, <3>1 DEF Receive, bounds, clock, Counters
  <2>4. ASSUME NEW c \in Tabs, Drop(c) \/ LoseAnswer(c) \/ Reload(c) PROVE Counters'
    <3>1. UNCHANGED <<proto, stored, made, sends, crashes>> /\ lost < MaxLost /\ lost' = lost + 1
      BY <2>4 DEF Drop, LoseAnswer, Reload
    <3>2. lost' \in 0..MaxLost
      BY <1>1, <3>1
    <3> QED
      BY <1>1, <3>1, <3>2 DEF Counters
  <2>5. CASE Crash
    <3>1. UNCHANGED <<proto, stored, made, sends, lost>> /\ crashes < MaxCrashes /\ crashes' = crashes + 1
      BY <2>5 DEF Crash
    <3>2. crashes' \in 0..MaxCrashes
      BY <1>1, <3>1
    <3> QED
      BY <1>1, <3>1, <3>2 DEF Counters
  <2>6. CASE UNCHANGED <<proto, stored, bounds>>
    BY <1>1, <2>6 DEF bounds, clock, Counters
  <2>7. \/ UNCHANGED <<proto, stored, bounds>>
        \/ \E t \in Tasks : Initiate(t)
        \/ \E c \in Tabs : Send(c) \/ Receive(c) \/ Drop(c) \/ LoseAnswer(c) \/ Reload(c)
        \/ Crash
    BY DEF Next, Works, Admit, Lock, Blocks, Read, PersistExpired, WriteLost, Reconcile, Write, CommitAppend,
           Move, Copy, RemoveTemp, CommitComplete, Expire, SweepRead, SweepUnlink
  <2> QED
    BY <2>1, <2>2, <2>3, <2>4, <2>5, <2>6, <2>7
<1>3. holder' \in [Sessions -> Tasks \cup {Free}]
  <2>1. ASSUME NEW t \in Tasks, Lock(t) PROVE holder' \in [Sessions -> Tasks \cup {Free}]
    BY <1>1, <2>1 DEF Lock
  <2>2. ASSUME NEW t, Unlock(t) PROVE holder' \in [Sessions -> Tasks \cup {Free}]
    BY <1>1, <2>2 DEF Unlock
  <2>3. CASE Crash
    BY <2>3 DEF Crash
  <2>4. \/ holder' = holder \/ Crash
        \/ \E t \in Tasks : Lock(t) \/ Unlock(t)
    <3>1. ASSUME NEW t \in Tasks, Works(t) \/ Blocks(t) PROVE holder' = holder \/ Lock(t) \/ Unlock(t)
      BY <3>1 DEF Works, Initiate, Admit, Blocks, Read, PersistExpired, WriteLost, Reconcile, Write, CommitAppend,
                  Move, Copy, RemoveTemp, CommitComplete, Fails, Goes
    <3>2. ASSUME NEW s \in Sessions, Expire(s) \/ SweepRead(s) \/ SweepUnlink(s)
          PROVE  holder' = holder
      BY <3>2 DEF Expire, SweepRead, SweepUnlink, server
    <3>3. ASSUME NEW c \in Tabs, Send(c) \/ Receive(c) \/ Drop(c) \/ LoseAnswer(c) \/ Reload(c)
          PROVE  holder' = holder \/ Unlock(c)
      BY <3>3 DEF Send, Receive, Drop, LoseAnswer, Reload, Dropped, server
    <3> QED
      BY <3>1, <3>2, <3>3 DEF Next, Tasks
  <2> QED
    BY <1>1, <2>1, <2>2, <2>3, <2>4
<1> QED
  BY <1>2, <1>3

LEMMA TalkKept ==
  ASSUME ~ Detach, Ind, Talk, Kept, Next PROVE Talk'
<1>1. /\ task' \in [Tasks -> TaskRecs] /\ tab' \in [Tabs -> TabRecs]
      /\ \A x \in Tabs : Client(tab[x], task[x])'
  <2>1. ASSUME NEW t \in Tasks, Works(t) \/ Blocks(t)
        PROVE  /\ task' \in [Tasks -> TaskRecs] /\ tab' \in [Tabs -> TabRecs]
               /\ \A x \in Tabs : Client(tab[x], task[x])'
    BY <2>1, InitiateTalks, AdmitTalks, BlocksTalk DEF Works
  <2>2. ASSUME NEW s \in Sessions, Expire(s) \/ SweepRead(s) \/ SweepUnlink(s)
        PROVE  /\ task' \in [Tasks -> TaskRecs] /\ tab' \in [Tabs -> TabRecs]
               /\ \A x \in Tabs : Client(tab[x], task[x])'
    <3>1. UNCHANGED <<proto, tab, task, made>>
      BY <2>2 DEF Expire, SweepRead, SweepUnlink, server, bounds
    <3>2. ASSUME NEW c \in Tabs PROVE Client(tab[c], task[c])'
      <4> SUFFICES ASSUME NEW a, a = tab[c], NEW b, b = task[c] PROVE Client(a, b)'
        BY <3>1
      <4>1. Client(a, b)
        BY DEF Talk
      <4>2. a.sess \in Sessions /\ Finished(a.sess) => Finished(a.sess)'
        BY FinishedStays
      <4> QED
        BY <3>1, <4>1, <4>2 DEF Client
    <3> QED
      BY <3>1, <3>2 DEF Talk
  <2> QED
    BY <2>1, <2>2, SenderTalks, CrashTalks DEF Next
<1> QED
  BY <1>1, CountersKept DEF Talk

LEMMA InitTalks == Init => Talk /\ Kept
<1> SUFFICES ASSUME Init PROVE Talk /\ Kept
  OBVIOUS
<1>1. /\ 0 \in 0..MaxSessions /\ 0 \in 0..Size /\ 0 \in 0..(Size + MaxSessions) /\ 0 \in 0..RetryLimit
      /\ 0 \in 0..MaxSends /\ 0 \in 0..MaxCrashes /\ 0 \in 0..MaxLost /\ 0 \in 0..0
  BY BoundsAssumption, SizesAssumption
<1>2. NoTask \in TaskRecs /\ NoTask.pc = Free
  BY <1>1 DEF NoTask, TaskRecs, TaskShape, Places
<1>3. Idle \in TabRecs
  BY <1>1 DEF Idle, TabRecs, Phases, Replies
<1>4. \A c \in Tabs : Client(tab[c], task[c])
  BY <1>1, <1>2, <1>3 DEF Init, Client, Idle, Tasks
<1>5. Talk
  BY <1>1, <1>2, <1>3, <1>4 DEF Init, Talk, Counters
<1> QED
  BY <1>5 DEF Init, Kept

\* All of it, as one invariant.
LEMMA Inductive ==
  ASSUME ~ Detach PROVE Spec => [](Ind /\ Talk /\ Kept)
<1>1. Ind /\ Talk /\ Kept /\ [Next]_vars => (Ind /\ Talk /\ Kept)'
  <2>1. ASSUME Ind, Talk, Kept, Next PROVE Ind' /\ Talk' /\ Kept'
    BY <2>1, NextKeeps, TalkKept, KeptKept
  <2>2. ASSUME Ind, Talk, Kept, UNCHANGED vars PROVE Ind' /\ Talk' /\ Kept'
    <3>1. Ind'
      BY <2>2, NextKeeps
    <3>2. Talk'
      BY <2>2 DEF vars, disk, server, bounds, clock, Talk, Counters, Client, Finished
    <3>3. Kept'
      BY <2>2 DEF vars, disk, Kept
    <3> QED
      BY <3>1, <3>2, <3>3
  <2> QED
    BY <2>1, <2>2
<1> QED
  BY <1>1, InitKeeps, InitTalks, PTL DEF Spec

\* Offsets never pass the size of the file nor sessions the number made, whoever
\* answers what to whom, and no file of the server grows longer than the upload: with
\* the mutex in force (no connection drops while its blocking task runs).
THEOREM TypeCorrect == ASSUME ~ Detach PROVE Spec => []TypeOK
<1>1. Ind /\ Talk /\ Kept => TypeOK
  <2> SUFFICES ASSUME Ind, Talk, Kept PROVE TypeOK
    OBVIOUS
  <2>1. ASSUME NEW f, Fits(f) PROVE f \in Bytes
    <3>1. Len(f) \in 0..Size /\ f \in [1..Len(f) -> 1..Size]
      BY <2>1, LenProperties, SizesAssumption DEF Fits
    <3> QED
      BY <3>1 DEF Bytes
  <2>2. \A s \in Sessions : tmp[s] = Gone \/ tmp[s] \in Bytes
    BY <2>1 DEF Kept
  <2>3. \A s \in Sessions : object[s] = Gone \/ object[s] \in Bytes
    BY <2>1, FitsFacts DEF Ind, Saved
  <2>4. meta \in [Sessions -> [status : {"none", "open", "expired", "complete"}, offset : 0..Size]]
        /\ late \subseteq 1..made /\ sweeping \subseteq late
    BY DEF Ind, Shape, Metas
  <2>5. task \in [Tasks -> [op : {"none", "inspect", "initiate", "append", "complete"}, sess : 0..MaxSessions,
                            offset : 0..Size, seen : 0..Size,
                            pc : {Free, "admit", "lock", "read", "expire", "reconcile", "write", "move", "remove", "commit"}]]
    BY DEF Talk, TaskRecs, TaskShape, Places
  <2> QED
    BY <2>2, <2>3, <2>4, <2>5 DEF TypeOK, Talk, Counters, TabRecs
<1> QED
  BY <1>1, Inductive, PTL

\* The native sender reports success only for an object that is there and whole, of a
\* session that is recorded as complete for as long as it is recorded: whichever answers
\* were lost, requests repeated and sessions resumed by another tab before, and even when
\* a sweep had read the session before it was completed and removes it afterwards, which
\* can happen only when its time is over (complete_upload, sweep_expired_uploads and the
\* resume loop of the upload client), with the mutex in force.
THEOREM DoneHasObjectHolds == ASSUME ~ Detach PROVE Spec => []DoneHasObject
<1>1. Talk => DoneHasObject
  <2> SUFFICES ASSUME Talk, NEW c \in Tabs, proto = "native", tab[c].phase = "done"
               PROVE  /\ object[tab[c].sess] = File
                      /\ \/ meta[tab[c].sess].status = "complete"
                         \/ meta[tab[c].sess].status = "none" /\ tab[c].sess \in late
    BY DEF DoneHasObject
  <2>1. Client(tab[c], task[c])
    BY DEF Talk
  <2> QED
    BY <2>1 DEF Client, Finished
<1> QED
  BY <1>1, Inductive, PTL

=============================================================================
