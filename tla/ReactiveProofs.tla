---------------------------- MODULE ReactiveProofs ----------------------------
(***************************************************************************)
(* Proofs about Reactive, for every Program and any number of slots: its   *)
(* type invariant, the soundness of ids and edges (GraphSound) and of the  *)
(* flushes (FlushSound), and that no update is missed (NoMissedUpdate).    *)
(*                                                                         *)
(* GraphSound is not inductive by itself: it rests on who minted an id     *)
(* (Minted, Owned), on the ids of the frames (FrameGood) and on every id   *)
(* occurring once in a subscriber set and in the queue; FlushSound rests   *)
(* on which calls can be under which (StackGood) and on run counts having  *)
(* a flush behind them (RunsBacked).                                       *)
(*                                                                         *)
(* NoMissedUpdate (from "No update is missed" on) rests on what a write    *)
(* will reach: an effect that nothing is due for is covered, so that each  *)
(* signal under its last run still leads to it (Watched, Running).  It     *)
(* holds of programs in which no computed is re-entered while it runs      *)
(* (NoReentry), such as those whose computeds read each other in no circle *)
(* (Acyclic).                                                              *)
(***************************************************************************)
EXTENDS Reactive, FiniteSetTheorems, SequenceTheorems, TLAPS

UserOps == {"event", "body", "cleanup"}

\* A generation of a slot belongs to the effect it was minted for: it is over, or the
\* effect is still in the slot.
Minted ==
  \A e \in Effects : idOf[e] # NoId =>
    \/ idOf[e].gen < gens[idOf[e].slot]
    \/ idOf[e].gen = gens[idOf[e].slot] /\ slab[idOf[e].slot] = e

\* Who occupies a slot holds the id of its current generation.
Owned ==
  \A s \in Slots : slab[s] # NoOne =>
    slab[s] \in Effects /\ idOf[slab[s]] = [slot |-> s, gen |-> gens[s]]

\* No generation was skipped, so a slot has no more of them than there are effects.
Filled ==
  \A s \in Slots : \A g \in Nat :
    g < gens[s] => \E e \in Effects : idOf[e] = [slot |-> s, gen |-> g]

\* A frame that runs an effect holds the id of that effect.
FrameGood(f, ids) ==
  f.op \in {"clean", "body"} => f.eff \in Effects /\ ids[f.eff] # NoId /\ f.id = ids[f.eff]

Batches(f) == f.op \in UserOps /\ f.batch

\* What can be under what: a get has its reader below it, a dispatch calls no user
\* code, and nobody drains inside a batch.
StackGood(stk, ids) ==
  /\ stk \in Seq(Frames)
  /\ \A i \in 1..Len(stk) : FrameGood(stk[i], ids)
  /\ \A i \in 1..Len(stk) : stk[i].op = "get" => i > 1 /\ stk[i - 1].op \in UserOps
  /\ \A i \in 1..Len(stk) : stk[i].op = "dispatch" => i = Len(stk)
  /\ \A i \in 1..Len(stk) : stk[i].op = "flush" => \A j \in 1..i - 1 : ~ Batches(stk[j])

\* Each element occurs once: what an IndexSet promises.
Once(s) == \A i, j \in 1..Len(s) : s[i] = s[j] => i = j

\* Every subscription is of an id that some effect holds.
SubsKnown ==
  \A x \in Sources : /\ Once(subs[x])
                     /\ \A i \in 1..Len(subs[x]) : \E e \in Effects : idOf[e] = subs[x][i]

QueueGood == Once(queue) /\ \A i \in 1..Len(queue) : Live(queue[i])

\* Somebody has been counted: a flush is under way, or one is scheduled that will end
\* the cascade.
RunsBacked == (\E id \in Ids : runs[id] # 0) => Holding("flush") # {} \/ flag

Tables  == /\ slab \in [Slots -> Effects \cup {NoOne}] /\ gens \in [Slots -> Generations]
           /\ idOf \in [Effects -> Ids \cup {NoId}]
           /\ Minted /\ Owned /\ Filled
Graph   == /\ deps \in [Effects -> SUBSET Sources] /\ subs \in [Sources -> Seq(Ids)]
           /\ SubsKnown /\ EdgesAgree
Queue   == queue \in Seq(Ids) /\ QueueGood
Flags   == /\ open \subseteq Effects /\ dirty \subseteq Computeds /\ gone \subseteq Signals
           /\ worklist \in Seq(Computeds)
           /\ basis \in [Effects -> SUBSET Signals] /\ lag \subseteq Effects /\ muted \subseteq Effects
           /\ early \in 0..MaxEarly
Counts  == runs \in [Ids -> 0..MaxReruns + 1] /\ flag \in BOOLEAN /\ micro \in Nat
Calling == StackGood(stack, idOf)
Flushes == QueueIsScheduled /\ RunsBacked

IInv == Tables /\ Graph /\ Queue /\ Flags /\ Counts /\ Calling /\ Flushes

-----------------------------------------------------------------------------
(***************************************************************************)
(* Sequences.                                                              *)
(***************************************************************************)

LEMMA AppendFacts ==
  ASSUME NEW S, NEW s \in Seq(S), NEW x \in S
  PROVE  /\ Append(s, x) \in Seq(S) /\ Append(s, x) # <<>>
         /\ Len(Append(s, x)) = Len(s) + 1
         /\ \A i \in 1..Len(s) : Append(s, x)[i] = s[i]
         /\ Append(s, x)[Len(s) + 1] = x
  OBVIOUS

LEMMA FrontFacts ==
  ASSUME NEW S, NEW s \in Seq(S), s # <<>>
  PROVE  /\ Len(s) \in Nat /\ Len(s) > 0
         /\ Front(s) \in Seq(S) /\ Len(Front(s)) = Len(s) - 1
         /\ \A i \in 1..Len(s) - 1 : Front(s)[i] = s[i]
         /\ Last(s) = s[Len(s)] /\ Last(s) \in S
<1>1. Len(s) \in Nat /\ Len(s) > 0
  OBVIOUS
<1>2. Front(s) = SubSeq(s, 1, Len(s) - 1)
  BY DEF Front
<1>3. SubSeq(s, 1, Len(s) - 1) \in Seq(S)
  BY <1>1
<1>4. Len(SubSeq(s, 1, Len(s) - 1)) = Len(s) - 1
  <2> DEFINE n == Len(s) - 1
  <2>0. n \in Int /\ n >= 0 /\ \A i \in 1..n : s[i] \in S
    BY <1>1
  <2> HIDE DEF n
  <2>1. Len(SubSeq(s, 1, n)) = IF 1 <= n THEN n - 1 + 1 ELSE 0
    BY <2>0, SubSeqProperties
  <2>2. Len(SubSeq(s, 1, n)) = n
    BY <2>0, <2>1
  <2> QED BY <2>2 DEF n
<1>5. \A i \in 1..Len(s) - 1 : SubSeq(s, 1, Len(s) - 1)[i] = s[i]
  BY <1>1
<1>6. Last(s) = s[Len(s)] /\ Last(s) \in S
  BY <1>1 DEF Last
<1> QED BY <1>1, <1>2, <1>3, <1>4, <1>5, <1>6

LEMMA TailFacts ==
  ASSUME NEW S, NEW s \in Seq(S), s # <<>>
  PROVE  Tail(s) \in Seq(S) /\ Head(s) \in S
  OBVIOUS

\* Of a sequence whose elements occur once, RemoveFirst takes the element away and
\* leaves the others, each still occurring once.
LEMMA RemoveFacts ==
  ASSUME NEW S, NEW s \in Seq(S), Once(s), NEW x
  PROVE  /\ RemoveFirst(s, x) \in Seq(S) /\ Once(RemoveFirst(s, x))
         /\ \A i \in 1..Len(RemoveFirst(s, x)) :
              RemoveFirst(s, x)[i] # x /\ \E j \in 1..Len(s) : s[j] = RemoveFirst(s, x)[i]
         /\ \A j \in 1..Len(s) :
              s[j] # x => \E i \in 1..Len(RemoveFirst(s, x)) : RemoveFirst(s, x)[i] = s[j]
<1>1. CASE \A i \in 1..Len(s) : s[i] # x
  <2>1. RemoveFirst(s, x) = s
    BY <1>1 DEF RemoveFirst
  <2> QED BY <1>1, <2>1
<1>2. ASSUME NEW k \in 1..Len(s), s[k] = x
      PROVE  /\ RemoveFirst(s, x) \in Seq(S) /\ Once(RemoveFirst(s, x))
             /\ \A i \in 1..Len(RemoveFirst(s, x)) :
                  RemoveFirst(s, x)[i] # x /\ \E j \in 1..Len(s) : s[j] = RemoveFirst(s, x)[i]
             /\ \A j \in 1..Len(s) :
                  s[j] # x => \E i \in 1..Len(RemoveFirst(s, x)) : RemoveFirst(s, x)[i] = s[j]
  <2> DEFINE I == {i \in 1..Len(s) : s[i] = x}
             r == RemoveFirst(s, x)
  <2>1. I = {k}
    BY <1>2 DEF Once
  <2>2. Min({k}) = k
    BY DEF Min
  <2>3. r = RemoveAt(s, SelectInSeq(s, LAMBDA v : v = x))
    BY <1>2 DEF RemoveFirst
  <2>4. SelectInSeq(s, LAMBDA v : v = x) = k
    BY <2>1, <2>2 DEF SelectInSeq
  <2>5. r = SubSeq(s, 1, k - 1) \o SubSeq(s, k + 1, Len(s))
    BY <2>3, <2>4 DEF RemoveAt
  <2>6. /\ SubSeq(s, 1, k - 1) \in Seq(S) /\ Len(SubSeq(s, 1, k - 1)) = k - 1
        /\ \A i \in 1..k - 1 : SubSeq(s, 1, k - 1)[i] = s[i]
    OBVIOUS
  <2>7. /\ SubSeq(s, k + 1, Len(s)) \in Seq(S) /\ Len(SubSeq(s, k + 1, Len(s))) = Len(s) - k
        /\ \A i \in 1..Len(s) - k : SubSeq(s, k + 1, Len(s))[i] = s[i + k]
    OBVIOUS
  <2>8. r \in Seq(S)
    BY <2>5, <2>6, <2>7
  <2>9. Len(r) = Len(s) - 1
    <3> DEFINE p == SubSeq(s, 1, k - 1)
               q == SubSeq(s, k + 1, Len(s))
    <3>1. p \in Seq(S) /\ Len(p) = k - 1 /\ q \in Seq(S) /\ Len(q) = Len(s) - k /\ r = p \o q
      BY <2>5, <2>6, <2>7
    <3> HIDE DEF p, q, r
    <3>2. Len(p \o q) = Len(p) + Len(q)
      BY <3>1, ConcatProperties
    <3> QED BY <3>1, <3>2
  <2>10. ASSUME NEW i \in 1..Len(s) - 1
         PROVE  r[i] = s[IF i < k THEN i ELSE i + 1]
    <3>1. CASE i < k
      <4>1. r[i] = SubSeq(s, 1, k - 1)[i]
        <5> DEFINE p == SubSeq(s, 1, k - 1)
                   q == SubSeq(s, k + 1, Len(s))
        <5>1. p \in Seq(S) /\ Len(p) = k - 1 /\ q \in Seq(S) /\ Len(q) = Len(s) - k /\ r = p \o q
          BY <2>5, <2>6, <2>7
        <5> HIDE DEF p, q, r
        <5>2. (p \o q)[i] = IF i <= Len(p) THEN p[i] ELSE q[i - Len(p)]
          BY <5>1, ConcatProperties
        <5> QED BY <5>1, <5>2, <3>1 DEF p
      <4>2. i \in 1..k - 1
        BY <3>1
      <4> QED BY <3>1, <4>1, <4>2, <2>6
    <3>2. CASE i >= k
      <4>1. r[i] = SubSeq(s, k + 1, Len(s))[i - (k - 1)]
        <5> DEFINE p == SubSeq(s, 1, k - 1)
                   q == SubSeq(s, k + 1, Len(s))
        <5>1. p \in Seq(S) /\ Len(p) = k - 1 /\ q \in Seq(S) /\ Len(q) = Len(s) - k /\ r = p \o q
          BY <2>5, <2>6, <2>7
        <5> HIDE DEF p, q, r
        <5>2. (p \o q)[i] = IF i <= Len(p) THEN p[i] ELSE q[i - Len(p)]
          BY <5>1, ConcatProperties
        <5> QED BY <5>1, <5>2, <3>2 DEF q
      <4>2. i - (k - 1) \in 1..Len(s) - k /\ i - (k - 1) + k = i + 1
        BY <3>2
      <4> QED BY <3>2, <4>1, <4>2, <2>7
    <3> QED BY <3>1, <3>2
  <2> HIDE DEF r
  <2>11. ASSUME NEW i \in 1..Len(s) - 1
         PROVE  r[i] # x /\ \E j \in 1..Len(s) : s[j] = r[i]
    <3>1. (IF i < k THEN i ELSE i + 1) \in 1..Len(s) /\ (IF i < k THEN i ELSE i + 1) # k
      OBVIOUS
    <3> QED BY <3>1, <2>10, <1>2 DEF Once
  <2>12. Once(r)
    <3> SUFFICES ASSUME NEW i \in 1..Len(s) - 1, NEW j \in 1..Len(s) - 1, r[i] = r[j]
                 PROVE  i = j
      BY <2>9 DEF Once
    <3>1. (IF i < k THEN i ELSE i + 1) \in 1..Len(s) /\ (IF j < k THEN j ELSE j + 1) \in 1..Len(s)
      OBVIOUS
    <3>2. (IF i < k THEN i ELSE i + 1) = (IF j < k THEN j ELSE j + 1)
      BY <3>1, <2>10 DEF Once
    <3> QED BY <3>2
  <2>13. ASSUME NEW j \in 1..Len(s), s[j] # x
         PROVE  \E i \in 1..Len(s) - 1 : r[i] = s[j]
    <3>1. CASE j < k
      <4>1. j \in 1..Len(s) - 1
        BY <3>1
      <4> QED BY <3>1, <4>1, <2>10
    <3>2. CASE j > k
      <4>1. j - 1 \in 1..Len(s) - 1 /\ ~ (j - 1 < k) /\ j - 1 + 1 = j
        BY <3>2
      <4> QED BY <4>1, <2>10
    <3>3. j # k
      BY <2>13, <1>2
    <3> QED BY <3>1, <3>2, <3>3
  <2> QED BY <2>8, <2>9, <2>11, <2>12, <2>13 DEF r
<1> QED BY <1>1, <1>2

\* A new element goes to the end, once.
LEMMA AppendOnce ==
  ASSUME NEW S, NEW s \in Seq(S), Once(s), NEW x \in S, ~ Contains(s, x)
  PROVE  Once(Append(s, x))
  BY AppendFacts DEF Once, Contains

-----------------------------------------------------------------------------
(***************************************************************************)
(* Frames and the stack: every action pops frames and pushes others.       *)
(***************************************************************************)

LEMMA FrameKinds ==
  ASSUME NEW f \in Frames
  PROVE  /\ f.op \in {"event", "clean", "body", "cleanup"} => f \in CodeFrames
         /\ f.op \in {"flush", "dispatch"} => f \in LoopFrames
         /\ f.op = "get" => f \in GetFrames
         /\ f.op = "release" => f \in ReleaseFrames
         /\ f.op \in {"event", "clean", "body", "cleanup", "flush", "dispatch", "get", "release"}
<1>1. CASE f \in CodeFrames
  BY <1>1 DEF CodeFrames
<1>2. CASE f \in LoopFrames
  BY <1>2 DEF LoopFrames
<1>3. CASE f \in GetFrames
  BY <1>3 DEF GetFrames
<1>4. CASE f \in ReleaseFrames
  BY <1>4 DEF ReleaseFrames
<1> QED BY <1>1, <1>2, <1>3, <1>4 DEF Frames

LEMMA PushGood ==
  ASSUME NEW stk, NEW ids, StackGood(stk, ids), NEW f \in Frames, FrameGood(f, ids),
         stk # <<>> => Last(stk).op # "dispatch",
         f.op = "get" => stk # <<>> /\ Last(stk).op \in UserOps,
         f.op = "flush" => \A j \in 1..Len(stk) : ~ Batches(stk[j])
  PROVE  StackGood(Append(stk, f), ids)
<1> DEFINE r == Append(stk, f)
<1>1. stk \in Seq(Frames) /\ Len(stk) \in Nat
  BY DEF StackGood
<1>2. /\ r \in Seq(Frames) /\ Len(r) = Len(stk) + 1
      /\ \A i \in 1..Len(stk) : r[i] = stk[i]
      /\ r[Len(stk) + 1] = f
  BY <1>1
<1>3. stk # <<>> => Last(stk) = stk[Len(stk)] /\ Len(stk) > 0
  BY <1>1, FrontFacts
<1>31. stk = <<>> => Len(stk) = 0
  OBVIOUS
<1> HIDE DEF r
<1>4. \A i \in 1..Len(r) : FrameGood(r[i], ids)
  BY <1>1, <1>2 DEF StackGood
<1>5. ASSUME NEW i \in 1..Len(r), r[i].op = "get"
      PROVE  i > 1 /\ r[i - 1].op \in UserOps
  <2>1. CASE i = Len(r)
    BY <2>1, <1>1, <1>2, <1>3, <1>5
  <2>2. CASE i # Len(r)
    <3>1. i \in 1..Len(stk) /\ stk[i].op = "get"
      BY <2>2, <1>1, <1>2, <1>5
    <3>2. i > 1 /\ stk[i - 1].op \in UserOps
      BY <3>1 DEF StackGood
    <3> QED BY <3>1, <3>2, <1>1, <1>2
  <2> QED BY <2>1, <2>2
<1>6. ASSUME NEW i \in 1..Len(r), r[i].op = "dispatch"
      PROVE  i = Len(r)
  <2> SUFFICES ASSUME i # Len(r) PROVE FALSE
    OBVIOUS
  <2>1. i \in 1..Len(stk) /\ stk[i].op = "dispatch"
    BY <1>1, <1>2, <1>6
  <2>2. i = Len(stk)
    BY <2>1 DEF StackGood
  <2> QED BY <2>1, <2>2, <1>3, <1>31, <1>1
<1>7. ASSUME NEW i \in 1..Len(r), r[i].op = "flush", NEW j \in 1..i - 1
      PROVE  ~ Batches(r[j])
  <2>1. j \in 1..Len(stk) /\ r[j] = stk[j]
    BY <1>1, <1>2
  <2>2. CASE i = Len(r)
    BY <2>1, <2>2, <1>1, <1>2, <1>7
  <2>3. CASE i # Len(r)
    <3>1. i \in 1..Len(stk) /\ stk[i].op = "flush"
      BY <2>3, <1>1, <1>2, <1>7
    <3> QED BY <3>1, <2>1 DEF StackGood
  <2> QED BY <2>2, <2>3
<1> QED BY <1>2, <1>4, <1>5, <1>6, <1>7 DEF StackGood, r

\* What is left when the innermost call ends; it is not a dispatch, and nothing under a
\* flush holds a batch open.
LEMMA PopGood ==
  ASSUME NEW stk, NEW ids, StackGood(stk, ids), stk # <<>>
  PROVE  /\ StackGood(Front(stk), ids)
         /\ Front(stk) # <<>> => Last(Front(stk)).op # "dispatch"
         /\ Last(stk) \in Frames /\ FrameGood(Last(stk), ids)
         /\ Last(stk).op = "get" => Front(stk) # <<>> /\ Last(Front(stk)).op \in UserOps
         /\ Last(stk).op = "flush" => \A j \in 1..Len(Front(stk)) : ~ Batches(Front(stk)[j])
<1> DEFINE r == Front(stk)
<1>1. stk \in Seq(Frames) /\ Len(stk) \in Nat
  BY DEF StackGood
<1>2. /\ Len(stk) > 0 /\ r \in Seq(Frames) /\ Len(r) = Len(stk) - 1
      /\ \A i \in 1..Len(r) : r[i] = stk[i]
      /\ Last(stk) = stk[Len(stk)] /\ Last(stk) \in Frames
  BY <1>1, FrontFacts
<1>3. r # <<>> => Len(r) > 0 /\ Last(r) = stk[Len(r)]
  <2> HIDE DEF r
  <2> SUFFICES ASSUME r # <<>> PROVE Len(r) > 0 /\ Last(r) = stk[Len(r)]
    OBVIOUS
  <2>1. Len(r) \in Nat /\ Len(r) > 0 /\ Last(r) = r[Len(r)]
    BY <1>2, FrontFacts
  <2> QED BY <2>1, <1>2
<1>31. Len(r) > 0 => r # <<>>
  OBVIOUS
<1> HIDE DEF r
<1>4. StackGood(r, ids)
  <2>1. \A i \in 1..Len(r) : FrameGood(r[i], ids)
    BY <1>1, <1>2 DEF StackGood
  <2>2. \A i \in 1..Len(r) : r[i].op = "get" => i > 1 /\ r[i - 1].op \in UserOps
    BY <1>1, <1>2 DEF StackGood
  <2>3. \A i \in 1..Len(r) : r[i].op = "dispatch" => i = Len(r)
    <3> SUFFICES ASSUME NEW i \in 1..Len(r), r[i].op = "dispatch" PROVE FALSE
      OBVIOUS
    <3>1. i \in 1..Len(stk) /\ stk[i].op = "dispatch" /\ i # Len(stk)
      BY <1>1, <1>2
    <3> QED BY <3>1 DEF StackGood
  <2>4. \A i \in 1..Len(r) : r[i].op = "flush" => \A j \in 1..i - 1 : ~ Batches(r[j])
    <3> SUFFICES ASSUME NEW i \in 1..Len(r), r[i].op = "flush", NEW j \in 1..i - 1
                 PROVE  ~ Batches(r[j])
      OBVIOUS
    <3>1. i \in 1..Len(stk) /\ stk[i].op = "flush" /\ r[j] = stk[j]
      BY <1>1, <1>2
    <3> QED BY <3>1 DEF StackGood
  <2> QED BY <1>2, <2>1, <2>2, <2>3, <2>4 DEF StackGood
<1>5. r # <<>> => Last(r).op # "dispatch"
  <2> SUFFICES ASSUME r # <<>>, stk[Len(r)].op = "dispatch" PROVE FALSE
    BY <1>3
  <2>1. Len(r) \in 1..Len(stk) /\ Len(r) # Len(stk)
    BY <1>1, <1>2, <1>3
  <2> QED BY <2>1 DEF StackGood
<1>6. FrameGood(Last(stk), ids)
  <2>1. Len(stk) \in 1..Len(stk)
    BY <1>1, <1>2
  <2> QED BY <2>1, <1>2 DEF StackGood
<1>7. Last(stk).op = "get" => r # <<>> /\ Last(r).op \in UserOps
  <2> SUFFICES ASSUME Last(stk).op = "get" PROVE r # <<>> /\ Last(r).op \in UserOps
    OBVIOUS
  <2>1. Len(stk) \in 1..Len(stk)
    BY <1>1, <1>2
  <2>2. Len(stk) > 1 /\ stk[Len(stk) - 1].op \in UserOps
    BY <2>1, <1>2 DEF StackGood
  <2> QED BY <2>2, <1>2, <1>3, <1>31
<1>8. Last(stk).op = "flush" => \A j \in 1..Len(r) : ~ Batches(r[j])
  <2> SUFFICES ASSUME Last(stk).op = "flush", NEW j \in 1..Len(r) PROVE ~ Batches(r[j])
    OBVIOUS
  <2>1. Len(stk) \in 1..Len(stk) /\ j \in 1..Len(stk) - 1
    BY <1>1, <1>2
  <2> QED BY <2>1, <1>2 DEF StackGood
<1> QED BY <1>2, <1>4, <1>5, <1>6, <1>7, <1>8 DEF r

LEMMA OutdateGood ==
  ASSUME NEW stk, NEW ids, StackGood(stk, ids), NEW s
  PROVE  /\ StackGood(Outdate(stk, s), ids) /\ Len(Outdate(stk, s)) = Len(stk)
         /\ \A i \in 1..Len(stk) :
              /\ Outdate(stk, s)[i].op = stk[i].op
              /\ Batches(Outdate(stk, s)[i]) = Batches(stk[i])
              /\ stk[i].op # "body" => Outdate(stk, s)[i] = stk[i]
<1> DEFINE r == Outdate(stk, s)
<1>1. stk \in Seq(Frames) /\ Len(stk) \in Nat /\ DOMAIN stk = 1..Len(stk)
  BY DEF StackGood
<1>2. ASSUME NEW i \in 1..Len(stk)
      PROVE  /\ r[i] \in Frames /\ r[i].op = stk[i].op
             /\ Batches(r[i]) = Batches(stk[i])
             /\ FrameGood(r[i], ids) = FrameGood(stk[i], ids)
             /\ stk[i].op # "body" => r[i] = stk[i]
  <2>1. stk[i] \in Frames
    BY <1>1
  <2>2. CASE stk[i].op = "body" /\ s \in stk[i].basis
    <3> DEFINE f == stk[i]
               g == [f EXCEPT !.old = TRUE]
    <3>1. r[i] = g
      BY <2>2, <1>1 DEF Outdate
    <3>2. f \in CodeFrames
      BY <2>1, <2>2, FrameKinds
    <3>3. g \in CodeFrames /\ g.op = f.op /\ g.batch = f.batch /\ g.eff = f.eff /\ g.id = f.id
      BY <3>2 DEF CodeFrames
    <3> HIDE DEF g
    <3>4. Batches(g) = Batches(f) /\ FrameGood(g, ids) = FrameGood(f, ids)
      BY <3>3 DEF Batches, FrameGood
    <3> QED BY <2>2, <3>1, <3>3, <3>4 DEF Frames
  <2>3. CASE ~ (stk[i].op = "body" /\ s \in stk[i].basis)
    <3>1. r[i] = stk[i]
      BY <2>3, <1>1 DEF Outdate
    <3> QED BY <3>1, <2>1
  <2> QED BY <2>2, <2>3
<1>3. r = [i \in 1..Len(stk) |-> r[i]]
  BY <1>1 DEF Outdate
<1> HIDE DEF r
<1>4. r \in Seq(Frames)
  BY <1>1, <1>2, <1>3
<1>5. Len(r) = Len(stk)
  BY <1>1, <1>3
<1>6. \A i \in 1..Len(r) : FrameGood(r[i], ids)
  BY <1>2, <1>5 DEF StackGood
<1>7. \A i \in 1..Len(r) : r[i].op = "get" => i > 1 /\ r[i - 1].op \in UserOps
  <2> SUFFICES ASSUME NEW i \in 1..Len(stk), stk[i].op = "get"
               PROVE  i > 1 /\ r[i - 1].op \in UserOps
    BY <1>2, <1>5
  <2>1. i > 1 /\ stk[i - 1].op \in UserOps
    BY DEF StackGood
  <2> QED BY <2>1, <1>1, <1>2
<1>8. \A i \in 1..Len(r) : r[i].op = "dispatch" => i = Len(r)
  BY <1>2, <1>5 DEF StackGood
<1>9. \A i \in 1..Len(r) : r[i].op = "flush" => \A j \in 1..i - 1 : ~ Batches(r[j])
  <2> SUFFICES ASSUME NEW i \in 1..Len(stk), stk[i].op = "flush", NEW j \in 1..i - 1
               PROVE  ~ Batches(r[j])
    BY <1>2, <1>5
  <2>1. j \in 1..Len(stk)
    BY <1>1
  <2>2. ~ Batches(stk[j])
    BY DEF StackGood
  <2> QED BY <2>1, <2>2, <1>2
<1> QED BY <1>2, <1>4, <1>5, <1>6, <1>7, <1>8, <1>9 DEF StackGood, r

LEMMA LastAppend ==
  ASSUME NEW S, NEW s \in Seq(S), NEW x \in S
  PROVE  Last(Append(s, x)) = x /\ Front(Append(s, x)) = s
<1>1. Append(s, x) \in Seq(S) /\ Append(s, x) # <<>> /\ Len(s) \in Nat
  OBVIOUS
<1>2. Last(Append(s, x)) = x
  BY <1>1, AppendFacts DEF Last
<1>3. /\ Front(Append(s, x)) \in Seq(S) /\ Len(Front(Append(s, x))) = Len(s)
      /\ \A i \in 1..Len(s) : Front(Append(s, x))[i] = s[i]
  <2> DEFINE r == Append(s, x)
  <2>1. r \in Seq(S) /\ r # <<>> /\ Len(r) = Len(s) + 1 /\ \A i \in 1..Len(s) : r[i] = s[i]
    BY AppendFacts
  <2> HIDE DEF r
  <2>2. /\ Front(r) \in Seq(S) /\ Len(Front(r)) = Len(r) - 1
        /\ \A i \in 1..Len(r) - 1 : Front(r)[i] = r[i]
    BY <2>1, FrontFacts
  <2> QED BY <1>1, <2>1, <2>2 DEF r
<1>4. Front(Append(s, x)) = s
  BY <1>3, SeqEqual
<1> QED BY <1>2, <1>4

\* The innermost call goes on: its frame is replaced.
LEMMA ReplaceGood ==
  ASSUME NEW stk, NEW ids, StackGood(stk, ids), stk # <<>>, NEW f \in Frames,
         FrameGood(f, ids), f.op # "get", f.op = "flush" => Last(stk).op = "flush"
  PROVE  /\ StackGood(Append(Front(stk), f), ids)
         /\ Last(Append(Front(stk), f)) = f /\ Append(Front(stk), f) # <<>>
<1> DEFINE r == Front(stk)
<1>1. /\ StackGood(r, ids)
      /\ r # <<>> => Last(r).op # "dispatch"
      /\ Last(stk).op = "flush" => \A j \in 1..Len(r) : ~ Batches(r[j])
  BY PopGood
<1> HIDE DEF r
<1>2. r \in Seq(Frames)
  BY <1>1 DEF StackGood
<1>3. StackGood(Append(r, f), ids)
  <2>1. f.op = "flush" => \A j \in 1..Len(r) : ~ Batches(r[j])
    BY <1>1
  <2>2. r # <<>> => Last(r).op # "dispatch"
    BY <1>1
  <2>3. f.op = "get" => r # <<>> /\ Last(r).op \in UserOps
    OBVIOUS
  <2> QED BY <1>1, <2>1, <2>2, <2>3, PushGood
<1>4. Last(Append(r, f)) = f /\ Append(r, f) # <<>>
  BY <1>2, LastAppend
<1> QED BY <1>3, <1>4 DEF r

LEMMA TopFacts ==
  ASSUME Calling, stack # <<>>
  PROVE  /\ Top \in Frames /\ FrameGood(Top, idOf)
         /\ Len(stack) \in 1..Len(stack) /\ Top = stack[Len(stack)]
         /\ Top.op \in UserOps => Top \in CodeFrames
         /\ Top.op \in {"clean", "body"} => Top \in CodeFrames
         /\ Top.op \in {"flush", "dispatch"} => Top \in LoopFrames
         /\ Top.op = "get" => Top \in GetFrames
         /\ Top.op = "release" => Top \in ReleaseFrames
<1>1. stack \in Seq(Frames)
  BY DEF Calling, StackGood
<1>2. Len(stack) \in Nat /\ Len(stack) > 0 /\ Last(stack) = stack[Len(stack)] /\ Last(stack) \in Frames
  BY <1>1, FrontFacts
<1>3. FrameGood(Top, idOf)
  BY PopGood DEF Calling, Top
<1> QED BY <1>2, <1>3, FrameKinds DEF Top, UserOps

LEMMA CodeGood ==
  ASSUME NEW op \in {"event", "clean", "body", "cleanup"}, NEW e \in Bodies, NEW id \in Ids \cup {NoId}
  PROVE  /\ Code(op, e, id) \in CodeFrames /\ Code(op, e, id) \in Frames
         /\ Code(op, e, id).op = op /\ Code(op, e, id).eff = e /\ Code(op, e, id).id = id
         /\ ~ Code(op, e, id).batch
  BY DEF Code, CodeFrames, Frames

LEMMA LoopGood ==
  ASSUME NEW op \in {"flush", "dispatch"}, NEW s \in Seq(Ids)
  PROVE  Loop(op, s) \in Frames /\ Loop(op, s).op = op /\ Loop(op, s).ids = s /\ Loop(op, s).any = FALSE
  BY DEF Loop, LoopFrames, Frames

LEMMA DidGood ==
  ASSUME Calling, InUserCode,
         NEW x \in Sources \cup Effects \cup {"drain", "batch", "cleanup", "unmount"}
  PROVE  /\ Did(x) \in CodeFrames /\ Did(x) \in Frames /\ FrameGood(Did(x), idOf)
         /\ Did(x).op = Top.op /\ Did(x).batch = Top.batch
         /\ Did(x).eff = Top.eff /\ Did(x).id = Top.id /\ Did(x).old = Top.old
<1>1. Top \in CodeFrames /\ FrameGood(Top, idOf)
  BY TopFacts DEF InUserCode, UserOps
<1> DEFINE t == Top
<1>2. t \in CodeFrames
  BY <1>1
<1> HIDE DEF t
<1>3. LET f == [t EXCEPT !.did = @ \cup {x}]
      IN  /\ f \in CodeFrames /\ f.op = t.op /\ f.batch = t.batch /\ f.eff = t.eff /\ f.id = t.id
          /\ f.old = t.old
  BY <1>2 DEF CodeFrames
<1>4. Did(x) = [t EXCEPT !.did = @ \cup {x}]
  BY DEF Did, t
<1> QED BY <1>1, <1>3, <1>4 DEF FrameGood, Frames, t

LEMMA GotGood ==
  ASSUME Flags, NEW f \in CodeFrames, NEW x \in Sources
  PROVE  /\ Got(f, x) \in CodeFrames /\ Got(f, x) \in Frames
         /\ Got(f, x).op = f.op /\ Got(f, x).batch = f.batch
         /\ Got(f, x).eff = f.eff /\ Got(f, x).id = f.id
<1>1. CASE x \in Computeds
  <2>1. x \in Effects /\ basis[x] \in SUBSET Signals
    BY <1>1, ReactiveAssumption DEF Flags
  <2> DEFINE g == [f EXCEPT !.basis = @ \cup basis[x], !.old = @ \/ x \in lag, !.did = @ \cup {x}]
  <2>2. /\ f.basis \cup basis[x] \in SUBSET Signals /\ (f.old \/ x \in lag) \in BOOLEAN
    BY <2>1 DEF CodeFrames
  <2>3. g \in CodeFrames /\ g.op = f.op /\ g.batch = f.batch /\ g.eff = f.eff /\ g.id = f.id
    BY <2>2 DEF CodeFrames
  <2>4. Got(f, x) = g
    BY <1>1 DEF Got
  <2> QED BY <2>3, <2>4 DEF Frames
<1>2. CASE x \notin Computeds
  <2>1. x \in Signals
    BY <1>2 DEF Sources
  <2> DEFINE g == [f EXCEPT !.basis = @ \cup {x}, !.did = @ \cup {x}]
  <2>2. g \in CodeFrames /\ g.op = f.op /\ g.batch = f.batch /\ g.eff = f.eff /\ g.id = f.id
    BY <2>1 DEF CodeFrames
  <2>3. Got(f, x) = g
    BY <1>2 DEF Got
  <2> QED BY <2>2, <2>3 DEF Frames
<1> QED BY <1>1, <1>2

\* An id is minted once and kept: what a frame holds stays right.
LEMMA IdsKept ==
  ASSUME NEW stk, NEW ids, NEW jds, StackGood(stk, ids),
         \A e \in Effects : ids[e] # NoId => jds[e] = ids[e]
  PROVE  StackGood(stk, jds)
<1>1. \A i \in 1..Len(stk) : FrameGood(stk[i], jds)
  <2> SUFFICES ASSUME NEW i \in 1..Len(stk) PROVE FrameGood(stk[i], jds)
    OBVIOUS
  <2>1. FrameGood(stk[i], ids)
    BY DEF StackGood
  <2> QED BY <2>1 DEF FrameGood
<1> QED BY <1>1 DEF StackGood

-----------------------------------------------------------------------------
(***************************************************************************)
(* Tables: an id resolves to its owner or to nothing.                      *)
(***************************************************************************)

LEMMA LiveFacts ==
  ASSUME Tables, NEW id \in Ids, Live(id)
  PROVE  /\ Occupant(id) \in Effects /\ idOf[Occupant(id)] = id
         /\ slab[id.slot] = Occupant(id) /\ gens[id.slot] = id.gen /\ id.slot \in Slots
         /\ id.gen \in Nat
<1>1. id.slot \in Slots /\ id.gen \in Generations /\ id = [slot |-> id.slot, gen |-> id.gen]
  BY DEF Ids
<1>2. slab[id.slot] # NoOne /\ gens[id.slot] = id.gen
  BY DEF Live
<1>3. slab[id.slot] \in Effects /\ idOf[slab[id.slot]] = [slot |-> id.slot, gen |-> gens[id.slot]]
  BY <1>1, <1>2 DEF Tables, Owned
<1> QED BY <1>1, <1>2, <1>3, FS_CardinalityType, ReactiveAssumption DEF Occupant, Generations

LEMMA OwnId ==
  ASSUME Tables, NEW e \in Effects, Live(idOf[e])
  PROVE  Occupant(idOf[e]) = e
<1>1. idOf[e] # NoId /\ idOf[e] \in Ids
  BY DEF Live, Tables
<1>2. gens[idOf[e].slot] = idOf[e].gen /\ idOf[e].gen \in Nat
  BY <1>1, LiveFacts
<1>3. \/ idOf[e].gen < gens[idOf[e].slot]
      \/ idOf[e].gen = gens[idOf[e].slot] /\ slab[idOf[e].slot] = e
  BY <1>1 DEF Tables, Minted
<1> QED BY <1>2, <1>3 DEF Occupant

-----------------------------------------------------------------------------
(***************************************************************************)
(* Calling is kept: what each action does to the stack.                    *)
(***************************************************************************)

\* Batching says of the whole stack what Batches says of a frame.
LEMMA BatchingFacts ==
  ASSUME Calling
  PROVE  /\ DOMAIN stack = 1..Len(stack) /\ Len(stack) \in Nat
         /\ Batching <=> \E i \in 1..Len(stack) : Batches(stack[i])
  BY DEF Calling, StackGood, Batching, Batches, UserOps

LEMMA EventCalling == ASSUME IInv, BrowserEvent PROVE Calling'
<1>1. StackGood(stack, idOf) /\ (stack # <<>> => Last(stack).op # "dispatch")
  BY DEF IInv, Calling, BrowserEvent, At, Top
<1>2. LET f == Code("event", Event, NoId)
      IN  f \in Frames /\ f.op = "event"
  BY CodeGood DEF Bodies
<1>3. stack' = Append(stack, Code("event", Event, NoId)) /\ idOf' = idOf
  BY DEF BrowserEvent, tables
<1>4. FrameGood(Code("event", Event, NoId), idOf)
  BY <1>2 DEF FrameGood
<1>5. StackGood(Append(stack, Code("event", Event, NoId)), idOf)
  BY <1>1, <1>2, <1>4, PushGood
<1> QED BY <1>3, <1>5 DEF Calling

LEMMA CreateCalling == ASSUME IInv, NEW e \in Effects, Create(e) PROVE Calling'
<1>1. PICK s \in Slots : idOf' = [idOf EXCEPT ![e] = [slot |-> s, gen |-> gens[s]]]
  BY DEF Create
<1>2. idOf[e] = NoId /\ idOf \in [Effects -> Ids \cup {NoId}] /\ gens[s] \in Generations
  BY DEF Create, IInv, Tables
<1>3. idOf'[e] = [slot |-> s, gen |-> gens[s]] /\ \A x \in Effects : x # e => idOf'[x] = idOf[x]
  BY <1>1, <1>2
<1>4. StackGood(stack, idOf')
  BY <1>2, <1>3, IdsKept DEF IInv, Calling
<1>5. CASE e \in Computeds
  BY <1>4, <1>5 DEF Create, Calling
<1>6. CASE e \notin Computeds
  <2> DEFINE f == Code("clean", e, idOf'[e])
  <2>1. idOf'[e] \in Ids /\ idOf'[e] # NoId
    BY <1>2, <1>3 DEF Ids, NoId
  <2>2. f \in Frames /\ f.op = "clean" /\ f.eff = e /\ f.id = idOf'[e]
    BY <2>1, CodeGood DEF Bodies
  <2>3. stack' = Append(stack, f)
    BY <1>6 DEF Create
  <2>4. stack # <<>> /\ Last(stack).op # "dispatch"
    BY DEF Create, InUserCode, Top
  <2> HIDE DEF f
  <2>5. FrameGood(f, idOf')
    BY <2>1, <2>2 DEF FrameGood
  <2>6. StackGood(Append(stack, f), idOf')
    BY <1>4, <2>2, <2>4, <2>5, PushGood
  <2> QED BY <2>3, <2>6 DEF Calling
<1> QED BY <1>5, <1>6

LEMMA CleanupsCalling == ASSUME IInv, RunCleanups PROVE Calling'
<1> DEFINE f == Code("cleanup", Cleanup, NoId)
<1>1. f \in Frames /\ f.op = "cleanup"
  BY CodeGood DEF Bodies
<1>2. stack' = Append(stack, f) /\ idOf' = idOf /\ stack # <<>> /\ Last(stack).op # "dispatch"
  BY DEF RunCleanups, tables, At, Top
<1> HIDE DEF f
<1>3. FrameGood(f, idOf)
  BY <1>1 DEF FrameGood
<1>4. StackGood(Append(stack, f), idOf)
  BY <1>1, <1>2, <1>3, PushGood DEF IInv, Calling
<1> QED BY <1>2, <1>4 DEF Calling

LEMMA StartCalling == ASSUME IInv, StartBody PROVE Calling'
<1> DEFINE t == Top
           f == [t EXCEPT !.op = "body"]
<1>1. stack # <<>> /\ t.op = "clean" /\ t \in CodeFrames /\ FrameGood(t, idOf)
  BY TopFacts DEF StartBody, At, IInv
<1>2. stack' = Append(Rest, f) /\ idOf' = idOf
  BY DEF StartBody, tables
<1> HIDE DEF t
<1>3. f \in CodeFrames /\ f.op = "body" /\ f.eff = t.eff /\ f.id = t.id
  BY <1>1 DEF CodeFrames
<1> HIDE DEF f
<1>4. f \in Frames /\ FrameGood(f, idOf)
  BY <1>1, <1>3 DEF FrameGood, Frames
<1>5. StackGood(Append(Rest, f), idOf)
  BY <1>1, <1>3, <1>4, ReplaceGood DEF IInv, Calling, Rest
<1> QED BY <1>2, <1>5 DEF Calling

\* A reader's frame remembers what it got.
LEMMA GotCalling ==
  ASSUME IInv, NEW stk, StackGood(stk, idOf), stk # <<>>, Last(stk).op \in UserOps,
         NEW x \in Sources
  PROVE  StackGood(Append(Front(stk), Got(Last(stk), x)), idOf)
<1> DEFINE t == Last(stk)
           f == Got(t, x)
<1>1. t \in CodeFrames /\ FrameGood(t, idOf) /\ t.op \in UserOps
  BY PopGood, FrameKinds DEF UserOps
<1> HIDE DEF t
<1>2. f \in Frames /\ f.op = t.op /\ f.eff = t.eff /\ f.id = t.id
  BY <1>1, GotGood DEF IInv
<1> HIDE DEF f
<1>3. FrameGood(f, idOf) /\ f.op # "get" /\ f.op # "flush"
  BY <1>1, <1>2 DEF FrameGood, UserOps
<1>4. StackGood(Append(Front(stk), f), idOf)
  BY <1>2, <1>3, ReplaceGood
<1> QED BY <1>4 DEF f, t

LEMMA ReadCalling == ASSUME IInv, NEW x \in Sources, Read(x) PROVE Calling'
<1>1. stack' = Append(Rest, Got(Top, x)) /\ idOf' = idOf
  BY DEF Read, Subscribe, tables
<1>2. StackGood(stack, idOf) /\ stack # <<>> /\ Last(stack).op \in UserOps
  BY DEF IInv, Calling, Read, InUserCode, Top, UserOps
<1> QED BY <1>1, <1>2, GotCalling DEF Calling, Rest, Top

LEMMA ReadDirtyCalling == ASSUME IInv, NEW x \in Sources, ReadDirty(x) PROVE Calling'
<1> DEFINE g == Get(x)
           f == Code("clean", x, idOf[x])
<1>1. /\ StackGood(stack, idOf) /\ stack # <<>> /\ Last(stack).op \in UserOps
      /\ stack' = stack \o <<g, f>> /\ idOf' = idOf
  BY DEF IInv, Calling, ReadDirty, InUserCode, Top, UserOps, tables
<1>2. x \in Computeds /\ x \in Effects /\ idOf[x] \in Ids /\ idOf[x] # NoId
  BY ReactiveAssumption DEF ReadDirty, IInv, Flags, Tables, Live
<1>3. f \in Frames /\ f.op = "clean" /\ f.eff = x /\ f.id = idOf[x]
  BY <1>2, CodeGood DEF Bodies
<1>4. g \in Frames /\ g.op = "get"
  BY <1>2 DEF Get, GetFrames, Frames
<1>5. stack \in Seq(Frames)
  BY <1>1 DEF StackGood
<1> HIDE DEF f, g
<1>6. FrameGood(f, idOf) /\ FrameGood(g, idOf)
  BY <1>2, <1>3, <1>4 DEF FrameGood
<1>7. StackGood(Append(stack, g), idOf)
  BY <1>1, <1>4, <1>6, PushGood DEF UserOps
<1>8. Last(Append(stack, g)) = g
  BY <1>4, <1>5, LastAppend
<1>9. StackGood(Append(Append(stack, g), f), idOf)
  BY <1>3, <1>4, <1>6, <1>7, <1>8, PushGood
<1>10. stack \o <<g, f>> = Append(Append(stack, g), f)
  BY <1>3, <1>4, <1>5
<1> QED BY <1>1, <1>9, <1>10 DEF Calling

LEMMA FinishReadCalling == ASSUME IInv, FinishRead PROVE Calling'
<1>1. stack' = Append(Front(Rest), Got(Last(Rest), Top.src)) /\ idOf' = idOf
  BY DEF FinishRead, Subscribe, tables
<1>2. stack # <<>> /\ Top.op = "get" /\ Top.src \in Sources
  BY TopFacts DEF IInv, FinishRead, At, GetFrames, Sources
<1>3. StackGood(Rest, idOf) /\ Rest # <<>> /\ Last(Rest).op \in UserOps
  BY <1>2, PopGood DEF IInv, Calling, Rest, Top
<1> QED BY <1>1, <1>2, <1>3, GotCalling DEF Calling

\* What user code notes about itself changes nothing else.
LEMMA DidCalling ==
  ASSUME Calling, InUserCode,
         NEW x \in Sources \cup Effects \cup {"drain", "batch", "cleanup", "unmount"}
  PROVE  /\ StackGood(Append(Rest, Did(x)), idOf)
         /\ Last(Append(Rest, Did(x))) = Did(x) /\ Append(Rest, Did(x)) # <<>>
<1> DEFINE f == Did(x)
<1>1. f \in Frames /\ FrameGood(f, idOf) /\ f.op \in UserOps /\ stack # <<>>
  BY DidGood DEF InUserCode, UserOps
<1> HIDE DEF f
<1>2. StackGood(Append(Front(stack), f), idOf) /\ Last(Append(Front(stack), f)) = f /\ Append(Front(stack), f) # <<>>
  BY <1>1, ReplaceGood DEF Calling, UserOps
<1> QED BY <1>2 DEF f, Rest

LEMMA WriteCalling == ASSUME IInv, NEW s \in Signals, Write(s) PROVE Calling'
<1> DEFINE b == Append(Rest, Did(s))
           o == Outdate(b, s)
           d == Loop("dispatch", subs[s])
<1>1. Calling /\ InUserCode /\ s \in Sources
  BY DEF IInv, Write, Sources
<1>2. StackGood(b, idOf) /\ Last(b) = Did(s) /\ b # <<>> /\ Did(s).op \in UserOps
  BY <1>1, DidCalling, DidGood DEF InUserCode, UserOps
<1>3. subs[s] \in Seq(Ids)
  BY <1>1 DEF IInv, Graph
<1>4. d \in Frames /\ d.op = "dispatch"
  BY <1>3, LoopGood
<1>5. stack' = Append(o, d) /\ idOf' = idOf
  BY DEF Write, tables
<1> HIDE DEF b, d
<1>6. /\ StackGood(o, idOf) /\ Len(o) = Len(b)
      /\ \A i \in 1..Len(b) : o[i].op = b[i].op
  BY <1>2, OutdateGood
<1> HIDE DEF o
<1>7. b \in Seq(Frames) /\ o \in Seq(Frames)
  BY <1>2, <1>6 DEF StackGood
<1>8. Len(b) \in Nat /\ Len(b) > 0 /\ Last(b) = b[Len(b)]
  <2>1. b # <<>> /\ b \in Seq(Frames)
    BY <1>2, <1>7
  <2> QED BY <2>1, FrontFacts
<1>9. Last(o) = o[Len(o)]
  <2>1. o # <<>> /\ o \in Seq(Frames)
    BY <1>6, <1>7, <1>8
  <2> QED BY <2>1, FrontFacts
<1>91. o # <<>>
  BY <1>6, <1>8
<1>10. Last(o).op # "dispatch"
  BY <1>2, <1>6, <1>8, <1>9 DEF UserOps
<1>11. FrameGood(d, idOf)
  BY <1>4 DEF FrameGood
<1>12. StackGood(Append(o, d), idOf)
  BY <1>4, <1>6, <1>10, <1>11, PushGood
<1> QED BY <1>5, <1>12 DEF Calling

\* A loop goes on with other ids.
LEMMA LoopOn ==
  ASSUME Calling, At("flush") \/ At("dispatch"), NEW s \in Seq(Ids), NEW a \in BOOLEAN
  PROVE  LET f == [Top EXCEPT !.ids = s, !.any = a]
         IN  /\ f \in Frames /\ f.op = Top.op /\ f.any = a
             /\ StackGood(Append(Rest, f), idOf)
             /\ Last(Append(Rest, f)) = f /\ Append(Rest, f) # <<>>
<1> DEFINE t == Top
           f == [t EXCEPT !.ids = s, !.any = a]
<1>1. t \in LoopFrames /\ stack # <<>> /\ t = Last(stack)
  BY TopFacts DEF At, Top
<1> HIDE DEF t
<1>2. f \in LoopFrames /\ f.op = t.op /\ f.any = a /\ f.op \in {"flush", "dispatch"}
  BY <1>1 DEF LoopFrames
<1> HIDE DEF f
<1>3. f \in Frames /\ FrameGood(f, idOf)
  BY <1>2 DEF FrameGood, Frames
<1>4. /\ StackGood(Append(Front(stack), f), idOf) /\ Last(Append(Front(stack), f)) = f
      /\ Append(Front(stack), f) # <<>>
  BY <1>1, <1>2, <1>3, ReplaceGood DEF Calling
<1> QED BY <1>2, <1>3, <1>4 DEF f, t, Rest

LEMMA RouteCalling == ASSUME IInv, Route PROVE Calling'
<1> DEFINE id    == Head(Top.ids)
           plain == Live(id) /\ Occupant(id) \in Plain
           t     == Top
           a     == t.any \/ plain
           s     == Tail(t.ids)
<1>1. Calling /\ At("dispatch") /\ t \in LoopFrames
  BY TopFacts DEF IInv, Route, At
<1>2. stack' = Append(Rest, [Top EXCEPT !.ids = Tail(@), !.any = @ \/ plain]) /\ idOf' = idOf
  BY DEF Route, tables
<1>3. t.ids # <<>>
  BY DEF Route
<1> HIDE DEF plain
<1>4. s \in Seq(Ids) /\ a \in BOOLEAN
  BY <1>1, <1>3 DEF LoopFrames
<1>5. [Top EXCEPT !.ids = Tail(@), !.any = @ \/ plain] = [Top EXCEPT !.ids = s, !.any = a]
  OBVIOUS
<1> HIDE DEF s, a, t
<1>6. StackGood(Append(Rest, [Top EXCEPT !.ids = s, !.any = a]), idOf)
  BY <1>1, <1>4, LoopOn
<1> QED BY <1>2, <1>5, <1>6 DEF Calling

LEMMA NextSignalCalling == ASSUME IInv, NextSignal PROVE Calling'
<1> DEFINE s == subs[Head(worklist)]
           a == Top.any
<1>1. Calling /\ At("dispatch") /\ Top \in LoopFrames
  BY TopFacts DEF IInv, NextSignal, At
<1>2. stack' = Append(Rest, [Top EXCEPT !.ids = s]) /\ idOf' = idOf
  BY DEF NextSignal, tables
<1>3. Head(worklist) \in Computeds
  BY TailFacts DEF IInv, Flags, NextSignal
<1>4. s \in Seq(Ids) /\ a \in BOOLEAN
  BY <1>1, <1>3 DEF LoopFrames, IInv, Graph, Sources
<1> DEFINE t == Top
<1>5. [t EXCEPT !.ids = s] = [t EXCEPT !.ids = s, !.any = a]
  <2>1. t \in LoopFrames /\ a = t.any
    BY <1>1
  <2> HIDE DEF s, a, t
  <2> QED BY <2>1 DEF LoopFrames
<1> HIDE DEF s, a
<1>6. StackGood(Append(Rest, [Top EXCEPT !.ids = s, !.any = a]), idOf)
  BY <1>1, <1>4, LoopOn
<1> QED BY <1>2, <1>5, <1>6 DEF Calling

LEMMA PopCalling ==
  ASSUME IInv, stack # <<>>, stack' = Rest, idOf' = idOf
  PROVE  Calling'
  BY PopGood DEF IInv, Calling, Rest

LEMMA BatchCalling == ASSUME IInv, EnterBatch \/ ExitBatch PROVE Calling'
<1>1. PICK b \in BOOLEAN : \E f \in {Did("batch"), Top} :
        stack' = Append(Rest, [f EXCEPT !.batch = b])
  BY DEF EnterBatch, ExitBatch
<1>2. PICK f \in {Did("batch"), Top} : stack' = Append(Rest, [f EXCEPT !.batch = b])
  BY <1>1
<1>3. Calling /\ InUserCode /\ idOf' = idOf /\ stack # <<>>
  BY DEF IInv, EnterBatch, ExitBatch, tables, InUserCode
<1>4. f \in CodeFrames /\ FrameGood(f, idOf) /\ f.op \in UserOps
  BY <1>2, <1>3, DidGood, TopFacts DEF InUserCode, UserOps
<1> DEFINE g == [f EXCEPT !.batch = b]
<1>5. g \in CodeFrames /\ g.op = f.op /\ g.eff = f.eff /\ g.id = f.id
  BY <1>4 DEF CodeFrames
<1>6. stack' = Append(Rest, g)
  BY <1>2
<1> HIDE DEF g
<1>7. g \in Frames /\ FrameGood(g, idOf) /\ g.op # "get" /\ g.op # "flush"
  BY <1>4, <1>5 DEF Frames, FrameGood, UserOps
<1>8. StackGood(Append(Rest, g), idOf)
  BY <1>3, <1>7, ReplaceGood DEF Calling, Rest
<1> QED BY <1>3, <1>6, <1>8 DEF Calling

LEMMA MicrotaskCalling == ASSUME IInv, FlushMicrotask PROVE Calling'
<1> DEFINE f == Loop("flush", queue)
<1>1. f \in Frames /\ f.op = "flush"
  BY LoopGood DEF IInv, Queue
<1>2. stack' = Append(stack, f) /\ stack = <<>> /\ idOf' = idOf
  BY DEF FlushMicrotask, BeginFlush, tables
<1> HIDE DEF f
<1>3. FrameGood(f, idOf)
  BY <1>1 DEF FrameGood
<1>4. Len(stack) = 0
  BY <1>2
<1>5. StackGood(Append(stack, f), idOf)
  <2>1. \A j \in 1..Len(stack) : ~ Batches(stack[j])
    BY <1>4
  <2>2. StackGood(stack, idOf)
    BY DEF IInv, Calling
  <2>3. (stack # <<>> => Last(stack).op # "dispatch") /\ f.op # "get"
    BY <1>1, <1>2
  <2> QED BY <1>1, <1>3, <2>1, <2>2, <2>3, PushGood
<1> QED BY <1>2, <1>5 DEF Calling

LEMMA FlushSyncCalling == ASSUME IInv, FlushSync PROVE Calling'
<1> DEFINE f == Loop("flush", queue)
           b == Append(Rest, Did("drain"))
<1>1. f \in Frames /\ f.op = "flush"
  BY LoopGood DEF IInv, Queue
<1>2. stack' = Append(b, f) /\ idOf' = idOf /\ Calling /\ InUserCode /\ ~ Batching
  BY DEF FlushSync, BeginFlush, tables, IInv
<1>3. StackGood(b, idOf) /\ Last(b) = Did("drain") /\ b # <<>>
  BY <1>2, DidCalling
<1>4. /\ Did("drain") \in Frames /\ Did("drain").op = Top.op /\ Did("drain").batch = Top.batch
      /\ Top.op \in UserOps
  BY <1>2, DidGood DEF InUserCode, UserOps
<1>5. \A j \in 1..Len(b) : ~ Batches(b[j])
  <2>1. stack \in Seq(Frames) /\ stack # <<>>
    BY <1>2 DEF Calling, StackGood, InUserCode
  <2>2. /\ Rest \in Seq(Frames) /\ Len(Rest) = Len(stack) - 1 /\ Len(stack) \in Nat
        /\ \A i \in 1..Len(stack) - 1 : Rest[i] = stack[i]
        /\ Top = stack[Len(stack)] /\ Len(stack) > 0
    BY <2>1, FrontFacts DEF Rest, Top
  <2>3. /\ Len(b) = Len(stack) /\ b[Len(stack)] = Did("drain")
        /\ \A i \in 1..Len(stack) - 1 : b[i] = stack[i]
    BY <2>2, <1>4, AppendFacts
  <2>4. \A i \in 1..Len(stack) : ~ Batches(stack[i])
    BY <1>2, BatchingFacts
  <2>5. ~ Batches(Did("drain"))
    BY <2>2, <2>4, <1>4 DEF Batches
  <2> HIDE DEF b
  <2> QED BY <2>2, <2>3, <2>4, <2>5
<1> HIDE DEF f, b
<1>6. FrameGood(f, idOf)
  BY <1>1 DEF FrameGood
<1>7. Last(b).op # "dispatch"
  BY <1>3, <1>4 DEF UserOps
<1>8. StackGood(Append(b, f), idOf)
  BY <1>1, <1>3, <1>5, <1>6, <1>7, PushGood
<1> QED BY <1>2, <1>8 DEF Calling

LEMMA FlushNextCalling == ASSUME IInv, FlushNext PROVE Calling'
<1> DEFINE id   == Head(Top.ids)
           f    == [Top EXCEPT !.ids = Tail(@)]
           more == Append(Rest, f)
           c    == Code("clean", Occupant(id), id)
<1>1. Calling /\ At("flush") /\ Top \in LoopFrames /\ Top.ids # <<>> /\ idOf' = idOf /\ Tables
  BY TopFacts DEF IInv, FlushNext, At, tables
<1>2. Tail(Top.ids) \in Seq(Ids) /\ id \in Ids /\ Top.any \in BOOLEAN
  BY <1>1 DEF LoopFrames
<1>3. \/ stack' = more
      \/ Live(id) /\ stack' = Append(more, c)
  BY DEF FlushNext
<1>4. f = [Top EXCEPT !.ids = Tail(Top.ids), !.any = Top.any]
  BY <1>1 DEF LoopFrames
<1>5. StackGood(more, idOf) /\ Last(more) = f /\ f.op = "flush" /\ more # <<>>
  <2> DEFINE s == Tail(Top.ids)
             a == Top.any
  <2>1. s \in Seq(Ids) /\ a \in BOOLEAN /\ Top.op = "flush" /\ f = [Top EXCEPT !.ids = s, !.any = a]
    BY <1>1, <1>2, <1>4 DEF At
  <2> HIDE DEF s, a
  <2> DEFINE g == [Top EXCEPT !.ids = s, !.any = a]
  <2>2. /\ g.op = Top.op /\ StackGood(Append(Rest, g), idOf)
        /\ Last(Append(Rest, g)) = g /\ Append(Rest, g) # <<>>
    BY <1>1, <2>1, LoopOn
  <2>3. f = g
    BY <2>1
  <2> HIDE DEF f, g
  <2> QED BY <2>1, <2>2, <2>3
<1>6. CASE stack' = more
  BY <1>1, <1>5, <1>6 DEF Calling
<1>7. CASE Live(id) /\ stack' = Append(more, c)
  <2>1. Occupant(id) \in Effects /\ idOf[Occupant(id)] = id /\ id # NoId
    BY <1>1, <1>2, <1>7, LiveFacts DEF Live
  <2>2. c \in Frames /\ c.op = "clean" /\ c.eff = Occupant(id) /\ c.id = id
    BY <2>1, <1>2, CodeGood DEF Bodies
  <2> HIDE DEF c, more, f, id
  <2>3. FrameGood(c, idOf)
    BY <2>1, <2>2 DEF FrameGood
  <2>4. StackGood(Append(more, c), idOf)
    BY <2>2, <2>3, <1>5, PushGood
  <2> QED BY <1>1, <1>7, <2>4 DEF Calling
<1> QED BY <1>3, <1>6, <1>7

LEMMA FreeCalling == ASSUME IInv, NEW e \in Effects, Free(e) PROVE Calling'
<1> DEFINE b == Append(Rest, Did(e))
           r == Release(idOf[e])
           c == Code("cleanup", Cleanup, NoId)
<1>1. Calling /\ InUserCode /\ idOf' = idOf /\ idOf[e] \in Ids
  BY DEF IInv, Free, Tables
<1>2. stack' = b \/ stack' = b \o <<r, c>>
  BY DEF Free
<1>3. StackGood(b, idOf) /\ Last(b) = Did(e) /\ b # <<>>
  BY <1>1, DidCalling
<1>4. Did(e).op = Top.op /\ Top.op \in UserOps
  BY <1>1, DidGood DEF InUserCode, UserOps
<1>5. r \in Frames /\ r.op = "release"
  BY <1>1 DEF Release, ReleaseFrames, Frames
<1>6. c \in Frames /\ c.op = "cleanup"
  BY CodeGood DEF Bodies
<1>7. b \in Seq(Frames)
  BY <1>3 DEF StackGood
<1> HIDE DEF b, r, c
<1>8. b \o <<r, c>> = Append(Append(b, r), c)
  BY <1>5, <1>6, <1>7
<1>9. FrameGood(r, idOf) /\ FrameGood(c, idOf)
  BY <1>5, <1>6 DEF FrameGood
<1>10. StackGood(Append(b, r), idOf)
  BY <1>3, <1>4, <1>5, <1>9, PushGood DEF UserOps
<1>11. Last(Append(b, r)) = r
  BY <1>5, <1>7, LastAppend
<1>12. StackGood(Append(Append(b, r), c), idOf)
  BY <1>5, <1>6, <1>9, <1>10, <1>11, PushGood
<1> QED BY <1>1, <1>2, <1>3, <1>8, <1>12 DEF Calling

LEMMA NoteCalling ==
  ASSUME IInv, OnCleanup \/ \E s \in Signals : ClearScope(s)
  PROVE  Calling'
<1>1. PICK x \in {"cleanup", "unmount"} : stack' = Append(Rest, Did(x))
  BY DEF OnCleanup, ClearScope
<1>2. Calling /\ InUserCode /\ idOf' = idOf
  BY DEF IInv, OnCleanup, ClearScope, tables, At, InUserCode
<1> QED BY <1>1, <1>2, DidCalling DEF Calling

LEMMA ReturnCalling == ASSUME IInv, Return PROVE Calling'
<1>1. stack # <<>> /\ idOf' = idOf
  BY DEF Return, tables, InUserCode
<1>2. StackGood(Rest, idOf)
  BY <1>1, PopGood DEF IInv, Calling, Rest
<1>3. CASE Len(Rest) > 0 /\ Last(Rest).op = "flush"
  <2> DEFINE t == Last(Rest)
             f == [t EXCEPT !.any = TRUE]
  <2>1. stack' = Append(Front(Rest), f)
    BY <1>3 DEF Return
  <2>2. Rest # <<>>
    BY <1>3
  <2>3. t \in LoopFrames
    BY <1>2, <1>3, <2>2, PopGood, FrameKinds
  <2>4. f \in LoopFrames /\ f.op = "flush"
    BY <1>3, <2>3 DEF LoopFrames
  <2> HIDE DEF f
  <2>5. f \in Frames /\ FrameGood(f, idOf)
    BY <2>4 DEF Frames, FrameGood
  <2>6. StackGood(Append(Front(Rest), f), idOf)
    BY <1>2, <1>3, <2>2, <2>4, <2>5, ReplaceGood
  <2> QED BY <1>1, <2>1, <2>6 DEF Calling
<1>4. CASE ~ (Len(Rest) > 0 /\ Last(Rest).op = "flush")
  <2>1. stack' = Rest
    BY <1>4 DEF Return
  <2> QED BY <1>1, <1>2, <2>1 DEF Calling
<1> QED BY <1>3, <1>4

\* No step breaks the discipline of the stack.
LEMMA CallingKept == ASSUME IInv, Next PROVE Calling'
<1>1. CASE BrowserEvent \/ FlushMicrotask
  BY <1>1, EventCalling, MicrotaskCalling
<1>2. CASE Machinery
  <2>1. CASE RunCleanups \/ StartBody \/ FinishRead \/ Route \/ NextSignal \/ FlushNext
    BY <2>1, CleanupsCalling, StartCalling, FinishReadCalling, RouteCalling, NextSignalCalling,
       FlushNextCalling
  <2>2. CASE FinishRelease \/ EndDispatch \/ EndFlush
    <3>1. stack # <<>> /\ stack' = Rest /\ idOf' = idOf
      BY <2>2 DEF FinishRelease, EndDispatch, EndFlush, At, tables
    <3> QED BY <3>1, PopCalling
  <2> QED BY <1>2, <2>1, <2>2 DEF Machinery
<1>3. CASE UserSteps
  BY <1>3, CreateCalling, FreeCalling, ReadCalling, ReadDirtyCalling, WriteCalling, NoteCalling,
     BatchCalling, FlushSyncCalling, ReturnCalling DEF UserSteps
<1> QED BY <1>1, <1>2, <1>3 DEF Next

-----------------------------------------------------------------------------
(***************************************************************************)
(* Tables, Graph and Queue are kept.  Only a creation and a release touch  *)
(* the tables.                                                             *)
(***************************************************************************)

\* A slot has no more generations than there are effects: each is held by another one.
LEMMA GenerationsSuffice ==
  ASSUME Tables, NEW s \in Slots, slab[s] # NoOne
  PROVE  gens[s] + 1 \in Generations
<1> DEFINE n == gens[s]
           G == 0..n
           f == [g \in G |-> CHOOSE e \in Effects : idOf[e] = [slot |-> s, gen |-> g]]
<1>1. n \in Nat /\ Cardinality(Effects) \in Nat /\ IsFiniteSet(Effects)
  BY FS_CardinalityType, ReactiveAssumption DEF Tables, Generations
<1>2. ASSUME NEW g \in G
      PROVE  \E e \in Effects : idOf[e] = [slot |-> s, gen |-> g]
  <2>1. CASE g < n
    BY <1>1, <2>1 DEF Tables, Filled
  <2>2. CASE g = n
    BY <2>2 DEF Tables, Owned
  <2> QED BY <1>1, <2>1, <2>2
<1> HIDE DEF n
<1>3. ASSUME NEW g \in G
      PROVE  f[g] \in Effects /\ idOf[f[g]] = [slot |-> s, gen |-> g]
  BY <1>2
<1>4. f \in [G -> Effects]
  BY <1>3
<1> HIDE DEF f
<1>5. ASSUME NEW g \in G, NEW h \in G, f[g] = f[h]
      PROVE  g = h
  <2>1. [slot |-> s, gen |-> g] = [slot |-> s, gen |-> h]
    BY <1>3, <1>5
  <2>2. [slot |-> s, gen |-> g].gen = [slot |-> s, gen |-> h].gen
    BY <2>1
  <2> QED BY <2>2
<1>6. f \in Injection(G, Effects)
  BY <1>4, <1>5 DEF Injection, IsInjective
<1>7. Cardinality(G) <= Cardinality(Effects)
  BY <1>1, <1>6, FS_Injection
<1>8. Cardinality(G) = n + 1
  <2>1. Cardinality(0..n) = IF 0 > n THEN 0 ELSE n - 0 + 1
    BY <1>1, FS_Interval
  <2> QED BY <1>1, <2>1
<1> QED BY <1>1, <1>7, <1>8 DEF Generations, n

\* What an eviction does to the other ids.
LEMMA EvictedFacts ==
  ASSUME Tables, NEW id \in Ids, Evicted(id)
  PROVE  \A y \in Ids : /\ Live(y)' => Live(y) /\ y # id /\ Occupant(y)' = Occupant(y)
                        /\ Live(y) /\ y # id => Live(y)'
<1>1. CASE ~ Live(id)
  BY <1>1 DEF Evicted, Live, Occupant
<1>2. CASE Live(id)
  <2>1. id.slot \in Slots /\ gens[id.slot] = id.gen /\ id.gen \in Nat
    BY <1>2, LiveFacts
  <2>2. /\ slab' = [slab EXCEPT ![id.slot] = NoOne]
        /\ gens' = [gens EXCEPT ![id.slot] = @ + 1]
    BY <1>2 DEF Evicted
  <2>3. slab'[id.slot] = NoOne
    BY <2>1, <2>2 DEF Tables
  <2>4. \A s \in Slots : s # id.slot => slab'[s] = slab[s] /\ gens'[s] = gens[s]
    BY <2>2 DEF Tables
  <2> SUFFICES ASSUME NEW y \in Ids
               PROVE  /\ Live(y)' => Live(y) /\ y # id /\ Occupant(y)' = Occupant(y)
                      /\ Live(y) /\ y # id => Live(y)'
    OBVIOUS
  <2>5. y.slot \in Slots /\ y = [slot |-> y.slot, gen |-> y.gen] /\ id = [slot |-> id.slot, gen |-> id.gen]
    BY DEF Ids
  <2>6. CASE y.slot # id.slot
    BY <2>4, <2>5, <2>6 DEF Live, Occupant
  <2>7. CASE y.slot = id.slot
    <3>1. ~ Live(y)'
      BY <2>3, <2>7 DEF Live
    <3>2. Live(y) => y = id
      BY <2>1, <2>5, <2>7 DEF Live
    <3> QED BY <3>1, <3>2
  <2> QED BY <2>6, <2>7
<1> QED BY <1>1, <1>2

LEMMA EvictedTables ==
  ASSUME Tables, NEW id \in Ids, Evicted(id), idOf' = idOf
  PROVE  Tables'
<1>1. CASE ~ Live(id)
  <2>1. slab' = slab /\ gens' = gens
    BY <1>1 DEF Evicted
  <2> QED BY <2>1 DEF Tables, Minted, Owned, Filled
<1>2. CASE Live(id)
  <2> DEFINE s == id.slot
             o == Occupant(id)
  <2>1. s \in Slots /\ gens[s] = id.gen /\ id.gen \in Nat /\ slab[s] = o /\ o \in Effects /\ idOf[o] = id
    BY <1>2, LiveFacts
  <2>2. slab[s] # NoOne /\ id = [slot |-> s, gen |-> id.gen]
    BY <1>2 DEF Live, Ids
  <2>3. gens[s] + 1 \in Generations
    BY <2>1, <2>2, GenerationsSuffice
  <2>4. slab' = [slab EXCEPT ![s] = NoOne] /\ gens' = [gens EXCEPT ![s] = @ + 1]
    BY <1>2 DEF Evicted
  <2> HIDE DEF s, o
  <2>5. /\ slab' \in [Slots -> Effects \cup {NoOne}] /\ gens' \in [Slots -> Generations]
        /\ idOf' \in [Effects -> Ids \cup {NoId}]
    BY <2>1, <2>3, <2>4 DEF Tables
  <2>6. /\ slab'[s] = NoOne /\ gens'[s] = gens[s] + 1
        /\ \A x \in Slots : x # s => slab'[x] = slab[x] /\ gens'[x] = gens[x]
    BY <2>1, <2>4 DEF Tables
  <2>7. \A x \in Slots : gens[x] \in Nat
    BY FS_CardinalityType, ReactiveAssumption DEF Tables, Generations
  <2>8. Minted'
    <3> SUFFICES ASSUME NEW e \in Effects, idOf[e] # NoId
                 PROVE  \/ idOf[e].gen < gens'[idOf[e].slot]
                        \/ idOf[e].gen = gens'[idOf[e].slot] /\ slab'[idOf[e].slot] = e
      BY DEF Minted
    <3>1. idOf[e] \in Ids
      BY DEF Tables
    <3>2. idOf[e].slot \in Slots /\ idOf[e].gen \in Nat
      BY <3>1, FS_CardinalityType, ReactiveAssumption DEF Ids, Generations
    <3>3. \/ idOf[e].gen < gens[idOf[e].slot]
          \/ idOf[e].gen = gens[idOf[e].slot] /\ slab[idOf[e].slot] = e
      BY DEF Tables, Minted
    <3> QED BY <2>6, <2>7, <3>2, <3>3
  <2>9. Owned'
    <3> SUFFICES ASSUME NEW x \in Slots, slab'[x] # NoOne
                 PROVE  slab'[x] \in Effects /\ idOf[slab'[x]] = [slot |-> x, gen |-> gens'[x]]
      BY DEF Owned
    <3> QED BY <2>6 DEF Tables, Owned
  <2>10. Filled'
    <3> SUFFICES ASSUME NEW x \in Slots, NEW g \in Nat, g < gens'[x]
                 PROVE  \E e \in Effects : idOf[e] = [slot |-> x, gen |-> g]
      BY DEF Filled
    <3>1. CASE g < gens[x]
      BY <3>1 DEF Tables, Filled
    <3>2. CASE ~ g < gens[x]
      <4>1. x = s /\ g = gens[s]
        BY <2>6, <2>7, <3>2
      <4> QED BY <4>1, <2>1, <2>2
    <3> QED BY <3>1, <3>2
  <2> QED BY <2>5, <2>8, <2>9, <2>10 DEF Tables
<1> QED BY <1>1, <1>2

\* What a creation does: a new id, which nothing refers to yet.
LEMMA CreatedFacts ==
  ASSUME Tables, NEW e \in Effects, Create(e)
  PROVE  /\ Tables'
         /\ \A x \in Effects : idOf[x] # NoId => idOf'[x] = idOf[x]
         /\ \A y \in Ids : Live(y) => Live(y)' /\ Occupant(y)' = Occupant(y)
         /\ \A y \in Ids : Live(y)' /\ (\E x \in Effects : idOf[x] = y) => Live(y)
<1>1. PICK s \in Slots :
        /\ slab[s] = NoOne /\ slab' = [slab EXCEPT ![s] = e]
        /\ idOf' = [idOf EXCEPT ![e] = [slot |-> s, gen |-> gens[s]]]
  BY DEF Create
<1>2. idOf[e] = NoId /\ gens' = gens
  BY DEF Create
<1> DEFINE n == [slot |-> s, gen |-> gens[s]]
<1>3. gens[s] \in Generations /\ n \in Ids /\ n # NoId /\ n.slot = s /\ n.gen = gens[s]
  BY DEF Tables, Ids, NoId
<1>4. NoOne \notin Effects /\ \A x \in Slots : gens[x] \in Nat
  BY FS_CardinalityType, ReactiveAssumption DEF Tables, Generations
<1>5. idOf' = [idOf EXCEPT ![e] = n]
  BY <1>1
<1> HIDE DEF n
<1>6. /\ slab'[s] = e /\ \A x \in Slots : x # s => slab'[x] = slab[x]
      /\ idOf'[e] = n /\ \A x \in Effects : x # e => idOf'[x] = idOf[x]
  BY <1>1, <1>5 DEF Tables
<1>7. ASSUME NEW x \in Effects PROVE idOf[x] # n
  <2> SUFFICES ASSUME idOf[x] = n PROVE FALSE
    OBVIOUS
  <2>1. n.gen < gens[n.slot] \/ slab[n.slot] = x
    BY <1>3 DEF Tables, Minted
  <2> QED BY <2>1, <1>1, <1>3, <1>4
<1>8. Minted'
  <2> SUFFICES ASSUME NEW x \in Effects, idOf'[x] # NoId
               PROVE  \/ idOf'[x].gen < gens[idOf'[x].slot]
                      \/ idOf'[x].gen = gens[idOf'[x].slot] /\ slab'[idOf'[x].slot] = x
    BY <1>2 DEF Minted
  <2>1. CASE x = e
    BY <2>1, <1>3, <1>6
  <2>2. CASE x # e
    <3>1. idOf'[x] = idOf[x] /\ idOf[x] \in Ids
      BY <2>2, <1>6 DEF Tables
    <3>2. \/ idOf[x].gen < gens[idOf[x].slot]
          \/ idOf[x].gen = gens[idOf[x].slot] /\ slab[idOf[x].slot] = x
      BY <3>1 DEF Tables, Minted
    <3>3. idOf[x].slot \in Slots
      BY <3>1 DEF Ids
    <3> QED BY <3>1, <3>2, <3>3, <1>1, <1>4, <1>6
  <2> QED BY <2>1, <2>2
<1>9. Owned'
  <2> SUFFICES ASSUME NEW x \in Slots, slab'[x] # NoOne
               PROVE  slab'[x] \in Effects /\ idOf'[slab'[x]] = [slot |-> x, gen |-> gens[x]]
    BY <1>2 DEF Owned
  <2>1. CASE x = s
    BY <2>1, <1>6 DEF n
  <2>2. CASE x # s
    <3>1. slab[x] # NoOne /\ slab'[x] = slab[x]
      BY <2>2, <1>6
    <3>2. slab[x] \in Effects /\ idOf[slab[x]] = [slot |-> x, gen |-> gens[x]]
      BY <3>1 DEF Tables, Owned
    <3>3. slab[x] # e
      BY <3>2, <1>2 DEF NoId
    <3> QED BY <3>1, <3>2, <3>3, <1>6
  <2> QED BY <2>1, <2>2
<1>10. Filled'
  <2> SUFFICES ASSUME NEW x \in Slots, NEW g \in Nat, g < gens[x]
               PROVE  \E y \in Effects : idOf'[y] = [slot |-> x, gen |-> g]
    BY <1>2 DEF Filled
  <2>1. PICK y \in Effects : idOf[y] = [slot |-> x, gen |-> g]
    BY DEF Tables, Filled
  <2>2. y # e
    <3>1. [slot |-> x, gen |-> g] # <<>>
      OBVIOUS
    <3> QED BY <2>1, <3>1, <1>2 DEF NoId
  <2> QED BY <2>1, <2>2, <1>6
<1>11. Tables'
  <2>1. slab' \in [Slots -> Effects \cup {NoOne}]
    BY <1>1 DEF Tables
  <2>2. idOf' \in [Effects -> Ids \cup {NoId}]
    BY <1>3, <1>5 DEF Tables
  <2> QED BY <2>1, <2>2, <1>2, <1>8, <1>9, <1>10 DEF Tables
<1>12. \A x \in Effects : idOf[x] # NoId => idOf'[x] = idOf[x]
  BY <1>2, <1>6
<1>13. ASSUME NEW y \in Ids, Live(y)
       PROVE  Live(y)' /\ Occupant(y)' = Occupant(y)
  <2>1. y.slot # s /\ y.slot \in Slots
    BY <1>1, <1>13 DEF Live, Ids
  <2> QED BY <2>1, <1>2, <1>6, <1>13 DEF Live, Occupant
<1>14. ASSUME NEW y \in Ids, Live(y)', NEW x \in Effects, idOf[x] = y
       PROVE  Live(y)
  <2>1. y.slot \in Slots /\ y = [slot |-> y.slot, gen |-> y.gen] /\ y # NoId /\ gens[y.slot] = y.gen
    BY <1>2, <1>14 DEF Ids, Live
  <2>2. y.slot # s
    BY <2>1, <1>7, <1>14 DEF n
  <2>3. slab[y.slot] # NoOne
    BY <2>1, <2>2, <1>6, <1>14 DEF Live
  <2> QED BY <2>1, <2>3 DEF Live
<1> QED BY <1>11, <1>12, <1>13, <1>14

LEMMA IdIsId == ASSUME NEW id \in Ids PROVE id # NoId
  BY DEF Ids, NoId

\* clear_deps_for, and what goes with it in a release: no live id keeps an edge that its
\* effect does not know of.
LEMMA ClearedGraph ==
  ASSUME Tables, Graph, NEW id \in Ids, ClearDeps(id), idOf' = idOf,
         UNCHANGED <<slab, gens>> \/ Evicted(id)
  PROVE  Graph'
<1>1. CASE ~ Live(id)
  <2>1. subs' = subs /\ deps' = deps
    <3>1. deps' = deps
      BY <1>1 DEF ClearDeps
    <3>2. subs' = [x \in Sources |-> subs[x]]
      BY <1>1 DEF ClearDeps, Unsubscribed
    <3> QED BY <3>1, <3>2 DEF Graph
  <2>2. slab' = slab /\ gens' = gens
    BY <1>1 DEF Evicted
  <2>3. Graph
    OBVIOUS
  <2> QED BY <2>1, <2>2, <2>3 DEF Graph, SubsKnown, EdgesAgree, Live, Occupant
<1>2. CASE Live(id)
  <2> DEFINE o == Occupant(id)
  <2>1. o \in Effects /\ idOf[o] = id
    BY <1>2, LiveFacts
  <2>2. deps' = [deps EXCEPT ![o] = {}]
    BY <1>2 DEF ClearDeps
  <2>3. deps' \in [Effects -> SUBSET Sources]
    BY <2>1, <2>2 DEF Graph
  <2>4. ASSUME NEW x \in Sources
        PROVE  /\ subs'[x] \in Seq(Ids) /\ Once(subs'[x])
               /\ \A i \in 1..Len(subs'[x]) : /\ \E j \in 1..Len(subs[x]) : subs[x][j] = subs'[x][i]
                                              /\ x \in deps[o] => subs'[x][i] # id
    <3>1. subs[x] \in Seq(Ids) /\ Once(subs[x])
      BY DEF Graph, SubsKnown
    <3>2. CASE x \in deps[o]
      <4>1. subs'[x] = RemoveFirst(subs[x], id)
        BY <1>2, <3>2 DEF ClearDeps, Unsubscribed
      <4> QED BY <3>1, <4>1, RemoveFacts
    <3>3. CASE x \notin deps[o]
      <4>1. subs'[x] = subs[x]
        BY <1>2, <3>3 DEF ClearDeps, Unsubscribed
      <4> QED BY <3>1, <3>3, <4>1
    <3> QED BY <3>2, <3>3
  <2>5. subs' \in [Sources -> Seq(Ids)]
    <3>1. subs' = [x \in Sources |-> subs'[x]]
      BY DEF ClearDeps, Unsubscribed
    <3> QED BY <3>1, <2>4
  <2>6. SubsKnown'
    <3> SUFFICES ASSUME NEW x \in Sources
                 PROVE  /\ Once(subs'[x])
                        /\ \A i \in 1..Len(subs'[x]) : \E e \in Effects : idOf[e] = subs'[x][i]
      BY DEF SubsKnown
    <3>1. \A i \in 1..Len(subs[x]) : \E e \in Effects : idOf[e] = subs[x][i]
      BY DEF Graph, SubsKnown
    <3> QED BY <2>4, <3>1
  <2>7. \A y \in Ids : Live(y)' => Live(y) /\ Occupant(y)' = Occupant(y)
    <3>1. CASE UNCHANGED <<slab, gens>>
      BY <3>1 DEF Live, Occupant
    <3>2. CASE Evicted(id)
      BY <3>2, EvictedFacts
    <3> QED BY <3>1, <3>2
  <2>8. EdgesAgree'
    <3> SUFFICES ASSUME NEW x \in Sources, NEW i \in 1..Len(subs'[x]),
                        NEW y, y = subs'[x][i], Live(y)'
                 PROVE  x \in deps'[Occupant(y)']
      BY <2>5 DEF EdgesAgree, Live, Occupant
    <3>1. y \in Ids
      BY <2>5
    <3>2. PICK j \in 1..Len(subs[x]) : subs[x][j] = y
      BY <2>4
    <3>3. x \in deps[o] => y # id
      BY <2>4
    <3>4. Live(y) /\ Occupant(y)' = Occupant(y)
      BY <2>7, <3>1
    <3>5. subs[x] \in Seq(Ids)
      BY DEF Graph
    <3>6. x \in deps[Occupant(y)]
      BY <3>2, <3>4, <3>5 DEF Graph, EdgesAgree
    <3>7. Occupant(y) \in Effects /\ idOf[Occupant(y)] = y
      BY <3>1, <3>4, LiveFacts
    <3>8. Occupant(y) # o
      BY <2>1, <3>3, <3>6, <3>7
    <3>9. deps'[Occupant(y)] = deps[Occupant(y)]
      BY <2>2, <3>7, <3>8 DEF Graph
    <3> QED BY <3>4, <3>6, <3>9
  <2> QED BY <2>3, <2>5, <2>6, <2>8 DEF Graph
<1> QED BY <1>1, <1>2

\* track_signal adds both directions of an edge, or for a released effect one that
\* leads nowhere.
LEMMA TrackedGraph ==
  ASSUME Tables, Graph, UNCHANGED tables, NEW e \in Effects, idOf[e] # NoId,
         NEW x \in Sources, Track(idOf[e], x)
  PROVE  Graph'
<1> DEFINE id == idOf[e]
<1>1. id \in Ids /\ slab' = slab /\ gens' = gens /\ idOf' = idOf
  BY DEF Tables, tables
<1>2. subs[x] \in Seq(Ids) /\ Once(subs[x])
  BY DEF Graph, SubsKnown
<1>3. CASE Contains(subs[x], id)
  <2>1. subs' = subs /\ deps' = deps
    BY <1>3 DEF Track
  <2>2. Graph
    OBVIOUS
  <2> QED BY <1>1, <2>1, <2>2 DEF Graph, SubsKnown, EdgesAgree, Live, Occupant
<1>4. CASE ~ Contains(subs[x], id)
  <2> DEFINE q == Append(subs[x], id)
  <2>1. subs' = [subs EXCEPT ![x] = q]
    BY <1>4 DEF Track
  <2>2. /\ q \in Seq(Ids) /\ Once(q) /\ Len(q) = Len(subs[x]) + 1 /\ Len(subs[x]) \in Nat
        /\ \A i \in 1..Len(subs[x]) : q[i] = subs[x][i]
        /\ q[Len(subs[x]) + 1] = id
    BY <1>1, <1>2, <1>4, AppendOnce, AppendFacts
  <2>4. ~ Live(id) => deps' = deps
    BY <1>4 DEF Track
  <2>5. Live(id) => Occupant(id) = e /\ deps' = [deps EXCEPT ![e] = @ \cup {x}]
    BY <1>4, OwnId DEF Track
  <2> HIDE DEF q
  <2>6. subs' \in [Sources -> Seq(Ids)]
    BY <2>1, <2>2 DEF Graph
  <2>7. deps' \in [Effects -> SUBSET Sources] /\ \A o \in Effects : deps[o] \subseteq deps'[o]
    BY <2>4, <2>5 DEF Graph
  <2>8. subs'[x] = q /\ \A y \in Sources : y # x => subs'[y] = subs[y]
    BY <2>1 DEF Graph
  <2>9. SubsKnown'
    <3> SUFFICES ASSUME NEW y \in Sources
                 PROVE  /\ Once(subs'[y])
                        /\ \A i \in 1..Len(subs'[y]) : \E o \in Effects : idOf[o] = subs'[y][i]
      BY <1>1 DEF SubsKnown
    <3>1. Once(subs[y]) /\ \A i \in 1..Len(subs[y]) : \E o \in Effects : idOf[o] = subs[y][i]
      BY DEF Graph, SubsKnown
    <3>2. CASE y # x
      BY <2>8, <3>1, <3>2
    <3>3. CASE y = x
      <4>1. ASSUME NEW i \in 1..Len(q) PROVE \E o \in Effects : idOf[o] = q[i]
        BY <2>2, <3>1, <3>3
      <4> QED BY <4>1, <2>2, <2>8, <3>3
    <3> QED BY <3>2, <3>3
  <2>10. EdgesAgree'
    <3> SUFFICES ASSUME NEW y \in Sources, NEW i \in 1..Len(subs'[y]), Live(subs'[y][i])
                 PROVE  y \in deps'[Occupant(subs'[y][i])]
      BY <1>1, <2>6 DEF EdgesAgree, Live, Occupant
    <3>1. subs'[y][i] \in Ids
      BY <2>6
    <3>2. Occupant(subs'[y][i]) \in Effects
      BY <3>1, LiveFacts
    <3>3. CASE \E j \in 1..Len(subs[y]) : subs'[y][i] = subs[y][j]
      <4>1. y \in deps[Occupant(subs'[y][i])]
        BY <3>3 DEF Graph, EdgesAgree
      <4> QED BY <4>1, <3>2, <2>7
    <3>4. CASE y = x /\ subs'[y][i] = id
      <4>1. Live(id)
        BY <3>4
      <4>2. Occupant(id) = e /\ deps' = [deps EXCEPT ![e] = @ \cup {x}]
        BY <4>1, <2>5
      <4> QED BY <3>4, <4>2 DEF Graph
    <3> QED BY <2>2, <2>8, <3>3, <3>4
  <2> QED BY <2>6, <2>7, <2>9, <2>10 DEF Graph
<1> QED BY <1>3, <1>4

\* A new id has no edge yet.
LEMMA CreatedGraph ==
  ASSUME Tables, Graph, NEW e \in Effects, Create(e)
  PROVE  Graph'
<1>1. subs' = subs /\ deps' = deps
  BY DEF Create
<1>2. /\ \A x \in Effects : idOf[x] # NoId => idOf'[x] = idOf[x]
      /\ \A y \in Ids : Live(y) => Live(y)' /\ Occupant(y)' = Occupant(y)
      /\ \A y \in Ids : Live(y)' /\ (\E x \in Effects : idOf[x] = y) => Live(y)
  BY CreatedFacts
<1>3. ASSUME NEW x \in Sources, NEW i \in 1..Len(subs[x])
      PROVE  subs[x][i] \in Ids /\ \E o \in Effects : idOf[o] = subs[x][i]
  BY DEF Graph, SubsKnown
<1>4. SubsKnown'
  <2> SUFFICES ASSUME NEW x \in Sources, NEW i \in 1..Len(subs[x])
               PROVE  \E o \in Effects : idOf'[o] = subs[x][i]
    BY <1>1 DEF Graph, SubsKnown
  <2> QED BY <1>2, <1>3, IdIsId
<1>5. EdgesAgree'
  <2> SUFFICES ASSUME NEW x \in Sources, NEW i \in 1..Len(subs[x]), Live(subs[x][i])'
               PROVE  x \in deps[Occupant(subs[x][i])']
    BY <1>1 DEF Graph, EdgesAgree, Live, Occupant
  <2>1. Live(subs[x][i]) /\ Occupant(subs[x][i])' = Occupant(subs[x][i])
    BY <1>1, <1>2, <1>3
  <2> QED BY <2>1 DEF Graph, EdgesAgree
<1> QED BY <1>1, <1>4, <1>5 DEF Graph

\* Whatever leaves the tables and the edges alone leaves the graph as it is.
LEMMA SameGraph ==
  ASSUME Tables, Graph, UNCHANGED <<tables, deps, subs>>
  PROVE  Tables' /\ Graph'
  BY DEF Tables, Graph, Minted, Owned, Filled, SubsKnown, EdgesAgree, Live, Occupant, tables

LEMMA GraphKept == ASSUME IInv, Next PROVE Tables' /\ Graph'
<1>1. Tables /\ Graph
  BY DEF IInv
<1>2. CASE BrowserEvent \/ FlushMicrotask \/ RunCleanups \/ Route \/ NextSignal \/ EndDispatch
            \/ FlushNext \/ EndFlush \/ EnterBatch \/ ExitBatch \/ FlushSync \/ OnCleanup \/ Return
  <2>1. UNCHANGED <<tables, deps, subs>>
    BY <1>2 DEF BrowserEvent, FlushMicrotask, RunCleanups, Route, NextSignal, EndDispatch, FlushNext,
                EndFlush, EnterBatch, ExitBatch, FlushSync, OnCleanup, Return, graph, tables
  <2> QED BY <1>1, <2>1, SameGraph
<1>3. CASE \E x \in Sources : Read(x) \/ ReadDirty(x)
  <2>1. PICK x \in Sources : Read(x) \/ ReadDirty(x)
    BY <1>3
  <2>2. CASE ReadDirty(x)
    <3>1. UNCHANGED <<tables, deps, subs>>
      BY <2>2 DEF ReadDirty, graph
    <3> QED BY <1>1, <3>1, SameGraph
  <2>3. CASE Read(x) /\ Top.op # "body"
    <3>1. UNCHANGED <<tables, deps, subs>>
      BY <2>3 DEF Read, Subscribe
    <3> QED BY <1>1, <3>1, SameGraph
  <2>4. CASE Read(x) /\ Top.op = "body"
    <3>1. Track(Top.id, x) /\ UNCHANGED tables /\ stack # <<>>
      BY <2>4 DEF Read, Subscribe, InUserCode
    <3>2. Top.eff \in Effects /\ idOf[Top.eff] # NoId /\ Top.id = idOf[Top.eff]
      BY <2>4, <3>1, TopFacts DEF IInv, FrameGood
    <3>3. Graph'
      BY <1>1, <3>1, <3>2, TrackedGraph
    <3> QED BY <1>1, <3>1, <3>3 DEF Tables, Minted, Owned, Filled, tables
  <2> QED BY <2>1, <2>2, <2>3, <2>4
<1>4. CASE FinishRead
  <2> DEFINE f == Last(Rest)
  <2>1. stack # <<>> /\ Top.op = "get" /\ Top.src \in Sources /\ UNCHANGED tables
    BY <1>4, TopFacts DEF IInv, FinishRead, At, GetFrames, Sources
  <2>2. Rest # <<>> /\ StackGood(Rest, idOf)
    BY <2>1, PopGood DEF IInv, Calling, Rest, Top
  <2>3. FrameGood(f, idOf)
    BY <2>2, PopGood
  <2>4. CASE f.op # "body"
    <3>1. UNCHANGED <<tables, deps, subs>>
      BY <2>1, <2>4, <1>4 DEF FinishRead, Subscribe
    <3> QED BY <1>1, <3>1, SameGraph
  <2>5. CASE f.op = "body"
    <3>1. Track(f.id, Top.src)
      BY <2>5, <1>4 DEF FinishRead, Subscribe
    <3>2. f.eff \in Effects /\ idOf[f.eff] # NoId /\ f.id = idOf[f.eff]
      BY <2>3, <2>5 DEF FrameGood
    <3>3. Graph'
      BY <1>1, <2>1, <3>1, <3>2, TrackedGraph
    <3> QED BY <1>1, <2>1, <3>3 DEF Tables, Minted, Owned, Filled, tables
  <2> QED BY <2>4, <2>5
<1>5. CASE StartBody
  <2>1. ClearDeps(Top.id) /\ UNCHANGED tables /\ stack # <<>> /\ Top.op = "clean"
    BY <1>5 DEF StartBody, At
  <2>2. Top.eff \in Effects /\ idOf[Top.eff] # NoId /\ Top.id = idOf[Top.eff]
    BY <2>1, TopFacts DEF IInv, FrameGood
  <2>3. Top.id \in Ids /\ idOf' = idOf /\ UNCHANGED <<slab, gens>>
    BY <1>1, <2>1, <2>2 DEF Tables, tables
  <2>4. Graph'
    BY <1>1, <2>1, <2>3, ClearedGraph
  <2> QED BY <1>1, <2>1, <2>4 DEF Tables, Minted, Owned, Filled, tables
<1>6. CASE \E e \in Effects : Create(e)
  BY <1>1, <1>6, CreatedFacts, CreatedGraph
<1>7. ASSUME NEW id \in Ids, Retire(id), idOf' = idOf
      PROVE  Tables' /\ Graph'
  BY <1>1, <1>7, EvictedTables, ClearedGraph DEF Retire
<1>8. CASE \E e \in Effects : Free(e)
  <2>1. PICK e \in Effects : Free(e)
    BY <1>8
  <2>2. idOf[e] \in Ids /\ idOf' = idOf
    BY <1>1, <2>1 DEF Free, Tables
  <2>3. Retire(idOf[e]) \/ UNCHANGED <<slab, gens, deps, subs>>
    BY <2>1 DEF Free
  <2> QED BY <1>1, <1>7, <2>2, <2>3, SameGraph DEF tables
<1>9. CASE FinishRelease
  <2>1. Top.id \in Ids
    BY <1>9, TopFacts DEF IInv, FinishRelease, At, ReleaseFrames
  <2> QED BY <1>7, <1>9, <2>1 DEF FinishRelease
<1>10. CASE \E s \in Signals : Write(s) \/ ClearScope(s)
  <2>1. PICK s \in Signals : Write(s) \/ ClearScope(s)
    BY <1>10
  <2>2. CASE Write(s)
    <3>1. UNCHANGED <<tables, deps, subs>>
      BY <2>2 DEF Write, graph
    <3> QED BY <1>1, <3>1, SameGraph
  <2>3. CASE ClearScope(s)
    <3>1. subs' = [subs EXCEPT ![s] = <<>>] /\ UNCHANGED <<tables, deps>>
      BY <2>3 DEF ClearScope
    <3>2. subs' \in [Sources -> Seq(Ids)]
      <4>1. s \in Sources /\ <<>> \in Seq(Ids)
        BY DEF Sources
      <4>2. subs \in [Sources -> Seq(Ids)]
        BY <1>1 DEF Graph
      <4> QED BY <3>1, <4>1, <4>2
    <3>3. ASSUME NEW x \in Sources
          PROVE  Len(subs'[x]) = 0 \/ subs'[x] = subs[x]
      <4>1. CASE x = s
        <5>1. subs'[x] = <<>>
          BY <1>1, <3>1, <4>1 DEF Graph
        <5> QED BY <5>1
      <4>2. CASE x # s
        BY <1>1, <3>1, <4>2 DEF Graph
      <4> QED BY <4>1, <4>2
    <3>31. slab' = slab /\ gens' = gens /\ idOf' = idOf /\ deps' = deps
      BY <3>1 DEF tables
    <3>32. SubsKnown'
      <4> SUFFICES ASSUME NEW x \in Sources
                   PROVE  /\ Once(subs'[x])
                          /\ \A i \in 1..Len(subs'[x]) : \E e \in Effects : idOf[e] = subs'[x][i]
        BY <3>31 DEF SubsKnown
      <4> QED BY <1>1, <3>3 DEF Graph, SubsKnown, Once
    <3>33. EdgesAgree'
      <4> SUFFICES ASSUME NEW x \in Sources, NEW i \in 1..Len(subs'[x]), Live(subs'[x][i])
                   PROVE  x \in deps[Occupant(subs'[x][i])]
        BY <3>2, <3>31 DEF EdgesAgree, Live, Occupant
      <4>1. subs'[x] = subs[x] /\ subs[x] \in Seq(Ids)
        BY <1>1, <3>3 DEF Graph
      <4> QED BY <1>1, <4>1 DEF Graph, EdgesAgree
    <3>4. SubsKnown' /\ EdgesAgree'
      BY <3>32, <3>33
    <3>5. Tables'
      BY <1>1, <3>1 DEF Tables, Minted, Owned, Filled, tables
    <3> QED BY <1>1, <3>1, <3>2, <3>4, <3>5 DEF Graph
  <2> QED BY <2>1, <2>2, <2>3
<1> QED BY <1>2, <1>3, <1>4, <1>5, <1>6, <1>8, <1>9, <1>10 DEF Next, Machinery, UserSteps

-----------------------------------------------------------------------------
(***************************************************************************)
(* Queue, Flags and Counts are kept.                                       *)
(***************************************************************************)

LEMMA RetiredQueue ==
  ASSUME Tables, Queue, NEW id \in Ids, Retire(id)
  PROVE  Queue'
<1>1. queue \in Seq(Ids) /\ Once(queue) /\ \A i \in 1..Len(queue) : Live(queue[i])
  BY DEF Queue, QueueGood
<1>2. \A y \in Ids : Live(y) /\ y # id => Live(y)'
  BY EvictedFacts DEF Retire
<1>3. CASE Live(id)
  <2>1. queue' = RemoveFirst(queue, id)
    BY <1>3 DEF Retire
  <2>2. /\ queue' \in Seq(Ids) /\ Once(queue')
        /\ \A i \in 1..Len(queue') : queue'[i] # id /\ \E j \in 1..Len(queue) : queue[j] = queue'[i]
    BY <1>1, <2>1, RemoveFacts
  <2>3. ASSUME NEW i \in 1..Len(queue'), NEW y, y = queue'[i] PROVE Live(y)'
    BY <1>1, <1>2, <2>2, <2>3
  <2>4. \A i \in 1..Len(queue') : Live(queue[i])'
    BY <2>3 DEF Live
  <2> QED BY <2>2, <2>4 DEF Queue, QueueGood
<1>4. CASE ~ Live(id)
  <2>1. queue' = queue /\ slab' = slab /\ gens' = gens
    BY <1>4 DEF Retire, Evicted
  <2> QED BY <1>1, <2>1 DEF Queue, QueueGood, Live
<1> QED BY <1>3, <1>4

LEMMA SameQueue ==
  ASSUME Queue, UNCHANGED <<slab, gens, queue>>
  PROVE  Queue'
  BY DEF Queue, QueueGood, Live

LEMMA QueueKept == ASSUME IInv, Next PROVE Queue'
<1>1. Tables /\ Queue
  BY DEF IInv
<1>2. CASE BrowserEvent \/ RunCleanups \/ StartBody \/ NextSignal \/ EndDispatch \/ FinishRead
            \/ FlushNext \/ EndFlush \/ EnterBatch \/ ExitBatch \/ OnCleanup \/ Return
  <2>1. UNCHANGED <<slab, gens, queue>>
    BY <1>2 DEF BrowserEvent, RunCleanups, StartBody, NextSignal, EndDispatch, FinishRead, FlushNext,
                EndFlush, EnterBatch, ExitBatch, OnCleanup, Return, tables, sched
  <2> QED BY <1>1, <2>1, SameQueue
<1>3. CASE (\E x \in Sources : Read(x) \/ ReadDirty(x)) \/ (\E s \in Signals : Write(s) \/ ClearScope(s))
  <2>1. UNCHANGED <<slab, gens, queue>>
    BY <1>3 DEF Read, ReadDirty, Write, ClearScope, tables, sched
  <2> QED BY <1>1, <2>1, SameQueue
<1>4. CASE FlushMicrotask \/ FlushSync
  <2>1. queue' = <<>>
    BY <1>4 DEF FlushMicrotask, FlushSync, BeginFlush
  <2>2. queue' \in Seq(Ids) /\ Len(queue') = 0
    BY <2>1
  <2> QED BY <2>2 DEF Queue, QueueGood, Once
<1>5. CASE \E e \in Effects : Create(e)
  <2>1. PICK e \in Effects : Create(e)
    BY <1>5
  <2>2. queue' = queue
    BY <2>1 DEF Create, sched
  <2>3. \A y \in Ids : Live(y) => Live(y)'
    BY <1>1, <2>1, CreatedFacts
  <2>4. ASSUME NEW i \in 1..Len(queue), NEW y, y = queue[i] PROVE Live(y)'
    BY <1>1, <2>3, <2>4 DEF Queue, QueueGood
  <2>5. \A i \in 1..Len(queue) : Live(queue[i])'
    BY <2>2, <2>4 DEF Live
  <2> QED BY <1>1, <2>2, <2>5 DEF Queue, QueueGood
<1>6. CASE \E e \in Effects : Free(e)
  <2>1. PICK e \in Effects : Free(e)
    BY <1>6
  <2>2. idOf[e] \in Ids
    BY <1>1, <2>1 DEF Free, Tables
  <2>3. Retire(idOf[e]) \/ UNCHANGED <<slab, gens, queue>>
    BY <2>1 DEF Free
  <2> QED BY <1>1, <2>2, <2>3, RetiredQueue, SameQueue
<1>7. CASE FinishRelease
  <2>1. Top.id \in Ids
    BY <1>7, TopFacts DEF IInv, FinishRelease, At, ReleaseFrames
  <2> QED BY <1>1, <1>7, <2>1, RetiredQueue DEF FinishRelease
<1>8. CASE Route
  <2> DEFINE id == Head(Top.ids)
  <2>1. Top \in LoopFrames /\ Top.ids # <<>>
    BY <1>8, TopFacts DEF IInv, Route, At
  <2>2. id \in Ids
    BY <2>1 DEF LoopFrames
  <2>3. \/ queue' = queue
        \/ Live(id) /\ ~ Contains(queue, id) /\ queue' = Append(queue, id)
    BY <1>8 DEF Route
  <2>4. slab' = slab /\ gens' = gens
    BY <1>8 DEF Route, tables
  <2> HIDE DEF id
  <2>5. CASE queue' = queue
    BY <1>1, <2>4, <2>5, SameQueue
  <2>6. CASE Live(id) /\ ~ Contains(queue, id) /\ queue' = Append(queue, id)
    <3>1. queue \in Seq(Ids) /\ Once(queue) /\ \A i \in 1..Len(queue) : Live(queue[i])
      BY <1>1 DEF Queue, QueueGood
    <3>2. queue' \in Seq(Ids) /\ Once(queue')
      BY <2>2, <2>6, <3>1, AppendOnce, AppendFacts
    <3>3. /\ Len(queue') = Len(queue) + 1 /\ Len(queue) \in Nat
          /\ \A i \in 1..Len(queue) : queue'[i] = queue[i]
          /\ queue'[Len(queue) + 1] = id
      BY <2>2, <2>6, <3>1, AppendFacts
    <3>4. \A i \in 1..Len(queue') : Live(queue'[i])
      BY <2>6, <3>1, <3>3
    <3> QED BY <2>4, <3>2, <3>4 DEF Queue, QueueGood, Live
  <2> QED BY <2>3, <2>5, <2>6
<1> QED BY <1>2, <1>3, <1>4, <1>5, <1>6, <1>7, <1>8 DEF Next, Machinery, UserSteps

\* Releasing only takes away.
LEMMA RetiredFlags ==
  ASSUME Tables, Flags, NEW id \in Ids, Retire(id), UNCHANGED <<dirty, gone, worklist, early>>
  PROVE  Flags'
<1>1. CASE Live(id)
  <2>1. open' \subseteq open /\ lag' \subseteq lag /\ muted' \subseteq muted
    BY <1>1 DEF Retire
  <2>2. basis' = [basis EXCEPT ![Occupant(id)] = {}]
    BY <1>1 DEF Retire
  <2>3. basis' \in [Effects -> SUBSET Signals]
    BY <2>2 DEF Flags
  <2> QED BY <2>1, <2>3 DEF Flags
<1>2. CASE ~ Live(id)
  <2>1. open' = open /\ UNCHANGED past
    BY <1>2 DEF Retire
  <2> QED BY <2>1 DEF Flags, past
<1> QED BY <1>1, <1>2

LEMMA SameFlags ==
  ASSUME Flags, UNCHANGED <<open, dirty, gone, worklist, past, early>>
  PROVE  Flags'
  BY DEF Flags, past

LEMMA FlagsKept == ASSUME IInv, Next PROVE Flags'
<1>1. Flags /\ Tables
  BY DEF IInv
<1>2. CASE FlushMicrotask \/ EndDispatch \/ EndFlush \/ EnterBatch \/ ExitBatch \/ FlushSync \/ FinishRead
  <2>1. UNCHANGED <<open, dirty, gone, worklist, past, early>>
    BY <1>2 DEF FlushMicrotask, EndDispatch, EndFlush, EnterBatch, ExitBatch, FlushSync, FinishRead, graph
  <2> QED BY <1>1, <2>1, SameFlags
<1>3. CASE \E x \in Sources : Read(x) \/ ReadDirty(x)
  <2>1. UNCHANGED <<open, dirty, gone, worklist, past, early>>
    BY <1>3 DEF Read, ReadDirty, graph
  <2> QED BY <1>1, <2>1, SameFlags
<1>4. CASE BrowserEvent
  <2>1. early' \in 0..MaxEarly
    BY <1>1, <1>4, ReactiveAssumption DEF BrowserEvent, Flags
  <2>2. UNCHANGED <<open, dirty, gone, worklist, past>>
    BY <1>4 DEF BrowserEvent, graph
  <2> QED BY <1>1, <2>1, <2>2 DEF Flags, past
<1>5. CASE \E e \in Effects : Create(e)
  <2>1. dirty' \subseteq Computeds /\ UNCHANGED <<open, gone, worklist, past, early>>
    BY <1>1, <1>5 DEF Create, Flags
  <2> QED BY <1>1, <2>1 DEF Flags, past
<1>6. CASE RunCleanups
  <2>1. open' \subseteq Effects /\ UNCHANGED <<dirty, gone, worklist, past, early>>
    BY <1>1, <1>6 DEF RunCleanups, Flags
  <2> QED BY <1>1, <2>1 DEF Flags, past
<1>7. CASE StartBody
  <2>1. stack # <<>> /\ Top.op = "clean"
    BY <1>7 DEF StartBody, At
  <2>2. Top.eff \in Effects
    BY <2>1, TopFacts DEF IInv, FrameGood
  <2>3. muted' \subseteq Effects /\ UNCHANGED <<open, dirty, gone, worklist, basis, lag, early>>
    BY <1>1, <1>7, <2>2 DEF StartBody, Flags
  <2> QED BY <1>1, <2>3 DEF Flags
<1>8. CASE \E s \in Signals : Write(s) \/ ClearScope(s)
  <2>1. /\ lag' \subseteq Effects /\ gone' \subseteq Signals
        /\ UNCHANGED <<open, dirty, worklist, basis, muted, early>>
    BY <1>1, <1>8 DEF Write, ClearScope, Flags, graph, past
  <2> QED BY <1>1, <2>1 DEF Flags
<1>9. CASE Route
  <2> DEFINE id == Head(Top.ids)
  <2>1. /\ dirty' = dirty /\ worklist' = worklist
        \/ /\ Occupant(id) \in Computeds
           /\ dirty' = dirty \cup {Occupant(id)} /\ worklist' = Append(worklist, Occupant(id))
    BY <1>9 DEF Route
  <2> HIDE DEF id
  <2>2. worklist' \in Seq(Computeds) /\ dirty' \subseteq Computeds
    BY <1>1, <2>1 DEF Flags
  <2> QED BY <1>1, <1>9, <2>2 DEF Flags, Route, past
<1>10. CASE NextSignal
  <2>1. worklist' \in Seq(Computeds) /\ UNCHANGED <<open, dirty, gone, past, early>>
    BY <1>1, <1>10, TailFacts DEF NextSignal, Flags, graph
  <2> QED BY <1>1, <2>1 DEF Flags, past
<1>11. CASE FlushNext
  <2> DEFINE id == Head(Top.ids)
  <2>1. Top \in LoopFrames /\ Top.ids # <<>>
    BY <1>11, TopFacts DEF IInv, FlushNext, At
  <2>2. id \in Ids
    BY <2>1 DEF LoopFrames
  <2>3. muted' = muted \/ (Live(id) /\ muted' = muted \cup {Occupant(id)})
    BY <1>11 DEF FlushNext
  <2>4. muted' \subseteq Effects
    BY <1>1, <2>2, <2>3, LiveFacts DEF Flags
  <2> QED BY <1>1, <1>11, <2>4 DEF Flags, FlushNext, graph
<1>12. CASE \E e \in Effects : Free(e)
  <2>1. PICK e \in Effects : Free(e)
    BY <1>12
  <2>2. idOf[e] \in Ids /\ UNCHANGED <<dirty, gone, worklist, early>>
    BY <1>1, <2>1 DEF Free, Tables
  <2>3. Retire(idOf[e]) \/ (UNCHANGED past /\ open' \subseteq open)
    BY <2>1 DEF Free
  <2>4. CASE UNCHANGED past /\ open' \subseteq open
    BY <1>1, <2>2, <2>4 DEF Flags, past
  <2> QED BY <1>1, <2>2, <2>3, <2>4, RetiredFlags
<1>13. CASE FinishRelease
  <2>1. Top.id \in Ids
    BY <1>13, TopFacts DEF IInv, FinishRelease, At, ReleaseFrames
  <2> QED BY <1>1, <1>13, <2>1, RetiredFlags DEF FinishRelease
<1>14. CASE OnCleanup
  <2>1. stack # <<>> /\ Top.op = "body"
    BY <1>14 DEF OnCleanup, At
  <2>2. Top.eff \in Effects /\ Top.id = idOf[Top.eff]
    BY <2>1, TopFacts DEF IInv, FrameGood
  <2>3. Live(Top.id) => Occupant(Top.id) = Top.eff
    BY <1>1, <2>2, OwnId
  <2>4. open' \subseteq Effects /\ UNCHANGED <<dirty, gone, worklist, past, early>>
    BY <1>1, <1>14, <2>2, <2>3 DEF OnCleanup, Flags
  <2> QED BY <1>1, <2>4 DEF Flags, past
<1>15. CASE Return
  <2>1. stack # <<>> /\ Top \in CodeFrames /\ (Top.op = "body" => Top.eff \in Effects)
    BY <1>15, TopFacts DEF IInv, FrameGood, Return, InUserCode, UserOps
  <2>2. Top.basis \in SUBSET Signals
    BY <2>1 DEF CodeFrames
  <2>3. basis' \in [Effects -> SUBSET Signals]
    BY <1>1, <1>15, <2>2 DEF Return, Flags
  <2>4. lag' \subseteq Effects /\ dirty' \subseteq Computeds /\ UNCHANGED <<open, gone, worklist, muted, early>>
    BY <1>1, <1>15, <2>1 DEF Return, Flags
  <2> QED BY <1>1, <2>3, <2>4 DEF Flags
<1> QED BY <1>2, <1>3, <1>4, <1>5, <1>6, <1>7, <1>8, <1>9, <1>10, <1>11, <1>12, <1>13, <1>14, <1>15
        DEF Next, Machinery, UserSteps

LEMMA ScheduledCounts ==
  ASSUME Counts, ScheduleFlush
  PROVE  flag' \in BOOLEAN /\ micro' \in Nat
<1>1. CASE flag
  <2>1. flag' = flag /\ micro' = micro
    BY <1>1 DEF ScheduleFlush
  <2> QED BY <2>1 DEF Counts
<1>2. CASE ~ flag
  <2>1. flag' = TRUE /\ micro' = micro + 1
    BY <1>2 DEF ScheduleFlush
  <2>2. micro \in Nat
    BY DEF Counts
  <2>3. micro + 1 \in Nat
    BY <2>2
  <2> QED BY <2>1, <2>3
<1> QED BY <1>1, <1>2

LEMMA CountsKept == ASSUME IInv, Next PROVE Counts'
<1>1. Counts /\ MaxReruns \in Nat
  BY ReactiveAssumption DEF IInv
<1>2. CASE BrowserEvent \/ RunCleanups \/ StartBody \/ NextSignal \/ FinishRead
            \/ EnterBatch \/ OnCleanup \/ Return \/ Route \/ FinishRelease
  <2>1. UNCHANGED <<runs, flag, micro>>
    BY <1>2 DEF BrowserEvent, RunCleanups, StartBody, NextSignal, FinishRead, EnterBatch, OnCleanup,
                Return, Route, FinishRelease, sched
  <2> QED BY <1>1, <2>1 DEF Counts
<1>3. CASE \/ \E x \in Sources : Read(x) \/ ReadDirty(x)
           \/ \E s \in Signals : Write(s) \/ ClearScope(s)
           \/ \E e \in Effects : Create(e) \/ Free(e)
  <2>1. UNCHANGED <<runs, flag, micro>>
    BY <1>3 DEF Read, ReadDirty, Write, ClearScope, Create, Free, sched
  <2> QED BY <1>1, <2>1 DEF Counts
<1>4. CASE FlushMicrotask \/ FlushSync
  <2>1. runs' = runs /\ flag' = FALSE /\ micro' \in {micro, micro - 1} /\ (micro' = micro \/ micro > 0)
    BY <1>4 DEF FlushMicrotask, FlushSync, BeginFlush
  <2>2. micro \in Nat /\ runs' \in [Ids -> 0..MaxReruns + 1]
    BY <1>1, <2>1 DEF Counts
  <2>3. micro' \in Nat
    BY <2>1, <2>2
  <2> QED BY <2>1, <2>2, <2>3 DEF Counts
<1>5. CASE EndDispatch \/ ExitBatch
  <2>1. runs' = runs /\ (ScheduleFlush \/ UNCHANGED <<flag, micro>>)
    BY <1>5 DEF EndDispatch, ExitBatch
  <2> QED BY <1>1, <2>1, ScheduledCounts DEF Counts
<1>6. CASE FlushNext
  <2> DEFINE id == Head(Top.ids)
  <2>1. runs' = [runs EXCEPT ![id] = IF runs[id] >= MaxReruns THEN MaxReruns + 1 ELSE @ + 1]
    BY <1>6 DEF FlushNext
  <2>2. UNCHANGED <<flag, micro>>
    BY <1>6 DEF FlushNext
  <2>3. Top \in LoopFrames /\ Top.ids # <<>>
    BY <1>6, TopFacts DEF IInv, FlushNext, At
  <2>4. id \in Ids
    BY <2>3 DEF LoopFrames
  <2> HIDE DEF id
  <2>5. runs[id] \in 0..MaxReruns + 1
    BY <1>1, <2>4 DEF Counts
  <2>6. (IF runs[id] >= MaxReruns THEN MaxReruns + 1 ELSE runs[id] + 1) \in 0..MaxReruns + 1
    BY <1>1, <2>5
  <2>7. runs' \in [Ids -> 0..MaxReruns + 1]
    BY <1>1, <2>1, <2>4, <2>6 DEF Counts
  <2> QED BY <1>1, <2>2, <2>7 DEF Counts
<1>7. CASE EndFlush
  <2>1. (runs' = runs \/ runs' = [id \in Ids |-> 0]) /\ UNCHANGED <<flag, micro>>
    BY <1>7 DEF EndFlush
  <2> QED BY <1>1, <2>1 DEF Counts
<1> QED BY <1>2, <1>3, <1>4, <1>5, <1>6, <1>7 DEF Next, Machinery, UserSteps

-----------------------------------------------------------------------------
(***************************************************************************)
(* Flushes are kept: what promises a flush, or is one, stays on the stack. *)
(***************************************************************************)

\* The frames that will schedule a flush once they end, and the flushes.
Will(f)      == Batches(f) \/ (f.op = "dispatch" /\ f.any)
Wills        == {f \in Frames : Will(f)}
FlushFrames  == {f \in Frames : f.op = "flush"}
Kinds        == {Wills, FlushFrames}
Has(stk, S)  == \E i \in 1..Len(stk) : stk[i] \in S

LEMMA HasPush ==
  ASSUME NEW T, NEW stk \in Seq(T), NEW f \in T, NEW S
  PROVE  Has(Append(stk, f), S) <=> Has(stk, S) \/ f \in S
<1> DEFINE r == Append(stk, f)
<1>1. /\ Len(r) = Len(stk) + 1 /\ Len(stk) \in Nat /\ r[Len(stk) + 1] = f
      /\ \A i \in 1..Len(stk) : r[i] = stk[i]
  BY AppendFacts
<1> HIDE DEF r
<1>2. Has(r, S) <=> Has(stk, S) \/ f \in S
  BY <1>1 DEF Has
<1> QED BY <1>2 DEF r

LEMMA HasPop ==
  ASSUME NEW T, NEW stk \in Seq(T), stk # <<>>, NEW S
  PROVE  Has(stk, S) <=> Has(Front(stk), S) \/ Last(stk) \in S
<1> DEFINE r == Front(stk)
<1>1. /\ Len(stk) \in Nat /\ Len(stk) > 0 /\ Len(r) = Len(stk) - 1
      /\ \A i \in 1..Len(stk) - 1 : r[i] = stk[i]
      /\ Last(stk) = stk[Len(stk)]
  BY FrontFacts
<1> HIDE DEF r
<1>2. Has(stk, S) <=> Has(r, S) \/ Last(stk) \in S
  BY <1>1 DEF Has
<1> QED BY <1>2 DEF r

\* Replacing the top by a frame of the same kind loses nothing.
LEMMA HasReplace ==
  ASSUME NEW stk \in Seq(Frames), stk # <<>>, NEW f \in Frames, NEW S,
         Last(stk) \in S => f \in S, Has(stk, S)
  PROVE  Has(Append(Front(stk), f), S)
<1>1. Front(stk) \in Seq(Frames)
  BY FrontFacts
<1>2. Has(Front(stk), S) \/ Last(stk) \in S
  BY HasPop
<1> QED BY <1>1, <1>2, HasPush

\* A user frame is of a kind by its batch only; the other frames that run code are of none.
LEMMA KindFacts ==
  ASSUME NEW f \in Frames, NEW S \in Kinds
  PROVE  /\ f.op \in UserOps /\ ~ f.batch => f \notin S
         /\ f.op \in {"clean", "get", "release"} => f \notin S
         /\ \A g \in Frames : f.op \in UserOps /\ g.op \in UserOps /\ (f.batch => g.batch)
                                => (f \in S => g \in S)
         /\ \A g \in Frames : f.op \in {"flush", "dispatch"} /\ g.op = f.op /\ (f.any => g.any)
                                => (f \in S => g \in S)
  BY DEF Kinds, Wills, FlushFrames, Will, Batches, UserOps

LEMMA StackFacts ==
  ASSUME Calling
  PROVE  /\ stack \in Seq(Frames)
         /\ Batching \/ (\E i \in Holding("dispatch") : stack[i].any) <=> Has(stack, Wills)
         /\ Holding("flush") # {} <=> Has(stack, FlushFrames)
<1>1. stack \in Seq(Frames) /\ DOMAIN stack = 1..Len(stack)
  BY DEF Calling, StackGood
<1>2. \A i \in 1..Len(stack) : stack[i] \in Frames
  BY <1>1
<1>3. Batching \/ (\E i \in Holding("dispatch") : stack[i].any) <=> Has(stack, Wills)
  BY <1>1, <1>2 DEF Batching, Holding, Has, Wills, Will, Batches, UserOps
<1>4. Holding("flush") # {} <=> Has(stack, FlushFrames)
  BY <1>1, <1>2 DEF Holding, Has, FlushFrames
<1> QED BY <1>1, <1>3, <1>4

LEMMA OutdateHas ==
  ASSUME NEW stk, StackGood(stk, idOf), NEW s, NEW S \in Kinds, Has(stk, S)
  PROVE  Has(Outdate(stk, s), S) /\ Outdate(stk, s) \in Seq(Frames)
<1> DEFINE r == Outdate(stk, s)
<1>1. /\ StackGood(r, idOf) /\ Len(r) = Len(stk)
      /\ \A i \in 1..Len(stk) : /\ r[i].op = stk[i].op
                                /\ Batches(r[i]) = Batches(stk[i])
                                /\ stk[i].op # "body" => r[i] = stk[i]
  BY OutdateGood
<1> HIDE DEF r
<1>2. r \in Seq(Frames) /\ stk \in Seq(Frames)
  BY <1>1 DEF StackGood
<1>3. PICK i \in 1..Len(stk) : stk[i] \in S
  BY DEF Has
<1>4. r[i] \in Frames
  BY <1>1, <1>2
<1>5. r[i] \in S
  <2>1. CASE stk[i].op # "body"
    BY <2>1, <1>1, <1>3
  <2>2. CASE stk[i].op = "body"
    BY <2>2, <1>1, <1>3, <1>4 DEF Kinds, Wills, FlushFrames, Will
  <2> QED BY <2>1, <2>2
<1> QED BY <1>1, <1>2, <1>3, <1>5 DEF Has, r

LEMMA DidHas ==
  ASSUME Calling, InUserCode, NEW S \in Kinds, Has(stack, S),
         NEW x \in Sources \cup Effects \cup {"drain", "batch", "cleanup", "unmount"}
  PROVE  Has(Append(Rest, Did(x)), S) /\ Append(Rest, Did(x)) \in Seq(Frames)
<1>1. stack \in Seq(Frames) /\ stack # <<>> /\ Top \in Frames
  BY TopFacts, StackFacts DEF InUserCode
<1>2. Did(x) \in Frames /\ Did(x).op = Top.op /\ Did(x).batch = Top.batch /\ Top.op \in UserOps
  BY DidGood DEF InUserCode, UserOps
<1>3. Top \in S => Did(x) \in S
  BY <1>1, <1>2, KindFacts
<1> DEFINE d == Did(x)
<1>4. d \in Frames /\ (Last(stack) \in S => d \in S)
  BY <1>2, <1>3 DEF Top
<1> HIDE DEF d
<1>5. Has(Append(Front(stack), d), S)
  BY <1>1, <1>4, HasReplace
<1>6. Front(stack) \in Seq(Frames)
  BY <1>1, FrontFacts
<1> QED BY <1>4, <1>5, <1>6, AppendFacts DEF Rest, d

LEMMA GotHas ==
  ASSUME IInv, NEW stk \in Seq(Frames), stk # <<>>, Last(stk).op \in UserOps, NEW x \in Sources,
         NEW S \in Kinds, Has(stk, S)
  PROVE  Has(Append(Front(stk), Got(Last(stk), x)), S)
<1> DEFINE t == Last(stk)
           f == Got(t, x)
<1>1. t \in CodeFrames /\ t \in Frames /\ t.op \in UserOps
  BY FrontFacts, FrameKinds DEF UserOps
<1>2. f \in Frames /\ f.op = t.op /\ f.batch = t.batch
  BY <1>1, GotGood DEF IInv
<1>3. t \in S => f \in S
  BY <1>1, <1>2, KindFacts
<1> HIDE DEF f
<1>4. Has(Append(Front(stk), f), S)
  BY <1>2, <1>3, HasReplace
<1> QED BY <1>4 DEF f

\* A call that ends without being of the kind leaves the others.
LEMMA PopHas ==
  ASSUME NEW stk \in Seq(Frames), stk # <<>>, NEW S, Has(stk, S), Last(stk) \notin S
  PROVE  Has(Front(stk), S)
  BY HasPop

LEMMA MachineryHas ==
  ASSUME IInv, Machinery, NEW S \in Kinds, Has(stack, S)
  PROVE  \/ Has(stack', S)
         \/ S = FlushFrames /\ EndFlush
         \/ S = Wills /\ EndDispatch
<1>1. stack \in Seq(Frames) /\ Calling
  BY StackFacts DEF IInv
<1>2. CASE RunCleanups
  <2>1. stack' = Append(stack, Code("cleanup", Cleanup, NoId)) /\ Code("cleanup", Cleanup, NoId) \in Frames
    BY <1>2, CodeGood DEF RunCleanups, Bodies
  <2> QED BY <1>1, <2>1, HasPush
<1>3. CASE StartBody
  <2> DEFINE t == Top
             f == [t EXCEPT !.op = "body"]
  <2>1. stack # <<>> /\ t.op = "clean" /\ t \in CodeFrames
    BY <1>1, <1>3, TopFacts DEF StartBody, At
  <2>2. stack' = Append(Front(stack), f)
    BY <1>3 DEF StartBody, Rest
  <2>3. Last(stack) \notin S
    BY <2>1, KindFacts DEF Top, Frames
  <2> HIDE DEF t
  <2>4. f \in Frames
    BY <2>1 DEF CodeFrames, Frames
  <2> HIDE DEF f
  <2> QED BY <1>1, <2>1, <2>2, <2>3, <2>4, HasReplace
<1>4. CASE FinishRead
  <2>1. stack # <<>> /\ Top.op = "get" /\ Top.src \in Sources /\ Top \in Frames
    BY <1>1, <1>4, TopFacts DEF FinishRead, At, GetFrames, Sources
  <2>2. Rest # <<>> /\ StackGood(Rest, idOf) /\ Last(Rest).op \in UserOps
    BY <1>1, <2>1, PopGood DEF Calling, Rest, Top
  <2>3. Last(stack) \notin S
    BY <2>1, KindFacts DEF Top
  <2>4. Has(Rest, S)
    BY <1>1, <2>1, <2>3, PopHas DEF Rest
  <2>5. stack' = Append(Front(Rest), Got(Last(Rest), Top.src)) /\ Rest \in Seq(Frames)
    BY <1>4, <2>2 DEF FinishRead, Subscribe, StackGood
  <2> QED BY <2>1, <2>2, <2>4, <2>5, GotHas
<1>5. CASE FinishRelease
  <2>1. stack # <<>> /\ Top.op = "release" /\ Top \in Frames /\ stack' = Rest
    BY <1>1, <1>5, TopFacts DEF FinishRelease, At
  <2>2. Last(stack) \notin S
    BY <2>1, KindFacts DEF Top
  <2> QED BY <1>1, <2>1, <2>2, PopHas DEF Rest
<1>6. CASE Route \/ NextSignal \/ FlushNext
  <2>1. Top \in LoopFrames /\ stack # <<>> /\ Top.op \in {"flush", "dispatch"}
    BY <1>1, <1>6, TopFacts DEF Route, NextSignal, FlushNext, At
  <2> DEFINE t == Top
  <2>2. PICK s \in Seq(Ids), a \in BOOLEAN :
          /\ t.any => a
          /\ LET f == [t EXCEPT !.ids = s, !.any = a]
             IN  \/ stack' = Append(Rest, f)
                 \/ \E c \in Frames : stack' = Append(Append(Rest, f), c)
    <3>1. CASE Route
      <4> DEFINE plain == Live(Head(t.ids)) /\ Occupant(Head(t.ids)) \in Plain
      <4>1. stack' = Append(Rest, [t EXCEPT !.ids = Tail(@), !.any = @ \/ plain]) /\ t.ids # <<>>
        BY <3>1 DEF Route
      <4> HIDE DEF plain
      <4>2. t \in LoopFrames
        BY <2>1
      <4> HIDE DEF t
      <4>3. Tail(t.ids) \in Seq(Ids) /\ (t.any \/ plain) \in BOOLEAN
        BY <4>1, <4>2 DEF LoopFrames
      <4> QED BY <4>1, <4>3
    <3>2. CASE NextSignal
      <4> DEFINE s == subs[Head(worklist)]
      <4>1. stack' = Append(Rest, [t EXCEPT !.ids = s]) /\ t \in LoopFrames
        BY <2>1, <3>2 DEF NextSignal
      <4>2. s \in Seq(Ids)
        BY <3>2, TailFacts DEF IInv, Flags, Graph, Sources, NextSignal
      <4> HIDE DEF s, t
      <4>3. t.any \in BOOLEAN /\ [t EXCEPT !.ids = s] = [t EXCEPT !.ids = s, !.any = t.any]
        BY <4>1, <4>2 DEF LoopFrames
      <4> QED BY <4>1, <4>2, <4>3
    <3>3. CASE FlushNext
      <4> DEFINE c == Code("clean", Occupant(Head(t.ids)), Head(t.ids))
                 f == [t EXCEPT !.ids = Tail(@)]
      <4>1. /\ stack' = Append(Rest, f) \/ (Live(Head(t.ids)) /\ stack' = Append(Append(Rest, f), c))
            /\ t.ids # <<>> /\ t \in LoopFrames
        BY <2>1, <3>3 DEF FlushNext
      <4>2. Head(t.ids) \in Ids /\ Tail(t.ids) \in Seq(Ids) /\ t.any \in BOOLEAN
        BY <4>1 DEF LoopFrames
      <4>3. Live(Head(t.ids)) => c \in Frames
        <5>1. Live(Head(t.ids)) => Occupant(Head(t.ids)) \in Effects
          BY <4>2, LiveFacts DEF IInv
        <5> QED BY <4>2, <5>1, CodeGood DEF Bodies
      <4> HIDE DEF c, t
      <4>4. f = [t EXCEPT !.ids = Tail(t.ids), !.any = t.any]
        BY <4>1 DEF LoopFrames
      <4> HIDE DEF f
      <4> QED BY <4>1, <4>2, <4>3, <4>4
    <3> QED BY <1>6, <3>1, <3>2, <3>3
  <2> DEFINE f == [t EXCEPT !.ids = s, !.any = a]
  <2>3. t \in LoopFrames /\ Last(stack) = t /\ t \in Frames
    BY <2>1 DEF Top, Frames
  <2>4. t.op \in {"flush", "dispatch"}
    BY <2>1
  <2> HIDE DEF t
  <2>5. f \in Frames /\ f.op = t.op /\ f.any = a
    BY <2>3 DEF LoopFrames, Frames
  <2>6. stack' = Append(Rest, f) \/ \E c \in Frames : stack' = Append(Append(Rest, f), c)
    BY <2>2
  <2> HIDE DEF f
  <2>7. t \in S => f \in S
    BY <2>2, <2>3, <2>4, <2>5, KindFacts
  <2>8. Has(Append(Rest, f), S)
    BY <1>1, <2>1, <2>3, <2>5, <2>7, HasReplace DEF Rest
  <2>9. Append(Rest, f) \in Seq(Frames)
    BY <1>1, <2>1, <2>5, FrontFacts, AppendFacts DEF Rest
  <2> DEFINE r == Append(Rest, f)
  <2>10. r \in Seq(Frames) /\ Has(r, S) /\ (stack' = r \/ \E c \in Frames : stack' = Append(r, c))
    BY <2>6, <2>8, <2>9
  <2> HIDE DEF r
  <2>11. ASSUME NEW c \in Frames, stack' = Append(r, c) PROVE Has(stack', S)
    BY <2>10, <2>11, HasPush
  <2> QED BY <2>10, <2>11
<1>7. CASE EndDispatch \/ EndFlush
  <2>1. stack # <<>> /\ stack' = Rest /\ Top \in Frames
    BY <1>1, <1>7, TopFacts DEF EndDispatch, EndFlush, At
  <2>2. CASE EndDispatch /\ S # Wills
    <3>1. Last(stack) \notin S
      BY <2>1, <2>2 DEF EndDispatch, At, Top, Kinds, FlushFrames
    <3> QED BY <1>1, <2>1, <3>1, PopHas DEF Rest
  <2>3. CASE EndFlush /\ S # FlushFrames
    <3>1. Last(stack) \notin S
      BY <2>1, <2>3 DEF EndFlush, At, Top, Kinds, Wills, Will, Batches, UserOps
    <3> QED BY <1>1, <2>1, <3>1, PopHas DEF Rest
  <2> QED BY <1>7, <2>2, <2>3
<1> QED BY <1>2, <1>3, <1>4, <1>5, <1>6, <1>7 DEF Machinery

LEMMA UserHas ==
  ASSUME IInv, BrowserEvent \/ FlushMicrotask \/ UserSteps, NEW S \in Kinds, Has(stack, S)
  PROVE  Has(stack', S) \/ (S = Wills /\ ExitBatch)
<1>1. stack \in Seq(Frames) /\ Calling
  BY StackFacts DEF IInv
<1>2. CASE BrowserEvent \/ FlushMicrotask \/ \E e \in Effects : Create(e)
  <2>1. CASE BrowserEvent
    <3>1. stack' = Append(stack, Code("event", Event, NoId)) /\ Code("event", Event, NoId) \in Frames
      BY <2>1, CodeGood DEF BrowserEvent, Bodies
    <3> QED BY <1>1, <3>1, HasPush
  <2>2. CASE FlushMicrotask
    <3>1. stack' = Append(stack, Loop("flush", queue)) /\ Loop("flush", queue) \in Frames
      BY <2>2, LoopGood DEF FlushMicrotask, BeginFlush, IInv, Queue
    <3> QED BY <1>1, <3>1, HasPush
  <2>3. ASSUME NEW e \in Effects, Create(e) PROVE Has(stack', S)
    <3> DEFINE c == Code("clean", e, idOf'[e])
    <3>1. stack' = stack \/ stack' = Append(stack, c)
      BY <2>3 DEF Create
    <3>2. idOf'[e] \in Ids \cup {NoId}
      BY <2>3, CreatedFacts DEF IInv, Tables
    <3>3. c \in Frames
      BY <3>2, CodeGood DEF Bodies
    <3> HIDE DEF c
    <3>4. Has(Append(stack, c), S)
      BY <1>1, <3>3, HasPush
    <3> QED BY <3>1, <3>4
  <2>4. CASE \E e \in Effects : Create(e)
    <3>1. PICK e \in Effects : Create(e)
      BY <2>4
    <3> QED BY <2>3, <3>1
  <2> QED BY <1>2, <2>1, <2>2, <2>4
<1>3. CASE \E x \in Sources : Read(x) \/ ReadDirty(x)
  <2>1. PICK x \in Sources : Read(x) \/ ReadDirty(x)
    BY <1>3
  <2>2. stack # <<>> /\ Last(stack).op \in UserOps
    BY <2>1 DEF Read, ReadDirty, InUserCode, Top, UserOps
  <2>3. CASE Read(x)
    <3>1. stack' = Append(Front(stack), Got(Last(stack), x))
      BY <2>3 DEF Read, Subscribe, Rest, Top
    <3> QED BY <1>1, <2>2, <3>1, GotHas
  <2>4. CASE ReadDirty(x)
    <3> DEFINE g == Get(x)
               f == Code("clean", x, idOf[x])
    <3>1. x \in Computeds /\ x \in Effects /\ idOf[x] \in Ids
      BY <2>4, ReactiveAssumption DEF ReadDirty, IInv, Flags, Tables, Live
    <3>2. f \in Frames
      BY <3>1, CodeGood DEF Bodies
    <3>3. g \in Frames
      BY <3>1 DEF Get, GetFrames, Frames
    <3>4. stack' = stack \o <<g, f>>
      BY <2>4 DEF ReadDirty
    <3> HIDE DEF f, g
    <3>5. stack' = Append(Append(stack, g), f) /\ Append(stack, g) \in Seq(Frames)
      BY <1>1, <3>2, <3>3, <3>4
    <3>6. Has(Append(stack, g), S)
      BY <1>1, <3>3, HasPush
    <3> QED BY <3>2, <3>5, <3>6, HasPush
  <2> QED BY <2>1, <2>3, <2>4
<1>4. CASE \E s \in Signals : Write(s) \/ ClearScope(s)
  <2>1. PICK s \in Signals : Write(s) \/ ClearScope(s)
    BY <1>4
  <2>2. InUserCode /\ s \in Sources
    BY <2>1 DEF Write, ClearScope, Sources
  <2>3. CASE ClearScope(s)
    <3>1. stack' = Append(Rest, Did("unmount"))
      BY <2>3 DEF ClearScope
    <3> QED BY <1>1, <2>2, <3>1, DidHas
  <2>4. CASE Write(s)
    <3> DEFINE b == Append(Rest, Did(s))
               d == Loop("dispatch", subs[s])
    <3>1. stack' = Append(Outdate(b, s), d)
      BY <2>4 DEF Write
    <3>2. Has(b, S) /\ StackGood(b, idOf)
      BY <1>1, <2>2, DidHas, DidCalling
    <3>3. d \in Frames
      BY <2>2, LoopGood DEF IInv, Graph
    <3> HIDE DEF b, d
    <3>4. Has(Outdate(b, s), S) /\ Outdate(b, s) \in Seq(Frames)
      BY <3>2, OutdateHas
    <3> QED BY <3>1, <3>3, <3>4, HasPush
  <2> QED BY <2>1, <2>3, <2>4
<1>5. CASE OnCleanup
  <2>1. stack' = Append(Rest, Did("cleanup")) /\ InUserCode
    BY <1>5 DEF OnCleanup, At, InUserCode
  <2> QED BY <1>1, <2>1, DidHas
<1>6. CASE FlushSync
  <2> DEFINE b == Append(Rest, Did("drain"))
             d == Loop("flush", queue)
  <2>1. stack' = Append(b, d) /\ InUserCode
    BY <1>6 DEF FlushSync, BeginFlush
  <2>2. Has(b, S) /\ b \in Seq(Frames)
    BY <1>1, <2>1, DidHas
  <2>3. d \in Frames
    BY LoopGood DEF IInv, Queue
  <2> HIDE DEF b, d
  <2> QED BY <2>1, <2>2, <2>3, HasPush
<1>7. CASE \E e \in Effects : Free(e)
  <2>1. PICK e \in Effects : Free(e)
    BY <1>7
  <2> DEFINE b == Append(Rest, Did(e))
             r == Release(idOf[e])
             c == Code("cleanup", Cleanup, NoId)
  <2>2. InUserCode /\ idOf[e] \in Ids /\ (stack' = b \/ stack' = b \o <<r, c>>)
    BY <2>1 DEF Free, IInv, Tables
  <2>3. Has(b, S) /\ b \in Seq(Frames)
    BY <1>1, <2>2, DidHas
  <2>4. r \in Frames /\ c \in Frames
    BY <2>2, CodeGood DEF Release, ReleaseFrames, Frames, Bodies
  <2> HIDE DEF b, r, c
  <2>5. b \o <<r, c>> = Append(Append(b, r), c) /\ Append(b, r) \in Seq(Frames)
    BY <2>3, <2>4
  <2>6. Has(Append(b, r), S)
    BY <2>3, <2>4, HasPush
  <2>7. Has(Append(Append(b, r), c), S)
    BY <2>4, <2>5, <2>6, HasPush
  <2> QED BY <2>2, <2>3, <2>5, <2>7
<1>8. CASE EnterBatch \/ (ExitBatch /\ S # Wills)
  <2>1. InUserCode /\ stack # <<>> /\ Top \in CodeFrames /\ Top \in Frames /\ Top.op \in UserOps
    BY <1>1, <1>8, TopFacts DEF EnterBatch, ExitBatch, InUserCode, UserOps
  <2>2. CASE EnterBatch
    <3> DEFINE d == Did("batch")
               f == [d EXCEPT !.batch = TRUE]
    <3>1. stack' = Append(Front(stack), f) /\ d \in CodeFrames /\ d.op = Top.op
      BY <1>1, <2>1, <2>2, DidGood DEF EnterBatch, Rest
    <3> HIDE DEF d
    <3>2. f \in Frames /\ f.op = Top.op /\ f.batch = TRUE
      BY <3>1 DEF CodeFrames, Frames
    <3>3. Top \in S => f \in S
      BY <2>1, <3>2, KindFacts
    <3> HIDE DEF f
    <3> QED BY <1>1, <2>1, <3>1, <3>2, <3>3, HasReplace DEF Top
  <2>3. CASE ExitBatch /\ S # Wills
    <3> DEFINE t == Top
               f == [t EXCEPT !.batch = FALSE]
    <3>1. stack' = Append(Front(stack), f)
      BY <2>3 DEF ExitBatch, Rest
    <3>2. Last(stack) \notin S
      BY <2>1, <2>3 DEF Kinds, FlushFrames, UserOps, Top
    <3>3. t \in CodeFrames
      BY <2>1
    <3> HIDE DEF t
    <3>4. f \in Frames
      BY <3>3 DEF CodeFrames, Frames
    <3> HIDE DEF f
    <3> QED BY <1>1, <2>1, <3>1, <3>2, <3>4, HasReplace
  <2> QED BY <1>8, <2>2, <2>3
<1>9. CASE Return
  <2>1. stack # <<>> /\ Top.op \in UserOps /\ ~ Top.batch /\ Top \in Frames
    BY <1>1, <1>9, TopFacts DEF Return, InUserCode, UserOps
  <2>2. Last(stack) \notin S
    BY <2>1, KindFacts DEF Top
  <2>3. Has(Rest, S) /\ Rest \in Seq(Frames)
    BY <1>1, <2>1, <2>2, PopHas, FrontFacts DEF Rest
  <2>4. CASE Len(Rest) > 0 /\ Last(Rest).op = "flush"
    <3> DEFINE t == Last(Rest)
               f == [t EXCEPT !.any = TRUE]
    <3>1. stack' = Append(Front(Rest), f)
      BY <1>9, <2>4 DEF Return
    <3>2. Rest # <<>>
      BY <2>4
    <3>3. t \in Frames /\ t \in LoopFrames /\ t.op = "flush"
      BY <2>3, <2>4, <3>2, FrontFacts, FrameKinds
    <3>4. f \in Frames /\ f.op = "flush" /\ f.any = TRUE
      BY <3>3 DEF LoopFrames, Frames
    <3>5. t \in S => f \in S
      BY <3>3, <3>4, KindFacts
    <3> HIDE DEF f
    <3> QED BY <2>3, <3>1, <3>2, <3>4, <3>5, HasReplace
  <2>5. CASE ~ (Len(Rest) > 0 /\ Last(Rest).op = "flush")
    <3>1. stack' = Rest
      BY <1>9, <2>5 DEF Return
    <3> QED BY <2>3, <3>1
  <2> QED BY <2>4, <2>5
<1> QED BY <1>2, <1>3, <1>4, <1>5, <1>6, <1>7, <1>8, <1>9 DEF UserSteps

\* A flag that is set has a microtask behind it.
LEMMA FlagBacked ==
  ASSUME IInv, Next
  PROVE  flag' => micro' > 0
<1>1. (flag => micro > 0) /\ micro \in Nat /\ flag \in BOOLEAN
  BY DEF IInv, Flushes, QueueIsScheduled, Counts
<1>2. CASE UNCHANGED <<flag, micro>>
  BY <1>1, <1>2
<1>3. CASE ScheduleFlush
  <2>1. CASE flag
    BY <1>1, <1>3, <2>1 DEF ScheduleFlush
  <2>2. CASE ~ flag
    <3>1. micro' = micro + 1
      BY <1>3, <2>2 DEF ScheduleFlush
    <3> QED BY <1>1, <3>1
  <2> QED BY <2>1, <2>2
<1>4. CASE flag' = FALSE
  BY <1>4
<1>5. UNCHANGED <<flag, micro>> \/ ScheduleFlush \/ flag' = FALSE
  <2>1. CASE BrowserEvent \/ FlushMicrotask
    BY <2>1 DEF BrowserEvent, FlushMicrotask, BeginFlush, sched
  <2>2. CASE Machinery
    BY <2>2 DEF Machinery, RunCleanups, StartBody, FinishRead, FinishRelease, Route, NextSignal,
                EndDispatch, FlushNext, EndFlush, sched
  <2>3. CASE UserSteps
    BY <2>3 DEF UserSteps, Create, Free, Read, ReadDirty, Write, ClearScope, EnterBatch, ExitBatch,
                FlushSync, BeginFlush, OnCleanup, Return, sched
  <2> QED BY <2>1, <2>2, <2>3 DEF Next
<1> QED BY <1>2, <1>3, <1>4, <1>5

\* The end of a dispatch that queued schedules the flush, or a batch around it will.
LEMMA EndDispatchPromise ==
  ASSUME IInv, EndDispatch, queue # <<>>
  PROVE  flag' \/ Has(stack', Wills)
<1>1. stack # <<>> /\ stack' = Rest /\ Top \in Frames /\ Top.op = "dispatch" /\ stack \in Seq(Frames)
  BY TopFacts, StackFacts DEF EndDispatch, At, IInv
<1>2. flag \/ Has(stack, Wills)
  BY StackFacts DEF IInv, Flushes, QueueIsScheduled
<1>3. CASE flag
  BY <1>3 DEF EndDispatch, ScheduleFlush
<1>4. CASE Top.any /\ ~ Batching
  BY <1>4 DEF EndDispatch, ScheduleFlush
<1>5. CASE Batching
  <2>1. Has(Rest, Wills)
    <3>1. PICK i \in DOMAIN stack : stack[i].op \in UserOps /\ stack[i].batch
      BY <1>5 DEF Batching, UserOps
    <3>2. /\ Len(stack) \in Nat /\ Len(stack) > 0 /\ Len(Rest) = Len(stack) - 1
          /\ \A j \in 1..Len(stack) - 1 : Rest[j] = stack[j]
          /\ Last(stack) = stack[Len(stack)] /\ DOMAIN stack = 1..Len(stack)
      BY <1>1, FrontFacts DEF Rest
    <3>3. i # Len(stack)
      BY <1>1, <3>1, <3>2 DEF Top, UserOps
    <3>4. i \in 1..Len(Rest) /\ Rest[i] = stack[i]
      BY <3>2, <3>3
    <3>5. stack[i] \in Wills
      BY <1>1, <3>1 DEF Wills, Will, Batches
    <3> QED BY <3>4, <3>5 DEF Has
  <2> QED BY <1>1, <2>1
<1>6. CASE ~ Top.any /\ Has(stack, Wills)
  <2>1. Last(stack) \notin Wills
    BY <1>1, <1>6 DEF Top, Wills, Will, Batches, UserOps
  <2> QED BY <1>1, <1>6, <2>1, PopHas DEF Rest
<1> QED BY <1>2, <1>3, <1>4, <1>5, <1>6

\* The end of a batch schedules what it queued, unless a batch around it will.
LEMMA ExitBatchPromise ==
  ASSUME IInv, ExitBatch, queue # <<>>
  PROVE  flag' \/ Has(stack', Wills)
<1> DEFINE t == Top
           f == [t EXCEPT !.batch = FALSE]
           outer == \E i \in DOMAIN Rest : stack[i].op \in UserOps /\ stack[i].batch
<1>1. stack # <<>> /\ t \in CodeFrames /\ stack \in Seq(Frames)
  BY TopFacts, StackFacts DEF ExitBatch, InUserCode, UserOps, IInv
<1>2. stack' = Append(Rest, f) /\ (~ outer => ScheduleFlush)
  BY DEF ExitBatch, UserOps
<1>3. CASE ~ outer
  BY <1>2, <1>3 DEF ScheduleFlush
<1>4. CASE outer
  <2>1. /\ Len(stack) \in Nat /\ Len(Rest) = Len(stack) - 1 /\ Rest \in Seq(Frames)
        /\ \A j \in 1..Len(stack) - 1 : Rest[j] = stack[j]
    BY <1>1, FrontFacts DEF Rest
  <2>2. PICK i \in 1..Len(Rest) : stack[i].op \in UserOps /\ stack[i].batch
    BY <1>4, <2>1
  <2>3. Rest[i] \in Wills
    BY <1>1, <2>1, <2>2 DEF Wills, Will, Batches
  <2>4. Has(Rest, Wills)
    BY <2>3 DEF Has
  <2> HIDE DEF t
  <2>5. f \in Frames
    BY <1>1 DEF CodeFrames, Frames
  <2> HIDE DEF f
  <2> QED BY <1>2, <2>1, <2>4, <2>5, HasPush
<1> QED BY <1>3, <1>4

\* What routes an effect to the queue will end by scheduling its flush.
LEMMA RoutePromise ==
  ASSUME IInv, Route, queue' # queue
  PROVE  Has(stack', Wills)
<1> DEFINE t == Top
           f == [t EXCEPT !.ids = Tail(@), !.any = TRUE]
<1>1. stack # <<>> /\ t.op = "dispatch" /\ t \in LoopFrames /\ stack \in Seq(Frames) /\ t.ids # <<>>
  BY TopFacts, StackFacts DEF Route, At, IInv
<1>2. stack' = Append(Rest, [t EXCEPT !.ids = Tail(@), !.any = @ \/ TRUE])
  BY DEF Route
<1>3. Rest \in Seq(Frames)
  BY <1>1, FrontFacts DEF Rest
<1> HIDE DEF t
<1>4. Tail(t.ids) \in Seq(Ids) /\ t.any \in BOOLEAN
  BY <1>1 DEF LoopFrames
<1>5. f = [t EXCEPT !.ids = Tail(@), !.any = @ \/ TRUE]
  BY <1>1, <1>4
<1>6. f \in Frames /\ f.op = "dispatch" /\ f.any = TRUE
  BY <1>1, <1>4 DEF LoopFrames, Frames
<1> HIDE DEF f
<1>7. f \in Wills
  BY <1>6 DEF Wills, Will
<1> QED BY <1>2, <1>3, <1>5, <1>6, <1>7, HasPush

\* Nothing else empties a promise or fills the queue.
LEMMA QueueSteps ==
  ASSUME IInv, Next, queue' # <<>>
  PROVE  \/ queue # <<>> /\ (flag => flag')
         \/ Route /\ queue' # queue
<1>1. CASE BrowserEvent \/ FlushMicrotask
  BY <1>1 DEF BrowserEvent, FlushMicrotask, BeginFlush, sched
<1>2. CASE Machinery /\ ~ FinishRelease
  BY <1>2 DEF Machinery, RunCleanups, StartBody, FinishRead, Route, NextSignal,
              EndDispatch, ScheduleFlush, FlushNext, EndFlush, sched
<1>3. CASE UserSteps /\ ~ \E e \in Effects : Free(e)
  BY <1>3 DEF UserSteps, Create, Read, ReadDirty, Write, ClearScope, EnterBatch, ExitBatch,
              ScheduleFlush, FlushSync, BeginFlush, OnCleanup, Return, sched
<1>4. CASE FinishRelease \/ \E e \in Effects : Free(e)
  <2>1. flag' = flag
    BY <1>4 DEF FinishRelease, Free
  <2>2. queue' = queue \/ \E id \in Ids : queue' = RemoveFirst(queue, id)
    <3>1. CASE FinishRelease
      <4>1. Top.id \in Ids
        BY <3>1, TopFacts DEF IInv, FinishRelease, At, ReleaseFrames
      <4> QED BY <3>1, <4>1 DEF FinishRelease, Retire
    <3>2. ASSUME NEW e \in Effects, Free(e) PROVE queue' = queue \/ \E id \in Ids : queue' = RemoveFirst(queue, id)
      <4>1. idOf[e] \in Ids
        BY <3>2 DEF Free, IInv, Tables
      <4> QED BY <3>2, <4>1 DEF Free, Retire
    <3> QED BY <1>4, <3>1, <3>2
  <2>3. \A id \in Ids : queue = <<>> => RemoveFirst(queue, id) = <<>>
    BY DEF RemoveFirst
  <2> QED BY <2>1, <2>2, <2>3
<1> QED BY <1>1, <1>2, <1>3, <1>4 DEF Next

LEMMA ScheduledKept ==
  ASSUME IInv, Next
  PROVE  QueueIsScheduled'
<1>1. Calling'
  BY CallingKept
<1>2. ASSUME queue' # <<>> PROVE flag' \/ Has(stack', Wills)
  <2>1. CASE Route /\ queue' # queue
    BY <2>1, RoutePromise
  <2>2. CASE queue # <<>> /\ (flag => flag')
    <3>1. flag \/ Has(stack, Wills)
      BY <2>2, StackFacts DEF IInv, Flushes, QueueIsScheduled
    <3>2. CASE flag
      BY <2>2, <3>2
    <3>3. CASE Has(stack, Wills)
      <4>1. Wills \in Kinds /\ Wills # FlushFrames
        <5> DEFINE d == [op |-> "dispatch", ids |-> queue, any |-> TRUE]
        <5>1. d \in LoopFrames
          BY DEF LoopFrames, IInv, Queue
        <5>2. d \in Wills /\ d \notin FlushFrames
          BY <5>1 DEF Frames, Wills, Will, FlushFrames
        <5> QED BY <5>2 DEF Kinds
      <4>2. CASE EndDispatch
        BY <2>2, <4>2, EndDispatchPromise
      <4>3. CASE ExitBatch
        BY <2>2, <4>3, ExitBatchPromise
      <4>4. CASE ~ EndDispatch /\ ~ ExitBatch
        BY <3>3, <4>1, <4>4, MachineryHas, UserHas DEF Next
      <4> QED BY <4>2, <4>3, <4>4
    <3> QED BY <3>1, <3>2, <3>3
  <2> QED BY <1>2, <2>1, <2>2, QueueSteps
<1>3. Batching' \/ (\E i \in Holding("dispatch") : stack[i].any)' <=> Has(stack', Wills)
  <2>1. (Batching \/ (\E i \in Holding("dispatch") : stack[i].any) <=> Has(stack, Wills))'
    BY <1>1, StackFacts, PTL
  <2> QED BY <2>1
<1> QED BY <1>2, <1>3, FlagBacked DEF QueueIsScheduled
-----------------------------------------------------------------------------
\* A flush that ends under another leaves it, and one that leaves work has a flush
\* scheduled: nobody drains inside a batch, and a dispatch calls no user code.
LEMMA EndFlushBacked ==
  ASSUME IInv, EndFlush, \E id \in Ids : runs'[id] # 0
  PROVE  Has(stack', FlushFrames) \/ flag'
<1>1. /\ stack # <<>> /\ stack' = Rest /\ Top.op = "flush" /\ stack \in Seq(Frames)
      /\ flag' = flag /\ ~ (FlushDepth = 1 /\ queue = <<>>)
  BY StackFacts DEF EndFlush, At, IInv
<1>2. /\ Len(stack) \in Nat /\ Len(stack) > 0 /\ Len(Rest) = Len(stack) - 1
      /\ \A j \in 1..Len(stack) - 1 : Rest[j] = stack[j]
      /\ Top = stack[Len(stack)] /\ DOMAIN stack = 1..Len(stack)
  BY <1>1, FrontFacts DEF Rest, Top
<1>3. CASE FlushDepth # 1
  <2>1. Holding("flush") # {Len(stack)}
    BY <1>3, FS_Singleton DEF FlushDepth
  <2>2. Len(stack) \in Holding("flush") /\ Holding("flush") \subseteq 1..Len(stack)
    BY <1>1, <1>2 DEF Holding
  <2>3. PICK i \in 1..Len(stack) : stack[i].op = "flush" /\ i # Len(stack)
    BY <2>1, <2>2 DEF Holding
  <2>4. i \in 1..Len(Rest) /\ Rest[i] = stack[i] /\ stack[i] \in Frames
    BY <1>1, <1>2, <2>3
  <2> QED BY <1>1, <2>3, <2>4 DEF Has, FlushFrames
<1>4. CASE queue # <<>>
  <2>1. flag \/ Has(stack, Wills)
    BY <1>4, StackFacts DEF IInv, Flushes, QueueIsScheduled
  <2>2. ASSUME NEW i \in 1..Len(stack) PROVE stack[i] \notin Wills
    <3>1. CASE i = Len(stack)
      BY <1>1, <1>2, <3>1 DEF Wills, Will, Batches, UserOps
    <3>2. CASE i # Len(stack)
      <4>1. stack[i].op # "dispatch" /\ ~ Batches(stack[i])
        <5>1. i \in 1..Len(stack) - 1
          BY <1>2, <3>2
        <5> QED BY <1>1, <1>2, <3>2, <5>1 DEF IInv, Calling, StackGood
      <4> QED BY <4>1 DEF Wills, Will
    <3> QED BY <3>1, <3>2
  <2> QED BY <1>1, <2>1, <2>2 DEF Has
<1> QED BY <1>1, <1>3, <1>4

\* The flush that counts is on the stack itself.
LEMMA FlushNextBacked ==
  ASSUME IInv, FlushNext
  PROVE  Has(stack', FlushFrames)
<1>1. stack # <<>> /\ Top \in FlushFrames /\ stack \in Seq(Frames)
  BY TopFacts, StackFacts DEF FlushNext, At, IInv, FlushFrames
<1>2. Has(stack, FlushFrames)
  <2>1. Len(stack) \in 1..Len(stack) /\ Top = stack[Len(stack)]
    BY <1>1, TopFacts DEF IInv
  <2> QED BY <1>1, <2>1 DEF Has
<1>3. ~ EndFlush /\ ~ EndDispatch
  BY DEF FlushNext, EndFlush, EndDispatch, At
<1>4. FlushFrames # Wills
  BY <1>1 DEF FlushFrames, Wills, Will, Batches, UserOps
<1> QED BY <1>2, <1>3, <1>4, MachineryHas DEF Machinery, Kinds

\* A flush that begins is on the stack.
LEMMA BeginFlushBacked ==
  ASSUME IInv, FlushMicrotask \/ FlushSync
  PROVE  Has(stack', FlushFrames)
<1> DEFINE d == Loop("flush", queue)
<1>1. PICK b \in Seq(Frames) : stack' = Append(b, d)
  <2>1. CASE FlushMicrotask
    BY <2>1, StackFacts DEF FlushMicrotask, BeginFlush, IInv
  <2>2. CASE FlushSync
    <3>1. Append(Rest, Did("drain")) \in Seq(Frames)
      BY <2>2, DidCalling DEF FlushSync, IInv, StackGood
    <3> QED BY <2>2, <3>1 DEF FlushSync, BeginFlush
  <2> QED BY <2>1, <2>2
<1>2. d \in FlushFrames
  BY LoopGood DEF IInv, Queue, FlushFrames, Loop
<1>3. d \in Frames
  BY <1>2 DEF FlushFrames
<1> HIDE DEF d
<1> QED BY <1>1, <1>2, <1>3, HasPush

LEMMA BackedKept ==
  ASSUME IInv, Next
  PROVE  RunsBacked'
<1>1. Calling'
  BY CallingKept
<1>2. (Holding("flush") # {})' <=> Has(stack', FlushFrames)
  <2>1. (Holding("flush") # {} <=> Has(stack, FlushFrames))'
    BY <1>1, StackFacts, PTL
  <2> QED BY <2>1
<1>3. ASSUME \E id \in Ids : runs'[id] # 0 PROVE Has(stack', FlushFrames) \/ flag'
  <2>1. CASE FlushMicrotask \/ FlushSync
    BY <2>1, BeginFlushBacked
  <2>2. CASE FlushNext
    BY <2>2, FlushNextBacked
  <2>3. CASE EndFlush
    BY <1>3, <2>3, EndFlushBacked
  <2>4. CASE ~ (FlushMicrotask \/ FlushSync \/ FlushNext \/ EndFlush)
    <3>1. runs' = runs /\ (flag => flag')
      <4>1. CASE BrowserEvent
        BY <4>1 DEF BrowserEvent, sched
      <4>2. CASE Machinery
        <5>1. CASE EndDispatch
          BY <5>1 DEF EndDispatch, ScheduleFlush
        <5>2. CASE ~ EndDispatch
          BY <2>4, <4>2, <5>2 DEF Machinery, RunCleanups, StartBody, FinishRead, FinishRelease, Route,
                                  NextSignal, sched
        <5> QED BY <5>1, <5>2
      <4>3. CASE UserSteps
        <5>1. CASE ExitBatch
          BY <5>1 DEF ExitBatch, ScheduleFlush
        <5>2. CASE \E e \in Effects : Create(e) \/ Free(e)
          BY <5>2 DEF Create, Free, sched
        <5>3. CASE \E x \in Sources : Read(x) \/ ReadDirty(x)
          BY <5>3 DEF Read, ReadDirty, sched
        <5>4. CASE \E s \in Signals : Write(s) \/ ClearScope(s)
          BY <5>4 DEF Write, ClearScope, sched
        <5>5. CASE EnterBatch \/ OnCleanup \/ Return
          BY <5>5 DEF EnterBatch, OnCleanup, Return, sched
        <5> QED BY <2>4, <4>3, <5>1, <5>2, <5>3, <5>4, <5>5 DEF UserSteps
      <4> QED BY <2>4, <4>1, <4>2, <4>3 DEF Next
    <3>2. flag \/ Has(stack, FlushFrames)
      BY <1>3, <3>1, StackFacts DEF IInv, Flushes, RunsBacked
    <3>3. FlushFrames \in Kinds /\ (Has(stack, FlushFrames) => FlushFrames # Wills)
      BY DEF Has, Kinds, FlushFrames, Wills, Will, Batches, UserOps
    <3> QED BY <2>4, <3>1, <3>2, <3>3, MachineryHas, UserHas DEF Next
  <2> QED BY <2>1, <2>2, <2>3, <2>4
<1> QED BY <1>2, <1>3 DEF RunsBacked

-----------------------------------------------------------------------------
LEMMA Initial ==
  Init => IInv
<1> SUFFICES ASSUME Init PROVE IInv
  OBVIOUS
<1>1. Cardinality(Effects) \in Nat
  BY ReactiveAssumption, FS_CardinalityType
<1>2. Tables
  <2>1. gens \in [Slots -> Generations]
    BY <1>1 DEF Init, Generations
  <2>2. slab \in [Slots -> Effects \cup {NoOne}] /\ idOf \in [Effects -> Ids \cup {NoId}]
    BY DEF Init
  <2> QED BY <2>1, <2>2 DEF Tables, Init, Minted, Owned, Filled
<1>3. Graph
  BY DEF Graph, Init, SubsKnown, EdgesAgree, Once
<1>4. Queue /\ Flags
  BY ReactiveAssumption DEF Queue, Flags, Init, QueueGood, Once
<1>5. Counts
  <2>1. MaxReruns \in Nat /\ 0 \in 0..MaxReruns + 1
    BY ReactiveAssumption
  <2> QED BY <2>1 DEF Counts, Init
<1>6. Calling
  BY DEF Calling, StackGood, Init
<1>7. Flushes
  BY DEF Flushes, QueueIsScheduled, RunsBacked, Init
<1> QED BY <1>2, <1>3, <1>4, <1>5, <1>6, <1>7 DEF IInv

LEMMA Stuttering ==
  ASSUME IInv, UNCHANGED vars
  PROVE  IInv'
<1> USE DEF vars, tables, graph, sched, past
<1>1. Tables' /\ Graph' /\ Queue'
  BY DEF IInv, Tables, Graph, Queue, Minted, Owned, Filled, SubsKnown, EdgesAgree, Live, Occupant, QueueGood
<1>2. Flags' /\ Counts' /\ Calling'
  BY DEF IInv, Flags, Counts, Calling
<1>3. Flushes'
  BY DEF IInv, Flushes, QueueIsScheduled, RunsBacked, Batching, Holding
<1> QED BY <1>1, <1>2, <1>3 DEF IInv

LEMMA Inductive ==
  Spec => []IInv
<1>1. IInv /\ [Next]_vars => IInv'
  <2>1. ASSUME IInv, Next PROVE IInv'
    BY <2>1, GraphKept, QueueKept, FlagsKept, CountsKept, CallingKept, ScheduledKept, BackedKept DEF IInv, Flushes
  <2> QED BY <2>1, Stuttering
<1> QED BY <1>1, Initial, PTL DEF Spec

-----------------------------------------------------------------------------
\* The variables of the scheduler keep their types: a generation never runs past the
\* effects that were minted, and only declared effects and computeds are named.
THEOREM TypeCorrect ==
  Spec => []TypeOK
<1>1. IInv => TypeOK
  BY StackFacts DEF IInv, Tables, Graph, Queue, Flags, Counts, TypeOK
<1> QED BY <1>1, Inductive, PTL

\* No id and no edge leads to a stranger (with_effect, release, clear_deps_for): an id
\* resolves to the effect it was minted for or to nothing, however often a slot is used
\* again, and what a write would queue knows that it subscribes.
THEOREM GraphSoundHolds ==
  Spec => []GraphSound
<1>1. IInv => GraphSound
  <2> SUFFICES ASSUME IInv PROVE GraphSound
    OBVIOUS
  <2>1. \A e \in Effects : Live(idOf[e]) => Occupant(idOf[e]) = e
    BY OwnId DEF IInv
  <2>2. ASSUME NEW i \in DOMAIN stack, stack[i].op \in {"clean", "body"}, Live(stack[i].id)
        PROVE  Occupant(stack[i].id) = stack[i].eff
    <3>1. FrameGood(stack[i], idOf)
      BY DEF IInv, Calling, StackGood
    <3> QED BY <2>1, <2>2, <3>1 DEF FrameGood
  <2>3. \A i \in DOMAIN queue : Live(queue[i])
    BY DEF IInv, Queue, QueueGood
  <2> QED BY <2>1, <2>2, <2>3 DEF GraphSound, IdsResolve, IInv, Graph
<1> QED BY <1>1, Inductive, PTL

\* What is queued will be flushed, by a microtask on its way or by the batch or dispatch
\* that queued it (schedule_flush), and an idle tab has forgotten the counts of its last
\* cascade (the reset of CASCADE_RUNS at the end of flush).
THEOREM FlushSoundHolds ==
  Spec => []FlushSound
<1>1. IInv => FlushSound
  <2> SUFFICES ASSUME IInv PROVE FlushSound
    OBVIOUS
  <2>1. QueueIsScheduled
    BY DEF IInv, Flushes
  <2>2. ASSUME stack = <<>>, micro = 0, NEW id \in Ids PROVE runs[id] = 0
    <3>1. ~ flag /\ Holding("flush") = {}
      BY <2>1, <2>2 DEF QueueIsScheduled, Holding, IInv, Counts
    <3> QED BY <3>1 DEF IInv, Flushes, RunsBacked
  <2> QED BY <2>1, <2>2 DEF FlushSound, IdleResets
<1> QED BY <1>1, Inductive, PTL

-----------------------------------------------------------------------------
(***************************************************************************)
(* No update is missed: the inductive invariant.  Shape says what calls    *)
(* there are and what they hold, Links what a write will reach.  Of the    *)
(* history variables `lag` says who saw an old value, and `basis` what     *)
(* that value came from.                                                   *)
(***************************************************************************)

\* A computed on its way to a value.
Lazy(f) == f.op \in {"clean", "body"} /\ f.eff \in Computeds

\* No computed asks for itself while it is being computed: the code would recurse.
NoReentry ==
  \A i, j \in 1..Len(stack) :
    i < j /\ Lazy(stack[i]) /\ Lazy(stack[j]) => stack[i].eff # stack[j].eff

\* The computeds of the Program do not read each other in a circle.
Acyclic == \A D \in SUBSET Computeds : D # {} => \E c \in D : Reads[c] \cap D = {}

\* A computed runs for the get right below it, and calls nothing but gets.
Nested(stk) ==
  /\ \A i \in 1..Len(stk) :
       Lazy(stk[i]) => i > 1 /\ stk[i - 1].op = "get" /\ stk[i - 1].src = stk[i].eff
  /\ \A i \in 1..Len(stk) : stk[i].op = "get" => i > 1 /\ stk[i].src \in Reads[stk[i - 1].eff]
  /\ \A i \in 1..Len(stk) - 1 : stk[i].op = "get" => Lazy(stk[i + 1])
  /\ \A j \in 1..Len(stk) : \A i \in 1..j - 1 :
       Lazy(stk[i]) => stk[j].op = "get" \/ Lazy(stk[j])

\* The id of an effect that is not a computed.
Ours(id) == id # NoId /\ \E e \in Plain : idOf[e] = id

FrameFine(f) ==
  /\ f.op = "clean" => f.basis = {} /\ ~ f.old
  /\ Lazy(f) => f.eff \in dirty
  /\ f.op = "release" => Ours(f.id)
  /\ f.op = "flush" => \A j \in 1..Len(f.ids) : Ours(f.ids[j])
  /\ f.op = "get" => idOf[f.src] # NoId

Dispatching == \E f \in ToSet(stack) : f.op = "dispatch"
Framing     == \A f \in ToSet(stack) : FrameFine(f)
Plainly     == (\A i \in 1..Len(queue) : Ours(queue[i])) /\ open \subseteq Plain
Idle        == Dispatching \/ worklist = <<>>

\* What is not created has no past, and a computed is never released.
Born ==
  /\ \A e \in Effects : idOf[e] = NoId => basis[e] = {} /\ e \notin lag
  /\ \A c \in Computeds : idOf[c] = NoId => subs[c] = <<>> /\ c \notin dirty
  /\ \A c \in Computeds : idOf[c] # NoId => Live(idOf[c])

\* A get is entered with a clean cache once its run is over.
Cached == At("get") => Top.src \notin dirty

Runs(e) == \E f \in ToSet(stack) : f.op = "body" /\ f.eff = e

\* It is settled that e will run again, or that its cache is not used.
Pending(e) ==
  IF e \in Computeds THEN e \in dirty
  ELSE \/ Contains(queue, idOf[e]) \/ e \in muted
       \/ \E f \in ToSet(stack) : \/ f.op = "flush" /\ Contains(f.ids, idOf[e])
                                  \/ f.op = "clean" /\ f.eff = e

\* The dispatch under way has e before it.
Heard(e) == \E f \in ToSet(stack) : f.op = "dispatch" /\ Contains(f.ids, idOf[e])

\* ... or will come to it by a computed that is out of date.
Told(e) == Pending(e) \/ Heard(e) \/ \E c \in lag \cap Computeds : Contains(subs[c], idOf[e])

\* A write to s reaches e: straight, or by a computed with s under it.
Covered(e, s) ==
  \/ s \in gone \/ Contains(subs[s], idOf[e])
  \/ \E c \in Computeds : Contains(subs[c], idOf[e]) /\ s \in basis[c]

\* Of an effect that nothing is due for, the last run is up to date, and whatever lies
\* under it would reach it; and the same of a run that is not over.
Watched ==
  \A e \in Effects : Live(idOf[e]) /\ ~ Runs(e) /\ ~ Told(e) =>
    e \notin lag /\ \A s \in basis[e] : Covered(e, s)
Running ==
  \A f \in ToSet(stack) : f.op = "body" /\ Live(f.id) /\ ~ Told(f.eff) =>
    ~ f.old /\ \A s \in f.basis : Covered(f.eff, s)

\* The run of a computed sees one state of the graph from its start to its end.
Deriving ==
  \A f \in ToSet(stack) : f.op = "body" /\ f.eff \in Computeds =>
    /\ ~ f.old /\ \A s \in f.basis : Covered(f.eff, s)
    /\ \A d \in dirty : ~ Contains(subs[d], idOf[f.eff])

\* Who subscribes to a computed that is out of date knows it, or is about to.
DirtyTold ==
  \A c \in dirty, e \in Effects :
    Live(idOf[e]) /\ Contains(subs[c], idOf[e]) => Pending(e) \/ Heard(e) \/ Contains(worklist, c)

\* Computeds do not subscribe to each other in a circle.
NoCircle ==
  \A D \in SUBSET Computeds : D # {} => \E c \in D : \A d \in D : ~ Contains(subs[d], idOf[c])

Shape == Nested(stack) /\ Framing /\ Plainly /\ Born /\ Idle /\ Cached
Links == Watched /\ Running /\ Deriving /\ DirtyTold /\ NoCircle
WInv  == Shape /\ Links

-----------------------------------------------------------------------------
(***************************************************************************)
(* Sequences as sets, and frames that differ in nothing that matters here. *)
(***************************************************************************)

LEMMA SetFacts ==
  ASSUME NEW S, NEW q \in Seq(S)
  PROVE  /\ DOMAIN q = 1..Len(q) /\ Len(q) \in Nat
         /\ \A x : x \in ToSet(q) <=> \E i \in 1..Len(q) : q[i] = x
         /\ \A x \in ToSet(q) : x \in S
         /\ \A x : Contains(q, x) <=> x \in ToSet(q)
  BY DEF ToSet, Contains

LEMMA SetPush ==
  ASSUME NEW S, NEW q \in Seq(S), NEW y \in S
  PROVE  /\ Append(q, y) \in Seq(S)
         /\ \A x : x \in ToSet(Append(q, y)) <=> x \in ToSet(q) \/ x = y
<1> DEFINE r == Append(q, y)
<1>1. /\ r \in Seq(S) /\ Len(r) = Len(q) + 1 /\ Len(q) \in Nat /\ r[Len(q) + 1] = y
      /\ \A i \in 1..Len(q) : r[i] = q[i]
  BY AppendFacts
<1> HIDE DEF r
<1>2. \A x : x \in ToSet(r) <=> \E i \in 1..Len(q) + 1 : r[i] = x
  BY <1>1, SetFacts
<1>3. \A x : x \in ToSet(q) <=> \E i \in 1..Len(q) : q[i] = x
  BY SetFacts
<1>4. \A x : x \in ToSet(r) <=> x \in ToSet(q) \/ x = y
  BY <1>1, <1>2, <1>3
<1> QED BY <1>1, <1>4 DEF r

LEMMA SetPop ==
  ASSUME NEW S, NEW q \in Seq(S), q # <<>>
  PROVE  /\ Front(q) \in Seq(S) /\ Last(q) \in S
         /\ \A x : x \in ToSet(q) <=> x \in ToSet(Front(q)) \/ x = Last(q)
<1> DEFINE r == Front(q)
<1>1. /\ r \in Seq(S) /\ Len(r) = Len(q) - 1 /\ Len(q) \in Nat /\ Len(q) > 0
      /\ Last(q) = q[Len(q)] /\ Last(q) \in S
      /\ \A i \in 1..Len(q) - 1 : r[i] = q[i]
  BY FrontFacts
<1> HIDE DEF r
<1>2. \A x : x \in ToSet(r) <=> \E i \in 1..Len(q) - 1 : r[i] = x
  BY <1>1, SetFacts
<1>3. \A x : x \in ToSet(q) <=> \E i \in 1..Len(q) : q[i] = x
  BY SetFacts
<1>4. \A x : x \in ToSet(q) <=> x \in ToSet(r) \/ x = Last(q)
  BY <1>1, <1>2, <1>3
<1> QED BY <1>1, <1>4 DEF r

LEMMA SetTail ==
  ASSUME NEW S, NEW q \in Seq(S), q # <<>>
  PROVE  /\ Tail(q) \in Seq(S) /\ Head(q) \in S
         /\ \A x : x \in ToSet(q) <=> x = Head(q) \/ x \in ToSet(Tail(q))
<1> DEFINE r == Tail(q)
<1>1. /\ r \in Seq(S) /\ Len(r) = Len(q) - 1 /\ Len(q) \in Nat /\ Len(q) > 0
      /\ Head(q) = q[1] /\ Head(q) \in S
      /\ \A i \in 1..Len(q) - 1 : r[i] = q[i + 1]
  OBVIOUS
<1> HIDE DEF r
<1>2. \A x : x \in ToSet(r) <=> \E i \in 1..Len(q) - 1 : r[i] = x
  BY <1>1, SetFacts
<1>3. \A x : x \in ToSet(q) <=> \E i \in 1..Len(q) : q[i] = x
  BY SetFacts
<1>4. ASSUME NEW x \in ToSet(q) PROVE x = Head(q) \/ x \in ToSet(r)
  <2>1. PICK i \in 1..Len(q) : q[i] = x
    BY <1>3
  <2>2. CASE i = 1
    BY <2>1, <2>2, <1>1
  <2>3. CASE i # 1
    <3>1. i - 1 \in 1..Len(q) - 1 /\ i - 1 + 1 = i
      BY <2>3, <1>1
    <3> QED BY <3>1, <2>1, <1>1, <1>2
  <2> QED BY <2>2, <2>3
<1>5. ASSUME NEW x, x = Head(q) \/ x \in ToSet(r) PROVE x \in ToSet(q)
  <2>1. CASE x = Head(q)
    BY <2>1, <1>1, <1>3
  <2>2. CASE x \in ToSet(r)
    <3>1. PICK i \in 1..Len(q) - 1 : r[i] = x
      BY <2>2, <1>2
    <3>2. i + 1 \in 1..Len(q)
      BY <1>1
    <3> QED BY <3>1, <3>2, <1>1, <1>3
  <2> QED BY <1>5, <2>1, <2>2
<1> QED BY <1>1, <1>4, <1>5 DEF r

LEMMA SetRemove ==
  ASSUME NEW S, NEW q \in Seq(S), Once(q), NEW y
  PROVE  \A x : Contains(RemoveFirst(q, y), x) <=> Contains(q, x) /\ x # y
<1> DEFINE r == RemoveFirst(q, y)
<1>1. /\ r \in Seq(S)
      /\ \A i \in 1..Len(r) : r[i] # y /\ \E j \in 1..Len(q) : q[j] = r[i]
      /\ \A j \in 1..Len(q) : q[j] # y => \E i \in 1..Len(r) : r[i] = q[j]
  BY RemoveFacts
<1> HIDE DEF r
<1>2. \A x : Contains(r, x) <=> Contains(q, x) /\ x # y
  BY <1>1 DEF Contains
<1> QED BY <1>2 DEF r

Alike(f, g) ==
  /\ g.op = f.op
  /\ f.op \in {"clean", "body"} => g.eff = f.eff /\ g.id = f.id /\ g.basis = f.basis /\ g.old = f.old
  /\ f.op \in {"flush", "dispatch"} => g.ids = f.ids
  /\ f.op = "release" => g.id = f.id
  /\ f.op = "get" => g.src = f.src

\* From stack a to stack b the frames N come and the frames L go.
Turns(a, b, N, L) ==
  /\ \A g \in ToSet(b) : (\E n \in N : Alike(n, g)) \/ \E f \in ToSet(a) : Alike(f, g)
  /\ \A f \in ToSet(a) : (\E l \in L : Alike(f, l)) \/ \E g \in ToSet(b) : Alike(f, g)

LEMMA AlikeFacts ==
  /\ \A f : Alike(f, f)
  /\ \A f, g, h : Alike(f, g) /\ Alike(g, h) => Alike(f, h)
<1>1. \A f : Alike(f, f)
  BY DEF Alike
<1>2. ASSUME NEW f, NEW g, NEW h, Alike(f, g), Alike(g, h) PROVE Alike(f, h)
  BY <1>2 DEF Alike
<1> QED BY <1>1, <1>2

LEMMA TurnPush ==
  ASSUME NEW a \in Seq(Frames), NEW f \in Frames
  PROVE  Turns(a, Append(a, f), {f}, {})
  BY SetPush, AlikeFacts DEF Turns

LEMMA TurnPop ==
  ASSUME NEW a \in Seq(Frames), a # <<>>
  PROVE  Turns(a, Front(a), {}, {Last(a)})
  BY SetPop, AlikeFacts DEF Turns

LEMMA TurnOver ==
  ASSUME NEW a, NEW b, NEW c, NEW N1, NEW L1, NEW N2, NEW L2,
         Turns(a, b, N1, L1), Turns(b, c, N2, L2)
  PROVE  Turns(a, c, N1 \cup N2, L1 \cup L2)
<1>1. ASSUME NEW g \in ToSet(c)
      PROVE  (\E n \in N1 \cup N2 : Alike(n, g)) \/ \E f \in ToSet(a) : Alike(f, g)
  <2>1. CASE \E n \in N2 : Alike(n, g)
    BY <2>1
  <2>2. CASE \E h \in ToSet(b) : Alike(h, g)
    <3>1. PICK h \in ToSet(b) : Alike(h, g)
      BY <2>2
    <3>2. (\E n \in N1 : Alike(n, h)) \/ \E f \in ToSet(a) : Alike(f, h)
      BY DEF Turns
    <3> QED BY <3>1, <3>2, AlikeFacts
  <2> QED BY <2>1, <2>2 DEF Turns
<1>2. ASSUME NEW f \in ToSet(a)
      PROVE  (\E l \in L1 \cup L2 : Alike(f, l)) \/ \E g \in ToSet(c) : Alike(f, g)
  <2>1. CASE \E l \in L1 : Alike(f, l)
    BY <2>1
  <2>2. CASE \E h \in ToSet(b) : Alike(f, h)
    <3>1. PICK h \in ToSet(b) : Alike(f, h)
      BY <2>2
    <3>2. (\E l \in L2 : Alike(h, l)) \/ \E g \in ToSet(c) : Alike(h, g)
      BY DEF Turns
    <3> QED BY <3>1, <3>2, AlikeFacts
  <2> QED BY <2>1, <2>2 DEF Turns
<1> QED BY <1>1, <1>2 DEF Turns

\* The innermost frame is replaced, by one that is like it or by another.
LEMMA TurnReplace ==
  ASSUME NEW a \in Seq(Frames), a # <<>>, NEW f \in Frames
  PROVE  /\ Turns(a, Append(Front(a), f), {f}, {Last(a)})
         /\ Alike(Last(a), f) => Turns(a, Append(Front(a), f), {}, {})
<1> DEFINE r == Front(a)
<1>1. r \in Seq(Frames) /\ \A x : x \in ToSet(a) <=> x \in ToSet(r) \/ x = Last(a)
  BY SetPop
<1> HIDE DEF r
<1>2. \A x : x \in ToSet(Append(r, f)) <=> x \in ToSet(r) \/ x = f
  BY <1>1, SetPush
<1> QED BY <1>1, <1>2, AlikeFacts DEF Turns, r

-----------------------------------------------------------------------------
(***************************************************************************)
(* What can be called from what, computeds included.                       *)
(***************************************************************************)

\* b may call f.
Fits(b, f) ==
  /\ Lazy(f) <=> b.op = "get"
  /\ b.op = "get" => b.src = f.eff
  /\ f.op = "get" => f.src \in Reads[b.eff]
  /\ Lazy(b) => f.op = "get"

LEMMA NestPush ==
  ASSUME NEW stk \in Seq(Frames), Nested(stk), NEW f \in Frames,
         stk = <<>> => ~ Lazy(f) /\ f.op # "get",
         stk # <<>> => Fits(Last(stk), f)
  PROVE  Nested(Append(stk, f))
<1> DEFINE r == Append(stk, f)
<1>1. /\ Len(r) = Len(stk) + 1 /\ Len(stk) \in Nat /\ r[Len(stk) + 1] = f
      /\ \A i \in 1..Len(stk) : r[i] = stk[i]
  BY AppendFacts
<1>20. stk = <<>> => Len(stk) = 0
  OBVIOUS
<1>2. /\ stk # <<>> => Last(stk) = stk[Len(stk)] /\ Len(stk) > 0
      /\ stk = <<>> => Len(stk) = 0
  BY <1>20, FrontFacts
<1> HIDE DEF r
<1>3. ASSUME NEW i \in 1..Len(r), Lazy(r[i])
      PROVE  i > 1 /\ r[i - 1].op = "get" /\ r[i - 1].src = r[i].eff
  <2>1. CASE i = Len(r)
    <3>1. Lazy(f) /\ stk # <<>>
      BY <2>1, <1>1, <1>3
    <3>2. r[i - 1] = Last(stk) /\ i > 1 /\ r[i] = f
      BY <2>1, <3>1, <1>1, <1>2
    <3> QED BY <3>1, <3>2 DEF Fits
  <2>2. CASE i # Len(r)
    <3>1. i \in 1..Len(stk) /\ Lazy(stk[i]) /\ r[i] = stk[i]
      BY <2>2, <1>1, <1>3
    <3>2. i > 1 /\ stk[i - 1].op = "get" /\ stk[i - 1].src = stk[i].eff
      BY <3>1 DEF Nested
    <3>3. i - 1 \in 1..Len(stk)
      BY <3>1, <3>2, <1>1
    <3> QED BY <3>1, <3>2, <3>3, <1>1
  <2> QED BY <2>1, <2>2
<1>4. ASSUME NEW i \in 1..Len(r), r[i].op = "get"
      PROVE  i > 1 /\ r[i].src \in Reads[r[i - 1].eff]
  <2>1. CASE i = Len(r)
    <3>1. f.op = "get" /\ stk # <<>> /\ r[i] = f
      BY <2>1, <1>1, <1>4
    <3>2. r[i - 1] = Last(stk) /\ i > 1
      BY <2>1, <3>1, <1>1, <1>2
    <3> QED BY <3>1, <3>2 DEF Fits
  <2>2. CASE i # Len(r)
    <3>1. i \in 1..Len(stk) /\ r[i] = stk[i]
      BY <2>2, <1>1
    <3>2. i > 1 /\ stk[i].src \in Reads[stk[i - 1].eff]
      BY <3>1, <1>4 DEF Nested
    <3>3. i - 1 \in 1..Len(stk)
      BY <3>1, <3>2, <1>1
    <3> QED BY <3>1, <3>2, <3>3, <1>1
  <2> QED BY <2>1, <2>2
<1>5. ASSUME NEW i \in 1..Len(r) - 1, r[i].op = "get"
      PROVE  Lazy(r[i + 1])
  <2>1. CASE i = Len(stk)
    <3>1. r[i] = Last(stk) /\ r[i + 1] = f /\ stk # <<>>
      BY <2>1, <1>1, <1>2
    <3> QED BY <3>1, <1>5 DEF Fits
  <2>2. CASE i # Len(stk)
    <3>1. i \in 1..Len(stk) - 1 /\ r[i] = stk[i] /\ r[i + 1] = stk[i + 1]
      BY <2>2, <1>1
    <3> QED BY <3>1, <1>5 DEF Nested
  <2> QED BY <2>1, <2>2
<1>6. ASSUME NEW j \in 1..Len(r), NEW i \in 1..j - 1, Lazy(r[i])
      PROVE  r[j].op = "get" \/ Lazy(r[j])
  <2>1. i \in 1..Len(stk) /\ Lazy(stk[i])
    BY <1>1, <1>6
  <2>2. CASE j = Len(r)
    <3>1. stk # <<>> /\ r[j] = f
      BY <2>1, <2>2, <1>1, <1>2
    <3>2. Lazy(Last(stk)) \/ Last(stk).op = "get"
      <4>1. CASE i = Len(stk)
        BY <4>1, <2>1, <3>1, <1>2
      <4>2. CASE i # Len(stk)
        <5>1. Len(stk) \in 1..Len(stk) /\ i \in 1..Len(stk) - 1
          BY <4>2, <2>1, <1>1
        <5> QED BY <5>1, <2>1, <3>1, <1>2 DEF Nested
      <4> QED BY <4>1, <4>2
    <3> QED BY <3>1, <3>2 DEF Fits
  <2>3. CASE j # Len(r)
    <3>1. j \in 1..Len(stk) /\ r[j] = stk[j]
      BY <2>3, <1>1
    <3> QED BY <2>1, <3>1 DEF Nested
  <2> QED BY <2>2, <2>3
<1> QED BY <1>3, <1>4, <1>5, <1>6 DEF Nested, r

LEMMA NestPop ==
  ASSUME NEW stk, NEW ids, StackGood(stk, ids), Nested(stk), stk # <<>>
  PROVE  /\ Front(stk) \in Seq(Frames) /\ Nested(Front(stk))
         /\ Front(stk) # <<>> => Fits(Last(Front(stk)), Last(stk))
         /\ Front(stk) = <<>> => ~ Lazy(Last(stk)) /\ Last(stk).op # "get"
<1> DEFINE r == Front(stk)
<1>1. stk \in Seq(Frames)
  BY DEF StackGood
<1>2. /\ r \in Seq(Frames) /\ Len(r) = Len(stk) - 1 /\ Len(stk) \in Nat /\ Len(stk) > 0
      /\ Last(stk) = stk[Len(stk)] /\ \A i \in 1..Len(stk) - 1 : r[i] = stk[i]
  BY <1>1, FrontFacts
<1>3. /\ r # <<>> => Last(r) = r[Len(r)] /\ Len(r) > 0
      /\ r = <<>> => Len(r) = 0
  <2> HIDE DEF r
  <2>1. r = <<>> => Len(r) = 0
    OBVIOUS
  <2> QED BY <1>2, <2>1, FrontFacts
<1> HIDE DEF r
<1>4. Nested(r)
  <2>1. ASSUME NEW i \in 1..Len(r), Lazy(r[i])
        PROVE  i > 1 /\ r[i - 1].op = "get" /\ r[i - 1].src = r[i].eff
    <3>1. i \in 1..Len(stk) /\ r[i] = stk[i]
      BY <1>2
    <3>2. i > 1 /\ stk[i - 1].op = "get" /\ stk[i - 1].src = stk[i].eff
      BY <2>1, <3>1 DEF Nested
    <3>3. r[i - 1] = stk[i - 1]
      BY <3>2, <1>2
    <3> QED BY <3>1, <3>2, <3>3
  <2>2. ASSUME NEW i \in 1..Len(r), r[i].op = "get"
        PROVE  i > 1 /\ r[i].src \in Reads[r[i - 1].eff]
    <3>1. i \in 1..Len(stk) /\ r[i] = stk[i]
      BY <1>2
    <3>2. i > 1 /\ stk[i].src \in Reads[stk[i - 1].eff]
      BY <2>2, <3>1 DEF Nested
    <3>3. r[i - 1] = stk[i - 1]
      BY <3>2, <1>2
    <3> QED BY <3>1, <3>2, <3>3
  <2>3. ASSUME NEW i \in 1..Len(r) - 1, r[i].op = "get" PROVE Lazy(r[i + 1])
    <3>1. i \in 1..Len(stk) - 1 /\ r[i] = stk[i] /\ r[i + 1] = stk[i + 1]
      BY <1>2
    <3> QED BY <2>3, <3>1 DEF Nested
  <2>4. ASSUME NEW j \in 1..Len(r), NEW i \in 1..j - 1, Lazy(r[i])
        PROVE  r[j].op = "get" \/ Lazy(r[j])
    <3>1. j \in 1..Len(stk) /\ r[j] = stk[j] /\ r[i] = stk[i]
      BY <1>2
    <3> QED BY <2>4, <3>1 DEF Nested
  <2> QED BY <2>1, <2>2, <2>3, <2>4 DEF Nested
<1>5. ASSUME r # <<>> PROVE Fits(Last(r), Last(stk))
  <2> DEFINE n == Len(stk)
  <2>1. n \in 1..Len(stk) /\ n - 1 \in 1..Len(stk) - 1 /\ n - 1 \in 1..Len(stk) /\ n - 1 + 1 = n
    BY <1>2, <1>3, <1>5
  <2>2. Last(r) = stk[n - 1] /\ Last(stk) = stk[n]
    BY <1>2, <1>3, <1>5
  <2> HIDE DEF n
  <2>3. Lazy(stk[n]) => stk[n - 1].op = "get" /\ stk[n - 1].src = stk[n].eff
    BY <2>1 DEF Nested
  <2>4. stk[n].op = "get" => stk[n].src \in Reads[stk[n - 1].eff]
    BY <2>1 DEF Nested
  <2>5. stk[n - 1].op = "get" => Lazy(stk[n])
    BY <2>1 DEF Nested
  <2>6. Lazy(stk[n - 1]) => stk[n].op = "get" \/ Lazy(stk[n])
    <3>1. n - 1 \in 1..n - 1
      BY <2>1
    <3> QED BY <2>1, <3>1 DEF Nested
  <2>7. Lazy(stk[n - 1]) => stk[n - 1].op # "get"
    BY DEF Lazy
  <2> QED BY <2>2, <2>3, <2>4, <2>5, <2>6, <2>7 DEF Fits
<1>6. ASSUME r = <<>> PROVE ~ Lazy(Last(stk)) /\ Last(stk).op # "get"
  <2>0. Len(stk) = 1
    BY <1>2, <1>3, <1>6
  <2>1. Len(stk) = 1 /\ Last(stk) = stk[1] /\ 1 \in 1..Len(stk)
    BY <1>2, <2>0
  <2>2. Lazy(stk[1]) => 1 > 1
    BY <2>1 DEF Nested
  <2>3. stk[1].op = "get" => 1 > 1
    BY <2>1 DEF Nested
  <2> QED BY <2>1, <2>2, <2>3
<1> QED BY <1>2, <1>4, <1>5, <1>6 DEF r

\* The same call goes on.
Peers(f, g) ==
  f.op # "get" /\ g.op # "get" /\ (Lazy(f) <=> Lazy(g)) /\ (Lazy(f) => g.eff = f.eff)

LEMMA NestReplace ==
  ASSUME NEW stk, NEW ids, StackGood(stk, ids), Nested(stk), stk # <<>>,
         NEW f \in Frames, Peers(Last(stk), f)
  PROVE  Nested(Append(Front(stk), f)) /\ Append(Front(stk), f) \in Seq(Frames)
<1>1. /\ Front(stk) \in Seq(Frames) /\ Nested(Front(stk))
      /\ Front(stk) # <<>> => Fits(Last(Front(stk)), Last(stk))
      /\ Front(stk) = <<>> => ~ Lazy(Last(stk)) /\ Last(stk).op # "get"
  BY NestPop
<1>2. Front(stk) # <<>> => Fits(Last(Front(stk)), f)
  BY <1>1 DEF Fits, Peers
<1>3. Front(stk) = <<>> => ~ Lazy(f) /\ f.op # "get"
  BY <1>1 DEF Peers
<1> DEFINE r == Front(stk)
<1>4. /\ r \in Seq(Frames) /\ Nested(r) /\ (r # <<>> => Fits(Last(r), f))
      /\ (r = <<>> => ~ Lazy(f) /\ f.op # "get")
  BY <1>1, <1>2, <1>3
<1> HIDE DEF r
<1>5. Nested(Append(r, f)) /\ Append(r, f) \in Seq(Frames)
  BY <1>4, NestPush, AppendFacts
<1> QED BY <1>5 DEF r

\* Plain user code, and what the machinery calls, has no computed below it.
LEMMA NoLazyBelow ==
  ASSUME NEW stk \in Seq(Frames), Nested(stk), stk # <<>>, Last(stk).op # "get", ~ Lazy(Last(stk))
  PROVE  \A f \in ToSet(stk) : ~ Lazy(f)
<1>1. Len(stk) \in Nat /\ Len(stk) > 0 /\ Last(stk) = stk[Len(stk)]
  BY FrontFacts
<1>2. ASSUME NEW i \in 1..Len(stk), Lazy(stk[i]) PROVE FALSE
  <2>1. i # Len(stk)
    BY <1>1, <1>2
  <2>2. Len(stk) \in 1..Len(stk) /\ i \in 1..Len(stk) - 1
    BY <2>1, <1>1
  <2> QED BY <2>2, <1>1, <1>2 DEF Nested
<1> QED BY <1>2, SetFacts

-----------------------------------------------------------------------------
(***************************************************************************)
(* What each action does to the stack, seen as a set of frames.            *)
(***************************************************************************)

\* The frames N come, the frames L go, and no get is left on top to finish.
Flow(N, L) ==
  /\ Nested(stack') /\ Turns(stack, stack', N, L)
  /\ stack' # <<>> => Last(stack').op # "get"

LEMMA Frames1 ==
  ASSUME IInv
  PROVE  stack \in Seq(Frames) /\ StackGood(stack, idOf)
  BY DEF IInv, Calling, StackGood

LEMMA PushStep ==
  ASSUME NEW stk \in Seq(Frames), Nested(stk), NEW f \in Frames,
         stk = <<>> => ~ Lazy(f) /\ f.op # "get",
         stk # <<>> => Fits(Last(stk), f)
  PROVE  /\ Nested(Append(stk, f)) /\ Append(stk, f) \in Seq(Frames) /\ Append(stk, f) # <<>>
         /\ Turns(stk, Append(stk, f), {f}, {})
         /\ Last(Append(stk, f)) = f /\ f \in ToSet(Append(stk, f))
  BY NestPush, AppendFacts, TurnPush, LastAppend, SetPush

LEMMA PlainFits ==
  ASSUME NEW b, NEW f, b.op # "get", ~ Lazy(b), f.op # "get", ~ Lazy(f)
  PROVE  Fits(b, f)
  BY DEF Fits

\* Only a computed's run leaves a get on top.
LEMMA PopStep ==
  ASSUME IInv, Nested(stack), stack # <<>>
  PROVE  /\ Nested(Rest) /\ Rest \in Seq(Frames) /\ Turns(stack, Rest, {}, {Top})
         /\ Rest # <<>> => (Last(Rest).op = "get" <=> Lazy(Top))
         /\ Rest # <<>> /\ Last(Rest).op = "get" => Last(Rest).src = Top.eff
  BY Frames1, NestPop, TurnPop DEF Rest, Top, Fits

LEMMA ReplaceStep ==
  ASSUME IInv, Nested(stack), stack # <<>>, NEW f \in Frames, Peers(Top, f)
  PROVE  /\ Nested(Append(Rest, f)) /\ Append(Rest, f) \in Seq(Frames) /\ Append(Rest, f) # <<>>
         /\ Turns(stack, Append(Rest, f), {f}, {Top})
         /\ Alike(Top, f) => Turns(stack, Append(Rest, f), {}, {})
         /\ Last(Append(Rest, f)) = f /\ f \in ToSet(Append(Rest, f))
<1>1. stack \in Seq(Frames) /\ StackGood(stack, idOf) /\ Peers(Last(stack), f)
  BY Frames1 DEF Top
<1>2. Nested(Append(Front(stack), f)) /\ Append(Front(stack), f) \in Seq(Frames)
  BY <1>1, NestReplace
<1>3. /\ Turns(stack, Append(Front(stack), f), {f}, {Last(stack)})
      /\ Alike(Last(stack), f) => Turns(stack, Append(Front(stack), f), {}, {})
  BY <1>1, TurnReplace
<1>4. Front(stack) \in Seq(Frames)
  BY <1>1, FrontFacts
<1> DEFINE r == Front(stack)
<1>5. r \in Seq(Frames)
  BY <1>4
<1> HIDE DEF r
<1>6. Last(Append(r, f)) = f /\ f \in ToSet(Append(r, f)) /\ Append(r, f) # <<>>
  BY <1>5, LastAppend, SetPush, AppendFacts
<1> QED BY <1>2, <1>3, <1>6 DEF r, Rest, Top

LEMMA DidAlike ==
  ASSUME Calling, InUserCode,
         NEW x \in Sources \cup Effects \cup {"drain", "batch", "cleanup", "unmount"}
  PROVE  Did(x) \in Frames /\ Alike(Top, Did(x)) /\ Peers(Top, Did(x))
<1>1. /\ Did(x) \in Frames /\ Did(x).op = Top.op /\ Did(x).eff = Top.eff
      /\ Did(x).id = Top.id /\ Did(x).old = Top.old
  BY DidGood
<1>2. Top \in CodeFrames /\ Top.op \in UserOps
  BY TopFacts DEF InUserCode, UserOps
<1> DEFINE t == Top
<1>3. t \in CodeFrames
  BY <1>2
<1> HIDE DEF t
<1>4. [t EXCEPT !.did = @ \cup {x}].basis = t.basis
  BY <1>3 DEF CodeFrames
<1>5. Did(x).basis = Top.basis
  BY <1>4 DEF Did, t
<1> QED BY <1>1, <1>2, <1>5 DEF Alike, Peers, Lazy, UserOps

LEMMA DidStep ==
  ASSUME IInv, Nested(stack), InUserCode,
         NEW x \in Sources \cup Effects \cup {"drain", "batch", "cleanup", "unmount"}
  PROVE  /\ Nested(Append(Rest, Did(x))) /\ Append(Rest, Did(x)) \in Seq(Frames)
         /\ Turns(stack, Append(Rest, Did(x)), {}, {})
         /\ Append(Rest, Did(x)) # <<>> /\ Last(Append(Rest, Did(x))) = Did(x)
         /\ Did(x).op = Top.op /\ Did(x).op # "get" /\ Did(x).eff = Top.eff
<1>1. Did(x) \in Frames /\ Alike(Top, Did(x)) /\ Peers(Top, Did(x)) /\ stack # <<>> /\ Did(x).eff = Top.eff
  BY DidAlike, DidGood DEF IInv, InUserCode
<1>2. Did(x).op = Top.op /\ Did(x).op # "get"
  BY <1>1 DEF Peers, Alike
<1> QED BY <1>1, <1>2, ReplaceStep

\* What a step does on a stack that an earlier part of it left.
LEMMA PushAfter ==
  ASSUME NEW stk \in Seq(Frames), Nested(stk), stk # <<>>, NEW N, NEW L, Turns(stack, stk, N, L),
         NEW f \in Frames, Fits(Last(stk), f)
  PROVE  /\ Nested(Append(stk, f)) /\ Append(stk, f) \in Seq(Frames) /\ Append(stk, f) # <<>>
         /\ Turns(stack, Append(stk, f), N \cup {f}, L)
         /\ Last(Append(stk, f)) = f /\ f \in ToSet(Append(stk, f))
<1>1. /\ Nested(Append(stk, f)) /\ Append(stk, f) \in Seq(Frames) /\ Append(stk, f) # <<>>
      /\ Turns(stk, Append(stk, f), {f}, {})
      /\ Last(Append(stk, f)) = f /\ f \in ToSet(Append(stk, f))
  BY PushStep
<1>2. Turns(stack, Append(stk, f), N \cup {f}, L \cup {})
  BY <1>1, TurnOver
<1>3. L \cup {} = L
  OBVIOUS
<1> QED BY <1>1, <1>2, <1>3

LEMMA EventFlow ==
  ASSUME IInv, Nested(stack), BrowserEvent
  PROVE  Flow({Code("event", Event, NoId)}, {})
<1> DEFINE f == Code("event", Event, NoId)
<1>1. f \in Frames /\ f.op = "event"
  BY CodeGood DEF Bodies
<1>2. stack' = Append(stack, f) /\ (stack # <<>> => Last(stack).op = "flush")
  BY DEF BrowserEvent, At, Top
<1> HIDE DEF f
<1>3. ~ Lazy(f) /\ (stack # <<>> => Fits(Last(stack), f))
  BY <1>1, <1>2, PlainFits DEF Lazy
<1>4. Nested(stack') /\ Turns(stack, stack', {f}, {}) /\ Last(stack') = f
  BY <1>1, <1>2, <1>3, Frames1, PushStep
<1> QED BY <1>1, <1>4 DEF Flow, f

\* Code that does more than read is no computed's.
LEMMA NotLazy ==
  ASSUME InUserCode, Top.eff \in Bodies,
         \/ Writes[Top.eff] # {} \/ Makes[Top.eff] # {} \/ Frees[Top.eff] # {} \/ Calls[Top.eff] # {}
  PROVE  ~ Lazy(Top)
  BY ReactiveAssumption DEF Lazy

LEMMA UserTop ==
  ASSUME IInv, InUserCode
  PROVE  stack # <<>> /\ Top \in CodeFrames /\ Top \in Frames /\ Top.op \in UserOps /\ Top.eff \in Bodies
         /\ Top.op # "get"
<1>1. stack # <<>> /\ Top.op \in UserOps /\ Calling
  BY DEF InUserCode, UserOps, IInv
<1>2. Top \in CodeFrames /\ Top \in Frames
  BY <1>1, TopFacts
<1> QED BY <1>1, <1>2 DEF CodeFrames, UserOps

LEMMA CreateFlow ==
  ASSUME IInv, Nested(stack), NEW e \in Effects, Create(e)
  PROVE  \/ e \in Computeds /\ Flow({}, {})
         \/ /\ e \in Plain /\ Flow({Code("clean", e, idOf'[e])}, {})
            /\ Code("clean", e, idOf'[e]) \in ToSet(stack')
<1>1. stack # <<>> /\ InUserCode /\ Top.op # "get" /\ e \in Makes[Top.eff] /\ ~ Lazy(Top)
  BY UserTop, NotLazy DEF Create
<1>2. CASE e \in Computeds
  <2>1. stack' = stack
    BY <1>2 DEF Create
  <2>2. Turns(stack, stack, {}, {})
    BY AlikeFacts DEF Turns
  <2> QED BY <1>1, <1>2, <2>1, <2>2 DEF Flow, Top
<1>3. CASE e \notin Computeds
  <2> DEFINE f == Code("clean", e, idOf'[e])
  <2>1. stack' = Append(stack, f)
    BY <1>3 DEF Create
  <2>2. idOf'[e] \in Ids \cup {NoId}
    BY CreatedFacts DEF IInv, Tables
  <2>3. f \in Frames /\ f.op = "clean" /\ f.eff = e
    BY <2>2, CodeGood DEF Bodies
  <2> HIDE DEF f
  <2>4. Fits(Last(stack), f)
    BY <1>1, <1>3, <2>3, PlainFits DEF Lazy, Top
  <2>5. Nested(stack') /\ Turns(stack, stack', {f}, {}) /\ Last(stack') = f /\ f \in ToSet(stack')
    BY <1>1, <2>1, <2>3, <2>4, Frames1, PushStep
  <2> QED BY <1>3, <2>3, <2>5 DEF Flow, f, Plain
<1> QED BY <1>2, <1>3

LEMMA CleanupsFlow ==
  ASSUME IInv, Nested(stack), Plainly, RunCleanups
  PROVE  Flow({Code("cleanup", Cleanup, NoId)}, {}) /\ ~ Lazy(Top)
<1> DEFINE f == Code("cleanup", Cleanup, NoId)
<1>1. stack # <<>> /\ Top.op = "clean" /\ Live(Top.id) /\ Occupant(Top.id) \in open /\ stack' = Append(stack, f)
  BY DEF RunCleanups, At
<1>2. Top.eff \in Effects /\ Top.id = idOf[Top.eff]
  BY <1>1, TopFacts DEF IInv, FrameGood
<1>3. Occupant(Top.id) = Top.eff
  BY <1>1, <1>2, OwnId DEF IInv
<1>4. ~ Lazy(Top)
  BY <1>1, <1>3 DEF Plainly, Lazy, Plain
<1>5. f \in Frames /\ f.op = "cleanup"
  BY CodeGood DEF Bodies
<1> HIDE DEF f
<1>6. Fits(Last(stack), f)
  BY <1>1, <1>4, <1>5, PlainFits DEF Lazy, Top
<1>7. Nested(stack') /\ Turns(stack, stack', {f}, {}) /\ Last(stack') = f
  BY <1>1, <1>5, <1>6, Frames1, PushStep
<1> QED BY <1>4, <1>5, <1>7 DEF Flow, f

LEMMA StartFlow ==
  ASSUME IInv, Nested(stack), StartBody
  PROVE  \E f \in Frames :
           /\ Flow({f}, {Top}) /\ f \in ToSet(stack')
           /\ f.op = "body" /\ f.eff = Top.eff /\ f.id = Top.id /\ f.basis = Top.basis /\ f.old = Top.old
<1> DEFINE t == Top
           f == [t EXCEPT !.op = "body"]
<1>1. stack # <<>> /\ t.op = "clean" /\ t \in CodeFrames /\ stack' = Append(Rest, f)
  BY TopFacts DEF StartBody, At, IInv
<1>2. Top = t
  OBVIOUS
<1> HIDE DEF t
<1>3. /\ f \in CodeFrames /\ f.op = "body" /\ f.eff = t.eff /\ f.id = t.id
      /\ f.basis = t.basis /\ f.old = t.old
  BY <1>1 DEF CodeFrames
<1> HIDE DEF f
<1>4. f \in Frames /\ Peers(Top, f)
  BY <1>1, <1>2, <1>3 DEF Peers, Lazy, Frames
<1>5. Nested(stack') /\ Turns(stack, stack', {f}, {Top}) /\ Last(stack') = f /\ f \in ToSet(stack')
  BY <1>1, <1>4, ReplaceStep
<1> QED BY <1>2, <1>3, <1>4, <1>5 DEF Flow

\* What a reader's frame becomes.
LEMMA GotBasis ==
  ASSUME Flags, NEW f \in CodeFrames, NEW x \in Sources
  PROVE  /\ x \in Computeds => /\ Got(f, x).basis = f.basis \cup basis[x]
                               /\ Got(f, x).old = (f.old \/ x \in lag)
         /\ x \notin Computeds => Got(f, x).basis = f.basis \cup {x} /\ Got(f, x).old = f.old
<1>1. CASE x \in Computeds
  <2> DEFINE g == [f EXCEPT !.basis = @ \cup basis[x], !.old = @ \/ x \in lag, !.did = @ \cup {x}]
  <2>1. g.basis = f.basis \cup basis[x] /\ g.old = (f.old \/ x \in lag)
    BY DEF CodeFrames
  <2>2. Got(f, x) = g
    BY <1>1 DEF Got
  <2> QED BY <1>1, <2>1, <2>2
<1>2. CASE x \notin Computeds
  <2> DEFINE g == [f EXCEPT !.basis = @ \cup {x}, !.did = @ \cup {x}]
  <2>1. g.basis = f.basis \cup {x} /\ g.old = f.old
    BY DEF CodeFrames
  <2>2. Got(f, x) = g
    BY <1>2 DEF Got
  <2> QED BY <1>2, <2>1, <2>2
<1> QED BY <1>1, <1>2

LEMMA ReadFlow ==
  ASSUME IInv, Nested(stack), NEW x \in Sources, Read(x)
  PROVE  Flow({Got(Top, x)}, {Top}) /\ Got(Top, x) \in ToSet(stack')
<1> DEFINE f == Got(Top, x)
<1>1. stack # <<>> /\ Top \in CodeFrames /\ Top.op # "get"
  BY UserTop DEF Read
<1>2. f \in Frames /\ f.op = Top.op /\ f.eff = Top.eff
  BY <1>1, GotGood DEF IInv
<1>3. stack' = Append(Rest, f)
  BY DEF Read, Subscribe
<1> HIDE DEF f
<1>4. Peers(Top, f)
  BY <1>1, <1>2 DEF Peers, Lazy
<1>5. Nested(stack') /\ Turns(stack, stack', {f}, {Top}) /\ Last(stack') = f /\ f \in ToSet(stack')
  BY <1>1, <1>2, <1>3, <1>4, ReplaceStep
<1> QED BY <1>1, <1>2, <1>5 DEF Flow, f

LEMMA ReadDirtyFlow ==
  ASSUME IInv, Nested(stack), NEW x \in Sources, ReadDirty(x)
  PROVE  Flow({Get(x), Code("clean", x, idOf[x])}, {}) /\ x \in Computeds
<1> DEFINE g == Get(x)
           f == Code("clean", x, idOf[x])
<1>1. stack # <<>> /\ Top.op # "get" /\ stack' = stack \o <<g, f>> /\ x \in Reads[Top.eff]
  BY UserTop DEF ReadDirty
<1>2. x \in Computeds /\ x \in Effects /\ idOf[x] \in Ids /\ idOf[x] # NoId
  BY ReactiveAssumption DEF ReadDirty, IInv, Flags, Tables, Live
<1>3. f \in Frames /\ f.op = "clean" /\ f.eff = x
  BY <1>2, CodeGood DEF Bodies
<1>4. g \in Frames /\ g.op = "get" /\ g.src = x
  BY <1>2 DEF Get, GetFrames, Frames
<1>5. stack \in Seq(Frames) /\ Turns(stack, stack, {}, {})
  BY Frames1, AlikeFacts DEF Turns
<1> HIDE DEF f, g
<1>6. Fits(Last(stack), g)
  BY <1>1, <1>4 DEF Fits, Lazy, Top
<1>7. /\ Nested(Append(stack, g)) /\ Append(stack, g) \in Seq(Frames) /\ Append(stack, g) # <<>>
      /\ Turns(stack, Append(stack, g), {g}, {}) /\ Last(Append(stack, g)) = g
  BY <1>1, <1>4, <1>5, <1>6, PushStep
<1>8. Fits(g, f)
  BY <1>2, <1>3, <1>4 DEF Fits, Lazy
<1> DEFINE a == Append(stack, g)
<1>9. Nested(a) /\ a \in Seq(Frames) /\ a # <<>> /\ Turns(stack, a, {g}, {}) /\ Fits(Last(a), f)
  BY <1>7, <1>8
<1>10. stack' = Append(a, f)
  BY <1>1, <1>3, <1>4, <1>5
<1> HIDE DEF a
<1>11. Nested(stack') /\ Turns(stack, stack', {g} \cup {f}, {}) /\ Last(stack') = f
  BY <1>3, <1>9, <1>10, PushAfter
<1>12. {g} \cup {f} = {g, f}
  OBVIOUS
<1> QED BY <1>2, <1>3, <1>11, <1>12 DEF Flow, f, g

\* The reader is right below the get.
LEMMA FinishReadFlow ==
  ASSUME IInv, Nested(stack), FinishRead
  PROVE  LET b == Last(Rest)
             x == Top.src
         IN  /\ Flow({Got(b, x)}, {Top, b}) /\ Got(b, x) \in ToSet(stack')
             /\ b \in ToSet(stack) /\ b \in CodeFrames /\ b.op \in UserOps /\ x \in Computeds
             /\ Rest # <<>> /\ x \in Reads[b.eff]
<1> DEFINE b == Last(Rest)
           x == Top.src
           f == Got(b, x)
           r == Rest
<1>1. stack # <<>> /\ Top.op = "get" /\ x \in Computeds /\ x \in Sources
  BY TopFacts DEF IInv, FinishRead, At, GetFrames, Sources
<1>2. StackGood(r, idOf) /\ r # <<>> /\ Last(r).op \in UserOps
  BY <1>1, PopGood DEF IInv, Calling, Rest, Top
<1>3. Nested(r) /\ r \in Seq(Frames) /\ Turns(stack, r, {}, {Top})
  BY <1>1, PopStep
<1>30. x \in Reads[b.eff]
  <2>1. Fits(Last(Front(stack)), Last(stack))
    BY <1>1, <1>2, Frames1, NestPop DEF Rest
  <2> QED BY <1>1, <2>1 DEF Fits, Rest, Top
<1>4. stack' = Append(Front(r), f)
  BY DEF FinishRead, Subscribe
<1>41. \A g : g \in ToSet(r) => g \in ToSet(stack)
  BY <1>1, Frames1, SetPop DEF Rest
<1> HIDE DEF r
<1>5. Last(r) \in ToSet(r) /\ Last(r) \in Frames
  BY <1>2, <1>3, SetPop
<1>6. b \in CodeFrames /\ b = Last(r) /\ b.op \in UserOps
  BY <1>2, <1>5, FrameKinds DEF UserOps, r
<1>7. f \in Frames /\ f.op = b.op /\ f.eff = b.eff
  BY <1>1, <1>6, GotGood DEF IInv
<1> HIDE DEF f, b, x
<1>8. Peers(Last(r), f)
  BY <1>6, <1>7 DEF Peers, Lazy, UserOps
<1>9. Nested(stack')
  BY <1>2, <1>3, <1>4, <1>7, <1>8, NestReplace
<1>10. Turns(r, stack', {f}, {b})
  BY <1>2, <1>3, <1>4, <1>6, <1>7, TurnReplace
<1>11. Turns(stack, stack', {} \cup {f}, {Top} \cup {b})
  BY <1>3, <1>10, TurnOver
<1>12. {} \cup {f} = {f} /\ {Top} \cup {b} = {Top, b}
  OBVIOUS
<1>13. Last(stack') = f /\ f \in ToSet(stack')
  <2>1. Front(r) \in Seq(Frames)
    BY <1>2, <1>3, FrontFacts
  <2> QED BY <1>4, <1>7, <2>1, LastAppend, SetPush
<1>14. Flow({f}, {Top, b})
  BY <1>6, <1>7, <1>9, <1>11, <1>12, <1>13 DEF Flow, UserOps
<1> QED BY <1>1, <1>2, <1>30, <1>41, <1>5, <1>6, <1>13, <1>14 DEF f, b, x, r

\* The run f after a write to s.
Older(f, g, s) ==
  /\ g.op = f.op
  /\ f.op \in {"clean", "body"} => g.eff = f.eff /\ g.id = f.id /\ g.basis = f.basis
  /\ f.op = "clean" => g.old = f.old
  /\ f.op = "body" => g.old = (f.old \/ s \in f.basis)
  /\ f.op \in {"flush", "dispatch"} => g.ids = f.ids
  /\ f.op = "release" => g.id = f.id
  /\ f.op = "get" => g.src = f.src

LEMMA OutdateFrames ==
  ASSUME NEW stk, NEW ids, StackGood(stk, ids), NEW s
  PROVE  /\ Outdate(stk, s) \in Seq(Frames) /\ Len(Outdate(stk, s)) = Len(stk)
         /\ \A i \in 1..Len(stk) : /\ Older(stk[i], Outdate(stk, s)[i], s)
                                   /\ Outdate(stk, s)[i].eff = stk[i].eff
                                   /\ stk[i].op # "body" => Outdate(stk, s)[i] = stk[i]
<1> DEFINE r == Outdate(stk, s)
<1>1. stk \in Seq(Frames) /\ Len(stk) \in Nat /\ DOMAIN stk = 1..Len(stk)
  BY DEF StackGood
<1>2. r \in Seq(Frames) /\ Len(r) = Len(stk)
  BY OutdateGood DEF StackGood
<1>3. ASSUME NEW i \in 1..Len(stk)
      PROVE  /\ Older(stk[i], r[i], s) /\ r[i].eff = stk[i].eff
             /\ stk[i].op # "body" => r[i] = stk[i]
  <2> DEFINE f == stk[i]
  <2>1. f \in Frames
    BY <1>1
  <2>2. CASE f.op = "body" /\ s \in f.basis
    <3> DEFINE g == [f EXCEPT !.old = TRUE]
    <3>1. r[i] = g
      BY <2>2, <1>1 DEF Outdate
    <3>2. f \in CodeFrames
      BY <2>1, <2>2, FrameKinds
    <3> HIDE DEF f
    <3>3. g.op = f.op /\ g.eff = f.eff /\ g.id = f.id /\ g.basis = f.basis /\ g.old = TRUE
      BY <3>2 DEF CodeFrames
    <3> HIDE DEF g
    <3>4. Older(f, g, s)
      BY <2>2, <3>3 DEF Older
    <3> QED BY <2>2, <3>1, <3>3, <3>4 DEF f
  <2>3. CASE ~ (f.op = "body" /\ s \in f.basis)
    <3>1. r[i] = f
      BY <2>3, <1>1 DEF Outdate
    <3>2. f.op = "body" => f.old \in BOOLEAN
      BY <2>1, FrameKinds DEF CodeFrames
    <3> QED BY <2>3, <3>1, <3>2 DEF Older
  <2> QED BY <2>2, <2>3
<1> QED BY <1>2, <1>3

LEMMA NestOutdate ==
  ASSUME NEW stk, NEW ids, StackGood(stk, ids), Nested(stk), NEW s
  PROVE  Nested(Outdate(stk, s))
<1> DEFINE r == Outdate(stk, s)
<1>1. Len(stk) \in Nat
  BY DEF StackGood
<1>2. /\ Len(r) = Len(stk)
      /\ \A i \in 1..Len(stk) : /\ r[i].op = stk[i].op /\ r[i].eff = stk[i].eff
                                /\ stk[i].op = "get" => r[i] = stk[i]
  BY OutdateFrames DEF Older
<1> HIDE DEF r
<1>3. \A i \in 1..Len(stk) : Lazy(r[i]) <=> Lazy(stk[i])
  BY <1>2 DEF Lazy
<1>4. ASSUME NEW i \in 1..Len(r), Lazy(r[i])
      PROVE  i > 1 /\ r[i - 1].op = "get" /\ r[i - 1].src = r[i].eff
  <2>1. i > 1 /\ stk[i - 1].op = "get" /\ stk[i - 1].src = stk[i].eff
    BY <1>2, <1>3, <1>4 DEF Nested
  <2>2. i - 1 \in 1..Len(stk)
    BY <2>1, <1>1, <1>2
  <2> QED BY <2>1, <2>2, <1>2
<1>5. ASSUME NEW i \in 1..Len(r), r[i].op = "get"
      PROVE  i > 1 /\ r[i].src \in Reads[r[i - 1].eff]
  <2>1. i > 1 /\ stk[i].src \in Reads[stk[i - 1].eff] /\ r[i] = stk[i]
    BY <1>2, <1>5 DEF Nested
  <2>2. i - 1 \in 1..Len(stk)
    BY <2>1, <1>1, <1>2
  <2> QED BY <2>1, <2>2, <1>2
<1>6. ASSUME NEW i \in 1..Len(r) - 1, r[i].op = "get" PROVE Lazy(r[i + 1])
  <2>1. i \in 1..Len(stk) /\ i + 1 \in 1..Len(stk)
    BY <1>1, <1>2
  <2> QED BY <2>1, <1>2, <1>3, <1>6 DEF Nested
<1>7. ASSUME NEW j \in 1..Len(r), NEW i \in 1..j - 1, Lazy(r[i])
      PROVE  r[j].op = "get" \/ Lazy(r[j])
  <2>1. i \in 1..Len(stk)
    BY <1>1, <1>2
  <2> QED BY <2>1, <1>2, <1>3, <1>7 DEF Nested
<1> QED BY <1>4, <1>5, <1>6, <1>7 DEF Nested, r

LEMMA WriteFlow ==
  ASSUME IInv, Nested(stack), NEW s \in Signals, Write(s)
  PROVE  LET d == Loop("dispatch", subs[s])
         IN  /\ Nested(stack') /\ stack' # <<>> /\ Last(stack').op # "get"
             /\ d \in ToSet(stack') /\ d.op = "dispatch" /\ d.ids = subs[s]
             /\ \A g \in ToSet(stack') : g = d \/ \E f \in ToSet(stack) : Older(f, g, s)
             /\ \A f \in ToSet(stack) : \E g \in ToSet(stack') : Older(f, g, s)
             /\ \A f \in ToSet(stack) : ~ Lazy(f)
<1> DEFINE b == Append(Rest, Did(s))
           o == Outdate(b, s)
           d == Loop("dispatch", subs[s])
<1>1. stack' = Append(o, d) /\ InUserCode /\ s \in Sources /\ s \in Writes[Top.eff]
  BY DEF Write, Sources
<1>2. ~ Lazy(Top) /\ Top.op # "get" /\ stack # <<>>
  BY <1>1, UserTop, NotLazy
<1>3. /\ Nested(b) /\ Turns(stack, b, {}, {}) /\ b # <<>>
      /\ Last(b).op # "get" /\ Last(b).op = Top.op /\ Last(b).eff = Top.eff
  BY <1>1, DidStep
<1>4. StackGood(b, idOf)
  BY <1>1, DidCalling DEF IInv
<1>5. d \in Frames /\ d.op = "dispatch" /\ d.ids = subs[s]
  BY <1>1, LoopGood DEF IInv, Graph
<1>6. \A f \in ToSet(stack) : ~ Lazy(f)
  BY <1>2, Frames1, NoLazyBelow DEF Top
<1> HIDE DEF b, d
<1>7. /\ o \in Seq(Frames) /\ Len(o) = Len(b) /\ Nested(o)
      /\ \A i \in 1..Len(b) : Older(b[i], o[i], s) /\ o[i].eff = b[i].eff
  BY <1>3, <1>4, OutdateFrames, NestOutdate
<1> HIDE DEF o
<1>8. b \in Seq(Frames)
  BY <1>4 DEF StackGood
<1>9. o # <<>> /\ Last(o).op # "get" /\ ~ Lazy(Last(o))
  <2>0. Len(b) \in Nat /\ Len(b) > 0 /\ Last(b) = b[Len(b)]
    BY <1>3, <1>8, FrontFacts
  <2>1. Len(b) \in 1..Len(b) /\ Last(b) = b[Len(b)]
    BY <2>0
  <2>2. o # <<>>
    <3>1. Len(o) > 0
      BY <2>1, <1>7
    <3> QED BY <3>1
  <2>3. Last(o) = o[Len(b)]
    BY <2>2, <1>7, FrontFacts
  <2>4. Last(o).op = Top.op /\ Last(o).eff = Top.eff
    BY <2>1, <2>3, <1>3, <1>7 DEF Older
  <2> QED BY <1>2, <2>2, <2>4 DEF Lazy
<1>10. ~ Lazy(d) /\ Fits(Last(o), d)
  BY <1>5, <1>9, PlainFits DEF Lazy
<1>11. Nested(stack') /\ stack' # <<>> /\ Last(stack') = d /\ d \in ToSet(stack')
  BY <1>1, <1>5, <1>7, <1>9, <1>10, PushStep
<1>12. \A g : g \in ToSet(stack') <=> g \in ToSet(o) \/ g = d
  BY <1>1, <1>5, <1>7, SetPush
<1>13. /\ \A g \in ToSet(o) : \E f \in ToSet(b) : Older(f, g, s)
       /\ \A f \in ToSet(b) : \E g \in ToSet(o) : Older(f, g, s)
  BY <1>7, <1>8, SetFacts
<1>14. \A f, g, h : Alike(f, g) /\ Older(g, h, s) => Older(f, h, s)
  BY DEF Alike, Older
<1>15. /\ \A g \in ToSet(b) : \E f \in ToSet(stack) : Alike(f, g)
       /\ \A f \in ToSet(stack) : \E g \in ToSet(b) : Alike(f, g)
  BY <1>3 DEF Turns
<1>16. \A g \in ToSet(stack') : g = d \/ \E f \in ToSet(stack) : Older(f, g, s)
  <2> SUFFICES ASSUME NEW g \in ToSet(o) PROVE \E f \in ToSet(stack) : Older(f, g, s)
    BY <1>12
  <2>1. PICK h \in ToSet(b) : Older(h, g, s)
    BY <1>13
  <2>2. PICK f \in ToSet(stack) : Alike(f, h)
    BY <1>15
  <2> QED BY <2>1, <2>2, <1>14
<1>17. \A f \in ToSet(stack) : \E g \in ToSet(stack') : Older(f, g, s)
  <2> SUFFICES ASSUME NEW f \in ToSet(stack) PROVE \E g \in ToSet(o) : Older(f, g, s)
    BY <1>12
  <2>1. PICK h \in ToSet(b) : Alike(f, h)
    BY <1>15
  <2>2. PICK g \in ToSet(o) : Older(h, g, s)
    BY <1>13
  <2> QED BY <2>1, <2>2, <1>14
<1> QED BY <1>5, <1>6, <1>11, <1>16, <1>17 DEF d

\* A loop goes on with other ids.
LEMMA LoopFlow ==
  ASSUME IInv, Nested(stack), At("flush") \/ At("dispatch"), NEW q \in Seq(Ids), NEW a \in BOOLEAN
  PROVE  LET f == [Top EXCEPT !.ids = q, !.any = a]
         IN  /\ Nested(Append(Rest, f)) /\ Append(Rest, f) \in Seq(Frames)
             /\ Turns(stack, Append(Rest, f), {f}, {Top})
             /\ Append(Rest, f) # <<>> /\ Last(Append(Rest, f)) = f /\ f \in ToSet(Append(Rest, f))
             /\ f \in Frames /\ f.op = Top.op /\ f.ids = q
<1> DEFINE t == Top
           f == [t EXCEPT !.ids = q, !.any = a]
<1>1. t \in LoopFrames /\ stack # <<>> /\ t = Top
  BY TopFacts DEF IInv, At
<1> HIDE DEF t
<1>2. f \in LoopFrames /\ f.op = t.op /\ f.ids = q /\ t.op \in {"flush", "dispatch"}
  BY <1>1 DEF LoopFrames
<1> HIDE DEF f
<1>3. f \in Frames /\ Peers(Top, f)
  BY <1>1, <1>2 DEF Peers, Lazy, Frames
<1>4. /\ Nested(Append(Rest, f)) /\ Append(Rest, f) \in Seq(Frames)
      /\ Turns(stack, Append(Rest, f), {f}, {Top})
      /\ Append(Rest, f) # <<>> /\ Last(Append(Rest, f)) = f /\ f \in ToSet(Append(Rest, f))
  BY <1>1, <1>3, ReplaceStep
<1> QED BY <1>1, <1>2, <1>3, <1>4 DEF f

LEMMA DispatchFlow ==
  ASSUME IInv, Nested(stack), NEW q \in Seq(Ids), NEW a \in BOOLEAN,
         At("dispatch"), stack' = Append(Rest, [Top EXCEPT !.ids = q, !.any = a])
  PROVE  \E f \in Frames : /\ f.op = "dispatch" /\ f.ids = q
                           /\ Flow({f}, {Top}) /\ f \in ToSet(stack')
<1> DEFINE f == [Top EXCEPT !.ids = q, !.any = a]
<1>1. /\ Nested(Append(Rest, f)) /\ Turns(stack, Append(Rest, f), {f}, {Top})
      /\ Last(Append(Rest, f)) = f /\ f \in ToSet(Append(Rest, f))
      /\ f \in Frames /\ f.op = "dispatch" /\ f.ids = q
  BY LoopFlow DEF At
<1>2. stack' = Append(Rest, f)
  OBVIOUS
<1> HIDE DEF f
<1>3. Flow({f}, {Top})
  BY <1>1, <1>2 DEF Flow
<1> QED BY <1>1, <1>2, <1>3

LEMMA RouteFlow ==
  ASSUME IInv, Nested(stack), Route
  PROVE  \E f \in Frames : /\ f.op = "dispatch" /\ f.ids = Tail(Top.ids)
                           /\ Flow({f}, {Top}) /\ f \in ToSet(stack')
<1> DEFINE id    == Head(Top.ids)
           plain == Live(id) /\ Occupant(id) \in Plain
           t     == Top
           a     == t.any \/ plain
           q     == Tail(t.ids)
<1>1. At("dispatch") /\ t \in LoopFrames
  BY TopFacts DEF IInv, Route, At
<1>2. stack' = Append(Rest, [Top EXCEPT !.ids = Tail(@), !.any = @ \/ plain])
  BY DEF Route
<1>3. t.ids # <<>>
  BY DEF Route
<1> HIDE DEF plain
<1>4. q \in Seq(Ids) /\ a \in BOOLEAN
  BY <1>1, <1>3 DEF LoopFrames
<1>5. stack' = Append(Rest, [Top EXCEPT !.ids = q, !.any = a])
  BY <1>2
<1>6. q = Tail(Top.ids)
  OBVIOUS
<1> HIDE DEF q, a, t
<1> QED BY <1>1, <1>4, <1>5, <1>6, DispatchFlow

LEMMA NextSignalFlow ==
  ASSUME IInv, Nested(stack), NextSignal
  PROVE  \E f \in Frames : /\ f.op = "dispatch" /\ f.ids = subs[Head(worklist)]
                           /\ Flow({f}, {Top}) /\ f \in ToSet(stack')
<1> DEFINE q == subs[Head(worklist)]
           a == Top.any
           t == Top
<1>1. At("dispatch") /\ t \in LoopFrames
  BY TopFacts DEF IInv, NextSignal, At
<1>2. stack' = Append(Rest, [t EXCEPT !.ids = q])
  BY DEF NextSignal
<1>3. Head(worklist) \in Computeds
  BY TailFacts DEF IInv, Flags, NextSignal
<1>4. q \in Seq(Ids) /\ a \in BOOLEAN
  BY <1>1, <1>3 DEF LoopFrames, IInv, Graph, Sources
<1>5. a = t.any /\ t = Top
  OBVIOUS
<1> HIDE DEF q, a, t
<1>6. [t EXCEPT !.ids = q] = [t EXCEPT !.ids = q, !.any = a]
  BY <1>1, <1>5 DEF LoopFrames
<1>7. \E f \in Frames : f.op = "dispatch" /\ f.ids = q /\ Flow({f}, {Top}) /\ f \in ToSet(stack')
  BY <1>1, <1>2, <1>4, <1>5, <1>6, DispatchFlow
<1> QED BY <1>7 DEF q

\* A call that ends, of no computed.
LEMMA PopFlow ==
  ASSUME IInv, Nested(stack), stack # <<>>, ~ Lazy(Top), stack' = Rest
  PROVE  Flow({}, {Top})
  BY PopStep DEF Flow

LEMMA BatchFlow ==
  ASSUME IInv, Nested(stack), EnterBatch \/ ExitBatch
  PROVE  Flow({}, {})
<1>1. InUserCode /\ stack # <<>> /\ Top \in CodeFrames /\ Top.op # "get"
  BY UserTop DEF EnterBatch, ExitBatch
<1>2. /\ Did("batch") \in CodeFrames /\ Alike(Top, Did("batch")) /\ Peers(Top, Did("batch"))
      /\ Alike(Top, Top) /\ Peers(Top, Top)
  BY <1>1, DidAlike, DidGood, AlikeFacts DEF IInv, Peers
<1>3. PICK b \in BOOLEAN : \E f \in {Did("batch"), Top} : stack' = Append(Rest, [f EXCEPT !.batch = b])
  BY DEF EnterBatch, ExitBatch
<1>4. PICK f \in {Did("batch"), Top} : stack' = Append(Rest, [f EXCEPT !.batch = b])
  BY <1>3
<1> DEFINE g == [f EXCEPT !.batch = b]
<1>5. f \in CodeFrames /\ Alike(Top, f) /\ Peers(Top, f)
  BY <1>1, <1>2
<1>6. /\ g \in CodeFrames /\ g.op = f.op /\ g.eff = f.eff /\ g.id = f.id
      /\ g.basis = f.basis /\ g.old = f.old
  BY <1>5 DEF CodeFrames
<1>7. stack' = Append(Rest, g)
  BY <1>4
<1> HIDE DEF g
<1>8. g \in Frames /\ Alike(Top, g) /\ Peers(Top, g)
  <2>1. g \in Frames
    BY <1>6 DEF Frames
  <2>2. Alike(f, g)
    <3>1. f.op \in {"event", "clean", "body", "cleanup"}
      BY <1>5 DEF CodeFrames
    <3> QED BY <1>6, <3>1 DEF Alike
  <2>3. Peers(Top, g)
    <3>1. Lazy(f) <=> Lazy(g)
      BY <1>6 DEF Lazy
    <3> QED BY <1>5, <1>6, <3>1 DEF Peers
  <2> QED BY <1>5, <2>1, <2>2, <2>3, AlikeFacts
<1>9. Nested(stack') /\ Turns(stack, stack', {}, {}) /\ Last(stack') = g
  BY <1>1, <1>7, <1>8, ReplaceStep
<1> QED BY <1>8, <1>9 DEF Flow, Peers

LEMMA MicrotaskFlow ==
  ASSUME IInv, Nested(stack), FlushMicrotask
  PROVE  LET f == Loop("flush", queue)
         IN  Flow({f}, {}) /\ f \in ToSet(stack') /\ f.op = "flush" /\ f.ids = queue
<1> DEFINE f == Loop("flush", queue)
<1>1. stack' = Append(stack, f) /\ stack = <<>>
  BY DEF FlushMicrotask, BeginFlush
<1>2. f \in Frames /\ f.op = "flush" /\ f.ids = queue
  BY LoopGood DEF IInv, Queue
<1> HIDE DEF f
<1>3. ~ Lazy(f) /\ f.op # "get"
  BY <1>2 DEF Lazy
<1>4. Nested(stack') /\ Turns(stack, stack', {f}, {}) /\ Last(stack') = f /\ f \in ToSet(stack')
  BY <1>1, <1>2, <1>3, Frames1, PushStep
<1> QED BY <1>2, <1>3, <1>4 DEF Flow, f

\* After what the caller notes, something that is no computed is called.
LEMMA DidPush ==
  ASSUME IInv, Nested(stack), InUserCode, ~ Lazy(Top), NEW f \in Frames, ~ Lazy(f), f.op # "get",
         NEW x \in Sources \cup Effects \cup {"drain", "batch", "cleanup", "unmount"}
  PROVE  LET b == Append(Append(Rest, Did(x)), f)
         IN  /\ Nested(b) /\ b \in Seq(Frames) /\ b # <<>> /\ Turns(stack, b, {f}, {})
             /\ Last(b) = f /\ f \in ToSet(b)
<1> DEFINE d == Append(Rest, Did(x))
<1>1. /\ Nested(d) /\ d \in Seq(Frames) /\ Turns(stack, d, {}, {}) /\ d # <<>>
      /\ Last(d).op = Top.op /\ Last(d).op # "get" /\ Last(d).eff = Top.eff
  BY DidStep
<1> HIDE DEF d
<1>2. Fits(Last(d), f)
  BY <1>1, PlainFits DEF Lazy
<1>3. /\ Nested(Append(d, f)) /\ Append(d, f) \in Seq(Frames) /\ Append(d, f) # <<>>
      /\ Turns(stack, Append(d, f), {} \cup {f}, {})
      /\ Last(Append(d, f)) = f /\ f \in ToSet(Append(d, f))
  BY <1>1, <1>2, PushAfter
<1>4. {} \cup {f} = {f}
  OBVIOUS
<1> QED BY <1>3, <1>4 DEF d

LEMMA FlushSyncFlow ==
  ASSUME IInv, Nested(stack), FlushSync
  PROVE  LET f == Loop("flush", queue)
         IN  Flow({f}, {}) /\ f \in ToSet(stack') /\ f.op = "flush" /\ f.ids = queue
<1> DEFINE f == Loop("flush", queue)
<1>1. stack' = Append(Append(Rest, Did("drain")), f) /\ InUserCode /\ "drain" \in Calls[Top.eff]
  BY DEF FlushSync, BeginFlush
<1>2. f \in Frames /\ f.op = "flush" /\ f.ids = queue
  BY LoopGood DEF IInv, Queue
<1> HIDE DEF f
<1>3. ~ Lazy(f) /\ f.op # "get" /\ ~ Lazy(Top)
  BY <1>1, <1>2, UserTop, NotLazy DEF Lazy
<1>4. Nested(stack') /\ Turns(stack, stack', {f}, {}) /\ Last(stack') = f /\ f \in ToSet(stack')
  BY <1>1, <1>2, <1>3, DidPush
<1> QED BY <1>2, <1>3, <1>4 DEF Flow, f

\* An id of the pass is taken; its effect is no computed.
LEMMA FlushNextFlow ==
  ASSUME IInv, Nested(stack), Framing, FlushNext
  PROVE  LET id == Head(Top.ids)
             c  == Code("clean", Occupant(id), id)
         IN  \E f \in Frames :
               /\ f.op = "flush" /\ f.ids = Tail(Top.ids) /\ f \in ToSet(stack')
               /\ IF Live(id) /\ ~ (runs[id] >= MaxReruns)
                  THEN Flow({f, c}, {Top}) /\ c \in ToSet(stack')
                  ELSE Flow({f}, {Top})
               /\ Live(id) => Occupant(id) \in Plain
<1> DEFINE t  == Top
           id == Head(t.ids)
           c  == Code("clean", Occupant(id), id)
           q  == Tail(t.ids)
           a  == t.any
           f  == [t EXCEPT !.ids = q, !.any = a]
           b  == Append(Rest, f)
<1>1. At("flush") /\ t \in LoopFrames /\ t = Top /\ t.ids # <<>> /\ stack # <<>>
  BY TopFacts DEF IInv, FlushNext, At
<1>2. id \in Ids /\ q \in Seq(Ids) /\ a \in BOOLEAN
  BY <1>1 DEF LoopFrames
<1>3. f = [t EXCEPT !.ids = Tail(@)]
  BY <1>1 DEF LoopFrames
<1>4. IF Live(id) /\ ~ (runs[id] >= MaxReruns) THEN stack' = Append(b, c) ELSE stack' = b
  <2>1. stack' = IF Live(id) /\ ~ (runs[id] >= MaxReruns)
                 THEN Append(Append(Rest, [t EXCEPT !.ids = Tail(@)]), c)
                 ELSE Append(Rest, [t EXCEPT !.ids = Tail(@)])
    BY DEF FlushNext
  <2> QED BY <2>1, <1>3
<1>5. ASSUME Live(id) PROVE Occupant(id) \in Plain
  <2>1. Top \in ToSet(stack)
    BY <1>1, Frames1, SetPop DEF Top
  <2>2. 1 \in 1..Len(t.ids) /\ t.ids[1] = id
    BY <1>1 DEF LoopFrames
  <2>3. Ours(id)
    BY <1>1, <2>1, <2>2 DEF Framing, FrameFine, At
  <2>4. PICK e \in Plain : idOf[e] = id
    BY <2>3 DEF Ours
  <2>5. e \in Effects
    BY DEF Plain
  <2> QED BY <1>5, <2>4, <2>5, OwnId DEF IInv
<1>6. /\ Nested(b) /\ b \in Seq(Frames) /\ Turns(stack, b, {f}, {Top})
      /\ b # <<>> /\ Last(b) = f /\ f \in ToSet(b)
      /\ f \in Frames /\ f.op = "flush" /\ f.ids = q
  BY <1>1, <1>2, LoopFlow DEF At
<1>7. q = Tail(Top.ids) /\ id = Head(Top.ids)
  OBVIOUS
<1>8. CASE Live(id) /\ ~ (runs[id] >= MaxReruns)
  <2>1. c \in Frames /\ c.op = "clean" /\ c.eff \in Plain
    BY <1>2, <1>5, <1>8, CodeGood DEF Plain, Bodies
  <2> HIDE DEF b, c, f, q, id, t
  <2>2. Fits(f, c)
    BY <1>6, <2>1, PlainFits DEF Lazy, Plain
  <2>3. /\ Nested(Append(b, c)) /\ Turns(stack, Append(b, c), {f} \cup {c}, {Top})
        /\ Last(Append(b, c)) = c /\ c \in ToSet(Append(b, c))
    BY <1>6, <2>1, <2>2, PushAfter
  <2>4. {f} \cup {c} = {f, c} /\ f \in ToSet(Append(b, c))
    BY <1>6, <2>1, SetPush
  <2>5. Flow({f, c}, {Top}) /\ c \in ToSet(stack') /\ f \in ToSet(stack')
    BY <1>4, <1>8, <2>1, <2>3, <2>4 DEF Flow
  <2> QED BY <1>5, <1>6, <1>7, <1>8, <2>5 DEF c, id, t
<1>9. CASE ~ (Live(id) /\ ~ (runs[id] >= MaxReruns))
  <2> HIDE DEF b, c, f, q
  <2>1. Flow({f}, {Top}) /\ f \in ToSet(stack')
    BY <1>4, <1>6, <1>9 DEF Flow
  <2> QED BY <1>5, <1>6, <1>7, <1>9, <2>1 DEF c
<1> QED BY <1>8, <1>9

LEMMA EndFlow ==
  ASSUME IInv, Nested(stack), EndDispatch \/ EndFlush \/ FinishRelease
  PROVE  Flow({}, {Top}) /\ stack # <<>> /\ Top.op \in {"dispatch", "flush", "release"}
<1>1. stack # <<>> /\ Top.op \in {"dispatch", "flush", "release"} /\ stack' = Rest
  BY DEF EndDispatch, EndFlush, FinishRelease, At
<1> QED BY <1>1, PopFlow DEF Lazy

LEMMA NoteFlow ==
  ASSUME IInv, Nested(stack), OnCleanup \/ \E s \in Signals : ClearScope(s)
  PROVE  Flow({}, {}) /\ ~ Lazy(Top) /\ InUserCode
<1>1. PICK x \in {"cleanup", "unmount"} : InUserCode /\ x \in Calls[Top.eff] /\ stack' = Append(Rest, Did(x))
  BY DEF OnCleanup, ClearScope, At, InUserCode
<1>2. Top.eff \in Bodies /\ ~ Lazy(Top)
  BY <1>1, UserTop, NotLazy
<1>3. x \in Sources \cup Effects \cup {"drain", "batch", "cleanup", "unmount"}
  BY <1>1
<1> QED BY <1>1, <1>2, <1>3, DidStep DEF Flow

LEMMA FreeFlow ==
  ASSUME IInv, Nested(stack), NEW e \in Effects, Free(e)
  PROVE  /\ ~ Lazy(Top) /\ e \in Plain /\ idOf[e] \in Ids
         /\ IF Live(idOf[e]) /\ Occupant(idOf[e]) \in open
            THEN Flow({Release(idOf[e]), Code("cleanup", Cleanup, NoId)}, {})
            ELSE Flow({}, {})
<1> DEFINE g == Release(idOf[e])
           f == Code("cleanup", Cleanup, NoId)
           a == Append(Append(Rest, Did(e)), g)
<1>1. InUserCode /\ e \in Frees[Top.eff] /\ idOf[e] \in Ids
  BY DEF Free, IInv, Tables
<1>2. Top.eff \in Bodies /\ ~ Lazy(Top) /\ Top.op # "get"
  BY <1>1, UserTop, NotLazy
<1>3. e \in Plain
  BY <1>1, <1>2, ReactiveAssumption
<1>4. e \in Sources \cup Effects \cup {"drain", "batch", "cleanup", "unmount"}
  OBVIOUS
<1>5. CASE Live(idOf[e]) /\ Occupant(idOf[e]) \in open
  <2>1. stack' = Append(Rest, Did(e)) \o <<g, f>>
    BY <1>5 DEF Free
  <2>2. g \in Frames /\ g.op = "release"
    BY <1>1 DEF Release, ReleaseFrames, Frames
  <2>3. f \in Frames /\ f.op = "cleanup"
    BY CodeGood DEF Bodies
  <2>4. Append(Rest, Did(e)) \in Seq(Frames)
    BY <1>1, <1>4, DidStep
  <2> HIDE DEF g, f
  <2>5. stack' = Append(a, f)
    <3> DEFINE d == Append(Rest, Did(e))
    <3>1. d \in Seq(Frames) /\ stack' = d \o <<g, f>>
      BY <2>1, <2>4
    <3> HIDE DEF d
    <3>2. d \o <<g, f>> = Append(Append(d, g), f)
      BY <2>2, <2>3, <3>1
    <3> QED BY <3>1, <3>2 DEF d
  <2>6. /\ Nested(a) /\ a \in Seq(Frames) /\ a # <<>> /\ Turns(stack, a, {g}, {}) /\ Last(a) = g
    BY <1>1, <1>2, <1>4, <2>2, DidPush DEF Lazy
  <2> HIDE DEF a
  <2>7. Fits(Last(a), f)
    BY <2>2, <2>3, <2>6, PlainFits DEF Lazy
  <2>8. Nested(stack') /\ Turns(stack, stack', {g} \cup {f}, {}) /\ Last(stack') = f
    BY <2>3, <2>5, <2>6, <2>7, PushAfter
  <2>9. {g} \cup {f} = {g, f}
    OBVIOUS
  <2>10. Flow({g, f}, {})
    BY <2>3, <2>8, <2>9 DEF Flow
  <2> QED BY <1>1, <1>2, <1>3, <1>5, <2>10 DEF g, f
<1>6. CASE ~ (Live(idOf[e]) /\ Occupant(idOf[e]) \in open)
  <2>1. stack' = Append(Rest, Did(e))
    BY <1>6 DEF Free
  <2> QED BY <1>1, <1>2, <1>3, <1>4, <1>6, <2>1, DidStep DEF Flow
<1> QED BY <1>5, <1>6

LEMMA ReturnFlow ==
  ASSUME IInv, Nested(stack), Return
  PROVE  /\ Nested(stack') /\ Turns(stack, stack', {}, {Top})
         /\ \A g \in ToSet(stack') : \E f \in ToSet(Rest) : Alike(f, g)
         /\ stack' # <<>> /\ Last(stack').op = "get" => Lazy(Top) /\ Last(stack').src = Top.eff
<1>1. stack # <<>> /\ Top.op # "get"
  BY UserTop DEF Return
<1> DEFINE r == Rest
<1>2. /\ Nested(r) /\ r \in Seq(Frames) /\ Turns(stack, r, {}, {Top})
      /\ r # <<>> => (Last(r).op = "get" <=> Lazy(Top))
      /\ r # <<>> /\ Last(r).op = "get" => Last(r).src = Top.eff
  BY <1>1, PopStep
<1>3. StackGood(r, idOf)
  BY <1>1, PopGood DEF IInv, Calling, Rest
<1>4. stack' = IF Len(r) > 0 /\ Last(r).op = "flush"
               THEN Append(Front(r), [Last(r) EXCEPT !.any = TRUE]) ELSE r
  BY DEF Return
<1> HIDE DEF r
<1>5. CASE Len(r) > 0 /\ Last(r).op = "flush"
  <2> DEFINE t == Last(r)
             f == [t EXCEPT !.any = TRUE]
  <2>0. r # <<>>
    <3>1. r = <<>> => Len(r) = 0
      OBVIOUS
    <3> QED BY <1>5, <3>1
  <2>1. t \in LoopFrames /\ t.op = "flush"
    BY <1>2, <1>5, <2>0, FrontFacts, FrameKinds
  <2>2. stack' = Append(Front(r), f)
    BY <1>4, <1>5
  <2>3. Last(r) = t
    OBVIOUS
  <2> HIDE DEF t
  <2>4. f \in LoopFrames /\ f.op = "flush" /\ f.ids = t.ids
    BY <2>1 DEF LoopFrames
  <2> HIDE DEF f
  <2>5. f \in Frames /\ Peers(Last(r), f) /\ Alike(Last(r), f)
    BY <2>1, <2>3, <2>4 DEF Peers, Alike, Lazy, Frames
  <2>6. Nested(stack')
    BY <1>2, <1>3, <2>0, <2>2, <2>5, NestReplace
  <2>7. Turns(r, stack', {}, {})
    BY <1>2, <2>0, <2>2, <2>5, TurnReplace
  <2>8. Turns(stack, stack', {} \cup {}, {Top} \cup {})
    BY <1>2, <2>7, TurnOver
  <2>9. {} \cup {} = {} /\ {Top} \cup {} = {Top}
    OBVIOUS
  <2>10. Last(stack').op # "get"
    <3>1. Front(r) \in Seq(Frames)
      BY <1>2, <2>0, FrontFacts
    <3> QED BY <2>2, <2>4, <2>5, <3>1, LastAppend
  <2> QED BY <2>6, <2>7, <2>8, <2>9, <2>10 DEF Turns, r
<1>6. CASE ~ (Len(r) > 0 /\ Last(r).op = "flush")
  BY <1>2, <1>4, <1>6, AlikeFacts DEF r
<1> QED BY <1>5, <1>6

-----------------------------------------------------------------------------
(***************************************************************************)
(* Shape is kept.                                                          *)
(***************************************************************************)

\* Only its creation gives an effect an id.
LEMMA IdsStay ==
  ASSUME IInv, Next
  PROVE  /\ \A e \in Effects : idOf[e] # NoId => idOf'[e] = idOf[e]
         /\ (\A e \in Effects : ~ Create(e)) => idOf' = idOf
<1>1. CASE \E e \in Effects : Create(e)
  BY <1>1, CreatedFacts DEF IInv
<1>2. CASE \A e \in Effects : ~ Create(e)
  <2>1. CASE BrowserEvent \/ FlushMicrotask \/ Machinery
    <3>1. CASE BrowserEvent \/ FlushMicrotask
      BY <3>1 DEF BrowserEvent, FlushMicrotask, tables
    <3>2. CASE RunCleanups \/ StartBody \/ FinishRead \/ FinishRelease
      BY <3>2 DEF RunCleanups, StartBody, FinishRead, FinishRelease, tables
    <3>3. CASE Route \/ NextSignal \/ EndDispatch \/ FlushNext \/ EndFlush
      BY <3>3 DEF Route, NextSignal, EndDispatch, FlushNext, EndFlush, tables
    <3> QED BY <2>1, <3>1, <3>2, <3>3 DEF Machinery
  <2>2. CASE \E e \in Effects : Free(e)
    BY <2>2 DEF Free
  <2>3. CASE \E x \in Sources : Read(x) \/ ReadDirty(x)
    BY <2>3 DEF Read, ReadDirty, tables
  <2>4. CASE \E s \in Signals : Write(s) \/ ClearScope(s)
    BY <2>4 DEF Write, ClearScope, tables
  <2>5. CASE EnterBatch \/ ExitBatch \/ FlushSync \/ OnCleanup \/ Return
    BY <2>5 DEF EnterBatch, ExitBatch, FlushSync, OnCleanup, Return, tables
  <2> QED BY <1>2, <2>1, <2>2, <2>3, <2>4, <2>5 DEF Next, UserSteps
<1> QED BY <1>1, <1>2

LEMMA OursStay ==
  ASSUME IInv, Next
  PROVE  \A id : Ours(id) => Ours(id)'
<1> SUFFICES ASSUME NEW id, Ours(id) PROVE Ours(id)'
  OBVIOUS
<1>1. PICK e \in Plain : idOf[e] = id /\ id # NoId
  BY DEF Ours
<1>2. idOf'[e] = id
  BY <1>1, IdsStay DEF Plain
<1> QED BY <1>1, <1>2 DEF Ours

LEMMA FineStays ==
  ASSUME IInv, Next, NEW f \in Frames, FrameFine(f), Lazy(f) => f.eff \in dirty'
  PROVE  FrameFine(f)'
<1>1. f.op = "get" => idOf'[f.src] # NoId
  <2> SUFFICES ASSUME f.op = "get" PROVE idOf'[f.src] # NoId
    OBVIOUS
  <2>1. f.src \in Effects
    BY FrameKinds, ReactiveAssumption DEF GetFrames
  <2> QED BY <2>1, IdsStay DEF FrameFine
<1>2. f.op = "release" => Ours(f.id)'
  BY OursStay DEF FrameFine
<1>3. f.op = "flush" => \A j \in 1..Len(f.ids) : Ours(f.ids[j])'
  BY OursStay DEF FrameFine
<1> QED BY <1>1, <1>2, <1>3 DEF FrameFine

LEMMA AlikeFine ==
  ASSUME NEW f, NEW g, Alike(f, g)
  PROVE  FrameFine(f) <=> FrameFine(g)
<1>1. Lazy(f) <=> Lazy(g)
  BY DEF Alike, Lazy
<1> QED BY <1>1 DEF Alike, FrameFine, Lazy

LEMMA AlikeFineNext ==
  ASSUME NEW f, NEW g, Alike(f, g)
  PROVE  FrameFine(f)' <=> FrameFine(g)'
<1>1. Lazy(f) <=> Lazy(g)
  BY DEF Alike, Lazy
<1> QED BY <1>1 DEF Alike, FrameFine, Lazy

LEMMA FramingFlow ==
  ASSUME IInv, Next, Framing, dirty \subseteq dirty', NEW N, NEW L, Turns(stack, stack', N, L),
         \A n \in N : FrameFine(n)'
  PROVE  Framing'
<1> SUFFICES ASSUME NEW g \in ToSet(stack') PROVE FrameFine(g)'
  BY DEF Framing
<1>1. CASE \E n \in N : Alike(n, g)
  BY <1>1, AlikeFineNext
<1>2. CASE \E f \in ToSet(stack) : Alike(f, g)
  <2>1. PICK f \in ToSet(stack) : Alike(f, g)
    BY <1>2
  <2>2. f \in Frames /\ FrameFine(f)
    BY Frames1, SetFacts DEF Framing
  <2>3. Lazy(f) => f.eff \in dirty'
    BY <2>2 DEF FrameFine
  <2> QED BY <2>1, <2>2, <2>3, FineStays, AlikeFineNext
<1> QED BY <1>1, <1>2 DEF Turns

\* The frames that come.
LEMMA NewFine ==
  /\ \A f : f.op \in {"event", "cleanup", "body"} /\ (Lazy(f) => f.eff \in dirty') => FrameFine(f)'
  /\ \A f : f.op = "dispatch" => FrameFine(f)'
  /\ \A f : f.op = "flush" /\ (\A j \in 1..Len(f.ids) : Ours(f.ids[j])') => FrameFine(f)'
<1>1. ASSUME NEW f, f.op \in {"event", "cleanup", "body"}, Lazy(f) => f.eff \in dirty' PROVE FrameFine(f)'
  BY <1>1 DEF FrameFine
<1>2. ASSUME NEW f, f.op = "dispatch" PROVE FrameFine(f)'
  BY <1>2 DEF FrameFine, Lazy
<1>3. ASSUME NEW f, f.op = "flush", \A j \in 1..Len(f.ids) : Ours(f.ids[j])' PROVE FrameFine(f)'
  BY <1>3 DEF FrameFine, Lazy
<1> QED BY <1>1, <1>2, <1>3

\* A run that is about to start has read nothing.
LEMMA CleanFine ==
  ASSUME NEW e, NEW id, e \in Computeds => e \in dirty'
  PROVE  \A f : f = Code("clean", e, id) => FrameFine(f)'
<1> SUFFICES ASSUME NEW f, f = Code("clean", e, id) PROVE FrameFine(f)'
  OBVIOUS
<1>1. f.op = "clean" /\ f.eff = e /\ f.basis = {} /\ f.old = FALSE
  BY DEF Code
<1> QED BY <1>1 DEF FrameFine, Lazy

LEMMA FramingKept == ASSUME IInv, Shape, NoReentry, Next PROVE Framing'
<1>0. Nested(stack) /\ Framing /\ Plainly
  BY DEF Shape
<1> USE <1>0
<1>1. CASE BrowserEvent
  <2>1. Flow({Code("event", Event, NoId)}, {}) /\ dirty' = dirty
    BY <1>1, EventFlow DEF BrowserEvent, graph
  <2>2. \A n : n = Code("event", Event, NoId) => FrameFine(n)'
    <3> SUFFICES ASSUME NEW n, n = Code("event", Event, NoId) PROVE FrameFine(n)'
      OBVIOUS
    <3>1. n.op = "event"
      BY DEF Code
    <3> QED BY <3>1, NewFine DEF Lazy
  <2> QED BY <2>1, <2>2, FramingFlow DEF Flow
<1>2. ASSUME NEW e \in Effects, Create(e) PROVE Framing'
  <2>1. dirty \subseteq dirty'
    BY <1>2 DEF Create
  <2>2. CASE e \in Computeds /\ Flow({}, {})
    BY <2>1, <2>2, FramingFlow DEF Flow
  <2>3. CASE e \in Plain /\ Flow({Code("clean", e, idOf'[e])}, {})
    <3> DEFINE d == idOf'[e]
    <3>1. PICK id : id = d
      OBVIOUS
    <3>2. \A f : f = Code("clean", e, id) => FrameFine(f)'
      BY <2>3, CleanFine DEF Plain
    <3>3. Flow({Code("clean", e, id)}, {})
      BY <2>3, <3>1
    <3> QED BY <2>1, <3>2, <3>3, FramingFlow DEF Flow
  <2> QED BY <1>2, <2>2, <2>3, CreateFlow
<1>3. CASE RunCleanups
  <2>1. Flow({Code("cleanup", Cleanup, NoId)}, {}) /\ dirty' = dirty
    BY <1>3, CleanupsFlow DEF RunCleanups
  <2>2. \A n : n = Code("cleanup", Cleanup, NoId) => FrameFine(n)'
    <3> SUFFICES ASSUME NEW n, n = Code("cleanup", Cleanup, NoId) PROVE FrameFine(n)'
      OBVIOUS
    <3>1. n.op = "cleanup"
      BY DEF Code
    <3> QED BY <3>1, NewFine DEF Lazy
  <2> QED BY <2>1, <2>2, FramingFlow DEF Flow
<1>4. CASE StartBody
  <2>1. PICK f \in Frames : Flow({f}, {Top}) /\ f.op = "body" /\ f.eff = Top.eff
    BY <1>4, StartFlow
  <2>2. dirty' = dirty /\ Top \in ToSet(stack) /\ Top.op = "clean"
    BY <1>4, Frames1, SetPop DEF StartBody, At, Top
  <2>3. Lazy(f) => f.eff \in dirty'
    BY <2>1, <2>2 DEF Framing, FrameFine, Lazy
  <2> QED BY <2>1, <2>2, <2>3, NewFine, FramingFlow DEF Flow
<1>5. ASSUME NEW x \in Sources, Read(x) PROVE Framing'
  <2>1. Flow({Got(Top, x)}, {Top}) /\ dirty' = dirty
    BY <1>5, ReadFlow DEF Read
  <2>2. Top \in CodeFrames /\ Top.op \in UserOps /\ Top \in ToSet(stack)
    BY <1>5, UserTop, Frames1, SetPop DEF Read, Top
  <2>3. Got(Top, x).op = Top.op /\ Got(Top, x).eff = Top.eff
    BY <1>5, <2>2, GotGood DEF IInv
  <2>4. Lazy(Got(Top, x)) => Got(Top, x).eff \in dirty'
    BY <2>1, <2>2, <2>3 DEF Framing, FrameFine, Lazy
  <2>5. PICK f : f = Got(Top, x)
    OBVIOUS
  <2>6. FrameFine(f)'
    BY <2>2, <2>3, <2>4, <2>5, NewFine DEF UserOps
  <2> QED BY <2>1, <2>5, <2>6, FramingFlow DEF Flow
<1>6. ASSUME NEW x \in Sources, ReadDirty(x) PROVE Framing'
  <2>1. Flow({Get(x), Code("clean", x, idOf[x])}, {}) /\ x \in Computeds /\ x \in dirty
    BY <1>6, ReadDirtyFlow DEF ReadDirty
  <2>2. dirty' = dirty /\ idOf' = idOf /\ idOf[x] # NoId
    BY <1>6 DEF ReadDirty, Live, graph, tables
  <2>3. PICK id : id = idOf[x]
    OBVIOUS
  <2>4. \A f : f = Code("clean", x, id) => FrameFine(f)'
    BY <2>1, <2>2, CleanFine
  <2>5. PICK g : g = Get(x)
    OBVIOUS
  <2>6. g.op = "get" /\ g.src = x
    BY <2>5 DEF Get
  <2>7. FrameFine(g)'
    BY <2>2, <2>6 DEF FrameFine, Lazy
  <2>8. Flow({g, Code("clean", x, id)}, {})
    BY <2>1, <2>3, <2>5
  <2> QED BY <2>2, <2>4, <2>7, <2>8, FramingFlow DEF Flow
<1>7. CASE FinishRead
  <2> DEFINE b == Last(Rest)
             x == Top.src
  <2>1. /\ Flow({Got(b, x)}, {Top, b}) /\ b \in ToSet(stack) /\ b \in CodeFrames
        /\ b.op \in UserOps /\ x \in Computeds /\ x \in Sources
    BY <1>7, FinishReadFlow DEF Sources
  <2>2. dirty' = dirty
    BY <1>7 DEF FinishRead
  <2>3. Got(b, x).op = b.op /\ Got(b, x).eff = b.eff
    BY <2>1, GotGood DEF IInv
  <2>4. Lazy(Got(b, x)) => Got(b, x).eff \in dirty'
    BY <2>1, <2>2, <2>3 DEF Framing, FrameFine, Lazy
  <2>5. PICK f : f = Got(b, x)
    OBVIOUS
  <2>6. FrameFine(f)'
    BY <2>1, <2>3, <2>4, <2>5, NewFine DEF UserOps
  <2>7. Flow({f}, {Top, b})
    BY <2>1, <2>5
  <2> QED BY <2>2, <2>6, <2>7, FramingFlow DEF Flow
<1>8. ASSUME NEW s \in Signals, Write(s) PROVE Framing'
  <2>1. PICK d : d = Loop("dispatch", subs[s])
    OBVIOUS
  <2>2. /\ d.op = "dispatch" /\ \A f \in ToSet(stack) : ~ Lazy(f)
        /\ \A g \in ToSet(stack') : g = d \/ \E f \in ToSet(stack) : Older(f, g, s)
    BY <1>8, <2>1, WriteFlow
  <2> SUFFICES ASSUME NEW g \in ToSet(stack') PROVE FrameFine(g)'
    BY DEF Framing
  <2>3. CASE g = d
    BY <2>2, <2>3, NewFine
  <2>4. CASE \E f \in ToSet(stack) : Older(f, g, s)
    <3>1. PICK f \in ToSet(stack) : Older(f, g, s)
      BY <2>4
    <3>2. f \in Frames /\ FrameFine(f) /\ ~ Lazy(f)
      BY <2>2, Frames1, SetFacts DEF Framing
    <3>3. FrameFine(f)'
      BY <3>2, FineStays
    <3>4. ~ Lazy(g)
      BY <3>1, <3>2 DEF Older, Lazy
    <3> QED BY <3>1, <3>3, <3>4 DEF Older, FrameFine
  <2> QED BY <2>2, <2>3, <2>4
<1>9. CASE Route \/ NextSignal
  <2>1. dirty \subseteq dirty'
    BY <1>9 DEF Route, NextSignal, graph
  <2>2. \E f \in Frames : f.op = "dispatch" /\ Flow({f}, {Top})
    BY <1>9, RouteFlow, NextSignalFlow
  <2>3. PICK f \in Frames : f.op = "dispatch" /\ Flow({f}, {Top})
    BY <2>2
  <2> QED BY <2>1, <2>3, NewFine, FramingFlow DEF Flow
<1>10. CASE EndDispatch \/ EndFlush \/ FinishRelease
  <2>1. dirty' = dirty
    BY <1>10 DEF EndDispatch, EndFlush, FinishRelease, graph
  <2> QED BY <1>10, <2>1, EndFlow, FramingFlow DEF Flow
<1>11. CASE EnterBatch \/ ExitBatch
  <2>1. dirty' = dirty
    BY <1>11 DEF EnterBatch, ExitBatch, graph
  <2> QED BY <1>11, <2>1, BatchFlow, FramingFlow DEF Flow
<1>12. CASE FlushMicrotask \/ FlushSync
  <2>1. dirty' = dirty
    BY <1>12 DEF FlushMicrotask, FlushSync, graph
  <2>2. PICK f : f = Loop("flush", queue)
    OBVIOUS
  <2>3. Flow({f}, {}) /\ f.op = "flush" /\ f.ids = queue
    BY <1>12, <2>2, MicrotaskFlow, FlushSyncFlow
  <2>4. \A j \in 1..Len(f.ids) : Ours(f.ids[j])
    BY <2>3 DEF Plainly
  <2>5. \A j \in 1..Len(f.ids) : Ours(f.ids[j])'
    BY <2>4, OursStay
  <2> QED BY <2>1, <2>3, <2>5, NewFine, FramingFlow DEF Flow
<1>13. CASE FlushNext
  <2>1. dirty' = dirty
    BY <1>13 DEF FlushNext, graph
  <2>2. PICK id : id = Head(Top.ids)
    OBVIOUS
  <2>3. PICK c : c = Code("clean", Occupant(id), id)
    OBVIOUS
  <2>4. PICK f \in Frames :
          /\ f.op = "flush" /\ f.ids = Tail(Top.ids)
          /\ Flow({f, c}, {Top}) \/ Flow({f}, {Top})
          /\ Flow({f, c}, {Top}) => Live(id) \/ Flow({f}, {Top})
          /\ Live(id) => Occupant(id) \in Plain
    BY <1>13, <2>2, <2>3, FlushNextFlow
  <2>5. FrameFine(f)'
    <3>1. Top \in ToSet(stack) /\ Top \in LoopFrames /\ Top.ids # <<>> /\ Top.op = "flush"
      BY <1>13, Frames1, SetPop, TopFacts DEF FlushNext, At, Top, IInv
    <3>2. Top.ids \in Seq(Ids)
      BY <3>1 DEF LoopFrames
    <3>3. \A j \in 1..Len(Top.ids) : Ours(Top.ids[j])
      BY <3>1 DEF Framing, FrameFine
    <3>4. \A j \in 1..Len(f.ids) : \E i \in 1..Len(Top.ids) : f.ids[j] = Top.ids[i]
      <4> DEFINE q == Top.ids
      <4>1. q \in Seq(Ids) /\ q # <<>> /\ f.ids = Tail(q)
        BY <2>4, <3>1, <3>2
      <4> HIDE DEF q
      <4>2. \A j \in 1..Len(f.ids) : j + 1 \in 1..Len(q) /\ f.ids[j] = q[j + 1]
        BY <4>1
      <4> QED BY <4>2 DEF q
    <3>5. \A j \in 1..Len(f.ids) : Ours(f.ids[j])'
      BY <3>3, <3>4, OursStay
    <3> QED BY <2>4, <3>5, NewFine
  <2>6. CASE Flow({f}, {Top})
    BY <2>1, <2>5, <2>6, FramingFlow DEF Flow
  <2>7. CASE Flow({f, c}, {Top}) /\ Live(id)
    <3>1. PICK e : e = Occupant(id)
      OBVIOUS
    <3>2. e \notin Computeds
      BY <2>4, <2>7, <3>1 DEF Plain
    <3>3. FrameFine(c)'
      BY <2>3, <3>1, <3>2, CleanFine
    <3> QED BY <2>1, <2>5, <2>7, <3>3, FramingFlow DEF Flow
  <2> QED BY <2>4, <2>6, <2>7
<1>14. ASSUME NEW e \in Effects, Free(e) PROVE Framing'
  <2>1. dirty' = dirty
    BY <1>14 DEF Free
  <2>2. PICK id : id = idOf[e]
    OBVIOUS
  <2>3. PICK g : g = Release(id)
    OBVIOUS
  <2>4. PICK f : f = Code("cleanup", Cleanup, NoId)
    OBVIOUS
  <2>5. e \in Plain /\ idOf[e] # NoId /\ (Flow({g, f}, {}) \/ Flow({}, {}))
    BY <1>14, <2>2, <2>3, <2>4, FreeFlow, IdIsId
  <2>6. g.op = "release" /\ g.id = id /\ f.op = "cleanup"
    BY <2>3, <2>4 DEF Release, Code
  <2>7. Ours(id)'
    BY <2>2, <2>5, OursStay DEF Ours
  <2>8. FrameFine(g)' /\ FrameFine(f)'
    BY <2>6, <2>7 DEF FrameFine, Lazy
  <2> QED BY <2>1, <2>5, <2>8, FramingFlow DEF Flow
<1>15. CASE OnCleanup \/ \E s \in Signals : ClearScope(s)
  <2>1. dirty' = dirty
    BY <1>15 DEF OnCleanup, ClearScope
  <2> QED BY <1>15, <2>1, NoteFlow, FramingFlow DEF Flow
<1>16. CASE Return
  <2>1. stack # <<>> /\ Top.op \in UserOps /\ stack \in Seq(Frames)
    BY <1>16, UserTop, Frames1 DEF Return
  <2>2. \A f \in ToSet(Rest) : f \in ToSet(stack) /\ (Lazy(Top) /\ Lazy(f) => f.eff # Top.eff)
    <3> DEFINE r == Front(stack)
               n == Len(stack)
    <3>1. /\ r \in Seq(Frames) /\ Len(r) = n - 1 /\ n \in Nat /\ n > 0
          /\ Top = stack[n] /\ \A i \in 1..n - 1 : r[i] = stack[i]
      BY <2>1, FrontFacts DEF Top
    <3>2. Rest = r
      BY DEF Rest
    <3> HIDE DEF r
    <3> SUFFICES ASSUME NEW f \in ToSet(r)
                 PROVE  f \in ToSet(stack) /\ (Lazy(Top) /\ Lazy(f) => f.eff # Top.eff)
      BY <3>2
    <3>3. PICK i \in 1..Len(r) : r[i] = f
      BY <3>1, SetFacts
    <3>4. i \in 1..n /\ n \in 1..n /\ i < n /\ stack[i] = f
      BY <3>1, <3>3
    <3>5. f \in ToSet(stack)
      BY <2>1, <3>4, SetFacts
    <3>6. Lazy(stack[i]) /\ Lazy(stack[n]) => stack[i].eff # stack[n].eff
      BY <3>4 DEF NoReentry
    <3> QED BY <3>1, <3>4, <3>5, <3>6
  <2>3. \A c \in dirty : c \in dirty' \/ (Lazy(Top) /\ c = Top.eff)
    <3>1. dirty \subseteq Computeds
      BY DEF IInv, Flags
    <3> QED BY <1>16, <3>1 DEF Return, Lazy
  <2> SUFFICES ASSUME NEW g \in ToSet(stack') PROVE FrameFine(g)'
    BY DEF Framing
  <2>4. PICK f \in ToSet(Rest) : Alike(f, g)
    BY <1>16, ReturnFlow
  <2>5. f \in Frames /\ FrameFine(f)
    BY <2>1, <2>2, SetFacts DEF Framing
  <2>6. Lazy(f) => f.eff \in dirty'
    BY <2>2, <2>3, <2>5 DEF FrameFine
  <2> QED BY <2>4, <2>5, <2>6, FineStays, AlikeFineNext
<1> QED BY <1>1, <1>2, <1>3, <1>4, <1>5, <1>6, <1>7, <1>8, <1>9, <1>10, <1>11, <1>12, <1>13, <1>14,
           <1>15, <1>16 DEF Next, Machinery, UserSteps

LEMMA NestedKept == ASSUME IInv, Shape, Next PROVE Nested(stack')
<1>0. Nested(stack) /\ Framing /\ Plainly
  BY DEF Shape
<1> USE <1>0
<1>1. CASE BrowserEvent \/ FlushMicrotask
  BY <1>1, EventFlow, MicrotaskFlow DEF Flow
<1>2. CASE RunCleanups \/ StartBody \/ FinishRead \/ FinishRelease
  BY <1>2, CleanupsFlow, StartFlow, FinishReadFlow, EndFlow DEF Flow
<1>3. CASE Route \/ NextSignal \/ EndDispatch \/ EndFlush
  BY <1>3, RouteFlow, NextSignalFlow, EndFlow DEF Flow
<1>4. CASE FlushNext
  <2>1. \E N : Flow(N, {Top})
    BY <1>4, FlushNextFlow
  <2> QED BY <2>1 DEF Flow
<1>5. ASSUME NEW e \in Effects, Create(e) \/ Free(e) PROVE Nested(stack')
  <2>1. \E N : Flow(N, {})
    BY <1>5, CreateFlow, FreeFlow
  <2> QED BY <2>1 DEF Flow
<1>6. ASSUME NEW x \in Sources, Read(x) \/ ReadDirty(x) PROVE Nested(stack')
  BY <1>6, ReadFlow, ReadDirtyFlow DEF Flow
<1>7. ASSUME NEW s \in Signals, Write(s) PROVE Nested(stack')
  BY <1>7, WriteFlow
<1>8. CASE OnCleanup \/ \E s \in Signals : ClearScope(s)
  BY <1>8, NoteFlow DEF Flow
<1>9. CASE EnterBatch \/ ExitBatch \/ FlushSync
  BY <1>9, BatchFlow, FlushSyncFlow DEF Flow
<1>10. CASE Return
  BY <1>10, ReturnFlow
<1> QED BY <1>1, <1>2, <1>3, <1>4, <1>5, <1>6, <1>7, <1>8, <1>9, <1>10 DEF Next, Machinery, UserSteps

\* Only a computed's return uncovers a get, and that declares the cache clean.
LEMMA CachedKept == ASSUME IInv, Shape, Next PROVE Cached'
<1>0. Nested(stack) /\ Framing /\ Plainly
  BY DEF Shape
<1> USE <1>0
<1>20. ASSUME NEW N, NEW L, Flow(N, L) PROVE Cached'
  BY <1>20 DEF Flow, Cached, At, Top
<1>1. CASE BrowserEvent \/ FlushMicrotask
  BY <1>1, <1>20, EventFlow, MicrotaskFlow
<1>2. CASE RunCleanups \/ StartBody \/ FinishRead \/ FinishRelease
  BY <1>2, <1>20, CleanupsFlow, StartFlow, FinishReadFlow, EndFlow
<1>3. CASE Route \/ NextSignal \/ EndDispatch \/ EndFlush
  BY <1>3, <1>20, RouteFlow, NextSignalFlow, EndFlow
<1>4. CASE FlushNext
  <2>1. \E N : Flow(N, {Top})
    BY <1>4, FlushNextFlow
  <2> QED BY <1>20, <2>1
<1>5. ASSUME NEW e \in Effects, Create(e) \/ Free(e) PROVE Cached'
  <2>1. \E N : Flow(N, {})
    BY <1>5, CreateFlow, FreeFlow
  <2> QED BY <1>20, <2>1
<1>6. ASSUME NEW x \in Sources, Read(x) \/ ReadDirty(x) PROVE Cached'
  BY <1>6, <1>20, ReadFlow, ReadDirtyFlow
<1>7. ASSUME NEW s \in Signals, Write(s) PROVE Cached'
  BY <1>7, WriteFlow DEF Cached, At, Top
<1>8. CASE OnCleanup \/ \E s \in Signals : ClearScope(s)
  BY <1>8, <1>20, NoteFlow
<1>9. CASE EnterBatch \/ ExitBatch \/ FlushSync
  BY <1>9, <1>20, BatchFlow, FlushSyncFlow
<1>10. CASE Return
  <2>1. stack' # <<>> /\ Last(stack').op = "get" => Lazy(Top) /\ Last(stack').src = Top.eff
    BY <1>10, ReturnFlow
  <2>2. Lazy(Top) => Top.eff \notin dirty'
    BY <1>10 DEF Return, InUserCode, Lazy
  <2> QED BY <2>1, <2>2 DEF Cached, At, Top
<1> QED BY <1>1, <1>2, <1>3, <1>4, <1>5, <1>6, <1>7, <1>8, <1>9, <1>10 DEF Next, Machinery, UserSteps

\* A frame of a kind that does not go stays.
LEMMA KindStays ==
  ASSUME NEW N, NEW L, Turns(stack, stack', N, L), NEW op, \A l \in L : l.op # op
  PROVE  (\E f \in ToSet(stack) : f.op = op) => \E f \in ToSet(stack') : f.op = op
<1> SUFFICES ASSUME NEW f \in ToSet(stack), f.op = op PROVE \E g \in ToSet(stack') : g.op = op
  OBVIOUS
<1>1. PICK g \in ToSet(stack') : Alike(f, g)
  BY DEF Turns, Alike
<1> QED BY <1>1 DEF Alike

LEMMA DispatchStays ==
  ASSUME NEW N, NEW L, Turns(stack, stack', N, L), \A l \in L : l.op # "dispatch"
  PROVE  Dispatching => Dispatching'
  BY KindStays DEF Dispatching

LEMMA IdleKept == ASSUME IInv, Shape, Next PROVE Idle'
<1>0. Nested(stack) /\ Framing /\ Plainly /\ Idle
  BY DEF Shape
<1> USE <1>0
<1>20. ASSUME NEW N, NEW L, Flow(N, L), \A l \in L : l.op # "dispatch", worklist' = worklist PROVE Idle'
  BY <1>20, DispatchStays DEF Flow, Idle
<1>1. CASE BrowserEvent \/ FlushMicrotask
  <2>1. worklist' = worklist
    BY <1>1 DEF BrowserEvent, FlushMicrotask
  <2> QED BY <1>1, <1>20, <2>1, EventFlow, MicrotaskFlow
<1>2. CASE RunCleanups \/ StartBody \/ FinishRelease
  <2>1. worklist' = worklist /\ Top.op \in {"clean", "release"}
    BY <1>2 DEF RunCleanups, StartBody, FinishRelease, At
  <2>2. \A l \in {Top} : l.op # "dispatch"
    BY <2>1
  <2>3. \E N : Flow(N, {Top}) \/ Flow(N, {})
    BY <1>2, CleanupsFlow, StartFlow, EndFlow
  <2>4. PICK N : Flow(N, {Top}) \/ Flow(N, {})
    BY <2>3
  <2> QED BY <1>20, <2>1, <2>2, <2>4
<1>11. CASE FinishRead
  <2> DEFINE b == Last(Rest)
             x == Top.src
  <2>1. Flow({Got(b, x)}, {Top, b}) /\ b.op \in UserOps
    BY <1>11, FinishReadFlow
  <2>2. worklist' = worklist /\ Top.op = "get"
    BY <1>11 DEF FinishRead, At
  <2> QED BY <1>20, <2>1, <2>2 DEF UserOps
<1>3. CASE Route \/ NextSignal
  BY <1>3, RouteFlow, NextSignalFlow DEF Idle, Dispatching
<1>12. CASE EndDispatch
  BY <1>12 DEF EndDispatch, Idle
<1>4. CASE FlushNext \/ EndFlush
  <2>1. \E N : Flow(N, {Top})
    BY <1>4, FlushNextFlow, EndFlow
  <2>2. worklist' = worklist /\ Top.op = "flush"
    BY <1>4 DEF FlushNext, EndFlush, At
  <2> QED BY <1>20, <2>1, <2>2
<1>5. ASSUME NEW e \in Effects, Create(e) \/ Free(e) PROVE Idle'
  <2>1. \E N : Flow(N, {})
    BY <1>5, CreateFlow, FreeFlow
  <2>2. worklist' = worklist
    BY <1>5 DEF Create, Free
  <2> QED BY <1>20, <2>1, <2>2
<1>6. ASSUME NEW x \in Sources, Read(x) \/ ReadDirty(x) PROVE Idle'
  <2>1. worklist' = worklist /\ Top.op # "dispatch"
    BY <1>6 DEF Read, ReadDirty, InUserCode
  <2>2. \A l \in {Top} : l.op # "dispatch"
    BY <2>1
  <2>3. \E N : Flow(N, {Top}) \/ Flow(N, {})
    BY <1>6, ReadFlow, ReadDirtyFlow
  <2>4. PICK N : Flow(N, {Top}) \/ Flow(N, {})
    BY <2>3
  <2> QED BY <1>20, <2>1, <2>2, <2>4
<1>7. ASSUME NEW s \in Signals, Write(s) PROVE Idle'
  BY <1>7, WriteFlow DEF Idle, Dispatching
<1>8. CASE OnCleanup \/ \E s \in Signals : ClearScope(s)
  <2>1. worklist' = worklist
    BY <1>8 DEF OnCleanup, ClearScope
  <2> QED BY <1>8, <1>20, <2>1, NoteFlow
<1>9. CASE EnterBatch \/ ExitBatch \/ FlushSync
  <2>1. worklist' = worklist
    BY <1>9 DEF EnterBatch, ExitBatch, FlushSync
  <2> QED BY <1>9, <1>20, <2>1, BatchFlow, FlushSyncFlow
<1>10. CASE Return
  <2>1. worklist' = worklist /\ Top.op # "dispatch"
    BY <1>10 DEF Return, InUserCode
  <2> QED BY <1>10, <2>1, ReturnFlow, DispatchStays DEF Idle
<1> QED BY <1>1, <1>2, <1>3, <1>4, <1>5, <1>6, <1>7, <1>8, <1>9, <1>10, <1>11, <1>12
        DEF Next, Machinery, UserSteps

\* What is released is no computed.
LEMMA ReleaseSteps ==
  ASSUME IInv, Nested(stack), Framing
  PROVE  /\ FinishRelease => Top.id \in Ids /\ Ours(Top.id) /\ Retire(Top.id)
         /\ \A e \in Effects : Free(e) =>
              /\ idOf[e] \in Ids /\ Ours(idOf[e])
              /\ Retire(idOf[e]) \/ (/\ open' = open \ {Occupant(idOf[e])}
                                     /\ UNCHANGED <<slab, gens, deps, subs, queue, past>>)
<1>1. ASSUME FinishRelease PROVE Top.id \in Ids /\ Ours(Top.id) /\ Retire(Top.id)
  <2>1. Top.op = "release" /\ Top.id \in Ids /\ Top \in ToSet(stack)
    BY <1>1, TopFacts, Frames1, SetPop DEF IInv, FinishRelease, At, ReleaseFrames, Top
  <2> QED BY <1>1, <2>1 DEF Framing, FrameFine, FinishRelease
<1>2. ASSUME NEW e \in Effects, Free(e)
      PROVE  /\ idOf[e] \in Ids /\ Ours(idOf[e])
             /\ Retire(idOf[e]) \/ (/\ open' = open \ {Occupant(idOf[e])}
                                    /\ UNCHANGED <<slab, gens, deps, subs, queue, past>>)
  <2>1. e \in Plain /\ idOf[e] \in Ids /\ idOf[e] # NoId
    BY <1>2, FreeFlow, IdIsId
  <2> QED BY <1>2, <2>1 DEF Ours, Free
<1> QED BY <1>1, <1>2

LEMMA OursPlain == ASSUME IInv, Framing, Nested(stack), NEW id \in Ids, Ours(id), Live(id) PROVE Occupant(id) \in Plain
<1>1. PICK e \in Plain : idOf[e] = id
  BY DEF Ours
<1> QED BY <1>1, OwnId DEF IInv, Plain

\* What happens to the queue.
LEMMA QueueMoves ==
  ASSUME IInv, Nested(stack), Framing, Next
  PROVE  \/ queue' = queue \/ queue' = <<>>
         \/ \E id \in Ids : queue' = RemoveFirst(queue, id)
         \/ \E id \in Ids : Live(id) /\ Occupant(id) \in Plain /\ queue' = Append(queue, id)
<1>1. CASE BrowserEvent \/ FlushMicrotask
  BY <1>1 DEF BrowserEvent, FlushMicrotask, BeginFlush, sched
<1>2. CASE RunCleanups \/ StartBody \/ FinishRead \/ NextSignal \/ EndDispatch \/ FlushNext \/ EndFlush
  BY <1>2 DEF RunCleanups, StartBody, FinishRead, NextSignal, EndDispatch, FlushNext, EndFlush, sched
<1>3. CASE Route
  <2> DEFINE id == Head(Top.ids)
  <2>1. Top \in LoopFrames /\ Top.ids # <<>>
    BY <1>3, TopFacts DEF IInv, Route, At
  <2>2. id \in Ids
    BY <2>1 DEF LoopFrames
  <2> QED BY <1>3, <2>2 DEF Route
<1>4. CASE FinishRelease \/ \E e \in Effects : Free(e)
  <2>1. \E id \in Ids : Retire(id) \/ queue' = queue
    BY <1>4, ReleaseSteps
  <2> QED BY <2>1 DEF Retire
<1>5. CASE UserSteps /\ ~ \E e \in Effects : Free(e)
  BY <1>5 DEF UserSteps, Create, Read, ReadDirty, Write, ClearScope, EnterBatch, ExitBatch,
              FlushSync, BeginFlush, OnCleanup, Return, sched
<1> QED BY <1>1, <1>2, <1>3, <1>4, <1>5 DEF Next, Machinery

LEMMA PlainlyKept == ASSUME IInv, Shape, Next PROVE Plainly'
<1>0. Nested(stack) /\ Framing /\ Plainly
  BY DEF Shape
<1>1. \A i \in 1..Len(queue') : Ours(queue'[i])
  <2>1. queue \in Seq(Ids) /\ Once(queue) /\ \A i \in 1..Len(queue) : Ours(queue[i])
    BY <1>0 DEF IInv, Queue, QueueGood, Plainly
  <2>2. CASE queue' = queue \/ queue' = <<>>
    BY <2>1, <2>2
  <2>3. ASSUME NEW id \in Ids, queue' = RemoveFirst(queue, id)
        PROVE  \A i \in 1..Len(queue') : Ours(queue'[i])
    <3>1. \A i \in 1..Len(queue') : \E j \in 1..Len(queue) : queue[j] = queue'[i]
      BY <2>1, <2>3, RemoveFacts
    <3> QED BY <2>1, <3>1
  <2>4. ASSUME NEW id \in Ids, Live(id), Occupant(id) \in Plain, queue' = Append(queue, id)
        PROVE  \A i \in 1..Len(queue') : Ours(queue'[i])
    <3>1. idOf[Occupant(id)] = id /\ id # NoId
      BY <2>4, LiveFacts, IdIsId DEF IInv
    <3>2. Ours(id)
      BY <2>4, <3>1 DEF Ours
    <3>3. /\ Len(queue') = Len(queue) + 1 /\ Len(queue) \in Nat
          /\ \A i \in 1..Len(queue) : queue'[i] = queue[i]
          /\ queue'[Len(queue) + 1] = id
      BY <2>1, <2>4, AppendFacts
    <3> QED BY <2>1, <3>2, <3>3
  <2> QED BY <1>0, <2>2, <2>3, <2>4, QueueMoves
<1>2. (\A i \in 1..Len(queue) : Ours(queue[i]))'
  <2>1. ASSUME NEW i \in 1..Len(queue'), NEW id, id = queue'[i] PROVE Ours(id)'
    <3>1. Ours(id)
      BY <1>1, <2>1
    <3> QED BY <3>1, OursStay
  <2> QED BY <2>1 DEF Ours
<1>3. open' \subseteq Plain
  <2>1. open \subseteq Plain
    BY <1>0 DEF Plainly
  <2>2. CASE OnCleanup
    <3>1. stack # <<>> /\ Top.op = "body" /\ InUserCode /\ "cleanup" \in Calls[Top.eff]
      BY <2>2 DEF OnCleanup, At, InUserCode
    <3>2. FrameGood(Top, idOf) /\ Top.eff \in Bodies
      BY <3>1, TopFacts, UserTop DEF IInv
    <3>3. Top.eff \in Effects /\ Top.id = idOf[Top.eff] /\ Top.eff \notin Computeds
      BY <3>1, <3>2, ReactiveAssumption DEF FrameGood
    <3>4. Live(Top.id) => Occupant(Top.id) = Top.eff
      BY <3>3, OwnId DEF IInv
    <3> QED BY <2>1, <2>2, <3>3, <3>4 DEF OnCleanup, Plain
  <2>3. CASE FinishRelease \/ \E e \in Effects : Free(e)
    <3>1. \E id \in Ids : Retire(id) \/ open' = open \ {Occupant(id)}
      BY <1>0, <2>3, ReleaseSteps
    <3>2. open' \subseteq open
      BY <3>1 DEF Retire
    <3> QED BY <2>1, <3>2
  <2>4. CASE BrowserEvent \/ FlushMicrotask
    BY <2>1, <2>4 DEF BrowserEvent, FlushMicrotask, graph
  <2>5. CASE Machinery /\ ~ FinishRelease
    BY <2>1, <2>5 DEF Machinery, RunCleanups, StartBody, FinishRead, Route, NextSignal, EndDispatch,
                      FlushNext, EndFlush, graph
  <2>6. CASE UserSteps /\ ~ OnCleanup /\ ~ \E e \in Effects : Free(e)
    BY <2>1, <2>6 DEF UserSteps, Create, Read, ReadDirty, Write, ClearScope, EnterBatch, ExitBatch,
                      FlushSync, Return, graph
  <2> QED BY <2>2, <2>3, <2>4, <2>5, <2>6 DEF Next
<1> QED BY <1>2, <1>3 DEF Plainly

\* What a computed's subscribers are while it does not exist: none.
LEMMA NoneYet ==
  ASSUME IInv, Shape, NEW c \in Computeds, idOf[c] = NoId
  PROVE  /\ \A id : Unsubscribed(id)[c] = <<>>
         /\ \A b, f, x : (x \in Computeds => idOf[x] # NoId) /\ x \in Sources /\ Subscribe(b, f, x) => subs'[c] = <<>>
<1>1. subs[c] = <<>> /\ c \in Sources /\ subs \in [Sources -> Seq(Ids)]
  BY DEF Shape, Born, Sources, IInv, Graph
<1>2. \A y : RemoveFirst(<<>>, y) = <<>>
  BY DEF RemoveFirst
<1>3. ASSUME NEW id PROVE Unsubscribed(id)[c] = <<>>
  BY <1>1, <1>2 DEF Unsubscribed
<1>4. ASSUME NEW b, NEW f, NEW x \in Sources, x \in Computeds => idOf[x] # NoId, Subscribe(b, f, x)
      PROVE  subs'[c] = <<>>
  <2>1. x # c
    BY <1>4
  <2>2. subs' = subs \/ subs' = [subs EXCEPT ![x] = Append(@, f.id)]
    BY <1>4 DEF Subscribe, Track
  <2> QED BY <1>1, <2>1, <2>2
<1> QED BY <1>3, <1>4

LEMMA BornKept == ASSUME IInv, Shape, Next PROVE Born'
<1>0. Nested(stack) /\ Framing /\ Plainly /\ Born
  BY DEF Shape
<1>1. ASSUME NEW e \in Effects, idOf'[e] = NoId PROVE basis'[e] = {} /\ e \notin lag'
  <2>1. idOf[e] = NoId /\ basis[e] = {} /\ e \notin lag /\ basis \in [Effects -> SUBSET Signals]
    BY <1>0, <1>1, IdsStay DEF Born, IInv, Flags
  <2>2. CASE Return
    <3>1. Top.op = "body" => Top.eff # e
      BY <2>1, <2>2, TopFacts DEF IInv, Return, InUserCode, FrameGood
    <3> QED BY <2>1, <2>2, <3>1 DEF Return
  <2>3. CASE FinishRelease \/ \E f \in Effects : Free(f)
    <3>1. \E id \in Ids : Retire(id) \/ UNCHANGED past
      BY <1>0, <2>3, ReleaseSteps
    <3>2. PICK id \in Ids : Retire(id) \/ UNCHANGED past
      BY <3>1
    <3> QED BY <2>1, <3>2 DEF Retire, past
  <2>4. CASE BrowserEvent \/ FlushMicrotask
    BY <2>1, <2>4 DEF BrowserEvent, FlushMicrotask, past
  <2>5. CASE Machinery /\ ~ FinishRelease
    BY <2>1, <2>5 DEF Machinery, RunCleanups, StartBody, FinishRead, Route, NextSignal, EndDispatch,
                      FlushNext, EndFlush, past
  <2>6. CASE \E s \in Signals : Write(s)
    BY <2>1, <2>6 DEF Write
  <2>7. CASE UserSteps /\ ~ Return /\ (~ \E f \in Effects : Free(f)) /\ ~ \E s \in Signals : Write(s)
    BY <2>1, <2>7 DEF UserSteps, Create, Read, ReadDirty, ClearScope, EnterBatch, ExitBatch,
                      FlushSync, OnCleanup, past
  <2> QED BY <2>2, <2>3, <2>4, <2>5, <2>6, <2>7 DEF Next
<1>2. ASSUME NEW c \in Computeds, idOf'[c] = NoId PROVE subs'[c] = <<>> /\ c \notin dirty'
  <2>0. c \in Effects /\ c \in Sources
    BY ReactiveAssumption DEF Sources
  <2>1. idOf[c] = NoId /\ subs[c] = <<>> /\ c \notin dirty /\ subs \in [Sources -> Seq(Ids)]
    BY <1>0, <1>2, <2>0, IdsStay DEF Born, IInv, Graph
  <2>2. CASE \E e \in Effects : Create(e)
    <3>1. PICK e \in Effects : Create(e)
      BY <2>2
    <3>2. idOf'[e] # NoId
      <4>1. PICK s \in Slots : idOf' = [idOf EXCEPT ![e] = [slot |-> s, gen |-> gens[s]]]
        BY <3>1 DEF Create
      <4>2. idOf'[e] = [slot |-> s, gen |-> gens[s]] /\ [slot |-> s, gen |-> gens[s]] \in Ids
        BY <4>1 DEF Ids, IInv, Tables
      <4> QED BY <4>2, IdIsId
    <3>3. c # e
      BY <1>2, <3>2
    <3> QED BY <2>1, <3>1, <3>3 DEF Create
  <2>3. CASE StartBody
    BY <1>2, <2>1, <2>3, NoneYet DEF StartBody, ClearDeps
  <2>4. CASE FinishRelease \/ \E f \in Effects : Free(f)
    <3>1. \E id \in Ids : Retire(id) \/ UNCHANGED subs
      BY <1>0, <2>4, ReleaseSteps
    <3>2. PICK id \in Ids : Retire(id) \/ UNCHANGED subs
      BY <3>1
    <3>3. dirty' = dirty
      BY <2>4 DEF FinishRelease, Free
    <3> QED BY <2>1, <3>2, <3>3, NoneYet DEF Retire, ClearDeps
  <2>5. ASSUME NEW x \in Sources, Read(x) PROVE subs'[c] = <<>> /\ c \notin dirty'
    <3>1. (x \in Computeds => idOf[x] # NoId) /\ Subscribe(Rest, Top, x) /\ dirty' = dirty
      BY <2>5 DEF Read
    <3> QED BY <2>1, <3>1, NoneYet
  <2>6. CASE FinishRead
    <3>1. Top.op = "get" /\ Top.src \in Sources /\ Top \in ToSet(stack)
      BY <2>6, TopFacts, Frames1, SetPop DEF IInv, FinishRead, At, GetFrames, Sources, Top
    <3>2. idOf[Top.src] # NoId
      BY <1>0, <3>1 DEF Framing, FrameFine
    <3> DEFINE b == Front(Rest)
               f == Last(Rest)
               x == Top.src
    <3>3. Subscribe(b, f, x) /\ dirty' = dirty /\ x \in Sources /\ idOf[x] # NoId
      BY <2>6, <3>1, <3>2 DEF FinishRead
    <3> HIDE DEF b, f, x
    <3> QED BY <2>1, <3>3, NoneYet
  <2>7. CASE Route
    <3> DEFINE id == Head(Top.ids)
    <3>1. Top \in LoopFrames /\ Top.ids # <<>>
      BY <2>7, TopFacts DEF IInv, Route, At
    <3>2. id \in Ids
      BY <3>1 DEF LoopFrames
    <3>3. Live(id) => Occupant(id) # c
      BY <2>1, <3>2, LiveFacts, IdIsId DEF IInv
    <3> QED BY <2>1, <2>7, <3>3 DEF Route
  <2>8. CASE BrowserEvent \/ FlushMicrotask
    BY <2>1, <2>8 DEF BrowserEvent, FlushMicrotask, graph
  <2>9. CASE RunCleanups \/ NextSignal \/ EndDispatch \/ FlushNext \/ EndFlush
    BY <2>1, <2>9 DEF RunCleanups, NextSignal, EndDispatch, FlushNext, EndFlush, graph
  <2>10. CASE \E s \in Signals : ClearScope(s)
    BY <2>1, <2>0, <2>10 DEF ClearScope
  <2>11. CASE (\E x \in Sources : ReadDirty(x)) \/ (\E s \in Signals : Write(s)) \/ EnterBatch \/ ExitBatch
              \/ FlushSync \/ OnCleanup \/ Return
    BY <2>1, <2>11 DEF ReadDirty, Write, EnterBatch, ExitBatch, FlushSync, OnCleanup, Return, graph
  <2> QED BY <2>2, <2>3, <2>4, <2>5, <2>6, <2>7, <2>8, <2>9, <2>10, <2>11 DEF Next, Machinery, UserSteps
<1>3. ASSUME NEW c \in Computeds, idOf'[c] # NoId PROVE (Live(idOf[c]))'
  <2>0. c \in Effects
    BY ReactiveAssumption
  <2>1. CASE \E e \in Effects : Create(e)
    <3>1. PICK e \in Effects : Create(e)
      BY <2>1
    <3>2. PICK s \in Slots : /\ slab[s] = NoOne /\ slab' = [slab EXCEPT ![s] = e]
                             /\ idOf' = [idOf EXCEPT ![e] = [slot |-> s, gen |-> gens[s]]]
      BY <3>1 DEF Create
    <3>3. CASE c = e
      <4>1. idOf'[c] = [slot |-> s, gen |-> gens[s]] /\ slab'[s] = e /\ gens'[s] = gens[s] /\ e # NoOne
        BY <3>1, <3>2, <3>3, ReactiveAssumption DEF Create, IInv, Tables
      <4> QED BY <1>3, <3>3, <4>1 DEF Live
    <3>4. CASE c # e
      <4>1. idOf'[c] = idOf[c] /\ idOf[c] # NoId /\ idOf[c] \in Ids
        BY <1>3, <2>0, <3>2, <3>4 DEF IInv, Tables
      <4>2. Live(idOf[c])
        BY <1>0, <4>1 DEF Born
      <4>3. PICK y \in Ids : y = idOf[c]
        BY <4>1
      <4>4. Live(y)'
        BY <3>1, <4>2, <4>3, CreatedFacts DEF IInv
      <4> QED BY <4>1, <4>3, <4>4 DEF Live
    <3> QED BY <3>3, <3>4
  <2>2. CASE ~ \E e \in Effects : Create(e)
    <3>1. idOf' = idOf /\ idOf[c] # NoId /\ idOf[c] \in Ids
      BY <1>3, <2>0, <2>2, IdsStay DEF IInv, Tables
    <3>2. Live(idOf[c]) /\ Occupant(idOf[c]) = c
      BY <1>0, <2>0, <3>1, OwnId DEF Born, IInv
    <3>3. \E id \in Ids : (Ours(id) /\ Evicted(id)) \/ UNCHANGED <<slab, gens>>
      <4>1. CASE FinishRelease \/ \E f \in Effects : Free(f)
        BY <1>0, <4>1, ReleaseSteps DEF Retire
      <4>2. CASE BrowserEvent \/ FlushMicrotask
        BY <3>1, <4>2 DEF BrowserEvent, FlushMicrotask, tables
      <4>3. CASE Machinery /\ ~ FinishRelease
        BY <3>1, <4>3 DEF Machinery, RunCleanups, StartBody, FinishRead, Route, NextSignal,
                          EndDispatch, FlushNext, EndFlush, tables
      <4>4. CASE UserSteps /\ (~ \E f \in Effects : Free(f)) /\ (~ \E e \in Effects : Create(e))
        BY <3>1, <4>4 DEF UserSteps, Read, ReadDirty, Write, ClearScope, EnterBatch, ExitBatch,
                          FlushSync, OnCleanup, Return, tables
      <4> QED BY <2>2, <4>1, <4>2, <4>3, <4>4 DEF Next
    <3>4. PICK id \in Ids : (Ours(id) /\ Evicted(id)) \/ UNCHANGED <<slab, gens>>
      BY <3>3
    <3>5. CASE UNCHANGED <<slab, gens>>
      BY <3>1, <3>2, <3>5 DEF Live
    <3>6. CASE Ours(id) /\ Evicted(id)
      <4>1. PICK e \in Plain : idOf[e] = id
        BY <3>6 DEF Ours
      <4>2. Live(id) => Occupant(id) = e /\ e # c
        BY <4>1, OwnId DEF IInv, Plain
      <4>3. idOf[c] # id
        BY <3>2, <4>2
      <4>4. PICK y \in Ids : y = idOf[c]
        BY <3>1
      <4>5. Live(y)'
        BY <3>2, <3>6, <4>3, <4>4, EvictedFacts DEF IInv
      <4> QED BY <3>1, <4>4, <4>5 DEF Live
    <3> QED BY <3>4, <3>5, <3>6
  <2> QED BY <2>1, <2>2
<1> QED BY <1>1, <1>2, <1>3 DEF Born

LEMMA ShapeKept == ASSUME IInv, Shape, NoReentry, Next PROVE Shape'
<1>1. Nested(stack)' /\ Framing' /\ Plainly' /\ Born' /\ Idle' /\ Cached'
  BY NestedKept, FramingKept, PlainlyKept, BornKept, IdleKept, CachedKept DEF Nested, Lazy
<1> QED BY <1>1 DEF Shape

-----------------------------------------------------------------------------
(***************************************************************************)
(* Links is kept by the steps that neither run a body nor touch the graph. *)
(***************************************************************************)

\* A frame that runs an effect.
LEMMA RunFacts ==
  ASSUME IInv, NEW f \in ToSet(stack), f.op \in {"clean", "body"}
  PROVE  f \in CodeFrames /\ f.eff \in Effects /\ f.id = idOf[f.eff] /\ f.id # NoId /\ f.id \in Ids
<1>1. stack \in Seq(Frames) /\ \A i \in 1..Len(stack) : FrameGood(stack[i], idOf)
  BY DEF IInv, Calling, StackGood
<1>2. PICK i \in 1..Len(stack) : stack[i] = f
  BY <1>1, SetFacts
<1>3. f \in Frames /\ FrameGood(f, idOf)
  BY <1>1, <1>2
<1>4. f \in CodeFrames /\ f.eff \in Effects /\ f.id = idOf[f.eff] /\ f.id # NoId
  BY <1>3, FrameKinds DEF FrameGood
<1> QED BY <1>4 DEF IInv, Tables

LEMMA PendingStays ==
  ASSUME NEW e \in Effects, NEW N, NEW L, Turns(stack, stack', N, L),
         idOf'[e] = idOf[e], dirty \subseteq dirty', e \in muted => e \in muted' \/ Pending(e)',
         Contains(queue, idOf[e]) => Contains(queue', idOf[e]) \/ Pending(e)',
         \A l \in L : (l.op = "flush" /\ Contains(l.ids, idOf[e])) \/ (l.op = "clean" /\ l.eff = e)
                        => Pending(e)'
  PROVE  Pending(e) => Pending(e)'
<1> SUFFICES ASSUME Pending(e), ~ Pending(e)' PROVE FALSE
  OBVIOUS
<1>1. e \notin Computeds
  BY DEF Pending
<1>2. ~ Contains(queue, idOf[e]) /\ e \notin muted
  BY <1>1 DEF Pending
<1>3. PICK f \in ToSet(stack) : (f.op = "flush" /\ Contains(f.ids, idOf[e])) \/ (f.op = "clean" /\ f.eff = e)
  BY <1>1, <1>2 DEF Pending
<1>4. ~ \E l \in L : Alike(f, l)
  BY <1>3 DEF Alike
<1>5. PICK g \in ToSet(stack') : Alike(f, g)
  BY <1>4 DEF Turns
<1>6. (g.op = "flush" /\ Contains(g.ids, idOf'[e])) \/ (g.op = "clean" /\ g.eff = e)
  BY <1>3, <1>5 DEF Alike
<1> QED BY <1>1, <1>6 DEF Pending

LEMMA HeardStays ==
  ASSUME NEW e \in Effects, NEW N, NEW L, Turns(stack, stack', N, L), idOf'[e] = idOf[e],
         \A l \in L : l.op = "dispatch" /\ Contains(l.ids, idOf[e]) => Heard(e)' \/ Pending(e)'
  PROVE  Heard(e) => Heard(e)' \/ Pending(e)'
<1> SUFFICES ASSUME Heard(e), ~ (Heard(e)' \/ Pending(e)') PROVE FALSE
  OBVIOUS
<1>1. PICK f \in ToSet(stack) : f.op = "dispatch" /\ Contains(f.ids, idOf[e])
  BY DEF Heard
<1>2. ~ \E l \in L : Alike(f, l)
  BY <1>1 DEF Alike
<1>3. PICK g \in ToSet(stack') : Alike(f, g)
  BY <1>2 DEF Turns
<1>4. g.op = "dispatch" /\ Contains(g.ids, idOf'[e])
  BY <1>1, <1>3 DEF Alike
<1> QED BY <1>4 DEF Heard

\* The bodies under way are the same.
LEMMA BodiesStay ==
  ASSUME NEW N, NEW L, Turns(stack, stack', N, L), \A f \in N \cup L : f.op # "body"
  PROVE  /\ \A g \in ToSet(stack') : g.op = "body" => \E f \in ToSet(stack) : Alike(f, g)
         /\ \A f \in ToSet(stack) : f.op = "body" => \E g \in ToSet(stack') : Alike(f, g)
<1>1. ASSUME NEW g \in ToSet(stack'), g.op = "body" PROVE \E f \in ToSet(stack) : Alike(f, g)
  <2>1. ~ \E n \in N : Alike(n, g)
    BY <1>1 DEF Alike
  <2> QED BY <2>1 DEF Turns
<1>2. ASSUME NEW f \in ToSet(stack), f.op = "body" PROVE \E g \in ToSet(stack') : Alike(f, g)
  <2>1. ~ \E l \in L : Alike(f, l)
    BY <1>2 DEF Alike
  <2> QED BY <2>1 DEF Turns
<1> QED BY <1>1, <1>2

LEMMA Quiet ==
  ASSUME IInv, Links, NEW N, NEW L, Turns(stack, stack', N, L), \A f \in N \cup L : f.op # "body",
         UNCHANGED <<slab, gens, idOf, subs, gone, basis, lag>>,
         \A e \in Effects : Live(idOf[e]) => /\ Pending(e) => Pending(e)'
                                             /\ Heard(e) => Heard(e)' \/ Pending(e)',
         \A c \in dirty' \ dirty : Contains(worklist', c) /\ \A f \in ToSet(stack) : ~ Lazy(f),
         \A c \in dirty : Contains(worklist, c) =>
            \/ Contains(worklist', c)
            \/ \A e \in Effects : Contains(subs[c], idOf[e]) => Heard(e)'
  PROVE  Links'
<1>1. \A id : Live(id)' <=> Live(id)
  BY DEF Live
<1>2. \A e \in Effects : Live(idOf[e]) /\ Told(e) => Told(e)'
  BY DEF Told
<1>3. \A e \in Effects : \A s : Covered(e, s) => Covered(e, s)'
  BY DEF Covered
<1>4. /\ \A g \in ToSet(stack') : g.op = "body" => \E f \in ToSet(stack) : Alike(f, g)
      /\ \A f \in ToSet(stack) : f.op = "body" => \E g \in ToSet(stack') : Alike(f, g)
  BY BodiesStay
<1>5. Watched'
  <2> SUFFICES ASSUME NEW e \in Effects, Live(idOf[e])', ~ Runs(e)', ~ Told(e)'
               PROVE  (e \notin lag)' /\ \A s \in basis'[e] : Covered(e, s)'
    BY DEF Watched
  <2>1. Live(idOf[e])
    BY DEF Live
  <2>2. ~ Runs(e)
    BY <1>4 DEF Runs, Alike
  <2>3. e \notin lag /\ \A s \in basis[e] : Covered(e, s)
    BY <1>2, <2>1, <2>2 DEF Links, Watched
  <2> QED BY <1>3, <2>3
<1>6. Running'
  <2> SUFFICES ASSUME NEW g \in ToSet(stack'), g.op = "body", Live(g.id)', ~ Told(g.eff)'
               PROVE  ~ g.old /\ \A s \in g.basis : Covered(g.eff, s)'
    BY DEF Running
  <2>1. PICK f \in ToSet(stack) : Alike(f, g)
    BY <1>4
  <2>2. f.op = "body" /\ f.eff = g.eff /\ f.id = g.id /\ f.basis = g.basis /\ f.old = g.old
    BY <2>1 DEF Alike
  <2>3. f.eff \in Effects /\ f.id = idOf[f.eff]
    BY <2>2, RunFacts
  <2>4. Live(idOf[f.eff]) /\ ~ Told(f.eff)
    BY <1>1, <1>2, <2>2, <2>3
  <2>5. ~ f.old /\ \A s \in f.basis : Covered(f.eff, s)
    BY <2>2, <2>3, <2>4 DEF Links, Running
  <2> QED BY <1>3, <2>2, <2>3, <2>5
<1>7. Deriving'
  <2> SUFFICES ASSUME NEW g \in ToSet(stack'), g.op = "body", g.eff \in Computeds
               PROVE  /\ ~ g.old /\ \A s \in g.basis : Covered(g.eff, s)'
                      /\ \A d \in dirty' : ~ Contains(subs'[d], idOf'[g.eff])
    BY DEF Deriving
  <2>1. PICK f \in ToSet(stack) : Alike(f, g)
    BY <1>4
  <2>2. f.op = "body" /\ f.eff = g.eff /\ f.basis = g.basis /\ f.old = g.old /\ f.eff \in Effects
    BY <2>1, RunFacts DEF Alike
  <2>3. /\ ~ f.old /\ \A s \in f.basis : Covered(f.eff, s)
        /\ \A d \in dirty : ~ Contains(subs[d], idOf[f.eff])
    BY <2>2 DEF Links, Deriving
  <2>4. Lazy(f)
    BY <2>2 DEF Lazy
  <2>5. \A d \in dirty' : d \in dirty
    BY <2>4
  <2> QED BY <1>3, <2>2, <2>3, <2>5
<1>8. DirtyTold'
  <2> SUFFICES ASSUME NEW c \in dirty', NEW e \in Effects, Live(idOf[e])', Contains(subs'[c], idOf'[e])
               PROVE  Pending(e)' \/ Heard(e)' \/ Contains(worklist', c)
    BY DEF DirtyTold
  <2>1. Live(idOf[e]) /\ Contains(subs[c], idOf[e])
    BY DEF Live
  <2>2. c \in dirty => Pending(e) \/ Heard(e) \/ Contains(worklist, c)
    BY <2>1 DEF Links, DirtyTold
  <2> QED BY <2>1, <2>2
<1>9. NoCircle'
  BY DEF Links, NoCircle
<1> QED BY <1>5, <1>6, <1>7, <1>8, <1>9 DEF Links

QuietStep ==
  \/ BrowserEvent \/ RunCleanups \/ EndDispatch \/ EnterBatch \/ ExitBatch
  \/ FlushMicrotask \/ FlushSync \/ FlushNext \/ EndFlush \/ OnCleanup
  \/ \E x \in Sources : ReadDirty(x)
  \/ \E e \in Effects : Free(e) /\ Live(idOf[e]) /\ Occupant(idOf[e]) \in open
  \/ Return /\ Top.op # "body"

\* A step that neither takes up nor drops what is due, but for the frames it says.
LEMMA QuietFlow ==
  ASSUME IInv, Links, NEW N, NEW L, Turns(stack, stack', N, L), \A f \in N \cup L : f.op # "body",
         UNCHANGED <<slab, gens, idOf, subs, dirty, gone, basis, lag, worklist>>,
         muted \subseteq muted',
         \A e \in Effects : Live(idOf[e]) =>
            /\ Contains(queue, idOf[e]) => Contains(queue', idOf[e]) \/ Pending(e)'
            /\ \A l \in L : (l.op = "flush" /\ Contains(l.ids, idOf[e])) \/ (l.op = "clean" /\ l.eff = e)
                              => Pending(e)'
            /\ \A l \in L : l.op = "dispatch" => ~ Contains(l.ids, idOf[e])
  PROVE  Links'
<1>1. ASSUME NEW e \in Effects, Live(idOf[e])
      PROVE  (Pending(e) => Pending(e)') /\ (Heard(e) => Heard(e)' \/ Pending(e)')
  <2>1. idOf'[e] = idOf[e] /\ dirty \subseteq dirty' /\ (e \in muted => e \in muted' \/ Pending(e)')
    OBVIOUS
  <2>2. Contains(queue, idOf[e]) => Contains(queue', idOf[e]) \/ Pending(e)'
    BY <1>1
  <2>3. \A l \in L : (l.op = "flush" /\ Contains(l.ids, idOf[e])) \/ (l.op = "clean" /\ l.eff = e)
                       => Pending(e)'
    BY <1>1
  <2>4. \A l \in L : l.op = "dispatch" /\ Contains(l.ids, idOf[e]) => Heard(e)' \/ Pending(e)'
    BY <1>1
  <2>5. Pending(e) => Pending(e)'
    BY <2>1, <2>2, <2>3, PendingStays
  <2>6. Heard(e) => Heard(e)' \/ Pending(e)'
    BY <2>1, <2>4, HeardStays
  <2> QED BY <2>5, <2>6
<1>2. /\ \A c \in dirty' \ dirty : Contains(worklist', c) /\ \A f \in ToSet(stack) : ~ Lazy(f)
      /\ \A c \in dirty : Contains(worklist, c) => Contains(worklist', c)
  OBVIOUS
<1> QED BY <1>1, <1>2, Quiet

LEMMA QuietLinks == ASSUME IInv, Shape, Links, QuietStep PROVE Links'
<1>0. Nested(stack) /\ Framing /\ Plainly
  BY DEF Shape
<1> USE <1>0
<1>10. \A x : ~ Contains(<<>>, x)
  BY DEF Contains
<1>1. CASE BrowserEvent
  <2>1. PICK f : f = Code("event", Event, NoId)
    OBVIOUS
  <2>2. Turns(stack, stack', {f}, {}) /\ f.op = "event"
    BY <1>1, <2>1, EventFlow DEF Flow, Code
  <2>3. UNCHANGED <<slab, gens, idOf, subs, dirty, gone, basis, lag, worklist, muted, queue>>
    BY <1>1 DEF BrowserEvent, tables, graph, sched, past
  <2> QED BY <2>2, <2>3, QuietFlow
<1>2. CASE RunCleanups
  <2>1. PICK f : f = Code("cleanup", Cleanup, NoId)
    OBVIOUS
  <2>2. Turns(stack, stack', {f}, {}) /\ f.op = "cleanup"
    BY <1>2, <2>1, CleanupsFlow DEF Flow, Code
  <2>3. UNCHANGED <<slab, gens, idOf, subs, dirty, gone, basis, lag, worklist, muted, queue>>
    BY <1>2 DEF RunCleanups, tables, sched, past
  <2> QED BY <2>2, <2>3, QuietFlow
<1>3. CASE EndDispatch
  <2>1. Turns(stack, stack', {}, {Top}) /\ Top.op = "dispatch" /\ Top.ids = <<>>
    BY <1>3, EndFlow DEF Flow, EndDispatch, At
  <2>2. UNCHANGED <<slab, gens, idOf, subs, dirty, gone, basis, lag, worklist, muted, queue>>
    BY <1>3 DEF EndDispatch, tables, graph, past
  <2> QED BY <1>10, <2>1, <2>2, QuietFlow
<1>4. CASE EnterBatch \/ ExitBatch \/ OnCleanup
  <2>1. Turns(stack, stack', {}, {})
    BY <1>4, BatchFlow, NoteFlow DEF Flow
  <2>2. UNCHANGED <<slab, gens, idOf, subs, dirty, gone, basis, lag, worklist, muted, queue>>
    BY <1>4 DEF EnterBatch, ExitBatch, OnCleanup, tables, graph, sched, past
  <2> QED BY <2>1, <2>2, QuietFlow
<1>5. CASE FlushMicrotask \/ FlushSync
  <2>1. PICK f : f = Loop("flush", queue)
    OBVIOUS
  <2>2. Turns(stack, stack', {f}, {}) /\ f.op = "flush" /\ f.ids = queue /\ f \in ToSet(stack')
    BY <1>5, <2>1, MicrotaskFlow, FlushSyncFlow DEF Flow
  <2>3. UNCHANGED <<slab, gens, idOf, subs, dirty, gone, basis, lag, worklist, muted>>
    BY <1>5 DEF FlushMicrotask, FlushSync, tables, graph, past
  <2>4. ASSUME NEW e \in Effects, Contains(queue, idOf[e]), Live(idOf[e]) PROVE Pending(e)'
    <3>1. e \notin Computeds
      <4>1. queue \in Seq(Ids)
        BY DEF IInv, Queue
      <4>2. PICK i \in 1..Len(queue) : queue[i] = idOf[e]
        BY <2>4, <4>1 DEF Contains
      <4>3. Ours(idOf[e]) /\ idOf[e] \in Ids
        BY <4>1, <4>2 DEF Plainly
      <4> QED BY <2>4, <4>3, OursPlain, OwnId DEF IInv, Plain
    <3>2. Contains(f.ids, idOf'[e])
      BY <2>2, <2>3, <2>4
    <3> QED BY <2>2, <3>1, <3>2 DEF Pending
  <2> QED BY <2>2, <2>3, <2>4, QuietFlow
<1>6. CASE FlushNext
  <2>1. PICK id : id = Head(Top.ids)
    OBVIOUS
  <2>2. PICK c : c = Code("clean", Occupant(id), id)
    OBVIOUS
  <2>3. PICK f \in Frames :
          /\ f.op = "flush" /\ f.ids = Tail(Top.ids) /\ f \in ToSet(stack')
          /\ IF Live(id) /\ ~ (runs[id] >= MaxReruns)
             THEN Flow({f, c}, {Top}) /\ c \in ToSet(stack')
             ELSE Flow({f}, {Top})
          /\ Live(id) => Occupant(id) \in Plain
    BY <1>6, <2>1, <2>2, FlushNextFlow
  <2>4. c.op = "clean" /\ c.eff = Occupant(id)
    BY <2>2 DEF Code
  <2>5. UNCHANGED <<slab, gens, idOf, subs, dirty, gone, basis, lag, worklist, queue>>
    BY <1>6 DEF FlushNext, tables, graph
  <2>6. muted' = IF Live(id) /\ runs[id] >= MaxReruns THEN muted \cup {Occupant(id)} ELSE muted
    BY <1>6, <2>1 DEF FlushNext
  <2>7. Top.op = "flush" /\ Top \in LoopFrames /\ Top.ids # <<>> /\ Top.ids \in Seq(Ids)
    BY <1>6, TopFacts DEF IInv, FlushNext, At, LoopFrames
  <2>8. ASSUME NEW e \in Effects, Contains(Top.ids, idOf[e]), Live(idOf[e]) PROVE Pending(e)'
    <3>1. idOf[e] \in ToSet(Top.ids)
      BY <2>7, <2>8, SetFacts
    <3>2. idOf[e] = id \/ idOf[e] \in ToSet(f.ids)
      BY <2>1, <2>3, <2>7, <3>1, SetTail
    <3>3. e \notin Computeds
      <4>1. PICK i \in 1..Len(Top.ids) : Top.ids[i] = idOf[e]
        BY <2>7, <2>8 DEF Contains
      <4>2. Top \in ToSet(stack)
        BY <1>6, Frames1, SetPop DEF Top, FlushNext, At
      <4>3. Ours(idOf[e]) /\ idOf[e] \in Ids
        BY <2>7, <4>1, <4>2 DEF Framing, FrameFine
      <4> QED BY <2>8, <4>3, OursPlain, OwnId DEF IInv, Plain
    <3>4. CASE idOf[e] \in ToSet(f.ids)
      <4>1. f.ids \in Seq(Ids)
        BY <2>3, <2>7
      <4>2. Contains(f.ids, idOf'[e])
        BY <2>5, <3>4, <4>1, SetFacts
      <4> QED BY <2>3, <3>3, <4>2 DEF Pending
    <3>5. CASE idOf[e] = id
      <4>1. Live(id) /\ Occupant(id) = e
        BY <2>8, <3>5, OwnId DEF IInv
      <4>2. CASE runs[id] >= MaxReruns
        BY <2>6, <3>3, <4>1, <4>2 DEF Pending
      <4>3. CASE ~ (runs[id] >= MaxReruns)
        BY <2>3, <2>4, <3>3, <4>1, <4>3 DEF Pending
      <4> QED BY <4>2, <4>3
    <3> QED BY <3>2, <3>4, <3>5
  <2>9. \E N : Turns(stack, stack', N, {Top}) /\ \A n \in N : n.op # "body"
    <3>1. CASE Flow({f, c}, {Top})
      <4>1. \A n \in {f, c} : n.op # "body"
        BY <2>3, <2>4
      <4> QED BY <3>1, <4>1 DEF Flow
    <3>2. CASE Flow({f}, {Top})
      <4>1. \A n \in {f} : n.op # "body"
        BY <2>3
      <4> QED BY <3>2, <4>1 DEF Flow
    <3> QED BY <2>3, <3>1, <3>2
  <2>10. PICK N : Turns(stack, stack', N, {Top}) /\ \A n \in N : n.op # "body"
    BY <2>9
  <2>11. \A h \in N \cup {Top} : h.op # "body"
    BY <2>7, <2>10
  <2>12. muted \subseteq muted'
    BY <2>6
  <2> QED BY <2>5, <2>7, <2>8, <2>10, <2>11, <2>12, QuietFlow
<1>7. CASE EndFlush
  <2>1. Turns(stack, stack', {}, {Top}) /\ Top.op = "flush" /\ Top.ids = <<>>
    BY <1>7, EndFlow DEF Flow, EndFlush, At
  <2>2. UNCHANGED <<slab, gens, idOf, subs, dirty, gone, basis, lag, worklist, muted, queue>>
    BY <1>7 DEF EndFlush, tables, graph, past
  <2> QED BY <1>10, <2>1, <2>2, QuietFlow
<1>8. ASSUME NEW x \in Sources, ReadDirty(x) PROVE Links'
  <2>1. PICK g : g = Get(x)
    OBVIOUS
  <2>2. PICK f : f = Code("clean", x, idOf[x])
    OBVIOUS
  <2>3. Turns(stack, stack', {g, f}, {}) /\ g.op = "get" /\ f.op = "clean"
    BY <1>8, <2>1, <2>2, ReadDirtyFlow DEF Flow, Code, Get
  <2>4. UNCHANGED <<slab, gens, idOf, subs, dirty, gone, basis, lag, worklist, muted, queue>>
    BY <1>8 DEF ReadDirty, tables, graph, sched, past
  <2> QED BY <2>3, <2>4, QuietFlow
<1>9. ASSUME NEW e \in Effects, Free(e), Live(idOf[e]), Occupant(idOf[e]) \in open PROVE Links'
  <2>1. PICK g : g = Release(idOf[e])
    OBVIOUS
  <2>2. PICK f : f = Code("cleanup", Cleanup, NoId)
    OBVIOUS
  <2>3. Turns(stack, stack', {g, f}, {}) /\ g.op = "release" /\ f.op = "cleanup"
    BY <1>9, <2>1, <2>2, FreeFlow DEF Flow, Code, Release
  <2>4. UNCHANGED <<slab, gens, idOf, subs, dirty, gone, basis, lag, worklist, muted, queue>>
    BY <1>9 DEF Free, past
  <2> QED BY <2>3, <2>4, QuietFlow
<1>11. CASE Return /\ Top.op # "body"
  <2>1. Turns(stack, stack', {}, {Top}) /\ Top.op \in {"event", "cleanup"}
    BY <1>11, ReturnFlow DEF Return, InUserCode
  <2>2. UNCHANGED <<slab, gens, idOf, subs, dirty, gone, basis, lag, worklist, muted, queue>>
    BY <1>11 DEF Return, tables, sched
  <2>3. \A h \in {} \cup {Top} : h.op # "body" /\ h.op # "flush" /\ h.op # "clean" /\ h.op # "dispatch"
    BY <2>1
  <2> QED BY <2>1, <2>2, <2>3, QuietFlow
<1> QED BY <1>1, <1>2, <1>3, <1>4, <1>5, <1>6, <1>7, <1>8, <1>9, <1>11 DEF QuietStep

\* While a write is dispatched, no computed is being computed.
LEMMA NoLazyInDispatch ==
  ASSUME IInv, Nested(stack), At("dispatch")
  PROVE  \A f \in ToSet(stack) : ~ Lazy(f)
<1>1. stack # <<>> /\ Top.op # "get" /\ ~ Lazy(Top)
  BY DEF At, Lazy
<1> QED BY <1>1, Frames1, NoLazyBelow DEF Top

\* Each subscriber of the snapshot is queued or marked in its turn.
LEMMA RouteLinks == ASSUME IInv, Shape, Links, Route PROVE Links'
<1>1. PICK id : id = Head(Top.ids)
  OBVIOUS
<1>2. PICK f \in Frames : /\ f.op = "dispatch" /\ f.ids = Tail(Top.ids)
                          /\ Flow({f}, {Top}) /\ f \in ToSet(stack')
  BY RouteFlow DEF Shape
<1>3. Top \in LoopFrames /\ Top.ids # <<>> /\ Top.ids \in Seq(Ids) /\ Top.op = "dispatch"
  BY TopFacts DEF IInv, Route, At, LoopFrames
<1>4. id \in Ids /\ f.ids \in Seq(Ids)
  BY <1>1, <1>2, <1>3
<1>5. UNCHANGED <<slab, gens, idOf, subs, gone, basis, lag, muted>>
  BY DEF Route, tables, past
<1>6. /\ queue' = IF Live(id) /\ Occupant(id) \in Plain /\ ~ Contains(queue, id)
                  THEN Append(queue, id) ELSE queue
      /\ dirty' = IF Live(id) /\ Occupant(id) \in Computeds THEN dirty \cup {Occupant(id)} ELSE dirty
      /\ worklist' = IF Live(id) /\ Occupant(id) \in Computeds
                     THEN Append(worklist, Occupant(id)) ELSE worklist
  BY <1>1 DEF Route
<1>7. queue \in Seq(Ids) /\ worklist \in Seq(Computeds)
  BY DEF IInv, Queue, Flags
<1>8. /\ \A x : Contains(queue, x) => Contains(queue', x)
      /\ Live(id) /\ Occupant(id) \in Plain => Contains(queue', id)
  <2>1. CASE queue' = Append(queue, id)
    <3>1. /\ queue' \in Seq(Ids)
          /\ \A x : x \in ToSet(queue') <=> x \in ToSet(queue) \/ x = id
      BY <1>4, <1>7, <2>1, SetPush
    <3> QED BY <1>7, <3>1, SetFacts
  <2>2. CASE queue' = queue /\ (Contains(queue, id) \/ ~ (Live(id) /\ Occupant(id) \in Plain))
    BY <2>2
  <2> QED BY <1>6, <2>1, <2>2
<1>9. /\ \A x : Contains(worklist, x) => Contains(worklist', x)
      /\ Live(id) /\ Occupant(id) \in Computeds => Contains(worklist', Occupant(id))
  <2>1. CASE Live(id) /\ Occupant(id) \in Computeds
    <3> DEFINE c == Occupant(id)
    <3>1. c \in Computeds /\ worklist' = Append(worklist, c)
      BY <1>6, <2>1
    <3> HIDE DEF c
    <3>2. /\ worklist' \in Seq(Computeds)
          /\ \A x : x \in ToSet(worklist') <=> x \in ToSet(worklist) \/ x = c
      BY <1>7, <3>1, SetPush
    <3>3. /\ \A x : Contains(worklist, x) => Contains(worklist', x)
          /\ Contains(worklist', c)
      BY <1>7, <3>2, SetFacts
    <3> QED BY <3>3 DEF c
  <2>2. CASE ~ (Live(id) /\ Occupant(id) \in Computeds)
    BY <1>6, <2>2
  <2> QED BY <2>1, <2>2
<1>10. Turns(stack, stack', {f}, {Top}) /\ \A g \in {f} \cup {Top} : g.op # "body"
  BY <1>2, <1>3 DEF Flow
<1>11. ASSUME NEW e \in Effects, Live(idOf[e])
       PROVE  (Pending(e) => Pending(e)') /\ (Heard(e) => Heard(e)' \/ Pending(e)')
  <2>1. Pending(e) => Pending(e)'
    <3>1. idOf'[e] = idOf[e] /\ dirty \subseteq dirty' /\ (e \in muted => e \in muted' \/ Pending(e)')
      BY <1>5, <1>6
    <3>2. Contains(queue, idOf[e]) => Contains(queue', idOf[e]) \/ Pending(e)'
      BY <1>8
    <3>3. \A l \in {Top} : (l.op = "flush" /\ Contains(l.ids, idOf[e])) \/ (l.op = "clean" /\ l.eff = e)
                             => Pending(e)'
      BY <1>3
    <3> QED BY <1>10, <3>1, <3>2, <3>3, PendingStays
  <2>2. ASSUME Contains(Top.ids, idOf[e]) PROVE Heard(e)' \/ Pending(e)'
    <3>1. idOf[e] = id \/ Contains(f.ids, idOf[e])
      <4>1. idOf[e] \in ToSet(Top.ids)
        BY <1>3, <2>2, SetFacts
      <4>2. idOf[e] = id \/ idOf[e] \in ToSet(f.ids)
        BY <1>1, <1>2, <1>3, <4>1, SetTail
      <4> QED BY <1>4, <4>2, SetFacts
    <3>2. CASE Contains(f.ids, idOf[e])
      BY <1>2, <1>5, <3>2 DEF Heard
    <3>3. CASE idOf[e] = id
      <4>1. Live(id) /\ Occupant(id) = e
        BY <1>11, <3>3, OwnId DEF IInv
      <4>2. CASE e \in Computeds
        BY <1>6, <4>1, <4>2 DEF Pending
      <4>3. CASE e \notin Computeds
        BY <1>5, <1>8, <3>3, <4>1, <4>3 DEF Pending, Plain
      <4> QED BY <4>2, <4>3
    <3> QED BY <3>1, <3>2, <3>3
  <2>3. Heard(e) => Heard(e)' \/ Pending(e)'
    <3>1. \A l \in {Top} : l.op = "dispatch" /\ Contains(l.ids, idOf[e]) => Heard(e)' \/ Pending(e)'
      BY <2>2
    <3> QED BY <1>5, <1>10, <3>1, HeardStays
  <2> QED BY <2>1, <2>3
<1>12. \A c \in dirty' \ dirty : Contains(worklist', c) /\ \A g \in ToSet(stack) : ~ Lazy(g)
  BY <1>6, <1>9, NoLazyInDispatch DEF Shape, Route
<1> QED BY <1>5, <1>9, <1>10, <1>11, <1>12, Quiet

\* The dispatch goes on with the subscribers of a computed it has marked.
LEMMA NextSignalLinks == ASSUME IInv, Shape, Links, NextSignal PROVE Links'
<1>1. PICK f \in Frames : /\ f.op = "dispatch" /\ f.ids = subs[Head(worklist)]
                          /\ Flow({f}, {Top}) /\ f \in ToSet(stack')
  BY NextSignalFlow DEF Shape
<1>2. Top.ids = <<>> /\ Top.op = "dispatch"
  BY DEF NextSignal, At
<1>3. UNCHANGED <<slab, gens, idOf, subs, gone, basis, lag, muted, dirty, queue>>
  BY DEF NextSignal, tables, past, graph, sched
<1>4. worklist \in Seq(Computeds) /\ worklist # <<>> /\ worklist' = Tail(worklist)
  BY DEF NextSignal, IInv, Flags
<1>5. Turns(stack, stack', {f}, {Top}) /\ \A g \in {f} \cup {Top} : g.op # "body"
  BY <1>1, <1>2 DEF Flow
<1>6. \A x : ~ Contains(<<>>, x)
  BY DEF Contains
<1>7. ASSUME NEW e \in Effects, Live(idOf[e])
      PROVE  (Pending(e) => Pending(e)') /\ (Heard(e) => Heard(e)' \/ Pending(e)')
  <2>1. Pending(e) => Pending(e)'
    <3>1. \A l \in {Top} : (l.op = "flush" /\ Contains(l.ids, idOf[e])) \/ (l.op = "clean" /\ l.eff = e)
                             => Pending(e)'
      BY <1>2
    <3> QED BY <1>3, <1>5, <3>1, PendingStays
  <2>2. Heard(e) => Heard(e)' \/ Pending(e)'
    <3>1. \A l \in {Top} : l.op = "dispatch" /\ Contains(l.ids, idOf[e]) => Heard(e)' \/ Pending(e)'
      BY <1>2, <1>6
    <3> QED BY <1>3, <1>5, <3>1, HeardStays
  <2> QED BY <2>1, <2>2
<1>8. ASSUME NEW c \in dirty, Contains(worklist, c)
      PROVE  \/ Contains(worklist', c)
             \/ \A e \in Effects : Contains(subs[c], idOf[e]) => Heard(e)'
  <2>1. c = Head(worklist) \/ Contains(worklist', c)
    BY <1>4, <1>8, SetFacts, SetTail
  <2>2. CASE c = Head(worklist)
    BY <1>1, <1>3, <2>2 DEF Heard
  <2> QED BY <2>1, <2>2
<1> QED BY <1>3, <1>5, <1>7, <1>8, Quiet

-----------------------------------------------------------------------------
(***************************************************************************)
(* Outside a dispatch everything is settled.                               *)
(***************************************************************************)

LEMMA NoDispatch ==
  ASSUME IInv, stack # <<>> => Top.op # "dispatch"
  PROVE  ~ Dispatching
<1> SUFFICES ASSUME NEW f \in ToSet(stack), f.op = "dispatch" PROVE FALSE
  BY DEF Dispatching
<1>1. stack \in Seq(Frames) /\ \A i \in 1..Len(stack) : stack[i].op = "dispatch" => i = Len(stack)
  BY DEF IInv, Calling, StackGood
<1>2. PICK i \in 1..Len(stack) : stack[i] = f
  BY <1>1, SetFacts
<1>3. i = Len(stack) /\ stack # <<>>
  BY <1>1, <1>2
<1> QED BY <1>1, <1>2, <1>3, FrontFacts DEF Top

LEMMA SameId ==
  ASSUME IInv, NEW e \in Effects, NEW f \in Effects, Live(idOf[e]), idOf[e] = idOf[f]
  PROVE  e = f
  BY OwnId DEF IInv

\* A computed that runs is out of date.
LEMMA RunsDirty ==
  ASSUME Framing, NEW c \in Computeds, Runs(c)
  PROVE  c \in dirty
<1>1. PICK f \in ToSet(stack) : f.op = "body" /\ f.eff = c
  BY DEF Runs
<1> QED BY <1>1 DEF Framing, FrameFine, Lazy

LEMMA Settled ==
  ASSUME IInv, Shape, Links, ~ Dispatching
  PROVE  /\ worklist = <<>> /\ \A e \in Effects : ~ Heard(e)
         /\ \A c \in lag \cap Computeds : c \in dirty
         /\ \A c \in dirty, e \in Effects : Live(idOf[e]) /\ Contains(subs[c], idOf[e]) => Pending(e)
         /\ \A e \in Effects : Live(idOf[e]) /\ Told(e) => Pending(e)
<1>0. Born /\ Framing /\ Idle /\ \A c \in Computeds : c \in Effects
  BY ReactiveAssumption DEF Shape
<1>1. worklist = <<>> /\ \A e \in Effects : ~ Heard(e)
  BY <1>0 DEF Idle, Heard, Dispatching
<1>2. \A c \in dirty, e \in Effects : Live(idOf[e]) /\ Contains(subs[c], idOf[e]) => Pending(e)
  <2>1. \A c : ~ Contains(worklist, c)
    BY <1>1 DEF Contains
  <2> QED BY <1>1, <2>1 DEF Links, DirtyTold
<1>3. \A c \in lag \cap Computeds : c \in dirty
  <2> DEFINE D == {c \in lag \cap Computeds : c \notin dirty}
  <2> SUFFICES ASSUME D # {} PROVE FALSE
    OBVIOUS
  <2>1. D \in SUBSET Computeds
    OBVIOUS
  <2>2. PICK c \in D : \A d \in D : ~ Contains(subs[d], idOf[c])
    BY <2>1 DEF Links, NoCircle
  <2>3. c \in Computeds /\ c \in Effects /\ c \in lag /\ c \notin dirty
    BY <1>0, <2>2
  <2>4. Live(idOf[c])
    BY <1>0, <2>3 DEF Born
  <2>5. ~ Runs(c)
    BY <1>0, <2>3, RunsDirty
  <2>6. ~ Pending(c)
    BY <2>3 DEF Pending
  <2>7. ASSUME NEW d \in lag \cap Computeds, Contains(subs[d], idOf[c]) PROVE FALSE
    <3>1. d \in dirty
      BY <2>2, <2>7
    <3> QED BY <1>2, <2>3, <2>4, <2>6, <2>7, <3>1
  <2>8. ~ Told(c)
    BY <1>1, <2>3, <2>6, <2>7 DEF Told
  <2> QED BY <2>3, <2>4, <2>5, <2>8 DEF Links, Watched
<1>4. \A e \in Effects : Live(idOf[e]) /\ Told(e) => Pending(e)
  BY <1>1, <1>2, <1>3 DEF Told
<1> QED BY <1>1, <1>2, <1>3, <1>4

\* What a clean cache holds is what its sources say, and a write to them reaches it.
LEMMA CleanCache ==
  ASSUME IInv, Shape, Links, ~ Dispatching, NEW c \in Computeds, c \notin dirty, idOf[c] # NoId
  PROVE  c \notin lag /\ \A s \in basis[c] : Covered(c, s)
<1>1. c \in Effects /\ Live(idOf[c])
  BY ReactiveAssumption DEF Shape, Born
<1>2. ~ Runs(c) /\ ~ Pending(c)
  BY RunsDirty DEF Shape, Pending
<1>3. ~ Told(c)
  BY <1>1, <1>2, Settled
<1> QED BY <1>1, <1>2, <1>3 DEF Links, Watched

-----------------------------------------------------------------------------
(***************************************************************************)
(* Links is kept by the other steps.                                       *)
(***************************************************************************)

LEMMA WriteLinks == ASSUME IInv, Shape, Links, NEW s \in Signals, Write(s) PROVE Links'
<1>1. PICK d : d = Loop("dispatch", subs[s])
  OBVIOUS
<1>2. /\ d \in ToSet(stack') /\ d.op = "dispatch" /\ d.ids = subs[s]
      /\ \A g \in ToSet(stack') : g = d \/ \E f \in ToSet(stack) : Older(f, g, s)
      /\ \A f \in ToSet(stack) : \E g \in ToSet(stack') : Older(f, g, s)
      /\ \A f \in ToSet(stack) : ~ Lazy(f)
  BY <1>1, WriteFlow DEF Shape
<1>3. /\ UNCHANGED <<slab, gens, idOf, subs, dirty, gone, basis, muted, queue, worklist>>
      /\ lag' = lag \cup {e \in Effects : s \in basis[e]} /\ s \notin gone
  BY DEF Write, tables, graph, sched
<1>4. \A id : Live(id)' <=> Live(id)
  BY <1>3 DEF Live
<1>5. \A e \in Effects : Pending(e) => Pending(e)'
  <2> SUFFICES ASSUME NEW e \in Effects, Pending(e), e \notin Computeds,
                      ~ Contains(queue, idOf[e]), e \notin muted
               PROVE  Pending(e)'
    BY <1>3 DEF Pending
  <2>1. PICK f \in ToSet(stack) : (f.op = "flush" /\ Contains(f.ids, idOf[e])) \/ (f.op = "clean" /\ f.eff = e)
    BY DEF Pending
  <2>2. PICK g \in ToSet(stack') : Older(f, g, s)
    BY <1>2
  <2>3. (g.op = "flush" /\ Contains(g.ids, idOf'[e])) \/ (g.op = "clean" /\ g.eff = e)
    BY <1>3, <2>1, <2>2 DEF Older
  <2> QED BY <2>3 DEF Pending
<1>6. \A e \in Effects : Heard(e) => Heard(e)'
  <2> SUFFICES ASSUME NEW e \in Effects, NEW f \in ToSet(stack), f.op = "dispatch", Contains(f.ids, idOf[e])
               PROVE  Heard(e)'
    BY DEF Heard
  <2>1. PICK g \in ToSet(stack') : Older(f, g, s)
    BY <1>2
  <2>2. g.op = "dispatch" /\ Contains(g.ids, idOf'[e])
    BY <1>3, <2>1 DEF Older
  <2> QED BY <2>2 DEF Heard
<1>7. \A e \in Effects : Told(e) => Told(e)'
  BY <1>3, <1>5, <1>6 DEF Told
<1>8. \A e \in Effects : \A t : Covered(e, t) => Covered(e, t)'
  BY <1>3 DEF Covered
<1>9. \A e \in Effects : Covered(e, s) => Told(e)'
  <2> SUFFICES ASSUME NEW e \in Effects, Covered(e, s) PROVE Told(e)'
    OBVIOUS
  <2>1. CASE Contains(subs[s], idOf[e])
    BY <1>2, <1>3, <2>1 DEF Told, Heard
  <2>2. CASE \E c \in Computeds : Contains(subs[c], idOf[e]) /\ s \in basis[c]
    BY <1>3, <2>2, ReactiveAssumption DEF Told
  <2> QED BY <1>3, <2>1, <2>2 DEF Covered
<1>10. \A g \in ToSet(stack') : g.op = "body" =>
         \E f \in ToSet(stack) : Older(f, g, s) /\ f.op = "body"
  BY <1>2 DEF Older
<1>11. Watched'
  <2> SUFFICES ASSUME NEW e \in Effects, Live(idOf[e])', ~ Runs(e)', ~ Told(e)'
               PROVE  (e \notin lag)' /\ \A t \in basis'[e] : Covered(e, t)'
    BY DEF Watched
  <2>1. Live(idOf[e])
    BY <1>3 DEF Live
  <2>2. ~ Runs(e)
    BY <1>2 DEF Runs, Older
  <2>3. e \notin lag /\ \A t \in basis[e] : Covered(e, t)
    BY <1>7, <2>1, <2>2 DEF Links, Watched
  <2> QED BY <1>3, <1>8, <1>9, <2>3
<1>12. Running'
  <2> SUFFICES ASSUME NEW g \in ToSet(stack'), g.op = "body", Live(g.id)', ~ Told(g.eff)'
               PROVE  ~ g.old /\ \A t \in g.basis : Covered(g.eff, t)'
    BY DEF Running
  <2>1. PICK f \in ToSet(stack) : Older(f, g, s) /\ f.op = "body"
    BY <1>10
  <2>2. f.eff = g.eff /\ f.id = g.id /\ f.basis = g.basis /\ g.old = (f.old \/ s \in f.basis)
    BY <2>1 DEF Older
  <2>3. f.eff \in Effects
    BY <2>1, RunFacts
  <2>4. ~ f.old /\ \A t \in f.basis : Covered(f.eff, t)
    BY <1>4, <1>7, <2>1, <2>2, <2>3 DEF Links, Running
  <2> QED BY <1>8, <1>9, <2>2, <2>3, <2>4
<1>13. Deriving'
  <2> SUFFICES ASSUME NEW g \in ToSet(stack'), g.op = "body", g.eff \in Computeds PROVE FALSE
    BY DEF Deriving
  <2>1. PICK f \in ToSet(stack) : Older(f, g, s) /\ f.op = "body"
    BY <1>10
  <2> QED BY <1>2, <2>1 DEF Older, Lazy
<1>14. DirtyTold'
  <2> SUFFICES ASSUME NEW c \in dirty', NEW e \in Effects, Live(idOf[e])', Contains(subs'[c], idOf'[e])
               PROVE  Pending(e)' \/ Heard(e)' \/ Contains(worklist', c)
    BY DEF DirtyTold
  <2>1. Live(idOf[e]) /\ Contains(subs[c], idOf[e]) /\ c \in dirty
    BY <1>3 DEF Live
  <2>2. Pending(e) \/ Heard(e) \/ Contains(worklist, c)
    BY <2>1 DEF Links, DirtyTold
  <2> QED BY <1>3, <1>5, <1>6, <2>2
<1>15. NoCircle'
  BY <1>3 DEF Links, NoCircle
<1> QED BY <1>11, <1>12, <1>13, <1>14, <1>15 DEF Links

\* An unmount forgets the subscribers of its fields, and no write reaches these any more.
LEMMA ClearScopeLinks == ASSUME IInv, Shape, Links, NEW s \in Signals, ClearScope(s) PROVE Links'
<1>1. Turns(stack, stack', {}, {})
  BY NoteFlow DEF Shape, Flow
<1>2. /\ UNCHANGED <<slab, gens, idOf, dirty, basis, lag, muted, queue, worklist>>
      /\ gone' = gone \cup {s} /\ subs' = [subs EXCEPT ![s] = <<>>]
  BY DEF ClearScope, tables, sched, past
<1>3. \A x \in Sources : x # s => subs'[x] = subs[x]
  BY <1>2 DEF IInv, Graph
<1>4. \A c \in Computeds : c \in Sources /\ subs'[c] = subs[c]
  BY <1>3, ReactiveAssumption DEF Sources
<1>5. \A id : Live(id)' <=> Live(id)
  BY <1>2 DEF Live
<1>6. \A e \in Effects : (Pending(e) => Pending(e)') /\ (Heard(e) => Heard(e)' \/ Pending(e)')
  BY <1>1, <1>2, PendingStays, HeardStays
<1>7. \A e \in Effects : Told(e) => Told(e)'
  BY <1>2, <1>4, <1>6 DEF Told
<1>8. \A e, t : t \in Signals /\ Covered(e, t) => Covered(e, t)'
  <2> SUFFICES ASSUME NEW e, NEW t \in Signals, Covered(e, t) PROVE Covered(e, t)'
    OBVIOUS
  <2>1. t # s => subs'[t] = subs[t]
    BY <1>3 DEF Sources
  <2> QED BY <1>2, <1>4, <2>1 DEF Covered
<1>9. /\ \A g \in ToSet(stack') : g.op = "body" => \E f \in ToSet(stack) : Alike(f, g)
      /\ \A f \in ToSet(stack) : f.op = "body" => \E g \in ToSet(stack') : Alike(f, g)
  BY <1>1, BodiesStay
<1>10. Watched'
  <2> SUFFICES ASSUME NEW e \in Effects, Live(idOf[e])', ~ Runs(e)', ~ Told(e)'
               PROVE  (e \notin lag)' /\ \A t \in basis'[e] : Covered(e, t)'
    BY DEF Watched
  <2>1. Live(idOf[e])
    BY <1>2 DEF Live
  <2>2. ~ Runs(e)
    BY <1>9 DEF Runs, Alike
  <2>3. e \notin lag /\ \A t \in basis[e] : Covered(e, t)
    BY <1>7, <2>1, <2>2 DEF Links, Watched
  <2>4. basis[e] \subseteq Signals
    BY DEF IInv, Flags
  <2> QED BY <1>2, <1>8, <2>3, <2>4
<1>11. \A g \in ToSet(stack') : g.op = "body" => \E f \in ToSet(stack) :
         /\ f.op = "body" /\ f.eff = g.eff /\ f.id = g.id /\ f.basis = g.basis /\ f.old = g.old
         /\ f.basis \subseteq Signals
  <2> SUFFICES ASSUME NEW g \in ToSet(stack'), g.op = "body"
               PROVE  \E f \in ToSet(stack) :
                        /\ f.op = "body" /\ f.eff = g.eff /\ f.id = g.id /\ f.basis = g.basis /\ f.old = g.old
                        /\ f.basis \subseteq Signals
    OBVIOUS
  <2>1. PICK f \in ToSet(stack) : Alike(f, g)
    BY <1>9
  <2>2. f.op = "body"
    BY <2>1 DEF Alike
  <2>3. f.basis \subseteq Signals
    BY <2>2, RunFacts DEF CodeFrames
  <2> QED BY <2>1, <2>2, <2>3 DEF Alike
<1>12. Running'
  <2> SUFFICES ASSUME NEW g \in ToSet(stack'), g.op = "body", Live(g.id)', ~ Told(g.eff)'
               PROVE  ~ g.old /\ \A t \in g.basis : Covered(g.eff, t)'
    BY DEF Running
  <2>1. PICK f \in ToSet(stack) : /\ f.op = "body" /\ f.eff = g.eff /\ f.id = g.id /\ f.basis = g.basis
                                  /\ f.old = g.old /\ f.basis \subseteq Signals
    BY <1>11
  <2>2. f.eff \in Effects
    BY <2>1, RunFacts
  <2>3. ~ f.old /\ \A t \in f.basis : Covered(f.eff, t)
    BY <1>5, <1>7, <2>1, <2>2 DEF Links, Running
  <2> QED BY <1>8, <2>1, <2>3
<1>13. Deriving'
  <2> SUFFICES ASSUME NEW g \in ToSet(stack'), g.op = "body", g.eff \in Computeds
               PROVE  /\ ~ g.old /\ \A t \in g.basis : Covered(g.eff, t)'
                      /\ \A d \in dirty' : ~ Contains(subs'[d], idOf'[g.eff])
    BY DEF Deriving
  <2>1. PICK f \in ToSet(stack) : /\ f.op = "body" /\ f.eff = g.eff /\ f.id = g.id /\ f.basis = g.basis
                                  /\ f.old = g.old /\ f.basis \subseteq Signals
    BY <1>11
  <2>2. /\ ~ f.old /\ \A t \in f.basis : Covered(f.eff, t)
        /\ \A d \in dirty : ~ Contains(subs[d], idOf[f.eff])
    BY <2>1 DEF Links, Deriving
  <2>3. dirty \subseteq Computeds
    BY DEF IInv, Flags
  <2>4. \A d \in dirty' : ~ Contains(subs'[d], idOf'[g.eff])
    BY <1>2, <1>4, <2>1, <2>2, <2>3
  <2> QED BY <1>8, <2>1, <2>2, <2>4
<1>14. DirtyTold'
  <2> SUFFICES ASSUME NEW c \in dirty', NEW e \in Effects, Live(idOf[e])', Contains(subs'[c], idOf'[e])
               PROVE  Pending(e)' \/ Heard(e)' \/ Contains(worklist', c)
    BY DEF DirtyTold
  <2>1. c \in dirty /\ c \in Computeds
    BY <1>2 DEF IInv, Flags
  <2>2. Live(idOf[e]) /\ Contains(subs[c], idOf[e])
    BY <1>2, <1>4, <2>1 DEF Live
  <2>3. Pending(e) \/ Heard(e) \/ Contains(worklist, c)
    BY <2>1, <2>2 DEF Links, DirtyTold
  <2> QED BY <1>2, <1>6, <2>3
<1>15. NoCircle'
  <2>1. \A D \in SUBSET Computeds : \A c, d \in D : Contains(subs'[d], idOf'[c]) => Contains(subs[d], idOf[c])
    BY <1>2, <1>4
  <2> QED BY <2>1 DEF Links, NoCircle
<1> QED BY <1>10, <1>12, <1>13, <1>14, <1>15 DEF Links

\* A body that goes on.
LEMMA BodyFrom ==
  ASSUME IInv, NEW f \in ToSet(stack), NEW g, Alike(f, g), g.op = "body"
  PROVE  /\ f.op = "body" /\ g.eff = f.eff /\ g.id = f.id /\ g.basis = f.basis /\ g.old = f.old
         /\ f.eff \in Effects /\ f.id = idOf[f.eff] /\ f.id # NoId /\ f.basis \subseteq Signals
<1>1. f.op = "body" /\ g.eff = f.eff /\ g.id = f.id /\ g.basis = f.basis /\ g.old = f.old
  BY DEF Alike
<1>2. f.eff \in Effects /\ f.id = idOf[f.eff] /\ f.id # NoId /\ f \in CodeFrames
  BY <1>1, RunFacts
<1> QED BY <1>1, <1>2 DEF CodeFrames

LEMMA CreateLinks == ASSUME IInv, Shape, Links, NEW e \in Effects, Create(e) PROVE Links'
<1>0. /\ Born /\ \A c \in Computeds : c \in Effects /\ c \in Sources
      /\ idOf \in [Effects -> Ids \cup {NoId}]
  BY ReactiveAssumption DEF Shape, IInv, Tables, Sources
<1>1. PICK id : id = idOf'[e]
  OBVIOUS
<1>2. /\ UNCHANGED <<subs, gone, basis, lag, muted, queue, worklist>>
      /\ dirty' = IF e \in Computeds THEN dirty \cup {e} ELSE dirty
      /\ idOf[e] = NoId
      /\ \A x \in Effects : x # e => idOf'[x] = idOf[x]
  BY <1>0 DEF Create, sched, past
<1>3. id \in Ids /\ id # NoId
  <2>1. PICK s \in Slots : idOf' = [idOf EXCEPT ![e] = [slot |-> s, gen |-> gens[s]]]
    BY DEF Create
  <2>2. id = [slot |-> s, gen |-> gens[s]] /\ [slot |-> s, gen |-> gens[s]] \in Ids
    BY <1>0, <1>1, <2>1 DEF Ids, IInv, Tables
  <2> QED BY <2>2, IdIsId
<1>4. \A x \in Effects : x # e /\ Live(idOf[x])' => Live(idOf[x])
  <2> SUFFICES ASSUME NEW x \in Effects, x # e, Live(idOf[x])' PROVE Live(idOf[x])
    OBVIOUS
  <2>1. idOf'[x] = idOf[x] /\ idOf[x] # NoId
    BY <1>2 DEF Live
  <2>2. PICK y \in Ids : y = idOf[x]
    BY <1>0, <2>1
  <2>3. Live(y)'
    BY <2>1, <2>2 DEF Live
  <2> QED BY <2>2, <2>3, CreatedFacts DEF IInv
<1>5. PICK f : f = Code("clean", e, id)
  OBVIOUS
<1>6. /\ f.op = "clean" /\ f.eff = e
      /\ Turns(stack, stack', {}, {}) \/ Turns(stack, stack', {f}, {})
      /\ e \notin Computeds => f \in ToSet(stack')
  BY <1>1, <1>5, CreateFlow DEF Shape, Flow, Code, Plain
<1>7. PICK N : Turns(stack, stack', N, {}) /\ \A n \in N : n.op # "body"
  BY <1>6
<1>8. Pending(e)'
  BY <1>2, <1>6 DEF Pending
<1>9. \A x \in Effects : x # e => (Pending(x) => Pending(x)') /\ (Heard(x) => Heard(x)' \/ Pending(x)')
  <2> SUFFICES ASSUME NEW x \in Effects, x # e
               PROVE  (Pending(x) => Pending(x)') /\ (Heard(x) => Heard(x)' \/ Pending(x)')
    OBVIOUS
  <2>1. idOf'[x] = idOf[x] /\ dirty \subseteq dirty'
    BY <1>2
  <2> QED BY <1>2, <1>7, <2>1, PendingStays, HeardStays
<1>10. \A x \in Effects : x # e /\ Told(x) => Told(x)'
  BY <1>2, <1>9 DEF Told
<1>11. \A x \in Effects : \A s : x # e /\ Covered(x, s) => Covered(x, s)'
  BY <1>2 DEF Covered
<1>12. /\ \A g \in ToSet(stack') : g.op = "body" => \E h \in ToSet(stack) : Alike(h, g)
       /\ \A h \in ToSet(stack) : h.op = "body" => \E g \in ToSet(stack') : Alike(h, g)
  <2>1. \A h \in N \cup {} : h.op # "body"
    BY <1>7
  <2> QED BY <1>7, <2>1, BodiesStay
<1>13. Watched'
  <2> SUFFICES ASSUME NEW x \in Effects, Live(idOf[x])', ~ Runs(x)', ~ Told(x)'
               PROVE  (x \notin lag)' /\ \A s \in basis'[x] : Covered(x, s)'
    BY DEF Watched
  <2>1. x # e
    BY <1>8 DEF Told
  <2>2. Live(idOf[x]) /\ ~ Told(x)
    BY <1>4, <1>10, <2>1
  <2>3. ~ Runs(x)
    BY <1>12 DEF Runs, Alike
  <2>4. x \notin lag /\ \A s \in basis[x] : Covered(x, s)
    BY <2>2, <2>3 DEF Links, Watched
  <2> QED BY <1>2, <1>11, <2>1, <2>4
<1>14. ASSUME NEW g \in ToSet(stack'), g.op = "body"
       PROVE  \E h \in ToSet(stack) :
                /\ h.op = "body" /\ g.eff = h.eff /\ g.id = h.id /\ g.basis = h.basis /\ g.old = h.old
                /\ h.eff \in Effects /\ h.id = idOf[h.eff] /\ h.eff # e
  <2>1. PICK h \in ToSet(stack) : Alike(h, g)
    BY <1>12, <1>14
  <2>2. /\ h.op = "body" /\ g.eff = h.eff /\ g.id = h.id /\ g.basis = h.basis /\ g.old = h.old
        /\ h.eff \in Effects /\ h.id = idOf[h.eff] /\ h.id # NoId
    BY <1>14, <2>1, BodyFrom
  <2>3. h.eff # e
    BY <1>2, <2>2
  <2> QED BY <2>2, <2>3
<1>15. Running'
  <2> SUFFICES ASSUME NEW g \in ToSet(stack'), g.op = "body", Live(g.id)', ~ Told(g.eff)'
               PROVE  ~ g.old /\ \A s \in g.basis : Covered(g.eff, s)'
    BY DEF Running
  <2>1. PICK h \in ToSet(stack) :
          /\ h.op = "body" /\ g.eff = h.eff /\ g.id = h.id /\ g.basis = h.basis /\ g.old = h.old
          /\ h.eff \in Effects /\ h.id = idOf[h.eff] /\ h.eff # e
    BY <1>14
  <2>2. idOf'[h.eff] = idOf[h.eff]
    BY <1>2, <2>1
  <2>3. Live(idOf[h.eff])'
    BY <2>1, <2>2 DEF Live
  <2>4. Live(h.id) /\ ~ Told(h.eff)
    BY <1>4, <1>10, <2>1, <2>3
  <2>5. ~ h.old /\ \A s \in h.basis : Covered(h.eff, s)
    BY <2>1, <2>4 DEF Links, Running
  <2> QED BY <1>11, <2>1, <2>5
<1>16. Deriving'
  <2> SUFFICES ASSUME NEW g \in ToSet(stack'), g.op = "body", g.eff \in Computeds
               PROVE  /\ ~ g.old /\ \A s \in g.basis : Covered(g.eff, s)'
                      /\ \A d \in dirty' : ~ Contains(subs'[d], idOf'[g.eff])
    BY DEF Deriving
  <2>1. PICK h \in ToSet(stack) :
          /\ h.op = "body" /\ g.eff = h.eff /\ g.id = h.id /\ g.basis = h.basis /\ g.old = h.old
          /\ h.eff \in Effects /\ h.id = idOf[h.eff] /\ h.eff # e
    BY <1>14
  <2>2. /\ ~ h.old /\ \A s \in h.basis : Covered(h.eff, s)
        /\ \A d \in dirty : ~ Contains(subs[d], idOf[h.eff])
    BY <2>1 DEF Links, Deriving
  <2>3. e \in Computeds => \A y : ~ Contains(subs[e], y)
    BY <1>0, <1>2 DEF Born, Contains
  <2>4. \A d \in dirty' : ~ Contains(subs'[d], idOf'[g.eff])
    BY <1>2, <2>1, <2>2, <2>3
  <2> QED BY <1>11, <2>1, <2>2, <2>4
<1>17. DirtyTold'
  <2> SUFFICES ASSUME NEW c \in dirty', NEW x \in Effects, Live(idOf[x])', Contains(subs'[c], idOf'[x]), x # e
               PROVE  Pending(x)' \/ Heard(x)' \/ Contains(worklist', c)
    BY <1>8 DEF DirtyTold
  <2>1. Live(idOf[x]) /\ Contains(subs[c], idOf[x])
    BY <1>2, <1>4
  <2>2. c # e
    <3>1. c \in Computeds
      BY <1>2 DEF IInv, Flags
    <3> QED BY <1>0, <1>2, <2>1, <3>1 DEF Born, Contains
  <2>3. c \in dirty
    BY <1>2, <2>2
  <2>4. Pending(x) \/ Heard(x) \/ Contains(worklist, c)
    BY <2>1, <2>3 DEF Links, DirtyTold
  <2> QED BY <1>2, <1>9, <2>4
<1>18. NoCircle'
  <2> SUFFICES ASSUME NEW D \in SUBSET Computeds, D # {}
               PROVE  \E c \in D : \A d \in D : ~ Contains(subs'[d], idOf'[c])
    BY DEF NoCircle
  <2>1. \A y : e \in Computeds => ~ Contains(subs'[e], y)
    BY <1>0, <1>2 DEF Born, Contains
  <2>2. CASE D = {e}
    BY <2>1, <2>2
  <2>3. CASE D # {e}
    <3> DEFINE D0 == D \ {e}
    <3>1. D0 \in SUBSET Computeds /\ D0 # {}
      BY <2>3
    <3>2. PICK c \in D0 : \A d \in D0 : ~ Contains(subs[d], idOf[c])
      BY <3>1 DEF Links, NoCircle
    <3>3. c \in D /\ c # e /\ idOf'[c] = idOf[c]
      BY <1>0, <1>2, <3>2
    <3> QED BY <1>2, <2>1, <3>2, <3>3
  <2> QED BY <2>2, <2>3
<1> QED BY <1>13, <1>15, <1>16, <1>17, <1>18 DEF Links

\* clear_deps_for takes the id out of every subscriber set, and no other.
LEMMA ClearedSubs ==
  ASSUME IInv, NEW id \in Ids, ClearDeps(id)
  PROVE  \A x \in Sources : \A y : Contains(subs'[x], y) <=> Contains(subs[x], y) /\ ~ (Live(id) /\ y = id)
<1> SUFFICES ASSUME NEW x \in Sources, NEW y
             PROVE  Contains(subs'[x], y) <=> Contains(subs[x], y) /\ ~ (Live(id) /\ y = id)
  OBVIOUS
<1>1. subs[x] \in Seq(Ids) /\ Once(subs[x])
  BY DEF IInv, Graph, SubsKnown
<1>2. subs'[x] = IF Live(id) /\ x \in deps[Occupant(id)] THEN RemoveFirst(subs[x], id) ELSE subs[x]
  BY DEF ClearDeps, Unsubscribed
<1>3. CASE Live(id) /\ x \in deps[Occupant(id)]
  BY <1>1, <1>2, <1>3, SetRemove
<1>4. CASE Live(id) /\ x \notin deps[Occupant(id)]
  <2>1. ~ Contains(subs[x], id)
    BY <1>1, <1>4 DEF IInv, Graph, EdgesAgree, Contains
  <2> QED BY <1>2, <1>4, <2>1
<1>5. CASE ~ Live(id)
  BY <1>2, <1>5
<1> QED BY <1>3, <1>4, <1>5

LEMMA RetireLinks ==
  ASSUME IInv, Shape, Links, NEW id \in Ids, Ours(id), Live(id), Retire(id),
         UNCHANGED <<idOf, dirty, gone, worklist>>,
         NEW L, Turns(stack, stack', {}, L), \A l \in L : l.op = "release"
  PROVE  Links'
<1>1. PICK e : e = Occupant(id)
  OBVIOUS
<1>2. e \in Plain /\ e \in Effects /\ idOf[e] = id
  BY <1>1, OursPlain, LiveFacts DEF Shape, IInv
<1>3. /\ lag' = lag \ {e} /\ muted' = muted \ {e} /\ basis' = [basis EXCEPT ![e] = {}]
      /\ queue' = RemoveFirst(queue, id)
  BY <1>1 DEF Retire
<1>4. \A x \in Effects : x # e => basis'[x] = basis[x]
  BY <1>3 DEF IInv, Flags
<1>5. \A c \in Computeds : c \in Effects /\ c \in Sources /\ c # e /\ basis'[c] = basis[c]
  BY <1>2, <1>4, ReactiveAssumption DEF Sources, Plain
<1>6. \A x \in Sources : \A y : Contains(subs'[x], y) <=> Contains(subs[x], y) /\ y # id
  BY ClearedSubs DEF Retire
<1>7. \A x \in Effects : Live(idOf[x])' => Live(idOf[x]) /\ idOf[x] # id /\ x # e
  <2> SUFFICES ASSUME NEW x \in Effects, Live(idOf[x])' PROVE Live(idOf[x]) /\ idOf[x] # id /\ x # e
    OBVIOUS
  <2>1. idOf[x] # NoId /\ idOf[x] \in Ids
    BY DEF Live, IInv, Tables
  <2>2. PICK y \in Ids : y = idOf[x]
    BY <2>1
  <2>3. Live(y)'
    BY <2>2 DEF Live
  <2>4. Live(y) /\ y # id
    BY <2>3, EvictedFacts DEF Retire, IInv
  <2> QED BY <1>2, <2>2, <2>4
<1>8. ASSUME NEW x \in Effects, x # e, idOf[x] # id
      PROVE  (Pending(x) => Pending(x)') /\ (Heard(x) => Heard(x)' \/ Pending(x)')
  <2>1. queue \in Seq(Ids) /\ Once(queue)
    BY DEF IInv, Queue, QueueGood
  <2>2. Contains(queue, idOf[x]) => Contains(queue', idOf[x])
    BY <1>3, <1>8, <2>1, SetRemove
  <2>3. x \in muted => x \in muted'
    BY <1>3, <1>8
  <2>4. \A l \in L : l.op # "flush" /\ l.op # "clean" /\ l.op # "dispatch"
    OBVIOUS
  <2> QED BY <2>2, <2>3, <2>4, PendingStays, HeardStays
<1>9. \A x \in Effects : Live(idOf[x])' /\ Told(x) => Told(x)'
  <2> SUFFICES ASSUME NEW x \in Effects, Live(idOf[x])', Told(x) PROVE Told(x)'
    OBVIOUS
  <2>1. x # e /\ idOf[x] # id
    BY <1>7
  <2>2. CASE Pending(x) \/ Heard(x)
    BY <1>8, <2>1, <2>2 DEF Told
  <2>3. ASSUME NEW c \in lag \cap Computeds, Contains(subs[c], idOf[x]) PROVE Told(x)'
    <3>1. c \in lag' \cap Computeds /\ Contains(subs'[c], idOf'[x])
      BY <1>3, <1>5, <1>6, <2>1, <2>3
    <3> QED BY <3>1 DEF Told
  <2> QED BY <2>2, <2>3 DEF Told
<1>10. \A x \in Effects : \A s \in Signals : idOf[x] # id /\ Covered(x, s) => Covered(x, s)'
  <2> SUFFICES ASSUME NEW x \in Effects, NEW s \in Signals, idOf[x] # id, Covered(x, s)
               PROVE  Covered(x, s)'
    OBVIOUS
  <2>1. Contains(subs[s], idOf[x]) => Contains(subs'[s], idOf'[x])
    BY <1>6 DEF Sources
  <2>2. ASSUME NEW c \in Computeds, Contains(subs[c], idOf[x]), s \in basis[c] PROVE Covered(x, s)'
    <3>1. Contains(subs'[c], idOf'[x]) /\ s \in basis'[c]
      BY <1>5, <1>6, <2>2
    <3> QED BY <3>1 DEF Covered
  <2> QED BY <2>1, <2>2 DEF Covered
<1>11. /\ \A g \in ToSet(stack') : g.op = "body" => \E f \in ToSet(stack) : Alike(f, g)
       /\ \A f \in ToSet(stack) : f.op = "body" => \E g \in ToSet(stack') : Alike(f, g)
  <2>1. \A f \in {} \cup L : f.op # "body"
    OBVIOUS
  <2> QED BY <2>1, BodiesStay
<1>12. Watched'
  <2> SUFFICES ASSUME NEW x \in Effects, Live(idOf[x])', ~ Runs(x)', ~ Told(x)'
               PROVE  (x \notin lag)' /\ \A s \in basis'[x] : Covered(x, s)'
    BY DEF Watched
  <2>1. Live(idOf[x]) /\ idOf[x] # id /\ x # e
    BY <1>7
  <2>2. ~ Told(x)
    BY <1>9
  <2>3. ~ Runs(x)
    BY <1>11 DEF Runs, Alike
  <2>4. x \notin lag /\ \A s \in basis[x] : Covered(x, s)
    BY <2>1, <2>2, <2>3 DEF Links, Watched
  <2>5. basis[x] \subseteq Signals
    BY DEF IInv, Flags
  <2> QED BY <1>3, <1>4, <1>10, <2>1, <2>4, <2>5
<1>13. Running'
  <2> SUFFICES ASSUME NEW g \in ToSet(stack'), g.op = "body", Live(g.id)', ~ Told(g.eff)'
               PROVE  ~ g.old /\ \A s \in g.basis : Covered(g.eff, s)'
    BY DEF Running
  <2>1. PICK f \in ToSet(stack) : Alike(f, g)
    BY <1>11
  <2>2. /\ f.op = "body" /\ g.eff = f.eff /\ g.id = f.id /\ g.basis = f.basis /\ g.old = f.old
        /\ f.eff \in Effects /\ f.id = idOf[f.eff] /\ f.basis \subseteq Signals
    BY <2>1, BodyFrom
  <2>3. Live(idOf[f.eff])'
    BY <2>2 DEF Live
  <2>4. Live(f.id) /\ f.id # id /\ ~ Told(f.eff)
    BY <1>7, <1>9, <2>2, <2>3
  <2>5. ~ f.old /\ \A s \in f.basis : Covered(f.eff, s)
    BY <2>2, <2>4 DEF Links, Running
  <2> QED BY <1>10, <2>2, <2>4, <2>5
<1>14. Deriving'
  <2> SUFFICES ASSUME NEW g \in ToSet(stack'), g.op = "body", g.eff \in Computeds
               PROVE  /\ ~ g.old /\ \A s \in g.basis : Covered(g.eff, s)'
                      /\ \A d \in dirty' : ~ Contains(subs'[d], idOf'[g.eff])
    BY DEF Deriving
  <2>1. PICK f \in ToSet(stack) : Alike(f, g)
    BY <1>11
  <2>2. /\ f.op = "body" /\ g.eff = f.eff /\ g.id = f.id /\ g.basis = f.basis /\ g.old = f.old
        /\ f.eff \in Effects /\ f.id = idOf[f.eff] /\ f.id # NoId /\ f.basis \subseteq Signals
    BY <2>1, BodyFrom
  <2>3. /\ ~ f.old /\ \A s \in f.basis : Covered(f.eff, s)
        /\ \A d \in dirty : ~ Contains(subs[d], idOf[f.eff])
    BY <2>2 DEF Links, Deriving
  <2>4. idOf[f.eff] # id
    <3>1. Live(idOf[f.eff])
      BY <2>2 DEF Shape, Born
    <3> QED BY <1>2, <1>5, <2>2, <3>1, SameId
  <2>5. dirty \subseteq Computeds
    BY DEF IInv, Flags
  <2>6. \A d \in dirty' : ~ Contains(subs'[d], idOf'[g.eff])
    BY <1>5, <1>6, <2>2, <2>3, <2>5
  <2> QED BY <1>10, <2>2, <2>3, <2>4, <2>6
<1>15. DirtyTold'
  <2> SUFFICES ASSUME NEW c \in dirty', NEW x \in Effects, Live(idOf[x])', Contains(subs'[c], idOf'[x])
               PROVE  Pending(x)' \/ Heard(x)' \/ Contains(worklist', c)
    BY DEF DirtyTold
  <2>1. c \in dirty /\ c \in Computeds
    BY DEF IInv, Flags
  <2>2. Live(idOf[x]) /\ idOf[x] # id /\ x # e /\ Contains(subs[c], idOf[x])
    BY <1>5, <1>6, <1>7, <2>1
  <2>3. Pending(x) \/ Heard(x) \/ Contains(worklist, c)
    BY <2>1, <2>2 DEF Links, DirtyTold
  <2> QED BY <1>8, <2>2, <2>3
<1>16. NoCircle'
  <2>1. \A D \in SUBSET Computeds : \A c, d \in D : Contains(subs'[d], idOf'[c]) => Contains(subs[d], idOf[c])
    BY <1>5, <1>6
  <2> QED BY <2>1 DEF Links, NoCircle
<1> QED BY <1>12, <1>13, <1>14, <1>15, <1>16 DEF Links

\* A release that only comes to call the cleanup is a quiet step, and so is one that
\* finds its effect gone.
LEMMA ReleaseLinks ==
  ASSUME IInv, Shape, Links, FinishRelease \/ \E e \in Effects : Free(e)
  PROVE  Links'
<1>0. Nested(stack) /\ Framing
  BY DEF Shape
<1>1. ASSUME NEW id \in Ids, Ours(id), Retire(id), UNCHANGED <<idOf, dirty, gone, worklist>>,
             NEW L, Turns(stack, stack', {}, L), \A l \in L : l.op = "release"
      PROVE  Links'
  <2>1. CASE Live(id)
    BY <1>1, <2>1, RetireLinks
  <2>2. CASE ~ Live(id)
    <3>1. UNCHANGED <<slab, gens, basis, lag, muted, queue>>
      BY <1>1, <2>2 DEF Retire, Evicted, past
    <3>2. subs' = subs
      <4>1. subs' = Unsubscribed(id) /\ DOMAIN subs = Sources
        BY <1>1 DEF Retire, ClearDeps, IInv, Graph
      <4>2. Unsubscribed(id) = [x \in Sources |-> subs[x]]
        BY <2>2 DEF Unsubscribed
      <4>3. subs = [x \in Sources |-> subs[x]]
        BY <4>1 DEF IInv, Graph
      <4> QED BY <4>1, <4>2, <4>3
    <3>3. \A l \in {} \cup L : l.op # "body" /\ l.op # "flush" /\ l.op # "clean" /\ l.op # "dispatch"
      BY <1>1
    <3> QED BY <1>1, <3>1, <3>2, <3>3, QuietFlow
  <2> QED BY <2>1, <2>2
<1>2. CASE FinishRelease
  <2>1. Top.id \in Ids /\ Ours(Top.id) /\ Retire(Top.id)
    BY <1>0, <1>2, ReleaseSteps
  <2>2. PICK id \in Ids : id = Top.id
    BY <2>1
  <2>3. UNCHANGED <<idOf, dirty, gone, worklist>>
    BY <1>2 DEF FinishRelease
  <2>4. Turns(stack, stack', {}, {Top}) /\ \A l \in {Top} : l.op = "release"
    BY <1>0, <1>2, EndFlow DEF Flow, FinishRelease, At
  <2> QED BY <1>1, <2>1, <2>2, <2>3, <2>4
<1>3. ASSUME NEW e \in Effects, Free(e) PROVE Links'
  <2>1. CASE Live(idOf[e]) /\ Occupant(idOf[e]) \in open
    BY <1>3, <2>1, QuietLinks DEF QuietStep
  <2>2. CASE ~ (Live(idOf[e]) /\ Occupant(idOf[e]) \in open)
    <3>1. idOf[e] \in Ids /\ Ours(idOf[e])
      BY <1>0, <1>3, ReleaseSteps
    <3>2. PICK id \in Ids : id = idOf[e]
      BY <3>1
    <3>3. Retire(idOf[e]) /\ UNCHANGED <<idOf, dirty, gone, worklist>>
      BY <1>3, <2>2 DEF Free
    <3>4. Turns(stack, stack', {}, {})
      BY <1>0, <1>3, <2>2, FreeFlow DEF Flow
    <3> QED BY <1>1, <3>1, <3>2, <3>3, <3>4
  <2> QED BY <2>1, <2>2
<1> QED BY <1>2, <1>3

\* A run begins: its effect has no sources until it reads, and is not left out, as what
\* is running is not yet due.  Plain code that is inside a run of the same effect has
\* muted it.
LEMMA StartLinks == ASSUME IInv, Shape, Links, NoReentry, StartBody PROVE Links'
<1>1. PICK e : e = Top.eff
  OBVIOUS
<1>2. PICK id : id = Top.id
  OBVIOUS
<1>3. Top.op = "clean" /\ stack # <<>> /\ Top \in ToSet(stack)
  BY Frames1, SetPop DEF StartBody, At, Top
<1>4. e \in Effects /\ id = idOf[e] /\ id \in Ids /\ Top.basis = {} /\ ~ Top.old
  BY <1>1, <1>2, <1>3, RunFacts DEF Shape, Framing, FrameFine
<1>5. PICK f \in Frames :
        /\ Flow({f}, {Top}) /\ f \in ToSet(stack')
        /\ f.op = "body" /\ f.eff = e /\ f.id = id /\ f.basis = {} /\ ~ f.old
  <2>1. Nested(stack)
    BY DEF Shape
  <2> QED BY <1>1, <1>2, <1>4, <2>1, StartFlow
<1>6. /\ UNCHANGED <<slab, gens, idOf, dirty, gone, basis, lag, queue, worklist>>
      /\ \A x \in Effects : x # e /\ x \in muted => x \in muted'
  BY <1>1 DEF StartBody, tables, sched
<1>7. \A x \in Sources : \A y : Contains(subs'[x], y) <=> Contains(subs[x], y) /\ ~ (Live(id) /\ y = id)
  BY <1>2, <1>4, ClearedSubs DEF StartBody
<1>8. \A i : Live(i)' <=> Live(i)
  BY <1>6 DEF Live
<1>9. \A c \in Computeds : c \in Effects /\ c \in Sources /\ (idOf[c] # NoId => Live(idOf[c]))
  BY ReactiveAssumption DEF Sources, Shape, Born
<1>10. Turns(stack, stack', {f}, {Top})
  BY <1>5 DEF Flow
<1>11. ASSUME NEW x \in Effects, x # e
       PROVE  (Pending(x) => Pending(x)') /\ (Heard(x) => Heard(x)' \/ Pending(x)')
  <2>1. \A l \in {Top} : /\ l.op = "clean" => l.eff # x
                         /\ l.op # "flush" /\ l.op # "dispatch"
    BY <1>1, <1>3, <1>11
  <2> QED BY <1>6, <1>10, <1>11, <2>1, PendingStays, HeardStays
<1>12. \A x \in Effects : x # e /\ Live(idOf[x]) => idOf[x] # id
  BY <1>4, SameId
<1>13. ASSUME NEW x \in Effects, x # e, Live(idOf[x]), Told(x) PROVE Told(x)'
  <2>1. CASE Pending(x) \/ Heard(x)
    BY <1>11, <1>13, <2>1 DEF Told
  <2>2. ASSUME NEW c \in lag \cap Computeds, Contains(subs[c], idOf[x]) PROVE Told(x)'
    <3>1. Contains(subs'[c], idOf'[x]) /\ c \in lag' \cap Computeds
      BY <1>6, <1>7, <1>9, <1>12, <1>13, <2>2
    <3> QED BY <3>1 DEF Told
  <2> QED BY <1>13, <2>1, <2>2 DEF Told
<1>14. ASSUME NEW x \in Effects, x # e, Live(idOf[x]), NEW s \in Signals, Covered(x, s) PROVE Covered(x, s)'
  <2>1. Contains(subs[s], idOf[x]) => Contains(subs'[s], idOf'[x])
    BY <1>6, <1>7, <1>12, <1>14 DEF Sources
  <2>2. ASSUME NEW c \in Computeds, Contains(subs[c], idOf[x]), s \in basis[c] PROVE Covered(x, s)'
    <3>1. Contains(subs'[c], idOf'[x]) /\ s \in basis'[c]
      BY <1>6, <1>7, <1>9, <1>12, <1>14, <2>2
    <3> QED BY <3>1 DEF Covered
  <2> QED BY <1>6, <1>14, <2>1, <2>2 DEF Covered
<1>15. ASSUME NEW h \in ToSet(stack), h.op = "body" PROVE \E g \in ToSet(stack') : Alike(h, g)
  <2>1. ~ \E l \in {Top} : Alike(h, l)
    BY <1>3, <1>15 DEF Alike
  <2> QED BY <1>10, <2>1 DEF Turns
\* A run inside a run of the same effect.
<1>16. ASSUME NEW h \in ToSet(stack), h.op = "body", h.eff = e PROVE e \in Plain /\ e \in muted'
  <2>1. stack \in Seq(Frames) /\ Len(stack) \in 1..Len(stack) /\ Top = stack[Len(stack)]
    BY <1>3, Frames1, TopFacts DEF IInv
  <2>2. PICK i \in 1..Len(stack) : stack[i] = h
    BY <2>1, SetFacts
  <2>3. i # Len(stack) /\ i < Len(stack)
    BY <1>3, <1>16, <2>1, <2>2
  <2>4. e \notin Computeds
    BY <1>1, <1>3, <1>16, <2>1, <2>2, <2>3 DEF NoReentry, Lazy
  <2>5. i \in Holding("body") /\ stack[i].eff = Top.eff
    BY <1>1, <1>16, <2>1, <2>2 DEF Holding
  <2> QED BY <1>1, <1>4, <2>4, <2>5 DEF StartBody, Plain
<1>17. Watched'
  <2> SUFFICES ASSUME NEW x \in Effects, Live(idOf[x])', ~ Runs(x)', ~ Told(x)'
               PROVE  (x \notin lag)' /\ \A s \in basis'[x] : Covered(x, s)'
    BY DEF Watched
  <2>1. x # e
    BY <1>5 DEF Runs
  <2>2. Live(idOf[x])
    BY <1>6 DEF Live
  <2>3. ~ Told(x)
    BY <1>13, <2>1, <2>2
  <2>4. ~ Runs(x)
    BY <1>15 DEF Runs, Alike
  <2>5. x \notin lag /\ \A s \in basis[x] : Covered(x, s)
    BY <2>2, <2>3, <2>4 DEF Links, Watched
  <2>6. basis[x] \subseteq Signals
    BY DEF IInv, Flags
  <2> QED BY <1>6, <1>14, <2>1, <2>2, <2>5, <2>6
<1>18. ASSUME NEW g \in ToSet(stack'), g.op = "body"
       PROVE  \/ g.eff = e /\ g.basis = {} /\ ~ g.old
              \/ \E h \in ToSet(stack) : Alike(h, g)
  BY <1>5, <1>10, <1>18 DEF Turns, Alike
<1>19. Running'
  <2> SUFFICES ASSUME NEW g \in ToSet(stack'), g.op = "body", Live(g.id)', ~ Told(g.eff)',
                      NEW h \in ToSet(stack), Alike(h, g)
               PROVE  ~ g.old /\ \A s \in g.basis : Covered(g.eff, s)'
    BY <1>18 DEF Running
  <2>1. /\ h.op = "body" /\ g.eff = h.eff /\ g.id = h.id /\ g.basis = h.basis /\ g.old = h.old
        /\ h.eff \in Effects /\ h.id = idOf[h.eff] /\ h.basis \subseteq Signals
    BY BodyFrom
  <2>2. h.eff # e
    <3>1. e \in Plain /\ e \in muted' => Pending(e)'
      BY DEF Pending, Plain
    <3> QED BY <1>16, <2>1, <3>1 DEF Told
  <2>3. Live(idOf[h.eff]) /\ Live(h.id)
    BY <1>8, <2>1
  <2>4. ~ Told(h.eff)
    BY <1>13, <2>1, <2>2, <2>3
  <2>5. ~ h.old /\ \A s \in h.basis : Covered(h.eff, s)
    BY <2>1, <2>3, <2>4 DEF Links, Running
  <2> QED BY <1>14, <2>1, <2>2, <2>3, <2>5
<1>20. Deriving'
  <2> SUFFICES ASSUME NEW g \in ToSet(stack'), g.op = "body", g.eff \in Computeds
               PROVE  /\ ~ g.old /\ \A s \in g.basis : Covered(g.eff, s)'
                      /\ \A d \in dirty' : ~ Contains(subs'[d], idOf'[g.eff])
    BY DEF Deriving
  <2>1. dirty \subseteq Computeds
    BY DEF IInv, Flags
  <2>2. CASE g.eff = e /\ g.basis = {} /\ ~ g.old
    <3>1. Live(id)
      BY <1>4, <1>9, <2>2, IdIsId
    <3> QED BY <1>4, <1>6, <1>7, <1>9, <2>1, <2>2, <3>1
  <2>3. ASSUME NEW h \in ToSet(stack), Alike(h, g)
        PROVE  /\ ~ g.old /\ \A s \in g.basis : Covered(g.eff, s)'
               /\ \A d \in dirty' : ~ Contains(subs'[d], idOf'[g.eff])
    <3>1. /\ h.op = "body" /\ g.eff = h.eff /\ g.id = h.id /\ g.basis = h.basis /\ g.old = h.old
          /\ h.eff \in Effects /\ h.id = idOf[h.eff] /\ h.id # NoId /\ h.basis \subseteq Signals
      BY <2>3, BodyFrom
    <3>2. h.eff # e
      BY <1>16, <3>1 DEF Plain
    <3>3. Live(idOf[h.eff])
      BY <1>9, <3>1
    <3>4. /\ ~ h.old /\ \A s \in h.basis : Covered(h.eff, s)
          /\ \A d \in dirty : ~ Contains(subs[d], idOf[h.eff])
      BY <3>1 DEF Links, Deriving
    <3>5. \A d \in dirty' : ~ Contains(subs'[d], idOf'[g.eff])
      BY <1>6, <1>7, <1>9, <2>1, <3>1, <3>4
    <3> QED BY <1>14, <3>1, <3>2, <3>3, <3>4, <3>5
  <2> QED BY <1>18, <2>2, <2>3
<1>21. DirtyTold'
  <2> SUFFICES ASSUME NEW c \in dirty', NEW x \in Effects, Live(idOf[x])', Contains(subs'[c], idOf'[x])
               PROVE  Pending(x)' \/ Heard(x)' \/ Contains(worklist', c)
    BY DEF DirtyTold
  <2>1. c \in dirty /\ c \in Computeds
    BY <1>6 DEF IInv, Flags
  <2>2. Live(idOf[x])
    BY <1>6 DEF Live
  <2>3. x # e /\ Contains(subs[c], idOf[x])
    BY <1>4, <1>6, <1>7, <1>9, <2>1, <2>2
  <2>4. Pending(x) \/ Heard(x) \/ Contains(worklist, c)
    BY <2>1, <2>2, <2>3 DEF Links, DirtyTold
  <2> QED BY <1>6, <1>11, <2>3, <2>4
<1>22. NoCircle'
  <2>1. \A D \in SUBSET Computeds : \A c, d \in D : Contains(subs'[d], idOf'[c]) => Contains(subs[d], idOf[c])
    BY <1>6, <1>7, <1>9
  <2> QED BY <2>1 DEF Links, NoCircle
<1> QED BY <1>17, <1>19, <1>20, <1>21, <1>22 DEF Links

\* track_signal adds the one edge.
LEMMA TrackedSubs ==
  ASSUME IInv, NEW id \in Ids, NEW x \in Sources, Track(id, x)
  PROVE  \A y \in Sources : \A z : Contains(subs'[y], z) <=> Contains(subs[y], z) \/ (y = x /\ z = id)
<1> SUFFICES ASSUME NEW y \in Sources, NEW z
             PROVE  Contains(subs'[y], z) <=> Contains(subs[y], z) \/ (y = x /\ z = id)
  OBVIOUS
<1>1. subs \in [Sources -> Seq(Ids)]
  BY DEF IInv, Graph
<1>2. CASE Contains(subs[x], id)
  BY <1>2 DEF Track
<1>3. CASE ~ Contains(subs[x], id)
  <2>1. subs' = [subs EXCEPT ![x] = Append(@, id)]
    BY <1>3 DEF Track
  <2>2. CASE y = x
    <3>1. PICK q \in Seq(Ids) : q = subs[x]
      BY <1>1
    <3>2. subs'[y] = Append(q, id) /\ subs[y] = q
      BY <1>1, <2>1, <2>2, <3>1
    <3>3. PICK r : r = Append(q, id)
      OBVIOUS
    <3>4. r \in Seq(Ids) /\ \A v : v \in ToSet(r) <=> v \in ToSet(q) \/ v = id
      BY <3>1, <3>3, SetPush
    <3>5. Contains(r, z) <=> Contains(q, z) \/ z = id
      BY <3>1, <3>4, SetFacts
    <3> QED BY <2>2, <3>2, <3>3, <3>5
  <2>3. CASE y # x
    BY <1>1, <2>1, <2>3
  <2> QED BY <2>2, <2>3
<1> QED BY <1>2, <1>3

\* A read subscribes to what it has seen, and what it has seen is up to date.
LEMMA ReaderLinks ==
  ASSUME IInv, Shape, Links, ~ Dispatching,
         NEW b \in ToSet(stack), b \in CodeFrames, b.op \in UserOps,
         NEW x \in Sources, x \notin dirty, x \in Computeds => idOf[x] # NoId,
         NEW g, g = Got(b, x), g \in ToSet(stack'),
         NEW L, Turns(stack, stack', {g}, L), \A l \in L : l = b \/ l.op = "get",
         IF b.op = "body" THEN Track(b.id, x) ELSE UNCHANGED <<subs, deps>>,
         UNCHANGED <<slab, gens, idOf, dirty, gone, basis, lag, muted, queue, worklist>>
  PROVE  Links'
<1>0. Framing /\ Born
  BY DEF Shape
<1>1. g.op = b.op /\ g.eff = b.eff /\ g.id = b.id
  BY GotGood DEF IInv
<1>2. CASE b.op # "body"
  <2>1. \A f \in {g} \cup L : f.op # "body"
    BY <1>1, <1>2
  <2>2. \A l \in L : l.op # "flush" /\ l.op # "clean" /\ l.op # "dispatch"
    BY DEF UserOps
  <2>3. UNCHANGED <<slab, gens, idOf, subs, dirty, gone, basis, lag, worklist>>
    BY <1>2
  <2> QED BY <2>1, <2>2, <2>3, QuietFlow
<1>3. CASE b.op = "body"
  <2>1. PICK e : e = b.eff
    OBVIOUS
  <2>2. PICK id : id = b.id
    OBVIOUS
  <2>3. e \in Effects /\ id = idOf[e] /\ id \in Ids /\ id # NoId /\ b.basis \subseteq Signals
    BY <1>3, <2>1, <2>2, RunFacts DEF CodeFrames
  <2>4. \A y \in Sources : \A z : Contains(subs'[y], z) <=> Contains(subs[y], z) \/ (y = x /\ z = id)
    BY <1>3, <2>2, <2>3, TrackedSubs
  <2>5. \A i : Live(i)' <=> Live(i)
    BY DEF Live
  <2>6. /\ \A c \in Computeds : c \in Effects /\ c \in Sources /\ (idOf[c] # NoId => Live(idOf[c]))
        /\ dirty \subseteq Computeds
    BY <1>0, ReactiveAssumption DEF Sources, Born, IInv, Flags
  <2>7. ASSUME NEW y \in Effects
        PROVE  (Pending(y) => Pending(y)') /\ (Heard(y) => Heard(y)' \/ Pending(y)')
    <3>1. \A l \in L : l.op # "clean" /\ l.op # "flush" /\ l.op # "dispatch"
      BY <1>3
    <3> QED BY <3>1, PendingStays, HeardStays
  <2>8. ASSUME NEW y \in Effects, Told(y) PROVE Told(y)'
    <3>1. \A c \in lag \cap Computeds : Contains(subs[c], idOf[y]) => Contains(subs'[c], idOf'[y])
      BY <2>4, <2>6
    <3> QED BY <2>7, <2>8, <3>1 DEF Told
  <2>9. ASSUME NEW y \in Effects, NEW s \in Signals, Covered(y, s) PROVE Covered(y, s)'
    <3>1. Contains(subs[s], idOf[y]) => Contains(subs'[s], idOf'[y])
      BY <2>4 DEF Sources
    <3>2. \A c \in Computeds : Contains(subs[c], idOf[y]) /\ s \in basis[c]
                                 => Contains(subs'[c], idOf'[y]) /\ s \in basis'[c]
      BY <2>4, <2>6
    <3> QED BY <2>9, <3>1, <3>2 DEF Covered
  <2>10. \A d \in dirty : \A z : Contains(subs'[d], z) <=> Contains(subs[d], z)
    BY <2>4, <2>6
  \* What the reader has got is as good as what it had.
  <2>11. /\ g.old => b.old
         /\ \A s \in g.basis : s \in b.basis \/ Covered(e, s)'
    <3>0. Contains(subs'[x], idOf'[e])
      BY <2>3, <2>4
    <3>1. CASE x \in Computeds
      <4>1. g.basis = b.basis \cup basis[x] /\ g.old = (b.old \/ x \in lag)
        BY <3>1, GotBasis DEF IInv
      <4>2. x \notin lag
        BY <3>1, CleanCache
      <4> QED BY <3>0, <3>1, <4>1, <4>2 DEF Covered
    <3>2. CASE x \notin Computeds
      <4>1. g.basis = b.basis \cup {x} /\ g.old = b.old
        BY <3>2, GotBasis DEF IInv
      <4> QED BY <3>0, <4>1 DEF Covered
    <3> QED BY <3>1, <3>2
  <2>12. ASSUME NEW h \in ToSet(stack), h.op = "body"
         PROVE  \E k \in ToSet(stack') : k.op = "body" /\ k.eff = h.eff
    <3>1. CASE \E l \in L : Alike(h, l)
      BY <1>1, <1>3, <2>12, <3>1 DEF Alike
    <3>2. CASE \E k \in ToSet(stack') : Alike(h, k)
      BY <2>12, <3>2 DEF Alike
    <3> QED BY <3>1, <3>2 DEF Turns
  <2>13. ASSUME NEW k \in ToSet(stack'), k.op = "body"
         PROVE  \/ k.eff = e /\ k.id = id /\ k.basis = g.basis /\ k.old = g.old
                \/ \E h \in ToSet(stack) : Alike(h, k)
    BY <1>1, <1>3, <2>1, <2>2, <2>13 DEF Turns, Alike
  <2>14. Watched'
    <3> SUFFICES ASSUME NEW y \in Effects, Live(idOf[y])', ~ Runs(y)', ~ Told(y)'
                 PROVE  (y \notin lag)' /\ \A s \in basis'[y] : Covered(y, s)'
      BY DEF Watched
    <3>1. Live(idOf[y])
      BY DEF Live
    <3>2. ~ Runs(y) /\ ~ Told(y)
      BY <2>8, <2>12 DEF Runs
    <3>3. y \notin lag /\ \A s \in basis[y] : Covered(y, s)
      BY <3>1, <3>2 DEF Links, Watched
    <3>4. basis[y] \subseteq Signals
      BY DEF IInv, Flags
    <3> QED BY <2>9, <3>3, <3>4
  <2>15. Running'
    <3> SUFFICES ASSUME NEW k \in ToSet(stack'), k.op = "body", Live(k.id)', ~ Told(k.eff)'
                 PROVE  ~ k.old /\ \A s \in k.basis : Covered(k.eff, s)'
      BY DEF Running
    <3>1. CASE k.eff = e /\ k.id = id /\ k.basis = g.basis /\ k.old = g.old
      <4>1. Live(b.id) /\ ~ Told(b.eff)
        BY <2>1, <2>2, <2>3, <2>5, <2>8, <3>1
      <4>2. ~ b.old /\ \A s \in b.basis : Covered(b.eff, s)
        BY <1>3, <4>1 DEF Links, Running
      <4> QED BY <2>1, <2>3, <2>9, <2>11, <3>1, <4>2
    <3>2. ASSUME NEW h \in ToSet(stack), Alike(h, k)
          PROVE  ~ k.old /\ \A s \in k.basis : Covered(k.eff, s)'
      <4>1. /\ h.op = "body" /\ k.eff = h.eff /\ k.id = h.id /\ k.basis = h.basis /\ k.old = h.old
            /\ h.eff \in Effects /\ h.id = idOf[h.eff] /\ h.basis \subseteq Signals
        BY <3>2, BodyFrom
      <4>2. Live(h.id) /\ ~ Told(h.eff)
        BY <2>5, <2>8, <4>1
      <4>3. ~ h.old /\ \A s \in h.basis : Covered(h.eff, s)
        BY <4>1, <4>2 DEF Links, Running
      <4> QED BY <2>9, <4>1, <4>3
    <3> QED BY <2>13, <3>1, <3>2
  <2>16. Deriving'
    <3> SUFFICES ASSUME NEW k \in ToSet(stack'), k.op = "body", k.eff \in Computeds
                 PROVE  /\ ~ k.old /\ \A s \in k.basis : Covered(k.eff, s)'
                        /\ \A d \in dirty' : ~ Contains(subs'[d], idOf'[k.eff])
      BY DEF Deriving
    <3>1. CASE k.eff = e /\ k.id = id /\ k.basis = g.basis /\ k.old = g.old
      <4>1. /\ ~ b.old /\ \A s \in b.basis : Covered(b.eff, s)
            /\ \A d \in dirty : ~ Contains(subs[d], idOf[b.eff])
        BY <1>3, <2>1, <3>1 DEF Links, Deriving
      <4>2. \A d \in dirty' : ~ Contains(subs'[d], idOf'[k.eff])
        BY <2>1, <2>10, <3>1, <4>1
      <4> QED BY <2>1, <2>3, <2>9, <2>11, <3>1, <4>1, <4>2
    <3>2. ASSUME NEW h \in ToSet(stack), Alike(h, k)
          PROVE  /\ ~ k.old /\ \A s \in k.basis : Covered(k.eff, s)'
                 /\ \A d \in dirty' : ~ Contains(subs'[d], idOf'[k.eff])
      <4>1. /\ h.op = "body" /\ k.eff = h.eff /\ k.basis = h.basis /\ k.old = h.old
            /\ h.eff \in Effects /\ h.basis \subseteq Signals
        BY <3>2, BodyFrom
      <4>2. /\ ~ h.old /\ \A s \in h.basis : Covered(h.eff, s)
            /\ \A d \in dirty : ~ Contains(subs[d], idOf[h.eff])
        BY <4>1 DEF Links, Deriving
      <4>3. \A d \in dirty' : ~ Contains(subs'[d], idOf'[k.eff])
        BY <2>10, <4>1, <4>2
      <4> QED BY <2>9, <4>1, <4>2, <4>3
    <3> QED BY <2>13, <3>1, <3>2
  <2>17. DirtyTold'
    <3> SUFFICES ASSUME NEW c \in dirty', NEW y \in Effects, Live(idOf[y])', Contains(subs'[c], idOf'[y])
                 PROVE  Pending(y)' \/ Heard(y)' \/ Contains(worklist', c)
      BY DEF DirtyTold
    <3>1. c \in dirty /\ Live(idOf[y]) /\ Contains(subs[c], idOf[y])
      BY <2>10 DEF Live
    <3>2. Pending(y) \/ Heard(y) \/ Contains(worklist, c)
      BY <3>1 DEF Links, DirtyTold
    <3> QED BY <2>7, <3>2
  \* A clean computed has no edge to one that is out of date, and the reader, if it is a
  \* computed, is out of date: the new edge closes no circle.
  <2>18. NoCircle'
    <3> SUFFICES ASSUME NEW D \in SUBSET Computeds, D # {}
                 PROVE  \E c \in D : \A d \in D : ~ Contains(subs'[d], idOf'[c])
      BY DEF NoCircle
    <3>1. CASE x \notin D
      <4>1. PICK c \in D : \A d \in D : ~ Contains(subs[d], idOf[c])
        BY DEF Links, NoCircle
      <4> QED BY <2>4, <2>6, <3>1, <4>1
    <3>2. CASE x \in D
      <4> DEFINE D0 == D \ dirty
      <4>1. D0 \in SUBSET Computeds /\ D0 # {}
        BY <3>2
      <4>2. PICK c \in D0 : \A d \in D0 : ~ Contains(subs[d], idOf[c])
        BY <4>1 DEF Links, NoCircle
      <4>3. c \in D /\ c \in Computeds /\ c \in Effects /\ c \notin dirty
        BY <2>6, <4>2
      <4>4. ASSUME NEW d \in D, Contains(subs'[d], idOf'[c]) PROVE FALSE
        <5>1. d \in Sources /\ d \in Computeds /\ subs[d] \in Seq(Ids)
          BY <2>6 DEF IInv, Graph
        <5>2. CASE d = x /\ idOf[c] = id
          <6>1. Live(idOf[c])
            BY <2>3, <2>6, <4>3, <5>2
          <6>2. c = e
            BY <2>3, <4>3, <5>2, <6>1, SameId
          <6>3. Runs(c)
            BY <1>3, <2>1, <6>2 DEF Runs
          <6> QED BY <1>0, <4>3, <6>3, RunsDirty
        <5>3. CASE Contains(subs[d], idOf[c])
          <6>1. d \in dirty
            BY <4>2, <5>3
          <6>2. idOf[c] \in Ids
            BY <5>1, <5>3, SetFacts
          <6>3. Live(idOf[c])
            BY <2>6, <4>3, <6>2, IdIsId
          <6>4. Pending(c)
            BY <4>3, <5>3, <6>1, <6>3, Settled
          <6> QED BY <4>3, <6>4 DEF Pending
        <5> QED BY <2>4, <4>4, <5>1, <5>2, <5>3
      <4> QED BY <4>3, <4>4
    <3> QED BY <3>1, <3>2
  <2> QED BY <2>14, <2>15, <2>16, <2>17, <2>18 DEF Links
<1> QED BY <1>2, <1>3

LEMMA ReadLinks == ASSUME IInv, Shape, Links, FinishRead \/ \E x \in Sources : Read(x) PROVE Links'
<1>0. Nested(stack) /\ Framing /\ Cached
  BY DEF Shape
<1>1. ASSUME NEW x \in Sources, Read(x) PROVE Links'
  <2>1. PICK b : b = Top
    OBVIOUS
  <2>2. PICK g : g = Got(b, x)
    OBVIOUS
  <2>3. stack # <<>> /\ b \in CodeFrames /\ b.op \in UserOps /\ b \in ToSet(stack)
    BY <1>1, <2>1, UserTop, Frames1, SetPop DEF Read, Top
  <2>4. Turns(stack, stack', {g}, {b}) /\ g \in ToSet(stack')
    BY <1>0, <1>1, <2>1, <2>2, ReadFlow DEF Flow
  <2>5. ~ Dispatching
    BY <2>1, <2>3, NoDispatch DEF UserOps
  <2>6. x \notin dirty /\ (x \in Computeds => idOf[x] # NoId)
    BY <1>1 DEF Read, IInv, Flags
  <2>7. /\ IF b.op = "body" THEN Track(b.id, x) ELSE UNCHANGED <<subs, deps>>
        /\ UNCHANGED <<slab, gens, idOf, dirty, gone, basis, lag, muted, queue, worklist>>
    BY <1>1, <2>1 DEF Read, Subscribe, tables, sched, past
  <2>8. \A l \in {b} : l = b \/ l.op = "get"
    OBVIOUS
  <2> QED BY <2>2, <2>3, <2>4, <2>5, <2>6, <2>7, <2>8, ReaderLinks
<1>2. CASE FinishRead
  <2>1. PICK b : b = Last(Rest)
    OBVIOUS
  <2>2. PICK x : x = Top.src
    OBVIOUS
  <2>3. PICK g : g = Got(b, x)
    OBVIOUS
  <2>4. PICK t : t = Top
    OBVIOUS
  <2>5. t.op = "get" /\ stack # <<>> /\ t \in ToSet(stack)
    BY <1>2, <2>4, Frames1, SetPop DEF FinishRead, At, Top
  <2>6. /\ Turns(stack, stack', {g}, {t, b}) /\ g \in ToSet(stack')
        /\ b \in ToSet(stack) /\ b \in CodeFrames /\ b.op \in UserOps /\ x \in Computeds
    BY <1>0, <1>2, <2>1, <2>2, <2>3, <2>4, FinishReadFlow DEF Flow
  <2>7. ~ Dispatching
    BY <2>4, <2>5, NoDispatch
  <2>8. x \in Sources /\ x \notin dirty /\ idOf[x] # NoId
    BY <1>0, <1>2, <2>2, <2>4, <2>5, <2>6 DEF Cached, FinishRead, Framing, FrameFine, Sources
  <2>9. /\ IF b.op = "body" THEN Track(b.id, x) ELSE UNCHANGED <<subs, deps>>
        /\ UNCHANGED <<slab, gens, idOf, dirty, gone, basis, lag, muted, queue, worklist>>
    BY <1>2, <2>1, <2>2 DEF FinishRead, Subscribe, tables, sched, past
  <2>10. \A l \in {t, b} : l = b \/ l.op = "get"
    BY <2>5
  <2> QED BY <2>3, <2>6, <2>7, <2>8, <2>9, <2>10, ReaderLinks
<1> QED BY <1>1, <1>2

\* A body that returns hands its reads over to the effect.
LEMMA ReturnLinks == ASSUME IInv, Shape, Links, NoReentry, Return PROVE Links'
<1>1. CASE Top.op # "body"
  BY <1>1, QuietLinks DEF QuietStep
<1>2. CASE Top.op = "body"
  <2>1. PICK t : t = Top
    OBVIOUS
  <2>2. PICK e : e = t.eff
    OBVIOUS
  <2>3. t.op = "body" /\ stack # <<>> /\ t \in ToSet(stack)
    BY <1>2, <2>1, Frames1, SetPop DEF Return, InUserCode, Top
  <2>4. e \in Effects /\ t.id = idOf[e] /\ idOf[e] \in Ids /\ t.basis \subseteq Signals
    BY <2>2, <2>3, RunFacts DEF CodeFrames
  <2>5. /\ Turns(stack, stack', {}, {t})
        /\ \A g \in ToSet(stack') : \E h \in ToSet(Rest) : Alike(h, g)
    BY <2>1, ReturnFlow DEF Shape
  <2>6. /\ UNCHANGED <<slab, gens, idOf, subs, gone, muted, queue, worklist>>
        /\ dirty' = dirty \ {e}
        /\ IF Live(idOf[e])
           THEN /\ basis' = [basis EXCEPT ![e] = t.basis]
                /\ lag' = IF t.old THEN lag \cup {e} ELSE lag \ {e}
           ELSE UNCHANGED <<basis, lag>>
    BY <1>2, <2>1, <2>2, <2>4 DEF Return, tables, sched
  <2>7. /\ \A y \in Effects : y # e => basis'[y] = basis[y] /\ (y \in lag' <=> y \in lag)
        /\ Live(idOf[e]) => basis'[e] = t.basis /\ (e \in lag' <=> t.old)
    BY <2>4, <2>6 DEF IInv, Flags
  <2>8. \A i : Live(i)' <=> Live(i)
    BY <2>6 DEF Live
  <2>9. ~ Dispatching
    BY <1>2, NoDispatch
  <2>10. /\ \A y \in Effects : ~ Heard(y)
         /\ \A c \in dirty, y \in Effects : Live(idOf[y]) /\ Contains(subs[c], idOf[y]) => Pending(y)
         /\ \A y \in Effects : Live(idOf[y]) /\ Told(y) => Pending(y)
    BY <2>9, Settled
  <2>11. /\ dirty \subseteq Computeds
         /\ \A c \in Computeds : c \in Effects /\ (idOf[c] # NoId => Live(idOf[c]))
         /\ e \in Computeds => e \in dirty
    <3>1. e \in Computeds => e \in dirty
      BY <2>2, <2>3 DEF Shape, Framing, FrameFine, Lazy
    <3> QED BY <3>1, ReactiveAssumption DEF IInv, Flags, Shape, Born
  <2>12. e \in Computeds => /\ ~ t.old /\ Live(idOf[e])
                            /\ \A s \in t.basis : Covered(e, s)
                            /\ \A d \in dirty : ~ Contains(subs[d], idOf[e])
    <3>1. e \in Computeds => Live(idOf[e])
      BY <2>4, <2>11, IdIsId
    <3> QED BY <2>2, <2>3, <3>1 DEF Links, Deriving
  \* No other run of the same computed is under way.
  <2>13. ASSUME NEW h \in ToSet(Rest), h.op = "body"
         PROVE  h \in ToSet(stack) /\ (e \in Computeds => h.eff # e)
    <3>1. /\ stack \in Seq(Frames) /\ Rest \in Seq(Frames) /\ Len(stack) \in 1..Len(stack)
          /\ Top = stack[Len(stack)] /\ Len(Rest) = Len(stack) - 1
          /\ \A i \in 1..Len(stack) - 1 : Rest[i] = stack[i]
      BY <2>3, Frames1, FrontFacts, TopFacts DEF IInv, Rest
    <3>2. PICK i \in 1..Len(stack) - 1 : stack[i] = h
      BY <2>13, <3>1, SetFacts
    <3>3. i \in 1..Len(stack) /\ i < Len(stack)
      BY <3>1, <3>2
    <3>4. e \in Computeds => h.eff # e
      BY <2>1, <2>2, <2>3, <2>13, <3>1, <3>2, <3>3 DEF NoReentry, Lazy
    <3> QED BY <3>1, <3>2, <3>3, <3>4, SetFacts
  <2>14. ASSUME NEW y \in Effects, Pending(y), y # e \/ e \notin Computeds PROVE Pending(y)'
    <3>1. CASE y \in Computeds
      BY <2>6, <2>14, <3>1 DEF Pending
    <3>2. CASE y \notin Computeds /\ (Contains(queue, idOf[y]) \/ y \in muted)
      BY <2>6, <3>2 DEF Pending
    <3>3. ASSUME y \notin Computeds, NEW f \in ToSet(stack),
                 (f.op = "flush" /\ Contains(f.ids, idOf[y])) \/ (f.op = "clean" /\ f.eff = y)
          PROVE  Pending(y)'
      <4>1. ~ \E l \in {t} : Alike(f, l)
        BY <2>3, <3>3 DEF Alike
      <4>2. PICK g \in ToSet(stack') : Alike(f, g)
        BY <2>5, <4>1 DEF Turns
      <4>3. (g.op = "flush" /\ Contains(g.ids, idOf'[y])) \/ (g.op = "clean" /\ g.eff = y)
        BY <2>6, <3>3, <4>2 DEF Alike
      <4> QED BY <3>3, <4>3 DEF Pending
    <3> QED BY <2>14, <3>1, <3>2, <3>3 DEF Pending
  <2>15. \A y \in Effects : Live(idOf[y]) /\ (y # e \/ e \notin Computeds) /\ ~ Told(y)' => ~ Told(y) /\ ~ Pending(y)
    BY <2>10, <2>14 DEF Told
  \* Only who subscribes to the computed that returns could lose by what it now holds.
  <2>16. ASSUME NEW y \in Effects, NEW s, Covered(y, s), e \in Computeds => ~ Contains(subs[e], idOf[y])
         PROVE  Covered(y, s)'
    <3>1. ASSUME NEW c \in Computeds, Contains(subs[c], idOf[y]), s \in basis[c] PROVE Covered(y, s)'
      <4>1. c # e /\ c \in Effects
        BY <2>11, <2>16, <3>1
      <4>2. s \in basis'[c] /\ Contains(subs'[c], idOf'[y])
        BY <2>6, <2>7, <3>1, <4>1
      <4> QED BY <4>2 DEF Covered
    <3> QED BY <2>6, <2>16, <3>1 DEF Covered
  <2>17. \A y \in Effects : Live(idOf[y]) /\ ~ Pending(y) /\ e \in Computeds => ~ Contains(subs[e], idOf[y])
    BY <2>10, <2>11
  <2>18. Watched'
    <3> SUFFICES ASSUME NEW y \in Effects, Live(idOf[y])', ~ Runs(y)', ~ Told(y)'
                 PROVE  (y \notin lag)' /\ \A s \in basis'[y] : Covered(y, s)'
      BY DEF Watched
    <3>1. Live(idOf[y])
      BY <2>6 DEF Live
    <3>2. CASE y # e
      <4>1. ~ Told(y) /\ ~ Pending(y)
        BY <2>15, <3>1, <3>2
      <4>2. ~ Runs(y)
        <5>1. ASSUME NEW f \in ToSet(stack), f.op = "body", f.eff = y PROVE FALSE
          <6>1. ~ \E l \in {t} : Alike(f, l)
            BY <2>2, <3>2, <5>1 DEF Alike
          <6>2. PICK g \in ToSet(stack') : Alike(f, g)
            BY <2>5, <6>1 DEF Turns
          <6> QED BY <5>1, <6>2 DEF Alike, Runs
        <5> QED BY <5>1 DEF Runs
      <4>3. y \notin lag /\ \A s \in basis[y] : Covered(y, s)
        BY <3>1, <4>1, <4>2 DEF Links, Watched
      <4> QED BY <2>7, <2>16, <2>17, <3>1, <3>2, <4>1, <4>3
    <3>3. CASE y = e /\ e \notin Computeds
      <4>1. ~ Told(e) /\ ~ Pending(e)
        BY <2>15, <3>1, <3>3
      <4>2. ~ t.old /\ \A s \in t.basis : Covered(e, s)
        BY <2>2, <2>3, <2>4, <3>1, <3>3, <4>1 DEF Links, Running
      <4> QED BY <2>7, <2>16, <3>1, <3>3, <4>2
    <3>4. CASE y = e /\ e \in Computeds
      BY <2>7, <2>11, <2>12, <2>16, <3>1, <3>4
    <3> QED BY <3>2, <3>3, <3>4
  <2>19. ASSUME NEW g \in ToSet(stack'), g.op = "body"
         PROVE  \E h \in ToSet(stack) :
                  /\ h.op = "body" /\ g.eff = h.eff /\ g.id = h.id /\ g.basis = h.basis /\ g.old = h.old
                  /\ h.eff \in Effects /\ h.id = idOf[h.eff] /\ (e \in Computeds => h.eff # e)
    <3>1. PICK h \in ToSet(Rest) : Alike(h, g)
      BY <2>5
    <3>2. h.op = "body"
      BY <2>19, <3>1 DEF Alike
    <3>3. h \in ToSet(stack) /\ (e \in Computeds => h.eff # e)
      BY <2>13, <3>2
    <3>4. /\ g.eff = h.eff /\ g.id = h.id /\ g.basis = h.basis /\ g.old = h.old
          /\ h.eff \in Effects /\ h.id = idOf[h.eff]
      BY <2>19, <3>1, <3>3, BodyFrom
    <3> QED BY <3>2, <3>3, <3>4
  <2>20. Running'
    <3> SUFFICES ASSUME NEW g \in ToSet(stack'), g.op = "body", Live(g.id)', ~ Told(g.eff)'
                 PROVE  ~ g.old /\ \A s \in g.basis : Covered(g.eff, s)'
      BY DEF Running
    <3>1. PICK h \in ToSet(stack) :
            /\ h.op = "body" /\ g.eff = h.eff /\ g.id = h.id /\ g.basis = h.basis /\ g.old = h.old
            /\ h.eff \in Effects /\ h.id = idOf[h.eff] /\ (e \in Computeds => h.eff # e)
      BY <2>19
    <3>2. Live(h.id) /\ Live(idOf[h.eff])
      BY <2>8, <3>1
    <3>3. ~ Told(h.eff) /\ ~ Pending(h.eff)
      BY <2>15, <3>1, <3>2
    <3>4. ~ h.old /\ \A s \in h.basis : Covered(h.eff, s)
      BY <3>1, <3>2, <3>3 DEF Links, Running
    <3> QED BY <2>16, <2>17, <3>1, <3>2, <3>3, <3>4
  <2>21. Deriving'
    <3> SUFFICES ASSUME NEW g \in ToSet(stack'), g.op = "body", g.eff \in Computeds
                 PROVE  /\ ~ g.old /\ \A s \in g.basis : Covered(g.eff, s)'
                        /\ \A d \in dirty' : ~ Contains(subs'[d], idOf'[g.eff])
      BY DEF Deriving
    <3>1. PICK h \in ToSet(stack) :
            /\ h.op = "body" /\ g.eff = h.eff /\ g.id = h.id /\ g.basis = h.basis /\ g.old = h.old
            /\ h.eff \in Effects /\ h.id = idOf[h.eff] /\ (e \in Computeds => h.eff # e)
      BY <2>19
    <3>2. /\ ~ h.old /\ \A s \in h.basis : Covered(h.eff, s)
          /\ \A d \in dirty : ~ Contains(subs[d], idOf[h.eff])
      BY <3>1 DEF Links, Deriving
    <3> QED BY <2>6, <2>11, <2>16, <3>1, <3>2
  <2>22. DirtyTold'
    <3> SUFFICES ASSUME NEW c \in dirty', NEW y \in Effects, Live(idOf[y])', Contains(subs'[c], idOf'[y])
                 PROVE  Pending(y)' \/ Heard(y)' \/ Contains(worklist', c)
      BY DEF DirtyTold
    <3>1. c \in dirty /\ Live(idOf[y]) /\ Contains(subs[c], idOf[y])
      BY <2>6 DEF Live
    <3>2. Pending(y) /\ (y # e \/ e \notin Computeds)
      BY <2>10, <2>12, <3>1
    <3> QED BY <2>14, <3>2
  <2>23. NoCircle'
    BY <2>6 DEF Links, NoCircle
  <2> QED BY <2>18, <2>20, <2>21, <2>22, <2>23 DEF Links
<1> QED BY <1>1, <1>2

-----------------------------------------------------------------------------
(***************************************************************************)
(* No update is missed.                                                    *)
(***************************************************************************)

LEMMA WatchKept == ASSUME IInv, WInv, NoReentry, Next PROVE WInv'
<1>0. Shape /\ Links
  BY DEF WInv
<1>1. Shape'
  BY <1>0, ShapeKept
<1>2. ASSUME QuietStep PROVE Links'
  BY <1>0, <1>2, QuietLinks
<1> SUFFICES Links'
  BY <1>1 DEF WInv
<1>3. CASE BrowserEvent \/ FlushMicrotask
  BY <1>2, <1>3 DEF QuietStep
<1>4. CASE Machinery
  <2>1. CASE RunCleanups \/ EndDispatch \/ FlushNext \/ EndFlush
    BY <1>2, <2>1 DEF QuietStep
  <2>2. CASE StartBody \/ FinishRead \/ FinishRelease
    BY <1>0, <2>2, StartLinks, ReadLinks, ReleaseLinks
  <2>3. CASE Route \/ NextSignal
    BY <1>0, <2>3, RouteLinks, NextSignalLinks
  <2> QED BY <1>4, <2>1, <2>2, <2>3 DEF Machinery
<1>5. CASE UserSteps
  <2>1. ASSUME NEW e \in Effects, Create(e) \/ Free(e) PROVE Links'
    BY <1>0, <2>1, CreateLinks, ReleaseLinks
  <2>2. ASSUME NEW x \in Sources, Read(x) PROVE Links'
    BY <1>0, <2>2, ReadLinks
  <2>3. ASSUME NEW x \in Sources, ReadDirty(x) PROVE Links'
    BY <1>2, <2>3 DEF QuietStep
  <2>4. ASSUME NEW s \in Signals, Write(s) \/ ClearScope(s) PROVE Links'
    BY <1>0, <2>4, WriteLinks, ClearScopeLinks
  <2>5. CASE EnterBatch \/ ExitBatch \/ FlushSync \/ OnCleanup
    BY <1>2, <2>5 DEF QuietStep
  <2>6. CASE Return
    BY <1>0, <2>6, ReturnLinks
  <2> QED BY <1>5, <2>1, <2>2, <2>3, <2>4, <2>5, <2>6 DEF UserSteps
<1> QED BY <1>3, <1>4, <1>5 DEF Next

LEMMA WatchStutters == ASSUME IInv, WInv, UNCHANGED vars PROVE WInv'
<1>1. /\ UNCHANGED <<slab, gens, idOf, subs, dirty, gone, basis, lag, muted, queue, worklist>>
      /\ open' = open /\ stack' = stack
  BY DEF vars, tables, graph, sched, past
<1>2. Shape /\ Links
  BY DEF WInv
<1>3. Turns(stack, stack', {}, {})
  BY <1>1, AlikeFacts DEF Turns
<1>4. Links'
  BY <1>1, <1>2, <1>3, QuietFlow
<1>5. (Nested(stack))' /\ Idle' /\ Cached'
  BY <1>1, <1>2 DEF Shape, Nested, Lazy, Idle, Dispatching, Cached, At, Top
<1>6. Framing'
  BY <1>1, <1>2 DEF Shape, Framing, FrameFine, Lazy, Ours
<1>7. Plainly' /\ Born'
  BY <1>1, <1>2 DEF Shape, Plainly, Ours, Born, Live
<1> QED BY <1>4, <1>5, <1>6, <1>7 DEF WInv, Shape

LEMMA WatchStarts == Init => WInv
<1> SUFFICES ASSUME Init PROVE WInv
  OBVIOUS
<1>1. /\ stack = <<>> /\ queue = <<>> /\ worklist = <<>> /\ open = {} /\ dirty = {} /\ lag = {}
      /\ \A e \in Effects : idOf[e] = NoId /\ basis[e] = {}
      /\ \A x \in Sources : subs[x] = <<>>
  BY DEF Init
<1>2. ToSet(stack) = {} /\ \A x : ~ Contains(<<>>, x)
  BY <1>1 DEF ToSet, Contains
<1>3. \A c \in Computeds : c \in Effects /\ c \in Sources
  BY ReactiveAssumption DEF Sources
<1>4. Shape
  BY <1>1, <1>2, <1>3 DEF Shape, Nested, Framing, Plainly, Born, Idle, Cached, At
<1>5. Links
  BY <1>1, <1>2, <1>3 DEF Links, Watched, Running, Deriving, DirtyTold, NoCircle, Live
<1> QED BY <1>4, <1>5 DEF WInv

\* The invariant says it: who is told is on its way to run, or its cache is not used.
LEMMA WatchMeans == ASSUME IInv, WInv PROVE NoMissedUpdate
<1>0. Shape /\ Links
  BY DEF WInv
<1>1. stack \in Seq(Frames) /\ DOMAIN stack = 1..Len(stack)
  BY Frames1, SetFacts
<1>2. \A f \in ToSet(stack) : \E i \in DOMAIN stack : stack[i] = f
  BY <1>1, SetFacts
<1>3. ASSUME Dispatching PROVE \A e : Awaited(e)
  BY <1>2, <1>3 DEF Dispatching, Awaited, Holding
<1>4. ASSUME ~ Dispatching, NEW e \in lag \cap Plain, Alive(e) PROVE Awaited(e) \/ e \in muted
  <2>1. e \in Effects /\ e \notin Computeds
    BY <1>4 DEF Plain
  <2>2. Live(idOf[e])
    <3>1. PICK s \in Slots : slab[s] = e
      BY <1>4 DEF Alive
    <3>2. e # NoOne
      BY <2>1, ReactiveAssumption
    <3>3. idOf[e] = [slot |-> s, gen |-> gens[s]] /\ [slot |-> s, gen |-> gens[s]] \in Ids
      BY <3>1, <3>2 DEF IInv, Tables, Owned, Ids
    <3> QED BY <3>1, <3>2, <3>3, IdIsId DEF Live
  <2>3. CASE Runs(e)
    <3>1. PICK f \in ToSet(stack) : f.op = "body" /\ f.eff = e
      BY <2>3 DEF Runs
    <3>2. f.id = idOf[e]
      BY <3>1, RunFacts
    <3> QED BY <1>2, <3>1, <3>2 DEF Awaited, Holding
  <2>4. CASE ~ Runs(e)
    <3>1. Told(e)
      BY <1>0, <1>4, <2>1, <2>2, <2>4 DEF Links, Watched
    <3>2. Pending(e)
      BY <1>0, <1>4, <2>1, <2>2, <3>1, Settled
    <3>3. CASE Contains(queue, idOf[e]) \/ e \in muted
      BY <3>3 DEF Awaited, Contains
    <3>4. ASSUME NEW f \in ToSet(stack),
                 (f.op = "flush" /\ Contains(f.ids, idOf[e])) \/ (f.op = "clean" /\ f.eff = e)
          PROVE  Awaited(e)
      <4>1. f.op = "clean" => f.id = idOf[f.eff]
        BY RunFacts
      <4> QED BY <1>2, <3>4, <4>1 DEF Awaited, Holding
    <3> QED BY <2>1, <3>2, <3>3, <3>4 DEF Pending
  <2> QED BY <2>3, <2>4
<1>5. ASSUME ~ Dispatching, NEW c \in lag \cap Computeds PROVE c \in dirty
  BY <1>0, <1>5, Settled
<1> QED BY <1>3, <1>4, <1>5 DEF NoMissedUpdate

\* No update is missed, as long as no computed is re-entered while it runs: a live effect
\* whose last run saw an old value is queued, in a pass, about to start, running or due by
\* the dispatch under way, unless the cycle guard suppressed it, and a cache that is old is
\* marked dirty (dispatch_signal, run_effect, Computed::get).  Computed::get takes its cache
\* for dirty until the run is over, so a computed that asks for itself would run once more
\* inside its own run, whose older reads then end last and are declared clean.
THEOREM NoMissedUpdateHolds == Spec /\ []NoReentry => []NoMissedUpdate
<1>1. Init => WInv
  BY WatchStarts
<1>2. IInv /\ NoReentry /\ WInv /\ [Next]_vars => WInv'
  BY WatchKept, WatchStutters
<1>3. IInv /\ WInv => NoMissedUpdate
  BY WatchMeans
<1>4. Spec => []IInv
  BY Inductive
<1> QED BY <1>1, <1>2, <1>3, <1>4, PTL DEF Spec

\* Between two runs of a computed on the stack every computed reads the next one.
LEMMA AcyclicNests ==
  ASSUME Acyclic, stack \in Seq(Frames), Nested(stack)
  PROVE  NoReentry
<1> SUFFICES ASSUME NEW i \in 1..Len(stack), NEW j \in 1..Len(stack), i < j,
                    Lazy(stack[i]), Lazy(stack[j]), stack[i].eff = stack[j].eff
             PROVE  FALSE
  BY DEF NoReentry
<1>1. Len(stack) \in Nat
  OBVIOUS
<1>2. ASSUME NEW k \in i..j, Lazy(stack[k]), k # j
      PROVE  k + 2 \in i..j /\ Lazy(stack[k + 2]) /\ stack[k + 2].eff \in Reads[stack[k].eff]
  <2>1. /\ k \in 1..Len(stack) /\ k + 1 \in 1..Len(stack) /\ k \in 1..(k + 1) - 1
        /\ (k + 1) - 1 = k /\ (k + 1) + 1 = k + 2 /\ (k + 2) - 1 = k + 1
    BY <1>1, <1>2
  <2>2. stack[k + 1].op = "get" \/ Lazy(stack[k + 1])
    BY <1>2, <2>1 DEF Nested
  <2>3. ~ Lazy(stack[k + 1])
    <3>1. Lazy(stack[k + 1]) => stack[(k + 1) - 1].op = "get"
      BY <2>1 DEF Nested
    <3> QED BY <1>2, <2>1, <3>1 DEF Lazy
  <2>4. stack[k + 1].op = "get" /\ k + 1 # j
    BY <2>2, <2>3
  <2>5. k + 1 \in 1..Len(stack) - 1 /\ k + 2 \in 1..Len(stack) /\ k + 2 \in i..j
    BY <1>1, <1>2, <2>1, <2>4
  <2>6. Lazy(stack[k + 2])
    <3>1. Lazy(stack[(k + 1) + 1])
      BY <2>4, <2>5 DEF Nested
    <3> QED BY <2>1, <3>1
  <2>7. stack[k + 1].src \in Reads[stack[k].eff]
    <3>1. stack[k + 1].src \in Reads[stack[(k + 1) - 1].eff]
      BY <2>1, <2>4 DEF Nested
    <3> QED BY <2>1, <3>1
  <2>8. stack[k + 1].src = stack[k + 2].eff
    <3>1. stack[(k + 2) - 1].src = stack[k + 2].eff
      BY <2>5, <2>6 DEF Nested
    <3> QED BY <2>1, <3>1
  <2> QED BY <2>5, <2>6, <2>7, <2>8
<1> DEFINE D == {c \in Computeds : \E k \in i..j : Lazy(stack[k]) /\ stack[k].eff = c}
<1>3. i \in i..j /\ stack[i].eff \in D
  BY DEF Lazy
<1>4. ASSUME NEW c \in D PROVE Reads[c] \cap D # {}
  <2>1. PICK m \in i..j : Lazy(stack[m]) /\ stack[m].eff = c
    BY <1>4
  <2>2. \E k \in i..j : Lazy(stack[k]) /\ stack[k].eff = c /\ k # j
    BY <1>3, <2>1
  <2>3. PICK k \in i..j : Lazy(stack[k]) /\ stack[k].eff = c /\ k # j
    BY <2>2
  <2>4. k + 2 \in i..j /\ Lazy(stack[k + 2]) /\ stack[k + 2].eff \in Reads[c]
    BY <1>2, <2>3
  <2>5. stack[k + 2].eff \in D
    BY <2>4 DEF Lazy
  <2> QED BY <2>4, <2>5
<1> HIDE DEF D
<1>5. D \in SUBSET Computeds
  BY DEF D
<1> QED BY <1>3, <1>4, <1>5 DEF Acyclic

\* The same of every program whose computeds read each other in no circle, without a word
\* about its runs: no update is missed, whatever effects write, create, release, drain and
\* unmount while they run.
THEOREM NoMissedUpdateAcyclic ==
  ASSUME Acyclic
  PROVE  Spec => []NoMissedUpdate
<1>1. IInv /\ WInv => NoReentry
  BY AcyclicNests, Frames1 DEF WInv, Shape
<1>2. Init => WInv
  BY WatchStarts
<1>3. IInv /\ WInv /\ [Next]_vars => WInv'
  BY <1>1, WatchKept, WatchStutters
<1>4. IInv /\ WInv => NoMissedUpdate
  BY WatchMeans
<1>5. Spec => []IInv
  BY Inductive
<1> QED BY <1>2, <1>3, <1>4, <1>5, PTL DEF Spec
===============================================================================
