--------------------------- MODULE JobWorkerProofs --------------------------
(***************************************************************************)
(* Proofs about what the workers of one process do: the memory backend     *)
(* (JobMemory) for every number of jobs, queues and workers and every      *)
(* batch size, cap and number of dropped futures, and the periodic pass    *)
(* (JobPeriodic) for every number of workers, every schedule, clock,       *)
(* catch-up and number of crashes.                                         *)
(***************************************************************************)
EXTENDS JobMemory, JobPeriodic, SequenceTheorems, FiniteSetTheorems, WellFoundedInduction, TLAPS

-----------------------------------------------------------------------------
(* Queues of envelopes.                                                    *)

\* The jobs of a queue, and that no job is in it twice.
JobsIn(q) == {q[i].job : i \in DOMAIN q}
Single(q) == \A i, k \in DOMAIN q : q[i].job = q[k].job => i = k

\* An envelope is in a queue.
In(e, q) == \E i \in DOMAIN q : q[i] = e

LEMMA JobsOfIs == \A q : JobsOf(q) = JobsIn(q)
BY DEF JobsOf, ToSet, JobsIn

\* Positions of a queue.
LEMMA QueueFacts ==
  ASSUME NEW S, NEW q \in Seq(S)
  PROVE  Len(q) \in Nat /\ DOMAIN q = 1..Len(q) /\ \A i \in DOMAIN q : q[i] \in S
BY LenProperties, ElementOfSeq

\* A set of naturals has a least element.
LEMMA Least ==
  ASSUME NEW T, T \subseteq Nat, T # {}
  PROVE  \E x \in T : \A y \in T : ~ y < x
<1> DEFINE R == OpToRel(<, Nat)
<1>1. IsWellFoundedOn(R, Nat)
  BY NatLessThanWellFounded
<1>2. PICK x \in T : \A y \in T : ~ (<<y, x>> \in R)
  <2> HIDE DEF R
  <2> QED
    BY <1>1, WFMin
<1>3. \A y \in T : y < x => <<y, x>> \in R
  BY DEF OpToRel
<1> QED
  BY <1>2, <1>3

\* A set of positions has a k-th one, for each k up to their number.
LEMMA NthFacts ==
  ASSUME NEW n \in Nat, NEW at \in SUBSET (1..n), NEW k \in 1..Cardinality(at)
  PROVE  Nth(at, k) \in at /\ Cardinality({j \in at : j <= Nth(at, k)}) = k
<1> DEFINE Upto(m) == {j \in at : j <= m}
           T == {m \in Nat : k <= Cardinality(Upto(m))}
<1>1. IsFiniteSet(at) /\ Cardinality(at) \in Nat
  <2>1. IsFiniteSet(1..n)
    BY FS_Interval
  <2> QED
    BY <2>1, FS_Subset, FS_CardinalityType
<1>2. \A m : IsFiniteSet(Upto(m)) /\ Cardinality(Upto(m)) \in Nat
  <2>1. \A m : Upto(m) \subseteq at
    OBVIOUS
  <2> HIDE DEF Upto
  <2> QED
    BY <1>1, <2>1, FS_Subset, FS_CardinalityType
<1>15. \A j \in at : j \in Nat /\ 1 <= j /\ j <= n
  OBVIOUS
<1>3. Upto(n) = at
  BY <1>15
<1>4. n \in T
  BY <1>3
<1>5. PICK m \in T : \A y \in T : ~ y < m
  BY <1>4, Least
<1>6. Upto(0) = {}
  <2>1. \A j \in at : ~ j <= 0
    BY <1>15
  <2> QED
    BY <2>1
<1>7. m # 0
  BY <1>1, <1>6, FS_EmptySet
<1>8. m \in Nat /\ m - 1 \in Nat /\ m - 1 \notin T
  <2>1. m \in Nat
    OBVIOUS
  <2>2. m - 1 \in Nat /\ m - 1 < m
    BY <1>7, <2>1
  <2>3. m - 1 \notin T
    <3> HIDE DEF T
    <3> QED
      BY <1>5, <2>2
  <2> QED
    BY <2>1, <2>2, <2>3
<1>9. Cardinality(Upto(m - 1)) < k
  <2>1. ~ k <= Cardinality(Upto(m - 1))
    BY <1>8
  <2>2. k \in Nat /\ Cardinality(Upto(m - 1)) \in Nat
    <3>1. k \in Nat
      BY <1>1
    <3> HIDE DEF Upto
    <3> QED
      BY <1>2, <3>1
  <2> HIDE DEF Upto
  <2> QED
    BY <2>1, <2>2
<1>10. Upto(m) = IF m \in at THEN Upto(m - 1) \cup {m} ELSE Upto(m - 1)
  <2>1. \A x : x \in Upto(m) <=> x \in at /\ x <= m
    OBVIOUS
  <2>2. \A x : x \in Upto(m - 1) <=> x \in at /\ x <= m - 1
    OBVIOUS
  <2>3. \A x \in at : x <= m <=> x <= m - 1 \/ x = m
    BY <1>8, <1>15
  <2> HIDE DEF Upto
  <2> QED
    BY <2>1, <2>2, <2>3
<1>11. m \notin Upto(m - 1)
  BY <1>8
<1>12. Cardinality(Upto(m)) <= Cardinality(Upto(m - 1)) + 1 /\ (m \notin at => Upto(m) = Upto(m - 1))
  <2> HIDE DEF Upto, T
  <2>1. CASE m \in at
    <3>1. Cardinality(Upto(m - 1) \cup {m}) = Cardinality(Upto(m - 1)) + 1
      BY <1>2, <1>11, FS_AddElement
    <3> QED
      BY <1>2, <1>10, <2>1, <3>1
  <2>2. CASE m \notin at
    BY <1>2, <1>10, <2>2
  <2> QED
    BY <2>1, <2>2
<1>13. k <= Cardinality(Upto(m))
  OBVIOUS
<1>14. m \in at /\ Cardinality(Upto(m)) = k
  <2> HIDE DEF Upto, T
  <2> QED
    BY <1>1, <1>2, <1>9, <1>12, <1>13
<1> QED
  BY <1>14 DEF Nth

\* The items at some positions of a queue.
LEMMA AtFacts ==
  ASSUME NEW S, NEW q \in Seq(S), NEW at \in SUBSET (DOMAIN q)
  PROVE  /\ At(q, at) \in Seq(S) /\ DOMAIN At(q, at) = 1..Cardinality(at)
         /\ \A k \in DOMAIN At(q, at) : Nth(at, k) \in at /\ At(q, at)[k] = q[Nth(at, k)]
         /\ \A k, l \in DOMAIN At(q, at) : k # l => Nth(at, k) # Nth(at, l)
<1>1. Len(q) \in Nat /\ DOMAIN q = 1..Len(q) /\ \A i \in DOMAIN q : q[i] \in S
  BY LenProperties, ElementOfSeq
<1>2. \A k \in 1..Cardinality(at) : Nth(at, k) \in at /\ Cardinality({j \in at : j <= Nth(at, k)}) = k
  BY <1>1, NthFacts
<1>3. Cardinality(at) \in Nat
  <2>1. IsFiniteSet(1..Len(q))
    BY <1>1, FS_Interval
  <2> QED
    BY <1>1, <2>1, FS_Subset, FS_CardinalityType
<1>0. At(q, at) = [k \in 1..Cardinality(at) |-> q[Nth(at, k)]]
  BY DEF At
<1>4. At(q, at) \in [1..Cardinality(at) -> S]
  BY <1>0, <1>1, <1>2
<1>5. At(q, at) \in Seq(S)
  BY <1>3, <1>4, SeqDef
<1>6. \A k, l \in 1..Cardinality(at) : k # l => Nth(at, k) # Nth(at, l)
  BY <1>2
<1>7. DOMAIN At(q, at) = 1..Cardinality(at)
  BY <1>4
<1>8. \A k \in 1..Cardinality(at) : At(q, at)[k] = q[Nth(at, k)]
  BY <1>0
<1> QED
  BY <1>2, <1>5, <1>6, <1>7, <1>8

\* A queue that is made of the envelopes at some positions of another.
LEMMA AtJobs ==
  ASSUME NEW q \in Seq(Envelopes), Single(q), NEW I \in SUBSET (DOMAIN q), NEW p, p = At(q, I)
  PROVE  /\ p \in Seq(Envelopes) /\ Len(p) = Cardinality(I) /\ Single(p)
         /\ JobsIn(p) = {q[i].job : i \in I}
         /\ \A i \in I : In(q[i], p)
         /\ \A x : In(x, p) => \E i \in I : q[i] = x
<1>1. /\ p \in Seq(Envelopes) /\ DOMAIN p = 1..Cardinality(I)
      /\ \A k \in DOMAIN p : Nth(I, k) \in I /\ p[k] = q[Nth(I, k)]
      /\ \A k, l \in DOMAIN p : k # l => Nth(I, k) # Nth(I, l)
  BY AtFacts
<1>2. Cardinality(I) \in Nat /\ IsFiniteSet(I)
  <2>1. IsFiniteSet(DOMAIN q)
    BY QueueFacts, FS_Interval
  <2> QED
    BY <2>1, FS_Subset, FS_CardinalityType
<1>3. Len(p) = Cardinality(I)
  BY <1>1, <1>2, QueueFacts
<1>4. Single(p)
  BY <1>1 DEF Single
<1>5. \A i \in I : \E k \in DOMAIN p : Nth(I, k) = i
  <2> DEFINE f == [k \in 1..Cardinality(I) |-> Nth(I, k)]
             n == Cardinality(I)
  <2>1. f \in Injection(1..n, I)
    BY <1>1 DEF Injection, IsInjective
  <2>2. IsFiniteSet(1..n) /\ Cardinality(1..n) = n
    BY <1>2, FS_Interval
  <2>3. f \in Surjection(1..n, I)
    BY <1>2, <2>1, <2>2, FS_Injection
  <2>4. \A i \in I : \E k \in 1..n : f[k] = i
    BY <2>3 DEF Surjection
  <2> QED
    BY <1>1, <2>4
<1>6. JobsIn(p) = {q[i].job : i \in I}
  BY <1>1, <1>5 DEF JobsIn
<1>7. /\ \A i \in I : In(q[i], p)
      /\ \A x : In(x, p) => \E i \in I : q[i] = x
  BY <1>1, <1>5 DEF In
<1> QED
  BY <1>1, <1>3, <1>4, <1>6, <1>7

LEMMA AllJobs == ASSUME NEW q, NEW T, \A i \in DOMAIN q : q[i].job \in T PROVE JobsIn(q) \subseteq T
BY DEF JobsIn

\* What is appended ...
LEMMA AppendJobs ==
  ASSUME NEW q \in Seq(Envelopes), NEW e \in Envelopes, NEW p, p = Append(q, e)
  PROVE  /\ p \in Seq(Envelopes) /\ Len(p) = Len(q) + 1
         /\ JobsIn(p) = JobsIn(q) \cup {e.job}
         /\ Single(q) /\ e.job \notin JobsIn(q) => Single(p)
<1>1. /\ p \in Seq(Envelopes) /\ Len(p) = Len(q) + 1 /\ Len(q) \in Nat
      /\ \A i \in 1..Len(q) : p[i] = q[i]
      /\ p[Len(q) + 1] = e /\ DOMAIN p = 1..Len(q) + 1 /\ DOMAIN q = 1..Len(q)
  BY AppendProperties, QueueFacts
<1>2. \A i \in DOMAIN p : i \in DOMAIN q \/ i = Len(q) + 1
  BY <1>1
<1>3. Len(q) + 1 \in DOMAIN p /\ \A i \in DOMAIN q : i \in DOMAIN p
  BY <1>1
<1>4. JobsIn(p) = JobsIn(q) \cup {e.job}
  BY <1>1, <1>2, <1>3 DEF JobsIn
<1>5. ASSUME Single(q), e.job \notin JobsIn(q) PROVE Single(p)
  <2>1. \A i \in DOMAIN q : q[i].job # e.job
    BY <1>5 DEF JobsIn
  <2> QED
    BY <1>1, <1>2, <1>5, <2>1 DEF Single
<1> QED
  BY <1>1, <1>4, <1>5

\* ... what is put behind another queue ...
LEMMA ConcatJobs ==
  ASSUME NEW q \in Seq(Envelopes), NEW r \in Seq(Envelopes), NEW p, p = q \o r
  PROVE  /\ p \in Seq(Envelopes)
         /\ JobsIn(p) = JobsIn(q) \cup JobsIn(r)
         /\ Single(q) /\ Single(r) /\ JobsIn(q) \cap JobsIn(r) = {} => Single(p)
<1>1. /\ p \in Seq(Envelopes) /\ Len(p) = Len(q) + Len(r) /\ Len(q) \in Nat /\ Len(r) \in Nat
      /\ \A i \in 1..Len(q) + Len(r) : p[i] = IF i <= Len(q) THEN q[i] ELSE r[i - Len(q)]
      /\ DOMAIN p = 1..Len(q) + Len(r) /\ DOMAIN q = 1..Len(q) /\ DOMAIN r = 1..Len(r)
  BY ConcatProperties, QueueFacts
<1>2. \A i \in DOMAIN p : \/ i \in DOMAIN q /\ p[i] = q[i]
                          \/ i > Len(q) /\ i - Len(q) \in DOMAIN r /\ p[i] = r[i - Len(q)]
  BY <1>1
<1>3. /\ \A i \in DOMAIN q : i \in DOMAIN p /\ p[i] = q[i]
      /\ \A i \in DOMAIN r : i + Len(q) \in DOMAIN p /\ p[i + Len(q)] = r[i]
  BY <1>1
<1>4. JobsIn(p) = JobsIn(q) \cup JobsIn(r)
  <2>1. \A i \in DOMAIN p : p[i].job \in JobsIn(q) \cup JobsIn(r)
    BY <1>2 DEF JobsIn
  <2>2. \A i \in DOMAIN q : q[i].job \in JobsIn(p)
    BY <1>3 DEF JobsIn
  <2>3. \A i \in DOMAIN r : r[i].job \in JobsIn(p)
    <3> SUFFICES ASSUME NEW i \in DOMAIN r PROVE r[i].job \in JobsIn(p)
      OBVIOUS
    <3>1. i + Len(q) \in DOMAIN p /\ p[i + Len(q)].job = r[i].job
      BY <1>3
    <3> QED
      BY <3>1 DEF JobsIn
  <2> QED
    BY <2>1, <2>2, <2>3, AllJobs
<1>5. ASSUME Single(q), Single(r), JobsIn(q) \cap JobsIn(r) = {} PROVE Single(p)
  <2>1. \A i \in DOMAIN q, k \in DOMAIN r : q[i].job # r[k].job
    BY <1>5 DEF JobsIn
  <2> SUFFICES ASSUME NEW i \in DOMAIN p, NEW k \in DOMAIN p, p[i].job = p[k].job PROVE i = k
    BY DEF Single
  <2>2. CASE i \in DOMAIN q /\ p[i] = q[i] /\ k \in DOMAIN q /\ p[k] = q[k]
    BY <1>5, <2>2 DEF Single
  <2>3. CASE /\ i > Len(q) /\ i - Len(q) \in DOMAIN r /\ p[i] = r[i - Len(q)]
             /\ k > Len(q) /\ k - Len(q) \in DOMAIN r /\ p[k] = r[k - Len(q)]
    <3>1. i - Len(q) = k - Len(q)
      BY <1>5, <2>3 DEF Single
    <3>2. i \in Nat /\ k \in Nat
      BY <1>1
    <3> QED
      BY <1>1, <3>1, <3>2
  <2> QED
    BY <1>2, <2>1, <2>2, <2>3
<1> QED
  BY <1>1, <1>4, <1>5

\* ... and what is left of a queue without its head.
LEMMA TailJobs ==
  ASSUME NEW q \in Seq(Envelopes), q # <<>>, NEW p, p = Tail(q)
  PROVE  /\ p \in Seq(Envelopes) /\ Len(p) = Len(q) - 1 /\ Len(q) >= 1
         /\ Head(q) \in Envelopes /\ Head(q) = q[1] /\ 1 \in DOMAIN q
         /\ JobsIn(q) = JobsIn(p) \cup {Head(q).job}
         /\ Single(q) => Single(p) /\ Head(q).job \notin JobsIn(p)
<1>1. /\ p \in Seq(Envelopes) /\ Len(p) = Len(q) - 1 /\ Len(q) \in Nat /\ Len(q) >= 1
      /\ Head(q) \in Envelopes /\ Head(q) = q[1]
      /\ \A i \in 1..Len(p) : p[i] = q[i + 1]
      /\ DOMAIN p = 1..Len(q) - 1 /\ DOMAIN q = 1..Len(q)
  BY HeadTailProperties, QueueFacts, EmptySeq
<1>2. 1 \in DOMAIN q /\ \A i \in DOMAIN p : i + 1 \in DOMAIN q /\ p[i] = q[i + 1] /\ i + 1 # 1
  BY <1>1
<1>3. \A i \in DOMAIN q : i = 1 \/ (i - 1 \in DOMAIN p /\ q[i] = p[i - 1])
  BY <1>1
<1>4. JobsIn(q) = JobsIn(p) \cup {Head(q).job}
  <2>1. \A i \in DOMAIN q : q[i].job \in JobsIn(p) \cup {Head(q).job}
    BY <1>1, <1>3 DEF JobsIn
  <2>2. \A i \in DOMAIN p : p[i].job \in JobsIn(q)
    <3> SUFFICES ASSUME NEW i \in DOMAIN p PROVE p[i].job \in JobsIn(q)
      OBVIOUS
    <3>1. i + 1 \in DOMAIN q /\ q[i + 1].job = p[i].job
      BY <1>2
    <3> QED
      BY <3>1 DEF JobsIn
  <2>3. Head(q).job \in JobsIn(q)
    BY <1>1, <1>2 DEF JobsIn
  <2> QED
    BY <2>1, <2>2, <2>3, AllJobs
<1>5. ASSUME Single(q) PROVE Single(p) /\ Head(q).job \notin JobsIn(p)
  <2>1. \A i, k \in DOMAIN p : i + 1 = k + 1 => i = k
    BY <1>1
  <2>2. Single(p)
    BY <1>2, <1>5, <2>1 DEF Single
  <2>3. Head(q).job \notin JobsIn(p)
    BY <1>1, <1>2, <1>5 DEF Single, JobsIn
  <2> QED
    BY <2>2, <2>3
<1> QED
  BY <1>1, <1>2, <1>4, <1>5

LEMMA HeadJob ==
  ASSUME NEW q \in Seq(Envelopes), q # <<>> PROVE Head(q) \in Envelopes /\ Head(q).job \in JobsIn(q)
<1>1. \A p : p = Tail(q) => Head(q) \in Envelopes /\ JobsIn(q) = JobsIn(p) \cup {Head(q).job}
  BY TailJobs
<1> QED
  BY <1>1

\* Of a queue without doubles, two complementary sets of positions split the jobs.
LEMMA SplitJobs ==
  ASSUME NEW q \in Seq(Envelopes), Single(q), NEW I, I \subseteq DOMAIN q,
         NEW p, p = At(q, I), NEW r, r = At(q, DOMAIN q \ I)
  PROVE  /\ p \in Seq(Envelopes) /\ r \in Seq(Envelopes) /\ Single(p) /\ Single(r) /\ Len(p) = Cardinality(I)
         /\ \A j : j \in JobsIn(q) <=> j \in JobsIn(p) \/ j \in JobsIn(r)
         /\ \A j \in JobsIn(p) : j \notin JobsIn(r)
<1>0. I \in SUBSET (DOMAIN q)
  OBVIOUS
<1>1. /\ p \in Seq(Envelopes) /\ Len(p) = Cardinality(I) /\ Single(p) /\ JobsIn(p) = {q[i].job : i \in I}
  BY <1>0, AtJobs
<1>2. DOMAIN q \ I \in SUBSET (DOMAIN q)
  OBVIOUS
<1>3. /\ r \in Seq(Envelopes) /\ Single(r) /\ JobsIn(r) = {q[i].job : i \in DOMAIN q \ I}
  BY <1>2, AtJobs
<1>4. JobsIn(q) = JobsIn(p) \cup JobsIn(r)
  BY <1>1, <1>3 DEF JobsIn
<1>5. \A i \in I, k \in DOMAIN q \ I : q[i].job # q[k].job
  BY DEF Single
<1> QED
  BY <1>1, <1>3, <1>4, <1>5

\* A set of naturals that is bounded has a greatest element.
LEMMA Greatest ==
  ASSUME NEW n \in Nat, NEW T \in SUBSET (1..n), T # {}
  PROVE  \E x \in T : \A y \in T : y <= x
<1> DEFINE U == {n - x : x \in T}
<1>1. \A x \in T : x \in Nat /\ n - x \in Nat
  OBVIOUS
<1>2. U \subseteq Nat /\ U # {}
  BY <1>1
<1>3. PICK u \in U : \A v \in U : ~ v < u
  BY <1>2, Least
<1>4. PICK x \in T : u = n - x
  BY <1>3
<1>5. \A y \in T : ~ n - y < n - x
  BY <1>3, <1>4
<1>6. \A y \in T : y <= x
  BY <1>1, <1>5
<1> QED
  BY <1>6

\* The first n positions whose envelope is in S: no more than n, and whoever is one of
\* them has every earlier one with him.
LEMMA FirstFacts ==
  ASSUME NEW q \in Seq(Envelopes), NEW S, NEW n \in Nat, NEW F, F = FirstIn(q, S, n)
  PROVE  /\ F \in SUBSET (DOMAIN q) /\ Cardinality(F) <= n
         /\ \A i \in F : q[i] \in S
         /\ \A i \in F : \A k \in DOMAIN q : k < i /\ q[k] \in S => k \in F
<1> DEFINE hits == {i \in DOMAIN q : q[i] \in S}
           before(i) == {k \in hits : k < i}
<1>1. F = {i \in hits : Cardinality(before(i)) < n}
  BY DEF FirstIn
<1>2. Len(q) \in Nat /\ DOMAIN q = 1..Len(q) /\ IsFiniteSet(DOMAIN q)
  BY QueueFacts, FS_Interval
<1>3. IsFiniteSet(hits) /\ \A i : IsFiniteSet(before(i)) /\ Cardinality(before(i)) \in Nat
  <2>1. hits \subseteq DOMAIN q /\ \A i : before(i) \subseteq DOMAIN q
    OBVIOUS
  <2> HIDE DEF hits, before
  <2> QED
    BY <1>2, <2>1, FS_Subset, FS_CardinalityType
<1>4. ASSUME NEW i \in F, NEW k \in DOMAIN q, k < i, q[k] \in S PROVE k \in F
  <2>1. i \in Nat /\ k \in Nat /\ \A j \in hits : j \in Nat
    BY <1>1, <1>2
  <2>2. before(k) \subseteq before(i)
    BY <1>4, <2>1
  <2>3. Cardinality(before(k)) <= Cardinality(before(i)) /\ Cardinality(before(i)) < n
    <3> HIDE DEF hits, before
    <3> QED
      BY <1>1, <1>3, <2>2, FS_Subset
  <2>4. k \in hits
    BY <1>4
  <2> HIDE DEF hits, before
  <2> QED
    BY <1>1, <1>3, <2>3, <2>4
<1>5. Cardinality(F) <= n
  <2>1. CASE F = {}
    BY <2>1, FS_EmptySet
  <2>2. CASE F # {}
    <3>1. F \in SUBSET (1..Len(q))
      BY <1>1, <1>2
    <3>2. PICK m \in F : \A y \in F : y <= m
      BY <1>2, <2>2, <3>1, Greatest
    <3>3. F \subseteq before(m) \cup {m} /\ m \notin before(m)
      <4>1. \A y \in F : y \in hits /\ y \in Nat
        BY <1>1, <1>2
      <4>2. \A y \in F : y < m \/ y = m
        BY <3>2, <4>1
      <4> QED
        BY <4>1, <4>2
    <3>4. Cardinality(before(m)) < n
      BY <1>1
    <3> HIDE DEF hits, before
    <3>5. /\ IsFiniteSet(before(m) \cup {m})
          /\ Cardinality(before(m) \cup {m}) = Cardinality(before(m)) + 1
      BY <1>3, <3>3, FS_AddElement
    <3>6. Cardinality(F) <= Cardinality(before(m) \cup {m})
      BY <3>3, <3>5, FS_Subset
    <3>7. Cardinality(F) \in Nat
      BY <3>3, <3>5, FS_Subset, FS_CardinalityType
    <3> QED
      BY <1>3, <3>4, <3>5, <3>6, <3>7
  <2> QED
    BY <2>1, <2>2
<1> QED
  BY <1>1, <1>4, <1>5

\* A queue without doubles has as many jobs as envelopes.
LEMMA DistinctIs ==
  ASSUME NEW q \in Seq(Envelopes), Single(q)
  PROVE  Distinct(q)
<1> DEFINE f == [i \in 1..Len(q) |-> q[i].job]
<1>1. Len(q) \in Nat /\ DOMAIN q = 1..Len(q)
  BY QueueFacts
<1>2. f \in Bijection(1..Len(q), JobsIn(q))
  BY <1>1 DEF Single, JobsIn, Bijection, Injection, Surjection, IsInjective
<1>3. IsFiniteSet(1..Len(q)) /\ Cardinality(1..Len(q)) = Len(q)
  BY <1>1, FS_Interval
<1>4. Cardinality(JobsIn(q)) = Len(q)
  <2> HIDE DEF f
  <2>1. ExistsBijection(1..Len(q), JobsIn(q))
    BY <1>2 DEF ExistsBijection
  <2> QED
    BY <1>3, <2>1, FS_Bijection
<1> QED
  BY <1>4, JobsOfIs DEF Distinct

-----------------------------------------------------------------------------
(* The invariant.                                                          *)

Stored ==
  /\ ready \in Seq(Envelopes) /\ scheduled \in Seq(Envelopes) /\ dead \in Seq(Envelopes) /\ graves \in Seq(Envelopes)
  /\ due \subseteq Envelopes
  /\ step \in [Workers -> {"idle", "promoted", "running"}]
  /\ batch \in [Workers -> Seq(Envelopes)]
  /\ running \in [Workers -> {"no", "pending", "ok", "err"}]
  /\ submitted \subseteq Jobs /\ done \subseteq Jobs /\ dropped \subseteq Jobs
  /\ drained \in Nat /\ cancels \in 0 .. MaxCancels

LEMMA StoredIs == Stored <=> TypeOK
BY DEF Stored, TypeOK, Envelopes, Envelopes

\* A worker that runs envelopes has one at the head of its batch, and no other has any.
Passing ==
  \A w \in Workers :
    /\ step[w] = "running" <=> batch[w] # <<>>
    /\ running[w] # "no" => step[w] = "running"
    /\ Len(batch[w]) <= BatchSize

\* No queue holds a job twice, no job is in two places, and the submitted jobs are those
\* in some place, the dropped included.
Lone ==
  /\ Single(ready) /\ Single(scheduled) /\ Single(graves)
  /\ \A w \in Workers : Single(batch[w])
Parted ==
  /\ \A w, v \in Workers : \A j \in JobsIn(batch[w]) : j \in JobsIn(batch[v]) => w = v
  /\ \A w \in Workers : \A j \in JobsIn(batch[w]) :
       /\ j \notin JobsIn(ready) /\ j \notin JobsIn(scheduled)
       /\ j \notin done /\ j \notin JobsIn(graves) /\ j \notin dropped
  /\ \A j \in JobsIn(ready) : j \notin JobsIn(scheduled)
  /\ \A j \in JobsIn(ready) \cup JobsIn(scheduled) :
       j \notin done /\ j \notin JobsIn(graves) /\ j \notin dropped
  /\ \A j \in done : j \notin JobsIn(graves) /\ j \notin dropped
  /\ \A j \in dropped : j \notin JobsIn(graves)
Accounted ==
  \A j : j \in submitted <=> \/ j \in JobsIn(ready) \/ j \in JobsIn(scheduled)
                             \/ \E w \in Workers : j \in JobsIn(batch[w])
                             \/ j \in done \/ j \in JobsIn(graves) \/ j \in dropped
Custody == Lone /\ Parted /\ Accounted

\* A dropped future loses a batch at most.
Losses == IsFiniteSet(dropped) /\ Cardinality(dropped) <= cancels * BatchSize

MemoryInv == Stored /\ Passing /\ Custody /\ Losses /\ KeepsNewest

-----------------------------------------------------------------------------
(* Types and passes.                                                       *)

\* The loop over a batch goes on, or its pass ends.
LEMMA AdvanceFacts ==
  ASSUME Stored, Passing, NEW w \in Workers, step[w] = "running", Advance(w)
  PROVE  /\ batch' \in [Workers -> Seq(Envelopes)] /\ step' \in [Workers -> {"idle", "promoted", "running"}]
         /\ running' \in [Workers -> {"no", "pending", "ok", "err"}]
         /\ \A u \in Workers : batch'[u] = IF u = w THEN Tail(batch[w]) ELSE batch[u]
         /\ batch[w] \in Seq(Envelopes) /\ batch[w] # <<>> /\ Head(batch[w]) \in Envelopes
         /\ Passing'
<1>1. batch[w] \in Seq(Envelopes) /\ batch[w] # <<>>
  BY DEF Stored, Passing
<1> DEFINE t == Tail(batch[w])
<1>2. t \in Seq(Envelopes) /\ Len(t) = Len(batch[w]) - 1 /\ Head(batch[w]) \in Envelopes /\ Len(batch[w]) >= 1
  BY <1>1, TailJobs
<1>3. Len(t) \in Nat /\ Len(batch[w]) \in Nat
  BY <1>1, <1>2, LenProperties
<1> HIDE DEF t
<1>4. t = <<>> <=> Len(batch[w]) = 1
  <2>1. t = <<>> => Len(t) = 0
    BY EmptySeq
  <2>2. t # <<>> => Len(t) # 0
    BY <1>2, EmptySeq
  <2> QED
    BY <1>2, <1>3, <2>1, <2>2
<1>5. /\ batch' = [batch EXCEPT ![w] = t]
      /\ running' = [running EXCEPT ![w] = "no"]
      /\ step' = [step EXCEPT ![w] = IF Len(batch[w]) = 1 THEN "idle" ELSE "running"]
  BY DEF Advance, t
<1>6. /\ \A u \in Workers : batch'[u] = IF u = w THEN t ELSE batch[u]
      /\ \A u \in Workers : running'[u] = IF u = w THEN "no" ELSE running[u]
      /\ \A u \in Workers : step'[u] = IF u = w THEN IF Len(batch[w]) = 1 THEN "idle" ELSE "running" ELSE step[u]
  BY <1>5 DEF Stored
<1>7. /\ batch' \in [Workers -> Seq(Envelopes)] /\ step' \in [Workers -> {"idle", "promoted", "running"}]
      /\ running' \in [Workers -> {"no", "pending", "ok", "err"}]
  BY <1>2, <1>5 DEF Stored
<1>8. Len(batch[w]) <= BatchSize /\ BatchSize \in Nat
  BY MemoryAssumption DEF Passing
<1>9. Len(t) <= BatchSize
  BY <1>2, <1>3, <1>8
<1>10. Passing'
  BY <1>4, <1>6, <1>9 DEF Passing
<1> QED
  BY <1>1, <1>2, <1>6, <1>7, <1>10 DEF t

\* A dead record is a record.
LEMMA DeadFacts ==
  ASSUME Stored, NEW e \in Envelopes, MoveToDead(e)
  PROVE  dead' \in Seq(Envelopes) /\ graves' = Append(graves, e) /\ graves' \in Seq(Envelopes)
<1>1. Append(dead, e) \in Seq(Envelopes) /\ Append(dead, e) # <<>> /\ Append(graves, e) \in Seq(Envelopes)
  <2>1. dead \in Seq(Envelopes) /\ graves \in Seq(Envelopes)
    BY DEF Stored
  <2> QED
    BY <2>1, AppendProperties
<1>2. Tail(Append(dead, e)) \in Seq(Envelopes)
  BY <1>1, HeadTailProperties
<1> QED
  BY <1>1, <1>2 DEF MoveToDead

LEMMA NewEnvs == ASSUME NEW j \in Jobs PROVE NewEnvelope(j) \in Envelopes /\ NewEnvelope(j).job = j
BY DEF NewEnvelope, Envelopes

\* An envelope that is retried.
LEMMA NextEnvs ==
  ASSUME NEW e \in Envelopes, NEW f, f = [e EXCEPT !.attempt = @ + 1]
  PROVE  f \in Envelopes /\ f.job = e.job /\ f.attempt = e.attempt + 1
BY DEF Envelopes

\* What moves to the ready queue, and what a worker takes from it.
LEMMA PromoteFacts ==
  ASSUME MemoryInv, NEW w \in Workers, Promote(w)
  PROVE  \E I \in SUBSET (DOMAIN scheduled) :
           /\ ready' = ready \o At(scheduled, I)
           /\ scheduled' = At(scheduled, DOMAIN scheduled \ I)
           /\ ready' \in Seq(Envelopes) /\ scheduled' \in Seq(Envelopes) /\ due' \subseteq Envelopes
<1> DEFINE I == FirstIn(scheduled, due, MaxPromote)
           J == DOMAIN scheduled \ I
<1>1. /\ ready' = ready \o At(scheduled, I) /\ scheduled' = At(scheduled, J)
      /\ due' \subseteq due
  BY DEF Promote
<1>2. scheduled \in Seq(Envelopes) /\ ready \in Seq(Envelopes) /\ Single(scheduled) /\ MaxPromote \in Nat /\ due \subseteq Envelopes
  BY MemoryAssumption DEF MemoryInv, Stored, Custody, Lone
<1>3. I \in SUBSET (DOMAIN scheduled)
  BY <1>2, FirstFacts
<1> HIDE DEF I
<1>4. At(scheduled, I) \in Seq(Envelopes) /\ At(scheduled, J) \in Seq(Envelopes)
  <2>1. I \in SUBSET (DOMAIN scheduled) /\ J \in SUBSET (DOMAIN scheduled)
    BY <1>2, <1>3
  <2> HIDE DEF J
  <2>2. \A X \in SUBSET (DOMAIN scheduled) : \A p : p = At(scheduled, X) => p \in Seq(Envelopes) /\ Len(p) = Cardinality(X)
    BY <1>2, AtJobs
  <2> QED
    BY <2>1, <2>2
<1>5. ready \o At(scheduled, I) \in Seq(Envelopes)
  BY <1>2, <1>4, ConcatProperties
<1> QED
  BY <1>1, <1>2, <1>3, <1>4, <1>5

LEMMA PopFacts ==
  ASSUME MemoryInv, NEW w \in Workers, Pop(w)
  PROVE  \E I \in SUBSET (DOMAIN ready) :
           /\ batch' = [batch EXCEPT ![w] = At(ready, I)]
           /\ ready' = At(ready, DOMAIN ready \ I)
           /\ step' = [step EXCEPT ![w] = IF I = {} THEN "idle" ELSE "running"]
           /\ ready' \in Seq(Envelopes) /\ At(ready, I) \in Seq(Envelopes)
           /\ (At(ready, I) = <<>> <=> I = {}) /\ Len(At(ready, I)) <= BatchSize
           /\ \A i \in I : QueueOf[ready[i].job] \in Serves[w]
           /\ \A i \in I : \A k \in DOMAIN ready : k < i /\ QueueOf[ready[k].job] \in Serves[w] => k \in I
<1> DEFINE allowed == {env \in ToSet(ready) : QueueOf[env.job] \in Serves[w]}
           I == FirstIn(ready, allowed, BatchSize)
           J == DOMAIN ready \ I
           b == At(ready, I)
<1>1. /\ batch' = [batch EXCEPT ![w] = b] /\ ready' = At(ready, J)
      /\ step' = [step EXCEPT ![w] = IF I = {} THEN "idle" ELSE "running"]
  BY DEF Pop
<1>2. ready \in Seq(Envelopes) /\ Single(ready) /\ BatchSize \in Nat
  BY MemoryAssumption DEF MemoryInv, Stored, Custody, Lone
<1>3. \A k \in DOMAIN ready : ready[k] \in allowed <=> QueueOf[ready[k].job] \in Serves[w]
  BY DEF ToSet
<1> HIDE DEF allowed
<1>4. /\ I \in SUBSET (DOMAIN ready) /\ Cardinality(I) <= BatchSize
      /\ \A i \in I : ready[i] \in allowed
      /\ \A i \in I : \A k \in DOMAIN ready : k < i /\ ready[k] \in allowed => k \in I
  BY <1>2, FirstFacts
<1> HIDE DEF I
<1>5. b \in Seq(Envelopes) /\ At(ready, J) \in Seq(Envelopes) /\ Len(b) = Cardinality(I)
  <2>1. I \in SUBSET (DOMAIN ready) /\ J \in SUBSET (DOMAIN ready)
    BY <1>2, <1>4
  <2> HIDE DEF J
  <2>2. \A X \in SUBSET (DOMAIN ready) : \A p : p = At(ready, X) => p \in Seq(Envelopes) /\ Len(p) = Cardinality(X)
    BY <1>2, AtJobs
  <2> QED
    BY <2>1, <2>2
<1>6. IsFiniteSet(I)
  <2>1. IsFiniteSet(DOMAIN ready)
    BY <1>2, QueueFacts, FS_Interval
  <2> QED
    BY <1>4, <2>1, FS_Subset
<1>7. b = <<>> <=> I = {}
  <2>1. b = <<>> => Len(b) = 0
    BY EmptySeq
  <2>2. b # <<>> => Len(b) # 0
    BY <1>5, EmptySeq
  <2>3. Cardinality(I) = 0 <=> I = {}
    BY <1>6, FS_EmptySet
  <2> QED
    BY <1>5, <2>1, <2>2, <2>3
<1> QED
  BY <1>1, <1>3, <1>4, <1>5, <1>7

\* Whoever leaves batches and passes alone.
LEMMA IdleTypes ==
  ASSUME Passing, UNCHANGED <<step, batch, running>> PROVE Passing'
BY DEF Passing

\* Every step keeps the types and the order of a pass.
LEMMA PassKept ==
  ASSUME MemoryInv, [Next]_vars
  PROVE  Stored' /\ Passing'
<1>1. Stored /\ Passing
  BY DEF MemoryInv
<1>2. ASSUME NEW j \in Jobs, Enqueue(j) \/ Schedule(j) PROVE Stored' /\ Passing'
  <2>1. /\ Append(ready, NewEnvelope(j)) \in Seq(Envelopes)
        /\ Append(scheduled, NewEnvelope(j)) \in Seq(Envelopes)
    BY <1>1, NewEnvs, AppendProperties DEF Stored
  <2>2. Passing'
    BY <1>1, <1>2, IdleTypes DEF Enqueue, Schedule, work
  <2>3. Stored'
    BY <1>1, <1>2, <2>1 DEF Enqueue, Schedule, work, Stored
  <2> QED
    BY <2>2, <2>3
<1>3. ASSUME BecomeDue PROVE Stored' /\ Passing'
  <2>1. PICK env \in ToSet(scheduled) \ due : due' = due \cup {env}
    BY <1>3 DEF BecomeDue
  <2>2. env \in Envelopes
    BY <1>1, <2>1, QueueFacts DEF ToSet, Stored
  <2>3. UNCHANGED <<ready, scheduled, dead, step, batch, running, submitted, done, graves, drained, dropped, cancels>>
    BY <1>3 DEF BecomeDue, store, work, hist
  <2>4. due' \subseteq Envelopes
    BY <1>1, <2>1, <2>2 DEF Stored
  <2> QED
    BY <1>1, <2>3, <2>4, IdleTypes DEF Stored
<1>4. ASSUME Drain PROVE Stored' /\ Passing'
  <2>1. dead' = <<>> /\ drained' \in Nat /\ <<>> \in Seq(Envelopes)
    BY <1>1, <1>4, LenProperties, EmptySeq DEF Drain, Stored
  <2>2. UNCHANGED <<ready, scheduled, due, step, batch, running, submitted, done, graves, dropped, cancels>>
    BY <1>4 DEF Drain, work
  <2> QED
    BY <1>1, <2>1, <2>2, IdleTypes DEF Stored
<1>5. ASSUME NEW w \in Workers, Promote(w) PROVE Stored' /\ Passing'
  <2>1. /\ step[w] = "idle" /\ step' = [step EXCEPT ![w] = "promoted"]
        /\ UNCHANGED <<dead, batch, running, submitted, done, graves, drained, dropped, cancels>>
    BY <1>5 DEF Promote, hist
  <2>2. ready' \in Seq(Envelopes) /\ scheduled' \in Seq(Envelopes) /\ due' \subseteq Envelopes
    BY <1>5, PromoteFacts
  <2>3. Stored'
    BY <1>1, <2>1, <2>2 DEF Stored
  <2>4. \A u \in Workers : step'[u] = IF u = w THEN "promoted" ELSE step[u]
    BY <1>1, <2>1 DEF Stored
  <2>5. Passing'
    BY <1>1, <2>1, <2>4 DEF Passing
  <2> QED
    BY <2>3, <2>5
<1>6. ASSUME NEW w \in Workers, Pop(w) PROVE Stored' /\ Passing'
  <2>1. /\ step[w] = "promoted"
        /\ UNCHANGED <<scheduled, dead, due, running, submitted, done, graves, drained, dropped, cancels>>
    BY <1>6 DEF Pop, hist
  <2>2. PICK I \in SUBSET (DOMAIN ready) :
           /\ batch' = [batch EXCEPT ![w] = At(ready, I)]
           /\ step' = [step EXCEPT ![w] = IF I = {} THEN "idle" ELSE "running"]
           /\ ready' \in Seq(Envelopes) /\ At(ready, I) \in Seq(Envelopes)
           /\ (At(ready, I) = <<>> <=> I = {}) /\ Len(At(ready, I)) <= BatchSize
    BY <1>6, PopFacts
  <2>3. Stored'
    BY <1>1, <2>1, <2>2 DEF Stored
  <2>4. \A u \in Workers : /\ step'[u] = IF u = w THEN IF I = {} THEN "idle" ELSE "running" ELSE step[u]
                           /\ batch'[u] = IF u = w THEN At(ready, I) ELSE batch[u]
    BY <1>1, <2>2 DEF Stored
  <2>5. Passing'
    BY <1>1, <2>1, <2>2, <2>4 DEF Passing
  <2> QED
    BY <2>3, <2>5
<1>7. ASSUME NEW w \in Workers, Start(w) \/ HandlerReturns(w) PROVE Stored' /\ Passing'
  <2>1. /\ step[w] = "running" /\ \E x \in {"pending", "ok", "err"} : running' = [running EXCEPT ![w] = x]
        /\ UNCHANGED <<ready, scheduled, dead, due, step, batch, submitted, done, graves, drained, dropped, cancels>>
    BY <1>7 DEF Start, HandlerReturns, Turn, store, hist
  <2>2. Stored'
    BY <1>1, <2>1 DEF Stored
  <2>3. \A u \in Workers : u # w => running'[u] = running[u]
    BY <1>1, <2>1 DEF Stored
  <2>4. Passing'
    BY <1>1, <2>1, <2>3 DEF Passing
  <2> QED
    BY <2>2, <2>4
<1>8. ASSUME NEW w \in Workers, Complete(w) \/ Retry(w) \/ Bury(w) \/ BuryUnknown(w)
      PROVE  Stored' /\ Passing'
  <2>1. step[w] = "running" /\ Advance(w)
    BY <1>8 DEF Complete, Retry, Bury, BuryUnknown, Turn
  <2>2. /\ batch' \in [Workers -> Seq(Envelopes)] /\ step' \in [Workers -> {"idle", "promoted", "running"}]
        /\ running' \in [Workers -> {"no", "pending", "ok", "err"}]
        /\ Head(batch[w]) \in Envelopes /\ Passing'
    BY <1>1, <2>1, AdvanceFacts
  <2>3. CASE Complete(w)
    <3>1. Head(batch[w]).job \in Jobs
      BY <2>2 DEF Envelopes
    <3>2. done' = done \cup {Head(batch[w]).job}
          /\ UNCHANGED <<ready, scheduled, dead, due, submitted, graves, drained, dropped, cancels>>
      BY <2>3 DEF Complete, store
    <3> QED
      BY <1>1, <2>2, <3>1, <3>2 DEF Stored
  <2>4. CASE Retry(w)
    <3>1. /\ scheduled' = Append(scheduled, [Head(batch[w]) EXCEPT !.attempt = @ + 1])
          /\ UNCHANGED <<ready, dead, due, submitted, done, graves, drained, dropped, cancels>>
      BY <2>4 DEF Retry, hist
    <3>2. scheduled' \in Seq(Envelopes)
      BY <1>1, <2>2, <3>1, NextEnvs, AppendProperties DEF Stored
    <3> QED
      BY <1>1, <2>2, <3>1, <3>2 DEF Stored
  <2>5. CASE Bury(w) \/ BuryUnknown(w)
    <3>1. /\ MoveToDead(Head(batch[w]))
          /\ UNCHANGED <<ready, scheduled, due, submitted, done, drained, dropped, cancels>>
      BY <2>5 DEF Bury, BuryUnknown
    <3>2. dead' \in Seq(Envelopes) /\ graves' \in Seq(Envelopes)
      BY <1>1, <2>2, <3>1, DeadFacts
    <3> QED
      BY <1>1, <2>2, <3>1, <3>2 DEF Stored
  <2> QED
    BY <1>8, <2>3, <2>4, <2>5
<1>9. ASSUME NEW w \in Workers, Cancel(w) PROVE Stored' /\ Passing'
  <2>1. /\ cancels < MaxCancels /\ cancels' = cancels + 1
        /\ dropped' = dropped \cup {env.job : env \in ToSet(batch[w])}
        /\ batch' = [batch EXCEPT ![w] = <<>>] /\ running' = [running EXCEPT ![w] = "no"]
        /\ step' = [step EXCEPT ![w] = "idle"]
        /\ UNCHANGED <<ready, scheduled, dead, due, submitted, done, graves, drained>>
    BY <1>9 DEF Cancel, store
  <2>2. {env.job : env \in ToSet(batch[w])} \subseteq Jobs
    <3>1. batch[w] \in Seq(Envelopes)
      BY <1>1 DEF Stored
    <3>2. \A env \in ToSet(batch[w]) : env \in Envelopes
      BY <3>1, QueueFacts DEF ToSet
    <3> QED
      BY <3>2 DEF Envelopes
  <2>3. MaxCancels \in Nat
    BY MemoryAssumption
  <2>4. cancels' \in 0 .. MaxCancels
    BY <1>1, <2>1, <2>3 DEF Stored
  <2>5. <<>> \in Seq(Envelopes) /\ Len(<<>>) = 0 /\ BatchSize \in Nat
    BY EmptySeq, MemoryAssumption
  <2>6. Stored'
    BY <1>1, <2>1, <2>2, <2>4, <2>5 DEF Stored
  <2>7. \A u \in Workers : /\ step'[u] = IF u = w THEN "idle" ELSE step[u]
                           /\ batch'[u] = IF u = w THEN <<>> ELSE batch[u]
                           /\ running'[u] = IF u = w THEN "no" ELSE running[u]
    BY <1>1, <2>1 DEF Stored
  <2>8. Passing'
    BY <1>1, <2>5, <2>7 DEF Passing
  <2> QED
    BY <2>6, <2>8
<1>10. CASE UNCHANGED vars
  BY <1>1, <1>10, IdleTypes DEF Stored, vars, store, work, hist
<1> QED
  BY <1>2, <1>3, <1>4, <1>5, <1>6, <1>7, <1>8, <1>9, <1>10 DEF Next, Work

-----------------------------------------------------------------------------
(* Custody.                                                                *)

\* A new job is in no place yet.
LEMMA NewJob ==
  ASSUME Custody, NEW j, j \notin submitted
  PROVE  /\ j \notin JobsIn(ready) /\ j \notin JobsIn(scheduled) /\ j \notin done
         /\ j \notin JobsIn(graves) /\ j \notin dropped
         /\ \A w \in Workers : j \notin JobsIn(batch[w])
BY DEF Custody, Accounted

LEMMA EnqueueCustody ==
  ASSUME MemoryInv, NEW j \in Jobs, Enqueue(j) PROVE Custody'
<1>1. /\ j \notin submitted /\ submitted' = submitted \cup {j}
      /\ ready' = Append(ready, NewEnvelope(j))
      /\ UNCHANGED <<scheduled, batch, done, graves, dropped>>
  BY DEF Enqueue, work
<1>2. Custody /\ ready \in Seq(Envelopes)
  BY DEF MemoryInv, Stored
<1>3. /\ JobsIn(ready') = JobsIn(ready) \cup {j}
      /\ (Single(ready) /\ j \notin JobsIn(ready)) => Single(ready')
  <2>1. NewEnvelope(j) \in Envelopes /\ NewEnvelope(j).job = j
    BY NewEnvs
  <2>2. \A e \in Envelopes : \A p : p = Append(ready, e) =>
          /\ JobsIn(p) = JobsIn(ready) \cup {e.job}
          /\ (Single(ready) /\ e.job \notin JobsIn(ready)) => Single(p)
    BY <1>2, AppendJobs
  <2> QED
    BY <1>1, <2>1, <2>2
<1>4. Lone'
  BY <1>1, <1>2, <1>3, NewJob DEF Custody, Lone
<1>5. Parted'
  BY <1>1, <1>2, <1>3, NewJob DEF Custody, Parted
<1>6. Accounted'
  BY <1>1, <1>2, <1>3 DEF Custody, Accounted
<1> QED
  BY <1>4, <1>5, <1>6 DEF Custody

LEMMA ScheduleCustody ==
  ASSUME MemoryInv, NEW j \in Jobs, Schedule(j) PROVE Custody'
<1>1. /\ j \notin submitted /\ submitted' = submitted \cup {j}
      /\ scheduled' = Append(scheduled, NewEnvelope(j))
      /\ UNCHANGED <<ready, batch, done, graves, dropped>>
  BY DEF Schedule, work
<1>2. Custody /\ scheduled \in Seq(Envelopes)
  BY DEF MemoryInv, Stored
<1>3. /\ JobsIn(scheduled') = JobsIn(scheduled) \cup {j}
      /\ (Single(scheduled) /\ j \notin JobsIn(scheduled)) => Single(scheduled')
  <2>1. NewEnvelope(j) \in Envelopes /\ NewEnvelope(j).job = j
    BY NewEnvs
  <2>2. \A e \in Envelopes : \A p : p = Append(scheduled, e) =>
          /\ JobsIn(p) = JobsIn(scheduled) \cup {e.job}
          /\ (Single(scheduled) /\ e.job \notin JobsIn(scheduled)) => Single(p)
    BY <1>2, AppendJobs
  <2> QED
    BY <1>1, <2>1, <2>2
<1>4. Lone'
  BY <1>1, <1>2, <1>3, NewJob DEF Custody, Lone
<1>5. Parted'
  BY <1>1, <1>2, <1>3, NewJob DEF Custody, Parted
<1>6. Accounted'
  BY <1>1, <1>2, <1>3 DEF Custody, Accounted
<1> QED
  BY <1>4, <1>5, <1>6 DEF Custody

\* Envelopes move from the scheduled list to the ready queue ...
LEMMA PromoteCustody ==
  ASSUME MemoryInv, NEW w \in Workers, Promote(w) PROVE Custody'
<1>1. UNCHANGED <<batch, submitted, done, graves, dropped>>
  BY DEF Promote, hist
<1>2. PICK I \in SUBSET (DOMAIN scheduled) :
        ready' = ready \o At(scheduled, I) /\ scheduled' = At(scheduled, DOMAIN scheduled \ I)
  BY PromoteFacts
<1>3. Custody /\ ready \in Seq(Envelopes) /\ scheduled \in Seq(Envelopes) /\ Single(ready) /\ Single(scheduled)
  BY DEF MemoryInv, Stored, Custody, Lone
<1> DEFINE m == At(scheduled, I)
<1>4. /\ m \in Seq(Envelopes) /\ Single(m) /\ Single(scheduled')
      /\ \A j : j \in JobsIn(scheduled) <=> j \in JobsIn(m) \/ j \in JobsIn(scheduled')
      /\ \A j \in JobsIn(m) : j \notin JobsIn(scheduled')
  <2>0. I \subseteq DOMAIN scheduled
    BY <1>2
  <2>1. \A p, r : p = At(scheduled, I) /\ r = At(scheduled, DOMAIN scheduled \ I) =>
          /\ p \in Seq(Envelopes) /\ Single(p) /\ Single(r)
          /\ \A j : j \in JobsIn(scheduled) <=> j \in JobsIn(p) \/ j \in JobsIn(r)
          /\ \A j \in JobsIn(p) : j \notin JobsIn(r)
    BY <1>3, <2>0, SplitJobs
  <2> QED
    BY <1>2, <2>1
<1>5. JobsIn(ready) \cap JobsIn(m) = {}
  BY <1>3, <1>4 DEF Custody, Parted
<1>6. Single(ready') /\ JobsIn(ready') = JobsIn(ready) \cup JobsIn(m)
  BY <1>2, <1>3, <1>4, <1>5, ConcatJobs
<1> HIDE DEF m
<1>7. Lone'
  BY <1>1, <1>3, <1>4, <1>6 DEF Custody, Lone
<1>8. Parted'
  BY <1>1, <1>3, <1>4, <1>5, <1>6 DEF Custody, Parted
<1>9. Accounted'
  BY <1>1, <1>3, <1>4, <1>6 DEF Custody, Accounted
<1> QED
  BY <1>7, <1>8, <1>9 DEF Custody

\* ... from there to a worker ...
LEMMA PopCustody ==
  ASSUME MemoryInv, NEW w \in Workers, Pop(w) PROVE Custody'
<1>1. UNCHANGED <<scheduled, submitted, done, graves, dropped>> /\ step[w] = "promoted"
  BY DEF Pop, hist
<1>2. PICK I \in SUBSET (DOMAIN ready) :
        /\ batch' = [batch EXCEPT ![w] = At(ready, I)]
        /\ ready' = At(ready, DOMAIN ready \ I)
  BY PopFacts
<1>3. Custody /\ ready \in Seq(Envelopes) /\ Single(ready) /\ batch \in [Workers -> Seq(Envelopes)] /\ Passing
  BY DEF MemoryInv, Stored, Custody, Lone
<1> DEFINE m == At(ready, I)
<1>4. /\ m \in Seq(Envelopes) /\ Single(m) /\ Single(ready')
      /\ \A j : j \in JobsIn(ready) <=> j \in JobsIn(m) \/ j \in JobsIn(ready')
      /\ \A j \in JobsIn(m) : j \notin JobsIn(ready')
  <2>0. I \subseteq DOMAIN ready
    BY <1>2
  <2>1. \A p, r : p = At(ready, I) /\ r = At(ready, DOMAIN ready \ I) =>
          /\ p \in Seq(Envelopes) /\ Single(p) /\ Single(r)
          /\ \A j : j \in JobsIn(ready) <=> j \in JobsIn(p) \/ j \in JobsIn(r)
          /\ \A j \in JobsIn(p) : j \notin JobsIn(r)
    BY <1>3, <2>0, SplitJobs
  <2> QED
    BY <1>2, <2>1
<1>5. batch[w] = <<>> /\ JobsIn(batch[w]) = {}
  BY <1>1, <1>3 DEF Passing, JobsIn
<1>6. \A u \in Workers : batch'[u] = IF u = w THEN m ELSE batch[u]
  BY <1>2, <1>3
<1> HIDE DEF m
<1>7. Lone'
  BY <1>1, <1>3, <1>4, <1>6 DEF Custody, Lone
<1>8. Parted'
  BY <1>1, <1>3, <1>4, <1>6 DEF Custody, Parted
<1>9. \A j : (\E u \in Workers : j \in JobsIn(batch'[u])) <=> j \in JobsIn(m) \/ \E u \in Workers : j \in JobsIn(batch[u])
  BY <1>5, <1>6
<1>10. Accounted'
  BY <1>1, <1>3, <1>4, <1>9 DEF Custody, Accounted
<1> QED
  BY <1>7, <1>8, <1>10 DEF Custody

\* ... and from the head of its batch to one other place.
LEMMA HeadGoes ==
  ASSUME MemoryInv, NEW w \in Workers, step[w] = "running", Advance(w),
         NEW h, h = Head(batch[w]).job, UNCHANGED <<ready, submitted, dropped>>,
         JobsIn(scheduled) \subseteq JobsIn(scheduled') /\ done \subseteq done' /\ JobsIn(graves) \subseteq JobsIn(graves'),
         \/ JobsIn(scheduled') = JobsIn(scheduled) \cup {h} /\ done' = done /\ JobsIn(graves') = JobsIn(graves)
         \/ JobsIn(scheduled') = JobsIn(scheduled) /\ done' = done \cup {h} /\ JobsIn(graves') = JobsIn(graves)
         \/ JobsIn(scheduled') = JobsIn(scheduled) /\ done' = done /\ JobsIn(graves') = JobsIn(graves) \cup {h},
         Single(scheduled') /\ Single(graves')
  PROVE  Custody'
<1>1. Custody /\ Stored /\ Passing
  BY DEF MemoryInv
<1> DEFINE t == Tail(batch[w])
<1>2. /\ \A u \in Workers : batch'[u] = IF u = w THEN t ELSE batch[u]
      /\ batch[w] \in Seq(Envelopes) /\ batch[w] # <<>>
  BY <1>1, AdvanceFacts
<1>3. Single(batch[w])
  BY <1>1 DEF Custody, Lone
<1>4. JobsIn(batch[w]) = JobsIn(t) \cup {h} /\ Single(t) /\ h \notin JobsIn(t)
  BY <1>2, <1>3, TailJobs
<1> HIDE DEF t
<1>5. Lone'
  BY <1>1, <1>2, <1>4 DEF Custody, Lone
<1>6. Parted'
  BY <1>1, <1>2, <1>4 DEF Custody, Parted
<1>7. \A j : (\E u \in Workers : j \in JobsIn(batch[u])) <=> j = h \/ \E u \in Workers : j \in JobsIn(batch'[u])
  BY <1>2, <1>4
<1>8. Accounted'
  BY <1>1, <1>7 DEF Custody, Accounted
<1> QED
  BY <1>5, <1>6, <1>8 DEF Custody

LEMMA CompleteCustody ==
  ASSUME MemoryInv, NEW w \in Workers, Complete(w) PROVE Custody'
<1>1. /\ step[w] = "running" /\ Advance(w) /\ done' = done \cup {Head(batch[w]).job}
      /\ UNCHANGED <<ready, scheduled, submitted, graves, dropped>>
  BY DEF Complete, Turn, store
<1>2. Single(scheduled') /\ Single(graves')
  BY <1>1 DEF MemoryInv, Custody, Lone
<1> QED
  BY <1>1, <1>2, HeadGoes

LEMMA RetryCustody ==
  ASSUME MemoryInv, NEW w \in Workers, Retry(w) PROVE Custody'
<1> DEFINE e == [Head(batch[w]) EXCEPT !.attempt = @ + 1]
<1>1. /\ step[w] = "running" /\ Advance(w) /\ scheduled' = Append(scheduled, e)
      /\ UNCHANGED <<ready, submitted, done, graves, dropped>>
  BY DEF Retry, Turn, hist
<1>2. Head(batch[w]) \in Envelopes /\ Head(batch[w]).job \in JobsIn(batch[w])
  <2>1. batch[w] \in Seq(Envelopes) /\ batch[w] # <<>>
    BY <1>1 DEF MemoryInv, Stored, Passing
  <2> QED
    BY <2>1, HeadJob
<1>3. e \in Envelopes /\ e.job = Head(batch[w]).job
  BY <1>2, NextEnvs
<1> HIDE DEF e
<1>4. scheduled \in Seq(Envelopes) /\ Single(scheduled) /\ Single(graves) /\ e.job \notin JobsIn(scheduled)
  BY <1>2, <1>3 DEF MemoryInv, Stored, Custody, Lone, Parted
<1>5. \A p : p = Append(scheduled, e) => JobsIn(p) = JobsIn(scheduled) \cup {e.job} /\ Single(p)
  BY <1>3, <1>4, AppendJobs
<1>6. JobsIn(scheduled') = JobsIn(scheduled) \cup {e.job} /\ Single(scheduled')
  BY <1>1, <1>5
<1> QED
  BY <1>1, <1>3, <1>4, <1>6, HeadGoes

LEMMA BuryCustody ==
  ASSUME MemoryInv, NEW w \in Workers, Bury(w) \/ BuryUnknown(w)
  PROVE  Custody'
<1> DEFINE e == Head(batch[w])
<1>1. /\ step[w] = "running" /\ Advance(w) /\ MoveToDead(e)
      /\ UNCHANGED <<ready, scheduled, submitted, done, dropped>>
  BY DEF Bury, BuryUnknown, Turn
<1>2. e \in Envelopes /\ e.job \in JobsIn(batch[w])
  <2>1. batch[w] \in Seq(Envelopes) /\ batch[w] # <<>>
    BY <1>1 DEF MemoryInv, Stored, Passing
  <2> QED
    BY <2>1, HeadJob
<1> HIDE DEF e
<1>4. graves \in Seq(Envelopes) /\ Single(scheduled) /\ Single(graves) /\ e.job \notin JobsIn(graves)
  BY <1>2 DEF MemoryInv, Stored, Custody, Lone, Parted
<1>5. \A p : p = Append(graves, e) => JobsIn(p) = JobsIn(graves) \cup {e.job} /\ Single(p)
  BY <1>2, <1>4, AppendJobs
<1>6. JobsIn(graves') = JobsIn(graves) \cup {e.job} /\ Single(graves')
  BY <1>1, <1>5 DEF MoveToDead
<1>7. e = Head(batch[w])
  BY DEF e
<1> QED
  BY <1>1, <1>4, <1>6, <1>7, HeadGoes

\* A future is dropped, and its whole batch with it.
LEMMA CancelFacts ==
  ASSUME MemoryInv, NEW w \in Workers, Cancel(w)
  PROVE  /\ dropped' = dropped \cup JobsIn(batch[w]) /\ cancels' = cancels + 1
         /\ \A u \in Workers : batch'[u] = IF u = w THEN <<>> ELSE batch[u]
         /\ UNCHANGED <<ready, scheduled, dead, submitted, done, graves, drained>>
<1>1. {env.job : env \in ToSet(batch[w])} = JobsIn(batch[w])
  BY JobsOfIs DEF JobsOf
<1> QED
  BY <1>1 DEF Cancel, store, MemoryInv, Stored

LEMMA CancelCustody ==
  ASSUME MemoryInv, NEW w \in Workers, Cancel(w) PROVE Custody'
<1>1. /\ dropped' = dropped \cup JobsIn(batch[w])
      /\ \A u \in Workers : batch'[u] = IF u = w THEN <<>> ELSE batch[u]
      /\ UNCHANGED <<ready, scheduled, submitted, done, graves>>
  BY CancelFacts
<1>2. Custody
  BY DEF MemoryInv
<1>3. JobsIn(<<>>) = {} /\ Single(<<>>)
  BY DEF JobsIn, Single
<1>4. Lone'
  BY <1>1, <1>2, <1>3 DEF Custody, Lone
<1>5. Parted'
  BY <1>1, <1>2, <1>3 DEF Custody, Parted
<1>6. Accounted'
  BY <1>1, <1>2, <1>3 DEF Custody, Accounted
<1> QED
  BY <1>4, <1>5, <1>6 DEF Custody

\* Every step keeps custody.
LEMMA CustodyKept ==
  ASSUME MemoryInv, [Next]_vars PROVE Custody'
<1>1. Custody
  BY DEF MemoryInv
<1>2. CASE UNCHANGED <<ready, scheduled, batch, submitted, done, graves, dropped>>
  BY <1>1, <1>2 DEF Custody, Lone, Parted, Accounted
<1>3. CASE BecomeDue \/ Drain \/ UNCHANGED vars
  BY <1>2, <1>3 DEF BecomeDue, Drain, vars, store, work, hist
<1>4. ASSUME NEW w \in Workers, Start(w) \/ HandlerReturns(w) PROVE Custody'
  BY <1>2, <1>4 DEF Start, HandlerReturns, store, hist
<1> QED
  BY <1>3, <1>4, EnqueueCustody, ScheduleCustody, PromoteCustody, PopCustody, CompleteCustody, RetryCustody,
     BuryCustody, CancelCustody DEF Next, Work

-----------------------------------------------------------------------------
(* Losses and the buffer of the dead.                                      *)

\* A batch is finite, and of no more jobs than a worker may take.
LEMMA BatchCount ==
  ASSUME NEW q \in Seq(Envelopes), Single(q)
  PROVE  IsFiniteSet(JobsIn(q)) /\ Cardinality(JobsIn(q)) = Len(q)
<1>1. Cardinality(JobsIn(q)) = Len(q)
  BY DistinctIs, JobsOfIs DEF Distinct
<1> DEFINE f == [i \in 1..Len(q) |-> q[i].job]
<1>2. Len(q) \in Nat /\ DOMAIN q = 1..Len(q) /\ IsFiniteSet(1..Len(q))
  BY QueueFacts, FS_Interval
<1>3. f \in Surjection(1..Len(q), JobsIn(q))
  BY <1>2 DEF JobsIn, Surjection
<1>4. IsFiniteSet(JobsIn(q))
  BY <1>2, <1>3, FS_Surjection
<1> QED
  BY <1>1, <1>4

LEMMA LossesKept ==
  ASSUME MemoryInv, [Next]_vars PROVE Losses'
<1>1. Losses /\ cancels \in Nat /\ BatchSize \in Nat
  BY MemoryAssumption DEF MemoryInv, Stored
<1>2. CASE UNCHANGED <<dropped, cancels>>
  BY <1>1, <1>2 DEF Losses
<1>3. ASSUME NEW w \in Workers, Cancel(w) PROVE Losses'
  <2>1. dropped' = dropped \cup JobsIn(batch[w]) /\ cancels' = cancels + 1
    BY <1>3, CancelFacts
  <2>2. batch[w] \in Seq(Envelopes) /\ Single(batch[w]) /\ Len(batch[w]) <= BatchSize
    BY DEF MemoryInv, Stored, Passing, Custody, Lone
  <2>3. /\ IsFiniteSet(JobsIn(batch[w])) /\ Cardinality(JobsIn(batch[w])) <= BatchSize
        /\ Cardinality(JobsIn(batch[w])) \in Nat
    BY <2>2, BatchCount, FS_CardinalityType
  <2>4. IsFiniteSet(dropped') /\ Cardinality(dropped') <= Cardinality(dropped) + Cardinality(JobsIn(batch[w]))
    <3>1. /\ IsFiniteSet(dropped \cup JobsIn(batch[w]))
          /\ Cardinality(dropped \cup JobsIn(batch[w]))
               = Cardinality(dropped) + Cardinality(JobsIn(batch[w])) - Cardinality(dropped \cap JobsIn(batch[w]))
      BY <1>1, <2>3, FS_Union DEF Losses
    <3>2. Cardinality(dropped \cap JobsIn(batch[w])) \in Nat
      BY <1>1, FS_Intersection, FS_CardinalityType DEF Losses
    <3>3. Cardinality(dropped) \in Nat
      BY <1>1, FS_CardinalityType DEF Losses
    <3> QED
      BY <2>1, <2>3, <3>1, <3>2, <3>3
  <2>5. Cardinality(dropped) \in Nat /\ Cardinality(dropped') \in Nat
    BY <1>1, <2>4, FS_CardinalityType DEF Losses
  <2>6. (cancels + 1) * BatchSize = cancels * BatchSize + BatchSize /\ cancels * BatchSize \in Nat
    BY <1>1
  <2> QED
    BY <1>1, <2>1, <2>3, <2>4, <2>5, <2>6 DEF Losses
<1>4. CASE BecomeDue \/ Drain \/ UNCHANGED vars
           \/ \E j \in Jobs : Enqueue(j) \/ Schedule(j)
  BY <1>2, <1>4 DEF BecomeDue, Drain, Enqueue, Schedule, vars, hist
<1>5. ASSUME NEW w \in Workers, Work(w) PROVE Losses'
  <2>1. UNCHANGED <<dropped, cancels>>
    BY <1>5 DEF Work, Promote, Pop, BuryUnknown, Start, HandlerReturns,
       Complete, Retry, Bury, hist
  <2> QED
    BY <1>2, <2>1
<1> QED
  BY <1>3, <1>4, <1>5 DEF Next

\* The buffer is the end of the list of all that was buried.
LEMMA EndOf ==
  ASSUME NEW d \in Seq(Envelopes), NEW g \in Seq(Envelopes)
  PROVE  d = SubSeq(g, Len(g) - Len(d) + 1, Len(g)) /\ Len(d) <= Len(g)
           <=> Len(d) <= Len(g) /\ \A i \in 1..Len(d) : d[i] = g[Len(g) - Len(d) + i]
<1>1. Len(d) \in Nat /\ Len(g) \in Nat /\ DOMAIN d = 1..Len(d) /\ DOMAIN g = 1..Len(g)
  BY QueueFacts
<1> SUFFICES ASSUME Len(d) <= Len(g)
             PROVE  d = SubSeq(g, Len(g) - Len(d) + 1, Len(g)) <=> \A i \in 1..Len(d) : d[i] = g[Len(g) - Len(d) + i]
  OBVIOUS
<1> DEFINE s == SubSeq(g, Len(g) - Len(d) + 1, Len(g))
<1>2. s = [i \in 1..Len(d) |-> g[Len(g) - Len(d) + i]]
  BY <1>1
<1>3. d \in [1..Len(d) -> Envelopes]
  BY LenProperties
<1> HIDE DEF s
<1>4. s = d <=> \A i \in 1..Len(d) : d[i] = s[i]
  BY <1>2, <1>3
<1>5. \A i \in 1..Len(d) : s[i] = g[Len(g) - Len(d) + i]
  BY <1>2
<1> QED
  BY <1>4, <1>5 DEF s

EndIs(d, g) == Len(d) <= Len(g) /\ \A i \in 1..Len(d) : d[i] = g[Len(g) - Len(d) + i]

\* A record is buried: it is the newest of both, and the oldest of a full buffer goes.
LEMMA GrowEnd ==
  ASSUME NEW d \in Seq(Envelopes), NEW g \in Seq(Envelopes), NEW e \in Envelopes, EndIs(d, g)
  PROVE  /\ EndIs(Append(d, e), Append(g, e)) /\ EndIs(Tail(Append(d, e)), Append(g, e))
         /\ Len(Append(d, e)) = Len(d) + 1 /\ Len(Tail(Append(d, e))) = Len(d)
         /\ Len(Append(g, e)) = Len(g) + 1
<1> DEFINE d1 == Append(d, e)
           g1 == Append(g, e)
           t == Tail(d1)
<1>1. Len(d) \in Nat /\ Len(g) \in Nat
  BY QueueFacts
<1>2. /\ d1 \in Seq(Envelopes) /\ d1 # <<>> /\ Len(d1) = Len(d) + 1 /\ \A i \in 1..Len(d) : d1[i] = d[i]
      /\ d1[Len(d) + 1] = e
  BY AppendProperties
<1>3. Len(g1) = Len(g) + 1 /\ (\A i \in 1..Len(g) : g1[i] = g[i]) /\ g1[Len(g) + 1] = e
  BY AppendProperties
<1>4. Len(t) = Len(d) /\ \A i \in 1..Len(d) : t[i] = d1[i + 1]
  BY <1>1, <1>2, HeadTailProperties
<1> HIDE DEF d1, g1, t
<1>5. Len(d) <= Len(g) /\ \A i \in 1..Len(d) : d[i] = g[Len(g) - Len(d) + i]
  BY DEF EndIs
<1>6. \A i \in 1..Len(d) + 1 : d1[i] = g1[Len(g) - Len(d) + i]
  <2> SUFFICES ASSUME NEW i \in 1..Len(d) + 1 PROVE d1[i] = g1[Len(g) - Len(d) + i]
    OBVIOUS
  <2>1. CASE i = Len(d) + 1
    <3>1. Len(g) - Len(d) + i = Len(g) + 1
      BY <1>1, <2>1
    <3> QED
      BY <1>2, <1>3, <2>1, <3>1
  <2>2. CASE i # Len(d) + 1
    <3>1. i \in 1..Len(d) /\ Len(g) - Len(d) + i \in 1..Len(g)
      BY <1>1, <1>5, <2>2
    <3> QED
      BY <1>2, <1>3, <1>5, <3>1
  <2> QED
    BY <2>1, <2>2
<1>7. Len(d1) <= Len(g1) /\ \A i \in 1..Len(d1) : d1[i] = g1[Len(g1) - Len(d1) + i]
  <2>1. Len(g1) - Len(d1) = Len(g) - Len(d) /\ Len(d1) <= Len(g1)
    BY <1>1, <1>2, <1>3, <1>5
  <2>2. ASSUME NEW i \in 1..Len(d1) PROVE d1[i] = g1[Len(g1) - Len(d1) + i]
    <3>1. i \in 1..Len(d) + 1
      BY <1>2
    <3> QED
      BY <1>6, <2>1, <3>1
  <2> QED
    BY <2>1, <2>2
<1>8. Len(t) <= Len(g1) /\ \A i \in 1..Len(t) : t[i] = g1[Len(g1) - Len(t) + i]
  <2>1. Len(t) <= Len(g1)
    BY <1>1, <1>3, <1>4, <1>5
  <2>2. ASSUME NEW i \in 1..Len(t) PROVE t[i] = g1[Len(g1) - Len(t) + i]
    <3>1. i \in 1..Len(d)
      BY <1>4
    <3>2. i + 1 \in 1..Len(d) + 1
      BY <1>1, <3>1
    <3>3. Len(g) - Len(d) + (i + 1) = Len(g) + 1 - Len(d) + i
      BY <1>1, <3>1
    <3>4. t[i] = d1[i + 1]
      BY <1>4, <3>1
    <3>5. d1[i + 1] = g1[Len(g) - Len(d) + (i + 1)]
      BY <1>6, <3>2
    <3>6. Len(g1) - Len(t) + i = Len(g) + 1 - Len(d) + i
      BY <1>1, <1>3, <1>4
    <3> QED
      BY <3>3, <3>4, <3>5, <3>6
  <2> QED
    BY <2>1, <2>2
<1>9. EndIs(d1, g1)
  BY <1>7 DEF EndIs
<1>10. EndIs(t, g1)
  BY <1>8 DEF EndIs
<1> QED
  BY <1>2, <1>3, <1>4, <1>9, <1>10 DEF d1, g1, t

LEMMA NewestIs ==
  ASSUME Stored
  PROVE  KeepsNewest <=> Len(dead) <= DeadCap /\ EndIs(dead, graves) /\ drained + Len(dead) <= Len(graves)
<1>1. dead \in Seq(Envelopes) /\ graves \in Seq(Envelopes) /\ drained \in Nat
  BY DEF Stored
<1>2. Len(dead) \in Nat /\ Len(graves) \in Nat
  BY <1>1, QueueFacts
<1>3. drained + Len(dead) <= Len(graves) => Len(dead) <= Len(graves)
  BY <1>1, <1>2
<1>4. EndIs(dead, graves) <=> dead = SubSeq(graves, Len(graves) - Len(dead) + 1, Len(graves)) /\ Len(dead) <= Len(graves)
  BY <1>1, EndOf DEF EndIs
<1> QED
  BY <1>3, <1>4 DEF KeepsNewest

LEMMA NewestKept ==
  ASSUME MemoryInv, [Next]_vars PROVE KeepsNewest'
<1>1. Stored /\ Len(dead) <= DeadCap /\ EndIs(dead, graves) /\ drained + Len(dead) <= Len(graves) /\ KeepsNewest
  BY NewestIs DEF MemoryInv
<1>2. CASE UNCHANGED <<dead, graves, drained>>
  BY <1>1, <1>2 DEF KeepsNewest
<1>3. ASSUME Drain PROVE KeepsNewest'
  <2>1. dead' = <<>> /\ drained' = drained + Len(dead) /\ graves' = graves
    BY <1>3 DEF Drain
  <2>2. Len(dead) \in Nat /\ Len(graves) \in Nat /\ drained \in Nat /\ DeadCap \in Nat
    BY <1>1, QueueFacts, MemoryAssumption DEF Stored
  <2>3. Len(dead') = 0
    BY <2>1, EmptySeq
  <2>4. EndIs(dead, graves)'
    BY <2>1, <2>2, <2>3 DEF EndIs
  <2>5. Len(dead') <= DeadCap /\ drained' + Len(dead') <= Len(graves')
    BY <1>1, <2>1, <2>2, <2>3
  <2>6. Stored'
    BY PassKept
  <2>7. (KeepsNewest <=> Len(dead) <= DeadCap /\ EndIs(dead, graves) /\ drained + Len(dead) <= Len(graves))'
    BY <2>6, NewestIs, PTL
  <2> QED
    BY <2>4, <2>5, <2>7
<1>4. ASSUME NEW w \in Workers, Bury(w) \/ BuryUnknown(w) PROVE KeepsNewest'
  <2> DEFINE e == Head(batch[w])
             d == Append(dead, e)
  <2>1. step[w] = "running" /\ MoveToDead(e) /\ drained' = drained
    BY <1>4 DEF Bury, BuryUnknown, Turn
  <2>2. e \in Envelopes
    <3>1. batch[w] \in Seq(Envelopes) /\ batch[w] # <<>>
      BY <2>1 DEF MemoryInv, Stored, Passing
    <3> QED
      BY <3>1, HeadJob
  <2> HIDE DEF e
  <2>3. graves' = Append(graves, e) /\ dead' = IF Len(d) > DeadCap THEN Tail(d) ELSE d
    BY <2>1 DEF MoveToDead
  <2>4. dead \in Seq(Envelopes) /\ graves \in Seq(Envelopes) /\ drained \in Nat /\ DeadCap \in Nat
    BY <1>1, MemoryAssumption DEF Stored
  <2>5. Len(dead) \in Nat /\ Len(graves) \in Nat
    BY <2>4, QueueFacts
  <2> HIDE DEF d
  <2>6. /\ EndIs(Append(dead, e), Append(graves, e)) /\ EndIs(Tail(Append(dead, e)), Append(graves, e))
        /\ Len(Append(dead, e)) = Len(dead) + 1 /\ Len(Tail(Append(dead, e))) = Len(dead)
        /\ Len(Append(graves, e)) = Len(graves) + 1
    BY <1>1, <2>2, <2>4, GrowEnd
  <2>7. /\ EndIs(d, graves') /\ EndIs(Tail(d), graves')
        /\ Len(d) = Len(dead) + 1 /\ Len(Tail(d)) = Len(dead) /\ Len(graves') = Len(graves) + 1
    BY <2>3, <2>6 DEF d
  <2>8. EndIs(dead', graves') /\ Len(dead') <= DeadCap /\ drained' + Len(dead') <= Len(graves')
    BY <1>1, <2>1, <2>3, <2>4, <2>5, <2>7 DEF d
  <2>9. Stored'
    BY PassKept
  <2>10. (KeepsNewest <=> Len(dead) <= DeadCap /\ EndIs(dead, graves) /\ drained + Len(dead) <= Len(graves))'
    BY <2>9, NewestIs, PTL
  <2> QED
    BY <2>8, <2>10
<1>5. CASE BecomeDue \/ UNCHANGED vars \/ \E j \in Jobs : Enqueue(j) \/ Schedule(j)
  BY <1>2, <1>5 DEF BecomeDue, Enqueue, Schedule, vars, store, hist
<1>6. ASSUME NEW w \in Workers, \/ Promote(w) \/ Pop(w) \/ Start(w) \/ HandlerReturns(w)
                                \/ Complete(w) \/ Retry(w) \/ Cancel(w)
      PROVE  KeepsNewest'
  <2>1. UNCHANGED <<dead, graves, drained>>
    BY <1>6 DEF Promote, Pop, Start, HandlerReturns,
       Complete, Retry, Cancel, store, hist
  <2> QED
    BY <1>2, <2>1
<1> QED
  BY <1>3, <1>4, <1>5, <1>6 DEF Next, Work

-----------------------------------------------------------------------------
(* The theorems about the memory backend.                                  *)

LEMMA MemoryInit == ASSUME Init PROVE MemoryInv
<1>1. /\ ready = <<>> /\ scheduled = <<>> /\ dead = <<>> /\ due = {} /\ graves = <<>> /\ drained = 0
      /\ step = [w \in Workers |-> "idle"] /\ batch = [w \in Workers |-> <<>>]
      /\ running = [w \in Workers |-> "no"]
      /\ submitted = {} /\ done = {} /\ dropped = {} /\ cancels = 0
  BY DEF Init
<1>2. <<>> \in Seq(Envelopes) /\ Len(<<>>) = 0 /\ JobsIn(<<>>) = {} /\ Single(<<>>)
  BY EmptySeq DEF JobsIn, Single
<1>3. MaxCancels \in Nat /\ BatchSize \in Nat /\ DeadCap \in Nat
  BY MemoryAssumption
<1>4. Stored /\ Passing
  BY <1>1, <1>2, <1>3 DEF Stored, Passing
<1>5. Custody
  BY <1>1, <1>2 DEF Custody, Lone, Parted, Accounted
<1>6. Losses
  <2>1. IsFiniteSet({}) /\ Cardinality({}) = 0
    BY FS_EmptySet
  <2> QED
    BY <1>1, <1>3, <2>1 DEF Losses
<1>7. KeepsNewest
  <2>1. EndIs(dead, graves)
    BY <1>1, <1>2 DEF EndIs
  <2> QED
    BY <1>1, <1>2, <1>3, <1>4, <2>1, NewestIs
<1> QED
  BY <1>4, <1>5, <1>6, <1>7 DEF MemoryInv

LEMMA MemoryStep ==
  ASSUME MemoryInv, [Next]_vars PROVE MemoryInv'
BY PassKept, CustodyKept, LossesKept, NewestKept DEF MemoryInv

LEMMA MemoryHolds == Spec => []MemoryInv
<1>1. Init => MemoryInv
  BY MemoryInit
<1>2. MemoryInv /\ [Next]_vars => MemoryInv'
  BY MemoryStep
<1> QED
  BY <1>1, <1>2, PTL DEF Spec

\* Envelopes, passes and counters of the process-local store keep their types
\* (MemoryState).
THEOREM TypeCorrect == Spec => []TypeOK
<1>1. MemoryInv => TypeOK
  BY StoredIs DEF MemoryInv
<1> QED
  BY <1>1, MemoryHolds, PTL

\* The memory backend keeps each job in one place, loses jobs only with a dropped run_once
\* future and then no more than a batch, and holds the newest dead records within its cap
\* (memory_pop_ready_envelopes, run_envelope_memory, memory_move_to_dead).
THEOREM QueuesSoundHolds == Spec => []QueuesSound
<1>1. MemoryInv => QueuesSound
  <2> SUFFICES ASSUME MemoryInv PROVE QueuesSound
    OBVIOUS
  <2>1. /\ ready \in Seq(Envelopes) /\ scheduled \in Seq(Envelopes) /\ graves \in Seq(Envelopes)
        /\ batch \in [Workers -> Seq(Envelopes)] /\ Custody
    BY DEF MemoryInv, Stored
  <2>2. /\ Distinct(ready) /\ Distinct(scheduled) /\ Distinct(graves)
        /\ \A w \in Workers : Distinct(batch[w])
    BY <2>1, DistinctIs DEF Custody, Lone
  <2>3. \A j : j \in Batched <=> \E w \in Workers : j \in JobsIn(batch[w])
    BY JobsOfIs DEF Batched
  <2>4. /\ JobsOf(ready) = JobsIn(ready) /\ JobsOf(scheduled) = JobsIn(scheduled)
        /\ JobsOf(graves) = JobsIn(graves) /\ \A w : JobsOf(batch[w]) = JobsIn(batch[w])
    BY JobsOfIs
  <2>5. OneCopy
    <3>1. \A w, v \in Workers : w # v => JobsIn(batch[w]) \cap JobsIn(batch[v]) = {}
      BY <2>1 DEF Custody, Parted
    <3>2. Batched \cap (JobsIn(ready) \cup JobsIn(scheduled)) = {}
      BY <2>1, <2>3 DEF Custody, Parted
    <3>3. JobsIn(ready) \cap JobsIn(scheduled) = {} /\ done \cap JobsIn(graves) = {}
      BY <2>1 DEF Custody, Parted
    <3>4. (done \cup JobsIn(graves)) \cap (JobsIn(ready) \cup JobsIn(scheduled) \cup Batched) = {}
      BY <2>1, <2>3 DEF Custody, Parted
    <3> QED
      BY <2>2, <2>4, <3>1, <3>2, <3>3, <3>4 DEF OneCopy
  <2>6. NothingLost
    <3>1. submitted = JobsIn(ready) \cup JobsIn(scheduled) \cup Batched
                        \cup done \cup JobsIn(graves) \cup dropped
      BY <2>1, <2>3 DEF Custody, Accounted
    <3>2. Cardinality(dropped) <= cancels * BatchSize
      BY DEF MemoryInv, Losses
    <3> QED
      BY <2>4, <3>1, <3>2 DEF NothingLost
  <2> QED
    BY <2>5, <2>6 DEF QueuesSound, MemoryInv
<1> QED
  BY <1>1, MemoryHolds, PTL

-----------------------------------------------------------------------------
(* The order of the ready queue.                                           *)

\* An envelope is in a queue ...
LEMMA InIs == \A e, q : e \in ToSet(q) <=> In(e, q)
BY DEF In, ToSet

LEMMA InJobs == \A e, q : In(e, q) => e.job \in JobsIn(q)
BY DEF In, JobsIn

LEMMA InEnvs == ASSUME NEW q \in Seq(Envelopes), NEW e, In(e, q) PROVE e \in Envelopes
BY QueueFacts DEF In

\* ... that grew at its end ...
LEMMA AppendIn ==
  ASSUME NEW q \in Seq(Envelopes), NEW e \in Envelopes
  PROVE  In(e, Append(q, e)) /\ \A x : In(x, q) => In(x, Append(q, e))
<1> DEFINE p == Append(q, e)
<1>1. /\ p \in Seq(Envelopes) /\ Len(p) = Len(q) + 1 /\ Len(q) \in Nat
      /\ \A i \in 1..Len(q) : p[i] = q[i]
      /\ p[Len(q) + 1] = e /\ DOMAIN p = 1..Len(q) + 1 /\ DOMAIN q = 1..Len(q)
  BY AppendProperties, QueueFacts
<1> HIDE DEF p
<1>2. Len(q) + 1 \in DOMAIN p /\ \A i \in DOMAIN q : i \in DOMAIN p /\ p[i] = q[i]
  BY <1>1
<1>3. In(e, p) /\ \A x : In(x, q) => In(x, p)
  BY <1>1, <1>2 DEF In
<1> QED
  BY <1>3 DEF p

LEMMA ConcatIn ==
  ASSUME NEW q \in Seq(Envelopes), NEW r \in Seq(Envelopes)
  PROVE  \A x : In(x, q) \/ In(x, r) => In(x, q \o r)
<1> DEFINE p == q \o r
<1>1. /\ p \in Seq(Envelopes) /\ Len(p) = Len(q) + Len(r) /\ Len(q) \in Nat /\ Len(r) \in Nat
      /\ \A i \in 1..Len(q) + Len(r) : p[i] = IF i <= Len(q) THEN q[i] ELSE r[i - Len(q)]
      /\ DOMAIN p = 1..Len(q) + Len(r) /\ DOMAIN q = 1..Len(q) /\ DOMAIN r = 1..Len(r)
  BY ConcatProperties, QueueFacts
<1> HIDE DEF p
<1>2. /\ \A i \in DOMAIN q : i \in DOMAIN p /\ p[i] = q[i]
      /\ \A i \in DOMAIN r : i + Len(q) \in DOMAIN p /\ p[i + Len(q)] = r[i]
  BY <1>1
<1>3. \A x : In(x, q) \/ In(x, r) => In(x, p)
  BY <1>2 DEF In
<1> QED
  BY <1>3 DEF p

\* ... or lost its head.
LEMMA TailIn ==
  ASSUME NEW q \in Seq(Envelopes), q # <<>>
  PROVE  In(Head(q), q) /\ \A x : In(x, q) => x = Head(q) \/ In(x, Tail(q))
<1> DEFINE p == Tail(q)
<1>1. /\ p \in Seq(Envelopes) /\ Len(p) = Len(q) - 1 /\ Len(q) \in Nat /\ Len(q) >= 1
      /\ Head(q) = q[1]
      /\ \A i \in 1..Len(p) : p[i] = q[i + 1]
      /\ DOMAIN p = 1..Len(q) - 1 /\ DOMAIN q = 1..Len(q)
  BY HeadTailProperties, QueueFacts, EmptySeq
<1> HIDE DEF p
<1>2. 1 \in DOMAIN q /\ \A i \in DOMAIN q : i = 1 \/ (i - 1 \in DOMAIN p /\ q[i] = p[i - 1])
  BY <1>1
<1>3. In(Head(q), q) /\ \A x : In(x, q) => x = Head(q) \/ In(x, p)
  BY <1>1, <1>2 DEF In
<1> QED
  BY <1>3 DEF p

\* The envelopes at some positions.
LEMMA AtIn ==
  ASSUME NEW q \in Seq(Envelopes), Single(q), NEW I \in SUBSET (DOMAIN q)
  PROVE  \A x : In(x, At(q, I)) <=> \E i \in I : q[i] = x
<1> DEFINE p == At(q, I)
<1>1. /\ \A i \in I : In(q[i], p)
      /\ \A x : In(x, p) => \E i \in I : q[i] = x
  BY AtJobs
<1> QED
  BY <1>1

\* An envelope is on one side of two complementary sets of positions.
LEMMA SplitIn ==
  ASSUME NEW q \in Seq(Envelopes), Single(q), NEW I \in SUBSET (DOMAIN q)
  PROVE  \A x : In(x, q) => In(x, At(q, I)) \/ In(x, At(q, DOMAIN q \ I))
<1>1. \A x : In(x, At(q, I)) <=> \E i \in I : q[i] = x
  BY AtIn
<1> DEFINE J == DOMAIN q \ I
<1>2. J \in SUBSET (DOMAIN q)
  OBVIOUS
<1> HIDE DEF J
<1>3. \A x : In(x, At(q, J)) <=> \E i \in J : q[i] = x
  BY <1>2, AtIn
<1> QED
  BY <1>1, <1>3 DEF In, J

Ordered ==
  \A i, k \in DOMAIN ready :
    i < k /\ QueueOf[ready[i].job] = QueueOf[ready[k].job]
      => (ready[i] \in ToSet(ready') => ready[k] \in ToSet(ready'))

\* Whoever stays in the ready queue is in nobody's way.
LEMMA StayOrdered == ASSUME \A x : In(x, ready) => In(x, ready') PROVE Ordered
BY InIs DEF Ordered, In

\* A worker takes what it serves from the front.
LEMMA PopOrdered ==
  ASSUME MemoryInv, NEW w \in Workers, Pop(w) PROVE Ordered
<1>1. PICK I \in SUBSET (DOMAIN ready) :
        /\ ready' = At(ready, DOMAIN ready \ I)
        /\ \A i \in I : QueueOf[ready[i].job] \in Serves[w]
        /\ \A i \in I : \A k \in DOMAIN ready : k < i /\ QueueOf[ready[k].job] \in Serves[w] => k \in I
  BY PopFacts
<1>2. ready \in Seq(Envelopes) /\ Single(ready)
  BY DEF MemoryInv, Stored, Custody, Lone
<1> DEFINE J == DOMAIN ready \ I
<1>3. \A x : In(x, ready') <=> \E i \in J : ready[i] = x
  <2>1. J \in SUBSET (DOMAIN ready) /\ ready' = At(ready, J)
    BY <1>1
  <2> HIDE DEF J
  <2>2. \A x : In(x, At(ready, J)) <=> \E i \in J : ready[i] = x
    BY <1>2, <2>1, AtIn
  <2> QED
    BY <2>1, <2>2
<1> SUFFICES ASSUME NEW i \in DOMAIN ready, NEW k \in DOMAIN ready, i < k,
                    QueueOf[ready[i].job] = QueueOf[ready[k].job], In(ready[i], ready')
             PROVE  In(ready[k], ready')
  BY InIs DEF Ordered
<1>4. PICK m \in J : ready[m] = ready[i]
  BY <1>3
<1>5. m = i
  BY <1>2, <1>4 DEF Single
<1>6. i \notin I
  BY <1>4, <1>5
<1>7. k \notin I
  BY <1>1, <1>6
<1> QED
  BY <1>3, <1>7

LEMMA OrderKept ==
  ASSUME MemoryInv, [Next]_vars PROVE Ordered
<1>1. CASE UNCHANGED ready
  BY <1>1, StayOrdered
<1>2. ready \in Seq(Envelopes) /\ scheduled \in Seq(Envelopes) /\ Single(scheduled)
  BY DEF MemoryInv, Stored, Custody, Lone
<1>3. ASSUME NEW j \in Jobs, Enqueue(j) PROVE Ordered
  <2>1. ready' = Append(ready, NewEnvelope(j)) /\ NewEnvelope(j) \in Envelopes
    BY <1>3, NewEnvs DEF Enqueue
  <2>2. \A e \in Envelopes : \A x : In(x, ready) => In(x, Append(ready, e))
    BY <1>2, AppendIn
  <2> QED
    BY <2>1, <2>2, StayOrdered
<1>4. ASSUME NEW w \in Workers, Promote(w) PROVE Ordered
  <2>1. PICK I \in SUBSET (DOMAIN scheduled) : ready' = ready \o At(scheduled, I)
    BY <1>4, PromoteFacts
  <2>2. At(scheduled, I) \in Seq(Envelopes)
    BY <1>2, <2>1, AtFacts
  <2>3. \A x : In(x, ready) \/ In(x, At(scheduled, I)) => In(x, ready \o At(scheduled, I))
    BY <1>2, <2>2, ConcatIn
  <2> QED
    BY <2>1, <2>3, StayOrdered
<1>5. CASE BecomeDue \/ Drain \/ UNCHANGED vars \/ \E j \in Jobs : Schedule(j)
  BY <1>1, <1>5 DEF BecomeDue, Drain, Schedule, vars, store, hist
<1>6. ASSUME NEW w \in Workers, \/ BuryUnknown(w) \/ Start(w) \/ HandlerReturns(w)
                                \/ Complete(w) \/ Retry(w) \/ Bury(w) \/ Cancel(w)
      PROVE  Ordered
  <2>1. UNCHANGED ready
    BY <1>6 DEF BuryUnknown, Start, HandlerReturns, Complete,
       Retry, Bury, Cancel, store
  <2> QED
    BY <1>1, <2>1
<1> QED
  BY <1>3, <1>4, <1>5, <1>6, PopOrdered DEF Next, Work

\* The jobs of one queue leave the ready queue in the order they came in, also past the
\* jobs that the worker does not serve (memory_pop_ready_envelopes).
THEOREM QueueOrderHolds == Spec => QueueOrder
<1>1. MemoryInv /\ [Next]_vars => Ordered
  BY OrderKept
<1> QED
  BY <1>1, MemoryHolds, PTL DEF Spec, QueueOrder, Ordered

-----------------------------------------------------------------------------
(* The ledger of the memory backend.                                       *)

\* What the ledger sees.
status == [j \in Jobs |-> StatusOf(j)]
attempt == [j \in Jobs |-> IF StatusOf(j) = "live" THEN CHOOSE a \in LiveAttempt(j) : TRUE
                                                         ELSE 0]

\* An envelope that waits or is in a batch; its job is nowhere else, and has no other.
Waits(e) == In(e, ready) \/ In(e, scheduled) \/ \E w \in Workers : In(e, batch[w])

LEMMA LiveIs == \A j, a : a \in LiveAttempt(j) <=> \E e : Waits(e) /\ e.job = j /\ e.attempt = a
<1>1. \A e : e \in UNION ({ToSet(ready), ToSet(scheduled)}
                            \cup {ToSet(batch[w]) : w \in Workers}) <=> Waits(e)
  <2>1. \A e : Waits(e) <=> \/ e \in ToSet(ready) \/ e \in ToSet(scheduled)
                           \/ \E w \in Workers : e \in ToSet(batch[w])
    BY InIs DEF Waits
  <2> QED
    BY <2>1
<1> QED
  BY <1>1 DEF LiveAttempt

LEMMA WaitsOnce ==
  ASSUME MemoryInv, NEW e, Waits(e)
  PROVE  /\ e \in Envelopes /\ e.job \in Jobs
         /\ e.job \in submitted /\ e.job \notin done /\ e.job \notin JobsIn(graves) /\ e.job \notin dropped
         /\ \A f : Waits(f) /\ f.job = e.job => f = e
<1>1. ready \in Seq(Envelopes) /\ scheduled \in Seq(Envelopes) /\ batch \in [Workers -> Seq(Envelopes)]
  BY DEF MemoryInv, Stored
<1>2. Lone /\ Parted /\ Accounted
  BY DEF MemoryInv, Custody
<1>3. e \in Envelopes
  BY <1>1, InEnvs DEF Waits
<1>4. \A x : In(x, ready) => x.job \in JobsIn(ready)
  BY InJobs
<1>5. \A x : In(x, scheduled) => x.job \in JobsIn(scheduled)
  BY InJobs
<1>6. \A x : \A w \in Workers : In(x, batch[w]) => x.job \in JobsIn(batch[w])
  BY InJobs
<1>7. e.job \in submitted /\ e.job \notin done /\ e.job \notin JobsIn(graves) /\ e.job \notin dropped
  BY <1>2, <1>4, <1>5, <1>6 DEF Waits, Parted, Accounted
<1>8. \A q : Single(q) => \A x, y : In(x, q) /\ In(y, q) /\ x.job = y.job => x = y
  BY DEF Single, In
<1>9. ASSUME NEW f, Waits(f), f.job = e.job PROVE f = e
  <2>1. CASE In(e, ready)
    <3>1. In(f, ready)
      BY <1>2, <1>4, <1>5, <1>6, <1>9, <2>1 DEF Waits, Parted
    <3> QED
      BY <1>2, <1>8, <1>9, <2>1, <3>1 DEF Lone
  <2>2. CASE In(e, scheduled)
    <3>1. In(f, scheduled)
      BY <1>2, <1>4, <1>5, <1>6, <1>9, <2>2 DEF Waits, Parted
    <3> QED
      BY <1>2, <1>8, <1>9, <2>2, <3>1 DEF Lone
  <2>3. ASSUME NEW w \in Workers, In(e, batch[w]) PROVE f = e
    <3>1. In(f, batch[w])
      BY <1>2, <1>4, <1>5, <1>6, <1>9, <2>3 DEF Waits, Parted
    <3> QED
      BY <1>2, <1>8, <1>9, <2>3, <3>1 DEF Lone
  <2> QED
    BY <2>1, <2>2, <2>3 DEF Waits
<1> QED
  BY <1>3, <1>7, <1>9 DEF Envelopes

\* How the ledger sees a job.
Mapped ==
  \A j \in Jobs :
    /\ j \notin submitted => status[j] = "absent" /\ attempt[j] = 0
    /\ \A e : Waits(e) /\ e.job = j => status[j] = "live" /\ attempt[j] = e.attempt
    /\ j \in done => status[j] = "done" /\ attempt[j] = 0
    /\ j \in JobsIn(graves) => status[j] = "dead" /\ attempt[j] = 0
    /\ j \in dropped => status[j] = "lost" /\ attempt[j] = 0

LEMMA MappedNow == ASSUME MemoryInv PROVE Mapped
<1> SUFFICES ASSUME NEW j \in Jobs
             PROVE  /\ j \notin submitted => status[j] = "absent" /\ attempt[j] = 0
                    /\ \A e : Waits(e) /\ e.job = j => status[j] = "live" /\ attempt[j] = e.attempt
                    /\ j \in done => status[j] = "done" /\ attempt[j] = 0
                    /\ j \in JobsIn(graves) => status[j] = "dead" /\ attempt[j] = 0
                    /\ j \in dropped => status[j] = "lost" /\ attempt[j] = 0
  BY DEF Mapped
<1>1. status[j] = StatusOf(j)
  BY DEF status
<1>2. attempt[j] = IF StatusOf(j) = "live" THEN CHOOSE a \in LiveAttempt(j) : TRUE ELSE 0
  BY DEF attempt
<1>3. JobsOf(graves) = JobsIn(graves)
  BY JobsOfIs
<1>4. (\A e : Waits(e) => e.job # j) => LiveAttempt(j) = {}
  BY LiveIs
<1>5. Lone /\ Parted /\ Accounted
  BY DEF MemoryInv, Custody
<1>6. j \in done \/ j \in JobsIn(graves) \/ j \in dropped \/ j \notin submitted => \A e : Waits(e) => e.job # j
  BY WaitsOnce
<1>7. j \notin submitted => j \notin done /\ j \notin JobsIn(graves) /\ j \notin dropped
  BY <1>5 DEF Accounted
<1>8. /\ j \in done => j \notin JobsIn(graves) /\ j \notin dropped
      /\ j \in dropped => j \notin JobsIn(graves)
  BY <1>5 DEF Parted
<1>9. j \notin submitted => StatusOf(j) = "absent"
  BY <1>3, <1>4, <1>6, <1>7 DEF StatusOf
<1>10. j \in done => StatusOf(j) = "done"
  BY <1>3, <1>4, <1>6, <1>8 DEF StatusOf
<1>11. j \in JobsIn(graves) => StatusOf(j) = "dead"
  BY <1>3, <1>4, <1>6, <1>8 DEF StatusOf
<1>12. j \in dropped => StatusOf(j) = "lost"
  BY <1>3, <1>4, <1>6, <1>8 DEF StatusOf
<1>13. ASSUME NEW e, Waits(e), e.job = j PROVE status[j] = "live" /\ attempt[j] = e.attempt
  <2>1. j \notin done /\ j \notin JobsIn(graves) /\ j \notin dropped
    BY <1>13, WaitsOnce
  <2>2. e.attempt \in LiveAttempt(j) /\ \A a \in LiveAttempt(j) : a = e.attempt
    <3>1. \A f : Waits(f) /\ f.job = j => f = e
      BY <1>13, WaitsOnce
    <3> QED
      BY <1>13, <3>1, LiveIs
  <2>3. StatusOf(j) = "live"
    BY <1>3, <2>1, <2>2 DEF StatusOf
  <2> QED
    BY <1>1, <1>2, <2>2, <2>3
<1> QED
  BY <1>1, <1>2, <1>9, <1>10, <1>11, <1>12, <1>13

LEMMA MappedThen == MemoryInv' => Mapped'
BY MappedNow, PTL

\* A job that a step leaves where it is, ...
Alone(j) ==
  /\ j \in submitted' <=> j \in submitted
  /\ j \in done => j \in done'
  /\ j \in JobsIn(graves) => j \in JobsIn(graves')
  /\ j \in dropped => j \in dropped'
  /\ \A e : Waits(e) /\ e.job = j => Waits(e)'

\* ... the ledger sees unchanged.
LEMMA SameJob ==
  ASSUME MemoryInv, MemoryInv', NEW j \in Jobs, Alone(j)
  PROVE  status'[j] = status[j] /\ attempt'[j] = attempt[j]
<1>1. /\ Mapped /\ Mapped'
  BY MappedNow, MappedThen
<1>2. \/ j \notin submitted \/ j \in done \/ j \in JobsIn(graves) \/ j \in dropped
      \/ \E e : Waits(e) /\ e.job = j
  <2>1. Accounted
    BY DEF MemoryInv, Custody
  <2>2. \A q : j \in JobsIn(q) => \E e : In(e, q) /\ e.job = j
    BY DEF In, JobsIn
  <2> QED
    BY <2>1, <2>2 DEF Accounted, Waits
<1>3. CASE j \notin submitted
  BY <1>1, <1>3 DEF Mapped, Alone
<1>4. CASE j \in done
  BY <1>1, <1>4 DEF Mapped, Alone
<1>5. CASE j \in JobsIn(graves)
  BY <1>1, <1>5 DEF Mapped, Alone
<1>6. CASE j \in dropped
  BY <1>1, <1>6 DEF Mapped, Alone
<1>7. ASSUME NEW e, Waits(e), e.job = j PROVE status'[j] = status[j] /\ attempt'[j] = attempt[j]
  <2>1. Waits(e)'
    BY <1>7 DEF Alone
  <2> QED
    BY <1>1, <1>7, <2>1 DEF Mapped
<1> QED
  BY <1>2, <1>3, <1>4, <1>5, <1>6, <1>7

LEMMA Stutters ==
  ASSUME MemoryInv, MemoryInv', \A j \in Jobs : Alone(j) PROVE status' = status /\ attempt' = attempt
<1>1. \A j \in Jobs : status'[j] = status[j] /\ attempt'[j] = attempt[j]
  BY SameJob
<1>2. /\ status = [j \in Jobs |-> status[j]] /\ status' = [j \in Jobs |-> status'[j]]
      /\ attempt = [j \in Jobs |-> attempt[j]] /\ attempt' = [j \in Jobs |-> attempt'[j]]
  BY DEF status, attempt
<1> QED
  BY <1>1, <1>2

LEMMA ChangesOne ==
  ASSUME MemoryInv, MemoryInv', NEW j \in Jobs, \A k \in Jobs \ {j} : Alone(k)
  PROVE  /\ status' = [status EXCEPT ![j] = status'[j]]
         /\ attempt' = [attempt EXCEPT ![j] = attempt'[j]]
<1>1. \A k \in Jobs \ {j} : status'[k] = status[k] /\ attempt'[k] = attempt[k]
  BY SameJob
<1>2. /\ status = [k \in Jobs |-> status[k]] /\ status' = [k \in Jobs |-> status'[k]]
      /\ attempt = [k \in Jobs |-> attempt[k]] /\ attempt' = [k \in Jobs |-> attempt'[k]]
  BY DEF status, attempt
<1> QED
  BY <1>1, <1>2

\* What a step is to the ledger.
LedgerMoves == (status' = status /\ attempt' = attempt) \/ Ledger!Next

\* The steps that move no envelope out of its place, or only to another one.
LEMMA Rests ==
  ASSUME MemoryInv, MemoryInv', UNCHANGED <<submitted, done, graves, dropped>>,
         \A e : Waits(e) => Waits(e)'
  PROVE  LedgerMoves
<1>1. \A j \in Jobs : Alone(j)
  BY DEF Alone
<1> QED
  BY <1>1, Stutters DEF LedgerMoves

\* A client's job appears: Submit.
LEMMA Submits ==
  ASSUME MemoryInv, MemoryInv', NEW j \in Jobs, j \notin submitted, \A k \in Jobs \ {j} : Alone(k),
         Waits(NewEnvelope(j))'
  PROVE  LedgerMoves
<1>1. status[j] = "absent"
  BY MappedNow DEF Mapped
<1> DEFINE e == NewEnvelope(j)
<1>2. e.job = j /\ e.attempt = 1
  BY DEF NewEnvelope
<1> HIDE DEF e
<1>3. Waits(e)'
  BY DEF e
<1>4. status'[j] = "live" /\ attempt'[j] = 1
  BY <1>2, <1>3, MappedThen DEF Mapped
<1>5. /\ status' = [status EXCEPT ![j] = "live"]
      /\ attempt' = [attempt EXCEPT ![j] = 1]
  BY <1>4, ChangesOne
<1>6. Ledger!Submit(j)
  BY <1>1, <1>5 DEF Ledger!Submit, status, attempt
<1> QED
  BY <1>6 DEF LedgerMoves, Ledger!Next

\* An envelope is done or buried: Settle.
LEMMA Settles ==
  ASSUME MemoryInv, MemoryInv', NEW e, Waits(e), e.job \in done' \/ e.job \in JobsIn(graves'),
         \A k \in Jobs \ {e.job} : Alone(k)
  PROVE  LedgerMoves
<1> DEFINE j == e.job
<1>1. j \in Jobs /\ status[j] = "live"
  BY WaitsOnce, MappedNow DEF Mapped
<1>2. status'[j] \in {"done", "dead"} /\ attempt'[j] = 0
  BY <1>1, MappedThen DEF Mapped
<1>3. \A k \in Jobs \ {j} : Alone(k)
  OBVIOUS
<1> HIDE DEF j
<1>4. /\ status' = [status EXCEPT ![j] = status'[j]]
      /\ attempt' = [attempt EXCEPT ![j] = 0]
  BY <1>1, <1>2, <1>3, ChangesOne
<1>5. Ledger!Settle(j)
  BY <1>1, <1>2, <1>4 DEF Ledger!Settle, status, attempt
<1> QED
  BY <1>1, <1>5 DEF LedgerMoves, Ledger!Next

\* An envelope makes way for the next attempt: RetryJob.
LEMMA Retries ==
  ASSUME MemoryInv, MemoryInv', NEW e, Waits(e), NEW f, Waits(f)', f.job = e.job,
         f.attempt \in (e.attempt + 1) .. MaxAttempts[e.job], \A k \in Jobs \ {e.job} : Alone(k)
  PROVE  LedgerMoves
<1> DEFINE j == e.job
<1>1. j \in Jobs /\ status[j] = "live" /\ attempt[j] = e.attempt
  BY WaitsOnce, MappedNow DEF Mapped
<1>2. status'[j] = "live" /\ attempt'[j] = f.attempt
  BY <1>1, MappedThen DEF Mapped
<1>3. /\ \A k \in Jobs \ {j} : Alone(k)
      /\ attempt'[j] \in (attempt[j] + 1) .. MaxAttempts[j]
  BY <1>1, <1>2
<1> HIDE DEF j
<1>4. /\ status' = [status EXCEPT ![j] = "live"]
      /\ attempt' = [attempt EXCEPT ![j] = attempt'[j]]
  BY <1>1, <1>2, <1>3, ChangesOne
<1>5. status' = status
  BY <1>1, <1>4 DEF status
<1>6. Ledger!RetryJob(j)
  BY <1>1, <1>3, <1>4, <1>5 DEF Ledger!RetryJob, status, attempt
<1> QED
  BY <1>1, <1>6 DEF LedgerMoves, Ledger!Next

\* A batch is dropped: Lose.
LEMMA Loses ==
  ASSUME MemoryInv, MemoryInv', NEW S \in SUBSET Jobs, \A j \in Jobs \ S : Alone(j),
         \A j \in S : j \in dropped' /\ \E e : Waits(e) /\ e.job = j
  PROVE  LedgerMoves
<1>1. \A j \in S : status[j] = "live"
  BY MappedNow DEF Mapped
<1>2. \A j \in S : status'[j] = "lost" /\ attempt'[j] = 0
  BY MappedThen DEF Mapped
<1>3. \A j \in Jobs \ S : status'[j] = status[j] /\ attempt'[j] = attempt[j]
  BY SameJob
<1>4. status' = [j \in Jobs |-> status'[j]] /\ attempt' = [j \in Jobs |-> attempt'[j]]
  BY DEF status, attempt
<1>5. /\ status' = [j \in Jobs |-> IF j \in S THEN "lost" ELSE status[j]]
      /\ attempt' = [j \in Jobs |-> IF j \in S THEN 0 ELSE attempt[j]]
  BY <1>2, <1>3, <1>4
<1>6. Ledger!Lose(S)
  BY <1>1, <1>5 DEF Ledger!Lose, status, attempt
<1> QED
  BY <1>6 DEF LedgerMoves, Ledger!Next

\* The head of a batch, and those behind it.
LEMMA HeadGone ==
  ASSUME Stored, Passing, NEW w \in Workers, step[w] = "running", Advance(w)
  PROVE  /\ Head(batch[w]) \in Envelopes /\ Waits(Head(batch[w]))
         /\ \A u \in Workers : \A x : In(x, batch[u]) => x = Head(batch[w]) \/ In(x, batch'[u])
<1>1. batch[w] \in Seq(Envelopes) /\ batch[w] # <<>>
  BY DEF Stored, Passing
<1>2. \A u \in Workers : batch'[u] = IF u = w THEN Tail(batch[w]) ELSE batch[u]
  BY DEF Stored, Advance
<1>3. In(Head(batch[w]), batch[w]) /\ \A x : In(x, batch[w]) => x = Head(batch[w]) \/ In(x, Tail(batch[w]))
  BY <1>1, TailIn
<1>4. Head(batch[w]) \in Envelopes
  BY <1>1, HeadJob
<1> QED
  BY <1>2, <1>3, <1>4 DEF Waits

\* The jobs behind the head of the batch are left where they are by a step that settles it.
LEMMA OthersRest ==
  ASSUME Stored, Passing, NEW w \in Workers, step[w] = "running", Advance(w),
         UNCHANGED <<ready, submitted, dropped>>,
         \A x : In(x, scheduled) => In(x, scheduled'),
         \A k : k \in done => k \in done', \A k : k \in JobsIn(graves) => k \in JobsIn(graves')
  PROVE  \A k \in Jobs \ {Head(batch[w]).job} : Alone(k)
<1>1. \A u \in Workers : \A x : In(x, batch[u]) => x = Head(batch[w]) \/ In(x, batch'[u])
  BY HeadGone
<1>2. \A x : Waits(x) /\ x.job # Head(batch[w]).job => Waits(x)'
  BY <1>1 DEF Waits
<1> QED
  BY <1>2 DEF Alone

LEMMA EnqueueMoves ==
  ASSUME MemoryInv, MemoryInv', NEW j \in Jobs, Enqueue(j) \/ Schedule(j) PROVE LedgerMoves
<1> DEFINE e == NewEnvelope(j)
<1>1. e \in Envelopes /\ e.job = j
  BY NewEnvs
<1> HIDE DEF e
<1>2. j \notin submitted /\ submitted' = submitted \cup {j} /\ UNCHANGED <<batch, done, graves, dropped>>
  BY DEF Enqueue, Schedule, work
<1>3. \/ ready' = Append(ready, e) /\ scheduled' = scheduled
      \/ scheduled' = Append(scheduled, e) /\ ready' = ready
  BY DEF Enqueue, Schedule, e
<1>4. ready \in Seq(Envelopes) /\ scheduled \in Seq(Envelopes)
  BY DEF MemoryInv, Stored
<1>5. In(e, Append(ready, e)) /\ \A x : In(x, ready) => In(x, Append(ready, e))
  BY <1>1, <1>4, AppendIn
<1>6. In(e, Append(scheduled, e)) /\ \A x : In(x, scheduled) => In(x, Append(scheduled, e))
  BY <1>1, <1>4, AppendIn
<1>7. Waits(e)' /\ \A x : Waits(x) => Waits(x)'
  BY <1>2, <1>3, <1>5, <1>6 DEF Waits
<1>8. \A k \in Jobs \ {j} : Alone(k)
  BY <1>2, <1>7 DEF Alone
<1> QED
  BY <1>2, <1>7, <1>8, Submits DEF e

LEMMA PromoteMoves ==
  ASSUME MemoryInv, MemoryInv', NEW w \in Workers, Promote(w) PROVE LedgerMoves
<1>1. PICK I \in SUBSET (DOMAIN scheduled) :
        ready' = ready \o At(scheduled, I) /\ scheduled' = At(scheduled, DOMAIN scheduled \ I)
  BY PromoteFacts
<1>2. ready \in Seq(Envelopes) /\ scheduled \in Seq(Envelopes) /\ Single(scheduled)
  BY DEF MemoryInv, Stored, Custody, Lone
<1>3. At(scheduled, I) \in Seq(Envelopes)
  BY <1>1, <1>2, AtFacts
<1>4. \A x : In(x, scheduled) => In(x, At(scheduled, I)) \/ In(x, scheduled')
  BY <1>1, <1>2, SplitIn
<1>5. \A x : In(x, ready) \/ In(x, At(scheduled, I)) => In(x, ready')
  BY <1>1, <1>2, <1>3, ConcatIn
<1>6. UNCHANGED <<batch, submitted, done, graves, dropped>>
  BY DEF Promote, hist
<1>7. \A e : Waits(e) => Waits(e)'
  BY <1>4, <1>5, <1>6 DEF Waits
<1> QED
  BY <1>6, <1>7, Rests

LEMMA PopMoves ==
  ASSUME MemoryInv, MemoryInv', NEW w \in Workers, Pop(w) PROVE LedgerMoves
<1>1. PICK I \in SUBSET (DOMAIN ready) :
        batch' = [batch EXCEPT ![w] = At(ready, I)] /\ ready' = At(ready, DOMAIN ready \ I)
  BY PopFacts
<1>2. /\ ready \in Seq(Envelopes) /\ Single(ready) /\ batch \in [Workers -> Seq(Envelopes)] /\ batch[w] = <<>>
      /\ step[w] = "promoted"
  BY DEF MemoryInv, Stored, Custody, Lone, Passing, Pop
<1>3. batch'[w] = At(ready, I) /\ \A u \in Workers : u # w => batch'[u] = batch[u]
  BY <1>1, <1>2
<1>4. \A x : In(x, ready) => In(x, batch'[w]) \/ In(x, ready')
  BY <1>1, <1>2, <1>3, SplitIn
<1>5. \A x : ~ In(x, <<>>)
  BY DEF In
<1>6. UNCHANGED <<scheduled, submitted, done, graves, dropped>>
  BY DEF Pop, hist
<1>7. \A e : Waits(e) => Waits(e)'
  BY <1>2, <1>3, <1>4, <1>5, <1>6 DEF Waits
<1> QED
  BY <1>6, <1>7, Rests

LEMMA BuryMoves ==
  ASSUME MemoryInv, MemoryInv', NEW w \in Workers,
         Bury(w) \/ BuryUnknown(w)
  PROVE  LedgerMoves
<1> DEFINE e == Head(batch[w])
<1>1. /\ step[w] = "running" /\ Advance(w) /\ MoveToDead(e)
      /\ UNCHANGED <<ready, scheduled, submitted, done, dropped>>
  BY DEF Bury, BuryUnknown, Turn
<1>2. Stored /\ Passing
  BY DEF MemoryInv
<1>3. e \in Envelopes /\ Waits(e)
  BY <1>1, <1>2, HeadGone
<1>4. JobsIn(graves') = JobsIn(graves) \cup {e.job}
  <2> HIDE DEF e
  <2>1. graves' = Append(graves, e) /\ graves \in Seq(Envelopes)
    BY <1>1, <1>2 DEF Stored, MoveToDead
  <2>2. \A p : p = Append(graves, e) => JobsIn(p) = JobsIn(graves) \cup {e.job}
    BY <1>3, <2>1, AppendJobs
  <2> QED
    BY <2>1, <2>2
<1>5. \A k \in Jobs \ {e.job} : Alone(k)
  BY <1>1, <1>2, <1>4, OthersRest
<1> HIDE DEF e
<1> QED
  BY <1>3, <1>4, <1>5, Settles

LEMMA CompleteMoves ==
  ASSUME MemoryInv, MemoryInv', NEW w \in Workers, Complete(w) PROVE LedgerMoves
<1> DEFINE e == Head(batch[w])
<1>1. /\ step[w] = "running" /\ Advance(w) /\ done' = done \cup {e.job}
      /\ UNCHANGED <<ready, scheduled, submitted, graves, dropped>>
  BY DEF Complete, Turn, store
<1>2. Stored /\ Passing
  BY DEF MemoryInv
<1>3. Waits(e)
  BY <1>1, <1>2, HeadGone
<1>4. \A k \in Jobs \ {e.job} : Alone(k)
  BY <1>1, <1>2, OthersRest
<1> HIDE DEF e
<1> QED
  BY <1>1, <1>3, <1>4, Settles

LEMMA RetryMoves ==
  ASSUME MemoryInv, MemoryInv', NEW w \in Workers, Retry(w) PROVE LedgerMoves
<1> DEFINE e == Head(batch[w])
<1>0. PICK f : f = [e EXCEPT !.attempt = @ + 1]
  OBVIOUS
<1>1. /\ step[w] = "running" /\ Advance(w) /\ scheduled' = Append(scheduled, f)
      /\ e.attempt < MaxAttempts[e.job]
      /\ UNCHANGED <<ready, submitted, done, graves, dropped>>
  BY <1>0 DEF Retry, Turn, hist
<1>2. Stored /\ Passing
  BY DEF MemoryInv
<1>3. e \in Envelopes /\ Waits(e)
  BY <1>1, <1>2, HeadGone
<1>4. f \in Envelopes /\ f.job = e.job /\ f.attempt = e.attempt + 1
  <2> HIDE DEF e
  <2> QED
    BY <1>0, <1>3, NextEnvs
<1>5. scheduled \in Seq(Envelopes)
  BY <1>2 DEF Stored
<1>6. In(f, scheduled') /\ \A x : In(x, scheduled) => In(x, scheduled')
  BY <1>1, <1>4, <1>5, AppendIn
<1>7. Waits(f)'
  BY <1>6 DEF Waits
<1>8. \A k \in Jobs \ {e.job} : Alone(k)
  BY <1>1, <1>2, <1>6, OthersRest
<1> HIDE DEF e
<1>9. f.attempt \in (e.attempt + 1) .. MaxAttempts[e.job]
  <2>1. e.attempt \in Nat /\ MaxAttempts[e.job] \in Nat
    BY <1>3, MemoryAssumption DEF Envelopes
  <2> QED
    BY <1>1, <1>4, <2>1
<1> QED
  BY <1>3, <1>4, <1>7, <1>8, <1>9, Retries

LEMMA CancelMoves ==
  ASSUME MemoryInv, MemoryInv', NEW w \in Workers, Cancel(w) PROVE LedgerMoves
<1> DEFINE S == JobsIn(batch[w])
<1>1. /\ dropped' = dropped \cup {env.job : env \in ToSet(batch[w])}
      /\ batch' = [batch EXCEPT ![w] = <<>>]
      /\ UNCHANGED <<ready, scheduled, submitted, done, graves>>
  BY DEF Cancel, store
<1>2. batch \in [Workers -> Seq(Envelopes)] /\ batch[w] \in Seq(Envelopes)
  BY DEF MemoryInv, Stored
<1>3. \A u \in Workers : u # w => batch'[u] = batch[u]
  BY <1>1, <1>2
<1>4. \A j \in S : \E e : In(e, batch[w]) /\ e.job = j
  BY DEF In, JobsIn
<1>5. \A j \in S : j \in dropped' /\ \E e : Waits(e) /\ e.job = j
  <2>1. \A e : In(e, batch[w]) => e.job \in dropped'
    BY <1>1, InIs
  <2> QED
    BY <1>4, <2>1 DEF Waits
<1>6. \A x : In(x, batch[w]) => x.job \in S
  BY InJobs
<1>7. S \in SUBSET Jobs
  BY <1>4, <1>5, WaitsOnce
<1> HIDE DEF S
<1>8. \A x : Waits(x) /\ x.job \notin S => Waits(x)'
  BY <1>1, <1>3, <1>6 DEF Waits
<1>9. \A j \in Jobs \ S : Alone(j)
  BY <1>1, <1>8 DEF Alone
<1> QED
  BY <1>5, <1>7, <1>9, Loses

LEMMA LedgerStep ==
  ASSUME MemoryInv, MemoryInv', [Next]_vars PROVE LedgerMoves
<1>1. ASSUME UNCHANGED <<ready, scheduled, batch, submitted, done, graves, dropped>> PROVE LedgerMoves
  <2>1. \A e : Waits(e) => Waits(e)'
    BY <1>1 DEF Waits
  <2> QED
    BY <1>1, <2>1, Rests
<1>2. CASE BecomeDue \/ Drain \/ UNCHANGED vars
  BY <1>1, <1>2 DEF BecomeDue, Drain, vars, store, work, hist
<1>3. ASSUME NEW w \in Workers, Start(w) \/ HandlerReturns(w) PROVE LedgerMoves
  <2>1. UNCHANGED <<ready, scheduled, batch, submitted, done, graves, dropped>>
    BY <1>3 DEF Start, HandlerReturns, store, hist
  <2> QED
    BY <1>1, <2>1
<1>4. CASE \E j \in Jobs : Enqueue(j) \/ Schedule(j)
  BY <1>4, EnqueueMoves
<1>5. CASE \E w \in Workers : Work(w) \/ Cancel(w)
  BY <1>3, <1>5, PromoteMoves, PopMoves, BuryMoves, CompleteMoves, RetryMoves, CancelMoves DEF Work
<1> QED
  BY <1>2, <1>4, <1>5 DEF Next

\* The memory backend implements the ledger of jobs: each is submitted once, retried with
\* a growing attempt within its budget and settled once, and only the jobs of a dropped
\* batch are lost (run_envelope_memory).
THEOREM LedgerImplemented ==
  Spec => ImplementsLedger
<1>1. Init => Ledger!Init
  <2> SUFFICES ASSUME Init PROVE Ledger!Init
    OBVIOUS
  <2>1. MemoryInv /\ submitted = {}
    BY MemoryInit DEF Init
  <2>2. \A j \in Jobs : status[j] = "absent" /\ attempt[j] = 0
    BY <2>1, MappedNow DEF Mapped
  <2>3. status = [j \in Jobs |-> status[j]] /\ attempt = [j \in Jobs |-> attempt[j]]
    BY DEF status, attempt
  <2>4. status = [j \in Jobs |-> "absent"] /\ attempt = [j \in Jobs |-> 0]
    BY <2>2, <2>3
  <2> QED
    BY <2>4 DEF Ledger!Init, status, attempt
<1>2. MemoryInv /\ MemoryInv' /\ [Next]_vars => [Ledger!Next]_<<status, attempt>>
  BY LedgerStep DEF LedgerMoves
<1> QED
  BY <1>1, <1>2, MemoryHolds, PTL DEF Spec, ImplementsLedger, Ledger!Spec, status, attempt

-----------------------------------------------------------------------------
(* The periodic pass: JobPeriodic, which shares no state with the queues.  *)
(* First, sets of times.                                                   *)

\* The least of a set of times.
LEMMA MinFacts ==
  ASSUME NEW S \in SUBSET Nat, S # {}
  PROVE  Min(S) \in S /\ \A y \in S : Min(S) <= y
<1>1. PICK x \in S : \A y \in S : ~ (<<y, x>> \in OpToRel(<, Nat))
  BY NatLessThanWellFounded, WFMin
<1>2. \A y \in S : x <= y
  <2> TAKE y \in S
  <2>1. ~ (y < x)
    BY <1>1 DEF OpToRel
  <2> QED
    BY <2>1
<1>3. \E z \in S : \A y \in S : z =< y
  BY <1>2
<1> QED
  BY <1>3 DEF Min

\* The earliest members of a set leave none out before their last.
LEMMA EarliestFacts ==
  ASSUME NEW n \in Nat, NEW S \in SUBSET Nat, IsFiniteSet(S)
  PROVE  /\ Earliest(n, S) \subseteq S
         /\ \A t \in Earliest(n, S) : \A u \in S : u < t => u \in Earliest(n, S)
<1>1. ASSUME NEW t \in Earliest(n, S), NEW u \in S, u < t PROVE u \in Earliest(n, S)
  <2> DEFINE before(x) == {v \in S : v < x}
  <2>1. t \in S /\ Cardinality(before(t)) < n
    BY DEF Earliest
  <2>2. before(t) \in SUBSET S /\ before(u) \in SUBSET before(t)
    <3>1. t \in Nat /\ u \in Nat /\ \A v \in S : v \in Nat
      BY <2>1
    <3>2. \A v \in S : v < u => v < t
      BY <1>1, <3>1
    <3> QED
      BY <3>2
  <2>3. IsFiniteSet(before(t)) /\ IsFiniteSet(before(u))
    BY <2>2, FS_Subset
  <2>4. Cardinality(before(u)) <= Cardinality(before(t))
    BY <2>2, <2>3, FS_Subset
  <2>5. Cardinality(before(u)) \in Nat /\ Cardinality(before(t)) \in Nat
    BY <2>3, FS_CardinalityType
  <2>6. Cardinality(before(u)) < n
    BY <2>1, <2>4, <2>5
  <2> QED
    BY <2>6 DEF Earliest
<1> QED
  BY <1>1 DEF Earliest

\* The slot an instant of an interval schedule is in.
LEMMA SlotFacts ==
  ASSUME NEW a \in Nat, NEW e \in Nat \ {0}
  PROVE  LET slot == (a \div e) * e IN slot \in Nat /\ slot <= a /\ a < slot + e
<1>1. a \div e \in Int /\ a % e \in 0 .. (e - 1) /\ a = e * (a \div e) + (a % e)
  OBVIOUS
<1> DEFINE q == a \div e
           r == a % e
<1> HIDE DEF q, r
<1>2. q \in Int /\ r \in Nat /\ r < e /\ a = e * q + r
  BY <1>1 DEF q, r
<1>3. e * q \in Int /\ e * q <= a /\ a < e * q + e
  BY <1>2
<1>4. q >= 0
  <2>1. q < 0 => e * q <= - e
    BY <1>2
  <2> QED
    BY <1>2, <1>3, <2>1
<1>5. q * e \in Nat /\ q * e = e * q
  BY <1>2, <1>4
<1> QED
  BY <1>3, <1>5 DEF q

\* What is due: slots that have come, of an interval the one the clock is in, of a cron
\* job with no instant left out since the last-fired key.
LEMMA DueFacts ==
  ASSUME PeriodicTypeOK, NEW at \in Times
  PROVE  LET D == DueSlots(at, last)
         IN /\ D \in SUBSET Times
            /\ \A t \in D : t <= at /\ (schedule.every > 0 => at < t + schedule.every)
            /\ \A t \in D : \A u \in schedule.cron :
                 last # Never /\ last < u /\ u < t => u \in D
<1> DEFINE D == DueSlots(at, last)
<1>0. /\ schedule.every \in Nat /\ schedule.cron \in SUBSET Times /\ Horizon \in Nat
      /\ schedule.every = 0 \/ (schedule.cron = {} /\ schedule.every \in Nat \ {0})
      /\ at \in Nat /\ MaxCatchUp \in Nat /\ Times \subseteq Nat /\ PollWindow \in Nat
  <2>1. schedule \in Schedules
    BY DEF PeriodicTypeOK
  <2>2. Horizon \in Nat /\ MaxCatchUp \in Nat /\ PollWindow \in Nat
    BY PeriodicAssumption
  <2>3. /\ schedule \in [every : Nat, cron : SUBSET Times, ttl : Nat \ {0},
                         since : Times \cup {Never}]
        /\ (schedule.every = 0) # (schedule.cron = {})
    BY <2>1, PeriodicAssumption
  <2>4. Times \subseteq Nat /\ at \in Nat
    BY <2>2 DEF Times
  <2> QED
    BY <2>2, <2>3, <2>4
<1>1. CASE schedule.every > 0
  <2> DEFINE slot == (at \div schedule.every) * schedule.every
  <2>1. D \subseteq {slot}
    BY <1>1 DEF DueSlots
  <2>2. slot \in Nat /\ slot <= at /\ at < slot + schedule.every
    BY <1>0, <1>1, SlotFacts
  <2> HIDE DEF slot
  <2>3. slot \in Times
    BY <1>0, <2>2 DEF Times
  <2>4. schedule.cron = {}
    BY <1>0, <1>1
  <2> QED
    BY <1>0, <2>1, <2>2, <2>3, <2>4
<1>2. CASE ~ (schedule.every > 0)
  <2> DEFINE start == IF last = Never THEN at - PollWindow ELSE last
             S == {u \in schedule.cron : u > start}
             E == Earliest(MaxCatchUp, S)
  <2>1. D = {t \in E : t <= at}
    BY <1>2 DEF DueSlots
  <2>2. S \in SUBSET Nat /\ S \subseteq Times
    BY <1>0
  <2>3. IsFiniteSet(S)
    <3>1. IsFiniteSet(0 .. Horizon)
      BY <1>0, FS_Interval
    <3> QED
      BY <2>2, <3>1, FS_Subset DEF Times
  <2>4. E \subseteq S /\ \A t \in E : \A u \in S : u < t => u \in E
    BY <1>0, <2>2, <2>3, EarliestFacts
  <2> HIDE DEF E
  <2>5. \A t \in D : \A u \in schedule.cron : last # Never /\ last < u /\ u < t => u \in D
    <3> SUFFICES ASSUME NEW t \in D, NEW u \in schedule.cron, last # Never, last < u, u < t
                 PROVE  u \in D
      OBVIOUS
    <3>1. t \in E /\ t <= at /\ u \in S /\ t \in Nat /\ u \in Nat
      BY <1>0, <2>1, <2>2, <2>4
    <3>2. u \in E /\ u <= at
      BY <1>0, <2>4, <3>1
    <3> QED
      BY <2>1, <3>2
  <2>6. D \in SUBSET Times
    BY <2>1, <2>2, <2>4
  <2>7. \A t \in D : t <= at
    BY <2>1
  <2> HIDE DEF D
  <2> QED
    BY <1>2, <2>5, <2>6, <2>7 DEF D
<1> QED
  BY <1>0, <1>1, <1>2

-----------------------------------------------------------------------------
(* Types.                                                                  *)

\* What a pass is made of.
Passes == [at : Steps, now : Times, slots : SUBSET Times]

\* A worker goes on to a smaller set of slots.
LEMMA NextSlotType ==
  ASSUME PeriodicTypeOK, NEW w \in Schedulers, NEW slot, NextSlot(w, slot)
  PROVE  pass' \in [Schedulers -> Passes]
<1>1. Idle \in Passes
  BY PeriodicAssumption DEF Idle, Passes, Steps, Times
<1>2. [pass[w] EXCEPT !.at = "lock", !.slots = pass[w].slots \ {slot}] \in Passes
  <2>1. pass[w] \in Passes
    BY DEF PeriodicTypeOK, Passes
  <2> QED
    BY <2>1 DEF Passes, Steps
<1> QED
  BY <1>1, <1>2 DEF NextSlot, PeriodicTypeOK, Passes

\* TypeOK holds in every reachable state, and a worker that is to lock, add or set has a
\* slot to do it for.
Typed == PeriodicTypeOK /\ \A w \in Schedulers : pass[w].at \in {"lock", "add", "set"} => pass[w].slots # {}

\* The slot a worker is at.
LEMMA AtSlot ==
  ASSUME Typed, NEW w \in Schedulers, pass[w].at \in {"lock", "add", "set"}
  PROVE  /\ Min(pass[w].slots) \in pass[w].slots /\ Min(pass[w].slots) \in Times
         /\ \A t \in pass[w].slots : Min(pass[w].slots) <= t
<1>1. pass[w].slots \in SUBSET Times /\ pass[w].slots # {} /\ Times \subseteq Nat
  BY PeriodicAssumption DEF Typed, PeriodicTypeOK, Times
<1> QED
  BY <1>1, MinFacts

\* At first every worker is idle.
LEMMA TypedInit == PeriodicInit => Typed
  BY PeriodicAssumption DEF PeriodicInit, Typed, PeriodicTypeOK, Idle, Times, Steps

\* Every step keeps the types.
LEMMA TypedStep == Typed /\ [PeriodicNext]_periodicVars => Typed'
<1> SUFFICES ASSUME Typed, [PeriodicNext]_periodicVars PROVE Typed'
  OBVIOUS
<1>0. /\ pass \in [Schedulers -> Passes] /\ Idle \in Passes /\ now \in Times /\ Horizon \in Nat
      /\ schedule \in Schedules /\ schedule.ttl \in Nat /\ aborts \in 0 .. MaxAborts /\ MaxAborts \in Nat
  BY PeriodicAssumption DEF Typed, PeriodicTypeOK, Idle, Passes, Steps, Times
<1>1. CASE Tick
  <2>1. now' \in Times
    BY <1>0, <1>1 DEF Tick, Times
  <2> QED
    BY <1>1, <2>1 DEF Tick, Typed, PeriodicTypeOK
<1>2. ASSUME NEW w \in Schedulers, ReadClock(w) PROVE Typed'
  <2>1. [at |-> "clock", now |-> now, slots |-> {}] \in Passes
    BY <1>0 DEF Passes, Steps
  <2> QED
    BY <1>0, <1>2, <2>1 DEF ReadClock, Typed, PeriodicTypeOK, Passes
<1>3. ASSUME NEW w \in Schedulers, ReadLast(w) PROVE Typed'
  <2> DEFINE D == DueSlots(pass[w].now, last)
  <2>1. pass[w].now \in Times
    BY <1>0 DEF Passes
  <2>2. D \in SUBSET Times
    BY <2>1, DueFacts DEF Typed
  <2> HIDE DEF D
  <2>3. pass' = [pass EXCEPT ![w] = IF D = {} THEN Idle
                                    ELSE [pass[w] EXCEPT !.at = "lock", !.slots = D]]
    BY <1>3 DEF ReadLast, D
  <2>4. [pass[w] EXCEPT !.at = "lock", !.slots = D] \in Passes
    BY <1>0, <2>2 DEF Passes, Steps
  <2>5. pass' \in [Schedulers -> Passes]
    BY <1>0, <2>3, <2>4
  <2>6. \A v \in Schedulers : pass'[v].at \in {"lock", "add", "set"} => pass'[v].slots # {}
    BY <1>0, <2>3 DEF Passes, Typed, Idle
  <2> QED
    BY <1>3, <2>5, <2>6 DEF ReadLast, Typed, PeriodicTypeOK, Passes
<1>4. ASSUME NEW w \in Schedulers, NEW slot, NextSlot(w, slot)
      PROVE  /\ pass' \in [Schedulers -> Passes]
             /\ \A v \in Schedulers : pass'[v].at \in {"lock", "add", "set"} => pass'[v].slots # {}
  <2>1. pass' \in [Schedulers -> Passes]
    BY <1>4, NextSlotType DEF Typed
  <2>2. \A v \in Schedulers : pass'[v].at \in {"lock", "add", "set"} => pass'[v].slots # {}
    BY <1>0, <1>4 DEF Passes, Typed, NextSlot, Idle
  <2> QED
    BY <2>1, <2>2
<1>5. ASSUME NEW w \in Schedulers, NEW s \in {"add", "set"}, pass[w].at \in {"lock", "add"},
             pass' = [pass EXCEPT ![w].at = s]
      PROVE  /\ pass' \in [Schedulers -> Passes]
             /\ \A v \in Schedulers : pass'[v].at \in {"lock", "add", "set"} => pass'[v].slots # {}
  BY <1>0, <1>5 DEF Passes, Steps, Typed
<1>6. ASSUME NEW w \in Schedulers, TryLock(w) PROVE Typed'
  <2> DEFINE slot == Min(pass[w].slots)
  <2>1. slot \in Times
    BY <1>6, AtSlot DEF TryLock
  <2> HIDE DEF slot
  <2>2. CASE NextSlot(w, slot) /\ UNCHANGED locks
    BY <1>4, <1>6, <2>2 DEF TryLock, Typed, PeriodicTypeOK, Passes
  <2>3. CASE locks' = [locks EXCEPT ![slot] = now + schedule.ttl] /\ pass' = [pass EXCEPT ![w].at = "add"]
    <3>1. now + schedule.ttl \in Nat
      BY <1>0 DEF Times
    <3>2. locks' \in [Times -> Nat \cup {Never}]
      BY <2>3, <3>1 DEF Typed, PeriodicTypeOK
    <3>3. /\ pass' \in [Schedulers -> Passes]
          /\ \A v \in Schedulers : pass'[v].at \in {"lock", "add", "set"} => pass'[v].slots # {}
      BY <1>5, <1>6, <2>3 DEF TryLock
    <3> QED
      BY <1>6, <3>2, <3>3 DEF TryLock, Typed, PeriodicTypeOK, Passes
  <2> QED
    BY <1>6, <2>2, <2>3 DEF TryLock, slot
<1>7. ASSUME NEW w \in Schedulers, AddJob(w) PROVE Typed'
  <2>1. Min(pass[w].slots) \in Times
    BY <1>7, AtSlot DEF AddJob
  <2>2. fired' \in Seq(Times)
    BY <1>7, <2>1 DEF AddJob, Typed, PeriodicTypeOK
  <2>3. /\ pass' \in [Schedulers -> Passes]
        /\ \A v \in Schedulers : pass'[v].at \in {"lock", "add", "set"} => pass'[v].slots # {}
    BY <1>5, <1>7 DEF AddJob
  <2> QED
    BY <1>7, <2>2, <2>3 DEF AddJob, Typed, PeriodicTypeOK, Passes
<1>8. ASSUME NEW w \in Schedulers, SetLast(w) PROVE Typed'
  <2>1. Min(pass[w].slots) \in Times
    BY <1>8, AtSlot DEF SetLast
  <2>2. /\ pass' \in [Schedulers -> Passes]
        /\ \A v \in Schedulers : pass'[v].at \in {"lock", "add", "set"} => pass'[v].slots # {}
    BY <1>4, <1>8 DEF SetLast
  <2> QED
    BY <1>8, <2>1, <2>2 DEF SetLast, Typed, PeriodicTypeOK, Passes
<1>9. ASSUME NEW w \in Schedulers, Abort(w) PROVE Typed'
  <2>1. aborts' \in 0 .. MaxAborts
    BY <1>0, <1>9 DEF Abort
  <2>2. pass' \in [Schedulers -> Passes]
    BY <1>0, <1>9 DEF Abort
  <2>3. \A v \in Schedulers : pass'[v].at \in {"lock", "add", "set"} => pass'[v].slots # {}
    BY <1>0, <1>9 DEF Abort, Idle, Typed
  <2> QED
    BY <1>9, <2>1, <2>2, <2>3 DEF Abort, Typed, PeriodicTypeOK, Passes
<1>10. CASE UNCHANGED periodicVars
  BY <1>10 DEF periodicVars, Typed, PeriodicTypeOK
<1> QED
  BY <1>1, <1>2, <1>3, <1>6, <1>7, <1>8, <1>9, <1>10 DEF PeriodicNext, PassStep

\* Types of the clock, the lock and last-fired keys, and the workers' passes, for every
\* instance of enqueue_due_periodic_jobs.
THEOREM PeriodicTypeCorrect == PeriodicSpec => []PeriodicTypeOK
<1>1. Typed => PeriodicTypeOK
  BY DEF Typed
<1> QED
  BY <1>1, TypedInit, TypedStep, PTL DEF PeriodicSpec

-----------------------------------------------------------------------------
(* Who has, or is about to have, what fired.                               *)

Reached == Fired \cup InHand

\* A step of one worker leaves the passes of the others alone.
Others(w) == \A v \in Schedulers \ {w} : pass'[v] = pass[v]

\* XADD.
LEMMA FiredAppend ==
  ASSUME Typed, NEW slot \in Times, fired' = Append(fired, slot)
  PROVE  /\ Fired' = Fired \cup {slot}
         /\ SlotOnce /\ slot \notin Fired => SlotOnce'
<1>1. /\ Len(fired) \in Nat /\ Len(fired') = Len(fired) + 1
      /\ DOMAIN fired = 1 .. Len(fired) /\ DOMAIN fired' = 1 .. Len(fired) + 1
      /\ \A i \in 1 .. Len(fired) : fired'[i] = fired[i]
      /\ fired'[Len(fired) + 1] = slot
  BY DEF Typed, PeriodicTypeOK
<1>2. \A i \in DOMAIN fired' : i \in DOMAIN fired \/ i = Len(fired) + 1
  BY <1>1
<1>3. \A i \in DOMAIN fired : i \in DOMAIN fired' /\ i # Len(fired) + 1
  BY <1>1
<1>4. Len(fired) + 1 \in DOMAIN fired'
  BY <1>1
<1>5. Fired' = Fired \cup {slot}
  BY <1>1, <1>2, <1>3, <1>4 DEF Fired
<1>6. ASSUME SlotOnce, slot \notin Fired PROVE SlotOnce'
  BY <1>1, <1>2, <1>6 DEF SlotOnce, Fired
<1> QED
  BY <1>5, <1>6

\* A worker that is not at its XADD before or after the step changes nothing ...
LEMMA HandKept ==
  ASSUME NEW w \in Schedulers, Others(w), pass[w].at # "add", pass'[w].at # "add"
  PROVE  InHand' = InHand
<1>1. {v \in Schedulers : pass'[v].at = "add"} = {v \in Schedulers : pass[v].at = "add"}
  BY DEF Others
<1>2. \A v \in Schedulers : pass[v].at = "add" => Min(pass'[v].slots) = Min(pass[v].slots)
  BY DEF Others
<1> QED
  BY <1>1, <1>2 DEF InHand

\* ... one that comes to it takes its slot in hand ...
LEMMA HandTakes ==
  ASSUME NEW w \in Schedulers, Others(w), pass[w].at = "lock", pass'[w].at = "add",
         pass'[w].slots = pass[w].slots
  PROVE  InHand' = InHand \cup {Min(pass[w].slots)}
<1>1. {v \in Schedulers : pass'[v].at = "add"} = {v \in Schedulers : pass[v].at = "add"} \cup {w}
  BY DEF Others
<1>2. \A v \in Schedulers : Min(pass'[v].slots) = Min(pass[v].slots)
  BY DEF Others
<1> QED
  BY <1>1, <1>2 DEF InHand

\* ... and one that has done it lets go of it.
LEMMA HandGives ==
  ASSUME NEW w \in Schedulers, Others(w), pass[w].at = "add", pass'[w].at # "add"
  PROVE  InHand \subseteq InHand' \cup {Min(pass[w].slots)} /\ InHand' \subseteq InHand
<1>1. \A v \in Schedulers : pass'[v].at = "add" => v # w /\ pass[v].at = "add" /\ pass'[v] = pass[v]
  BY DEF Others
<1>2. \A v \in Schedulers : pass[v].at = "add" => v = w \/ pass'[v] = pass[v]
  BY DEF Others
<1>3. InHand' = {Min(pass'[v].slots) : v \in {u \in Schedulers : pass'[u].at = "add"}}
  BY DEF InHand
<1>4. ASSUME NEW x \in InHand' PROVE x \in InHand
  <2>1. PICK v \in Schedulers : pass'[v].at = "add" /\ x = Min(pass'[v].slots)
    BY <1>3, <1>4
  <2> QED
    BY <1>1, <2>1 DEF InHand
<1>5. ASSUME NEW x \in InHand PROVE x \in InHand' \cup {Min(pass[w].slots)}
  <2>1. PICK v \in Schedulers : pass[v].at = "add" /\ x = Min(pass[v].slots)
    BY <1>5 DEF InHand
  <2>2. CASE v = w
    BY <2>1, <2>2
  <2>3. CASE v # w
    <3>1. pass'[v] = pass[v]
      BY <1>2, <2>1, <2>3
    <3> QED
      BY <1>3, <2>1, <3>1
  <2> QED
    BY <2>2, <2>3
<1> QED
  BY <1>4, <1>5

\* What NextSlot makes of a pass.
LEMMA NextSlotFacts ==
  ASSUME Typed, NEW w \in Schedulers, NEW slot, NextSlot(w, slot)
  PROVE  /\ Others(w) /\ pass'[w].at \in {"idle", "lock"}
         /\ pass'[w].slots = pass[w].slots \ {slot}
         /\ pass'[w].at # "idle" => pass'[w].now = pass[w].now
<1>1. pass \in [Schedulers -> Passes]
  BY DEF Typed, PeriodicTypeOK, Passes
<1> QED
  BY <1>1 DEF NextSlot, Others, Idle, Passes

\* What a worker at a step does to its own pass.
LEMMA StepFacts ==
  ASSUME Typed, NEW w \in Schedulers, NEW s \in Steps, pass' = [pass EXCEPT ![w].at = s]
  PROVE  /\ Others(w) /\ pass'[w].at = s
         /\ pass'[w].slots = pass[w].slots /\ pass'[w].now = pass[w].now
<1>1. pass \in [Schedulers -> Passes]
  BY DEF Typed, PeriodicTypeOK, Passes
<1> QED
  BY <1>1 DEF Others, Passes

\* The reading of the last-fired key.
LEMMA ReadLastFacts ==
  ASSUME Typed, NEW w \in Schedulers, ReadLast(w)
  PROVE  /\ Others(w) /\ pass[w].at = "clock" /\ pass'[w].at \in {"idle", "lock"}
         /\ pass'[w].slots = DueSlots(pass[w].now, last) /\ pass[w].now \in Times
         /\ pass'[w].at # "idle" => pass'[w].now = pass[w].now
<1>1. pass \in [Schedulers -> Passes]
  BY DEF Typed, PeriodicTypeOK, Passes
<1> DEFINE D == DueSlots(pass[w].now, last)
<1>2. pass[w].at = "clock" /\ pass' = [pass EXCEPT ![w] = IF D = {} THEN Idle
                                       ELSE [pass[w] EXCEPT !.at = "lock", !.slots = D]]
  BY DEF ReadLast
<1> HIDE DEF D
<1>3. /\ Others(w) /\ pass'[w].at \in {"idle", "lock"} /\ pass'[w].slots = D
      /\ pass'[w].at # "idle" => pass'[w].now = pass[w].now
  BY <1>1, <1>2 DEF Others, Idle, Passes
<1> QED
  BY <1>1, <1>2, <1>3 DEF D, Passes

-----------------------------------------------------------------------------
(* No gap.                                                                 *)

Busy == {"lock", "add", "set"}

\* While no pass is cut short: what is owed up to the last-fired key has been reached,
\* and so has what has a lock; a worker leaves no owed instant out before its slots; the
\* slot it sets the key to has fired.
Whole ==
  /\ last = Never => schedule.since = Never
  /\ \A t \in Owed : t <= last => t \in Reached
  /\ \A t \in Times : locks[t] # Never => t \in Reached
  /\ \A w \in Schedulers : pass[w].at \in Busy =>
       \A t \in pass[w].slots : \A u \in Owed : u < t => u \in Reached \cup pass[w].slots
  /\ \A w \in Schedulers : pass[w].at = "set" => Min(pass[w].slots) \in Fired

GapInv == Typed /\ (aborts = 0 => Whole)

\* What a step of one worker has to keep of it.
LEMMA WholeStep ==
  ASSUME Whole, NEW w \in Schedulers, Others(w), UNCHANGED schedule,
         Reached \subseteq Reached', Fired \subseteq Fired',
         \A t \in Times : locks'[t] # Never => locks[t] # Never \/ t \in Reached',
         last' = last \/ (last' # Never /\ \A t \in Owed : t <= last' => t \in Reached'),
         pass'[w].at \in Busy =>
           \A t \in pass'[w].slots : \A u \in Owed : u < t => u \in Reached' \cup pass'[w].slots,
         pass'[w].at = "set" => Min(pass'[w].slots) \in Fired'
  PROVE  Whole'
<1>1. Owed' = Owed
  BY DEF Owed
<1>2. (last = Never => schedule.since = Never)'
  BY DEF Whole
<1>3. (\A t \in Owed : t <= last => t \in Reached)'
  <2>1. CASE last' = last
    BY <1>1, <2>1 DEF Whole
  <2>2. CASE last' # Never /\ \A t \in Owed : t <= last' => t \in Reached'
    BY <1>1, <2>2
  <2> QED
    BY <2>1, <2>2
<1>4. (\A t \in Times : locks[t] # Never => t \in Reached)'
  BY DEF Whole
<1>5. ASSUME NEW v \in Schedulers, pass'[v].at \in Busy, NEW t \in pass'[v].slots, NEW u \in Owed, u < t
      PROVE  u \in Reached' \cup pass'[v].slots
  <2>1. CASE v = w
    BY <1>5, <2>1
  <2>2. CASE v # w
    <3>1. pass'[v] = pass[v]
      BY <2>2 DEF Others
    <3>2. u \in Reached \cup pass[v].slots
      BY <1>5, <3>1 DEF Whole
    <3> QED
      BY <3>1, <3>2
  <2> QED
    BY <2>1, <2>2
<1>6. ASSUME NEW v \in Schedulers, pass'[v].at = "set" PROVE Min(pass'[v].slots) \in Fired'
  <2>1. CASE v = w
    BY <1>6, <2>1
  <2>2. CASE v # w
    <3>1. pass'[v] = pass[v]
      BY <2>2 DEF Others
    <3>2. Min(pass[v].slots) \in Fired
      BY <1>6, <3>1 DEF Whole
    <3> QED
      BY <3>1, <3>2
  <2> QED
    BY <2>1, <2>2
<1> QED
  BY <1>1, <1>2, <1>3, <1>4, <1>5, <1>6 DEF Whole

\* Nothing is owed at first, and nothing locked.
LEMMA GapInit == PeriodicInit => GapInv
<1> SUFFICES ASSUME PeriodicInit PROVE Whole
  BY TypedInit DEF GapInv
<1>1. \A t \in Owed : t \in Nat /\ schedule.since \in Nat /\ t > schedule.since
  BY PeriodicAssumption DEF PeriodicInit, Owed, Times, Never
<1>2. last = schedule.since
  BY DEF PeriodicInit
<1>3. \A t \in Owed : ~ (t <= last)
  BY <1>1, <1>2
<1> QED
  BY <1>2, <1>3 DEF PeriodicInit, Whole, Idle, Busy

\* Every step keeps it.
LEMMA GapStep == GapInv /\ [PeriodicNext]_periodicVars => GapInv'
<1> SUFFICES ASSUME Typed, Typed', aborts = 0 => Whole, [PeriodicNext]_periodicVars, aborts' = 0 PROVE Whole'
  BY TypedStep DEF GapInv
<1> USE DEF Busy
<1>0. /\ Times \subseteq Nat /\ now \in Times /\ Owed \subseteq Times
      /\ \A w \in Schedulers : pass[w].slots \subseteq Times
  BY PeriodicAssumption DEF Typed, PeriodicTypeOK, Owed, Times
<1>1. CASE Tick
  BY <1>1 DEF Tick, Whole, Reached, Fired, InHand, Owed
<1>2. ASSUME NEW w \in Schedulers, ReadClock(w) PROVE Whole'
  <2>1. /\ Others(w) /\ pass[w].at # "add" /\ pass'[w].at = "clock" /\ Whole
        /\ UNCHANGED <<schedule, locks, last, fired>>
    BY <1>2 DEF ReadClock, Others, Typed, PeriodicTypeOK
  <2>2. Reached' = Reached /\ Fired' = Fired
    BY <2>1, HandKept DEF Reached, Fired
  <2> QED
    BY <2>1, <2>2, WholeStep
<1>3. ASSUME NEW w \in Schedulers, ReadLast(w) PROVE Whole'
  <2>1. UNCHANGED <<schedule, locks, last, fired>> /\ Whole
    BY <1>3 DEF ReadLast
  <2>2. /\ Others(w) /\ pass[w].at = "clock" /\ pass'[w].at \in {"idle", "lock"}
        /\ pass'[w].slots = DueSlots(pass[w].now, last) /\ pass[w].now \in Times
    BY <1>3, ReadLastFacts
  <2>3. Reached' = Reached /\ Fired' = Fired
    BY <2>1, <2>2, HandKept DEF Reached, Fired
  <2>4. ASSUME NEW t \in pass'[w].slots, NEW u \in Owed, u < t
        PROVE  u \in Reached' \cup pass'[w].slots
    <3>1. CASE u <= last
      BY <2>1, <2>3, <3>1 DEF Whole
    <3>2. CASE ~ (u <= last)
      <4>1. last # Never /\ last \in Times /\ u \in schedule.cron
        BY <2>1 DEF Whole, Owed, Typed, PeriodicTypeOK
      <4>2. last < u
        BY <1>0, <3>2, <4>1
      <4>3. u \in DueSlots(pass[w].now, last)
        BY <2>2, <2>4, <4>1, <4>2, DueFacts DEF Typed
      <4> QED
        BY <2>2, <4>3
    <3> QED
      BY <3>1, <3>2
  <2> QED
    BY <2>1, <2>2, <2>3, <2>4, WholeStep
<1>4. ASSUME NEW w \in Schedulers, TryLock(w) PROVE Whole'
  <2> DEFINE slot == Min(pass[w].slots)
  <2>1. /\ slot \in pass[w].slots /\ slot \in Times /\ pass[w].at = "lock" /\ Whole
        /\ UNCHANGED <<schedule, now, last, fired>>
    BY <1>4, AtSlot DEF TryLock
  <2>2. \A t \in pass[w].slots : \A u \in Owed : u < t => u \in Reached \cup pass[w].slots
    BY <2>1 DEF Whole
  <2>3. CASE Held(slot) /\ NextSlot(w, slot) /\ UNCHANGED locks
    <3>1. locks[slot] # Never
      BY <1>0, <2>1, <2>3 DEF Held, Never, Typed, PeriodicTypeOK
    <3>2. slot \in Reached
      BY <2>1, <3>1 DEF Whole
    <3>3. /\ Others(w) /\ pass'[w].at \in {"idle", "lock"}
          /\ pass'[w].slots = pass[w].slots \ {slot}
      BY <2>3, NextSlotFacts
    <3>4. Reached' = Reached /\ Fired' = Fired
      BY <2>1, <3>3, HandKept DEF Reached, Fired
    <3> HIDE DEF slot
    <3>5. \A t \in pass'[w].slots : \A u \in Owed : u < t => u \in Reached' \cup pass'[w].slots
      BY <2>2, <3>2, <3>3, <3>4
    <3> QED
      BY <2>1, <2>3, <3>3, <3>4, <3>5, WholeStep
  <2>4. CASE locks' = [locks EXCEPT ![slot] = now + schedule.ttl] /\ pass' = [pass EXCEPT ![w].at = "add"]
    <3>1. Others(w) /\ pass'[w].at = "add" /\ pass'[w].slots = pass[w].slots
      BY <2>4, StepFacts DEF Steps
    <3>2. Reached' = Reached \cup {slot} /\ Fired' = Fired
      BY <2>1, <3>1, HandTakes DEF Reached, Fired
    <3>3. \A t \in Times : t # slot => locks'[t] = locks[t]
      BY <2>4 DEF Typed, PeriodicTypeOK
    <3> HIDE DEF slot
    <3> QED
      BY <2>1, <2>2, <3>1, <3>2, <3>3, WholeStep
  <2> QED
    BY <1>4, <2>3, <2>4 DEF TryLock
<1>5. ASSUME NEW w \in Schedulers, AddJob(w) PROVE Whole'
  <2> DEFINE slot == Min(pass[w].slots)
  <2>1. /\ slot \in Times /\ pass[w].at = "add" /\ Whole /\ fired' = Append(fired, slot)
        /\ UNCHANGED <<schedule, now, locks, last>>
    BY <1>5, AtSlot DEF AddJob
  <2>2. Others(w) /\ pass'[w].at = "set" /\ pass'[w].slots = pass[w].slots
    BY <1>5, StepFacts DEF AddJob, Steps
  <2>3. Fired' = Fired \cup {slot}
    BY <2>1, FiredAppend
  <2>4. InHand \subseteq InHand' \cup {slot}
    BY <2>1, <2>2, HandGives
  <2>5. Min(pass'[w].slots) = slot
    BY <2>2
  <2> HIDE DEF slot
  <2>6. Reached \subseteq Reached'
    BY <2>3, <2>4 DEF Reached
  <2>7. \A t \in pass[w].slots : \A u \in Owed : u < t => u \in Reached \cup pass[w].slots
    BY <2>1 DEF Whole
  <2> QED
    BY <2>1, <2>2, <2>3, <2>5, <2>6, <2>7, WholeStep
<1>6. ASSUME NEW w \in Schedulers, SetLast(w) PROVE Whole'
  <2> DEFINE slot == Min(pass[w].slots)
  <2>1. /\ slot \in Times /\ slot \in pass[w].slots /\ pass[w].at = "set" /\ Whole
        /\ last' = slot /\ UNCHANGED <<schedule, now, locks, fired>>
        /\ \A t \in pass[w].slots : slot <= t
    BY <1>6, AtSlot DEF SetLast
  <2>2. /\ Others(w) /\ pass'[w].at \in {"idle", "lock"}
        /\ pass'[w].slots = pass[w].slots \ {slot}
    BY <1>6, NextSlotFacts DEF SetLast
  <2>3. Reached' = Reached /\ Fired' = Fired
    BY <2>1, <2>2, HandKept DEF Reached, Fired
  <2>4. slot \in Reached
    BY <2>1 DEF Whole, Reached
  <2> HIDE DEF slot
  <2>5. \A t \in pass[w].slots : \A u \in Owed : u < t => u \in Reached \cup pass[w].slots
    BY <2>1 DEF Whole
  <2>6. ASSUME NEW t \in Owed, t <= slot PROVE t \in Reached
    <3>1. CASE t = slot
      BY <2>4, <3>1
    <3>2. CASE t # slot
      <4>1. t < slot
        BY <1>0, <2>1, <2>6, <3>2
      <4>2. t \notin pass[w].slots
        BY <1>0, <2>1, <4>1
      <4> QED
        BY <2>1, <2>5, <4>1, <4>2
    <3> QED
      BY <3>1, <3>2
  <2>7. last' # Never
    BY <1>0, <2>1 DEF Never
  <2>8. \A t \in pass'[w].slots : \A u \in Owed : u < t => u \in Reached' \cup pass'[w].slots
    BY <2>2, <2>3, <2>4, <2>5
  <2> QED
    BY <2>1, <2>2, <2>3, <2>6, <2>7, <2>8, WholeStep
<1>7. ASSUME NEW w \in Schedulers, Abort(w) PROVE Whole'
  BY <1>7, PeriodicAssumption DEF Abort, Typed, PeriodicTypeOK
<1>8. CASE UNCHANGED periodicVars
  BY <1>8 DEF periodicVars, Whole, Reached, Fired, InHand, Owed
<1> QED
  BY <1>1, <1>2, <1>3, <1>4, <1>5, <1>6, <1>7, <1>8 DEF PeriodicNext, PassStep

\* Catch-up leaves no gap, however many workers look at the key, take locks and set the
\* key in whatever order (enqueue_due_periodic_jobs): while no pass is cut short, every
\* instant before the last-fired key has been enqueued or is about to be.
THEOREM NoGapHolds == PeriodicSpec => []NoGap
<1>1. GapInv => NoGap
  <2> SUFFICES ASSUME GapInv, aborts = 0, NEW t \in Owed, t < last PROVE t \in Fired \cup InHand
    BY DEF NoGap
  <2>1. t \in Nat /\ last \in Int
    BY PeriodicAssumption DEF GapInv, Typed, PeriodicTypeOK, Owed, Times, Never
  <2>2. t <= last
    BY <2>1
  <2> QED
    BY <2>2 DEF GapInv, Whole, Reached
<1> QED
  BY <1>1, GapInit, GapStep, PTL DEF PeriodicSpec

-----------------------------------------------------------------------------
(* No slot twice.                                                          *)

\* The lock of a slot outlives the passes that may still want the slot.  The code's is
\* twice the interval, between a minute and seven days, or seven days for a cron job
\* (periodic_lock_ttl_ms).
LocksOutlive ==
  \A s \in Schedules : IF s.every > 0 THEN s.ttl >= s.every + PassBound ELSE s.ttl > Horizon

\* When no pass can want a slot any more.
Until(t) == IF schedule.every > 0 THEN t + schedule.every + PassBound ELSE Horizon + 1

\* The slots of a pass are those its own clock is in or has passed, and the pass is not
\* older than PassBound.
Fresh(w) ==
  pass[w].at # "idle" =>
    /\ pass[w].now <= now /\ now <= pass[w].now + PassBound
    /\ \A t \in pass[w].slots :
         t <= pass[w].now /\ (schedule.every > 0 => pass[w].now < t + schedule.every)

\* A slot that has fired, or that a worker is about to add, is locked for as long as a
\* pass may want it; nobody else is about to add it.
Once ==
  /\ SlotOnce
  /\ \A t \in Reached : locks[t] >= Until(t)
  /\ \A w \in Schedulers : pass[w].at = "add" => Min(pass[w].slots) \notin Fired
  /\ \A w, v \in Schedulers :
       w # v /\ pass[w].at = "add" /\ pass[v].at = "add" => Min(pass[w].slots) # Min(pass[v].slots)
  /\ \A w \in Schedulers : Fresh(w)

OnceInv == Typed /\ Once

\* What a step of one worker has to keep of it.
LEMMA OnceStep ==
  ASSUME Once, NEW w \in Schedulers, Others(w), UNCHANGED <<schedule, now>>,
         SlotOnce', \A t \in Reached' : locks'[t] >= Until(t), Fresh(w)',
         \A v \in Schedulers \ {w} : pass[v].at = "add" => Min(pass[v].slots) \notin Fired',
         pass'[w].at = "add" => /\ Min(pass'[w].slots) \notin Fired'
                               /\ \A v \in Schedulers \ {w} : pass[v].at = "add" =>
                                    Min(pass[v].slots) # Min(pass'[w].slots)
  PROVE  Once'
<1>1. ASSUME NEW t \in Reached' PROVE (locks[t] >= Until(t))'
  BY <1>1 DEF Until
<1>2. ASSUME NEW v \in Schedulers PROVE Fresh(v)'
  BY <1>2 DEF Once, Others, Fresh
<1>3. ASSUME NEW v \in Schedulers, pass'[v].at = "add" PROVE Min(pass'[v].slots) \notin Fired'
  BY <1>3 DEF Others
<1>4. ASSUME NEW u \in Schedulers, NEW v \in Schedulers, u # v, pass'[u].at = "add", pass'[v].at = "add"
      PROVE  Min(pass'[u].slots) # Min(pass'[v].slots)
  <2>1. CASE u = w
    BY <1>4, <2>1 DEF Others
  <2>2. CASE v = w
    BY <1>4, <2>2 DEF Others
  <2>3. CASE u # w /\ v # w
    BY <1>4, <2>3 DEF Others, Once
  <2> QED
    BY <2>1, <2>2, <2>3
<1> QED
  BY <1>1, <1>2, <1>3, <1>4 DEF Once

\* Nothing has fired at first.
LEMMA OnceInit == PeriodicInit => OnceInv
<1> SUFFICES ASSUME PeriodicInit PROVE Once
  BY TypedInit DEF OnceInv
<1>1. Fired = {} /\ InHand = {} /\ SlotOnce
  BY DEF PeriodicInit, Fired, InHand, SlotOnce, Idle
<1> QED
  BY <1>1 DEF PeriodicInit, Once, Reached, Fresh, Idle

\* A slot whose lock is free has not fired, and nobody is about to add it: its lock would
\* have outlived the pass that wants it.
LEMMA FreeIsNew ==
  ASSUME OnceInv, NEW w \in Schedulers, pass[w].at = "lock", ~ Held(Min(pass[w].slots))
  PROVE  Min(pass[w].slots) \notin Reached
<1> DEFINE slot == Min(pass[w].slots)
<1>1. slot \in pass[w].slots /\ slot \in Times
  BY AtSlot DEF OnceInv
<1>2. /\ slot \in Nat /\ now \in Nat /\ now <= Horizon /\ Horizon \in Nat
      /\ locks[slot] \in Int /\ schedule.every \in Nat /\ PassBound \in Nat /\ pass[w].now \in Nat
  BY <1>1, PeriodicAssumption DEF OnceInv, Typed, PeriodicTypeOK, Times, Never
<1>3. locks[slot] <= now
  BY <1>2 DEF Held
<1>4. /\ now <= pass[w].now + PassBound
      /\ schedule.every > 0 => pass[w].now < slot + schedule.every
  BY <1>1 DEF OnceInv, Once, Fresh
<1>5. slot \in Reached => locks[slot] >= Until(slot)
  BY DEF OnceInv, Once
<1> HIDE DEF slot
<1>6. slot \notin Reached
  BY <1>2, <1>3, <1>4, <1>5 DEF Until
<1> QED
  BY <1>6 DEF slot

\* Every step keeps it.
LEMMA OnceStays ==
  ASSUME LocksOutlive, OnceInv, [PeriodicNext]_periodicVars
  PROVE  OnceInv'
<1> SUFFICES ASSUME Typed, Typed', Once PROVE Once'
  BY TypedStep DEF OnceInv
<1>0. /\ Times \subseteq Nat /\ now \in Times /\ now \in Nat /\ Horizon \in Nat /\ now <= Horizon
      /\ PassBound \in Nat /\ schedule \in Schedules
      /\ schedule.ttl \in Nat /\ schedule.every \in Nat
      /\ \A w \in Schedulers : pass[w].now \in Nat /\ pass[w].slots \subseteq Times
      /\ Reached \subseteq Times
  <2>1. /\ Times \subseteq Nat /\ now \in Times /\ now \in Nat /\ Horizon \in Nat /\ now <= Horizon
        /\ PassBound \in Nat /\ schedule \in Schedules
        /\ schedule.ttl \in Nat /\ schedule.every \in Nat
        /\ \A w \in Schedulers : pass[w].now \in Nat /\ pass[w].slots \subseteq Times
    <3>1. /\ schedule \in Schedules /\ now \in Times /\ Horizon \in Nat /\ PassBound \in Nat
          /\ \A w \in Schedulers : pass[w].now \in Times /\ pass[w].slots \subseteq Times
      BY PeriodicAssumption DEF Typed, PeriodicTypeOK
    <3>2. schedule.ttl \in Nat /\ schedule.every \in Nat
      BY <3>1, PeriodicAssumption
    <3>3. \A x \in Times : x \in Nat /\ x <= Horizon
      BY <3>1 DEF Times
    <3> QED
      BY <3>1, <3>2, <3>3
  <2>2. Fired \subseteq Times
    BY DEF Fired, Typed, PeriodicTypeOK
  <2>3. InHand \subseteq Times
    BY AtSlot DEF InHand
  <2> QED
    BY <2>1, <2>2, <2>3 DEF Reached
<1>1. CASE Tick
  <2>1. /\ now' = now + 1 /\ UNCHANGED <<schedule, locks, fired, pass>>
        /\ \A w \in Schedulers : pass[w].at # "idle" => now + 1 - pass[w].now <= PassBound
    BY <1>1 DEF Tick
  <2>2. ASSUME NEW w \in Schedulers PROVE Fresh(w)'
    <3>1. Fresh(w)
      BY DEF Once
    <3> QED
      BY <1>0, <2>1, <3>1 DEF Fresh
  <2> QED
    BY <2>1, <2>2 DEF Once, SlotOnce, Reached, Fired, InHand, Until
<1>2. ASSUME NEW w \in Schedulers, ReadClock(w) PROVE Once'
  <2>1. /\ Others(w) /\ pass[w].at # "add"
        /\ pass'[w].at = "clock" /\ pass'[w].now = now /\ pass'[w].slots = {}
        /\ UNCHANGED <<schedule, now, locks, fired>>
    BY <1>2 DEF ReadClock, Others, Typed, PeriodicTypeOK
  <2>2. Reached' = Reached /\ Fired' = Fired /\ SlotOnce'
    BY <2>1, HandKept DEF Reached, Fired, Once, SlotOnce
  <2>3. Fresh(w)'
    BY <1>0, <2>1 DEF Fresh
  <2> QED
    BY <2>1, <2>2, <2>3, OnceStep DEF Once
<1>3. ASSUME NEW w \in Schedulers, ReadLast(w) PROVE Once'
  <2>1. UNCHANGED <<schedule, now, locks, fired>>
    BY <1>3 DEF ReadLast
  <2>2. /\ Others(w) /\ pass[w].at = "clock" /\ pass'[w].at \in {"idle", "lock"}
        /\ pass'[w].slots = DueSlots(pass[w].now, last) /\ pass[w].now \in Times
        /\ pass'[w].at # "idle" => pass'[w].now = pass[w].now
    BY <1>3, ReadLastFacts
  <2>3. Reached' = Reached /\ Fired' = Fired /\ SlotOnce'
    BY <2>1, <2>2, HandKept DEF Reached, Fired, Once, SlotOnce
  <2>4. \A t \in pass'[w].slots :
          t <= pass[w].now /\ (schedule.every > 0 => pass[w].now < t + schedule.every)
    BY <2>2, DueFacts DEF Typed
  <2>5. Fresh(w)
    BY DEF Once
  <2>6. Fresh(w)'
    BY <2>1, <2>2, <2>4, <2>5 DEF Fresh
  <2> QED
    BY <2>1, <2>2, <2>3, <2>6, OnceStep DEF Once
<1>4. ASSUME NEW w \in Schedulers, NEW slot, NextSlot(w, slot), pass[w].at # "add", pass[w].at # "idle",
             UNCHANGED <<schedule, now, locks, fired>>
      PROVE  Once'
  <2>1. /\ Others(w) /\ pass'[w].at \in {"idle", "lock"}
        /\ pass'[w].slots = pass[w].slots \ {slot}
        /\ pass'[w].at # "idle" => pass'[w].now = pass[w].now
    BY <1>4, NextSlotFacts
  <2>2. Reached' = Reached /\ Fired' = Fired /\ SlotOnce'
    BY <1>4, <2>1, HandKept DEF Reached, Fired, Once, SlotOnce
  <2>3. Fresh(w)
    BY DEF Once
  <2>4. Fresh(w)'
    BY <1>4, <2>1, <2>3 DEF Fresh
  <2> QED
    BY <1>4, <2>1, <2>2, <2>4, OnceStep DEF Once
<1>5. ASSUME NEW w \in Schedulers, NEW s \in {"add", "set"}, pass' = [pass EXCEPT ![w].at = s],
             pass[w].at # "idle", UNCHANGED <<schedule, now>>
      PROVE  Fresh(w)'
  <2>1. pass'[w].slots = pass[w].slots /\ pass'[w].now = pass[w].now
    BY <1>5, StepFacts DEF Steps
  <2>2. Fresh(w)
    BY DEF Once
  <2> QED
    BY <1>5, <2>1, <2>2 DEF Fresh
<1>6. ASSUME NEW w \in Schedulers, TryLock(w) PROVE Once'
  <2> DEFINE slot == Min(pass[w].slots)
  <2>1. /\ slot \in pass[w].slots /\ slot \in Times /\ pass[w].at = "lock"
        /\ UNCHANGED <<schedule, now, last, fired>>
    BY <1>6, AtSlot DEF TryLock
  <2>2. CASE NextSlot(w, slot) /\ UNCHANGED locks
    BY <1>4, <2>1, <2>2
  <2>3. CASE /\ ~ Held(slot) /\ locks' = [locks EXCEPT ![slot] = now + schedule.ttl]
             /\ pass' = [pass EXCEPT ![w].at = "add"]
    <3>1. Others(w) /\ pass'[w].at = "add" /\ pass'[w].slots = pass[w].slots
      BY <2>3, StepFacts DEF Steps
    <3>2. Reached' = Reached \cup {slot} /\ Fired' = Fired /\ SlotOnce'
      BY <2>1, <3>1, HandTakes DEF Reached, Fired, Once, SlotOnce
    <3>3. slot \notin Reached
      BY <2>1, <2>3, FreeIsNew DEF OnceInv
    <3>4. Fresh(w)'
      BY <1>5, <2>1, <2>3
    <3>5. Min(pass'[w].slots) = slot
      BY <3>1
    <3>6. \A v \in Schedulers : pass[v].at = "add" => Min(pass[v].slots) \in InHand
      BY DEF InHand
    <3> HIDE DEF slot
    <3>7. slot <= now
      <4>1. Fresh(w)
        BY DEF Once
      <4>2. slot <= pass[w].now /\ pass[w].now <= now /\ slot \in Nat /\ pass[w].now \in Nat
        BY <1>0, <2>1, <4>1 DEF Fresh
      <4> QED
        BY <1>0, <4>2
    <3>8. now + schedule.ttl >= Until(slot)
      <4>1. IF schedule.every > 0 THEN schedule.ttl >= schedule.every + PassBound ELSE schedule.ttl > Horizon
        BY <1>0 DEF LocksOutlive
      <4>2. slot \in Nat
        BY <1>0, <2>1
      <4> QED
        BY <1>0, <3>7, <4>1, <4>2 DEF Until
    <3>9. ASSUME NEW t \in Reached' PROVE locks'[t] >= Until(t)
      <4>1. CASE t = slot
        BY <2>1, <2>3, <3>8, <4>1 DEF Typed, PeriodicTypeOK
      <4>2. CASE t # slot
        <5>1. t \in Reached /\ locks'[t] = locks[t]
          BY <1>0, <2>3, <3>2, <3>9, <4>2 DEF Typed, PeriodicTypeOK
        <5> QED
          BY <5>1 DEF Once
      <4> QED
        BY <4>1, <4>2
    <3>10. slot \notin Fired' /\ \A v \in Schedulers : pass[v].at = "add" => Min(pass[v].slots) # slot
      BY <3>2, <3>3, <3>6 DEF Reached
    <3>11. \A v \in Schedulers : pass[v].at = "add" => Min(pass[v].slots) \notin Fired'
      BY <3>2 DEF Once
    <3> QED
      BY <2>1, <3>1, <3>2, <3>4, <3>5, <3>9, <3>10, <3>11, OnceStep
  <2> QED
    BY <1>6, <2>2, <2>3 DEF TryLock
<1>7. ASSUME NEW w \in Schedulers, AddJob(w) PROVE Once'
  <2> DEFINE slot == Min(pass[w].slots)
  <2>1. /\ slot \in Times /\ pass[w].at = "add" /\ fired' = Append(fired, slot)
        /\ UNCHANGED <<schedule, now, locks>> /\ pass' = [pass EXCEPT ![w].at = "set"]
    BY <1>7, AtSlot DEF AddJob
  <2>2. Others(w) /\ pass'[w].at = "set"
    BY <2>1, StepFacts DEF Steps
  <2>3. slot \notin Fired /\ slot \in InHand
    BY <2>1 DEF Once, InHand
  <2>4. Fired' = Fired \cup {slot} /\ SlotOnce'
    BY <2>1, <2>3, FiredAppend DEF Once
  <2>5. InHand' \subseteq InHand
    BY <2>1, <2>2, HandGives
  <2>6. Fresh(w)'
    BY <1>5, <2>1
  <2>7. \A v \in Schedulers \ {w} : pass[v].at = "add" => Min(pass[v].slots) # slot /\ Min(pass[v].slots) \notin Fired
    BY <2>1 DEF Once
  <2> HIDE DEF slot
  <2>8. Reached' \subseteq Reached
    BY <2>3, <2>4, <2>5 DEF Reached
  <2>9. \A t \in Reached' : locks'[t] >= Until(t)
    BY <2>1, <2>8 DEF Once
  <2> QED
    BY <2>1, <2>2, <2>4, <2>6, <2>7, <2>9, OnceStep
<1>8. ASSUME NEW w \in Schedulers, SetLast(w) PROVE Once'
  BY <1>4, <1>8 DEF SetLast
<1>9. ASSUME NEW w \in Schedulers, Abort(w) PROVE Once'
  <2>1. /\ Others(w) /\ pass'[w].at = "idle" /\ UNCHANGED <<schedule, now, locks, fired>>
    BY <1>9 DEF Abort, Others, Idle, Typed, PeriodicTypeOK
  <2>2. InHand' \subseteq InHand
    <3>1. CASE pass[w].at = "add"
      BY <2>1, <3>1, HandGives
    <3>2. CASE pass[w].at # "add"
      BY <2>1, <3>2, HandKept
    <3> QED
      BY <3>1, <3>2
  <2>3. Fired' = Fired /\ SlotOnce' /\ Fresh(w)'
    BY <2>1 DEF Fired, Once, SlotOnce, Fresh
  <2>4. \A t \in Reached' : locks'[t] >= Until(t)
    BY <2>1, <2>2, <2>3 DEF Once, Reached
  <2> QED
    BY <2>1, <2>3, <2>4, OnceStep DEF Once
<1>10. CASE UNCHANGED periodicVars
  BY <1>10 DEF periodicVars, Once, SlotOnce, Reached, Fired, InHand, Until, Fresh
<1> QED
  BY <1>1, <1>2, <1>3, <1>6, <1>7, <1>8, <1>9, <1>10 DEF PeriodicNext, PassStep

\* The slots of a recurring job are exact: none is enqueued twice, whatever races and
\* crashes come between the lock, the XADD and the last-fired key, if a slot's lock
\* outlives the passes that may want it; and none before the key is left out.
THEOREM SlotsExactHolds ==
  ASSUME LocksOutlive PROVE PeriodicSpec => []SlotsExact
<1>1. OnceInv => SlotOnce
  BY DEF OnceInv, Once
<1>2. OnceInv /\ [PeriodicNext]_periodicVars => OnceInv'
  BY OnceStays
<1>3. PeriodicSpec => []SlotOnce
  BY <1>1, <1>2, OnceInit, PTL DEF PeriodicSpec
<1>4. SlotOnce /\ NoGap => SlotsExact
  BY DEF SlotsExact
<1> QED
  BY <1>3, <1>4, NoGapHolds, PTL
=============================================================================
