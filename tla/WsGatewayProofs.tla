--------------------------- MODULE WsGatewayProofs ---------------------------
(***************************************************************************)
(* GatewaySound, TypeOK and StreamsSound of WsGateway, for every number of *)
(* topics, sockets and refs and every size of the queues and logs.         *)
(*                                                                         *)
(* The invariant is built in layers, each inductive next to those below:   *)
(*   Shape    what the handler's protocol reads of pumps and counts;       *)
(*   Base     the types, what a pump is while it runs (Pumped) and that    *)
(*            the tables of a session agree (Named);                       *)
(*   Pristine, Routes   sessions that have not begun or are over hold      *)
(*            nothing, what is on its way names a subscription;            *)
(*   Talks    one request of a topic at a time, and its answers in turn;   *)
(*   Paired   the client's refs and names are inverse to each other;       *)
(*   Linked   the numbers of a subscription, from the last one the client  *)
(*            heard over its frames to the pump's place, without a hole.   *)
(***************************************************************************)
EXTENDS WsGateway, FiniteSetTheorems, SequenceTheorems, WellFoundedInduction, TLAPS

\* Records and tables keep their shape, whatever a frame carries: what GateWakes reads
\* of a pump is among its fields.
PumpShape(p) == {"pc", "gate", "woken"} \subseteq DOMAIN p

Shape ==
  /\ pumps = [s \in Sockets |-> [r \in Refs |-> pumps[s][r]]]
  /\ \A s \in Sockets, r \in Refs : PumpShape(pumps[s][r])
  /\ byName \in [Sockets -> [Topics -> Nat]]
  /\ nextRef \in [Sockets -> Nat \ {0}] /\ sock \in Sockets
  /\ counts \in [Topics -> Nat]

Holders(t) == {s \in Sockets : byName[s][t] # 0}

\* The sessions that hold a topic can be counted.
LEMMA HoldersFinite == ASSUME NEW t PROVE IsFiniteSet(Holders(t)) /\ Cardinality(Holders(t)) \in Nat
<1>1. IsFiniteSet(Sockets)
  BY GatewayAssumption, FS_Interval DEF Sockets
<1>2. IsFiniteSet(Holders(t))
  BY <1>1, FS_Subset DEF Holders
<1> QED
  BY <1>2, FS_CardinalityType

-----------------------------------------------------------------------------
(* Pumps and gates.                                                        *)

\* A pump that may wait for its gate.
Awake(p) == p.pc = "parked" => ~ p.gate \/ p.woken

\* The pumps of one session change, each to one that GateWakes allows.
LEMMA PumpsKept ==
  ASSUME Shape, GateWakes, NEW s \in Sockets, NEW f, pumps' = [pumps EXCEPT ![s] = f],
         f = [r \in Refs |-> f[r]],
         \A r \in Refs : f[r] = pumps[s][r] \/ (PumpShape(f[r]) /\ Awake(f[r]))
  PROVE  /\ pumps' = [u \in Sockets |-> [r \in Refs |-> pumps'[u][r]]]
         /\ \A u \in Sockets, r \in Refs : PumpShape(pumps'[u][r])
         /\ GateWakes'
<1>1. \A u \in Sockets : pumps'[u] = IF u = s THEN f ELSE pumps[u]
  BY DEF Shape
<1>2. pumps' = [u \in Sockets |-> pumps'[u]]
  BY DEF Shape
<1>3. \A u \in Sockets : pumps'[u] = [r \in Refs |-> pumps'[u][r]]
  BY <1>1 DEF Shape
<1>4. \A u \in Sockets, r \in Refs : PumpShape(pumps'[u][r])
  BY <1>1 DEF Shape
<1>5. \A u \in Sockets, r \in Refs : Awake(pumps'[u][r])
  BY <1>1 DEF GateWakes, Pump, Awake
<1> QED
  BY <1>2, <1>3, <1>4, <1>5 DEF GateWakes, Pump, Awake

\* A pump that is aborted or dropped waits for nothing.
LEMMA DeadShape ==
  ASSUME NEW p
  PROVE  /\ PumpShape(Dead(p)) /\ Awake(Dead(p))
         /\ PumpShape([Dead(p) EXCEPT !.edge = 0]) /\ Awake([Dead(p) EXCEPT !.edge = 0])
  BY DEF PumpShape, Awake, Dead

\* Neither does one that is new.
LEMMA NewShape == ASSUME NEW t PROVE PumpShape(NewPump(t)) /\ Awake(NewPump(t))
  BY DEF PumpShape, Awake, NewPump

\* One pump changes.
LEMMA OnePump ==
  ASSUME Shape, GateWakes, NEW s \in Sockets, NEW q, NEW p,
         pumps' = [pumps EXCEPT ![s][q] = p], q \in Refs => PumpShape(p) /\ Awake(p)
  PROVE  /\ pumps' = [u \in Sockets |-> [r \in Refs |-> pumps'[u][r]]]
         /\ \A u \in Sockets, r \in Refs : PumpShape(pumps'[u][r])
         /\ GateWakes'
<1> DEFINE f == [pumps[s] EXCEPT ![q] = p]
<1>1. pumps' = [pumps EXCEPT ![s] = f]
  OBVIOUS
<1>2. pumps[s] = [r \in Refs |-> pumps[s][r]]
  BY DEF Shape
<1>3. f = [r \in Refs |-> f[r]]
  BY <1>2
<1>4. \A r \in Refs : f[r] = IF r = q THEN p ELSE pumps[s][r]
  BY <1>2
<1>5. \A r \in Refs : f[r] = pumps[s][r] \/ (PumpShape(f[r]) /\ Awake(f[r]))
  BY <1>4
<1> HIDE DEF f
<1> QED
  BY <1>1, <1>3, <1>5, PumpsKept

\* The records the steps write.
LEMMA StepShapes ==
  ASSUME NEW p, PumpShape(p)
  PROVE  /\ \A c : PumpShape([p EXCEPT !.pc = c]) /\ (c # "parked" => Awake([p EXCEPT !.pc = c]))
         /\ ~ p.gate => Awake([p EXCEPT !.pc = "parked"])
         /\ PumpShape([p EXCEPT !.pc = "armed", !.woken = FALSE])
         /\ Awake([p EXCEPT !.pc = "armed", !.woken = FALSE])
         /\ \A h, n : LET x == [p EXCEPT !.pc = "push", !.held = h, !.next = n]
                     IN PumpShape(x) /\ Awake(x)
         /\ LET x == [p EXCEPT !.pc = "next", !.held = 0] IN PumpShape(x) /\ Awake(x)
         /\ LET x == [p EXCEPT !.gate = TRUE, !.woken = TRUE] IN PumpShape(x) /\ Awake(x)
<1> USE DEF PumpShape, Awake
<1>1. \A c : PumpShape([p EXCEPT !.pc = c]) /\ (c # "parked" => Awake([p EXCEPT !.pc = c]))
  OBVIOUS
<1>2. ~ p.gate => Awake([p EXCEPT !.pc = "parked"])
  OBVIOUS
<1>3. /\ PumpShape([p EXCEPT !.pc = "armed", !.woken = FALSE])
      /\ Awake([p EXCEPT !.pc = "armed", !.woken = FALSE])
  OBVIOUS
<1>4. \A h, n : LET x == [p EXCEPT !.pc = "push", !.held = h, !.next = n]
               IN PumpShape(x) /\ Awake(x)
  OBVIOUS
<1>5. LET x == [p EXCEPT !.pc = "next", !.held = 0] IN PumpShape(x) /\ Awake(x)
  OBVIOUS
<1>6. LET x == [p EXCEPT !.gate = TRUE, !.woken = TRUE] IN PumpShape(x) /\ Awake(x)
  OBVIOUS
<1> QED
  BY <1>1, <1>2, <1>3, <1>4, <1>5, <1>6

-----------------------------------------------------------------------------
(* Counts.                                                                 *)

\* The first subscription of a session to a topic ...
LEMMA HoldersUp ==
  ASSUME Shape, CountsTrue, NEW s \in Sockets, NEW t \in Topics, NEW r \in Nat \ {0},
         byName[s][t] = 0, byName' = [byName EXCEPT ![s][t] = r], Joined(t)
  PROVE  counts' \in [Topics -> Nat] /\ CountsTrue'
<1>1. \A u \in Sockets, x \in Topics :
        byName'[u][x] = IF u = s /\ x = t THEN r ELSE byName[u][x]
  BY DEF Shape
<1>2. \A x \in Topics : counts'[x] = IF x = t THEN counts[x] + 1 ELSE counts[x]
  BY DEF Shape, Joined
<1>3. counts' \in [Topics -> Nat]
  BY DEF Shape, Joined
<1>4. \A x \in Topics : Holders(x)' = IF x = t THEN Holders(x) \cup {s} ELSE Holders(x)
  BY <1>1 DEF Holders
<1>5. Cardinality(Holders(t) \cup {s}) = Cardinality(Holders(t)) + 1
  <2>1. s \notin Holders(t)
    BY DEF Holders
  <2> QED
    BY <2>1, HoldersFinite, FS_AddElement
<1>6. \A x \in Topics : counts[x] = Cardinality(Holders(x)) /\ (x \in active <=> counts[x] > 0)
  BY DEF CountsTrue, Holders
<1>7. \A x \in Topics : counts'[x] = Cardinality(Holders(x)')
  BY <1>2, <1>4, <1>5, <1>6
<1>8. \A x \in Topics : x \in active' <=> counts'[x] > 0
  <2>1. \A x \in Topics : counts[x] \in Nat
    BY DEF Shape
  <2> QED
    BY <1>2, <1>6, <2>1 DEF Joined
<1> QED
  BY <1>3, <1>7, <1>8 DEF CountsTrue, Holders

\* ... and its release.
LEMMA HoldersDown ==
  ASSUME Shape, CountsTrue, NEW s \in Sockets, NEW t \in Topics,
         byName[s][t] # 0, byName' = [byName EXCEPT ![s][t] = 0], Left(t)
  PROVE  counts' \in [Topics -> Nat] /\ CountsTrue'
<1>1. \A u \in Sockets, x \in Topics :
        byName'[u][x] = IF u = s /\ x = t THEN 0 ELSE byName[u][x]
  BY DEF Shape
<1>2. \A x \in Topics : counts'[x] = IF x = t THEN counts[x] - 1 ELSE counts[x]
  BY DEF Shape, Left
<1>3. \A x \in Topics : Holders(x)' = IF x = t THEN Holders(x) \ {s} ELSE Holders(x)
  BY <1>1 DEF Holders
<1>4. Cardinality(Holders(t) \ {s}) = Cardinality(Holders(t)) - 1 /\ counts[t] > 0
  <2>1. s \in Holders(t)
    BY DEF Holders
  <2>2. Cardinality(Holders(t) \ {s}) = Cardinality(Holders(t)) - 1
    BY <2>1, HoldersFinite, FS_RemoveElement
  <2>3. Cardinality(Holders(t) \ {s}) \in Nat
    BY HoldersFinite, FS_Subset, FS_CardinalityType
  <2>4. Cardinality(Holders(t)) > 0
    BY <2>2, <2>3, HoldersFinite
  <2> QED
    BY <2>2, <2>4 DEF CountsTrue, Holders
<1>5. \A x \in Topics : counts[x] = Cardinality(Holders(x)) /\ (x \in active <=> counts[x] > 0)
  BY DEF CountsTrue, Holders
<1>6. \A x \in Topics : counts'[x] = Cardinality(Holders(x)')
  BY <1>2, <1>3, <1>4, <1>5
<1>7. \A x \in Topics : counts[x] \in Nat
  BY DEF Shape
<1>8. counts' \in [Topics -> Nat]
  <2>1. counts[t] - 1 \in Nat
    BY <1>4, <1>7
  <2> QED
    BY <2>1 DEF Shape, Left
<1>9. \A x \in Topics : x \in active' <=> counts'[x] > 0
  BY <1>2, <1>4, <1>5, <1>7 DEF Left
<1> QED
  BY <1>8, <1>6, <1>9 DEF CountsTrue, Holders

-----------------------------------------------------------------------------
(* The steps.                                                              *)

Kept == Shape' /\ GatewaySound'

\* What neither pumps nor subscriptions see.
LEMMA KeptAside ==
  ASSUME Shape, GatewaySound, sock' \in Sockets, UNCHANGED <<pumps, byName, nextRef, counts, active>>
  PROVE  Kept
  BY DEF Kept, Shape, GatewaySound, CountsTrue, GateWakes, Pump

\* One pump changes, and no subscription.
LEMMA KeptPump ==
  ASSUME Shape, GatewaySound, NEW s \in Sockets, NEW q, NEW p, pumps' = [pumps EXCEPT ![s][q] = p],
         q \in Refs => PumpShape(p) /\ Awake(p), UNCHANGED <<sock, byName, nextRef, counts, active>>
  PROVE  Kept
<1>1. /\ pumps' = [u \in Sockets |-> [r \in Refs |-> pumps'[u][r]]]
      /\ \A u \in Sockets, r \in Refs : PumpShape(pumps'[u][r])
      /\ GateWakes'
  BY OnePump DEF GatewaySound
<1>2. CountsTrue'
  BY DEF GatewaySound, CountsTrue
<1>3. Shape'
  BY <1>1 DEF Shape
<1> QED
  BY <1>1, <1>2, <1>3 DEF Kept, GatewaySound

\* An error, a hello or a payload.
LEMMA KeptData ==
  ASSUME Shape, GatewaySound, NEW s \in Sockets, NEW f, HandleData(s, f), sock' = sock
  PROVE  Kept
<1>1. UNCHANGED <<nextRef, byName, counts, active>>
  BY DEF HandleData
<1>2. CASE pumps' = pumps
  BY <1>1, <1>2, KeptAside DEF Shape
<1>3. CASE Hello(s, f.ref) /\ Room(s)
  <2> DEFINE p == [pumps[s][f.ref] EXCEPT !.gate = TRUE, !.woken = TRUE]
  <2>1. pumps' = [pumps EXCEPT ![s][f.ref] = p]
    BY <1>3 DEF Hello
  <2>2. f.ref \in Refs => PumpShape(p) /\ Awake(p)
    <3>1. f.ref \in Refs => PumpShape(pumps[s][f.ref])
      BY DEF Shape
    <3> QED
      BY <3>1, StepShapes
  <2> HIDE DEF p
  <2> QED
    BY <1>1, <2>1, <2>2, KeptPump
<1>4. pumps' = pumps \/ (Hello(s, f.ref) /\ Room(s))
  <2>1. ASSUME Hello(s, f.ref), ~ Room(s) PROVE pumps' = pumps
    BY <2>1 DEF Hello
  <2> QED
    BY <2>1 DEF HandleData
<1> QED
  BY <1>2, <1>3, <1>4

\* A subscription, which may replace one of the same session.
LEMMA KeptOpenTopic ==
  ASSUME Shape, GatewaySound, NEW s \in Sockets, NEW t, OpenTopic(s, t), sock' = sock
  PROVE  Kept
<1> DEFINE r == nextRef[s]
           old == byName[s][t]
           f == [q \in Refs |-> IF q = r THEN NewPump(t)
                               ELSE IF q = old THEN Dead(pumps[s][q]) ELSE pumps[s][q]]
<1>1. pumps' = [pumps EXCEPT ![s] = f]
  BY DEF OpenTopic
<1>2. \A q \in Refs : f[q] = pumps[s][q] \/ (PumpShape(f[q]) /\ Awake(f[q]))
  BY NewShape, DeadShape
<1>3. f = [q \in Refs |-> f[q]]
  OBVIOUS
<1> HIDE DEF f
<1>4. /\ pumps' = [u \in Sockets |-> [q \in Refs |-> pumps'[u][q]]]
      /\ \A u \in Sockets, q \in Refs : PumpShape(pumps'[u][q])
      /\ GateWakes'
  BY <1>1, <1>2, <1>3, PumpsKept DEF GatewaySound
<1>5. r \in Nat \ {0} /\ byName' = [byName EXCEPT ![s][t] = r] /\ nextRef' = [nextRef EXCEPT ![s] = r + 1]
  BY DEF Shape, OpenTopic
<1> HIDE DEF r
<1>6. byName' \in [Sockets -> [Topics -> Nat]] /\ nextRef' \in [Sockets -> Nat \ {0}]
  <2>1. byName' \in [Sockets -> [Topics -> Nat]]
    <3>1. [byName[s] EXCEPT ![t] = r] \in [Topics -> Nat]
      BY <1>5 DEF Shape
    <3>2. byName' = [byName EXCEPT ![s] = [byName[s] EXCEPT ![t] = r]]
      BY <1>5
    <3> QED
      BY <3>1, <3>2 DEF Shape
  <2>2. nextRef' \in [Sockets -> Nat \ {0}]
    BY <1>5 DEF Shape
  <2> QED
    BY <2>1, <2>2
<1>7. CASE t \in Topics /\ old = 0
  <2>1. Joined(t)
    BY <1>7 DEF OpenTopic
  <2>2. counts' \in [Topics -> Nat] /\ CountsTrue'
    BY <1>5, <1>7, <2>1, HoldersUp DEF GatewaySound
  <2> QED
    BY <1>4, <1>6, <2>2 DEF Kept, Shape, GatewaySound
<1>8. CASE t \in Topics /\ old # 0
  <2>1. UNCHANGED <<counts, active>>
    BY <1>8 DEF OpenTopic
  <2>2. \A u \in Sockets, x \in Topics : byName'[u][x] # 0 <=> byName[u][x] # 0
    BY <1>5, <1>8 DEF Shape
  <2>3. CountsTrue'
    BY <2>1, <2>2 DEF CountsTrue, GatewaySound
  <2> QED
    BY <1>4, <1>6, <2>1, <2>3 DEF Kept, Shape, GatewaySound
<1>9. CASE t \notin Topics
  <2>1. byName' = byName
    BY <1>5, <1>9 DEF Shape
  <2>2. counts' = counts /\ \A x \in Topics : x \in active' <=> x \in active
    BY <1>9 DEF OpenTopic, Joined, Shape
  <2>3. CountsTrue'
    BY <2>1, <2>2 DEF CountsTrue, GatewaySound
  <2> QED
    BY <1>4, <1>6, <2>2, <2>3 DEF Kept, Shape, GatewaySound
<1> QED
  BY <1>7, <1>8, <1>9

\* One topic of a session that shuts down.
LEMMA KeptRelease ==
  ASSUME Shape, GatewaySound, NEW s \in Sockets, NEW t \in Topics, Release(s, t)
  PROVE  Kept
<1>1. pumps' = [pumps EXCEPT ![s][byName[s][t]] = Dead(pumps[s][byName[s][t]])]
  BY DEF Release
<1>2. /\ pumps' = [u \in Sockets |-> [q \in Refs |-> pumps'[u][q]]]
      /\ \A u \in Sockets, q \in Refs : PumpShape(pumps'[u][q])
      /\ GateWakes'
  BY <1>1, DeadShape, OnePump DEF GatewaySound
<1>3. byName' = [byName EXCEPT ![s][t] = 0] /\ byName[s][t] # 0 /\ Left(t)
  BY DEF Release
<1>4. counts' \in [Topics -> Nat] /\ CountsTrue'
  BY <1>3, HoldersDown DEF GatewaySound
<1>5. byName' \in [Sockets -> [Topics -> Nat]]
  BY <1>3 DEF Shape
<1> QED
  BY <1>2, <1>4, <1>5 DEF Kept, Shape, GatewaySound, Release, client

\* The loss of a socket: its pumps are gone.
LEMMA KeptDrop ==
  ASSUME Shape, GatewaySound, SocketDrops
  PROVE  Kept
<1> DEFINE f == [r \in Refs |-> [Dead(pumps[sock][r]) EXCEPT !.edge = 0]]
<1>1. pumps' = [pumps EXCEPT ![sock] = f]
  BY DEF SocketDrops
<1>2. \A q \in Refs : PumpShape(f[q]) /\ Awake(f[q])
  BY DeadShape
<1>3. f = [q \in Refs |-> f[q]]
  OBVIOUS
<1> HIDE DEF f
<1>4. /\ pumps' = [u \in Sockets |-> [q \in Refs |-> pumps'[u][q]]]
      /\ \A u \in Sockets, q \in Refs : PumpShape(pumps'[u][q])
      /\ GateWakes'
  <2>1. sock \in Sockets
    BY DEF Shape
  <2> QED
    BY <1>1, <1>2, <1>3, <2>1, PumpsKept DEF GatewaySound
<1>5. UNCHANGED <<sock, byName, nextRef, counts, active>>
  BY DEF SocketDrops, process
<1>6. CountsTrue'
  BY <1>5 DEF GatewaySound, CountsTrue
<1>7. Shape'
  BY <1>4, <1>5 DEF Shape
<1> QED
  BY <1>4, <1>6, <1>7 DEF Kept, GatewaySound

\* A step of a pump.
LEMMA KeptPumping ==
  ASSUME Shape, GatewaySound, NEW s \in Sockets, NEW r \in Refs,
         PumpGate(s, r) \/ PumpNext(s, r) \/ PumpSend(s, r)
  PROVE  Kept
<1> DEFINE p == pumps[s][r]
<1>1. UNCHANGED <<sock, byName, nextRef, counts, active>>
  BY DEF PumpGate, PumpNext, PumpSend, PumpOnly, client, process
<1>2. PumpShape(p)
  BY DEF Shape
<1>3. \E x : pumps' = [pumps EXCEPT ![s][r] = x] /\ PumpShape(x) /\ Awake(x)
  <2>1. CASE PumpGate(s, r)
    <3>1. CASE p.pc = "gate" /\ p.gate
      <4>1. pumps' = [pumps EXCEPT ![s][r] = [p EXCEPT !.pc = "next"]]
        BY <2>1, <3>1 DEF PumpGate, Step, Pump
      <4> QED
        BY <1>2, <3>1, <4>1, StepShapes
    <3>2. CASE p.pc = "gate" /\ ~ p.gate
      <4>1. pumps' = [pumps EXCEPT ![s][r] = [p EXCEPT !.pc = "armed", !.woken = FALSE]]
        BY <2>1, <3>2 DEF PumpGate, Step, Pump
      <4> QED
        BY <1>2, <3>2, <4>1, StepShapes
    <3>3. CASE p.pc = "armed" /\ p.gate
      <4>1. pumps' = [pumps EXCEPT ![s][r] = [p EXCEPT !.pc = "next"]]
        BY <2>1, <3>3 DEF PumpGate, Step, Pump
      <4> QED
        BY <1>2, <3>3, <4>1, StepShapes
    <3>4. CASE p.pc = "armed" /\ ~ p.gate
      <4>1. pumps' = [pumps EXCEPT ![s][r] = [p EXCEPT !.pc = "parked"]]
        BY <2>1, <3>4 DEF PumpGate, Step, Pump
      <4> QED
        BY <1>2, <3>4, <4>1, StepShapes
    <3>5. CASE p.pc = "parked"
      <4>1. pumps' = [pumps EXCEPT ![s][r] = [p EXCEPT !.pc = "gate"]]
        BY <2>1, <3>5 DEF PumpGate, Step, Pump
      <4> QED
        BY <1>2, <3>5, <4>1, StepShapes
    <3> QED
      BY <2>1, <3>1, <3>2, <3>3, <3>4, <3>5 DEF PumpGate, Pump
  <2>2. CASE PumpNext(s, r)
    <3>1. CASE Behind(p)
      BY <1>2, <2>2, <3>1, StepShapes DEF PumpNext, Step, Pump
    <3>2. CASE ~ Behind(p)
      <4> DEFINE x == [p EXCEPT !.pc = "push", !.held = p.next, !.next = @ + 1]
      <4>1. pumps' = [pumps EXCEPT ![s][r] = x]
        BY <2>2, <3>2 DEF PumpNext, Step, Pump
      <4>2. PumpShape(x) /\ Awake(x)
        BY <1>2 DEF PumpShape, Awake
      <4> HIDE DEF x
      <4> QED
        BY <4>1, <4>2
    <3> QED
      BY <3>1, <3>2
  <2>3. CASE PumpSend(s, r)
    <3>1. CASE p.pc = "push"
      BY <1>2, <2>3, <3>1, StepShapes DEF PumpSend, Step, Pump
    <3>2. CASE p.pc = "gap"
      BY <1>2, <2>3, <3>2, DeadShape DEF PumpSend, Step, Pump
    <3> QED
      BY <2>3, <3>1, <3>2 DEF PumpSend, Pump
  <2> QED
    BY <2>1, <2>2, <2>3
<1> QED
  BY <1>1, <1>3, KeptPump

-----------------------------------------------------------------------------
(* The theorem.                                                            *)

\* Every step keeps the table of pumps and the counts in step with the sessions.
LEMMA SoundStep == Shape /\ GatewaySound /\ [Next]_vars => Kept
<1> SUFFICES ASSUME Shape, GatewaySound, [Next]_vars PROVE Kept
  OBVIOUS
<1>1. sock \in Sockets
  BY DEF Shape
<1>2. ASSUME NEW s \in Sockets, SessionSteps(s) PROVE Kept
  <2>1. CASE SessionReceive(s)
    <3>1. sock' = sock
      BY <2>1 DEF SessionReceive, client
    <3> QED
      BY <2>1, <3>1, KeptOpenTopic, KeptData DEF SessionReceive
  <2>2. CASE SessionEnds(s)
    BY <1>1, <2>2, KeptAside DEF SessionEnds, client, process
  <2> QED
    BY <1>2, <2>1, <2>2, KeptRelease DEF SessionSteps
<1>3. ASSUME NEW s \in Sockets, SessionBreaks(s) PROVE Kept
  BY <1>1, <1>3, KeptAside DEF SessionBreaks, client, process
<1>4. CASE Open \/ ClientReceive
  BY <1>1, <1>4, KeptAside DEF Open, ClientReceive, process
<1>5. CASE Reconnect
  <2>1. sock' \in Sockets
    BY <1>1, <1>5, GatewayAssumption DEF Reconnect, Sockets
  <2> QED
    BY <1>5, <2>1, KeptAside DEF Reconnect, sessions, process
<1>6. ASSUME NEW t \in Topics, Subscribe(t) \/ SendData(t) \/ Publish(t) PROVE Kept
  BY <1>1, <1>6, KeptAside DEF Subscribe, SendData, Publish, client, sessions, process
<1>7. CASE UNCHANGED vars
  BY <1>1, <1>7, KeptAside DEF vars, client, sessions, process
<1> QED
  BY <1>2, <1>3, <1>4, <1>5, <1>6, <1>7, KeptDrop, KeptPumping DEF Next, System, PumpSteps

\* What the server keeps on the side is in step with its sessions: the count of every
\* topic is the number of sessions that hold it, its handler is active exactly when there
\* is one, and no pump waits for an open gate without having been woken.
THEOREM GatewaySoundHolds == Spec => []GatewaySound
<1>1. Init => Shape /\ GatewaySound
  <2> SUFFICES ASSUME Init PROVE Shape /\ GatewaySound
    OBVIOUS
  <2>1. Shape
    BY GatewayAssumption DEF Init, Shape, PumpShape, NoPump, Sockets
  <2>2. \A t \in Topics : Holders(t) = {}
    BY DEF Init, Holders
  <2>3. CountsTrue
    <3>1. Cardinality({}) = 0
      BY FS_EmptySet
    <3>2. \A t \in Topics : counts[t] = 0 /\ t \notin active
      BY DEF Init
    <3>3. \A t \in Topics : counts[t] = Cardinality(Holders(t))
      BY <2>2, <3>1, <3>2
    <3> QED
      BY <3>2, <3>3 DEF CountsTrue, Holders
  <2>4. GateWakes
    BY DEF Init, GateWakes, Pump, NoPump
  <2> QED
    BY <2>1, <2>3, <2>4 DEF GatewaySound
<1>2. Shape /\ GatewaySound /\ [Next]_vars => Shape' /\ GatewaySound'
  BY SoundStep DEF Kept
<1> QED
  BY <1>1, <1>2, PTL DEF Spec


-----------------------------------------------------------------------------
(* Queues.                                                                 *)

\* A set of naturals has a least element.
LEMMA Least ==
  ASSUME NEW T, T \subseteq Nat, T # {}
  PROVE  \E x \in T : \A y \in T : ~ y < x
<1> DEFINE R == OpToRel(<, Nat)
<1>1. IsWellFoundedOn(R, Nat)
  BY NatLessThanWellFounded
<1>2. PICK x \in T : \A y \in T : ~ (<<y, x>> \in R)
  <2> HIDE DEF R
  <2> QED
    BY <1>1, WFMin
<1>3. \A y \in T : y < x => <<y, x>> \in R
  BY DEF OpToRel
<1> QED
  BY <1>2, <1>3

\* A set of places has a k-th one, for each k up to their number.
LEMMA NthFacts ==
  ASSUME NEW n \in Nat, NEW at \in SUBSET (1..n), NEW k \in 1..Cardinality(at)
  PROVE  Nth(at, k) \in at /\ Cardinality({j \in at : j <= Nth(at, k)}) = k
<1> DEFINE Upto(m) == {j \in at : j <= m}
           T == {m \in Nat : k <= Cardinality(Upto(m))}
<1>1. IsFiniteSet(at) /\ Cardinality(at) \in Nat
  <2>1. IsFiniteSet(1..n)
    BY FS_Interval
  <2> QED
    BY <2>1, FS_Subset, FS_CardinalityType
<1>2. \A m : IsFiniteSet(Upto(m)) /\ Cardinality(Upto(m)) \in Nat
  <2>1. \A m : Upto(m) \subseteq at
    OBVIOUS
  <2> HIDE DEF Upto
  <2> QED
    BY <1>1, <2>1, FS_Subset, FS_CardinalityType
<1>15. \A j \in at : j \in Nat /\ 1 <= j /\ j <= n
  OBVIOUS
<1>3. Upto(n) = at
  BY <1>15
<1>4. n \in T
  BY <1>3
<1>5. PICK m \in T : \A y \in T : ~ y < m
  BY <1>4, Least
<1>6. Upto(0) = {}
  <2>1. \A j \in at : ~ j <= 0
    BY <1>15
  <2> QED
    BY <2>1
<1>7. m # 0
  BY <1>1, <1>6, FS_EmptySet
<1>8. m \in Nat /\ m - 1 \in Nat /\ m - 1 \notin T
  <2>1. m \in Nat
    OBVIOUS
  <2>2. m - 1 \in Nat /\ m - 1 < m
    BY <1>7, <2>1
  <2>3. m - 1 \notin T
    <3> HIDE DEF T
    <3> QED
      BY <1>5, <2>2
  <2> QED
    BY <2>1, <2>2, <2>3
<1>9. Cardinality(Upto(m - 1)) < k
  <2>1. ~ k <= Cardinality(Upto(m - 1))
    BY <1>8
  <2>2. k \in Nat /\ Cardinality(Upto(m - 1)) \in Nat
    <3>1. k \in Nat
      BY <1>1
    <3> HIDE DEF Upto
    <3> QED
      BY <1>2, <3>1
  <2> HIDE DEF Upto
  <2> QED
    BY <2>1, <2>2
<1>10. Upto(m) = IF m \in at THEN Upto(m - 1) \cup {m} ELSE Upto(m - 1)
  <2>1. \A x : x \in Upto(m) <=> x \in at /\ x <= m
    OBVIOUS
  <2>2. \A x : x \in Upto(m - 1) <=> x \in at /\ x <= m - 1
    OBVIOUS
  <2>3. \A x \in at : x <= m <=> x <= m - 1 \/ x = m
    BY <1>8, <1>15
  <2> HIDE DEF Upto
  <2> QED
    BY <2>1, <2>2, <2>3
<1>11. m \notin Upto(m - 1)
  BY <1>8
<1>12. Cardinality(Upto(m)) <= Cardinality(Upto(m - 1)) + 1 /\ (m \notin at => Upto(m) = Upto(m - 1))
  <2> HIDE DEF Upto, T
  <2>1. CASE m \in at
    <3>1. Cardinality(Upto(m - 1) \cup {m}) = Cardinality(Upto(m - 1)) + 1
      BY <1>2, <1>11, FS_AddElement
    <3> QED
      BY <1>2, <1>10, <2>1, <3>1
  <2>2. CASE m \notin at
    BY <1>2, <1>10, <2>2
  <2> QED
    BY <2>1, <2>2
<1>13. k <= Cardinality(Upto(m))
  OBVIOUS
<1>14. m \in at /\ Cardinality(Upto(m)) = k
  <2> HIDE DEF Upto, T
  <2> QED
    BY <1>1, <1>2, <1>9, <1>12, <1>13
<1> QED
  BY <1>14 DEF Nth

\* The items at some places of a queue.
LEMMA PickedFacts ==
  ASSUME NEW S, NEW q \in Seq(S), NEW at \in SUBSET (DOMAIN q)
  PROVE  /\ Picked(q, at) \in Seq(S) /\ DOMAIN Picked(q, at) = 1..Cardinality(at)
         /\ \A k \in DOMAIN Picked(q, at) : Nth(at, k) \in at /\ Picked(q, at)[k] = q[Nth(at, k)]
         /\ \A k, l \in DOMAIN Picked(q, at) : k # l => Nth(at, k) # Nth(at, l)
<1>1. Len(q) \in Nat /\ DOMAIN q = 1..Len(q) /\ \A i \in DOMAIN q : q[i] \in S
  BY LenProperties, ElementOfSeq
<1>2. \A k \in 1..Cardinality(at) : Nth(at, k) \in at /\ Cardinality({j \in at : j <= Nth(at, k)}) = k
  BY <1>1, NthFacts
<1>3. Cardinality(at) \in Nat
  <2>1. IsFiniteSet(1..Len(q))
    BY <1>1, FS_Interval
  <2> QED
    BY <1>1, <2>1, FS_Subset, FS_CardinalityType
<1>4. Picked(q, at) \in [1..Cardinality(at) -> S]
  BY <1>1, <1>2 DEF Picked
<1>5. Picked(q, at) \in Seq(S)
  BY <1>3, <1>4, SeqDef
<1> QED
  BY <1>2, <1>4, <1>5 DEF Picked

LEMMA ItemFacts ==
  /\ \A t \in Topics : SubFrame(t) \in Items /\ SubFrame(t) \in Frames /\ SubFrame(t).kind = "subscribe"
  /\ \A t \in Topics, w \in {"hello", "edit"} : Data(t, w) \in Items /\ Data(t, w).kind = "data"
  /\ \A t \in Topics, r \in Refs, w \in {"hello", "edit"} :
       /\ DataFrame(t, r, w) \in Frames /\ DataFrame(t, r, w).kind = "data"
       /\ DataFrame(t, r, w).ref = r /\ DataFrame(t, r, w).topic = t
  /\ \A i \in Items : \/ i.kind = "subscribe" /\ i.topic \in Topics /\ i = SubFrame(i.topic)
                      \/ i.kind = "data" /\ i.topic \in Topics /\ i.what \in {"hello", "edit"}
  /\ \A f \in Frames : \/ f.kind = "subscribe" /\ f.topic \in Topics /\ f = SubFrame(f.topic)
                       \/ f.kind = "data" /\ f.topic \in Topics /\ f.ref \in Refs
<1> USE DEF Items, Frames, SubFrame, Data, DataFrame
<1>1. \A t \in Topics : SubFrame(t) \in Items /\ SubFrame(t) \in Frames /\ SubFrame(t).kind = "subscribe"
  OBVIOUS
<1>2. \A t \in Topics, w \in {"hello", "edit"} : Data(t, w) \in Items /\ Data(t, w).kind = "data"
  OBVIOUS
<1>3. \A t \in Topics, r \in Refs, w \in {"hello", "edit"} :
        /\ DataFrame(t, r, w) \in Frames /\ DataFrame(t, r, w).kind = "data"
        /\ DataFrame(t, r, w).ref = r /\ DataFrame(t, r, w).topic = t
  OBVIOUS
<1>4. \A i \in Items : \/ i.kind = "subscribe" /\ i.topic \in Topics /\ i = SubFrame(i.topic)
                       \/ i.kind = "data" /\ i.topic \in Topics /\ i.what \in {"hello", "edit"}
  OBVIOUS
<1>5. \A f \in Frames : \/ f.kind = "subscribe" /\ f.topic \in Topics /\ f = SubFrame(f.topic)
                        \/ f.kind = "data" /\ f.topic \in Topics /\ f.ref \in Refs
  OBVIOUS
<1> QED
  BY <1>1, <1>2, <1>3, <1>4, <1>5

\* What a flush sends and what it keeps: data goes under the ref of its topic, and a
\* subscription that was queued once goes once.
LEMMA FlushFacts ==
  ASSUME NEW q \in Seq(Items), NEW refs \in [Topics -> Refs \cup {0}]
  PROVE  /\ Stays(q, refs) \in Seq(Items) /\ Sent(q, refs) \in Seq(Frames)
         /\ \A k \in DOMAIN Stays(q, refs) : Stays(q, refs)[k].kind = "data"
         /\ \A k \in DOMAIN Sent(q, refs) :
              LET f == Sent(q, refs)[k] IN
              IF f.kind = "data" THEN f.ref = refs[f.topic] /\ f.ref # 0 ELSE \E i \in DOMAIN q : q[i] = f
         /\ \A t \in Topics : (\A i, j \in DOMAIN q : q[i] = SubFrame(t) /\ q[j] = SubFrame(t) => i = j)
              => \A k, l \in DOMAIN Sent(q, refs) :
                   Sent(q, refs)[k] = SubFrame(t) /\ Sent(q, refs)[l] = SubFrame(t) => k = l
<1> DEFINE go == {i \in DOMAIN q : Ready(q[i], refs)}
           no == {i \in DOMAIN q : ~ Ready(q[i], refs)}
           p  == Picked(q, go)
<1>1. /\ Stays(q, refs) \in Seq(Items)
      /\ \A k \in DOMAIN Stays(q, refs) : \E i \in no : Stays(q, refs)[k] = q[i]
  <2>1. no \in SUBSET (DOMAIN q)
    OBVIOUS
  <2>2. /\ Picked(q, no) \in Seq(Items)
        /\ \A k \in DOMAIN Picked(q, no) : Nth(no, k) \in no /\ Picked(q, no)[k] = q[Nth(no, k)]
    <3> HIDE DEF no
    <3> QED
      BY <2>1, PickedFacts
  <2> QED
    BY <2>2 DEF Stays
<1>2. \A i \in DOMAIN q : q[i] \in Items
  BY LenProperties, ElementOfSeq
<1>3. \A k \in DOMAIN Stays(q, refs) : Stays(q, refs)[k].kind = "data"
  BY <1>1, <1>2, ItemFacts DEF Ready
<1>4. /\ p \in Seq(Items) /\ \A k \in DOMAIN p : Nth(go, k) \in go /\ p[k] = q[Nth(go, k)]
      /\ \A k, l \in DOMAIN p : k # l => Nth(go, k) # Nth(go, l)
  <2>1. go \in SUBSET (DOMAIN q)
    OBVIOUS
  <2> HIDE DEF go
  <2> QED
    BY <2>1, PickedFacts
<1>5. Sent(q, refs) = [k \in DOMAIN p |-> Framed(p[k], refs)]
  BY DEF Sent
<1>6. Len(p) \in Nat /\ DOMAIN p = 1..Len(p)
  <2> HIDE DEF p
  <2> QED
    BY <1>4, LenProperties
<1>7. \A k \in DOMAIN p : p[k] \in Items /\ Ready(p[k], refs)
  BY <1>2, <1>4
<1> HIDE DEF p
<1>8. ASSUME NEW k \in DOMAIN p
      PROVE  LET f == Framed(p[k], refs) IN
             /\ f \in Frames
             /\ IF f.kind = "data" THEN f.ref = refs[f.topic] /\ f.ref # 0 ELSE f = p[k]
             /\ \A t \in Topics : f = SubFrame(t) => p[k] = f
  <2> SUFFICES ASSUME NEW i, i = p[k], NEW f, f = Framed(i, refs)
               PROVE  /\ f \in Frames
                      /\ IF f.kind = "data" THEN f.ref = refs[f.topic] /\ f.ref # 0 ELSE f = i
                      /\ \A t \in Topics : f = SubFrame(t) => i = f
    OBVIOUS
  <2>1. i \in Items /\ Ready(i, refs)
    BY <1>7
  <2>2. CASE i.kind = "subscribe"
    BY <2>1, <2>2, ItemFacts DEF Framed
  <2>3. CASE i.kind = "data"
    <3>1. i.topic \in Topics /\ i.what \in {"hello", "edit"} /\ refs[i.topic] \in Refs /\ refs[i.topic] # 0
      BY <2>1, <2>3, ItemFacts DEF Ready, Refs
    <3>2. f = DataFrame(i.topic, refs[i.topic], i.what)
      BY <2>3 DEF Framed
    <3> QED
      BY <3>1, <3>2, ItemFacts
  <2> QED
    BY <2>1, <2>2, <2>3, ItemFacts
<1>9. Sent(q, refs) \in Seq(Frames) /\ DOMAIN Sent(q, refs) = DOMAIN p
  <2>1. Sent(q, refs) \in [1..Len(p) -> Frames]
    BY <1>5, <1>6, <1>8
  <2> QED
    BY <1>5, <1>6, <2>1, SeqDef
<1>10. \A k \in DOMAIN p : Sent(q, refs)[k] = Framed(p[k], refs)
  BY <1>5
<1>11. \A k \in DOMAIN p : \E i \in DOMAIN q : q[i] = p[k]
  BY <1>4
<1>12. ASSUME NEW k \in DOMAIN p
       PROVE  LET f == Sent(q, refs)[k] IN
              IF f.kind = "data" THEN f.ref = refs[f.topic] /\ f.ref # 0 ELSE \E i \in DOMAIN q : q[i] = f
  BY <1>8, <1>10, <1>11
<1>13. ASSUME NEW t \in Topics, \A i, j \in DOMAIN q : q[i] = SubFrame(t) /\ q[j] = SubFrame(t) => i = j,
              NEW k \in DOMAIN p, NEW l \in DOMAIN p,
              Sent(q, refs)[k] = SubFrame(t), Sent(q, refs)[l] = SubFrame(t)
       PROVE  k = l
  <2>1. p[k] = SubFrame(t) /\ p[l] = SubFrame(t)
    BY <1>8, <1>10, <1>13
  <2>2. Nth(go, k) \in DOMAIN q /\ Nth(go, l) \in DOMAIN q /\ q[Nth(go, k)] = p[k] /\ q[Nth(go, l)] = p[l]
    BY <1>4
  <2>3. Nth(go, k) = Nth(go, l)
    BY <1>13, <2>1, <2>2
  <2> QED
    BY <1>4, <2>3
<1> QED
  BY <1>1, <1>3, <1>9, <1>12, <1>13

\* The queue with one more piece of data: no subscription is lost, none comes twice.
LEMMA QueueFacts ==
  ASSUME NEW q \in Seq(Items), NEW item \in Items, item.kind = "data"
  PROVE  /\ QueueData(q, item) \in Seq(Items)
         /\ \A k \in DOMAIN QueueData(q, item) : QueueData(q, item)[k].kind = "subscribe"
              => \E i \in DOMAIN q : q[i] = QueueData(q, item)[k]
         /\ \A t \in Topics : (\A i, j \in DOMAIN q : q[i] = SubFrame(t) /\ q[j] = SubFrame(t) => i = j)
              => \A k, l \in DOMAIN QueueData(q, item) :
                   QueueData(q, item)[k] = SubFrame(t) /\ QueueData(q, item)[l] = SubFrame(t) => k = l
<1> DEFINE full == Append(q, item)
           data == {i \in DOMAIN full : full[i].kind = "data"}
           n    == Nth(data, 1)
<1>1. /\ full \in Seq(Items) /\ Len(full) = Len(q) + 1 /\ Len(q) \in Nat /\ DOMAIN q = 1..Len(q)
      /\ DOMAIN full = 1..Len(full) /\ full[Len(q) + 1] = item /\ \A i \in 1..Len(q) : full[i] = q[i]
  BY AppendProperties, LenProperties
<1> HIDE DEF full
<1>2. n \in 1..Len(full)
  <2>1. Len(full) \in data /\ data \in SUBSET (1..Len(full)) /\ Len(full) \in Nat
    BY <1>1
  <2>2. IsFiniteSet(data) /\ Cardinality(data) \in Nat
    <3>1. IsFiniteSet(1..Len(full))
      <4>1. 1 \in Int /\ Len(full) \in Int
        BY <2>1
      <4> QED
        BY <4>1, FS_Interval
    <3> HIDE DEF data
    <3> QED
      BY <2>1, <3>1, FS_Subset, FS_CardinalityType
  <2>3. Cardinality(data) # 0
    BY <2>1, <2>2, FS_EmptySet
  <2>4. 1 \in 1..Cardinality(data)
    BY <2>2, <2>3
  <2> HIDE DEF data
  <2> QED
    BY <2>1, <2>4, NthFacts
<1> HIDE DEF n
<1> DEFINE a == SubSeq(full, 1, n - 1)  b == SubSeq(full, n + 1, Len(full))  out1 == RemoveAt(full, n)
<1>3. \A i \in 1..Len(full) : full[i] \in Items
  BY <1>1, ElementOfSeq
<1>4. /\ a \in Seq(Items) /\ Len(a) = n - 1 /\ \A i \in 1..n - 1 : a[i] = full[i]
  <2>1. 1 \in Int /\ n - 1 \in Int /\ \A i \in 1..n - 1 : full[i] \in Items
    BY <1>1, <1>2, <1>3
  <2>2. /\ a \in Seq(Items) /\ Len(a) = IF 1 <= n - 1 THEN n - 1 - 1 + 1 ELSE 0
        /\ \A i \in 1..(n - 1) - 1 + 1 : a[i] = full[1 + i - 1]
    BY <2>1, SubSeqProperties
  <2> HIDE DEF a
  <2> QED
    BY <1>1, <1>2, <2>2
<1>5. /\ b \in Seq(Items) /\ Len(b) = Len(full) - n /\ \A i \in 1..Len(full) - n : b[i] = full[n + i]
  <2>1. n + 1 \in Int /\ Len(full) \in Int /\ \A i \in n + 1..Len(full) : full[i] \in Items
    BY <1>1, <1>2, <1>3
  <2>2. /\ b \in Seq(Items) /\ Len(b) = IF n + 1 <= Len(full) THEN Len(full) - (n + 1) + 1 ELSE 0
        /\ \A i \in 1..Len(full) - (n + 1) + 1 : b[i] = full[n + 1 + i - 1]
    BY <2>1, SubSeqProperties
  <2> HIDE DEF b
  <2> QED
    BY <1>1, <1>2, <2>2
<1>6. out1 = a \o b
  BY DEF RemoveAt
<1> HIDE DEF a, b, out1
<1>7. /\ out1 \in Seq(Items) /\ DOMAIN out1 = 1..Len(full) - 1
      /\ \A i \in 1..Len(full) - 1 : out1[i] = IF i < n THEN full[i] ELSE full[i + 1]
  <2>1. /\ a \o b \in Seq(Items) /\ Len(a \o b) = Len(a) + Len(b)
        /\ \A i \in 1..Len(a) + Len(b) : (a \o b)[i] = IF i <= Len(a) THEN a[i] ELSE b[i - Len(a)]
    BY <1>4, <1>5, ConcatProperties
  <2>2. out1 \in Seq(Items) /\ DOMAIN out1 = 1..Len(out1)
    BY <1>6, <2>1, LenProperties
  <2>3. Len(out1) = Len(full) - 1
    BY <1>1, <1>2, <1>4, <1>5, <1>6, <2>1
  <2>4. ASSUME NEW i \in 1..Len(full) - 1 PROVE out1[i] = IF i < n THEN full[i] ELSE full[i + 1]
    <3>1. i \in 1..Len(a) + Len(b) /\ out1[i] = IF i <= Len(a) THEN a[i] ELSE b[i - Len(a)]
      BY <1>1, <1>2, <1>4, <1>5, <1>6, <2>1
    <3>2. CASE i < n
      BY <1>1, <1>2, <1>4, <3>1, <3>2
    <3>3. CASE ~ i < n
      <4>1. i - (n - 1) \in 1..Len(full) - n /\ n + (i - (n - 1)) = i + 1 /\ ~ i <= Len(a)
        BY <1>1, <1>2, <1>4, <3>3
      <4> QED
        BY <1>4, <1>5, <3>1, <3>3, <4>1
    <3> QED
      BY <3>2, <3>3
  <2> QED
    BY <2>2, <2>3, <2>4
<1>8. QueueData(q, item) = full \/ QueueData(q, item) = out1
  BY DEF QueueData, full, n, data, out1
<1>9. \A i \in 1..Len(full) : full[i].kind = "subscribe" => i \in 1..Len(q) /\ full[i] = q[i]
  BY <1>1
<1>10. \A t \in Topics : SubFrame(t).kind = "subscribe"
  BY ItemFacts
<1>11. CASE QueueData(q, item) = full
  BY <1>1, <1>9, <1>10, <1>11
<1>12. CASE QueueData(q, item) = out1
  <2>1. \A k \in DOMAIN out1 : out1[k].kind = "subscribe" => \E i \in DOMAIN q : q[i] = out1[k]
    BY <1>1, <1>2, <1>7, <1>9
  <2>2. ASSUME NEW t \in Topics, \A i, j \in DOMAIN q : q[i] = SubFrame(t) /\ q[j] = SubFrame(t) => i = j,
               NEW k \in DOMAIN out1, NEW l \in DOMAIN out1, out1[k] = SubFrame(t), out1[l] = SubFrame(t)
        PROVE  k = l
    <3> DEFINE i == IF k < n THEN k ELSE k + 1
               j == IF l < n THEN l ELSE l + 1
    <3>1. i \in 1..Len(full) /\ j \in 1..Len(full) /\ full[i] = SubFrame(t) /\ full[j] = SubFrame(t)
      BY <1>1, <1>2, <1>7, <2>2
    <3>2. i = j
      BY <1>1, <1>9, <1>10, <2>2, <3>1
    <3> QED
      BY <1>1, <1>2, <1>7, <3>2
  <2> QED
    BY <1>7, <1>12, <2>1, <2>2
<1> QED
  BY <1>8, <1>11, <1>12

-----------------------------------------------------------------------------
(* Types.                                                                  *)

LEMMA Bounds ==
  /\ OutCap \in Nat \ {0} /\ MaxRefs \in Nat \ {0} /\ MaxSockets \in Nat \ {0} /\ MaxSends \in Nat
  /\ Capacity \in Nat \ {0} /\ NoTopic \notin Topics /\ Gated \subseteq Topics
  /\ Sockets = 1..MaxSockets /\ Refs = 1..MaxRefs /\ 0 \notin Refs
BY GatewayAssumption DEF NoTopic, Sockets, Refs

LEMMA AnswerFacts ==
  /\ \A t \in Topics, r \in Refs : Ack(t, r) \in Answers /\ Ack(t, r).kind = "ack" /\ Ack(t, r).ref = r /\ Ack(t, r).topic = t
  /\ \A r \in Refs, n \in Nat : Entry(r, n) \in Answers /\ Entry(r, n).kind = "entry" /\ Entry(r, n).ref = r /\ Entry(r, n).seq = n
  /\ \A r \in Refs : Reply(r) \in Answers /\ Reply(r).kind = "reply"
  /\ \A t \in Topics : Gap(t) \in Answers /\ Gap(t).kind = "gap" /\ Gap(t).topic = t
  /\ Error \in Answers /\ Error.kind = "error"
  /\ \A f \in Answers : \/ f.kind = "ack" /\ f.topic \in Topics /\ f.ref \in Refs /\ f = Ack(f.topic, f.ref)
                        \/ f.kind = "entry" /\ f.ref \in Refs /\ f.seq \in Nat
                        \/ f.kind = "gap" /\ f.topic \in Topics
                        \/ f.kind \in {"reply", "error"}
<1> USE DEF Answers, Ack, Entry, Reply, Gap, Error
<1>1. \A t \in Topics, r \in Refs : Ack(t, r) \in Answers /\ Ack(t, r).kind = "ack" /\ Ack(t, r).ref = r /\ Ack(t, r).topic = t
  OBVIOUS
<1>2. \A r \in Refs, n \in Nat : Entry(r, n) \in Answers /\ Entry(r, n).kind = "entry" /\ Entry(r, n).ref = r /\ Entry(r, n).seq = n
  OBVIOUS
<1>3. \A r \in Refs : Reply(r) \in Answers /\ Reply(r).kind = "reply"
  OBVIOUS
<1>4. \A t \in Topics : Gap(t) \in Answers /\ Gap(t).kind = "gap" /\ Gap(t).topic = t
  OBVIOUS
<1>5. Error \in Answers /\ Error.kind = "error"
  OBVIOUS
<1>6. ASSUME NEW f \in Answers
      PROVE  \/ f.kind = "ack" /\ f.topic \in Topics /\ f.ref \in Refs /\ f = Ack(f.topic, f.ref)
             \/ f.kind = "entry" /\ f.ref \in Refs /\ f.seq \in Nat
             \/ f.kind = "gap" /\ f.topic \in Topics
             \/ f.kind \in {"reply", "error"}
  <2>1. CASE f \in [kind : {"ack"}, topic : Topics, ref : Refs]
    BY <2>1
  <2>2. CASE f \in [kind : {"entry"}, ref : Refs, seq : Nat]
    BY <2>2
  <2>3. CASE f \in [kind : {"reply"}, ref : Refs]
    BY <2>3
  <2>4. CASE f \in [kind : {"gap"}, topic : Topics]
    BY <2>4
  <2>5. CASE f = Error
    BY <2>5
  <2> QED
    BY <2>1, <2>2, <2>3, <2>4, <2>5
<1> QED
  BY <1>1, <1>2, <1>3, <1>4, <1>5, <1>6

\* The pumps that the steps write.
LEMMA PumpFacts ==
  /\ NoPump \in Pumps
  /\ \A p \in Pumps : /\ Dead(p) \in Pumps /\ Dead(p).pc = "dead" /\ Dead(p).topic = p.topic
                      /\ Dead(p).gate = p.gate /\ Dead(p).edge = p.edge
  /\ \A p \in Pumps : [Dead(p) EXCEPT !.edge = 0] \in Pumps
  /\ \A p \in Pumps, c \in {"gate", "armed", "parked", "next", "push", "gap", "dead"} : [p EXCEPT !.pc = c] \in Pumps
  /\ \A p \in Pumps : [p EXCEPT !.pc = "armed", !.woken = FALSE] \in Pumps
  /\ \A p \in Pumps : [p EXCEPT !.gate = TRUE, !.woken = TRUE] \in Pumps
  /\ \A p \in Pumps, h, n \in Nat : [p EXCEPT !.pc = "push", !.held = h, !.next = n] \in Pumps
  /\ \A p \in Pumps : [p EXCEPT !.pc = "next", !.held = 0] \in Pumps
<1> USE DEF Pumps
<1>1. NoPump \in Pumps
  BY DEF NoPump
<1>2. ASSUME NEW p \in Pumps
      PROVE  /\ Dead(p) \in Pumps /\ Dead(p).pc = "dead" /\ Dead(p).topic = p.topic
             /\ Dead(p).gate = p.gate /\ Dead(p).edge = p.edge
  BY DEF Dead
<1>3. \A p \in Pumps : [Dead(p) EXCEPT !.edge = 0] \in Pumps
  BY DEF Dead
<1>4. \A p \in Pumps, c \in {"gate", "armed", "parked", "next", "push", "gap", "dead"} : [p EXCEPT !.pc = c] \in Pumps
  OBVIOUS
<1>5. \A p \in Pumps : [p EXCEPT !.pc = "armed", !.woken = FALSE] \in Pumps
  OBVIOUS
<1>6. \A p \in Pumps : [p EXCEPT !.gate = TRUE, !.woken = TRUE] \in Pumps
  OBVIOUS
<1>7. \A p \in Pumps, h, n \in Nat : [p EXCEPT !.pc = "push", !.held = h, !.next = n] \in Pumps
  OBVIOUS
<1>8. \A p \in Pumps : [p EXCEPT !.pc = "next", !.held = 0] \in Pumps
  OBVIOUS
<1> QED
  BY <1>1, <1>2, <1>3, <1>4, <1>5, <1>6, <1>7, <1>8

LEMMA NewPumpFacts ==
  ASSUME TypeOK, NEW t \in Topics
  PROVE  /\ NewPump(t) \in Pumps /\ NewPump(t).topic = t /\ NewPump(t).pc = "gate"
         /\ NewPump(t).next \in 1..Len(log[t]) + 1 /\ NewPump(t).edge = Len(log[t])
         /\ NewPump(t).gate = (t \notin Gated) /\ Len(log[t]) \in Nat
<1>1. Len(log[t]) \in Nat
  BY LenProperties DEF TypeOK
<1>2. Earliest(t) \in 1..Len(log[t]) + 1
  BY <1>1, Bounds DEF Earliest
<1>3. (t \notin Gated) \in BOOLEAN
  OBVIOUS
<1> DEFINE n == NewPump(t)
<1>4. n = [topic |-> t, gate |-> t \notin Gated, woken |-> FALSE, pc |-> "gate",
           next |-> Earliest(t), edge |-> Len(log[t]), held |-> 0]
  BY DEF NewPump
<1>5. n \in Pumps
  BY <1>1, <1>2, <1>3, <1>4 DEF Pumps
<1>6. /\ n.topic = t /\ n.pc = "gate" /\ n.next = Earliest(t) /\ n.edge = Len(log[t])
      /\ n.gate = (t \notin Gated)
  BY <1>4
<1> QED
  BY <1>1, <1>2, <1>5, <1>6

\* What a flush does to the two queues.
LEMMA FlushTypes ==
  ASSUME TypeOK, NEW q \in Seq(Items), NEW refs \in [Topics -> Refs \cup {0}], Flush(q, refs)
  PROVE  outbox' \in Seq(Items) /\ inbox' \in [Sockets -> Seq(Frames)]
<1>1. CASE conn' = "open"
  <2>1. outbox' = Stays(q, refs) /\ inbox' = [inbox EXCEPT ![sock] = @ \o Sent(q, refs)]
    BY <1>1 DEF Flush
  <2>2. Stays(q, refs) \in Seq(Items) /\ Sent(q, refs) \in Seq(Frames)
    BY FlushFacts
  <2>3. inbox[sock] \o Sent(q, refs) \in Seq(Frames)
    BY <2>2, ConcatProperties DEF TypeOK
  <2> QED
    BY <2>1, <2>2, <2>3 DEF TypeOK
<1>2. CASE conn' # "open"
  BY <1>2 DEF Flush, TypeOK
<1> QED
  BY <1>1, <1>2

\* A frame is put into the outbound queue of a session ...
LEMMA PutTypes ==
  ASSUME TypeOK, NEW s \in Sockets, Room(s), NEW f \in Answers, out' = [out EXCEPT ![s] = Append(@, f)]
  PROVE  out' \in [Sockets -> Seq(Answers)] /\ \A u \in Sockets : Len(out'[u]) <= OutCap
<1>1. /\ Append(out[s], f) \in Seq(Answers) /\ Len(Append(out[s], f)) = Len(out[s]) + 1
      /\ Len(out[s]) \in Nat
  BY AppendProperties, LenProperties DEF TypeOK
<1>2. Len(Append(out[s], f)) <= OutCap
  BY <1>1, Bounds DEF Room
<1> QED
  BY <1>1, <1>2 DEF TypeOK

LEMMA TrySendTypes ==
  ASSUME TypeOK, NEW s \in Sockets, NEW f \in Answers, TrySend(s, f)
  PROVE  /\ out' \in [Sockets -> Seq(Answers)] /\ \A u \in Sockets : Len(out'[u]) <= OutCap
         /\ up' \in [Sockets -> {"none", "open", "closing", "ended"}]
<1>1. CASE ~ Heard(s)
  BY <1>1 DEF TrySend, TypeOK
<1>2. CASE Heard(s) /\ Room(s)
  BY <1>2, PutTypes DEF TrySend, TypeOK
<1>3. CASE Heard(s) /\ ~ Room(s)
  BY <1>3 DEF TrySend, TypeOK
<1> QED
  BY <1>1, <1>2, <1>3

\* ... or taken from it.
LEMMA TakeTypes ==
  ASSUME TypeOK, NEW s \in Sockets, out[s] # <<>>, Take(s)
  PROVE  /\ out' \in [Sockets -> Seq(Answers)] /\ \A u \in Sockets : Len(out'[u]) <= OutCap
         /\ Head(out[s]) \in Answers
<1>1. /\ Head(out[s]) \in Answers /\ Tail(out[s]) \in Seq(Answers) /\ Len(Tail(out[s])) = Len(out[s]) - 1
      /\ Len(out[s]) \in Nat
  BY HeadTailProperties, LenProperties DEF TypeOK
<1>2. Len(Tail(out[s])) <= OutCap
  BY <1>1, Bounds DEF TypeOK
<1> QED
  BY <1>1, <1>2 DEF Take, TypeOK

\* The client's own steps.
LEMMA TypesOfClient ==
  ASSUME TypeOK, (\E t \in Topics : Subscribe(t) \/ SendData(t)) \/ Open \/ SocketDrops \/ Reconnect
  PROVE  TypeOK'
<1> USE Bounds
<1>1. ASSUME NEW t \in Topics, Subscribe(t) PROVE TypeOK'
  <2>1. Append(outbox, SubFrame(t)) \in Seq(Items)
    BY ItemFacts, AppendProperties DEF TypeOK
  <2>2. outbox' \in Seq(Items) /\ inbox' \in [Sockets -> Seq(Frames)]
    BY <1>1, <2>1, FlushTypes DEF Subscribe, TypeOK
  <2> QED
    BY <1>1, <2>2 DEF Subscribe, process, TypeOK
<1>2. ASSUME NEW t \in Topics, SendData(t) PROVE TypeOK'
  <2>1. Data(t, "edit") \in Items /\ Data(t, "edit").kind = "data"
    BY ItemFacts
  <2>2. QueueData(outbox, Data(t, "edit")) \in Seq(Items)
    BY <2>1, QueueFacts DEF TypeOK
  <2>3. outbox' \in Seq(Items) /\ inbox' \in [Sockets -> Seq(Frames)]
    BY <1>2, <2>2, FlushTypes DEF SendData, TypeOK
  <2>4. sends' \in 0..MaxSends
    BY <1>2 DEF SendData, TypeOK
  <2> QED
    BY <1>2, <2>3, <2>4 DEF SendData, process, TypeOK
<1>3. CASE Open
  <2>1. outbox' \in Seq(Items) /\ inbox' \in [Sockets -> Seq(Frames)]
    BY <1>3, FlushTypes DEF Open, TypeOK
  <2> QED
    BY <1>3, <2>1 DEF Open, process, TypeOK
<1>4. CASE SocketDrops
  <2>1. out' \in [Sockets -> Seq(Answers)] /\ \A s \in Sockets : Len(out'[s]) <= OutCap
    BY <1>4, EmptySeq DEF SocketDrops, TypeOK
  <2>2. pumps' \in [Sockets -> [Refs -> Pumps]]
    <3> DEFINE g == [r \in Refs |-> [Dead(pumps[sock][r]) EXCEPT !.edge = 0]]
    <3>1. pumps' = [pumps EXCEPT ![sock] = g]
      BY <1>4 DEF SocketDrops
    <3>2. \A r \in Refs : pumps[sock][r] \in Pumps
      BY DEF TypeOK
    <3>3. g \in [Refs -> Pumps]
      BY <3>2, PumpFacts
    <3> HIDE DEF g
    <3> QED
      BY <3>1, <3>3 DEF TypeOK
  <2> QED
    BY <1>4, <2>1, <2>2 DEF SocketDrops, process, TypeOK
<1>5. CASE Reconnect
  <2> DEFINE at == {i \in DOMAIN outbox : outbox[i].kind = "data"}
  <2>1. PICK subs \in SetToSeqs(intent) :
          outbox' = [i \in DOMAIN subs |-> SubFrame(subs[i])] \o Picked(outbox, at)
    BY <1>5 DEF Reconnect
  <2>2. subs \in [1..Cardinality(intent) -> intent] /\ Cardinality(intent) \in Nat
    <3>1. IsFiniteSet(intent)
      BY GatewayAssumption, FS_Subset DEF TypeOK
    <3> QED
      BY <3>1, FS_CardinalityType DEF SetToSeqs
  <2>3. [i \in DOMAIN subs |-> SubFrame(subs[i])] \in [1..Cardinality(intent) -> Items]
    BY <2>2, ItemFacts DEF TypeOK
  <2>4. [i \in DOMAIN subs |-> SubFrame(subs[i])] \in Seq(Items)
    BY <2>2, <2>3, SeqDef
  <2>5. Picked(outbox, at) \in Seq(Items)
    <3>1. at \in SUBSET (DOMAIN outbox)
      OBVIOUS
    <3> HIDE DEF at
    <3> QED
      BY <3>1, PickedFacts DEF TypeOK
  <2>6. outbox' \in Seq(Items)
    BY <2>1, <2>4, <2>5, ConcatProperties
  <2>7. sock' \in Sockets
    BY <1>5 DEF Reconnect, TypeOK
  <2> QED
    BY <1>5, <2>6, <2>7 DEF Reconnect, sessions, process, TypeOK
<1> QED
  BY <1>1, <1>2, <1>3, <1>4, <1>5

\* What the client makes of a frame.
LEMMA TypesOfReceive == ASSUME TypeOK, ClientReceive PROVE TypeOK'
<1> USE Bounds
<1> DEFINE f == Head(out[sock])
<1>1. /\ sock \in Sockets /\ f \in Answers /\ out' \in [Sockets -> Seq(Answers)]
      /\ \A u \in Sockets : Len(out'[u]) <= OutCap
  <2>1. sock \in Sockets /\ out[sock] # <<>> /\ Take(sock)
    BY DEF ClientReceive, TypeOK
  <2> QED
    BY <2>1, TakeTypes
<1>2. \/ f.kind = "ack" /\ OnAck(f.topic, f.ref)
      \/ f.kind = "gap" /\ OnGap(f.topic)
      \/ f.kind = "entry" /\ OnEntry(f.ref, f.seq)
      \/ f.kind \in {"reply", "error"} /\ UNCHANGED <<refOf, nameOf, told, last, outbox, inbox>>
  BY DEF ClientReceive
<1> HIDE DEF f
<1> DEFINE Fine ==
      /\ refOf' \in [Topics -> Refs \cup {0}] /\ nameOf' \in [Refs -> Topics \cup {NoTopic}]
      /\ told' \subseteq Topics /\ last' \in [Topics -> Nat]
      /\ outbox' \in Seq(Items) /\ inbox' \in [Sockets -> Seq(Frames)]
<1>3. Fine
  <2>1. ASSUME NEW t \in Topics, NEW r \in Refs, OnAck(t, r) PROVE Fine
    <3> DEFINE refs == [refOf EXCEPT ![t] = r]
               hello == IF t \in Gated THEN <<DataFrame(t, r, "hello")>> ELSE <<>>
    <3>1. refs \in [Topics -> Refs \cup {0}]
      BY DEF TypeOK
    <3>2. Stays(outbox, refs) \in Seq(Items) /\ Sent(outbox, refs) \in Seq(Frames)
      <4> HIDE DEF refs
      <4> QED
        BY <3>1, FlushFacts DEF TypeOK
    <3>3. hello \in Seq(Frames)
      BY ItemFacts
    <3>4. (inbox[sock] \o Sent(outbox, refs)) \o hello \in Seq(Frames)
      <4> HIDE DEF refs, hello
      <4>1. inbox[sock] \o Sent(outbox, refs) \in Seq(Frames)
        BY <1>1, <3>2, ConcatProperties DEF TypeOK
      <4> QED
        BY <3>3, <4>1, ConcatProperties
    <3>5. /\ refOf' = refs /\ nameOf' = [nameOf EXCEPT ![r] = t] /\ last' = [last EXCEPT ![t] = 0]
          /\ outbox' = Stays(outbox, refs) /\ told' = told
          /\ inbox' = [inbox EXCEPT ![sock] = @ \o Sent(outbox, refs) \o hello]
      BY <2>1 DEF OnAck
    <3> HIDE DEF refs, hello
    <3> QED
      BY <1>1, <3>1, <3>2, <3>4, <3>5 DEF TypeOK
  <2>2. ASSUME NEW t \in Topics, OnGap(t) PROVE Fine
    BY <2>2 DEF OnGap, TypeOK
  <2>3. ASSUME NEW r \in Refs, NEW n \in Nat, OnEntry(r, n) PROVE Fine
    BY <2>3 DEF OnEntry, TypeOK
  <2>4. ASSUME UNCHANGED <<refOf, nameOf, told, last, outbox, inbox>> PROVE Fine
    BY <2>4 DEF TypeOK
  <2>5. \/ f.kind = "ack" /\ f.topic \in Topics /\ f.ref \in Refs
        \/ f.kind = "entry" /\ f.ref \in Refs /\ f.seq \in Nat
        \/ f.kind = "gap" /\ f.topic \in Topics
        \/ f.kind \in {"reply", "error"}
    BY <1>1, AnswerFacts
  <2> HIDE DEF Fine
  <2>6. CASE f.kind = "ack"
    BY <1>2, <2>1, <2>5, <2>6
  <2>7. CASE f.kind = "entry"
    BY <1>2, <2>3, <2>5, <2>7
  <2>8. CASE f.kind = "gap"
    BY <1>2, <2>2, <2>5, <2>8
  <2>9. CASE f.kind \in {"reply", "error"}
    BY <1>2, <2>4, <2>9
  <2> QED
    BY <2>5, <2>6, <2>7, <2>8, <2>9
<1> QED
  BY <1>1, <1>3 DEF ClientReceive, process, TypeOK

LEMMA JoinTypes ==
  ASSUME TypeOK, NEW t \in Topics, Joined(t) \/ Left(t) \/ UNCHANGED <<counts, active>>
  PROVE  active' \subseteq Topics
BY DEF Joined, Left, TypeOK

\* Records in their tables.
LEMMA TableFacts ==
  ASSUME TypeOK
  PROVE  /\ \A s \in Sockets, r \in Refs : pumps[s][r] \in Pumps
         /\ \A s \in Sockets, t \in Topics : byName[s][t] \in Refs \cup {0}
         /\ \A s \in Sockets : nextRef[s] \in 1..MaxRefs + 1
<1>1. \A s \in Sockets, r \in Refs : pumps[s][r] \in Pumps
  <2>1. pumps \in [Sockets -> [Refs -> Pumps]]
    BY DEF TypeOK
  <2> QED
    BY <2>1
<1>2. \A s \in Sockets, t \in Topics : byName[s][t] \in Refs \cup {0}
  <2>1. byName \in [Sockets -> [Topics -> Refs \cup {0}]]
    BY DEF TypeOK
  <2> QED
    BY <2>1
<1> QED
  BY <1>1, <1>2 DEF TypeOK

\* The session's steps.
LEMMA TypesOfSession ==
  ASSUME TypeOK, counts' \in [Topics -> Nat], NEW s \in Sockets,
         SessionReceive(s) \/ SessionBreaks(s) \/ SessionEnds(s) \/ \E t \in Topics : Release(s, t)
  PROVE  TypeOK'
<1> USE Bounds
<1>1. CASE SessionReceive(s)
  <2> DEFINE f == Head(inbox[s])
  <2>1. f \in Frames /\ inbox' \in [Sockets -> Seq(Frames)]
    <3>1. inbox[s] \in Seq(Frames) /\ inbox[s] # <<>> /\ inbox' = [inbox EXCEPT ![s] = Tail(@)]
      BY <1>1 DEF SessionReceive, TypeOK
    <3>2. f \in Frames /\ Tail(inbox[s]) \in Seq(Frames)
      BY <3>1, HeadTailProperties
    <3> QED
      BY <3>1, <3>2 DEF TypeOK
  <2>2. (f.kind = "subscribe" /\ OpenTopic(s, f.topic)) \/ (f.kind = "data" /\ HandleData(s, f))
    BY <1>1 DEF SessionReceive
  <2>3. UNCHANGED client
    BY <1>1 DEF SessionReceive
  <2> HIDE DEF f
  <2>4. ASSUME NEW t \in Topics, OpenTopic(s, t) PROVE TypeOK'
    <3> DEFINE r == nextRef[s]  old == byName[s][t]
    <3>1. r \in Refs /\ r + 1 \in 1..MaxRefs + 1
      <4>1. r <= MaxRefs
        BY <2>4 DEF OpenTopic
      <4>2. r \in 1..MaxRefs + 1
        BY TableFacts
      <4> QED
        BY <4>1, <4>2
    <3>2. Ack(t, r) \in Answers
      BY <3>1, AnswerFacts
    <3>3. /\ out' \in [Sockets -> Seq(Answers)] /\ \A u \in Sockets : Len(out'[u]) <= OutCap
          /\ up' \in [Sockets -> {"none", "open", "closing", "ended"}]
      BY <2>4, <3>2, TrySendTypes DEF OpenTopic
    <3>4. pumps' \in [Sockets -> [Refs -> Pumps]]
      <4> DEFINE g == [q \in Refs |-> IF q = r THEN NewPump(t) ELSE IF q = old THEN Dead(pumps[s][q]) ELSE pumps[s][q]]
      <4>1. pumps' = [pumps EXCEPT ![s] = g]
        BY <2>4 DEF OpenTopic
      <4>2. \A q \in Refs : pumps[s][q] \in Pumps
        BY TableFacts
      <4>3. g \in [Refs -> Pumps]
        BY <4>2, PumpFacts, NewPumpFacts
      <4> HIDE DEF g
      <4> QED
        BY <4>1, <4>3 DEF TypeOK
    <3>5. byName' \in [Sockets -> [Topics -> Refs \cup {0}]] /\ nextRef' \in [Sockets -> 1..MaxRefs + 1]
      BY <2>4, <3>1 DEF OpenTopic, TypeOK
    <3>6. active' \subseteq Topics
      <4>1. Joined(t) \/ UNCHANGED <<counts, active>>
        BY <2>4 DEF OpenTopic
      <4> QED
        BY <4>1, JoinTypes
    <3>7. UNCHANGED <<log, replied>>
      BY <2>4 DEF OpenTopic
    <3> HIDE DEF r, old
    <3> QED
      BY <2>1, <2>3, <3>3, <3>4, <3>5, <3>6, <3>7 DEF client, TypeOK
  <2>5. ASSUME f.kind = "data", HandleData(s, f) PROVE TypeOK'
    <3>1. f.ref \in Refs /\ f.topic \in Topics /\ pumps[s][f.ref] \in Pumps
      <4>1. f.ref \in Refs /\ f.topic \in Topics
        BY <2>1, <2>5, ItemFacts
      <4> QED
        BY <4>1, TableFacts
    <3>2. UNCHANGED <<nextRef, byName, counts, active>>
      BY <2>5 DEF HandleData
    <3>3. CASE TrySend(s, Error) /\ UNCHANGED <<pumps, replied, log>>
      <4>1. /\ out' \in [Sockets -> Seq(Answers)] /\ \A u \in Sockets : Len(out'[u]) <= OutCap
            /\ up' \in [Sockets -> {"none", "open", "closing", "ended"}]
        BY <3>3, AnswerFacts, TrySendTypes
      <4> QED
        BY <2>1, <2>3, <3>2, <3>3, <4>1 DEF client, TypeOK
    <3>4. CASE Hello(s, f.ref)
      <4>1. /\ out' \in [Sockets -> Seq(Answers)] /\ \A u \in Sockets : Len(out'[u]) <= OutCap
            /\ up' \in [Sockets -> {"none", "open", "closing", "ended"}]
        BY <3>1, <3>4, AnswerFacts, TrySendTypes DEF Hello
      <4>2. pumps' \in [Sockets -> [Refs -> Pumps]] /\ replied' \in [Sockets -> SUBSET Refs]
        <5>1. [pumps[s][f.ref] EXCEPT !.gate = TRUE, !.woken = TRUE] \in Pumps
          BY <3>1, PumpFacts
        <5>2. CASE Room(s)
          <6>1. /\ pumps' = [pumps EXCEPT ![s][f.ref] = [pumps[s][f.ref] EXCEPT !.gate = TRUE, !.woken = TRUE]]
                /\ replied' = [replied EXCEPT ![s] = @ \cup {f.ref}]
            BY <3>4, <5>2 DEF Hello
          <6> QED
            BY <3>1, <5>1, <6>1 DEF TypeOK
        <5>3. CASE ~ Room(s)
          BY <3>4, <5>3 DEF Hello, TypeOK
        <5> QED
          BY <5>2, <5>3
      <4>3. UNCHANGED log
        BY <3>4 DEF Hello
      <4> QED
        BY <2>1, <2>3, <3>2, <4>1, <4>2, <4>3 DEF client, TypeOK
    <3>5. CASE /\ log' = [log EXCEPT ![pumps[s][f.ref].topic] = Append(@, f.topic)]
               /\ UNCHANGED <<up, out, pumps, replied>>
      <4>1. \A t \in Topics : Append(log[t], f.topic) \in Seq(Topics)
        BY <3>1, AppendProperties DEF TypeOK
      <4>2. log' \in [Topics -> Seq(Topics)]
        BY <3>5, <4>1 DEF TypeOK
      <4> QED
        BY <2>1, <2>3, <3>2, <3>5, <4>2 DEF client, TypeOK
    <3> QED
      BY <2>5, <3>3, <3>4, <3>5 DEF HandleData
  <2> QED
    BY <2>1, <2>2, <2>4, <2>5, ItemFacts
<1>2. CASE SessionBreaks(s)
  BY <1>2 DEF SessionBreaks, client, process, TypeOK
<1>3. CASE SessionEnds(s)
  <2>1. out' \in [Sockets -> Seq(Answers)] /\ \A u \in Sockets : Len(out'[u]) <= OutCap
    BY <1>3, EmptySeq DEF SessionEnds, TypeOK
  <2>2. inbox' \in [Sockets -> Seq(Frames)]
    BY <1>3, EmptySeq DEF SessionEnds, TypeOK
  <2> QED
    BY <1>3, <2>1, <2>2 DEF SessionEnds, client, process, TypeOK
<1>4. ASSUME NEW t \in Topics, Release(s, t) PROVE TypeOK'
  <2>1. byName[s][t] \in Refs
    BY <1>4 DEF Release, TypeOK
  <2>2. pumps' \in [Sockets -> [Refs -> Pumps]]
    <3>1. Dead(pumps[s][byName[s][t]]) \in Pumps
      BY <2>1, PumpFacts, TableFacts
    <3>2. pumps' = [pumps EXCEPT ![s][byName[s][t]] = Dead(pumps[s][byName[s][t]])]
      BY <1>4 DEF Release
    <3> QED
      BY <2>1, <3>1, <3>2 DEF TypeOK
  <2>3. byName' \in [Sockets -> [Topics -> Refs \cup {0}]]
    BY <1>4 DEF Release, TypeOK
  <2>4. active' \subseteq Topics
    BY <1>4, JoinTypes DEF Release
  <2> QED
    BY <1>4, <2>2, <2>3, <2>4 DEF Release, client, TypeOK
<1> QED
  BY <1>1, <1>2, <1>3, <1>4

\* The steps of a pump, one by one.
LEMMA PumpCases ==
  ASSUME NEW s \in Sockets, NEW r \in Refs, NEW p, p = pumps[s][r],
         PumpGate(s, r) \/ PumpNext(s, r) \/ PumpSend(s, r)
  PROVE  /\ UNCHANGED <<client, up, inbox, byName, nextRef, replied, process>>
         /\ \/ /\ UNCHANGED out
               /\ \/ p.pc = "gate" /\ p.gate /\ Step(s, r, [p EXCEPT !.pc = "next"])
                  \/ p.pc = "gate" /\ ~ p.gate /\ Step(s, r, [p EXCEPT !.pc = "armed", !.woken = FALSE])
                  \/ p.pc = "armed" /\ p.gate /\ Step(s, r, [p EXCEPT !.pc = "next"])
                  \/ p.pc = "armed" /\ ~ p.gate /\ Step(s, r, [p EXCEPT !.pc = "parked"])
                  \/ p.pc = "parked" /\ Step(s, r, [p EXCEPT !.pc = "gate"])
                  \/ p.pc = "next" /\ Step(s, r, [p EXCEPT !.pc = "gap"])
                  \/ /\ p.pc = "next" /\ p.next <= Len(log[p.topic])
                     /\ Step(s, r, [p EXCEPT !.pc = "push", !.held = p.next, !.next = p.next + 1])
            \/ /\ p.pc = "push" /\ Room(s) /\ Step(s, r, [p EXCEPT !.pc = "next", !.held = 0])
               /\ out' = [out EXCEPT ![s] = Append(@, Entry(r, p.held))]
            \/ /\ p.pc = "gap" /\ Room(s) /\ Step(s, r, Dead(p))
               /\ out' = [out EXCEPT ![s] = Append(@, Gap(p.topic))]
<1>1. CASE PumpGate(s, r)
  BY <1>1, Zenon DEF PumpGate, PumpOnly, Pump
<1>2. CASE PumpNext(s, r)
  <2>1. UNCHANGED <<client, up, inbox, out, byName, nextRef, replied, process>> /\ p.pc = "next"
    BY <1>2 DEF PumpNext, PumpOnly, Pump
  <2>2. \/ Step(s, r, [p EXCEPT !.pc = "gap"])
        \/ /\ p.next <= Len(log[p.topic])
           /\ Step(s, r, [p EXCEPT !.pc = "push", !.held = p.next, !.next = p.next + 1])
    BY <1>2 DEF PumpNext, Pump
  <2> QED
    BY <2>1, <2>2
<1>3. CASE PumpSend(s, r)
  BY <1>3 DEF PumpSend, Pump
<1> QED
  BY <1>1, <1>2, <1>3

LEMMA TypesOfPump ==
  ASSUME TypeOK, NEW s \in Sockets, NEW r \in Refs, PumpSteps(s, r),
         pumps[s][r].pc # "dead" => pumps[s][r].topic \in Topics
  PROVE  TypeOK'
<1> SUFFICES ASSUME NEW p, p = pumps[s][r] PROVE TypeOK'
  OBVIOUS
<1>1. PumpGate(s, r) \/ PumpNext(s, r) \/ PumpSend(s, r)
  BY DEF PumpSteps
<1>2. UNCHANGED <<client, up, inbox, byName, nextRef, replied, process>>
  BY <1>1, PumpCases
<1>3. /\ p \in Pumps /\ p.next \in Nat /\ p.held \in Nat /\ p.next + 1 \in Nat
      /\ p.topic \in Topics \cup {NoTopic}
  <2>1. p \in Pumps
    BY TableFacts
  <2> QED
    BY <2>1 DEF Pumps
<1>4. /\ \A c \in {"gate", "armed", "parked", "next", "push", "gap", "dead"} : [p EXCEPT !.pc = c] \in Pumps
      /\ [p EXCEPT !.pc = "armed", !.woken = FALSE] \in Pumps
      /\ [p EXCEPT !.pc = "push", !.held = p.next, !.next = p.next + 1] \in Pumps
      /\ [p EXCEPT !.pc = "next", !.held = 0] \in Pumps
      /\ Dead(p) \in Pumps
  BY <1>3, PumpFacts
<1>5. \E q \in Pumps : Step(s, r, q)
  BY <1>1, <1>4, PumpCases
<1>6. pumps' \in [Sockets -> [Refs -> Pumps]]
  BY <1>5 DEF Step, TypeOK
<1>7. out' \in [Sockets -> Seq(Answers)] /\ \A u \in Sockets : Len(out'[u]) <= OutCap
  <2>1. CASE UNCHANGED out
    BY <2>1 DEF TypeOK
  <2>2. CASE Room(s) /\ out' = [out EXCEPT ![s] = Append(@, Entry(r, p.held))]
    BY <1>3, <2>2, AnswerFacts, PutTypes
  <2>3. CASE p.pc = "gap" /\ Room(s) /\ out' = [out EXCEPT ![s] = Append(@, Gap(p.topic))]
    <3>1. Gap(p.topic) \in Answers
      BY <2>3, AnswerFacts
    <3> QED
      BY <2>3, <3>1, PutTypes
  <2>4. \/ UNCHANGED out
        \/ Room(s) /\ out' = [out EXCEPT ![s] = Append(@, Entry(r, p.held))]
        \/ p.pc = "gap" /\ Room(s) /\ out' = [out EXCEPT ![s] = Append(@, Gap(p.topic))]
    BY <1>1, PumpCases, Zenon
  <2> QED
    BY <2>1, <2>2, <2>3, <2>4
<1> QED
  BY <1>2, <1>6, <1>7 DEF client, process, TypeOK

-----------------------------------------------------------------------------
(* Sessions and their pumps.                                               *)

\* A socket that has no session yet, and one that nobody listens to.
Pristine ==
  /\ \A s \in Sockets : up[s] = "none" =>
       /\ inbox[s] = <<>> /\ out[s] = <<>> /\ nextRef[s] = 1
       /\ \A t \in Topics : byName[s][t] = 0
  /\ \A s \in Sockets : s > sock => up[s] = "none"
  /\ conn = "connecting" => up[sock] = "none" /\ \A t \in Topics : refOf[t] = 0
  /\ conn = "open" => up[sock] # "none"
  /\ \A s \in Sockets : ~ Heard(s) => out[s] = <<>>

\* The pump p of ref r, in a session whose next ref is n, whose names are b and which has
\* answered the hellos of rep.
PumpOk(p, r, n, b, rep) ==
  /\ r >= n => p = NoPump
  /\ r < n => p.topic \in Topics
  /\ p.pc # "dead" => b[p.topic] = r
  /\ p.gate => p.topic \notin Gated \/ r \in rep
  /\ p.pc \in {"next", "push", "gap"} => p.gate
  /\ p.pc \notin {"dead", "gap"} => p.next # 0
  /\ p.pc = "push" => p.held # 0 /\ p.next = p.held + 1

Pumped ==
  \A s \in Sockets, r \in Refs : PumpOk(pumps[s][r], r, nextRef[s], byName[s], replied[s])

\* The names of a session are of its own pumps.
Named ==
  \A s \in Sockets, t \in Topics : byName[s][t] # 0 =>
    byName[s][t] < nextRef[s] /\ pumps[s][byName[s][t]].topic = t

\* Refs are handed out in turn, and keep their topic.
Grows ==
  \A s \in Sockets :
    /\ nextRef[s] <= nextRef'[s] /\ replied[s] \subseteq replied'[s]
    /\ \A r \in Refs : r < nextRef[s] => pumps'[s][r].topic = pumps[s][r].topic

LEMMA DeadFacts ==
  ASSUME NEW p \in Pumps, NEW q, q = Dead(p) \/ q = [Dead(p) EXCEPT !.edge = 0]
  PROVE  /\ q.pc = "dead" /\ q.topic = p.topic /\ q.gate = p.gate
         /\ p = NoPump => q = NoPump
<1>1. \E e : q = [topic |-> p.topic, gate |-> p.gate, woken |-> FALSE, pc |-> "dead",
                    next |-> 0, edge |-> e, held |-> 0] /\ (p.edge = 0 => e = 0)
  <2>1. CASE q = Dead(p)
    BY <2>1 DEF Dead
  <2>2. CASE q = [Dead(p) EXCEPT !.edge = 0]
    <3>1. q = [topic |-> p.topic, gate |-> p.gate, woken |-> FALSE, pc |-> "dead",
               next |-> 0, edge |-> 0, held |-> 0]
      BY <2>2 DEF Dead
    <3> QED
      BY <3>1
  <2> QED
    BY <2>1, <2>2
<1>2. p = NoPump => p.topic = NoTopic /\ p.gate = FALSE /\ p.edge = 0
  BY DEF NoPump
<1>3. q.pc = "dead" /\ q.topic = p.topic /\ q.gate = p.gate
  BY <1>1
<1>4. p = NoPump => q = NoPump
  <2> SUFFICES ASSUME p = NoPump PROVE q = NoPump
    OBVIOUS
  <2>1. p.topic = NoTopic /\ p.gate = FALSE /\ p.edge = 0
    BY <1>2
  <2>2. q = [topic |-> NoTopic, gate |-> FALSE, woken |-> FALSE, pc |-> "dead",
             next |-> 0, edge |-> 0, held |-> 0]
    BY <1>1, <2>1
  <2> QED
    BY <2>2 DEF NoPump
<1> QED
  BY <1>3, <1>4

\* A pump that is put an end to, whatever becomes of the names.
LEMMA DeadOk ==
  ASSUME NEW p \in Pumps, NEW q, q = Dead(p) \/ q = [Dead(p) EXCEPT !.edge = 0],
         NEW r, NEW n, NEW b, NEW c, NEW rep, PumpOk(p, r, n, b, rep)
  PROVE  PumpOk(q, r, n, c, rep)
<1>1. /\ q.pc = "dead" /\ q.topic = p.topic /\ q.gate = p.gate
      /\ p = NoPump => q = NoPump
  BY DeadFacts
<1> QED
  BY <1>1 DEF PumpOk

\* What the steps of a pump change in it.
LEMMA StepFacts ==
  ASSUME NEW p \in Pumps
  PROVE  /\ \A c : LET q == [p EXCEPT !.pc = c] IN
              q.pc = c /\ q.topic = p.topic /\ q.gate = p.gate /\ q.next = p.next /\ q.held = p.held /\ q.edge = p.edge
         /\ LET q == [p EXCEPT !.pc = "armed", !.woken = FALSE] IN
              q.pc = "armed" /\ q.topic = p.topic /\ q.gate = p.gate /\ q.next = p.next /\ q.edge = p.edge
         /\ \A n : LET q == [p EXCEPT !.pc = "push", !.held = p.next, !.next = n] IN
              q.pc = "push" /\ q.topic = p.topic /\ q.gate = p.gate /\ q.next = n /\ q.held = p.next /\ q.edge = p.edge
         /\ LET q == [p EXCEPT !.pc = "next", !.held = 0] IN
              q.pc = "next" /\ q.topic = p.topic /\ q.gate = p.gate /\ q.next = p.next /\ q.edge = p.edge
         /\ LET q == [p EXCEPT !.gate = TRUE, !.woken = TRUE] IN
              q.pc = p.pc /\ q.topic = p.topic /\ q.gate /\ q.next = p.next /\ q.held = p.held /\ q.edge = p.edge
<1> USE DEF Pumps
<1>1. \A c : LET q == [p EXCEPT !.pc = c] IN
        q.pc = c /\ q.topic = p.topic /\ q.gate = p.gate /\ q.next = p.next /\ q.held = p.held /\ q.edge = p.edge
  OBVIOUS
<1>2. LET q == [p EXCEPT !.pc = "armed", !.woken = FALSE] IN
        q.pc = "armed" /\ q.topic = p.topic /\ q.gate = p.gate /\ q.next = p.next /\ q.edge = p.edge
  OBVIOUS
<1>3. \A n : LET q == [p EXCEPT !.pc = "push", !.held = p.next, !.next = n] IN
        q.pc = "push" /\ q.topic = p.topic /\ q.gate = p.gate /\ q.next = n /\ q.held = p.next /\ q.edge = p.edge
  OBVIOUS
<1>4. LET q == [p EXCEPT !.pc = "next", !.held = 0] IN
        q.pc = "next" /\ q.topic = p.topic /\ q.gate = p.gate /\ q.next = p.next /\ q.edge = p.edge
  OBVIOUS
<1>5. LET q == [p EXCEPT !.gate = TRUE, !.woken = TRUE] IN
        q.pc = p.pc /\ q.topic = p.topic /\ q.gate /\ q.next = p.next /\ q.held = p.held /\ q.edge = p.edge
  OBVIOUS
<1> QED
  BY <1>1, <1>2, <1>3, <1>4, <1>5

\* One pump changes, to one of the same topic.
LEMMA OnePumpOk ==
  ASSUME TypeOK, Pumped, NEW s \in Sockets, NEW r \in Refs, NEW q, q.topic = pumps[s][r].topic,
         pumps' = [pumps EXCEPT ![s][r] = q], nextRef' = nextRef, byName' = byName,
         \A u \in Sockets : replied[u] \subseteq replied'[u],
         PumpOk(q, r, nextRef[s], byName[s], replied'[s])
  PROVE  Pumped' /\ Grows
<1>1. \A u \in Sockets, x \in Refs : pumps'[u][x] = IF u = s /\ x = r THEN q ELSE pumps[u][x]
  BY DEF TypeOK
<1>2. \A u \in Sockets : nextRef[u] <= nextRef'[u]
  BY TableFacts, Bounds
<1>3. ASSUME NEW u \in Sockets, NEW x \in Refs
      PROVE  PumpOk(pumps[u][x], x, nextRef[u], byName[u], replied[u])'
  <2>1. CASE u = s /\ x = r
    BY <1>1, <2>1
  <2>2. CASE ~ (u = s /\ x = r)
    <3>1. PumpOk(pumps[u][x], x, nextRef[u], byName[u], replied'[u])
      BY DEF Pumped, PumpOk
    <3> QED
      BY <1>1, <2>2, <3>1
  <2> QED
    BY <2>1, <2>2
<1>4. \A u \in Sockets, x \in Refs : pumps'[u][x].topic = pumps[u][x].topic
  BY <1>1
<1> QED
  BY <1>2, <1>3, <1>4 DEF Pumped, Grows

\* The pumps stay as they are.
LEMMA SamePumps ==
  ASSUME TypeOK, Pumped, UNCHANGED <<pumps, nextRef, byName, replied>>
  PROVE  Pumped' /\ Grows
<1>1. \A u \in Sockets : nextRef[u] <= nextRef'[u]
  BY TableFacts, Bounds
<1> QED
  BY <1>1 DEF Pumped, Grows, PumpOk

LEMMA PumpedByPump ==
  ASSUME TypeOK, Pumped, NEW s \in Sockets, NEW r \in Refs, PumpSteps(s, r)
  PROVE  Pumped' /\ Grows
<1> SUFFICES ASSUME NEW p, p = pumps[s][r] PROVE Pumped' /\ Grows
  OBVIOUS
<1>1. PumpGate(s, r) \/ PumpNext(s, r) \/ PumpSend(s, r)
  BY DEF PumpSteps
<1>2. p \in Pumps /\ p.next \in Nat /\ PumpOk(p, r, nextRef[s], byName[s], replied[s])
  <2>1. p \in Pumps
    BY TableFacts
  <2> QED
    BY <2>1 DEF Pumps, Pumped
<1>3. UNCHANGED <<byName, nextRef, replied>>
  BY <1>1, PumpCases
<1>4. ASSUME NEW q, Step(s, r, q), q.topic = p.topic, PumpOk(q, r, nextRef[s], byName[s], replied[s])
      PROVE  Pumped' /\ Grows
  BY <1>3, <1>4, OnePumpOk DEF Step
<1>5. ASSUME NEW c \in {"gate", "armed", "parked", "next", "gap"}, Step(s, r, [p EXCEPT !.pc = c]), p.pc # "dead",
             c \in {"gate", "armed", "parked"} => p.pc \notin {"dead", "gap"},
             c = "next" => p.gate /\ p.pc \notin {"dead", "gap"}, c = "gap" => p.pc = "next"
      PROVE  Pumped' /\ Grows
  <2> SUFFICES ASSUME NEW q, q = [p EXCEPT !.pc = c] PROVE Pumped' /\ Grows
    OBVIOUS
  <2>1. q.pc = c /\ q.topic = p.topic /\ q.gate = p.gate /\ q.next = p.next /\ Step(s, r, q)
    BY <1>2, <1>5, StepFacts
  <2>2. PumpOk(q, r, nextRef[s], byName[s], replied[s])
    BY <1>2, <1>5, <2>1 DEF PumpOk, NoPump
  <2> QED
    BY <1>4, <2>1, <2>2
<1>6. ASSUME p.pc = "gate", Step(s, r, [p EXCEPT !.pc = "armed", !.woken = FALSE]) PROVE Pumped' /\ Grows
  <2> SUFFICES ASSUME NEW q, q = [p EXCEPT !.pc = "armed", !.woken = FALSE] PROVE Pumped' /\ Grows
    OBVIOUS
  <2>1. q.pc = "armed" /\ q.topic = p.topic /\ q.gate = p.gate /\ q.next = p.next /\ Step(s, r, q)
    BY <1>2, <1>6, StepFacts
  <2>2. PumpOk(q, r, nextRef[s], byName[s], replied[s])
    BY <1>2, <1>6, <2>1 DEF PumpOk, NoPump
  <2> QED
    BY <1>4, <2>1, <2>2
<1>7. ASSUME p.pc = "next", Step(s, r, [p EXCEPT !.pc = "push", !.held = p.next, !.next = p.next + 1])
      PROVE  Pumped' /\ Grows
  <2> SUFFICES ASSUME NEW q, q = [p EXCEPT !.pc = "push", !.held = p.next, !.next = p.next + 1]
               PROVE  Pumped' /\ Grows
    OBVIOUS
  <2>1. /\ q.pc = "push" /\ q.topic = p.topic /\ q.gate = p.gate /\ q.next = p.next + 1 /\ q.held = p.next
        /\ Step(s, r, q)
    BY <1>2, <1>7, StepFacts
  <2>2. PumpOk(q, r, nextRef[s], byName[s], replied[s])
    BY <1>2, <1>7, <2>1 DEF PumpOk, NoPump
  <2> QED
    BY <1>4, <2>1, <2>2
<1>8. ASSUME p.pc = "push", Step(s, r, [p EXCEPT !.pc = "next", !.held = 0]) PROVE Pumped' /\ Grows
  <2> SUFFICES ASSUME NEW q, q = [p EXCEPT !.pc = "next", !.held = 0] PROVE Pumped' /\ Grows
    OBVIOUS
  <2>1. q.pc = "next" /\ q.topic = p.topic /\ q.gate = p.gate /\ q.next = p.next /\ Step(s, r, q)
    BY <1>2, <1>8, StepFacts
  <2>2. PumpOk(q, r, nextRef[s], byName[s], replied[s])
    BY <1>2, <1>8, <2>1 DEF PumpOk, NoPump
  <2> QED
    BY <1>4, <2>1, <2>2
<1>9. ASSUME Step(s, r, Dead(p)) PROVE Pumped' /\ Grows
  <2>1. Dead(p).topic = p.topic
    BY <1>2, DeadFacts
  <2>2. PumpOk(Dead(p), r, nextRef[s], byName[s], replied[s])
    BY <1>2, DeadOk
  <2> QED
    BY <1>4, <1>9, <2>1, <2>2
<1>10. \/ p.pc = "gate" /\ p.gate /\ Step(s, r, [p EXCEPT !.pc = "next"])
       \/ p.pc = "gate" /\ Step(s, r, [p EXCEPT !.pc = "armed", !.woken = FALSE])
       \/ p.pc = "armed" /\ p.gate /\ Step(s, r, [p EXCEPT !.pc = "next"])
       \/ p.pc = "armed" /\ Step(s, r, [p EXCEPT !.pc = "parked"])
       \/ p.pc = "parked" /\ Step(s, r, [p EXCEPT !.pc = "gate"])
       \/ p.pc = "next" /\ Step(s, r, [p EXCEPT !.pc = "gap"])
       \/ p.pc = "next" /\ Step(s, r, [p EXCEPT !.pc = "push", !.held = p.next, !.next = p.next + 1])
       \/ p.pc = "push" /\ Step(s, r, [p EXCEPT !.pc = "next", !.held = 0])
       \/ Step(s, r, Dead(p))
  BY <1>1, PumpCases, Zenon
<1> QED
  BY <1>5, <1>6, <1>7, <1>8, <1>9, <1>10

\* Everything but the queues of a session: types, pumps and names.
Base == TypeOK /\ Pumped /\ Named

\* Names that stay, or go, are of the same pumps.
LEMMA NamedKept ==
  ASSUME Base, TypeOK', Grows,
         \A s \in Sockets, t \in Topics : byName'[s][t] # 0 => byName'[s][t] = byName[s][t]
  PROVE  Named'
<1>1. ASSUME NEW s \in Sockets, NEW t \in Topics, byName'[s][t] # 0
      PROVE  byName'[s][t] < nextRef'[s] /\ pumps'[s][byName'[s][t]].topic = t
  <2>1. byName'[s][t] = byName[s][t] /\ byName[s][t] \in Refs
    BY <1>1, TableFacts DEF Base
  <2>2. byName[s][t] < nextRef[s] /\ pumps[s][byName[s][t]].topic = t
    BY <1>1, <2>1 DEF Base, Named
  <2>3. nextRef[s] \in Nat /\ nextRef'[s] \in Nat /\ nextRef[s] <= nextRef'[s] /\ byName[s][t] \in Nat
    <3>1. nextRef[s] \in Nat /\ byName[s][t] \in Nat
      BY <2>1, TableFacts, Bounds DEF Base
    <3>2. nextRef'[s] \in 1..MaxRefs + 1
      BY DEF TypeOK
    <3> QED
      BY <3>1, <3>2, Bounds DEF Grows
  <2>4. pumps'[s][byName[s][t]].topic = pumps[s][byName[s][t]].topic
    BY <2>1, <2>2 DEF Grows
  <2>5. byName[s][t] < nextRef'[s]
    BY <2>2, <2>3
  <2> QED
    BY <2>1, <2>2, <2>4, <2>5
<1> QED
  BY <1>1 DEF Named

\* What open_topic makes of the tables of its session.
OpenedPump(s, t, q) ==
  IF q = nextRef[s] THEN NewPump(t) ELSE IF q = byName[s][t] THEN Dead(pumps[s][q]) ELSE pumps[s][q]

LEMMA OpenTopicTables ==
  ASSUME TypeOK, NEW s \in Sockets, NEW t \in Topics, OpenTopic(s, t)
  PROVE  /\ nextRef[s] \in Refs
         /\ \A u \in Sockets : nextRef'[u] = IF u = s THEN nextRef[s] + 1 ELSE nextRef[u]
         /\ \A u \in Sockets, x \in Topics : byName'[u][x] = IF u = s /\ x = t THEN nextRef[s] ELSE byName[u][x]
         /\ \A u \in Sockets, q \in Refs : pumps'[u][q] = IF u = s THEN OpenedPump(s, t, q) ELSE pumps[u][q]
         /\ UNCHANGED <<log, replied>>
<1>1. nextRef[s] \in Refs
  BY Bounds DEF TypeOK, OpenTopic
<1>2. \A u \in Sockets : nextRef'[u] = IF u = s THEN nextRef[s] + 1 ELSE nextRef[u]
  BY DEF TypeOK, OpenTopic
<1>3. \A u \in Sockets, x \in Topics : byName'[u][x] = IF u = s /\ x = t THEN nextRef[s] ELSE byName[u][x]
  BY DEF TypeOK, OpenTopic
<1>4. \A u \in Sockets, q \in Refs : pumps'[u][q] = IF u = s THEN OpenedPump(s, t, q) ELSE pumps[u][q]
  BY DEF TypeOK, OpenTopic, OpenedPump
<1> QED
  BY <1>1, <1>2, <1>3, <1>4 DEF OpenTopic

LEMMA PumpedByOpenTopic ==
  ASSUME Base, TypeOK', NEW s \in Sockets, NEW t \in Topics, OpenTopic(s, t)
  PROVE  Pumped' /\ Named' /\ Grows
<1> SUFFICES ASSUME NEW n, n = nextRef[s] PROVE Pumped' /\ Named' /\ Grows
  OBVIOUS
<1> USE DEF Base
<1>1. n \in Refs /\ n \in Nat /\ \A r \in Refs : r \in Nat
  BY OpenTopicTables, Bounds
<1>2. /\ \A u \in Sockets : nextRef'[u] = IF u = s THEN n + 1 ELSE nextRef[u]
      /\ \A u \in Sockets, x \in Topics : byName'[u][x] = IF u = s /\ x = t THEN n ELSE byName[u][x]
      /\ \A u \in Sockets, q \in Refs : pumps'[u][q] = IF u = s THEN OpenedPump(s, t, q) ELSE pumps[u][q]
      /\ UNCHANGED <<log, replied>>
  BY OpenTopicTables
<1>3. \A q \in Refs : \A p, b, rep : q # n /\ PumpOk(p, q, n, b, rep) => PumpOk(p, q, n + 1, b, rep)
  <2> SUFFICES ASSUME NEW q \in Refs, NEW p, NEW b, NEW rep, q # n, PumpOk(p, q, n, b, rep)
               PROVE  PumpOk(p, q, n + 1, b, rep)
    OBVIOUS
  <2>1. (q >= n + 1 => q >= n) /\ (q < n + 1 => q < n)
    BY <1>1
  <2> QED
    BY <2>1 DEF PumpOk
<1>4. ASSUME NEW q \in Refs
      PROVE  /\ PumpOk(OpenedPump(s, t, q), q, n + 1, byName'[s], replied[s])
             /\ q # n => OpenedPump(s, t, q).topic = pumps[s][q].topic
             /\ q = n => OpenedPump(s, t, q).topic = t
  <2> SUFFICES ASSUME NEW p, p = pumps[s][q]
               PROVE  /\ PumpOk(OpenedPump(s, t, q), q, n + 1, byName'[s], replied[s])
                      /\ q # n => OpenedPump(s, t, q).topic = p.topic
                      /\ q = n => OpenedPump(s, t, q).topic = t
    OBVIOUS
  <2>1. p \in Pumps /\ PumpOk(p, q, n, byName[s], replied[s])
    BY TableFacts DEF Pumped
  <2>2. CASE q = n
    <3> SUFFICES ASSUME NEW w, w = NewPump(t)
                 PROVE  w = OpenedPump(s, t, q) => PumpOk(w, q, n + 1, byName'[s], replied[s]) /\ w.topic = t
      BY <2>2 DEF OpenedPump
    <3>1. w.topic = t /\ w.pc = "gate" /\ w.next \in 1..Len(log[t]) + 1
      BY NewPumpFacts
    <3>2. w.next # 0 /\ byName'[s][t] = n
      BY <1>2, <3>1
    <3>3. w.gate => t \notin Gated
      BY NewPumpFacts, Zenon
    <3> QED
      BY <1>1, <2>2, <3>1, <3>2, <3>3 DEF PumpOk
  <2>3. CASE q # n /\ q = byName[s][t]
    <3> SUFFICES ASSUME NEW d, d = Dead(p)
                 PROVE  d = OpenedPump(s, t, q) => PumpOk(d, q, n + 1, byName'[s], replied[s]) /\ d.topic = p.topic
      BY <2>3 DEF OpenedPump
    <3>1. PumpOk(d, q, n, byName'[s], replied[s]) /\ d.topic = p.topic
      BY <2>1, DeadOk, DeadFacts
    <3> QED
      BY <1>3, <2>3, <3>1
  <2>4. CASE q # n /\ q # byName[s][t]
    <3>1. p.pc # "dead" => byName'[s][p.topic] = q
      <4> SUFFICES ASSUME p.pc # "dead" PROVE byName'[s][p.topic] = q
        OBVIOUS
      <4>1. p # NoPump
        BY DEF NoPump
      <4>2. q < n \/ q >= n
        BY <1>1
      <4>3. p.topic \in Topics /\ byName[s][p.topic] = q
        BY <2>1, <4>1, <4>2 DEF PumpOk
      <4> QED
        BY <1>2, <2>4, <4>3
    <3>2. PumpOk(p, q, n, byName'[s], replied[s])
      BY <2>1, <3>1 DEF PumpOk
    <3> QED
      BY <1>3, <2>4, <3>2 DEF OpenedPump
  <2> QED
    BY <2>2, <2>3, <2>4
<1>5. Pumped'
  <2>1. ASSUME NEW u \in Sockets, NEW q \in Refs
        PROVE  PumpOk(pumps'[u][q], q, nextRef'[u], byName'[u], replied'[u])
    <3>1. CASE u = s
      BY <1>2, <1>4, <3>1
    <3>2. CASE u # s
      <4>1. byName'[u] = byName[u]
        BY <3>2 DEF TypeOK, OpenTopic
      <4>2. PumpOk(pumps[u][q], q, nextRef[u], byName[u], replied[u])
        BY DEF Pumped
      <4> QED
        BY <1>2, <3>2, <4>1, <4>2
    <3> QED
      BY <3>1, <3>2
  <2> QED
    BY <2>1 DEF Pumped, PumpOk
<1>6. Grows
  <2>1. \A u \in Sockets : nextRef[u] <= nextRef'[u]
    BY <1>1, <1>2, TableFacts, Bounds
  <2>2. \A u \in Sockets, q \in Refs : q < nextRef[u] => pumps'[u][q].topic = pumps[u][q].topic
    BY <1>1, <1>2, <1>4
  <2> QED
    BY <1>2, <2>1, <2>2 DEF Grows
<1>7. Named'
  <2>1. ASSUME NEW u \in Sockets, NEW x \in Topics, byName'[u][x] # 0
        PROVE  byName'[u][x] < nextRef'[u] /\ pumps'[u][byName'[u][x]].topic = x
    <3>1. CASE u = s /\ x = t
      BY <1>1, <1>2, <1>4, <3>1
    <3>2. CASE ~ (u = s /\ x = t)
      <4>1. byName'[u][x] = byName[u][x] /\ byName[u][x] \in Refs
        BY <1>2, <2>1, <3>2, TableFacts
      <4>2. byName[u][x] < nextRef[u] /\ pumps[u][byName[u][x]].topic = x
        BY <2>1, <4>1 DEF Named
      <4>3. nextRef[u] \in Nat /\ byName[u][x] \in Nat
        BY <4>1, Bounds, TableFacts
      <4>4. byName[u][x] < nextRef'[u]
        BY <1>1, <1>2, <4>2, <4>3
      <4>5. pumps'[u][byName[u][x]].topic = x
        BY <1>6, <4>1, <4>2 DEF Grows
      <4> QED
        BY <4>1, <4>4, <4>5
    <3> QED
      BY <3>1, <3>2
  <2> QED
    BY <2>1 DEF Named
<1> QED
  BY <1>5, <1>6, <1>7

\* The other frames a session receives: only a hello touches a pump.
LEMMA PumpedByData ==
  ASSUME Base, TypeOK', NEW s \in Sockets, NEW f \in Frames, f.kind = "data", HandleData(s, f)
  PROVE  Pumped' /\ Named' /\ Grows
<1> USE DEF Base
<1>1. UNCHANGED <<nextRef, byName>>
  BY DEF HandleData
<1>2. CASE UNCHANGED <<pumps, replied>>
  BY <1>1, <1>2, SamePumps, NamedKept
<1>3. CASE Known(s, f.ref) /\ Hello(s, f.ref) /\ Room(s)
  <2> SUFFICES ASSUME NEW r, r = f.ref, NEW p, p = pumps[s][r],
                      NEW q, q = [p EXCEPT !.gate = TRUE, !.woken = TRUE]
               PROVE  Pumped' /\ Named' /\ Grows
    OBVIOUS
  <2>1. r \in Refs /\ \A x \in Refs : x \in Nat
    BY ItemFacts, Bounds
  <2>2. p \in Pumps /\ PumpOk(p, r, nextRef[s], byName[s], replied[s])
    BY <2>1, TableFacts DEF Pumped
  <2>3. q.pc = p.pc /\ q.topic = p.topic /\ q.gate /\ q.next = p.next /\ q.held = p.held
    BY <2>2, StepFacts
  <2>4. pumps' = [pumps EXCEPT ![s][r] = q]
    BY <1>3, <2>1 DEF Hello
  <2>5. \A u \in Sockets : replied'[u] = IF u = s THEN replied[s] \cup {r} ELSE replied[u]
    BY <1>3 DEF Hello, TypeOK
  <2>6. r < nextRef[s]
    <3>1. PICK t \in Topics : byName[s][t] = r
      BY <1>3 DEF Known
    <3>2. byName[s][t] # 0
      BY <2>1, <3>1, Bounds
    <3> QED
      BY <3>1, <3>2 DEF Named
  <2>7. PumpOk(q, r, nextRef[s], byName[s], replied'[s])
    <3>1. r \in replied'[s]
      BY <2>5
    <3>2. ~ r >= nextRef[s]
      BY <2>1, <2>6, TableFacts, Bounds
    <3> QED
      BY <2>2, <2>3, <2>6, <3>1, <3>2 DEF PumpOk
  <2>8. Pumped' /\ Grows
    BY <1>1, <2>1, <2>3, <2>4, <2>5, <2>7, OnePumpOk
  <2> QED
    BY <1>1, <2>8, NamedKept
<1> QED
  BY <1>2, <1>3 DEF HandleData, Hello

LEMMA PumpedByRelease ==
  ASSUME Base, TypeOK', NEW s \in Sockets, NEW t \in Topics, Release(s, t)
  PROVE  Pumped' /\ Named' /\ Grows
<1> SUFFICES ASSUME NEW r, r = byName[s][t] PROVE Pumped' /\ Named' /\ Grows
  OBVIOUS
<1> USE DEF Base
<1>1. r \in Refs
  BY TableFacts DEF Release
<1>2. \A u \in Sockets, q \in Refs : pumps'[u][q] = IF u = s /\ q = r THEN Dead(pumps[s][r]) ELSE pumps[u][q]
  <2> SUFFICES ASSUME NEW d, d = Dead(pumps[s][r])
               PROVE  \A u \in Sockets, q \in Refs : pumps'[u][q] = IF u = s /\ q = r THEN d ELSE pumps[u][q]
    OBVIOUS
  <2>1. pumps' = [pumps EXCEPT ![s][r] = d]
    BY DEF Release
  <2>2. pumps \in [Sockets -> [Refs -> Pumps]]
    BY DEF TypeOK
  <2> HIDE DEF Base
  <2> QED
    BY <1>1, <2>1, <2>2
<1>3. \A u \in Sockets, x \in Topics : byName'[u][x] = IF u = s /\ x = t THEN 0 ELSE byName[u][x]
  BY DEF Release, TypeOK
<1>4. UNCHANGED <<nextRef, replied>>
  BY DEF Release
<1>5. ASSUME NEW u \in Sockets, NEW q \in Refs
      PROVE  /\ PumpOk(pumps'[u][q], q, nextRef[u], byName'[u], replied[u])
             /\ pumps'[u][q].topic = pumps[u][q].topic
  <2> SUFFICES ASSUME NEW p, p = pumps[u][q]
               PROVE  /\ PumpOk(pumps'[u][q], q, nextRef[u], byName'[u], replied[u])
                      /\ pumps'[u][q].topic = p.topic
    OBVIOUS
  <2>1. p \in Pumps /\ PumpOk(p, q, nextRef[u], byName[u], replied[u])
    BY TableFacts DEF Pumped
  <2>2. CASE u = s /\ q = r
    <3>1. pumps'[u][q] = Dead(p)
      BY <1>2, <2>2
    <3> QED
      BY <2>1, <3>1, DeadOk, DeadFacts
  <2>3. CASE ~ (u = s /\ q = r)
    <3>1. pumps'[u][q] = p
      BY <1>2, <2>3
    <3>2. p.pc # "dead" => byName'[u][p.topic] = q
      <4> SUFFICES ASSUME p.pc # "dead" PROVE byName'[u][p.topic] = q
        OBVIOUS
      <4>1. p # NoPump
        BY DEF NoPump
      <4>2. p.topic \in Topics /\ byName[u][p.topic] = q
        BY <2>1, <4>1, TableFacts, Bounds DEF PumpOk
      <4> QED
        BY <1>3, <2>3, <4>2
    <3> QED
      BY <2>1, <3>1, <3>2 DEF PumpOk
  <2> QED
    BY <2>2, <2>3
<1>6. Pumped'
  BY <1>4, <1>5 DEF Pumped, PumpOk
<1>7. Grows
  BY <1>4, <1>5, TableFacts, Bounds DEF Grows
<1> QED
  BY <1>3, <1>6, <1>7, NamedKept

LEMMA PumpedByDrop ==
  ASSUME Base, TypeOK', SocketDrops
  PROVE  Pumped' /\ Named' /\ Grows
<1> USE DEF Base
<1>1. UNCHANGED <<nextRef, replied, byName>>
  BY DEF SocketDrops
<1>2. \A u \in Sockets, q \in Refs :
        pumps'[u][q] = IF u = sock THEN [Dead(pumps[u][q]) EXCEPT !.edge = 0] ELSE pumps[u][q]
  <2> DEFINE drop == [q \in Refs |-> [Dead(pumps[sock][q]) EXCEPT !.edge = 0]]
  <2>1. pumps' = [pumps EXCEPT ![sock] = drop]
    BY DEF SocketDrops
  <2>2. \A q \in Refs : drop[q] = [Dead(pumps[sock][q]) EXCEPT !.edge = 0]
    OBVIOUS
  <2> HIDE DEF drop
  <2>3. \A u \in Sockets : pumps'[u] = IF u = sock THEN drop ELSE pumps[u]
    BY <2>1 DEF TypeOK
  <2> QED
    BY <2>2, <2>3
<1>3. ASSUME NEW u \in Sockets, NEW q \in Refs
      PROVE  /\ PumpOk(pumps'[u][q], q, nextRef[u], byName[u], replied[u])
             /\ pumps'[u][q].topic = pumps[u][q].topic
  <2> SUFFICES ASSUME NEW p, p = pumps[u][q], NEW d, d = [Dead(p) EXCEPT !.edge = 0]
               PROVE  /\ PumpOk(pumps'[u][q], q, nextRef[u], byName[u], replied[u])
                      /\ pumps'[u][q].topic = p.topic
    OBVIOUS
  <2>1. p \in Pumps /\ PumpOk(p, q, nextRef[u], byName[u], replied[u])
    BY TableFacts DEF Pumped
  <2>2. d.topic = p.topic /\ PumpOk(d, q, nextRef[u], byName[u], replied[u])
    BY <2>1, DeadOk, DeadFacts
  <2>3. pumps'[u][q] = IF u = sock THEN d ELSE p
    BY <1>2
  <2> QED
    BY <2>1, <2>2, <2>3
<1>4. Pumped'
  BY <1>1, <1>3 DEF Pumped, PumpOk
<1>5. Grows
  BY <1>1, <1>3, TableFacts, Bounds DEF Grows
<1> QED
  BY <1>1, <1>4, <1>5, NamedKept

-----------------------------------------------------------------------------
(* The types.                                                              *)

\* Types first, then pumps and names: every step of the system.
LEMMA BaseStep ==
  ASSUME Base, counts' \in [Topics -> Nat], Next
  PROVE  Base' /\ Grows
<1> USE DEF Base
<1>1. ASSUME NEW s \in Sockets, NEW r \in Refs
      PROVE  pumps[s][r].pc # "dead" => pumps[s][r].topic \in Topics
  <2>1. PumpOk(pumps[s][r], r, nextRef[s], byName[s], replied[s])
    BY DEF Pumped
  <2>2. r >= nextRef[s] \/ r < nextRef[s]
    BY TableFacts, Bounds
  <2> QED
    BY <2>1, <2>2 DEF PumpOk, NoPump
<1>2. \/ \E s \in Sockets : SessionReceive(s) \/ SessionBreaks(s) \/ SessionEnds(s) \/ \E t \in Topics : Release(s, t)
      \/ \E s \in Sockets, r \in Refs : PumpSteps(s, r)
      \/ (\E t \in Topics : Subscribe(t) \/ SendData(t)) \/ Open \/ SocketDrops \/ Reconnect
      \/ ClientReceive
      \/ \E t \in Topics : Publish(t)
  BY DEF Next, System, SessionSteps
<1>3. TypeOK'
  <2>1. ASSUME NEW t \in Topics, Publish(t) PROVE TypeOK'
    BY <2>1 DEF Publish, Publishing, TypeOK, client, sessions
  <2> QED
    BY <1>1, <1>2, <2>1, TypesOfSession, TypesOfPump, TypesOfClient, TypesOfReceive
<1>4. ASSUME UNCHANGED <<pumps, nextRef, byName, replied>> PROVE Pumped' /\ Named' /\ Grows
  BY <1>3, <1>4, SamePumps, NamedKept
<1>5. ASSUME NEW s \in Sockets, SessionReceive(s) PROVE Pumped' /\ Named' /\ Grows
  <2> SUFFICES ASSUME NEW f, f = Head(inbox[s]) PROVE Pumped' /\ Named' /\ Grows
    OBVIOUS
  <2>1. f \in Frames
    BY <1>5, HeadTailProperties DEF SessionReceive, TypeOK
  <2>2. \/ f.kind = "subscribe" /\ OpenTopic(s, f.topic)
        \/ f.kind = "data" /\ HandleData(s, f)
    BY <1>5 DEF SessionReceive
  <2>3. f.topic \in Topics
    BY <2>1, ItemFacts
  <2> QED
    BY <1>3, <2>1, <2>2, <2>3, PumpedByOpenTopic, PumpedByData
<1>6. ASSUME NEW s \in Sockets, NEW r \in Refs, PumpSteps(s, r) PROVE Pumped' /\ Named' /\ Grows
  <2>1. Pumped' /\ Grows
    BY <1>6, PumpedByPump
  <2>2. byName' = byName
    BY <1>6 DEF PumpSteps, PumpGate, PumpNext, PumpSend, PumpOnly
  <2> QED
    BY <1>3, <2>1, <2>2, NamedKept
<1>7. (\E s \in Sockets : SessionBreaks(s) \/ SessionEnds(s)) \/ (\E t \in Topics : Subscribe(t) \/ SendData(t))
      \/ Open \/ Reconnect \/ ClientReceive \/ (\E t \in Topics : Publish(t))
      => UNCHANGED <<pumps, nextRef, byName, replied>>
  BY DEF SessionBreaks, SessionEnds, Subscribe, SendData, Open, Reconnect, ClientReceive, Publish, sessions
<1>8. Pumped' /\ Named' /\ Grows
  BY <1>2, <1>3, <1>4, <1>5, <1>6, <1>7, PumpedByRelease, PumpedByDrop
<1> QED
  BY <1>3, <1>8

LEMMA BaseInit == Init => Base
<1> SUFFICES ASSUME Init PROVE Base
  OBVIOUS
<1>1. TypeOK
  <2>1. /\ conn \in {"connecting", "open", "waiting"} /\ sock \in Sockets
        /\ refOf \in [Topics -> Refs \cup {0}] /\ nameOf \in [Refs -> Topics \cup {NoTopic}]
        /\ intent \subseteq Topics /\ told \subseteq Topics
        /\ outbox \in Seq(Items) /\ last \in [Topics -> Nat] /\ sends \in 0..MaxSends
    BY Bounds DEF Init
  <2>2. /\ up \in [Sockets -> {"none", "open", "closing", "ended"}]
        /\ inbox \in [Sockets -> Seq(Frames)] /\ out \in [Sockets -> Seq(Answers)]
        /\ \A s \in Sockets : Len(out[s]) <= OutCap
        /\ byName \in [Sockets -> [Topics -> Refs \cup {0}]]
        /\ nextRef \in [Sockets -> 1..MaxRefs + 1] /\ replied \in [Sockets -> SUBSET Refs]
    BY Bounds DEF Init
  <2>3. pumps \in [Sockets -> [Refs -> Pumps]]
    BY PumpFacts DEF Init
  <2>4. log \in [Topics -> Seq(Topics)] /\ counts \in [Topics -> Nat] /\ active \subseteq Topics
    BY DEF Init
  <2> QED
    BY <2>1, <2>2, <2>3, <2>4 DEF TypeOK
<1>2. Pumped
  <2>1. \A s \in Sockets, r \in Refs : pumps[s][r] = NoPump /\ nextRef[s] = 1 /\ r >= 1
    BY Bounds DEF Init
  <2>2. \A r \in Refs : \A b, rep : PumpOk(NoPump, r, 1, b, rep)
    BY Bounds DEF PumpOk, NoPump
  <2> QED
    BY <2>1, <2>2 DEF Pumped
<1>3. Named
  BY DEF Init, Named
<1> QED
  BY <1>1, <1>2, <1>3 DEF Base

\* Every state is well formed: the queue of a session is never longer than its bound, refs
\* and names stay within their tables, and a subscription keeps its pump, its gate and its
\* place.
LEMMA BaseHolds == Spec => [](Shape /\ Base)
<1>1. Init => Shape
  BY GatewayAssumption DEF Init, Shape, PumpShape, NoPump, Sockets
<1>2. Base /\ UNCHANGED vars => Base'
  BY DEF Base, TypeOK, Pumped, PumpOk, Named, vars, client, sessions, process
<1>3. Shape /\ Base /\ GatewaySound /\ [Next]_vars => Shape' /\ Base'
  <2> SUFFICES ASSUME Shape, Base, GatewaySound, [Next]_vars PROVE Shape' /\ Base'
    OBVIOUS
  <2>1. Shape'
    BY SoundStep DEF Kept
  <2>2. counts' \in [Topics -> Nat]
    BY <2>1 DEF Shape
  <2> QED
    BY <1>2, <2>1, <2>2, BaseStep
<1> QED
  BY <1>1, <1>3, BaseInit, GatewaySoundHolds, PTL DEF Spec

\* Every state is well formed: an outbound queue never exceeds its bound, and refs, names
\* and numbers stay within their tables.
THEOREM TypeCorrect == Spec => []TypeOK
<1>1. Base => TypeOK
  BY DEF Base
<1> QED
  BY <1>1, BaseHolds, PTL

-----------------------------------------------------------------------------
(* Sessions that start and end.                                            *)

\* The frames of a flush go to the current session, of a socket that is open.
LEMMA FlushInbox ==
  ASSUME TypeOK, NEW q, NEW refs, Flush(q, refs)
  PROVE  \A u \in Sockets : inbox'[u] = IF u = sock /\ conn' = "open" THEN inbox[u] \o Sent(q, refs) ELSE inbox[u]
BY DEF Flush, TypeOK

\* What a session sends arrives in its queue, when it is heard.
LEMMA TrySendOut ==
  ASSUME TypeOK, NEW s \in Sockets, NEW f, TrySend(s, f)
  PROVE  /\ \A u \in Sockets : out'[u] = out[u] \/ (u = s /\ Heard(s) /\ Room(s) /\ out'[s] = Append(out[s], f))
         /\ \A u \in Sockets : up'[u] = up[u] \/ (u = s /\ Heard(s) /\ ~ Room(s) /\ up'[s] = "closing" /\ out' = out)
<1>1. up \in [Sockets -> {"none", "open", "closing", "ended"}] /\ out \in [Sockets -> Seq(Answers)]
  BY DEF TypeOK
<1> QED
  BY <1>1 DEF TrySend

\* What a session that receives a frame changes in the life of the sessions.
LEMMA ReceiveTables ==
  ASSUME Base, NEW s \in Sockets, SessionReceive(s)
  PROVE  /\ UNCHANGED client
         /\ up[s] = "open" /\ inbox[s] # <<>> /\ Head(inbox[s]) \in Frames
         /\ \A u \in Sockets : inbox'[u] = IF u = s THEN Tail(inbox[s]) ELSE inbox[u]
         /\ \E f \in Answers : TrySend(s, f) \/ UNCHANGED <<up, out>>
         /\ \A u \in Sockets : u # s => byName'[u] = byName[u] /\ nextRef'[u] = nextRef[u]
<1> SUFFICES ASSUME NEW f, f = Head(inbox[s])
             PROVE  /\ UNCHANGED client
                    /\ up[s] = "open" /\ inbox[s] # <<>> /\ f \in Frames
                    /\ \A u \in Sockets : inbox'[u] = IF u = s THEN Tail(inbox[s]) ELSE inbox[u]
                    /\ \E g \in Answers : TrySend(s, g) \/ UNCHANGED <<up, out>>
                    /\ \A u \in Sockets : u # s => byName'[u] = byName[u] /\ nextRef'[u] = nextRef[u]
  OBVIOUS
<1>1. inbox \in [Sockets -> Seq(Frames)]
  BY DEF Base, TypeOK
<1>2. UNCHANGED client /\ up[s] = "open" /\ inbox[s] # <<>> /\ inbox' = [inbox EXCEPT ![s] = Tail(@)]
  BY DEF SessionReceive
<1>3. f \in Frames
  BY <1>1, <1>2, HeadTailProperties
<1>4. \A u \in Sockets : inbox'[u] = IF u = s THEN Tail(inbox[s]) ELSE inbox[u]
  BY <1>1, <1>2
<1>5. \/ f.kind = "subscribe" /\ OpenTopic(s, f.topic)
      \/ f.kind = "data" /\ HandleData(s, f)
  BY DEF SessionReceive
<1>6. CASE f.kind = "subscribe" /\ OpenTopic(s, f.topic)
  <2>1. f.topic \in Topics
    BY <1>3, ItemFacts
  <2>2. nextRef[s] \in Refs
    BY <1>6, <2>1, OpenTopicTables DEF Base
  <2>3. Ack(f.topic, nextRef[s]) \in Answers /\ TrySend(s, Ack(f.topic, nextRef[s]))
    BY <1>6, <2>1, <2>2, AnswerFacts DEF OpenTopic
  <2>4. \A u \in Sockets : u # s => byName'[u] = byName[u] /\ nextRef'[u] = nextRef[u]
    BY <1>6 DEF OpenTopic, Base, TypeOK
  <2> QED
    BY <1>2, <1>3, <1>4, <2>3, <2>4
<1>7. CASE f.kind = "data" /\ HandleData(s, f)
  <2>1. f.ref \in Refs
    BY <1>3, <1>7, ItemFacts
  <2>2. Reply(f.ref) \in Answers /\ Error \in Answers
    BY <2>1, AnswerFacts
  <2>3. TrySend(s, Reply(f.ref)) \/ TrySend(s, Error) \/ UNCHANGED <<up, out>>
    BY <1>7 DEF HandleData, Hello
  <2>4. UNCHANGED <<byName, nextRef>>
    BY <1>7 DEF HandleData
  <2> QED
    BY <1>2, <1>3, <1>4, <2>2, <2>3, <2>4
<1> QED
  BY <1>5, <1>6, <1>7

LEMMA PristineStep ==
  ASSUME Base, Base', Pristine, Next
  PROVE  Pristine'
<1> USE DEF Base
<1>1. /\ conn \in {"connecting", "open", "waiting"} /\ sock \in Sockets /\ sock \in Nat /\ \A s \in Sockets : s \in Nat
      /\ up \in [Sockets -> {"none", "open", "closing", "ended"}]
      /\ inbox \in [Sockets -> Seq(Frames)] /\ out \in [Sockets -> Seq(Answers)]
      /\ byName \in [Sockets -> [Topics -> Refs \cup {0}]]
  <2>1. /\ conn \in {"connecting", "open", "waiting"} /\ sock \in Sockets
        /\ up \in [Sockets -> {"none", "open", "closing", "ended"}]
        /\ inbox \in [Sockets -> Seq(Frames)] /\ out \in [Sockets -> Seq(Answers)]
        /\ byName \in [Sockets -> [Topics -> Refs \cup {0}]]
    BY DEF TypeOK
  <2>2. sock \in Nat /\ \A s \in Sockets : s \in Nat
    BY <2>1, Bounds
  <2> QED
    BY <2>1, <2>2
<1>2. ASSUME NEW t \in Topics, Subscribe(t) \/ SendData(t) PROVE Pristine'
  <2>1. UNCHANGED <<conn, sock, refOf, up, out, byName, nextRef>>
    BY <1>2 DEF Subscribe, SendData
  <2>2. \A u \in Sockets : u # sock \/ conn # "open" => inbox'[u] = inbox[u]
    BY <1>2, <2>1, FlushInbox DEF Subscribe, SendData
  <2> QED
    BY <1>1, <2>1, <2>2 DEF Pristine, Heard
<1>3. ASSUME Open PROVE Pristine'
  <2>1. /\ conn = "connecting" /\ conn' = "open" /\ up' = [up EXCEPT ![sock] = "open"]
        /\ UNCHANGED <<sock, refOf, out, byName, nextRef>>
    BY <1>3 DEF Open
  <2>2. \A u \in Sockets : u # sock => inbox'[u] = inbox[u]
    BY <1>3, FlushInbox DEF Open
  <2>3. \A u \in Sockets : up'[u] = IF u = sock THEN "open" ELSE up[u]
    BY <1>1, <2>1
  <2> QED
    BY <1>1, <2>1, <2>2, <2>3 DEF Pristine, Heard
<1>4. ASSUME ClientReceive PROVE Pristine'
  <2>1. conn = "open" /\ up[sock] # "none" /\ UNCHANGED <<conn, sock, up, byName, nextRef>>
    BY <1>4 DEF ClientReceive
  <2>2. \A u \in Sockets : u # sock => inbox'[u] = inbox[u] /\ out'[u] = out[u]
    BY <1>1, <1>4 DEF ClientReceive, Take, OnAck, OnGap, OnEntry
  <2> QED
    BY <1>1, <2>1, <2>2 DEF Pristine, Heard
<1>5. ASSUME SocketDrops PROVE Pristine'
  <2>1. conn' = "waiting" /\ UNCHANGED <<sock, up, inbox, byName, nextRef, refOf>>
    BY <1>5 DEF SocketDrops
  <2>2. \A u \in Sockets : out'[u] = IF u = sock THEN <<>> ELSE out[u]
    BY <1>1, <1>5 DEF SocketDrops
  <2> QED
    BY <1>1, <2>1, <2>2 DEF Pristine, Heard
<1>6. ASSUME Reconnect PROVE Pristine'
  <2>1. /\ conn = "waiting" /\ conn' = "connecting" /\ sock' = sock + 1 /\ sock' \in Sockets
        /\ \A t \in Topics : refOf'[t] = 0
        /\ UNCHANGED <<up, inbox, out, byName, nextRef>>
    BY <1>1, <1>6, Bounds DEF Reconnect, sessions
  <2> QED
    BY <1>1, <2>1 DEF Pristine, Heard
<1>7. ASSUME NEW s \in Sockets, SessionReceive(s) PROVE Pristine'
  <2>1. /\ UNCHANGED client /\ up[s] = "open"
        /\ \A u \in Sockets : inbox'[u] = IF u = s THEN Tail(inbox[s]) ELSE inbox[u]
        /\ \A u \in Sockets : u # s => byName'[u] = byName[u] /\ nextRef'[u] = nextRef[u]
    BY <1>7, ReceiveTables
  <2>2. PICK f \in Answers : TrySend(s, f) \/ UNCHANGED <<up, out>>
    BY <1>7, ReceiveTables
  <2>3. \A u \in Sockets : /\ out'[u] = out[u] \/ (u = s /\ Heard(s))
                           /\ up'[u] = up[u] \/ (u = s /\ Heard(s) /\ up'[s] = "closing")
    BY <2>2, TrySendOut
  <2>4. UNCHANGED <<conn, sock, refOf>>
    BY <2>1 DEF client
  <2> QED
    BY <1>1, <2>1, <2>3, <2>4 DEF Pristine, Heard
<1>8. ASSUME NEW s \in Sockets, SessionBreaks(s) PROVE Pristine'
  <2>1. UNCHANGED <<conn, sock, refOf, inbox, out, byName, nextRef>> /\ up[s] = "open" /\ up' = [up EXCEPT ![s] = "closing"]
    BY <1>8 DEF SessionBreaks, client
  <2>2. \A u \in Sockets : up'[u] = IF u = s THEN "closing" ELSE up[u]
    BY <1>1, <2>1
  <2> QED
    BY <1>1, <2>1, <2>2 DEF Pristine, Heard
<1>9. ASSUME NEW s \in Sockets, SessionEnds(s) PROVE Pristine'
  <2>1. /\ UNCHANGED <<conn, sock, refOf, byName, nextRef>> /\ up[s] = "closing" /\ up' = [up EXCEPT ![s] = "ended"]
        /\ inbox' = [inbox EXCEPT ![s] = <<>>] /\ out' = [out EXCEPT ![s] = <<>>]
    BY <1>9 DEF SessionEnds, client
  <2>2. \A u \in Sockets : /\ up'[u] = IF u = s THEN "ended" ELSE up[u]
                           /\ inbox'[u] = IF u = s THEN <<>> ELSE inbox[u]
                           /\ out'[u] = IF u = s THEN <<>> ELSE out[u]
    BY <1>1, <2>1
  <2> QED
    BY <1>1, <2>1, <2>2 DEF Pristine, Heard
<1>10. ASSUME NEW s \in Sockets, NEW t \in Topics, Release(s, t) PROVE Pristine'
  <2>1. UNCHANGED <<conn, sock, refOf, up, inbox, out, nextRef>> /\ byName' = [byName EXCEPT ![s][t] = 0]
    BY <1>10 DEF Release, client
  <2>2. \A u \in Sockets, x \in Topics : byName'[u][x] = 0 \/ byName'[u][x] = byName[u][x]
    BY <1>1, <2>1
  <2> QED
    BY <1>1, <2>1, <2>2 DEF Pristine, Heard
<1>11. ASSUME NEW s \in Sockets, NEW r \in Refs, PumpSteps(s, r) PROVE Pristine'
  <2>1. Heard(s) /\ UNCHANGED <<conn, sock, refOf, up, inbox, byName, nextRef>>
    BY <1>11 DEF PumpSteps, PumpGate, PumpNext, PumpSend, PumpOnly, client
  <2>2. \A u \in Sockets : u # s => out'[u] = out[u]
    BY <1>1, <1>11 DEF PumpSteps, PumpGate, PumpNext, PumpSend, PumpOnly
  <2> QED
    BY <1>1, <2>1, <2>2 DEF Pristine, Heard
<1>12. ASSUME NEW t \in Topics, Publish(t) PROVE Pristine'
  <2>1. UNCHANGED <<conn, sock, refOf, up, inbox, out, byName, nextRef>>
    BY <1>12 DEF Publish, client, sessions
  <2> QED
    BY <2>1 DEF Pristine, Heard
<1> QED
  BY <1>2, <1>3, <1>4, <1>5, <1>6, <1>7, <1>8, <1>9, <1>10, <1>11, <1>12 DEF Next, System, SessionSteps

-----------------------------------------------------------------------------
(* What is on its way names its subscription.                              *)

\* The elements of a queue.
LEMMA ToSetFacts ==
  ASSUME NEW S, NEW q \in Seq(S)
  PROVE  /\ \A f \in S : Append(q, f) \in Seq(S) /\ ToSet(Append(q, f)) = ToSet(q) \cup {f}
         /\ \A p \in Seq(S) : q \o p \in Seq(S) /\ ToSet(q \o p) = ToSet(q) \cup ToSet(p)
         /\ q # <<>> => Head(q) \in ToSet(q) /\ ToSet(Tail(q)) \subseteq ToSet(q)
         /\ ToSet(q) \subseteq S
<1>1. Len(q) \in Nat /\ DOMAIN q = 1..Len(q)
  BY LenProperties
<1>2. ASSUME NEW f \in S PROVE Append(q, f) \in Seq(S) /\ ToSet(Append(q, f)) = ToSet(q) \cup {f}
  <2>1. /\ Append(q, f) \in Seq(S) /\ Len(Append(q, f)) = Len(q) + 1
        /\ \A i \in 1..Len(q) : Append(q, f)[i] = q[i]
        /\ Append(q, f)[Len(q) + 1] = f
    BY AppendProperties
  <2>2. DOMAIN Append(q, f) = 1..Len(q) + 1
    BY <2>1, LenProperties
  <2>3. \A i \in 1..Len(q) + 1 : i \in 1..Len(q) \/ i = Len(q) + 1
    BY <1>1
  <2>4. 1..Len(q) \subseteq 1..Len(q) + 1 /\ Len(q) + 1 \in 1..Len(q) + 1
    BY <1>1
  <2> QED
    BY <1>1, <2>1, <2>2, <2>3, <2>4 DEF ToSet
<1>3. ASSUME NEW p \in Seq(S) PROVE q \o p \in Seq(S) /\ ToSet(q \o p) = ToSet(q) \cup ToSet(p)
  <2>1. /\ q \o p \in Seq(S) /\ Len(q \o p) = Len(q) + Len(p)
        /\ \A i \in 1..Len(q) + Len(p) : (q \o p)[i] = IF i <= Len(q) THEN q[i] ELSE p[i - Len(q)]
    BY ConcatProperties
  <2>2. Len(p) \in Nat /\ DOMAIN p = 1..Len(p) /\ DOMAIN (q \o p) = 1..Len(q) + Len(p)
    BY <2>1, LenProperties
  <2>3. ASSUME NEW i \in 1..Len(q) + Len(p) PROVE (q \o p)[i] \in ToSet(q) \cup ToSet(p)
    <3>1. i \in 1..Len(q) \/ (~ i <= Len(q) /\ i - Len(q) \in 1..Len(p))
      BY <1>1, <2>2
    <3>2. CASE i \in 1..Len(q)
      <4>1. i <= Len(q)
        BY <1>1, <3>2
      <4>2. (q \o p)[i] = q[i]
        BY <2>1, <4>1
      <4> QED
        BY <1>1, <3>2, <4>2 DEF ToSet
    <3>3. CASE ~ i <= Len(q) /\ i - Len(q) \in 1..Len(p)
      <4>1. (q \o p)[i] = p[i - Len(q)]
        BY <2>1, <3>3
      <4> QED
        BY <2>2, <3>3, <4>1 DEF ToSet
    <3> QED
      BY <3>1, <3>2, <3>3
  <2>4. ASSUME NEW i \in 1..Len(q) PROVE q[i] \in ToSet(q \o p)
    <3>1. i \in 1..Len(q) + Len(p) /\ i <= Len(q)
      BY <1>1, <2>2
    <3> QED
      BY <2>1, <2>2, <3>1 DEF ToSet
  <2>5. ASSUME NEW i \in 1..Len(p) PROVE p[i] \in ToSet(q \o p)
    <3>1. Len(q) + i \in 1..Len(q) + Len(p) /\ ~ Len(q) + i <= Len(q) /\ (Len(q) + i) - Len(q) = i
      BY <1>1, <2>2
    <3>2. (q \o p)[Len(q) + i] = p[i]
      BY <2>1, <3>1
    <3> QED
      BY <2>2, <3>1, <3>2 DEF ToSet
  <2>6. ToSet(q \o p) \subseteq ToSet(q) \cup ToSet(p)
    BY <2>2, <2>3 DEF ToSet
  <2>7. ToSet(q) \cup ToSet(p) \subseteq ToSet(q \o p)
    <3>1. ToSet(q) \subseteq ToSet(q \o p)
      <4> SUFFICES ASSUME NEW x \in ToSet(q) PROVE x \in ToSet(q \o p)
        OBVIOUS
      <4>1. PICK i \in 1..Len(q) : x = q[i]
        BY <1>1 DEF ToSet
      <4> QED
        BY <2>4, <4>1
    <3>2. ToSet(p) \subseteq ToSet(q \o p)
      <4> SUFFICES ASSUME NEW x \in ToSet(p) PROVE x \in ToSet(q \o p)
        OBVIOUS
      <4>1. PICK i \in 1..Len(p) : x = p[i]
        BY <2>2 DEF ToSet
      <4> QED
        BY <2>5, <4>1
    <3> QED
      BY <3>1, <3>2
  <2> QED
    BY <2>1, <2>6, <2>7
<1>4. ASSUME q # <<>> PROVE Head(q) \in ToSet(q) /\ ToSet(Tail(q)) \subseteq ToSet(q)
  <2>1. /\ Len(q) >= 1 /\ Head(q) = q[1] /\ Tail(q) \in Seq(S) /\ Len(Tail(q)) = Len(q) - 1
        /\ \A i \in 1..Len(q) - 1 : Tail(q)[i] = q[i + 1]
    BY <1>1, <1>4, EmptySeq, HeadTailProperties
  <2>2. DOMAIN Tail(q) = 1..Len(q) - 1
    BY <2>1, LenProperties
  <2>3. 1 \in 1..Len(q) /\ \A i \in 1..Len(q) - 1 : i + 1 \in 1..Len(q)
    BY <1>1, <2>1
  <2> QED
    BY <1>1, <2>1, <2>2, <2>3 DEF ToSet
<1>5. ToSet(q) \subseteq S
  BY <1>1, ElementOfSeq DEF ToSet
<1> QED
  BY <1>2, <1>3, <1>4, <1>5

\* A frame to a session with next ref n and pumps ps, and an answer of one that has
\* answered the hellos of rep.
FrameOk(f, n, ps) == f.kind = "data" => f.ref < n /\ ps[f.ref].topic = f.topic
AnswerOk(f, n, ps, rep) ==
  /\ f.kind = "ack" => f.ref < n /\ ps[f.ref].topic = f.topic
  /\ f.kind = "entry" => f.ref < n /\ f.seq # 0 /\ (ps[f.ref].topic \in Gated => f.ref \in rep)

FramesOk  == \A s \in Sockets : \A f \in ToSet(inbox[s]) : FrameOk(f, nextRef[s], pumps[s])
AnswersOk == \A s \in Sockets : \A f \in ToSet(out[s]) : AnswerOk(f, nextRef[s], pumps[s], replied[s])
Bound     == \A t \in Topics : refOf[t] # 0 => refOf[t] < nextRef[sock] /\ pumps[sock][refOf[t]].topic = t
Published == \A t \in Topics : \A i \in DOMAIN log[t] : log[t][i] = t

Routes == FramesOk /\ AnswersOk /\ Bound /\ Published

\* What names a subscription goes on naming it.
LEMMA StillNamed ==
  ASSUME Base, Base', Grows, NEW s \in Sockets
  PROVE  /\ \A r \in Refs, t \in Topics : r < nextRef[s] /\ pumps[s][r].topic = t
              => r < nextRef'[s] /\ pumps'[s][r].topic = t
         /\ \A f \in Frames : FrameOk(f, nextRef[s], pumps[s]) => FrameOk(f, nextRef'[s], pumps'[s])
         /\ \A f \in Answers : AnswerOk(f, nextRef[s], pumps[s], replied[s])
              => AnswerOk(f, nextRef'[s], pumps'[s], replied'[s])
<1>1. nextRef[s] \in 1..MaxRefs + 1 /\ nextRef'[s] \in 1..MaxRefs + 1
  BY DEF Base, TypeOK
<1>2. nextRef[s] \in Nat /\ nextRef'[s] \in Nat /\ nextRef[s] <= nextRef'[s] /\ \A r \in Refs : r \in Nat
  BY <1>1, Bounds DEF Grows
<1>3. ASSUME NEW r \in Refs, r < nextRef[s] PROVE r < nextRef'[s] /\ pumps'[s][r].topic = pumps[s][r].topic
  BY <1>2, <1>3 DEF Grows
<1>4. replied[s] \subseteq replied'[s]
  BY DEF Grows
<1>5. \A f \in Frames : f.kind = "data" => f.ref \in Refs
  BY ItemFacts
<1>6. \A f \in Answers : f.kind \in {"ack", "entry"} => f.ref \in Refs
  BY AnswerFacts
<1> QED
  BY <1>3, <1>4, <1>5, <1>6 DEF FrameOk, AnswerOk

\* Only what is new has to be looked at.
LEMMA RoutesKept ==
  ASSUME Base, Base', Grows, Routes,
         \A s \in Sockets : \A f \in ToSet(inbox'[s]) : f \in ToSet(inbox[s]) \/ FrameOk(f, nextRef'[s], pumps'[s]),
         \A s \in Sockets : \A f \in ToSet(out'[s]) :
           f \in ToSet(out[s]) \/ AnswerOk(f, nextRef'[s], pumps'[s], replied'[s]),
         \A t \in Topics : refOf'[t] # 0 =>
           \/ sock' = sock /\ refOf'[t] = refOf[t]
           \/ refOf'[t] < nextRef'[sock'] /\ pumps'[sock'][refOf'[t]].topic = t,
         Published'
  PROVE  Routes'
<1>1. /\ refOf \in [Topics -> Refs \cup {0}] /\ sock \in Sockets
      /\ inbox \in [Sockets -> Seq(Frames)] /\ out \in [Sockets -> Seq(Answers)]
  BY DEF Base, TypeOK
<1>2. FramesOk'
  <2> SUFFICES ASSUME NEW s \in Sockets, NEW f \in ToSet(inbox[s])' PROVE FrameOk(f, nextRef'[s], pumps'[s])
    BY DEF FramesOk, FrameOk
  <2>1. CASE f \in ToSet(inbox[s])
    <3>1. f \in Frames
      BY <1>1, <2>1, ToSetFacts
    <3> QED
      BY <2>1, <3>1, StillNamed DEF Routes, FramesOk
  <2> QED
    BY <2>1 DEF ToSet
<1>3. AnswersOk'
  <2> SUFFICES ASSUME NEW s \in Sockets, NEW f \in ToSet(out[s])'
               PROVE  AnswerOk(f, nextRef'[s], pumps'[s], replied'[s])
    BY DEF AnswersOk, AnswerOk
  <2>1. CASE f \in ToSet(out[s])
    <3>1. f \in Answers
      BY <1>1, <2>1, ToSetFacts
    <3> QED
      BY <2>1, <3>1, StillNamed DEF Routes, AnswersOk
  <2> QED
    BY <2>1 DEF ToSet
<1>4. Bound'
  <2> SUFFICES ASSUME NEW t \in Topics, refOf'[t] # 0
               PROVE  refOf'[t] < nextRef'[sock'] /\ pumps'[sock'][refOf'[t]].topic = t
    BY DEF Bound
  <2>1. CASE sock' = sock /\ refOf'[t] = refOf[t]
    <3>1. refOf[t] \in Refs /\ refOf[t] < nextRef[sock] /\ pumps[sock][refOf[t]].topic = t
      BY <1>1, <2>1 DEF Routes, Bound
    <3>2. refOf[t] < nextRef'[sock] /\ pumps'[sock][refOf[t]].topic = t
      BY <1>1, <3>1, StillNamed
    <3> QED
      BY <2>1, <3>2
  <2> QED
    BY <2>1
<1> QED
  BY <1>2, <1>3, <1>4 DEF Routes

\* The frames of a flush name what their refs are bound to.
LEMMA FlushRoutes ==
  ASSUME Base, NEW q \in Seq(Items), NEW refs \in [Topics -> Refs \cup {0}], NEW n, NEW ps,
         \A t \in Topics : refs[t] # 0 => refs[t] < n /\ ps[refs[t]].topic = t
  PROVE  \A f \in ToSet(Sent(q, refs)) : FrameOk(f, n, ps)
<1>1. Sent(q, refs) \in Seq(Frames)
  BY FlushFacts
<1> SUFFICES ASSUME NEW f \in ToSet(Sent(q, refs)), f.kind = "data" PROVE f.ref < n /\ ps[f.ref].topic = f.topic
  BY DEF FrameOk
<1>2. PICK k \in DOMAIN Sent(q, refs) : f = Sent(q, refs)[k]
  BY DEF ToSet
<1>3. f.ref = refs[f.topic] /\ f.ref # 0
  BY <1>2, FlushFacts
<1>4. f.topic \in Topics
  <2>1. f \in Frames
    BY <1>1, ToSetFacts
  <2> QED
    BY <2>1, ItemFacts
<1> QED
  BY <1>3, <1>4

LEMMA RoutesByFlush ==
  ASSUME Base, Base', Grows, Routes, NEW q \in Seq(Items), Flush(q, refOf),
         UNCHANGED <<sock, refOf, out, log, nextRef, pumps>>
  PROVE  Routes'
<1>1. /\ refOf \in [Topics -> Refs \cup {0}] /\ sock \in Sockets /\ inbox \in [Sockets -> Seq(Frames)] /\ TypeOK
  BY DEF Base, TypeOK
<1>2. \A u \in Sockets : inbox'[u] = inbox[u] \/ (u = sock /\ inbox'[u] = inbox[u] \o Sent(q, refOf))
  BY <1>1, FlushInbox
<1>3. \A f \in ToSet(Sent(q, refOf)) : FrameOk(f, nextRef[sock], pumps[sock])
  BY <1>1, FlushRoutes DEF Routes, Bound
<1>4. \A u \in Sockets : \A f \in ToSet(inbox'[u]) : f \in ToSet(inbox[u]) \/ FrameOk(f, nextRef'[u], pumps'[u])
  <2> SUFFICES ASSUME NEW u \in Sockets, inbox'[u] # inbox[u], NEW f \in ToSet(inbox'[u])
               PROVE  f \in ToSet(inbox[u]) \/ FrameOk(f, nextRef'[u], pumps'[u])
    OBVIOUS
  <2>1. u = sock /\ inbox'[u] = inbox[u] \o Sent(q, refOf)
    BY <1>2
  <2>2. Sent(q, refOf) \in Seq(Frames) /\ inbox[u] \in Seq(Frames)
    BY <1>1, FlushFacts
  <2>3. f \in ToSet(inbox[u]) \/ f \in ToSet(Sent(q, refOf))
    BY <2>1, <2>2, ToSetFacts
  <2> QED
    BY <1>3, <2>1, <2>3
<1>5. Published'
  BY DEF Routes, Published
<1> QED
  BY <1>4, <1>5, RoutesKept

LEMMA RoutesByReceive ==
  ASSUME Base, Base', Grows, Routes, ClientReceive
  PROVE  Routes'
<1> SUFFICES ASSUME NEW f, f = Head(out[sock]) PROVE Routes'
  OBVIOUS
<1>1. /\ refOf \in [Topics -> Refs \cup {0}] /\ sock \in Sockets /\ inbox \in [Sockets -> Seq(Frames)]
      /\ out \in [Sockets -> Seq(Answers)] /\ outbox \in Seq(Items) /\ TypeOK
  BY DEF Base, TypeOK
<1>2. UNCHANGED <<sock, log, nextRef, pumps, replied>> /\ out[sock] # <<>>
  BY DEF ClientReceive, process
<1>3. \A u \in Sockets : out'[u] = IF u = sock THEN Tail(out[sock]) ELSE out[u]
  BY <1>1 DEF ClientReceive, Take
<1>4. \A u \in Sockets : ToSet(out'[u]) \subseteq ToSet(out[u])
  BY <1>1, <1>2, <1>3, ToSetFacts
<1>5. f \in Answers /\ AnswerOk(f, nextRef[sock], pumps[sock], replied[sock])
  <2>1. f \in ToSet(out[sock]) /\ f \in Answers
    BY <1>1, <1>2, ToSetFacts
  <2> QED
    BY <1>1, <2>1 DEF Routes, AnswersOk
<1>6. Published'
  BY <1>2 DEF Routes, Published
<1>7. CASE f.kind = "ack" /\ OnAck(f.topic, f.ref)
  <2> SUFFICES ASSUME NEW t, t = f.topic, NEW r, r = f.ref, NEW refs, refs = [refOf EXCEPT ![t] = r],
                      NEW hello, hello = IF t \in Gated THEN <<DataFrame(t, r, "hello")>> ELSE <<>>
               PROVE  Routes'
    OBVIOUS
  <2>1. t \in Topics /\ r \in Refs /\ r < nextRef[sock] /\ pumps[sock][r].topic = t
    BY <1>5, <1>7, AnswerFacts DEF AnswerOk
  <2>2. refs \in [Topics -> Refs \cup {0}]
    BY <1>1, <2>1
  <2>3. \A x \in Topics : refs[x] # 0 => refs[x] < nextRef[sock] /\ pumps[sock][refs[x]].topic = x
    BY <1>1, <2>1 DEF Routes, Bound
  <2>4. refOf' = refs /\ inbox' = [inbox EXCEPT ![sock] = @ \o Sent(outbox, refs) \o hello]
    BY <1>7 DEF OnAck
  <2>5. Sent(outbox, refs) \in Seq(Frames) /\ \A g \in ToSet(Sent(outbox, refs)) : FrameOk(g, nextRef[sock], pumps[sock])
    BY <1>1, <2>2, <2>3, FlushFacts, FlushRoutes
  <2>6. hello \in Seq(Frames) /\ \A g \in ToSet(hello) : FrameOk(g, nextRef[sock], pumps[sock])
    <3>1. CASE t \in Gated
      <4>1. DataFrame(t, r, "hello") \in Frames /\ FrameOk(DataFrame(t, r, "hello"), nextRef[sock], pumps[sock])
        BY <2>1, ItemFacts DEF FrameOk
      <4> SUFFICES ASSUME NEW d \in Frames, FrameOk(d, nextRef[sock], pumps[sock]), hello = <<d>>
                   PROVE  hello \in Seq(Frames) /\ \A g \in ToSet(hello) : FrameOk(g, nextRef[sock], pumps[sock])
        BY <3>1, <4>1
      <4>2. DOMAIN hello = {1} /\ hello[1] = d
        OBVIOUS
      <4> QED
        BY <4>2 DEF ToSet
    <3>2. CASE t \notin Gated
      <4>1. hello = <<>>
        BY <3>2
      <4>2. hello \in Seq(Frames) /\ DOMAIN hello = {}
        BY <4>1
      <4> QED
        BY <4>2 DEF ToSet
    <3> QED
      BY <3>1, <3>2
  <2>7. \A u \in Sockets : \A g \in ToSet(inbox'[u]) : g \in ToSet(inbox[u]) \/ FrameOk(g, nextRef'[u], pumps'[u])
    <3>1. ToSet((inbox[sock] \o Sent(outbox, refs)) \o hello) = (ToSet(inbox[sock]) \cup ToSet(Sent(outbox, refs))) \cup ToSet(hello)
      <4>1. inbox[sock] \in Seq(Frames)
        BY <1>1
      <4>2. \A a, b \in Seq(Frames) : a \o b \in Seq(Frames) /\ ToSet(a \o b) = ToSet(a) \cup ToSet(b)
        BY ToSetFacts
      <4>3. /\ inbox[sock] \o Sent(outbox, refs) \in Seq(Frames)
            /\ ToSet(inbox[sock] \o Sent(outbox, refs)) = ToSet(inbox[sock]) \cup ToSet(Sent(outbox, refs))
        BY <2>5, <4>1, <4>2, Zenon
      <4>4. hello \in Seq(Frames)
        BY <2>6
      <4>5. \A a \in Seq(Frames) : ToSet(a \o hello) = ToSet(a) \cup ToSet(hello)
        BY <4>2, <4>4
      <4> QED
        BY <4>3, <4>5
    <3>2. \A u \in Sockets : inbox'[u] = IF u = sock THEN (inbox[sock] \o Sent(outbox, refs)) \o hello ELSE inbox[u]
      BY <1>1, <2>4
    <3> QED
      BY <1>2, <2>5, <2>6, <3>1, <3>2
  <2>8. \A x \in Topics : refOf'[x] # 0 => refOf'[x] < nextRef'[sock'] /\ pumps'[sock'][refOf'[x]].topic = x
    BY <1>2, <2>3, <2>4
  <2> QED
    BY <1>4, <1>6, <2>7, <2>8, RoutesKept
<1>8. CASE inbox' = inbox /\ \A x \in Topics : refOf'[x] # 0 => refOf'[x] = refOf[x]
  BY <1>2, <1>4, <1>6, <1>8, RoutesKept
<1>9. f.kind = "gap" /\ OnGap(f.topic) => inbox' = inbox /\ \A x \in Topics : refOf'[x] # 0 => refOf'[x] = refOf[x]
  BY <1>1 DEF OnGap
<1> QED
  BY <1>7, <1>8, <1>9 DEF ClientReceive, OnEntry

LEMMA RoutesBySession ==
  ASSUME Base, Base', Grows, Routes, NEW s \in Sockets, SessionReceive(s)
  PROVE  Routes'
<1> SUFFICES ASSUME NEW f, f = Head(inbox[s]) PROVE Routes'
  OBVIOUS
<1>1. inbox \in [Sockets -> Seq(Frames)] /\ out \in [Sockets -> Seq(Answers)] /\ TypeOK /\ log \in [Topics -> Seq(Topics)]
  BY DEF Base, TypeOK
<1>2. /\ UNCHANGED client /\ inbox[s] # <<>> /\ f \in Frames
      /\ \A u \in Sockets : inbox'[u] = IF u = s THEN Tail(inbox[s]) ELSE inbox[u]
  BY ReceiveTables
<1>3. \A u \in Sockets : ToSet(inbox'[u]) \subseteq ToSet(inbox[u])
  BY <1>1, <1>2, ToSetFacts
<1>4. UNCHANGED <<sock, refOf>>
  BY <1>2 DEF client
<1>5. ASSUME NEW g \in Answers, TrySend(s, g), AnswerOk(g, nextRef'[s], pumps'[s], replied'[s])
      PROVE  \A u \in Sockets : \A h \in ToSet(out'[u]) :
               h \in ToSet(out[u]) \/ AnswerOk(h, nextRef'[u], pumps'[u], replied'[u])
  <2>1. \A u \in Sockets : out'[u] = out[u] \/ (u = s /\ out'[s] = Append(out[s], g))
    BY <1>1, <1>5, TrySendOut
  <2>2. ToSet(Append(out[s], g)) = ToSet(out[s]) \cup {g}
    BY <1>1, ToSetFacts
  <2> QED
    BY <1>5, <2>1, <2>2
<1>6. CASE f.kind = "subscribe" /\ OpenTopic(s, f.topic)
  <2> SUFFICES ASSUME NEW t, t = f.topic, NEW n, n = nextRef[s], NEW g, g = Ack(t, n) PROVE Routes'
    OBVIOUS
  <2>1. t \in Topics
    BY <1>2, ItemFacts
  <2>2. /\ n \in Refs /\ nextRef'[s] = n + 1 /\ pumps'[s][n] = OpenedPump(s, t, n) /\ log' = log
    BY <1>1, <1>6, <2>1, OpenTopicTables
  <2>3. pumps'[s][n].topic = t
    BY <1>1, <2>1, <2>2, NewPumpFacts DEF OpenedPump
  <2>4. g \in Answers /\ g.kind = "ack" /\ g.ref = n /\ g.topic = t /\ TrySend(s, g)
    BY <1>6, <2>1, <2>2, AnswerFacts DEF OpenTopic
  <2>5. n < n + 1
    BY <2>2, Bounds
  <2>6. AnswerOk(g, nextRef'[s], pumps'[s], replied'[s])
    BY <2>2, <2>3, <2>4, <2>5 DEF AnswerOk
  <2>7. Published'
    BY <2>2 DEF Routes, Published
  <2> QED
    BY <1>3, <1>4, <1>5, <2>4, <2>6, <2>7, RoutesKept
<1>7. CASE f.kind = "data" /\ HandleData(s, f)
  <2>1. f.ref \in Refs /\ f.topic \in Topics
    BY <1>2, <1>7, ItemFacts
  <2>2. /\ Reply(f.ref) \in Answers /\ AnswerOk(Reply(f.ref), nextRef'[s], pumps'[s], replied'[s])
        /\ Error \in Answers /\ AnswerOk(Error, nextRef'[s], pumps'[s], replied'[s])
    BY <2>1, AnswerFacts DEF AnswerOk
  <2>3. \A u \in Sockets : \A h \in ToSet(out'[u]) :
          h \in ToSet(out[u]) \/ AnswerOk(h, nextRef'[u], pumps'[u], replied'[u])
    <3>1. TrySend(s, Reply(f.ref)) \/ TrySend(s, Error) \/ UNCHANGED <<up, out>>
      BY <1>7 DEF HandleData, Hello
    <3> QED
      BY <1>5, <2>2, <3>1
  <2>4. pumps[s][f.ref].topic = f.topic
    <3>1. f \in ToSet(inbox[s])
      BY <1>1, <1>2, ToSetFacts
    <3> QED
      BY <1>7, <3>1 DEF Routes, FramesOk, FrameOk
  <2>5. Published'
    <3>1. CASE log' = log
      BY <3>1 DEF Routes, Published
    <3>2. CASE log' = [log EXCEPT ![f.topic] = Append(@, f.topic)]
      <4> SUFFICES ASSUME NEW t \in Topics, NEW i \in DOMAIN log'[t] PROVE log'[t][i] = t
        BY DEF Published
      <4>1. log'[t] = IF t = f.topic THEN Append(log[t], t) ELSE log[t]
        BY <1>1, <3>2
      <4>2. ToSet(Append(log[t], t)) = ToSet(log[t]) \cup {t}
        BY <1>1, ToSetFacts
      <4>3. log'[t][i] \in ToSet(log[t]) \cup {t}
        BY <4>1, <4>2 DEF ToSet
      <4> QED
        BY <4>3 DEF ToSet, Routes, Published
    <3> QED
      BY <1>7, <2>4, <3>1, <3>2 DEF HandleData, Hello
  <2> QED
    BY <1>3, <1>4, <2>3, <2>5, RoutesKept
<1> QED
  BY <1>6, <1>7 DEF SessionReceive

LEMMA RoutesByPump ==
  ASSUME Base, Base', Grows, Routes, NEW s \in Sockets, NEW r \in Refs, PumpSteps(s, r)
  PROVE  Routes'
<1> SUFFICES ASSUME NEW p, p = pumps[s][r] PROVE Routes'
  OBVIOUS
<1>1. out \in [Sockets -> Seq(Answers)] /\ TypeOK
  BY DEF Base, TypeOK
<1>2. UNCHANGED <<client, inbox, nextRef, replied, process>>
  BY PumpCases DEF PumpSteps
<1>3. UNCHANGED <<sock, refOf, inbox, nextRef, replied, log>>
  BY <1>2 DEF client, process
<1>4. p \in Pumps /\ PumpOk(p, r, nextRef[s], byName[s], replied[s])
  BY <1>1, TableFacts DEF Base, Pumped
<1>5. \/ out' = out
      \/ p.pc = "push" /\ out' = [out EXCEPT ![s] = Append(@, Entry(r, p.held))]
      \/ p.pc = "gap" /\ out' = [out EXCEPT ![s] = Append(@, Gap(p.topic))]
  BY PumpCases DEF PumpSteps
<1>6. p.pc # "dead" => r < nextRef[s] /\ p.topic \in Topics
  <2>1. r < nextRef[s] \/ r >= nextRef[s]
    BY <1>1, TableFacts, Bounds
  <2> QED
    BY <1>4, <2>1 DEF PumpOk, NoPump
<1>7. ASSUME NEW g \in Answers, out' = [out EXCEPT ![s] = Append(@, g)],
             AnswerOk(g, nextRef'[s], pumps'[s], replied'[s])
      PROVE  Routes'
  <2>1. \A u \in Sockets : out'[u] = IF u = s THEN Append(out[s], g) ELSE out[u]
    BY <1>1, <1>7
  <2>2. ToSet(Append(out[s], g)) = ToSet(out[s]) \cup {g}
    BY <1>1, ToSetFacts
  <2>3. \A u \in Sockets : \A h \in ToSet(out'[u]) :
          h \in ToSet(out[u]) \/ AnswerOk(h, nextRef'[u], pumps'[u], replied'[u])
    BY <1>7, <2>1, <2>2
  <2> QED
    BY <1>3, <2>3, RoutesKept DEF Routes, Published
<1>8. CASE out' = out
  BY <1>3, <1>8, RoutesKept DEF Routes, Published
<1>9. CASE p.pc = "push" /\ out' = [out EXCEPT ![s] = Append(@, Entry(r, p.held))]
  <2> SUFFICES ASSUME NEW g, g = Entry(r, p.held) PROVE Routes'
    OBVIOUS
  <2>1. p.held \in Nat
    BY <1>4 DEF Pumps
  <2>2. g \in Answers /\ g.kind = "entry" /\ g.ref = r /\ g.seq = p.held
    BY <2>1, AnswerFacts
  <2>3. p.held # 0 /\ (p.topic \in Gated => r \in replied[s]) /\ r < nextRef[s]
    BY <1>4, <1>6, <1>9 DEF PumpOk
  <2>4. AnswerOk(g, nextRef[s], pumps[s], replied[s])
    BY <2>2, <2>3 DEF AnswerOk
  <2>5. AnswerOk(g, nextRef'[s], pumps'[s], replied'[s])
    BY <2>2, <2>4, StillNamed
  <2> QED
    BY <1>7, <1>9, <2>2, <2>5
<1>10. CASE p.pc = "gap" /\ out' = [out EXCEPT ![s] = Append(@, Gap(p.topic))]
  <2>1. Gap(p.topic) \in Answers /\ AnswerOk(Gap(p.topic), nextRef'[s], pumps'[s], replied'[s])
    BY <1>6, <1>10, AnswerFacts DEF AnswerOk
  <2> QED
    BY <1>7, <1>10, <2>1
<1> QED
  BY <1>5, <1>8, <1>9, <1>10

LEMMA RoutesStep ==
  ASSUME Base, Base', Grows, Routes, Next
  PROVE  Routes'
<1>1. /\ inbox \in [Sockets -> Seq(Frames)] /\ out \in [Sockets -> Seq(Answers)] /\ outbox \in Seq(Items)
      /\ log \in [Topics -> Seq(Topics)]
  BY DEF Base, TypeOK
<1>2. ToSet(<<>>) = {}
  BY DEF ToSet
<1>3. ASSUME NEW t \in Topics, Subscribe(t) PROVE Routes'
  <2>1. Append(outbox, SubFrame(t)) \in Seq(Items)
    BY <1>1, ItemFacts, AppendProperties
  <2> QED
    BY <1>3, <2>1, RoutesByFlush DEF Subscribe, process
<1>4. ASSUME NEW t \in Topics, SendData(t) PROVE Routes'
  <2>1. QueueData(outbox, Data(t, "edit")) \in Seq(Items)
    BY <1>1, ItemFacts, QueueFacts
  <2> QED
    BY <1>4, <2>1, RoutesByFlush DEF SendData, process
<1>5. ASSUME Open PROVE Routes'
  BY <1>1, <1>5, RoutesByFlush DEF Open, process
<1>6. ASSUME SocketDrops PROVE Routes'
  <2>1. UNCHANGED <<sock, refOf, inbox, nextRef, log>> /\ \A u \in Sockets : out'[u] = out[u] \/ out'[u] = <<>>
    BY <1>1, <1>6 DEF SocketDrops, process
  <2> QED
    BY <1>2, <2>1, RoutesKept DEF Routes, Published
<1>7. ASSUME Reconnect PROVE Routes'
  <2>1. UNCHANGED <<inbox, out, log>> /\ \A t \in Topics : refOf'[t] = 0
    BY <1>7 DEF Reconnect, sessions, process
  <2> QED
    BY <2>1, RoutesKept DEF Routes, Published
<1>8. ASSUME NEW s \in Sockets, SessionBreaks(s) \/ \E t \in Topics : Release(s, t) PROVE Routes'
  <2>1. UNCHANGED <<sock, refOf, inbox, out, log>>
    BY <1>8 DEF SessionBreaks, Release, client, process
  <2> QED
    BY <2>1, RoutesKept DEF Routes, Published
<1>9. ASSUME NEW s \in Sockets, SessionEnds(s) PROVE Routes'
  <2>1. UNCHANGED <<sock, refOf, log>>
    BY <1>9 DEF SessionEnds, client, process
  <2>2. \A u \in Sockets : (out'[u] = out[u] \/ out'[u] = <<>>) /\ (inbox'[u] = inbox[u] \/ inbox'[u] = <<>>)
    BY <1>1, <1>9 DEF SessionEnds
  <2> QED
    BY <1>2, <2>1, <2>2, RoutesKept DEF Routes, Published
<1>10. ASSUME NEW t \in Topics, Publish(t) PROVE Routes'
  <2>1. UNCHANGED <<sock, refOf, inbox, out>> /\ log' = [log EXCEPT ![t] = Append(@, t)]
    BY <1>10 DEF Publish, Publishing, client, sessions
  <2>2. Published'
    <3> SUFFICES ASSUME NEW x \in Topics, NEW i \in DOMAIN log'[x] PROVE log'[x][i] = x
      BY DEF Published
    <3>1. log'[x] = IF x = t THEN Append(log[x], x) ELSE log[x]
      BY <1>1, <2>1
    <3>2. ToSet(Append(log[x], x)) = ToSet(log[x]) \cup {x}
      BY <1>1, ToSetFacts
    <3>3. log'[x][i] \in ToSet(log[x]) \cup {x}
      BY <3>1, <3>2 DEF ToSet
    <3> QED
      BY <3>3 DEF ToSet, Routes, Published
  <2> QED
    BY <2>1, <2>2, RoutesKept
<1> QED
  BY <1>3, <1>4, <1>5, <1>6, <1>7, <1>8, <1>9, <1>10, RoutesByReceive, RoutesBySession, RoutesByPump
  DEF Next, System, SessionSteps

-----------------------------------------------------------------------------
(* One request at a time, and its answers in turn.                         *)

\* The places of a queue.
LEMMA Places ==
  ASSUME NEW S, NEW q \in Seq(S)
  PROVE  /\ Len(q) \in Nat /\ DOMAIN q = 1..Len(q)
         /\ \A f \in S : LET a == Append(q, f) IN
              /\ a \in Seq(S) /\ Len(a) = Len(q) + 1 /\ DOMAIN a = 1..Len(q) + 1
              /\ \A i \in 1..Len(q) + 1 : a[i] = IF i = Len(q) + 1 THEN f ELSE q[i]
         /\ \A p \in Seq(S) : LET c == q \o p IN
              /\ c \in Seq(S) /\ Len(p) \in Nat /\ DOMAIN p = 1..Len(p) /\ DOMAIN c = 1..Len(q) + Len(p)
              /\ \A i \in 1..Len(q) + Len(p) : c[i] = IF i <= Len(q) THEN q[i] ELSE p[i - Len(q)]
         /\ q # <<>> => /\ Len(q) >= 1 /\ Head(q) = q[1]
                        /\ Tail(q) \in Seq(S) /\ Len(Tail(q)) = Len(q) - 1 /\ DOMAIN Tail(q) = 1..Len(q) - 1
                        /\ \A i \in 1..Len(q) - 1 : Tail(q)[i] = q[i + 1]
<1>1. Len(q) \in Nat /\ DOMAIN q = 1..Len(q)
  BY LenProperties
<1>2. ASSUME NEW f \in S, NEW a, a = Append(q, f)
      PROVE  /\ a \in Seq(S) /\ Len(a) = Len(q) + 1 /\ DOMAIN a = 1..Len(q) + 1
             /\ \A i \in 1..Len(q) + 1 : a[i] = IF i = Len(q) + 1 THEN f ELSE q[i]
  <2>1. /\ a \in Seq(S) /\ Len(a) = Len(q) + 1
        /\ \A i \in 1..Len(q) : a[i] = q[i]
        /\ a[Len(q) + 1] = f
    BY <1>2, AppendProperties
  <2>2. DOMAIN a = 1..Len(q) + 1
    BY <2>1, LenProperties
  <2>3. \A i \in 1..Len(q) + 1 : i # Len(q) + 1 => i \in 1..Len(q)
    BY <1>1
  <2> QED
    BY <2>1, <2>2, <2>3
<1>3. ASSUME NEW p \in Seq(S), NEW c, c = q \o p
      PROVE  /\ c \in Seq(S) /\ Len(p) \in Nat /\ DOMAIN p = 1..Len(p) /\ DOMAIN c = 1..Len(q) + Len(p)
             /\ \A i \in 1..Len(q) + Len(p) : c[i] = IF i <= Len(q) THEN q[i] ELSE p[i - Len(q)]
  <2>1. /\ c \in Seq(S) /\ Len(c) = Len(q) + Len(p)
        /\ \A i \in 1..Len(q) + Len(p) : c[i] = IF i <= Len(q) THEN q[i] ELSE p[i - Len(q)]
    BY <1>3, ConcatProperties
  <2>2. Len(p) \in Nat /\ DOMAIN p = 1..Len(p) /\ DOMAIN c = 1..Len(q) + Len(p)
    BY <2>1, LenProperties
  <2> QED
    BY <2>1, <2>2
<1>4. ASSUME q # <<>>
      PROVE  /\ Len(q) >= 1 /\ Head(q) = q[1]
             /\ Tail(q) \in Seq(S) /\ Len(Tail(q)) = Len(q) - 1 /\ DOMAIN Tail(q) = 1..Len(q) - 1
             /\ \A i \in 1..Len(q) - 1 : Tail(q)[i] = q[i + 1]
  <2>1. /\ Len(q) >= 1 /\ Head(q) = q[1] /\ Tail(q) \in Seq(S) /\ Len(Tail(q)) = Len(q) - 1
        /\ \A i \in 1..Len(q) - 1 : Tail(q)[i] = q[i + 1]
    BY <1>1, <1>4, EmptySeq, HeadTailProperties
  <2> QED
    BY <2>1, LenProperties
<1> QED
  BY <1>1, <1>2, <1>3, <1>4

\* At most one request for t is in the queue.
Single(q, t) == \A i, j \in DOMAIN q : q[i] = SubFrame(t) /\ q[j] = SubFrame(t) => i = j

LEMMA SingleFacts ==
  ASSUME NEW S, NEW q \in Seq(S), NEW t, Single(q, t)
  PROVE  /\ \A f \in S : SubFrame(t) \notin ToSet(q) \/ f # SubFrame(t) => Single(Append(q, f), t)
         /\ \A p \in Seq(S) : Single(p, t) /\ (SubFrame(t) \notin ToSet(q) \/ SubFrame(t) \notin ToSet(p))
              => Single(q \o p, t)
         /\ q # <<>> => /\ Single(Tail(q), t)
                        /\ Head(q) = SubFrame(t) => SubFrame(t) \notin ToSet(Tail(q))
<1>1. Len(q) \in Nat /\ DOMAIN q = 1..Len(q)
  BY Places
<1> SUFFICES ASSUME NEW x, x = SubFrame(t)
             PROVE  /\ \A f \in S : x \notin ToSet(q) \/ f # x => Single(Append(q, f), t)
                    /\ \A p \in Seq(S) : Single(p, t) /\ (x \notin ToSet(q) \/ x \notin ToSet(p)) => Single(q \o p, t)
                    /\ q # <<>> => Single(Tail(q), t) /\ (Head(q) = x => x \notin ToSet(Tail(q)))
  OBVIOUS
<1>0. \A p : Single(p, t) <=> \A i, j \in DOMAIN p : p[i] = x /\ p[j] = x => i = j
  BY DEF Single
<1>2. ASSUME NEW f \in S, x \notin ToSet(q) \/ f # x PROVE Single(Append(q, f), t)
  <2> SUFFICES ASSUME NEW a, a = Append(q, f), NEW i \in DOMAIN a, NEW j \in DOMAIN a, a[i] = x, a[j] = x
               PROVE  i = j
    BY <1>0
  <2>1. DOMAIN a = 1..Len(q) + 1 /\ \A k \in 1..Len(q) + 1 : a[k] = IF k = Len(q) + 1 THEN f ELSE q[k]
    BY Places
  <2>2. \A k \in DOMAIN a : k = Len(q) + 1 \/ (k \in DOMAIN q /\ a[k] = q[k])
    BY <1>1, <2>1
  <2>3. \A k \in DOMAIN q : q[k] \in ToSet(q)
    BY DEF ToSet
  <2> QED
    BY <1>0, <1>2, <2>1, <2>2, <2>3
<1>3. ASSUME NEW p \in Seq(S), Single(p, t), x \notin ToSet(q) \/ x \notin ToSet(p) PROVE Single(q \o p, t)
  <2> SUFFICES ASSUME NEW c, c = q \o p, NEW i \in DOMAIN c, NEW j \in DOMAIN c, c[i] = x, c[j] = x
               PROVE  i = j
    BY <1>0
  <2>1. /\ Len(p) \in Nat /\ DOMAIN p = 1..Len(p) /\ DOMAIN c = 1..Len(q) + Len(p)
        /\ \A k \in 1..Len(q) + Len(p) : c[k] = IF k <= Len(q) THEN q[k] ELSE p[k - Len(q)]
    BY Places
  <2>2. \A k \in DOMAIN c : \/ k \in DOMAIN q /\ c[k] = q[k]
                            \/ k - Len(q) \in DOMAIN p /\ c[k] = p[k - Len(q)] /\ k \in Nat
    BY <1>1, <2>1
  <2>3. (\A k \in DOMAIN q : q[k] \in ToSet(q)) /\ \A k \in DOMAIN p : p[k] \in ToSet(p)
    BY DEF ToSet
  <2>4. CASE i \in DOMAIN q /\ c[i] = q[i]
    BY <1>0, <1>3, <2>2, <2>3, <2>4
  <2>5. CASE i - Len(q) \in DOMAIN p /\ c[i] = p[i - Len(q)] /\ i \in Nat
    <3>1. j - Len(q) \in DOMAIN p /\ c[j] = p[j - Len(q)] /\ j \in Nat
      BY <1>3, <2>2, <2>3, <2>5
    <3>2. i - Len(q) = j - Len(q)
      BY <1>0, <1>3, <2>5, <3>1
    <3> QED
      BY <1>1, <2>5, <3>1, <3>2
  <2> QED
    BY <2>2, <2>4, <2>5
<1>4. ASSUME q # <<>> PROVE Single(Tail(q), t) /\ (Head(q) = x => x \notin ToSet(Tail(q)))
  <2> SUFFICES ASSUME NEW p, p = Tail(q) PROVE Single(p, t) /\ (Head(q) = x => x \notin ToSet(p))
    OBVIOUS
  <2>1. /\ Len(q) >= 1 /\ Head(q) = q[1] /\ DOMAIN p = 1..Len(q) - 1
        /\ \A i \in 1..Len(q) - 1 : p[i] = q[i + 1]
    BY <1>4, Places
  <2>2. 1 \in DOMAIN q /\ \A i \in DOMAIN p : i \in Nat /\ i + 1 \in DOMAIN q /\ i + 1 # 1 /\ p[i] = q[i + 1]
    BY <1>1, <2>1
  <2>3. ASSUME NEW i \in DOMAIN p, NEW j \in DOMAIN p, p[i] = x, p[j] = x PROVE i = j
    <3>1. i + 1 = j + 1
      BY <1>0, <2>2, <2>3
    <3> QED
      BY <2>2, <3>1
  <2>4. Single(p, t)
    BY <1>0, <2>3
  <2>5. ASSUME Head(q) = x PROVE x \notin ToSet(p)
    BY <1>0, <2>1, <2>2, <2>5 DEF ToSet
  <2> QED
    BY <2>4, <2>5
<1> QED
  BY <1>2, <1>3, <1>4

\* What the client is told of t, in sessions with pumps ps.
Tells(f, t, ps) ==
  \/ f.kind \in {"ack", "gap"} /\ f.topic = t
  \/ f.kind = "entry" /\ ps[f.ref].topic = t

\* An answer comes first of all that is told of t, and a gap last.
Order(q, t, ps) ==
  \A i, j \in DOMAIN q : i < j /\ Tells(q[i], t, ps) /\ Tells(q[j], t, ps) => q[j].kind # "ack" /\ q[i].kind # "gap"
Silent(q, t, ps) == \A f \in ToSet(q) : ~ Tells(f, t, ps)
NoAck(q, t)      == \A f \in ToSet(q) : ~ (f.kind = "ack" /\ f.topic = t)
NoGap(q, t)      == \A f \in ToSet(q) : ~ (f.kind = "gap" /\ f.topic = t)
Dark(ps, t)      == \A r \in Refs : ps[r].topic = t => ps[r].pc = "dead"

\* The frames that leave, and those that say nothing of t.
LEMMA OrderFacts ==
  ASSUME NEW q \in Seq(Answers), NEW t, NEW ps, NEW ps2,
         \A f \in ToSet(q) : f.kind = "entry" => ps2[f.ref].topic = ps[f.ref].topic,
         NEW q2, \/ q2 = q \/ q2 = <<>> \/ (q # <<>> /\ q2 = Tail(q))
                 \/ \E f \in Answers : q2 = Append(q, f) /\ ~ Tells(f, t, ps2)
  PROVE  /\ Order(q, t, ps) => Order(q2, t, ps2)
         /\ Silent(q, t, ps) => Silent(q2, t, ps2)
         /\ NoAck(q, t) => NoAck(q2, t)
         /\ NoGap(q, t) => NoGap(q2, t)
<1>1. Len(q) \in Nat /\ DOMAIN q = 1..Len(q)
  BY Places
<1>2. \A f \in ToSet(q) : Tells(f, t, ps2) <=> Tells(f, t, ps)
  BY DEF Tells
<1>3. \A i \in DOMAIN q : q[i] \in ToSet(q)
  BY DEF ToSet
<1>4. \A f \in ToSet(q2) : f \in ToSet(q) \/ ~ Tells(f, t, ps2)
  BY ToSetFacts DEF ToSet
<1>5. Silent(q, t, ps) => Silent(q2, t, ps2)
  BY <1>2, <1>4 DEF Silent
<1>6. (NoAck(q, t) => NoAck(q2, t)) /\ (NoGap(q, t) => NoGap(q2, t))
  BY <1>4 DEF NoAck, NoGap, Tells
<1>7. ASSUME Order(q, t, ps) PROVE Order(q2, t, ps2)
  <2>1. Order(q, t, ps2)
    BY <1>2, <1>3, <1>7 DEF Order
  <2>2. CASE q2 = <<>>
    BY <2>2 DEF Order
  <2>3. CASE q # <<>> /\ q2 = Tail(q)
    <3>1. DOMAIN q2 = 1..Len(q) - 1 /\ \A i \in 1..Len(q) - 1 : q2[i] = q[i + 1]
      BY <2>3, Places
    <3>2. \A i, j \in 1..Len(q) - 1 : i + 1 \in 1..Len(q) /\ (i < j => i + 1 < j + 1)
      BY <1>1
    <3> QED
      BY <1>1, <2>1, <3>1, <3>2 DEF Order
  <2>4. ASSUME NEW f \in Answers, q2 = Append(q, f), ~ Tells(f, t, ps2) PROVE Order(q2, t, ps2)
    <3>1. DOMAIN q2 = 1..Len(q) + 1 /\ \A i \in 1..Len(q) + 1 : q2[i] = IF i = Len(q) + 1 THEN f ELSE q[i]
      BY <2>4, Places
    <3>2. \A i \in 1..Len(q) + 1 : i = Len(q) + 1 \/ i \in 1..Len(q)
      BY <1>1
    <3>3. \A i \in DOMAIN q2 : q2[i] = f \/ (i \in DOMAIN q /\ q2[i] = q[i])
      <4> SUFFICES ASSUME NEW i \in DOMAIN q2, q2[i] # f PROVE i \in DOMAIN q /\ q2[i] = q[i]
        OBVIOUS
      <4>1. i \in 1..Len(q) + 1 /\ i # Len(q) + 1
        BY <3>1
      <4> QED
        BY <1>1, <3>1, <3>2, <4>1
    <3> QED
      BY <2>1, <2>4, <3>3 DEF Order
  <2> QED
    BY <2>1, <2>2, <2>3, <2>4
<1> QED
  BY <1>5, <1>6, <1>7

\* A frame about t goes behind what is told of it already.
LEMMA OrderAppend ==
  ASSUME NEW q \in Seq(Answers), NEW t, NEW ps, NEW f \in Answers, Order(q, t, ps), NoGap(q, t),
         f.kind = "ack" => Silent(q, t, ps)
  PROVE  /\ Order(Append(q, f), t, ps)
         /\ f.kind # "ack" /\ NoAck(q, t) => NoAck(Append(q, f), t)
         /\ f.kind # "gap" => NoGap(Append(q, f), t)
<1> SUFFICES ASSUME NEW a, a = Append(q, f)
             PROVE  /\ Order(a, t, ps)
                    /\ f.kind # "ack" /\ NoAck(q, t) => NoAck(a, t)
                    /\ f.kind # "gap" => NoGap(a, t)
  OBVIOUS
<1>1. Len(q) \in Nat /\ DOMAIN q = 1..Len(q)
  BY Places
<1>2. DOMAIN a = 1..Len(q) + 1 /\ \A i \in 1..Len(q) + 1 : a[i] = IF i = Len(q) + 1 THEN f ELSE q[i]
  BY Places
<1>3. \A i, j \in DOMAIN a : i < j => i \in DOMAIN q /\ a[i] = q[i] /\ ((j \in DOMAIN q /\ a[j] = q[j]) \/ a[j] = f)
  BY <1>1, <1>2
<1>4. \A i \in DOMAIN q : q[i] \in ToSet(q)
  BY DEF ToSet
<1>5. Order(a, t, ps)
  <2> SUFFICES ASSUME NEW i \in DOMAIN a, NEW j \in DOMAIN a, i < j, Tells(a[i], t, ps), Tells(a[j], t, ps)
               PROVE  a[j].kind # "ack" /\ a[i].kind # "gap"
    BY DEF Order
  <2>1. i \in DOMAIN q /\ a[i] = q[i] /\ q[i] \in ToSet(q)
    BY <1>3, <1>4
  <2>2. a[i].kind # "gap"
    BY <2>1 DEF NoGap, Tells
  <2>3. CASE j \in DOMAIN q /\ a[j] = q[j]
    BY <2>1, <2>3 DEF Order
  <2>4. CASE a[j] = f
    BY <2>1, <2>2, <2>4 DEF Silent
  <2> QED
    BY <1>3, <2>3, <2>4
<1>6. ToSet(a) = ToSet(q) \cup {f}
  BY ToSetFacts
<1> QED
  BY <1>5, <1>6 DEF NoAck, NoGap

\* What is first of all that is told of t.
LEMMA HeadFacts ==
  ASSUME NEW q \in Seq(Answers), q # <<>>, NEW t, NEW ps, Order(q, t, ps), Tells(Head(q), t, ps)
  PROVE  NoAck(Tail(q), t) /\ (Head(q).kind = "gap" => Silent(Tail(q), t, ps))
<1>1. /\ Len(q) \in Nat /\ DOMAIN q = 1..Len(q) /\ Len(q) >= 1 /\ Head(q) = q[1]
      /\ DOMAIN Tail(q) = 1..Len(q) - 1 /\ \A i \in 1..Len(q) - 1 : Tail(q)[i] = q[i + 1]
  BY Places
<1>2. 1 \in DOMAIN q /\ \A i \in 1..Len(q) - 1 : i + 1 \in DOMAIN q /\ 1 < i + 1
  BY <1>1
<1>3. \A f \in ToSet(Tail(q)) : \E j \in DOMAIN q : 1 < j /\ f = q[j]
  BY <1>1, <1>2 DEF ToSet
<1>4. \A f \in ToSet(Tail(q)) : Tells(f, t, ps) => f.kind # "ack" /\ Head(q).kind # "gap"
  <2> SUFFICES ASSUME NEW j \in DOMAIN q, 1 < j, Tells(q[j], t, ps) PROVE q[j].kind # "ack" /\ q[1].kind # "gap"
    BY <1>1, <1>3
  <2> QED
    BY <1>1, <1>2 DEF Order
<1> QED
  BY <1>4 DEF NoAck, Silent, Tells

\* A topic that the client does not ask for, or has been told to ask for again, and one
\* whose request is on its way.
Unasked(t) == t \notin intent \/ t \in told
Asking(t)  == SubFrame(t) \in ToSet(outbox) \/ SubFrame(t) \in ToSet(inbox[sock])

\* There is one request at a time ...
Single2(t, p, q) ==
  Single(p, t) /\ Single(q, t) /\ (SubFrame(t) \notin ToSet(p) \/ SubFrame(t) \notin ToSet(q))
Once(t) == (Unasked(t) => ~ Asking(t)) /\ Single2(t, outbox, inbox[sock])

\* ... and none while there is a subscription, whose answers are in turn.
Quiet(t) == refOf[t] = 0 /\ Silent(out[sock], t, pumps[sock]) /\ Dark(pumps[sock], t)
InTurn(t) ==
  /\ Unasked(t) \/ Asking(t) => Quiet(t)
  /\ Order(out[sock], t, pumps[sock])
  /\ refOf[t] # 0 => NoAck(out[sock], t)
  /\ NoGap(out[sock], t) \/ Dark(pumps[sock], t)

Talks == \A t \in Topics : Once(t) /\ InTurn(t)

\* A flush passes requests on, and makes none.
LEMMA FlushOnce ==
  ASSUME NEW q \in Seq(Items), NEW box \in Seq(Frames), NEW refs \in [Topics -> Refs \cup {0}],
         NEW t \in Topics, Single2(t, q, box)
  PROVE  /\ Single2(t, Stays(q, refs), box \o Sent(q, refs)) /\ box \o Sent(q, refs) \in Seq(Frames)
         /\ SubFrame(t) \notin ToSet(Stays(q, refs))
         /\ SubFrame(t) \in ToSet(box \o Sent(q, refs)) => SubFrame(t) \in ToSet(q) \/ SubFrame(t) \in ToSet(box)
<1> SUFFICES ASSUME NEW x, x = SubFrame(t), NEW a, a = Sent(q, refs), NEW b, b = Stays(q, refs)
             PROVE  /\ Single2(t, b, box \o a) /\ box \o a \in Seq(Frames) /\ x \notin ToSet(b)
                    /\ x \in ToSet(box \o a) => x \in ToSet(q) \/ x \in ToSet(box)
  OBVIOUS
<1>1. a \in Seq(Frames) /\ x.kind = "subscribe"
  BY FlushFacts, ItemFacts
<1>2. x \notin ToSet(b)
  BY <1>1, FlushFacts DEF ToSet
<1>3. x \in ToSet(a) => x \in ToSet(q)
  <2> SUFFICES ASSUME NEW k \in DOMAIN a, a[k] = x PROVE x \in ToSet(q)
    BY DEF ToSet
  <2>1. IF a[k].kind = "data" THEN a[k].ref = refs[a[k].topic] /\ a[k].ref # 0 ELSE \E i \in DOMAIN q : q[i] = a[k]
    BY FlushFacts
  <2> QED
    BY <1>1, <2>1 DEF ToSet
<1>4. Single(a, t)
  <2>1. (\A i, j \in DOMAIN q : q[i] = SubFrame(t) /\ q[j] = SubFrame(t) => i = j)
        => \A k, l \in DOMAIN Sent(q, refs) :
             Sent(q, refs)[k] = SubFrame(t) /\ Sent(q, refs)[l] = SubFrame(t) => k = l
    BY FlushFacts, Zenon
  <2> QED
    BY <2>1 DEF Single, Single2
<1>5. Single(b, t)
  BY <1>2 DEF ToSet, Single
<1>6. Single(box \o a, t)
  BY <1>1, <1>3, <1>4, SingleFacts DEF Single2
<1>7. box \o a \in Seq(Frames) /\ ToSet(box \o a) = ToSet(box) \cup ToSet(a)
  BY <1>1, ToSetFacts
<1> QED
  BY <1>2, <1>3, <1>5, <1>6, <1>7 DEF Single2

LEMMA FlushAsks ==
  ASSUME TypeOK, NEW q \in Seq(Items), NEW t \in Topics, Single2(t, q, inbox[sock]),
         Flush(q, refOf), sock' = sock
  PROVE  /\ Single2(t, outbox', inbox'[sock'])
         /\ Asking(t)' => SubFrame(t) \in ToSet(q) \/ SubFrame(t) \in ToSet(inbox[sock])
<1>1. inbox[sock] \in Seq(Frames) /\ refOf \in [Topics -> Refs \cup {0}] /\ sock \in Sockets
  BY DEF TypeOK
<1>2. CASE conn' = "open"
  <2>1. outbox' = Stays(q, refOf) /\ inbox'[sock] = inbox[sock] \o Sent(q, refOf)
    <3>1. inbox'[sock] = inbox[sock] \o Sent(q, refOf)
      BY <1>1, <1>2, FlushInbox
    <3> QED
      BY <1>2, <3>1 DEF Flush
  <2>2. /\ Single2(t, Stays(q, refOf), inbox[sock] \o Sent(q, refOf))
        /\ SubFrame(t) \notin ToSet(Stays(q, refOf))
        /\ SubFrame(t) \in ToSet(inbox[sock] \o Sent(q, refOf))
           => SubFrame(t) \in ToSet(q) \/ SubFrame(t) \in ToSet(inbox[sock])
    BY <1>1, FlushOnce
  <2>3. Single2(t, outbox', inbox'[sock])
    BY <2>1, <2>2
  <2>4. Asking(t)' <=> SubFrame(t) \in ToSet(outbox') \/ SubFrame(t) \in ToSet(inbox'[sock])
    BY DEF Asking
  <2> QED
    BY <2>1, <2>2, <2>3, <2>4
<1>3. CASE conn' # "open"
  BY <1>3 DEF Flush, Asking
<1> QED
  BY <1>2, <1>3

\* Requests that leave.
LEMMA OnceKept ==
  ASSUME Base, NEW t \in Topics, Once(t), sock' = sock, Unasked(t)' => Unasked(t), outbox' = outbox,
         inbox'[sock] \in {inbox[sock], <<>>} \/ (inbox[sock] # <<>> /\ inbox'[sock] = Tail(inbox[sock]))
  PROVE  Once(t)' /\ (Asking(t)' => Asking(t))
<1>1. inbox[sock] \in Seq(Frames)
  BY DEF Base, TypeOK
<1>2. ToSet(<<>>) = {} /\ Single(<<>>, t)
  BY DEF ToSet, Single
<1>3. ToSet(inbox'[sock]) \subseteq ToSet(inbox[sock]) /\ Single(inbox'[sock], t)
  BY <1>1, <1>2, ToSetFacts, SingleFacts DEF Once, Single2
<1> QED
  BY <1>3 DEF Once, Single2, Asking

\* What the client is told stays in turn when nothing more is said of t.
LEMMA InTurnKept ==
  ASSUME Base, Base', Grows, Routes, NEW t \in Topics, InTurn(t), sock' = sock,
         Unasked(t)' => Unasked(t), Asking(t)' => Asking(t),
         \/ out'[sock] \in {out[sock], <<>>}
         \/ out[sock] # <<>> /\ out'[sock] = Tail(out[sock])
         \/ \E f \in Answers : out'[sock] = Append(out[sock], f) /\ ~ Tells(f, t, pumps'[sock]),
         \A r \in Refs : pumps'[sock][r].topic = t =>
           pumps[sock][r].topic = t /\ (pumps[sock][r].pc = "dead" => pumps'[sock][r].pc = "dead"),
         refOf'[t] \in {0, refOf[t]}
  PROVE  InTurn(t)'
<1>1. out[sock] \in Seq(Answers) /\ sock \in Sockets
  BY DEF Base, TypeOK
<1>2. \A f \in ToSet(out[sock]) : f.kind = "entry" => pumps'[sock][f.ref].topic = pumps[sock][f.ref].topic
  <2> SUFFICES ASSUME NEW f \in ToSet(out[sock]), f.kind = "entry"
               PROVE  pumps'[sock][f.ref].topic = pumps[sock][f.ref].topic
    OBVIOUS
  <2>1. f \in Answers /\ AnswerOk(f, nextRef[sock], pumps[sock], replied[sock])
    BY <1>1, ToSetFacts DEF Routes, AnswersOk
  <2>2. f.ref \in Refs /\ f.ref < nextRef[sock]
    BY <2>1, AnswerFacts DEF AnswerOk
  <2> QED
    BY <1>1, <2>2 DEF Grows
<1>3. /\ Order(out[sock], t, pumps[sock]) => Order(out'[sock], t, pumps'[sock])
      /\ Silent(out[sock], t, pumps[sock]) => Silent(out'[sock], t, pumps'[sock])
      /\ NoAck(out[sock], t) => NoAck(out'[sock], t)
      /\ NoGap(out[sock], t) => NoGap(out'[sock], t)
  BY <1>1, <1>2, OrderFacts
<1>4. Dark(pumps[sock], t) => Dark(pumps'[sock], t)
  BY DEF Dark
<1>5. InTurn(t)' <=> /\ (Unasked(t) \/ Asking(t))' => refOf'[t] = 0 /\ Silent(out'[sock], t, pumps'[sock]) /\ Dark(pumps'[sock], t)
                     /\ Order(out'[sock], t, pumps'[sock])
                     /\ refOf'[t] # 0 => NoAck(out'[sock], t)
                     /\ NoGap(out'[sock], t) \/ Dark(pumps'[sock], t)
  BY DEF InTurn, Quiet
<1> QED
  BY <1>3, <1>4, <1>5 DEF InTurn, Quiet

LEMMA FrameNames ==
  /\ \A t, x : SubFrame(t) = SubFrame(x) => t = x
  /\ \A t, x, r, w : SubFrame(x) # DataFrame(t, r, w)
<1>1. \A t : SubFrame(t).topic = t /\ SubFrame(t).kind = "subscribe"
  BY DEF SubFrame
<1>2. \A t, r, w : DataFrame(t, r, w).kind = "data"
  BY DEF DataFrame
<1> QED
  BY <1>1, <1>2

LEMMA TalksBySubscribe ==
  ASSUME Base, Base', Grows, Routes, Talks, NEW t \in Topics, Subscribe(t)
  PROVE  Talks'
<1> SUFFICES ASSUME NEW q, q = Append(outbox, SubFrame(t)), NEW x \in Topics PROVE Once(x)' /\ InTurn(x)'
  BY DEF Talks
<1>1. outbox \in Seq(Items) /\ inbox \in [Sockets -> Seq(Frames)] /\ TypeOK /\ refOf \in [Topics -> Refs \cup {0}]
  BY DEF Base, TypeOK
<1>2. /\ Unasked(t) /\ intent' = intent \cup {t} /\ told' = told \ {t} /\ Flush(q, refOf)
      /\ UNCHANGED <<sock, refOf, out, pumps>>
  BY DEF Subscribe, Unasked
<1>3. Once(x) /\ InTurn(x) /\ Once(t) /\ InTurn(t)
  BY DEF Talks
<1>4. q \in Seq(Items) /\ ToSet(q) = ToSet(outbox) \cup {SubFrame(t)}
  BY <1>1, ItemFacts, ToSetFacts
<1>5. Single(outbox, x) /\ Single(inbox[sock], x)
  BY <1>3 DEF Once, Single2
<1>6. CASE x # t
  <2>1. SubFrame(x) # SubFrame(t)
    BY <1>6, FrameNames
  <2>2. Single2(x, q, inbox[sock])
    <3>1. Single(q, x)
      BY <1>1, <1>5, <2>1, ItemFacts, SingleFacts
    <3> QED
      BY <1>3, <1>4, <2>1, <3>1 DEF Once, Single2
  <2>3. Single2(x, outbox', inbox'[sock]) /\ (Asking(x)' => Asking(x))
    BY <1>1, <1>2, <1>4, <2>1, <2>2, FlushAsks DEF Asking
  <2>4. Unasked(x)' => Unasked(x)
    BY <1>2, <1>6 DEF Unasked
  <2>5. Once(x)'
    BY <1>2, <1>3, <2>3, <2>4 DEF Once
  <2>6. InTurn(x)'
    BY <1>2, <1>3, <2>3, <2>4, InTurnKept
  <2> QED
    BY <2>5, <2>6
<1>7. CASE x = t
  <2>1. ~ Asking(t) /\ Quiet(t)
    BY <1>2, <1>3 DEF Once, InTurn
  <2>2. Single2(t, q, inbox[sock])
    <3>1. Single(q, t)
      BY <1>1, <1>5, <1>7, <2>1, ItemFacts, SingleFacts DEF Asking
    <3> QED
      BY <1>3, <2>1, <3>1 DEF Once, Single2, Asking
  <2>3. Single2(t, outbox', inbox'[sock])
    BY <1>1, <1>2, <1>4, <2>2, FlushAsks
  <2>4. ~ Unasked(t)'
    BY <1>2 DEF Unasked
  <2>5. Once(t)'
    BY <1>2, <2>3, <2>4 DEF Once
  <2>6. InTurn(t)'
    BY <1>2, <1>3, <2>1 DEF InTurn, Quiet
  <2> QED
    BY <1>7, <2>5, <2>6
<1> QED
  BY <1>6, <1>7

LEMMA TalksByFlush ==
  ASSUME Base, Base', Grows, Routes, Talks, NEW q \in Seq(Items), Flush(q, refOf),
         UNCHANGED <<sock, refOf, intent, told, out, pumps>>,
         \A x \in Topics : (Single(outbox, x) => Single(q, x)) /\ (SubFrame(x) \in ToSet(q) => SubFrame(x) \in ToSet(outbox))
  PROVE  Talks'
<1> SUFFICES ASSUME NEW x \in Topics PROVE Once(x)' /\ InTurn(x)'
  BY DEF Talks
<1>1. TypeOK /\ Once(x) /\ InTurn(x)
  BY DEF Base, Talks
<1>2. Single2(x, q, inbox[sock])
  BY <1>1 DEF Once, Single2
<1>3. Single2(x, outbox', inbox'[sock]) /\ (Asking(x)' => Asking(x))
  BY <1>1, <1>2, FlushAsks DEF Asking
<1>4. Unasked(x)' => Unasked(x)
  BY DEF Unasked
<1>5. Once(x)'
  BY <1>1, <1>3, <1>4 DEF Once
<1>6. InTurn(x)'
  BY <1>1, <1>3, <1>4, InTurnKept
<1> QED
  BY <1>5, <1>6

\* What is in a session that has not started.
LEMMA Blank ==
  ASSUME Base, Pristine, NEW s \in Sockets, up[s] = "none"
  PROVE  /\ inbox[s] = <<>> /\ out[s] = <<>> /\ nextRef[s] = 1
         /\ \A r \in Refs : pumps[s][r] = NoPump
<1>1. inbox[s] = <<>> /\ out[s] = <<>> /\ nextRef[s] = 1
  BY DEF Pristine
<1>2. ASSUME NEW r \in Refs PROVE pumps[s][r] = NoPump
  <2>1. PumpOk(pumps[s][r], r, nextRef[s], byName[s], replied[s]) /\ r >= 1
    BY Bounds DEF Base, Pumped
  <2> QED
    BY <1>1, <2>1 DEF PumpOk
<1> QED
  BY <1>1, <1>2

LEMMA TalksByReconnect ==
  ASSUME Base, Base', Pristine, Reconnect
  PROVE  Talks'
<1> SUFFICES ASSUME NEW x \in Topics PROVE Once(x)' /\ InTurn(x)'
  BY DEF Talks
<1>1. outbox \in Seq(Items) /\ intent \subseteq Topics /\ sock \in Sockets /\ sock \in Nat
  <2>1. outbox \in Seq(Items) /\ intent \subseteq Topics /\ sock \in Sockets
    BY DEF Base, TypeOK
  <2> QED
    BY <2>1, Bounds
<1>2. /\ sock' = sock + 1 /\ sock' \in Sockets /\ refOf'[x] = 0 /\ told' = {} /\ intent' = intent
      /\ UNCHANGED <<up, inbox, out, pumps>>
  BY <1>1, Bounds DEF Reconnect, sessions
<1>3. inbox'[sock'] = <<>> /\ out'[sock'] = <<>> /\ \A r \in Refs : pumps'[sock'][r] = NoPump
  <2>1. up[sock'] = "none"
    BY <1>1, <1>2 DEF Pristine
  <2> QED
    BY <1>2, <2>1, Blank
<1>4. PICK subs \in SetToSeqs(intent) :
        outbox' = [i \in DOMAIN subs |-> SubFrame(subs[i])]
                  \o Picked(outbox, {i \in DOMAIN outbox : outbox[i].kind = "data"})
  BY DEF Reconnect
<1> SUFFICES ASSUME NEW at, at = {i \in DOMAIN outbox : outbox[i].kind = "data"},
                    NEW a, a = [i \in DOMAIN subs |-> SubFrame(subs[i])],
                    NEW b, b = Picked(outbox, at)
             PROVE  Once(x)' /\ InTurn(x)'
  OBVIOUS
<1>5. /\ subs \in [1..Cardinality(intent) -> intent] /\ Cardinality(intent) \in Nat
      /\ \A i, j \in 1..Cardinality(intent) : i # j => subs[i] # subs[j]
  <2>1. IsFiniteSet(intent)
    BY <1>1, GatewayAssumption, FS_Subset
  <2> QED
    BY <2>1, FS_CardinalityType DEF SetToSeqs
<1>6. a \in Seq(Items) /\ DOMAIN a = 1..Cardinality(intent) /\ \A i \in DOMAIN a : subs[i] \in intent /\ a[i] = SubFrame(subs[i])
  <2>1. a \in [1..Cardinality(intent) -> Items]
    BY <1>1, <1>5, ItemFacts
  <2>2. a \in Seq(Items)
    BY <1>5, <2>1, SeqDef
  <2> QED
    BY <1>5, <2>2
<1>7. b \in Seq(Items) /\ \A f \in ToSet(b) : f.kind = "data"
  <2>1. at \in SUBSET (DOMAIN outbox)
    OBVIOUS
  <2>2. b \in Seq(Items) /\ \A k \in DOMAIN b : Nth(at, k) \in at /\ b[k] = outbox[Nth(at, k)]
    BY <1>1, <2>1, PickedFacts
  <2> QED
    BY <2>2 DEF ToSet
<1>8. SubFrame(x) \notin ToSet(b) /\ Single(b, x)
  <2>1. SubFrame(x) \notin ToSet(b)
    BY <1>7, ItemFacts
  <2> QED
    BY <2>1 DEF ToSet, Single
<1>9. Single(a, x) /\ (SubFrame(x) \in ToSet(a) => x \in intent)
  <2>1. \A i \in DOMAIN a : a[i] = SubFrame(x) => subs[i] = x
    BY <1>6, FrameNames
  <2> QED
    BY <1>5, <1>6, <2>1 DEF Single, ToSet
<1>10. outbox' = a \o b
  BY <1>4
<1>11. Single(a \o b, x) /\ (SubFrame(x) \in ToSet(a \o b) => x \in intent)
  BY <1>6, <1>7, <1>8, <1>9, SingleFacts, ToSetFacts
<1>12. ToSet(<<>>) = {} /\ Single(<<>>, x)
  BY DEF ToSet, Single
<1>13. Once(x)'
  BY <1>2, <1>3, <1>10, <1>11, <1>12 DEF Once, Single2, Asking, Unasked
<1>14. InTurn(x)'
  <2>1. Order(<<>>, x, pumps'[sock'])
    BY DEF Order
  <2>2. Dark(pumps'[sock'], x)
    BY <1>3 DEF Dark, NoPump
  <2>3. Silent(<<>>, x, pumps'[sock'])
    BY <1>12 DEF Silent
  <2> QED
    BY <1>2, <1>3, <2>1, <2>2, <2>3 DEF InTurn, Quiet
<1> QED
  BY <1>13, <1>14

LEMMA TalksByReceive ==
  ASSUME Base, Base', Grows, Routes, Talks, ClientReceive
  PROVE  Talks'
<1> SUFFICES ASSUME NEW f, f = Head(out[sock]), NEW x \in Topics PROVE Once(x)' /\ InTurn(x)'
  BY DEF Talks
<1>1. /\ TypeOK /\ refOf \in [Topics -> Refs \cup {0}] /\ sock \in Sockets /\ inbox[sock] \in Seq(Frames)
      /\ inbox \in [Sockets -> Seq(Frames)]
      /\ out[sock] \in Seq(Answers) /\ outbox \in Seq(Items) /\ out \in [Sockets -> Seq(Answers)]
  BY DEF Base, TypeOK
<1>2. /\ UNCHANGED <<sock, intent, pumps>> /\ out[sock] # <<>> /\ out'[sock] = Tail(out[sock])
      /\ f \in Answers /\ Once(x) /\ InTurn(x)
  <2>1. UNCHANGED <<sock, intent, pumps>> /\ out[sock] # <<>>
    BY DEF ClientReceive
  <2>2. out'[sock] = Tail(out[sock])
    BY <1>1 DEF ClientReceive, Take
  <2>3. f \in Answers
    BY <1>1, <2>1, ToSetFacts
  <2> QED
    BY <2>1, <2>2, <2>3 DEF Talks
<1>3. ASSUME Unasked(x)' => Unasked(x), Asking(x)' => Asking(x), refOf'[x] \in {0, refOf[x]} PROVE InTurn(x)'
  BY <1>2, <1>3, InTurnKept
<1>4. CASE f.kind = "ack" /\ OnAck(f.topic, f.ref)
  <2> SUFFICES ASSUME NEW t, t = f.topic, NEW r, r = f.ref, NEW refs, refs = [refOf EXCEPT ![t] = r],
                      NEW hello, hello = IF t \in Gated THEN <<DataFrame(t, r, "hello")>> ELSE <<>>,
                      NEW c, c = inbox[sock] \o Sent(outbox, refs)
               PROVE  Once(x)' /\ InTurn(x)'
    OBVIOUS
  <2>1. t \in Topics /\ r \in Refs /\ refs \in [Topics -> Refs \cup {0}]
    BY <1>1, <1>2, <1>4, AnswerFacts
  <2>2. refOf' = refs /\ outbox' = Stays(outbox, refs) /\ inbox'[sock] = c \o hello /\ told' = told
    <3>1. refOf' = refs /\ outbox' = Stays(outbox, refs) /\ told' = told
          /\ inbox' = [inbox EXCEPT ![sock] = @ \o Sent(outbox, refs) \o hello]
      BY <1>4 DEF OnAck
    <3> QED
      BY <1>1, <3>1
  <2>3. /\ Single2(x, outbox', c) /\ c \in Seq(Frames) /\ SubFrame(x) \notin ToSet(outbox')
        /\ SubFrame(x) \in ToSet(c) => Asking(x)
    BY <1>1, <1>2, <2>1, <2>2, FlushOnce DEF Once, Asking
  <2>4. hello \in Seq(Frames) /\ SubFrame(x) \notin ToSet(hello) /\ Single(hello, x)
    <3>1. SubFrame(x) \notin ToSet(hello)
      BY FrameNames DEF ToSet
    <3>2. hello \in Seq(Frames)
      BY <2>1, ItemFacts
    <3> QED
      BY <3>1, <3>2 DEF ToSet, Single
  <2>5. Single(c \o hello, x) /\ (SubFrame(x) \in ToSet(c \o hello) => Asking(x))
    <3>1. \A a, p \in Seq(Frames) : ToSet(a \o p) = ToSet(a) \cup ToSet(p)
      BY ToSetFacts
    <3>2. c \in Seq(Frames) /\ Single(c, x)
      BY <2>3 DEF Single2
    <3>3. \A a, p \in Seq(Frames) : Single(a, x) /\ Single(p, x) /\ SubFrame(x) \notin ToSet(p) => Single(a \o p, x)
      BY SingleFacts
    <3>4. ToSet(c \o hello) = ToSet(c) \cup ToSet(hello)
      <4>1. \A a \in Seq(Frames) : ToSet(a \o hello) = ToSet(a) \cup ToSet(hello)
        BY <2>4, <3>1
      <4> QED
        BY <3>2, <4>1
    <3>5. Single(c \o hello, x)
      BY <2>4, <3>2, <3>3
    <3> QED
      BY <2>3, <2>4, <3>4, <3>5
  <2>6. Single2(x, outbox', inbox'[sock]) /\ (Asking(x)' => Asking(x))
    BY <1>2, <2>2, <2>3, <2>5 DEF Single2, Asking
  <2>7. Unasked(x)' => Unasked(x)
    BY <1>2, <2>2 DEF Unasked
  <2>8. Once(x)'
    BY <1>2, <2>6, <2>7 DEF Once
  <2>9. CASE x # t
    <3>1. refOf'[x] = refOf[x]
      BY <1>1, <2>2, <2>9
    <3> QED
      BY <1>3, <2>6, <2>7, <2>8, <3>1
  <2>10. CASE x = t
    <3>1. Tells(f, x, pumps[sock]) /\ f \in ToSet(out[sock])
      BY <1>1, <1>2, <1>4, <2>10, ToSetFacts DEF Tells
    <3>2. ~ Unasked(x) /\ ~ Asking(x)
      BY <1>2, <3>1 DEF InTurn, Quiet, Silent
    <3>3. NoAck(out'[sock], x)
      BY <1>1, <1>2, <3>1, HeadFacts DEF InTurn
    <3>4. Order(out'[sock], x, pumps[sock]) /\ (NoGap(out[sock], x) => NoGap(out'[sock], x))
      BY <1>1, <1>2, OrderFacts DEF InTurn
    <3> QED
      BY <1>2, <2>6, <2>7, <2>8, <3>2, <3>3, <3>4 DEF InTurn
  <2> QED
    BY <2>9, <2>10
<1>5. CASE f.kind = "gap" /\ OnGap(f.topic)
  <2> SUFFICES ASSUME NEW t, t = f.topic PROVE Once(x)' /\ InTurn(x)'
    OBVIOUS
  <2>1. /\ t \in Topics /\ refOf' = [refOf EXCEPT ![t] = 0] /\ told' = told \cup {t}
        /\ UNCHANGED <<outbox, inbox>>
    BY <1>2, <1>5, AnswerFacts DEF OnGap
  <2>2. CASE x # t
    <3>1. refOf'[x] = refOf[x] /\ (Unasked(x)' => Unasked(x))
      BY <1>1, <1>2, <2>1, <2>2 DEF Unasked
    <3>2. Once(x)' /\ (Asking(x)' => Asking(x))
      BY <1>2, <2>1, <3>1, OnceKept
    <3> QED
      BY <1>3, <3>1, <3>2
  <2>3. CASE x = t
    <3>1. Tells(f, x, pumps[sock]) /\ f \in ToSet(out[sock])
      BY <1>1, <1>2, <1>5, <2>3, ToSetFacts DEF Tells
    <3>2. ~ Asking(x)
      BY <1>2, <3>1 DEF InTurn, Quiet, Silent
    <3>3. Once(x)' /\ ~ Asking(x)'
      BY <1>2, <2>1, <3>2 DEF Once, Asking
    <3>4. Silent(out'[sock], x, pumps[sock]) /\ Dark(pumps[sock], x)
      BY <1>1, <1>2, <1>5, <2>3, <3>1, HeadFacts DEF InTurn, NoGap
    <3>5. refOf'[x] = 0
      BY <1>1, <2>1, <2>3
    <3>6. Order(out'[sock], x, pumps[sock])
      BY <1>1, <1>2, OrderFacts DEF InTurn
    <3> QED
      BY <1>2, <3>3, <3>4, <3>5, <3>6 DEF InTurn, Quiet
  <2> QED
    BY <2>2, <2>3
<1>6. CASE UNCHANGED <<refOf, told, outbox, inbox>>
  <2>1. Unasked(x)' => Unasked(x)
    BY <1>2, <1>6 DEF Unasked
  <2>2. Once(x)' /\ (Asking(x)' => Asking(x))
    BY <1>2, <1>6, <2>1, OnceKept
  <2> QED
    BY <1>3, <1>6, <2>1, <2>2
<1> QED
  BY <1>4, <1>5, <1>6 DEF ClientReceive, OnEntry

\* A frame with data lets the pumps go on where they are.
LEMMA DataPumps ==
  ASSUME TypeOK, NEW s \in Sockets, NEW f \in Frames, f.kind = "data", HandleData(s, f),
         NEW u \in Sockets, NEW q \in Refs, NEW p, p = pumps[u][q], NEW w, w = pumps'[u][q]
  PROVE  w.pc = p.pc /\ w.topic = p.topic /\ w.next = p.next /\ w.held = p.held /\ w.edge = p.edge
<1>1. p \in Pumps /\ f.ref \in Refs /\ pumps \in [Sockets -> [Refs -> Pumps]]
  <2>1. pumps \in [Sockets -> [Refs -> Pumps]]
    BY DEF TypeOK
  <2> QED
    BY <2>1, ItemFacts
<1>2. w = p \/ w = [p EXCEPT !.gate = TRUE, !.woken = TRUE]
  <2>1. CASE pumps' = pumps
    BY <2>1
  <2>2. CASE pumps' = [pumps EXCEPT ![s][f.ref] = [@ EXCEPT !.gate = TRUE, !.woken = TRUE]]
    <3> SUFFICES ASSUME NEW z, z = [pumps[s][f.ref] EXCEPT !.gate = TRUE, !.woken = TRUE],
                        pumps' = [pumps EXCEPT ![s][f.ref] = z]
                 PROVE  w = p \/ (u = s /\ q = f.ref /\ w = z)
      BY <2>2
    <3> QED
      BY <1>1
  <2> QED
    BY <2>1, <2>2 DEF HandleData, Hello
<1>3. CASE w = [p EXCEPT !.gate = TRUE, !.woken = TRUE]
  BY <1>1, <1>3, StepFacts
<1> QED
  BY <1>2, <1>3

\* The entries of a queue stay about their topic.
LEMMA EntryStable ==
  ASSUME Base, Grows, Routes, NEW s \in Sockets, NEW f \in ToSet(out[s]), f.kind = "entry"
  PROVE  pumps'[s][f.ref].topic = pumps[s][f.ref].topic
<1>1. out[s] \in Seq(Answers)
  BY DEF Base, TypeOK
<1>2. f \in Answers /\ AnswerOk(f, nextRef[s], pumps[s], replied[s])
  BY <1>1, ToSetFacts DEF Routes, AnswersOk
<1>3. f.ref \in Refs /\ f.ref < nextRef[s]
  BY <1>2, AnswerFacts DEF AnswerOk
<1> QED
  BY <1>3 DEF Grows

\* A subscription that is opened, in the tables of its session.
LEMMA OpenedFacts ==
  ASSUME Base, NEW s \in Sockets, NEW t \in Topics, OpenTopic(s, t), NEW u \in Sockets, NEW q \in Refs
  PROVE  \/ u = s /\ q = nextRef[s] /\ pumps'[u][q] = NewPump(t) /\ pumps'[u][q].topic = t
         \/ ~ (u = s /\ q = nextRef[s]) /\ pumps'[u][q] \in {pumps[u][q], Dead(pumps[u][q])}
            /\ pumps'[u][q].topic = pumps[u][q].topic
            /\ (pumps[u][q].pc = "dead" => pumps'[u][q].pc = "dead")
<1>1. TypeOK /\ pumps[u][q] \in Pumps
  BY TableFacts DEF Base
<1>2. pumps'[u][q] = IF u = s THEN OpenedPump(s, t, q) ELSE pumps[u][q]
  BY <1>1, OpenTopicTables
<1>3. CASE u = s /\ q = nextRef[s]
  BY <1>1, <1>2, <1>3, NewPumpFacts DEF OpenedPump
<1>4. CASE ~ (u = s /\ q = nextRef[s])
  <2>1. pumps'[u][q] = pumps[u][q] \/ pumps'[u][q] = Dead(pumps[u][q])
    BY <1>2, <1>4 DEF OpenedPump
  <2>2. Dead(pumps[u][q]).topic = pumps[u][q].topic /\ Dead(pumps[u][q]).pc = "dead"
    BY <1>1, PumpFacts
  <2> QED
    BY <1>4, <2>1, <2>2
<1> QED
  BY <1>3, <1>4

LEMMA TalksBySession ==
  ASSUME Base, Base', Grows, Routes, Talks, NEW s \in Sockets, SessionReceive(s)
  PROVE  Talks'
<1> SUFFICES ASSUME NEW f, f = Head(inbox[s]), NEW x \in Topics PROVE Once(x)' /\ InTurn(x)'
  BY DEF Talks
<1>1. /\ TypeOK /\ sock \in Sockets /\ inbox[sock] \in Seq(Frames) /\ out[sock] \in Seq(Answers)
  BY DEF Base, TypeOK
<1>2. /\ UNCHANGED <<sock, intent, told, outbox, refOf>> /\ f \in Frames /\ inbox[s] # <<>>
      /\ \A u \in Sockets : inbox'[u] = IF u = s THEN Tail(inbox[s]) ELSE inbox[u]
  BY ReceiveTables DEF client
<1>3. Once(x) /\ InTurn(x) /\ (Unasked(x)' => Unasked(x))
  BY <1>2 DEF Talks, Unasked
<1>4. Once(x)' /\ (Asking(x)' => Asking(x))
  BY <1>1, <1>2, <1>3, OnceKept
<1>5. ASSUME NEW g \in Answers, TrySend(s, g), s = sock => ~ Tells(g, x, pumps'[sock]),
             \A r \in Refs : pumps'[sock][r].topic = x =>
               pumps[sock][r].topic = x /\ (pumps[sock][r].pc = "dead" => pumps'[sock][r].pc = "dead")
      PROVE  InTurn(x)'
  <2>1. out'[sock] = out[sock] \/ (s = sock /\ out'[sock] = Append(out[sock], g))
    BY <1>1, <1>5, TrySendOut
  <2> QED
    BY <1>2, <1>3, <1>4, <1>5, <2>1, InTurnKept
<1>6. CASE f.kind = "subscribe" /\ OpenTopic(s, f.topic)
  <2> SUFFICES ASSUME NEW t, t = f.topic, NEW n, n = nextRef[s], NEW g, g = Ack(t, n) PROVE InTurn(x)'
    BY <1>4
  <2>1. t \in Topics /\ n \in Refs /\ f = SubFrame(t)
    BY <1>1, <1>2, <1>6, ItemFacts, OpenTopicTables
  <2>2. g \in Answers /\ g.kind = "ack" /\ g.topic = t /\ TrySend(s, g)
    BY <1>6, <2>1, AnswerFacts DEF OpenTopic
  <2>3. \A r \in Refs : ~ (s = sock /\ r = n) =>
          /\ pumps'[sock][r].topic = pumps[sock][r].topic
          /\ pumps[sock][r].pc = "dead" => pumps'[sock][r].pc = "dead"
    BY <1>1, <1>6, <2>1, OpenedFacts
  <2>4. s = sock => pumps'[sock][n].topic = t
    BY <1>6, <2>1, OpenedFacts
  <2>5. CASE ~ (s = sock /\ x = t)
    <3>1. s = sock => ~ Tells(g, x, pumps'[sock])
      BY <2>2, <2>5 DEF Tells
    <3>2. \A r \in Refs : pumps'[sock][r].topic = x =>
            pumps[sock][r].topic = x /\ (pumps[sock][r].pc = "dead" => pumps'[sock][r].pc = "dead")
      BY <2>3, <2>4, <2>5
    <3> QED
      BY <1>5, <2>2, <3>1, <3>2
  <2>6. CASE s = sock /\ x = t
    <3>1. Asking(x) /\ Quiet(x) /\ ~ Unasked(x)
      <4>1. f \in ToSet(inbox[sock])
        BY <1>1, <1>2, <2>6, ToSetFacts
      <4> QED
        BY <1>3, <2>1, <2>6, <4>1 DEF Asking, InTurn, Once
    <3>2. ~ Asking(x)'
      <4>1. SubFrame(x) \in ToSet(inbox[sock])
        BY <1>1, <1>2, <2>1, <2>6, ToSetFacts
      <4>2. SubFrame(x) \notin ToSet(outbox)
        BY <1>3, <4>1 DEF Once, Single2
      <4>3. SubFrame(x) \notin ToSet(Tail(inbox[sock]))
        BY <1>1, <1>2, <1>3, <2>1, <2>6, SingleFacts DEF Once, Single2
      <4> QED
        BY <1>1, <1>2, <2>6, <4>2, <4>3 DEF Asking
    <3>3. Order(out[sock], x, pumps'[sock]) /\ Silent(out[sock], x, pumps'[sock])
      <4>1. \A h \in ToSet(out[sock]) : h.kind = "entry" => pumps'[sock][h.ref].topic = pumps[sock][h.ref].topic
        BY <1>1, EntryStable
      <4> QED
        BY <1>1, <1>3, <3>1, <4>1, OrderFacts DEF InTurn, Quiet
    <3>4. NoGap(out[sock], x)
      BY <3>3 DEF Silent, NoGap, Tells
    <3>5. out'[sock] = out[sock] \/ out'[sock] = Append(out[sock], g)
      BY <1>1, <2>2, TrySendOut
    <3>6. Order(out'[sock], x, pumps'[sock]) /\ NoGap(out'[sock], x)
      BY <1>1, <2>2, <3>3, <3>4, <3>5, OrderAppend
    <3>7. refOf'[x] = 0
      BY <1>2, <3>1 DEF Quiet
    <3>8. ~ Unasked(x)'
      BY <1>3, <3>1
    <3> QED
      BY <1>2, <3>2, <3>6, <3>7, <3>8 DEF InTurn
  <2> QED
    BY <2>5, <2>6
<1>7. CASE f.kind = "data" /\ HandleData(s, f)
  <2>1. \A r \in Refs : pumps'[sock][r].topic = pumps[sock][r].topic /\ pumps'[sock][r].pc = pumps[sock][r].pc
    BY <1>1, <1>2, <1>7, DataPumps
  <2>2. f.ref \in Refs
    BY <1>2, <1>7, ItemFacts
  <2>3. /\ Reply(f.ref) \in Answers /\ ~ Tells(Reply(f.ref), x, pumps'[sock])
        /\ Error \in Answers /\ ~ Tells(Error, x, pumps'[sock])
    BY <2>2, AnswerFacts DEF Tells
  <2>4. TrySend(s, Reply(f.ref)) \/ TrySend(s, Error) \/ UNCHANGED out
    BY <1>7 DEF HandleData, Hello
  <2>5. CASE UNCHANGED out
    BY <1>2, <1>3, <1>4, <2>1, <2>5, InTurnKept
  <2> QED
    BY <1>4, <1>5, <2>1, <2>3, <2>4, <2>5
<1> QED
  BY <1>6, <1>7 DEF SessionReceive

LEMMA TalksByPump ==
  ASSUME Base, Base', Grows, Routes, Talks, NEW s \in Sockets, NEW r \in Refs, PumpSteps(s, r)
  PROVE  Talks'
<1> SUFFICES ASSUME NEW p, p = pumps[s][r], NEW t, t = p.topic, NEW x \in Topics PROVE Once(x)' /\ InTurn(x)'
  BY DEF Talks
<1>1. /\ TypeOK /\ s = sock /\ inbox[sock] \in Seq(Frames) /\ out[sock] \in Seq(Answers) /\ out \in [Sockets -> Seq(Answers)]
      /\ pumps \in [Sockets -> [Refs -> Pumps]]
  <2>1. s = sock
    BY DEF PumpSteps, Heard
  <2> QED
    BY <2>1 DEF Base, TypeOK
<1>2. UNCHANGED <<client, inbox>>
  BY PumpCases DEF PumpSteps
<1>3. UNCHANGED <<sock, intent, told, outbox, refOf, inbox>>
  BY <1>2 DEF client
<1>4. Once(x) /\ InTurn(x) /\ (Unasked(x)' => Unasked(x))
  BY <1>3 DEF Talks, Unasked
<1>5. Once(x)' /\ (Asking(x)' => Asking(x))
  BY <1>1, <1>3, <1>4, OnceKept
<1>6. p \in Pumps /\ p.pc # "dead" /\ p.held \in Nat
  <2>1. p \in Pumps
    BY <1>1
  <2>2. p.pc # "dead"
    BY PumpCases DEF PumpSteps
  <2> QED
    BY <2>1, <2>2 DEF Pumps
<1>7. PICK w : Step(s, r, w) /\ \/ UNCHANGED out
                                \/ p.pc = "push" /\ out' = [out EXCEPT ![s] = Append(@, Entry(r, p.held))]
                                \/ w = Dead(p) /\ out' = [out EXCEPT ![s] = Append(@, Gap(p.topic))]
  BY PumpCases DEF PumpSteps
<1>8. \A q \in Refs : pumps'[sock][q] = IF q = r THEN w ELSE pumps[sock][q]
  BY <1>1, <1>7 DEF Step
<1>9. r < nextRef[sock] /\ t \in Topics /\ byName[sock][t] = r
  <2>1. PumpOk(p, r, nextRef[sock], byName[sock], replied[sock]) /\ (r < nextRef[sock] \/ r >= nextRef[sock])
    BY <1>1, TableFacts, Bounds DEF Base, Pumped
  <2> QED
    BY <1>6, <2>1 DEF PumpOk, NoPump
<1>10. \A q \in Refs : pumps'[sock][q].topic = pumps[sock][q].topic
  BY <1>1, <1>8, <1>9 DEF Grows
<1>11. \A q \in Refs : pumps'[sock][q].topic = x =>
         pumps[sock][q].topic = x /\ (pumps[sock][q].pc = "dead" => pumps'[sock][q].pc = "dead")
  BY <1>1, <1>6, <1>8, <1>10
<1>12. CASE UNCHANGED out
  BY <1>3, <1>4, <1>5, <1>11, <1>12, InTurnKept
<1>13. ASSUME NEW g \in Answers, out' = [out EXCEPT ![s] = Append(@, g)],
              g.kind \in {"entry", "gap"}, Tells(g, x, pumps'[sock]) <=> x = t,
              g.kind = "gap" => w = Dead(p)
       PROVE  InTurn(x)'
  <2>1. out'[sock] = Append(out[sock], g)
    BY <1>1, <1>13
  <2>2. CASE x # t
    BY <1>3, <1>4, <1>5, <1>11, <1>13, <2>1, <2>2, InTurnKept
  <2>3. CASE x = t
    <3>1. ~ Dark(pumps[sock], x)
      BY <1>1, <1>6, <2>3 DEF Dark
    <3>2. NoGap(out[sock], x) /\ ~ (Unasked(x) \/ Asking(x))
      BY <1>4, <3>1 DEF InTurn, Quiet
    <3>3. Order(out[sock], x, pumps'[sock])
      <4>1. \A h \in ToSet(out[sock]) : h.kind = "entry" => pumps'[sock][h.ref].topic = pumps[sock][h.ref].topic
        BY <1>1, EntryStable
      <4> QED
        BY <1>1, <1>4, <4>1, OrderFacts DEF InTurn
    <3>4. /\ Order(out'[sock], x, pumps'[sock])
          /\ NoAck(out[sock], x) => NoAck(out'[sock], x)
          /\ g.kind # "gap" => NoGap(out'[sock], x)
      BY <1>1, <1>13, <2>1, <3>2, <3>3, OrderAppend
    <3>5. g.kind = "gap" => Dark(pumps'[sock], x)
      <4> SUFFICES ASSUME w = Dead(p), NEW q \in Refs, pumps'[sock][q].topic = x PROVE pumps'[sock][q].pc = "dead"
        BY <1>13 DEF Dark
      <4>1. CASE q = r
        <5>1. Dead(p).pc = "dead"
          BY DEF Dead
        <5> QED
          BY <1>8, <4>1, <5>1
      <4>2. CASE q # r
        <5>1. pumps'[sock][q] = pumps[sock][q]
          BY <1>8, <4>2
        <5>2. PumpOk(pumps[sock][q], q, nextRef[sock], byName[sock], replied[sock])
          BY <1>1 DEF Base, Pumped
        <5>3. pumps[sock][q].topic = t
          BY <2>3, <5>1
        <5>4. pumps[sock][q].pc # "dead" => byName[sock][t] = q
          BY <5>2, <5>3 DEF PumpOk
        <5> QED
          BY <1>9, <4>2, <5>1, <5>4
      <4> QED
        BY <4>1, <4>2
    <3>6. refOf'[x] # 0 => NoAck(out'[sock], x)
      BY <1>3, <1>4, <3>4 DEF InTurn
    <3> QED
      BY <1>3, <1>4, <1>5, <3>2, <3>4, <3>5, <3>6 DEF InTurn
  <2> QED
    BY <2>2, <2>3
<1>14. CASE p.pc = "push" /\ out' = [out EXCEPT ![s] = Append(@, Entry(r, p.held))]
  <2> SUFFICES ASSUME NEW g, g = Entry(r, p.held) PROVE InTurn(x)'
    BY <1>5
  <2>1. g \in Answers /\ g.kind = "entry" /\ g.ref = r
    BY <1>6, AnswerFacts
  <2>2. Tells(g, x, pumps'[sock]) <=> x = t
    BY <1>1, <1>10, <2>1 DEF Tells
  <2> QED
    BY <1>13, <1>14, <2>1, <2>2
<1>15. CASE w = Dead(p) /\ out' = [out EXCEPT ![s] = Append(@, Gap(p.topic))]
  <2> SUFFICES ASSUME NEW g, g = Gap(t) PROVE InTurn(x)'
    BY <1>5
  <2>1. g \in Answers /\ g.kind = "gap" /\ g.topic = t
    BY <1>9, AnswerFacts
  <2>2. Tells(g, x, pumps'[sock]) <=> x = t
    BY <2>1 DEF Tells
  <2> QED
    BY <1>13, <1>15, <2>1, <2>2
<1> QED
  BY <1>5, <1>7, <1>12, <1>14, <1>15

LEMMA TalksStep ==
  ASSUME Base, Base', Grows, Pristine, Routes, Talks, Next
  PROVE  Talks'
<1>1. /\ sock \in Sockets /\ inbox \in [Sockets -> Seq(Frames)] /\ out \in [Sockets -> Seq(Answers)]
      /\ outbox \in Seq(Items) /\ pumps \in [Sockets -> [Refs -> Pumps]] /\ TypeOK
  BY DEF Base, TypeOK
<1>2. ASSUME NEW t \in Topics, SendData(t) PROVE Talks'
  <2>0. \A d \in Items, x \in Topics : d.kind = "data" /\ Single(outbox, x) => Single(QueueData(outbox, d), x)
    <3> SUFFICES ASSUME NEW d \in Items, d.kind = "data", NEW x \in Topics
                 PROVE  Single(outbox, x) => Single(QueueData(outbox, d), x)
      OBVIOUS
    <3>1. (\A i, j \in DOMAIN outbox : outbox[i] = SubFrame(x) /\ outbox[j] = SubFrame(x) => i = j)
          => \A k, l \in DOMAIN QueueData(outbox, d) :
               QueueData(outbox, d)[k] = SubFrame(x) /\ QueueData(outbox, d)[l] = SubFrame(x) => k = l
      BY <1>1, QueueFacts, Zenon
    <3> QED
      BY <3>1 DEF Single
  <2> SUFFICES ASSUME NEW d, d = Data(t, "edit"), NEW q, q = QueueData(outbox, d) PROVE Talks'
    OBVIOUS
  <2>1. d \in Items /\ d.kind = "data"
    BY ItemFacts
  <2>2. q \in Seq(Items)
    BY <1>1, <2>1, QueueFacts
  <2>3. ASSUME NEW x \in Topics
        PROVE  (Single(outbox, x) => Single(q, x)) /\ (SubFrame(x) \in ToSet(q) => SubFrame(x) \in ToSet(outbox))
    <3>1. Single(outbox, x) => Single(q, x)
      BY <2>0, <2>1
    <3>2. \A k \in DOMAIN q : q[k].kind = "subscribe" => \E i \in DOMAIN outbox : outbox[i] = q[k]
      BY <1>1, <2>1, QueueFacts
    <3>3. SubFrame(x).kind = "subscribe"
      BY ItemFacts
    <3> QED
      BY <3>1, <3>2, <3>3 DEF ToSet
  <2>4. Flush(q, refOf) /\ UNCHANGED <<sock, refOf, intent, told, out, pumps>>
    BY <1>2 DEF SendData
  <2> QED
    BY <2>2, <2>3, <2>4, TalksByFlush
<1>3. ASSUME Open PROVE Talks'
  BY <1>1, <1>3, TalksByFlush DEF Open
<1>4. ASSUME UNCHANGED <<sock, intent, told, outbox, refOf>>,
             inbox'[sock] \in {inbox[sock], <<>>}, out'[sock] \in {out[sock], <<>>},
             \A r \in Refs : /\ pumps'[sock][r].topic = pumps[sock][r].topic
                             /\ pumps[sock][r].pc = "dead" => pumps'[sock][r].pc = "dead"
      PROVE  Talks'
  <2> SUFFICES ASSUME NEW x \in Topics PROVE Once(x)' /\ InTurn(x)'
    BY DEF Talks
  <2>1. Once(x) /\ InTurn(x) /\ (Unasked(x)' => Unasked(x))
    BY <1>4 DEF Talks, Unasked
  <2>2. Once(x)' /\ (Asking(x)' => Asking(x))
    BY <1>4, <2>1, OnceKept
  <2> QED
    BY <1>4, <2>1, <2>2, InTurnKept
<1>5. ASSUME SocketDrops PROVE Talks'
  <2>1. UNCHANGED <<sock, intent, told, outbox, refOf, inbox>> /\ out'[sock] = <<>>
    BY <1>1, <1>5 DEF SocketDrops
  <2>2. ASSUME NEW r \in Refs
        PROVE  /\ pumps'[sock][r].topic = pumps[sock][r].topic
               /\ pumps[sock][r].pc = "dead" => pumps'[sock][r].pc = "dead"
    <3> SUFFICES ASSUME NEW d, d = [Dead(pumps[sock][r]) EXCEPT !.edge = 0]
                 PROVE  pumps'[sock][r] = d /\ d.topic = pumps[sock][r].topic /\ d.pc = "dead"
      OBVIOUS
    <3>1. pumps[sock][r] \in Pumps
      BY <1>1
    <3>2. pumps' = [pumps EXCEPT ![sock] = [q \in Refs |-> [Dead(pumps[sock][q]) EXCEPT !.edge = 0]]]
      BY <1>5 DEF SocketDrops
    <3> QED
      BY <1>1, <3>1, <3>2, DeadFacts
  <2> QED
    BY <1>4, <2>1, <2>2
<1>6. ASSUME NEW s \in Sockets, SessionBreaks(s) PROVE Talks'
  BY <1>4, <1>6 DEF SessionBreaks, client
<1>7. ASSUME NEW s \in Sockets, SessionEnds(s) PROVE Talks'
  <2>1. UNCHANGED <<sock, intent, told, outbox, refOf, pumps>>
    BY <1>7 DEF SessionEnds, client
  <2>2. inbox'[sock] \in {inbox[sock], <<>>} /\ out'[sock] \in {out[sock], <<>>}
    BY <1>1, <1>7 DEF SessionEnds
  <2> QED
    BY <1>4, <2>1, <2>2
<1>8. ASSUME NEW s \in Sockets, NEW t \in Topics, Release(s, t) PROVE Talks'
  <2>1. UNCHANGED <<sock, intent, told, outbox, refOf, inbox, out>>
    BY <1>8 DEF Release, client
  <2>2. ASSUME NEW r \in Refs
        PROVE  /\ pumps'[sock][r].topic = pumps[sock][r].topic
               /\ pumps[sock][r].pc = "dead" => pumps'[sock][r].pc = "dead"
    <3> SUFFICES ASSUME NEW z, z = Dead(pumps[s][byName[s][t]])
                 PROVE  /\ pumps'[sock][r].topic = pumps[sock][r].topic
                        /\ pumps[sock][r].pc = "dead" => pumps'[sock][r].pc = "dead"
      OBVIOUS
    <3>1. pumps' = [pumps EXCEPT ![s][byName[s][t]] = z]
      BY <1>8 DEF Release
    <3>2. pumps'[sock][r] = pumps[sock][r] \/ (s = sock /\ byName[s][t] = r /\ pumps'[sock][r] = z)
      BY <1>1, <3>1
    <3> SUFFICES ASSUME NEW p, p = pumps[sock][r], NEW w, w = pumps'[sock][r]
                 PROVE  w.topic = p.topic /\ (p.pc = "dead" => w.pc = "dead")
      OBVIOUS
    <3>3. p \in Pumps /\ (w = p \/ w = Dead(p))
      BY <1>1, <3>2
    <3>4. Dead(p).topic = p.topic /\ Dead(p).pc = "dead"
      BY DEF Dead
    <3> QED
      BY <3>3, <3>4
  <2> QED
    BY <1>4, <2>1, <2>2
<1>9. ASSUME NEW t \in Topics, Publish(t) PROVE Talks'
  BY <1>4, <1>9 DEF Publish, client, sessions
<1> QED
  BY <1>2, <1>3, <1>5, <1>6, <1>7, <1>8, <1>9, TalksBySubscribe, TalksByReconnect, TalksByReceive, TalksBySession, TalksByPump
  DEF Next, System, SessionSteps

-----------------------------------------------------------------------------
(* Names and refs of the client.                                           *)

Paired == \A t \in Topics, r \in Refs : nameOf[r] = t <=> refOf[t] = r

LEMMA PairedStep ==
  ASSUME Base, Routes, Talks, Paired, Next
  PROVE  Paired'
<1>1. /\ refOf \in [Topics -> Refs \cup {0}] /\ nameOf \in [Refs -> Topics \cup {NoTopic}]
      /\ out[sock] \in Seq(Answers) /\ sock \in Sockets /\ 0 \notin Refs /\ NoTopic \notin Topics
  <2>1. /\ refOf \in [Topics -> Refs \cup {0}] /\ nameOf \in [Refs -> Topics \cup {NoTopic}]
        /\ out \in [Sockets -> Seq(Answers)] /\ sock \in Sockets
    BY DEF Base, TypeOK
  <2> QED
    BY <2>1, Bounds
<1>2. CASE UNCHANGED <<refOf, nameOf>>
  BY <1>2 DEF Paired
<1>3. CASE Reconnect
  <2>1. \A t \in Topics : refOf'[t] = 0
    BY <1>3 DEF Reconnect
  <2>2. \A r \in Refs : nameOf'[r] = NoTopic
    BY <1>3 DEF Reconnect
  <2> QED
    BY <1>1, <2>1, <2>2 DEF Paired
<1>4. CASE ClientReceive
  <2> SUFFICES ASSUME NEW f, f = Head(out[sock]) PROVE Paired'
    OBVIOUS
  <2>1. f \in ToSet(out[sock]) /\ f \in Answers
    BY <1>1, <1>4, ToSetFacts DEF ClientReceive
  <2>2. CASE f.kind = "ack" /\ OnAck(f.topic, f.ref)
    <3> SUFFICES ASSUME NEW t, t = f.topic, NEW r, r = f.ref PROVE Paired'
      OBVIOUS
    <3>1. t \in Topics /\ r \in Refs /\ pumps[sock][r].topic = t
      BY <1>1, <2>1, <2>2, AnswerFacts DEF Routes, AnswersOk, AnswerOk
    <3>2. refOf[t] = 0
      BY <2>1, <2>2, <3>1 DEF Talks, InTurn, NoAck
    <3>3. \A x \in Topics : refOf[x] # r
      BY <1>1, <3>1, <3>2 DEF Routes, Bound
    <3>4. \A x \in Topics, q \in Refs : /\ refOf'[x] = IF x = t THEN r ELSE refOf[x]
                                        /\ nameOf'[q] = IF q = r THEN t ELSE nameOf[q]
      BY <1>1, <2>2 DEF OnAck
    <3>5. ASSUME NEW x \in Topics, NEW q \in Refs PROVE nameOf'[q] = x <=> refOf'[x] = q
      <4>1. nameOf[q] = x <=> refOf[x] = q
        BY DEF Paired
      <4> QED
        BY <1>1, <3>2, <3>3, <3>4, <4>1
    <3> QED
      BY <3>5 DEF Paired
  <2>3. CASE f.kind = "gap" /\ OnGap(f.topic)
    <3> SUFFICES ASSUME NEW t, t = f.topic, t \in Topics PROVE Paired'
      BY <2>1, <2>3, AnswerFacts
    <3>1. \A x \in Topics, q \in Refs : /\ refOf'[x] = IF x = t THEN 0 ELSE refOf[x]
                                        /\ nameOf'[q] = IF q = refOf[t] THEN NoTopic ELSE nameOf[q]
      BY <1>1, <2>3 DEF OnGap
    <3>2. ASSUME NEW x \in Topics, NEW q \in Refs PROVE nameOf'[q] = x <=> refOf'[x] = q
      <4>1. (nameOf[q] = x <=> refOf[x] = q) /\ (nameOf[q] = t <=> refOf[t] = q)
        BY DEF Paired
      <4> QED
        BY <1>1, <3>1, <4>1
    <3> QED
      BY <3>2 DEF Paired
  <2>4. CASE f.kind = "entry" /\ OnEntry(f.ref, f.seq)
    BY <1>2, <2>4 DEF OnEntry
  <2> QED
    BY <1>2, <1>4, <2>2, <2>3, <2>4 DEF ClientReceive
<1>5. UNCHANGED <<refOf, nameOf>> \/ Reconnect \/ ClientReceive
  <2>1. ASSUME NEW t \in Topics, Subscribe(t) \/ SendData(t) \/ Publish(t) PROVE UNCHANGED <<refOf, nameOf>>
    BY <2>1 DEF Subscribe, SendData, Publish, client
  <2>2. Open \/ SocketDrops => UNCHANGED <<refOf, nameOf>>
    BY DEF Open, SocketDrops
  <2>3. ASSUME NEW s \in Sockets, SessionBreaks(s) \/ SessionSteps(s) PROVE UNCHANGED <<refOf, nameOf>>
    BY <2>3 DEF SessionSteps, SessionReceive, SessionBreaks, SessionEnds, Release, client
  <2>4. ASSUME NEW s \in Sockets, NEW r \in Refs, PumpSteps(s, r) PROVE UNCHANGED <<refOf, nameOf>>
    BY <2>4, PumpCases DEF PumpSteps, client
  <2> QED
    BY <2>1, <2>2, <2>3, <2>4 DEF Next, System
<1> QED
  BY <1>2, <1>3, <1>4, <1>5

-----------------------------------------------------------------------------
(* The numbers of a subscription, one after the other.                     *)

\* What a pump will send next.
Ahead(p) == IF p.pc \in {"dead", "gap"} THEN 0 ELSE IF p.pc = "push" THEN p.held ELSE p.next

\* The number of r in a frame, and those of a queue: behind what was seen of it, and before
\* what is to come.
Number(f, r) == IF f.kind = "entry" /\ f.ref = r THEN f.seq ELSE 0
Line(q, r, a, z) ==
  [i \in 0..Len(q) + 1 |-> IF i = 0 THEN a ELSE IF i = Len(q) + 1 THEN z ELSE Number(q[i], r)]

Chained(T) ==
  \A i, j \in DOMAIN T :
    i < j /\ T[i] # 0 /\ T[j] # 0 /\ (\A k \in DOMAIN T : i < k /\ k < j => T[k] = 0) => T[j] = T[i] + 1
Starts(T, e) ==
  \A j \in DOMAIN T : j # 0 /\ T[j] # 0 /\ (\A k \in DOMAIN T : k < j => T[k] = 0) => T[j] <= e + 1
Sends(T) == \E i \in DOMAIN T : i # 0 /\ T[i] # 0

LEMMA LineFacts ==
  ASSUME NEW q \in Seq(Answers), NEW r, NEW a, NEW z, NEW T, T = Line(q, r, a, z)
  PROVE  /\ DOMAIN T = 0..Len(q) + 1 /\ Len(q) \in Nat
         /\ T[0] = a /\ T[Len(q) + 1] = z
         /\ \A i \in 1..Len(q) : T[i] = Number(q[i], r)
<1>1. Len(q) \in Nat
  BY Places
<1>2. \A n \in Nat : 0 \in 0..n + 1 /\ n + 1 \in 0..n + 1 /\ n + 1 # 0
                     /\ \A i \in 1..n : i \in 0..n + 1 /\ i # 0 /\ i # n + 1
  OBVIOUS
<1> QED
  BY <1>1, <1>2 DEF Line

\* A frame that is not an entry of r.
LEMMA LineAppend ==
  ASSUME NEW q \in Seq(Answers), NEW f \in Answers, NEW r, Number(f, r) = 0, NEW a, NEW z, NEW e,
         NEW T, T = Line(q, r, a, z), NEW U, U = Line(Append(q, f), r, a, z)
  PROVE  /\ Chained(T) => Chained(U)
         /\ Starts(T, e) => Starts(U, e)
         /\ Sends(U) => Sends(T)
<1> SUFFICES ASSUME NEW n, n = Len(q), NEW p, p = Append(q, f)
             PROVE  (Chained(T) => Chained(U)) /\ (Starts(T, e) => Starts(U, e)) /\ (Sends(U) => Sends(T))
  OBVIOUS
<1>1. n \in Nat /\ DOMAIN T = 0..n + 1 /\ \A i \in 1..n : T[i] = Number(q[i], r)
  BY LineFacts
<1>2. p \in Seq(Answers) /\ Len(p) = n + 1 /\ \A i \in 1..n + 1 : p[i] = IF i = n + 1 THEN f ELSE q[i]
  BY Places
<1>3. DOMAIN U = 0..(n + 1) + 1 /\ \A i \in 1..n + 1 : U[i] = Number(p[i], r)
  BY <1>2, LineFacts
<1>4. T[0] = a /\ T[n + 1] = z /\ U[0] = a /\ U[(n + 1) + 1] = z
  BY <1>2, LineFacts
<1>5. DOMAIN U = 0..n + 2 /\ U[n + 2] = T[n + 1] /\ U[n + 1] = 0
  <2>1. (n + 1) + 1 = n + 2 /\ n + 1 \in 1..n + 1
    BY <1>1
  <2> QED
    BY <1>2, <1>3, <1>4, <2>1
<1>6. \A i \in 0..n : U[i] = T[i]
  <2> SUFFICES ASSUME NEW i \in 1..n PROVE U[i] = T[i]
    BY <1>1, <1>4
  <2>1. i \in 1..n + 1 /\ i # n + 1
    BY <1>1
  <2> QED
    BY <1>1, <1>2, <1>3, <2>1
<1>7. /\ 0..n \subseteq DOMAIN T /\ n + 1 \in DOMAIN T /\ n + 1 # 0 /\ n + 2 # 0
      /\ \A i \in DOMAIN U : i \in 0..n \/ i = n + 1 \/ i = n + 2
      /\ \A i \in DOMAIN T : i \in 0..n \/ i = n + 1
      /\ \A i \in 0..n : i < n + 1 /\ i < n + 2 /\ i \in DOMAIN U
  BY <1>1, <1>5
<1> HIDE DEF Line
<1>8. ASSUME Chained(T) PROVE Chained(U)
  <2> SUFFICES ASSUME NEW i \in DOMAIN U, NEW j \in DOMAIN U, i < j, U[i] # 0, U[j] # 0,
                      \A k \in DOMAIN U : i < k /\ k < j => U[k] = 0
               PROVE  U[j] = U[i] + 1
    BY DEF Chained
  <2>1. i \in 0..n
    BY <1>1, <1>5, <1>7
  <2>2. CASE j \in 0..n
    <3>1. \A k \in DOMAIN T : i < k /\ k < j => T[k] = 0
      BY <1>1, <1>6, <1>7, <2>2
    <3> QED
      BY <1>6, <1>7, <1>8, <2>1, <2>2, <3>1 DEF Chained
  <2>3. CASE j = n + 2
    <3>1. \A k \in DOMAIN T : i < k /\ k < n + 1 => T[k] = 0
      BY <1>1, <1>6, <1>7, <2>3
    <3> QED
      BY <1>5, <1>6, <1>7, <1>8, <2>1, <2>3, <3>1 DEF Chained
  <2> QED
    BY <1>5, <1>7, <2>2, <2>3
<1>9. ASSUME Starts(T, e) PROVE Starts(U, e)
  <2> SUFFICES ASSUME NEW j \in DOMAIN U, j # 0, U[j] # 0, \A k \in DOMAIN U : k < j => U[k] = 0
               PROVE  U[j] <= e + 1
    BY DEF Starts
  <2>1. CASE j \in 0..n
    <3>1. \A k \in DOMAIN T : k < j => T[k] = 0
      BY <1>1, <1>6, <1>7, <2>1
    <3> QED
      BY <1>6, <1>7, <1>9, <2>1, <3>1 DEF Starts
  <2>2. CASE j = n + 2
    <3>1. \A k \in DOMAIN T : k < n + 1 => T[k] = 0
      BY <1>1, <1>6, <1>7, <2>2
    <3> QED
      BY <1>5, <1>7, <1>9, <2>2, <3>1 DEF Starts
  <2> QED
    BY <1>5, <1>7, <2>1, <2>2
<1>10. Sends(U) => Sends(T)
  BY <1>5, <1>6, <1>7 DEF Sends
<1> QED
  BY <1>8, <1>9, <1>10

\* The entry that was next, and the one behind it.
LEMMA LinePush ==
  ASSUME NEW q \in Seq(Answers), NEW f \in Answers, NEW r, NEW a, NEW z, z # 0, Number(f, r) = z, NEW e,
         NEW T, T = Line(q, r, a, z), NEW y, NEW U, U = Line(Append(q, f), r, a, y)
  PROVE  /\ Chained(T) /\ y = z + 1 => Chained(U)
         /\ Starts(T, e) => Starts(U, e)
         /\ Sends(T)
<1> SUFFICES ASSUME NEW n, n = Len(q), NEW p, p = Append(q, f)
             PROVE  (Chained(T) /\ y = z + 1 => Chained(U)) /\ (Starts(T, e) => Starts(U, e)) /\ Sends(T)
  OBVIOUS
<1>1. n \in Nat /\ DOMAIN T = 0..n + 1 /\ \A i \in 1..n : T[i] = Number(q[i], r)
  BY LineFacts
<1>2. p \in Seq(Answers) /\ Len(p) = n + 1 /\ \A i \in 1..n + 1 : p[i] = IF i = n + 1 THEN f ELSE q[i]
  BY Places
<1>3. DOMAIN U = 0..(n + 1) + 1 /\ \A i \in 1..n + 1 : U[i] = Number(p[i], r)
  <2>1. U = Line(p, r, a, y)
    OBVIOUS
  <2>2. DOMAIN U = 0..Len(p) + 1 /\ \A i \in 1..Len(p) : U[i] = Number(p[i], r)
    BY <1>2, <2>1, LineFacts
  <2> QED
    BY <1>2, <2>2
<1>4. T[0] = a /\ T[n + 1] = z /\ U[0] = a /\ U[(n + 1) + 1] = y
  <2>1. T[0] = a /\ T[n + 1] = z
    BY LineFacts
  <2>2. p \in Seq(Answers)
    BY <1>2
  <2>3. U[0] = a /\ U[Len(p) + 1] = y
    <3>1. U = Line(p, r, a, y)
      OBVIOUS
    <3> QED
      BY <2>2, <3>1, LineFacts
  <2> QED
    BY <1>2, <2>1, <2>3
<1>5. DOMAIN U = 0..n + 2 /\ U[n + 2] = y /\ U[n + 1] = z
  <2>1. (n + 1) + 1 = n + 2 /\ n + 1 \in 1..n + 1
    BY <1>1
  <2> QED
    BY <1>2, <1>3, <1>4, <2>1
<1>6. \A i \in 0..n + 1 : U[i] = T[i]
  <2> SUFFICES ASSUME NEW i \in 1..n PROVE U[i] = T[i]
    BY <1>1, <1>4, <1>5
  <2>1. i \in 1..n + 1 /\ i # n + 1
    BY <1>1
  <2> QED
    BY <1>1, <1>2, <1>3, <2>1
<1>7. /\ n + 1 \in DOMAIN T /\ n + 1 # 0 /\ n + 1 < n + 2 /\ n + 1 \in DOMAIN U
      /\ \A i \in DOMAIN U : i \in DOMAIN T \/ i = n + 2
      /\ \A i \in DOMAIN T : i \in DOMAIN U /\ U[i] = T[i]
      /\ \A i \in DOMAIN T : i < n + 2 /\ (i < n + 1 \/ i = n + 1)
  BY <1>1, <1>5, <1>6
<1>8. ASSUME Chained(T), y = z + 1 PROVE Chained(U)
  <2> SUFFICES ASSUME NEW i \in DOMAIN U, NEW j \in DOMAIN U, i < j, U[i] # 0, U[j] # 0,
                      \A k \in DOMAIN U : i < k /\ k < j => U[k] = 0
               PROVE  U[j] = U[i] + 1
    BY DEF Chained
  <2>1. i \in DOMAIN T
    BY <1>1, <1>5, <1>7
  <2>2. CASE j \in DOMAIN T
    BY <1>7, <1>8, <2>1, <2>2 DEF Chained
  <2>3. CASE j = n + 2
    BY <1>5, <1>7, <1>8, <2>1, <2>3
  <2> QED
    BY <1>7, <2>2, <2>3
<1>9. ASSUME Starts(T, e) PROVE Starts(U, e)
  <2> SUFFICES ASSUME NEW j \in DOMAIN U, j # 0, U[j] # 0, \A k \in DOMAIN U : k < j => U[k] = 0
               PROVE  U[j] <= e + 1
    BY DEF Starts
  <2>1. j \in DOMAIN T
    BY <1>5, <1>7
  <2> QED
    BY <1>7, <1>9, <2>1 DEF Starts
<1>10. Sends(T)
  BY <1>4, <1>7 DEF Sends
<1> QED
  BY <1>8, <1>9, <1>10

\* The pump stops, or has just sent what it had.
LEMMA LineEnd ==
  ASSUME NEW q \in Seq(Answers), NEW r, NEW a, NEW z, NEW e, NEW T, T = Line(q, r, a, z),
         NEW y \in {0, z}, NEW U, U = Line(q, r, a, y)
  PROVE  /\ Chained(T) => Chained(U)
         /\ Starts(T, e) => Starts(U, e)
         /\ Sends(U) => Sends(T)
<1> SUFFICES ASSUME NEW n, n = Len(q)
             PROVE  (Chained(T) => Chained(U)) /\ (Starts(T, e) => Starts(U, e)) /\ (Sends(U) => Sends(T))
  OBVIOUS
<1>1. n \in Nat /\ DOMAIN T = 0..n + 1 /\ T[0] = a /\ T[n + 1] = z /\ \A i \in 1..n : T[i] = Number(q[i], r)
  BY LineFacts
<1>2. DOMAIN U = 0..n + 1 /\ U[0] = a /\ U[n + 1] = y /\ \A i \in 1..n : U[i] = Number(q[i], r)
  <2>1. \A x, V : V = Line(q, r, a, x) =>
          DOMAIN V = 0..n + 1 /\ V[0] = a /\ V[n + 1] = x /\ \A i \in 1..n : V[i] = Number(q[i], r)
    BY LineFacts
  <2> QED
    BY <2>1
<1>3. \A i \in 0..n + 1 : U[i] = T[i] \/ (i = n + 1 /\ U[i] = 0)
  <2> SUFFICES ASSUME NEW i \in 0..n + 1, i # n + 1 PROVE U[i] = T[i]
    BY <1>1, <1>2
  <2>1. i = 0 \/ i \in 1..n
    BY <1>1
  <2> QED
    BY <1>1, <1>2, <2>1
<1>4. \A i, j \in 0..n + 1 : i < j => i # n + 1
  BY <1>1
<1>5. DOMAIN U = DOMAIN T /\ \A i \in DOMAIN T : U[i] # 0 => \A k \in DOMAIN T : k < i => U[k] = T[k]
  BY <1>1, <1>2, <1>3, <1>4
<1>6. \A i \in DOMAIN T : U[i] # 0 => U[i] = T[i]
  BY <1>1, <1>3
<1>7. Chained(T) => Chained(U)
  <2> SUFFICES ASSUME Chained(T), NEW i \in DOMAIN U, NEW j \in DOMAIN U, i < j, U[i] # 0, U[j] # 0,
                      \A k \in DOMAIN U : i < k /\ k < j => U[k] = 0
               PROVE  U[j] = U[i] + 1
    BY DEF Chained
  <2>1. U[i] = T[i] /\ U[j] = T[j] /\ \A k \in DOMAIN T : i < k /\ k < j => T[k] = 0
    BY <1>5, <1>6
  <2> QED
    BY <1>5, <2>1 DEF Chained
<1>8. Starts(T, e) => Starts(U, e)
  <2> SUFFICES ASSUME Starts(T, e), NEW j \in DOMAIN U, j # 0, U[j] # 0, \A k \in DOMAIN U : k < j => U[k] = 0
               PROVE  U[j] <= e + 1
    BY DEF Starts
  <2>1. U[j] = T[j] /\ \A k \in DOMAIN T : k < j => T[k] = 0
    BY <1>5, <1>6
  <2> QED
    BY <1>5, <2>1 DEF Starts
<1>9. Sends(U) => Sends(T)
  BY <1>5, <1>6 DEF Sends
<1> QED
  BY <1>7, <1>8, <1>9

\* The first frame is delivered: it says nothing of r, or is seen now, or is lost on a name
\* that is not bound.
LEMMA LineTail ==
  ASSUME NEW q \in Seq(Answers), q # <<>>, NEW r, NEW a, NEW z, NEW e, NEW h, h = Number(Head(q), r),
         NEW T, T = Line(q, r, a, z), NEW b, NEW U, U = Line(Tail(q), r, b, z),
         b = 0 \/ (h = 0 /\ b = a) \/ b = h
  PROVE  /\ Chained(T) => Chained(U)
         /\ Starts(T, e) /\ ((h = 0 /\ b = a) \/ (h # 0 /\ b = h)) => Starts(U, e)
         /\ Sends(U) => Sends(T)
<1> SUFFICES ASSUME NEW n, n = Len(q), NEW p, p = Tail(q)
             PROVE  /\ Chained(T) => Chained(U)
                    /\ Starts(T, e) /\ ((h = 0 /\ b = a) \/ (h # 0 /\ b = h)) => Starts(U, e)
                    /\ Sends(U) => Sends(T)
  OBVIOUS
<1>1. n \in Nat /\ DOMAIN T = 0..n + 1 /\ T[0] = a /\ T[n + 1] = z /\ \A i \in 1..n : T[i] = Number(q[i], r)
  BY LineFacts
<1>2. p \in Seq(Answers) /\ n >= 1 /\ Len(p) = n - 1 /\ Head(q) = q[1] /\ \A i \in 1..n - 1 : p[i] = q[i + 1]
  BY Places
<1>3. DOMAIN U = 0..(n - 1) + 1 /\ U[0] = b /\ U[(n - 1) + 1] = z /\ \A i \in 1..n - 1 : U[i] = Number(p[i], r)
  <2>1. \A x, V : V = Line(p, r, x, z) =>
          DOMAIN V = 0..Len(p) + 1 /\ V[0] = x /\ V[Len(p) + 1] = z /\ \A i \in 1..Len(p) : V[i] = Number(p[i], r)
    BY <1>2, LineFacts
  <2> QED
    BY <1>2, <2>1
<1>4. DOMAIN U = 0..n /\ U[n] = z /\ 1 \in DOMAIN T /\ 0 \in DOMAIN T /\ T[1] = h
  <2>1. (n - 1) + 1 = n /\ 1 \in 0..n + 1 /\ 0 \in 0..n + 1 /\ 1 \in 1..n
    BY <1>1, <1>2
  <2> QED
    BY <1>1, <1>2, <1>3, <2>1
<1>5. \A i \in 1..n : U[i] = T[i + 1]
  <2> SUFFICES ASSUME NEW i \in 1..n - 1 PROVE U[i] = T[i + 1]
    BY <1>1, <1>2, <1>4
  <2>1. i + 1 \in 1..n
    BY <1>1
  <2> QED
    BY <1>1, <1>2, <1>3, <2>1
<1>6. /\ \A i \in DOMAIN U : i \in 0..n /\ (i = 0 \/ i \in 1..n)
      /\ \A i \in 1..n : i \in DOMAIN U /\ i # 0 /\ i + 1 \in DOMAIN T /\ 1 < i + 1 /\ 0 < i + 1 /\ i + 1 # 0
      /\ \A i, j \in 1..n : i < j <=> i + 1 < j + 1
      /\ \A k \in DOMAIN T : k = 0 \/ k = 1 \/ (k - 1 \in 1..n /\ k = (k - 1) + 1)
  <2>1. ASSUME NEW k \in DOMAIN T, k # 0, k # 1 PROVE k - 1 \in 1..n /\ k = (k - 1) + 1
    BY <1>1, <2>1
  <2> QED
    BY <1>1, <1>4, <2>1
<1>7. Chained(T) => Chained(U)
  <2> SUFFICES ASSUME Chained(T), NEW i \in DOMAIN U, NEW j \in DOMAIN U, i < j, U[i] # 0, U[j] # 0,
                      \A k \in DOMAIN U : i < k /\ k < j => U[k] = 0
               PROVE  U[j] = U[i] + 1
    BY DEF Chained
  <2>1. j \in 1..n /\ U[j] = T[j + 1] /\ j + 1 \in DOMAIN T
    BY <1>1, <1>4, <1>5, <1>6
  <2>2. CASE i \in 1..n
    <3>1. \A k \in DOMAIN T : i + 1 < k /\ k < j + 1 => T[k] = 0
      <4> SUFFICES ASSUME NEW k \in DOMAIN T, i + 1 < k, k < j + 1 PROVE T[k] = 0
        OBVIOUS
      <4>1. k # 0 /\ k # 1
        BY <1>1, <2>2
      <4>2. PICK l \in 1..n : k = l + 1
        BY <1>6, <4>1
      <4> QED
        BY <1>5, <1>6, <2>1, <2>2, <4>2
    <3>2. U[i] = T[i + 1] /\ i + 1 \in DOMAIN T /\ i + 1 < j + 1
      BY <1>5, <1>6, <2>1, <2>2
    <3> QED
      BY <2>1, <3>1, <3>2 DEF Chained
  <2>3. CASE i = 0
    <3>1. \A l \in 1..n : l < j => T[l + 1] = 0
      BY <1>5, <1>6, <2>1, <2>3
    <3>2. \A k \in DOMAIN T : 1 < k /\ k < j + 1 => T[k] = 0
      <4> SUFFICES ASSUME NEW k \in DOMAIN T, 1 < k, k < j + 1 PROVE T[k] = 0
        OBVIOUS
      <4>0. k # 0 /\ k # 1
        BY <1>1
      <4>1. PICK l \in 1..n : k = l + 1
        BY <1>6, <4>0
      <4> QED
        BY <1>6, <2>1, <3>1, <4>1
    <3>3. CASE b = h
      BY <1>3, <1>4, <1>6, <2>1, <2>3, <3>2, <3>3 DEF Chained
    <3>4. CASE h = 0 /\ b = a
      <4>1. \A k \in DOMAIN T : 0 < k /\ k < j + 1 => T[k] = 0
        BY <1>1, <1>4, <3>2, <3>4
      <4> QED
        BY <1>1, <1>3, <1>4, <1>6, <2>1, <2>3, <3>4, <4>1 DEF Chained
    <3> QED
      BY <1>3, <2>3, <3>3, <3>4
  <2> QED
    BY <1>6, <2>2, <2>3
<1>8. Starts(T, e) /\ ((h = 0 /\ b = a) \/ (h # 0 /\ b = h)) => Starts(U, e)
  <2> SUFFICES ASSUME Starts(T, e), (h = 0 /\ b = a) \/ (h # 0 /\ b = h),
                      NEW j \in DOMAIN U, j # 0, U[j] # 0, \A k \in DOMAIN U : k < j => U[k] = 0
               PROVE  U[j] <= e + 1
    BY DEF Starts
  <2>1. j \in 1..n /\ U[j] = T[j + 1] /\ j + 1 \in DOMAIN T /\ j + 1 # 0 /\ 0 \in DOMAIN U /\ 0 < j
    BY <1>1, <1>4, <1>5, <1>6
  <2>2. U[0] = 0 /\ h = 0 /\ a = 0
    BY <1>3, <2>1
  <2>3. \A k \in DOMAIN T : k < j + 1 => T[k] = 0
    <3> SUFFICES ASSUME NEW k \in DOMAIN T, k < j + 1, k # 0, k # 1 PROVE T[k] = 0
      BY <1>1, <1>4, <2>2
    <3>1. PICK l \in 1..n : k = l + 1
      BY <1>6
    <3> QED
      BY <1>5, <1>6, <2>1, <3>1
  <2> QED
    BY <2>1, <2>3 DEF Starts
<1>9. Sends(U) => Sends(T)
  BY <1>5, <1>6 DEF Sends
<1> QED
  BY <1>7, <1>8, <1>9

\* Nothing of r is on its way.
LEMMA LineNew ==
  ASSUME NEW q \in Seq(Answers), NEW r, \A i \in DOMAIN q : Number(q[i], r) = 0, NEW a, NEW z, a = 0 \/ z = 0,
         NEW e, z = 0 \/ z <= e + 1, NEW T, T = Line(q, r, a, z)
  PROVE  Chained(T) /\ Starts(T, e) /\ (z = 0 => ~ Sends(T))
<1>1. /\ Len(q) \in Nat /\ DOMAIN T = 0..Len(q) + 1 /\ T[0] = a /\ T[Len(q) + 1] = z
      /\ \A i \in 1..Len(q) : T[i] = Number(q[i], r)
  BY LineFacts
<1>2. \A i \in 0..Len(q) + 1 : T[i] # 0 => i = 0 \/ i = Len(q) + 1
  <2>1. DOMAIN q = 1..Len(q)
    BY Places
  <2>2. \A i \in 0..Len(q) + 1 : i = 0 \/ i = Len(q) + 1 \/ i \in 1..Len(q)
    BY <1>1
  <2> QED
    BY <1>1, <2>1, <2>2
<1>3. \A i, j \in 0..Len(q) + 1 : i < j => i # Len(q) + 1 /\ j # 0 /\ i # j
  BY <1>1
<1>4. Chained(T)
  BY <1>1, <1>2, <1>3 DEF Chained
<1> QED
  BY <1>1, <1>2, <1>4 DEF Starts, Sends

-----------------------------------------------------------------------------
(* A subscription delivers without a hole.                                 *)

Trail(s, r) == Line(out[s], r, Seen(s, r), Ahead(pumps[s][r]))
Live(s, r)  == up[s] = "open" \/ Acked(s, r)

\* From what the client has seen to what the pump will send next, the numbers follow each
\* other; those of a subscription the client knows of, or will, start in time.
LinkedAt(s, r) == Chained(Trail(s, r)) /\ (Live(s, r) => Starts(Trail(s, r), pumps[s][r].edge))

\* Nothing is sent of a subscription that the client is not told of.
Pledged(s, r) == Sends(Trail(s, r)) => Acked(s, r)

Whole(s, r) == LinkedAt(s, r) /\ (Heard(s) /\ up[s] = "open" => Pledged(s, r))

Linked == \A s \in Sockets, r \in Refs : Whole(s, r)

\* A subscription of a connection that was lost sends no more.
Cut == conn = "waiting" => \A r \in Refs : nameOf[r] # NoTopic => pumps[sock][r].pc = "dead"

Bind(s, r) == s = sock /\ nameOf[r] # NoTopic

\* The acks of a queue.
LEMMA AckedFacts ==
  ASSUME NEW s \in Sockets, NEW r \in Refs, out[s] \in Seq(Answers)
  PROVE  Acked(s, r) <=> Bind(s, r) \/ Ack(pumps[s][r].topic, r) \in ToSet(out[s])
BY DEF Acked, Bind, Pump, ToSet

LEMMA AckedKept ==
  ASSUME Base, Base', Grows, Routes, NEW s \in Sockets, NEW r \in Refs, Bind(s, r)' <=> Bind(s, r),
         \/ out'[s] = out[s]
         \/ \E f \in Answers : out'[s] = Append(out[s], f) /\ (f.kind = "ack" => f.ref # r)
  PROVE  Acked(s, r)' <=> Acked(s, r)
<1>1. out[s] \in Seq(Answers) /\ out'[s] \in Seq(Answers)
  BY DEF Base, TypeOK
<1>2. Acked(s, r) <=> Bind(s, r) \/ Ack(pumps[s][r].topic, r) \in ToSet(out[s])
  BY <1>1, AckedFacts
<1>3. Acked(s, r)' <=> Bind(s, r)' \/ Ack(pumps'[s][r].topic, r) \in ToSet(out'[s])
  BY DEF Acked, Bind, Pump, ToSet
<1>4. \A t : Ack(t, r).kind = "ack" /\ Ack(t, r).topic = t /\ Ack(t, r).ref = r
  BY DEF Ack
<1>5. \A t : Ack(t, r) \in ToSet(out'[s]) <=> Ack(t, r) \in ToSet(out[s])
  <2>1. CASE out'[s] = out[s]
    BY <2>1
  <2>2. ASSUME NEW f \in Answers, out'[s] = Append(out[s], f), f.kind = "ack" => f.ref # r
        PROVE  \A t : Ack(t, r) \in ToSet(out'[s]) <=> Ack(t, r) \in ToSet(out[s])
    <3>1. ToSet(out'[s]) = ToSet(out[s]) \cup {f}
      BY <1>1, <2>2, ToSetFacts
    <3>2. \A t : Ack(t, r) # f
      BY <1>4, <2>2
    <3> QED
      BY <3>1, <3>2
  <2> QED
    BY <2>1, <2>2
<1>6. \A t : Ack(t, r) \in ToSet(out[s]) => t = pumps[s][r].topic /\ t = pumps'[s][r].topic
  <2> SUFFICES ASSUME NEW t, NEW f \in ToSet(out[s]), f = Ack(t, r)
               PROVE  t = pumps[s][r].topic /\ t = pumps'[s][r].topic
    OBVIOUS
  <2>1. f \in Answers /\ AnswerOk(f, nextRef[s], pumps[s], replied[s])
    BY <1>1, ToSetFacts DEF Routes, AnswersOk
  <2>2. f.kind = "ack" /\ f.ref = r /\ f.topic = t
    BY <1>4
  <2>3. r < nextRef[s] /\ pumps[s][r].topic = t
    BY <2>1, <2>2 DEF AnswerOk
  <2> QED
    BY <2>3 DEF Grows
<1> QED
  BY <1>2, <1>3, <1>5, <1>6

\* What is no entry of r has no number of it.
LEMMA NumberFacts ==
  ASSUME NEW f, NEW r
  PROVE  /\ f.kind # "entry" \/ f.ref # r => Number(f, r) = 0
         /\ f.kind = "entry" /\ f.ref = r => Number(f, r) = f.seq
BY DEF Number

\* One line after another: what was in turn still is, and nothing has been added.
Follows(T, U, e) ==
  /\ Chained(T) => Chained(U)
  /\ Starts(T, e) => Starts(U, e)
  /\ Sends(U) => Sends(T)

LEMMA LineSame ==
  \A q, p \in Seq(Answers) : \A r, a, z, e : \A y \in {0, z} :
    p = q \/ (\E f \in Answers : p = Append(q, f) /\ Number(f, r) = 0)
    => Follows(Line(q, r, a, z), Line(p, r, a, y), e)
<1> SUFFICES ASSUME NEW q \in Seq(Answers), NEW p \in Seq(Answers), NEW r, NEW a, NEW z, NEW e, NEW y \in {0, z},
                    p = q \/ (\E f \in Answers : p = Append(q, f) /\ Number(f, r) = 0),
                    NEW T, T = Line(q, r, a, z), NEW U, U = Line(p, r, a, y), NEW V, V = Line(p, r, a, z)
             PROVE  Follows(T, U, e)
  OBVIOUS
<1>1. Follows(T, V, e)
  <2>1. ASSUME NEW f \in Answers, p = Append(q, f), Number(f, r) = 0 PROVE Follows(T, V, e)
    BY <2>1, LineAppend DEF Follows
  <2> QED
    BY <2>1 DEF Follows
<1>2. Follows(V, U, e)
  BY LineEnd DEF Follows
<1> QED
  BY <1>1, <1>2 DEF Follows

LEMMA LineNext ==
  \A q \in Seq(Answers) : \A r, a, b, z, e :
    /\ q # <<>>
    /\ \/ Number(Head(q), r) = 0 /\ b = a
       \/ Number(Head(q), r) # 0 /\ b = Number(Head(q), r)
    => Follows(Line(q, r, a, z), Line(Tail(q), r, b, z), e)
<1> SUFFICES ASSUME NEW q \in Seq(Answers), q # <<>>, NEW r, NEW a, NEW b, NEW z, NEW e,
                    NEW h, h = Number(Head(q), r), (h = 0 /\ b = a) \/ (h # 0 /\ b = h),
                    NEW T, T = Line(q, r, a, z), NEW U, U = Line(Tail(q), r, b, z)
             PROVE  Follows(T, U, e)
  OBVIOUS
<1>1. b = 0 \/ (h = 0 /\ b = a) \/ b = h
  OBVIOUS
<1> QED
  BY <1>1, LineTail DEF Follows

\* Nothing new of r, and its pump goes on or stops.
LEMMA LinkSame ==
  ASSUME Base, Base', NEW s \in Sockets, NEW r \in Refs, Whole(s, r), Heard(s)' => Heard(s),
         Seen(s, r)' = Seen(s, r), Acked(s, r)' <=> Acked(s, r), up'[s] = "open" => up[s] = "open",
         out'[s] = out[s] \/ \E f \in Answers : out'[s] = Append(out[s], f) /\ Number(f, r) = 0,
         pumps'[s][r].edge = pumps[s][r].edge, Ahead(pumps'[s][r]) \in {0, Ahead(pumps[s][r])}
  PROVE  Whole(s, r)'
<1>1. out[s] \in Seq(Answers) /\ out'[s] \in Seq(Answers)
  BY DEF Base, TypeOK
<1>2. Trail(s, r)' = Line(out'[s], r, Seen(s, r), Ahead(pumps'[s][r]))
  BY DEF Trail
<1>3. Follows(Trail(s, r), Trail(s, r)', pumps[s][r].edge)
  BY <1>1, <1>2, LineSame DEF Trail
<1>4. Live(s, r)' => Live(s, r)
  BY DEF Live
<1>5. LinkedAt(s, r)' <=> Chained(Trail(s, r)') /\ (Live(s, r)' => Starts(Trail(s, r)', pumps[s][r].edge))
  BY DEF LinkedAt
<1>6. Pledged(s, r)' <=> (Sends(Trail(s, r)') => Acked(s, r)')
  BY DEF Pledged
<1> QED
  BY <1>3, <1>4, <1>5, <1>6 DEF Whole, LinkedAt, Pledged, Follows

\* A queue in which there is nothing of r.
LEMMA LinkNew ==
  ASSUME Base', NEW s \in Sockets, NEW r \in Refs, \A i \in DOMAIN out'[s] : Number(out'[s][i], r) = 0,
         Seen(s, r)' = 0 \/ Ahead(pumps'[s][r]) = 0,
         Ahead(pumps'[s][r]) = 0 \/ Ahead(pumps'[s][r]) <= pumps'[s][r].edge + 1
  PROVE  LinkedAt(s, r)' /\ (Ahead(pumps'[s][r]) = 0 => Whole(s, r)')
<1> SUFFICES ASSUME NEW p, p = out'[s], NEW b, b = Seen(s, r)', NEW y, y = Ahead(pumps'[s][r]),
                    NEW e, e = pumps'[s][r].edge, NEW U, U = Line(p, r, b, y)
             PROVE  LinkedAt(s, r)' /\ (y = 0 => Whole(s, r)')
  OBVIOUS
<1>1. p \in Seq(Answers)
  BY DEF Base, TypeOK
<1>2. U = Trail(s, r)'
  BY DEF Trail
<1>3. Chained(U) /\ Starts(U, e) /\ (y = 0 => ~ Sends(U))
  BY <1>1, LineNew
<1>4. LinkedAt(s, r)' <=> Chained(U) /\ (Live(s, r)' => Starts(U, e))
  BY <1>2 DEF LinkedAt
<1>5. Pledged(s, r)' <=> (Sends(U) => Acked(s, r)')
  BY <1>2 DEF Pledged
<1> QED
  BY <1>3, <1>4, <1>5 DEF Whole

\* A frame is delivered that says nothing of r, or is seen.
LEMMA LinkTail ==
  ASSUME Base, NEW s \in Sockets, NEW r \in Refs, Whole(s, r), out[s] # <<>>, out'[s] = Tail(out[s]),
         UNCHANGED <<conn, sock, up, pumps>>, Acked(s, r)' <=> Acked(s, r),
         \/ Number(Head(out[s]), r) = 0 /\ Seen(s, r)' = Seen(s, r)
         \/ Number(Head(out[s]), r) # 0 /\ Seen(s, r)' = Number(Head(out[s]), r)
  PROVE  Whole(s, r)'
<1>1. out[s] \in Seq(Answers)
  BY DEF Base, TypeOK
<1>2. Trail(s, r)' = Line(Tail(out[s]), r, Seen(s, r)', Ahead(pumps[s][r]))
  BY DEF Trail
<1>3. Follows(Trail(s, r), Trail(s, r)', pumps[s][r].edge)
  BY <1>1, <1>2, LineNext DEF Trail
<1>4. Live(s, r)' => Live(s, r)
  BY DEF Live
<1>5. LinkedAt(s, r)' <=> Chained(Trail(s, r)') /\ (Live(s, r)' => Starts(Trail(s, r)', pumps[s][r].edge))
  BY DEF LinkedAt
<1>6. Pledged(s, r)' <=> (Sends(Trail(s, r)') => Acked(s, r)')
  BY DEF Pledged
<1>7. Heard(s)' => Heard(s)
  BY DEF Heard
<1> QED
  BY <1>3, <1>4, <1>5, <1>6, <1>7 DEF Whole, LinkedAt, Pledged, Follows

\* The pump has sent what it held.
LEMMA LineGrows ==
  \A q \in Seq(Answers), f \in Answers : \A r, a, z, e :
    z # 0 /\ Number(f, r) = z
    => Follows(Line(q, r, a, z), Line(Append(q, f), r, a, z + 1), e) /\ Sends(Line(q, r, a, z))
<1> SUFFICES ASSUME NEW q \in Seq(Answers), NEW f \in Answers, NEW r, NEW a, NEW z, NEW e,
                    z # 0, Number(f, r) = z, NEW T, T = Line(q, r, a, z),
                    NEW y, NEW U, U = Line(Append(q, f), r, a, y)
             PROVE  y = z + 1 => Follows(T, U, e) /\ Sends(T)
  OBVIOUS
<1>1. /\ Chained(T) /\ y = z + 1 => Chained(U)
      /\ Starts(T, e) => Starts(U, e)
      /\ Sends(T)
  BY LinePush
<1> QED
  BY <1>1 DEF Follows

\* An entry is lost on a name that is not bound.
Follows0(T, U) == Chained(T) => Chained(U)

LEMMA LineLost ==
  \A q \in Seq(Answers) : \A r, z :
    q # <<>> /\ Number(Head(q), r) # 0
    => Follows0(Line(q, r, 0, z), Line(Tail(q), r, 0, z)) /\ Sends(Line(q, r, 0, z))
<1> SUFFICES ASSUME NEW q \in Seq(Answers), NEW r, NEW z, q # <<>>, NEW h, h = Number(Head(q), r), h # 0,
                    NEW T, T = Line(q, r, 0, z), NEW U, U = Line(Tail(q), r, 0, z)
             PROVE  Follows0(T, U) /\ Sends(T)
  OBVIOUS
<1>1. Follows0(T, U)
  BY LineTail DEF Follows0
<1>2. Sends(T)
  <2>1. /\ Len(q) \in Nat /\ DOMAIN T = 0..Len(q) + 1 /\ \A i \in 1..Len(q) : T[i] = Number(q[i], r)
    BY LineFacts
  <2>2. Len(q) >= 1 /\ Head(q) = q[1]
    BY Places
  <2>3. 1 \in DOMAIN T /\ T[1] = h
    BY <2>1, <2>2
  <2> QED
    BY <2>3 DEF Sends
<1> QED
  BY <1>1, <1>2

LEMMA HeadOrTail ==
  ASSUME NEW q \in Seq(Answers), q # <<>>
  PROVE  \A x : x \in ToSet(q) <=> x = Head(q) \/ x \in ToSet(Tail(q))
<1>1. /\ Len(q) \in Nat /\ DOMAIN q = 1..Len(q) /\ Len(q) >= 1 /\ Head(q) = q[1]
      /\ DOMAIN Tail(q) = 1..Len(q) - 1 /\ \A i \in 1..Len(q) - 1 : Tail(q)[i] = q[i + 1]
  BY Places
<1>2. Head(q) \in ToSet(q) /\ ToSet(Tail(q)) \subseteq ToSet(q)
  BY ToSetFacts
<1>3. ASSUME NEW i \in DOMAIN q PROVE q[i] = Head(q) \/ q[i] \in ToSet(Tail(q))
  <2>1. CASE i = 1
    BY <1>1, <2>1
  <2>2. CASE i # 1
    <3>1. i - 1 \in 1..Len(q) - 1 /\ (i - 1) + 1 = i
      BY <1>1, <2>2
    <3>2. Tail(q)[i - 1] = q[i]
      BY <1>1, <3>1
    <3> QED
      BY <1>1, <3>1, <3>2 DEF ToSet
  <2> QED
    BY <2>1, <2>2
<1> QED
  BY <1>2, <1>3 DEF ToSet

LEMMA AheadFacts ==
  /\ \A p, w : w.pc = p.pc /\ w.next = p.next /\ w.held = p.held => Ahead(w) = Ahead(p)
  /\ \A p : p.pc \in {"dead", "gap"} => Ahead(p) = 0
  /\ \A p \in Pumps : Dead(p).edge = p.edge /\ Ahead(Dead(p)) = 0
<1>1. \A p, w : w.pc = p.pc /\ w.next = p.next /\ w.held = p.held => Ahead(w) = Ahead(p)
  BY DEF Ahead
<1>2. \A p : p.pc \in {"dead", "gap"} => Ahead(p) = 0
  BY DEF Ahead
<1>3. ASSUME NEW p \in Pumps, NEW d, d = Dead(p) PROVE d.edge = p.edge /\ Ahead(d) = 0
  <2>1. d.edge = p.edge /\ d.pc = "dead"
    BY <1>3, PumpFacts
  <2> QED
    BY <1>2, <2>1
<1> QED
  BY <1>1, <1>2, <1>3

\* What others do.
LEMMA LinkedAside ==
  ASSUME Base, Base', Grows, Routes, Linked, NEW s \in Sockets, NEW r \in Refs,
         UNCHANGED <<sock, nameOf, last>>, Heard(s)' => Heard(s), up'[s] = "open" => up[s] = "open",
         \/ out'[s] = out[s]
         \/ \E f \in Answers : out'[s] = Append(out[s], f) /\ (f.kind \in {"ack", "entry"} => f.ref # r),
         pumps'[s][r].edge = pumps[s][r].edge, Ahead(pumps'[s][r]) \in {0, Ahead(pumps[s][r])}
  PROVE  Whole(s, r)'
<1>1. (Bind(s, r)' <=> Bind(s, r)) /\ Seen(s, r)' = Seen(s, r)
  BY DEF Bind, Seen
<1>2. Acked(s, r)' <=> Acked(s, r)
  BY <1>1, AckedKept
<1>3. out'[s] = out[s] \/ \E f \in Answers : out'[s] = Append(out[s], f) /\ Number(f, r) = 0
  BY NumberFacts
<1>4. Whole(s, r)
  BY DEF Linked
<1> QED
  BY <1>1, <1>2, <1>3, <1>4, LinkSame

LEMMA LinkedByOpenTopic ==
  ASSUME Base, Base', Grows, Routes, Paired, Linked, NEW s \in Sockets, NEW t \in Topics, OpenTopic(s, t),
         UNCHANGED client
  PROVE  Linked'
<1> SUFFICES ASSUME NEW n, n = nextRef[s], NEW g, g = Ack(t, n), NEW u \in Sockets, NEW r \in Refs
             PROVE  Whole(u, r)'
  BY DEF Linked
<1>1. /\ TypeOK /\ out[s] \in Seq(Answers) /\ sock \in Sockets /\ nameOf \in [Refs -> Topics \cup {NoTopic}]
      /\ pumps[u][r] \in Pumps /\ n \in Refs /\ n \in Nat
  <2>1. TypeOK /\ out[s] \in Seq(Answers) /\ sock \in Sockets /\ nameOf \in [Refs -> Topics \cup {NoTopic}]
    BY DEF Base, TypeOK
  <2>2. n \in Refs
    BY <2>1, OpenTopicTables
  <2> QED
    BY <2>1, <2>2, TableFacts, Bounds
<1>2. g \in Answers /\ g.kind = "ack" /\ g.ref = n /\ g.topic = t /\ TrySend(s, g)
  BY <1>1, AnswerFacts DEF OpenTopic
<1>3. /\ UNCHANGED <<sock, nameOf, last, conn>>
      /\ out'[u] = out[u] \/ (u = s /\ out'[s] = Append(out[s], g))
      /\ up'[u] = "open" => up[u] = "open"
  BY <1>1, <1>2, TrySendOut DEF client
<1>4. CASE ~ (u = s /\ r = n)
  <2>1. pumps'[u][r] \in {pumps[u][r], Dead(pumps[u][r])}
    BY <1>4, OpenedFacts
  <2>2. Dead(pumps[u][r]).edge = pumps[u][r].edge /\ Ahead(Dead(pumps[u][r])) = 0
    BY <1>1, AheadFacts
  <2>3. Heard(u)' => Heard(u)
    BY <1>3 DEF Heard
  <2>4. out'[u] = out[u] \/ (out'[u] = Append(out[u], g) /\ g.ref # r)
    BY <1>2, <1>3, <1>4
  <2> QED
    BY <1>2, <1>3, <2>1, <2>2, <2>3, <2>4, LinkedAside
<1>5. CASE u = s /\ r = n
  <2> SUFFICES ASSUME NEW w, w = pumps'[s][n] PROVE Whole(s, n)'
    BY <1>5
  <2>1. w = NewPump(t) /\ w.topic = t
    BY <1>1, <1>5, OpenedFacts
  <2>2. Ahead(w) = w.next /\ w.next <= w.edge + 1
    <3>1. w.pc = "gate" /\ w.next \in 1..Len(log[t]) + 1 /\ w.edge = Len(log[t]) /\ Len(log[t]) \in Nat
      BY <1>1, <2>1, NewPumpFacts
    <3> QED
      BY <3>1 DEF Ahead
  <2>3. \A i \in DOMAIN out'[s] : Number(out'[s][i], n) = 0
    <3>1. \A f \in ToSet(out[s]) : Number(f, n) = 0
      <4> SUFFICES ASSUME NEW f \in ToSet(out[s]), f.kind = "entry" PROVE f.ref # n
        BY NumberFacts
      <4>1. AnswerOk(f, nextRef[s], pumps[s], replied[s])
        BY DEF Routes, AnswersOk
      <4> QED
        BY <1>1, <4>1 DEF AnswerOk
    <3>2. Number(g, n) = 0
      BY <1>2, NumberFacts
    <3>3. ToSet(out'[s]) \subseteq ToSet(out[s]) \cup {g}
      <4>1. out'[s] = out[s] \/ out'[s] = Append(out[s], g)
        BY <1>3, <1>5
      <4>2. ToSet(Append(out[s], g)) = ToSet(out[s]) \cup {g}
        BY <1>1, <1>2, ToSetFacts
      <4> QED
        BY <4>1, <4>2
    <3> QED
      BY <3>1, <3>2, <3>3 DEF ToSet
  <2>4. Seen(s, n)' = 0
    <3> SUFFICES ASSUME s = sock, nameOf[n] # NoTopic PROVE FALSE
      BY <1>3 DEF Seen
    <3> SUFFICES ASSUME NEW x \in Topics, nameOf[n] = x PROVE FALSE
      BY <1>1
    <3>1. refOf[x] = n
      BY <1>1 DEF Paired
    <3>2. n < nextRef[sock]
      BY <1>1, <3>1, Bounds DEF Routes, Bound
    <3> QED
      BY <1>1, <3>2
  <2>5. LinkedAt(s, n)'
    BY <1>1, <2>2, <2>3, <2>4, LinkNew
  <2>6. ASSUME Heard(s)', up'[s] = "open" PROVE Acked(s, n)'
    <3>1. out'[s] = Append(out[s], g)
      <4>1. Heard(s)
        BY <1>3, <2>6 DEF Heard
      <4>2. up \in [Sockets -> {"none", "open", "closing", "ended"}] /\ out \in [Sockets -> Seq(Answers)]
        BY <1>1 DEF TypeOK
      <4> QED
        BY <1>2, <2>6, <4>1, <4>2 DEF TrySend
    <3>2. g \in ToSet(out'[s])
      BY <1>1, <1>2, <3>1, ToSetFacts
    <3> QED
      BY <2>1, <3>2 DEF Acked, Pump, ToSet
  <2> QED
    BY <2>5, <2>6 DEF Whole, Pledged
<1> QED
  BY <1>4, <1>5

LEMMA LinkedBySession ==
  ASSUME Base, Base', Grows, Routes, Paired, Linked, NEW s \in Sockets, SessionReceive(s)
  PROVE  Linked'
<1> SUFFICES ASSUME NEW f, f = Head(inbox[s]) PROVE Linked'
  OBVIOUS
<1>1. UNCHANGED client /\ f \in Frames /\ TypeOK
  BY ReceiveTables DEF Base
<1>2. CASE f.kind = "subscribe" /\ OpenTopic(s, f.topic)
  BY <1>1, <1>2, ItemFacts, LinkedByOpenTopic
<1>3. CASE f.kind = "data" /\ HandleData(s, f)
  <2> SUFFICES ASSUME NEW u \in Sockets, NEW r \in Refs PROVE Whole(u, r)'
    BY DEF Linked
  <2>1. UNCHANGED <<sock, nameOf, last, conn>>
    BY <1>1 DEF client
  <2>2. pumps'[u][r].edge = pumps[u][r].edge /\ Ahead(pumps'[u][r]) = Ahead(pumps[u][r])
    BY <1>1, <1>3, DataPumps, AheadFacts
  <2>3. Heard(u)' => Heard(u)
    BY <2>1 DEF Heard
  <2>4. /\ up'[u] = "open" => up[u] = "open"
        /\ out'[u] = out[u] \/ \E g \in Answers : out'[u] = Append(out[u], g) /\ g.kind \in {"reply", "error"}
    <3>1. Reply(f.ref) \in Answers /\ Reply(f.ref).kind = "reply" /\ Error \in Answers /\ Error.kind = "error"
      BY <1>1, <1>3, ItemFacts, AnswerFacts
    <3>2. TrySend(s, Reply(f.ref)) \/ TrySend(s, Error) \/ UNCHANGED <<up, out>>
      BY <1>3 DEF HandleData, Hello
    <3>3. ASSUME NEW g \in Answers, g.kind \in {"reply", "error"}, TrySend(s, g)
          PROVE  /\ up'[u] = "open" => up[u] = "open"
                 /\ out'[u] = out[u] \/ out'[u] = Append(out[u], g)
      BY <1>1, <3>3, TrySendOut
    <3> QED
      BY <3>1, <3>2, <3>3
  <2> QED
    BY <2>1, <2>2, <2>3, <2>4, LinkedAside
<1> QED
  BY <1>2, <1>3 DEF SessionReceive

LEMMA LinkedByPump ==
  ASSUME Base, Base', Grows, Routes, Linked, NEW s \in Sockets, NEW n \in Refs, PumpSteps(s, n)
  PROVE  Linked'
<1> SUFFICES ASSUME NEW p, p = pumps[s][n], NEW u \in Sockets, NEW r \in Refs PROVE Whole(u, r)'
  BY DEF Linked
<1>1. /\ TypeOK /\ out \in [Sockets -> Seq(Answers)] /\ p \in Pumps /\ pumps \in [Sockets -> [Refs -> Pumps]]
      /\ PumpOk(p, n, nextRef[s], byName[s], replied[s])
  BY TableFacts DEF Base, TypeOK, Pumped
<1>2. UNCHANGED <<sock, nameOf, last, conn, up>>
  BY PumpCases DEF PumpSteps, client
<1>3. PumpGate(s, n) \/ PumpNext(s, n) \/ PumpSend(s, n)
  BY DEF PumpSteps
<1>4. \/ p.pc = "push" /\ Step(s, n, [p EXCEPT !.pc = "next", !.held = 0])
         /\ out' = [out EXCEPT ![s] = Append(@, Entry(n, p.held))]
      \/ \E w : /\ Step(s, n, w) /\ w.edge = p.edge /\ Ahead(w) \in {0, Ahead(p)}
                /\ UNCHANGED out \/ (out' = [out EXCEPT ![s] = Append(@, Gap(p.topic))] /\ p.pc = "gap")
  <2>1. ASSUME NEW c \in {"gate", "armed", "parked", "next", "gap"}, Step(s, n, [p EXCEPT !.pc = c]),
               p.pc \in {"gate", "armed", "parked", "next"}
        PROVE  \E w : Step(s, n, w) /\ w.edge = p.edge /\ Ahead(w) \in {0, Ahead(p)}
    <3> SUFFICES ASSUME NEW w, w = [p EXCEPT !.pc = c] PROVE w.edge = p.edge /\ Ahead(w) \in {0, Ahead(p)}
      BY <2>1
    <3>1. w.pc = c /\ w.edge = p.edge /\ w.next = p.next
      BY <1>1, StepFacts
    <3> QED
      BY <2>1, <3>1 DEF Ahead
  <2>2. ASSUME Step(s, n, [p EXCEPT !.pc = "armed", !.woken = FALSE]), p.pc = "gate"
        PROVE  \E w : Step(s, n, w) /\ w.edge = p.edge /\ Ahead(w) \in {0, Ahead(p)}
    <3> SUFFICES ASSUME NEW w, w = [p EXCEPT !.pc = "armed", !.woken = FALSE]
                 PROVE  w.edge = p.edge /\ Ahead(w) \in {0, Ahead(p)}
      BY <2>2
    <3>1. w.pc = "armed" /\ w.edge = p.edge /\ w.next = p.next
      BY <1>1, StepFacts
    <3> QED
      BY <2>2, <3>1 DEF Ahead
  <2>3. ASSUME Step(s, n, [p EXCEPT !.pc = "push", !.held = p.next, !.next = p.next + 1]), p.pc = "next"
        PROVE  \E w : Step(s, n, w) /\ w.edge = p.edge /\ Ahead(w) \in {0, Ahead(p)}
    <3> SUFFICES ASSUME NEW w, w = [p EXCEPT !.pc = "push", !.held = p.next, !.next = p.next + 1]
                 PROVE  w.edge = p.edge /\ Ahead(w) \in {0, Ahead(p)}
      BY <2>3
    <3>1. w.pc = "push" /\ w.edge = p.edge /\ w.held = p.next
      BY <1>1, StepFacts
    <3> QED
      BY <2>3, <3>1 DEF Ahead
  <2>4. ASSUME Step(s, n, Dead(p)) PROVE \E w : Step(s, n, w) /\ w.edge = p.edge /\ Ahead(w) \in {0, Ahead(p)}
    <3>1. Dead(p).edge = p.edge /\ Ahead(Dead(p)) = 0
      BY <1>1, AheadFacts
    <3> QED
      BY <2>4, <3>1
  <2>5. CASE PumpGate(s, n)
    <3>1. UNCHANGED out
      BY <2>5 DEF PumpGate, PumpOnly
    <3>2. \/ p.pc = "gate" /\ Step(s, n, [p EXCEPT !.pc = "next"])
          \/ p.pc = "gate" /\ Step(s, n, [p EXCEPT !.pc = "armed", !.woken = FALSE])
          \/ p.pc = "armed" /\ Step(s, n, [p EXCEPT !.pc = "next"])
          \/ p.pc = "armed" /\ Step(s, n, [p EXCEPT !.pc = "parked"])
          \/ p.pc = "parked" /\ Step(s, n, [p EXCEPT !.pc = "gate"])
      BY <2>5, Zenon DEF PumpGate, Pump
    <3> QED
      BY <2>1, <2>2, <3>1, <3>2
  <2>6. CASE PumpNext(s, n)
    <3>1. UNCHANGED out
      BY <2>6 DEF PumpNext, PumpOnly
    <3>2. p.pc = "next" /\ (\/ Step(s, n, [p EXCEPT !.pc = "gap"])
                            \/ Step(s, n, [p EXCEPT !.pc = "push", !.held = p.next, !.next = p.next + 1]))
      BY <2>6 DEF PumpNext, Pump
    <3> QED
      BY <2>1, <2>3, <3>1, <3>2
  <2>7. CASE PumpSend(s, n)
    <3>1. \/ p.pc = "push" /\ Step(s, n, [p EXCEPT !.pc = "next", !.held = 0])
             /\ out' = [out EXCEPT ![s] = Append(@, Entry(n, p.held))]
          \/ p.pc = "gap" /\ Step(s, n, Dead(p)) /\ out' = [out EXCEPT ![s] = Append(@, Gap(p.topic))]
      BY <2>7 DEF PumpSend, Pump
    <3> QED
      BY <2>4, <3>1
  <2> QED
    BY <1>3, <2>5, <2>6, <2>7
<1>5. CASE p.pc = "push" /\ Step(s, n, [p EXCEPT !.pc = "next", !.held = 0])
           /\ out' = [out EXCEPT ![s] = Append(@, Entry(n, p.held))]
  <2> SUFFICES ASSUME NEW w, w = [p EXCEPT !.pc = "next", !.held = 0], NEW g, g = Entry(n, p.held)
               PROVE  Whole(u, r)'
    OBVIOUS
  <2>1. /\ w.pc = "next" /\ w.edge = p.edge /\ w.next = p.next
        /\ p.held \in Nat /\ p.held # 0 /\ p.next = p.held + 1
    <3>1. p.held \in Nat
      BY <1>1 DEF Pumps
    <3> QED
      BY <1>1, <1>5, <3>1, StepFacts DEF PumpOk
  <2>2. g \in Answers /\ g.kind = "entry" /\ g.ref = n /\ g.seq = p.held
    BY <2>1, AnswerFacts
  <2>3. /\ pumps'[u][r] = IF u = s /\ r = n THEN w ELSE pumps[u][r]
        /\ out'[u] = IF u = s THEN Append(out[s], g) ELSE out[u]
    BY <1>1, <1>5 DEF Step
  <2>4. Heard(u)' => Heard(u)
    BY <1>2 DEF Heard
  <2>5. CASE ~ (u = s /\ r = n)
    <3>1. pumps'[u][r] = pumps[u][r]
      BY <2>3, <2>5
    <3>2. out'[u] = out[u] \/ (out'[u] = Append(out[u], g) /\ g.ref # r)
      BY <2>2, <2>3, <2>5
    <3> QED
      BY <1>2, <2>2, <2>4, <3>1, <3>2, LinkedAside
  <2>6. CASE u = s /\ r = n
    <3>1. Ahead(p) = p.held /\ Ahead(w) = p.held + 1 /\ Number(g, n) = p.held
      BY <1>5, <2>1, <2>2, NumberFacts DEF Ahead
    <3>2. (Bind(s, n)' <=> Bind(s, n)) /\ Seen(s, n)' = Seen(s, n)
      BY <1>2 DEF Bind, Seen
    <3>3. Acked(s, n)' <=> Acked(s, n)
      BY <2>2, <2>3, <2>6, <3>2, AckedKept
    <3>4. /\ Trail(s, n) = Line(out[s], n, Seen(s, n), p.held)
          /\ Trail(s, n)' = Line(Append(out[s], g), n, Seen(s, n), p.held + 1)
      <4>1. Trail(s, n) = Line(out[s], n, Seen(s, n), Ahead(p))
        BY DEF Trail
      <4>2. Trail(s, n)' = Line(out'[s], n, Seen(s, n)', Ahead(pumps'[s][n]))
        BY DEF Trail
      <4> QED
        BY <2>3, <2>6, <3>1, <3>2, <4>1, <4>2
    <3>5. Follows(Trail(s, n), Trail(s, n)', p.edge) /\ Sends(Trail(s, n))
      BY <1>1, <2>1, <2>2, <3>1, <3>4, LineGrows
    <3>6. Whole(s, n) /\ (Live(s, n)' => Live(s, n)) /\ pumps'[s][n].edge = p.edge
      BY <1>2, <2>1, <2>3, <2>6, <3>3 DEF Linked, Live
    <3>7. LinkedAt(s, n)' <=> Chained(Trail(s, n)') /\ (Live(s, n)' => Starts(Trail(s, n)', pumps'[s][n].edge))
      BY DEF LinkedAt
    <3>8. Pledged(s, n)' <=> (Sends(Trail(s, n)') => Acked(s, n)')
      BY DEF Pledged
    <3>9. up'[s] = up[s]
      BY <1>2
    <3> QED
      BY <2>4, <2>6, <3>3, <3>5, <3>6, <3>7, <3>8, <3>9 DEF Whole, LinkedAt, Pledged, Follows
  <2> QED
    BY <2>5, <2>6
<1>6. ASSUME NEW w, Step(s, n, w), w.edge = p.edge, Ahead(w) \in {0, Ahead(p)},
             UNCHANGED out \/ (out' = [out EXCEPT ![s] = Append(@, Gap(p.topic))] /\ p.pc = "gap")
      PROVE  Whole(u, r)'
  <2>1. pumps'[u][r] = IF u = s /\ r = n THEN w ELSE pumps[u][r]
    BY <1>1, <1>6 DEF Step
  <2>2. pumps'[u][r].edge = pumps[u][r].edge /\ Ahead(pumps'[u][r]) \in {0, Ahead(pumps[u][r])}
    BY <1>6, <2>1
  <2>3. out'[u] = out[u] \/ (\E g \in Answers : out'[u] = Append(out[u], g) /\ g.kind = "gap")
    <3> SUFFICES ASSUME out' = [out EXCEPT ![s] = Append(@, Gap(p.topic))], p.pc = "gap"
                 PROVE  out'[u] = out[u] \/ (\E g \in Answers : out'[u] = Append(out[u], g) /\ g.kind = "gap")
      BY <1>6
    <3>1. p.topic \in Topics
      <4>1. n < nextRef[s] \/ n >= nextRef[s]
        BY TableFacts, Bounds, <1>1
      <4> QED
        BY <1>1, <4>1 DEF PumpOk, NoPump
    <3>2. Gap(p.topic) \in Answers /\ Gap(p.topic).kind = "gap"
      BY <3>1, AnswerFacts
    <3> QED
      BY <1>1, <3>2
  <2>4. Heard(u)' => Heard(u)
    BY <1>2 DEF Heard
  <2> QED
    BY <1>2, <2>2, <2>3, <2>4, LinkedAside
<1> QED
  BY <1>4, <1>5, <1>6

\* What the client is told changes what it has seen of one subscription only.
LEMMA LinkedByReceive ==
  ASSUME Base, Base', Grows, Routes, Talks, Paired, Linked, ClientReceive
  PROVE  Linked'
<1> SUFFICES ASSUME NEW s, s = sock, NEW q, q = out[s], NEW f, f = Head(q), NEW u \in Sockets, NEW r \in Refs
             PROVE  Whole(u, r)'
  BY DEF Linked
<1>1. /\ TypeOK /\ s \in Sockets /\ q \in Seq(Answers) /\ out \in [Sockets -> Seq(Answers)] /\ 0 \notin Refs
      /\ refOf \in [Topics -> Refs \cup {0}] /\ nameOf \in [Refs -> Topics \cup {NoTopic}] /\ last \in [Topics -> Nat]
      /\ NoTopic \notin Topics
  BY Bounds DEF Base, TypeOK
<1>2. /\ UNCHANGED <<conn, sock, up, pumps, nextRef, replied>> /\ q # <<>> /\ conn = "open"
      /\ \A x \in Sockets : out'[x] = IF x = s THEN Tail(q) ELSE out[x]
  <2>1. UNCHANGED <<conn, sock, up, pumps, nextRef, replied>> /\ q # <<>> /\ conn = "open" /\ Take(s)
    BY DEF ClientReceive
  <2> QED
    BY <1>1, <2>1 DEF Take
<1>3. f \in ToSet(q) /\ f \in Answers /\ AnswerOk(f, nextRef[s], pumps[s], replied[s]) /\ Whole(u, r)
  <2>1. f \in ToSet(q) /\ ToSet(q) \subseteq Answers
    BY <1>1, <1>2, ToSetFacts
  <2> QED
    BY <1>1, <2>1 DEF Routes, AnswersOk, Linked
<1>4. CASE u # s
  <2>1. /\ Seen(u, r)' = Seen(u, r) /\ (Acked(u, r)' <=> Acked(u, r)) /\ (Heard(u)' => Heard(u))
        /\ out'[u] = out[u] /\ pumps'[u][r] = pumps[u][r] /\ up'[u] = up[u]
    BY <1>2, <1>4 DEF Seen, Acked, Pump, Heard
  <2> QED
    BY <1>3, <2>1, LinkSame
<1>5. CASE u = s
  <2> SUFFICES Whole(s, r)'
    BY <1>5
  <2>1. /\ Acked(s, r) <=> nameOf[r] # NoTopic \/ Ack(pumps[s][r].topic, r) \in ToSet(q)
        /\ Acked(s, r)' <=> nameOf'[r] # NoTopic \/ Ack(pumps[s][r].topic, r) \in ToSet(Tail(q))
    <3>1. Acked(s, r) <=> nameOf[r] # NoTopic \/ Ack(pumps[s][r].topic, r) \in ToSet(q)
      BY DEF Acked, Pump, ToSet
    <3>2. Acked(s, r)' <=> nameOf'[r] # NoTopic \/ Ack(pumps'[s][r].topic, r) \in ToSet(out'[s])
      BY <1>2 DEF Acked, Pump, ToSet
    <3> QED
      BY <1>1, <1>2, <3>1, <3>2
  <2>2. \A x : x \in ToSet(q) <=> x = f \/ x \in ToSet(Tail(q))
    BY <1>1, <1>2, HeadOrTail
  <2>3. /\ Seen(s, r) = IF nameOf[r] # NoTopic THEN last[nameOf[r]] ELSE 0
        /\ Seen(s, r)' = IF nameOf'[r] # NoTopic THEN last'[nameOf'[r]] ELSE 0
    BY <1>2 DEF Seen
  <2>4. ASSUME Acked(s, r)' <=> Acked(s, r), Number(f, r) = 0, Seen(s, r)' = Seen(s, r) PROVE Whole(s, r)'
    BY <1>1, <1>2, <1>3, <1>5, <2>4, LinkTail
  <2>5. CASE f.kind = "ack" /\ OnAck(f.topic, f.ref)
    <3> SUFFICES ASSUME NEW t, t = f.topic, NEW n, n = f.ref PROVE Whole(s, r)'
      OBVIOUS
    <3>1. t \in Topics /\ n \in Refs /\ pumps[s][n].topic = t /\ f = Ack(t, n)
      BY <1>3, <2>5, AnswerFacts DEF AnswerOk
    <3>2. refOf[t] = 0
      BY <1>3, <2>5, <3>1 DEF Talks, InTurn, NoAck
    <3>3. \A x \in Topics : nameOf[n] # x /\ nameOf[r] # t
      <4>1. \A x \in Topics : refOf[x] = n => pumps[s][n].topic = x
        BY <1>1, <3>1 DEF Routes, Bound
      <4> QED
        BY <1>1, <3>1, <3>2, <4>1 DEF Paired
    <3>4. /\ nameOf'[r] = IF r = n THEN t ELSE nameOf[r]
          /\ \A x \in Topics : last'[x] = IF x = t THEN 0 ELSE last[x]
      BY <1>1, <2>5, <3>1 DEF OnAck
    <3>5. Seen(s, r)' = Seen(s, r)
      BY <1>1, <2>3, <3>1, <3>3, <3>4
    <3>6. Number(f, r) = 0
      BY <2>5, NumberFacts
    <3>7. Acked(s, r)' <=> Acked(s, r)
      <4>1. CASE r = n
        BY <1>1, <1>3, <2>1, <3>1, <3>4, <4>1
      <4>2. CASE r # n
        <5>1. Ack(pumps[s][r].topic, r) # f
          <6>1. Ack(pumps[s][r].topic, r).ref = r
            BY DEF Ack
          <6> QED
            BY <4>2, <6>1
        <5> QED
          BY <2>1, <2>2, <3>4, <4>2, <5>1
      <4> QED
        BY <4>1, <4>2
    <3> QED
      BY <2>4, <3>5, <3>6, <3>7
  <2>6. CASE f.kind = "gap" /\ OnGap(f.topic)
    <3> SUFFICES ASSUME NEW t, t = f.topic PROVE Whole(s, r)'
      OBVIOUS
    <3>1. t \in Topics
      BY <1>3, <2>6, AnswerFacts
    <3>2. nameOf'[r] = IF r = refOf[t] THEN NoTopic ELSE nameOf[r]
      BY <1>1, <2>6, <3>1 DEF OnGap
    <3>3. last' = last
      BY <2>6 DEF OnGap
    <3>4. CASE r # refOf[t]
      <4>1. Seen(s, r)' = Seen(s, r)
        BY <2>3, <3>2, <3>3, <3>4
      <4>2. Number(f, r) = 0
        BY <2>6, NumberFacts
      <4>3. Acked(s, r)' <=> Acked(s, r)
        <5>1. Ack(pumps[s][r].topic, r) # f
          <6>1. Ack(pumps[s][r].topic, r).kind = "ack"
            BY DEF Ack
          <6> QED
            BY <2>6, <6>1
        <5> QED
          BY <2>1, <2>2, <3>2, <3>4, <5>1
      <4> QED
        BY <2>4, <4>1, <4>2, <4>3
    <3>5. CASE r = refOf[t]
      <4>1. pumps[s][r].topic = t
        BY <1>1, <3>1, <3>5 DEF Routes, Bound
      <4>2. Order(q, t, pumps[s]) /\ ~ NoGap(q, t) /\ (NoGap(q, t) \/ Dark(pumps[s], t)) /\ Tells(f, t, pumps[s])
        BY <1>3, <2>6, <3>1 DEF Talks, InTurn, NoGap, Tells
      <4>3. Silent(Tail(q), t, pumps[s])
        BY <1>1, <1>2, <2>6, <4>2, HeadFacts
      <4>4. Ahead(pumps'[s][r]) = 0
        BY <1>2, <4>1, <4>2, AheadFacts DEF Dark
      <4>5. \A g \in ToSet(Tail(q)) : Number(g, r) = 0
        <5> SUFFICES ASSUME NEW g \in ToSet(Tail(q)), g.kind = "entry", g.ref = r PROVE FALSE
          BY NumberFacts
        <5> QED
          BY <4>1, <4>3 DEF Silent, Tells
      <4>6. \A i \in DOMAIN out'[s] : Number(out'[s][i], r) = 0
        BY <1>1, <1>2, <4>5 DEF ToSet
      <4> QED
        BY <1>1, <4>4, <4>6, LinkNew
    <3> QED
      BY <3>4, <3>5
  <2>7. CASE f.kind = "entry" /\ OnEntry(f.ref, f.seq)
    <3> SUFFICES ASSUME NEW n, n = f.ref, NEW k, k = f.seq PROVE Whole(s, r)'
      OBVIOUS
    <3>1. n \in Refs /\ k # 0
      BY <1>3, <2>7, AnswerFacts DEF AnswerOk
    <3>2. nameOf' = nameOf /\ last' = IF nameOf[n] = NoTopic THEN last ELSE [last EXCEPT ![nameOf[n]] = k]
      BY <2>7 DEF OnEntry
    <3>3. Ack(pumps[s][r].topic, r) # f
      <4>1. Ack(pumps[s][r].topic, r).kind = "ack"
        BY DEF Ack
      <4> QED
        BY <2>7, <4>1
    <3>4. Acked(s, r)' <=> Acked(s, r)
      BY <2>1, <2>2, <3>2, <3>3
    <3>5. CASE r # n
      <4>1. Number(f, r) = 0
        BY <3>5, NumberFacts
      <4>2. nameOf[r] # NoTopic => nameOf[r] # nameOf[n]
        BY <1>1, <3>1, <3>5 DEF Paired
      <4>3. Seen(s, r)' = Seen(s, r)
        BY <1>1, <2>3, <3>1, <3>2, <4>2
      <4> QED
        BY <2>4, <3>4, <4>1, <4>3
    <3>6. CASE r = n /\ nameOf[n] # NoTopic
      <4>1. Number(f, r) = k
        BY <2>7, <3>6, NumberFacts
      <4>2. Seen(s, r)' = k
        BY <1>1, <2>3, <3>1, <3>2, <3>6
      <4> QED
        BY <1>1, <1>2, <1>3, <1>5, <3>1, <3>4, <4>1, <4>2, LinkTail
    <3>7. CASE r = n /\ nameOf[n] = NoTopic
      <4>1. Number(f, r) = k /\ Seen(s, r) = 0 /\ Seen(s, r)' = 0 /\ nameOf'[r] = NoTopic
        BY <2>3, <2>7, <3>2, <3>7, NumberFacts
      <4>2. pumps[s][r].topic \in Topics
        <5>1. r < nextRef[s] /\ PumpOk(pumps[s][r], r, nextRef[s], byName[s], replied[s])
          BY <1>1, <1>3, <2>7, <3>7 DEF AnswerOk, Base, Pumped
        <5> QED
          BY <5>1 DEF PumpOk
      <4>3. ~ Acked(s, r)
        <5> SUFFICES ASSUME NEW t, t = pumps[s][r].topic, Ack(t, r) \in ToSet(Tail(q)) PROVE FALSE
          BY <2>1, <2>2, <3>3, <3>7
        <5>1. Order(q, t, pumps[s])
          BY <4>2 DEF Talks, InTurn
        <5>2. Tells(f, t, pumps[s])
          BY <2>7, <3>7 DEF Tells
        <5>3. NoAck(Tail(q), t)
          BY <1>1, <1>2, <5>1, <5>2, HeadFacts
        <5>4. Ack(t, r).kind = "ack" /\ Ack(t, r).topic = t
          BY DEF Ack
        <5> QED
          BY <5>3, <5>4 DEF NoAck
      <4>4. Follows0(Trail(s, r), Trail(s, r)') /\ Sends(Trail(s, r))
        <5>1. Trail(s, r) = Line(q, r, 0, Ahead(pumps[s][r]))
          BY <4>1 DEF Trail
        <5>2. Trail(s, r)' = Line(Tail(q), r, 0, Ahead(pumps[s][r]))
          BY <1>1, <1>2, <4>1 DEF Trail
        <5> QED
          BY <1>1, <1>2, <3>1, <4>1, <5>1, <5>2, LineLost
      <4>5. ~ Live(s, r) /\ ~ (Heard(s) /\ up[s] = "open")
        <5>1. ~ (Heard(s) /\ up[s] = "open")
          BY <1>3, <1>5, <4>3, <4>4 DEF Whole, Pledged
        <5> QED
          BY <1>2, <4>3, <5>1 DEF Live, Heard
      <4>6. ~ Live(s, r)' /\ ~ (Heard(s)' /\ up'[s] = "open")
        BY <1>2, <3>4, <4>5 DEF Live, Heard
      <4>7. Whole(s, r)' <=> /\ Chained(Trail(s, r)') /\ (Live(s, r)' => Starts(Trail(s, r)', pumps'[s][r].edge))
                             /\ Heard(s)' /\ up'[s] = "open" => Pledged(s, r)'
        BY DEF Whole, LinkedAt
      <4>8. Chained(Trail(s, r))
        BY <1>3, <1>5 DEF Whole, LinkedAt
      <4> QED
        BY <4>4, <4>6, <4>7, <4>8 DEF Follows0
    <3> QED
      BY <3>5, <3>6, <3>7
  <2>8. CASE f.kind \in {"reply", "error"} /\ UNCHANGED <<nameOf, last>>
    <3>1. Ack(pumps[s][r].topic, r) # f
      <4>1. Ack(pumps[s][r].topic, r).kind = "ack"
        BY DEF Ack
      <4> QED
        BY <2>8, <4>1
    <3>2. Acked(s, r)' <=> Acked(s, r)
      BY <2>1, <2>2, <2>8, <3>1
    <3>3. Number(f, r) = 0 /\ Seen(s, r)' = Seen(s, r)
      BY <2>3, <2>8, NumberFacts
    <3> QED
      BY <2>4, <3>2, <3>3
  <2> QED
    BY <2>5, <2>6, <2>7, <2>8 DEF ClientReceive
<1> QED
  BY <1>4, <1>5

\* A session that is left, and one that nobody has heard of yet.
LEMMA LinkedByReconnect ==
  ASSUME Base, Base', Grows, Pristine, Routes, Paired, Linked, Cut, Reconnect
  PROVE  Linked'
<1> SUFFICES ASSUME NEW u \in Sockets, NEW r \in Refs PROVE Whole(u, r)'
  BY DEF Linked
<1>1. /\ sock \in Sockets /\ sock \in Nat /\ u \in Nat /\ conn = "waiting" /\ conn' = "connecting" /\ sock' = sock + 1
      /\ UNCHANGED <<up, out, pumps>>
      /\ \A x \in Refs : nameOf'[x] = NoTopic
  <2>1. sock \in Sockets
    BY DEF Base, TypeOK
  <2>2. sock \in Nat /\ u \in Nat
    BY <2>1, Bounds
  <2> QED
    BY <2>1, <2>2 DEF Reconnect, sessions
<1>2. ~ Heard(u) /\ ~ Heard(u)' /\ out[u] = <<>> /\ out'[u] = <<>>
  <2>1. ~ Heard(u) /\ ~ Heard(u)'
    BY <1>1 DEF Heard
  <2> QED
    BY <1>1, <2>1 DEF Pristine
<1>3. Whole(u, r) /\ Seen(u, r)' = 0 /\ ~ Acked(u, r)'
  <2>1. DOMAIN out'[u] = {}
    BY <1>2
  <2> QED
    BY <1>1, <2>1 DEF Linked, Seen, Acked
<1>4. \A i \in DOMAIN out'[u] : Number(out'[u][i], r) = 0
  BY <1>2
<1>5. CASE u = sock /\ nameOf[r] # NoTopic
  <2>1. Ahead(pumps'[u][r]) = 0
    BY <1>1, <1>5, AheadFacts DEF Cut
  <2> QED
    BY <1>4, <2>1, LinkNew
<1>6. CASE u # sock \/ nameOf[r] = NoTopic
  <2>1. Seen(u, r) = 0
    BY <1>6 DEF Seen
  <2>2. ~ Acked(u, r)
    <3>1. DOMAIN out[u] = {}
      BY <1>2
    <3> QED
      BY <1>6, <3>1 DEF Acked
  <2> QED
    BY <1>1, <1>2, <1>3, <2>1, <2>2, LinkSame
<1> QED
  BY <1>5, <1>6

LEMMA LinkedStep ==
  ASSUME Base, Base', Grows, Pristine, Routes, Talks, Paired, Linked, Cut, Next
  PROVE  Linked'
<1>1. /\ TypeOK /\ sock \in Sockets /\ out \in [Sockets -> Seq(Answers)] /\ pumps \in [Sockets -> [Refs -> Pumps]]
      /\ up \in [Sockets -> {"none", "open", "closing", "ended"}]
  BY DEF Base, TypeOK
<1>2. ASSUME UNCHANGED <<sock, nameOf, last, conn>>, NEW u \in Sockets, NEW r \in Refs,
             out'[u] = out[u], up'[u] = "open" => up[u] = "open",
             pumps'[u][r] \in {pumps[u][r], Dead(pumps[u][r])}
      PROVE  Whole(u, r)'
  <2>1. Heard(u)' => Heard(u)
    BY <1>2 DEF Heard
  <2>2. pumps'[u][r].edge = pumps[u][r].edge /\ Ahead(pumps'[u][r]) \in {0, Ahead(pumps[u][r])}
    <3>1. Dead(pumps[u][r]).edge = pumps[u][r].edge /\ Ahead(Dead(pumps[u][r])) = 0
      BY <1>1, AheadFacts
    <3> QED
      BY <1>2, <3>1
  <2> QED
    BY <1>2, <2>1, <2>2, LinkedAside
<1>3. ASSUME NEW u \in Sockets, NEW r \in Refs, out'[u] = <<>>, Ahead(pumps'[u][r]) = 0 PROVE Whole(u, r)'
  <2>1. \A i \in DOMAIN out'[u] : Number(out'[u][i], r) = 0
    BY <1>3
  <2> QED
    BY <1>3, <2>1, LinkNew
<1>4. ASSUME NEW t \in Topics, Subscribe(t) \/ SendData(t) \/ Publish(t) PROVE Linked'
  <2>1. UNCHANGED <<sock, nameOf, last, conn, out, up, pumps>>
    BY <1>4 DEF Subscribe, SendData, Publish, client, sessions
  <2> QED
    BY <1>2, <2>1 DEF Linked
<1>5. ASSUME Open PROVE Linked'
  <2> SUFFICES ASSUME NEW u \in Sockets, NEW r \in Refs PROVE Whole(u, r)'
    BY DEF Linked
  <2>1. UNCHANGED <<sock, nameOf, last, out, pumps>> /\ conn = "connecting" /\ up' = [up EXCEPT ![sock] = "open"]
    BY <1>5 DEF Open
  <2>2. CASE u = sock
    <3>1. out[u] = <<>> /\ pumps[u][r] = NoPump
      <4>1. up[u] = "none"
        BY <2>1, <2>2 DEF Pristine
      <4> QED
        BY <4>1, Blank
    <3>2. Ahead(NoPump) = 0
      BY DEF Ahead, NoPump
    <3> QED
      BY <1>3, <2>1, <3>1, <3>2
  <2>3. CASE u # sock
    <3>1. (Heard(u)' => Heard(u)) /\ (up'[u] = "open" => up[u] = "open")
      BY <1>1, <2>1, <2>3 DEF Heard
    <3> QED
      BY <2>1, <3>1, LinkedAside
  <2> QED
    BY <2>2, <2>3
<1>6. ASSUME SocketDrops PROVE Linked'
  <2> SUFFICES ASSUME NEW u \in Sockets, NEW r \in Refs PROVE Whole(u, r)'
    BY DEF Linked
  <2>1. /\ UNCHANGED <<sock, nameOf, last, up>> /\ conn' = "waiting" /\ out' = [out EXCEPT ![sock] = <<>>]
        /\ pumps' = [pumps EXCEPT ![sock] = [q \in Refs |-> [Dead(pumps[sock][q]) EXCEPT !.edge = 0]]]
    BY <1>6 DEF SocketDrops
  <2>2. CASE u = sock
    <3> SUFFICES ASSUME NEW d, d = [Dead(pumps[sock][r]) EXCEPT !.edge = 0] PROVE Whole(u, r)'
      OBVIOUS
    <3>1. pumps'[u][r] = d /\ out'[u] = <<>>
      BY <1>1, <2>1, <2>2
    <3>2. d.pc = "dead"
      BY <1>1, DeadFacts
    <3>3. Ahead(d) = 0
      BY <3>2 DEF Ahead
    <3>4. Ahead(pumps'[u][r]) = 0 /\ out'[u] = <<>>
      BY <3>1, <3>3
    <3> QED
      BY <1>3, <3>4
  <2>3. CASE u # sock
    <3>1. (Heard(u)' => Heard(u)) /\ out'[u] = out[u] /\ pumps'[u] = pumps[u]
      BY <1>1, <2>1, <2>3 DEF Heard
    <3> QED
      BY <2>1, <3>1, LinkedAside
  <2> QED
    BY <2>2, <2>3
<1>7. ASSUME NEW s \in Sockets, SessionBreaks(s) PROVE Linked'
  <2>1. UNCHANGED <<sock, nameOf, last, conn, out, pumps>> /\ up' = [up EXCEPT ![s] = "closing"]
    BY <1>7 DEF SessionBreaks, client
  <2>2. \A u \in Sockets : up'[u] = "open" => up[u] = "open"
    BY <1>1, <2>1
  <2> QED
    BY <1>2, <2>1, <2>2 DEF Linked
<1>8. ASSUME NEW s \in Sockets, SessionEnds(s) PROVE Linked'
  <2> SUFFICES ASSUME NEW u \in Sockets, NEW r \in Refs PROVE Whole(u, r)'
    BY DEF Linked
  <2>1. /\ UNCHANGED <<sock, nameOf, last, conn, pumps>> /\ up' = [up EXCEPT ![s] = "ended"]
        /\ out' = [out EXCEPT ![s] = <<>>] /\ \A t \in Topics : byName[s][t] = 0
    BY <1>8 DEF SessionEnds, client
  <2>2. CASE u = s
    <3> SUFFICES ASSUME NEW p, p = pumps[s][r] PROVE Whole(u, r)'
      OBVIOUS
    <3>1. PumpOk(p, r, nextRef[s], byName[s], replied[s]) /\ (r < nextRef[s] \/ r >= nextRef[s]) /\ r # 0
      BY <1>1, TableFacts, Bounds DEF Base, Pumped
    <3>2. p.pc = "dead"
      BY <2>1, <3>1 DEF PumpOk, NoPump
    <3> QED
      BY <1>1, <1>3, <2>1, <2>2, <3>2, AheadFacts
  <2>3. CASE u # s
    <3>1. out'[u] = out[u] /\ (up'[u] = "open" => up[u] = "open")
      BY <1>1, <2>1, <2>3
    <3> QED
      BY <1>2, <2>1, <3>1
  <2> QED
    BY <2>2, <2>3
<1>9. ASSUME NEW s \in Sockets, NEW t \in Topics, Release(s, t) PROVE Linked'
  <2> SUFFICES ASSUME NEW u \in Sockets, NEW r \in Refs PROVE Whole(u, r)'
    BY DEF Linked
  <2>1. UNCHANGED <<sock, nameOf, last, conn, out, up>>
    BY <1>9 DEF Release, client
  <2>2. pumps'[u][r] \in {pumps[u][r], Dead(pumps[u][r])}
    <3> SUFFICES ASSUME NEW z, z = Dead(pumps[s][byName[s][t]]) PROVE pumps'[u][r] \in {pumps[u][r], Dead(pumps[u][r])}
      OBVIOUS
    <3>1. pumps' = [pumps EXCEPT ![s][byName[s][t]] = z]
      BY <1>9 DEF Release
    <3>2. pumps'[u][r] = pumps[u][r] \/ (s = u /\ byName[s][t] = r /\ pumps'[u][r] = z)
      BY <1>1, <3>1
    <3> QED
      BY <3>2
  <2> QED
    BY <1>2, <2>1, <2>2
<1> QED
  BY <1>4, <1>5, <1>6, <1>7, <1>8, <1>9, LinkedByReconnect, LinkedByReceive, LinkedBySession, LinkedByPump
  DEF Next, System, SessionSteps

\* Whoever waits for the timer has lost the subscriptions it had.
LEMMA CutStep ==
  ASSUME Base, Base', Routes, Paired, Cut, Next
  PROVE  Cut'
<1> SUFFICES ASSUME conn' = "waiting", NEW r \in Refs, nameOf'[r] # NoTopic PROVE pumps'[sock'][r].pc = "dead"
  BY DEF Cut
<1>1. /\ TypeOK /\ sock \in Sockets /\ pumps \in [Sockets -> [Refs -> Pumps]]
      /\ nameOf \in [Refs -> Topics \cup {NoTopic}]
  BY DEF Base, TypeOK
<1>2. CASE SocketDrops
  <2> SUFFICES ASSUME NEW d, d = [Dead(pumps[sock][r]) EXCEPT !.edge = 0] PROVE pumps'[sock'][r].pc = "dead"
    OBVIOUS
  <2>1. /\ sock' = sock
        /\ pumps' = [pumps EXCEPT ![sock] = [q \in Refs |-> [Dead(pumps[sock][q]) EXCEPT !.edge = 0]]]
    BY <1>2 DEF SocketDrops
  <2>2. pumps'[sock][r] = d
    BY <1>1, <2>1
  <2>3. d.pc = "dead"
    BY <1>1, DeadFacts
  <2> QED
    BY <2>1, <2>2, <2>3
<1>3. ASSUME conn = "waiting", UNCHANGED <<sock, nameOf>>,
             pumps[sock][r].pc = "dead" => pumps'[sock][r].pc = "dead"
      PROVE  pumps'[sock'][r].pc = "dead"
  BY <1>3 DEF Cut
<1>4. ASSUME NEW t \in Topics, Subscribe(t) \/ SendData(t) \/ Publish(t) PROVE pumps'[sock'][r].pc = "dead"
  <2>1. UNCHANGED <<conn, sock, nameOf, pumps>>
    BY <1>4 DEF Subscribe, SendData, Publish, client, sessions
  <2> QED
    BY <1>3, <2>1
<1>5. ~ Open /\ ~ Reconnect /\ ~ ClientReceive
  BY DEF Open, Reconnect, ClientReceive
<1>6. ASSUME NEW s \in Sockets, SessionBreaks(s) \/ SessionEnds(s) PROVE pumps'[sock'][r].pc = "dead"
  <2>1. UNCHANGED <<conn, sock, nameOf, pumps>>
    BY <1>6 DEF SessionBreaks, SessionEnds, client
  <2> QED
    BY <1>3, <2>1
<1>7. ASSUME NEW s \in Sockets, SessionReceive(s) PROVE pumps'[sock'][r].pc = "dead"
  <2> SUFFICES ASSUME NEW f, f = Head(inbox[s]) PROVE pumps'[sock'][r].pc = "dead"
    OBVIOUS
  <2>1. UNCHANGED <<conn, sock, nameOf>> /\ f \in Frames
    BY <1>7, ReceiveTables DEF client
  <2>2. pumps[sock][r].pc = "dead" => pumps'[sock][r].pc = "dead"
    <3>1. CASE f.kind = "subscribe" /\ OpenTopic(s, f.topic)
      <4>1. r < nextRef[sock]
        <5> SUFFICES ASSUME NEW x \in Topics, nameOf[r] = x PROVE r < nextRef[sock]
          BY <1>1, <2>1
        <5>1. refOf[x] = r
          BY DEF Paired
        <5> QED
          BY <5>1, Bounds DEF Routes, Bound
      <4>2. r # nextRef[sock]
        BY <1>1, <4>1, TableFacts, Bounds
      <4> QED
        BY <1>1, <2>1, <3>1, <4>2, ItemFacts, OpenedFacts
    <3>2. CASE f.kind = "data" /\ HandleData(s, f)
      BY <1>1, <2>1, <3>2, DataPumps
    <3> QED
      BY <1>7, <3>1, <3>2 DEF SessionReceive
  <2> QED
    BY <1>3, <2>1, <2>2
<1>8. ASSUME NEW s \in Sockets, NEW t \in Topics, Release(s, t) PROVE pumps'[sock'][r].pc = "dead"
  <2> SUFFICES ASSUME NEW z, z = Dead(pumps[s][byName[s][t]]) PROVE pumps'[sock'][r].pc = "dead"
    OBVIOUS
  <2>1. UNCHANGED <<conn, sock, nameOf>> /\ pumps' = [pumps EXCEPT ![s][byName[s][t]] = z]
    BY <1>8 DEF Release, client
  <2>2. pumps'[sock][r] = pumps[sock][r] \/ pumps'[sock][r] = z
    BY <1>1, <2>1
  <2>3. z.pc = "dead"
    BY DEF Dead
  <2> QED
    BY <1>3, <2>1, <2>2, <2>3
<1>9. ASSUME NEW s \in Sockets, NEW q \in Refs, PumpSteps(s, q) PROVE FALSE
  <2>1. conn = "open" /\ UNCHANGED conn
    BY <1>9, PumpCases DEF PumpSteps, Heard, client
  <2> QED
    BY <2>1
<1> QED
  BY <1>2, <1>4, <1>5, <1>6, <1>7, <1>8, <1>9 DEF Next, System, SessionSteps

-----------------------------------------------------------------------------
(* What a client is sent is what it asked for.                             *)

\* What is in turn up to what the pump sends next is in turn up to what it holds.
LEMMA LinkedGivesNoHole ==
  ASSUME Base, Linked
  PROVE  NoHole
<1> SUFFICES ASSUME NEW s \in Sockets, NEW r \in Refs, NEW q, q = out[s], NEW p, p = pumps[s][r],
                    NEW y, y = IF p.pc = "push" THEN p.held ELSE 0, NEW n, n = Len(q), NEW e, e = p.edge,
                    NEW M, M = Line(q, r, Seen(s, r), y)
             PROVE  /\ \A i, j \in 0..n + 1 :
                         i < j /\ Mark(s, r, i) # 0 /\ Mark(s, r, j) # 0 /\ (\A k \in i + 1..j - 1 : Mark(s, r, k) = 0)
                         => Mark(s, r, j) = Mark(s, r, i) + 1
                    /\ Live(s, r) =>
                         \A j \in (0..n + 1) \ {0} :
                           Mark(s, r, j) # 0 /\ (\A k \in 0..j - 1 : Mark(s, r, k) = 0) => Mark(s, r, j) <= e + 1
  BY DEF NoHole, Live, Pump
<1>1. q \in Seq(Answers) /\ n \in Nat
  <2>1. q \in Seq(Answers)
    BY DEF Base, TypeOK
  <2> QED
    BY <2>1, Places
<1>2. Chained(M) /\ (Live(s, r) => Starts(M, e))
  <2>1. LinkedAt(s, r)
    BY DEF Linked, Whole
  <2>2. y \in {0, Ahead(p)}
    BY DEF Ahead
  <2>3. Follows(Trail(s, r), M, e)
    BY <1>1, <2>2, LineSame DEF Trail
  <2> QED
    BY <2>1, <2>3 DEF Follows, LinkedAt
<1>3. DOMAIN M = 0..n + 1 /\ M[0] = Seen(s, r) /\ M[n + 1] = y /\ \A i \in 1..n : M[i] = Number(q[i], r)
  BY <1>1, LineFacts
<1>4. ASSUME NEW i \in 0..n + 1 PROVE Mark(s, r, i) = M[i]
  <2>1. CASE i = 0
    BY <1>3, <2>1 DEF Mark
  <2>2. CASE i = n + 1
    <3>1. i # 0 /\ i > n
      BY <1>1, <2>2
    <3> QED
      BY <1>3, <2>2, <3>1 DEF Mark, Pump
  <2>3. CASE i \in 1..n
    <3>1. i # 0 /\ ~ i > n
      BY <1>1, <2>3
    <3> QED
      BY <1>3, <2>3, <3>1 DEF Mark, Number
  <2> QED
    BY <1>1, <2>1, <2>2, <2>3
<1>5. ASSUME NEW i \in 0..n + 1, NEW j \in 0..n + 1, i < j, M[i] # 0, M[j] # 0,
             \A k \in i + 1..j - 1 : Mark(s, r, k) = 0
      PROVE  M[j] = M[i] + 1
  <2>1. ASSUME NEW k \in 0..n + 1, i < k, k < j PROVE M[k] = 0
    <3>1. k \in i + 1..j - 1
      BY <1>1, <2>1
    <3> QED
      BY <1>4, <1>5, <3>1
  <2> QED
    BY <1>2, <1>3, <1>5, <2>1 DEF Chained
<1>6. ASSUME Live(s, r), NEW j \in 0..n + 1, j # 0, M[j] # 0, \A k \in 0..j - 1 : Mark(s, r, k) = 0
      PROVE  M[j] <= e + 1
  <2>1. ASSUME NEW k \in 0..n + 1, k < j PROVE M[k] = 0
    <3>1. k \in 0..j - 1
      BY <1>1, <2>1
    <3> QED
      BY <1>4, <1>6, <3>1
  <2> QED
    BY <1>2, <1>3, <1>6, <2>1 DEF Starts
<1> QED
  BY <1>4, <1>5, <1>6

LEMMA StreamsFacts ==
  ASSUME Base, Routes, Linked
  PROVE  StreamsSound
<1>1. RefsAgree
  BY DEF RefsAgree, Routes, Bound, Published, Pump
<1>2. Negotiated
  <2> SUFFICES ASSUME NEW s \in Sockets, NEW f \in ToSet(out[s]), f.kind = "entry", pumps[s][f.ref].topic \in Gated
               PROVE  f.ref \in replied[s]
    BY DEF Negotiated, Pump, ToSet
  <2> QED
    BY DEF Routes, AnswersOk, AnswerOk
<1> QED
  BY <1>1, <1>2, LinkedGivesNoHole DEF StreamsSound

\* All that is kept beside the types, the pumps and the names.
Flow == Pristine /\ Routes /\ Talks /\ Paired /\ Linked /\ Cut

LEMMA FlowInit == Init => Base /\ Flow
<1> SUFFICES ASSUME Init PROVE Flow
  BY BaseInit
<1>1. Base
  BY BaseInit
<1>2. Pristine
  <2>1. sock = 1 /\ conn = "connecting" /\ \A s \in Sockets : up[s] = "none"
    BY DEF Init
  <2> QED
    BY <1>1, <2>1 DEF Init, Pristine, Base, TypeOK
<1>3. \A x : ToSet(<<>>) = {} /\ Single(<<>>, x)
  BY DEF ToSet, Single
<1>4. Routes
  <2>1. /\ \A s \in Sockets : ToSet(inbox[s]) = {} /\ ToSet(out[s]) = {}
        /\ \A t \in Topics : refOf[t] = 0 /\ DOMAIN log[t] = {}
    BY <1>3 DEF Init
  <2> QED
    BY <2>1 DEF Routes, FramesOk, AnswersOk, Bound, Published
<1>5. \A s \in Sockets, r \in Refs : pumps[s][r] = NoPump
  BY DEF Init
<1>6. sock \in Sockets
  BY <1>1 DEF Base, TypeOK
<1>7. Talks
  <2> SUFFICES ASSUME NEW t \in Topics PROVE Once(t) /\ InTurn(t)
    BY DEF Talks
  <2>1. inbox[sock] = <<>> /\ out[sock] = <<>> /\ outbox = <<>> /\ refOf[t] = 0
    BY <1>6 DEF Init
  <2>2. Once(t)
    BY <1>3, <2>1 DEF Once, Single2, Asking
  <2>3. Dark(pumps[sock], t)
    BY <1>5, <1>6 DEF Dark, NoPump
  <2>4. Order(<<>>, t, pumps[sock]) /\ Silent(<<>>, t, pumps[sock])
    BY <1>3 DEF Order, Silent
  <2> QED
    BY <2>1, <2>2, <2>3, <2>4 DEF InTurn, Quiet
<1>8. Paired
  <2>1. \A t \in Topics, r \in Refs : refOf[t] = 0 /\ nameOf[r] = NoTopic
    BY DEF Init
  <2> QED
    BY <2>1, Bounds DEF Paired
<1>9. Cut
  BY DEF Init, Cut
<1>10. Linked
  <2> SUFFICES ASSUME NEW s \in Sockets, NEW r \in Refs, NEW T, T = Trail(s, r) PROVE Whole(s, r)
    BY DEF Linked
  <2>1. out[s] = <<>> /\ Seen(s, r) = 0 /\ Ahead(pumps[s][r]) = 0
    <3>1. Ahead(NoPump) = 0
      BY DEF Ahead, NoPump
    <3> QED
      BY <1>5, <3>1 DEF Init, Seen
  <2>2. T = Line(<<>>, r, 0, 0)
    BY <2>1 DEF Trail
  <2>3. <<>> \in Seq(Answers) /\ \A i \in DOMAIN <<>> : Number((<<>>)[i], r) = 0
    OBVIOUS
  <2>4. \A e : Chained(T) /\ Starts(T, e) /\ ~ Sends(T)
    BY <2>2, <2>3, LineNew
  <2> QED
    BY <2>4 DEF Whole, LinkedAt, Pledged
<1> QED
  BY <1>2, <1>4, <1>7, <1>8, <1>9, <1>10 DEF Flow

LEMMA FlowStep ==
  ASSUME Base, Base', Grows, Flow, Next
  PROVE  Flow'
<1>1. Pristine' /\ Routes'
  BY PristineStep, RoutesStep DEF Flow
<1>2. Talks' /\ Paired'
  BY TalksStep, PairedStep DEF Flow
<1>3. Linked' /\ Cut'
  BY LinkedStep, CutStep DEF Flow
<1> QED
  BY <1>1, <1>2, <1>3 DEF Flow

LEMMA FlowStutter == Flow /\ UNCHANGED vars => Flow'
<1> SUFFICES ASSUME Flow, UNCHANGED <<conn, sock, refOf, nameOf, intent, outbox, told, last, sends, up, inbox, out,
                                      byName, nextRef, pumps, replied, log, counts, active>>
             PROVE  Flow'
  BY DEF vars, client, sessions, process
<1>1. Pristine' /\ Paired' /\ Cut'
  BY DEF Flow, Pristine, Heard, Paired, Cut
<1>2. Routes'
  BY DEF Flow, Routes, FramesOk, AnswersOk, Bound, Published
<1>3. Talks'
  BY DEF Flow, Talks, Once, Unasked, Asking, InTurn, Quiet
<1>4. Linked'
  BY DEF Flow, Linked, Whole, LinkedAt, Live, Pledged, Acked, Pump, Trail, Seen, Heard
<1> QED
  BY <1>1, <1>2, <1>3, <1>4 DEF Flow

\* What a client is sent is what it asked for, over any number of reconnects and of late
\* sessions: a payload is published to the topic it was meant for and delivered to the
\* handler of its own; the entries of a subscription follow each other without a hole,
\* from no later than the first that was published after it; and a gated topic sends
\* nothing before its own hello has been answered.
THEOREM StreamsSoundHolds == Spec => []StreamsSound
<1>1. Init => Shape
  BY GatewayAssumption DEF Init, Shape, PumpShape, NoPump, Sockets
<1>2. Base /\ UNCHANGED vars => Base'
  BY DEF Base, TypeOK, Pumped, PumpOk, Named, vars, client, sessions, process
<1>3. Shape /\ Base /\ Flow /\ GatewaySound /\ [Next]_vars => Base' /\ Flow'
  <2> SUFFICES ASSUME Shape, Base, Flow, GatewaySound, [Next]_vars PROVE Base' /\ Flow'
    OBVIOUS
  <2>1. Shape'
    BY SoundStep DEF Kept
  <2>2. counts' \in [Topics -> Nat]
    BY <2>1 DEF Shape
  <2>3. CASE Next
    <3>1. Base' /\ Grows
      BY <2>2, <2>3, BaseStep
    <3> QED
      BY <2>3, <3>1, FlowStep
  <2>4. CASE UNCHANGED vars
    BY <1>2, <2>4, FlowStutter
  <2> QED
    BY <2>3, <2>4
<1>4. Base /\ Flow => StreamsSound
  BY StreamsFacts DEF Flow
<1>5. Spec => [](Base /\ Flow)
  BY <1>3, FlowInit, BaseHolds, GatewaySoundHolds, PTL DEF Spec
<1> QED
  BY <1>4, <1>5, PTL
=============================================================================
