------------------------------ MODULE WsGateway ------------------------------
(***************************************************************************)
(* The WebSocket gateway of pocopine-realtime and its browser client: one  *)
(* client that reconnects, the session the server keeps for each of its    *)
(* sockets, the pump that forwards a topic to a session, and the           *)
(* in-process fan-out.  The session of a lost socket lives on until the    *)
(* server notices, next to its successor's.                                *)
(*                                                                         *)
(* A gated topic belongs to a sub-protocol whose handler keeps the         *)
(* outbound gate closed until it has accepted the client's hello           *)
(* (collab); any other topic is a relay.  The client never sends Resume    *)
(* or Unsubscribe, and every topic is allowed.                             *)
(***************************************************************************)
EXTENDS Naturals, Sequences, FiniteSets, SequencesExt

CONSTANTS
  Topics,
  Gated,        \* topics whose handler starts with the gate closed
  Capacity,     \* entries the fan-out retains, and its broadcast channel holds
  OutCap,       \* GatewayConfig::outbound_queue
  MaxQueued,    \* MAX_QUEUED_DATA
  MaxSockets,   \* bound on connections; the last one is not broken by the network
  MaxRefs,      \* bound on the subscriptions of a session
  MaxLog,       \* bound on a topic's log, by topic
  MaxSends      \* bound on send_data calls

ASSUME GatewayAssumption ==
  /\ Gated \subseteq Topics /\ IsFiniteSet(Topics) /\ "none" \notin Topics
  /\ Capacity \in Nat \ {0} /\ OutCap \in Nat \ {0} /\ MaxQueued \in Nat \ {0}
  /\ MaxSockets \in Nat \ {0} /\ MaxRefs \in Nat \ {0} /\ MaxSends \in Nat
  /\ MaxLog \in [Topics -> Nat]

VARIABLES
  \* the client
  conn,      \* the socket as the client sees it
  sock,      \* the current socket, by number
  refOf,     \* ClientSession::topic_ref, 0 for none
  nameOf,    \* ClientSession::topic_name
  intent,    \* Inner::subscriptions
  outbox,    \* Inner::outbox
  told,      \* history: topics whose Gap the client has been given
  last,      \* history: the last seq delivered under a topic's binding
  sends,     \* how many payloads the application has sent
  \* the server, by socket
  up,        \* the session task
  inbox,     \* frames on their way to the session
  out,       \* the outbound queue, the socket behind it included
  byName,    \* Session::topic_by_name, 0 for none
  nextRef,   \* Session::next_topic_ref
  pumps,     \* TopicEntry and its pump task, by ref
  replied,   \* history: refs whose hello has been answered
  \* the server process
  log,       \* all that was published to a topic; its tail is retained
  counts,    \* subscriber_counts
  active     \* topics whose handler was last told on_topic_active

client   == <<conn, sock, refOf, nameOf, intent, outbox, told, last, sends>>
sessions == <<up, inbox, out, byName, nextRef, pumps, replied>>
process  == <<log, counts, active>>
vars     == <<client, sessions, process>>

Sockets == 1..MaxSockets
Refs    == 1..MaxRefs
NoTopic == "none"

\* What the client sends ...
SubFrame(t)        == [kind |-> "subscribe", topic |-> t]
DataFrame(t, r, w) == [kind |-> "data", topic |-> t, ref |-> r, what |-> w]
\* ... what it queues ...
Data(t, w)         == [kind |-> "data", topic |-> t, what |-> w]
\* ... and what it is sent.
Ack(t, r)          == [kind |-> "ack", topic |-> t, ref |-> r]
Entry(r, seq)      == [kind |-> "entry", ref |-> r, seq |-> seq]
Reply(r)           == [kind |-> "reply", ref |-> r]
Gap(t)             == [kind |-> "gap", topic |-> t]
Error              == [kind |-> "error"]

\* An entry past the gate is never held back again: a gate is opened once.
NoPump == [topic |-> NoTopic, gate |-> FALSE, woken |-> FALSE, pc |-> "dead",
           next |-> 0, edge |-> 0, held |-> 0]

Dead(p) == [topic |-> p.topic, gate |-> p.gate, woken |-> FALSE, pc |-> "dead",
            next |-> 0, edge |-> p.edge, held |-> 0]

Init ==
  /\ conn = "connecting" /\ sock = 1
  /\ refOf = [t \in Topics |-> 0] /\ nameOf = [r \in Refs |-> NoTopic]
  /\ intent = {} /\ outbox = <<>> /\ told = {}
  /\ last = [t \in Topics |-> 0] /\ sends = 0
  /\ up = [s \in Sockets |-> "none"]
  /\ inbox = [s \in Sockets |-> <<>>] /\ out = [s \in Sockets |-> <<>>]
  /\ byName = [s \in Sockets |-> [t \in Topics |-> 0]]
  /\ nextRef = [s \in Sockets |-> 1]
  /\ pumps = [s \in Sockets |-> [r \in Refs |-> NoPump]]
  /\ replied = [s \in Sockets |-> {}]
  /\ log = [t \in Topics |-> <<>>]
  /\ counts = [t \in Topics |-> 0] /\ active = {}

-----------------------------------------------------------------------------
(* The client.                                                             *)

Ready(item, refs) == item.kind = "subscribe" \/ refs[item.topic] # 0
Framed(item, refs) ==
  IF item.kind = "subscribe" THEN item ELSE DataFrame(item.topic, refs[item.topic], item.what)

\* The k-th of a set of places, and the items of a queue at such places, in order.
Nth(at, k) == CHOOSE i \in at : Cardinality({j \in at : j <= i}) = k
Picked(q, at) == [k \in 1..Cardinality(at) |-> q[Nth(at, k)]]

\* Inner::flush over the queue `q`: what can be addressed leaves, in order, and the rest
\* stays.
Sent(q, refs) ==
  LET ready == Picked(q, {i \in DOMAIN q : Ready(q[i], refs)})
  IN [k \in DOMAIN ready |-> Framed(ready[k], refs)]
Stays(q, refs) == Picked(q, {i \in DOMAIN q : ~ Ready(q[i], refs)})

Flush(q, refs) ==
  IF conn' = "open"
  THEN outbox' = Stays(q, refs) /\ inbox' = [inbox EXCEPT ![sock] = @ \o Sent(q, refs)]
  ELSE outbox' = q /\ UNCHANGED inbox

\* Mutant of QueueData: past the cap the oldest item goes, whatever it is.
QueueDropAny(q, item) == IF Len(q) >= MaxQueued THEN Append(Tail(q), item) ELSE Append(q, item)

\* Inner::queue_data: past the cap the oldest data goes.
QueueData(q, item) ==
  LET full == Append(q, item)
      data == {i \in DOMAIN full : full[i].kind = "data"}
  IN IF Len(full) > MaxQueued THEN RemoveAt(full, Nth(data, 1)) ELSE full

\* RealtimeClient::subscribe: at first, and again by a consumer that was told of a gap.
Subscribe(t) ==
  /\ t \notin intent \/ t \in told
  /\ intent' = intent \cup {t} /\ told' = told \ {t}
  /\ UNCHANGED <<conn, sock, refOf, nameOf, last, sends>>
  /\ Flush(Append(outbox, SubFrame(t)), refOf)
  /\ UNCHANGED <<up, out, byName, nextRef, pumps, replied, process>>

SendData(t) ==
  /\ t \in intent /\ sends < MaxSends
  /\ sends' = sends + 1
  /\ UNCHANGED <<conn, sock, refOf, nameOf, intent, told, last>>
  /\ Flush(QueueData(outbox, Data(t, "edit")), refOf)
  /\ UNCHANGED <<up, out, byName, nextRef, pumps, replied, process>>

\* handle_open; the server's session starts with the upgrade.
Open ==
  /\ conn = "connecting" /\ conn' = "open"
  /\ up' = [up EXCEPT ![sock] = "open"]
  /\ Flush(outbox, refOf)
  /\ UNCHANGED <<sock, refOf, nameOf, intent, told, last, sends,
                 out, byName, nextRef, pumps, replied, process>>

Take(s) == out' = [out EXCEPT ![s] = Tail(@)]

\* SubscribeAck: the ref is bound, the queue flushed, and then the observer of a gated
\* topic says hello.
OnAck(t, r) ==
  LET refs  == [refOf EXCEPT ![t] = r]
      hello == IF t \in Gated THEN <<DataFrame(t, r, "hello")>> ELSE <<>>
  IN /\ refOf' = refs /\ nameOf' = [nameOf EXCEPT ![r] = t]
     /\ last' = [last EXCEPT ![t] = 0]
     /\ outbox' = Stays(outbox, refs)
     /\ inbox' = [inbox EXCEPT ![sock] = @ \o Sent(outbox, refs) \o hello]
     /\ UNCHANGED told

\* Gap: the ref is dropped, and the observer told.
OnGap(t) ==
  /\ refOf' = [refOf EXCEPT ![t] = 0]
  /\ nameOf' = IF refOf[t] = 0 THEN nameOf ELSE [nameOf EXCEPT ![refOf[t]] = NoTopic]
  /\ told' = told \cup {t}
  /\ UNCHANGED <<last, outbox, inbox>>

\* Data goes to the handler of the topic its ref is bound to.
OnEntry(r, seq) ==
  /\ last' = IF nameOf[r] = NoTopic THEN last ELSE [last EXCEPT ![nameOf[r]] = seq]
  /\ UNCHANGED <<refOf, nameOf, told, outbox, inbox>>

\* handle_message
ClientReceive ==
  /\ conn = "open" /\ up[sock] \in {"open", "closing"} /\ out[sock] # <<>>
  /\ Take(sock)
  /\ LET f == Head(out[sock])
     IN \/ f.kind = "ack" /\ OnAck(f.topic, f.ref)
        \/ f.kind = "gap" /\ OnGap(f.topic)
        \/ f.kind = "entry" /\ OnEntry(f.ref, f.seq)
        \/ f.kind \in {"reply", "error"} /\ UNCHANGED <<refOf, nameOf, told, last, outbox, inbox>>
  /\ UNCHANGED <<conn, sock, intent, sends, up, byName, nextRef, pumps, replied, process>>

\* handle_close: the network, or the end of the server's session.  What the old session
\* still sends is seen by nobody, and its pumps are left out from here on.
SocketDrops ==
  /\ conn \in {"connecting", "open"}
  /\ sock < MaxSockets \/ up[sock] = "ended"
  /\ conn' = "waiting"
  /\ out' = [out EXCEPT ![sock] = <<>>]
  /\ pumps' = [pumps EXCEPT ![sock] = [r \in Refs |-> [Dead(@[r]) EXCEPT !.edge = 0]]]
  /\ UNCHANGED <<sock, refOf, nameOf, intent, outbox, told, last, sends,
                 up, inbox, byName, nextRef, replied, process>>

\* reconnect, when the timer fires: a new session, every topic subscribed anew, in the
\* order of a hash map, ahead of the data that waited.
Reconnect ==
  /\ conn = "waiting" /\ sock < MaxSockets
  /\ conn' = "connecting" /\ sock' = sock + 1
  /\ refOf' = [t \in Topics |-> 0] /\ nameOf' = [r \in Refs |-> NoTopic]
  /\ told' = {} /\ last' = [t \in Topics |-> 0]
  /\ \E subs \in SetToSeqs(intent) :
       outbox' = [i \in DOMAIN subs |-> SubFrame(subs[i])]
                 \o Picked(outbox, {i \in DOMAIN outbox : outbox[i].kind = "data"})
  /\ UNCHANGED <<intent, sends, sessions, process>>

-----------------------------------------------------------------------------
(* The session task of socket s.                                           *)

\* Mutant of Room: one frame more than the queue holds.
RoomForOneMore(s) == Len(out[s]) <= OutCap

Room(s) == Len(out[s]) < OutCap
Heard(s) == s = sock /\ conn = "open"

\* Session::send: never waits; a full queue closes the session.
TrySend(s, frame) ==
  IF ~ Heard(s) THEN UNCHANGED <<out, up>>
  ELSE IF Room(s) THEN out' = [out EXCEPT ![s] = Append(@, frame)] /\ UNCHANGED up
             ELSE up' = [up EXCEPT ![s] = "closing"] /\ UNCHANGED out

Earliest(t) == IF Len(log[t]) > Capacity THEN Len(log[t]) - Capacity + 1 ELSE 1

\* A subscription and its pump: what is retained, then what comes after `edge`.
NewPump(t) == [topic |-> t, gate |-> t \notin Gated, woken |-> FALSE, pc |-> "gate",
               next |-> Earliest(t), edge |-> Len(log[t]), held |-> 0]

\* topic_subscribed and topic_unsubscribed, the handler told under the lock.
Joined(t) ==
  /\ counts' = [counts EXCEPT ![t] = @ + 1]
  /\ active' = IF counts[t] = 0 THEN active \cup {t} ELSE active

Left(t) ==
  /\ counts' = [counts EXCEPT ![t] = @ - 1]
  /\ active' = IF counts[t] = 1 THEN active \ {t} ELSE active

\* open_topic for a fresh Subscribe: an earlier subscription of the session to the same
\* topic is replaced, and its pump aborted.
OpenTopic(s, t) ==
  LET r   == nextRef[s]
      old == byName[s][t] IN
  /\ r <= MaxRefs
  /\ nextRef' = [nextRef EXCEPT ![s] = r + 1]
  /\ byName' = [byName EXCEPT ![s][t] = r]
  /\ pumps' = [pumps EXCEPT ![s] = [q \in Refs |->
       IF q = r THEN NewPump(t) ELSE IF q = old THEN Dead(@[q]) ELSE @[q]]]
  /\ IF old = 0 THEN Joined(t) ELSE UNCHANGED <<counts, active>>
  /\ TrySend(s, Ack(t, r))
  /\ UNCHANGED <<log, replied>>

Known(s, r) == \E t \in Topics : byName[s][t] = r
Publishing(t) == log' = [log EXCEPT ![t] = Append(@, t)]

\* An accepted hello: the reply is queued, then the gate opened and the pump woken.
Hello(s, r) ==
  /\ IF Room(s) THEN /\ pumps' = [pumps EXCEPT ![s][r] = [@ EXCEPT !.gate = TRUE, !.woken = TRUE]]
                     /\ replied' = [replied EXCEPT ![s] = @ \cup {r}]
                ELSE UNCHANGED <<pumps, replied>>
  /\ TrySend(s, Reply(r))
  /\ UNCHANGED log

\* handle_data: an error for a ref the session does not know and, on a gated topic, for
\* anything before the hello; otherwise the payload is published.
HandleData(s, f) ==
  LET t == pumps[s][f.ref].topic IN
  /\ \/ /\ ~ Known(s, f.ref) \/ (t \in Gated /\ f.what # "hello" /\ f.ref \notin replied[s])
        /\ TrySend(s, Error)
        /\ UNCHANGED <<pumps, replied, log>>
     \/ Known(s, f.ref) /\ t \in Gated /\ f.what = "hello" /\ Hello(s, f.ref)
     \/ /\ Known(s, f.ref) /\ (t \in Gated => f.what # "hello" /\ f.ref \in replied[s])
        /\ log' = [log EXCEPT ![t] = Append(@, f.topic)]
        /\ UNCHANGED <<up, out, pumps, replied>>
  /\ UNCHANGED <<nextRef, byName, counts, active>>

SessionReceive(s) ==
  /\ up[s] = "open" /\ inbox[s] # <<>>
  /\ inbox' = [inbox EXCEPT ![s] = Tail(@)]
  /\ LET f == Head(inbox[s])
     IN \/ f.kind = "subscribe" /\ OpenTopic(s, f.topic)
        \/ f.kind = "data" /\ HandleData(s, f)
  /\ UNCHANGED client

\* The peer is gone, or missed its heartbeats.
SessionBreaks(s) ==
  /\ up[s] = "open"
  /\ s < MaxSockets \/ ~ Heard(s)
  /\ up' = [up EXCEPT ![s] = "closing"]
  /\ UNCHANGED <<client, inbox, out, byName, nextRef, pumps, replied, process>>

\* shutdown, one topic at a time, and the end of the writer.
Release(s, t) ==
  /\ up[s] = "closing" /\ byName[s][t] # 0
  /\ byName' = [byName EXCEPT ![s][t] = 0]
  /\ pumps' = [pumps EXCEPT ![s][byName[s][t]] = Dead(@)]
  /\ Left(t)
  /\ UNCHANGED <<client, up, inbox, out, nextRef, replied, log>>

SessionEnds(s) ==
  /\ up[s] = "closing" /\ \A t \in Topics : byName[s][t] = 0
  /\ up' = [up EXCEPT ![s] = "ended"]
  /\ inbox' = [inbox EXCEPT ![s] = <<>>] /\ out' = [out EXCEPT ![s] = <<>>]
  /\ UNCHANGED <<client, byName, nextRef, pumps, replied, process>>

-----------------------------------------------------------------------------
(* The pump of ref r, and the rest of the process.                         *)

Pump(s, r) == pumps[s][r]
Step(s, r, p) == pumps' = [pumps EXCEPT ![s][r] = p]
PumpOnly == UNCHANGED <<client, up, inbox, out, byName, nextRef, replied, process>>

\* Mutant of PumpGate: the flag is checked before the waiter is registered.
PumpChecksFirst(s, r) ==
  LET p == Pump(s, r) IN
  /\ \/ p.pc = "gate" /\ Step(s, r, [p EXCEPT !.pc = IF p.gate THEN "next" ELSE "armed"])
     \/ p.pc = "armed" /\ Step(s, r, [p EXCEPT !.pc = "parked", !.woken = FALSE])
     \/ p.pc = "parked" /\ p.woken /\ Step(s, r, [p EXCEPT !.pc = "gate"])
  /\ PumpOnly

\* wait_until_open: the waiter is registered before the flag is read.
PumpGate(s, r) ==
  LET p == Pump(s, r) IN
  /\ \/ p.pc = "gate"
        /\ Step(s, r, IF p.gate THEN [p EXCEPT !.pc = "next"]
                                ELSE [p EXCEPT !.pc = "armed", !.woken = FALSE])
     \/ p.pc = "armed" /\ Step(s, r, [p EXCEPT !.pc = IF p.gate THEN "next" ELSE "parked"])
     \/ p.pc = "parked" /\ p.woken /\ Step(s, r, [p EXCEPT !.pc = "gate"])
  /\ PumpOnly

\* The broadcast receiver stands at `edge` until the replay is delivered.
Behind(p) == LET seen == IF p.next > p.edge THEN p.next - 1 ELSE p.edge
             IN p.next > p.edge /\ Len(log[p.topic]) - seen > Capacity

\* Mutant of PumpNext: a receiver that lagged goes on at the oldest entry left.
PumpSkips(s, r) ==
  LET p == Pump(s, r)
      n == IF Behind(p) THEN Earliest(p.topic) ELSE p.next IN
  /\ p.pc = "next"
  /\ n <= Len(log[p.topic])
  /\ Step(s, r, [p EXCEPT !.pc = "push", !.held = n, !.next = n + 1])
  /\ PumpOnly

\* TopicStream::next: replay first, then the live tail, which may have lost the pump.
PumpNext(s, r) ==
  LET p == Pump(s, r) IN
  /\ p.pc = "next"
  /\ \/ Behind(p) /\ Step(s, r, [p EXCEPT !.pc = "gap"])
     \/ /\ ~ Behind(p) /\ p.next <= Len(log[p.topic])
        /\ Step(s, r, [p EXCEPT !.pc = "push", !.held = p.next, !.next = @ + 1])
  /\ PumpOnly

\* The entry, or the Gap that ends the pump, waits for room.
PumpSend(s, r) ==
  LET p == Pump(s, r) IN
  /\ Room(s)
  /\ \/ /\ p.pc = "push" /\ Step(s, r, [p EXCEPT !.pc = "next", !.held = 0])
        /\ out' = [out EXCEPT ![s] = Append(@, Entry(r, p.held))]
     \/ /\ p.pc = "gap" /\ Step(s, r, Dead(p))
        /\ out' = [out EXCEPT ![s] = Append(@, Gap(p.topic))]
  /\ UNCHANGED <<client, up, inbox, byName, nextRef, replied, process>>

\* Another client's payload, or another process's.
Publish(t) ==
  /\ Len(log[t]) < MaxLog[t]
  /\ Publishing(t)
  /\ UNCHANGED <<client, sessions, counts, active>>

PumpSteps(s, r) == Heard(s) /\ (PumpGate(s, r) \/ PumpNext(s, r) \/ PumpSend(s, r))
SessionSteps(s) == SessionReceive(s) \/ SessionEnds(s) \/ \E t \in Topics : Release(s, t)

\* What happens of itself: the browser delivers its events and timers, the tasks of the
\* server run, and a session notices in the end that its peer is gone.
System ==
  \/ Open \/ ClientReceive \/ Reconnect
  \/ up[sock] = "ended" /\ SocketDrops
  \/ \E s \in Sockets : \/ SessionSteps(s)
                        \/ ~ Heard(s) /\ SessionBreaks(s)
                        \/ \E r \in Refs : PumpSteps(s, r)

Next ==
  \/ System
  \/ \E t \in Topics : Subscribe(t) \/ SendData(t) \/ Publish(t)
  \/ SocketDrops \/ \E s \in Sockets : SessionBreaks(s)

Spec == Init /\ [][Next]_vars

FairSpec == Spec /\ WF_vars(System)

-----------------------------------------------------------------------------
Items  == [kind : {"subscribe"}, topic : Topics]
          \cup [kind : {"data"}, topic : Topics, what : {"hello", "edit"}]
Frames == [kind : {"subscribe"}, topic : Topics]
          \cup [kind : {"data"}, topic : Topics, ref : Refs, what : {"hello", "edit"}]
Answers == [kind : {"ack"}, topic : Topics, ref : Refs]
           \cup [kind : {"entry"}, ref : Refs, seq : Nat]
           \cup [kind : {"reply"}, ref : Refs] \cup [kind : {"gap"}, topic : Topics]
           \cup {Error}
Pumps == [topic : Topics \cup {NoTopic}, gate : BOOLEAN, woken : BOOLEAN,
          pc : {"gate", "armed", "parked", "next", "push", "gap", "dead"},
          next : Nat, edge : Nat, held : Nat]

TypeOK ==
  /\ conn \in {"connecting", "open", "waiting"} /\ sock \in Sockets
  /\ refOf \in [Topics -> Refs \cup {0}] /\ nameOf \in [Refs -> Topics \cup {NoTopic}]
  /\ intent \subseteq Topics /\ told \subseteq Topics
  /\ outbox \in Seq(Items) /\ last \in [Topics -> Nat] /\ sends \in 0..MaxSends
  /\ up \in [Sockets -> {"none", "open", "closing", "ended"}]
  /\ inbox \in [Sockets -> Seq(Frames)] /\ out \in [Sockets -> Seq(Answers)]
  /\ \A s \in Sockets : Len(out[s]) <= OutCap
  /\ byName \in [Sockets -> [Topics -> Refs \cup {0}]]
  /\ nextRef \in [Sockets -> 1..MaxRefs + 1] /\ pumps \in [Sockets -> [Refs -> Pumps]]
  /\ replied \in [Sockets -> SUBSET Refs]
  /\ log \in [Topics -> Seq(Topics)] /\ counts \in [Topics -> Nat] /\ active \subseteq Topics

\* Refs are per session: what the client calls t on its current socket is what that
\* session calls t, so no payload is published into another topic, by a late session
\* either, and none is handed to another topic's handler.
RefsAgree ==
  /\ conn = "open" => \A t \in Topics : refOf[t] # 0 => Pump(sock, refOf[t]).topic = t
  /\ \A t \in Topics : \A i \in DOMAIN log[t] : log[t][i] = t

\* What the client has seen of a subscription.
Seen(s, r) == IF s = sock /\ nameOf[r] # NoTopic THEN last[nameOf[r]] ELSE 0

\* The numbers of a subscription on their way, by place: what the client has seen is at 0,
\* then come the places of the queue, and last what the pump holds; 0 where none of it is.
Mark(s, r, i) ==
  IF i = 0 THEN Seen(s, r)
  ELSE IF i > Len(out[s]) THEN (IF Pump(s, r).pc = "push" THEN Pump(s, r).held ELSE 0)
  ELSE IF out[s][i].kind = "entry" /\ out[s][i].ref = r THEN out[s][i].seq ELSE 0

\* The client was told of the subscription, or will be: on a session that closes because
\* its queue is full, the ack of the last one is lost, and its pump runs until it is
\* released.
Acked(s, r) == (s = sock /\ nameOf[r] # NoTopic) \/ \E i \in DOMAIN out[s] : out[s][i] = Ack(Pump(s, r).topic, r)

\* A subscription delivers without a hole, from no later than the first entry published
\* after it: what the client has seen of it, what is queued and what the pump holds follow
\* each other; a pump that lost its place says so instead.
NoHole ==
  \A s \in Sockets, r \in Refs :
    LET places == 0..Len(out[s]) + 1 IN
    /\ \A i, j \in places :
         /\ i < j /\ Mark(s, r, i) # 0 /\ Mark(s, r, j) # 0
         /\ \A k \in i + 1..j - 1 : Mark(s, r, k) = 0
         => Mark(s, r, j) = Mark(s, r, i) + 1
    /\ up[s] = "open" \/ Acked(s, r) =>
         \A j \in places \ {0} :
           Mark(s, r, j) # 0 /\ (\A k \in 0..j - 1 : Mark(s, r, k) = 0)
           => Mark(s, r, j) <= Pump(s, r).edge + 1

\* A gated subscription sends no entry before its own hello has been answered.
Negotiated ==
  \A s \in Sockets : \A i \in DOMAIN out[s] :
    LET f == out[s][i]
    IN f.kind = "entry" /\ Pump(s, f.ref).topic \in Gated => f.ref \in replied[s]

\* What a client is sent is what it asked for: the right topic, without holes, and
\* nothing before the handshake.
StreamsSound == RefsAgree /\ NoHole /\ Negotiated

\* The handler's state follows the subscriptions: the count of a topic is the number of
\* sessions that hold it, and the handler is active exactly when there is one.
CountsTrue ==
  \A t \in Topics :
    /\ counts[t] = Cardinality({s \in Sockets : byName[s][t] # 0})
    /\ t \in active <=> counts[t] > 0

\* No wake-up is lost: a pump that waits for its gate waits for one that is closed, or
\* has been woken.
GateWakes ==
  \A s \in Sockets, r \in Refs :
    Pump(s, r).pc = "parked" => ~ Pump(s, r).gate \/ Pump(s, r).woken

\* What the server keeps on the side is in step with its sessions.
GatewaySound == CountsTrue /\ GateWakes

Spent == conn = "waiting" /\ sock = MaxSockets
Waits(t) == \E i \in DOMAIN outbox : outbox[i] = Data(t, "edit")

\* What send_data queued leaves the outbox, over any number of reconnects, unless the
\* client was told of a gap in its topic and has not subscribed again.
QueuedGoesOut ==
  (\E t \in Topics : Waits(t)) ~> (Spent \/ \A t \in Topics : Waits(t) => t \in told)
=============================================================================
