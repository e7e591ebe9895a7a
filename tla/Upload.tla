------------------------------- MODULE Upload -------------------------------
(***************************************************************************)
(* Resumable uploads to the local filesystem (pocopine-storage): the       *)
(* browser's two senders, the handlers of the server, and what they leave  *)
(* on the disk.                                                            *)
(*                                                                         *)
(*  - A session is a directory with its metadata (session.json, replaced   *)
(*    by a rename) and its bytes (bytes.tmp); the finished object is a     *)
(*    file elsewhere, named by a key of the session's own.                 *)
(*  - A handler looks at the session, waits for the session's mutex and    *)
(*    hands the work to a thread of the blocking pool, where each access   *)
(*    to the filesystem is a step: read the metadata, bring the bytes to   *)
(*    the committed length, write, commit.                                 *)
(*  - The native sender appends the chunks with PATCH and then completes   *)
(*    the upload; the resumable (tus) one only sends PATCH, whose handler  *)
(*    completes the upload when the last byte is in.                       *)
(*                                                                         *)
(* The process may stop between any two steps (its files stay as they      *)
(* are), connections may drop, answers may get lost, pages are reloaded,   *)
(* and the tabs of a page share the session they keep in local storage.    *)
(* Sessions run out, and a sweep that takes no mutex looks for them and    *)
(* empties their directories, one entry at a time.                         *)
(***************************************************************************)
EXTENDS Naturals, Sequences

CONSTANTS
    Tabs,         \* the tabs that upload the file
    Size,         \* bytes of the file
    ChunkLen,     \* bytes of a chunk
    RetryLimit,   \* retries of one request
    Detach,       \* may a connection drop while its blocking task runs?
    MaxSessions,  \* sessions created
    MaxSends,     \* calls of send
    MaxCrashes,   \* stops of the server
    MaxLost       \* connections dropped, answers lost and pages reloaded

ASSUME SizesAssumption == Size \in Nat \ {0} /\ ChunkLen \in Nat \ {0}
ASSUME BoundsAssumption ==
    {RetryLimit, MaxSessions, MaxSends, MaxCrashes, MaxLost} \subseteq Nat
ASSUME DetachAssumption == Detach \in BOOLEAN

VARIABLES
    meta,     \* session.json
    tmp,      \* bytes.tmp, or Gone
    object,   \* the file under the object's key, or Gone
    late,     \* the sessions whose time is over
    sweeping, \* the sessions that sweeps have found expired and are removing
    task,     \* the request of each tab in its handler, and the work of a lost one
    holder,   \* who holds the mutex of a session
    proto,    \* the sender in use
    tab,      \* the senders
    stored,   \* the session in local storage, or 0
    made,     \* sessions created so far
    sends,    \* sends so far
    crashes,  \* crashes so far
    lost      \* losses so far

disk == <<meta, tmp, object>>
server == <<task, holder>>
bounds == <<made, sends, crashes, lost>>
clock == <<late, sweeping>>
vars == <<disk, clock, server, proto, tab, stored, bounds>>

Sessions == 1..MaxSessions
File == [i \in 1..Size |-> i]
Gone == <<0>>
Free == "free"
Loose == "loose"   \* blocking work whose handler is gone: one at a time

ASSUME TabsAssumption == {Free, Loose} \cap Tabs = {}

Tasks == Tabs \cup {Loose}
NoTask == [op |-> "none", sess |-> 0, offset |-> 0, pc |-> Free, seen |-> 0]
Idle == [phase |-> "idle", sess |-> 0, offset |-> 0, tries |-> 0, reply |-> "none", told |-> 0]

(* The largest of the offsets a chunk that starts at an offset may end at. *)
ChunkEnd(offset) == IF offset + ChunkLen < Size THEN offset + ChunkLen ELSE Size

(* A session as a read of its metadata shows it: an open one whose time is *)
(* over has expired.                                                       *)
Status(s) == IF meta[s].status = "open" /\ s \in late THEN "expired" ELSE meta[s].status
Known(s) == s # 0 /\ meta[s].status # "none"

(* The directory of a session has lost its entries to a sweep, which       *)
(* removes it last: it may be there yet or be gone.                        *)
Emptied(s) == ~Known(s) /\ tmp[s] = Gone

Init ==
    /\ meta = [s \in Sessions |-> [status |-> "none", offset |-> 0]]
    /\ tmp = [s \in Sessions |-> Gone]
    /\ object = [s \in Sessions |-> Gone]
    /\ late = {} /\ sweeping = {}
    /\ task = [t \in Tasks |-> NoTask]
    /\ holder = [s \in Sessions |-> Free]
    /\ proto \in {"native", "tus"}
    /\ tab = [c \in Tabs |-> Idle]
    /\ stored = 0
    /\ made = 0 /\ sends = 0 /\ crashes = 0 /\ lost = 0

-----------------------------------------------------------------------------
(* The server *)

(* A handler answers its client, if that still waits: `reply` is the kind  *)
(* of the answer and `told` the offset in it.                              *)
Told(c, reply, offset) == [tab EXCEPT ![c].reply = reply, ![c].told = offset]

Answer(t, reply, offset) ==
    /\ task' = [task EXCEPT ![t] = NoTask]
    /\ tab' = IF t = Loose THEN tab ELSE Told(t, reply, offset)

(* The guard of the mutex is dropped with the handler's future. *)
Unlock(t) == holder' = [s \in Sessions |-> IF holder[s] = t THEN Free ELSE holder[s]]

Fails(t, reply) == Answer(t, reply, 0) /\ Unlock(t) /\ UNCHANGED disk

Goes(t, pc) == task' = [task EXCEPT ![t].pc = pc] /\ UNCHANGED <<holder, tab>>

(* The request of a phase: load, probe and resync look at the session,     *)
(* patch sends the chunk at the tab's offset. A request is at its handler  *)
(* as soon as the tab is in the phase and has no answer.                   *)
Operation ==
    [load |-> "inspect", probe |-> "inspect", resync |-> "inspect",
     create |-> "initiate", patch |-> "append", complete |-> "complete"]

Active(c) == tab[c].phase \notin {"idle", "done", "failed"}
Waits(c) == Active(c) /\ tab[c].reply = "none"

Asked(t) ==
    IF task[t].pc = "admit" THEN {task[t]}
    ELSE IF t \in Tabs /\ task[t].pc = Free /\ Waits(t)
         THEN {[NoTask EXCEPT !.op = Operation[tab[t].phase], !.sess = tab[t].sess, !.offset = tab[t].offset]}
         ELSE {}

(* A new session: a directory, an empty file and the metadata. The bound   *)
(* on the sessions is a disk that takes no more.                           *)
Initiate(t) ==
    /\ \E r \in Asked(t) : r.op = "initiate"
    /\ IF made < MaxSessions
       THEN /\ made' = made + 1
            /\ meta' = [meta EXCEPT ![made'] = [status |-> "open", offset |-> 0]]
            /\ tmp' = [tmp EXCEPT ![made'] = <<>>]
            /\ Answer(t, "session", made')
       ELSE UNCHANGED <<made, meta, tmp>> /\ Answer(t, "backend", 0)
    /\ UNCHANGED <<object, clock, holder, proto, stored, sends, crashes, lost>>

(* backend_for_session: the session is inspected under the mutex before    *)
(* the operation; an append at another offset is refused here already.     *)
Admit(t) ==
    /\ \E r \in Asked(t) :
         LET s == r.sess IN
         /\ r.op # "initiate"
         /\ holder[s] = Free
         /\ \/ ~Known(s) /\ Answer(t, "unknown", 0)
            \/ Known(s) /\ r.op = "inspect" /\ Answer(t, Status(s), meta[s].offset)
            \/ Known(s) /\ r.op = "append" /\ r.offset # meta[s].offset /\ Answer(t, "mismatch", 0)
            \/ /\ Known(s)
               /\ r.op = "complete" \/ (r.op = "append" /\ r.offset = meta[s].offset)
               /\ task' = [task EXCEPT ![t] = [r EXCEPT !.pc = "lock"]] /\ UNCHANGED tab
    /\ UNCHANGED <<disk, clock, holder, proto, stored, bounds>>

Lock(t) ==
    /\ task[t].pc = "lock"
    /\ holder[task[t].sess] = Free
    /\ holder' = [holder EXCEPT ![task[t].sess] = t]
    /\ task' = [task EXCEPT ![t].pc = "read"]
    /\ UNCHANGED <<disk, clock, proto, tab, stored, bounds>>

(* read_session and the checks on what it says.                            *)
Read(t) ==
    LET s == task[t].sess
        goes(pc) == /\ task' = [task EXCEPT ![t].pc = pc, ![t].seen = meta[s].offset]
                    /\ UNCHANGED <<disk, holder, tab>>
    IN
    /\ task[t].pc = "read"
    /\ \/ ~Known(s) /\ Fails(t, "unknown")
       \/ Status(s) = "expired" /\ goes("expire")
       \/ /\ Status(s) = "complete"
          /\ Fails(t, IF task[t].op = "complete" THEN "object" ELSE "complete")
       \/ /\ Status(s) = "open"
          /\ task[t].op = "append" /\ task[t].offset # meta[s].offset
          /\ Fails(t, "mismatch")
       \/ /\ Status(s) = "open"
          /\ task[t].op = "append" => task[t].offset = meta[s].offset
          /\ goes("reconcile")
    /\ UNCHANGED <<clock, proto, stored, bounds>>

(* persist_expired_if_needed: an expiry that the clock found out is        *)
(* written down.                                                           *)
PersistExpired(t) ==
    /\ task[t].pc = "expire"
    /\ meta' = [meta EXCEPT ![task[t].sess] = [status |-> "expired", offset |-> task[t].seen]]
    /\ Answer(t, "closed", 0) /\ Unlock(t)
    /\ UNCHANGED <<tmp, object, clock, proto, stored, bounds>>

(* reconcile_temp_len: bytes beyond the committed length were never        *)
(* acknowledged and are cut off; a shorter file is an error. A completion  *)
(* then wants the whole file.                                              *)
TempLen(s) == IF tmp[s] = Gone THEN 0 ELSE Len(tmp[s])

(* Mutant of Trusted: what lies beyond the committed length is kept.       *)
TrustAll(s, trusted) == tmp

Trusted(s, trusted) == [tmp EXCEPT ![s] = IF TempLen(s) > trusted THEN SubSeq(@, 1, trusted) ELSE @]

Reconcile(t) ==
    LET s == task[t].sess IN
    /\ task[t].pc = "reconcile"
    /\ \/ TempLen(s) < task[t].seen /\ Fails(t, "backend")
       \/ /\ TempLen(s) >= task[t].seen
          /\ tmp' = Trusted(s, task[t].seen)
          /\ IF task[t].op = "append"
             THEN Goes(t, "write")
             ELSE IF task[t].seen = Size THEN Goes(t, "move") ELSE Answer(t, "rejected", 0) /\ Unlock(t)
          /\ UNCHANGED <<meta, object>>
    /\ UNCHANGED <<clock, proto, stored, bounds>>

(* The chunk is appended to the file (which is created when the directory  *)
(* is there yet and the file is not).                                      *)
Chunk(t) == SubSeq(File, task[t].offset + 1, ChunkEnd(task[t].offset))
Appended(s, bytes) == [tmp EXCEPT ![s] = (IF @ = Gone THEN <<>> ELSE @) \o bytes]

Write(t) ==
    LET s == task[t].sess IN
    /\ task[t].pc = "write"
    /\ \/ Emptied(s) /\ Fails(t, "backend")
       \/ /\ tmp' = Appended(s, Chunk(t))
          /\ Goes(t, "commit")
          /\ UNCHANGED <<meta, object>>
    /\ UNCHANGED <<clock, proto, stored, bounds>>

(* write_session after an append, with the metadata as it was read and the *)
(* new offset. The PATCH of the resumable sender goes on to complete the   *)
(* upload, as a second operation, when the last byte is in: unless the     *)
(* handler is gone.                                                        *)
CommitAppend(t) ==
    LET s == task[t].sess  end == ChunkEnd(task[t].offset) IN
    /\ task[t].pc = "commit" /\ task[t].op = "append"
    /\ meta' = [meta EXCEPT ![s] = [status |-> "open", offset |-> end]]
    /\ IF proto = "tus" /\ end = Size /\ t # Loose
       THEN task' = [task EXCEPT ![t].op = "complete", ![t].pc = "admit"] /\ UNCHANGED tab
       ELSE Answer(t, "session", end)
    /\ Unlock(t)
    /\ UNCHANGED <<tmp, object, clock, proto, stored, bounds>>

(* commit_completed_object: the bytes become the object by a rename...     *)
Move(t) ==
    LET s == task[t].sess IN
    /\ task[t].pc = "move"
    /\ \/ tmp[s] = Gone /\ Fails(t, "backend")
       \/ /\ tmp[s] # Gone
          /\ object' = [object EXCEPT ![s] = tmp[s]]
          /\ tmp' = [tmp EXCEPT ![s] = Gone]
          /\ Goes(t, "commit")
          /\ UNCHANGED meta
    /\ UNCHANGED <<clock, proto, stored, bounds>>

(* ...or, where the object is on another filesystem, by a copy that is     *)
(* renamed, after which the bytes are removed.                             *)
Copy(t) ==
    LET s == task[t].sess IN
    /\ task[t].pc = "move" /\ tmp[s] # Gone
    /\ object' = [object EXCEPT ![s] = tmp[s]]
    /\ Goes(t, "remove")
    /\ UNCHANGED <<meta, tmp, clock, proto, stored, bounds>>

RemoveTemp(t) ==
    /\ task[t].pc = "remove"
    /\ tmp' = [tmp EXCEPT ![task[t].sess] = Gone]
    /\ Goes(t, "commit")
    /\ UNCHANGED <<meta, object, clock, proto, stored, bounds>>

(* write_session after the object is in place. *)
CommitComplete(t) ==
    LET s == task[t].sess IN
    /\ task[t].pc = "commit" /\ task[t].op = "complete"
    /\ meta' = [meta EXCEPT ![s] = [status |-> "complete", offset |-> task[t].seen]]
    /\ Answer(t, IF proto = "tus" THEN "session" ELSE "object", task[t].seen)
    /\ Unlock(t)
    /\ UNCHANGED <<tmp, object, clock, proto, stored, bounds>>

(* write_session creates the directory again where it is gone; but the     *)
(* sweep may take the new metadata away before its rename.                 *)
WriteLost(t) ==
    /\ task[t].pc \in {"expire", "commit"} /\ task[t].sess \in sweeping
    /\ Fails(t, "backend")
    /\ UNCHANGED <<clock, proto, stored, bounds>>

(* sweep_expired_uploads takes no mutex: it reads the metadata of a        *)
(* session, and removes the directory of one that had run out, whatever    *)
(* the session is by then...                                               *)
SweepRead(s) ==
    /\ Known(s) /\ Status(s) = "expired" /\ s \notin sweeping
    /\ sweeping' = sweeping \cup {s}
    /\ UNCHANGED <<disk, late, server, proto, tab, stored, bounds>>

(* ...entry by entry, in the order of the directory. (No sweep is bound to *)
(* end: an error ends one at any entry, and another that has read the      *)
(* session too goes on.)                                                   *)
SweepUnlink(s) ==
    /\ s \in sweeping
    /\ \/ /\ meta' = [meta EXCEPT ![s] = [status |-> "none", offset |-> 0]]
          /\ UNCHANGED tmp
       \/ /\ tmp' = [tmp EXCEPT ![s] = Gone]
          /\ UNCHANGED meta
    /\ UNCHANGED <<object, clock, server, proto, tab, stored, bounds>>

Expire(s) ==
    /\ s <= made /\ s \notin late
    /\ late' = late \cup {s}
    /\ UNCHANGED <<disk, sweeping, server, proto, tab, stored, bounds>>

-----------------------------------------------------------------------------
(* Faults *)

Running(t) == task[t].pc \in {"read", "expire", "reconcile", "write", "move", "remove", "commit"}

(* The handlers a lost connection may belong to. *)
Droppable(c) == Waits(c) /\ (Running(c) => Detach)

(* The connection of a handler is gone: its future is dropped, and with it *)
(* the guard of the mutex. Work that a blocking thread has taken goes on.  *)
Dropped(c) ==
    /\ Droppable(c)
    /\ IF Running(c)
       THEN task[Loose].pc = Free /\ task' = [task EXCEPT ![Loose] = task[c], ![c] = NoTask]
       ELSE task' = [task EXCEPT ![c] = NoTask]
    /\ Unlock(c)

Drop(c) ==
    /\ lost < MaxLost
    /\ Dropped(c)
    /\ tab' = Told(c, "network", 0)
    /\ lost' = lost + 1
    /\ UNCHANGED <<disk, clock, proto, stored, made, sends, crashes>>

LoseAnswer(c) ==
    /\ lost < MaxLost
    /\ tab[c].reply \notin {"none", "network"}
    /\ tab' = Told(c, "network", 0)
    /\ lost' = lost + 1
    /\ UNCHANGED <<disk, clock, server, proto, stored, made, sends, crashes>>

(* The page is reloaded in mid-send. *)
Reload(c) ==
    /\ lost < MaxLost
    /\ Active(c)
    /\ tab' = [tab EXCEPT ![c] = Idle]
    /\ lost' = lost + 1
    /\ IF Waits(c) THEN Dropped(c) ELSE UNCHANGED server
    /\ UNCHANGED <<disk, clock, proto, stored, made, sends, crashes>>

(* The server stops and starts again: a write that was under way leaves    *)
(* any part of its chunk.                                                  *)
Torn(t) ==
    {tmp} \cup IF task[t].pc = "write"
               THEN {Appended(task[t].sess, SubSeq(Chunk(t), 1, n)) : n \in 0..Len(Chunk(t))}
               ELSE {}

Crash ==
    /\ crashes < MaxCrashes
    /\ \E t \in Tasks : Running(t) /\ tmp' \in Torn(t)
    /\ task' = [t \in Tasks |-> NoTask]
    /\ holder' = [s \in Sessions |-> Free]
    /\ tab' = [c \in Tabs |-> IF Waits(c) THEN [tab[c] EXCEPT !.reply = "network", !.told = 0] ELSE tab[c]]
    /\ sweeping' = {}
    /\ crashes' = crashes + 1
    /\ UNCHANGED <<meta, object, late, proto, stored, made, sends, lost>>

-----------------------------------------------------------------------------
(* The senders, with auto_resume *)

Send(c) ==
    /\ sends < MaxSends
    /\ ~Active(c)
    /\ sends' = sends + 1
    /\ tab' = [tab EXCEPT ![c] = [Idle EXCEPT !.phase = IF stored = 0 THEN "create" ELSE "load", !.sess = stored]]
    /\ UNCHANGED <<disk, clock, server, proto, stored, made, crashes, lost>>

(* What an answer leads to. *)
Turns(c, phase, sess, offset) ==
    tab' = [tab EXCEPT ![c] = [Idle EXCEPT !.phase = phase, !.sess = sess, !.offset = offset]]

(* The native sender stores the session with every answer to a PATCH and   *)
(* every resynchronisation; the resumable one only where it starts.        *)
Stores == IF proto = "native" THEN {"patch", "resync"} ELSE {"load"}
Keeps(c, sess) == stored' = IF tab[c].phase \in Stores THEN sess ELSE stored

(* Mutant of Continues: a full offset is taken for a completed upload.     *)
ContinuesDone(c, sess, offset) ==
    IF offset < Size THEN Turns(c, "patch", sess, offset) /\ Keeps(c, sess)
    ELSE Turns(c, "done", sess, offset) /\ stored' = 0

(* Mutant of Continues: a full offset is one to send a chunk at.           *)
ContinuesAtEnd(c, sess, offset) ==
    IF offset <= Size THEN Turns(c, "patch", sess, offset) /\ Keeps(c, sess)
    ELSE Turns(c, "done", sess, offset) /\ stored' = 0

(* The next chunk, or what follows the last: the native sender completes   *)
(* the upload, the resumable one is done and forgets the session.          *)
Continues(c, sess, offset) ==
    IF offset < Size THEN Turns(c, "patch", sess, offset) /\ Keeps(c, sess)
    ELSE IF proto = "native" THEN Turns(c, "complete", sess, offset) /\ Keeps(c, sess)
    ELSE Turns(c, "done", sess, offset) /\ stored' = 0

GivesUp(c) == Turns(c, "failed", 0, 0) /\ UNCHANGED stored

(* Mutant of Again: one retry too many.                                    *)
AgainOnce(c) ==
    \/ /\ tab[c].tries <= RetryLimit
       /\ tab' = [tab EXCEPT ![c].reply = "none", ![c].told = 0, ![c].tries = @ + 1]
       /\ UNCHANGED stored
    \/ tab[c].tries > RetryLimit /\ GivesUp(c)

(* A request is sent again, up to the limit. *)
Again(c) ==
    \/ /\ tab[c].tries < RetryLimit
       /\ tab' = [tab EXCEPT ![c].reply = "none", ![c].told = 0, ![c].tries = @ + 1]
       /\ UNCHANGED stored
    \/ tab[c].tries >= RetryLimit /\ GivesUp(c)

Looked == {"open", "expired", "complete"}   \* an inspection that found the session

(* load_resume_session keeps an open session; the resumable sender, one    *)
(* that is not full. Only a session that is known to be gone is forgotten. *)
Loaded(c) ==
    LET r == tab[c].reply  s == tab[c].sess
        usable == IF proto = "native" THEN r = "open" ELSE r \in Looked /\ tab[c].told < Size
    IN
    /\ tab[c].phase = "load"
    /\ \/ usable /\ proto = "native" /\ Turns(c, "probe", s, 0) /\ stored' = s
       \/ usable /\ proto = "tus" /\ Continues(c, s, tab[c].told)
       \/ ~usable /\ r \in Looked \cup {"unknown"} /\ Turns(c, "create", 0, 0) /\ stored' = 0
       \/ ~usable /\ r \notin Looked \cup {"unknown"} /\ GivesUp(c)

Created(c) ==
    /\ tab[c].phase = "create"
    /\ \/ /\ tab[c].reply = "session"
          /\ Turns(c, IF proto = "native" THEN "probe" ELSE "patch", tab[c].told, 0)
          /\ stored' = tab[c].told
       \/ tab[c].reply # "session" /\ GivesUp(c)

Inspected(c) ==
    /\ tab[c].phase \in {"probe", "resync"}
    /\ \/ tab[c].reply \in Looked /\ Continues(c, tab[c].sess, tab[c].told)
       \/ tab[c].reply \notin Looked /\ GivesUp(c)

(* The resumable sender takes every 409 (an expired session's too) for a   *)
(* conflict, and any other failure but 404 for one to try again.           *)
Conflicts == IF proto = "native" THEN {"mismatch"} ELSE {"mismatch", "closed"}
Transient == IF proto = "native" THEN {"network"} ELSE {"network", "backend", "rejected", "complete"}

Patched(c) ==
    LET r == tab[c].reply  s == tab[c].sess IN
    /\ tab[c].phase = "patch"
    /\ \/ r = "session" /\ Continues(c, s, tab[c].told)
       \/ r \in Conflicts /\ Turns(c, "resync", s, tab[c].offset) /\ UNCHANGED stored
       \/ r \in Transient /\ Again(c)
       \/ r \notin {"session"} \cup Conflicts \cup Transient /\ GivesUp(c)

Completed(c) ==
    /\ tab[c].phase = "complete"
    /\ \/ tab[c].reply = "object" /\ Turns(c, "done", tab[c].sess, tab[c].offset) /\ stored' = 0
       \/ tab[c].reply = "network" /\ Again(c)
       \/ tab[c].reply \notin {"object", "network"} /\ GivesUp(c)

Receive(c) ==
    /\ tab[c].reply # "none"
    /\ Loaded(c) \/ Created(c) \/ Inspected(c) \/ Patched(c) \/ Completed(c)
    /\ UNCHANGED <<disk, clock, server, proto, bounds>>

-----------------------------------------------------------------------------
Works(t) == Initiate(t) \/ Admit(t) \/ Lock(t)

(* The work of a blocking thread. *)
Blocks(t) ==
    /\ Running(t)
    /\ \/ Read(t) \/ PersistExpired(t) \/ WriteLost(t) \/ Reconcile(t) \/ Write(t) \/ CommitAppend(t)
       \/ Move(t) \/ Copy(t) \/ RemoveTemp(t) \/ CommitComplete(t)

Next ==
    \/ \E t \in Tasks : Works(t) \/ Blocks(t)
    \/ \E s \in Sessions : Expire(s) \/ SweepRead(s) \/ SweepUnlink(s)
    \/ \E c \in Tabs : Send(c) \/ Receive(c) \/ Drop(c) \/ LoseAnswer(c) \/ Reload(c)
    \/ Crash

(* The mutex is fair (tokio's is a queue), blocking work runs, and a tab   *)
(* goes on with its send: at any time one of the three is what it waits    *)
(* for. Faults, expiry and the sweep are free.                             *)
Spec ==
    /\ Init /\ [][Next]_vars
    /\ \A c \in Tabs : SF_vars(Works(c) \/ Blocks(c) \/ Receive(c))
    /\ WF_vars(Blocks(Loose))

-----------------------------------------------------------------------------
Phases == {"idle", "load", "create", "probe", "patch", "resync", "complete", "done", "failed"}
Replies == Looked \cup {"none", "session", "unknown", "mismatch", "closed", "complete",
                        "backend", "rejected", "object", "network"}
Bytes == UNION {[1..n -> 1..Size] : n \in 0..Size}

TypeOK ==
    /\ meta \in [Sessions -> [status : {"none", "open", "expired", "complete"}, offset : 0..Size]]
    /\ \A s \in Sessions : tmp[s] = Gone \/ tmp[s] \in Bytes
    /\ \A s \in Sessions : object[s] = Gone \/ object[s] \in Bytes
    /\ late \subseteq 1..made /\ sweeping \subseteq late
    /\ task \in [Tasks -> [op : {"none", "inspect", "initiate", "append", "complete"}, sess : 0..MaxSessions,
                           offset : 0..Size, seen : 0..Size,
                           pc : {Free, "admit", "lock", "read", "expire", "reconcile", "write", "move", "remove", "commit"}]]
    /\ holder \in [Sessions -> Tasks \cup {Free}]
    /\ proto \in {"native", "tus"}
    /\ tab \in [Tabs -> [phase : Phases, sess : 0..MaxSessions, offset : 0..Size, tries : 0..RetryLimit,
                         reply : Replies, told : 0..(Size + MaxSessions)]]
    /\ stored \in 0..made
    /\ made \in 0..MaxSessions /\ sends \in 0..MaxSends
    /\ crashes \in 0..MaxCrashes /\ lost \in 0..MaxLost

Prefix(n) == SubSeq(File, 1, n)

(* What the server has acknowledged is on the disk, in order: the bytes of *)
(* an open session begin with as much of the file as its metadata says,    *)
(* whatever a crash or a lost answer left behind them.                     *)
CommittedKept ==
    \A s \in Sessions : Status(s) = "open" /\ object[s] = Gone =>
        TempLen(s) >= meta[s].offset /\ SubSeq(tmp[s], 1, meta[s].offset) = Prefix(meta[s].offset)

(* An object that can be read is the whole file: never a part of it, never *)
(* with bytes that a crash or a second PATCH left in between.              *)
ObjectWhole == \A s \in Sessions : object[s] # Gone => object[s] = File

BytesAreTheFile == CommittedKept /\ ObjectWhole

(* The native sender reports success only for an object that is there, and *)
(* of a session that stays complete: after that its metadata can at most   *)
(* be gone, with a sweep that had read it before its completion and found  *)
(* its time over. It is never open or expired again, whoever else was at   *)
(* work on it.                                                             *)
DoneHasObject ==
    \A c \in Tabs : proto = "native" /\ tab[c].phase = "done" =>
        /\ object[tab[c].sess] = File
        /\ \/ meta[tab[c].sess].status = "complete"
           \/ meta[tab[c].sess].status = "none" /\ tab[c].sess \in late

(* Every send returns, however answers, connections and the server fail:   *)
(* except that the resumable sender repeats the PATCH of an expired        *)
(* session for as long as the session is not swept. (The tabs are          *)
(* interchangeable, so it is enough to watch one of them.)                 *)
Spins(c) == proto = "tus" /\ Known(tab[c].sess) /\ Status(tab[c].sess) = "expired"
Watched == CHOOSE c \in Tabs : TRUE
SendsEnd == Active(Watched) ~> (~Active(Watched) \/ Spins(Watched))

(* local_fs.rs says that mutating operations on the same session id are    *)
(* serialized through a per-session async mutex: two of them are never     *)
(* between their reading of the metadata and their writing it back.        *)
Serialized ==
    \A t, u \in Tasks : t # u /\ Running(t) /\ Running(u) => task[t].sess # task[u].sess
=============================================================================
