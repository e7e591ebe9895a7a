----------------------------- MODULE AuthClient -----------------------------
(***************************************************************************)
(* The browser side of authentication (pocopine-auth-client): the token    *)
(* slot, the reactive session with its epoch, the bearer middleware with   *)
(* refresh and replay, the single-flight refresh, and several tabs of one  *)
(* origin that share token storage and a BroadcastChannel.  Each tab runs  *)
(* one thread: an action is what happens between two awaits.  A token is   *)
(* represented by the user it was issued to; the server may answer any     *)
(* request with 401.                                                       *)
(***************************************************************************)
EXTENDS Integers

CONSTANTS
  Tabs, Users,
  Calls,        \* the #[server] calls of the model, each made once
  TabOf,        \* [Calls -> Tabs]
  ReplaySafe,   \* the calls marked #[server(idempotent)]
  Refreshers,   \* the ways with_token_refresh may obtain a token
  Nobody,       \* no token, the anonymous principal
  MaxChanges    \* bound on sign-ins, sign-outs, confirmations and reloads

ASSUME AuthAssumption ==
  /\ TabOf \in [Calls -> Tabs]
  /\ ReplaySafe \subseteq Calls
  /\ Refreshers \subseteq {"provider", "server"}
  /\ Nobody \notin Users
  /\ MaxChanges \in Nat

VARIABLES
  storage,    \* the TokenStorage the tabs share
  snapshot,   \* the SessionSnapshotStorage the tabs share
  inbox,      \* [Tabs -> messages of the BroadcastChannel not yet received]
  token,      \* [Tabs -> TOKEN]
  principal, epoch, status,   \* [Tabs -> the fields of AuthSession]
  slot,       \* [Tabs -> IN_FLIGHT, the refresh that is running]
  calls,      \* [Calls -> where BearerMiddleware::call is]
  via,        \* the installed TokenRefresh
  changes,    \* identity changes and reloads so far
  \* history
  last,       \* who signed in last in any tab; Nobody after a sign-out
  raced       \* whether a refresh has stored a token of anyone else

session == <<principal, epoch, status>>
vars == <<storage, snapshot, inbox, token, session, slot, calls, via, changes, last, raced>>

Identities == Users \cup {Nobody}
Free == [at |-> "free", driver |-> Nobody, for |-> Nobody, epoch |-> 0]
\* The field stale is history: the call had a token and was in flight when its
\* tab's identity changed.
NewCall == [at |-> "idle", token |-> Nobody, epoch |-> 0, fresh |-> Nobody, stale |-> FALSE]
Failed == [NewCall EXCEPT !.at = "failed"]
Pending == {"sent", "driving", "waiting", "woken", "replayed"}
InFlight(c) == calls[c].at \in Pending

TypeOK ==
  /\ {storage, snapshot, last} \subseteq Identities
  /\ inbox \in [Tabs -> Nat]
  /\ token \in [Tabs -> Identities]
  /\ principal \in [Tabs -> Identities]
  /\ epoch \in [Tabs -> Nat]
  /\ status \in [Tabs -> {"ready", "pending", "restoring"}]
  /\ slot \in [Tabs -> [at : {"free", "issuer", "self"}, driver : Calls \cup {Nobody},
                        for : Identities, epoch : Nat]]
  /\ calls \in [Calls -> [at : Pending \cup {"idle", "ok", "failed"}, token : Identities,
                          epoch : Nat, fresh : Identities, stale : BOOLEAN]]
  /\ via \in Refreshers
  /\ changes \in 0 .. MaxChanges
  /\ raced \in BOOLEAN

Init ==
  /\ storage = Nobody /\ snapshot = Nobody
  /\ inbox = [t \in Tabs |-> 0]
  /\ token = [t \in Tabs |-> Nobody]
  /\ principal = [t \in Tabs |-> Nobody]
  /\ epoch = [t \in Tabs |-> 0]
  /\ status = [t \in Tabs |-> "ready"]
  /\ slot = [t \in Tabs |-> Free]
  /\ calls = [c \in Calls |-> NewCall]
  /\ via \in Refreshers
  /\ changes = 0
  /\ last = Nobody /\ raced = FALSE

-----------------------------------------------------------------------------
(* The token slot and the session.                                         *)

\* set_token; clear_token is SetToken of Nobody.
SetToken(t, who) ==
  /\ token' = [token EXCEPT ![t] = who]
  /\ storage' = who

\* A mutant of BumpEpoch: the epoch runs down.
BumpDown(t) == epoch' = [epoch EXCEPT ![t] = @ - 1]

BumpEpoch(t) == epoch' = [epoch EXCEPT ![t] = @ + 1]

\* History: what is in flight in the tab is stale from now on.
MarkStale(t) ==
  calls' = [c \in Calls |-> IF TabOf[c] = t /\ InFlight(c) /\ calls[c].token # Nobody
                            THEN [calls[c] EXCEPT !.stale = TRUE]
                            ELSE calls[c]]

\* The rest of AuthSession::set_principal: it saves the snapshot too.
Publish(t, who) ==
  /\ principal' = [principal EXCEPT ![t] = who]
  /\ status' = [status EXCEPT ![t] = "ready"]
  /\ BumpEpoch(t)
  /\ snapshot' = who
  /\ MarkStale(t)

\* broadcast_session_changed: every other tab gets a message.
Broadcast(t) == inbox' = [s \in Tabs |-> IF s = t THEN inbox[s] ELSE inbox[s] + 1]

Change == changes < MaxChanges /\ changes' = changes + 1

\* AuthSession::sign_in, and sign_out with Nobody.
SignIn(t, who) ==
  /\ Change
  /\ SetToken(t, who) /\ Publish(t, who) /\ Broadcast(t)
  /\ last' = who
  /\ UNCHANGED <<slot, via, raced>>

SignOut(t) ==
  /\ token[t] # Nobody \/ principal[t] # Nobody
  /\ SignIn(t, Nobody)

\* The app learns whose token the tab holds (its /me call) and publishes it.
Confirm(t) ==
  /\ status[t] # "ready" \/ principal[t] # token[t]
  /\ Change
  /\ Publish(t, token[t]) /\ Broadcast(t)
  /\ UNCHANGED <<storage, token, slot, via, last, raced>>

\* A mutant of Hydrate: the slot keeps the token it has.
HydrateIfEmpty(t) ==
  token' = [token EXCEPT ![t] = IF @ = Nobody THEN storage ELSE @]

Hydrate(t) == token' = [token EXCEPT ![t] = storage]

\* The BroadcastChannel listener; broadcasts from inside it are suppressed.
Receive(t) ==
  /\ inbox[t] > 0
  /\ inbox' = [inbox EXCEPT ![t] = @ - 1]
  /\ Hydrate(t)
  /\ IF storage = Nobody
     THEN Publish(t, Nobody)
     ELSE /\ BumpEpoch(t)
          /\ MarkStale(t)
          /\ UNCHANGED <<principal, status, snapshot>>
  /\ UNCHANGED <<storage, slot, via, changes, last, raced>>

\* The page is loaded anew: AuthPluginBuilder::install.  Its calls are gone.
Reload(t) ==
  /\ Change
  /\ Hydrate(t)
  /\ inbox' = [inbox EXCEPT ![t] = 0]
  /\ principal' = [principal EXCEPT ![t] = snapshot]
  /\ status' = [status EXCEPT ![t] = CASE snapshot # Nobody -> "restoring"
                                       [] snapshot = Nobody /\ storage # Nobody -> "pending"
                                       [] OTHER -> "ready"]
  /\ epoch' = [epoch EXCEPT ![t] = 0]
  /\ slot' = [slot EXCEPT ![t] = Free]
  /\ calls' = [c \in Calls |-> IF TabOf[c] = t /\ InFlight(c) THEN Failed ELSE calls[c]]
  /\ UNCHANGED <<storage, snapshot, via, last, raced>>

-----------------------------------------------------------------------------
(* BearerMiddleware.                                                       *)

\* The token and the epoch are captured together when the call is made.
Send(c) ==
  /\ calls[c].at = "idle"
  /\ calls' = [calls EXCEPT ![c].at = "sent", ![c].token = token[TabOf[c]],
                            ![c].epoch = epoch[TabOf[c]]]
  /\ UNCHANGED <<storage, snapshot, inbox, token, session, slot, via, changes, last, raced>>

\* Whether the session is still the one the call was made in; a call without a
\* token has no epoch to compare.
SameSession(c) == calls[c].token = Nobody \/ calls[c].epoch = epoch[TabOf[c]]

\* The call returns its response, behind the response-side fence; every error
\* looks the same here.
Delivered(c) ==
  IF SameSession(c) THEN [NewCall EXCEPT !.at = "ok", !.stale = calls[c].stale] ELSE Failed

\* A mutant of Answer: no fence on the response to a replay.
AnswerUnfenced(c) ==
  /\ calls[c].at \in {"sent", "replayed"}
  /\ calls' = [calls EXCEPT ![c] = IF @.at = "sent" THEN Delivered(c)
                                   ELSE [NewCall EXCEPT !.at = "ok", !.stale = calls[c].stale]]
  /\ UNCHANGED <<storage, snapshot, inbox, token, session, slot, via, changes, last, raced>>

\* The server answers.
Answer(c) ==
  /\ calls[c].at \in {"sent", "replayed"}
  /\ calls' = [calls EXCEPT ![c] = Delivered(c)]
  /\ UNCHANGED <<storage, snapshot, inbox, token, session, slot, via, changes, last, raced>>

Refreshes(c) == calls[c].at = "sent" /\ calls[c].token # Nobody /\ c \in ReplaySafe

\* 401 with nothing to do about it: no token, not replay safe, or a replay.
Reject(c) ==
  /\ calls[c].at \in {"sent", "replayed"}
  /\ ~Refreshes(c)
  /\ calls' = [calls EXCEPT ![c] = Failed]
  /\ UNCHANGED <<storage, snapshot, inbox, token, session, slot, via, changes, last, raced>>

\* 401 while a refresh is running: wait for its outcome.
Join(c) ==
  /\ Refreshes(c)
  /\ slot[TabOf[c]] # Free
  /\ calls' = [calls EXCEPT ![c].at = "waiting"]
  /\ UNCHANGED <<storage, snapshot, inbox, token, session, slot, via, changes, last, raced>>

\* 401: start the refresh, for whoever is signed in now.
Drive(c) ==
  /\ Refreshes(c)
  /\ slot[TabOf[c]] = Free
  /\ calls' = [calls EXCEPT ![c].at = "driving"]
  /\ slot' = [slot EXCEPT ![TabOf[c]] =
                [at |-> "issuer", driver |-> c, for |-> token[TabOf[c]],
                 epoch |-> epoch[TabOf[c]]]]
  /\ UNCHANGED <<storage, snapshot, inbox, token, session, via, changes, last, raced>>

\* What a call does with the outcome of a refresh: behind the write-side fence
\* it stores the token and replays the request.
Proceed(c, fresh) ==
  IF fresh # Nobody /\ SameSession(c)
  THEN [calls[c] EXCEPT !.at = "replayed", !.fresh = Nobody]
  ELSE Failed

\* A mutant of StoreFresh: no fence on the write side.
StoreAlways(c, fresh) ==
  IF fresh # Nobody
  THEN SetToken(TabOf[c], fresh) /\ raced' = (raced \/ fresh # last)
  ELSE UNCHANGED <<token, storage, raced>>

StoreFresh(c, fresh) ==
  IF fresh # Nobody /\ SameSession(c)
  THEN SetToken(TabOf[c], fresh) /\ raced' = (raced \/ fresh # last)
  ELSE UNCHANGED <<token, storage, raced>>

\* publish: the waiters of the tab get the outcome and are woken.
Waking(t, fresh) ==
  [c \in Calls |-> IF TabOf[c] = t /\ calls[c].at = "waiting"
                   THEN [calls[c] EXCEPT !.at = "woken", !.fresh = fresh]
                   ELSE calls[c]]

\* The refresh resolves.  A refresh that is itself a #[server] call passes
\* through the middleware, whose fence fails it when the session has changed.
RefreshEnds(t) ==
  /\ slot[t].at = "issuer"
  /\ \E fresh \in {slot[t].for, Nobody} :
       /\ via = "server" /\ slot[t].epoch # epoch[t] => fresh = Nobody
       /\ StoreFresh(slot[t].driver, fresh)
       /\ calls' = [Waking(t, fresh) EXCEPT ![slot[t].driver] = Proceed(slot[t].driver, fresh)]
  /\ slot' = [slot EXCEPT ![t] = Free]
  /\ UNCHANGED <<snapshot, inbox, session, via, changes, last>>

\* The refresh call, itself marked idempotent, is answered 401: its middleware
\* asks for a refresh, finds the one it is part of, and waits for it.
RefreshWaitsForItself(t) ==
  /\ slot[t].at = "issuer"
  /\ via = "server" /\ slot[t].for # Nobody
  /\ slot' = [slot EXCEPT ![t].at = "self"]
  /\ UNCHANGED <<storage, snapshot, inbox, token, session, calls, via, changes, last, raced>>

\* A woken waiter is polled.
Resume(c) ==
  /\ calls[c].at = "woken"
  /\ StoreFresh(c, calls[c].fresh)
  /\ calls' = [calls EXCEPT ![c] = Proceed(c, calls[c].fresh)]
  /\ UNCHANGED <<snapshot, inbox, session, slot, via, changes, last>>

\* A mutant of Drop: the guard of a dropped driver clears the slot and forgets
\* the waiters.
DropSilently(c) ==
  /\ InFlight(c)
  /\ calls' = [calls EXCEPT ![c] = Failed]
  /\ slot' = IF calls[c].at = "driving" THEN [slot EXCEPT ![TabOf[c]] = Free] ELSE slot
  /\ UNCHANGED <<storage, snapshot, inbox, token, session, via, changes, last, raced>>

\* The caller drops the future; ClearOnDrop of a driver fails its waiters.
Drop(c) ==
  /\ InFlight(c)
  /\ IF calls[c].at = "driving"
     THEN /\ calls' = [Waking(TabOf[c], Nobody) EXCEPT ![c] = Failed]
          /\ slot' = [slot EXCEPT ![TabOf[c]] = Free]
     ELSE /\ calls' = [calls EXCEPT ![c] = Failed]
          /\ UNCHANGED slot
  /\ UNCHANGED <<storage, snapshot, inbox, token, session, via, changes, last, raced>>

Progress(c) == Answer(c) \/ Reject(c) \/ Join(c) \/ Drive(c) \/ Resume(c)

Next ==
  \/ \E t \in Tabs : (\E who \in Users : SignIn(t, who)) \/ SignOut(t) \/ Confirm(t)
                     \/ Receive(t) \/ Reload(t) \/ RefreshEnds(t) \/ RefreshWaitsForItself(t)
  \/ \E c \in Calls : Send(c) \/ Progress(c) \/ Drop(c)

Spec == Init /\ [][Next]_vars

\* Requests and refreshes are answered, and woken futures are polled.
FairSpec ==
  /\ Spec
  /\ \A c \in Calls : WF_vars(Progress(c))
  /\ \A t \in Tabs : WF_vars(RefreshEnds(t))

-----------------------------------------------------------------------------
\* No answer to a request made with one identity's token reaches its caller as
\* a success once the tab has signed in or out, or heard of a peer that did
\* (src/crates/pocopine-auth-client/src/lib.rs: "letting stale-identity data
\* through").
StaleNeverDelivered == \A c \in Calls : ~(calls[c].stale /\ calls[c].at = "ok")

\* A tab's empty token slot is filled by a sign-in, a peer's message or a new
\* page, never by a refresh that was still running when the token was cleared.
NoResurrection ==
  [][\A t \in Tabs : token[t] = Nobody /\ token'[t] # Nobody
                       => epoch'[t] # epoch[t] \/ changes' # changes]_vars

\* Tabs agree: once nothing is in flight, every tab holds the token of whoever
\* signed in last, and none shows a user after a sign-out, unless a refresh has
\* stored somebody else's token meanwhile: that one comes back for good.
Quiet == /\ \A t \in Tabs : inbox[t] = 0 /\ status[t] = "ready"
         /\ \A c \in Calls : ~InFlight(c)
TabsAgree ==
  Quiet /\ ~raced => \A t \in Tabs : token[t] = last /\ (last = Nobody => principal[t] = Nobody)

\* Every call ends, however refreshes fail and callers go away, unless the
\* tab's refresh is waiting for itself.
CallsEnd ==
  \A c \in Calls : calls[c].at = "sent" ~> ~InFlight(c) \/ slot[TabOf[c]].at = "self"

=============================================================================
