-------------------------- MODULE AuthClientProofs --------------------------
(***************************************************************************)
(* Proofs about AuthClient for every number of tabs, users, calls and      *)
(* changes of identity.                                                    *)
(***************************************************************************)
EXTENDS AuthClient, TLAPS

CallRecs == [at : Pending \cup {"idle", "ok", "failed"}, token : Identities,
             epoch : Nat, fresh : Identities, stale : BOOLEAN]
Slots == [at : {"free", "issuer", "self"}, driver : Calls \cup {Nobody},
          for : Identities, epoch : Nat]

-----------------------------------------------------------------------------
(* Types.                                                                  *)

\* Records the actions write.
LEMMA Written ==
  /\ NewCall \in CallRecs /\ Failed \in CallRecs /\ Free \in Slots
  /\ NewCall.at = "idle" /\ Failed.at = "failed" /\ ~ Failed.stale
  /\ Free.at = "free" /\ Free.epoch = 0
  BY DEF NewCall, Failed, Free, CallRecs, Slots, Identities, Pending

\* The outcome of a request, and of a refresh for the call that asked for it.
LEMMA Outcomes ==
  ASSUME TypeOK, NEW c \in Calls, NEW fresh \in Identities
  PROVE  Delivered(c) \in CallRecs /\ Proceed(c, fresh) \in CallRecs
<1>1. calls[c] \in CallRecs
  BY DEF TypeOK, CallRecs
<1>2. [NewCall EXCEPT !.at = "ok", !.stale = calls[c].stale] \in CallRecs
  BY <1>1 DEF NewCall, CallRecs, Identities
<1>3. [calls[c] EXCEPT !.at = "replayed", !.fresh = Nobody] \in CallRecs
  BY <1>1 DEF CallRecs, Identities, Pending
<1> QED
  BY <1>2, <1>3, Written DEF Delivered, Proceed

\* The waiters of a tab are woken and keep what they had.
LEMMA WakingFacts ==
  ASSUME TypeOK, NEW t \in Tabs, NEW fresh \in Identities
  PROVE  /\ Waking(t, fresh) \in [Calls -> CallRecs]
         /\ \A c \in Calls : LET q == Waking(t, fresh)[c]
              IN \/ q = calls[c] /\ (TabOf[c] = t => calls[c].at # "waiting")
                 \/ /\ calls[c].at = "waiting" /\ q.at = "woken" /\ q.token = calls[c].token
                    /\ q.epoch = calls[c].epoch /\ q.stale = calls[c].stale
<1> DEFINE woken(c) == [calls[c] EXCEPT !.at = "woken", !.fresh = fresh]
<1>1. ASSUME NEW c \in Calls
      PROVE  /\ calls[c] \in CallRecs /\ woken(c) \in CallRecs /\ woken(c).at = "woken"
             /\ woken(c).token = calls[c].token /\ woken(c).epoch = calls[c].epoch
             /\ woken(c).stale = calls[c].stale
  BY DEF TypeOK, CallRecs, Pending
<1>2. Waking(t, fresh) = [c \in Calls |-> IF TabOf[c] = t /\ calls[c].at = "waiting" THEN woken(c)
                                                                                ELSE calls[c]]
  BY DEF Waking
<1> HIDE DEF woken
<1> QED
  BY <1>1, <1>2

\* What is in flight in a tab is stale, and keeps what it had.
LEMMA MarkFacts ==
  ASSUME TypeOK, NEW t \in Tabs, MarkStale(t)
  PROVE  /\ calls' \in [Calls -> CallRecs]
         /\ \A c \in Calls :
              \/ calls'[c] = calls[c]
              \/ /\ TabOf[c] = t /\ InFlight(c) /\ calls[c].token # Nobody
                 /\ calls'[c].at = calls[c].at /\ calls'[c].token = calls[c].token
                 /\ calls'[c].epoch = calls[c].epoch
<1> DEFINE marked(c) == [calls[c] EXCEPT !.stale = TRUE]
<1>1. ASSUME NEW c \in Calls
      PROVE  /\ calls[c] \in CallRecs /\ marked(c) \in CallRecs /\ marked(c).at = calls[c].at
             /\ marked(c).token = calls[c].token /\ marked(c).epoch = calls[c].epoch
  BY DEF TypeOK, CallRecs
<1>2. calls' = [c \in Calls |-> IF TabOf[c] = t /\ InFlight(c) /\ calls[c].token # Nobody
                                THEN marked(c) ELSE calls[c]]
  BY DEF MarkStale
<1> HIDE DEF marked
<1> QED
  BY <1>1, <1>2

\* TypeOK holds at first and is kept by every step.
LEMMA TypeInit == Init => TypeOK
<1> SUFFICES ASSUME Init PROVE TypeOK
  OBVIOUS
<1>1. calls \in [Calls -> CallRecs] /\ slot \in [Tabs -> Slots]
  BY Written DEF Init
<1>2. Nobody \in Identities /\ 0 \in 0 .. MaxChanges
  BY AuthAssumption DEF Identities
<1>3. /\ principal \in [Tabs -> Identities] /\ token \in [Tabs -> Identities]
      /\ epoch \in [Tabs -> Nat] /\ inbox \in [Tabs -> Nat]
      /\ status \in [Tabs -> {"ready", "pending", "restoring"}]
  BY <1>2 DEF Init
<1> QED
  BY <1>1, <1>2, <1>3 DEF Init, TypeOK, CallRecs, Slots

LEMMA TypeStep == TypeOK /\ [Next]_vars => TypeOK'
<1> SUFFICES ASSUME TypeOK, [Next]_vars PROVE TypeOK'
  OBVIOUS
<1> USE AuthAssumption
<1>0. /\ calls \in [Calls -> CallRecs] /\ slot \in [Tabs -> Slots] /\ Nobody \in Identities
      /\ Users \subseteq Identities /\ \A c \in Calls : TabOf[c] \in Tabs
      /\ token \in [Tabs -> Identities] /\ epoch \in [Tabs -> Nat]
      /\ principal \in [Tabs -> Identities] /\ storage \in Identities /\ snapshot \in Identities
  BY DEF TypeOK, CallRecs, Slots, Identities
<1>1. ASSUME Change PROVE changes' \in 0 .. MaxChanges
  BY <1>1 DEF Change, TypeOK
<1>2. ASSUME NEW t \in Tabs, BumpEpoch(t) PROVE epoch' \in [Tabs -> Nat]
  BY <1>0, <1>2 DEF BumpEpoch
<1>3. ASSUME NEW t \in Tabs, NEW who \in Identities, Publish(t, who)
      PROVE  /\ principal' \in [Tabs -> Identities] /\ epoch' \in [Tabs -> Nat]
             /\ status' \in [Tabs -> {"ready", "pending", "restoring"}]
             /\ snapshot' \in Identities /\ calls' \in [Calls -> CallRecs]
  BY <1>0, <1>2, <1>3, MarkFacts DEF Publish, TypeOK
<1>4. ASSUME NEW t \in Tabs, NEW who \in Identities, SetToken(t, who)
      PROVE  token' \in [Tabs -> Identities] /\ storage' \in Identities
  BY <1>0, <1>4 DEF SetToken
<1>5. ASSUME NEW t \in Tabs, Broadcast(t) PROVE inbox' \in [Tabs -> Nat]
  BY <1>5 DEF Broadcast, TypeOK
<1>6. ASSUME NEW t \in Tabs, Hydrate(t) PROVE token' \in [Tabs -> Identities]
  BY <1>0, <1>6 DEF Hydrate
<1>7. ASSUME NEW t \in Tabs, NEW who \in Identities, SignIn(t, who) PROVE TypeOK'
  BY <1>1, <1>3, <1>4, <1>5, <1>7 DEF SignIn, TypeOK, CallRecs
<1>8. ASSUME NEW t \in Tabs, Confirm(t) PROVE TypeOK'
  <2>1. token[t] \in Identities
    BY <1>0
  <2> QED
    BY <1>1, <1>3, <1>5, <1>8, <2>1 DEF Confirm, TypeOK, CallRecs
<1>9. ASSUME NEW t \in Tabs, Receive(t) PROVE TypeOK'
  <2>1. inbox' \in [Tabs -> Nat]
    BY <1>9 DEF Receive, TypeOK
  <2>2. token' \in [Tabs -> Identities]
    BY <1>6, <1>9 DEF Receive
  <2>3. /\ principal' \in [Tabs -> Identities] /\ epoch' \in [Tabs -> Nat]
        /\ status' \in [Tabs -> {"ready", "pending", "restoring"}]
        /\ snapshot' \in Identities /\ calls' \in [Calls -> CallRecs]
    <3>1. CASE storage = Nobody
      BY <1>0, <1>3, <1>9, <3>1 DEF Receive
    <3>2. CASE storage # Nobody
      BY <1>2, <1>9, <3>2, MarkFacts DEF Receive, TypeOK
    <3> QED
      BY <3>1, <3>2
  <2> QED
    BY <1>9, <2>1, <2>2, <2>3 DEF Receive, TypeOK, CallRecs
<1>10. ASSUME NEW t \in Tabs, Reload(t) PROVE TypeOK'
  <2>1. changes' \in 0 .. MaxChanges /\ token' \in [Tabs -> Identities]
    BY <1>1, <1>6, <1>10 DEF Reload
  <2>2. inbox' \in [Tabs -> Nat] /\ principal' \in [Tabs -> Identities] /\ epoch' \in [Tabs -> Nat]
    BY <1>0, <1>10 DEF Reload, TypeOK
  <2>3. status' \in [Tabs -> {"ready", "pending", "restoring"}]
    BY <1>10 DEF Reload, TypeOK
  <2>4. slot' \in [Tabs -> Slots] /\ calls' \in [Calls -> CallRecs]
    BY <1>0, <1>10, Written DEF Reload
  <2> QED
    BY <1>10, <2>1, <2>2, <2>3, <2>4 DEF Reload, TypeOK, CallRecs, Slots
<1>11. ASSUME calls' \in [Calls -> CallRecs], slot' \in [Tabs -> Slots],
              token' \in [Tabs -> Identities], storage' \in Identities, raced' \in BOOLEAN,
              UNCHANGED <<snapshot, inbox, session, via, changes, last>>
       PROVE  TypeOK'
  BY <1>11 DEF TypeOK, CallRecs, Slots, session
<1>12. ASSUME NEW c \in Calls, Send(c) PROVE TypeOK'
  <2> DEFINE q == [calls[c] EXCEPT !.at = "sent", !.token = token[TabOf[c]],
                                   !.epoch = epoch[TabOf[c]]]
  <2>1. q \in CallRecs
    <3>1. token[TabOf[c]] \in Identities /\ epoch[TabOf[c]] \in Nat /\ calls[c] \in CallRecs
      BY <1>0
    <3> QED
      BY <3>1 DEF CallRecs, Pending
  <2>2. calls' = [calls EXCEPT ![c] = q]
    BY <1>12 DEF Send
  <2> HIDE DEF q
  <2>3. calls' \in [Calls -> CallRecs]
    BY <1>0, <2>1, <2>2
  <2> QED
    BY <1>0, <1>11, <1>12, <2>3 DEF Send, TypeOK
<1>13. ASSUME NEW c \in Calls, Answer(c) \/ Reject(c) \/ Join(c) PROVE TypeOK'
  <2>1. [calls[c] EXCEPT !.at = "waiting"] \in CallRecs
    BY <1>0 DEF CallRecs, Pending
  <2>2. calls' \in [Calls -> CallRecs]
    BY <1>0, <1>13, <2>1, Outcomes, Written DEF Answer, Reject, Join
  <2> QED
    BY <1>0, <1>11, <1>13, <2>2 DEF Answer, Reject, Join, TypeOK
<1>14. ASSUME NEW c \in Calls, Drive(c) PROVE TypeOK'
  <2>1. [calls[c] EXCEPT !.at = "driving"] \in CallRecs
    BY <1>0 DEF CallRecs, Pending
  <2>2. [at |-> "issuer", driver |-> c, for |-> token[TabOf[c]], epoch |-> epoch[TabOf[c]]] \in Slots
    BY <1>0 DEF Slots
  <2>3. calls' \in [Calls -> CallRecs] /\ slot' \in [Tabs -> Slots]
    BY <1>0, <1>14, <2>1, <2>2 DEF Drive
  <2> QED
    BY <1>0, <1>11, <1>14, <2>3 DEF Drive, TypeOK
<1>15. ASSUME NEW c, NEW fresh \in Identities, StoreFresh(c, fresh)
       PROVE  token' \in [Tabs -> Identities] /\ storage' \in Identities /\ raced' \in BOOLEAN
  <2>1. CASE fresh # Nobody /\ SameSession(c)
    <3>1. SetToken(TabOf[c], fresh) /\ raced' = (raced \/ fresh # last)
      BY <1>15, <2>1 DEF StoreFresh
    <3>2. token' \in [Tabs -> Identities] /\ storage' \in Identities
      BY <1>0, <3>1 DEF SetToken
    <3>3. raced' \in BOOLEAN
      BY <3>1
    <3> QED
      BY <3>2, <3>3
  <2>2. CASE UNCHANGED <<token, storage, raced>>
    BY <1>0, <2>2 DEF TypeOK
  <2> QED
    BY <1>15, <2>1, <2>2 DEF StoreFresh
<1>16. ASSUME NEW c \in Calls, Resume(c) PROVE TypeOK'
  <2>1. calls[c].fresh \in Identities
    BY <1>0 DEF CallRecs
  <2>2. calls' \in [Calls -> CallRecs]
    BY <1>0, <1>16, <2>1, Outcomes DEF Resume
  <2> QED
    BY <1>0, <1>11, <1>15, <1>16, <2>1, <2>2 DEF Resume, TypeOK
<1>17. ASSUME NEW c \in Calls, Drop(c) PROVE TypeOK'
  <2> DEFINE W == Waking(TabOf[c], Nobody)
  <2>0. W \in [Calls -> CallRecs]
    BY <1>0, WakingFacts
  <2> HIDE DEF W
  <2>1. calls' \in [Calls -> CallRecs] /\ slot' \in [Tabs -> Slots]
    <3>1. CASE calls' = [W EXCEPT ![c] = Failed] /\ slot' = [slot EXCEPT ![TabOf[c]] = Free]
      BY <1>0, <2>0, <3>1, Written
    <3>2. CASE calls' = [calls EXCEPT ![c] = Failed] /\ UNCHANGED slot
      BY <1>0, <3>2, Written
    <3> QED
      BY <1>17, <3>1, <3>2 DEF Drop, W
  <2> QED
    BY <1>0, <1>11, <1>17, <2>1 DEF Drop, TypeOK
<1>18. ASSUME NEW t \in Tabs, RefreshEnds(t) PROVE TypeOK'
  <2>1. PICK fresh \in {slot[t].for, Nobody} :
          /\ StoreFresh(slot[t].driver, fresh)
          /\ calls' = [Waking(t, fresh) EXCEPT ![slot[t].driver] = Proceed(slot[t].driver, fresh)]
    BY <1>18 DEF RefreshEnds
  <2>2. fresh \in Identities
    BY <1>0 DEF Slots
  <2>3. slot[t].driver \in Calls => Proceed(slot[t].driver, fresh) \in CallRecs
    BY <2>2, Outcomes
  <2>4. calls' \in [Calls -> CallRecs]
    <3> DEFINE W == Waking(t, fresh)
               d == slot[t].driver
               q == Proceed(d, fresh)
    <3>1. W \in [Calls -> CallRecs] /\ calls' = [W EXCEPT ![d] = q] /\ (d \in Calls => q \in CallRecs)
      BY <2>1, <2>2, <2>3, WakingFacts
    <3> HIDE DEF W, d, q
    <3> QED
      BY <3>1
  <2>5. slot' \in [Tabs -> Slots]
    BY <1>0, <1>18, Written DEF RefreshEnds
  <2> QED
    BY <1>0, <1>11, <1>15, <1>18, <2>1, <2>2, <2>4, <2>5 DEF RefreshEnds, TypeOK
<1>19. ASSUME NEW t \in Tabs, RefreshWaitsForItself(t) PROVE TypeOK'
  <2>1. [slot[t] EXCEPT !.at = "self"] \in Slots
    BY <1>0 DEF Slots
  <2>2. slot' \in [Tabs -> Slots]
    BY <1>0, <1>19, <2>1 DEF RefreshWaitsForItself
  <2> QED
    BY <1>0, <1>11, <1>19, <2>2 DEF RefreshWaitsForItself, TypeOK
<1>20. CASE UNCHANGED vars
  BY <1>20 DEF vars, session, TypeOK
<1> QED
  BY <1>0, <1>7, <1>8, <1>9, <1>10, <1>12, <1>13, <1>14, <1>16, <1>17, <1>18, <1>19, <1>20
  DEF Next, SignOut, Progress

\* Types of the token slots, sessions, refreshes and calls of every tab.
THEOREM TypeCorrect == Spec => []TypeOK
  BY TypeInit, TypeStep, PTL DEF Spec

-----------------------------------------------------------------------------
(* The fences.                                                             *)

\* A call with the record q, in a tab whose epoch and token are e and tok: a stale one is
\* behind the epoch, and one of this epoch that carries a token is in a tab that has one.
Sound(q, e, tok) ==
  /\ q.stale => q.at \in Pending /\ q.token # Nobody /\ q.epoch < e
  /\ q.at \in Pending => q.epoch <= e
  /\ q.at \in Pending /\ q.token # Nobody /\ q.epoch = e => tok # Nobody
  /\ q.at \in {"driving", "waiting", "woken"} => q.token # Nobody

\* The slot of a tab and the call that drives its refresh belong together.
Driven(c) ==
  calls[c].at = "driving" => slot[TabOf[c]].at # "free" /\ slot[TabOf[c]].driver = c
Holds(t) ==
  slot[t].at # "free" =>
    /\ slot[t].driver \in Calls /\ TabOf[slot[t].driver] = t
    /\ calls[slot[t].driver].at = "driving"

Guard ==
  /\ \A c \in Calls : Sound(calls[c], epoch[TabOf[c]], token[TabOf[c]])
  /\ \A c \in Calls : Driven(c)
  /\ \A t \in Tabs : Holds(t)

GuardInv == TypeOK /\ Guard

\* A call that is over is sound anywhere.
LEMMA OverIsSound == ASSUME NEW e, NEW tok PROVE Sound(Failed, e, tok) /\ Sound(NewCall, e, tok)
  BY DEF Sound, Failed, NewCall, Pending

\* What a call returns was not fetched for another session than the tab's.
LEMMA DeliveredIsSound ==
  ASSUME GuardInv, NEW c \in Calls, NEW tok
  PROVE  Sound(Delivered(c), epoch[TabOf[c]], tok) /\ Delivered(c).at \in {"ok", "failed"}
<1>1. calls[c] \in CallRecs /\ TabOf[c] \in Tabs /\ epoch[TabOf[c]] \in Nat
  BY AuthAssumption DEF GuardInv, TypeOK, CallRecs
<1>2. CASE SameSession(c)
  <2>1. ~ calls[c].stale
    BY <1>1, <1>2 DEF GuardInv, Guard, Sound, SameSession, CallRecs
  <2>2. Delivered(c) = [NewCall EXCEPT !.at = "ok", !.stale = calls[c].stale]
    BY <1>2 DEF Delivered
  <2>3. Delivered(c).at = "ok" /\ ~ Delivered(c).stale
    BY <2>1, <2>2 DEF NewCall
  <2> QED
    BY <2>3 DEF Sound, Pending
<1>3. CASE ~ SameSession(c)
  BY <1>3, OverIsSound, Written DEF Delivered
<1> QED
  BY <1>2, <1>3

\* A call that asked for a refresh goes on in the session it began in, where the tab has
\* had a token all along.
LEMMA ProceedIsSound ==
  ASSUME GuardInv, NEW c \in Calls, calls[c].at \in {"driving", "woken"}, NEW fresh \in Identities,
         NEW tok, token[TabOf[c]] # Nobody => tok # Nobody
  PROVE  /\ Sound(Proceed(c, fresh), epoch[TabOf[c]], tok)
         /\ Proceed(c, fresh).at \in {"replayed", "failed"}
         /\ SameSession(c) => token[TabOf[c]] # Nobody
<1>1. calls[c] \in CallRecs /\ Sound(calls[c], epoch[TabOf[c]], token[TabOf[c]])
  BY DEF GuardInv, Guard, TypeOK, CallRecs
<1>2. CASE fresh # Nobody /\ SameSession(c)
  <2> DEFINE q == [calls[c] EXCEPT !.at = "replayed", !.fresh = Nobody]
  <2>1. /\ q.at = "replayed" /\ q.token = calls[c].token /\ q.epoch = calls[c].epoch
        /\ q.stale = calls[c].stale
    BY <1>1 DEF CallRecs
  <2>2. Proceed(c, fresh) = q
    BY <1>2 DEF Proceed
  <2> HIDE DEF q
  <2>3. Sound(q, epoch[TabOf[c]], tok)
    BY <1>1, <2>1 DEF Sound, Pending
  <2> QED
    BY <1>1, <1>2, <2>1, <2>2, <2>3 DEF Sound, SameSession, Pending
<1>3. CASE ~ (fresh # Nobody /\ SameSession(c))
  <2>1. Proceed(c, fresh) = Failed
    BY <1>3 DEF Proceed
  <2> QED
    BY <1>1, <2>1, OverIsSound, Written DEF Sound, SameSession, Pending
<1> QED
  BY <1>2, <1>3

\* A token that is stored replaces one, unless the session has changed.
LEMMA StoreKeeps ==
  ASSUME GuardInv, NEW c \in Calls, calls[c].at \in {"driving", "woken"}, NEW fresh \in Identities,
         StoreFresh(c, fresh)
  PROVE  \A t \in Tabs : /\ token[t] # Nobody => token'[t] # Nobody
                         /\ token[t] = Nobody => token'[t] = Nobody
<1>1. token \in [Tabs -> Identities] /\ TabOf[c] \in Tabs
  BY AuthAssumption DEF GuardInv, TypeOK
<1>2. CASE fresh # Nobody /\ SameSession(c)
  <2>1. token[TabOf[c]] # Nobody
    BY <1>2, ProceedIsSound
  <2>2. token' = [token EXCEPT ![TabOf[c]] = fresh]
    BY <1>2 DEF StoreFresh, SetToken
  <2> QED
    BY <1>1, <1>2, <2>1, <2>2
<1>3. CASE UNCHANGED token
  BY <1>3
<1> QED
  BY <1>2, <1>3 DEF StoreFresh

\* One call moves on; neither it nor what becomes of it drives a refresh.
LEMMA OneCall ==
  ASSUME GuardInv, NEW c \in Calls, calls[c].at # "driving",
         NEW q, calls' = [calls EXCEPT ![c] = q], q.at # "driving",
         Sound(q, epoch'[TabOf[c]], token'[TabOf[c]]), UNCHANGED <<epoch, slot>>,
         \A t \in Tabs : token[t] # Nobody => token'[t] # Nobody
  PROVE  Guard'
<1>1. \A d \in Calls : calls'[d] = IF d = c THEN q ELSE calls[d]
  BY DEF GuardInv, TypeOK
<1>2. ASSUME NEW d \in Calls PROVE Sound(calls'[d], epoch'[TabOf[d]], token'[TabOf[d]])
  <2>1. CASE d = c
    BY <1>1, <2>1
  <2>2. CASE d # c
    <3>1. calls'[d] = calls[d] /\ TabOf[d] \in Tabs /\ Sound(calls[d], epoch[TabOf[d]], token[TabOf[d]])
      BY <1>1, <2>2, AuthAssumption DEF GuardInv, Guard
    <3> QED
      BY <3>1 DEF Sound
  <2> QED
    BY <2>1, <2>2
<1>3. ASSUME NEW d \in Calls PROVE Driven(d)'
  BY <1>1 DEF GuardInv, Guard, Driven
<1>4. ASSUME NEW t \in Tabs PROVE Holds(t)'
  BY <1>1 DEF GuardInv, Guard, Holds
<1> QED
  BY <1>2, <1>3, <1>4 DEF Guard

\* The refresh of a tab is over: its driver goes on, its waiters wake.
LEMMA RefreshOver ==
  ASSUME GuardInv, NEW d \in Calls, calls[d].at = "driving", NEW fresh \in Identities,
         NEW q, calls' = [Waking(TabOf[d], fresh) EXCEPT ![d] = q], q.at \notin {"driving", "waiting"},
         slot' = [slot EXCEPT ![TabOf[d]] = Free], UNCHANGED epoch,
         Sound(q, epoch[TabOf[d]], token'[TabOf[d]]),
         \A t \in Tabs : token[t] # Nobody => token'[t] # Nobody
  PROVE  Guard'
<1>1. TabOf[d] \in Tabs
  BY AuthAssumption
<1> DEFINE W == Waking(TabOf[d], fresh)
<1>2. /\ W \in [Calls -> CallRecs]
      /\ \A c \in Calls : \/ W[c] = calls[c] /\ (TabOf[c] = TabOf[d] => calls[c].at # "waiting")
                          \/ /\ calls[c].at = "waiting" /\ W[c].at = "woken"
                             /\ W[c].token = calls[c].token
                             /\ W[c].epoch = calls[c].epoch /\ W[c].stale = calls[c].stale
  BY <1>1, WakingFacts DEF GuardInv
<1>3. calls' = [W EXCEPT ![d] = q]
  OBVIOUS
<1> HIDE DEF W
<1>4. \A c \in Calls : calls'[c] = IF c = d THEN q ELSE W[c]
  BY <1>2, <1>3
<1>5. \A t \in Tabs : slot'[t] = IF t = TabOf[d] THEN Free ELSE slot[t]
  BY DEF GuardInv, TypeOK
<1>6. ASSUME NEW c \in Calls PROVE Sound(calls'[c], epoch'[TabOf[c]], token'[TabOf[c]])
  <2>1. CASE c = d
    BY <1>4, <2>1
  <2>2. CASE c # d
    <3>1. calls'[c] = W[c] /\ TabOf[c] \in Tabs /\ Sound(calls[c], epoch[TabOf[c]], token[TabOf[c]])
      BY <1>4, <2>2, AuthAssumption DEF GuardInv, Guard
    <3>2. CASE W[c] = calls[c]
      BY <3>1, <3>2 DEF Sound
    <3>3. CASE W[c] # calls[c]
      BY <1>2, <3>1, <3>3 DEF Sound, Pending
    <3> QED
      BY <3>2, <3>3
  <2> QED
    BY <2>1, <2>2
<1>7. ASSUME NEW c \in Calls, calls'[c].at = "driving" PROVE Driven(c)'
  <2>1. c # d /\ calls[c].at = "driving"
    BY <1>2, <1>4, <1>7
  <2>2. Driven(c) /\ Driven(d) /\ TabOf[c] \in Tabs
    BY AuthAssumption DEF GuardInv, Guard
  <2>3. TabOf[c] # TabOf[d]
    BY <2>1, <2>2 DEF Driven
  <2>4. slot'[TabOf[c]] = slot[TabOf[c]]
    BY <1>5, <2>2, <2>3
  <2> QED
    BY <2>1, <2>2, <2>4 DEF Driven
<1>8. ASSUME NEW t \in Tabs, slot'[t].at # "free" PROVE Holds(t)'
  <2>1. t # TabOf[d] /\ slot'[t] = slot[t]
    BY <1>5, <1>8, Written
  <2>2. Holds(t)
    BY DEF GuardInv, Guard
  <2> DEFINE e == slot[t].driver
  <2>3. e \in Calls /\ TabOf[e] = t /\ calls[e].at = "driving"
    BY <1>8, <2>1, <2>2 DEF Holds
  <2> HIDE DEF e
  <2>4. calls'[e].at = "driving"
    BY <1>2, <1>4, <2>1, <2>3
  <2> QED
    BY <2>1, <2>3, <2>4 DEF Holds, e
<1> QED
  BY <1>6, <1>7, <1>8 DEF Guard, Driven, Holds

\* A tab's identity changes: what is in flight in it falls behind the new epoch.
LEMMA Turns ==
  ASSUME GuardInv, NEW t \in Tabs, BumpEpoch(t), MarkStale(t), UNCHANGED slot,
         \A u \in Tabs \ {t} : token'[u] = token[u]
  PROVE  Guard'
<1>1. /\ \A u \in Tabs \ {t} : epoch'[u] = epoch[u]
      /\ epoch'[t] = epoch[t] + 1 /\ epoch[t] \in Nat
  BY DEF BumpEpoch, GuardInv, TypeOK
<1>2. \A c \in Calls :
        \/ calls'[c] = calls[c]
        \/ /\ TabOf[c] = t /\ calls[c].at \in Pending /\ calls[c].token # Nobody
           /\ calls'[c].at = calls[c].at /\ calls'[c].token = calls[c].token
           /\ calls'[c].epoch = calls[c].epoch
  BY MarkFacts DEF GuardInv, InFlight
<1>3. ASSUME NEW c \in Calls PROVE Sound(calls'[c], epoch'[TabOf[c]], token'[TabOf[c]])
  <2>1. /\ Sound(calls[c], epoch[TabOf[c]], token[TabOf[c]]) /\ TabOf[c] \in Tabs
        /\ calls[c].epoch \in Nat
    BY AuthAssumption DEF GuardInv, Guard, TypeOK
  <2>2. CASE TabOf[c] = t
    BY <1>1, <1>2, <2>1, <2>2 DEF Sound
  <2>3. CASE TabOf[c] # t
    BY <1>1, <1>2, <2>1, <2>3
  <2> QED
    BY <2>2, <2>3
<1>4. \A c \in Calls : calls'[c].at = calls[c].at
  BY <1>2
<1> QED
  BY <1>3, <1>4 DEF GuardInv, Guard, Driven, Holds

\* The page is loaded anew: its calls and its refresh are gone.
LEMMA ReloadKeeps == ASSUME GuardInv, NEW t \in Tabs, Reload(t) PROVE Guard'
<1>1. /\ \A u \in Tabs \ {t} : epoch'[u] = epoch[u] /\ token'[u] = token[u] /\ slot'[u] = slot[u]
      /\ slot'[t] = Free
      /\ \A c \in Calls : calls'[c] = IF TabOf[c] = t /\ InFlight(c) THEN Failed ELSE calls[c]
  BY DEF Reload, Hydrate, GuardInv, TypeOK
<1>2. ASSUME NEW c \in Calls
      PROVE  Sound(calls'[c], epoch'[TabOf[c]], token'[TabOf[c]]) /\ Driven(c)'
  <2>1. Sound(calls[c], epoch[TabOf[c]], token[TabOf[c]]) /\ TabOf[c] \in Tabs /\ Driven(c)
    BY AuthAssumption DEF GuardInv, Guard
  <2>2. CASE TabOf[c] = t
    <3>1. CASE InFlight(c)
      BY <1>1, <2>2, <3>1, OverIsSound, Written DEF Driven
    <3>2. CASE ~ InFlight(c)
      BY <1>1, <2>1, <2>2, <3>2 DEF InFlight, Sound, Pending, Driven
    <3> QED
      BY <3>1, <3>2
  <2>3. CASE TabOf[c] # t
    BY <1>1, <2>1, <2>3 DEF Driven
  <2> QED
    BY <2>2, <2>3
<1>3. ASSUME NEW u \in Tabs PROVE Holds(u)'
  <2>1. CASE u = t
    BY <1>1, <2>1, Written DEF Holds
  <2>2. CASE u # t
    BY <1>1, <2>2 DEF GuardInv, Guard, Holds
  <2> QED
    BY <2>1, <2>2
<1> QED
  BY <1>2, <1>3 DEF Guard

\* A call starts the refresh of its tab, which had none.
LEMMA DriveKeeps == ASSUME GuardInv, NEW c \in Calls, Drive(c) PROVE Guard'
<1> DEFINE t == TabOf[c]
           q == [calls[c] EXCEPT !.at = "driving"]
<1>1. t \in Tabs /\ slot[t].at = "free" /\ calls[c].at = "sent" /\ calls[c].token # Nobody
  BY AuthAssumption, Written DEF Drive, Refreshes
<1>2. q.at = "driving" /\ q.token = calls[c].token /\ q.epoch = calls[c].epoch /\ q.stale = calls[c].stale
  BY DEF GuardInv, TypeOK
<1>3. calls' = [calls EXCEPT ![c] = q]
  BY DEF Drive
<1> HIDE DEF q
<1>4. \A d \in Calls : calls'[d] = IF d = c THEN q ELSE calls[d]
  BY <1>3 DEF GuardInv, TypeOK
<1>5. /\ UNCHANGED <<epoch, token>> /\ \A u \in Tabs \ {t} : slot'[u] = slot[u]
      /\ slot'[t].at = "issuer" /\ slot'[t].driver = c
  BY <1>1 DEF Drive, GuardInv, TypeOK, session
<1>6. ASSUME NEW d \in Calls PROVE Sound(calls'[d], epoch'[TabOf[d]], token'[TabOf[d]])
  <2>1. Sound(calls[d], epoch[TabOf[d]], token[TabOf[d]])
    BY DEF GuardInv, Guard
  <2>2. CASE d = c
    BY <1>1, <1>2, <1>4, <1>5, <2>1, <2>2 DEF Sound, Pending
  <2>3. CASE d # c
    BY <1>4, <1>5, <2>1, <2>3
  <2> QED
    BY <2>2, <2>3
<1>7. ASSUME NEW d \in Calls PROVE Driven(d)'
  <2>1. CASE d = c
    BY <1>5, <2>1 DEF Driven
  <2>2. CASE d # c
    BY <1>1, <1>4, <1>5, <2>2, AuthAssumption DEF GuardInv, Guard, Driven
  <2> QED
    BY <2>1, <2>2
<1>8. ASSUME NEW u \in Tabs PROVE Holds(u)'
  <2>1. CASE u = t
    BY <1>2, <1>4, <1>5, <2>1 DEF Holds
  <2>2. CASE u # t
    <3>1. Holds(u) /\ slot'[u] = slot[u]
      BY <1>5, <2>2 DEF GuardInv, Guard
    <3> QED
      BY <1>1, <1>4, <3>1 DEF Holds
  <2> QED
    BY <2>1, <2>2
<1> QED
  BY <1>6, <1>7, <1>8 DEF Guard

LEMMA GuardInit == Init => GuardInv
<1> SUFFICES ASSUME Init PROVE Guard
  BY TypeInit DEF GuardInv
<1> USE AuthAssumption
<1>1. ASSUME NEW c \in Calls PROVE Sound(calls[c], epoch[TabOf[c]], token[TabOf[c]]) /\ Driven(c)
  BY Written, OverIsSound DEF Init, Driven
<1>2. ASSUME NEW t \in Tabs PROVE Holds(t)
  BY Written DEF Init, Holds
<1> QED
  BY <1>1, <1>2 DEF Guard

LEMMA GuardStep == GuardInv /\ [Next]_vars => GuardInv'
<1> SUFFICES ASSUME GuardInv, [Next]_vars PROVE Guard'
  BY TypeStep DEF GuardInv
<1> USE AuthAssumption
<1>0. /\ calls \in [Calls -> CallRecs] /\ slot \in [Tabs -> Slots] /\ Nobody \in Identities
      /\ \A c \in Calls : TabOf[c] \in Tabs
      /\ token \in [Tabs -> Identities] /\ epoch \in [Tabs -> Nat]
  BY DEF GuardInv, TypeOK, CallRecs, Slots, Identities
<1>1. ASSUME NEW t \in Tabs, NEW who, SetToken(t, who) PROVE \A u \in Tabs \ {t} : token'[u] = token[u]
  BY <1>0, <1>1 DEF SetToken
<1>2. ASSUME NEW t \in Tabs, NEW who, SignIn(t, who) PROVE Guard'
  BY <1>1, <1>2, Turns DEF SignIn, Publish
<1>3. ASSUME NEW t \in Tabs, Confirm(t) PROVE Guard'
  BY <1>3, Turns DEF Confirm, Publish
<1>4. ASSUME NEW t \in Tabs, Receive(t) PROVE Guard'
  <2>1. BumpEpoch(t) /\ MarkStale(t) /\ UNCHANGED slot
    BY <1>4 DEF Receive, Publish
  <2>2. \A u \in Tabs \ {t} : token'[u] = token[u]
    BY <1>0, <1>4 DEF Receive, Hydrate
  <2> QED
    BY <2>1, <2>2, Turns
<1>5. ASSUME NEW t \in Tabs, Reload(t) PROVE Guard'
  BY <1>5, ReloadKeeps
<1>6. ASSUME NEW c \in Calls, Send(c) PROVE Guard'
  <2> DEFINE q == [calls[c] EXCEPT !.at = "sent", !.token = token[TabOf[c]],
                                   !.epoch = epoch[TabOf[c]]]
  <2>1. /\ q.at = "sent" /\ q.token = token[TabOf[c]] /\ q.epoch = epoch[TabOf[c]]
        /\ q.stale = calls[c].stale
    BY <1>0 DEF CallRecs
  <2>2. calls' = [calls EXCEPT ![c] = q] /\ calls[c].at = "idle" /\ UNCHANGED <<epoch, slot, token>>
    BY <1>6 DEF Send, session
  <2> HIDE DEF q
  <2>3. ~ calls[c].stale /\ epoch[TabOf[c]] \in Nat
    BY <1>0, <2>2 DEF GuardInv, Guard, Sound, Pending
  <2>4. Sound(q, epoch'[TabOf[c]], token'[TabOf[c]])
    BY <2>1, <2>2, <2>3 DEF Sound
  <2> QED
    BY <2>1, <2>2, <2>4, OneCall
<1>7. ASSUME NEW c \in Calls, Answer(c) PROVE Guard'
  BY <1>7, OneCall, DeliveredIsSound DEF Answer, session
<1>8. ASSUME NEW c \in Calls, Reject(c) PROVE Guard'
  BY <1>8, OneCall, OverIsSound, Written DEF Reject, session
<1>9. ASSUME NEW c \in Calls, Join(c) PROVE Guard'
  <2> DEFINE q == [calls[c] EXCEPT !.at = "waiting"]
  <2>1. q.at = "waiting" /\ q.token = calls[c].token /\ q.epoch = calls[c].epoch
        /\ q.stale = calls[c].stale
    BY <1>0 DEF CallRecs
  <2>2. /\ calls' = [calls EXCEPT ![c] = q] /\ calls[c].at = "sent" /\ calls[c].token # Nobody
        /\ UNCHANGED <<epoch, slot, token>>
    BY <1>9 DEF Join, Refreshes, session
  <2> HIDE DEF q
  <2>3. Sound(calls[c], epoch[TabOf[c]], token[TabOf[c]])
    BY DEF GuardInv, Guard
  <2>4. Sound(q, epoch'[TabOf[c]], token'[TabOf[c]])
    BY <2>1, <2>2, <2>3 DEF Sound, Pending
  <2> QED
    BY <2>1, <2>2, <2>4, OneCall
<1>10. ASSUME NEW c \in Calls, Resume(c) PROVE Guard'
  <2>1. calls[c].fresh \in Identities
    BY <1>0 DEF CallRecs
  <2>2. \A t \in Tabs : token[t] # Nobody => token'[t] # Nobody
    BY <1>10, <2>1, StoreKeeps DEF Resume
  <2>3. /\ Sound(Proceed(c, calls[c].fresh), epoch[TabOf[c]], token'[TabOf[c]])
        /\ Proceed(c, calls[c].fresh).at \in {"replayed", "failed"}
    BY <1>0, <1>10, <2>1, <2>2, ProceedIsSound DEF Resume
  <2> QED
    BY <1>10, <2>2, <2>3, OneCall DEF Resume, session
<1>11. ASSUME NEW c \in Calls, Drive(c) PROVE Guard'
  BY <1>11, DriveKeeps
<1>12. ASSUME NEW c \in Calls, Drop(c) PROVE Guard'
  <2>1. CASE calls[c].at = "driving"
    BY <1>0, <1>12, <2>1, RefreshOver, OverIsSound, Written DEF Drop, session
  <2>2. CASE calls[c].at # "driving"
    BY <1>12, <2>2, OneCall, OverIsSound, Written DEF Drop, session
  <2> QED
    BY <2>1, <2>2
<1>13. ASSUME NEW t \in Tabs, RefreshEnds(t) PROVE Guard'
  <2> DEFINE d == slot[t].driver
  <2>1. d \in Calls /\ TabOf[d] = t /\ calls[d].at = "driving"
    BY <1>13 DEF RefreshEnds, GuardInv, Guard, Holds
  <2>2. PICK fresh \in {slot[t].for, Nobody} :
          StoreFresh(d, fresh) /\ calls' = [Waking(t, fresh) EXCEPT ![d] = Proceed(d, fresh)]
    BY <1>13 DEF RefreshEnds
  <2>3. fresh \in Identities /\ UNCHANGED epoch /\ slot' = [slot EXCEPT ![t] = Free]
    BY <1>0, <1>13 DEF Slots, RefreshEnds, session
  <2> HIDE DEF d
  <2>4. \A u \in Tabs : token[u] # Nobody => token'[u] # Nobody
    BY <2>1, <2>2, <2>3, StoreKeeps
  <2>5. /\ Sound(Proceed(d, fresh), epoch[TabOf[d]], token'[TabOf[d]])
        /\ Proceed(d, fresh).at \in {"replayed", "failed"}
    BY <1>0, <2>1, <2>3, <2>4, ProceedIsSound
  <2> QED
    BY <2>1, <2>2, <2>3, <2>4, <2>5, RefreshOver
<1>14. ASSUME NEW t \in Tabs, RefreshWaitsForItself(t) PROVE Guard'
  <2> DEFINE s == [slot[t] EXCEPT !.at = "self"]
  <2>1. s.at = "self" /\ s.driver = slot[t].driver
    BY <1>0 DEF Slots
  <2>2. slot' = [slot EXCEPT ![t] = s] /\ slot[t].at = "issuer" /\ UNCHANGED <<token, epoch, calls>>
    BY <1>14 DEF RefreshWaitsForItself, session
  <2> HIDE DEF s
  <2>3. \A u \in Tabs : slot'[u] = IF u = t THEN s ELSE slot[u]
    BY <1>0, <2>2
  <2>4. ASSUME NEW c \in Calls PROVE Sound(calls'[c], epoch'[TabOf[c]], token'[TabOf[c]])
    BY <2>2 DEF GuardInv, Guard
  <2>5. ASSUME NEW c \in Calls PROVE Driven(c)'
    BY <1>0, <2>1, <2>2, <2>3 DEF GuardInv, Guard, Driven
  <2>6. ASSUME NEW u \in Tabs PROVE Holds(u)'
    BY <2>1, <2>2, <2>3 DEF GuardInv, Guard, Holds
  <2> QED
    BY <2>4, <2>5, <2>6 DEF Guard
<1>15. CASE UNCHANGED vars
  BY <1>15 DEF vars, session, GuardInv, Guard, Driven, Holds
<1> QED
  BY <1>2, <1>3, <1>4, <1>5, <1>6, <1>7, <1>8, <1>9, <1>10, <1>11, <1>12, <1>13, <1>14, <1>15
  DEF Next, SignOut, Progress

\* The fence on responses: no answer to a request of an identity the tab has left
\* reaches its caller as a success.
THEOREM StaleNeverDeliveredHolds == Spec => []StaleNeverDelivered
<1>1. GuardInv => StaleNeverDelivered
  BY DEF GuardInv, Guard, Sound, StaleNeverDelivered, Pending
<1> QED
  BY GuardInit, GuardStep, <1>1, PTL DEF Spec

\* The fence on the token slot: no refresh, however late, fills a slot that was cleared.
THEOREM NoResurrectionHolds == Spec => NoResurrection
<1> DEFINE Kept == \A t \in Tabs : token[t] = Nobody /\ token'[t] # Nobody
                                     => epoch'[t] # epoch[t] \/ changes' # changes
<1>1. GuardInv /\ [Next]_vars => [Kept]_vars
  <2> SUFFICES ASSUME GuardInv, Next, NEW t \in Tabs, token[t] = Nobody, token'[t] # Nobody
               PROVE  epoch'[t] # epoch[t] \/ changes' # changes
    OBVIOUS
  <2>0. /\ epoch \in [Tabs -> Nat] /\ changes \in Int /\ token \in [Tabs -> Identities]
        /\ calls \in [Calls -> CallRecs] /\ slot \in [Tabs -> Slots] /\ Nobody \in Identities
    BY AuthAssumption DEF GuardInv, TypeOK, CallRecs, Slots, Identities
  <2>1. CASE Change
    BY <2>0, <2>1 DEF Change
  <2>2. ASSUME NEW s \in Tabs, Receive(s) PROVE epoch'[t] # epoch[t]
    <3>1. s = t
      BY <2>0, <2>2 DEF Receive, Hydrate
    <3>2. BumpEpoch(t)
      BY <2>2, <3>1 DEF Receive, Publish
    <3> QED
      BY <2>0, <3>2 DEF BumpEpoch
  <2>3. ASSUME NEW c \in Calls, Resume(c) PROVE FALSE
    <3>1. calls[c].fresh \in Identities
      BY <2>0 DEF CallRecs
    <3> QED
      BY <2>3, <3>1, StoreKeeps DEF Resume
  <2>4. ASSUME NEW s \in Tabs, RefreshEnds(s) PROVE FALSE
    <3>1. slot[s].driver \in Calls /\ calls[slot[s].driver].at = "driving"
      BY <2>4 DEF RefreshEnds, GuardInv, Guard, Holds
    <3>2. slot[s].for \in Identities
      BY <2>0 DEF Slots
    <3> QED
      BY <2>0, <2>4, <3>1, <3>2, StoreKeeps DEF RefreshEnds
  <2>5. CASE UNCHANGED token
    BY <2>5
  <2> QED
    BY <2>1, <2>2, <2>3, <2>4, <2>5 DEF Next, SignIn, SignOut, Confirm, Reload, Progress, Send,
       Answer, Reject, Join, Drive, Drop, RefreshWaitsForItself
<1> QED
  BY GuardInit, GuardStep, <1>1, PTL DEF Spec, NoResurrection

-----------------------------------------------------------------------------
(* Agreement of the tabs.                                                  *)

\* A tab with nothing to receive holds the token in storage, and shows nobody when the
\* last to act signed out.
Caught(t) ==
  inbox[t] = 0 => /\ token[t] = storage
                  /\ last = Nobody /\ status[t] = "ready" => principal[t] = Nobody

Agree == ~ raced => storage = last /\ \A t \in Tabs : Caught(t)

AgreeInv == TypeOK /\ Agree

LEMMA AgreeInit == Init => AgreeInv
  BY TypeInit DEF Init, AgreeInv, Agree, Caught

\* Only the tab that acts has nothing to receive after its broadcast.
LEMMA BroadcastFacts ==
  ASSUME TypeOK, NEW t \in Tabs, Broadcast(t), NEW u \in Tabs, inbox'[u] = 0
  PROVE  u = t /\ inbox[t] = 0
  BY DEF Broadcast, TypeOK

\* A token that is stored is that of the last to sign in, or the tabs have raced.
LEMMA StoreAgrees ==
  ASSUME AgreeInv, NEW c, NEW fresh, StoreFresh(c, fresh),
         UNCHANGED <<inbox, last, status, principal>>
  PROVE  Agree'
<1>1. CASE fresh # Nobody /\ SameSession(c)
  <2>1. /\ token' = [token EXCEPT ![TabOf[c]] = fresh] /\ storage' = fresh
        /\ raced' = (raced \/ fresh # last)
    BY <1>1 DEF StoreFresh, SetToken
  <2> SUFFICES ASSUME ~ raced' PROVE storage' = last' /\ \A t \in Tabs : Caught(t)'
    BY DEF Agree
  <2>2. ~ raced /\ fresh = last /\ storage = last
    BY <2>1 DEF AgreeInv, Agree
  <2>3. ASSUME NEW t \in Tabs PROVE Caught(t)'
    <3>1. Caught(t) /\ (token'[t] = token[t] \/ token'[t] = fresh)
      BY <2>1, <2>2 DEF AgreeInv, Agree, TypeOK
    <3> QED
      BY <2>1, <2>2, <3>1 DEF Caught
  <2> QED
    BY <2>1, <2>2, <2>3
<1>2. CASE UNCHANGED <<token, storage, raced>>
  BY <1>2 DEF AgreeInv, Agree, Caught
<1> QED
  BY <1>1, <1>2 DEF StoreFresh

LEMMA AgreeStep == AgreeInv /\ [Next]_vars => AgreeInv'
<1> SUFFICES ASSUME AgreeInv, [Next]_vars PROVE Agree'
  BY TypeStep DEF AgreeInv
<1>0. /\ token \in [Tabs -> Identities] /\ principal \in [Tabs -> Identities]
      /\ status \in [Tabs -> {"ready", "pending", "restoring"}] /\ inbox \in [Tabs -> Nat]
  BY DEF AgreeInv, TypeOK
<1>1. ASSUME NEW t \in Tabs, NEW who, SignIn(t, who) PROVE Agree'
  <2>1. /\ token'[t] = who /\ storage' = who /\ last' = who /\ principal'[t] = who
        /\ Broadcast(t)
    BY <1>0, <1>1 DEF SignIn, SetToken, Publish
  <2>2. ASSUME NEW u \in Tabs, inbox'[u] = 0 PROVE u = t
    BY <2>1, <2>2, BroadcastFacts DEF AgreeInv
  <2> QED
    BY <2>1, <2>2 DEF Agree, Caught
<1>2. ASSUME NEW t \in Tabs, Confirm(t) PROVE Agree'
  <2>1. /\ principal'[t] = token[t] /\ Broadcast(t)
        /\ UNCHANGED <<token, storage, last, raced>>
    BY <1>0, <1>2 DEF Confirm, Publish
  <2>2. ASSUME NEW u \in Tabs, inbox'[u] = 0 PROVE u = t /\ inbox[t] = 0
    BY <2>1, <2>2, BroadcastFacts DEF AgreeInv
  <2> QED
    BY <2>1, <2>2 DEF AgreeInv, Agree, Caught
<1>3. ASSUME NEW t \in Tabs, Receive(t) PROVE Agree'
  <2>1. token' = [token EXCEPT ![t] = storage] /\ UNCHANGED <<storage, last, raced>>
    BY <1>3 DEF Receive, Hydrate
  <2>2. \A u \in Tabs \ {t} : inbox'[u] = inbox[u]
    BY <1>0, <1>3 DEF Receive
  <2>3. /\ \A u \in Tabs \ {t} : status'[u] = status[u] /\ principal'[u] = principal[u]
        /\ storage = Nobody => principal'[t] = Nobody
    BY <1>0, <1>3 DEF Receive, Publish
  <2> SUFFICES ASSUME ~ raced PROVE storage' = last' /\ \A u \in Tabs : Caught(u)'
    BY <2>1 DEF Agree
  <2>4. storage = last /\ \A u \in Tabs : Caught(u)
    BY DEF AgreeInv, Agree
  <2>5. ASSUME NEW u \in Tabs PROVE Caught(u)'
    <3>1. CASE u = t
      BY <1>0, <2>1, <2>3, <2>4, <3>1 DEF Caught
    <3>2. CASE u # t
      BY <1>0, <2>1, <2>2, <2>3, <2>4, <3>2 DEF Caught
    <3> QED
      BY <3>1, <3>2
  <2> QED
    BY <2>1, <2>4, <2>5
<1>4. ASSUME NEW t \in Tabs, Reload(t) PROVE Agree'
  <2>1. /\ token' = [token EXCEPT ![t] = storage] /\ inbox' = [inbox EXCEPT ![t] = 0]
        /\ UNCHANGED <<storage, last, raced>>
    BY <1>4 DEF Reload, Hydrate
  <2>2. /\ \A u \in Tabs \ {t} : status'[u] = status[u] /\ principal'[u] = principal[u]
        /\ principal'[t] = snapshot
    BY <1>0, <1>4 DEF Reload
  <2>3. snapshot # Nobody => status'[t] # "ready"
    BY <1>0, <1>4 DEF Reload
  <2> SUFFICES ASSUME ~ raced PROVE storage' = last' /\ \A u \in Tabs : Caught(u)'
    BY <2>1 DEF Agree
  <2>4. storage = last /\ \A u \in Tabs : Caught(u)
    BY DEF AgreeInv, Agree
  <2>5. ASSUME NEW u \in Tabs PROVE Caught(u)'
    <3>1. CASE u = t
      BY <1>0, <2>1, <2>2, <2>3, <2>4, <3>1 DEF Caught
    <3>2. CASE u # t
      BY <1>0, <2>1, <2>2, <2>4, <3>2 DEF Caught
    <3> QED
      BY <3>1, <3>2
  <2> QED
    BY <2>1, <2>4, <2>5
<1>5. ASSUME NEW c \in Calls, Resume(c) PROVE Agree'
  BY <1>5, StoreAgrees DEF Resume, session
<1>6. ASSUME NEW t \in Tabs, RefreshEnds(t) PROVE Agree'
  BY <1>6, StoreAgrees DEF RefreshEnds, session
<1>7. CASE UNCHANGED <<storage, inbox, token, principal, status, last, raced>>
  BY <1>7 DEF AgreeInv, Agree, Caught
<1> QED
  BY <1>1, <1>2, <1>3, <1>4, <1>5, <1>6, <1>7 DEF Next, SignOut, Progress, Send, Answer, Reject,
     Join, Drive, Drop, RefreshWaitsForItself, vars, session

\* Quiet tabs hold the token of whoever signed in last and show no user after a
\* sign-out, unless a refresh has stored somebody else's token.
THEOREM TabsAgreeHolds == Spec => []TabsAgree
<1>1. AgreeInv => TabsAgree
  BY DEF AgreeInv, Agree, Caught, TabsAgree, Quiet
<1> QED
  BY AgreeInit, AgreeStep, <1>1, PTL DEF Spec

=============================================================================
