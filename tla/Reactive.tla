------------------------------- MODULE Reactive -------------------------------
(***************************************************************************)
(* The reactive scheduler of pocopine-core: signals, effects and computed  *)
(* values of one browser tab.  Everything runs on one thread, yet nothing  *)
(* is atomic: an effect's body writes signals, releases and creates        *)
(* effects and may drain the queue while it runs, and a cleanup runs in    *)
(* the middle of a release.  The call stack is therefore part of the       *)
(* state, one frame per call that can be interrupted by another; the       *)
(* thread-locals that only count frames (CURRENT_EFFECT, DISPATCH_DEPTH,   *)
(* FLUSH_DEPTH, BATCHING) are read off it.                                 *)
(*                                                                         *)
(* User code is free within its Program: which sources a body may read,    *)
(* which it may write, and so on.  A component field is the signal it is   *)
(* interned as.                                                            *)
(***************************************************************************)
EXTENDS Naturals, Sequences, FiniteSets, SequencesExt

CONSTANTS
  Signals,     \* signals and interned fields
  Computeds,   \* computed values: at once a source and a lazy effect
  Effects,     \* the effects that will ever be created, computeds included
  Slots,       \* bound on the slots of EFFECT_SLAB
  Event,       \* the user code of a browser event handler ...
  Cleanup,     \* ... and of an on_cleanup callback
  Reads, Writes, Makes, Frees, Calls,  \* the Program, by body
  MaxReruns,   \* MAX_EFFECT_RERUNS_PER_CASCADE
  MaxEarly     \* bound on events that run while a flush is pending

Sources == Signals \cup Computeds
Plain   == Effects \ Computeds
Bodies  == Effects \cup {Event, Cleanup}
NoOne   == "none"   \* an empty slot

ASSUME ReactiveAssumption ==
  /\ IsFiniteSet(Effects) /\ NoOne \notin Effects
  /\ Computeds \subseteq Effects /\ Signals \cap Effects = {}
  /\ Event \notin Effects /\ Cleanup \notin Effects
  /\ Reads \in [Bodies -> SUBSET Sources] /\ Writes \in [Bodies -> SUBSET Signals]
  /\ Makes \in [Bodies -> SUBSET Effects] /\ Frees \in [Bodies -> SUBSET Plain]
  /\ Calls \in [Bodies -> SUBSET {"drain", "batch", "cleanup", "unmount"}]
  /\ \A c \in Computeds : Writes[c] = {} /\ Makes[c] = {} /\ Frees[c] = {} /\ Calls[c] = {}
  /\ Reads[Cleanup] = {}
  /\ MaxReruns \in Nat \ {0} /\ MaxEarly \in Nat

VARIABLES
  slab,       \* EFFECT_SLAB: who occupies each slot
  gens,       \* EFFECT_GENERATIONS
  idOf,       \* the id each effect's owner holds, possibly stale
  deps,       \* EffectEntry.deps: what an effect subscribes to
  subs,       \* SIGNAL_DEPS: who subscribes to a source, in order
  open,       \* the effects with a registered cleanup
  dirty,      \* the computeds whose cache is out of date
  gone,       \* signals whose scope was removed (clear_scope)
  queue,      \* QUEUE
  runs,       \* CASCADE_RUNS, by id
  flag,       \* FLUSH_SCHEDULED
  micro,      \* flush microtasks that have not run yet
  worklist,   \* WORKLIST
  stack,      \* the calls under way, innermost last
  basis,      \* history: the signals under an effect's last finished run
  lag,        \* history: the effects whose last run saw an old value
  muted,      \* history: the effects the cycle guard suppressed, or that ran
              \* inside their own run, which ends last and by its older reads
  early       \* how many events ran while a flush was pending

tables == <<slab, gens, idOf>>
graph  == <<deps, subs, open, dirty, gone>>
sched  == <<queue, runs, flag, micro>>
past   == <<basis, lag, muted>>
vars   == <<tables, graph, sched, worklist, stack, past, early>>

Generations == 0..Cardinality(Effects)
Ids    == [slot : Slots, gen : Generations]
NoId   == <<>>

-----------------------------------------------------------------------------
\* A call of user code; `clean` is run_effect before its body starts.
Code(op, e, id) == [op |-> op, eff |-> e, id |-> id, did |-> {}, batch |-> FALSE,
                    basis |-> {}, old |-> FALSE]
\* A loop over ids; `any` is any_queued, or that the flush has run a body.
Loop(op, ids) == [op |-> op, ids |-> ids, any |-> FALSE]
Get(x)        == [op |-> "get", src |-> x]
Release(id)   == [op |-> "release", id |-> id]

Top  == Last(stack)
Rest == Front(stack)
At(op)       == stack # <<>> /\ Top.op = op
InUserCode   == stack # <<>> /\ Top.op \in {"event", "body", "cleanup"}
Holding(op)  == {i \in DOMAIN stack : stack[i].op = op}

FlushDepth == Cardinality(Holding("flush"))
Batching   == \E i \in DOMAIN stack : stack[i].op \in {"event", "body", "cleanup"} /\ stack[i].batch
Did(step)  == [Top EXCEPT !.did = @ \cup {step}]

\* with_effect: the id resolves only while its generation is the slot's.
Live(id) == id # NoId /\ slab[id.slot] # NoOne /\ gens[id.slot] = id.gen
Occupant(id) == slab[id.slot]

\* Mutant of Unsubscribed: clear_deps_for forgets the inverse set, not the edges.
KeepEdges(id) == subs

\* clear_deps_for: the subscriber sets and the queue are IndexSets, and shift_remove
\* keeps the order of the others.
Unsubscribed(id) ==
  [x \in Sources |-> IF Live(id) /\ x \in deps[Occupant(id)] THEN RemoveFirst(subs[x], id)
                                                             ELSE subs[x]]

ClearDeps(id) ==
  /\ subs' = Unsubscribed(id)
  /\ deps' = IF Live(id) THEN [deps EXCEPT ![Occupant(id)] = {}] ELSE deps

\* Mutant of ScheduleFlush: a pending nested flush counts as scheduled.
ScheduleUnlessFlushing ==
  IF flag \/ FlushDepth > 0 THEN UNCHANGED <<flag, micro>> ELSE flag' = TRUE /\ micro' = micro + 1

\* schedule_flush
ScheduleFlush ==
  IF flag THEN UNCHANGED <<flag, micro>> ELSE flag' = TRUE /\ micro' = micro + 1

\* The runs on the stack that have read something under `s` see an old value now.
Outdate(frames, s) ==
  [i \in DOMAIN frames |->
     IF frames[i].op = "body" /\ s \in frames[i].basis THEN [frames[i] EXCEPT !.old = TRUE]
                                                       ELSE frames[i]]

-----------------------------------------------------------------------------
Init ==
  /\ slab = [s \in Slots |-> NoOne] /\ gens = [s \in Slots |-> 0]
  /\ idOf = [e \in Effects |-> NoId]
  /\ deps = [e \in Effects |-> {}] /\ subs = [x \in Sources |-> <<>>]
  /\ open = {} /\ dirty = {} /\ gone = {}
  /\ queue = <<>> /\ runs = [id \in Ids |-> 0] /\ flag = FALSE /\ micro = 0
  /\ worklist = <<>> /\ stack = <<>>
  /\ basis = [e \in Effects |-> {}] /\ lag = {} /\ muted = {} /\ early = 0

\* A browser event: a task of its own once the microtasks are done, the
\* continuation of another microtask before that, or a handler deferred to the end
\* of an effect's callback frame.
BrowserEvent ==
  /\ \/ stack = <<>>
     \/ Len(stack) = 1 /\ At("flush") /\ Top.any
  /\ IF stack = <<>> /\ micro = 0 THEN UNCHANGED early
                                  ELSE early < MaxEarly /\ early' = early + 1
  /\ stack' = Append(stack, Code("event", Event, NoId))
  /\ UNCHANGED <<tables, graph, sched, worklist, past>>

\* effect_with and computed(): a slot, an id of its generation, and unless it is
\* lazy the first run.
Create(e) ==
  /\ InUserCode /\ e \in Makes[Top.eff] /\ idOf[e] = NoId
  /\ \E s \in Slots :
       /\ slab[s] = NoOne
       /\ slab' = [slab EXCEPT ![s] = e]
       /\ idOf' = [idOf EXCEPT ![e] = [slot |-> s, gen |-> gens[s]]]
  /\ IF e \in Computeds
     THEN dirty' = dirty \cup {e} /\ UNCHANGED stack
     ELSE stack' = Append(stack, Code("clean", e, idOf'[e])) /\ UNCHANGED dirty
  /\ UNCHANGED <<gens, deps, subs, open, gone, sched, worklist, past, early>>

\* run_effect up to the body: the cleanup of the previous run, then its deps.
RunCleanups ==
  /\ At("clean") /\ Live(Top.id) /\ Occupant(Top.id) \in open
  /\ open' = open \ {Occupant(Top.id)}
  /\ stack' = Append(stack, Code("cleanup", Cleanup, NoId))
  /\ UNCHANGED <<tables, deps, subs, dirty, gone, sched, worklist, past, early>>

StartBody ==
  /\ At("clean") /\ ~ (Live(Top.id) /\ Occupant(Top.id) \in open)
  /\ ClearDeps(Top.id)
  /\ stack' = Append(Rest, [Top EXCEPT !.op = "body"])
  /\ muted' = IF \E i \in Holding("body") : stack[i].eff = Top.eff
              THEN muted \cup {Top.eff} ELSE muted \ {Top.eff}
  /\ UNCHANGED <<tables, open, dirty, gone, sched, worklist, basis, lag, early>>

\* track_signal, for the effect whose body is running.
Track(id, x) ==
  /\ subs' = IF Contains(subs[x], id) THEN subs ELSE [subs EXCEPT ![x] = Append(@, id)]
  /\ deps' = IF Contains(subs[x], id) \/ ~ Live(id) THEN deps
             ELSE [deps EXCEPT ![Occupant(id)] = @ \cup {x}]

\* The value a body gets, for the history: what lies under it, and whether it is old.
Got(f, x) ==
  IF x \in Computeds
  THEN [f EXCEPT !.basis = @ \cup basis[x], !.old = @ \/ x \in lag, !.did = @ \cup {x}]
  ELSE [f EXCEPT !.basis = @ \cup {x}, !.did = @ \cup {x}]

\* The reader's frame becomes `f`; an event handler reads without subscribing.
Subscribe(below, f, x) ==
  /\ stack' = Append(below, Got(f, x))
  /\ IF f.op = "body" THEN Track(f.id, x) ELSE UNCHANGED <<subs, deps>>

\* Signal::get, a tracked field read, and Computed::get of a clean cache.
Read(x) ==
  /\ InUserCode /\ x \in Reads[Top.eff] \ (Top.did \cup gone)
  /\ x \in Computeds => idOf[x] # NoId /\ x \notin dirty
  /\ Subscribe(Rest, Top, x)
  /\ UNCHANGED <<tables, open, dirty, gone, sched, worklist, past, early>>

\* Computed::get of a dirty cache: run_now first, then subscribe.
ReadDirty(x) ==
  /\ InUserCode /\ x \in Reads[Top.eff] \ Top.did
  /\ x \in dirty /\ Live(idOf[x])
  /\ stack' = stack \o <<Get(x), Code("clean", x, idOf[x])>>
  /\ UNCHANGED <<tables, graph, sched, worklist, past, early>>

FinishRead ==
  /\ At("get")
  /\ Subscribe(Front(Rest), Last(Rest), Top.src)
  /\ UNCHANGED <<tables, open, dirty, gone, sched, worklist, past, early>>

\* Setter::set with a new value, set_force, update: the write and its dispatch.
Write(s) ==
  /\ InUserCode /\ s \in Writes[Top.eff] \ (Top.did \cup gone)
  /\ stack' = Append(Outdate(Append(Rest, Did(s)), s), Loop("dispatch", subs[s]))
  /\ lag' = lag \cup {e \in Effects : s \in basis[e]}
  /\ UNCHANGED <<tables, graph, sched, worklist, basis, muted, early>>

\* dispatch_signal, one subscriber of the snapshot: a stale id is skipped, a
\* computed's scheduler marks it dirty and defers its own dispatch, an effect is
\* queued unless it is queued already.
Route ==
  /\ At("dispatch") /\ Top.ids # <<>>
  /\ LET id    == Head(Top.ids)
         lazy  == Live(id) /\ Occupant(id) \in Computeds
         plain == Live(id) /\ Occupant(id) \in Plain
     IN /\ stack' = Append(Rest, [Top EXCEPT !.ids = Tail(@), !.any = @ \/ plain])
        /\ queue' = IF plain /\ ~ Contains(queue, id) THEN Append(queue, id) ELSE queue
        /\ dirty' = IF lazy THEN dirty \cup {Occupant(id)} ELSE dirty
        /\ worklist' = IF lazy THEN Append(worklist, Occupant(id)) ELSE worklist
  /\ UNCHANGED <<tables, deps, subs, open, gone, runs, flag, micro, past, early>>

NextSignal ==
  /\ At("dispatch") /\ Top.ids = <<>> /\ worklist # <<>>
  /\ stack' = Append(Rest, [Top EXCEPT !.ids = subs[Head(worklist)]])
  /\ worklist' = Tail(worklist)
  /\ UNCHANGED <<tables, graph, sched, past, early>>

EndDispatch ==
  /\ At("dispatch") /\ Top.ids = <<>> /\ worklist = <<>>
  /\ stack' = Rest
  /\ IF Top.any /\ ~ Batching THEN ScheduleFlush ELSE UNCHANGED <<flag, micro>>
  /\ UNCHANGED <<tables, graph, queue, runs, worklist, past, early>>

\* batch(): writes inside it only queue; its end schedules what is queued.
EnterBatch ==
  /\ InUserCode /\ "batch" \in Calls[Top.eff] \ Top.did
  /\ stack' = Append(Rest, [Did("batch") EXCEPT !.batch = TRUE])
  /\ UNCHANGED <<tables, graph, sched, worklist, past, early>>

ExitBatch ==
  /\ InUserCode /\ Top.batch
  /\ LET below == Append(Rest, [Top EXCEPT !.batch = FALSE])
         outer == \E i \in DOMAIN Rest : stack[i].op \in {"event", "body", "cleanup"} /\ stack[i].batch
     IN /\ stack' = below
        /\ IF ~ outer /\ queue # <<>> THEN ScheduleFlush ELSE UNCHANGED <<flag, micro>>
  /\ UNCHANGED <<tables, graph, queue, runs, worklist, past, early>>

\* flush(): the queue becomes this pass, and what is queued meanwhile the next one.
BeginFlush(below) ==
  /\ flag' = FALSE
  /\ stack' = Append(below, Loop("flush", queue))
  /\ queue' = <<>>

FlushMicrotask ==
  /\ stack = <<>> /\ micro > 0
  /\ micro' = micro - 1
  /\ BeginFlush(stack)
  /\ UNCHANGED <<tables, graph, runs, worklist, past, early>>

\* flush_sync() from user code, in the middle of a body or not.  Nobody drains inside a
\* batch, and the model does not: what that pass leaves queued is not scheduled before
\* the batch ends, so its run counts outlive it when a release empties the queue.
FlushSync ==
  /\ InUserCode /\ ~ Batching /\ "drain" \in Calls[Top.eff] \ Top.did
  /\ BeginFlush(Append(Rest, Did("drain")))
  /\ UNCHANGED <<tables, graph, runs, micro, worklist, past, early>>

\* One id of the pass: counted, and run unless the cycle guard suppresses it or its
\* effect was released meanwhile.
FlushNext ==
  /\ At("flush") /\ Top.ids # <<>>
  /\ LET id   == Head(Top.ids)
         more == Append(Rest, [Top EXCEPT !.ids = Tail(@)])
         over == runs[id] >= MaxReruns
     IN /\ runs' = [runs EXCEPT ![id] = IF over THEN MaxReruns + 1 ELSE @ + 1]
        /\ stack' = IF Live(id) /\ ~ over
                    THEN Append(more, Code("clean", Occupant(id), id)) ELSE more
        /\ muted' = IF Live(id) /\ over THEN muted \cup {Occupant(id)} ELSE muted
  /\ UNCHANGED <<tables, graph, queue, flag, micro, worklist, basis, lag, early>>

\* Mutants of EndFlush: a nested flush_sync may end the cascade; the queue is cleared
\* after the pass.
EndAnyFlush ==
  /\ At("flush") /\ Top.ids = <<>>
  /\ stack' = Rest
  /\ runs' = IF queue = <<>> THEN [id \in Ids |-> 0] ELSE runs
  /\ UNCHANGED <<tables, graph, queue, flag, micro, worklist, past, early>>

EndFlushClearing ==
  /\ At("flush") /\ Top.ids = <<>>
  /\ stack' = Rest /\ queue' = <<>>
  /\ runs' = IF FlushDepth = 1 THEN [id \in Ids |-> 0] ELSE runs
  /\ UNCHANGED <<tables, graph, flag, micro, worklist, past, early>>

\* The outermost pass that leaves nothing queued ends the cascade.
EndFlush ==
  /\ At("flush") /\ Top.ids = <<>>
  /\ stack' = Rest
  /\ runs' = IF FlushDepth = 1 /\ queue = <<>> THEN [id \in Ids |-> 0] ELSE runs
  /\ UNCHANGED <<tables, graph, queue, flag, micro, worklist, past, early>>

\* Mutant of Evicted: a second release counts again.
EvictedUnchecked(id) ==
  /\ slab' = IF Live(id) THEN [slab EXCEPT ![id.slot] = NoOne] ELSE slab
  /\ gens' = [gens EXCEPT ![id.slot] = @ + 1]

\* The slab part of release.
Evicted(id) ==
  /\ slab' = IF Live(id) THEN [slab EXCEPT ![id.slot] = NoOne] ELSE slab
  /\ gens' = IF Live(id) THEN [gens EXCEPT ![id.slot] = @ + 1] ELSE gens

\* release after its cleanups; an id that is stale by now changes nothing.
Retire(id) ==
  /\ ClearDeps(id)
  /\ Evicted(id)
  /\ queue' = IF Live(id) THEN RemoveFirst(queue, id) ELSE queue
  /\ open' = IF Live(id) THEN open \ {Occupant(id)} ELSE open
  /\ IF Live(id)
     THEN /\ lag' = lag \ {Occupant(id)} /\ muted' = muted \ {Occupant(id)}
          /\ basis' = [basis EXCEPT ![Occupant(id)] = {}]
     ELSE UNCHANGED past

\* release, of any effect, the caller's own included, and possibly for the second time.
Free(e) ==
  /\ InUserCode /\ e \in Frees[Top.eff] \ Top.did /\ idOf[e] # NoId
  /\ LET id == idOf[e]
     IN IF Live(id) /\ Occupant(id) \in open
        THEN /\ open' = open \ {Occupant(id)}
             /\ stack' = Append(Rest, Did(e))
                         \o <<Release(id), Code("cleanup", Cleanup, NoId)>>
             /\ UNCHANGED <<slab, gens, deps, subs, queue, past>>
        ELSE Retire(id) /\ stack' = Append(Rest, Did(e))
  /\ UNCHANGED <<idOf, dirty, gone, runs, flag, micro, worklist, early>>

FinishRelease ==
  /\ At("release")
  /\ Retire(Top.id)
  /\ stack' = Rest
  /\ UNCHANGED <<idOf, dirty, gone, runs, flag, micro, worklist, early>>

\* on_cleanup: a no-op for an effect that is gone already.
OnCleanup ==
  /\ At("body") /\ "cleanup" \in Calls[Top.eff] \ Top.did
  /\ open' = IF Live(Top.id) THEN open \cup {Occupant(Top.id)} ELSE open
  /\ stack' = Append(Rest, Did("cleanup"))
  /\ UNCHANGED <<tables, deps, subs, dirty, gone, sched, worklist, past, early>>

\* clear_scope, for one field: its subscribers are forgotten, not told.
ClearScope(s) ==
  /\ InUserCode /\ "unmount" \in Calls[Top.eff] \ Top.did
  /\ s \notin gone
  /\ gone' = gone \cup {s}
  /\ subs' = [subs EXCEPT ![s] = <<>>]
  /\ stack' = Append(Rest, Did("unmount"))
  /\ UNCHANGED <<tables, deps, open, dirty, sched, worklist, past, early>>

\* User code returns.  A computed's body ends by declaring its cache clean.
Return ==
  /\ InUserCode /\ ~ Top.batch
  /\ stack' = IF Len(Rest) > 0 /\ Last(Rest).op = "flush"
              THEN Append(Front(Rest), [Last(Rest) EXCEPT !.any = TRUE]) ELSE Rest
  /\ IF Top.op = "body" /\ Live(Top.id)
     THEN /\ basis' = [basis EXCEPT ![Top.eff] = Top.basis]
          /\ lag' = IF Top.old THEN lag \cup {Top.eff} ELSE lag \ {Top.eff}
     ELSE UNCHANGED <<basis, lag>>
  /\ dirty' = IF Top.op = "body" THEN dirty \ {Top.eff} ELSE dirty
  /\ UNCHANGED <<tables, deps, subs, open, gone, sched, worklist, muted, early>>

\* What the code does on its own once it has been called.
Machinery ==
  \/ RunCleanups \/ StartBody \/ FinishRead \/ FinishRelease
  \/ Route \/ NextSignal \/ EndDispatch \/ FlushNext \/ EndFlush

UserSteps ==
  \/ \E e \in Effects : Create(e) \/ Free(e)
  \/ \E x \in Sources : Read(x) \/ ReadDirty(x)
  \/ \E s \in Signals : Write(s) \/ ClearScope(s)
  \/ EnterBatch \/ ExitBatch \/ FlushSync \/ OnCleanup \/ Return

Next == BrowserEvent \/ FlushMicrotask \/ Machinery \/ UserSteps

Spec == Init /\ [][Next]_vars

\* Calls return and microtasks run; no event has to happen.
FairSpec == /\ Spec
            /\ WF_vars(Machinery) /\ WF_vars(UserSteps) /\ WF_vars(FlushMicrotask)

-----------------------------------------------------------------------------
CodeFrames ==
  [op : {"event", "clean", "body", "cleanup"}, eff : Bodies, id : Ids \cup {NoId},
   did : SUBSET (Sources \cup Effects \cup {"drain", "batch", "cleanup", "unmount"}),
   batch : BOOLEAN, basis : SUBSET Signals, old : BOOLEAN]
LoopFrames    == [op : {"flush", "dispatch"}, ids : Seq(Ids), any : BOOLEAN]
GetFrames     == [op : {"get"}, src : Computeds]
ReleaseFrames == [op : {"release"}, id : Ids]
Frames        == CodeFrames \cup LoopFrames \cup GetFrames \cup ReleaseFrames

TypeOK ==
  /\ slab \in [Slots -> Effects \cup {NoOne}] /\ gens \in [Slots -> Generations]
  /\ idOf \in [Effects -> Ids \cup {NoId}]
  /\ deps \in [Effects -> SUBSET Sources] /\ subs \in [Sources -> Seq(Ids)]
  /\ open \subseteq Effects /\ dirty \subseteq Computeds /\ gone \subseteq Signals
  /\ queue \in Seq(Ids) /\ runs \in [Ids -> 0..MaxReruns + 1]
  /\ flag \in BOOLEAN /\ micro \in Nat
  /\ worklist \in Seq(Computeds) /\ stack \in Seq(Frames)
  /\ basis \in [Effects -> SUBSET Signals] /\ lag \subseteq Effects /\ muted \subseteq Effects
  /\ early \in 0..MaxEarly

Alive(e) == \E s \in Slots : slab[s] = e

\* An id is its owner's for good: it resolves to the effect it was minted for or, once
\* that is released, to nothing, however often the slot is used again.  So neither a
\* second release nor an edge left behind reaches a stranger.
IdsResolve ==
  /\ \A e \in Effects : Live(idOf[e]) => Occupant(idOf[e]) = e
  /\ \A i \in DOMAIN stack :
       stack[i].op \in {"clean", "body"} /\ Live(stack[i].id)
         => Occupant(stack[i].id) = stack[i].eff
  /\ \A i \in DOMAIN queue : Live(queue[i])

\* Both directions of the graph agree: an effect that a write would queue knows that it
\* subscribes, so its next run and its release take the edge away.
EdgesAgree ==
  \A x \in Sources : \A i \in DOMAIN subs[x] :
    Live(subs[x][i]) => x \in deps[Occupant(subs[x][i])]

\* The graph is sound: no id and no edge leads to a stranger.
GraphSound == IdsResolve /\ EdgesAgree

\* What is queued will be flushed: a microtask is on its way, or the batch or dispatch
\* that queued it is still going to schedule one.
QueueIsScheduled ==
  /\ flag => micro > 0
  /\ queue # <<>> => \/ flag
                     \/ Batching
                     \/ \E i \in Holding("dispatch") : stack[i].any

\* An idle tab has forgotten the last cascade, so that no effect starts the next one
\* with part of its budget gone.
IdleResets ==
  stack = <<>> /\ micro = 0 => \A id \in Ids : runs[id] = 0

\* Flushes are sound: none is forgotten, and none starts with another's counts.
FlushSound == QueueIsScheduled /\ IdleResets

Awaited(e) ==
  \/ \E i \in DOMAIN queue : queue[i] = idOf[e]
  \/ Holding("dispatch") # {}
  \/ \E i \in Holding("flush") : Contains(stack[i].ids, idOf[e])
  \/ \E i \in Holding("clean") \cup Holding("body") : stack[i].id = idOf[e]

\* No update is missed: a live effect whose last run saw an old value is going to run
\* again, unless the cycle guard suppressed it; and a cache that is old is marked dirty.
NoMissedUpdate ==
  /\ \A e \in lag \cap Plain : Alive(e) => Awaited(e) \/ e \in muted
  /\ \A c \in lag \cap Computeds : c \in dirty \/ Awaited(c)

\* Every cascade ends: whatever effects write, create, release or drain, the tab comes
\* to rest.
CascadesEnd == micro > 0 ~> (stack = <<>> /\ micro = 0)
=============================================================================
