------------------------------ MODULE Dispatch ------------------------------
(***************************************************************************)
(* Trigger processing of RuleEngine (src/core/rule-engine.ts).             *)
(*                                                                         *)
(* A trigger is a fact change, an expired timer or an event.  The engine   *)
(* runs on one thread: what happens between two awaits is one step here,   *)
(* and steps of different asynchronous calls interleave freely.            *)
(*                                                                         *)
(* Triggers are numbered in the order they arise.  An execution <<t, i>>   *)
(* is the evaluation of the i-th matching rule of trigger t.               *)
(***************************************************************************)
EXTENDS Naturals, Sequences, FiniteSets

CONSTANTS
    Rules,              \* identifiers of the registered rules
    Facts, Timers,      \* fact keys and timer names that triggers carry
    Topics,             \* event topics
    Matching,           \* [key -> sequence of matching rules, by priority]
    Actions,            \* [rule -> sequence of topics (emit_event), facts
                        \*  (set_fact) and Other]
    Other,              \* any other kind of action
    OnExpire,           \* [timer -> topic of the event it emits]
    LookupRules,        \* rules whose lookups are resolved asynchronously
    ReentrantRules,     \* rules whose lookup service calls engine.emit
    LookupTopic,        \* the topic such a service emits
    MaxConcurrency,     \* config.maxConcurrency
    MaxForwardDepth,    \* config.maxForwardDepth
    MaxExternal,        \* bound: triggers raised by callers and timers
    MaxTriggers         \* bound: triggers altogether

Keys == Facts \cup Timers \cup Topics
Trig == 1 .. MaxTriggers
Positions == 1 .. Cardinality(Rules)
Execs == Trig \X Positions
None == 0
External == <<None, None>>

ASSUME DispatchAssumption ==
    /\ IsFiniteSet(Rules)
    /\ Matching \in [Keys -> Seq(Rules)]
    /\ \A k \in Keys : Len(Matching[k]) <= Cardinality(Rules)
    /\ Actions \in [Rules -> Seq(Topics \cup Facts \cup {Other})]
    /\ Other \notin Keys
    /\ Topics \cap Facts = {}
    /\ OnExpire \in [Timers -> Topics]
    /\ ReentrantRules \subseteq LookupRules
    /\ LookupRules \subseteq Rules
    /\ LookupTopic \in Topics
    /\ MaxConcurrency \in Nat \ {0}
    /\ MaxForwardDepth \in Nat \ {0}
    /\ MaxExternal \in Nat
    /\ MaxTriggers \in Nat

VARIABLES
    running,    \* this.running
    depth,      \* this.processingDepth
    queue,      \* triggers chained to this.processingQueue, not yet started
    active,     \* the chained trigger being processed, or None
    used,       \* number of triggers raised so far
    raised,     \* number of them raised by callers and timers
    st,         \* [Trig -> life-cycle state]
    key,        \* [Trig -> the key it matches rules with]
    by,         \* [Trig -> the execution that raised it, or External]
    level,      \* history: number of acting executions it is nested in
    next,       \* [Trig -> number of matching rules already started]
    ex,         \* [Execs -> state of the execution]
    pc,         \* [Execs -> actions already executed]
    wait,       \* [Execs -> trigger whose processing it awaits, or None]
    timerDue,   \* expired timers whose onExpire event is still to be emitted
    stop,       \* progress of engine.stop()
    stopTail,   \* end of the chain when stop() awaited it
    reload,     \* progress of HotReloadWatcher.applyChanges(), called once
    reloadTail  \* end of the chain when it awaited it

trigVars == <<used, raised, key, by, level, timerDue>>
execVars == <<pc, wait>>
startVars == <<depth, st, next, ex>>
chainVars == <<queue, active>>
ctrlVars == <<running, stop, stopTail, reload, reloadTail>>
vars == <<trigVars, execVars, startVars, chainVars, ctrlVars>>

TrigStates == {"free", "notify", "queued", "running", "settled", "dropped"}
ExecStates == {"none", "lookup", "acting", "done"}

TypeOK ==
    /\ running \in BOOLEAN
    /\ depth \in Nat
    /\ queue \in Seq(Trig)
    /\ active \in Trig \cup {None}
    /\ used \in 0 .. MaxTriggers
    /\ raised \in 0 .. MaxExternal
    /\ st \in [Trig -> TrigStates]
    /\ key \in [Trig -> Keys \cup {Other}]
    /\ by \in [Trig -> Execs \cup {External}]
    /\ level \in [Trig -> Nat]
    /\ next \in [Trig -> Nat]
    /\ ex \in [Execs -> ExecStates]
    /\ pc \in [Execs -> Nat]
    /\ wait \in [Execs -> Trig \cup {None}]
    /\ timerDue \in SUBSET Trig
    /\ stop \in {"no", "closing", "draining", "stopped"}
    /\ stopTail \in Trig \cup {None}
    /\ reload \in {"idle", "waiting", "applied", "failed"}
    /\ reloadTail \in Trig \cup {None}

Init ==
    /\ running = TRUE
    /\ depth = 0
    /\ queue = <<>>
    /\ active = None
    /\ used = 0
    /\ raised = 0
    /\ st = [t \in Trig |-> "free"]
    /\ key = [t \in Trig |-> Other]
    /\ by = [t \in Trig |-> External]
    /\ level = [t \in Trig |-> 0]
    /\ next = [t \in Trig |-> 0]
    /\ ex = [e \in Execs |-> "none"]
    /\ pc = [e \in Execs |-> 0]
    /\ wait = [e \in Execs |-> None]
    /\ timerDue = {}
    /\ stop = "no"
    /\ stopTail = None
    /\ reload = "idle"
    /\ reloadTail = None

-----------------------------------------------------------------------------
(* Derived state. *)

Over(t) == st[t] \in {"settled", "dropped"}

Live(e) == ex[e] \in {"lookup", "acting"}

\* The chain is a list of promises; its end is the last trigger chained.
ChainEnd == IF queue # <<>> THEN queue[Len(queue)] ELSE active

Resolved(tail) == tail # None => Over(tail)

-----------------------------------------------------------------------------
(* Processing a trigger. *)

Min2(a, b) == IF a < b THEN a ELSE b

RuleAt(e) == Matching[key[e[1]]][e[2]]

\* A chunk starts in one step: every rule of it runs up to its first await,
\* so a rule without lookups has its conditions evaluated (those in pass
\* hold) and its actions begun.
StartChunk(t, k, from) ==
    LET upto == Min2(from + MaxConcurrency, Len(Matching[k]))
        chunk == (from + 1) .. upto
        looking == {i \in chunk : Matching[k][i] \in LookupRules}
    IN  \E pass \in SUBSET (chunk \ looking) :
          /\ st' = [st EXCEPT ![t] = "running"]
          /\ next' = [next EXCEPT ![t] = upto]
          /\ ex' = [e \in Execs |->
                      IF e[1] = t /\ e[2] \in chunk
                        THEN IF e[2] \in looking THEN "lookup"
                             ELSE IF e[2] \in pass THEN "acting" ELSE "done"
                        ELSE ex[e]]
          /\ depth' = depth + Cardinality(pass)

SettleAs(t, state) ==
    /\ st' = [st EXCEPT ![t] = state]
    /\ UNCHANGED <<depth, next, ex>>

\* Mutant: the engine forgets that it has been stopped.
HasWorkStopped(k) == Matching[k] # <<>>

\* The engine has something to do for a trigger.
HasWork(k) == running /\ Matching[k] # <<>>

\* processTriggeredRules up to its first await.
ProcessTriggeredRules(t, k) ==
    IF HasWork(k)
      THEN StartChunk(t, k, 0)
      ELSE SettleAs(t, "settled")

\* Mutant: the depth limit is off by one.
ProcessTriggerDeeper(t, k) ==
    \/ /\ depth > MaxForwardDepth
       /\ SettleAs(t, "dropped")
       /\ UNCHANGED chainVars
    \/ /\ depth > 0
       /\ depth <= MaxForwardDepth
       /\ ProcessTriggeredRules(t, k)
       /\ UNCHANGED chainVars
    \/ /\ depth = 0
       /\ queue' = Append(queue, t)
       /\ SettleAs(t, "queued")
       /\ UNCHANGED active

\* Inside the processing of some rule the trigger is processed at once, or
\* dropped at the limit; otherwise it is chained to the queue.
ProcessTrigger(t, k) ==
    \/ /\ depth > 0
       /\ depth >= MaxForwardDepth
       /\ SettleAs(t, "dropped")
       /\ UNCHANGED chainVars
    \/ /\ depth > 0
       /\ depth < MaxForwardDepth
       /\ ProcessTriggeredRules(t, k)
       /\ UNCHANGED chainVars
    \/ /\ depth = 0
       /\ queue' = Append(queue, t)
       /\ SettleAs(t, "queued")
       /\ UNCHANGED active

\* A trigger comes into being.
Raise(t, k, origin) ==
    /\ t = used + 1
    /\ t \in Trig
    /\ used' = t
    /\ key' = [key EXCEPT ![t] = k]
    /\ by' = [by EXCEPT ![t] = origin]
    /\ level' = [level EXCEPT ![t] =
                   IF origin = External THEN 0
                   ELSE level[origin[1]] + (IF ex[origin] = "acting" THEN 1 ELSE 0)]

\* handleInternalEvent up to the await of notifySubscribers.
HandleInternalEvent(t, k, origin) ==
    /\ Raise(t, k, origin)
    /\ SettleAs(t, "notify")
    /\ UNCHANGED chainVars

RaisedByCaller == raised < MaxExternal /\ raised' = raised + 1

Emit(t, k) ==
    /\ running
    /\ RaisedByCaller
    /\ HandleInternalEvent(t, k, External)
    /\ UNCHANGED <<execVars, ctrlVars, timerDue>>

SetFact(t, k) ==
    /\ running
    /\ RaisedByCaller
    /\ Raise(t, k, External)
    /\ ProcessTrigger(t, k)
    /\ UNCHANGED <<execVars, ctrlVars, timerDue>>

TimerExpired(t, k) ==
    /\ running
    /\ RaisedByCaller
    /\ Raise(t, k, External)
    /\ ProcessTrigger(t, k)
    /\ timerDue' = timerDue \cup {t}
    /\ UNCHANGED <<execVars, ctrlVars>>

\* The timer's rules are processed: its event is emitted, running or not.
TimerEmit(d, t) ==
    /\ d \in timerDue
    /\ Over(d)
    /\ HandleInternalEvent(t, OnExpire[key[d]], External)
    /\ timerDue' = timerDue \ {d}
    /\ UNCHANGED <<execVars, ctrlVars, raised>>

\* All subscribers have returned: the rules are processed.
Notified(t) ==
    /\ st[t] = "notify"
    /\ ProcessTrigger(t, key[t])
    /\ UNCHANGED <<trigVars, execVars, ctrlVars>>

\* Continuations awaiting a link of the chain were registered on it before
\* the next link, so they run first.
WaiterReady ==
    \/ stop = "draining" /\ Resolved(stopTail)
    \/ reload = "waiting" /\ Resolved(reloadTail)

\* Mutant: a link of the chain without work is never resolved.
DequeueStuck ==
    /\ active = None
    /\ queue # <<>>
    /\ ~WaiterReady
    /\ ProcessTriggeredRules(Head(queue), key[Head(queue)])
    /\ active' = Head(queue)
    /\ queue' = Tail(queue)
    /\ UNCHANGED <<trigVars, execVars, ctrlVars>>

Dequeue ==
    /\ active = None
    /\ queue # <<>>
    /\ ~WaiterReady
    /\ LET t == Head(queue) IN
         /\ ProcessTriggeredRules(t, key[t])
         /\ active' = IF HasWork(key[t]) THEN t ELSE None
    /\ queue' = Tail(queue)
    /\ UNCHANGED <<trigVars, execVars, ctrlVars>>

\* Mutant: the loop over the chunks does not await them.
ChunkUnawaited(t) ==
    /\ st[t] = "running"
    /\ IF next[t] < Len(Matching[key[t]])
         THEN /\ StartChunk(t, key[t], next[t])
              /\ UNCHANGED active
         ELSE /\ \A i \in 1 .. next[t] : ex[<<t, i>>] = "done"
              /\ SettleAs(t, "settled")
              /\ active' = IF active = t THEN None ELSE active
    /\ UNCHANGED <<trigVars, execVars, ctrlVars, queue>>

\* Promise.all over a chunk: the next chunk starts, or the trigger is done.
ChunkDone(t) ==
    /\ st[t] = "running"
    /\ \A i \in 1 .. next[t] : ex[<<t, i>>] = "done"
    /\ IF next[t] < Len(Matching[key[t]])
         THEN /\ StartChunk(t, key[t], next[t])
              /\ UNCHANGED active
         ELSE /\ SettleAs(t, "settled")
              /\ active' = IF active = t THEN None ELSE active
    /\ UNCHANGED <<trigVars, execVars, ctrlVars, queue>>

-----------------------------------------------------------------------------
(* One execution: evaluateAndExecuteRule. *)

\* The awaited trigger, if any, is processed.
Ready(e) == wait[e] # None => Over(wait[e])

\* The lookups fail (the rule is skipped), or they are resolved and the
\* conditions do not hold or throw, or they hold and the actions begin.
LookupsResolved(e) ==
    /\ ex[e] = "lookup"
    /\ Ready(e)
    /\ \/ /\ ex' = [ex EXCEPT ![e] = "done"]
          /\ UNCHANGED depth
       \/ /\ ex' = [ex EXCEPT ![e] = "acting"]
          /\ depth' = depth + 1
    /\ wait' = [wait EXCEPT ![e] = None]
    /\ UNCHANGED <<trigVars, chainVars, ctrlVars, st, next, pc>>

\* A lookup service that itself awaits engine.emit.
LookupEmits(e, t) ==
    /\ ex[e] = "lookup"
    /\ RuleAt(e) \in ReentrantRules
    /\ wait[e] = None
    /\ running
    /\ RaisedByCaller
    /\ HandleInternalEvent(t, LookupTopic, e)
    /\ wait' = [wait EXCEPT ![e] = t]
    /\ UNCHANGED <<ctrlVars, timerDue, pc>>

HasAction(e) == pc[e] < Len(Actions[RuleAt(e)])
CurrentAction(e) == Actions[RuleAt(e)][pc[e] + 1]

\* An action that raises no trigger completes or fails; either way the next
\* one follows.  set_fact writes the fact store and is one of these.
ExecuteOther(e) ==
    /\ ex[e] = "acting"
    /\ wait[e] = None
    /\ HasAction(e)
    /\ CurrentAction(e) \notin Topics
    /\ pc' = [pc EXCEPT ![e] = @ + 1]
    /\ UNCHANGED <<trigVars, startVars, chainVars, ctrlVars, wait>>

ExecuteEmit(e, t) ==
    /\ ex[e] = "acting"
    /\ HasAction(e)
    /\ CurrentAction(e) \in Topics
    /\ wait[e] = None
    /\ HandleInternalEvent(t, CurrentAction(e), e)
    /\ wait' = [wait EXCEPT ![e] = t]
    /\ UNCHANGED <<ctrlVars, raised, timerDue, pc>>

\* Mutant: emit_event does not await the event's rules.
EmitForgets(e) ==
    /\ ex[e] = "acting"
    /\ wait[e] # None
    /\ wait' = [wait EXCEPT ![e] = None]
    /\ pc' = [pc EXCEPT ![e] = @ + 1]
    /\ UNCHANGED <<trigVars, startVars, chainVars, ctrlVars>>

\* emit_event returns once the event's own rules are processed.
EmitReturns(e) ==
    /\ ex[e] = "acting"
    /\ wait[e] # None
    /\ Over(wait[e])
    /\ wait' = [wait EXCEPT ![e] = None]
    /\ pc' = [pc EXCEPT ![e] = @ + 1]
    /\ UNCHANGED <<trigVars, startVars, chainVars, ctrlVars>>

\* The `finally` around the actions: the rule gives up its depth.
LeaveRule(e) ==
    /\ ex' = [ex EXCEPT ![e] = "done"]
    /\ depth' = depth - 1
    /\ UNCHANGED <<trigVars, execVars, chainVars, ctrlVars, st, next>>

RuleExecuted(e) ==
    /\ ex[e] = "acting"
    /\ wait[e] = None
    /\ ~HasAction(e)
    /\ LeaveRule(e)

\* Mutant: no finally; a rule whose actions are cut short keeps its depth.
RuleRejectedKeepsDepth(e) ==
    /\ ex[e] = "acting"
    /\ wait[e] = None
    /\ HasAction(e)
    /\ ex' = [ex EXCEPT ![e] = "done"]
    /\ UNCHANGED <<trigVars, execVars, chainVars, ctrlVars, st, next, depth>>

\* Building the input of the next action throws (a reference that names no
\* source): execute rejects, the actions left are not executed, and the
\* rejection passes the finally on its way to the rule's catch.
RuleRejected(e) ==
    /\ ex[e] = "acting"
    /\ wait[e] = None
    /\ HasAction(e)
    /\ LeaveRule(e)

-----------------------------------------------------------------------------
(* Shutdown, and the hot reload that waits for the queue. *)

StopCalled ==
    /\ stop = "no"
    /\ running' = FALSE
    /\ stop' = "closing"
    /\ UNCHANGED <<trigVars, execVars, startVars, chainVars, stopTail, reload, reloadTail>>

\* Mutants: the chain is not awaited.
StopAwaitsNothing ==
    /\ stop = "closing"
    /\ stop' = "draining"
    /\ UNCHANGED <<trigVars, execVars, startVars, chainVars, running, stopTail, reload, reloadTail>>

ReloadAwaitsNothing ==
    /\ reload = "idle"
    /\ running
    /\ reload' = "waiting"
    /\ UNCHANGED <<trigVars, execVars, startVars, chainVars, running, stop, stopTail, reloadTail>>

\* The watcher and the baseline store are stopped; the chain is awaited.
StopAwaits ==
    /\ stop = "closing"
    /\ stop' = "draining"
    /\ stopTail' = ChainEnd
    /\ UNCHANGED <<trigVars, execVars, startVars, chainVars, running, reload, reloadTail>>

StopReturns ==
    /\ stop = "draining"
    /\ Resolved(stopTail)
    /\ stop' = "stopped"
    /\ UNCHANGED <<trigVars, execVars, startVars, chainVars, running, stopTail, reload, reloadTail>>

ReloadAwaits ==
    /\ reload = "idle"
    /\ running
    /\ reload' = "waiting"
    /\ reloadTail' = ChainEnd
    /\ UNCHANGED <<trigVars, execVars, startVars, chainVars, running, stop, stopTail>>

\* The rules are exchanged in one synchronous block, which throws when the
\* engine has been stopped meanwhile.
ReloadApplies ==
    /\ reload = "waiting"
    /\ Resolved(reloadTail)
    /\ reload' = IF running THEN "applied" ELSE "failed"
    /\ UNCHANGED <<trigVars, execVars, startVars, chainVars, running, stop, stopTail, reloadTail>>

-----------------------------------------------------------------------------
Environment ==
    \/ \E t \in Trig, k \in Topics : Emit(t, k)
    \/ \E t \in Trig, k \in Facts : SetFact(t, k)
    \/ \E t \in Trig, k \in Timers : TimerExpired(t, k)
    \/ StopCalled
    \/ ReloadAwaits

Engine ==
    \/ \E t \in Trig : Notified(t)
    \/ \E t \in Trig : ChunkDone(t)
    \/ \E d, t \in Trig : TimerEmit(d, t)
    \/ Dequeue
    \/ \E e \in Execs : LookupsResolved(e)
    \/ \E e \in Execs, t \in Trig : LookupEmits(e, t)
    \/ \E e \in Execs : ExecuteOther(e)
    \/ \E e \in Execs, t \in Trig : ExecuteEmit(e, t)
    \/ \E e \in Execs : EmitReturns(e)
    \/ \E e \in Execs : RuleExecuted(e)
    \/ \E e \in Execs : RuleRejected(e)
    \/ StopAwaits
    \/ StopReturns
    \/ ReloadApplies

\* Nothing is in flight: the engine may rest.
Idle ==
    /\ \A t \in Trig : st[t] \in {"free", "settled", "dropped"}
    /\ timerDue = {}
    /\ UNCHANGED vars

Next == Environment \/ Engine \/ Idle

Spec == Init /\ [][Next]_vars

\* The event loop always runs some continuation that is ready, and services
\* and subscribers return; callers promise nothing.
FairSpec == Spec /\ WF_vars(Engine)

-----------------------------------------------------------------------------
(* Safety. *)

Acting == {e \in Execs : ex[e] = "acting"}

\* The engine-wide counter that chooses between queue, direct processing and
\* dropping is exactly the number of rules executing actions: no rule that is
\* skipped, executed to its end or rejected half-way, inside any cascade,
\* leaves it wrong (the try/finally around actionExecutor.execute).
DepthIsActing == depth = Cardinality(Acting)

\* Rules start in priority order, once processing has begun, and those that
\* execute belong to a trigger whose processing has not ended.
StartedInOrder ==
    /\ \A t \in Trig : st[t] \in {"free", "notify", "queued"} => next[t] = 0
    /\ \A e \in Execs : ex[e] # "none" => e[2] <= next[e[1]]
    /\ \A e \in Execs : Live(e) => st[e[1]] = "running"

\* Whoever raises a trigger from inside a rule awaits it: the rule does not go
\* on before the trigger and all its rules are over.
ParentWaits ==
    \A t \in Trig :
        by[t] # External /\ st[t] # "free" /\ ~Over(t)
            => Live(by[t]) /\ wait[by[t]] = t

\* Bookkeeping of triggers and of the chain, which the proofs rest on.
UsedTriggers == \A t \in Trig : t <= used <=> st[t] # "free"

KeyKnown ==
    /\ \A t \in Trig : st[t] # "free" => key[t] \in Keys
    /\ \A t \in timerDue : st[t] # "free" /\ key[t] \in Timers

QueueIsQueued ==
    /\ \A i \in 1 .. Len(queue) : st[queue[i]] = "queued"
    /\ \A i, j \in 1 .. Len(queue) : queue[i] = queue[j] => i = j

\* The inductive invariant: of a trigger's executions those that have started
\* are its own, the chain holds what is queued, and every cascade is awaited.
Inv ==
    /\ TypeOK
    /\ DepthIsActing
    /\ StartedInOrder
    /\ ParentWaits
    /\ UsedTriggers
    /\ KeyKnown
    /\ QueueIsQueued

\* Priority across chunks: while a rule of an earlier chunk is not done, no
\* rule of a later chunk has started (the await in the loop over chunks).
ChunkBarrier ==
    \A t \in Trig, i, j \in Positions :
        /\ (i - 1) \div MaxConcurrency < (j - 1) \div MaxConcurrency
        /\ ex[<<t, j>>] # "none"
        => ex[<<t, i>>] = "done"

\* Recursion is bounded: no trigger is processed inside maxForwardDepth or
\* more nested rule executions, whatever the rules emit.
NestingBounded ==
    \A t \in Trig : st[t] = "running" => level[t] < MaxForwardDepth

\* When stop() has returned, nothing that went through the queue is executing
\* or will execute.
StopDrainsQueue == stop = "stopped" => active = None

\* Rules are exchanged only between two links of the chain.
ReloadBetweenLinks ==
    [][reload' = "applied" /\ reload # "applied" => active = None]_vars

\* Once stop() has been called, no trigger begins to be processed: what is in
\* the queue, awaits its subscribers or is emitted by a rule is let go.
NothingBeginsStopped ==
    [][~running => \A t \in Trig : st'[t] = "running" => st[t] = "running"]_vars

Status == [t \in Trig |-> IF st[t] = "free" THEN "none"
                          ELSE IF Over(t) THEN "over" ELSE "open"]
Parent == [t \in Trig |-> by[t][1]]

Forest == INSTANCE Cascade WITH
    Nodes <- Trig, Root <- None, status <- Status, parent <- Parent

\* Trigger processing implements the forest of Cascade: every await returns
\* after everything below it is over.
RefinesCascade == Forest!Spec

-----------------------------------------------------------------------------
(* Liveness, when no lookup service calls back into the engine. *)

\* Every trigger is eventually over: the caller's promise is resolved.
EventuallyOver == \A t \in Trig : st[t] # "free" ~> Over(t)

\* Those who await the chain get on: stop() returns, and so does the hot
\* reload, whatever is triggered while they wait.
StopCompletes == stop = "closing" ~> stop = "stopped"
ReloadCompletes == reload = "waiting" ~> reload \in {"applied", "failed"}
WaitsReturn == StopCompletes /\ ReloadCompletes

-----------------------------------------------------------------------------
(* What the documentation says and the code does not do. *)

\* "Max hloubka forward chaining rekurze" (types/index.ts): a trigger is
\* dropped only at that nesting.
DropOnlyDeep ==
    \A t \in Trig : st[t] = "dropped" => level[t] >= MaxForwardDepth

\* "Waits for pending rule executions." (stop in 01-rule-engine.md)
StopWaitsForRules == stop = "stopped" => \A e \in Execs : ~Live(e)
=============================================================================
