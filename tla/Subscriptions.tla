---------------------------- MODULE Subscriptions ----------------------------
(***************************************************************************)
(* RuleEngine.subscribe() and the GraphQL subscriptions made from it.  The *)
(* engine keeps a Set of handlers for each pattern and forgets an empty    *)
(* one; what subscribe() returns holds on to the Set it was made with.  A  *)
(* GraphQL subscription is a handler for each of its patterns that push    *)
(* into one queue, and a consumer that pulls from it.                      *)
(***************************************************************************)
EXTENDS Integers, Sequences, FiniteSets

CONSTANTS
    SubPatterns,      \* the sets of patterns that are asked for
    SubTopics,
    SubCovers,        \* pattern -> the topics it matches
    MaxSubscriptions, \* bound on subscriptions
    MaxSets,          \* bound on the Sets of handlers ever made
    MaxEmits,         \* bound on events
    MaxUnsubscribes   \* how often a caller calls what subscribe() returned

VARIABLES
    handlerSets, \* every Set of handlers made: the subscriptions in it
    patternSet,  \* subscribers and wildcardSubscribers: pattern -> its Set, or 0
    subs,        \* subscriptions
    emitted      \* history: the topics of the events

subVars == <<handlerSets, patternSet, subs, emitted>>

Patterns == UNION SubPatterns

SubInit ==
    /\ handlerSets = <<>> /\ patternSet = [p \in Patterns |-> 0]
    /\ subs = <<>> /\ emitted = <<>>

\* subscribe() for one pattern after another: each in the Set there is, or in a new one.
NewSets(patterns) == {p \in patterns : patternSet[p] = 0}

Subscribe(kind, patterns) ==
    LET s == Len(subs) + 1
        new == NewSets(patterns)
        first == Len(handlerSets)
    IN  /\ s <= MaxSubscriptions /\ first + Cardinality(new) <= MaxSets
        /\ \E place \in [new -> first + 1..first + Cardinality(new)] :
              /\ \A p, q \in new : p # q => place[p] # place[q]
              /\ patternSet' = [p \in Patterns |-> IF p \in new THEN place[p] ELSE patternSet[p]]
              /\ handlerSets' =
                    [x \in 1..first + Cardinality(new) |->
                        IF x > first THEN {s}
                        ELSE IF \E p \in patterns : patternSet[p] = x THEN handlerSets[x] \cup {s}
                        ELSE handlerSets[x]]
        /\ subs' = Append(subs, [kind |-> kind, patterns |-> patterns, since |-> Len(emitted),
                                 in |-> [p \in patterns |-> patternSet'[p]],
                                 queue |-> <<>>, got |-> <<>>, consumer |-> "idle",
                                 woken |-> FALSE, closed |-> FALSE, calls |-> 0])
        /\ UNCHANGED emitted

\* What subscribe() returned, called for each pattern: the handler leaves its Set, and
\* the pattern its place in the map when the Set is empty.
Leave(s) ==
    LET sets == {subs[s].in[p] : p \in subs[s].patterns}
    IN  /\ handlerSets' = [x \in DOMAIN handlerSets |->
                              IF x \in sets THEN handlerSets[x] \ {s} ELSE handlerSets[x]]
        /\ patternSet' = [p \in Patterns |->
                              IF p \in subs[s].patterns /\ handlerSets[subs[s].in[p]] \subseteq {s}
                              THEN 0 ELSE patternSet[p]]

\* A caller of subscribe() unsubscribes, or does it again.
Unsubscribe(s) ==
    /\ subs[s].kind = "handler" /\ subs[s].calls < MaxUnsubscribes
    /\ Leave(s)
    /\ subs' = [subs EXCEPT ![s].closed = TRUE, ![s].calls = @ + 1]
    /\ UNCHANGED emitted

\* push(): resolves the promise that next() waits for, if there is one.
Pushed(sub, items) ==
    [sub EXCEPT !.queue = @ \o items, !.woken = @ \/ sub.consumer = "waiting"]

\* What a subscription does with an event that came to it from Len(items) patterns.
Delivered(sub, items) ==
    IF sub.kind = "handler" THEN [sub EXCEPT !.got = @ \o items]
    ELSE IF sub.closed \/ items = <<>> THEN sub
    ELSE Pushed(sub, items)

\* notifySubscribers(): every handler of every pattern that matches, in one turn.
Emit(topic) ==
    LET hit(s) == {p \in Patterns : /\ topic \in SubCovers[p] /\ patternSet[p] # 0
                                    /\ s \in handlerSets[patternSet[p]]}
    IN  /\ Len(emitted) < MaxEmits
        /\ emitted' = Append(emitted, topic)
        /\ subs' = [s \in DOMAIN subs |->
                       Delivered(subs[s], [k \in 1..Cardinality(hit(s)) |-> topic])]
        /\ UNCHANGED <<handlerSets, patternSet>>

\* One round of the loop in next(): done, an item, or a promise to wait for.
Pulled(sub) ==
    IF sub.closed THEN [sub EXCEPT !.consumer = "done", !.woken = FALSE]
    ELSE IF sub.queue # <<>>
    THEN [sub EXCEPT !.queue = Tail(@), !.got = Append(@, Head(sub.queue)),
                     !.consumer = "idle", !.woken = FALSE]
    ELSE [sub EXCEPT !.consumer = "waiting", !.woken = FALSE]

\* The consumer asks for the next item, one after the other.
NextItem(s) ==
    /\ subs[s].kind = "graphql" /\ subs[s].consumer = "idle"
    /\ subs' = [subs EXCEPT ![s] = Pulled(@)]
    /\ UNCHANGED <<handlerSets, patternSet, emitted>>

\* The promise is resolved: next() goes on, and may have to wait again.
Woken(s) ==
    /\ subs[s].consumer = "waiting" /\ subs[s].woken
    /\ subs' = [subs EXCEPT ![s] = Pulled(@)]
    /\ UNCHANGED <<handlerSets, patternSet, emitted>>

\* return(), also while next() waits: teardowns run once, and what is queued is dropped.
Return(s) ==
    /\ subs[s].kind = "graphql" /\ ~subs[s].closed
    /\ Leave(s)
    /\ subs' = [subs EXCEPT ![s].closed = TRUE, ![s].woken = @ \/ subs[s].consumer = "waiting"]
    /\ UNCHANGED emitted

SubNext ==
    \/ \E kind \in {"handler", "graphql"}, patterns \in SubPatterns : Subscribe(kind, patterns)
    \/ \E s \in DOMAIN subs : Unsubscribe(s) \/ NextItem(s) \/ Woken(s) \/ Return(s)
    \/ \E topic \in SubTopics : Emit(topic)

SubSpec == SubInit /\ [][SubNext]_subVars

-----------------------------------------------------------------------------
(* Properties *)

\* What came to a subscription since it began: an event once for each pattern that matches.
Expected(s) ==
    LET times(t) == Cardinality({p \in subs[s].patterns : t \in SubCovers[p]})
        upTo[n \in subs[s].since..Len(emitted)] ==
            IF n = subs[s].since THEN <<>>
            ELSE upTo[n - 1] \o [k \in 1..times(emitted[n]) |-> emitted[n]]
    IN  upTo[Len(emitted)]

\* A consumer that waits while there is something for it, or nothing to come, is about to
\* be woken: no push and no close is lost between its look at the queue and its wait.
NoLostWakeup ==
    \A s \in DOMAIN subs :
        subs[s].consumer = "waiting" /\ (subs[s].closed \/ subs[s].queue # <<>>) => subs[s].woken

\* Until it is closed a subscription gets every event since it began, in order, and once
\* for each of its patterns that matches, whoever else subscribes or unsubscribes.
EveryEventToEach ==
    \A s \in DOMAIN subs :
        ~subs[s].closed => subs[s].got \o subs[s].queue = Expected(s)

SubscribersServed == NoLostWakeup /\ EveryEventToEach
=============================================================================
