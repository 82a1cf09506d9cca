------------------------------ MODULE Matchers ------------------------------
(***************************************************************************)
(* SequenceMatcher and AbsenceMatcher: the matchers that callers use        *)
(* without an engine.  They have no timers: an instance that is late is     *)
(* found by the next event of its group, or ended by the caller's           *)
(* handleTimeout.  A call of processEvent reads the time once, at its       *)
(* start; `running` is the call that has not come to an await yet.          *)
(***************************************************************************)
EXTENDS Integers, Sequences, FiniteSets, SequencesExt, FiniteSetsExt

CONSTANTS
    Pattern,         \* identifiers of patterns
    PatternOf,
    InitialPatterns, \* the orders in which patterns are added at first
    Topic,
    Covers,          \* the topics each matcher covers
    Group,
    NoGroup,         \* the field is missing, or the pattern does not group
    Changing,        \* the patterns that callers change
    MaxEvents,       \* bound on events and changes together
    MaxVisits,       \* bound on the same number times that of the patterns
    MaxChanges,      \* bound on changes
    MaxTime          \* bound on the clock

\* What the patterns are, and the group of an event that has none.
PatternsTyped ==
    /\ InitialPatterns \subseteq Seq(Pattern) /\ Changing \subseteq Pattern
    /\ NoGroup \notin Group
    /\ \A p \in Pattern : PatternOf[p].within \in Nat

VARIABLES
    patterns,   \* the patterns, in the order of the Map
    events,     \* the events processed, with the time their call began
    calls,
    started,    \* every instance there has been; an active one is in the Map
    endings,    \* history: what became of started, in order
    running,    \* the call that runs, or 0
    changes,    \* history: the number of changes
    clock

vars == <<patterns, events, calls, started, endings, running, changes, clock>>

Ids == DOMAIN started
Elements(s) == {s[j] : j \in DOMAIN s}

Init ==
    /\ patterns \in InitialPatterns
    /\ events = <<>> /\ calls = <<>> /\ started = <<>> /\ endings = <<>>
    /\ running = 0 /\ changes = 0 /\ clock = 0

-----------------------------------------------------------------------------
(* Helpers *)

Matches(e, matcher) == events[e].topic \in Covers[matcher]

\* extractGroupKey: '' for a missing field, which every later test takes for "not grouped".
Key(e, p) == IF PatternOf[p].grouped THEN events[e].group ELSE NoGroup

\* findInstances: by group, or all that the pattern lists.  Their order is the one of
\* creation.
Found(p, key) ==
    {i \in Ids : /\ started[i].active /\ started[i].pattern = p
                 /\ IF key = NoGroup THEN started[i].listed ELSE started[i].group = key}

Waiting(p, key) == \E i \in Found(p, key) : started[i].state = "open"

\* The first of a set of positions, if it has one.
First(positions) == {k \in positions : \A j \in positions : k <= j}

NewInstance(e, p, state) ==
    [pattern |-> p, group |-> Key(e, p), matched |-> <<e>>, state |-> state,
     active |-> state = "open", listed |-> TRUE,
     expires |-> events[e].at + PatternOf[p].within]

\* The instance leaves the matcher, and its callback is called.
End(i, state, matched, e) ==
    /\ started' = [started EXCEPT ![i].state = state, ![i].active = FALSE,
                                      ![i].matched = matched]
    /\ endings' = Append(endings, [instance |-> i, state |-> state, by |-> e])

Keep == UNCHANGED <<started, endings>>

\* e has the thread, or gives it up at an await.
Goes(e, pc, todo) == calls' = [calls EXCEPT ![e].pc = pc, ![e].todo = todo]
Continues(e) == running' = e
Awaits == running' = 0
MayRun(e) == running \in {0, e}

-----------------------------------------------------------------------------
(* processEvent *)

WithinBounds ==
    LET n == Len(events) + changes + 1
    IN  n <= MaxEvents /\ n * Len(patterns) <= MaxVisits

ProcessEvent(topic, group) ==
    /\ running = 0 /\ WithinBounds
    /\ events' = Append(events, [topic |-> topic, group |-> group, at |-> clock])
    /\ calls' = Append(calls, [pc |-> "visit", pattern |-> <<>>, todo |-> {}, seen |-> {}])
    /\ running' = Len(events) + 1
    /\ UNCHANGED <<patterns, started, endings, changes, clock>>

\* The iteration over the Map comes to its next pattern.
Visit(e) ==
    LET left == {k \in DOMAIN patterns : patterns[k] \notin calls[e].seen}
    IN  /\ calls[e].pc = "visit" /\ MayRun(e)
        /\ \/ /\ left = {} /\ Goes(e, "over", {}) /\ Awaits
           \/ /\ Continues(e)
              /\ \E k \in First(left) :
                    LET p == patterns[k]
                    IN  calls' = [calls EXCEPT
                          ![e] = [pc |-> "loop", pattern |-> <<p>>, seen |-> @.seen \cup {p},
                                  todo |-> Found(p, Key(e, p))]]
        /\ UNCHANGED <<patterns, events, started, endings, changes, clock>>

Late(i, e) == events[e].at > started[i].expires

\* tryAdvanceInstance, awaited whatever it does.
Advance(i, e) ==
    LET p    == PatternOf[started[i].pattern]
        next == Append(started[i].matched, e)
        fits == Matches(e, p.events[Len(next)])
    IN  \/ fits /\ Len(next) = Len(p.events) /\ End(i, "completed", next, e)
        \/ /\ fits /\ Len(next) < Len(p.events)
           /\ started' = [started EXCEPT ![i].matched = next] /\ UNCHANGED endings
        \/ ~fits /\ p.strict /\ End(i, "expired", started[i].matched, e)
        \/ ~fits /\ ~p.strict /\ Keep

\* Mutant of LookSequence: the loop does not ask whether the instance is late.
LookSequenceLate(e, i) ==
    /\ PatternOf[started[i].pattern].type = "sequence"
    /\ IF started[i].state # "open" THEN Keep /\ Continues(e) ELSE Advance(i, e) /\ Awaits

LookSequence(e, i) ==
    /\ PatternOf[started[i].pattern].type = "sequence"
    /\ \/ started[i].state # "open" /\ Keep /\ Continues(e)
       \/ /\ started[i].state = "open" /\ Late(i, e)
          /\ End(i, "expired", started[i].matched, e) /\ Awaits
       \/ started[i].state = "open" /\ ~Late(i, e) /\ Advance(i, e) /\ Awaits

LookAbsence(e, i) ==
    LET p    == PatternOf[started[i].pattern]
        open == started[i].state = "open"
    IN  /\ p.type = "absence"
        /\ \/ ~open /\ Keep /\ Continues(e)
           \/ open /\ Late(i, e) /\ End(i, "completed", started[i].matched, e) /\ Awaits
           \/ /\ open /\ ~Late(i, e) /\ Matches(e, p.expected)
              /\ End(i, "cancelled", started[i].matched, e) /\ Awaits
           \/ open /\ ~Late(i, e) /\ ~Matches(e, p.expected) /\ Keep /\ Continues(e)

\* One round of the loop over existingInstances.
Look(e) ==
    /\ calls[e].pc = "loop" /\ MayRun(e)
    /\ \E i \in First(calls[e].todo) :
          /\ LookSequence(e, i) \/ LookAbsence(e, i)
          /\ Goes(e, "loop", calls[e].todo \ {i})
    /\ UNCHANGED <<patterns, events, changes, clock>>

\* startNewInstance, unless the group has one; a sequence of one step matches at once.
StartSequence(e, p) ==
    LET steps  == PatternOf[p].events
        starts == steps # <<>> /\ Matches(e, steps[1])
                  /\ (Key(e, p) # NoGroup => ~Waiting(p, Key(e, p)))
    IN  /\ PatternOf[p].type = "sequence" /\ Awaits
        /\ \/ ~starts /\ Keep
           \/ /\ starts /\ Len(steps) = 1
              /\ started' = Append(started, NewInstance(e, p, "completed"))
              /\ endings' = Append(endings, [instance |-> Len(started) + 1,
                                             state |-> "completed", by |-> e])
           \/ /\ starts /\ Len(steps) > 1 /\ UNCHANGED endings
              /\ started' = Append(started, NewInstance(e, p, "open"))

StartAbsence(e, p) ==
    LET starts == Matches(e, PatternOf[p].after) /\ ~Waiting(p, Key(e, p))
    IN  /\ PatternOf[p].type = "absence" /\ Continues(e) /\ UNCHANGED endings
        /\ started' = IF starts THEN Append(started, NewInstance(e, p, "open"))
                        ELSE started

Start(e) ==
    /\ calls[e].pc = "loop" /\ calls[e].todo = {} /\ MayRun(e)
    /\ StartSequence(e, Head(calls[e].pattern)) \/ StartAbsence(e, Head(calls[e].pattern))
    /\ Goes(e, "visit", {})
    /\ UNCHANGED <<patterns, events, changes, clock>>

\* The caller's timer; an instance that is no longer there is left alone.
HandleTimeout(i) ==
    /\ running = 0 /\ started[i].active /\ clock >= started[i].expires
    /\ End(i, IF PatternOf[started[i].pattern].type = "absence" THEN "completed"
              ELSE "expired", started[i].matched, 0)
    /\ UNCHANGED <<patterns, events, calls, running, changes, clock>>

-----------------------------------------------------------------------------
(* Patterns *)

\* A pattern that is there is replaced, and gets an empty list of instances.
AddPattern(p) ==
    /\ patterns' = IF p \in Elements(patterns) THEN patterns ELSE Append(patterns, p)
    /\ started' = [i \in Ids |-> IF started[i].pattern = p
                                   THEN [started[i] EXCEPT !.listed = FALSE]
                                   ELSE started[i]]
    /\ UNCHANGED calls

\* Removes the instances that the pattern lists.
RemovePattern(p) ==
    /\ \E k \in DOMAIN patterns : patterns[k] = p /\ patterns' = RemoveAt(patterns, k)
    /\ started' = [i \in Ids |-> IF started[i].pattern = p /\ started[i].listed
                                   THEN [started[i] EXCEPT !.active = FALSE]
                                   ELSE started[i]]
    /\ calls' = [e \in DOMAIN calls |-> [calls[e] EXCEPT !.seen = @ \ {p}]]

Clear ==
    /\ started' = [i \in Ids |-> [started[i] EXCEPT !.active = FALSE]]
    /\ UNCHANGED <<patterns, calls>>

Reset ==
    /\ started' = [i \in Ids |-> [started[i] EXCEPT !.active = FALSE]]
    /\ patterns' = <<>>
    /\ calls' = [e \in DOMAIN calls |-> [calls[e] EXCEPT !.seen = {}]]

Change ==
    /\ running = 0 /\ changes < MaxChanges /\ WithinBounds
    /\ changes' = changes + 1
    /\ \/ \E p \in Changing : AddPattern(p)
       \/ \E p \in Changing : RemovePattern(p)
       \/ Clear
       \/ Reset
    /\ UNCHANGED <<events, endings, running, clock>>

Tick ==
    /\ running = 0 /\ clock < MaxTime /\ clock' = clock + 1
    /\ UNCHANGED <<patterns, events, calls, started, endings, running, changes>>

Next ==
    \/ \E t \in Topic, g \in Group \cup {NoGroup} : ProcessEvent(t, g)
    \/ \E e \in DOMAIN calls : Visit(e) \/ Look(e) \/ Start(e)
    \/ \E i \in Ids : HandleTimeout(i)
    \/ Change
    \/ Tick

Spec == Init /\ [][Next]_vars

-----------------------------------------------------------------------------
(* Properties *)

\* An instance ends once, however its timeout, its events and the callbacks of
\* other instances fall: its callbacks are called once, and what it was told to be
\* is what it is.
EndsOnce ==
    \A n \in DOMAIN endings :
        /\ started[endings[n].instance].state = endings[n].state
        /\ \A m \in DOMAIN endings : endings[m].instance = endings[n].instance => m = n

\* A sequence is completed, and an absence cancelled, by an event that came within
\* the window, also when that event's call was held up by callbacks; a timeout comes
\* after it.
EndsInTime ==
    \A n \in DOMAIN endings :
        LET i == endings[n].instance
            p == PatternOf[started[i].pattern]
            e == endings[n].by
            within == e # 0 /\ events[e].at - events[started[i].matched[1]].at <= p.within
        IN  /\ p.type = "sequence" /\ endings[n].state = "completed" => within
            /\ p.type = "absence" => (endings[n].state = "cancelled") = within

\* An instance of a sequence or absence matcher ends once, and as its window says.
MatchersEnd == EndsOnce /\ EndsInTime
=============================================================================
