------------------------------ MODULE Temporal ------------------------------
(***************************************************************************)
(* TemporalProcessor: sequences, absences, counts and aggregates of events *)
(* in time windows.  processEvent visits the registered rules one after    *)
(* the other and awaits between them, also when nothing is to be awaited,  *)
(* so that the calls for several events overlap; a sequence awaits the     *)
(* callback of every match, and a new instance awaits its timer.  What     *)
(* lies between two awaits is one step.  A call is named by its event's    *)
(* position in the store, an instance by its position in `instances`,      *)
(* where it stays when it has left activePatterns: a suspended call may    *)
(* still hold it.  A rule may be registered again with another pattern:    *)
(* its instances stay, and the pattern of the call that finds them advances *)
(* them, which `taken` records.                                            *)
(***************************************************************************)
EXTENDS Integers, Sequences, FiniteSets, SequencesExt, FiniteSetsExt

CONSTANTS
    Rule,         \* identifiers of rules
    NoRule,
    Pattern,      \* identifiers of temporal patterns
    NoPattern,
    PatternOf,
    InitialRules, \* the orders in which rules are registered at first
    FirstPattern, \* the pattern that each rule is registered with at first
    Registrable,  \* and those that it may be registered with later
    Topic,        \* topics of events
    Covers,       \* the topics each matcher covers; a topic covers itself
    ValueOf,      \* the number in the data of the events of a topic, or NoValue
    NoValue,
    Group,        \* values of the field that patterns group by
    NoGroup,      \* the field is missing, or the pattern does not group
    Ages,         \* how old an event may be, by its timestamp, when its call begins
    MaxEvents,    \* bound on events and changes of the rules together
    MaxVisits,    \* bound on the same number times that of the rules
    Changing,     \* the rules that callers change
    MaxChanges,   \* bound on changes of the rules, clear() among them
    MaxTime       \* bound on the clock, which goes past it only for timers

ASSUME TopicsCoverThemselves ==
    /\ Topic \subseteq DOMAIN Covers
    /\ \A t \in Topic : Covers[t] = {t}
ASSUME MarkersApart == NoGroup \notin Group /\ NoRule \notin Rule
ASSUME RulesRegistered ==
    /\ InitialRules \subseteq Seq(Rule) /\ Changing \subseteq Rule
    /\ FirstPattern \in [Rule -> Pattern] /\ \A r \in Rule : Registrable[r] \subseteq Pattern
ASSUME PatternsTyped ==
    /\ Ages \subseteq Int
    /\ \A q \in Pattern : /\ PatternOf[q].window \in Nat
                          /\ PatternOf[q].type = "sequence" =>
                                PatternOf[q].events \in Seq(DOMAIN Covers)
ASSUME BoundsAreNaturals ==
    MaxVisits \in Nat /\ MaxEvents \in Nat /\ MaxChanges \in Nat /\ MaxTime \in Nat

VARIABLES
    rules,      \* registeredRules, in the order of the Map
    pattern,    \* the pattern that each rule has been registered with last
    disabled,   \* rules whose owner has disabled them
    store,      \* the events of EventStore, oldest first
    calls,      \* the processEvent call of each event
    instances,  \* every instance there has been
    armed,      \* instances whose timer is set in TimerManager
    setting,    \* instances whose setTimer has not returned yet
    due,        \* instances whose timer has expired and is not handled yet
    reported,   \* history: the matches the callback has been called with
    visits,     \* history: the events each rule has processed, in order, with its pattern
    changes,    \* history: the number of changes
    clock

vars == <<rules, pattern, disabled, store, calls, instances, armed, setting, due,
          reported, visits, changes, clock>>

Ids == DOMAIN instances
Elements(s) == {s[j] : j \in DOMAIN s}

Init ==
    /\ rules \in InitialRules /\ disabled = {}
    /\ pattern = FirstPattern
    /\ store = <<>> /\ calls = <<>> /\ instances = <<>>
    /\ armed = {} /\ setting = {} /\ due = {}
    /\ reported = <<>> /\ visits = [r \in Rule |-> <<>>]
    /\ changes = 0 /\ clock = 0

-----------------------------------------------------------------------------
(* Helpers *)

Matches(e, matcher) == store[e].topic \in Covers[matcher]

\* extractGroupKey; an event without the field gets the key '', which every
\* later test takes for "not grouped".
Key(e, p) == IF p.grouped THEN store[e].group ELSE NoGroup

\* findInstances: without a key, all of the rule.  Their order is the one of creation.
Found(ins, r, key) ==
    {i \in DOMAIN ins : ins[i].active /\ ins[i].rule = r /\ key \in {NoGroup, ins[i].group}}

Matching(ins, r, key) == \E i \in Found(ins, r, key) : ins[i].state = "matching"

\* The first of a set of positions, if it has one.
First(positions) == {k \in positions : \A j \in positions : k <= j}

NewInstance(r, q, e, state) ==
    [rule |-> r, pattern |-> q, group |-> Key(e, PatternOf[q]), matched |-> <<e>>,
     taken |-> <<q>>, state |-> state, active |-> state = "matching",
     expires |-> clock + PatternOf[q].window]

Ended(i, state) == [instances[i] EXCEPT !.state = state, !.active = FALSE]

\* The callback's argument; `by` is the event of the call, or 0 for a timeout.
Report(r, i, events, by) == [rule |-> r, instance |-> i, events |-> events, by |-> by]

\* Nothing else runs between the start of a call and its first await.
Quiet == \A e \in DOMAIN calls : calls[e].phase # "begins"

\* The call of e is at the head of the loop over the rules.
Runs(e) == calls[e].phase = "begins" \/ (Quiet /\ calls[e].phase = "next")

\* The rules that the iteration has gone past when it is at r.
Passed(r) == {rules[k] : k \in 1 .. CHOOSE n \in DOMAIN rules : rules[n] = r}

\* The call of e goes on to phase ph: "begins", "next" rule, "matched" inside a
\* sequence, "ending" with a rule, "over", "failed".  i is the instance it waits for, if any.
Goes(e, r, q, ph, todo, i) ==
    [calls[e] EXCEPT !.phase = ph, !.rule = r, !.pattern = q, !.todo = todo, !.waits = i,
                     !.visited = IF Runs(e) THEN @ \cup Passed(r) ELSE @]

\* getEventsInWindow: getInTimeRange takes the matcher for a topic, and compares timestamps.
InWindow(e, p) ==
    SelectSeq([j \in DOMAIN store |-> j],
              LAMBDA x : /\ store[x].topic = p.event
                         /\ clock - p.window <= store[x].at /\ store[x].at <= clock
                         /\ Key(e, p) \in {NoGroup, store[x].group})

Compare(v, comparison, threshold) ==
    CASE comparison = "gte" -> v >= threshold
      [] comparison = "lte" -> v <= threshold
      [] comparison = "eq"  -> v = threshold

-----------------------------------------------------------------------------
(* Sequences *)

\* The event fits, or misses, the step of the pattern that the instance is at; a pattern
\* may have none for an instance of the one before it.
HasStep(i, q) == Len(instances[i].matched) + 1 \in DOMAIN PatternOf[q].events

Fits(i, q, e) ==
    HasStep(i, q) /\ Matches(e, PatternOf[q].events[Len(instances[i].matched) + 1])

Misses(i, q, e) == HasStep(i, q) /\ ~Fits(i, q, e)

\* Mutant of Completes: an instance that has ended while a callback was awaited.
CompletesStale(i, q, e) ==
    /\ Fits(i, q, e)
    /\ Len(instances[i].matched) + 1 = Len(PatternOf[q].events)

Completes(i, q, e) ==
    /\ instances[i].state = "matching" /\ Fits(i, q, e)
    /\ Len(instances[i].matched) + 1 = Len(PatternOf[q].events)

Took(ins, q, e) == [ins EXCEPT !.matched = Append(@, e), !.taken = Append(@, q)]

\* One instance of the loop over existingInstances.
Advanced(i, q, e) ==
    IF Completes(i, q, e) THEN Took(Ended(i, "completed"), q, e)
    ELSE IF Fits(i, q, e) THEN Took(instances[i], q, e)
    ELSE IF Misses(i, q, e) /\ PatternOf[q].strict THEN Ended(i, "expired")
    ELSE instances[i]

\* The instances of the loop that still match, and what becomes of all when it has
\* gone over them.
Open(todo) == {i \in todo : instances[i].state = "matching"}
Swept(todo, q, e) == [i \in Ids |-> IF i \in Open(todo) THEN Advanced(i, q, e) ELSE instances[i]]
Unarmed(todo, q, e) == {i \in Open(todo) : Swept(todo, q, e)[i].state # "matching"}

\* Mutant of StartSequence: the group is not asked for.
StartSequenceAnyway(e, r, q, ins, timers) ==
    /\ instances' = Append(ins, NewInstance(r, q, e, "matching"))
    /\ armed' = timers \cup {Len(ins) + 1}
    /\ calls' = [calls EXCEPT ![e] = Goes(e, r, q, "ending", {}, 0)]
    /\ UNCHANGED <<setting, reported>>

\* A new sequence starts unless its group has one already.
StartSequence(e, r, q, ins, timers) ==
    LET p == PatternOf[q]
        n == Len(ins) + 1
        starts == p.events # <<>> /\ Matches(e, p.events[1])
                  /\ (Key(e, p) # NoGroup => ~Matching(ins, r, Key(e, p)))
    IN  \/ /\ ~starts
           /\ instances' = ins /\ armed' = timers
           /\ calls' = [calls EXCEPT ![e] = Goes(e, r, q, "next", {}, 0)]
           /\ UNCHANGED <<setting, reported>>
        \/ /\ starts /\ Len(p.events) = 1
           /\ instances' = Append(ins, NewInstance(r, q, e, "completed")) /\ armed' = timers
           /\ reported' = Append(reported, Report(r, n, <<e>>, e))
           /\ calls' = [calls EXCEPT ![e] = Goes(e, r, q, "ending", {}, 0)]
           /\ UNCHANGED setting
        \/ /\ starts /\ Len(p.events) > 1
           /\ instances' = Append(ins, NewInstance(r, q, e, "matching"))
           /\ \/ armed' = timers \cup {n} /\ UNCHANGED setting
              \/ armed' = timers /\ setting' = setting \cup {n}
           /\ calls' = [calls EXCEPT ![e] = Goes(e, r, q, "ending", {}, n)]
           /\ UNCHANGED reported

\* The loop up to the first match, whose callback is awaited, or to its end.
SweepSequence(e, r, q, todo) ==
    LET hits == {i \in todo : Completes(i, q, e)}
    IN  \/ /\ hits = {}
           /\ StartSequence(e, r, q, Swept(todo, q, e), armed \ Unarmed(todo, q, e))
        \/ \E hit \in First(hits) :
              LET seen == {i \in todo : i <= hit}
              IN  /\ instances' = Swept(seen, q, e) /\ armed' = armed \ Unarmed(seen, q, e)
                  /\ reported' = Append(reported,
                        Report(instances[hit].rule, hit, Swept(seen, q, e)[hit].matched, e))
                  /\ calls' = [calls EXCEPT ![e] = Goes(e, r, q, "matched", todo \ seen, 0)]
                  /\ UNCHANGED setting

ProcessSequence(e, r, q) ==
    /\ PatternOf[q].type = "sequence"
    /\ SweepSequence(e, r, q, Found(instances, r, Key(e, PatternOf[q])))

-----------------------------------------------------------------------------
(* Absences, counts and aggregates *)

ProcessAbsence(e, r, q) ==
    LET p     == PatternOf[q]
        ended == {i \in Found(instances, r, Key(e, p)) :
                     instances[i].state = "matching" /\ Matches(e, p.expected)}
        ins   == [i \in Ids |-> IF i \in ended THEN Ended(i, "expired") ELSE instances[i]]
        n     == Len(ins) + 1
        starts == Matches(e, p.after) /\ ~Matching(ins, r, Key(e, p))
    IN  /\ p.type = "absence"
        /\ \/ /\ ~starts
              /\ instances' = ins /\ armed' = armed \ ended
              /\ calls' = [calls EXCEPT ![e] = Goes(e, r, q, "next", {}, 0)]
              /\ UNCHANGED setting
           \/ /\ starts
              /\ instances' = Append(ins, NewInstance(r, q, e, "matching"))
              /\ \/ armed' = (armed \ ended) \cup {n} /\ UNCHANGED setting
                 \/ armed' = armed \ ended /\ setting' = setting \cup {n}
              /\ calls' = [calls EXCEPT ![e] = Goes(e, r, q, "ending", {}, n)]
        /\ UNCHANGED reported

\* A match of a window is reported without an instance.
ReportWindow(e, r, q, met, events) ==
    /\ reported' = IF met THEN Append(reported, Report(r, 0, events, e)) ELSE reported
    /\ calls' = [calls EXCEPT ![e] = Goes(e, r, q, IF met THEN "ending" ELSE "next", {}, 0)]
    /\ UNCHANGED <<instances, armed, setting>>

ProcessCount(e, r, q) ==
    LET p == PatternOf[q]
        events == InWindow(e, p)
    IN  /\ p.type = "count"
        /\ ReportWindow(e, r, q, Matches(e, p.event)
                                 /\ Compare(Len(events), p.comparison, p.threshold), events)

\* The aggregate of values, scaled so that an average is compared exactly.
AggregateMeets(values, p) ==
    LET sum == FoldSeq(LAMBDA x, y : x + y, 0, values)
    IN  CASE p.function = "sum" -> Compare(sum, p.comparison, p.threshold)
          [] p.function = "avg" -> Compare(sum, p.comparison, p.threshold * Len(values))
          [] p.function = "min" -> Compare(Min(Elements(values)), p.comparison, p.threshold)
          [] p.function = "max" -> Compare(Max(Elements(values)), p.comparison, p.threshold)

ProcessAggregate(e, r, q) ==
    LET p == PatternOf[q]
        events == InWindow(e, p)
        values == SelectSeq([j \in DOMAIN events |-> ValueOf[store[events[j]].topic]],
                            LAMBDA v : v # NoValue)
    IN  /\ p.type = "aggregate"
        /\ ReportWindow(e, r, q,
              /\ Matches(e, p.event)
              /\ IF p.function = "count" THEN Compare(Len(events), p.comparison, p.threshold)
                 ELSE values # <<>> /\ AggregateMeets(values, p), events)

-----------------------------------------------------------------------------
(* processEvent *)

WithinBounds ==
    LET n == Len(store) + changes + 1
    IN  n <= MaxEvents /\ n * Len(rules) <= MaxVisits

ProcessEvent(topic, group, age) ==
    /\ Quiet /\ WithinBounds
    /\ store' = Append(store, [topic |-> topic, group |-> group, at |-> clock - age])
    /\ calls' = Append(calls, [phase |-> "begins", rule |-> NoRule, pattern |-> NoPattern,
                               todo |-> {}, waits |-> 0, visited |-> {}])
    /\ UNCHANGED <<rules, pattern, disabled, instances, armed, setting, due, reported, visits,
                   changes, clock>>

\* The iteration over the Map goes on behind the last rule it has seen, over the
\* rules as they are now.
Visitable(e) == {k \in DOMAIN rules : /\ rules[k] \notin calls[e].visited
                                      /\ rules[k] \notin disabled}

ProcessRule(e) ==
    /\ Runs(e)
    /\ \E k \in First(Visitable(e)) :
          LET r == rules[k]
              q == pattern[r]
          IN  /\ \/ ProcessSequence(e, r, q)
                 \/ ProcessAbsence(e, r, q)
                 \/ ProcessCount(e, r, q)
                 \/ ProcessAggregate(e, r, q)
              /\ visits' = [visits EXCEPT ![r] = Append(@, [event |-> e, pattern |-> q])]
    /\ UNCHANGED <<rules, pattern, disabled, store, due, changes, clock>>

CallEnds(e) ==
    /\ Runs(e) /\ Visitable(e) = {}
    /\ calls' = [calls EXCEPT ![e].phase = "over"]
    /\ UNCHANGED <<rules, pattern, disabled, store, instances, armed, setting, due, reported,
                   visits, changes, clock>>

\* The callback of a match inside the loop over the instances has returned.
MatchReturns(e) ==
    /\ Quiet /\ calls[e].phase = "matched"
    /\ SweepSequence(e, calls[e].rule, calls[e].pattern, calls[e].todo)
    /\ UNCHANGED <<rules, pattern, disabled, store, due, visits, changes, clock>>

\* The callback or the setTimer that ends the processing of a rule has returned.
RuleReturns(e) ==
    /\ Quiet /\ calls[e].phase = "ending" /\ calls[e].waits \notin setting
    /\ calls' = [calls EXCEPT ![e].phase = "next"]
    /\ UNCHANGED <<rules, pattern, disabled, store, instances, armed, setting, due, reported,
                   visits, changes, clock>>

\* The callback or setTimer rejects, and the call with it: the rules behind do not see the
\* event.  A new instance stays; its timer has been set, or is not.
CallFails(e) ==
    /\ Quiet /\ calls[e].phase \in {"matched", "ending"}
    /\ calls' = [calls EXCEPT ![e].phase = "failed"]
    /\ setting' = setting \ {calls[e].waits}
    /\ UNCHANGED <<rules, pattern, disabled, store, instances, armed, due, reported, visits,
                   changes, clock>>

-----------------------------------------------------------------------------
(* Timers *)

TimerSet(i) ==
    /\ Quiet /\ i \in setting
    /\ setting' = setting \ {i} /\ armed' = armed \cup {i}
    /\ UNCHANGED <<rules, pattern, disabled, store, calls, instances, due, reported, visits,
                   changes, clock>>

\* TimerManager emits temporal.timeout; whoever listens calls handleTimeout later.
TimerFires(i) ==
    /\ Quiet /\ i \in armed /\ clock >= instances[i].expires
    /\ armed' = armed \ {i} /\ due' = due \cup {i}
    /\ UNCHANGED <<rules, pattern, disabled, store, calls, instances, setting, reported, visits,
                   changes, clock>>

\* Mutant of HandleTimeout: the instance is not looked up first.
HandleTimeoutUnchecked(i) ==
    /\ Quiet /\ i \in due /\ PatternOf[instances[i].pattern].type = "absence"
    /\ due' = due \ {i}
    /\ instances' = [instances EXCEPT ![i] = Ended(i, "completed")]
    /\ reported' = Append(reported, Report(instances[i].rule, i, instances[i].matched, 0))
    /\ UNCHANGED <<rules, pattern, disabled, store, calls, armed, setting, visits, changes, clock>>

HandleTimeout(i) ==
    LET r       == instances[i].rule
        absence == PatternOf[instances[i].pattern].type = "absence"
    IN  /\ Quiet /\ i \in due
        /\ due' = due \ {i}
        /\ \/ /\ ~instances[i].active
              /\ UNCHANGED <<instances, reported>>
           \/ /\ instances[i].active /\ absence
              /\ instances' = [instances EXCEPT ![i] = Ended(i, "completed")]
              /\ reported' = Append(reported, Report(r, i, instances[i].matched, 0))
           \/ /\ instances[i].active /\ ~absence
              /\ instances' = [instances EXCEPT ![i] = Ended(i, "expired")]
              /\ UNCHANGED reported
        /\ UNCHANGED <<rules, pattern, disabled, store, calls, armed, setting, visits, changes, clock>>

-----------------------------------------------------------------------------
(* Rules *)

\* A rule that is there is replaced, in its place and with its own enabled flag, and its
\* instances stay.
RegisterRule(r) ==
    /\ rules' = IF r \in Elements(rules) THEN rules ELSE Append(rules, r)
    /\ \E q \in Registrable[r] : pattern' = [pattern EXCEPT ![r] = q]
    /\ disabled' \in {disabled \ {r}, disabled \cup {r}}
    /\ UNCHANGED <<calls, instances, armed>>

\* The instances are removed as they are, and their timers stay.  A rule that is
\* registered again is behind the others for the iterations under way.
UnregisterRule(r) ==
    /\ \E k \in DOMAIN rules : rules[k] = r /\ rules' = RemoveAt(rules, k)
    /\ instances' = [i \in Ids |-> IF instances[i].rule = r
                                   THEN [instances[i] EXCEPT !.active = FALSE]
                                   ELSE instances[i]]
    /\ calls' = [e \in DOMAIN calls |-> [calls[e] EXCEPT !.visited = @ \ {r}]]
    /\ UNCHANGED <<pattern, disabled, armed>>

SwitchRule(r) ==
    /\ disabled' = SymDiff(disabled, {r})
    /\ UNCHANGED <<rules, pattern, calls, instances, armed>>

Clear ==
    /\ armed' = {i \in armed : ~instances[i].active}
    /\ instances' = [i \in Ids |-> [instances[i] EXCEPT !.active = FALSE]]
    /\ UNCHANGED <<rules, pattern, disabled, calls>>

Change ==
    /\ Quiet /\ changes < MaxChanges /\ WithinBounds
    /\ changes' = changes + 1
    /\ \/ \E r \in Changing : RegisterRule(r)
       \/ \E r \in Changing : UnregisterRule(r)
       \/ \E r \in Changing : SwitchRule(r)
       \/ Clear
    /\ UNCHANGED <<store, setting, due, reported, visits, clock>>

Tick ==
    /\ Quiet /\ (clock < MaxTime \/ \E i \in armed : clock < instances[i].expires)
    /\ clock' = clock + 1
    /\ UNCHANGED <<rules, pattern, disabled, store, calls, instances, armed, setting, due, reported,
                   visits, changes>>

Callers == \/ \E t \in Topic, g \in Group \cup {NoGroup}, age \in Ages : ProcessEvent(t, g, age)
           \/ Change

Processor ==
    \/ \E e \in DOMAIN calls : \/ ProcessRule(e) \/ CallEnds(e)
                              \/ MatchReturns(e) \/ RuleReturns(e) \/ CallFails(e)
    \/ \E i \in Ids : TimerSet(i) \/ TimerFires(i) \/ HandleTimeout(i)
    \/ Tick

Next == Callers \/ Processor

Spec == Init /\ [][Next]_vars

-----------------------------------------------------------------------------
(* Properties *)

\* A group of a sequence, and of an absence, has at most one instance at a time,
\* although a call awaits callbacks between looking for one and creating one, and although
\* the pattern of a rule is replaced under its instances.
ApartFromOthers(i) ==
    PatternOf[instances[i].pattern].type = "sequence" => instances[i].group # NoGroup

OnePerGroup ==
    \A i, j \in Ids :
        /\ instances[i].active /\ instances[j].active
        /\ instances[i].rule = instances[j].rule /\ instances[i].group = instances[j].group
        /\ ApartFromOthers(i) /\ ApartFromOthers(j)
        => i = j

\* The rule has processed event x and, later, event y.
InTurn(r, x, y) ==
    \E j, k \in DOMAIN visits[r] : j < k /\ visits[r][j].event = x /\ visits[r][k].event = y

\* Before its call came to instance i, event e completed an earlier instance of the
\* rule, whose callback the call awaited.
HeldUp(e, r, i) ==
    \E m \in DOMAIN reported :
        /\ reported[m].rule = r /\ reported[m].instance \in 1 .. i - 1
        /\ reported[m].by = e

\* Event e may be taken for step k of a pattern: a sequence has one for every event, and an
\* absence one that begins it.
StepFits(e, k, p) ==
    \/ p.type = "sequence" /\ k \in DOMAIN p.events /\ Matches(e, p.events[k])
    \/ p.type = "absence" /\ k = 1 /\ Matches(e, p.after)

\* An instance has an event for each step that it has taken, by the pattern that the rule
\* had when the event was processed, which is its own unless rules change.
StepsFit(i) ==
    LET ins == instances[i]
    IN  /\ DOMAIN ins.taken = DOMAIN ins.matched /\ ins.taken[1] = ins.pattern
        /\ \A k \in DOMAIN ins.matched :
              /\ StepFits(ins.matched[k], k, PatternOf[ins.taken[k]])
              /\ changes = 0 => ins.taken[k] = ins.pattern

\* A reported instance is reported once, with an event for each of its steps, however its
\* callbacks and its timer fall between the events: by the event that makes it as long as
\* the sequence that takes the event, or by the timeout of an absence.  The rule has
\* processed the first one before the others, and each one before the next but for
\* events whose calls were held up; unless rules change, no event stands for two steps.
MatchesFit ==
    \A n \in DOMAIN reported :
        LET rep == reported[n]
            ins == instances[rep.instance]
            len == Len(rep.events)
        IN  rep.instance # 0 =>
            /\ ins.state = "completed" /\ ins.rule = rep.rule /\ ins.matched = rep.events
            /\ \A m \in DOMAIN reported : reported[m].instance = rep.instance => m = n
            /\ StepsFit(rep.instance)
            /\ IF rep.by = 0 THEN PatternOf[ins.pattern].type = "absence"
               ELSE /\ rep.by = rep.events[len]
                    /\ PatternOf[ins.taken[len]].type = "sequence"
                    /\ len = Len(PatternOf[ins.taken[len]].events)
            /\ \A k \in 2 .. len :
                  /\ InTurn(rep.rule, rep.events[1], rep.events[k])
                  /\ \/ InTurn(rep.rule, rep.events[k - 1], rep.events[k])
                     \/ HeldUp(rep.events[k], rep.rule, rep.instance)
            /\ changes = 0 => IsInjective(rep.events)

\* The documented meaning of a sequence: its events come in the order of its steps.
StepsInOrder ==
    \A n \in DOMAIN reported :
        LET rep == reported[n]
        IN  rep.instance # 0 =>
                \A k \in 2 .. Len(rep.events) :
                    InTurn(rep.rule, rep.events[k - 1], rep.events[k])

\* A match of a rule is one of the pattern that it is reported with.
MatchesOwnPattern ==
    \A n \in DOMAIN reported :
        LET i == reported[n].instance
        IN  i # 0 => \A k \in DOMAIN instances[i].taken :
                        instances[i].taken[k] = instances[i].pattern

\* What the rule of i has processed since i began and that i waits for, by the pattern that
\* the rule had by then.
Awaited(i) ==
    LET seen == visits[instances[i].rule]
        At(k) == PatternOf[seen[k].pattern]
    IN  {k \in DOMAIN seen :
            /\ \A j \in DOMAIN seen : seen[j].event = instances[i].matched[1] => j < k
            /\ At(k).type = "absence" /\ Matches(seen[k].event, At(k).expected)
            /\ Key(seen[k].event, At(k)) \in {NoGroup, instances[i].group}}

\* An absence is reported only when the rule has processed no expected event of its
\* group since the one it began with: the timer of an instance that an event has
\* ended meanwhile reports nothing.
AbsenceObserved ==
    [][\A n \in DOMAIN reported' \ DOMAIN reported :
          LET rep == reported'[n]
          IN  rep.instance # 0 /\ rep.by = 0 => Awaited(rep.instance) = {}]_vars

\* The documented meaning of an absence, in the order in which the events arrive:
\* the expected event has not come within the window.
AbsenceMeansAbsent ==
    \A n \in DOMAIN reported :
        LET i == reported[n].instance
            p == PatternOf[instances[i].pattern]
        IN  i # 0 /\ p.type = "absence" =>
                ~\E e \in DOMAIN store :
                    /\ e > instances[i].matched[1] /\ Matches(e, p.expected)
                    /\ Key(e, p) = instances[i].group
                    /\ store[e].at < store[instances[i].matched[1]].at + p.window

\* setTimer rejected in the call that created the instance.
Refused(i) == \E e \in DOMAIN calls : calls[e].phase = "failed" /\ calls[e].waits = i

Timed(i) == i \in armed \cup setting \cup due

\* No instance waits for ever, unless the call that created it was told so by setTimer: its
\* timer is armed, about to be, or about to be handled, also when setTimer is slow, when the
\* instance goes on to its next step, and when other instances of its group end.
TimeoutCovered == \A i \in Ids : instances[i].active => Timed(i) \/ Refused(i)

\* The documented meaning of `within`: every instance has its time limit.
LimitsSet == \A i \in Ids : instances[i].active => Timed(i)

\* At most one instance of a group and pattern that may have one, and each that
\* has a time limit has an armed timer or is being timed out, or its creator has failed.
InstancesSound == OnePerGroup /\ TimeoutCovered
=============================================================================
