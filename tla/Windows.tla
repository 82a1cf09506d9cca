------------------------------ MODULE Windows ------------------------------
(***************************************************************************)
(* CountMatcher and AggregateMatcher: sliding windows, which are asked at   *)
(* every event, and tumbling ones, which are asked when they end.  They     *)
(* have no timers: a tumbling window is ended by the first event of its     *)
(* group that comes later, or by the caller's handleWindowEnd.  A call of   *)
(* processEvent reads the time once, at its start, and compares it with the *)
(* timestamps that events carry, which are their senders'; `running` is the *)
(* call that has not come to an await yet.                                  *)
(***************************************************************************)
EXTENDS Integers, Sequences, FiniteSets, SequencesExt, FiniteSetsExt

CONSTANTS
    Pattern,         \* identifiers of patterns
    PatternOf,
    InitialPatterns, \* the orders in which patterns are added at first
    Topic,
    Covers,          \* the topics each matcher covers
    ValueOf,         \* the number in the data of a topic's events, or NoValue
    NoValue,
    Group,
    NoGroup,         \* the field is missing, or the pattern does not group
    Ages,            \* how old an event may be when its call begins; below 0, of the future
    Changing,        \* the patterns that callers change
    MaxEvents,       \* bound on events and changes together
    MaxVisits,       \* bound on the same number times that of the patterns
    MaxChanges,      \* bound on changes
    MaxTime          \* bound on the clock

\* What the patterns are.  A tumbling window has a length: with "0s", which nothing
\* refuses, its start would be NaN, and no event would be too late for it.
PatternsTyped ==
    /\ InitialPatterns \subseteq Seq(Pattern) /\ Changing \subseteq Pattern /\ Ages \subseteq Int
    /\ \A p \in Pattern : /\ PatternOf[p].window \in Nat /\ PatternOf[p].sliding \in BOOLEAN
                          /\ ~PatternOf[p].sliding => PatternOf[p].window # 0

VARIABLES
    patterns,  \* the patterns, in the order of the Map
    events,    \* the events processed, with their timestamp and the time their call began
    calls,
    windows,   \* every instance there has been; an active one is in the Map
    current,   \* byGroup: the instance of each pattern and group, or 0
    counted,   \* history: the matches, with the events they counted
    pushes,    \* history: the events each pattern has taken up, in order
    running,   \* the call that runs, or 0
    changes,   \* history: the number of changes
    clock

vars == <<patterns, events, calls, windows, current, counted, pushes, running,
          changes, clock>>

Ids == DOMAIN windows
Elements(s) == {s[j] : j \in DOMAIN s}

Init ==
    /\ patterns \in InitialPatterns
    /\ events = <<>> /\ calls = <<>> /\ windows = <<>> /\ counted = <<>>
    /\ current = [p \in Pattern |-> [g \in Group \cup {NoGroup} |-> 0]]
    /\ pushes = [p \in Pattern |-> <<>>]
    /\ running = 0 /\ changes = 0 /\ clock = 0

-----------------------------------------------------------------------------
(* Helpers *)

Matches(e, matcher) == events[e].topic \in Covers[matcher]

\* makeFullGroupKey: '' for a missing field is the key of the pattern itself.
Key(e, p) == IF PatternOf[p].grouped THEN events[e].group ELSE NoGroup

\* findInstanceByGroup, 0 when there is none.
Found(e, p) == current[p][Key(e, p)]

TumblingWindowStart(now, window) == (now \div window) * window

Compare(v, comparison, threshold) ==
    CASE comparison = "gte" -> v >= threshold
      [] comparison = "lte" -> v <= threshold
      [] comparison = "eq"  -> v = threshold

\* extractValues
Values(s) ==
    SelectSeq([j \in DOMAIN s |-> ValueOf[events[s[j]].topic]], LAMBDA v : v # NoValue)

\* computeAggregate and compareValue; the average is compared without dividing, and
\* the minimum and maximum of nothing are infinite.
AggregateMeets(values, p) ==
    LET sum  == FoldSeq(LAMBDA x, y : x + y, 0, values)
        none == values = <<>>
    IN  CASE p.function = "count" -> Compare(Len(values), p.comparison, p.threshold)
          [] p.function = "sum" -> Compare(sum, p.comparison, p.threshold)
          [] p.function = "avg" -> Compare(sum, p.comparison,
                                           p.threshold * (IF none THEN 1 ELSE Len(values)))
          [] p.function = "min" -> IF none THEN p.comparison = "gte"
                                   ELSE Compare(Min(Elements(values)), p.comparison, p.threshold)
          [] p.function = "max" -> IF none THEN p.comparison = "lte"
                                   ELSE Compare(Max(Elements(values)), p.comparison, p.threshold)

CountMeets(s, p) == Compare(Len(s), p.comparison, p.threshold)

Meets(s, p) == \/ p.type = "count" /\ CountMeets(s, p)
               \/ p.type = "aggregate" /\ AggregateMeets(Values(s), p)

\* The first of a set of positions, if it has one.
First(positions) == {k \in positions : \A j \in positions : k <= j}

\* pruneEvents: from the front, up to the first event that is not too old.
Pruned(s, from) ==
    LET kept == {j \in DOMAIN s : events[s[j]].timestamp >= from}
    IN  IF kept = {} THEN <<>> ELSE SubSeq(s, Min(kept), Len(s))

\* A window knows the event it was opened for, which is history, and whether a match of it
\* is being reported (the state "triggered").
Window(e, p, start, held) ==
    [pattern |-> p, group |-> Key(e, p), start |-> start,
     end |-> start + PatternOf[p].window, events |-> held, active |-> TRUE,
     triggered |-> FALSE, listed |-> TRUE, first |-> e]

Entered(e, p) == [current EXCEPT ![p][Key(e, p)] = Len(windows) + 1]

\* removeInstance: the group is freed only when it still has this instance.
Freed(i) ==
    LET p == windows[i].pattern
        g == windows[i].group
    IN  IF current[p][g] = i THEN [current EXCEPT ![p][g] = 0] ELSE current

Report(i, s, e) == [window |-> i, events |-> s, by |-> e]

\* handleWindowEnd of an active window up to its callback, of a match or of the expiry.
WindowEnds(i) ==
    /\ windows' = [windows EXCEPT ![i].active = FALSE]
    /\ current' = Freed(i)
    /\ counted' = IF Meets(windows[i].events, PatternOf[windows[i].pattern])
                   THEN Append(counted, Report(i, windows[i].events, 0)) ELSE counted

Goes(e, pc) == calls' = [calls EXCEPT ![e].pc = pc]
MayRun(e) == running \in {0, e}

-----------------------------------------------------------------------------
(* processEvent *)

WithinBounds ==
    LET n == Len(events) + changes + 1
    IN  n <= MaxEvents /\ n * Len(patterns) <= MaxVisits

ProcessEvent(topic, group, age) ==
    /\ running = 0 /\ WithinBounds
    /\ events' = Append(events, [topic |-> topic, group |-> group, at |-> clock,
                                 timestamp |-> clock - age])
    /\ calls' = Append(calls, [pc |-> "visit", pattern |-> <<>>, seen |-> {}, window |-> 0])
    /\ running' = Len(events) + 1
    /\ UNCHANGED <<patterns, windows, current, counted, pushes, changes, clock>>

\* The iteration over the Map comes to its next pattern that the event matches.
Visit(e) ==
    LET left == {k \in DOMAIN patterns : /\ patterns[k] \notin calls[e].seen
                                         /\ Matches(e, PatternOf[patterns[k]].event)}
    IN  /\ calls[e].pc = "visit" /\ MayRun(e)
        /\ \/ left = {} /\ Goes(e, "over") /\ running' = 0
           \/ /\ running' = e
              /\ \E n \in First(left) :
                    calls' = [calls EXCEPT
                      ![e] = [pc |-> IF PatternOf[patterns[n]].sliding THEN "sliding"
                                     ELSE "tumbling",
                              pattern |-> <<patterns[n]>>, window |-> 0,
                              seen |-> @.seen \cup {patterns[k] : k \in 1 .. n}]]
        /\ UNCHANGED <<patterns, events, windows, current, counted, pushes, changes, clock>>

TakenUp(e, p) == pushes' = [pushes EXCEPT ![p] = Append(@, e)]

\* Mutant of ProcessSlidingWindow: what is too old goes only after the count.
SlidingPrunesLate(e) ==
    LET p     == Head(calls[e].pattern)
        found == Found(e, p)
        i     == IF found = 0 THEN Len(windows) + 1 ELSE found
        old   == IF found = 0 THEN <<e>> ELSE Append(windows[i].events, e)
        now   == Pruned(old, events[e].at - PatternOf[p].window)
    IN  /\ calls[e].pc = "sliding" /\ running = e
        /\ windows' = IF found = 0 THEN Append(windows, Window(e, p, 0, now))
                      ELSE [windows EXCEPT ![i].events = now]
        /\ current' = IF found = 0 THEN Entered(e, p) ELSE current
        /\ counted' = IF Meets(old, PatternOf[p])
                       THEN Append(counted, Report(i, old, e)) ELSE counted
        /\ Goes(e, "visit") /\ running' = 0 /\ TakenUp(e, p)
        /\ UNCHANGED <<patterns, events, changes, clock>>

\* The instance that the event is added to stays; when it matches, it is "triggered" while
\* the callback is awaited.
ProcessSlidingWindow(e) ==
    LET p     == Head(calls[e].pattern)
        from  == events[e].at - PatternOf[p].window
        found == Found(e, p)
        i     == IF found = 0 THEN Len(windows) + 1 ELSE found
        held  == Pruned(IF found = 0 THEN <<e>> ELSE Append(windows[i].events, e), from)
        w     == IF found = 0 THEN Window(e, p, from, held)
                 ELSE [windows[i] EXCEPT !.events = held]
        meets == Meets(held, PatternOf[p])
        new   == IF meets THEN [w EXCEPT !.triggered = TRUE] ELSE w
    IN  /\ calls[e].pc = "sliding" /\ running = e
        /\ windows' = IF found = 0 THEN Append(windows, new) ELSE [windows EXCEPT ![i] = new]
        /\ current' = IF found = 0 THEN Entered(e, p) ELSE current
        /\ counted' = IF meets THEN Append(counted, Report(i, held, e)) ELSE counted
        /\ calls' = [calls EXCEPT ![e].pc = IF meets THEN "matched" ELSE "visit", ![e].window = i]
        /\ running' = 0 /\ TakenUp(e, p)
        /\ UNCHANGED <<patterns, events, changes, clock>>

\* The callback of a match returns, and the instance is active for the next, also when it
\* is the callback of another match that is still awaited.
MatchReturns(e) ==
    /\ calls[e].pc = "matched" /\ running = 0
    /\ windows' = [windows EXCEPT ![calls[e].window].triggered = FALSE]
    /\ Goes(e, "visit")
    /\ UNCHANGED <<patterns, events, current, counted, pushes, running, changes, clock>>

\* A callback throws and the call with it: the patterns behind do not see the event, the
\* instance of a match stays "triggered", and the event that came after its window is lost.
CallbackThrows(e) ==
    /\ running = 0
    /\ \/ calls[e].pc = "matched" /\ Goes(e, "failed")
       \/ calls[e].pc = "reopening" /\ Goes(e, "lost")
    /\ UNCHANGED <<patterns, events, windows, current, counted, pushes, running, changes, clock>>

\* The event is pushed into the window of its group, or into a new one.
Push(e, p, i) ==
    LET start == TumblingWindowStart(events[e].at, PatternOf[p].window)
    IN  /\ windows' = IF i = 0 THEN Append(windows, Window(e, p, start, <<e>>))
                      ELSE [windows EXCEPT ![i].events = Append(@, e)]
        /\ current' = IF i = 0 THEN Entered(e, p) ELSE current
        /\ TakenUp(e, p) /\ UNCHANGED counted
        /\ Goes(e, "visit") /\ running' = 0

ProcessTumblingWindow(e) ==
    LET p == Head(calls[e].pattern)
        i == Found(e, p)
        over == i # 0 /\ events[e].at > windows[i].end
    IN  /\ calls[e].pc = "tumbling" /\ running = e
        /\ \/ /\ over /\ WindowEnds(i)
              /\ Goes(e, "reopening") /\ running' = 0 /\ UNCHANGED pushes
           \/ ~over /\ Push(e, p, i)
        /\ UNCHANGED <<patterns, events, changes, clock>>

\* The callback of the window that has ended returns: the group gets a new one, also
\* when another call has made one meanwhile.
Reopen(e) ==
    /\ calls[e].pc = "reopening" /\ running = 0
    /\ Push(e, Head(calls[e].pattern), 0)
    /\ UNCHANGED <<patterns, events, changes, clock>>

\* The caller's timer, at any time and of any instance: nothing is done for one that is no
\* longer there, and one that is being reported is removed without a report.
HandleWindowEnd(i) ==
    /\ running = 0 /\ windows[i].active
    /\ \/ ~windows[i].triggered /\ WindowEnds(i)
       \/ /\ windows[i].triggered
          /\ windows' = [windows EXCEPT ![i].active = FALSE] /\ current' = Freed(i)
          /\ UNCHANGED counted
    /\ UNCHANGED <<patterns, events, calls, pushes, running, changes, clock>>

-----------------------------------------------------------------------------
(* Patterns *)

\* A pattern that is there is replaced, and gets an empty list of instances.
AddPattern(p) ==
    /\ patterns' = IF p \in Elements(patterns) THEN patterns ELSE Append(patterns, p)
    /\ windows' = [i \in Ids |-> IF windows[i].pattern = p
                                 THEN [windows[i] EXCEPT !.listed = FALSE] ELSE windows[i]]
    /\ UNCHANGED <<current, calls>>

\* Removes the instances that the pattern lists.
RemovePattern(p) ==
    /\ \E k \in DOMAIN patterns : patterns[k] = p /\ patterns' = RemoveAt(patterns, k)
    /\ windows' = [i \in Ids |-> IF windows[i].pattern = p /\ windows[i].listed
                                 THEN [windows[i] EXCEPT !.active = FALSE] ELSE windows[i]]
    /\ current' = [current EXCEPT
          ![p] = [g \in DOMAIN @ |-> IF @[g] # 0 /\ windows[@[g]].listed THEN 0 ELSE @[g]]]
    /\ calls' = [e \in DOMAIN calls |-> [calls[e] EXCEPT !.seen = @ \ {p}]]

\* clear(), and reset(), which removes the patterns too.
Clear ==
    /\ windows' = [i \in Ids |-> [windows[i] EXCEPT !.active = FALSE]]
    /\ current' = [p \in Pattern |-> [g \in DOMAIN current[p] |-> 0]]
    /\ \/ UNCHANGED <<patterns, calls>>
       \/ /\ patterns' = <<>>
          /\ calls' = [e \in DOMAIN calls |-> [calls[e] EXCEPT !.seen = {}]]

Change ==
    /\ running = 0 /\ changes < MaxChanges /\ WithinBounds
    /\ changes' = changes + 1
    /\ \/ \E p \in Changing : AddPattern(p) \/ RemovePattern(p)
       \/ Clear
    /\ UNCHANGED <<events, counted, pushes, running, clock>>

Tick ==
    /\ running = 0 /\ clock < MaxTime /\ clock' = clock + 1
    /\ UNCHANGED <<patterns, events, calls, windows, current, counted, pushes, running, changes>>

Next ==
    \/ \E t \in Topic, g \in Group \cup {NoGroup}, age \in Ages : ProcessEvent(t, g, age)
    \/ \E e \in DOMAIN calls : \/ Visit(e) \/ ProcessSlidingWindow(e) \/ MatchReturns(e)
                               \/ ProcessTumblingWindow(e) \/ Reopen(e) \/ CallbackThrows(e)
    \/ \E i \in Ids : HandleWindowEnd(i)
    \/ Change
    \/ Tick

Spec == Init /\ [][Next]_vars

-----------------------------------------------------------------------------
(* Properties *)

InOrder(s) == \A j \in 2 .. Len(s) : s[j - 1] < s[j]

\* An event is in one window of each tumbling pattern that takes it up, also when two
\* calls find the same window at its end and both open a new one, or when the caller ends
\* the window early; its call began in the range of its window as long as the pattern takes
\* up the events in order.  No pattern is passed over by a call that no callback broke off.
OneWindowEach ==
    /\ \A p \in Pattern : \A e \in Elements(pushes[p]) :
          ~PatternOf[p].sliding =>
             /\ \E i \in Ids : windows[i].pattern = p /\ e \in Elements(windows[i].events)
             /\ changes = 0 =>
                  Cardinality({i \in Ids : /\ windows[i].pattern = p
                                           /\ e \in Elements(windows[i].events)}) = 1
             /\ InOrder(pushes[p]) =>
                  \A i \in Ids : windows[i].pattern = p /\ e \in Elements(windows[i].events) =>
                    windows[i].start <= events[e].at /\ events[e].at <= windows[i].end
    /\ \A e \in DOMAIN calls : calls[e].pc = "over" /\ changes = 0 =>
          \A k \in DOMAIN patterns :
              Matches(e, PatternOf[patterns[k]].event) => e \in Elements(pushes[patterns[k]])

\* What the pattern has taken up for the window's group since it was opened, until an event.
Since(i, e) ==
    LET p == windows[i].pattern
    IN  {d \in Elements(pushes[p]) :
            windows[i].first <= d /\ d <= e /\ Key(d, p) = windows[i].group}

\* Of that, what the length of the window, back from the call of the event, leaves: what has
\* a timestamp within it, and what came behind one that has.
InLength(i, e) ==
    {d \in Since(i, e) : \E c \in Since(i, e) :
        c <= d /\ events[c].timestamp >= events[e].at - PatternOf[windows[i].pattern].window}

\* A sliding window that matches has missed no event of its group and of its length, by the
\* timestamps, that the pattern has taken up since the window was opened, and what else it
\* has counted came behind one of these, as long as the pattern takes them up in order: with
\* timestamps in order too it has counted exactly what is within its length.
SlidingExact ==
    \A n \in DOMAIN counted :
        LET rep == counted[n]
        IN  rep.by # 0 /\ changes = 0 /\ InOrder(pushes[windows[rep.window].pattern]) =>
            Elements(rep.events) = InLength(rep.window, rep.by)

\* What the windows hold, and what a match has counted, is what the pattern has taken up.
WindowsExact == OneWindowEach /\ SlidingExact

\* byGroup is documented as the instance of a group: there is one open window each.
OneOpenWindow ==
    \A p \in Pattern, g \in Group \cup {NoGroup} :
        Cardinality({i \in Ids : /\ windows[i].active /\ windows[i].pattern = p
                                 /\ windows[i].group = g}) <= 1

\* isInWindow: a window has its start and not its end.
InWindow ==
    \A i \in Ids : \A e \in Elements(windows[i].events) :
        ~PatternOf[windows[i].pattern].sliding =>
            windows[i].start <= events[e].at /\ events[e].at < windows[i].end

\* "Count in the last N": no event is counted that is older than the window.
NothingOldCounted ==
    \A n \in DOMAIN counted :
        LET rep == counted[n]
        IN  rep.by # 0 => \A e \in Elements(rep.events) : events[e].timestamp >=
                events[rep.by].at - PatternOf[windows[rep.window].pattern].window
=============================================================================
