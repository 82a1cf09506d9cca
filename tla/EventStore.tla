----------------------------- MODULE EventStore -----------------------------
(***************************************************************************)
(* EventStore: events by id, with indexes by topic and by correlation that *)
(* only grow, and two ways of pruning, which leave the indexes alone.      *)
(***************************************************************************)
EXTENDS Integers, Sequences, FiniteSets, SequencesExt

CONSTANTS
    Event,          \* what can be stored: [topic, correlationId]
    NoCorrelation,
    TopicCovers,    \* pattern -> the topics its regular expression matches
    MaxEvents,      \* maxEvents
    MaxStored,      \* bound on the events stored
    MaxEventTime    \* bound on the clock

VARIABLES
    eventLog,       \* history: every event, at its id, with its time
    live,           \* events: the ids there are
    byTopic,        \* topic -> ids in the order they came
    byCorrelation,  \* correlation -> ids in the order they came
    eventClock

eventVars == <<eventLog, live, byTopic, byCorrelation, eventClock>>

EventTopics == {e.topic : e \in Event}
Correlations == {e.correlationId : e \in Event} \ {NoCorrelation}

EventInit ==
    /\ eventLog = <<>> /\ live = {} /\ eventClock = 0
    /\ byTopic = [t \in EventTopics |-> <<>>] /\ byCorrelation = [c \in Correlations |-> <<>>]

\* pruneOldest: by time, and those of one time in the order they came, which is the order
\* of the ids.
Oldest(ids, n) == {x \in ids : Cardinality({y \in ids : y < x}) < n}

\* What is left when the limit is passed: a tenth of it goes, rounded down.
Kept(ids) ==
    IF Cardinality(ids) > MaxEvents THEN ids \ Oldest(ids, MaxEvents \div 10) ELSE ids

Store(event) ==
    LET id == Len(eventLog) + 1
    IN  /\ id <= MaxStored
        /\ eventLog' = Append(eventLog, [topic |-> event.topic, timestamp |-> eventClock,
                                         correlationId |-> event.correlationId])
        /\ live' = Kept(live \cup {id})
        /\ byTopic' = [byTopic EXCEPT ![event.topic] = Append(@, id)]
        /\ byCorrelation' = [c \in Correlations |->
               IF c = event.correlationId THEN Append(byCorrelation[c], id) ELSE byCorrelation[c]]
        /\ UNCHANGED eventClock

\* prune(): the indexes keep the ids.
Prune(maxAge) ==
    /\ live' = {id \in live : eventLog[id].timestamp >= eventClock - maxAge}
    /\ UNCHANGED <<eventLog, byTopic, byCorrelation, eventClock>>

ClearEvents ==
    /\ live' = {}
    /\ byTopic' = [t \in EventTopics |-> <<>>] /\ byCorrelation' = [c \in Correlations |-> <<>>]
    /\ UNCHANGED <<eventLog, eventClock>>

EventTick ==
    /\ eventClock < MaxEventTime
    /\ eventClock' = eventClock + 1
    /\ UNCHANGED <<eventLog, live, byTopic, byCorrelation>>

EventNext ==
    \/ \E event \in Event : Store(event)
    \/ \E maxAge \in 0..MaxEventTime : Prune(maxAge)
    \/ ClearEvents
    \/ EventTick

EventSpec == EventInit /\ [][EventNext]_eventVars

-----------------------------------------------------------------------------
(* Queries *)

Live(ids) == SelectSeq(ids, LAMBDA id : id \in live)

GetByTopic(topic) == Live(byTopic[topic])
GetByCorrelation(correlation) == Live(byCorrelation[correlation])

GetInTimeRange(topic, from, to) ==
    SelectSeq(GetByTopic(topic),
              LAMBDA id : from <= eventLog[id].timestamp /\ eventLog[id].timestamp <= to)

CountInWindow(topic, window) == Len(GetInTimeRange(topic, eventClock - window, eventClock))

\* A sort that keeps the order of the events of one time.
ByTime(ids) ==
    FlattenSeq([t \in 1..eventClock + 1 |-> SelectSeq(ids, LAMBDA id : eventLog[id].timestamp = t - 1)])

\* getByTopicPattern: topic after topic, in the order in which they were first stored.
GetByTopicPattern(pattern) ==
    LET topics == {t \in EventTopics \cap TopicCovers[pattern] : byTopic[t] # <<>>}
        inOrder == SetToSortSeq(topics, LAMBDA t, u : Head(byTopic[t]) < Head(byTopic[u]))
    IN  ByTime(FlattenSeq([i \in DOMAIN inOrder |-> GetByTopic(inOrder[i])]))

GetAllEvents == Live([id \in DOMAIN eventLog |-> id])

-----------------------------------------------------------------------------
(* Properties *)

Scan(Test(_)) == {id \in live : Test(eventLog[id])}

\* Every query finds the events that a scan finds, and each once, although the indexes
\* still have those that are pruned; a limit of at least 10 is kept, and what it costs are
\* the oldest.
EventQueriesExact ==
    /\ \A t \in EventTopics :
          /\ ToSet(GetByTopic(t)) = Scan(LAMBDA e : e.topic = t)
          /\ Len(GetByTopic(t)) = Cardinality(ToSet(GetByTopic(t)))
          /\ \A w \in 0..MaxEventTime :
                CountInWindow(t, w) =
                    Cardinality(Scan(LAMBDA e : e.topic = t /\ e.timestamp >= eventClock - w))
    /\ \A c \in Correlations : ToSet(GetByCorrelation(c)) = Scan(LAMBDA e : e.correlationId = c)
    /\ \A pattern \in DOMAIN TopicCovers :
          ToSet(GetByTopicPattern(pattern)) = Scan(LAMBDA e : e.topic \in TopicCovers[pattern])

LimitKeepsNewest ==
    /\ MaxEvents >= 10 => Cardinality(live) <= MaxEvents
    /\ \A x \in live : x..Len(eventLog) \subseteq live

EventsExact == EventQueriesExact /\ LimitKeepsNewest
=============================================================================
