------------------------------ MODULE History ------------------------------
(***************************************************************************)
(* HistoryService: what it reads from the event store and the traces, with *)
(* the causes of events.  A cause is the event that a caller named, which  *)
(* may be pruned by now, or of another correlation, or a timer.            *)
(***************************************************************************)
EXTENDS EventStore

CONSTANTS
    Elsewhere,      \* the id of what is no event: a timer, an entry of a trace
    MaxTraceLog     \* maxEntries of the trace collector

VARIABLES
    causedBy,       \* history: the causationId of each event, if any
    traceLog        \* the traces there are

historyVars == <<eventLog, live, byTopic, byCorrelation, eventClock, causedBy, traceLog>>

Causes == (DOMAIN eventLog) \cup {NoCorrelation, Elsewhere}

HistoryInit == EventInit /\ causedBy = <<>> /\ traceLog = <<>>

Traced(entry) ==
    LET all == Append(traceLog, entry)
    IN  SubSeq(all, 1 + (IF Len(all) > MaxTraceLog THEN 1 ELSE 0), Len(all))

\* handleInternalEvent: an event is stored, and traced with its cause.
Happens(event, cause) ==
    /\ Store(event)
    /\ causedBy' = Append(causedBy, cause)
    /\ traceLog' = Traced([type |-> "event_emitted", event |-> Len(eventLog) + 1, cause |-> cause,
                           timestamp |-> eventClock, correlationId |-> event.correlationId])

\* A rule's execution is traced, with its first entry as the cause.
RuleTraced(correlation) ==
    /\ Len(traceLog) < MaxTraceLog
    /\ traceLog' = Traced([type |-> "rule_executed", event |-> Elsewhere, cause |-> Elsewhere,
                           timestamp |-> eventClock, correlationId |-> correlation])
    /\ UNCHANGED <<eventVars, causedBy>>

HistoryNext ==
    \/ \E event \in Event, cause \in Causes : Happens(event, cause)
    \/ \E correlation \in Correlations : RuleTraced(correlation)
    \/ (Prune(0) \/ ClearEvents \/ EventTick) /\ UNCHANGED <<causedBy, traceLog>>

HistorySpec == HistoryInit /\ [][HistoryNext]_historyVars

-----------------------------------------------------------------------------
(* Queries *)

\* Whether a query's topic, if there is one, covers that of an event.
Named(q, id) ==
    LET t == eventLog[id].topic
    IN  IF q.topic \in DOMAIN TopicCovers THEN t \in TopicCovers[q.topic] ELSE q.topic \in {t, NoCorrelation}

\* The index that answers: that of the correlation, of the topics that a pattern covers, or
\* of the topic, or none.  A bound of time that is not given is 0 or now.
Found(q) ==
    CASE q.correlationId # NoCorrelation ->
            SelectSeq(GetByCorrelation(q.correlationId), LAMBDA id : Named(q, id))
      [] q.correlationId = NoCorrelation /\ q.topic \in DOMAIN TopicCovers -> GetByTopicPattern(q.topic)
      [] q.correlationId = NoCorrelation /\ q.topic \in EventTopics -> GetInTimeRange(q.topic, q.from, q.to)
      [] OTHER -> GetAllEvents

\* HistoryService.query without context
HistoryQuery(q) ==
    LET inTime == ByTime(SelectSeq(Found(q), LAMBDA id : /\ q.from <= eventLog[id].timestamp
                                                         /\ eventLog[id].timestamp <= q.to))
    IN  SubSeq(inTime, 1 + (IF Len(inTime) > q.limit THEN Len(inTime) - q.limit ELSE 0), Len(inTime))

\* getCausationChain, which ends at what is no event that there is.
GetCausationChain(id) ==
    LET chain[x \in live] == IF causedBy[x] \in live THEN Append(chain[causedBy[x]], x) ELSE <<x>>
    IN  chain[id]

\* calculateEventDepths, within the events of a correlation.
EventDepth(events) ==
    LET depth[x \in ToSet(events)] ==
            IF causedBy[x] \in ToSet(events) THEN depth[causedBy[x]] + 1 ELSE 0
    IN  depth

\* getCorrelationTimeline: events, then traces, sorted by time without changing their order.
Timeline(correlation) ==
    LET events == GetByCorrelation(correlation)
        depth == EventDepth(events)
        traces == SelectSeq(traceLog, LAMBDA t : t.correlationId = correlation)
        OfEvent(x) == [type |-> "event", entry |-> x, timestamp |-> eventLog[x].timestamp,
                       depth |-> depth[x], parent |-> causedBy[x]]
        OfTrace(t) == [type |-> "trace", entry |-> t.event, timestamp |-> t.timestamp, parent |-> t.cause,
                       depth |-> IF t.cause \in ToSet(events) THEN depth[t.cause] + 1 ELSE 0]
        all == [i \in DOMAIN events |-> OfEvent(events[i])] \o [i \in DOMAIN traces |-> OfTrace(traces[i])]
    IN  FlattenSeq([t \in 1..eventClock + 1 |-> SelectSeq(all, LAMBDA e : e.timestamp = t - 1)])

\* enrichWithContext
CausedEvents(id) ==
    IF eventLog[id].correlationId = NoCorrelation THEN <<>>
    ELSE SelectSeq(GetByCorrelation(eventLog[id].correlationId), LAMBDA x : causedBy[x] = id)

RelevantTraces(id) ==
    IF eventLog[id].correlationId = NoCorrelation THEN <<>>
    ELSE SelectSeq(traceLog, LAMBDA t : /\ t.correlationId = eventLog[id].correlationId
                                        /\ id \in {t.cause, t.event})

-----------------------------------------------------------------------------
(* Properties *)

HistoryQueries ==
    {q \in [ correlationId : Correlations \cup {NoCorrelation},
             topic : EventTopics \cup DOMAIN TopicCovers \cup {NoCorrelation},
             from : {0, eventClock}, to : {0, eventClock}, limit : {1, MaxEvents} ] : q.from <= q.to}

\* Whichever index answers it, a query of the history has the events that a scan finds,
\* each once and in order of time, and a limit leaves out none that is later.
HistoryExact ==
    \A q \in HistoryQueries :
        LET found == HistoryQuery(q)
            scan == Scan(LAMBDA e :
                        /\ q.correlationId \in {e.correlationId, NoCorrelation}
                        /\ \/ q.topic \in {e.topic, NoCorrelation}
                           \/ q.topic \in DOMAIN TopicCovers /\ e.topic \in TopicCovers[q.topic]
                        /\ q.from <= e.timestamp /\ e.timestamp <= q.to)
        IN  /\ ToSet(found) \subseteq scan
            /\ IsInjective(found)
            /\ Len(found) = IF q.limit < Cardinality(scan) THEN q.limit ELSE Cardinality(scan)
            /\ \A i, j \in DOMAIN found :
                  i < j => eventLog[found[i]].timestamp <= eventLog[found[j]].timestamp
            /\ \A id \in scan \ ToSet(found), i \in DOMAIN found :
                  eventLog[id].timestamp <= eventLog[found[i]].timestamp

\* The chain of an event ends with it, has the cause of each before it, and begins where
\* the cause is gone; and what an event caused has it in its chain.
ChainsExact ==
    \A id \in live :
        LET chain == GetCausationChain(id)
        IN  /\ Last(chain) = id
            /\ \A i \in 2..Len(chain) : causedBy[chain[i]] = chain[i - 1]
            /\ causedBy[chain[1]] \notin live
            /\ \A x \in ToSet(CausedEvents(id)) : IsPrefix(chain, GetCausationChain(x))

\* A timeline has the events of its correlation and its traces, each once, in order of
\* time; the cause of an event stands before it and one level above; and an event stands
\* on one level with its trace, also when causes are pruned.
TimelineExact ==
    \A c \in Correlations :
        LET line == Timeline(c)
            of(type) == {i \in DOMAIN line : line[i].type = type}
        IN  /\ Cardinality(of("event")) = Cardinality(Scan(LAMBDA e : e.correlationId = c))
            /\ {line[i].entry : i \in of("event")} = Scan(LAMBDA e : e.correlationId = c)
            /\ Cardinality(of("trace")) = Cardinality({k \in DOMAIN traceLog : traceLog[k].correlationId = c})
            /\ \A i, j \in DOMAIN line :
                  /\ i < j => line[i].timestamp <= line[j].timestamp
                  /\ line[i].type = "event" /\ line[j].parent = line[i].entry =>
                        line[j].depth = line[i].depth + 1 /\ (line[j].type = "event" => i < j)
                  /\ line[i].entry = line[j].entry /\ line[i].entry # Elsewhere =>
                        line[i].depth = line[j].depth

\* The rules that an event triggered are found with it: they are not, as no entry of a
\* rule has the event as its cause.
TriggeredRulesFound ==
    \A id \in live : traceLog # <<>> /\ Last(traceLog).type = "rule_executed" =>
        \E i \in DOMAIN RelevantTraces(id) : RelevantTraces(id)[i].type = "rule_executed"

TimelinesSound == HistoryExact /\ ChainsExact /\ TimelineExact
=============================================================================
