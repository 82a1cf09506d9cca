----------------------------- MODULE SseStreams -----------------------------
(***************************************************************************)
(* The three managers of server-sent events, of events, audit entries and  *)
(* trace entries: clients with filters, a broadcast that writes to each of *)
(* them in one turn, heartbeats, and connections that end in four ways: by *)
(* the client, by a write that throws, by whoever ends the response and by *)
(* stop().  A behaviour has one manager.                                   *)
(***************************************************************************)
EXTENDS Integers, Sequences, FiniteSets

CONSTANTS
    Covers,         \* pattern -> the topics it matches
    EventFilters,   \* sets of patterns that clients ask for
    EntryFilters,   \* filters of the other two: field -> the values asked for, {} for any
    Topics,         \* what is broadcast: topics,
    Entries,        \* and entries, of which a field may be NoField
    NoField,
    MaxConnections, \* bound on connections
    MaxItems        \* bound on what is broadcast

VARIABLES
    manager,     \* "events", "audit" or "debug"
    connections, \* clients by connection id, those that are gone with them
    heartbeat,   \* whether heartbeatTimer is set
    listening,   \* whether the manager is told of items
    broadcasts,  \* history: every item
    totalSent, totalFiltered

sseVars == <<manager, connections, heartbeat, listening, broadcasts, totalSent, totalFiltered>>

SseInit ==
    /\ manager \in {"events", "audit", "debug"}
    /\ connections = <<>> /\ heartbeat = FALSE /\ listening = FALSE
    /\ broadcasts = <<>> /\ totalSent = 0 /\ totalFiltered = 0

Item == IF manager = "events" THEN Topics ELSE Entries
Filters == IF manager = "events" THEN EventFilters ELSE EntryFilters
Listed == {c \in DOMAIN connections : connections[c].listed}

\* SSEManager.matchesAnyPattern; a client that names no pattern has '*'.
MatchesAnyPattern(topic, patterns) ==
    \E p \in (IF patterns = {} THEN {"*"} ELSE patterns) : topic \in Covers[p]

Asks(values, value) == values = {} \/ (value # NoField /\ value \in values)

\* AuditSSEManager.matchesFilter
MatchesAuditFilter(entry, filter) ==
    /\ Asks(filter.categories, entry.category) /\ Asks(filter.types, entry.type)
    /\ Asks(filter.ruleIds, entry.ruleId) /\ Asks(filter.sources, entry.source)

\* DebugSSEManager.matchesFilter; an entry without a duration has none that is long enough.
MatchesDebugFilter(entry, filter) ==
    /\ Asks(filter.types, entry.type) /\ Asks(filter.ruleIds, entry.ruleId)
    /\ Asks(filter.correlationIds, entry.correlationId)
    /\ filter.minDurationMs # NoField =>
          entry.durationMs # NoField /\ entry.durationMs >= filter.minDurationMs

Matches(item, c) ==
    CASE manager = "events" -> MatchesAnyPattern(item, connections[c].filter)
      [] manager = "audit"  -> MatchesAuditFilter(item, connections[c].filter)
      [] manager = "debug"  -> MatchesDebugFilter(item, connections[c].filter)

\* A connection that is no client any more, from the item `n` on.
Gone(connection, n) == [connection EXCEPT !.listed = FALSE, !.until = n]

\* closeConnection: ends a response that nobody ended.
Closed(connection, n) == [Gone(connection, n) EXCEPT !.ended = TRUE]

\* sendData and sendComment to the clients `to`, of which writing to `throws` throws:
\* a client whose response has ended, or that throws, is dropped.
Written(to, throws, items, n) ==
    [c \in DOMAIN connections |->
        IF c \notin to THEN connections[c]
        ELSE IF c \in throws \/ connections[c].ended THEN Gone(connections[c], n)
        ELSE [connections[c] EXCEPT !.sent = @ \o items]]

Reached(to, throws) == {c \in to : c \notin throws /\ ~connections[c].ended}

\* Mutant of Broadcast: the client that throws ends the loop over the clients.
BroadcastUpToFailure(item, throws) ==
    LET n == Len(broadcasts)
        all == {c \in Listed : Matches(item, c)}
        to == {c \in all : \A d \in all \cap throws : c <= d}
    IN  /\ listening /\ n < MaxItems
        /\ broadcasts' = Append(broadcasts, item)
        /\ connections' = Written(to, throws, <<item>>, n)
        /\ totalSent' = totalSent + Cardinality(Reached(to, throws))
        /\ totalFiltered' = IF manager = "events" THEN 0
                            ELSE totalFiltered + Cardinality(Listed \ all)
        /\ UNCHANGED <<manager, heartbeat, listening>>

\* broadcast(), of which only the managers of entries count what they pass over.
Broadcast(item, throws) ==
    LET n == Len(broadcasts)
        to == {c \in Listed : Matches(item, c)}
    IN  /\ listening /\ n < MaxItems
        /\ broadcasts' = Append(broadcasts, item)
        /\ connections' = Written(to, throws, <<item>>, n)
        /\ totalSent' = totalSent + Cardinality(Reached(to, throws))
        /\ totalFiltered' = IF manager = "events" THEN 0
                            ELSE totalFiltered + Cardinality(Listed \ to)
        /\ UNCHANGED <<manager, heartbeat, listening>>

\* sendHeartbeat(): a client that cannot be written to is dropped.
SendHeartbeat(throws) ==
    /\ heartbeat
    /\ connections' = Written(Listed, throws, <<>>, Len(broadcasts))
    /\ UNCHANGED <<manager, heartbeat, listening, broadcasts, totalSent, totalFiltered>>

\* SSEManager.start() and, once, RuleEngineServer's subscription to '*'.
StartEvents ==
    /\ manager = "events"
    /\ heartbeat' = TRUE /\ listening' = TRUE
    /\ UNCHANGED <<manager, connections, broadcasts, totalSent, totalFiltered>>

\* SSEManager.stop(): the server stays subscribed.
StopEvents ==
    /\ manager = "events"
    /\ heartbeat' = FALSE
    /\ connections' = [c \in DOMAIN connections |->
                          IF c \in Listed THEN Closed(connections[c], Len(broadcasts))
                          ELSE connections[c]]
    /\ UNCHANGED <<manager, listening, broadcasts, totalSent, totalFiltered>>

\* AuditSSEManager.start(auditLog): nothing when it is running.
StartAudit ==
    /\ manager = "audit" /\ ~heartbeat
    /\ heartbeat' = TRUE /\ listening' = TRUE
    /\ UNCHANGED <<manager, connections, broadcasts, totalSent, totalFiltered>>

\* AuditSSEManager.stop()
StopAuditStream ==
    /\ manager = "audit"
    /\ heartbeat' = FALSE /\ listening' = FALSE
    /\ connections' = [c \in DOMAIN connections |->
                          IF c \in Listed THEN Closed(connections[c], Len(broadcasts))
                          ELSE connections[c]]
    /\ UNCHANGED <<manager, broadcasts, totalSent, totalFiltered>>

\* DebugSSEManager.start(traceCollector)
StartDebug ==
    /\ manager = "debug" /\ ~heartbeat
    /\ heartbeat' = TRUE /\ listening' = TRUE
    /\ UNCHANGED <<manager, connections, broadcasts, totalSent, totalFiltered>>

\* DebugSSEManager.stop()
StopDebug ==
    /\ manager = "debug"
    /\ heartbeat' = FALSE /\ listening' = FALSE
    /\ connections' = [c \in DOMAIN connections |->
                          IF c \in Listed THEN Closed(connections[c], Len(broadcasts))
                          ELSE connections[c]]
    /\ UNCHANGED <<manager, broadcasts, totalSent, totalFiltered>>

\* addConnection(): it is a client before the first comment is written, and none after
\* one that throws.  It is there whether the manager has been started or stopped.
AddConnection(filter, throws) ==
    LET n == Len(broadcasts)
        new == [filter |-> filter, listed |-> TRUE, ended |-> FALSE, since |-> n, until |-> 0,
                sent |-> <<>>]
    IN  /\ Len(connections) < MaxConnections
        /\ connections' = Append(connections, IF throws THEN Gone(new, n) ELSE new)
        /\ UNCHANGED <<manager, heartbeat, listening, broadcasts, totalSent, totalFiltered>>

\* The 'close' event of the response: removeConnection(id), whatever is left of it.
CloseEvent(c) ==
    /\ connections' = [connections EXCEPT ![c] =
                          IF c \in Listed THEN Closed(@, Len(broadcasts)) ELSE @]
    /\ UNCHANGED <<manager, heartbeat, listening, broadcasts, totalSent, totalFiltered>>

\* Someone else ends the response: the manager will find it out.
ResponseEnds(c) ==
    /\ connections' = [connections EXCEPT ![c].ended = TRUE]
    /\ UNCHANGED <<manager, heartbeat, listening, broadcasts, totalSent, totalFiltered>>

SseNext ==
    \/ \E item \in Item, throws \in SUBSET Listed : Broadcast(item, throws)
    \/ \E throws \in SUBSET Listed : SendHeartbeat(throws)
    \/ StartEvents \/ StopEvents
    \/ StartAudit \/ StopAuditStream
    \/ StartDebug \/ StopDebug
    \/ \E filter \in Filters, throws \in BOOLEAN : AddConnection(filter, throws)
    \/ \E c \in DOMAIN connections : CloseEvent(c) \/ ResponseEnds(c)

SseSpec == SseInit /\ [][SseNext]_sseVars

-----------------------------------------------------------------------------
(* Properties *)

\* What a client is to be sent of the items up to the last.
Due(c, last) ==
    LET due[n \in connections[c].since..last] ==
            IF n = connections[c].since THEN <<>>
            ELSE IF Matches(broadcasts[n], c) THEN Append(due[n - 1], broadcasts[n])
            ELSE due[n - 1]
    IN  due[last]

\* Each client was sent what was broadcast while it was one and its filter accepts, in
\* that order and once, whatever became of the other clients.
SentInOrder ==
    \A c \in DOMAIN connections :
        connections[c].sent =
            Due(c, IF c \in Listed THEN Len(broadcasts) ELSE connections[c].until)

\* totalEventsSent and totalEntriesSent count what was written to clients.
SentTotals ==
    LET upTo[n \in 0..Len(connections)] ==
            IF n = 0 THEN 0 ELSE upTo[n - 1] + Len(connections[n].sent)
    IN  totalSent = upTo[Len(connections)]

SentExactly == SentInOrder /\ SentTotals
=============================================================================
