------------------------------- MODULE Services -------------------------------
(***************************************************************************)
(* The services around the engine: the audit log with storage and without, *)
(* server-sent events, subscriptions, webhooks, the event store, lookups,  *)
(* the facts and the baselines over them.  They share no state, so that a  *)
(* behaviour has the steps of the one that `focus` names, which can be     *)
(* another than these, and the others stay as they begin.                  *)
(***************************************************************************)
EXTENDS Baselines

CONSTANTS
    None,
    OfPattern,                   \* pattern -> the topics it matches
    StoredKinds, RecordedKinds,  \* kinds of entries of the audit log with storage, without
    MaxMemory, BatchSize, Hour, Retention, MaxStoredIds, MaxRecordedIds, MaxFlushes, MaxAuditTime,
    EventFilters, EntryFilters, Topics, Entries, MaxConnections, MaxItems,
    SubPatterns, SubTopics, MaxSubscriptions, MaxSets, MaxEmits,
    HookPatterns, HookTopics, HookCovers, MaxRetries, RetryBaseDelay, RequestTimeout,
    MaxHooks, MaxHookEvents, MaxHookTime,
    EventKinds, LimitKinds,      \* kinds of events: several, and those up to the limit
    MaxEvents, MaxStoredKinds, MaxStoredLimit, MaxEventTime,
    Lookup, LookupOf, RuleLookups, MaxResolutions, MaxCalls, MaxLookupTime

\* Every entry of the audit log has a type; times and limits are numbers, a webhook tries an
\* event once at least, and what a rule or a subscription asks for is finite.
ASSUME AuditTyped == \A kind \in RecordedKinds : kind.type # None
ASSUME SubsTyped == \A patterns \in SubPatterns : IsFiniteSet(patterns)
ASSUME HooksTyped ==
    MaxRetries \in Nat \ {0} /\ RetryBaseDelay \in Nat /\ RequestTimeout \in Nat
ASSUME LimitTyped == MaxEvents \in Nat
ASSUME LookupsTyped ==
    /\ IsFiniteSet(Lookup) /\ \A l \in Lookup : LookupOf[l].ttl \in Nat
    /\ RuleLookups \subseteq Seq(Lookup)

VARIABLES
    focus,
    log, memory, index, pending, flushTimer, flushes, stored, cleaning, gone, overwritten,
    auditClock,
    manager, connections, heartbeat, listening, broadcasts, totalSent, totalFiltered,
    handlerSets, patternSet, subs, emitted,
    hooks, deliveries, hookEvents, totals, hookClock,
    eventLog, live, byTopic, byCorrelation, eventClock,
    cache, hits, misses, gets, resolutions, calls, lookupClock

Stored == INSTANCE AuditLog WITH
              Kind <- StoredKinds, Adapter <- TRUE, MaxEntries <- MaxStoredIds
InMemory == INSTANCE AuditLog WITH
                Kind <- RecordedKinds, Adapter <- FALSE, MaxEntries <- MaxRecordedIds

Sse == INSTANCE SseStreams WITH Covers <- OfPattern, NoField <- None

\* A caller unsubscribes once: what a second time does is a finding.
Subs == INSTANCE Subscriptions WITH SubCovers <- OfPattern, MaxUnsubscribes <- 1

Hooks == INSTANCE Webhooks

\* Several kinds of events, and those that go up to the limit.
Kinds == INSTANCE EventStore WITH
             Event <- EventKinds, NoCorrelation <- None, TopicCovers <- OfPattern,
             MaxStored <- MaxStoredKinds
Limit == INSTANCE EventStore WITH
             Event <- LimitKinds, NoCorrelation <- None, TopicCovers <- OfPattern,
             MaxStored <- MaxStoredLimit

Look == INSTANCE Lookups WITH Undefined <- None

-----------------------------------------------------------------------------
auditVars == <<log, memory, index, pending, flushTimer, flushes, stored, cleaning, gone,
               overwritten, auditClock>>
sseVars == <<manager, connections, heartbeat, listening, broadcasts, totalSent, totalFiltered>>
subVars == <<handlerSets, patternSet, subs, emitted>>
hookVars == <<hooks, deliveries, hookEvents, totals, hookClock>>
eventVars == <<eventLog, live, byTopic, byCorrelation, eventClock>>
lookupVars == <<cache, hits, misses, gets, resolutions, calls, lookupClock>>

servicesVars == <<focus, baselineVars, auditVars, sseVars, subVars, hookVars, eventVars, lookupVars>>

Services == {"stored audit log", "audit log in memory", "streams", "subscriptions", "webhooks",
             "kinds of events", "limit of events", "lookups", "facts", "baselines"}

ServicesInit ==
    /\ IF focus = "audit log in memory" THEN InMemory!AuditInit ELSE Stored!AuditInit
    /\ Sse!SseInit /\ (focus = "streams" \/ manager = "events")
    /\ Subs!SubInit /\ Hooks!HookInit /\ Look!LookupInit
    /\ IF focus = "limit of events" THEN Limit!EventInit ELSE Kinds!EventInit
    /\ BaselineInit /\ (focus = "baselines" \/ groups = {})

ServicesNext ==
    /\ UNCHANGED focus
    /\ CASE focus = "stored audit log" -> Stored!AuditNext
         [] focus = "audit log in memory" -> InMemory!AuditNext
         [] OTHER -> UNCHANGED auditVars
    /\ IF focus = "streams" THEN Sse!SseNext ELSE UNCHANGED sseVars
    /\ IF focus = "subscriptions" THEN Subs!SubNext ELSE UNCHANGED subVars
    /\ IF focus = "webhooks" THEN Hooks!HookNext ELSE UNCHANGED hookVars
    /\ CASE focus = "kinds of events" -> Kinds!EventNext
         [] focus = "limit of events" -> Limit!EventNext
         [] OTHER -> UNCHANGED eventVars
    /\ IF focus = "lookups" THEN Look!LookupNext ELSE UNCHANGED lookupVars
    /\ CASE focus = "facts" ->
                StoreNext /\ UNCHANGED <<metrics, baselines, intervals, groups, loops,
                                         recalculated, registrations>>
         [] focus = "baselines" -> BaselineNext
         [] OTHER -> UNCHANGED baselineVars

ServicesSpec == ServicesInit /\ [][ServicesNext]_servicesVars

-----------------------------------------------------------------------------
(* Properties *)

\* An audit entry is in one place, whichever flushes and cleanups overlap, and the events
\* that are kept are the newest ones, up to the limit.
EntriesKept ==
    /\ focus = "stored audit log" => Stored!InOnePlace
    /\ focus = "kinds of events" => Kinds!LimitKeepsNewest
    /\ focus = "limit of events" => Limit!LimitKeepsNewest

\* A query of the audit log or of the facts finds what a scan of the entries finds, after
\* any additions, evictions and removals.
QueriesExact ==
    /\ focus = "audit log in memory" => InMemory!QueryExact
    /\ focus = "facts" => FactQueryExact

\* A stream's client got exactly the items that its filter let pass while it was
\* there, and subscribers get every event that they asked for and do not sleep on a
\* full queue, whichever of the others leave or fail meanwhile; a webhook gets an event
\* once, with a bounded number of attempts.
ListenersServed ==
    /\ focus = "streams" => Sse!SentExactly
    /\ focus = "subscriptions" => Subs!SubscribersServed
    /\ focus = "webhooks" => Hooks!DeliveriesExact

\* What conditions read is not stale: the values that a resolution gets from the
\* cache are within the age they are kept for, and statistics belong to a registered
\* metric and to the facts, also when a recalculation overlaps the removal.
ReadsCurrent ==
    /\ focus = "lookups" => Look!CachedIsFresh
    /\ BaselinesBacked
=============================================================================
