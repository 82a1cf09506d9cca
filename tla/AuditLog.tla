------------------------------ MODULE AuditLog ------------------------------
(***************************************************************************)
(* AuditLogService: a bounded buffer of entries with an index by each of   *)
(* their fields, and their way in batches into the hourly buckets of a     *)
(* storage adapter.  flush() awaits a load and a save for each bucket, and *)
(* nothing keeps the flushes of the interval, of a full batch and of       *)
(* stop() apart.  Ids are given in order, so that a set of them stands for *)
(* a list, and the id of an entry tells its bucket.                        *)
(***************************************************************************)
EXTENDS Integers, Sequences, FiniteSets

CONSTANTS
    Kind,        \* what an entry says: [type, category, source, ruleId, correlationId]
    None,        \* the ruleId or correlationId of an entry without; a filter not given
    Adapter,     \* whether there is a storage adapter
    MaxMemory,   \* maxMemoryEntries
    BatchSize,
    Hour,        \* BUCKET_DURATION_MS
    Retention,   \* retentionMs
    MaxEntries,  \* bound on the entries recorded
    MaxFlushes,  \* bound on the flushes under way together
    MaxAuditTime \* bound on the clock

VARIABLES
    log,         \* history: every entry recorded, at its id, with its time
    memory,      \* entries and entriesById: the ids in memory
    index,       \* byCategory, byType, byRule, bySource, byCorrelation: <<field, value, id>>
    pending,     \* pendingEntries
    flushTimer,  \* whether the flush interval is set
    flushes,     \* flushes under way: what they have to save, what they loaded
    stored,      \* the ids in the buckets of the storage
    cleaning,    \* the cleanup that deletes buckets: its cutoff, the keys it got
    gone,        \* history: ids whose flush failed or whose bucket was deleted
    overwritten, \* history: ids that the save of another flush removed
    auditClock

auditVars == <<log, memory, index, pending, flushTimer, flushes, stored, cleaning, gone,
               overwritten, auditClock>>

Ids == DOMAIN log
Bucket(id) == log[id].timestamp \div Hour
InBucket(ids, b) == {id \in ids : Bucket(id) = b}

First(ids) == CHOOSE x \in ids : \A y \in ids : x <= y
Oldest(ids, n) == {x \in ids : Cardinality({y \in ids : y < x}) < n}

AuditInit ==
    /\ log = <<>> /\ memory = {} /\ index = {} /\ pending = {}
    /\ flushTimer = Adapter /\ flushes = {} /\ stored = {} /\ cleaning = {}
    /\ gone = {} /\ overwritten = {} /\ auditClock = 0

-----------------------------------------------------------------------------
(* The buffer and its indexes *)

Fields == {"type", "category", "source", "ruleId", "correlationId"}

\* indexEntry: no entry for a rule or a correlation that there is not.
Triples(id, kind) == {t \in {<<f, kind[f], id>> : f \in Fields} : t[2] # None}

\* unindexEntry for several entries
Unindexed(ids) == {t \in index : t[3] \notin ids}

\* evictOldest: a tenth of the limit, rounded up.
Evicted == IF Cardinality(memory) < MaxMemory THEN {}
           ELSE Oldest(memory, IF MaxMemory < 10 THEN 1 ELSE (MaxMemory + 9) \div 10)

AddEntry(id, kind) ==
    /\ memory' = (memory \ Evicted) \cup {id}
    /\ index' = Unindexed(Evicted) \cup Triples(id, kind)

-----------------------------------------------------------------------------
(* Queries: a filter gives None for a field that does not matter, the set  *)
(* {} for any type, and a span of time.                                    *)

\* resolveEntries
Resolved(field, value) == {t[3] : t \in {u \in index : u[1] = field /\ u[2] = value}} \cap memory

OneType(q) == Cardinality(q.types) = 1

UsedIndex(q) ==
    CASE q.correlationId # None -> "correlationId"
      [] q.correlationId = None /\ q.ruleId # None -> "ruleId"
      [] q.correlationId = None /\ q.ruleId = None /\ q.source # None -> "source"
      [] OTHER -> IF OneType(q) THEN "type" ELSE IF q.category # None THEN "category" ELSE "none"

SelectCandidates(q) ==
    CASE UsedIndex(q) = "none" -> memory
      [] UsedIndex(q) = "type" -> UNION {Resolved("type", t) : t \in q.types}
      [] OTHER -> Resolved(UsedIndex(q), q[UsedIndex(q)])

\* Mutant of ApplyRemainingFilters: a single type is left to its index, also when
\* another index was used.
RemainingLeavesType(q, ids) ==
    {id \in ids :
        /\ \A f \in Fields \ {"type", UsedIndex(q)} : q[f] # None => log[id][f] = q[f]
        /\ q.types # {} /\ ~OneType(q) => log[id].type \in q.types
        /\ q.from <= log[id].timestamp /\ log[id].timestamp <= q.to}

ApplyRemainingFilters(q, ids) ==
    {id \in ids :
        /\ \A f \in Fields \ {"type", UsedIndex(q)} : q[f] # None => log[id][f] = q[f]
        /\ q.types # {} /\ UsedIndex(q) # "type" => log[id].type \in q.types
        /\ q.from <= log[id].timestamp /\ log[id].timestamp <= q.to}

Query(q) == ApplyRemainingFilters(q, SelectCandidates(q))

-----------------------------------------------------------------------------
(* The service *)

Flushing(ids) == [todo |-> ids, loaded |-> FALSE, existing |-> {}]

\* What is pending goes into a flush, or stays pending.
Queue(ids) ==
    \/ ~Adapter /\ UNCHANGED <<pending, flushes>>
    \/ Adapter /\ pending' = ids /\ Cardinality(ids) < BatchSize /\ UNCHANGED flushes
    \/ /\ Adapter /\ Cardinality(ids) >= BatchSize /\ Cardinality(flushes) < MaxFlushes
       /\ pending' = {} /\ flushes' = flushes \cup {Flushing(ids)}

\* record(): the buffer and its indexes at once, and a flush when the batch is full.
Record(kind) ==
    LET id == Len(log) + 1
    IN  /\ id <= MaxEntries
        /\ log' = Append(log, [f \in Fields \cup {"timestamp"} |->
                                   IF f = "timestamp" THEN auditClock ELSE kind[f]])
        /\ AddEntry(id, kind)
        /\ Queue(pending \cup {id})
        /\ UNCHANGED <<flushTimer, stored, cleaning, gone, overwritten, auditClock>>

\* flush() up to its first await.
Flush ==
    IF pending = {} THEN UNCHANGED <<pending, flushes>>
    ELSE /\ Cardinality(flushes) < MaxFlushes
         /\ flushes' = flushes \cup {Flushing(pending)}
         /\ pending' = {}

IntervalFlush ==
    /\ flushTimer /\ pending # {}
    /\ Flush
    /\ UNCHANGED <<log, memory, index, flushTimer, stored, cleaning, gone, overwritten, auditClock>>

\* stop()
StopAudit ==
    /\ flushTimer' = FALSE
    /\ Flush
    /\ UNCHANGED <<log, memory, index, stored, cleaning, gone, overwritten, auditClock>>

\* The bucket a flush is at: in the order in which the entries name them.
Current(f) == Bucket(First(f.todo))

\* adapter.load resolves
Load(f) ==
    /\ ~f.loaded
    /\ flushes' = (flushes \ {f})
                  \cup {[f EXCEPT !.loaded = TRUE, !.existing = InBucket(stored, Current(f))]}
    /\ UNCHANGED <<log, memory, index, pending, flushTimer, stored, cleaning, gone, overwritten,
                   auditClock>>

Rest(f, ids) == IF ids = {} THEN flushes \ {f} ELSE (flushes \ {f}) \cup {Flushing(ids)}

\* Mutant of Save: pendingEntries is emptied when all is saved.
SaveThenEmpty(f) ==
    LET merged == f.existing \cup InBucket(f.todo, Current(f))
        before == InBucket(stored, Current(f))
    IN  /\ f.loaded
        /\ stored' = (stored \ before) \cup merged
        /\ overwritten' = (overwritten \cup (before \ merged)) \ merged
        /\ gone' = gone \ merged
        /\ flushes' = Rest(f, f.todo \ merged)
        /\ pending' = IF f.todo \subseteq merged THEN {} ELSE pending
        /\ UNCHANGED <<log, memory, index, flushTimer, cleaning, auditClock>>

\* adapter.save resolves: the bucket is what was loaded and the entries of this flush.
Save(f) ==
    LET merged == f.existing \cup InBucket(f.todo, Current(f))
        before == InBucket(stored, Current(f))
    IN  /\ f.loaded
        /\ stored' = (stored \ before) \cup merged
        /\ overwritten' = (overwritten \cup (before \ merged)) \ merged
        /\ gone' = gone \ merged
        /\ flushes' = Rest(f, f.todo \ merged)
        /\ UNCHANGED <<log, memory, index, pending, flushTimer, cleaning, auditClock>>

\* adapter.load or adapter.save rejects: what the flush had left is in no later one.
FlushFails(f) ==
    /\ flushes' = flushes \ {f}
    /\ gone' = gone \cup f.todo
    /\ UNCHANGED <<log, memory, index, pending, flushTimer, stored, cleaning, overwritten, auditClock>>

\* cleanup() up to listKeys: the oldest entries, up to one that is young enough.
Cleanup(age) ==
    LET cutoff == auditClock - age
        removed == {x \in memory : \A y \in memory : y <= x => log[y].timestamp < cutoff}
    IN  /\ cleaning = {}
        /\ memory' = memory \ removed
        /\ index' = Unindexed(removed)
        /\ cleaning' = IF Adapter THEN {[cutoff |-> cutoff, listed |-> FALSE, keys |-> {}]} ELSE {}
        /\ UNCHANGED <<log, pending, flushTimer, flushes, stored, gone, overwritten, auditClock>>

\* listKeys resolves; the keys that are not old enough are passed over.
ListKeys(c) ==
    /\ ~c.listed
    /\ cleaning' = {[c EXCEPT !.listed = TRUE,
                              !.keys = {b \in {Bucket(id) : id \in stored} :
                                           b * Hour + Hour < c.cutoff}]}
    /\ UNCHANGED <<log, memory, index, pending, flushTimer, flushes, stored, gone, overwritten,
                   auditClock>>

\* adapter.delete resolves for one of them.
DeleteBucket(c, b) ==
    /\ cleaning' = {[c EXCEPT !.keys = @ \ {b}]}
    /\ stored' = stored \ InBucket(stored, b)
    /\ gone' = gone \cup InBucket(stored, b)
    /\ UNCHANGED <<log, memory, index, pending, flushTimer, flushes, overwritten, auditClock>>

CleanupEnds(c) ==
    /\ c.listed /\ c.keys = {}
    /\ cleaning' = {}
    /\ UNCHANGED <<log, memory, index, pending, flushTimer, flushes, stored, gone, overwritten,
                   auditClock>>

\* clear(): the memory, and not what is pending.
ClearAudit ==
    /\ memory' = {} /\ index' = {}
    /\ UNCHANGED <<log, pending, flushTimer, flushes, stored, cleaning, gone, overwritten, auditClock>>

\* The process dies and a new service starts on the same storage; it loads nothing.
Restart ==
    /\ memory' = {} /\ index' = {} /\ pending' = {} /\ flushes' = {} /\ cleaning' = {}
    /\ flushTimer' = Adapter
    /\ gone' = gone \cup pending \cup UNION {f.todo : f \in flushes}
    /\ UNCHANGED <<log, stored, overwritten, auditClock>>

AuditTick ==
    /\ auditClock < MaxAuditTime
    /\ auditClock' = auditClock + 1
    /\ UNCHANGED <<log, memory, index, pending, flushTimer, flushes, stored, cleaning, gone,
                   overwritten>>

AuditNext ==
    \/ \E kind \in Kind : Record(kind)
    \/ IntervalFlush
    \/ StopAudit
    \/ \E f \in flushes : Load(f) \/ Save(f) \/ FlushFails(f)
    \/ Cleanup(Retention)
    \/ \E c \in cleaning : ListKeys(c) \/ CleanupEnds(c) \/ \E b \in c.keys : DeleteBucket(c, b)
    \/ ClearAudit
    \/ Restart
    \/ AuditTick

AuditSpec == AuditInit /\ [][AuditNext]_auditVars

-----------------------------------------------------------------------------
(* Properties *)

InFlush == UNION {f.todo : f \in flushes}

\* Every entry recorded is in one place: it waits for a flush, a flush has it, it is in
\* storage, its flush failed or its bucket was deleted, or another flush's save removed
\* it.  None is dropped between two flushes and none is saved twice.
InOnePlace ==
    /\ Adapter => Ids = pending \cup InFlush \cup stored \cup gone \cup overwritten
    /\ pending \cap InFlush = {} /\ stored \cap (pending \cup InFlush) = {}
    /\ gone \cap (pending \cup InFlush \cup stored) = {}
    /\ overwritten \cap (pending \cup InFlush \cup stored \cup gone) = {}
    /\ \A f, h \in flushes : f # h => f.todo \cap h.todo = {}

Filter ==
    LET kinds(f) == {k[f] : k \in Kind} \cup {None}
    IN  [types : {{}} \cup {{k.type} : k \in Kind} \cup {{k.type : k \in Kind}},
         category : kinds("category"), source : kinds("source"), ruleId : kinds("ruleId"),
         correlationId : kinds("correlationId"), from : {0, 1}, to : {1}]

\* A query that starts from an index finds what a scan of the memory finds, whatever was
\* evicted, cleaned up or cleared, and whichever filters come together.
QueryExact ==
    \A q \in Filter :
        Query(q) = {id \in memory :
                       /\ \A f \in Fields \ {"type"} : q[f] \in {None, log[id][f]}
                       /\ q.types = {} \/ log[id].type \in q.types
                       /\ log[id].timestamp \in q.from..q.to}

\* flush(): "merged with any existing bucket data in the adapter"
MergedWithExisting == overwritten = {}
=============================================================================
