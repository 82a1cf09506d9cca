---------------------------- MODULE RuleVersions ----------------------------
(***************************************************************************)
(* RuleVersionStore with all of its operations: recording, reading, the    *)
(* flush, the cleanup and the loading, which wait for storage and overlap. *)
(* RuleLifecycle has recording and the flush within the engine.            *)
(***************************************************************************)
EXTENDS Integers, SequencesExt

CONSTANTS
    Versioned,            \* rules
    Snapshot,             \* snapshots of rules, functions from fields to values
    DiffFields,           \* DIFF_FIELDS, those that a diff compares
    ChangeType,
    MaxPerRule, MaxAge,   \* maxVersionsPerRule, maxAgeMs
    NoTime,               \* no entry
    MaxRecords,           \* bounds on the records, the calls and the time
    MaxStoreCalls,
    MaxVersionTime

VARIABLES
    tracked,       \* the keys of the cache, in order
    versions,      \* the cache
    unsaved,       \* dirty, in order
    preloaded,     \* loaded
    flushInterval, \* flushTimer is set
    storeOps,      \* flushes, cleanups and loads that wait for storage
    saved,         \* storage: the entries of rules
    recordedAll,   \* history: what was recorded since the process began
    exempt,        \* history: the rules whose calls overtook one another or failed
    loadedOver,    \* history: the rules whose entries a load replaced
    storeCalls,
    versionTime

versionVars == <<tracked, versions, unsaved, preloaded, flushInterval, storeOps, saved, recordedAll,
                 exempt, loadedOver, storeCalls, versionTime>>

VersionInit ==
    /\ tracked = <<>> /\ versions = [r \in Versioned |-> <<>>]
    /\ unsaved = <<>> /\ preloaded = {} /\ flushInterval = TRUE /\ storeOps = {}
    /\ saved = [r \in Versioned |-> <<>>]
    /\ recordedAll = [r \in Versioned |-> <<>>]
    /\ exempt = {} /\ loadedOver = {} /\ storeCalls = 0 /\ versionTime = 0

Added(keys, r) == IF Contains(keys, r) THEN keys ELSE Append(keys, r)

-----------------------------------------------------------------------------
(* Recording *)

Recent(entries, cutoff) == SelectSeq(entries, LAMBDA e : e.at >= cutoff)

\* trimVersions; a rule whose last entry goes leaves the cache.
Trimmed(entries) ==
    LET excess == Len(entries) - MaxPerRule
    IN  Recent(IF excess > 0 THEN SubSeq(entries, excess + 1, Len(entries)) ELSE entries,
               versionTime - MaxAge)

RecordVersion(r, snapshot, change) ==
    LET last == IF versions[r] = <<>> THEN 0 ELSE Last(versions[r]).version
        entry == [version |-> last + 1, snapshot |-> snapshot, at |-> versionTime, change |-> change]
        kept == Trimmed(Append(versions[r], entry))
    IN  /\ FoldFunction(LAMBDA s, n : Len(s) + n, 0, recordedAll) < MaxRecords
        /\ versions' = [versions EXCEPT ![r] = kept]
        /\ tracked' = IF kept = <<>> THEN Remove(tracked, r) ELSE Added(tracked, r)
        /\ unsaved' = Added(unsaved, r)
        /\ recordedAll' = [recordedAll EXCEPT ![r] = Append(@, entry)]
        /\ UNCHANGED <<preloaded, flushInterval, storeOps, saved, exempt, loadedOver, storeCalls,
                       versionTime>>

\* Every reading method: a rule that has no versions is from then on tracked.
ReadVersions(r) ==
    /\ ~Contains(tracked, r)
    /\ tracked' = Append(tracked, r)
    /\ UNCHANGED <<versions, unsaved, preloaded, flushInterval, storeOps, saved, recordedAll, exempt,
                   loadedOver, storeCalls, versionTime>>

-----------------------------------------------------------------------------
(* What waits for storage.  An operation has one call under way: what it does with which    *)
(* rule.  A cleanup also knows the rules it has visited, a flush those that come next.      *)

Op(kind, doing, r, entries, queue, visited, cutoff) ==
    [kind |-> kind, doing |-> doing, rule |-> r, entries |-> entries, queue |-> queue,
     visited |-> visited, cutoff |-> cutoff]

Waiting(op, ops) == \E other \in ops : other.rule = op.rule

\* An operation waits for its next call, or is over; calls of one rule may overtake.
Awaits(next, others) ==
    /\ storeOps' = others \cup next
    /\ exempt' = exempt \cup {op.rule : op \in {o \in next : Waiting(o, others)}}

\* Mutant of Saving: a rule without entries ends the loop.
SavingUpToEmpty(queue, entriesOf) ==
    IF queue = <<>> \/ entriesOf[queue[1]] = <<>> THEN {}
    ELSE {Op("flush", "save", queue[1], entriesOf[queue[1]], Tail(queue), {}, 0)}

\* The loop of flush(): each rule with entries is saved as it is when its turn comes.
Saving(queue, entriesOf) ==
    LET turns == {i \in DOMAIN queue : entriesOf[queue[i]] # <<>>}
    IN  IF turns = {} THEN {}
        ELSE LET i == CHOOSE i \in turns : \A j \in turns : i <= j
             IN  {Op("flush", "save", queue[i], entriesOf[queue[i]],
                     SubSeq(queue, i + 1, Len(queue)), {}, 0)}

FlushVersions(others) ==
    /\ unsaved # <<>>
    /\ Awaits(Saving(unsaved, versions), others)
    /\ unsaved' = <<>>

\* The flush of the interval, or that of a caller.
StartFlush ==
    /\ storeCalls < MaxStoreCalls /\ storeCalls' = storeCalls + 1
    /\ FlushVersions(storeOps)
    /\ UNCHANGED <<tracked, versions, preloaded, flushInterval, saved, recordedAll, loadedOver,
                   versionTime>>

\* The loop of cleanup() up to the next rule that has only old entries, which is removed,
\* or to the end, where what it shortened is flushed.
CleanupLoop(visited, cutoff, others) ==
    LET rest == SelectSeq(tracked, LAMBDA r : r \notin visited)
        Empties(r) == versions[r] # <<>> /\ Recent(versions[r], cutoff) = <<>>
        stops == {i \in DOMAIN rest : Empties(rest[i])}
        end == IF stops = {} THEN Len(rest) + 1 ELSE CHOOSE i \in stops : \A j \in stops : i <= j
        passed == {rest[i] : i \in 1..end - 1}
        shorter == SelectSeq(rest, LAMBDA r : r \in passed /\ Recent(versions[r], cutoff) # versions[r])
        after == [r \in Versioned |-> IF r \in passed \/ (stops # {} /\ r = rest[end])
                                      THEN Recent(versions[r], cutoff) ELSE versions[r]]
        dirty == FoldLeft(Added, unsaved, shorter)
    IN  /\ versions' = after
        /\ IF stops = {}
             THEN /\ Awaits(Saving(dirty, after), others)
                  /\ unsaved' = <<>>
                  /\ UNCHANGED <<tracked, preloaded>>
             ELSE /\ Awaits({Op("cleanup", "delete", rest[end], <<>>, <<>>, visited \cup passed, cutoff)},
                            others)
                  /\ unsaved' = dirty
                  /\ tracked' = Remove(tracked, rest[end])
                  /\ preloaded' = preloaded \ {rest[end]}

StartCleanup ==
    /\ storeCalls < MaxStoreCalls /\ storeCalls' = storeCalls + 1
    /\ CleanupLoop({}, versionTime - MaxAge, storeOps)
    /\ UNCHANGED <<flushInterval, saved, recordedAll, loadedOver, versionTime>>

LoadRule(r) ==
    /\ r \notin preloaded
    /\ storeCalls < MaxStoreCalls /\ storeCalls' = storeCalls + 1
    /\ Awaits({Op("load", "load", r, <<>>, <<>>, {}, 0)}, storeOps)
    /\ UNCHANGED <<tracked, versions, unsaved, preloaded, flushInterval, saved, recordedAll, loadedOver,
                   versionTime>>

\* Storage has done its part of a call, and the operation goes on.
SaveEnds(op) ==
    /\ op.doing = "save"
    /\ saved' = [saved EXCEPT ![op.rule] = op.entries]
    /\ Awaits(Saving(op.queue, versions), storeOps \ {op})
    /\ UNCHANGED <<tracked, versions, unsaved, preloaded, flushInterval, recordedAll, loadedOver,
                   storeCalls, versionTime>>

DeleteEnds(op) ==
    /\ op.doing = "delete"
    /\ saved' = [saved EXCEPT ![op.rule] = <<>>]
    /\ CleanupLoop(op.visited, op.cutoff, storeOps \ {op})
    /\ UNCHANGED <<flushInterval, recordedAll, loadedOver, storeCalls, versionTime>>

LoadReads(op) ==
    /\ op.doing = "load"
    /\ Awaits({[op EXCEPT !.doing = "read", !.entries = saved[op.rule]]}, storeOps \ {op})
    /\ UNCHANGED <<tracked, versions, unsaved, preloaded, flushInterval, saved, recordedAll, loadedOver,
                   storeCalls, versionTime>>

LoadEnds(op) ==
    /\ op.doing = "read"
    /\ storeOps' = storeOps \ {op}
    /\ versions' = [versions EXCEPT ![op.rule] = op.entries]
    /\ tracked' = Added(tracked, op.rule)
    /\ preloaded' = preloaded \cup {op.rule}
    /\ loadedOver' = IF versions[op.rule] = <<>> THEN loadedOver ELSE loadedOver \cup {op.rule}
    /\ UNCHANGED <<unsaved, flushInterval, saved, recordedAll, exempt, storeCalls, versionTime>>

\* The operation rejects, and with it what it had still to do.
CallFails(op) ==
    /\ op.doing # "read"
    /\ storeOps' = storeOps \ {op}
    /\ exempt' = exempt \cup {op.rule} \cup ToSet(op.queue)
    /\ UNCHANGED <<tracked, versions, unsaved, preloaded, flushInterval, saved, recordedAll, loadedOver,
                   storeCalls, versionTime>>

\* stop(): the interval is cleared, and what is left flushed.
StopVersions ==
    /\ flushInterval /\ flushInterval' = FALSE
    /\ IF unsaved = <<>> THEN UNCHANGED <<unsaved, storeOps, exempt>> ELSE FlushVersions(storeOps)
    /\ UNCHANGED <<tracked, versions, preloaded, saved, recordedAll, loadedOver, storeCalls, versionTime>>

\* A new process begins with what is in storage, of which it knows nothing.
RestartVersions ==
    /\ storeCalls < MaxStoreCalls /\ storeCalls' = storeCalls + 1
    /\ tracked' = <<>> /\ versions' = [r \in Versioned |-> <<>>]
    /\ unsaved' = <<>> /\ preloaded' = {} /\ flushInterval' = TRUE /\ storeOps' = {}
    /\ recordedAll' = [r \in Versioned |-> <<>>]
    /\ exempt' = {} /\ loadedOver' = {}
    /\ UNCHANGED <<saved, versionTime>>

VersionTick ==
    /\ versionTime < MaxVersionTime /\ versionTime' = versionTime + 1
    /\ UNCHANGED <<tracked, versions, unsaved, preloaded, flushInterval, storeOps, saved, recordedAll,
                   exempt, loadedOver, storeCalls>>

VersionNext ==
    \/ \E r \in Versioned :
         \/ \E s \in Snapshot, c \in ChangeType : RecordVersion(r, s, c)
         \/ ReadVersions(r) \/ LoadRule(r)
    \/ StartFlush \/ StartCleanup \/ StopVersions \/ RestartVersions \/ VersionTick
    \/ \E op \in storeOps :
         SaveEnds(op) \/ DeleteEnds(op) \/ LoadReads(op) \/ LoadEnds(op) \/ CallFails(op)

VersionSpec == VersionInit /\ [][VersionNext]_versionVars

-----------------------------------------------------------------------------
(* Reading *)

GetVersion(r, n) == {e \in ToSet(versions[r]) : e.version = n}

ApplyFilters(entries, params) ==
    SelectSeq(entries, LAMBDA e :
        /\ params.fromVersion <= e.version /\ e.version <= params.toVersion
        /\ params.changeTypes = {} \/ e.change \in params.changeTypes
        /\ params.from <= e.at /\ e.at <= params.to)

QueryVersions(r, params) ==
    LET all == versions[r]
        filtered == ApplyFilters(all, params)
        ordered == IF params.order = "desc" THEN Reverse(filtered) ELSE filtered
        end == params.offset + params.limit
    IN  [entries |-> SubSeq(ordered, params.offset + 1, IF end < Len(ordered) THEN end ELSE Len(ordered)),
         totalVersions |-> Len(all), hasMore |-> end < Len(filtered)]

\* diffSnapshots, of two entries
Diff(from, to) == {f \in DiffFields : from.snapshot[f] # to.snapshot[f]}

VersionStats ==
    LET known == {r \in ToSet(tracked) : versions[r] # <<>>}
        firsts == {versions[r][1].at : r \in known}
        lasts == {Last(versions[r]).at : r \in known}
    IN  [ trackedRules |-> Len(tracked),
          totalVersions |-> FoldFunction(LAMBDA s, n : Len(s) + n, 0, versions),
          oldestEntry |-> IF known = {} THEN NoTime ELSE CHOOSE t \in firsts : \A u \in firsts : t <= u,
          newestEntry |-> IF known = {} THEN NoTime ELSE CHOOSE t \in lasts : \A u \in lasts : u <= t ]

-----------------------------------------------------------------------------
(* Properties *)

\* An entry leaves the history of its rule only when it is too old, when there are as many
\* newer ones as are kept, or when storage is loaded over it; and those of a rule are
\* numbered without a gap and in the order of time, in the cache and in storage, however
\* flushes, cleanups, loads, failures and restarts take turns.
VersionsKept ==
    /\ \A r \in Versioned \ loadedOver : \A i \in DOMAIN recordedAll[r] :
          LET e == recordedAll[r][i]
          IN  \/ Contains(versions[r], e)
              \/ e.at < versionTime - MaxAge
              \/ Len(recordedAll[r]) - i >= MaxPerRule
    /\ \A r \in Versioned : \A entries \in {versions[r], saved[r]} :
          /\ Len(entries) <= MaxPerRule
          /\ \A i \in 2..Len(entries) : /\ entries[i].version = entries[i - 1].version + 1
                                        /\ entries[i].at >= entries[i - 1].at

\* What is not to be saved and not being saved is in storage, unless calls for the rule
\* failed or were under way together.
SavedUnlessUnsaved ==
    \A r \in Versioned \ (exempt \cup loadedOver) :
        \/ Contains(unsaved, r) \/ versions[r] = <<>> \/ versions[r] = saved[r]
        \/ \E op \in storeOps : op.rule = r \/ Contains(op.queue, r)

\* The pages of a query, of one entry each, put together are the entries that its filter lets
\* pass, each once and in order; the statistics span all entries.
Params(filter, order, offset, limit) ==
    [fromVersion |-> filter.fromVersion, toVersion |-> filter.toVersion, from |-> filter.from,
     to |-> filter.to, changeTypes |-> filter.changeTypes, order |-> order, offset |-> offset,
     limit |-> limit]

Filters ==
    [fromVersion : {1, 2}, toVersion : {2}, from : {0, 1}, to : {MaxVersionTime},
     changeTypes : {{}} \cup {{c} : c \in ChangeType}]

VersionsExact ==
    /\ \A r \in Versioned, filter \in Filters, order \in {"asc", "desc"} :
          LET page == [k \in 0..MaxPerRule |-> QueryVersions(r, Params(filter, order, k, 1))]
              pages == FlattenSeq([k \in 1..MaxPerRule |-> page[k - 1].entries])
              wanted == {e \in ToSet(versions[r]) :
                           /\ e.version \in filter.fromVersion..filter.toVersion
                           /\ e.at \in filter.from..filter.to
                           /\ filter.changeTypes = {} \/ e.change \in filter.changeTypes}
          IN  /\ ToSet(pages) = wanted /\ Len(pages) = Cardinality(wanted)
              /\ \A i \in 2..Len(pages) :
                    IF order = "asc" THEN pages[i - 1].version < pages[i].version
                    ELSE pages[i - 1].version > pages[i].version
              /\ \A k \in 0..MaxPerRule : page[k].hasMore = (Cardinality(wanted) > k + 1)
    /\ \A r \in Versioned : \A n \in 1..MaxRecords : Cardinality(GetVersion(r, n)) <= 1
    /\ LET all == UNION {ToSet(versions[r]) : r \in Versioned}
       IN  all # {} => /\ \A e \in all : VersionStats.oldestEntry <= e.at /\ e.at <= VersionStats.newestEntry
                       /\ VersionStats.totalVersions >= Cardinality(all)

\* A diff of two versions is empty only when nothing changed: it is not, as lookups of a
\* rule are no field that is compared.
DiffComplete ==
    \A r \in Versioned : \A a, b \in ToSet(versions[r]) :
        Diff(a, b) = {} => a.snapshot = b.snapshot
=============================================================================
