------------------------------ MODULE Baselines ------------------------------
(***************************************************************************)
(* BaselineStore: metrics with an interval each, whose statistics are in a *)
(* map and in the fact store.  A recalculation reads the metric again for  *)
(* each group and waits between two groups, where metrics may be           *)
(* registered and unregistered.  The statistics of a group stand for the   *)
(* number of the recalculation that made them; which groups there are is   *)
(* up to the events of the training period.  No name has a ':' in it.      *)
(***************************************************************************)
EXTENDS FactStore

CONSTANTS
    Metric,             \* names of metrics
    GroupKey,           \* values of the field to group by
    NoGroupKey,
    MaxRecalculations,  \* bound on recalculations
    MaxLoops,           \* bound on loops over groups under way
    MaxRegistrations    \* bound on registrations

\* The name of a metric has no wildcard.
ASSUME NamesTyped == \A name \in Metric : name \notin {"*"} \cup Partial

VARIABLES
    metrics,     \* registered metrics in the order of the map: name, whether grouped, and which
                 \* registration it was
    baselines,   \* <<metric, group>> -> its statistics
    intervals,   \* metrics with an interval
    groups,      \* the groups of which there are events
    loops,       \* recalculateMetricSafe and recalculateAll where they await
    recalculated, registrations

baselineVars == <<metrics, baselines, intervals, groups, loops, recalculated, registrations,
                  facts, prefixIndex>>

BaselineInit ==
    /\ metrics = <<>> /\ baselines = <<>> /\ intervals = {} /\ groups \in SUBSET GroupKey
    /\ loops = <<>> /\ recalculated = 0 /\ registrations = 0
    /\ StoreInit

Names(list) == {list[k].name : k \in DOMAIN list}
Named(name) == CHOOSE metric \in ToSet(metrics) : metric.name = name

\* buildFactKey
FactKey(name, group) ==
    IF group = NoGroupKey THEN <<"baseline", name, "stats">>
    ELSE <<"baseline", name, group, "stats">>

\* The keys that unregisterMetric deletes: one by name, the others found by a query.
FactKeysOf(name) == {FactKey(name, NoGroupKey)} \cup QueryFacts(<<"baseline", name, "*">>)

\* unregisterMetric up to the new maps, for use by registerMetric too.
WithoutMetric(name) ==
    IF name \notin Names(metrics) THEN metrics
    ELSE RemoveAt(metrics, CHOOSE k \in DOMAIN metrics : metrics[k].name = name)

Forget(name) ==
    /\ baselines' = [key \in {k \in DOMAIN baselines : k[1] # name} |-> baselines[key]]
    /\ DeleteFacts(FactKeysOf(name))

Unregister(name) ==
    /\ name \in Names(metrics)
    /\ metrics' = WithoutMetric(name)
    /\ intervals' = intervals \ {name}
    /\ Forget(name)
    /\ UNCHANGED <<groups, loops, recalculated, registrations>>

\* registerMetric: one that is there is unregistered before.
Register(name, grouped) ==
    /\ registrations < MaxRegistrations
    /\ registrations' = registrations + 1
    /\ metrics' = Append(WithoutMetric(name), [name |-> name, grouped |-> grouped,
                                                     id |-> registrations'])
    /\ intervals' = intervals \cup {name}
    /\ IF name \in Names(metrics) THEN Forget(name) ELSE UNCHANGED <<baselines, facts, prefixIndex>>
    /\ UNCHANGED <<groups, loops, recalculated>>

-----------------------------------------------------------------------------
(* Recalculation *)

\* recalculate() of a registered metric: no await in it.
Recalculated(name, group) ==
    /\ name \in Names(metrics)
    /\ recalculated < MaxRecalculations
    /\ recalculated' = recalculated + 1
    /\ baselines' = [key \in DOMAIN baselines \cup {<<name, group>>} |->
                        IF key = <<name, group>> THEN recalculated' ELSE baselines[key]]
    /\ SetFact(FactKey(name, group), recalculated')

\* recalculate() from outside, for a group if one is given.
Recalculate(name, group) ==
    /\ Recalculated(name, group)
    /\ UNCHANGED <<metrics, intervals, groups, loops, registrations>>

\* The groups to go through; the interval leaves out a grouped metric that has none,
\* recalculateAll recalculates it without a group.
GroupList(metric, all) ==
    IF ~metric.grouped THEN <<NoGroupKey>>
    ELSE IF groups = {} THEN (IF all THEN <<NoGroupKey>> ELSE <<>>)
    ELSE SetToSeq(groups)

\* The metrics that the iterator of recalculateAll has not come to: those that were added
\* to the map after `id`, also while it waited.
After(id) == SelectSeq(metrics, LAMBDA metric : metric.id > id)

\* A turn begins with a metric: its first group, and the rest after an await.
Begin(metric, all, others) ==
    LET list == GroupList(metric, all)
    IN  /\ list # <<>>
        /\ Recalculated(metric.name, Head(list))
        /\ loops' = Append(others, [name |-> metric.name, id |-> metric.id, all |-> all,
                                    rest |-> Tail(list)])

\* The interval fires: recalculateMetricSafe up to its first await.
IntervalFires(name) ==
    /\ name \in intervals /\ name \in Names(metrics) /\ Len(loops) < MaxLoops
    /\ Begin(Named(name), FALSE, loops)
    /\ UNCHANGED <<metrics, intervals, groups, registrations>>

RecalculateAll ==
    /\ metrics # <<>> /\ Len(loops) < MaxLoops
    /\ Begin(metrics[1], TRUE, loops)
    /\ UNCHANGED <<metrics, intervals, groups, registrations>>

Without(l) == RemoveAt(loops, l)

\* After an await: the next group of the metric.
NextGroup(l) ==
    /\ loops[l].rest # <<>>
    /\ Recalculated(loops[l].name, Head(loops[l].rest))
    /\ loops' = [loops EXCEPT ![l].rest = Tail(@)]
    /\ UNCHANGED <<metrics, intervals, groups, registrations>>

\* The metric is gone: recalculate() throws, so that the loop of an interval ends silently
\* and recalculateAll rejects without the metrics that remain.
LoopFails(l) ==
    /\ loops[l].rest # <<>> /\ loops[l].name \notin Names(metrics)
    /\ loops' = Without(l)
    /\ UNCHANGED <<metrics, baselines, intervals, groups, recalculated, registrations, facts,
                   prefixIndex>>

\* The groups are done: the next metric of recalculateAll.
NextMetric(l) ==
    /\ loops[l].rest = <<>> /\ loops[l].all /\ After(loops[l].id) # <<>>
    /\ Begin(Head(After(loops[l].id)), TRUE, Without(l))
    /\ UNCHANGED <<metrics, intervals, groups, registrations>>

LoopEnds(l) ==
    /\ loops[l].rest = <<>> /\ (loops[l].all => After(loops[l].id) = <<>>)
    /\ loops' = Without(l)
    /\ UNCHANGED <<metrics, baselines, intervals, groups, recalculated, registrations, facts,
                   prefixIndex>>

\* stop(): the intervals; loops under way go on.
StopBaselines ==
    /\ intervals' = {}
    /\ UNCHANGED <<metrics, baselines, groups, loops, recalculated, registrations, facts,
                   prefixIndex>>

\* Events come and grow old: other groups have events of the training period.
GroupsChange ==
    /\ groups' \in SUBSET GroupKey
    /\ UNCHANGED <<metrics, baselines, intervals, loops, recalculated, registrations, facts,
                   prefixIndex>>

BaselineNext ==
    \/ \E name \in Metric : \/ \E grouped \in BOOLEAN : Register(name, grouped)
                            \/ Unregister(name)
                            \/ IntervalFires(name)
                            \/ \E group \in GroupKey \cup {NoGroupKey} : Recalculate(name, group)
    \/ RecalculateAll
    \/ \E l \in DOMAIN loops : NextGroup(l) \/ LoopFails(l) \/ NextMetric(l) \/ LoopEnds(l)
    \/ StopBaselines
    \/ GroupsChange

BaselineSpec == BaselineInit /\ [][BaselineNext]_baselineVars

-----------------------------------------------------------------------------
(* Properties *)

\* There are statistics of registered metrics only, and the facts say the same, whichever
\* loops were under way when metrics were unregistered or registered again.
BaselinesBacked ==
    /\ \A key \in DOMAIN baselines :
          /\ key[1] \in Names(metrics)
          /\ FactKey(key[1], key[2]) \in DOMAIN facts
          /\ facts[FactKey(key[1], key[2])].value = baselines[key]
    /\ intervals \subseteq Names(metrics)

\* unregisterMetric: "Clears cached statistics and stored facts."
FactsCleared == \A key \in DOMAIN facts : key[2] \in Names(metrics)
=============================================================================
