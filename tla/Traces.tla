------------------------------- MODULE Traces -------------------------------
(***************************************************************************)
(* TraceCollector: the buffer of what the engine does, with an index by    *)
(* correlation, rule and type, and the entries that the engine records     *)
(* while it executes rules.  Executions of one chunk and nested ones take  *)
(* turns at their awaits.  Durations and wording are left out, and the     *)
(* time of an entry is its number.                                         *)
(***************************************************************************)
EXTENDS Integers, SequencesExt

CONSTANTS
    TracedRule, Correlation, Topics, Keys,
    NoField,          \* no rule, no correlation, no detail, a filter not given
    MaxTraces,        \* maxEntries
    MaxTriggers,      \* bound on the events and facts
    MaxExecutions     \* bound on the executions of rules

VARIABLES
    tracing,     \* enabled
    entries,     \* entries, and entriesById
    byField,     \* byCorrelation, byRule, byType: <<field, value, number>>
    recorded,    \* how many entries there were
    triggers,    \* how many events and facts
    executions   \* the executions of rules: where each is

traceVars == <<tracing, entries, byField, recorded, triggers, executions>>

-----------------------------------------------------------------------------
(* What the engine records *)

Entry(type, rule, correlation, detail) ==
    [type |-> type, ruleId |-> rule, correlationId |-> correlation, detail |-> detail]

\* What an execution of a rule records next, and where it is then: its lookups may fail or
\* its condition, an action of an action has the index of the outer one, and what fails
\* outside of the actions records nothing.
Stages ==
    { <<"due", "rule_triggered", NoField, "checking">>,
      <<"checking", "rule_skipped", "lookup_failed", "ended">>,
      <<"checking", "condition_evaluated", "fail", "failed">>,
      <<"checking", "condition_evaluated", "pass", "passed">>,
      <<"failed", "rule_skipped", "conditions_not_met", "ended">>,
      <<"passed", "action_started", "conditional", "acting">>,
      <<"acting", "action_started", "emit_event", "nested">>,
      <<"nested", "action_completed", "emit_event", "acted">>,
      <<"nested", "action_failed", "emit_event", "acted">>,
      <<"acting", "action_failed", "conditional", "done">>,
      <<"acting", "action_completed", "conditional", "done">>,
      <<"acted", "action_completed", "conditional", "done">>,
      <<"done", "rule_executed", NoField, "ended">> }

\* evaluateAndExecuteRule
ExecutionSteps ==
    UNION {{[entry |-> Entry(s[2], executions[i].rule, executions[i].correlation, s[3]),
             triggers |-> triggers, executions |-> [executions EXCEPT ![i].stage = s[4]]]
               : s \in {t \in Stages : t[1] = executions[i].stage}} : i \in DOMAIN executions}

\* The rules that an event or a fact triggers are executed after it is recorded.
Triggered(entry, rules) ==
    [entry |-> entry, triggers |-> triggers + 1,
     executions |-> executions \o
         [i \in 1..Cardinality(rules) |-> [rule |-> SetToSeq(rules)[i],
                                           correlation |-> entry.correlationId, stage |-> "due"]]]

TriggerSteps ==
    LET ruleSets == {rs \in SUBSET TracedRule : Len(executions) + Cardinality(rs) <= MaxExecutions}
    IN  IF triggers = MaxTriggers THEN {}
        ELSE {Triggered(Entry("event_emitted", NoField, x[1], x[2]), x[3])
                  : x \in Correlation \X Topics \X ruleSets}
             \cup {Triggered(Entry("fact_changed", NoField, NoField, x[1]), x[2])
                  : x \in Keys \X ruleSets}

EngineSteps == ExecutionSteps \cup TriggerSteps

\* An error outside of the actions ends an execution without an entry.
Breaks ==
    /\ \E i \in DOMAIN executions :
         /\ executions[i].stage \in {"checking", "passed"}
         /\ executions' = [executions EXCEPT ![i].stage = "broken"]
    /\ UNCHANGED <<tracing, entries, byField, recorded, triggers>>

-----------------------------------------------------------------------------
(* The collector *)

TraceInit ==
    /\ tracing \in BOOLEAN
    /\ entries = <<>> /\ byField = {} /\ recorded = 0 /\ triggers = 0 /\ executions = <<>>

Indexed == {"correlationId", "ruleId", "type"}

\* indexEntry
Triples(e) == {t \in {<<f, e[f], e.number>> : f \in Indexed} : t[2] # NoField}

\* evictOldest: a tenth of the limit, at least one.
Evicted ==
    IF Len(entries) < MaxTraces THEN 0
    ELSE IF MaxTraces < 10 THEN 1 ELSE (MaxTraces + 9) \div 10

Numbered(entry) == [f \in DOMAIN entry \cup {"number"} |-> IF f = "number" THEN recorded + 1 ELSE entry[f]]

\* record()
Recorded(entry) ==
    LET e == Numbered(entry)
        removed == {entries[i].number : i \in 1..Evicted}
    IN  /\ entries' = Append(SubSeq(entries, Evicted + 1, Len(entries)), e)
        /\ byField' = {t \in byField : t[3] \notin removed} \cup Triples(e)
        /\ recorded' = recorded + 1

EngineStep(s) ==
    /\ executions' = s.executions /\ triggers' = s.triggers
    /\ IF tracing THEN Recorded(s.entry) ELSE UNCHANGED <<entries, byField, recorded>>
    /\ UNCHANGED tracing

SetTracing(on) ==
    /\ tracing' = on
    /\ UNCHANGED <<entries, byField, recorded, triggers, executions>>

ClearTraces ==
    /\ entries' = <<>> /\ byField' = {}
    /\ UNCHANGED <<tracing, recorded, triggers, executions>>

TraceNext ==
    \/ \E s \in EngineSteps : EngineStep(s)
    \/ Breaks
    \/ \E on \in BOOLEAN : SetTracing(on)
    \/ ClearTraces

TraceSpec == TraceInit /\ [][TraceNext]_traceVars

-----------------------------------------------------------------------------
(* Queries *)

\* resolveEntries, in the order of their times
Resolved(field, value) == SelectSeq(entries, LAMBDA e : <<field, value, e.number>> \in byField)

OneType(q) == Cardinality(q.types) = 1

SelectedTraces(q) ==
    CASE q.correlationId # NoField -> Resolved("correlationId", q.correlationId)
      [] q.correlationId = NoField /\ q.ruleId # NoField -> Resolved("ruleId", q.ruleId)
      [] OTHER -> IF OneType(q) THEN Resolved("type", CHOOSE t \in q.types : TRUE) ELSE entries

LastOf(seq, limit) == SubSeq(seq, 1 + (IF Len(seq) > limit THEN Len(seq) - limit ELSE 0), Len(seq))

\* One type is left to its index, also when another index is used.
QueryTraces(q) ==
    LastOf(SelectSeq(SelectedTraces(q),
                     LAMBDA e : /\ Cardinality(q.types) > 1 => e.type \in q.types
                                /\ q.correlationId # NoField /\ q.ruleId # NoField => e.ruleId = q.ruleId
                                /\ q.from <= e.number /\ e.number <= q.to),
           q.limit)

GetRecent(limit) == Reverse(LastOf(entries, limit))

-----------------------------------------------------------------------------
(* Properties *)

TraceQueries ==
    [ correlationId : Correlation \cup {NoField}, ruleId : TracedRule \cup {NoField},
      types : {{}, {"rule_triggered"}, {"event_emitted", "rule_executed"}},
      from : {0, recorded}, to : {recorded - 1, recorded}, limit : {1, MaxTraces} ]

\* A query of the traces finds what a scan of the buffer finds, in its order, after any
\* evictions; but one with a single type and a correlation or a rule finds every type.
TracesExact ==
    /\ Len(entries) <= MaxTraces
    /\ \A q \in TraceQueries :
          LET typed == ~OneType(q) \/ (q.correlationId = NoField /\ q.ruleId = NoField)
          IN  QueryTraces(q) =
                LastOf(SelectSeq(entries,
                         LAMBDA e : /\ q.correlationId \in {NoField, e.correlationId}
                                    /\ q.ruleId \in {NoField, e.ruleId}
                                    /\ typed /\ q.types # {} => e.type \in q.types
                                    /\ q.from <= e.number /\ e.number <= q.to),
                       q.limit)
=============================================================================
