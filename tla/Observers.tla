----------------------------- MODULE Observers -----------------------------
(***************************************************************************)
(* The observers of the traces: the profiler, the metrics collector and    *)
(* the bridge to OpenTelemetry.  Each subscribes to the collector at any   *)
(* time, gets every entry from then on in the step that records it, and    *)
(* may be reset or stopped.                                                *)
(***************************************************************************)
EXTENDS Traces, TLC

CONSTANTS
    MaxLabeledRules,
    MaxSwitches   \* bound on what is started, stopped, reset and cleared

VARIABLES
    switches,   \* how often
    watching,   \* which observer there is
    attached,   \* whether it subscribes
    whole,      \* history: it has heard of every execution, from its trigger on
    seen,       \* history: how many entries of each kind it counted
    counts,     \* the profiler's: <<rule, count>> -> number
    counters,   \* the metrics collector's: <<name, label>> -> number
    trackedRules,
    bridge      \* the bridge's spans: those started, those held by key, rules of a correlation

observerVars == <<switches, watching, attached, whole, seen, counts, counters, trackedRules, bridge>>

\* A number for each key, 0 for those that are not there.
CountOf(numbers, key) == IF key \in DOMAIN numbers THEN numbers[key] ELSE 0
Counted(numbers, keys) ==
    [k \in DOMAIN numbers \cup keys |-> CountOf(numbers, k) + (IF k \in keys THEN 1 ELSE 0)]

KindOf(e) == <<e.type, e.ruleId, e.detail>>
NoCounts == <<>>

-----------------------------------------------------------------------------
(* Profiler: counts per rule, per condition and per action *)

Profiled(e) ==
    CASE e.type = "rule_triggered" -> {"triggerCount"}
      [] e.type = "rule_executed" -> {"executionCount"}
      [] e.type = "rule_skipped" -> {"skipCount"}
      [] e.type = "condition_evaluated" ->
            {"evaluationCount", IF e.detail = "pass" THEN "passCount" ELSE "failCount"}
      [] e.type = "action_completed" -> {"actionCount", "successCount"}
      [] e.type = "action_failed" -> {"actionCount", "failureCount"}
      [] OTHER -> {}

ProcessEntry(numbers, e) ==
    IF e.ruleId = NoField THEN numbers ELSE Counted(numbers, {e.ruleId} \X Profiled(e))

\* The constructor processes what there is; the next of enableProfiling() or of the debug
\* routes' first request gets a new profiler.
StartProfiler ==
    /\ watching = "profiler" /\ ~attached
    /\ counts' = FoldLeft(ProcessEntry, NoCounts, entries)
    /\ seen' = FoldLeft(LAMBDA b, e : Counted(b, {KindOf(e)}), NoCounts, entries)
    /\ attached' = TRUE
    /\ whole' = (tracing /\ executions = <<>>)
    /\ UNCHANGED <<traceVars, watching, counters, trackedRules, bridge>>

ResetProfiler ==
    /\ watching = "profiler" /\ attached
    /\ counts' = NoCounts /\ seen' = NoCounts /\ whole' = FALSE
    /\ UNCHANGED <<traceVars, watching, attached, counters, trackedRules, bridge>>

-----------------------------------------------------------------------------
(* MetricsCollector: counters with labels, those of rules up to a limit *)

CounterOf == [ rule_triggered |-> {"rules_triggered_total"}, rule_executed |-> {"rules_executed_total"},
               rule_skipped |-> {"rules_skipped_total"}, event_emitted |-> {"events_processed_total"},
               fact_changed |-> {"facts_changed_total"},
               action_completed |-> {"actions_executed_total"},
               action_failed |-> {"actions_failed_total", "rules_failed_total"},
               condition_evaluated |-> {"conditions_evaluated_total"} ]

OfRules == {"rules_triggered_total", "rules_executed_total", "rules_skipped_total", "rules_failed_total"}
CountersOf(type) == IF type \in DOMAIN CounterOf THEN CounterOf[type] ELSE {}

\* canTrackRule
Tracked(rule) == rule \in trackedRules \/ Cardinality(trackedRules) < MaxLabeledRules

\* The labels of rules, of actions and conditions by their detail, and none.
LabelOf(name, e) ==
    CASE name \in OfRules -> IF Tracked(e.ruleId) THEN e.ruleId ELSE "none"
      [] name \in {"actions_executed_total", "actions_failed_total", "conditions_evaluated_total"} -> e.detail
      [] OTHER -> "none"

Measured(e) ==
    LET names == CountersOf(e.type) IN
      /\ counters' = Counted(counters, {<<name, LabelOf(name, e)>> : name \in names})
      /\ trackedRules' = IF names \cap OfRules # {} /\ Tracked(e.ruleId)
                           THEN trackedRules \cup {e.ruleId} ELSE trackedRules

\* The constructor turns tracing on.
StartMetrics ==
    /\ watching = "metrics" /\ ~attached
    /\ attached' = TRUE
    /\ SetTracing(TRUE)
    /\ UNCHANGED <<watching, whole, seen, counts, counters, trackedRules, bridge>>

ResetMetrics ==
    /\ watching = "metrics" /\ attached
    /\ counters' = NoCounts /\ seen' = NoCounts /\ trackedRules' = {}
    /\ UNCHANGED <<traceVars, watching, attached, whole, counts, bridge>>

-----------------------------------------------------------------------------
(* OpenTelemetryBridge: spans of correlations, rules and actions by key *)

NoSpans == [spans |-> <<>>, held |-> <<>>, active |-> [c \in Correlation |-> 0]]

StartSpan(b, key) ==
    [b EXCEPT !.spans = Append(@, [key |-> key, ends |-> 0]), !.held = (key :> Len(b.spans) + 1) @@ @]
\* Mutant of EndSpan: a span that ended is still held.
EndSpanHeld(b, key) ==
    IF key \notin DOMAIN b.held THEN b ELSE [b EXCEPT !.spans[b.held[key]].ends = @ + 1]
EndSpan(b, key) ==
    IF key \notin DOMAIN b.held THEN b
    ELSE [b EXCEPT !.spans[b.held[key]].ends = @ + 1,
                   !.held = [k \in DOMAIN @ \ {key} |-> @[k]]]

OfCorrelation(e) == <<"correlation", e.correlationId>>
OfRule(e) == <<"rule", e.correlationId, e.ruleId>>
\* The index of an action is that of the list it is in: an action of an action has the key
\* of the outer one.
OfAction(e) == <<"action", e.correlationId, e.ruleId>>

OnEventEmitted(b, e) == [StartSpan(b, OfCorrelation(e)) EXCEPT !.active[e.correlationId] = 0]

OnRuleTriggered(b, e) ==
    IF OfCorrelation(e) \in DOMAIN b.held
      THEN [StartSpan(b, OfRule(e)) EXCEPT !.active[e.correlationId] = @ + 1]
      ELSE StartSpan(b, OfRule(e))

\* The last rule that finishes ends the span of the correlation, whether more rules of the
\* event are to come or not.
OnRuleFinished(b, e) ==
    LET finished == EndSpan(b, OfRule(e)) IN
      IF OfCorrelation(e) \notin DOMAIN b.held THEN finished
      ELSE IF b.active[e.correlationId] <= 1
             THEN [EndSpan(finished, OfCorrelation(e)) EXCEPT !.active[e.correlationId] = 0]
             ELSE [finished EXCEPT !.active[e.correlationId] = @ - 1]

Bridged(b, e) ==
    CASE e.type = "event_emitted" -> OnEventEmitted(b, e)
      [] e.type = "rule_triggered" -> OnRuleTriggered(b, e)
      [] e.type \in {"rule_executed", "rule_skipped"} -> OnRuleFinished(b, e)
      [] e.type = "action_started" -> StartSpan(b, OfAction(e))
      [] e.type \in {"action_completed", "action_failed"} -> EndSpan(b, OfAction(e))
      [] OTHER -> b

\* start(), when the API is there
StartBridge ==
    /\ watching = "bridge" /\ ~attached
    /\ attached' = TRUE
    /\ whole' = (executions = <<>>)
    /\ SetTracing(TRUE)
    /\ UNCHANGED <<watching, seen, counts, counters, trackedRules, bridge>>

-----------------------------------------------------------------------------
(* All of them *)

ObserverInit ==
    /\ TraceInit
    /\ switches = 0 /\ watching \in {"profiler", "metrics", "bridge"}
    /\ attached = FALSE /\ whole = FALSE
    /\ seen = NoCounts /\ counts = NoCounts /\ counters = NoCounts
    /\ trackedRules = {} /\ bridge = NoSpans

\* The observer gets the entry when the collector has it.
Heard(e) ==
    /\ seen' = Counted(seen, IF watching = "bridge" THEN {} ELSE {KindOf(e)})
    /\ counts' = IF watching = "profiler" THEN ProcessEntry(counts, e) ELSE counts
    /\ IF watching = "metrics" THEN Measured(e) ELSE UNCHANGED <<counters, trackedRules>>
    /\ bridge' = IF watching = "bridge" THEN Bridged(bridge, e) ELSE bridge

Observe ==
    /\ \E s \in EngineSteps :
         /\ EngineStep(s)
         /\ IF tracing /\ attached THEN Heard(Numbered(s.entry))
              ELSE UNCHANGED <<seen, counts, counters, trackedRules, bridge>>
    /\ UNCHANGED <<watching, attached, whole>>

EnableTracing(on) ==
    /\ on # tracing
    /\ SetTracing(on)
    /\ whole' = (whole /\ on)
    /\ UNCHANGED <<watching, attached, seen, counts, counters, trackedRules, bridge>>

\* stop() of the bridge ends the spans that it holds; a stopped profiler is dropped.
StopObserver ==
    /\ attached
    /\ attached' = FALSE /\ whole' = FALSE
    /\ bridge' = [spans |-> [i \in DOMAIN bridge.spans |->
                        IF \E k \in DOMAIN bridge.held : bridge.held[k] = i
                          THEN [bridge.spans[i] EXCEPT !.ends = @ + 1] ELSE bridge.spans[i]],
                  held |-> <<>>, active |-> NoSpans.active]
    /\ UNCHANGED <<traceVars, watching, seen, counts, counters, trackedRules>>

Switch ==
    \/ \E on \in BOOLEAN : EnableTracing(on)
    \/ StartProfiler \/ ResetProfiler
    \/ StartMetrics \/ ResetMetrics
    \/ StartBridge
    \/ StopObserver

ObserverNext ==
    \/ Observe /\ UNCHANGED switches
    \/ Breaks /\ UNCHANGED observerVars
    \/ switches < MaxSwitches /\ Switch /\ switches' = switches + 1

ObserverSpec == ObserverInit /\ [][ObserverNext]_<<traceVars, observerVars>>

-----------------------------------------------------------------------------
(* Properties *)

SumOf(numbers, keys) == FoldSet(LAMBDA k, n : n + CountOf(numbers, k), 0, keys \cap DOMAIN numbers)
SeenOf(types, rules) ==
    SumOf(seen, {k \in DOMAIN seen : k[1] \in types /\ k[2] \in rules})

\* A profile has what was recorded since it began, each entry once, also of what is still
\* in the buffer when it begins; and no rule finishes more often than it was triggered,
\* unless the profile began within an execution or missed entries.
ProfileExact ==
    \A r \in TracedRule :
        /\ CountOf(counts, <<r, "triggerCount">>) = SeenOf({"rule_triggered"}, {r})
        /\ CountOf(counts, <<r, "evaluationCount">>)
             = CountOf(counts, <<r, "passCount">>) + CountOf(counts, <<r, "failCount">>)
        /\ CountOf(counts, <<r, "actionCount">>) = SeenOf({"action_completed", "action_failed"}, {r})
        /\ whole => CountOf(counts, <<r, "executionCount">>) + CountOf(counts, <<r, "skipCount">>)
                      <= CountOf(counts, <<r, "triggerCount">>)

\* Whatever the limit of labels, a counter adds up to what was recorded, no more rules
\* have labels than the limit says, and a rule's entries are all with its label or none.
MetersExact ==
    /\ \A type \in DOMAIN CounterOf : \A name \in CounterOf[type] :
          SumOf(counters, {k \in DOMAIN counters : k[1] = name})
              = SeenOf({type}, TracedRule \cup {NoField})
    /\ Cardinality(trackedRules) <= MaxLabeledRules
    /\ \A r \in TracedRule, type \in {"rule_triggered", "rule_executed", "rule_skipped"} :
          \A name \in CounterOf[type] :
              CountOf(counters, <<name, r>>) \in {0, SeenOf({type}, {r})}

\* A span is ended once; one that is not ended is held, or a later one of its key took its
\* place; and a bridge that heard everything holds spans of executions under way only.
SpansSound ==
    /\ \A i \in DOMAIN bridge.spans :
          LET span == bridge.spans[i] IN
            /\ span.ends <= 1
            /\ span.ends = 0 =>
                 (\E k \in DOMAIN bridge.held : bridge.held[k] = i)
                   \/ \E j \in DOMAIN bridge.spans : j > i /\ bridge.spans[j].key = span.key
    /\ \A k \in DOMAIN bridge.held : bridge.spans[bridge.held[k]].ends = 0
    /\ whole => \A k \in DOMAIN bridge.held : k[1] # "correlation" =>
          \E i \in DOMAIN executions :
              /\ executions[i].stage \notin {"due", "ended"}
              /\ k[2] = executions[i].correlation /\ k[3] = executions[i].rule

ObserversExact ==
    /\ watching = "profiler" => ProfileExact
    /\ watching = "metrics" => MetersExact
    /\ watching = "bridge" => SpansSound
=============================================================================
