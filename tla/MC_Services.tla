---------------------------- MODULE MC_Services ----------------------------
(***************************************************************************)
(* The services around the engine: those of Services, whose guarantees     *)
(* have proofs for every number of what they keep, with others beside them *)
(* that are only model-checked.  A step of the whole is a step of both.    *)
(***************************************************************************)
EXTENDS Services, RuleSchema, RuleBuilders

VARIABLES
    ruleBase, factBase, goal, answer,
    origin, parameters, blueprint, template, checked, rule, problem,
    tracing, entries, byField, recorded, triggers, executions,
    switches, watching, attached, whole, seen, counts, counters, trackedRules, bridge,
    production, subscribed, debugCalls, sessions,
    measured, aggregation, stats, detected, statTime,
    ruleActions, blocks, variables, told,
    tracked, versions, unsaved, preloaded, flushInterval, storeOps, saved, recordedAll, exempt,
    loadedOver, storeCalls, versionTime,
    pastLog, pastLive, pastTopics, pastCorrelations, pastClock, causedBy, traceLog,
    scenarios, bench, scenarioResults

-----------------------------------------------------------------------------
(* The audit log, with storage and without *)

Fired == [type |-> "fired", category |-> "execution", source |-> "engine", ruleId |-> "r",
          correlationId |-> "c"]
Skipped == [type |-> "skipped", category |-> "execution", source |-> "engine", ruleId |-> None,
            correlationId |-> None]

MCStoredKinds == {Fired}
MCRecordedKinds == {Fired, Skipped}

\* Versions of one rule, and of two that are saved and cleaned up one after the other.
MCSnapshots == {[name |-> 1, lookups |-> 1]}

Versions == INSTANCE RuleVersions WITH
                Versioned <- {"r"}, Snapshot <- MCSnapshots, DiffFields <- {"name"},
                ChangeType <- {"updated"}, MaxPerRule <- 2, MaxAge <- 0, NoTime <- None,
                MaxRecords <- 3, MaxStoreCalls <- 3, MaxVersionTime <- 1
TwoHistories == INSTANCE RuleVersions WITH
                    Versioned <- {"r", "s"}, Snapshot <- MCSnapshots, DiffFields <- {"name"},
                    ChangeType <- {"updated"}, MaxPerRule <- 2, MaxAge <- 0, NoTime <- None,
                    MaxRecords <- 2, MaxStoreCalls <- 2, MaxVersionTime <- 1

-----------------------------------------------------------------------------
(* Who is told: server-sent events, subscribers, webhooks *)

MCOfPattern == [x \in {"*", "order.*"} |-> IF x = "*" THEN {"order.new", "user"} ELSE {"order.new"}]

LongEntry == [category |-> "execution", type |-> "fired", ruleId |-> "r", source |-> "engine",
              correlationId |-> "c", durationMs |-> 1]
PlainEntry == [category |-> "system", type |-> "started", ruleId |-> None, source |-> "engine",
               correlationId |-> None, durationMs |-> None]
AnyEntry == [categories |-> {}, types |-> {}, ruleIds |-> {}, sources |-> {},
             correlationIds |-> {}, minDurationMs |-> None]

MCTopics == {"order.new", "user"}
MCEventFilters == {{}, {"order.*"}}
MCEntries == {LongEntry, PlainEntry}
MCEntryFilters ==
    {AnyEntry, [AnyEntry EXCEPT !.ruleIds = {"r"}],
     [AnyEntry EXCEPT !.categories = {"system"}, !.minDurationMs = 1]}
MCSubPatterns == {{"*"}, {"*", "order.*"}}
MCHookPatterns == {{"order.*"}, {}}

-----------------------------------------------------------------------------
(* What conditions read: events, lookups, baselines over facts *)

InOrder == [topic |-> "order.new", correlationId |-> "c"]
Alone == [topic |-> "user", correlationId |-> None]

MCEventKinds == {InOrder, Alone}
MCLimitKinds == {InOrder}

\* Causes across two correlations, with the traces of two events.
Past == INSTANCE History WITH
            Event <- {InOrder, [InOrder EXCEPT !.correlationId = "d"], Alone}, NoCorrelation <- None,
            TopicCovers <- OfPattern, MaxStored <- 3, eventLog <- pastLog, live <- pastLive,
            byTopic <- pastTopics, byCorrelation <- pastCorrelations, eventClock <- pastClock,
            Elsewhere <- 0, MaxTraceLog <- 2
MCLookupOf == [short |-> [key |-> "k", cached |-> TRUE, ttl |-> 1, onError |-> "skip"],
               long |-> [key |-> "k", cached |-> TRUE, ttl |-> 2, onError |-> "fail"],
               plain |-> [key |-> "k", cached |-> FALSE, ttl |-> 0, onError |-> "skip"]]

MCLookup == DOMAIN MCLookupOf
MCRuleLookups == {<<"short">>, <<"long", "plain">>}

\* Keys and patterns of facts: of one to three segments, with each kind of wildcard.
MCFactKeys == {<<"user", "a">>, <<"user", "b", "age">>, <<"order", "a">>}
MCFactPatterns ==
    {<<"user", "a">>, <<"user", "*">>, <<"user", "*", "age">>, <<"*", "a">>, <<"order", "*">>,
     <<"user", "a*">>, <<"u*", "a">>, <<"baseline", "m", "*">>, <<"baseline", "m", "*", "*">>,
     <<"*", "m", "stats">>, <<"m", "stats">>}
MCPartial == {"a*", "u*"}
MCPartialCovers == [p \in MCPartial |-> IF p = "a*" THEN {"a", "age"} ELSE {"user"}]

-----------------------------------------------------------------------------
(* What is asked before rules run: can they reach a goal, and are they valid *)

Number(n) == [kind |-> "number", number |-> n, parts |-> {}]
TextOf(n) == [kind |-> "text", number |-> n, parts |-> {n}]
ListOf(ns) == [kind |-> "list", number |-> 0, parts |-> ns]
NoFact == [kind |-> "undefined", number |-> 0, parts |-> {}]

Cond(source, operator, value) ==
    [source |-> source, operator |-> operator, value |-> value, ref |-> None]

Candidates(id, conditions, produces, emits) ==
    [id : {id}, conditions : conditions, facts : produces, events : emits]

\* Three rules, of the highest priority first, that can need one another's facts.
MCRuleBases ==
    LET First == Candidates(1, {<<>>, <<Cond("q", "gte", Number(1))>>,
                                <<Cond("s", "exists", Number(0)), Cond("q", "eq", Number(2))>>,
                                <<Cond("s", "lt", Number(1)), Cond(None, "not_exists", Number(0))>>},
                            {{"p"}, {"q"}}, {{}})
        Second == Candidates(2, {<<>>, <<Cond("q", "eq", Number(1)), Cond("s", "neq", Number(1))>>,
                                 <<Cond("s", "exists", Number(0))>>, <<Cond("p", "lte", Number(1))>>,
                                 <<Cond("q", "not_in", Number(1))>>},
                             {{"p", "q"}, {"s"}}, {{}})
        Third == Candidates(3, {<<>>, <<[Cond("p", "gt", Number(0)) EXCEPT !.ref = "q"]>>,
                                <<Cond("p", "in", ListOf({1})), Cond("s", "eq", Number(1))>>,
                                <<Cond("s", "contains", TextOf(1))>>},
                            {{"q"}, {"s"}}, {{}, {"e"}})
    IN  {<<a, b, c>> : a \in First, b \in Second, c \in Third}

MCFactBases ==
    [p : {NoFact, Number(1)}, q : {NoFact, Number(1)}, s : {NoFact, Number(1), TextOf(1)}]

AnyFact(k) == [type |-> "fact", key |-> k, operator |-> "any", value |-> NoFact]
MCGoals ==
    {AnyFact("p"), AnyFact("q"), [AnyFact("p") EXCEPT !.operator = "gt", !.value = Number(1)],
     [type |-> "event", key |-> "e", operator |-> "any", value |-> NoFact]}

Back == INSTANCE Backward WITH
            RuleBases <- MCRuleBases, FactBases <- MCFactBases, Goals <- MCGoals,
            MaxDepth <- 2, MaxExploredRules <- 4, Elsewhere <- None, NoRef <- None

\* Definitions with and without a default, of a type and of any, also one that refuses
\* its own default.
Defined(name, type, default, refused) ==
    [name |-> name, type |-> type, default |-> default, refused |-> refused]

Tmpl == INSTANCE Templates WITH
            Param <- {"p", "q"}, Given <- {"text", "empty", "number"},
            Textual <- {"text", "empty"}, Absent <- None,
            Def <- {Defined("p", "any", None, {}), Defined("p", "string", None, {"empty"}),
                    Defined("p", "string", "number", {}), Defined("p", "any", "text", {"number"}),
                    Defined("q", "any", None, {})}

\* Values in windows that begin at any time, judged by two and three deviations and by a
\* percentile that there is and one that there is not.
Stats == INSTANCE Statistics WITH
             Measured <- {1, 5, None}, NotANumber <- None,
             Aggregation <- {"count", "sum", "avg", "min", "max"}, SampleWindow <- 1,
             TrainingPeriod <- 2, MinSamples <- 2, Asked <- {0, 2, 9},
             Sensitivities <- {2, 3, 10, 95}, Scale <- 6, Tenths <- 3, MaxMeasured <- 3,
             MaxStatTime <- 3, MaxDetected <- 1

-----------------------------------------------------------------------------
(* What rules do: loops in loops of one name, with a limit, empty and over no list; try     *)
(* blocks with and without the others, in loops and in one another; both branches           *)

Call == [type |-> "call_service"]
Log == [type |-> "log"]
Loop(as, count, max, actions) ==
    [type |-> "for_each", as |-> as, count |-> count, maxIterations |-> max, actions |-> actions]
TryCatch(try, catch, errorAs, finally) ==
    [type |-> "try_catch", try |-> try, catch |-> catch, errorAs |-> errorAs, finally |-> finally]
Branches(then, else) == [type |-> "conditional", then |-> then, else |-> else]

MCActionLists ==
    {<<Loop("x", 2, 3, <<Loop("x", 1, 3, <<Call>>), Log>>)>>,
     <<Loop("x", 3, 2, <<TryCatch(<<Call, Log>>, <<Call, Log>>, "y", <<Call>>)>>), Call>>,
     <<TryCatch(<<Branches(<<Call>>, None), Call>>, None, None, <<Log, Log>>)>>,
     <<TryCatch(<<Call, TryCatch(<<Call>>, <<Log>>, None, None)>>, <<Loop("e", 1, 1, <<Log>>), Log>>,
                "e", None)>>,
     <<Branches(<<Loop("x", -1, 1, <<Log>>)>>, <<Call, Log>>), Loop("x", 0, 1, <<Log>>)>>}

Acting == INSTANCE Actions WITH ActionLists <- MCActionLists, NoBlock <- None

\* Files of two scenarios over rules by which an event sets a timer and a fact, a fact leads
\* to an event, and so does the timer, which is cancelled then.
Emitted(topic) == [does |-> "emit", topic |-> topic]
OfTimer(does) == [does |-> does, timer |-> "t"]
FactSet(value) == [does |-> "set_fact", key |-> "k", value |-> value]
Waited == [does |-> "wait"]

MCResponse ==
    LET effects == {Emitted("go"), Emitted("t"), Emitted("done"), FactSet(1), FactSet(2),
                    OfTimer("set_timer"), OfTimer("cancel_timer")}
    IN  [e \in effects |-> CASE e = Emitted("go") -> <<OfTimer("set_timer"), FactSet(2)>>
                             [] e = Emitted("t") -> <<Emitted("done"), OfTimer("cancel_timer")>>
                             [] e = FactSet(1) -> <<Emitted("done")>>
                             [] OTHER -> <<>>]

Scenario(initial, actions, assertions) ==
    [initial |-> initial, actions |-> actions, assertions |-> assertions]
Follows == {[type |-> "fact_equals", key |-> "k", value |-> 2], [type |-> "event_emitted", topic |-> "done"]}
Starts == {[type |-> "fact_exists", key |-> "k"], [type |-> "timer_set", timer |-> "t"]}
Nothings == {[type |-> "fact_not_exists", key |-> "k"], [type |-> "timer_not_set", timer |-> "t"]}

MCScenarioFiles ==
    {<<Scenario(<<FactSet(1)>>, <<Emitted("go")>>, Follows), Scenario(<<>>, <<Waited, Emitted("go")>>, Starts)>>,
     <<Scenario(<<>>, <<Emitted("go"), Waited>>, Starts), Scenario(<<>>, <<Waited>>, Nothings)>>}

Runner == INSTANCE TestRunner WITH
              ScenarioFiles <- MCScenarioFiles, Response <- MCResponse, FactKeys <- {"k"},
              TimerNames <- {"t"}, NotSet <- None

-----------------------------------------------------------------------------
(* What is told of the engine: traces, their observers, the debugger *)

Buffer == INSTANCE Traces WITH
              TracedRule <- {"r"}, Correlation <- {"c"}, Topics <- {<<"user">>}, Keys <- {"k"},
              NoField <- None, MaxTraces <- 3, MaxTriggers <- 2, MaxExecutions <- 1

\* Two executions of one trigger, with a limit of one label; two triggers of one rule; and
\* what is started and stopped twice.
TwoRules == INSTANCE Observers WITH
                TracedRule <- {"r", "s"}, Correlation <- {"c"}, Topics <- {<<"user">>}, Keys <- {},
                NoField <- None, MaxTraces <- 1, MaxTriggers <- 1, MaxExecutions <- 2,
                MaxLabeledRules <- 1, MaxSwitches <- 1
OneRule == INSTANCE Observers WITH
               TracedRule <- {"r"}, Correlation <- {"c"}, Topics <- {<<"user">>}, Keys <- {},
               NoField <- None, MaxTraces <- 1, MaxTriggers <- 2, MaxExecutions <- 2,
               MaxLabeledRules <- 1, MaxSwitches <- 1
Restarted == INSTANCE Observers WITH
                 TracedRule <- {"r", "s"}, Correlation <- {"c"}, Topics <- {<<"user">>}, Keys <- {"k"},
                 NoField <- None, MaxTraces <- 1, MaxTriggers <- 2, MaxExecutions <- 1,
                 MaxLabeledRules <- 1, MaxSwitches <- 2

On(type, action) ==
    [type |-> type, ruleId |-> None, pattern |-> None, actionType |-> None, action |-> action]

Debugging == INSTANCE Debugger WITH
                 TracedRule <- {"r", "s"}, Correlation <- {"c"},
                 Topics <- {<<"order", "new">>, <<"user">>}, Keys <- {"k", "x"}, NoField <- None,
                 Breakpoint <- {[On("rule", "pause") EXCEPT !.ruleId = "r"],
                                [On("event", "snapshot") EXCEPT !.pattern = <<"order", "*">>],
                                [On("fact", "log") EXCEPT !.pattern = "k*"],
                                [On("action", "snapshot") EXCEPT !.actionType = "emit_event"]},
                 KeyPatterns <- [p \in {"k*"} |-> {"k"}],
                 MaxTraces <- 1, MaxTriggers <- 1, MaxExecutions <- 1,
                 MaxSessions <- 2, MaxDebugCalls <- 3

-----------------------------------------------------------------------------
pastVars == <<pastLog, pastLive, pastTopics, pastCorrelations, pastClock, causedBy, traceLog>>
goalVars == <<ruleBase, factBase, goal, answer>>
templateVars == <<origin, parameters, blueprint, template, checked, rule, problem>>
traceVars == <<tracing, entries, byField, recorded, triggers, executions>>
observerVars == <<switches, watching, attached, whole, seen, counts, counters, trackedRules, bridge>>
debugVars == <<production, subscribed, debugCalls, sessions>>
statVars == <<measured, aggregation, stats, detected, statTime>>
actionVars == <<ruleActions, blocks, variables, told>>
versionVars == <<tracked, versions, unsaved, preloaded, flushInterval, storeOps, saved, recordedAll,
                 exempt, loadedOver, storeCalls, versionTime>>
runnerVars == <<scenarios, bench, scenarioResults>>

otherVars == <<pastVars, goalVars, schemaVars, builderVars, templateVars, traceVars, observerVars,
               debugVars, statVars, actionVars, versionVars, runnerVars>>
allVars == <<servicesVars, otherVars>>

OtherServices == {"history", "goals", "shapes", "builders", "templates", "traces", "two rules traced",
           "one rule traced", "observers restarted", "debugger", "statistics", "actions",
           "versions of a rule", "versions of two rules", "scenarios"}

Traced == {"traces", "two rules traced", "one rule traced", "observers restarted", "debugger"}

OthersInit ==
    /\ Past!EventInit /\ causedBy = <<>> /\ traceLog = <<>>
    /\ IF focus = "goals" THEN Back!BackwardInit
         ELSE ruleBase = <<>> /\ factBase = <<>> /\ goal = None /\ answer = None
    /\ IF focus = "shapes" THEN SchemaInit
         ELSE sort = None /\ raw = <<>> /\ loaded = <<>> /\ verdict = None
    /\ IF focus = "builders" THEN BuilderInit
         ELSE builder = None /\ made = <<>> /\ built = Nothing /\ methodCalls = 0
    /\ Tmpl!TemplateInit /\ (focus = "templates" \/ origin = "yaml")
    /\ TwoRules!ObserverInit /\ Debugging!DebugInit
    /\ focus \in Traced \/ tracing = FALSE
    /\ focus \in Traced \ {"traces", "debugger"} \/ watching = "profiler"
    /\ focus = "debugger" \/ production = FALSE
    /\ Stats!StatInit /\ (focus = "statistics" \/ aggregation = "sum")
    /\ IF focus = "versions of two rules" THEN TwoHistories!VersionInit ELSE Versions!VersionInit
    /\ IF focus = "actions" THEN Acting!ActionInit
         ELSE ruleActions = None /\ blocks = None /\ variables = None /\ told = None
    /\ IF focus = "scenarios" THEN Runner!RunnerInit
         ELSE scenarios = <<>> /\ bench = <<>> /\ scenarioResults = <<>>

OthersNext ==
    /\ IF focus = "history" THEN Past!HistoryNext ELSE UNCHANGED pastVars
    /\ IF focus = "goals" THEN Back!BackwardNext ELSE UNCHANGED goalVars
    /\ IF focus = "shapes" THEN SchemaNext ELSE UNCHANGED schemaVars
    /\ IF focus = "builders" THEN BuilderNext ELSE UNCHANGED builderVars
    /\ IF focus = "templates" THEN Tmpl!TemplateNext ELSE UNCHANGED templateVars
    /\ CASE focus = "traces" -> Buffer!TraceNext /\ UNCHANGED <<observerVars, debugVars>>
         [] focus = "two rules traced" -> TwoRules!ObserverNext /\ UNCHANGED debugVars
         [] focus = "one rule traced" -> OneRule!ObserverNext /\ UNCHANGED debugVars
         [] focus = "observers restarted" -> Restarted!ObserverNext /\ UNCHANGED debugVars
         [] focus = "debugger" -> Debugging!DebugNext /\ UNCHANGED observerVars
         [] OTHER -> UNCHANGED <<traceVars, observerVars, debugVars>>
    /\ IF focus = "statistics" THEN Stats!StatNext ELSE UNCHANGED statVars
    /\ IF focus = "actions" THEN Acting!ActionNext ELSE UNCHANGED actionVars
    /\ CASE focus = "versions of a rule" -> Versions!VersionNext
         [] focus = "versions of two rules" -> TwoHistories!VersionNext
         [] OTHER -> UNCHANGED versionVars
    /\ IF focus = "scenarios" THEN Runner!RunnerNext ELSE UNCHANGED runnerVars

AllInit == focus \in Services \cup OtherServices /\ ServicesInit /\ OthersInit
AllNext == ServicesNext /\ OthersNext

\* A behaviour of all has the steps of one service, and implies ServicesSpec: its initial
\* states and its steps are conjunctions with those of Services.
AllSpec == AllInit /\ [][AllNext]_allVars

-----------------------------------------------------------------------------
\* A version of a rule is kept until it is too old or one too many, what is not to be saved
\* is saved, and a query of the versions, of the events by their topics and correlations or
\* of the history finds what a scan finds.
HistoriesExact ==
    /\ focus = "kinds of events" => Kinds!EventQueriesExact
    /\ focus = "limit of events" => Limit!EventQueriesExact
    /\ focus = "history" => Past!TimelinesSound
    /\ focus = "versions of a rule" =>
          Versions!VersionsKept /\ Versions!SavedUnlessUnsaved /\ Versions!VersionsExact
    /\ focus = "versions of two rules" => TwoHistories!VersionsKept /\ TwoHistories!SavedUnlessUnsaved

\* Profiles and counters are of the entries recorded meanwhile, each once, within the limit
\* of labels, and a span is ended once, whenever an observer starts, stops or is reset and
\* however executions take turns; the traces are found by what they are of, a session of the
\* debugger has the hits and the snapshots of its breakpoints, and statistics are those of
\* the events of the training period, as what is judged by them.
ObservationsExact ==
    /\ focus = "traces" => Buffer!TracesExact
    /\ focus = "two rules traced" => TwoRules!ObserversExact
    /\ focus = "one rule traced" => OneRule!ObserversExact
    /\ focus = "observers restarted" => Restarted!ObserversExact
    /\ focus = "debugger" => Debugging!DebuggerSound
    /\ focus = "statistics" => Stats!BaselineSound

\* A try_catch does its other blocks as its try block went, a loop its actions for each
\* element, and each action finds the variables of the loops and catch blocks it is in; a
\* scenario of a test passes by what its own actions did, whatever a timeout left running;
\* and a goal is achievable when a chain of rules within the limits leads to it.
ActionsRun ==
    /\ focus = "actions" => Acting!ActionsSound
    /\ focus = "scenarios" => Runner!ScenariosSound
    /\ focus = "goals" => Back!AnswerExact

\* A rule that was loaded is one that the validator accepts, what the builders of rules and
\* of their parts return, called in any order, is what it accepts, and a rule of a template
\* has allowed values for its parameters.
WhatIsBuilt ==
    /\ focus = "shapes" => LoadedIsValid
    /\ focus = "builders" => BuiltIsValid
    /\ focus = "templates" => Tmpl!InstantiatedSound

=============================================================================
