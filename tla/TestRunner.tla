----------------------------- MODULE TestRunner -----------------------------
(***************************************************************************)
(* TestRunner: scenarios run one after the other, each in an engine of its *)
(* own, against a timeout that does not end what it interrupts.  Of the    *)
(* engine there is what the runner uses of it: calls that end when what    *)
(* rules do in response is done, facts, timers, and whom it tells.         *)
(***************************************************************************)
EXTENDS Integers, SequencesExt

CONSTANTS
    ScenarioFiles,  \* files: sequences of scenarios with initial, actions, assertions
    Response,       \* what rules do when a fact is set, an event emitted, a timer expires
    FactKeys, TimerNames,
    NotSet          \* the value of a fact that there is not

VARIABLES
    scenarios,      \* the file that runs
    bench,          \* for each scenario its engine and what the runner knows of it
    scenarioResults

runnerVars == <<scenarios, bench, scenarioResults>>

NotBegun ==
    [ phase |-> "waiting",                   \* what runScenario has come to
      loop |-> "on",                         \* what the function under the timeout has come to
      begun |-> 0, underway |-> FALSE,       \* the calls of the present part begun, and the last
      engineRuns |-> FALSE, facts |-> [k \in FactKeys |-> NotSet], timers |-> {},
      doing |-> <<>>,                        \* what rules have still to do for the call
      expired |-> <<>>,                      \* and for timers that expired
      told |-> <<>>, seenTimers |-> {},      \* emittedEvents and setTimers of the runner
      happened |-> {}, everSet |-> {} ]      \* history: all events with their phase, all timers

RunnerInit ==
    /\ scenarios \in ScenarioFiles
    /\ bench = [i \in DOMAIN scenarios |-> NotBegun]
    /\ scenarioResults = <<>>

-----------------------------------------------------------------------------
(* The engine of a scenario *)

\* One thing that a call, a rule or a timer does, and what follows from it.
Done(b, effect, rest, field) ==
    LET after == [b EXCEPT ![field] = Response[effect] \o rest]
    IN  CASE effect.does = "set_fact" -> [after EXCEPT !.facts[effect.key] = effect.value]
          [] effect.does = "set_timer" -> [after EXCEPT !.timers = @ \cup {effect.timer},
                                                        !.everSet = @ \cup {effect.timer}]
          [] effect.does = "cancel_timer" -> [after EXCEPT !.timers = @ \ {effect.timer}]
          [] effect.does = "emit" ->
                [after EXCEPT !.told = IF b.phase \in {"acting", "stopping"} THEN Append(@, effect.topic)
                                       ELSE @,
                              !.happened = @ \cup {<<effect.topic, b.phase>>}]

EngineWorks(i) ==
    \E field \in {"doing", "expired"} :
        /\ bench[i][field] # <<>>
        /\ bench' = [bench EXCEPT ![i] = Done(@, Head(@[field]), Tail(@[field]), field)]
        /\ UNCHANGED <<scenarios, scenarioResults>>

\* An engine that is being stopped passes no timer on.
TimerExpires(i, n) ==
    /\ n \in bench[i].timers
    /\ bench' = [bench EXCEPT ![i].timers = @ \ {n},
                              ![i].expired = IF bench[i].engineRuns
                                             THEN Append(@, [does |-> "emit", topic |-> n]) ELSE @]
    /\ UNCHANGED <<scenarios, scenarioResults>>

-----------------------------------------------------------------------------
(* runScenario *)

Begin(i) ==
    /\ bench[i].phase = "waiting"
    /\ \A j \in 1..i - 1 : bench[j].phase = "over"
    /\ bench' = [bench EXCEPT ![i].phase = "starting", ![i].engineRuns = TRUE]
    /\ UNCHANGED <<scenarios, scenarioResults>>

\* A call has ended when nothing is left of what it has led to.
Ended(b) == ~b.underway \/ b.doing = <<>>

SetInitialFact(i) ==
    LET b == bench[i]
    IN  /\ b.phase = "starting" /\ Ended(b) /\ b.begun < Len(scenarios[i].initial)
        /\ bench' = [bench EXCEPT ![i].begun = @ + 1, ![i].underway = TRUE,
                                  ![i].doing = <<scenarios[i].initial[b.begun + 1]>>]
        /\ UNCHANGED <<scenarios, scenarioResults>>

\* The runner subscribes only now: what the initial facts led to it has not seen.
Subscribe(i) ==
    LET b == bench[i]
    IN  /\ b.phase = "starting" /\ Ended(b) /\ b.begun = Len(scenarios[i].initial)
        /\ bench' = [bench EXCEPT ![i].phase = "acting", ![i].begun = 0, ![i].underway = FALSE]
        /\ UNCHANGED <<scenarios, scenarioResults>>

\* executeAction; a wait is a call that leads to nothing.  After the timeout the loop goes
\* on, until it calls an engine that has been stopped.
StartAction(i) ==
    LET b == bench[i]
        action == scenarios[i].actions[b.begun + 1]
    IN  /\ b.phase \notin {"waiting", "starting"} /\ b.loop = "on" /\ ~b.underway
        /\ b.begun < Len(scenarios[i].actions)
        /\ bench' = IF action.does = "wait" \/ b.engineRuns
                      THEN [bench EXCEPT ![i].begun = @ + 1, ![i].underway = TRUE,
                                         ![i].doing = IF action.does = "wait" THEN @ ELSE <<action>>]
                      ELSE [bench EXCEPT ![i].loop = "rejected"]
        /\ UNCHANGED <<scenarios, scenarioResults>>

\* The timers that there are when an action ends are noted.
ActionEnds(i) ==
    LET b == bench[i]
    IN  /\ b.phase \notin {"waiting", "starting"} /\ b.loop = "on" /\ b.underway /\ b.doing = <<>>
        /\ bench' = [bench EXCEPT ![i].underway = FALSE, ![i].seenTimers = @ \cup b.timers]
        /\ UNCHANGED <<scenarios, scenarioResults>>

\* The result, and finally engine.stop(), which refuses calls from its beginning.
Returns(i, result) ==
    /\ scenarioResults' = Append(scenarioResults, result)
    /\ bench' = [bench EXCEPT ![i].phase = "stopping", ![i].engineRuns = FALSE,
                              ![i].loop = IF result.error = "none" THEN "resolved"
                                          ELSE IF result.error = "action" THEN "rejected" ELSE @]
    /\ UNCHANGED scenarios

\* evaluateAssertion
Holds(b, a) ==
    CASE a.type = "fact_equals" -> b.facts[a.key] = a.value
      [] a.type = "fact_exists" -> b.facts[a.key] # NotSet
      [] a.type = "fact_not_exists" -> b.facts[a.key] = NotSet
      [] a.type = "event_emitted" -> Contains(b.told, a.topic)
      [] a.type = "timer_set" -> a.timer \in b.timers \cup b.seenTimers
      [] a.type = "timer_not_set" -> a.timer \notin b.timers

ActionsEnd(i) ==
    LET b == bench[i]
        failed == {a \in scenarios[i].assertions : ~Holds(b, a)}
    IN  /\ b.phase = "acting" /\ b.loop = "on" /\ ~b.underway
        /\ b.begun = Len(scenarios[i].actions)
        /\ Returns(i, [scenario |-> i, passed |-> failed = {}, failed |-> failed, error |-> "none"])

\* executeWithTimeout: what fn() is doing goes on.
TimesOut(i) ==
    /\ bench[i].phase = "acting"
    /\ Returns(i, [scenario |-> i, passed |-> FALSE, failed |-> {}, error |-> "timeout"])

\* Starting the engine, registering a rule, a fact or an action fails.
ScenarioFails(i) ==
    /\ \/ bench[i].phase = "starting"
       \/ bench[i].phase = "acting" /\ bench[i].loop = "on" /\ bench[i].underway
    /\ Returns(i, [scenario |-> i, passed |-> FALSE, failed |-> {}, error |-> "action"])

\* stop() has returned, and the next scenario may begin; rules may still be at work.
StopEnds(i) ==
    /\ bench[i].phase = "stopping"
    /\ bench' = [bench EXCEPT ![i].phase = "over", ![i].timers = {}]
    /\ UNCHANGED <<scenarios, scenarioResults>>

RunnerNext ==
    \E i \in DOMAIN scenarios :
        \/ Begin(i) \/ SetInitialFact(i) \/ Subscribe(i) \/ StartAction(i) \/ ActionEnds(i)
        \/ ActionsEnd(i) \/ TimesOut(i) \/ ScenarioFails(i) \/ StopEnds(i) \/ EngineWorks(i)
        \/ \E n \in TimerNames : TimerExpires(i, n)

RunnerSpec == RunnerInit /\ [][RunnerNext]_runnerVars

-----------------------------------------------------------------------------
(* run() and resultToFailures *)

PassedCount == Cardinality({n \in DOMAIN scenarioResults : scenarioResults[n].passed})

ResultToFailures ==
    {<<r.scenario, "execution">> : r \in {x \in ToSet(scenarioResults) : x.error # "none"}}
    \cup UNION {{<<r.scenario, a>> : a \in r.failed} : r \in ToSet(scenarioResults)}

-----------------------------------------------------------------------------
(* Properties *)

\* Scenarios have one result each, in their order, and one engine at a time is used by the
\* runner, also when the actions of one that timed out go on.  One that passed has done all
\* its actions, and what it was asked for has happened in its own engine and since its
\* first action; the test fails when, and only when, it can say where.
ScenariosSound ==
    /\ \A n \in DOMAIN scenarioResults : scenarioResults[n].scenario = n
    /\ Cardinality({i \in DOMAIN bench : bench[i].phase \in {"starting", "acting", "stopping"}}) <= 1
    /\ \A i \in DOMAIN bench :
          /\ bench[i].engineRuns => \A j \in DOMAIN bench : j # i => ~bench[j].engineRuns
          /\ bench[i].phase \in {"waiting", "starting", "acting"} <=>
                i \notin DOMAIN scenarioResults
    /\ \A r \in ToSet(scenarioResults) :
          r.passed => LET b == bench[r.scenario]
                          s == scenarios[r.scenario]
                      IN  /\ b.loop = "resolved" /\ b.begun = Len(s.actions) /\ ~b.underway
                          /\ \A a \in s.assertions :
                                /\ a.type = "event_emitted" => <<a.topic, "acting">> \in b.happened
                                /\ a.type = "timer_set" => a.timer \in b.everSet
    /\ (PassedCount = Len(scenarioResults)) = (ResultToFailures = {})

\* A timer that was set is found by timer_set: it is not when it expires, or is cancelled,
\* before the action ends in which it was set.
TimersSeen ==
    \A r \in ToSet(scenarioResults) : \A a \in r.failed :
        a.type = "timer_set" => a.timer \notin bench[r.scenario].everSet

\* An event of a scenario is found by event_emitted: it is not when an initial fact led to it.
EventsSeen ==
    \A r \in ToSet(scenarioResults) : \A a \in r.failed :
        a.type = "event_emitted" => <<a.topic, "starting">> \notin bench[r.scenario].happened
=============================================================================
