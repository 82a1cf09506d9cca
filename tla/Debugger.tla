------------------------------ MODULE Debugger ------------------------------
(***************************************************************************)
(* DebugController: sessions with breakpoints on the entries of the trace  *)
(* collector.  A hit is counted, and pauses the session or takes a         *)
(* snapshot in the step that records the entry.  A paused session pauses   *)
(* nothing else.                                                           *)
(***************************************************************************)
EXTENDS Traces, TLC

CONSTANTS
    Breakpoint,      \* [type, ruleId, pattern, actionType, action]
    KeyPatterns,     \* for each pattern of keys, the keys that it matches
    MaxSessions,     \* bounds on the sessions that there are, and on the calls of sessions
    MaxDebugCalls

VARIABLES
    production,   \* NODE_ENV
    subscribed,   \* whether the controller is there
    debugCalls,   \* how many calls of sessions there were
    sessions      \* session -> [paused, breakpoints, snapshots, totalHits, removedHits]

debugVars == <<production, subscribed, debugCalls, sessions>>

-----------------------------------------------------------------------------
(* Which entries a breakpoint is for *)

\* matchesTopicPattern, on the segments: "**" ends the comparison, and "*" does not look
\* whether there is a segment.
MatchesTopicPattern(topic, pattern) ==
    LET stars == {i \in DOMAIN pattern : pattern[i] = "**"}
        compared == IF stars = {} THEN DOMAIN pattern
                    ELSE {i \in DOMAIN pattern : \A j \in stars : i < j}
    IN  \/ pattern = <<"*">>
        \/ /\ \A i \in compared : pattern[i] = "*" \/ (i <= Len(topic) /\ pattern[i] = topic[i])
           /\ stars = {} => Len(pattern) = Len(topic)

TypesOf == [ rule |-> {"rule_triggered", "rule_executed", "rule_skipped"}, event |-> {"event_emitted"},
             fact |-> {"fact_changed"}, action |-> {"action_started", "action_completed", "action_failed"} ]

MatchesBreakpoint(e, b) ==
    /\ e.type \in TypesOf[b.type]
    /\ b.type \in {"rule", "action"} /\ b.ruleId # NoField => e.ruleId = b.ruleId
    /\ b.type = "event" /\ b.pattern # NoField => MatchesTopicPattern(e.detail, b.pattern)
    /\ b.type = "fact" /\ b.pattern # NoField => e.detail \in KeyPatterns[b.pattern]
    /\ b.type = "action" /\ b.actionType # NoField => e.detail = b.actionType

\* createSnapshot takes the recent traces, the newest of which is told.
Snapshot(triggeredBy) == [triggeredBy |-> triggeredBy, newest |-> Head(GetRecent(1)')]

\* handleBreakpointHit
Hit(session, i) ==
    LET b == session.breakpoints[i]
        counted == [session EXCEPT !.breakpoints[i].hitCount = @ + 1, !.totalHits = @ + 1]
    IN  CASE b.on.action = "pause" /\ ~production -> [counted EXCEPT !.paused = TRUE]
          [] b.on.action = "snapshot" -> [counted EXCEPT !.snapshots = Append(@, Snapshot(b.on))]
          [] OTHER -> counted

\* processTraceEntry for one session
Processed(session, e) ==
    FoldLeft(LAMBDA s, i : IF s.breakpoints[i].enabled /\ MatchesBreakpoint(e, s.breakpoints[i].on)
                             THEN Hit(s, i) ELSE s,
             session, [i \in DOMAIN session.breakpoints |-> i])

-----------------------------------------------------------------------------
(* The controller *)

DebugInit ==
    /\ TraceInit
    /\ production \in BOOLEAN /\ subscribed = TRUE /\ debugCalls = 0 /\ sessions = <<>>

Debug ==
    /\ \E s \in EngineSteps :
         /\ EngineStep(s)
         /\ sessions' = IF tracing /\ subscribed
                          THEN [id \in DOMAIN sessions |-> Processed(sessions[id], Numbered(s.entry))]
                          ELSE sessions
    /\ UNCHANGED <<production, subscribed, debugCalls>>

CreateSession ==
    /\ Cardinality(DOMAIN sessions) < MaxSessions
    /\ sessions' = (debugCalls + 1 :> [paused |-> FALSE, breakpoints |-> <<>>, snapshots |-> <<>>,
                                        totalHits |-> 0, removedHits |-> 0]) @@ sessions

Without(id) == [other \in DOMAIN sessions \ {id} |-> sessions[other]]

EndSession(id) == sessions' = Without(id)

\* A breakpoint that pauses is refused in production.
AddBreakpoint(id, b, enabled) ==
    /\ b.action = "pause" => ~production
    /\ sessions' = [sessions EXCEPT ![id].breakpoints =
                        Append(@, [on |-> b, enabled |-> enabled, hitCount |-> 0])]

RemoveBreakpoint(id, i) ==
    sessions' = [sessions EXCEPT ![id].removedHits = @ + sessions[id].breakpoints[i].hitCount,
                                 ![id].breakpoints = RemoveAt(@, i)]

\* enableBreakpoint, disableBreakpoint
SetBreakpoint(id, i, enabled) ==
    sessions' = [sessions EXCEPT ![id].breakpoints[i].enabled = enabled]

\* resume(), and step(), which does the same: nothing reads stepMode.
Resume(id) ==
    /\ ~production /\ sessions[id].paused
    /\ sessions' = [sessions EXCEPT ![id].paused = FALSE]

TakeSnapshot(id) ==
    sessions' = [sessions EXCEPT ![id].snapshots =
        Append(@, [triggeredBy |-> NoField,
                   newest |-> IF entries = <<>> THEN NoField ELSE Last(entries)])]

ClearSnapshots(id) == sessions' = [sessions EXCEPT ![id].snapshots = <<>>]

StopDebugger ==
    /\ subscribed' = FALSE
    /\ sessions' = <<>>
    /\ UNCHANGED <<traceVars, production, debugCalls>>

SessionCall ==
    \/ CreateSession
    \/ \E id \in DOMAIN sessions :
         \/ EndSession(id) \/ Resume(id) \/ TakeSnapshot(id) \/ ClearSnapshots(id)
         \/ \E b \in Breakpoint, enabled \in BOOLEAN : AddBreakpoint(id, b, enabled)
         \/ \E i \in DOMAIN sessions[id].breakpoints :
              RemoveBreakpoint(id, i) \/ \E enabled \in BOOLEAN : SetBreakpoint(id, i, enabled)

DebugNext ==
    \/ Debug
    \/ /\ debugCalls < MaxDebugCalls
       /\ SessionCall
       /\ debugCalls' = debugCalls + 1
       /\ UNCHANGED <<traceVars, production, subscribed>>
    \/ StopDebugger

DebugSpec == DebugInit /\ [][DebugNext]_<<traceVars, debugVars>>

-----------------------------------------------------------------------------
(* Properties *)

\* The hits of a session are those of its breakpoints, present and removed; the newest
\* trace of a snapshot that a breakpoint took is one that the breakpoint is for; and only a
\* breakpoint pauses, and never in production.
DebuggerSound ==
    \A id \in DOMAIN sessions :
        LET session == sessions[id] IN
          /\ session.totalHits = session.removedHits
                 + FoldLeft(LAMBDA n, b : n + b.hitCount, 0, session.breakpoints)
          /\ \A i \in DOMAIN session.snapshots :
                LET s == session.snapshots[i] IN
                  s.triggeredBy # NoField => MatchesBreakpoint(s.newest, s.triggeredBy)
          /\ session.paused => ~production /\ session.totalHits > 0
=============================================================================
