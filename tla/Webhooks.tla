------------------------------ MODULE Webhooks ------------------------------
(***************************************************************************)
(* WebhookManager: an event starts a delivery to each webhook that is      *)
(* enabled and asks for it, and a delivery goes on by itself: a request    *)
(* that is answered, fails or is aborted at the webhook's timeout, and     *)
(* pauses that double, whatever becomes of the webhook meanwhile.          *)
(***************************************************************************)
EXTENDS Integers, Sequences, FiniteSets

CONSTANTS
    HookPatterns,     \* the sets of patterns a webhook is registered with
    HookTopics,
    HookCovers,       \* pattern -> the topics it matches
    MaxRetries,       \* maxRetries: how many attempts there are
    RetryBaseDelay,   \* retryBaseDelay
    RequestTimeout,   \* timeout of the webhooks
    MaxHooks, MaxHookEvents, MaxHookTime \* bounds

VARIABLES
    hooks,       \* webhooks by id, with those unregistered
    deliveries,  \* the deliveries of every event, to be or over
    hookEvents,  \* history: per event its topic and the webhooks that were to get it
    totals,      \* totalDeliveries, successfulDeliveries, failedDeliveries
    hookClock

hookVars == <<hooks, deliveries, hookEvents, totals, hookClock>>

HookInit ==
    /\ hooks = <<>> /\ deliveries = {} /\ hookEvents = <<>>
    /\ totals = [total |-> 0, successful |-> 0, failed |-> 0] /\ hookClock = 0

Register(patterns) ==
    /\ Len(hooks) < MaxHooks
    /\ hooks' = Append(hooks, [patterns |-> IF patterns = {} THEN {"*"} ELSE patterns,
                               enabled |-> TRUE, registered |-> TRUE])
    /\ UNCHANGED <<deliveries, hookEvents, totals, hookClock>>

Unregister(h) ==
    /\ hooks' = [hooks EXCEPT ![h].registered = FALSE]
    /\ UNCHANGED <<deliveries, hookEvents, totals, hookClock>>

\* enable() and disable()
SetEnabled(h, enabled) ==
    /\ hooks[h].registered
    /\ hooks' = [hooks EXCEPT ![h].enabled = enabled]
    /\ UNCHANGED <<deliveries, hookEvents, totals, hookClock>>

Wanted(topic) ==
    {h \in DOMAIN hooks : /\ hooks[h].registered /\ hooks[h].enabled
                          /\ \E p \in hooks[h].patterns : topic \in HookCovers[p]}

\* deliver(): the matching webhooks as they are now, and the first request to each; the
\* requests of a delivery are remembered by their times.
Deliver(topic) ==
    LET e == Len(hookEvents) + 1
    IN  /\ e <= MaxHookEvents
        /\ hookEvents' = Append(hookEvents, [topic |-> topic, to |-> Wanted(topic)])
        /\ deliveries' = deliveries \cup
              {[hook |-> h, event |-> e, phase |-> "request", sent |-> <<hookClock>>,
                until |-> hookClock + RequestTimeout] : h \in Wanted(topic)}
        /\ UNCHANGED <<hooks, totals, hookClock>>

Becomes(d, new) == deliveries' = (deliveries \ {d}) \cup {new}

\* The response is ok.
Succeed(d) ==
    /\ d.phase = "request"
    /\ Becomes(d, [d EXCEPT !.phase = "delivered", !.until = 0])
    /\ totals' = [totals EXCEPT !.total = @ + 1, !.successful = @ + 1]
    /\ UNCHANGED <<hooks, hookEvents, hookClock>>

Power[k \in Nat] == IF k = 0 THEN 1 ELSE 2 * Power[k - 1]

\* The response is not ok, fetch rejects, or the abort of the timeout makes it: a pause
\* before the next attempt, or the end of the last.
AttemptFails(d) ==
    LET attempt == Len(d.sent)
    IN  /\ d.phase = "request"
        /\ IF attempt < MaxRetries
           THEN /\ Becomes(d, [d EXCEPT !.phase = "sleep",
                                  !.until = hookClock + RetryBaseDelay * Power[attempt - 1]])
                /\ UNCHANGED totals
           ELSE /\ Becomes(d, [d EXCEPT !.phase = "failed", !.until = 0])
                /\ totals' = [totals EXCEPT !.total = @ + 1, !.failed = @ + 1]
        /\ UNCHANGED <<hooks, hookEvents, hookClock>>

\* The pause is over: the next request.
Retry(d) ==
    /\ d.phase = "sleep" /\ hookClock >= d.until
    /\ Becomes(d, [d EXCEPT !.phase = "request", !.sent = Append(@, hookClock),
                            !.until = hookClock + RequestTimeout])
    /\ UNCHANGED <<hooks, hookEvents, totals, hookClock>>

\* Time does not pass by a timeout that is due.
HookTick ==
    /\ hookClock < MaxHookTime
    /\ \A d \in deliveries : d.phase \in {"request", "sleep"} => hookClock < d.until
    /\ hookClock' = hookClock + 1
    /\ UNCHANGED <<hooks, deliveries, hookEvents, totals>>

HookNext ==
    \/ \E patterns \in HookPatterns : Register(patterns)
    \/ \E h \in DOMAIN hooks : Unregister(h) \/ SetEnabled(h, TRUE) \/ SetEnabled(h, FALSE)
    \/ \E topic \in HookTopics : Deliver(topic)
    \/ \E d \in deliveries : Succeed(d) \/ AttemptFails(d) \/ Retry(d)
    \/ HookTick

HookSpec == HookInit /\ [][HookNext]_hookVars

-----------------------------------------------------------------------------
(* Properties *)

Settled(phase) == {d \in deliveries : d.phase = phase}

\* Each event has one delivery to each webhook that was enabled and asked for it then, and
\* to no other, whatever happened to the webhooks since.
OneDeliveryEach ==
    /\ {<<d.hook, d.event>> : d \in deliveries} =
           UNION {{<<h, e>> : h \in hookEvents[e].to} : e \in DOMAIN hookEvents}
    /\ Cardinality(deliveries) = Cardinality({<<d.hook, d.event>> : d \in deliveries})

\* A delivery has at most maxRetries requests, each later than the one before by at least
\* the doubled pause, and is over within all its timeouts and pauses.
RetriesBounded ==
    \A d \in deliveries :
        /\ Len(d.sent) <= MaxRetries
        /\ \A k \in 2..Len(d.sent) : d.sent[k] - d.sent[k - 1] >= RetryBaseDelay * Power[k - 2]
        /\ d.phase \in {"request", "sleep"} =>
              hookClock - d.sent[1] <= MaxRetries * RequestTimeout
                                       + RetryBaseDelay * (Power[MaxRetries - 1] - 1)

\* The totals are the deliveries that are over.
HookTotals ==
    totals = [total |-> Cardinality(Settled("delivered")) + Cardinality(Settled("failed")),
              successful |-> Cardinality(Settled("delivered")),
              failed |-> Cardinality(Settled("failed"))]

DeliveriesExact == OneDeliveryEach /\ RetriesBounded /\ HookTotals
=============================================================================
