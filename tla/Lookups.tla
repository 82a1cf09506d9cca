------------------------------- MODULE Lookups -------------------------------
(***************************************************************************)
(* DataResolver and LookupCache: the lookups of a rule are called together *)
(* and waited for together.  A lookup that may use the cache looks before  *)
(* the call of its service and stores after it, so that other lookups of   *)
(* the same key come between; an answer stands for the number of the call  *)
(* that gave it, or is undefined.                                          *)
(***************************************************************************)
EXTENDS Integers, Sequences, FiniteSets

CONSTANTS
    Lookup,         \* the lookups that rules can have
    LookupOf,       \* lookup -> [key, cached, ttl, onError], key: service, method, arguments
    RuleLookups,    \* the sequences of lookups of rules
    Undefined,      \* the answer undefined, and no entry
    MaxResolutions, MaxCalls, MaxLookupTime  \* bounds

VARIABLES
    cache,        \* key -> its entry: value, expiresAt, and history: since when
    hits, misses,
    gets,         \* history: how often the cache was asked
    resolutions,  \* resolveAll() calls: per lookup its state, and what came of it
    calls,        \* history: of each call of a service its key and when it was answered
    lookupClock

lookupVars == <<cache, hits, misses, gets, resolutions, calls, lookupClock>>

LookupKeys == {LookupOf[l].key : l \in Lookup}

LookupInit ==
    /\ cache = [k \in LookupKeys |-> Undefined] /\ hits = 0 /\ misses = 0 /\ gets = 0
    /\ resolutions = <<>> /\ calls = <<>> /\ lookupClock = 0

\* Mutant of Fresh: an entry is good up to the moment at which it expires.
FreshLate(key) == cache[key] # Undefined /\ lookupClock <= cache[key].expiresAt

\* get() returns the value of an entry that has not expired, and Undefined otherwise.
Fresh(key) == cache[key] # Undefined /\ lookupClock < cache[key].expiresAt

CacheGet(key) == IF Fresh(key) THEN cache[key].value ELSE Undefined

\* get() deletes an entry that has expired.
Looked(key) == IF Fresh(key) THEN cache[key] ELSE Undefined

Asked(rule) == {i \in DOMAIN rule : LookupOf[rule[i]].cached}

\* resolveAll(): every lookup looks into the cache and, on a miss or an entry that is
\* undefined, calls its service; no answer comes before all are called.
Resolve(rule) ==
    LET key(i) == LookupOf[rule[i]].key
        found(i) == IF i \in Asked(rule) THEN CacheGet(key(i)) ELSE Undefined
        called == {i \in DOMAIN rule : found(i) = Undefined}
        hit == {i \in Asked(rule) : Fresh(key(i))}
        number(i) == Len(calls) + Cardinality({j \in called : j <= i})
    IN  /\ Len(resolutions) < MaxResolutions /\ Len(calls) + Cardinality(called) <= MaxCalls
        /\ cache' = [k \in LookupKeys |->
                        IF \E i \in Asked(rule) : key(i) = k THEN Looked(k) ELSE cache[k]]
        /\ hits' = hits + Cardinality(hit)
        /\ misses' = misses + Cardinality(Asked(rule) \ hit)
        /\ gets' = gets + Cardinality(Asked(rule))
        /\ calls' = [n \in 1..Len(calls) + Cardinality(called) |->
                        IF n <= Len(calls) THEN calls[n]
                        ELSE [key |-> key(CHOOSE i \in called : number(i) = n), answered |-> -1]]
        /\ resolutions' = Append(resolutions,
               [rule |-> rule, outcome |-> IF called = {} THEN "resolved" ELSE "waiting",
                state |-> [i \in DOMAIN rule |->
                              IF i \in called THEN [at |-> "called", call |-> number(i)]
                              ELSE [at |-> "cached", call |-> found(i), looked |-> lookupClock]]])
        /\ UNCHANGED lookupClock

Pending(r) == {i \in DOMAIN resolutions[r].state : resolutions[r].state[i].at = "called"}

\* What becomes of a rule when all its lookups are settled: the first that failed with
\* onError 'fail' is thrown, any other failure skips the rule.
Outcome(r, state) ==
    LET strategy(i) == LookupOf[resolutions[r].rule[i]].onError
        failed == {i \in DOMAIN state : state[i].at = "failed"}
    IN  IF \E i \in DOMAIN state : state[i].at = "called" THEN "waiting"
        ELSE IF \E i \in failed : strategy(i) = "fail" THEN "thrown"
        ELSE IF failed # {} THEN "skipped" ELSE "resolved"

Settles(r, i, new) ==
    LET state == [resolutions[r].state EXCEPT ![i] = new]
    IN  resolutions' = [resolutions EXCEPT ![r].state = state, ![r].outcome = Outcome(r, state)]

\* A service answers: the entry is stored from now on, over any that is there.
Answer(r, i, defined) ==
    LET lookup == LookupOf[resolutions[r].rule[i]]
        call == resolutions[r].state[i].call
        value == IF defined THEN call ELSE Undefined
    IN  /\ calls' = [calls EXCEPT ![call].answered = lookupClock]
        /\ cache' = IF ~lookup.cached THEN cache
                    ELSE [cache EXCEPT ![lookup.key] =
                             [value |-> value, expiresAt |-> lookupClock + lookup.ttl]]
        /\ Settles(r, i, [at |-> "answered", call |-> value])
        /\ UNCHANGED <<hits, misses, gets, lookupClock>>

\* The service is not registered, or the call rejects.
LookupFails(r, i) ==
    /\ Settles(r, i, [at |-> "failed", call |-> Undefined])
    /\ UNCHANGED <<cache, hits, misses, gets, calls, lookupClock>>

\* cleanup()
CleanupCache ==
    /\ cache' = [k \in LookupKeys |-> Looked(k)]
    /\ UNCHANGED <<hits, misses, gets, resolutions, calls, lookupClock>>

\* clear()
ClearCache ==
    /\ cache' = [k \in LookupKeys |-> Undefined]
    /\ hits' = 0 /\ misses' = 0 /\ gets' = 0
    /\ UNCHANGED <<resolutions, calls, lookupClock>>

LookupTick ==
    /\ lookupClock < MaxLookupTime
    /\ lookupClock' = lookupClock + 1
    /\ UNCHANGED <<cache, hits, misses, gets, resolutions, calls>>

LookupNext ==
    \/ \E rule \in RuleLookups : Resolve(rule)
    \/ \E r \in DOMAIN resolutions : \E i \in Pending(r) :
          LookupFails(r, i) \/ \E defined \in BOOLEAN : Answer(r, i, defined)
    \/ CleanupCache \/ ClearCache \/ LookupTick

LookupSpec == LookupInit /\ [][LookupNext]_lookupVars

-----------------------------------------------------------------------------
(* Properties *)

LongestTtl(key) ==
    CHOOSE t \in {LookupOf[l].ttl : l \in Lookup} :
        /\ \E l \in Lookup : LookupOf[l].key = key /\ LookupOf[l].cached /\ LookupOf[l].ttl = t
        /\ \A l \in Lookup : LookupOf[l].key = key /\ LookupOf[l].cached => LookupOf[l].ttl <= t

\* A value from the cache is one that a service gave for the same key, less than the
\* longest time ago for which a lookup of this key keeps it; and a rule goes on only when
\* none of its lookups failed, although they are called together and settle in any order.
CachedIsFresh ==
    /\ \A r \in DOMAIN resolutions : \A i \in DOMAIN resolutions[r].state :
          LET s == resolutions[r].state[i]
              key == LookupOf[resolutions[r].rule[i]].key
          IN  s.at = "cached" =>
                 /\ calls[s.call].key = key /\ calls[s.call].answered >= 0
                 /\ s.looked < calls[s.call].answered + LongestTtl(key)
    /\ \A r \in DOMAIN resolutions :
          (resolutions[r].outcome = "resolved") =
              (\A i \in DOMAIN resolutions[r].state :
                  resolutions[r].state[i].at \in {"cached", "answered"})
    /\ hits + misses = gets

\* A lookup gets no value that is older than its own ttl.
OwnTtlKept ==
    \A r \in DOMAIN resolutions : \A i \in DOMAIN resolutions[r].state :
        LET s == resolutions[r].state[i]
        IN  s.at = "cached" =>
                s.looked < calls[s.call].answered + LookupOf[resolutions[r].rule[i]].ttl
=============================================================================
