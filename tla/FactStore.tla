------------------------------ MODULE FactStore ------------------------------
(***************************************************************************)
(* FactStore: facts by key, the keys by their first segment, and a query   *)
(* by pattern that starts from this index.  A key is the sequence of its   *)
(* segments.  In a pattern a segment can be "*", which stands for any      *)
(* segment, or a member of Partial, which has a "*" beside other           *)
(* characters and stands for the segments that PartialCovers gives it.     *)
(***************************************************************************)
EXTENDS Integers, Sequences, FiniteSets, SequencesExt

CONSTANTS
    Partial, PartialCovers,
    FactKeys,     \* keys that callers set and delete
    FactPatterns, \* patterns that they query
    MaxVersion    \* bound on the versions of a fact

\* Keys and patterns have segments.
ASSUME FactsTyped ==
    \A text \in FactKeys \cup FactPatterns : text \in Seq(ToSet(text)) /\ text # <<>>

VARIABLES
    facts,        \* key -> its version and value
    prefixIndex   \* first segment -> the keys that begin with it

storeVars == <<facts, prefixIndex>>

StoreInit == facts = <<>> /\ prefixIndex = <<>>

HasWildcard(pattern) == \E k \in DOMAIN pattern : pattern[k] \in {"*"} \cup Partial

Covered(pattern, key, k) ==
    \/ pattern[k] = key[k]
    \/ pattern[k] = "*" /\ key[k] # ""
    \/ pattern[k] \in Partial /\ key[k] \in PartialCovers[pattern[k]]

\* matchesFactPattern: equal, or a trailing wildcard alone, which stands for exactly one
\* segment, or the regular expression, whose wildcards stay within a segment.
MatchesFactPattern(key, pattern) ==
    \/ key = pattern
    \/ /\ Len(pattern) > 1 /\ Last(pattern) = "*" /\ ~HasWildcard(Front(pattern))
       /\ Len(key) = Len(pattern) /\ Front(key) = Front(pattern)
    \/ /\ HasWildcard(pattern)
       /\ Len(key) = Len(pattern) /\ \A k \in DOMAIN key : Covered(pattern, key, k)

\* query(): an exact key, a scan when the first segment is the wildcard, or else the keys
\* of the index for the pattern's first segment as it is written.
QueryFacts(pattern) ==
    IF ~HasWildcard(pattern) THEN {pattern} \cap DOMAIN facts
    ELSE IF Head(pattern) = "*" THEN {key \in DOMAIN facts : MatchesFactPattern(key, pattern)}
    ELSE IF Head(pattern) \notin DOMAIN prefixIndex THEN {}
    ELSE {key \in prefixIndex[Head(pattern)] :
             MatchesFactPattern(key, pattern) /\ key \in DOMAIN facts}

\* indexKey for the keys that are new
Indexed(index, keys) ==
    [p \in DOMAIN index \cup {Head(key) : key \in keys} |->
        (IF p \in DOMAIN index THEN index[p] ELSE {}) \cup {key \in keys : Head(key) = p}]

\* unindexKey: a prefix without keys leaves the index.
Unindexed(index, keys) ==
    [p \in {q \in DOMAIN index : ~(index[q] \subseteq keys)} |-> index[p] \ keys]

\* set(): the version counts the values since the key was last created.
SetFact(key, value) ==
    /\ facts' = [k \in DOMAIN facts \cup {key} |->
                    IF k # key THEN facts[k]
                    ELSE [value |-> value,
                          version |-> IF key \in DOMAIN facts THEN facts[key].version + 1 ELSE 1]]
    /\ prefixIndex' = IF key \in DOMAIN facts THEN prefixIndex ELSE Indexed(prefixIndex, {key})

\* delete() for each of them
DeleteFacts(keys) ==
    /\ facts' = [k \in DOMAIN facts \ keys |-> facts[k]]
    /\ prefixIndex' = Unindexed(prefixIndex, keys \cap DOMAIN facts)

ClearFacts == facts' = <<>> /\ prefixIndex' = <<>>

\* What callers do of themselves.
StoreNext ==
    \/ \E key \in FactKeys :
          \/ /\ key \in DOMAIN facts => facts[key].version < MaxVersion
             /\ SetFact(key, 0)
          \/ DeleteFacts({key})
    \/ ClearFacts

StoreSpec == StoreInit /\ [][StoreNext]_storeVars

-----------------------------------------------------------------------------
(* Properties *)

\* A query finds what a scan finds, for every pattern whose first segment is a literal or
\* the wildcard alone, after any sets, deletions and clear.
FactQueryExact ==
    \A pattern \in FactPatterns :
        Head(pattern) \notin Partial =>
            QueryFacts(pattern) = {key \in DOMAIN facts : MatchesFactPattern(key, pattern)}
=============================================================================
