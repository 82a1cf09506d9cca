----------------------------- MODULE HotReload -----------------------------
(***************************************************************************)
(* HotReloadWatcher (src/core/hot-reload/watcher.ts) beside the callers    *)
(* that change rules and groups through the engine.  A check loads the     *)
(* sources one after the other, compares the hashes of what they list with *)
(* the hashes it remembers, waits until the engine's queue is empty and    *)
(* removes, replaces and adds rules.  Between any two of its awaits the    *)
(* sources, the rules and the groups may change and the engine may stop.   *)
(*                                                                         *)
(* A rule is its name (for the fields the hash shows: name, priority,      *)
(* enabled, tags), its body (for the fields whose contents the hash does   *)
(* not show: trigger, conditions, actions) and its group.  Versions and    *)
(* indexes are RuleLifecycle's, the queue is Dispatch's.                   *)
(***************************************************************************)
EXTENDS Naturals

CONSTANTS
    Ids,            \* rule identifiers
    Names,          \* what the hash of a rule shows, but for its group
    Bodies,         \* what it does not show
    InvalidBodies,  \* those the validator rejects
    Groups,         \* group identifiers
    NoGroup,        \* group of an ungrouped rule
    NoRule,         \* no rule: not registered, not listed, not remembered
    Inputs,         \* the rules that sources list and callers register
    NSources,       \* number of files and storage keys
    MaxChanges      \* bound on what happens outside the watcher

Rule == [name : Names, body : Bodies, group : Groups \cup {NoGroup}]

\* Only the top-level fields of a rule are serialized before hashing.
HashOf(rule) == IF rule = NoRule THEN NoRule ELSE <<rule.name, rule.group>>

Hashes == Names \X (Groups \cup {NoGroup})

ASSUME HotReloadAssumption ==
    /\ InvalidBodies \subseteq Bodies
    /\ Inputs \subseteq Rule
    /\ NoRule \notin Rule \cup Hashes
    /\ NoGroup \notin Groups
    /\ NSources \in Nat \ {0}
    /\ MaxChanges \in Nat

VARIABLES
    running,    \* RuleEngine.running
    rules,      \* the registered rules
    groups,     \* the groups that exist
    sources,    \* what each source lists
    hashes,     \* state.ruleHashes
    phase,      \* of the watcher: waiting for its timer, in a check, or stopped
    position,   \* the source that is loaded next
    loaded,     \* what has been loaded, the last source winning
    changes,    \* history: how much has happened outside the watcher
    outOfStep,  \* history: rules changed by callers or by a reload that failed
    known       \* history: rules registered at the start or ever listed

watcherVars == <<hashes, phase, position, loaded>>
vars == <<running, rules, groups, sources, watcherVars, changes, outOfStep, known>>

Nothing == [i \in Ids |-> NoRule]

Registrable(rule) == rule.group \in groups \cup {NoGroup}
Valid(rule) == rule.body \notin InvalidBodies

TypeOK ==
    /\ running \in BOOLEAN
    /\ rules \in [Ids -> Rule \cup {NoRule}]
    /\ groups \subseteq Groups
    /\ sources \in [1 .. NSources -> [Ids -> Rule \cup {NoRule}]]
    /\ hashes \in [Ids -> Hashes \cup {NoRule}]
    /\ phase \in {"waiting", "loading", "applying", "stopped"}
    /\ position \in 1 .. NSources
    /\ loaded \in [Ids -> Rule \cup {NoRule}]
    /\ changes \in 0 .. MaxChanges
    /\ outOfStep \subseteq Ids
    /\ known \subseteq Ids

\* The watcher starts on the rules the engine has and hashes them all.
Init ==
    /\ running = TRUE
    /\ groups = {}
    /\ rules \in [Ids -> {d \in Inputs : Valid(d) /\ Registrable(d)} \cup {NoRule}]
    /\ sources = [s \in 1 .. NSources |-> Nothing]
    /\ hashes = [i \in Ids |-> HashOf(rules[i])]
    /\ phase = "waiting"
    /\ position = 1
    /\ loaded = Nothing
    /\ changes = 0
    /\ outOfStep = {}
    /\ known = {i \in Ids : rules[i] # NoRule}

-----------------------------------------------------------------------------
(* What happens outside the watcher. *)

Change ==
    /\ changes < MaxChanges
    /\ changes' = changes + 1

EditSource(s, i, d) ==
    /\ Change
    /\ sources[s][i] # d
    /\ sources' = [sources EXCEPT ![s][i] = d]
    /\ known' = known \cup {i}
    /\ UNCHANGED <<running, rules, groups, watcherVars, outOfStep>>

\* registerRule, and updateRule, which is the same for a rule that exists.
RegisterRule(i, d) ==
    /\ Change
    /\ running
    /\ Valid(d)
    /\ Registrable(d)
    /\ rules' = [rules EXCEPT ![i] = d]
    /\ outOfStep' = outOfStep \cup {i}
    /\ UNCHANGED <<running, groups, sources, watcherVars, known>>

UnregisterRule(i) ==
    /\ Change
    /\ running
    /\ rules[i] # NoRule
    /\ rules' = [rules EXCEPT ![i] = NoRule]
    /\ outOfStep' = outOfStep \cup {i}
    /\ UNCHANGED <<running, groups, sources, watcherVars, known>>

CreateGroup(g) ==
    /\ Change
    /\ running
    /\ g \notin groups
    /\ groups' = groups \cup {g}
    /\ UNCHANGED <<running, rules, sources, watcherVars, outOfStep, known>>

Members(g) == {i \in Ids : rules[i] # NoRule /\ rules[i].group = g}

\* The rules of the group stay, without a group.
DeleteGroup(g) ==
    /\ Change
    /\ running
    /\ g \in groups
    /\ groups' = groups \ {g}
    /\ rules' = [i \in Ids |-> IF i \in Members(g)
                                 THEN [rules[i] EXCEPT !.group = NoGroup]
                                 ELSE rules[i]]
    /\ outOfStep' = outOfStep \cup Members(g)
    /\ UNCHANGED <<running, sources, watcherVars, known>>

\* The engine stops running and the watcher's timer is cancelled; a check in
\* progress goes on.
Stop ==
    /\ Change
    /\ running
    /\ running' = FALSE
    /\ phase' = IF phase = "waiting" THEN "stopped" ELSE phase
    /\ UNCHANGED <<rules, groups, sources, hashes, position, loaded, outOfStep, known>>

-----------------------------------------------------------------------------
(* The watcher. *)

\* scheduleNextCheck, at the end of every check
CheckEnds ==
    /\ phase' = IF running THEN "waiting" ELSE "stopped"
    /\ position' = 1
    /\ loaded' = Nothing

CheckBegins ==
    /\ phase = "waiting"
    /\ phase' = "loading"
    /\ UNCHANGED <<running, rules, groups, sources, hashes, position, loaded,
                   changes, outOfStep, known>>

\* computeDiff
Added(list) == {i \in Ids : list[i] # NoRule /\ hashes[i] = NoRule}
Modified(list) ==
    {i \in Ids : list[i] # NoRule /\ hashes[i] \notin {NoRule, HashOf(list[i])}}

\* Mutant: removed are the rules the engine has and the sources do not list.
RemovedFromEngine(list) == {i \in Ids : list[i] = NoRule /\ rules[i] # NoRule}

Removed(list) == {i \in Ids : list[i] = NoRule /\ hashes[i] # NoRule}

Differs(list) == Added(list) \cup Modified(list) \cup Removed(list) # {}

\* Mutant: only rules that are new are validated.
AcceptedNew(list) == \A i \in Added(list) : Valid(list[i])

\* validateMany over the new and the modified rules
Accepted(list) == \A i \in Added(list) \cup Modified(list) : Valid(list[i])

Merged(list, source) == [i \in Ids |-> IF source[i] # NoRule THEN source[i] ELSE list[i]]

MoreSources == position < NSources

SourceLoaded ==
    /\ phase = "loading"
    /\ LET list == Merged(loaded, sources[position])
       IN  IF MoreSources
             THEN /\ position' = position + 1
                  /\ loaded' = list
                  /\ UNCHANGED phase
             ELSE IF Differs(list) /\ Accepted(list)
               THEN /\ phase' = "applying"
                    /\ position' = 1
                    /\ loaded' = list
               ELSE CheckEnds
    /\ UNCHANGED <<running, rules, groups, sources, hashes, changes, outOfStep, known>>

\* Mutant: no next check is scheduled after an error.
LoadFailsForGood ==
    /\ Change
    /\ phase = "loading"
    /\ phase' = "stopped"
    /\ position' = 1
    /\ loaded' = Nothing
    /\ UNCHANGED <<running, rules, groups, sources, hashes, outOfStep, known>>

\* A file is missing or does not parse, or the storage fails.
LoadFails ==
    /\ Change
    /\ phase = "loading"
    /\ CheckEnds
    /\ UNCHANGED <<running, rules, groups, sources, hashes, outOfStep, known>>

\* The registered rules when those in gone have been unregistered and those
\* in done registered as they were loaded.
Replaced(done, gone) ==
    [i \in Ids |-> CASE i \in done -> loaded[i]
                     [] i \in gone \ done -> NoRule
                     [] OTHER -> rules[i]]

\* updateHashes
\* Mutant: hashes of rules that are no longer listed stay.
RememberedStill ==
    [i \in Ids |-> IF loaded[i] # NoRule THEN HashOf(loaded[i]) ELSE hashes[i]]

Remembered == [i \in Ids |-> HashOf(loaded[i])]

Refused == {i \in Added(loaded) \cup Modified(loaded) : ~ Registrable(loaded[i])}

\* applyChanges with no rule refused
ApplySucceeds ==
    LET new == Added(loaded) \cup Modified(loaded)
    IN  /\ Refused = {}
        /\ rules' = Replaced(new, Removed(loaded))
        /\ hashes' = Remembered
        /\ outOfStep' = outOfStep \ (new \cup Removed(loaded))

\* registerRule throws for the rule b, whose group does not exist: what came
\* before it is done, b itself is unregistered if it was to be replaced, and
\* the hashes stay as they were.
ApplyFails ==
    \E b \in Refused, done \in SUBSET ((Added(loaded) \cup Modified(loaded)) \ Refused) :
        LET gone == Removed(loaded) \cup ({b} \cap Modified(loaded))
        IN  /\ IF b \in Modified(loaded)
                 THEN done \subseteq Modified(loaded)
                 ELSE Modified(loaded) \subseteq done
            /\ rules' = Replaced(done, gone)
            /\ outOfStep' = outOfStep \cup done \cup gone
            /\ UNCHANGED hashes

\* Mutant: the engine's operations do not look whether it is running.
ApplyAlways ==
    /\ phase = "applying"
    /\ ApplySucceeds \/ ApplyFails
    /\ CheckEnds
    /\ UNCHANGED <<running, groups, sources, changes, known>>

\* The queue is empty: one synchronous pass over the differences found.  When
\* the engine has stopped the first operation throws.
Apply ==
    /\ phase = "applying"
    /\ IF running
         THEN ApplySucceeds \/ ApplyFails
         ELSE UNCHANGED <<rules, hashes, outOfStep>>
    /\ CheckEnds
    /\ UNCHANGED <<running, groups, sources, changes, known>>

-----------------------------------------------------------------------------
Outside ==
    \/ \E s \in 1 .. NSources, i \in Ids, d \in Inputs \cup {NoRule} : EditSource(s, i, d)
    \/ \E i \in Ids, d \in Inputs : RegisterRule(i, d)
    \/ \E i \in Ids : UnregisterRule(i)
    \/ \E g \in Groups : CreateGroup(g) \/ DeleteGroup(g)
    \/ LoadFails
    \/ Stop

Watcher == CheckBegins \/ SourceLoaded \/ Apply

Next == Outside \/ Watcher

Spec == Init /\ [][Next]_vars

\* The timer fires, a load returns or fails, and the queue becomes empty.
FairSpec == Spec /\ WF_vars(Watcher)

-----------------------------------------------------------------------------
(* Safety. *)

\* What the watcher remembers is what is registered, for every rule that no
\* caller changed and no reload left half done: a difference to the sources
\* is then also one to what is remembered, and found (computeDiff compares
\* with the hashes only).
RememberedIsRegistered == \A i \in Ids \ outOfStep : hashes[i] = HashOf(rules[i])

\* The reload registers without validating, after an await, on the strength
\* of an earlier validation, and deleting a group races with it: still every
\* registered rule is valid and its group exists.
RegisteredSound ==
    \A i \in Ids : rules[i] # NoRule => Valid(rules[i]) /\ Registrable(rules[i])

\* A rule that a caller registered after the start, and no source has listed,
\* is not touched by a reload.
ForeignKept ==
    [][phase = "applying" /\ Apply => \A i \in Ids \ known : rules'[i] = rules[i]]_vars

\* Once stop() has been called no rule changes, though a check may have been
\* waiting for the queue at that moment.
StoppedUnchanged == [][~ running => rules' = rules]_vars

-----------------------------------------------------------------------------
(* Liveness. *)

\* What all sources list together.
Listed ==
    [i \in Ids |->
       LET listing == {s \in 1 .. NSources : sources[s][i] # NoRule}
       IN  IF listing = {} THEN NoRule
           ELSE LET last == CHOOSE s \in listing : \A t \in listing : t <= s
                IN  sources[last][i]]

\* A rule to be added or replaced is invalid or its group does not exist.
Blocked ==
    \E i \in Added(Listed) \cup Modified(Listed) :
        ~ Valid(Listed[i]) \/ ~ Registrable(Listed[i])

\* After failed loads, rejected lists and reloads given up half way, every
\* difference between the sources and what is remembered is applied in the
\* end, unless the sources cannot be applied; the rules are then those listed,
\* as far as the hash can tell, but for those callers changed and those that
\* a failed reload changed before the sources took their change back.
EventuallyInStep ==
    <>[](running /\ ~ Blocked =>
           \A i \in Ids :
             /\ hashes[i] = HashOf(Listed[i])
             /\ i \notin outOfStep => HashOf(rules[i]) = HashOf(Listed[i]))

-----------------------------------------------------------------------------
(* What the documentation says and the code does not do. *)

\* "Edit the YAML to change the severity threshold from 5 to 4": the hash
\* "differs from the cached version - rule is marked as modified"
\* (docs/learn/07-persistence/03-hot-reload.md): the rules are eventually
\* those the sources list.
EventuallyApplied ==
    <>[](running /\ ~ Blocked => \A i \in Ids \ outOfStep : rules[i] = Listed[i])
=============================================================================
