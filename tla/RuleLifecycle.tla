--------------------------- MODULE RuleLifecycle ----------------------------
(***************************************************************************)
(* The life of rules in the engine: RuleEngine's rule and group operations *)
(* (src/core/rule-engine.ts) over the registry of RuleRegistry, the        *)
(* debounced persistence of rules (src/persistence/rule-persistence.ts)    *)
(* and the version history with its periodic flush                         *)
(* (src/versioning/rule-version-store.ts), across stop, crash and restart. *)
(***************************************************************************)
EXTENDS RuleRegistry, Sequences

CONSTANTS
    MaxVersionsPerRule,     \* config.versioning.maxVersionsPerRule
    MaxOps,                 \* bound: operations of callers
    MaxCrashes              \* bound: restarts

ASSUME LifecycleAssumption ==
    /\ MaxVersionsPerRule \in Nat \ {0}
    /\ MaxOps \in Nat
    /\ MaxCrashes \in Nat

VARIABLES
    status,         \* of the engine
    reg,            \* the RuleManager
    persistTimer,   \* a debounced save is scheduled
    stored,         \* rules and groups in storage
    history,        \* [id -> versions recorded]       the version store's cache
    dirty,          \* rules with unsaved versions
    flushing,       \* rules that flushes in progress have still to save
    flushed,        \* [id -> versions] in storage
    ops, crashes,   \* counters for the bounds
    saveFailed,     \* history: the last save of the rules failed
    flushFailed     \* history: rules whose versions a failed flush gave up

historyVars == <<history, dirty, flushing, flushed, flushFailed>>
persistVars == <<persistTimer, stored, saveFailed>>
vars == <<status, reg, persistVars, historyVars, ops, crashes>>

Entry == [version : Nat, rule : Rule]

TypeOK ==
    /\ status \in {"up", "stopping", "saved", "failed", "stopped", "down"}
    /\ reg \in Registry
    /\ persistTimer \in BOOLEAN
    /\ stored \in [rules : [Ids -> Rule \cup {NoRule}],
                   groups : [Groups -> {"none", "enabled", "disabled"}]]
    /\ history \in [Ids -> Seq(Entry)]
    /\ \A i \in Ids : Len(history[i]) <= MaxVersionsPerRule
    /\ dirty \subseteq Ids
    /\ flushing \subseteq Ids
    /\ flushed \in [Ids -> Seq(Entry)]
    /\ ops \in 0 .. MaxOps
    /\ crashes \in 0 .. MaxCrashes
    /\ saveFailed \in BOOLEAN
    /\ flushFailed \subseteq Ids

Init ==
    /\ status = "up"
    /\ reg = Empty
    /\ persistTimer = FALSE
    /\ stored = Content(Empty)
    /\ history = [i \in Ids |-> <<>>]
    /\ dirty = {}
    /\ flushing = {}
    /\ flushed = [i \in Ids |-> <<>>]
    /\ ops = 0
    /\ crashes = 0
    /\ saveFailed = FALSE
    /\ flushFailed = {}

-----------------------------------------------------------------------------
(* The version store. *)

LastVersion(i) ==
    IF history[i] = <<>> THEN 0 ELSE history[i][Len(history[i])].version

\* Mutant: the newest entry is given up.
TrimmedNewest(entries) ==
    IF Len(entries) > MaxVersionsPerRule THEN SubSeq(entries, 1, MaxVersionsPerRule) ELSE entries

\* trimVersions, by number.
Trimmed(entries) ==
    IF Len(entries) > MaxVersionsPerRule THEN Tail(entries) ELSE entries

\* recordVersion
RecordVersion(i, rule) ==
    /\ history' = [history EXCEPT ![i] =
                     Trimmed(Append(@, [version |-> LastVersion(i) + 1, rule |-> rule]))]
    /\ dirty' = dirty \cup {i}
    /\ UNCHANGED <<flushing, flushed, flushFailed>>

\* Mutant: a flush forgets what the one before has still to save.
FlushBeginsFresh ==
    /\ status \in {"up", "stopping", "saved", "failed"}
    /\ dirty # {}
    /\ flushing' = dirty
    /\ dirty' = {}
    /\ UNCHANGED <<status, reg, persistVars, history, flushed, flushFailed, ops, crashes>>

\* flush takes the dirty rules and saves them one after the other, each as it
\* is when its turn comes.  The interval runs until stop() clears it, and a
\* flush may begin while another is still saving.
FlushBegins ==
    /\ status \in {"up", "stopping", "saved", "failed"}
    /\ dirty # {}
    /\ flushing' = flushing \cup dirty
    /\ dirty' = {}
    /\ UNCHANGED <<status, reg, persistVars, history, flushed, flushFailed, ops, crashes>>

FlushSaves(i) ==
    /\ status # "down"
    /\ i \in flushing
    /\ flushed' = [flushed EXCEPT ![i] = history[i]]
    /\ flushing' = flushing \ {i}
    /\ flushFailed' = flushFailed \ {i}
    /\ UNCHANGED <<status, reg, persistVars, history, dirty, ops, crashes>>

\* A save fails: the rest of that flush is given up.
FlushFails ==
    /\ status # "down"
    /\ \E rest \in SUBSET flushing \ {{}} :
         /\ flushing' = flushing \ rest
         /\ flushFailed' = flushFailed \cup rest
    /\ UNCHANGED <<status, reg, persistVars, history, dirty, flushed, ops, crashes>>

-----------------------------------------------------------------------------
(* Operations of the engine. *)

\* ensureRunning.  Operations are synchronous, and every one that changes
\* something schedules a save in place of one that is scheduled.
Operation ==
    /\ status = "up"
    /\ ops < MaxOps
    /\ ops' = ops + 1
    /\ persistTimer' = TRUE
    /\ UNCHANGED <<status, crashes, stored, saveFailed>>

RegisterRule(i, input) ==
    /\ Operation
    /\ HasGroup(reg, input.group)
    /\ reg' = Registered(reg, i, input)
    /\ RecordVersion(i, reg'.rules[i])

UnregisterRule(i) ==
    /\ Operation
    /\ Has(reg, i)
    /\ reg' = Unregistered(reg, i)
    /\ RecordVersion(i, reg.rules[i])

\* enableRule, disableRule
SwitchRule(i, on) ==
    /\ Operation
    /\ Has(reg, i)
    /\ reg' = Switched(reg, i, on)
    /\ RecordVersion(i, reg'.rules[i])

\* Mutant: the update is entered before the old rule is removed.
UpdateRuleSwapped(i, input) ==
    /\ Operation
    /\ Has(reg, i)
    /\ HasGroup(reg, input.group)
    /\ reg' = [Registered(reg, i, input) EXCEPT
                 !.index = @ \ {<<reg.rules[i].trigger, i>>}]
    /\ RecordVersion(i, reg'.rules[i])

UpdateRule(i, input) ==
    /\ Operation
    /\ Has(reg, i)
    /\ HasGroup(reg, input.group)
    /\ reg' = Registered(Unregistered(reg, i), i, input)
    /\ RecordVersion(i, reg'.rules[i])

\* The snapshot's group is not looked up.
RollbackRule(i, n) ==
    /\ Operation
    /\ n \in 1 .. Len(history[i])
    /\ reg' = Registered(Unregistered(reg, i), i, InputOf(history[i][n].rule))
    /\ RecordVersion(i, reg'.rules[i])

CreateGroup(g, state) ==
    /\ Operation
    /\ reg.groups[g] = "none"
    /\ reg' = GroupSwitched(reg, g, state)
    /\ UNCHANGED historyVars

\* Mutant: no save is scheduled.
SwitchGroupUnsaved(g, state) ==
    /\ status = "up"
    /\ ops < MaxOps
    /\ ops' = ops + 1
    /\ reg.groups[g] # "none"
    /\ reg' = GroupSwitched(reg, g, state)
    /\ UNCHANGED <<status, crashes, persistVars, historyVars>>

\* enableGroup, disableGroup, updateGroup
SwitchGroup(g, state) ==
    /\ Operation
    /\ reg.groups[g] # "none"
    /\ reg' = GroupSwitched(reg, g, state)
    /\ UNCHANGED historyVars

DeleteGroup(g) ==
    /\ Operation
    /\ reg.groups[g] # "none"
    /\ reg' = GroupUnregistered(reg, g)
    /\ UNCHANGED historyVars

-----------------------------------------------------------------------------
(* Persistence of rules and groups. *)

\* The debounced save; when it fails nobody is told.
SaveFires ==
    /\ status # "down"
    /\ persistTimer
    /\ persistTimer' = FALSE
    /\ \/ stored' = Content(reg) /\ saveFailed' = FALSE
       \/ stored' = stored /\ saveFailed' = TRUE
    /\ UNCHANGED <<status, reg, historyVars, ops, crashes>>

StopCalled ==
    /\ status = "up"
    /\ status' = "stopping"
    /\ UNCHANGED <<reg, persistVars, historyVars, ops, crashes>>

\* Mutant: stop() drops the scheduled save and does not save itself.
StopPersistsNothing ==
    /\ status = "stopping"
    /\ status' = "saved"
    /\ persistTimer' = FALSE
    /\ UNCHANGED <<reg, stored, saveFailed, historyVars, ops, crashes>>

\* ruleManager.persist(): when the final save fails, stop() is given up.
StopPersists ==
    /\ status = "stopping"
    /\ persistTimer' = FALSE
    /\ \/ /\ status' = "saved"
          /\ stored' = Content(reg)
          /\ saveFailed' = FALSE
       \/ /\ status' = "failed"
          /\ saveFailed' = TRUE
          /\ UNCHANGED stored
    /\ UNCHANGED <<reg, historyVars, ops, crashes>>

\* versionStore.stop(): the interval is cleared and the rest flushed; a flush
\* in progress is not waited for.
StopFlushes ==
    /\ status = "saved"
    /\ status' = "stopped"
    /\ flushing' = flushing \cup dirty
    /\ dirty' = {}
    /\ UNCHANGED <<reg, persistVars, history, flushed, flushFailed, ops, crashes>>

\* The process ends, after stop() or without it.
Exit ==
    /\ status # "down"
    /\ crashes < MaxCrashes
    /\ crashes' = crashes + 1
    /\ status' = "down"
    /\ reg' = Empty
    /\ persistTimer' = FALSE
    /\ history' = [i \in Ids |-> <<>>]
    /\ dirty' = {}
    /\ flushing' = {}
    /\ flushFailed' = {}
    /\ UNCHANGED <<stored, saveFailed, flushed, ops>>

\* Rules and groups are restored, the version history is not.
Start ==
    /\ status = "down"
    /\ status' = "up"
    /\ reg' = Restored(stored)
    /\ saveFailed' = FALSE
    /\ UNCHANGED <<persistTimer, stored, historyVars, ops, crashes>>

-----------------------------------------------------------------------------
Callers ==
    \/ \E i \in Ids, input \in RuleInput : RegisterRule(i, input) \/ UpdateRule(i, input)
    \/ \E i \in Ids : UnregisterRule(i)
    \/ \E i \in Ids, on \in BOOLEAN : SwitchRule(i, on)
    \/ \E i \in Ids, n \in 1 .. MaxVersionsPerRule : RollbackRule(i, n)
    \/ \E g \in Groups, state \in {"enabled", "disabled"} :
         CreateGroup(g, state) \/ SwitchGroup(g, state)
    \/ \E g \in Groups : DeleteGroup(g)
    \/ StopCalled
    \/ Exit

Engine ==
    \/ SaveFires
    \/ FlushBegins
    \/ \E i \in Ids : FlushSaves(i)
    \/ StopPersists
    \/ StopFlushes
    \/ Start

Next == Callers \/ Engine \/ FlushFails

Spec == Init /\ [][Next]_vars

-----------------------------------------------------------------------------
(* Safety. *)

\* No rule is lost to the lookups: each registered rule is in the index of its
\* trigger and of its group, after any sequence of operations and restarts.
IndexComplete ==
    \A i \in Ids : Has(reg, i) =>
        /\ <<reg.rules[i].trigger, i>> \in reg.index
        /\ GroupPairs(i, reg.rules[i]) \subseteq reg.byGroup

\* No two registered rules have the same version, and new ones will have a
\* higher one, also than the rules in storage.
VersionsDistinct ==
    /\ \A i, j \in Ids :
         Has(reg, i) /\ Has(reg, j) /\ i # j
            => reg.rules[i].version # reg.rules[j].version
    /\ status # "down" => \A v \in Versions(reg.rules) \cup Versions(stored.rules) : v < reg.next

\* The versions of a rule are numbered without gaps or repetitions, also when
\* the oldest have been trimmed.
HistoryInOrder ==
    \A i \in Ids : \A n \in 1 .. Len(history[i]) - 1 :
        history[i][n + 1].version = history[i][n].version + 1

\* The latest version of a rule shows the rule as it is registered, but for
\* its group, which deleteGroup clears without a version.
LatestIsCurrent ==
    \A i \in Ids : Has(reg, i) /\ history[i] # <<>> =>
        LET latest == history[i][Len(history[i])].rule
        IN  /\ latest.trigger = reg.rules[i].trigger
            /\ latest.enabled = reg.rules[i].enabled
            /\ latest.version = reg.rules[i].version

\* The version history tells the story of the rule, whatever the interleaving
\* of changes, rollbacks, retention and crashes.
HistorySound == HistoryInOrder /\ LatestIsCurrent

\* Versions that no flush has still to save are in storage, unless its save
\* failed.
FlushedUnlessDirty ==
    \A i \in Ids :
        history[i] # <<>> /\ i \notin dirty \cup flushing \cup flushFailed
            => flushed[i] = history[i]

\* While the engine runs, what storage does not have yet is going to be saved,
\* unless the last save failed.
SaveScheduled ==
    status = "up" /\ stored # Content(reg) => persistTimer \/ saveFailed

\* Once stop() has saved, no later change or save parts storage from the rules
\* and groups: a restart finds them as they were.
StopKeepsRules == status \in {"saved", "stopped"} => stored = Content(reg)

-----------------------------------------------------------------------------
(* What the documentation says and the code does not do. *)

\* "Returns active rules triggered by a fact key." (getByFactPattern in
\* docs/reference/05-rule-manager.md): a rule that is looked up by a trigger
\* has that trigger.
LookupMatches ==
    \A t \in Triggers : \A i \in LookedUp(reg, t) : reg.rules[i].trigger = t

\* "The history is always append-only" (docs/learn/06-organization/
\* 03-versioning.md) and is lazily loaded (rule-version-store.ts): what is saved
\* for a rule continues what was saved before, but for what retention trims.
StoredHistoryKept ==
    [][\A i \in Ids :
         flushed'[i] # flushed[i] /\ flushed[i] # <<>>
            => flushed'[i][Len(flushed'[i])].version
                 > flushed[i][Len(flushed[i])].version]_vars
=============================================================================
