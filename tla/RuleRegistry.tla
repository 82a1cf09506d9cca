---------------------------- MODULE RuleRegistry ----------------------------
(***************************************************************************)
(* RuleManager (src/core/rule-manager.ts): the registered rules, the       *)
(* indexes they are looked up by, and the groups that switch them on and   *)
(* off.  Its methods are synchronous; each is a function from the registry *)
(* before to the registry after.                                           *)
(*                                                                         *)
(* The trigger of a rule stands for everything it is indexed by: patterns, *)
(* tags and the keys of its actions are entered and removed by the same    *)
(* two functions.                                                          *)
(***************************************************************************)
EXTENDS Naturals

CONSTANTS
    Ids,        \* rule identifiers
    Triggers,   \* what rules are indexed by
    Groups,     \* group identifiers
    NoGroup,    \* group of an ungrouped rule
    NoRule      \* absent from this.rules

ASSUME RegistryAssumption ==
    /\ NoGroup \notin Groups
    /\ NoRule \notin [trigger : Triggers, group : Groups \cup {NoGroup},
                      enabled : BOOLEAN, version : Nat]

RuleInput == [trigger : Triggers, group : Groups \cup {NoGroup}, enabled : BOOLEAN]
Rule == [trigger : Triggers, group : Groups \cup {NoGroup}, enabled : BOOLEAN,
         version : Nat]

Registry ==
    [rules : [Ids -> Rule \cup {NoRule}],
     index : SUBSET (Triggers \X Ids),
     byGroup : SUBSET (Groups \X Ids),
     groups : [Groups -> {"none", "enabled", "disabled"}],
     next : Nat]

Empty ==
    [rules |-> [i \in Ids |-> NoRule],
     index |-> {},
     byGroup |-> {},
     groups |-> [g \in Groups |-> "none"],
     next |-> 1]

Has(reg, i) == reg.rules[i] # NoRule
HasGroup(reg, g) == g # NoGroup => reg.groups[g] # "none"

InputOf(rule) == [trigger |-> rule.trigger, group |-> rule.group, enabled |-> rule.enabled]

GroupPairs(i, rule) == IF rule.group = NoGroup THEN {} ELSE {<<rule.group, i>>}

\* indexRule, unindexRule
Indexed(reg, i, rule) ==
    [reg EXCEPT !.index = @ \cup {<<rule.trigger, i>>},
                !.byGroup = @ \cup GroupPairs(i, rule)]

Unindexed(reg, i, rule) ==
    [reg EXCEPT !.index = @ \ {<<rule.trigger, i>>},
                !.byGroup = @ \ GroupPairs(i, rule)]

\* register: an id that is registered already is overwritten, without its
\* index entries being removed.
Registered(reg, i, input) ==
    LET rule == [trigger |-> input.trigger, group |-> input.group,
                 enabled |-> input.enabled, version |-> reg.next]
    IN  Indexed([reg EXCEPT !.rules[i] = rule, !.next = @ + 1], i, rule)

Unregistered(reg, i) ==
    IF Has(reg, i)
      THEN [Unindexed(reg, i, reg.rules[i]) EXCEPT !.rules[i] = NoRule]
      ELSE reg

\* enable, disable
Switched(reg, i, on) == [reg EXCEPT !.rules[i].enabled = on]

\* registerGroup, enableGroup, disableGroup, updateGroup
GroupSwitched(reg, g, state) == [reg EXCEPT !.groups[g] = state]

\* unregisterGroup: the rules it is the group of, by the index, lose theirs.
GroupUnregistered(reg, g) ==
    [reg EXCEPT
       !.rules = [i \in Ids |->
                    IF <<g, i>> \in reg.byGroup /\ Has(reg, i)
                      THEN [reg.rules[i] EXCEPT !.group = NoGroup]
                      ELSE reg.rules[i]],
       !.byGroup = {p \in @ : p[1] # g},
       !.groups[g] = "none"]

\* What is saved, and a new manager that restores it.
Content(reg) == [rules |-> reg.rules, groups |-> reg.groups]

Versions(rules) == {rules[i].version : i \in {j \in Ids : rules[j] # NoRule}}

\* Mutant: the counter of versions is not restored.
NextAfterFirst(rules) == 1

\* One more than the highest version, 1 when there is none.
NextAfter(rules) ==
    LET versions == {0} \cup Versions(rules)
    IN  1 + (CHOOSE v \in versions : \A w \in versions : w <= v)

Restored(content) ==
    LET there == {i \in Ids : content.rules[i] # NoRule}
        rules == content.rules
    IN  [rules |-> rules,
         index |-> {<<rules[i].trigger, i>> : i \in there},
         byGroup |-> UNION {GroupPairs(i, rules[i]) : i \in there},
         groups |-> content.groups,
         next |-> NextAfter(rules)]

\* isRuleActive: an unknown group does not switch a rule off.
IsActive(reg, rule) ==
    /\ rule.enabled
    /\ rule.group # NoGroup => reg.groups[rule.group] # "disabled"

\* getByFactPattern, getByEventTopic, getByTimerName
LookedUp(reg, t) ==
    {i \in Ids : <<t, i>> \in reg.index /\ Has(reg, i) /\ IsActive(reg, reg.rules[i])}
=============================================================================
