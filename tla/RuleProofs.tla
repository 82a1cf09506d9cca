----------------------------- MODULE RuleProofs -----------------------------
(***************************************************************************)
(* Proofs about RuleLifecycle: no registered rule is missing from the      *)
(* index, versions of rules are distinct, the history tells of the rules,  *)
(* and storage keeps them, for any rules, triggers, groups and number of   *)
(* operations, crashes and restarts.                                       *)
(***************************************************************************)
EXTENDS RuleLifecycle, SequenceTheorems, WellFoundedInduction, TLAPS

Contents ==
    [rules : [Ids -> Rule \cup {NoRule}],
     groups : [Groups -> {"none", "enabled", "disabled"}]]

\* The parts of the invariant, of a registry and of what is stored.
Complete(rg) ==
    \A i \in Ids : Has(rg, i) =>
        /\ <<rg.rules[i].trigger, i>> \in rg.index
        /\ GroupPairs(i, rg.rules[i]) \subseteq rg.byGroup

Distinct(rules) ==
    \A i, j \in Ids :
        rules[i] # NoRule /\ rules[j] # NoRule /\ i # j
            => rules[i].version # rules[j].version

Below(rules, n) == \A i \in Ids : rules[i] # NoRule => rules[i].version < n

Good(rg) ==
    /\ rg \in Registry
    /\ Complete(rg)
    /\ Distinct(rg.rules)
    /\ Below(rg.rules, rg.next)

GoodContent(content) ==
    /\ content \in Contents
    /\ Distinct(content.rules)
    /\ \E n \in Nat : Below(content.rules, n)

\* The inductive invariant.
Inv ==
    /\ Good(reg)
    /\ GoodContent(stored)
    /\ status # "down" => Below(stored.rules, reg.next)
    /\ history \in [Ids -> Seq(Entry)]

-----------------------------------------------------------------------------
(* Rules and registries. *)

LEMMA RuleIsNotNoRule == ASSUME NEW r \in Rule PROVE r # NoRule
BY RegistryAssumption DEF RegistryAssumption, Rule

LEMMA EmptyGood == Good(Empty) /\ GoodContent(Content(Empty))
BY DEF Good, GoodContent, Contents, Content, Empty, Registry, Complete, Distinct, Below, Has

\* What entering a rule into the indexes, or removing it, changes.
LEMMA IndexedFields ==
    ASSUME NEW rg \in Registry, NEW i \in Ids, NEW rule \in Rule
    PROVE  LET new == Indexed(rg, i, rule)
           IN  /\ new \in Registry
               /\ new.rules = rg.rules
               /\ new.index = rg.index \cup {<<rule.trigger, i>>}
               /\ new.byGroup = rg.byGroup \cup GroupPairs(i, rule)
               /\ new.groups = rg.groups
               /\ new.next = rg.next
<1> DEFINE X == rg.index \cup {<<rule.trigger, i>>}
           Y == rg.byGroup \cup GroupPairs(i, rule)
<1>1. X \subseteq Triggers \X Ids /\ Y \subseteq Groups \X Ids
  BY DEF Registry, Rule, GroupPairs
<1>2. Indexed(rg, i, rule) = [rg EXCEPT !.index = X, !.byGroup = Y]
  BY DEF Indexed, Registry
<1> HIDE DEF X, Y
<1>3. LET new == [rg EXCEPT !.index = X, !.byGroup = Y]
      IN  /\ new \in Registry
          /\ new.rules = rg.rules /\ new.index = X /\ new.byGroup = Y
          /\ new.groups = rg.groups /\ new.next = rg.next
  BY <1>1 DEF Registry
<1> QED BY <1>2, <1>3 DEF X, Y

LEMMA UnindexedFields ==
    ASSUME NEW rg \in Registry, NEW i \in Ids, NEW rule \in Rule
    PROVE  LET new == Unindexed(rg, i, rule)
           IN  /\ new \in Registry
               /\ new.rules = rg.rules
               /\ new.index = rg.index \ {<<rule.trigger, i>>}
               /\ new.byGroup = rg.byGroup \ GroupPairs(i, rule)
               /\ new.groups = rg.groups
               /\ new.next = rg.next
<1> DEFINE X == rg.index \ {<<rule.trigger, i>>}
           Y == rg.byGroup \ GroupPairs(i, rule)
<1>1. X \subseteq Triggers \X Ids /\ Y \subseteq Groups \X Ids
  BY DEF Registry
<1>2. Unindexed(rg, i, rule) = [rg EXCEPT !.index = X, !.byGroup = Y]
  BY DEF Unindexed, Registry
<1> HIDE DEF X, Y
<1>3. LET new == [rg EXCEPT !.index = X, !.byGroup = Y]
      IN  /\ new \in Registry
          /\ new.rules = rg.rules /\ new.index = X /\ new.byGroup = Y
          /\ new.groups = rg.groups /\ new.next = rg.next
  BY <1>1 DEF Registry
<1> QED BY <1>2, <1>3 DEF X, Y

\* A registered rule is the one entered; the others stay.
LEMMA RegisteredGood ==
    ASSUME NEW rg, Good(rg), NEW i \in Ids, NEW input \in RuleInput
    PROVE  /\ Good(Registered(rg, i, input))
           /\ Registered(rg, i, input).rules[i] \in Rule
           /\ Registered(rg, i, input).next = rg.next + 1
<1> DEFINE rule == [trigger |-> input.trigger, group |-> input.group,
                    enabled |-> input.enabled, version |-> rg.next]
           base == [rg EXCEPT !.rules[i] = rule, !.next = @ + 1]
           new == Registered(rg, i, input)
<1>1. rg \in Registry /\ rule \in Rule
  BY DEF Good, Registry, Rule, RuleInput
<1>2. rule # NoRule /\ rule.version = rg.next
  BY <1>1, RuleIsNotNoRule
<1>3. new = Indexed(base, i, rule)
  BY DEF Registered
<1> HIDE DEF rule
<1>4. /\ base \in Registry
      /\ base.rules = [rg.rules EXCEPT ![i] = rule]
      /\ base.index = rg.index /\ base.byGroup = rg.byGroup
      /\ base.groups = rg.groups /\ base.next = rg.next + 1
  <2> DEFINE F == [rg.rules EXCEPT ![i] = rule]
             n == rg.next + 1
  <2>1. F \in [Ids -> Rule \cup {NoRule}] /\ n \in Nat
    BY <1>1 DEF Registry
  <2>2. base = [rg EXCEPT !.rules = F, !.next = n]
    BY <1>1 DEF Registry
  <2> HIDE DEF F, n
  <2>3. LET b == [rg EXCEPT !.rules = F, !.next = n]
        IN  /\ b \in Registry
            /\ b.rules = F /\ b.index = rg.index /\ b.byGroup = rg.byGroup
            /\ b.groups = rg.groups /\ b.next = n
    BY <1>1, <2>1 DEF Registry
  <2> HIDE DEF base
  <2> QED BY <2>2, <2>3 DEF F, n
<1> HIDE DEF base, new
<1>5. /\ new \in Registry
      /\ new.rules = [rg.rules EXCEPT ![i] = rule]
      /\ new.index = rg.index \cup {<<rule.trigger, i>>}
      /\ new.byGroup = rg.byGroup \cup GroupPairs(i, rule)
      /\ new.next = rg.next + 1
  BY <1>1, <1>3, <1>4, IndexedFields
<1>6. new.rules[i] = rule /\ \A j \in Ids \ {i} : new.rules[j] = rg.rules[j]
  BY <1>1, <1>5 DEF Registry
<1>7. Complete(new)
  <2> SUFFICES ASSUME NEW j \in Ids, Has(new, j)
               PROVE  /\ <<new.rules[j].trigger, j>> \in new.index
                      /\ GroupPairs(j, new.rules[j]) \subseteq new.byGroup
    BY DEF Complete
  <2>1. CASE j = i
    BY <2>1, <1>5, <1>6
  <2>2. CASE j # i
    BY <2>2, <1>5, <1>6 DEF Good, Complete, Has
  <2> QED BY <2>1, <2>2
<1>8. Below(new.rules, new.next)
  <2> SUFFICES ASSUME NEW j \in Ids, new.rules[j] # NoRule
               PROVE  new.rules[j].version < new.next
    BY DEF Below
  <2>1. rg.next \in Nat /\ (rg.rules[j] # NoRule => rg.rules[j] \in Rule)
    BY <1>1 DEF Registry
  <2>2. CASE j = i
    BY <2>1, <2>2, <1>2, <1>5, <1>6
  <2>3. CASE j # i
    <3>1. rg.rules[j] # NoRule /\ rg.rules[j].version < rg.next /\ rg.rules[j].version \in Nat
      BY <2>1, <2>3, <1>6 DEF Good, Below, Rule
    <3> QED BY <2>1, <2>3, <3>1, <1>5, <1>6
  <2> QED BY <2>2, <2>3
<1>9. Distinct(new.rules)
  <2> SUFFICES ASSUME NEW j \in Ids, NEW k \in Ids, j # k,
                      new.rules[j] # NoRule, new.rules[k] # NoRule
               PROVE  new.rules[j].version # new.rules[k].version
    BY DEF Distinct
  <2>1. \A l \in Ids \ {i} : rg.rules[l] # NoRule => rg.rules[l].version # rg.next
    BY <1>1 DEF Good, Below, Registry, Rule
  <2> QED BY <2>1, <1>2, <1>6 DEF Good, Distinct
<1> QED BY <1>1, <1>5, <1>6, <1>7, <1>8, <1>9 DEF Good, new

LEMMA UnregisteredGood ==
    ASSUME NEW rg, Good(rg), NEW i \in Ids
    PROVE  Good(Unregistered(rg, i)) /\ Unregistered(rg, i).next = rg.next
<1> DEFINE rule == rg.rules[i]
           base == Unindexed(rg, i, rule)
           new == [base EXCEPT !.rules[i] = NoRule]
<1>1. rg \in Registry
  BY DEF Good
<1>2. CASE ~ Has(rg, i)
  BY <1>2 DEF Unregistered
<1>3. CASE Has(rg, i)
  <2>1. Unregistered(rg, i) = new
    BY <1>3 DEF Unregistered
  <2>2. rule \in Rule
    BY <1>1, <1>3 DEF Has, Registry
  <2>3. /\ base \in Registry
        /\ base.rules = rg.rules
        /\ base.index = rg.index \ {<<rule.trigger, i>>}
        /\ base.byGroup = rg.byGroup \ GroupPairs(i, rule)
        /\ base.next = rg.next
    BY <1>1, <2>2, UnindexedFields
  <2> HIDE DEF base
  <2>4. /\ new \in Registry
        /\ new.rules = [rg.rules EXCEPT ![i] = NoRule]
        /\ new.index = base.index /\ new.byGroup = base.byGroup
        /\ new.next = rg.next
    BY <2>3 DEF Registry
  <2> HIDE DEF new
  <2>5. new.rules[i] = NoRule /\ \A j \in Ids \ {i} : new.rules[j] = rg.rules[j]
    BY <1>1, <2>4 DEF Registry
  <2>6. Complete(new)
    <3> SUFFICES ASSUME NEW j \in Ids, Has(new, j)
                 PROVE  /\ <<new.rules[j].trigger, j>> \in new.index
                        /\ GroupPairs(j, new.rules[j]) \subseteq new.byGroup
      BY DEF Complete
    <3>1. j # i /\ new.rules[j] = rg.rules[j] /\ Has(rg, j)
      BY <2>5 DEF Has
    <3>2. /\ <<rg.rules[j].trigger, j>> \in rg.index
          /\ GroupPairs(j, rg.rules[j]) \subseteq rg.byGroup
      BY <3>1 DEF Good, Complete
    <3>3. \A p \in GroupPairs(j, rg.rules[j]) : p \notin GroupPairs(i, rule)
      BY <3>1 DEF GroupPairs
    <3> QED BY <2>3, <2>4, <3>1, <3>2, <3>3
  <2>7. Distinct(new.rules) /\ Below(new.rules, new.next)
    BY <2>4, <2>5 DEF Good, Distinct, Below
  <2> QED BY <2>1, <2>4, <2>6, <2>7 DEF Good
<1> QED BY <1>2, <1>3

LEMMA SameVersions ==
    ASSUME NEW old, NEW new, NEW n, Distinct(old), Below(old, n),
           \A j \in Ids : /\ new[j] = NoRule <=> old[j] = NoRule
                          /\ old[j] # NoRule => new[j].version = old[j].version
    PROVE  Distinct(new) /\ Below(new, n)
<1>1. Distinct(new)
  BY DEF Distinct
<1>2. Below(new, n)
  BY DEF Below
<1> QED BY <1>1, <1>2

\* Registries that differ in no more than what rules say apart from trigger,
\* group and version, and in the groups, are as good.
LEMMA SameRulesGood ==
    ASSUME NEW rg, Good(rg), NEW new \in Registry,
           \A j \in Ids : /\ new.rules[j] = NoRule <=> rg.rules[j] = NoRule
                          /\ rg.rules[j] # NoRule =>
                               /\ new.rules[j].trigger = rg.rules[j].trigger
                               /\ new.rules[j].group = rg.rules[j].group
                               /\ new.rules[j].version = rg.rules[j].version,
           new.index = rg.index, new.byGroup = rg.byGroup, new.next = rg.next
    PROVE  Good(new)
<1>1. Complete(new)
  <2> SUFFICES ASSUME NEW j \in Ids, Has(new, j)
               PROVE  /\ <<new.rules[j].trigger, j>> \in new.index
                      /\ GroupPairs(j, new.rules[j]) \subseteq new.byGroup
    BY DEF Complete
  <2>1. Has(rg, j) /\ GroupPairs(j, new.rules[j]) = GroupPairs(j, rg.rules[j])
    BY DEF Has, GroupPairs
  <2> QED BY <2>1 DEF Good, Complete, Has
<1>2. Distinct(new.rules) /\ Below(new.rules, new.next)
  BY SameVersions DEF Good
<1> QED BY <1>1, <1>2 DEF Good

LEMMA SwitchedGood ==
    ASSUME NEW rg, Good(rg), NEW i \in Ids, Has(rg, i), NEW on \in BOOLEAN
    PROVE  /\ Good(Switched(rg, i, on))
           /\ Switched(rg, i, on).rules[i] \in Rule
           /\ Switched(rg, i, on).next = rg.next
<1> DEFINE rule == [rg.rules[i] EXCEPT !.enabled = on]
           F == [rg.rules EXCEPT ![i] = rule]
           new == [rg EXCEPT !.rules = F]
<1>1. rg \in Registry /\ rg.rules[i] \in Rule
  BY DEF Good, Has, Registry
<1>2. /\ rule \in Rule /\ rule.trigger = rg.rules[i].trigger
      /\ rule.group = rg.rules[i].group /\ rule.version = rg.rules[i].version
  BY <1>1 DEF Rule
<1>3. Switched(rg, i, on) = new
  BY <1>1 DEF Switched, Registry
<1> HIDE DEF rule
<1>4. F \in [Ids -> Rule \cup {NoRule}]
  BY <1>1, <1>2 DEF Registry
<1>5. F[i] = rule /\ \A j \in Ids \ {i} : F[j] = rg.rules[j]
  BY <1>1 DEF Registry
<1> HIDE DEF F
<1>6. /\ new \in Registry
      /\ new.rules = F /\ new.index = rg.index /\ new.byGroup = rg.byGroup
      /\ new.next = rg.next
  BY <1>1, <1>4 DEF Registry
<1> HIDE DEF new
<1>7. rule # NoRule /\ rg.rules[i] # NoRule
  BY <1>1, <1>2, RuleIsNotNoRule
<1>8. \A j \in Ids : /\ new.rules[j] = NoRule <=> rg.rules[j] = NoRule
                     /\ rg.rules[j] # NoRule =>
                          /\ new.rules[j].trigger = rg.rules[j].trigger
                          /\ new.rules[j].group = rg.rules[j].group
                          /\ new.rules[j].version = rg.rules[j].version
  BY <1>2, <1>5, <1>6, <1>7
<1>9. Good(new)
  BY <1>6, <1>8, SameRulesGood
<1> QED BY <1>2, <1>3, <1>5, <1>6, <1>9

LEMMA GroupSwitchedGood ==
    ASSUME NEW rg, Good(rg), NEW gr \in Groups, NEW state \in {"enabled", "disabled"}
    PROVE  Good(GroupSwitched(rg, gr, state)) /\ GroupSwitched(rg, gr, state).next = rg.next
<1> DEFINE F == [rg.groups EXCEPT ![gr] = state]
           new == [rg EXCEPT !.groups = F]
<1>1. rg \in Registry
  BY DEF Good
<1>2. GroupSwitched(rg, gr, state) = new
  BY <1>1 DEF GroupSwitched, Registry
<1>3. F \in [Groups -> {"none", "enabled", "disabled"}]
  BY <1>1 DEF Registry
<1> HIDE DEF F
<1>4. /\ new \in Registry
      /\ new.rules = rg.rules /\ new.index = rg.index /\ new.byGroup = rg.byGroup
      /\ new.next = rg.next
  BY <1>1, <1>3 DEF Registry
<1> QED BY <1>2, <1>4, SameRulesGood

\* The rules of the deleted group are in its index, so none keeps it.
LEMMA GroupUnregisteredGood ==
    ASSUME NEW rg, Good(rg), NEW gr \in Groups
    PROVE  Good(GroupUnregistered(rg, gr)) /\ GroupUnregistered(rg, gr).next = rg.next
<1> DEFINE hit(j) == <<gr, j>> \in rg.byGroup /\ Has(rg, j)
           loose(j) == [rg.rules[j] EXCEPT !.group = NoGroup]
           F == [j \in Ids |-> IF hit(j) THEN loose(j) ELSE rg.rules[j]]
           Y == {p \in rg.byGroup : p[1] # gr}
           G == [rg.groups EXCEPT ![gr] = "none"]
           new == [rg EXCEPT !.rules = F, !.byGroup = Y, !.groups = G]
<1>1. rg \in Registry
  BY DEF Good
<1>2. GroupUnregistered(rg, gr) = new
  BY <1>1 DEF GroupUnregistered, Registry
<1>3. \A j \in Ids : Has(rg, j) =>
        /\ rg.rules[j] \in Rule
        /\ loose(j) \in Rule /\ loose(j).trigger = rg.rules[j].trigger
        /\ loose(j).group = NoGroup /\ loose(j).version = rg.rules[j].version
  BY <1>1 DEF Has, Registry, Rule
<1>4. F \in [Ids -> Rule \cup {NoRule}]
  BY <1>1, <1>3 DEF Registry
<1>5. Y \subseteq Groups \X Ids /\ G \in [Groups -> {"none", "enabled", "disabled"}]
  BY <1>1 DEF Registry
<1>6. \A j \in Ids : /\ hit(j) => F[j] = loose(j)
                     /\ ~ hit(j) => F[j] = rg.rules[j]
                     /\ F[j] = NoRule <=> rg.rules[j] = NoRule
  BY <1>3, RuleIsNotNoRule DEF Has
<1> HIDE DEF F, Y, G
<1>7. /\ new \in Registry
      /\ new.rules = F /\ new.index = rg.index /\ new.byGroup = Y
      /\ new.next = rg.next
  BY <1>1, <1>4, <1>5 DEF Registry
<1> HIDE DEF new
<1>8. Complete(new)
  <2> SUFFICES ASSUME NEW j \in Ids, Has(new, j)
               PROVE  /\ <<new.rules[j].trigger, j>> \in new.index
                      /\ GroupPairs(j, new.rules[j]) \subseteq new.byGroup
    BY DEF Complete
  <2>1. Has(rg, j) /\ new.rules[j] = F[j]
    BY <1>6, <1>7 DEF Has
  <2>2. /\ <<rg.rules[j].trigger, j>> \in rg.index
        /\ GroupPairs(j, rg.rules[j]) \subseteq rg.byGroup
    BY <2>1 DEF Good, Complete
  <2>3. CASE hit(j)
    BY <2>1, <2>2, <2>3, <1>3, <1>6, <1>7 DEF GroupPairs
  <2>4. CASE ~ hit(j)
    <3>1. new.rules[j] = rg.rules[j] /\ <<gr, j>> \notin rg.byGroup
      BY <2>1, <2>4, <1>6
    <3>2. \A p \in GroupPairs(j, rg.rules[j]) : p[1] # gr
      BY <2>2, <3>1 DEF GroupPairs
    <3> QED BY <2>2, <3>1, <3>2, <1>7 DEF Y
  <2> QED BY <2>3, <2>4
<1>9. \A j \in Ids : rg.rules[j] # NoRule => F[j].version = rg.rules[j].version
  BY <1>3, <1>6 DEF Has
<1>10. Distinct(new.rules) /\ Below(new.rules, new.next)
  BY ZenonT(40), <1>6, <1>7, <1>9, SameVersions DEF Good
<1> QED BY <1>2, <1>7, <1>8, <1>10 DEF Good

-----------------------------------------------------------------------------
(* What is stored, and a restored registry. *)

LEMMA ContentGood ==
    ASSUME NEW rg, Good(rg)
    PROVE  GoodContent(Content(rg)) /\ Below(Content(rg).rules, rg.next)
<1>1. rg \in Registry /\ Content(rg).rules = rg.rules /\ Content(rg) \in Contents
  BY DEF Good, Registry, Content, Contents
<1>2. rg.next \in Nat
  BY <1>1 DEF Registry
<1> QED BY <1>1, <1>2 DEF Good, GoodContent

\* A bounded set of numbers that is not empty has a highest one.
LEMMA Highest ==
    ASSUME NEW S \in SUBSET Nat, S # {}, NEW n \in Nat, \A v \in S : v <= n
    PROVE  \E v \in S : \A w \in S : w <= v
<1> DEFINE B == {m \in Nat : \A v \in S : v <= m}
           R == OpToRel(<, Nat)
<1>1. PICK m \in B : \A y \in B : <<y, m>> \notin R
  <2>1. B \subseteq Nat /\ n \in B
    OBVIOUS
  <2>2. IsWellFoundedOn(R, Nat)
    BY NatLessThanWellFounded
  <2> HIDE DEF B, R
  <2> QED BY <2>1, <2>2, WFMin
<1>2. \A y \in B : ~ (y < m)
  BY <1>1, Zenon DEF OpToRel
<1>3. CASE m \in S
  BY <1>3
<1>4. CASE m \notin S
  <2>1. \A v \in S : v <= m - 1
    BY <1>4
  <2>2. PICK s \in S : TRUE
    OBVIOUS
  <2>3. s \in Nat /\ m \in Nat /\ s <= m - 1
    BY <2>1
  <2>4. m - 1 \in Nat
    BY <2>3
  <2>5. m - 1 \in B
    BY <2>1, <2>4
  <2> QED BY <2>3, <2>5, <1>2
<1> QED BY <1>3, <1>4

LEMMA NextAfterHighest ==
    ASSUME NEW rules \in [Ids -> Rule \cup {NoRule}],
           \E n \in Nat : Below(rules, n)
    PROVE  NextAfter(rules) \in Nat /\ Below(rules, NextAfter(rules))
<1> DEFINE V == {0} \cup Versions(rules)
           top == CHOOSE v \in V : \A w \in V : w <= v
<1>1. V \in SUBSET Nat
  BY DEF Versions, Rule
<1>2. PICK n \in Nat : Below(rules, n)
  OBVIOUS
<1>3. \A v \in V : v <= n
  BY <1>1, <1>2 DEF Versions, Below
<1>4. top \in V /\ \A w \in V : w <= top
  <2> HIDE DEF V
  <2>1. \E v \in V : \A w \in V : w <= v
    BY <1>1, <1>3, Highest DEF V
  <2> QED BY <2>1
<1>5. NextAfter(rules) = 1 + top
  BY DEF NextAfter
<1>6. \A i \in Ids : rules[i] # NoRule => rules[i].version \in V
  BY DEF Versions
<1> HIDE DEF V, top
<1>7. top \in Nat /\ NextAfter(rules) \in Nat
  BY <1>1, <1>4, <1>5
<1>8. ASSUME NEW i \in Ids, rules[i] # NoRule
      PROVE  rules[i].version < NextAfter(rules)
  <2>1. rules[i].version \in V /\ rules[i].version \in Nat
    BY <1>1, <1>6, <1>8
  <2>2. rules[i].version <= top
    BY <1>4, <2>1
  <2> QED BY <1>5, <1>7, <2>1, <2>2
<1> QED BY <1>7, <1>8 DEF Below

LEMMA RestoredGood ==
    ASSUME NEW content, GoodContent(content)
    PROVE  Good(Restored(content)) /\ Restored(content).next = NextAfter(content.rules)
           /\ Restored(content).rules = content.rules
<1> DEFINE rules == content.rules
           there == {i \in Ids : rules[i] # NoRule}
           new == Restored(content)
<1>1. rules \in [Ids -> Rule \cup {NoRule}] /\ content \in Contents
  BY DEF GoodContent, Contents
<1>2. NextAfter(rules) \in Nat /\ Below(rules, NextAfter(rules))
  BY <1>1, NextAfterHighest DEF GoodContent
<1>3. \A i \in there : rules[i] \in Rule
  BY <1>1
<1>4. /\ new.rules = rules
      /\ new.index = {<<rules[i].trigger, i>> : i \in there}
      /\ new.byGroup = UNION {GroupPairs(i, rules[i]) : i \in there}
      /\ new.groups = content.groups
      /\ new.next = NextAfter(rules)
  BY DEF Restored
<1>5. new \in Registry
  <2>1. {<<rules[i].trigger, i>> : i \in there} \subseteq Triggers \X Ids
    BY <1>3 DEF Rule
  <2>2. UNION {GroupPairs(i, rules[i]) : i \in there} \subseteq Groups \X Ids
    BY <1>3 DEF Rule, GroupPairs
  <2>3. content.groups \in [Groups -> {"none", "enabled", "disabled"}]
    BY <1>1 DEF Contents
  <2> QED BY <1>1, <1>2, <2>1, <2>2, <2>3 DEF Restored, Registry
<1>6. Complete(new)
  BY <1>4 DEF Complete, Has
<1>7. Distinct(new.rules) /\ Below(new.rules, new.next)
  BY <1>2, <1>4 DEF GoodContent
<1> QED BY <1>4, <1>5, <1>6, <1>7 DEF Good

-----------------------------------------------------------------------------
(* The invariant of the lifecycle. *)

LEMMA LastVersionType ==
    ASSUME history \in [Ids -> Seq(Entry)], NEW i \in Ids
    PROVE  LastVersion(i) \in Nat
<1>1. CASE history[i] = <<>>
  BY <1>1 DEF LastVersion
<1>2. CASE history[i] # <<>>
  <2>1. history[i] \in Seq(Entry) /\ Len(history[i]) \in 1 .. Len(history[i])
    BY <1>2, EmptySeq, LenProperties
  <2>2. history[i][Len(history[i])] \in Entry
    BY <2>1, ElementOfSeq
  <2> QED BY <1>2, <2>2 DEF LastVersion, Entry
<1> QED BY <1>1, <1>2

LEMMA RecordVersionType ==
    ASSUME history \in [Ids -> Seq(Entry)], NEW i \in Ids, NEW rule \in Rule,
           RecordVersion(i, rule)
    PROVE  history' \in [Ids -> Seq(Entry)]
<1> DEFINE entry == [version |-> LastVersion(i) + 1, rule |-> rule]
           entries == Append(history[i], entry)
<1>1. entry \in Entry
  <2>1. LastVersion(i) \in Nat
    BY LastVersionType
  <2>2. LastVersion(i) + 1 \in Nat
    BY <2>1
  <2> QED BY <2>2 DEF Entry
<1>2. history[i] \in Seq(Entry)
  OBVIOUS
<1> HIDE DEF entry
<1>3. entries \in Seq(Entry) /\ entries # <<>>
  BY <1>1, <1>2, AppendProperties
<1> HIDE DEF entries
<1>4. Trimmed(entries) \in Seq(Entry)
  BY <1>3, HeadTailProperties DEF Trimmed
<1>5. history' = [history EXCEPT ![i] = Trimmed(entries)]
  BY DEF RecordVersion, entries, entry
<1> QED BY <1>4, <1>5

\* A change of the registry that leaves storage alone keeps the invariant.
LEMMA OperationKeeps ==
    ASSUME Inv, Operation, Good(reg'), reg'.next \in {reg.next, reg.next + 1},
           history' \in [Ids -> Seq(Entry)]
    PROVE  Inv'
<1>1. stored' = stored /\ status' = status /\ status = "up"
  BY DEF Operation
<1>2. reg.next \in Nat /\ reg'.next \in Nat /\ reg.next <= reg'.next
  BY DEF Inv, Good, Registry
<1>3. Below(stored.rules, reg'.next)
  <2> SUFFICES ASSUME NEW i \in Ids, stored.rules[i] # NoRule
               PROVE  stored.rules[i].version < reg'.next
    BY DEF Below
  <2>1. stored.rules[i] \in Rule /\ stored.rules[i].version < reg.next
    BY <1>1 DEF Inv, GoodContent, Contents, Below
  <2>2. stored.rules[i].version \in Nat
    BY <2>1 DEF Rule
  <2> QED BY <1>2, <2>1, <2>2
<1> QED BY <1>1, <1>3 DEF Inv

LEMMA InitInv == Init => Inv
<1> SUFFICES ASSUME Init PROVE Inv
  OBVIOUS
<1>1. Good(reg) /\ GoodContent(stored) /\ Below(stored.rules, reg.next)
  BY EmptyGood, ContentGood DEF Init
<1>2. history \in [Ids -> Seq(Entry)]
  BY EmptySeq DEF Init
<1> QED BY <1>1, <1>2 DEF Inv

LEMMA CallersKeep == Inv /\ Callers => Inv'
<1> SUFFICES ASSUME Inv, Callers PROVE Inv'
  OBVIOUS
<1> USE DEF Inv
<1>1. ASSUME NEW i \in Ids, NEW input \in RuleInput, RegisterRule(i, input)
      PROVE  Inv'
  <2>1. Good(reg') /\ reg'.rules[i] \in Rule /\ reg'.next = reg.next + 1
    BY <1>1, RegisteredGood DEF RegisterRule
  <2> QED BY <1>1, <2>1, RecordVersionType, OperationKeeps DEF RegisterRule
<1>2. ASSUME NEW i \in Ids, NEW input \in RuleInput, UpdateRule(i, input)
      PROVE  Inv'
  <2>1. Good(Unregistered(reg, i)) /\ Unregistered(reg, i).next = reg.next
    BY UnregisteredGood
  <2>2. Good(reg') /\ reg'.rules[i] \in Rule /\ reg'.next = reg.next + 1
    BY <1>2, <2>1, RegisteredGood DEF UpdateRule
  <2> QED BY <1>2, <2>2, RecordVersionType, OperationKeeps DEF UpdateRule
<1>3. ASSUME NEW i \in Ids, UnregisterRule(i)
      PROVE  Inv'
  <2>1. Good(reg') /\ reg'.next = reg.next
    BY <1>3, UnregisteredGood DEF UnregisterRule
  <2>2. reg.rules[i] \in Rule
    BY <1>3 DEF UnregisterRule, Has, Good, Registry
  <2> QED BY <1>3, <2>1, <2>2, RecordVersionType, OperationKeeps DEF UnregisterRule
<1>4. ASSUME NEW i \in Ids, NEW on \in BOOLEAN, SwitchRule(i, on)
      PROVE  Inv'
  <2>1. Good(reg') /\ reg'.rules[i] \in Rule /\ reg'.next = reg.next
    BY <1>4, SwitchedGood DEF SwitchRule
  <2> QED BY <1>4, <2>1, RecordVersionType, OperationKeeps DEF SwitchRule
<1>5. ASSUME NEW i \in Ids, NEW n \in 1 .. MaxVersionsPerRule, RollbackRule(i, n)
      PROVE  Inv'
  <2>1. history[i][n] \in Entry
    BY <1>5, ElementOfSeq DEF RollbackRule
  <2>2. InputOf(history[i][n].rule) \in RuleInput
    BY <2>1 DEF Entry, InputOf, Rule, RuleInput
  <2>3. Good(Unregistered(reg, i)) /\ Unregistered(reg, i).next = reg.next
    BY UnregisteredGood
  <2>4. Good(reg') /\ reg'.rules[i] \in Rule /\ reg'.next = reg.next + 1
    BY <1>5, <2>2, <2>3, RegisteredGood DEF RollbackRule
  <2> QED BY <1>5, <2>4, RecordVersionType, OperationKeeps DEF RollbackRule
<1>6. ASSUME NEW gr \in Groups, NEW state \in {"enabled", "disabled"},
             CreateGroup(gr, state) \/ SwitchGroup(gr, state)
      PROVE  Inv'
  <2>1. Good(reg') /\ reg'.next = reg.next
    BY <1>6, GroupSwitchedGood DEF CreateGroup, SwitchGroup
  <2> QED BY <1>6, <2>1, OperationKeeps DEF CreateGroup, SwitchGroup, historyVars
<1>7. ASSUME NEW gr \in Groups, DeleteGroup(gr)
      PROVE  Inv'
  <2>1. Good(reg') /\ reg'.next = reg.next
    BY <1>7, GroupUnregisteredGood DEF DeleteGroup
  <2> QED BY <1>7, <2>1, OperationKeeps DEF DeleteGroup, historyVars
<1>8. CASE StopCalled
  BY <1>8 DEF StopCalled, persistVars, historyVars
<1>9. CASE Exit
  <2>1. Good(reg') /\ stored' = stored /\ status' = "down"
    BY <1>9, EmptyGood DEF Exit
  <2>2. history' \in [Ids -> Seq(Entry)]
    BY <1>9, EmptySeq DEF Exit
  <2> QED BY <2>1, <2>2
<1> QED BY <1>1, <1>2, <1>3, <1>4, <1>5, <1>6, <1>7, <1>8, <1>9 DEF Callers

LEMMA EngineKeeps == Inv /\ (Engine \/ FlushFails) => Inv'
<1> SUFFICES ASSUME Inv, Engine \/ FlushFails PROVE Inv'
  OBVIOUS
<1> USE DEF Inv
<1>1. GoodContent(Content(reg)) /\ Below(Content(reg).rules, reg.next)
  BY ContentGood
<1>2. CASE SaveFires
  BY <1>1, <1>2 DEF SaveFires, historyVars
<1>3. CASE FlushBegins
  BY <1>3 DEF FlushBegins, persistVars
<1>4. ASSUME NEW i \in Ids, FlushSaves(i) PROVE Inv'
  BY <1>4 DEF FlushSaves, persistVars
<1>5. CASE StopPersists
  BY <1>1, <1>5 DEF StopPersists, historyVars
<1>6. CASE StopFlushes
  BY <1>6 DEF StopFlushes, persistVars
<1>7. CASE Start
  <2>1. /\ Good(reg') /\ reg'.next = NextAfter(stored.rules)
        /\ stored' = stored /\ history' = history
    BY <1>7, RestoredGood DEF Start, historyVars
  <2>2. Below(stored.rules, NextAfter(stored.rules))
    BY NextAfterHighest DEF GoodContent, Contents
  <2> QED BY <2>1, <2>2
<1>8. CASE FlushFails
  BY <1>8 DEF FlushFails, persistVars
<1> QED BY <1>2, <1>3, <1>4, <1>5, <1>6, <1>7, <1>8 DEF Engine

LEMMA NextInv == Inv /\ [Next]_vars => Inv'
<1> SUFFICES ASSUME Inv, [Next]_vars PROVE Inv'
  OBVIOUS
<1>1. CASE Next
  BY <1>1, CallersKeep, EngineKeeps DEF Next
<1>2. CASE UNCHANGED vars
  BY <1>2 DEF vars, persistVars, historyVars, Inv
<1> QED BY <1>1, <1>2

\* The registry, what is stored and the history keep their types, and
\* what the properties below follow from, in all reachable states.
THEOREM Invariance == Spec => []Inv
BY InitInv, NextInv, PTL DEF Spec

\* Every registered rule is in the index of its trigger and of its group,
\* whatever was registered, updated, rolled back, deleted and restored: no
\* lookup of RuleManager misses a rule.
THEOREM IndexIsComplete == Spec => []IndexComplete
<1>1. Inv => IndexComplete
  BY DEF Inv, Good, Complete, IndexComplete
<1> QED BY <1>1, Invariance, PTL

\* Registered rules have different versions, and the version given next is
\* higher than all of them and than all that are stored (restore's counter).
THEOREM VersionsAreDistinct == Spec => []VersionsDistinct
<1>1. ASSUME Inv PROVE VersionsDistinct
  <2>1. \A i, j \in Ids :
          Has(reg, i) /\ Has(reg, j) /\ i # j
            => reg.rules[i].version # reg.rules[j].version
    BY <1>1 DEF Inv, Good, Distinct, Has
  <2>2. \A v \in Versions(reg.rules) : v < reg.next
    BY <1>1 DEF Inv, Good, Below, Versions
  <2>3. status # "down" => \A v \in Versions(stored.rules) : v < reg.next
    BY <1>1 DEF Inv, Below, Versions
  <2> QED BY <2>1, <2>2, <2>3 DEF VersionsDistinct
<1> QED BY <1>1, Invariance, PTL

-----------------------------------------------------------------------------
(* On top of Inv: the types, what the version history tells, and what is in *)
(* storage while the engine runs, stops and restarts.                       *)

\* The history of a process that is down is lost, and nothing is scheduled.
DownIsEmpty == status = "down" => \A i \in Ids : history[i] = <<>>

\* The invariant, added to Inv.
KeptInv ==
    /\ TypeOK
    /\ DownIsEmpty
    /\ HistorySound
    /\ FlushedUnlessDirty
    /\ SaveScheduled
    /\ StopKeepsRules

-----------------------------------------------------------------------------
(* What the operations do to the rules of a registry. *)

LEMMA RegisteredRules ==
    ASSUME NEW rg \in Registry, NEW i \in Ids, NEW input \in RuleInput
    PROVE  \A j \in Ids \ {i} : Registered(rg, i, input).rules[j] = rg.rules[j]
<1> DEFINE rule == [trigger |-> input.trigger, group |-> input.group,
                    enabled |-> input.enabled, version |-> rg.next]
           F == [rg.rules EXCEPT ![i] = rule]
           n == rg.next + 1
           base == [rg EXCEPT !.rules = F, !.next = n]
<1>1. rule \in Rule
  BY DEF Registry, Rule, RuleInput
<1> HIDE DEF rule
<1>2. F \in [Ids -> Rule \cup {NoRule}] /\ n \in Nat
  BY <1>1 DEF Registry
<1>3. Registered(rg, i, input) = Indexed(base, i, rule)
  BY DEF Registered, Registry, rule
<1>4. \A j \in Ids \ {i} : F[j] = rg.rules[j]
  BY DEF Registry
<1> HIDE DEF F, n
<1>5. base \in Registry /\ base.rules = F
  BY <1>2 DEF Registry
<1> HIDE DEF base
<1>6. Indexed(base, i, rule).rules = F
  BY <1>1, <1>5, IndexedFields
<1> QED BY <1>3, <1>4, <1>6

LEMMA UnregisteredRules ==
    ASSUME NEW rg \in Registry, NEW i \in Ids
    PROVE  /\ ~ Has(Unregistered(rg, i), i)
           /\ \A j \in Ids \ {i} : Unregistered(rg, i).rules[j] = rg.rules[j]
<1>1. CASE ~ Has(rg, i)
  BY <1>1 DEF Unregistered
<1>2. CASE Has(rg, i)
  <2> DEFINE base == Unindexed(rg, i, rg.rules[i])
  <2>1. rg.rules[i] \in Rule
    BY <1>2 DEF Has, Registry
  <2>2. base \in Registry /\ base.rules = rg.rules
    BY <2>1, UnindexedFields
  <2>3. Unregistered(rg, i) = [base EXCEPT !.rules[i] = NoRule]
    BY <1>2 DEF Unregistered
  <2> HIDE DEF base
  <2>4. Unregistered(rg, i).rules = [rg.rules EXCEPT ![i] = NoRule]
    BY <2>2, <2>3 DEF Registry
  <2> QED BY <2>4 DEF Registry, Has
<1> QED BY <1>1, <1>2

LEMMA SwitchedRules ==
    ASSUME NEW rg \in Registry, NEW i \in Ids, NEW on \in BOOLEAN
    PROVE  \A j \in Ids \ {i} : Switched(rg, i, on).rules[j] = rg.rules[j]
BY DEF Switched, Registry

LEMMA GroupSwitchedRules ==
    ASSUME NEW rg \in Registry, NEW gr, NEW state
    PROVE  GroupSwitched(rg, gr, state).rules = rg.rules
BY DEF GroupSwitched, Registry

LEMMA GroupUnregisteredRules ==
    ASSUME NEW rg \in Registry, NEW gr, NEW j \in Ids,
           Has(GroupUnregistered(rg, gr), j)
    PROVE  /\ Has(rg, j)
           /\ GroupUnregistered(rg, gr).rules[j].trigger = rg.rules[j].trigger
           /\ GroupUnregistered(rg, gr).rules[j].enabled = rg.rules[j].enabled
           /\ GroupUnregistered(rg, gr).rules[j].version = rg.rules[j].version
<1> DEFINE loose == [rg.rules[j] EXCEPT !.group = NoGroup]
<1>1. \/ GroupUnregistered(rg, gr).rules[j] = rg.rules[j]
      \/ Has(rg, j) /\ GroupUnregistered(rg, gr).rules[j] = loose
  BY DEF GroupUnregistered, Registry
<1>2. CASE GroupUnregistered(rg, gr).rules[j] = rg.rules[j]
  BY <1>2 DEF Has
<1>3. CASE Has(rg, j) /\ GroupUnregistered(rg, gr).rules[j] = loose
  <2>1. rg.rules[j] \in Rule
    BY <1>3 DEF Has, Registry
  <2>2. /\ loose.trigger = rg.rules[j].trigger /\ loose.enabled = rg.rules[j].enabled
        /\ loose.version = rg.rules[j].version
    BY <2>1 DEF Rule
  <2> QED BY <1>3, <2>2
<1> QED BY <1>1, <1>2, <1>3

\* What is saved of a restored registry is what it was restored from.
LEMMA RestoredContent ==
    ASSUME NEW content \in Contents
    PROVE  Content(Restored(content)) = content
BY DEF Content, Restored, Contents

-----------------------------------------------------------------------------
(* A version is recorded. *)

LEMMA RecordVersionKeeps ==
    ASSUME Inv, KeptInv, Operation, NEW i \in Ids, NEW rule \in Rule,
           RecordVersion(i, rule),
           \A j \in Ids \ {i} : reg'.rules[j] = reg.rules[j],
           Has(reg', i) => rule = reg'.rules[i],
           reg' \in Registry
    PROVE  KeptInv'
<1> DEFINE old == history[i]
           entry == [version |-> LastVersion(i) + 1, rule |-> rule]
           all == Append(old, entry)
           new == Trimmed(all)
<1>1. /\ old \in Seq(Entry) /\ history \in [Ids -> Seq(Entry)]
      /\ Len(old) \in Nat /\ Len(old) <= MaxVersionsPerRule
      /\ MaxVersionsPerRule \in Nat \ {0}
  BY LifecycleAssumption, LenProperties DEF Inv, KeptInv, TypeOK, LifecycleAssumption
<1>2. LastVersion(i) \in Nat
  BY <1>1, LastVersionType
<1>3. entry \in Entry /\ entry.version = LastVersion(i) + 1 /\ entry.rule = rule
  BY <1>2 DEF Entry
<1>4. history' = [history EXCEPT ![i] = new]
  BY DEF RecordVersion
<1> HIDE DEF entry
<1>5. /\ all \in Seq(Entry) /\ Len(all) = Len(old) + 1 /\ all # <<>>
      /\ \A n \in 1 .. Len(old) : all[n] = old[n]
      /\ all[Len(old) + 1] = entry
  BY <1>1, <1>3, AppendProperties
<1> HIDE DEF all
\* The kept entries are the last ones of all, in order.
<1>6. PICK d \in {0, 1} :
        /\ new \in Seq(Entry) /\ Len(new) = Len(old) + 1 - d
        /\ Len(new) \in 1 .. MaxVersionsPerRule
        /\ \A n \in 1 .. Len(new) : new[n] = all[n + d]
  <2>1. CASE Len(all) > MaxVersionsPerRule
    <3>1. new = Tail(all)
      BY <2>1 DEF Trimmed
    <3>2. /\ Tail(all) \in Seq(Entry) /\ Len(Tail(all)) = Len(all) - 1
          /\ \A n \in 1 .. Len(Tail(all)) : Tail(all)[n] = all[n + 1]
      BY <1>5, HeadTailProperties
    <3> QED BY <2>1, <3>1, <3>2, <1>1, <1>5
  <2>2. CASE ~ (Len(all) > MaxVersionsPerRule)
    BY <2>2, <1>1, <1>5 DEF Trimmed
  <2> QED BY <2>1, <2>2
<1>7. /\ history'[i] = new /\ \A j \in Ids \ {i} : history'[j] = history[j]
      /\ history' \in [Ids -> Seq(Entry)]
  <2> HIDE DEF new
  <2> QED BY <1>1, <1>4, <1>6
<1>8. new # <<>> /\ new[Len(new)] = entry
  BY <1>1, <1>5, <1>6
<1>9. /\ status = "up" /\ status' = status /\ stored' = stored
      /\ persistTimer' = TRUE /\ saveFailed' = saveFailed /\ crashes' = crashes
      /\ ops < MaxOps /\ ops' = ops + 1
      /\ dirty' = dirty \cup {i} /\ flushing' = flushing /\ flushed' = flushed
      /\ flushFailed' = flushFailed
  BY DEF Operation, RecordVersion
<1> HIDE DEF new
<1>10. TypeOK'
  <2>1. ASSUME NEW j \in Ids PROVE Len(history'[j]) <= MaxVersionsPerRule
    <3>1. CASE j = i
      BY <3>1, <1>1, <1>6, <1>7
    <3>2. CASE j # i
      BY <3>2, <1>7 DEF KeptInv, TypeOK
    <3> QED BY <3>1, <3>2
  <2>2. ops' \in 0 .. MaxOps
    BY <1>9, LifecycleAssumption DEF KeptInv, TypeOK, LifecycleAssumption
  <2> QED BY <1>7, <1>9, <2>1, <2>2 DEF KeptInv, TypeOK
<1>11. HistoryInOrder'
  <2> SUFFICES ASSUME NEW j \in Ids, NEW n \in 1 .. Len(history'[j]) - 1
               PROVE  history'[j][n + 1].version = history'[j][n].version + 1
    BY DEF HistoryInOrder
  <2>1. CASE j # i
    BY <2>1, <1>7 DEF KeptInv, HistorySound, HistoryInOrder
  <2>2. CASE j = i
    <3>1. n \in 1 .. Len(new) - 1 /\ n + d \in 1 .. Len(old)
          /\ new[n] = all[n + d] /\ new[n + 1] = all[n + d + 1]
      BY <2>2, <1>1, <1>6, <1>7
    <3>2. CASE n + d = Len(old)
      <4>1. old # <<>> /\ LastVersion(i) = old[Len(old)].version
        BY <3>1, <1>1 DEF LastVersion
      <4> QED BY <2>2, <3>1, <3>2, <4>1, <1>3, <1>5, <1>7
    <3>3. CASE n + d # Len(old)
      <4>1. /\ n + d \in 1 .. Len(old) - 1 /\ n + d + 1 \in 1 .. Len(old)
            /\ (n + d) + 1 = n + d + 1
        BY <3>1, <3>3, <1>1
      <4>2. old[(n + d) + 1].version = old[n + d].version + 1
        BY <4>1 DEF KeptInv, HistorySound, HistoryInOrder
      <4> QED BY <2>2, <3>1, <4>1, <4>2, <1>5, <1>7
    <3> QED BY <3>2, <3>3
  <2> QED BY <2>1, <2>2
<1>12. LatestIsCurrent'
  <2> SUFFICES ASSUME NEW j \in Ids, Has(reg', j), history'[j] # <<>>
               PROVE  LET latest == history'[j][Len(history'[j])].rule
                      IN  /\ latest.trigger = reg'.rules[j].trigger
                          /\ latest.enabled = reg'.rules[j].enabled
                          /\ latest.version = reg'.rules[j].version
    BY DEF LatestIsCurrent
  <2>1. CASE j = i
    BY <2>1, <1>3, <1>7, <1>8
  <2>2. CASE j # i
    BY <2>2, <1>7 DEF KeptInv, HistorySound, LatestIsCurrent, Has
  <2> QED BY <2>1, <2>2
<1>13. FlushedUnlessDirty'
  BY <1>7, <1>9 DEF KeptInv, FlushedUnlessDirty
<1>14. (SaveScheduled /\ StopKeepsRules /\ DownIsEmpty)'
  BY <1>9 DEF SaveScheduled, StopKeepsRules, DownIsEmpty
<1> QED BY <1>10, <1>11, <1>12, <1>13, <1>14 DEF KeptInv, HistorySound

\* An operation on groups, which records nothing.
LEMMA GroupOperationKeeps ==
    ASSUME Inv, KeptInv, Operation, UNCHANGED historyVars, reg' \in Registry,
           \A j \in Ids : Has(reg', j) =>
               /\ Has(reg, j)
               /\ reg'.rules[j].trigger = reg.rules[j].trigger
               /\ reg'.rules[j].enabled = reg.rules[j].enabled
               /\ reg'.rules[j].version = reg.rules[j].version
    PROVE  KeptInv'
<1>1. /\ status = "up" /\ status' = status /\ stored' = stored
      /\ persistTimer' = TRUE /\ saveFailed' = saveFailed /\ crashes' = crashes
      /\ ops < MaxOps /\ ops' = ops + 1 /\ history' = history
      /\ dirty' = dirty /\ flushing' = flushing /\ flushed' = flushed
      /\ flushFailed' = flushFailed
  BY DEF Operation, historyVars
<1>2. ops' \in 0 .. MaxOps
  BY <1>1, LifecycleAssumption DEF KeptInv, TypeOK, LifecycleAssumption
<1>3. TypeOK'
  BY <1>1, <1>2 DEF KeptInv, TypeOK
<1>4. HistoryInOrder' /\ FlushedUnlessDirty'
  BY <1>1 DEF KeptInv, HistorySound, HistoryInOrder, FlushedUnlessDirty
<1>5. LatestIsCurrent'
  BY <1>1 DEF KeptInv, HistorySound, LatestIsCurrent
<1>6. (SaveScheduled /\ StopKeepsRules /\ DownIsEmpty)'
  BY <1>1 DEF SaveScheduled, StopKeepsRules, DownIsEmpty
<1> QED BY <1>3, <1>4, <1>5, <1>6 DEF KeptInv, HistorySound

-----------------------------------------------------------------------------
(* The steps. *)

LEMMA InitKept == Init => KeptInv
<1> SUFFICES ASSUME Init PROVE KeptInv
  OBVIOUS
<1>1. reg \in Registry /\ stored = Content(reg)
  BY EmptyGood DEF Init, Good
<1>2. /\ history \in [Ids -> Seq(Entry)] /\ flushed \in [Ids -> Seq(Entry)]
      /\ \A i \in Ids : history[i] = <<>> /\ Len(history[i]) = 0
  BY EmptySeq DEF Init
<1>3. stored \in Contents
  BY EmptyGood DEF Init, GoodContent
<1>4. TypeOK
  <2>1. ops \in 0 .. MaxOps /\ crashes \in 0 .. MaxCrashes
    BY LifecycleAssumption DEF Init, LifecycleAssumption
  <2>2. ASSUME NEW i \in Ids PROVE Len(history[i]) <= MaxVersionsPerRule
    <3>1. Len(history[i]) = 0
      BY <1>2
    <3>2. 0 <= MaxVersionsPerRule
      BY LifecycleAssumption DEF LifecycleAssumption
    <3> QED BY <3>1, <3>2
  <2>3. /\ status = "up" /\ persistTimer = FALSE /\ saveFailed = FALSE
        /\ dirty = {} /\ flushing = {} /\ flushFailed = {}
    BY DEF Init
  <2> QED BY <1>1, <1>2, <1>3, <2>1, <2>2, <2>3 DEF TypeOK, Contents
<1>5. HistorySound /\ FlushedUnlessDirty /\ DownIsEmpty
  BY <1>2 DEF HistorySound, HistoryInOrder, LatestIsCurrent, FlushedUnlessDirty, DownIsEmpty
<1>6. SaveScheduled /\ StopKeepsRules
  BY <1>1 DEF SaveScheduled, StopKeepsRules
<1> QED BY <1>4, <1>5, <1>6 DEF KeptInv

LEMMA CallersKeepMore == ASSUME Inv, KeptInv, Callers PROVE KeptInv'
<1>1. reg \in Registry /\ history \in [Ids -> Seq(Entry)]
  BY DEF Inv, Good
<1>2. ASSUME NEW i \in Ids, NEW input \in RuleInput, RegisterRule(i, input)
      PROVE  KeptInv'
  <2>1. Good(reg') /\ reg'.rules[i] \in Rule
    BY <1>2, RegisteredGood DEF RegisterRule, Inv
  <2>2. \A j \in Ids \ {i} : reg'.rules[j] = reg.rules[j]
    BY <1>1, <1>2, RegisteredRules DEF RegisterRule
  <2> QED BY <1>2, <2>1, <2>2, RecordVersionKeeps DEF RegisterRule, Good
<1>3. ASSUME NEW i \in Ids, NEW input \in RuleInput, NEW base,
             base = Unregistered(reg, i), reg' = Registered(base, i, input),
             Operation, RecordVersion(i, reg'.rules[i])
      PROVE  KeptInv'
  <2>1. Good(base) /\ \A j \in Ids \ {i} : base.rules[j] = reg.rules[j]
    BY <1>1, <1>3, UnregisteredGood, UnregisteredRules DEF Inv
  <2>2. Good(reg') /\ reg'.rules[i] \in Rule
    BY <1>3, <2>1, RegisteredGood
  <2>3. \A j \in Ids \ {i} : reg'.rules[j] = reg.rules[j]
    BY <1>3, <2>1, RegisteredRules DEF Good
  <2> QED BY <1>3, <2>2, <2>3, RecordVersionKeeps DEF Good
<1>4. ASSUME NEW i \in Ids, NEW input \in RuleInput, UpdateRule(i, input)
      PROVE  KeptInv'
  BY <1>3, <1>4 DEF UpdateRule
<1>5. ASSUME NEW i \in Ids, NEW n \in 1 .. MaxVersionsPerRule, RollbackRule(i, n)
      PROVE  KeptInv'
  <2>1. history[i][n] \in Entry
    BY <1>1, <1>5, ElementOfSeq DEF RollbackRule
  <2>2. InputOf(history[i][n].rule) \in RuleInput
    BY <2>1 DEF Entry, InputOf, Rule, RuleInput
  <2> QED BY <1>3, <1>5, <2>2 DEF RollbackRule
<1>6. ASSUME NEW i \in Ids, UnregisterRule(i)
      PROVE  KeptInv'
  <2>1. /\ Good(reg') /\ ~ Has(reg', i)
        /\ \A j \in Ids \ {i} : reg'.rules[j] = reg.rules[j]
    BY <1>1, <1>6, UnregisteredGood, UnregisteredRules DEF UnregisterRule, Inv
  <2>2. reg.rules[i] \in Rule
    BY <1>1, <1>6 DEF UnregisterRule, Has, Registry
  <2> QED BY <1>6, <2>1, <2>2, RecordVersionKeeps DEF UnregisterRule, Good
<1>7. ASSUME NEW i \in Ids, NEW on \in BOOLEAN, SwitchRule(i, on)
      PROVE  KeptInv'
  <2>1. Good(reg') /\ reg'.rules[i] \in Rule
    BY <1>7, SwitchedGood DEF SwitchRule, Inv
  <2>2. \A j \in Ids \ {i} : reg'.rules[j] = reg.rules[j]
    BY <1>1, <1>7, SwitchedRules DEF SwitchRule
  <2> QED BY <1>7, <2>1, <2>2, RecordVersionKeeps DEF SwitchRule, Good
<1>8. ASSUME NEW gr \in Groups, NEW state \in {"enabled", "disabled"},
             CreateGroup(gr, state) \/ SwitchGroup(gr, state)
      PROVE  KeptInv'
  <2>1. reg' \in Registry /\ reg'.rules = reg.rules
    BY <1>1, <1>8, GroupSwitchedGood, GroupSwitchedRules
    DEF CreateGroup, SwitchGroup, Inv, Good
  <2> QED BY <1>8, <2>1, GroupOperationKeeps DEF CreateGroup, SwitchGroup, Has
<1>9. ASSUME NEW gr \in Groups, DeleteGroup(gr)
      PROVE  KeptInv'
  <2>1. reg' \in Registry
    BY <1>9, GroupUnregisteredGood DEF DeleteGroup, Inv, Good
  <2> QED BY <1>1, <1>9, <2>1, GroupUnregisteredRules, GroupOperationKeeps DEF DeleteGroup
<1>10. CASE StopCalled
  <2>1. (HistorySound /\ FlushedUnlessDirty /\ DownIsEmpty)'
    BY <1>10 DEF StopCalled, historyVars, KeptInv, HistorySound, HistoryInOrder,
                 LatestIsCurrent, FlushedUnlessDirty, DownIsEmpty
  <2> QED BY <1>10, <2>1
      DEF StopCalled, persistVars, historyVars, KeptInv, TypeOK, SaveScheduled, StopKeepsRules
<1>11. CASE Exit
  <2>1. /\ status' = "down" /\ reg' = Empty /\ persistTimer' = FALSE
        /\ \A i \in Ids : history'[i] = <<>> /\ Len(history'[i]) = 0
        /\ history' \in [Ids -> Seq(Entry)]
        /\ dirty' = {} /\ flushing' = {} /\ flushFailed' = {}
        /\ UNCHANGED <<stored, saveFailed, flushed, ops>>
    BY <1>11, EmptySeq DEF Exit
  <2>2. crashes' \in 0 .. MaxCrashes
    BY <1>11, LifecycleAssumption DEF Exit, KeptInv, TypeOK, LifecycleAssumption
  <2>3. Empty \in Registry
    BY EmptyGood DEF Good
  <2>4. TypeOK'
    <3>1. \A i \in Ids : Len(history'[i]) <= MaxVersionsPerRule
      BY <2>1, LifecycleAssumption DEF LifecycleAssumption
    <3> QED BY <2>1, <2>2, <2>3, <3>1 DEF KeptInv, TypeOK
  <2>5. (HistorySound /\ FlushedUnlessDirty /\ DownIsEmpty)'
    BY <2>1 DEF HistorySound, HistoryInOrder, LatestIsCurrent, FlushedUnlessDirty, DownIsEmpty
  <2>6. (SaveScheduled /\ StopKeepsRules)'
    BY <2>1 DEF SaveScheduled, StopKeepsRules
  <2> QED BY <2>4, <2>5, <2>6 DEF KeptInv
<1> QED
  BY <1>2, <1>4, <1>5, <1>6, <1>7, <1>8, <1>9, <1>10, <1>11 DEF Callers

\* What the history says of the rules is untouched by a step that changes
\* neither.
LEMMA HistoryUntouched ==
    ASSUME KeptInv, reg' = reg, history' = history
    PROVE  HistorySound'
BY DEF KeptInv, HistorySound, HistoryInOrder, LatestIsCurrent

LEMMA EngineKeepsMore == ASSUME Inv, KeptInv, Engine \/ FlushFails PROVE KeptInv'
<1>1. reg \in Registry /\ Content(reg) \in Contents
  BY ContentGood DEF Inv, Good, GoodContent
<1>2. CASE SaveFires
  <2>1. /\ UNCHANGED <<status, reg, historyVars, ops, crashes>>
        /\ persistTimer' = FALSE /\ saveFailed' \in BOOLEAN
        /\ stored' \in {Content(reg), stored}
        /\ stored' = Content(reg) \/ (saveFailed' = TRUE /\ stored' = stored)
    BY <1>2 DEF SaveFires
  <2>2. TypeOK'
    BY <1>1, <2>1 DEF historyVars, KeptInv, TypeOK, Contents
  <2>3. (FlushedUnlessDirty /\ DownIsEmpty)'
    BY <2>1 DEF historyVars, KeptInv, FlushedUnlessDirty, DownIsEmpty
  <2>4. (SaveScheduled /\ StopKeepsRules)'
    BY <2>1 DEF KeptInv, SaveScheduled, StopKeepsRules
  <2> QED BY <2>1, <2>2, <2>3, <2>4, HistoryUntouched DEF KeptInv, historyVars
<1>3. ASSUME \/ /\ status' = status
                /\ \/ FlushBegins
                   \/ FlushFails
                   \/ \E i \in Ids : FlushSaves(i)
             \/ StopFlushes
      PROVE  KeptInv'
  <2>1. /\ UNCHANGED <<reg, persistVars, history, ops, crashes>>
        /\ status' = status \/ (status = "saved" /\ status' = "stopped")
    BY <1>3 DEF FlushBegins, FlushFails, FlushSaves, StopFlushes
  <2>2. /\ dirty' \subseteq Ids /\ flushing' \subseteq Ids /\ flushFailed' \subseteq Ids
        /\ flushed' \in [Ids -> Seq(Entry)]
        /\ FlushedUnlessDirty'
    <3>1. CASE FlushBegins \/ StopFlushes
      BY <3>1 DEF FlushBegins, StopFlushes, KeptInv, TypeOK, FlushedUnlessDirty
    <3>2. CASE FlushFails
      BY <3>2 DEF FlushFails, KeptInv, TypeOK, FlushedUnlessDirty
    <3>3. ASSUME NEW i \in Ids, FlushSaves(i)
          PROVE  /\ dirty' \subseteq Ids /\ flushing' \subseteq Ids
                 /\ flushFailed' \subseteq Ids
                 /\ flushed' \in [Ids -> Seq(Entry)]
                 /\ FlushedUnlessDirty'
      BY <3>3 DEF FlushSaves, KeptInv, TypeOK, FlushedUnlessDirty
    <3> QED BY <1>3, <3>1, <3>2, <3>3
  <2>3. TypeOK'
    BY <2>1, <2>2 DEF persistVars, KeptInv, TypeOK
  <2>4. (DownIsEmpty /\ SaveScheduled /\ StopKeepsRules)'
    BY <2>1 DEF persistVars, KeptInv, DownIsEmpty, SaveScheduled, StopKeepsRules
  <2> QED BY <2>1, <2>2, <2>3, <2>4, HistoryUntouched DEF KeptInv
<1>4. FlushBegins \/ FlushFails \/ (\E i \in Ids : FlushSaves(i)) => status' = status
  BY DEF FlushBegins, FlushFails, FlushSaves
<1>5. CASE StopPersists
  <2>1. /\ UNCHANGED <<reg, historyVars, ops, crashes>> /\ persistTimer' = FALSE
        /\ \/ status' = "saved" /\ stored' = Content(reg) /\ saveFailed' = FALSE
           \/ status' = "failed" /\ stored' = stored /\ saveFailed' = TRUE
    BY <1>5 DEF StopPersists
  <2>2. TypeOK'
    BY <1>1, <2>1 DEF historyVars, KeptInv, TypeOK, Contents
  <2>3. (FlushedUnlessDirty /\ DownIsEmpty)'
    BY <2>1 DEF historyVars, KeptInv, FlushedUnlessDirty, DownIsEmpty
  <2>4. (SaveScheduled /\ StopKeepsRules)'
    BY <2>1 DEF SaveScheduled, StopKeepsRules
  <2> QED BY <2>1, <2>2, <2>3, <2>4, HistoryUntouched DEF KeptInv, historyVars
<1>6. CASE Start
  <2>1. /\ status = "down" /\ status' = "up" /\ reg' = Restored(stored)
        /\ saveFailed' = FALSE
        /\ UNCHANGED <<persistTimer, stored, historyVars, ops, crashes>>
    BY <1>6 DEF Start
  <2>2. reg' \in Registry /\ stored = Content(reg')
    BY <2>1, RestoredGood, RestoredContent DEF Inv, Good, GoodContent
  <2>3. TypeOK'
    BY <2>1, <2>2 DEF historyVars, KeptInv, TypeOK
  <2>4. (FlushedUnlessDirty /\ DownIsEmpty)'
    BY <2>1 DEF historyVars, KeptInv, FlushedUnlessDirty, DownIsEmpty
  <2>5. (SaveScheduled /\ StopKeepsRules)'
    BY <2>1, <2>2 DEF SaveScheduled, StopKeepsRules
  <2>6. \A i \in Ids : history'[i] = <<>>
    BY <2>1 DEF historyVars, KeptInv, DownIsEmpty
  <2>7. HistorySound'
    <3>1. HistoryInOrder'
      BY <2>1 DEF historyVars, KeptInv, HistorySound, HistoryInOrder
    <3>2. LatestIsCurrent'
      BY <2>6 DEF LatestIsCurrent
    <3> QED BY <3>1, <3>2 DEF HistorySound
  <2> QED BY <2>3, <2>4, <2>5, <2>7 DEF KeptInv
<1> QED BY <1>2, <1>3, <1>4, <1>5, <1>6 DEF Engine

\* In every reachable state the invariant holds.
THEOREM KeptInvHolds == Spec => []KeptInv
<1>1. Inv /\ KeptInv /\ [Next]_vars => KeptInv'
  <2> SUFFICES ASSUME Inv, KeptInv, [Next]_vars PROVE KeptInv'
    OBVIOUS
  <2>1. CASE Next
    BY <2>1, CallersKeepMore, EngineKeepsMore DEF Next
  <2>2. CASE UNCHANGED vars
    <3>1. (FlushedUnlessDirty /\ DownIsEmpty)'
      BY <2>2 DEF vars, persistVars, historyVars, KeptInv, FlushedUnlessDirty, DownIsEmpty
    <3>2. (TypeOK /\ SaveScheduled /\ StopKeepsRules)'
      BY <2>2 DEF vars, persistVars, historyVars, KeptInv, TypeOK, SaveScheduled, StopKeepsRules
    <3> QED BY <2>2, <3>1, <3>2, HistoryUntouched DEF KeptInv, vars, historyVars
  <2> QED BY <2>1, <2>2
<1> QED BY <1>1, InitKept, Invariance, PTL DEF Spec

\* The state keeps its types, and no history grows past maxVersionsPerRule.
THEOREM LifecycleTypeCorrect == Spec => []TypeOK
<1>1. KeptInv => TypeOK
  BY DEF KeptInv
<1> QED BY <1>1, KeptInvHolds, PTL

\* The versions of a rule are numbered without gaps and the latest shows the
\* rule as it is registered: recordVersion is called with the rule that each
\* operation of the engine leaves, whatever is rolled back, trimmed or lost.
THEOREM HistoryIsSound == Spec => []HistorySound
<1>1. KeptInv => HistorySound
  BY DEF KeptInv
<1> QED BY <1>1, KeptInvHolds, PTL

\* Versions that no flush has still to save are in storage, although flushes
\* overlap and save each rule as it is when its turn comes.
THEOREM FlushesMissNothing == Spec => []FlushedUnlessDirty
<1>1. KeptInv => FlushedUnlessDirty
  BY DEF KeptInv
<1> QED BY <1>1, KeptInvHolds, PTL

\* While the engine runs, every change of a rule or a group that storage does
\* not have is going to be saved, unless the last save failed.
THEOREM ChangesAreSaved == Spec => []SaveScheduled
<1>1. KeptInv => SaveScheduled
  BY DEF KeptInv
<1> QED BY <1>1, KeptInvHolds, PTL

\* After stop() has saved, storage holds the rules and groups of the engine.
THEOREM StopSavesAll == Spec => []StopKeepsRules
<1>1. KeptInv => StopKeepsRules
  BY DEF KeptInv
<1> QED BY <1>1, KeptInvHolds, PTL

\* A restart finds the rules and groups that storage has: what is registered
\* right after start() is the saved content, and nothing is to be saved.
THEOREM RestartFindsSaved == Spec => [][Start => Content(reg') = stored]_vars
<1>1. ASSUME Inv, Start PROVE Content(reg') = stored
  BY <1>1, RestoredContent DEF Start, Inv, GoodContent
<1>2. Inv /\ [Next]_vars => [Start => Content(reg') = stored]_vars
  BY <1>1
<1> QED BY <1>2, Invariance, PTL DEF Spec
=============================================================================
