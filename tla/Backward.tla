------------------------------ MODULE Backward ------------------------------
(***************************************************************************)
(* BackwardChainer.evaluate: whether a goal (a fact, or an event) can be   *)
(* reached from the facts there are and the active rules, by a depth-first *)
(* search that a limit of depth and one of explored rules cut off.         *)
(*                                                                         *)
(* A value has a kind, a number, and the parts that are in it, when it is  *)
(* a list or a text; a regular expression is one of the parts that a text  *)
(* can have.  A condition reads a fact, or something that a query has none *)
(* of: trigger data, variables, lookups and baselines are undefined there. *)
(***************************************************************************)
EXTENDS Integers, Sequences, SequencesExt

CONSTANTS
    RuleBases,           \* sequences of active rules, in the order of priority
    FactBases,           \* facts: values (Undefined when absent) by key
    Goals,               \* what is asked for
    MaxDepth,            \* config.maxDepth
    MaxExploredRules,    \* config.maxExploredRules
    Elsewhere,           \* the source of a condition that is not a fact
    NoRef                \* the reference of a condition that compares with a value

VARIABLES ruleBase, factBase, goal, answer

backwardVars == <<ruleBase, factBase, goal, answer>>

-----------------------------------------------------------------------------
(* Conditions *)

Undefined == [kind |-> "undefined", number |-> 0, parts |-> {}]
Number(n) == [kind |-> "number", number |-> n, parts |-> {}]

Numbers(v, w) == v.kind = "number" /\ w.kind = "number"
Texts(v, w) == v.kind = "text" /\ w.kind = "text"

\* Whether the operator holds between a value and the one it is compared with.
EvaluateCondition(operator, v, w) ==
    CASE operator = "eq" -> v = w
      [] operator = "neq" -> v # w
      [] operator = "gt" -> Numbers(v, w) /\ v.number > w.number
      [] operator = "gte" -> Numbers(v, w) /\ v.number >= w.number
      [] operator = "lt" -> Numbers(v, w) /\ v.number < w.number
      [] operator = "lte" -> Numbers(v, w) /\ v.number <= w.number
      [] operator = "in" -> w.kind = "list" /\ v.number \in w.parts
      [] operator = "not_in" -> w.kind = "list" /\ v.number \notin w.parts
      [] operator = "contains" -> (Texts(v, w) \/ v.kind = "list") /\ w.number \in v.parts
      [] operator = "not_contains" -> (Texts(v, w) \/ v.kind = "list") => w.number \notin v.parts
      [] operator = "matches" -> Texts(v, w) /\ w.number \in v.parts
      [] operator = "exists" -> v.kind \notin {"undefined", "null"}
      [] operator = "not_exists" -> v.kind \in {"undefined", "null"}

\* The value that a condition reads in a query, and the one it is compared with.
SourceValue(c) == IF c.source = Elsewhere THEN Undefined ELSE factBase[c.source]
CompareValue(c) == IF c.ref = NoRef THEN c.value ELSE factBase[c.ref]

Evaluate(c) == EvaluateCondition(c.operator, SourceValue(c), CompareValue(c))

-----------------------------------------------------------------------------
(* The search: what it has explored is carried along with what it has found *)

\* The goal that a fact be there, with whatever value.
FactGoal(k) == [type |-> "fact", key |-> k, operator |-> "any", value |-> Undefined]

MatchesFactGoal(g, v) ==
    g.operator = "any" \/ EvaluateCondition(g.operator, v, g.value)

Exists(k) == factBase[k] # Undefined

ByAction(g) ==
    SelectSeq(ruleBase, LAMBDA r : IF g.type = "fact" THEN g.key \in r.facts ELSE g.key \in r.events)

Fails(reason) == [satisfied |-> FALSE, reason |-> reason, cyclic |-> reason = "cycle_detected"]
FactFound(holds) == [satisfied |-> holds, reason |-> "fact_exists", cyclic |-> FALSE]

\* What is visited while the rule is tried for the goal.
VisitKey(r, g) == <<r.id, g.type, g.key>>

\* Tries the goal's rules in turn until one is proved or the limit is reached, with deeper
\* for the goals of its conditions.  A rule is not tried for a goal that it is being tried
\* for.
TryRules(g, visited, search, deeper) ==
    LET Prove(r, before) ==
            FoldLeft(LAMBDA acc, c :
                LET holds == Evaluate(c)
                    open == ~holds /\ c.source # Elsewhere /\ ~Exists(c.source)
                    sub == deeper[FactGoal(c.source), visited \cup {VisitKey(r, g)}, acc.search]
                IN  IF open
                    THEN [satisfied |-> acc.satisfied /\ sub.proof.satisfied,
                          cyclic |-> acc.cyclic \/ sub.proof.cyclic, search |-> sub.search]
                    ELSE [acc EXCEPT !.satisfied = @ /\ holds],
                [satisfied |-> TRUE, cyclic |-> FALSE, search |-> before], r.conditions)
        Try(loop, r) ==
            IF loop.over \/ loop.search.explored >= MaxExploredRules
            THEN [loop EXCEPT !.over = TRUE]
            ELSE IF VisitKey(r, g) \in visited
            THEN [loop EXCEPT !.skipped = @ + 1]
            ELSE LET proof == Prove(r, [loop.search EXCEPT !.explored = @ + 1])
                 IN  [over |-> proof.satisfied, satisfied |-> proof.satisfied,
                      search |-> proof.search, cyclic |-> proof.cyclic,
                      skipped |-> loop.skipped, failed |-> loop.failed + 1,
                      byCycle |-> loop.byCycle + (IF proof.cyclic THEN 1 ELSE 0)]
        end == FoldLeft(Try, [over |-> FALSE, satisfied |-> FALSE, search |-> search, cyclic |-> FALSE,
                              skipped |-> 0, failed |-> 0, byCycle |-> 0], ByAction(g))
        total == end.skipped + end.failed
    IN  [search |-> end.search,
         proof |-> IF end.satisfied
                   THEN [satisfied |-> TRUE, reason |-> "rule", cyclic |-> end.cyclic]
                   ELSE IF total > 0 /\ end.skipped + end.byCycle = total
                   THEN Fails("cycle_detected") ELSE Fails("all_paths_failed")]

SubGoals == Goals \cup {FactGoal(k) : k \in DOMAIN factBase}
Visits == SUBSET {VisitKey(ruleBase[i], g) : i \in DOMAIN ruleBase, g \in SubGoals}
Searches == [explored : 0..MaxExploredRules, deep : BOOLEAN]

EvaluateGoal[g \in SubGoals, visited \in Visits, depth \in 0..MaxDepth, search \in Searches] ==
    LET exists == g.type = "fact" /\ Exists(g.key)
        Answer(proof) == [search |-> search, proof |-> proof]
        deeper == [h \in SubGoals, v \in Visits, found \in Searches |->
                     EvaluateGoal[h, v, depth + 1, found]]
    IN  CASE depth >= MaxDepth ->
                [search |-> [search EXCEPT !.deep = TRUE], proof |-> Fails("max_depth")]
          [] depth < MaxDepth /\ exists /\ MatchesFactGoal(g, factBase[g.key]) ->
                Answer(FactFound(TRUE))
          [] OTHER ->
                IF ByAction(g) # <<>> THEN TryRules(g, visited, search, deeper)
                ELSE Answer(IF exists THEN FactFound(FALSE) ELSE Fails("no_rules"))

-----------------------------------------------------------------------------
NoAnswer == [search |-> [explored |-> 0, deep |-> FALSE], proof |-> Fails("none")]

BackwardInit ==
    /\ ruleBase \in RuleBases
    /\ factBase \in FactBases
    /\ goal \in Goals
    /\ answer = NoAnswer

Query ==
    /\ answer = NoAnswer
    /\ answer' = EvaluateGoal[goal, {}, 0, [explored |-> 0, deep |-> FALSE]]
    /\ UNCHANGED <<ruleBase, factBase, goal>>

BackwardNext == Query
BackwardSpec == BackwardInit /\ [][BackwardNext]_backwardVars

-----------------------------------------------------------------------------
(* What can be reached *)

\* The rule's conditions hold, or ask for absent facts among those given.
Provable(r, keys) ==
    \A i \in 1 .. Len(r.conditions) :
        LET c == r.conditions[i]
        IN  Evaluate(c) \/ (c.source \in keys /\ ~Exists(c.source))

RulesOf(base) == {base[i] : i \in 1 .. Len(base)}

\* The facts that chains of at most n rules produce.
Produced(n) ==
    LET f[i \in 0 .. n] ==
            IF i = 0 THEN {}
            ELSE UNION {r.facts : r \in {q \in RulesOf(ruleBase) : Provable(q, f[i - 1])}}
    IN  f[n]

\* The goal is a fact, or the last rule of such a chain produces it.
Reachable(n) ==
    \/ n > 0 /\ goal.type = "fact" /\ Exists(goal.key) /\ MatchesFactGoal(goal, factBase[goal.key])
    \/ n > 0 /\ \E r \in RulesOf(ruleBase) :
         /\ Provable(r, Produced(n - 1))
         /\ goal.key \in (IF goal.type = "fact" THEN r.facts ELSE r.events)

\* A goal is achievable only when a chain within the limit of depth leads to it;
\* it is not achievable only when there is no such chain, unless the limit of
\* explored rules was reached, and no chain at all, unless a limit was.
AnswerExact ==
    answer # NoAnswer =>
        LET longest == Len(ruleBase) + 1
            allExplored == answer.search.explored < MaxExploredRules
        IN  /\ answer.proof.satisfied => Reachable(MaxDepth)
            /\ ~answer.proof.satisfied /\ allExplored => ~Reachable(MaxDepth)
            /\ ~answer.proof.satisfied /\ allExplored /\ ~answer.search.deep => ~Reachable(longest)
            /\ answer.search.explored <= MaxExploredRules
=============================================================================
