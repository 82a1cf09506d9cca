------------------------------- MODULE Actions -------------------------------
(***************************************************************************)
(* ActionExecutor: the actions of one execution of a rule, with the        *)
(* actions inside of conditional, for_each and try_catch, which share the  *)
(* variables of the execution.  What an action does to facts, events and   *)
(* timers is the business of other modules: here it ends or fails.         *)
(***************************************************************************)
EXTENDS Integers, SequencesExt

CONSTANTS
    ActionLists,   \* the actions of rules
    NoBlock        \* no else, no catch, no finally, no name for the error

VARIABLES
    ruleActions,   \* the actions of the rule
    blocks,        \* the calls of execute() and the blocks of try under way, innermost last
    variables,     \* ctx.variables: those that are set
    told           \* history: what the callbacks were told, and what was rejected

actionVars == <<ruleActions, blocks, variables, told>>

\* A block has the path of actions that leads to it, and knows of its current action which
\* block was last, in which round, and whether its try block failed.
Block(path, list, stops) ==
    [path |-> path, list |-> list, stops |-> stops, begun |-> 0, within |-> FALSE,
     last |-> "none", round |-> 0, failed |-> FALSE, caught |-> FALSE]

ActionInit ==
    /\ ruleActions \in ActionLists
    /\ blocks = <<Block(<<>>, ruleActions, FALSE)>>
    /\ variables = <<>> /\ told = <<>>

Innermost == Last(blocks)
Current == Innermost.list[Innermost.begun]
Replaced(block) == Append(Front(blocks), block)

Tell(what) ==
    told' = Append(told, [what |-> what, action |-> Current, path |-> Innermost.path,
                          index |-> Innermost.begun, variables |-> variables])

Set(name, value) ==
    [n \in DOMAIN variables \cup {name} |-> IF n = name THEN value ELSE variables[n]]
\* Mutant of Unset: a block leaves its variable behind.
UnsetNothing(name) == variables
Unset(name) == [n \in DOMAIN variables \ {name} |-> variables[n]]

-----------------------------------------------------------------------------
(* What an action has inside *)

\* executeAction: what waits for others may fail, and so may the conditions of a branch; a
\* collection that is no list does.
MayFail(action) ==
    \/ action.type \in {"emit_event", "set_timer", "cancel_timer", "call_service", "conditional"}
    \/ action.type = "for_each" /\ action.count = -1

MustFail(action) == action.type = "for_each" /\ action.count = -1

\* buildActionInput: a reference that names no source throws.  Of the actions with others
\* inside only these are counted, which cannot fail.
MayThrow(action) == action.type \notin {"conditional", "for_each", "try_catch"}

Rounds(action) == IF action.count < action.maxIterations THEN action.count ELSE action.maxIterations

Finally(action) == IF action.finally = NoBlock THEN {"end"} ELSE {"finally"}

\* The block that follows the one that was last; the conditions may be met or not.
Following(action, last, round, failed) ==
    CASE action.type = "conditional" /\ last = "none" ->
            {"then", IF action.else = NoBlock THEN "end" ELSE "else"}
      [] action.type = "for_each" /\ last \in {"none", "actions"} ->
            IF round < Rounds(action) THEN {"actions"} ELSE {"end"}
      [] action.type = "try_catch" /\ last = "none" -> {"try"}
      [] action.type = "try_catch" /\ last = "try" ->
            IF failed /\ action.catch # NoBlock THEN {"catch"} ELSE Finally(action)
      [] action.type = "try_catch" /\ last = "catch" -> Finally(action)
      [] OTHER -> {"end"}

InBlock(action, name) ==
    CASE name = "then" -> action.then
      [] name = "else" -> action.else
      [] name = "actions" -> action.actions
      [] name = "try" -> action.try
      [] name = "catch" -> action.catch
      [] name = "finally" -> action.finally

\* The variable that a block is given, and that goes when it is over.
NameIn(action, name) ==
    CASE name = "actions" -> action.as
      [] name = "catch" -> action.errorAs
      [] OTHER -> NoBlock

-----------------------------------------------------------------------------
(* The steps *)

\* The loop of execute() or of the try block comes to the next action.
AtNext ==
    /\ ~Innermost.within /\ Innermost.begun < Len(Innermost.list)
    /\ ~(Innermost.stops /\ Innermost.failed)

StartAction ==
    /\ AtNext
    /\ LET next == [Innermost EXCEPT !.begun = @ + 1, !.within = TRUE, !.last = "none",
                                      !.round = 0, !.caught = FALSE] IN
         /\ blocks' = Replaced(next)
         /\ told' = Append(told, [what |-> "started", action |-> next.list[next.begun], path |-> next.path,
                                  index |-> next.begun, variables |-> variables])
    /\ UNCHANGED <<ruleActions, variables>>

ActionFails ==
    /\ Innermost.within /\ Innermost.last = "none" /\ MayFail(Current)
    /\ blocks' = Replaced([Innermost EXCEPT !.within = FALSE, !.failed = TRUE])
    /\ Tell("failed")
    /\ UNCHANGED <<ruleActions, variables>>

\* The input of the next action is built before its try: when that throws, the whole block
\* rejects, and what it is a block of fails where it stands.  The blocks that would follow
\* are left out, and so is the deletion of the variable.  At the outside the rule is over.
BlockRejects ==
    /\ AtNext
    /\ LET next == Innermost.list[Innermost.begun + 1]
           rejected == [what |-> "rejected", action |-> next, path |-> Innermost.path,
                        index |-> Innermost.begun + 1, variables |-> variables]
       IN  /\ MayThrow(next)
           /\ IF Len(blocks) = 1
                THEN /\ blocks' = <<[Innermost EXCEPT !.list = SubSeq(@, 1, Innermost.begun)]>>
                     /\ told' = Append(told, rejected)
                ELSE LET outer == blocks[Len(blocks) - 1] IN
                     /\ blocks' = Append(SubSeq(blocks, 1, Len(blocks) - 2),
                                         [outer EXCEPT !.within = FALSE, !.failed = TRUE])
                     /\ told' = told \o
                          <<rejected,
                            [what |-> "failed", action |-> outer.list[outer.begun],
                             path |-> outer.path, index |-> outer.begun, variables |-> variables]>>
    /\ UNCHANGED <<ruleActions, variables>>

\* A round of a loop sets its variable to the element, and a catch block its own to the
\* error, which is 0.
BlockBegins ==
    /\ Innermost.within /\ ~MustFail(Current)
    /\ \E name \in Following(Current, Innermost.last, Innermost.round, Innermost.caught) \ {"end"} :
         LET round == IF name = "actions" THEN Innermost.round + 1 ELSE Innermost.round
             step == [index |-> Innermost.begun, name |-> name, round |-> round,
                      bound |-> NameIn(Current, name)]
             outer == [Innermost EXCEPT !.last = name, !.round = round]
         IN  /\ blocks' = Append(Replaced(outer),
                                 Block(Append(Innermost.path, step), InBlock(Current, name), name = "try"))
             /\ variables' = IF step.bound = NoBlock THEN variables ELSE Set(step.bound, round)
    /\ UNCHANGED <<ruleActions, told>>

\* The error's variable goes with its block; that of a loop, with the loop.
BlockEnds ==
    /\ Len(blocks) > 1 /\ ~Innermost.within
    /\ Innermost.begun = Len(Innermost.list) \/ (Innermost.stops /\ Innermost.failed)
    /\ LET outer == blocks[Len(blocks) - 1]
           name == outer.last
           bound == NameIn(outer.list[outer.begun], name)
       IN  /\ blocks' = Append(SubSeq(blocks, 1, Len(blocks) - 2),
                               [outer EXCEPT !.caught = name = "try" /\ Innermost.failed])
           /\ variables' = IF name = "catch" /\ bound # NoBlock THEN Unset(bound) ELSE variables
    /\ UNCHANGED <<ruleActions, told>>

ActionEnds ==
    /\ Innermost.within /\ ~MustFail(Current)
    /\ "end" \in Following(Current, Innermost.last, Innermost.round, Innermost.caught)
    /\ blocks' = Replaced([Innermost EXCEPT !.within = FALSE])
    /\ variables' = IF Current.type = "for_each" THEN Unset(Current.as) ELSE variables
    /\ Tell("completed")
    /\ UNCHANGED ruleActions

ActionNext ==
    StartAction \/ BlockRejects \/ ActionFails \/ BlockBegins \/ BlockEnds \/ ActionEnds

ActionSpec == ActionInit /\ [][ActionNext]_actionVars

-----------------------------------------------------------------------------
(* Properties *)

Over == Len(blocks) = 1 /\ ~Innermost.within /\ Innermost.begun = Len(Innermost.list)

\* What was started in a block of an action, in the first n entries.
StartedIn(n, e, name) ==
    {m \in 1..n : /\ told[m].what = "started" /\ Len(told[m].path) = Len(e.path) + 1
                  /\ IsPrefix(e.path, told[m].path)
                  /\ Last(told[m].path).index = e.index /\ Last(told[m].path).name = name}

ListLength(list) == IF list = NoBlock THEN 0 ELSE Len(list)

\* A try_catch that completes did all of its finally block, all of its catch block if and
\* only if its try block failed, and nothing of the try block after what failed; and a loop
\* that completes did its actions once for each element up to its limit, whichever of them
\* failed.  (What was cut short by a block that rejected fails instead.)
BranchesRun ==
    \A n \in DOMAIN told :
        LET e == told[n]
            Count(name) == Cardinality(StartedIn(n, e, name))
            failed == \E m \in StartedIn(n, e, "try"), k \in 1..n :
                        told[k].what = "failed" /\ told[k].path = told[m].path
        IN  e.what = "completed" =>
              /\ e.action.type = "try_catch" =>
                    /\ Count("finally") = ListLength(e.action.finally)
                    /\ Count("catch") = IF failed THEN ListLength(e.action.catch) ELSE 0
                    /\ ~failed => Count("try") = Len(e.action.try)
                    /\ \A m, k \in StartedIn(n, e, "try") :
                          m < k => \A j \in 1..k : told[j].what = "failed" => told[j].path # told[m].path
              /\ e.action.type = "for_each" =>
                    Count("actions") = Rounds(e.action) * Len(e.action.actions)

\* Whatever fails or is cut short inside of an action, the rule goes on with the next one:
\* it does them all unless the input of one of its own cannot be built.
RuleGoesOn ==
    Over => \/ \A i \in DOMAIN ruleActions : \E n \in DOMAIN told :
                 told[n].what = "started" /\ told[n].path = <<>> /\ told[n].index = i
            \/ \E n \in DOMAIN told : told[n].what = "rejected" /\ told[n].path = <<>>

Binds(e, from, name) ==
    \/ \E j \in from..Len(e.path) : e.path[j].bound = name
    \/ e.action.type = "for_each" /\ e.action.as = name

\* An action in a loop or in a catch block finds the element or the error of the innermost
\* one of the name, unless an inner one of that name was there before it: the inner one
\* takes the variable along.  At the end no variable is left but those of the loops and the
\* catch blocks that were cut short.
ScopeKept ==
    /\ \A n \in DOMAIN told : \A j \in DOMAIN told[n].path :
          LET e == told[n]
              name == e.path[j].bound
              within == SubSeq(e.path, 1, j)
          IN  \/ name = NoBlock \/ Binds(e, j + 1, name)
              \/ \E m \in 1..n : IsPrefix(within, told[m].path) /\ Binds(told[m], j + 1, name)
              \/ name \in DOMAIN e.variables /\ e.variables[name] = e.path[j].round
    /\ Over => \A name \in DOMAIN variables :
                 \E n \in DOMAIN told : /\ told[n].what = "rejected" /\ told[n].path # <<>>
                                       /\ Last(told[n].path).bound = name

\* An inner loop leaves the variable of an outer one of its name as it was: it does not.
ShadowingEnds ==
    \A n \in DOMAIN told : \A j \in DOMAIN told[n].path :
        told[n].path[j].bound # NoBlock => told[n].path[j].bound \in DOMAIN told[n].variables

\* "Finally block — always runs": not when the input of an action of the try, catch or
\* finally block cannot be built.
FinallyRuns ==
    \A n \in DOMAIN told :
        /\ told[n].what \in {"completed", "failed"} /\ told[n].action.type = "try_catch"
        => Cardinality(StartedIn(n, told[n], "finally")) = ListLength(told[n].action.finally)

ActionsSound == BranchesRun /\ RuleGoesOn /\ ScopeKept
=============================================================================
