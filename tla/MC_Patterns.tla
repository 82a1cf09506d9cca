---------------------------- MODULE MC_Patterns ----------------------------
(***************************************************************************)
(* The temporal processor, the sequence and absence matchers, and the      *)
(* window matchers, of which a behaviour has the one that `focus` names.   *)
(* Patterns have windows of one tick, over two topics, which "any" covers. *)
(* A rule of the processor is named for the pattern that it has at first.  *)
(***************************************************************************)
EXTENDS Temporal

CONSTANT grp \* a value to group by

Sequence2(strict, grouped) ==
    [type |-> "sequence", events |-> <<"a", "b">>, window |-> 1, within |-> 1,
     strict |-> strict, grouped |-> grouped]

Single ==
    [type |-> "sequence", events |-> <<"any">>, window |-> 1, within |-> 1,
     strict |-> FALSE, grouped |-> FALSE]

Absence == [type |-> "absence", after |-> "a", expected |-> "b", window |-> 1, within |-> 1,
            grouped |-> TRUE]

Count(sliding, threshold) ==
    [type |-> "count", event |-> "a", window |-> 1, sliding |-> sliding,
     threshold |-> threshold, comparison |-> "gte", grouped |-> TRUE]

Aggregate(function, topic, comparison, sliding) ==
    [type |-> "aggregate", event |-> topic, function |-> function, window |-> 1,
     sliding |-> sliding, threshold |-> 1, comparison |-> comparison, grouped |-> FALSE]

MCPatternOf ==
    [sequence |-> Sequence2(FALSE, TRUE), strict |-> Sequence2(TRUE, FALSE),
     single |-> Single, absence |-> Absence,
     slide |-> Count(TRUE, 2), tumble |-> Count(FALSE, 1),
     sum |-> Aggregate("sum", "a", "gte", TRUE), avg |-> Aggregate("avg", "any", "lte", TRUE),
     min |-> Aggregate("min", "any", "gte", TRUE), max |-> Aggregate("max", "any", "gte", FALSE),
     count |-> Aggregate("count", "any", "eq", FALSE)]

MCPattern == DOMAIN MCPatternOf
MCTopic == {"a", "b"}
MCCovers == [a |-> {"a"}, b |-> {"b"}, any |-> {"a", "b"}]
MCValueOf == [a |-> 1, b |-> NoValue]

-----------------------------------------------------------------------------
(* What is registered at first: alone, or several one behind the other. *)

MCFirstPattern == [r \in MCPattern |-> r]
MCRegistrable == [r \in MCPattern |->
                    IF r = "sequence" THEN {"sequence", "strict", "absence"} ELSE {r}]
MCChanging == {"sequence"}

ProcessorPatterns ==
    {<<"sequence">>, <<"absence", "sequence">>, <<"single", "absence">>, <<"sum", "strict">>,
     <<"slide", "min">>}
MatcherPatterns == {<<"sequence">>, <<"absence">>, <<"single", "strict">>, <<"strict", "sequence">>}
WindowPatterns == {<<"slide">>, <<"tumble">>, <<"count", "sum">>, <<"avg", "min", "max">>}

-----------------------------------------------------------------------------
(* The three side by side; what the windows prune needs events that are late. *)

VARIABLES focus, patterns, events, started, endings, running, windows, current, pushes, counted

ForMatchers == {q \in Pattern : PatternOf[q].type \in {"sequence", "absence"}}

M == INSTANCE Matchers WITH Pattern <- ForMatchers, InitialPatterns <- MatcherPatterns,
                            Changing <- {"absence"}, MaxTime <- 2
W == INSTANCE Windows WITH Pattern <- Pattern \ ForMatchers, InitialPatterns <- WindowPatterns,
                           Changing <- {"tumble"}, MaxTime <- 2, Ages <- {0, 2}

ASSUME PatternsAreTyped == M!PatternsTyped /\ W!PatternsTyped

\* What each has for itself.
processorVars == <<rules, pattern, disabled, store, instances, armed, setting, due, reported,
                   visits>>
matcherVars == <<started, endings>>
windowVars == <<windows, current, pushes, counted>>
allVars == <<vars, focus, patterns, events, running, matcherVars, windowVars>>

NoProcessor == /\ rules = <<>> /\ pattern = <<>> /\ disabled = {} /\ store = <<>>
               /\ instances = <<>> /\ armed = {} /\ setting = {} /\ due = {}
               /\ reported = <<>> /\ visits = <<>>
NoMatchers == started = <<>> /\ endings = <<>>
NoWindows == windows = <<>> /\ current = <<>> /\ pushes = <<>> /\ counted = <<>>

PatternsInit ==
    \/ /\ focus = "processor" /\ Init /\ NoMatchers /\ NoWindows
       /\ patterns = <<>> /\ events = <<>> /\ running = 0
    \/ focus = "matchers" /\ M!Init /\ NoProcessor /\ NoWindows
    \/ focus = "windows" /\ W!Init /\ NoProcessor /\ NoMatchers

PatternsNext ==
    /\ UNCHANGED focus
    /\ \/ /\ focus = "processor" /\ Next
          /\ UNCHANGED <<patterns, events, running, matcherVars, windowVars>>
       \/ focus = "matchers" /\ M!Next /\ UNCHANGED <<processorVars, windowVars>>
       \/ focus = "windows" /\ W!Next /\ UNCHANGED <<processorVars, matcherVars>>

PatternsSpec == PatternsInit /\ [][PatternsNext]_allVars

\* An instance of a sequence or absence matcher ends once, however its timeout, its
\* events and the callbacks of other instances fall: completed or cancelled by an
\* event within the window, also when its call was held up, or timed out after it.
MatchersEnd == M!MatchersEnd

\* An event is in one tumbling window, also when calls open several and callbacks throw, and
\* a sliding window that matches has counted what the timestamps of its group leave of it.
WindowsExact == focus = "windows" => W!WindowsExact
=============================================================================
