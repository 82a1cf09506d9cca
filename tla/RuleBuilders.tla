---------------------------- MODULE RuleBuilders ----------------------------
(***************************************************************************)
(* The fluent builders of rules and of the objects in them, and the rule`  *)
(* template tag, whose lines are such calls.  A builder is made with some  *)
(* arguments; its methods set a field or append to a list, in any order    *)
(* and any number of times, and refuse what they check; build() refuses    *)
(* what lacks a part.  What build() returned has the lists of its builder: *)
(* a later call of the builder goes on changing it.                        *)
(***************************************************************************)
EXTENDS RuleShapes, Naturals

CONSTANT MaxMethodCalls

VARIABLES builder, made, built, methodCalls

builderVars == <<builder, made, built, methodCalls>>

-----------------------------------------------------------------------------
(* The fields of a builder *)

\* A field is an argument of the constructor, is set or appended to by a method, or is
\* always the same; build() may need it, or has a default for it.
Field(by, check) == [by |-> by, check |-> check, needed |-> FALSE, default |-> "absent"]
Arg(check) == Field("constructor", check)
Set(check) == Field("set", check)
Add(check) == Field("add", check)
Fixed(value) == [Field("nobody", "any") EXCEPT !.default = value]
Needed(field) == [field EXCEPT !.needed = TRUE]
Or(field, value) == [field EXCEPT !.default = value]

\* What the calls of a typed program pass, and the checks let pass.
Tried ==
    [ string |-> {"empty", "blank", "text"}, text |-> {"empty", "blank", "text"},
      word |-> {"empty", "text"}, trimmed |-> {"empty", "text"},
      option |-> {"option", "text"}, operator |-> {"option", "unary"}, boolean |-> {"boolean"},
      finite |-> Numbers, positive |-> Numbers, limit |-> Numbers,
      duration |-> {"empty", "digits", "duration"} \cup Numbers,
      cron |-> {"empty", "text", "option"}, array |-> {"empty list", "list"},
      elements |-> {"empty list", "single", "list"}, child |-> {"object"},
      named |-> {"object", "twin"}, config |-> {"object", "bad object"},
      object |-> {"object"}, any |-> {"object", "null", "number"} ]

Lets == [word |-> {"text"}, trimmed |-> {"empty", "text"}, limit |-> {"number"},
         cron |-> {"option"}, named |-> {"object"}, config |-> Objects] @@ Passes

RuleBuilder ==
    [ rule |->
        [ id |-> Needed(Arg("string")), name |-> Set("text"), description |-> Set("text"),
          priority |-> Or(Set("finite"), "zero"), enabled |-> Or(Set("boolean"), "boolean"),
          tags |-> Or(Add("text"), "empty list"), group |-> Set("string"),
          trigger |-> Needed(Set("child")), conditions |-> Or(Add("child"), "empty list"),
          actions |-> Needed(Add("child")), lookups |-> Add("named") ],
      lookup |->
        [ name |-> Needed(Arg("string")), service |-> Needed(Arg("string")),
          method |-> Needed(Arg("string")), args |-> Or(Arg("array"), "empty list"),
          cache |-> Arg("config"), onError |-> Arg("option") ] ]

OfType == [type |-> Fixed("option")]
WithName(field) == OfType @@ (field :> Needed(Arg("string")))
EventTriggerBuilder == [event_trigger |-> WithName("topic")]
FactTriggerBuilder == [fact_trigger |-> WithName("pattern")]
TimerTriggerBuilder == [timer_trigger |-> WithName("name")]

ByGroup == OfType @@ [groupBy |-> Set("string")]
SequenceBuilder ==
    [ matcher |-> [topic |-> Needed(Arg("string")), filter |-> Arg("object"), as |-> Arg("text")],
      sequence |-> ByGroup @@
          [ events |-> Needed(Add("child")), within |-> Needed(Set("duration")),
            strict |-> Set("boolean") ] ]
AbsenceBuilder ==
    [absence |-> ByGroup @@ [ after |-> Needed(Set("child")), expected |-> Needed(Set("child")),
                               within |-> Needed(Set("duration")) ]]
Compared == ByGroup @@
    [ event |-> Needed(Set("child")), threshold |-> Needed(Set("finite")),
      comparison |-> Or(Set("option"), "option"), window |-> Needed(Set("duration")) ]
CountBuilder == [count |-> Compared @@ [sliding |-> Set("boolean")]]
AggregateBuilder ==
    [aggregate |-> Compared @@ [field |-> Needed(Set("string")), function |-> Needed(Set("option"))]]

\* The operators of a source; exists() and notExists() have the value true.
SourceExpr ==
    [condition |-> [source |-> Needed(Arg("child")), operator |-> Needed(Set("operator")),
                    value |-> Fixed("object")]]
Sources == [event_source |-> WithName("field"), fact_source |-> WithName("pattern"),
            context_source |-> WithName("key")]
\* The parts of "name.field".
LookupExpr == [lookup_source |-> WithName("name") @@ [field |-> Arg("string")]]
\* above(sensitivity) and the others set the comparison too.
BaselineExpr ==
    [baseline_source |-> WithName("metric") @@
        [comparison |-> Fixed("option"), sensitivity |-> Needed(Set("positive"))]]

EmitBuilder == [emit_event |-> WithName("topic") @@ [data |-> Or(Arg("object"), "object")]]
FactBuilders == [set_fact |-> WithName("key") @@ [value |-> Needed(Arg("any"))],
                 delete_fact |-> WithName("key")]
LogBuilder == [log |-> OfType @@ [level |-> Needed(Arg("option")), message |-> Needed(Arg("text"))]]
CallServiceBuilder ==
    [call_service |-> WithName("service") @@
        [method |-> Needed(Set("string")), args |-> Or(Set("array"), "empty list")]]
CancelTimerBuilder == [cancel_timer |-> WithName("name")]

\* setTimer(name), whose emit() makes onExpire and repeat() the repetition; setTimer of
\* options takes them together.
TimerFluentBuilder ==
    [timer |-> [ name |-> Needed(Arg("string")), duration |-> Or(Set("duration"), "duration"),
                 cron |-> Set("cron"), onExpire |-> Needed(Set("string")),
                 repeat |-> Set("duration") ]]
SetTimerBuilder ==
    [timer_options |-> [ name |-> Needed(Arg("string")), onExpire |-> Needed(Arg("child")),
                         duration |-> Arg("any"), cron |-> Arg("any"), repeat |-> Arg("any") ]]

\* A second branch is a builder of its own, in `nested` as soon as elseIf() made it.
ConditionalBuilder ==
    [conditional |-> OfType @@
        [ conditions |-> Needed(Add("child")), then |-> Needed(Add("child")),
          else |-> Add("child"), nested |-> Set("child"), nestedThen |-> Add("child") ]]
ForEachBuilder ==
    [for_each |-> OfType @@ [ collection |-> Needed(Arg("any")), as |-> Needed(Set("string")),
                              actions |-> Needed(Add("child")), maxIterations |-> Set("limit") ]]
TryCatchBuilder ==
    [try_catch |-> OfType @@ [ try |-> Needed(Arg("elements")), as |-> Set("string"),
                               catch |-> Add("child"), finally |-> Add("child") ]]

\* equals(value) and the others set the operator too.
FactGoalBuilder ==
    [ fact_goal |-> WithName("key") @@ [value |-> Set("any"), operator |-> Fixed("absent")] ]

EventGoalBuilder == [ event_goal |-> WithName("topic") ]

\* The lines of a rule template: its properties and clauses, and the objects that the
\* clauses become.  Texts are trimmed.
TaggedRule ==
    [tagged_rule |->
        [ id |-> Needed(Set("trimmed")), name |-> Set("trimmed"), description |-> Set("trimmed"),
          priority |-> Or(Set("finite"), "zero"), enabled |-> Or(Set("boolean"), "boolean"),
          tags |-> Or(Add("text"), "empty list"), trigger |-> Needed(Set("child")),
          conditions |-> Or(Add("child"), "empty list"), actions |-> Needed(Add("child")),
          group |-> Fixed("absent"), lookups |-> Fixed("absent") ]]
Line(fields, check) == OfType @@ [f \in fields |-> Needed(Arg(check))]
TaggedClauses ==
    [ tagged_trigger |-> Line({"topic"}, "word"), tagged_source |-> Line({"field"}, "trimmed"),
      tagged_condition |-> [source |-> Needed(Arg("child")), operator |-> Needed(Arg("operator")),
                            value |-> Fixed("object")] ]
TaggedActions ==
    [ tagged_emit |-> Line({"topic"}, "word") @@ [data |-> Or(Arg("object"), "object")],
      tagged_set_fact |-> Line({"key"}, "word") @@ [value |-> Needed(Arg("any"))],
      tagged_delete_fact |-> Line({"key"}, "word"),
      tagged_log |-> Line({"message"}, "trimmed") @@ [level |-> Needed(Arg("option"))],
      tagged_cancel_timer |-> Line({"name"}, "word") ]

Builders ==
    RuleBuilder @@ EventTriggerBuilder @@ FactTriggerBuilder @@ TimerTriggerBuilder
        @@ SequenceBuilder @@ AbsenceBuilder @@ CountBuilder
        @@ AggregateBuilder @@ SourceExpr @@ Sources @@ LookupExpr @@ BaselineExpr @@ EmitBuilder
        @@ FactBuilders @@ LogBuilder @@ CallServiceBuilder @@ CancelTimerBuilder
        @@ TimerFluentBuilder @@ SetTimerBuilder @@ ConditionalBuilder @@ ForEachBuilder
        @@ TryCatchBuilder @@ FactGoalBuilder @@ EventGoalBuilder
        @@ TaggedRule @@ TaggedClauses @@ TaggedActions

\* The sort of object that a builder returns.
Others ==
    [ tagged_rule |-> "rule", tagged_trigger |-> "event_trigger", tagged_source |-> "event_source",
      tagged_condition |-> "condition", tagged_emit |-> "emit_event",
      tagged_set_fact |-> "set_fact", tagged_delete_fact |-> "delete_fact", tagged_log |-> "log",
      tagged_cancel_timer |-> "cancel_timer", timer_options |-> "timer" ]
SortOf(b) == IF b \in DOMAIN Others THEN Others[b] ELSE b

-----------------------------------------------------------------------------
(* Constructors, methods and build() *)

Truthy(v) == v \notin {"absent", "empty", "zero", "null", "empty list"}

\* The options are looked at together, by whether they are there.
OptionsOK(o) ==
    IF Truthy(o.cron) THEN ~Truthy(o.duration) /\ o.repeat = "absent" /\ o.cron = "option"
    ELSE o.duration \in Passes.duration /\ o.repeat \in {"absent", "object"}

RawOptions == [duration |-> Tried.duration \cup {"absent"}, cron |-> Tried.cron \cup {"absent"},
               repeat |-> {"absent", "object", "bad object"}]

\* The arguments that a constructor is called with and does not refuse.
Arguments(b) ==
    LET fields == Builders[b]
        args == {f \in DOMAIN fields : fields[f].by = "constructor"}
        Passed(f) ==
            IF b = "timer_options" /\ f \in DOMAIN RawOptions THEN RawOptions[f]
            ELSE (Tried[fields[f].check] \cap Lets[fields[f].check])
                     \cup (IF fields[f].needed THEN {} ELSE {"absent"})
    IN  {a \in [args -> UNION {Passed(f) : f \in args}] :
            (\A f \in args : a[f] \in Passed(f)) /\ (b = "timer_options" => OptionsOK(a))}

BuilderInit ==
    /\ builder \in DOMAIN Builders
    /\ \E a \in Arguments(builder) :
         made = a @@ [f \in DOMAIN Builders[builder] |->
                        IF builder = "conditional" /\ f = "conditions" THEN "single" ELSE "absent"]
    /\ built = Nothing
    /\ methodCalls = 0

\* Mutant: a lookup is appended although there is one of its name.
AcceptsTwins(f, v) == v = "twin" \/ v \in Lets[Builders[builder][f].check]

\* Whether a method takes the value: it passes the check, and else() and elseIf()
\* exclude each other.
Takes(f, v) ==
    /\ v \in Lets[Builders[builder][f].check]
    /\ f = "else" => made.nested = "absent"
    /\ f = "nested" => made.else = "absent"
    /\ f = "nestedThen" => made.nested # "absent"

\* A second elseIf() replaces the branch of the first, with its actions.
With(f, v) ==
    LET list == IF v = "twin" THEN "twins" ELSE IF made[f] = "absent" THEN "single" ELSE "list"
    IN  CASE f = "nested" -> [made EXCEPT !.nested = "object", !.nestedThen = "absent"]
          [] builder = "fact_goal" -> [made EXCEPT !.value = v, !.operator = "option"]
          [] f # "nested" /\ builder # "fact_goal" /\ Builders[builder][f].by = "add" -> [made EXCEPT ![f] = list]
          [] OTHER -> [made EXCEPT ![f] = v]

\* A call that throws changes nothing, and ends the parsing of a template.
CallMethod ==
    /\ methodCalls < MaxMethodCalls
    /\ \E f \in DOMAIN made :
         /\ Builders[builder][f].by \in {"set", "add"}
         /\ \E v \in Tried[Builders[builder][f].check] :
              IF Takes(f, v)
                THEN /\ made' = With(f, v)
                     /\ built' = IF built # Nothing /\ Builders[builder][f].by = "add"
                                        /\ built[f] \in Lists
                                   THEN [built EXCEPT ![f] = made'[f]] ELSE built
                     /\ methodCalls' = methodCalls + 1
                ELSE /\ methodCalls' = IF builder = "tagged_rule" THEN MaxMethodCalls + 1
                                       ELSE methodCalls
                     /\ UNCHANGED <<made, built>>
    /\ UNCHANGED builder

\* Whether build() has what it needs.
Complete ==
    /\ \A f \in DOMAIN made :
         Builders[builder][f].needed => made[f] \notin {"absent", "empty list"}
    /\ builder = "tagged_rule" => made.id # "empty"
    /\ builder = "timer" /\ made.cron # "absent" => made.duration = "absent" /\ made.repeat = "absent"
    /\ builder = "conditional" /\ made.nested # "absent" => made.nestedThen # "absent"
    /\ builder = "try_catch" => made.catch # "absent" \/ made.finally # "absent"

\* What is empty and left out: "if (description)".
Dropped == {<<"rule", "description">>, <<"tagged_rule", "description">>, <<"matcher", "as">>}

Result ==
    [f \in DOMAIN made |->
        CASE SortOf(builder) = "rule" /\ f = "name" /\ made.name = "absent" -> made.id
          [] builder = "timer" /\ f = "duration" /\ made.cron # "absent" -> "absent"
          [] builder = "timer" /\ f \in {"onExpire", "repeat"} /\ made[f] # "absent" -> "object"
          [] builder = "timer_options" /\ f \in {"duration", "repeat"} /\ Truthy(made.cron) -> "absent"
          [] builder = "timer_options" /\ f = "cron" /\ ~Truthy(made.cron) -> "absent"
          [] builder = "conditional" /\ f = "else" /\ made.nested # "absent" -> "single"
          [] builder = "try_catch" /\ f = "catch" /\ made.catch # "absent" -> "object"
          [] <<builder, f>> \in Dropped /\ made[f] = "empty" -> "absent"
          [] made[f] = "absent" -> Builders[builder][f].default
          [] OTHER -> made[f]]

Build ==
    /\ methodCalls <= MaxMethodCalls
    /\ Complete
    /\ built' = Result
    /\ UNCHANGED <<builder, made, methodCalls>>

BuilderNext == CallMethod \/ Build
BuilderSpec == BuilderInit /\ [][BuilderNext]_builderVars

-----------------------------------------------------------------------------
(* Properties *)

\* What the builders let pass and the validator does not.
Unchecked(s, o) ==
    \/ \E f \in DOMAIN o : <<s, f>> \in NotBlank /\ o[f] = "blank"
    \/ s = "rule" /\ o.name = "empty"
    \/ s = "sequence" /\ o.events = "single"
    \/ s = "count" /\ o.threshold \in {"zero", "fraction"}
    \/ s = "timer" /\ o.cron # "absent"
    \/ s = "lookup" /\ o.cache = "bad object"

\* Whatever is called and in whichever order, also after build(), what was built is what
\* the validator accepts, but for the named exceptions.
BuiltIsValid ==
    built # Nothing => (Validate(SortOf(builder), built) <=> ~Unchecked(SortOf(builder), built))
=============================================================================
