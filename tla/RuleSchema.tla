----------------------------- MODULE RuleSchema -----------------------------
(***************************************************************************)
(* validateRule of the YAML loader, which checks the objects of a rule and *)
(* completes what is absent, before RuleInputValidator checks what it has  *)
(* returned.  A state has one object: its sort, and for every field the    *)
(* class of its value.                                                     *)
(***************************************************************************)
EXTENDS RuleShapes

VARIABLES sort, raw, loaded, verdict

schemaVars == <<sort, raw, loaded, verdict>>

-----------------------------------------------------------------------------
(* The loader *)

Grouped == [groupBy |-> May("string")]
Windowed == [event |-> Must("child"), comparison |-> Must("option"), threshold |-> Must("finite"),
             window |-> Must("duration")]
YamlRule ==
    [ id |-> Must("string"), name |-> May("text"), description |-> May("string"),
      priority |-> MayDefault("finite", "zero"), enabled |-> MayDefault("boolean", "boolean"),
      tags |-> OrDefault("elements", "empty list"),
      group |-> May("string"), trigger |-> Must("child"),
      conditions |-> OrDefault("elements", "empty list"), actions |-> Must("some"),
      lookups |-> OrNull("apart") ]

YamlTrigger ==
    [ event_trigger |-> Typed @@ [topic |-> Must("string")],
      fact_trigger |-> Typed @@ [pattern |-> Must("string")],
      timer_trigger |-> Typed @@ [name |-> Must("string")],
      temporal_trigger |-> Typed @@ [pattern |-> Must("child")] ]

YamlPattern ==
    [ matcher |-> [topic |-> Must("string"), filter |-> May("object"), as |-> May("string")],
      sequence |-> Typed @@ Grouped @@
          [events |-> Must("two"), within |-> Must("duration"), strict |-> May("boolean")],
      absence |-> Typed @@ Grouped @@
          [after |-> Must("child"), expected |-> Must("child"), within |-> Must("duration")],
      count |-> Typed @@ Grouped @@ Windowed @@ [sliding |-> May("boolean")],
      aggregate |-> Typed @@ Grouped @@ Windowed @@
          [function |-> Must("option"), field |-> Must("string")] ]

YamlCondition ==
    [ condition |-> [source |-> Must("child"), operator |-> Must("operator"), value |-> Must("any")],
      event_source |-> Typed @@ [field |-> Must("string")],
      fact_source |-> Typed @@ [pattern |-> Must("string")],
      context_source |-> Typed @@ [key |-> Must("string")],
      lookup_source |-> Typed @@ [name |-> Must("string"), field |-> OrNull("string")],
      baseline_source |-> Typed @@
          [metric |-> Must("string"), comparison |-> Must("option"), sensitivity |-> OrNull("positive")] ]

YamlAction ==
    [ set_fact |-> Typed @@ [key |-> Must("string"), value |-> Must("any")],
      delete_fact |-> Typed @@ [key |-> Must("string")],
      emit_event |-> Typed @@ [topic |-> Must("string"), data |-> OrDefault("object", "object")],
      set_timer |-> Typed @@ [timer |-> Must("child")],
      cancel_timer |-> Typed @@ [name |-> Must("string")],
      call_service |-> Typed @@
          [service |-> Must("string"), method |-> Must("string"), args |-> OrDefault("array", "empty list")],
      log |-> Typed @@ [level |-> Must("option"), message |-> Must("string")],
      conditional |-> Typed @@
          [conditions |-> May("some"), condition |-> May("child"), then |-> Must("some"), else |-> May("elements")],
      for_each |-> Typed @@
          [collection |-> Must("any"), as |-> Must("string"), actions |-> Must("some"), maxIterations |-> May("finite")],
      try_catch |-> Typed @@ [try |-> Must("some"), catch |-> May("child"), finally |-> May("some")],
      catch |-> [actions |-> Must("some"), as |-> May("string")] ]

YamlTimer ==
    [ timer |-> [ name |-> Must("string"), onExpire |-> Must("child"), cron |-> May("string"),
                  duration |-> Must("duration"), repeat |-> May("child"), maxCount |-> May("finite") ],
      on_expire |-> [topic |-> Must("string"), data |-> OrDefault("any", "object")],
      repeat |-> [interval |-> Must("duration"), maxCount |-> May("finite")] ]

YamlLookup ==
    [ lookup |-> [ name |-> Must("string"), service |-> Must("string"), method |-> Must("string"),
                   args |-> OrDefault("array", "empty list"), cache |-> OrNull("child"), onError |-> OrNull("option") ],
      cache |-> [ttl |-> Must("duration")] ]

YamlGroup ==
    [ group |-> [ id |-> Must("string"), name |-> Must("string"), description |-> May("text"),
                  enabled |-> May("boolean") ] ]

YamlParameter ==
    [ parameter |-> [ name |-> Must("string"), type |-> May("option"), default |-> May("any"),
                      description |-> May("text") ] ]

YamlFile == [ file |-> [rules |-> Must("file")] ]
YamlGroups == [ group_file |-> [groups |-> Must("file")] ]
YamlGoals == [ goal_file |-> [queries |-> Must("file")] ]

\* What nothing validates once it is loaded.
Unvalidated == YamlGroup @@ YamlParameter @@ YamlGroups @@ YamlGoals

Yaml == [rule |-> YamlRule] @@ YamlTrigger @@ YamlPattern @@ YamlCondition @@ YamlAction @@ YamlTimer
            @@ YamlLookup @@ YamlFile @@ Goals @@ Unvalidated

Missing(field, v) == v = "absent" \/ (v = "null" /\ field.mode # "may")

Accepts(field, v) ==
    IF Missing(field, v) THEN field.mode # "must" ELSE v \in Passes[field.check]

\* Mutant: what is null is left as it is.
CompletedKeepsNull(field, v) == IF v = "absent" THEN field.default ELSE v

Completed(field, v) == IF Missing(field, v) THEN field.default ELSE v

\* What concerns several fields of an object.
Together(s, o) ==
    CASE s = "timer" -> o.cron # "absent" => o.duration = "absent"
      [] s = "conditional" -> o.conditions # "absent" \/ o.condition # "absent"
      [] s = "try_catch" -> o.catch # "absent" \/ o.finally # "absent"
      [] OTHER -> TRUE

\* The fields of the object that the loader looks at, given the others.
Read(s, o) ==
    CASE s = "condition" /\ o.operator = "unary" -> {"source", "operator"}
      [] s = "conditional" /\ o.conditions # "absent" -> DOMAIN o \ {"condition"}
      [] s = "timer" /\ o.cron # "absent" -> DOMAIN o \ {"duration", "repeat"}
      [] s = "timer" /\ o.cron = "absent" -> DOMAIN o \ {"maxCount"}
      [] s = "rule" -> DOMAIN o \ {"name"}
      [] OTHER -> DOMAIN o

LoadOK(s, o) == Together(s, o) /\ \A f \in Read(s, o) : Accepts(Yaml[s][f], o[f])

\* The object that the loader returns: completed, a unary condition with the value
\* true, a single condition as a list, and the id for a name that is none.
Load(s, o) ==
    [f \in DOMAIN o |->
        CASE s = "condition" /\ f = "value" /\ o.operator = "unary" -> "boolean"
          [] s = "conditional" /\ f = "condition" -> "absent"
          [] s = "conditional" /\ f = "conditions" /\ o.conditions = "absent" -> "single"
          [] s = "rule" /\ f = "name" /\ o.name \notin Text -> o.id
          [] s = "timer" /\ f \notin Read(s, o) -> "absent"
          [] f \in {"rules", "groups", "queries"} /\ o[f] = "object" -> "single"
          [] OTHER -> Completed(Yaml[s][f], o[f])]

-----------------------------------------------------------------------------
(* An object of a file is loaded, and validated before it is registered *)

Usual ==
    [ string |-> "text", text |-> "text", option |-> "option", operator |-> "option",
      finite |-> "number", duration |-> "duration", some |-> "list", two |-> "list",
      file |-> "list", object |-> "object", child |-> "object", any |-> "object" ]

\* What is required, and nothing else.
Plain(s) ==
    [f \in DOMAIN Yaml[s] |->
        IF Yaml[s][f].mode = "must" THEN Usual[Yaml[s][f].check] ELSE "absent"]

\* The objects of the sort that differ from it in one field or two.
Objects2(s) ==
    {[Plain(s) EXCEPT ![f] = v, ![g] = w] : f \in DOMAIN Yaml[s], g \in DOMAIN Yaml[s],
                                            v \in Value, w \in Value}

SchemaInit ==
    /\ sort \in DOMAIN Yaml
    /\ raw \in Objects2(sort)
    /\ loaded = Nothing
    /\ verdict = "none"

LoadObject ==
    /\ loaded = Nothing /\ verdict = "none"
    /\ IF LoadOK(sort, raw)
         THEN loaded' = Load(sort, raw) /\ UNCHANGED verdict
         ELSE verdict' = "not loaded" /\ UNCHANGED loaded
    /\ UNCHANGED <<sort, raw>>

ValidateObject ==
    /\ loaded # Nothing /\ verdict = "none" /\ sort \notin DOMAIN Unvalidated
    /\ verdict' = IF Validate(sort, loaded) THEN "valid" ELSE "invalid"
    /\ UNCHANGED <<sort, raw, loaded>>

SchemaNext == LoadObject \/ ValidateObject
SchemaSpec == SchemaInit /\ [][SchemaNext]_schemaVars

-----------------------------------------------------------------------------
(* Properties *)

Refused(s, o) ==
    \/ \E f \in DOMAIN o : <<s, f>> \in NotBlank /\ o[f] = "blank"
    \/ s = "count" /\ o.threshold \in {"zero", "fraction"}
    \/ s = "timer" /\ o.cron # "absent"
    \/ s = "file" /\ o.rules = "twins"

\* What the loader returns is what the validator accepts, but for blank names,
\* thresholds below one, rules of one id, and timers with a cron expression; and it loads
\* again, as it is.
LoadedIsValid ==
    /\ verdict \in {"valid", "invalid"} => (verdict = "valid" <=> ~Refused(sort, loaded))
    /\ loaded # Nothing => LoadOK(sort, loaded) /\ Load(sort, loaded) = loaded

\* types/timer.ts: a timer needs its duration only without a cron expression.
CronNeedsNoDuration == sort = "timer" => verdict # "invalid"
=============================================================================
