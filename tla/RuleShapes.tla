----------------------------- MODULE RuleShapes -----------------------------
(***************************************************************************)
(* The shape of rules: RuleInputValidator, which the hot reload,           *)
(* registerRule and the command line use, and what it has in common with   *)
(* the YAML loader (RuleSchema) and the builders (RuleBuilders).  Each     *)
(* object of a rule (the rule, its trigger, a condition, an action, ...)   *)
(* is looked at alone and for the objects in it, so that an object is a    *)
(* function from its fields to the classes of their values.                *)
(*                                                                         *)
(* Classes: texts are "empty", "blank", "digits", "duration" ("5m"),       *)
(* "unary" (an operator without value), "option" (one of those allowed     *)
(* there, the type of the object) or any other "text"; "list" and          *)
(* "object" have valid contents, "bad list" and "bad object" do not,       *)
(* "twins" has the same name twice and "single" one element.               *)
(***************************************************************************)
EXTENDS TLC

-----------------------------------------------------------------------------
(* Values *)

Text == {"blank", "digits", "duration", "unary", "option", "text"}
Strings == Text \cup {"empty"}
Finite == {"number", "fraction", "zero"}
Numbers == Finite \cup {"infinite"}
Lists == {"empty list", "single", "list", "twins", "bad list"}
Objects == {"object", "bad object"}
Present == Strings \cup Numbers \cup Lists \cup Objects \cup {"boolean", "null"}
Value == Present \cup {"absent"}

\* Not there: no object, no template.
Nothing == <<>>

\* What passes each check of the two, by the name it has below.
Passes ==
    [ string |-> Text, filled |-> Text \ {"blank"}, text |-> Strings,
      option |-> {"option"}, operator |-> {"option", "unary"}, boolean |-> {"boolean"},
      finite |-> Finite, number |-> Numbers,
      positive |-> Finite \ {"zero"}, atLeastOne |-> {"number", "infinite"},
      duration |-> {"duration", "number", "fraction"},
      period |-> {"duration", "digits", "number", "fraction", "infinite"},
      time |-> {"duration", "digits", "number", "fraction"},
      array |-> Lists, elements |-> {"empty list", "single", "list", "twins"},
      some |-> {"single", "list", "twins"}, two |-> {"list", "twins"},
      apart |-> {"empty list", "single", "list"},
      file |-> {"object", "single", "list", "twins"},
      object |-> Objects, child |-> {"object"}, any |-> Present ]

\* A field must be there, may be absent, or may be absent or null; what is missing is
\* left out or gets the default.
Must(check) == [mode |-> "must", check |-> check, default |-> "absent"]
MayDefault(check, value) == [mode |-> "may", check |-> check, default |-> value]
May(check) == MayDefault(check, "absent")
OrDefault(check, value) == [mode |-> "or null", check |-> check, default |-> value]
OrNull(check) == OrDefault(check, "absent")

\* The type of an object, which its sort is.
Typed == [type |-> Must("option")]

-----------------------------------------------------------------------------
(* RuleInputValidator *)

Windows == [event |-> Must("child"), comparison |-> May("option"), window |-> Must("period")]

ValidRule ==
    [ id |-> Must("filled"), name |-> Must("filled"), description |-> May("text"),
      priority |-> May("number"), enabled |-> May("boolean"), tags |-> May("elements"),
      group |-> May("filled"), trigger |-> Must("child"), conditions |-> May("elements"),
      actions |-> May("elements"), lookups |-> May("apart") ]

ValidTrigger ==
    [ event_trigger |-> Typed @@ [topic |-> Must("filled")],
      fact_trigger |-> Typed @@ [pattern |-> Must("filled")],
      timer_trigger |-> Typed @@ [name |-> Must("filled")],
      temporal_trigger |-> Typed @@ [pattern |-> Must("child")] ]

ValidPattern ==
    [ matcher |-> [topic |-> Must("text"), as |-> May("text")],
      sequence |-> Typed @@ [events |-> Must("two"), within |-> Must("period")],
      absence |-> Typed @@ [after |-> Must("child"), expected |-> Must("child"), within |-> Must("period")],
      count |-> Typed @@ Windows @@ [threshold |-> Must("atLeastOne")],
      aggregate |-> Typed @@ Windows @@
          [threshold |-> Must("number"), function |-> Must("option"), field |-> Must("text")] ]

ValidCondition ==
    [ condition |-> [source |-> Must("child"), operator |-> Must("operator"), value |-> Must("any")],
      event_source |-> Typed @@ [field |-> Must("text")],
      fact_source |-> Typed @@ [pattern |-> Must("text")],
      context_source |-> Typed @@ [key |-> Must("text")],
      lookup_source |-> Typed @@ [name |-> Must("text"), field |-> May("text")],
      baseline_source |-> Typed @@
          [metric |-> Must("filled"), comparison |-> Must("option"), sensitivity |-> May("positive")] ]

ValidAction ==
    [ set_fact |-> Typed @@ [key |-> Must("text"), value |-> Must("any")],
      delete_fact |-> Typed @@ [key |-> Must("text")],
      emit_event |-> Typed @@ [topic |-> Must("text"), data |-> Must("object")],
      set_timer |-> Typed @@ [timer |-> Must("child")],
      cancel_timer |-> Typed @@ [name |-> Must("text")],
      call_service |-> Typed @@
          [service |-> Must("text"), method |-> Must("text"), args |-> May("array")],
      log |-> Typed @@ [level |-> Must("option"), message |-> Must("text")],
      conditional |-> Typed @@
          [conditions |-> Must("some"), then |-> Must("some"), else |-> May("elements")],
      for_each |-> Typed,
      try_catch |-> Typed @@ [try |-> Must("some"), catch |-> May("child"), finally |-> May("elements")],
      catch |-> [actions |-> Must("some"), as |-> May("text")] ]

ValidTimer ==
    [ timer |-> [name |-> Must("text"), onExpire |-> Must("child"), duration |-> Must("period")],
      on_expire |-> [topic |-> Must("any"), data |-> Must("any")],
      repeat |-> <<>> ]

ValidLookup ==
    [ lookup |-> [ name |-> Must("filled"), service |-> Must("filled"), method |-> Must("filled"),
                   args |-> May("array"), cache |-> May("child"), onError |-> May("option") ],
      cache |-> [ttl |-> Must("time")] ]

ValidFile == [ file |-> [rules |-> Must("apart")] ]

\* Goals have one validation, that of the loader.
Goals ==
    [ fact_goal |-> Typed @@
          [key |-> Must("string"), value |-> May("any"), operator |-> May("option")],
      event_goal |-> Typed @@ [topic |-> Must("string")] ]

Valid == [rule |-> ValidRule] @@ ValidTrigger @@ ValidPattern @@ ValidCondition @@ ValidAction
             @@ ValidTimer @@ ValidLookup @@ ValidFile @@ Goals

\* The fields that are checked; a unary operator needs no value.
Looked(s, o) ==
    IF s = "condition" /\ o.operator = "unary" THEN {"source", "operator"} ELSE DOMAIN Valid[s]

\* A property that is there is checked, also when it is null.
Validate(s, o) ==
    /\ \A f \in Looked(s, o) :
         IF o[f] = "absent" THEN Valid[s][f].mode = "may" ELSE o[f] \in Passes[Valid[s][f].check]
    /\ s = "try_catch" => o.catch # "absent" \/ o.finally # "absent"

\* Names that may not be blank; loader and builders only ask that they are not empty.
NotBlank ==
    {<<"rule", "id">>, <<"rule", "name">>, <<"rule", "group">>, <<"event_trigger", "topic">>,
     <<"fact_trigger", "pattern">>, <<"timer_trigger", "name">>, <<"baseline_source", "metric">>,
     <<"lookup", "name">>, <<"lookup", "service">>, <<"lookup", "method">>}
=============================================================================
