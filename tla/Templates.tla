----------------------------- MODULE Templates -----------------------------
(***************************************************************************)
(* Rule templates: parameters that are declared, a blueprint that refers   *)
(* to them, made with the builder or loaded from YAML, and the rules that  *)
(* are instantiated from it.  The blueprint has one part of each kind that *)
(* is treated differently: the id (as the name), the actions (as trigger   *)
(* and conditions) and the description (as tags and enabled).              *)
(***************************************************************************)
EXTENDS Sequences, Naturals

CONSTANTS
    Param,      \* names of parameters
    Def,        \* definitions of parameters: [name, type, default, refused]
    Given,      \* values that parameters are given
    Textual,    \* those of them that are texts
    Absent      \* no parameter, no default, no value

VARIABLES origin, parameters, blueprint, template, checked, rule, problem

templateVars == <<origin, parameters, blueprint, template, checked, rule, problem>>

Part == {"id", "actions", "description"}

\* A part is missing, has no parameter, is a parameter, or is a text with a parameter in
\* it, which becomes a function of the parameters.
Content == [form : {"missing", "plain"}, param : {Absent}] \cup [form : {"exact", "mixed"}, param : Param]
Missing == [form |-> "missing", param |-> Absent]
Plain == [form |-> "plain", param |-> Absent]

Names(defs) == {defs[i].name : i \in DOMAIN defs}

-----------------------------------------------------------------------------
(* A template *)

\* A builder starts with the template's id as the id of the rules.
TemplateInit ==
    /\ origin \in {"builder", "yaml"}
    /\ parameters = <<>>
    /\ blueprint = [p \in Part |-> IF origin = "builder" /\ p = "id" THEN Plain ELSE Missing]
    /\ template = <<>> /\ rule = <<>>
    /\ checked = TRUE /\ problem = "none"

\* param(): a name is declared once; the definitions of a file are not compared.
DeclareParam(d) ==
    /\ template = <<>> /\ Len(parameters) < 2
    /\ origin = "builder" => d.name \notin Names(parameters)
    /\ parameters' = Append(parameters, d)
    /\ UNCHANGED <<origin, blueprint, template, checked, rule, problem>>

\* ruleId(), then() and the others; in a program a function gives the id or the name only.
SetPart(p, content) ==
    /\ template = <<>> /\ blueprint[p] \in {Missing, Plain} /\ content # blueprint[p]
    /\ origin = "builder" /\ content.form = "mixed" => p = "id"
    /\ content # Missing
    /\ blueprint' = [blueprint EXCEPT ![p] = content]
    /\ UNCHANGED <<origin, parameters, template, checked, rule, problem>>

\* What the builder finds referenced: what is a parameter, in these parts.
CollectParamNames == {blueprint[p].param : p \in {q \in {"id", "actions"} : blueprint[q].form = "exact"}}

\* What the loader finds referenced, in all of the blueprint.
InterpolateParams ==
    {blueprint[p].param : p \in {q \in Part : blueprint[q].form \in {"exact", "mixed"}}}

BuildTemplate ==
    /\ origin = "builder" /\ template = <<>>
    /\ blueprint.actions # Missing
    /\ CollectParamNames \subseteq Names(parameters)
    /\ template' = blueprint
    /\ UNCHANGED <<origin, parameters, blueprint, checked, rule, problem>>

\* What the blueprint of a file needs.
BlueprintOK == blueprint.id # Missing /\ blueprint.actions # Missing

LoadTemplate ==
    /\ origin = "yaml" /\ template = <<>>
    /\ BlueprintOK
    /\ InterpolateParams \subseteq Names(parameters)
    /\ template' = blueprint
    /\ UNCHANGED <<origin, parameters, blueprint, checked, rule, problem>>

-----------------------------------------------------------------------------
(* A rule of it *)

MatchesType(value, type) == type = "any" \/ value \in Textual

\* Each definition on its own: the value has its type and is not refused, or there is a
\* default, which is not checked; and no other parameter is given.
ParamsOK(given) ==
    /\ \A n \in Param : given[n] # Absent => n \in Names(parameters)
    /\ \A i \in DOMAIN parameters :
         LET d == parameters[i] IN
           IF given[d.name] = Absent THEN d.default # Absent
           ELSE MatchesType(given[d.name], d.type) /\ given[d.name] \notin d.refused

\* Of two definitions of a name the validation takes the last default, and the
\* instantiation without validation the first.
Default(n, validated) ==
    LET defs == {i \in DOMAIN parameters : parameters[i].name = n /\ parameters[i].default # Absent}
        first == CHOOSE i \in defs : \A j \in defs : i <= j
        last == CHOOSE i \in defs : \A j \in defs : i >= j
    IN  IF defs = {} THEN Absent ELSE parameters[IF validated THEN last ELSE first].default

Merged(given, validated) ==
    [n \in Param |-> IF given[n] # Absent THEN given[n] ELSE Default(n, validated)]

\* substituteParams: a text with a parameter takes what is missing as empty.
Substitute(content, merged) ==
    CASE content.form = "exact" -> merged[content.param]
      [] content.form \in {"plain", "mixed"} -> "text"
      [] OTHER -> Absent

\* instantiate(), with what it throws for.
Instantiate(given, validated) ==
    LET merged == Merged(given, validated)
        result == [p \in Part |-> Substitute(template[p], merged)]
    IN  /\ template # <<>> /\ rule = <<>> /\ problem = "none"
        /\ problem' = IF validated /\ ~ParamsOK(given) THEN "parameters"
                      ELSE IF \E p \in Part : template[p].form = "exact" /\ result[p] = Absent
                             THEN "not provided"
                      ELSE IF result.id \notin Textual \ {"empty"} THEN "id" ELSE "none"
        /\ rule' = IF problem' = "none" THEN result ELSE rule
        /\ checked' = validated
        /\ UNCHANGED <<origin, parameters, blueprint, template>>

TemplateNext ==
    \/ \E d \in Def : DeclareParam(d)
    \/ \E p \in Part, content \in Content : SetPart(p, content)
    \/ BuildTemplate \/ LoadTemplate
    \/ \E given \in [Param -> Given \cup {Absent}], validated \in BOOLEAN : Instantiate(given, validated)

TemplateSpec == TemplateInit /\ [][TemplateNext]_templateVars

-----------------------------------------------------------------------------
(* Properties *)

\* A template that was built or loaded has no parameter that instantiation could miss,
\* but for one that only the description of a builder's refers to; and what a rule has
\* got for a parameter is a value that all its definitions allow, or a default.
InstantiatedSound ==
    checked =>
        /\ problem = "not provided" =>
             /\ origin = "builder"
             /\ template.description.form = "exact"
             /\ template.description.param \notin Names(parameters)
        /\ rule # <<>> =>
             \A p \in Part : template[p].form = "exact" =>
               LET defs == {d \in Def : /\ d.name = template[p].param
                                        /\ \E i \in DOMAIN parameters : parameters[i] = d}
               IN  \/ \E d \in defs : rule[p] = d.default
                   \/ \A d \in defs : MatchesType(rule[p], d.type) /\ rule[p] \notin d.refused
=============================================================================
