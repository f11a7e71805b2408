----------------------------- MODULE Orchestrate -----------------------------
(* From an artifact to the steps of a plan, of cbp/orchestrate.py: an intent    *)
(* has a schema of typed fields, which the artifact's values are coerced to; a  *)
(* "run" artifact gives its task or its steps itself.                           *)
EXTENDS Integers, Sequences

CONSTANTS None, Refused,
          StepLimit,     \* _DEFAULT_STEP_LIMIT
          NumberOf,      \* the number each numeric string stands for
          Truncated      \* int() of each float

\* A value is a pair of its type and what it is, an absent value None.
Field(type) == [type |-> type, required |-> TRUE, default |-> None]
Optional(type) == [Field(type) EXCEPT !.required = FALSE]
Schema(child, fields) == [child |-> child, fields |-> fields]
SCHEMAS ==
  [double |-> Schema(None, [value |-> Field("int")]),
   sum |-> Schema(None, [a |-> Field("int"), b |-> Field("int")]),
   bills_intake |-> Schema("bills", [draft |-> Field("object")]),
   bills_accept |-> Schema("bills", [draft |-> Field("object")]),
   bills_calendar |-> Schema("bills", [from_date |-> Field("str"), to_date |-> Field("str")]),
   bills_registry |-> Schema("bills", <<>>),
   bills_mark_paid |-> Schema("bills", [id |-> Field("str"), note |-> Optional("str")]),
   bills_mark_status |-> Schema("bills", [id |-> Field("str"), status |-> Field("str"), note |-> Optional("str")]),
   bills_accept_deterministic |-> Schema("bills", [draft |-> Field("object")]),
   bills_rule_add |-> Schema("bills", [rule |-> Field("object")])]

True == {<<"bool", TRUE>>, <<"int", 1>>, <<"str", "true">>, <<"str", "yes">>, <<"str", "y">>, <<"str", "1">>, <<"str", "ok">>}
False == {<<"bool", FALSE>>, <<"int", 0>>, <<"str", "false">>, <<"str", "no">>, <<"str", "n">>, <<"str", "0">>, <<"str", "">>}
ToInt(v) ==
  CASE v[1] = "int" -> v
    [] v[1] = "bool" -> <<"int", IF v[2] THEN 1 ELSE 0>>
    [] v[1] = "float" -> <<"int", Truncated[v[2]]>>
    [] v[1] = "str" /\ v[2] \in DOMAIN NumberOf -> <<"int", NumberOf[v[2]]>>
    [] OTHER -> Refused
Coerce(v, type) ==
  CASE type = "object" -> IF v[1] = "object" THEN v ELSE Refused
    [] type = "bool" -> IF v \in True THEN <<"bool", TRUE>> ELSE IF v \in False THEN <<"bool", FALSE>> ELSE Refused
    [] type = "int" -> ToInt(v)
    [] type = "float" -> IF v[1] = "float" THEN v
                         ELSE IF ToInt(v) = Refused THEN Refused ELSE <<"float", ToInt(v)[2]>>
    [] OTHER -> <<"str", v[2]>>

Step(task, args, verifier, child) == [task |-> task, args |-> args, verifier |-> verifier, child |-> child]

\* _steps_from_list: a step without a task refuses the plan; its own verifier comes first.
StepsFromList(steps, verifier) ==
  IF steps = <<>> \/ Len(steps) > StepLimit \/ \E i \in DOMAIN steps : steps[i].task = None THEN Refused
  ELSE [i \in DOMAIN steps |->
          [steps[i] EXCEPT !.verifier = IF steps[i].verifier = None THEN verifier ELSE steps[i].verifier]]

\* plan_from_schema: the fields that are given, coerced, or their defaults.
PlanFromSchema(artifact, verifier) ==
  IF artifact.intent = "run" THEN StepsFromList(artifact.steps, verifier)
  ELSE IF artifact.intent \notin DOMAIN SCHEMAS THEN Refused
  ELSE LET schema == SCHEMAS[artifact.intent] fields == schema.fields
           given == {f \in DOMAIN fields : f \in DOMAIN artifact.fields}
           value(f) == IF f \in given THEN Coerce(artifact.fields[f], fields[f].type) ELSE fields[f].default
           args == {f \in DOMAIN fields : f \in given \/ fields[f].default # None}
       IN IF \E f \in DOMAIN fields : (f \notin given /\ fields[f].required) \/ value(f) = Refused THEN Refused
          ELSE <<Step(artifact.intent, [f \in args |-> value(f)], verifier, schema.child)>>
==============================================================================
