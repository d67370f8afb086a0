------------------------------- MODULE WireTypes -------------------------------
(***************************************************************************)
(* What the generated types of types_gen.go and experimental/v2/types_gen.go *)
(* are made of: the rules by which they read and write each field of a     *)
(* JSON object, and the alternatives of the unions.                        *)
(*                                                                         *)
(* A JSON object is a function from the names of its fields to what their  *)
(* values are to the decoder: "good" (of the field's type), "bad" (of      *)
(* another type, or out of its range), "null"; and for arrays "empty",     *)
(* "mixed" (some elements are bad, a null element of an action's list      *)
(* included) or "spoiled" (all of them are).  Tags stand for themselves.   *)
(*                                                                         *)
(* A decoded field is "good", "unset" (the zero value: a nil pointer, map  *)
(* or slice), "null" (a patch that clears) or "empty" (a slice without     *)
(* elements that is not nil).                                              *)
(***************************************************************************)
EXTENDS FiniteSets, SequencesExt

Refused == "refused"
None    == "none"  \* no tag

\* What the decoder makes of each value of a field, and which of its own
\* values the encoder leaves out (omitempty).
Scalar(absent, null, bad) ==
    [reads |-> [absent |-> absent, null |-> null, bad |-> bad, good |-> "good"],
     omits |-> {"unset"}]

List(absent, null, bad, empty, mixed, spoiled) ==
    [reads |-> [absent |-> absent, null |-> null, bad |-> bad, good |-> "good",
                empty |-> empty, mixed |-> mixed, spoiled |-> spoiled],
     omits |-> {"unset"}]

\* Any value is of the type.
Anything(absent, null) ==
    [reads |-> [absent |-> absent, null |-> null, good |-> "good"], omits |-> {"unset"}]

OmitEmpty(rule) == [rule EXCEPT !.omits = {"unset", "empty"}]
NoOmit(rule)    == [rule EXCEPT !.omits = {}]

All(names, rule) == [name \in names |-> rule]

-----------------------------------------------------------------------------
(* The rules the generator gives to fields.                                *)

\* Absent and null are errors, and json.Unmarshal refuses another type.
Required(names)    == All(names, Scalar(Refused, Refused, Refused))
RequiredAny(names) == All(names, Anything(Refused, Refused))
Present(names)     == All(names, Scalar(Refused, "null", Refused))

\* A field without a check of its own: a pointer, a map or a value of any
\* type that is left out when unset, or a plain value, whose zero is as good.
Optional(names)    == All(names, Scalar("unset", "unset", Refused))
OptionalAny(names) == All(names, Anything("unset", "unset"))
Plain(names)       == All(names, Scalar("good", "good", Refused))

\* x-deserialize-default-on-error: another type is as if it were not there.
Lenient(names)     == All(names, Scalar("unset", "unset", "unset"))

\* A default of the schema in the place of what is absent or null.
Defaulted(names)        == All(names, Scalar("good", "good", Refused))
DefaultedLenient(names) == All(names, Scalar("good", "good", "good"))

\* Mutant of Patch: what is malformed clears.
ClearingPatch(names) == All(names, Scalar("unset", "null", "null"))

\* Patches tell absent from null; a lenient one ignores what is malformed.
Patch(names)       == All(names, Scalar("unset", "null", "unset"))
StrictPatch(names) == All(names, Scalar("unset", "null", Refused))

PlainList(names) ==
    All(names, NoOmit(List("unset", "unset", Refused, "empty", Refused, Refused)))
RequiredList(names) ==
    All(names, NoOmit(List(Refused, Refused, Refused, "empty", Refused, Refused)))
OptionalList(names) ==
    All(names, OmitEmpty(List("unset", "unset", Refused, "empty", Refused, Refused)))

\* Lists with a minimum of one element (for an optional list, null has none).
NonEmptyList(names) ==
    All(names, NoOmit(List(Refused, Refused, Refused, Refused, Refused, Refused)))
OptionalNonEmptyList(names) ==
    All(names, OmitEmpty(List("unset", Refused, Refused, Refused, Refused, Refused)))

\* The lists of an action: they must be there, and null means none.
ActionList(names) ==
    All(names, NoOmit(List(Refused, "empty", Refused, "empty", Refused, Refused)))

\* A lenient list is taken as a whole or not at all.
LenientList(names) ==
    All(names, OmitEmpty(List("unset", "unset", "unset", "empty", "unset", "unset")))

\* x-deserialize-skip-invalid-items: the bad elements of an array are left
\* out.  Replacement refuses what is no array; Listing does not look.
Items(names) ==
    All(names, OmitEmpty(List("unset", "unset", "unset", "empty", "good", "empty")))
DefaultedItems(names) ==
    All(names, NoOmit(List("empty", "empty", "empty", "empty", "good", "empty")))
Replacement(names) ==
    All(names, NoOmit(List(Refused, Refused, Refused, "empty", "good", "empty")))
Listing(names) ==
    All(names, NoOmit(List(Refused, Refused, "unset", "empty", "good", "empty")))
NonEmptyItems(names) ==
    All(names, NoOmit(List(Refused, Refused, Refused, Refused, "good", Refused)))

\* Mutant of PatchItems: omitempty, with which an empty list is left out.
OmittedPatchItems(names) ==
    All(names, OmitEmpty(List("unset", "null", "unset", "empty", "good", "empty")))

\* And so are those of the list of a patch, which is left out when unset only.
PatchItems(names) ==
    All(names, List("unset", "null", "unset", "empty", "good", "empty"))

\* Each rule, for one field.
FieldRules ==
    LET field == {"field"}
    IN {rules["field"] : rules \in
            {Required(field), RequiredAny(field), Present(field), Optional(field),
             OptionalAny(field), Plain(field), Lenient(field), Defaulted(field),
             DefaultedLenient(field), Patch(field), StrictPatch(field), PlainList(field),
             RequiredList(field), OptionalList(field), NonEmptyList(field),
             OptionalNonEmptyList(field), ActionList(field), LenientList(field),
             Items(field), DefaultedItems(field), Replacement(field), Listing(field),
             NonEmptyItems(field), PatchItems(field)}}

-----------------------------------------------------------------------------
(* Types.                                                                  *)

\* An alternative of a union: the fields that must be of their type, those
\* that only must be there, what of the scope it asks for, and its body.
Arm(name, needs, body) ==
    [name |-> name, needs |-> needs, present |-> {}, body |-> body,
     scopes |-> [counts |-> {0, 1, 2}, nullable |-> {}]]

\* An arm of which some fields may be null.
Having(names, arm) == [arm EXCEPT !.present = names]

\* An elicitation belongs to a session or to a request.  In version 1 to one
\* of them at least, and the id of a request may be null.
SomeScope(arm) ==
    [arm EXCEPT !.scopes = [counts |-> {1, 2}, nullable |-> {"requestId"}]]
OneScope(arm) == [arm EXCEPT !.scopes.counts = {1}]

Struct(rules) ==
    [kind |-> "object", own |-> rules, tag |-> None, cases |-> <<>>, rest |-> <<>>]

\* A json.RawMessage, kept as it came.
Raw == [kind |-> "raw", own |-> <<>>, tag |-> None, cases |-> <<>>, rest |-> <<>>]

\* What a struct has in the place of the arms of a union.
NoArm == Arm("none", {}, Struct(<<>>))

\* The arm is chosen by a tag, then by the first of the rest that matches.
Union(tag, cases, rest) ==
    [kind |-> "object", own |-> <<>>, tag |-> tag, cases |-> cases, rest |-> rest]

Embedding(rules, union) == [union EXCEPT !.own = rules]

\* Plain values: the first form that takes the value, and what it writes.
Keeps(values) == [v \in values |-> v]
Form(name, takes, writes) == [name |-> name, takes |-> takes, writes |-> writes]
Plains(forms) == [kind |-> "plain", forms |-> forms]

-----------------------------------------------------------------------------
(* Reading and writing the fields of a struct.                             *)

\* A peer's values of a field: "unset" and Refused are the decoder's.
Wired(w) == w \notin {"unset", Refused}

\* The fields of an object over those of another.
Over(upper, lower) ==
    [name \in DOMAIN upper \cup DOMAIN lower |->
        IF name \in DOMAIN upper THEN upper[name] ELSE lower[name]]

Value(object, name) == IF name \in DOMAIN object THEN object[name] ELSE "absent"

\* A tag is good for the field that holds it.
ReadField(rule, value) ==
    IF value \in DOMAIN rule.reads THEN rule.reads[value] ELSE value

ReadFields(rules, object) ==
    [name \in DOMAIN rules |-> ReadField(rules[name], Value(object, name))]

Accepts(rules, object) ==
    \A name \in DOMAIN rules : ReadFields(rules, object)[name] # Refused

\* Without omitempty a nil slice is written as null.
WriteField(decoded) == IF decoded = "unset" THEN "null" ELSE decoded

\* Mutant of WriteFields: what clears a field is left out as well.
OmitsNulls(rules, fields) ==
    [name \in {n \in DOMAIN rules : fields[n] \notin rules[n].omits \cup {"null"}} |->
        WriteField(fields[name])]

WriteFields(rules, fields) ==
    [name \in {n \in DOMAIN rules : fields[n] \notin rules[n].omits} |->
        WriteField(fields[name])]

\* The patch fields, which have State, Set, Clear and Unset methods.
IsPatch(rule) == rule.reads["absent"] = "unset" /\ rule.reads["null"] = "null"

\* Of the lists only those with omitempty may be left out when they are empty,
\* and the list of a patch never: it would no longer clear.
OmittedWhenEmpty(rules) ==
    {name \in DOMAIN rules : "empty" \in rules[name].omits /\ ~IsPatch(rules[name])}

\* Those come back unset; nothing else may change.
Same(lists, before, after) ==
    /\ DOMAIN after = DOMAIN before
    /\ \A name \in DOMAIN before :
        \/ after[name] = before[name]
        \/ name \in lists /\ before[name] = "empty" /\ after[name] = "unset"

Without(object, name) == [n \in DOMAIN object \ {name} |-> object[n]]
=============================================================================
