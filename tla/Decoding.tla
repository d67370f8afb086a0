------------------------------- MODULE Decoding -------------------------------
(***************************************************************************)
(* The life of a message between two peers: it is decoded, perhaps patched *)
(* by the program, encoded and decoded again at the other end.             *)
(*                                                                         *)
(* A type is an object (a struct, a union of structs, or a struct with the *)
(* fields of a union embedded in it) or a union of plain values.  All the  *)
(* types of a version of the protocol are in SchemaV1 and SchemaV2.        *)
(***************************************************************************)
EXTENDS WireTypes

CONSTANT Schema  \* the types by their names

VARIABLES
    type,   \* the name of the type of the message
    wire,   \* the message as it is on the wire
    value,  \* the message as the program has it, NoValue or Invalid
    sent    \* the value that was encoded, or NoValue

vars == <<type, wire, value, sent>>

NoValue == [path |-> <<"none">>, fields |-> <<>>]
Invalid == [path |-> <<"refused">>, fields |-> <<>>]  \* an error, and no value

-----------------------------------------------------------------------------
(* Decoding.                                                               *)

IsStrict(v) == v \notin {"absent", "null", "bad", "mixed", "spoiled"}

ScopeNames == {"sessionId", "requestId"}
Scopes(nullable, w) ==
    {name \in ScopeNames :
        IsStrict(Value(w, name)) \/ (name \in nullable /\ Value(w, name) = "null")}

\* The checks of an arm before its body is decoded.
Matches(arm, w) ==
    /\ \A name \in arm.needs : IsStrict(Value(w, name))
    /\ \A name \in arm.present : Value(w, name) = "null" \/ IsStrict(Value(w, name))
    /\ Cardinality(Scopes(arm.scopes.nullable, w)) \in arm.scopes.counts

IsTagged(T, w) == Value(w, T.tag) \in DOMAIN T.cases

\* Mutant of Candidates: a tag whose body does not fit tries the others.
FallsThrough(T, w) ==
    IF IsTagged(T, w) THEN <<T.cases[Value(w, T.tag)]>> \o T.rest ELSE T.rest

\* The arms that are tried, in order: a tag leaves no other choice.
Candidates(T, w) ==
    IF IsTagged(T, w) THEN <<T.cases[Value(w, T.tag)]>> ELSE T.rest

FirstMatch(arms, w) ==
    SelectInSeq(arms, LAMBDA arm : Matches(arm, w))

IsBare(T) == T.rest = <<>> /\ DOMAIN T.cases = {}

\* The arm whose body is decoded.
Fits(T, w) == FirstMatch(Candidates(T, w), w) # 0
Selected(T, w) ==
    IF IsBare(T) \/ ~Fits(T, w) THEN NoArm
    ELSE Candidates(T, w)[FirstMatch(Candidates(T, w), w)]

\* The fields of the struct, and what the body of the arm holds.
Join(T, w, inner) ==
    IF T.kind = "raw" THEN [path |-> <<>>, fields |-> w]
    ELSE IF ~Accepts(T.own, w) THEN Invalid
    ELSE IF IsBare(T) THEN [path |-> <<>>, fields |-> ReadFields(T.own, w)]
    ELSE IF ~Fits(T, w) \/ inner = Invalid THEN Invalid
    ELSE [path   |-> <<Selected(T, w).name>> \o inner.path,
          fields |-> Over(ReadFields(T.own, w), inner.fields)]

FirstForm(forms, w) ==
    SelectInSeq(forms, LAMBDA form : w \in form.takes)

DecodePlain(T, w) ==
    LET i == FirstForm(T.forms, w)
    IN IF i = 0 THEN Invalid
       ELSE [path |-> <<T.forms[i].name>>, fields |-> [value |-> w]]

\* UnmarshalJSON.  Unions are nested three deep: an update of a session, of
\* its state, idle for some reason.
Decode(T, w) ==
    IF T.kind = "plain" THEN DecodePlain(T, w)
    ELSE LET body1 == Selected(T, w).body
             body2 == Selected(body1, w).body
             body3 == Selected(body2, w).body
         IN Join(T, w, Join(body1, w, Join(body2, w, Join(body3, w, Invalid))))

Arms(T) == {T.cases[t] : t \in DOMAIN T.cases} \cup ToSet(T.rest)
ArmNamed(T, name) == CHOOSE arm \in Arms(T) : arm.name = name

\* MarshalJSON of a union writes the tag of the case whatever its body says.
TagOf(T, name) ==
    IF \E t \in DOMAIN T.cases : T.cases[t].name = name
    THEN [n \in {T.tag} |-> CHOOSE t \in DOMAIN T.cases : T.cases[t].name = name]
    ELSE <<>>

\* Mutant of WriteRaw: null fields are left out.
WritesNoNulls(fields) == [n \in {m \in DOMAIN fields : fields[m] # "null"} |-> fields[n]]

\* A json.RawMessage is written as it came.
WriteRaw(fields) == fields

\* The fields of the struct over the tag over what the body of the arm writes.
Overlay(T, v, depth, inner) ==
    IF T.kind = "raw" THEN WriteRaw(v.fields)
    ELSE IF IsBare(T) THEN WriteFields(T.own, v.fields)
    ELSE Over(WriteFields(T.own, v.fields), Over(TagOf(T, v.path[depth]), inner))

BodyOf(T, v, depth) ==
    IF IsBare(T) THEN NoArm.body ELSE ArmNamed(T, v.path[depth]).body

EncodePlain(T, v) ==
    LET form == CHOOSE f \in ToSet(T.forms) : f.name = v.path[1]
    IN form.writes[v.fields.value]

\* MarshalJSON.
Encode(T, v) ==
    IF T.kind = "plain" THEN EncodePlain(T, v)
    ELSE LET body1 == BodyOf(T, v, 1)
             body2 == BodyOf(body1, v, 2)
             body3 == BodyOf(body2, v, 3)
         IN Overlay(T, v, 1, Overlay(body1, v, 2, Overlay(body2, v, 3,
                Overlay(body3, v, 4, <<>>))))

\* The rules of all the fields of a value, those of its variant included.
RulesAlong(T, v) ==
    LET body1 == BodyOf(T, v, 1)
        body2 == BodyOf(body1, v, 2)
        body3 == BodyOf(body2, v, 3)
    IN Over(T.own, Over(body1.own, Over(body2.own, body3.own)))

-----------------------------------------------------------------------------
(* What the generator sees to in the types of a schema, so that a message  *)
(* of any of them can be passed on.                                        *)

\* What a value of a field is when it has been read and written.
Rewritten(rule, w) ==
    LET v == ReadField(rule, w)
    IN IF v \in rule.omits THEN "absent" ELSE WriteField(v)

Accepted(rule) == {w \in DOMAIN rule.reads : rule.reads[w] # Refused}

IsPresent(v) == v = "null" \/ IsStrict(v)

\* A field that an arm asks for is still there; one that it misses, still not.
KeepsStrict(rule)  == \A w \in Accepted(rule) : IsStrict(w) => IsStrict(Rewritten(rule, w))
KeepsPresent(rule) == \A w \in Accepted(rule) : IsPresent(w) => IsPresent(Rewritten(rule, w))
KeepsLoose(rule)   == \A w \in Accepted(rule) : IsStrict(Rewritten(rule, w)) => IsStrict(w)

\* The fields of a struct around an unknown variant change nothing of it.
Verbatim(rule) ==
    /\ rule.reads["absent"] = Refused /\ rule.omits = {"unset"}
    /\ \A w \in Accepted(rule) : rule.reads[w] = w

AnyScope == {0, 1, 2}

\* The scope of an elicitation is kept, but for the null id of a request.
KeepsScopes(arm, rules) ==
    \/ arm.scopes.counts = AnyScope
    \/ /\ \A s \in ScopeNames \cap DOMAIN rules : KeepsStrict(rules[s]) /\ KeepsLoose(rules[s])
       /\ \/ /\ arm.scopes = [counts |-> {1}, nullable |-> {}]
             /\ ScopeNames \cap arm.needs # {} \/ ScopeNames \subseteq DOMAIN rules
          \/ /\ arm.scopes = [counts |-> {1, 2}, nullable |-> {"requestId"}]
             /\ ScopeNames \subseteq DOMAIN rules
             /\ \A s \in ScopeNames : rules[s] = Optional(ScopeNames)[s]

\* What the fields of a variant are rewritten to still matches its arm, and
\* does not match an arm that is tried before.
KeepsArm(arm, rules) ==
    /\ \A name \in arm.needs : name \in DOMAIN rules /\ KeepsStrict(rules[name])
    /\ \A name \in arm.present : name \in DOMAIN rules /\ KeepsPresent(rules[name])
    /\ KeepsScopes(arm, rules)
StaysOut(arm, rules) ==
    \/ ~(arm.needs \subseteq DOMAIN rules)
    \/ /\ arm.present = {} /\ arm.scopes.counts = AnyScope
       /\ \A name \in arm.needs : KeepsLoose(rules[name])

KeepsChoice(T, arm, rules) ==
    \/ IsBare(T)
    \/ /\ KeepsArm(arm, rules)
       /\ \A t \in DOMAIN T.cases : T.cases[t] = arm => T.tag \in DOMAIN rules
       /\ \A i \in DOMAIN T.rest : T.rest[i] = arm =>
            \A j \in 1..(i - 1) : StaysOut(T.rest[j], rules)

Kinds == {"absent", "null", "bad", "good", "empty", "mixed", "spoiled", "unset", Refused}

\* The arms of a union are told apart by their names, tags from other values,
\* and what is kept as it came is the arm for what the program does not know.
ArmsApart(T) ==
    /\ T.rest \in Seq(ToSet(T.rest))
    /\ DOMAIN T.cases \cap Kinds = {}
    /\ \A arm \in Arms(T) :
        /\ IF arm.name = "Other" THEN arm.body = Raw ELSE arm.body.kind = "object"
        /\ arm.name \notin {NoValue.path[1], Invalid.path[1]}
    /\ \A t, u \in DOMAIN T.cases : T.cases[t].name = T.cases[u].name => t = u
    /\ \A i, j \in DOMAIN T.rest : T.rest[i].name = T.rest[j].name => i = j
    /\ \A t \in DOMAIN T.cases, i \in DOMAIN T.rest : T.cases[t].name # T.rest[i].name

Options(T) == IF IsBare(T) THEN {NoArm} ELSE Arms(T)

SoundArms(T) ==
    /\ ArmsApart(T)
    /\ \A arm1 \in Options(T) :
        /\ ArmsApart(arm1.body)
        /\ \A arm2 \in Options(arm1.body) :
            /\ ArmsApart(arm2.body)
            /\ \A arm3 \in Options(arm2.body) : IsBare(arm3.body)

\* The arms a message goes through, and the rules of its fields.
Routes(T) ==
    UNION {UNION {{<<arm1, arm2, arm3>> : arm3 \in Options(arm2.body)} :
                    arm2 \in Options(arm1.body)} : arm1 \in Options(T)}
RulesOf(T, route) ==
    Over(T.own, Over(route[1].body.own, Over(route[2].body.own, route[3].body.own)))

AgreesWith(own, rules) == \A name \in DOMAIN own : own[name] = rules[name]

\* Only the unions of version 1 take a scope that is null.
HasNullScope(arm) == arm.scopes.nullable # {}

\* Only a list of sessions is read as what it cannot be written as.
StructRules == FieldRules \ {Listing({"field"})["field"]}

SoundRoute(t, route) ==
    LET T == Schema[t]
        rules == RulesOf(T, route)
        body(i) == route[i].body
    IN /\ \A i \in 1..3 : AgreesWith(body(i).own, rules)
       /\ \A name \in DOMAIN rules :
            \/ rules[name] \in StructRules
            \/ /\ t = <<"v2", "ListSessionsResponse">> /\ name = "sessions"
               /\ rules[name] = Listing({name})[name]
       /\ \/ /\ \E i \in 1..3 : body(i).kind = "raw"
             /\ \A name \in DOMAIN rules : Verbatim(rules[name])
          \/ /\ \A i \in 1..3 : body(i).kind # "raw"
             /\ KeepsChoice(T, route[1], rules)
             /\ KeepsChoice(body(1), route[2], rules)
             /\ KeepsChoice(body(2), route[3], rules)
             /\ ~HasNullScope(route[2]) /\ ~HasNullScope(route[3])
             /\ HasNullScope(route[1]) =>
                    /\ t = <<"v1", "CreateElicitationRequest">> /\ IsBare(body(1))
                    /\ route[1].name \in {"Form", "Url"}

\* A struct with methods for its patches is no union.
SoundPatches(T) == IsBare(T) \/ \A name \in DOMAIN T.own : ~IsPatch(T.own[name])

\* What a form writes of what it takes is taken by it again.
SoundForms(forms) ==
    /\ forms \in Seq(ToSet(forms))
    /\ \A i \in DOMAIN forms :
        /\ forms[i].name \notin {NoValue.path[1], Invalid.path[1]}
        /\ \A j \in DOMAIN forms : forms[i].name = forms[j].name => i = j
        /\ \A w \in forms[i].takes : FirstForm(forms, w) = i =>
            \/ forms[i].name = "Number" /\ w = "whole"
            \/ FirstForm(forms, forms[i].writes[w]) = i

-----------------------------------------------------------------------------
(* The messages of a peer: of every arm of the type, with all its fields   *)
(* good or only the required ones there, but for two that are anything.    *)

\* The fields a message may have, and the tags of the unions it is made of.
Shape(rules, tags) == [rules |-> rules, tags |-> tags]

RawShapes(arm) ==
    {Shape(Required(arm.needs) @@ Optional(arm.present \cup {"_meta"}), <<>>)}

ShapesOver(T, ShapesOf(_)) ==
    LET tagged(arm, tag) ==
            {Shape(T.own @@ Required({T.tag}) @@ shape.rules, T.tag :> tag @@ shape.tags) :
                shape \in IF arm.body.kind = "raw" THEN RawShapes(arm) ELSE ShapesOf(arm.body)}
    IN IF IsBare(T) THEN {Shape(T.own, <<>>)}
       ELSE UNION ({tagged(T.cases[tag], tag) : tag \in DOMAIN T.cases}
                    \cup {tagged(arm, "unknown") : arm \in ToSet(T.rest)})

StructShapes(T) == {Shape(T.own, <<>>)}
InnerShapes(T)  == ShapesOver(T, StructShapes)
MiddleShapes(T) == ShapesOver(T, InnerShapes)
Shapes(T)       == ShapesOver(T, MiddleShapes)

\* A value of another type is told by every variant that has the field.
Judged(T, name) ==
    \A route \in Routes(T) :
        name \in DOMAIN RulesOf(T, route) => "bad" \in DOMAIN RulesOf(T, route)[name].reads

SoundShape(T, shape) ==
    /\ \A name \in DOMAIN shape.rules :
        /\ shape.rules[name] \in FieldRules
        /\ "bad" \in DOMAIN shape.rules[name].reads => Judged(T, name)
    /\ \A name \in ScopeNames \cap DOMAIN shape.rules :
        {"mixed", "spoiled"} \cap DOMAIN shape.rules[name].reads = {}
    /\ \A name \in DOMAIN shape.tags : shape.tags[name] \notin Kinds

ASSUME SchemaAssumption ==
    \A t \in DOMAIN Schema :
        \/ Schema[t].kind = "plain" /\ SoundForms(Schema[t].forms)
        \/ /\ Schema[t].kind = "object" /\ SoundArms(Schema[t]) /\ SoundPatches(Schema[t])
           /\ \A route \in Routes(Schema[t]) : SoundRoute(t, route)
           /\ \A shape \in Shapes(Schema[t]) : SoundShape(Schema[t], shape)

Ordinary(rules, full) ==
    [name \in {n \in DOMAIN rules : full \/ rules[n].reads["absent"] = Refused} |-> "good"]

Change(w, name, v) ==
    IF v = "absent" THEN Without(w, name) ELSE [n \in DOMAIN w \cup {name} |-> IF n = name THEN v ELSE w[n]]

Tagged(w, tags) ==
    [name \in DOMAIN w |->
        IF name \in DOMAIN tags /\ w[name] = "good" THEN tags[name] ELSE w[name]]

PlainValues ==
    {"null", "boolean", "integer", "whole", "fraction", "huge", "string", "strings",
     "object", "empty", "options", "groups", "both", "malformed"}

Init ==
    /\ type \in DOMAIN Schema
    /\ \/ /\ Schema[type].kind = "plain"
          /\ wire \in PlainValues \cup UNION {form.takes : form \in ToSet(Schema[type].forms)}
       \/ /\ Schema[type].kind = "object"
          /\ \E shape \in Shapes(Schema[type]), full \in BOOLEAN :
                \E f, g \in DOMAIN shape.rules :
                    \E v \in DOMAIN shape.rules[f].reads, u \in DOMAIN shape.rules[g].reads :
                        wire = Tagged(Change(Change(Ordinary(shape.rules, full), f, v), g, u),
                                      shape.tags)
    /\ value = NoValue /\ sent = NoValue

-----------------------------------------------------------------------------
(* The steps.                                                              *)

Receive ==
    /\ value = NoValue
    /\ value' = Decode(Schema[type], wire)
    /\ UNCHANGED <<type, wire, sent>>

InHand == value \notin {NoValue, Invalid} /\ sent = NoValue

\* SetX, ClearX and UnsetX of a patch field.  Bound: of one field of a message.
Edit ==
    /\ InHand /\ Schema[type].kind = "object"
    /\ value = Decode(Schema[type], wire)
    /\ \E name \in DOMAIN Schema[type].own : \E v \in {"good", "null", "unset"} :
        /\ IsPatch(Schema[type].own[name])
        /\ value' = [value EXCEPT !.fields[name] = v]
    /\ UNCHANGED <<type, wire, sent>>

Send ==
    /\ InHand
    /\ sent' = value /\ value' = NoValue
    /\ wire' = Encode(Schema[type], value)
    /\ UNCHANGED type

Next == Receive \/ Edit \/ Send

Spec == Init /\ [][Next]_vars

-----------------------------------------------------------------------------
(* What the types promise.                                                 *)

\* The updates of tool calls of version 1, which replace what they list.
IsToolCallUpdate(t, v) ==
    \/ t = <<"v1", "ToolCallUpdate">>
    \/ t = <<"v1", "SessionUpdate">> /\ v.path = <<"ToolCallUpdate">>

\* Lists of which [] says something else than their absence, and that are left
\* out all the same: the background work of a session, of which [] reports that
\* none is running (experimental/v2/types_gen.go:10211-10213), and what the
\* update of a tool call replaces by nothing (types_gen.go:9969-9974).
LosesEmptyList(t, v) ==
    \E name \in OmittedWhenEmpty(RulesAlong(Schema[t], v)) :
        /\ v.fields[name] = "empty"
        /\ \/ name = "background"
           \/ name \in {"content", "locations"} /\ IsToolCallUpdate(t, v)

\* What a type takes from a peer but cannot give to another: an elicitation
\* of version 1 whose only scope is the request with a null id, which is read
\* as none; a list of sessions that is no array, read as nil and written as
\* null; a number like 3.0, written as the integer 3; and the empty lists above.
Unfaithful(t, v) ==
    \/ /\ t = <<"v1", "CreateElicitationRequest">> /\ v.path \in {<<"Form">>, <<"Url">>}
       /\ v.fields.sessionId = "unset" /\ v.fields.requestId = "unset"
    \/ t = <<"v2", "ListSessionsResponse">> /\ v.fields.sessions = "unset"
    \/ /\ Schema[t].kind = "plain"
       /\ v.path = <<"Number">> /\ v.fields.value = "whole"
    \/ Schema[t].kind = "object" /\ LosesEmptyList(t, v)

Arrives(t, before, after) ==
    \/ Unfaithful(t, before)
    \/ /\ after.path = before.path
       /\ Schema[t].kind = "object" =>
            Same(OmittedWhenEmpty(RulesAlong(Schema[t], before)), before.fields, after.fields)

\* What one peer sends is what the other has: the same variant of a union,
\* with the same fields, but for the values of Unfaithful and the other lists
\* with omitempty, which come back unset when they were empty (MarshalJSON
\* against UnmarshalJSON, and Validate of the unions, which decodes what it
\* encodes).  A patch that empties a list still does at the other end
\* (docs/upgrading-to-v1.5.0.md:41-43).
SentArrives == sent # NoValue /\ value # NoValue => Arrives(type, sent, value)

IsRaw(v) == v.path # <<>> /\ Last(v.path) = "Other"

\* What is accepted in spite of a malformed field is what it would be without
\* that field: it changes nothing else, and clears nothing
\* (docs/schema-sdk-alignment-2026-10-29.md:63-67).  A list of sessions that
\* is no array is nil where a response without one is refused.
RecoversToOmission ==
    value = Decode(Schema[type], wire) /\ value # Invalid /\ Schema[type].kind = "object" =>
        \A name \in {n \in DOMAIN wire : wire[n] = "bad"} :
            \/ IsRaw(value)
            \/ type = <<"v2", "ListSessionsResponse">> /\ name = "sessions"
            \/ value = Decode(Schema[type], Without(wire, name))

\* The variant a peer has sent is passed on: a known tag decides, so that what
\* is malformed is refused and never taken for another variant
\* (docs/upgrading-to-v1.5.0.md:58-60), and one this version does not know stays
\* as it came, malformed optional fields included
\* (docs/schema-sdk-alignment-2026-10-29.md:70-71).
VariantIsKept ==
    [][Send /\ Schema[type].kind = "object" =>
        /\ IsTagged(Schema[type], wire) =>
            value.path[1] = Schema[type].cases[Value(wire, Schema[type].tag)].name
        /\ IsRaw(value) => wire' = wire]_vars
=============================================================================
