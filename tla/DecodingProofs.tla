---------------------------- MODULE DecodingProofs ----------------------------
(***************************************************************************)
(* What passing a message on promises, for any types the generator may     *)
(* make (SchemaAssumption) and, in AnyMessagePassesOn, for any message:    *)
(* those TLC checks have at most two fields out of the ordinary at once.   *)
(***************************************************************************)
EXTENDS Decoding, FiniteSetTheorems, SequenceTheorems,
        WellFoundedInduction, TLAPS

-----------------------------------------------------------------------------
(* One field.                                                              *)

\* What is known of every rule: what it reads a good value and one of another
\* type as, and that a field holds what it held when it has been written and
\* read; if it is left out, it was unset or empty and comes back unset.  Only a
\* list of sessions may be read as what it is not written as.
RuleIsSound(rule) ==
    /\ {"absent", "null", "good"} \subseteq DOMAIN rule.reads
    /\ DOMAIN rule.reads \subseteq Kinds \ {"unset", Refused}
    /\ rule.reads["good"] = "good"
    /\ "bad" \in DOMAIN rule.reads /\ rule \in StructRules =>
        rule.reads["bad"] \in {Refused, rule.reads["absent"]}
    /\ rule.omits \subseteq {"unset", "empty"}
    /\ \A w \in rule.omits : w = "unset" \/ w \in DOMAIN rule.reads
    /\ "empty" \in rule.omits => rule.reads["null"] # "null"
    /\ \A w \in DOMAIN rule.reads : rule.reads[w] \in Kinds \ {"bad", "absent", "mixed", "spoiled"}
    /\ \A w : Wired(w) /\ ReadField(rule, w) # Refused =>
        LET v == ReadField(rule, w)
        IN IF v \in rule.omits
           THEN v \in {"unset", "empty"} /\ ReadField(rule, "absent") = "unset"
           ELSE rule \in StructRules \/ v # "unset" => ReadField(rule, WriteField(v)) = v

LEMMA RuleFacts ==
    ASSUME NEW rule \in FieldRules
    PROVE  RuleIsSound(rule)
<1> DEFINE field == {"field"}
<1> DEFINE Is(r) == rule = r["field"]
<1> USE DEF RuleIsSound, ReadField, WriteField, All, Refused, Wired, Kinds, Scalar, List,
            Anything, OmitEmpty, NoOmit
<1>1. CASE Is(Required(field)) \/ Is(Present(field)) \/ Is(Optional(field)) \/ Is(Plain(field))
           \/ Is(Lenient(field)) \/ Is(Defaulted(field)) \/ Is(DefaultedLenient(field))
  BY <1>1 DEF Required, Present, Optional, Plain, Lenient, Defaulted, DefaultedLenient
<1>2. CASE Is(RequiredAny(field)) \/ Is(OptionalAny(field))
  BY <1>2 DEF RequiredAny, OptionalAny
<1>3. CASE Is(Patch(field)) \/ Is(StrictPatch(field)) \/ Is(PatchItems(field))
  BY <1>3 DEF Patch, StrictPatch, PatchItems
<1>4. CASE Is(PlainList(field)) \/ Is(RequiredList(field)) \/ Is(OptionalList(field))
  BY <1>4 DEF PlainList, RequiredList, OptionalList
<1>5. CASE Is(NonEmptyList(field)) \/ Is(OptionalNonEmptyList(field)) \/ Is(ActionList(field))
  BY <1>5 DEF NonEmptyList, OptionalNonEmptyList, ActionList
<1>6. CASE Is(LenientList(field)) \/ Is(Items(field)) \/ Is(DefaultedItems(field))
  BY <1>6 DEF LenientList, Items, DefaultedItems
<1>7. CASE Is(Replacement(field)) \/ Is(NonEmptyItems(field))
  BY <1>7 DEF Replacement, NonEmptyItems
<1>8. CASE Is(Listing(field))
  BY <1>8 DEF Listing, StructRules
<1> QED BY <1>1, <1>2, <1>3, <1>4, <1>5, <1>6, <1>7, <1>8 DEF FieldRules

\* What is known of a value that is written in the place of another.
LEMMA RewritingFacts ==
    ASSUME NEW rule \in FieldRules, NEW w, Wired(w), ReadField(rule, w) # Refused
    PROVE  /\ Wired(Rewritten(rule, w))
           /\ w \notin DOMAIN rule.reads => Rewritten(rule, w) = w
           /\ w \in Kinds => Rewritten(rule, w) \in Kinds
           /\ w # "bad" \/ "bad" \in DOMAIN rule.reads => Rewritten(rule, w) # "bad"
<1> DEFINE v == ReadField(rule, w)
<1>1. RuleIsSound(rule)
  BY RuleFacts
<1>2. CASE w \in DOMAIN rule.reads
  <2>1. v \in Kinds \ {"bad", "absent", "mixed", "spoiled", Refused}
    BY <1>1, <1>2 DEF RuleIsSound, ReadField
  <2> QED BY <1>2, <2>1 DEF Rewritten, WriteField, Wired, Kinds, Refused
<1>3. CASE w \notin DOMAIN rule.reads
  <2>1. v = w /\ w \notin rule.omits /\ w # "unset"
    BY <1>1, <1>3 DEF RuleIsSound, ReadField, Wired
  <2>2. Rewritten(rule, w) = w
    BY <2>1 DEF Rewritten, WriteField
  <2> QED BY <1>3, <2>2
<1> QED BY <1>2, <1>3

-----------------------------------------------------------------------------
(* A struct.                                                               *)

\* A struct as the decoder, or SetX, ClearX and UnsetX of a patch, may leave it.
Holds(rules, fields) ==
    /\ DOMAIN fields = DOMAIN rules
    /\ \A name \in DOMAIN rules :
        /\ fields[name] # Refused
        /\ \E w : Wired(w) /\ fields[name] = ReadField(rules[name], w)

\* A field that is unset is not one of a list of sessions.
Writable(rules, fields) ==
    \A name \in DOMAIN rules : rules[name] \in StructRules \/ fields[name] # "unset"

\* SentArrives for a struct: what UnmarshalJSON and the methods of patches
\* leave in it is accepted by the peer it is sent to, who has it unchanged but
\* for the empty lists with omitempty, of which none is a patch.
THEOREM StructArrives ==
    ASSUME NEW rules, \A name \in DOMAIN rules : rules[name] \in FieldRules,
           NEW fields, Holds(rules, fields), Writable(rules, fields)
    PROVE  LET written == WriteFields(rules, fields)
           IN /\ Accepts(rules, written)
              /\ Same(OmittedWhenEmpty(rules), fields, ReadFields(rules, written))
<1> DEFINE written == WriteFields(rules, fields)
<1> HIDE DEF written
<1>1. ASSUME NEW name \in DOMAIN rules
      PROVE  /\ ReadFields(rules, written)[name] # Refused
             /\ \/ ReadFields(rules, written)[name] = fields[name]
                \/ /\ name \in OmittedWhenEmpty(rules)
                   /\ fields[name] = "empty" /\ ReadFields(rules, written)[name] = "unset"
  <2>1. PICK w : Wired(w) /\ fields[name] = ReadField(rules[name], w)
    BY DEF Holds
  <2>2. RuleIsSound(rules[name]) /\ fields[name] # Refused
    BY RuleFacts DEF Holds
  <2>3. ReadFields(rules, written)[name] = ReadField(rules[name], Value(written, name))
    BY DEF ReadFields
  <2>4. CASE fields[name] \in rules[name].omits
    <3>1. Value(written, name) = "absent"
      BY <2>4 DEF Value, WriteFields, written
    <3>2. fields[name] \in {"unset", "empty"} /\ ReadField(rules[name], "absent") = "unset"
      BY <2>1, <2>2, <2>4 DEF RuleIsSound
    <3>3. fields[name] = "empty" => name \in OmittedWhenEmpty(rules)
      BY <2>2, <2>4 DEF OmittedWhenEmpty, IsPatch, RuleIsSound
    <3> QED BY <2>3, <3>1, <3>2, <3>3 DEF Refused
  <2>5. CASE fields[name] \notin rules[name].omits
    <3>1. Value(written, name) = WriteField(fields[name])
      BY <2>5 DEF Value, WriteFields, written
    <3>2. ReadField(rules[name], WriteField(fields[name])) = fields[name]
      BY <2>1, <2>2, <2>5 DEF RuleIsSound, Writable
    <3>3. ReadFields(rules, written)[name] = fields[name]
      BY <2>3, <3>1, <3>2
    <3> QED BY <2>2, <3>3
  <2> QED BY <2>4, <2>5
<1>2. Accepts(rules, written)
  BY <1>1 DEF Accepts
<1>3. DOMAIN ReadFields(rules, written) = DOMAIN fields /\ DOMAIN fields = DOMAIN rules
  BY DEF ReadFields, Holds
<1>4. Same(OmittedWhenEmpty(rules), fields, ReadFields(rules, written))
  BY <1>1, <1>3 DEF Same
<1> QED BY <1>2, <1>4 DEF written

\* The decoder leaves what StructArrives asks for.
THEOREM DecodedHolds ==
    ASSUME NEW rules, NEW object, Accepts(rules, object),
           \A name \in DOMAIN object : Wired(object[name])
    PROVE  Holds(rules, ReadFields(rules, object))
<1>1. ASSUME NEW name \in DOMAIN rules
      PROVE  Wired(Value(object, name))
  BY DEF Value, Wired, Refused
<1> QED BY <1>1 DEF Accepts, Holds, ReadFields

\* And so do the methods of a patch field.
THEOREM EditedHolds ==
    ASSUME NEW rules, NEW fields, Holds(rules, fields),
           NEW name \in DOMAIN rules, rules[name] \in FieldRules, IsPatch(rules[name]),
           NEW v \in {"good", "null", "unset"}
    PROVE  Holds(rules, [fields EXCEPT ![name] = v])
<1>1. \E w : Wired(w) /\ v = ReadField(rules[name], w)
  <2>1. /\ {"absent", "null", "good"} \subseteq DOMAIN rules[name].reads
        /\ rules[name].reads["good"] = "good"
    BY RuleFacts DEF RuleIsSound
  <2> QED BY <2>1 DEF IsPatch, ReadField, Wired, Refused
<1>2. v # Refused
  BY DEF Refused
<1> QED BY <1>1, <1>2 DEF Holds

\* RecoversToOmission for a struct: one that is accepted in spite of a field
\* of another type is what it is without that field.
THEOREM MalformedIsOmitted ==
    ASSUME NEW rules, NEW object, Accepts(rules, object), NEW name,
           name \in DOMAIN object, object[name] = "bad",
           name \in DOMAIN rules =>
                /\ rules[name] \in FieldRules /\ rules[name] \in StructRules
                /\ "bad" \in DOMAIN rules[name].reads
    PROVE  /\ Accepts(rules, Without(object, name))
           /\ ReadFields(rules, Without(object, name)) = ReadFields(rules, object)
<1>1. ASSUME name \in DOMAIN rules
      PROVE  ReadField(rules[name], "bad") = ReadField(rules[name], "absent")
  <2>1. ReadFields(rules, object)[name] = ReadField(rules[name], "bad")
    BY <1>1 DEF ReadFields, Value
  <2>2. ReadField(rules[name], "bad") # Refused
    BY <1>1, <2>1 DEF Accepts
  <2>3. RuleIsSound(rules[name])
    BY <1>1, RuleFacts
  <2> QED BY <1>1, <2>2, <2>3 DEF ReadField, RuleIsSound
<1>2. ASSUME NEW n \in DOMAIN rules
      PROVE  ReadField(rules[n], Value(Without(object, name), n))
                = ReadField(rules[n], Value(object, n))
  BY <1>1 DEF Value, Without
<1>3. ReadFields(rules, Without(object, name)) = ReadFields(rules, object)
  BY <1>2 DEF ReadFields
<1> QED BY <1>3 DEF Accepts

-----------------------------------------------------------------------------
(* An object that has been read by the rules and written.                  *)

\* u is what is written of w.
Passes(rules, w, u) ==
    \A name : Value(u, name) =
        IF name \in DOMAIN rules THEN Rewritten(rules[name], Value(w, name)) ELSE "absent"

Ruled(rules, w) ==
    /\ \A name \in DOMAIN rules : rules[name] \in FieldRules
    /\ \A name \in DOMAIN w : Wired(w[name])
    /\ Accepts(rules, w)

LEMMA RuledFacts ==
    ASSUME NEW rules, NEW w, Ruled(rules, w), NEW name \in DOMAIN rules
    PROVE  /\ rules[name] \in FieldRules
           /\ Wired(Value(w, name))
           /\ ReadField(rules[name], Value(w, name)) # Refused
BY DEF Ruled, Accepts, ReadFields, Value, Wired, Refused

\* It is accepted again, and read as the same fields.
LEMMA PassedArrives ==
    ASSUME NEW rules, NEW w, Ruled(rules, w), NEW u, Passes(rules, w, u),
           Writable(rules, ReadFields(rules, w))
    PROVE  /\ Accepts(rules, u)
           /\ Same(OmittedWhenEmpty(rules), ReadFields(rules, w), ReadFields(rules, u))
<1> DEFINE fields == ReadFields(rules, w)
           written == WriteFields(rules, fields)
<1>1. /\ Accepts(rules, written)
      /\ Same(OmittedWhenEmpty(rules), fields, ReadFields(rules, written))
  <2>1. Holds(rules, fields)
    BY DecodedHolds DEF Ruled
  <2> QED BY <2>1, StructArrives DEF Ruled
<1>2. ASSUME NEW name \in DOMAIN rules
      PROVE  Value(written, name) = Value(u, name)
  <2>1. fields[name] = ReadField(rules[name], Value(w, name))
    BY DEF ReadFields
  <2>2. Value(u, name) = Rewritten(rules[name], Value(w, name))
    BY DEF Passes
  <2> QED BY <2>1, <2>2 DEF Rewritten, Value, WriteFields
<1>3. ReadFields(rules, written) = ReadFields(rules, u)
  BY <1>2 DEF ReadFields
<1> QED BY <1>1, <1>3 DEF Accepts

\* No field of it says more or less to the arms of a union than it did.
LEMMA PassedStrict ==
    ASSUME NEW rules, NEW w, Ruled(rules, w), NEW u, Passes(rules, w, u), NEW name
    PROVE  /\ name \notin DOMAIN rules => Value(u, name) = "absent"
           /\ name \in DOMAIN rules =>
                /\ KeepsStrict(rules[name]) /\ IsStrict(Value(w, name)) => IsStrict(Value(u, name))
                /\ KeepsPresent(rules[name]) /\ IsPresent(Value(w, name)) => IsPresent(Value(u, name))
                /\ KeepsLoose(rules[name]) /\ IsStrict(Value(u, name)) => IsStrict(Value(w, name))
<1>1. name \notin DOMAIN rules => Value(u, name) = "absent"
  BY DEF Passes
<1> SUFFICES ASSUME name \in DOMAIN rules
             PROVE  /\ KeepsStrict(rules[name]) /\ IsStrict(Value(w, name)) => IsStrict(Value(u, name))
                    /\ KeepsPresent(rules[name]) /\ IsPresent(Value(w, name)) => IsPresent(Value(u, name))
                    /\ KeepsLoose(rules[name]) /\ IsStrict(Value(u, name)) => IsStrict(Value(w, name))
  BY <1>1
<1> DEFINE rule == rules[name]
           v == Value(w, name)
<1>2. Value(u, name) = Rewritten(rule, v)
  BY DEF Passes
<1>3. rule \in FieldRules /\ Wired(v) /\ ReadField(rule, v) # Refused
  BY RuledFacts
<1> HIDE DEF rule, v
<1>4. CASE v \in DOMAIN rule.reads
  <2>1. v \in Accepted(rule)
    BY <1>3, <1>4 DEF Accepted, ReadField
  <2> QED BY <1>2, <2>1 DEF KeepsStrict, KeepsPresent, KeepsLoose, rule, v
<1>5. CASE v \notin DOMAIN rule.reads
  <2>1. Rewritten(rule, v) = v
    BY <1>3, <1>5, RewritingFacts
  <2> QED BY <1>2, <2>1 DEF v
<1> QED BY <1>4, <1>5

-----------------------------------------------------------------------------
(* The arm of a union.                                                     *)

LEMMA ScopeCounts ==
    ASSUME NEW S \in SUBSET ScopeNames
    PROVE  \/ S = {} /\ Cardinality(S) = 0
           \/ \E s \in ScopeNames : S = {s} /\ Cardinality(S) = 1
           \/ S = ScopeNames /\ Cardinality(S) = 2
<1>1. Cardinality({}) = 0 /\ \A s : Cardinality({s}) = 1 /\ IsFiniteSet({s})
  BY FS_EmptySet, FS_Singleton
<1>2. Cardinality({"sessionId"} \cup {"requestId"}) = 2
  <2> DEFINE one == {"sessionId"}
  <2>1. IsFiniteSet(one) /\ Cardinality(one) = 1 /\ "requestId" \notin one
    BY <1>1
  <2> HIDE DEF one
  <2>2. Cardinality(one \cup {"requestId"}) = Cardinality(one) + 1
    BY <2>1, FS_AddElement
  <2> QED BY <2>1, <2>2 DEF one
<1>3. S = {} \/ S = {"sessionId"} \/ S = {"requestId"} \/ S = {"sessionId"} \cup {"requestId"}
  BY DEF ScopeNames
<1> QED BY <1>1, <1>2, <1>3 DEF ScopeNames

\* An elicitation of version 1 for nobody but a request with a null id.
LosesScope(arm, rules, w) ==
    /\ HasNullScope(arm)
    /\ \A s \in ScopeNames : s \in DOMAIN rules /\ ReadField(rules[s], Value(w, s)) = "unset"

ScopesFit(w) == \A s \in ScopeNames : Value(w, s) \notin {"mixed", "spoiled"}

LEMMA ScopesKept ==
    ASSUME NEW rules, NEW w, Ruled(rules, w), NEW u, Passes(rules, w, u),
           NEW arm, KeepsArm(arm, rules), Matches(arm, w),
           ScopesFit(w), ~LosesScope(arm, rules, w)
    PROVE  Cardinality(Scopes(arm.scopes.nullable, u)) \in arm.scopes.counts
<1> DEFINE nullable == arm.scopes.nullable
           counts == arm.scopes.counts
<1>1. \A v : Scopes(nullable, v) \in SUBSET ScopeNames
  BY DEF Scopes
<1>2. Cardinality(Scopes(nullable, w)) \in counts
  BY DEF Matches
<1>3. CASE counts = AnyScope
  <2>1. Cardinality(Scopes(nullable, u)) \in {0, 1, 2}
    BY <1>1, ScopeCounts
  <2> QED BY <1>3, <2>1 DEF AnyScope
<1>4. CASE /\ \A s \in ScopeNames \cap DOMAIN rules : KeepsStrict(rules[s]) /\ KeepsLoose(rules[s])
           /\ counts = {1} /\ nullable = {}
           /\ ScopeNames \cap arm.needs # {} \/ ScopeNames \subseteq DOMAIN rules
  <2>1. ASSUME NEW s \in ScopeNames
        PROVE  IsStrict(Value(u, s)) <=> IsStrict(Value(w, s))
    <3>1. CASE s \in DOMAIN rules
      BY <1>4, <3>1, PassedStrict
    <3>2. CASE s \notin DOMAIN rules
      <4>1. PICK o \in ScopeNames \cap arm.needs : TRUE
        BY <1>4, <3>2
      <4>2. o \in DOMAIN rules /\ IsStrict(Value(w, o))
        BY <4>1 DEF KeepsArm, Matches
      <4>3. o \in Scopes(nullable, w) /\ o # s
        BY <4>1, <4>2, <3>2 DEF Scopes
      <4>4. Cardinality(Scopes(nullable, w)) = 1
        BY <1>2, <1>4
      <4>5. PICK x \in ScopeNames : Scopes(nullable, w) = {x}
        BY <1>1, <4>3, <4>4, ScopeCounts
      <4>6. s \notin Scopes(nullable, w)
        BY <4>3, <4>5
      <4>7. ~IsStrict(Value(w, s))
        BY <4>6 DEF Scopes
      <4>8. Value(u, s) = "absent"
        BY <3>2, PassedStrict
      <4> QED BY <4>7, <4>8 DEF IsStrict
    <3> QED BY <3>1, <3>2
  <2>2. Scopes(nullable, u) = Scopes(nullable, w)
    BY <1>4, <2>1 DEF Scopes
  <2> QED BY <1>2, <2>2
<1>5. CASE /\ \A s \in ScopeNames \cap DOMAIN rules : KeepsStrict(rules[s]) /\ KeepsLoose(rules[s])
           /\ counts = {1, 2} /\ nullable = {"requestId"}
           /\ ScopeNames \subseteq DOMAIN rules
           /\ \A s \in ScopeNames : rules[s] = Optional(ScopeNames)[s]
  <2>1. PICK s \in ScopeNames : ReadField(rules[s], Value(w, s)) # "unset"
    BY <1>5 DEF LosesScope, HasNullScope
  <2>2. s \in DOMAIN rules /\ ReadField(rules[s], Value(w, s)) # Refused
    BY <1>5, RuledFacts
  <2>3. rules[s].reads = [absent |-> "unset", null |-> "unset", bad |-> Refused, good |-> "good"]
    BY <1>5 DEF Optional, All, Scalar
  <2>4. IsStrict(Value(w, s))
    BY <2>1, <2>2, <2>3 DEF ReadField, IsStrict, ScopesFit
  <2>5. IsStrict(Value(u, s))
    BY <1>5, <2>2, <2>4, PassedStrict
  <2>6. s \in Scopes(nullable, u)
    BY <2>5 DEF Scopes
  <2>7. Cardinality(Scopes(nullable, u)) \in {1, 2}
    BY <1>1, <2>6, ScopeCounts
  <2> QED BY <1>5, <2>7
<1>6. KeepsScopes(arm, rules)
  BY DEF KeepsArm
<1> QED BY <1>3, <1>4, <1>5, <1>6 DEF KeepsScopes

LEMMA MatchKept ==
    ASSUME NEW rules, NEW w, Ruled(rules, w), NEW u, Passes(rules, w, u),
           NEW arm, KeepsArm(arm, rules), Matches(arm, w),
           ScopesFit(w), ~LosesScope(arm, rules, w)
    PROVE  Matches(arm, u)
<1>1. \A name \in arm.needs : IsStrict(Value(u, name))
  BY PassedStrict DEF KeepsArm, Matches
<1>2. \A name \in arm.present : IsPresent(Value(u, name))
  BY PassedStrict DEF KeepsArm, Matches, IsPresent
<1>3. Cardinality(Scopes(arm.scopes.nullable, u)) \in arm.scopes.counts
  BY ScopesKept
<1> QED BY <1>1, <1>2, <1>3 DEF Matches, IsPresent

LEMMA StaysOutKept ==
    ASSUME NEW rules, NEW w, Ruled(rules, w), NEW u, Passes(rules, w, u),
           NEW arm, StaysOut(arm, rules), ~Matches(arm, w)
    PROVE  ~Matches(arm, u)
<1>1. CASE ~(arm.needs \subseteq DOMAIN rules)
  <2>1. PICK name \in arm.needs : name \notin DOMAIN rules
    BY <1>1
  <2>2. Value(u, name) = "absent"
    BY <2>1, PassedStrict
  <2> QED BY <2>2 DEF Matches, IsStrict
<1>2. CASE /\ arm.needs \subseteq DOMAIN rules
           /\ arm.present = {} /\ arm.scopes.counts = AnyScope
           /\ \A name \in arm.needs : KeepsLoose(rules[name])
  <2>1. Scopes(arm.scopes.nullable, w) \in SUBSET ScopeNames
    BY DEF Scopes
  <2>2. Cardinality(Scopes(arm.scopes.nullable, w)) \in {0, 1, 2}
    BY <2>1, ScopeCounts
  <2>3. PICK name \in arm.needs : ~IsStrict(Value(w, name))
    BY <1>2, <2>2 DEF Matches, AnyScope
  <2>4. ~IsStrict(Value(u, name))
    BY <1>2, <2>3, PassedStrict
  <2> QED BY <2>4 DEF Matches
<1> QED BY <1>1, <1>2 DEF StaysOut

\* The first of the numbers in a set.
LEMMA MinFacts ==
    ASSUME NEW I \in SUBSET Nat, I # {}
    PROVE  Min(I) \in I /\ \A i \in I : Min(I) <= i
<1> DEFINE R == OpToRel(<, Nat)
<1>1. PICK m \in I : \A i \in I : ~(<<i, m>> \in R)
  <2> HIDE DEF R
  <2>1. IsWellFoundedOn(R, Nat)
    BY NatLessThanWellFounded DEF R
  <2> QED BY <2>1, WFMin
<1>2. \A i \in I : ~(i < m)
  BY <1>1 DEF OpToRel
<1>3. \A i \in I : m <= i
  BY <1>2
<1> QED BY <1>3 DEF Min

LEMMA FirstMatchFacts ==
    ASSUME NEW S, NEW arms \in Seq(S), NEW w
    PROVE  \/ FirstMatch(arms, w) = 0 /\ \A j \in DOMAIN arms : ~Matches(arms[j], w)
           \/ /\ FirstMatch(arms, w) \in DOMAIN arms
              /\ Matches(arms[FirstMatch(arms, w)], w)
              /\ \A j \in DOMAIN arms : j < FirstMatch(arms, w) => ~Matches(arms[j], w)
<1> DEFINE I == {i \in 1..Len(arms) : Matches(arms[i], w)}
<1>1. FirstMatch(arms, w) = IF I # {} THEN Min(I) ELSE 0
  BY DEF FirstMatch, SelectInSeq
<1>2. I \in SUBSET Nat /\ DOMAIN arms = 1..Len(arms)
  OBVIOUS
<1>3. CASE I = {}
  BY <1>1, <1>2, <1>3
<1>4. CASE I # {}
  <2>1. Min(I) \in I /\ \A i \in I : Min(I) <= i
    BY <1>2, <1>4, MinFacts
  <2>2. FirstMatch(arms, w) = Min(I)
    BY <1>1, <1>4
  <2>3. FirstMatch(arms, w) \in 1..Len(arms) /\ Matches(arms[FirstMatch(arms, w)], w)
    BY <2>1, <2>2
  <2>4. ASSUME NEW j \in 1..Len(arms), j < FirstMatch(arms, w)
        PROVE  ~Matches(arms[j], w)
    BY <2>1, <2>2, <2>3, <2>4
  <2> QED BY <1>2, <2>3, <2>4
<1> QED BY <1>3, <1>4

LEMMA FirstMatchIs ==
    ASSUME NEW S, NEW arms \in Seq(S), NEW w, NEW i \in DOMAIN arms, Matches(arms[i], w),
           \A j \in DOMAIN arms : j < i => ~Matches(arms[j], w)
    PROVE  FirstMatch(arms, w) = i
<1>1. DOMAIN arms \subseteq Nat \ {0}
  OBVIOUS
<1>2. FirstMatch(arms, w) \in DOMAIN arms
  BY FirstMatchFacts
<1>3. ~(FirstMatch(arms, w) < i) /\ ~(i < FirstMatch(arms, w))
  BY <1>2, FirstMatchFacts
<1> QED BY <1>1, <1>2, <1>3

\* The arm that is selected, and that it is no other.
Chooses(T, w, arm) ==
    \/ IsTagged(T, w) /\ arm = T.cases[Value(w, T.tag)] /\ Matches(arm, w)
    \/ /\ ~IsTagged(T, w)
       /\ \E i \in DOMAIN T.rest :
            /\ arm = T.rest[i] /\ Matches(arm, w)
            /\ \A j \in DOMAIN T.rest : j < i => ~Matches(T.rest[j], w)

LEMMA SelectedFacts ==
    ASSUME NEW T, ArmsApart(T), ~IsBare(T), NEW w, Fits(T, w)
    PROVE  Chooses(T, w, Selected(T, w)) /\ Selected(T, w) \in Arms(T)
<1> DEFINE arms == Candidates(T, w)
           i == FirstMatch(arms, w)
<1>1. Selected(T, w) = arms[i] /\ i # 0
  BY DEF Selected, Fits
<1>2. CASE IsTagged(T, w)
  <2> DEFINE case == T.cases[Value(w, T.tag)]
  <2>1. arms = <<case>>
    BY <1>2 DEF Candidates
  <2>2. arms \in Seq({case}) /\ DOMAIN arms = {1} /\ arms[1] = case
    BY <2>1
  <2> HIDE DEF arms, case
  <2>3. i \in DOMAIN arms /\ Matches(arms[i], w)
    BY <1>1, <2>2, FirstMatchFacts
  <2>4. Selected(T, w) = case /\ Matches(case, w)
    BY <1>1, <2>2, <2>3
  <2> QED BY <1>2, <2>4 DEF Chooses, Arms, IsTagged, case
<1>3. CASE ~IsTagged(T, w)
  <2>1. arms = T.rest /\ T.rest \in Seq(ToSet(T.rest))
    BY <1>3 DEF Candidates, ArmsApart
  <2> HIDE DEF arms
  <2>2. /\ i \in DOMAIN arms /\ Matches(arms[i], w)
        /\ \A j \in DOMAIN arms : j < i => ~Matches(arms[j], w)
    BY <1>1, <2>1, FirstMatchFacts
  <2> QED BY <1>1, <1>3, <2>1, <2>2 DEF Chooses, Arms, ToSet
<1> QED BY <1>2, <1>3

LEMMA SelectedIsOption ==
    ASSUME NEW T, ArmsApart(T), NEW w, IsBare(T) \/ Fits(T, w)
    PROVE  /\ Selected(T, w) \in Options(T)
           /\ IsBare(T) => Selected(T, w) = NoArm
<1>1. CASE IsBare(T)
  BY <1>1 DEF Selected, Options
<1>2. CASE ~IsBare(T)
  BY <1>2, SelectedFacts DEF Options
<1> QED BY <1>1, <1>2

LEMMA SelectedIs ==
    ASSUME NEW T, ArmsApart(T), ~IsBare(T), NEW w, NEW arm, Chooses(T, w, arm)
    PROVE  Fits(T, w) /\ Selected(T, w) = arm
<1> DEFINE arms == Candidates(T, w)
<1>1. \E i \in DOMAIN arms : i # 0 /\ FirstMatch(arms, w) = i /\ arms[i] = arm
  <2>1. CASE IsTagged(T, w)
    <3>1. arms = <<arm>> /\ Matches(arm, w)
      BY <2>1 DEF Candidates, Chooses
    <3>2. arms \in Seq({arm}) /\ DOMAIN arms = {1} /\ arms[1] = arm
      BY <3>1
    <3> HIDE DEF arms
    <3>3. 1 \in DOMAIN arms /\ \A j \in DOMAIN arms : ~(j < 1)
      BY <3>2
    <3>4. FirstMatch(arms, w) = 1
      BY <3>1, <3>2, <3>3, FirstMatchIs
    <3> QED BY <3>2, <3>3, <3>4
  <2>2. CASE ~IsTagged(T, w)
    <3>1. arms = T.rest /\ T.rest \in Seq(ToSet(T.rest))
      BY <2>2 DEF Candidates, ArmsApart
    <3> HIDE DEF arms
    <3>2. PICK i \in DOMAIN arms :
                /\ arm = arms[i] /\ Matches(arm, w)
                /\ \A j \in DOMAIN arms : j < i => ~Matches(arms[j], w)
      BY <2>2, <3>1 DEF Chooses
    <3>3. FirstMatch(arms, w) = i
      BY <3>1, <3>2, FirstMatchIs
    <3>4. i # 0
      BY <3>1
    <3> QED BY <3>2, <3>3, <3>4
  <2> QED BY <2>1, <2>2
<1> QED BY <1>1 DEF Fits, Selected

\* What is written of a variant selects its arm.
LEMMA ChoiceKept ==
    ASSUME NEW rules, NEW w, Ruled(rules, w), NEW u, Passes(rules, w, u),
           NEW T, ArmsApart(T), ~IsBare(T), Fits(T, w),
           NEW arm, arm = Selected(T, w), KeepsChoice(T, arm, rules),
           ScopesFit(w), ~LosesScope(arm, rules, w)
    PROVE  Fits(T, u) /\ Selected(T, u) = arm
<1>1. Chooses(T, w, arm) /\ KeepsArm(arm, rules)
  BY SelectedFacts DEF KeepsChoice
<1>2. Matches(arm, u)
  BY <1>1, MatchKept DEF Chooses
<1>3. CASE IsTagged(T, w)
  <2> DEFINE tag == Value(w, T.tag)
  <2>1. tag \in DOMAIN T.cases /\ arm = T.cases[tag] /\ tag \notin Kinds
    BY <1>1, <1>3 DEF IsTagged, Chooses, ArmsApart
  <2>2. T.tag \in DOMAIN rules
    BY <2>1 DEF KeepsChoice
  <2>3. RuleIsSound(rules[T.tag])
    BY <2>2, RuledFacts, RuleFacts
  <2>4. tag \notin DOMAIN rules[T.tag].reads
    BY <2>1, <2>3 DEF RuleIsSound
  <2>5. Value(u, T.tag) = Rewritten(rules[T.tag], tag)
    BY <2>2 DEF Passes
  <2>6. Value(u, T.tag) = tag
    BY <2>2, <2>4, <2>5, RuledFacts, RewritingFacts
  <2>7. Chooses(T, u, arm)
    BY <1>2, <2>1, <2>6 DEF Chooses, IsTagged
  <2> QED BY <2>7, SelectedIs
<1>4. CASE ~IsTagged(T, w)
  <2>1. ~IsTagged(T, u)
    <3>1. CASE T.tag \notin DOMAIN rules
      BY <3>1, PassedStrict DEF ArmsApart, IsTagged, Kinds
    <3>2. CASE T.tag \in DOMAIN rules
      <4> DEFINE old == Value(w, T.tag)
      <4>1. Value(u, T.tag) = Rewritten(rules[T.tag], old)
        BY <3>2 DEF Passes
      <4>2. RuleIsSound(rules[T.tag])
        BY <3>2, RuledFacts, RuleFacts
      <4>3. old \in Kinds \/ old \notin DOMAIN rules[T.tag].reads
        BY <4>2 DEF RuleIsSound
      <4>4. Value(u, T.tag) \in Kinds \/ Value(u, T.tag) = old
        BY <3>2, <4>1, <4>3, RuledFacts, RewritingFacts
      <4> QED BY <1>4, <4>4 DEF ArmsApart, IsTagged
    <3> QED BY <3>1, <3>2
  <2>2. PICK i \in DOMAIN T.rest :
            arm = T.rest[i] /\ \A j \in DOMAIN T.rest : j < i => ~Matches(T.rest[j], w)
    BY <1>1, <1>4 DEF Chooses
  <2>3. ASSUME NEW j \in DOMAIN T.rest, j < i
        PROVE  ~Matches(T.rest[j], u)
    <3>1. T.rest \in Seq(ToSet(T.rest))
      BY DEF ArmsApart
    <3>2. j \in 1..(i - 1)
      BY <2>3, <3>1
    <3>3. StaysOut(T.rest[j], rules)
      BY <2>2, <3>2 DEF KeepsChoice
    <3> QED BY <2>2, <2>3, <3>3, StaysOutKept
  <2>4. Chooses(T, u, arm)
    BY <1>2, <2>1, <2>2, <2>3 DEF Chooses
  <2> QED BY <2>4, SelectedIs
<1> QED BY <1>3, <1>4

-----------------------------------------------------------------------------
(* The route of a message through the unions it is made of.                *)

Route(T, w) ==
    LET arm1 == Selected(T, w)
        arm2 == Selected(arm1.body, w)
    IN <<arm1, arm2, Selected(arm2.body, w)>>

\* The names of its arms.
Trail(T, r) ==
    IF IsBare(T) THEN <<>>
    ELSE IF IsBare(r[1].body) THEN <<r[1].name>>
    ELSE IF IsBare(r[2].body) THEN <<r[1].name, r[2].name>>
    ELSE <<r[1].name, r[2].name, r[3].name>>

IsRawRoute(r) == \E i \in 1..3 : r[i].body.kind = "raw"

\* The message can be decoded along the route.
Goes(T, r, w) ==
    /\ r = Route(T, w)
    /\ IsBare(T) \/ Fits(T, w)
    /\ IsBare(r[1].body) \/ Fits(r[1].body, w)
    /\ IsBare(r[2].body) \/ Fits(r[2].body, w)
    /\ Accepts(T.own, w) /\ \A i \in 1..3 : Accepts(r[i].body.own, w)

LEMMA BareFacts ==
    /\ Raw.kind = "raw" /\ Raw.own = <<>> /\ IsBare(Raw)
    /\ NoArm.body.kind = "object" /\ NoArm.body.own = <<>> /\ IsBare(NoArm.body)
    /\ NoArm.name = "none" /\ ~HasNullScope(NoArm)
<1>1. Raw.kind = "raw" /\ Raw.own = <<>> /\ Raw.rest = <<>> /\ Raw.cases = <<>>
  BY DEF Raw
<1>2. /\ Struct(<<>>).kind = "object" /\ Struct(<<>>).own = <<>>
      /\ Struct(<<>>).rest = <<>> /\ Struct(<<>>).cases = <<>>
  BY DEF Struct
<1>3. NoArm.body = Struct(<<>>) /\ NoArm.name = "none" /\ NoArm.scopes.nullable = {}
  BY DEF NoArm, Arm
<1>4. DOMAIN <<>> = {}
  OBVIOUS
<1> QED BY <1>1, <1>2, <1>3, <1>4 DEF IsBare, HasNullScope

\* A level of it: what is decoded is its own fields and what its arm's body is
\* decoded to.
Succeeds(T, w, inner) ==
    \/ T = Raw
    \/ T.kind = "object" /\ Join(T, w, inner) # Invalid

LEMMA LevelSucceeds ==
    ASSUME NEW T, ArmsApart(T), NEW w, NEW inner, NEW arm, arm = Selected(T, w),
           Succeeds(T, w, Join(arm.body, w, inner))
    PROVE  /\ arm \in Options(T) /\ (IsBare(T) \/ Fits(T, w)) /\ Accepts(T.own, w)
           /\ Succeeds(arm.body, w, inner)
           /\ IF arm.name = "Other" THEN arm.body = Raw ELSE arm.body.kind = "object"
           /\ Join(T, w, Join(arm.body, w, inner)).path =
                IF IsBare(T) THEN <<>> ELSE <<arm.name>> \o Join(arm.body, w, inner).path
<1>1. CASE IsBare(T)
  <2>1. arm = NoArm
    BY <1>1 DEF Selected
  <2>2. Accepts(<<>>, w)
    BY DEF Accepts
  <2>3. Join(NoArm.body, w, inner).path = <<>>
    BY <2>2, BareFacts DEF Join
  <2>4. Join(NoArm.body, w, inner) # Invalid
    BY <2>3 DEF Invalid
  <2>5. Accepts(T.own, w) /\ Join(T, w, Join(arm.body, w, inner)).path = <<>>
    BY <1>1, <2>2, BareFacts DEF Succeeds, Join
  <2> QED BY <1>1, <2>1, <2>4, <2>5, BareFacts DEF Options, Succeeds
<1>2. CASE ~IsBare(T)
  <2>1. T.kind = "object" /\ Join(T, w, Join(arm.body, w, inner)) # Invalid
    BY <1>2, BareFacts DEF Succeeds
  <2>2. Accepts(T.own, w) /\ Fits(T, w) /\ Join(arm.body, w, inner) # Invalid
    BY <1>2, <2>1 DEF Join
  <2>3. arm \in Arms(T)
    BY <1>2, <2>2, SelectedFacts
  <2>4. IF arm.name = "Other" THEN arm.body = Raw ELSE arm.body.kind = "object"
    BY <2>3 DEF ArmsApart
  <2>5. Join(T, w, Join(arm.body, w, inner)).path = <<arm.name>> \o Join(arm.body, w, inner).path
    BY <1>2, <2>1, <2>2 DEF Join
  <2> QED BY <1>2, <2>2, <2>3, <2>4, <2>5 DEF Options, Succeeds
<1> QED BY <1>1, <1>2

LEMMA TrailFacts ==
    ASSUME NEW a, NEW b, NEW c
    PROVE  /\ <<a>> \o <<>> = <<a>> /\ <<a>> \o <<b>> = <<a, b>>
           /\ <<a>> \o <<b, c>> = <<a, b, c>>
<1> DEFINE S == {a, b, c}
<1>1. <<a>> \o <<>> = <<a>>
  <2>1. <<a>> \in Seq(S)
    OBVIOUS
  <2> QED BY <2>1, ConcatEmptySeq
<1>2. <<a>> \in Seq(S) /\ <<b>> \in Seq(S) /\ <<b, c>> \in Seq(S)
      /\ <<a, b>> \in Seq(S) /\ <<a, b, c>> \in Seq(S)
  OBVIOUS
<1>3. <<a>> \o <<b>> = <<a, b>>
  <2> DEFINE s == <<a>> \o <<b>>
  <2>1. s \in Seq(S) /\ Len(s) = 2 /\ s[1] = a /\ s[2] = b
    BY <1>2, ConcatProperties
  <2> HIDE DEF s, S
  <2>2. s = <<a, b>>
    BY <2>1
  <2> QED BY <2>2 DEF s
<1>4. <<a>> \o <<b, c>> = <<a, b, c>>
  <2> DEFINE s == <<a>> \o <<b, c>>
  <2>1. s \in Seq(S) /\ Len(s) = 3 /\ s[1] = a /\ s[2] = b /\ s[3] = c
    BY <1>2, ConcatProperties
  <2> HIDE DEF s, S
  <2>2. s = <<a, b, c>>
    BY <2>1
  <2> QED BY <2>2 DEF s
<1> QED BY <1>1, <1>3, <1>4

\* What is decoded has gone along its route.
LEMMA DecodeGoes ==
    ASSUME NEW t \in DOMAIN Schema, Schema[t].kind = "object",
           NEW w, Decode(Schema[t], w) # Invalid
    PROVE  LET T == Schema[t]
               r == Route(T, w)
           IN /\ r \in Routes(T) /\ Goes(T, r, w)
              /\ Decode(T, w).path = Trail(T, r)
              /\ \A i \in 1..3 : IF r[i].name = "Other" THEN r[i].body = Raw
                                                        ELSE r[i].body.kind = "object"
              /\ IsBare(r[3].body)
<1> DEFINE T == Schema[t]
           arm1 == Selected(T, w)
           arm2 == Selected(arm1.body, w)
           arm3 == Selected(arm2.body, w)
           join3 == Join(arm3.body, w, Invalid)
           join2 == Join(arm2.body, w, join3)
           join1 == Join(arm1.body, w, join2)
<1>1. Succeeds(T, w, join1) /\ Decode(T, w) = Join(T, w, join1)
  BY DEF Decode, Succeeds
<1>2. SoundArms(T)
  BY SchemaAssumption
<1> HIDE DEF T, arm1, arm2, arm3, join1, join2, join3
<1>3. /\ arm1 \in Options(T) /\ (IsBare(T) \/ Fits(T, w)) /\ Accepts(T.own, w)
      /\ Succeeds(arm1.body, w, join2)
      /\ IF arm1.name = "Other" THEN arm1.body = Raw ELSE arm1.body.kind = "object"
      /\ Join(T, w, join1).path = IF IsBare(T) THEN <<>> ELSE <<arm1.name>> \o join1.path
  BY <1>1, <1>2, LevelSucceeds DEF SoundArms, arm1, join1
<1>4. /\ arm2 \in Options(arm1.body) /\ (IsBare(arm1.body) \/ Fits(arm1.body, w))
      /\ Accepts(arm1.body.own, w) /\ Succeeds(arm2.body, w, join3)
      /\ IF arm2.name = "Other" THEN arm2.body = Raw ELSE arm2.body.kind = "object"
      /\ join1.path = IF IsBare(arm1.body) THEN <<>> ELSE <<arm2.name>> \o join2.path
  BY <1>2, <1>3, LevelSucceeds DEF SoundArms, arm2, join1, join2
<1>5. /\ arm3 \in Options(arm2.body) /\ (IsBare(arm2.body) \/ Fits(arm2.body, w))
      /\ Accepts(arm2.body.own, w) /\ Succeeds(arm3.body, w, Invalid)
      /\ IF arm3.name = "Other" THEN arm3.body = Raw ELSE arm3.body.kind = "object"
      /\ join2.path = IF IsBare(arm2.body) THEN <<>> ELSE <<arm3.name>> \o join3.path
  BY <1>2, <1>3, <1>4, LevelSucceeds DEF SoundArms, arm3, join2, join3
<1>6. IsBare(arm3.body)
  BY <1>2, <1>3, <1>4, <1>5 DEF SoundArms
<1>7. Accepts(arm3.body.own, w) /\ join3.path = <<>>
  <2>1. Accepts(<<>>, w)
    BY DEF Accepts
  <2> QED BY <1>5, <1>6, <2>1, BareFacts DEF Succeeds, Join, join3
<1> DEFINE r == <<arm1, arm2, arm3>>
<1>8. r = Route(T, w) /\ r[1] = arm1 /\ r[2] = arm2 /\ r[3] = arm3
  BY DEF Route, arm1, arm2, arm3
<1>9. r \in Routes(T)
  BY <1>3, <1>4, <1>5 DEF Routes
<1> HIDE DEF r
<1>10. ASSUME NEW i \in 1..3
       PROVE  /\ Accepts(r[i].body.own, w)
              /\ IF r[i].name = "Other" THEN r[i].body = Raw ELSE r[i].body.kind = "object"
  <2>1. i = 1 \/ i = 2 \/ i = 3
    OBVIOUS
  <2> QED BY <1>3, <1>4, <1>5, <1>7, <1>8, <2>1
<1>11. Goes(T, r, w)
  BY <1>3, <1>4, <1>5, <1>8, <1>10 DEF Goes
<1>12. Join(T, w, join1).path = Trail(T, r)
  <2>1. CASE IsBare(T)
    BY <1>3, <2>1 DEF Trail
  <2>2. CASE ~IsBare(T) /\ IsBare(arm1.body)
    BY <1>3, <1>4, <1>8, <2>2, TrailFacts DEF Trail
  <2>3. CASE ~IsBare(T) /\ ~IsBare(arm1.body) /\ IsBare(arm2.body)
    <3>1. join1.path = <<arm2.name>>
      BY <1>4, <1>5, <2>3, TrailFacts
    <3>2. Join(T, w, join1).path = <<arm1.name, arm2.name>>
      <4>1. <<arm1.name>> \o <<arm2.name>> = <<arm1.name, arm2.name>>
        BY TrailFacts
      <4> QED BY <1>3, <2>3, <3>1, <4>1
    <3>3. Trail(T, r) = <<arm1.name, arm2.name>>
      BY <1>8, <2>3 DEF Trail
    <3> QED BY <3>2, <3>3
  <2>4. CASE ~IsBare(T) /\ ~IsBare(arm1.body) /\ ~IsBare(arm2.body)
    <3>1. join2.path = <<arm3.name>>
      BY <1>5, <1>7, <2>4, TrailFacts
    <3>2. join1.path = <<arm2.name, arm3.name>>
      <4>1. <<arm2.name>> \o <<arm3.name>> = <<arm2.name, arm3.name>>
        BY TrailFacts
      <4> QED BY <1>4, <2>4, <3>1, <4>1
    <3>3. Join(T, w, join1).path = <<arm1.name, arm2.name, arm3.name>>
      <4>1. <<arm1.name>> \o <<arm2.name, arm3.name>> = <<arm1.name, arm2.name, arm3.name>>
        BY TrailFacts
      <4> QED BY <1>3, <2>4, <3>2, <4>1
    <3>4. Trail(T, r) = <<arm1.name, arm2.name, arm3.name>>
      BY <1>8, <2>4 DEF Trail
    <3> QED BY <3>3, <3>4
  <2> QED BY <2>1, <2>2, <2>3, <2>4
<1> QED BY <1>1, <1>6, <1>8, <1>9, <1>10, <1>11, <1>12 DEF T

-----------------------------------------------------------------------------
(* What is decoded and encoded along a route.                              *)

\* The rules of a route are those of all its structs, which agree.
LEMMA RulesFacts ==
    ASSUME NEW t \in DOMAIN Schema, Schema[t].kind = "object",
           NEW r \in Routes(Schema[t])
    PROVE  LET T == Schema[t]
               rules == RulesOf(T, r)
           IN /\ DOMAIN rules = DOMAIN T.own \cup (DOMAIN r[1].body.own
                    \cup (DOMAIN r[2].body.own \cup DOMAIN r[3].body.own))
              /\ AgreesWith(T.own, rules)
              /\ \A i \in 1..3 : AgreesWith(r[i].body.own, rules)
              /\ \A name \in DOMAIN rules :
                    /\ rules[name] \in FieldRules
                    /\ \/ rules[name] \in StructRules
                       \/ t = <<"v2", "ListSessionsResponse">> /\ name = "sessions"
<1>1. SoundRoute(t, r)
  BY SchemaAssumption
<1>2. \A name : Listing({name})[name] \in FieldRules
  BY DEF FieldRules, Listing, All, NoOmit, List
<1> QED BY <1>1, <1>2 DEF SoundRoute, RulesOf, Over, AgreesWith, StructRules

LEMMA AcceptsRules ==
    ASSUME NEW t \in DOMAIN Schema, Schema[t].kind = "object",
           NEW r \in Routes(Schema[t]), NEW w
    PROVE  /\ Goes(Schema[t], r, w) => Accepts(RulesOf(Schema[t], r), w)
           /\ Accepts(RulesOf(Schema[t], r), w) =>
                /\ Accepts(Schema[t].own, w)
                /\ \A i \in 1..3 : Accepts(r[i].body.own, w)
<1> DEFINE T == Schema[t]
           rules == RulesOf(T, r)
<1>1. /\ DOMAIN rules = DOMAIN T.own \cup (DOMAIN r[1].body.own
              \cup (DOMAIN r[2].body.own \cup DOMAIN r[3].body.own))
      /\ AgreesWith(T.own, rules)
      /\ \A i \in 1..3 : AgreesWith(r[i].body.own, rules)
  BY RulesFacts
<1>2. \A own : Accepts(own, w) <=>
            \A name \in DOMAIN own : ReadField(own[name], Value(w, name)) # Refused
  BY DEF Accepts, ReadFields
<1> HIDE DEF T, rules
<1>3. \A i \in 1..3 : i = 1 \/ i = 2 \/ i = 3
  OBVIOUS
<1>4. Goes(T, r, w) => Accepts(rules, w)
  BY <1>1, <1>2 DEF AgreesWith, Goes
<1>5. Accepts(rules, w) => Accepts(T.own, w)
  BY <1>1, <1>2 DEF AgreesWith
<1>6. ASSUME NEW i \in 1..3, Accepts(rules, w)
      PROVE  Accepts(r[i].body.own, w)
  <2>1. DOMAIN r[i].body.own \subseteq DOMAIN rules
    BY <1>1, <1>3
  <2> QED BY <1>1, <1>2, <1>6, <2>1 DEF AgreesWith
<1> QED BY <1>4, <1>5, <1>6 DEF T, rules

\* The fields of these names, as the rules read them.
FieldsRead(rules, w, names) == [n \in names |-> ReadField(rules[n], Value(w, n))]

Short(path) ==
    \/ path = <<>>
    \/ \E a : path = <<a>>
    \/ \E a, b : path = <<a, b>>

\* One level, with the fields of the levels below.
LEMMA LevelJoins ==
    ASSUME NEW T, T.kind # "raw", ArmsApart(T), NEW w, NEW arm, arm = Selected(T, w),
           IsBare(T) \/ Fits(T, w), Accepts(T.own, w),
           NEW rules, AgreesWith(T.own, rules), NEW names, IsBare(T) => names = {}, NEW inner,
           ~IsBare(T) =>
                /\ inner # Invalid /\ Short(inner.path)
                /\ inner.fields = FieldsRead(rules, w, names)
    PROVE  /\ Join(T, w, inner) # Invalid
           /\ Join(T, w, inner).path = IF IsBare(T) THEN <<>> ELSE <<arm.name>> \o inner.path
           /\ Join(T, w, inner).fields = FieldsRead(rules, w, DOMAIN T.own \cup names)
<1> USE DEF FieldsRead
<1>1. ReadFields(T.own, w) = [n \in DOMAIN T.own |-> ReadField(rules[n], Value(w, n))]
  BY DEF ReadFields, AgreesWith
<1>2. CASE IsBare(T)
  <2>1. Join(T, w, inner) = [path |-> <<>>, fields |-> ReadFields(T.own, w)]
    BY <1>2 DEF Join
  <2>2. Join(T, w, inner).path = <<>> /\ Join(T, w, inner) # Invalid
    BY <2>1 DEF Invalid
  <2>3. DOMAIN T.own \cup names = DOMAIN T.own
    BY <1>2
  <2> QED BY <1>1, <1>2, <2>1, <2>2, <2>3
<1>3. CASE ~IsBare(T)
  <2>1. Join(T, w, inner) = [path |-> <<arm.name>> \o inner.path,
                             fields |-> Over(ReadFields(T.own, w), inner.fields)]
    BY <1>3 DEF Join
  <2>2. arm.name # "refused"
    BY <1>3, SelectedFacts DEF ArmsApart, Invalid
  <2>3. <<arm.name>> \o inner.path # <<"refused">>
    <3> SUFFICES ASSUME NEW n, n # "refused" PROVE <<n>> \o inner.path # <<"refused">>
      BY <2>2
    <3>1. CASE inner.path = <<>>
      BY <3>1, TrailFacts
    <3>2. CASE \E a : inner.path = <<a>>
      <4>1. PICK a : inner.path = <<a>>
        BY <3>2
      <4>2. <<n>> \o <<a>> = <<n, a>>
        BY TrailFacts
      <4> QED BY <4>1, <4>2
    <3>3. CASE \E a, b : inner.path = <<a, b>>
      <4>1. PICK a, b : inner.path = <<a, b>>
        BY <3>3
      <4>2. <<n>> \o <<a, b>> = <<n, a, b>>
        BY TrailFacts
      <4>3. <<n>> \o inner.path = <<n, a, b>>
        BY <4>1, <4>2
      <4>4. <<n, a, b>> # <<"refused">>
        OBVIOUS
      <4> QED BY <4>3, <4>4
    <3> QED BY <1>3, <3>1, <3>2, <3>3 DEF Short
  <2>4. Join(T, w, inner) # Invalid
    <3>1. Join(T, w, inner).path # <<"refused">>
      BY <2>1, <2>3
    <3>2. Invalid.path = <<"refused">>
      BY DEF Invalid
    <3> QED BY <3>1, <3>2
  <2>5. Over(ReadFields(T.own, w), inner.fields) =
            [n \in DOMAIN T.own \cup names |-> ReadField(rules[n], Value(w, n))]
    BY <1>1, <1>3 DEF Over
  <2> QED BY <1>3, <2>1, <2>4, <2>5
<1> QED BY <1>2, <1>3

\* A message that goes along a route is decoded along it.
LEMMA GoesDecodes ==
    ASSUME NEW t \in DOMAIN Schema, Schema[t].kind = "object",
           NEW r \in Routes(Schema[t]), ~IsRawRoute(r), IsBare(r[3].body),
           NEW w, Goes(Schema[t], r, w)
    PROVE  LET T == Schema[t]
           IN /\ Decode(T, w) # Invalid
              /\ Decode(T, w).path = Trail(T, r)
              /\ Decode(T, w).fields = ReadFields(RulesOf(T, r), w)
<1> DEFINE T == Schema[t]
           rules == RulesOf(T, r)
           arm1 == Selected(T, w)
           arm2 == Selected(arm1.body, w)
           arm3 == Selected(arm2.body, w)
           join3 == Join(arm3.body, w, Invalid)
           join2 == Join(arm2.body, w, join3)
           join1 == Join(arm1.body, w, join2)
           join0 == Join(T, w, join1)
           Names3 == DOMAIN arm3.body.own
           Names2 == DOMAIN arm2.body.own \cup Names3
           Names1 == DOMAIN arm1.body.own \cup Names2
           Names0 == DOMAIN T.own \cup Names1
           Read(names) == FieldsRead(rules, w, names)
<1>1. Decode(T, w) = join0
  BY DEF Decode
<1>2. SoundArms(T) /\ T.kind # "raw"
  BY SchemaAssumption
<1>3. /\ DOMAIN rules = DOMAIN T.own \cup (DOMAIN r[1].body.own
              \cup (DOMAIN r[2].body.own \cup DOMAIN r[3].body.own))
      /\ AgreesWith(T.own, rules)
      /\ \A i \in 1..3 : AgreesWith(r[i].body.own, rules)
  BY RulesFacts
<1>4. r = <<arm1, arm2, arm3>> /\ r[1] = arm1 /\ r[2] = arm2 /\ r[3] = arm3
  BY DEF Goes, Route
<1>0. arm1 = Selected(T, w) /\ arm2 = Selected(arm1.body, w) /\ arm3 = Selected(arm2.body, w)
  OBVIOUS
<1> HIDE DEF T, rules, arm1, arm2, arm3
<1>5. /\ arm1.body.kind # "raw" /\ arm2.body.kind # "raw" /\ arm3.body.kind # "raw"
      /\ IsBare(arm3.body)
  BY <1>4 DEF IsRawRoute
<1>6. /\ Accepts(T.own, w) /\ Accepts(arm1.body.own, w)
      /\ Accepts(arm2.body.own, w) /\ Accepts(arm3.body.own, w)
      /\ IsBare(T) \/ Fits(T, w)
      /\ IsBare(arm1.body) \/ Fits(arm1.body, w)
      /\ IsBare(arm2.body) \/ Fits(arm2.body, w)
  BY <1>4 DEF Goes, T
<1>7. /\ AgreesWith(T.own, rules) /\ AgreesWith(arm1.body.own, rules)
      /\ AgreesWith(arm2.body.own, rules) /\ AgreesWith(arm3.body.own, rules)
      /\ DOMAIN rules = Names0
  BY <1>3, <1>4
<1>8. /\ arm1 \in Options(T) /\ arm2 \in Options(arm1.body) /\ arm3 \in Options(arm2.body)
      /\ IsBare(T) => arm1 = NoArm
      /\ IsBare(arm1.body) => arm2 = NoArm
      /\ IsBare(arm2.body) => arm3 = NoArm
  <2>1. arm1 \in Options(T) /\ (IsBare(T) => arm1 = NoArm) /\ ArmsApart(arm1.body)
    <3>1. arm1 \in Options(T) /\ (IsBare(T) => arm1 = NoArm)
      BY <1>2, <1>0, <1>6, SelectedIsOption DEF SoundArms
    <3> QED BY <1>2, <3>1 DEF SoundArms
  <2>2. /\ arm2 \in Options(arm1.body) /\ (IsBare(arm1.body) => arm2 = NoArm)
        /\ ArmsApart(arm2.body)
    <3>1. arm2 \in Options(arm1.body) /\ (IsBare(arm1.body) => arm2 = NoArm)
      BY <1>0, <1>6, <2>1, SelectedIsOption
    <3> QED BY <1>2, <2>1, <3>1 DEF SoundArms
  <2>3. arm3 \in Options(arm2.body) /\ (IsBare(arm2.body) => arm3 = NoArm)
    BY <1>0, <1>6, <2>2, SelectedIsOption
  <2> QED BY <2>1, <2>2, <2>3
<1>9. ArmsApart(T) /\ ArmsApart(arm1.body) /\ ArmsApart(arm2.body)
  BY <1>2, <1>8 DEF SoundArms
<1>10. /\ IsBare(arm2.body) => Names3 = {}
       /\ IsBare(arm1.body) => Names2 = {}
       /\ IsBare(T) => Names1 = {}
  <2>1. DOMAIN NoArm.body.own = {} /\ IsBare(NoArm.body)
    BY BareFacts
  <2> QED BY <1>8, <2>1
<1>11. join3.path = <<>> /\ join3 # Invalid /\ join3.fields = Read(Names3)
  <2>1. join3 = [path |-> <<>>, fields |-> ReadFields(arm3.body.own, w)]
    BY <1>5, <1>6 DEF Join
  <2>2. ReadFields(arm3.body.own, w) = Read(Names3)
    BY <1>7 DEF ReadFields, AgreesWith, FieldsRead
  <2>3. join3.path = <<>> /\ join3 # Invalid
    BY <2>1 DEF Invalid
  <2> QED BY <2>1, <2>2, <2>3
<1> HIDE DEF join3, Names3
<1>12. /\ join2 # Invalid /\ join2.fields = Read(Names2)
       /\ join2.path = IF IsBare(arm2.body) THEN <<>> ELSE <<arm3.name>> \o join3.path
  <2>1. Short(join3.path)
    BY <1>11 DEF Short
  <2> DEFINE body == arm2.body
  <2>2. /\ body.kind # "raw" /\ ArmsApart(body) /\ arm3 = Selected(body, w)
        /\ IsBare(body) \/ Fits(body, w)
        /\ Accepts(body.own, w) /\ AgreesWith(body.own, rules)
        /\ IsBare(body) => Names3 = {}
    BY <1>0, <1>5, <1>6, <1>7, <1>9, <1>10
  <2>3. join3 # Invalid /\ join3.fields = FieldsRead(rules, w, Names3)
    BY <1>11
  <2> HIDE DEF join2, Names2, Read, body
  <2>4. /\ Join(body, w, join3) # Invalid
        /\ Join(body, w, join3).path =
                IF IsBare(body) THEN <<>> ELSE <<arm3.name>> \o join3.path
        /\ Join(body, w, join3).fields =
                FieldsRead(rules, w, DOMAIN body.own \cup Names3)
    BY <2>1, <2>2, <2>3, LevelJoins
  <2> QED BY <2>4 DEF join2, Names2, Read, body
<1> HIDE DEF join2, Names2
<1>13. join2.path = <<>> \/ join2.path = <<arm3.name>>
  <2>1. <<arm3.name>> \o <<>> = <<arm3.name>>
    BY TrailFacts
  <2> QED BY <1>11, <1>12, <2>1
<1>14. /\ join1 # Invalid /\ join1.fields = Read(Names1)
       /\ join1.path = IF IsBare(arm1.body) THEN <<>> ELSE <<arm2.name>> \o join2.path
  <2>1. Short(join2.path)
    BY <1>13 DEF Short
  <2> DEFINE body == arm1.body
  <2>2. /\ body.kind # "raw" /\ ArmsApart(body) /\ arm2 = Selected(body, w)
        /\ IsBare(body) \/ Fits(body, w)
        /\ Accepts(body.own, w) /\ AgreesWith(body.own, rules)
        /\ IsBare(body) => Names2 = {}
    BY <1>0, <1>2, <1>5, <1>6, <1>7, <1>9, <1>10
  <2>3. join2 # Invalid /\ join2.fields = FieldsRead(rules, w, Names2)
    BY <1>12
  <2> HIDE DEF join1, Names1, Read, body
  <2>4. /\ Join(body, w, join2) # Invalid
        /\ Join(body, w, join2).path =
                IF IsBare(body) THEN <<>> ELSE <<arm2.name>> \o join2.path
        /\ Join(body, w, join2).fields =
                FieldsRead(rules, w, DOMAIN body.own \cup Names2)
    BY <2>1, <2>2, <2>3, LevelJoins
  <2> QED BY <2>4 DEF join1, Names1, Read, body
<1> HIDE DEF join1, Names1
<1>15. Short(join1.path)
  <2>1. CASE IsBare(arm1.body)
    BY <1>14, <2>1 DEF Short
  <2>2. CASE ~IsBare(arm1.body) /\ join2.path = <<>>
    <3>0. <<arm2.name>> \o <<>> = <<arm2.name>>
      BY TrailFacts
    <3>1. join1.path = <<arm2.name>>
      BY <1>14, <2>2, <3>0
    <3> QED BY <3>1 DEF Short
  <2>3. CASE ~IsBare(arm1.body) /\ join2.path = <<arm3.name>>
    <3>1. <<arm2.name>> \o <<arm3.name>> = <<arm2.name, arm3.name>>
      BY TrailFacts
    <3>2. join1.path = <<arm2.name, arm3.name>>
      BY <1>14, <2>3, <3>1
    <3> QED BY <3>2 DEF Short
  <2> QED BY <1>13, <2>1, <2>2, <2>3
<1>16. join0 # Invalid /\ join0.fields = Read(Names0)
  <2>2. /\ T.kind # "raw" /\ ArmsApart(T) /\ arm1 = Selected(T, w)
        /\ IsBare(T) \/ Fits(T, w)
        /\ Accepts(T.own, w) /\ AgreesWith(T.own, rules)
        /\ IsBare(T) => Names1 = {}
    BY <1>0, <1>2, <1>5, <1>6, <1>7, <1>9, <1>10
  <2>3. join1 # Invalid /\ join1.fields = FieldsRead(rules, w, Names1)
    BY <1>14
  <2> HIDE DEF join0, Names0, Read
  <2>4. /\ Join(T, w, join1) # Invalid
        /\ Join(T, w, join1).path = IF IsBare(T) THEN <<>> ELSE <<arm1.name>> \o join1.path
        /\ Join(T, w, join1).fields = FieldsRead(rules, w, DOMAIN T.own \cup Names1)
    BY <1>15, <2>2, <2>3, LevelJoins
  <2> QED BY <2>4 DEF join0, Names0, Read
<1>17. ReadFields(rules, w) = Read(Names0)
  BY <1>7 DEF ReadFields, FieldsRead
<1>18. Decode(T, w).path = Trail(T, r)
  <2>1. Decode(T, w) # Invalid
    BY <1>1, <1>16
  <2>2. r = Route(T, w)
    BY DEF Goes, T
  <2> QED BY <2>1, <2>2, DecodeGoes DEF T
<1> QED BY <1>1, <1>16, <1>17, <1>18 DEF T, rules

\* The arms of a route, one by one.
LEMMA GoesFacts ==
    ASSUME NEW t \in DOMAIN Schema, Schema[t].kind = "object", NEW r, NEW w,
           Goes(Schema[t], r, w)
    PROVE  LET T == Schema[t]
           IN /\ r[1] = Selected(T, w) /\ r[2] = Selected(r[1].body, w)
              /\ r[3] = Selected(r[2].body, w)
              /\ ArmsApart(T) /\ ArmsApart(r[1].body) /\ ArmsApart(r[2].body)
              /\ IsBare(r[3].body)
              /\ IsBare(T) => r[1] = NoArm /\ IsBare(r[1].body)
              /\ IsBare(r[1].body) => r[2] = NoArm /\ IsBare(r[2].body)
              /\ IsBare(r[2].body) => r[3] = NoArm
              /\ r \in Routes(T)
<1> DEFINE T == Schema[t]
           arm1 == Selected(T, w)
           arm2 == Selected(arm1.body, w)
           arm3 == Selected(arm2.body, w)
<1>1. SoundArms(T)
  BY SchemaAssumption
<1>2. r = <<arm1, arm2, arm3>> /\ r[1] = arm1 /\ r[2] = arm2 /\ r[3] = arm3
  BY DEF Goes, Route
<1>3. arm1 = Selected(T, w) /\ arm2 = Selected(arm1.body, w) /\ arm3 = Selected(arm2.body, w)
  OBVIOUS
<1> HIDE DEF T, arm1, arm2, arm3
<1>4. /\ IsBare(T) \/ Fits(T, w)
      /\ IsBare(arm1.body) \/ Fits(arm1.body, w)
      /\ IsBare(arm2.body) \/ Fits(arm2.body, w)
  BY <1>2 DEF Goes, T
<1>5. /\ arm1 \in Options(T) /\ arm2 \in Options(arm1.body) /\ arm3 \in Options(arm2.body)
      /\ IsBare(T) => arm1 = NoArm
      /\ IsBare(arm1.body) => arm2 = NoArm
      /\ IsBare(arm2.body) => arm3 = NoArm
  <2>1. arm1 \in Options(T) /\ (IsBare(T) => arm1 = NoArm) /\ ArmsApart(arm1.body)
    <3>1. arm1 \in Options(T) /\ (IsBare(T) => arm1 = NoArm)
      BY <1>1, <1>3, <1>4, SelectedIsOption DEF SoundArms
    <3> QED BY <1>1, <3>1 DEF SoundArms
  <2>2. /\ arm2 \in Options(arm1.body) /\ (IsBare(arm1.body) => arm2 = NoArm)
        /\ ArmsApart(arm2.body)
    <3>1. arm2 \in Options(arm1.body) /\ (IsBare(arm1.body) => arm2 = NoArm)
      BY <1>3, <1>4, <2>1, SelectedIsOption
    <3> QED BY <1>1, <2>1, <3>1 DEF SoundArms
  <2>3. arm3 \in Options(arm2.body) /\ (IsBare(arm2.body) => arm3 = NoArm)
    BY <1>3, <1>4, <2>2, SelectedIsOption
  <2> QED BY <2>1, <2>2, <2>3
<1>6. r \in Routes(T)
  BY <1>2, <1>5 DEF Routes
<1>7. IsBare(NoArm.body)
  BY BareFacts
<1>8. ArmsApart(T) /\ ArmsApart(arm1.body) /\ ArmsApart(arm2.body) /\ IsBare(arm3.body)
  BY <1>1, <1>5 DEF SoundArms
<1> QED BY <1>2, <1>3, <1>5, <1>6, <1>7, <1>8 DEF T

\* A name tells which arm was taken, and by which tag.
LEMMA TagFacts ==
    ASSUME NEW T, ArmsApart(T), ~IsBare(T), NEW w, Fits(T, w), NEW arm, arm = Selected(T, w)
    PROVE  /\ ArmNamed(T, arm.name) = arm
           /\ \/ IsTagged(T, w) /\ TagOf(T, arm.name) = [n \in {T.tag} |-> Value(w, T.tag)]
              \/ ~IsTagged(T, w) /\ TagOf(T, arm.name) = <<>>
<1>1. Chooses(T, w, arm) /\ arm \in Arms(T)
  BY SelectedFacts
<1>2. \A other \in Arms(T) : other.name = arm.name => other = arm
  BY <1>1 DEF Arms, ArmsApart, ToSet
<1>3. ArmNamed(T, arm.name) = arm
  BY <1>1, <1>2 DEF ArmNamed
<1>4. CASE IsTagged(T, w)
  <2> DEFINE tag == Value(w, T.tag)
  <2>1. tag \in DOMAIN T.cases /\ arm = T.cases[tag]
    BY <1>1, <1>4 DEF Chooses, IsTagged
  <2>2. \A u \in DOMAIN T.cases : T.cases[u].name = arm.name => u = tag
    BY <2>1 DEF ArmsApart
  <2>3. (CHOOSE u \in DOMAIN T.cases : T.cases[u].name = arm.name) = tag
    BY <2>1, <2>2
  <2> QED BY <1>3, <1>4, <2>1, <2>3 DEF TagOf
<1>5. CASE ~IsTagged(T, w)
  <2>1. PICK i \in DOMAIN T.rest : arm = T.rest[i]
    BY <1>1, <1>5 DEF Chooses
  <2>2. \A u \in DOMAIN T.cases : T.cases[u].name # arm.name
    BY <2>1 DEF ArmsApart
  <2> QED BY <1>3, <1>5, <2>2 DEF TagOf
<1> QED BY <1>4, <1>5

LEMMA BodyFacts ==
    ASSUME NEW T, ArmsApart(T), NEW w, IsBare(T) \/ Fits(T, w), NEW arm, arm = Selected(T, w),
           NEW v, NEW depth, ~IsBare(T) => v.path[depth] = arm.name
    PROVE  BodyOf(T, v, depth) = arm.body
<1>1. CASE IsBare(T)
  BY <1>1 DEF BodyOf, Selected
<1>2. CASE ~IsBare(T)
  <2>1. ArmNamed(T, arm.name) = arm
    BY <1>2, TagFacts
  <2> QED BY <1>2, <2>1 DEF BodyOf
<1> QED BY <1>1, <1>2

\* The names in the path lead MarshalJSON along the same route.
LEMMA EncodeAlong ==
    ASSUME NEW t \in DOMAIN Schema, Schema[t].kind = "object", NEW r, NEW w,
           Goes(Schema[t], r, w), NEW v, v.path = Trail(Schema[t], r)
    PROVE  LET T == Schema[t]
           IN /\ Encode(T, v) = Overlay(T, v, 1, Overlay(r[1].body, v, 2,
                    Overlay(r[2].body, v, 3, Overlay(r[3].body, v, 4, <<>>))))
              /\ ~IsBare(T) => v.path[1] = r[1].name
              /\ ~IsBare(r[1].body) => v.path[2] = r[2].name
              /\ ~IsBare(r[2].body) => v.path[3] = r[3].name
              /\ RulesAlong(T, v) = RulesOf(T, r)
<1> DEFINE T == Schema[t]
<1>1. /\ r[1] = Selected(T, w) /\ r[2] = Selected(r[1].body, w)
      /\ r[3] = Selected(r[2].body, w)
      /\ ArmsApart(T) /\ ArmsApart(r[1].body) /\ ArmsApart(r[2].body)
      /\ IsBare(T) => r[1] = NoArm /\ IsBare(r[1].body)
      /\ IsBare(r[1].body) => r[2] = NoArm /\ IsBare(r[2].body)
      /\ IsBare(r[2].body) => r[3] = NoArm
  BY GoesFacts
<1>2. /\ IsBare(T) \/ Fits(T, w)
      /\ IsBare(r[1].body) \/ Fits(r[1].body, w)
      /\ IsBare(r[2].body) \/ Fits(r[2].body, w)
  BY DEF Goes
<1>3. T.kind # "plain"
  OBVIOUS
<1>4. v.path = Trail(T, r)
  OBVIOUS
<1> HIDE DEF T
<1>5. /\ ~IsBare(T) => v.path[1] = r[1].name
      /\ ~IsBare(r[1].body) => v.path[2] = r[2].name
      /\ ~IsBare(r[2].body) => v.path[3] = r[3].name
  <2>1. CASE IsBare(r[1].body)
    <3>1. ASSUME ~IsBare(T) PROVE v.path = <<r[1].name>>
      BY <1>4, <2>1, <3>1 DEF Trail
    <3>2. IsBare(r[2].body)
      BY <1>1, <2>1
    <3> QED BY <2>1, <3>1, <3>2
  <2>2. CASE ~IsBare(r[1].body) /\ IsBare(r[2].body)
    <3>1. v.path = <<r[1].name, r[2].name>>
      BY <1>1, <1>4, <2>2 DEF Trail
    <3> QED BY <2>2, <3>1
  <2>3. CASE ~IsBare(r[1].body) /\ ~IsBare(r[2].body)
    <3>1. v.path = <<r[1].name, r[2].name, r[3].name>>
      BY <1>1, <1>4, <2>3 DEF Trail
    <3> QED BY <3>1
  <2> QED BY <2>1, <2>2, <2>3
<1>6. BodyOf(T, v, 1) = r[1].body
  BY <1>1, <1>2, <1>5, BodyFacts
<1>7. BodyOf(r[1].body, v, 2) = r[2].body
  BY <1>1, <1>2, <1>5, BodyFacts
<1>8. BodyOf(r[2].body, v, 3) = r[3].body
  BY <1>1, <1>2, <1>5, BodyFacts
<1>9. Encode(T, v) = Overlay(T, v, 1, Overlay(r[1].body, v, 2,
            Overlay(r[2].body, v, 3, Overlay(r[3].body, v, 4, <<>>))))
  BY <1>3, <1>6, <1>7, <1>8 DEF Encode
<1>10. RulesAlong(T, v) = RulesOf(T, r)
  BY <1>6, <1>7, <1>8 DEF RulesAlong, RulesOf
<1> QED BY <1>5, <1>9, <1>10 DEF T

\* What MarshalJSON has written of these names, and nothing but what it was given.
Written(rules, w, names, o) ==
    /\ \A n \in names : Value(o, n) = Rewritten(rules[n], Value(w, n))
    /\ \A n \in DOMAIN o : n \in DOMAIN rules /\ Value(o, n) = Rewritten(rules[n], Value(w, n))

LEMMA StructWrites ==
    ASSUME NEW rules, NEW w, NEW own, AgreesWith(own, rules), DOMAIN own \subseteq DOMAIN rules
    PROVE  Written(rules, w, DOMAIN own, WriteFields(own, ReadFields(rules, w)))
<1> DEFINE fields == ReadFields(rules, w)
           o == WriteFields(own, fields)
<1>1. ASSUME NEW n \in DOMAIN own
      PROVE  Value(o, n) = Rewritten(rules[n], Value(w, n))
  <2>1. fields[n] = ReadField(rules[n], Value(w, n)) /\ own[n] = rules[n]
    BY DEF ReadFields, AgreesWith
  <2> HIDE DEF fields
  <2> QED BY <2>1 DEF WriteFields, Value, Rewritten
<1>2. DOMAIN o \subseteq DOMAIN own
  BY DEF WriteFields
<1> QED BY <1>1, <1>2 DEF Written

LEMMA OverWrites ==
    ASSUME NEW rules, NEW w, NEW names, NEW upper, Written(rules, w, names, upper),
           NEW more, NEW lower, Written(rules, w, more, lower)
    PROVE  Written(rules, w, names \cup more, Over(upper, lower))
<1> DEFINE o == Over(upper, lower)
<1>1. /\ DOMAIN o = DOMAIN upper \cup DOMAIN lower
      /\ \A n : Value(o, n) = IF n \in DOMAIN upper THEN Value(upper, n) ELSE Value(lower, n)
  BY DEF Over, Value
<1> HIDE DEF o
<1>2. ASSUME NEW n \in DOMAIN o
      PROVE  n \in DOMAIN rules /\ Value(o, n) = Rewritten(rules[n], Value(w, n))
  BY <1>1, <1>2 DEF Written
<1>3. ASSUME NEW n \in names \cup more
      PROVE  Value(o, n) = Rewritten(rules[n], Value(w, n))
  <2>1. CASE n \in DOMAIN o
    BY <1>2, <2>1
  <2>2. CASE n \notin DOMAIN o
    <3>1. Value(o, n) = Value(lower, n) /\ Value(lower, n) = "absent" /\ Value(upper, n) = "absent"
      BY <1>1, <2>2 DEF Value
    <3> QED BY <3>1 DEF Written
  <2> QED BY <2>1, <2>2
<1> QED BY <1>2, <1>3 DEF Written, o

\* One level, over what the levels below have written.
LEMMA LevelWrites ==
    ASSUME NEW rules, NEW w, Ruled(rules, w),
           NEW T, T.kind # "raw", ArmsApart(T), IsBare(T) \/ Fits(T, w),
           AgreesWith(T.own, rules), DOMAIN T.own \subseteq DOMAIN rules,
           IsBare(T) \/ KeepsChoice(T, Selected(T, w), rules),
           NEW v, v.fields = ReadFields(rules, w),
           NEW depth, ~IsBare(T) => v.path[depth] = Selected(T, w).name,
           NEW names, IsBare(T) => names = {},
           NEW inner, ~IsBare(T) => Written(rules, w, names, inner)
    PROVE  Written(rules, w, DOMAIN T.own \cup names, Overlay(T, v, depth, inner))
<1>1. Written(rules, w, DOMAIN T.own, WriteFields(T.own, v.fields))
  BY StructWrites
<1>2. CASE IsBare(T)
  <2>1. Overlay(T, v, depth, inner) = WriteFields(T.own, v.fields)
    BY <1>2 DEF Overlay
  <2>2. DOMAIN T.own \cup names = DOMAIN T.own
    BY <1>2
  <2> QED BY <1>1, <2>1, <2>2
<1>3. CASE ~IsBare(T)
  <2> DEFINE tag == TagOf(T, v.path[depth])
  <2>1. Overlay(T, v, depth, inner) = Over(WriteFields(T.own, v.fields), Over(tag, inner))
    BY <1>3 DEF Overlay
  <2>2. Written(rules, w, {}, tag)
    <3>1. CASE ~IsTagged(T, w)
      <4>1. tag = <<>>
        BY <1>3, <3>1, TagFacts
      <4>2. DOMAIN tag = {}
        BY <4>1
      <4> QED BY <4>2 DEF Written
    <3>2. CASE IsTagged(T, w)
      <4> DEFINE old == Value(w, T.tag)
      <4>1. tag = [n \in {T.tag} |-> old]
        BY <1>3, <3>2, TagFacts
      <4>2. Chooses(T, w, Selected(T, w))
        BY <1>3, SelectedFacts
      <4>3. old \in DOMAIN T.cases /\ old \notin Kinds /\ T.cases[old] = Selected(T, w)
        BY <3>2, <4>2 DEF IsTagged, ArmsApart, Chooses
      <4>4. T.tag \in DOMAIN rules
        BY <1>3, <4>3 DEF KeepsChoice
      <4>5. RuleIsSound(rules[T.tag])
        BY <4>4, RuledFacts, RuleFacts
      <4>6. Rewritten(rules[T.tag], old) = old
        BY <4>3, <4>4, <4>5, RuledFacts, RewritingFacts DEF RuleIsSound
      <4>7. DOMAIN tag = {T.tag} /\ Value(tag, T.tag) = old
        BY <4>1 DEF Value
      <4> QED BY <4>4, <4>6, <4>7 DEF Written
    <3> QED BY <3>1, <3>2
  <2>3. Written(rules, w, {} \cup names, Over(tag, inner))
    BY <1>3, <2>2, OverWrites
  <2>4. Written(rules, w, DOMAIN T.own \cup ({} \cup names), Overlay(T, v, depth, inner))
    BY <1>1, <2>1, <2>3, OverWrites
  <2>5. {} \cup names = names
    OBVIOUS
  <2> QED BY <2>4, <2>5
<1> QED BY <1>2, <1>3

-----------------------------------------------------------------------------
(* A message of known variants.                                            *)

\* A message of a peer.
Clean(w) ==
    /\ w = [name \in DOMAIN w |-> w[name]]
    /\ \A name \in DOMAIN w : Wired(w[name])
    /\ ScopesFit(w)

\* Every field of what was decoded is written by the rule it was read by.
LEMMA EncodePasses ==
    ASSUME NEW t \in DOMAIN Schema, Schema[t].kind = "object", NEW r, NEW w,
           Goes(Schema[t], r, w), ~IsRawRoute(r), Clean(w),
           NEW v, v.path = Trail(Schema[t], r),
           v.fields = ReadFields(RulesOf(Schema[t], r), w)
    PROVE  /\ Ruled(RulesOf(Schema[t], r), w)
           /\ Passes(RulesOf(Schema[t], r), w, Encode(Schema[t], v))
<1> DEFINE T == Schema[t]
           rules == RulesOf(T, r)
           Names3 == DOMAIN r[3].body.own
           Names2 == DOMAIN r[2].body.own \cup Names3
           Names1 == DOMAIN r[1].body.own \cup Names2
           Names0 == DOMAIN T.own \cup Names1
           o3 == Overlay(r[3].body, v, 4, <<>>)
           o2 == Overlay(r[2].body, v, 3, o3)
           o1 == Overlay(r[1].body, v, 2, o2)
           o0 == Overlay(T, v, 1, o1)
<1>1. /\ r[1] = Selected(T, w) /\ r[2] = Selected(r[1].body, w)
      /\ r[3] = Selected(r[2].body, w)
      /\ ArmsApart(T) /\ ArmsApart(r[1].body) /\ ArmsApart(r[2].body)
      /\ IsBare(r[3].body)
      /\ IsBare(T) => r[1] = NoArm /\ IsBare(r[1].body)
      /\ IsBare(r[1].body) => r[2] = NoArm /\ IsBare(r[2].body)
      /\ IsBare(r[2].body) => r[3] = NoArm
      /\ r \in Routes(T)
  BY GoesFacts
<1>2. /\ IsBare(T) \/ Fits(T, w)
      /\ IsBare(r[1].body) \/ Fits(r[1].body, w)
      /\ IsBare(r[2].body) \/ Fits(r[2].body, w)
  BY DEF Goes
<1>3. /\ DOMAIN rules = Names0
      /\ AgreesWith(T.own, rules)
      /\ \A i \in 1..3 : AgreesWith(r[i].body.own, rules)
      /\ \A name \in DOMAIN rules : rules[name] \in FieldRules
  BY <1>1, RulesFacts
<1>4. /\ T.kind # "raw" /\ r[1].body.kind # "raw" /\ r[2].body.kind # "raw" /\ r[3].body.kind # "raw"
  BY DEF IsRawRoute
<1>5. SoundRoute(t, r)
  BY <1>1, SchemaAssumption
<1>6. /\ KeepsChoice(T, r[1], rules)
      /\ KeepsChoice(r[1].body, r[2], rules)
      /\ KeepsChoice(r[2].body, r[3], rules)
  BY <1>5 DEF SoundRoute, IsRawRoute
<1>7. Ruled(rules, w)
  BY <1>1, <1>3, AcceptsRules DEF Ruled, Clean
<1>8. /\ Encode(T, v) = o0
      /\ ~IsBare(T) => v.path[1] = r[1].name
      /\ ~IsBare(r[1].body) => v.path[2] = r[2].name
      /\ ~IsBare(r[2].body) => v.path[3] = r[3].name
  BY EncodeAlong
<1>9. /\ IsBare(r[2].body) => Names3 = {}
      /\ IsBare(r[1].body) => Names2 = {}
      /\ IsBare(T) => Names1 = {}
  <2>1. DOMAIN NoArm.body.own = {}
    BY BareFacts
  <2> QED BY <1>1, <2>1
<1>10. v.fields = ReadFields(rules, w)
  OBVIOUS
<1>11. /\ DOMAIN T.own \subseteq DOMAIN rules /\ DOMAIN r[1].body.own \subseteq DOMAIN rules
       /\ DOMAIN r[2].body.own \subseteq DOMAIN rules /\ DOMAIN r[3].body.own \subseteq DOMAIN rules
       /\ AgreesWith(r[1].body.own, rules) /\ AgreesWith(r[2].body.own, rules)
       /\ AgreesWith(r[3].body.own, rules)
  BY <1>3
<1> HIDE DEF T, rules
<1>12. Written(rules, w, Names3, o3)
  <2>1. o3 = WriteFields(r[3].body.own, ReadFields(rules, w))
    BY <1>1, <1>4, <1>10 DEF Overlay
  <2> QED BY <1>11, <2>1, StructWrites
<1> HIDE DEF o3, Names3
<1>13. Written(rules, w, Names2, o2)
  BY <1>1, <1>2, <1>4, <1>6, <1>7, <1>8, <1>9, <1>10, <1>11, <1>12, LevelWrites
<1> HIDE DEF o2, Names2
<1>14. Written(rules, w, Names1, o1)
  BY <1>1, <1>2, <1>4, <1>6, <1>7, <1>8, <1>9, <1>10, <1>11, <1>13, LevelWrites
<1> HIDE DEF o1, Names1
<1>15. Written(rules, w, Names0, o0)
  BY <1>1, <1>2, <1>3, <1>4, <1>6, <1>7, <1>8, <1>9, <1>10, <1>11, <1>14, LevelWrites
<1>16. Passes(rules, w, o0)
  <2>1. \A n : n \notin DOMAIN o0 => Value(o0, n) = "absent"
    BY DEF Value
  <2> QED BY <1>3, <1>15, <2>1 DEF Passes, Written
<1> QED BY <1>7, <1>8, <1>16 DEF T, rules

\* SentArrives for them: what was decoded is sent as the same variants and
\* read with the same fields.
LEMMA RoundTrip ==
    ASSUME NEW t \in DOMAIN Schema, Schema[t].kind = "object", NEW r, NEW w,
           Goes(Schema[t], r, w), ~IsRawRoute(r), Clean(w),
           NEW u, Passes(RulesOf(Schema[t], r), w, u),
           Writable(RulesOf(Schema[t], r), ReadFields(RulesOf(Schema[t], r), w)),
           ~LosesScope(r[1], RulesOf(Schema[t], r), w)
    PROVE  LET T == Schema[t]
           IN /\ Decode(T, u) # Invalid
              /\ Decode(T, u).path = Trail(T, r)
              /\ Same(OmittedWhenEmpty(RulesOf(T, r)), ReadFields(RulesOf(T, r), w),
                      Decode(T, u).fields)
<1> DEFINE T == Schema[t]
           rules == RulesOf(T, r)
<1>1. /\ r[1] = Selected(T, w) /\ r[2] = Selected(r[1].body, w)
      /\ r[3] = Selected(r[2].body, w)
      /\ ArmsApart(T) /\ ArmsApart(r[1].body) /\ ArmsApart(r[2].body)
      /\ IsBare(r[3].body)
      /\ r \in Routes(T)
  BY GoesFacts
<1>2. /\ IsBare(T) \/ Fits(T, w)
      /\ IsBare(r[1].body) \/ Fits(r[1].body, w)
      /\ IsBare(r[2].body) \/ Fits(r[2].body, w)
      /\ r = Route(T, w)
  BY DEF Goes
<1>3. SoundRoute(t, r)
  BY <1>1, SchemaAssumption
<1>4. /\ KeepsChoice(T, r[1], rules)
      /\ KeepsChoice(r[1].body, r[2], rules)
      /\ KeepsChoice(r[2].body, r[3], rules)
      /\ ~HasNullScope(r[2]) /\ ~HasNullScope(r[3])
  BY <1>3 DEF SoundRoute, IsRawRoute
<1>5. Ruled(rules, w) /\ Passes(rules, w, u) /\ ScopesFit(w)
      /\ ~LosesScope(r[1], rules, w) /\ Writable(rules, ReadFields(rules, w))
  <2>1. \A name \in DOMAIN rules : rules[name] \in FieldRules
    BY <1>1, RulesFacts
  <2> QED BY <1>1, <2>1, AcceptsRules DEF Clean, Ruled
<1>6. ~LosesScope(r[2], rules, w) /\ ~LosesScope(r[3], rules, w)
  BY <1>4 DEF LosesScope
<1>7. /\ Accepts(rules, u)
      /\ Same(OmittedWhenEmpty(rules), ReadFields(rules, w), ReadFields(rules, u))
  BY <1>5, PassedArrives
<1>8. Accepts(T.own, u) /\ \A i \in 1..3 : Accepts(r[i].body.own, u)
  BY <1>1, <1>7, AcceptsRules
<1> HIDE DEF rules, T
<1>9. Selected(T, u) = r[1] /\ (IsBare(T) \/ Fits(T, u))
  <2>1. CASE IsBare(T)
    BY <1>1, <2>1 DEF Selected
  <2>2. CASE ~IsBare(T)
    BY <1>1, <1>2, <1>4, <1>5, <2>2, ChoiceKept
  <2> QED BY <2>1, <2>2
<1>10. Selected(r[1].body, u) = r[2] /\ (IsBare(r[1].body) \/ Fits(r[1].body, u))
  <2>1. CASE IsBare(r[1].body)
    BY <1>1, <2>1 DEF Selected
  <2>2. CASE ~IsBare(r[1].body)
    BY <1>1, <1>2, <1>4, <1>5, <1>6, <2>2, ChoiceKept
  <2> QED BY <2>1, <2>2
<1>11. Selected(r[2].body, u) = r[3] /\ (IsBare(r[2].body) \/ Fits(r[2].body, u))
  <2>1. CASE IsBare(r[2].body)
    BY <1>1, <2>1 DEF Selected
  <2>2. CASE ~IsBare(r[2].body)
    BY <1>1, <1>2, <1>4, <1>5, <1>6, <2>2, ChoiceKept
  <2> QED BY <2>1, <2>2
<1>12. r = <<r[1], r[2], r[3]>>
  BY <1>2 DEF Route
<1>13. Goes(T, r, u)
  <2>1. Route(T, u) = <<r[1], r[2], r[3]>>
    BY <1>9, <1>10, <1>11 DEF Route
  <2> QED BY <1>8, <1>9, <1>10, <1>11, <1>12, <2>1 DEF Goes
<1>14. /\ Decode(T, u) # Invalid /\ Decode(T, u).path = Trail(T, r)
       /\ Decode(T, u).fields = ReadFields(rules, u)
  BY <1>1, <1>13, GoesDecodes DEF T, rules
<1> QED BY <1>7, <1>14 DEF T, rules

-----------------------------------------------------------------------------
(* A message of a variant the program does not know.                       *)

\* The fields around it are read and written as they are.
LEMMA VerbatimFacts ==
    ASSUME NEW own, NEW w, Accepts(own, w), \A name \in DOMAIN w : Wired(w[name]),
           \A name \in DOMAIN own : own[name] \in FieldRules /\ Verbatim(own[name])
    PROVE  /\ DOMAIN own \subseteq DOMAIN w
           /\ ReadFields(own, w) = [name \in DOMAIN own |-> w[name]]
           /\ WriteFields(own, w) = [name \in DOMAIN own |-> w[name]]
<1>1. ASSUME NEW name \in DOMAIN own
      PROVE  /\ name \in DOMAIN w /\ ReadField(own[name], Value(w, name)) = w[name]
             /\ w[name] \notin own[name].omits /\ WriteField(w[name]) = w[name]
  <2> DEFINE rule == own[name]
  <2>1. RuleIsSound(rule) /\ Verbatim(rule)
    BY RuleFacts
  <2>2. ReadField(rule, Value(w, name)) # Refused
    BY DEF Accepts, ReadFields
  <2>3. name \in DOMAIN w
    <3>1. ReadField(rule, "absent") = Refused
      BY <2>1 DEF RuleIsSound, Verbatim, ReadField
    <3> QED BY <2>2, <3>1 DEF Value
  <2>4. Value(w, name) = w[name] /\ Wired(w[name])
    BY <2>3 DEF Value
  <2>5. ReadField(rule, w[name]) = w[name]
    BY <2>1, <2>2, <2>4 DEF Verbatim, Accepted, ReadField
  <2>6. w[name] # "unset" /\ rule.omits = {"unset"}
    BY <2>1, <2>4 DEF Wired, Verbatim
  <2> QED BY <2>3, <2>4, <2>5, <2>6 DEF WriteField
<1>2. DOMAIN own \subseteq DOMAIN w
  BY <1>1
<1>3. ReadFields(own, w) = [name \in DOMAIN own |-> w[name]]
  BY <1>1 DEF ReadFields
<1>4. {n \in DOMAIN own : w[n] \notin own[n].omits} = DOMAIN own
  BY <1>1
<1>5. WriteFields(own, w) = [name \in DOMAIN own |-> w[name]]
  BY <1>1, <1>4 DEF WriteFields
<1> QED BY <1>2, <1>3, <1>5

\* A level around it.
LEMMA LevelIsVerbatim ==
    ASSUME NEW T, T.kind # "raw", ArmsApart(T), ~IsBare(T), NEW w, Clean(w),
           Accepts(T.own, w), Fits(T, w),
           \A name \in DOMAIN T.own : T.own[name] \in FieldRules /\ Verbatim(T.own[name])
    PROVE  /\ \A inner :
                Join(T, w, inner) # Invalid /\ inner.fields = w => Join(T, w, inner).fields = w
           /\ \A v, depth :
                v.fields = w /\ v.path[depth] = Selected(T, w).name =>
                    Overlay(T, v, depth, w) = w
<1>1. /\ DOMAIN T.own \subseteq DOMAIN w
      /\ ReadFields(T.own, w) = [name \in DOMAIN T.own |-> w[name]]
      /\ WriteFields(T.own, w) = [name \in DOMAIN T.own |-> w[name]]
  BY VerbatimFacts DEF Clean
<1>2. w = [name \in DOMAIN w |-> w[name]]
  BY DEF Clean
<1>3. \A part : DOMAIN part \subseteq DOMAIN w /\ (\A n \in DOMAIN part : part[n] = w[n])
            => Over(part, w) = w
  <2> SUFFICES ASSUME NEW part, DOMAIN part \subseteq DOMAIN w,
                      \A n \in DOMAIN part : part[n] = w[n]
               PROVE  Over(part, w) = w
    OBVIOUS
  <2>1. DOMAIN part \cup DOMAIN w = DOMAIN w
    OBVIOUS
  <2>2. Over(part, w) = [n \in DOMAIN w |-> w[n]]
    BY <2>1 DEF Over
  <2> QED BY <1>2, <2>2
<1>4. ASSUME NEW inner, Join(T, w, inner) # Invalid, inner.fields = w
      PROVE  Join(T, w, inner).fields = w
  <2>1. Join(T, w, inner).fields = Over(ReadFields(T.own, w), w)
    BY <1>4 DEF Join
  <2> QED BY <1>1, <1>3, <2>1
<1>5. ASSUME NEW v, NEW depth, v.fields = w, v.path[depth] = Selected(T, w).name
      PROVE  Overlay(T, v, depth, w) = w
  <2> DEFINE tag == TagOf(T, v.path[depth])
  <2>1. Overlay(T, v, depth, w) = Over(WriteFields(T.own, w), Over(tag, w))
    BY <1>5 DEF Overlay
  <2>2. DOMAIN tag \subseteq DOMAIN w /\ \A n \in DOMAIN tag : tag[n] = w[n]
    <3>1. CASE ~IsTagged(T, w)
      <4>1. tag = <<>>
        BY <1>5, <3>1, TagFacts
      <4> QED BY <4>1
    <3>2. CASE IsTagged(T, w)
      <4>1. tag = [n \in {T.tag} |-> Value(w, T.tag)]
        BY <1>5, <3>2, TagFacts
      <4>2. Value(w, T.tag) # "absent"
        BY <3>2 DEF IsTagged, ArmsApart, Kinds
      <4>3. T.tag \in DOMAIN w /\ Value(w, T.tag) = w[T.tag]
        BY <4>2 DEF Value
      <4> QED BY <4>1, <4>3
    <3> QED BY <3>1, <3>2
  <2>3. Over(tag, w) = w
    BY <1>3, <2>2
  <2> QED BY <1>1, <1>3, <2>1, <2>3
<1> QED BY <1>4, <1>5

\* It stays as it came.
LEMMA RawRoundTrip ==
    ASSUME NEW t \in DOMAIN Schema, Schema[t].kind = "object", NEW w, Clean(w),
           Decode(Schema[t], w) # Invalid, IsRawRoute(Route(Schema[t], w))
    PROVE  /\ Decode(Schema[t], w).fields = w
           /\ Encode(Schema[t], Decode(Schema[t], w)) = w
<1> DEFINE T == Schema[t]
           r == Route(T, w)
           v == Decode(T, w)
           rules == RulesOf(T, r)
           join3 == Join(r[3].body, w, Invalid)
           join2 == Join(r[2].body, w, join3)
           join1 == Join(r[1].body, w, join2)
<1>1. /\ r \in Routes(T) /\ Goes(T, r, w) /\ v.path = Trail(T, r)
      /\ \A i \in 1..3 : IF r[i].name = "Other" THEN r[i].body = Raw
                                                ELSE r[i].body.kind = "object"
  BY DecodeGoes
<1>2. /\ r[1] = Selected(T, w) /\ r[2] = Selected(r[1].body, w)
      /\ r[3] = Selected(r[2].body, w)
      /\ ArmsApart(T) /\ ArmsApart(r[1].body) /\ ArmsApart(r[2].body)
      /\ IsBare(r[3].body)
      /\ IsBare(T) => r[1] = NoArm /\ IsBare(r[1].body)
      /\ IsBare(r[1].body) => r[2] = NoArm /\ IsBare(r[2].body)
      /\ IsBare(r[2].body) => r[3] = NoArm
  BY <1>1, GoesFacts
<1>3. /\ Accepts(T.own, w) /\ \A i \in 1..3 : Accepts(r[i].body.own, w)
      /\ IsBare(T) \/ Fits(T, w)
      /\ IsBare(r[1].body) \/ Fits(r[1].body, w)
      /\ IsBare(r[2].body) \/ Fits(r[2].body, w)
  BY <1>1 DEF Goes
<1>4. \A name \in DOMAIN rules : Verbatim(rules[name]) /\ rules[name] \in FieldRules
  <2>1. SoundRoute(t, r)
    BY <1>1, SchemaAssumption
  <2>2. \A name \in DOMAIN rules : Verbatim(rules[name])
    BY <2>1 DEF SoundRoute, IsRawRoute
  <2> QED BY <1>1, <2>2, RulesFacts
<1>5. /\ DOMAIN rules = DOMAIN T.own \cup (DOMAIN r[1].body.own
              \cup (DOMAIN r[2].body.own \cup DOMAIN r[3].body.own))
      /\ AgreesWith(T.own, rules)
      /\ \A i \in 1..3 : AgreesWith(r[i].body.own, rules)
  BY <1>1, RulesFacts
<1>6. /\ \A n \in DOMAIN T.own : T.own[n] \in FieldRules /\ Verbatim(T.own[n])
      /\ \A n \in DOMAIN r[1].body.own :
            r[1].body.own[n] \in FieldRules /\ Verbatim(r[1].body.own[n])
      /\ \A n \in DOMAIN r[2].body.own :
            r[2].body.own[n] \in FieldRules /\ Verbatim(r[2].body.own[n])
  <2> HIDE DEF rules, r, T
  <2> QED BY <1>4, <1>5 DEF AgreesWith
<1>7. v = Join(T, w, join1)
  BY DEF Decode, Route
<1>8. /\ Encode(T, v) = Overlay(T, v, 1, Overlay(r[1].body, v, 2,
            Overlay(r[2].body, v, 3, Overlay(r[3].body, v, 4, <<>>))))
      /\ ~IsBare(T) => v.path[1] = r[1].name
      /\ ~IsBare(r[1].body) => v.path[2] = r[2].name
      /\ ~IsBare(r[2].body) => v.path[3] = r[3].name
  BY <1>1, EncodeAlong
<1>9. v # Invalid /\ T.kind # "raw" /\ Clean(w)
  OBVIOUS
<1>10. r[1].body.kind = "raw" \/ r[2].body.kind = "raw" \/ r[3].body.kind = "raw"
  BY DEF IsRawRoute
<1>11. /\ \A inner : Join(Raw, w, inner).fields = w
       /\ \A x, depth, inner : x.fields = w => Overlay(Raw, x, depth, inner) = w
  BY BareFacts DEF Join, Overlay, WriteRaw
<1>12. NoArm.body.kind # "raw" /\ NoArm.body.kind = "object" /\ IsBare(Raw) /\ Raw.kind = "raw"
  BY BareFacts
<1>13. /\ ~IsBare(T) => join1 # Invalid
       /\ ~IsBare(T) /\ ~IsBare(r[1].body) => join2 # Invalid
       /\ ~IsBare(T) /\ ~IsBare(r[1].body) /\ ~IsBare(r[2].body) => join3 # Invalid
  <2>1. /\ ~IsBare(r[1].body) => r[1].body.kind # "raw"
        /\ ~IsBare(r[2].body) => r[2].body.kind # "raw"
    BY <1>1, <1>12
  <2> HIDE DEF r, T, v, join3
  <2>2. ~IsBare(T) => join1 # Invalid
    BY <1>7, <1>9 DEF Join
  <2>3. ~IsBare(T) /\ ~IsBare(r[1].body) => join2 # Invalid
    BY <2>1, <2>2 DEF Join
  <2> QED BY <2>1, <2>2, <2>3 DEF Join
<1> HIDE DEF T, r, v, rules, join1, join2, join3
<1>14. CASE r[1].body.kind = "raw"
  <2>1. r[1].body = Raw /\ ~IsBare(T)
    BY <1>1, <1>2, <1>12, <1>14
  <2>2. join1.fields = w
    BY <1>11, <2>1 DEF join1
  <2>3. v.fields = w
    BY <1>2, <1>3, <1>6, <1>7, <1>9, <2>1, <2>2, LevelIsVerbatim
  <2>4. Overlay(T, v, 1, w) = w
    BY <1>2, <1>3, <1>6, <1>8, <1>9, <2>1, <2>3, LevelIsVerbatim
  <2> QED BY <1>8, <1>11, <2>1, <2>3, <2>4 DEF T, v
<1>15. CASE r[2].body.kind = "raw"
  <2>1. r[2].body = Raw /\ ~IsBare(T) /\ ~IsBare(r[1].body) /\ r[1].body.kind # "raw"
    BY <1>1, <1>2, <1>12, <1>15
  <2>2. join2.fields = w
    BY <1>11, <2>1 DEF join2
  <2>3. join1.fields = w
    BY <1>2, <1>3, <1>6, <1>9, <1>13, <2>1, <2>2, LevelIsVerbatim DEF join1
  <2>4. v.fields = w
    BY <1>2, <1>3, <1>6, <1>7, <1>9, <2>1, <2>3, LevelIsVerbatim
  <2>5. Overlay(r[1].body, v, 2, w) = w
    BY <1>2, <1>3, <1>6, <1>8, <1>9, <2>1, <2>4, LevelIsVerbatim
  <2>6. Overlay(T, v, 1, w) = w
    BY <1>2, <1>3, <1>6, <1>8, <1>9, <2>1, <2>4, LevelIsVerbatim
  <2> QED BY <1>8, <1>11, <2>1, <2>4, <2>5, <2>6 DEF T, v
<1>16. CASE r[3].body.kind = "raw"
  <2>1. /\ r[3].body = Raw /\ ~IsBare(T) /\ ~IsBare(r[1].body) /\ ~IsBare(r[2].body)
        /\ r[1].body.kind # "raw" /\ r[2].body.kind # "raw"
    BY <1>1, <1>2, <1>12, <1>16
  <2>2. join3.fields = w
    BY <1>11, <2>1 DEF join3
  <2>3. join2.fields = w
    BY <1>2, <1>3, <1>6, <1>9, <1>13, <2>1, <2>2, LevelIsVerbatim DEF join2
  <2>4. join1.fields = w
    BY <1>2, <1>3, <1>6, <1>9, <1>13, <2>1, <2>3, LevelIsVerbatim DEF join1
  <2>5. v.fields = w
    BY <1>2, <1>3, <1>6, <1>7, <1>9, <2>1, <2>4, LevelIsVerbatim
  <2>6. Overlay(r[2].body, v, 3, w) = w /\ Overlay(r[1].body, v, 2, w) = w
    BY <1>2, <1>3, <1>6, <1>8, <1>9, <2>1, <2>5, LevelIsVerbatim
  <2>7. Overlay(T, v, 1, w) = w
    BY <1>2, <1>3, <1>6, <1>8, <1>9, <2>1, <2>5, LevelIsVerbatim
  <2> QED BY <1>8, <1>11, <2>1, <2>5, <2>6, <2>7 DEF T, v
<1> QED BY <1>10, <1>14, <1>15, <1>16

\* Its path ends with Other.
LEMMA RawFacts ==
    ASSUME NEW t \in DOMAIN Schema, Schema[t].kind = "object", NEW w,
           Decode(Schema[t], w) # Invalid
    PROVE  /\ IsRaw(Decode(Schema[t], w)) <=> IsRawRoute(Route(Schema[t], w))
           /\ IsBare(Schema[t]) => Decode(Schema[t], w).path = <<>>
           /\ ~IsBare(Schema[t]) =>
                /\ Fits(Schema[t], w)
                /\ Decode(Schema[t], w).path[1] = Selected(Schema[t], w).name
<1> DEFINE T == Schema[t]
           r == Route(T, w)
           v == Decode(T, w)
<1>1. /\ Goes(T, r, w) /\ v.path = Trail(T, r)
      /\ \A i \in 1..3 : IF r[i].name = "Other" THEN r[i].body = Raw
                                                ELSE r[i].body.kind = "object"
  BY DecodeGoes
<1>2. /\ r[1] = Selected(T, w)
      /\ IsBare(T) => r[1] = NoArm /\ IsBare(r[1].body)
      /\ IsBare(r[1].body) => r[2] = NoArm /\ IsBare(r[2].body)
      /\ IsBare(r[2].body) => r[3] = NoArm
  BY <1>1, GoesFacts
<1>3. /\ NoArm.body.kind = "object" /\ NoArm.name # "Other" /\ Raw.kind = "raw" /\ IsBare(Raw)
  BY BareFacts
<1>4. IsBare(T) \/ Fits(T, w)
  BY <1>1 DEF Goes
<1> HIDE DEF T, r, v
<1>5. /\ r[1].body.kind = "raw" <=> r[1].name = "Other"
      /\ r[2].body.kind = "raw" <=> r[2].name = "Other"
      /\ r[3].body.kind = "raw" <=> r[3].name = "Other"
  BY <1>1, <1>3
<1>6. IsRawRoute(r) <=>
        r[1].name = "Other" \/ r[2].name = "Other" \/ r[3].name = "Other"
  <2>1. \A i \in 1..3 : i = 1 \/ i = 2 \/ i = 3
    OBVIOUS
  <2> QED BY <1>5, <2>1 DEF IsRawRoute
<1>7. /\ r[1].name = "Other" => IsBare(r[1].body)
      /\ r[2].name = "Other" => IsBare(r[2].body)
  BY <1>1, <1>3
<1>8. CASE IsBare(T)
  <2>1. v.path = <<>>
    BY <1>1, <1>8 DEF Trail
  <2>2. ~IsRawRoute(r)
    BY <1>2, <1>3, <1>6, <1>8
  <2> QED BY <1>8, <2>1, <2>2 DEF IsRaw, T, r, v
<1>9. CASE ~IsBare(T) /\ IsBare(r[1].body)
  <2>1. v.path = <<r[1].name>>
    BY <1>1, <1>9 DEF Trail
  <2>2. v.path # <<>> /\ Last(v.path) = r[1].name /\ v.path[1] = r[1].name
    BY <2>1 DEF Last
  <2>3. IsRawRoute(r) <=> r[1].name = "Other"
    BY <1>2, <1>3, <1>6, <1>9
  <2> QED BY <1>2, <1>4, <1>9, <2>2, <2>3 DEF IsRaw, T, r, v
<1>10. CASE ~IsBare(T) /\ ~IsBare(r[1].body) /\ IsBare(r[2].body)
  <2>1. v.path = <<r[1].name, r[2].name>>
    BY <1>1, <1>10 DEF Trail
  <2>2. v.path # <<>> /\ Last(v.path) = r[2].name /\ v.path[1] = r[1].name
    BY <2>1 DEF Last
  <2>3. IsRawRoute(r) <=> r[2].name = "Other"
    BY <1>2, <1>3, <1>6, <1>7, <1>10
  <2> QED BY <1>2, <1>4, <1>10, <2>2, <2>3 DEF IsRaw, T, r, v
<1>11. CASE ~IsBare(T) /\ ~IsBare(r[1].body) /\ ~IsBare(r[2].body)
  <2>1. v.path = <<r[1].name, r[2].name, r[3].name>>
    BY <1>1, <1>11 DEF Trail
  <2>2. v.path # <<>> /\ Last(v.path) = r[3].name /\ v.path[1] = r[1].name
    BY <2>1 DEF Last
  <2>3. IsRawRoute(r) <=> r[3].name = "Other"
    BY <1>6, <1>7, <1>11
  <2> QED BY <1>2, <1>4, <1>11, <2>2, <2>3 DEF IsRaw, T, r, v
<1> QED BY <1>8, <1>9, <1>10, <1>11

-----------------------------------------------------------------------------
(* A message with a malformed field.                                       *)

\* To a union it is the message without that field.
LEMMA OmissionKeepsChoice ==
    ASSUME NEW T, ArmsApart(T), NEW w, NEW name \in DOMAIN w, w[name] = "bad"
    PROVE  /\ Selected(T, Without(w, name)) = Selected(T, w)
           /\ Fits(T, Without(w, name)) = Fits(T, w)
<1> DEFINE u == Without(w, name)
<1>1. /\ \A n : n # name => Value(u, n) = Value(w, n)
      /\ Value(u, name) = "absent" /\ Value(w, name) = "bad"
  BY DEF Value, Without
<1> HIDE DEF u
<1>2. \A n : /\ IsStrict(Value(u, n)) = IsStrict(Value(w, n))
             /\ (Value(u, n) = "null") = (Value(w, n) = "null")
  BY <1>1 DEF IsStrict
<1>3. \A nullable : Scopes(nullable, u) = Scopes(nullable, w)
  BY <1>2 DEF Scopes
<1>4. \A arm : Matches(arm, u) = Matches(arm, w)
  BY <1>2, <1>3 DEF Matches
<1>5. /\ IsTagged(T, u) = IsTagged(T, w)
      /\ IsTagged(T, w) => Value(u, T.tag) = Value(w, T.tag)
  <2>1. "absent" \notin DOMAIN T.cases /\ "bad" \notin DOMAIN T.cases
    BY DEF ArmsApart, Kinds
  <2> QED BY <1>1, <2>1 DEF IsTagged
<1>6. Candidates(T, u) = Candidates(T, w)
  BY <1>5 DEF Candidates
<1>7. \A arms : FirstMatch(arms, u) = FirstMatch(arms, w)
  <2> TAKE arms
  <2>1. {i \in 1..Len(arms) : Matches(arms[i], u)} = {i \in 1..Len(arms) : Matches(arms[i], w)}
    BY <1>4
  <2> QED BY <2>1 DEF FirstMatch, SelectInSeq
<1>8. Fits(T, u) = Fits(T, w)
  BY <1>6, <1>7 DEF Fits
<1> QED BY <1>6, <1>7, <1>8 DEF Selected, u

LEMMA DecodedIsPair ==
    ASSUME NEW T, T.kind = "object", NEW w
    PROVE  Decode(T, w) = [path |-> Decode(T, w).path, fields |-> Decode(T, w).fields]
<1> DEFINE body1 == Selected(T, w).body
           body2 == Selected(body1, w).body
           body3 == Selected(body2, w).body
           inner == Join(body1, w, Join(body2, w, Join(body3, w, Invalid)))
<1>1. Decode(T, w) = Join(T, w, inner)
  BY DEF Decode
<1> HIDE DEF inner
<1>2. Join(T, w, inner) = [path |-> Join(T, w, inner).path, fields |-> Join(T, w, inner).fields]
  <2>1. CASE ~Accepts(T.own, w)
    <3>1. Join(T, w, inner) = [path |-> <<"refused">>, fields |-> <<>>]
      BY <2>1 DEF Join, Invalid
    <3> QED BY <3>1
  <2>2. CASE Accepts(T.own, w) /\ IsBare(T)
    <3>1. Join(T, w, inner) = [path |-> <<>>, fields |-> ReadFields(T.own, w)]
      BY <2>2 DEF Join
    <3> QED BY <3>1
  <2>3. CASE Accepts(T.own, w) /\ ~IsBare(T) /\ (~Fits(T, w) \/ inner = Invalid)
    <3>1. Join(T, w, inner) = [path |-> <<"refused">>, fields |-> <<>>]
      BY <2>3 DEF Join, Invalid
    <3> QED BY <3>1
  <2>4. CASE Accepts(T.own, w) /\ ~IsBare(T) /\ Fits(T, w) /\ inner # Invalid
    <3>1. Join(T, w, inner) =
            [path   |-> <<Selected(T, w).name>> \o inner.path,
             fields |-> Over(ReadFields(T.own, w), inner.fields)]
      BY <2>4 DEF Join
    <3> QED BY <3>1
  <2> QED BY <2>1, <2>2, <2>3, <2>4
<1> QED BY <1>1, <1>2

LEMMA OmissionDecodes ==
    ASSUME NEW t \in DOMAIN Schema, Schema[t].kind = "object", NEW w,
           Decode(Schema[t], w) # Invalid, ~IsRawRoute(Route(Schema[t], w)),
           NEW name \in DOMAIN w, w[name] = "bad", Judged(Schema[t], name),
           ~(t = <<"v2", "ListSessionsResponse">> /\ name = "sessions")
    PROVE  Decode(Schema[t], Without(w, name)) = Decode(Schema[t], w)
<1> DEFINE T == Schema[t]
           r == Route(T, w)
           rules == RulesOf(T, r)
           u == Without(w, name)
<1>1. Goes(T, r, w) /\ Decode(T, w).path = Trail(T, r) /\ r \in Routes(T)
  BY DecodeGoes
<1>2. /\ r[1] = Selected(T, w) /\ r[2] = Selected(r[1].body, w)
      /\ r[3] = Selected(r[2].body, w)
      /\ ArmsApart(T) /\ ArmsApart(r[1].body) /\ ArmsApart(r[2].body)
      /\ IsBare(r[3].body)
  BY <1>1, GoesFacts
<1>3. Accepts(rules, w)
  BY <1>1, AcceptsRules
<1>4. name \in DOMAIN rules =>
            /\ rules[name] \in FieldRules /\ rules[name] \in StructRules
            /\ "bad" \in DOMAIN rules[name].reads
  BY <1>1, RulesFacts DEF Judged
<1>5. Accepts(rules, u) /\ ReadFields(rules, u) = ReadFields(rules, w)
  BY <1>3, <1>4, MalformedIsOmitted
<1>6. Accepts(T.own, u) /\ \A i \in 1..3 : Accepts(r[i].body.own, u)
  BY <1>1, <1>5, AcceptsRules
<1>7. /\ Selected(T, u) = r[1] /\ Fits(T, u) = Fits(T, w)
      /\ Selected(r[1].body, u) = r[2] /\ Fits(r[1].body, u) = Fits(r[1].body, w)
      /\ Selected(r[2].body, u) = r[3] /\ Fits(r[2].body, u) = Fits(r[2].body, w)
  BY <1>2, OmissionKeepsChoice
<1>8. Goes(T, r, u)
  <2>1. r = <<r[1], r[2], r[3]>>
    BY DEF Route
  <2>2. Route(T, u) = <<r[1], r[2], r[3]>>
    BY <1>7 DEF Route
  <2> QED BY <1>1, <1>6, <1>7, <2>1, <2>2 DEF Goes
<1>9. /\ Decode(T, u) # Invalid /\ Decode(T, u).path = Trail(T, r)
      /\ Decode(T, u).fields = ReadFields(rules, u)
  BY <1>1, <1>2, <1>8, GoesDecodes
<1>10. Decode(T, w).fields = ReadFields(rules, w)
  BY <1>1, <1>2, GoesDecodes
<1>11. /\ Decode(T, u) = [path |-> Decode(T, u).path, fields |-> Decode(T, u).fields]
       /\ Decode(T, w) = [path |-> Decode(T, w).path, fields |-> Decode(T, w).fields]
  BY DecodedIsPair
<1> HIDE DEF T, r, rules, u
<1>12. Decode(T, u) = Decode(T, w)
  BY <1>1, <1>5, <1>9, <1>10, <1>11
<1> QED BY <1>12 DEF T, u

-----------------------------------------------------------------------------
(* A plain value.                                                          *)

LEMMA FirstFormFacts ==
    ASSUME NEW S, NEW forms \in Seq(S), NEW w, FirstForm(forms, w) # 0
    PROVE  /\ FirstForm(forms, w) \in DOMAIN forms
           /\ w \in forms[FirstForm(forms, w)].takes
<1> DEFINE I == {i \in 1..Len(forms) : w \in forms[i].takes}
<1>1. FirstForm(forms, w) = IF I # {} THEN Min(I) ELSE 0
  BY DEF FirstForm, SelectInSeq
<1>2. I \in SUBSET Nat /\ DOMAIN forms = 1..Len(forms) /\ I # {}
  BY <1>1
<1>3. Min(I) \in I
  BY <1>2, MinFacts
<1> QED BY <1>1, <1>2, <1>3

\* It comes back in the form it was read in, but for numbers like 3.0.
LEMMA PlainRoundTrip ==
    ASSUME NEW t \in DOMAIN Schema, Schema[t].kind = "plain", NEW w,
           Decode(Schema[t], w) # Invalid
    PROVE  LET v == Decode(Schema[t], w)
           IN Arrives(t, v, Decode(Schema[t], Encode(Schema[t], v)))
<1> DEFINE T == Schema[t]
           forms == T.forms
           i == FirstForm(forms, w)
           v == Decode(T, w)
           u == Encode(T, v)
<1>1. SoundForms(forms)
  BY SchemaAssumption
<1>2. i # 0 /\ v = [path |-> <<forms[i].name>>, fields |-> [value |-> w]]
  BY DEF Decode, DecodePlain
<1>3. i \in DOMAIN forms /\ w \in forms[i].takes
  BY <1>1, <1>2, FirstFormFacts DEF SoundForms
<1>4. /\ \A j \in DOMAIN forms : forms[i].name = forms[j].name => i = j
      /\ \/ forms[i].name = "Number" /\ w = "whole"
         \/ FirstForm(forms, forms[i].writes[w]) = i
  BY <1>1, <1>3 DEF SoundForms
<1> HIDE DEF i
<1>5. v.path = <<forms[i].name>> /\ v.path[1] = forms[i].name /\ v.fields.value = w
  BY <1>2
<1>6. (CHOOSE f \in ToSet(forms) : f.name = v.path[1]) = forms[i]
  BY <1>3, <1>4, <1>5 DEF ToSet
<1>7. u = forms[i].writes[w]
  BY <1>5, <1>6 DEF Encode, EncodePlain
<1>8. CASE forms[i].name = "Number" /\ w = "whole"
  BY <1>5, <1>8 DEF Arrives, Unfaithful
<1>9. CASE FirstForm(forms, forms[i].writes[w]) = i
  <2>1. FirstForm(forms, u) = i /\ i # 0
    BY <1>2, <1>7, <1>9
  <2>2. Decode(T, u) = [path |-> <<forms[i].name>>, fields |-> [value |-> u]]
    BY <2>1 DEF Decode, DecodePlain
  <2>3. Decode(T, u).path = v.path
    BY <1>5, <2>2
  <2> QED BY <2>3 DEF Arrives
<1> QED BY <1>4, <1>8, <1>9

-----------------------------------------------------------------------------
(* What is passed on.                                                      *)

\* Every malformed value is told by the fields of the variants.
Told(T, w) == \A name \in DOMAIN w : w[name] = "bad" => Judged(T, name)

LEMMA NoneMalformed ==
    ASSUME NEW T, NEW r \in Routes(T), NEW w, Told(T, w), Clean(w),
           NEW name \in DOMAIN RulesOf(T, r), RulesOf(T, r)[name] \in FieldRules,
           ReadField(RulesOf(T, r)[name], Value(w, name)) # Refused
    PROVE  /\ ReadField(RulesOf(T, r)[name], Value(w, name)) # "bad"
           /\ Rewritten(RulesOf(T, r)[name], Value(w, name)) # "bad"
<1> DEFINE rule == RulesOf(T, r)[name]
           v == Value(w, name)
<1>1. v = "bad" => "bad" \in DOMAIN rule.reads
  BY DEF Told, Judged, Value
<1>2. Wired(v)
  BY DEF Clean, Value, Wired, Refused
<1>3. Rewritten(rule, v) # "bad"
  BY <1>1, <1>2, RewritingFacts
<1>4. ReadField(rule, v) # "bad"
  BY <1>1, RuleFacts DEF RuleIsSound, ReadField
<1> QED BY <1>3, <1>4

LEMMA PassedOn ==
    ASSUME NEW t \in DOMAIN Schema, Schema[t].kind = "object",
           NEW w, Clean(w), Told(Schema[t], w), Decode(Schema[t], w) # Invalid
    PROVE  LET T == Schema[t]
               u == Encode(T, Decode(T, w))
           IN Told(T, u) /\ Arrives(t, Decode(T, w), Decode(T, u))
<1> DEFINE T == Schema[t]
           r == Route(T, w)
           rules == RulesOf(T, r)
           v == Decode(T, w)
           u == Encode(T, v)
<1>1. CASE IsRawRoute(r)
  <2>1. u = w
    BY <1>1, RawRoundTrip
  <2>2. Same(OmittedWhenEmpty(RulesAlong(T, v)), v.fields, v.fields)
    BY DEF Same
  <2>3. Told(T, u) /\ Decode(T, u) = v
    BY <2>1
  <2>4. T = Schema[t]
    OBVIOUS
  <2> HIDE DEF u, v, T
  <2>5. Arrives(t, v, Decode(T, u))
    BY <2>2, <2>3, <2>4 DEF Arrives
  <2> QED BY <2>3, <2>5 DEF u, v, T
<1>2. CASE ~IsRawRoute(r)
  <2>1. /\ r \in Routes(T) /\ Goes(T, r, w) /\ v.path = Trail(T, r)
        /\ IsBare(r[3].body)
    BY DecodeGoes
  <2>2. v.fields = ReadFields(rules, w)
    BY <1>2, <2>1, GoesDecodes
  <2>3. Ruled(rules, w) /\ Passes(rules, w, u)
    BY <1>2, <2>1, <2>2, EncodePasses
  <2>4. /\ SoundRoute(t, r)
        /\ \A name \in DOMAIN rules :
            \/ rules[name] \in StructRules
            \/ t = <<"v2", "ListSessionsResponse">> /\ name = "sessions"
    <3>1. SoundRoute(t, r)
      BY <2>1, SchemaAssumption
    <3>2. \A name \in DOMAIN rules :
            \/ rules[name] \in StructRules
            \/ t = <<"v2", "ListSessionsResponse">> /\ name = "sessions"
      BY <2>1, RulesFacts
    <3> QED BY <3>1, <3>2
  <2>5. ASSUME NEW name \in DOMAIN u, u[name] = "bad"
        PROVE  FALSE
    <3>1. Value(u, name) = "bad"
      BY <2>5 DEF Value
    <3> HIDE DEF u
    <3>2. name \in DOMAIN rules /\ Rewritten(rules[name], Value(w, name)) = "bad"
      BY <2>3, <3>1 DEF Passes
    <3>3. rules[name] \in FieldRules /\ ReadField(rules[name], Value(w, name)) # Refused
      BY <2>3, <3>2, RuledFacts
    <3> QED BY <2>1, <3>2, <3>3, NoneMalformed
  <2>6. Told(T, u)
    BY <2>5 DEF Told
  <2>7. CASE Writable(rules, v.fields) /\ ~LosesScope(r[1], rules, w)
    <3>1. /\ Decode(T, u).path = v.path
          /\ Same(OmittedWhenEmpty(rules), v.fields, Decode(T, u).fields)
      BY <1>2, <2>1, <2>2, <2>3, <2>7, RoundTrip
    <3>2. RulesAlong(T, v) = rules
      BY <2>1, EncodeAlong
    <3> QED BY <2>6, <3>1, <3>2 DEF Arrives
  <2>8. CASE ~Writable(rules, v.fields)
    <3>1. t = <<"v2", "ListSessionsResponse">> /\ v.fields["sessions"] = "unset"
      BY <2>4, <2>8 DEF Writable
    <3> QED BY <2>6, <3>1 DEF Arrives, Unfaithful
  <2>9. CASE LosesScope(r[1], rules, w)
    <3>1. /\ t = <<"v1", "CreateElicitationRequest">> /\ IsBare(r[1].body)
          /\ r[1].name \in {"Form", "Url"}
      BY <1>2, <2>4, <2>9 DEF SoundRoute, LosesScope, IsRawRoute
    <3>2. ~IsBare(T)
      BY <2>1, <2>9, GoesFacts, BareFacts DEF LosesScope
    <3>3. v.path = <<r[1].name>>
      BY <2>1, <3>1, <3>2 DEF Trail
    <3>4. \A s \in ScopeNames : v.fields[s] = "unset"
      BY <2>2, <2>9 DEF LosesScope, ReadFields
    <3>5. v.fields.sessionId = "unset" /\ v.fields.requestId = "unset"
      BY <3>4 DEF ScopeNames
    <3>6. v.path \in {<<"Form">>, <<"Url">>}
      BY <3>1, <3>3
    <3> QED BY <2>6, <3>1, <3>5, <3>6 DEF Arrives, Unfaithful
  <2> QED BY <2>7, <2>8, <2>9
<1> QED BY <1>1, <1>2

\* SetX, ClearX or UnsetX of a patch field.
Edited(own, before, after) ==
    \E name \in DOMAIN own, new \in {"good", "null", "unset"} :
        IsPatch(own[name]) /\ after = [before EXCEPT ![name] = new]

Patched(T, w, v) ==
    /\ T.kind = "object" /\ Decode(T, w) # Invalid
    /\ v.path = Decode(T, w).path
    /\ Edited(T.own, Decode(T, w).fields, v.fields)

LEMMA BareDecodes ==
    ASSUME NEW T, T.kind = "object", IsBare(T), NEW w
    PROVE  Decode(T, w) = IF Accepts(T.own, w)
                          THEN [path |-> <<>>, fields |-> ReadFields(T.own, w)] ELSE Invalid
<1> DEFINE body1 == Selected(T, w).body
           body2 == Selected(body1, w).body
           body3 == Selected(body2, w).body
           inner == Join(body1, w, Join(body2, w, Join(body3, w, Invalid)))
<1>1. Decode(T, w) = Join(T, w, inner)
  BY DEF Decode
<1> HIDE DEF inner
<1> QED BY <1>1 DEF Join

\* A struct has no rules but its own.
LEMMA BareRules ==
    ASSUME NEW T, IsBare(T), NEW v
    PROVE  OmittedWhenEmpty(RulesAlong(T, v)) = OmittedWhenEmpty(T.own)
<1>1. IsBare(NoArm.body) /\ DOMAIN NoArm.body.own = {}
  BY BareFacts
<1>2. /\ BodyOf(T, v, 1) = NoArm.body /\ BodyOf(NoArm.body, v, 2) = NoArm.body
      /\ BodyOf(NoArm.body, v, 3) = NoArm.body
  BY <1>1 DEF BodyOf
<1> DEFINE none == NoArm.body.own
           rules == Over(T.own, Over(none, Over(none, none)))
<1>3. RulesAlong(T, v) = rules
  BY <1>2 DEF RulesAlong
<1>4. DOMAIN none = {}
  BY <1>1
<1> HIDE DEF none
<1>5. DOMAIN rules = DOMAIN T.own /\ \A n \in DOMAIN rules : rules[n] = T.own[n]
  BY <1>4 DEF Over
<1> QED BY <1>3, <1>5 DEF OmittedWhenEmpty

LEMMA PatchedFacts ==
    ASSUME NEW t \in DOMAIN Schema, NEW w, NEW v, Patched(Schema[t], w, v)
    PROVE  LET T == Schema[t]
           IN /\ IsBare(T) /\ v.path = <<>> /\ Accepts(T.own, w)
              /\ Edited(T.own, ReadFields(T.own, w), v.fields)
<1> DEFINE T == Schema[t]
<1>1. T.kind = "object" /\ Decode(T, w) # Invalid
  BY DEF Patched
<1>2. IsBare(T)
  <2>1. \E name \in DOMAIN T.own : IsPatch(T.own[name])
    BY DEF Patched, Edited
  <2> QED BY <1>1, <2>1, SchemaAssumption DEF SoundPatches
<1>3. Accepts(T.own, w) /\ Decode(T, w) = [path |-> <<>>, fields |-> ReadFields(T.own, w)]
  BY <1>1, <1>2, BareDecodes
<1>4. Decode(T, w).path = <<>> /\ Decode(T, w).fields = ReadFields(T.own, w)
  BY <1>3
<1> QED BY <1>2, <1>3, <1>4 DEF Patched

LEMMA PatchedOn ==
    ASSUME NEW t \in DOMAIN Schema, NEW w, Clean(w), Told(Schema[t], w),
           NEW v, Patched(Schema[t], w, v)
    PROVE  LET T == Schema[t]
               u == Encode(T, v)
           IN Told(T, u) /\ Arrives(t, v, Decode(T, u))
<1> DEFINE T == Schema[t]
           own == T.own
           r == Route(T, w)
           u == WriteFields(own, v.fields)
<1>1. /\ IsBare(T) /\ v.path = <<>> /\ T.kind = "object" /\ Accepts(own, w)
      /\ Decode(T, w) # Invalid
  BY PatchedFacts DEF Patched
<1>2. PICK name \in DOMAIN own, new \in {"good", "null", "unset"} :
            IsPatch(own[name]) /\ v.fields = [ReadFields(own, w) EXCEPT ![name] = new]
  <2>1. Edited(own, ReadFields(own, w), v.fields)
    BY PatchedFacts
  <2> QED BY <2>1 DEF Edited
<1>3. r \in Routes(T)
  BY <1>1, DecodeGoes
<1>4. /\ DOMAIN own \subseteq DOMAIN RulesOf(T, r)
      /\ \A n \in DOMAIN own :
            /\ own[n] = RulesOf(T, r)[n] /\ own[n] \in FieldRules
            /\ \/ own[n] \in StructRules
               \/ t = <<"v2", "ListSessionsResponse">> /\ n = "sessions"
  <2> DEFINE rules == RulesOf(T, r)
  <2>1. /\ DOMAIN rules = DOMAIN own \cup (DOMAIN r[1].body.own
                \cup (DOMAIN r[2].body.own \cup DOMAIN r[3].body.own))
        /\ AgreesWith(own, rules)
        /\ \A n \in DOMAIN rules :
              /\ rules[n] \in FieldRules
              /\ \/ rules[n] \in StructRules
                 \/ t = <<"v2", "ListSessionsResponse">> /\ n = "sessions"
    BY <1>1, <1>3, RulesFacts
  <2> HIDE DEF rules, own
  <2> QED BY <2>1 DEF AgreesWith, rules
<1>5. Encode(T, v) = u
  BY <1>1 DEF Encode, Overlay
<1>6. Holds(own, v.fields)
  <2>1. Holds(own, ReadFields(own, w))
    BY <1>1, DecodedHolds DEF Clean
  <2>2. own[name] \in FieldRules
    BY <1>4
  <2> HIDE DEF own
  <2>3. Holds(own, [ReadFields(own, w) EXCEPT ![name] = new])
    BY <1>2, <2>1, <2>2, EditedHolds
  <2> QED BY <1>2, <2>3
<1>7. ASSUME NEW n \in DOMAIN u, u[n] = "bad"
      PROVE  FALSE
  <2>1. n \in DOMAIN own /\ v.fields[n] = "bad"
    BY <1>7 DEF WriteFields, WriteField
  <2>2. ReadField(own[n], Value(w, n)) = "bad"
    BY <1>2, <2>1 DEF ReadFields
  <2>3. ReadField(own[n], Value(w, n)) # Refused
    BY <2>2 DEF Refused
  <2> QED BY <1>3, <1>4, <2>1, <2>2, <2>3, NoneMalformed
<1>8. Told(T, u)
  BY <1>7 DEF Told
<1>9. CASE Writable(own, v.fields)
  <2>1. Accepts(own, u) /\ Same(OmittedWhenEmpty(own), v.fields, ReadFields(own, u))
    BY <1>4, <1>6, <1>9, StructArrives
  <2>2. Decode(T, u) = [path |-> <<>>, fields |-> ReadFields(own, u)]
    BY <1>1, <2>1, BareDecodes
  <2>3. OmittedWhenEmpty(RulesAlong(T, v)) = OmittedWhenEmpty(own)
    BY <1>1, BareRules
  <2> HIDE DEF own, u, T
  <2>4. /\ Decode(T, u).path = v.path
        /\ Same(OmittedWhenEmpty(RulesAlong(T, v)), v.fields, Decode(T, u).fields)
    BY <1>1, <2>1, <2>2, <2>3
  <2> QED BY <1>5, <1>8, <2>4 DEF Arrives, T
<1>10. CASE ~Writable(own, v.fields)
  <2>1. t = <<"v2", "ListSessionsResponse">> /\ v.fields["sessions"] = "unset"
    BY <1>4, <1>10 DEF Writable
  <2> QED BY <1>5, <1>8, <2>1 DEF Arrives, Unfaithful
<1> QED BY <1>9, <1>10

-----------------------------------------------------------------------------
(* What a peer sends first.                                                *)

\* Only fields of its shape, with the values their rules tell apart.
OfShape(shape, w) ==
    /\ w = [name \in DOMAIN w |-> w[name]]
    /\ \A name \in DOMAIN w :
        name \in DOMAIN shape.rules /\ w[name] \in DOMAIN shape.rules[name].reads

LEMMA ChangeFacts ==
    ASSUME NEW shape, NEW w, OfShape(shape, w),
           NEW f \in DOMAIN shape.rules, NEW v \in DOMAIN shape.rules[f].reads
    PROVE  OfShape(shape, Change(w, f, v))
<1>1. CASE v = "absent"
  <2>1. Change(w, f, v) = [n \in DOMAIN w \ {f} |-> w[n]]
    BY <1>1 DEF Change, Without
  <2> QED BY <2>1 DEF OfShape
<1>2. CASE v # "absent"
  <2>1. Change(w, f, v) = [n \in DOMAIN w \cup {f} |-> IF n = f THEN v ELSE w[n]]
    BY <1>2 DEF Change
  <2> QED BY <2>1 DEF OfShape
<1> QED BY <1>1, <1>2

LEMMA FirstMessage ==
    ASSUME NEW T, NEW shape, SoundShape(T, shape), NEW full \in BOOLEAN,
           NEW f \in DOMAIN shape.rules, NEW v \in DOMAIN shape.rules[f].reads,
           NEW g \in DOMAIN shape.rules, NEW u \in DOMAIN shape.rules[g].reads,
           NEW w, w = Tagged(Change(Change(Ordinary(shape.rules, full), f, v), g, u), shape.tags)
    PROVE  Clean(w) /\ Told(T, w)
<1> DEFINE w0 == Ordinary(shape.rules, full)
           w1 == Change(w0, f, v)
           w2 == Change(w1, g, u)
<1>1. \A name \in DOMAIN shape.rules : RuleIsSound(shape.rules[name])
  BY RuleFacts DEF SoundShape
<1>2. OfShape(shape, w0)
  BY <1>1 DEF OfShape, Ordinary, RuleIsSound
<1> HIDE DEF w0
<1>3. OfShape(shape, w1)
  BY <1>2, ChangeFacts
<1> HIDE DEF w1
<1>4. OfShape(shape, w2)
  BY <1>3, ChangeFacts
<1> HIDE DEF w2
<1>5. w = [name \in DOMAIN w2 |->
              IF name \in DOMAIN shape.tags /\ w2[name] = "good"
              THEN shape.tags[name] ELSE w2[name]]
  BY DEF Tagged, w2, w1, w0
<1>6. ASSUME NEW name \in DOMAIN w
      PROVE  /\ Wired(w[name])
             /\ name \in ScopeNames => w[name] \notin {"mixed", "spoiled"}
             /\ w[name] = "bad" => Judged(T, name)
  <2>1. name \in DOMAIN shape.rules /\ w2[name] \in DOMAIN shape.rules[name].reads
    BY <1>4, <1>5 DEF OfShape
  <2>2. CASE w[name] = w2[name]
    BY <1>1, <2>1, <2>2 DEF SoundShape, RuleIsSound, Wired
  <2>3. CASE name \in DOMAIN shape.tags /\ w[name] = shape.tags[name]
    BY <2>3 DEF SoundShape, Wired, Kinds
  <2> QED BY <1>5, <2>2, <2>3
<1>7. w = [name \in DOMAIN w |-> w[name]]
  BY <1>5
<1>8. ScopesFit(w)
  BY <1>6 DEF ScopesFit, Value
<1> QED BY <1>6, <1>7, <1>8 DEF Clean, Told

-----------------------------------------------------------------------------
(* The specification.                                                      *)

\* What is on the wire is a message of a peer, or what the program has made of
\* one; and what the program has it has read from there, with one patch at the
\* most.  What was sent arrives, when the other peer reads it.
IInv ==
    /\ type \in DOMAIN Schema
    /\ Schema[type].kind = "object" => Told(Schema[type], wire)
    /\ sent = NoValue =>
        /\ Schema[type].kind = "object" => Clean(wire)
        /\ \/ value \in {NoValue, Decode(Schema[type], wire)}
           \/ Patched(Schema[type], wire, value)
    /\ sent # NoValue =>
        /\ value \in {NoValue, Decode(Schema[type], wire)}
        /\ Arrives(type, sent, Decode(Schema[type], wire))

LEMMA InitIInv == Init => IInv
<1> SUFFICES ASSUME Init PROVE IInv
  OBVIOUS
<1> USE DEF Init
<1>1. CASE Schema[type].kind = "plain"
  BY <1>1 DEF IInv
<1>2. CASE Schema[type].kind = "object"
  <2>1. PICK shape \in Shapes(Schema[type]), full \in BOOLEAN :
            \E f, g \in DOMAIN shape.rules :
                \E v \in DOMAIN shape.rules[f].reads, u \in DOMAIN shape.rules[g].reads :
                    wire = Tagged(Change(Change(Ordinary(shape.rules, full), f, v), g, u),
                                  shape.tags)
    BY <1>2
  <2>2. SoundShape(Schema[type], shape)
    BY <1>2, SchemaAssumption
  <2>3. Clean(wire) /\ Told(Schema[type], wire)
    BY <2>1, <2>2, FirstMessage
  <2> QED BY <2>3 DEF IInv
<1> QED BY <1>1, <1>2

LEMMA NextIInv == IInv /\ [Next]_vars => IInv'
<1> SUFFICES ASSUME IInv, [Next]_vars PROVE IInv'
  OBVIOUS
<1>1. CASE Receive
  <2>1. /\ type' = type /\ wire' = wire /\ sent' = sent
        /\ value' = Decode(Schema[type], wire)
    BY <1>1 DEF Receive
  <2> QED BY <2>1 DEF IInv
<1>2. CASE Edit
  <2>1. /\ type' = type /\ wire' = wire /\ sent' = sent /\ sent = NoValue
        /\ Schema[type].kind = "object" /\ value = Decode(Schema[type], wire)
        /\ value # Invalid
    BY <1>2 DEF Edit, InHand
  <2>2. PICK name \in DOMAIN Schema[type].own, new \in {"good", "null", "unset"} :
            /\ IsPatch(Schema[type].own[name])
            /\ value' = [value EXCEPT !.fields[name] = new]
    BY <1>2 DEF Edit
  <2>3. value'.path = value.path /\ value'.fields = [value.fields EXCEPT ![name] = new]
    <3>1. value = [path |-> value.path, fields |-> value.fields]
      BY <2>1, DecodedIsPair DEF IInv
    <3> QED BY <2>2, <3>1
  <2>4. Edited(Schema[type].own, Decode(Schema[type], wire).fields, value'.fields)
    BY <2>1, <2>2, <2>3 DEF Edited
  <2>5. Patched(Schema[type], wire, value')
    BY <2>1, <2>3, <2>4 DEF Patched
  <2> QED BY <2>1, <2>5 DEF IInv
<1>3. CASE Send
  <2>1. /\ type' = type /\ sent' = value /\ value' = NoValue /\ value # NoValue
        /\ value # Invalid /\ sent = NoValue
        /\ wire' = Encode(Schema[type], value) /\ type \in DOMAIN Schema
    BY <1>3 DEF Send, InHand, IInv
  <2>2. CASE Schema[type].kind = "plain"
    <3>1. value = Decode(Schema[type], wire)
      BY <2>1, <2>2 DEF IInv, Patched
    <3>2. Arrives(type, value, Decode(Schema[type], Encode(Schema[type], value)))
      BY <2>1, <2>2, <3>1, PlainRoundTrip
    <3>3. Arrives(type', sent', Decode(Schema[type'], wire'))
      BY <2>1, <3>2
    <3> QED BY <2>1, <2>2, <3>3 DEF IInv
  <2>3. CASE Schema[type].kind = "object"
    <3>1. Clean(wire) /\ Told(Schema[type], wire)
      BY <2>1, <2>3 DEF IInv
    <3>2. /\ Told(Schema[type], Encode(Schema[type], value))
          /\ Arrives(type, value, Decode(Schema[type], Encode(Schema[type], value)))
      <4>1. CASE value = Decode(Schema[type], wire)
        BY <2>1, <2>3, <3>1, <4>1, PassedOn
      <4>2. CASE Patched(Schema[type], wire, value)
        BY <2>1, <3>1, <4>2, PatchedOn
      <4> QED BY <2>1, <4>1, <4>2 DEF IInv
    <3>3. /\ Told(Schema[type'], wire')
          /\ Arrives(type', sent', Decode(Schema[type'], wire'))
      BY <2>1, <3>2
    <3> QED BY <2>1, <2>3, <3>3 DEF IInv
  <2> QED BY <2>1, <2>2, <2>3, SchemaAssumption
<1>4. CASE UNCHANGED vars
  BY <1>4 DEF IInv, vars
<1> QED BY <1>1, <1>2, <1>3, <1>4 DEF Next

LEMMA IInvSentArrives == IInv => SentArrives
BY DEF IInv, SentArrives

LEMMA IInvRecovers == IInv => RecoversToOmission
<1> SUFFICES ASSUME IInv, value = Decode(Schema[type], wire), value # Invalid,
                    Schema[type].kind = "object",
                    NEW name \in DOMAIN wire, wire[name] = "bad", ~IsRaw(value),
                    ~(type = <<"v2", "ListSessionsResponse">> /\ name = "sessions")
             PROVE  value = Decode(Schema[type], Without(wire, name))
  BY DEF RecoversToOmission
<1>1. type \in DOMAIN Schema /\ Judged(Schema[type], name)
  BY DEF IInv, Told
<1>2. ~IsRawRoute(Route(Schema[type], wire))
  BY <1>1, RawFacts
<1> QED BY <1>1, <1>2, OmissionDecodes

\* What VariantIsKept says of a step.
KeepsVariant ==
    Send /\ Schema[type].kind = "object" =>
        /\ IsTagged(Schema[type], wire) =>
            value.path[1] = Schema[type].cases[Value(wire, Schema[type].tag)].name
        /\ IsRaw(value) => wire' = wire

LEMMA StepKeepsVariant == IInv /\ [Next]_vars => [KeepsVariant]_vars
<1> SUFFICES ASSUME IInv, Send, Schema[type].kind = "object"
             PROVE  /\ IsTagged(Schema[type], wire) =>
                          value.path[1] = Schema[type].cases[Value(wire, Schema[type].tag)].name
                    /\ IsRaw(value) => wire' = wire
  BY DEF KeepsVariant
<1>1. /\ type \in DOMAIN Schema /\ Clean(wire)
      /\ value = Decode(Schema[type], wire) \/ Patched(Schema[type], wire, value)
      /\ value # Invalid /\ wire' = Encode(Schema[type], value)
  BY DEF IInv, Send, InHand
<1>2. IsBare(Schema[type]) => ~IsTagged(Schema[type], wire)
  BY DEF IsBare, IsTagged
<1>3. CASE Patched(Schema[type], wire, value)
  <2>1. IsBare(Schema[type]) /\ value.path = <<>>
    BY <1>1, <1>3, PatchedFacts
  <2> QED BY <1>2, <2>1 DEF IsRaw
<1>4. CASE value = Decode(Schema[type], wire)
  <2>1. ASSUME IsTagged(Schema[type], wire)
        PROVE  value.path[1] = Schema[type].cases[Value(wire, Schema[type].tag)].name
    <3>1. ~IsBare(Schema[type]) /\ ArmsApart(Schema[type])
      BY <1>1, <1>2, <2>1, SchemaAssumption DEF SoundArms
    <3>2. /\ Fits(Schema[type], wire)
          /\ value.path[1] = Selected(Schema[type], wire).name
      BY <1>1, <1>4, <3>1, RawFacts
    <3>3. Chooses(Schema[type], wire, Selected(Schema[type], wire))
      BY <3>1, <3>2, SelectedFacts
    <3>4. Selected(Schema[type], wire) = Schema[type].cases[Value(wire, Schema[type].tag)]
      BY <2>1, <3>3 DEF Chooses
    <3> QED BY <3>2, <3>4
  <2>2. ASSUME IsRaw(value) PROVE wire' = wire
    <3>1. IsRawRoute(Route(Schema[type], wire))
      BY <1>1, <1>4, <2>2, RawFacts
    <3> QED BY <1>1, <1>4, <3>1, RawRoundTrip
  <2> QED BY <2>1, <2>2
<1> QED BY <1>1, <1>3, <1>4

\* The inductive invariant of a message passed from peer to peer.
THEOREM SpecIInv == Spec => []IInv
BY InitIInv, NextIInv, PTL DEF Spec

\* SentArrives: what one peer has encoded is what the next one decodes,
\* whatever the types of the schema and the patch the program has made.
THEOREM SpecSentArrives == Spec => []SentArrives
BY IInvSentArrives, SpecIInv, PTL

\* RecoversToOmission: a malformed field that is accepted is as if it were not
\* there.
THEOREM SpecRecoversToOmission == Spec => []RecoversToOmission
BY IInvRecovers, SpecIInv, PTL

\* VariantIsKept: a known tag decides the variant, and a message of one that is
\* not known goes on as it came.
THEOREM SpecVariantIsKept == Spec => VariantIsKept
BY StepKeepsVariant, SpecIInv, PTL DEF Spec, VariantIsKept, KeepsVariant

\* A message of a peer with any fields, of any values (but malformed only where
\* the decoders tell it): not only those of Init, of which two fields at the most
\* are out of the ordinary.
AnyMessage ==
    /\ type \in DOMAIN Schema
    /\ Schema[type].kind = "object" => Clean(wire) /\ Told(Schema[type], wire)
    /\ value = NoValue /\ sent = NoValue

\* All three of any message, however many of its fields are missing, null or
\* malformed at once (UnmarshalJSON and MarshalJSON of every type).
THEOREM AnyMessagePassesOn ==
    AnyMessage /\ [][Next]_vars => []SentArrives /\ []RecoversToOmission /\ VariantIsKept
<1>1. AnyMessage => IInv
  BY DEF AnyMessage, IInv
<1>2. AnyMessage /\ [][Next]_vars => []IInv
  BY <1>1, NextIInv, PTL
<1> QED
  BY <1>2, IInvSentArrives, IInvRecovers, StepKeepsVariant, PTL DEF VariantIsKept, KeepsVariant
=============================================================================
