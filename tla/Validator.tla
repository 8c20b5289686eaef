------------------------------ MODULE Validator ------------------------------
(***************************************************************************)
(* SemanticValidator of validator.cpp.  validate() visits the schema once  *)
(* and returns !has_errors(); what it computes is the ordered diagnostic   *)
(* list errors_ of the ValidationContext, so each visit_* and check_*      *)
(* method is an operator returning the diagnostics it appends, in the      *)
(* order it appends them.                                                  *)
(*                                                                         *)
(* A schema is [ns, decls, loc]: ns is the namespace name as the sequence  *)
(* of its dotted parts (<<>> for the empty name), decls the declarations   *)
(* of module Ast, each of them, every enum value and every field carrying  *)
(* the loc of its AstNode.  A diagnostic is [what, loc]: which add_error   *)
(* call made it (the message text is formatting) and the location given. *)
(***************************************************************************)
EXTENDS Ast, Integers, Sequences, SequencesExt

Diag(what, loc) == [what |-> what, loc |-> loc]

\* One add_error call if the condition holds.
When(cond, d) == IF cond THEN <<d>> ELSE <<>>

\* unordered_set::insert(keys[i]).second is false: an earlier element had
\* the same key.
RepeatsEarlier(keys, i) == \E j \in 1..(i - 1) : keys[j] = keys[i]

\* Type::get_name()
TypeName(t) == IF IsPrimitive(t) THEN t.kind ELSE t.name

\* register_enum / register_model: every declaration's name is known to
\* type_exists() before any field is visited.
TypeNames(decls) == {decls[i].name : i \in DOMAIN decls}

\* validate_field_number
ValidateFieldNumber(f) ==
    When(f.number < 1 \/ f.number > 536870911, Diag("number_range", f.loc))
      \o When(f.number >= 19000 /\ f.number <= 19999, Diag("number_reserved", f.loc))

\* Variant: the modifier rules as an else-if chain, one diagnostic at most.
ValidateFieldModifiersFirst(f) ==
    CASE Has(f, "optional") /\ Has(f, "repeated") -> <<Diag("optional_repeated", f.loc)>>
      [] Has(f, "packed") /\ ~Has(f, "repeated") -> <<Diag("packed_needs_repeated", f.loc)>>
      [] Has(f, "bitmap") /\ ~Has(f, "repeated") -> <<Diag("bitmap_needs_repeated", f.loc)>>
      [] Has(f, "packed") /\ Has(f, "bitmap")    -> <<Diag("packed_and_bitmap", f.loc)>>
      [] Has(f, "interned") /\ TypeName(f.type) # "string" -> <<Diag("interned_not_string", f.loc)>>
      [] OTHER -> <<>>

\* validate_field_modifiers: every rule of spec.md section 3 that is broken.
ValidateFieldModifiers(f) ==
    When(Has(f, "optional") /\ Has(f, "repeated"), Diag("optional_repeated", f.loc))
      \o When(Has(f, "packed") /\ ~Has(f, "repeated"), Diag("packed_needs_repeated", f.loc))
      \o When(Has(f, "bitmap") /\ ~Has(f, "repeated"), Diag("bitmap_needs_repeated", f.loc))
      \o When(Has(f, "packed") /\ Has(f, "bitmap"), Diag("packed_and_bitmap", f.loc))
      \o When(Has(f, "interned") /\ TypeName(f.type) # "string", Diag("interned_not_string", f.loc))

\* validate_type_exists
ValidateTypeExists(t, loc, names) ==
    When(~IsPrimitive(t) /\ t.name \notin names, Diag("unknown_type", loc))

\* check_modifier_compatibility
CheckModifierCompatibility(f) ==
    When(Has(f, "packed") /\ ~IsPrimitive(f.type), Diag("packed_not_primitive", f.loc))
      \o When(Has(f, "interned") /\ f.type # Prim("string"), Diag("interned_type", f.loc))
      \o When(Has(f, "bitmap") /\ f.type # Prim("bool"), Diag("bitmap_type", f.loc))

\* Variant: the type is resolved before the number is checked.
VisitFieldTypeFirst(f, names) ==
    ValidateTypeExists(f.type, f.loc, names) \o ValidateFieldNumber(f)
      \o ValidateFieldModifiers(f) \o CheckModifierCompatibility(f)

\* visit_field
VisitField(f, names) ==
    ValidateFieldNumber(f) \o ValidateFieldModifiers(f)
      \o ValidateTypeExists(f.type, f.loc, names) \o CheckModifierCompatibility(f)

\* check_duplicate_field_numbers: reported at the later field.
CheckDuplicateFieldNumbers(m) ==
    LET nums == [k \in DOMAIN m.fields |-> m.fields[k].number]
    IN  FlattenSeq([i \in DOMAIN m.fields |->
            When(RepeatsEarlier(nums, i), Diag("dup_field_number", m.fields[i].loc))])

\* check_duplicate_enum_values: names and numbers in one pass over values.
CheckDuplicateEnumValues(e) ==
    LET names == [k \in DOMAIN e.values |-> e.values[k].name]
        nums  == [k \in DOMAIN e.values |-> e.values[k].value]
    IN  FlattenSeq([i \in DOMAIN e.values |->
            When(RepeatsEarlier(names, i), Diag("dup_value_name", e.values[i].loc))
              \o When(RepeatsEarlier(nums, i), Diag("dup_value", e.values[i].loc))])

\* visit_enum_value
VisitEnumValue(v) == When(v.value < 0, Diag("negative_value", v.loc))

\* visit_enum; an empty enum returns early.
VisitEnum(e) ==
    IF e.values = <<>> THEN <<Diag("empty_enum", e.loc)>>
    ELSE CheckDuplicateEnumValues(e) \o FlattenSeq([i \in DOMAIN e.values |-> VisitEnumValue(e.values[i])])

\* visit_model; an empty model returns early.
VisitModel(m, names) ==
    IF m.fields = <<>> THEN <<Diag("empty_model", m.loc)>>
    ELSE CheckDuplicateFieldNumbers(m)
           \o FlattenSeq([i \in DOMAIN m.fields |-> VisitField(m.fields[i], names)])

\* Variant: declaration names are only compared within one kind (the enum
\* and model tables are separate maps).
DuplicateDeclarationsPerKind(s) ==
    LET keys == [k \in DOMAIN s.decls |-> <<s.decls[k].kind, s.decls[k].name>>]
    IN  FlattenSeq([i \in DOMAIN s.decls |->
            When(RepeatsEarlier(keys, i), Diag("dup_decl", s.decls[i].loc))])

\* The declaration_names loop of visit_schema.
DuplicateDeclarations(s) ==
    LET names == [k \in DOMAIN s.decls |-> s.decls[k].name]
    IN  FlattenSeq([i \in DOMAIN s.decls |->
            When(RepeatsEarlier(names, i), Diag("dup_decl", s.decls[i].loc))])

\* visit_schema: namespace, duplicate names, registration, then each
\* declaration in order.
VisitSchema(s) ==
    When(s.ns = <<>>, Diag("empty_namespace", s.loc))
      \o DuplicateDeclarations(s)
      \o FlattenSeq([i \in DOMAIN s.decls |->
             IF s.decls[i].kind = "enum" THEN VisitEnum(s.decls[i])
             ELSE VisitModel(s.decls[i], TypeNames(s.decls))])

\* Validator::validate succeeds iff no diagnostic was added.
Validate(s) == VisitSchema(s)
Accepts(s)  == Validate(s) = <<>>

=============================================================================
