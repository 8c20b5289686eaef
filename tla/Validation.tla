----------------------------- MODULE Validation -----------------------------
(***************************************************************************)
(* compile_schema calls Validator::validate once on the parsed schema and  *)
(* hands the schema to the CodeGenerator iff it returns true.  This module *)
(* makes that call on every schema of a set, and states what the          *)
(* diagnostics must be (spec.md 4.3) and what an accepted schema must give *)
(* the emitter.                                                            *)
(***************************************************************************)
EXTENDS Validator, SchemaSpec, FiniteSets

CONSTANTS
    Schemas,    \* syntax trees the parser may hand over
    None        \* validate() not called yet

VARIABLES
    schema,     \* the Schema
    errors      \* the ValidationContext's errors_ after validate(), or None

vars == <<schema, errors>>

Init ==
    /\ schema \in Schemas
    /\ errors = None

\* Validator::validate(*schema)
Check ==
    /\ errors = None
    /\ errors' = Validate(schema)
    /\ UNCHANGED schema

Spec == Init /\ [][Check]_vars

Accepted == errors = <<>>

\* The declarations of the schema and the user-typed fields of each.
D == DOMAIN schema.decls
UserFields(i) ==
    IF schema.decls[i].kind = "model"
    THEN {f \in ToSet(schema.decls[i].fields) : ~IsPrimitive(f.type)} ELSE {}

(***************************************************************************)
(* Properties.                                                             *)
(***************************************************************************)

\* validate() reports exactly the rule violations section 4.3 lists, each at
\* the location the spec names: it neither stops early (early returns, an
\* else-if chain) nor reports a rule that holds, and so accepts exactly the
\* well-formed schemas of section 3.
ValidatorReportsSpecDiagnostics ==
    errors # None => ToSet(errors) = SpecDiagnostics(schema)

\* The diagnostic list comes in the order of section 4.3: schema checks,
\* then declaration by declaration, and per field the four checks in order.
DiagnosticsInSpecOrder ==
    errors # None => InSpecOrder(errors)

\* An accepted model never declares two members of one name: the emitted
\* class (generate_model_declaration) gets one member per field, by name.
AcceptedFieldNamesDistinct ==
    Accepted =>
        \A i \in D : schema.decls[i].kind = "model" =>
            LET fs == schema.decls[i].fields
            IN  \A j, k \in DOMAIN fs : j < k => fs[j].name # fs[k].name

\* Every type an accepted schema's field names is declared before the model
\* that uses it (generate_header writes the declarations in order and no
\* forward declaration), except a repeated field of its own model
\* (std::vector of an incomplete type).
AcceptedTypesDeclaredBeforeUse ==
    Accepted =>
        \A i \in D : \A f \in UserFields(i) :
            \E j \in D : schema.decls[j].name = f.type.name
                         /\ (j < i \/ (j = i /\ Has(f, "repeated")))

\* For every field number an accepted schema has, field.number << 3 in
\* generate_field_serializer stays within int (no signed overflow).
AcceptedTagShiftDefined ==
    Accepted =>
        \A i \in D : schema.decls[i].kind = "model" =>
            \A j \in DOMAIN schema.decls[i].fields :
                schema.decls[i].fields[j].number < 2^28

=============================================================================
