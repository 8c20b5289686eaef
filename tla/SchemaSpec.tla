----------------------------- MODULE SchemaSpec -----------------------------
(***************************************************************************)
(* The well-formedness rules of spec.md section 3 and the diagnostics      *)
(* section 4.3 asks the validator for, stated over the whole schema at     *)
(* once: for every rule, the set of locations at which it is broken.  The  *)
(* validator's operators (module Validator) are checked against it.  Node  *)
(* locations are paths: <<i>> for declaration i, <<i, j>> for its value or *)
(* field j, <<>> for the schema.                                           *)
(***************************************************************************)
EXTENDS Ast, Integers, Sequences

DeclsOf(s)      == s.decls
Members(d)    == IF d.kind = "enum" THEN d.values ELSE d.fields
NonEmpty(d)   == Members(d) # <<>>

\* The members of a declaration that repeat a key of an earlier member.
LaterOf(sq, Key(_)) == {i \in DOMAIN sq : \E j \in DOMAIN sq : j < i /\ Key(sq[j]) = Key(sq[i])}

\* section 3, per field: which rules of the modifier set it breaks, by the
\* generic rule (modifier semantics) and by the type-focused one.
GenericBroken(f) ==
    { r \in {"optional_repeated", "packed_needs_repeated", "bitmap_needs_repeated",
             "packed_and_bitmap", "interned_not_string"} :
        CASE r = "optional_repeated"     -> {"optional", "repeated"} \subseteq f.mods
          [] r = "packed_needs_repeated" -> "packed" \in f.mods /\ "repeated" \notin f.mods
          [] r = "bitmap_needs_repeated" -> "bitmap" \in f.mods /\ "repeated" \notin f.mods
          [] r = "packed_and_bitmap"     -> {"packed", "bitmap"} \subseteq f.mods
          [] r = "interned_not_string"   -> "interned" \in f.mods /\ f.type # Prim("string") }

TypedBroken(f) ==
    { r \in {"packed_not_primitive", "interned_type", "bitmap_type"} :
        CASE r = "packed_not_primitive" -> "packed" \in f.mods /\ f.type.cat # "prim"
          [] r = "interned_type"        -> "interned" \in f.mods /\ f.type # Prim("string")
          [] r = "bitmap_type"          -> "bitmap" \in f.mods /\ f.type # Prim("bool") }

NumberBroken(f) ==
    (IF f.number \in 1..536870911 THEN {} ELSE {"number_range"})
      \cup (IF f.number \in 19000..19999 THEN {"number_reserved"} ELSE {})

Unresolved(s, f) ==
    IF f.type.cat = "user" /\ ~\E i \in DOMAIN DeclsOf(s) : DeclsOf(s)[i].name = f.type.name
    THEN {"unknown_type"} ELSE {}

\* The (rule, location) pairs section 4.3 reports for a schema.
SpecDiagnostics(s) ==
    LET D == DOMAIN DeclsOf(s)
        d(i) == DeclsOf(s)[i]
        DeclName(x) == x.name
        Name(x) == x.name
        Val(x) == x.value
        Num(x) == x.number
    IN  (IF s.ns = <<>> THEN {[what |-> "empty_namespace", loc |-> s.loc]} ELSE {})
    \cup {[what |-> "dup_decl", loc |-> d(i).loc] : i \in LaterOf(DeclsOf(s), DeclName)}
    \cup {[what |-> "empty_" \o d(i).kind, loc |-> d(i).loc] : i \in {i \in D : ~NonEmpty(d(i))}}
    \cup UNION {
          IF d(i).kind = "enum" THEN
               {[what |-> "dup_value_name", loc |-> d(i).values[j].loc] : j \in LaterOf(d(i).values, Name)}
          \cup {[what |-> "dup_value", loc |-> d(i).values[j].loc] : j \in LaterOf(d(i).values, Val)}
          \cup {[what |-> "negative_value", loc |-> d(i).values[j].loc] :
                  j \in {j \in DOMAIN d(i).values : d(i).values[j].value < 0}}
          ELSE
               {[what |-> "dup_field_number", loc |-> d(i).fields[j].loc] : j \in LaterOf(d(i).fields, Num)}
          \cup UNION {{[what |-> r, loc |-> d(i).fields[j].loc] :
                        r \in NumberBroken(d(i).fields[j]) \cup GenericBroken(d(i).fields[j])
                              \cup TypedBroken(d(i).fields[j]) \cup Unresolved(s, d(i).fields[j])}
                      : j \in DOMAIN d(i).fields}
        : i \in {i \in D : NonEmpty(d(i))} }

\* section 3: a schema is well formed iff section 4.3 reports nothing.
WellFormed(s) == SpecDiagnostics(s) = {}

(***************************************************************************)
(* The order of section 4.3: schema-level checks first, then declaration   *)
(* by declaration; within a model the field-number check before the       *)
(* per-field checks, and per field in order number range, modifier         *)
(* semantics, type resolution, type-specific compatibility; within an enum *)
(* the duplicate checks before the sign check.  Rank maps a diagnostic to  *)
(* its place; diagnostics of equal rank may come in any order.             *)
(***************************************************************************)
CheckStage(what) ==
    CASE what \in {"number_range", "number_reserved"} -> 1
      [] what \in {"optional_repeated", "packed_needs_repeated", "bitmap_needs_repeated",
                   "packed_and_bitmap", "interned_not_string"} -> 2
      [] what = "unknown_type" -> 3
      [] OTHER -> 4

Rank(x) ==
    CASE x.what = "empty_namespace" -> <<0, 0, 0, 0, 0>>
      [] x.what = "dup_decl" -> <<1, x.loc[1], 0, 0, 0>>
      [] x.what \in {"empty_enum", "empty_model"} -> <<2, x.loc[1], 0, 0, 0>>
      [] x.what \in {"dup_value_name", "dup_value", "dup_field_number"} -> <<2, x.loc[1], 0, 0, 0>>
      [] x.what = "negative_value" -> <<2, x.loc[1], 1, x.loc[2], 0>>
      [] OTHER -> <<2, x.loc[1], 1, x.loc[2], CheckStage(x.what)>>

\* Lexicographic order on rank tuples of equal length.
RECURSIVE LexLeq(_, _)
LexLeq(a, b) ==
    \/ a = <<>>
    \/ Head(a) < Head(b)
    \/ Head(a) = Head(b) /\ LexLeq(Tail(a), Tail(b))

InSpecOrder(ds) == \A k \in 1..(Len(ds) - 1) : LexLeq(Rank(ds[k]), Rank(ds[k + 1]))

=============================================================================
