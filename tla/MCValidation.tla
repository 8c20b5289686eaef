---------------------------- MODULE MCValidation ----------------------------
(***************************************************************************)
(* Schemas for the validator, in two families.                             *)
(*  - Field shapes: enum A { X = 0; } model B { <one field> } with every   *)
(*    modifier set over int8, bool, string, the enum A, the model B itself *)
(*    and an unknown C, and the field numbers at the edges of the ranges.  *)
(*  - Structures: up to two declarations named A or B, enums with up to    *)
(*    two values over names X, Y and values -1, 0, models with up to two   *)
(*    fields from a pool with repeated names, numbers and user types, and  *)
(*    an empty or non-empty namespace.                                     *)
(* Locations are the nodes' paths (module SchemaSpec).                     *)
(***************************************************************************)
EXTENDS Validation

\* The locations the parser would attach, as paths.
Located(i, d) ==
    IF d.kind = "enum"
    THEN [d EXCEPT !.loc = <<i>>,
                   !.values = [j \in DOMAIN @ |-> [@[j] EXCEPT !.loc = <<i, j>>]]]
    ELSE [d EXCEPT !.loc = <<i>>,
                   !.fields = [j \in DOMAIN @ |-> [@[j] EXCEPT !.loc = <<i, j>>]]]

MkSchema(ns, ds) == [ns |-> ns, loc |-> <<>>, decls |-> [i \in DOMAIN ds |-> Located(i, ds[i])]]

Fld(n, t, num, mods) == [name |-> n, type |-> t, number |-> num, mods |-> mods, loc |-> <<>>]
Val(n, v) == [name |-> n, value |-> v, loc |-> <<>>]
Enum(n, vs)  == [kind |-> "enum", name |-> n, values |-> vs, loc |-> <<>>]
Model(n, fs) == [kind |-> "model", name |-> n, fields |-> fs, loc |-> <<>>]

FieldTypes == {Prim("int8"), Prim("bool"), Prim("string"),
               UserRef("A"), UserRef("B"), UserRef("C")}

FieldNumbers == {0, 1, 18999, 19000, 19999, 268435455, 268435456, 536870911, 536870912}

ShapeFields ==
    {Fld("x", t, 1, m) : t \in FieldTypes, m \in SUBSET Modifiers}
      \cup {Fld("x", t, n, {}) : t \in {Prim("int8"), UserRef("C")}, n \in FieldNumbers}

ShapeSchemas ==
    {MkSchema(<<"a">>, <<Enum("A", <<Val("X", 0)>>), Model("B", <<f>>)>>) : f \in ShapeFields}

ValuePool == {Val(n, v) : n \in {"X", "Y"}, v \in {-1, 0}}

FieldPool == {Fld("x", Prim("int8"), 1, {}), Fld("y", Prim("int8"), 1, {}),
              Fld("x", UserRef("A"), 2, {"repeated"}), Fld("y", UserRef("B"), 3, {"optional"})}

DeclPool ==
    {Enum(n, vs) : n \in {"A", "B"}, vs \in BoundedSeq(ValuePool, 2)}
      \cup {Model(n, fs) : n \in {"A", "B"}, fs \in BoundedSeq(FieldPool, 2)}

StructureSchemas ==
    {MkSchema(ns, ds) : ns \in {<<>>, <<"a">>}, ds \in BoundedSeq(DeclPool, 2)}

MCSchemas == ShapeSchemas \cup StructureSchemas

=============================================================================
