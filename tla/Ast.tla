-------------------------------- MODULE Ast --------------------------------
(***************************************************************************)
(* The syntax tree of a schema (ast.hpp / ast.cpp), as the later stages    *)
(* read it.  A declaration is a record                                     *)
(*   [kind |-> "enum",  name |-> n, values |-> <<[name, value], ...>>]     *)
(*   [kind |-> "model", name |-> n, fields |-> <<field, ...>>]             *)
(* and a field is [name, type, number, mods] where type is                 *)
(*   [cat |-> "prim", kind |-> k]   or   [cat |-> "user", name |-> n]      *)
(* and mods is a subset of Modifiers (the uint8_t bitset of ast.hpp).      *)
(* Source locations are left out: no property here is about them.         *)
(***************************************************************************)
EXTENDS Integers, Sequences

\* The 13 PrimitiveTypeKind values.
PrimKinds == {"int8", "int16", "int32", "int64", "uint8", "uint16", "uint32",
              "uint64", "float", "double", "bool", "string", "byte"}

\* FieldModifierFlags: MOD_OPTIONAL .. MOD_BITMAP.
Modifiers == {"optional", "repeated", "packed", "interned", "bitmap"}

Prim(k)     == [cat |-> "prim", kind |-> k]
UserRef(n)  == [cat |-> "user", name |-> n]

\* Type::is_primitive
IsPrimitive(t) == t.cat = "prim"

\* Field::is_optional .. Field::is_bitmap (has_modifier)
Has(f, m) == m \in f.mods

\* Schema::find_enum / Schema::find_model: the first declaration of that
\* kind with that name, in declaration order, or NoDecl.
NoDecl == [kind |-> "none", name |-> "none"]

FindDecl(decls, kind, n) ==
    LET hits == {i \in DOMAIN decls : decls[i].kind = kind /\ decls[i].name = n}
    IN  IF hits = {} THEN NoDecl
        ELSE decls[CHOOSE i \in hits : \A j \in hits : i <= j]

FindEnum(decls, n)  == FindDecl(decls, "enum", n)
FindModel(decls, n) == FindDecl(decls, "model", n)

=============================================================================
