------------------------------ MODULE Grammar ------------------------------
(***************************************************************************)
(* The schema grammar of spec.md 4.2, as a reference for the parser.       *)
(*                                                                         *)
(*   schema      = namespace , { declaration } , EOF ;                     *)
(*   namespace   = 'namespace' , ident , { '.' , ident } , ';' ;           *)
(*   enum        = 'enum' , ident , '{' , { ident '=' number ';' } , '}' ; *)
(*   model       = 'model' , ident , '{' , { field } , '}' ;               *)
(*   field       = { modifier } , type , ident , '=' , number , ';' ;      *)
(*                                                                         *)
(* No rule nests inside itself, so the language is regular: Step is its    *)
(* automaton over token types, and a token sequence is in the language iff *)
(* the automaton ends in "accept".  A prefix is viable while the automaton *)
(* is not "dead": the first token that kills it is the one a parse failure *)
(* must point at.  Print is the inverse direction: the tokens of a tree.   *)
(***************************************************************************)
EXTENDS Integers, Sequences, SequencesExt

\* The keyword tokens of spec.md section 3, by the modifier or primitive
\* kind they spell.
ModifierToken == [optional |-> "OPTIONAL", repeated |-> "REPEATED", packed |-> "PACKED",
                  interned |-> "INTERNED", bitmap |-> "BITMAP"]
PrimitiveToken == [int8 |-> "INT8", int16 |-> "INT16", int32 |-> "INT32", int64 |-> "INT64",
                   uint8 |-> "UINT8", uint16 |-> "UINT16", uint32 |-> "UINT32",
                   uint64 |-> "UINT64", float |-> "FLOAT", double |-> "DOUBLE",
                   bool |-> "BOOL", string |-> "STRING", byte |-> "BYTE"]
ModifierTypes  == {ModifierToken[m] : m \in DOMAIN ModifierToken}
PrimitiveTypes == {PrimitiveToken[k] : k \in DOMAIN PrimitiveToken}

\* One transition of the automaton; a missing transition leads to "dead".
Step(q, t) ==
    CASE q = "start"     /\ t = "NAMESPACE"  -> "ns_name"
      [] q = "ns_name"   /\ t = "IDENTIFIER" -> "ns_more"
      [] q = "ns_more"   /\ t = "DOT"        -> "ns_name"
      [] q = "ns_more"   /\ t = "SEMICOLON"  -> "decls"
      [] q = "decls"     /\ t = "END_OF_FILE" -> "accept"
      [] q = "decls"     /\ t = "ENUM"       -> "enum_name"
      [] q = "decls"     /\ t = "MODEL"      -> "model_name"
      [] q = "enum_name" /\ t = "IDENTIFIER" -> "enum_open"
      [] q = "enum_open" /\ t = "LBRACE"     -> "values"
      [] q = "values"    /\ t = "RBRACE"     -> "decls"
      [] q = "values"    /\ t = "IDENTIFIER" -> "value_eq"
      [] q = "value_eq"  /\ t = "EQUALS"     -> "value_num"
      [] q = "value_num" /\ t = "NUMBER"     -> "value_end"
      [] q = "value_end" /\ t = "SEMICOLON"  -> "values"
      [] q = "model_name" /\ t = "IDENTIFIER" -> "model_open"
      [] q = "model_open" /\ t = "LBRACE"    -> "fields"
      [] q = "fields"    /\ t = "RBRACE"     -> "decls"
      [] q \in {"fields", "mods"} /\ t \in ModifierTypes -> "mods"
      [] q \in {"fields", "mods"} /\ t \in PrimitiveTypes \cup {"IDENTIFIER"} -> "field_name"
      [] q = "field_name" /\ t = "IDENTIFIER" -> "field_eq"
      [] q = "field_eq"  /\ t = "EQUALS"     -> "field_num"
      [] q = "field_num" /\ t = "NUMBER"     -> "field_end"
      [] q = "field_end" /\ t = "SEMICOLON"  -> "fields"
      [] OTHER -> "dead"

\* The state after the first k tokens.
RECURSIVE StateAfter(_, _)
StateAfter(ts, k) == IF k = 0 THEN "start" ELSE Step(StateAfter(ts, k - 1), ts[k].type)

InLanguage(ts) == StateAfter(ts, Len(ts)) = "accept"

\* The index of the first token no sentence of the language continues with.
FirstDead(ts) == CHOOSE k \in DOMAIN ts : StateAfter(ts, k) = "dead" /\ StateAfter(ts, k - 1) # "dead"

(***************************************************************************)
(* The tokens of a tree: each node as its rule spells it, modifiers in a   *)
(* fixed order.  A token is [type, value]; locations are added by the      *)
(* caller.                                                                 *)
(***************************************************************************)
T(type, value) == [type |-> type, value |-> value]
K(type) == T(type, type)

ModOrder == <<"optional", "repeated", "packed", "interned", "bitmap">>

PrintType(ty) ==
    IF ty.cat = "prim" THEN <<K(PrimitiveToken[ty.kind])>> ELSE <<T("IDENTIFIER", ty.name)>>

PrintField(f) ==
    LET ms == SelectSeq(ModOrder, LAMBDA m : m \in f.mods)
    IN  [i \in DOMAIN ms |-> K(ModifierToken[ms[i]])] \o PrintType(f.type)
          \o <<T("IDENTIFIER", f.name), K("EQUALS"), T("NUMBER", f.number), K("SEMICOLON")>>

PrintValue(v) == <<T("IDENTIFIER", v.name), K("EQUALS"), T("NUMBER", v.value), K("SEMICOLON")>>

PrintDecl(d) ==
    IF d.kind = "enum"
    THEN <<K("ENUM"), T("IDENTIFIER", d.name), K("LBRACE")>>
           \o FlattenSeq([i \in DOMAIN d.values |-> PrintValue(d.values[i])]) \o <<K("RBRACE")>>
    ELSE <<K("MODEL"), T("IDENTIFIER", d.name), K("LBRACE")>>
           \o FlattenSeq([i \in DOMAIN d.fields |-> PrintField(d.fields[i])]) \o <<K("RBRACE")>>

PrintSchema(s) ==
    <<K("NAMESPACE"), T("IDENTIFIER", s.ns[1])>>
      \o FlattenSeq([i \in 1..(Len(s.ns) - 1) |-> <<K("DOT"), T("IDENTIFIER", s.ns[i + 1])>>])
      \o <<K("SEMICOLON")>>
      \o FlattenSeq([i \in DOMAIN s.decls |-> PrintDecl(s.decls[i])])
      \o <<K("END_OF_FILE")>>

=============================================================================
