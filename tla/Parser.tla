------------------------------- MODULE Parser -------------------------------
(***************************************************************************)
(* The recursive-descent Parser of parser.cpp, run on the token sequence   *)
(* the Lexer hands out.  Its state is the index p of current_token_ in     *)
(* that sequence (the lexer returns END_OF_FILE again after the end), the  *)
(* point pc of the parse_* method it is in, and the tree built so far:     *)
(* the namespace parts, the finished declarations, the declaration and the *)
(* enum value or field being built.  Each action is one statement group of *)
(* a parse_* method: a consume, a loop test, or a check on current_token_. *)
(* error() throws ParseError at current_token_'s location; std::stoi       *)
(* throws std::out_of_range, which carries no location.  Either ends       *)
(* parse_schema() with the exception in result.                           *)
(*                                                                         *)
(* A token is [type, value, loc].  The lexeme of a NUMBER token is its     *)
(* value as an integer when it lies in the range of int, and OutOfRange    *)
(* otherwise: that is all std::stoi distinguishes.                         *)
(***************************************************************************)
EXTENDS Ast, Integers, Sequences

CONSTANTS
    OutOfRange, \* a NUMBER lexeme std::stoi cannot represent as int
    NoLoc,      \* std::out_of_range carries no SourceLocation
    Inputs,     \* [tokens, tree]: token sequences, each ending in END_OF_FILE
    None

VARIABLES
    input,      \* the Lexer's tokens (and the tree they spell, if any)
    p,          \* current_token_ is the p-th token
    pc,         \* where the parser is
    ns,         \* the namespace parts read so far
    decls,      \* schema->declarations
    decl,       \* the EnumDecl or ModelDecl being built
    item,       \* the EnumValue or Field being built
    result      \* None, or what parse_schema() returned or threw

vars == <<input, p, pc, ns, decls, decl, item, result>>

TokenAt(i) == IF i <= Len(input.tokens) THEN input.tokens[i] ELSE input.tokens[Len(input.tokens)]

\* current_token_, and check(type)
Cur == TokenAt(p)
Check(type) == Cur.type = type

\* error(message): throws ParseError at current_token_'s location.
Error ==
    /\ result' = [ok |-> FALSE, exc |-> "ParseError", loc |-> Cur.loc]
    /\ pc' = "thrown"
    /\ UNCHANGED p

\* consume(type) when current_token_ has that type: advance().
Consumed(type, next) ==
    /\ Check(type)
    /\ p' = p + 1
    /\ pc' = next
    /\ UNCHANGED result

\* consume(type) when it has not: error().
Missing(type) == ~Check(type) /\ Error

\* std::stoi(number_token.value) throws std::out_of_range.
StoiThrows(tok) == tok.value = OutOfRange

OutOfRangeThrown ==
    /\ result' = [ok |-> FALSE, exc |-> "out_of_range", loc |-> NoLoc]
    /\ pc' = "thrown"

\* is_field_modifier, and the bit parse_modifiers sets for each.
ModifierOf == [OPTIONAL |-> "optional", REPEATED |-> "repeated", PACKED |-> "packed",
               INTERNED |-> "interned", BITMAP |-> "bitmap"]

\* is_primitive_type, and token_to_primitive_type.
PrimitiveOf == [INT8 |-> "int8", INT16 |-> "int16", INT32 |-> "int32", INT64 |-> "int64",
                UINT8 |-> "uint8", UINT16 |-> "uint16", UINT32 |-> "uint32",
                UINT64 |-> "uint64", FLOAT |-> "float", DOUBLE |-> "double",
                BOOL |-> "bool", STRING |-> "string", BYTE |-> "byte"]

\* Parser(lexer) reads the first token.
Init ==
    /\ input \in Inputs
    /\ p = 1
    /\ pc = "namespace"
    /\ ns = <<>>
    /\ decls = <<>>
    /\ decl = None
    /\ item = None
    /\ result = None

\* A consume(type, ...) statement of parse_namespace, parse_enum,
\* parse_model or parse_field that keeps nothing of the token.
Expect(at, type, next) ==
    /\ pc = at
    /\ Consumed(type, next) \/ Missing(type)
    /\ UNCHANGED <<input, ns, decls, decl, item>>

\* parse_namespace: consume(IDENTIFIER), the first part or one after '.'.
NamespacePart ==
    /\ pc = "ns_part"
    /\ \/ Consumed("IDENTIFIER", "ns_dots") /\ ns' = Append(ns, Cur.value)
       \/ Missing("IDENTIFIER") /\ UNCHANGED ns
    /\ UNCHANGED <<input, decls, decl, item>>

\* parse_namespace: while (match(DOT)) ..., then consume(SEMICOLON).
NamespaceEnd ==
    /\ pc = "ns_dots"
    /\ \/ Consumed("DOT", "ns_part")
       \/ ~Check("DOT") /\ (Consumed("SEMICOLON", "decls") \/ Missing("SEMICOLON"))
    /\ UNCHANGED <<input, ns, decls, decl, item>>

\* The loop of parse_schema: return the schema at END_OF_FILE, otherwise
\* parse_declaration, which begins parse_enum or parse_model (each reads
\* its location and consumes the keyword) or calls error().
Declaration ==
    /\ pc = "decls"
    /\ \/ /\ Check("END_OF_FILE")
          /\ result' = [ok |-> TRUE, val |-> [ns |-> ns, loc |-> TokenAt(1).loc, decls |-> decls]]
          /\ pc' = "returned"
          /\ UNCHANGED <<p, decl>>
       \/ /\ Consumed("ENUM", "decl_name")
          /\ decl' = [kind |-> "enum", name |-> None, values |-> <<>>, loc |-> Cur.loc]
       \/ /\ Consumed("MODEL", "decl_name")
          /\ decl' = [kind |-> "model", name |-> None, fields |-> <<>>, loc |-> Cur.loc]
       \/ /\ ~Check("END_OF_FILE") /\ ~Check("ENUM") /\ ~Check("MODEL")
          /\ Error
          /\ UNCHANGED decl
    /\ UNCHANGED <<input, ns, decls, item>>

\* parse_enum / parse_model: consume(IDENTIFIER), the declaration's name.
DeclarationName ==
    /\ pc = "decl_name"
    /\ \/ Consumed("IDENTIFIER", "decl_open") /\ decl' = [decl EXCEPT !.name = Cur.value]
       \/ Missing("IDENTIFIER") /\ UNCHANGED decl
    /\ UNCHANGED <<input, ns, decls, item>>

\* while (!check(RBRACE) && !check(END_OF_FILE)) of parse_enum and
\* parse_model: begin a value or a field at current_token_'s location, or
\* leave the loop and consume(RBRACE).
Body ==
    /\ pc = "body"
    /\ \/ /\ ~Check("RBRACE") /\ ~Check("END_OF_FILE") /\ decl.kind = "enum"
          /\ item' = [name |-> None, value |-> None, loc |-> Cur.loc]
          /\ pc' = "value_name"
          /\ UNCHANGED <<p, result, decls>>
       \/ /\ ~Check("RBRACE") /\ ~Check("END_OF_FILE") /\ decl.kind = "model"
          /\ item' = [name |-> None, type |-> None, number |-> None, mods |-> {}, loc |-> Cur.loc]
          /\ pc' = "modifiers"
          /\ UNCHANGED <<p, result, decls>>
       \/ Consumed("RBRACE", "decls") /\ decls' = Append(decls, decl) /\ UNCHANGED item
       \/ Check("END_OF_FILE") /\ Error /\ UNCHANGED <<decls, item>>
    /\ UNCHANGED <<input, ns, decl>>

\* Mutant: the value's location read after its name was consumed.
ValueNameLocAfter ==
    /\ pc = "value_name"
    /\ \/ /\ Consumed("IDENTIFIER", "value_eq")
          /\ item' = [item EXCEPT !.name = Cur.value, !.loc = TokenAt(p + 1).loc]
       \/ Missing("IDENTIFIER") /\ UNCHANGED item
    /\ UNCHANGED <<input, ns, decls, decl>>

\* parse_enum: consume(IDENTIFIER), the value's name.
ValueName ==
    /\ pc = "value_name"
    /\ \/ Consumed("IDENTIFIER", "value_eq") /\ item' = [item EXCEPT !.name = Cur.value]
       \/ Missing("IDENTIFIER") /\ UNCHANGED item
    /\ UNCHANGED <<input, ns, decls, decl>>

\* consume(NUMBER) then std::stoi, for an enum value or a field number;
\* the number goes into item[key].
Number(at, key, next) ==
    /\ pc = at
    /\ \/ /\ Check("NUMBER") /\ ~StoiThrows(Cur)
          /\ Consumed("NUMBER", next)
          /\ item' = [item EXCEPT ![key] = Cur.value]
       \/ Check("NUMBER") /\ StoiThrows(Cur) /\ OutOfRangeThrown /\ p' = p + 1 /\ UNCHANGED item
       \/ Missing("NUMBER") /\ UNCHANGED item
    /\ UNCHANGED <<input, ns, decls, decl>>

\* parse_enum and parse_field: consume(SEMICOLON), then the value or the
\* field is pushed back onto the declaration.
ItemEnd(at, key) ==
    /\ pc = at
    /\ \/ /\ Consumed("SEMICOLON", "body")
          /\ decl' = [decl EXCEPT ![key] = Append(@, item)]
       \/ Missing("SEMICOLON") /\ UNCHANGED decl
    /\ UNCHANGED <<input, ns, decls, item>>

\* Mutant: parse_modifiers with if in place of while.
ParseModifiersOnce ==
    /\ pc = "modifiers"
    /\ \/ /\ Cur.type \in DOMAIN ModifierOf
          /\ item' = [item EXCEPT !.mods = @ \cup {ModifierOf[Cur.type]}]
          /\ p' = p + 1
          /\ pc' = "type"
       \/ Cur.type \notin DOMAIN ModifierOf /\ pc' = "type" /\ UNCHANGED <<p, item>>
    /\ UNCHANGED <<input, ns, decls, decl, result>>

\* parse_modifiers: while (is_field_modifier(current_token_.type)) set the
\* modifier's bit (a repeated modifier sets it again) and advance().
ParseModifiers ==
    /\ pc = "modifiers"
    /\ \/ /\ Cur.type \in DOMAIN ModifierOf
          /\ item' = [item EXCEPT !.mods = @ \cup {ModifierOf[Cur.type]}]
          /\ p' = p + 1
          /\ UNCHANGED pc
       \/ Cur.type \notin DOMAIN ModifierOf /\ pc' = "type" /\ UNCHANGED <<p, item>>
    /\ UNCHANGED <<input, ns, decls, decl, result>>

\* parse_type: a primitive type token, an identifier (a user type), or
\* error().
ParseType ==
    /\ pc = "type"
    /\ \/ /\ Cur.type \in DOMAIN PrimitiveOf
          /\ item' = [item EXCEPT !.type = Prim(PrimitiveOf[Cur.type])]
          /\ p' = p + 1 /\ pc' = "field_name" /\ UNCHANGED result
       \/ /\ Check("IDENTIFIER")
          /\ item' = [item EXCEPT !.type = UserRef(Cur.value)]
          /\ p' = p + 1 /\ pc' = "field_name" /\ UNCHANGED result
       \/ Cur.type \notin DOMAIN PrimitiveOf /\ ~Check("IDENTIFIER") /\ Error /\ UNCHANGED item
    /\ UNCHANGED <<input, ns, decls, decl>>

\* parse_field: consume(IDENTIFIER), the field's name.
FieldName ==
    /\ pc = "field_name"
    /\ \/ Consumed("IDENTIFIER", "field_eq") /\ item' = [item EXCEPT !.name = Cur.value]
       \/ Missing("IDENTIFIER") /\ UNCHANGED item
    /\ UNCHANGED <<input, ns, decls, decl>>

Next ==
    \/ Expect("namespace", "NAMESPACE", "ns_part")
    \/ NamespacePart
    \/ NamespaceEnd
    \/ Declaration
    \/ DeclarationName
    \/ Expect("decl_open", "LBRACE", "body")
    \/ Body
    \/ ValueName
    \/ Expect("value_eq", "EQUALS", "value_num")
    \/ Number("value_num", "value", "value_end")
    \/ ItemEnd("value_end", "values")
    \/ ParseModifiers
    \/ ParseType
    \/ FieldName
    \/ Expect("field_eq", "EQUALS", "field_num")
    \/ Number("field_num", "number", "field_end")
    \/ ItemEnd("field_end", "fields")

\* parse_schema() returns or throws, and the parser stops there.
Spec == Init /\ [][Next]_vars

=============================================================================
