------------------------------ MODULE Parsing ------------------------------
(***************************************************************************)
(* compile_schema builds a Parser on the Lexer and calls parse_schema()    *)
(* once; an exception it throws ends the compilation in main's catch.      *)
(* This module compares what parse_schema() returned or threw (module      *)
(* Parser) with the grammar of spec.md 4.2 (module Grammar), on token      *)
(* sequences with and without the tree they were printed from.            *)
(***************************************************************************)
EXTENDS Parser, Grammar, FiniteSets

Done == result # None

\* The tokens without their locations, and a tree without its locations.
Text(ts) == [i \in DOMAIN ts |-> [type |-> ts[i].type, value |-> ts[i].value]]

Strip(r) == [x \in DOMAIN r \ {"loc"} |-> r[x]]
Unlocated(s) ==
    [Strip(s) EXCEPT !.decls =
        [i \in DOMAIN @ |->
            IF @[i].kind = "enum"
            THEN [Strip(@[i]) EXCEPT !.values = [j \in DOMAIN @ |-> Strip(@[j])]]
            ELSE [Strip(@[i]) EXCEPT !.fields = [j \in DOMAIN @ |-> Strip(@[j])]]]]

\* The text of a node starts at the token its loc names.
SpelledAt(ts, loc, spelled) ==
    loc + Len(spelled) - 1 <= Len(ts) /\ SubSeq(Text(ts), loc, loc + Len(spelled) - 1) = spelled

HasOutOfRange(ts) == \E i \in DOMAIN ts : ts[i].type = "NUMBER" /\ ts[i].value = OutOfRange

(***************************************************************************)
(* Properties.                                                             *)
(***************************************************************************)

\* parse_schema() accepts exactly the sentences of the grammar, and on any
\* other token sequence throws one ParseError at the first token no
\* sentence continues with (consume, parse_type, parse_declaration and the
\* loops that stop at END_OF_FILE all fail at the same token).
ParserAgreesWithGrammar ==
    (Done /\ ~HasOutOfRange(input.tokens)) =>
        /\ result.ok <=> InLanguage(input.tokens)
        /\ ~result.ok => /\ result.exc = "ParseError"
                         /\ result.loc = input.tokens[FirstDead(input.tokens)].loc

\* On the text of a tree, parse_schema() returns that tree, and each
\* declaration, enum value and field it built carries the location of the
\* first token of its own text (the location read before parse_modifiers,
\* parse_enum and parse_model consume anything).
ParsePrintsBack ==
    (Done /\ input.tree # None) =>
        /\ result.ok
        /\ Unlocated(result.val) = input.tree
        /\ \A i \in DOMAIN result.val.decls :
             LET d == result.val.decls[i]
             IN  /\ SpelledAt(input.tokens, d.loc, PrintDecl(input.tree.decls[i]))
                 /\ d.kind = "enum" =>
                      \A j \in DOMAIN d.values : SpelledAt(input.tokens, d.values[j].loc, PrintValue(input.tree.decls[i].values[j]))
                 /\ d.kind = "model" =>
                      \A j \in DOMAIN d.fields : SpelledAt(input.tokens, d.fields[j].loc, PrintField(input.tree.decls[i].fields[j]))

\* Every way parse_schema() fails is a parse failure carrying a location,
\* an out-of-range number included (spec.md 4.2: "out-of-range or malformed
\* numbers raise a parse failure with the token's location").
ParseFailuresLocated ==
    (Done /\ ~result.ok) => result.exc = "ParseError"

=============================================================================
