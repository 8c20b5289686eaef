----------------------------- MODULE MCParsing -----------------------------
(***************************************************************************)
(* Token sequences for the parser.                                         *)
(*  - Sentences: the text of every tree with a one- or two-part namespace  *)
(*    and up to two declarations from a pool (empty and non-empty enums    *)
(*    and models; modifiers, primitive and user types, negative values).   *)
(*  - Near-sentences: the text of every tree with at most one declaration *)
(*    with one token deleted, replaced or inserted, cut after the first    *)
(*    END_OF_FILE as the lexer would (and given one if it has none).       *)
(*  - Out-of-range numbers: a sentence with one NUMBER lexeme too long for *)
(*    int.                                                                 *)
(* A token's location is its index: nothing here needs lines and columns. *)
(***************************************************************************)
EXTENDS Parsing

Fld(n, t, num, mods) == [name |-> n, type |-> t, number |-> num, mods |-> mods]
Val(n, v)    == [name |-> n, value |-> v]
Enum(n, vs)  == [kind |-> "enum", name |-> n, values |-> vs]
Model(n, fs) == [kind |-> "model", name |-> n, fields |-> fs]

DeclPool ==
    { Enum("E", <<>>), Enum("E", <<Val("X", 1), Val("Y", -2)>>), Model("M", <<>>),
      Model("M", <<Fld("x", Prim("int8"), 1, {"repeated", "packed"})>>),
      Model("M", <<Fld("y", UserRef("E"), 2, {"optional"}), Fld("z", Prim("bool"), 3, {})>>) }

Tree(parts, ds) == [ns |-> parts, decls |-> ds]

Trees      == {Tree(n, ds) : n \in {<<"a">>, <<"a", "b">>}, ds \in BoundedSeq(DeclPool, 2)}
SmallTrees == {Tree(n, ds) : n \in {<<"a">>, <<"a", "b">>}, ds \in BoundedSeq(DeclPool, 1)}

Located(text) == [i \in DOMAIN text |-> [type |-> text[i].type, value |-> text[i].value, loc |-> i]]

\* What the lexer hands out: up to the first END_OF_FILE, with locations.
Lexed(text) ==
    LET eofs == {i \in DOMAIN text : text[i].type = "END_OF_FILE"}
        cut  == IF eofs = {} THEN Append(text, K("END_OF_FILE"))
                ELSE SubSeq(text, 1, CHOOSE i \in eofs : \A j \in eofs : i <= j)
    IN  Located(cut)

Alphabet ==
    { K("NAMESPACE"), K("ENUM"), K("MODEL"), K("OPTIONAL"), K("INT8"), K("SEMICOLON"),
      K("EQUALS"), K("LBRACE"), K("RBRACE"), K("DOT"), T("IDENTIFIER", "q"),
      T("NUMBER", 7), K("END_OF_FILE"), K("INVALID") }

Mutations(text) ==
    {SubSeq(text, 1, i - 1) \o SubSeq(text, i + 1, Len(text)) : i \in DOMAIN text}
      \cup {[text EXCEPT ![i] = a] : i \in DOMAIN text, a \in Alphabet}
      \cup {SubSeq(text, 1, i) \o <<a>> \o SubSeq(text, i + 1, Len(text)) : i \in 0..Len(text), a \in Alphabet}

Sentences == {[tokens |-> Located(PrintSchema(t)), tree |-> t] : t \in Trees}

NearSentences ==
    {[tokens |-> Lexed(m), tree |-> None] :
        m \in UNION {Mutations(PrintSchema(t)) : t \in SmallTrees}}

OutOfRangeInputs ==
    UNION {LET ts == Located(PrintSchema(t))
           IN  {[tokens |-> [ts EXCEPT ![i].value = OutOfRange], tree |-> None] :
                   i \in {k \in DOMAIN ts : ts[k].type = "NUMBER"}} : t \in SmallTrees}

MCInputs == Sentences \cup NearSentences \cup OutOfRangeInputs

=============================================================================
