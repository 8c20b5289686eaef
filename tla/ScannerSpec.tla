---------------------------- MODULE ScannerSpec ----------------------------
(***************************************************************************)
(* The token stream of a source text as spec.md 4.1 defines it, written    *)
(* by positions in the text rather than by a moving cursor: skip spacing,  *)
(* line comments and non-nesting block comments; then punctuation, a       *)
(* number (digits, or '-' and digits), an identifier or keyword, a bare    *)
(* '-' or any other character as an invalid token, and end-of-file.  Every *)
(* token carries the location of its first character.                      *)
(***************************************************************************)
EXTENDS Integers, Sequences, FiniteSets

CONSTANTS Alpha, Digits, Space

\* spec.md 4.1: the keyword and primitive-type tokens, each of the kind
\* named after its spelling.
KeywordSpellings ==
    {"namespace", "enum", "model", "optional", "repeated", "packed", "interned", "bitmap",
     "int8", "int16", "int32", "int64", "uint8", "uint16", "uint32", "uint64",
     "float", "double", "bool", "string", "byte"}

KindName ==
    [namespace |-> "NAMESPACE", enum |-> "ENUM", model |-> "MODEL", optional |-> "OPTIONAL",
     repeated |-> "REPEATED", packed |-> "PACKED", interned |-> "INTERNED",
     bitmap |-> "BITMAP", int8 |-> "INT8", int16 |-> "INT16", int32 |-> "INT32",
     int64 |-> "INT64", uint8 |-> "UINT8", uint16 |-> "UINT16", uint32 |-> "UINT32",
     uint64 |-> "UINT64", float |-> "FLOAT", double |-> "DOUBLE", bool |-> "BOOL",
     string |-> "STRING", byte |-> "BYTE"]

Spelled(w, k) == Len(w) = Len(k) /\ \A i \in 1..Len(w) : w[i] = SubSeq(k, i, i)

\* The keyword kind of lexeme w, or IDENTIFIER.
WordKind(w) ==
    IF \E k \in KeywordSpellings : Spelled(w, k)
    THEN KindName[CHOOSE k \in KeywordSpellings : Spelled(w, k)]
    ELSE "IDENTIFIER"

PunctKind == [p \in {";", "=", "{", "}", "."} |->
                CASE p = ";" -> "SEMICOLON" [] p = "=" -> "EQUALS"
                  [] p = "{" -> "LBRACE"    [] p = "}" -> "RBRACE" [] p = "." -> "DOT"]

\* The location of the i-th character (1-based): lines advance on newline,
\* columns count bytes since the last newline.
LocOf(src, i) ==
    LET nls == {j \in 1..(i - 1) : src[j] = "\n"}
        lastNl == IF nls = {} THEN 0 ELSE CHOOSE j \in nls : \A k \in nls : k <= j
    IN  [line |-> Cardinality(nls) + 1, col |-> i - lastNl, offset |-> i - 1]

\* The first index from i on where the character is not in S (Len + 1 if none).
RunEnd(src, i, S) == CHOOSE j \in i..(Len(src) + 1) :
                        /\ \A k \in i..(j - 1) : src[k] \in S
                        /\ (j > Len(src) \/ src[j] \notin S)

\* The index just past the block comment opening at i, or past the end.
BlockEnd(src, i) ==
    LET closes == {j \in (i + 2)..(Len(src) - 1) : src[j] = "*" /\ src[j + 1] = "/"}
    IN  IF closes = {} THEN Len(src) + 1 ELSE (CHOOSE j \in closes : \A k \in closes : j <= k) + 2

At(src, i, str) == i + Len(str) - 1 <= Len(src) /\ SubSeq(src, i, i + Len(str) - 1) = str

\* The index of the next token's first character, or Len + 1.
RECURSIVE SkipFrom(_, _)
SkipFrom(src, i) ==
    IF i > Len(src) THEN i
    ELSE IF src[i] \in Space THEN SkipFrom(src, i + 1)
    ELSE IF At(src, i, <<"/", "/">>)
      THEN SkipFrom(src, RunEnd(src, i, {src[k] : k \in 1..Len(src)} \ {"\n"}))
    ELSE IF At(src, i, <<"/", "*">>) THEN SkipFrom(src, BlockEnd(src, i))
    ELSE i

IdentChars == Alpha \cup Digits \cup {"_"}

\* The index just past the token that starts at i, and its kind.
Lexeme(src, i) ==
    LET ch == src[i] IN
    IF ch \in DOMAIN PunctKind THEN [end |-> i + 1, kind |-> PunctKind[ch]]
    ELSE IF ch \in Digits THEN [end |-> RunEnd(src, i, Digits), kind |-> "NUMBER"]
    ELSE IF ch = "-" /\ i < Len(src) /\ src[i + 1] \in Digits
      THEN [end |-> RunEnd(src, i + 1, Digits), kind |-> "NUMBER"]
    ELSE IF ch \in Alpha \cup {"_"}
      THEN LET e == RunEnd(src, i, IdentChars)
               w == SubSeq(src, i, e - 1)
           IN  [end |-> e, kind |-> WordKind(w)]
    ELSE [end |-> i + 1, kind |-> "INVALID"]

Token(src, kind, i, e) ==
    LET l == LocOf(src, i)
    IN  [type |-> kind, value |-> SubSeq(src, i, e - 1),
         line |-> l.line, col |-> l.col, offset |-> l.offset]

RECURSIVE TokensFrom(_, _)
TokensFrom(src, i) ==
    LET s == SkipFrom(src, i) IN
    IF s > Len(src) THEN <<Token(src, "END_OF_FILE", s, s)>>
    ELSE LET x == Lexeme(src, s)
         IN  <<Token(src, x.kind, s, x.end)>> \o TokensFrom(src, x.end)

\* The token stream of src.
Tokens(src) == TokensFrom(src, 1)

\* A token without its location.
Unlocated(t) == [type |-> t.type, value |-> t.value]

=============================================================================
