------------------------------- MODULE Lexer -------------------------------
(***************************************************************************)
(* The scanner of lexer.cpp: a cursor over the source text (position_,     *)
(* line_, column_) and a one-token look-ahead buffer (peeked_token_).      *)
(* next_token() and peek_token() are its two operations; every helper it   *)
(* calls (skip_whitespace_and_comments, read_identifier_or_keyword,        *)
(* read_number, make_token, advance) is an operator on the cursor, and one *)
(* call of an operation is one step.                                       *)
(*                                                                         *)
(* Data abstraction.  The source text is a sequence of one-character     *)
(* strings over a small alphabet; a lexeme is the sub-sequence of the      *)
(* source it spans.  The character classes of <cctype> are the sets Alpha, Digits    *)
(* and Space.  The keyword table is KeywordTable, from the spelling of a   *)
(* keyword to its TokenType; Keywords looks a lexeme up in it.            *)
(***************************************************************************)
EXTENDS Integers, Sequences

CONSTANTS
    Sources,    \* the texts a Lexer may be constructed on
    Alpha,      \* characters std::isalpha accepts
    Digits,     \* characters std::isdigit accepts
    Space,      \* characters std::isspace accepts
    NoToken,    \* an empty std::optional<Token>
    MaxCalls    \* bound on the number of next_token() calls

VARIABLES
    source,     \* source_: the text given to Lexer(std::string_view)
    cur,        \* [pos, line, col]: position_ (0-based), line_, column_
    peeked,     \* peeked_token_
    taken,      \* number of next_token() calls so far
    last        \* the token the last call returned, NoToken before any

vars == <<source, cur, peeked, taken, last>>

\* current_char() / peek_char(k): the character, or NUL ('\0') past the end.
CharAt(c, k) == IF c.pos + k < Len(source) THEN source[c.pos + k + 1] ELSE "NUL"
AtEnd(c) == c.pos >= Len(source)

\* Variant: a newline counted as a column like any other byte.
AdvanceFlat(c) == IF AtEnd(c) THEN c ELSE [c EXCEPT !.pos = @ + 1, !.col = @ + 1]

\* advance(): one character forward; a newline moves to column 1 of the
\* next line.
Advance(c) ==
    IF AtEnd(c) THEN c
    ELSE IF CharAt(c, 0) = "\n" THEN [pos |-> c.pos + 1, line |-> c.line + 1, col |-> 1]
    ELSE [c EXCEPT !.pos = @ + 1, !.col = @ + 1]

\* Advance while the current character is in S (the while loops of
\* skip_line_comment, read_identifier_or_keyword and read_number).
RECURSIVE AdvanceWhile(_, _)
AdvanceWhile(c, S) == IF ~AtEnd(c) /\ CharAt(c, 0) \in S THEN AdvanceWhile(Advance(c), S) ELSE c

\* skip_block_comment() after the opening "/*": up to and past "*/", or to
\* the end of the input.
RECURSIVE BlockBody(_)
BlockBody(c) ==
    IF AtEnd(c) THEN c
    ELSE IF CharAt(c, 0) = "*" /\ CharAt(c, 1) = "/" THEN Advance(Advance(c))
    ELSE BlockBody(Advance(c))

NotNewline == {source[i] : i \in DOMAIN source} \ {"\n"}

RECURSIVE SkipWhitespaceAndComments(_)
SkipWhitespaceAndComments(c) ==
    IF AtEnd(c) THEN c
    ELSE IF CharAt(c, 0) \in Space THEN SkipWhitespaceAndComments(Advance(c))
    ELSE IF CharAt(c, 0) = "/" /\ CharAt(c, 1) = "/"
      THEN SkipWhitespaceAndComments(AdvanceWhile(Advance(Advance(c)), NotNewline))
    ELSE IF CharAt(c, 0) = "/" /\ CharAt(c, 1) = "*"
      THEN SkipWhitespaceAndComments(BlockBody(Advance(Advance(c))))
    ELSE c

\* Token(type, value, location) with location = [line, col, offset].
Tok(type, from, to, loc) ==
    [type |-> type, value |-> SubSeq(source, from.pos + 1, to.pos),
     line |-> loc.line, col |-> loc.col, offset |-> loc.pos]

\* The keywords table of lexer.cpp: keywords, then primitive types.
KeywordTable ==
    [namespace |-> "NAMESPACE", enum |-> "ENUM", model |-> "MODEL",
     optional |-> "OPTIONAL", repeated |-> "REPEATED", packed |-> "PACKED",
     interned |-> "INTERNED", bitmap |-> "BITMAP",
     int8 |-> "INT8", int16 |-> "INT16", int32 |-> "INT32", int64 |-> "INT64",
     uint8 |-> "UINT8", uint16 |-> "UINT16", uint32 |-> "UINT32", uint64 |-> "UINT64",
     float |-> "FLOAT", double |-> "DOUBLE", bool |-> "BOOL", string |-> "STRING",
     byte |-> "BYTE"]

\* A string as the sequence of its one-character strings.
Chars(str) == [k \in 1..Len(str) |-> SubSeq(str, k, k)]

\* keyword_or_identifier's keywords.find(word), by lexeme.
Keywords ==
    [w \in {Chars(k) : k \in DOMAIN KeywordTable} |->
        KeywordTable[CHOOSE k \in DOMAIN KeywordTable : Chars(k) = w]]

\* is_identifier_start
IdentStart == Alpha \cup {"_"}

\* is_identifier_continue
IdentContinue == Alpha \cup Digits \cup {"_"}

\* read_identifier_or_keyword(): keyword_or_identifier on the lexeme.
ReadIdentifierOrKeyword(c) ==
    LET e == AdvanceWhile(c, IdentContinue)
        w == SubSeq(source, c.pos + 1, e.pos)
    IN  [tok |-> Tok(IF w \in DOMAIN Keywords THEN Keywords[w] ELSE "IDENTIFIER", c, e, c),
         cur |-> e]

\* read_number(): an optional '-', then digits.
ReadNumber(c) ==
    LET s == IF CharAt(c, 0) = "-" THEN Advance(c) ELSE c
        e == AdvanceWhile(s, Digits)
    IN  [tok |-> Tok("NUMBER", c, e, c), cur |-> e]

Punct == [p \in {";", "=", "{", "}", "."} |->
            CASE p = ";" -> "SEMICOLON" [] p = "=" -> "EQUALS" [] p = "{" -> "LBRACE"
              [] p = "}" -> "RBRACE"    [] p = "." -> "DOT"]

(***************************************************************************)
(* The body of next_token() below the peeked-token check: skip, then end   *)
(* of file, punctuation, '-', identifier, number, or an invalid character. *)
(* make_token stamps current_location(), the cursor after advance().       *)
(***************************************************************************)
Scan(c0) ==
    LET c  == SkipWhitespaceAndComments(c0)
        ch == CharAt(c, 0)
        a  == Advance(c)
    IN  IF AtEnd(c) THEN [tok |-> Tok("END_OF_FILE", c, c, c), cur |-> c]
        ELSE IF ch \in DOMAIN Punct THEN [tok |-> Tok(Punct[ch], c, a, a), cur |-> a]
        ELSE IF ch = "-" /\ CharAt(c, 1) \in Digits THEN ReadNumber(c)
        ELSE IF ch = "-" THEN [tok |-> Tok("INVALID", c, a, a), cur |-> a]
        ELSE IF ch \in IdentStart THEN ReadIdentifierOrKeyword(c)
        ELSE IF ch \in Digits THEN ReadNumber(c)
        ELSE [tok |-> Tok("INVALID", c, a, a), cur |-> a]

\* Lexer(std::string_view source)
Init ==
    /\ source \in Sources
    /\ cur = [pos |-> 0, line |-> 1, col |-> 1]
    /\ peeked = NoToken
    /\ taken = 0
    /\ last = NoToken

\* next_token(): the buffered token if there is one, else a scan.
NextToken ==
    /\ taken < MaxCalls
    /\ taken' = taken + 1
    /\ UNCHANGED source
    /\ IF peeked # NoToken
         THEN /\ last' = peeked
              /\ peeked' = NoToken
              /\ UNCHANGED cur
         ELSE LET r == Scan(cur)
              IN  /\ last' = r.tok
                  /\ cur' = r.cur
                  /\ UNCHANGED peeked

\* peek_token(): scan into the buffer if it is empty, return the buffer.
PeekToken ==
    /\ IF peeked = NoToken
         THEN LET r == Scan(cur)
              IN  /\ peeked' = r.tok
                  /\ cur' = r.cur
         ELSE UNCHANGED <<peeked, cur>>
    /\ last' = IF peeked = NoToken THEN Scan(cur).tok ELSE peeked
    /\ UNCHANGED <<source, taken>>

Next == NextToken \/ PeekToken

\* The caller (the parser) keeps calling until it has what it needs.
Spec == Init /\ [][Next]_vars

=============================================================================
