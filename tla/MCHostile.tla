----------------------------- MODULE MCHostile -----------------------------
(***************************************************************************)
(*   model Inner { int8 a = 1; }                                           *)
(*   model Msg { string s = 1; Inner in = 2; repeated Inner items = 3; }   *)
(*                                                                         *)
(* called on every buffer of up to three bytes over an alphabet that holds *)
(* a tag of each known field (8: field 1, 18: field 2, 26: field 3), tags  *)
(* of unknown field 0 with wire types 2, 3 and 5, small lengths and        *)
(* values (0, 2) and a byte with the continuation bit (130).               *)
(***************************************************************************)
EXTENDS Hostile

F(n, t, num, mods) == [name |-> n, type |-> t, number |-> num, mods |-> mods]

HostileDecls ==
  << [kind |-> "model", name |-> "Inner", fields |-> <<F("a", Prim("int8"), 1, {})>>],
     [kind |-> "model", name |-> "Msg", fields |->
        << F("s",     Prim("string"),   1, {}),
           F("in",    UserRef("Inner"), 2, {}),
           F("items", UserRef("Inner"), 3, {"repeated"}) >>] >>

Alphabet == {0, 2, 3, 5, 8, 18, 26, 130}

HostileInputs == UNION {[1..n -> Alphabet] : n \in 0..3}

\* An unknown field 0 of wire type 2 (tag 2) whose three-byte length,
\* 2^15 - 4, brings pos + length to 2^15: the cursor wraps to 0 at the
\* model's 15-bit width.  With the code's 64-bit size_t the same buffer is
\* the tag and a ten-byte length of 2^64 - 11, eleven bytes in all.
WrapInputs == {<<2, 252, 255, 1>>}

WrappingInputs == HostileInputs \cup WrapInputs

\* Buffers that are well formed but for an unknown field of wire type 3.
UnskippableInputs == {<<3>>, <<8, 0, 3>>, <<3, 8, 0>>}

=============================================================================
