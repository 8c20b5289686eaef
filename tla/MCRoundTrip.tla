---------------------------- MODULE MCRoundTrip ----------------------------
(***************************************************************************)
(* A schema with every field shape the emitted code round-trips:           *)
(*                                                                         *)
(*   enum Role { GUEST = 0; ADMIN = 200; }          // 200: 2-byte varint  *)
(*   model Inner { int8 a = 1; repeated int8 xs = 2; }                     *)
(*   model Outer { int8 n = 2; optional bool flag = 3;                     *)
(*                 repeated Role roles = 4; Inner inner = 5;               *)
(*                 optional Inner opt = 6; repeated Inner items = 7;       *)
(*                 Role role = 8; uint8 u = 20;      // tag 160: 2 bytes   *)
(*                 string name = 1; }       // declared last, written last *)
(*                                                                         *)
(* The values reach the edges of the encoding: -1 and -128 sign-extend to  *)
(* a full-width varint, 200 and 255 need two bytes, an empty string and   *)
(* an empty repeated field write nothing or a zero length.                 *)
(***************************************************************************)
EXTENDS RoundTrip

F(n, t, num, mods) == [name |-> n, type |-> t, number |-> num, mods |-> mods]

MCDecls ==
  << [kind |-> "enum", name |-> "Role",
      values |-> <<[name |-> "GUEST", value |-> 0], [name |-> "ADMIN", value |-> 200]>>],
     [kind |-> "model", name |-> "Inner",
      fields |-> <<F("a", Prim("int8"), 1, {}), F("xs", Prim("int8"), 2, {"repeated"})>>],
     [kind |-> "model", name |-> "Outer", fields |->
        << F("n",     Prim("int8"),    2, {}),
           F("flag",  Prim("bool"),    3, {"optional"}),
           F("roles", UserRef("Role"), 4, {"repeated"}),
           F("inner", UserRef("Inner"), 5, {}),
           F("opt",   UserRef("Inner"), 6, {"optional"}),
           F("items", UserRef("Inner"), 7, {"repeated"}),
           F("role",  UserRef("Role"), 8, {}),
           F("u",     Prim("uint8"),   20, {}),
           F("name",  Prim("string"),  1, {}) >>] >>

MCMessages ==
  [name: {<<>>, <<97>>}, n: {-1}, flag: {None, TRUE},
   roles: {<<>>, <<0, 200>>}, inner: {[a |-> -128, xs |-> <<>>], [a |-> 0, xs |-> <<1>>]},
   opt: {None, [a |-> 5, xs |-> <<>>]}, items: {<<>>, <<[a |-> -1, xs |-> <<>>]>>},
   role: {200}, u: {255}]

\* A fresh object, and one a previous deserialize() filled in.
MCTargets ==
  { DefaultObj("Outer"),
    [name |-> <<98>>, n |-> 7, flag |-> FALSE, roles |-> <<200>>,
     inner |-> [a |-> 3, xs |-> <<4>>], opt |-> [a |-> 1, xs |-> <<>>], items |-> <<[a |-> 2, xs |-> <<>>]>>,
     role |-> 0, u |-> 1] }

(***************************************************************************)
(* A later version of Outer, as a writer generated from it sends it:       *)
(* fields 9..11 are new, a string, an integer and a model, and sit between *)
(* the old fields.                                                         *)
(***************************************************************************)
OuterFields == MCDecls[3].fields

V2Decls(new) ==
  [MCDecls EXCEPT ![3].fields = SubSeq(OuterFields, 1, 8) \o new \o <<OuterFields[9]>>]

EvolvedDecls ==
  V2Decls(<< F("note",  Prim("string"),  9, {}),
             F("level", Prim("int8"),   10, {}),
             F("extra", UserRef("Inner"), 11, {}) >>)

EvolvedMessages ==
  [name: {<<97>>}, n: {-1}, flag: {None, TRUE}, roles: {<<0, 200>>},
   inner: {[a |-> -128, xs |-> <<>>]}, opt: {None, [a |-> 5, xs |-> <<>>]}, items: {<<[a |-> -1, xs |-> <<>>]>>},
   role: {200}, u: {255},
   note: {<<>>, <<99, 100>>}, level: {-1, 3}, extra: {[a |-> 1, xs |-> <<>>]}]

\* The same evolution with a repeated enum field (tag with wire type 2).
EnumEvolvedDecls == V2Decls(<< F("more", UserRef("Role"), 9, {"repeated"}) >>)

EnumEvolvedMessages ==
  [name: {<<97>>}, n: {-1}, flag: {None}, roles: {<<>>}, inner: {[a |-> 0, xs |-> <<>>]},
   opt: {None}, items: {<<>>}, role: {200}, u: {255}, more: {<<>>, <<0>>, <<200>>}]

\* The same evolution with a byte field (declared uint8_t, wire type 2).
ByteEvolvedDecls == V2Decls(<< F("b", Prim("byte"), 9, {}) >>)

ByteEvolvedMessages ==
  [name: {<<97>>}, n: {-1}, flag: {None}, roles: {<<>>}, inner: {[a |-> 0, xs |-> <<>>]},
   opt: {None}, items: {<<>>}, role: {200}, u: {255}, b: {0, 1, 2}]

(***************************************************************************)
(* Repeated packed int8 and bool fields, and a singular float field.      *)
(***************************************************************************)
PackedDecls ==
  << [kind |-> "model", name |-> "Samples",
      fields |-> <<F("xs", Prim("int8"), 1, {"repeated", "packed"}),
                   F("bs", Prim("bool"), 2, {"repeated", "packed"})>>] >>

PackedMessages == [xs: {<<>>, <<1>>, <<1, 2>>}, bs: {<<>>, <<TRUE>>}]

PackedTargets == {DefaultObj("Samples")}

FloatDecls ==
  << [kind |-> "model", name |-> "Reading",
      fields |-> <<F("x", Prim("float"), 1, {})>>] >>

\* 0.0, 1.0 and 1.5, in halves.
FloatMessages == [x: {0, 2, 3}]

FloatTargets == {DefaultObj("Reading")}

=============================================================================
