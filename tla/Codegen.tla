------------------------------ MODULE Codegen ------------------------------
(***************************************************************************)
(* What the code emitted by CodeGenerator (codegen.cpp) computes on the    *)
(* wire.  The emitter is a generator of C++ text; the text itself is       *)
(* formatting, and what matters is the behaviour of the emitted            *)
(* serialize() and of the pieces of the emitted deserialize(), so this    *)
(* module models, for every field shape the emitter distinguishes, the     *)
(* bytes the emitted serialize() appends and the values the emitted        *)
(* deserialize() decodes.  The deserialize loop itself is the state        *)
(* machine of module Deserializer.                                         *)
(*                                                                         *)
(* Data abstraction.                                                       *)
(*  - The uint64_t register of the emitted code is RegBits wide (64 in the *)
(*    code).  A model with RegBits = 15 keeps the shape of the 64-bit      *)
(*    one: 64 = 9*7 + 1, 15 = 2*7 + 1, so the last varint group holds one  *)
(*    bit and the next shift is out of range.  Integer kinds keep their    *)
(*    own widths; the configurations only use kinds no wider than RegBits. *)
(*  - A float or double value is a number of halves (h stands for h/2), so *)
(*    that a fractional value exists; the emitted code turns it into a     *)
(*    uint64_t by static_cast, which truncates.                            *)
(*  - A string is a sequence of bytes.  An enum value is its integer.  A   *)
(*    model value is a function from field names to field values; an       *)
(*    absent optional is None, a repeated field is a sequence.            *)
(***************************************************************************)
EXTENDS Ast, Integers, Sequences, SequencesExt, Bitwise

CONSTANTS
    Decls,      \* the validated schema's declarations, in order
    RegBits,    \* width of the uint64_t register of the emitted code
    None,       \* an empty std::optional
    Garbage     \* an indeterminate value (an enum member never initialised)

ASSUME RegBits \in 8..30

Reg == 2^RegBits

\* Widths of the integer kinds (get_cpp_type maps byte to uint8_t).
KindBits == [int8 |-> 8, int16 |-> 16, int32 |-> 32, int64 |-> 64,
             uint8 |-> 8, uint16 |-> 16, uint32 |-> 32, uint64 |-> 64,
             byte |-> 8]
SignedKinds  == {"int8", "int16", "int32", "int64"}
IntKinds     == SignedKinds \cup {"uint8", "uint16", "uint32", "uint64"}
FloatKinds   == {"float", "double"}

\* The fields of model m.
Fields(m) == LET fs == FindModel(Decls, m).fields IN {fs[i] : i \in DOMAIN fs}

IsEnumType(t)  == ~IsPrimitive(t) /\ FindEnum(Decls, t.name) # NoDecl
IsModelType(t) == ~IsPrimitive(t) /\ ~IsEnumType(t)

(***************************************************************************)
(* get_wire_type_value: packed, then bitmap, then interned string, then    *)
(* the kind; user types are LENGTH_DELIMITED.                              *)
(***************************************************************************)
WireTypeValue(f) ==
    IF Has(f, "packed") THEN 3
    ELSE IF Has(f, "bitmap") THEN 7
    ELSE IF ~IsPrimitive(f.type) THEN 2
    ELSE IF Has(f, "interned") /\ f.type.kind = "string" THEN 6
    ELSE CASE f.type.kind \in IntKinds \cup {"bool"} -> 0
           [] f.type.kind = "double"                 -> 1
           [] f.type.kind = "float"                  -> 5
           [] f.type.kind \in {"string", "byte"}     -> 2

\* uint32_t tag = (field.number << 3) | wire_type
Tag(f) == f.number * 8 + WireTypeValue(f)

(***************************************************************************)
(* The varint loop the emitter writes out at every use:                    *)
(*   while (val > 0x7F) { push((val & 0x7F) | 0x80); val >>= 7; }          *)
(*   push(val);                                                            *)
(***************************************************************************)
RECURSIVE Varint(_)
Varint(v) == IF v > 127 THEN <<(v % 128) + 128>> \o Varint(v \div 128)
                        ELSE <<v>>

\* Variant: the length prefix counts one byte more than follows.
LengthDelimitedPlusOne(bytes) == Varint(Len(bytes) + 1) \o bytes

LengthDelimited(bytes) == Varint(Len(bytes)) \o bytes

(***************************************************************************)
(* static_cast<uint64_t>(item) of a value of kind k: sign extension of a   *)
(* signed integer is reduction modulo the register; a bool is 0 or 1; a    *)
(* float or double truncates towards zero (the configurations only hold    *)
(* non-negative floats: a negative one is undefined behaviour).            *)
(***************************************************************************)
\* Variant: a negative integer is written as is, without sign extension.
ToU64NoWrap(k, v) ==
    CASE k = "bool"                -> IF v THEN 1 ELSE 0
      [] k \in FloatKinds          -> (v \div 2) % Reg
      [] k \in IntKinds \cup {"byte"} -> v

ToU64(k, v) ==
    CASE k = "bool"                -> IF v THEN 1 ELSE 0
      [] k \in FloatKinds          -> (v \div 2) % Reg
      [] k \in IntKinds \cup {"byte"} -> v % Reg

(***************************************************************************)
(* static_cast<T>(value) of the decoded uint64_t to the declared C++ type. *)
(* A kind at least as wide as the register never wraps.                    *)
(***************************************************************************)
FromU64(k, u) ==
    IF k = "bool" THEN u # 0
    ELSE IF k \in FloatKinds THEN 2 * u
    ELSE IF KindBits[k] >= RegBits THEN u
    ELSE LET m == u % 2^KindBits[k]
         IN  IF k \in SignedKinds /\ m >= 2^(KindBits[k] - 1) THEN m - 2^KindBits[k] ELSE m

\* static_cast<Enum>(value): the enum's underlying type is int32_t.
EnumFromU64(u) == FromU64("int32", u)

(***************************************************************************)
(* generate_field_serializer.  ItemPayload is what follows the tag of one  *)
(* element of a repeated field, of a present optional, or of a singular    *)
(* field other than bool; a nested model is serialised recursively and     *)
(* written length-delimited.  The packed branch only writes elements of    *)
(* the integer kinds (float and double get fixed-width bytes, which the    *)
(* configurations do not use); bool, byte and string elements get no       *)
(* branch at all and write nothing.                                        *)
(***************************************************************************)
RECURSIVE Serialize(_, _), ItemPayload(_, _), FieldBytes(_, _)

ItemPayload(t, v) ==
    CASE t = Prim("string")                 -> LengthDelimited(v)
      [] IsPrimitive(t) /\ t # Prim("string") -> Varint(ToU64(t.kind, v))
      [] IsEnumType(t)                       -> Varint(v)
      [] IsModelType(t)                      -> LengthDelimited(Serialize(t.name, v))

PackedElem(k, v) == IF k \in IntKinds THEN Varint(ToU64(k, v)) ELSE <<>>

FieldBytes(f, v) ==
    IF Has(f, "repeated") THEN
        IF v = <<>> THEN <<>>
        ELSE IF Has(f, "packed") /\ IsPrimitive(f.type) THEN
            Varint(f.number * 8 + 2)
              \o LengthDelimited(FlattenSeq([i \in DOMAIN v |-> PackedElem(f.type.kind, v[i])]))
        ELSE FlattenSeq([i \in DOMAIN v |-> Varint(Tag(f)) \o ItemPayload(f.type, v[i])])
    ELSE IF Has(f, "optional") THEN
        IF v = None THEN <<>> ELSE Varint(Tag(f)) \o ItemPayload(f.type, v)
    ELSE IF f.type = Prim("bool") THEN Varint(Tag(f)) \o <<IF v THEN 1 ELSE 0>>
    ELSE Varint(Tag(f)) \o ItemPayload(f.type, v)

\* generate_serialize_method: the fields in declaration order.
Serialize(m, msg) ==
    LET fs == FindModel(Decls, m).fields
    IN  FlattenSeq([i \in DOMAIN fs |-> FieldBytes(fs[i], msg[fs[i].name])])

(***************************************************************************)
(* The varint reader the emitter writes out for tags, lengths and values: *)
(*   while (pos < data.size()) { byte = data[pos++];                       *)
(*     v |= (uint64_t)(byte & 0x7F) << shift;                              *)
(*     if ((byte & 0x80) == 0) break;  shift += 7; }                       *)
(* pos is 0-based as in the code.  It stops silently at the end of the     *)
(* buffer.  A shift of RegBits or more is undefined behaviour; the build   *)
(* may drop the bits or shift by the count modulo the width, and the       *)
(* outcome records that it happened (ub).  cut records that the buffer     *)
(* ended before a byte without the continuation bit.  The result is the    *)
(* set of possible [value, next, ub, cut].  Below RegBits the bits of acc  *)
(* all lie under shift, so the | of the code is a sum there.               *)
(***************************************************************************)
RECURSIVE VarintFrom(_, _, _, _)
VarintFrom(data, pos, shift, acc) ==
    IF pos >= Len(data) THEN {[value |-> acc, next |-> pos, ub |-> FALSE, cut |-> TRUE]}
    ELSE
      LET b    == data[pos + 1]
          outs == IF shift < RegBits
                    THEN {[v |-> acc + (((b % 128) * 2^shift) % Reg), ub |-> FALSE]}
                    ELSE {[v |-> acc | x, ub |-> TRUE] :
                            x \in {0, ((b % 128) * 2^(shift % RegBits)) % Reg}}
      IN  IF b < 128
            THEN {[value |-> o.v, next |-> pos + 1, ub |-> o.ub, cut |-> FALSE] : o \in outs}
            ELSE UNION {{[r EXCEPT !.ub = r.ub \/ o.ub] :
                            r \in VarintFrom(data, pos + 1, shift + 7, o.v)} : o \in outs}

ReadVarint(data, pos) == VarintFrom(data, pos, 0, 0)

\* The header's member initialisers (generate_model_declaration): numeric
\* members = 0, bool = false, strings, optionals, vectors and models default
\* constructed, and an enum member left without initialiser.
RECURSIVE DefaultObj(_)
DefaultObj(m) ==
    LET Init1(f) == IF Has(f, "repeated") THEN <<>>
                    ELSE IF Has(f, "optional") THEN None
                    ELSE IF f.type = Prim("bool") THEN FALSE
                    ELSE IF f.type = Prim("string") THEN <<>>
                    ELSE IF IsPrimitive(f.type) THEN 0
                    ELSE IF IsEnumType(f.type) THEN Garbage
                    ELSE DefaultObj(f.type.name)
    IN  [n \in {f.name : f \in Fields(m)} |-> Init1(CHOOSE f \in Fields(m) : f.name = n)]

=============================================================================
