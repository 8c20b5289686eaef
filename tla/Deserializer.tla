---------------------------- MODULE Deserializer ----------------------------
(***************************************************************************)
(* The deserialize() method the emitter writes for every model             *)
(* (CodeGenerator::generate_deserialize_method and                         *)
(* generate_field_deserializer, codegen.cpp; an instance of the emitted    *)
(* text is src/gen/examples_auth.cpp).                                     *)
(*                                                                         *)
(* One step is one iteration of the emitted loop                           *)
(*     while (pos < data.size()) { read tag; switch (field_number) ... }  *)
(* or its exit.  A nested model is decoded by a recursive call on a copy   *)
(* of the length-delimited slice, so the state is a stack of frames, one   *)
(* per active deserialize() call, the innermost last.  A frame holds the   *)
(* model, the buffer the call received, its cursor pos, the object being   *)
(* filled in, and, once it has called a nested deserialize(), the field    *)
(* and the cursor after the slice it returns to.                           *)
(*                                                                         *)
(* The emitted code checks no length against the buffer.  When a string   *)
(* or a nested slice runs past the end, the read is out of bounds: the     *)
(* build may crash, or go on with whatever bytes lie beyond the buffer     *)
(* (here: zeros).  oob and overshift record that such undefined behaviour  *)
(* happened.  mustFail records that the call met what spec.md 4.4 says     *)
(* makes deserialize return false: a length or varint that extends past    *)
(* the buffer, or an unknown field of an unskippable wire type.            *)
(***************************************************************************)
EXTENDS Codegen

VARIABLES
    frames,     \* the stack of active deserialize() calls
    status,     \* "idle", "running", "returned" (true) or "crashed"
    decoded,    \* the object the outermost call filled in, once returned
    oob,        \* an out-of-bounds read has happened
    overshift,  \* a varint shift of RegBits or more has happened
    mustFail    \* the input is one spec.md 4.4 requires false for

decVars == <<frames, status, decoded, oob, overshift, mustFail>>

\* switch (field_number): the case emitted for the field with that number.
KnownField(m, n) == {f \in Fields(m) : f.number = n}

Frame(m, data, obj) == [model |-> m, data |-> data, pos |-> 0, obj |-> obj,
                        field |-> "none", after |-> 0]

Top == frames[Len(frames)]

\* Replace the innermost frame.
SetTop(fr) == frames' = [frames EXCEPT ![Len(frames)] = fr]

\* What the emitted statement does with a decoded value: push_back for a
\* repeated field, assignment otherwise.
Store(obj, f, v) ==
    IF Has(f, "repeated") THEN [obj EXCEPT ![f.name] = Append(@, v)]
                          ELSE [obj EXCEPT ![f.name] = v]

\* The bytes std::string(&data[pos], length) or the slice copy reads: the
\* buffer's bytes, then whatever lies past its end.
Beyond(data, pos, len) ==
    [i \in 1..len |-> IF pos + i <= Len(data) THEN data[pos + i] ELSE 0]

\* pos += n on the size_t cursor, which wraps like the uint64_t register.
Advanced(pos, n) == (pos + n) % Reg

\* Start the outermost call m.deserialize(data) on the object obj.
Start(m, data, obj) ==
    /\ frames' = <<Frame(m, data, obj)>>
    /\ status' = "running"
    /\ UNCHANGED <<decoded, oob, overshift, mustFail>>

\* The caller of a nested call after it returned child.
Resume(parent, f, child) ==
    [parent EXCEPT !.obj = Store(@, f, child), !.pos = parent.after, !.field = "none"]

(***************************************************************************)
(* Loop exit: pos >= data.size(), return true.  The caller of a nested     *)
(* call then stores the object (push_back, assignment of the optional, or  *)
(* nothing more for a singular member, which was decoded in place) and    *)
(* advances its own cursor by the slice length.                           *)
(***************************************************************************)
ReturnTrue ==
    /\ status = "running"
    /\ Top.pos >= Len(Top.data)
    /\ IF Len(frames) = 1
         THEN /\ frames' = <<>>
              /\ status' = "returned"
              /\ decoded' = Top.obj
         ELSE LET parent == frames[Len(frames) - 1]
                  f      == CHOOSE g \in Fields(parent.model) : g.name = parent.field
              IN  /\ frames' = SubSeq(frames, 1, Len(frames) - 2) \o
                               <<Resume(parent, f, Top.obj)>>
                  /\ UNCHANGED <<status, decoded>>
    /\ UNCHANGED <<oob, overshift, mustFail>>

\* The tags that can be read at the cursor of the innermost call, and
\* field_number = tag >> 3, wire_type = tag & 0x7.
Tags == ReadVarint(Top.data, Top.pos)
FieldNumber(t) == t.value \div 8
WireType(t)    == t.value % 8

(***************************************************************************)
(* case n: a primitive other than string, or an enum: read a varint and    *)
(* static_cast it to the member's type.                                    *)
(***************************************************************************)
DecodeScalar ==
    /\ status = "running"
    /\ Top.pos < Len(Top.data)
    /\ \E t \in Tags : \E f \in KnownField(Top.model, FieldNumber(t)) :
           /\ f.type # Prim("string")
           /\ ~IsModelType(f.type)
           /\ \E v \in ReadVarint(Top.data, t.next) :
                /\ SetTop([Top EXCEPT
                       !.pos = v.next,
                       !.obj = Store(@, f, IF IsEnumType(f.type) THEN EnumFromU64(v.value)
                                           ELSE FromU64(f.type.kind, v.value))])
                /\ overshift' = (overshift \/ t.ub \/ v.ub)
                /\ mustFail' = (mustFail \/ t.cut \/ v.cut)
    /\ UNCHANGED <<status, decoded, oob>>

(***************************************************************************)
(* case n, string: read the length, copy length bytes from &data[pos],    *)
(* advance.  Nothing compares pos + length with data.size().              *)
(***************************************************************************)
DecodeString ==
    /\ status = "running"
    /\ Top.pos < Len(Top.data)
    /\ \E t \in Tags : \E f \in KnownField(Top.model, FieldNumber(t)) :
           /\ f.type = Prim("string")
           /\ \E l \in ReadVarint(Top.data, t.next) :
                LET past == l.next + l.value > Len(Top.data)
                IN  /\ oob' = (oob \/ past)
                    /\ overshift' = (overshift \/ t.ub \/ l.ub)
                    /\ mustFail' = (mustFail \/ t.cut \/ l.cut \/ past)
                    /\ \/ /\ SetTop([Top EXCEPT
                                 !.pos = Advanced(l.next, l.value),
                                 !.obj = Store(@, f, Beyond(Top.data, l.next, l.value))])
                          /\ UNCHANGED status
                       \/ /\ past
                          /\ status' = "crashed"
                          /\ UNCHANGED frames
    /\ UNCHANGED decoded

(***************************************************************************)
(* case n, nested model: read the length, copy the slice, and call        *)
(* deserialize on it: on a fresh object for a repeated or optional field   *)
(* (`T item;` / `T value;`), on the member itself for a singular one.     *)
(***************************************************************************)
\* The object a nested call decodes into: `T item;` or `T value;` for a
\* repeated or optional field, the member itself for a singular one.
\* Variant: every nested call decodes into a fresh object.
NestedTargetFresh(obj, f) == DefaultObj(f.type.name)

NestedTarget(obj, f) ==
    IF Has(f, "repeated") \/ Has(f, "optional") THEN DefaultObj(f.type.name) ELSE obj[f.name]

DecodeNested ==
    /\ status = "running"
    /\ Top.pos < Len(Top.data)
    /\ \E t \in Tags : \E f \in KnownField(Top.model, FieldNumber(t)) :
           /\ IsModelType(f.type)
           /\ \E l \in ReadVarint(Top.data, t.next) :
                LET past   == l.next + l.value > Len(Top.data)
                    target == NestedTarget(Top.obj, f)
                IN  /\ oob' = (oob \/ past)
                    /\ overshift' = (overshift \/ t.ub \/ l.ub)
                    /\ mustFail' = (mustFail \/ t.cut \/ l.cut \/ past)
                    /\ \/ /\ frames' = [frames EXCEPT ![Len(frames)] =
                                          [Top EXCEPT !.field = f.name,
                                                      !.after = Advanced(l.next, l.value)]]
                                       \o <<Frame(f.type.name, Beyond(Top.data, l.next, l.value),
                                                  target)>>
                          /\ UNCHANGED status
                       \/ /\ past
                          /\ status' = "crashed"
                          /\ UNCHANGED frames
    /\ UNCHANGED decoded

(***************************************************************************)
(* default: skip an unknown field by its wire type.  0 skips the bytes     *)
(* with the continuation bit and one more, 2 reads a length and adds it    *)
(* to pos, 1 and 5 add 8 and 4; any other wire type skips nothing and the  *)
(* loop goes on right after the tag.  No case checks the buffer's end.    *)
(***************************************************************************)
\* Variant: the byte without the continuation bit is left unread.
RECURSIVE SkipVarintShort(_, _)
SkipVarintShort(data, pos) ==
    IF pos < Len(data) /\ data[pos + 1] >= 128 THEN SkipVarintShort(data, pos + 1) ELSE pos

RECURSIVE SkipVarint(_, _)
SkipVarint(data, pos) ==
    IF pos < Len(data) /\ data[pos + 1] >= 128 THEN SkipVarint(data, pos + 1)
    ELSE IF pos < Len(data) THEN pos + 1 ELSE pos

SkipUnknown ==
    /\ status = "running"
    /\ Top.pos < Len(Top.data)
    /\ \E t \in Tags :
         LET wt == WireType(t) IN
         /\ KnownField(Top.model, FieldNumber(t)) = {}
         /\ \/ /\ wt = 0
               /\ SetTop([Top EXCEPT !.pos = SkipVarint(Top.data, t.next)])
               /\ overshift' = (overshift \/ t.ub)
               /\ mustFail' = (mustFail \/ t.cut \/
                               \E r \in ReadVarint(Top.data, t.next) : r.cut)
            \/ /\ wt = 2
               /\ \E l \in ReadVarint(Top.data, t.next) :
                    /\ SetTop([Top EXCEPT !.pos = Advanced(l.next, l.value)])
                    /\ overshift' = (overshift \/ t.ub \/ l.ub)
                    /\ mustFail' = (mustFail \/ t.cut \/ l.cut \/
                                    l.next + l.value > Len(Top.data))
            \/ /\ wt \in {1, 5}
               /\ SetTop([Top EXCEPT !.pos = Advanced(t.next, IF wt = 1 THEN 8 ELSE 4)])
               /\ overshift' = (overshift \/ t.ub)
               /\ mustFail' = (mustFail \/ t.cut \/
                               t.next + (IF wt = 1 THEN 8 ELSE 4) > Len(Top.data))
            \/ /\ wt \in {3, 4, 6, 7}
               /\ SetTop([Top EXCEPT !.pos = t.next])
               /\ overshift' = (overshift \/ t.ub)
               /\ mustFail' = TRUE
    /\ UNCHANGED <<status, decoded, oob>>

\* The call has returned or crashed: nothing more happens.
Finished ==
    /\ status \in {"returned", "crashed"}
    /\ UNCHANGED decVars

DecodeStep ==
    \/ ReturnTrue
    \/ DecodeScalar
    \/ DecodeString
    \/ DecodeNested
    \/ SkipUnknown

=============================================================================
