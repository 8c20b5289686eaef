------------------------------ MODULE Hostile ------------------------------
(***************************************************************************)
(* The emitted deserialize() of model Root called on any byte buffer, not  *)
(* only on one serialize() wrote: a truncated message, a corrupted one, or *)
(* one from a peer that does not follow the format.  spec.md 4.4 says what *)
(* the call must do with such input: skip what it can skip by wire type,   *)
(* and return false where a length or varint runs past the buffer or a     *)
(* wire type cannot be skipped.                                            *)
(***************************************************************************)
EXTENDS Deserializer

CONSTANTS
    Root,       \* the model whose deserialize() is called
    Inputs      \* the buffers it may be called on

VARIABLE input  \* the buffer of this call

vars == <<input, decVars>>

\* obj.deserialize(input) on a default-constructed obj.
Init ==
    /\ input \in Inputs
    /\ frames = <<Frame(Root, input, DefaultObj(Root))>>
    /\ status = "running"
    /\ decoded = None
    /\ oob = FALSE
    /\ overshift = FALSE
    /\ mustFail = FALSE

Decode == DecodeStep /\ UNCHANGED input

Done == Finished /\ UNCHANGED input

Next == Decode \/ Done

\* The loop runs on the caller's thread and nothing blocks it.
Spec == Init /\ [][Next]_vars /\ WF_vars(Decode)

(***************************************************************************)
(* Properties.                                                             *)
(***************************************************************************)

\* Every deserialize() call, on any input, returns (spec.md 4.4: false on
\* malformed input) or crashes: each loop iteration, including every skip
\* of an unknown field and its size_t pos += length, moves pos forward, and
\* every nested call works on a finite slice.
DecodeTerminates == <>(status \in {"returned", "crashed"})

\* deserialize() never reads outside the buffer it was given: a string or
\* nested-model length is checked against data.size() before the copy.
NoOutOfBoundsRead == ~oob

\* deserialize() returns true only on input spec.md 4.4 accepts: no length
\* or varint extends past the buffer and no unknown field has a wire type
\* other than 0, 1, 2 or 5.
FailureReported == status = "returned" => ~mustFail

=============================================================================
