----------------------------- MODULE RoundTrip -----------------------------
(***************************************************************************)
(* A writer and a reader built from the same schema by the emitter: the   *)
(* writer calls the emitted serialize() on a message of model Root and     *)
(* hands the bytes over; the reader calls the emitted deserialize() on     *)
(* them, into a fresh object or into one it used before.  This is the      *)
(* contract spec.md section 6 asks for: compatibility with artifacts       *)
(* produced by the same compiler.  The writer's code may come from a later *)
(* version of the schema (WriterDecls) than the reader's (Decls): the      *)
(* reader then meets fields it does not know and must skip them.           *)
(***************************************************************************)
EXTENDS Deserializer

CONSTANTS
    WriterDecls, \* the schema the writer's code was generated from
    Root,       \* the model the message is an instance of
    Messages,   \* the messages the writer may send
    Targets     \* the objects the reader may decode into

VARIABLES
    msg,        \* the writer's message
    wire,       \* the bytes serialize() returned, or None before
    target      \* the reader's object before deserialize()

vars == <<msg, wire, target, decVars>>

Writer == INSTANCE Codegen WITH Decls <- WriterDecls

Init ==
    /\ msg \in Messages
    /\ target \in Targets
    /\ wire = None
    /\ frames = <<>>
    /\ status = "idle"
    /\ decoded = None
    /\ oob = FALSE
    /\ overshift = FALSE
    /\ mustFail = FALSE

\* The writer: std::vector<uint8_t> bytes = msg.serialize();
Write ==
    /\ wire = None
    /\ wire' = Writer!Serialize(Root, msg)
    /\ UNCHANGED <<msg, target, decVars>>

\* The reader: target.deserialize(bytes);
Read ==
    /\ wire # None
    /\ status = "idle"
    /\ Start(Root, wire, target)
    /\ UNCHANGED <<msg, wire, target>>

\* One iteration of the reader's deserialize() loop, or its exit.
Decode == DecodeStep /\ UNCHANGED <<msg, wire, target>>

Done == Finished /\ UNCHANGED <<msg, wire, target>>

Next == Write \/ Read \/ Decode \/ Done

\* The caller is single-threaded and nothing blocks it: each of its
\* statements eventually executes.
Spec == Init /\ [][Next]_vars /\ WF_vars(Write \/ Read \/ Decode)

(***************************************************************************)
(* What decoding into obj should give, by spec.md 4.4: a repeated field    *)
(* appends, a present optional replaces, a singular nested model is        *)
(* decoded into (merged), any other singular field is replaced.            *)
(***************************************************************************)
RECURSIVE Merged(_, _, _)
Merged(m, obj, new) ==
    [n \in DOMAIN obj |->
        LET f == CHOOSE g \in Fields(m) : g.name = n
        IN  IF Has(f, "repeated") THEN obj[n] \o new[n]
            ELSE IF Has(f, "optional") THEN (IF new[n] = None THEN obj[n] ELSE new[n])
            ELSE IF IsModelType(f.type) THEN Merged(f.type.name, obj[n], new[n])
            ELSE new[n]]

TypeOK ==
    /\ status \in {"idle", "running", "returned", "crashed"}
    /\ oob \in BOOLEAN /\ overshift \in BOOLEAN /\ mustFail \in BOOLEAN
    /\ wire = None \/ wire \in Seq(0..255)
    /\ \A i \in DOMAIN frames : frames[i].pos \in Nat

(***************************************************************************)
(* Properties.                                                             *)
(***************************************************************************)

\* Decoding what serialize() wrote into a default-constructed object gives
\* back the message (the emitted serialize()/deserialize() pair).
RoundTrip ==
    (status = "returned" /\ target = DefaultObj(Root)) => decoded = msg

\* Decoding what serialize() wrote into any object the reader holds gives
\* that object merged with the message: nothing of the old object is lost
\* or kept where the message overrides it, at any nesting depth.
DecodeMerges ==
    status = "returned" => decoded = Merged(Root, target, msg)

\* Decoding bytes serialize() wrote never reads outside the buffer it was
\* given, at any level of nesting (the emitted code never checks).
NoOutOfBoundsRead == ~oob

\* A reader generated from an earlier schema skips what it does not know
\* and still decodes every field both schemas declare alike into a fresh
\* object (spec.md 4.4: unknown field numbers are skipped by wire type).
KnownFieldsSurvive ==
    (status = "returned" /\ target = DefaultObj(Root)) =>
        \A f \in Fields(Root) \cap Writer!Fields(Root) : decoded[f.name] = msg[f.name]

=============================================================================
