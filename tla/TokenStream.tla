---------------------------- MODULE TokenStream ----------------------------
(***************************************************************************)
(* What spec.md 4.1 promises of the scanner: a fixed stream of tokens,     *)
(* consumed in order by next() and shown without being consumed by peek(), *)
(* which is idempotent until the next next().  Once the stream is used up, *)
(* every further call yields its last token (end-of-file).                 *)
(***************************************************************************)
EXTENDS Integers, Sequences

CONSTANTS
    NoToken,    \* nothing returned yet
    MaxCalls    \* bound on the number of next() calls

VARIABLES
    stream,     \* the tokens of the source, end-of-file last
    taken,      \* the number of next() calls so far
    last        \* the token the last call returned

vars == <<stream, taken, last>>

\* The i-th token of the stream, the last one once i runs past it.
TokenAt(i) == IF i <= Len(stream) THEN stream[i] ELSE stream[Len(stream)]

Init == taken = 0 /\ last = NoToken

Consume ==
    /\ taken < MaxCalls
    /\ taken' = taken + 1
    /\ last' = TokenAt(taken + 1)
    /\ UNCHANGED stream

Peek ==
    /\ last' = TokenAt(taken + 1)
    /\ UNCHANGED <<stream, taken>>

Spec == Init /\ [][Consume \/ Peek]_vars

=============================================================================
