------------------------------ MODULE ArgCall ------------------------------
(***************************************************************************)
(* What a call of ArgParser::parse() promises its caller: one atomic step  *)
(* that replaces everything the object holds by what the command line      *)
(* means (module ArgUsage), or by a runtime_error, whatever an earlier     *)
(* call left behind.                                                       *)
(***************************************************************************)
EXTENDS ArgUsage

CONSTANTS
    Argvs,      \* the argument vectors parse() may be called with
    MaxParses,  \* how many times the object is parsed
    Meaning     \* Meaning[a]: what the command line a means

ASSUME Meaning = [a \in Argvs |-> Usage(a, Fresh)]

VARIABLES
    argv,       \* the command line of the last call
    result,     \* what the object reports: [isSet, value, positional], or Error
    calls       \* how many times parse() was called

\* After register_options: nothing set, every option at its default.
Init == argv = <<>> /\ result = Fresh /\ calls = 0


Call ==
    /\ calls < MaxParses
    /\ argv' \in DOMAIN Meaning
    /\ result' = Meaning[argv']
    /\ calls' = calls + 1

Spec == Init /\ [][Call]_<<argv, result, calls>>

====
