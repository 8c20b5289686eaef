----------------------------- MODULE ArgParsing -----------------------------
(***************************************************************************)
(* main calls parse() once on the parser register_options filled; the      *)
(* tests call it again on the same object.  This module shows that the     *)
(* state machine of ArgParser implements the atomic call of ArgCall: the   *)
(* call happens at the step that resets the object, and the steps of the   *)
(* loop leave what the object reports unchanged until it returns or        *)
(* throws, when the object must hold what Usage says.                      *)
(***************************************************************************)
EXTENDS ArgParser, ArgUsage

\* What a caller of parse() sees: the object after a return, an exception
\* after a throw, and, while a call runs, what that call is to produce.
\* What each command line means.
Meaning == [a \in Argvs |-> Usage(a, Fresh)]

Reported ==
    CASE pc = "thrown"   -> Error
      [] pc = "returned" -> [isSet |-> isSet, value |-> value, positional |-> positional]
      [] pc \in {"loop", "rest", "short"} -> Meaning[args]

Call == INSTANCE ArgCall WITH argv <- args, result <- Reported, calls <- parses

(***************************************************************************)
(* Properties.                                                             *)
(***************************************************************************)

\* Every call of parse(), the first or a later one on the same object,
\* returns exactly when the command line means something, and then leaves
\* is_set, value and positional() as Usage says (starting from the
\* defaults: what an earlier parse set must not show), and throws a
\* runtime_error when it is an error.
ParseImplementsCall == Call!Spec

\* The loop of parse() and parse_short_option's loop over the characters
\* always end: every branch advances i, j or both, a value taken from the
\* next element of argv skips it, and every call returns or throws.
ParseTerminates == [](pc \in {"loop", "rest", "short"} => <>(pc \in {"returned", "thrown"}))

====
