----------------------------- MODULE ArgParser -----------------------------
(***************************************************************************)
(* The command-line option parser of arg_parser.cpp, with the options      *)
(* main.cpp registers (module ArgOptions).  parse() is a state machine     *)
(* over the index i into argv, one action per branch of its loop, of       *)
(* parse_long_option, and per iteration of parse_short_option's loop over  *)
(* the characters; a runtime_error ends it in "thrown".  The object may be *)
(* parsed again after a parse returns or throws (the tests reuse one).     *)
(*                                                                         *)
(* argv[0], the program name, is left out: args[k] is argv[k], so the      *)
(* code's test i < argc is i <= Len(args).  Arguments are strings, cut     *)
(* with SubSeq as std::string::substr cuts them.                           *)
(***************************************************************************)
EXTENDS ArgOptions

CONSTANTS
    Argvs,      \* the argument vectors parse() may be called with
    MaxParses   \* how many times the object is parsed

VARIABLES
    args,        \* argv of the current parse
    i,           \* the index into argv
    j,           \* parse_short_option: the index into opt_str
    pc,          \* "loop", "rest", "short", "returned", "thrown"
    isSet,       \* isSet[key]: Option::is_set
    value,       \* value[key]: Option::value
    positional,  \* positional_args
    parses       \* how many times parse() was called

vars == <<args, i, j, pc, isSet, value, positional, parses>>

\* The object right after register_options: nothing parsed yet.
Init ==
    /\ args = <<>>
    /\ i = 1
    /\ j = 1
    /\ pc = "returned"
    /\ isSet = [k \in Keys |-> FALSE]
    /\ value = Defaults
    /\ positional = <<>>
    /\ parses = 0

Token == args[i]
OptStr == Substr(Token, 2, Len(Token))

Throw == pc' = "thrown" /\ UNCHANGED <<i, j, isSet, value, positional>>

\* Option::set_flag and Option::set_value.
SetFlag(k) == isSet' = [isSet EXCEPT ![k] = TRUE] /\ UNCHANGED value
SetValue(k, v) == isSet' = [isSet EXCEPT ![k] = TRUE] /\ value' = [value EXCEPT ![k] = v]

\* Mutant: the loop resets is_set but leaves value as the last parse set it.
ParseKeepingValues ==
    /\ pc \in {"returned", "thrown"}
    /\ parses < MaxParses
    /\ \E a \in Argvs : args' = a
    /\ i' = 1
    /\ pc' = "loop"
    /\ isSet' = [k \in Keys |-> FALSE]
    /\ UNCHANGED value
    /\ positional' = <<>>
    /\ parses' = parses + 1
    /\ UNCHANGED j

\* parse(): clear positional_args, reset every option to its default.
Parse ==
    /\ pc \in {"returned", "thrown"}
    /\ parses < MaxParses
    /\ \E a \in Argvs : args' = a
    /\ i' = 1
    /\ pc' = "loop"
    /\ isSet' = [k \in Keys |-> FALSE]
    /\ value' = Defaults
    /\ positional' = <<>>
    /\ parses' = parses + 1
    /\ UNCHANGED j

\* The loop test, and a token that is no option (shorter than 2 or not
\* starting with '-').
LoopEnd ==
    /\ pc = "loop" /\ i > Len(args)
    /\ pc' = "returned"
    /\ UNCHANGED <<args, i, j, isSet, value, positional, parses>>

Positional ==
    /\ pc = "loop" /\ i <= Len(args)
    /\ Token # "--" /\ (Len(Token) < 2 \/ Char(Token, 1) # "-")
    /\ positional' = Append(positional, Token)
    /\ i' = i + 1
    /\ UNCHANGED <<args, j, pc, isSet, value, parses>>

\* "--": every argument after it is positional.
DoubleDash ==
    /\ pc = "loop" /\ i <= Len(args) /\ Token = "--"
    /\ i' = i + 1
    /\ pc' = "rest"
    /\ UNCHANGED <<args, j, isSet, value, positional, parses>>

Rest ==
    /\ pc = "rest"
    /\ \/ i <= Len(args) /\ positional' = Append(positional, args[i]) /\ i' = i + 1 /\ UNCHANGED pc
       \/ i > Len(args) /\ pc' = "returned" /\ UNCHANGED <<i, positional>>
    /\ UNCHANGED <<args, j, isSet, value, parses>>

\* parse_long_option: the name runs from after "--" to the first '=', the
\* argument after it; an option with an argument without '=' takes the
\* next element of argv.
LongOption ==
    /\ pc = "loop" /\ i <= Len(args) /\ Token # "--"
    /\ Len(Token) >= 2 /\ Char(Token, 1) = "-" /\ Char(Token, 2) = "-"
    /\ LET eq   == Find(Token, "=")
           name == IF eq > 0 THEN Substr(Token, 3, eq - 1) ELSE Substr(Token, 3, Len(Token))
       IN  \/ name \notin Keys /\ Throw
           \/ /\ name \in Keys /\ Opt(name).hasArg /\ eq > 0
              /\ SetValue(name, Substr(Token, eq + 1, Len(Token))) /\ i' = i + 1
              /\ UNCHANGED <<j, pc, positional>>
           \/ /\ name \in Keys /\ Opt(name).hasArg /\ eq = 0 /\ i + 1 <= Len(args)
              /\ SetValue(name, args[i + 1]) /\ i' = i + 2
              /\ UNCHANGED <<j, pc, positional>>
           \/ name \in Keys /\ Opt(name).hasArg /\ eq = 0 /\ i + 1 > Len(args) /\ Throw
           \/ name \in Keys /\ ~Opt(name).hasArg /\ eq > 0 /\ Throw
           \/ /\ name \in Keys /\ ~Opt(name).hasArg /\ eq = 0
              /\ SetFlag(name) /\ i' = i + 1
              /\ UNCHANGED <<j, pc, positional>>
    /\ UNCHANGED <<args, parses>>

\* parse_short_option with a '=' in opt_str: only "-c=value" is accepted
\* (eq_pos 1 of the code is the second character here).
ShortWithEquals ==
    /\ pc = "loop" /\ i <= Len(args) /\ Token # "--"
    /\ Len(Token) >= 2 /\ Char(Token, 1) = "-" /\ Char(Token, 2) # "-"
    /\ Find(OptStr, "=") > 0
    /\ LET c == Char(OptStr, 1)
       IN  \/ Find(OptStr, "=") # 2 /\ Throw
           \/ Find(OptStr, "=") = 2 /\ c \notin Shorts /\ Throw
           \/ Find(OptStr, "=") = 2 /\ c \in Shorts /\ ~Opt(Table.short[c]).hasArg /\ Throw
           \/ /\ Find(OptStr, "=") = 2 /\ c \in Shorts /\ Opt(Table.short[c]).hasArg
              /\ SetValue(Table.short[c], Substr(OptStr, 3, Len(OptStr))) /\ i' = i + 1
              /\ UNCHANGED <<j, pc, positional>>
    /\ UNCHANGED <<args, parses>>

\* parse_short_option without '=': the loop over opt_str starts.
ShortStart ==
    /\ pc = "loop" /\ i <= Len(args) /\ Token # "--"
    /\ Len(Token) >= 2 /\ Char(Token, 1) = "-" /\ Char(Token, 2) # "-"
    /\ Find(OptStr, "=") = 0
    /\ j' = 1
    /\ pc' = "short"
    /\ UNCHANGED <<args, i, isSet, value, positional, parses>>

\* One iteration for the character at j: a flag is set and the loop goes
\* on; an option with an argument takes the rest of opt_str, or else the
\* next element of argv (consumed_next: return without the final ++i).
ShortChar ==
    /\ pc = "short" /\ j <= Len(OptStr)
    /\ LET c == Char(OptStr, j)
           k == Table.short[c]
       IN  \/ c \notin Shorts /\ Throw
           \/ /\ c \in Shorts /\ ~Opt(k).hasArg
              /\ SetFlag(k) /\ j' = j + 1
              /\ UNCHANGED <<i, pc, positional>>
           \/ /\ c \in Shorts /\ Opt(k).hasArg /\ j < Len(OptStr)
              /\ SetValue(k, Substr(OptStr, j + 1, Len(OptStr)))
              /\ i' = i + 1 /\ pc' = "loop"
              /\ UNCHANGED <<j, positional>>
           \/ /\ c \in Shorts /\ Opt(k).hasArg /\ j = Len(OptStr) /\ i + 1 <= Len(args)
              /\ SetValue(k, args[i + 1])
              /\ i' = i + 2 /\ pc' = "loop"
              /\ UNCHANGED <<j, positional>>
           \/ c \in Shorts /\ Opt(k).hasArg /\ j = Len(OptStr) /\ i + 1 > Len(args) /\ Throw
    /\ UNCHANGED <<args, parses>>

\* Mutant: the ++i after the loop over opt_str is missing.
ShortEndStaying ==
    /\ pc = "short" /\ j > Len(OptStr)
    /\ pc' = "loop"
    /\ UNCHANGED <<args, i, j, isSet, value, positional, parses>>

\* The loop ran off the end of opt_str: ++i.
ShortEnd ==
    /\ pc = "short" /\ j > Len(OptStr)
    /\ i' = i + 1
    /\ pc' = "loop"
    /\ UNCHANGED <<args, j, isSet, value, positional, parses>>

\* One step of parse() once it was called.
Step ==
    \/ LoopEnd \/ Positional \/ DoubleDash \/ Rest
    \/ LongOption \/ ShortWithEquals \/ ShortStart \/ ShortChar \/ ShortEnd

Next == Parse \/ Step

\* parse() is an ordinary function: once called, it runs until it returns
\* or throws.  Whether the caller calls it again is up to the caller.
Spec == Init /\ [][Next]_vars /\ WF_vars(Step)

====
