------------------------------ MODULE ArgUsage ------------------------------
(***************************************************************************)
(* What a command line means, as the usage text of main.cpp and the forms  *)
(* test_arg_parser.cpp exercises describe it, as a reference for parse():  *)
(*                                                                         *)
(*   --              every later argument is positional                    *)
(*   --name=value    an option that takes an argument                      *)
(*   --name value    the same, with the value in the next argument         *)
(*   --name          a flag                                                *)
(*   -abc            flags a, b, c ("-vdq")                                *)
(*   -ab value       flags, then an option whose value is the next         *)
(*                   argument ("-vdo file.cpp")                            *)
(*   -abvalue        flags, then an option whose value is the rest of the  *)
(*                   argument ("-vdofile.cpp", "-oresult.cpp"), less one   *)
(*                   '=' right after the option ("-o=result.cpp")          *)
(*   anything else   a positional argument                                 *)
(*                                                                         *)
(* An unknown name, a flag given a value and an option without one are     *)
(* errors.  Usage(as) is the options and positional arguments a command    *)
(* line sets, starting from the defaults, or Error.                      *)
(***************************************************************************)
EXTENDS ArgOptions

Fresh == [isSet |-> [k \in Keys |-> FALSE], value |-> Defaults, positional |-> <<>>]

\* What a command line that means nothing gives.
Error == [error |-> "runtime_error"]

\* ArgParser::is_set: a name that is not a long option throws.
IsSet(u, name) == IF name \in Keys THEN u.isSet[name] ELSE Error

\* ArgParser::value_of: a name that is not a long option, or an option
\* that takes no argument, throws.
ValueOf(u, name) == IF name \in Keys /\ Opt(name).hasArg THEN u.value[name] ELSE Error

Drop1(s) == Substr(s, 2, Len(s))

Given(acc, k, v) == [acc EXCEPT !.isSet[k] = TRUE, !.value[k] = v]
Flagged(acc, k)  == [acc EXCEPT !.isSet[k] = TRUE]

RECURSIVE Usage(_, _), Cluster(_, _, _)

\* The letters cs of a short-option argument, then the arguments as.
Cluster(cs, as, acc) ==
    IF cs = "" THEN Usage(as, acc)
    ELSE LET c == Char(cs, 1)
             v == Drop1(cs)
         IN  IF c \notin Shorts THEN Error
             ELSE LET k == Table.short[c]
                  IN  CASE ~Opt(k).hasArg -> Cluster(v, as, Flagged(acc, k))
                        [] Opt(k).hasArg /\ v # "" ->
                             Usage(as, Given(acc, k, IF Char(v, 1) = "=" THEN Drop1(v) ELSE v))
                        [] Opt(k).hasArg /\ v = "" /\ as # <<>> ->
                             Usage(Tail(as), Given(acc, k, Head(as)))
                        [] Opt(k).hasArg /\ v = "" /\ as = <<>> -> Error

Usage(as, acc) ==
    IF as = <<>> THEN acc
    ELSE LET t    == Head(as)
             eq   == Find(t, "=")
             name == IF eq > 0 THEN Substr(t, 3, eq - 1) ELSE Drop1(Drop1(t))
             long == t # "--" /\ Len(t) >= 2 /\ Substr(t, 1, 2) = "--"
         IN  CASE t = "--" -> [acc EXCEPT !.positional = @ \o Tail(as)]
               [] long /\ name \notin Keys -> Error
               [] long /\ name \in Keys ->
                    (CASE Opt(name).hasArg /\ eq > 0 ->
                           Usage(Tail(as), Given(acc, name, Substr(t, eq + 1, Len(t))))
                       [] Opt(name).hasArg /\ eq = 0 /\ Tail(as) # <<>> ->
                           Usage(Tail(Tail(as)), Given(acc, name, Head(Tail(as))))
                       [] Opt(name).hasArg /\ eq = 0 /\ Tail(as) = <<>> -> Error
                       [] ~Opt(name).hasArg /\ eq = 0 -> Usage(Tail(as), Flagged(acc, name))
                       [] ~Opt(name).hasArg /\ eq > 0 -> Error)
               [] ~long /\ t # "--" /\ Len(t) >= 2 /\ Char(t, 1) = "-" ->
                    Cluster(Drop1(t), Tail(as), acc)
               [] t # "--" /\ (Len(t) < 2 \/ Char(t, 1) # "-") ->
                    Usage(Tail(as), [acc EXCEPT !.positional = Append(@, t)])

====
