---------------------------- MODULE MCArgParser ----------------------------
(***************************************************************************)
(* Command lines for the option parser: every sequence of up to two        *)
(* arguments from a pool with one argument of each form the parser tells   *)
(* apart, and three-argument lines where an option takes the next          *)
(* argument.  The object is parsed twice, so the second parse starts from  *)
(* whatever the first one left.                                            *)
(*  - Words: a file name, "-" and "" (positional), "--".                   *)
(*  - Long: each name alone and with "=value", an empty value, an unknown  *)
(*    name, a flag given a value, "--=x".                                  *)
(*  - Short: each letter, clusters of flags, flags then an option, an      *)
(*    attached value, "-o=", "-f=x", a flag or an unknown letter before   *)
(*    "=", "-=x", an unknown letter.                                       *)
(***************************************************************************)
EXTENDS ArgParsing

Words == {"a.sk", "-", "", "--"}

Longs == {"--help", "--verbose", "--version", "--output", "--filename", "--output=d",
          "--filename=", "--nope", "--help=1", "--=x"}

ShortForms == {"-h", "-v", "-o", "-f", "-hv", "-vf", "-vod", "-fo", "-o=", "-f=x",
               "-h=1", "-x=1", "-=x", "-x", "-vx"}

Pool == Words \cup Longs \cup ShortForms

\* Every line of at most two arguments, and lines of three where an option
\* takes the next argument ("--", "-v" or a file name) as its value.
MCArgvs ==
    {<<>>} \cup {<<a>> : a \in Pool} \cup {<<a, b>> : a, b \in Pool}
      \cup {<<o, a, b>> : o \in {"-o", "--filename", "-vf"}, a \in {"--", "-v", "a.sk"}, b \in Pool}

\* "-o" with a value that holds '=', attached and given after "-v".
EqualsArgvs == MCArgvs \cup {<<"-od=1">>, <<"-vo=d">>}

====
