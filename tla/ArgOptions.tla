----------------------------- MODULE ArgOptions -----------------------------
(***************************************************************************)
(* The option table of the command-line parser (arg_parser.cpp) as         *)
(* main.cpp registers it, and the string operations the parser cuts its    *)
(* arguments with.                                                         *)
(* add_option builds long_options, from a key (the long name, or the short *)
(* name when there is none) to the option, and short_options, from a short *)
(* name to the key.                                                        *)
(***************************************************************************)
EXTENDS Integers, Sequences

CONSTANT NoShort    \* short_name 0: the option has no short name

\* std::string::substr: characters m..n of s, empty when m > n; the k-th
\* character; the first position of c in s (0 when there is none:
\* std::string::npos).
Substr(s, m, n) == IF m > n THEN "" ELSE SubSeq(s, m, n)
Char(s, k) == IF k \in 1..Len(s) THEN SubSeq(s, k, k) ELSE ""
Find(s, c) == LET ks == {k \in 1..Len(s) : Char(s, k) = c}
              IN  IF ks = {} THEN 0 ELSE CHOOSE k \in ks : \A m \in ks : k <= m

\* register_options: add_flag is add_option with has_arg false.
RegisterOptions ==
    << [short |-> "h", long |-> "help", hasArg |-> FALSE, default |-> ""],
       [short |-> "v", long |-> "verbose", hasArg |-> FALSE, default |-> ""],
       [short |-> NoShort, long |-> "version", hasArg |-> FALSE, default |-> ""],
       [short |-> "o", long |-> "output", hasArg |-> TRUE, default |-> "."],
       [short |-> "f", long |-> "filename", hasArg |-> TRUE, default |-> ""] >>

\* add_option: the key is the long name, or the short name when the long
\* one is empty; a missing name or a taken key or short name throws
\* invalid_argument (ok FALSE).  A table is [ok, long, short]: long_options as
\* a function from keys to options, short_options from characters to keys.
AddOption(tab, r) ==
    LET key == IF r.long = "" THEN r.short ELSE r.long
    IN  IF \/ r.long = "" /\ r.short = NoShort
           \/ key \in DOMAIN tab.long
           \/ r.short # NoShort /\ r.short \in DOMAIN tab.short
        THEN [ok |-> FALSE]
        ELSE [ok    |-> TRUE,
              long  |-> [k \in DOMAIN tab.long \cup {key} |->
                           IF k = key THEN [short |-> r.short, hasArg |-> r.hasArg, default |-> r.default]
                           ELSE tab.long[k]],
              short |-> IF r.short = NoShort THEN tab.short
                        ELSE [c \in DOMAIN tab.short \cup {r.short} |->
                                IF c = r.short THEN key ELSE tab.short[c]]]

RECURSIVE Register(_, _)
Register(tab, regs) ==
    IF regs = <<>> \/ ~tab.ok THEN tab ELSE Register(AddOption(tab, Head(regs)), Tail(regs))

Table == Register([ok |-> TRUE, long |-> <<>>, short |-> <<>>], RegisterOptions)

\* main calls register_options outside its try block: it must not throw.
ASSUME Table.ok

Keys   == DOMAIN Table.long
Shorts == DOMAIN Table.short
Opt(key) == Table.long[key]

\* Option::Option: value starts as default_value.
Defaults == [k \in Keys |-> Opt(k).default]

====
