----------------------------- MODULE MCDriver -----------------------------
(***************************************************************************)
(* Instances of the driver.  Two schemas share the namespace a, so that    *)
(* two processes without -f write the same pair of files; a third has the  *)
(* namespace b.  Five input files hold these schemas and the two kinds of  *)
(* rejected text; none.sk does not exist.                                  *)
(*                                                                         *)
(* Every input file is compiled with and without "-f out", the output      *)
(* directory given in the short and the long form; besides these, --help,  *)
(* --version, a line without an input file and one with an unknown        *)
(* option.                                                                 *)
(***************************************************************************)
EXTENDS Driver, TLC

MCSchemas == {[id |-> 1, ns |-> "a"], [id |-> 2, ns |-> "a"], [id |-> 3, ns |-> "b"]}

MCSources ==
    [f \in {"a1.sk", "a2.sk", "b.sk", "bad.sk", "invalid.sk"} |->
        CASE f = "a1.sk"      -> [id |-> 1, ns |-> "a"]
          [] f = "a2.sk"      -> [id |-> 2, ns |-> "a"]
          [] f = "b.sk"       -> [id |-> 3, ns |-> "b"]
          [] f = "bad.sk"     -> [rejectedBy |-> "parser"]
          [] f = "invalid.sk" -> [rejectedBy |-> "validator"]]

InputNames == DOMAIN MCSources \cup {"none.sk"}

MCArgvs ==
    {<<"-o", "gen", f>> : f \in InputNames}
      \cup {<<"--output=gen", "-f", "out", f>> : f \in InputNames}
      \cup {<<"-h">>, <<"--version", "a1.sk">>, <<"-o", "gen">>, <<"-x", "a1.sk">>}

\* Lines that compile one of the two namespace-a schemas, without -f.
SameNamespaceArgvs == {<<"-o", "gen", "a1.sk">>, <<"-o", "gen", "a2.sk">>}

MCSymmetry == Permutations(Procs)

=============================================================================
