------------------------------- MODULE Driver -------------------------------
(***************************************************************************)
(* The command-line driver of main.cpp: compile_schema() run by several    *)
(* processes at once (spec.md 5: "the driver may parallelize across files  *)
(* by invoking independent core instances") that share the output          *)
(* directory and the files in it.                                          *)
(*                                                                         *)
(* A process starts in main(): it parses its command line, with the        *)
(* meaning the args run shows parse() gives it (module ArgUsage), and      *)
(* stops at --help, --version, a parse error or a missing input file name. *)
(* Otherwise it runs compile_schema as a sequence of steps, one per call   *)
(* that touches shared state: read_file, the core (lexer, parser,          *)
(* validator and code generator, which share nothing), the existence check *)
(* and creation of the output directory, and the two write_file calls.     *)
(* Every I/O call may fail: that is a fault the environment injects, and   *)
(* faulted records it.  An exception ends the process with exit code 1 in  *)
(* main's catch.                                                           *)
(*                                                                         *)
(* A schema is abstracted to [id, ns]: which compilation it is and its     *)
(* namespace_name; generated text to the schema and the process it came    *)
(* from and, for the source, the header name it includes.                 *)
(***************************************************************************)
EXTENDS Naturals, FiniteSets, ArgUsage

CONSTANTS
    Procs,      \* the driver processes
    Schemas,    \* well-formed schemas, as [id, ns]
    Argvs,      \* the command lines the processes run with
    Sources,    \* Sources[f]: what input file f holds
    None

\* What read_file can return: a schema, or text the parser or the
\* validator rejects.
Rejected == {[rejectedBy |-> "parser"], [rejectedBy |-> "validator"]}
Inputs == Schemas \cup Rejected

\* The -f values the command lines give.
FileNames == {ValueOf(u, "filename") : u \in {Usage(a, Fresh) : a \in Argvs} \ {Error}} \ {""}

ASSUME \A f \in DOMAIN Sources : Sources[f] \in Inputs

\* main's queries name options register_options registers, with an
\* argument where it reads one: is_set and value_of do not throw there.
ASSUME \A u \in {Usage(a, Fresh) : a \in Argvs} \ {Error} :
         /\ \A n \in {"help", "version", "verbose"} : IsSet(u, n) \in BOOLEAN
         /\ \A n \in {"output", "filename"} : ValueOf(u, n) \in STRING

\* dirExists stands for one output directory: the command lines that get
\* as far as compile_schema all give the same -o.
Compiles(u) == u # Error /\ ~IsSet(u, "help") /\ ~IsSet(u, "version") /\ u.positional # <<>>
ASSUME Cardinality({ValueOf(u, "output") : u \in {v \in {Usage(a, Fresh) : a \in Argvs} : Compiles(v)}}) <= 1

Bases == {s.ns : s \in Schemas} \cup FileNames
Files == Bases \X {"hpp", "cpp"}

VARIABLES
    argv,       \* argv[p]: the command line of process p
    job,        \* job[p]: [file, filename] main passes to compile_schema
    pc,         \* the step process p takes next
    dirExists,  \* output_dir exists
    files,      \* files[f]: the content of file f, or None
    exitCode,   \* the code main returns, or None while running
    faulted     \* history: an I/O call of p failed

vars == <<argv, job, pc, dirExists, files, exitCode, faulted>>

Header(s, p) == [schema |-> s, by |-> p, kind |-> "hpp"]
Source(s, p) == [schema |-> s, by |-> p, kind |-> "cpp", include |-> s.ns]

\* What read_file returns for the input file.
Input(p) == Sources[job[p].file]

\* compile_schema lines 136-141: -f, else the namespace.
Base(p) == IF job[p].filename # "" THEN job[p].filename ELSE Input(p).ns

Init ==
    /\ argv \in [Procs -> Argvs]
    /\ job = [p \in Procs |-> None]
    /\ pc = [p \in Procs |-> "main"]
    /\ dirExists \in BOOLEAN
    /\ files = [f \in Files |-> None]
    /\ exitCode = [p \in Procs |-> None]
    /\ faulted = [p \in Procs |-> FALSE]

\* A thrown exception, or an error return: main returns 1.
Fail(p, fault) ==
    /\ pc' = [pc EXCEPT ![p] = "exited"]
    /\ exitCode' = [exitCode EXCEPT ![p] = 1]
    /\ faulted' = [faulted EXCEPT ![p] = fault]

Exit(p, code) ==
    /\ pc' = [pc EXCEPT ![p] = "exited"]
    /\ exitCode' = [exitCode EXCEPT ![p] = code]
    /\ UNCHANGED faulted

Goto(p, next) ==
    /\ pc' = [pc EXCEPT ![p] = next]
    /\ UNCHANGED <<exitCode, faulted>>

\* main: parse the command line (a runtime_error goes to the catch and
\* returns 1), then --help, then --version, then the first positional
\* argument as the input file.
Main(p) ==
    /\ pc[p] = "main"
    /\ LET u == Usage(argv[p], Fresh)
       IN  \/ u = Error /\ Fail(p, FALSE) /\ UNCHANGED job
           \/ u # Error /\ IsSet(u, "help") /\ Exit(p, 0) /\ UNCHANGED job
           \/ u # Error /\ ~IsSet(u, "help") /\ IsSet(u, "version") /\ Exit(p, 0) /\ UNCHANGED job
           \/ /\ u # Error /\ ~IsSet(u, "help") /\ ~IsSet(u, "version")
              /\ u.positional = <<>>
              /\ Fail(p, FALSE) /\ UNCHANGED job
           \/ /\ u # Error /\ ~IsSet(u, "help") /\ ~IsSet(u, "version")
              /\ u.positional # <<>>
              /\ job' = [job EXCEPT ![p] = [file |-> u.positional[1], filename |-> ValueOf(u, "filename")]]
              /\ Goto(p, "read")
    /\ UNCHANGED <<argv, dirExists, files>>

\* read_file: a file that is not there, or an ifstream that fails to open
\* for another reason.
ReadFile(p) ==
    /\ pc[p] = "read"
    /\ \/ job[p].file \in DOMAIN Sources /\ Goto(p, "compile")
       \/ job[p].file \notin DOMAIN Sources /\ Fail(p, FALSE)
       \/ Fail(p, TRUE)
    /\ UNCHANGED <<argv, job, dirExists, files>>

\* Lexer, Parser::parse_schema, Validator::validate, and both generate_*
\* calls: a ParseError propagates to main's catch, validation errors
\* return 1.
Compile(p) ==
    /\ pc[p] = "compile"
    /\ IF Input(p) \in Schemas THEN Goto(p, "check_dir") ELSE Fail(p, FALSE)
    /\ UNCHANGED <<argv, job, dirExists, files>>

\* std::filesystem::exists(output_dir, ec): true, false, or an error in ec.
CheckDir(p) ==
    /\ pc[p] = "check_dir"
    /\ \/ dirExists /\ Goto(p, "write_header")
       \/ ~dirExists /\ Goto(p, "mkdir")
       \/ Fail(p, TRUE)
    /\ UNCHANGED <<argv, job, dirExists, files>>

\* Mutant: the result of create_directories taken as the error.
MkDirIgnoringEc(p) ==
    /\ pc[p] = "mkdir"
    /\ \/ dirExists /\ Fail(p, FALSE) /\ UNCHANGED dirExists
       \/ ~dirExists /\ dirExists' = TRUE /\ Goto(p, "write_header")
       \/ ~dirExists /\ Fail(p, TRUE) /\ UNCHANGED dirExists
    /\ UNCHANGED <<argv, job, files>>

\* if (!create_directories(output_dir, ec) && ec) return 1: when another
\* process created the directory in between, create_directories returns
\* false with ec clear and the process goes on.
MkDir(p) ==
    /\ pc[p] = "mkdir"
    /\ \/ dirExists /\ Goto(p, "write_header") /\ UNCHANGED dirExists
       \/ ~dirExists /\ dirExists' = TRUE /\ Goto(p, "write_header")
       \/ ~dirExists /\ Fail(p, TRUE) /\ UNCHANGED dirExists
    /\ UNCHANGED <<argv, job, files>>

\* write_file: std::ofstream truncates and writes, or fails to open.
WriteFile(p, ext, content, next) ==
    /\ pc[p] = IF ext = "hpp" THEN "write_header" ELSE "write_source"
    /\ \/ /\ files' = [files EXCEPT ![<<Base(p), ext>>] = content]
          /\ Goto(p, next)
       \/ Fail(p, TRUE) /\ UNCHANGED files
    /\ UNCHANGED <<argv, job, dirExists>>

WriteHeader(p) == WriteFile(p, "hpp", Header(Input(p), p), "write_source")
WriteSource(p) == WriteFile(p, "cpp", Source(Input(p), p), "done")

\* "Successfully generated", return 0.
Succeed(p) ==
    /\ pc[p] = "done"
    /\ pc' = [pc EXCEPT ![p] = "exited"]
    /\ exitCode' = [exitCode EXCEPT ![p] = 0]
    /\ UNCHANGED <<argv, job, dirExists, files, faulted>>

Next ==
    \E p \in Procs :
        \/ Main(p) \/ ReadFile(p) \/ Compile(p) \/ CheckDir(p) \/ MkDir(p)
        \/ WriteHeader(p) \/ WriteSource(p) \/ Succeed(p)

Spec == Init /\ [][Next]_vars

(***************************************************************************)
(* Properties.                                                             *)
(***************************************************************************)

TypeOK ==
    /\ pc \in [Procs -> {"main", "read", "compile", "check_dir", "mkdir", "write_header",
                         "write_source", "done", "exited"}]
    /\ dirExists \in BOOLEAN
    /\ files \in [Files -> {None} \cup {Header(s, q) : s \in Schemas, q \in Procs} \cup {Source(s, q) : s \in Schemas, q \in Procs}]
    /\ exitCode \in [Procs -> {None, 0, 1}]

\* A process exits 1 only for its own command line (a parse error, no
\* input file), its own input (missing, or rejected by the parser or the
\* validator) or a failed I/O call of its own: never because another
\* process created the output directory between its exists() check and
\* its create_directories() call.
OwnInputRejected(p) ==
    LET u == Usage(argv[p], Fresh)
    IN  \/ u = Error
        \/ u.positional = <<>>
        \/ u.positional[1] \notin DOMAIN Sources
        \/ Sources[u.positional[1]] \notin Schemas

NoSpuriousFailure ==
    \A p \in Procs : exitCode[p] = 1 => faulted[p] \/ OwnInputRejected(p)

\* The source a successful process wrote includes a header of that name
\* that exists (generate_source writes #include "<namespace_name>.hpp";
\* compile_schema names the header after -f when it is given).
IncludeNamesHeader ==
    \A p \in Procs : exitCode[p] = 0 /\ job[p] # None =>
        LET src == files[<<Base(p), "cpp">>]
        IN  src # None /\ <<src.include, "hpp">> \in Files /\ files[<<src.include, "hpp">>] # None

\* spec.md 7: "on any error, the driver exits non-zero ...; no artifacts
\* are written".  compile_schema writes the header before it opens the
\* source file.
FailedRunWritesNothing ==
    \A p \in Procs : exitCode[p] = 1 =>
        \A f \in Files : files[f] = None \/ files[f].by # p

\* Once every process has exited 0, each header and source of one base
\* name on disk come from the same compilation.
ParallelOutputsConsistent ==
    (\A p \in Procs : exitCode[p] = 0) =>
        \A b \in Bases : files[<<b, "hpp">>] # None /\ files[<<b, "cpp">>] # None =>
            files[<<b, "hpp">>].schema = files[<<b, "cpp">>].schema

=============================================================================
