------------------------------- MODULE RunArgs -------------------------------
(***************************************************************************)
(* A run of main.py from its arguments to its exit code (src/main.py and    *)
(* src/core/suite.py): a suite file may replace values of the command line, *)
(* the result is checked, the matrix is planned, and its cells run on one   *)
(* session or on a session for each slot, whose ports are counted up from   *)
(* those in capabilities.json.                                              *)
(*                                                                          *)
(* What a cell does is InteropRun, and what starting and stopping the       *)
(* sessions does is ParallelRun; here a cell takes a slot and gets a verdict.*)
(***************************************************************************)
EXTENDS Integers, FiniteSets

CONSTANTS
    MatrixFlags,  \* the flags that take a list of values for the matrix
    SuiteFlags,   \* SUITE_MATRIX_CLI: those that --suite excludes
    JobChoices,   \* values of --jobs
    PortChoices,  \* values of --tls-port
    SuiteFiles,   \* the suite files a run may be given, see ASSUME
    Cpus,         \* os.cpu_count()
    MaxJobs,      \* MAX_PARALLEL_JOBS
    Stride,       \* WORKER_PORT_STRIDE
    Backends,
    GrpcBase,     \* ports in capabilities.json
    TlsBase,
    NumCells,     \* cells of the matrix
    None

Cells == 1..NumCells
Slots == 0..(MaxJobs - 1)

ASSUME RunArgsAssumption ==
    /\ SuiteFlags \subseteq MatrixFlags
    /\ JobChoices \subseteq Int /\ PortChoices \subseteq Int
    /\ \A f \in SuiteFiles :
          /\ f.keys \subseteq MatrixFlags              \* under `matrix:`
          /\ f.attach \in BOOLEAN \cup {None}
          /\ f.jobs \in Int \cup {None} /\ f.port \in Int \cup {None}
          /\ f.casePort \in Nat                        \* tls_port of the cases, or 0
    /\ Cpus \in Nat /\ MaxJobs \in Nat \ {0} /\ NumCells \in Nat \ {0}
    /\ None \notin Int /\ None \notin BOOLEAN /\ None \notin SuiteFiles

\* What README.md:95 asks of capabilities.json ("unique gRPC/TLS ports"), and
\* what README.md:71 builds on ("TLS bases sit far above gRPC").
ASSUME PortLayout ==
    /\ Stride \in Nat
    /\ GrpcBase \in [Backends -> Nat] /\ TlsBase \in [Backends -> Nat]
    /\ \A b, c \in Backends :
          /\ b # c => GrpcBase[b] # GrpcBase[c] /\ TlsBase[b] # TlsBase[c]
          /\ GrpcBase[b] - GrpcBase[c] < Stride /\ TlsBase[b] - TlsBase[c] < Stride
          /\ GrpcBase[b] + MaxJobs * Stride <= TlsBase[c]

VARIABLES
    pc,       \* where main() is
    cli,      \* the command line, as parsed
    suite,    \* the suite file, or None
    args,     \* the namespace that the rest of main() reads
    plan,     \* the matrix: of each cell its server, its tls_port, if it is to be skipped
    wrappers, \* what the session did: none, started, attached
    slotOf,   \* the slot a cell runs on, or None
    verdict,  \* of the cells that are over
    code      \* exit code, or None

vars == <<pc, cli, suite, args, plan, wrappers, slotOf, verdict, code>>
run  == <<plan, wrappers, slotOf, verdict>>

Verdicts == {"PASS", "FAIL", "TIMEOUT", "SKIP"}

\* A boolean is no string when argparse makes it, and one when
\* coerce_suite_matrix_value does.
Coerced(b) == [str |-> TRUE, says |-> b]

\* bool(): a string is false only when it is empty.
Truthy(v) == v.str \/ v.says

CommandLines ==
    [from : [MatrixFlags -> {"default", "cli"}], jobs : JobChoices,
     port : PortChoices, attach : [str : {FALSE}, says : BOOLEAN], list : BOOLEAN]

Plans == [Cells -> [server : Backends, port : Nat, skip : BOOLEAN]]

Init ==
    /\ pc = "parsed"
    /\ cli \in CommandLines
    /\ suite \in SuiteFiles \cup {None}
    /\ args = cli
    /\ plan = [c \in Cells |-> None]
    /\ wrappers = "none"
    /\ slotOf = [c \in Cells |-> None]
    /\ verdict = [c \in Cells |-> None]
    /\ code = None

Goto(step) == pc' = step /\ UNCHANGED code
Exit(c)    == pc' = "exited" /\ code' = c

-----------------------------------------------------------------------------
(* Arguments                                                                *)

\* enforce_suite_cli_exclusivity: parser.error exits with 2.
EnforceExclusivity ==
    /\ pc = "parsed"
    /\ IF suite # None /\ \E d \in SuiteFlags : cli.from[d] = "cli"
         THEN Exit(2)
         ELSE Goto("suite")
    /\ UNCHANGED <<cli, suite, args, run>>

Or(new, old) == IF new = None THEN old ELSE new

\* Wrong variant: a key that the file lacks is set, too.
ApplySuite_EveryKey ==
    /\ pc = "suite"
    /\ args' = IF suite = None THEN args
               ELSE [args EXCEPT !.attach = Coerced(suite.attach),
                                 !.jobs = suite.jobs, !.port = suite.port]
    /\ Goto("listing")
    /\ UNCHANGED <<cli, suite, run>>

\* apply_suite_file: setattr of a coerced value, for every key under `matrix:`.
\* int() of the strings comes back to the numbers.
ApplySuite ==
    /\ pc = "suite"
    /\ args' = IF suite = None THEN args
               ELSE [args EXCEPT
                       !.from   = [d \in MatrixFlags |->
                                     IF d \in suite.keys THEN "file" ELSE @[d]],
                       !.attach = IF suite.attach = None THEN @ ELSE Coerced(suite.attach),
                       !.jobs   = Or(suite.jobs, @),
                       !.port   = Or(suite.port, @)]
    /\ Goto("listing")
    /\ UNCHANGED <<cli, suite, run>>

ListModes ==
    /\ pc = "listing"
    /\ IF args.list THEN Exit(0) ELSE Goto("validating")
    /\ UNCHANGED <<cli, suite, args, run>>

Capped == IF Cpus \div 2 > 1 THEN Cpus \div 2 ELSE 1

JobsCapped == IF args.jobs > Capped THEN Capped ELSE args.jobs

\* Wrong variant: --tls-port is allowed with --jobs.
Rejected_NotPort(jobs) ==
    \/ jobs < 1 \/ jobs > MaxJobs
    \/ jobs > 1 /\ Truthy(args.attach)
    \/ args.port < 0 \/ args.port > 65535

\* What parser.error, or validate_run_args for the range of the port, refuses.
Rejected(jobs) ==
    \/ jobs < 1 \/ jobs > MaxJobs
    \/ jobs > 1 /\ (Truthy(args.attach) \/ args.port # 0)
    \/ args.port < 0 \/ args.port > 65535

\* validate_cli_arguments, validate_run_args
ValidateCliArguments ==
    /\ pc = "validating"
    /\ args' = [args EXCEPT !.jobs = JobsCapped]
    /\ IF Rejected(JobsCapped) THEN Exit(2) ELSE Goto("planning")
    /\ UNCHANGED <<cli, suite, run>>

-----------------------------------------------------------------------------
(* The matrix                                                               *)

CasePort == IF suite = None THEN 0 ELSE suite.casePort

\* build_matrix_combos, the certificates, and the cells that the pre-run checks
\* skip; a tls_port of the arguments is written over that of a case.
PlanMatrix ==
    /\ pc = "planning"
    /\ plan' \in [Cells -> [server : Backends,
                            port   : {IF args.port # 0 THEN args.port ELSE CasePort},
                            skip   : BOOLEAN]]
    /\ Goto("starting")
    /\ UNCHANGED <<cli, suite, args, wrappers, slotOf, verdict>>

ToRun == {c \in Cells : ~ plan[c].skip}

\* Without wrappers that are needed there is no session.
StartSession ==
    /\ pc = "starting"
    /\ wrappers' = IF ToRun = {} THEN "none"
                   ELSE IF Truthy(args.attach) THEN "attached" ELSE "started"
    /\ Goto("running")
    /\ UNCHANGED <<cli, suite, args, plan, slotOf, verdict>>

Parallel == args.jobs > 1 /\ wrappers # "none"

\* effective_jobs, or the one session of a serial run.
EffectiveJobs ==
    IF ~ Parallel THEN 1
    ELSE CHOOSE n \in {args.jobs, NumCells, MaxJobs} :
            \A m \in {args.jobs, NumCells, MaxJobs} : n <= m

InProgress == {c \in Cells : slotOf[c] # None}

SkipCell(c) ==
    /\ pc = "running" /\ verdict[c] = None /\ plan[c].skip
    /\ verdict' = [verdict EXCEPT ![c] = "SKIP"]
    /\ UNCHANGED <<pc, cli, suite, args, plan, wrappers, slotOf, code>>

\* _borrow_cell_session
BeginCell(c) ==
    /\ pc = "running" /\ verdict[c] = None /\ slotOf[c] = None /\ ~ plan[c].skip
    /\ \E s \in 0..(EffectiveJobs - 1) :
         /\ \A d \in InProgress : slotOf[d] # s
         /\ slotOf' = [slotOf EXCEPT ![c] = s]
    /\ UNCHANGED <<pc, cli, suite, args, plan, wrappers, verdict, code>>

\* execute_matrix_cell returns, and the slot goes back.
EndCell(c) ==
    /\ pc = "running" /\ c \in InProgress
    /\ \E v \in Verdicts : verdict' = [verdict EXCEPT ![c] = v]
    /\ slotOf' = [slotOf EXCEPT ![c] = None]
    /\ UNCHANGED <<pc, cli, suite, args, plan, wrappers, code>>

\* Wrong variant: only a FAIL is held against the run.
Results_TimeoutIsFine ==
    /\ pc = "running" /\ \A c \in Cells : verdict[c] # None
    /\ Exit(IF \A c \in Cells : verdict[c] # "FAIL" THEN 0 ELSE 1)
    /\ UNCHANGED <<cli, suite, args, run>>

\* _print_matrix_results
Results ==
    /\ pc = "running" /\ \A c \in Cells : verdict[c] # None
    /\ Exit(IF \A c \in Cells : verdict[c] \in {"PASS", "SKIP"} THEN 0 ELSE 1)
    /\ UNCHANGED <<cli, suite, args, run>>

\* An exception: main() catches four classes and returns 2, the interpreter
\* exits with 1 for any other.  The pool has drained by then.
Raises ==
    /\ pc \in {"suite", "planning", "starting", "running"}
    /\ InProgress = {}
    /\ \E c \in {1, 2} : Exit(c)
    /\ UNCHANGED <<cli, suite, args, run>>

Over == pc = "exited" /\ UNCHANGED vars

Next ==
    \/ EnforceExclusivity \/ ApplySuite \/ ListModes \/ ValidateCliArguments
    \/ PlanMatrix \/ StartSession
    \/ \E c \in Cells : SkipCell(c) \/ BeginCell(c) \/ EndCell(c)
    \/ Results \/ Raises \/ Over

Spec == Init /\ [][Next]_vars

-----------------------------------------------------------------------------
(* Ports                                                                    *)

\* apply_matrix_tls_endpoints: the port a cell's server listens on.
TlsPort(c) ==
    IF plan[c].port # 0 THEN plan[c].port
    ELSE TlsBase[plan[c].server] + slotOf[c] * Stride

\* _worker_slot_grpc_overrides
GrpcPort(s, b) == GrpcBase[b] + s * Stride

-----------------------------------------------------------------------------
(* Properties                                                               *)

Steps == {"parsed", "suite", "listing", "validating", "planning", "starting",
          "running", "exited"}

Namespaces ==
    [from : [MatrixFlags -> {"default", "cli", "file"}], jobs : Int, port : Int,
     attach : [str : BOOLEAN, says : BOOLEAN], list : BOOLEAN]

(* Type invariant of a run.                                                  *)
TypeOK ==
    /\ pc \in Steps
    /\ cli \in CommandLines /\ suite \in SuiteFiles \cup {None}
    /\ args \in Namespaces
    /\ plan \in Plans \cup {[c \in Cells |-> None]}
    /\ wrappers \in {"none", "started", "attached"}
    /\ slotOf \in [Cells -> Slots \cup {None}]
    /\ verdict \in [Cells -> Verdicts \cup {None}]
    /\ code \in {0, 1, 2, None}

(* "TLS bases sit far above gRPC so slots do not collide" (README.md:71): of *)
(* the cells that a parallel run has in progress no two use one TLS port,    *)
(* and none uses the gRPC port of any wrapper of any slot; whatever the      *)
(* command line and the suite file say between them, as long as the cases of *)
(* a suite fix no port, which main.py:237 does not look at.                  *)
SlotsDoNotCollide ==
    Parallel /\ CasePort = 0 =>
        /\ \A c, d \in InProgress : c # d => TlsPort(c) # TlsPort(d)
        /\ \A c \in InProgress, s \in 0..(EffectiveJobs - 1), b \in Backends :
              TlsPort(c) # GrpcPort(s, b)

(* A run exits with 0 only if every cell it planned has a verdict, and each  *)
(* is PASS or SKIP, whatever raises before or between them.                  *)
GreenIsEarned ==
    code = 0 => \/ args.list
                \/ \A c \in Cells : verdict[c] \in {"PASS", "SKIP"}
=============================================================================
