---------------------------- MODULE RunArgsProofs ----------------------------
(***************************************************************************)
(* The slots of a parallel run do not collide, for any command line and any *)
(* suite file whose cases fix no port, any number of jobs and any ports     *)
(* that PortLayout allows.  The argument: cells in progress have slots of   *)
(* their own, no port is fixed while there is more than one slot, and ports *)
(* counted up from distinct bases by at least their spread stay distinct.   *)
(***************************************************************************)
EXTENDS RunArgs, TLAPS

\* Which parts of the state have been filled in at a step.
Before == {"parsed", "suite", "listing", "validating"}

\* Nothing runs before the plan is made.
RunsPlanned ==
    /\ pc \in Before \cup {"planning", "starting"} => InProgress = {}
    /\ pc \in {"starting", "running"} \/ InProgress # {} => plan \in Plans

\* Past its validation a parallel run has no port for all cells, unless its
\* suite brings one.
NoPortWithJobs ==
    /\ pc \in {"planning", "starting", "running"} =>
         args.port \in Nat /\ (args.jobs > 1 => args.port = 0)
    /\ pc \in {"starting", "running"} \/ InProgress # {} =>
         (args.jobs > 1 /\ CasePort = 0 => \A c \in Cells : plan[c].port = 0)

OwnSlots == \A c, d \in InProgress : c # d => slotOf[c] # slotOf[d]

ArgsInv == TypeOK /\ RunsPlanned /\ NoPortWithJobs /\ OwnSlots

-----------------------------------------------------------------------------
(* The steps                                                                *)

LEMMA EffectiveJobsFacts ==
    ASSUME TypeOK
    PROVE  EffectiveJobs \in 1..MaxJobs
  <1>1. CASE ~ Parallel
    BY <1>1, RunArgsAssumption DEF EffectiveJobs
  <1>2. CASE Parallel
    <2> DEFINE S == {args.jobs, NumCells, MaxJobs}
    <2>1. args.jobs \in Int /\ args.jobs > 1
      BY <1>2 DEF TypeOK, Namespaces, Parallel
    <2>0. NumCells \in Nat \ {0} /\ MaxJobs \in Nat \ {0}
      BY RunArgsAssumption
    <2>2. \E n \in S : \A m \in S : n <= m
      BY <2>0, <2>1
    <2>3. EffectiveJobs \in S /\ \A m \in S : EffectiveJobs <= m
      BY <1>2, <2>2 DEF EffectiveJobs
    <2> QED
      BY <2>0, <2>1, <2>3
  <1> QED
    BY <1>1, <1>2

LEMMA ArgsInit == Init => ArgsInv
  <1> SUFFICES ASSUME Init PROVE ArgsInv
    OBVIOUS
  <1>1. cli \in Namespaces
    <2>1. cli \in CommandLines
      BY DEF Init
    <2>2. cli.from \in [MatrixFlags -> {"default", "cli", "file"}]
      BY <2>1 DEF CommandLines
    <2>3. cli.jobs \in Int /\ cli.port \in Int
      BY <2>1, RunArgsAssumption DEF CommandLines
    <2>4. cli.attach \in [str : BOOLEAN, says : BOOLEAN]
      BY <2>1 DEF CommandLines
    <2> QED
      BY <2>1, <2>2, <2>3, <2>4 DEF Namespaces, CommandLines
  <1>2. TypeOK
    BY <1>1 DEF Init, TypeOK, Steps, Verdicts, Plans
  <1>3. InProgress = {}
    BY DEF Init, InProgress
  <1> QED
    BY <1>2, <1>3 DEF Init, ArgsInv, RunsPlanned, NoPortWithJobs, CasePort, OwnSlots

LEMMA ApplySuiteFacts ==
    ASSUME ArgsInv, ApplySuite
    PROVE  args' \in Namespaces
  <1>1. args \in Namespaces /\ suite \in SuiteFiles \cup {None}
    BY DEF ArgsInv, TypeOK
  <1>2. CASE suite = None
    BY <1>1, <1>2 DEF ApplySuite
  <1>3. CASE suite # None
    <2> DEFINE from == [d \in MatrixFlags |-> IF d \in suite.keys THEN "file" ELSE args.from[d]]
               attach == IF suite.attach = None THEN args.attach ELSE Coerced(suite.attach)
               jobs == Or(suite.jobs, args.jobs)
               port == Or(suite.port, args.port)
    <2>1. from \in [MatrixFlags -> {"default", "cli", "file"}]
      BY <1>1 DEF Namespaces
    <2>2. attach \in [str : BOOLEAN, says : BOOLEAN]
      BY <1>1, <1>3, RunArgsAssumption DEF Namespaces, Coerced
    <2>3. jobs \in Int /\ port \in Int
      BY <1>1, <1>3, RunArgsAssumption DEF Namespaces, Or
    <2>4. args' = [args EXCEPT !.from = from, !.attach = attach, !.jobs = jobs, !.port = port]
      BY <1>3 DEF ApplySuite
    <2> HIDE DEF from, attach, jobs, port
    <2> QED
      BY <1>1, <2>1, <2>2, <2>3, <2>4 DEF Namespaces
  <1> QED
    BY <1>2, <1>3

LEMMA ValidateFacts ==
    ASSUME ArgsInv, ValidateCliArguments
    PROVE  /\ args' \in Namespaces
           /\ pc' = "planning" => args'.port \in Nat /\ (args'.jobs > 1 => args'.port = 0)
  <1>1. args \in Namespaces /\ Capped \in Int
    BY RunArgsAssumption DEF ArgsInv, TypeOK, Capped
  <1>2. JobsCapped \in Int
    BY <1>1 DEF Namespaces, JobsCapped
  <1>3. args' = [args EXCEPT !.jobs = JobsCapped]
    BY DEF ValidateCliArguments
  <1>4. args' \in Namespaces /\ args'.port = args.port /\ args'.jobs = JobsCapped
    BY <1>1, <1>2, <1>3 DEF Namespaces
  <1>5. pc' = "planning" => ~ Rejected(JobsCapped)
    BY DEF ValidateCliArguments, Exit
  <1>6. args.port \in Int
    BY <1>1 DEF Namespaces
  <1>7. ~ Rejected(JobsCapped) => args.port \in Nat /\ (JobsCapped > 1 => args.port = 0)
    BY <1>2, <1>6 DEF Rejected
  <1> QED
    BY <1>4, <1>5, <1>7

\* A step of the arguments: nothing is planned yet and nothing runs.
LEMMA EarlyStep ==
    ASSUME ArgsInv, EnforceExclusivity \/ ApplySuite \/ ListModes \/ ValidateCliArguments
    PROVE  ArgsInv'
  <1>1. TypeOK'
    <2>1. CASE EnforceExclusivity
      BY <2>1 DEF EnforceExclusivity, Goto, Exit, run, ArgsInv, TypeOK, Steps
    <2>2. CASE ListModes
      BY <2>2 DEF ListModes, Goto, Exit, run, ArgsInv, TypeOK, Steps
    <2>3. CASE ApplySuite
      <3>1. args' \in Namespaces
        BY <2>3, ApplySuiteFacts
      <3> QED
        BY <2>3, <3>1 DEF ApplySuite, Goto, run, ArgsInv, TypeOK, Steps
    <2>4. CASE ValidateCliArguments
      <3>1. args' \in Namespaces
        BY <2>4, ValidateFacts
      <3> QED
        BY <2>4, <3>1 DEF ValidateCliArguments, Goto, Exit, run, ArgsInv, TypeOK, Steps
    <2> QED
      BY <2>1, <2>2, <2>3, <2>4
  <1>2. pc \in Before /\ slotOf' = slotOf
    BY DEF EnforceExclusivity, ApplySuite, ListModes, ValidateCliArguments, run, Before
  <1>3. InProgress = {} /\ InProgress' = {}
    BY <1>2 DEF InProgress, ArgsInv, RunsPlanned
  <1>4. /\ pc' \in Before \cup {"exited", "planning"}
        /\ pc' = "planning" => ValidateCliArguments
    BY DEF EnforceExclusivity, ApplySuite, ListModes, ValidateCliArguments, Goto, Exit, Before
  <1>5. pc' = "planning" => args'.port \in Nat /\ (args'.jobs > 1 => args'.port = 0)
    BY <1>4, ValidateFacts
  <1> QED
    BY <1>1, <1>3, <1>4, <1>5
    DEF ArgsInv, RunsPlanned, NoPortWithJobs, CasePort, OwnSlots, Before

LEMMA PlanStep ==
    ASSUME ArgsInv, PlanMatrix
    PROVE  ArgsInv'
  <1>1. CasePort \in Nat /\ CasePort' = CasePort
    BY RunArgsAssumption DEF PlanMatrix, CasePort, ArgsInv, TypeOK
  <1>2. args.port \in Nat /\ (args.jobs > 1 => args.port = 0)
    BY DEF PlanMatrix, ArgsInv, NoPortWithJobs
  <1>3. plan' \in Plans
    BY <1>1, <1>2 DEF PlanMatrix, Plans
  <1>4. args.jobs > 1 /\ CasePort = 0 => \A c \in Cells : plan'[c].port = 0
    BY <1>1, <1>2 DEF PlanMatrix
  <1>5. TypeOK'
    BY <1>3 DEF PlanMatrix, Goto, ArgsInv, TypeOK, Steps
  <1>6. InProgress = {} /\ InProgress' = {}
    BY DEF PlanMatrix, InProgress, ArgsInv, RunsPlanned
  <1> QED
    BY <1>2, <1>3, <1>4, <1>5, <1>6
    DEF PlanMatrix, Goto, ArgsInv, RunsPlanned, NoPortWithJobs, CasePort, OwnSlots, Before

LEMMA StartStep ==
    ASSUME ArgsInv, StartSession
    PROVE  ArgsInv'
  <1>1. TypeOK'
    BY DEF StartSession, Goto, ArgsInv, TypeOK, Steps
  <1>2. InProgress = {} /\ InProgress' = {}
    BY DEF StartSession, InProgress, ArgsInv, RunsPlanned
  <1> QED
    BY <1>1, <1>2
    DEF StartSession, Goto, ArgsInv, RunsPlanned, NoPortWithJobs, CasePort, OwnSlots, Before

\* A cell step keeps the arguments and the plan.
LEMMA CellStep ==
    ASSUME ArgsInv, NEW c \in Cells, SkipCell(c) \/ BeginCell(c) \/ EndCell(c)
    PROVE  ArgsInv'
  <1>1. /\ pc = "running" /\ pc' = pc /\ args' = args /\ plan' = plan /\ wrappers' = wrappers
        /\ cli' = cli /\ suite' = suite /\ code' = code
    BY DEF SkipCell, BeginCell, EndCell
  <1>2. slotOf \in [Cells -> Slots \cup {None}] /\ verdict \in [Cells -> Verdicts \cup {None}]
    BY DEF ArgsInv, TypeOK
  <1>3. verdict' \in [Cells -> Verdicts \cup {None}]
    BY <1>2 DEF SkipCell, BeginCell, EndCell, Verdicts
  <1>4. slotOf' \in [Cells -> Slots \cup {None}] /\ OwnSlots'
    <2>1. CASE SkipCell(c)
      BY <1>2, <2>1 DEF SkipCell, ArgsInv, OwnSlots, InProgress
    <2>2. CASE EndCell(c)
      BY <1>2, <2>2 DEF EndCell, ArgsInv, OwnSlots, InProgress
    <2>3. CASE BeginCell(c)
      <3>1. PICK s \in 0..(EffectiveJobs - 1) :
               /\ \A d \in InProgress : slotOf[d] # s
               /\ slotOf' = [slotOf EXCEPT ![c] = s]
        BY <2>3 DEF BeginCell
      <3>2. s \in Slots
        BY EffectiveJobsFacts, RunArgsAssumption DEF Slots, ArgsInv
      <3> QED
        BY <1>2, <3>1, <3>2 DEF ArgsInv, OwnSlots, InProgress
    <2> QED
      BY <2>1, <2>2, <2>3
  <1>5. TypeOK'
    BY <1>1, <1>3, <1>4 DEF ArgsInv, TypeOK
  <1> QED
    BY <1>1, <1>4, <1>5 DEF ArgsInv, RunsPlanned, NoPortWithJobs, CasePort, Before

\* At the exit everything stays as it is.
LEMMA EndStep ==
    ASSUME ArgsInv, Raises \/ Results
    PROVE  ArgsInv'
  <1>1. /\ pc' = "exited" /\ code' \in {0, 1, 2}
        /\ UNCHANGED <<cli, suite, args, plan, wrappers, slotOf, verdict>>
    BY DEF Raises, Results, Exit, run
  <1>2. TypeOK'
    BY <1>1 DEF ArgsInv, TypeOK, Steps
  <1>3. InProgress' = InProgress
    BY <1>1 DEF InProgress
  <1> QED
    BY <1>1, <1>2, <1>3 DEF ArgsInv, RunsPlanned, NoPortWithJobs, CasePort, OwnSlots, Before

LEMMA ArgsStep == ArgsInv /\ [Next]_vars => ArgsInv'
  <1> SUFFICES ASSUME ArgsInv, [Next]_vars PROVE ArgsInv'
    OBVIOUS
  <1>1. CASE EnforceExclusivity \/ ApplySuite \/ ListModes \/ ValidateCliArguments
    BY <1>1, EarlyStep
  <1>2. CASE PlanMatrix
    BY <1>2, PlanStep
  <1>3. CASE StartSession
    BY <1>3, StartStep
  <1>4. CASE \E c \in Cells : SkipCell(c) \/ BeginCell(c) \/ EndCell(c)
    BY <1>4, CellStep
  <1>5. CASE Results \/ Raises
    BY <1>5, EndStep
  <1>6. CASE Over \/ UNCHANGED vars
    <2>1. UNCHANGED vars
      BY <1>6 DEF Over
    <2> QED
      BY <2>1 DEF vars, ArgsInv, TypeOK, RunsPlanned, NoPortWithJobs, CasePort, OwnSlots, InProgress
  <1> QED
    BY <1>1, <1>2, <1>3, <1>4, <1>5, <1>6 DEF Next

-----------------------------------------------------------------------------
(* Ports                                                                    *)

\* Ports of one kind: different slots are a stride apart, different wrappers
\* of one slot less than that.
LEMMA Apart ==
    ASSUME NEW x \in Nat, NEW y \in Nat, NEW k \in Nat, NEW s \in Nat, NEW t \in Nat,
           s < t, x - y < k
    PROVE  x + s * k # y + t * k
  <1>1. t - s - 1 \in Nat /\ (t - s - 1) * k \in Nat
    OBVIOUS
  <1>2. t * k = s * k + k + (t - s - 1) * k
    OBVIOUS
  <1>3. s * k \in Nat /\ t * k \in Nat
    OBVIOUS
  <1> QED
    BY <1>1, <1>2, <1>3

\* The TLS ports of all slots are above the gRPC ports of all slots.
LEMMA Above ==
    ASSUME NEW g \in Nat, NEW p \in Nat, NEW k \in Nat, NEW m \in Nat,
           NEW s \in 0..(m - 1), NEW t \in Nat, g + m * k <= p, k > 0
    PROVE  g + s * k < p + t * k
  <1>1. m - s - 1 \in Nat /\ (m - s - 1) * k \in Nat
    OBVIOUS
  <1>2. m * k = s * k + k + (m - s - 1) * k
    OBVIOUS
  <1>3. s * k \in Nat /\ t * k \in Nat /\ m * k \in Nat
    OBVIOUS
  <1> QED
    BY <1>1, <1>2, <1>3

(* Whatever the command line and the suite file say between them, as long as *)
(* no case names a port of its own, the cells that a parallel run has in     *)
(* progress use different TLS ports, and none of them a gRPC port.           *)
THEOREM ParallelSlotsDoNotCollide == Spec => []SlotsDoNotCollide
  <1>1. ArgsInv => SlotsDoNotCollide
    <2> SUFFICES ASSUME ArgsInv, Parallel, CasePort = 0
                 PROVE  /\ \A c, d \in InProgress : c # d => TlsPort(c) # TlsPort(d)
                        /\ \A c \in InProgress, s \in 0..(EffectiveJobs - 1), b \in Backends :
                              TlsPort(c) # GrpcPort(s, b)
      BY DEF SlotsDoNotCollide
    <2>1. ASSUME NEW c \in InProgress
          PROVE  /\ slotOf[c] \in Nat /\ plan[c].server \in Backends
                 /\ TlsPort(c) = TlsBase[plan[c].server] + slotOf[c] * Stride
      <3>1. c \in Cells /\ slotOf[c] # None
        BY DEF InProgress
      <3>2. slotOf[c] \in Nat
        BY <3>1, RunArgsAssumption DEF ArgsInv, TypeOK, Slots
      <3>3. plan \in Plans /\ plan[c].port = 0
        BY <3>1, <2>1 DEF ArgsInv, RunsPlanned, NoPortWithJobs, Parallel
      <3> QED
        BY <3>1, <3>2, <3>3 DEF Plans, TlsPort
    <2>2. \A b \in Backends : TlsBase[b] \in Nat /\ GrpcBase[b] \in Nat
      BY PortLayout
    <2>3. ASSUME NEW c \in InProgress, NEW d \in InProgress, c # d
          PROVE  TlsPort(c) # TlsPort(d)
      <3>1. slotOf[c] # slotOf[d]
        BY <2>3 DEF ArgsInv, OwnSlots
      <3>2. /\ slotOf[c] \in Nat /\ slotOf[d] \in Nat
            /\ plan[c].server \in Backends /\ plan[d].server \in Backends
            /\ TlsPort(c) = TlsBase[plan[c].server] + slotOf[c] * Stride
            /\ TlsPort(d) = TlsBase[plan[d].server] + slotOf[d] * Stride
        BY <2>1
      <3>3. /\ TlsBase[plan[c].server] - TlsBase[plan[d].server] < Stride
            /\ TlsBase[plan[d].server] - TlsBase[plan[c].server] < Stride
            /\ Stride \in Nat
        BY <3>2, PortLayout
      <3>4. CASE slotOf[c] < slotOf[d]
        BY <2>2, <3>2, <3>3, <3>4, Apart
      <3>5. CASE slotOf[d] < slotOf[c]
        BY <2>2, <3>2, <3>3, <3>5, Apart
      <3> QED
        BY <3>1, <3>2, <3>4, <3>5
    <2>4. ASSUME NEW c \in InProgress, NEW s \in 0..(EffectiveJobs - 1), NEW b \in Backends
          PROVE  TlsPort(c) # GrpcPort(s, b)
      <3>1. EffectiveJobs \in 1..MaxJobs /\ MaxJobs \in Nat
        BY EffectiveJobsFacts, RunArgsAssumption DEF ArgsInv
      <3>2. s \in 0..(MaxJobs - 1) /\ s \in Nat
        BY <3>1
      <3>3. /\ Stride \in Nat /\ Stride > 0
            /\ GrpcBase[b] + MaxJobs * Stride <= TlsBase[plan[c].server]
        BY <2>1, <2>2, PortLayout
      <3>4. GrpcBase[b] + s * Stride < TlsBase[plan[c].server] + slotOf[c] * Stride
        BY <2>1, <2>2, <3>1, <3>2, <3>3, Above
      <3>5. s * Stride \in Nat /\ slotOf[c] * Stride \in Nat
        BY <2>1, <3>2, <3>3
      <3> QED
        BY <2>1, <2>2, <3>4, <3>5 DEF GrpcPort
    <2> QED
      BY <2>3, <2>4
  <1> QED
    BY ArgsInit, ArgsStep, <1>1, PTL DEF Spec

(* The state of a run has its type, from the command line to the exit code.  *)
THEOREM RunArgsTypeCorrect == Spec => []TypeOK
  <1>1. ArgsInv => TypeOK
    BY DEF ArgsInv
  <1> QED
    BY ArgsInit, ArgsStep, <1>1, PTL DEF Spec
=============================================================================
