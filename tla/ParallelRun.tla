---------------------------- MODULE ParallelRun ----------------------------
(***************************************************************************)
(* run_matrix_parallel (src/main.py) over WrapperSession (core/runner.py):  *)
(* one session of wrapper processes per worker slot, started one after the  *)
(* other by the main thread; then a pool with as many threads as slots      *)
(* borrows a slot for each cell; then every session is stopped.             *)
(*                                                                          *)
(* What a cell does on its slot is InteropRun; here it is one step with an  *)
(* arbitrary outcome.  Listeners that hold a port when the run begins are   *)
(* in "taken"; nobody else binds the run's ports later.                     *)
(***************************************************************************)
EXTENDS Integers, Sequences, FiniteSets

CONSTANTS
    Jobs,       \* --jobs
    NumCells,   \* matrix combinations
    Backends,   \* wrappers a session needs, in the order it starts them
    BasePort,   \* gRPC port of each wrapper in slot 0
    Stride,     \* WORKER_PORT_STRIDE
    MaxJobs,    \* MAX_PARALLEL_JOBS
    PreSkipped, \* cells rejected by cell_capability_skip_reason
    Raising,    \* cells whose execution may raise
    Fragile,    \* <<slot, wrapper>> that may exit by itself
    Occupied    \* ports other programs may hold when the run begins

Cells == 1 .. NumCells

\* effective_jobs: no more slots than cells or than the port layout allows.
EffectiveJobs ==
    CHOOSE n \in {Jobs, NumCells, MaxJobs} :
        \A m \in {Jobs, NumCells, MaxJobs} : n <= m

Slots       == 0 .. EffectiveJobs - 1
PoolThreads == Slots
Wrappers    == {Backends[j] : j \in DOMAIN Backends}
Services    == Slots \X Wrappers

\* _worker_slot_grpc_overrides
GrpcPort(s, b) == BasePort[b] + s * Stride

ASSUME ParallelAssumption ==
    /\ Jobs \in Nat \ {0} /\ NumCells \in Nat \ {0} /\ MaxJobs \in Nat \ {0}
    /\ Backends \in Seq(Wrappers)
    /\ BasePort \in [Wrappers -> Nat]
    /\ Stride \in Nat
    /\ \A b, c \in Wrappers :
          /\ b # c => BasePort[b] # BasePort[c]
          /\ BasePort[b] - BasePort[c] < Stride
    /\ PreSkipped \subseteq Cells /\ Raising \subseteq Cells
    /\ Fragile \subseteq Slots \X Wrappers
    /\ Occupied \subseteq Nat

VARIABLES
    mpc,     \* where the main thread is
    slot,    \* the session it starts or stops
    at,      \* index of the wrapper it checks, spawns or asks for metadata
    pending, \* wrappers of that session not yet seen on their gRPC port
    failed,  \* an exception is on its way out of main
    proc,    \* wrapper processes
    taken,   \* ports held by other programs
    work,    \* cells submitted and not yet taken by a pool thread
    slotq,   \* slot_queue
    thr,     \* pool threads: step, cell, slot and result
    outcome, \* results of the futures
    results  \* cells whose result as_completed has handed over

session == <<slot, at, pending, failed>>
pool    == <<work, slotq, thr, outcome>>
vars    == <<mpc, session, proc, taken, pool, results>>

\* A pool thread at step pc of cell c, with slot s and result r.
At(pc, c, s, r) == [pc |-> pc, cell |-> c, slot |-> s, res |-> r]
Idle == At("idle", 0, 0, "none")
Results == {"PASS", "FAIL", "SKIP", "TIMEOUT", "raised"}
Alive(x) == proc[x] \in {"booting", "serving"}

Init ==
    /\ mpc = "checking"
    /\ slot = 0 /\ at = 1 /\ pending = {} /\ failed = FALSE
    /\ proc = [x \in Services |-> "none"]
    /\ taken \in SUBSET Occupied
    /\ work = <<>>
    /\ slotq = [i \in 1 .. EffectiveJobs |-> i - 1]
    /\ thr = [t \in PoolThreads |-> Idle]
    /\ outcome = [c \in Cells |-> "none"]
    /\ results = {}

-----------------------------------------------------------------------------
(* WrapperSession.start, slot after slot                                    *)

\* An exception in start() leaves main.py at once: no session is stopped.
StartRaises ==
    /\ failed' = TRUE
    /\ mpc' = "exited"
    /\ UNCHANGED <<slot, at, pending, proc, taken, pool, results>>

PortInUse(s, b) ==
    \/ GrpcPort(s, b) \in taken
    \/ \E x \in Services : proc[x] = "serving" /\ GrpcPort(x[1], x[2]) = GrpcPort(s, b)

\* Wrong variant: nobody looks whether the ports are free.
PortsChecked_NoProbe ==
    /\ mpc = "checking"
    /\ mpc' = "spawning" /\ at' = 1
    /\ UNCHANGED <<slot, pending, failed, proc, taken, pool, results>>

\* _assert_grpc_ports_free
PortsChecked ==
    /\ mpc = "checking"
    /\ \A b \in Wrappers : ~ PortInUse(slot, b)
    /\ mpc' = "spawning" /\ at' = 1
    /\ UNCHANGED <<slot, pending, failed, proc, taken, pool, results>>

PortCollision ==
    /\ mpc = "checking"
    /\ \E b \in Wrappers : PortInUse(slot, b)
    /\ StartRaises

\* Certificates cannot be made or a CLI tool is not on PATH; the sessions look
\* for the same files.
PreflightFails ==
    /\ mpc = "checking" /\ slot = 0
    /\ StartRaises

\* _start_one_wrapper: Popen; a process that exits at once is an error.
SpawnWrapper ==
    /\ mpc = "spawning" /\ at <= Len(Backends)
    /\ proc' = [proc EXCEPT ![<<slot, Backends[at]>>] = "booting"]
    /\ at' = at + 1
    /\ UNCHANGED <<mpc, slot, pending, failed, taken, pool, results>>

ExitsAtOnce ==
    /\ mpc = "spawning" /\ at <= Len(Backends)
    /\ <<slot, Backends[at]>> \in Fragile
    /\ proc' = [proc EXCEPT ![<<slot, Backends[at]>>] = "exited"]
    /\ failed' = TRUE
    /\ mpc' = "exited"
    /\ UNCHANGED <<slot, at, pending, taken, pool, results>>

AllSpawned ==
    /\ mpc = "spawning" /\ at > Len(Backends)
    /\ mpc' = "waiting" /\ pending' = Wrappers
    /\ UNCHANGED <<slot, at, failed, proc, taken, pool, results>>

\* _probe_grpc_addr: something accepts on the port.
ProbeSucceeds(b) ==
    /\ mpc = "waiting" /\ b \in pending
    /\ PortInUse(slot, b)
    /\ pending' = pending \ {b}
    /\ UNCHANGED <<mpc, slot, at, failed, proc, taken, pool, results>>

\* _raise_if_wrappers_crashed: any wrapper of this session, only while one is pending.
CrashSeen ==
    /\ mpc = "waiting" /\ pending # {}
    /\ \E b \in Wrappers : proc[<<slot, b>>] = "exited"
    /\ StartRaises

\* Wrong variant: the wait for the wrappers has no deadline.
StartTimesOut_Never ==
    /\ mpc = "waiting" /\ FALSE
    /\ StartRaises

\* 90 s with a wrapper that does not answer.
StartTimesOut ==
    /\ mpc = "waiting"
    /\ \E b \in pending : ~ PortInUse(slot, b)
    /\ StartRaises

SessionReady ==
    /\ mpc = "waiting" /\ pending = {}
    /\ mpc' = "metadata" /\ at' = 1
    /\ UNCHANGED <<slot, pending, failed, proc, taken, pool, results>>

\* _load_metadata: GetMetadata of one wrapper after the other, no deadline.
MetadataLoaded ==
    /\ mpc = "metadata" /\ at <= Len(Backends)
    /\ PortInUse(slot, Backends[at])
    /\ at' = at + 1
    /\ UNCHANGED <<mpc, slot, pending, failed, proc, taken, pool, results>>

MetadataFails ==
    /\ mpc = "metadata" /\ at <= Len(Backends)
    /\ ~ PortInUse(slot, Backends[at])
    /\ StartRaises

NextSession ==
    /\ mpc = "metadata" /\ at > Len(Backends)
    /\ slot + 1 \in Slots
    /\ slot' = slot + 1 /\ mpc' = "checking"
    /\ UNCHANGED <<at, pending, failed, proc, taken, pool, results>>

\* Every session runs: all cells are submitted.
SubmitAll ==
    /\ mpc = "metadata" /\ at > Len(Backends)
    /\ slot + 1 \notin Slots
    /\ work' = [i \in 1 .. NumCells |-> i]
    /\ mpc' = "collecting"
    /\ UNCHANGED <<session, proc, taken, slotq, thr, outcome, results>>

-----------------------------------------------------------------------------
(* The pool: run_matrix_cell                                                *)

TakeCell(t) ==
    /\ thr[t].pc = "idle" /\ work # <<>>
    /\ thr' = [thr EXCEPT ![t] = At("planning", Head(work), 0, "none")]
    /\ work' = Tail(work)
    /\ UNCHANGED <<slotq, outcome>>

\* Pre-run SKIP: no slot is borrowed.
SkipCell(t) ==
    /\ thr[t].pc = "planning" /\ thr[t].cell \in PreSkipped
    /\ outcome' = [outcome EXCEPT ![thr[t].cell] = "SKIP"]
    /\ thr' = [thr EXCEPT ![t] = Idle]
    /\ UNCHANGED <<work, slotq>>

\* Normalising the cell or looking for a skip reason raises.
PlanRaises(t) ==
    /\ thr[t].pc = "planning" /\ thr[t].cell \in Raising
    /\ outcome' = [outcome EXCEPT ![thr[t].cell] = "raised"]
    /\ thr' = [thr EXCEPT ![t] = Idle]
    /\ UNCHANGED <<work, slotq>>

\* _borrow_cell_session: slot_queue.get() blocks while the queue is empty.
BorrowSlot(t) ==
    /\ thr[t].pc = "planning" /\ thr[t].cell \notin PreSkipped
    /\ slotq # <<>>
    /\ thr' = [thr EXCEPT ![t] = At("running", thr[t].cell, Head(slotq), "none")]
    /\ slotq' = Tail(slotq)
    /\ UNCHANGED <<work, outcome>>

ExecuteCell(t) ==
    /\ thr[t].pc = "running"
    /\ \E r \in Results :
         /\ r = "raised" => thr[t].cell \in Raising
         /\ thr' = [thr EXCEPT ![t] = At("returning", thr[t].cell, thr[t].slot, r)]
    /\ UNCHANGED <<work, slotq, outcome>>

\* Wrong variant: the slot is put back on the normal path only.
ReturnSlot_NoFinally(t) ==
    /\ thr[t].pc = "returning"
    /\ slotq' = IF thr[t].res = "raised" THEN slotq ELSE Append(slotq, thr[t].slot)
    /\ outcome' = [outcome EXCEPT ![thr[t].cell] = thr[t].res]
    /\ thr' = [thr EXCEPT ![t] = Idle]
    /\ UNCHANGED work

\* `finally: slot_queue.put(slot_id)`; then the future has its result.
ReturnSlot(t) ==
    /\ thr[t].pc = "returning"
    /\ slotq' = Append(slotq, thr[t].slot)
    /\ outcome' = [outcome EXCEPT ![thr[t].cell] = thr[t].res]
    /\ thr' = [thr EXCEPT ![t] = Idle]
    /\ UNCHANGED work

PoolStep(t) ==
    /\ \/ TakeCell(t)   \/ SkipCell(t)    \/ PlanRaises(t)
       \/ BorrowSlot(t) \/ ExecuteCell(t) \/ ReturnSlot(t)
    /\ UNCHANGED <<mpc, session, proc, taken, results>>

-----------------------------------------------------------------------------
(* The main thread collects, waits for the pool and stops the sessions      *)

Collect(c) ==
    /\ mpc = "collecting"
    /\ outcome[c] \notin {"none", "raised"} /\ c \notin results
    /\ results' = results \cup {c}
    /\ UNCHANGED <<mpc, session, proc, taken, pool>>

\* future.result() raises: the loop ends, the rest of the results is lost.
CollectRaises(c) ==
    /\ mpc = "collecting"
    /\ outcome[c] = "raised"
    /\ failed' = TRUE
    /\ mpc' = "draining"
    /\ UNCHANGED <<slot, at, pending, proc, taken, pool, results>>

AllCollected ==
    /\ mpc = "collecting" /\ results = Cells
    /\ mpc' = "draining"
    /\ UNCHANGED <<session, proc, taken, pool, results>>

\* Wrong variant: executor.shutdown(wait=False, cancel_futures=True).
PoolDrained_NoWait ==
    /\ mpc = "draining"
    /\ work' = <<>>
    /\ mpc' = "stopping" /\ slot' = 0
    /\ UNCHANGED <<at, pending, failed, proc, taken, slotq, thr, outcome, results>>

\* Leaving `with ThreadPoolExecutor`: shutdown(wait=True) runs what is queued.
PoolDrained ==
    /\ mpc = "draining"
    /\ work = <<>> /\ \A t \in PoolThreads : thr[t] = Idle
    /\ mpc' = "stopping" /\ slot' = 0
    /\ UNCHANGED <<at, pending, failed, proc, taken, pool, results>>

\* Wrong variant: stop() returns at a wrapper that has already exited.
StopSession_Returns ==
    /\ mpc = "stopping" /\ slot \in Slots
    /\ proc' = [x \in Services |->
                  IF /\ x[1] = slot /\ Alive(x)
                     /\ \A b \in Wrappers : Alive(<<slot, b>>)
                  THEN "exited" ELSE proc[x]]
    /\ slot' = slot + 1
    /\ UNCHANGED <<mpc, at, pending, failed, taken, pool, results>>

\* Wrong variant: the loop does not end with the last session.
StopSession_Unbounded ==
    /\ mpc = "stopping"
    /\ proc' = [x \in Services |->
                  IF x[1] = slot /\ Alive(x) THEN "exited" ELSE proc[x]]
    /\ slot' = slot + 1
    /\ UNCHANGED <<mpc, at, pending, failed, taken, pool, results>>

\* stop(): killpg with SIGTERM, after 8 s with SIGKILL.
StopSession ==
    /\ mpc = "stopping" /\ slot \in Slots
    /\ proc' = [x \in Services |->
                  IF x[1] = slot /\ Alive(x) THEN "exited" ELSE proc[x]]
    /\ slot' = slot + 1
    /\ UNCHANGED <<mpc, at, pending, failed, taken, pool, results>>

AllStopped ==
    /\ mpc = "stopping" /\ slot \notin Slots
    /\ mpc' = "exited"
    /\ UNCHANGED <<session, proc, taken, pool, results>>

StartStep ==
    \/ PortsChecked \/ PortCollision \/ PreflightFails \/ SpawnWrapper \/ ExitsAtOnce \/ AllSpawned
    \/ \E b \in Wrappers : ProbeSucceeds(b)
    \/ CrashSeen \/ StartTimesOut \/ SessionReady
    \/ MetadataLoaded \/ MetadataFails \/ NextSession \/ SubmitAll

MainStep ==
    \/ StartStep
    \/ \E c \in Cells : Collect(c) \/ CollectRaises(c)
    \/ AllCollected \/ PoolDrained \/ StopSession \/ AllStopped

-----------------------------------------------------------------------------
(* Wrapper processes                                                        *)

Boots(x) ==
    /\ proc[x] = "booting"
    /\ proc' = [proc EXCEPT ![x] = "serving"]
    /\ UNCHANGED <<mpc, session, taken, pool, results>>

Exits(x) ==
    /\ x \in Fragile /\ Alive(x)
    /\ proc' = [proc EXCEPT ![x] = "exited"]
    /\ UNCHANGED <<mpc, session, taken, pool, results>>

Over == mpc = "exited" /\ UNCHANGED vars

Next ==
    \/ MainStep
    \/ \E t \in PoolThreads : PoolStep(t)
    \/ \E x \in Services : Boots(x) \/ Exits(x)
    \/ Over

Spec == Init /\ [][Next]_vars

\* Threads run; a cell ends because of its watchdog (InteropRun); a wrapper
\* need not ever come up.
FairSpec == Spec /\ WF_vars(MainStep) /\ \A t \in PoolThreads : WF_vars(PoolStep(t))

-----------------------------------------------------------------------------
(* Properties                                                               *)

MainSteps == {"checking", "spawning", "waiting", "metadata", "collecting",
              "draining", "stopping", "exited"}

(* Type invariant of the run, its sessions and its pool. *)
TypeOK ==
    /\ mpc \in MainSteps
    /\ slot \in 0 .. EffectiveJobs /\ at \in 1 .. Len(Backends) + 1
    /\ pending \subseteq Wrappers /\ failed \in BOOLEAN
    /\ proc \in [Services -> {"none", "booting", "serving", "exited"}]
    /\ taken \subseteq Occupied
    /\ work \in Seq(Cells) /\ slotq \in Seq(Slots)
    /\ thr \in [PoolThreads -> [pc : {"idle", "planning", "running", "returning"},
                                cell : Cells \cup {0}, slot : Slots,
                                res : Results \cup {"none"}]]
    /\ outcome \in [Cells -> Results \cup {"none"}]
    /\ results \subseteq Cells

Holds(t, s) == thr[t].pc \in {"running", "returning"} /\ thr[t].slot = s

(* Each slot is in the queue once or with one thread, also after cells that  *)
(* raised: no two cells share wrappers and ports, and no slot is lost.       *)
SlotsConserved ==
    \A s \in Slots :
        Cardinality({i \in DOMAIN slotq : slotq[i] = s})
          + Cardinality({t \in PoolThreads : Holds(t, s)}) = 1

(* A cell runs on a session whose wrappers all came up, and every listener   *)
(* on the session's gRPC ports is a wrapper this run started in that slot.   *)
OwnWrappersOnly ==
    \A t \in PoolThreads, s \in Slots : Holds(t, s) =>
        \A b \in Wrappers :
            /\ proc[<<s, b>>] \notin {"none", "booting"}
            /\ GrpcPort(s, b) \notin taken
            /\ \A x \in Services : x # <<s, b>> /\ Alive(x) =>
                  GrpcPort(x[1], x[2]) # GrpcPort(s, b)

(* No session is stopped under a cell, and an exception of one cell takes no *)
(* other cell's execution away.                                              *)
NoCellCutOff ==
    mpc = "stopping" \/ (mpc = "exited" /\ outcome # [c \in Cells |-> "none"]) =>
        /\ \A t \in PoolThreads : thr[t] = Idle
        /\ \A c \in Cells : outcome[c] # "none"

\* The pool has worked.
Ran == \E c \in Cells : outcome[c] # "none"

(* A run that got as far as its cells leaves no wrapper process behind. *)
StoppedAfterCells == mpc = "exited" /\ Ran => \A x \in Services : ~ Alive(x)

(* The run ends whichever wrappers fail to come up, exit, or raise. *)
RunEnds == <>(mpc = "exited")
=============================================================================
