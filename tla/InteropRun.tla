----------------------------- MODULE InteropRun -----------------------------
(***************************************************************************)
(* A serial matrix run over one wrapper session: main.py runs the cells in  *)
(* order, execute_matrix_cell and _run_cell_worker_thread (core/runner.py)  *)
(* run each cell's driver in a daemon thread under a wall-clock watchdog.   *)
(*                                                                          *)
(* Time is left out.  The watchdog may expire in a cell of SlowCells while  *)
(* its worker is at a step of ExpiresAt; Lingering names the worker steps   *)
(* that may outlast the grace period that follows the emergency CLOSEs.     *)
(***************************************************************************)
EXTENDS InteropDriver

CONSTANTS
    NumCells,
    PreSkipped,  \* cells rejected by cell_capability_skip_reason
    SlowCells,   \* cells that may exceed DEFAULT_CELL_TIMEOUT_S
    ExpiresAt,   \* worker steps at which that limit may expire
    Lingering,   \* worker steps that may outlast CELL_TIMEOUT_CLEANUP_WAIT_S
    LateCloses   \* cells whose emergency CLOSEs may miss their deadline

ASSUME RunAssumption ==
    /\ NumCells \in Nat
    /\ Cells = 1 .. NumCells
    /\ PreSkipped \subseteq Cells
    /\ SlowCells \subseteq Cells
    /\ ExpiresAt \subseteq WorkerSteps \ {"done"}
    /\ Lingering \subseteq WorkerSteps
    /\ LateCloses \subseteq Cells

VARIABLES
    mpc,      \* where the main thread is
    cur,      \* the cell it runs or is about to run
    verdict   \* what it reported for each cell

vars == <<wvars, dvars, mpc, cur, verdict>>

MainSteps == {"next", "joining", "emergency_server", "emergency_client",
              "joining_again", "stopped"}
Verdicts == {"none", "PASS", "FAIL", "SKIP", "TIMEOUT"}

Init ==
    /\ WInit
    /\ DInit
    /\ mpc = "next"
    /\ cur = 1
    /\ verdict = [c \in Cells |-> "none"]

-----------------------------------------------------------------------------
(* The main thread                                                          *)

Report(v) ==
    /\ verdict' = [verdict EXCEPT ![cur] = v]
    /\ cur' = cur + 1
    /\ mpc' = "next"

\* Pre-run SKIP: the session is not touched.
SkipCell ==
    /\ mpc = "next" /\ cur \in PreSkipped
    /\ Report("SKIP")
    /\ UNCHANGED <<wvars, dvars>>

BeginCell ==
    /\ mpc = "next" /\ cur \in Cells \ PreSkipped
    /\ StartWorker(cur)
    /\ mpc' = "joining"
    /\ UNCHANGED <<cur, verdict>>

\* Wrong variant: the holder's value is reported instead of a verdict.
Outcome_RawResult(c) == result[c]

\* An exception beats a skip, a skip beats the result.
Outcome(c) ==
    IF result[c] = "exc" THEN "FAIL"
    ELSE IF c \in skipped THEN "SKIP"
    ELSE IF result[c] = "ok" THEN "PASS" ELSE "FAIL"

\* `finally: remove_tls_session_artifact_files(wroot)` of execute_matrix_cell.
RemoveArtifacts ==
    /\ ticket' = NoCell
    /\ UNCHANGED <<status, rpcs, phase, wrapperMem, cli, waiting, reply>>

\* thread.join returned within the limit.
WorkerJoined ==
    /\ mpc = "joining"
    /\ wpc[cur] = "done"
    /\ Report(Outcome(cur))
    /\ RemoveArtifacts
    /\ UNCHANGED dvars

\* emergency_cleanup: CLOSE server, then CLOSE client, each with a deadline.
CellTimesOut ==
    /\ mpc = "joining"
    /\ cur \in SlowCells
    /\ wpc[cur] \in ExpiresAt
    /\ Call(Request(Main, cur, "CLOSE", "server"))
    /\ mpc' = "emergency_server"
    /\ UNCHANGED <<dvars, cur, verdict>>

\* Wrong variant: the emergency CLOSE has no deadline.
EmergencyCallOver_NoDeadline == reply[Main] # NoReply

\* Answered, failed or DEADLINE_EXCEEDED: the watchdog goes on.
EmergencyCallOver == reply[Main] # NoReply \/ cur \in LateCloses

EmergencyCloseClient ==
    /\ mpc = "emergency_server"
    /\ EmergencyCallOver
    /\ Call(Request(Main, cur, "CLOSE", "client"))
    /\ mpc' = "emergency_client"
    /\ UNCHANGED <<dvars, cur, verdict>>

EmergencyClosed ==
    /\ mpc = "emergency_client"
    /\ EmergencyCallOver
    /\ Hangup(Main)
    /\ mpc' = "joining_again"
    /\ UNCHANGED <<dvars, cur, verdict>>

\* Wrong variant: the second join is missing.
ReportTimeout_NoSecondJoin ==
    /\ mpc = "joining_again"
    /\ Report("TIMEOUT")
    /\ RemoveArtifacts
    /\ UNCHANGED dvars

\* Wrong variant: a cell that timed out is run again.
ReportTimeout_Retries ==
    /\ mpc = "joining_again"
    /\ wpc[cur] = "done" \/ wpc[cur] \in Lingering
    /\ verdict' = [verdict EXCEPT ![cur] = "TIMEOUT"]
    /\ mpc' = "next"
    /\ UNCHANGED cur
    /\ RemoveArtifacts
    /\ UNCHANGED dvars

\* The second join; its outcome is not looked at.
ReportTimeout ==
    /\ mpc = "joining_again"
    /\ wpc[cur] = "done" \/ wpc[cur] \in Lingering
    /\ Report("TIMEOUT")
    /\ RemoveArtifacts
    /\ UNCHANGED dvars

\* All cells reported: session.stop().
StopSession ==
    /\ mpc = "next" /\ cur = NumCells + 1
    /\ StopAll
    /\ mpc' = "stopped"
    /\ UNCHANGED <<dvars, cur, verdict>>

MainStep ==
    \/ SkipCell     \/ BeginCell            \/ WorkerJoined    \/ CellTimesOut
    \/ EmergencyCloseClient \/ EmergencyClosed \/ ReportTimeout \/ StopSession

\* The run is over (daemon threads that still run do not matter any more).
Over ==
    /\ mpc = "stopped"
    /\ UNCHANGED vars

Rest == <<mpc, cur, verdict>>

Next ==
    \/ MainStep
    \/ \E c \in Cells : WorkerStep(c) /\ UNCHANGED Rest
    \/ \E w \in Backends : (Handle(w) \/ Crash(w)) /\ UNCHANGED <<dvars, Rest>>
    \/ \E p \in Procs : CliStep(p) /\ UNCHANGED <<dvars, Rest>>
    \/ Over

Spec == Init /\ [][Next]_vars

\* Only the main thread is sure to make progress: wrappers, workers and CLI
\* processes may hang for ever.
FairSpec == Spec /\ WF_vars(MainStep)

\* Worker threads and the gRPC threads of the wrappers run, too; the CLI
\* processes still may hang, wrappers may crash.
ServedSpec ==
    /\ FairSpec
    /\ \A c \in Cells : WF_vars(WorkerStep(c) /\ UNCHANGED Rest)
    /\ \A w \in Backends : WF_vars(Handle(w) /\ UNCHANGED <<dvars, Rest>>)

-----------------------------------------------------------------------------
(* Properties                                                               *)

(* Type invariant of the session, the workers and the main thread. *)
TypeOK ==
    /\ WTypeOK
    /\ DTypeOK
    /\ mpc \in MainSteps
    /\ cur \in 1 .. NumCells + 1
    /\ verdict \in [Cells -> Verdicts]

\* The worker of c still has to get its CLOSE of role r answered.
ClosePending(c, r) ==
    \/ wpc[c] \in TestSteps
    \/ wpc[c] = "close_server" /\ (r = "client" \/ reply[c] = NoReply)
    \/ wpc[c] = "close_client" /\ r = "client" /\ reply[c] = NoReply

(* Whoever started something still has its own CLOSE to run: a CLI process   *)
(* or a staged private key of cell c in a wrapper that is up implies that    *)
(* the worker of c has not closed that role yet.  Holds for every failure,   *)
(* skip and timeout, and for workers the watchdog has abandoned.             *)
OwnerWillClose ==
    \A w \in Backends : status[w] = "up" =>
        /\ \A p \in Procs : Live(p) /\ HostOf(p) = w =>
              ClosePending(p.cell, RoleOf(p.kind))
        /\ \A c \in pem[w] : ClosePending(c, "server")

\* The payload went from the cell's own client to the cell's own server.
Proven(c) == FinalClient(c) \in arrived /\ peer[FinalClient(c)] = Proc(c, "server")

(* PASS is earned: the server that printed the payload and the client that   *)
(* sent it are the processes this very cell established.                     *)
PassIsEarned == \A c \in Cells : verdict[c] = "PASS" => Proven(c)

(* A CLOSE that a wrapper is about to run finds no process of another cell:  *)
(* the watchdog's and the workers' CLOSEs never hit a cell they do not mean  *)
(* ("sends gRPC CLOSE ... and continues the matrix", README.md:69).          *)
CloseHitsOwnCell ==
    \A w \in Backends : Serving(w, "CLOSE", "idle") =>
        \A r \in Roles : hosted[w][r] # NoProc =>
            hosted[w][r].cell = Head(rpcs[w]).cell

(* Between the save and the resume handshake of the cell the matrix is at    *)
(* nobody removes or replaces the ticket it saved in the session's shared    *)
(* root directory: no other role's CLOSE, and no earlier cell's leftovers.   *)
(* (Once its watchdog has expired, the emergency CLOSE may take it away.)    *)
TicketSurvives ==
    \A c \in saved :
        mpc = "joining" /\ cur = c /\ wpc[c] = "est_resume" => ticket = c

(* After the run, keys staged in /tmp remain only for cells that timed out,  *)
(* and CLI processes only under wrappers that crashed.                       *)
NothingLeftBehind ==
    mpc = "stopped" =>
        /\ \A w \in Backends : status[w] = "stopped" =>
              \A c \in pem[w] : verdict[c] = "TIMEOUT"
        /\ \A p \in Procs : Live(p) => status[HostOf(p)] = "crashed"

(* The run ends with a verdict for every cell, whatever the wrappers, the    *)
(* CLI processes and the worker threads do or fail to do.                    *)
MatrixTerminates == <>(mpc = "stopped" /\ \A c \in Cells : verdict[c] # "none")

(* Every worker ends, also one the watchdog has given up: although its calls *)
(* have no deadline and wait behind those of other workers and of the        *)
(* watchdog, and whatever CLI processes, crashes and session.stop() do.      *)
WorkersFinish == \A c \in Cells : wpc[c] # "idle" ~> wpc[c] = "done"

Promise == INSTANCE CellVerdicts WITH proven <- {c \in Cells : Proven(c)}

(* The run implements CellVerdicts: in order, once each, and honestly.       *)
RunKeepsPromise == Promise!Spec
=============================================================================
