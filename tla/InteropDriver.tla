--------------------------- MODULE InteropDriver ---------------------------
(***************************************************************************)
(* The worker thread of a cell: InteropDriver.run_test_with_configs in      *)
(* src/core/runner.py.  Each step consumes the reply of one blocking RPC    *)
(* (issued WITHOUT a deadline) and issues the next one; `finally` always    *)
(* sends CLOSE to the server's and then to the client's wrapper.            *)
(***************************************************************************)
EXTENDS Wrapper

CONSTANTS
    Resuming,   \* cells with test feature resumption or 0rtt
    ExpectHrr   \* cells that assert a Hello Retry Request

ASSUME DriverAssumption == Resuming \subseteq Cells /\ ExpectHrr \subseteq Cells

VARIABLES
    wpc,      \* where the worker of each cell is
    result,   \* holder["ok"] / holder["exc"] of the cell
    skipped   \* cells whose driver has a last_skip_reason

dvars == <<wpc, result, skipped>>

EstablishSteps == {"est_server", "est_client", "est_save", "est_resume"}
RoundTripSteps == {"wait_tcp", "tx_client", "tx_server"}
TestSteps      == EstablishSteps \cup RoundTripSteps
CloseSteps     == {"close_server", "close_client"}
WorkerSteps    == {"idle", "done"} \cup TestSteps \cup CloseSteps

\* The client process the round trip of c runs over.
FinalClient(c) == Proc(c, IF c \in Resuming THEN "resume" ELSE "client")

DInit ==
    /\ wpc = [c \in Cells |-> "idle"]
    /\ result = [c \in Cells |-> "none"]
    /\ skipped = {}

-----------------------------------------------------------------------------
At(c, pc, status_) == wpc[c] = pc /\ reply[c].status = status_

\* The RPC of each step: its operation, and its role and resumption step.
StepOp(pc) ==
    CASE pc \in EstablishSteps -> "ESTABLISH"
      [] pc \in CloseSteps     -> "CLOSE"
      [] OTHER                 -> "TRANSMIT"
StepKind(pc) ==
    CASE pc \in {"est_server", "tx_server", "close_server"} -> "server"
      [] pc = "est_save"   -> "save"
      [] pc = "est_resume" -> "resume"
      [] OTHER             -> "client"
RpcOf(c, pc) == Request(c, c, StepOp(pc), StepKind(pc))

\* The worker moves to step pc and blocks on the RPC of that step.
Ask(c, pc) ==
    /\ wpc' = [wpc EXCEPT ![c] = pc]
    /\ Call(RpcOf(c, pc))

\* The try block ends; `finally: self._cleanup()` starts with the server.
Conclude(c, res) ==
    /\ result' = [result EXCEPT ![c] = res]
    /\ Ask(c, "close_server")

StartWorker(c) ==
    /\ Ask(c, "est_server")
    /\ UNCHANGED <<result, skipped>>

ServerEstablished(c) ==
    /\ At(c, "est_server", "SUCCESS")
    /\ IF c \in Resuming THEN Ask(c, "est_save")
                         ELSE Ask(c, "est_client")
    /\ UNCHANGED <<result, skipped>>

SessionSaved(c) ==
    /\ At(c, "est_save", "SUCCESS")
    /\ Ask(c, "est_resume")
    /\ UNCHANGED <<result, skipped>>

\* The client answered; next the driver itself polls the server's TLS port.
ClientEstablished(c) ==
    /\ At(c, "est_client", "SUCCESS") \/ At(c, "est_resume", "SUCCESS")
    /\ wpc' = [wpc EXCEPT ![c] = "wait_tcp"]
    /\ Hangup(c)
    /\ UNCHANGED <<result, skipped>>

\* negotiated.hrr_occurred is false although the cell expects an HRR; the
\* resume step is not asserted.
HrrAssertionFails(c) ==
    /\ c \in ExpectHrr
    /\ At(c, "est_client", "SUCCESS") \/ At(c, "est_save", "SUCCESS")
    /\ Conclude(c, "notok")
    /\ UNCHANGED skipped

PeerAccepts(c) ==
    /\ wpc[c] = "wait_tcp"
    /\ PortOpen(CellServer[c])
    /\ Ask(c, "tx_client")
    /\ UNCHANGED <<result, skipped>>

\* 20 s without an accepting port.
PeerSilent(c) ==
    /\ wpc[c] = "wait_tcp"
    /\ ~ PortOpen(CellServer[c])
    /\ Conclude(c, "notok")
    /\ UNCHANGED skipped

ClientTransmitted(c) ==
    /\ At(c, "tx_client", "SUCCESS")
    /\ Ask(c, "tx_server")
    /\ UNCHANGED <<result, skipped>>

\* Wrong variant: a successful TRANSMIT is enough, its output is not looked at.
ServerTransmitted_Unchecked(c) ==
    /\ At(c, "tx_server", "SUCCESS")
    /\ Conclude(c, "ok")
    /\ UNCHANGED skipped

\* TEST_PAYLOAD in r_srv.output_data?
ServerTransmitted(c) ==
    /\ At(c, "tx_server", "SUCCESS")
    /\ Conclude(c, IF reply[c].echo # {} THEN "ok" ELSE "notok")
    /\ UNCHANGED skipped

\* _check_response is false: FAILURE, ERROR, or SUCCESS with a SKIP message.
StepFails(c) ==
    /\ wpc[c] \in TestSteps
    /\ reply[c].status \in {"FAILURE", "SKIP"}
    /\ Conclude(c, "notok")
    /\ skipped' = IF reply[c].status = "SKIP" THEN skipped \cup {c} ELSE skipped

\* Wrong variant: _cleanup is not in a finally block.
StepRaises_NoFinally(c) ==
    /\ wpc[c] \in TestSteps
    /\ reply[c].status = "UNAVAILABLE"
    /\ result' = [result EXCEPT ![c] = "exc"]
    /\ wpc' = [wpc EXCEPT ![c] = "done"]
    /\ Hangup(c)
    /\ UNCHANGED skipped

\* grpc.RpcError: `finally` still runs, the exception reaches the holder.
StepRaises(c) ==
    /\ wpc[c] \in TestSteps
    /\ reply[c].status = "UNAVAILABLE"
    /\ Conclude(c, "exc")
    /\ UNCHANGED skipped

\* Whatever CLOSE returns or raises is ignored.
ServerClosed(c) ==
    /\ wpc[c] = "close_server"
    /\ reply[c] # NoReply
    /\ Ask(c, "close_client")
    /\ UNCHANGED <<result, skipped>>

ClientClosed(c) ==
    /\ wpc[c] = "close_client"
    /\ reply[c] # NoReply
    /\ wpc' = [wpc EXCEPT ![c] = "done"]
    /\ Hangup(c)
    /\ UNCHANGED <<result, skipped>>

WorkerStep(c) ==
    \/ ServerEstablished(c) \/ SessionSaved(c)      \/ ClientEstablished(c)
    \/ HrrAssertionFails(c) \/ PeerAccepts(c)       \/ PeerSilent(c)
    \/ ClientTransmitted(c) \/ ServerTransmitted(c) \/ StepFails(c)
    \/ StepRaises(c)        \/ ServerClosed(c)      \/ ClientClosed(c)

(* Type invariant of the workers. *)
DTypeOK ==
    /\ wpc \in [Cells -> WorkerSteps]
    /\ result \in [Cells -> {"none", "ok", "notok", "exc"}]
    /\ skipped \subseteq Cells
=============================================================================
