--------------------------- MODULE RunOrderProofs ---------------------------
(***************************************************************************)
(* What one cell of a matrix run leaves to the next, for every session,     *)
(* every matrix and every choice of slow cells.                             *)
(*                                                                          *)
(* EInv: nothing outlives the run but what timed-out cells and crashed      *)
(* wrappers have left.  OInv (no worker outlives the watchdog's grace       *)
(* period): no CLOSE meets a cell it does not mean.  BInv (no crashes,      *)
(* either): only the current cell has processes; on it rest SInv, by which  *)
(* the session ticket survives, and HInv, by which a PASS is earned and the *)
(* run implements CellVerdicts.                                             *)
(***************************************************************************)
EXTENDS InteropRunProofs

Quiet(c) == wpc[c] \in {"idle", "done"}

\* Cells are reported in order; only a TIMEOUT leaves a worker behind.
VerdictsInOrder ==
    \A c \in Cells : /\ c < cur => verdict[c] # "none"
                     /\ c >= cur => verdict[c] = "none"
                     /\ c < cur => Quiet(c) \/ verdict[c] = "TIMEOUT"

\* No wrapper serves after the end of the run.
StoppedForGood ==
    /\ \A w \in Backends : status[w] # IF mpc = "stopped" THEN "up" ELSE "stopped"
    /\ NothingLeftBehind

EInv == RInv /\ VerdictsInOrder /\ StoppedForGood

-----------------------------------------------------------------------------
(* The steps of the threads                                                 *)

\* A worker asks a wrapper or hangs up, and is not at its ends.
LEMMA WorkerEffect ==
    ASSUME CellInv, NEW c \in Cells, WorkerStep(c)
    PROVE  /\ ~ Quiet(c)
           /\ \A d \in Cells \ {c} : wpc'[d] = wpc[d]
           /\ wpc'[c] # "idle"
           /\ (\E pc \in RpcSteps : Ask(c, pc)) \/ Hangup(c)
  <1> USE StepFacts DEF Quiet
  <1>1. wpc[c] # "idle" /\ \A d \in Cells \ {c} : wpc'[d] = wpc[d]
    BY WorkerHasBegun
  <1>2. wpc[c] # "done"
    BY DEF WorkerStep, ServerEstablished, SessionSaved, ClientEstablished, HrrAssertionFails,
           PeerAccepts, PeerSilent, ClientTransmitted, ServerTransmitted, StepFails,
           StepRaises, ServerClosed, ClientClosed, At, TestSteps, EstablishSteps, RoundTripSteps
  <1>3. \/ \E pc \in RpcSteps : Ask(c, pc)
        \/ Hangup(c) /\ \E pc \in {"wait_tcp", "done"} : wpc' = [wpc EXCEPT ![c] = pc]
    <2>1. CASE ServerEstablished(c)
      <3>1. Ask(c, "est_save") \/ Ask(c, "est_client")
        BY <2>1 DEF ServerEstablished
      <3> QED
        BY <3>1
    <2>2. CASE SessionSaved(c) \/ PeerAccepts(c) \/ ClientTransmitted(c) \/ ServerClosed(c)
      <3>1. \/ Ask(c, "est_resume") \/ Ask(c, "tx_client")
            \/ Ask(c, "tx_server") \/ Ask(c, "close_client")
        BY <2>2 DEF SessionSaved, PeerAccepts, ClientTransmitted, ServerClosed
      <3> QED
        BY <3>1
    <2>3. CASE \/ HrrAssertionFails(c) \/ PeerSilent(c) \/ ServerTransmitted(c)
               \/ StepFails(c) \/ StepRaises(c)
      <3>1. Ask(c, "close_server")
        BY <2>3 DEF HrrAssertionFails, PeerSilent, ServerTransmitted, StepFails, StepRaises,
                    Conclude
      <3> QED
        BY <3>1
    <2>4. CASE ClientEstablished(c) \/ ClientClosed(c)
      BY <2>4 DEF ClientEstablished, ClientClosed
    <2> QED
      BY <2>1, <2>2, <2>3, <2>4 DEF WorkerStep
  <1>4. wpc'[c] # "idle"
    BY <1>3 DEF Ask, CellInv, DTypeOK
  <1> QED
    BY <1>1, <1>2, <1>3, <1>4

LEMMA WorkerLeaves ==
    ASSUME CellInv, NEW c \in Cells, WorkerStep(c)
    PROVE  UNCHANGED <<status, phase, wrapperMem, cli, ticket>>
  <1>1. CASE Hangup(c)
    BY <1>1 DEF Hangup
  <1>2. CASE \E pc \in RpcSteps : Ask(c, pc)
    BY <1>2 DEF Ask, Call
  <1> QED
    BY <1>1, <1>2, WorkerEffect

\* The main thread reports a cell whose worker has ended or is given up.
Reports ==
    /\ cur \in Cells /\ mpc \notin {"stopped"}
    /\ \E v \in Verdicts \ {"none"} :
          /\ Report(v)
          /\ wpc[cur] \in {"idle", "done"} \/ (v = "TIMEOUT" /\ wpc[cur] \in Lingering)
    /\ UNCHANGED <<dvars, status, rpcs, phase, wrapperMem, cli, waiting, reply>>

\* It stays with a cell that its watchdog has given up.
Watches ==
    /\ cur \in Cells
    /\ mpc \notin {"next", "stopped"} /\ mpc' \notin {"next", "joining", "stopped"}
    /\ Hangup(Main) \/ \E k \in {"server", "client"} : Call(Request(Main, cur, "CLOSE", k))
    /\ UNCHANGED <<dvars, cur, verdict>>

LEMMA MainEffect ==
    ASSUME RInv, MainStep
    PROVE  Reports \/ Watches \/ BeginCell \/ StopSession
  <1> USE DEF RInv, MainInOrder, MainTypeOK
  <1>1. CASE SkipCell
    <2>1. cur \in Cells /\ mpc = "next" /\ Report("SKIP") /\ UNCHANGED <<wvars, dvars>>
      BY <1>1, RunAssumption DEF SkipCell
    <2>2. wpc[cur] = "idle" /\ "SKIP" \in Verdicts \ {"none"}
      BY <2>1 DEF Verdicts
    <2> QED
      BY <2>1, <2>2 DEF Reports, wvars
  <1>2. CASE WorkerJoined
    <2>1. /\ cur \in Cells /\ mpc = "joining" /\ Report(Outcome(cur))
          /\ wpc[cur] = "done" /\ RemoveArtifacts /\ UNCHANGED dvars
      BY <1>2 DEF WorkerJoined
    <2>2. Outcome(cur) \in Verdicts \ {"none"}
      BY DEF Outcome, Verdicts
    <2> QED
      BY <2>1, <2>2 DEF Reports, RemoveArtifacts
  <1>3. CASE ReportTimeout
    <2>1. /\ cur \in Cells /\ mpc = "joining_again" /\ Report("TIMEOUT")
          /\ wpc[cur] = "done" \/ wpc[cur] \in Lingering
          /\ RemoveArtifacts /\ UNCHANGED dvars
      BY <1>3 DEF ReportTimeout
    <2>2. "TIMEOUT" \in Verdicts \ {"none"}
      BY DEF Verdicts
    <2> QED
      BY <1>3, <2>1, <2>2 DEF Reports, RemoveArtifacts, ReportTimeout
  <1>4. CASE CellTimesOut \/ EmergencyCloseClient \/ EmergencyClosed
    BY <1>4 DEF Watches, CellTimesOut, EmergencyCloseClient, EmergencyClosed
  <1> QED
    BY <1>1, <1>2, <1>3, <1>4 DEF MainStep

-----------------------------------------------------------------------------
(* What is left after the run                                               *)

\* A step that is not one of the main thread.
Elsewhere ==
    /\ UNCHANGED Rest
    /\ \/ \E c \in Cells : WorkerStep(c)
       \/ /\ UNCHANGED dvars
          /\ \/ \E w \in Backends : Handle(w) \/ Crash(w)
             \/ \E p \in Procs : CliStep(p)
             \/ UNCHANGED <<wvars, dvars>>

LEMMA NextEffect ==
    ASSUME [Next]_vars
    PROVE  MainStep \/ Elsewhere
  BY DEF Next, Elsewhere, Over, vars, Rest

LEMMA VerdictsKept ==
    ASSUME RInv, VerdictsInOrder, [Next]_vars
    PROVE  VerdictsInOrder'
  <1> USE RunAssumption DEF VerdictsInOrder, Quiet
  <1>0. cur \in Nat /\ Cells \subseteq Nat /\ verdict \in [Cells -> Verdicts]
    BY DEF RInv, MainTypeOK
  <1>1. CASE Elsewhere
    <2>1. cur' = cur /\ verdict' = verdict
      BY <1>1 DEF Elsewhere, Rest
    <2>2. \A c \in Cells : Quiet(c) => wpc'[c] = wpc[c]
      BY <1>1, WorkerEffect DEF Elsewhere, dvars, RInv
    <2> QED
      BY <2>1, <2>2
  <1>2. CASE Reports
    <2>1. PICK v \in Verdicts \ {"none"} :
             /\ Report(v)
             /\ wpc[cur] \in {"idle", "done"} \/ v = "TIMEOUT"
      BY <1>2 DEF Reports
    <2>2. /\ verdict' = [verdict EXCEPT ![cur] = v] /\ cur' = cur + 1
          /\ wpc' = wpc /\ cur \in Cells
      BY <1>2, <2>1 DEF Reports, Report, dvars
    <2>3. verdict'[cur] = v /\ \A c \in Cells \ {cur} : verdict'[c] = verdict[c]
      BY <1>0, <2>2
    <2>4. \A c \in Cells : (c < cur' <=> c < cur \/ c = cur) /\ (c >= cur' <=> c >= cur /\ c # cur)
      BY <1>0, <2>2
    <2> QED
      BY <2>1, <2>2, <2>3, <2>4
  <1>3. CASE Watches \/ StopSession
    BY <1>3 DEF Watches, StopSession, dvars
  <1>4. CASE BeginCell
    <2>1. /\ cur' = cur /\ verdict' = verdict
          /\ \A c \in Cells \ {cur} : wpc'[c] = wpc[c]
      BY <1>4 DEF BeginCell, StartWorker, Ask, RInv, CellInv, DTypeOK
    <2> QED
      BY <1>0, <2>1
  <1> QED
    BY <1>1, <1>2, <1>3, <1>4, NextEffect, MainEffect

LEMMA HandleStatus ==
    ASSUME NEW w \in Backends, Handle(w)
    PROVE  status[w] = "up" /\ status' = status
  BY DEF Handle, EstablishSkips, EstablishSetupFails, EstablishStarts, PeerReachable,
         EstablishGivesUp, ServerEstablishes, ClientEstablishes, TransmitRejected,
         TransmitWrites, TransmitReads, Close, DropExpired, Serving, Answer

LEMMA StoppedKept ==
    ASSUME RInv, VerdictsInOrder, StoppedForGood, [Next]_vars
    PROVE  StoppedForGood'
  <1> USE DEF StoppedForGood, NothingLeftBehind
  <1>0. /\ CellInv /\ WTypeOK /\ cur \in Nat /\ Cells = 1 .. NumCells
        /\ NumCells \in Nat /\ \A w \in Backends : pem[w] \subseteq Cells
    BY RunAssumption DEF RInv, MainTypeOK, CellInv, WInv, WTypeOK
  <1>1. CASE Elsewhere /\ mpc # "stopped"
    <2>1. mpc' = mpc
      BY <1>1 DEF Elsewhere, Rest
    <2>2. \A w \in Backends : status'[w] # "stopped"
      <3>1. CASE \E c \in Cells : WorkerStep(c)
        BY <1>0, <1>1, <3>1, WorkerLeaves
      <3>2. CASE \E w \in Backends : Handle(w)
        BY <1>1, <3>2, HandleStatus
      <3>3. CASE \E w \in Backends : Crash(w)
        BY <1>0, <1>1, <3>3 DEF Crash, WrappersGone
      <3>4. CASE \E p \in Procs : CliStep(p)
        BY <1>0, <1>1, <3>4, CliStepFacts DEF CellInv
      <3>5. CASE UNCHANGED wvars
        BY <1>1, <3>5 DEF wvars
      <3> QED
        BY <1>1, <3>1, <3>2, <3>3, <3>4, <3>5 DEF Elsewhere
    <2> QED
      BY <1>1, <2>1, <2>2
  <1>2. CASE Elsewhere /\ mpc = "stopped"
    <2>1. mpc' = mpc /\ verdict' = verdict
      BY <1>2 DEF Elsewhere, Rest
    <2>2. UNCHANGED <<status, pem>> /\ \A p \in Procs : Live(p)' => Live(p)
      <3>1. CASE \E c \in Cells : WorkerStep(c)
        BY <1>0, <3>1, WorkerLeaves DEF wrapperMem, cli, Live
      <3>2. CASE \E w \in Backends : Handle(w) \/ Crash(w)
        BY <1>2, <3>2, HandleStatus DEF Crash
      <3>3. CASE \E p \in Procs : CliStep(p)
        BY <1>0, <3>3, CliStepFacts DEF CellInv, wrapperMem
      <3>4. CASE UNCHANGED wvars
        BY <3>4 DEF wvars, wrapperMem, cli, Live
      <3> QED
        BY <1>2, <3>1, <3>2, <3>3, <3>4 DEF Elsewhere
    <2> QED
      BY <1>2, <2>1, <2>2
  <1>3. CASE Reports \/ Watches \/ BeginCell
    <2>1. mpc # "stopped" /\ mpc' # "stopped"
      BY <1>3 DEF Reports, Report, Watches, BeginCell
    <2>2. status' = status
      BY <1>3 DEF Reports, Watches, BeginCell, StartWorker, Ask, Call, Hangup
    <2> QED
      BY <2>1, <2>2
  <1>4. CASE StopSession
    <2> DEFINE W == {w \in Backends : status[w] = "up"}
    <2>1. /\ mpc = "next" /\ mpc' = "stopped" /\ cur = NumCells + 1
          /\ UNCHANGED <<dvars, verdict>> /\ WrappersGone(W, "stopped")
          /\ life' = [p \in Procs |-> IF HostOf(p) \in W /\ Live(p) THEN "exited" ELSE life[p]]
      BY <1>4 DEF StopSession, StopAll
    <2>2. /\ status' = [w \in Backends |-> IF w \in W THEN "stopped" ELSE status[w]]
          /\ pem' = pem
      BY <2>1 DEF WrappersGone
    <2>3. ASSUME NEW w \in Backends, NEW c \in pem[w], status'[w] = "stopped"
          PROVE  verdict[c] = "TIMEOUT"
      <3>1. status[w] = "up" /\ c \in Cells
        BY <1>0, <2>1, <2>2, <2>3
      <3>2. ClosePending(c, "server")
        BY <1>0, <3>1 DEF CellInv, OwnerWillClose
      <3>3. ~ Quiet(c)
        BY <3>2, StepFacts DEF ClosePending, Quiet, TestSteps, EstablishSteps, RoundTripSteps
      <3> QED
        BY <1>0, <2>1, <3>1, <3>3 DEF VerdictsInOrder
    <2>4. ASSUME NEW p \in Procs, Live(p)'
          PROVE  status'[HostOf(p)] = "crashed"
      <3>1. HostOf(p) \in Backends /\ HostOf(p) \notin W
        BY <2>1, <2>4, ProcFacts DEF Live
      <3> QED
        BY <1>0, <2>1, <2>2, <3>1 DEF WTypeOK
    <2> QED
      BY <1>0, <2>1, <2>2, <2>3, <2>4 DEF WTypeOK
  <1> QED
    BY <1>1, <1>2, <1>3, <1>4, NextEffect, MainEffect

LEMMA EndKept == EInv /\ [Next]_vars => EInv'
  BY NextKeepsRInv, VerdictsKept, StoppedKept DEF EInv

LEMMA EndInit == Init => EInv
  <1> SUFFICES ASSUME Init PROVE EInv
    OBVIOUS
  <1>1. VerdictsInOrder
    BY RunAssumption DEF Init, DInit, VerdictsInOrder, Quiet
  <1>2. StoppedForGood
    BY DEF Init, WInit, StoppedForGood, NothingLeftBehind
  <1> QED
    BY <1>1, <1>2, InitRInv DEF EInv

\* After the run, staged keys are those of cells that timed out, and running
\* CLI processes those of wrappers that crashed, however the workers that the
\* watchdog gave up, the crashes and session.stop() fall together.
THEOREM RunLeavesNothingBehind == Spec => []NothingLeftBehind
  <1>1. EInv => NothingLeftBehind
    BY DEF EInv, StoppedForGood
  <1> QED
    BY <1>1, EndInit, EndKept, PTL DEF Spec

-----------------------------------------------------------------------------
(* A process is held by its wrapper while its worker has to close it        *)

HostFor(c, r) == IF r = "server" THEN CellServer[c] ELSE CellClient[c]

\* OwnerWillClose for the references of a wrapper, also to exited processes.
HeldWillClose ==
    \A w \in Backends, r \in Roles : status[w] = "up" /\ hosted[w][r] # NoProc =>
        ClosePending(hosted[w][r].cell, r)

Emptied(w) == \A r \in Roles : hosted'[w][r] = NoProc

\* A worker that still has to close a role at its wrapper either still has to
\* after a step, or that wrapper is gone or has nothing left.
LEMMA WorkerKeepsPending ==
    ASSUME CellInv, NEW d \in Cells, WorkerStep(d),
           NEW c \in Cells, NEW r \in Roles, ClosePending(c, r), status[HostFor(c, r)] = "up"
    PROVE  ClosePending(c, r)'
  <1> USE DEF ClosePending
  <1>1. CASE c # d
    <2>1. wpc'[c] = wpc[c]
      BY <1>1, WorkerEffect
    <2>2. reply'[c] = reply[c]
      <3>1. CASE Hangup(d)
        BY <1>1, <3>1 DEF Hangup, CellInv, WInv, WTypeOK, Threads
      <3>2. CASE \E pc \in RpcSteps : Ask(d, pc)
        BY <1>1, <3>2, RpcFacts, CallFacts DEF Ask, CellInv, Threads
      <3> QED
        BY <3>1, <3>2, WorkerEffect
    <2> QED
      BY <2>1, <2>2
  <1>2. CASE c = d
    <2> USE <1>2, StepFacts DEF CellInv, DTypeOK
    <2>1. CASE wpc[c] \in TestSteps /\ wpc'[c] \in TestSteps
      BY <2>1
    <2>2. CASE wpc[c] \in TestSteps /\ Ask(c, "close_server")
      <3>1. /\ RpcOf(c, "close_server") \in Requests /\ RpcOf(c, "close_server").from = c
            /\ Target(RpcOf(c, "close_server")) = CellServer[c]
        BY RpcFacts
      <3>2. wpc'[c] = "close_server"
        BY <2>2 DEF Ask
      <3>3. r = "server" => reply'[c] = NoReply
        BY <2>2, <3>1, CallFacts DEF Ask, HostFor
      <3> QED
        BY <3>2, <3>3 DEF Roles
    <2>3. CASE wpc[c] = "close_server" /\ Ask(c, "close_client") /\ reply[c] # NoReply
      <3>1. /\ RpcOf(c, "close_client") \in Requests /\ RpcOf(c, "close_client").from = c
            /\ Target(RpcOf(c, "close_client")) = CellClient[c]
        BY RpcFacts
      <3>2. wpc'[c] = "close_client" /\ r = "client"
        BY <2>3 DEF Ask, TestSteps, EstablishSteps, RoundTripSteps
      <3>3. reply'[c] = NoReply
        BY <2>3, <3>1, <3>2, CallFacts DEF Ask, HostFor
      <3> QED
        BY <3>2, <3>3
    <2>4. CASE ServerEstablished(c)
      <3>1. wpc[c] \in TestSteps /\ (Ask(c, "est_save") \/ Ask(c, "est_client"))
        BY <2>4 DEF ServerEstablished, At
      <3> QED
        BY <2>1, <3>1 DEF Ask
    <2>5. CASE SessionSaved(c) \/ PeerAccepts(c) \/ ClientTransmitted(c)
      <3>1. /\ wpc[c] \in TestSteps
            /\ Ask(c, "est_resume") \/ Ask(c, "tx_client") \/ Ask(c, "tx_server")
        BY <2>5 DEF SessionSaved, PeerAccepts, ClientTransmitted, At
      <3> QED
        BY <2>1, <3>1 DEF Ask
    <2>6. CASE \/ HrrAssertionFails(c) \/ PeerSilent(c) \/ ServerTransmitted(c)
               \/ StepFails(c) \/ StepRaises(c)
      <3>1. wpc[c] \in TestSteps /\ Ask(c, "close_server")
        BY <2>6 DEF HrrAssertionFails, PeerSilent, ServerTransmitted, StepFails, StepRaises,
                    Conclude, At
      <3> QED
        BY <2>2, <3>1
    <2>7. CASE ClientEstablished(c)
      <3>1. wpc[c] \in TestSteps /\ wpc'[c] = "wait_tcp"
        BY <2>7 DEF ClientEstablished, At
      <3> QED
        BY <2>1, <3>1
    <2>8. CASE ServerClosed(c)
      BY <2>3, <2>8 DEF ServerClosed
    <2>9. CASE ClientClosed(c)
      BY <2>9 DEF ClientClosed, TestSteps, EstablishSteps, RoundTripSteps
    <2> QED
      BY <2>4, <2>5, <2>6, <2>7, <2>8, <2>9 DEF WorkerStep
  <1> QED
    BY <1>1, <1>2

LEMMA HandleKeepsPending ==
    ASSUME CellInv, UNCHANGED dvars, NEW w \in Backends, Handle(w),
           NEW c \in Cells, NEW r \in Roles, ClosePending(c, r)
    PROVE  ClosePending(c, r)' \/ (HostFor(c, r) = w /\ Emptied(w))
  <1>1. CASE EstablishStarts(w) \/ PeerReachable(w) \/ TransmitWrites(w) \/ DropExpired(w)
    BY <1>1 DEF EstablishStarts, PeerReachable, TransmitWrites, DropExpired, ClosePending, dvars
  <1>2. CASE \/ EstablishSkips(w) \/ EstablishSetupFails(w) \/ EstablishGivesUp(w)
             \/ ServerEstablishes(w) \/ ClientEstablishes(w)
             \/ TransmitRejected(w) \/ TransmitReads(w)
    <2>1. rpcs[w] # <<>> /\ Head(rpcs[w]).op # "CLOSE" /\ \E res : Answer(w, res)
      BY <1>2 DEF EstablishSkips, EstablishSetupFails, EstablishGivesUp, ServerEstablishes,
                  ClientEstablishes, TransmitRejected, TransmitReads, Serving
    <2> QED
      BY <2>1, TestAnswerKeepsPending
  <1>3. CASE Close(w)
    <2>1. rpcs[w] # <<>> /\ Answer(w, Result("SUCCESS")) /\ Emptied(w)
      BY <1>3 DEF Close, Serving, Emptied, CellInv, WInv, WTypeOK
    <2>2. /\ \A t \in Threads : t # Head(rpcs[w]).from => reply'[t] = reply[t]
          /\ Head(rpcs[w]) = rpcs[w][1] /\ 1 \in DOMAIN rpcs[w]
      BY <2>1, AnswerReplies
    <2>3. CASE Head(rpcs[w]).from # c
      BY <2>2, <2>3 DEF ClosePending, dvars, Threads
    <2>4. CASE Head(rpcs[w]).from = c
      <3>1. /\ wpc[c] = "close_server" => CellServer[c] = w
            /\ wpc[c] = "close_client" => CellClient[c] = w
        BY <2>2, <2>4, SenderFacts, WrapperAssumption
      <3> QED
        BY <2>1, <3>1 DEF ClosePending, dvars, Roles, HostFor
    <2> QED
      BY <2>3, <2>4
  <1> QED
    BY <1>1, <1>2, <1>3 DEF Handle

LEMMA CrashKeepsPending ==
    ASSUME CellInv, UNCHANGED dvars, NEW w \in Backends, Crash(w),
           NEW c \in Cells, NEW r \in Roles, ClosePending(c, r), HostFor(c, r) # w
    PROVE  ClosePending(c, r)'
  <1>1. reply' = [t \in Threads |-> IF t \in Orphaned({w})
                                      THEN Result("UNAVAILABLE") ELSE reply[t]]
    BY DEF Crash, WrappersGone
  <1>2. CASE c \notin Orphaned({w})
    BY <1>1, <1>2 DEF ClosePending, dvars, Threads
  <1>3. CASE c \in Orphaned({w})
    <2>1. /\ wpc[c] = "close_server" => CellServer[c] = w
          /\ wpc[c] = "close_client" => CellClient[c] = w
      <3>1. PICK v \in {w} : \E i \in DOMAIN rpcs[v] :
                rpcs[v][i] = waiting[c] /\ rpcs[v][i].from = c
        BY <1>3, OrphanFacts
      <3> QED
        BY <3>1, SenderFacts, WrapperAssumption
    <2> QED
      BY <2>1 DEF ClosePending, dvars, Roles, HostFor
  <1> QED
    BY <1>2, <1>3

LEMMA MainKeepsPending ==
    ASSUME RInv, Reports \/ Watches \/ BeginCell,
           NEW c \in Cells, NEW r \in Roles, ClosePending(c, r)
    PROVE  ClosePending(c, r)'
  <1>1. CASE Reports
    BY <1>1 DEF Reports, ClosePending, dvars
  <1>2. CASE Watches
    <2>1. wpc' = wpc
      BY <1>2 DEF Watches, dvars
    <2>2. reply'[c] = reply[c]
      <3>1. c \in Threads /\ c # Main
        BY WrapperAssumption DEF Threads
      <3>2. CASE Hangup(Main)
        BY <3>1, <3>2 DEF Hangup, RInv, CellInv, WInv, WTypeOK
      <3>3. CASE \E k \in {"server", "client"} : Call(Request(Main, cur, "CLOSE", k))
        <4>1. PICK k \in {"server", "client"} : Call(Request(Main, cur, "CLOSE", k))
          BY <3>3
        <4>2. /\ Request(Main, cur, "CLOSE", k) \in Requests
              /\ Request(Main, cur, "CLOSE", k).from = Main
          BY <1>2 DEF Watches, Request, Requests, Threads, Kinds
        <4> QED
          BY <3>1, <4>1, <4>2, CallFacts DEF RInv, CellInv
      <3> QED
        BY <1>2, <3>2, <3>3 DEF Watches
    <2> QED
      BY <2>1, <2>2 DEF ClosePending
  <1>3. CASE BeginCell
    <2>1. /\ cur \in Cells /\ wpc[cur] = "idle" /\ Ask(cur, "est_server")
      BY <1>3 DEF BeginCell, StartWorker, RInv, MainInOrder
    <2>2. c # cur
      BY <2>1 DEF ClosePending, TestSteps, EstablishSteps, RoundTripSteps
    <2>3. wpc'[c] = wpc[c]
      BY <2>1, <2>2 DEF Ask, RInv, CellInv, DTypeOK
    <2>4. reply'[c] = reply[c]
      BY <2>1, <2>2, RpcFacts, CallFacts, StepFacts DEF Ask, RInv, CellInv, Threads
    <2> QED
      BY <2>3, <2>4 DEF ClosePending
  <1> QED
    BY <1>1, <1>2, <1>3

-----------------------------------------------------------------------------
\* A handler keeps a reference, clears it, or holds a process it has started
\* for a worker in its handshake.
LEMMA HandleHolds ==
    ASSUME CellInv, UNCHANGED dvars, NEW w \in Backends, Handle(w),
           NEW v \in Backends, NEW r \in Roles
    PROVE  \/ hosted'[v][r] \in {hosted[v][r], NoProc}
           \/ /\ v = w /\ EstablishStarts(w) /\ r = RoleOf(Head(rpcs[w]).kind)
              /\ hosted'[v][r] = Proc(Head(rpcs[w]).cell, Head(rpcs[w]).kind)
  <1>0. hosted \in [Backends -> [Roles -> Procs \cup {NoProc}]]
    BY DEF CellInv, WInv, WTypeOK
  <1>1. CASE EstablishSkips(w) \/ EstablishSetupFails(w)
    BY <1>0, <1>1 DEF EstablishSkips, EstablishSetupFails, Released
  <1>2. CASE EstablishStarts(w)
    <2>1. hosted' = [hosted EXCEPT ![w][RoleOf(Head(rpcs[w]).kind)] =
                       Proc(Head(rpcs[w]).cell, Head(rpcs[w]).kind)]
      BY <1>2 DEF EstablishStarts, Spawns
    <2> QED
      BY <1>0, <1>2, <2>1
  <1>3. CASE Close(w)
    BY <1>0, <1>3 DEF Close
  <1>4. CASE \/ PeerReachable(w) \/ EstablishGivesUp(w) \/ ServerEstablishes(w)
             \/ ClientEstablishes(w) \/ TransmitRejected(w) \/ TransmitWrites(w)
             \/ TransmitReads(w) \/ DropExpired(w)
    BY <1>4 DEF PeerReachable, EstablishGivesUp, ServerEstablishes, ClientEstablishes,
                TransmitRejected, TransmitWrites, TransmitReads, DropExpired, wrapperMem
  <1> QED
    BY <1>1, <1>2, <1>3, <1>4 DEF Handle

LEMMA HeldHost ==
    ASSUME CellInv, NEW w \in Backends, NEW r \in Roles, hosted[w][r] # NoProc
    PROVE  /\ hosted[w][r].cell \in Cells /\ hosted[w][r] \in Procs
           /\ HostFor(hosted[w][r].cell, r) = w
  BY ProcFacts DEF CellInv, WInv, WTypeOK, HostedInPlace, HostFor, HostOf, RoleOf, Roles

LEMMA HeldKept ==
    ASSUME RInv, HeldWillClose, [Next]_vars
    PROVE  HeldWillClose'
  <1> SUFFICES ASSUME NEW w \in Backends, NEW r \in Roles,
                      status'[w] = "up", hosted'[w][r] # NoProc,
                      NEW q, q = hosted'[w][r], NEW c, c = q.cell
               PROVE  ClosePending(c, r)'
    BY DEF HeldWillClose, ClosePending
  <1> CellInv
    BY DEF RInv
  <1>1. ASSUME hosted[w][r] = q, status[w] = "up"
        PROVE  ClosePending(c, r) /\ c \in Cells /\ HostFor(c, r) = w
    BY <1>1, HeldHost DEF HeldWillClose
  <1>2. CASE \E d \in Cells : WorkerStep(d)
    <2>1. UNCHANGED <<status, hosted>>
      BY <1>2, WorkerLeaves DEF wrapperMem
    <2> QED
      BY <1>1, <1>2, <2>1, WorkerKeepsPending
  <1>3. CASE \E v \in Backends : Handle(v) /\ UNCHANGED dvars
    <2>1. PICK v \in Backends : Handle(v) /\ UNCHANGED dvars
      BY <1>3
    <2>2. status' = status
      BY <2>1, HandleStatus
    <2>3. CASE hosted[w][r] = q
      <3>1. ClosePending(c, r)' \/ (w = v /\ Emptied(v))
        BY <1>1, <2>1, <2>2, <2>3, HandleKeepsPending
      <3> QED
        BY <3>1 DEF Emptied
    <2>4. CASE hosted[w][r] # q
      <3>0. /\ w = v /\ EstablishStarts(v)
            /\ q = Proc(Head(rpcs[v]).cell, Head(rpcs[v]).kind)
        BY <2>1, <2>4, HandleHolds
      <3>1. EstablishStarts(v) /\ c = Head(rpcs[v]).cell
        BY <3>0 DEF Proc
      <3>2. wpc[c] \in TestSteps
        BY <3>1, EstablishCaller DEF EstablishStarts, Serving
      <3> QED
        BY <2>1, <3>2 DEF ClosePending, dvars
    <2> QED
      BY <2>3, <2>4
  <1>4. CASE \E v \in Backends : Crash(v) /\ UNCHANGED dvars
    <2>1. PICK v \in Backends : Crash(v) /\ UNCHANGED dvars
      BY <1>4
    <2>2. w # v /\ status[w] = "up" /\ hosted[w][r] = q
      BY <2>1 DEF Crash, WrappersGone, CellInv, WInv, WTypeOK
    <2> QED
      BY <1>1, <2>1, <2>2, CrashKeepsPending
  <1>5. CASE \E p \in Procs : CliStep(p) /\ UNCHANGED dvars
    <2>1. UNCHANGED <<status, hosted, reply, wpc>>
      BY <1>5, CliStepFacts DEF CellInv, wrapperMem, dvars
    <2> QED
      BY <1>1, <2>1 DEF ClosePending
  <1>6. CASE UNCHANGED <<wvars, dvars>>
    BY <1>1, <1>6 DEF ClosePending, wvars, wrapperMem, dvars
  <1>7. CASE Reports \/ Watches \/ BeginCell
    <2>1. UNCHANGED <<status, hosted>>
      BY <1>7 DEF Reports, Watches, BeginCell, StartWorker, Ask, Call, Hangup, wrapperMem
    <2> QED
      BY <1>1, <1>7, <2>1, MainKeepsPending
  <1>8. CASE StopSession
    BY <1>8 DEF StopSession, StopAll, WrappersGone
  <1> QED
    BY <1>2, <1>3, <1>4, <1>5, <1>6, <1>7, <1>8, NextEffect, MainEffect DEF Elsewhere

-----------------------------------------------------------------------------
(* Calls of an earlier cell come first                                      *)

\* Nobody works on a cell the main thread has left or not begun.
OnlyCurrent == \A c \in Cells : ~ Quiet(c) => c = cur /\ mpc \notin {"next", "stopped"}

\* The calls of a wrapper are queued cell by cell, and none of them is of an
\* earlier cell than the processes it holds.
QueueInOrder ==
    \A w \in Backends : \A i \in DOMAIN rpcs[w] :
        /\ rpcs[w][i].cell <= cur
        /\ \A j \in DOMAIN rpcs[w] : i <= j => rpcs[w][i].cell <= rpcs[w][j].cell
        /\ \A r \in Roles : hosted[w][r] # NoProc => hosted[w][r].cell <= rpcs[w][i].cell

OInv == RInv /\ HeldWillClose /\ OnlyCurrent /\ QueueInOrder

LEMMA NumberFacts ==
    ASSUME RInv
    PROVE  /\ Cells \subseteq Nat /\ cur \in Nat
           /\ \A w \in Backends : rpcs[w] \in Seq(Requests)
           /\ \A rq \in Requests : rq.cell \in Nat
  <1>1. Cells \subseteq Nat
    BY RunAssumption
  <1>2. \A rq \in Requests : rq.cell \in Cells
    BY DEF Requests
  <1> QED
    BY <1>1, <1>2, RunAssumption DEF RInv, MainTypeOK, CellInv, WInv, WTypeOK

LEMMA HeldIsCurrent ==
    ASSUME OInv, NEW w \in Backends, NEW r \in Roles, status[w] = "up", hosted[w][r] # NoProc
    PROVE  hosted[w][r].cell = cur
  <1>1. hosted[w][r].cell \in Cells /\ ClosePending(hosted[w][r].cell, r)
    BY HeldHost DEF OInv, RInv, HeldWillClose
  <1>2. ~ Quiet(hosted[w][r].cell)
    BY <1>1 DEF ClosePending, Quiet, TestSteps, EstablishSteps, RoundTripSteps
  <1> QED
    BY <1>1, <1>2 DEF OInv, OnlyCurrent

LEMMA OnlyCurrentKept ==
    ASSUME OInv, Lingering = {}, [Next]_vars
    PROVE  OnlyCurrent'
  <1> USE DEF OInv, OnlyCurrent, Quiet
  <1>1. CASE Elsewhere
    <2>1. cur' = cur /\ mpc' = mpc
      BY <1>1 DEF Elsewhere, Rest
    <2>2. \A c \in Cells : Quiet(c) => wpc'[c] = wpc[c]
      BY <1>1, WorkerEffect DEF Elsewhere, dvars, RInv
    <2> QED
      BY <2>1, <2>2
  <1>2. CASE Reports
    <2>1. wpc' = wpc /\ wpc[cur] \in {"idle", "done"}
      BY <1>2 DEF Reports, dvars
    <2> QED
      BY <2>1
  <1>3. CASE Watches
    BY <1>3 DEF Watches, dvars
  <1>4. CASE StopSession
    <2>1. wpc' = wpc /\ mpc = "next"
      BY <1>4 DEF StopSession, dvars
    <2> QED
      BY <2>1
  <1>5. CASE BeginCell
    <2>1. /\ cur' = cur /\ mpc = "next" /\ mpc' = "joining"
          /\ \A c \in Cells \ {cur} : wpc'[c] = wpc[c]
      BY <1>5 DEF BeginCell, StartWorker, Ask, RInv, CellInv, DTypeOK
    <2> QED
      BY <2>1
  <1> QED
    BY <1>1, <1>2, <1>3, <1>4, <1>5, NextEffect, MainEffect

\* Who calls, calls for the current cell.
LEMMA CallKeepsOrder ==
    ASSUME OInv, NEW rq \in Requests, Call(rq), rq.cell = cur, cur' = cur
    PROVE  QueueInOrder'
  <1>1. /\ hosted' = hosted
        /\ \A w \in Backends : \A i \in DOMAIN rpcs'[w] :
              \/ i \in DOMAIN rpcs[w] /\ rpcs'[w][i] = rpcs[w][i]
              \/ status[w] = "up" /\ i = Len(rpcs[w]) + 1 /\ rpcs'[w][i] = rq
    BY CallFacts DEF OInv, RInv, CellInv, wrapperMem
  <1>2. /\ cur \in Nat
        /\ \A w \in Backends : rpcs[w] \in Seq(Requests)
        /\ \A q \in Requests : q.cell \in Nat
    BY NumberFacts DEF OInv
  <1> SUFFICES ASSUME NEW w \in Backends, NEW i \in DOMAIN rpcs'[w]
               PROVE  /\ rpcs'[w][i].cell <= cur
                      /\ \A j \in DOMAIN rpcs'[w] :
                            i <= j => rpcs'[w][i].cell <= rpcs'[w][j].cell
                      /\ \A r \in Roles : hosted[w][r] # NoProc =>
                            hosted[w][r].cell <= rpcs'[w][i].cell
    BY <1>1 DEF QueueInOrder
  <1>3. CASE i \in DOMAIN rpcs[w] /\ rpcs'[w][i] = rpcs[w][i]
    <2>1. /\ rpcs[w][i].cell <= cur
          /\ \A j \in DOMAIN rpcs[w] : i <= j => rpcs[w][i].cell <= rpcs[w][j].cell
          /\ \A r \in Roles : hosted[w][r] # NoProc => hosted[w][r].cell <= rpcs[w][i].cell
      BY <1>3 DEF OInv, QueueInOrder
    <2>2. ASSUME NEW j \in DOMAIN rpcs'[w], i <= j
          PROVE  rpcs[w][i].cell <= rpcs'[w][j].cell
      BY <1>1, <2>1, <2>2
    <2> QED
      BY <1>3, <2>1, <2>2
  <1>4. CASE status[w] = "up" /\ i = Len(rpcs[w]) + 1 /\ rpcs'[w][i] = rq
    <2>1. ASSUME NEW j \in DOMAIN rpcs'[w], i <= j
          PROVE  rpcs'[w][j] = rq
      <3>1. \A k \in DOMAIN rpcs[w] : k \in Nat /\ k <= Len(rpcs[w])
        BY <1>2
      <3>2. j \notin DOMAIN rpcs[w]
        BY <1>2, <1>4, <2>1, <3>1
      <3> QED
        BY <1>1, <2>1, <3>2
    <2> QED
      BY <1>2, <1>4, <2>1, HeldIsCurrent
  <1> QED
    BY <1>1, <1>3, <1>4

\* A queue that loses its head or everything stays in order.
LEMMA ShorterKeepsOrder ==
    ASSUME OInv, cur' \in {cur, cur + 1},
           \A w \in Backends : \A r \in Roles : hosted'[w][r] \in {hosted[w][r], NoProc},
           \A w \in Backends : \E k \in {0, 1} : \A i \in DOMAIN rpcs'[w] :
               i \in Nat /\ i + k \in DOMAIN rpcs[w] /\ rpcs'[w][i] = rpcs[w][i + k]
    PROVE  QueueInOrder'
  <1>1. /\ cur \in Nat /\ cur' \in Nat /\ cur <= cur'
        /\ \A w \in Backends : \A i \in DOMAIN rpcs[w] : rpcs[w][i].cell \in Nat
    <2>1. \A w \in Backends : \A i \in DOMAIN rpcs[w] : rpcs[w][i] \in Requests
      BY NumberFacts DEF OInv
    <2> QED
      BY <2>1, NumberFacts DEF OInv
  <1> SUFFICES ASSUME NEW w \in Backends, NEW i \in DOMAIN rpcs'[w]
               PROVE  /\ rpcs'[w][i].cell <= cur'
                      /\ \A j \in DOMAIN rpcs'[w] :
                            i <= j => rpcs'[w][i].cell <= rpcs'[w][j].cell
                      /\ \A r \in Roles : hosted'[w][r] # NoProc =>
                            hosted'[w][r].cell <= rpcs'[w][i].cell
    BY DEF QueueInOrder
  <1>2. PICK k \in {0, 1} : \A n \in DOMAIN rpcs'[w] :
            n \in Nat /\ n + k \in DOMAIN rpcs[w] /\ rpcs'[w][n] = rpcs[w][n + k]
    OBVIOUS
  <1>3. /\ rpcs[w][i + k].cell <= cur
        /\ \A j \in DOMAIN rpcs[w] : i + k <= j => rpcs[w][i + k].cell <= rpcs[w][j].cell
        /\ \A r \in Roles : hosted[w][r] # NoProc => hosted[w][r].cell <= rpcs[w][i + k].cell
    BY <1>2 DEF OInv, QueueInOrder
  <1>4. ASSUME NEW j \in DOMAIN rpcs'[w], i <= j
        PROVE  rpcs[w][i + k].cell <= rpcs'[w][j].cell
    BY <1>2, <1>3, <1>4
  <1>5. rpcs'[w][i] = rpcs[w][i + k] /\ rpcs[w][i + k].cell \in Nat
    BY <1>1, <1>2
  <1> QED
    BY <1>1, <1>3, <1>4, <1>5

LEMMA HandleKeepsOrder ==
    ASSUME OInv, UNCHANGED <<dvars, Rest>>, NEW w \in Backends, Handle(w)
    PROVE  QueueInOrder'
  <1> CellInv /\ cur' = cur /\ status[w] = "up"
    BY HandleStatus DEF OInv, RInv, Rest
  <1>0. \A v \in Backends : rpcs[v] \in Seq(Requests)
    BY DEF CellInv, WInv, WTypeOK
  <1>1. CASE EstablishStarts(w)
    <2>1. /\ rpcs' = rpcs /\ rpcs[w] # <<>> /\ Head(rpcs[w]) = rpcs[w][1]
          /\ \A i \in DOMAIN rpcs[w] : i \in Nat /\ 1 <= i
          /\ 1 \in DOMAIN rpcs[w]
      BY <1>0, <1>1, QueueHead DEF EstablishStarts, Serving
    <2>2. \A v \in Backends : \A r \in Roles :
             hosted'[v][r] \in {hosted[v][r], NoProc} \/
             (v = w /\ hosted'[v][r].cell = rpcs[w][1].cell)
      <3>1. \A c, k : Proc(c, k).cell = c
        BY DEF Proc
      <3> QED
        BY <1>1, <2>1, <3>1, HandleHolds
    <2> QED
      BY <2>1, <2>2 DEF OInv, QueueInOrder
  <1>2. CASE ~ EstablishStarts(w)
    <2>1. \A v \in Backends : \A r \in Roles : hosted'[v][r] \in {hosted[v][r], NoProc}
      BY <1>2, HandleHolds
    <2>2. rpcs' = rpcs \/ (rpcs[w] # <<>> /\ rpcs' = [rpcs EXCEPT ![w] = Tail(@)])
      BY <1>2 DEF Handle, EstablishSkips, EstablishSetupFails, PeerReachable,
                  EstablishGivesUp, ServerEstablishes, ClientEstablishes, TransmitRejected,
                  TransmitWrites, TransmitReads, Close, DropExpired, Serving, Answer
    <2>3. ASSUME NEW v \in Backends
          PROVE  \E k \in {0, 1} : \A i \in DOMAIN rpcs'[v] :
                    i \in Nat /\ i + k \in DOMAIN rpcs[v] /\ rpcs'[v][i] = rpcs[v][i + k]
      <3>1. CASE rpcs'[v] = rpcs[v]
        BY <1>0, <3>1
      <3>2. CASE rpcs[v] # <<>> /\ rpcs'[v] = Tail(rpcs[v])
        BY <1>0, <3>2, QueueHead
      <3> QED
        BY <2>2, <3>1, <3>2 DEF CellInv, WInv, WTypeOK
    <2> QED
      BY <2>1, <2>3, ShorterKeepsOrder
  <1> QED
    BY <1>1, <1>2

LEMMA OrderKept ==
    ASSUME OInv, [Next]_vars
    PROVE  QueueInOrder'
  <1> USE DEF OInv, RInv
  <1>0. \A w \in Backends : rpcs[w] \in Seq(Requests)
    BY DEF CellInv, WInv, WTypeOK
  <1>1. ASSUME \A w \in Backends : /\ rpcs'[w] \in {rpcs[w], <<>>}
                                   /\ \A r \in Roles : hosted'[w][r] \in {hosted[w][r], NoProc},
               cur' \in {cur, cur + 1}
        PROVE  QueueInOrder'
    <2>1. \A w \in Backends : \A i \in DOMAIN rpcs'[w] :
             i \in Nat /\ i + 0 \in DOMAIN rpcs[w] /\ rpcs'[w][i] = rpcs[w][i + 0]
      BY <1>0, <1>1
    <2> QED
      BY <1>1, <2>1, ShorterKeepsOrder
  <1>2. CASE \E c \in Cells : WorkerStep(c) /\ UNCHANGED Rest
    <2>1. PICK c \in Cells : WorkerStep(c)
      BY <1>2
    <2>2. c = cur /\ cur' = cur
      BY <1>2, <2>1, WorkerEffect DEF OnlyCurrent, Rest
    <2>3. CASE \E pc \in RpcSteps : Ask(c, pc)
      BY <2>2, <2>3, RpcFacts, CallKeepsOrder DEF Ask
    <2>4. CASE Hangup(c)
      BY <1>1, <2>2, <2>4 DEF Hangup, wrapperMem
    <2> QED
      BY <2>1, <2>3, <2>4, WorkerEffect
  <1>3. CASE \E w \in Backends : Handle(w) /\ UNCHANGED <<dvars, Rest>>
    BY <1>3, HandleKeepsOrder
  <1>4. CASE \E w \in Backends : Crash(w) /\ UNCHANGED <<dvars, Rest>>
    BY <1>1, <1>4 DEF Crash, WrappersGone, Rest
  <1>5. CASE \E p \in Procs : CliStep(p) /\ UNCHANGED <<dvars, Rest>>
    <2>1. UNCHANGED <<rpcs, hosted, cur>>
      BY <1>5, CliStepFacts DEF CellInv, wrapperMem, Rest
    <2> QED
      BY <1>1, <2>1
  <1>6. CASE UNCHANGED vars
    BY <1>1, <1>6 DEF vars, wvars, wrapperMem
  <1>7. CASE Reports
    BY <1>1, <1>7 DEF Reports, Report, wrapperMem
  <1>8. CASE Watches
    <2>1. CASE Hangup(Main)
      BY <1>1, <1>8, <2>1 DEF Hangup, Watches, wrapperMem
    <2>2. CASE \E k \in {"server", "client"} : Call(Request(Main, cur, "CLOSE", k))
      <3>1. PICK k \in {"server", "client"} : Call(Request(Main, cur, "CLOSE", k))
        BY <2>2
      <3>2. /\ Request(Main, cur, "CLOSE", k) \in Requests
            /\ Request(Main, cur, "CLOSE", k).cell = cur /\ cur' = cur
        BY <1>8 DEF Watches, Request, Requests, Threads, Kinds
      <3> QED
        BY <3>1, <3>2, CallKeepsOrder
    <2> QED
      BY <1>8, <2>1, <2>2 DEF Watches
  <1>9. CASE BeginCell
    <2>1. cur \in Cells /\ Ask(cur, "est_server") /\ cur' = cur
      BY <1>9 DEF BeginCell, StartWorker
    <2> QED
      BY <2>1, RpcFacts, StepFacts, CallKeepsOrder DEF Ask
  <1>10. CASE StopSession
    BY <1>1, <1>10 DEF StopSession, StopAll, WrappersGone
  <1> QED
    BY <1>2, <1>3, <1>4, <1>5, <1>6, <1>7, <1>8, <1>9, <1>10, MainEffect DEF Next, Over

\* If no worker outlives the grace period, a CLOSE never meets a process of
\* another cell: not an emergency CLOSE that is served late, nor the last
\* CLOSE of a worker that was given up.
THEOREM RunCloseHitsOwnCell ==
    ASSUME Lingering = {}
    PROVE  Spec => []CloseHitsOwnCell
  <1>1. Init => OInv
    <2> SUFFICES ASSUME Init PROVE OInv
      OBVIOUS
    <2> QED
      BY InitRInv DEF Init, WInit, DInit, OInv, HeldWillClose, OnlyCurrent, Quiet, QueueInOrder
  <1>2. OInv /\ [Next]_vars => OInv'
    BY NextKeepsRInv, HeldKept, OnlyCurrentKept, OrderKept DEF OInv
  <1>3. OInv => CloseHitsOwnCell
    <2> SUFFICES ASSUME OInv, NEW w \in Backends, Serving(w, "CLOSE", "idle"),
                        NEW r \in Roles, hosted[w][r] # NoProc
                 PROVE  hosted[w][r].cell = Head(rpcs[w]).cell
      BY DEF CloseHitsOwnCell
    <2>1. status[w] = "up" /\ rpcs[w] # <<>> /\ rpcs[w] \in Seq(Requests)
      BY DEF Serving, OInv, RInv, CellInv, WInv, WTypeOK
    <2>2. Head(rpcs[w]) = rpcs[w][1] /\ 1 \in DOMAIN rpcs[w]
      BY <2>1, QueueHead
    <2>3. rpcs[w][1].cell <= cur /\ hosted[w][r].cell <= rpcs[w][1].cell
      BY <2>2 DEF OInv, QueueInOrder
    <2>4. hosted[w][r].cell = cur
      BY <2>1, HeldIsCurrent
    <2>5. cur \in Nat /\ rpcs[w][1].cell \in Nat
      BY <2>1, <2>2, QueueHead, NumberFacts DEF OInv
    <2> QED
      BY <2>2, <2>3, <2>4, <2>5
  <1> QED
    BY <1>1, <1>2, <1>3, PTL DEF Spec

-----------------------------------------------------------------------------
(* Sessions without crashes: only the current cell has processes            *)

NoneCrashed == \A w \in Backends : status[w] # "crashed"

BInv == OInv /\ VerdictsInOrder /\ StoppedForGood /\ NoneCrashed

LEMMA BasicsInit == Init => BInv
  <1> SUFFICES ASSUME Init PROVE BInv
    OBVIOUS
  <1>1. OInv
    BY InitRInv DEF Init, WInit, DInit, OInv, HeldWillClose, OnlyCurrent, Quiet, QueueInOrder
  <1> QED
    BY <1>1, EndInit DEF Init, WInit, BInv, EInv, NoneCrashed

LEMMA BasicsKept ==
    ASSUME BInv, Lingering = {}, CrashProne = {}, [Next]_vars
    PROVE  BInv'
  <1>1. OInv'
    BY NextKeepsRInv, HeldKept, OnlyCurrentKept, OrderKept DEF BInv, OInv
  <1>2. VerdictsInOrder' /\ StoppedForGood'
    BY VerdictsKept, StoppedKept DEF BInv, OInv
  <1>3. NoneCrashed'
    <2>1. status' = status \/ StopAll
      BY WorkerLeaves, HandleStatus, CliStepFacts, MainEffect DEF BInv, OInv, RInv, CellInv,
         Next, Over, vars, wvars, Crash, Reports, Watches, Hangup, Call, BeginCell,
         StartWorker, Ask, StopSession
    <2> QED
      BY <2>1 DEF BInv, NoneCrashed, StopAll, WrappersGone
  <1> QED
    BY <1>1, <1>2, <1>3 DEF BInv

LEMMA LiveIsCurrent ==
    ASSUME BInv, NEW p \in Procs, Live(p)
    PROVE  p.cell = cur /\ p.cell \in Cells /\ ~ Quiet(cur)
  <1>1. mpc # "stopped" /\ status[HostOf(p)] = "up" /\ p.cell \in Cells
    BY ProcFacts DEF BInv, OInv, RInv, CellInv, WInv, WTypeOK, NoneCrashed, StoppedForGood,
                     NothingLeftBehind
  <1>2. ClosePending(p.cell, RoleOf(p.kind))
    BY <1>1, ProcFacts DEF BInv, OInv, RInv, CellInv, OwnerWillClose
  <1>3. ~ Quiet(p.cell)
    BY <1>2 DEF ClosePending, Quiet, TestSteps, EstablishSteps, RoundTripSteps
  <1> QED
    BY <1>1, <1>3 DEF BInv, OInv, OnlyCurrent

-----------------------------------------------------------------------------
(* The ticket of a resumption cell                                          *)

\* The watchdog has at most one call queued, and waits for it.
MainAwaits ==
    \A w \in Backends : \A i \in DOMAIN rpcs[w] : rpcs[w][i].from = Main =>
        /\ waiting[Main] = rpcs[w][i] /\ reply[Main] = NoReply
        /\ mpc \in {"emergency_server", "emergency_client"}
        /\ \A v \in Backends : \A j \in DOMAIN rpcs[v] :
              rpcs[v][j].from = Main => v = w /\ j = i

\* A ticket is of a cell that has begun; that of the current one is in place
\* until its CLOSEs or its watchdog.
TicketInPlace ==
    \A c \in saved : /\ wpc[c] # "idle"
                     /\ mpc = "joining" /\ cur = c /\ wpc[c] \in TestSteps => ticket = c

SInv == BInv /\ MainAwaits /\ TicketInPlace

NoMainCall == \A w \in Backends : \A i \in DOMAIN rpcs[w] : rpcs[w][i].from # Main

LEMMA MainCallAwaited ==
    ASSUME SInv, NoMainCall, NEW c \in Cells, NEW k \in {"server", "client"},
           Call(Request(Main, c, "CLOSE", k)),
           mpc' \in {"emergency_server", "emergency_client"}
    PROVE  MainAwaits'
  <1> DEFINE rq == Request(Main, c, "CLOSE", k)
  <1>1. rq \in Requests /\ rq.from = Main /\ Main \in Threads
    BY DEF Request, Requests, Threads, Kinds
  <1> HIDE DEF rq
  <1>2. /\ waiting' = [waiting EXCEPT ![Main] = rq]
        /\ reply'[Main] = IF status[Target(rq)] = "up" THEN NoReply ELSE Result("UNAVAILABLE")
        /\ \A v \in Backends : \A i \in DOMAIN rpcs'[v] :
              \/ i \in DOMAIN rpcs[v] /\ rpcs'[v][i] = rpcs[v][i]
              \/ /\ v = Target(rq) /\ status[v] = "up"
                 /\ i = Len(rpcs[v]) + 1 /\ rpcs'[v][i] = rq
    <2>1. WInv /\ Call(rq)
      BY DEF SInv, BInv, OInv, RInv, CellInv, rq
    <2> QED
      BY <1>1, <2>1, CallFacts
  <1>3. waiting'[Main] = rq
    BY <1>1, <1>2 DEF SInv, BInv, OInv, RInv, CellInv, WInv, WTypeOK
  <1>4. ASSUME NEW v \in Backends, NEW i \in DOMAIN rpcs'[v], rpcs'[v][i].from = Main
        PROVE  /\ v = Target(rq) /\ status[v] = "up"
               /\ i = Len(rpcs[v]) + 1 /\ rpcs'[v][i] = rq
    BY <1>2, <1>4 DEF NoMainCall
  <1> QED
    BY <1>2, <1>3, <1>4 DEF MainAwaits

\* Calls of workers and their ends do not touch those of the main thread.
LEMMA WorkerKeepsAwaiting ==
    ASSUME SInv, NEW c \in Cells, mpc' = mpc \/ NoMainCall,
           Hangup(c) \/ \E pc \in RpcSteps : Ask(c, pc)
    PROVE  MainAwaits'
  <1>0. c # Main /\ c \in Threads /\ Main \in Threads /\ WInv /\ WTypeOK
    BY WrapperAssumption DEF Threads, SInv, BInv, OInv, RInv, CellInv, WInv
  <1>1. CASE Hangup(c)
    <2>1. /\ rpcs' = rpcs /\ waiting'[Main] = waiting[Main] /\ reply'[Main] = reply[Main]
      BY <1>0, <1>1 DEF Hangup, WTypeOK
    <2> QED
      BY <2>1 DEF SInv, MainAwaits, NoMainCall
  <1>2. CASE \E pc \in RpcSteps : Ask(c, pc)
    <2>1. PICK rq \in Requests : rq.from = c /\ Call(rq)
      BY <1>2, RpcFacts DEF Ask
    <2>2. /\ waiting'[Main] = waiting[Main] /\ reply'[Main] = reply[Main]
          /\ \A v \in Backends : \A i \in DOMAIN rpcs'[v] : rpcs'[v][i].from = Main =>
                i \in DOMAIN rpcs[v] /\ rpcs'[v][i] = rpcs[v][i]
      BY <1>0, <2>1, CallFacts DEF WTypeOK
    <2> QED
      BY <2>2 DEF SInv, MainAwaits, NoMainCall
  <1> QED
    BY <1>1, <1>2

\* A call that leaves its queue leaves the others, and an answer is known.
LEMMA HandleKeepsAwaiting ==
    ASSUME SInv, mpc' = mpc, NEW w \in Backends, Handle(w)
    PROVE  MainAwaits'
  <1>0. CellInv /\ Main \in Threads
    BY DEF SInv, BInv, OInv, RInv, Threads
  <1>1. CASE EstablishStarts(w) \/ PeerReachable(w) \/ TransmitWrites(w)
    <2>1. UNCHANGED <<rpcs, waiting, reply>>
      BY <1>1 DEF EstablishStarts, PeerReachable, TransmitWrites
    <2> QED
      BY <2>1 DEF SInv, MainAwaits
  <1>2. CASE ~ (EstablishStarts(w) \/ PeerReachable(w) \/ TransmitWrites(w))
    <2>1. /\ rpcs[w] # <<>> /\ rpcs' = [rpcs EXCEPT ![w] = Tail(rpcs[w])]
          /\ waiting' = waiting
          /\ Head(rpcs[w]).from # Main => reply'[Main] = reply[Main]
      <3>1. CASE DropExpired(w)
        BY <3>1 DEF DropExpired
      <3>2. CASE ~ DropExpired(w)
        <4>1. rpcs[w] # <<>> /\ \E res : Answer(w, res)
          BY <1>2, <3>2 DEF Handle, EstablishSkips, EstablishSetupFails, EstablishGivesUp,
                ServerEstablishes, ClientEstablishes, TransmitRejected, TransmitReads, Close,
                Serving
        <4> QED
          BY <1>0, <4>1, AnswerReplies
      <3> QED
        BY <3>1, <3>2
    <2>2. /\ Head(rpcs[w]) = rpcs[w][1] /\ 1 \in DOMAIN rpcs[w]
          /\ \A i \in DOMAIN Tail(rpcs[w]) :
                /\ i \in Nat \ {0} /\ i + 1 \in DOMAIN rpcs[w]
                /\ Tail(rpcs[w])[i] = rpcs[w][i + 1]
      BY <2>1, <1>0, QueueHead DEF CellInv, WInv, WTypeOK
    <2>3. \A v \in Backends : rpcs'[v] = IF v = w THEN Tail(rpcs[w]) ELSE rpcs[v]
      BY <1>0, <2>1 DEF CellInv, WInv, WTypeOK
    <2>4. \A v \in Backends : \A i \in DOMAIN rpcs'[v] : \E k \in DOMAIN rpcs[v] :
             /\ rpcs'[v][i] = rpcs[v][k]
             /\ v = w => k = i + 1 /\ k # 1
             /\ v # w => k = i
      <3> SUFFICES ASSUME NEW v \in Backends, NEW i \in DOMAIN rpcs'[v]
                   PROVE  \E k \in DOMAIN rpcs[v] :
                             /\ rpcs'[v][i] = rpcs[v][k]
                             /\ v = w => k = i + 1 /\ k # 1
                             /\ v # w => k = i
        OBVIOUS
      <3>1. CASE v = w
        <4>1. i \in DOMAIN Tail(rpcs[w]) /\ rpcs'[v][i] = Tail(rpcs[w])[i]
          BY <2>3, <3>1
        <4>2. /\ i + 1 \in DOMAIN rpcs[v] /\ rpcs'[v][i] = rpcs[v][i + 1]
              /\ i + 1 # 1
          BY <2>2, <3>1, <4>1
        <4> QED
          BY <3>1, <4>2
      <3>2. CASE v # w
        BY <2>3, <3>2
      <3> QED
        BY <3>1, <3>2
    <2> SUFFICES ASSUME NEW v \in Backends, NEW i \in DOMAIN rpcs'[v],
                        rpcs'[v][i].from = Main
                 PROVE  /\ waiting'[Main] = rpcs'[v][i] /\ reply'[Main] = NoReply
                        /\ mpc' \in {"emergency_server", "emergency_client"}
                        /\ \A u \in Backends : \A j \in DOMAIN rpcs'[u] :
                              rpcs'[u][j].from = Main => u = v /\ j = i
      BY DEF MainAwaits
    <2>5. PICK k \in DOMAIN rpcs[v] : /\ rpcs'[v][i] = rpcs[v][k]
                                      /\ v = w => k = i + 1 /\ k # 1
                                      /\ v # w => k = i
      BY <2>4
    <2>6. /\ waiting[Main] = rpcs[v][k] /\ reply[Main] = NoReply
          /\ mpc \in {"emergency_server", "emergency_client"}
          /\ \A u \in Backends : \A j \in DOMAIN rpcs[u] :
                rpcs[u][j].from = Main => u = v /\ j = k
      BY <2>5 DEF SInv, MainAwaits
    <2>7. Head(rpcs[w]).from # Main
      BY <2>2, <2>5, <2>6
    <2>8. ASSUME NEW u \in Backends, NEW j \in DOMAIN rpcs'[u], rpcs'[u][j].from = Main
          PROVE  u = v /\ j = i
      <3>1. PICK m \in DOMAIN rpcs[u] : /\ rpcs'[u][j] = rpcs[u][m]
                                        /\ u = w => m = j + 1
                                        /\ u # w => m = j
        BY <2>4
      <3>2. u = v /\ m = k
        BY <2>6, <2>8, <3>1
      <3>3. v = w => i \in Nat /\ j \in Nat
        BY <2>2, <2>3, <3>2
      <3> QED
        BY <2>5, <3>1, <3>2, <3>3
    <2> QED
      BY <2>1, <2>5, <2>6, <2>7, <2>8
  <1> QED
    BY <1>1, <1>2

LEMMA AwaitingKept ==
    ASSUME SInv, LateCloses = {}, CrashProne = {}, [Next]_vars
    PROVE  MainAwaits'
  <1>0. RInv /\ CellInv /\ reply \in [Threads -> Replies]
    BY DEF SInv, BInv, OInv, RInv, CellInv, WInv, WTypeOK
  <1>1. ASSUME UNCHANGED <<rpcs, waiting, reply>>, mpc' = mpc \/ NoMainCall
        PROVE  MainAwaits'
    BY <1>1 DEF SInv, MainAwaits, NoMainCall
  <1>2. mpc \in {"next", "joining", "joining_again", "stopped"} \/ reply[Main] # NoReply
          => NoMainCall
    BY DEF SInv, MainAwaits, NoMainCall
  <1>3. CASE \E c \in Cells : WorkerStep(c) /\ UNCHANGED Rest
    BY <1>0, <1>3, WorkerEffect, WorkerKeepsAwaiting DEF Rest
  <1>4. CASE \E w \in Backends : (Handle(w) \/ Crash(w)) /\ UNCHANGED <<dvars, Rest>>
    BY <1>4, HandleKeepsAwaiting DEF Rest, Crash
  <1>5. CASE \E p \in Procs : CliStep(p) /\ UNCHANGED <<dvars, Rest>>
    BY <1>0, <1>1, <1>5, CliStepFacts DEF CellInv, Rest
  <1>6. CASE UNCHANGED vars
    BY <1>1, <1>6 DEF vars, wvars
  <1>7. CASE SkipCell
    BY <1>1, <1>2, <1>7 DEF SkipCell, Report, wvars
  <1>8. CASE WorkerJoined \/ ReportTimeout
    BY <1>1, <1>2, <1>8 DEF WorkerJoined, ReportTimeout, Report, RemoveArtifacts
  <1>9. CASE BeginCell
    <2>1. cur \in Cells /\ NoMainCall /\ Ask(cur, "est_server")
      BY <1>2, <1>9 DEF BeginCell, StartWorker
    <2> QED
      BY <2>1, StepFacts, WorkerKeepsAwaiting
  <1>10. CASE CellTimesOut \/ EmergencyCloseClient
    <2>1. /\ NoMainCall /\ mpc' \in {"emergency_server", "emergency_client"}
          /\ cur \in Cells
          /\ \E k \in {"server", "client"} : Call(Request(Main, cur, "CLOSE", k))
      BY <1>0, <1>2, <1>10 DEF CellTimesOut, EmergencyCloseClient, EmergencyCallOver,
                              RInv, MainInOrder
    <2> QED
      BY <2>1, MainCallAwaited
  <1>11. CASE EmergencyClosed
    <2>1. NoMainCall /\ rpcs' = rpcs
      BY <1>2, <1>11 DEF EmergencyClosed, EmergencyCallOver, Hangup
    <2> QED
      BY <2>1 DEF MainAwaits, NoMainCall
  <1>12. CASE StopSession
    <2>1. NoMainCall /\ \A w \in Backends : rpcs'[w] \in {rpcs[w], <<>>}
      BY <1>2, <1>12 DEF StopSession, StopAll, WrappersGone
    <2> QED
      BY <2>1 DEF MainAwaits, NoMainCall
  <1> QED
    BY <1>3, <1>4, <1>5, <1>6, <1>7, <1>8, <1>9, <1>10, <1>11, <1>12 DEF Next, MainStep, Over

LEMMA NoCloseQueued ==
    ASSUME SInv, mpc = "joining", wpc[cur] \in TestSteps, NEW w \in Backends, rpcs[w] # <<>>
    PROVE  Head(rpcs[w]).op # "CLOSE"
  <1>1. Head(rpcs[w]) = rpcs[w][1] /\ 1 \in DOMAIN rpcs[w] /\ rpcs[w][1] \in Requests
    BY QueueHead DEF SInv, BInv, OInv, RInv, CellInv, WInv, WTypeOK
  <1>2. rpcs[w][1].from # Main
    BY <1>1 DEF SInv, MainAwaits
  <1>3. /\ rpcs[w][1].from \in Cells
        /\ rpcs[w][1].op = "CLOSE" <=> wpc[rpcs[w][1].from] \in CloseSteps
        /\ wpc[rpcs[w][1].from] \in RpcSteps
    BY <1>1, <1>2, SenderFacts, RpcFacts DEF SInv, BInv, OInv, RInv, InStep
  <1>4. ~ Quiet(rpcs[w][1].from)
    BY <1>3 DEF Quiet, RpcSteps, EstablishSteps, CloseSteps
  <1>5. rpcs[w][1].from = cur
    BY <1>3, <1>4 DEF SInv, BInv, OInv, OnlyCurrent
  <1> QED
    BY <1>1, <1>3, <1>5 DEF TestSteps, EstablishSteps, RoundTripSteps, CloseSteps

LEMMA TicketKept ==
    ASSUME SInv, [Next]_vars
    PROVE  TicketInPlace'
  <1>0. /\ RInv /\ CellInv /\ TicketInPlace /\ OnlyCurrent /\ saved \subseteq Cells
    BY DEF SInv, BInv, OInv, RInv, CellInv, WInv, WTypeOK
  <1>1. ASSUME UNCHANGED <<saved, ticket, mpc, cur>>,
               \A c \in Cells : wpc[c] # "idle" => wpc'[c] # "idle",
               \A c \in Cells : wpc[c] \notin TestSteps \cup {"idle"} => wpc'[c] \notin TestSteps
        PROVE  TicketInPlace'
    BY <1>0, <1>1 DEF TicketInPlace
  <1>2. CASE \E c \in Cells : WorkerStep(c) /\ UNCHANGED Rest
    <2>1. PICK c \in Cells : WorkerStep(c) /\ UNCHANGED Rest
      BY <1>2
    <2>2. UNCHANGED <<saved, ticket>> /\ \A d \in Cells \ {c} : wpc'[d] = wpc[d]
      BY <1>0, <2>1, WorkerEffect, WorkerLeaves DEF cli
    <2>3. wpc'[c] # "idle" /\ (wpc[c] \in CloseSteps => wpc'[c] \notin TestSteps)
      <3>1. CASE wpc[c] \in CloseSteps
        <4>1. wpc'[c] \in {"close_client", "done"}
          BY <1>0, <2>1, <3>1 DEF WorkerStep, ServerEstablished, SessionSaved,
             ClientEstablished, HrrAssertionFails, PeerAccepts, PeerSilent, ClientTransmitted,
             ServerTransmitted, StepFails, StepRaises, ServerClosed, ClientClosed, At, Ask,
             TestSteps, EstablishSteps, RoundTripSteps, CloseSteps, CellInv, DTypeOK
        <4> QED
          BY <4>1 DEF TestSteps, EstablishSteps, RoundTripSteps
      <3> QED
        BY <1>0, <2>1, <3>1, WorkerEffect
    <2>4. wpc[c] \notin {"idle", "done"} /\ wpc[c] \in WorkerSteps
      BY <1>0, <2>1, WorkerEffect DEF Quiet, CellInv, DTypeOK
    <2> QED
      BY <1>1, <2>1, <2>2, <2>3, <2>4 DEF Rest, WorkerSteps
  <1>3. CASE \E w \in Backends : Handle(w) /\ UNCHANGED <<dvars, Rest>>
    <2>1. PICK w \in Backends : Handle(w) /\ UNCHANGED <<dvars, Rest>>
      BY <1>3
    <2>2. CASE Close(w)
      <3>1. rpcs[w] # <<>> /\ Head(rpcs[w]).op = "CLOSE" /\ saved' = saved
        BY <2>2 DEF Close, Serving
      <3>2. ~ (mpc = "joining" /\ wpc[cur] \in TestSteps)
        BY <3>1, NoCloseQueued
      <3> QED
        BY <1>0, <2>1, <3>1, <3>2 DEF TicketInPlace, dvars, Rest
    <2>3. CASE ~ Close(w)
      <3>1. UNCHANGED <<saved, ticket>>
        BY <2>1, <2>3 DEF Handle, EstablishSkips, EstablishSetupFails, EstablishStarts,
              PeerReachable, EstablishGivesUp, ServerEstablishes, ClientEstablishes,
              TransmitRejected, TransmitWrites, TransmitReads, DropExpired, cli
      <3> QED
        BY <1>1, <2>1, <3>1 DEF dvars, Rest
    <2> QED
      BY <2>2, <2>3
  <1>4. CASE \E w \in Backends : Crash(w) /\ UNCHANGED <<dvars, Rest>>
    BY <1>1, <1>4 DEF Crash, WrappersGone, dvars, Rest
  <1>5. CASE \E p \in Procs : CliStep(p) /\ UNCHANGED <<dvars, Rest>>
    <2>1. PICK p \in Procs : CliStep(p) /\ UNCHANGED <<dvars, Rest>>
      BY <1>5
    <2>2. CASE SavesTicket(p)
      <3>1. Live(p) /\ saved' = saved \cup {p.cell} /\ ticket' = p.cell
        BY <2>2 DEF SavesTicket, Live
      <3>2. p.cell = cur /\ ~ Quiet(cur)
        BY <3>1, LiveIsCurrent DEF SInv
      <3> QED
        BY <1>0, <2>1, <3>1, <3>2 DEF TicketInPlace, Quiet, dvars, Rest
    <2>3. CASE ~ SavesTicket(p)
      <3>1. UNCHANGED <<saved, ticket>>
        BY <2>1, <2>3 DEF CliStep, Listens, Handshakes, Delivers, Exits
      <3> QED
        BY <1>1, <2>1, <3>1 DEF dvars, Rest
    <2> QED
      BY <2>2, <2>3
  <1>6. CASE UNCHANGED vars
    BY <1>1, <1>6 DEF vars, wvars, cli, dvars
  <1>7. CASE Reports \/ Watches \/ StopSession
    <2>1. saved' = saved /\ wpc' = wpc /\ mpc' # "joining"
      BY <1>7 DEF Reports, Report, Watches, Hangup, Call, StopSession, StopAll, WrappersGone,
                  dvars, cli
    <2> QED
      BY <1>0, <2>1 DEF TicketInPlace
  <1>8. CASE BeginCell
    <2>1. /\ wpc[cur] = "idle" /\ cur' = cur /\ UNCHANGED <<saved, ticket>>
          /\ \A c \in Cells \ {cur} : wpc'[c] = wpc[c]
      BY <1>0, <1>8 DEF BeginCell, StartWorker, Ask, Call, cli, RInv, MainInOrder, CellInv, DTypeOK
    <2> QED
      BY <1>0, <2>1 DEF TicketInPlace
  <1> QED
    BY <1>0, <1>2, <1>3, <1>4, <1>5, <1>6, <1>7, <1>8, MainEffect DEF Next, Over

\* If neither workers nor emergency CLOSEs outlast the watchdog, and no wrapper
\* crashes, the ticket of a resumption cell stays where its second handshake
\* looks for it.
THEOREM RunTicketSurvives ==
    ASSUME Lingering = {}, LateCloses = {}, CrashProne = {}
    PROVE  Spec => []TicketSurvives
  <1>1. Init => SInv
    BY BasicsInit DEF Init, WInit, SInv, MainAwaits, TicketInPlace
  <1>2. SInv /\ [Next]_vars => SInv'
    BY BasicsKept, AwaitingKept, TicketKept DEF SInv
  <1>3. SInv => TicketSurvives
    BY DEF SInv, TicketInPlace, TicketSurvives, TestSteps, EstablishSteps
  <1> QED
    BY <1>1, <1>2, <1>3, PTL DEF Spec

-----------------------------------------------------------------------------
(* Clients in step with their workers                                       *)

\* A wrapper holds the client its cell's worker has asked for last: while it
\* starts it, when it has answered, and all through the round trip.
StepsFit ==
    \A c \in Cells : /\ wpc[c] = "est_client" => c \notin Resuming
                     /\ wpc[c] \in {"est_save", "est_resume"} => c \in Resuming

HandlerHolds ==
    \A w \in Backends : phase[w] \in {"polling", "collecting"} =>
        /\ rpcs[w] # <<>> /\ Head(rpcs[w]).op = "ESTABLISH"
        /\ hosted[w][RoleOf(Head(rpcs[w]).kind)] =
              Proc(Head(rpcs[w]).cell, Head(rpcs[w]).kind)

AnswerHolds ==
    \A c \in Cells : wpc[c] \in {"est_client", "est_resume"} /\ reply[c].status = "SUCCESS" =>
        hosted[CellClient[c]]["client"] \in {NoProc, FinalClient(c)}

RoundTripHolds ==
    \A c \in Cells, w \in Backends :
        wpc[c] \in RoundTripSteps /\ hosted[w]["client"] # NoProc /\ hosted[w]["client"].cell = c
            => hosted[w]["client"] = FinalClient(c)

ClientsInStep == StepsFit /\ HandlerHolds /\ AnswerHolds /\ RoundTripHolds

\* A call that is no CLOSE is the one the current worker is blocked on.
LEMMA HeadInStep ==
    ASSUME BInv, NEW w \in Backends, rpcs[w] # <<>>, Head(rpcs[w]).op # "CLOSE"
    PROVE  /\ cur \in Cells /\ reply[cur] = NoReply /\ waiting[cur] = Head(rpcs[w])
           /\ Head(rpcs[w]) = RpcOf(cur, wpc[cur])
           /\ Head(rpcs[w]).cell = cur /\ Head(rpcs[w]).from = cur
           /\ Head(rpcs[w]).kind = StepKind(wpc[cur])
           /\ Head(rpcs[w]).op = "ESTABLISH" <=> wpc[cur] \in EstablishSteps
           /\ Head(rpcs[w]).op = "TRANSMIT" <=> wpc[cur] \in {"tx_client", "tx_server"}
           /\ Head(rpcs[w]).kind # "server" => CellClient[cur] = w
  <1>1. Head(rpcs[w]) = rpcs[w][1] /\ 1 \in DOMAIN rpcs[w] /\ rpcs[w][1] \in Requests
    BY QueueHead DEF BInv, OInv, RInv, CellInv, WInv, WTypeOK
  <1>2. rpcs[w][1].from # Main /\ Target(rpcs[w][1]) = w
    BY <1>1 DEF BInv, OInv, RInv, CellInv, QueuesInStep, EntryInStep, WInv, QueuedOnTarget
  <1> DEFINE c == rpcs[w][1].from
  <1>3. c \in Cells /\ InStep(c, rpcs[w][1])
    BY <1>1, <1>2, SenderFacts DEF BInv, OInv, RInv
  <1> HIDE DEF c
  <1>4. ~ Quiet(c)
    BY <1>3 DEF InStep, RpcSteps, EstablishSteps, CloseSteps, Quiet
  <1>5. c = cur
    BY <1>3, <1>4 DEF BInv, OInv, OnlyCurrent
  <1>6. /\ rpcs[w][1] = RpcOf(cur, wpc[cur]) /\ wpc[cur] \in RpcSteps /\ reply[cur] = NoReply
        /\ waiting[cur] = rpcs[w][1] /\ cur \in Cells
    BY <1>3, <1>5 DEF InStep
  <1>7. /\ rpcs[w][1].cell = cur /\ rpcs[w][1].from = cur
        /\ rpcs[w][1].op = StepOp(wpc[cur]) /\ rpcs[w][1].kind = StepKind(wpc[cur])
    BY <1>6 DEF RpcOf, Request
  <1>8. StepOp(wpc[cur]) = "ESTABLISH" <=> wpc[cur] \in EstablishSteps
    BY DEF StepOp, EstablishSteps, CloseSteps
  <1>9. StepOp(wpc[cur]) = "TRANSMIT" <=> wpc[cur] \in {"tx_client", "tx_server"}
    BY <1>1, <1>6, <1>7 DEF StepOp, RpcSteps, EstablishSteps, CloseSteps
  <1>10. rpcs[w][1].kind # "server" => CellClient[cur] = w
    BY <1>2, <1>7 DEF Target, HostOf, Proc
  <1> QED
    BY <1>1, <1>6, <1>7, <1>8, <1>9, <1>10

\* What a worker's step can make of its place, its answer and its result.
LEMMA WorkerMoves ==
    ASSUME BInv, NEW c \in Cells, WorkerStep(c)
    PROVE  /\ c = cur
           /\ wpc'[c] = "est_client" => c \notin Resuming
           /\ wpc'[c] = "est_save" => c \in Resuming
           /\ wpc'[c] = "est_resume" => wpc[c] = "est_save"
           /\ wpc[c] \notin EstablishSteps \cup {"wait_tcp"} =>
                 wpc'[c] \notin EstablishSteps \cup {"idle", "wait_tcp"}
           /\ wpc'[c] \in RoundTripSteps => wpc[c] \in RoundTripSteps \/ ClientEstablished(c)
           /\ reply'[c] \in {NoReply, Result("UNAVAILABLE")}
           /\ \A t \in Threads \ {c} : reply'[t] = reply[t]
           /\ \A d \in Cells : result'[d] = "ok" =>
                 result[d] = "ok" \/ (d = c /\ reply[c].echo # {})
  <1>0. CellInv
    BY DEF BInv, OInv, RInv
  <1>1. c = cur
    BY <1>0, WorkerEffect DEF BInv, OInv, OnlyCurrent
  <1>2. /\ reply'[c] \in {NoReply, Result("UNAVAILABLE")}
        /\ \A t \in Threads \ {c} : reply'[t] = reply[t]
    <2>1. CASE Hangup(c)
      BY <1>0, <2>1 DEF Hangup, CellInv, WInv, WTypeOK, Threads
    <2>2. CASE \E pc \in RpcSteps : Ask(c, pc)
      BY <1>0, <2>2, RpcFacts, CallFacts DEF Ask, CellInv
    <2> QED
      BY <1>0, <2>1, <2>2, WorkerEffect
  <1>3. \A pc : wpc' = [wpc EXCEPT ![c] = pc] => wpc'[c] = pc
    BY <1>0 DEF CellInv, DTypeOK
  <1>4. \A pc : Ask(c, pc) => wpc'[c] = pc
    BY <1>3 DEF Ask
  <1>5. \A r : Conclude(c, r) => wpc'[c] = "close_server" /\ result' = [result EXCEPT ![c] = r]
    BY <1>4 DEF Conclude
  <1> USE DEF EstablishSteps, RoundTripSteps
  <1>6. CASE ServerEstablished(c)
    BY <1>1, <1>2, <1>4, <1>6 DEF ServerEstablished, At
  <1>7. CASE SessionSaved(c)
    BY <1>1, <1>2, <1>4, <1>7 DEF SessionSaved, At
  <1>8. CASE ClientEstablished(c)
    BY <1>1, <1>2, <1>3, <1>8 DEF ClientEstablished, At
  <1>9. CASE PeerAccepts(c) \/ ClientTransmitted(c) \/ ServerClosed(c)
    BY <1>1, <1>2, <1>4, <1>9 DEF PeerAccepts, ClientTransmitted, ServerClosed, At
  <1>10. CASE ClientClosed(c)
    BY <1>1, <1>2, <1>3, <1>10 DEF ClientClosed
  <1>11. CASE \/ HrrAssertionFails(c) \/ PeerSilent(c) \/ ServerTransmitted(c)
              \/ StepFails(c) \/ StepRaises(c)
    <2>1. \E r : Conclude(c, r) /\ (r = "ok" => reply[c].echo # {})
      BY <1>11 DEF HrrAssertionFails, PeerSilent, ServerTransmitted, StepFails, StepRaises
    <2>2. /\ wpc'[c] = "close_server"
          /\ \A d \in Cells : result'[d] = "ok" =>
                result[d] = "ok" \/ (d = c /\ reply[c].echo # {})
      BY <1>0, <1>5, <2>1 DEF CellInv, DTypeOK
    <2> QED
      BY <1>1, <1>2, <2>2
  <1> QED
    BY <1>6, <1>7, <1>8, <1>9, <1>10, <1>11 DEF WorkerStep

LEMMA AnswerStatus ==
    NoReply.status = "none" /\ \A x : Result(x).status = x /\ Result(x).echo = {}
  BY DEF NoReply, Result

\* Steps that start no client and answer no worker.
LEMMA QuietKeepsClients ==
    ASSUME ClientsInStep, wpc' = wpc,
           \A w \in Backends : hosted'[w]["client"] \in {hosted[w]["client"], NoProc},
           \A c \in Cells : reply'[c] = reply[c] \/ reply'[c].status # "SUCCESS",
           \A w \in Backends :
               \/ phase'[w] = "idle"
               \/ /\ phase'[w] = phase[w] /\ hosted'[w] = hosted[w]
                  /\ rpcs[w] # <<>> => rpcs'[w] # <<>> /\ Head(rpcs'[w]) = Head(rpcs[w])
    PROVE  ClientsInStep'
  <1>1. StepsFit'
    BY DEF ClientsInStep, StepsFit
  <1>2. HandlerHolds'
    BY DEF ClientsInStep, HandlerHolds
  <1>3. AnswerHolds'
    BY WrapperAssumption DEF ClientsInStep, AnswerHolds, FinalClient
  <1>4. RoundTripHolds'
    BY DEF ClientsInStep, RoundTripHolds, FinalClient
  <1> QED
    BY <1>1, <1>2, <1>3, <1>4 DEF ClientsInStep

LEMMA WorkerKeepsClients ==
    ASSUME BInv, ClientsInStep, NEW c \in Cells, WorkerStep(c)
    PROVE  ClientsInStep'
  <1>0. /\ CellInv /\ UNCHANGED <<status, phase, hosted>>
        /\ \A d \in Cells \ {c} : wpc'[d] = wpc[d] /\ reply'[d] = reply[d]
        /\ reply'[c].status # "SUCCESS"
    BY WorkerLeaves, WorkerEffect, WorkerMoves, AnswerStatus
       DEF BInv, OInv, RInv, wrapperMem, Threads
  <1>1. StepsFit'
    BY <1>0, WorkerMoves DEF ClientsInStep, StepsFit
  <1>2. HandlerHolds'
    <2>1. \A w \in Backends : rpcs[w] # <<>> =>
             rpcs'[w] # <<>> /\ Head(rpcs'[w]) = Head(rpcs[w])
      <3>1. CASE Hangup(c)
        BY <3>1 DEF Hangup
      <3>2. CASE \E pc \in RpcSteps : Ask(c, pc)
        BY <1>0, <3>2, RpcFacts, CallFacts DEF Ask, CellInv
      <3> QED
        BY <1>0, <3>1, <3>2, WorkerEffect
    <2> QED
      BY <1>0, <2>1 DEF ClientsInStep, HandlerHolds
  <1>3. AnswerHolds'
    BY <1>0 DEF ClientsInStep, AnswerHolds, FinalClient
  <1>4. RoundTripHolds'
    <2> SUFFICES ASSUME NEW w \in Backends, wpc'[c] \in RoundTripSteps,
                        hosted[w]["client"] # NoProc, hosted[w]["client"].cell = c
                 PROVE  hosted[w]["client"] = FinalClient(c)
      BY <1>0 DEF ClientsInStep, RoundTripHolds, FinalClient
    <2>1. CASE wpc[c] \in RoundTripSteps
      BY <2>1 DEF ClientsInStep, RoundTripHolds
    <2>2. CASE ClientEstablished(c)
      <3>1. wpc[c] \in {"est_client", "est_resume"} /\ reply[c].status = "SUCCESS"
        BY <2>2 DEF ClientEstablished, At
      <3>2. w = CellClient[c]
        BY <1>0, HeldHost DEF HostFor, Roles
      <3> QED
        BY <3>1, <3>2 DEF ClientsInStep, AnswerHolds
    <2> QED
      BY <2>1, <2>2, WorkerMoves
  <1> QED
    BY <1>1, <1>2, <1>3, <1>4 DEF ClientsInStep

LEMMA HandlerHoldsKept ==
    ASSUME BInv, ClientsInStep, NEW w \in Backends, Handle(w)
    PROVE  HandlerHolds'
  <1>0. /\ phase \in [Backends -> {"idle", "polling", "collecting", "reading"}]
        /\ rpcs \in [Backends -> Seq(Requests)]
        /\ hosted \in [Backends -> [Roles -> Procs \cup {NoProc}]]
    BY DEF BInv, OInv, RInv, CellInv, WInv, WTypeOK
  <1> USE DEF ClientsInStep, HandlerHolds
  <1>1. CASE EstablishStarts(w)
    <2>1. /\ rpcs' = rpcs /\ rpcs[w] # <<>> /\ Head(rpcs[w]).op = "ESTABLISH"
          /\ phase' = [phase EXCEPT ![w] = "polling"]
          /\ hosted' = [hosted EXCEPT ![w][RoleOf(Head(rpcs[w]).kind)] =
                          Proc(Head(rpcs[w]).cell, Head(rpcs[w]).kind)]
      BY <1>1 DEF EstablishStarts, Spawns, Serving
    <2>2. RoleOf(Head(rpcs[w]).kind) \in Roles
      BY <2>1, HeadFacts DEF BInv, OInv, RInv, CellInv
    <2> QED
      BY <1>0, <2>1, <2>2
  <1>2. CASE PeerReachable(w)
    <2>1. /\ UNCHANGED <<rpcs, hosted>> /\ phase[w] = "polling"
          /\ phase' = [phase EXCEPT ![w] = "collecting"]
      BY <1>2 DEF PeerReachable, Serving, wrapperMem
    <2> QED
      BY <1>0, <2>1
  <1>3. CASE TransmitWrites(w)
    BY <1>0, <1>3 DEF TransmitWrites, wrapperMem
  <1>4. CASE ~ (EstablishStarts(w) \/ PeerReachable(w) \/ TransmitWrites(w))
    <2>1. /\ phase'[w] = "idle"
          /\ \A v \in Backends \ {w} : phase'[v] = phase[v] /\ rpcs'[v] = rpcs[v]
      <3>1. CASE DropExpired(w)
        BY <1>0, <3>1 DEF DropExpired
      <3>2. CASE ~ DropExpired(w)
        <4>1. \E res : Answer(w, res)
          BY <1>4, <3>2 DEF Handle, EstablishSkips, EstablishSetupFails, EstablishGivesUp,
             ServerEstablishes, ClientEstablishes, TransmitRejected, TransmitReads, Close
        <4> QED
          BY <1>0, <4>1 DEF Answer
      <3> QED
        BY <3>1, <3>2
    <2>2. \A v \in Backends \ {w} : hosted'[v] = hosted[v]
      BY <1>0, <1>4 DEF Handle, EstablishSkips, EstablishSetupFails, EstablishGivesUp,
         ServerEstablishes, ClientEstablishes, TransmitRejected, TransmitReads, Close,
         DropExpired, Released, wrapperMem
    <2> QED
      BY <2>1, <2>2
  <1> QED
    BY <1>1, <1>2, <1>3, <1>4

\* An answered handshake of a worker is one of the client it asked for.
LEMMA AnswerKeepsClients ==
    ASSUME BInv, ClientsInStep, UNCHANGED dvars, NEW w \in Backends, Handle(w)
    PROVE  AnswerHolds'
  <1>0. CellInv /\ WInv /\ WTypeOK
    BY DEF BInv, OInv, RInv, CellInv, WInv
  <1> SUFFICES ASSUME NEW c \in Cells, wpc[c] \in {"est_client", "est_resume"},
                      reply'[c].status = "SUCCESS"
               PROVE  hosted'[CellClient[c]]["client"] \in {NoProc, FinalClient(c)}
    BY DEF AnswerHolds, FinalClient, dvars
  <1>1. c = cur
    BY DEF Quiet, BInv, OInv, OnlyCurrent
  <1>2. CellClient[c] \in Backends /\ "client" \in Roles /\ NoReply.status # "SUCCESS"
    BY WrapperAssumption, AnswerStatus DEF Roles
  <1>3. CASE reply'[c] = reply[c]
    <2>1. ~ EstablishStarts(w)
      BY <1>1, <1>2, <1>3, HeadInStep DEF EstablishStarts, Serving
    <2>2. hosted'[CellClient[c]]["client"] \in {hosted[CellClient[c]]["client"], NoProc}
      BY <1>0, <1>2, <2>1, HandleHolds
    <2> QED
      BY <1>3, <2>2 DEF ClientsInStep, AnswerHolds
  <1>4. CASE reply'[c] # reply[c]
    <2>1. /\ rpcs[w] # <<>> /\ Head(rpcs[w]).from = c
          /\ Head(rpcs[w]) = rpcs[w][1] /\ 1 \in DOMAIN rpcs[w]
      <3>1. rpcs[w] # <<>> /\ \E res : Answer(w, res)
        BY <1>4 DEF Handle, EstablishSkips, EstablishSetupFails, EstablishStarts,
           PeerReachable, EstablishGivesUp, ServerEstablishes, ClientEstablishes,
           TransmitRejected, TransmitWrites, TransmitReads, Close, DropExpired, Serving
      <3> QED
        BY <1>0, <1>4, <3>1, AnswerReplies DEF Threads
    <2>2. Head(rpcs[w]).op # "CLOSE"
      BY <1>0, <2>1, SenderFacts, WrapperAssumption DEF CloseSteps
    <2>3. /\ Head(rpcs[w]).op = "ESTABLISH" /\ Head(rpcs[w]).cell = c
          /\ Head(rpcs[w]).kind = StepKind(wpc[c])
      BY <1>1, <2>1, <2>2, HeadInStep DEF EstablishSteps
    <2>4. StepKind(wpc[c]) = IF c \in Resuming THEN "resume" ELSE "client"
      BY DEF StepKind, ClientsInStep, StepsFit
    <2>5. CellClient[c] = w
      BY <1>1, <2>1, <2>2, <2>3, <2>4, HeadInStep
    <2>6. ClientEstablishes(w)
      <3>1. \A x \in {"SKIP", "FAILURE"} : ~ Answer(w, Result(x))
        BY <1>0, <1>4, <2>1, AnswerStatus DEF Answer, WTypeOK, Threads
      <3> QED
        BY <1>4, <2>3, <2>4, <3>1 DEF Handle, EstablishSkips, EstablishSetupFails,
           EstablishStarts, PeerReachable, EstablishGivesUp, ServerEstablishes,
           TransmitRejected, TransmitWrites, TransmitReads, Close, DropExpired, Serving
    <2>7. hosted'[w] = hosted[w] /\ hosted[w][RoleOf(StepKind(wpc[c]))] = Proc(c, StepKind(wpc[c]))
      BY <2>3, <2>6 DEF ClientEstablishes, Serving, wrapperMem, ClientsInStep, HandlerHolds
    <2> QED
      BY <2>4, <2>5, <2>7 DEF RoleOf, FinalClient
  <1> QED
    BY <1>3, <1>4

LEMMA HandleKeepsClients ==
    ASSUME BInv, ClientsInStep, UNCHANGED dvars, NEW w \in Backends, Handle(w)
    PROVE  ClientsInStep'
  <1>1. StepsFit'
    BY DEF ClientsInStep, StepsFit, dvars
  <1>2. RoundTripHolds'
    <2> SUFFICES ASSUME NEW c \in Cells, NEW v \in Backends, wpc[c] \in RoundTripSteps,
                        hosted'[v]["client"] # NoProc, hosted'[v]["client"].cell = c
                 PROVE  hosted'[v]["client"] = FinalClient(c)
      BY DEF RoundTripHolds, FinalClient, dvars
    <2>1. CASE hosted'[v]["client"] = hosted[v]["client"]
      BY <2>1 DEF ClientsInStep, RoundTripHolds
    <2>2. CASE EstablishStarts(w) /\ hosted'[v]["client"] = Proc(Head(rpcs[w]).cell, Head(rpcs[w]).kind)
      <3>1. wpc[cur] \in EstablishSteps /\ Head(rpcs[w]).cell = cur
        BY <2>2, HeadInStep DEF EstablishStarts, Serving
      <3>2. \A x, k : Proc(x, k).cell = x
        BY DEF Proc
      <3>3. c = cur
        BY <2>2, <3>1, <3>2
      <3> QED
        BY <3>1, <3>3 DEF EstablishSteps, RoundTripSteps
    <2> QED
      BY <2>1, <2>2, HandleHolds DEF Roles, BInv, OInv, RInv
  <1> QED
    BY <1>1, <1>2, HandlerHoldsKept, AnswerKeepsClients DEF ClientsInStep

LEMMA ClientsKept ==
    ASSUME BInv, ClientsInStep, CrashProne = {}, [Next]_vars
    PROVE  ClientsInStep'
  <1>0. /\ RInv /\ CellInv /\ NoReply.status # "SUCCESS"
        /\ \A x : Result(x).status = x
        /\ reply \in [Threads -> Replies] /\ "client" \in Roles
        /\ hosted \in [Backends -> [Roles -> Procs \cup {NoProc}]]
    BY AnswerStatus DEF BInv, OInv, RInv, CellInv, WInv, WTypeOK, Roles
  <1>1. CASE \E c \in Cells : WorkerStep(c)
    BY <1>1, WorkerKeepsClients
  <1>2. CASE \E w \in Backends : (Handle(w) \/ Crash(w)) /\ UNCHANGED dvars
    BY <1>2, HandleKeepsClients DEF Crash
  <1>3. CASE \E p \in Procs : CliStep(p) /\ UNCHANGED dvars
    <2>1. UNCHANGED <<wpc, phase, rpcs, hosted, reply>>
      BY <1>0, <1>3, CliStepFacts DEF CellInv, wrapperMem, dvars
    <2> QED
      BY <2>1, QuietKeepsClients
  <1>4. CASE Reports \/ UNCHANGED vars
    <2>1. UNCHANGED <<wpc, phase, rpcs, hosted, reply>>
      BY <1>4 DEF Reports, vars, wvars, wrapperMem, dvars
    <2> QED
      BY <2>1, QuietKeepsClients
  <1>5. CASE Watches
    <2>1. /\ wpc' = wpc /\ UNCHANGED <<phase, hosted>>
          /\ \A c \in Cells : reply'[c] = reply[c]
          /\ \A w \in Backends : rpcs[w] # <<>> =>
                rpcs'[w] # <<>> /\ Head(rpcs'[w]) = Head(rpcs[w])
      <3>1. \A c \in Cells : c # Main /\ c \in Threads
        BY WrapperAssumption DEF Threads
      <3>2. CASE Hangup(Main)
        BY <1>0, <1>5, <3>1, <3>2 DEF Hangup, Watches, wrapperMem, dvars
      <3>3. CASE \E k \in {"server", "client"} : Call(Request(Main, cur, "CLOSE", k))
        <4>1. PICK rq \in Requests : rq.from = Main /\ Call(rq)
          BY <1>5, <3>3 DEF Watches, Request, Requests, Threads, Kinds
        <4> QED
          BY <1>0, <1>5, <3>1, <4>1, CallFacts DEF CellInv, Watches, wrapperMem, dvars
      <3> QED
        BY <1>5, <3>2, <3>3 DEF Watches
    <2> QED
      BY <2>1, QuietKeepsClients
  <1>6. CASE BeginCell
    <2>1. PICK rq \in Requests : rq.from = cur /\ Call(rq)
      BY <1>6, RpcFacts, StepFacts DEF BeginCell, StartWorker, Ask
    <2>2. /\ UNCHANGED <<phase, hosted>> /\ reply'[cur].status # "SUCCESS"
          /\ \A c \in Cells \ {cur} : reply'[c] = reply[c]
          /\ \A w \in Backends : rpcs[w] # <<>> =>
                rpcs'[w] # <<>> /\ Head(rpcs'[w]) = Head(rpcs[w])
      BY <1>0, <2>1, CallFacts DEF CellInv, wrapperMem, Threads
    <2>3. wpc'[cur] = "est_server" /\ \A c \in Cells \ {cur} : wpc'[c] = wpc[c]
      BY <1>0, <1>6 DEF BeginCell, StartWorker, Ask, CellInv, DTypeOK
    <2>4. StepsFit'
      BY <2>3 DEF ClientsInStep, StepsFit
    <2>5. HandlerHolds'
      BY <2>2 DEF ClientsInStep, HandlerHolds
    <2>6. AnswerHolds'
      BY <2>2, <2>3 DEF ClientsInStep, AnswerHolds, FinalClient
    <2>7. RoundTripHolds'
      BY <2>2, <2>3 DEF ClientsInStep, RoundTripHolds, FinalClient, RoundTripSteps
    <2> QED
      BY <2>4, <2>5, <2>6, <2>7 DEF ClientsInStep
  <1>7. CASE StopSession
    <2>1. /\ wpc' = wpc
          /\ \A w \in Backends :
                \/ phase'[w] = "idle" /\ hosted'[w] = [r \in Roles |-> NoProc]
                \/ phase'[w] = phase[w] /\ hosted'[w] = hosted[w] /\ rpcs'[w] = rpcs[w]
          /\ \A c \in Cells : reply'[c] = reply[c] \/ reply'[c] = Result("UNAVAILABLE")
      BY <1>7 DEF StopSession, StopAll, WrappersGone, dvars, Threads
    <2> QED
      BY <1>0, <2>1, QuietKeepsClients
  <1> QED
    BY <1>0, <1>1, <1>2, <1>3, <1>4, <1>5, <1>6, <1>7, MainEffect DEF Next, Over

-----------------------------------------------------------------------------
(* Payloads                                                                 *)

\* A payload is sent only by the last client of a cell, over a handshake with
\* the server of that cell, and what a server has printed was sent to it.
SentLast ==
    \A p \in inflight \cup arrived :
        p = FinalClient(p.cell) /\ wpc[p.cell] \notin EstablishSteps \cup {"idle", "wait_tcp"}
ArrivedRan == \A p \in arrived : life[p] # "starting"
PeersOwn   == \A p \in Clients : peer[p] # NoProc => peer[p] = Proc(p.cell, "server")
PrintedWasSent ==
    \A q \in Servers : \A p \in unread[q] : p \in arrived /\ peer[p] = q

Payloads == SentLast /\ ArrivedRan /\ PeersOwn /\ PrintedWasSent

\* A step that moves no payload.
Still ==
    /\ UNCHANGED <<peer, inflight, arrived>>
    /\ \A q \in Servers : unread'[q] \subseteq unread[q]
    /\ \A p \in Procs : life'[p] = "starting" => life[p] = "starting"

LEMMA HandleIsStill ==
    ASSUME BInv, NEW w \in Backends, Handle(w), ~ EstablishStarts(w), ~ TransmitWrites(w)
    PROVE  Still
  <1>0. unread \in [Servers -> SUBSET Clients]
    BY DEF BInv, OInv, RInv, CellInv, WInv, WTypeOK
  <1>1. /\ UNCHANGED <<peer, inflight, arrived>>
        /\ unread' = unread \/ unread' = Drained(w)
    BY DEF Handle, EstablishSkips, EstablishSetupFails, PeerReachable, EstablishGivesUp,
       ServerEstablishes, ClientEstablishes, TransmitRejected, TransmitReads, Close,
       DropExpired, cli
  <1>2. life' = life \/ \E S : life' = Killed(S)
    BY DEF Handle, EstablishSkips, EstablishSetupFails, PeerReachable, EstablishGivesUp,
       ServerEstablishes, ClientEstablishes, TransmitRejected, TransmitReads, Close,
       DropExpired, cli
  <1>3. \A q \in Servers : unread'[q] \subseteq unread[q]
    BY <1>0, <1>1 DEF Drained
  <1>4. \A p \in Procs : life'[p] = "starting" => life[p] = "starting"
    BY <1>2 DEF Killed
  <1> QED
    BY <1>1, <1>3, <1>4 DEF Still

LEMMA PayloadFlow ==
    ASSUME BInv, CrashProne = {}, [Next]_vars
    PROVE  \/ Still
           \/ /\ UNCHANGED <<dvars, Rest>>
              /\ \/ \E w \in Backends : EstablishStarts(w) \/ TransmitWrites(w)
                 \/ \E p \in Procs : Handshakes(p) \/ Delivers(p)
  <1>0. /\ RInv /\ CellInv /\ unread \in [Servers -> SUBSET Clients]
        /\ life \in [Procs -> {"unborn", "starting", "up", "exited"}]
    BY DEF BInv, OInv, RInv, CellInv, WInv, WTypeOK
  <1>1. UNCHANGED cli => Still
    BY <1>0 DEF Still, cli
  <1>2. CASE \E c \in Cells : WorkerStep(c)
    BY <1>0, <1>1, <1>2, WorkerLeaves
  <1>3. CASE \E w \in Backends : (Handle(w) \/ Crash(w)) /\ UNCHANGED <<dvars, Rest>>
    BY <1>3, HandleIsStill DEF Crash
  <1>4. CASE \E p \in Procs : CliStep(p) /\ UNCHANGED <<dvars, Rest>>
    <2>1. PICK p \in Procs : CliStep(p) /\ UNCHANGED <<dvars, Rest>>
      BY <1>4
    <2>2. CASE Listens(p) \/ SavesTicket(p) \/ Exits(p)
      <3>1. /\ UNCHANGED <<peer, inflight, unread, arrived>>
            /\ \A q \in Procs : life'[q] = "starting" => life[q] = "starting"
        BY <1>0, <2>2 DEF Listens, SavesTicket, Exits
      <3> QED
        BY <1>0, <3>1 DEF Still
    <2> QED
      BY <2>1, <2>2 DEF CliStep
  <1>5. CASE Reports \/ Watches \/ BeginCell \/ UNCHANGED vars
    BY <1>1, <1>5 DEF Reports, Watches, BeginCell, StartWorker, Ask, Call, Hangup, vars, wvars
  <1>6. CASE StopSession
    <2>1. /\ UNCHANGED <<peer, inflight, unread, arrived>>
          /\ \A q \in Procs : life'[q] = "starting" => life[q] = "starting"
      BY <1>0, <1>6 DEF StopSession, StopAll, WrappersGone
    <2> QED
      BY <1>0, <2>1 DEF Still
  <1> QED
    BY <1>0, <1>2, <1>3, <1>4, <1>5, <1>6, MainEffect DEF Next, Over

\* Workers never go back to a handshake.
LEMMA ForwardOnly ==
    ASSUME BInv, [Next]_vars, NEW c \in Cells,
           wpc[c] \notin EstablishSteps \cup {"idle", "wait_tcp"}
    PROVE  wpc'[c] \notin EstablishSteps \cup {"idle", "wait_tcp"}
  <1>0. RInv
    BY DEF BInv, OInv
  <1>1. CASE Elsewhere
    BY <1>0, <1>1, WorkerEffect, WorkerMoves DEF Elsewhere, dvars, RInv
  <1>2. CASE Reports \/ Watches \/ StopSession
    BY <1>2 DEF Reports, Watches, StopSession, dvars
  <1>3. CASE BeginCell
    <2>1. c # cur
      BY <1>0, <1>3 DEF BeginCell, RInv, MainInOrder
    <2> QED
      BY <1>0, <1>3, <2>1 DEF BeginCell, StartWorker, Ask, RInv, CellInv, DTypeOK
  <1> QED
    BY <1>0, <1>1, <1>2, <1>3, NextEffect, MainEffect

\* What EstablishStarts and TransmitWrites do it to.
LEMMA StartedAndSent ==
    ASSUME BInv, ClientsInStep, NEW w \in Backends
    PROVE  /\ EstablishStarts(w) =>
                  /\ wpc[Head(rpcs[w]).cell] \in EstablishSteps
                  /\ Head(rpcs[w]).cell \in Cells
                  /\ Proc(Head(rpcs[w]).cell, Head(rpcs[w]).kind) \in Procs
           /\ TransmitWrites(w) =>
                  inflight' \in {inflight, inflight \cup {FinalClient(cur)}}
                     /\ (inflight' # inflight => /\ cur \in Cells /\ wpc[cur] = "tx_client"
                                                /\ FinalClient(cur) \in Clients)
  <1>0. /\ CellInv /\ WInv
        /\ hosted \in [Backends -> [Roles -> Procs \cup {NoProc}]]
    BY DEF BInv, OInv, RInv, CellInv, WInv, WTypeOK
  <1>1. ASSUME EstablishStarts(w)
        PROVE  /\ wpc[Head(rpcs[w]).cell] \in EstablishSteps
               /\ Head(rpcs[w]).cell \in Cells
               /\ Proc(Head(rpcs[w]).cell, Head(rpcs[w]).kind) \in Procs
    <2>1. rpcs[w] # <<>> /\ Head(rpcs[w]).op = "ESTABLISH"
      BY <1>1 DEF EstablishStarts, Serving
    <2> QED
      BY <1>0, <2>1, HeadInStep, HeadFacts, RequestFacts
  <1>2. ASSUME TransmitWrites(w), inflight' # inflight
        PROVE  /\ inflight' = inflight \cup {FinalClient(cur)}
               /\ cur \in Cells /\ wpc[cur] = "tx_client" /\ FinalClient(cur) \in Clients
    <2>1. /\ rpcs[w] # <<>> /\ Head(rpcs[w]).op = "TRANSMIT" /\ status[w] = "up"
          /\ RoleOf(Head(rpcs[w]).kind) = "client" /\ hosted[w]["client"] # NoProc
          /\ inflight' = inflight \cup {hosted[w]["client"]}
      BY <1>2 DEF TransmitWrites, Serving, Running, TransmitTarget
    <2>2. /\ cur \in Cells /\ wpc[cur] \in {"tx_client", "tx_server"}
          /\ Head(rpcs[w]).kind = StepKind(wpc[cur])
      BY <2>1, HeadInStep
    <2>3. wpc[cur] = "tx_client"
      BY <2>1, <2>2 DEF StepKind, RoleOf
    <2>4. hosted[w]["client"].cell = cur
      BY <2>1, HeldIsCurrent DEF BInv, Roles
    <2>5. hosted[w]["client"] = FinalClient(cur)
      BY <2>1, <2>2, <2>3, <2>4 DEF ClientsInStep, RoundTripHolds, RoundTripSteps
    <2>6. hosted[w]["client"] \in Procs /\ hosted[w]["client"].kind # "server"
      BY <1>0, <2>1, HeldHost DEF Roles, WInv, HostedInPlace, RoleOf
    <2> QED
      BY <2>1, <2>2, <2>3, <2>5, <2>6 DEF Clients, Servers
  <1> QED
    BY <1>1, <1>2

LEMMA PayloadsKept ==
    ASSUME BInv, ClientsInStep, Payloads, CrashProne = {}, [Next]_vars
    PROVE  Payloads'
  <1> USE DEF Payloads
  <1>0. /\ inflight \subseteq Clients /\ arrived \subseteq Clients /\ Clients \subseteq Procs
        /\ unread \in [Servers -> SUBSET Clients]
        /\ peer \in [Clients -> Servers \cup {NoProc}]
        /\ life \in [Procs -> {"unborn", "starting", "up", "exited"}]
        /\ \A p \in Procs : p.cell \in Cells
    BY ProcFacts DEF BInv, OInv, RInv, CellInv, WInv, WTypeOK, Clients
  <1>1. ASSUME \A p \in inflight' \cup arrived' : p \in inflight \cup arrived
        PROVE  SentLast'
    <2>1. \A p \in inflight \cup arrived : p = FinalClient(p.cell)
             /\ wpc'[p.cell] \notin EstablishSteps \cup {"idle", "wait_tcp"}
      BY <1>0, ForwardOnly DEF SentLast
    <2> QED
      BY <1>1, <2>1 DEF SentLast, FinalClient
  <1>2. CASE Still
    BY <1>0, <1>1, <1>2 DEF Still, ArrivedRan, PeersOwn, PrintedWasSent
  <1>3. CASE \E w \in Backends : EstablishStarts(w)
    <2>1. PICK w \in Backends : EstablishStarts(w)
      BY <1>3
    <2>2. PICK p \in Procs : /\ p = Proc(Head(rpcs[w]).cell, Head(rpcs[w]).kind)
                             /\ wpc[p.cell] \in EstablishSteps
      <3>1. \A x, k : Proc(x, k).cell = x
        BY DEF Proc
      <3> QED
        BY <2>1, <3>1, StartedAndSent
    <2>3. /\ arrived' = arrived /\ inflight' \subseteq inflight
          /\ unread' = unread \/ unread' = [unread EXCEPT ![p] = {}]
          /\ peer' = peer \/ peer' = [peer EXCEPT ![p] = NoProc]
          /\ life' = [Killed({hosted[w][RoleOf(Head(rpcs[w]).kind)]}) EXCEPT ![p] = "starting"]
      BY <2>1, <2>2 DEF EstablishStarts, Spawns
    <2>4. p \notin arrived
      BY <2>2 DEF SentLast
    <2>5. \A q \in arrived : life'[q] # "starting"
      BY <1>0, <2>3, <2>4 DEF ArrivedRan, Killed
    <2>6. SentLast' /\ ArrivedRan'
      BY <1>1, <2>3, <2>5 DEF ArrivedRan
    <2>7. \A r \in Clients : peer'[r] = peer[r] \/ (r = p /\ peer'[r] = NoProc)
      BY <1>0, <2>3
    <2>8. PeersOwn'
      BY <2>7 DEF PeersOwn
    <2>9. \A q \in Servers : unread'[q] \subseteq unread[q]
      BY <1>0, <2>3
    <2>10. PrintedWasSent'
      BY <1>0, <2>3, <2>4, <2>7, <2>9 DEF PrintedWasSent
    <2> QED
      BY <2>6, <2>8, <2>10
  <1>4. CASE \E w \in Backends : TransmitWrites(w) /\ UNCHANGED dvars
    <2>1. PICK w \in Backends : TransmitWrites(w) /\ UNCHANGED dvars
      BY <1>4
    <2>2. UNCHANGED <<life, peer, unread, arrived, wpc>>
      BY <2>1 DEF TransmitWrites, dvars
    <2>3. CASE inflight' = inflight
      BY <1>1, <2>2, <2>3 DEF ArrivedRan, PeersOwn, PrintedWasSent
    <2>4. CASE inflight' # inflight
      <3>1. /\ inflight' = inflight \cup {FinalClient(cur)} /\ wpc[cur] = "tx_client"
        BY <2>1, <2>4, StartedAndSent
      <3>2. FinalClient(cur).cell = cur
        BY DEF FinalClient, Proc
      <3>3. SentLast'
        BY <2>2, <3>1, <3>2 DEF SentLast, FinalClient, EstablishSteps
      <3> QED
        BY <2>2, <3>3 DEF ArrivedRan, PeersOwn, PrintedWasSent
    <2> QED
      BY <2>3, <2>4
  <1>5. CASE \E p \in Procs : Handshakes(p)
    <2>1. PICK p \in Procs : Handshakes(p)
      BY <1>5
    <2>2. PICK q \in Servers : life[q] = "up" /\ peer' = [peer EXCEPT ![p] = q]
      BY <2>1 DEF Handshakes
    <2>3. /\ life[p] = "starting" /\ life' = [life EXCEPT ![p] = "up"]
          /\ UNCHANGED <<inflight, unread, arrived>>
      BY <2>1 DEF Handshakes
    <2>4. q = Proc(p.cell, "server")
      <3>1. Live(p) /\ Live(q) /\ q \in Procs /\ q.kind = "server"
        BY <2>2, <2>3 DEF Live, Servers
      <3> QED
        BY <3>1, LiveIsCurrent, ProcFacts
    <2>5. p \notin arrived
      BY <2>3 DEF ArrivedRan
    <2>6. p \in Clients /\ \A r \in Clients : peer'[r] = IF r = p THEN q ELSE peer[r]
      BY <1>0, <2>1, <2>2 DEF Handshakes
    <2>7. SentLast' /\ ArrivedRan'
      BY <1>0, <1>1, <2>3 DEF ArrivedRan
    <2>8. PeersOwn'
      BY <2>4, <2>6 DEF PeersOwn
    <2>9. PrintedWasSent'
      BY <1>0, <2>3, <2>5, <2>6 DEF PrintedWasSent
    <2> QED
      BY <2>7, <2>8, <2>9
  <1>6. CASE \E p \in Procs : Delivers(p)
    <2>1. PICK p \in Procs : Delivers(p)
      BY <1>6
    <2>2. /\ p \in inflight /\ life[p] = "up"
          /\ inflight' = inflight \ {p} /\ arrived' = arrived \cup {p}
          /\ unread' = [unread EXCEPT ![peer[p]] = @ \cup {p}]
          /\ UNCHANGED <<life, peer>>
      BY <2>1 DEF Delivers
    <2>3. PrintedWasSent'
      <3>1. \A q \in Servers : unread'[q] = IF q = peer[p] THEN unread[q] \cup {p} ELSE unread[q]
        BY <1>0, <2>2
      <3> QED
        BY <2>2, <3>1 DEF PrintedWasSent
    <2> QED
      BY <1>1, <2>2, <2>3 DEF ArrivedRan, PeersOwn
  <1> QED
    BY <1>2, <1>3, <1>4, <1>5, <1>6, PayloadFlow

\* Evidence, once there, stays.
LEMMA ProvenKept ==
    ASSUME BInv, ClientsInStep, Payloads, CrashProne = {}, [Next]_vars,
           NEW c \in Cells, Proven(c)
    PROVE  Proven(c)'
  <1> DEFINE f == FinalClient(c)
  <1>0. /\ f \in arrived /\ peer[f] = Proc(c, "server") /\ life[f] # "starting"
        /\ f.cell = c /\ wpc[c] \notin EstablishSteps
        /\ peer \in [Clients -> Servers \cup {NoProc}] /\ f \in Clients
    <2>1. f.cell = c /\ f \in arrived /\ peer[f] = Proc(c, "server")
      BY DEF Proven, FinalClient, Proc
    <2>2. wpc[c] \notin EstablishSteps /\ life[f] # "starting"
      BY <2>1 DEF Payloads, SentLast, ArrivedRan
    <2> QED
      BY <2>1, <2>2 DEF BInv, OInv, RInv, CellInv, WInv, WTypeOK
  <1>1. f' = f
    BY DEF FinalClient
  <1> HIDE DEF f
  <1>2. f \in arrived' /\ peer'[f] = peer[f]
    <2>1. CASE Still
      BY <1>0, <2>1 DEF Still
    <2>2. CASE \E w \in Backends : EstablishStarts(w)
      <3>1. PICK w \in Backends : EstablishStarts(w)
        BY <2>2
      <3>2. wpc[Head(rpcs[w]).cell] \in EstablishSteps
        BY <3>1, StartedAndSent
      <3>3. \A x, k : Proc(x, k).cell = x
        BY DEF Proc
      <3>4. Proc(Head(rpcs[w]).cell, Head(rpcs[w]).kind) # f
        BY <1>0, <3>2, <3>3
      <3> QED
        BY <1>0, <3>1, <3>4 DEF EstablishStarts
    <2>3. CASE \E w \in Backends : TransmitWrites(w)
      BY <1>0, <2>3 DEF TransmitWrites
    <2>4. CASE \E p \in Procs : Handshakes(p)
      BY <1>0, <2>4 DEF Handshakes
    <2>5. CASE \E p \in Procs : Delivers(p)
      BY <1>0, <2>5 DEF Delivers
    <2> QED
      BY <2>1, <2>2, <2>3, <2>4, <2>5, PayloadFlow
  <1> QED
    BY <1>0, <1>1, <1>2 DEF Proven, f

-----------------------------------------------------------------------------
(* A PASS is earned                                                         *)

Evidence ==
    /\ \A c \in Cells : reply[c].echo # {} \/ result[c] = "ok" => Proven(c)
    /\ PassIsEarned

HInv == BInv /\ ClientsInStep /\ Payloads /\ Evidence

\* What a worker reads of its server's output is its own client's payload.
LEMMA EchoIsEvidence ==
    ASSUME BInv, Payloads, NEW w \in Backends, Handle(w),
           NEW c \in Cells, reply'[c] # reply[c], reply'[c].echo # {}
    PROVE  Proven(c)
  <1>0. /\ CellInv /\ unread \in [Servers -> SUBSET Clients]
        /\ reply \in [Threads -> Replies] /\ c \in Threads
        /\ hosted \in [Backends -> [Roles -> Procs \cup {NoProc}]]
    BY DEF BInv, OInv, RInv, CellInv, WInv, WTypeOK, Threads
  <1>1. \A x : ~ Answer(w, Result(x))
    BY <1>0, AnswerStatus DEF Answer
  <1>2. /\ Serving(w, "TRANSMIT", "reading") /\ RoleOf(Head(rpcs[w]).kind) = "server"
        /\ Answer(w, [status |-> "SUCCESS", echo |-> unread[TransmitTarget(w)]])
    BY <1>1 DEF Handle, EstablishSkips, EstablishSetupFails, EstablishStarts, PeerReachable,
       EstablishGivesUp, ServerEstablishes, ClientEstablishes, TransmitRejected,
       TransmitWrites, TransmitReads, Close, DropExpired
  <1>3. /\ rpcs[w] # <<>> /\ Head(rpcs[w]).op = "TRANSMIT" /\ status[w] = "up"
        /\ Head(rpcs[w]).from = c /\ reply'[c].echo = unread[hosted[w]["server"]]
    BY <1>0, <1>2 DEF Serving, Answer, TransmitTarget
  <1>4. c = cur
    BY <1>3, HeadInStep
  <1>5. hosted[w]["server"] # NoProc /\ "server" \in Roles
    BY <1>2 DEF Serving, BInv, OInv, RInv, CellInv, WInv, ReadsSomething, TransmitTarget, Roles
  <1>6. PICK q \in Procs : q = hosted[w]["server"]
    BY <1>0, <1>5
  <1>7. q.cell = c
    BY <1>3, <1>4, <1>5, <1>6, HeldIsCurrent DEF BInv
  <1>8. q.kind = "server"
    BY <1>5, <1>6 DEF BInv, OInv, RInv, CellInv, WInv, HostedInPlace, RoleOf
  <1>9. q \in Servers /\ q = Proc(c, "server")
    BY <1>6, <1>7, <1>8, ProcFacts DEF Servers
  <1>10. PICK p \in unread[q] : p \in Clients
    BY <1>0, <1>3, <1>6, <1>9
  <1>11. p \in arrived /\ peer[p] = q /\ q # NoProc
    BY <1>6, <1>9, <1>10, ProcFacts DEF Payloads, PrintedWasSent
  <1>12. p.cell = c
    <2>1. q = Proc(p.cell, "server")
      BY <1>10, <1>11 DEF Payloads, PeersOwn
    <2>2. Proc(p.cell, "server").cell = p.cell
      BY DEF Proc
    <2> QED
      BY <1>7, <2>1, <2>2
  <1>13. p = FinalClient(c)
    BY <1>11, <1>12 DEF Payloads, SentLast
  <1> QED
    BY <1>9, <1>11, <1>13 DEF Proven

LEMMA EvidenceKept ==
    ASSUME HInv, CrashProne = {}, [Next]_vars
    PROVE  Evidence'
  <1>0. /\ RInv /\ CellInv /\ BInv /\ WInv
        /\ reply \in [Threads -> Replies] /\ Cells \subseteq Threads
        /\ result \in [Cells -> {"none", "ok", "notok", "exc"}]
        /\ verdict \in [Cells -> Verdicts]
    BY DEF HInv, BInv, OInv, RInv, CellInv, WInv, WTypeOK, DTypeOK, MainTypeOK, Threads
  <1>1. \A c \in Cells : Proven(c) => Proven(c)'
    BY ProvenKept DEF HInv
  <1>2. \A x : Result(x).echo = {} /\ NoReply.echo = {}
    BY DEF Result, NoReply
  <1>3. ASSUME \A c \in Cells : \/ reply'[c] = reply[c] \/ reply'[c].echo = {} \/ Proven(c),
               \A c \in Cells : result'[c] = "ok" => result[c] = "ok" \/ reply[c].echo # {},
               \A c \in Cells : verdict'[c] = "PASS" => verdict[c] = "PASS" \/ result[c] = "ok"
        PROVE  Evidence'
    BY <1>1, <1>3 DEF HInv, Evidence, PassIsEarned
  <1>4. CASE Elsewhere
    <2>1. verdict' = verdict
      BY <1>4 DEF Elsewhere, Rest
    <2>2. CASE \E c \in Cells : WorkerStep(c)
      <3>1. PICK c \in Cells : WorkerStep(c)
        BY <2>2
      <3>2. reply'[c].echo = {} /\ \A d \in Cells \ {c} : reply'[d] = reply[d]
        BY <1>0, <1>2, <3>1, WorkerMoves
      <3>3. \A d \in Cells : result'[d] = "ok" => result[d] = "ok" \/ reply[d].echo # {}
        BY <1>0, <3>1, WorkerMoves
      <3> QED
        BY <1>3, <2>1, <3>2, <3>3
    <2>3. CASE UNCHANGED dvars /\ \E w \in Backends : Handle(w)
      <3>1. \A c \in Cells : reply'[c] = reply[c] \/ reply'[c].echo = {} \/ Proven(c)
        BY <1>0, <2>3, EchoIsEvidence DEF HInv
      <3> QED
        BY <1>3, <2>1, <2>3, <3>1 DEF dvars
    <2>4. CASE \E w \in Backends : Crash(w)
      BY <2>4 DEF Crash
    <2>5. CASE UNCHANGED dvars /\ \E p \in Procs : CliStep(p)
      BY <1>0, <1>3, <2>1, <2>5, CliStepFacts DEF dvars
    <2>6. CASE UNCHANGED <<wvars, dvars>>
      BY <1>3, <2>1, <2>6 DEF dvars, wvars
    <2> QED
      BY <1>4, <2>2, <2>3, <2>4, <2>5, <2>6 DEF Elsewhere
  <1>5. CASE MainStep
    <2>1. result' = result
      BY <1>5 DEF MainStep, SkipCell, BeginCell, StartWorker, WorkerJoined, CellTimesOut,
         EmergencyCloseClient, EmergencyClosed, ReportTimeout, StopSession, dvars
    <2>2. \A c \in Cells : reply'[c] = reply[c] \/ reply'[c].echo = {}
      <3>1. CASE Reports
        BY <3>1 DEF Reports
      <3>2. CASE StopSession
        BY <1>0, <1>2, <3>2 DEF StopSession, StopAll, WrappersGone
      <3>3. CASE Hangup(Main)
        BY <1>0, <1>2, <3>3 DEF Hangup
      <3>4. CASE \E rq \in Requests : Call(rq)
        <4>1. PICK rq \in Requests : Call(rq)
          BY <3>4
        <4>2. /\ \A t \in Threads \ {rq.from} : reply'[t] = reply[t]
              /\ reply'[rq.from] \in {NoReply, Result("UNAVAILABLE")}
          BY <1>0, <4>1, CallFacts
        <4> QED
          BY <1>0, <1>2, <4>2
      <3>5. Watches => Hangup(Main) \/ \E rq \in Requests : Call(rq)
        BY DEF Watches, Request, Requests, Threads, Kinds
      <3>6. BeginCell => \E rq \in Requests : Call(rq)
        BY RpcFacts, StepFacts DEF BeginCell, StartWorker, Ask
      <3> QED
        BY <1>0, <1>5, <3>1, <3>2, <3>3, <3>4, <3>5, <3>6, MainEffect
    <2>3. \A c \in Cells : verdict'[c] = "PASS" => verdict[c] = "PASS" \/ result[c] = "ok"
      <3>1. CASE WorkerJoined
        <4>1. verdict' = [verdict EXCEPT ![cur] = Outcome(cur)]
          BY <3>1 DEF WorkerJoined, Report
        <4>2. Outcome(cur) = "PASS" => result[cur] = "ok"
          BY DEF Outcome
        <4> QED
          BY <1>0, <4>1, <4>2
      <3>2. CASE SkipCell \/ ReportTimeout
        <4>1. \E v \in {"SKIP", "TIMEOUT"} : verdict' = [verdict EXCEPT ![cur] = v]
          BY <3>2 DEF SkipCell, ReportTimeout, Report
        <4> QED
          BY <1>0, <4>1
      <3>3. CASE BeginCell \/ CellTimesOut \/ EmergencyCloseClient \/ EmergencyClosed \/ StopSession
        BY <3>3 DEF BeginCell, CellTimesOut, EmergencyCloseClient, EmergencyClosed, StopSession
      <3> QED
        BY <1>5, <3>1, <3>2, <3>3 DEF MainStep
    <2> QED
      BY <1>3, <2>1, <2>2, <2>3
  <1> QED
    BY <1>4, <1>5, NextEffect

LEMMA HonestInit == Init => HInv
  <1> SUFFICES ASSUME Init PROVE HInv
    OBVIOUS
  <1>1. ClientsInStep
    BY AnswerStatus DEF Init, WInit, DInit, ClientsInStep, StepsFit, HandlerHolds, AnswerHolds,
       RoundTripHolds, RoundTripSteps, Threads
  <1>2. Payloads
    BY DEF Init, WInit, Payloads, SentLast, ArrivedRan, PeersOwn, PrintedWasSent
  <1>3. Evidence
    <2>1. \A c \in Cells : reply[c] = NoReply /\ result[c] = "none" /\ verdict[c] = "none"
      BY DEF Init, WInit, DInit, Threads
    <2>2. NoReply.echo = {}
      BY DEF NoReply, Result
    <2> QED
      BY <2>1, <2>2 DEF Evidence, PassIsEarned
  <1> QED
    BY <1>1, <1>2, <1>3, BasicsInit DEF HInv

LEMMA HonestKept ==
    ASSUME Lingering = {}, CrashProne = {}
    PROVE  HInv /\ [Next]_vars => HInv'
  BY BasicsKept, ClientsKept, PayloadsKept, EvidenceKept DEF HInv

\* If no worker outlives the grace period and no wrapper crashes, a PASS says
\* that the payload went from the cell's last client, over a handshake with
\* the cell's own server, to that server.
THEOREM RunPassIsEarned ==
    ASSUME Lingering = {}, CrashProne = {}
    PROVE  Spec => []PassIsEarned
  <1>1. HInv => PassIsEarned
    BY DEF HInv, Evidence
  <1> QED
    BY <1>1, HonestInit, HonestKept, PTL DEF Spec

-----------------------------------------------------------------------------
(* The run implements CellVerdicts                                          *)

ProvenCells == {c \in Cells : Proven(c)}

\* Evidence appears for the current cell only, and no verdict with it.
LEMMA ProvenNow ==
    ASSUME HInv, CrashProne = {}, [Next]_vars, NEW c \in Cells, Proven(c)', ~ Proven(c)
    PROVE  c = cur /\ UNCHANGED Rest
  <1> DEFINE f == FinalClient(c)
  <1>0. /\ f.cell = c /\ f \in Procs /\ Proc(c, "server") # NoProc
        /\ peer \in [Clients -> Servers \cup {NoProc}] /\ arrived \subseteq Clients
    BY WrapperAssumption DEF FinalClient, Proc, Procs, Kinds, HInv, BInv, OInv, RInv, CellInv,
                             WInv, WTypeOK
  <1>1. f \in arrived' /\ peer'[f] = Proc(c, "server")
    BY DEF Proven, FinalClient
  <1>2. ~ (f \in arrived /\ peer[f] = Proc(c, "server"))
    BY DEF Proven
  <1> HIDE DEF f
  <1>3. ~ Still
    BY <1>1, <1>2 DEF Still
  <1>4. ASSUME NEW w \in Backends, EstablishStarts(w)
        PROVE  FALSE
    <2>1. /\ arrived' = arrived
          /\ peer' = peer \/ \E p : peer' = [peer EXCEPT ![p] = NoProc]
      BY <1>4 DEF EstablishStarts
    <2> QED
      BY <1>0, <1>1, <1>2, <2>1
  <1>5. ASSUME NEW w \in Backends, TransmitWrites(w)
        PROVE  FALSE
    BY <1>1, <1>2, <1>5 DEF TransmitWrites
  <1>6. ASSUME NEW p \in Procs, Handshakes(p)
        PROVE  FALSE
    <2>1. /\ arrived' = arrived /\ life[p] = "starting"
          /\ \E q : peer' = [peer EXCEPT ![p] = q]
      BY <1>6 DEF Handshakes
    <2>2. p # f
      BY <1>1, <2>1 DEF HInv, Payloads, ArrivedRan
    <2> QED
      BY <1>0, <1>1, <1>2, <2>1, <2>2
  <1>7. ASSUME NEW p \in Procs, Delivers(p)
        PROVE  c = cur
    <2>1. arrived' = arrived \cup {p} /\ peer' = peer /\ Live(p)
      BY <1>7 DEF Delivers, Live
    <2>2. p = f
      BY <1>1, <1>2, <2>1
    <2> QED
      BY <1>0, <2>1, <2>2, LiveIsCurrent DEF HInv
  <1> QED
    BY <1>3, <1>4, <1>5, <1>6, <1>7, PayloadFlow DEF HInv

LEMMA RunStepsKeepPromise ==
    ASSUME HInv, HInv', CrashProne = {}, [Next]_vars
    PROVE  [Promise!Next]_(Promise!vars)
  <1>0. /\ Cells = 1 .. NumCells /\ NumCells \in Nat /\ cur \in Nat
        /\ verdict \in [Cells -> Verdicts]
        /\ RInv /\ VerdictsInOrder
    BY RunAssumption DEF HInv, BInv, OInv, RInv, MainTypeOK
  <1>1. ASSUME cur \in Cells
        PROVE  Promise!Reached(cur) /\ Promise!Undecided(cur)
    <2>1. verdict[cur] = "none" /\ \A d \in 1 .. cur - 1 : d \in Cells /\ d < cur
      BY <1>0, <1>1 DEF VerdictsInOrder
    <2> QED
      BY <1>0, <2>1 DEF VerdictsInOrder, Promise!Reached, Promise!Undecided
  <1>2. ProvenCells \subseteq ProvenCells'
    BY ProvenKept DEF ProvenCells, HInv
  <1>3. CASE ProvenCells' # ProvenCells
    <2>1. PICK c \in Cells : Proven(c)' /\ ~ Proven(c)
      BY <1>2, <1>3 DEF ProvenCells
    <2>2. c = cur /\ verdict' = verdict
      BY <2>1, ProvenNow DEF Rest
    <2>3. ProvenCells' = ProvenCells \cup {cur} /\ cur \notin ProvenCells
      BY <1>2, <2>1, <2>2, ProvenNow DEF ProvenCells
    <2>4. Promise!Prove(cur)
      BY <1>1, <2>1, <2>2, <2>3 DEF Promise!Prove, ProvenCells
    <2> QED
      BY <1>0, <2>1, <2>2, <2>4 DEF Promise!Next
  <1>4. CASE ProvenCells' = ProvenCells /\ Reports
    <2>1. PICK v \in Verdicts \ {"none"} :
             cur \in Cells /\ verdict' = [verdict EXCEPT ![cur] = v]
      BY <1>4 DEF Reports, Report
    <2>2. v = "PASS" => cur \in ProvenCells
      <3>1. v = "PASS" => verdict'[cur] = "PASS"
        BY <1>0, <2>1
      <3>2. verdict'[cur] = "PASS" => cur \in ProvenCells'
        BY <2>1 DEF HInv, Evidence, PassIsEarned, ProvenCells
      <3> QED
        BY <1>4, <3>1, <3>2
    <2>3. Promise!Decide(cur, v)
      BY <1>1, <1>4, <2>1, <2>2 DEF Promise!Decide, ProvenCells
    <2> QED
      BY <1>0, <2>1, <2>3 DEF Promise!Next, Verdicts
  <1>5. CASE ProvenCells' = ProvenCells /\ ~ Reports
    <2>1. verdict' = verdict
      BY <1>0, <1>5, NextEffect, MainEffect
         DEF Elsewhere, Rest, Watches, BeginCell, StopSession
    <2> QED
      BY <1>5, <2>1 DEF Promise!vars, ProvenCells
  <1> QED
    BY <1>3, <1>4, <1>5

\* Under the same assumptions the run implements CellVerdicts: every step
\* decides the next cell, adds the evidence for it, or does neither.
THEOREM RunImplementsVerdicts ==
    ASSUME Lingering = {}, CrashProne = {}
    PROVE  Spec => RunKeepsPromise
  <1>1. Init => Promise!Init
    <2> SUFFICES ASSUME Init PROVE Promise!Init
      OBVIOUS
    <2>1. arrived = {} /\ verdict = [c \in 1 .. NumCells |-> "none"]
      BY RunAssumption DEF Init, WInit
    <2> QED
      BY <2>1 DEF Promise!Init, Proven
  <1>2. HInv /\ HInv' /\ [Next]_vars => [Promise!Next]_(Promise!vars)
    BY RunStepsKeepPromise
  <1> QED
    BY <1>1, <1>2, HonestInit, HonestKept, PTL DEF Spec, RunKeepsPromise, Promise!Spec
=============================================================================
