-------------------------- MODULE InteropRunProofs --------------------------
(***************************************************************************)
(* For every set of wrappers, every matrix and every choice of slow cells,  *)
(* lingering workers and crashing wrappers: TypeOK, NoOrphan and            *)
(* OwnerWillClose hold in every state of InteropRun.                        *)
(*                                                                          *)
(* CellInv is the invariant of the wrappers and of the cells' workers; it   *)
(* adds to WInv that a worker's request is queued only while that worker is *)
(* blocked on it.  MainInOrder keeps the watchdog from starting a worker    *)
(* twice.                                                                   *)
(***************************************************************************)
EXTENDS InteropRun, WrapperProofs

RpcSteps == EstablishSteps \cup {"tx_client", "tx_server"} \cup CloseSteps

\* The worker of c is blocked on just that request.
InStep(c, rq) ==
    /\ wpc[c] \in RpcSteps
    /\ rq = RpcOf(c, wpc[c])
    /\ waiting[c] = rq
    /\ reply[c] = NoReply

\* A queued request is an emergency CLOSE of the watchdog, or the only one of
\* a worker that is blocked on it.
EntryInStep(w, i) ==
    /\ rpcs[w][i].from = Main => rpcs[w][i].op = "CLOSE"
    /\ rpcs[w][i].from \in Cells =>
          /\ InStep(rpcs[w][i].from, rpcs[w][i])
          /\ \A j \in DOMAIN rpcs[w] : rpcs[w][j].from = rpcs[w][i].from => j = i

QueuesInStep == \A w \in Backends : \A i \in DOMAIN rpcs[w] : EntryInStep(w, i)

CellInv == WInv /\ DTypeOK /\ QueuesInStep /\ OwnerWillClose

MainTypeOK ==
    /\ mpc \in MainSteps
    /\ cur \in 1 .. NumCells + 1
    /\ verdict \in [Cells -> Verdicts]

\* The watchdog works on an existing cell; later workers have not started.
MainInOrder ==
    /\ mpc \notin {"next", "stopped"} => cur \in Cells
    /\ \A c \in Cells : c > cur \/ (c = cur /\ mpc = "next") => wpc[c] = "idle"

RInv == CellInv /\ MainTypeOK /\ MainInOrder

-----------------------------------------------------------------------------
(* Requests of the workers                                                  *)

LEMMA RpcFacts ==
    ASSUME NEW c \in Cells, NEW pc \in RpcSteps
    PROVE  /\ RpcOf(c, pc) \in Requests
           /\ RpcOf(c, pc).from = c
           /\ RpcOf(c, pc).cell = c
           /\ RpcOf(c, pc).op = "ESTABLISH" <=> pc \in EstablishSteps
           /\ RpcOf(c, pc).op = "CLOSE" <=> pc \in CloseSteps
           /\ pc = "close_server" => Target(RpcOf(c, pc)) = CellServer[c]
           /\ pc = "close_client" => Target(RpcOf(c, pc)) = CellClient[c]
           /\ pc # "wait_tcp" /\ pc \in WorkerSteps
  BY DEF RpcSteps, RpcOf, Request, Requests, StepOp, StepKind, EstablishSteps, CloseSteps,
         Kinds, Threads, Target, HostOf, Proc, WorkerSteps, TestSteps, RoundTripSteps

\* What is known of the worker whose request is queued at w.
LEMMA SenderFacts ==
    ASSUME CellInv, NEW w \in Backends, NEW i \in DOMAIN rpcs[w], rpcs[w][i].from # Main
    PROVE  LET c == rpcs[w][i].from IN
           /\ c \in Cells
           /\ InStep(c, rpcs[w][i])
           /\ rpcs[w][i].cell = c
           /\ rpcs[w][i].op = "ESTABLISH" <=> wpc[c] \in EstablishSteps
           /\ rpcs[w][i].op = "CLOSE" <=> wpc[c] \in CloseSteps
           /\ wpc[c] = "close_server" => CellServer[c] = w
           /\ wpc[c] = "close_client" => CellClient[c] = w
  <1>1. rpcs[w][i] \in Requests /\ Target(rpcs[w][i]) = w
    BY DEF CellInv, WInv, WTypeOK, QueuedOnTarget
  <1>2. rpcs[w][i].from \in Cells
    BY <1>1, RequestFacts DEF Threads
  <1>3. InStep(rpcs[w][i].from, rpcs[w][i])
    BY <1>2 DEF CellInv, QueuesInStep, EntryInStep
  <1>4. wpc[rpcs[w][i].from] \in RpcSteps /\ rpcs[w][i] = RpcOf(rpcs[w][i].from, wpc[rpcs[w][i].from])
    BY <1>3 DEF InStep
  <1> QED
    BY <1>1, <1>2, <1>3, <1>4, RpcFacts

\* A worker with an answer, or at no RPC, has nothing queued.
LEMMA NothingQueued ==
    ASSUME CellInv, NEW c \in Cells, wpc[c] \notin RpcSteps \/ reply[c] # NoReply
    PROVE  \A w \in Backends : \A i \in DOMAIN rpcs[w] : rpcs[w][i].from # c
  <1> SUFFICES ASSUME NEW w \in Backends, NEW i \in DOMAIN rpcs[w], rpcs[w][i].from = c
               PROVE  FALSE
    OBVIOUS
  <1>1. InStep(c, rpcs[w][i])
    BY DEF CellInv, QueuesInStep, EntryInStep
  <1> QED
    BY <1>1 DEF InStep

\* All requests of one worker are on one queue.
LEMMA OneQueue ==
    ASSUME CellInv, NEW c \in Cells,
           NEW v \in Backends, NEW i \in DOMAIN rpcs[v], rpcs[v][i].from = c,
           NEW w \in Backends, NEW j \in DOMAIN rpcs[w], rpcs[w][j].from = c
    PROVE  v = w /\ i = j
  <1>1. InStep(c, rpcs[v][i]) /\ InStep(c, rpcs[w][j])
    BY DEF CellInv, QueuesInStep, EntryInStep
  <1>2. rpcs[v][i] = rpcs[w][j]
    BY <1>1 DEF InStep
  <1>3. v = w
    BY <1>2 DEF CellInv, WInv, QueuedOnTarget
  <1> QED
    BY <1>3 DEF CellInv, QueuesInStep, EntryInStep

-----------------------------------------------------------------------------
(* Steps that leave queues, callers and workers alone                       *)

LEMMA QuietKeepsQueues ==
    ASSUME CellInv, UNCHANGED <<rpcs, waiting, reply, wpc>>
    PROVE  QueuesInStep'
  BY DEF CellInv, QueuesInStep, EntryInStep, InStep, RpcOf, Request, StepOp, StepKind

\* ... and bring no process to life and stage no file.
LEMMA QuietKeepsOwners ==
    ASSUME CellInv, UNCHANGED <<reply, wpc, pem, status>>,
           \A p \in Procs : Live(p)' => Live(p)
    PROVE  OwnerWillClose'
  BY DEF CellInv, OwnerWillClose, ClosePending

-----------------------------------------------------------------------------
(* The worker                                                               *)

\* A worker that has nothing queued asks its next question.
LEMMA AskKeepsQueues ==
    ASSUME CellInv, NEW c \in Cells, NEW pc \in RpcSteps, Ask(c, pc),
           wpc[c] \notin RpcSteps \/ reply[c] # NoReply
    PROVE  QueuesInStep'
  <1> DEFINE rq == RpcOf(c, pc)
  <1>1. /\ rq \in Requests /\ rq.from = c
        /\ Call(rq) /\ wpc' = [wpc EXCEPT ![c] = pc] /\ WInv
    BY RpcFacts DEF Ask, CellInv
  <1>2. wpc' = [wpc EXCEPT ![c] = pc] /\ wpc'[c] = pc /\ rq = RpcOf(c, pc)
    BY <1>1 DEF CellInv, DTypeOK
  <1> HIDE DEF rq
  <1>3. /\ waiting' = [waiting EXCEPT ![c] = rq]
        /\ \A t \in Threads \ {c} : reply'[t] = reply[t]
        /\ reply'[c] = IF status[Target(rq)] = "up" THEN NoReply ELSE Result("UNAVAILABLE")
    BY <1>1, CallFacts
  <1>4. \A v \in Backends : \A i \in DOMAIN rpcs'[v] :
           \/ i \in DOMAIN rpcs[v] /\ rpcs'[v][i] = rpcs[v][i]
           \/ /\ v = Target(rq) /\ status[v] = "up"
              /\ i = Len(rpcs[v]) + 1 /\ rpcs'[v][i] = rq
    BY <1>1, CallFacts
  <1>5. \A v \in Backends : \A i \in DOMAIN rpcs[v] : rpcs[v][i].from # c
    BY NothingQueued
  <1>6. waiting \in [Threads -> Requests \cup {NoRequest}] /\ c \in Threads
    BY DEF CellInv, WInv, WTypeOK, Threads
  <1> SUFFICES ASSUME NEW v \in Backends, NEW i \in DOMAIN rpcs'[v]
               PROVE  EntryInStep(v, i)'
    BY DEF QueuesInStep
  <1>7. ASSUME i \in DOMAIN rpcs[v], rpcs'[v][i] = rpcs[v][i]
        PROVE  EntryInStep(v, i)'
    <2>1. PICK x \in Requests : x = rpcs[v][i]
      BY <1>7 DEF CellInv, WInv, WTypeOK
    <2>2. EntryInStep(v, i)
      BY <1>7 DEF CellInv, QueuesInStep, EntryInStep
    <2>3. ASSUME x.from \in Cells
          PROVE  /\ InStep(x.from, x)'
                 /\ \A j \in DOMAIN rpcs'[v] : rpcs'[v][j].from = x.from => j = i
      <3>1. x.from # c /\ x.from \in Threads
        BY <1>5, <1>7, <2>1, <2>3 DEF Threads
      <3>2. /\ InStep(x.from, x)
            /\ \A j \in DOMAIN rpcs[v] : rpcs[v][j].from = x.from => j = i
        BY <2>1, <2>2, <2>3 DEF EntryInStep
      <3>3. /\ wpc'[x.from] = wpc[x.from] /\ waiting'[x.from] = waiting[x.from]
            /\ reply'[x.from] = reply[x.from]
        BY <1>2, <1>3, <1>6, <2>3, <3>1 DEF CellInv, DTypeOK
      <3>4. InStep(x.from, x)'
        BY <3>2, <3>3 DEF InStep, RpcOf, Request, StepOp, StepKind
      <3> QED
        BY <1>1, <1>4, <3>1, <3>2, <3>4
    <2> QED
      BY <1>7, <2>1, <2>2, <2>3 DEF EntryInStep
  <1>8. ASSUME v = Target(rq), status[v] = "up", i = Len(rpcs[v]) + 1, rpcs'[v][i] = rq
        PROVE  EntryInStep(v, i)'
    <2>1. InStep(c, rq)'
      BY <1>2, <1>3, <1>6, <1>8 DEF InStep
    <2>2. \A j \in DOMAIN rpcs'[v] : rpcs'[v][j].from = c => j = i
      BY <1>4, <1>5, <1>8
    <2> QED
      BY <1>1, <1>8, <2>1, <2>2, WrapperAssumption DEF EntryInStep
  <1> QED
    BY <1>4, <1>7, <1>8

\* Asking for a CLOSE fails at once only if that wrapper is gone.
LEMMA AskKeepsOwners ==
    ASSUME CellInv, NEW c \in Cells, NEW pc \in RpcSteps, Ask(c, pc),
           \/ pc \in TestSteps
           \/ pc = "close_server" /\ wpc[c] \in TestSteps
           \/ pc = "close_client" /\ wpc[c] = "close_server" /\ reply[c] # NoReply
    PROVE  OwnerWillClose'
  <1> DEFINE rq == RpcOf(c, pc)
  <1>1. /\ rq \in Requests /\ rq.from = c
        /\ pc = "close_server" => Target(rq) = CellServer[c]
        /\ pc = "close_client" => Target(rq) = CellClient[c]
        /\ Call(rq) /\ wpc' = [wpc EXCEPT ![c] = pc] /\ WInv
    BY RpcFacts DEF Ask, CellInv
  <1>2. wpc'[c] = pc /\ \A d \in Cells \ {c} : wpc'[d] = wpc[d]
    BY <1>1 DEF CellInv, DTypeOK
  <1> HIDE DEF rq
  <1>3. /\ UNCHANGED <<status, phase, wrapperMem, cli, ticket>>
        /\ \A t \in Threads \ {c} : reply'[t] = reply[t]
        /\ reply'[c] = IF status[Target(rq)] = "up" THEN NoReply ELSE Result("UNAVAILABLE")
    BY <1>1, CallFacts
  <1>4. status' = status /\ pem' = pem /\ life' = life
    BY <1>3 DEF wrapperMem, cli
  <1>5. \A d \in Cells \ {c}, r \in Roles : ClosePending(d, r) => ClosePending(d, r)'
    BY <1>2, <1>3 DEF ClosePending, Threads
  <1>6. ASSUME NEW r \in Roles, ClosePending(c, r), pc \notin TestSteps,
               status[IF r = "server" THEN CellServer[c] ELSE CellClient[c]] = "up"
        PROVE  ClosePending(c, r)'
    BY <1>1, <1>2, <1>3, <1>6 DEF ClosePending, TestSteps, RoundTripSteps, EstablishSteps, Roles
  <1>7. ASSUME NEW r \in Roles, pc \in TestSteps
        PROVE  ClosePending(c, r)'
    BY <1>2, <1>7 DEF ClosePending
  <1>8. ASSUME NEW w \in Backends, status[w] = "up",
               NEW p \in Procs, Live(p), HostOf(p) = w
        PROVE  ClosePending(p.cell, RoleOf(p.kind))'
    <2>1. ClosePending(p.cell, RoleOf(p.kind)) /\ p.cell \in Cells /\ RoleOf(p.kind) \in Roles
      BY <1>8, ProcFacts DEF CellInv, OwnerWillClose
    <2>2. w = IF RoleOf(p.kind) = "server" THEN CellServer[p.cell] ELSE CellClient[p.cell]
      BY <1>8 DEF HostOf, RoleOf
    <2> QED
      BY <1>5, <1>6, <1>7, <1>8, <2>1, <2>2
  <1>9. ASSUME NEW w \in Backends, status[w] = "up", NEW d \in pem[w]
        PROVE  ClosePending(d, "server")'
    <2>1. ClosePending(d, "server") /\ d \in Cells /\ CellServer[d] = w /\ "server" \in Roles
      BY <1>9 DEF CellInv, OwnerWillClose, WInv, WTypeOK, PemInPlace, Roles
    <2> QED
      BY <1>5, <1>6, <1>7, <1>9, <2>1
  <1> QED
    BY <1>4, <1>8, <1>9 DEF OwnerWillClose, Live

LEMMA AskKeepsCellInv ==
    ASSUME CellInv, NEW c \in Cells, NEW pc \in RpcSteps, Ask(c, pc),
           wpc[c] \notin RpcSteps \/ reply[c] # NoReply,
           \/ pc \in TestSteps
           \/ pc = "close_server" /\ wpc[c] \in TestSteps
           \/ pc = "close_client" /\ wpc[c] = "close_server" /\ reply[c] # NoReply,
           result' \in [Cells -> {"none", "ok", "notok", "exc"}],
           skipped' \subseteq Cells
    PROVE  CellInv'
  <1>1. RpcOf(c, pc) \in Requests /\ pc \in WorkerSteps
    BY RpcFacts
  <1>2. WInv'
    BY <1>1, CallKeepsWInv DEF CellInv, Ask
  <1>3. DTypeOK'
    BY <1>1 DEF CellInv, DTypeOK, Ask
  <1>4. QueuesInStep' /\ OwnerWillClose'
    BY AskKeepsQueues, AskKeepsOwners
  <1> QED
    BY <1>2, <1>3, <1>4 DEF CellInv

\* A worker hangs up: it goes on to poll the port, or it is done.
LEMMA WorkerHangsUp ==
    ASSUME CellInv, NEW c \in Cells, Hangup(c), reply[c] # NoReply,
           NEW pc \in WorkerSteps, wpc' = [wpc EXCEPT ![c] = pc],
           \/ pc = "wait_tcp"
           \/ pc = "done" /\ wpc[c] = "close_client",
           UNCHANGED <<result, skipped>>
    PROVE  CellInv'
  <1>1. WInv'
    BY HangupKeepsWInv DEF CellInv, Threads
  <1>2. DTypeOK'
    BY DEF CellInv, DTypeOK
  <1>3. /\ \A d \in Cells \ {c} : wpc'[d] = wpc[d] /\ waiting'[d] = waiting[d]
                                  /\ reply'[d] = reply[d]
        /\ wpc'[c] = pc
        /\ UNCHANGED <<rpcs, status, pem, life>>
    BY DEF CellInv, DTypeOK, WInv, WTypeOK, Hangup, Threads, wrapperMem, cli
  <1>4. QueuesInStep'
    <2>1. \A w \in Backends : \A i \in DOMAIN rpcs[w] : rpcs[w][i].from # c
      BY NothingQueued
    <2> SUFFICES ASSUME NEW w \in Backends, NEW i \in DOMAIN rpcs[w]
                 PROVE  EntryInStep(w, i)'
      BY <1>3 DEF QueuesInStep
    <2>2. EntryInStep(w, i)
      BY DEF CellInv, QueuesInStep
    <2> QED
      BY <1>3, <2>1, <2>2 DEF EntryInStep, InStep, RpcOf, Request, StepOp, StepKind
  <1>5. OwnerWillClose'
    <2>1. \A d \in Cells, r \in Roles : ClosePending(d, r) => ClosePending(d, r)'
      BY <1>3 DEF ClosePending, TestSteps, RoundTripSteps, EstablishSteps
    <2>2. \A p \in Procs : p.cell \in Cells /\ RoleOf(p.kind) \in Roles
      BY ProcFacts
    <2>3. "server" \in Roles /\ \A w \in Backends : pem[w] \subseteq Cells
      BY DEF Roles, CellInv, WInv, WTypeOK
    <2> QED
      BY <1>3, <2>1, <2>2, <2>3 DEF CellInv, OwnerWillClose, Live
  <1> QED
    BY <1>1, <1>2, <1>4, <1>5 DEF CellInv

\* What the control state says about a worker with an answer.
LEMMA StepFacts ==
    /\ TestSteps \subseteq WorkerSteps /\ CloseSteps \subseteq WorkerSteps
    /\ EstablishSteps \subseteq RpcSteps /\ EstablishSteps \subseteq TestSteps
    /\ "close_server" \in RpcSteps /\ "close_client" \in RpcSteps
    /\ "tx_client" \in RpcSteps \cap TestSteps /\ "tx_server" \in RpcSteps \cap TestSteps
    /\ "est_server" \in RpcSteps \cap TestSteps /\ "est_save" \in RpcSteps \cap TestSteps
    /\ "est_resume" \in RpcSteps \cap TestSteps /\ "est_client" \in RpcSteps \cap TestSteps
    /\ "wait_tcp" \in TestSteps \ RpcSteps
    /\ "idle" \in WorkerSteps \ RpcSteps /\ "done" \in WorkerSteps \ RpcSteps
  BY DEF TestSteps, WorkerSteps, CloseSteps, EstablishSteps, RpcSteps, RoundTripSteps

LEMMA AnsweredFacts ==
    ASSUME NEW c \in Cells, NEW pc, NEW s \in Statuses \ {"none"}, At(c, pc, s)
    PROVE  wpc[c] = pc /\ reply[c] # NoReply
  BY DEF At, NoReply, Result, Statuses

\* The worker goes on with its test.
LEMMA WorkerProceeds ==
    ASSUME CellInv, NEW c \in Cells, NEW pc \in RpcSteps \cap TestSteps, Ask(c, pc),
           wpc[c] \notin RpcSteps \/ reply[c] # NoReply,
           UNCHANGED <<result, skipped>>
    PROVE  CellInv'
  <1>1. /\ result' \in [Cells -> {"none", "ok", "notok", "exc"}]
        /\ skipped' \subseteq Cells
    BY DEF CellInv, DTypeOK
  <1> QED
    BY <1>1, AskKeepsCellInv

\* The worker enters `finally`.
LEMMA WorkerConcludes ==
    ASSUME CellInv, NEW c \in Cells, NEW res \in {"ok", "notok", "exc"}, Conclude(c, res),
           wpc[c] \in TestSteps, wpc[c] = "wait_tcp" \/ reply[c] # NoReply,
           skipped' \subseteq Cells
    PROVE  CellInv'
  <1>1. /\ result' \in [Cells -> {"none", "ok", "notok", "exc"}]
        /\ Ask(c, "close_server")
    BY DEF CellInv, DTypeOK, Conclude
  <1> QED
    BY <1>1, StepFacts, AskKeepsCellInv

LEMMA WorkerStepKeepsCellInv ==
    ASSUME CellInv, NEW c \in Cells, WorkerStep(c)
    PROVE  CellInv'
  <1>1. CASE ServerEstablished(c)
    BY <1>1, AnsweredFacts, StepFacts, WorkerProceeds DEF ServerEstablished, Statuses
  <1>2. CASE SessionSaved(c)
    BY <1>2, AnsweredFacts, StepFacts, WorkerProceeds DEF SessionSaved, Statuses
  <1>3. CASE ClientEstablished(c)
    <2>1. reply[c] # NoReply
      BY <1>3, AnsweredFacts DEF ClientEstablished, Statuses
    <2>2. "wait_tcp" \in WorkerSteps
      BY StepFacts
    <2> QED
      BY <1>3, <2>1, <2>2, WorkerHangsUp DEF ClientEstablished
  <1>4. CASE HrrAssertionFails(c)
    <2>1. reply[c] # NoReply /\ wpc[c] \in TestSteps
      BY <1>4, AnsweredFacts, StepFacts DEF HrrAssertionFails, Statuses
    <2> QED
      BY <1>4, <2>1, WorkerConcludes DEF HrrAssertionFails, CellInv, DTypeOK
  <1>5. CASE PeerAccepts(c)
    BY <1>5, StepFacts, WorkerProceeds DEF PeerAccepts
  <1>6. CASE PeerSilent(c)
    BY <1>6, StepFacts, WorkerConcludes DEF PeerSilent, CellInv, DTypeOK
  <1>7. CASE ClientTransmitted(c)
    BY <1>7, AnsweredFacts, StepFacts, WorkerProceeds DEF ClientTransmitted, Statuses
  <1>8. CASE ServerTransmitted(c)
    <2>1. reply[c] # NoReply /\ wpc[c] \in TestSteps
      BY <1>8, AnsweredFacts, StepFacts DEF ServerTransmitted, Statuses
    <2> QED
      BY <1>8, <2>1, WorkerConcludes DEF ServerTransmitted, CellInv, DTypeOK
  <1>9. CASE StepFails(c)
    <2>1. reply[c] # NoReply
      BY <1>9 DEF StepFails, NoReply, Result
    <2>2. skipped' \subseteq Cells
      BY <1>9 DEF StepFails, CellInv, DTypeOK
    <2> QED
      BY <1>9, <2>1, <2>2, WorkerConcludes DEF StepFails
  <1>10. CASE StepRaises(c)
    <2>1. reply[c] # NoReply
      BY <1>10 DEF StepRaises, NoReply, Result
    <2> QED
      BY <1>10, <2>1, WorkerConcludes DEF StepRaises, CellInv, DTypeOK
  <1>11. CASE ServerClosed(c)
    <2>1. /\ result' \in [Cells -> {"none", "ok", "notok", "exc"}]
          /\ skipped' \subseteq Cells
      BY <1>11 DEF ServerClosed, CellInv, DTypeOK
    <2> QED
      BY <1>11, <2>1, StepFacts, AskKeepsCellInv DEF ServerClosed
  <1>12. CASE ClientClosed(c)
    BY <1>12, StepFacts, WorkerHangsUp DEF ClientClosed
  <1> QED
    BY <1>1, <1>2, <1>3, <1>4, <1>5, <1>6, <1>7, <1>8, <1>9, <1>10, <1>11, <1>12
       DEF WorkerStep

-----------------------------------------------------------------------------
(* The watchdog's own calls                                                 *)

LEMMA MainCallKeepsCellInv ==
    ASSUME CellInv, NEW c \in Cells, NEW k \in {"server", "client"},
           Call(Request(Main, c, "CLOSE", k)), UNCHANGED dvars
    PROVE  CellInv'
  <1> DEFINE rq == Request(Main, c, "CLOSE", k)
  <1>1. rq \in Requests /\ rq.from = Main /\ rq.op = "CLOSE" /\ Call(rq) /\ WInv
    BY DEF Request, Requests, Threads, Kinds, CellInv
  <1> HIDE DEF rq
  <1>2. WInv' /\ DTypeOK'
    BY <1>1, CallKeepsWInv DEF CellInv, DTypeOK, dvars
  <1>3. /\ waiting' = [waiting EXCEPT ![Main] = rq]
        /\ UNCHANGED <<status, phase, wrapperMem, cli, ticket>>
        /\ \A t \in Threads \ {Main} : reply'[t] = reply[t]
        /\ \A v \in Backends : \A i \in DOMAIN rpcs'[v] :
             \/ i \in DOMAIN rpcs[v] /\ rpcs'[v][i] = rpcs[v][i]
             \/ /\ v = Target(rq) /\ status[v] = "up"
                /\ i = Len(rpcs[v]) + 1 /\ rpcs'[v][i] = rq
    BY <1>1, CallFacts
  <1>4. \A d \in Cells : wpc'[d] = wpc[d] /\ waiting'[d] = waiting[d] /\ reply'[d] = reply[d]
    BY <1>3, WrapperAssumption DEF Threads, CellInv, WInv, WTypeOK, dvars
  <1>5. QueuesInStep'
    <2> SUFFICES ASSUME NEW v \in Backends, NEW i \in DOMAIN rpcs'[v]
                 PROVE  EntryInStep(v, i)'
      BY DEF QueuesInStep
    <2>1. CASE i \in DOMAIN rpcs[v] /\ rpcs'[v][i] = rpcs[v][i]
      <3>1. EntryInStep(v, i)
        BY <2>1 DEF CellInv, QueuesInStep
      <3> QED
        BY <1>1, <1>3, <1>4, <2>1, <3>1, WrapperAssumption
           DEF EntryInStep, InStep, RpcOf, Request, StepOp, StepKind
    <2>2. CASE rpcs'[v][i] = rq
      BY <1>1, <2>2, WrapperAssumption DEF EntryInStep
    <2> QED
      BY <1>3, <2>1, <2>2
  <1>6. OwnerWillClose'
    <2>1. \A d \in Cells, r \in Roles : ClosePending(d, r) => ClosePending(d, r)'
      BY <1>4 DEF ClosePending
    <2>2. \A p \in Procs : p.cell \in Cells /\ RoleOf(p.kind) \in Roles
      BY ProcFacts
    <2>3. "server" \in Roles /\ \A w \in Backends : pem[w] \subseteq Cells
      BY DEF Roles, CellInv, WInv, WTypeOK
    <2> QED
      BY <1>3, <2>1, <2>2, <2>3 DEF CellInv, OwnerWillClose, Live, wrapperMem, cli
  <1> QED
    BY <1>2, <1>5, <1>6 DEF CellInv

LEMMA MainHangsUp ==
    ASSUME CellInv, Hangup(Main), UNCHANGED dvars
    PROVE  CellInv'
  <1>1. WInv' /\ DTypeOK'
    BY HangupKeepsWInv DEF CellInv, DTypeOK, dvars, Threads
  <1>2. /\ \A d \in Cells : wpc'[d] = wpc[d] /\ waiting'[d] = waiting[d] /\ reply'[d] = reply[d]
        /\ UNCHANGED <<rpcs, status, pem, life>>
    BY WrapperAssumption DEF Hangup, Threads, CellInv, WInv, WTypeOK, dvars, wrapperMem, cli
  <1>3. QueuesInStep'
    <2> SUFFICES ASSUME NEW v \in Backends, NEW i \in DOMAIN rpcs[v]
                 PROVE  EntryInStep(v, i)'
      BY <1>2 DEF QueuesInStep
    <2>1. EntryInStep(v, i)
      BY DEF CellInv, QueuesInStep
    <2> QED
      BY <1>2, <2>1 DEF EntryInStep, InStep, RpcOf, Request, StepOp, StepKind
  <1>4. OwnerWillClose'
    <2>1. \A d \in Cells, r \in Roles : ClosePending(d, r) => ClosePending(d, r)'
      BY <1>2 DEF ClosePending
    <2>2. \A p \in Procs : p.cell \in Cells /\ RoleOf(p.kind) \in Roles
      BY ProcFacts
    <2>3. "server" \in Roles /\ \A w \in Backends : pem[w] \subseteq Cells
      BY DEF Roles, CellInv, WInv, WTypeOK
    <2> QED
      BY <1>2, <2>1, <2>2, <2>3 DEF CellInv, OwnerWillClose, Live
  <1> QED
    BY <1>1, <1>3, <1>4 DEF CellInv

-----------------------------------------------------------------------------
(* The wrappers answer                                                      *)

\* After an answer the others are still blocked on what they have queued.
LEMMA AnswerKeepsQueues ==
    ASSUME CellInv, UNCHANGED dvars, NEW w \in Backends, rpcs[w] # <<>>,
           rpcs' = [rpcs EXCEPT ![w] = Tail(rpcs[w])], waiting' = waiting,
           reply' \in [Threads -> Replies],
           \A t \in Threads : t # Head(rpcs[w]).from => reply'[t] = reply[t]
    PROVE  QueuesInStep'
  <1>1. rpcs[w] \in Seq(Requests) /\ rpcs \in [Backends -> Seq(Requests)]
    BY DEF CellInv, WInv, WTypeOK
  <1>2. /\ Head(rpcs[w]) = rpcs[w][1] /\ 1 \in DOMAIN rpcs[w]
        /\ \A i \in DOMAIN Tail(rpcs[w]) :
              i + 1 \in DOMAIN rpcs[w] /\ Tail(rpcs[w])[i] = rpcs[w][i + 1]
        /\ \A i \in DOMAIN Tail(rpcs[w]) : i \in Nat \ {0}
    BY <1>1, QueueHead
  <1>3. \A v \in Backends : rpcs'[v] = IF v = w THEN Tail(rpcs[w]) ELSE rpcs[v]
    BY <1>1
  <1> SUFFICES ASSUME NEW v \in Backends, NEW i \in DOMAIN rpcs'[v]
               PROVE  EntryInStep(v, i)'
    BY DEF QueuesInStep
  <1>4. PICK k \in DOMAIN rpcs[v] : /\ rpcs'[v][i] = rpcs[v][k]
                                    /\ v = w => k = i + 1 /\ k # 1
                                    /\ v # w => k = i
    <2>1. CASE v # w
      BY <1>3, <2>1
    <2>2. CASE v = w
      <3>1. i \in DOMAIN Tail(rpcs[w]) /\ rpcs'[v][i] = Tail(rpcs[w])[i]
        BY <1>3, <2>2
      <3>2. /\ i + 1 \in DOMAIN rpcs[v] /\ rpcs'[v][i] = rpcs[v][i + 1]
            /\ i + 1 # 1
        BY <1>2, <2>2, <3>1
      <3> QED
        BY <2>2, <3>2
    <2> QED
      BY <2>1, <2>2
  <1>5. EntryInStep(v, k) /\ rpcs[v][k] \in Requests
    BY <1>1, <1>4 DEF CellInv, QueuesInStep
  <1>6. ASSUME rpcs[v][k].from \in Cells
        PROVE  rpcs[v][k].from # Head(rpcs[w]).from
    BY <1>2, <1>4, <1>6, OneQueue
  <1>7. PICK x \in Requests : x = rpcs[v][k]
    BY <1>5
  <1>8. ASSUME x.from \in Cells
        PROVE  InStep(x.from, x)' /\ \A j \in DOMAIN rpcs'[v] : rpcs'[v][j].from = x.from => j = i
    <2>1. InStep(x.from, x) /\ \A j \in DOMAIN rpcs[v] : rpcs[v][j].from = x.from => j = k
      BY <1>5, <1>7, <1>8 DEF EntryInStep
    <2>2. reply'[x.from] = reply[x.from]
      BY <1>6, <1>7, <1>8 DEF Threads
    <2>3. InStep(x.from, x)'
      BY <2>1, <2>2 DEF InStep, RpcOf, Request, StepOp, StepKind, dvars
    <2>4. \A j \in DOMAIN rpcs'[v] : rpcs'[v][j].from = x.from => j = i
      BY <1>2, <1>3, <1>4, <2>1
    <2> QED
      BY <2>3, <2>4
  <1> QED
    BY <1>4, <1>5, <1>7, <1>8 DEF EntryInStep

\* The answer changes at most the reply of the caller.
LEMMA AnswerReplies ==
    ASSUME CellInv, NEW w \in Backends, rpcs[w] # <<>>, NEW res, Answer(w, res)
    PROVE  /\ rpcs' = [rpcs EXCEPT ![w] = Tail(rpcs[w])]
           /\ waiting' = waiting /\ status' = status
           /\ \A t \in Threads : t # Head(rpcs[w]).from => reply'[t] = reply[t]
           /\ Head(rpcs[w]) = rpcs[w][1] /\ 1 \in DOMAIN rpcs[w]
  <1>1. rpcs[w] \in Seq(Requests) /\ reply \in [Threads -> Replies]
    BY DEF CellInv, WInv, WTypeOK
  <1> QED
    BY <1>1, QueueHead DEF Answer

\* An ESTABLISH or TRANSMIT is never answered to a worker that is closing.
LEMMA TestAnswerKeepsPending ==
    ASSUME CellInv, UNCHANGED dvars, NEW w \in Backends, rpcs[w] # <<>>,
           Head(rpcs[w]).op # "CLOSE",
           NEW res, Answer(w, res)
    PROVE  \A c \in Cells, r \in Roles : ClosePending(c, r) => ClosePending(c, r)'
  <1>1. /\ \A t \in Threads : t # Head(rpcs[w]).from => reply'[t] = reply[t]
        /\ Head(rpcs[w]) = rpcs[w][1] /\ 1 \in DOMAIN rpcs[w]
    BY AnswerReplies
  <1>2. Head(rpcs[w]).from # Main
    BY <1>1 DEF CellInv, QueuesInStep, EntryInStep
  <1>3. wpc[Head(rpcs[w]).from] \notin CloseSteps
    BY <1>1, <1>2, SenderFacts
  <1> QED
    BY <1>1, <1>3 DEF ClosePending, CloseSteps, dvars, Threads

\* ... so that it keeps OwnerWillClose if it starts no process; the files it
\* stages are the caller's.
LEMMA TestAnswerKeepsOwners ==
    ASSUME CellInv, UNCHANGED dvars, NEW w \in Backends, rpcs[w] # <<>>,
           Head(rpcs[w]).op # "CLOSE",
           NEW res, Answer(w, res),
           \A p \in Procs : Live(p)' => Live(p),
           \A v \in Backends : \A c \in pem'[v] :
               c \in pem[v] \/ (c \in Cells /\ wpc[c] \in TestSteps)
    PROVE  OwnerWillClose'
  <1>1. \A c \in Cells, r \in Roles : ClosePending(c, r) => ClosePending(c, r)'
    BY TestAnswerKeepsPending
  <1>2. status' = status
    BY AnswerReplies
  <1>3. \A p \in Procs : p.cell \in Cells /\ RoleOf(p.kind) \in Roles
    BY ProcFacts
  <1>4. "server" \in Roles /\ \A v \in Backends : pem[v] \subseteq Cells
    BY DEF Roles, CellInv, WInv, WTypeOK
  <1>5. \A c \in Cells, r \in Roles : wpc[c] \in TestSteps => ClosePending(c, r)
    BY DEF ClosePending
  <1> QED
    BY <1>1, <1>2, <1>3, <1>4, <1>5 DEF CellInv, OwnerWillClose

\* The caller of an ESTABLISH is at that step of its test.
LEMMA EstablishCaller ==
    ASSUME CellInv, NEW w \in Backends, rpcs[w] # <<>>, Head(rpcs[w]).op = "ESTABLISH"
    PROVE  /\ Head(rpcs[w]).cell \in Cells
           /\ wpc[Head(rpcs[w]).cell] \in TestSteps
           /\ Head(rpcs[w]) \in Requests
           /\ Target(Head(rpcs[w])) = w
  <1>1. rpcs[w] \in Seq(Requests)
    BY DEF CellInv, WInv, WTypeOK
  <1>2. Head(rpcs[w]) = rpcs[w][1] /\ 1 \in DOMAIN rpcs[w]
    BY <1>1, QueueHead
  <1>3. Head(rpcs[w]).from # Main
    BY <1>2 DEF CellInv, QueuesInStep, EntryInStep
  <1> QED
    BY <1>2, <1>3, SenderFacts, StepFacts, HeadFacts DEF CellInv

\* The CLOSE a worker waits for leaves nothing it would still have to close.
LEMMA CloseKeepsOwners ==
    ASSUME CellInv, UNCHANGED dvars, NEW w \in Backends, Close(w)
    PROVE  OwnerWillClose'
  <1>1. /\ rpcs[w] # <<>> /\ Head(rpcs[w]).op = "CLOSE"
        /\ Answer(w, Result("SUCCESS"))
        /\ life' = Killed({hosted[w][r] : r \in Roles})
        /\ hosted' = [hosted EXCEPT ![w] = [r \in Roles |-> NoProc]]
        /\ pem' = [pem EXCEPT ![w] = {}]
    BY DEF Close, Serving
  <1>2. NoOrphan' /\ status' = status
    BY <1>1, CloseKeepsWInv, AnswerReplies DEF CellInv, WInv
  <1>3. /\ \A t \in Threads : t # Head(rpcs[w]).from => reply'[t] = reply[t]
        /\ Head(rpcs[w]) = rpcs[w][1] /\ 1 \in DOMAIN rpcs[w]
    BY <1>1, AnswerReplies
  <1>4. \A p \in Procs : Live(p)' => Live(p)
    BY <1>1 DEF Live, Killed
  <1>5. \A p \in Procs : Live(p)' /\ status[HostOf(p)] = "up" => HostOf(p) # w
    BY <1>1, <1>2, ProcFacts DEF NoOrphan, CellInv, WInv, WTypeOK
  <1>6. ASSUME NEW c \in Cells, NEW r \in Roles, ClosePending(c, r),
               w # IF r = "server" THEN CellServer[c] ELSE CellClient[c]
        PROVE  ClosePending(c, r)'
    <2>1. CASE Head(rpcs[w]).from # c
      BY <1>3, <1>6, <2>1 DEF ClosePending, dvars, Threads
    <2>2. CASE Head(rpcs[w]).from = c
      <3>1. /\ wpc[c] = "close_server" => CellServer[c] = w
            /\ wpc[c] = "close_client" => CellClient[c] = w
        BY <1>3, <2>2, SenderFacts, WrapperAssumption
      <3> QED
        BY <1>6, <3>1 DEF ClosePending, dvars, Roles
    <2> QED
      BY <2>1, <2>2
  <1>7. ASSUME NEW v \in Backends, status[v] = "up",
               NEW p \in Procs, Live(p)', HostOf(p) = v
        PROVE  ClosePending(p.cell, RoleOf(p.kind))'
    <2>1. ClosePending(p.cell, RoleOf(p.kind)) /\ p.cell \in Cells /\ RoleOf(p.kind) \in Roles
      BY <1>4, <1>7, ProcFacts DEF CellInv, OwnerWillClose
    <2>2. v # w /\ v = IF RoleOf(p.kind) = "server" THEN CellServer[p.cell] ELSE CellClient[p.cell]
      BY <1>5, <1>7 DEF HostOf, RoleOf
    <2> QED
      BY <1>6, <2>1, <2>2
  <1>8. ASSUME NEW v \in Backends, status[v] = "up", NEW c \in pem'[v]
        PROVE  ClosePending(c, "server")'
    <2>1. v # w /\ c \in pem[v]
      BY <1>1, <1>8 DEF CellInv, WInv, WTypeOK
    <2>2. ClosePending(c, "server") /\ c \in Cells /\ CellServer[c] = v /\ "server" \in Roles
      BY <1>8, <2>1 DEF CellInv, OwnerWillClose, WInv, WTypeOK, PemInPlace, Roles
    <2> QED
      BY <1>6, <2>1, <2>2
  <1> QED
    BY <1>2, <1>7, <1>8 DEF OwnerWillClose

\* ESTABLISH or TRANSMIT answers.
LEMMA TestAnswersKeepOwners ==
    ASSUME CellInv, UNCHANGED dvars, NEW w \in Backends,
           \/ EstablishSkips(w) \/ EstablishGivesUp(w) \/ ServerEstablishes(w)
           \/ ClientEstablishes(w) \/ TransmitRejected(w) \/ TransmitReads(w)
    PROVE  OwnerWillClose'
  <1>1. rpcs[w] # <<>> /\ Head(rpcs[w]).op # "CLOSE" /\ pem' = pem
    BY DEF EstablishSkips, EstablishGivesUp, ServerEstablishes, ClientEstablishes,
           TransmitRejected, TransmitReads, Serving, wrapperMem
  <1>2. \E res : Answer(w, res)
    BY DEF EstablishSkips, EstablishGivesUp, ServerEstablishes, ClientEstablishes,
           TransmitRejected, TransmitReads
  <1>3. \A p \in Procs : Live(p)' => Live(p)
    BY DEF EstablishSkips, EstablishGivesUp, ServerEstablishes, ClientEstablishes,
           TransmitRejected, TransmitReads, Live, Killed
  <1> QED
    BY <1>1, <1>2, <1>3, TestAnswerKeepsOwners

LEMMA EstablishSetupFailsKeepsOwners ==
    ASSUME CellInv, UNCHANGED dvars, NEW w \in Backends, EstablishSetupFails(w)
    PROVE  OwnerWillClose'
  <1> DEFINE rq == Head(rpcs[w])
  <1>1. /\ rpcs[w] # <<>> /\ rq.op = "ESTABLISH" /\ Answer(w, Result("FAILURE"))
        /\ StagesPem(w, rq)
        /\ life' = Killed({hosted[w][RoleOf(rq.kind)]})
    BY DEF EstablishSetupFails, Serving
  <1>2. \A p \in Procs : Live(p)' => Live(p)
    BY <1>1 DEF Live, Killed
  <1>3. rq.cell \in Cells /\ wpc[rq.cell] \in TestSteps
    BY <1>1, EstablishCaller
  <1>4. \A v \in Backends : \A c \in pem'[v] :
            c \in pem[v] \/ (c \in Cells /\ wpc[c] \in TestSteps)
    BY <1>1, <1>3 DEF StagesPem, CellInv, WInv, WTypeOK
  <1> QED
    BY <1>1, <1>2, <1>4, TestAnswerKeepsOwners

\* A process is started for a worker that has all of its CLOSEs ahead.
LEMMA EstablishStartsKeepsOwners ==
    ASSUME CellInv, UNCHANGED dvars, NEW w \in Backends, EstablishStarts(w)
    PROVE  OwnerWillClose'
  <1> DEFINE rq == Head(rpcs[w])
             r == RoleOf(rq.kind)
             p == Proc(rq.cell, rq.kind)
  <1>1. /\ rpcs[w] # <<>> /\ rq.op = "ESTABLISH"
        /\ StagesPem(w, rq) /\ Spawns(w, r, p)
        /\ UNCHANGED <<status, reply>>
    BY DEF EstablishStarts, Serving
  <1>2. rq.cell \in Cells /\ wpc[rq.cell] \in TestSteps
    BY <1>1, EstablishCaller
  <1>3. \A q \in Procs : Live(q)' => Live(q) \/ q.cell = rq.cell
    BY <1>1 DEF Spawns, Killed, Live, Proc
  <1>4. \A v \in Backends : \A c \in pem'[v] : c \in pem[v] \/ c = rq.cell
    BY <1>1 DEF StagesPem, CellInv, WInv, WTypeOK
  <1>5. \A c \in Cells, x \in Roles : /\ ClosePending(c, x) => ClosePending(c, x)'
                                      /\ c = rq.cell => ClosePending(c, x)'
    BY <1>1, <1>2 DEF ClosePending, dvars
  <1> HIDE DEF rq, r, p
  <1>6. \A q \in Procs : q.cell \in Cells /\ RoleOf(q.kind) \in Roles
    BY ProcFacts
  <1>7. "server" \in Roles /\ \A v \in Backends : pem[v] \subseteq Cells
    BY DEF Roles, CellInv, WInv, WTypeOK
  <1> QED
    BY <1>1, <1>2, <1>3, <1>4, <1>5, <1>6, <1>7 DEF CellInv, OwnerWillClose

LEMMA HandleKeepsQueues ==
    ASSUME CellInv, UNCHANGED dvars, NEW w \in Backends, Handle(w)
    PROVE  QueuesInStep'
  <1>1. CASE EstablishStarts(w) \/ PeerReachable(w) \/ TransmitWrites(w)
    <2>1. UNCHANGED <<rpcs, waiting, reply, wpc>>
      BY <1>1 DEF EstablishStarts, PeerReachable, TransmitWrites, dvars
    <2> QED
      BY <2>1, QuietKeepsQueues
  <1>2. CASE DropExpired(w)
    <2>1. /\ rpcs[w] # <<>> /\ rpcs' = [rpcs EXCEPT ![w] = Tail(rpcs[w])]
          /\ waiting' = waiting /\ reply' = reply
      BY <1>2 DEF DropExpired
    <2>2. reply' \in [Threads -> Replies]
      BY <2>1 DEF CellInv, WInv, WTypeOK
    <2> QED
      BY <2>1, <2>2, AnswerKeepsQueues
  <1>3. ASSUME NEW res, Answer(w, res), rpcs[w] # <<>>
        PROVE  QueuesInStep'
    <2>1. WInv'
      BY HandleKeepsWInv DEF CellInv
    <2>2. reply' \in [Threads -> Replies]
      BY <2>1 DEF WInv, WTypeOK
    <2> QED
      BY <1>3, <2>2, AnswerReplies, AnswerKeepsQueues
  <1>4. CASE \/ EstablishSkips(w) \/ EstablishSetupFails(w) \/ EstablishGivesUp(w)
             \/ ServerEstablishes(w) \/ ClientEstablishes(w)
             \/ TransmitRejected(w) \/ TransmitReads(w) \/ Close(w)
    <2>1. rpcs[w] # <<>> /\ \E res : Answer(w, res)
      BY <1>4 DEF EstablishSkips, EstablishSetupFails, EstablishGivesUp, ServerEstablishes,
                  ClientEstablishes, TransmitRejected, TransmitReads, Close, Serving
    <2> QED
      BY <1>3, <2>1
  <1> QED
    BY <1>1, <1>2, <1>4 DEF Handle

LEMMA HandleKeepsOwners ==
    ASSUME CellInv, UNCHANGED dvars, NEW w \in Backends, Handle(w)
    PROVE  OwnerWillClose'
  <1>1. CASE PeerReachable(w) \/ TransmitWrites(w) \/ DropExpired(w)
    <2>1. UNCHANGED <<reply, wpc, pem, status, life>>
      BY <1>1 DEF PeerReachable, TransmitWrites, DropExpired, dvars, wrapperMem, cli
    <2> QED
      BY <2>1, QuietKeepsOwners DEF Live
  <1> QED
    BY <1>1, EstablishStartsKeepsOwners, EstablishSetupFailsKeepsOwners,
       TestAnswersKeepOwners, CloseKeepsOwners DEF Handle

LEMMA HandleKeepsCellInv ==
    ASSUME CellInv, UNCHANGED dvars, NEW w \in Backends, Handle(w)
    PROVE  CellInv'
  <1>1. WInv' /\ DTypeOK'
    BY HandleKeepsWInv DEF CellInv, DTypeOK, dvars
  <1> QED
    BY <1>1, HandleKeepsQueues, HandleKeepsOwners DEF CellInv

-----------------------------------------------------------------------------
(* Wrappers that die, CLI processes, the ticket file                        *)

\* A caller that sees its wrapper die had its request queued there.
LEMMA OrphanFacts ==
    ASSUME CellInv, NEW W \in SUBSET Backends, NEW c \in Cells, c \in Orphaned(W)
    PROVE  \E w \in W : \E i \in DOMAIN rpcs[w] :
              rpcs[w][i] = waiting[c] /\ rpcs[w][i].from = c
  <1>1. PICK w \in W : \E i \in DOMAIN rpcs[w] : rpcs[w][i] = waiting[c]
    BY DEF Orphaned
  <1>2. PICK i \in DOMAIN rpcs[w] : rpcs[w][i] = waiting[c]
    BY <1>1
  <1>3. rpcs[w][i] \in Requests
    BY DEF CellInv, WInv, WTypeOK
  <1>4. waiting[c].from = c
    BY <1>2, <1>3, WrapperAssumption DEF CellInv, WInv, WaitsForOwn, Threads
  <1> QED
    BY <1>2, <1>4

LEMMA GoneKeepsCellInv ==
    ASSUME CellInv, UNCHANGED dvars, WInv',
           NEW W \in SUBSET Backends, NEW how \in {"crashed", "stopped"}, WrappersGone(W, how),
           \A p \in Procs : Live(p)' => Live(p)
    PROVE  CellInv'
  <1>1. /\ status' = [w \in Backends |-> IF w \in W THEN how ELSE status[w]]
        /\ rpcs' = [w \in Backends |-> IF w \in W THEN <<>> ELSE rpcs[w]]
        /\ reply' = [t \in Threads |-> IF t \in Orphaned(W)
                                         THEN Result("UNAVAILABLE") ELSE reply[t]]
        /\ UNCHANGED <<pem, waiting>>
    BY DEF WrappersGone
  <1>2. DTypeOK'
    BY DEF CellInv, DTypeOK, dvars
  <1>3. QueuesInStep'
    <2> SUFFICES ASSUME NEW v \in Backends, NEW i \in DOMAIN rpcs'[v]
                 PROVE  EntryInStep(v, i)'
      BY DEF QueuesInStep
    <2>1. v \notin W /\ rpcs'[v] = rpcs[v] /\ i \in DOMAIN rpcs[v]
      BY <1>1
    <2>2. EntryInStep(v, i)
      BY <2>1 DEF CellInv, QueuesInStep
    <2>3. PICK x \in Requests : x = rpcs[v][i]
      BY <2>1 DEF CellInv, WInv, WTypeOK
    <2>4. ASSUME x.from \in Cells
          PROVE  InStep(x.from, x)'
      <3>1. x.from \notin Orphaned(W)
        BY <2>1, <2>3, <2>4, OrphanFacts, OneQueue
      <3>2. InStep(x.from, x) /\ x.from \in Threads
        BY <2>2, <2>3, <2>4 DEF EntryInStep, Threads
      <3> QED
        BY <1>1, <3>1, <3>2 DEF InStep, RpcOf, Request, StepOp, StepKind, dvars
    <2> QED
      BY <2>1, <2>2, <2>3, <2>4 DEF EntryInStep
  <1>4. ASSUME NEW c \in Cells, NEW r \in Roles, ClosePending(c, r),
               (IF r = "server" THEN CellServer[c] ELSE CellClient[c]) \notin W
        PROVE  ClosePending(c, r)'
    <2>1. CASE c \notin Orphaned(W)
      BY <1>1, <1>4, <2>1 DEF ClosePending, dvars, Threads
    <2>2. CASE c \in Orphaned(W)
      <3>1. /\ wpc[c] = "close_server" => CellServer[c] \in W
            /\ wpc[c] = "close_client" => CellClient[c] \in W
        BY <2>2, OrphanFacts, SenderFacts, WrapperAssumption
      <3> QED
        BY <1>4, <3>1 DEF ClosePending, dvars, Roles
    <2> QED
      BY <2>1, <2>2
  <1>5. ASSUME NEW v \in Backends \ W, status[v] = "up", NEW p \in Procs, Live(p), HostOf(p) = v
        PROVE  ClosePending(p.cell, RoleOf(p.kind))'
    <2>1. ClosePending(p.cell, RoleOf(p.kind)) /\ p.cell \in Cells /\ RoleOf(p.kind) \in Roles
      BY <1>5, ProcFacts DEF CellInv, OwnerWillClose
    <2>2. v = IF RoleOf(p.kind) = "server" THEN CellServer[p.cell] ELSE CellClient[p.cell]
      BY <1>5 DEF HostOf, RoleOf
    <2> QED
      BY <1>4, <1>5, <2>1, <2>2
  <1>6. ASSUME NEW v \in Backends \ W, status[v] = "up", NEW c \in pem[v]
        PROVE  ClosePending(c, "server")'
    <2>1. ClosePending(c, "server") /\ c \in Cells /\ CellServer[c] = v /\ "server" \in Roles
      BY <1>6 DEF CellInv, OwnerWillClose, WInv, WTypeOK, PemInPlace, Roles
    <2> QED
      BY <1>4, <1>6, <2>1
  <1>7. OwnerWillClose'
    BY <1>1, <1>5, <1>6 DEF OwnerWillClose
  <1> QED
    BY <1>2, <1>3, <1>7 DEF CellInv

LEMMA CrashKeepsCellInv ==
    ASSUME CellInv, UNCHANGED dvars, NEW w \in Backends, Crash(w)
    PROVE  CellInv'
  <1>1. WrappersGone({w}, "crashed") /\ \A p \in Procs : Live(p)' => Live(p)
    BY DEF Crash, Live
  <1>2. WInv'
    BY CrashKeepsWInv DEF CellInv
  <1> QED
    BY <1>1, <1>2, GoneKeepsCellInv

LEMMA StopAllKeepsCellInv ==
    ASSUME CellInv, UNCHANGED dvars, StopAll
    PROVE  CellInv'
  <1> DEFINE W == {w \in Backends : status[w] = "up"}
  <1>1. WrappersGone(W, "stopped") /\ \A p \in Procs : Live(p)' => Live(p)
    BY DEF StopAll, Live
  <1>2. WInv'
    BY StopAllKeepsWInv DEF CellInv
  <1>3. W \in SUBSET Backends
    OBVIOUS
  <1> HIDE DEF W
  <1> QED
    BY <1>1, <1>2, <1>3, GoneKeepsCellInv

LEMMA CliStepKeepsCellInv ==
    ASSUME CellInv, UNCHANGED dvars, NEW p \in Procs, CliStep(p)
    PROVE  CellInv'
  <1>1. /\ UNCHANGED <<status, rpcs, phase, wrapperMem, waiting, reply>>
        /\ \A q \in Procs : Live(q)' => Live(q)
    BY CliStepFacts DEF CellInv
  <1>2. QueuesInStep' /\ OwnerWillClose'
    BY <1>1, QuietKeepsQueues, QuietKeepsOwners DEF dvars, wrapperMem
  <1>3. WInv' /\ DTypeOK'
    BY CliStepKeepsWInv DEF CellInv, DTypeOK, dvars
  <1> QED
    BY <1>2, <1>3 DEF CellInv

LEMMA RemoveArtifactsKeepsCellInv ==
    ASSUME CellInv, UNCHANGED dvars, RemoveArtifacts
    PROVE  CellInv'
  <1>1. /\ UNCHANGED <<status, rpcs, phase, wrapperMem, cli, waiting, reply>>
        /\ ticket' \in Cells \cup {NoCell}
    BY DEF RemoveArtifacts
  <1>2. WTypeOK'
    BY <1>1 DEF CellInv, WInv, WTypeOK, wrapperMem, cli
  <1>3. ReadsSomething' /\ HostedInPlace' /\ PemInPlace' /\ QueuedOnTarget' /\ WaitsForOwn'
    BY <1>1 DEF CellInv, WInv, ReadsSomething, HostedInPlace, PemInPlace, QueuedOnTarget,
                WaitsForOwn, TransmitTarget, Target, wrapperMem
  <1>4. NoOrphan'
    BY <1>1 DEF CellInv, WInv, NoOrphan, Live, wrapperMem, cli
  <1>5. QueuesInStep' /\ OwnerWillClose'
    BY <1>1, QuietKeepsQueues, QuietKeepsOwners DEF dvars, wrapperMem, cli, Live
  <1> QED
    BY <1>2, <1>3, <1>4, <1>5 DEF CellInv, WInv, DTypeOK, dvars

-----------------------------------------------------------------------------
(* The main thread                                                          *)

\* Reporting a cell moves on to the next one, whose worker is idle.
LEMMA ReportFacts ==
    ASSUME RInv, NEW v \in Verdicts, Report(v), UNCHANGED dvars,
           cur \in Cells, mpc # "stopped"
    PROVE  MainTypeOK' /\ MainInOrder'
  <1>1. cur \in 1 .. NumCells /\ NumCells \in Nat /\ Cells \subseteq Nat
    BY RunAssumption
  <1>2. MainTypeOK'
    BY <1>1 DEF RInv, MainTypeOK, Report, MainSteps
  <1>3. \A c \in Cells : c > cur' \/ (c = cur' /\ mpc' = "next") => c > cur
    BY <1>1 DEF Report
  <1>4. MainInOrder'
    BY <1>3 DEF RInv, MainInOrder, Report, dvars
  <1> QED
    BY <1>2, <1>4

\* The main thread stays with its cell.
LEMMA SameCellFacts ==
    ASSUME RInv, UNCHANGED <<wpc, cur, verdict>>, mpc # "next",
           mpc' \in MainSteps \ {"next"}, mpc # "stopped"
    PROVE  MainTypeOK' /\ MainInOrder'
  BY DEF RInv, MainTypeOK, MainInOrder

LEMMA MainStepKeepsRInv ==
    ASSUME RInv, MainStep
    PROVE  RInv'
  <1> USE DEF RInv
  <1>1. CASE SkipCell
    <2>1. cur \in Cells /\ mpc # "stopped" /\ "SKIP" \in Verdicts
      BY <1>1, RunAssumption DEF SkipCell, Verdicts
    <2>2. Report("SKIP") /\ UNCHANGED <<wvars, dvars>>
      BY <1>1 DEF SkipCell
    <2>3. WInv'
      BY <2>2, StutterKeepsWInv DEF CellInv
    <2>4. QueuesInStep' /\ OwnerWillClose'
      BY <2>2, QuietKeepsQueues, QuietKeepsOwners DEF wvars, dvars, wrapperMem, cli, Live
    <2>5. CellInv'
      BY <2>2, <2>3, <2>4 DEF CellInv, DTypeOK, dvars
    <2> QED
      BY <2>1, <2>2, <2>5, ReportFacts
  <1>2. CASE BeginCell
    <2>1. /\ cur \in Cells /\ mpc = "next" /\ mpc' = "joining" /\ UNCHANGED <<cur, verdict>>
          /\ Ask(cur, "est_server") /\ UNCHANGED <<result, skipped>>
      BY <1>2 DEF BeginCell, StartWorker
    <2>2. wpc[cur] = "idle" /\ wpc' = [wpc EXCEPT ![cur] = "est_server"]
      BY <2>1 DEF MainInOrder, Ask
    <2>3. CellInv'
      BY <2>1, <2>2, StepFacts, WorkerProceeds
    <2>4. MainTypeOK'
      BY <2>1 DEF MainTypeOK, MainSteps
    <2>5. MainInOrder'
      BY <2>1, <2>2, RunAssumption DEF MainInOrder, MainTypeOK, CellInv, DTypeOK
    <2> QED
      BY <2>3, <2>4, <2>5
  <1>3. CASE WorkerJoined
    <2>1. /\ mpc = "joining" /\ Report(Outcome(cur)) /\ RemoveArtifacts /\ UNCHANGED dvars
          /\ Outcome(cur) \in Verdicts
      BY <1>3 DEF WorkerJoined, Outcome, Verdicts
    <2>2. cur \in Cells
      BY <2>1 DEF MainInOrder
    <2> QED
      BY <2>1, <2>2, ReportFacts, RemoveArtifactsKeepsCellInv
  <1>4. CASE CellTimesOut
    <2>1. /\ mpc = "joining" /\ mpc' = "emergency_server" /\ UNCHANGED <<dvars, cur, verdict>>
          /\ Call(Request(Main, cur, "CLOSE", "server"))
      BY <1>4 DEF CellTimesOut
    <2>2. cur \in Cells
      BY <2>1 DEF MainInOrder
    <2>3. MainTypeOK' /\ MainInOrder'
      BY <2>1, SameCellFacts DEF MainSteps, dvars
    <2> QED
      BY <2>1, <2>2, <2>3, MainCallKeepsCellInv
  <1>5. CASE EmergencyCloseClient
    <2>1. /\ mpc = "emergency_server" /\ mpc' = "emergency_client"
          /\ UNCHANGED <<dvars, cur, verdict>>
          /\ Call(Request(Main, cur, "CLOSE", "client"))
      BY <1>5 DEF EmergencyCloseClient
    <2>2. cur \in Cells
      BY <2>1 DEF MainInOrder
    <2>3. MainTypeOK' /\ MainInOrder'
      BY <2>1, SameCellFacts DEF MainSteps, dvars
    <2> QED
      BY <2>1, <2>2, <2>3, MainCallKeepsCellInv
  <1>6. CASE EmergencyClosed
    <2>1. /\ mpc = "emergency_client" /\ mpc' = "joining_again"
          /\ UNCHANGED <<dvars, cur, verdict>> /\ Hangup(Main)
      BY <1>6 DEF EmergencyClosed
    <2>2. MainTypeOK' /\ MainInOrder'
      BY <2>1, SameCellFacts DEF MainSteps, dvars
    <2> QED
      BY <2>1, <2>2, MainHangsUp
  <1>7. CASE ReportTimeout
    <2>1. /\ mpc = "joining_again" /\ Report("TIMEOUT") /\ RemoveArtifacts /\ UNCHANGED dvars
          /\ "TIMEOUT" \in Verdicts
      BY <1>7 DEF ReportTimeout, Verdicts
    <2>2. cur \in Cells
      BY <2>1 DEF MainInOrder
    <2> QED
      BY <2>1, <2>2, ReportFacts, RemoveArtifactsKeepsCellInv
  <1>8. CASE StopSession
    <2>1. /\ mpc = "next" /\ mpc' = "stopped" /\ UNCHANGED <<dvars, cur, verdict>> /\ StopAll
      BY <1>8 DEF StopSession
    <2>2. MainTypeOK' /\ MainInOrder'
      BY <2>1 DEF MainTypeOK, MainSteps, MainInOrder, dvars
    <2> QED
      BY <2>1, <2>2, StopAllKeepsCellInv
  <1> QED
    BY <1>1, <1>2, <1>3, <1>4, <1>5, <1>6, <1>7, <1>8 DEF MainStep

\* Steps of the others leave the main thread alone; only a worker that has
\* begun takes a step.
LEMMA RestFacts ==
    ASSUME RInv, UNCHANGED Rest,
           \/ UNCHANGED dvars
           \/ \E c \in Cells : wpc[c] # "idle" /\ \A d \in Cells \ {c} : wpc'[d] = wpc[d]
    PROVE  MainTypeOK' /\ MainInOrder'
  BY DEF RInv, MainTypeOK, MainInOrder, Rest, dvars

LEMMA WorkerHasBegun ==
    ASSUME CellInv, NEW c \in Cells, WorkerStep(c)
    PROVE  wpc[c] # "idle" /\ \A d \in Cells \ {c} : wpc'[d] = wpc[d]
  BY DEF WorkerStep, ServerEstablished, SessionSaved, ClientEstablished, HrrAssertionFails,
         PeerAccepts, PeerSilent, ClientTransmitted, ServerTransmitted, StepFails,
         StepRaises, ServerClosed, ClientClosed, At, Ask, Conclude, TestSteps,
         EstablishSteps, RoundTripSteps, CellInv, DTypeOK

LEMMA NextKeepsRInv == RInv /\ [Next]_vars => RInv'
  <1> SUFFICES ASSUME RInv, [Next]_vars PROVE RInv'
    OBVIOUS
  <1> CellInv
    BY DEF RInv
  <1>1. CASE MainStep
    BY <1>1, MainStepKeepsRInv
  <1>2. CASE \E c \in Cells : WorkerStep(c) /\ UNCHANGED Rest
    BY <1>2, WorkerStepKeepsCellInv, WorkerHasBegun, RestFacts DEF RInv
  <1>3. CASE \E w \in Backends : (Handle(w) \/ Crash(w)) /\ UNCHANGED <<dvars, Rest>>
    BY <1>3, HandleKeepsCellInv, CrashKeepsCellInv, RestFacts DEF RInv
  <1>4. CASE \E p \in Procs : CliStep(p) /\ UNCHANGED <<dvars, Rest>>
    BY <1>4, CliStepKeepsCellInv, RestFacts DEF RInv
  <1>5. CASE UNCHANGED vars
    <2>1. UNCHANGED wvars /\ UNCHANGED dvars /\ UNCHANGED Rest
      BY <1>5 DEF vars, Rest
    <2>2. WInv' /\ DTypeOK'
      BY <2>1, StutterKeepsWInv DEF CellInv, DTypeOK, dvars
    <2>3. QueuesInStep' /\ OwnerWillClose'
      BY <2>1, QuietKeepsQueues, QuietKeepsOwners DEF wvars, dvars, wrapperMem, cli, Live
    <2> QED
      BY <2>1, <2>2, <2>3, RestFacts DEF CellInv, RInv
  <1> QED
    BY <1>1, <1>2, <1>3, <1>4, <1>5 DEF Next, Over

LEMMA InitRInv == Init => RInv
  <1> SUFFICES ASSUME Init PROVE RInv
    OBVIOUS
  <1>1. WInv
    BY InitWInv DEF Init
  <1>2. DTypeOK
    BY DEF Init, DInit, DTypeOK, WorkerSteps
  <1>3. QueuesInStep
    BY DEF Init, WInit, QueuesInStep
  <1>4. OwnerWillClose
    BY DEF Init, WInit, OwnerWillClose, Live
  <1>5. MainTypeOK
    BY RunAssumption DEF Init, MainTypeOK, MainSteps, Verdicts
  <1>6. MainInOrder
    BY RunAssumption DEF Init, DInit, MainInOrder
  <1> QED
    BY <1>1, <1>2, <1>3, <1>4, <1>5, <1>6 DEF RInv, CellInv

-----------------------------------------------------------------------------
(* The theorems                                                             *)

\* The run's state has its type.
THEOREM RunTypeCorrect == Spec => []TypeOK
  <1>1. RInv => TypeOK
    BY DEF RInv, CellInv, WInv, MainTypeOK, TypeOK
  <1> QED
    BY <1>1, InitRInv, NextKeepsRInv, PTL DEF Spec

\* The wrappers lose no process under the driver and its watchdog, either.
THEOREM RunLosesNoProcess == Spec => []NoOrphan
  <1>1. RInv => NoOrphan
    BY DEF RInv, CellInv, WInv
  <1> QED
    BY <1>1, InitRInv, NextKeepsRInv, PTL DEF Spec

\* A process or a staged key under a wrapper that is up is always one its own
\* worker will still close, although the watchdog may abandon that worker,
\* wrappers crash and requests queue behind each other.
THEOREM RunOwnersWillClose == Spec => []OwnerWillClose
  <1>1. RInv => OwnerWillClose
    BY DEF RInv, CellInv
  <1> QED
    BY <1>1, InitRInv, NextKeepsRInv, PTL DEF Spec
=============================================================================
