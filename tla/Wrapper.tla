------------------------------ MODULE Wrapper ------------------------------
(***************************************************************************)
(* The wrapper services of one session (src/wrappers/base.py).  A wrapper   *)
(* is a gRPC server with ONE worker thread: it takes ExecuteOperation calls *)
(* in FIFO order and owns at most one server and one client CLI process     *)
(* (openssl s_server, gnutls-cli, ...), the PEM files it staged in /tmp and *)
(* the right to delete the session ticket of the session's root directory.  *)
(*                                                                          *)
(* Handlers that sleep or poll (ESTABLISH, TRANSMIT) are split where they   *)
(* block; CLOSE runs in one step.  Whoever calls is left open here: Next    *)
(* lets every thread issue any request, InteropDriver restricts it.         *)
(***************************************************************************)
EXTENDS Naturals, Sequences, FiniteSets

CONSTANTS
    Backends,     \* wrapper processes (openssl, gnutls, nss)
    Cells,        \* matrix cells; also names the cell's worker thread
    Main,         \* the thread that runs the matrix
    CellServer,   \* [Cells -> Backends]: who serves the cell ...
    CellClient,   \* ... and who is its client
    PemBackends,  \* backends that accept an inline certificate and key
    Unsupported,  \* <<c, r>>: role r's backend cannot express cell c's config
    TicketBound,  \* backends whose client exits when the ticket file is missing
    CrashProne,   \* wrappers that may crash
    NoProc, NoCell, NoRequest

Roles    == {"server", "client"}
Kinds    == {"server", "client", "save", "resume"}
RoleOf(kind) == IF kind = "server" THEN "server" ELSE "client"

\* A CLI process, named by the cell and the ESTABLISH that starts it.
Procs    == [cell : Cells, kind : Kinds]
Proc(c, kind) == [cell |-> c, kind |-> kind]
Servers  == {p \in Procs : p.kind = "server"}
Clients  == Procs \ Servers
HostOf(p) == IF p.kind = "server" THEN CellServer[p.cell] ELSE CellClient[p.cell]

Threads  == Cells \cup {Main}
Requests == [from : Threads, cell : Cells, kind : Kinds,
             op : {"ESTABLISH", "TRANSMIT", "CLOSE"}]
Request(t, c, op, kind) == [from |-> t, cell |-> c, kind |-> kind, op |-> op]

\* FAILURE stands for FAILURE and ERROR, which the driver treats alike.
Statuses == {"none", "SUCCESS", "SKIP", "FAILURE", "UNAVAILABLE"}
Replies  == [status : Statuses, echo : SUBSET Clients]
Result(status) == [status |-> status, echo |-> {}]
NoReply  == Result("none")

ASSUME WrapperAssumption ==
    /\ CellServer \in [Cells -> Backends]
    /\ CellClient \in [Cells -> Backends]
    /\ PemBackends \subseteq Backends
    /\ TicketBound \subseteq Backends
    /\ CrashProne \subseteq Backends
    /\ Unsupported \subseteq Cells \X Roles
    /\ Main \notin Cells
    /\ NoProc \notin Procs
    /\ NoCell \notin Cells
    /\ NoRequest \notin Requests

VARIABLES
    status,    \* wrapper process: up, crashed, or stopped by the session
    rpcs,      \* per wrapper: queue of requests, the head is being served
    phase,     \* where the handler of the head is blocked
    hosted,    \* server_proc and client_proc of each wrapper
    pem,       \* cells whose staged PEM pair the wrapper still tracks
    rooted,    \* _session_artifact_repo_root is set
    life,      \* CLI processes: unborn, starting, up, exited
    peer,      \* server process a client has completed a handshake with
    inflight,  \* clients with a payload on stdin that no server printed yet
    unread,    \* clients whose payload is in a server's unread stdout
    arrived,   \* history: clients whose payload reached their peer
    ticket,    \* owner of the session.ticket file, or NoCell
    saved,     \* history: cells whose ticket was written
    waiting,   \* request each thread is blocked on
    reply      \* answer to that request

wrapperMem == <<hosted, pem, rooted>>
cli        == <<life, peer, inflight, unread, arrived, saved>>
wvars == <<status, rpcs, phase, wrapperMem, cli, ticket, waiting, reply>>

-----------------------------------------------------------------------------
Live(p) == life[p] \in {"starting", "up"}

\* Something accepts TCP connections on the TLS port of backend b.
PortOpen(b) == \E q \in Servers : CellServer[q.cell] = b /\ life[q] = "up"

WInit ==
    /\ status = [w \in Backends |-> "up"]
    /\ rpcs = [w \in Backends |-> <<>>]
    /\ phase = [w \in Backends |-> "idle"]
    /\ hosted = [w \in Backends |-> [r \in Roles |-> NoProc]]
    /\ pem = [w \in Backends |-> {}]
    /\ rooted = [w \in Backends |-> FALSE]
    /\ life = [p \in Procs |-> "unborn"]
    /\ peer = [p \in Clients |-> NoProc]
    /\ inflight = {}
    /\ unread = [q \in Servers |-> {}]
    /\ arrived = {}
    /\ ticket = NoCell
    /\ saved = {}
    /\ waiting = [t \in Threads |-> NoRequest]
    /\ reply = [t \in Threads |-> NoReply]

-----------------------------------------------------------------------------
(* The gRPC channel: a blocking stub call, and giving up on it.             *)

Target(rq) == HostOf(Proc(rq.cell, rq.kind))

\* Stub.ExecuteOperation(rq): t blocks on the reply; any earlier call of t is
\* answered or abandoned.  A wrapper that is gone fails the call at once.
Call(rq) ==
    /\ waiting' = [waiting EXCEPT ![rq.from] = rq]
    /\ IF status[Target(rq)] = "up"
         THEN /\ rpcs' = [rpcs EXCEPT ![Target(rq)] = Append(@, rq)]
              /\ reply' = [reply EXCEPT ![rq.from] = NoReply]
         ELSE /\ reply' = [reply EXCEPT ![rq.from] = Result("UNAVAILABLE")]
              /\ UNCHANGED rpcs
    /\ UNCHANGED <<status, phase, wrapperMem, cli, ticket>>

\* t stops waiting: it has its answer, or its deadline expired.
Hangup(t) ==
    /\ waiting' = [waiting EXCEPT ![t] = NoRequest]
    /\ reply' = [reply EXCEPT ![t] = NoReply]
    /\ UNCHANGED <<status, rpcs, phase, wrapperMem, cli, ticket>>

Serving(w, op, ph) ==
    /\ status[w] = "up"
    /\ rpcs[w] # <<>>
    /\ Head(rpcs[w]).op = op
    /\ phase[w] = ph

\* The handler returns: the caller gets the result unless it gave up.
Answer(w, res) ==
    LET rq == Head(rpcs[w])
    IN  /\ rpcs' = [rpcs EXCEPT ![w] = Tail(@)]
        /\ phase' = [phase EXCEPT ![w] = "idle"]
        /\ reply' = IF waiting[rq.from] = rq
                      THEN [reply EXCEPT ![rq.from] = res]
                      ELSE reply
        /\ UNCHANGED <<status, waiting>>

\* gRPC may discard a queued call whose client has gone (it may also run it).
DropExpired(w) ==
    /\ status[w] = "up" /\ phase[w] = "idle"
    /\ rpcs[w] # <<>>
    /\ waiting[Head(rpcs[w]).from] # Head(rpcs[w])
    /\ rpcs' = [rpcs EXCEPT ![w] = Tail(@)]
    /\ UNCHANGED <<status, phase, wrapperMem, cli, ticket, waiting, reply>>

-----------------------------------------------------------------------------
(* ESTABLISH                                                                *)

\* Wrong variant: the None check of _terminate_process_hard is missing.
Killed_NoNoneCheck(S) ==
    [p \in Procs \cup S |-> IF p \in S THEN "exited" ELSE life[p]]

Killed(S) == [p \in Procs |-> IF p \in S THEN "exited" ELSE life[p]]

\* Wrong variant: both references are cleared although one process is killed.
Released_ForgetsBoth(w, r) == [hosted EXCEPT ![w] = [x \in Roles |-> NoProc]]

\* _release_{server,client}_before_establish: only the requested role's process.
Released(w, r) == [hosted EXCEPT ![w][r] = NoProc]

\* WrapperSkipError: answered SUCCESS with a "SKIP:" message.
EstablishSkips(w) ==
    /\ Serving(w, "ESTABLISH", "idle")
    /\ LET rq == Head(rpcs[w])
           r  == RoleOf(rq.kind)
       IN  /\ <<rq.cell, r>> \in Unsupported
           /\ life' = Killed({hosted[w][r]})
           /\ hosted' = Released(w, r)
    /\ Answer(w, Result("SKIP"))
    /\ UNCHANGED <<pem, rooted, peer, inflight, unread, arrived, saved, ticket>>

\* _ensure_cert_paths writes the inline pair before argv and Popen can fail.
StagesPem(w, rq) ==
    \E staged \in IF rq.kind = "server" /\ w \in PemBackends
                    THEN {{}, {rq.cell}} ELSE {{}} :
        pem' = [pem EXCEPT ![w] = @ \cup staged]

\* WrapperSetupError or an unexpected exception before a process runs.
EstablishSetupFails(w) ==
    /\ Serving(w, "ESTABLISH", "idle")
    /\ LET rq == Head(rpcs[w])
           r  == RoleOf(rq.kind)
       IN  /\ <<rq.cell, r>> \notin Unsupported
           /\ life' = Killed({hosted[w][r]})
           /\ hosted' = Released(w, r)
           /\ StagesPem(w, rq)
    /\ rooted' = [rooted EXCEPT ![w] = TRUE]
    /\ Answer(w, Result("FAILURE"))
    /\ UNCHANGED <<peer, inflight, unread, arrived, saved, ticket>>

\* Wrong variant: the release before ESTABLISH also runs _extra_cleanup.
EstablishStarts_FullCleanup(w) ==
    /\ Serving(w, "ESTABLISH", "idle")
    /\ LET rq == Head(rpcs[w])
           r  == RoleOf(rq.kind)
           p  == Proc(rq.cell, rq.kind)
       IN  /\ <<rq.cell, r>> \notin Unsupported
           /\ life' = [Killed({hosted[w][r]}) EXCEPT ![p] = "starting"]
           /\ hosted' = [hosted EXCEPT ![w][r] = p]
    /\ ticket' = NoCell
    /\ pem' = [pem EXCEPT ![w] = {}]
    /\ rooted' = [rooted EXCEPT ![w] = TRUE]
    /\ phase' = [phase EXCEPT ![w] = "polling"]
    /\ UNCHANGED <<status, rpcs, waiting, reply, peer, inflight, unread, arrived,
                   saved>>

\* Popen of p in role r, after the wrapper's former process of that role died.
Spawns(w, r, p) ==
    /\ life' = [Killed({hosted[w][r]}) EXCEPT ![p] = "starting"]
    /\ hosted' = [hosted EXCEPT ![w][r] = p]

\* The CLI process is started; the handler polls the TLS port.
EstablishStarts(w) ==
    /\ Serving(w, "ESTABLISH", "idle")
    /\ LET rq == Head(rpcs[w])
           r  == RoleOf(rq.kind)
           p  == Proc(rq.cell, rq.kind)
       IN  /\ <<rq.cell, r>> \notin Unsupported
           /\ Spawns(w, r, p)
           /\ StagesPem(w, rq)
           /\ inflight' = inflight \ {p}
           /\ IF r = "server"
                THEN unread' = [unread EXCEPT ![p] = {}] /\ UNCHANGED peer
                ELSE peer' = [peer EXCEPT ![p] = NoProc] /\ UNCHANGED unread
    /\ rooted' = [rooted EXCEPT ![w] = TRUE]
    /\ phase' = [phase EXCEPT ![w] = "polling"]
    /\ UNCHANGED <<status, rpcs, waiting, reply, arrived, saved, ticket>>

\* Client only: the peer's port accepts; output is collected for some seconds.
PeerReachable(w) ==
    /\ Serving(w, "ESTABLISH", "polling")
    /\ Head(rpcs[w]).kind # "server"
    /\ PortOpen(CellServer[Head(rpcs[w]).cell])
    /\ Live(Proc(Head(rpcs[w]).cell, Head(rpcs[w]).kind))
    /\ phase' = [phase EXCEPT ![w] = "collecting"]
    /\ UNCHANGED <<status, rpcs, wrapperMem, cli, ticket, waiting, reply>>

\* Stdout that the wrapper reads from its own server process is gone.
Drained(w) ==
    [q \in Servers |-> IF q = hosted[w]["server"] THEN {} ELSE unread[q]]

\* Wrong variant: the poll for the port has no limit of its own.
EstablishGivesUp_NoLimit(w) ==
    /\ Serving(w, "ESTABLISH", "polling")
    /\ ~ Live(Proc(Head(rpcs[w]).cell, Head(rpcs[w]).kind))
    /\ unread' = IF Head(rpcs[w]).kind = "server" THEN Drained(w) ELSE unread
    /\ Answer(w, Result("FAILURE"))
    /\ UNCHANGED <<wrapperMem, life, peer, inflight, arrived, saved, ticket>>

\* The poll ends because the process exited or 30 s went by.
EstablishGivesUp(w) ==
    /\ Serving(w, "ESTABLISH", "polling")
    /\ LET rq == Head(rpcs[w])
       IN  \/ ~ Live(Proc(rq.cell, rq.kind))
           \/ ~ PortOpen(CellServer[rq.cell])
    /\ unread' = IF Head(rpcs[w]).kind = "server" THEN Drained(w) ELSE unread
    /\ Answer(w, Result("FAILURE"))
    /\ UNCHANGED <<wrapperMem, life, peer, inflight, arrived, saved, ticket>>

ServerEstablishes(w) ==
    /\ Serving(w, "ESTABLISH", "polling")
    /\ Head(rpcs[w]).kind = "server"
    /\ Live(Proc(Head(rpcs[w]).cell, "server"))
    /\ PortOpen(w)
    /\ unread' = Drained(w)
    /\ Answer(w, Result("SUCCESS"))
    /\ UNCHANGED <<wrapperMem, life, peer, inflight, arrived, saved, ticket>>

\* A client that is still running counts as connected, whether or not its
\* handshake has completed; an exited one, or a failure marker in the merged
\* output, as failed.
ClientEstablishes(w) ==
    /\ Serving(w, "ESTABLISH", "collecting")
    /\ LET p == Proc(Head(rpcs[w]).cell, Head(rpcs[w]).kind)
       IN  \/ Live(p) /\ Answer(w, Result("SUCCESS"))
           \/ Answer(w, Result("FAILURE"))
    /\ unread' = Drained(w)
    /\ UNCHANGED <<wrapperMem, life, peer, inflight, arrived, saved, ticket>>

-----------------------------------------------------------------------------
(* TRANSMIT and CLOSE                                                       *)

TransmitTarget(w) == hosted[w][RoleOf(Head(rpcs[w]).kind)]
Running(w) == TransmitTarget(w) # NoProc /\ Live(TransmitTarget(w))

\* No process, or it has exited (its last output goes into the logs).
TransmitRejected(w) ==
    /\ Serving(w, "TRANSMIT", "idle")
    /\ ~ Running(w)
    /\ unread' = IF RoleOf(Head(rpcs[w]).kind) = "server" THEN Drained(w) ELSE unread
    /\ Answer(w, Result("FAILURE"))
    /\ UNCHANGED <<wrapperMem, life, peer, inflight, arrived, saved, ticket>>

\* The client's TRANSMIT carries the payload, the server's only reads.
TransmitWrites(w) ==
    /\ Serving(w, "TRANSMIT", "idle")
    /\ Running(w)
    /\ inflight' = IF RoleOf(Head(rpcs[w]).kind) = "client"
                     THEN inflight \cup {TransmitTarget(w)} ELSE inflight
    /\ phase' = [phase EXCEPT ![w] = "reading"]
    /\ UNCHANGED <<status, rpcs, wrapperMem, life, peer, unread, arrived,
                   saved, ticket, waiting, reply>>

TransmitReads(w) ==
    /\ Serving(w, "TRANSMIT", "reading")
    /\ IF RoleOf(Head(rpcs[w]).kind) = "server"
         THEN /\ Answer(w, [status |-> "SUCCESS",
                            echo   |-> unread[TransmitTarget(w)]])
              /\ unread' = Drained(w)
         ELSE /\ Answer(w, Result("SUCCESS"))
              /\ UNCHANGED unread
    /\ UNCHANGED <<wrapperMem, life, peer, inflight, arrived, saved, ticket>>

\* _cleanup: whatever role the request names, BOTH processes die.
Close(w) ==
    /\ Serving(w, "CLOSE", "idle")
    /\ life' = Killed({hosted[w][r] : r \in Roles})
    /\ hosted' = [hosted EXCEPT ![w] = [r \in Roles |-> NoProc]]
    /\ pem' = [pem EXCEPT ![w] = {}]
    /\ ticket' = IF rooted[w] THEN NoCell ELSE ticket
    /\ Answer(w, Result("SUCCESS"))
    /\ UNCHANGED <<rooted, peer, inflight, unread, arrived, saved>>

Handle(w) ==
    \/ EstablishSkips(w)    \/ EstablishSetupFails(w) \/ EstablishStarts(w)
    \/ PeerReachable(w)     \/ EstablishGivesUp(w)
    \/ ServerEstablishes(w) \/ ClientEstablishes(w)
    \/ TransmitRejected(w)  \/ TransmitWrites(w)      \/ TransmitReads(w)
    \/ Close(w)             \/ DropExpired(w)

-----------------------------------------------------------------------------
(* A wrapper dies (crash) or is stopped (killpg); its callers see it.       *)

Orphaned(W) ==
    {t \in Threads : reply[t] = NoReply /\ \E w \in W :
        \E i \in DOMAIN rpcs[w] : rpcs[w][i] = waiting[t]}

WrappersGone(W, how) ==
    /\ status' = [w \in Backends |-> IF w \in W THEN how ELSE status[w]]
    /\ rpcs' = [w \in Backends |-> IF w \in W THEN <<>> ELSE rpcs[w]]
    /\ phase' = [w \in Backends |-> IF w \in W THEN "idle" ELSE phase[w]]
    /\ hosted' = [w \in Backends |->
                    IF w \in W THEN [r \in Roles |-> NoProc] ELSE hosted[w]]
    /\ reply' = [t \in Threads |-> IF t \in Orphaned(W)
                                     THEN Result("UNAVAILABLE") ELSE reply[t]]
    /\ UNCHANGED <<pem, rooted, peer, inflight, unread, arrived, saved,
                   ticket, waiting>>

\* The CLI children of a crashed wrapper keep running.
Crash(w) ==
    /\ w \in CrashProne
    /\ status[w] = "up"
    /\ WrappersGone({w}, "crashed")
    /\ UNCHANGED life

\* Wrong variant: only the wrapper is signalled, not its process group.
StopAll_WrapperOnly ==
    /\ WrappersGone({w \in Backends : status[w] = "up"}, "stopped")
    /\ UNCHANGED life

\* WrapperSession.stop: the process group of every wrapper that still runs is
\* killed, CLI children included; an already exited wrapper is skipped.
StopAll ==
    LET W == {w \in Backends : status[w] = "up"}
    IN  /\ WrappersGone(W, "stopped")
        /\ life' = [p \in Procs |-> IF HostOf(p) \in W /\ Live(p)
                                      THEN "exited" ELSE life[p]]

-----------------------------------------------------------------------------
(* CLI processes (external programs, seen through what base.py observes).   *)

Listens(p) ==
    /\ p \in Servers
    /\ life[p] = "starting"
    /\ ~ PortOpen(HostOf(p))
    /\ life' = [life EXCEPT ![p] = "up"]
    /\ UNCHANGED <<status, rpcs, phase, wrapperMem, peer, inflight, unread,
                   arrived, saved, ticket, waiting, reply>>

\* -sess_in of a missing file is fatal; the GnuTLS hook ignores one.
NeedsTicket(p) == p.kind = "resume" /\ HostOf(p) \in TicketBound

\* A client completes a handshake with whichever server owns the port.
Handshakes(p) ==
    /\ p \in Clients
    /\ life[p] = "starting"
    /\ NeedsTicket(p) => ticket # NoCell
    /\ \E q \in Servers :
         /\ CellServer[q.cell] = CellServer[p.cell]
         /\ life[q] = "up"
         /\ peer' = [peer EXCEPT ![p] = q]
    /\ life' = [life EXCEPT ![p] = "up"]
    /\ UNCHANGED <<status, rpcs, phase, wrapperMem, inflight, unread, arrived,
                   saved, ticket, waiting, reply>>

\* The save client writes session.ticket when a NewSessionTicket arrives.
SavesTicket(p) ==
    /\ p \in Clients /\ p.kind = "save"
    /\ life[p] = "up" /\ life[peer[p]] = "up"
    /\ ticket' = p.cell
    /\ saved' = saved \cup {p.cell}
    /\ UNCHANGED <<status, rpcs, phase, wrapperMem, life, peer, inflight,
                   unread, arrived, waiting, reply>>

\* A payload on a connected client's stdin is printed by its server.
Delivers(p) ==
    /\ p \in inflight
    /\ life[p] = "up" /\ life[peer[p]] = "up"
    /\ inflight' = inflight \ {p}
    /\ unread' = [unread EXCEPT ![peer[p]] = @ \cup {p}]
    /\ arrived' = arrived \cup {p}
    /\ UNCHANGED <<status, rpcs, phase, wrapperMem, life, peer, saved,
                   ticket, waiting, reply>>

Exits(p) ==
    /\ Live(p)
    /\ life' = [life EXCEPT ![p] = "exited"]
    /\ UNCHANGED <<status, rpcs, phase, wrapperMem, peer, inflight, unread,
                   arrived, saved, ticket, waiting, reply>>

CliStep(p) ==
    Listens(p) \/ Handshakes(p) \/ SavesTicket(p) \/ Delivers(p) \/ Exits(p)

-----------------------------------------------------------------------------
\* Any thread may issue any request, in any order, once it is free.
AnyCall(t) ==
    /\ waiting[t] = NoRequest \/ reply[t] # NoReply
    /\ \E rq \in Requests : rq.from = t /\ Call(rq)

WNext ==
    \/ \E t \in Threads : AnyCall(t) \/ Hangup(t)
    \/ \E w \in Backends : Handle(w) \/ Crash(w)
    \/ StopAll
    \/ \E p \in Procs : CliStep(p)

WSpec == WInit /\ [][WNext]_wvars

-----------------------------------------------------------------------------
(* Type invariant of the wrapper processes, their files and their callers.  *)
WTypeOK ==
    /\ status \in [Backends -> {"up", "crashed", "stopped"}]
    /\ rpcs \in [Backends -> Seq(Requests)]
    /\ phase \in [Backends -> {"idle", "polling", "collecting", "reading"}]
    /\ hosted \in [Backends -> [Roles -> Procs \cup {NoProc}]]
    /\ pem \in [Backends -> SUBSET Cells]
    /\ rooted \in [Backends -> BOOLEAN]
    /\ life \in [Procs -> {"unborn", "starting", "up", "exited"}]
    /\ peer \in [Clients -> Servers \cup {NoProc}]
    /\ inflight \subseteq Clients
    /\ unread \in [Servers -> SUBSET Clients]
    /\ arrived \subseteq Clients
    /\ ticket \in Cells \cup {NoCell}
    /\ saved \subseteq Cells
    /\ waiting \in [Threads -> Requests \cup {NoRequest}]
    /\ reply \in [Threads -> Replies]

(* Every running CLI process of a wrapper that is up is the one the wrapper *)
(* holds in server_proc or client_proc, so the next CLOSE or ESTABLISH of   *)
(* that role kills it: no order of requests, failures and exits makes       *)
(* base.py lose a process it started.                                       *)
NoOrphan ==
    \A p \in Procs : Live(p) /\ status[HostOf(p)] = "up" =>
        hosted[HostOf(p)][RoleOf(p.kind)] = p
=============================================================================
