------------------------------ MODULE CellClock ------------------------------
(***************************************************************************)
(* One cell against the clock: the limits of the watchdog, of the driver's  *)
(* own waits (src/core/runner.py) and of the operations of a wrapper        *)
(* (src/wrappers/base.py), in seconds and rounded up.  InteropRun has the   *)
(* whole protocol without time, and takes which steps may outlast which     *)
(* limit as constants; here they follow from the numbers.                   *)
(*                                                                          *)
(* Every operation may end at any moment up to its limit.  What a wrapper   *)
(* does between its waits takes no time, except the start of a process.     *)
(***************************************************************************)
EXTENDS Naturals, Sequences, FiniteSets

CONSTANTS
    CellTimeout,   \* DEFAULT_CELL_TIMEOUT_S
    CloseDeadline, \* EMERGENCY_CLOSE_GRPC_S
    CleanupWait,   \* CELL_TIMEOUT_CLEANUP_WAIT_S
    TcpWait,       \* TCP_AFTER_ESTABLISH_S
    TcpReady,      \* TCP_READY_TIMEOUT_S of a wrapper
    SetupTime      \* what a wrapper needs to start a CLI process

ASSUME ClockAssumption ==
    {CellTimeout, CloseDeadline, CleanupWait, TcpWait, TcpReady, SetupTime} \subseteq Nat

VARIABLES
    oneWrapper,   \* both roles of the cell are on one wrapper
    resumes,      \* a resumption cell
    mpc, mleft,   \* the main thread, and the seconds left of its wait
    wpc, wleft,   \* the worker, and the seconds left of a wait of its own
    queue,        \* calls of each wrapper
    busy,         \* wrappers that are serving the first of theirs ...
    left,         \* ... and the seconds left for it
    live,         \* roles with a running CLI process
    verdict,
    expiredAt,    \* the worker's step when the watchdog expired
    failedAt      \* its step that failed

cell == <<oneWrapper, resumes>>
vars == <<cell, mpc, mleft, wpc, wleft, queue, busy, left, live, verdict, expiredAt, failedAt>>

Roles == {"server", "client"}
HostOf(role) == IF oneWrapper THEN "server" ELSE role
Hosts == {HostOf(r) : r \in Roles}

\* The call of a worker's step is named by the step, those of the watchdog alike.
RoleOf(call) ==
    IF call \in {"est_server", "tx_server", "close_server", "watchdog_server"}
    THEN "server" ELSE "client"
WatchdogCalls == {"watchdog_server", "watchdog_client"}
Establishes   == {"est_server", "est_client", "est_save", "est_resume"}
RoundTrip     == {"tx_client", "gap", "tx_server"}
Closes        == {"close_server", "close_client"}
OwnWaits      == {"wait_tcp", "gap"}

Enqueue(q, call) == [q EXCEPT ![HostOf(RoleOf(call))] = Append(@, call)]

Init ==
    /\ oneWrapper \in BOOLEAN /\ resumes \in BOOLEAN
    /\ mpc = "joining" /\ mleft = CellTimeout
    /\ wpc = "est_server" /\ wleft = 0
    /\ queue = Enqueue([w \in Hosts |-> <<>>], "est_server")
    /\ busy = {} /\ left = [w \in Hosts |-> 0]
    /\ live = {} /\ verdict = "none"
    /\ expiredAt = "none" /\ failedAt = "none"

-----------------------------------------------------------------------------
(* A wrapper                                                                *)

\* Wrong variant: each of the two waits for a process takes 5 s.
KillTime_Patient(roles) == 10 * Cardinality(live \cap roles)

\* SIGTERM and 3 s, then SIGKILL and 2 s, for each process.
KillTime(roles) == 5 * Cardinality(live \cap roles)

\* Wrong variant: a wrapper waits for its server as long as a cell may last.
Limit_ListenLonger(call, w) ==
    IF call = "est_server" THEN SetupTime + CellTimeout
    ELSE KillTime({r \in Roles : HostOf(r) = w})

\* The longest an operation of wrapper w takes, its waits rounded up.
Limit(call, w) ==
    CASE call = "est_server" -> KillTime({"server"}) + SetupTime + TcpReady + 1
      [] call \in Establishes \ {"est_server"} ->
             KillTime({"client"}) + SetupTime + TcpReady + 5
      [] call = "tx_client"  -> IF "client" \in live THEN 5 ELSE 0
      [] call = "tx_server"  -> IF "server" \in live THEN 6 ELSE 0
      [] OTHER               -> KillTime({r \in Roles : HostOf(r) = w})

Serve(w) ==
    /\ w \notin busy /\ queue[w] # <<>>
    /\ busy' = busy \cup {w}
    /\ left' = [left EXCEPT ![w] = Limit(Head(queue[w]), w)]
    /\ UNCHANGED <<mpc, mleft, wpc, wleft, queue, live, verdict, expiredAt, failedAt>>

\* The processes a call leaves behind; a failed ESTABLISH may leave one, too.
LiveAfter(call, w) ==
    CASE call \in Establishes -> {live, live \cup {RoleOf(call)}}
      [] call \in Closes \cup WatchdogCalls -> {live \ {r \in Roles : HostOf(r) = w}}
      [] OTHER -> {live}

-----------------------------------------------------------------------------
(* The worker                                                               *)

AfterStep ==
    [est_server |-> IF resumes THEN "est_save" ELSE "est_client",
     est_save |-> "est_resume", est_resume |-> "wait_tcp", est_client |-> "wait_tcp",
     wait_tcp |-> "tx_client", tx_client |-> "gap", gap |-> "tx_server",
     tx_server |-> "close_server", close_server |-> "close_client",
     close_client |-> "done"]

\* A step that fails goes to the CLOSEs of the finally clause.
WorkerGoesOn(ok) ==
    LET next == IF ok THEN AfterStep[wpc] ELSE "close_server" IN
    /\ wpc' = next
    /\ wleft' = CASE next = "wait_tcp" -> TcpWait + 1
                  [] next = "gap"      -> 1
                  [] OTHER             -> 0
    /\ failedAt' = IF ok THEN failedAt ELSE wpc

\* An operation ends, and its caller takes the answer at once.
Finish(w) ==
    /\ w \in busy
    /\ LET call == Head(queue[w])
           rest == [queue EXCEPT ![w] = Tail(@)]
       IN /\ live' \in LiveAfter(call, w)
          /\ busy' = busy \ {w} /\ left' = [left EXCEPT ![w] = 0]
          /\ \/ /\ call = wpc
                /\ \E ok \in IF call \in Closes THEN {TRUE} ELSE BOOLEAN : WorkerGoesOn(ok)
                /\ queue' = IF wpc' \in OwnWaits \cup {"done"} THEN rest
                            ELSE Enqueue(rest, wpc')
                /\ UNCHANGED <<mpc, mleft>>
             \/ /\ call \in WatchdogCalls
                /\ IF call = mpc /\ call = "watchdog_server"
                   THEN /\ mpc' = "watchdog_client" /\ mleft' = CloseDeadline
                        /\ queue' = Enqueue(rest, "watchdog_client")
                   ELSE IF call = mpc
                   THEN /\ mpc' = "joining_again" /\ mleft' = CleanupWait
                        /\ queue' = rest
                   ELSE UNCHANGED <<mpc, mleft>> /\ queue' = rest
                /\ UNCHANGED <<wpc, wleft, failedAt>>
    /\ UNCHANGED <<verdict, expiredAt>>

\* wait_tcp_connect, which fails when its time is over, and the pause between
\* the TRANSMITs.
OwnWaitOver ==
    /\ \/ wpc = "wait_tcp" /\ WorkerGoesOn(TRUE)
       \/ wpc = "wait_tcp" /\ wleft = 0 /\ WorkerGoesOn(FALSE)
       \/ wpc = "gap" /\ wleft = 0 /\ WorkerGoesOn(TRUE)
    /\ queue' = Enqueue(queue, wpc')
    /\ UNCHANGED <<mpc, mleft, busy, left, live, verdict, expiredAt>>

-----------------------------------------------------------------------------
(* The main thread                                                          *)

Joined ==
    /\ mpc = "joining" /\ wpc = "done"
    /\ mpc' = "reported" /\ verdict' = IF failedAt = "none" THEN "PASS" ELSE "FAIL"
    /\ UNCHANGED <<mleft, wpc, wleft, queue, busy, left, live, expiredAt, failedAt>>

Expires ==
    /\ mpc = "joining" /\ wpc # "done" /\ mleft = 0
    /\ mpc' = "watchdog_server" /\ mleft' = CloseDeadline
    /\ queue' = Enqueue(queue, "watchdog_server")
    /\ expiredAt' = wpc
    /\ UNCHANGED <<wpc, wleft, busy, left, live, verdict, failedAt>>

\* DEADLINE_EXCEEDED: a call that still waits may be dropped by the server.
Abandoned(call) ==
    LET w == HostOf(RoleOf(call)) IN
    {queue} \cup (IF Len(queue[w]) > 1 \/ w \notin busy
                  THEN {[queue EXCEPT ![w] = SelectSeq(@, LAMBDA c : c # call)]} ELSE {})

CloseExpires ==
    /\ mpc \in WatchdogCalls /\ mleft = 0
    /\ \E q \in Abandoned(mpc) :
         IF mpc = "watchdog_server"
         THEN /\ mpc' = "watchdog_client" /\ mleft' = CloseDeadline
              /\ queue' = Enqueue(q, "watchdog_client")
         ELSE /\ mpc' = "joining_again" /\ mleft' = CleanupWait
              /\ queue' = q
    /\ UNCHANGED <<wpc, wleft, busy, left, live, verdict, expiredAt, failedAt>>

\* Wrong variant: the worker is not waited for.
JoinedAgain_AtOnce ==
    /\ mpc = "joining_again"
    /\ mpc' = "reported" /\ verdict' = "TIMEOUT"
    /\ UNCHANGED <<mleft, wpc, wleft, queue, busy, left, live, expiredAt, failedAt>>

JoinedAgain ==
    /\ mpc = "joining_again" /\ (wpc = "done" \/ mleft = 0)
    /\ mpc' = "reported" /\ verdict' = "TIMEOUT"
    /\ UNCHANGED <<mleft, wpc, wleft, queue, busy, left, live, expiredAt, failedAt>>

-----------------------------------------------------------------------------
\* Nobody is late: a wait that is over, a free wrapper with a call and a join
\* of a thread that has ended come first.
MayWait ==
    /\ mleft > 0
    /\ wpc \in OwnWaits => wleft > 0
    /\ wpc = "done" => mpc \notin {"joining", "joining_again"}
    /\ \A w \in Hosts : queue[w] # <<>> => w \in busy /\ left[w] > 0

Less(n) == IF n > 0 THEN n - 1 ELSE n

Tick ==
    /\ mpc # "reported" /\ MayWait
    /\ mleft' = mleft - 1
    /\ wleft' = Less(wleft)
    /\ left' = [w \in Hosts |-> Less(left[w])]
    /\ UNCHANGED <<mpc, wpc, queue, busy, live, verdict, expiredAt, failedAt>>

Over == mpc = "reported" /\ UNCHANGED vars

Step ==
    \/ \E w \in Hosts : mpc # "reported" /\ (Serve(w) \/ Finish(w))
    \/ mpc # "reported" /\ OwnWaitOver
    \/ Joined \/ Expires \/ CloseExpires \/ JoinedAgain
    \/ Tick

Next == (Step /\ UNCHANGED cell) \/ Over

Spec == Init /\ [][Next]_vars

-----------------------------------------------------------------------------
(* Properties                                                               *)

(* The limits nest: a cell whose server does not come up is a FAIL with the  *)
(* wrapper's reason, never a TIMEOUT; the wrapper's wait for the port, the   *)
(* failed start and the CLOSEs that follow end before the watchdog's limit.  *)
ServerFailureIsFail == "est_server" \in {expiredAt, failedAt} => verdict # "TIMEOUT"

(* The grace period is enough for a cell that was past its handshakes: its   *)
(* worker has ended before the next cell starts, also if CLI processes have  *)
(* to be killed and an emergency CLOSE had to wait.                          *)
GraceSuffices ==
    verdict = "TIMEOUT" /\ expiredAt \in RoundTrip \cup Closes => wpc = "done"

(* When the worker of an abandoned cell has ended, no emergency CLOSE of its *)
(* cell still waits at a wrapper, where it would kill the processes, and     *)
(* delete the ticket, of the next cell (src/core/runner.py:499).             *)
NoStaleClose ==
    verdict = "TIMEOUT" /\ wpc = "done" =>
        \A w \in Hosts : \A i \in DOMAIN queue[w] : queue[w][i] \notin WatchdogCalls
=============================================================================
