--------------------------- MODULE WrapperProofs ---------------------------
(***************************************************************************)
(* WTypeOK and NoOrphan hold for every set of wrappers and cells and for    *)
(* callers that issue any requests.  WInv is the inductive invariant; the   *)
(* lemmas say that every kind of step preserves it, so InteropRunProofs can *)
(* reuse them for the steps of the driver.                                  *)
(***************************************************************************)
EXTENDS Wrapper, TLAPS

\* A handler that blocks while it reads stdout has a process to read from.
ReadsSomething ==
    \A w \in Backends : phase[w] = "reading" =>
        /\ rpcs[w] # <<>>
        /\ TransmitTarget(w) # NoProc

\* server_proc and client_proc refer to processes of that wrapper and role,
\* so releasing one role never kills the other's process.
HostedInPlace ==
    \A w \in Backends, r \in Roles : hosted[w][r] # NoProc =>
        HostOf(hosted[w][r]) = w /\ RoleOf(hosted[w][r].kind) = r

\* Certificates are staged by the wrapper of the cell's server only.
PemInPlace == \A w \in Backends : \A c \in pem[w] : CellServer[c] = w

\* Requests are queued at the wrapper they are for.
QueuedOnTarget ==
    \A w \in Backends : \A i \in DOMAIN rpcs[w] : Target(rpcs[w][i]) = w

\* A thread waits for a request of its own.
WaitsForOwn ==
    \A t \in Threads : waiting[t] # NoRequest => waiting[t].from = t

WInv ==
    /\ WTypeOK
    /\ ReadsSomething
    /\ HostedInPlace
    /\ PemInPlace
    /\ QueuedOnTarget
    /\ WaitsForOwn
    /\ NoOrphan

-----------------------------------------------------------------------------
(* Queues and processes                                                     *)

LEMMA QueueHead ==
    ASSUME NEW s \in Seq(Requests), s # <<>>
    PROVE  /\ Head(s) \in Requests
           /\ 1 \in DOMAIN s
           /\ Head(s) = s[1]
           /\ Tail(s) \in Seq(Requests)
           /\ \A i \in DOMAIN Tail(s) : i + 1 \in DOMAIN s /\ Tail(s)[i] = s[i + 1]
  OBVIOUS

LEMMA QueueAppend ==
    ASSUME NEW s \in Seq(Requests), NEW rq \in Requests
    PROVE  /\ Append(s, rq) \in Seq(Requests)
           /\ Append(s, rq) # <<>>
           /\ \A i \in DOMAIN Append(s, rq) :
                 \/ i \in DOMAIN s /\ Append(s, rq)[i] = s[i]
                 \/ i = Len(s) + 1 /\ Append(s, rq)[i] = rq
           /\ s # <<>> => Head(Append(s, rq)) = Head(s)
  OBVIOUS

LEMMA RequestFacts ==
    ASSUME NEW rq \in Requests
    PROVE  /\ rq.from \in Threads
           /\ rq.cell \in Cells
           /\ rq.kind \in Kinds
           /\ RoleOf(rq.kind) \in Roles
           /\ Proc(rq.cell, rq.kind) \in Procs
           /\ Target(rq) \in Backends
           /\ rq.kind = "server" => Proc(rq.cell, rq.kind) \in Servers
           /\ rq.kind # "server" => Proc(rq.cell, rq.kind) \in Clients
  BY WrapperAssumption
     DEF Requests, RoleOf, Kinds, Roles, Proc, Procs, Target, HostOf, Servers, Clients

LEMMA ProcFacts ==
    ASSUME NEW p \in Procs
    PROVE  /\ HostOf(p) \in Backends
           /\ RoleOf(p.kind) \in Roles
           /\ p.cell \in Cells
           /\ p # NoProc
           /\ p = Proc(p.cell, p.kind)
  BY WrapperAssumption DEF Procs, HostOf, RoleOf, Roles, Kinds, Proc

-----------------------------------------------------------------------------
(* The channel                                                              *)

\* A call appends to the queue of its target, or fails at once.
LEMMA CallFacts ==
    ASSUME WInv, NEW rq \in Requests, Call(rq)
    PROVE  /\ UNCHANGED <<status, phase, wrapperMem, cli, ticket>>
           /\ rpcs' \in [Backends -> Seq(Requests)]
           /\ \A v \in Backends : \A i \in DOMAIN rpcs'[v] :
                 \/ i \in DOMAIN rpcs[v] /\ rpcs'[v][i] = rpcs[v][i]
                 \/ /\ v = Target(rq) /\ status[v] = "up"
                    /\ i = Len(rpcs[v]) + 1 /\ rpcs'[v][i] = rq
           /\ \A v \in Backends : rpcs[v] # <<>> =>
                 rpcs'[v] # <<>> /\ Head(rpcs'[v]) = Head(rpcs[v])
           /\ waiting' = [waiting EXCEPT ![rq.from] = rq]
           /\ \A t \in Threads \ {rq.from} : reply'[t] = reply[t]
           /\ reply'[rq.from] = IF status[Target(rq)] = "up"
                                  THEN NoReply ELSE Result("UNAVAILABLE")
           /\ reply' \in [Threads -> Replies]
  <1> DEFINE w == Target(rq)
             q == Append(rpcs[w], rq)
  <1>1. w \in Backends /\ rq.from \in Threads
    BY RequestFacts
  <1>2. rpcs[w] \in Seq(Requests) /\ rpcs \in [Backends -> Seq(Requests)]
    BY <1>1 DEF WInv, WTypeOK
  <1>3. /\ q \in Seq(Requests) /\ q # <<>>
        /\ \A i \in DOMAIN q : \/ i \in DOMAIN rpcs[w] /\ q[i] = rpcs[w][i]
                               \/ i = Len(rpcs[w]) + 1 /\ q[i] = rq
        /\ rpcs[w] # <<>> => Head(q) = Head(rpcs[w])
    BY <1>2, QueueAppend
  <1>4. /\ UNCHANGED <<status, phase, wrapperMem, cli, ticket>>
        /\ waiting' = [waiting EXCEPT ![rq.from] = rq]
        /\ rpcs' = IF status[w] = "up" THEN [rpcs EXCEPT ![w] = q] ELSE rpcs
        /\ reply' = [reply EXCEPT ![rq.from] =
                       IF status[w] = "up" THEN NoReply ELSE Result("UNAVAILABLE")]
    BY DEF Call
  <1> HIDE DEF q, w
  <1>5. NoReply \in Replies /\ Result("UNAVAILABLE") \in Replies
    BY DEF NoReply, Result, Replies, Statuses
  <1>6. reply \in [Threads -> Replies]
    BY DEF WInv, WTypeOK
  <1>7. rpcs' \in [Backends -> Seq(Requests)]
    BY <1>1, <1>2, <1>3, <1>4
  <1>8. \A v \in Backends : \A i \in DOMAIN rpcs'[v] :
           \/ i \in DOMAIN rpcs[v] /\ rpcs'[v][i] = rpcs[v][i]
           \/ /\ v = w /\ status[v] = "up"
              /\ i = Len(rpcs[v]) + 1 /\ rpcs'[v][i] = rq
    BY <1>1, <1>2, <1>3, <1>4
  <1>9. \A v \in Backends : rpcs[v] # <<>> =>
           rpcs'[v] # <<>> /\ Head(rpcs'[v]) = Head(rpcs[v])
    BY <1>1, <1>2, <1>3, <1>4
  <1>10. /\ \A t \in Threads \ {rq.from} : reply'[t] = reply[t]
         /\ reply'[rq.from] = IF status[w] = "up"
                                THEN NoReply ELSE Result("UNAVAILABLE")
         /\ reply' \in [Threads -> Replies]
    BY <1>1, <1>4, <1>5, <1>6
  <1> QED
    BY <1>4, <1>7, <1>8, <1>9, <1>10 DEF w

LEMMA CallKeepsWInv ==
    ASSUME WInv, NEW rq \in Requests, Call(rq)
    PROVE  WInv'
  <1>1. rq.from \in Threads
    BY RequestFacts
  <1>2. /\ UNCHANGED <<status, phase, wrapperMem, cli, ticket>>
        /\ rpcs' \in [Backends -> Seq(Requests)]
        /\ reply' \in [Threads -> Replies]
        /\ waiting' = [waiting EXCEPT ![rq.from] = rq]
    BY CallFacts
  <1>3. WTypeOK'
    BY <1>1, <1>2 DEF WInv, WTypeOK, wrapperMem, cli
  <1>4. ReadsSomething'
    BY CallFacts DEF WInv, ReadsSomething, TransmitTarget, wrapperMem
  <1>5. HostedInPlace' /\ PemInPlace'
    BY CallFacts DEF WInv, HostedInPlace, PemInPlace, wrapperMem
  <1>6. QueuedOnTarget'
    BY CallFacts DEF WInv, QueuedOnTarget, Target
  <1>7. WaitsForOwn'
    BY <1>1, <1>2 DEF WInv, WTypeOK, WaitsForOwn
  <1>8. NoOrphan'
    BY CallFacts DEF WInv, NoOrphan, Live, wrapperMem, cli
  <1> QED
    BY <1>3, <1>4, <1>5, <1>6, <1>7, <1>8 DEF WInv

LEMMA HangupKeepsWInv ==
    ASSUME WInv, NEW t \in Threads, Hangup(t)
    PROVE  WInv'
  <1>1. WTypeOK'
    BY DEF WInv, WTypeOK, Hangup, wrapperMem, cli, Result, NoReply, Replies, Statuses
  <1>2. ReadsSomething' /\ HostedInPlace' /\ PemInPlace' /\ QueuedOnTarget'
    BY DEF WInv, ReadsSomething, HostedInPlace, PemInPlace, QueuedOnTarget, Hangup,
           TransmitTarget, wrapperMem
  <1>3. WaitsForOwn' /\ NoOrphan'
    BY DEF WInv, WTypeOK, WaitsForOwn, NoOrphan, Live, Hangup, wrapperMem, cli
  <1> QED
    BY <1>1, <1>2, <1>3 DEF WInv

\* The head of the queue of a wrapper that serves.
LEMMA HeadFacts ==
    ASSUME WInv, NEW w \in Backends, rpcs[w] # <<>>
    PROVE  /\ Head(rpcs[w]) \in Requests
           /\ Target(Head(rpcs[w])) = w
           /\ RoleOf(Head(rpcs[w]).kind) \in Roles
  <1>1. rpcs[w] \in Seq(Requests)
    BY DEF WInv, WTypeOK
  <1> QED
    BY <1>1, QueueHead, RequestFacts DEF WInv, QueuedOnTarget

\* An answer: what it makes of the queues and of the callers.
LEMMA AnswerFacts ==
    ASSUME WInv, NEW w \in Backends, rpcs[w] # <<>>, NEW res \in Replies, Answer(w, res)
    PROVE  /\ status' = status
           /\ waiting' = waiting
           /\ rpcs' \in [Backends -> Seq(Requests)]
           /\ phase' = [phase EXCEPT ![w] = "idle"]
           /\ \A v \in Backends \ {w} : rpcs'[v] = rpcs[v]
           /\ reply' \in [Threads -> Replies]
           /\ QueuedOnTarget'
           /\ WaitsForOwn'
  <1>1. rpcs[w] \in Seq(Requests)
    BY DEF WInv, WTypeOK
  <1>2. Tail(rpcs[w]) \in Seq(Requests)
    BY <1>1, QueueHead
  <1>3. rpcs' = [rpcs EXCEPT ![w] = Tail(rpcs[w])] /\ status' = status /\ waiting' = waiting
    BY DEF Answer
  <1>4. rpcs' \in [Backends -> Seq(Requests)]
    BY <1>2, <1>3 DEF WInv, WTypeOK
  <1>5. reply' \in [Threads -> Replies]
    BY <1>1, QueueHead, RequestFacts DEF Answer, WInv, WTypeOK
  <1>6. QueuedOnTarget'
    BY <1>1, <1>3, <1>4, QueueHead DEF WInv, WTypeOK, QueuedOnTarget, Target
  <1>7. WaitsForOwn'
    BY <1>3 DEF WInv, WaitsForOwn
  <1> QED
    BY <1>3, <1>4, <1>5, <1>6, <1>7 DEF Answer, WInv, WTypeOK

\* An answer that leaves the wrapper's processes and files alone.
LEMMA AnswerKeepsWInv ==
    ASSUME WInv, NEW w \in Backends, rpcs[w] # <<>>, NEW res \in Replies, Answer(w, res),
           UNCHANGED <<wrapperMem, life, peer, inflight, arrived, saved, ticket>>,
           unread' \in [Servers -> SUBSET Clients]
    PROVE  WInv'
  <1>1. WTypeOK'
    <2>1. /\ status' = status /\ waiting' = waiting
          /\ rpcs' \in [Backends -> Seq(Requests)]
          /\ phase' = [phase EXCEPT ![w] = "idle"]
          /\ reply' \in [Threads -> Replies]
      BY AnswerFacts
    <2> QED
      BY <2>1 DEF WInv, WTypeOK, wrapperMem
  <1>2. ReadsSomething'
    <2>1. phase' = [phase EXCEPT ![w] = "idle"] /\ \A v \in Backends \ {w} : rpcs'[v] = rpcs[v]
      BY AnswerFacts
    <2> QED
      BY <2>1 DEF WInv, WTypeOK, ReadsSomething, TransmitTarget, wrapperMem
  <1>3. HostedInPlace' /\ PemInPlace'
    BY DEF WInv, HostedInPlace, PemInPlace, wrapperMem
  <1>4. QueuedOnTarget' /\ WaitsForOwn' /\ status' = status
    BY AnswerFacts
  <1>5. NoOrphan'
    BY <1>4 DEF WInv, NoOrphan, Live, wrapperMem
  <1> QED
    BY <1>1, <1>2, <1>3, <1>4, <1>5 DEF WInv

-----------------------------------------------------------------------------
(* Releasing and starting processes                                         *)

\* Killing the processes a wrapper holds in some roles orphans none.
LEMMA ReleaseFacts ==
    ASSUME WInv, NEW w \in Backends, NEW R \in SUBSET Roles, status' = status,
           life' = Killed({hosted[w][r] : r \in R}),
           hosted' = [hosted EXCEPT ![w] =
                        [r \in Roles |-> IF r \in R THEN NoProc ELSE hosted[w][r]]]
    PROVE  /\ life' \in [Procs -> {"unborn", "starting", "up", "exited"}]
           /\ hosted' \in [Backends -> [Roles -> Procs \cup {NoProc}]]
           /\ HostedInPlace'
           /\ NoOrphan'
  <1>1. /\ life' \in [Procs -> {"unborn", "starting", "up", "exited"}]
        /\ \A p \in Procs : Live(p)' => Live(p) /\ p \notin {hosted[w][r] : r \in R}
    BY DEF WInv, WTypeOK, Killed, Live
  <1>2. hosted' \in [Backends -> [Roles -> Procs \cup {NoProc}]]
    BY DEF WInv, WTypeOK
  <1>3. HostedInPlace'
    BY DEF WInv, WTypeOK, HostedInPlace
  <1>4. NoOrphan'
    <2> SUFFICES ASSUME NEW p \in Procs, Live(p)', status[HostOf(p)] = "up"
                 PROVE  hosted'[HostOf(p)][RoleOf(p.kind)] = p
      BY DEF NoOrphan
    <2>1. HostOf(p) \in Backends /\ RoleOf(p.kind) \in Roles
      BY ProcFacts
    <2>2. hosted[HostOf(p)][RoleOf(p.kind)] = p /\ p \notin {hosted[w][r] : r \in R}
      BY <1>1 DEF WInv, NoOrphan
    <2> QED
      BY <2>1, <2>2 DEF WInv, WTypeOK
  <1> QED
    BY <1>1, <1>2, <1>3, <1>4

LEMMA StagesPemFacts ==
    ASSUME WInv, NEW w \in Backends, NEW rq \in Requests, Target(rq) = w, StagesPem(w, rq)
    PROVE  pem' \in [Backends -> SUBSET Cells] /\ PemInPlace'
  <1>1. PICK staged \in SUBSET Cells :
           /\ pem' = [pem EXCEPT ![w] = pem[w] \cup staged]
           /\ \A c \in staged : c = rq.cell /\ rq.kind = "server"
    BY RequestFacts DEF StagesPem
  <1>2. \A c \in staged : CellServer[c] = w
    BY <1>1 DEF Target, HostOf, Proc
  <1> QED
    BY <1>1, <1>2 DEF WInv, WTypeOK, PemInPlace

\* A handler that answers after it released processes and staged files.
LEMMA ReleaseKeepsWInv ==
    ASSUME WInv, NEW w \in Backends, rpcs[w] # <<>>, NEW res \in Replies, Answer(w, res),
           NEW R \in SUBSET Roles,
           life' = Killed({hosted[w][r] : r \in R}),
           hosted' = [hosted EXCEPT ![w] =
                        [r \in Roles |-> IF r \in R THEN NoProc ELSE hosted[w][r]]],
           pem' \in [Backends -> SUBSET Cells], PemInPlace',
           rooted' \in [Backends -> BOOLEAN], ticket' \in Cells \cup {NoCell},
           UNCHANGED <<peer, inflight, unread, arrived, saved>>
    PROVE  WInv'
  <1>1. /\ status' = status /\ waiting' = waiting
        /\ rpcs' \in [Backends -> Seq(Requests)]
        /\ phase' = [phase EXCEPT ![w] = "idle"]
        /\ \A v \in Backends \ {w} : rpcs'[v] = rpcs[v]
        /\ reply' \in [Threads -> Replies]
        /\ QueuedOnTarget' /\ WaitsForOwn'
    BY AnswerFacts
  <1>2. /\ life' \in [Procs -> {"unborn", "starting", "up", "exited"}]
        /\ hosted' \in [Backends -> [Roles -> Procs \cup {NoProc}]]
        /\ HostedInPlace' /\ NoOrphan'
    BY <1>1, ReleaseFacts
  <1>3. WTypeOK'
    BY <1>1, <1>2 DEF WInv, WTypeOK
  <1>4. ReadsSomething'
    BY <1>1 DEF WInv, WTypeOK, ReadsSomething, TransmitTarget
  <1> QED
    BY <1>1, <1>2, <1>3, <1>4 DEF WInv

\* Releasing one role.
LEMMA ReleasedFacts ==
    ASSUME WInv, NEW w \in Backends, NEW r \in Roles
    PROVE  /\ {r} \in SUBSET Roles
           /\ Killed({hosted[w][r]}) = Killed({hosted[w][x] : x \in {r}})
           /\ Released(w, r) =
                [hosted EXCEPT ![w] =
                   [x \in Roles |-> IF x \in {r} THEN NoProc ELSE hosted[w][x]]]
  <1>1. {hosted[w][r]} = {hosted[w][x] : x \in {r}}
    OBVIOUS
  <1>2. [hosted[w] EXCEPT ![r] = NoProc] =
           [x \in Roles |-> IF x \in {r} THEN NoProc ELSE hosted[w][x]]
    BY DEF WInv, WTypeOK
  <1>3. Released(w, r) = [hosted EXCEPT ![w] = [hosted[w] EXCEPT ![r] = NoProc]]
    BY DEF Released
  <1> QED
    BY <1>1, <1>2, <1>3

-----------------------------------------------------------------------------
(* The handlers                                                             *)

LEMMA EstablishSkipsKeepsWInv ==
    ASSUME WInv, NEW w \in Backends, EstablishSkips(w)
    PROVE  WInv'
  <1> DEFINE r == RoleOf(Head(rpcs[w]).kind)
             res == Result("SKIP")
  <1>1. rpcs[w] # <<>> /\ Answer(w, res)
    BY DEF EstablishSkips, Serving
  <1>2. r \in Roles
    BY <1>1, HeadFacts
  <1>3. res \in Replies
    BY DEF Result, Replies, Statuses
  <1>4. /\ life' = Killed({hosted[w][r]}) /\ hosted' = Released(w, r)
        /\ UNCHANGED <<pem, rooted, peer, inflight, unread, arrived, saved, ticket>>
    BY DEF EstablishSkips
  <1>5. /\ pem' \in [Backends -> SUBSET Cells] /\ PemInPlace'
        /\ rooted' \in [Backends -> BOOLEAN] /\ ticket' \in Cells \cup {NoCell}
    BY <1>4 DEF WInv, WTypeOK, PemInPlace
  <1> HIDE DEF r, res
  <1> QED
    BY <1>1, <1>2, <1>3, <1>4, <1>5, ReleasedFacts, ReleaseKeepsWInv

LEMMA EstablishSetupFailsKeepsWInv ==
    ASSUME WInv, NEW w \in Backends, EstablishSetupFails(w)
    PROVE  WInv'
  <1> DEFINE rq == Head(rpcs[w])
             r == RoleOf(rq.kind)
             res == Result("FAILURE")
  <1>1. rpcs[w] # <<>> /\ Answer(w, res)
    BY DEF EstablishSetupFails, Serving
  <1>2. r \in Roles /\ rq \in Requests /\ Target(rq) = w
    BY <1>1, HeadFacts
  <1>3. res \in Replies
    BY DEF Result, Replies, Statuses
  <1>4. /\ life' = Killed({hosted[w][r]}) /\ hosted' = Released(w, r)
        /\ StagesPem(w, rq)
        /\ rooted' = [rooted EXCEPT ![w] = TRUE]
        /\ UNCHANGED <<peer, inflight, unread, arrived, saved, ticket>>
    BY DEF EstablishSetupFails
  <1>5. rooted' \in [Backends -> BOOLEAN] /\ ticket' \in Cells \cup {NoCell}
    BY <1>4 DEF WInv, WTypeOK
  <1> HIDE DEF r, rq, res
  <1>6. pem' \in [Backends -> SUBSET Cells] /\ PemInPlace'
    BY <1>2, <1>4, StagesPemFacts
  <1> QED
    BY <1>1, <1>2, <1>3, <1>4, <1>5, <1>6, ReleasedFacts, ReleaseKeepsWInv

LEMMA CloseKeepsWInv ==
    ASSUME WInv, NEW w \in Backends, Close(w)
    PROVE  WInv'
  <1> DEFINE res == Result("SUCCESS")
  <1>1. rpcs[w] # <<>> /\ Answer(w, res)
    BY DEF Close, Serving
  <1>2. res \in Replies
    BY DEF Result, Replies, Statuses
  <1>3. /\ life' = Killed({hosted[w][r] : r \in Roles})
        /\ hosted' = [hosted EXCEPT ![w] = [r \in Roles |-> NoProc]]
        /\ pem' = [pem EXCEPT ![w] = {}]
        /\ ticket' \in {NoCell, ticket}
        /\ UNCHANGED <<rooted, peer, inflight, unread, arrived, saved>>
    BY DEF Close
  <1>4. [r \in Roles |-> NoProc] = [r \in Roles |-> IF r \in Roles THEN NoProc ELSE hosted[w][r]]
    OBVIOUS
  <1>5. /\ pem' \in [Backends -> SUBSET Cells] /\ PemInPlace'
        /\ rooted' \in [Backends -> BOOLEAN] /\ ticket' \in Cells \cup {NoCell}
    BY <1>3 DEF WInv, WTypeOK, PemInPlace
  <1> HIDE DEF res
  <1> QED
    BY <1>1, <1>2, <1>3, <1>4, <1>5, ReleaseKeepsWInv

LEMMA EstablishStartsKeepsWInv ==
    ASSUME WInv, NEW w \in Backends, EstablishStarts(w)
    PROVE  WInv'
  <1> DEFINE rq == Head(rpcs[w])
             r == RoleOf(rq.kind)
             p == Proc(rq.cell, rq.kind)
  <1>1. rpcs[w] # <<>> /\ phase[w] = "idle"
    BY DEF EstablishStarts, Serving
  <1>2. r \in Roles /\ rq \in Requests /\ Target(rq) = w
    BY <1>1, HeadFacts
  <1>3. /\ p \in Procs /\ HostOf(p) = w /\ RoleOf(p.kind) = r
        /\ r = "server" => p \in Servers
        /\ r # "server" => p \in Clients
    BY <1>2, RequestFacts DEF Target, Proc, RoleOf
  <1>4. /\ Spawns(w, r, p)
        /\ StagesPem(w, rq)
        /\ inflight' = inflight \ {p}
        /\ IF r = "server"
             THEN unread' = [unread EXCEPT ![p] = {}] /\ UNCHANGED peer
             ELSE peer' = [peer EXCEPT ![p] = NoProc] /\ UNCHANGED unread
        /\ rooted' = [rooted EXCEPT ![w] = TRUE]
        /\ phase' = [phase EXCEPT ![w] = "polling"]
        /\ UNCHANGED <<status, rpcs, waiting, reply, arrived, saved, ticket>>
    BY DEF EstablishStarts
  <1> HIDE DEF rq, r, p
  <1>5. pem' \in [Backends -> SUBSET Cells] /\ PemInPlace'
    BY <1>2, <1>4, StagesPemFacts
  <1>6. /\ life' = [Killed({hosted[w][r]}) EXCEPT ![p] = "starting"]
        /\ hosted' = [hosted EXCEPT ![w][r] = p]
    BY <1>4 DEF Spawns
  <1>7. /\ life' \in [Procs -> {"unborn", "starting", "up", "exited"}]
        /\ \A q \in Procs : Live(q)' => q = p \/ (Live(q) /\ q # hosted[w][r])
    BY <1>3, <1>6 DEF WInv, WTypeOK, Killed, Live
  <1>8. hosted' \in [Backends -> [Roles -> Procs \cup {NoProc}]]
    BY <1>2, <1>3, <1>6 DEF WInv, WTypeOK
  <1>9. /\ unread' \in [Servers -> SUBSET Clients]
        /\ peer' \in [Clients -> Servers \cup {NoProc}]
    BY <1>3, <1>4 DEF WInv, WTypeOK
  <1>10. WTypeOK'
    BY <1>4, <1>5, <1>7, <1>8, <1>9 DEF WInv, WTypeOK
  <1>11. ReadsSomething'
    BY <1>1, <1>4, <1>6 DEF WInv, WTypeOK, ReadsSomething, TransmitTarget
  <1>12. HostedInPlace'
    BY <1>2, <1>3, <1>6 DEF WInv, WTypeOK, HostedInPlace
  <1>13. QueuedOnTarget' /\ WaitsForOwn'
    BY <1>4 DEF WInv, QueuedOnTarget, Target, WaitsForOwn
  <1>14. NoOrphan'
    <2> SUFFICES ASSUME NEW q \in Procs, Live(q)', status[HostOf(q)] = "up"
                 PROVE  hosted'[HostOf(q)][RoleOf(q.kind)] = q
      BY <1>4 DEF NoOrphan
    <2>1. CASE q = p
      BY <2>1, <1>2, <1>3, <1>6 DEF WInv, WTypeOK
    <2>2. CASE q # p
      <3>1. Live(q) /\ q # hosted[w][r]
        BY <1>7, <2>2
      <3>2. hosted[HostOf(q)][RoleOf(q.kind)] = q
        BY <3>1 DEF WInv, NoOrphan
      <3>3. HostOf(q) \in Backends /\ RoleOf(q.kind) \in Roles
        BY ProcFacts
      <3> QED
        BY <1>2, <1>6, <3>1, <3>2, <3>3 DEF WInv, WTypeOK
    <2> QED
      BY <2>1, <2>2
  <1> QED
    BY <1>5, <1>10, <1>11, <1>12, <1>13, <1>14 DEF WInv

\* A handler that blocks changes its phase and the payload under way at most.
LEMMA BlocksKeepsWInv ==
    ASSUME WInv, NEW w \in Backends, rpcs[w] # <<>>,
           NEW ph \in {"collecting", "reading"}, phase' = [phase EXCEPT ![w] = ph],
           ph = "reading" => TransmitTarget(w) # NoProc,
           inflight' \subseteq Clients,
           UNCHANGED <<status, rpcs, wrapperMem, life, peer, unread, arrived,
                       saved, ticket, waiting, reply>>
    PROVE  WInv'
  <1>1. WTypeOK'
    BY DEF WInv, WTypeOK, wrapperMem
  <1>2. ReadsSomething'
    BY DEF WInv, WTypeOK, ReadsSomething, TransmitTarget, wrapperMem
  <1>3. HostedInPlace' /\ PemInPlace' /\ QueuedOnTarget' /\ WaitsForOwn' /\ NoOrphan'
    BY DEF WInv, HostedInPlace, PemInPlace, QueuedOnTarget, WaitsForOwn, NoOrphan,
           Target, Live, wrapperMem
  <1> QED
    BY <1>1, <1>2, <1>3 DEF WInv

LEMMA PeerReachableKeepsWInv ==
    ASSUME WInv, NEW w \in Backends, PeerReachable(w)
    PROVE  WInv'
  <1>1. /\ rpcs[w] # <<>>
        /\ phase' = [phase EXCEPT ![w] = "collecting"]
        /\ UNCHANGED <<status, rpcs, wrapperMem, cli, ticket, waiting, reply>>
    BY DEF PeerReachable, Serving
  <1>2. inflight' \subseteq Clients
    BY <1>1 DEF WInv, WTypeOK, cli
  <1> QED
    BY <1>1, <1>2, BlocksKeepsWInv DEF cli

LEMMA TransmitWritesKeepsWInv ==
    ASSUME WInv, NEW w \in Backends, TransmitWrites(w)
    PROVE  WInv'
  <1>1. /\ rpcs[w] # <<>>
        /\ TransmitTarget(w) # NoProc
        /\ phase' = [phase EXCEPT ![w] = "reading"]
        /\ inflight' = IF RoleOf(Head(rpcs[w]).kind) = "client"
                         THEN inflight \cup {TransmitTarget(w)} ELSE inflight
        /\ UNCHANGED <<status, rpcs, wrapperMem, life, peer, unread, arrived,
                       saved, ticket, waiting, reply>>
    BY DEF TransmitWrites, Serving, Running
  <1>2. RoleOf(Head(rpcs[w]).kind) \in Roles
    BY <1>1, HeadFacts
  <1>3. RoleOf(Head(rpcs[w]).kind) = "client" => TransmitTarget(w) \in Clients
    BY <1>1, <1>2 DEF TransmitTarget, WInv, WTypeOK, HostedInPlace, Clients, Servers, RoleOf
  <1>4. inflight' \subseteq Clients
    BY <1>1, <1>3 DEF WInv, WTypeOK
  <1> QED
    BY <1>1, <1>4, BlocksKeepsWInv

\* Reading the server's stdout.
LEMMA DrainedType ==
    ASSUME WInv, NEW w \in Backends
    PROVE  /\ Drained(w) \in [Servers -> SUBSET Clients]
           /\ unread \in [Servers -> SUBSET Clients]
  BY DEF WInv, WTypeOK, Drained

LEMMA EstablishAnswersKeepsWInv ==
    ASSUME WInv, NEW w \in Backends,
           \/ EstablishGivesUp(w) \/ ServerEstablishes(w) \/ ClientEstablishes(w)
           \/ TransmitRejected(w)
    PROVE  WInv'
  <1>1. /\ rpcs[w] # <<>>
        /\ Answer(w, Result("FAILURE")) \/ Answer(w, Result("SUCCESS"))
        /\ UNCHANGED <<wrapperMem, life, peer, inflight, arrived, saved, ticket>>
        /\ unread' \in {unread, Drained(w)}
    BY DEF EstablishGivesUp, ServerEstablishes, ClientEstablishes, TransmitRejected, Serving
  <1>2. Result("FAILURE") \in Replies /\ Result("SUCCESS") \in Replies
    BY DEF Result, Replies, Statuses
  <1>3. unread' \in [Servers -> SUBSET Clients]
    BY <1>1, DrainedType
  <1> QED
    BY <1>1, <1>2, <1>3, AnswerKeepsWInv

LEMMA TransmitReadsKeepsWInv ==
    ASSUME WInv, NEW w \in Backends, TransmitReads(w)
    PROVE  WInv'
  <1> DEFINE r == RoleOf(Head(rpcs[w]).kind)
             res == IF r = "server" THEN [status |-> "SUCCESS", echo |-> unread[TransmitTarget(w)]]
                                    ELSE Result("SUCCESS")
  <1>1. /\ rpcs[w] # <<>> /\ phase[w] = "reading"
        /\ Answer(w, res)
        /\ UNCHANGED <<wrapperMem, life, peer, inflight, arrived, saved, ticket>>
        /\ unread' \in {unread, Drained(w)}
    BY DEF TransmitReads, Serving
  <1>2. r \in Roles /\ TransmitTarget(w) = hosted[w][r] /\ TransmitTarget(w) # NoProc
    BY <1>1, HeadFacts DEF TransmitTarget, WInv, ReadsSomething
  <1>3. r = "server" => TransmitTarget(w) \in Servers
    BY <1>2 DEF WInv, WTypeOK, HostedInPlace, Servers, RoleOf
  <1>4. r = "server" => unread[TransmitTarget(w)] \in SUBSET Clients
    BY <1>3 DEF WInv, WTypeOK
  <1>5. res \in Replies
    BY <1>4 DEF Result, Replies, Statuses
  <1>6. unread' \in [Servers -> SUBSET Clients]
    BY <1>1, DrainedType
  <1> HIDE DEF res
  <1> QED
    BY <1>1, <1>5, <1>6, AnswerKeepsWInv

LEMMA DropExpiredKeepsWInv ==
    ASSUME WInv, NEW w \in Backends, DropExpired(w)
    PROVE  WInv'
  <1>1. /\ rpcs[w] \in Seq(Requests) /\ rpcs[w] # <<>> /\ phase[w] = "idle"
        /\ rpcs' = [rpcs EXCEPT ![w] = Tail(rpcs[w])]
        /\ UNCHANGED <<status, phase, wrapperMem, cli, ticket, waiting, reply>>
    BY DEF DropExpired, WInv, WTypeOK
  <1>2. /\ Tail(rpcs[w]) \in Seq(Requests)
        /\ \A i \in DOMAIN Tail(rpcs[w]) :
              i + 1 \in DOMAIN rpcs[w] /\ Tail(rpcs[w])[i] = rpcs[w][i + 1]
    BY <1>1, QueueHead
  <1>3. WTypeOK'
    BY <1>1, <1>2 DEF WInv, WTypeOK, wrapperMem, cli
  <1>4. ReadsSomething'
    BY <1>1 DEF WInv, WTypeOK, ReadsSomething, TransmitTarget, wrapperMem
  <1>5. QueuedOnTarget'
    BY <1>1, <1>2 DEF WInv, WTypeOK, QueuedOnTarget, Target
  <1>6. HostedInPlace' /\ PemInPlace' /\ WaitsForOwn' /\ NoOrphan'
    BY <1>1 DEF WInv, HostedInPlace, PemInPlace, WaitsForOwn, NoOrphan, Live, wrapperMem, cli
  <1> QED
    BY <1>3, <1>4, <1>5, <1>6 DEF WInv

LEMMA HandleKeepsWInv ==
    ASSUME WInv, NEW w \in Backends, Handle(w)
    PROVE  WInv'
  BY EstablishSkipsKeepsWInv, EstablishSetupFailsKeepsWInv, EstablishStartsKeepsWInv,
     PeerReachableKeepsWInv, EstablishAnswersKeepsWInv, TransmitWritesKeepsWInv,
     TransmitReadsKeepsWInv, CloseKeepsWInv, DropExpiredKeepsWInv
     DEF Handle

-----------------------------------------------------------------------------
(* Wrappers that die, and the CLI processes                                 *)

LEMMA WrappersGoneKeepsWInv ==
    ASSUME WInv, NEW W \in SUBSET Backends, NEW how \in {"crashed", "stopped"},
           WrappersGone(W, how),
           life' \in [Procs -> {"unborn", "starting", "up", "exited"}],
           \A p \in Procs : Live(p)' => Live(p)
    PROVE  WInv'
  <1>1. /\ status' = [w \in Backends |-> IF w \in W THEN how ELSE status[w]]
        /\ rpcs' = [w \in Backends |-> IF w \in W THEN <<>> ELSE rpcs[w]]
        /\ phase' = [w \in Backends |-> IF w \in W THEN "idle" ELSE phase[w]]
        /\ hosted' = [w \in Backends |->
                        IF w \in W THEN [r \in Roles |-> NoProc] ELSE hosted[w]]
        /\ UNCHANGED <<pem, rooted, peer, inflight, unread, arrived, saved,
                       ticket, waiting>>
    BY DEF WrappersGone
  <1>2. reply' \in [Threads -> Replies]
    <2>1. Result("UNAVAILABLE") \in Replies
      BY DEF Result, Replies, Statuses
    <2> QED
      BY <2>1 DEF WrappersGone, WInv, WTypeOK
  <1>3. rpcs' \in [Backends -> Seq(Requests)] /\ QueuedOnTarget'
    BY <1>1 DEF WInv, WTypeOK, QueuedOnTarget, Target
  <1>4. hosted' \in [Backends -> [Roles -> Procs \cup {NoProc}]] /\ HostedInPlace'
    BY <1>1 DEF WInv, WTypeOK, HostedInPlace
  <1>5. WTypeOK'
    BY <1>1, <1>2, <1>3, <1>4 DEF WInv, WTypeOK
  <1>6. ReadsSomething'
    BY <1>1 DEF WInv, WTypeOK, ReadsSomething, TransmitTarget
  <1>7. PemInPlace' /\ WaitsForOwn'
    BY <1>1 DEF WInv, PemInPlace, WaitsForOwn
  <1>8. NoOrphan'
    BY <1>1, ProcFacts DEF WInv, NoOrphan
  <1> QED
    BY <1>3, <1>4, <1>5, <1>6, <1>7, <1>8 DEF WInv

LEMMA CrashKeepsWInv ==
    ASSUME WInv, NEW w \in Backends, Crash(w)
    PROVE  WInv'
  <1>1. WrappersGone({w}, "crashed") /\ life' = life
    BY DEF Crash
  <1>2. /\ life' \in [Procs -> {"unborn", "starting", "up", "exited"}]
        /\ \A p \in Procs : Live(p)' => Live(p)
    BY <1>1 DEF WInv, WTypeOK, Live
  <1> QED
    BY <1>1, <1>2, WrappersGoneKeepsWInv

LEMMA StopAllKeepsWInv ==
    ASSUME WInv, StopAll
    PROVE  WInv'
  <1> DEFINE W == {w \in Backends : status[w] = "up"}
  <1>1. /\ WrappersGone(W, "stopped")
        /\ life' = [p \in Procs |-> IF HostOf(p) \in W /\ Live(p)
                                      THEN "exited" ELSE life[p]]
    BY DEF StopAll
  <1> HIDE DEF W
  <1>2. /\ life' \in [Procs -> {"unborn", "starting", "up", "exited"}]
        /\ \A p \in Procs : Live(p)' => Live(p)
    BY <1>1 DEF WInv, WTypeOK, Live
  <1>3. W \in SUBSET Backends
    BY DEF W
  <1> QED
    BY <1>1, <1>2, <1>3, WrappersGoneKeepsWInv

\* A CLI process never comes to life by itself.
LEMMA CliStepFacts ==
    ASSUME WInv, NEW p \in Procs, CliStep(p)
    PROVE  /\ UNCHANGED <<status, rpcs, phase, wrapperMem, waiting, reply>>
           /\ life' \in [Procs -> {"unborn", "starting", "up", "exited"}]
           /\ \A q \in Procs : Live(q)' => Live(q)
  <1>1. CASE Listens(p)
    BY <1>1 DEF Listens, WInv, WTypeOK, Live
  <1>2. CASE Handshakes(p)
    BY <1>2 DEF Handshakes, WInv, WTypeOK, Live
  <1>3. CASE SavesTicket(p)
    BY <1>3 DEF SavesTicket, WInv, WTypeOK, Live
  <1>4. CASE Delivers(p)
    BY <1>4 DEF Delivers, WInv, WTypeOK, Live
  <1>5. CASE Exits(p)
    BY <1>5 DEF Exits, WInv, WTypeOK, Live
  <1> QED
    BY <1>1, <1>2, <1>3, <1>4, <1>5 DEF CliStep

\* What a CLI process can change besides its life.
LEMMA CliStepTypes ==
    ASSUME WInv, NEW p \in Procs, CliStep(p)
    PROVE  /\ peer' \in [Clients -> Servers \cup {NoProc}]
           /\ inflight' \subseteq Clients
           /\ unread' \in [Servers -> SUBSET Clients]
           /\ arrived' \subseteq Clients
           /\ ticket' \in Cells \cup {NoCell}
           /\ saved' \subseteq Cells
  <1>1. p.cell \in Cells
    BY ProcFacts
  <1>2. CASE Listens(p) \/ Exits(p)
    BY <1>2 DEF Listens, Exits, WInv, WTypeOK
  <1>3. CASE Handshakes(p)
    <2>1. /\ peer' \in [Clients -> Servers \cup {NoProc}]
          /\ UNCHANGED <<inflight, unread, arrived, saved, ticket>>
      BY <1>3 DEF Handshakes, WInv, WTypeOK
    <2> QED
      BY <2>1 DEF WInv, WTypeOK
  <1>4. CASE SavesTicket(p)
    BY <1>1, <1>4 DEF SavesTicket, WInv, WTypeOK
  <1>5. CASE Delivers(p)
    BY <1>5 DEF Delivers, WInv, WTypeOK
  <1> QED
    BY <1>2, <1>3, <1>4, <1>5 DEF CliStep

LEMMA CliStepKeepsWInv ==
    ASSUME WInv, NEW p \in Procs, CliStep(p)
    PROVE  WInv'
  <1>1. /\ UNCHANGED <<status, rpcs, phase, wrapperMem, waiting, reply>>
        /\ life' \in [Procs -> {"unborn", "starting", "up", "exited"}]
        /\ \A q \in Procs : Live(q)' => Live(q)
    BY CliStepFacts
  <1>2. WTypeOK'
    BY <1>1, CliStepTypes DEF WInv, WTypeOK, wrapperMem
  <1>3. ReadsSomething' /\ HostedInPlace' /\ PemInPlace' /\ QueuedOnTarget' /\ WaitsForOwn'
    BY <1>1 DEF WInv, ReadsSomething, HostedInPlace, PemInPlace, QueuedOnTarget,
                WaitsForOwn, TransmitTarget, Target, wrapperMem
  <1>4. NoOrphan'
    BY <1>1 DEF WInv, NoOrphan, wrapperMem
  <1> QED
    BY <1>2, <1>3, <1>4 DEF WInv

-----------------------------------------------------------------------------
(* The theorems                                                             *)

LEMMA InitWInv == WInit => WInv
  <1> SUFFICES ASSUME WInit PROVE WInv
    OBVIOUS
  <1>1. NoReply \in Replies
    BY DEF NoReply, Result, Replies, Statuses
  <1>2. WTypeOK
    BY <1>1 DEF WInit, WTypeOK
  <1>3. ReadsSomething /\ PemInPlace /\ QueuedOnTarget /\ WaitsForOwn
    BY DEF WInit, ReadsSomething, PemInPlace, QueuedOnTarget, WaitsForOwn
  <1>4. HostedInPlace /\ NoOrphan
    BY DEF WInit, HostedInPlace, NoOrphan, Live
  <1> QED
    BY <1>2, <1>3, <1>4 DEF WInv

LEMMA StutterKeepsWInv ==
    ASSUME WInv, UNCHANGED wvars
    PROVE  WInv'
  <1> USE DEF wvars, wrapperMem, cli
  <1>1. WTypeOK'
    BY DEF WInv, WTypeOK
  <1>2. ReadsSomething' /\ HostedInPlace' /\ PemInPlace' /\ QueuedOnTarget' /\ WaitsForOwn'
    BY DEF WInv, ReadsSomething, HostedInPlace, PemInPlace, QueuedOnTarget, WaitsForOwn,
           TransmitTarget, Target
  <1>3. NoOrphan'
    BY DEF WInv, NoOrphan, Live
  <1> QED
    BY <1>1, <1>2, <1>3 DEF WInv

LEMMA NextKeepsWInv == WInv /\ [WNext]_wvars => WInv'
  <1> SUFFICES ASSUME WInv, [WNext]_wvars PROVE WInv'
    OBVIOUS
  <1>1. CASE \E t \in Threads : AnyCall(t) \/ Hangup(t)
    BY <1>1, CallKeepsWInv, HangupKeepsWInv DEF AnyCall
  <1>2. CASE \E w \in Backends : Handle(w) \/ Crash(w)
    BY <1>2, HandleKeepsWInv, CrashKeepsWInv
  <1>3. CASE StopAll
    BY <1>3, StopAllKeepsWInv
  <1>4. CASE \E p \in Procs : CliStep(p)
    BY <1>4, CliStepKeepsWInv
  <1>5. CASE UNCHANGED wvars
    BY <1>5, StutterKeepsWInv
  <1> QED
    BY <1>1, <1>2, <1>3, <1>4, <1>5 DEF WNext

\* The wrappers' state has its type, whatever their callers ask.
THEOREM WrapperTypeCorrect == WSpec => []WTypeOK
  <1>1. WInv => WTypeOK
    BY DEF WInv
  <1> QED
    BY <1>1, InitWInv, NextKeepsWInv, PTL DEF WSpec

\* No order of requests, failures, crashes and exits makes a wrapper lose a
\* CLI process it started (base.py 161-224, 233-245).
THEOREM WrapperLosesNoProcess == WSpec => []NoOrphan
  <1>1. WInv => NoOrphan
    BY DEF WInv
  <1> QED
    BY <1>1, InitWInv, NextKeepsWInv, PTL DEF WSpec
=============================================================================
