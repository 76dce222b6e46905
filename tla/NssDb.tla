-------------------------------- MODULE NssDb --------------------------------
(***************************************************************************)
(* The certificate database of the NSS wrappers (src/wrappers/nss).  A      *)
(* wrapper fills its database on the first call that needs it, under a file *)
(* lock, by running one CLI tool after the other; it remembers in a flag    *)
(* that it did, and every CLOSE removes the database again, without the     *)
(* lock.  A wrapper may be killed between any two tools; the next run       *)
(* starts a new one on the same path.                                       *)
(*                                                                          *)
(* Identities are numbered in the order they are imported.  A wrapper       *)
(* serves one call at a time, so nothing else happens in it meanwhile.      *)
(***************************************************************************)
EXTENDS Naturals

CONSTANTS
    Wrappers,      \* the NSS wrappers, one for each gRPC port
    SlotOf,        \* [Wrappers -> slot of the parallel run, or NoSlot]
    NoSlot,        \* of the wrapper of a serial run, or one started by hand
    NumIdentities, \* PEM pairs under certs/ that pk12util can import
    NoOne          \* holder of a free lock

Ids   == 1..NumIdentities
Roles == {"server", "client"}
Calls == Roles \cup {"metadata"}   \* the calls that need the database

\* Wrong variant: the slot is not part of the path.
DbPath_NoSlot(w) == <<"nss">>

\* NSSDB: one directory for each slot.
DbPath(w) == IF SlotOf[w] = NoSlot THEN <<"nss">> ELSE <<"nss_slot", SlotOf[w]>>

Paths == {DbPath(w) : w \in Wrappers}

ASSUME NssAssumption ==
    /\ NumIdentities \in Nat \ {0}
    /\ NoOne \notin Wrappers

VARIABLES
    db,       \* per path: the directory is made, its nicknames, those with trust
    lock,     \* per path: who holds the flock
    pc,       \* per wrapper: down, idle, or the step of the ensure it is in
    call,     \* the call that this ensure is for
    at,       \* the identity being imported
    ready,    \* _nss_db_ready
    running   \* server_proc and client_proc that still run

vars == <<db, lock, pc, call, at, ready, running>>

NoDb == [made |-> FALSE, certs |-> {}, trusted |-> {}]

Init ==
    /\ db = [p \in Paths |-> NoDb]
    /\ lock = [p \in Paths |-> NoOne]
    /\ pc = [w \in Wrappers |-> "down"]
    /\ call = [w \in Wrappers |-> "metadata"]
    /\ at = [w \in Wrappers |-> 1]
    /\ ready = [w \in Wrappers |-> FALSE]
    /\ running = [w \in Wrappers |-> {}]

Goto(w, step) == pc' = [pc EXCEPT ![w] = step]

\* Wrong variant: a lock file is removed by whoever leaves.
Unlock_Anyones(w) == lock' = [lock EXCEPT ![DbPath(w)] = NoOne]

\* Leaving the `with` block, or the kernel closing the file of a dead process.
Unlock(w) ==
    lock' = IF lock[DbPath(w)] = w THEN [lock EXCEPT ![DbPath(w)] = NoOne] ELSE lock

\* The session of a run starts the wrapper: the flag is FALSE again.
Start(w) ==
    /\ pc[w] = "down"
    /\ Goto(w, "idle")
    /\ UNCHANGED <<db, lock, call, at, ready, running>>

\* Once the database is ready the CLI process of the call is started.
Started(w, c) ==
    running' = [running EXCEPT ![w] = IF c \in Roles THEN @ \cup {c} ELSE @]

\* GetMetadata, _start_server or _start_client with the flag set.
ServeAtOnce(w) ==
    /\ pc[w] = "idle" /\ ready[w]
    /\ \E c \in Calls : Started(w, c)
    /\ UNCHANGED <<db, lock, pc, call, at, ready>>

\* The same without the flag: ESTABLISH has released its role's old process.
BeginEnsure(w) ==
    /\ pc[w] = "idle" /\ ~ ready[w]
    /\ \E c \in Calls :
         /\ call' = [call EXCEPT ![w] = c]
         /\ running' = [running EXCEPT ![w] = @ \ {c}]
    /\ Goto(w, "locking")
    /\ UNCHANGED <<db, lock, at, ready>>

\* flock(LOCK_EX)
Lock(w) ==
    /\ pc[w] = "locking"
    /\ lock[DbPath(w)] = NoOne
    /\ lock' = [lock EXCEPT ![DbPath(w)] = w]
    /\ Goto(w, "checking")
    /\ UNCHANGED <<db, call, at, ready, running>>

\* _ensure_nss_db_identities returns.
Ensured(w) ==
    /\ Unlock(w)
    /\ ready' = [ready EXCEPT ![w] = TRUE]
    /\ Started(w, call[w])
    /\ Goto(w, "idle")

\* Wrong variant: one nickname is enough.
Complete_Any(p) == db[p].certs # {}

\* certutil -L finds every nickname; what they are trusted for is not looked at.
Complete(p) == db[p].certs = Ids

Reuse(w) ==
    /\ pc[w] = "checking" /\ Complete(DbPath(w))
    /\ Ensured(w)
    /\ UNCHANGED <<db, call, at>>

\* rmtree, makedirs, certutil -N
Recreate(w) ==
    /\ pc[w] = "checking" /\ ~ Complete(DbPath(w))
    /\ db' = [db EXCEPT ![DbPath(w)] = [NoDb EXCEPT !.made = TRUE]]
    /\ at' = [at EXCEPT ![w] = 1]
    /\ Goto(w, "importing")
    /\ UNCHANGED <<lock, call, ready, running>>

\* openssl pkcs12, pk12util -i
Import(w) ==
    /\ pc[w] = "importing"
    /\ db[DbPath(w)].made
    /\ db' = [db EXCEPT ![DbPath(w)].certs = @ \cup {at[w]}]
    /\ Goto(w, "trusting")
    /\ UNCHANGED <<lock, call, at, ready, running>>

\* Wrong variant: the loop does not stop after the last identity.
Trust_NoEnd(w) ==
    /\ pc[w] = "trusting"
    /\ db' = [db EXCEPT ![DbPath(w)].trusted = @ \cup {at[w]}]
    /\ at' = [at EXCEPT ![w] = @ + 1]
    /\ Goto(w, "importing")
    /\ UNCHANGED <<lock, call, ready, running>>

\* certutil -M; then the next identity, or the end.
Trust(w) ==
    /\ pc[w] = "trusting"
    /\ at[w] \in db[DbPath(w)].certs
    /\ db' = [db EXCEPT ![DbPath(w)].trusted = @ \cup {at[w]}]
    /\ IF at[w] = NumIdentities
         THEN Ensured(w) /\ UNCHANGED at
         ELSE /\ at' = [at EXCEPT ![w] = @ + 1]
              /\ Goto(w, "importing")
              /\ UNCHANGED <<lock, ready, running>>
    /\ UNCHANGED call

\* A tool is missing or fails: RuntimeError, and the call with it.  What was
\* imported stays.
ToolFails(w) ==
    /\ pc[w] \in {"locking", "importing", "trusting"}
    /\ Unlock(w)
    /\ Goto(w, "idle")
    /\ UNCHANGED <<db, call, at, ready, running>>

\* CLOSE kills both processes and removes the directory.
Close(w) ==
    /\ pc[w] = "idle"
    /\ running' = [running EXCEPT ![w] = {}]
    /\ db' = [db EXCEPT ![DbPath(w)] = NoDb]
    /\ ready' = [ready EXCEPT ![w] = FALSE]
    /\ UNCHANGED <<lock, pc, call, at>>

ProcessExits(w) ==
    /\ \E r \in running[w] : running' = [running EXCEPT ![w] = @ \ {r}]
    /\ UNCHANGED <<db, lock, pc, call, at, ready>>

\* The wrapper's process group is killed; the kernel frees its lock.
Die(w) ==
    /\ pc[w] # "down"
    /\ Goto(w, "down")
    /\ Unlock(w)
    /\ ready' = [ready EXCEPT ![w] = FALSE]
    /\ running' = [running EXCEPT ![w] = {}]
    /\ UNCHANGED <<db, call, at>>

Step(w) ==
    \/ Start(w) \/ ServeAtOnce(w) \/ BeginEnsure(w) \/ Lock(w)
    \/ Reuse(w) \/ Recreate(w) \/ Import(w) \/ Trust(w) \/ ToolFails(w)
    \/ Close(w) \/ ProcessExits(w) \/ Die(w)

Next == \E w \in Wrappers : Step(w)

Spec == Init /\ [][Next]_vars

-----------------------------------------------------------------------------
(* Properties                                                               *)

Building(w) == pc[w] \in {"checking", "importing", "trusting"}

\* The wrapper of a slot that no other wrapper has, as in a run by itself.
OwnSlot(w) == \A v \in Wrappers \ {w} : SlotOf[v] # SlotOf[w]

(* Type invariant of the databases, their locks and the wrappers.            *)
TypeOK ==
    /\ db \in [Paths -> [made : BOOLEAN, certs : SUBSET Ids, trusted : SUBSET Ids]]
    /\ lock \in [Paths -> Wrappers \cup {NoOne}]
    /\ pc \in [Wrappers -> {"down", "idle", "locking", "checking", "importing", "trusting"}]
    /\ call \in [Wrappers -> Calls]
    /\ at \in [Wrappers -> Ids]
    /\ ready \in [Wrappers -> BOOLEAN]
    /\ running \in [Wrappers -> SUBSET Roles]

(* Two wrappers on one path (a serial run and a wrapper started by hand) are *)
(* never both between the check of the database and the end of its import,   *)
(* whoever dies or fails in between.                                         *)
BuildsAlone ==
    \A v, w \in Wrappers :
        Building(v) /\ Building(w) /\ DbPath(v) = DbPath(w) => v = w

(* Whoever trusts the flag finds a database: while _nss_db_ready is set, or  *)
(* one of the wrapper's CLI processes runs, every nickname is in its         *)
(* database, although CLOSE removes it without the lock.  It is the paths of *)
(* the slots that keep the CLOSE of one slot off the database of another.    *)
InUseIsComplete ==
    \A w \in Wrappers :
        OwnSlot(w) /\ (ready[w] \/ running[w] # {}) => Complete(DbPath(w))

(* A wrapper killed halfway leaves a partial database behind, and the check  *)
(* of the next one does not see trust flags.  All it can miss is the trust   *)
(* of the very last identity: any earlier death leaves a nickname missing.   *)
OnlyLastUntrusted ==
    \A w \in Wrappers :
        OwnSlot(w) /\ ready[w] => Ids \ db[DbPath(w)].trusted \subseteq {NumIdentities}
=============================================================================
