----------------------------- MODULE NssDbProofs -----------------------------
(***************************************************************************)
(* BuildsAlone holds for any wrappers on any paths: the lock is held by the *)
(* one that builds.  What a wrapper finds in its database is proved for     *)
(* those that share their slot with nobody, whatever the others do: NssInv  *)
(* says how far their database is at every step of a build, and that        *)
(* whatever a death leaves behind is a prefix of a whole build.             *)
(***************************************************************************)
EXTENDS NssDb, TLAPS

\* The lock of a path is held by the wrapper that builds there.
HolderBuilds ==
    \A w \in Wrappers : Building(w) <=> lock[DbPath(w)] = w

LockInv == TypeOK /\ HolderBuilds

\* Nicknames are imported in order, and trusted in order.
PrefixOfBuild ==
    \A w \in Wrappers : OwnSlot(w) =>
        LET d == db[DbPath(w)]
        IN  /\ d.trusted \subseteq d.certs
            /\ \A i \in d.certs : 1..i \subseteq d.certs
            /\ \A i \in d.certs \ d.trusted : \A j \in d.certs : j <= i

\* How far a build is.
BuildInPlace ==
    \A w \in Wrappers : OwnSlot(w) /\ pc[w] \in {"importing", "trusting"} =>
        /\ db[DbPath(w)].made
        /\ db[DbPath(w)].trusted = 1..(at[w] - 1)
        /\ db[DbPath(w)].certs = IF pc[w] = "importing" THEN 1..(at[w] - 1) ELSE 1..at[w]

\* The flag is set between two calls only, and by a finished build.
FlagIsTrue ==
    \A w \in Wrappers : OwnSlot(w) =>
        /\ running[w] # {} => ready[w]
        /\ ready[w] => pc[w] = "idle" /\ Complete(DbPath(w))

NssInv == LockInv /\ PrefixOfBuild /\ BuildInPlace /\ FlagIsTrue

-----------------------------------------------------------------------------
(* The lock                                                                 *)

LEMMA PathFacts ==
    ASSUME NEW w \in Wrappers
    PROVE  DbPath(w) \in Paths
  BY DEF Paths

LEMMA LockInit == Init => LockInv
  <1> SUFFICES ASSUME Init PROVE LockInv
    OBVIOUS
  <1>1. 1 \in Ids
    BY NssAssumption DEF Ids
  <1>2. TypeOK
    BY <1>1 DEF Init, TypeOK, NoDb, Calls, Roles
  <1>3. HolderBuilds
    BY NssAssumption, PathFacts DEF Init, HolderBuilds, Building
  <1> QED
    BY <1>2, <1>3 DEF LockInv

LEMMA NextIdentity ==
    ASSUME NEW i \in Ids, i # NumIdentities
    PROVE  i + 1 \in Ids
  BY NssAssumption DEF Ids

LEMMA EnsuredType ==
    ASSUME TypeOK, NEW w \in Wrappers, Ensured(w)
    PROVE  /\ lock' \in [Paths -> Wrappers \cup {NoOne}]
           /\ pc' \in [Wrappers -> {"down", "idle", "locking", "checking",
                                    "importing", "trusting"}]
           /\ ready' \in [Wrappers -> BOOLEAN]
           /\ running' \in [Wrappers -> SUBSET Roles]
  BY PathFacts DEF TypeOK, Ensured, Unlock, Goto, Started, Calls, Roles

LEMMA TypeStep ==
    ASSUME TypeOK, NEW w \in Wrappers, Step(w)
    PROVE  TypeOK'
  <1> USE PathFacts, NssAssumption DEF TypeOK, Goto
  <1>1. CASE Start(w)          BY <1>1 DEF Start
  <1>2. CASE ServeAtOnce(w)    BY <1>2 DEF ServeAtOnce, Started, Calls, Roles
  <1>3. CASE BeginEnsure(w)    BY <1>3 DEF BeginEnsure, Calls, Roles
  <1>4. CASE Lock(w)           BY <1>4 DEF Lock
  <1>5. CASE Reuse(w)          BY <1>5, EnsuredType DEF Reuse
  <1>6. CASE Recreate(w)
    <2>1. 1 \in Ids
      BY DEF Ids
    <2> QED
      BY <1>6, <2>1 DEF Recreate, NoDb
  <1>7. CASE Import(w)         BY <1>7 DEF Import
  <1>8. CASE Trust(w)
    <2>0. /\ db' \in [Paths -> [made : BOOLEAN, certs : SUBSET Ids, trusted : SUBSET Ids]]
          /\ call' = call
      BY <1>8 DEF Trust
    <2>1. CASE at[w] = NumIdentities
      <3>1. Ensured(w) /\ at' = at
        BY <1>8, <2>1 DEF Trust
      <3> HIDE DEF Goto
      <3> QED
        BY <2>0, <3>1, EnsuredType
    <2>2. CASE at[w] # NumIdentities
      <3>1. at[w] + 1 \in Ids
        BY <2>2, NextIdentity
      <3>2. /\ at' = [at EXCEPT ![w] = @ + 1] /\ Goto(w, "importing")
            /\ UNCHANGED <<lock, ready, running>>
        BY <1>8, <2>2 DEF Trust
      <3> QED
        BY <2>0, <3>1, <3>2
    <2> QED
      BY <2>1, <2>2
  <1>9. CASE ToolFails(w)      BY <1>9 DEF ToolFails, Unlock
  <1>10. CASE Close(w)         BY <1>10 DEF Close, NoDb, Roles
  <1>11. CASE ProcessExits(w)  BY <1>11 DEF ProcessExits
  <1>12. CASE Die(w)           BY <1>12 DEF Die, Unlock
  <1> QED
    BY <1>1, <1>2, <1>3, <1>4, <1>5, <1>6, <1>7, <1>8, <1>9, <1>10, <1>11, <1>12
    DEF Step

\* Leaving the build frees the lock, and only then is it another's.
LEMMA UnlockFacts ==
    ASSUME LockInv, NEW w \in Wrappers, Unlock(w),
           \E step \in {"down", "idle"} : Goto(w, step)
    PROVE  HolderBuilds'
  <1>1. /\ lock'[DbPath(w)] # w
        /\ \A v \in Wrappers \ {w} : lock[DbPath(v)] = v <=> lock'[DbPath(v)] = v
    BY PathFacts, NssAssumption DEF LockInv, TypeOK, Unlock
  <1>2. ~ Building(w)' /\ \A v \in Wrappers \ {w} : Building(v)' <=> Building(v)
    BY DEF LockInv, TypeOK, Building, Goto
  <1> QED
    BY <1>1, <1>2 DEF LockInv, HolderBuilds

\* A step that leaves the lock alone neither enters nor leaves the build.
LEMMA KeepsLock ==
    ASSUME LockInv, NEW w \in Wrappers, UNCHANGED lock,
           NEW step, Goto(w, step),
           Building(w) <=> step \in {"checking", "importing", "trusting"}
    PROVE  HolderBuilds'
  BY DEF LockInv, TypeOK, HolderBuilds, Building, Goto

LEMMA LockStep == LockInv /\ [Next]_vars => LockInv'
  <1> SUFFICES ASSUME LockInv, [Next]_vars PROVE LockInv'
    OBVIOUS
  <1>1. CASE UNCHANGED vars
    BY <1>1 DEF LockInv, TypeOK, HolderBuilds, Building, DbPath, Paths, vars
  <1>2. ASSUME NEW w \in Wrappers, Step(w) PROVE LockInv'
    <2>1. TypeOK'
      BY <1>2, TypeStep DEF LockInv
    <2>2. HolderBuilds'
      <3>1. CASE Start(w)
        BY <3>1, KeepsLock DEF Start, Building
      <3>2. CASE ServeAtOnce(w) \/ Close(w) \/ ProcessExits(w)
        BY <3>2 DEF ServeAtOnce, Close, ProcessExits, LockInv, HolderBuilds, Building
      <3>3. CASE BeginEnsure(w)
        BY <3>3, KeepsLock DEF BeginEnsure, Building
      <3>4. CASE Lock(w)
        <4>1. lock'[DbPath(w)] = w /\ Building(w)'
          BY <3>4, PathFacts DEF Lock, Goto, Building, LockInv, TypeOK
        <4>2. \A v \in Wrappers \ {w} :
                 /\ Building(v)' <=> Building(v)
                 /\ lock[DbPath(v)] = v <=> lock'[DbPath(v)] = v
          BY <3>4, PathFacts, NssAssumption DEF Lock, Goto, Building, LockInv, TypeOK
        <4> QED
          BY <4>1, <4>2 DEF HolderBuilds, LockInv
      <3>5. CASE Reuse(w)
        BY <3>5, UnlockFacts DEF Reuse, Ensured
      <3>6. CASE Recreate(w)
        BY <3>6, KeepsLock DEF Recreate, Building
      <3>7. CASE Import(w)
        BY <3>7, KeepsLock DEF Import, Building
      <3>8. CASE Trust(w)
        <4>1. CASE at[w] = NumIdentities
          BY <3>8, <4>1, UnlockFacts DEF Trust, Ensured
        <4>2. CASE at[w] # NumIdentities
          BY <3>8, <4>2, KeepsLock DEF Trust, Building
        <4> QED
          BY <4>1, <4>2
      <3>9. CASE ToolFails(w)
        BY <3>9, UnlockFacts DEF ToolFails
      <3>10. CASE Die(w)
        BY <3>10, UnlockFacts DEF Die
      <3> QED
        BY <1>2, <3>1, <3>2, <3>3, <3>4, <3>5, <3>6, <3>7, <3>8, <3>9, <3>10 DEF Step
    <2> QED
      BY <2>1, <2>2 DEF LockInv
  <1> QED
    BY <1>1, <1>2 DEF Next

(* The NSS wrappers' state has its type, whoever shares a path with whom.    *)
THEOREM NssTypeCorrect == Spec => []TypeOK
  <1>1. LockInv => TypeOK
    BY DEF LockInv
  <1> QED
    BY LockInit, LockStep, <1>1, PTL DEF Spec

(* No two wrappers are between the check of one database and the end of its  *)
(* import, for any wrappers and any paths, whoever dies or fails in between. *)
THEOREM NssBuildsAlone == Spec => []BuildsAlone
  <1>1. LockInv => BuildsAlone
    BY DEF LockInv, HolderBuilds, BuildsAlone
  <1> QED
    BY LockInit, LockStep, <1>1, PTL DEF Spec

-----------------------------------------------------------------------------
(* The database of a wrapper that shares its slot with nobody               *)

LEMMA NssInit == Init => NssInv
  <1> SUFFICES ASSUME Init PROVE NssInv
    OBVIOUS
  <1>1. LockInv
    BY LockInit
  <1>2. PrefixOfBuild
    BY PathFacts DEF Init, PrefixOfBuild, NoDb
  <1>3. BuildInPlace /\ FlagIsTrue
    BY DEF Init, BuildInPlace, FlagIsTrue
  <1> QED
    BY <1>1, <1>2, <1>3 DEF NssInv

LEMMA OwnPath ==
    ASSUME NEW v \in Wrappers, NEW w \in Wrappers \ {v}, OwnSlot(v)
    PROVE  DbPath(v) # DbPath(w)
  <1>1. SlotOf[v] # SlotOf[w]
    BY DEF OwnSlot
  <1> DEFINE first(u) == DbPath(u)[1]
  <1>2. CASE SlotOf[v] = NoSlot \/ SlotOf[w] = NoSlot
    <2>1. ASSUME NEW u \in Wrappers
          PROVE  first(u) = IF SlotOf[u] = NoSlot THEN "nss" ELSE "nss_slot"
      BY DEF DbPath
    <2> QED
      BY <1>1, <1>2, <2>1
  <1>3. CASE SlotOf[v] # NoSlot /\ SlotOf[w] # NoSlot
    <2>1. DbPath(v)[2] = SlotOf[v] /\ DbPath(w)[2] = SlotOf[w]
      BY <1>3 DEF DbPath
    <2> QED
      BY <1>1, <2>1
  <1> QED
    BY <1>2, <1>3

\* Nobody else's step is seen in what NssInv says of such a wrapper.
LEMMA OthersKeep ==
    ASSUME NssInv, NEW w \in Wrappers, Step(w), NEW v \in Wrappers \ {w}, OwnSlot(v)
    PROVE  /\ db'[DbPath(v)] = db[DbPath(v)]
           /\ pc'[v] = pc[v] /\ at'[v] = at[v]
           /\ ready'[v] = ready[v] /\ running'[v] = running[v]
  <1>1. DbPath(v) # DbPath(w) /\ DbPath(v) \in Paths /\ DbPath(w) \in Paths
    BY PathFacts, OwnPath
  <1>2. /\ db \in [Paths -> [made : BOOLEAN, certs : SUBSET Ids, trusted : SUBSET Ids]]
        /\ pc \in [Wrappers -> {"down", "idle", "locking", "checking", "importing", "trusting"}]
        /\ at \in [Wrappers -> Ids]
        /\ ready \in [Wrappers -> BOOLEAN]
        /\ running \in [Wrappers -> SUBSET Roles]
    BY DEF NssInv, LockInv, TypeOK
  <1>3. db'[DbPath(v)] = db[DbPath(v)]
    BY <1>1, <1>2 DEF Step, Start, ServeAtOnce, BeginEnsure, Lock, Reuse, Recreate,
                      Import, Trust, ToolFails, Close, ProcessExits, Die
  <1>4. pc'[v] = pc[v]
    BY <1>2 DEF Step, Start, ServeAtOnce, BeginEnsure, Lock, Reuse, Recreate, Import,
                Trust, ToolFails, Close, ProcessExits, Die, Goto, Ensured
  <1>5. at'[v] = at[v]
    BY <1>2 DEF Step, Start, ServeAtOnce, BeginEnsure, Lock, Reuse, Recreate, Import,
                Trust, ToolFails, Close, ProcessExits, Die
  <1>6. ready'[v] = ready[v]
    BY <1>2 DEF Step, Start, ServeAtOnce, BeginEnsure, Lock, Reuse, Recreate, Import,
                Trust, ToolFails, Close, ProcessExits, Die, Ensured
  <1>7. running'[v] = running[v]
    BY <1>2 DEF Step, Start, ServeAtOnce, BeginEnsure, Lock, Reuse, Recreate, Import,
                Trust, ToolFails, Close, ProcessExits, Die, Ensured, Started
  <1> QED
    BY <1>3, <1>4, <1>5, <1>6, <1>7

\* So it is enough to look at w itself and at its own database.
LEMMA OwnStep ==
    ASSUME NssInv, NEW w \in Wrappers, OwnSlot(w), Step(w)
    PROVE  /\ db'[DbPath(w)].trusted \subseteq db'[DbPath(w)].certs
           /\ \A i \in db'[DbPath(w)].certs : 1..i \subseteq db'[DbPath(w)].certs
           /\ \A i \in db'[DbPath(w)].certs \ db'[DbPath(w)].trusted :
                 \A j \in db'[DbPath(w)].certs : j <= i
           /\ pc'[w] \in {"importing", "trusting"} =>
                 /\ db'[DbPath(w)].made
                 /\ db'[DbPath(w)].trusted = 1..(at'[w] - 1)
                 /\ db'[DbPath(w)].certs =
                      IF pc'[w] = "importing" THEN 1..(at'[w] - 1) ELSE 1..at'[w]
           /\ running'[w] # {} => ready'[w]
           /\ ready'[w] => pc'[w] = "idle" /\ Complete(DbPath(w))'
  <1> DEFINE p == DbPath(w)
             Good(d) == /\ d.trusted \subseteq d.certs
                        /\ \A i \in d.certs : 1..i \subseteq d.certs
                        /\ \A i \in d.certs \ d.trusted : \A j \in d.certs : j <= i
             InPlace(d, c, n) == c \in {"importing", "trusting"} =>
                        /\ d.made
                        /\ d.trusted = 1..(n - 1)
                        /\ d.certs = IF c = "importing" THEN 1..(n - 1) ELSE 1..n
             Flag(d, c, f, r) == /\ r # {} => f
                                 /\ f => c = "idle" /\ d.certs = Ids
  <1>1. /\ p \in Paths /\ at[w] \in Nat \ {0} /\ at[w] \in Ids
        /\ db \in [Paths -> [made : BOOLEAN, certs : SUBSET Ids, trusted : SUBSET Ids]]
        /\ pc \in [Wrappers -> {"down", "idle", "locking", "checking", "importing", "trusting"}]
        /\ at \in [Wrappers -> Ids]
        /\ ready \in [Wrappers -> BOOLEAN]
        /\ running \in [Wrappers -> SUBSET Roles]
    <2>1. at[w] \in Ids
      BY DEF NssInv, LockInv, TypeOK
    <2>2. at[w] \in Nat \ {0}
      BY <2>1, NssAssumption DEF Ids
    <2> QED
      BY <2>1, <2>2, PathFacts DEF NssInv, LockInv, TypeOK
  <1>2. Good(db[p]) /\ InPlace(db[p], pc[w], at[w]) /\ Flag(db[p], pc[w], ready[w], running[w])
    BY <1>1 DEF NssInv, PrefixOfBuild, BuildInPlace, FlagIsTrue, Complete
  <1>3. SUFFICES /\ Good(db'[p])
                 /\ InPlace(db'[p], pc'[w], at'[w])
                 /\ Flag(db'[p], pc'[w], ready'[w], running'[w])
    BY DEF Complete, DbPath
  <1> HIDE DEF p
  <1>4. CASE Start(w)
    BY <1>1, <1>2, <1>4 DEF Start, Goto
  <1>5. CASE ServeAtOnce(w) \/ ProcessExits(w)
    BY <1>1, <1>2, <1>5 DEF ServeAtOnce, ProcessExits, Started
  <1>6. CASE BeginEnsure(w)
    BY <1>1, <1>2, <1>6 DEF BeginEnsure, Goto
  <1>7. CASE Lock(w)
    BY <1>1, <1>2, <1>7 DEF Lock, Goto
  <1>8. CASE Reuse(w)
    BY <1>1, <1>2, <1>8 DEF Reuse, Ensured, Goto, Complete, p
  <1>9. CASE Recreate(w)
    <2>1. db'[p] = [made |-> TRUE, certs |-> {}, trusted |-> {}]
      BY <1>1, <1>9 DEF Recreate, NoDb, p
    <2>2. pc'[w] = "importing" /\ at'[w] = 1 /\ ready'[w] = ready[w] /\ running'[w] = running[w]
      BY <1>1, <1>9 DEF Recreate, Goto
    <2>3. pc[w] = "checking"
      BY <1>9 DEF Recreate
    <2> QED
      BY <1>2, <2>1, <2>2, <2>3
  <1>10. CASE Import(w)
    <2>1. /\ db'[p].made = db[p].made /\ db'[p].trusted = db[p].trusted
          /\ db'[p].certs = db[p].certs \cup {at[w]}
      BY <1>1, <1>10 DEF Import, p
    <2>2. pc'[w] = "trusting" /\ at'[w] = at[w] /\ ready'[w] = ready[w] /\ running'[w] = running[w]
      BY <1>1, <1>10 DEF Import, Goto
    <2>3. pc[w] = "importing"
      BY <1>10 DEF Import
    <2>4. db[p].made /\ db[p].trusted = 1..(at[w] - 1) /\ db'[p].certs = 1..at[w]
      BY <1>1, <1>2, <2>1, <2>3
    <2>5. Good(db'[p])
      BY <1>1, <2>1, <2>4
    <2> QED
      BY <1>2, <2>1, <2>2, <2>3, <2>4, <2>5
  <1>11. CASE Trust(w)
    <2>1. /\ db'[p].made = db[p].made /\ db'[p].certs = db[p].certs
          /\ db'[p].trusted = db[p].trusted \cup {at[w]}
      BY <1>1, <1>11 DEF Trust, p
    <2>2. pc[w] = "trusting"
      BY <1>11 DEF Trust
    <2>3. db'[p].made /\ db'[p].certs = 1..at[w] /\ db'[p].trusted = 1..at[w]
      BY <1>1, <1>2, <2>1, <2>2
    <2>4. Good(db'[p])
      BY <1>1, <2>3
    <2>5. CASE at[w] = NumIdentities
      <3>1. pc'[w] = "idle" /\ ready'[w] = TRUE
        BY <1>1, <1>11, <2>5 DEF Trust, Ensured, Goto
      <3>2. db'[p].certs = Ids
        BY <2>3, <2>5 DEF Ids
      <3> QED
        BY <2>4, <3>1, <3>2
    <2>6. CASE at[w] # NumIdentities
      <3>1. /\ pc'[w] = "importing" /\ at'[w] = at[w] + 1
            /\ ready'[w] = ready[w] /\ running'[w] = running[w]
        BY <1>1, <1>11, <2>6 DEF Trust, Goto
      <3>2. 1..(at'[w] - 1) = 1..at[w]
        BY <1>1, <3>1
      <3> QED
        BY <1>2, <2>2, <2>3, <2>4, <3>1, <3>2
    <2> QED
      BY <2>5, <2>6
  <1>12. CASE ToolFails(w)
    BY <1>1, <1>2, <1>12 DEF ToolFails, Goto
  <1>13. CASE Close(w)
    <2>1. db'[p] = NoDb /\ pc'[w] = "idle" /\ ready'[w] = FALSE /\ running'[w] = {}
      BY <1>1, <1>13 DEF Close, p
    <2> QED
      BY <2>1 DEF NoDb
  <1>14. CASE Die(w)
    BY <1>1, <1>2, <1>14 DEF Die, Goto
  <1> QED
    BY <1>4, <1>5, <1>6, <1>7, <1>8, <1>9, <1>10, <1>11, <1>12, <1>13, <1>14 DEF Step

LEMMA NssStep == NssInv /\ [Next]_vars => NssInv'
  <1> SUFFICES ASSUME NssInv, [Next]_vars PROVE NssInv'
    OBVIOUS
  <1>1. LockInv'
    BY LockStep DEF NssInv
  <1>2. CASE UNCHANGED vars
    BY <1>1, <1>2 DEF NssInv, PrefixOfBuild, BuildInPlace, FlagIsTrue, Complete, DbPath, OwnSlot, vars
  <1>3. ASSUME NEW w \in Wrappers, Step(w) PROVE NssInv'
    <2>1. PrefixOfBuild'
      <3> SUFFICES ASSUME NEW v \in Wrappers, OwnSlot(v)
                   PROVE  LET d == db'[DbPath(v)]
                          IN  /\ d.trusted \subseteq d.certs
                              /\ \A i \in d.certs : 1..i \subseteq d.certs
                              /\ \A i \in d.certs \ d.trusted : \A j \in d.certs : j <= i
        BY DEF PrefixOfBuild, DbPath, OwnSlot
      <3>1. CASE v = w
        BY <1>3, <3>1, OwnStep
      <3>2. CASE v # w
        <4>1. db'[DbPath(v)] = db[DbPath(v)]
          BY <1>3, <3>2, OthersKeep
        <4> QED
          BY <4>1 DEF NssInv, PrefixOfBuild
      <3> QED
        BY <3>1, <3>2
    <2>2. BuildInPlace'
      <3> SUFFICES ASSUME NEW v \in Wrappers, OwnSlot(v),
                          pc'[v] \in {"importing", "trusting"}
                   PROVE  /\ db'[DbPath(v)].made
                          /\ db'[DbPath(v)].trusted = 1..(at'[v] - 1)
                          /\ db'[DbPath(v)].certs =
                               IF pc'[v] = "importing" THEN 1..(at'[v] - 1) ELSE 1..at'[v]
        BY DEF BuildInPlace, DbPath, OwnSlot
      <3>1. CASE v = w
        BY <1>3, <3>1, OwnStep
      <3>2. CASE v # w
        BY <1>3, <3>2, OthersKeep DEF NssInv, BuildInPlace
      <3> QED
        BY <3>1, <3>2
    <2>3. FlagIsTrue'
      <3> SUFFICES ASSUME NEW v \in Wrappers, OwnSlot(v)
                   PROVE  /\ running'[v] # {} => ready'[v]
                          /\ ready'[v] => pc'[v] = "idle" /\ db'[DbPath(v)].certs = Ids
        BY DEF FlagIsTrue, Complete, DbPath, OwnSlot
      <3>1. CASE v = w
        BY <1>3, <3>1, OwnStep DEF Complete, DbPath
      <3>2. CASE v # w
        BY <1>3, <3>2, OthersKeep DEF NssInv, FlagIsTrue, Complete
      <3> QED
        BY <3>1, <3>2
    <2> QED
      BY <1>1, <2>1, <2>2, <2>3 DEF NssInv
  <1> QED
    BY <1>2, <1>3 DEF Next

(* Whoever shares its slot with nobody never has its flag set, nor a CLI     *)
(* process running, over a database that lacks a nickname: for any number of *)
(* slots and identities, failing tools and deaths.                           *)
THEOREM NssInUseIsComplete == Spec => []InUseIsComplete
  <1>1. NssInv => InUseIsComplete
    BY DEF NssInv, FlagIsTrue, InUseIsComplete
  <1> QED
    BY NssInit, NssStep, <1>1, PTL DEF Spec

(* Whatever a death left behind, a wrapper that trusts its database misses   *)
(* the trust of the last identity at most.                                   *)
THEOREM NssOnlyLastUntrusted == Spec => []OnlyLastUntrusted
  <1>1. NssInv => OnlyLastUntrusted
    <2> SUFFICES ASSUME NssInv, NEW w \in Wrappers, OwnSlot(w), ready[w],
                        NEW i \in Ids \ db[DbPath(w)].trusted
                 PROVE  i = NumIdentities
      BY DEF OnlyLastUntrusted
    <2>1. db[DbPath(w)].certs = Ids
      BY DEF NssInv, FlagIsTrue, Complete
    <2>2. \A j \in Ids : j <= i
      BY <2>1 DEF NssInv, PrefixOfBuild
    <2> QED
      BY <2>2, NssAssumption DEF Ids
  <1> QED
    BY NssInit, NssStep, <1>1, PTL DEF Spec
=============================================================================
