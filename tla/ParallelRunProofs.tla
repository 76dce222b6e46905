------------------------- MODULE ParallelRunProofs -------------------------
(***************************************************************************)
(* Proofs of the safety properties of ParallelRun, for any number of jobs,  *)
(* cells and wrappers, any cells that raise and wrappers that exit, and any *)
(* ports taken by others.                                                   *)
(***************************************************************************)
EXTENDS ParallelRun, FiniteSetTheorems, TLAPS

StartSteps == {"checking", "spawning", "waiting", "metadata"}

Quiet     == work = <<>> /\ \A t \in PoolThreads : thr[t] = Idle
NoneRan   == \A c \in Cells : outcome[c] = "none"
AllRan    == \A c \in Cells : outcome[c] # "none"
InWork(c) == \E i \in 1 .. Len(work) : work[i] = c
InHand(c) == \E t \in PoolThreads : thr[t].pc # "idle" /\ thr[t].cell = c

(* Every slot is in one place. *)
SlotsApart ==
    /\ \A i, j \in 1 .. Len(slotq) : slotq[i] = slotq[j] => i = j
    /\ \A i \in 1 .. Len(slotq), t \in PoolThreads : ~ Holds(t, slotq[i])
    /\ \A s \in Slots, t, u \in PoolThreads : Holds(t, s) /\ Holds(u, s) => t = u
    /\ \A s \in Slots : \/ \E i \in 1 .. Len(slotq) : slotq[i] = s
                        \/ \E t \in PoolThreads : Holds(t, s)

(* A cell that has been submitted waits, is in the hand of a thread, or has  *)
(* its outcome; the pool works only between the start and the stop.          *)
CellsAccounted ==
    /\ mpc \in StartSteps => slot \in Slots /\ Quiet /\ NoneRan
    /\ mpc \in {"collecting", "draining"} =>
          \A c \in Cells : outcome[c] # "none" \/ InWork(c) \/ InHand(c)
    /\ mpc = "stopping" => Quiet /\ AllRan
    /\ mpc = "exited" => Quiet /\ (NoneRan \/ AllRan)

CameUp(s, b)  == proc[<<s, b>>] \notin {"none", "booting"}
PortsOurs(s)  == \A b \in Wrappers : GrpcPort(s, b) \notin taken
SessionUp(s)  == PortsOurs(s) /\ \A b \in Wrappers : CameUp(s, b)

(* The sessions before the current one are up; of the current one, the       *)
(* wrappers that have answered.                                              *)
SessionsInOrder ==
    /\ mpc \in {"spawning", "waiting", "metadata"} => PortsOurs(slot)
    /\ mpc = "waiting" => \A b \in Wrappers \ pending : CameUp(slot, b)
    /\ mpc = "metadata" => \A b \in Wrappers : CameUp(slot, b)
    /\ mpc \in StartSteps => \A k \in Slots : k < slot => SessionUp(k)
    /\ mpc \in {"collecting", "draining"} => \A k \in Slots : SessionUp(k)

StopsInOrder ==
    /\ mpc = "stopping" => \A k \in Slots, b \in Wrappers : k < slot => ~ Alive(<<k, b>>)
    /\ mpc = "exited" /\ ~ NoneRan => \A k \in Slots, b \in Wrappers : ~ Alive(<<k, b>>)

(* A cell that gives its slot back has a result. *)
ResultReady == \A t \in PoolThreads : thr[t].pc = "returning" => thr[t].res \in Results

PInv == /\ TypeOK /\ ResultReady /\ SlotsApart /\ CellsAccounted
        /\ SessionsInOrder /\ StopsInOrder

-----------------------------------------------------------------------------
(* Constants                                                                *)

LEMMA SlotsFact == EffectiveJobs \in Nat \ {0}
  <1> DEFINE S == {Jobs, NumCells, MaxJobs}
  <1>1. Jobs \in Nat \ {0} /\ NumCells \in Nat \ {0} /\ MaxJobs \in Nat \ {0}
    BY ParallelAssumption
  <1>2. \E n \in S : \A m \in S : n <= m
    BY <1>1
  <1>3. EffectiveJobs \in S
    BY <1>2 DEF EffectiveJobs
  <1> QED
    BY <1>1, <1>3

LEMMA BackendsFact ==
    /\ Len(Backends) \in Nat
    /\ \A j \in 1 .. Len(Backends) : Backends[j] \in Wrappers
    /\ DOMAIN Backends = 1 .. Len(Backends)
  BY ParallelAssumption DEF Wrappers

(* The stride separates the slots, whatever the bases in one slot are. *)
LEMMA StrideSeparates ==
    ASSUME NEW x \in Nat, NEW y \in Nat, NEW d \in Nat,
           NEW s \in Nat, NEW u \in Nat, s < u, x - y < d
    PROVE  x + s * d # y + u * d
  <1>1. PICK k \in Nat : u = s + 1 + k
    <2>1. u - s - 1 \in Nat /\ u = s + 1 + (u - s - 1)
      OBVIOUS
    <2> QED
      BY <2>1
  <1>2. u * d = s * d + d + k * d
    BY <1>1
  <1>3. s * d \in Nat /\ k * d \in Nat
    OBVIOUS
  <1> QED
    BY <1>2, <1>3

(* Each wrapper of each slot has a port of its own. *)
LEMMA PortsDiffer ==
    ASSUME NEW s \in Slots, NEW b \in Wrappers, NEW u \in Slots, NEW c \in Wrappers,
           GrpcPort(s, b) = GrpcPort(u, c)
    PROVE  s = u /\ b = c
  <1>1. /\ s \in Nat /\ u \in Nat /\ Stride \in Nat
        /\ BasePort[b] \in Nat /\ BasePort[c] \in Nat
    BY SlotsFact, ParallelAssumption DEF Slots
  <1>2. BasePort[b] - BasePort[c] < Stride /\ BasePort[c] - BasePort[b] < Stride
    BY ParallelAssumption
  <1>3. BasePort[b] + s * Stride = BasePort[c] + u * Stride
    BY DEF GrpcPort
  <1>4. ~ (s < u) /\ ~ (u < s)
    BY <1>1, <1>2, <1>3, StrideSeparates
  <1>5. s = u
    BY <1>1, <1>4
  <1>6. BasePort[b] = BasePort[c]
    <2>1. s * Stride \in Int
      BY <1>1
    <2> QED
      BY <1>1, <1>3, <1>5, <2>1
  <1> QED
    BY <1>5, <1>6, ParallelAssumption

-----------------------------------------------------------------------------
(* The beginning                                                            *)

LEMMA RunBegins == Init => PInv
  <1> SUFFICES ASSUME Init PROVE PInv
    OBVIOUS
  <1> USE DEF Init
  <1>1. 0 \in Slots /\ \A i \in 1 .. EffectiveJobs : i - 1 \in Slots
    BY SlotsFact DEF Slots
  <1>2. slotq \in Seq(Slots) /\ Len(slotq) = EffectiveJobs
    BY <1>1, SlotsFact
  <1>3. Idle \in [pc : {"idle", "planning", "running", "returning"},
                  cell : Cells \cup {0}, slot : Slots, res : Results \cup {"none"}]
    BY <1>1 DEF Idle, At
  <1>4. TypeOK
    <2>1. thr \in [PoolThreads -> [pc : {"idle", "planning", "running", "returning"},
                    cell : Cells \cup {0}, slot : Slots, res : Results \cup {"none"}]]
      BY <1>3
    <2>2. work \in Seq(Cells) /\ slot \in 0 .. EffectiveJobs /\ at \in 1 .. Len(Backends) + 1
      BY SlotsFact, BackendsFact
    <2> QED
      BY <1>2, <2>1, <2>2 DEF TypeOK, MainSteps
  <1>5. \A t \in PoolThreads, s \in Slots : ~ Holds(t, s)
    BY DEF Holds, Idle, At
  <1>6. \A i \in 1 .. Len(slotq) : slotq[i] = i - 1
    BY <1>2
  <1>7. SlotsApart
    <2>1. \A i, j \in 1 .. Len(slotq) : slotq[i] = slotq[j] => i = j
      BY <1>2, <1>6, SlotsFact
    <2>2. \A i \in 1 .. Len(slotq), t \in PoolThreads : ~ Holds(t, slotq[i])
      BY <1>1, <1>2, <1>5, <1>6
    <2>3. \A s \in Slots : s + 1 \in 1 .. Len(slotq) /\ slotq[s + 1] = s
      BY <1>2, <1>6, SlotsFact DEF Slots
    <2> QED
      BY <1>5, <2>1, <2>2, <2>3 DEF SlotsApart
  <1>8. CellsAccounted
    BY <1>1 DEF CellsAccounted, Quiet, NoneRan, StartSteps
  <1>9. SessionsInOrder /\ StopsInOrder
    BY SlotsFact DEF SessionsInOrder, StopsInOrder, StartSteps, Slots
  <1>10. ResultReady
    BY DEF ResultReady, Idle, At
  <1> QED
    BY <1>4, <1>7, <1>8, <1>9, <1>10 DEF PInv

-----------------------------------------------------------------------------
(* The pool                                                                 *)

(* What a step of the pool keeps that leaves the main thread, the wrappers   *)
(* and the ports alone.                                                      *)
LEMMA PoolKeepsSessions ==
    ASSUME PInv, UNCHANGED <<mpc, session, proc, taken>>,
           mpc \in {"collecting", "draining"}
    PROVE  SessionsInOrder' /\ StopsInOrder'
  BY DEF PInv, SessionsInOrder, StopsInOrder, SessionUp, PortsOurs, CameUp, Alive,
         session, StartSteps

LEMMA PoolWorksBetween ==
    ASSUME PInv, NEW t \in PoolThreads, work # <<>> \/ thr[t].pc # "idle"
    PROVE  mpc \in {"collecting", "draining"}
  BY DEF PInv, TypeOK, MainSteps, CellsAccounted, StartSteps, Quiet, Idle, At

LEMMA SlotsStay ==
    ASSUME SlotsApart, slotq' = slotq,
           \A u \in PoolThreads : \A s : Holds(u, s)' <=> Holds(u, s)
    PROVE  SlotsApart'
  BY DEF SlotsApart

LEMMA TakeCellKeeps ==
    ASSUME PInv, NEW t \in PoolThreads, TakeCell(t),
           UNCHANGED <<mpc, session, proc, taken, results>>
    PROVE  PInv'
  <1> USE DEF TakeCell
  <1>1. mpc \in {"collecting", "draining"}
    BY PoolWorksBetween
  <1>2. /\ work \in Seq(Cells) /\ work # <<>> /\ Len(work) \in Nat
        /\ Head(work) \in Cells /\ Tail(work) \in Seq(Cells)
        /\ Head(work) = work[1] /\ Len(Tail(work)) = Len(work) - 1
        /\ \A i \in 1 .. Len(Tail(work)) : Tail(work)[i] = work[i + 1]
    BY DEF PInv, TypeOK
  <1> DEFINE new == At("planning", Head(work), 0, "none")
  <1>3. 0 \in Slots
    BY SlotsFact DEF Slots
  <1>4. new \in [pc : {"idle", "planning", "running", "returning"},
                 cell : Cells \cup {0}, slot : Slots, res : Results \cup {"none"}]
        /\ new.pc = "planning" /\ new.cell = Head(work)
    BY <1>2, <1>3 DEF At
  <1>5. thr'[t] = new /\ \A u \in PoolThreads : u # t => thr'[u] = thr[u]
    BY DEF PInv, TypeOK
  <1>6. TypeOK'
    <2> HIDE DEF new
    <2>1. thr' = [thr EXCEPT ![t] = new]
      BY DEF new
    <2> QED
      BY <1>2, <1>4, <2>1 DEF PInv, TypeOK, session
  <1>7. \A u \in PoolThreads : \A s : Holds(u, s)' <=> Holds(u, s)
    <2> HIDE DEF new
    <2> QED
      BY <1>4, <1>5 DEF Holds
  <1>8. SlotsApart'
    BY <1>7, SlotsStay DEF PInv
  <1>9. CellsAccounted'
    <2> SUFFICES ASSUME NEW c \in Cells
                 PROVE  (outcome[c] # "none" \/ InWork(c) \/ InHand(c))'
      BY <1>1 DEF CellsAccounted, StartSteps
    <2>1. CASE outcome[c] # "none"
      BY <2>1
    <2>2. CASE InHand(c)
      <3>1. PICK u \in PoolThreads : thr[u].pc # "idle" /\ thr[u].cell = c
        BY <2>2 DEF InHand
      <3> QED
        BY <3>1, <1>5 DEF InHand
    <2>3. CASE InWork(c)
      <3>1. PICK i \in 1 .. Len(work) : work[i] = c
        BY <2>3 DEF InWork
      <3>2. CASE i = 1
        <4> HIDE DEF new
        <4> QED
          BY <3>1, <3>2, <1>2, <1>4, <1>5 DEF InHand
      <3>3. CASE i # 1
        <4>1. i - 1 \in 1 .. Len(work') /\ work'[i - 1] = c
          BY <3>1, <3>3, <1>2
        <4> QED
          BY <4>1 DEF InWork
      <3> QED
        BY <3>2, <3>3
    <2> QED
      BY <1>1, <2>1, <2>2, <2>3 DEF PInv, CellsAccounted
  <1>10. ResultReady'
    <2> HIDE DEF new
    <2> QED
      BY <1>4, <1>5 DEF PInv, ResultReady
  <1> QED
    BY <1>1, <1>6, <1>8, <1>9, <1>10, PoolKeepsSessions DEF PInv

ThreadTypes == [pc : {"idle", "planning", "running", "returning"},
                cell : Cells \cup {0}, slot : Slots, res : Results \cup {"none"}]

(* One thread takes another record; all others keep theirs. *)
LEMMA ThreadSet ==
    ASSUME PInv, NEW t \in PoolThreads, NEW new \in ThreadTypes,
           thr' = [thr EXCEPT ![t] = new]
    PROVE  /\ thr' \in [PoolThreads -> ThreadTypes]
           /\ thr'[t] = new
           /\ \A u \in PoolThreads : u # t => thr'[u] = thr[u]
  BY DEF PInv, TypeOK, ThreadTypes

LEMMA ThreadFacts ==
    ASSUME PInv, NEW t \in PoolThreads
    PROVE  /\ thr[t].pc \in {"idle", "planning", "running", "returning"}
           /\ thr[t].cell \in Cells \cup {0} /\ thr[t].slot \in Slots
           /\ 0 \in Slots
           /\ Idle \in ThreadTypes
  BY SlotsFact DEF PInv, TypeOK, Slots, Idle, At, ThreadTypes

(* The cell of a thread gets its outcome and the thread is free. *)
LEMMA CellDecided ==
    ASSUME PInv, NEW t \in PoolThreads, NEW r \in Results,
           mpc \in {"collecting", "draining"}, mpc' = mpc, work' = work,
           outcome' = [outcome EXCEPT ![thr[t].cell] = r],
           thr' = [thr EXCEPT ![t] = Idle]
    PROVE  CellsAccounted' /\ outcome' \in [Cells -> Results \cup {"none"}]
  <1>1. outcome \in [Cells -> Results \cup {"none"}]
    BY DEF PInv, TypeOK
  <1>2. \A u \in PoolThreads : u # t => thr'[u] = thr[u]
    BY ThreadFacts, ThreadSet
  <1>3. \A c \in Cells : (outcome[c] # "none" \/ InWork(c) \/ InHand(c))'
    <2> SUFFICES ASSUME NEW c \in Cells
                 PROVE  (outcome[c] # "none" \/ InWork(c) \/ InHand(c))'
      OBVIOUS
    <2>1. CASE c = thr[t].cell
      BY <1>1, <2>1 DEF Results
    <2>2. CASE c # thr[t].cell
      <3>1. outcome'[c] = outcome[c]
        BY <1>1, <2>2
      <3>2. InWork(c)' <=> InWork(c)
        BY DEF InWork
      <3>3. InHand(c) => InHand(c)'
        BY <1>2, <2>2 DEF InHand
      <3> QED
        BY <3>1, <3>2, <3>3 DEF PInv, CellsAccounted
    <2> QED
      BY <2>1, <2>2
  <1>4. CellsAccounted'
    BY <1>3 DEF CellsAccounted, StartSteps
  <1>5. outcome' \in [Cells -> Results \cup {"none"}]
    BY <1>1
  <1> QED
    BY <1>4, <1>5

LEMMA PlanningEndsKeeps ==
    ASSUME PInv, NEW t \in PoolThreads, SkipCell(t) \/ PlanRaises(t),
           UNCHANGED <<mpc, session, proc, taken, results>>
    PROVE  PInv'
  <1>1. thr[t].pc = "planning" /\ thr' = [thr EXCEPT ![t] = Idle]
        /\ UNCHANGED <<work, slotq>>
    BY DEF SkipCell, PlanRaises
  <1>2. PICK r \in Results : outcome' = [outcome EXCEPT ![thr[t].cell] = r]
    BY DEF SkipCell, PlanRaises, Results
  <1>3. mpc \in {"collecting", "draining"}
    BY <1>1, PoolWorksBetween
  <1>4. /\ thr' \in [PoolThreads -> ThreadTypes] /\ thr'[t] = Idle
        /\ \A u \in PoolThreads : u # t => thr'[u] = thr[u]
    BY <1>1, ThreadFacts, ThreadSet
  <1>5. CellsAccounted' /\ outcome' \in [Cells -> Results \cup {"none"}]
    BY <1>1, <1>2, <1>3, CellDecided
  <1>6. TypeOK'
    BY <1>1, <1>4, <1>5 DEF PInv, TypeOK, ThreadTypes, session
  <1>7. \A u \in PoolThreads : \A s : Holds(u, s)' <=> Holds(u, s)
    BY <1>1, <1>4 DEF Holds, Idle, At
  <1>8. ResultReady'
    BY <1>4 DEF PInv, ResultReady, Idle, At
  <1> QED
    BY <1>1, <1>3, <1>5, <1>6, <1>7, <1>8, SlotsStay, PoolKeepsSessions DEF PInv

LEMMA BorrowSlotKeeps ==
    ASSUME PInv, NEW t \in PoolThreads, BorrowSlot(t),
           UNCHANGED <<mpc, session, proc, taken, results>>
    PROVE  PInv'
  <1> DEFINE new == At("running", thr[t].cell, Head(slotq), "none")
  <1>1. /\ thr[t].pc = "planning" /\ slotq # <<>> /\ slotq' = Tail(slotq)
        /\ thr' = [thr EXCEPT ![t] = new] /\ UNCHANGED <<work, outcome>>
    BY DEF BorrowSlot
  <1>2. mpc \in {"collecting", "draining"}
    BY <1>1, PoolWorksBetween
  <1>3. /\ slotq \in Seq(Slots) /\ Len(slotq) \in Nat
        /\ Head(slotq) = slotq[1] /\ slotq[1] \in Slots
        /\ slotq' \in Seq(Slots) /\ Len(slotq') = Len(slotq) - 1
        /\ \A i \in 1 .. Len(slotq') : slotq'[i] = slotq[i + 1] /\ i + 1 \in 1 .. Len(slotq)
        /\ 1 \in 1 .. Len(slotq)
    BY <1>1 DEF PInv, TypeOK
  <1>4. /\ new \in ThreadTypes /\ new.pc = "running" /\ new.cell = thr[t].cell
        /\ new.slot = slotq[1]
    BY <1>3, ThreadFacts DEF At, ThreadTypes
  <1> HIDE DEF new
  <1>5. /\ thr' \in [PoolThreads -> ThreadTypes] /\ thr'[t] = new
        /\ \A u \in PoolThreads : u # t => thr'[u] = thr[u]
    BY <1>1, <1>4, ThreadSet
  <1>6. TypeOK'
    BY <1>1, <1>3, <1>5 DEF PInv, TypeOK, ThreadTypes, session
  <1>7. \A s : Holds(t, s)' <=> s = slotq[1]
    BY <1>4, <1>5 DEF Holds
  <1>8. \A u \in PoolThreads : u # t => \A s : Holds(u, s)' <=> Holds(u, s)
    BY <1>5 DEF Holds
  <1>9. \A s : ~ Holds(t, s)
    BY <1>1 DEF Holds
  <1>10. SlotsApart'
    <2>1. SlotsApart
      BY DEF PInv
    <2>2. \A i, j \in 1 .. Len(slotq') : slotq'[i] = slotq'[j] => i = j
      <3> SUFFICES ASSUME NEW i \in 1 .. Len(slotq'), NEW j \in 1 .. Len(slotq'),
                          slotq'[i] = slotq'[j]
                   PROVE  i = j
        OBVIOUS
      <3>1. /\ i + 1 \in 1 .. Len(slotq) /\ j + 1 \in 1 .. Len(slotq)
            /\ slotq[i + 1] = slotq[j + 1]
        BY <1>3
      <3>2. i + 1 = j + 1
        BY <3>1, <2>1 DEF SlotsApart
      <3> QED
        BY <3>2
    <2>3. \A i \in 1 .. Len(slotq'), u \in PoolThreads : ~ (Holds(u, slotq[i])')
      <3> SUFFICES ASSUME NEW i \in 1 .. Len(slotq'), NEW u \in PoolThreads
                   PROVE  ~ (Holds(u, slotq[i])')
        OBVIOUS
      <3>1. slotq'[i] = slotq[i + 1] /\ slotq[i + 1] # slotq[1]
        BY <1>3, <2>1 DEF SlotsApart
      <3>2. ~ Holds(u, slotq[i + 1])
        BY <1>3, <2>1 DEF SlotsApart
      <3> QED
        BY <3>1, <3>2, <1>7, <1>8
    <2>4. \A u \in PoolThreads : ~ Holds(u, slotq[1])
      BY <1>3, <2>1 DEF SlotsApart
    <2>5. \A s \in Slots, u, v \in PoolThreads : (Holds(u, s) /\ Holds(v, s))' => u = v
      BY <1>7, <1>8, <2>1, <2>4 DEF SlotsApart
    <2>6. \A s \in Slots : \/ \E i \in 1 .. Len(slotq') : slotq'[i] = s
                           \/ \E u \in PoolThreads : Holds(u, s)'
      <3> SUFFICES ASSUME NEW s \in Slots
                   PROVE  \/ \E i \in 1 .. Len(slotq') : slotq'[i] = s
                          \/ \E u \in PoolThreads : Holds(u, s)'
        OBVIOUS
      <3>1. CASE \E u \in PoolThreads : Holds(u, s)
        BY <3>1, <1>8, <1>9
      <3>2. CASE \E i \in 1 .. Len(slotq) : slotq[i] = s
        <4>1. PICK i \in 1 .. Len(slotq) : slotq[i] = s
          BY <3>2
        <4>2. CASE i = 1
          BY <4>1, <4>2, <1>7
        <4>3. CASE i # 1
          <5>1. i - 1 \in 1 .. Len(slotq') /\ slotq'[i - 1] = s
            BY <4>1, <4>3, <1>3
          <5> QED
            BY <5>1
        <4> QED
          BY <4>2, <4>3
      <3> QED
        BY <3>1, <3>2, <2>1 DEF SlotsApart
    <2> QED
      BY <2>2, <2>3, <2>5, <2>6 DEF SlotsApart
  <1>11. CellsAccounted'
    <2>1. \A c \in Cells : InHand(c) => InHand(c)'
      BY <1>1, <1>4, <1>5 DEF InHand
    <2> QED
      BY <1>1, <1>2, <2>1 DEF PInv, CellsAccounted, InWork, StartSteps
  <1>12. ResultReady'
    BY <1>4, <1>5 DEF PInv, ResultReady
  <1> QED
    BY <1>2, <1>6, <1>10, <1>11, <1>12, PoolKeepsSessions DEF PInv

LEMMA ExecuteCellKeeps ==
    ASSUME PInv, NEW t \in PoolThreads, ExecuteCell(t),
           UNCHANGED <<mpc, session, proc, taken, results>>
    PROVE  PInv'
  <1>1. PICK r \in Results :
            thr' = [thr EXCEPT ![t] = At("returning", thr[t].cell, thr[t].slot, r)]
    BY DEF ExecuteCell
  <1> DEFINE new == At("returning", thr[t].cell, thr[t].slot, r)
  <1>2. thr[t].pc = "running" /\ UNCHANGED <<work, slotq, outcome>>
    BY DEF ExecuteCell
  <1>3. mpc \in {"collecting", "draining"}
    BY <1>2, PoolWorksBetween
  <1>4. /\ new \in ThreadTypes /\ new.pc = "returning" /\ new.cell = thr[t].cell
        /\ new.slot = thr[t].slot /\ new.res = r
    BY ThreadFacts DEF At, ThreadTypes
  <1>5. thr' = [thr EXCEPT ![t] = new]
    BY <1>1
  <1> HIDE DEF new
  <1>6. /\ thr' \in [PoolThreads -> ThreadTypes] /\ thr'[t] = new
        /\ \A u \in PoolThreads : u # t => thr'[u] = thr[u]
    BY <1>4, <1>5, ThreadSet
  <1>7. TypeOK'
    BY <1>2, <1>6 DEF PInv, TypeOK, ThreadTypes, session
  <1>8. \A u \in PoolThreads : \A s : Holds(u, s)' <=> Holds(u, s)
    BY <1>2, <1>4, <1>6 DEF Holds
  <1>9. CellsAccounted'
    <2>1. \A c \in Cells : InHand(c) => InHand(c)'
      BY <1>2, <1>4, <1>6 DEF InHand
    <2> QED
      BY <1>2, <1>3, <2>1 DEF PInv, CellsAccounted, InWork, StartSteps
  <1>10. ResultReady'
    BY <1>4, <1>6 DEF PInv, ResultReady
  <1> QED
    BY <1>2, <1>3, <1>7, <1>8, <1>9, <1>10, SlotsStay, PoolKeepsSessions DEF PInv

LEMMA ReturnSlotKeeps ==
    ASSUME PInv, NEW t \in PoolThreads, ReturnSlot(t),
           UNCHANGED <<mpc, session, proc, taken, results>>
    PROVE  PInv'
  <1>1. /\ thr[t].pc = "returning" /\ slotq' = Append(slotq, thr[t].slot)
        /\ outcome' = [outcome EXCEPT ![thr[t].cell] = thr[t].res]
        /\ thr' = [thr EXCEPT ![t] = Idle] /\ UNCHANGED work
    BY DEF ReturnSlot
  <1>2. mpc \in {"collecting", "draining"}
    BY <1>1, PoolWorksBetween
  <1>3. /\ slotq \in Seq(Slots) /\ Len(slotq) \in Nat /\ thr[t].slot \in Slots
        /\ slotq' \in Seq(Slots) /\ Len(slotq') = Len(slotq) + 1
        /\ slotq'[Len(slotq) + 1] = thr[t].slot
        /\ \A i \in 1 .. Len(slotq) : slotq'[i] = slotq[i] /\ slotq[i] \in Slots
    BY <1>1, ThreadFacts DEF PInv, TypeOK
  <1>4. /\ thr' \in [PoolThreads -> ThreadTypes] /\ thr'[t] = Idle
        /\ \A u \in PoolThreads : u # t => thr'[u] = thr[u]
    BY <1>1, ThreadFacts, ThreadSet
  <1>5. CellsAccounted' /\ outcome' \in [Cells -> Results \cup {"none"}]
    <2>1. CASE thr[t].res \in Results
      BY <1>1, <1>2, <2>1, CellDecided
    <2>2. thr[t].res \in Results
      BY <1>1 DEF PInv, ResultReady
    <2> QED
      BY <2>1, <2>2
  <1>6. TypeOK'
    BY <1>1, <1>3, <1>4, <1>5 DEF PInv, TypeOK, ThreadTypes, session
  <1>7. \A s : ~ Holds(t, s)'
    BY <1>4 DEF Holds, Idle, At
  <1>8. \A u \in PoolThreads : u # t => \A s : Holds(u, s)' <=> Holds(u, s)
    BY <1>4 DEF Holds
  <1>9. \A s : Holds(t, s) <=> s = thr[t].slot
    BY <1>1 DEF Holds
  <1>10. SlotsApart'
    <2>1. SlotsApart
      BY DEF PInv
    <2>2. \A i \in 1 .. Len(slotq) : slotq[i] # thr[t].slot
      BY <1>9, <2>1 DEF SlotsApart
    <2>3. \A i \in 1 .. Len(slotq') : i \in 1 .. Len(slotq) \/ i = Len(slotq) + 1
      BY <1>3
    <2>4. \A i, j \in 1 .. Len(slotq') : slotq'[i] = slotq'[j] => i = j
      BY <1>3, <2>1, <2>2, <2>3 DEF SlotsApart
    <2>5. \A i \in 1 .. Len(slotq'), u \in PoolThreads : ~ (Holds(u, slotq[i])')
      <3> SUFFICES ASSUME NEW i \in 1 .. Len(slotq'), NEW u \in PoolThreads
                   PROVE  ~ (Holds(u, slotq[i])')
        OBVIOUS
      <3>1. CASE u = t
        BY <3>1, <1>7
      <3>2. CASE u # t
        <4>1. (Holds(u, slotq[i])') <=> Holds(u, slotq'[i])
          BY <3>2, <1>4 DEF Holds
        <4>2. ~ Holds(u, thr[t].slot)
          BY <3>2, <1>3, <1>9, <2>1 DEF SlotsApart
        <4>3. i \in 1 .. Len(slotq) => ~ Holds(u, slotq[i])
          BY <2>1 DEF SlotsApart
        <4> QED
          BY <4>1, <4>2, <4>3, <1>3, <2>3
      <3> QED
        BY <3>1, <3>2
    <2>6. \A s \in Slots, u, v \in PoolThreads : (Holds(u, s) /\ Holds(v, s))' => u = v
      BY <1>7, <1>8, <2>1 DEF SlotsApart
    <2>7. \A s \in Slots : \/ \E i \in 1 .. Len(slotq') : slotq'[i] = s
                           \/ \E u \in PoolThreads : Holds(u, s)'
      <3> SUFFICES ASSUME NEW s \in Slots
                   PROVE  \/ \E i \in 1 .. Len(slotq') : slotq'[i] = s
                          \/ \E u \in PoolThreads : Holds(u, s)'
        OBVIOUS
      <3>1. CASE s = thr[t].slot
        <4>1. Len(slotq) + 1 \in 1 .. Len(slotq')
          BY <1>3
        <4> QED
          BY <3>1, <4>1, <1>3
      <3>2. CASE \E i \in 1 .. Len(slotq) : slotq[i] = s
        <4>1. PICK i \in 1 .. Len(slotq) : slotq[i] = s
          BY <3>2
        <4>2. i \in 1 .. Len(slotq') /\ slotq'[i] = s
          BY <4>1, <1>3
        <4> QED
          BY <4>2
      <3>3. CASE s # thr[t].slot /\ \E u \in PoolThreads : Holds(u, s)
        BY <3>3, <1>8, <1>9
      <3> QED
        BY <3>1, <3>2, <3>3, <2>1 DEF SlotsApart
    <2> QED
      BY <2>4, <2>5, <2>6, <2>7 DEF SlotsApart
  <1>11. ResultReady'
    BY <1>4 DEF PInv, ResultReady, Idle, At
  <1> QED
    BY <1>2, <1>5, <1>6, <1>10, <1>11, PoolKeepsSessions DEF PInv

-----------------------------------------------------------------------------
(* The main thread starts the sessions                                      *)

(* The steps of the start leave the pool as it is. *)
LEMMA StartKeepsPool ==
    ASSUME PInv, UNCHANGED pool, mpc \in StartSteps, slot' \in Slots,
           mpc' \in StartSteps \cup {"exited"}
    PROVE  /\ ResultReady' /\ SlotsApart' /\ CellsAccounted' /\ StopsInOrder'
           /\ mpc' = "exited" => SessionsInOrder'
  <1>1. UNCHANGED <<work, slotq, thr, outcome>>
    BY DEF pool
  <1>2. SlotsApart'
    BY <1>1, SlotsStay DEF PInv, Holds
  <1>3. Quiet' /\ NoneRan' /\ mpc' \notin {"collecting", "draining", "stopping"}
    BY <1>1 DEF PInv, CellsAccounted, Quiet, NoneRan, StartSteps
  <1>4. CellsAccounted' /\ StopsInOrder'
    BY <1>3 DEF CellsAccounted, StopsInOrder
  <1>5. mpc' = "exited" => SessionsInOrder'
    BY DEF SessionsInOrder, StartSteps
  <1>6. ResultReady'
    BY <1>1 DEF PInv, ResultReady
  <1> QED
    BY <1>2, <1>4, <1>5, <1>6

LEMMA StartFacts ==
    ASSUME PInv, mpc \in StartSteps
    PROVE  /\ slot \in Slots /\ slot \in Nat /\ at \in Nat
           /\ Len(Backends) \in Nat /\ at \in 1 .. Len(Backends) + 1
           /\ \A j \in 1 .. Len(Backends) : Backends[j] \in Wrappers
           /\ EffectiveJobs \in Nat \ {0}
  BY SlotsFact, BackendsFact DEF PInv, CellsAccounted, TypeOK, Slots

LEMMA StartRaisesKeeps ==
    ASSUME PInv, mpc \in StartSteps, StartRaises
    PROVE  PInv'
  <1>1. TypeOK'
    BY DEF PInv, TypeOK, MainSteps, StartRaises, pool
  <1> QED
    BY <1>1, StartKeepsPool, StartFacts DEF PInv, StartRaises

LEMMA PortsCheckedKeeps ==
    ASSUME PInv, PortsChecked
    PROVE  PInv'
  <1> USE DEF PortsChecked
  <1>1. TypeOK'
    BY BackendsFact DEF PInv, TypeOK, MainSteps, pool
  <1>2. PortsOurs(slot)
    BY DEF PortsOurs, PortInUse
  <1>3. SessionsInOrder'
    BY <1>2 DEF PInv, SessionsInOrder, PortsOurs, SessionUp, CameUp, StartSteps
  <1> QED
    BY <1>1, <1>3, StartKeepsPool, StartFacts DEF PInv, StartSteps

(* The process of one wrapper of the current session changes; the sessions   *)
(* before it are not touched.                                                *)
LEMMA OthersStayUp ==
    ASSUME PInv, NEW b \in Wrappers, NEW p, slot \in Slots,
           proc' = [proc EXCEPT ![<<slot, b>>] = p], taken' = taken,
           NEW k \in Slots, k # slot, SessionUp(k)
    PROVE  SessionUp(k)'
  <1>1. \A c \in Wrappers : proc'[<<k, c>>] = proc[<<k, c>>]
    BY DEF PInv, TypeOK, Services
  <1> QED
    BY <1>1 DEF SessionUp, PortsOurs, CameUp

LEMMA SpawnWrapperKeeps ==
    ASSUME PInv, SpawnWrapper
    PROVE  PInv'
  <1>1. /\ mpc = "spawning" /\ at <= Len(Backends) /\ at' = at + 1
        /\ proc' = [proc EXCEPT ![<<slot, Backends[at]>>] = "booting"]
        /\ UNCHANGED <<mpc, slot, pending, failed, taken, pool, results>>
    BY DEF SpawnWrapper
  <1>2. slot \in Slots /\ slot \in Nat /\ Backends[at] \in Wrappers
    BY <1>1, StartFacts DEF StartSteps
  <1>3. TypeOK'
    <2>1. at' \in 1 .. Len(Backends) + 1
      BY <1>1, StartFacts DEF StartSteps
    <2>2. proc' \in [Services -> {"none", "booting", "serving", "exited"}]
      BY <1>1 DEF PInv, TypeOK
    <2> QED
      BY <1>1, <2>1, <2>2 DEF PInv, TypeOK, pool
  <1>4. \A k \in Slots : k < slot => SessionUp(k)'
    <2>1. \A k \in Slots : k < slot => SessionUp(k) /\ k # slot
      BY <1>1, <1>2 DEF PInv, SessionsInOrder, StartSteps, Slots
    <2> QED
      BY <1>1, <1>2, <2>1, OthersStayUp
  <1>5. SessionsInOrder'
    BY <1>1, <1>4 DEF PInv, SessionsInOrder, PortsOurs, StartSteps
  <1> QED
    BY <1>1, <1>2, <1>3, <1>5, StartKeepsPool DEF PInv, StartSteps

LEMMA ExitsAtOnceKeeps ==
    ASSUME PInv, ExitsAtOnce
    PROVE  PInv'
  <1>1. TypeOK'
    BY DEF PInv, TypeOK, MainSteps, ExitsAtOnce, pool
  <1> QED
    BY <1>1, StartKeepsPool, StartFacts DEF PInv, ExitsAtOnce, StartSteps

LEMMA AllSpawnedKeeps ==
    ASSUME PInv, AllSpawned
    PROVE  PInv'
  <1> USE DEF AllSpawned
  <1>1. TypeOK'
    BY DEF PInv, TypeOK, MainSteps, pool
  <1>2. SessionsInOrder'
    BY DEF PInv, SessionsInOrder, PortsOurs, SessionUp, CameUp, StartSteps
  <1> QED
    BY <1>1, <1>2, StartKeepsPool, StartFacts DEF PInv, StartSteps

(* Whoever answers on a port nobody else holds is the wrapper of the slot. *)
LEMMA AnswerIsOurs ==
    ASSUME PInv, NEW s \in Slots, NEW b \in Wrappers,
           PortsOurs(s), PortInUse(s, b)
    PROVE  CameUp(s, b)
  <1>1. PICK x \in Services : proc[x] = "serving" /\ GrpcPort(x[1], x[2]) = GrpcPort(s, b)
    BY DEF PortsOurs, PortInUse
  <1>2. x[1] \in Slots /\ x[2] \in Wrappers /\ x = <<x[1], x[2]>>
    BY DEF Services
  <1>3. x = <<s, b>>
    BY <1>1, <1>2, PortsDiffer
  <1> QED
    BY <1>1, <1>3 DEF CameUp

LEMMA ProbeSucceedsKeeps ==
    ASSUME PInv, NEW b \in Wrappers, ProbeSucceeds(b)
    PROVE  PInv'
  <1> USE DEF ProbeSucceeds
  <1>1. TypeOK'
    BY DEF PInv, TypeOK, MainSteps, pool
  <1>2. CameUp(slot, b)
    BY AnswerIsOurs, StartFacts DEF PInv, SessionsInOrder, StartSteps
  <1>3. SessionsInOrder'
    BY <1>2 DEF PInv, SessionsInOrder, PortsOurs, SessionUp, CameUp, StartSteps
  <1> QED
    BY <1>1, <1>3, StartKeepsPool, StartFacts DEF PInv, StartSteps

LEMMA SessionReadyKeeps ==
    ASSUME PInv, SessionReady
    PROVE  PInv'
  <1> USE DEF SessionReady
  <1>1. TypeOK'
    BY BackendsFact DEF PInv, TypeOK, MainSteps, pool
  <1>2. SessionsInOrder'
    BY DEF PInv, SessionsInOrder, PortsOurs, SessionUp, CameUp, StartSteps
  <1> QED
    BY <1>1, <1>2, StartKeepsPool, StartFacts DEF PInv, StartSteps

LEMMA MetadataLoadedKeeps ==
    ASSUME PInv, MetadataLoaded
    PROVE  PInv'
  <1> USE DEF MetadataLoaded
  <1>1. at' \in 1 .. Len(Backends) + 1
    BY StartFacts DEF StartSteps
  <1>2. TypeOK'
    BY <1>1 DEF PInv, TypeOK, MainSteps, pool
  <1>3. SessionsInOrder'
    BY DEF PInv, SessionsInOrder, PortsOurs, SessionUp, CameUp, StartSteps
  <1> QED
    BY <1>2, <1>3, StartKeepsPool, StartFacts DEF PInv, StartSteps

LEMMA MetadataMeansUp ==
    ASSUME PInv, mpc = "metadata"
    PROVE  \A k \in Slots : k <= slot => SessionUp(k)
  <1>1. SessionUp(slot)
    BY DEF PInv, SessionsInOrder, SessionUp
  <1>2. \A k \in Slots : k < slot => SessionUp(k)
    BY DEF PInv, SessionsInOrder, StartSteps
  <1> QED
    BY <1>1, <1>2, StartFacts DEF StartSteps, Slots

LEMMA NextSessionKeeps ==
    ASSUME PInv, NextSession
    PROVE  PInv'
  <1> USE DEF NextSession
  <1>1. slot \in Nat /\ slot' = slot + 1 /\ slot' \in Slots /\ \A k \in Slots : k \in Nat
    BY StartFacts DEF StartSteps, Slots
  <1>2. TypeOK'
    BY <1>1, SlotsFact DEF PInv, TypeOK, MainSteps, pool, Slots
  <1>3. SessionsInOrder'
    <2>1. \A k \in Slots : k < slot' => SessionUp(k)
      BY <1>1, MetadataMeansUp
    <2>2. \A k \in Slots : SessionUp(k) => SessionUp(k)'
      BY DEF SessionUp, PortsOurs, CameUp
    <2> QED
      BY <2>1, <2>2 DEF SessionsInOrder
  <1> QED
    BY <1>1, <1>2, <1>3, StartKeepsPool DEF PInv, StartSteps

LEMMA SubmitAllKeeps ==
    ASSUME PInv, SubmitAll
    PROVE  PInv'
  <1> USE DEF SubmitAll
  <1>1. /\ slot \in Slots /\ slot + 1 \notin Slots /\ NumCells \in Nat
        /\ EffectiveJobs \in Nat \ {0}
    BY StartFacts, ParallelAssumption DEF StartSteps
  <1>2. /\ work' \in Seq(Cells) /\ Len(work') = NumCells
        /\ \A i \in 1 .. NumCells : work'[i] = i
    BY <1>1 DEF Cells
  <1>3. TypeOK'
    BY <1>2 DEF PInv, TypeOK, MainSteps, session
  <1>4. SlotsApart' /\ ResultReady'
    BY SlotsStay DEF PInv, ResultReady, Holds
  <1>5. CellsAccounted'
    <2>1. \A c \in Cells : InWork(c)'
      BY <1>1, <1>2 DEF InWork, Cells
    <2> QED
      BY <2>1 DEF CellsAccounted, StartSteps
  <1>6. SessionsInOrder'
    <2>1. \A k \in Slots : k <= slot
      BY <1>1 DEF Slots
    <2> QED
      BY <2>1, MetadataMeansUp DEF SessionsInOrder, PortsOurs, SessionUp, CameUp, StartSteps
  <1>7. StopsInOrder'
    BY DEF StopsInOrder
  <1> QED
    BY <1>3, <1>4, <1>5, <1>6, <1>7 DEF PInv

LEMMA StartStepKeeps ==
    ASSUME PInv, StartStep
    PROVE  PInv'
  <1>1. CASE PortsChecked \/ SpawnWrapper \/ ExitsAtOnce \/ AllSpawned
    BY <1>1, PortsCheckedKeeps, SpawnWrapperKeeps, ExitsAtOnceKeeps, AllSpawnedKeeps
  <1>2. CASE \E b \in Wrappers : ProbeSucceeds(b)
    BY <1>2, ProbeSucceedsKeeps
  <1>3. CASE SessionReady \/ MetadataLoaded \/ NextSession \/ SubmitAll
    BY <1>3, SessionReadyKeeps, MetadataLoadedKeeps, NextSessionKeeps, SubmitAllKeeps
  <1>4. CASE PortCollision \/ PreflightFails \/ CrashSeen \/ StartTimesOut \/ MetadataFails
    <2>1. mpc \in StartSteps /\ StartRaises
      BY <1>4 DEF PortCollision, PreflightFails, CrashSeen, StartTimesOut, MetadataFails,
                  StartSteps
    <2> QED
      BY <2>1, StartRaisesKeeps
  <1> QED
    BY <1>1, <1>2, <1>3, <1>4 DEF StartStep

-----------------------------------------------------------------------------
(* The main thread collects and stops                                       *)

LEMMA CollectingKeeps ==
    ASSUME PInv, NEW c \in Cells, Collect(c) \/ CollectRaises(c) \/ AllCollected
    PROVE  PInv'
  <1>1. /\ mpc = "collecting" /\ mpc' \in {"collecting", "draining"}
        /\ UNCHANGED <<slot, at, pending, proc, taken, work, slotq, thr, outcome>>
    BY DEF Collect, CollectRaises, AllCollected, session, pool
  <1>2. failed' \in BOOLEAN /\ results' \subseteq Cells
    BY DEF PInv, TypeOK, Collect, CollectRaises, AllCollected, session
  <1>3. TypeOK'
    BY <1>1, <1>2 DEF PInv, TypeOK, MainSteps
  <1>4. SlotsApart' /\ ResultReady'
    BY <1>1, SlotsStay DEF PInv, ResultReady, Holds
  <1>5. CellsAccounted'
    BY <1>1 DEF PInv, CellsAccounted, StartSteps, InWork, InHand
  <1>6. SessionsInOrder' /\ StopsInOrder'
    BY <1>1 DEF PInv, SessionsInOrder, StopsInOrder, SessionUp, PortsOurs, CameUp, StartSteps
  <1> QED
    BY <1>3, <1>4, <1>5, <1>6 DEF PInv

LEMMA PoolDrainedKeeps ==
    ASSUME PInv, PoolDrained
    PROVE  PInv'
  <1> USE DEF PoolDrained
  <1>1. UNCHANGED <<work, slotq, thr, outcome>>
    BY DEF pool
  <1>2. TypeOK'
    BY SlotsFact DEF PInv, TypeOK, MainSteps, pool
  <1>3. SlotsApart' /\ ResultReady'
    BY <1>1, SlotsStay DEF PInv, ResultReady, Holds
  <1>4. AllRan
    BY DEF PInv, CellsAccounted, AllRan, InWork, InHand, Idle, At
  <1>5. CellsAccounted'
    BY <1>1, <1>4 DEF CellsAccounted, StartSteps, Quiet, AllRan
  <1>6. SessionsInOrder' /\ StopsInOrder'
    BY DEF SessionsInOrder, StopsInOrder, StartSteps, Slots
  <1> QED
    BY <1>2, <1>3, <1>5, <1>6 DEF PInv

LEMMA StopSessionKeeps ==
    ASSUME PInv, StopSession
    PROVE  PInv'
  <1> USE DEF StopSession
  <1>1. UNCHANGED <<work, slotq, thr, outcome>>
    BY DEF pool
  <1>2. slot \in Nat /\ slot' = slot + 1 /\ slot' \in 0 .. EffectiveJobs
    BY SlotsFact DEF Slots
  <1>3. TypeOK'
    <2>1. proc' \in [Services -> {"none", "booting", "serving", "exited"}]
      BY DEF PInv, TypeOK
    <2> QED
      BY <1>2, <2>1 DEF PInv, TypeOK, MainSteps, pool
  <1>4. SlotsApart' /\ ResultReady'
    BY <1>1, SlotsStay DEF PInv, ResultReady, Holds
  <1>5. CellsAccounted'
    BY <1>1 DEF PInv, CellsAccounted, StartSteps, Quiet, AllRan
  <1>6. \A k \in Slots, b \in Wrappers : k < slot' => ~ Alive(<<k, b>>)'
    <2> SUFFICES ASSUME NEW k \in Slots, NEW b \in Wrappers, k < slot'
                 PROVE  ~ Alive(<<k, b>>)'
      OBVIOUS
    <2>1. <<k, b>> \in Services
      BY DEF Services
    <2>2. proc'[<<k, b>>] =
            IF k = slot /\ Alive(<<k, b>>) THEN "exited" ELSE proc[<<k, b>>]
      BY <2>1
    <2>3. k = slot \/ k < slot
      BY <1>2 DEF Slots
    <2>4. k < slot => ~ Alive(<<k, b>>)
      BY DEF PInv, StopsInOrder
    <2> QED
      BY <2>2, <2>3, <2>4 DEF Alive
  <1>7. SessionsInOrder' /\ StopsInOrder'
    BY <1>6 DEF SessionsInOrder, StopsInOrder, StartSteps
  <1> QED
    BY <1>3, <1>4, <1>5, <1>7 DEF PInv

LEMMA AllStoppedKeeps ==
    ASSUME PInv, AllStopped
    PROVE  PInv'
  <1> USE DEF AllStopped
  <1>1. UNCHANGED <<slot, work, slotq, thr, outcome>>
    BY DEF pool, session
  <1>2. TypeOK'
    BY DEF PInv, TypeOK, MainSteps, pool, session
  <1>3. SlotsApart' /\ ResultReady'
    BY <1>1, SlotsStay DEF PInv, ResultReady, Holds
  <1>4. CellsAccounted'
    BY <1>1 DEF PInv, CellsAccounted, StartSteps, Quiet, AllRan
  <1>5. \A k \in Slots : k < slot
    BY SlotsFact DEF PInv, TypeOK, Slots
  <1>6. SessionsInOrder' /\ StopsInOrder'
    BY <1>1, <1>5 DEF PInv, SessionsInOrder, StopsInOrder, StartSteps, Alive
  <1> QED
    BY <1>2, <1>3, <1>4, <1>6 DEF PInv

-----------------------------------------------------------------------------
(* The wrapper processes                                                    *)

LEMMA WrapperProcessKeeps ==
    ASSUME PInv, NEW x \in Services, Boots(x) \/ Exits(x)
    PROVE  PInv'
  <1>1. /\ Alive(x) /\ UNCHANGED <<mpc, slot, at, pending, failed, taken, results>>
        /\ UNCHANGED <<work, slotq, thr, outcome>>
    BY DEF Boots, Exits, Alive, session, pool
  <1>2. PICK p \in {"serving", "exited"} : proc' = [proc EXCEPT ![x] = p]
    BY DEF Boots, Exits
  <1>3. TypeOK'
    BY <1>1, <1>2 DEF PInv, TypeOK
  <1>4. SlotsApart' /\ ResultReady'
    BY <1>1, SlotsStay DEF PInv, ResultReady, Holds
  <1>5. CellsAccounted'
    BY <1>1 DEF PInv, CellsAccounted, Quiet, NoneRan, AllRan, InWork, InHand
  <1>6. \A y \in Services : y # x => proc'[y] = proc[y]
    BY <1>2 DEF PInv, TypeOK
  <1>7. proc'[x] = p
    BY <1>2 DEF PInv, TypeOK
  <1>8. \A k \in Slots, b \in Wrappers :
            /\ <<k, b>> \in Services
            /\ CameUp(k, b) => CameUp(k, b)'
            /\ ~ Alive(<<k, b>>) => ~ Alive(<<k, b>>)'
    BY <1>1, <1>6, <1>7 DEF CameUp, Alive, Services
  <1>9. \A k \in Slots : SessionUp(k) => SessionUp(k)'
    BY <1>1, <1>8 DEF SessionUp, PortsOurs
  <1>10. SessionsInOrder'
    <2>1. mpc \in StartSteps => slot \in Slots
      BY StartFacts
    <2> QED
      BY <1>1, <1>8, <1>9, <2>1 DEF PInv, SessionsInOrder, StartSteps, PortsOurs
  <1>11. StopsInOrder'
    BY <1>1, <1>8 DEF PInv, StopsInOrder, NoneRan
  <1> QED
    BY <1>3, <1>4, <1>5, <1>10, <1>11 DEF PInv

-----------------------------------------------------------------------------
LEMMA PoolStepKeeps ==
    ASSUME PInv, NEW t \in PoolThreads, PoolStep(t)
    PROVE  PInv'
  BY TakeCellKeeps, PlanningEndsKeeps, BorrowSlotKeeps, ExecuteCellKeeps, ReturnSlotKeeps
     DEF PoolStep

LEMMA RunGoesOn == PInv /\ [Next]_vars => PInv'
  <1> SUFFICES ASSUME PInv, [Next]_vars PROVE PInv'
    OBVIOUS
  <1>1. CASE StartStep
    BY <1>1, StartStepKeeps
  <1>2. CASE \E c \in Cells : Collect(c) \/ CollectRaises(c)
    BY <1>2, CollectingKeeps
  <1>3. CASE AllCollected
    <2>1. 1 \in Cells
      BY ParallelAssumption DEF Cells
    <2> QED
      BY <1>3, <2>1, CollectingKeeps
  <1>4. CASE PoolDrained \/ StopSession \/ AllStopped
    BY <1>4, PoolDrainedKeeps, StopSessionKeeps, AllStoppedKeeps
  <1>5. CASE \E t \in PoolThreads : PoolStep(t)
    BY <1>5, PoolStepKeeps
  <1>6. CASE \E x \in Services : Boots(x) \/ Exits(x)
    BY <1>6, WrapperProcessKeeps
  <1>7. CASE UNCHANGED vars
    BY <1>7, SlotsStay
       DEF vars, session, pool, PInv, TypeOK, CellsAccounted, Quiet, NoneRan, AllRan, InWork, InHand,
           SessionsInOrder, StopsInOrder, SessionUp, PortsOurs, CameUp, Alive, ResultReady, Holds
  <1> QED
    BY <1>1, <1>2, <1>3, <1>4, <1>5, <1>6, <1>7 DEF Next, MainStep, Over

-----------------------------------------------------------------------------
(* The theorems                                                             *)

(* The state of a parallel run has its type. *)
THEOREM ParallelTypeCorrect == Spec => []TypeOK
  <1>1. PInv => TypeOK
    BY DEF PInv
  <1> QED
    BY RunBegins, RunGoesOn, <1>1, PTL DEF Spec

(* Every slot is in the queue once or with one thread: no two cells share    *)
(* wrappers and ports, and a cell that raises loses no slot.                 *)
THEOREM ParallelSlotsConserved == Spec => []SlotsConserved
  <1>1. PInv => SlotsConserved
    <2> SUFFICES ASSUME PInv, NEW s \in Slots
                 PROVE  Cardinality({i \in DOMAIN slotq : slotq[i] = s})
                          + Cardinality({t \in PoolThreads : Holds(t, s)}) = 1
      BY DEF SlotsConserved
    <2> DEFINE Queued  == {i \in DOMAIN slotq : slotq[i] = s}
               Holders == {t \in PoolThreads : Holds(t, s)}
    <2>1. DOMAIN slotq = 1 .. Len(slotq) /\ SlotsApart
      BY DEF PInv, TypeOK
    <2>2. CASE \E i \in 1 .. Len(slotq) : slotq[i] = s
      <3>1. PICK i \in 1 .. Len(slotq) : slotq[i] = s
        BY <2>2
      <3>2. Queued = {i} /\ Holders = {}
        BY <2>1, <3>1 DEF SlotsApart
      <3>3. Cardinality(Queued) = 1 /\ Cardinality(Holders) = 0
        BY <3>2, FS_Singleton, FS_EmptySet
      <3> QED
        BY <3>3
    <2>3. CASE \E t \in PoolThreads : Holds(t, s)
      <3>1. PICK t \in PoolThreads : Holds(t, s)
        BY <2>3
      <3>2. Queued = {} /\ Holders = {t}
        BY <2>1, <3>1 DEF SlotsApart
      <3>3. Cardinality(Queued) = 0 /\ Cardinality(Holders) = 1
        BY <3>2, FS_Singleton, FS_EmptySet
      <3> QED
        BY <3>3
    <2> QED
      BY <2>1, <2>2, <2>3 DEF SlotsApart
  <1> QED
    BY RunBegins, RunGoesOn, <1>1, PTL DEF Spec

(* A cell that runs talks to wrappers of its own slot and to nothing else. *)
THEOREM ParallelOwnWrappersOnly == Spec => []OwnWrappersOnly
  <1>1. PInv => OwnWrappersOnly
    <2> SUFFICES ASSUME PInv, NEW t \in PoolThreads, NEW s \in Slots, Holds(t, s),
                        NEW b \in Wrappers
                 PROVE  /\ proc[<<s, b>>] \notin {"none", "booting"}
                        /\ GrpcPort(s, b) \notin taken
                        /\ \A x \in Services : x # <<s, b>> /\ Alive(x) =>
                              GrpcPort(x[1], x[2]) # GrpcPort(s, b)
      BY DEF OwnWrappersOnly
    <2>1. SessionUp(s)
      BY PoolWorksBetween DEF Holds, PInv, SessionsInOrder
    <2>2. ASSUME NEW x \in Services, x # <<s, b>>
          PROVE  GrpcPort(x[1], x[2]) # GrpcPort(s, b)
      <3>1. x[1] \in Slots /\ x[2] \in Wrappers /\ x = <<x[1], x[2]>>
        BY DEF Services
      <3> QED
        BY <2>2, <3>1, PortsDiffer
    <2> QED
      BY <2>1, <2>2 DEF SessionUp, PortsOurs, CameUp
  <1> QED
    BY RunBegins, RunGoesOn, <1>1, PTL DEF Spec

(* No session is stopped under a cell, and a cell that raises takes no other *)
(* cell away.                                                                *)
THEOREM ParallelNoCellCutOff == Spec => []NoCellCutOff
  <1>1. PInv => NoCellCutOff
    <2>1. PInv => outcome \in [Cells -> Results \cup {"none"}]
      BY DEF PInv, TypeOK
    <2>2. PInv /\ NoneRan => outcome = [c \in Cells |-> "none"]
      BY <2>1 DEF NoneRan
    <2> QED
      BY <2>2 DEF PInv, CellsAccounted, Quiet, AllRan, NoCellCutOff
  <1> QED
    BY RunBegins, RunGoesOn, <1>1, PTL DEF Spec

(* A run that got as far as its cells stops every wrapper it started. *)
THEOREM ParallelStoppedAfterCells == Spec => []StoppedAfterCells
  <1>1. PInv => StoppedAfterCells
    <2> SUFFICES ASSUME PInv, mpc = "exited", Ran, NEW x \in Services
                 PROVE  ~ Alive(x)
      BY DEF StoppedAfterCells
    <2>1. x[1] \in Slots /\ x[2] \in Wrappers /\ x = <<x[1], x[2]>>
      BY DEF Services
    <2>2. ~ NoneRan
      BY DEF Ran, NoneRan
    <2> QED
      BY <2>1, <2>2 DEF PInv, StopsInOrder
  <1> QED
    BY RunBegins, RunGoesOn, <1>1, PTL DEF Spec
=============================================================================
