--------------------------- MODULE CellPlanProofs ---------------------------
(***************************************************************************)
(* The plan made before the session starts fits the cells executed later:   *)
(* for any wrappers, capabilities, certificates, arguments and suites.      *)
(***************************************************************************)
EXTENDS CellPlan, TLAPS

Entry(raw) == <<raw, Normalize(raw, args)>>
Runs(raw)  == ~ Skipped(Normalize(raw, args))

(* Every cell that has been decided was decided as the plan would decide it. *)
DecidedAsPlanned ==
    /\ \A x \in ran   : \E raw \in combos : x = Entry(raw) /\ Runs(raw)
    /\ \A x \in skips : \E raw \in combos : x = Entry(raw) /\ ~ Runs(raw)

Phased ==
    /\ phase \in {"expand", "plan", "run", "done", "failed"}
    /\ phase \in {"expand", "plan", "failed"} => ran = {} /\ skips = {}
    /\ phase = "plan" => combos # {}
    /\ phase = "run"  => Todo # {} /\ backends = RequiredBackends
    /\ phase = "done" => Todo = {} /\ backends = RequiredBackends

CInv == DecidedAsPlanned /\ Phased

LEMMA PlanBegins == Init => CInv
  BY DEF Init, CInv, DecidedAsPlanned, Phased

(* A matrix cell is decided at most once, and then it is gone from Todo. *)
LEMMA CellDecided ==
    ASSUME CInv, phase = "run",
           \/ Runs(Raw) /\ ran' = ran \cup {Entry(Raw)} /\ skips' = skips
           \/ ~ Runs(Raw) /\ skips' = skips \cup {Entry(Raw)} /\ ran' = ran,
           Advance
    PROVE  CInv'
  <1>1. Raw \in Todo /\ Raw \in combos
    BY DEF CInv, Phased, Todo, Raw
  <1>2. UNCHANGED <<args, combos, backends>>
        /\ phase' = IF Todo = {Raw} THEN "done" ELSE "run"
    BY DEF Advance
  <1>3. \A raw : Entry(raw)' = Entry(raw) /\ (Runs(raw)' <=> Runs(raw))
    BY <1>2 DEF Entry, Runs
  <1>4. DecidedAsPlanned'
    BY <1>1, <1>2, <1>3 DEF CInv, DecidedAsPlanned
  <1>5. Todo' = Todo \ {Raw}
    <2>1. {x[1] : x \in (ran \cup skips)'} = {x[1] : x \in ran \cup skips} \cup {Raw}
      <3>1. (ran \cup skips)' = (ran \cup skips) \cup {Entry(Raw)}
        OBVIOUS
      <3>2. Entry(Raw)[1] = Raw
        BY DEF Entry
      <3> QED
        BY <3>1, <3>2
    <2> QED
      BY <2>1, <1>2 DEF Todo
  <1>6. RequiredBackends' = RequiredBackends
    BY <1>2 DEF RequiredBackends
  <1>7. Phased'
    BY <1>1, <1>2, <1>5, <1>6 DEF CInv, Phased
  <1> QED
    BY <1>4, <1>7 DEF CInv

LEMMA PlanGoesOn == CInv /\ [Next]_vars => CInv'
  <1> SUFFICES ASSUME CInv, [Next]_vars PROVE CInv'
    OBVIOUS
  <1>1. CASE Expand
    <2>1. /\ phase = "expand" /\ UNCHANGED <<args, backends, ran, skips>>
          /\ phase' = IF combos' = {} THEN "failed" ELSE "plan"
      BY <1>1 DEF Expand
    <2> QED
      BY <2>1 DEF CInv, DecidedAsPlanned, Phased
  <1>2. CASE PlanBackends
    <2>1. /\ phase = "plan" /\ phase' = "run" /\ UNCHANGED <<args, combos, ran, skips>>
          /\ backends' = RequiredBackends
      BY <1>2 DEF PlanBackends
    <2>2. RequiredBackends' = RequiredBackends
      BY <2>1 DEF RequiredBackends
    <2>3. Todo' # {}
      BY <2>1 DEF CInv, Phased, Todo
    <2>4. DecidedAsPlanned'
      BY <2>1 DEF CInv, DecidedAsPlanned, Phased
    <2> QED
      BY <2>1, <2>2, <2>3, <2>4 DEF CInv, Phased
  <1>3. CASE SkipCell \/ ExecuteCell
    BY <1>3, CellDecided DEF SkipCell, ExecuteCell, Cell, Entry, Runs
  <1>4. CASE UNCHANGED vars
    <2>1. Todo' = Todo /\ RequiredBackends' = RequiredBackends
      BY <1>4 DEF vars, Todo, RequiredBackends
    <2> QED
      BY <1>4, <2>1 DEF vars, CInv, DecidedAsPlanned, Phased, Entry, Runs
  <1> QED
    BY <1>1, <1>2, <1>3, <1>4 DEF Next, Done

(* The wrappers of a cell that is about to run.                             *)
LEMMA PlannedWrappers ==
    RequiredBackends = UNION {{Normalize(raw, args).server, Normalize(raw, args).client} :
                                raw \in {r \in combos : Runs(r)}}
  <1>1. \A cell : ~ Skipped(cell) => {cell.server, cell.client} \cap Wrappers
                                        = {cell.server, cell.client}
    BY DEF Skipped
  <1> QED
    BY <1>1 DEF RequiredBackends, Runs

(* An executed cell finds both its wrappers in the session, and at the end   *)
(* every wrapper of the session has served a cell: the decision made before  *)
(* the session is the one made again for each cell.                          *)
THEOREM PlanHasWrappers == Spec => []SessionHasWrappers
  <1>1. CInv => SessionHasWrappers
    <2> SUFFICES ASSUME CInv PROVE SessionHasWrappers
      OBVIOUS
    <2> DEFINE Two(cell) == {cell.server, cell.client}
    <2>1. \A x \in ran : \E raw \in combos :
              /\ x = Entry(raw) /\ Runs(raw) /\ x[2] = Normalize(raw, args)
      BY DEF CInv, DecidedAsPlanned, Entry
    <2>2. ran # {} => backends = RequiredBackends
      BY DEF CInv, Phased
    <2>3. \A x \in ran : Two(x[2]) \subseteq backends
      BY <2>1, <2>2, PlannedWrappers
    <2>4. ASSUME phase = "done"
          PROVE  backends = UNION {Two(x[2]) : x \in ran}
      <3>1. Todo = {} /\ backends = RequiredBackends
        BY <2>4 DEF CInv, Phased
      <3>2. ASSUME NEW raw \in combos, Runs(raw)
            PROVE  \E x \in ran : x[2] = Normalize(raw, args)
        <4>1. PICK x \in ran \cup skips : x[1] = raw
          BY <3>1 DEF Todo
        <4>2. PICK other \in combos :
                x = Entry(other) /\ (x \in ran => Runs(other)) /\ (x \in ran \/ ~ Runs(other))
          BY <4>1 DEF CInv, DecidedAsPlanned
        <4>3. other = raw
          BY <4>1, <4>2 DEF Entry
        <4> QED
          BY <3>2, <4>2, <4>3 DEF Entry
      <3>3. backends \subseteq UNION {Two(x[2]) : x \in ran}
        BY <3>1, <3>2, PlannedWrappers
      <3>4. UNION {Two(x[2]) : x \in ran} \subseteq backends
        BY <2>3
      <3> QED
        BY <3>3, <3>4
    <2> QED
      BY <2>3, <2>4 DEF SessionHasWrappers
  <1> QED
    BY PlanBegins, PlanGoesOn, <1>1, PTL DEF Spec
=============================================================================
