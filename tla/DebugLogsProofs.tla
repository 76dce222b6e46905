-------------------------- MODULE DebugLogsProofs --------------------------
(***************************************************************************)
(* The types of DebugLogs, and that no log is lost when every cell has a    *)
(* name of its own: for any number of jobs, any matrix and any clock.       *)
(***************************************************************************)
EXTENDS DebugLogs, TLAPS

(* The cells differ in what LogName has of them. *)
OwnNames ==
    \A c, d \in Cells : c # d =>
        <<Matrix[c].server, Matrix[c].client, Matrix[c].cipher>>
          # <<Matrix[d].server, Matrix[d].client, Matrix[d].cipher>>

(* Nobody makes a directory before a path has been assigned. *)
PathFirst ==
    \A c \in Cells :
        /\ step[c] = "assigning" => mine[c] # NoPath
        /\ step[c] = "making" => path # NoPath

TInv == TypeOK /\ PathFirst

(* The log of a cell that has written is where the cell has put it. *)
LogOf(c) == <<mine[c], LogName(c)>>
Written(c) == LogOf(c) \in DOMAIN files /\ files[LogOf(c)] = c
LogsKept == \A c \in Cells : Failing(c) /\ step[c] = "done" => Written(c)

-----------------------------------------------------------------------------
(* Types                                                                    *)

LEMMA ClockFacts == 1 \in Seconds /\ \A n \in Seconds : n # NoPath
  BY LogsAssumption DEF Seconds, NoPath

LEMMA LogsBegin == Init => TInv /\ LogsKept
  <1> SUFFICES ASSUME Init PROVE TInv /\ LogsKept
    OBVIOUS
  <1>1. TypeOK
    BY ClockFacts DEF Init, TypeOK, Steps
  <1>2. PathFirst /\ LogsKept
    BY DEF Init, PathFirst, LogsKept, Failing
  <1> QED
    BY <1>1, <1>2 DEF TInv

LEMMA TypesKept ==
    ASSUME TInv, NEW c \in Cells, CellStep(c)
    PROVE  TInv'
  <1> USE DEF TInv, TypeOK, PathFirst, Goto
  <1>1. CASE StartCell(c)
    BY <1>1 DEF StartCell, Steps
  <1>2. CASE EndCell(c)
    <2>1. PICK v \in {"PASS", "SKIP", "FAIL", "TIMEOUT"} :
            /\ verdict' = [verdict EXCEPT ![c] = v]
            /\ step' = [step EXCEPT ![c] = IF v \in {"FAIL", "TIMEOUT"} THEN "testing" ELSE "done"]
      BY <1>2 DEF EndCell
    <2>2. UNCHANGED <<clock, path, dirs, files, excepted, mine>>
      BY <1>2 DEF EndCell
    <2>3. PICK p \in {"testing", "done"} : step' = [step EXCEPT ![c] = p]
      BY <2>1
    <2> QED
      BY <2>1, <2>2, <2>3 DEF Steps
  <1>3. CASE WorkerRaised(c) \/ WriteRetried(c)
    BY <1>3 DEF WorkerRaised, WriteRetried, Except, Steps
  <1>4. CASE TestPath(c)
    <2>1. PICK p \in {"stamping", "returning"} : step' = [step EXCEPT ![c] = p]
      BY <1>4 DEF TestPath
    <2> QED
      BY <1>4, <2>1 DEF TestPath, Steps
  <1>5. CASE Stamp(c)
    BY <1>5, ClockFacts DEF Stamp, Steps
  <1>6. CASE AssignPath(c)
    BY <1>6, ClockFacts DEF AssignPath, Steps
  <1>7. CASE MakeDir(c)
    BY <1>7 DEF MakeDir, Steps
  <1>8. CASE ReturnPath(c)
    BY <1>8 DEF ReturnPath, Steps
  <1>9. CASE WriteLog(c)
    <2>1. /\ files' = [g \in DOMAIN files \cup {LogOf(c)} |-> IF g = LogOf(c) THEN c ELSE files[g]]
          /\ mine[c] \in dirs /\ step' = [step EXCEPT ![c] = "done"]
          /\ UNCHANGED <<clock, path, dirs, verdict, excepted, mine>>
      BY <1>9 DEF WriteLog, LogOf
    <2>2. LogOf(c)[1] = mine[c]
      BY DEF LogOf
    <2>3. \A f \in DOMAIN files' : f[1] \in dirs /\ files'[f] \in Cells
      BY <2>1, <2>2
    <2> QED
      BY <2>1, <2>3 DEF Steps
  <1>10. CASE WriteRaises(c)
    BY <1>10 DEF WriteRaises, Steps
  <1> QED
    BY <1>1, <1>2, <1>3, <1>4, <1>5, <1>6, <1>7, <1>8, <1>9, <1>10 DEF CellStep

-----------------------------------------------------------------------------
(* Logs                                                                     *)

(* A cell that is over takes no step; what the others do leaves its log      *)
(* alone unless they write.                                                  *)
LEMMA OthersWriteNothing ==
    ASSUME LogsKept, NEW c \in Cells, files' = files,
           \A d \in Cells : d # c => /\ step'[d] = step[d] /\ verdict'[d] = verdict[d]
                                     /\ mine'[d] = mine[d],
           step'[c] = "done" => verdict'[c] \notin {"FAIL", "TIMEOUT"}
    PROVE  LogsKept'
  <1>1. \A d \in Cells : Failing(d)' /\ step'[d] = "done" => d # c
    BY DEF Failing
  <1>2. \A d \in Cells : d # c => (Written(d)' <=> Written(d)) /\ (Failing(d)' <=> Failing(d))
    BY DEF Written, LogOf, LogName, Failing
  <1> QED
    BY <1>1, <1>2 DEF LogsKept

LEMMA QuietStep ==
    ASSUME TInv, LogsKept, NEW c \in Cells, CellStep(c), ~ WriteLog(c)
    PROVE  LogsKept'
  <1> USE DEF TInv, TypeOK, Goto
  <1>1. CASE StartCell(c) \/ TestPath(c) \/ Stamp(c) \/ AssignPath(c) \/ MakeDir(c)
               \/ ReturnPath(c) \/ WriteRaises(c)
    <2>1. PICK p \in Steps \ {"done"} : step' = [step EXCEPT ![c] = p]
      BY <1>1 DEF StartCell, TestPath, Stamp, AssignPath, MakeDir, ReturnPath, WriteRaises, Steps
    <2>2. files' = files /\ verdict' = verdict /\ \A d \in Cells : d # c => mine'[d] = mine[d]
      BY <1>1 DEF StartCell, TestPath, Stamp, AssignPath, MakeDir, ReturnPath, WriteRaises
    <2> QED
      BY <2>1, <2>2, OthersWriteNothing
  <1>2. CASE EndCell(c)
    <2>1. PICK v \in {"PASS", "SKIP", "FAIL", "TIMEOUT"} :
            /\ verdict' = [verdict EXCEPT ![c] = v]
            /\ step' = [step EXCEPT ![c] = IF v \in {"FAIL", "TIMEOUT"} THEN "testing" ELSE "done"]
      BY <1>2 DEF EndCell
    <2>2. files' = files /\ mine' = mine
      BY <1>2 DEF EndCell
    <2> QED
      BY <2>1, <2>2, OthersWriteNothing
  <1>3. CASE WorkerRaised(c) \/ WriteRetried(c)
    BY <1>3, OthersWriteNothing DEF WorkerRaised, WriteRetried, WriteFails, Except
  <1> QED
    BY <1>1, <1>2, <1>3 DEF CellStep

LEMMA WriteStep ==
    ASSUME OwnNames, TInv, LogsKept, NEW c \in Cells, WriteLog(c)
    PROVE  LogsKept'
  <1>1. /\ UNCHANGED <<verdict, mine>> /\ step' = [step EXCEPT ![c] = "done"]
        /\ files' = [g \in DOMAIN files \cup {LogOf(c)} |-> IF g = LogOf(c) THEN c ELSE files[g]]
    BY DEF WriteLog, LogOf, Goto
  <1>2. \A d \in Cells : LogOf(d)' = LogOf(d) /\ (Failing(d)' <=> Failing(d))
    BY <1>1 DEF LogOf, LogName, Failing
  <1>3. \A d \in Cells : d # c => LogOf(d) # LogOf(c)
    BY DEF OwnNames, LogOf, LogName
  <1>4. Written(c)'
    BY <1>1, <1>2 DEF Written
  <1>5. \A d \in Cells : d # c /\ Written(d) => Written(d)'
    BY <1>1, <1>2, <1>3 DEF Written
  <1>6. \A d \in Cells : d # c => step'[d] = step[d]
    BY <1>1 DEF TInv, TypeOK
  <1> QED
    BY <1>2, <1>4, <1>5, <1>6 DEF LogsKept

-----------------------------------------------------------------------------
(* The theorems                                                             *)

LEMMA TypesGoOn == TInv /\ [Next]_vars => TInv'
  <1> SUFFICES ASSUME TInv, [Next]_vars PROVE TInv'
    OBVIOUS
  <1>1. CASE \E c \in Cells : CellStep(c)
    BY <1>1, TypesKept
  <1>2. CASE Tick
    BY <1>2, LogsAssumption DEF Tick, TInv, TypeOK, PathFirst, Seconds
  <1>3. CASE UNCHANGED vars
    BY <1>3 DEF vars, TInv, TypeOK, PathFirst
  <1> QED
    BY <1>1, <1>2, <1>3 DEF Next, Over

(* The state of the logs has its type: a directory and a file are made only  *)
(* under a timestamp that a thread has assigned to self.path.                *)
THEOREM LogsTypeCorrect == Spec => []TypeOK
  <1>1. TInv => TypeOK
    BY DEF TInv
  <1> QED
    BY LogsBegin, TypesGoOn, <1>1, PTL DEF Spec

LEMMA LogsGoOn ==
    ASSUME OwnNames
    PROVE  TInv /\ LogsKept /\ [Next]_vars => LogsKept'
  <1> SUFFICES ASSUME TInv, LogsKept, [Next]_vars PROVE LogsKept'
    OBVIOUS
  <1>1. CASE \E c \in Cells : CellStep(c)
    BY <1>1, QuietStep, WriteStep
  <1>2. CASE Tick \/ UNCHANGED vars
    BY <1>2 DEF Tick, vars, LogsKept, Failing, Written, LogOf, LogName
  <1> QED
    BY <1>1, <1>2 DEF Next, Over

(* A failing cell that ends without an exception has its log, if no two      *)
(* cells share a name: the race for the directory overwrites and misplaces   *)
(* nothing.                                                                  *)
THEOREM LogsNotLost ==
    ASSUME OwnNames
    PROVE  Spec => []NoLogLost
  <1>1. LogsKept => NoLogLost
    BY DEF LogsKept, NoLogLost, Written
  <1> QED
    BY LogsBegin, TypesGoOn, LogsGoOn, <1>1, PTL DEF Spec
=============================================================================
