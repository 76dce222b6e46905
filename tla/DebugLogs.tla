----------------------------- MODULE DebugLogs -----------------------------
(***************************************************************************)
(* DebugRunLogs (src/core/runner.py): the directory of a run is created by  *)
(* the first cell that fails, and every failing cell writes one file there. *)
(* With --jobs > 1 the threads of the pool share the object without a lock, *)
(* so ensure_run_dir is split at each read and write of self.path.          *)
(***************************************************************************)
EXTENDS Naturals, Sequences, FiniteSets

CONSTANTS
    Jobs,      \* cells that run at the same time
    Matrix,    \* the cells: server, client, cipher and groups of each
    LastSecond \* bound on the clock

Cells   == DOMAIN Matrix
Seconds == 1 .. LastSecond
NoPath  == 0

ASSUME LogsAssumption ==
    /\ Jobs \in Nat \ {0} /\ LastSecond \in Nat \ {0}
    /\ \A c \in Cells : DOMAIN Matrix[c] = {"server", "client", "cipher", "groups"}

VARIABLES
    clock,   \* the second datetime.now() falls into
    path,    \* self.path, named by its timestamp
    dirs,    \* run directories that exist
    files,   \* what a log file contains: <<directory, name>> -> cell
    step,    \* where the thread of each cell is
    verdict, \* outcome of each cell
    excepted, \* cells whose thread is in the except clause of execute_matrix_cell
    mine     \* timestamp or directory the thread of each cell works with

vars == <<clock, path, dirs, files, step, verdict, excepted, mine>>

Active(c) == step[c] \notin {"waiting", "done", "raised"}

Init ==
    /\ clock = 1 /\ path = NoPath /\ dirs = {}
    /\ files = [f \in {} |-> 0]
    /\ step = [c \in Cells |-> "waiting"]
    /\ verdict = [c \in Cells |-> "none"] /\ excepted = {}
    /\ mine = [c \in Cells |-> NoPath]

-----------------------------------------------------------------------------
Goto(c, s) == step' = [step EXCEPT ![c] = s]

\* The next cell starts when a thread is free.
StartCell(c) ==
    /\ step[c] = "waiting"
    /\ \A d \in Cells : d < c => step[d] # "waiting"
    /\ Cardinality({d \in Cells : Active(d)}) < Jobs
    /\ Goto(c, "running")
    /\ UNCHANGED <<clock, path, dirs, files, verdict, excepted, mine>>

\* _process_cell_outcome: only FAIL and TIMEOUT write a log.
EndCell(c) ==
    /\ step[c] = "running"
    /\ \E v \in {"PASS", "SKIP", "FAIL", "TIMEOUT"} :
         /\ verdict' = [verdict EXCEPT ![c] = v]
         /\ Goto(c, IF v \in {"FAIL", "TIMEOUT"} THEN "testing" ELSE "done")
    /\ UNCHANGED <<clock, path, dirs, files, excepted, mine>>

\* `except Exception` of execute_matrix_cell: a FAIL log, for whatever raised.
Except(c) ==
    /\ excepted' = excepted \cup {c}
    /\ verdict' = [verdict EXCEPT ![c] = "FAIL"]
    /\ Goto(c, "testing")
    /\ UNCHANGED <<clock, path, dirs, files, mine>>

\* The worker's exception is raised again in the thread of the cell.
WorkerRaised(c) == step[c] = "running" /\ Except(c)

\* Wrong variant: the directory is not remembered.
TestPath_Always(c) ==
    /\ step[c] = "testing"
    /\ Goto(c, "stamping")
    /\ UNCHANGED <<clock, path, dirs, files, verdict, excepted, mine>>

\* if self.path is None
TestPath(c) ==
    /\ step[c] = "testing"
    /\ Goto(c, IF path = NoPath THEN "stamping" ELSE "returning")
    /\ UNCHANGED <<clock, path, dirs, files, verdict, excepted, mine>>

\* Wrong variant: the directory is made before the path is assigned.
Stamp_MakesFirst(c) ==
    /\ step[c] = "stamping"
    /\ mine' = [mine EXCEPT ![c] = clock]
    /\ Goto(c, "making")
    /\ UNCHANGED <<clock, path, dirs, files, verdict, excepted>>

Stamp(c) ==
    /\ step[c] = "stamping"
    /\ mine' = [mine EXCEPT ![c] = clock]
    /\ Goto(c, "assigning")
    /\ UNCHANGED <<clock, path, dirs, files, verdict, excepted>>

AssignPath(c) ==
    /\ step[c] = "assigning"
    /\ path' = mine[c]
    /\ Goto(c, "making")
    /\ UNCHANGED <<clock, dirs, files, verdict, excepted, mine>>

\* self.path.mkdir(parents=True, exist_ok=True)
MakeDir(c) ==
    /\ step[c] = "making"
    /\ dirs' = dirs \cup {path}
    /\ Goto(c, "returning")
    /\ UNCHANGED <<clock, path, files, verdict, excepted, mine>>

ReturnPath(c) ==
    /\ step[c] = "returning"
    /\ mine' = [mine EXCEPT ![c] = path]
    /\ Goto(c, "writing")
    /\ UNCHANGED <<clock, path, dirs, files, verdict, excepted>>

\* Wrong variant: the cipher is left out of the name.
LogName_NoCipher(c) ==
    <<verdict[c], Matrix[c].server, Matrix[c].client>>

\* The name does not tell cells apart that differ in anything else.
LogName(c) ==
    <<verdict[c], Matrix[c].server, Matrix[c].client, Matrix[c].cipher>>

\* path.write_text replaces a file of that name.
WriteLog(c) ==
    /\ step[c] = "writing" /\ mine[c] \in dirs
    /\ LET f == <<mine[c], LogName(c)>>
       IN  files' = [g \in DOMAIN files \cup {f} |-> IF g = f THEN c ELSE files[g]]
    /\ Goto(c, "done")
    /\ UNCHANGED <<clock, path, dirs, verdict, excepted, mine>>

\* FileNotFoundError: another thread has set self.path and not made it yet.
WriteFails(c) == step[c] = "writing" /\ mine[c] \notin dirs

\* The first failure to write is one more exception of the cell ...
WriteRetried(c) == WriteFails(c) /\ c \notin excepted /\ Except(c)

\* ... the second leaves the cell, and is raised by future.result().
WriteRaises(c) ==
    /\ WriteFails(c) /\ c \in excepted
    /\ Goto(c, "raised")
    /\ UNCHANGED <<clock, path, dirs, files, verdict, excepted, mine>>

Tick ==
    /\ clock < LastSecond
    /\ clock' = clock + 1
    /\ UNCHANGED <<path, dirs, files, step, verdict, excepted, mine>>

CellStep(c) ==
    \/ StartCell(c) \/ EndCell(c)    \/ WorkerRaised(c) \/ TestPath(c) \/ Stamp(c)
    \/ AssignPath(c) \/ MakeDir(c)   \/ ReturnPath(c)   \/ WriteLog(c)
    \/ WriteRetried(c) \/ WriteRaises(c)

Over == (\A c \in Cells : step[c] \in {"done", "raised"}) /\ UNCHANGED vars

Next == (\E c \in Cells : CellStep(c)) \/ Tick \/ Over

Spec == Init /\ [][Next]_vars

-----------------------------------------------------------------------------
(* Properties                                                               *)

Steps == {"waiting", "running", "testing", "stamping", "assigning", "making",
          "returning", "writing", "done", "raised"}

(* Type invariant: whatever the interleaving, a directory and a log file are *)
(* made only under a timestamp that has been assigned.                       *)
TypeOK ==
    /\ clock \in Seconds /\ path \in {NoPath} \cup Seconds
    /\ dirs \subseteq Seconds
    /\ \A f \in DOMAIN files : f[1] \in dirs /\ files[f] \in Cells
    /\ step \in [Cells -> Steps]
    /\ verdict \in [Cells -> {"none", "PASS", "SKIP", "FAIL", "TIMEOUT"}]
    /\ excepted \subseteq Cells
    /\ mine \in [Cells -> {NoPath} \cup Seconds]

Failing(c) == verdict[c] \in {"FAIL", "TIMEOUT"}

(* Every failing cell that is over has its own log ("On FAIL or TIMEOUT, a   *)
(* short log appears under debug_logs/run_<timestamp>/", README.md:73).      *)
EveryFailureHasLog ==
    \A c \in Cells : Failing(c) /\ step[c] \in {"done", "raised"} =>
        \E f \in DOMAIN files : files[f] = c

(* With distinct names, a failing cell without a log of its own has at least *)
(* raised: no thread overwrites or misplaces the log of another.             *)
NoLogLost ==
    \A c \in Cells : Failing(c) /\ step[c] = "done" =>
        \E f \in DOMAIN files : files[f] = c

(* The race for self.path makes at most one directory for each job: a thread *)
(* that finds a directory never makes another.                               *)
FewDirectories == Cardinality(dirs) <= Jobs
=============================================================================
