---------------------------- MODULE CellVerdicts ----------------------------
(***************************************************************************)
(* What the driver promises of a matrix run (src/README.md, "Results"):     *)
(* the cells are decided one after the other, each exactly once, and PASS   *)
(* is given only to a cell whose own client sent the payload, over a        *)
(* completed handshake, to the cell's own server.                           *)
(***************************************************************************)
EXTENDS Naturals

CONSTANT NumCells

VARIABLES
    verdict,   \* of each cell; "none" while it is undecided
    proven     \* cells with a payload carried from their client to their server

vars == <<verdict, proven>>

Undecided(c) == verdict[c] = "none"
Reached(c) == \A d \in 1 .. c - 1 : ~ Undecided(d)

Init ==
    /\ verdict = [c \in 1 .. NumCells |-> "none"]
    /\ proven = {}

\* Evidence for PASS never appears before the cell runs (it may come too late).
Prove(c) ==
    /\ Reached(c)
    /\ c \notin proven
    /\ proven' = proven \cup {c}
    /\ UNCHANGED verdict

Decide(c, v) ==
    /\ Reached(c) /\ Undecided(c)
    /\ v = "PASS" => c \in proven
    /\ verdict' = [verdict EXCEPT ![c] = v]
    /\ UNCHANGED proven

Next ==
    \E c \in 1 .. NumCells :
        Prove(c) \/ \E v \in {"PASS", "FAIL", "SKIP", "TIMEOUT"} : Decide(c, v)

Spec == Init /\ [][Next]_vars
=============================================================================
