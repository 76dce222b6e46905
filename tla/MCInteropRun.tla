---------------------------- MODULE MCInteropRun ----------------------------
(* Small sessions for InteropRun: two wrappers, two or four cells.          *)
EXTENDS InteropRun

CONSTANTS a, b

None == {}

\* Cell 1 crosses the wrappers, cell 2 has both roles on one, which in one run
\* cannot serve its client.
TwoCells     == 1 .. 2
Server2      == <<a, a>>
Client2      == <<b, a>>
SkipsClient2 == {<<2, "client">>}

\* Of four cells the second swaps the roles of the first, and the last runs
\* both roles on one wrapper, which cannot serve its client.
FourCells    == 1 .. 4
Server4      == <<a, b, a, a>>
Client4      == <<b, a, b, a>>
SkipsClient4 == {<<4, "client">>}

WaitTcp      == {"wait_tcp"}
EstClient    == {"est_client"}
Unfinished   == WorkerSteps \ {"done"}
AnyStep      == WorkerSteps
=============================================================================
