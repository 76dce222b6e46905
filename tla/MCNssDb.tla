------------------------------- MODULE MCNssDb -------------------------------
(* The NSS wrappers of a serial run and of one slot of a parallel run, and   *)
(* one that was started by hand and has the default path of the serial run.  *)
EXTENDS NssDb

Slots == [w \in Wrappers |-> IF w = "slot1" THEN 1 ELSE NoSlot]
=============================================================================
