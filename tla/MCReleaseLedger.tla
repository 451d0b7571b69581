-------------------------- MODULE MCReleaseLedger --------------------------
(***************************************************************************)
(* Three apply batches, the last built with a newer generator, and two or  *)
(* three release attempts.                                                 *)
(***************************************************************************)
EXTENDS ReleaseLedger

MCGenOf == [b \in Batches |-> IF b < LastBatch THEN "g1" ELSE "g2"]
=============================================================================
