---------------------------- MODULE ReleaseTrain ----------------------------
(***************************************************************************)
(* What the production release ledger promises, without its tables: the    *)
(* published frontier only moves forward along the apply batches, one      *)
(* release at a time, and nothing ships that a human has not approved.     *)
(***************************************************************************)
EXTENDS Integers

CONSTANT LastBatch

VARIABLES
    frontier,   \* the newest published batch, 0 before the first
    platform,   \* what stands ready to leave: nothing, a proposal, an approved release
    begun       \* some release was ever recorded

trainVars == <<frontier, platform, begun>>

TrainInit == frontier = 0 /\ platform = "empty" /\ begun = FALSE

\* Production that predates the ledger is written down, once and first.
Adopt == /\ ~begun /\ begun' = TRUE
         /\ frontier' \in 1..LastBatch
         /\ UNCHANGED platform

Propose == /\ platform = "empty" /\ platform' = "proposed"
           /\ begun' = TRUE
           /\ UNCHANGED frontier

Approve == /\ platform = "proposed" /\ platform' = "approved"
           /\ UNCHANGED <<frontier, begun>>

Ship == /\ platform = "approved" /\ platform' = "empty"
        /\ frontier' \in frontier..LastBatch
        /\ UNCHANGED begun

Withdraw == /\ platform = "approved" /\ platform' = "empty"
            /\ UNCHANGED <<frontier, begun>>

TrainNext == Adopt \/ Propose \/ Approve \/ Ship \/ Withdraw

TrainSpec == TrainInit /\ [][TrainNext]_trainVars
=============================================================================
