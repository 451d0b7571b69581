------------------------- MODULE ApplyEngineProofs -------------------------
(***************************************************************************)
(* The safety properties of SuggestionStore, for every set of suggestions, *)
(* editors, groups and batches and whatever the callers send; that the     *)
(* apply engine only makes moves the suggestion store allows, so that they *)
(* hold of the whole system; and the engine's own safety properties, for   *)
(* any rows, targets, batches and faults.                                  *)
(***************************************************************************)
EXTENDS ApplyEngine, TLAPS

-----------------------------------------------------------------------------
(* The suggestion store.                                                   *)

\* Ranks are handed out in order: no row is younger than the next rank.
RanksInOrder == \A s \in Suggestion : created[s] <= inserted

\* The inductive invariant.
StoreInv ==
  /\ TypeOK
  /\ RanksInOrder
  /\ SupersededHasSuccessor
  /\ OnlyReviewedRowsAreQueued
  /\ InFlightIsJournalled

-----------------------------------------------------------------------------
(* What the status machine lets through, once and for all.                 *)

\* CanTransition never leaves a terminal status, never creates or removes a
\* row, and yields a status.
LEMMA TransitionFacts ==
  ASSUME NEW from, NEW to, CanTransition(from, to)
  PROVE  /\ from \in Status \ Terminal
         /\ to \in Status
         /\ to = "superseded" => from \in {"pending", "accepted"}
         /\ to = "in_flight" => from = "accepted"
         /\ to \in {"accepted_blocked", "needs_human", "applied"}
              => from \in {"in_flight", "needs_human"}
<1> USE DEF CanTransition, Status, Terminal
<1>1. CASE from = "pending"          BY <1>1 DEF Allowed
<1>2. CASE from = "accepted"         BY <1>2 DEF Allowed
<1>3. CASE from = "in_flight"        BY <1>3 DEF Allowed
<1>4. CASE from = "accepted_blocked" BY <1>4 DEF Allowed
<1>5. CASE from = "drift"            BY <1>5 DEF Allowed
<1>6. CASE from = "needs_human"      BY <1>6 DEF Allowed
<1>7. CASE from \in {"superseded", "declined", "applied"} BY <1>7 DEF Allowed
<1> QED BY <1>1, <1>2, <1>3, <1>4, <1>5, <1>6, <1>7

\* Every RPC preserves the types.
LEMMA TypeStep == TypeOK /\ [Next]_vars => TypeOK'
<1> SUFFICES ASSUME TypeOK, [Next]_vars PROVE TypeOK'
  OBVIOUS
<1> USE StoreAssumption DEF TypeOK
<1>1. ASSUME NEW s \in Suggestion, Suggest(s) PROVE TypeOK'
  BY <1>1 DEF Suggest, journalVars, Status
<1>2. ASSUME NEW g \in Group, NEW to \in {"accepted", "declined"}, DecideGroup(g, to)
      PROVE TypeOK'
  BY <1>2 DEF DecideGroup, Members, journalVars, Status
<1>3. ASSUME NEW s \in Suggestion, NEW to \in {"accepted", "declined"}, DecideOne(s, to)
      PROVE TypeOK'
  BY <1>3 DEF DecideOne, journalVars, Status
<1>4. ASSUME NEW s \in Suggestion, MarkDrift(s) PROVE TypeOK'
  BY <1>4 DEF MarkDrift, journalVars, Status
<1>5. ASSUME NEW s \in Suggestion, Reanchor(s) PROVE TypeOK'
  BY <1>5 DEF Reanchor, journalVars, Status
<1>6. ASSUME NEW b \in Batch, NEW C \in SUBSET Suggestion, ClaimBatch(b, C) PROVE TypeOK'
  <2>1. Claimable(C) \subseteq Suggestion
    BY DEF Claimable, Members
  <2> QED BY <1>6, <2>1 DEF ClaimBatch, Phase, PreMerged, Status
<1>7. ASSUME NEW b \in Batch, NEW ph \in FinalizePhase, NEW to \in Outcomes,
             NEW ev \in BOOLEAN, Finalize(b, ph, to, ev)
      PROVE TypeOK'
  <2>1. \A s \in Suggestion : Moved(s, to) => to[s] \in Status
    BY TransitionFacts DEF Moved
  <2>2. status' \in [Suggestion -> Status \cup {"absent"}]
    BY <1>7, <2>1 DEF Finalize
  <2>3. phase' \in [Batch -> Phase \cup {"none"}]
    BY <1>7 DEF Finalize
  <2> QED BY <1>7, <2>2, <2>3 DEF Finalize
<1>8. ASSUME NEW b \in Batch, LeaseExpires(b) PROVE TypeOK'
  BY <1>8 DEF LeaseExpires, rowVars
<1>9. CASE Reconcile
  <2>1. status' \in [Suggestion -> Status \cup {"absent"}]
    BY <1>9 DEF Reconcile, Status
  <2>2. phase' \in [Batch -> Phase \cup {"none"}]
    BY <1>9 DEF Reconcile, Phase
  <2>3. batchOf' \in [Suggestion -> Batch \cup {NoBatch}]
    BY <1>9 DEF Reconcile
  <2> QED BY <1>9, <2>1, <2>2, <2>3 DEF Reconcile
<1>10. CASE UNCHANGED vars
  BY <1>10 DEF vars
<1> QED
  BY <1>1, <1>2, <1>3, <1>4, <1>5, <1>6, <1>7, <1>8, <1>9, <1>10
     DEF Next, Editing, Reviewing, Applying

\* The store computes correctly typed rows, journal entries and history.
THEOREM TypeCorrect == Spec => []TypeOK
<1>1. Init => TypeOK
  BY StoreAssumption DEF Init, TypeOK
<1>2. QED
  BY <1>1, TypeStep, PTL DEF Spec

-----------------------------------------------------------------------------
(* How a single step may change one row.                                   *)

\* A row keeps its status, moves along the status machine, or appears.
LegalMove(s) ==
  \/ status'[s] = status[s]
  \/ CanTransition(status[s], status'[s])
  \/ status[s] = "absent" /\ status'[s] \in {"pending", "accepted"}

\* Every writer of the status column goes through the status machine.
LEMMA LegalMoves ==
  ASSUME TypeOK, [Next]_vars, NEW s \in Suggestion
  PROVE  LegalMove(s)
<1> USE StoreAssumption DEF TypeOK, LegalMove
<1>1. ASSUME NEW r \in Suggestion, Suggest(r) PROVE LegalMove(s)
  BY <1>1 DEF Suggest, Replaces, Present, CanTransition, Allowed, Status
<1>2. ASSUME NEW g \in Group, NEW to \in {"accepted", "declined"}, DecideGroup(g, to)
      PROVE LegalMove(s)
  BY <1>2 DEF DecideGroup
<1>3. ASSUME NEW r \in Suggestion, NEW to \in {"accepted", "declined"}, DecideOne(r, to)
      PROVE LegalMove(s)
  BY <1>3 DEF DecideOne
<1>4. ASSUME NEW r \in Suggestion, MarkDrift(r) \/ Reanchor(r) PROVE LegalMove(s)
  BY <1>4 DEF MarkDrift, Reanchor
<1>5. ASSUME NEW b \in Batch, NEW C \in SUBSET Suggestion, ClaimBatch(b, C)
      PROVE LegalMove(s)
  <2>1. \A r \in Claimable(C) : status[r] = "accepted"
    BY DEF Claimable, WholeGroupAccepted
  <2> QED BY <1>5, <2>1 DEF ClaimBatch, CanTransition, Allowed, Status
<1>6. ASSUME NEW b \in Batch, NEW ph \in FinalizePhase, NEW to \in Outcomes,
             NEW ev \in BOOLEAN, Finalize(b, ph, to, ev)
      PROVE LegalMove(s)
  BY <1>6 DEF Finalize, Moved
<1>7. ASSUME NEW b \in Batch, LeaseExpires(b) PROVE LegalMove(s)
  BY <1>7 DEF LeaseExpires, rowVars
<1>8. CASE Reconcile
  <2>1. \A r \in Requeued \cup Orphaned \cup Completed : status[r] = "in_flight"
    BY DEF Requeued, Orphaned, Completed
  <2> QED BY <1>8, <2>1 DEF Reconcile, CanTransition, Allowed, Status
<1>9. CASE UNCHANGED vars
  BY <1>9 DEF vars
<1> QED
  BY <1>1, <1>2, <1>3, <1>4, <1>5, <1>6, <1>7, <1>8, <1>9
     DEF Next, Editing, Reviewing, Applying

\* Applied, declined and superseded rows never change again.
THEOREM TerminalStays == Spec => TerminalIsForever
<1>1. TypeOK /\ [Next]_vars
        => [\A s \in Suggestion : status[s] \in Terminal => status'[s] = status[s]]_vars
  <2> SUFFICES ASSUME TypeOK, [Next]_vars, NEW s \in Suggestion, status[s] \in Terminal
               PROVE  status'[s] = status[s]
    OBVIOUS
  <2>1. LegalMove(s)
    BY LegalMoves
  <2>2. status[s] # "absent"
    BY DEF Terminal
  <2> QED BY <2>1, <2>2, TransitionFacts DEF LegalMove
<1>2. QED
  BY <1>1, TypeCorrect, PTL DEF Spec, TerminalIsForever

-----------------------------------------------------------------------------
(* The inductive step of each part of StoreInv.                            *)

\* Ranks only grow and rows only appear: what SupersededHasSuccessor needs to
\* carry a witness from one state to the next.
LEMMA RankStep ==
  ASSUME TypeOK, RanksInOrder, [Next]_vars
  PROVE  /\ RanksInOrder'
         /\ \A s \in Suggestion : Present(s) => Present(s)' /\ created'[s] = created[s]
<1> USE DEF TypeOK, RanksInOrder, Present
<1>1. \A s \in Suggestion : Present(s) => Present(s)'
  BY LegalMoves DEF LegalMove, CanTransition, Allowed, Status
<1>2. ASSUME NEW r \in Suggestion, Suggest(r)
      PROVE  RanksInOrder' /\ \A s \in Suggestion : Present(s) => created'[s] = created[s]
  BY <1>2 DEF Suggest
<1>3. CASE UNCHANGED <<created, inserted>>
  BY <1>1, <1>3
<1>4. UNCHANGED <<created, inserted>> \/ \E r \in Suggestion : Suggest(r)
  BY DEF Next, Editing, Reviewing, Applying, vars, DecideGroup, DecideOne, MarkDrift,
         Reanchor, ClaimBatch, Finalize, LeaseExpires, rowVars, Reconcile
<1> QED BY <1>1, <1>2, <1>3, <1>4

\* Only suggest supersedes.
LEMMA OnlySuggestSupersedes ==
  ASSUME TypeOK, [Next]_vars, NEW s \in Suggestion,
         status'[s] = "superseded", status[s] # "superseded"
  PROVE  \E r \in Suggestion : Suggest(r) /\ Replaces(r, s)
<1> USE StoreAssumption DEF TypeOK
<1>1. ASSUME NEW r \in Suggestion, Suggest(r) PROVE Replaces(r, s)
  BY <1>1 DEF Suggest
<1>2. ASSUME NEW g \in Group, NEW to \in {"accepted", "declined"}, DecideGroup(g, to)
      PROVE FALSE
  BY <1>2 DEF DecideGroup
<1>3. ASSUME NEW r \in Suggestion, NEW to \in {"accepted", "declined"}, DecideOne(r, to)
      PROVE FALSE
  BY <1>3 DEF DecideOne
<1>4. ASSUME NEW r \in Suggestion, MarkDrift(r) \/ Reanchor(r) PROVE FALSE
  BY <1>4 DEF MarkDrift, Reanchor
<1>5. ASSUME NEW b \in Batch, NEW C \in SUBSET Suggestion, ClaimBatch(b, C) PROVE FALSE
  BY <1>5 DEF ClaimBatch
<1>6. ASSUME NEW b \in Batch, NEW ph \in FinalizePhase, NEW to \in Outcomes,
             NEW ev \in BOOLEAN, Finalize(b, ph, to, ev)
      PROVE FALSE
  BY <1>6 DEF Finalize, Moved, Outcome
<1>7. ASSUME NEW b \in Batch, LeaseExpires(b) PROVE FALSE
  BY <1>7 DEF LeaseExpires, rowVars
<1>8. CASE Reconcile
  BY <1>8 DEF Reconcile
<1>9. CASE UNCHANGED vars
  BY <1>9 DEF vars
<1> QED
  BY <1>1, <1>2, <1>3, <1>4, <1>5, <1>6, <1>7, <1>8, <1>9
     DEF Next, Editing, Reviewing, Applying

\* A superseded row keeps its younger successor, and a row superseded now gets
\* the submission that replaced it.
LEMMA SuccessorStep ==
  ASSUME TypeOK, RanksInOrder, SupersededHasSuccessor, [Next]_vars
  PROVE  SupersededHasSuccessor'
<1> SUFFICES ASSUME NEW s \in Suggestion, status'[s] = "superseded"
             PROVE  \E r \in Suggestion : /\ Present(r)' /\ SameSpot(s, r) /\ HumanEdit(r)
                                          /\ created'[s] < created'[r]
  BY DEF SupersededHasSuccessor, SameSpot, HumanEdit
<1>1. CASE status[s] = "superseded"
  <2>1. PICK r \in Suggestion : /\ Present(r) /\ SameSpot(s, r) /\ HumanEdit(r)
                                /\ created[s] < created[r]
    BY <1>1 DEF SupersededHasSuccessor
  <2>2. Present(s)
    BY <1>1 DEF Present
  <2> QED BY <2>1, <2>2, RankStep
<1>2. CASE status[s] # "superseded"
  <2>1. PICK r \in Suggestion : Suggest(r) /\ Replaces(r, s)
    BY <1>2, OnlySuggestSupersedes
  <2>2. Present(r)' /\ created'[s] = created[s] /\ created'[r] = inserted + 1
    BY <2>1 DEF Suggest, Replaces, Present, TypeOK
  <2>3. created'[s] < created'[r]
    BY <2>2 DEF RanksInOrder, TypeOK
  <2>4. SameSpot(s, r) /\ HumanEdit(r)
    BY <2>1 DEF Replaces, SameSpot
  <2> QED BY <2>2, <2>3, <2>4
<1> QED BY <1>1, <1>2

Queued == {"accepted", "in_flight", "accepted_blocked", "needs_human", "applied"}

\* A row that needs a review enters the queue through decide, and loses its
\* review only by leaving the queue.
LEMMA ReviewedStep ==
  ASSUME TypeOK, OnlyReviewedRowsAreQueued, InFlightIsJournalled, [Next]_vars
  PROVE  OnlyReviewedRowsAreQueued'
<1> SUFFICES ASSUME NEW s \in Suggestion, status'[s] \in Queued, ~AutoApply(s)
             PROVE  s \in decided'
  BY DEF OnlyReviewedRowsAreQueued, AutoApply, Queued
<1> USE StoreAssumption DEF TypeOK
<1>0. status[s] \in Queued => s \in decided
  BY DEF OnlyReviewedRowsAreQueued, Queued
<1>1. ASSUME NEW r \in Suggestion, Suggest(r) PROVE s \in decided'
  BY <1>0, <1>1 DEF Suggest, Queued
<1>2. ASSUME NEW g \in Group, NEW to \in {"accepted", "declined"}, DecideGroup(g, to)
      PROVE s \in decided'
  BY <1>0, <1>2 DEF DecideGroup, Queued
<1>3. ASSUME NEW r \in Suggestion, NEW to \in {"accepted", "declined"}, DecideOne(r, to)
      PROVE s \in decided'
  BY <1>0, <1>3 DEF DecideOne, Queued
<1>4. ASSUME NEW r \in Suggestion, MarkDrift(r) \/ Reanchor(r) PROVE s \in decided'
  BY <1>0, <1>4 DEF MarkDrift, Reanchor, Queued
<1>5. ASSUME NEW b \in Batch, NEW C \in SUBSET Suggestion, ClaimBatch(b, C)
      PROVE s \in decided'
  <2>1. \A r \in Claimable(C) : status[r] = "accepted"
    BY DEF Claimable, WholeGroupAccepted
  <2> QED BY <1>0, <1>5, <2>1 DEF ClaimBatch, Queued
<1>6. ASSUME NEW b \in Batch, NEW ph \in FinalizePhase, NEW to \in Outcomes,
             NEW ev \in BOOLEAN, Finalize(b, ph, to, ev)
      PROVE s \in decided'
  <2>1. CASE Moved(s, to)
    <3>1. CanTransition(status[s], to[s]) /\ to[s] \in Outcome
      BY <2>1 DEF Moved
    <3>2. to[s] # "drift"
      BY <1>6, <2>1 DEF Finalize, Queued
    <3>3. status[s] \in {"in_flight", "needs_human"}
      BY <3>1, <3>2, TransitionFacts DEF Outcome
    <3> QED BY <1>0, <1>6, <3>3 DEF Finalize, Queued
  <2>2. CASE ~Moved(s, to)
    BY <1>0, <1>6, <2>2 DEF Finalize, Queued
  <2> QED BY <2>1, <2>2
<1>7. ASSUME NEW b \in Batch, LeaseExpires(b) PROVE s \in decided'
  BY <1>0, <1>7 DEF LeaseExpires, rowVars
<1>8. CASE Reconcile
  <2>1. \A r \in Requeued \cup Orphaned \cup Completed : status[r] = "in_flight"
    BY DEF Requeued, Orphaned, Completed
  <2> QED BY <1>0, <1>8, <2>1 DEF Reconcile, Queued
<1>9. CASE UNCHANGED vars
  BY <1>0, <1>9 DEF vars
<1> QED
  BY <1>1, <1>2, <1>3, <1>4, <1>5, <1>6, <1>7, <1>8, <1>9
     DEF Next, Editing, Reviewing, Applying

\* Only a claim puts a row in flight, and a claim journals it; every later RPC
\* keeps the journal row, and takes the lease off only with the status.
LEMMA JournalStep ==
  ASSUME TypeOK, InFlightIsJournalled, [Next]_vars
  PROVE  InFlightIsJournalled'
<1> SUFFICES ASSUME NEW s \in Suggestion, status'[s] = "in_flight"
             PROVE  batchOf'[s] \in Batch /\ phase'[batchOf'[s]] # "none" /\ s \in leased'
  BY DEF InFlightIsJournalled
<1> USE StoreAssumption DEF TypeOK
<1>0. status[s] = "in_flight" =>
        batchOf[s] \in Batch /\ phase[batchOf[s]] # "none" /\ s \in leased
  BY DEF InFlightIsJournalled
<1> DEFINE Covered == batchOf'[s] \in Batch /\ phase'[batchOf'[s]] # "none" /\ s \in leased'
<1>1. ASSUME NEW r \in Suggestion, Suggest(r) PROVE Covered
  BY <1>0, <1>1 DEF Suggest, journalVars
<1>2. ASSUME NEW g \in Group, NEW to \in {"accepted", "declined"}, DecideGroup(g, to)
      PROVE Covered
  BY <1>0, <1>2 DEF DecideGroup, journalVars
<1>3. ASSUME NEW r \in Suggestion, NEW to \in {"accepted", "declined"}, DecideOne(r, to)
      PROVE Covered
  BY <1>0, <1>3 DEF DecideOne, journalVars
<1>4. ASSUME NEW r \in Suggestion, MarkDrift(r) \/ Reanchor(r) PROVE Covered
  BY <1>0, <1>4 DEF MarkDrift, Reanchor, journalVars
<1>5. ASSUME NEW b \in Batch, NEW C \in SUBSET Suggestion, ClaimBatch(b, C) PROVE Covered
  BY <1>0, <1>5 DEF ClaimBatch
<1>6. ASSUME NEW b \in Batch, NEW ph \in FinalizePhase, NEW to \in Outcomes,
             NEW ev \in BOOLEAN, Finalize(b, ph, to, ev)
      PROVE Covered
  <2>1. ~Moved(s, to) /\ status[s] = "in_flight"
    BY <1>6 DEF Finalize, Moved, Outcome
  <2>2. ph # "none"
    BY DEF Phase, PreMerged
  <2> QED BY <1>0, <1>6, <2>1, <2>2 DEF Finalize
<1>7. ASSUME NEW b \in Batch, LeaseExpires(b) PROVE Covered
  BY <1>0, <1>7 DEF LeaseExpires, rowVars
<1>8. CASE Reconcile
  <2>1. status[s] = "in_flight" /\ s \notin Requeued \cup Orphaned \cup Completed
    BY <1>8 DEF Reconcile
  <2>2. batchOf'[s] = batchOf[s] /\ s \in leased'
    BY <1>0, <1>8, <2>1 DEF Reconcile
  <2>3. phase'[batchOf[s]] # "none"
    BY <1>0, <1>8, <2>1 DEF Reconcile
  <2> QED BY <1>0, <2>1, <2>2, <2>3
<1>9. CASE UNCHANGED vars
  BY <1>0, <1>9 DEF vars
<1> QED
  BY <1>1, <1>2, <1>3, <1>4, <1>5, <1>6, <1>7, <1>8, <1>9
     DEF Next, Editing, Reviewing, Applying

-----------------------------------------------------------------------------
(* The invariant and its consequences.                                     *)

\* Every reachable state satisfies every part of StoreInv.
THEOREM StoreInvariant == Spec => []StoreInv
<1>1. Init => StoreInv
  BY StoreAssumption
     DEF Init, StoreInv, TypeOK, RanksInOrder, SupersededHasSuccessor,
         OnlyReviewedRowsAreQueued, InFlightIsJournalled
<1>2. StoreInv /\ [Next]_vars => StoreInv'
  BY TypeStep, RankStep, SuccessorStep, ReviewedStep, JournalStep DEF StoreInv
<1>3. QED
  BY <1>1, <1>2, PTL DEF Spec

\* Last-edit-wins never loses a text: a superseded row has a younger successor
\* by the same editor on the same spot.
THEOREM NoEditVanishes == Spec => []SupersededHasSuccessor
<1>1. StoreInv => SupersededHasSuccessor
  BY DEF StoreInv
<1>2. QED
  BY <1>1, StoreInvariant, PTL

\* The review boundary: nothing but an editor's own prose edit reaches the
\* apply queue without an admin's accept.
THEOREM ReviewBoundary == Spec => []OnlyReviewedRowsAreQueued
<1>1. StoreInv => OnlyReviewedRowsAreQueued
  BY DEF StoreInv
<1>2. QED
  BY <1>1, StoreInvariant, PTL

\* Reconcile can find every claimed row through the journal.
THEOREM JournalCoversClaims == Spec => []InFlightIsJournalled
<1>1. StoreInv => InFlightIsJournalled
  BY DEF StoreInv
<1>2. QED
  BY <1>1, StoreInvariant, PTL

-----------------------------------------------------------------------------
(* The apply engine.                                                       *)

(* Every engine step is a step of the store, or leaves it alone.           *)

\* The outcome lists run_apply sends are among those the store is ready for.
LEMMA OutcomesAllowed ==
  /\ Nothing \in Outcomes
  /\ \A a, b, h, d : Outcomes4(a, b, h, d) \in Outcomes
  /\ {"patched", "validated", "built", "parity_ok", "deployed", "merged", "done",
      "rolled_back"} \subseteq FinalizePhase
BY EngineAssumption DEF Nothing, Outcomes4, Outcome, Phase, PreMerged

\* A finalize call of the engine is a finalize call of the store.
LEMMA FinalizeIsApplying ==
  ASSUME batch \in Batch, NEW ph \in FinalizePhase, NEW to \in Outcomes, NEW ev \in BOOLEAN,
         Finalize(batch, ph, to, ev)
  PROVE  Next
BY DEF Next, Applying

\* Whatever the engine, its crashes and the world around it do, the store sees
\* one of its own RPCs.
LEMMA EngineStepIsStoreStep ==
  ASSUME EngineTypeOK, [EngineNext]_allVars
  PROVE  [Next]_vars
<1> USE DEF storeVars
<1>0. pc \notin {"idle", "reconciled"} => batch \in Batch
  BY StoreAssumption DEF EngineTypeOK
<1>1. ASSUME NEW s \in Suggestion, SubmitRow(s) PROVE Next
  BY <1>1 DEF SubmitRow, Next, Editing
<1>2. CASE Review
  BY <1>2 DEF Review, Next, Reviewing
<1>3. CASE StoreRestarts \/ Begin
  BY <1>3 DEF StoreRestarts, Begin, Next, Applying
<1>4. ASSUME NEW b \in Batch, LeaseRunsOut(b) PROVE Next
  BY <1>4 DEF LeaseRunsOut, Next, Applying
<1>5. ASSUME NEW b \in Batch, Claim(b) PROVE Next
  BY <1>5 DEF Claim, Next, Applying
<1>6. ASSUME NEW H \in HumanLists, Patch(H) \/ ReplayFails(H) PROVE Next
  BY <1>0, <1>6, OutcomesAllowed, FinalizeIsApplying DEF Patch, ReplayFails, RollBack
<1>7. CASE ValidatorRed \/ StepFails \/ PlanOnly
  BY <1>0, <1>7, OutcomesAllowed, FinalizeIsApplying
     DEF ValidatorRed, StepFails, PlanOnly, RollBack
<1>8. CASE Validate \/ Build \/ Parity \/ JournalDeployed \/ JournalMerged
  BY <1>0, <1>8, OutcomesAllowed, FinalizeIsApplying
     DEF Validate, Build, Parity, JournalDeployed, JournalMerged, Journal
<1>9. CASE Done
  BY <1>0, <1>9, OutcomesAllowed, FinalizeIsApplying DEF Done
<1>10. ASSUME \/ NothingToClaim \/ Deploy \/ Merge \/ MergeRefused \/ Crash \/ Redeploy
              \/ \E t \in Target : OutsideCommit(t)
              \/ UNCHANGED allVars
       PROVE  UNCHANGED vars
  BY <1>10 DEF NothingToClaim, Deploy, Merge, MergeRefused, Crash, Redeploy, OutsideCommit,
               allVars
<1> QED
  BY <1>1, <1>2, <1>3, <1>4, <1>5, <1>6, <1>7, <1>8, <1>9, <1>10 DEF EngineNext, Run, World

-----------------------------------------------------------------------------
(* Types.                                                                  *)

\* The texts of the patched worktree are texts.
LEMMA PatchedType ==
  ASSUME EngineTypeOK
  PROVE  Patched \in [Target -> Text]
BY DEF EngineTypeOK, Patched, Text

\* Stopping a run leaves the run's own variables typed.
LEMMA StopType ==
  ASSUME Stop
  PROVE  /\ pc' = "idle" /\ batch' = NoBatch /\ base' \in Nat
         /\ tree' \in [Target -> Text]
         /\ patches' = {} /\ drifted' = {} /\ toHuman' = {}
BY DEF Stop, Text

\* Every engine step and every fault preserves the engine's types, and no row
\* gets two outcomes.
LEMMA EngineTypeStep ==
  ASSUME EngineTypeOK, [EngineNext]_allVars
  PROVE  EngineTypeOK'
<1>0. TypeOK'
  BY TypeStep, EngineStepIsStoreStep DEF EngineTypeOK
<1> USE <1>0, EngineAssumption, StoreAssumption
<1>1. ASSUME NEW s \in Suggestion, SubmitRow(s) PROVE EngineTypeOK'
  BY <1>1 DEF SubmitRow, EngineTypeOK, gitVars, runVars, Columns
<1>2. CASE Review \/ StoreRestarts \/ \E b \in Batch : LeaseRunsOut(b)
  BY <1>2 DEF Review, StoreRestarts, LeaseRunsOut, EngineTypeOK, engineVars, gitVars, runVars
<1>3. ASSUME NEW t \in Target, OutsideCommit(t) PROVE EngineTypeOK'
  BY <1>3 DEF OutsideCommit, EngineTypeOK, runVars, Text
<1>4. CASE Redeploy
  BY <1>4 DEF Redeploy, EngineTypeOK, gitVars, runVars
<1>5. CASE Begin
  BY <1>5 DEF Begin, EngineTypeOK, gitVars, Steps
<1>6. ASSUME NEW b \in Batch, Claim(b) PROVE EngineTypeOK'
  <2>1. Claimable(Suggestion) \subseteq Suggestion
    BY DEF Claimable, Members
  <2> QED BY <1>6, <2>1 DEF Claim, EngineTypeOK, gitVars, Steps
<1>7. ASSUME NEW H \in HumanLists, Patch(H) PROVE EngineTypeOK'
  <2>1. H \subseteq patches /\ DriftedGroups \subseteq patches
    BY DEF HumanLists, DriftedGroups
  <2> QED BY <1>7, <2>1 DEF Patch, Kept, EngineTypeOK, gitVars, Steps
<1>8. CASE Validate \/ Build \/ Parity \/ JournalDeployed \/ JournalMerged
  BY <1>8 DEF Validate, Build, Parity, JournalDeployed, JournalMerged, Journal, EngineTypeOK,
              gitVars, Steps
<1>9. CASE Deploy
  BY <1>9, PatchedType DEF Deploy, EngineTypeOK, gitVars, Steps
<1>10. CASE Merge
  BY <1>10, PatchedType DEF Merge, EngineTypeOK, Steps
<1>11. ASSUME /\ Stop /\ UNCHANGED <<rowHash, deployedMap, gitVars>> PROVE EngineTypeOK'
  BY <1>11, StopType DEF EngineTypeOK, gitVars, Steps
<1>12. ASSUME \/ NothingToClaim \/ \E H \in HumanLists : ReplayFails(H)
              \/ ValidatorRed \/ StepFails \/ PlanOnly \/ MergeRefused \/ Done \/ Crash
       PROVE  EngineTypeOK'
  BY <1>11, <1>12 DEF NothingToClaim, ReplayFails, ValidatorRed, StepFails, PlanOnly, RollBack,
                      MergeRefused, Done, Crash
<1>13. CASE UNCHANGED allVars
  BY <1>13 DEF allVars, engineVars, gitVars, runVars, EngineTypeOK
<1> QED
  BY <1>1, <1>2, <1>3, <1>4, <1>5, <1>6, <1>7, <1>8, <1>9, <1>10, <1>12, <1>13
     DEF EngineNext, Run, World

\* The system's types, for any instance and any faults.
THEOREM EngineTypeCorrect == EngineSpec => []EngineTypeOK
<1>1. EngineInit => EngineTypeOK
  <2>1. Init => TypeOK
    BY StoreAssumption DEF Init, TypeOK
  <2> QED BY <2>1, StoreAssumption DEF EngineInit, EngineTypeOK, Text, Steps
<1>2. QED
  BY <1>1, EngineTypeStep, PTL DEF EngineSpec

\* The engine implements the store: seen from the Durable Object, a run, its
\* crashes and everything around it are RPCs in some order.
THEOREM EngineImplementsStore == EngineSpec => Spec
<1>1. EngineInit => Init
  BY DEF EngineInit
<1>2. QED
  BY <1>1, EngineStepIsStoreStep, EngineTypeCorrect, PTL DEF EngineSpec, Spec

\* So the review boundary and the rest of StoreInv hold while engines run and die.
THEOREM EngineKeepsStoreInv == EngineSpec => []StoreInv /\ TerminalIsForever
BY EngineImplementsStore, StoreInvariant, TerminalStays, PTL

-----------------------------------------------------------------------------
(* The journal and the branch.                                             *)

MergedFirst == pc \in {"landed", "merged"} => batch \in merged

JournalInv == EngineTypeOK /\ MergedFirst /\ JournalClaimsOnlyMerged

\* A phase from merged on is written only by a run that has merged, or by a
\* reconcile that found such a phase.
LEMMA JournalInvStep ==
  ASSUME JournalInv, [EngineNext]_allVars
  PROVE  MergedFirst' /\ JournalClaimsOnlyMerged'
<1> USE StoreAssumption DEF JournalInv, JournalClaimsOnlyMerged, MergedFirst
<1> DEFINE Behind(p) == p \in {"merged", "done", "evidence_missing"}
<1>0. phase \in [Batch -> Phase \cup {"none"}] /\ (pc \in {"landed", "merged"} => batch \in Batch)
  BY DEF EngineTypeOK, TypeOK
<1>1. ASSUME UNCHANGED <<phase, merged>>, pc' \in {"landed", "merged"} => UNCHANGED <<pc, batch>>
      PROVE  MergedFirst' /\ JournalClaimsOnlyMerged'
  BY <1>1
<1>2. ASSUME Reconcile, UNCHANGED merged, pc' \notin {"landed", "merged"} \/ UNCHANGED <<pc, batch>>
      PROVE  MergedFirst' /\ JournalClaimsOnlyMerged'
  <2>1. \A b \in Batch : Behind(phase'[b]) => Behind(phase[b])
    BY <1>0, <1>2 DEF Reconcile, Stale, Closed, PreMerged, Phase
  <2> QED BY <1>2, <2>1
<1>3. ASSUME NEW ph, NEW to, NEW ev, Finalize(batch, ph, to, ev), UNCHANGED merged,
             Behind(ph) => batch \in merged, pc' \in {"landed", "merged"} => batch' \in merged
      PROVE  MergedFirst' /\ JournalClaimsOnlyMerged'
  BY <1>0, <1>3 DEF Finalize
<1>4. CASE \/ \E s \in Suggestion : SubmitRow(s)
           \/ Review \/ Redeploy \/ \E b \in Batch : LeaseRunsOut(b)
           \/ \E t \in Target : OutsideCommit(t)
           \/ NothingToClaim \/ Deploy \/ MergeRefused \/ Crash \/ UNCHANGED allVars
  BY <1>1, <1>4
     DEF SubmitRow, Suggest, Review, DecideGroup, DecideOne, Reanchor, Redeploy, LeaseRunsOut,
         LeaseExpires, OutsideCommit, NothingToClaim, Deploy, MergeRefused, Crash, Stop,
         allVars, storeVars, vars, engineVars, gitVars, runVars, journalVars
<1>5. CASE StoreRestarts \/ Begin
  BY <1>2, <1>5 DEF StoreRestarts, Begin, engineVars, gitVars, runVars
<1>6. ASSUME NEW b \in Batch, Claim(b) PROVE MergedFirst' /\ JournalClaimsOnlyMerged'
  BY <1>0, <1>6 DEF Claim, ClaimBatch, gitVars
<1>7. ASSUME NEW H \in HumanLists, Patch(H) \/ ReplayFails(H)
      PROVE  MergedFirst' /\ JournalClaimsOnlyMerged'
  BY <1>3, <1>7 DEF Patch, ReplayFails, RollBack, Stop, gitVars
<1>8. CASE ValidatorRed \/ StepFails \/ PlanOnly
  BY <1>3, <1>8 DEF ValidatorRed, StepFails, PlanOnly, RollBack, Stop, gitVars
<1>9. CASE Validate \/ Build \/ Parity \/ JournalDeployed
  BY <1>3, <1>9 DEF Validate, Build, Parity, JournalDeployed, Journal, gitVars
<1>10. CASE JournalMerged
  BY <1>3, <1>10 DEF JournalMerged, Journal, gitVars
<1>11. CASE Done
  BY <1>3, <1>11 DEF Done, Stop, gitVars
<1>12. CASE Merge
  BY <1>12 DEF Merge, storeVars, vars
<1> QED
  BY <1>4, <1>5, <1>6, <1>7, <1>8, <1>9, <1>10, <1>11, <1>12 DEF EngineNext, Run, World

\* The journal never claims a merge that did not happen, whatever step a run
\* died in and whichever reconcile found its batch.
THEOREM JournalTellsTheTruth == EngineSpec => []JournalClaimsOnlyMerged
<1>1. EngineInit => MergedFirst /\ JournalClaimsOnlyMerged
  BY DEF EngineInit, Init, MergedFirst, JournalClaimsOnlyMerged
<1>2. QED
  BY <1>1, JournalInvStep, EngineTypeCorrect, PTL DEF EngineSpec, JournalInv

-----------------------------------------------------------------------------
(* What a merge puts on the branch.                                        *)

\* The worktree is the branch as long as nobody committed since the run began;
\* and what is patched fits the worktree.
WorktreeIsBase == pc # "idle" => base <= head /\ (base = head => tree = text)

PatchesFit ==
  /\ \A s \in patches : Present(s)
  /\ pc \notin {"idle", "reconciled", "claimed"} =>
       \A s \in patches : rowHash[s] = tree[Attr[s].target]

LandingInv == EngineTypeOK /\ WorktreeIsBase /\ PatchesFit

\* Rows never disappear.
LEMMA RowsStay ==
  ASSUME EngineTypeOK, [EngineNext]_allVars, NEW s \in Suggestion, Present(s)
  PROVE  Present(s)'
<1>1. LegalMove(s)
  BY EngineStepIsStoreStep, LegalMoves DEF EngineTypeOK
<1> QED BY <1>1, TransitionFacts DEF LegalMove, Present, Status

\* The base moves only while no run is under way, and the branch only forward.
LEMMA WorktreeStep ==
  ASSUME EngineTypeOK, WorktreeIsBase, [EngineNext]_allVars
  PROVE  WorktreeIsBase'
<1> USE DEF WorktreeIsBase, EngineTypeOK
<1>1. ASSUME NEW t \in Target, OutsideCommit(t) PROVE WorktreeIsBase'
  BY <1>1 DEF OutsideCommit, runVars
<1>2. CASE Begin
  BY <1>2 DEF Begin, gitVars
<1>3. CASE Merge
  <2>1. patches = {} => Patched = tree
    BY DEF Patched
  <2> QED BY <1>3, <2>1 DEF Merge, FastForward
<1>4. ASSUME pc' = "idle" \/ (pc # "idle" /\ UNCHANGED <<base, tree, text, head>>)
             \/ UNCHANGED <<pc, base, tree, text, head>>
      PROVE  WorktreeIsBase'
  BY <1>4
<1>5. CASE \/ \E s \in Suggestion : SubmitRow(s)
           \/ Review \/ StoreRestarts \/ Redeploy \/ \E b \in Batch : LeaseRunsOut(b)
           \/ UNCHANGED allVars
  BY <1>4, <1>5 DEF SubmitRow, Review, StoreRestarts, Redeploy, LeaseRunsOut, allVars,
                    engineVars, gitVars, runVars
<1>6. ASSUME NEW b \in Batch, Claim(b) PROVE WorktreeIsBase'
  BY <1>4, <1>6 DEF Claim, gitVars
<1>7. ASSUME NEW H \in HumanLists, Patch(H) \/ ReplayFails(H) PROVE WorktreeIsBase'
  BY <1>4, <1>7 DEF Patch, ReplayFails, RollBack, Stop, gitVars
<1>8. CASE \/ Validate \/ Build \/ Parity \/ JournalDeployed \/ JournalMerged \/ Deploy
           \/ NothingToClaim \/ ValidatorRed \/ StepFails \/ PlanOnly \/ MergeRefused
           \/ Done \/ Crash
  BY <1>4, <1>8
     DEF Validate, Build, Parity, JournalDeployed, JournalMerged, Journal, Deploy,
         NothingToClaim, ValidatorRed, StepFails, PlanOnly, RollBack, MergeRefused, Done,
         Crash, Stop, gitVars
<1> QED
  BY <1>1, <1>2, <1>3, <1>5, <1>6, <1>7, <1>8 DEF EngineNext, Run, World

\* Only the gate chooses what to patch, and a row's stored hash never changes
\* once the row exists.
LEMMA FitStep ==
  ASSUME EngineTypeOK, PatchesFit, [EngineNext]_allVars
  PROVE  PatchesFit'
<1> USE DEF PatchesFit
<1>0. \A s \in patches : s \in Suggestion /\ Present(s)'
  BY RowsStay DEF EngineTypeOK
<1>1. ASSUME NEW r \in Suggestion, SubmitRow(r) PROVE PatchesFit'
  <2>1. r \notin patches
    BY <1>1 DEF SubmitRow, Suggest
  <2> QED BY <1>0, <1>1, <2>1 DEF SubmitRow, runVars, EngineTypeOK
<1>2. ASSUME NEW b \in Batch, Claim(b) PROVE PatchesFit'
  <2>1. \A s \in Claimable(Suggestion) : s \in Suggestion /\ status[s] = "accepted"
    BY DEF Claimable, WholeGroupAccepted, Members
  <2>2. \A s \in Claimable(Suggestion) : Present(s)'
    BY <2>1, RowsStay DEF Present
  <2> QED BY <1>2, <2>2 DEF Claim
<1>3. ASSUME NEW H \in HumanLists, Patch(H) PROVE PatchesFit'
  <2>1. \A s \in Kept(H) : s \in patches /\ rowHash[s] = tree[Attr[s].target]
    BY DEF Kept, DriftedGroups, Mates, HasDrifted
  <2> QED BY <1>0, <1>3, <2>1 DEF Patch
<1>4. ASSUME pc' = "idle" /\ patches' = {} PROVE PatchesFit'
  BY <1>4
<1>5. ASSUME UNCHANGED <<rowHash, tree, patches>>,
             pc \in {"idle", "reconciled", "claimed"} => pc' = pc
      PROVE  PatchesFit'
  BY <1>0, <1>5
<1>6. CASE \/ Review \/ StoreRestarts \/ Redeploy \/ \E b \in Batch : LeaseRunsOut(b)
           \/ \E t \in Target : OutsideCommit(t)
           \/ Validate \/ Build \/ Parity \/ JournalDeployed \/ JournalMerged \/ Deploy \/ Merge
           \/ UNCHANGED allVars
  BY <1>5, <1>6
     DEF Review, StoreRestarts, Redeploy, LeaseRunsOut, OutsideCommit, Validate, Build, Parity,
         JournalDeployed, JournalMerged, Journal, Deploy, Merge, allVars, engineVars, runVars
<1>7. CASE Begin
  BY <1>0, <1>7 DEF Begin
<1>8. CASE \/ NothingToClaim \/ \E H \in HumanLists : ReplayFails(H)
           \/ ValidatorRed \/ StepFails \/ PlanOnly \/ MergeRefused \/ Done \/ Crash
  BY <1>4, <1>8
     DEF NothingToClaim, ReplayFails, ValidatorRed, StepFails, PlanOnly, RollBack,
         MergeRefused, Done, Crash, Stop
<1> QED
  BY <1>1, <1>2, <1>3, <1>6, <1>7, <1>8 DEF EngineNext, Run, World

\* The branch, the worktree and the patched rows agree in every reachable state.
THEOREM LandingInvariant == EngineSpec => []LandingInv
<1>1. EngineInit => WorktreeIsBase /\ PatchesFit
  BY DEF EngineInit, WorktreeIsBase, PatchesFit
<1>2. QED
  BY <1>1, WorktreeStep, FitStep, EngineTypeCorrect, PTL DEF EngineSpec, LandingInv

\* A change only lands on the text its editor was looking at, whatever was
\* deployed, committed or crashed in between.
THEOREM LandsOnSeen == EngineSpec => LandsOnTextSeen
<1>1. LandingInv /\ [EngineNext]_allVars
        => [\A s \in Suggestion : landed'[s] # landed[s] => rowHash[s] = text[Attr[s].target]]_allVars
  <2> SUFFICES ASSUME LandingInv, [EngineNext]_allVars, NEW s \in Suggestion,
                      landed'[s] # landed[s]
               PROVE  rowHash[s] = text[Attr[s].target]
    OBVIOUS
  <2>1. Merge \/ UNCHANGED landed
    BY DEF EngineNext, Run, World, SubmitRow, Review, StoreRestarts, Redeploy, LeaseRunsOut,
           OutsideCommit, Begin, Claim, NothingToClaim, Patch, ReplayFails, Validate,
           ValidatorRed, Build, Parity, StepFails, PlanOnly, Deploy, JournalDeployed,
           JournalMerged, Journal, RollBack, MergeRefused, Done, Crash, gitVars, engineVars, allVars
  <2>2. Merge /\ s \in patches
    BY <2>1 DEF Merge, LandingInv, EngineTypeOK
  <2> QED BY <2>2 DEF Merge, FastForward, LandingInv, WorktreeIsBase, PatchesFit
<1>2. QED
  BY <1>1, LandingInvariant, PTL DEF EngineSpec, LandsOnTextSeen

-----------------------------------------------------------------------------
(* What a row is reported to be, in runs that are not cut short.           *)

Calm == ~MayCrash /\ ~MayOutliveLease /\ ~MaySeize

\* A lease belongs to a batch that was claimed.
ExpiredWasClaimed == \A b \in expired : phase[b] # "none"

\* What a run has claimed stays with it: nobody requeues, completes or decides it.
Mine == patches \cup drifted \cup toHuman
MineAreInFlight ==
  /\ pc \in {"idle", "reconciled"} => Mine = {}
  /\ pc \notin {"idle", "reconciled"} => batch \in Batch \ expired
  /\ \A s \in Mine : status[s] = "in_flight" /\ batchOf[s] = batch /\ s \in leased

\* A batch is in merged only while its run is there too, so reconcile completes nothing.
NoneLeftMerged ==
  \A b \in Batch : phase[b] \in {"merged", "evidence_missing"} => pc = "merged" /\ b = batch

\* The change of a row is on the branch, once, if the row is applied or its run is
\* about to report it.
Reporting(s) == pc \in {"landed", "merged"} /\ s \in patches
LandedIsReported ==
  \A s \in Suggestion : landed[s] = IF status[s] = "applied" \/ Reporting(s) THEN 1 ELSE 0

CalmInv ==
  EngineTypeOK /\ ExpiredWasClaimed /\ MineAreInFlight /\ NoneLeftMerged /\ LandedIsReported

\* The steps that leave the run where it is, or start one.
LEMMA FrameKeeps ==
  ASSUME CalmInv, EngineTypeOK', UNCHANGED <<batch, patches, drifted, toHuman, landed>>,
         pc' = pc \/ (pc = "idle" /\ pc' = "reconciled"),
         \A b \in Batch : phase'[b] \in {"merged", "evidence_missing"} => phase'[b] = phase[b],
         \A b \in expired' : phase'[b] # "none", batch \in Batch \ expired => batch \notin expired',
         \A s \in Mine : status'[s] = "in_flight" /\ batchOf'[s] = batchOf[s] /\ s \in leased',
         \A s \in Suggestion : status'[s] = "applied" <=> status[s] = "applied"
  PROVE  CalmInv'
<1>1. ExpiredWasClaimed'
  BY DEF ExpiredWasClaimed
<1>2. MineAreInFlight'
  BY DEF CalmInv, MineAreInFlight, Mine
<1>3. NoneLeftMerged'
  BY DEF CalmInv, NoneLeftMerged
<1>4. LandedIsReported'
  BY DEF CalmInv, LandedIsReported, Reporting
<1> QED
  BY <1>1, <1>2, <1>3, <1>4 DEF CalmInv

\* Applied rows stay, and no review applies one.
LEMMA ReviewsApplyNothing ==
  ASSUME TypeOK, NEW s \in Suggestion,
         \/ \E r \in Suggestion : Suggest(r)
         \/ \E g \in Group, to \in {"accepted", "declined"} : DecideGroup(g, to)
         \/ \E r \in Suggestion, to \in {"accepted", "declined"} : DecideOne(r, to)
         \/ \E r \in Suggestion : Reanchor(r)
  PROVE  status'[s] = "applied" <=> status[s] = "applied"
<1>1. [Next]_vars
  BY DEF Next, Editing, Reviewing
<1>2. status[s] = "applied" => status'[s] = "applied"
  BY <1>1, LegalMoves, TransitionFacts DEF LegalMove, Terminal
<1>3. status'[s] = "applied" => status[s] = "applied"
  BY DEF TypeOK, Suggest, DecideGroup, DecideOne, Reanchor
<1> QED
  BY <1>2, <1>3

LEMMA SubmitKeepsCalm ==
  ASSUME CalmInv, EngineTypeOK', NEW r \in Suggestion, SubmitRow(r)
  PROVE  CalmInv'
<1>1. \A s \in Mine : status[s] = "in_flight" /\ s \in leased /\ s \in Suggestion
  BY DEF CalmInv, MineAreInFlight, EngineTypeOK, Mine
<1>2. \A s \in Mine : status'[s] = "in_flight"
  BY <1>1 DEF SubmitRow, Suggest, Present, Replaces
<1>3. \A s \in Suggestion : status'[s] = "applied" <=> status[s] = "applied"
  BY ReviewsApplyNothing DEF CalmInv, EngineTypeOK, SubmitRow
<1>4. UNCHANGED <<batchOf, leased, phase, expired, pc, batch, patches, drifted, toHuman, landed>>
  BY DEF SubmitRow, Suggest, journalVars, gitVars, runVars
<1> QED
  BY <1>1, <1>2, <1>3, <1>4, FrameKeeps DEF CalmInv, ExpiredWasClaimed

LEMMA ReviewKeepsCalm ==
  ASSUME CalmInv, EngineTypeOK', ~MaySeize, Review
  PROVE  CalmInv'
<1>1. \A s \in Mine : status[s] = "in_flight" /\ s \in leased /\ s \in Suggestion
  BY DEF CalmInv, MineAreInFlight, EngineTypeOK, Mine
<1>2. \A s \in Mine : status'[s] = "in_flight"
  BY <1>1 DEF Review
<1>3. \A s \in Suggestion : status'[s] = "applied" <=> status[s] = "applied"
  BY ReviewsApplyNothing DEF CalmInv, EngineTypeOK, Review
<1>4. UNCHANGED <<batchOf, leased, phase, expired, pc, batch, patches, drifted, toHuman, landed>>
  BY DEF Review, DecideGroup, DecideOne, Reanchor, journalVars, engineVars, gitVars, runVars
<1> QED
  BY <1>1, <1>2, <1>3, <1>4, FrameKeeps DEF CalmInv, ExpiredWasClaimed

\* A reconcile finds the rows of runs that are over, and completes none.
LEMMA ReconcileKeepsCalm ==
  ASSUME CalmInv, EngineTypeOK', Reconcile,
         UNCHANGED <<batch, patches, drifted, toHuman, landed>>,
         pc' = pc \/ (pc = "idle" /\ pc' = "reconciled")
  PROVE  CalmInv'
<1>1. TypeOK
  BY DEF CalmInv, EngineTypeOK
<1>2. \A b \in Stale : b \in Batch /\ phase[b] \in PreMerged
  <2> SUFFICES ASSUME NEW b \in Stale PROVE b \in Batch /\ phase[b] \in PreMerged
    OBVIOUS
  <2>1. b \in Batch /\ b \in expired /\ phase[b] \notin Closed \cup {"none"}
    BY DEF Stale
  <2>2. phase[b] \notin {"merged", "evidence_missing"}
    BY <2>1 DEF CalmInv, NoneLeftMerged, MineAreInFlight
  <2> QED
    BY <1>1, <2>1, <2>2 DEF TypeOK, Phase, Closed
<1>3. Completed = {}
  BY <1>2 DEF Completed
<1>4. \A s \in Mine : s \in Suggestion /\ s \notin Requeued /\ s \notin Orphaned /\ s \in leased
                      /\ status[s] = "in_flight"
  <2> SUFFICES ASSUME NEW s \in Mine
               PROVE  s \in Suggestion /\ s \notin Requeued /\ s \notin Orphaned /\ s \in leased
                      /\ status[s] = "in_flight"
    OBVIOUS
  <2>1. batchOf[s] = batch /\ s \in leased /\ batch \in Batch \ expired /\ s \in Suggestion
        /\ status[s] = "in_flight"
    BY DEF CalmInv, MineAreInFlight, Mine, EngineTypeOK
  <2> QED
    BY <2>1 DEF Requeued, Orphaned, Stale
<1>5. \A s \in Suggestion : status'[s] = "applied" <=> status[s] = "applied"
  BY <1>1, <1>3 DEF Reconcile, Requeued, Orphaned, TypeOK
<1>6. \A s \in Mine : status'[s] = "in_flight" /\ batchOf'[s] = batchOf[s] /\ s \in leased'
  BY <1>3, <1>4 DEF Reconcile
<1>7. /\ \A b \in Batch : phase'[b] \in {"merged", "evidence_missing"} => phase'[b] = phase[b]
      /\ \A b \in expired' : phase'[b] # "none"
      /\ expired' = expired
  <2>1. \A b \in Batch : phase'[b] = IF b \in Stale THEN "rolled_back" ELSE phase[b]
    BY <1>2 DEF Reconcile
  <2> QED
    BY <1>1, <2>1 DEF Reconcile, CalmInv, ExpiredWasClaimed, TypeOK
<1> QED
  BY <1>5, <1>6, <1>7, FrameKeeps

LEMMA LeaseKeepsCalm ==
  ASSUME CalmInv, EngineTypeOK', ~MayOutliveLease, NEW b \in Batch, LeaseRunsOut(b)
  PROVE  CalmInv'
<1>1. /\ expired' = expired \cup {b} /\ b # batch /\ phase[b] # "none"
      /\ UNCHANGED <<status, batchOf, leased, phase, pc, batch, patches, drifted, toHuman, landed>>
  BY DEF LeaseRunsOut, LeaseExpires, rowVars, engineVars, gitVars, runVars
<1>2. \A s \in Mine : status[s] = "in_flight" /\ s \in leased
  BY DEF CalmInv, MineAreInFlight
<1> QED
  BY <1>1, <1>2, FrameKeeps DEF CalmInv, ExpiredWasClaimed

LEMMA ClaimKeepsCalm ==
  ASSUME CalmInv, EngineTypeOK', NEW b \in Batch, Claim(b)
  PROVE  CalmInv'
<1>1. /\ phase[b] = "none" /\ phase' = [phase EXCEPT ![b] = "claimed"]
      /\ pc = "reconciled" /\ pc' = "claimed" /\ batch' = b /\ patches' = Claimable(Suggestion)
      /\ status' = [s \in Suggestion |->
                      IF s \in Claimable(Suggestion) THEN "in_flight" ELSE status[s]]
      /\ batchOf' = [s \in Suggestion |-> IF s \in Claimable(Suggestion) THEN b ELSE batchOf[s]]
      /\ leased' = leased \cup Claimable(Suggestion)
      /\ UNCHANGED <<expired, drifted, toHuman, landed>>
  BY DEF Claim, ClaimBatch, gitVars
<1>2. drifted = {} /\ toHuman = {} /\ TypeOK
  BY <1>1 DEF CalmInv, EngineTypeOK
<1>3. \A s \in Claimable(Suggestion) : s \in Suggestion /\ status[s] = "accepted"
  BY DEF Claimable, WholeGroupAccepted, Members
<1>4. ExpiredWasClaimed' /\ b \notin expired
  BY <1>1, <1>2 DEF CalmInv, ExpiredWasClaimed, TypeOK
<1>5. MineAreInFlight'
  BY <1>1, <1>2, <1>3, <1>4 DEF MineAreInFlight, Mine
<1>6. NoneLeftMerged'
  BY <1>1, <1>2 DEF CalmInv, NoneLeftMerged, TypeOK
<1>7. LandedIsReported'
  BY <1>1, <1>3 DEF CalmInv, LandedIsReported, Reporting
<1> QED
  BY <1>4, <1>5, <1>6, <1>7 DEF CalmInv

\* A finalize call that lists nothing moves nothing.
LEMMA FinalizeNothing ==
  ASSUME TypeOK, NEW b \in Batch, NEW ph, Finalize(b, ph, Nothing, FALSE)
  PROVE  /\ phase' = [phase EXCEPT ![b] = ph]
         /\ UNCHANGED <<status, leased, batchOf, expired>>
<1>1. \A s \in Suggestion : ~Moved(s, Nothing)
  BY DEF Moved, Nothing
<1> QED
  BY <1>1 DEF Finalize, TypeOK

\* The steps of a run that report nothing.
LEMMA GoesOnKeepsCalm ==
  ASSUME CalmInv, EngineTypeOK', pc \notin {"idle", "reconciled", "landed", "merged"},
         pc' \notin {"idle", "reconciled", "landed", "merged"}, Mine' \subseteq Mine,
         UNCHANGED <<batch, landed, status, leased, batchOf, expired>>,
         phase' = phase \/ \E ph : ph \notin {"none", "merged", "evidence_missing"}
                                   /\ phase' = [phase EXCEPT ![batch] = ph]
  PROVE  CalmInv'
<1>1. TypeOK /\ batch \in Batch
  BY DEF CalmInv, EngineTypeOK, MineAreInFlight
<1>2. ExpiredWasClaimed'
  BY <1>1 DEF CalmInv, ExpiredWasClaimed, TypeOK
<1>3. MineAreInFlight'
  BY DEF CalmInv, MineAreInFlight
<1>4. NoneLeftMerged'
  BY <1>1 DEF CalmInv, NoneLeftMerged, TypeOK
<1>5. LandedIsReported'
  BY DEF CalmInv, LandedIsReported, Reporting
<1> QED
  BY <1>2, <1>3, <1>4, <1>5 DEF CalmInv

LEMMA PatchKeepsCalm ==
  ASSUME CalmInv, EngineTypeOK', NEW H \in HumanLists, Patch(H)
  PROVE  CalmInv'
<1>1. pc = "claimed" /\ pc' = "patched" /\ UNCHANGED <<batch, landed>>
  BY DEF Patch, gitVars
<1>2. batch \in Batch /\ TypeOK
  BY <1>1 DEF CalmInv, EngineTypeOK, MineAreInFlight
<1>3. phase' = [phase EXCEPT ![batch] = "patched"] /\ UNCHANGED <<status, leased, batchOf, expired>>
  BY <1>2, FinalizeNothing DEF Patch
<1>4. Mine' \subseteq Mine
  BY DEF Patch, Mine, Kept, DriftedGroups, HumanLists
<1> QED
  BY <1>1, <1>3, <1>4, GoesOnKeepsCalm

LEMMA JournalKeepsCalm ==
  ASSUME CalmInv, EngineTypeOK', Validate \/ Build \/ Parity \/ JournalDeployed \/ Deploy
  PROVE  CalmInv'
<1>1. /\ pc \notin {"idle", "reconciled", "landed", "merged"}
      /\ pc' \notin {"idle", "reconciled", "landed", "merged"}
      /\ UNCHANGED <<batch, landed, patches, drifted, toHuman>>
  BY DEF Validate, Build, Parity, JournalDeployed, Journal, Deploy, gitVars
<1>2. batch \in Batch /\ TypeOK /\ Mine' = Mine
  BY <1>1 DEF CalmInv, EngineTypeOK, MineAreInFlight, Mine
<1>3. CASE Deploy
  BY <1>1, <1>2, <1>3, GoesOnKeepsCalm DEF Deploy, storeVars, vars
<1>4. ASSUME NEW from, NEW ph \in {"validated", "built", "parity_ok", "deployed"}, Journal(from, ph)
      PROVE  CalmInv'
  <2>1. phase' = [phase EXCEPT ![batch] = ph] /\ UNCHANGED <<status, leased, batchOf, expired>>
    BY <1>2, <1>4, FinalizeNothing DEF Journal
  <2> QED
    BY <1>1, <1>2, <2>1, GoesOnKeepsCalm
<1> QED
  BY <1>3, <1>4 DEF Validate, Build, Parity, JournalDeployed

\* The change lands: its rows are in flight, so none of them has landed before.
LEMMA MergeKeepsCalm ==
  ASSUME CalmInv, EngineTypeOK', Merge
  PROVE  CalmInv'
<1>1. /\ pc = "deployed" /\ pc' = "landed"
      /\ landed' = [s \in Suggestion |-> IF s \in patches THEN landed[s] + 1 ELSE landed[s]]
      /\ UNCHANGED <<status, batchOf, leased, expired, phase, batch, patches, drifted, toHuman>>
  BY DEF Merge, storeVars, vars
<1>2. \A s \in patches : status[s] = "in_flight"
  BY DEF CalmInv, MineAreInFlight, Mine
<1>3. \A s \in Suggestion : landed[s] = IF status[s] = "applied" THEN 1 ELSE 0
  BY <1>1 DEF CalmInv, LandedIsReported, Reporting
<1>4. LandedIsReported'
  BY <1>1, <1>2, <1>3 DEF LandedIsReported, Reporting
<1>5. ExpiredWasClaimed' /\ MineAreInFlight' /\ NoneLeftMerged'
  BY <1>1 DEF CalmInv, ExpiredWasClaimed, MineAreInFlight, Mine, NoneLeftMerged
<1> QED
  BY <1>4, <1>5 DEF CalmInv

LEMMA JournalMergedKeepsCalm ==
  ASSUME CalmInv, EngineTypeOK', JournalMerged
  PROVE  CalmInv'
<1>1. /\ pc = "landed" /\ pc' = "merged"
      /\ UNCHANGED <<batch, landed, patches, drifted, toHuman>>
  BY DEF JournalMerged, Journal, gitVars
<1>2. batch \in Batch /\ TypeOK
  BY <1>1 DEF CalmInv, EngineTypeOK, MineAreInFlight
<1>3. phase' = [phase EXCEPT ![batch] = "merged"] /\ UNCHANGED <<status, leased, batchOf, expired>>
  BY <1>2, FinalizeNothing DEF JournalMerged, Journal
<1>4. ExpiredWasClaimed' /\ NoneLeftMerged'
  BY <1>1, <1>2, <1>3 DEF CalmInv, ExpiredWasClaimed, NoneLeftMerged, TypeOK
<1>5. MineAreInFlight' /\ LandedIsReported'
  BY <1>1, <1>3 DEF CalmInv, MineAreInFlight, Mine, LandedIsReported, Reporting
<1> QED
  BY <1>4, <1>5 DEF CalmInv

\* A run that ends has reported what it merged, and only that.
LEMMA EndKeepsCalm ==
  ASSUME CalmInv, EngineTypeOK', Stop, UNCHANGED <<landed, expired>>,
         \A b \in Batch : /\ phase'[b] \in {"merged", "evidence_missing"} =>
                               phase'[b] = phase[b] /\ (pc = "merged" => b # batch)
                          /\ phase'[b] = "none" => phase[b] = "none",
         \A s \in Suggestion : status'[s] = "applied" <=> status[s] = "applied" \/ Reporting(s)
  PROVE  CalmInv'
<1>1. pc' = "idle" /\ Mine' = {}
  BY DEF Stop, Mine
<1>2. ExpiredWasClaimed'
  BY DEF CalmInv, EngineTypeOK, TypeOK, ExpiredWasClaimed
<1>3. MineAreInFlight'
  BY <1>1 DEF MineAreInFlight
<1>4. NoneLeftMerged'
  BY DEF CalmInv, NoneLeftMerged
<1>5. LandedIsReported'
  BY <1>1 DEF CalmInv, LandedIsReported, Reporting
<1> QED
  BY <1>2, <1>3, <1>4, <1>5 DEF CalmInv

\* A batch that is rolled back applies nothing; one that is done what was patched.
LEMMA CloseKeepsCalm ==
  ASSUME CalmInv, EngineTypeOK', Stop, UNCHANGED landed,
         NEW ph \in {"rolled_back", "done"}, NEW human, NEW blocked, NEW drift, NEW ev,
         Finalize(batch, ph, Outcomes4(IF pc = "merged" THEN patches ELSE {}, blocked, human, drift), ev),
         pc \notin {"idle", "reconciled", "landed"}
  PROVE  CalmInv'
<1> DEFINE applied == IF pc = "merged" THEN patches ELSE {}
           to == Outcomes4(applied, blocked, human, drift)
<1>1. TypeOK /\ batch \in Batch /\ \A s \in patches : s \in Suggestion /\ status[s] = "in_flight"
  BY DEF CalmInv, EngineTypeOK, MineAreInFlight, Mine
<1>2. /\ phase' = [phase EXCEPT ![batch] = ph] /\ expired' = expired
      /\ status' = [s \in Suggestion |-> IF Moved(s, to) THEN to[s] ELSE status[s]]
  BY DEF Finalize
<1>3. \A s \in Suggestion : /\ to[s] = "applied" <=> s \in applied
                            /\ s \in applied => status[s] = "in_flight"
  BY <1>1 DEF Outcomes4
<1>4. \A s \in Suggestion : /\ s \in applied => Moved(s, to)
                            /\ Moved(s, to) => status[s] # "applied"
  BY <1>3 DEF Moved, CanTransition, Allowed, Status
<1>5. \A s \in Suggestion : s \in applied <=> Reporting(s)
  BY DEF Reporting
<1> HIDE DEF applied, to
<1>6. \A s \in Suggestion : status'[s] = "applied" <=> status[s] = "applied" \/ Reporting(s)
  BY <1>2, <1>3, <1>4, <1>5
<1>7. \A b \in Batch : /\ phase'[b] \in {"merged", "evidence_missing"} =>
                             phase'[b] = phase[b] /\ (pc = "merged" => b # batch)
                       /\ phase'[b] = "none" => phase[b] = "none"
  BY <1>1, <1>2 DEF TypeOK
<1> QED
  BY <1>2, <1>6, <1>7, EndKeepsCalm

LEMMA RunKeepsCalm ==
  ASSUME CalmInv, EngineTypeOK', Run
  PROVE  CalmInv'
<1>1. CASE Begin
  BY <1>1, ReconcileKeepsCalm DEF Begin, gitVars
<1>2. CASE \E b \in Batch : Claim(b)
  BY <1>2, ClaimKeepsCalm
<1>3. CASE NothingToClaim \/ MergeRefused
  <2>1. /\ Stop /\ pc \notin {"landed", "merged"}
        /\ UNCHANGED <<status, phase, expired, landed>>
    BY <1>3 DEF NothingToClaim, MergeRefused, storeVars, vars, gitVars
  <2>2. \A s \in Suggestion : ~Reporting(s)
    BY <2>1 DEF Reporting
  <2> QED
    BY <2>1, <2>2, EndKeepsCalm
<1>4. CASE \E H \in HumanLists : Patch(H)
  BY <1>4, PatchKeepsCalm
<1>5. CASE Validate \/ Build \/ Parity \/ JournalDeployed \/ Deploy
  BY <1>5, JournalKeepsCalm
<1>6. CASE Merge \/ JournalMerged
  BY <1>6, MergeKeepsCalm, JournalMergedKeepsCalm
<1>7. CASE (\E H \in HumanLists : ReplayFails(H)) \/ ValidatorRed \/ StepFails \/ PlanOnly
  <2>1. /\ Stop /\ pc \notin {"idle", "reconciled", "landed", "merged"} /\ UNCHANGED landed
        /\ \E blocked, human, drift :
             Finalize(batch, "rolled_back", Outcomes4({}, blocked, human, drift), FALSE)
    BY <1>7 DEF ReplayFails, ValidatorRed, StepFails, PlanOnly, RollBack, gitVars
  <2> QED
    BY <2>1, CloseKeepsCalm
<1>8. CASE Done
  <2>1. /\ Stop /\ pc = "merged" /\ UNCHANGED landed
        /\ Finalize(batch, "done", Outcomes4(patches, {}, toHuman, drifted), TRUE)
    BY <1>8 DEF Done, gitVars
  <2> QED
    BY <2>1, CloseKeepsCalm
<1> QED
  BY <1>1, <1>2, <1>3, <1>4, <1>5, <1>6, <1>7, <1>8 DEF Run

LEMMA CalmStep == Calm /\ CalmInv /\ EngineTypeOK' /\ [EngineNext]_allVars => CalmInv'
<1> SUFFICES ASSUME Calm, CalmInv, EngineTypeOK', [EngineNext]_allVars PROVE CalmInv'
  OBVIOUS
<1>1. CASE Run
  BY <1>1, RunKeepsCalm
<1>2. CASE \E s \in Suggestion : SubmitRow(s)
  BY <1>2, SubmitKeepsCalm
<1>3. CASE Review \/ \E b \in Batch : LeaseRunsOut(b)
  BY <1>3, ReviewKeepsCalm, LeaseKeepsCalm DEF Calm
<1>4. CASE StoreRestarts
  BY <1>4, ReconcileKeepsCalm DEF StoreRestarts, engineVars, gitVars, runVars
<1>5. CASE Redeploy \/ (\E t \in Target : OutsideCommit(t)) \/ UNCHANGED allVars
  <2>1. UNCHANGED <<status, batchOf, leased, phase, expired, pc, batch, patches, drifted, toHuman, landed>>
    BY <1>5 DEF Redeploy, OutsideCommit, allVars, storeVars, vars, engineVars, gitVars, runVars
  <2>2. \A s \in Mine : status[s] = "in_flight" /\ s \in leased
    BY DEF CalmInv, MineAreInFlight
  <2> QED
    BY <2>1, <2>2, FrameKeeps DEF CalmInv, ExpiredWasClaimed
<1>6. ~Crash
  BY DEF Calm, Crash
<1> QED
  BY <1>1, <1>2, <1>3, <1>4, <1>5, <1>6 DEF EngineNext, World

\* apply_suggestions.py: in runs that are not cut short, keep their lease and are not
\* decided away, whatever drifts, fails, is refused or is committed besides, a row is
\* reported applied exactly when its change is on the branch, and it is there once.
THEOREM CalmRunsApplyExactly == Calm => (EngineSpec => []AppliedIsExact)
<1> SUFFICES ASSUME Calm PROVE EngineSpec => []AppliedIsExact
  OBVIOUS
<1>1. EngineInit /\ EngineTypeOK => CalmInv
  BY DEF EngineInit, Init, CalmInv, ExpiredWasClaimed, MineAreInFlight, Mine, NoneLeftMerged,
         LandedIsReported, Reporting
<1>2. CalmInv /\ EngineTypeOK' /\ [EngineNext]_allVars => CalmInv'
  BY CalmStep
<1>3. CalmInv => AppliedIsExact
  <2> SUFFICES ASSUME CalmInv PROVE AppliedIsExact
    OBVIOUS
  <2>1. \A s \in Suggestion : landed[s] \in {0, 1} /\ (status[s] = "applied" => landed[s] = 1)
    BY DEF CalmInv, LandedIsReported
  <2> QED
    BY <2>1 DEF AppliedIsExact, AppliedAtMostOnce, AppliedMeansLanded
<1> QED
  BY <1>1, <1>2, <1>3, EngineTypeCorrect, PTL DEF EngineSpec

=============================================================================
