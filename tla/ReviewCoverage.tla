--------------------------- MODULE ReviewCoverage ---------------------------
(***************************************************************************)
(* Every applied suggestion must be accounted for before anything ships:   *)
(* by a review revision, by a receipt that it changed nothing, or by an    *)
(* exclusion as a reverted test. The evidence of finalize, backfill,       *)
(* legacy and no-op reconciliation, and the audit that stops a rollout     *)
(* (EditorStoreCore, editor-endpoints.js, apply_suggestions.py).           *)
(*                                                                         *)
(* Suggestions are numbered in the order of created_at. Commits of the     *)
(* canonical branch are numbered, 0 is none known; production is at commit *)
(* 1 and stays there. A run that outlives its lease is in ApplyEngine; a   *)
(* swept batch may still be finished here. Texts are what a comparison of  *)
(* them says: same (exactly), alike (when rendered), change.               *)
(***************************************************************************)
EXTENDS Naturals, FiniteSetsExt

CONSTANTS
    LastRow, LastBatch, LastHead,  \* bounds: suggestions, batches, commits
    Kinds,           \* what the text of each suggestion is to the text it replaces
    SpotOf,          \* its source_ref
    MayMigrateLate,  \* a migration may run when there are receipts already
    CarefulOperator  \* a rendered match is claimed only for a commit without a source file

Rows == 1..LastRow
Batches == 1..LastBatch
Commits == 0..LastHead
Prod == 1

ASSUME CoverageAssumption ==
    /\ LastRow \in Nat /\ LastBatch \in Nat /\ LastHead \in Nat \ {0}
    /\ Kinds \in [Rows -> {"same", "alike", "change"}] /\ DOMAIN SpotOf = Rows
    /\ MayMigrateLate \in BOOLEAN /\ CarefulOperator \in BOOLEAN

VARIABLES
    head,       \* HEAD of the canonical branch
    reviewing,  \* the Worker records evidence (the release of the review tables)
    frontier,   \* a production release is complete
    row,        \* status and apply_batch_id of each suggestion
    batch,      \* apply_batches
    revisions,  \* production_review_revisions
    receipts,   \* production_noop_applications: the commit of each, 0 for no receipt
    excluded,   \* production_legacy_exclusions
    migrated    \* a row in production_review_migrations

coverVars == <<head, reviewing, frontier, row, batch, revisions, receipts, excluded, migrated>>
reviewVars == <<revisions, receipts, excluded, migrated>>

RowStates == {"accepted", "in_flight", "applied"}
Phases == {"none", "claimed", "merged", "evidence_missing", "done", "rolled_back"}

CoverInit ==
    /\ head = Prod /\ reviewing = FALSE /\ frontier = FALSE
    /\ row = [r \in Rows |-> [status |-> "accepted", batch |-> 0]]
    /\ batch = [b \in Batches |-> [phase |-> "none", base |-> 0, commit |-> 0,
                                   landed |-> 0, prod |-> FALSE]]
    /\ revisions = {} /\ receipts = [r \in Rows |-> 0] /\ excluded = {} /\ migrated = FALSE

RowsOf(b) == {r \in Rows : row[r].batch = b}
Applied == {r \in Rows : row[r].status = "applied"}
Reviewed == UNION {v.ids : v \in revisions}
Receipted == {r \in Rows : receipts[r] # 0}

-----------------------------------------------------------------------------
(* The runs of the apply engine. landed is history: the commit of a run.   *)

ClaimRows(ids) ==
    /\ ids # {} /\ \A r \in ids : row[r].status = "accepted"
    /\ \E b \in Batches :
          /\ batch[b].phase = "none" /\ \A a \in 1..(b - 1) : batch[a].phase # "none"
          /\ row' = [r \in Rows |-> IF r \in ids THEN [status |-> "in_flight", batch |-> b] ELSE row[r]]
          /\ batch' = [batch EXCEPT ![b].phase = "claimed", ![b].base = head, ![b].prod = frontier]
    /\ UNCHANGED <<head, reviewing, frontier>> /\ UNCHANGED reviewVars

\* A failed run, or one that died before its merge and was swept.
DropBatch(b) ==
    /\ batch[b].phase = "claimed"
    /\ batch' = [batch EXCEPT ![b].phase = "rolled_back"]
    /\ row' = [r \in Rows |-> IF r \in RowsOf(b) THEN [status |-> "accepted", batch |-> 0] ELSE row[r]]
    /\ UNCHANGED <<head, reviewing, frontier>> /\ UNCHANGED reviewVars

MergeBatch(b) ==
    /\ batch[b].phase = "claimed" /\ batch[b].base = head /\ head < LastHead
    /\ head' = head + 1
    /\ batch' = [batch EXCEPT ![b].phase = "merged", ![b].landed = head']
    /\ UNCHANGED <<reviewing, frontier, row>> /\ UNCHANGED reviewVars

AppliedNow(b) == [r \in Rows |-> IF r \in RowsOf(b) THEN [row[r] EXCEPT !.status = "applied"] ELSE row[r]]

\* reconcile, after the lease: the merge entry has no commit.
SweepBatch(b) ==
    /\ batch[b].phase = "merged"
    /\ batch' = [batch EXCEPT ![b].phase = "evidence_missing"] /\ row' = AppliedNow(b)
    /\ UNCHANGED <<head, reviewing, frontier>> /\ UNCHANGED reviewVars

\* build_review_revisions: nothing without a frontier, nothing for a source whose texts
\* compare alike.
RevisionsOf(b) ==
    {[spot |-> SpotOf[r], at |-> batch[b].landed,
      ids |-> {q \in RowsOf(b) : SpotOf[q] = SpotOf[r]}] :
        r \in {q \in RowsOf(b) : batch[b].prod /\ Kinds[q] = "change"}}

\* recordReviewRevision: one for a source, a revision of it and a base.
MayRecordAll(new) == \A n \in new : \A v \in revisions : v.spot # n.spot \/ v.at # n.at

\* finalize done: the rows, the revisions, and receipts for exact matches left over.
FinishBatch(b) ==
    /\ reviewing /\ batch[b].phase \in {"merged", "evidence_missing"}
    /\ MayRecordAll(RevisionsOf(b))
    /\ batch' = [batch EXCEPT ![b].phase = "done", ![b].commit = batch[b].landed]
    /\ row' = AppliedNow(b) /\ revisions' = revisions \cup RevisionsOf(b)
    /\ receipts' = [r \in Rows |->
          IF r \in RowsOf(b) /\ Kinds[r] = "same" /\ r \notin excluded
             /\ \A v \in revisions' : r \notin v.ids
          THEN batch[b].landed ELSE receipts[r]]
    /\ UNCHANGED <<head, reviewing, frontier, excluded, migrated>>

\* The engine and the store of the time before: no evidence, some without a commit.
FinishBare(b) ==
    /\ ~reviewing /\ batch[b].phase \in {"merged", "evidence_missing"}
    /\ \E commit \in {0, batch[b].landed} :
          batch' = [batch EXCEPT ![b].phase = "done", ![b].commit = commit]
    /\ row' = AppliedNow(b)
    /\ UNCHANGED <<head, reviewing, frontier>> /\ UNCHANGED reviewVars

OtherCommitLands ==
    /\ head < LastHead /\ head' = head + 1
    /\ UNCHANGED <<reviewing, frontier, row, batch>> /\ UNCHANGED reviewVars

\* The review tables are deployed; production records its first complete release.
ReviewIsDeployed ==
    /\ ~reviewing /\ reviewing' = TRUE
    /\ UNCHANGED <<head, frontier, row, batch>> /\ UNCHANGED reviewVars
FrontierIsKnown ==
    /\ reviewing /\ ~frontier /\ frontier' = TRUE
    /\ UNCHANGED <<head, reviewing, row, batch>> /\ UNCHANGED reviewVars

-----------------------------------------------------------------------------
(* The migrations: one for ever, all or nothing.                           *)

MayMigrate == reviewing /\ ~migrated /\ (MayMigrateLate \/ Receipted = {})

\* The batches lead from production to at without a gap.
IsChain(chain, at) ==
    /\ \A b \in chain : batch[b].phase = "done" /\ batch[b].commit # 0
    /\ LET ends == {batch[b].commit : b \in chain}
       IN  at \in ends /\ {batch[b].base : b \in chain} = ({Prod} \cup ends) \ {at}

\* backfillReviewRevisions: for each source all its applied suggestions of the chain.
Backfill(spots, chain, at) ==
    LET Ids(s) == {r \in Applied \ excluded : SpotOf[r] = s /\ row[r].batch \in chain}
        new == {[spot |-> s, at |-> at, ids |-> Ids(s)] : s \in spots}
    IN  /\ MayMigrate /\ spots # {} /\ IsChain(chain, at) /\ \A s \in spots : Ids(s) # {}
        /\ MayRecordAll(new)
        /\ revisions' = revisions \cup new /\ migrated' = TRUE
        /\ UNCHANGED <<head, reviewing, frontier, row, batch, receipts, excluded>>

\* reconcileLegacyReview: what is not excluded is effective and reviewed by source, at the
\* commit of its last suggestion; every applied suggestion is one or the other. A missing
\* commit of an excluded one is filled in first.
LegacyCommit(out) ==
    [b \in Batches |-> IF batch[b].commit = 0 /\ \E r \in out : row[r].batch = b
                       THEN [batch[b] EXCEPT !.commit = batch[b].landed] ELSE batch[b]]

LegacyReconcile(out) ==
    LET after == LegacyCommit(out)
        stay == Applied \ out
        new == {[spot |-> s, at |-> after[row[Max({r \in stay : SpotOf[r] = s})].batch].commit,
                 ids |-> {r \in stay : SpotOf[r] = s}] : s \in {SpotOf[r] : r \in stay}}
    IN  /\ MayMigrate /\ out \subseteq Applied /\ stay # {}
        /\ \A r \in Applied : after[row[r].batch].phase = "done" /\ after[row[r].batch].commit # 0
        /\ out \cap Reviewed = {} /\ MayRecordAll(new)
        /\ batch' = after /\ revisions' = revisions \cup new
        /\ excluded' = excluded \cup out /\ migrated' = TRUE
        /\ UNCHANGED <<head, reviewing, frontier, row, receipts>>

-----------------------------------------------------------------------------
(* reconcileNoopReview.                                                    *)

\* _verifiedNoop. A rendered match compares the new text with the editor map of today,
\* which has the new text once the change is deployed.
MatchesToday(r, match) ==
    \/ Kinds[r] = "same"
    \/ match # "exact" /\ Kinds[r] = "alike"
    \/ match = "rendered" /\ ~CarefulOperator /\ \A q \in Applied : SpotOf[q] = SpotOf[r] => q <= r

\* Mutant: whether the suggestion is covered otherwise is not looked at.
EvidentByText(r, match) ==
    /\ r \in Applied /\ MatchesToday(r, match)
    /\ batch[row[r].batch].phase = "done" /\ batch[row[r].batch].commit # 0

\* _noopApplicationEvidence.
Evident(r, match) ==
    /\ r \in Applied /\ MatchesToday(r, match)
    /\ r \notin excluded /\ r \notin Reviewed
    /\ batch[row[r].batch].phase = "done" /\ batch[row[r].batch].commit # 0

NoopReconcile(ids, match) ==
    /\ reviewing /\ ids # {} /\ \A r \in ids : Evident(r, match)
    /\ receipts' = [r \in Rows |-> IF r \in ids /\ receipts[r] = 0
                                   THEN batch[row[r].batch].commit ELSE receipts[r]]
    /\ UNCHANGED <<head, reviewing, frontier, row, batch, revisions, excluded, migrated>>

CoverNext ==
    \/ \E ids \in SUBSET Rows : ClaimRows(ids)
    \/ \E b \in Batches :
          DropBatch(b) \/ MergeBatch(b) \/ SweepBatch(b) \/ FinishBatch(b) \/ FinishBare(b)
    \/ OtherCommitLands \/ ReviewIsDeployed \/ FrontierIsKnown
    \/ \E spots \in SUBSET {SpotOf[r] : r \in Applied}, chain \in SUBSET Batches :
          \E at \in {batch[b].commit : b \in chain} : Backfill(spots, chain, at)
    \/ \E out \in SUBSET Rows : LegacyReconcile(out)
    \/ \E ids \in SUBSET Rows, match \in {"exact", "rendered"} : NoopReconcile(ids, match)

CoverSpec == CoverInit /\ [][CoverNext]_coverVars

-----------------------------------------------------------------------------
(* productionReleaseAudit: each of these must be empty.                    *)

\* A receipt counts while its batch is done at its commit.
Stands(r) == receipts[r] # 0 /\ batch[row[r].batch].phase = "done"
                             /\ batch[row[r].batch].commit = receipts[r]
Unreconciled == {r \in Applied : ~Stands(r) /\ r \notin excluded /\ r \notin Reviewed}
ReceiptsWithoutBatch == {r \in Receipted : ~Stands(r)}
ReceiptsOverlap == Receipted \cap (excluded \cup Reviewed)
ExclusionsOverlap == excluded \cap Reviewed

-----------------------------------------------------------------------------
(* Properties.                                                             *)

\* The variables have their types.
CoverTypeOK ==
    /\ head \in Commits /\ reviewing \in BOOLEAN /\ frontier \in BOOLEAN /\ migrated \in BOOLEAN
    /\ row \in [Rows -> [status : RowStates, batch : 0..LastBatch]]
    /\ batch \in [Batches -> [phase : Phases, base : Commits, commit : Commits,
                              landed : Commits, prod : BOOLEAN]]
    /\ \A v \in revisions : v.at \in Commits /\ v.ids \subseteq Rows
    /\ receipts \in [Rows -> Commits] /\ excluded \subseteq Rows

\* API-CONTRACTS.md:871, "any nonzero invariant count is a rollout stop": no sequence of
\* runs and reconciliations accounts for a suggestion twice or leaves a receipt in the air.
NothingCountsTwice ==
    ReceiptsWithoutBatch = {} /\ ReceiptsOverlap = {} /\ ExclusionsOverlap = {}

\* The key decision of the no-op plan: a real change is never covered as a no-op.
NoChangeIsHidden == \A r \in Receipted : Kinds[r] # "change"

\* A finished run with a frontier leaves nothing to reconcile but what only renders alike.
FinishedIsCovered ==
    \A r \in Unreconciled :
        batch[row[r].batch].phase = "done" /\ batch[row[r].batch].prod => Kinds[r] = "alike"

\* What has been migrated, finished or reconciled is accounted for, once and truthfully.
CoverageIsSound == NothingCountsTwice /\ NoChangeIsHidden /\ FinishedIsCovered

\* Not run: a rollout is never stopped for good. A run that dies between merged and done
\* leaves applied suggestions that no endpoint can account for.
CanBeReconciled ==
    \A r \in Unreconciled : batch[row[r].batch].phase # "evidence_missing"
=============================================================================
