--------------------------- MODULE SuggestionStore ---------------------------
(***************************************************************************)
(* The suggestion table and the apply journal of EditorStoreCore           *)
(* (app/worker/src/editor-store-core.js, editor-status.js).                *)
(*                                                                         *)
(* The core runs inside a Durable Object: every RPC is one synchronous     *)
(* read-modify-write of the SQLite tables, so every RPC is one action      *)
(* here.  The callers (browsers, the admin review page, the apply engine)  *)
(* are arbitrary: any RPC may arrive at any time, and whatever is proved   *)
(* here holds whoever calls.                                               *)
(*                                                                         *)
(* Abstractions.  A suggestion is an identifier whose editor, target,      *)
(* origin, kind and group are fixed by its first accepted submission       *)
(* ("prose" stands for every kind DIRECT_APPLY accepts by itself); a       *)
(* resubmission (same payload: replay, other payload: id_conflict) changes *)
(* no row and is a stuttering step, and so is a submission the daily cap   *)
(* refuses (the cap's counter is left out: it can only refuse more).  Time *)
(* is reduced to what the code compares with it: which leases have run     *)
(* out.  purge() is called by nothing in the repository and is left out.   *)
(***************************************************************************)
EXTENDS Naturals, FiniteSets

CONSTANTS
  Suggestion,       \* client-chosen suggestion ids
  Editor,           \* editor slots, the service slot included
  Target,           \* source_ref, refined by page for page overrides
  Group,            \* syndication groups
  Batch,            \* apply batch ids
  NoGroup, NoBatch, \* SQL NULL of group_id and of apply_batch_id
  Attr,             \* Suggestion -> the columns its submission fixes
  DirectApply,      \* env.DIRECT_APPLY
  PerEditorPending, GlobalPending,   \* CEILINGS
  Outcomes,         \* outcome lists a finalize call may carry
  FinalizePhase     \* phases a finalize call may journal

Status == {"pending", "superseded", "accepted", "accepted_blocked", "declined",
           "drift", "needs_human", "in_flight", "applied"}

Outcome == {"applied", "accepted_blocked", "needs_human", "drift"}

PreMerged == {"claimed", "patched", "validated", "built", "parity_ok", "deployed"}

Phase == PreMerged \cup {"merged", "done", "rolled_back", "evidence_missing"}

Columns == [editor : Editor, target : Target, origin : {"human", "system"},
            kind : {"prose", "comment", "structural"}, group : Group \cup {NoGroup}]

ASSUME StoreAssumption ==
  /\ IsFiniteSet(Suggestion)
  /\ Attr \in [Suggestion -> Columns]
  /\ NoGroup \notin Group
  /\ NoBatch \notin Batch
  /\ DirectApply \in BOOLEAN
  /\ PerEditorPending \in Nat /\ GlobalPending \in Nat
  /\ Outcomes \subseteq [Suggestion -> Outcome \cup {"keep"}]
  /\ FinalizePhase \subseteq Phase

VARIABLES
  status,     \* suggestions.status, "absent" before the first submission
  created,    \* suggestions.created_at, as a rank
  inserted,   \* rows inserted so far: the rank the next row gets
  batchOf,    \* suggestions.apply_batch_id
  leased,     \* rows whose lease_expires_at is set (to their batch's lease end)
  phase,      \* apply_batches.phase, "none" before the claim
  expired,    \* batches whose lease end is in the past
  evidence,   \* batches whose commit_sha and generator_id are recorded
  decided     \* history: rows an admin accepted since they were last re-anchored

rowVars == <<status, created, inserted, batchOf, leased, decided>>
journalVars == <<phase, expired, evidence>>
vars == <<status, created, inserted, batchOf, leased, phase, expired, evidence,
          decided>>

-----------------------------------------------------------------------------
(* The status machine and the row predicates.                              *)

Allowed ==
  [pending          |-> {"superseded", "declined", "accepted", "drift"},
   accepted         |-> {"in_flight", "drift", "superseded"},
   in_flight        |-> {"applied", "accepted_blocked", "drift", "needs_human",
                         "accepted"},
   accepted_blocked |-> {"accepted", "declined"},
   drift            |-> {"pending", "declined"},
   needs_human      |-> {"applied", "accepted", "declined"},
   superseded       |-> {},
   declined         |-> {},
   applied          |-> {}]

Terminal == {"superseded", "declined", "applied"}

CanTransition(from, to) == from \in Status /\ to \in Allowed[from]

Present(s) == status[s] # "absent"
Members(g) == {s \in Suggestion : Attr[s].group = g /\ Present(s)}
HumanEdit(s) == Attr[s].origin = "human" /\ Attr[s].kind # "structural"
AutoApply(s) == Attr[s].origin = "human" /\ Attr[s].kind = "prose"
SameSpot(s, r) == Attr[s].editor = Attr[r].editor /\ Attr[s].target = Attr[r].target

-----------------------------------------------------------------------------
(* suggest: browsers and the system proposers.                             *)

Pending == {s \in Suggestion : status[s] = "pending"}

\* A fresh human row replaces the same editor's waiting rows on that spot;
\* under DIRECT_APPLY also those accepted but not claimed yet.
Replaces(s, r) ==
  /\ HumanEdit(s) /\ HumanEdit(r) /\ SameSpot(s, r) /\ r # s
  /\ \/ status[r] = "pending"
     \/ DirectApply /\ status[r] = "accepted"

BelowCeilings(s) ==
  /\ Cardinality({r \in Pending : Attr[r].editor = Attr[s].editor}) < PerEditorPending
  /\ Cardinality(Pending) < GlobalPending

\* Mutant: the waiting rows are superseded after the insert, the new row included.
SupersedeAfterInsert(s) ==
  /\ ~Present(s) /\ BelowCeilings(s)
  /\ status' = [r \in Suggestion |->
                  IF (r = s /\ HumanEdit(s)) \/ Replaces(s, r) THEN "superseded"
                  ELSE IF r = s THEN "pending" ELSE status[r]]
  /\ created' = [created EXCEPT ![s] = inserted + 1]
  /\ inserted' = inserted + 1
  /\ UNCHANGED <<batchOf, leased, journalVars, decided>>

\* Mutant: DIRECT_APPLY accepts whatever is submitted.
SuggestAcceptsAny(s) ==
  /\ ~Present(s) /\ BelowCeilings(s)
  /\ status' = [status EXCEPT ![s] = IF DirectApply THEN "accepted" ELSE "pending"]
  /\ created' = [created EXCEPT ![s] = inserted + 1]
  /\ inserted' = inserted + 1
  /\ UNCHANGED <<batchOf, leased, journalVars, decided>>

Suggest(s) ==
  /\ ~Present(s)
  /\ BelowCeilings(s)
  /\ status' = [r \in Suggestion |->
                  IF r = s THEN (IF DirectApply /\ AutoApply(s) THEN "accepted" ELSE "pending")
                  ELSE IF Replaces(s, r) THEN "superseded" ELSE status[r]]
  /\ created' = [created EXCEPT ![s] = inserted + 1]
  /\ inserted' = inserted + 1
  /\ UNCHANGED <<batchOf, leased, journalVars, decided>>

-----------------------------------------------------------------------------
(* decide, markDrift, reanchor: the review side.                           *)

\* Every member moves, members already there stay, and one member that cannot
\* move refuses the whole group.
DecideGroup(g, to) ==
  /\ Members(g) # {}
  /\ \A m \in Members(g) : status[m] = to \/ CanTransition(status[m], to)
  /\ status' = [s \in Suggestion |-> IF s \in Members(g) THEN to ELSE status[s]]
  /\ decided' = IF to = "accepted" THEN decided \cup Members(g) ELSE decided
  /\ UNCHANGED <<created, inserted, batchOf, leased, journalVars>>

\* A member of a larger group is only accepted with its group; a decline may
\* name a single row.
DecideOne(s, to) ==
  /\ CanTransition(status[s], to)
  /\ to = "accepted" /\ Attr[s].group # NoGroup => Members(Attr[s].group) = {s}
  /\ status' = [status EXCEPT ![s] = to]
  /\ decided' = IF to = "accepted" THEN decided \cup {s} ELSE decided
  /\ UNCHANGED <<created, inserted, batchOf, leased, journalVars>>

MarkDrift(s) ==
  /\ CanTransition(status[s], "drift")
  /\ status' = [status EXCEPT ![s] = "drift"]
  /\ UNCHANGED <<created, inserted, batchOf, leased, journalVars, decided>>

Reanchor(s) ==
  /\ CanTransition(status[s], "pending")
  /\ status' = [status EXCEPT ![s] = "pending"]
  /\ decided' = decided \ {s}
  /\ UNCHANGED <<created, inserted, batchOf, leased, journalVars>>

-----------------------------------------------------------------------------
(* claimBatch, finalize, reconcile: the apply engine's RPCs.               *)

WholeGroupAccepted(g) == \A m \in Members(g) : status[m] = "accepted"

\* What a claim of the candidates C takes: accepted rows, whole groups only.
Claimable(C) ==
  LET ready == {s \in C : status[s] = "accepted"}
      groups == {Attr[s].group : s \in ready} \ {NoGroup}
  IN  {s \in ready : Attr[s].group = NoGroup}
        \cup UNION {Members(g) : g \in {h \in groups : WholeGroupAccepted(h)}}

\* Mutant: the claim marks the rows but stamps no lease on them.
ClaimWithoutLease(b, C) ==
  /\ phase[b] = "none" /\ Claimable(C) # {}
  /\ phase' = [phase EXCEPT ![b] = "claimed"]
  /\ status' = [s \in Suggestion |-> IF s \in Claimable(C) THEN "in_flight" ELSE status[s]]
  /\ batchOf' = [s \in Suggestion |-> IF s \in Claimable(C) THEN b ELSE batchOf[s]]
  /\ UNCHANGED <<created, inserted, leased, expired, evidence, decided>>

ClaimBatch(b, C) ==
  /\ phase[b] = "none"
  /\ Claimable(C) # {}
  /\ phase' = [phase EXCEPT ![b] = "claimed"]
  /\ status' = [s \in Suggestion |-> IF s \in Claimable(C) THEN "in_flight" ELSE status[s]]
  /\ batchOf' = [s \in Suggestion |-> IF s \in Claimable(C) THEN b ELSE batchOf[s]]
  /\ leased' = leased \cup Claimable(C)
  /\ UNCHANGED <<created, inserted, expired, evidence, decided>>

\* The phase is journalled whatever it was; a listed row moves only if the
\* status machine lets it, whichever batch it belongs to by now.
Moved(s, to) == to[s] # "keep" /\ CanTransition(status[s], to[s])

Finalize(b, ph, to, withEvidence) ==
  /\ phase[b] # "none"
  /\ phase' = [phase EXCEPT ![b] = ph]
  /\ evidence' = IF withEvidence THEN evidence \cup {b} ELSE evidence
  /\ status' = [s \in Suggestion |-> IF Moved(s, to) THEN to[s] ELSE status[s]]
  /\ leased' = leased \ {s \in Suggestion : Moved(s, to)}
  /\ UNCHANGED <<created, inserted, batchOf, expired, decided>>

LeaseExpires(b) ==
  /\ phase[b] # "none" /\ b \notin expired
  /\ expired' = expired \cup {b}
  /\ UNCHANGED <<rowVars, phase, evidence>>

Closed == {"done", "rolled_back"}
Stale == {b \in Batch : phase[b] \notin Closed \cup {"none"} /\ b \in expired}

\* Rows of an expired open batch: back to the queue before the merge, applied after it.
RequeuedAnyStatus ==   \* mutant: the UPDATE forgets AND status = 'in_flight'
  {s \in Suggestion : batchOf[s] \in Stale /\ phase[batchOf[s]] \in PreMerged}
Requeued == {s \in Suggestion : /\ status[s] = "in_flight" /\ batchOf[s] \in Stale
                                /\ phase[batchOf[s]] \in PreMerged}
Completed == {s \in Suggestion : /\ status[s] = "in_flight" /\ batchOf[s] \in Stale
                                 /\ phase[batchOf[s]] \notin PreMerged}
\* In-flight rows whose lease is gone and whose batch is closed or unknown.
NoOrphans == {}   \* mutant: reconcile stops at the expired open batches
Orphaned == {s \in Suggestion :
              /\ status[s] = "in_flight"
              /\ s \notin leased \/ batchOf[s] \in expired
              /\ \/ batchOf[s] = NoBatch
                 \/ batchOf[s] # NoBatch /\ phase[batchOf[s]] \in Closed \cup {"none"}}

Reconcile ==
  /\ status' = [s \in Suggestion |->
                  IF s \in Requeued \cup Orphaned THEN "accepted"
                  ELSE IF s \in Completed THEN "applied" ELSE status[s]]
  /\ batchOf' = [s \in Suggestion |->
                   IF s \in Requeued \cup Orphaned THEN NoBatch ELSE batchOf[s]]
  /\ leased' = leased \ (Requeued \cup Orphaned \cup Completed)
  /\ phase' = [b \in Batch |->
                 IF b \notin Stale THEN phase[b]
                 ELSE IF phase[b] \in PreMerged THEN "rolled_back"
                 ELSE IF b \in evidence THEN "done" ELSE "evidence_missing"]
  /\ UNCHANGED <<created, inserted, expired, evidence, decided>>

-----------------------------------------------------------------------------
Init ==
  /\ status = [s \in Suggestion |-> "absent"]
  /\ created = [s \in Suggestion |-> 0]
  /\ inserted = 0
  /\ batchOf = [s \in Suggestion |-> NoBatch]
  /\ leased = {}
  /\ phase = [b \in Batch |-> "none"]
  /\ expired = {}
  /\ evidence = {}
  /\ decided = {}

Editing == \E s \in Suggestion : Suggest(s)

Reviewing ==
  \/ \E g \in Group, to \in {"accepted", "declined"} : DecideGroup(g, to)
  \/ \E s \in Suggestion, to \in {"accepted", "declined"} : DecideOne(s, to)
  \/ \E s \in Suggestion : MarkDrift(s) \/ Reanchor(s)

Applying ==
  \/ \E b \in Batch, C \in SUBSET Suggestion : ClaimBatch(b, C)
  \/ \E b \in Batch, ph \in FinalizePhase, to \in Outcomes, ev \in BOOLEAN :
       Finalize(b, ph, to, ev)
  \/ \E b \in Batch : LeaseExpires(b)
  \/ Reconcile

Next == Editing \/ Reviewing \/ Applying

Spec == Init /\ [][Next]_vars

-----------------------------------------------------------------------------
(* Properties.                                                             *)

TypeOK ==
  /\ status \in [Suggestion -> Status \cup {"absent"}]
  /\ created \in [Suggestion -> Nat]
  /\ inserted \in Nat
  /\ batchOf \in [Suggestion -> Batch \cup {NoBatch}]
  /\ leased \subseteq Suggestion
  /\ phase \in [Batch -> Phase \cup {"none"}]
  /\ expired \subseteq Batch
  /\ evidence \subseteq Batch
  /\ decided \subseteq Suggestion

\* No text is lost by last-edit-wins: a superseded row always has a later row
\* of the same editor on the same spot, the one that replaced it.
SupersededHasSuccessor ==
  \A s \in Suggestion : status[s] = "superseded" =>
    \E r \in Suggestion : /\ Present(r) /\ SameSpot(s, r) /\ HumanEdit(r)
                          /\ created[s] < created[r]

\* A system proposal (companion, AI rewrite) or a comment reaches the apply
\* queue, and anything behind it, only after an admin accepted it since it was
\* last re-anchored; whatever roll-backs and re-queues happened in between.
OnlyReviewedRowsAreQueued ==
  \A s \in Suggestion :
    /\ status[s] \in {"accepted", "in_flight", "accepted_blocked", "needs_human", "applied"}
    /\ ~AutoApply(s)
    => s \in decided

\* A claimed row is always covered by the journal: it names the batch that
\* claimed it, that batch has a journal row, and the lease is stamped on it.
\* Reconcile finds nothing else, so a row outside this would stay in flight.
InFlightIsJournalled ==
  \A s \in Suggestion : status[s] = "in_flight" =>
    /\ batchOf[s] \in Batch
    /\ phase[batchOf[s]] # "none"
    /\ s \in leased

\* Applied, declined and superseded rows never change again, whatever late or
\* repeated RPC arrives.
TerminalIsForever ==
  [][\A s \in Suggestion : status[s] \in Terminal => status'[s] = status[s]]_vars
=============================================================================
