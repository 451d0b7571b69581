--------------------------- MODULE ReleaseLedger ---------------------------
(***************************************************************************)
(* The production release ledger of EditorStoreCore: the apply journal as  *)
(* the ledger reads it, and the releases with their whole lifecycle        *)
(*                                                                         *)
(*   prepared - authorized - executing - pages / worker deployed -         *)
(*   verified - complete, or failed_fenced - restoring - restored.         *)
(*                                                                         *)
(* The RPCs are called by anyone with the right credential, in any order   *)
(* and with any fencing token. Batches are numbered in created_at order    *)
(* and their commits follow each other on the canonical branch in that     *)
(* order; a commit is the number of its batch, 0 the bootstrap base, and   *)
(* Synthetic(r) the accepted-only candidate of an operation release r      *)
(* (schema 2), whose members are not modelled.                             *)
(***************************************************************************)
EXTENDS Integers, Sequences, FiniteSets

CONSTANTS
    LastBatch,     \* batches are 1..LastBatch
    GenOf,         \* the site generator each batch was built with
    LastRelease,   \* bound: releases that are ever prepared
    LastToken      \* bound: fencing tokens that are ever issued

Batches == 1..LastBatch
Releases == 1..LastRelease
Tokens == 1..LastToken
NoToken == 0
Synthetic(r) == LastBatch + r
Commits == 0..LastBatch + LastRelease

ASSUME LedgerAssumption ==
    /\ LastBatch \in Nat \ {0} /\ LastRelease \in Nat \ {0} /\ LastToken \in Nat
    /\ DOMAIN GenOf = Batches

VARIABLES
    phase,      \* apply_batches, as far as the ledger tells phases apart
    split,      \* done batches whose group has a member elsewhere
    release,    \* production_releases with their batches and events
    prepared,   \* how many releases exist
    log,        \* completed releases in updated_at order
    publisher,  \* suggestions.production_release_id, by batch
    issued      \* fencing tokens issued so far

vars == <<phase, split, release, prepared, log, publisher, issued>>
journal == <<phase, split>>

Phases == {"none", "open", "merged", "done", "evidence_missing", "rolled_back", "rowless"}
OnBranch == {"merged", "done", "evidence_missing", "rowless"}
Executing == {"executing", "pages_deployed", "worker_deployed", "verified"}
Settled == {"complete", "restored"}
States == Executing \cup Settled
            \cup {"none", "prepared", "authorized", "failed_fenced", "restoring"}
Evidence == {"pages_deployed", "worker_deployed", "verified", "complete"}

\* events[e] is the token of the first event of type e, NoToken if there is none.
Release == [state : States, schema : {1, 2}, target : 0..LastBatch, base : Commits, cand : Commits,
            members : SUBSET Batches, authorized : BOOLEAN, token : Tokens \cup {NoToken},
            live : BOOLEAN, events : [Evidence -> Tokens \cup {NoToken}], stale : BOOLEAN,
            backfill : BOOLEAN]

Unused == [state |-> "none", schema |-> 1, target |-> 0, base |-> 0, cand |-> 0, members |-> {},
           authorized |-> FALSE, token |-> NoToken, live |-> FALSE,
           events |-> [e \in Evidence |-> NoToken], stale |-> FALSE, backfill |-> FALSE]

Init ==
    /\ phase = [b \in Batches |-> "none"] /\ split = {}
    /\ release = [r \in Releases |-> Unused] /\ prepared = 0
    /\ log = <<>>
    /\ publisher = [b \in Batches |-> 0]
    /\ issued = 0

-----------------------------------------------------------------------------
(* The apply journal moves underneath: claims, merges, crashes.            *)

InOrder(b) == phase[b] = "none" /\ \A c \in Batches : c < b => phase[c] # "none"

OpenBatch(b) ==
    /\ InOrder(b)
    /\ phase' = [phase EXCEPT ![b] = "open"]
    /\ UNCHANGED <<split, release, prepared, log, publisher, issued>>

\* A run merges by fast-forward: not once a later batch has moved the branch. A history
\* revert opens and merges at once.
NotOvertaken(b) == \A c \in Batches : c > b => phase[c] \notin OnBranch

MergeBatch(b) ==
    /\ phase[b] = "open" \/ InOrder(b)
    /\ NotOvertaken(b)
    /\ phase' = [phase EXCEPT ![b] = "merged"]
    /\ UNCHANGED <<split, release, prepared, log, publisher, issued>>

\* A run merges and finalizes although its lease ran out and reconcile gave its rows
\* back to the queue: the batch is done without any row, and so never publishable.
LateMerge(b) ==
    /\ phase[b] = "rolled_back" /\ NotOvertaken(b)
    /\ phase' = [phase EXCEPT ![b] = "rowless"]
    /\ UNCHANGED <<split, release, prepared, log, publisher, issued>>

\* finalize(done), or reconcile of a batch that recorded its commit; also the
\* operator's repair of a batch whose evidence was missing.
FinishBatch(b) ==
    /\ phase[b] \in {"merged", "evidence_missing"}
    /\ phase' = [phase EXCEPT ![b] = "done"]
    /\ UNCHANGED <<split, release, prepared, log, publisher, issued>>

\* reconcile: an expired batch is rolled back, or has merged without evidence.
ReconcileBatch(b) ==
    /\ \/ phase[b] = "open" /\ phase' = [phase EXCEPT ![b] = "rolled_back"]
       \/ phase[b] = "merged" /\ phase' = [phase EXCEPT ![b] = "evidence_missing"]
    /\ UNCHANGED <<split, release, prepared, log, publisher, issued>>

\* A late suggestion joins a group whose other members were applied with batch b.
SplitGroup(b) ==
    /\ phase[b] = "done" /\ b \notin split
    /\ split' = split \cup {b}
    /\ UNCHANGED <<phase, release, prepared, log, publisher, issued>>

-----------------------------------------------------------------------------
(* Preparation                                                             *)

Active(r) == release[r].state \notin Settled \cup {"none"}
\* Mutant: a prepared or fenced release does not block the next.
NoneExecuting == \A r \in Releases : release[r].state \notin Executing
NoneActive == \A r \in Releases : ~Active(r)
EvidenceComplete == \A b \in Batches : phase[b] # "evidence_missing"

Frontier == log[Len(log)]
Published == log # <<>>
Base == IF Published THEN release[Frontier].cand ELSE 0

\* A completed operation release is no batch of the journal: stale_frontier.
FrontierIsBatch == Published => release[Frontier].schema = 1
Reached == IF Published THEN release[Frontier].target ELSE 0

\* Mutant: what is published already is frozen again.
MembershipFromStart(t) == {b \in Batches : b <= t /\ phase[b] = "done"}
\* Done batches after the frontier, up to the target: the frozen membership.
Membership(t) == {b \in Batches : Reached < b /\ b <= t /\ phase[b] = "done"}

Frozen(schema, t, cand, members) ==
    [Unused EXCEPT !.state = "prepared", !.schema = schema, !.target = t, !.base = Base,
                   !.cand = cand, !.members = members]

Adds(row) ==
    /\ prepared < LastRelease
    /\ prepared' = prepared + 1
    /\ release' = [release EXCEPT ![prepared + 1] = row]

\* prepareProductionRelease. The caller supplies the frontier's candidate as base
\* and the target's commit as candidate, anything else is refused; git ancestry is
\* the caller's evidence.
Prepare(t) ==
    /\ EvidenceComplete /\ NoneActive /\ FrontierIsBatch
    /\ t \in Membership(t)
    /\ \A b \in Membership(t) : GenOf[b] = GenOf[t] /\ b \notin split
    /\ Base <= t
    /\ Adds(Frozen(1, t, t, Membership(t)))
    /\ UNCHANGED <<journal, log, publisher, issued>>

\* _prepareOperationRelease, its membership left out: the batch frontier stays. The base
\* is the one the builder read before it built, which the ledger does not compare.
Served == {0} \cup {release[log[i]].cand : i \in DOMAIN log}

PrepareOperations(base) ==
    /\ EvidenceComplete /\ NoneActive
    /\ base \in Served
    /\ Adds([Frozen(2, Reached, Synthetic(prepared + 1), {}) EXCEPT !.base = base])
    /\ UNCHANGED <<journal, log, publisher, issued>>

\* backfillProductionLedger: an exact prefix of the done batches, already live in a
\* production that serves some later commit.
Backfill(t, sha) ==
    /\ prepared = 0 /\ EvidenceComplete
    /\ phase[t] = "done" /\ t <= sha /\ phase[sha] \in OnBranch
    /\ Adds([Frozen(1, t, sha, {b \in Batches : b <= t /\ phase[b] = "done"})
             EXCEPT !.state = "complete", !.base = sha, !.backfill = TRUE])
    /\ log' = <<1>>
    /\ UNCHANGED <<journal, publisher, issued>>

-----------------------------------------------------------------------------
(* Authorization and execution                                             *)

\* authorizeProductionRelease, human Access only.
Authorize(r) ==
    /\ release[r].state = "prepared" /\ ~release[r].stale
    /\ release' = [release EXCEPT ![r] = [@ EXCEPT !.state = "authorized", !.authorized = TRUE]]
    /\ UNCHANGED <<journal, prepared, log, publisher, issued>>

\* An operation release binds review revisions; newer ones may appear at any time.
ReviewAdvances(r) ==
    /\ release[r].schema = 2 /\ Active(r) /\ ~release[r].stale
    /\ release' = [release EXCEPT ![r].stale = TRUE]
    /\ UNCHANGED <<journal, prepared, log, publisher, issued>>

\* A claim issues a new fencing token and a lease.
Fence(r, state) ==
    /\ issued < LastToken
    /\ issued' = issued + 1
    /\ release' = [release EXCEPT ![r] =
         [@ EXCEPT !.state = state, !.token = issued + 1, !.live = TRUE]]

\* Mutant: the first claim does not wait for the Publisher.
ClaimUnauthorized(r) ==
    /\ \/ release[r].state \in {"prepared", "authorized"} /\ Fence(r, "executing")
       \/ release[r].state \in Executing /\ ~release[r].live /\ Fence(r, release[r].state)
    /\ UNCHANGED <<journal, prepared, log, publisher>>

\* claimAuthorizedProductionRelease: first claim, or takeover after the lease.
Claim(r) ==
    /\ \/ release[r].state = "authorized" /\ ~release[r].stale /\ Fence(r, "executing")
       \/ release[r].state \in Executing /\ ~release[r].live /\ Fence(r, release[r].state)
    /\ UNCHANGED <<journal, prepared, log, publisher>>

\* claimProductionRestore
ClaimRestore(r) ==
    /\ \/ release[r].state = "failed_fenced"
       \/ release[r].state = "restoring" /\ ~release[r].live
    /\ Fence(r, "restoring")
    /\ UNCHANGED <<journal, prepared, log, publisher>>

Leased == Executing \cup {"restoring"}

LeaseExpires(r) ==
    /\ release[r].state \in Leased /\ release[r].live
    /\ release' = [release EXCEPT ![r].live = FALSE]
    /\ UNCHANGED <<journal, prepared, log, publisher, issued>>

Follows(state) ==
    CASE state = "executing" -> {"pages_deployed", "worker_deployed", "failed_fenced"}
      [] state = "pages_deployed" -> {"worker_deployed", "verified", "failed_fenced"}
      [] state = "worker_deployed" -> {"pages_deployed", "verified", "failed_fenced"}
      [] state = "verified" -> {"complete", "failed_fenced"}
      [] state = "restoring" -> {"restored", "failed_fenced"}
      [] OTHER -> {}

Recorded(r, e) == release[r].events[e] # NoToken
BothDeployed(r) == Recorded(r, "pages_deployed") /\ Recorded(r, "worker_deployed")

Holds(r, token) ==
    /\ token # NoToken /\ token = release[r].token
    /\ release[r].state \in Leased => release[r].live

\* Mutant: verified without both targets.
MovesUnproved(r, token, s) ==
    /\ Holds(r, token)
    /\ s \in Follows(release[r].state)
    /\ s \in Evidence => ~Recorded(r, s)

\* transitionProductionRelease moves the release on. What it has on record it never
\* records again: the call is a replay or a conflict, and changes nothing.
Moves(r, token, s) ==
    /\ Holds(r, token)
    /\ s \in Follows(release[r].state)
    /\ s \in Evidence => ~Recorded(r, s)
    /\ s = "verified" => BothDeployed(r)

\* The event rows of a release: each piece of evidence is recorded by one token.
Journalled(r, token, s) ==
    IF s \in Evidence THEN [release[r].events EXCEPT ![s] = token] ELSE release[r].events

\* Mutant: members are marked when verified.
PublishesEarly(r, token, s) ==
    /\ Moves(r, token, s)
    /\ release' = [release EXCEPT ![r] =
         [@ EXCEPT !.state = s, !.live = (s # "complete"), !.events = Journalled(r, token, s)]]
    /\ log' = IF s = "complete" THEN Append(log, r) ELSE log
    /\ publisher' = IF s # "verified" THEN publisher
                    ELSE [b \in Batches |-> IF b \in release[r].members THEN r ELSE publisher[b]]
    /\ UNCHANGED <<journal, prepared, issued>>

Transition(r, token, s) ==
    /\ Moves(r, token, s)
    /\ release' = [release EXCEPT ![r] =
         [@ EXCEPT !.state = s, !.live = (s # "complete"), !.events = Journalled(r, token, s)]]
    /\ IF s = "complete"
       THEN /\ log' = Append(log, r)
            /\ publisher' = [b \in Batches |->
                 IF b \in release[r].members /\ publisher[b] = 0 THEN r ELSE publisher[b]]
       ELSE UNCHANGED <<log, publisher>>
    /\ UNCHANGED <<journal, prepared, issued>>

-----------------------------------------------------------------------------
JournalStep ==
    \E b \in Batches :
      \/ OpenBatch(b) \/ MergeBatch(b) \/ LateMerge(b)
      \/ FinishBatch(b) \/ ReconcileBatch(b) \/ SplitGroup(b)

LedgerStep ==
    \/ \E t \in Batches : Prepare(t) \/ \E sha \in Batches : Backfill(t, sha)
    \/ \E base \in Served : PrepareOperations(base)
    \/ \E r \in Releases :
         \/ Authorize(r) \/ ReviewAdvances(r)
         \/ Claim(r) \/ ClaimRestore(r) \/ LeaseExpires(r)
         \/ \E token \in Tokens, s \in States : Transition(r, token, s)

Next == JournalStep \/ LedgerStep

Spec == Init /\ [][Next]_vars

-----------------------------------------------------------------------------
(* Properties                                                              *)

\* Journal, releases and log are well formed, and no token beyond the issued ones
\* stands in a release.
LedgerTypeOK ==
    /\ phase \in [Batches -> Phases] /\ split \subseteq Batches
    /\ release \in [Releases -> Release]
    /\ prepared \in 0..LastRelease /\ issued \in 0..LastToken
    /\ log \in Seq(Releases)
    /\ publisher \in [Batches -> 0..LastRelease]
    /\ \A r \in Releases : release[r].token <= issued

\* While a release is under way no other is, and a batch release still builds on what
\* production was last told to serve: the candidate of the newest completed release.
ActiveBuildsOnFrontier ==
    \A r \in Releases : Active(r) =>
      /\ \A q \in Releases : Active(q) => q = r
      /\ release[r].schema = 1 => release[r].base = Base

\* Completed batch releases follow each other: each starts from the candidate of the
\* one before, takes only batches beyond its target, and moves production forward.
CompletedReleasesChain ==
    \A i \in 2..Len(log) :
      LET r == release[log[i]]
          q == release[log[i - 1]]
      IN  r.schema = 1 => /\ r.base = q.cand /\ q.cand <= r.cand
                          /\ \A b \in r.members : q.target < b /\ b <= r.target

\* A release is complete only after a human authorized it and both targets and their
\* verification were journalled, whoever executed which part of it; the one exception
\* is the backfill record.
CompleteWasAuthorizedAndVerified ==
    \A r \in Releases : release[r].state = "complete" /\ ~release[r].backfill =>
      /\ release[r].authorized
      /\ \A e \in Evidence : Recorded(r, e)

\* Every batch frozen into a completed release is marked as published by that release,
\* and by no other: the update that skips rows of other releases never skips one.
MembersArePublished ==
    \A b \in Batches, r \in Releases :
      (release[r].state = "complete" /\ ~release[r].backfill /\ b \in release[r].members)
        <=> publisher[b] = r

\* What production serves contains nothing that no release lists: every batch merged
\* up to the candidate of a completed release is a member of it or of an earlier one.
NothingUnlistedShips ==
    \A i \in 1..Len(log), b \in Batches :
      /\ ~release[log[i]].backfill /\ release[log[i]].schema = 1
      /\ b <= release[log[i]].cand
      /\ phase[b] \in OnBranch
      => \E j \in 1..i : b \in release[log[j]].members

\* The ledger implements the release train.
Platform ==
    IF NoneActive THEN "empty"
    ELSE IF \A r \in Releases : Active(r) => release[r].authorized THEN "approved"
    ELSE "proposed"

Train == INSTANCE ReleaseTrain WITH frontier <- Reached, platform <- Platform,
                                    begun <- (prepared # 0)

\* The published frontier only moves forward, one approved release at a time.
RunsLikeATrain == Train!TrainSpec
=============================================================================
