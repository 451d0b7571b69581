-------------------------- MODULE PublisherReview --------------------------
(***************************************************************************)
(* The Publisher's granular review of EditorStoreCore and the operation    *)
(* releases (schema 2) that are cut from it.                               *)
(*                                                                         *)
(* An apply batch records a revision of a source: its operations against a *)
(* production base. A Publisher drafts decisions, submits them for several *)
(* sources at once, and the release executor projects what was accepted,   *)
(* builds a candidate outside the store and hands it back to be prepared,  *)
(* authorized by a human, claimed, and completed or restored.              *)
(*                                                                         *)
(* Revisions are numbered in created_at order, releases in the order they  *)
(* were prepared. The candidate of release r is called r, and 0 is the     *)
(* candidate of the schema-1 release that established production ancestry: *)
(* without it no revision can be recorded. An operation of revision i is   *)
(* <<i, u>>: its id digests the revision it belongs to. "unanswered" also  *)
(* stands for "questioned", which is held in the same way. Fencing tokens, *)
(* leases and deployment events are in ReleaseLedger.                      *)
(***************************************************************************)
EXTENDS Integers, Sequences, FiniteSets

CONSTANTS
    Units,          \* the decision units of all sources
    SourceOf,       \* the source_ref a unit edits
    GroupOf,        \* the atomic group of a unit, or NoGroup
    NoGroup,
    Structural,     \* units whose op is insert_after, delete, split, merge or move
    Publishers,
    None,           \* no draft, no review, no candidate
    LastRevision,   \* bound: revisions ever recorded
    LastRelease     \* bound: operation releases ever prepared

Sources == {SourceOf[u] : u \in Units}
Groups == {GroupOf[u] : u \in Units} \ {NoGroup}
UnitsOf(s) == {u \in Units : SourceOf[u] = s}
Revisions == 1..LastRevision
Releases == 1..LastRelease
Candidates == 0..LastRelease
Ops == Revisions \X Units
Unit(o) == o[2]
Revision(o) == o[1]

Answers == {"accepted", "rejected", "unanswered"}
Decisions == [Units -> Answers]

\* The members of a group within one source share one decision id, hence one unit.
ASSUME ReviewAssumption ==
    /\ DOMAIN SourceOf = Units /\ DOMAIN GroupOf = Units /\ Structural \subseteq Units
    /\ LastRevision \in Nat /\ LastRelease \in Nat
    /\ None \notin Decisions
    /\ \A u, v \in Units :
          SourceOf[u] = SourceOf[v] /\ GroupOf[u] = GroupOf[v] /\ GroupOf[u] # NoGroup => u = v

VARIABLES
    revs,        \* production_review_revisions
    draft,       \* production_review_drafts, by revision
    review,      \* the submitted decisions, by revision
    lifecycle,   \* production_review_operations.lifecycle_state
    marker,      \* production_published_operations: the release, 0 if none
    releases,    \* production_releases of schema 2 with their members
    built        \* the executor's candidate, not yet prepared

vars == <<revs, draft, review, lifecycle, marker, releases, built>>

Reasons == Answers \cup {"structural", "stale", "group_held"}
Drafts == [actor : Publishers, answers : Decisions]
Bindings == [base : Candidates, members : SUBSET Ops, held : SUBSET (Ops \X Reasons)]
States == {"prepared", "authorized", "executing", "failed_fenced", "restored", "complete"}
Settled == {"complete", "restored"}
RevisionRow == [source : Sources, units : SUBSET Units, base : Candidates]
ReleaseRow == [state : States, base : Candidates, members : SUBSET Ops]

Latest(i) == \A j \in DOMAIN revs : revs[j].source = revs[i].source => j <= i
OpsOf(i) == {i} \X revs[i].units
SourceOfOp(o) == SourceOf[Unit(o)]
GroupOfOp(o) == GroupOf[Unit(o)]
Submitted(i) == review[i] # None
Answer(o) == review[Revision(o)][Unit(o)]

Completed == {r \in DOMAIN releases : releases[r].state = "complete"}
\* The newest of some releases, or the schema-1 candidate.
Newest(S) == CHOOSE r \in S \cup {0} : \A q \in S \cup {0} : q <= r
Frontier == Newest(Completed)
Active == {r \in DOMAIN releases : releases[r].state \notin Settled}
\* production_published_operation_sources: the last release that shipped a source.
PublishedAs(s) == Newest({r \in Releases : \E o \in Ops : marker[o] = r /\ SourceOfOp(o) = s})

Init ==
    /\ revs = <<>>
    /\ draft = [i \in Revisions |-> None]
    /\ review = [i \in Revisions |-> None]
    /\ lifecycle = [o \in Ops |-> "none"]
    /\ marker = [o \in Ops |-> 0]
    /\ releases = <<>>
    /\ built = None

-----------------------------------------------------------------------------
(* What the store derives from its rows.                                   *)

\* Mutant: only the revision counts, not the base it was reviewed against.
StaleRevision(i) == ~Latest(i)

\* A source that never shipped is compared with the schema-1 candidate.
Stale(i) == ~Latest(i) \/ revs[i].base # PublishedAs(revs[i].source)

SubmittedOps == UNION {OpsOf(i) : i \in {j \in DOMAIN revs : Submitted(j)}}
Wanted(o) == lifecycle[o] = "unpublished" /\ marker[o] = 0 /\ Answer(o) = "accepted"
ActiveGroups == {GroupOfOp(o) : o \in {m \in SubmittedOps : Wanted(m)}} \ {NoGroup}

\* A revision is projected for the sake of any wanted operation or active group,
\* and then with all its operations that have not shipped.
Projected ==
    {o \in SubmittedOps :
        /\ lifecycle[o] # "published" /\ marker[o] = 0
        /\ \E m \in OpsOf(Revision(o)) : Wanted(m) \/ GroupOfOp(m) \in ActiveGroups}

\* The two classifications of some rows: what stays on DEV with a structural
\* edit, and which groups are held.
DeferredToDev(rows, o) ==
    \/ Unit(o) \in Structural
    \/ \E m \in rows :
          /\ Unit(m) \in Structural
          /\ \/ SourceOfOp(m) = SourceOfOp(o)
             \/ GroupOfOp(m) # NoGroup /\ GroupOfOp(m) = GroupOfOp(o)

HeldGroups(rows) ==
    {g \in Groups :
        LET mates == {o \in rows : GroupOfOp(o) = g}
        IN /\ \E o \in mates : Answer(o) = "accepted"
           /\ \E o \in mates : Stale(Revision(o)) \/ Answer(o) # "accepted"}

Frozen == UNION {releases[r].members : r \in Active}

\* Mutant: structural operations are not kept on DEV.
EligibleStructural(rows) ==
    {o \in rows :
        /\ ~Stale(Revision(o))
        /\ lifecycle[o] = "unpublished" /\ o \notin Frozen
        /\ Answer(o) = "accepted"
        /\ GroupOfOp(o) \notin HeldGroups(rows)}

EligibleOf(rows) ==
    {o \in rows :
        /\ ~DeferredToDev(rows, o)
        /\ ~Stale(Revision(o))
        /\ lifecycle[o] = "unpublished" /\ o \notin Frozen
        /\ Answer(o) = "accepted"
        /\ GroupOfOp(o) \notin HeldGroups(rows)}

Eligible == EligibleOf(Projected)

\* The store's held list names decisions, the executor's names the first reason.
Reason(o) ==
    IF DeferredToDev(Projected, o) THEN "structural"
    ELSE IF Stale(Revision(o)) THEN "stale"
    ELSE IF GroupOfOp(o) \in HeldGroups(Projected) THEN "group_held"
    ELSE Answer(o)
StoreHeld == {<<o, Answer(o)>> : o \in Projected \ Eligible}
ExecutorHeld == {<<o, Reason(o)>> : o \in Projected \ Eligible}

\* The summary on the review page selects rows, not revisions, then classifies
\* them in the same way.
Pending ==
    {o \in SubmittedOps :
        /\ lifecycle[o] # "published" /\ marker[o] = 0
        /\ Answer(o) # "rejected" \/ GroupOfOp(o) \in ActiveGroups}
SummaryEligible == EligibleOf(Pending)

\* The gate before any projection: every row has its receipt, every published row
\* its marker, every marker a completed release that lists the operation, and
\* every completed release exactly its markers.
ReceiptsAreIntact ==
    /\ \A i \in Revisions : Submitted(i) => i \in DOMAIN revs
    /\ \A o \in Ops : lifecycle[o] # "none" <=> o \in SubmittedOps
MarkersAreIntact ==
    /\ \A o \in Ops : lifecycle[o] = "published" <=> marker[o] # 0
    /\ \A o \in Ops : marker[o] # 0 => marker[o] \in Completed
ReleasesAreIntact == \A r \in Completed : releases[r].members = {o \in Ops : marker[o] = r}
FrontierIsIntact == ReceiptsAreIntact /\ MarkersAreIntact /\ ReleasesAreIntact

-----------------------------------------------------------------------------
(* Evidence and decisions.                                                 *)

\* Mutant: an operation of another source is let in.
RecordAnything(s, units, base) ==
    /\ Len(revs) < LastRevision
    /\ units # {} /\ base \in {0} \cup Completed
    /\ revs' = Append(revs, [source |-> s, units |-> units, base |-> base])
    /\ UNCHANGED <<draft, review, lifecycle, marker, releases, built>>

\* Finalizing a batch, or completing a revert, records the source against the
\* frontier that was served when the batch was claimed, some releases ago perhaps.
RecordRevision(s, units, base) ==
    /\ Len(revs) < LastRevision
    /\ units # {} /\ units \subseteq UnitsOf(s) /\ base \in {0} \cup Completed
    /\ revs' = Append(revs, [source |-> s, units |-> units, base |-> base])
    /\ UNCHANGED <<draft, review, lifecycle, marker, releases, built>>

SaveDraft(p, i, answers) ==
    /\ \A u \in Units \ revs[i].units : answers[u] = "unanswered"
    /\ ~Submitted(i) /\ ~Stale(i)
    /\ draft[i] # None => draft[i].actor = p
    /\ draft' = [draft EXCEPT ![i] = [actor |-> p, answers |-> answers]]
    /\ UNCHANGED <<revs, review, lifecycle, marker, releases, built>>

\* A group is answered as a whole, as far as the submitted sources reach.
GroupsAreCoherent(S) ==
    \A i, j \in S : \A u \in revs[i].units, v \in revs[j].units :
        GroupOf[u] = GroupOf[v] /\ GroupOf[u] # NoGroup =>
            draft[i].answers[u] = draft[j].answers[v]

\* Mutant: the earlier rows of a source are superseded whatever their state.
AfterSubmitSupersedesAll(S) ==
    [o \in Ops |->
        IF Revision(o) \in S /\ Unit(o) \in revs[Revision(o)].units THEN "unpublished"
        ELSE IF lifecycle[o] # "none" /\ SourceOfOp(o) \in {revs[i].source : i \in S} THEN "superseded"
        ELSE lifecycle[o]]

AfterSubmit(S) ==
    [o \in Ops |->
        IF Revision(o) \in S /\ Unit(o) \in revs[Revision(o)].units THEN "unpublished"
        ELSE IF lifecycle[o] = "unpublished" /\ SourceOfOp(o) \in {revs[i].source : i \in S} THEN "superseded"
        ELSE lifecycle[o]]

Submit(p, S) ==
    /\ S # {}
    /\ \A i \in S : draft[i] # None /\ draft[i].actor = p /\ ~Submitted(i) /\ ~Stale(i)
    /\ GroupsAreCoherent(S)
    /\ lifecycle' = AfterSubmit(S)
    /\ review' = [i \in Revisions |-> IF i \in S THEN draft[i].answers ELSE review[i]]
    /\ draft' = [i \in Revisions |-> IF i \in S THEN None ELSE draft[i]]
    /\ UNCHANGED <<revs, marker, releases, built>>

-----------------------------------------------------------------------------
(* The executor, one process at a time, and the releases.                  *)

\* Mutant: the base is the one the first source was reviewed against.
BuildOnReviewedBase ==
    /\ built = None /\ Active = {} /\ FrontierIsIntact /\ Eligible # {}
    /\ built' = [base |-> revs[Revision(CHOOSE o \in Eligible : TRUE)].base,
                 members |-> Eligible, held |-> ExecutorHeld]
    /\ UNCHANGED <<revs, draft, review, lifecycle, marker, releases>>

BuildCandidate ==
    /\ built = None /\ Active = {} /\ FrontierIsIntact /\ Eligible # {}
    /\ built' = [base |-> Frontier, members |-> Eligible, held |-> ExecutorHeld]
    /\ UNCHANGED <<revs, draft, review, lifecycle, marker, releases>>

\* The process is refused, fails or is killed.
Abandon ==
    /\ built # None
    /\ built' = None
    /\ UNCHANGED <<revs, draft, review, lifecycle, marker, releases>>

\* The base is not compared with the frontier.
Prepare ==
    /\ built # None /\ Active = {} /\ Len(releases) < LastRelease
    /\ FrontierIsIntact /\ built.members = Eligible /\ built.held = StoreHeld
    /\ releases' = Append(releases, [state |-> "prepared", base |-> built.base, members |-> built.members])
    /\ built' = None
    /\ UNCHANGED <<revs, draft, review, lifecycle, marker>>

Move(r, from, to) ==
    /\ releases[r].state = from
    /\ releases' = [releases EXCEPT ![r].state = to]
    /\ UNCHANGED <<revs, draft, review, built>>

ReviewIsCurrent(r) == \A o \in releases[r].members : ~Stale(Revision(o))

\* Two requests: a human authorizes, later an executor claims.
Authorize(r) == ReviewIsCurrent(r) /\ Move(r, "prepared", "authorized") /\ UNCHANGED <<lifecycle, marker>>

\* Mutant: what was current when it was authorized is not looked at again.
ClaimUnchecked(r) == Move(r, "authorized", "executing") /\ UNCHANGED <<lifecycle, marker>>

Claim(r) == ReviewIsCurrent(r) /\ Move(r, "authorized", "executing") /\ UNCHANGED <<lifecycle, marker>>

Fail(r) == Move(r, "executing", "failed_fenced") /\ UNCHANGED <<lifecycle, marker>>
Restore(r) == Move(r, "failed_fenced", "restored") /\ UNCHANGED <<lifecycle, marker>>

\* The marker of an operation is inserted once; its row is published either way.
Complete(r) ==
    /\ Move(r, "executing", "complete")
    /\ marker' = [o \in Ops |-> IF o \in releases[r].members /\ marker[o] = 0 THEN r ELSE marker[o]]
    /\ lifecycle' = [o \in Ops |-> IF o \in releases[r].members THEN "published" ELSE lifecycle[o]]

Next ==
    \/ \E s \in Sources : \E units \in SUBSET Units, base \in Candidates : RecordRevision(s, units, base)
    \/ \E p \in Publishers, i \in DOMAIN revs, answers \in Decisions : SaveDraft(p, i, answers)
    \/ \E p \in Publishers, S \in SUBSET DOMAIN revs : Submit(p, S)
    \/ BuildCandidate \/ Abandon \/ Prepare
    \/ \E r \in DOMAIN releases : Authorize(r) \/ Claim(r) \/ Fail(r) \/ Restore(r) \/ Complete(r)

Spec == Init /\ [][Next]_vars

-----------------------------------------------------------------------------
(* Properties.                                                             *)

\* The variables have their types; evidence of a revision names its source.
ReviewTypeOK ==
    /\ revs \in Seq(RevisionRow)
    /\ Len(revs) <= LastRevision
    /\ \A i \in DOMAIN revs : revs[i].units \subseteq UnitsOf(revs[i].source)
    /\ draft \in [Revisions -> Drafts \cup {None}]
    /\ review \in [Revisions -> Decisions \cup {None}]
    /\ lifecycle \in [Ops -> {"none", "unpublished", "superseded", "published"}]
    /\ marker \in [Ops -> Candidates]
    /\ releases \in Seq(ReleaseRow)
    /\ Len(releases) <= LastRelease
    /\ built \in Bindings \cup {None}

\* _assertOperationFrontierIntegrity never fails on a store that only these
\* requests have written. A failure would block the projection, hence every later
\* release, until someone repairs the database.
IntegrityHolds == FrontierIsIntact

\* Only what a Publisher accepted in a submitted review ships, never a structural edit.
ShippedWasAccepted ==
    \A o \in Ops : marker[o] # 0 =>
        Submitted(Revision(o)) /\ Answer(o) = "accepted" /\ Unit(o) \notin Structural

\* A source ships revision after revision, each reviewed against the candidate
\* that shipped the one before: a text the Publisher never compared with
\* production is not published over it.
Shipped(r, s) == r \in Completed /\ \E o \in releases[r].members : SourceOfOp(o) = s
SourceHistoryIsLinear ==
    \A r \in Completed : \A o \in releases[r].members :
        revs[Revision(o)].base = Newest({q \in Completed : q < r /\ Shipped(q, SourceOfOp(o))})

\* Every candidate that ships was built on the one in production, although the
\* ledger never compares the two for an operation release: nothing that has been
\* published is taken back by a release of other sources.
ShippedOnFrontier ==
    \A r \in Completed : releases[r].base = Newest({q \in Completed : q < r})

\* A release starts to execute only with decisions that no later submission has
\* replaced and no later revision has outdated.
ClaimedReviewIsCurrent ==
    [][\A r \in DOMAIN releases :
          releases[r].state # "executing" /\ releases'[r].state = "executing" =>
              \A o \in releases[r].members : lifecycle[o] = "unpublished" /\ Latest(Revision(o))]_vars

\* F2 of the granular review plan: what is not accepted is held individually, so
\* a candidate built from the current store can be prepared.
HeldIndividually ==
    built # None /\ built.members = Eligible => built.held = StoreHeld

\* Not run: R4 of the rollout plan, the Publisher's page and the machine context show the
\* same eligible count. Violated: the summary leaves out rejected
\* operations that hold others back.
CountsAgree == Cardinality(SummaryEligible) = Cardinality(Eligible)

\* Not run: a source that is edited against production as it stands can be reviewed.
\* Violated: a source that the last release did not ship is compared with the one that did.
CurrentBaseIsReviewable ==
    \A i \in DOMAIN revs : Latest(i) /\ revs[i].base = Frontier => ~Stale(i)

\* Not run: R17 of the granular review plan, an atomic group is published as a whole: no
\* operation can enter a release while another member, recorded and unpublished, stays
\* behind. Violated while the other member is in a revision nobody has submitted.
GroupsShipWhole ==
    \A o \in Eligible : \A i \in DOMAIN revs : \A u \in revs[i].units :
        Latest(i) /\ GroupOf[u] = GroupOfOp(o) /\ GroupOf[u] # NoGroup /\ marker[<<i, u>>] = 0 =>
            <<i, u>> \in Eligible
=============================================================================
