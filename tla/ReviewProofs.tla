---------------------------- MODULE ReviewProofs ----------------------------
(***************************************************************************)
(* The safety properties of PublisherReview for any sources, groups,       *)
(* publishers and number of revisions and releases; and that the evidence  *)
(* accounts for every suggestion once and truthfully, for any number of    *)
(* suggestions, batches and commits.                                       *)
(***************************************************************************)
EXTENDS PublisherReview, ReviewCoverage, WellFoundedInduction, TLAPS

-----------------------------------------------------------------------------
(* Submissions, decisions and operation releases.                          *)

(* The inductive invariant.                                                *)

\* What a release lists was accepted when it was prepared, and an accepted
\* decision is never rewritten.
MembersAreAccepted ==
    \A r \in DOMAIN releases : \A o \in releases[r].members :
        o \in SubmittedOps /\ Answer(o) = "accepted" /\ Unit(o) \notin Structural

\* A release under way is the last one, was built on the frontier and has not shipped.
ActiveIsLast ==
    \A r \in Active :
        /\ r = Len(releases)
        /\ releases[r].base = Frontier
        /\ \A o \in releases[r].members : marker[o] = 0

\* A candidate waits only while no release is under way, so the frontier stays.
BuiltOnFrontier == built # None => Active = {} /\ built.base = Frontier

\* Once it is claimed, nothing else ships: the reviewed bases stay the shipped ones.
ExecutingIsCurrent ==
    \A r \in DOMAIN releases : releases[r].state = "executing" =>
        \A o \in releases[r].members : revs[Revision(o)].base = PublishedAs(SourceOfOp(o))

\* A row is superseded by the submission of a later revision of its source.
SupersededIsOutdated == \A o \in Ops : lifecycle[o] = "superseded" => ~Latest(Revision(o))

ReviewInv ==
    /\ ReviewTypeOK
    /\ IntegrityHolds
    /\ MembersAreAccepted
    /\ ActiveIsLast
    /\ BuiltOnFrontier
    /\ ShippedOnFrontier
    /\ ExecutingIsCurrent
    /\ SourceHistoryIsLinear
    /\ SupersededIsOutdated

-----------------------------------------------------------------------------
(* The newest of a set of releases exists.                                 *)

Less == {ss \in Nat \X Nat : ss[1] < ss[2]}

LEMMA LessIsWellFounded == IsWellFoundedOn(Less, Nat)
<1>1. OpToRel(<, Nat) = Less
  BY Zenon DEF OpToRel, Less
<1> QED
  BY <1>1, NatLessThanWellFounded, Zenon

LEMMA GreatestExists ==
    ASSUME NEW N \in Nat, NEW S, S \subseteq 0..N, S # {}
    PROVE  \E x \in S : \A y \in S : y <= x
<1> DEFINE T == {N - y : y \in S}
<1>1. \A y \in S : y \in Int /\ 0 <= y /\ y <= N
  OBVIOUS
<1>2. T \subseteq Nat
  BY <1>1
<1>3. T # {}
  OBVIOUS
<1>4. PICK m \in T : \A y \in T : ~ (<<y, m>> \in Less)
  <2> HIDE DEF T
  <2> QED
    BY <1>2, <1>3, LessIsWellFounded, WFMin, Zenon
<1>5. \A y \in T : ~ (y < m)
  BY <1>2, <1>4 DEF Less
<1>6. PICK x \in S : m = N - x
  OBVIOUS
<1>7. \A y \in S : y <= x
  <2> TAKE y \in S
  <2>1. N - y \in T
    OBVIOUS
  <2>2. ~ (N - y < N - x)
    BY <1>5, <1>6, <2>1
  <2> QED
    BY <1>1, <2>2
<1> QED
  BY <1>7

LEMMA NewestIsCandidate ==
    ASSUME NEW S \in SUBSET Candidates
    PROVE  Newest(S) \in Candidates
<1>1. S \cup {0} \subseteq 0..LastRelease /\ S \cup {0} # {}
  BY ReviewAssumption DEF Candidates
<1>2. PICK x \in S \cup {0} : \A y \in S \cup {0} : y <= x
  <2> DEFINE Z == S \cup {0}
  <2>1. Z \subseteq 0..LastRelease /\ Z # {}
    BY <1>1
  <2> HIDE DEF Z
  <2>2. \E x \in Z : \A y \in Z : y <= x
    BY <2>1, GreatestExists, ReviewAssumption
  <2> QED
    BY <2>2 DEF Z
<1>3. Newest(S) \in S \cup {0}
  BY <1>2 DEF Newest
<1> QED
  BY <1>1, <1>3 DEF Candidates

-----------------------------------------------------------------------------
(* What the derived sets contain.                                          *)

LEMMA RowsAre ==
    ASSUME ReviewTypeOK
    PROVE  /\ DOMAIN revs = 1..Len(revs) /\ Len(revs) \in Nat /\ DOMAIN revs \subseteq Revisions
           /\ \A i \in DOMAIN revs : /\ revs[i] \in RevisionRow
                                      /\ revs[i].units \subseteq UnitsOf(revs[i].source)
                                      /\ revs[i].units \subseteq Units
           /\ DOMAIN releases = 1..Len(releases) /\ Len(releases) \in Nat
           /\ DOMAIN releases \subseteq Releases /\ DOMAIN releases \subseteq Candidates
           /\ \A r \in DOMAIN releases : /\ releases[r] \in ReleaseRow
                                          /\ releases[r].members \subseteq Ops
<1>1. /\ revs \in Seq(RevisionRow) /\ Len(revs) <= LastRevision
      /\ releases \in Seq(ReleaseRow) /\ Len(releases) <= LastRelease
      /\ \A i \in DOMAIN revs : revs[i].units \subseteq UnitsOf(revs[i].source)
  BY DEF ReviewTypeOK
<1>2. DOMAIN revs = 1..Len(revs) /\ Len(revs) \in Nat /\ DOMAIN revs \subseteq Revisions
  BY <1>1, ReviewAssumption DEF Revisions
<1>3. \A i \in DOMAIN revs : revs[i] \in RevisionRow
  BY <1>1
<1>4. DOMAIN releases = 1..Len(releases) /\ Len(releases) \in Nat
  BY <1>1
<1>5. DOMAIN releases \subseteq Releases /\ DOMAIN releases \subseteq Candidates
  BY <1>1, <1>4, ReviewAssumption DEF Releases, Candidates
<1>6. \A r \in DOMAIN releases : releases[r] \in ReleaseRow
  BY <1>1
<1>7. \A r \in DOMAIN releases : releases[r].members \subseteq Ops
  BY <1>6 DEF ReleaseRow
<1>8. \A i \in DOMAIN revs : revs[i].units \subseteq Units
  BY <1>3 DEF RevisionRow
<1> QED
  BY <1>1, <1>2, <1>3, <1>4, <1>5, <1>6, <1>7, <1>8

LEMMA RowsAreNext ==
    ASSUME ReviewTypeOK'
    PROVE  /\ DOMAIN revs' = 1..Len(revs') /\ Len(revs') \in Nat /\ DOMAIN revs' \subseteq Revisions
           /\ \A i \in DOMAIN revs' : /\ revs'[i] \in RevisionRow
                                      /\ revs'[i].units \subseteq UnitsOf(revs'[i].source)
                                      /\ revs'[i].units \subseteq Units
           /\ DOMAIN releases' = 1..Len(releases') /\ Len(releases') \in Nat
           /\ DOMAIN releases' \subseteq Releases /\ DOMAIN releases' \subseteq Candidates
           /\ \A r \in DOMAIN releases' : /\ releases'[r] \in ReleaseRow
                                          /\ releases'[r].members \subseteq Ops
<1>1. /\ revs' \in Seq(RevisionRow) /\ Len(revs') <= LastRevision
      /\ releases' \in Seq(ReleaseRow) /\ Len(releases') <= LastRelease
      /\ \A i \in DOMAIN revs' : revs'[i].units \subseteq UnitsOf(revs'[i].source)
  BY DEF ReviewTypeOK
<1>2. DOMAIN revs' = 1..Len(revs') /\ Len(revs') \in Nat /\ DOMAIN revs' \subseteq Revisions
  BY <1>1, ReviewAssumption DEF Revisions
<1>3. \A i \in DOMAIN revs' : revs'[i] \in RevisionRow
  BY <1>1
<1>4. DOMAIN releases' = 1..Len(releases') /\ Len(releases') \in Nat
  BY <1>1
<1>5. DOMAIN releases' \subseteq Releases /\ DOMAIN releases' \subseteq Candidates
  BY <1>1, <1>4, ReviewAssumption DEF Releases, Candidates
<1>6. \A r \in DOMAIN releases' : releases'[r] \in ReleaseRow
  BY <1>1
<1>7. \A r \in DOMAIN releases' : releases'[r].members \subseteq Ops
  BY <1>6 DEF ReleaseRow
<1>8. \A i \in DOMAIN revs' : revs'[i].units \subseteq Units
  BY <1>3 DEF RevisionRow
<1> QED
  BY <1>1, <1>2, <1>3, <1>4, <1>5, <1>6, <1>7, <1>8

LEMMA SubmittedOpsAre ==
    ASSUME ReviewTypeOK
    PROVE  SubmittedOps = {o \in Ops : /\ Revision(o) \in DOMAIN revs
                                       /\ review[Revision(o)] # None
                                       /\ Unit(o) \in revs[Revision(o)].units}
<1>1. DOMAIN revs \subseteq Revisions /\ \A i \in DOMAIN revs : revs[i].units \subseteq Units
  BY RowsAre
<1>2. \A o : o \in SubmittedOps <=> \E i \in DOMAIN revs : review[i] # None /\ o \in {i} \X revs[i].units
  BY DEF SubmittedOps, Submitted, OpsOf
<1>3. ASSUME NEW o \in SubmittedOps
      PROVE  o \in Ops /\ Revision(o) \in DOMAIN revs /\ review[Revision(o)] # None /\ Unit(o) \in revs[Revision(o)].units
  <2>1. PICK i \in DOMAIN revs : review[i] # None /\ o \in {i} \X revs[i].units
    BY <1>2
  <2>2. PICK u \in revs[i].units : o = <<i, u>>
    BY <2>1
  <2> QED
    BY <1>1, <2>1, <2>2 DEF Ops, Revision, Unit
<1>4. ASSUME NEW o \in Ops, Revision(o) \in DOMAIN revs, review[Revision(o)] # None, Unit(o) \in revs[Revision(o)].units
      PROVE  o \in SubmittedOps
  <2>1. o = <<Revision(o), Unit(o)>>
    BY DEF Ops, Revision, Unit
  <2>2. o \in {Revision(o)} \X revs[Revision(o)].units
    BY <1>4, <2>1
  <2> QED
    BY <1>2, <1>4, <2>2
<1> QED
  BY <1>3, <1>4

LEMMA SubmittedOpsAreNext ==
    ASSUME ReviewTypeOK'
    PROVE  SubmittedOps' = {o \in Ops : /\ Revision(o) \in DOMAIN revs'
                                        /\ review'[Revision(o)] # None
                                        /\ Unit(o) \in revs'[Revision(o)].units}
<1>1. DOMAIN revs' \subseteq Revisions /\ \A i \in DOMAIN revs' : revs'[i].units \subseteq Units
  BY RowsAreNext
<1>2. \A o : o \in SubmittedOps' <=> \E i \in DOMAIN revs' : review'[i] # None /\ o \in {i} \X revs'[i].units
  BY DEF SubmittedOps, Submitted, OpsOf
<1>3. ASSUME NEW o \in SubmittedOps'
      PROVE  o \in Ops /\ Revision(o) \in DOMAIN revs' /\ review'[Revision(o)] # None /\ Unit(o) \in revs'[Revision(o)].units
  <2>1. PICK i \in DOMAIN revs' : review'[i] # None /\ o \in {i} \X revs'[i].units
    BY <1>2
  <2>2. PICK u \in revs'[i].units : o = <<i, u>>
    BY <2>1
  <2> QED
    BY <1>1, <2>1, <2>2 DEF Ops, Revision, Unit
<1>4. ASSUME NEW o \in Ops, Revision(o) \in DOMAIN revs', review'[Revision(o)] # None, Unit(o) \in revs'[Revision(o)].units
      PROVE  o \in SubmittedOps'
  <2>1. o = <<Revision(o), Unit(o)>>
    BY DEF Ops, Revision, Unit
  <2>2. o \in {Revision(o)} \X revs'[Revision(o)].units
    BY <1>4, <2>1
  <2> QED
    BY <1>2, <1>4, <2>2
<1> QED
  BY <1>3, <1>4

\* What can enter a release.
LEMMA EligibleIs ==
    ASSUME ReviewTypeOK, NEW o \in Eligible
    PROVE  /\ o \in Projected /\ o \in SubmittedOps /\ o \in Ops
           /\ marker[o] = 0 /\ Answer(o) = "accepted" /\ Unit(o) \notin Structural
<1>1. o \in Projected /\ Answer(o) = "accepted" /\ ~DeferredToDev(Projected, o)
  BY DEF Eligible, EligibleOf
<1>2. o \in SubmittedOps /\ marker[o] = 0
  BY <1>1 DEF Projected
<1>3. o \in Ops
  BY <1>2, SubmittedOpsAre
<1>4. Unit(o) \notin Structural
  BY <1>1 DEF DeferredToDev
<1> QED
  BY <1>1, <1>2, <1>3, <1>4

LEMMA ReasonIsReason ==
    ASSUME ReviewTypeOK, NEW o \in SubmittedOps
    PROVE  Reason(o) \in Reasons
<1>1. Answer(o) \in Answers
  <2>1. Revision(o) \in Revisions /\ Unit(o) \in Units /\ review[Revision(o)] # None
    BY SubmittedOpsAre DEF Ops, Revision, Unit
  <2>2. review[Revision(o)] \in Decisions
    BY <2>1 DEF ReviewTypeOK
  <2> QED
    BY <2>1, <2>2 DEF Decisions, Answer
<1> QED
  BY <1>1 DEF Reason, Reasons

LEMMA FrontierIsCandidate ==
    ASSUME ReviewTypeOK
    PROVE  Frontier \in Candidates
<1>1. Completed \subseteq Candidates
  BY RowsAre DEF Completed
<1> QED
  BY <1>1, NewestIsCandidate DEF Frontier

-----------------------------------------------------------------------------
(* Types.                                                                  *)

LEMMA TypeInit == Init => ReviewTypeOK
  BY ReviewAssumption DEF Init, ReviewTypeOK, Ops, Candidates

LEMMA RecordKeepsTypes ==
    ASSUME ReviewTypeOK, NEW s \in Sources, NEW units \in SUBSET Units, NEW base \in Candidates,
           RecordRevision(s, units, base)
    PROVE  ReviewTypeOK'
<1> DEFINE line == [source |-> s, units |-> units, base |-> base]
<1>1. line \in RevisionRow /\ units \subseteq UnitsOf(s)
  BY DEF RecordRevision, RevisionRow
<1>2. revs \in Seq(RevisionRow)
  BY DEF ReviewTypeOK
<1>3. revs' = Append(revs, line) /\ Len(revs) < LastRevision
  BY DEF RecordRevision
<1>4. revs' \in Seq(RevisionRow)
  BY <1>1, <1>2, <1>3
<1>5. Len(revs') <= LastRevision
  BY <1>2, <1>3, ReviewAssumption
<1>6. \A i \in DOMAIN revs' : revs'[i].units \subseteq UnitsOf(revs'[i].source)
  <2> TAKE i \in DOMAIN revs'
  <2>1. CASE i \in DOMAIN revs
    <3>1. revs'[i] = revs[i]
      BY <1>2, <1>3, <2>1
    <3> QED
      BY <2>1, <3>1 DEF ReviewTypeOK
  <2>2. CASE i \notin DOMAIN revs
    <3>1. revs'[i] = line
      BY <1>2, <1>3, <2>2
    <3> QED
      BY <1>1, <3>1
  <2> QED
    BY <2>1, <2>2
<1> QED
  BY <1>4, <1>5, <1>6 DEF ReviewTypeOK, RecordRevision

LEMMA DraftKeepsTypes ==
    ASSUME ReviewTypeOK, NEW p \in Publishers, NEW i \in DOMAIN revs, NEW answers \in Decisions,
           SaveDraft(p, i, answers)
    PROVE  ReviewTypeOK'
<1>1. draft' \in [Revisions -> Drafts \cup {None}]
  BY DEF SaveDraft, ReviewTypeOK, Drafts
<1> QED
  BY <1>1 DEF SaveDraft, ReviewTypeOK

LEMMA SubmitKeepsTypes ==
    ASSUME ReviewTypeOK, NEW p \in Publishers, NEW S \in SUBSET DOMAIN revs, Submit(p, S)
    PROVE  ReviewTypeOK'
<1>1. DOMAIN revs \subseteq Revisions
  BY RowsAre
<1>2. \A i \in S : draft[i].answers \in Decisions
  BY <1>1 DEF Submit, ReviewTypeOK, Drafts
<1>3. review' \in [Revisions -> Decisions \cup {None}]
  BY <1>2 DEF Submit, ReviewTypeOK
<1>4. draft' \in [Revisions -> Drafts \cup {None}]
  BY DEF Submit, ReviewTypeOK
<1>5. lifecycle' \in [Ops -> {"none", "unpublished", "superseded", "published"}]
  BY DEF Submit, AfterSubmit, ReviewTypeOK
<1> QED
  BY <1>3, <1>4, <1>5 DEF Submit, ReviewTypeOK

LEMMA ExecutorKeepsTypes ==
    ASSUME ReviewTypeOK, BuildCandidate \/ Abandon \/ Prepare
    PROVE  ReviewTypeOK'
<1>1. CASE BuildCandidate
  <2>1. Eligible \subseteq Ops
    BY EligibleIs
  <2>2. ExecutorHeld \subseteq Ops \X Reasons
    <3>1. Projected \subseteq SubmittedOps /\ SubmittedOps \subseteq Ops
      BY SubmittedOpsAre DEF Projected
    <3> QED
      BY <3>1, ReasonIsReason DEF ExecutorHeld
  <2>3. built' \in Bindings
    BY <1>1, <2>1, <2>2, FrontierIsCandidate DEF BuildCandidate, Bindings
  <2> QED
    BY <1>1, <2>3 DEF BuildCandidate, ReviewTypeOK
<1>2. CASE Abandon
  BY <1>2 DEF Abandon, ReviewTypeOK
<1>3. CASE Prepare
  <2> DEFINE line == [state |-> "prepared", base |-> built.base, members |-> built.members]
  <2>1. built \in Bindings
    BY <1>3 DEF Prepare, ReviewTypeOK
  <2>2. line \in ReleaseRow
    BY <2>1 DEF Bindings, States, ReleaseRow
  <2>3. releases \in Seq(ReleaseRow)
    BY DEF ReviewTypeOK
  <2>4. releases' = Append(releases, line) /\ Len(releases) < LastRelease
    BY <1>3 DEF Prepare
  <2>5. releases' \in Seq(ReleaseRow)
    BY <2>2, <2>3, <2>4
  <2>6. Len(releases') <= LastRelease
    BY <2>3, <2>4, ReviewAssumption
  <2> QED
    BY <1>3, <2>5, <2>6 DEF Prepare, ReviewTypeOK
<1> QED
  BY <1>1, <1>2, <1>3

\* A release that moves changes its state and nothing else.
LEMMA MoveFrame ==
    ASSUME ReviewTypeOK, NEW r \in DOMAIN releases, NEW from, NEW to \in States, Move(r, from, to)
    PROVE  /\ releases' \in Seq(ReleaseRow)
           /\ Len(releases') = Len(releases) /\ DOMAIN releases' = DOMAIN releases
           /\ releases'[r].state = to
           /\ \A q \in DOMAIN releases : q # r => releases'[q] = releases[q]
           /\ \A q \in DOMAIN releases : /\ releases'[q].base = releases[q].base
                                         /\ releases'[q].members = releases[q].members
<1>1. releases \in Seq(ReleaseRow)
  BY DEF ReviewTypeOK
<1>2. releases' = [releases EXCEPT ![r].state = to]
  BY DEF Move
<1>3. [releases[r] EXCEPT !.state = to] \in ReleaseRow
  <2>1. releases[r] \in ReleaseRow
    BY <1>1
  <2> QED
    BY <2>1 DEF ReleaseRow
<1>4. releases' = [releases EXCEPT ![r] = [releases[r] EXCEPT !.state = to]]
  BY <1>2
<1>5. releases' \in Seq(ReleaseRow)
  BY <1>1, <1>3, <1>4
<1>6. Len(releases') = Len(releases) /\ DOMAIN releases' = DOMAIN releases
  BY <1>1, <1>4
<1>7. \A q \in DOMAIN releases : releases'[q] = IF q = r THEN [releases[r] EXCEPT !.state = to] ELSE releases[q]
  BY <1>1, <1>4
<1>8. \A q \in DOMAIN releases : releases[q] \in ReleaseRow
  BY <1>1
<1>9. /\ [releases[r] EXCEPT !.state = to].state = to
      /\ [releases[r] EXCEPT !.state = to].base = releases[r].base
      /\ [releases[r] EXCEPT !.state = to].members = releases[r].members
  BY <1>8 DEF ReleaseRow
<1> QED
  BY <1>5, <1>6, <1>7, <1>9

LEMMA MoveKeepsTypes ==
    ASSUME ReviewTypeOK, NEW r \in DOMAIN releases,
           Authorize(r) \/ Claim(r) \/ Fail(r) \/ Restore(r) \/ Complete(r)
    PROVE  ReviewTypeOK'
<1>1. PICK from, to : to \in States /\ Move(r, from, to)
  BY DEF Authorize, Claim, Fail, Restore, Complete, States
<1>2. /\ releases' \in Seq(ReleaseRow)
      /\ Len(releases') = Len(releases)
  BY <1>1, MoveFrame
<1>3. lifecycle' \in [Ops -> {"none", "unpublished", "superseded", "published"}] /\ marker' \in [Ops -> Candidates]
  <2>1. CASE Complete(r)
    <3>1. r \in Candidates
      BY RowsAre
    <3> QED
      BY <2>1, <3>1 DEF Complete, ReviewTypeOK
  <2>2. CASE ~Complete(r)
    BY <2>2 DEF Authorize, Claim, Fail, Restore, ReviewTypeOK
  <2> QED
    BY <2>1, <2>2
<1>4. UNCHANGED <<revs, draft, review, built>>
  BY <1>1 DEF Move
<1> QED
  BY <1>2, <1>3, <1>4 DEF ReviewTypeOK

LEMMA TypeStep ==
    ASSUME ReviewTypeOK, [Next]_vars
    PROVE  ReviewTypeOK'
<1>1. CASE UNCHANGED vars
  BY <1>1 DEF vars, ReviewTypeOK
<1>2. CASE Next
  BY <1>2, RecordKeepsTypes, DraftKeepsTypes, SubmitKeepsTypes, ExecutorKeepsTypes, MoveKeepsTypes
     DEF Next
<1> QED
  BY <1>1, <1>2

\* Type correctness: the rows, the receipts and the releases stay well typed, and a
\* revision only ever holds operations of its own source.
THEOREM ReviewIsTyped == Spec => []ReviewTypeOK
  BY TypeInit, TypeStep, PTL DEF Spec

-----------------------------------------------------------------------------
(* What a step leaves of the derived sets.                                 *)

LEMMA RecordFrame ==
    ASSUME ReviewTypeOK, ReviewTypeOK', IntegrityHolds,
           NEW s \in Sources, NEW units \in SUBSET Units, NEW base \in Candidates, RecordRevision(s, units, base)
    PROVE  /\ DOMAIN revs \subseteq DOMAIN revs' /\ \A i \in DOMAIN revs : revs'[i] = revs[i]
           /\ \A i \in DOMAIN revs, j \in DOMAIN revs' \ DOMAIN revs : i < j
           /\ SubmittedOps' = SubmittedOps
<1>1. revs' = Append(revs, [source |-> s, units |-> units, base |-> base]) /\ review' = review
  BY DEF RecordRevision
<1>2. revs \in Seq(RevisionRow) /\ DOMAIN revs = 1..Len(revs) /\ Len(revs) \in Nat
  BY RowsAre DEF ReviewTypeOK
<1>3. /\ DOMAIN revs' = 1..(Len(revs) + 1)
      /\ \A i \in DOMAIN revs : revs'[i] = revs[i]
  BY <1>1, <1>2
<1>4. \A o \in Ops : Revision(o) \in DOMAIN revs' /\ review'[Revision(o)] # None => Revision(o) \in DOMAIN revs
  <2>1. \A i \in Revisions : review[i] # None => i \in DOMAIN revs
    BY DEF IntegrityHolds, FrontierIsIntact, ReceiptsAreIntact, MarkersAreIntact, ReleasesAreIntact,
       Submitted
  <2> QED
    BY <1>1, <2>1 DEF Ops, Revision
<1>5. SubmittedOps' = SubmittedOps
  <2>1. DOMAIN revs \subseteq DOMAIN revs'
    BY <1>2, <1>3
  <2> QED
    BY <1>1, <1>3, <1>4, <2>1, SubmittedOpsAre, SubmittedOpsAreNext
<1> QED
  BY <1>2, <1>3, <1>5

LEMMA SubmitFrame ==
    ASSUME ReviewTypeOK, ReviewTypeOK', IntegrityHolds,
           NEW p \in Publishers, NEW S \in SUBSET DOMAIN revs, Submit(p, S)
    PROVE  /\ \A i \in S : review'[i] # None /\ review[i] = None
           /\ \A i \in Revisions \ S : review'[i] = review[i]
           /\ SubmittedOps' = SubmittedOps \cup {o \in Ops : Revision(o) \in S /\ Unit(o) \in revs[Revision(o)].units}
           /\ \A o \in SubmittedOps : Revision(o) \notin S
<1> DEFINE new == {o \in Ops : Revision(o) \in S /\ Unit(o) \in revs[Revision(o)].units}
<1>1. DOMAIN revs \subseteq Revisions
  BY RowsAre
<1>2. \A i \in S : draft[i].answers \in Decisions
  BY <1>1 DEF Submit, ReviewTypeOK, Drafts
<1>3. \A i \in Revisions : review'[i] = IF i \in S THEN draft[i].answers ELSE review[i]
  BY DEF Submit
<1>4. \A i \in S : review'[i] # None
  BY <1>1, <1>2, <1>3, ReviewAssumption
<1>5. \A i \in S : review[i] = None
  BY DEF Submit, Submitted
<1>6. revs' = revs
  BY DEF Submit
<1>7. \A o \in SubmittedOps : Revision(o) \notin S
  BY <1>5, SubmittedOpsAre
<1>8. ASSUME NEW o \in Ops
      PROVE  o \in SubmittedOps' <=> o \in SubmittedOps \cup new
  <2>1. Revision(o) \in Revisions
    BY DEF Ops, Revision
  <2>2. o \in SubmittedOps' <=> /\ Revision(o) \in DOMAIN revs /\ review'[Revision(o)] # None
                                /\ Unit(o) \in revs[Revision(o)].units
    BY <1>6, SubmittedOpsAreNext
  <2>3. o \in SubmittedOps <=> /\ Revision(o) \in DOMAIN revs /\ review[Revision(o)] # None
                               /\ Unit(o) \in revs[Revision(o)].units
    BY SubmittedOpsAre
  <2>4. CASE Revision(o) \in S
    BY <1>4, <1>5, <2>2, <2>3, <2>4
  <2>5. CASE Revision(o) \notin S
    BY <1>3, <2>1, <2>2, <2>3, <2>5
  <2> QED
    BY <2>4, <2>5
<1>9. SubmittedOps \subseteq Ops /\ SubmittedOps' \subseteq Ops /\ new \subseteq Ops
  BY SubmittedOpsAre, SubmittedOpsAreNext
<1>10. SubmittedOps' = SubmittedOps \cup new
  <2> HIDE DEF new
  <2> QED
    BY <1>8, <1>9
<1> QED
  BY <1>3, <1>4, <1>5, <1>7, <1>10

LEMMA PrepareFrame ==
    ASSUME ReviewTypeOK, Prepare
    PROVE  /\ Len(releases') = Len(releases) + 1 /\ DOMAIN releases' = DOMAIN releases \cup {Len(releases) + 1}
           /\ \A q \in DOMAIN releases : releases'[q] = releases[q]
           /\ releases'[Len(releases) + 1] = [state |-> "prepared", base |-> built.base, members |-> built.members]
           /\ Completed' = Completed
<1>1. releases \in Seq(ReleaseRow) /\ DOMAIN releases = 1..Len(releases) /\ Len(releases) \in Nat
  BY RowsAre DEF ReviewTypeOK
<1>2. releases' = Append(releases, [state |-> "prepared", base |-> built.base, members |-> built.members])
  BY DEF Prepare
<1>3. /\ Len(releases') = Len(releases) + 1 /\ DOMAIN releases' = 1..(Len(releases) + 1)
      /\ \A q \in DOMAIN releases : releases'[q] = releases[q]
      /\ releases'[Len(releases) + 1] = [state |-> "prepared", base |-> built.base, members |-> built.members]
  BY <1>1, <1>2
<1>4. DOMAIN releases' = DOMAIN releases \cup {Len(releases) + 1}
  BY <1>1, <1>3
<1>5. Completed' = Completed
  BY <1>3, <1>4 DEF Completed
<1> QED
  BY <1>3, <1>4, <1>5

LEMMA MoveKeepsCompleted ==
    ASSUME ReviewTypeOK, NEW r \in DOMAIN releases, Authorize(r) \/ Claim(r) \/ Fail(r) \/ Restore(r)
    PROVE  Completed' = Completed
<1>1. PICK from, to : from # "complete" /\ to # "complete" /\ to \in States /\ Move(r, from, to)
  BY DEF Authorize, Claim, Fail, Restore, States
<1>2. /\ DOMAIN releases' = DOMAIN releases /\ releases'[r].state = to
      /\ \A q \in DOMAIN releases : q # r => releases'[q] = releases[q]
  BY <1>1, MoveFrame
<1>3. releases[r].state = from
  BY <1>1 DEF Move
<1> QED
  BY <1>1, <1>2, <1>3 DEF Completed

LEMMA CompleteFrame ==
    ASSUME ReviewTypeOK, NEW r \in DOMAIN releases, Complete(r)
    PROVE  /\ DOMAIN releases' = DOMAIN releases /\ Len(releases') = Len(releases)
           /\ releases[r].state = "executing" /\ releases'[r].state = "complete"
           /\ r \in Active /\ r \notin Completed /\ r \in DOMAIN releases /\ r \in Nat /\ r # 0
           /\ Completed' = Completed \cup {r}
           /\ \A q \in DOMAIN releases : q # r => releases'[q] = releases[q]
           /\ \A q \in DOMAIN releases : /\ releases'[q].base = releases[q].base
                                         /\ releases'[q].members = releases[q].members
<1>1. Move(r, "executing", "complete") /\ releases[r].state = "executing"
  BY DEF Complete, Move
<1>2. /\ DOMAIN releases' = DOMAIN releases /\ Len(releases') = Len(releases)
      /\ releases'[r].state = "complete"
      /\ \A q \in DOMAIN releases : q # r => releases'[q] = releases[q]
      /\ \A q \in DOMAIN releases : /\ releases'[q].base = releases[q].base
                                    /\ releases'[q].members = releases[q].members
  BY <1>1, MoveFrame DEF States
<1>3. r \in Active /\ r \notin Completed
  BY <1>1 DEF Active, Settled, Completed
<1>4. Completed' = Completed \cup {r}
  BY <1>1, <1>2 DEF Completed
<1>5. r \in Nat /\ r # 0
  BY RowsAre
<1> QED
  BY <1>1, <1>2, <1>3, <1>4, <1>5

LEMMA QuietFrame ==
    ASSUME UNCHANGED <<revs, review>>
    PROVE  SubmittedOps' = SubmittedOps /\ \A o : Answer(o)' = Answer(o)
  BY DEF SubmittedOps, OpsOf, Submitted, Answer

-----------------------------------------------------------------------------
(* Integrity of the rows, the markers and the releases.                    *)

LEMMA RecordKeepsIntegrity ==
    ASSUME ReviewTypeOK, ReviewTypeOK', IntegrityHolds,
           NEW s \in Sources, NEW units \in SUBSET Units, NEW base \in Candidates, RecordRevision(s, units, base)
    PROVE  IntegrityHolds'
<1>1. DOMAIN revs \subseteq DOMAIN revs' /\ SubmittedOps' = SubmittedOps
  BY RecordFrame
<1>2. UNCHANGED <<review, lifecycle, marker, releases>>
  BY DEF RecordRevision
<1>3. Completed' = Completed
  BY <1>2 DEF Completed
<1> QED
  BY <1>1, <1>2, <1>3 DEF IntegrityHolds, FrontierIsIntact, ReceiptsAreIntact, MarkersAreIntact,
     ReleasesAreIntact, Submitted

LEMMA SubmitKeepsIntegrity ==
    ASSUME ReviewTypeOK, ReviewTypeOK', IntegrityHolds,
           NEW p \in Publishers, NEW S \in SUBSET DOMAIN revs, Submit(p, S)
    PROVE  IntegrityHolds'
<1>1. UNCHANGED <<revs, marker, releases>> /\ lifecycle' = AfterSubmit(S)
  BY DEF Submit
<1>2. Completed' = Completed
  BY <1>1 DEF Completed
<1>3. \A i \in Revisions : Submitted(i)' => i \in DOMAIN revs'
  BY <1>1, SubmitFrame DEF IntegrityHolds, FrontierIsIntact, ReceiptsAreIntact, MarkersAreIntact,
     ReleasesAreIntact, Submitted
<1>10. /\ SubmittedOps' = SubmittedOps \cup {o \in Ops : Revision(o) \in S /\ Unit(o) \in revs[Revision(o)].units}
       /\ \A o \in SubmittedOps : Revision(o) \notin S
  BY SubmitFrame
<1>4. ASSUME NEW o \in Ops
      PROVE  /\ lifecycle'[o] # "none" <=> o \in SubmittedOps'
             /\ lifecycle'[o] = "published" <=> marker'[o] # 0
  <2> DEFINE new == Revision(o) \in S /\ Unit(o) \in revs[Revision(o)].units
  <2>1. lifecycle'[o] = IF new THEN "unpublished"
            ELSE IF lifecycle[o] = "unpublished" /\ SourceOfOp(o) \in {revs[i].source : i \in S} THEN "superseded"
            ELSE lifecycle[o]
    BY <1>1 DEF AfterSubmit
  <2>2. /\ lifecycle[o] # "none" <=> o \in SubmittedOps
        /\ lifecycle[o] = "published" <=> marker[o] # 0
    BY DEF IntegrityHolds, FrontierIsIntact, ReceiptsAreIntact, MarkersAreIntact, ReleasesAreIntact
  <2>3. o \in SubmittedOps' <=> o \in SubmittedOps \/ new
    BY <1>10
  <2>4. new => o \notin SubmittedOps
    BY <1>10
  <2> HIDE DEF new
  <2> QED
    BY <1>1, <2>1, <2>2, <2>3, <2>4
<1> QED
  BY <1>1, <1>2, <1>3, <1>4
       DEF IntegrityHolds, FrontierIsIntact, ReceiptsAreIntact, MarkersAreIntact, ReleasesAreIntact

LEMMA PrepareKeepsIntegrity ==
    ASSUME ReviewTypeOK, ReviewTypeOK', IntegrityHolds, Prepare
    PROVE  IntegrityHolds'
<1>1. UNCHANGED <<revs, review, lifecycle, marker>>
  BY DEF Prepare
<1>2. Completed' = Completed /\ \A r \in Completed : releases'[r] = releases[r]
  BY PrepareFrame DEF Completed
<1>3. SubmittedOps' = SubmittedOps
  BY <1>1, QuietFrame
<1> QED
  BY <1>1, <1>2, <1>3 DEF IntegrityHolds, FrontierIsIntact, ReceiptsAreIntact, MarkersAreIntact,
     ReleasesAreIntact, Submitted

LEMMA MoveKeepsIntegrity ==
    ASSUME ReviewTypeOK, ReviewTypeOK', IntegrityHolds, NEW r \in DOMAIN releases,
           Authorize(r) \/ Claim(r) \/ Fail(r) \/ Restore(r)
    PROVE  IntegrityHolds'
<1>1. PICK from, to : to \in States /\ Move(r, from, to) /\ UNCHANGED <<lifecycle, marker>>
  BY DEF Authorize, Claim, Fail, Restore, States
<1>2. UNCHANGED <<revs, review>>
  BY <1>1 DEF Move
<1>3. Completed' = Completed /\ Completed \subseteq DOMAIN releases
  BY MoveKeepsCompleted DEF Completed
<1>4. \A q \in DOMAIN releases : releases'[q].members = releases[q].members
  BY <1>1, MoveFrame
<1>5. SubmittedOps' = SubmittedOps
  BY <1>2, QuietFrame
<1> QED
  BY <1>1, <1>2, <1>3, <1>4, <1>5 DEF IntegrityHolds, FrontierIsIntact, ReceiptsAreIntact,
     MarkersAreIntact, ReleasesAreIntact, Submitted

LEMMA CompleteKeepsIntegrity ==
    ASSUME ReviewTypeOK, ReviewTypeOK', IntegrityHolds, MembersAreAccepted, ActiveIsLast,
           NEW r \in DOMAIN releases, Complete(r)
    PROVE  IntegrityHolds'
<1>1. UNCHANGED <<revs, review>>
  BY DEF Complete, Move
<1>2. SubmittedOps' = SubmittedOps
  BY <1>1, QuietFrame
<1>3. \A o \in releases[r].members : marker[o] = 0 /\ o \in SubmittedOps /\ o \in Ops
  <2>1. \A o \in releases[r].members : marker[o] = 0
    BY CompleteFrame DEF ActiveIsLast
  <2>2. releases[r].members \subseteq Ops
    BY RowsAre
  <2> QED
    BY <2>1, <2>2 DEF MembersAreAccepted
<1>4. \A o \in Ops : /\ marker'[o] = IF o \in releases[r].members THEN r ELSE marker[o]
                     /\ lifecycle'[o] = IF o \in releases[r].members THEN "published" ELSE lifecycle[o]
  BY <1>3 DEF Complete
<1>5. \A o \in Ops : lifecycle'[o] # "none" <=> o \in SubmittedOps'
  BY <1>2, <1>3, <1>4 DEF IntegrityHolds, FrontierIsIntact, ReceiptsAreIntact, MarkersAreIntact,
     ReleasesAreIntact
<1>6. \A o \in Ops : lifecycle'[o] = "published" <=> marker'[o] # 0
  BY <1>4, CompleteFrame DEF IntegrityHolds, FrontierIsIntact, ReceiptsAreIntact, MarkersAreIntact,
     ReleasesAreIntact
<1>7. \A o \in Ops : marker'[o] # 0 => marker'[o] \in Completed'
  BY <1>4, CompleteFrame DEF IntegrityHolds, FrontierIsIntact, ReceiptsAreIntact, MarkersAreIntact,
     ReleasesAreIntact
<1>8. ASSUME NEW q \in Completed'
      PROVE  releases'[q].members = {o \in Ops : marker'[o] = q}
  <2>1. q \in DOMAIN releases /\ releases'[q].members = releases[q].members
    BY <1>8, CompleteFrame DEF Completed
  <2>2. releases[q].members \subseteq Ops
    BY <2>1, RowsAre
  <2>3. CASE q = r
    <3>1. \A o \in Ops : marker[o] # r
      BY CompleteFrame DEF IntegrityHolds, FrontierIsIntact, ReceiptsAreIntact, MarkersAreIntact,
         ReleasesAreIntact
    <3> QED
      BY <1>4, <2>1, <2>2, <2>3, <3>1
  <2>4. CASE q # r
    <3>1. q \in Completed
      BY <1>8, <2>4, CompleteFrame
    <3>2. releases[q].members = {o \in Ops : marker[o] = q}
      BY <3>1 DEF IntegrityHolds, FrontierIsIntact, ReceiptsAreIntact, MarkersAreIntact,
         ReleasesAreIntact
    <3>3. q # 0
      BY <2>1, RowsAre
    <3>4. \A o \in Ops : marker'[o] = q <=> marker[o] = q
      BY <1>3, <1>4, <2>4, <3>3
    <3> QED
      BY <2>1, <3>2, <3>4
  <2> QED
    BY <2>3, <2>4
<1>9. \A i \in Revisions : Submitted(i)' => i \in DOMAIN revs'
  BY <1>1 DEF IntegrityHolds, FrontierIsIntact, ReceiptsAreIntact, MarkersAreIntact, ReleasesAreIntact,
     Submitted
<1> QED
  BY <1>5, <1>6, <1>7, <1>8, <1>9
       DEF IntegrityHolds, FrontierIsIntact, ReceiptsAreIntact, MarkersAreIntact, ReleasesAreIntact

\* Steps that leave the rows, the receipts and the releases alone.
LEMMA IdleKeepsIntegrity ==
    ASSUME IntegrityHolds, UNCHANGED <<revs, review, lifecycle, marker, releases>>
    PROVE  IntegrityHolds'
<1>1. SubmittedOps' = SubmittedOps /\ Completed' = Completed
  BY QuietFrame DEF Completed
<1> QED
  BY <1>1 DEF IntegrityHolds, FrontierIsIntact, ReceiptsAreIntact, MarkersAreIntact, ReleasesAreIntact,
     Submitted

LEMMA IntegrityStep ==
    ASSUME ReviewInv, ReviewTypeOK', [Next]_vars
    PROVE  IntegrityHolds'
<1> USE DEF ReviewInv
<1>1. CASE UNCHANGED vars
  BY <1>1, IdleKeepsIntegrity DEF vars
<1>2. ASSUME NEW s \in Sources, NEW units \in SUBSET Units, NEW base \in Candidates, RecordRevision(s, units, base)
      PROVE  IntegrityHolds'
  BY <1>2, RecordKeepsIntegrity
<1>3. ASSUME NEW p \in Publishers, NEW i \in DOMAIN revs, NEW answers \in Decisions, SaveDraft(p, i, answers)
      PROVE  IntegrityHolds'
  BY <1>3, IdleKeepsIntegrity DEF SaveDraft
<1>4. ASSUME NEW p \in Publishers, NEW S \in SUBSET DOMAIN revs, Submit(p, S)
      PROVE  IntegrityHolds'
  BY <1>4, SubmitKeepsIntegrity
<1>5. CASE BuildCandidate \/ Abandon
  BY <1>5, IdleKeepsIntegrity DEF BuildCandidate, Abandon
<1>6. CASE Prepare
  BY <1>6, PrepareKeepsIntegrity
<1>7. ASSUME NEW r \in DOMAIN releases, Authorize(r) \/ Claim(r) \/ Fail(r) \/ Restore(r)
      PROVE  IntegrityHolds'
  BY <1>7, MoveKeepsIntegrity
<1>8. ASSUME NEW r \in DOMAIN releases, Complete(r)
      PROVE  IntegrityHolds'
  BY <1>8, CompleteKeepsIntegrity
<1> QED
  BY <1>1, <1>2, <1>3, <1>4, <1>5, <1>6, <1>7, <1>8 DEF Next

-----------------------------------------------------------------------------
(* Members, and the place of a release under way.                          *)

LEMMA MembersStep ==
    ASSUME ReviewInv, ReviewTypeOK', [Next]_vars
    PROVE  MembersAreAccepted'
<1> USE DEF ReviewInv
<1>0. ASSUME NEW o \in SubmittedOps
      PROVE  o \in SubmittedOps' /\ Answer(o)' = Answer(o)
  <2>1. CASE UNCHANGED <<revs, review>>
    BY <2>1, QuietFrame
  <2>2. ASSUME NEW s \in Sources, NEW units \in SUBSET Units, NEW base \in Candidates,
               RecordRevision(s, units, base)
        PROVE  o \in SubmittedOps' /\ Answer(o)' = Answer(o)
    BY <2>2, RecordFrame DEF RecordRevision, Answer
  <2>3. ASSUME NEW p \in Publishers, NEW S \in SUBSET DOMAIN revs, Submit(p, S)
        PROVE  o \in SubmittedOps' /\ Answer(o)' = Answer(o)
    <3>1. o \in Ops /\ Revision(o) \in Revisions
      BY SubmittedOpsAre DEF Ops, Revision
    <3>2. /\ \A i \in Revisions \ S : review'[i] = review[i]
          /\ SubmittedOps \subseteq SubmittedOps'
          /\ \A o2 \in SubmittedOps : Revision(o2) \notin S
      BY <2>3, SubmitFrame
    <3>3. Revision(o) \notin S
      BY <3>2
    <3>4. review'[Revision(o)] = review[Revision(o)]
      BY <3>1, <3>2, <3>3
    <3>5. o \in SubmittedOps'
      BY <3>1, <3>2
    <3> QED
      BY <3>4, <3>5 DEF Answer
  <2>4. CASE \E r \in DOMAIN releases : Authorize(r) \/ Claim(r) \/ Fail(r) \/ Restore(r) \/ Complete(r)
    <3>1. UNCHANGED <<revs, review>>
      BY <2>4 DEF Authorize, Claim, Fail, Restore, Complete, Move
    <3> QED
      BY <2>1, <3>1
  <2>5. CASE BuildCandidate \/ Abandon \/ Prepare \/ UNCHANGED vars
    BY <2>1, <2>5 DEF BuildCandidate, Abandon, Prepare, vars
  <2>6. ASSUME NEW p \in Publishers, NEW i \in DOMAIN revs, NEW answers \in Decisions, SaveDraft(p, i, answers)
        PROVE  o \in SubmittedOps' /\ Answer(o)' = Answer(o)
    BY <2>1, <2>6 DEF SaveDraft
  <2> QED
    BY <2>2, <2>3, <2>4, <2>5, <2>6 DEF Next
<1>1. CASE UNCHANGED releases
  BY <1>0, <1>1 DEF MembersAreAccepted
<1>2. CASE Prepare
  <2>1. \A o \in built.members : o \in SubmittedOps /\ Answer(o) = "accepted" /\ Unit(o) \notin Structural
    BY <1>2, EligibleIs DEF Prepare
  <2>2. ASSUME NEW r \in DOMAIN releases', NEW o \in releases'[r].members
        PROVE  o \in SubmittedOps /\ Answer(o) = "accepted" /\ Unit(o) \notin Structural
    <3>1. CASE r \in DOMAIN releases
      BY <1>2, <2>2, <3>1, PrepareFrame DEF MembersAreAccepted
    <3>2. CASE r \notin DOMAIN releases
      <4>1. r = Len(releases) + 1
        BY <1>2, <3>2, PrepareFrame
      <4>2. releases'[r].members = built.members
        BY <1>2, <4>1, PrepareFrame
      <4> QED
        BY <2>1, <2>2, <4>2
    <3> QED
      BY <3>1, <3>2
  <2> QED
    BY <1>0, <2>2 DEF MembersAreAccepted
<1>3. ASSUME NEW r \in DOMAIN releases, Authorize(r) \/ Claim(r) \/ Fail(r) \/ Restore(r) \/ Complete(r)
      PROVE  MembersAreAccepted'
  <2>1. PICK from, to : to \in States /\ Move(r, from, to)
    BY <1>3 DEF Authorize, Claim, Fail, Restore, Complete, States
  <2>2. /\ DOMAIN releases' = DOMAIN releases
        /\ \A q \in DOMAIN releases : releases'[q].members = releases[q].members
    BY <2>1, MoveFrame
  <2> QED
    BY <1>0, <2>2 DEF MembersAreAccepted
<1> QED
  BY <1>1, <1>2, <1>3 DEF Next, vars, RecordRevision, SaveDraft, Submit, BuildCandidate, Abandon

\* Where the releases stay, their place and the frontier stay.
LEMMA IdleKeepsPlaces ==
    ASSUME ActiveIsLast, ShippedOnFrontier, UNCHANGED <<releases, marker>>
    PROVE  ActiveIsLast' /\ ShippedOnFrontier' /\ Frontier' = Frontier /\ Active' = Active
<1>1. Completed' = Completed /\ Active' = Active
  BY DEF Completed, Active
<1>2. Frontier' = Frontier
  BY <1>1 DEF Frontier
<1> QED
  BY <1>1, <1>2 DEF ActiveIsLast, ShippedOnFrontier

LEMMA PrepareKeepsPlaces ==
    ASSUME ReviewTypeOK, ActiveIsLast, ShippedOnFrontier, BuiltOnFrontier, Prepare
    PROVE  ActiveIsLast' /\ ShippedOnFrontier'
<1>1. Active = {} /\ built # None /\ built.members = Eligible /\ marker' = marker
  BY DEF Prepare
<1>2. Frontier' = Frontier
  BY PrepareFrame DEF Frontier
<1>3. Active' \subseteq {Len(releases) + 1}
  BY <1>1, PrepareFrame DEF Active
<1>4. releases'[Len(releases) + 1].base = Frontier
  BY <1>1, PrepareFrame DEF BuiltOnFrontier
<1>5. \A o \in releases'[Len(releases) + 1].members : marker'[o] = 0
  BY <1>1, PrepareFrame, EligibleIs
<1>6. ActiveIsLast'
  BY <1>2, <1>3, <1>4, <1>5, PrepareFrame DEF ActiveIsLast
<1>7. \A r \in Completed : releases'[r] = releases[r]
  BY PrepareFrame DEF Completed
<1> QED
  BY <1>6, <1>7, PrepareFrame DEF ShippedOnFrontier

LEMMA MoveKeepsPlaces ==
    ASSUME ReviewTypeOK, ActiveIsLast, ShippedOnFrontier, NEW r \in DOMAIN releases,
           Authorize(r) \/ Claim(r) \/ Fail(r) \/ Restore(r)
    PROVE  ActiveIsLast' /\ ShippedOnFrontier' /\ Frontier' = Frontier /\ Active' \subseteq Active
<1>1. PICK from, to : from \notin Settled /\ to \in States /\ Move(r, from, to) /\ UNCHANGED marker
  BY DEF Authorize, Claim, Fail, Restore, States, Settled
<1>2. Completed' = Completed /\ Completed \subseteq DOMAIN releases
  BY MoveKeepsCompleted DEF Completed
<1>3. Frontier' = Frontier
  BY <1>2 DEF Frontier
<1>4. /\ DOMAIN releases' = DOMAIN releases /\ Len(releases') = Len(releases)
      /\ \A q \in DOMAIN releases : q # r => releases'[q] = releases[q]
      /\ \A q \in DOMAIN releases : /\ releases'[q].base = releases[q].base
                                    /\ releases'[q].members = releases[q].members
  BY <1>1, MoveFrame
<1>5. r \in Active
  BY <1>1 DEF Active, Move
<1>6. Active' \subseteq Active
  BY <1>4, <1>5 DEF Active
<1>7. ActiveIsLast'
  <2>1. \A q \in Active : q \in DOMAIN releases
    BY DEF Active
  <2> QED
    BY <1>1, <1>3, <1>4, <1>6, <2>1 DEF ActiveIsLast
<1>8. ShippedOnFrontier'
  BY <1>2, <1>4 DEF ShippedOnFrontier
<1> QED
  BY <1>3, <1>6, <1>7, <1>8

LEMMA CompleteKeepsPlaces ==
    ASSUME ReviewTypeOK, ActiveIsLast, ShippedOnFrontier, NEW r \in DOMAIN releases, Complete(r)
    PROVE  ActiveIsLast' /\ ShippedOnFrontier' /\ Active' = {} /\ \A q \in Completed : q < r
<1>1. r = Len(releases) /\ releases[r].base = Frontier
  BY CompleteFrame DEF ActiveIsLast
<1>2. \A q \in Completed : q < r
  BY <1>1, RowsAre, CompleteFrame DEF Completed
<1>3. Active' = {}
  <2>1. ASSUME NEW q \in Active'
        PROVE  FALSE
    <3>1. q \in DOMAIN releases /\ q # r
      BY CompleteFrame DEF Active, Settled
    <3>2. q \in Active
      BY <3>1, CompleteFrame DEF Active
    <3> QED
      BY <1>1, <3>1, <3>2 DEF ActiveIsLast
  <2> QED
    BY <2>1
<1>4. ASSUME NEW q \in Completed'
      PROVE  releases'[q].base = Newest({x \in Completed' : x < q})
  <2>1. q \in DOMAIN releases /\ releases'[q].base = releases[q].base
    BY <1>4, CompleteFrame DEF Completed
  <2>2. CASE q = r
    <3>1. {x \in Completed' : x < q} = Completed
      BY <1>2, <2>2, CompleteFrame
    <3> QED
      BY <1>1, <2>1, <2>2, <3>1 DEF Frontier
  <2>3. CASE q # r
    <3>1. q \in Completed /\ q < r
      BY <1>2, <1>4, <2>3, CompleteFrame
    <3>2. q \in Nat
      BY <2>1, RowsAre
    <3>3. {x \in Completed' : x < q} = {x \in Completed : x < q}
      BY <3>1, <3>2, CompleteFrame
    <3> QED
      BY <2>1, <3>1, <3>3 DEF ShippedOnFrontier
  <2> QED
    BY <2>2, <2>3
<1> QED
  BY <1>2, <1>3, <1>4 DEF ActiveIsLast, ShippedOnFrontier

LEMMA PlacesStep ==
    ASSUME ReviewInv, ReviewTypeOK', [Next]_vars
    PROVE  ActiveIsLast' /\ ShippedOnFrontier' /\ BuiltOnFrontier'
<1> USE DEF ReviewInv
<1>1. CASE UNCHANGED <<releases, marker, built>>
  BY <1>1, IdleKeepsPlaces DEF BuiltOnFrontier
<1>2. CASE BuildCandidate
  <2>1. UNCHANGED <<releases, marker>> /\ Active = {} /\ built'.base = Frontier
    BY <1>2 DEF BuildCandidate
  <2> QED
    BY <2>1, IdleKeepsPlaces DEF BuiltOnFrontier
<1>3. CASE Abandon
  BY <1>3, IdleKeepsPlaces DEF Abandon, BuiltOnFrontier
<1>4. CASE Prepare
  BY <1>4, PrepareKeepsPlaces DEF Prepare, BuiltOnFrontier
<1>5. ASSUME NEW r \in DOMAIN releases, Authorize(r) \/ Claim(r) \/ Fail(r) \/ Restore(r)
      PROVE  ActiveIsLast' /\ ShippedOnFrontier' /\ BuiltOnFrontier'
  <2>1. built' = built
    BY <1>5 DEF Authorize, Claim, Fail, Restore, Move
  <2> QED
    BY <1>5, <2>1, MoveKeepsPlaces DEF BuiltOnFrontier
<1>6. ASSUME NEW r \in DOMAIN releases, Complete(r)
      PROVE  ActiveIsLast' /\ ShippedOnFrontier' /\ BuiltOnFrontier'
  <2>1. built' = built /\ r \in Active
    BY <1>6, CompleteFrame DEF Complete, Move
  <2> QED
    BY <1>6, <2>1, CompleteKeepsPlaces DEF BuiltOnFrontier
<1> QED
  BY <1>1, <1>2, <1>3, <1>4, <1>5, <1>6 DEF Next, vars, RecordRevision, SaveDraft, Submit
-----------------------------------------------------------------------------
(* The bases of what executes and of what has shipped.                     *)

LEMMA RevisionsStay ==
    ASSUME ReviewInv, ReviewTypeOK', [Next]_vars, NEW i \in DOMAIN revs
    PROVE  i \in DOMAIN revs' /\ revs'[i] = revs[i]
<1> USE DEF ReviewInv
<1>1. CASE UNCHANGED revs
  BY <1>1
<1>2. ASSUME NEW s \in Sources, NEW units \in SUBSET Units, NEW base \in Candidates, RecordRevision(s, units, base)
      PROVE  i \in DOMAIN revs' /\ revs'[i] = revs[i]
  BY <1>2, RecordFrame
<1> QED
  BY <1>1, <1>2 DEF Next, vars, SaveDraft, Submit, BuildCandidate, Abandon, Prepare,
     Authorize, Claim, Fail, Restore, Complete, Move

LEMMA SourceIsSource ==
    ASSUME ReviewTypeOK, NEW o \in SubmittedOps
    PROVE  /\ o \in Ops /\ Revision(o) \in DOMAIN revs
           /\ revs[Revision(o)].source = SourceOfOp(o)
<1>1. o \in Ops /\ Revision(o) \in DOMAIN revs /\ Unit(o) \in revs[Revision(o)].units
  BY SubmittedOpsAre
<1>2. revs[Revision(o)].units \subseteq UnitsOf(revs[Revision(o)].source)
  BY <1>1, RowsAre
<1> QED
  BY <1>1, <1>2 DEF UnitsOf, SourceOfOp

\* A release starts to execute by a claim, and what it lists stays.
LEMMA ExecutingFrame ==
    ASSUME ReviewInv, ReviewTypeOK', [Next]_vars,
           NEW q \in DOMAIN releases', releases'[q].state = "executing"
    PROVE  /\ UNCHANGED marker
           /\ q \in DOMAIN releases /\ releases'[q].members = releases[q].members
           /\ releases[q].state = "executing" \/ Claim(q)
<1> USE DEF ReviewInv
<1>1. CASE UNCHANGED <<releases, marker>>
  BY <1>1
<1>2. CASE Prepare
  <2>1. q # Len(releases) + 1
    BY <1>2, PrepareFrame
  <2> QED
    BY <1>2, <2>1, PrepareFrame DEF Prepare
<1>3. ASSUME NEW r \in DOMAIN releases, Authorize(r) \/ Claim(r) \/ Fail(r) \/ Restore(r)
      PROVE  /\ UNCHANGED marker
             /\ q \in DOMAIN releases /\ releases'[q].members = releases[q].members
             /\ releases[q].state = "executing" \/ Claim(q)
  <2>1. PICK from, to : /\ to \in States /\ Move(r, from, to) /\ UNCHANGED marker
                        /\ to = "executing" => Claim(r)
    BY <1>3 DEF Authorize, Claim, Fail, Restore, States
  <2>2. /\ DOMAIN releases' = DOMAIN releases /\ releases'[r].state = to
        /\ \A x \in DOMAIN releases : x # r => releases'[x] = releases[x]
        /\ \A x \in DOMAIN releases : releases'[x].members = releases[x].members
    BY <2>1, MoveFrame
  <2> QED
    BY <2>1, <2>2
<1>4. ASSUME NEW r \in DOMAIN releases, Complete(r)
      PROVE  FALSE
  <2>1. Active' = {}
    BY <1>4, CompleteKeepsPlaces
  <2> QED
    BY <2>1 DEF Active, Settled
<1> QED
  BY <1>1, <1>2, <1>3, <1>4 DEF Next, vars, RecordRevision, SaveDraft, Submit, BuildCandidate, Abandon

LEMMA ExecutingStep ==
    ASSUME ReviewInv, ReviewTypeOK', [Next]_vars
    PROVE  ExecutingIsCurrent'
<1> USE DEF ReviewInv
<1> SUFFICES ASSUME NEW q \in DOMAIN releases', releases'[q].state = "executing",
                    NEW o \in releases'[q].members
             PROVE  revs'[Revision(o)].base = PublishedAs(SourceOfOp(o))'
  BY DEF ExecutingIsCurrent
<1>1. /\ UNCHANGED marker
      /\ q \in DOMAIN releases /\ o \in releases[q].members
      /\ releases[q].state = "executing" \/ Claim(q)
  BY ExecutingFrame
<1>2. o \in SubmittedOps
  BY <1>1 DEF MembersAreAccepted
<1>3. /\ Revision(o) \in DOMAIN revs /\ revs[Revision(o)].source = SourceOfOp(o)
      /\ revs'[Revision(o)] = revs[Revision(o)]
  BY <1>2, SourceIsSource, RevisionsStay
<1>4. revs[Revision(o)].base = PublishedAs(SourceOfOp(o))
  <2>1. CASE releases[q].state = "executing"
    BY <1>1, <2>1 DEF ExecutingIsCurrent
  <2>2. CASE Claim(q)
    <3>1. ~Stale(Revision(o))
      BY <1>1, <2>2 DEF Claim, ReviewIsCurrent
    <3> QED
      BY <1>3, <3>1 DEF Stale
  <2> QED
    BY <1>1, <2>1, <2>2
<1>5. PublishedAs(SourceOfOp(o))' = PublishedAs(SourceOfOp(o))
  BY <1>1 DEF PublishedAs, SourceOfOp
<1> QED
  BY <1>3, <1>4, <1>5

LEMMA CompleteKeepsHistory ==
    ASSUME ReviewInv, ReviewTypeOK', NEW r \in DOMAIN releases, Complete(r)
    PROVE  SourceHistoryIsLinear'
<1> USE DEF ReviewInv
<1> DEFINE Before(q, s) == {x \in Completed : x < q /\ Shipped(x, s)}
<1>1. /\ Completed' = Completed \cup {r} /\ r \notin Completed
      /\ \A x \in DOMAIN releases : releases'[x].members = releases[x].members
      /\ releases[r].state = "executing" /\ Completed \subseteq DOMAIN releases
      /\ r \in Nat
  BY CompleteFrame DEF Completed
<1>2. \A q \in Completed : q < r /\ q \in Nat
  BY CompleteKeepsPlaces, RowsAre DEF Completed
<1>3. revs' = revs
  BY DEF Complete, Move
<1>4. ASSUME NEW q \in Completed', NEW s
      PROVE  {x \in Completed' : x < q /\ Shipped(x, s)'} = Before(q, s)
  <2>1. \A x \in Completed' : x < q => x \in Completed
    BY <1>1, <1>2
  <2>2. \A x \in Completed : Shipped(x, s)' <=> Shipped(x, s)
    BY <1>1 DEF Shipped, SourceOfOp
  <2> HIDE DEF ReviewInv
  <2> QED
    BY <1>1, <2>1, <2>2
<1>5. ASSUME NEW s
      PROVE  PublishedAs(s) = Newest(Before(r, s))
  <2>1. \A x \in Completed : releases[x].members = {o \in Ops : marker[o] = x}
    BY DEF IntegrityHolds, FrontierIsIntact, ReceiptsAreIntact, MarkersAreIntact, ReleasesAreIntact
  <2>2. \A o \in Ops : marker[o] # 0 => marker[o] \in Completed
    BY DEF IntegrityHolds, FrontierIsIntact, ReceiptsAreIntact, MarkersAreIntact, ReleasesAreIntact
  <2>3. Completed \subseteq Releases
    BY RowsAre DEF Completed
  <2>4. \A x \in Releases : x # 0
    BY DEF Releases
  <2>5. {x \in Releases : \E o \in Ops : marker[o] = x /\ SourceOfOp(o) = s} = Before(r, s)
    <3> HIDE DEF ReviewInv
    <3> QED
      BY <1>2, <2>1, <2>2, <2>3, <2>4 DEF Shipped
  <2> QED
    BY <2>5 DEF PublishedAs
<1>6. ASSUME NEW q \in Completed', NEW o \in releases'[q].members
      PROVE  revs[Revision(o)].base = Newest(Before(q, SourceOfOp(o)))
  <2>1. o \in releases[q].members
    BY <1>1
  <2>2. CASE q = r
    BY <1>1, <1>5, <2>1, <2>2 DEF ExecutingIsCurrent
  <2>3. CASE q # r
    BY <1>1, <2>1, <2>3 DEF SourceHistoryIsLinear
  <2> QED
    BY <2>2, <2>3
<1>7. ASSUME NEW q \in Completed', NEW o \in releases'[q].members
      PROVE  revs'[Revision(o)].base = Newest({x \in Completed : x < q /\ Shipped(x, SourceOfOp(o))})'
  <2>1. {x \in Completed' : x < q /\ Shipped(x, SourceOfOp(o))'} = Before(q, SourceOfOp(o))
    BY <1>4
  <2> QED
    BY <1>3, <1>6, <2>1 DEF Newest
<1> QED
  BY <1>7 DEF SourceHistoryIsLinear

LEMMA HistoryStep ==
    ASSUME ReviewInv, ReviewTypeOK', [Next]_vars
    PROVE  SourceHistoryIsLinear'
<1>1. CASE \E r \in DOMAIN releases : Complete(r)
  BY <1>1, CompleteKeepsHistory
<1>2. CASE ~ \E r \in DOMAIN releases : Complete(r)
  <2> USE DEF ReviewInv
  <2>1. /\ Completed' = Completed /\ Completed \subseteq DOMAIN releases
        /\ \A x \in Completed : releases'[x].members = releases[x].members
    <3>1. CASE UNCHANGED releases
      BY <3>1 DEF Completed
    <3>2. CASE Prepare
      BY <3>2, PrepareFrame DEF Completed
    <3>3. ASSUME NEW r \in DOMAIN releases, Authorize(r) \/ Claim(r) \/ Fail(r) \/ Restore(r)
          PROVE  Completed' = Completed /\ \A x \in DOMAIN releases : releases'[x].members = releases[x].members
      <4>1. PICK from, to : to \in States /\ Move(r, from, to)
        BY <3>3 DEF Authorize, Claim, Fail, Restore, States
      <4> QED
        BY <3>3, <4>1, MoveFrame, MoveKeepsCompleted
    <3>4. Completed \subseteq DOMAIN releases
      BY DEF Completed
    <3> QED
      BY <1>2, <3>1, <3>2, <3>3, <3>4 DEF Next, vars, RecordRevision, SaveDraft, Submit,
         BuildCandidate, Abandon
  <2>2. ASSUME NEW q \in Completed, NEW o \in releases[q].members
        PROVE  revs'[Revision(o)].base = revs[Revision(o)].base
    <3>1. Revision(o) \in DOMAIN revs
      BY <2>1, SourceIsSource DEF MembersAreAccepted
    <3> QED
      BY <3>1, RevisionsStay
  <2>3. ASSUME NEW x \in Completed, NEW s
        PROVE  Shipped(x, s)' <=> Shipped(x, s)
    BY <2>1 DEF Shipped, SourceOfOp
  <2>4. ASSUME NEW q \in Completed, NEW s
        PROVE  {x \in Completed' : x < q /\ Shipped(x, s)'} = {x \in Completed : x < q /\ Shipped(x, s)}
    <3> HIDE DEF ReviewInv
    <3> QED
      BY <2>1, <2>3
  <2>5. ASSUME NEW q \in Completed', NEW o \in releases'[q].members
        PROVE  revs'[Revision(o)].base = Newest({x \in Completed : x < q /\ Shipped(x, SourceOfOp(o))})'
    <3>1. q \in Completed /\ o \in releases[q].members
      BY <2>1
    <3>2. revs[Revision(o)].base = Newest({x \in Completed : x < q /\ Shipped(x, SourceOfOp(o))})
      BY <3>1 DEF SourceHistoryIsLinear
    <3>3. {x \in Completed' : x < q /\ Shipped(x, SourceOfOp(o))'} = {x \in Completed : x < q /\ Shipped(x, SourceOfOp(o))}
      BY <2>4, <3>1
    <3> QED
      BY <2>2, <3>1, <3>2, <3>3 DEF Newest
  <2> QED
    BY <2>5 DEF SourceHistoryIsLinear
<1> QED
  BY <1>1, <1>2

-----------------------------------------------------------------------------
(* Superseded rows, and the theorems.                                      *)

LEMMA SubmitKeepsSuperseded ==
    ASSUME ReviewInv, ReviewTypeOK', NEW p \in Publishers, NEW S \in SUBSET DOMAIN revs, Submit(p, S)
    PROVE  SupersededIsOutdated'
<1> USE DEF ReviewInv
<1>1. revs' = revs /\ lifecycle' = AfterSubmit(S)
  BY DEF Submit
<1>2. \A i \in S : Latest(i)
  BY DEF Submit, Stale
<1>3. ASSUME NEW o \in Ops, lifecycle'[o] = "superseded", lifecycle[o] = "unpublished"
      PROVE  ~Latest(Revision(o))
  <2>1. PICK i \in S : revs[i].source = SourceOfOp(o)
    BY <1>1, <1>3 DEF AfterSubmit
  <2>2. o \in SubmittedOps
    BY <1>3 DEF IntegrityHolds, FrontierIsIntact, ReceiptsAreIntact, MarkersAreIntact, ReleasesAreIntact
  <2>3. Revision(o) \in DOMAIN revs /\ revs[Revision(o)].source = SourceOfOp(o)
    BY <2>2, SourceIsSource
  <2>4. Revision(o) \notin S
    BY <2>2, SubmitFrame
  <2>5. Revision(o) <= i
    BY <1>2, <2>1, <2>3 DEF Latest
  <2>6. i \in Nat /\ Revision(o) \in Nat
    BY <2>3, RowsAre
  <2>7. ~(i <= Revision(o))
    BY <2>4, <2>5, <2>6
  <2> QED
    BY <2>1, <2>3, <2>7 DEF Latest
<1>4. \A o \in Ops : lifecycle'[o] = "superseded" => lifecycle[o] \in {"superseded", "unpublished"}
  BY <1>1 DEF AfterSubmit
<1>5. \A o \in Ops : lifecycle'[o] = "superseded" => ~Latest(Revision(o))
  BY <1>3, <1>4 DEF SupersededIsOutdated
<1> QED
  BY <1>1, <1>5 DEF SupersededIsOutdated, Latest

LEMMA SupersededStep ==
    ASSUME ReviewInv, ReviewTypeOK', [Next]_vars
    PROVE  SupersededIsOutdated'
<1>1. ASSUME NEW p \in Publishers, NEW S \in SUBSET DOMAIN revs, Submit(p, S)
      PROVE  SupersededIsOutdated'
  BY <1>1, SubmitKeepsSuperseded
<1>2. CASE \A o \in Ops : lifecycle'[o] = "superseded" => lifecycle[o] = "superseded"
  <2> USE DEF ReviewInv
  <2>1. ASSUME NEW o \in Ops, lifecycle'[o] = "superseded"
        PROVE  ~Latest(Revision(o))'
    <3>1. ~Latest(Revision(o)) /\ o \in SubmittedOps
      BY <1>2, <2>1
           DEF SupersededIsOutdated, IntegrityHolds, FrontierIsIntact, ReceiptsAreIntact, MarkersAreIntact, ReleasesAreIntact
    <3>2. Revision(o) \in DOMAIN revs
      BY <3>1, SourceIsSource
    <3>3. PICK j \in DOMAIN revs : revs[j].source = revs[Revision(o)].source /\ ~(j <= Revision(o))
      BY <3>1 DEF Latest
    <3>4. revs'[j] = revs[j] /\ revs'[Revision(o)] = revs[Revision(o)] /\ j \in DOMAIN revs'
      BY <3>2, RevisionsStay
    <3> QED
      BY <3>3, <3>4 DEF Latest
  <2> QED
    BY <2>1 DEF SupersededIsOutdated
<1>3. CASE UNCHANGED lifecycle
  BY <1>2, <1>3
<1>4. ASSUME NEW r \in DOMAIN releases, Complete(r)
      PROVE  SupersededIsOutdated'
  BY <1>2, <1>4 DEF Complete
<1> QED
  BY <1>1, <1>3, <1>4 DEF Next, vars, RecordRevision, SaveDraft, BuildCandidate, Abandon, Prepare,
     Authorize, Claim, Fail, Restore

LEMMA ReviewInvInit == Init => ReviewInv
<1> SUFFICES ASSUME Init PROVE ReviewInv
  OBVIOUS
<1>1. ReviewTypeOK
  BY TypeInit
<1>2. DOMAIN revs = {} /\ DOMAIN releases = {} /\ Completed = {} /\ Active = {} /\ built = None
  BY DEF Init, Completed, Active
<1>3. SubmittedOps = {}
  BY <1>2 DEF SubmittedOps
<1>4. \A i \in Revisions : ~Submitted(i)
  BY DEF Init, Submitted
<1>5. \A o \in Ops : lifecycle[o] = "none" /\ marker[o] = 0
  BY DEF Init
<1>6. IntegrityHolds
  BY <1>2, <1>3, <1>4, <1>5
       DEF IntegrityHolds, FrontierIsIntact, ReceiptsAreIntact, MarkersAreIntact, ReleasesAreIntact
<1> QED
  BY <1>1, <1>2, <1>5, <1>6 DEF ReviewInv, MembersAreAccepted, ActiveIsLast, BuiltOnFrontier,
     ShippedOnFrontier,
     ExecutingIsCurrent, SourceHistoryIsLinear, SupersededIsOutdated

LEMMA ReviewInvStep == ReviewInv /\ [Next]_vars => ReviewInv'
<1> SUFFICES ASSUME ReviewInv, [Next]_vars PROVE ReviewInv'
  OBVIOUS
<1>1. ReviewTypeOK'
  BY TypeStep DEF ReviewInv
<1> QED
  BY <1>1, IntegrityStep, MembersStep, PlacesStep, ExecutingStep, HistoryStep, SupersededStep
     DEF ReviewInv

LEMMA ReviewInvAlways == Spec => []ReviewInv
  BY ReviewInvInit, ReviewInvStep, PTL DEF Spec

\* The integrity gate of the operation frontier never closes: receipts, markers and
\* completed releases agree after any sequence of reviews and releases.
THEOREM FrontierStaysIntact == Spec => []IntegrityHolds
<1>1. ReviewInv => IntegrityHolds
  BY DEF ReviewInv
<1> QED
  BY <1>1, ReviewInvAlways, PTL

\* What is published was accepted in a submitted review, and is never structural.
THEOREM OnlyAcceptedShips == Spec => []ShippedWasAccepted
<1>1. ReviewInv => ShippedWasAccepted
  <2> SUFFICES ASSUME ReviewInv, NEW o \in Ops, marker[o] # 0
               PROVE  Submitted(Revision(o)) /\ Answer(o) = "accepted" /\ Unit(o) \notin Structural
    BY DEF ShippedWasAccepted
  <2>1. marker[o] \in Completed /\ releases[marker[o]].members = {m \in Ops : marker[m] = marker[o]}
    BY DEF ReviewInv, IntegrityHolds, FrontierIsIntact, ReceiptsAreIntact, MarkersAreIntact,
       ReleasesAreIntact
  <2>2. marker[o] \in DOMAIN releases /\ o \in releases[marker[o]].members
    BY <2>1 DEF Completed
  <2>3. o \in SubmittedOps /\ Answer(o) = "accepted" /\ Unit(o) \notin Structural
    BY <2>2 DEF ReviewInv, MembersAreAccepted
  <2> QED
    BY <2>3, SubmittedOpsAre DEF ReviewInv, Submitted
<1> QED
  BY <1>1, ReviewInvAlways, PTL

\* The revisions of a source ship one on top of the other, whatever other sources do.
THEOREM SourcesShipInOrder == Spec => []SourceHistoryIsLinear
<1>1. ReviewInv => SourceHistoryIsLinear
  BY DEF ReviewInv
<1> QED
  BY <1>1, ReviewInvAlways, PTL

\* Each candidate that ships was built on the one it replaces, though no request
\* compares the two: one executor and a recomputed membership are enough.
THEOREM NothingIsTakenBack == Spec => []ShippedOnFrontier
<1>1. ReviewInv => ShippedOnFrontier
  BY DEF ReviewInv
<1> QED
  BY <1>1, ReviewInvAlways, PTL

\* A release is claimed only while every decision in it is the current one.
THEOREM ClaimsAreCurrent == Spec => ClaimedReviewIsCurrent
<1>1. ReviewInv /\ ReviewInv' /\ [Next]_vars =>
        [\A r \in DOMAIN releases :
          releases[r].state # "executing" /\ releases'[r].state = "executing" =>
              \A o \in releases[r].members : lifecycle[o] = "unpublished" /\ Latest(Revision(o))]_vars
  <2> SUFFICES ASSUME ReviewInv, ReviewInv', [Next]_vars, NEW r \in DOMAIN releases,
                      releases[r].state # "executing", releases'[r].state = "executing",
                      NEW o \in releases[r].members
               PROVE  lifecycle[o] = "unpublished" /\ Latest(Revision(o))
    OBVIOUS
  <2> USE DEF ReviewInv
  <2>1. r \in DOMAIN releases'
    <3>1. CASE UNCHANGED releases
      BY <3>1
    <3>2. CASE Prepare
      BY <3>2, PrepareFrame
    <3>3. ASSUME NEW q \in DOMAIN releases, Authorize(q) \/ Claim(q) \/ Fail(q) \/ Restore(q) \/ Complete(q)
          PROVE  r \in DOMAIN releases'
      <4>1. PICK from, to : to \in States /\ Move(q, from, to)
        BY <3>3 DEF Authorize, Claim, Fail, Restore, Complete, States
      <4> QED
        BY <4>1, MoveFrame
    <3> QED
      BY <3>1, <3>2, <3>3 DEF Next, vars, RecordRevision, SaveDraft, Submit, BuildCandidate, Abandon
  <2>2. Claim(r)
    BY <2>1, ExecutingFrame
  <2>3. ~Stale(Revision(o)) /\ r \in Active
    BY <2>2 DEF Claim, ReviewIsCurrent, Move, Active, Settled
  <2>4. Latest(Revision(o))
    BY <2>3 DEF Stale
  <2>5. o \in SubmittedOps /\ marker[o] = 0 /\ o \in Ops
    BY <2>3, SourceIsSource DEF MembersAreAccepted, ActiveIsLast
  <2>6. lifecycle[o] \in {"none", "unpublished", "superseded", "published"}
    BY <2>5 DEF ReviewTypeOK
  <2>7. lifecycle[o] # "none" /\ lifecycle[o] # "published"
    BY <2>5 DEF IntegrityHolds, FrontierIsIntact, ReceiptsAreIntact, MarkersAreIntact, ReleasesAreIntact
  <2>8. lifecycle[o] # "superseded"
    BY <2>4, <2>5 DEF SupersededIsOutdated
  <2> QED
    BY <2>4, <2>6, <2>7, <2>8
<1> QED
  BY <1>1, ReviewInvAlways, PTL DEF Spec, ClaimedReviewIsCurrent

-----------------------------------------------------------------------------
(* The evidence for what was applied.                                      *)

(* The inductive invariant.                                                *)

RowRecords == [status : RowStates, batch : 0..LastBatch]
BatchRecords == [phase : Phases, base : Commits, commit : Commits, landed : Commits, prod : BOOLEAN]

\* What the proof needs of the types: not the commit of a revision.
CoverTyped ==
    /\ head \in Commits /\ head # 0 /\ reviewing \in BOOLEAN /\ frontier \in BOOLEAN
    /\ row \in [Rows -> RowRecords] /\ batch \in [Batches -> BatchRecords]
    /\ \A v \in revisions : v.ids \subseteq Rows
    /\ receipts \in [Rows -> Commits] /\ excluded \subseteq Rows

\* A suggestion is where the phase of its batch says.
RowsFit ==
    \A r \in Rows :
        /\ row[r].status = "accepted" => row[r].batch = 0
        /\ row[r].status # "accepted" => row[r].batch \in Batches
        /\ row[r].status = "in_flight" => batch[row[r].batch].phase \in {"claimed", "merged"}
        /\ row[r].status = "applied" => batch[row[r].batch].phase \in {"evidence_missing", "done"}

\* What was merged has a commit, and no run knew of a frontier before reviews were recorded.
MergedHasCommit ==
    \A b \in Batches : batch[b].phase \in {"merged", "evidence_missing", "done"} => batch[b].landed # 0
ReviewedFromTheStart == (frontier => reviewing) /\ \A b \in Batches : batch[b].prod => reviewing

RunInv == CoverTyped /\ RowsFit /\ MergedHasCommit /\ ReviewedFromTheStart

\* The suggestions of finished batches, which alone can be accounted for.
DoneRows == {r \in Applied : batch[row[r].batch].phase = "done"}

\* Whatever accounts for a suggestion came after its batch was done.
EvidenceIsLate ==
    /\ Receipted \subseteq DoneRows /\ excluded \subseteq DoneRows /\ Reviewed \subseteq DoneRows
    /\ \A r \in Receipted : batch[row[r].batch].commit = receipts[r]

\* One kind of evidence for each. Exclusions come with the one migration there is.
EvidenceIsSingle ==
    /\ Receipted \cap (excluded \cup Reviewed) = {} /\ excluded \cap Reviewed = {}
    /\ migrated \in BOOLEAN /\ (~migrated => excluded = {})

\* A finished run with a frontier accounted for what did not render alike.
DoneIsCovered ==
    \A r \in DoneRows : batch[row[r].batch].prod /\ Kinds[r] # "alike"
        => r \in Receipted \cup excluded \cup Reviewed

EvidenceInv == EvidenceIsLate /\ EvidenceIsSingle /\ NoChangeIsHidden /\ DoneIsCovered

CoverInv == RunInv /\ EvidenceInv

-----------------------------------------------------------------------------
(* The runs.                                                               *)

USE CoverageAssumption

LEMMA InitRuns == CoverInit => RunInv
<1> SUFFICES ASSUME CoverInit PROVE RunInv
  OBVIOUS
<1>1. 0 \in Commits /\ Prod \in Commits /\ Prod # 0
  BY DEF Commits, Prod
<1>2. CoverTyped
  <2>1. row \in [Rows -> RowRecords]
    BY DEF CoverInit, RowRecords, RowStates
  <2>2. batch \in [Batches -> BatchRecords]
    BY <1>1 DEF CoverInit, BatchRecords, Phases
  <2>3. /\ head = Prod /\ reviewing = FALSE /\ frontier = FALSE
        /\ revisions = {} /\ receipts \in [Rows -> Commits] /\ excluded = {}
    BY <1>1 DEF CoverInit
  <2> QED
    BY <1>1, <2>1, <2>2, <2>3 DEF CoverTyped
<1>3. RowsFit /\ MergedHasCommit /\ ReviewedFromTheStart
  BY DEF CoverInit, RowsFit, MergedHasCommit, ReviewedFromTheStart
<1> QED
  BY <1>2, <1>3 DEF RunInv

LEMMA BatchMoves ==
  ASSUME CoverTyped, NEW b \in Batches, NEW new \in BatchRecords, batch' = [batch EXCEPT ![b] = new]
  PROVE  /\ batch' \in [Batches -> BatchRecords] /\ batch'[b] = new
         /\ \A a \in Batches : a # b => batch'[a] = batch[a]
BY DEF CoverTyped

LEMMA ClaimKeepsRuns ==
  ASSUME RunInv, NEW ids \in SUBSET Rows, ClaimRows(ids)
  PROVE  RunInv'
<1> USE DEF RunInv
<1>1. PICK b \in Batches :
        /\ batch[b].phase = "none"
        /\ row' = [r \in Rows |-> IF r \in ids THEN [status |-> "in_flight", batch |-> b] ELSE row[r]]
        /\ batch' = [batch EXCEPT ![b].phase = "claimed", ![b].base = head, ![b].prod = frontier]
  BY DEF ClaimRows
<1> DEFINE new == [batch[b] EXCEPT !.phase = "claimed", !.base = head, !.prod = frontier]
<1>2. batch[b] \in BatchRecords
  BY DEF CoverTyped
<1>3. new \in BatchRecords /\ new.phase = "claimed" /\ new.prod = frontier
  BY <1>2 DEF CoverTyped, BatchRecords, Phases
<1>4. batch' = [batch EXCEPT ![b] = new]
  BY <1>1
<1> HIDE DEF new
<1>5. /\ batch' \in [Batches -> BatchRecords] /\ batch'[b] = new
      /\ \A a \in Batches : a # b => batch'[a] = batch[a]
  BY <1>3, <1>4, BatchMoves
<1>6. UNCHANGED <<head, reviewing, frontier, revisions, receipts, excluded>>
  BY DEF ClaimRows, reviewVars
<1>7. CoverTyped'
  <2>1. row' \in [Rows -> RowRecords]
    BY <1>1 DEF CoverTyped, RowRecords, RowStates, Batches
  <2> QED
    BY <1>5, <1>6, <2>1 DEF CoverTyped
<1>8. RowsFit'
  <2>1. ASSUME NEW r \in Rows, r \in ids
        PROVE  row'[r].status = "in_flight" /\ row'[r].batch = b
    BY <1>1, <2>1
  <2>2. ASSUME NEW r \in Rows, r \notin ids
        PROVE  row'[r] = row[r] /\ (row[r].status \in {"in_flight", "applied"} => row[r].batch # b)
    BY <1>1, <2>2 DEF RowsFit
  <2>3. \A r \in Rows : row[r].status \in {"accepted", "in_flight", "applied"}
    BY DEF CoverTyped, RowRecords, RowStates
  <2> QED
    BY <1>3, <1>5, <2>1, <2>2, <2>3 DEF RowsFit
<1>9. MergedHasCommit' /\ ReviewedFromTheStart'
  BY <1>3, <1>5, <1>6 DEF MergedHasCommit, ReviewedFromTheStart
<1> QED
  BY <1>7, <1>8, <1>9

\* A batch moves on together with its suggestions, and no other suggestion moves.
LEMMA PhaseKeepsRuns ==
  ASSUME RunInv, NEW b \in Batches, NEW new \in BatchRecords, batch' = [batch EXCEPT ![b] = new],
         head' \in Commits, head' # 0, UNCHANGED <<reviewing, frontier>>, new.prod = batch[b].prod,
         new.phase \in {"merged", "evidence_missing", "done"} => new.landed # 0,
         \/ new.phase = "merged" /\ batch[b].phase = "claimed" /\ row' = row
         \/ /\ new.phase = "rolled_back" /\ batch[b].phase = "claimed"
            /\ row' = [r \in Rows |-> IF r \in RowsOf(b) THEN [status |-> "accepted", batch |-> 0] ELSE row[r]]
         \/ /\ new.phase \in {"evidence_missing", "done"} /\ batch[b].phase \in {"merged", "evidence_missing"}
            /\ row' = AppliedNow(b),
         \A v \in revisions' : v.ids \subseteq Rows, receipts' \in [Rows -> Commits], excluded' \subseteq Rows
  PROVE  RunInv'
<1> USE DEF RunInv
<1>1. /\ batch' \in [Batches -> BatchRecords] /\ batch'[b] = new
      /\ \A a \in Batches : a # b => batch'[a] = batch[a]
  BY BatchMoves
<1>2. row' \in [Rows -> RowRecords]
  BY DEF CoverTyped, RowRecords, RowStates, AppliedNow
<1>3. CoverTyped'
  BY <1>1, <1>2 DEF CoverTyped
<1>4. MergedHasCommit' /\ ReviewedFromTheStart'
  BY <1>1 DEF MergedHasCommit, ReviewedFromTheStart
<1>5. \A r \in Rows : row[r] \in RowRecords /\ row[r].status \in {"accepted", "in_flight", "applied"}
  BY DEF CoverTyped, RowRecords, RowStates
<1>6. \A r \in Rows : r \notin RowsOf(b) => row'[r] = row[r] /\ row[r].batch # b
  BY DEF RowsOf, AppliedNow
<1>7. \A r \in RowsOf(b) :
        /\ new.phase = "merged" => row'[r] = row[r] /\ row[r].status = "in_flight" /\ row[r].batch = b
        /\ new.phase = "rolled_back" => row'[r].status = "accepted" /\ row'[r].batch = 0
        /\ new.phase \in {"evidence_missing", "done"} => row'[r].status = "applied" /\ row'[r].batch = b
  <2>1. ASSUME NEW r \in RowsOf(b), new.phase = "merged" PROVE row'[r] = row[r] /\ row[r].status = "in_flight" /\ row[r].batch = b
    <3>1. r \in Rows /\ row[r].batch = b /\ b # 0
      BY DEF RowsOf, Batches
    <3> QED
      BY <1>5, <2>1, <3>1 DEF RowsFit
  <2>2. ASSUME NEW r \in RowsOf(b), new.phase = "rolled_back" PROVE row'[r].status = "accepted" /\ row'[r].batch = 0
    BY <2>2 DEF RowsOf
  <2>3. ASSUME NEW r \in RowsOf(b), new.phase \in {"evidence_missing", "done"}
        PROVE  row'[r].status = "applied" /\ row'[r].batch = b
    <3>1. r \in Rows /\ row[r].batch = b /\ row[r] \in RowRecords
      BY <1>5 DEF RowsOf
    <3>2. row'[r] = [row[r] EXCEPT !.status = "applied"]
      BY <2>3, <3>1 DEF AppliedNow
    <3> QED
      BY <3>1, <3>2 DEF RowRecords
  <2> QED
    BY <2>1, <2>2, <2>3
<1>8. RowsFit'
  <2>1. ASSUME NEW r \in Rows
        PROVE  /\ row'[r].status = "accepted" => row'[r].batch = 0
               /\ row'[r].status # "accepted" => row'[r].batch \in Batches
               /\ row'[r].status = "in_flight" => batch'[row'[r].batch].phase \in {"claimed", "merged"}
               /\ row'[r].status = "applied" => batch'[row'[r].batch].phase \in {"evidence_missing", "done"}
    <3>1. CASE r \in RowsOf(b)
      BY <1>1, <1>7, <3>1
    <3>2. CASE r \notin RowsOf(b)
      BY <1>1, <1>6, <3>2 DEF RowsFit
    <3> QED
      BY <3>1, <3>2
  <2> QED
    BY <2>1 DEF RowsFit
<1> QED
  BY <1>3, <1>4, <1>8

\* A step that leaves the suggestions and the phases alone.
LEMMA StillKeepsRuns ==
  ASSUME RunInv, row' = row, batch' \in [Batches -> BatchRecords],
         \A b \in Batches : /\ batch'[b].phase = batch[b].phase /\ batch'[b].landed = batch[b].landed
                            /\ batch'[b].prod = batch[b].prod,
         head' \in Commits, head' # 0, reviewing' \in BOOLEAN, frontier' \in BOOLEAN,
         reviewing => reviewing', frontier' => reviewing',
         \A v \in revisions' : v.ids \subseteq Rows, receipts' \in [Rows -> Commits], excluded' \subseteq Rows
  PROVE  RunInv'
<1> USE DEF RunInv
<1>1. CoverTyped'
  BY DEF CoverTyped
<1>2. RowsFit'
  BY DEF RowsFit
<1>3. MergedHasCommit' /\ ReviewedFromTheStart'
  BY DEF MergedHasCommit, ReviewedFromTheStart
<1> QED
  BY <1>1, <1>2, <1>3

\* What each action does to its batch.
LEMMA MoveShapes ==
  ASSUME RunInv, NEW b \in Batches,
         DropBatch(b) \/ MergeBatch(b) \/ SweepBatch(b) \/ FinishBatch(b) \/ FinishBare(b)
  PROVE  \E new \in BatchRecords :
           /\ batch' = [batch EXCEPT ![b] = new]
           /\ head' \in Commits /\ head' # 0 /\ UNCHANGED <<reviewing, frontier>>
           /\ new.prod = batch[b].prod
           /\ new.phase \in {"merged", "evidence_missing", "done"} => new.landed # 0
           /\ \/ new.phase = "merged" /\ batch[b].phase = "claimed" /\ row' = row
              \/ /\ new.phase = "rolled_back" /\ batch[b].phase = "claimed"
                 /\ row' = [r \in Rows |-> IF r \in RowsOf(b) THEN [status |-> "accepted", batch |-> 0] ELSE row[r]]
              \/ /\ new.phase \in {"evidence_missing", "done"} /\ batch[b].phase \in {"merged", "evidence_missing"}
                 /\ row' = AppliedNow(b)
           /\ FinishBatch(b) => new.phase = "done" /\ new.commit = batch[b].landed
           /\ new.phase = "done" => FinishBatch(b) \/ ~reviewing
<1>0. /\ batch[b] \in BatchRecords /\ head \in Commits /\ head # 0
      /\ batch[b].phase \in {"merged", "evidence_missing"} => batch[b].landed # 0
  BY DEF RunInv, CoverTyped, MergedHasCommit
<1>1. CASE DropBatch(b)
  <2> DEFINE new == [batch[b] EXCEPT !.phase = "rolled_back"]
  <2>1. /\ new \in BatchRecords /\ new.phase = "rolled_back" /\ new.prod = batch[b].prod
    BY <1>0 DEF BatchRecords, Phases
  <2>2. /\ batch' = [batch EXCEPT ![b] = new] /\ batch[b].phase = "claimed" /\ ~FinishBatch(b)
        /\ row' = [r \in Rows |-> IF r \in RowsOf(b) THEN [status |-> "accepted", batch |-> 0] ELSE row[r]]
        /\ UNCHANGED <<head, reviewing, frontier>>
    BY <1>1 DEF DropBatch, FinishBatch
  <2> HIDE DEF new
  <2> QED
    BY <1>0, <2>1, <2>2
<1>2. CASE MergeBatch(b)
  <2> DEFINE new == [batch[b] EXCEPT !.phase = "merged", !.landed = head + 1]
  <2>1. head + 1 \in Commits /\ head + 1 # 0
    BY <1>0, <1>2 DEF MergeBatch, Commits
  <2>2. /\ new \in BatchRecords /\ new.phase = "merged" /\ new.prod = batch[b].prod
        /\ new.landed = head + 1
    BY <1>0, <2>1 DEF BatchRecords, Phases
  <2>3. /\ batch' = [batch EXCEPT ![b] = new] /\ batch[b].phase = "claimed" /\ ~FinishBatch(b)
        /\ row' = row /\ head' = head + 1 /\ UNCHANGED <<reviewing, frontier>>
    BY <1>2 DEF MergeBatch, FinishBatch
  <2> HIDE DEF new
  <2> QED
    BY <2>1, <2>2, <2>3
<1>3. CASE SweepBatch(b)
  <2> DEFINE new == [batch[b] EXCEPT !.phase = "evidence_missing"]
  <2>1. /\ new \in BatchRecords /\ new.phase = "evidence_missing" /\ new.prod = batch[b].prod
        /\ new.landed = batch[b].landed
    BY <1>0 DEF BatchRecords, Phases
  <2>2. /\ batch' = [batch EXCEPT ![b] = new] /\ batch[b].phase = "merged" /\ row' = AppliedNow(b)
        /\ UNCHANGED <<head, reviewing, frontier>>
    BY <1>3 DEF SweepBatch
  <2>3. batch'[b] = new
    BY <2>2 DEF RunInv, CoverTyped
  <2> HIDE DEF new
  <2>4. ~FinishBatch(b)
    <3>1. FinishBatch(b) => batch'[b].phase = "done"
      BY DEF FinishBatch, RunInv, CoverTyped, BatchRecords
    <3> QED
      BY <2>1, <2>3, <3>1
  <2> QED
    BY <1>0, <2>1, <2>2, <2>4
<1>4. CASE FinishBatch(b)
  <2> DEFINE new == [batch[b] EXCEPT !.phase = "done", !.commit = batch[b].landed]
  <2>1. /\ new \in BatchRecords /\ new.phase = "done" /\ new.prod = batch[b].prod
        /\ new.landed = batch[b].landed /\ new.commit = batch[b].landed
    BY <1>0 DEF BatchRecords, Phases
  <2>2. /\ batch' = [batch EXCEPT ![b] = new] /\ batch[b].phase \in {"merged", "evidence_missing"}
        /\ row' = AppliedNow(b) /\ reviewing /\ UNCHANGED <<head, reviewing, frontier>>
    BY <1>4 DEF FinishBatch
  <2> HIDE DEF new
  <2> QED
    BY <1>0, <1>4, <2>1, <2>2
<1>5. CASE FinishBare(b)
  <2>1. PICK commit \in {0, batch[b].landed} :
          batch' = [batch EXCEPT ![b].phase = "done", ![b].commit = commit]
    BY <1>5 DEF FinishBare
  <2> DEFINE new == [batch[b] EXCEPT !.phase = "done", !.commit = commit]
  <2>2. 0 \in Commits
    BY DEF Commits
  <2>3. /\ new \in BatchRecords /\ new.phase = "done" /\ new.prod = batch[b].prod
        /\ new.landed = batch[b].landed
    BY <1>0, <2>2 DEF BatchRecords, Phases
  <2>4. /\ batch' = [batch EXCEPT ![b] = new] /\ batch[b].phase \in {"merged", "evidence_missing"}
        /\ row' = AppliedNow(b) /\ ~reviewing /\ UNCHANGED <<head, reviewing, frontier>>
        /\ ~FinishBatch(b)
    BY <1>5, <2>1 DEF FinishBare, FinishBatch
  <2> HIDE DEF new
  <2> QED
    BY <1>0, <2>3, <2>4
<1> QED
  BY <1>1, <1>2, <1>3, <1>4, <1>5

-----------------------------------------------------------------------------
(* The evidence.                                                           *)

\* A suggestion is reviewed that a revision lists.
LEMMA WhatIsReviewed ==
  ASSUME NEW new, revisions' = revisions \cup new
  PROVE  /\ \A r : r \in Reviewed <=> \E v \in revisions : r \in v.ids
         /\ \A r : r \in Reviewed' <=> r \in Reviewed \/ \E v \in new : r \in v.ids
<1>1. \A r : r \in Reviewed <=> \E v \in revisions : r \in v.ids
  BY DEF Reviewed
<1>2. \A r : r \in Reviewed' <=> \E v \in revisions' : r \in v.ids
  BY DEF Reviewed
<1> QED
  BY <1>1, <1>2

LEMMA InitEvidence == CoverInit => EvidenceInv
<1> SUFFICES ASSUME CoverInit PROVE EvidenceInv
  OBVIOUS
<1>1. Receipted = {} /\ excluded = {} /\ Reviewed = {} /\ DoneRows = {} /\ migrated = FALSE
  BY DEF CoverInit, Receipted, Reviewed, DoneRows, Applied
<1> QED
  BY <1>1 DEF EvidenceInv, EvidenceIsLate, EvidenceIsSingle, NoChangeIsHidden, DoneIsCovered

\* Steps that record nothing: what is done stays, what gets done had no frontier.
LEMMA RunsKeepEvidence ==
  ASSUME CoverInv, UNCHANGED reviewVars,
         \A r \in DoneRows : /\ row'[r] = row[r]
                         /\ batch'[row[r].batch].phase = "done"
                         /\ batch'[row[r].batch].commit = batch[row[r].batch].commit
                         /\ batch'[row[r].batch].prod = batch[row[r].batch].prod,
         \A r \in Rows \ DoneRows : row'[r].status = "applied" /\ batch'[row'[r].batch].phase = "done"
                                   => ~batch'[row'[r].batch].prod
  PROVE  EvidenceInv'
<1>1. Receipted' = Receipted /\ excluded' = excluded /\ Reviewed' = Reviewed
      /\ migrated' = migrated /\ receipts' = receipts
  BY DEF reviewVars, Receipted, Reviewed
<1>2. DoneRows \subseteq DoneRows' /\ DoneRows \subseteq Rows /\ DoneRows' \subseteq Rows
  BY DEF DoneRows, Applied
<1>3. EvidenceIsLate'
  BY <1>1, <1>2 DEF CoverInv, EvidenceInv, EvidenceIsLate
<1>4. EvidenceIsSingle' /\ NoChangeIsHidden'
  BY <1>1 DEF CoverInv, EvidenceInv, EvidenceIsSingle, NoChangeIsHidden
<1>5. DoneIsCovered'
  <2>1. ASSUME NEW r \in DoneRows', batch'[row'[r].batch].prod PROVE r \in DoneRows /\ batch[row[r].batch].prod
    BY <1>2, <2>1 DEF DoneRows, Applied
  <2> QED
    BY <1>1, <2>1 DEF CoverInv, EvidenceInv, DoneIsCovered
<1> QED
  BY <1>3, <1>4, <1>5 DEF EvidenceInv

\* A finished run covers its own suggestions and touches no other.
LEMMA FinishKeepsEvidence ==
  ASSUME CoverInv, NEW b \in Batches, FinishBatch(b)
  PROVE  EvidenceInv'
<1>1. /\ row \in [Rows -> RowRecords] /\ receipts \in [Rows -> Commits] /\ batch[b].landed # 0
      /\ batch \in [Batches -> BatchRecords] /\ batch[b] \in BatchRecords
  BY DEF CoverInv, RunInv, CoverTyped, FinishBatch, MergedHasCommit
<1>2. /\ \A r \in Rows \ RowsOf(b) : row'[r] = row[r] /\ row[r].batch # b
      /\ \A r \in RowsOf(b) : r \in Rows /\ row[r].batch = b /\ row'[r].batch = b /\ row'[r].status = "applied"
  <2>1. row' = AppliedNow(b)
    BY DEF FinishBatch
  <2> QED
    BY <1>1, <2>1 DEF AppliedNow, RowsOf, RowRecords
<1>3. /\ batch'[b].phase = "done" /\ batch'[b].commit = batch[b].landed /\ batch'[b].prod = batch[b].prod
      /\ batch[b].phase # "done" /\ \A a \in Batches : a # b => batch'[a] = batch[a]
  <2> DEFINE new == [batch[b] EXCEPT !.phase = "done", !.commit = batch[b].landed]
  <2>1. batch' = [batch EXCEPT ![b] = new] /\ batch[b].phase # "done"
    BY DEF FinishBatch
  <2>2. new.phase = "done" /\ new.commit = batch[b].landed /\ new.prod = batch[b].prod
    BY <1>1 DEF BatchRecords
  <2> QED
    BY <1>1, <2>1, <2>2
<1>4. \A r \in DoneRows : r \in Rows /\ row[r].batch \in Batches /\ r \notin RowsOf(b)
  BY <1>3 DEF DoneRows, Applied, RowsOf, CoverInv, RunInv, RowsFit
<1>5. /\ \A r \in DoneRows : r \in DoneRows' /\ row'[r] = row[r] /\ batch'[row[r].batch] = batch[row[r].batch]
      /\ RowsOf(b) \subseteq DoneRows'
      /\ \A r \in DoneRows' : r \in DoneRows \cup RowsOf(b)
  <2>1. \A r \in DoneRows : row'[r] = row[r] /\ batch'[row[r].batch] = batch[row[r].batch]
    BY <1>2, <1>3, <1>4 DEF RowsOf
  <2>2. \A r \in DoneRows : r \in DoneRows'
    BY <2>1 DEF DoneRows, Applied
  <2>3. RowsOf(b) \subseteq DoneRows'
    BY <1>2, <1>3 DEF DoneRows, Applied
  <2>4. ASSUME NEW r \in DoneRows', r \notin RowsOf(b) PROVE r \in DoneRows
    <3>1. r \in Rows /\ row'[r] = row[r] /\ row[r].batch # b /\ row[r].status = "applied"
      BY <1>2, <2>4 DEF DoneRows, Applied
    <3>2. batch'[row[r].batch] = batch[row[r].batch]
      BY <1>3, <3>1 DEF CoverInv, RunInv, RowsFit
    <3> QED
      BY <2>4, <3>1, <3>2 DEF DoneRows, Applied
  <2> QED
    BY <2>1, <2>2, <2>3, <2>4
<1>6. /\ \A r : r \in Reviewed' <=> r \in Reviewed \/ \E v \in RevisionsOf(b) : r \in v.ids
      /\ excluded' = excluded /\ migrated' = migrated
  BY WhatIsReviewed DEF FinishBatch
<1>7. \A r : (\E v \in RevisionsOf(b) : r \in v.ids) => r \in RowsOf(b)
  BY DEF RevisionsOf
<1>8. /\ \A r \in Rows : receipts[r] # 0 => receipts'[r] = receipts[r]
      /\ \A r \in Rows : receipts[r] = 0 /\ receipts'[r] # 0 =>
            r \in RowsOf(b) /\ Kinds[r] = "same" /\ r \notin excluded /\ r \notin Reviewed'
            /\ receipts'[r] = batch[b].landed
      /\ \A r \in RowsOf(b) : Kinds[r] = "same" /\ r \notin excluded /\ r \notin Reviewed' => receipts'[r] # 0
  <2>1. \A r \in Rows : receipts'[r] =
           IF r \in RowsOf(b) /\ Kinds[r] = "same" /\ r \notin excluded /\ r \notin Reviewed'
           THEN batch[b].landed ELSE receipts[r]
    BY DEF FinishBatch, Reviewed
  <2>2. \A r \in Rows : receipts[r] # 0 => r \notin RowsOf(b)
    BY <1>4 DEF CoverInv, EvidenceInv, EvidenceIsLate, Receipted
  <2> QED
    BY <1>1, <1>2, <2>1, <2>2
<1>9. Receipted \subseteq Receipted' /\ \A r \in Receipted' : r \in Rows /\ (r \in Receipted \/ r \in RowsOf(b))
  BY <1>8 DEF Receipted
<1>10. EvidenceIsLate'
  <2>1. Receipted' \subseteq DoneRows' /\ excluded' \subseteq DoneRows' /\ Reviewed' \subseteq DoneRows'
    BY <1>5, <1>6, <1>7, <1>9 DEF CoverInv, EvidenceInv, EvidenceIsLate
  <2>2. ASSUME NEW r \in Receipted' PROVE batch'[row'[r].batch].commit = receipts'[r]
    <3>1. CASE r \in Receipted
      BY <1>2, <1>5, <1>8, <3>1 DEF CoverInv, EvidenceInv, EvidenceIsLate, Receipted
    <3>2. CASE r \notin Receipted
      BY <1>2, <1>3, <1>8, <2>2, <3>2 DEF Receipted
    <3> QED
      BY <3>1, <3>2
  <2> QED
    BY <2>1, <2>2 DEF EvidenceIsLate
<1>11. EvidenceIsSingle'
  <2>1. ASSUME NEW r \in Receipted', r \in excluded \cup Reviewed' PROVE FALSE
    <3>1. CASE r \in Receipted
      BY <1>4, <1>6, <1>7, <2>1, <3>1 DEF CoverInv, EvidenceInv, EvidenceIsLate, EvidenceIsSingle
    <3>2. CASE r \notin Receipted
      BY <1>8, <2>1, <3>2 DEF Receipted
    <3> QED
      BY <3>1, <3>2
  <2>2. ASSUME NEW r \in excluded, r \in Reviewed' PROVE FALSE
    BY <1>4, <1>6, <1>7, <2>2 DEF CoverInv, EvidenceInv, EvidenceIsLate, EvidenceIsSingle
  <2> QED
    BY <1>6, <2>1, <2>2 DEF CoverInv, EvidenceInv, EvidenceIsSingle
<1>12. NoChangeIsHidden'
  BY <1>8 DEF CoverInv, EvidenceInv, NoChangeIsHidden, Receipted
<1>13. DoneIsCovered'
  <2>1. ASSUME NEW r \in DoneRows', batch'[row'[r].batch].prod, Kinds[r] # "alike"
        PROVE  r \in Receipted' \cup excluded' \cup Reviewed'
    <3>1. CASE r \in DoneRows
      BY <1>5, <1>6, <1>9, <2>1, <3>1 DEF CoverInv, EvidenceInv, DoneIsCovered
    <3>2. CASE r \notin DoneRows
      <4>1. r \in RowsOf(b) /\ r \in Rows /\ batch[b].prod /\ Kinds[r] \in {"same", "change"}
        BY <1>2, <1>3, <1>5, <2>1, <3>2
      <4>2. CASE Kinds[r] = "change"
        <5>1. \E v \in RevisionsOf(b) : r \in v.ids
          <6> DEFINE v == [spot |-> SpotOf[r], at |-> batch[b].landed,
                           ids |-> {q \in RowsOf(b) : SpotOf[q] = SpotOf[r]}]
          <6>1. v \in RevisionsOf(b)
            BY <4>1, <4>2 DEF RevisionsOf
          <6>2. r \in v.ids
            BY <4>1
          <6> QED
            BY <6>1, <6>2
        <5> QED
          BY <1>6, <5>1
      <4>3. CASE Kinds[r] = "same"
        BY <1>6, <1>8, <4>1, <4>3 DEF Receipted
      <4> QED
        BY <4>1, <4>2, <4>3
    <3> QED
      BY <3>1, <3>2
  <2> QED
    BY <2>1 DEF DoneIsCovered
<1> QED
  BY <1>10, <1>11, <1>12, <1>13 DEF EvidenceInv

\* The migrations and the reconciliation of no-ops take their suggestions from DoneRows.
LEMMA RowsDone ==
  ASSUME RunInv
  PROVE  \A r \in Applied : /\ r \in Rows /\ row[r].batch \in Batches
                            /\ (batch[row[r].batch].phase = "done" => r \in DoneRows)
BY DEF RunInv, RowsFit, Applied, DoneRows

LEMMA BackfillKeepsEvidence ==
  ASSUME CoverInv, ~MayMigrateLate, NEW spots, NEW chain \in SUBSET Batches, NEW at,
         Backfill(spots, chain, at)
  PROVE  EvidenceInv' /\ \A v \in revisions' : v.ids \subseteq Rows
<1> DEFINE Ids(s) == {r \in Applied \ excluded : SpotOf[r] = s /\ row[r].batch \in chain}
           new == {[spot |-> s, at |-> at, ids |-> Ids(s)] : s \in spots}
<1>1. /\ Receipted = {} /\ \A b \in chain : batch[b].phase = "done"
      /\ revisions' = revisions \cup new /\ migrated' = TRUE
      /\ UNCHANGED <<row, batch, receipts, excluded>>
  BY DEF Backfill, MayMigrate, IsChain
<1>2. \A v \in new : v.ids \subseteq DoneRows \ excluded /\ v.ids \subseteq Rows
  BY <1>1, RowsDone DEF CoverInv
<1>3. /\ \A r : r \in Reviewed' <=> r \in Reviewed \/ \E v \in new : r \in v.ids
      /\ Receipted' = {} /\ excluded' = excluded /\ DoneRows' = DoneRows
  <2>1. \A r : r \in Reviewed' <=> r \in Reviewed \/ \E v \in new : r \in v.ids
    BY <1>1, WhatIsReviewed
  <2>2. Receipted' = {} /\ excluded' = excluded /\ DoneRows' = DoneRows
    BY <1>1 DEF Receipted, DoneRows, Applied
  <2> QED
    BY <2>1, <2>2
<1> HIDE DEF new
<1>4. EvidenceIsLate' /\ EvidenceIsSingle'
  BY <1>1, <1>2, <1>3 DEF CoverInv, EvidenceInv, EvidenceIsLate, EvidenceIsSingle
<1>5. NoChangeIsHidden' /\ DoneIsCovered'
  BY <1>1, <1>3 DEF CoverInv, EvidenceInv, NoChangeIsHidden, DoneIsCovered
<1>6. \A v \in revisions' : v.ids \subseteq Rows
  BY <1>1, <1>2 DEF CoverInv, RunInv, CoverTyped
<1> QED
  BY <1>4, <1>5, <1>6 DEF EvidenceInv

LEMMA LegacyKeepsEvidence ==
  ASSUME CoverInv, ~MayMigrateLate, NEW out \in SUBSET Rows, LegacyReconcile(out)
  PROVE  /\ EvidenceInv' /\ \A v \in revisions' : v.ids \subseteq Rows
         /\ batch' \in [Batches -> BatchRecords] /\ row' = row
         /\ \A b \in Batches : /\ batch'[b].phase = batch[b].phase /\ batch'[b].landed = batch[b].landed
                               /\ batch'[b].prod = batch[b].prod
<1> DEFINE after == LegacyCommit(out)
           stay == Applied \ out
           At(s) == after[row[Max({r \in stay : SpotOf[r] = s})].batch].commit
           Of(s) == [spot |-> s, at |-> At(s), ids |-> {r \in stay : SpotOf[r] = s}]
           new == {Of(s) : s \in {SpotOf[r] : r \in stay}}
<1>1. /\ Receipted = {} /\ excluded = {} /\ out \subseteq Applied /\ out \cap Reviewed = {}
      /\ \A r \in Applied : batch'[row[r].batch].phase = "done"
      /\ batch' = after /\ revisions' = revisions \cup new /\ excluded' = out /\ migrated' = TRUE
      /\ UNCHANGED <<row, receipts>>
  BY DEF LegacyReconcile, MayMigrate, CoverInv, EvidenceInv, EvidenceIsSingle
<1>2. /\ batch' \in [Batches -> BatchRecords]
      /\ \A b \in Batches : /\ batch'[b].phase = batch[b].phase /\ batch'[b].landed = batch[b].landed
                            /\ batch'[b].prod = batch[b].prod
  <2>1. ASSUME NEW b \in Batches
        PROVE  /\ [batch[b] EXCEPT !.commit = batch[b].landed] \in BatchRecords /\ batch[b] \in BatchRecords
               /\ [batch[b] EXCEPT !.commit = batch[b].landed].phase = batch[b].phase
               /\ [batch[b] EXCEPT !.commit = batch[b].landed].landed = batch[b].landed
               /\ [batch[b] EXCEPT !.commit = batch[b].landed].prod = batch[b].prod
    <3>1. batch[b] \in BatchRecords
      BY DEF CoverInv, RunInv, CoverTyped
    <3> QED
      BY <3>1 DEF BatchRecords
  <2>2. \A b \in Batches : batch'[b] \in {batch[b], [batch[b] EXCEPT !.commit = batch[b].landed]}
    BY <1>1 DEF LegacyCommit
  <2>3. \A b \in Batches : batch'[b] \in BatchRecords
    BY <2>1, <2>2
  <2>4. batch' = [b \in Batches |-> batch'[b]]
    BY <1>1 DEF LegacyCommit
  <2>5. batch' \in [Batches -> BatchRecords]
    BY <2>3, <2>4
  <2> QED
    BY <2>1, <2>2, <2>5
<1>3. Applied = DoneRows /\ Applied' = Applied /\ DoneRows' = DoneRows
  <2>1. Applied' = Applied /\ \A r \in Applied : r \in DoneRows
    BY <1>1, <1>2, RowsDone DEF CoverInv, Applied
  <2>2. \A r \in Applied : r \in DoneRows'
    BY <1>1, <2>1 DEF DoneRows
  <2> QED
    BY <2>1, <2>2 DEF DoneRows
<1> HIDE DEF At
<1>4. \A v \in new : v.ids \subseteq stay
  OBVIOUS
<1>5. \A r \in stay : \E v \in new : r \in v.ids
  <2> TAKE r \in stay
  <2>1. Of(SpotOf[r]) \in new
    OBVIOUS
  <2>2. r \in Of(SpotOf[r]).ids
    OBVIOUS
  <2> QED
    BY <2>1, <2>2
<1>6. \A r : r \in Reviewed' <=> r \in Reviewed \/ \E v \in new : r \in v.ids
  BY <1>1, WhatIsReviewed
<1> HIDE DEF new, after
<1>7. Receipted' = {} /\ excluded' = out /\ stay \subseteq Rows /\ stay = DoneRows \ out
  BY <1>1, <1>3 DEF Receipted, Applied
<1>8. EvidenceIsLate' /\ EvidenceIsSingle'
  BY <1>1, <1>3, <1>4, <1>6, <1>7 DEF CoverInv, EvidenceInv, EvidenceIsLate, EvidenceIsSingle
<1>9. NoChangeIsHidden' /\ DoneIsCovered'
  BY <1>1, <1>3, <1>5, <1>6, <1>7 DEF CoverInv, EvidenceInv, NoChangeIsHidden, DoneIsCovered
<1>10. \A v \in revisions' : v.ids \subseteq Rows
  BY <1>1, <1>4, <1>7 DEF CoverInv, RunInv, CoverTyped
<1> QED
  BY <1>1, <1>2, <1>8, <1>9, <1>10 DEF EvidenceInv

LEMMA NoopKeepsEvidence ==
  ASSUME CoverInv, CarefulOperator, NEW ids \in SUBSET Rows, NEW match \in {"exact", "rendered"},
         NoopReconcile(ids, match)
  PROVE  EvidenceInv' /\ receipts' \in [Rows -> Commits]
<1>1. /\ receipts \in [Rows -> Commits] /\ batch \in [Batches -> BatchRecords]
      /\ UNCHANGED <<row, batch, revisions, excluded, migrated>>
      /\ receipts' = [r \in Rows |-> IF r \in ids /\ receipts[r] = 0
                                     THEN batch[row[r].batch].commit ELSE receipts[r]]
  BY DEF CoverInv, RunInv, CoverTyped, NoopReconcile
<1>2. \A r \in ids : /\ r \in Rows /\ r \in DoneRows /\ r \notin excluded /\ r \notin Reviewed
                     /\ Kinds[r] # "change" /\ row[r].batch \in Batches /\ batch[row[r].batch].commit # 0
  <2>1. \A r \in ids : Evident(r, match)
    BY DEF NoopReconcile
  <2>2. \A r \in ids : r \in Rows /\ Kinds[r] # "change"
    BY <2>1 DEF Evident, MatchesToday
  <2> QED
    BY <2>1, <2>2, RowsDone DEF Evident, CoverInv
<1>3. receipts' \in [Rows -> Commits]
  <2>1. \A r \in ids : batch[row[r].batch].commit \in Commits
    BY <1>1, <1>2 DEF BatchRecords
  <2> QED
    BY <1>1, <2>1
<1>4. Reviewed' = Reviewed /\ excluded' = excluded /\ DoneRows' = DoneRows
  BY <1>1 DEF Reviewed, DoneRows, Applied
<1>5. Receipted' = Receipted \cup ids
  BY <1>1, <1>2 DEF Receipted
<1>6. EvidenceIsLate'
  <2>1. \A r \in Receipted' : batch'[row'[r].batch].commit = receipts'[r]
    <3> TAKE r \in Receipted'
    <3>1. r \in Rows
      BY DEF Receipted
    <3>2. CASE receipts[r] # 0
      BY <1>1, <3>1, <3>2 DEF CoverInv, EvidenceInv, EvidenceIsLate, Receipted
    <3>3. CASE receipts[r] = 0
      BY <1>1, <1>5, <3>1, <3>3 DEF Receipted
    <3> QED
      BY <3>2, <3>3
  <2> QED
    BY <1>2, <1>4, <1>5, <2>1 DEF CoverInv, EvidenceInv, EvidenceIsLate
<1>7. EvidenceIsSingle' /\ NoChangeIsHidden' /\ DoneIsCovered'
  BY <1>1, <1>2, <1>4, <1>5
     DEF CoverInv, EvidenceInv, EvidenceIsSingle, NoChangeIsHidden, DoneIsCovered
<1> QED
  BY <1>3, <1>6, <1>7 DEF EvidenceInv

-----------------------------------------------------------------------------
LEMMA StepKeepsCover ==
  ASSUME ~MayMigrateLate, CarefulOperator, CoverInv, [CoverNext]_coverVars
  PROVE  CoverInv'
<1>0. RunInv /\ CoverTyped /\ 0 \in Commits
  BY DEF CoverInv, RunInv, Commits
<1>1. ASSUME NEW ids \in SUBSET Rows, ClaimRows(ids) PROVE CoverInv'
  <2>1. RunInv'
    BY <1>0, <1>1, ClaimKeepsRuns
  <2>2. PICK b \in Batches :
          /\ batch[b].phase = "none"
          /\ row' = [r \in Rows |-> IF r \in ids THEN [status |-> "in_flight", batch |-> b] ELSE row[r]]
          /\ batch' = [batch EXCEPT ![b].phase = "claimed", ![b].base = head, ![b].prod = frontier]
    BY <1>1 DEF ClaimRows
  <2>3. /\ UNCHANGED reviewVars /\ \A a \in Batches : a # b => batch'[a] = batch[a]
        /\ \A r \in ids : row'[r].status = "in_flight" /\ r \notin Applied
        /\ \A r \in Rows \ ids : row'[r] = row[r]
    BY <1>0, <1>1, <2>2 DEF ClaimRows, CoverTyped, Applied
  <2>4. \A r \in DoneRows : r \in Rows \ ids /\ row[r].batch \in Batches /\ row[r].batch # b
    BY <1>0, <2>2, <2>3, RowsDone DEF DoneRows
  <2>5. \A r \in Rows \ DoneRows : row'[r].status = "applied" => batch'[row'[r].batch].phase # "done"
    <3> TAKE r \in Rows \ DoneRows
    <3>1. CASE r \in ids
      BY <2>3, <3>1
    <3>2. CASE r \notin ids
      <4>1. row'[r] = row[r] /\ (row[r].status = "applied" => row[r].batch \in Batches /\ row[r].batch # b)
        BY <1>0, <2>2, <2>3, <3>2 DEF RunInv, RowsFit
      <4> QED
        BY <2>3, <4>1 DEF DoneRows, Applied
    <3> QED
      BY <3>1, <3>2
  <2>6. EvidenceInv'
    BY <2>3, <2>4, <2>5, RunsKeepEvidence DEF DoneRows
  <2> QED
    BY <2>1, <2>6 DEF CoverInv
<1>2. ASSUME NEW b \in Batches,
             DropBatch(b) \/ MergeBatch(b) \/ SweepBatch(b) \/ FinishBatch(b) \/ FinishBare(b)
      PROVE  CoverInv'
  <2>1. PICK new \in BatchRecords :
           /\ batch' = [batch EXCEPT ![b] = new]
           /\ head' \in Commits /\ head' # 0 /\ UNCHANGED <<reviewing, frontier>>
           /\ new.prod = batch[b].prod
           /\ new.phase \in {"merged", "evidence_missing", "done"} => new.landed # 0
           /\ \/ new.phase = "merged" /\ batch[b].phase = "claimed" /\ row' = row
              \/ /\ new.phase = "rolled_back" /\ batch[b].phase = "claimed"
                 /\ row' = [r \in Rows |-> IF r \in RowsOf(b) THEN [status |-> "accepted", batch |-> 0] ELSE row[r]]
              \/ /\ new.phase \in {"evidence_missing", "done"} /\ batch[b].phase \in {"merged", "evidence_missing"}
                 /\ row' = AppliedNow(b)
           /\ FinishBatch(b) => new.phase = "done" /\ new.commit = batch[b].landed
           /\ new.phase = "done" => FinishBatch(b) \/ ~reviewing
    BY <1>0, <1>2, MoveShapes
  <2>2. /\ \A v \in revisions' : v.ids \subseteq Rows
        /\ receipts' \in [Rows -> Commits] /\ excluded' \subseteq Rows
    <3>1. CASE ~FinishBatch(b)
      <4>1. UNCHANGED reviewVars
        BY <1>2, <3>1 DEF DropBatch, MergeBatch, SweepBatch, FinishBare
      <4> QED
        BY <1>0, <4>1 DEF CoverTyped, reviewVars
    <3>2. CASE FinishBatch(b)
      <4>1. \A v \in RevisionsOf(b) : v.ids \subseteq Rows
        BY DEF RevisionsOf, RowsOf
      <4>2. batch[b].landed \in Commits
        BY <1>0 DEF CoverTyped, BatchRecords
      <4> QED
        BY <1>0, <3>2, <4>1, <4>2 DEF CoverTyped, FinishBatch
    <3> QED
      BY <3>1, <3>2
  <2>3. RunInv'
    BY <1>0, <2>1, <2>2, PhaseKeepsRuns
  <2>4. CASE FinishBatch(b)
    BY <2>3, <2>4, FinishKeepsEvidence DEF CoverInv
  <2>5. CASE ~FinishBatch(b)
    <3>1. UNCHANGED reviewVars
      BY <1>2, <2>5 DEF DropBatch, MergeBatch, SweepBatch, FinishBare
    <3>2. /\ batch'[b] = new /\ \A a \in Batches : a # b => batch'[a] = batch[a]
          /\ batch[b].phase # "done"
      BY <1>0, <2>1, BatchMoves
    <3>3. \A r \in Rows : row[r].batch # b => row'[r] = row[r]
      BY <2>1 DEF AppliedNow, RowsOf
    <3>4. \A r \in DoneRows : r \in Rows /\ row[r].batch \in Batches /\ row[r].batch # b
      BY <1>0, <3>2, RowsDone DEF DoneRows
    <3>5. \A r \in Rows \ DoneRows : row'[r].status = "applied" /\ batch'[row'[r].batch].phase = "done"
                                   => ~batch'[row'[r].batch].prod
      <4> SUFFICES ASSUME NEW r \in Rows \ DoneRows, row'[r].status = "applied",
                          batch'[row'[r].batch].phase = "done"
                   PROVE  ~batch'[row'[r].batch].prod
        OBVIOUS
      <4>1. row'[r].batch \in Batches
        BY <2>3 DEF RunInv, RowsFit
      <4>2. CASE row'[r].batch = b
        BY <1>0, <2>1, <2>5, <3>2, <4>2 DEF RunInv, ReviewedFromTheStart
      <4>3. CASE row'[r].batch # b
        <5>1. row[r].batch = b => row'[r].batch \in {0, b}
          <6>1. row[r] \in RowRecords
            BY <1>0 DEF CoverTyped
          <6> QED
            BY <2>1, <6>1 DEF AppliedNow, RowsOf, RowRecords
        <5>2. row[r].batch # b /\ row'[r] = row[r]
          BY <3>3, <4>1, <4>3, <5>1 DEF Batches
        <5> QED
          BY <3>2, <4>1, <4>3, <5>2 DEF DoneRows, Applied
      <4> QED
        BY <4>2, <4>3
    <3>6. \A r \in DoneRows : row'[r] = row[r] /\ batch'[row[r].batch] = batch[row[r].batch]
                          /\ batch[row[r].batch].phase = "done"
      BY <3>2, <3>3, <3>4 DEF DoneRows
    <3>7. EvidenceInv'
      BY <3>1, <3>5, <3>6, RunsKeepEvidence
    <3> QED
      BY <2>3, <3>7 DEF CoverInv
  <2> QED
    BY <2>4, <2>5
<1>3. CASE OtherCommitLands \/ ReviewIsDeployed \/ FrontierIsKnown \/ UNCHANGED coverVars
  <2>1. /\ UNCHANGED <<row, batch>> /\ UNCHANGED reviewVars
        /\ head' \in Commits /\ head' # 0 /\ reviewing' \in BOOLEAN /\ frontier' \in BOOLEAN
        /\ reviewing => reviewing'
        /\ frontier' => reviewing'
    <3>1. CASE OtherCommitLands
      BY <1>0, <3>1 DEF OtherCommitLands, CoverTyped, Commits, RunInv, ReviewedFromTheStart
    <3>2. CASE ReviewIsDeployed
      BY <1>0, <3>2 DEF ReviewIsDeployed, CoverTyped, RunInv, ReviewedFromTheStart
    <3>3. CASE FrontierIsKnown
      BY <1>0, <3>3 DEF FrontierIsKnown, CoverTyped, RunInv, ReviewedFromTheStart
    <3>4. CASE UNCHANGED coverVars
      BY <1>0, <3>4 DEF coverVars, reviewVars, CoverTyped, RunInv, ReviewedFromTheStart
    <3> QED
      BY <1>3, <3>1, <3>2, <3>3, <3>4
  <2>2. RunInv'
    BY <1>0, <2>1, StillKeepsRuns DEF CoverTyped, reviewVars
  <2>3. \A r \in Rows \ DoneRows : ~(row'[r].status = "applied" /\ batch'[row'[r].batch].phase = "done")
    BY <2>1 DEF DoneRows, Applied
  <2>4. EvidenceInv'
    BY <2>1, <2>3, RunsKeepEvidence DEF DoneRows
  <2> QED
    BY <2>2, <2>4 DEF CoverInv
<1>4. ASSUME NEW spots, NEW chain \in SUBSET Batches, NEW at, Backfill(spots, chain, at) PROVE CoverInv'
  <2>1. EvidenceInv' /\ \A v \in revisions' : v.ids \subseteq Rows
    BY <1>4, BackfillKeepsEvidence
  <2>2. UNCHANGED <<head, reviewing, frontier, row, batch, receipts, excluded>>
    BY <1>4 DEF Backfill
  <2>3. RunInv'
    BY <1>0, <2>1, <2>2, StillKeepsRuns DEF CoverTyped, RunInv, ReviewedFromTheStart
  <2> QED
    BY <2>1, <2>3 DEF CoverInv
<1>5. ASSUME NEW out \in SUBSET Rows, LegacyReconcile(out) PROVE CoverInv'
  <2>1. /\ EvidenceInv' /\ \A v \in revisions' : v.ids \subseteq Rows
        /\ batch' \in [Batches -> BatchRecords] /\ row' = row
        /\ \A b \in Batches : /\ batch'[b].phase = batch[b].phase /\ batch'[b].landed = batch[b].landed
                              /\ batch'[b].prod = batch[b].prod
    BY <1>5, LegacyKeepsEvidence
  <2>2. UNCHANGED <<head, reviewing, frontier, receipts>> /\ excluded' \subseteq Rows
    BY <1>0, <1>5 DEF LegacyReconcile, CoverTyped
  <2>3. RunInv'
    BY <1>0, <2>1, <2>2, StillKeepsRuns DEF CoverTyped, RunInv, ReviewedFromTheStart
  <2> QED
    BY <2>1, <2>3 DEF CoverInv
<1>6. ASSUME NEW ids \in SUBSET Rows, NEW match \in {"exact", "rendered"}, NoopReconcile(ids, match)
      PROVE  CoverInv'
  <2>1. EvidenceInv' /\ receipts' \in [Rows -> Commits]
    BY <1>6, NoopKeepsEvidence
  <2>2. UNCHANGED <<head, reviewing, frontier, row, batch, revisions, excluded>>
    BY <1>6 DEF NoopReconcile
  <2>3. RunInv'
    BY <1>0, <2>1, <2>2, StillKeepsRuns DEF CoverTyped, RunInv, ReviewedFromTheStart
  <2> QED
    BY <2>1, <2>3 DEF CoverInv
<1> QED
  BY <1>1, <1>2, <1>3, <1>4, <1>5, <1>6 DEF CoverNext

LEMMA CoverInvSuffices == CoverInv => CoverageIsSound
<1> SUFFICES ASSUME CoverInv PROVE CoverageIsSound
  OBVIOUS
<1>1. \A r \in Receipted : Stands(r)
  BY DEF CoverInv, EvidenceInv, EvidenceIsLate, Receipted, DoneRows, Stands
<1>2. NothingCountsTwice
  BY <1>1 DEF NothingCountsTwice, ReceiptsWithoutBatch, ReceiptsOverlap, ExclusionsOverlap,
              CoverInv, EvidenceInv, EvidenceIsSingle
<1>3. FinishedIsCovered
  BY <1>1 DEF FinishedIsCovered, Unreconciled, DoneRows, CoverInv, EvidenceInv, DoneIsCovered
<1> QED
  BY <1>2, <1>3 DEF CoverageIsSound, CoverInv, EvidenceInv

\* While migrations come before receipts and a rendered match is claimed as documented, no
\* sequence of runs, sweeps, migrations and reconciliations accounts for an applied
\* suggestion twice, hides a real change as a no-op, or leaves one of a finished run out
\* that does not merely render alike (EditorStoreCore; editor-endpoints.js).
THEOREM EverythingIsAccountedFor ==
  ~MayMigrateLate /\ CarefulOperator => (CoverSpec => []CoverageIsSound)
<1>1. ASSUME ~MayMigrateLate, CarefulOperator PROVE CoverSpec => []CoverageIsSound
  <2>1. CoverInit => CoverInv
    BY InitRuns, InitEvidence DEF CoverInv
  <2>2. CoverInv /\ [CoverNext]_coverVars => CoverInv'
    BY <1>1, StepKeepsCover
  <2> QED
    BY <2>1, <2>2, CoverInvSuffices, PTL DEF CoverSpec
<1> QED
  BY <1>1

-----------------------------------------------------------------------------
(* The commits of reviews.                                                 *)

\* A review is of a commit of the branch.
ReviewsAreOfCommits == \A v \in revisions : v.at \in Commits

LEMMA ReviewsKeepCommits ==
  CoverInv /\ ReviewsAreOfCommits /\ [CoverNext]_coverVars => ReviewsAreOfCommits'
<1> SUFFICES ASSUME CoverInv, ReviewsAreOfCommits, [CoverNext]_coverVars
             PROVE  ReviewsAreOfCommits'
  OBVIOUS
<1>0. CoverTyped /\ RowsFit
  BY DEF CoverInv, RunInv
<1>1. ASSUME NEW new, revisions' = revisions \cup new, \A v \in new : v.at \in Commits
      PROVE  ReviewsAreOfCommits'
  BY <1>1 DEF ReviewsAreOfCommits
<1>2. CASE UNCHANGED revisions
  BY <1>2 DEF ReviewsAreOfCommits
<1>3. ASSUME NEW b \in Batches, FinishBatch(b) PROVE ReviewsAreOfCommits'
  <2>1. batch[b].landed \in Commits
    BY <1>0 DEF CoverTyped, BatchRecords
  <2>2. \A v \in RevisionsOf(b) : v.at \in Commits
    BY <2>1 DEF RevisionsOf
  <2>3. revisions' = revisions \cup RevisionsOf(b)
    BY <1>3 DEF FinishBatch
  <2> QED
    BY <1>1, <2>2, <2>3
<1>4. ASSUME NEW spots, NEW chain \in SUBSET Batches, NEW at \in {batch[b].commit : b \in chain},
             Backfill(spots, chain, at)
      PROVE  ReviewsAreOfCommits'
  <2>1. at \in Commits
    BY <1>0 DEF CoverTyped, BatchRecords
  <2> DEFINE Ids(s) == {r \in Applied \ excluded : SpotOf[r] = s /\ row[r].batch \in chain}
             new == {[spot |-> s, at |-> at, ids |-> Ids(s)] : s \in spots}
  <2>2. revisions' = revisions \cup new
    BY <1>4 DEF Backfill
  <2>3. \A v \in new : v.at \in Commits
    BY <2>1
  <2> HIDE DEF new
  <2> QED
    BY <1>1, <2>2, <2>3
<1>5. ASSUME NEW out \in SUBSET Rows, LegacyReconcile(out) PROVE ReviewsAreOfCommits'
  <2> DEFINE after == LegacyCommit(out)
             stay == Applied \ out
             Last(s) == Max({r \in stay : SpotOf[r] = s})
             At(s) == after[row[Last(s)].batch].commit
             new == {[spot |-> s, at |-> At(s), ids |-> {r \in stay : SpotOf[r] = s}] :
                       s \in {SpotOf[r] : r \in stay}}
  <2>1. revisions' = revisions \cup new
    BY <1>5 DEF LegacyReconcile
  <2>2. \A b \in Batches : after[b].commit \in Commits
    BY <1>0 DEF CoverTyped, BatchRecords, LegacyCommit
  <2>3. ASSUME NEW q \in stay PROVE At(SpotOf[q]) \in Commits
    <3> DEFINE S == {r \in stay : SpotOf[r] = SpotOf[q]}
    <3>1. S \subseteq 0..LastRow /\ S # {} /\ LastRow \in Nat
      BY DEF Applied, Rows
    <3>2. PICK x \in S : \A y \in S : y <= x
      <4> HIDE DEF S
      <4> QED
        BY <3>1, GreatestExists
    <3>3. Max(S) \in S
      <4> HIDE DEF S
      <4>1. \A y \in S : y \in Nat
        BY <3>1
      <4> QED
        BY <3>2, <4>1 DEF Max
    <3>4. Last(SpotOf[q]) \in Applied
      BY <3>3
    <3>5. \A r \in Applied : row[r].batch \in Batches
      BY <1>0 DEF Applied, RowsFit
    <3> HIDE DEF after, Last
    <3> QED
      BY <2>2, <3>4, <3>5
  <2> HIDE DEF At
  <2>4. \A v \in new : v.at \in Commits
    BY <2>3
  <2> HIDE DEF new
  <2> QED
    BY <1>1, <2>1, <2>4
<1>6. CASE UNCHANGED coverVars
  BY <1>2, <1>6 DEF coverVars
<1>7. ASSUME NEW b \in Batches, DropBatch(b) \/ MergeBatch(b) \/ SweepBatch(b) \/ FinishBare(b)
      PROVE  ReviewsAreOfCommits'
  BY <1>2, <1>7 DEF DropBatch, MergeBatch, SweepBatch, FinishBare, reviewVars
<1>8. CASE OtherCommitLands \/ ReviewIsDeployed \/ FrontierIsKnown
  BY <1>2, <1>8 DEF OtherCommitLands, ReviewIsDeployed, FrontierIsKnown, reviewVars
<1>9. ASSUME NEW ids, NEW match, ClaimRows(ids) \/ NoopReconcile(ids, match)
      PROVE  ReviewsAreOfCommits'
  BY <1>2, <1>9 DEF ClaimRows, NoopReconcile, reviewVars
<1> QED
  BY <1>3, <1>4, <1>5, <1>6, <1>7, <1>8, <1>9 DEF CoverNext

\* The reviews of the first state.
LEMMA InitReviews == CoverInit => ReviewsAreOfCommits
BY DEF CoverInit, ReviewsAreOfCommits

LEMMA CoverIsTyped == CoverInv /\ ReviewsAreOfCommits => CoverTypeOK
<1> SUFFICES ASSUME CoverInv, ReviewsAreOfCommits PROVE CoverTypeOK
  OBVIOUS
<1>1. RowRecords = [status : RowStates, batch : 0..LastBatch]
  BY DEF RowRecords
<1> QED
  BY <1>1 DEF CoverInv, RunInv, EvidenceInv, EvidenceIsSingle, CoverTyped, BatchRecords,
              ReviewsAreOfCommits, CoverTypeOK

=============================================================================
