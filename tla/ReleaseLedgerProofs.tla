------------------------- MODULE ReleaseLedgerProofs -------------------------
(***************************************************************************)
(* The safety properties of ReleaseLedger and its refinement of            *)
(* ReleaseTrain, for any number of batches, releases and fencing tokens.   *)
(***************************************************************************)
EXTENDS ReleaseLedger, SequenceTheorems, TLAPS

(* The inductive invariant.                                                *)

\* Releases are numbered as they are added.
Numbered == \A r \in Releases : release[r].state = "none" <=> prepared < r

\* The log holds completed releases.
LogIsComplete == \A i \in 1..Len(log) : release[log[i]].state = "complete"

\* A release under way leads forward from the frontier: its members and its target
\* lie beyond it, and it is authorized as soon as it has left prepared.
ActiveIsAhead ==
    \A r \in Releases : Active(r) =>
      /\ ~release[r].backfill
      /\ release[r].authorized <=> release[r].state # "prepared"
      /\ Reached <= release[r].target
      /\ \A b \in release[r].members : Reached < b /\ b <= release[r].target
      /\ release[r].schema = 1 => release[r].base <= release[r].cand

\* What verified and complete stand for.
VerifiedIsProved ==
    \A r \in Releases : release[r].state = "verified" =>
      BothDeployed(r) /\ Recorded(r, "verified")

\* Nothing beyond the frontier is marked published.
PublishedIsBehind == \A b \in Batches : publisher[b] # 0 => b <= Reached

LedgerInv ==
    /\ LedgerTypeOK
    /\ Numbered
    /\ LogIsComplete
    /\ ActiveBuildsOnFrontier
    /\ ActiveIsAhead
    /\ VerifiedIsProved
    /\ PublishedIsBehind
    /\ CompletedReleasesChain
    /\ CompleteWasAuthorizedAndVerified
    /\ MembersArePublished

-----------------------------------------------------------------------------
(* The shapes a step can have, as far as releases are concerned.           *)

\* The columns a release is prepared with never change.
Keeps(r, row) ==
    /\ row.schema = release[r].schema /\ row.target = release[r].target
    /\ row.base = release[r].base /\ row.cand = release[r].cand
    /\ row.members = release[r].members /\ row.backfill = release[r].backfill

Quiet == UNCHANGED <<release, prepared, log, publisher, issued>>

Enlists(row) ==
    /\ NoneActive /\ prepared < LastRelease
    /\ row \in Release /\ row.state = "prepared" /\ ~row.authorized /\ ~row.backfill
    /\ row.token = NoToken
    /\ Reached <= row.target
    /\ \A b \in row.members : Reached < b /\ b <= row.target
    /\ row.schema = 1 => row.base = Base /\ Base <= row.cand
    /\ prepared' = prepared + 1
    /\ release' = [release EXCEPT ![prepared + 1] = row]
    /\ UNCHANGED <<log, publisher, issued>>

AdoptsLive(row) ==
    /\ prepared = 0
    /\ row \in Release /\ row.state = "complete" /\ row.backfill /\ row.token = NoToken
    /\ row.target \in Batches
    /\ prepared' = 1
    /\ release' = [release EXCEPT ![1] = row]
    /\ log' = <<1>>
    /\ UNCHANGED <<publisher, issued>>

Replaces(r, row) ==
    /\ Active(r) /\ Keeps(r, row) /\ row \in Release
    /\ release' = [release EXCEPT ![r] = row]
    /\ row.token <= issued' /\ issued <= issued' /\ issued' \in 0..LastToken
    /\ row.authorized <=> row.state # "prepared"
    /\ prepared' = prepared

Advances(r, row) ==
    /\ Replaces(r, row)
    /\ row.state \notin {"none", "complete"}
    /\ row.state = "prepared" => release[r].state = "prepared"
    /\ row.state = "restored" => release[r].state = "restoring"
    /\ row.state = "verified" => \A e \in Evidence \ {"complete"} : row.events[e] # NoToken
    /\ UNCHANGED <<log, publisher>>

Completes(r, row) ==
    /\ Replaces(r, row)
    /\ row.state = "complete" /\ release[r].state = "verified"
    /\ \A e \in Evidence : row.events[e] # NoToken
    /\ log' = Append(log, r)
    /\ publisher' = [b \in Batches |->
         IF b \in release[r].members /\ publisher[b] = 0 THEN r ELSE publisher[b]]

Shape ==
    \/ Quiet
    \/ \E row : Enlists(row)
    \/ \E row : AdoptsLive(row)
    \/ \E r \in Releases : \E row : Advances(r, row)
    \/ \E r \in Releases : \E row : Completes(r, row)

\* The frontier is a release, and its columns are well typed.
LEMMA FrontierType ==
  ASSUME LedgerTypeOK
  PROVE  /\ log # <<>> => Len(log) \in Nat \ {0} /\ Frontier \in Releases
         /\ Reached \in 0..LastBatch
         /\ Base \in Commits
         /\ Served \subseteq Commits
<1> USE LedgerAssumption
<1>1. log # <<>> => Len(log) \in Nat \ {0} /\ Frontier \in Releases
  BY DEF LedgerTypeOK, Frontier
<1>2. \A r \in Releases : release[r].target \in 0..LastBatch /\ release[r].cand \in Commits
  BY DEF LedgerTypeOK, Release
<1>3. 0 \in Commits
  BY DEF Commits
<1>4. Reached \in 0..LastBatch /\ Base \in Commits
  BY <1>1, <1>2, <1>3 DEF Reached, Base, Published
<1>5. \A i \in DOMAIN log : log[i] \in Releases
  BY DEF LedgerTypeOK
<1> QED BY <1>1, <1>2, <1>3, <1>4, <1>5 DEF Served

\* What preparation adds.
LEMMA PrepareShape ==
  ASSUME LedgerTypeOK, NEW t \in Batches, Prepare(t)
  PROVE  \E row : Enlists(row)
<1> USE LedgerAssumption
<1> DEFINE row == Frozen(1, t, t, Membership(t))
<1>1. row \in Release
  <2>1. t \in 0..LastBatch /\ t \in Commits
    BY DEF Batches, Commits, Releases
  <2>2. Membership(t) \in SUBSET Batches
    BY DEF Membership
  <2> QED BY <2>1, <2>2, FrontierType
          DEF Frozen, Unused, Release, States, Settled, Executing, Evidence, NoToken
<1>2. Enlists(row)
  <2>1. Reached < t
    BY DEF Prepare, Membership
  <2>2. Reached <= t
    BY <2>1, FrontierType DEF Batches
  <2> QED BY <1>1, <2>2
          DEF Prepare, Adds, Enlists, Frozen, Unused, Membership
<1> QED BY <1>2

\* An operation release is enlisted like a batch release.
LEMMA PrepareOperationsShape ==
  ASSUME LedgerTypeOK, NEW base \in Served, PrepareOperations(base)
  PROVE  \E row : Enlists(row)
<1> USE LedgerAssumption
<1> DEFINE row == [Frozen(2, Reached, Synthetic(prepared + 1), {}) EXCEPT !.base = base]
<1>1. Synthetic(prepared + 1) \in Commits
  BY DEF Synthetic, Commits, PrepareOperations, Adds, LedgerTypeOK
<1>2. row \in Release
  BY <1>1, FrontierType
     DEF Frozen, Unused, Release, States, Settled, Executing, Evidence, NoToken
<1>3. Enlists(row)
  BY <1>2, FrontierType DEF PrepareOperations, Adds, Enlists, Frozen, Unused
<1> QED BY <1>3

\* A backfill adopts what production already serves.
LEMMA BackfillShape ==
  ASSUME LedgerTypeOK, NEW t \in Batches, NEW sha \in Batches, Backfill(t, sha)
  PROVE  \E row : AdoptsLive(row)
<1> USE LedgerAssumption
<1> DEFINE members == {b \in Batches : b <= t /\ phase[b] = "done"}
           row == [Frozen(1, t, sha, members)
                   EXCEPT !.state = "complete", !.base = sha, !.backfill = TRUE]
<1>1. row \in Release
  <2>1. t \in 0..LastBatch /\ sha \in Commits /\ members \in SUBSET Batches
    BY DEF Batches, Commits
  <2> QED BY <2>1, FrontierType
          DEF Frozen, Unused, Release, States, Settled, Executing, Evidence, NoToken
<1>2. AdoptsLive(row)
  BY <1>1 DEF Backfill, Adds, AdoptsLive, Frozen, Unused
<1> QED BY <1>2

\* A release under way whose evidence stays and that is not completed advances.
LEMMA Rewritten ==
  ASSUME VerifiedIsProved, NEW r \in Releases, NEW row, Replaces(r, row),
         row.events = release[r].events,
         row.state \notin {"none", "complete", "restored"},
         row.state \in {"prepared", "verified"} => row.state = release[r].state,
         UNCHANGED <<log, publisher>>
  PROVE  Advances(r, row)
<1>1. row.state = "verified" => \A e \in Evidence \ {"complete"} : row.events[e] # NoToken
  BY DEF VerifiedIsProved, BothDeployed, Recorded, Evidence
<1> QED BY <1>1 DEF Advances

\* What the steps of one release under way do.
LEMMA RowShape ==
  ASSUME LedgerTypeOK, ActiveIsAhead, VerifiedIsProved, NEW r \in Releases,
         \/ Authorize(r) \/ ReviewAdvances(r) \/ Claim(r) \/ ClaimRestore(r) \/ LeaseExpires(r)
  PROVE  \E row : Advances(r, row)
<1> USE LedgerAssumption
<1> DEFINE old == release[r]
           row == release'[r]
<1>0. old \in Release /\ issued \in 0..LastToken /\ old.token <= issued
  BY DEF LedgerTypeOK
<1>1. CASE Authorize(r)
  <2>1. Active(r) /\ "authorized" \in States
    BY <1>1 DEF Authorize, Active, Settled, States
  <2>2. /\ row = [old EXCEPT !.state = "authorized", !.authorized = TRUE]
        /\ release' = [release EXCEPT ![r] = row]
    BY <1>1 DEF Authorize, LedgerTypeOK
  <2>3. /\ row \in Release /\ Keeps(r, row) /\ row.events = old.events
        /\ row.state = "authorized" /\ row.authorized /\ row.token = old.token
    BY <1>0, <2>1, <2>2 DEF Release, Keeps
  <2>4. UNCHANGED <<prepared, log, publisher, issued>>
    BY <1>1 DEF Authorize
  <2>5. release' = [release EXCEPT ![r] = row]
    BY <2>2
  <2> HIDE DEF row
  <2>6. Replaces(r, row)
    BY <1>0, <2>1, <2>3, <2>4, <2>5 DEF Replaces
  <2>7. Advances(r, row)
    BY <2>1, <2>3, <2>4, <2>6, Rewritten
  <2> QED BY <2>7
<1>2. CASE ReviewAdvances(r)
  <2>1. Active(r) /\ old.state \notin {"none", "complete", "restored"} /\ (old.authorized <=> old.state # "prepared")
    BY <1>2 DEF ReviewAdvances, Active, Settled, ActiveIsAhead
  <2>2. /\ row = [old EXCEPT !.stale = TRUE]
        /\ release' = [release EXCEPT ![r] = row]
    BY <1>2 DEF ReviewAdvances, LedgerTypeOK
  <2>3. /\ row \in Release /\ Keeps(r, row) /\ row.events = old.events
        /\ row.state = old.state /\ row.authorized = old.authorized /\ row.token = old.token
    BY <1>0, <2>2 DEF Release, Keeps
  <2>4. UNCHANGED <<prepared, log, publisher, issued>>
    BY <1>2 DEF ReviewAdvances
  <2>5. release' = [release EXCEPT ![r] = row]
    BY <2>2
  <2> HIDE DEF row
  <2>6. Replaces(r, row)
    BY <1>0, <2>1, <2>3, <2>4, <2>5 DEF Replaces
  <2>7. Advances(r, row)
    BY <2>1, <2>3, <2>4, <2>6, Rewritten
  <2> QED BY <2>7
<1>3. CASE LeaseExpires(r)
  <2>1. Active(r) /\ old.state \notin {"none", "complete", "restored"} /\ (old.authorized <=> old.state # "prepared")
    BY <1>3 DEF LeaseExpires, Leased, Executing, Active, Settled, ActiveIsAhead
  <2>2. /\ row = [old EXCEPT !.live = FALSE]
        /\ release' = [release EXCEPT ![r] = row]
    BY <1>3 DEF LeaseExpires, LedgerTypeOK
  <2>3. /\ row \in Release /\ Keeps(r, row) /\ row.events = old.events
        /\ row.state = old.state /\ row.authorized = old.authorized /\ row.token = old.token
    BY <1>0, <2>2 DEF Release, Keeps
  <2>4. UNCHANGED <<prepared, log, publisher, issued>>
    BY <1>3 DEF LeaseExpires
  <2>5. release' = [release EXCEPT ![r] = row]
    BY <2>2
  <2> HIDE DEF row
  <2>6. Replaces(r, row)
    BY <1>0, <2>1, <2>3, <2>4, <2>5 DEF Replaces
  <2>7. Advances(r, row)
    BY <2>1, <2>3, <2>4, <2>6, Rewritten
  <2> QED BY <2>7
<1>4. ASSUME NEW s \in {"executing", "pages_deployed", "worker_deployed", "verified", "restoring"},
             Fence(r, s), Active(r), old.state # "prepared",
             s = "verified" => old.state = "verified",
             UNCHANGED <<prepared, log, publisher>>
      PROVE  \E x : Advances(r, x)
  <2> DEFINE next == issued + 1
  <2>1. s \in States \ {"none", "complete"} /\ s # "prepared" /\ old.authorized
    BY <1>4 DEF States, Executing, Settled, ActiveIsAhead
  <2>2. next \in Tokens /\ issued' = next /\ issued <= issued' /\ issued' \in 0..LastToken
    BY <1>0, <1>4 DEF Fence, Tokens
  <2>3. release' = [release EXCEPT ![r] = row]
        /\ row = [old EXCEPT !.state = s, !.token = next, !.live = TRUE]
    BY <1>4 DEF Fence, LedgerTypeOK
  <2> HIDE DEF next
  <2>4. /\ row \in Release /\ Keeps(r, row) /\ row.events = old.events
        /\ row.state = s /\ row.authorized = old.authorized /\ row.token = next
    <3>1. row = [old EXCEPT !.state = s, !.token = next, !.live = TRUE]
      BY <2>3
    <3>2. s \in States /\ next \in Tokens
      BY <2>1, <2>2
    <3>3. row \in Release
      BY <1>0, <3>1, <3>2 DEF Release
    <3>4. Keeps(r, row) /\ row.events = old.events
      BY <1>0, <3>1 DEF Release, Keeps
    <3>5. row.state = s /\ row.authorized = old.authorized /\ row.token = next
      BY <1>0, <3>1 DEF Release
    <3> QED BY <3>3, <3>4, <3>5
  <2>5. release' = [release EXCEPT ![r] = row]
    BY <2>3
  <2>6. row.token <= issued'
    BY <2>2, <2>4 DEF Tokens
  <2> HIDE DEF row
  <2>7. Replaces(r, row)
    BY <1>4, <2>1, <2>2, <2>4, <2>5, <2>6 DEF Replaces
  <2>8. Advances(r, row)
    BY <1>4, <2>1, <2>4, <2>7, Rewritten
  <2> QED BY <2>8
<1>5. CASE Claim(r)
  BY <1>0, <1>4, <1>5 DEF Claim, Active, Executing, Settled
<1>6. CASE ClaimRestore(r)
  BY <1>0, <1>4, <1>6 DEF ClaimRestore, Active, Executing, Settled
<1> QED BY <1>1, <1>2, <1>3, <1>5, <1>6

\* A transition moves a release on, and completes it only when all is proved.
LEMMA TransitionShape ==
  ASSUME LedgerTypeOK, ActiveIsAhead, VerifiedIsProved, NEW r \in Releases,
         NEW token \in Tokens, NEW s \in States, Transition(r, token, s)
  PROVE  \E row : Advances(r, row) \/ Completes(r, row)
<1> USE LedgerAssumption
<1> DEFINE row == release'[r]
<1>0. release[r] \in Release /\ issued \in 0..LastToken /\ release[r].token <= issued
  BY DEF LedgerTypeOK
<1>1. /\ release[r].state \in {"executing", "pages_deployed", "worker_deployed", "verified",
                               "restoring"}
      /\ s \in {"pages_deployed", "worker_deployed", "verified", "complete", "failed_fenced",
                "restored"}
      /\ s = "complete" => release[r].state = "verified"
      /\ s = "restored" => release[r].state = "restoring"
      /\ s = "verified" => BothDeployed(r)
  <2>1. s \in Follows(release[r].state) /\ (s = "verified" => BothDeployed(r))
    BY DEF Transition, Moves
  <2>2. CASE release[r].state = "executing"       BY <2>1, <2>2 DEF Follows
  <2>3. CASE release[r].state = "pages_deployed"  BY <2>1, <2>3 DEF Follows
  <2>4. CASE release[r].state = "worker_deployed" BY <2>1, <2>4 DEF Follows
  <2>5. CASE release[r].state = "verified"        BY <2>1, <2>5 DEF Follows
  <2>6. CASE release[r].state = "restoring"       BY <2>1, <2>6 DEF Follows
  <2>7. CASE release[r].state \notin {"executing", "pages_deployed", "worker_deployed",
                                      "verified", "restoring"}
    BY <2>1, <2>7 DEF Follows
  <2> QED BY <2>2, <2>3, <2>4, <2>5, <2>6, <2>7
<1>2. Active(r) /\ release[r].authorized /\ ~release[r].backfill
  BY <1>1 DEF Active, Settled, ActiveIsAhead
<1>3. /\ release' = [release EXCEPT ![r] = row]
      /\ row = [release[r] EXCEPT !.state = s, !.live = (s # "complete"),
                  !.events = Journalled(r, token, s)]
  BY DEF Transition, LedgerTypeOK
<1>4. /\ release[r].events \in [Evidence -> Tokens \cup {NoToken}]
      /\ Journalled(r, token, s) \in [Evidence -> Tokens \cup {NoToken}]
  BY <1>0 DEF Release, Journalled
<1>5. /\ row.events = Journalled(r, token, s)
      /\ row \in Release /\ Keeps(r, row) /\ row.state = s
      /\ row.authorized = release[r].authorized /\ row.token = release[r].token
  BY <1>0, <1>3, <1>4 DEF Release, Keeps
<1>6. Replaces(r, row)
  <2>1. release' = [release EXCEPT ![r] = row]
    BY <1>3
  <2>2. UNCHANGED <<prepared, issued>>
    BY DEF Transition
  <2> HIDE DEF row
  <2> QED BY <1>0, <1>1, <1>2, <1>5, <2>1, <2>2 DEF Replaces
<1>7. s \in Evidence => \A e \in Evidence :
         row.events[e] = IF e = s THEN token ELSE release[r].events[e]
  BY <1>4, <1>5 DEF Journalled
<1>8. token # NoToken
  BY DEF Tokens, NoToken
<1> HIDE DEF row
<1>9. s = "verified" => \A e \in Evidence \ {"complete"} : row.events[e] # NoToken
  BY <1>1, <1>7, <1>8 DEF BothDeployed, Recorded, Evidence
<1>10. s = "complete" => \A e \in Evidence : row.events[e] # NoToken
  BY <1>1, <1>7, <1>8 DEF VerifiedIsProved, BothDeployed, Recorded, Evidence
<1>11. CASE s = "complete"
  <2>1. /\ log' = Append(log, r)
        /\ publisher' = [b \in Batches |->
             IF b \in release[r].members /\ publisher[b] = 0 THEN r ELSE publisher[b]]
    BY <1>11 DEF Transition
  <2> QED BY <1>1, <1>5, <1>6, <1>10, <1>11, <2>1 DEF Completes
<1>12. CASE s # "complete"
  <2>1. UNCHANGED <<log, publisher>>
    BY <1>12 DEF Transition
  <2> QED BY <1>1, <1>5, <1>6, <1>9, <1>12, <2>1 DEF Advances
<1> QED BY <1>11, <1>12

\* Every step has one of the shapes.
LEMMA NextShape ==
  ASSUME LedgerTypeOK, ActiveIsAhead, VerifiedIsProved, [Next]_vars
  PROVE  Shape
<1>1. CASE JournalStep \/ UNCHANGED vars
  BY <1>1 DEF JournalStep, OpenBatch, MergeBatch, LateMerge, FinishBatch, ReconcileBatch,
              SplitGroup, vars, Shape, Quiet
<1>2. CASE LedgerStep
  BY <1>2, PrepareShape, PrepareOperationsShape, BackfillShape, RowShape, TransitionShape
     DEF LedgerStep, Shape
<1> QED BY <1>1, <1>2 DEF Next

-----------------------------------------------------------------------------
(* Types.                                                                  *)

\* The journal steps, and no other, write phase and split.
LEMMA JournalTypes ==
  ASSUME LedgerTypeOK, [Next]_vars
  PROVE  phase' \in [Batches -> Phases] /\ split' \subseteq Batches
<1> USE DEF LedgerTypeOK
<1>1. CASE JournalStep
  BY <1>1 DEF JournalStep, OpenBatch, MergeBatch, LateMerge, FinishBatch, ReconcileBatch,
              SplitGroup, Phases
<1>2. CASE LedgerStep
  BY <1>2 DEF LedgerStep, Prepare, PrepareOperations, Backfill, Authorize, ReviewAdvances,
              Claim, ClaimRestore, LeaseExpires, Transition, journal
<1>3. CASE UNCHANGED vars
  BY <1>3 DEF vars
<1> QED BY <1>1, <1>2, <1>3 DEF Next

\* Whatever its shape, a step keeps the releases well typed.
LEMMA ShapeTypes ==
  ASSUME LedgerTypeOK, Shape
  PROVE  /\ release' \in [Releases -> Release]
         /\ prepared' \in 0..LastRelease /\ issued' \in 0..LastToken
         /\ log' \in Seq(Releases)
         /\ publisher' \in [Batches -> 0..LastRelease]
         /\ \A r \in Releases : release'[r].token <= issued'
<1> USE LedgerAssumption
<1>0. /\ release \in [Releases -> Release] /\ prepared \in 0..LastRelease
      /\ issued \in 0..LastToken /\ log \in Seq(Releases)
      /\ publisher \in [Batches -> 0..LastRelease]
      /\ \A r \in Releases : release[r].token <= issued
      /\ \A r \in Releases : release[r].token \in Nat
  BY DEF LedgerTypeOK, Release, Tokens, NoToken
<1>1. CASE Quiet
  BY <1>0, <1>1 DEF Quiet
<1>2. ASSUME NEW row, Enlists(row) \/ AdoptsLive(row)
      PROVE  /\ release' \in [Releases -> Release]
             /\ prepared' \in 0..LastRelease /\ issued' \in 0..LastToken
             /\ log' \in Seq(Releases)
             /\ publisher' \in [Batches -> 0..LastRelease]
             /\ \A r \in Releases : release'[r].token <= issued'
  <2>1. /\ prepared' \in 0..LastRelease /\ prepared' \in Releases
        /\ row \in Release /\ row.token = 0
        /\ release' = [release EXCEPT ![prepared'] = row]
        /\ UNCHANGED <<publisher, issued>>
    BY <1>0, <1>2 DEF Enlists, AdoptsLive, Releases, NoToken
  <2>2. log' \in Seq(Releases)
    <3>1. 1 \in Releases
      BY DEF Releases
    <3>2. <<1>> \in Seq(Releases)
      BY <3>1
    <3>3. log' = log \/ log' = <<1>>
      BY <1>2 DEF Enlists, AdoptsLive
    <3> QED BY <1>0, <3>2, <3>3
  <2>3. \A r \in Releases : release'[r] = IF r = prepared' THEN row ELSE release[r]
    BY <1>0, <2>1
  <2>4. \A r \in Releases : release'[r].token <= issued'
    BY <1>0, <2>1, <2>3
  <2> QED BY <1>0, <2>1, <2>2, <2>4
<1>3. ASSUME NEW r \in Releases, NEW row, Advances(r, row) \/ Completes(r, row)
      PROVE  /\ release' \in [Releases -> Release]
             /\ prepared' \in 0..LastRelease /\ issued' \in 0..LastToken
             /\ log' \in Seq(Releases)
             /\ publisher' \in [Batches -> 0..LastRelease]
             /\ \A q \in Releases : release'[q].token <= issued'
  <2>1. /\ row \in Release /\ release' = [release EXCEPT ![r] = row]
        /\ row.token <= issued' /\ issued <= issued' /\ issued' \in 0..LastToken
        /\ prepared' = prepared
    BY <1>3 DEF Advances, Completes, Replaces
  <2>2. log' \in Seq(Releases)
    <3>1. Append(log, r) \in Seq(Releases)
      BY <1>0
    <3>2. log' = log \/ log' = Append(log, r)
      BY <1>3 DEF Advances, Completes
    <3> QED BY <1>0, <3>1, <3>2
  <2>3. publisher' \in [Batches -> 0..LastRelease]
    <3>1. r \in 0..LastRelease
      BY DEF Releases
    <3>2. CASE UNCHANGED publisher
      BY <1>0, <3>2
    <3>3. CASE publisher' = [b \in Batches |->
                 IF b \in release[r].members /\ publisher[b] = 0 THEN r ELSE publisher[b]]
      <4>1. \A b \in Batches : publisher[b] \in 0..LastRelease
        BY <1>0
      <4> QED BY <3>1, <3>3, <4>1, Zenon
    <3> QED BY <1>3, <3>2, <3>3 DEF Advances, Completes
  <2>4. \A q \in Releases : release'[q] = IF q = r THEN row ELSE release[q]
    BY <1>0, <2>1
  <2>5. \A q \in Releases : release'[q].token <= issued'
    BY <1>0, <2>1, <2>4
  <2> QED BY <1>0, <2>1, <2>2, <2>3, <2>5
<1> QED BY <1>1, <1>2, <1>3 DEF Shape

\* Types are kept, given what the invariant says of the releases under way.
LEMMA TypeStep ==
  ASSUME LedgerTypeOK, ActiveIsAhead, VerifiedIsProved, [Next]_vars
  PROVE  LedgerTypeOK'
BY JournalTypes, NextShape, ShapeTypes DEF LedgerTypeOK

-----------------------------------------------------------------------------
(* What a step leaves alone.                                               *)

\* The rows of each shape, one by one.
LEMMA EnlistedRow ==
  ASSUME LedgerTypeOK, NEW row, Enlists(row)
  PROVE  /\ prepared + 1 \in Releases
         /\ \A q \in Releases : release'[q] = IF q = prepared + 1 THEN row ELSE release[q]
BY LedgerAssumption DEF LedgerTypeOK, Enlists, Releases

\* Replacing one release's row leaves the others.
LEMMA ReplacedRow ==
  ASSUME LedgerTypeOK, NEW r \in Releases, NEW row, Replaces(r, row)
  PROVE  \A q \in Releases : release'[q] = IF q = r THEN row ELSE release[q]
BY DEF LedgerTypeOK, Replaces

\* A release in the log keeps its row, so as long as the log stays the frontier
\* does.
LEMMA LoggedStay ==
  ASSUME LedgerTypeOK, Numbered, LogIsComplete,
         \/ Quiet \/ \E row : Enlists(row)
         \/ \E r \in Releases : \E row : Replaces(r, row)
  PROVE  \A i \in 1..Len(log) : log[i] \in Releases /\ release'[log[i]] = release[log[i]]
<1> USE LedgerAssumption
<1> SUFFICES ASSUME NEW i \in 1..Len(log)
             PROVE  log[i] \in Releases /\ release'[log[i]] = release[log[i]]
  OBVIOUS
<1>1. log[i] \in Releases /\ release[log[i]].state = "complete"
  BY DEF LedgerTypeOK, LogIsComplete
<1>2. CASE Quiet
  BY <1>1, <1>2 DEF Quiet
<1>3. ASSUME NEW row, Enlists(row) PROVE release'[log[i]] = release[log[i]]
  <2>1. log[i] # prepared + 1
    BY <1>1, <1>3, EnlistedRow DEF Numbered, LedgerTypeOK
  <2> QED BY <1>1, <1>3, <2>1, EnlistedRow
<1>4. ASSUME NEW r \in Releases, NEW row, Replaces(r, row)
      PROVE  release'[log[i]] = release[log[i]]
  <2>1. log[i] # r
    BY <1>1, <1>4 DEF Replaces, Active, Settled
  <2> QED BY <1>1, <1>4, <2>1, ReplacedRow
<1> QED BY <1>1, <1>2, <1>3, <1>4

\* As long as the log and its rows stay, so does the frontier.
LEMMA FrontierStays ==
  ASSUME LedgerTypeOK, Numbered, LogIsComplete, UNCHANGED log,
         \/ Quiet \/ \E row : Enlists(row)
         \/ \E r \in Releases : \E row : Replaces(r, row)
  PROVE  Reached' = Reached /\ Base' = Base
<1>1. CASE log = <<>>
  BY <1>1 DEF Reached, Base, Published
<1>2. CASE log # <<>>
  <2>1. Len(log) \in 1..Len(log)
    BY <1>2 DEF LedgerTypeOK
  <2>2. release'[log[Len(log)]] = release[log[Len(log)]]
    BY <2>1, LoggedStay
  <2> QED BY <2>2 DEF Reached, Base, Published, Frontier
<1> QED BY <1>1, <1>2

-----------------------------------------------------------------------------
(* Each shape preserves the invariant.                                     *)

\* What appending to the log leaves and adds.
LEMMA Appended ==
  ASSUME NEW S, NEW seq \in Seq(S), NEW x \in S
  PROVE  /\ Len(seq) \in Nat
         /\ Append(seq, x) # <<>>
         /\ Len(Append(seq, x)) = Len(seq) + 1
         /\ Append(seq, x)[Len(seq) + 1] = x
         /\ \A i \in 1..Len(seq) : Append(seq, x)[i] = seq[i]
BY AppendProperties, LenProperties

\* A step of the journal or the environment disturbs no release.
LEMMA QuietStep ==
  ASSUME LedgerInv, Quiet, LedgerTypeOK'
  PROVE  LedgerInv'
<1> USE DEF LedgerInv, Quiet
<1>1. Reached' = Reached /\ Base' = Base
  BY DEF Reached, Base, Frontier, Published
<1>2. \A r \in Releases : Active(r)' <=> Active(r)
  BY DEF Active
<1>3. Numbered' /\ LogIsComplete'
  BY DEF Numbered, LogIsComplete
<1>4. ActiveBuildsOnFrontier' /\ ActiveIsAhead'
  BY <1>1, <1>2 DEF ActiveBuildsOnFrontier, ActiveIsAhead
<1>5. VerifiedIsProved' /\ CompleteWasAuthorizedAndVerified'
  BY DEF VerifiedIsProved, CompleteWasAuthorizedAndVerified, BothDeployed, Recorded
<1>6. PublishedIsBehind' /\ MembersArePublished'
  BY <1>1 DEF PublishedIsBehind, MembersArePublished
<1>7. CompletedReleasesChain'
  BY DEF CompletedReleasesChain
<1> QED BY <1>3, <1>4, <1>5, <1>6, <1>7

\* As long as the log and its rows stay, so does the chain.
LEMMA ChainStays ==
  ASSUME LedgerTypeOK, CompletedReleasesChain, UNCHANGED log,
         \A i \in 1..Len(log) : release'[log[i]] = release[log[i]]
  PROVE  CompletedReleasesChain'
<1>1. Len(log) \in Nat
  BY DEF LedgerTypeOK
<1>2. \A i \in 2..Len(log) : i \in 1..Len(log) /\ i - 1 \in 1..Len(log)
  BY <1>1
<1>3. \A i \in 2..Len(log) : release'[log[i]] = release[log[i]]
                           /\ release'[log[i - 1]] = release[log[i - 1]]
  BY <1>2
<1> QED BY <1>3 DEF CompletedReleasesChain

\* A prepared release joins; nothing else was under way.
LEMMA EnlistStep ==
  ASSUME LedgerInv, NEW row, Enlists(row), LedgerTypeOK'
  PROVE  LedgerInv'
<1> USE LedgerAssumption
<1> DEFINE new == prepared + 1
<1>1. /\ new \in Releases
      /\ \A q \in Releases : release'[q] = IF q = new THEN row ELSE release[q]
  BY EnlistedRow DEF LedgerInv
<1>2. Reached' = Reached /\ Base' = Base /\ log' = log /\ publisher' = publisher
  BY FrontierStays DEF LedgerInv, Enlists
<1>3. \A i \in 1..Len(log) : log[i] \in Releases /\ release'[log[i]] = release[log[i]]
  BY LoggedStay DEF LedgerInv
<1>4. /\ prepared \in Nat /\ prepared' = new /\ release[new].state = "none"
      /\ row.state = "prepared"
  BY <1>1 DEF LedgerInv, LedgerTypeOK, Numbered, Enlists, Releases
<1>5. \A q \in Releases : Active(q)' <=> q = new
  BY <1>1, <1>4 DEF Enlists, NoneActive, Active, Settled
<1>6. Numbered'
  BY <1>1, <1>4 DEF LedgerInv, Numbered, Releases
<1>7. LogIsComplete'
  BY <1>2, <1>3 DEF LedgerInv, LogIsComplete
<1>8. ActiveBuildsOnFrontier'
  BY <1>1, <1>2, <1>5 DEF ActiveBuildsOnFrontier, Enlists
<1>9. ActiveIsAhead'
  <2> SUFFICES ASSUME NEW r \in Releases, Active(r)'
               PROVE  /\ ~release'[r].backfill
                      /\ release'[r].authorized <=> release'[r].state # "prepared"
                      /\ Reached' <= release'[r].target
                      /\ \A b \in release'[r].members : Reached' < b /\ b <= release'[r].target
                      /\ release'[r].schema = 1 => release'[r].base <= release'[r].cand
    BY DEF ActiveIsAhead
  <2>1. release'[r] = row
    BY <1>1, <1>5
  <2> QED BY <1>2, <1>4, <2>1 DEF Enlists
<1>10. VerifiedIsProved'
  BY <1>1, <1>4 DEF LedgerInv, VerifiedIsProved, BothDeployed, Recorded
<1>11. CompleteWasAuthorizedAndVerified'
  BY <1>1, <1>4 DEF LedgerInv, CompleteWasAuthorizedAndVerified, Recorded
<1>12. PublishedIsBehind'
  BY <1>2 DEF LedgerInv, PublishedIsBehind
<1>13. MembersArePublished'
  BY <1>1, <1>2, <1>4 DEF LedgerInv, MembersArePublished
<1>14. CompletedReleasesChain'
  BY <1>2, <1>3, ChainStays DEF LedgerInv
<1> QED BY <1>6, <1>7, <1>8, <1>9, <1>10, <1>11, <1>12, <1>13, <1>14 DEF LedgerInv

\* A release under way moves on, keeping what it was prepared with.
LEMMA AdvanceStep ==
  ASSUME LedgerInv, NEW r \in Releases, NEW row, Advances(r, row), LedgerTypeOK'
  PROVE  LedgerInv'
<1>0. /\ Active(r) /\ Keeps(r, row) /\ Replaces(r, row)
      /\ row.state \notin {"none", "complete"}
      /\ row.authorized <=> row.state # "prepared"
      /\ prepared' = prepared /\ log' = log /\ publisher' = publisher
  BY DEF Advances, Replaces
<1>1. \A q \in Releases : release'[q] = IF q = r THEN row ELSE release[q]
  BY <1>0, ReplacedRow DEF LedgerInv
<1>2. Reached' = Reached /\ Base' = Base
  BY <1>0, FrontierStays DEF LedgerInv
<1>3. \A i \in 1..Len(log) : log[i] \in Releases /\ release'[log[i]] = release[log[i]]
  BY <1>0, LoggedStay DEF LedgerInv
<1>4. \A q \in Releases : Active(q)' => Active(q)
  BY <1>0, <1>1 DEF Active
<1>5. Active(r) /\ release[r].state \notin {"none", "complete"} /\ ~release[r].backfill
  BY <1>0 DEF Active, Settled, LedgerInv, ActiveIsAhead
<1>6. Numbered'
  BY <1>0, <1>1, <1>5 DEF LedgerInv, Numbered
<1>7. LogIsComplete'
  BY <1>0, <1>3 DEF LedgerInv, LogIsComplete
<1>8. ActiveBuildsOnFrontier'
  BY <1>0, <1>1, <1>2, <1>4 DEF LedgerInv, ActiveBuildsOnFrontier, Keeps
<1>9. ActiveIsAhead'
  <2> SUFFICES ASSUME NEW q \in Releases, Active(q)'
               PROVE  /\ ~release'[q].backfill
                      /\ release'[q].authorized <=> release'[q].state # "prepared"
                      /\ Reached' <= release'[q].target
                      /\ \A b \in release'[q].members : Reached' < b /\ b <= release'[q].target
                      /\ release'[q].schema = 1 => release'[q].base <= release'[q].cand
    BY DEF ActiveIsAhead
  <2>1. q = r /\ release'[q] = row
    BY <1>0, <1>1, <1>4 DEF LedgerInv, ActiveBuildsOnFrontier
  <2> QED BY <1>0, <1>2, <1>5, <2>1 DEF LedgerInv, ActiveIsAhead, Keeps
<1>10. VerifiedIsProved'
  BY <1>1 DEF LedgerInv, VerifiedIsProved, BothDeployed, Recorded, Advances, Evidence
<1>11. CompleteWasAuthorizedAndVerified'
  BY <1>0, <1>1 DEF LedgerInv, CompleteWasAuthorizedAndVerified, Recorded
<1>12. PublishedIsBehind'
  BY <1>0, <1>2 DEF LedgerInv, PublishedIsBehind
<1>13. MembersArePublished'
  BY <1>0, <1>1, <1>5 DEF LedgerInv, MembersArePublished
<1>14. CompletedReleasesChain'
  BY <1>0, <1>3, ChainStays DEF LedgerInv
<1> QED BY <1>6, <1>7, <1>8, <1>9, <1>10, <1>11, <1>12, <1>13, <1>14 DEF LedgerInv

\* Production that predates the ledger is written down: nothing existed before.
LEMMA AdoptStep ==
  ASSUME LedgerInv, NEW row, AdoptsLive(row), LedgerTypeOK'
  PROVE  LedgerInv'
<1> USE LedgerAssumption
<1>0. \A q \in Releases : release[q].state = "none"
  BY DEF LedgerInv, Numbered, AdoptsLive, Releases
<1>1. /\ 1 \in Releases
      /\ \A q \in Releases : release'[q] = IF q = 1 THEN row ELSE release[q]
      /\ row.state = "complete" /\ row.backfill /\ row.target \in Nat
      /\ prepared' = 1 /\ publisher' = publisher
  BY DEF LedgerInv, LedgerTypeOK, AdoptsLive, Releases, Batches
<1>2. Len(log') = 1 /\ log'[1] = 1 /\ log' # <<>>
  BY DEF AdoptsLive
<1>3. \A b \in Batches : publisher[b] = 0
  <2> SUFFICES ASSUME NEW b \in Batches, publisher[b] # 0 PROVE FALSE
    OBVIOUS
  <2>1. publisher[b] \in Releases
    BY DEF LedgerInv, LedgerTypeOK, Releases
  <2>2. release[publisher[b]].state = "complete"
    BY <2>1 DEF LedgerInv, MembersArePublished
  <2> QED BY <1>0, <2>1, <2>2
<1>4. \A q \in Releases : ~Active(q)'
  BY <1>0, <1>1 DEF Active, Settled
<1>5. Numbered'
  BY <1>0, <1>1 DEF Numbered, Releases
<1>6. LogIsComplete'
  BY <1>1, <1>2 DEF LogIsComplete
<1>7. ActiveBuildsOnFrontier' /\ ActiveIsAhead'
  BY <1>4 DEF ActiveBuildsOnFrontier, ActiveIsAhead
<1>8. VerifiedIsProved' /\ CompleteWasAuthorizedAndVerified'
  BY <1>0, <1>1 DEF VerifiedIsProved, CompleteWasAuthorizedAndVerified, BothDeployed, Recorded
<1>9. PublishedIsBehind'
  BY <1>1, <1>3 DEF PublishedIsBehind
<1>10. MembersArePublished'
  <2>1. \A r \in Releases : r # 0
    BY DEF Releases
  <2> QED BY <1>0, <1>1, <1>3, <2>1 DEF MembersArePublished
<1>11. CompletedReleasesChain'
  BY <1>2 DEF CompletedReleasesChain
<1> QED BY <1>5, <1>6, <1>7, <1>8, <1>9, <1>10, <1>11 DEF LedgerInv

\* A release completes: the frontier moves to its target and its candidate, and all
\* its members, unpublished so far, are marked.
LEMMA CompleteStep ==
  ASSUME LedgerInv, NEW r \in Releases, NEW row, Completes(r, row), LedgerTypeOK'
  PROVE  LedgerInv'
<1> USE LedgerAssumption
<1>0. /\ Active(r) /\ Keeps(r, row) /\ Replaces(r, row)
      /\ row.state = "complete" /\ row.authorized
      /\ \A e \in Evidence : row.events[e] # NoToken
      /\ prepared' = prepared /\ log' = Append(log, r)
  BY DEF Completes, Replaces
<1>1. \A q \in Releases : release'[q] = IF q = r THEN row ELSE release[q]
  BY <1>0, ReplacedRow DEF LedgerInv
<1>2. \A i \in 1..Len(log) : log[i] \in Releases /\ release'[log[i]] = release[log[i]]
  BY <1>0, LoggedStay DEF LedgerInv
<1>3. /\ Len(log) \in Nat /\ Len(log') = Len(log) + 1 /\ log' # <<>>
      /\ log'[Len(log')] = r
      /\ \A i \in 1..Len(log) : log'[i] = log[i]
  BY <1>0, Appended DEF LedgerInv, LedgerTypeOK
<1>4. /\ release[r] \in Release /\ release[r].state \notin {"none", "complete"}
      /\ ~release[r].backfill
      /\ Reached <= release[r].target
      /\ \A b \in release[r].members : b \in Batches /\ Reached < b /\ b <= release[r].target
      /\ release[r].schema = 1 => release[r].base = Base /\ release[r].base <= release[r].cand
      /\ Reached \in 0..LastBatch /\ release[r].target \in 0..LastBatch
  <2>1. release[r] \in Release
    BY DEF LedgerInv, LedgerTypeOK
  <2>2. release[r].target \in 0..LastBatch /\ release[r].members \in SUBSET Batches
    BY <2>1 DEF Release
  <2> QED BY <1>0, <2>1, <2>2, FrontierType
          DEF LedgerInv, ActiveIsAhead, ActiveBuildsOnFrontier, Active, Settled
<1>5. Reached' = release[r].target
  BY <1>0, <1>1, <1>3 DEF Reached, Published, Frontier, Keeps
<1>6. \A q \in Releases : ~Active(q)'
  BY <1>0, <1>1 DEF Active, Settled, LedgerInv, ActiveBuildsOnFrontier
<1>7. /\ \A b \in release[r].members : publisher[b] = 0
      /\ \A b \in Batches : publisher'[b] = IF b \in release[r].members THEN r ELSE publisher[b]
  <2>1. \A b \in Batches : publisher[b] # 0 => b <= Reached
    BY DEF LedgerInv, PublishedIsBehind
  <2>2. \A b \in release[r].members : publisher[b] = 0
    BY <1>4, <2>1 DEF Batches
  <2> QED BY <2>2 DEF Completes
<1>8. Numbered'
  BY <1>0, <1>1, <1>4 DEF LedgerInv, Numbered
<1>9. LogIsComplete'
  <2> SUFFICES ASSUME NEW i \in 1..Len(log') PROVE release'[log'[i]].state = "complete"
    BY DEF LogIsComplete
  <2>1. CASE i = Len(log')
    BY <1>0, <1>1, <1>3, <2>1
  <2>2. CASE i # Len(log')
    <3>1. i \in 1..Len(log)
      BY <1>3, <2>2
    <3> QED BY <1>2, <1>3, <3>1 DEF LedgerInv, LogIsComplete
  <2> QED BY <2>1, <2>2
<1>10. ActiveBuildsOnFrontier' /\ ActiveIsAhead'
  BY <1>6 DEF ActiveBuildsOnFrontier, ActiveIsAhead
<1>11. VerifiedIsProved'
  BY <1>0, <1>1 DEF LedgerInv, VerifiedIsProved, BothDeployed, Recorded
<1>12. CompleteWasAuthorizedAndVerified'
  BY <1>0, <1>1 DEF LedgerInv, CompleteWasAuthorizedAndVerified, Recorded
<1>13. PublishedIsBehind'
  <2>1. \A b \in Batches : publisher[b] # 0 => b <= Reached
    BY DEF LedgerInv, PublishedIsBehind
  <2> QED BY <1>4, <1>5, <1>7, <2>1 DEF PublishedIsBehind, Batches
<1>14. MembersArePublished'
  <2> SUFFICES ASSUME NEW b \in Batches, NEW q \in Releases
               PROVE  (/\ release'[q].state = "complete" /\ ~release'[q].backfill
                       /\ b \in release'[q].members) <=> publisher'[b] = q
    BY DEF MembersArePublished
  <2>1. (release[q].state = "complete" /\ ~release[q].backfill /\ b \in release[q].members)
          <=> publisher[b] = q
    BY DEF LedgerInv, MembersArePublished
  <2>2. q # 0
    BY DEF Releases
  <2>3. CASE q = r
    BY <1>0, <1>1, <1>4, <1>7, <2>1, <2>3 DEF Keeps
  <2>4. CASE q # r
    BY <1>1, <1>7, <2>1, <2>2, <2>4
  <2> QED BY <2>3, <2>4
<1>15. CompletedReleasesChain'
  <2> DEFINE Follow(x, y) ==
        x.schema = 1 => /\ x.base = y.cand /\ y.cand <= x.cand
                        /\ \A b \in x.members : y.target < b /\ b <= x.target
  <2> SUFFICES ASSUME NEW i \in 2..Len(log')
               PROVE  Follow(release'[log'[i]], release'[log'[i - 1]])
    BY DEF CompletedReleasesChain
  <2>1. CASE i = Len(log')
    <3>1. /\ Len(log) # 0 /\ i - 1 = Len(log) /\ Len(log) \in 1..Len(log)
          /\ log'[i - 1] = Frontier /\ release'[log'[i - 1]] = release[Frontier]
      BY <1>2, <1>3, <2>1 DEF Frontier
    <3>2. Base = release[Frontier].cand /\ Reached = release[Frontier].target
      BY <3>1 DEF Base, Reached, Published
    <3>3. release'[log'[i]] = row
      BY <1>1, <1>3, <2>1
    <3>4. Follow(row, release[Frontier])
      BY <1>0, <1>4, <3>2 DEF Keeps
    <3> QED BY <3>1, <3>3, <3>4
  <2>2. CASE i # Len(log')
    <3>1. i \in 2..Len(log) /\ i \in 1..Len(log) /\ i - 1 \in 1..Len(log)
      BY <1>3, <2>2
    <3>2. Follow(release[log[i]], release[log[i - 1]])
      BY <3>1 DEF LedgerInv, CompletedReleasesChain
    <3>3. /\ release'[log'[i]] = release[log[i]]
          /\ release'[log'[i - 1]] = release[log[i - 1]]
      BY <1>2, <1>3, <3>1
    <3> QED BY <3>2, <3>3
  <2> QED BY <2>1, <2>2
<1> QED BY <1>8, <1>9, <1>10, <1>11, <1>12, <1>13, <1>14, <1>15 DEF LedgerInv

-----------------------------------------------------------------------------
(* The theorems.                                                           *)

\* A new store satisfies the invariant.
LEMMA InvInit == Init => LedgerInv
<1> SUFFICES ASSUME Init PROVE LedgerInv
  OBVIOUS
<1> USE LedgerAssumption DEF Init
<1>1. \A r \in Releases : release[r] = Unused /\ release[r].state = "none"
  BY DEF Unused
<1>2. log = <<>> /\ Len(log) = 0
  OBVIOUS
<1>3. LedgerTypeOK
  <2>1. Unused \in Release
    BY DEF Unused, Release, States, Executing, Settled, Commits, Evidence, NoToken
  <2>2. \A r \in Releases : release[r].token <= issued
    BY <1>1 DEF Unused, NoToken
  <2>3. log \in Seq(Releases)
    BY <1>2
  <2> QED BY <2>1, <2>2, <2>3 DEF LedgerTypeOK, Phases
<1>4. \A r \in Releases : ~Active(r)
  BY <1>1 DEF Active
<1>5. Numbered
  BY <1>1 DEF Numbered, Releases
<1>6. LogIsComplete /\ CompletedReleasesChain
  BY <1>2 DEF LogIsComplete, CompletedReleasesChain
<1>7. ActiveBuildsOnFrontier /\ ActiveIsAhead
  BY <1>4 DEF ActiveBuildsOnFrontier, ActiveIsAhead
<1>8. VerifiedIsProved /\ CompleteWasAuthorizedAndVerified
  BY <1>1 DEF VerifiedIsProved, CompleteWasAuthorizedAndVerified
<1>9. PublishedIsBehind
  BY DEF PublishedIsBehind
<1>10. MembersArePublished
  <2>1. \A r \in Releases : r # 0
    BY DEF Releases
  <2> QED BY <1>1, <2>1 DEF MembersArePublished
<1> QED BY <1>3, <1>5, <1>6, <1>7, <1>8, <1>9, <1>10 DEF LedgerInv

\* Every step, whatever its shape, keeps it.
LEMMA InvStep == LedgerInv /\ [Next]_vars => LedgerInv'
<1> SUFFICES ASSUME LedgerInv, [Next]_vars PROVE LedgerInv'
  OBVIOUS
<1>1. LedgerTypeOK' /\ Shape
  BY TypeStep, NextShape DEF LedgerInv
<1> QED BY <1>1, QuietStep, EnlistStep, AdoptStep, AdvanceStep, CompleteStep DEF Shape

\* However the release RPCs interleave, the ledger keeps its inductive invariant.
THEOREM LedgerInvariant == Spec => []LedgerInv
BY InvInit, InvStep, PTL DEF Spec

\* The journal and the releases are well typed, and no release carries a fencing token
\* that was not issued.
THEOREM LedgerTypeCorrect == Spec => []LedgerTypeOK
<1>1. LedgerInv => LedgerTypeOK
  BY DEF LedgerInv
<1> QED BY <1>1, LedgerInvariant, PTL

\* However preparations, takeovers and restores race, one release is under way and
\* a batch release builds on what production was last told to serve.
THEOREM OneReleaseUnderWay == Spec => []ActiveBuildsOnFrontier
<1>1. LedgerInv => ActiveBuildsOnFrontier
  BY DEF LedgerInv
<1> QED BY <1>1, LedgerInvariant, PTL

\* Completed batch releases follow each other without overlap.
THEOREM ReleasesChain == Spec => []CompletedReleasesChain
<1>1. LedgerInv => CompletedReleasesChain
  BY DEF LedgerInv
<1> QED BY <1>1, LedgerInvariant, PTL

\* No sequence of claims, takeovers, failures and restores completes a release that
\* was not authorized, deployed to both targets and verified.
THEOREM NothingCompletesUnproved == Spec => []CompleteWasAuthorizedAndVerified
<1>1. LedgerInv => CompleteWasAuthorizedAndVerified
  BY DEF LedgerInv
<1> QED BY <1>1, LedgerInvariant, PTL

\* A batch is marked as published by a release exactly if it is a member of it and
\* the release is complete.
THEOREM MarkedExactly == Spec => []MembersArePublished
<1>1. LedgerInv => MembersArePublished
  BY DEF LedgerInv
<1> QED BY <1>1, LedgerInvariant, PTL

-----------------------------------------------------------------------------
(* The ledger implements the release train.                                *)

\* A new store is a train that has not begun.
LEMMA TrainInitially == Init => Train!TrainInit
<1> SUFFICES ASSUME Init PROVE Train!TrainInit
  OBVIOUS
<1>1. \A r \in Releases : ~Active(r)
  BY DEF Init, Unused, Active
<1> QED BY <1>1 DEF Init, Train!TrainInit, Reached, Published, Platform, NoneActive

\* The platform, seen from the release under way.
PlatformView ==
    /\ NoneActive => Platform = "empty"
    /\ \A r \in Releases : Active(r) =>
         Platform = IF release[r].state = "prepared" THEN "proposed" ELSE "approved"

\* The invariant determines what stands on the platform.
LEMMA PlatformFacts == LedgerInv => PlatformView
<1> SUFFICES ASSUME LedgerInv PROVE PlatformView
  OBVIOUS
<1>1. \A r \in Releases : Active(r) =>
        /\ release[r].authorized <=> release[r].state # "prepared"
        /\ \A q \in Releases : Active(q) => q = r
  BY DEF LedgerInv, ActiveIsAhead, ActiveBuildsOnFrontier
<1> QED BY <1>1 DEF PlatformView, Platform, NoneActive

\* The same after a step.
LEMMA PlatformFactsNext == LedgerInv' => PlatformView'
BY PlatformFacts, PTL

\* Each shape is a step of the train or a stutter.
LEMMA TrainStep == LedgerInv /\ [Next]_vars => [Train!TrainNext]_(Train!trainVars)
<1> SUFFICES ASSUME LedgerInv, [Next]_vars PROVE [Train!TrainNext]_(Train!trainVars)
  OBVIOUS
<1> USE LedgerAssumption
<1>0. /\ LedgerInv' /\ Shape /\ prepared \in Nat
      /\ PlatformView /\ PlatformView'
  BY InvStep, NextShape, PlatformFacts, PlatformFactsNext DEF LedgerInv, LedgerTypeOK
<1>1. CASE Quiet
  <2>1. \A r \in Releases : Active(r)' <=> Active(r)
    BY <1>1 DEF Quiet, Active
  <2>2. Platform' = Platform
    BY <1>1, <2>1 DEF Quiet, Platform, NoneActive
  <2> QED BY <1>1, <2>2, FrontierStays DEF Quiet, LedgerInv, Train!trainVars
<1>2. ASSUME NEW row, Enlists(row) PROVE Train!Propose
  <2>1. Platform = "empty"
    BY <1>0, <1>2 DEF Enlists, PlatformView
  <2>2. PICK new \in Releases : release'[new].state = "prepared"
    <3>1. LedgerTypeOK
      BY DEF LedgerInv
    <3>2. row.state = "prepared"
      BY <1>2 DEF Enlists
    <3>3. prepared + 1 \in Releases /\ release'[prepared + 1] = row
      BY <1>2, <3>1, EnlistedRow
    <3> QED BY <3>2, <3>3
  <2>3. Active(new)'
    BY <2>2 DEF Active, Settled
  <2>4. Platform' = "proposed"
    BY <1>0, <2>2, <2>3 DEF PlatformView
  <2>5. prepared' # 0 /\ log' = log
    BY <1>0, <1>2 DEF Enlists
  <2>6. Reached' = Reached
    BY <1>2, <2>5, FrontierStays DEF LedgerInv
  <2> QED BY <2>1, <2>4, <2>5, <2>6 DEF Train!Propose
<1>3. ASSUME NEW row, AdoptsLive(row) PROVE Train!Adopt
  <2>1. \A q \in Releases : release[q].state = "none"
    BY <1>3 DEF LedgerInv, Numbered, AdoptsLive, Releases
  <2>2. \A q \in Releases : ~Active(q) /\ ~Active(q)'
    BY <1>3, <2>1 DEF Active, Settled, AdoptsLive, LedgerInv, LedgerTypeOK
  <2>3. Platform = "empty" /\ Platform' = "empty"
    BY <2>2 DEF Platform, NoneActive
  <2>4. release'[1] = row
    BY <1>3 DEF AdoptsLive, LedgerInv, LedgerTypeOK, Releases
  <2>5. Reached' = row.target
    BY <1>3, <2>4 DEF AdoptsLive, Reached, Published, Frontier
  <2> QED BY <1>3, <2>3, <2>5 DEF Train!Adopt, AdoptsLive, Batches
<1>4. ASSUME NEW r \in Releases, NEW row, Replaces(r, row)
      PROVE  /\ Active(r) /\ release'[r] = row /\ prepared' = prepared
             /\ row.authorized <=> row.state # "prepared"
             /\ prepared # 0
             /\ \A q \in Releases : Active(q)' => q = r
             /\ Platform = IF release[r].state = "prepared" THEN "proposed" ELSE "approved"
  <2>1. Active(r) /\ \A q \in Releases : release'[q] = IF q = r THEN row ELSE release[q]
    BY <1>4, ReplacedRow DEF LedgerInv, Replaces
  <2>2. \A q \in Releases : Active(q)' => q = r
    BY <2>1 DEF Active, LedgerInv, ActiveBuildsOnFrontier
  <2>3. prepared # 0
    BY <2>1 DEF Active, LedgerInv, Numbered, Releases
  <2> QED BY <1>0, <1>4, <2>1, <2>2, <2>3 DEF Replaces, PlatformView
<1>5. ASSUME NEW r \in Releases, NEW row, Advances(r, row)
      PROVE  [Train!TrainNext]_(Train!trainVars)
  <2>0. /\ Replaces(r, row) /\ row.state \notin {"none", "complete"}
        /\ log' = log
        /\ row.state = "prepared" => release[r].state = "prepared"
        /\ row.state = "restored" => release[r].state = "restoring"
    BY <1>5 DEF Advances
  <2>1. Reached' = Reached
    BY <2>0, FrontierStays DEF LedgerInv
  <2>2. CASE row.state = "restored"
    <3>1. \A q \in Releases : ~Active(q)'
      BY <1>4, <2>0, <2>2 DEF Active, Settled
    <3>2. Platform' = "empty"
      BY <3>1 DEF Platform, NoneActive
    <3>3. Platform = "approved"
      BY <1>4, <2>0, <2>2
    <3> QED BY <1>4, <2>0, <2>1, <3>2, <3>3 DEF Train!Withdraw, Train!TrainNext
  <2>3. CASE row.state # "restored"
    <3>1. Active(r)'
      BY <1>4, <2>0, <2>3 DEF Active, Settled
    <3>2. Platform' = IF row.state = "prepared" THEN "proposed" ELSE "approved"
      BY <1>0, <1>4, <2>0, <3>1 DEF PlatformView
    <3> QED BY <1>4, <2>0, <2>1, <3>2
            DEF Train!Approve, Train!TrainNext, Train!trainVars
  <2> QED BY <2>2, <2>3
<1>6. ASSUME NEW r \in Releases, NEW row, Completes(r, row) PROVE Train!Ship
  <2>0. /\ Replaces(r, row) /\ row.state = "complete" /\ release[r].state = "verified"
        /\ log' = Append(log, r)
    BY <1>6 DEF Completes
  <2>1. Platform = "approved"
    BY <1>4, <2>0
  <2>2. \A q \in Releases : ~Active(q)'
    BY <1>4, <2>0 DEF Active, Settled
  <2>3. Platform' = "empty"
    BY <2>2 DEF Platform, NoneActive
  <2>4. Reached' = release[r].target
    <3>1. log' # <<>> /\ log'[Len(log')] = r
      BY <2>0, Appended DEF LedgerInv, LedgerTypeOK
    <3> QED BY <1>4, <2>0, <3>1 DEF Reached, Published, Frontier, Replaces, Keeps
  <2>5. release[r].target \in Reached..LastBatch
    <3>1. Active(r)
      BY <1>4, <2>0
    <3>2. Reached \in 0..LastBatch /\ release[r].target \in 0..LastBatch
      BY FrontierType DEF LedgerInv, LedgerTypeOK, Release
    <3> QED BY <3>1, <3>2 DEF LedgerInv, ActiveIsAhead
  <2> QED BY <1>4, <2>0, <2>1, <2>3, <2>4, <2>5 DEF Train!Ship
<1> QED BY <1>0, <1>1, <1>2, <1>3, <1>5, <1>6 DEF Shape, Train!TrainNext

\* The published frontier only moves forward, one approved release at a time: the
\* ledger implements ReleaseTrain.
THEOREM LedgerImplementsTrain == Spec => RunsLikeATrain
BY TrainInitially, TrainStep, LedgerInvariant, PTL DEF Spec, RunsLikeATrain, Train!TrainSpec
=============================================================================
