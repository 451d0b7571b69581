--------------------------- MODULE ShippingProofs ---------------------------
(***************************************************************************)
(* That production is what the ledger says, and the way back known,        *)
(* whatever ticks die or are taken over: for any number of releases,       *)
(* tokens and artifacts, as long as no operation outlives its lease. That  *)
(* a requested revert is on the branch once and done when DEV serves it,   *)
(* and that a transition of canonical main leaves a true receipt, whatever *)
(* dies in between and whoever else moves the branch.                      *)
(***************************************************************************)
EXTENDS ReleaseExecutor, RevertFlow, CanonicalRefCas, TLAPS

-----------------------------------------------------------------------------
(* The release executor.                                                   *)

(* The inductive invariant.                                                *)

RestStates == {"none", "authorized", "complete", "restored", "failed_fenced"}
LaneStates == BeingExecuted \cup RestStates \cup {"restoring"}
Events == [by : Nat, id : Nat]
LaneRecords == [state : LaneStates, schema : {1, 2}, base : Shas, cand : Shas, fence : Nat,
                leased : BOOLEAN, events : [Milestones -> Events]]
JobRecords == [pc : {"idle", "next", "operating", "record", "check", "event", "verified", "fencing"},
               mode : {"none", "deploy", "restore"}, fence : Nat, todo : SUBSET Targets,
               artifact : Nat]
Artifacts == [sha : Shas, no : Nat]
Operations == [target : Targets, sha : Shas, artifact : Nat]

\* What the proof needs of the types: not the bounds of what is counted.
ExecutorTyped ==
    /\ order \in {<<"pages", "worker">>, <<"worker", "pages">>}
    /\ attempt \in 0..LastAttempt /\ fences \in Nat
    /\ lane \in LaneRecords
    /\ serving \in [Targets -> Artifacts] /\ made \in [Targets -> Nat]
    /\ registry \in [Shas -> [Targets -> Nat]]
    /\ job \in JobRecords
    /\ stray # NoOperation => stray \in Operations

\* A release that is not carried out holds no lease; its events fit its state.
LaneFits ==
    /\ lane.state = "none" => lane.cand = 0 /\ lane.base = 0
    /\ lane.state # "none" => lane.base < lane.cand
    /\ lane.state = "authorized" => \A t \in Targets : ~OnRecord(Deployed(t))
    /\ lane.state = "verified" => \A t \in Targets : OnRecord(Deployed(t))
    /\ lane.state \in RestStates => ~lane.leased

\* A target serves the base or the candidate, and of either the artifact on record; a
\* target whose event is recorded serves the candidate.
Onward(t) == serving[t].sha = lane.cand /\ registry[lane.cand][t] # 0
ArtifactsFit ==
    \A t \in Targets :
        /\ serving[t].sha \in {lane.base, lane.cand}
        /\ serving[t].sha = lane.base => serving[t].no = registry[lane.base][t]
        /\ Onward(t) => serving[t].no = registry[lane.cand][t]
StatesFit ==
    \A t \in Targets :
        /\ lane.state \in {"none", "authorized", "restored"} => serving[t].sha = lane.base
        /\ lane.state = "complete" => Onward(t)
        /\ lane.state \in BeingExecuted /\ OnRecord(Deployed(t)) => Onward(t)
ServingFits == ArtifactsFit /\ StatesFit /\ MixIsCompatible /\ BaseIsRecorded

\* An operation in progress, by a tick or after its death, is the next one on the way.
MayDo(t, sha, no) ==
    \/ /\ lane.state \in BeingExecuted /\ sha = lane.cand /\ no = registry[lane.cand][t]
       /\ ~OnRecord(Deployed(t)) /\ (t = order[2] => OnRecord(Deployed(order[1])))
    \/ /\ lane.state = "restoring" /\ sha = lane.base /\ no = registry[lane.base][t]
       /\ t = order[1] => serving[order[2]].sha = lane.base

\* A tick at work does what the state of the release asks for, and has still to do what
\* is not done.
AtWork == job.pc \notin {"idle", "fencing"}
Deploying ==
    /\ job.mode = "deploy" /\ lane.state \in BeingExecuted
    /\ \A t \in Targets : t \in job.todo <=> ~OnRecord(Deployed(t))
Restoring ==
    /\ job.mode = "restore" /\ lane.state = "restoring"
    /\ \A t \in Targets \ job.todo : serving[t].sha = lane.base
Assigned == AtWork => job.fence # 0 /\ (Deploying \/ Restoring)

\* What a tick knows at each of its places.
PlacesFit ==
    /\ job.pc \in {"operating", "record", "check", "event"} => job.todo # {}
    /\ job.pc = "operating" => lane.leased /\ MayDo(Target, WantedSha, job.artifact)
    /\ job.pc = "record" =>
         /\ job.mode = "deploy" /\ job.artifact # 0
         /\ serving[Target] = [sha |-> lane.cand, no |-> job.artifact]
    /\ job.pc = "check" /\ job.mode = "deploy" => registry[lane.cand][Target] # 0
    /\ job.pc = "event" => job.mode = "deploy" /\ Onward(Target)

\* What a dead tick left behind keeps everybody else out by its lease.
StrayFits ==
    stray # NoOperation =>
        job.pc = "idle" /\ lane.leased /\ MayDo(stray.target, stray.sha, stray.artifact)

ExecutorInv == ExecutorTyped /\ LaneFits /\ ServingFits /\ Assigned /\ PlacesFit /\ StrayFits

-----------------------------------------------------------------------------
(* Targets and milestones.                                                 *)

USE ExecutorAssumption

LEMMA OrderFacts ==
  ASSUME ExecutorTyped
  PROVE  /\ order[1] \in Targets /\ order[2] \in Targets /\ order[1] # order[2]
         /\ \A t \in Targets : t = order[1] \/ t = order[2]
BY DEF ExecutorTyped, Targets

LEMMA TargetFacts ==
  ASSUME ExecutorTyped, job.todo # {}
  PROVE  /\ Target \in job.todo /\ Target \in Targets
         /\ job.mode = "deploy" /\ Target = order[2] => order[1] \notin job.todo
         /\ job.mode # "deploy" /\ Target = order[1] => order[2] \notin job.todo
<1>1. job.todo \subseteq Targets
  BY DEF ExecutorTyped, JobRecords
<1>2. CASE job.mode = "deploy"
  BY <1>1, <1>2, OrderFacts DEF Target, Way
<1>3. CASE job.mode # "deploy"
  <2>1. Way[1] = order[2] /\ Way[2] = order[1]
    BY <1>3 DEF Way, Backwards
  <2> QED
    BY <1>1, <1>3, <2>1, OrderFacts DEF Target
<1> QED
  BY <1>2, <1>3

LEMMA MilestoneFacts ==
  /\ \A t \in Targets : Deployed(t) \in Milestones /\ Deployed(t) \notin {"verified", "complete"}
  /\ \A t, u \in Targets : Deployed(t) = Deployed(u) => t = u
BY DEF Targets, Deployed, Milestones

LEMMA ZeroIsSha == 0 \in Shas /\ \A s \in Shas : s \in Nat
BY DEF Shas

-----------------------------------------------------------------------------
(* The first state, and the steps of the ledger.                           *)

LEMMA InitExecutor == ExecutorInit => ExecutorInv
<1> SUFFICES ASSUME ExecutorInit PROVE ExecutorInv
  OBVIOUS
<1>1. ExecutorTyped
  <2>1. lane \in LaneRecords
    BY ZeroIsSha DEF ExecutorInit, LaneRecords, LaneStates, RestStates, Events, NoEvent
  <2>2. job \in JobRecords
    BY DEF ExecutorInit, JobRecords, Idle
  <2>3. serving \in [Targets -> Artifacts] /\ made \in [Targets -> Nat]
    BY ZeroIsSha DEF ExecutorInit, Artifacts
  <2>4. registry \in [Shas -> [Targets -> Nat]]
    BY DEF ExecutorInit
  <2> QED
    BY <2>1, <2>2, <2>3, <2>4 DEF ExecutorInit, ExecutorTyped
<1>2. LaneFits
  BY DEF ExecutorInit, LaneFits, BeingExecuted
<1>3. ServingFits
  <2>1. \A t \in Targets : serving[t] = [sha |-> 0, no |-> 1] /\ registry[0][t] = 1
    BY ZeroIsSha DEF ExecutorInit
  <2>2. lane.base = 0 /\ lane.cand = 0 /\ lane.state = "none"
    BY DEF ExecutorInit
  <2> QED
    BY <1>1, <2>1, <2>2, OrderFacts
    DEF ServingFits, ArtifactsFit, StatesFit, MixIsCompatible, BaseIsRecorded, Onward, BeingExecuted
<1>4. Assigned /\ PlacesFit /\ StrayFits
  BY DEF ExecutorInit, Idle, Assigned, AtWork, PlacesFit, StrayFits
<1> QED
  BY <1>1, <1>2, <1>3, <1>4 DEF ExecutorInv

\* What rests is what the ledger served last, at both targets, and nothing is under way.
LEMMA RestFacts ==
  ASSUME ExecutorInv, lane.state \in {"none", "complete", "restored"}
  PROVE  /\ LastServed \in Shas
         /\ \A t \in Targets : /\ serving[t].sha = LastServed
                               /\ serving[t].no = registry[LastServed][t]
                               /\ registry[LastServed][t] # 0
         /\ ~AtWork /\ stray = NoOperation
<1>1. ~AtWork
  BY DEF ExecutorInv, Assigned, AtWork, Deploying, Restoring, BeingExecuted
<1>2. stray = NoOperation
  BY DEF ExecutorInv, StrayFits, LaneFits, RestStates
<1>3. CASE lane.state = "complete"
  BY <1>1, <1>2, <1>3
  DEF ExecutorInv, ExecutorTyped, LaneRecords, LastServed, ServingFits, ArtifactsFit, StatesFit, Onward
<1>4. CASE lane.state \in {"none", "restored"}
  BY <1>1, <1>2, <1>4
  DEF ExecutorInv, ExecutorTyped, LaneRecords, LastServed, ServingFits, ArtifactsFit, StatesFit, BaseIsRecorded
<1> QED
  BY <1>3, <1>4

LEMMA AuthorizeKeeps ==
  ASSUME ExecutorInv, NEW sha \in Shas, NEW schema \in {1, 2}, AuthorizeRelease(sha, schema)
  PROVE  ExecutorInv'
<1>1. /\ lane.state \in {"none", "complete", "restored"} /\ LastServed < sha
      /\ attempt < LastAttempt /\ attempt' = attempt + 1
      /\ UNCHANGED <<order, fences, serving, made, registry, job, stray>>
  <2>1. lane.state \in {"none", "complete", "restored"} /\ sha \in (LastServed + 1)..(attempt + 1)
    BY DEF AuthorizeRelease
  <2>2. LastServed \in Nat
    BY <2>1, RestFacts, ZeroIsSha
  <2>3. LastServed < sha
    BY <2>1, <2>2, ZeroIsSha
  <2> QED
    BY <2>1, <2>3 DEF AuthorizeRelease
<1>2. /\ lane'.state = "authorized" /\ lane'.base = LastServed /\ lane'.cand = sha
      /\ lane'.leased = FALSE
  BY DEF AuthorizeRelease
<1>3. \A t \in Targets : ~OnRecord(Deployed(t))'
  BY MilestoneFacts DEF AuthorizeRelease, OnRecord
<1>4. ExecutorTyped'
  <2>1. lane' \in LaneRecords
    BY <1>1, RestFacts DEF AuthorizeRelease, LaneRecords, LaneStates, RestStates, Events, NoEvent
  <2> QED
    BY <1>1, <2>1 DEF ExecutorInv, ExecutorTyped
<1>5. LaneFits'
  BY <1>1, <1>2, <1>3 DEF LaneFits
<1>6. ServingFits'
  BY <1>1, <1>2, RestFacts, ZeroIsSha, OrderFacts
  DEF ServingFits, ArtifactsFit, StatesFit, MixIsCompatible, BaseIsRecorded, Onward, BeingExecuted,
      ExecutorInv
<1>7. Assigned' /\ PlacesFit' /\ StrayFits'
  BY <1>1, RestFacts DEF Assigned, PlacesFit, StrayFits, AtWork
<1> QED
  BY <1>4, <1>5, <1>6, <1>7 DEF ExecutorInv

LEMMA LeaseOverKeeps ==
  ASSUME ExecutorInv, ~MayLinger, LeaseOver
  PROVE  ExecutorInv'
<1>1. /\ stray = NoOperation /\ job.pc # "operating" /\ lane' = [lane EXCEPT !.leased = FALSE]
      /\ UNCHANGED <<order, attempt, fences, serving, made, registry, job, stray>>
  BY DEF LeaseOver
<1>2. lane \in LaneRecords
  BY DEF ExecutorInv, ExecutorTyped
<1>3. /\ lane'.state = lane.state /\ lane'.base = lane.base /\ lane'.cand = lane.cand
      /\ lane'.events = lane.events /\ lane'.leased = FALSE /\ lane' \in LaneRecords
  BY <1>1, <1>2 DEF LaneRecords
<1>4. ExecutorTyped'
  BY <1>1, <1>3 DEF ExecutorInv, ExecutorTyped
<1>5. LaneFits'
  BY <1>3 DEF ExecutorInv, LaneFits, OnRecord
<1>6. ServingFits'
  BY <1>1, <1>3
  DEF ExecutorInv, ServingFits, ArtifactsFit, StatesFit, MixIsCompatible, BaseIsRecorded, Onward, OnRecord
<1>7. Assigned'
  BY <1>1, <1>3 DEF ExecutorInv, Assigned, AtWork, Deploying, Restoring, OnRecord
<1>8. PlacesFit'
  BY <1>1, <1>3 DEF ExecutorInv, PlacesFit, Onward, Target, Way
<1>9. StrayFits'
  BY <1>1 DEF StrayFits
<1> QED
  BY <1>4, <1>5, <1>6, <1>7, <1>8, <1>9 DEF ExecutorInv

-----------------------------------------------------------------------------
(* Claims.                                                                 *)

LEMMA FencedFacts ==
  ASSUME ExecutorTyped, NEW s \in LaneStates, lane' = Fenced(s), fences' = fences + 1
  PROVE  /\ lane' \in LaneRecords /\ fences' \in Nat /\ lane'.state = s /\ lane'.leased = TRUE
         /\ lane'.base = lane.base /\ lane'.cand = lane.cand /\ lane'.events = lane.events
<1> DEFINE next == fences + 1
<1>1. next \in Nat /\ lane \in LaneRecords
  BY DEF ExecutorTyped
<1>2. lane' = [lane EXCEPT !.state = s, !.fence = next, !.leased = TRUE] /\ fences' = next
  BY DEF Fenced
<1> HIDE DEF next
<1> QED
  BY <1>1, <1>2 DEF LaneRecords

\* Nobody is under way where a release may be claimed.
LEMMA Alone ==
  ASSUME ExecutorInv, lane.state \in RestStates \/ ~lane.leased \/ job.pc # "idle"
  PROVE  stray = NoOperation
BY DEF ExecutorInv, StrayFits, LaneFits

LEMMA ClaimToDeployKeeps ==
  ASSUME ExecutorInv, ClaimToDeploy
  PROVE  ExecutorInv'
<1>1. PICK s \in BeingExecuted :
        /\ lane' = Fenced(s)
        /\ lane.state = "authorized" \/ (lane.state = s /\ ~lane.leased)
  BY DEF ClaimToDeploy, BeingExecuted
<1>2. /\ fences' = fences + 1 /\ UNCHANGED <<order, attempt, serving, made, registry, stray>>
      /\ job' = [pc |-> "next", mode |-> "deploy", fence |-> fences + 1,
                 todo |-> {t \in Targets : ~OnRecord(Deployed(t))}, artifact |-> 0]
  BY DEF ClaimToDeploy, Idle
<1>3. ExecutorTyped /\ s \in LaneStates
  BY <1>1 DEF ExecutorInv, LaneStates
<1>4. /\ lane' \in LaneRecords /\ fences' \in Nat /\ lane'.state = s /\ lane'.leased = TRUE
      /\ lane'.base = lane.base /\ lane'.cand = lane.cand /\ lane'.events = lane.events
  BY <1>1, <1>2, <1>3, FencedFacts
<1>5. /\ job' \in JobRecords /\ job'.pc = "next" /\ job'.mode = "deploy" /\ job'.fence # 0
      /\ \A t \in Targets : t \in job'.todo <=> ~OnRecord(Deployed(t))
  <2>1. fences + 1 \in Nat /\ fences + 1 # 0 /\ 0 \in Nat
    BY <1>3 DEF ExecutorTyped
  <2> QED
    BY <1>2, <2>1 DEF JobRecords
<1>6. lane.state = "authorized" => s = "executing" \/ \A t \in Targets : ~OnRecord(Deployed(t))
  BY DEF ExecutorInv, LaneFits
<1>7. ExecutorTyped'
  BY <1>2, <1>3, <1>4, <1>5 DEF ExecutorTyped
<1>8. LaneFits'
  <2>1. s = "verified" => lane.state = "verified"
    BY <1>1 DEF ClaimToDeploy, Fenced, ExecutorInv, ExecutorTyped, LaneRecords
  <2> QED
    BY <1>1, <1>4, <2>1 DEF ExecutorInv, LaneFits, OnRecord, BeingExecuted, RestStates
<1>9. ServingFits'
  BY <1>1, <1>2, <1>4, <1>6
  DEF ExecutorInv, LaneFits, ServingFits, ArtifactsFit, StatesFit, MixIsCompatible, BaseIsRecorded,
      Onward, OnRecord, BeingExecuted
<1>10. Assigned' /\ PlacesFit' /\ StrayFits'
  <2>1. stray' = NoOperation
    BY <1>1, <1>2, Alone DEF RestStates
  <2> QED
    BY <1>4, <1>5, <2>1 DEF Assigned, AtWork, Deploying, PlacesFit, StrayFits, OnRecord
<1> QED
  BY <1>7, <1>8, <1>9, <1>10 DEF ExecutorInv

LEMMA ClaimToRestoreKeeps ==
  ASSUME ExecutorInv, ClaimToRestore
  PROVE  ExecutorInv'
<1>1. /\ lane' = Fenced("restoring") /\ fences' = fences + 1
      /\ lane.state = "failed_fenced" \/ (lane.state = "restoring" /\ ~lane.leased)
      /\ UNCHANGED <<order, attempt, serving, made, registry, stray>>
      /\ job' = [pc |-> "next", mode |-> "restore", fence |-> fences + 1, todo |-> Targets,
                 artifact |-> 0]
  BY DEF ClaimToRestore, Idle
<1>2. ExecutorTyped
  BY DEF ExecutorInv
<1>3. /\ lane' \in LaneRecords /\ fences' \in Nat /\ lane'.state = "restoring" /\ lane'.leased = TRUE
      /\ lane'.base = lane.base /\ lane'.cand = lane.cand /\ lane'.events = lane.events
  BY <1>1, <1>2, FencedFacts DEF LaneStates
<1>4. /\ job' \in JobRecords /\ job'.pc = "next" /\ job'.mode = "restore" /\ job'.fence # 0
      /\ job'.todo = Targets
  <2>1. fences + 1 \in Nat /\ fences + 1 # 0 /\ 0 \in Nat
    BY <1>2 DEF ExecutorTyped
  <2> QED
    BY <1>1, <2>1 DEF JobRecords
<1>5. ExecutorTyped'
  BY <1>1, <1>2, <1>3, <1>4 DEF ExecutorTyped
<1>6. LaneFits'
  BY <1>1, <1>3 DEF ExecutorInv, LaneFits, RestStates
<1>7. ServingFits'
  BY <1>1, <1>3
  DEF ExecutorInv, ServingFits, ArtifactsFit, StatesFit, MixIsCompatible, BaseIsRecorded, Onward,
      BeingExecuted
<1>8. Assigned' /\ PlacesFit' /\ StrayFits'
  <2>1. stray' = NoOperation
    BY <1>1, Alone DEF RestStates
  <2> QED
    BY <1>3, <1>4, <2>1 DEF Assigned, AtWork, Restoring, PlacesFit, StrayFits
<1> QED
  BY <1>5, <1>6, <1>7, <1>8 DEF ExecutorInv

-----------------------------------------------------------------------------
(* Steps of the tick alone.                                                *)

LEMMA TickKeeps ==
  ASSUME ExecutorInv, job.pc # "idle", job' \in JobRecords, Assigned', PlacesFit',
         UNCHANGED <<order, attempt, lane, fences, serving, made, registry, stray>>
  PROVE  ExecutorInv'
<1>1. ExecutorTyped'
  BY DEF ExecutorInv, ExecutorTyped
<1>2. LaneFits'
  BY DEF ExecutorInv, LaneFits, OnRecord
<1>3. ServingFits'
  BY DEF ExecutorInv, ServingFits, ArtifactsFit, StatesFit, MixIsCompatible, BaseIsRecorded, Onward,
         OnRecord
<1>4. StrayFits'
  BY Alone DEF StrayFits
<1> QED
  BY <1>1, <1>2, <1>3, <1>4 DEF ExecutorInv

\* A tick that raises knows nothing any more.
LEMMA RaisedFits ==
  ASSUME ExecutorTyped, job' = Raised
  PROVE  job' \in JobRecords /\ job'.pc = "fencing" /\ Assigned' /\ PlacesFit'
<1>1. job' \in JobRecords /\ job'.pc = "fencing"
  BY DEF ExecutorTyped, JobRecords, Raised
<1> QED
  BY <1>1 DEF Assigned, AtWork, PlacesFit

LEMMA RaiseKeeps ==
  ASSUME ExecutorInv, job.pc # "idle", job' = Raised,
         UNCHANGED <<order, attempt, lane, fences, serving, made, registry, stray>>
  PROVE  ExecutorInv'
BY TickKeeps, RaisedFits DEF ExecutorInv

\* The duty of a tick is the same after a step within it that leaves its targets.
LEMMA SameDuty ==
  ASSUME ExecutorInv, AtWork, job'.fence = job.fence, job'.mode = job.mode,
         UNCHANGED <<lane, serving>>, job'.todo = job.todo
  PROVE  Assigned'
BY DEF ExecutorInv, Assigned, AtWork, Deploying, Restoring, OnRecord

LEMMA DeployNextKeeps ==
  ASSUME ExecutorInv, DeployNext
  PROVE  ExecutorInv'
<1>1. /\ job.pc = "next" /\ job.mode = "deploy" /\ job.todo # {} /\ ExecutorTyped
      /\ UNCHANGED <<order, attempt, lane, fences, serving, made, registry, stray>>
  BY DEF DeployNext, ExecutorInv
<1>2. /\ Target \in job.todo /\ Target \in Targets
      /\ Target = order[2] => order[1] \notin job.todo
  BY <1>1, TargetFacts
<1>3. AtWork /\ Deploying
  BY <1>1 DEF ExecutorInv, Assigned, AtWork, Restoring
<1>4. job \in JobRecords /\ registry[lane.cand][Target] \in Nat
  BY <1>1, <1>2 DEF ExecutorTyped, LaneRecords
<1>5. CASE job' = Raised
  BY <1>1, <1>5, RaiseKeeps
<1>6. ASSUME NEW no, no = registry[lane.cand][Target], HasLease,
             job' = [job EXCEPT !.pc = "operating", !.artifact = no]
      PROVE  ExecutorInv'
  <2>1. /\ job' \in JobRecords /\ job'.pc = "operating" /\ job'.fence = job.fence
        /\ job'.mode = "deploy" /\ job'.todo = job.todo /\ job'.artifact = no
    BY <1>1, <1>4, <1>6 DEF JobRecords
  <2>2. Target' = Target /\ WantedSha' = lane.cand
    BY <1>1, <2>1 DEF Target, Way, WantedSha
  <2>3. MayDo(Target, lane.cand, no)
    BY <1>2, <1>3, <1>6, OrderFacts, <1>1 DEF MayDo, Deploying
  <2>4. MayDo(Target, WantedSha, job.artifact)'
    BY <1>1, <2>1, <2>2, <2>3 DEF MayDo, OnRecord
  <2>5. PlacesFit'
    BY <1>1, <1>6, <2>1, <2>4 DEF PlacesFit, HasLease
  <2>6. Assigned'
    BY <1>1, <1>3, <2>1, SameDuty
  <2> QED
    BY <1>1, <2>1, <2>5, <2>6, TickKeeps
<1>7. ASSUME registry[lane.cand][Target] # 0, serving[Target].sha = lane.cand,
             job' = [job EXCEPT !.pc = "event", !.artifact = registry[lane.cand][Target]]
      PROVE  ExecutorInv'
  <2>1. /\ job' \in JobRecords /\ job'.pc = "event" /\ job'.fence = job.fence
        /\ job'.mode = "deploy" /\ job'.todo = job.todo
    BY <1>1, <1>4, <1>7 DEF JobRecords
  <2>2. Target' = Target
    BY <1>1, <2>1 DEF Target, Way
  <2>3. PlacesFit'
    BY <1>1, <1>7, <2>1, <2>2 DEF PlacesFit, Onward
  <2>4. Assigned'
    BY <1>1, <1>3, <2>1, SameDuty
  <2> QED
    BY <1>1, <2>1, <2>3, <2>4, TickKeeps
<1> QED
  BY <1>5, <1>6, <1>7 DEF DeployNext, Operates, Registered, LiveSha

LEMMA RestoreNextKeeps ==
  ASSUME ExecutorInv, RestoreNext
  PROVE  ExecutorInv'
<1>1. /\ job.pc = "next" /\ job.mode = "restore" /\ job.todo # {} /\ ExecutorTyped
      /\ UNCHANGED <<order, attempt, lane, fences, serving, made, registry, stray>>
  BY DEF RestoreNext, ExecutorInv
<1>2. /\ Target \in job.todo /\ Target \in Targets
      /\ Target = order[1] => order[2] \notin job.todo
  BY <1>1, TargetFacts
<1>3. AtWork /\ Restoring
  BY <1>1 DEF ExecutorInv, Assigned, AtWork, Deploying
<1>4. job \in JobRecords /\ registry[lane.base][Target] \in Nat
  BY <1>1, <1>2 DEF ExecutorTyped, LaneRecords
<1>5. CASE job' = Raised
  BY <1>1, <1>5, RaiseKeeps
<1>6. ASSUME HasLease, NEW no, no = registry[lane.base][Target],
             job' = [job EXCEPT !.pc = "operating", !.artifact = no]
      PROVE  ExecutorInv'
  <2>1. /\ job' \in JobRecords /\ job'.pc = "operating" /\ job'.fence = job.fence
        /\ job'.mode = "restore" /\ job'.todo = job.todo /\ job'.artifact = no
    BY <1>1, <1>4, <1>6 DEF JobRecords
  <2>2. Target' = Target /\ WantedSha' = lane.base
    BY <1>1, <2>1 DEF Target, Way, WantedSha
  <2>3. MayDo(Target, lane.base, no)
    BY <1>1, <1>2, <1>3, <1>6, OrderFacts DEF MayDo, Restoring
  <2>4. MayDo(Target, WantedSha, job.artifact)'
    BY <1>1, <2>1, <2>2, <2>3 DEF MayDo, OnRecord
  <2>5. PlacesFit'
    BY <1>1, <1>6, <2>1, <2>4 DEF PlacesFit, HasLease
  <2>6. Assigned'
    BY <1>1, <1>3, <2>1, SameDuty
  <2> QED
    BY <1>1, <2>1, <2>5, <2>6, TickKeeps
<1>7. ASSUME serving[Target].sha = lane.base, job' = [job EXCEPT !.todo = Later]
      PROVE  ExecutorInv'
  <2>1. /\ job' \in JobRecords /\ job'.pc = "next" /\ job'.fence = job.fence
        /\ job'.mode = "restore" /\ job'.todo = job.todo \ {Target}
    BY <1>1, <1>4, <1>7 DEF JobRecords, Later
  <2>2. PlacesFit'
    BY <2>1 DEF PlacesFit
  <2>3. Restoring'
    BY <1>1, <1>3, <1>7, <2>1 DEF Restoring
  <2>4. Assigned'
    BY <1>3, <2>1, <2>3 DEF ExecutorInv, Assigned
  <2> QED
    BY <1>1, <2>1, <2>2, <2>4, TickKeeps
<1> QED
  BY <1>5, <1>6, <1>7 DEF RestoreNext, Operates, Registered, LiveSha

LEMMA CheckTargetKeeps ==
  ASSUME ExecutorInv, CheckTarget
  PROVE  ExecutorInv'
<1>1. /\ job.pc = "check" /\ job.todo # {} /\ ExecutorTyped /\ AtWork /\ job \in JobRecords
      /\ UNCHANGED <<order, attempt, lane, fences, serving, made, registry, stray>>
  BY DEF CheckTarget, ExecutorInv, PlacesFit, ExecutorTyped, AtWork
<1>2. CASE job' = Raised
  BY <1>1, <1>2, RaiseKeeps
<1>3. ASSUME job.mode = "deploy", serving[Target].sha = lane.cand, job' = [job EXCEPT !.pc = "event"]
      PROVE  ExecutorInv'
  <2>1. /\ job' \in JobRecords /\ job'.pc = "event" /\ job'.fence = job.fence
        /\ job'.mode = "deploy" /\ job'.todo = job.todo
    BY <1>1, <1>3 DEF JobRecords
  <2>2. Target' = Target
    BY <1>1, <2>1, <1>3 DEF Target, Way
  <2>3. PlacesFit'
    BY <1>1, <1>3, <2>1, <2>2 DEF ExecutorInv, PlacesFit, Onward
  <2>4. Assigned'
    BY <1>1, <1>3, <2>1, SameDuty
  <2> QED
    BY <1>1, <2>1, <2>3, <2>4, TickKeeps
<1>4. ASSUME job.mode # "deploy", serving[Target].sha = lane.base,
             job' = [job EXCEPT !.pc = "next", !.todo = Later]
      PROVE  ExecutorInv'
  <2>1. /\ job' \in JobRecords /\ job'.pc = "next" /\ job'.fence = job.fence
        /\ job'.mode = job.mode /\ job'.todo = job.todo \ {Target}
    BY <1>1, <1>4 DEF JobRecords, Later
  <2>2. PlacesFit'
    BY <2>1 DEF PlacesFit
  <2>3. Restoring
    BY <1>1, <1>4 DEF ExecutorInv, Assigned, Deploying
  <2>4. Restoring'
    BY <1>1, <1>4, <2>1, <2>3 DEF Restoring
  <2>5. Assigned'
    BY <1>1, <2>1, <2>4 DEF ExecutorInv, Assigned
  <2> QED
    BY <1>1, <2>1, <2>2, <2>5, TickKeeps
<1> QED
  BY <1>2, <1>3, <1>4 DEF CheckTarget, LiveSha, WantedSha

-----------------------------------------------------------------------------
(* What a provider does, and what is written about it.                     *)

LEMMA OperationKeeps ==
  ASSUME ExecutorInv, NEW t \in Targets, NEW sha \in Shas, NEW no \in Nat,
         MayDo(t, sha, no), NowServes(t, sha, no),
         UNCHANGED <<order, attempt, lane, fences, registry>>
  PROVE  /\ serving' \in [Targets -> Artifacts] /\ made' \in [Targets -> Nat]
         /\ serving'[t] = [sha |-> sha, no |-> IF no = 0 THEN made[t] + 1 ELSE no]
         /\ ServingFits'
<1> DEFINE num == IF no = 0 THEN made[t] + 1 ELSE no
<1>1. ExecutorTyped /\ made[t] + 1 \in Nat
  BY DEF ExecutorInv, ExecutorTyped
<1>2. num \in Nat /\ (no # 0 => num = no)
  BY <1>1
<1>3. made' \in [Targets -> Nat]
  BY <1>1 DEF NowServes, ExecutorTyped
<1>4. serving' = [serving EXCEPT ![t] = [sha |-> sha, no |-> num]]
  BY DEF NowServes
<1>5. serving'[t] = [sha |-> sha, no |-> IF no = 0 THEN made[t] + 1 ELSE no]
  BY <1>1, <1>4 DEF ExecutorTyped
<1> HIDE DEF num
<1>6. /\ serving' \in [Targets -> Artifacts]
      /\ serving'[t].sha = sha /\ serving'[t].no = num
      /\ \A u \in Targets \ {t} : serving'[u] = serving[u]
  BY <1>1, <1>2, <1>4 DEF ExecutorTyped, Artifacts
<1>7. ServingFits'
  <2>1. CASE lane.state \in BeingExecuted
    <3>1. /\ lane.state # "complete" /\ lane.state # "none" /\ lane.state # "restoring"
          /\ lane.state \notin {"none", "authorized", "restored"}
      BY <2>1 DEF BeingExecuted
    <3>2. /\ sha = lane.cand /\ no = registry[lane.cand][t] /\ ~OnRecord(Deployed(t))
          /\ t = order[2] => OnRecord(Deployed(order[1]))
      BY <3>1 DEF MayDo
    <3>3. lane.cand # lane.base
      BY <1>1, <3>1, ZeroIsSha DEF ExecutorInv, LaneFits, ExecutorTyped, LaneRecords
    <3>4. ArtifactsFit'
      BY <1>2, <1>6, <3>2, <3>3 DEF ExecutorInv, ServingFits, ArtifactsFit, Onward
    <3>5. StatesFit'
      BY <1>6, <3>1, <3>2 DEF ExecutorInv, ServingFits, StatesFit, Onward, OnRecord
    <3>6. MixIsCompatible'
      BY <1>1, <1>6, <2>1, <3>2, OrderFacts DEF ExecutorInv, ServingFits, StatesFit, MixIsCompatible,
         Onward
    <3>7. BaseIsRecorded'
      BY DEF ExecutorInv, ServingFits, BaseIsRecorded
    <3> QED
      BY <3>4, <3>5, <3>6, <3>7 DEF ServingFits
  <2>2. CASE lane.state = "restoring"
    <3>1. /\ lane.state \notin BeingExecuted /\ lane.state # "none"
          /\ lane.state \notin {"none", "authorized", "restored", "complete"}
      BY <2>2 DEF BeingExecuted
    <3>2. /\ sha = lane.base /\ no = registry[lane.base][t]
          /\ t = order[1] => serving[order[2]].sha = lane.base
      BY <3>1 DEF MayDo
    <3>3. lane.cand # lane.base
      BY <1>1, <3>1, ZeroIsSha DEF ExecutorInv, LaneFits, ExecutorTyped, LaneRecords
    <3>4. no # 0
      BY <3>2 DEF ExecutorInv, ServingFits, BaseIsRecorded
    <3>5. ArtifactsFit'
      BY <1>2, <1>6, <3>2, <3>3, <3>4 DEF ExecutorInv, ServingFits, ArtifactsFit, Onward
    <3>6. StatesFit'
      BY <3>1 DEF StatesFit
    <3>7. MixIsCompatible'
      BY <1>1, <1>6, <3>2, <3>3, OrderFacts DEF ExecutorInv, ServingFits, MixIsCompatible
    <3>8. BaseIsRecorded'
      BY DEF ExecutorInv, ServingFits, BaseIsRecorded
    <3> QED
      BY <3>5, <3>6, <3>7, <3>8 DEF ServingFits
  <2> QED
    BY <2>1, <2>2 DEF MayDo
<1> QED
  BY <1>3, <1>5, <1>6, <1>7

\* What a tick is about to have done is well typed.
LEMMA OperatingFacts ==
  ASSUME ExecutorInv, job.pc = "operating"
  PROVE  /\ ExecutorTyped /\ AtWork /\ stray = NoOperation /\ lane.leased
         /\ Target \in Targets /\ WantedSha \in Shas /\ job.artifact \in Nat
         /\ MayDo(Target, WantedSha, job.artifact)
<1>1. ExecutorTyped /\ job.todo # {} /\ lane.leased /\ MayDo(Target, WantedSha, job.artifact)
  BY DEF ExecutorInv, PlacesFit
<1>2. Target \in Targets
  BY <1>1, TargetFacts
<1>3. WantedSha \in Shas /\ job.artifact \in Nat
  BY <1>1 DEF ExecutorTyped, LaneRecords, JobRecords, WantedSha
<1> QED
  BY <1>1, <1>2, <1>3, Alone DEF AtWork

\* The lane is as it was, and so is what is said of it.
LEMMA LaneStays ==
  ASSUME LaneFits, UNCHANGED lane
  PROVE  LaneFits'
BY DEF LaneFits, OnRecord

LEMMA OperationReturnsKeeps ==
  ASSUME ExecutorInv, OperationReturns
  PROVE  ExecutorInv'
<1> DEFINE new == made[Target] + 1
<1>1. /\ job.pc = "operating" /\ NowServes(Target, WantedSha, job.artifact)
      /\ UNCHANGED <<order, attempt, lane, fences, registry, stray>>
  BY DEF OperationReturns
<1>2. /\ ExecutorTyped /\ AtWork /\ stray = NoOperation
      /\ Target \in Targets /\ WantedSha \in Shas /\ job.artifact \in Nat
      /\ MayDo(Target, WantedSha, job.artifact) /\ job.todo # {}
  BY <1>1, OperatingFacts DEF ExecutorInv, PlacesFit
<1>3. /\ serving' \in [Targets -> Artifacts] /\ made' \in [Targets -> Nat]
      /\ serving'[Target] = [sha |-> WantedSha, no |-> IF job.artifact = 0 THEN new ELSE job.artifact]
      /\ ServingFits'
  BY <1>1, <1>2, OperationKeeps
<1>4. new \in Nat /\ new # 0
  BY <1>2 DEF ExecutorTyped
<1> HIDE DEF new
<1>5. /\ job' \in JobRecords /\ job'.fence = job.fence /\ job'.mode = job.mode
      /\ job'.todo = job.todo
      /\ job'.pc = IF job.artifact = 0 THEN "record" ELSE "check"
      /\ job'.artifact = IF job.artifact = 0 THEN new ELSE job.artifact
  <2>1. job \in JobRecords
    BY <1>2 DEF ExecutorTyped
  <2>2. CASE job.artifact = 0
    <3>1. job' = [job EXCEPT !.pc = "record", !.artifact = new]
      BY <2>1, <2>2 DEF OperationReturns, JobRecords, new
    <3> QED
      BY <1>4, <2>1, <2>2, <3>1 DEF JobRecords
  <2>3. CASE job.artifact # 0
    <3>1. job' = [job EXCEPT !.pc = "check", !.artifact = job.artifact]
      BY <2>1, <2>3 DEF OperationReturns, JobRecords
    <3> QED
      BY <1>2, <2>1, <2>3, <3>1 DEF JobRecords
  <2> QED
    BY <2>2, <2>3
<1>6. Target' = Target
  BY <1>1, <1>5 DEF Target, Way
<1>7. \/ job.mode = "deploy" /\ Deploying
      \/ job.mode = "restore" /\ Restoring /\ job.artifact # 0
  <2>1. Deploying \/ Restoring
    BY <1>2 DEF ExecutorInv, Assigned
  <2>2. Restoring => job.artifact = registry[lane.base][Target]
    BY <1>2 DEF Restoring, MayDo, BeingExecuted
  <2>3. registry[lane.base][Target] # 0
    BY <1>2 DEF ExecutorInv, ServingFits, BaseIsRecorded
  <2> QED
    BY <2>1, <2>2, <2>3 DEF Deploying, Restoring
<1>8. ExecutorTyped'
  BY <1>1, <1>2, <1>3, <1>5 DEF ExecutorTyped
<1>9. Assigned'
  <2>1. Deploying => Deploying'
    BY <1>1, <1>5 DEF Deploying, OnRecord
  <2>2. Restoring => Restoring'
    <3>1. \A t \in Targets \ {Target} : serving'[t] = serving[t]
      BY <1>1, <1>2 DEF NowServes, ExecutorTyped
    <3>2. Target \in job.todo
      BY <1>2, TargetFacts
    <3> QED
      BY <1>1, <1>5, <3>1, <3>2 DEF Restoring
  <2> QED
    BY <1>2, <1>5, <1>7, <2>1, <2>2 DEF ExecutorInv, Assigned
<1>10. PlacesFit'
  <2>1. job'.pc = "record" => job.mode = "deploy" /\ job'.artifact # 0
          /\ serving'[Target] = [sha |-> lane.cand, no |-> job'.artifact]
    BY <1>3, <1>4, <1>5, <1>7 DEF WantedSha
  <2>2. job'.pc = "check" /\ job.mode = "deploy" => registry[lane.cand][Target] # 0
    <3>1. lane.state \in BeingExecuted => lane.state # "restoring"
      BY DEF BeingExecuted
    <3> QED
      BY <1>2, <1>5, <1>7, <3>1 DEF Deploying, MayDo
  <2>3. job'.pc \in {"record", "check"}
    BY <1>5
  <2> QED
    BY <1>1, <1>2, <1>5, <1>6, <2>1, <2>2, <2>3 DEF PlacesFit
<1>11. LaneFits' /\ StrayFits'
  BY <1>1, <1>2, LaneStays DEF ExecutorInv, StrayFits
<1> QED
  BY <1>3, <1>8, <1>9, <1>10, <1>11 DEF ExecutorInv

LEMMA OperationRaisesKeeps ==
  ASSUME ExecutorInv, OperationRaises
  PROVE  ExecutorInv'
<1>1. /\ job.pc = "operating" /\ job' = Raised
      /\ UNCHANGED <<order, attempt, lane, fences, registry, stray>>
  BY DEF OperationRaises
<1>2. CASE UNCHANGED <<serving, made>>
  BY <1>1, <1>2, RaiseKeeps
<1>3. CASE NowServes(Target, WantedSha, job.artifact)
  <2>1. serving' \in [Targets -> Artifacts] /\ made' \in [Targets -> Nat] /\ ServingFits'
    BY <1>1, <1>3, OperatingFacts, OperationKeeps
  <2>2. ExecutorTyped /\ stray = NoOperation
    BY <1>1, OperatingFacts
  <2>3. job' \in JobRecords /\ Assigned' /\ PlacesFit'
    BY <1>1, <2>2, RaisedFits
  <2>4. ExecutorTyped'
    BY <1>1, <2>1, <2>2, <2>3 DEF ExecutorTyped
  <2>5. LaneFits' /\ StrayFits'
    BY <1>1, <2>2, LaneStays DEF ExecutorInv, StrayFits
  <2> QED
    BY <2>1, <2>3, <2>4, <2>5 DEF ExecutorInv
<1> QED
  BY <1>2, <1>3 DEF OperationRaises

LEMMA StrayEndsKeeps ==
  ASSUME ExecutorInv, StrayEnds
  PROVE  ExecutorInv'
<1>1. /\ stray # NoOperation /\ stray' = NoOperation
      /\ UNCHANGED <<order, attempt, lane, fences, registry, job>>
  BY DEF StrayEnds
<1>2. ExecutorTyped /\ stray \in Operations /\ job.pc = "idle"
  BY <1>1 DEF ExecutorInv, ExecutorTyped, StrayFits
<1>3. serving' \in [Targets -> Artifacts] /\ made' \in [Targets -> Nat] /\ ServingFits'
  <2>1. CASE UNCHANGED <<serving, made>>
    BY <1>1, <1>2, <2>1
    DEF ExecutorInv, ExecutorTyped, ServingFits, ArtifactsFit, StatesFit, MixIsCompatible, BaseIsRecorded,
        Onward, OnRecord
  <2>2. CASE NowServes(stray.target, stray.sha, stray.artifact)
    <3>1. /\ stray.target \in Targets /\ stray.sha \in Shas /\ stray.artifact \in Nat
          /\ MayDo(stray.target, stray.sha, stray.artifact)
      BY <1>1, <1>2 DEF Operations, ExecutorInv, StrayFits
    <3> QED
      BY <1>1, <2>2, <3>1, OperationKeeps
  <2> QED
    BY <2>1, <2>2 DEF StrayEnds
<1>4. ExecutorTyped'
  BY <1>1, <1>2, <1>3 DEF ExecutorTyped
<1>5. LaneFits' /\ Assigned' /\ PlacesFit' /\ StrayFits'
  BY <1>1, <1>2, LaneStays DEF ExecutorInv, Assigned, AtWork, PlacesFit, StrayFits
<1> QED
  BY <1>3, <1>4, <1>5 DEF ExecutorInv

LEMMA JobKilledKeeps ==
  ASSUME ExecutorInv, JobKilled
  PROVE  ExecutorInv'
<1>1. /\ job' = Idle /\ UNCHANGED <<order, attempt, lane, fences, serving, made, registry>>
  BY DEF JobKilled
<1>2. job' \in JobRecords /\ job'.pc = "idle"
  BY <1>1 DEF Idle, JobRecords
<1>3. CASE job.pc = "operating"
  <2>1. stray' = [target |-> Target, sha |-> WantedSha, artifact |-> job.artifact]
    BY <1>3 DEF JobKilled
  <2>2. /\ ExecutorTyped /\ lane.leased /\ Target \in Targets /\ WantedSha \in Shas /\ job.artifact \in Nat
        /\ MayDo(Target, WantedSha, job.artifact)
    BY <1>3, OperatingFacts
  <2>3. stray' \in Operations
    BY <2>1, <2>2 DEF Operations
  <2>4. MayDo(Target, WantedSha, job.artifact) <=> MayDo(stray.target, stray.sha, stray.artifact)'
    BY <1>1, <2>1 DEF MayDo, OnRecord
  <2>5. StrayFits'
    BY <1>1, <1>2, <2>2, <2>4 DEF StrayFits
  <2>6. ExecutorTyped'
    BY <1>1, <1>2, <2>2, <2>3 DEF ExecutorTyped
  <2>7. LaneFits' /\ Assigned' /\ PlacesFit'
    BY <1>1, <1>2, LaneStays DEF ExecutorInv, Assigned, AtWork, PlacesFit
  <2>8. ServingFits'
    BY <1>1 DEF ExecutorInv, ServingFits, ArtifactsFit, StatesFit, MixIsCompatible, BaseIsRecorded,
                Onward, OnRecord
  <2> QED
    BY <2>5, <2>6, <2>7, <2>8 DEF ExecutorInv
<1>4. CASE job.pc # "operating"
  <2>1. stray' = stray
    BY <1>4 DEF JobKilled
  <2>2. StrayFits'
    BY <1>1, <1>2, <2>1 DEF ExecutorInv, StrayFits, MayDo, OnRecord
  <2>3. ExecutorTyped'
    BY <1>1, <1>2, <2>1 DEF ExecutorInv, ExecutorTyped
  <2>4. LaneFits' /\ Assigned' /\ PlacesFit'
    BY <1>1, <1>2, LaneStays DEF ExecutorInv, Assigned, AtWork, PlacesFit
  <2>5. ServingFits'
    BY <1>1 DEF ExecutorInv, ServingFits, ArtifactsFit, StatesFit, MixIsCompatible, BaseIsRecorded,
                Onward, OnRecord
  <2> QED
    BY <2>2, <2>3, <2>4, <2>5 DEF ExecutorInv
<1> QED
  BY <1>3, <1>4

LEMMA RecordTargetKeeps ==
  ASSUME ExecutorInv, RecordTarget
  PROVE  ExecutorInv'
<1>1. /\ job.pc = "record" /\ ExecutorTyped /\ job.todo # {} /\ job.mode = "deploy" /\ job.artifact # 0
      /\ serving[Target] = [sha |-> lane.cand, no |-> job.artifact]
      /\ UNCHANGED <<order, attempt, lane, fences, serving, made, stray>>
  BY DEF RecordTarget, ExecutorInv, PlacesFit
<1>2. Target \in Targets /\ Target \in job.todo
  BY <1>1, TargetFacts
<1>3. AtWork /\ Deploying /\ stray = NoOperation
  BY <1>1, Alone DEF ExecutorInv, Assigned, AtWork, Restoring
<1>4. CASE job' = Raised /\ UNCHANGED registry
  BY <1>1, <1>4, RaiseKeeps
<1>5. CASE /\ registry' = [registry EXCEPT ![lane.cand][Target] = job.artifact]
           /\ job' = [job EXCEPT !.pc = "event"]
  <2>1. /\ job' \in JobRecords /\ job'.pc = "event" /\ job'.fence = job.fence
        /\ job'.mode = "deploy" /\ job'.todo = job.todo
    BY <1>1, <1>5 DEF ExecutorTyped, JobRecords
  <2>2. lane.cand \in Shas /\ lane.base \in Shas /\ job.artifact \in Nat
    BY <1>1 DEF ExecutorTyped, LaneRecords, JobRecords
  <2>3. /\ registry' \in [Shas -> [Targets -> Nat]] /\ registry'[lane.cand][Target] = job.artifact
        /\ \A s \in Shas, t \in Targets :
             s # lane.cand \/ t # Target => registry'[s][t] = registry[s][t]
    <3> DEFINE entry == [registry[lane.cand] EXCEPT ![Target] = job.artifact]
    <3>1. registry' = [registry EXCEPT ![lane.cand] = entry]
      BY <1>5
    <3>2. /\ entry \in [Targets -> Nat] /\ entry[Target] = job.artifact
          /\ \A t \in Targets : t # Target => entry[t] = registry[lane.cand][t]
      BY <1>1, <1>2, <2>2 DEF ExecutorTyped
    <3> HIDE DEF entry
    <3> QED
      BY <1>1, <2>2, <3>1, <3>2 DEF ExecutorTyped
  <2>4. lane.cand # lane.base
    BY <1>1, <1>3, ZeroIsSha DEF ExecutorInv, LaneFits, Deploying, BeingExecuted, ExecutorTyped,
       LaneRecords
  <2>5. Target' = Target
    BY <1>1, <2>1 DEF Target, Way
  <2>6. ExecutorTyped'
    BY <1>1, <2>1, <2>3 DEF ExecutorTyped
  <2>7. ServingFits'
    <3>1. ArtifactsFit'
      BY <1>1, <1>2, <2>2, <2>3, <2>4 DEF ExecutorInv, ServingFits, ArtifactsFit, Onward
    <3>2. StatesFit'
      BY <1>1, <1>2, <2>2, <2>3 DEF ExecutorInv, ServingFits, StatesFit, Onward, OnRecord
    <3>3. MixIsCompatible' /\ BaseIsRecorded'
      BY <1>1, <2>2, <2>3, <2>4 DEF ExecutorInv, ServingFits, MixIsCompatible, BaseIsRecorded
    <3> QED
      BY <3>1, <3>2, <3>3 DEF ServingFits
  <2>8. Assigned'
    BY <1>1, <1>3, <2>1, SameDuty
  <2>9. PlacesFit'
    BY <1>1, <2>1, <2>3, <2>5 DEF PlacesFit, Onward
  <2>10. LaneFits' /\ StrayFits'
    BY <1>1, <1>3, LaneStays DEF ExecutorInv, StrayFits
  <2> QED
    BY <2>6, <2>7, <2>8, <2>9, <2>10 DEF ExecutorInv
<1> QED
  BY <1>4, <1>5 DEF RecordTarget

-----------------------------------------------------------------------------
(* Events.                                                                 *)

LEMMA AdvancedFacts ==
  ASSUME ExecutorTyped, NEW s \in LaneStates, NEW id \in Nat, lane' = Advanced(s, id),
         s \in Milestones => job.fence # 0
  PROVE  /\ lane' \in LaneRecords /\ lane'.state = s
         /\ lane'.base = lane.base /\ lane'.cand = lane.cand
         /\ lane'.leased = (s \notin {"complete", "restored", "failed_fenced"})
         /\ \A t \in Targets :
              OnRecord(Deployed(t))' <=> OnRecord(Deployed(t)) \/ Deployed(t) = s
<1> DEFINE evs == IF s \notin Milestones THEN lane.events
                  ELSE [lane.events EXCEPT ![s] = Binding(id)]
           kept == s \notin {"complete", "restored", "failed_fenced"}
<1>1. lane \in LaneRecords /\ lane.events \in [Milestones -> Events] /\ kept \in BOOLEAN
  BY DEF ExecutorTyped, LaneRecords
<1>2. lane' = [lane EXCEPT !.state = s, !.leased = kept, !.events = evs]
  BY <1>1 DEF Advanced, LaneRecords
<1>3. Binding(id) \in Events /\ (s \in Milestones => Binding(id) # NoEvent)
  BY DEF ExecutorTyped, JobRecords, Binding, Events, NoEvent
<1>4. /\ evs \in [Milestones -> Events]
      /\ \A e \in Milestones : evs[e] # NoEvent <=> lane.events[e] # NoEvent \/ e = s
  BY <1>1, <1>3
<1> HIDE DEF evs, kept
<1>5. /\ lane' \in LaneRecords /\ lane'.state = s /\ lane'.events = evs
      /\ lane'.base = lane.base /\ lane'.cand = lane.cand /\ lane'.leased = kept
  BY <1>1, <1>2, <1>4 DEF LaneRecords
<1>6. \A t \in Targets : OnRecord(Deployed(t))' <=> OnRecord(Deployed(t)) \/ Deployed(t) = s
  BY <1>4, <1>5, MilestoneFacts DEF OnRecord
<1> QED
  BY <1>5, <1>6 DEF kept

\* After an answer that is lost, and after one that finishes the tick.
LEMMA NoDuty ==
  ASSUME ExecutorTyped, job' \in {Idle, Raised}
  PROVE  job' \in JobRecords /\ Assigned' /\ PlacesFit'
<1>1. job' \in JobRecords /\ job'.pc \in {"idle", "fencing"}
  BY DEF ExecutorTyped, JobRecords, Raised, Idle
<1> QED
  BY <1>1 DEF Assigned, AtWork, PlacesFit

LEMMA TargetEventKeeps ==
  ASSUME ExecutorInv, TargetEvent
  PROVE  ExecutorInv'
<1> DEFINE s == Deployed(Target)
           then == [job EXCEPT !.pc = "next", !.todo = Later]
<1>1. /\ job.pc = "event" /\ ExecutorTyped /\ job.todo # {} /\ job.mode = "deploy" /\ Onward(Target)
      /\ UNCHANGED <<order, attempt, fences, serving, made, registry, stray>>
  BY DEF TargetEvent, Event, ExecutorInv, PlacesFit
<1>2. Target \in Targets /\ Target \in job.todo /\ job \in JobRecords
  BY <1>1, TargetFacts DEF ExecutorTyped
<1>3. AtWork /\ Deploying /\ stray = NoOperation /\ job.fence # 0
  BY <1>1, Alone DEF ExecutorInv, Assigned, AtWork, Restoring
<1>4. ~OnRecord(s)
  BY <1>2, <1>3 DEF Deploying
<1>5. CASE UNCHANGED lane /\ job' = Raised
  BY <1>1, <1>5, RaiseKeeps
<1>6. CASE lane' = Advanced(s, job.artifact) /\ job' \in {then, Raised}
  <2>1. s \in LaneStates /\ s \in {"pages_deployed", "worker_deployed"}
    BY <1>2 DEF LaneStates, BeingExecuted, Deployed, Targets
  <2>2. /\ lane' \in LaneRecords /\ lane'.state = s
        /\ lane'.base = lane.base /\ lane'.cand = lane.cand /\ lane'.leased = TRUE
        /\ \A t \in Targets : OnRecord(Deployed(t))' <=> OnRecord(Deployed(t)) \/ t = Target
    <3>1. job.artifact \in Nat
      BY <1>2 DEF JobRecords
    <3> HIDE DEF s
    <3>2. /\ lane' \in LaneRecords /\ lane'.state = s
          /\ lane'.base = lane.base /\ lane'.cand = lane.cand
          /\ lane'.leased = (s \notin {"complete", "restored", "failed_fenced"})
          /\ \A t \in Targets : OnRecord(Deployed(t))' <=> OnRecord(Deployed(t)) \/ Deployed(t) = s
      BY <1>1, <1>3, <1>6, <2>1, <3>1, AdvancedFacts
    <3>3. \A t \in Targets : Deployed(t) = s <=> t = Target
      BY <1>2, MilestoneFacts DEF s
    <3> QED
      BY <2>1, <3>2, <3>3
  <2> HIDE DEF s
  <2>3. LaneFits'
    <3>1. lane.base < lane.cand
      BY <1>3 DEF ExecutorInv, LaneFits, Deploying, BeingExecuted
    <3> QED
      BY <2>1, <2>2, <3>1 DEF LaneFits, RestStates
  <2>4. ServingFits'
    <3>1. ArtifactsFit' /\ MixIsCompatible' /\ BaseIsRecorded'
      BY <1>1, <2>2 DEF ExecutorInv, ServingFits, ArtifactsFit, MixIsCompatible, BaseIsRecorded, Onward
    <3>2. StatesFit'
      BY <1>1, <1>3, <2>1, <2>2 DEF ExecutorInv, ServingFits, StatesFit, Onward, Deploying
    <3> QED
      BY <3>1, <3>2 DEF ServingFits
  <2>5. job' \in JobRecords /\ Assigned' /\ PlacesFit'
    <3>1. CASE job' = Raised
      BY <1>1, <3>1, NoDuty
    <3>2. CASE job' = then
      <4>1. /\ job' \in JobRecords /\ job'.pc = "next" /\ job'.fence = job.fence
            /\ job'.mode = "deploy" /\ job'.todo = job.todo \ {Target}
        BY <1>1, <1>2, <3>2 DEF JobRecords, Later
      <4>2. Deploying'
        BY <1>3, <2>1, <2>2, <4>1 DEF Deploying, BeingExecuted
      <4> QED
        BY <1>3, <4>1, <4>2 DEF Assigned, PlacesFit
    <3> QED
      BY <1>6, <3>1, <3>2
  <2>6. ExecutorTyped'
    BY <1>1, <2>2, <2>5 DEF ExecutorTyped
  <2>7. StrayFits'
    BY <1>1, <1>3 DEF StrayFits
  <2> QED
    BY <2>3, <2>4, <2>5, <2>6, <2>7 DEF ExecutorInv
<1> QED
  BY <1>4, <1>5, <1>6 DEF TargetEvent, Event, Replays

LEMMA VerifiedEventKeeps ==
  ASSUME ExecutorInv, VerifiedEvent
  PROVE  ExecutorInv'
<1> DEFINE then == [job EXCEPT !.pc = "verified"]
<1>1. /\ job.pc = "next" /\ ExecutorTyped /\ job.mode = "deploy" /\ job \in JobRecords
      /\ UNCHANGED <<order, attempt, fences, serving, made, registry, stray>>
  BY DEF VerifiedEvent, Event, ExecutorInv, ExecutorTyped
<1>2. AtWork /\ Deploying /\ stray = NoOperation /\ job.fence # 0
  BY <1>1, Alone DEF ExecutorInv, Assigned, AtWork, Restoring
<1>3. CASE job' = Raised /\ UNCHANGED lane
  BY <1>1, <1>3, RaiseKeeps
<1>4. ASSUME job' = then
      PROVE  /\ job' \in JobRecords /\ job'.pc = "verified" /\ job'.fence = job.fence
             /\ job'.mode = "deploy" /\ job'.todo = job.todo /\ PlacesFit'
  <2>1. /\ job' \in JobRecords /\ job'.pc = "verified" /\ job'.fence = job.fence
        /\ job'.mode = "deploy" /\ job'.todo = job.todo
    BY <1>1, <1>4 DEF JobRecords
  <2> QED
    BY <2>1 DEF PlacesFit
<1>5. CASE job' = then /\ UNCHANGED lane
  BY <1>1, <1>2, <1>4, <1>5, SameDuty, TickKeeps
<1>6. CASE Advances("verified") /\ lane' = Advanced("verified", 0) /\ job' \in {then, Raised}
  <2>1. \A t \in Targets : OnRecord(Deployed(t))
    BY <1>6 DEF Advances
  <2>2. /\ lane' \in LaneRecords /\ lane'.state = "verified"
        /\ lane'.base = lane.base /\ lane'.cand = lane.cand /\ lane'.leased = TRUE
        /\ \A t \in Targets : OnRecord(Deployed(t))'
    <3> DEFINE s == "verified"
    <3>1. s \in LaneStates /\ lane' = Advanced(s, 0) /\ s \notin {"complete", "restored", "failed_fenced"}
      BY <1>6 DEF LaneStates, BeingExecuted
    <3>2. s = "verified"
      OBVIOUS
    <3> HIDE DEF s
    <3>3. /\ lane' \in LaneRecords /\ lane'.state = s /\ lane'.base = lane.base
          /\ lane'.cand = lane.cand
          /\ lane'.leased = (s \notin {"complete", "restored", "failed_fenced"})
          /\ \A t \in Targets :
               OnRecord(Deployed(t))' <=> OnRecord(Deployed(t)) \/ Deployed(t) = s
      BY <1>1, <1>2, <3>1, AdvancedFacts
    <3> QED
      BY <2>1, <3>1, <3>2, <3>3
  <2>3. LaneFits'
    <3>1. lane.base < lane.cand
      BY <1>2 DEF ExecutorInv, LaneFits, Deploying, BeingExecuted
    <3> QED
      BY <2>2, <3>1 DEF LaneFits, RestStates
  <2>4. ServingFits'
    <3>1. ArtifactsFit' /\ MixIsCompatible' /\ BaseIsRecorded'
      BY <1>1, <2>2 DEF ExecutorInv, ServingFits, ArtifactsFit, MixIsCompatible, BaseIsRecorded, Onward
    <3>2. StatesFit'
      BY <1>1, <1>2, <2>1, <2>2 DEF ExecutorInv, ServingFits, StatesFit, Onward, Deploying
    <3> QED
      BY <3>1, <3>2 DEF ServingFits
  <2>5. job' \in JobRecords /\ Assigned' /\ PlacesFit'
    <3>1. CASE job' = Raised
      BY <1>1, <3>1, NoDuty
    <3>2. CASE job' = then
      <4>1. Deploying'
        BY <1>2, <1>4, <2>1, <2>2, <3>2 DEF Deploying, BeingExecuted
      <4> QED
        BY <1>2, <1>4, <3>2, <4>1 DEF Assigned
    <3> QED
      BY <1>6, <3>1, <3>2
  <2>6. ExecutorTyped' /\ StrayFits'
    BY <1>1, <1>2, <2>2, <2>5 DEF ExecutorTyped, StrayFits
  <2> QED
    BY <2>3, <2>4, <2>5, <2>6 DEF ExecutorInv
<1> QED
  BY <1>3, <1>5, <1>6 DEF VerifiedEvent, Event

\* An event after which the release rests: complete, restored or failed.
LEMMA RestEventKeeps ==
  ASSUME ExecutorInv, job.pc # "idle", job' \in {Idle, Raised},
         UNCHANGED <<order, attempt, fences, serving, made, registry, stray>>,
         NEW s \in {"complete", "restored", "failed_fenced"},
         lane.state \in BeingExecuted \cup {"restoring"}, lane' = Advanced(s, 0),
         s = "complete" => job.fence # 0 /\ \A t \in Targets : Onward(t),
         s = "restored" => \A t \in Targets : serving[t].sha = lane.base
  PROVE  ExecutorInv'
<1>1. ExecutorTyped /\ stray = NoOperation
  BY Alone DEF ExecutorInv
<1>2. s \in LaneStates /\ (s \in Milestones => s = "complete")
  BY DEF LaneStates, RestStates, Milestones
<1>3. /\ lane' \in LaneRecords /\ lane'.state = s /\ lane'.leased = FALSE
      /\ lane'.base = lane.base /\ lane'.cand = lane.cand
  BY <1>1, <1>2, AdvancedFacts
<1>4. LaneFits'
  <2>1. lane.base < lane.cand
    BY DEF ExecutorInv, LaneFits, BeingExecuted
  <2> QED
    BY <1>3, <2>1 DEF LaneFits
<1>5. ServingFits'
  <2>1. ArtifactsFit' /\ MixIsCompatible' /\ BaseIsRecorded'
    BY <1>3 DEF ExecutorInv, ServingFits, ArtifactsFit, MixIsCompatible, BaseIsRecorded, Onward
  <2>2. StatesFit'
    BY <1>3 DEF StatesFit, Onward, BeingExecuted
  <2> QED
    BY <2>1, <2>2 DEF ServingFits
<1>6. job' \in JobRecords /\ Assigned' /\ PlacesFit'
  BY <1>1, NoDuty
<1>7. ExecutorTyped' /\ StrayFits'
  BY <1>1, <1>3, <1>6 DEF ExecutorTyped, StrayFits
<1> QED
  BY <1>4, <1>5, <1>6, <1>7 DEF ExecutorInv

\* A tick that ends without a word.
LEMMA QuietEndKeeps ==
  ASSUME ExecutorInv, job.pc # "idle", job' \in {Idle, Raised},
         UNCHANGED <<order, attempt, lane, fences, serving, made, registry, stray>>
  PROVE  ExecutorInv'
BY TickKeeps, NoDuty DEF ExecutorInv

LEMMA CompleteEventKeeps ==
  ASSUME ExecutorInv, CompleteEvent
  PROVE  ExecutorInv'
<1>1. /\ job.pc = "verified" /\ job' \in {Idle, Raised}
      /\ UNCHANGED <<order, attempt, fences, serving, made, registry, stray>>
  BY DEF CompleteEvent, Event
<1>2. CASE UNCHANGED lane
  BY <1>1, <1>2, QuietEndKeeps
<1>3. CASE Advances("complete") /\ lane' = Advanced("complete", 0)
  <2>1. lane.state = "verified"
    BY <1>3 DEF Advances, NextStates
  <2>2. \A t \in Targets : Onward(t)
    BY <2>1 DEF ExecutorInv, LaneFits, ServingFits, StatesFit, BeingExecuted
  <2>3. job.fence # 0
    BY <1>1 DEF ExecutorInv, Assigned, AtWork
  <2> QED
    BY <1>1, <1>3, <2>1, <2>2, <2>3, RestEventKeeps DEF BeingExecuted
<1> QED
  BY <1>2, <1>3 DEF CompleteEvent, Event

LEMMA RestoredEventKeeps ==
  ASSUME ExecutorInv, RestoredEvent
  PROVE  ExecutorInv'
<1>1. /\ job.pc = "next" /\ job.mode = "restore" /\ job.todo = {} /\ job' \in {Idle, Raised}
      /\ UNCHANGED <<order, attempt, fences, serving, made, registry, stray>>
  BY DEF RestoredEvent, Event
<1>2. CASE UNCHANGED lane
  BY <1>1, <1>2, QuietEndKeeps
<1>3. CASE lane' = Advanced("restored", 0)
  <2>1. Restoring
    BY <1>1 DEF ExecutorInv, Assigned, AtWork, Deploying
  <2> QED
    BY <1>1, <1>3, <2>1, RestEventKeeps DEF Restoring
<1> QED
  BY <1>2, <1>3 DEF RestoredEvent, Event

LEMMA FailedEventKeeps ==
  ASSUME ExecutorInv, FailedEvent
  PROVE  ExecutorInv'
<1>1. /\ job.pc = "fencing" /\ job' = Idle
      /\ UNCHANGED <<order, attempt, fences, serving, made, registry, stray>>
  BY DEF FailedEvent
<1>2. CASE UNCHANGED lane
  BY <1>1, <1>2, QuietEndKeeps
<1>3. CASE Advances("failed_fenced") /\ lane' = Advanced("failed_fenced", 0)
  <2>1. lane.state \in BeingExecuted \cup {"restoring"}
    BY <1>3 DEF Advances, NextStates, BeingExecuted
  <2> QED
    BY <1>1, <1>3, <2>1, RestEventKeeps
<1> QED
  BY <1>2, <1>3 DEF FailedEvent

LEMMA TroubleKeeps ==
  ASSUME ExecutorInv, Trouble
  PROVE  ExecutorInv'
BY QuietEndKeeps DEF Trouble

-----------------------------------------------------------------------------
(* The theorem.                                                            *)

LEMMA StepKeepsExecutor == ExecutorInv /\ ~MayLinger /\ [ExecutorNext]_executorVars => ExecutorInv'
<1> SUFFICES ASSUME ExecutorInv, ~MayLinger, [ExecutorNext]_executorVars PROVE ExecutorInv'
  OBVIOUS
<1>1. CASE UNCHANGED executorVars
  <2>1. ExecutorTyped' /\ LaneFits' /\ Assigned'
    BY <1>1 DEF executorVars, ExecutorInv, ExecutorTyped, LaneFits, OnRecord, Assigned, AtWork,
       Deploying, Restoring
  <2>2. ServingFits'
    BY <1>1 DEF executorVars, ExecutorInv, ServingFits, ArtifactsFit, StatesFit, MixIsCompatible,
                BaseIsRecorded, Onward, OnRecord
  <2>3. PlacesFit' /\ StrayFits'
    BY <1>1 DEF executorVars, ExecutorInv, PlacesFit, StrayFits, MayDo, OnRecord, Onward, Target, Way,
                WantedSha
  <2> QED
    BY <2>1, <2>2, <2>3 DEF ExecutorInv
<1>2. CASE \E sha \in Shas, schema \in {1, 2} : AuthorizeRelease(sha, schema)
  BY <1>2, AuthorizeKeeps
<1>3. CASE LeaseOver \/ ClaimToDeploy \/ ClaimToRestore
  BY <1>3, LeaseOverKeeps, ClaimToDeployKeeps, ClaimToRestoreKeeps
<1>4. CASE DeployNext \/ RestoreNext \/ CheckTarget \/ RecordTarget
  BY <1>4, DeployNextKeeps, RestoreNextKeeps, CheckTargetKeeps, RecordTargetKeeps
<1>5. CASE OperationReturns \/ OperationRaises \/ JobKilled \/ StrayEnds
  BY <1>5, OperationReturnsKeeps, OperationRaisesKeeps, JobKilledKeeps, StrayEndsKeeps
<1>6. CASE TargetEvent \/ VerifiedEvent \/ CompleteEvent \/ RestoredEvent
  BY <1>6, TargetEventKeeps, VerifiedEventKeeps, CompleteEventKeeps, RestoredEventKeeps
<1>7. CASE Trouble \/ FailedEvent
  BY <1>7, TroubleKeeps, FailedEventKeeps
<1> QED
  BY <1>1, <1>2, <1>3, <1>4, <1>5, <1>6, <1>7 DEF ExecutorNext

LEMMA ExecutorInvSuffices == ExecutorInv => ProductionIsAsRecorded
<1> SUFFICES ASSUME ExecutorInv PROVE ProductionIsAsRecorded
  OBVIOUS
<1>1. CompleteIsServed
  BY DEF ExecutorInv, ServingFits, ArtifactsFit, StatesFit, CompleteIsServed, Serving, Onward
<1>2. RestoredIsServed
  BY DEF ExecutorInv, ExecutorTyped, Artifacts, ServingFits, ArtifactsFit, StatesFit, RestoredIsServed
<1> QED
  BY <1>1, <1>2 DEF ExecutorInv, ServingFits, ProductionIsAsRecorded

\* prod_release_executor.py: where no provider operation outlives its lease, production is
\* what the ledger says and can be put back, whatever ticks die and are taken over.
THEOREM ProductionIsRecorded == ~MayLinger => (ExecutorSpec => []ProductionIsAsRecorded)
<1> SUFFICES ASSUME ~MayLinger PROVE ExecutorSpec => []ProductionIsAsRecorded
  OBVIOUS
<1>1. ExecutorInit => ExecutorInv
  BY InitExecutor
<1>2. ExecutorInv /\ [ExecutorNext]_executorVars => ExecutorInv'
  BY StepKeepsExecutor
<1>3. ExecutorInv => ProductionIsAsRecorded
  BY ExecutorInvSuffices
<1> QED
  BY <1>1, <1>2, <1>3, PTL DEF ExecutorSpec

-----------------------------------------------------------------------------
(* The numbers of tokens and artifacts.                                    *)

\* No lease is of a token that was not issued.
TokensFit == fences <= LastFence /\ lane.fence <= fences

\* What is served or on record was made.
MadeFirst ==
    \A t \in Targets :
        /\ made[t] \in 1..LastArtifact /\ serving[t].no \in 1..made[t]
        /\ \A s \in Shas : registry[s][t] <= made[t]

\* There is room for the artifact an operation makes, and another one was made before.
Room(t, no) == IF no = 0 THEN made[t] < LastArtifact ELSE no <= made[t]
OperationsFit ==
    /\ job.pc = "operating" => Room(Target, job.artifact)
    /\ job.pc = "record" => job.artifact <= made[Target]
    /\ stray # NoOperation => Room(stray.target, stray.artifact)

NumbersFit == TokensFit /\ MadeFirst /\ OperationsFit

LEMMA InitNumbers == ExecutorInit => NumbersFit
BY DEF ExecutorInit, NumbersFit, TokensFit, MadeFirst, OperationsFit, Idle, Targets, Shas

LEMMA TokensStayFit ==
  ASSUME ExecutorTyped, TokensFit, [ExecutorNext]_executorVars
  PROVE  TokensFit'
<1>0. lane \in LaneRecords /\ fences \in Nat /\ lane.fence \in Nat
  BY DEF ExecutorTyped, LaneRecords
<1>1. CASE UNCHANGED <<lane, fences>>
  BY <1>1 DEF TokensFit
<1>2. ASSUME NEW s, lane' = Fenced(s), fences' = fences + 1, fences < LastFence
      PROVE  TokensFit'
  <2>1. lane'.fence = fences + 1
    BY <1>0, <1>2 DEF Fenced, LaneRecords
  <2> QED
    BY <1>0, <1>2, <2>1 DEF TokensFit
<1>3. ASSUME lane'.fence \in {0, lane.fence}, UNCHANGED fences
      PROVE  TokensFit'
  BY <1>0, <1>3 DEF TokensFit
<1>4. ASSUME NEW s, NEW id, lane' = Advanced(s, id), UNCHANGED fences
      PROVE  TokensFit'
  <2>1. lane'.fence = lane.fence
    BY <1>0, <1>4 DEF Advanced, LaneRecords
  <2> QED
    BY <1>3, <1>4, <2>1
<1>5. ASSUME NEW s, NEW id, NEW then, Event(s, id, then)
      PROVE  TokensFit'
  BY <1>1, <1>4, <1>5 DEF Event
<1>6. CASE \E sha \in Shas, schema \in {1, 2} : AuthorizeRelease(sha, schema)
  BY <1>3, <1>6 DEF AuthorizeRelease
<1>7. CASE LeaseOver
  BY <1>0, <1>3, <1>7 DEF LeaseOver, LaneRecords
<1>8. CASE ClaimToDeploy \/ ClaimToRestore
  BY <1>2, <1>8 DEF ClaimToDeploy, ClaimToRestore
<1>9. CASE TargetEvent \/ VerifiedEvent \/ CompleteEvent \/ RestoredEvent
  BY <1>5, <1>9 DEF TargetEvent, VerifiedEvent, CompleteEvent, RestoredEvent
<1>10. CASE FailedEvent
  BY <1>1, <1>4, <1>10 DEF FailedEvent
<1>11. CASE DeployNext \/ RestoreNext \/ OperationReturns \/ OperationRaises \/ RecordTarget
            \/ CheckTarget \/ Trouble \/ JobKilled \/ StrayEnds
  BY <1>1, <1>11 DEF DeployNext, RestoreNext, OperationReturns, OperationRaises, RecordTarget,
                     CheckTarget, Trouble, JobKilled, StrayEnds
<1>12. CASE UNCHANGED executorVars
  BY <1>1, <1>12 DEF executorVars
<1> QED
  BY <1>6, <1>7, <1>8, <1>9, <1>10, <1>11, <1>12 DEF ExecutorNext

\* An operation there is room for leaves what is served made.
LEMMA RoomKeepsMade ==
  ASSUME ExecutorTyped, MadeFirst, NEW t \in Targets, NEW sha \in Shas, NEW no \in Nat,
         Room(t, no), NowServes(t, sha, no), UNCHANGED registry
  PROVE  MadeFirst' /\ made'[t] = (IF no = 0 THEN made[t] + 1 ELSE made[t])
<1>0. /\ made \in [Targets -> Nat] /\ serving \in [Targets -> Artifacts]
      /\ registry \in [Shas -> [Targets -> Nat]]
  BY DEF ExecutorTyped
<1>1. /\ made'[t] = (IF no = 0 THEN made[t] + 1 ELSE made[t])
      /\ \A u \in Targets : u # t => made'[u] = made[u]
  BY <1>0 DEF NowServes
<1>2. /\ serving'[t].no = (IF no = 0 THEN made[t] + 1 ELSE no)
      /\ \A u \in Targets : u # t => serving'[u] = serving[u]
  BY <1>0 DEF NowServes
<1>3. made[t] \in Nat /\ made[t] \in 1..LastArtifact /\ (no = 0 => made[t] < LastArtifact)
      /\ (no # 0 => no <= made[t])
  BY <1>0 DEF MadeFirst, Room
<1>4. made'[t] \in 1..LastArtifact /\ serving'[t].no \in 1..made'[t] /\ made[t] <= made'[t]
  BY <1>1, <1>2, <1>3
<1>5. ASSUME NEW u \in Targets
      PROVE  /\ made'[u] \in 1..LastArtifact /\ serving'[u].no \in 1..made'[u]
             /\ made[u] <= made'[u]
  <2>1. CASE u = t
    BY <1>4, <2>1
  <2>2. CASE u # t
    BY <1>0, <1>1, <1>2, <2>2 DEF MadeFirst
  <2> QED
    BY <2>1, <2>2
<1>6. ASSUME NEW u \in Targets, NEW s \in Shas PROVE registry'[s][u] <= made'[u]
  <2>1. registry[s][u] \in Nat /\ made[u] \in Nat /\ made'[u] \in Nat /\ registry[s][u] <= made[u]
    BY <1>0, <1>5 DEF MadeFirst
  <2> QED
    BY <1>5, <2>1
<1>7. MadeFirst'
  BY <1>5, <1>6 DEF MadeFirst
<1> QED
  BY <1>1, <1>7

\* What a tick and a dead one do is an operation of the two targets.
LEMMA OperationTypes ==
  ASSUME ExecutorInv
  PROVE  /\ job.artifact \in Nat /\ job.pc \in {"operating", "record"} => Target \in Targets
         /\ job.artifact \in Nat /\ WantedSha \in Shas /\ lane.cand \in Shas
         /\ stray # NoOperation => stray.target \in Targets /\ stray.sha \in Shas
                                   /\ stray.artifact \in Nat
<1>1. ExecutorTyped /\ (job.pc \in {"operating", "record"} => job.todo # {})
  BY DEF ExecutorInv, PlacesFit
<1>2. job.pc \in {"operating", "record"} => Target \in Targets
  BY <1>1, TargetFacts
<1>3. lane.cand \in Shas /\ lane.base \in Shas /\ job.artifact \in Nat
  BY <1>1 DEF ExecutorTyped, LaneRecords, JobRecords
<1>4. stray # NoOperation => stray \in Operations
  BY <1>1 DEF ExecutorTyped
<1> QED
  BY <1>2, <1>3, <1>4 DEF WantedSha, Operations

LEMMA MadeStaysFirst ==
  ASSUME ExecutorInv, NumbersFit, [ExecutorNext]_executorVars
  PROVE  MadeFirst'
<1>0. ExecutorTyped /\ MadeFirst /\ OperationsFit
  BY DEF ExecutorInv, NumbersFit
<1>1. CASE UNCHANGED <<serving, made, registry>>
  BY <1>0, <1>1 DEF MadeFirst
<1>2. CASE OperationReturns \/ OperationRaises
  <2>1. /\ job.pc = "operating" /\ UNCHANGED registry
        /\ NowServes(Target, WantedSha, job.artifact) \/ UNCHANGED <<serving, made>>
    BY <1>2 DEF OperationReturns, OperationRaises
  <2>2. Room(Target, job.artifact)
    BY <1>0, <2>1 DEF OperationsFit
  <2> QED
    BY <1>0, <1>1, <2>1, <2>2, OperationTypes, RoomKeepsMade
<1>3. CASE StrayEnds
  <2>1. /\ stray # NoOperation /\ UNCHANGED registry
        /\ NowServes(stray.target, stray.sha, stray.artifact) \/ UNCHANGED <<serving, made>>
    BY <1>3 DEF StrayEnds
  <2>2. Room(stray.target, stray.artifact)
    BY <1>0, <2>1 DEF OperationsFit
  <2> QED
    BY <1>0, <1>1, <2>1, <2>2, OperationTypes, RoomKeepsMade
<1>4. CASE RecordTarget /\ ~UNCHANGED registry
  <2>1. /\ job.pc = "record" /\ UNCHANGED <<serving, made>>
        /\ registry' = [registry EXCEPT ![lane.cand][Target] = job.artifact]
    BY <1>4 DEF RecordTarget
  <2>2. job.artifact <= made[Target]
    BY <1>0, <2>1 DEF OperationsFit
  <2>3. registry \in [Shas -> [Targets -> Nat]]
    BY <1>0 DEF ExecutorTyped
  <2>4. \A s \in Shas, t \in Targets :
          registry'[s][t] = IF s = lane.cand /\ t = Target THEN job.artifact ELSE registry[s][t]
    BY <2>1, <2>3
  <2> QED
    BY <1>0, <2>1, <2>2, <2>4 DEF MadeFirst
<1>5. CASE RecordTarget /\ UNCHANGED registry
  BY <1>1, <1>5 DEF RecordTarget
<1>6. CASE \E sha \in Shas, schema \in {1, 2} : AuthorizeRelease(sha, schema)
  BY <1>1, <1>6 DEF AuthorizeRelease
<1>7. CASE LeaseOver \/ ClaimToDeploy \/ ClaimToRestore \/ DeployNext \/ RestoreNext
           \/ CheckTarget \/ Trouble \/ FailedEvent \/ JobKilled
  BY <1>1, <1>7 DEF LeaseOver, ClaimToDeploy, ClaimToRestore, DeployNext, RestoreNext,
                    CheckTarget, Trouble, FailedEvent, JobKilled
<1>8. CASE TargetEvent \/ VerifiedEvent \/ CompleteEvent \/ RestoredEvent
  BY <1>1, <1>8 DEF TargetEvent, VerifiedEvent, CompleteEvent, RestoredEvent, Event
<1>9. CASE UNCHANGED executorVars
  BY <1>1, <1>9 DEF executorVars
<1> QED
  BY <1>2, <1>3, <1>4, <1>5, <1>6, <1>7, <1>8, <1>9 DEF ExecutorNext

LEMMA OperationsStayFit ==
  ASSUME ExecutorInv, NumbersFit, [ExecutorNext]_executorVars
  PROVE  OperationsFit'
<1>0. /\ ExecutorTyped /\ MadeFirst /\ OperationsFit /\ job \in JobRecords
      /\ made \in [Targets -> Nat]
  BY DEF ExecutorInv, NumbersFit, ExecutorTyped
<1>1. ASSUME UNCHANGED <<made, stray>>, job'.pc \notin {"operating", "record"}
      PROVE  OperationsFit'
  BY <1>0, <1>1 DEF OperationsFit, Room
<1>2. CASE UNCHANGED <<order, made, stray, job>>
  BY <1>0, <1>2 DEF OperationsFit, Room, Target, Way
<1>3. Raised.pc = "fencing" /\ Idle.pc = "idle"
  BY <1>0 DEF Raised, Idle, JobRecords
<1>4. CASE ClaimToDeploy \/ ClaimToRestore
  BY <1>1, <1>4 DEF ClaimToDeploy, ClaimToRestore, Idle
<1>5. ASSUME NEW no \in Nat, Operates(no), Room(Target, no), UNCHANGED <<order, made, stray>>
      PROVE  OperationsFit'
  <2>1. CASE job' = Raised
    BY <1>1, <1>3, <1>5, <2>1
  <2>2. CASE job' = [job EXCEPT !.pc = "operating", !.artifact = no]
    <3>1. job'.pc = "operating" /\ job'.artifact = no /\ job'.mode = job.mode /\ job'.todo = job.todo
      BY <1>0, <2>2 DEF JobRecords
    <3>2. Target' = Target
      BY <1>5, <3>1 DEF Target, Way
    <3> QED
      BY <1>0, <1>5, <3>1, <3>2 DEF OperationsFit, Room
  <2> QED
    BY <1>5, <2>1, <2>2 DEF Operates
<1>6. CASE DeployNext
  <2>1. /\ job.todo # {} /\ UNCHANGED <<order, made, stray>>
        /\ \/ Registered(lane.cand) = 0 /\ made[Target] < LastArtifact /\ Operates(0)
           \/ Registered(lane.cand) # 0 /\ Operates(Registered(lane.cand))
           \/ job' = [job EXCEPT !.pc = "event", !.artifact = Registered(lane.cand)]
           \/ job' = Raised
    BY <1>6 DEF DeployNext
  <2>2. /\ Target \in Targets /\ lane.cand \in Shas
        /\ registry \in [Shas -> [Targets -> Nat]]
    BY <1>0, <2>1, TargetFacts, OperationTypes DEF ExecutorTyped
  <2>3. Registered(lane.cand) \in Nat /\ Registered(lane.cand) <= made[Target]
    BY <1>0, <2>2 DEF Registered, MadeFirst
  <2>4. CASE Registered(lane.cand) = 0 /\ made[Target] < LastArtifact /\ Operates(0)
    BY <1>5, <2>1, <2>4 DEF Room
  <2>5. CASE Registered(lane.cand) # 0 /\ Operates(Registered(lane.cand))
    BY <1>5, <2>1, <2>3, <2>5 DEF Room
  <2>6. CASE job' = [job EXCEPT !.pc = "event", !.artifact = Registered(lane.cand)]
    BY <1>0, <1>1, <2>1, <2>6 DEF JobRecords
  <2>7. CASE job' = Raised
    BY <1>1, <1>3, <2>1, <2>7
  <2> QED
    BY <2>1, <2>4, <2>5, <2>6, <2>7
<1>7. CASE RestoreNext
  <2>1. /\ job.pc = "next" /\ job.todo # {} /\ UNCHANGED <<order, made, stray>>
        /\ \/ job' = [job EXCEPT !.todo = Later]
           \/ job' = Raised
           \/ (\A t \in Targets : registry[lane.base][t] # 0) /\ Operates(Registered(lane.base))
    BY <1>7 DEF RestoreNext
  <2>2. /\ Target \in Targets /\ lane.base \in Shas
        /\ registry \in [Shas -> [Targets -> Nat]]
    BY <1>0, <2>1, TargetFacts DEF ExecutorTyped, LaneRecords
  <2>3. Registered(lane.base) \in Nat /\ Registered(lane.base) <= made[Target]
    BY <1>0, <2>2 DEF Registered, MadeFirst
  <2>4. CASE job' = [job EXCEPT !.todo = Later]
    <3>1. job'.pc = "next"
      BY <1>0, <2>1, <2>4 DEF JobRecords
    <3> QED
      BY <1>1, <2>1, <3>1
  <2>5. CASE job' = Raised
    BY <1>1, <1>3, <2>1, <2>5
  <2>6. CASE (\A t \in Targets : registry[lane.base][t] # 0) /\ Operates(Registered(lane.base))
    <3>1. Registered(lane.base) # 0
      BY <2>2, <2>6 DEF Registered
    <3> QED
      BY <1>5, <2>1, <2>3, <2>6, <3>1 DEF Room
  <2> QED
    BY <2>1, <2>4, <2>5, <2>6
<1>8. CASE OperationReturns
  <2> DEFINE pc == IF job.artifact = 0 THEN "record" ELSE "check"
             no == IF job.artifact = 0 THEN made[Target] + 1 ELSE job.artifact
  <2>1. /\ job.pc = "operating" /\ NowServes(Target, WantedSha, job.artifact)
        /\ job' = [job EXCEPT !.pc = pc, !.artifact = no]
        /\ UNCHANGED <<order, registry, stray>>
    BY <1>8 DEF OperationReturns
  <2>2. job'.pc = pc /\ job'.artifact = no /\ job'.mode = job.mode /\ job'.todo = job.todo
    BY <1>0, <2>1 DEF JobRecords
  <2>3. Target' = Target
    BY <2>1, <2>2 DEF Target, Way
  <2>4. stray = NoOperation
    BY <2>1, Alone
  <2>5. Target \in Targets /\ WantedSha \in Shas /\ job.artifact \in Nat
    BY <2>1, OperationTypes
  <2>6. Room(Target, job.artifact)
    BY <1>0, <2>1 DEF OperationsFit
  <2>7. made'[Target] = (IF job.artifact = 0 THEN made[Target] + 1 ELSE made[Target])
    BY <1>0, <2>1, <2>5, <2>6, RoomKeepsMade
  <2>8. job'.pc = "record" => job'.artifact <= made'[Target] /\ job'.pc # "operating"
    BY <1>0, <2>2, <2>5, <2>7
  <2>9. job'.pc # "operating"
    BY <2>2
  <2> QED
    BY <2>1, <2>3, <2>4, <2>8, <2>9 DEF OperationsFit
<1>9. CASE OperationRaises
  <2>1. stray' = NoOperation
    BY <1>9, Alone DEF OperationRaises
  <2> QED
    BY <1>3, <1>9, <2>1 DEF OperationRaises, OperationsFit
<1>10. CASE StrayEnds
  <2>1. job'.pc = "idle" /\ stray' = NoOperation
    BY <1>10 DEF StrayEnds, ExecutorInv, StrayFits
  <2> QED
    BY <2>1 DEF OperationsFit
<1>11. CASE JobKilled
  <2>1. /\ job # Idle /\ job' = Idle /\ UNCHANGED made
        /\ stray' = IF job.pc = "operating"
                    THEN [target |-> Target, sha |-> WantedSha, artifact |-> job.artifact] ELSE stray
    BY <1>11 DEF JobKilled
  <2>2. CASE job.pc = "operating"
    <3>1. stray'.target = Target /\ stray'.artifact = job.artifact
      BY <2>1, <2>2
    <3> QED
      BY <1>0, <1>3, <2>1, <2>2, <3>1 DEF OperationsFit, Room
  <2>3. CASE job.pc # "operating"
    BY <1>1, <1>3, <2>1, <2>3
  <2> QED
    BY <2>2, <2>3
<1>12. CASE RecordTarget
  <2>1. /\ job' = [job EXCEPT !.pc = "event"] \/ job' = Raised
        /\ UNCHANGED <<made, stray>>
    BY <1>12 DEF RecordTarget
  <2>2. job'.pc \in {"event", "fencing"}
    BY <1>0, <1>3, <2>1 DEF JobRecords
  <2> QED
    BY <1>1, <2>1, <2>2
<1>13. CASE CheckTarget
  <2>1. /\ \/ job' = Raised \/ job' = [job EXCEPT !.pc = "event"]
           \/ job' = [job EXCEPT !.pc = "next", !.todo = Later]
        /\ UNCHANGED <<made, stray>>
    BY <1>13 DEF CheckTarget
  <2>2. job'.pc \in {"event", "fencing", "next"}
    BY <1>0, <1>3, <2>1 DEF JobRecords
  <2> QED
    BY <1>1, <2>1, <2>2
<1>14. ASSUME NEW s, NEW id, NEW then, Event(s, id, then), then.pc \in {"next", "verified", "idle"}
       PROVE  OperationsFit'
  BY <1>1, <1>3, <1>14 DEF Event
<1>15. CASE TargetEvent \/ VerifiedEvent \/ CompleteEvent \/ RestoredEvent
  <2>1. /\ [job EXCEPT !.pc = "next", !.todo = Later].pc = "next"
        /\ [job EXCEPT !.pc = "verified"].pc = "verified"
    BY <1>0 DEF JobRecords
  <2> QED
    BY <1>3, <1>14, <1>15, <2>1 DEF TargetEvent, VerifiedEvent, CompleteEvent, RestoredEvent
<1>16. CASE Trouble \/ FailedEvent
  BY <1>1, <1>3, <1>16 DEF Trouble, FailedEvent
<1>17. CASE \E sha \in Shas, schema \in {1, 2} : AuthorizeRelease(sha, schema)
  BY <1>2, <1>17 DEF AuthorizeRelease
<1>18. CASE LeaseOver
  BY <1>2, <1>18 DEF LeaseOver
<1>19. CASE UNCHANGED executorVars
  BY <1>2, <1>19 DEF executorVars
<1> QED
  BY <1>4, <1>6, <1>7, <1>8, <1>9, <1>10, <1>11, <1>12, <1>13, <1>15, <1>16, <1>17, <1>18, <1>19
     DEF ExecutorNext

LEMMA NumbersStayFit == ExecutorInv /\ NumbersFit /\ [ExecutorNext]_executorVars => NumbersFit'
<1> SUFFICES ASSUME ExecutorInv, NumbersFit, [ExecutorNext]_executorVars PROVE NumbersFit'
  OBVIOUS
<1>1. ExecutorTyped /\ TokensFit
  BY DEF ExecutorInv, NumbersFit
<1> QED
  BY <1>1, TokensStayFit, MadeStaysFirst, OperationsStayFit DEF NumbersFit

LEMMA ExecutorIsTyped == ExecutorInv /\ NumbersFit => ExecutorTypeOK
<1> SUFFICES ASSUME ExecutorInv, NumbersFit PROVE ExecutorTypeOK
  OBVIOUS
<1>1. ExecutorTyped /\ TokensFit /\ MadeFirst
  BY DEF ExecutorInv, NumbersFit
<1>2. /\ attempt \in 0..LastAttempt /\ fences \in Nat /\ lane \in LaneRecords
      /\ serving \in [Targets -> Artifacts] /\ made \in [Targets -> Nat]
      /\ registry \in [Shas -> [Targets -> Nat]] /\ job \in JobRecords
  BY <1>1 DEF ExecutorTyped
<1>3. fences \in 0..LastFence /\ lane.fence \in 0..fences
  BY <1>1, <1>2 DEF TokensFit, LaneRecords
<1>4. /\ lane.cand \in Shas /\ lane.base \in Shas
      /\ lane.state \in BeingExecuted \cup {"none", "authorized", "complete", "restored",
                                         "restoring", "failed_fenced"}
  BY <1>2 DEF LaneRecords, LaneStates, RestStates
<1>5. job.pc \in {"idle", "next", "operating", "record", "check", "event", "verified", "fencing"}
  BY <1>2 DEF JobRecords
<1>6. serving \in [Targets -> [sha : Shas, no : 1..LastArtifact]]
  <2>1. ASSUME NEW t \in Targets PROVE serving[t] \in [sha : Shas, no : 1..LastArtifact]
    <3>1. serving[t] \in Artifacts
      BY <1>2
    <3>2. serving[t].no \in 1..LastArtifact
      BY <1>1, <1>2 DEF MadeFirst
    <3> QED
      BY <3>1, <3>2 DEF Artifacts
  <2> QED
    BY <1>2, <2>1
<1>7. registry \in [Shas -> [Targets -> 0..LastArtifact]]
  <2>1. ASSUME NEW s \in Shas, NEW t \in Targets PROVE registry[s][t] \in 0..LastArtifact
    <3>1. registry[s][t] \in Nat /\ registry[s][t] <= made[t] /\ made[t] \in 1..LastArtifact
      BY <1>1, <1>2 DEF MadeFirst
    <3> QED
      BY <3>1
  <2> QED
    BY <1>2, <2>1
<1> QED
  BY <1>2, <1>3, <1>4, <1>5, <1>6, <1>7 DEF ExecutorTypeOK

HIDE ExecutorAssumption

-----------------------------------------------------------------------------
(* Reverts.                                                                *)

\* Steps at which the tick has the commit of its request in hand.
Carrying == {"record", "rebuild", "site", "worker", "complete"}

Ticks == [at : DaemonSteps, req : Requests \cup {NoRequest}, todo : SUBSET Requests,
          merged : SUBSET Requests, commit : 0..LastCommit, base : BOOLEAN, ok : BOOLEAN]

\* The tick works at a request, and has found or made its commit.
TickCarriesCommit ==
    /\ tick.at \in {"commit", "refused"} \cup Carrying => tick.req \in Requests
    /\ tick.at \in Carrying => tick.commit \in CommitsOf(tick.req)
    /\ tick.at \in Carrying \ {"record"} => mutation[tick.req] # 0

\* A journalled revert has its mutation, when the tick fetched it and ever after.
JournalHasMutation ==
    /\ \A r \in Requests : journal[r] # "none" => mutation[r] # 0
    /\ \A r \in tick.merged : mutation[r] # 0

\* A tick that completes a request has seen DEV serve its commit.
CompleteIsLive ==
    /\ tick.at = "complete" => tick.ok
    /\ tick.at \in {"worker", "complete"} /\ tick.ok => tick.commit <= live

RevertInv ==
    /\ RevertTypeOK /\ RevertedOnce /\ DoneMeansLive
    /\ TickCarriesCommit /\ JournalHasMutation /\ CompleteIsLive

LEMMA InitRevert == RevertInit => RevertInv
<1> SUFFICES ASSUME RevertInit PROVE RevertInv
  OBVIOUS
<1> USE RevertAssumption DEF RevertInit
<1>1. branch \in Seq(Requests \cup {Other}) /\ Len(branch) = 0 /\ DOMAIN branch = {}
  OBVIOUS
<1>2. RevertTypeOK
  <2>1. tick \in Ticks
    BY DEF Ticks, NoTick, DaemonSteps
  <2>2. live \in 0..Len(branch) /\ Len(branch) <= LastCommit
    BY <1>1
  <2>3. /\ request \in [Requests -> Statuses] /\ mutation \in [Requests -> 0..LastCommit]
        /\ journal \in [Requests -> {"none", "merged", "done"}]
    BY DEF Statuses
  <2> QED
    BY <1>1, <2>1, <2>2, <2>3 DEF RevertTypeOK, Ticks
<1>3. \A r \in Requests : CommitsOf(r) = {}
  BY <1>1 DEF CommitsOf
<1> QED
  BY <1>2, <1>3 DEF RevertInv, RevertedOnce, DoneMeansLive, TickCarriesCommit, JournalHasMutation,
     CompleteIsLive, NoTick, Carrying

LEMMA BranchGrows ==
  ASSUME RevertTypeOK, NEW x, branch' = Append(branch, x), x \in Requests \cup {Other}
  PROVE  /\ branch' \in Seq(Requests \cup {Other}) /\ Len(branch') = Len(branch) + 1
         /\ \A r \in Requests : CommitsOf(r)' = CommitsOf(r) \cup (IF r = x THEN {Len(branch) + 1} ELSE {})
<1>1. branch \in Seq(Requests \cup {Other})
  BY DEF RevertTypeOK
<1>2. /\ branch' \in Seq(Requests \cup {Other}) /\ Len(branch') = Len(branch) + 1
      /\ branch'[Len(branch) + 1] = x /\ \A i \in 1..Len(branch) : branch'[i] = branch[i]
      /\ Len(branch) \in Nat /\ DOMAIN branch = 1..Len(branch) /\ DOMAIN branch' = 1..Len(branch')
  BY <1>1
<1> HIDE <1>1
<1>3. \A r \in Requests : CommitsOf(r)' = CommitsOf(r) \cup (IF r = x THEN {Len(branch) + 1} ELSE {})
  <2> TAKE r \in Requests
  <2>1. \A i : i \in CommitsOf(r)' <=> i \in 1..(Len(branch) + 1) /\ branch'[i] = r
    BY <1>2 DEF CommitsOf
  <2>2. \A i : i \in CommitsOf(r) <=> i \in 1..Len(branch) /\ branch[i] = r
    BY <1>2 DEF CommitsOf
  <2>3. \A i : i \in CommitsOf(r)' <=> i \in CommitsOf(r) \/ (i = Len(branch) + 1 /\ r = x)
    BY <1>2, <2>1, <2>2
  <2> QED
    BY <2>3
<1> QED
  BY <1>2, <1>3

\* A step that leaves the commits of every request in place and serves no fewer of them.
NoNewCommit ==
    /\ \A r \in Requests : CommitsOf(r)' = CommitsOf(r)
    /\ live \in Nat /\ live' \in Nat /\ live <= live'

LEMMA SameCommits ==
  ASSUME RevertTypeOK, UNCHANGED <<branch, live>>
  PROVE  NoNewCommit
BY DEF RevertTypeOK, NoNewCommit, CommitsOf

LEMMA OtherGrows ==
  ASSUME RevertTypeOK, branch' = Append(branch, Other)
  PROVE  /\ \A r \in Requests : CommitsOf(r)' = CommitsOf(r)
         /\ branch' \in Seq(Requests \cup {Other}) /\ Len(branch') = Len(branch) + 1
BY BranchGrows, RevertAssumption

LEMMA TicksMove ==
  /\ NoTick \in Ticks
  /\ \A t \in Ticks, at \in DaemonSteps :
       /\ [t EXCEPT !.at = at] \in Ticks /\ [t EXCEPT !.at = at, !.ok = FALSE] \in Ticks
       /\ [t EXCEPT !.at = at, !.req = NoRequest] \in Ticks
       /\ \A base \in BOOLEAN : [t EXCEPT !.at = at, !.base = base] \in Ticks
       /\ \A commit \in 0..LastCommit : [t EXCEPT !.at = at, !.commit = commit] \in Ticks
  /\ \A todo \in SUBSET Requests, merged \in SUBSET Requests :
       [NoTick EXCEPT !.at = "next", !.todo = todo, !.merged = merged] \in Ticks
<1>1. NoTick \in Ticks
  BY RevertAssumption DEF NoTick, Ticks, DaemonSteps
<1>2. \A t \in Ticks, at \in DaemonSteps :
         /\ [t EXCEPT !.at = at] \in Ticks /\ [t EXCEPT !.at = at, !.ok = FALSE] \in Ticks
         /\ [t EXCEPT !.at = at, !.req = NoRequest] \in Ticks
  BY DEF Ticks
<1>3. \A t \in Ticks, at \in DaemonSteps :
         /\ \A base \in BOOLEAN : [t EXCEPT !.at = at, !.base = base] \in Ticks
         /\ \A commit \in 0..LastCommit : [t EXCEPT !.at = at, !.commit = commit] \in Ticks
  BY DEF Ticks
<1>4. \A t \in Ticks, at \in DaemonSteps, todo \in SUBSET Requests, merged \in SUBSET Requests :
        [t EXCEPT !.at = at, !.todo = todo, !.merged = merged] \in Ticks
  BY DEF Ticks
<1>5. "next" \in DaemonSteps
  BY DEF DaemonSteps
<1>6. \A todo \in SUBSET Requests, merged \in SUBSET Requests :
        [NoTick EXCEPT !.at = "next", !.todo = todo, !.merged = merged] \in Ticks
  BY <1>1, <1>4, <1>5
<1> QED
  BY <1>1, <1>2, <1>3, <1>6

LEMMA StepKeepsRevert == RevertInv /\ [RevertNext]_revertVars => RevertInv'
<1> SUFFICES ASSUME RevertInv, [RevertNext]_revertVars PROVE RevertInv'
  OBVIOUS
<1> USE DEF RevertInv, Carrying
<1>types.
      /\ request \in [Requests -> Statuses] /\ mutation \in [Requests -> 0..LastCommit]
      /\ journal \in [Requests -> {"none", "merged", "done"}]
      /\ reviewed \subseteq Requests /\ production \in BOOLEAN
      /\ branch \in Seq(Requests \cup {Other}) /\ Len(branch) <= LastCommit /\ live \in 0..Len(branch)
      /\ quarantine \subseteq Requests
      /\ tick \in Ticks /\ tick.at \in DaemonSteps /\ tick.req \in Requests \cup {NoRequest} /\ tick.todo \subseteq Requests
      /\ tick.merged \subseteq Requests /\ tick.commit \in 0..LastCommit /\ tick.base \in BOOLEAN /\ tick.ok \in BOOLEAN
      /\ Len(branch) \in Nat /\ LastCommit \in Nat
  BY RevertAssumption DEF RevertTypeOK, Ticks
<1>1. ASSUME NEW r \in Requests, FileRequest(r) PROVE RevertInv'
  <2>10. NoNewCommit
    BY SameCommits, <1>1 DEF FileRequest, storeVars
  <2>11. RevertTypeOK'
    BY <1>types, <1>1 DEF RevertTypeOK, Ticks, FileRequest, storeVars, NoTick, ResolvedAs, FiledAs,
       Statuses, DaemonSteps
  <2>12. RevertedOnce'
    BY <1>types, <1>1, <2>10 DEF RevertedOnce, NoNewCommit, FileRequest, storeVars, NoTick, ResolvedAs,
       FiledAs, Statuses, DaemonSteps
  <2>13. DoneMeansLive'
    BY <1>types, <1>1, <2>10 DEF DoneMeansLive, NoNewCommit, CommitsOf, FileRequest, storeVars, NoTick,
       ResolvedAs, FiledAs, Statuses, DaemonSteps
  <2>14. TickCarriesCommit'
    BY <1>types, <1>1, <2>10 DEF TickCarriesCommit, NoNewCommit, FileRequest, storeVars, NoTick,
       ResolvedAs, FiledAs, Statuses, DaemonSteps
  <2>15. JournalHasMutation'
    BY <1>types, <1>1 DEF JournalHasMutation, FileRequest, storeVars, NoTick, ResolvedAs, FiledAs,
       Statuses, DaemonSteps
  <2>16. CompleteIsLive'
    BY <1>types, <1>1, <2>10 DEF CompleteIsLive, NoNewCommit, FileRequest, storeVars, NoTick,
       ResolvedAs, FiledAs, Statuses, DaemonSteps
  <2> QED
    BY <2>11, <2>12, <2>13, <2>14, <2>15, <2>16
<1>2. ASSUME NEW r \in Requests, Approve(r) PROVE RevertInv'
  <2>10. NoNewCommit
    BY SameCommits, <1>2 DEF Approve, storeVars
  <2>11. RevertTypeOK'
    BY <1>types, <1>2 DEF RevertTypeOK, Ticks, Approve, storeVars, NoTick, ResolvedAs, FiledAs,
       Statuses, DaemonSteps
  <2>12. RevertedOnce'
    BY <1>types, <1>2, <2>10 DEF RevertedOnce, NoNewCommit, Approve, storeVars, NoTick, ResolvedAs,
       FiledAs, Statuses, DaemonSteps
  <2>13. DoneMeansLive'
    BY <1>types, <1>2, <2>10 DEF DoneMeansLive, NoNewCommit, CommitsOf, Approve, storeVars, NoTick,
       ResolvedAs, FiledAs, Statuses, DaemonSteps
  <2>14. TickCarriesCommit'
    BY <1>types, <1>2, <2>10 DEF TickCarriesCommit, NoNewCommit, Approve, storeVars, NoTick,
       ResolvedAs, FiledAs, Statuses, DaemonSteps
  <2>15. JournalHasMutation'
    BY <1>types, <1>2 DEF JournalHasMutation, Approve, storeVars, NoTick, ResolvedAs, FiledAs,
       Statuses, DaemonSteps
  <2>16. CompleteIsLive'
    BY <1>types, <1>2, <2>10 DEF CompleteIsLive, NoNewCommit, Approve, storeVars, NoTick, ResolvedAs,
       FiledAs, Statuses, DaemonSteps
  <2> QED
    BY <2>11, <2>12, <2>13, <2>14, <2>15, <2>16
<1>3. ASSUME NEW r \in Requests, Repair(r) PROVE RevertInv'
  <2>10. NoNewCommit
    BY SameCommits, <1>3 DEF Repair, storeVars
  <2>11. RevertTypeOK'
    BY <1>types, <1>3 DEF RevertTypeOK, Ticks, Repair, storeVars, NoTick, ResolvedAs, FiledAs,
       Statuses, DaemonSteps
  <2>12. RevertedOnce'
    BY <1>types, <1>3, <2>10 DEF RevertedOnce, NoNewCommit, Repair, storeVars, NoTick, ResolvedAs,
       FiledAs, Statuses, DaemonSteps
  <2>13. DoneMeansLive'
    BY <1>types, <1>3, <2>10 DEF DoneMeansLive, NoNewCommit, CommitsOf, Repair, storeVars, NoTick,
       ResolvedAs, FiledAs, Statuses, DaemonSteps
  <2>14. TickCarriesCommit'
    BY <1>types, <1>3, <2>10 DEF TickCarriesCommit, NoNewCommit, Repair, storeVars, NoTick, ResolvedAs,
       FiledAs, Statuses, DaemonSteps
  <2>15. JournalHasMutation'
    BY <1>types, <1>3 DEF JournalHasMutation, Repair, storeVars, NoTick, ResolvedAs, FiledAs, Statuses,
       DaemonSteps
  <2>16. CompleteIsLive'
    BY <1>types, <1>3, <2>10 DEF CompleteIsLive, NoNewCommit, Repair, storeVars, NoTick, ResolvedAs,
       FiledAs, Statuses, DaemonSteps
  <2> QED
    BY <2>11, <2>12, <2>13, <2>14, <2>15, <2>16
<1>4. ASSUME ProductionCompletes PROVE RevertInv'
  <2>10. NoNewCommit
    BY SameCommits, <1>4 DEF ProductionCompletes, storeVars
  <2>11. RevertTypeOK'
    BY <1>types, <1>4 DEF RevertTypeOK, Ticks, ProductionCompletes, storeVars, NoTick, ResolvedAs,
       FiledAs, Statuses, DaemonSteps
  <2>12. RevertedOnce'
    BY <1>types, <1>4, <2>10 DEF RevertedOnce, NoNewCommit, ProductionCompletes, storeVars, NoTick,
       ResolvedAs, FiledAs, Statuses, DaemonSteps
  <2>13. DoneMeansLive'
    BY <1>types, <1>4, <2>10 DEF DoneMeansLive, NoNewCommit, CommitsOf, ProductionCompletes, storeVars,
       NoTick, ResolvedAs, FiledAs, Statuses, DaemonSteps
  <2>14. TickCarriesCommit'
    BY <1>types, <1>4, <2>10 DEF TickCarriesCommit, NoNewCommit, ProductionCompletes, storeVars,
       NoTick, ResolvedAs, FiledAs, Statuses, DaemonSteps
  <2>15. JournalHasMutation'
    BY <1>types, <1>4 DEF JournalHasMutation, ProductionCompletes, storeVars, NoTick, ResolvedAs,
       FiledAs, Statuses, DaemonSteps
  <2>16. CompleteIsLive'
    BY <1>types, <1>4, <2>10 DEF CompleteIsLive, NoNewCommit, ProductionCompletes, storeVars, NoTick,
       ResolvedAs, FiledAs, Statuses, DaemonSteps
  <2> QED
    BY <2>11, <2>12, <2>13, <2>14, <2>15, <2>16
<1>5. ASSUME ObjectRestarts PROVE RevertInv'
  <2>10. NoNewCommit
    BY SameCommits, <1>5 DEF ObjectRestarts, storeVars
  <2>11. RevertTypeOK'
    BY <1>types, <1>5 DEF RevertTypeOK, Ticks, ObjectRestarts, storeVars, NoTick, ResolvedAs, FiledAs,
       Statuses, DaemonSteps, Swept
  <2>12. RevertedOnce'
    BY <1>types, <1>5, <2>10 DEF RevertedOnce, NoNewCommit, ObjectRestarts, storeVars, NoTick,
       ResolvedAs, FiledAs, Statuses, DaemonSteps, Swept
  <2>13. DoneMeansLive'
    BY <1>types, <1>5, <2>10 DEF DoneMeansLive, NoNewCommit, CommitsOf, ObjectRestarts, storeVars,
       NoTick, ResolvedAs, FiledAs, Statuses, DaemonSteps, Swept
  <2>14. TickCarriesCommit'
    BY <1>types, <1>5, <2>10 DEF TickCarriesCommit, NoNewCommit, ObjectRestarts, storeVars, NoTick,
       ResolvedAs, FiledAs, Statuses, DaemonSteps, Swept
  <2>15. JournalHasMutation'
    BY <1>types, <1>5 DEF JournalHasMutation, ObjectRestarts, storeVars, NoTick, ResolvedAs, FiledAs,
       Statuses, DaemonSteps, Swept
  <2>16. CompleteIsLive'
    BY <1>types, <1>5, <2>10 DEF CompleteIsLive, NoNewCommit, ObjectRestarts, storeVars, NoTick,
       ResolvedAs, FiledAs, Statuses, DaemonSteps, Swept
  <2> QED
    BY <2>11, <2>12, <2>13, <2>14, <2>15, <2>16
<1>6. ASSUME NEW r \in Requests, Take(r) PROVE RevertInv'
  <2>10. NoNewCommit
    BY SameCommits, <1>6 DEF Take, storeVars
  <2>11. RevertTypeOK'
    BY <1>types, <1>6 DEF RevertTypeOK, Ticks, Take, storeVars, NoTick, ResolvedAs, FiledAs, Statuses,
       DaemonSteps
  <2>12. RevertedOnce'
    BY <1>types, <1>6, <2>10 DEF RevertedOnce, NoNewCommit, Take, storeVars, NoTick, ResolvedAs,
       FiledAs, Statuses, DaemonSteps
  <2>13. DoneMeansLive'
    BY <1>types, <1>6, <2>10 DEF DoneMeansLive, NoNewCommit, CommitsOf, Take, storeVars, NoTick,
       ResolvedAs, FiledAs, Statuses, DaemonSteps
  <2>14. TickCarriesCommit'
    BY <1>types, <1>6, <2>10 DEF TickCarriesCommit, NoNewCommit, Take, storeVars, NoTick, ResolvedAs,
       FiledAs, Statuses, DaemonSteps
  <2>15. JournalHasMutation'
    BY <1>types, <1>6 DEF JournalHasMutation, Take, storeVars, NoTick, ResolvedAs, FiledAs, Statuses,
       DaemonSteps
  <2>16. CompleteIsLive'
    BY <1>types, <1>6, <2>10 DEF CompleteIsLive, NoNewCommit, Take, storeVars, NoTick, ResolvedAs,
       FiledAs, Statuses, DaemonSteps
  <2> QED
    BY <2>11, <2>12, <2>13, <2>14, <2>15, <2>16
<1>7. ASSUME Fetch PROVE RevertInv'
  <2>1. PICK todo \in SUBSET Requests :
           tick' = [NoTick EXCEPT !.at = "next", !.todo = todo, !.merged = {r \in todo : journal[r] = "merged"}]
    BY <1>7 DEF Fetch, Approved
  <2>2. {r \in todo : journal[r] = "merged"} \in SUBSET Requests
    OBVIOUS
  <2>10. NoNewCommit
    BY SameCommits, <1>7 DEF Fetch, storeVars
  <2>f. /\ tick'.at = "next" /\ tick'.merged \subseteq {r \in Requests : journal[r] = "merged"}
        /\ UNCHANGED <<request, mutation, journal, reviewed, production, branch, live, quarantine>>
    BY <1>types, <1>7, <2>1, <2>2 DEF Fetch, storeVars, NoTick, ResolvedAs, FiledAs, Statuses,
       DaemonSteps, Approved, Ticks
  <2>t. tick' \in Ticks
    BY TicksMove, <1>types, <2>1, <2>2 DEF DaemonSteps, Approved, DaemonSteps
  <2>11. RevertTypeOK'
    BY <1>types, <2>f, <2>t, <2>1, <2>2 DEF RevertTypeOK, Ticks, Statuses
  <2>12. RevertedOnce'
    BY <1>types, <2>f, <2>t, <2>10, <2>1, <2>2 DEF RevertedOnce, NoNewCommit, Statuses
  <2>13. DoneMeansLive'
    BY <1>types, <2>f, <2>t, <2>10, <2>1, <2>2 DEF DoneMeansLive, NoNewCommit, CommitsOf, Statuses
  <2>14. TickCarriesCommit'
    BY <1>types, <2>f, <2>t, <2>10, <2>1, <2>2 DEF TickCarriesCommit, NoNewCommit, Statuses
  <2>15. JournalHasMutation'
    BY <1>types, <2>f, <2>t, <2>1, <2>2 DEF JournalHasMutation, Statuses
  <2>16. CompleteIsLive'
    BY <1>types, <2>f, <2>t, <2>10, <2>1, <2>2 DEF CompleteIsLive, NoNewCommit, Statuses
  <2> QED
    BY <2>11, <2>12, <2>13, <2>14, <2>15, <2>16
<1>8. ASSUME GuardRefuses PROVE RevertInv'
  <2>10. NoNewCommit
    BY SameCommits, <1>8 DEF GuardRefuses, storeVars
  <2>11. RevertTypeOK'
    BY <1>types, <1>8 DEF RevertTypeOK, Ticks, GuardRefuses, storeVars, NoTick, ResolvedAs, FiledAs,
       Statuses, DaemonSteps
  <2>12. RevertedOnce'
    BY <1>types, <1>8, <2>10 DEF RevertedOnce, NoNewCommit, GuardRefuses, storeVars, NoTick,
       ResolvedAs, FiledAs, Statuses, DaemonSteps
  <2>13. DoneMeansLive'
    BY <1>types, <1>8, <2>10 DEF DoneMeansLive, NoNewCommit, CommitsOf, GuardRefuses, storeVars,
       NoTick, ResolvedAs, FiledAs, Statuses, DaemonSteps
  <2>14. TickCarriesCommit'
    BY <1>types, <1>8, <2>10 DEF TickCarriesCommit, NoNewCommit, GuardRefuses, storeVars, NoTick,
       ResolvedAs, FiledAs, Statuses, DaemonSteps
  <2>15. JournalHasMutation'
    BY <1>types, <1>8 DEF JournalHasMutation, GuardRefuses, storeVars, NoTick, ResolvedAs, FiledAs,
       Statuses, DaemonSteps
  <2>16. CompleteIsLive'
    BY <1>types, <1>8, <2>10 DEF CompleteIsLive, NoNewCommit, GuardRefuses, storeVars, NoTick,
       ResolvedAs, FiledAs, Statuses, DaemonSteps
  <2> QED
    BY <2>11, <2>12, <2>13, <2>14, <2>15, <2>16
<1>9. ASSUME Refuse PROVE RevertInv'
  <2>10. NoNewCommit
    BY SameCommits, <1>9 DEF Refuse, storeVars
  <2>11. RevertTypeOK'
    BY <1>types, <1>9 DEF RevertTypeOK, Ticks, Refuse, storeVars, NoTick, ResolvedAs, FiledAs,
       Statuses, DaemonSteps
  <2>12. RevertedOnce'
    BY <1>types, <1>9, <2>10 DEF RevertedOnce, NoNewCommit, Refuse, storeVars, NoTick, ResolvedAs,
       FiledAs, Statuses, DaemonSteps
  <2>13. DoneMeansLive'
    BY <1>types, <1>9, <2>10 DEF DoneMeansLive, NoNewCommit, CommitsOf, Refuse, storeVars, NoTick,
       ResolvedAs, FiledAs, Statuses, DaemonSteps
  <2>14. TickCarriesCommit'
    BY <1>types, <1>9, <2>10 DEF TickCarriesCommit, NoNewCommit, Refuse, storeVars, NoTick, ResolvedAs,
       FiledAs, Statuses, DaemonSteps
  <2>15. JournalHasMutation'
    BY <1>types, <1>9 DEF JournalHasMutation, Refuse, storeVars, NoTick, ResolvedAs, FiledAs, Statuses,
       DaemonSteps
  <2>16. CompleteIsLive'
    BY <1>types, <1>9, <2>10 DEF CompleteIsLive, NoNewCommit, Refuse, storeVars, NoTick, ResolvedAs,
       FiledAs, Statuses, DaemonSteps
  <2> QED
    BY <2>11, <2>12, <2>13, <2>14, <2>15, <2>16
<1>10. ASSUME Rebuild PROVE RevertInv'
  <2>10. NoNewCommit
    BY SameCommits, <1>10 DEF Rebuild, storeVars
  <2>11. RevertTypeOK'
    BY <1>types, <1>10 DEF RevertTypeOK, Ticks, Rebuild, storeVars, NoTick, ResolvedAs, FiledAs,
       Statuses, DaemonSteps
  <2>12. RevertedOnce'
    BY <1>types, <1>10, <2>10 DEF RevertedOnce, NoNewCommit, Rebuild, storeVars, NoTick, ResolvedAs,
       FiledAs, Statuses, DaemonSteps
  <2>13. DoneMeansLive'
    BY <1>types, <1>10, <2>10 DEF DoneMeansLive, NoNewCommit, CommitsOf, Rebuild, storeVars, NoTick,
       ResolvedAs, FiledAs, Statuses, DaemonSteps
  <2>14. TickCarriesCommit'
    BY <1>types, <1>10, <2>10 DEF TickCarriesCommit, NoNewCommit, Rebuild, storeVars, NoTick,
       ResolvedAs, FiledAs, Statuses, DaemonSteps
  <2>15. JournalHasMutation'
    BY <1>types, <1>10 DEF JournalHasMutation, Rebuild, storeVars, NoTick, ResolvedAs, FiledAs,
       Statuses, DaemonSteps
  <2>16. CompleteIsLive'
    BY <1>types, <1>10, <2>10 DEF CompleteIsLive, NoNewCommit, Rebuild, storeVars, NoTick, ResolvedAs,
       FiledAs, Statuses, DaemonSteps
  <2> QED
    BY <2>11, <2>12, <2>13, <2>14, <2>15, <2>16
<1>11. ASSUME DeployWorker PROVE RevertInv'
  <2>10. NoNewCommit
    BY SameCommits, <1>11 DEF DeployWorker, storeVars
  <2>f. /\ \/ tick'.at = "off" /\ tick'.merged = {}
           \/ /\ tick.ok /\ tick'.at = "complete" /\ tick.at = "worker"
              /\ tick'.merged = tick.merged /\ tick'.ok = tick.ok /\ tick'.commit = tick.commit /\ tick'.req = tick.req
        /\ journal' \in [Requests -> {"none", "merged", "done"}]
        /\ \A r \in Requests : journal'[r] # "none" => journal[r] # "none"
        /\ UNCHANGED <<request, mutation, reviewed, production, branch, live, quarantine>>
    BY <1>types, <1>11 DEF DeployWorker, storeVars, NoTick, ResolvedAs, FiledAs, Statuses, DaemonSteps,
       Swept, Ticks
  <2>t. tick' \in Ticks
    BY TicksMove, <1>types, <1>11 DEF DeployWorker, Approved, DaemonSteps
  <2>11. RevertTypeOK'
    BY <1>types, <2>f, <2>t DEF RevertTypeOK, Ticks, Statuses
  <2>12. RevertedOnce'
    BY <1>types, <2>f, <2>t, <2>10 DEF RevertedOnce, NoNewCommit, Statuses
  <2>13. DoneMeansLive'
    BY <1>types, <2>f, <2>t, <2>10 DEF DoneMeansLive, NoNewCommit, CommitsOf, Statuses
  <2>14. TickCarriesCommit'
    BY <1>types, <2>f, <2>t, <2>10 DEF TickCarriesCommit, NoNewCommit, Statuses
  <2>15. JournalHasMutation'
    BY <1>types, <2>f, <2>t DEF JournalHasMutation, Statuses
  <2>16. CompleteIsLive'
    BY <1>types, <2>f, <2>t, <2>10 DEF CompleteIsLive, NoNewCommit, Statuses
  <2> QED
    BY <2>11, <2>12, <2>13, <2>14, <2>15, <2>16
<1>12. ASSUME Drained PROVE RevertInv'
  <2>10. NoNewCommit
    BY SameCommits, <1>12 DEF Drained, storeVars
  <2>11. RevertTypeOK'
    BY <1>types, <1>12 DEF RevertTypeOK, Ticks, Drained, storeVars, NoTick, ResolvedAs, FiledAs,
       Statuses, DaemonSteps
  <2>12. RevertedOnce'
    BY <1>types, <1>12, <2>10 DEF RevertedOnce, NoNewCommit, Drained, storeVars, NoTick, ResolvedAs,
       FiledAs, Statuses, DaemonSteps
  <2>13. DoneMeansLive'
    BY <1>types, <1>12, <2>10 DEF DoneMeansLive, NoNewCommit, CommitsOf, Drained, storeVars, NoTick,
       ResolvedAs, FiledAs, Statuses, DaemonSteps
  <2>14. TickCarriesCommit'
    BY <1>types, <1>12, <2>10 DEF TickCarriesCommit, NoNewCommit, Drained, storeVars, NoTick,
       ResolvedAs, FiledAs, Statuses, DaemonSteps
  <2>15. JournalHasMutation'
    BY <1>types, <1>12 DEF JournalHasMutation, Drained, storeVars, NoTick, ResolvedAs, FiledAs,
       Statuses, DaemonSteps
  <2>16. CompleteIsLive'
    BY <1>types, <1>12, <2>10 DEF CompleteIsLive, NoNewCommit, Drained, storeVars, NoTick, ResolvedAs,
       FiledAs, Statuses, DaemonSteps
  <2> QED
    BY <2>11, <2>12, <2>13, <2>14, <2>15, <2>16
<1>13. ASSUME TickDies PROVE RevertInv'
  <2>10. NoNewCommit
    BY SameCommits, <1>13 DEF TickDies, storeVars
  <2>11. RevertTypeOK'
    BY <1>types, <1>13 DEF RevertTypeOK, Ticks, TickDies, storeVars, NoTick, ResolvedAs, FiledAs,
       Statuses, DaemonSteps
  <2>12. RevertedOnce'
    BY <1>types, <1>13, <2>10 DEF RevertedOnce, NoNewCommit, TickDies, storeVars, NoTick, ResolvedAs,
       FiledAs, Statuses, DaemonSteps
  <2>13. DoneMeansLive'
    BY <1>types, <1>13, <2>10 DEF DoneMeansLive, NoNewCommit, CommitsOf, TickDies, storeVars, NoTick,
       ResolvedAs, FiledAs, Statuses, DaemonSteps
  <2>14. TickCarriesCommit'
    BY <1>types, <1>13, <2>10 DEF TickCarriesCommit, NoNewCommit, TickDies, storeVars, NoTick,
       ResolvedAs, FiledAs, Statuses, DaemonSteps
  <2>15. JournalHasMutation'
    BY <1>types, <1>13 DEF JournalHasMutation, TickDies, storeVars, NoTick, ResolvedAs, FiledAs,
       Statuses, DaemonSteps
  <2>16. CompleteIsLive'
    BY <1>types, <1>13, <2>10 DEF CompleteIsLive, NoNewCommit, TickDies, storeVars, NoTick, ResolvedAs,
       FiledAs, Statuses, DaemonSteps
  <2> QED
    BY <2>11, <2>12, <2>13, <2>14, <2>15, <2>16
<1>14. ASSUME RecordMutation PROVE RevertInv'
  <2>1. \/ mutation' = mutation /\ journal' = journal
        \/ /\ mutation[tick.req] = 0 /\ mutation' = [mutation EXCEPT ![tick.req] = tick.commit]
           /\ journal' = [journal EXCEPT ![tick.req] = "merged"]
    BY <1>14 DEF RecordMutation, MutationRecorded, MayRecord, Evidence
  <2>3. tick' = NoTick \/ (tick' = [tick EXCEPT !.at = "rebuild", !.base = production] /\ mutation'[tick.req] = tick.commit)
    BY <1>types, <1>14 DEF RecordMutation, MutationRecorded, MayRecord, Evidence, TickCarriesCommit
  <2>2. tick.req \in Requests /\ tick.commit \in CommitsOf(tick.req) /\ tick.commit # 0
    BY <1>types, <1>14 DEF RecordMutation, TickCarriesCommit, CommitsOf
  <2>10. NoNewCommit
    BY SameCommits, <1>14 DEF RecordMutation, storeVars
  <2>f. /\ \/ tick'.at = "off" /\ tick'.merged = {}
           \/ /\ tick'.at = "rebuild" /\ mutation'[tick.req] # 0
              /\ tick'.merged = tick.merged /\ tick'.commit = tick.commit /\ tick'.req = tick.req
        /\ UNCHANGED <<request, reviewed, production, branch, live, quarantine>>
    <3>1. UNCHANGED <<request, reviewed, production, branch, live, quarantine>>
      BY <1>14, <2>1, <2>2, <2>3 DEF RecordMutation, storeVars
    <3>2. /\ \/ tick'.at = "off" /\ tick'.merged = {}
           \/ /\ tick'.at = "rebuild" /\ mutation'[tick.req] # 0
              /\ tick'.merged = tick.merged /\ tick'.commit = tick.commit /\ tick'.req = tick.req
      <4>1. CASE tick' = NoTick
        BY <4>1 DEF NoTick
      <4>2. CASE tick' = [tick EXCEPT !.at = "rebuild", !.base = production] /\ mutation'[tick.req] = tick.commit
        <5>1. /\ tick'.at = "rebuild" /\ tick'.merged = tick.merged
              /\ tick'.commit = tick.commit /\ tick'.req = tick.req
          BY <1>types, <4>2 DEF Ticks
        <5>2. mutation'[tick.req] # 0
          BY <2>2, <4>2
        <5> QED
          BY <5>1, <5>2
      <4> QED
        BY <2>3, <4>1, <4>2
    <3> QED
      BY <3>1, <3>2
  <2>t. tick' \in Ticks
    <3>1. CASE tick' = NoTick
      BY <3>1, TicksMove
    <3>2. CASE tick' = [tick EXCEPT !.at = "rebuild", !.base = production]
      <4>1. "rebuild" \in DaemonSteps
        BY DEF DaemonSteps
      <4> QED
        BY <1>types, <3>2, <4>1, TicksMove
    <3> QED
      BY <2>3, <3>1, <3>2
  <2>11. RevertTypeOK'
    <3>1. UNCHANGED <<request, reviewed, production, branch, live, quarantine>>
      BY <2>f
    <3>2. mutation' \in [Requests -> 0..LastCommit]
      BY <1>types, <2>1, <2>2
    <3>3. journal' \in [Requests -> {"none", "merged", "done"}]
      BY <1>types, <2>1, <2>2
    <3> QED
      BY <1>types, <2>t, <3>1, <3>2, <3>3 DEF RevertTypeOK, Ticks
  <2>12. RevertedOnce'
    BY <1>types, <2>f, <2>t, <2>10, <2>1, <2>2, <2>3 DEF RevertedOnce, NoNewCommit, Statuses
  <2>13. DoneMeansLive'
    BY <1>types, <2>f, <2>t, <2>10, <2>1, <2>2, <2>3 DEF DoneMeansLive, NoNewCommit, CommitsOf, Statuses
  <2>14. TickCarriesCommit'
    BY <1>types, <2>f, <2>t, <2>10, <2>1, <2>2, <2>3 DEF TickCarriesCommit, NoNewCommit, Statuses
  <2>15. JournalHasMutation'
    BY <1>types, <2>f, <2>t, <2>1, <2>2, <2>3 DEF JournalHasMutation, Statuses
  <2>16. CompleteIsLive'
    BY <1>types, <2>f, <2>t, <2>10, <2>1, <2>2, <2>3 DEF CompleteIsLive, NoNewCommit, Statuses
  <2> QED
    BY <2>11, <2>12, <2>13, <2>14, <2>15, <2>16
<1>15. ASSUME CompleteMutation PROVE RevertInv'
  <2>1. tick.req \in Requests /\ tick.commit \in CommitsOf(tick.req) /\ tick.commit <= live
    BY <1>types, <1>15 DEF CompleteMutation, TickCarriesCommit, CompleteIsLive
  <2>2. /\ \/ UNCHANGED <<request, journal, reviewed>>
           \/ /\ reviewed' \in {reviewed \cup {tick.req}, reviewed} /\ journal' = [journal EXCEPT ![tick.req] = "done"]
              /\ request' = IF journal[tick.req] = "merged" /\ request[tick.req] = "approved"
                             THEN [request EXCEPT ![tick.req] = "done"] ELSE request
    BY <1>15 DEF CompleteMutation, MutationCompleted
  <2>3. mutation[tick.req] # 0
    BY <1>15 DEF CompleteMutation, TickCarriesCommit
  <2>4. (tick' = NoTick \/ tick' = [tick EXCEPT !.at = "next", !.req = NoRequest]) /\ quarantine' \subseteq Requests
    BY <1>types, <1>15, <2>1 DEF CompleteMutation
  <2>10. NoNewCommit
    BY SameCommits, <1>15 DEF CompleteMutation, storeVars
  <2>f. /\ tick'.at \in {"off", "next"} /\ tick'.merged \in {{}, tick.merged}
        /\ UNCHANGED <<mutation, production, branch, live>>
    <3>1. UNCHANGED <<mutation, production, branch, live>>
      BY <1>15, <2>1, <2>2, <2>3, <2>4 DEF CompleteMutation, storeVars
    <3>2. /\ tick'.at \in {"off", "next"} /\ tick'.merged \in {{}, tick.merged}
      <4>1. CASE tick' = NoTick
        BY <4>1 DEF NoTick
      <4>2. CASE tick' = [tick EXCEPT !.at = "next", !.req = NoRequest]
        BY <1>types, <4>2 DEF Ticks
      <4> QED
        BY <2>4, <4>1, <4>2
    <3> QED
      BY <3>1, <3>2
  <2>t. tick' \in Ticks
    BY TicksMove, <1>types, <2>4 DEF DaemonSteps
  <2>11. RevertTypeOK'
    BY <1>types, <2>f, <2>t, <2>1, <2>2, <2>3, <2>4 DEF RevertTypeOK, Ticks, Statuses
  <2>12. RevertedOnce'
    BY <1>types, <2>f, <2>t, <2>10, <2>1, <2>2, <2>3, <2>4 DEF RevertedOnce, NoNewCommit, Statuses
  <2>13. DoneMeansLive'
    BY <1>types, <2>f, <2>t, <2>10, <2>1, <2>2, <2>3, <2>4 DEF DoneMeansLive, NoNewCommit, CommitsOf,
       Statuses
  <2>14. TickCarriesCommit'
    BY <1>types, <2>f, <2>t, <2>10, <2>1, <2>2, <2>3, <2>4 DEF TickCarriesCommit, NoNewCommit, Statuses
  <2>15. JournalHasMutation'
    BY <1>types, <2>f, <2>t, <2>1, <2>2, <2>3, <2>4 DEF JournalHasMutation, Statuses
  <2>16. CompleteIsLive'
    BY <1>types, <2>f, <2>t, <2>10, <2>1, <2>2, <2>3, <2>4 DEF CompleteIsLive, NoNewCommit, Statuses
  <2> QED
    BY <2>11, <2>12, <2>13, <2>14, <2>15, <2>16
<1>16. ASSUME Resume PROVE RevertInv'
  <2>1. tick.req \in Requests /\ mutation[tick.req] \in CommitsOf(tick.req)
    BY <1>16 DEF Resume, TickCarriesCommit, JournalHasMutation, RevertedOnce
  <2>10. NoNewCommit
    BY SameCommits, <1>16 DEF Resume, storeVars
  <2>11. RevertTypeOK'
    BY <1>types, <1>16, <2>1 DEF RevertTypeOK, Ticks, Resume, storeVars, NoTick, ResolvedAs, FiledAs,
       Statuses, DaemonSteps
  <2>12. RevertedOnce'
    BY <1>types, <1>16, <2>10, <2>1 DEF RevertedOnce, NoNewCommit, Resume, storeVars, NoTick,
       ResolvedAs, FiledAs, Statuses, DaemonSteps
  <2>13. DoneMeansLive'
    BY <1>types, <1>16, <2>10, <2>1 DEF DoneMeansLive, NoNewCommit, CommitsOf, Resume, storeVars,
       NoTick, ResolvedAs, FiledAs, Statuses, DaemonSteps
  <2>14. TickCarriesCommit'
    BY <1>types, <1>16, <2>10, <2>1 DEF TickCarriesCommit, NoNewCommit, Resume, storeVars, NoTick,
       ResolvedAs, FiledAs, Statuses, DaemonSteps
  <2>15. JournalHasMutation'
    BY <1>types, <1>16, <2>1 DEF JournalHasMutation, Resume, storeVars, NoTick, ResolvedAs, FiledAs,
       Statuses, DaemonSteps
  <2>16. CompleteIsLive'
    BY <1>types, <1>16, <2>10, <2>1 DEF CompleteIsLive, NoNewCommit, Resume, storeVars, NoTick,
       ResolvedAs, FiledAs, Statuses, DaemonSteps
  <2> QED
    BY <2>11, <2>12, <2>13, <2>14, <2>15, <2>16
<1>17. ASSUME UNCHANGED revertVars PROVE RevertInv'
  BY <1>17 DEF revertVars, RevertTypeOK, RevertedOnce, DoneMeansLive, TickCarriesCommit,
     JournalHasMutation, CompleteIsLive, CommitsOf
<1>18. ASSUME OtherCommit PROVE RevertInv'
  <2>1. /\ \A r \in Requests : CommitsOf(r)' = CommitsOf(r)
        /\ branch' \in Seq(Requests \cup {Other}) /\ Len(branch') = Len(branch) + 1
    BY <1>18, OtherGrows DEF OtherCommit
  <2>10. NoNewCommit
    BY <1>types, <1>18, <2>1 DEF OtherCommit, NoNewCommit
  <2>11. RevertTypeOK'
    BY <1>types, <1>18, <2>1 DEF RevertTypeOK, Ticks, OtherCommit, storeVars, NoTick, ResolvedAs,
       FiledAs, Statuses, DaemonSteps
  <2>12. RevertedOnce'
    BY <1>types, <1>18, <2>10, <2>1 DEF RevertedOnce, NoNewCommit, OtherCommit, storeVars, NoTick,
       ResolvedAs, FiledAs, Statuses, DaemonSteps
  <2>13. DoneMeansLive'
    BY <1>types, <1>18, <2>10, <2>1 DEF DoneMeansLive, NoNewCommit, CommitsOf, OtherCommit, storeVars,
       NoTick, ResolvedAs, FiledAs, Statuses, DaemonSteps
  <2>14. TickCarriesCommit'
    BY <1>types, <1>18, <2>10, <2>1 DEF TickCarriesCommit, NoNewCommit, OtherCommit, storeVars, NoTick,
       ResolvedAs, FiledAs, Statuses, DaemonSteps
  <2>15. JournalHasMutation'
    BY <1>types, <1>18, <2>1 DEF JournalHasMutation, OtherCommit, storeVars, NoTick, ResolvedAs,
       FiledAs, Statuses, DaemonSteps
  <2>16. CompleteIsLive'
    BY <1>types, <1>18, <2>10, <2>1 DEF CompleteIsLive, NoNewCommit, OtherCommit, storeVars, NoTick,
       ResolvedAs, FiledAs, Statuses, DaemonSteps
  <2> QED
    BY <2>11, <2>12, <2>13, <2>14, <2>15, <2>16
<1>19. ASSUME DeploySite PROVE RevertInv'
  <2>1. tick.commit \in Nat /\ tick.commit <= Len(branch)
    BY <1>types, <1>19 DEF DeploySite, TickCarriesCommit, CommitsOf
  <2>10. NoNewCommit
    BY <1>types, <1>19 DEF DeploySite, NoNewCommit, CommitsOf
  <2>f. /\ tick.at = "site" /\ tick'.at = "worker" /\ tick'.merged = tick.merged /\ tick'.commit = tick.commit /\ tick'.req = tick.req
        /\ (live' = Len(branch) \/ (live' = live /\ tick'.ok = FALSE))
        /\ UNCHANGED <<request, mutation, journal, reviewed, production, branch, quarantine>>
    BY <1>types, <1>19, <2>1 DEF DeploySite, storeVars, NoTick, ResolvedAs, FiledAs, Statuses,
       DaemonSteps, Ticks
  <2>t. tick' \in Ticks
    BY TicksMove, <1>types, <1>19 DEF DeploySite, Approved, DaemonSteps
  <2>11. RevertTypeOK'
    BY <1>types, <2>f, <2>t, <2>1 DEF RevertTypeOK, Ticks, Statuses
  <2>12. RevertedOnce'
    BY <1>types, <2>f, <2>t, <2>10, <2>1 DEF RevertedOnce, NoNewCommit, Statuses
  <2>13. DoneMeansLive'
    BY <1>types, <2>f, <2>t, <2>10, <2>1 DEF DoneMeansLive, NoNewCommit, CommitsOf, Statuses
  <2>14. TickCarriesCommit'
    BY <1>types, <2>f, <2>t, <2>10, <2>1 DEF TickCarriesCommit, NoNewCommit, Statuses
  <2>15. JournalHasMutation'
    BY <1>types, <2>f, <2>t, <2>1 DEF JournalHasMutation, Statuses
  <2>16. CompleteIsLive'
    BY <1>types, <2>f, <2>t, <2>10, <2>1 DEF CompleteIsLive, NoNewCommit, Statuses
  <2> QED
    BY <2>11, <2>12, <2>13, <2>14, <2>15, <2>16
<1>20. ASSUME Flush PROVE RevertInv'
  <2>1. /\ \A r \in Requests : CommitsOf(r)' = CommitsOf(r)
        /\ branch' \in Seq(Requests \cup {Other}) /\ Len(branch') \in {Len(branch), Len(branch) + 1}
        /\ Len(branch') <= LastCommit
    <3>1. CASE UNCHANGED branch
      BY <1>types, <3>1 DEF CommitsOf
    <3>2. CASE branch' = Append(branch, Other) /\ Len(branch') <= LastCommit
      BY <3>2, OtherGrows
    <3> QED
      BY <1>20, <3>1, <3>2 DEF Flush
  <2>2. live' \in {live, Len(branch')}
    BY <1>20 DEF Flush
  <2>10. NoNewCommit
    BY <1>types, <2>1, <2>2 DEF NoNewCommit
  <2>11. RevertTypeOK'
    BY <1>types, <1>20, <2>1, <2>2 DEF RevertTypeOK, Ticks, Flush, storeVars, NoTick, ResolvedAs,
       FiledAs, Statuses, DaemonSteps, Swept
  <2>12. RevertedOnce'
    BY <1>types, <1>20, <2>10, <2>1, <2>2 DEF RevertedOnce, NoNewCommit, Flush, storeVars, NoTick,
       ResolvedAs, FiledAs, Statuses, DaemonSteps, Swept
  <2>13. DoneMeansLive'
    BY <1>types, <1>20, <2>10, <2>1, <2>2 DEF DoneMeansLive, NoNewCommit, CommitsOf, Flush, storeVars,
       NoTick, ResolvedAs, FiledAs, Statuses, DaemonSteps, Swept
  <2>14. TickCarriesCommit'
    BY <1>types, <1>20, <2>10, <2>1, <2>2 DEF TickCarriesCommit, NoNewCommit, Flush, storeVars, NoTick,
       ResolvedAs, FiledAs, Statuses, DaemonSteps, Swept
  <2>15. JournalHasMutation'
    BY <1>types, <1>20, <2>1, <2>2 DEF JournalHasMutation, Flush, storeVars, NoTick, ResolvedAs,
       FiledAs, Statuses, DaemonSteps, Swept
  <2>16. CompleteIsLive'
    BY <1>types, <1>20, <2>10, <2>1, <2>2 DEF CompleteIsLive, NoNewCommit, Flush, storeVars, NoTick,
       ResolvedAs, FiledAs, Statuses, DaemonSteps, Swept
  <2> QED
    BY <2>11, <2>12, <2>13, <2>14, <2>15, <2>16
<1>21. ASSUME Execute PROVE RevertInv'
  <2>1. /\ tick.at = "commit" /\ tick.req \in Requests /\ UNCHANGED <<storeVars, live, quarantine>>
    BY <1>21 DEF Execute, TickCarriesCommit
  <2>2. CASE UNCHANGED branch
    <3>1. \/ tick' = [tick EXCEPT !.at = "refused"]
          \/ /\ tick' = [tick EXCEPT !.at = "record", !.commit = Len(branch)]
             /\ Len(branch) \in CommitsOf(tick.req)
      <4>1. Len(branch) # Len(branch) + 1
        BY <1>types
      <4>2. Append(branch, tick.req) # branch
        BY <1>types, <2>1, <4>1
      <4> QED
        BY <1>21, <2>2, <4>2 DEF Execute
    <3>2. NoNewCommit
      BY SameCommits, <2>1, <2>2
    <3>3. RevertTypeOK'
      <4>1. tick' \in Ticks
        <5>1. Len(branch) \in 0..LastCommit /\ {"record", "refused"} \subseteq DaemonSteps
          BY <1>types DEF DaemonSteps
        <5> QED
          <6>1. CASE tick' = [tick EXCEPT !.at = "refused"]
            BY TicksMove, <1>types, <5>1, <6>1
          <6>2. CASE tick' = [tick EXCEPT !.at = "record", !.commit = Len(branch)]
            BY TicksMove, <1>types, <5>1, <6>2
          <6> QED
            BY <3>1, <6>1, <6>2
      <4> QED
        BY <1>types, <2>1, <2>2, <4>1 DEF RevertTypeOK, storeVars, Ticks
    <3>4. RevertedOnce' /\ DoneMeansLive'
      BY <1>types, <2>1, <2>2, <3>2 DEF RevertedOnce, DoneMeansLive, NoNewCommit, storeVars
    <3>5. TickCarriesCommit' /\ JournalHasMutation' /\ CompleteIsLive'
      BY <1>types, <2>1, <2>2, <3>1, <3>2 DEF Ticks, TickCarriesCommit, JournalHasMutation,
         CompleteIsLive, NoNewCommit, storeVars
    <3> QED
      BY <3>3, <3>4, <3>5
  <2>3. CASE branch' = Append(branch, tick.req) /\ ~HasCommit(tick.req)
              /\ tick' = [tick EXCEPT !.at = "record", !.commit = Len(branch) + 1] /\ Len(branch) < LastCommit
    <3>1. /\ branch' \in Seq(Requests \cup {Other}) /\ Len(branch') = Len(branch) + 1
          /\ \A r \in Requests : CommitsOf(r)' = CommitsOf(r) \cup (IF r = tick.req THEN {Len(branch) + 1} ELSE {})
      BY <2>1, <2>3, BranchGrows
    <3>2. CommitsOf(tick.req) = {} /\ CommitsOf(tick.req)' = {Len(branch) + 1}
      BY <2>1, <2>3, <3>1 DEF HasCommit
    <3>3. \A r \in Requests : r # tick.req => CommitsOf(r)' = CommitsOf(r)
      BY <3>1
    <3>4. RevertTypeOK'
      <4>1. tick' \in Ticks
        <5>1. Len(branch) + 1 \in 0..LastCommit /\ "record" \in DaemonSteps
          BY <1>types, <2>3 DEF DaemonSteps
        <5> QED
          BY TicksMove, <1>types, <2>3, <5>1
      <4> QED
        BY <1>types, <2>1, <2>3, <3>1, <4>1 DEF RevertTypeOK, storeVars, Ticks
    <3>5. RevertedOnce'
      <4>1. mutation[tick.req] = 0 /\ mutation' = mutation
        BY <2>1, <3>2 DEF RevertedOnce, storeVars
      <4> QED
        <5>1. ASSUME NEW r \in Requests
              PROVE  (\A i, j \in CommitsOf(r)' : i = j) /\ (mutation'[r] # 0 => mutation'[r] \in CommitsOf(r)')
          <6>1. CASE r = tick.req
            <7>1. CommitsOf(r) = {} /\ mutation[r] = 0
              BY <3>2, <4>1, <6>1
            <7>2. CommitsOf(r)' = CommitsOf(r) \cup {Len(branch) + 1}
              BY <3>1, <6>1
            <7> QED
              BY <4>1, <7>1, <7>2
          <6>2. CASE r # tick.req
            BY <3>3, <4>1, <6>2 DEF RevertedOnce
          <6> QED
            BY <6>1, <6>2
        <5> QED
          BY <5>1 DEF RevertedOnce
    <3>6. DoneMeansLive'
      BY <2>1, <3>1 DEF DoneMeansLive, storeVars
    <3>7. TickCarriesCommit' /\ JournalHasMutation' /\ CompleteIsLive'
      BY <1>types, <2>1, <2>3, <3>2 DEF TickCarriesCommit, JournalHasMutation, CompleteIsLive, storeVars
    <3> QED
      BY <3>4, <3>5, <3>6, <3>7
  <2> QED
    BY <1>21, <2>2, <2>3 DEF Execute
<1> QED
  BY <1>1, <1>2, <1>3, <1>4, <1>5, <1>6, <1>7, <1>8, <1>9, <1>10, <1>11, <1>12, <1>13, <1>14, <1>15,
     <1>16, <1>17, <1>18, <1>19, <1>20, <1>21 DEF RevertNext

LEMMA RevertInvSuffices == RevertInv => RevertIsExact
BY DEF RevertInv, RevertIsExact

\* However ticks die, answers get lost and the object restarts: a requested revert is on the
\* branch once, its journal names that commit, and it is done only when DEV serves it
\* (direct_apply_daemon.py, editor-store-core.js).
THEOREM RevertHolds == RevertSpec => []RevertIsExact
BY InitRevert, StepKeepsRevert, RevertInvSuffices, PTL DEF RevertSpec

-----------------------------------------------------------------------------
(* Transitions of canonical main.                                          *)

\* The steps of a command that has seen every surface where it should be.
Working == {"again", "local", "tree?", "tree", "aligned", "remote", "tracking", "remote?", "local?"}
BeforePush == {"again", "local", "tree?", "tree", "aligned", "remote"}
Command == [at : {"idle", "check", "failed"} \cup Working, verb : {"forward", "restore"},
            dry : BOOLEAN, ledger : Seq(Surfaces), tried : BOOLEAN]

\* How many mutations are in the ledger at each step, by the order of the verb.
LedgerFollows ==
    LET LedgerHas(forward, restore) == Len(cas.ledger) = IF cas.verb = "forward" THEN forward ELSE restore
    IN /\ cas.at \in {"check", "again"} => LedgerHas(0, 0) /\ ~cas.tried
       /\ cas.at = "local" => LedgerHas(0, 1) /\ (cas.verb = "forward" => ~cas.tried)
       /\ cas.at \in {"tree?", "tree"} => LedgerHas(1, 2)
       /\ cas.at = "aligned" => LedgerHas(2, 3)
       /\ cas.at = "remote" => LedgerHas(2, 0)
       /\ cas.at = "tracking" => LedgerHas(3, 3)
       /\ cas.at \in {"remote?", "local?"} /\ ~cas.dry => LedgerHas(4, 4)
       /\ cas.dry => /\ LedgerHas(0, 0) /\ ~cas.tried
                     /\ cas.at \in {"check", "remote?", "local?", "failed"}

\* A mutation in the ledger has happened.
LedgerIsMoved == cas.at # "idle" => ToSet(cas.ledger) \subseteq moved

\* A command that has begun to work started from surfaces that were elsewhere: what it finds
\* at its target now has been moved.
Begun == cas.at \in Working \/ cas.tried \/ Len(cas.ledger) > 0
FoundIsMoved ==
    cas.at # "idle" /\ Begun =>
        /\ refs.local = To => "local" \in moved
        /\ refs.remote = To => "remote" \in moved

\* What a command has behind it has moved.
MovedByNow ==
    ~cas.dry =>
        /\ cas.at \in {"tree?", "tree", "aligned", "tracking", "remote?", "local?"} => "local" \in moved
        /\ cas.at \in {"tracking", "remote?", "local?"} => "remote" \in moved
        /\ cas.at \in {"local", "tree?", "tree", "aligned"} /\ cas.verb = "restore" => "remote" \in moved
        /\ cas.at = "remote" /\ cas.verb = "forward" => "local" \in moved

\* A push of the candidate that outlives its client was made when main had the candidate
\* here and the remote did not, and stays so until it lands.
LatePushIsAhead == push = "candidate" => refs.local # "prior" /\ refs.remote # "candidate"

\* No push of the candidate is on its way when a command has seen every surface in place,
\* until a forward command makes its own.
NoPushBefore ==
    ~cas.dry /\ cas.at \in Working =>
        /\ cas.verb = "restore" => push # "candidate"
        /\ cas.verb = "forward" /\ cas.at \in BeforePush
           => push # "candidate" /\ refs.remote # "candidate"
        /\ cas.verb = "forward" /\ cas.at \in BeforePush \ {"again", "local"} => refs.local # "prior"

\* Nothing but the remote has moved before the first mutation, and in a rehearsal.
NothingMovedYet ==
    /\ cas.at \in {"check", "again"} \/ (cas.dry /\ cas.at # "idle") => moved \subseteq {"remote"}
    /\ cas.verb = "forward" /\ cas.at = "local" => moved \subseteq {"remote"}
    /\ cas.at = "failed" /\ Len(cas.ledger) = 0 /\ ~cas.tried =>
          moved \subseteq {"remote"} \/ (refs.remote # To /\ push # To)

\* With no mutation in the ledger, a remote that was moved is not moved back.
NotMovedBack ==
    cas.at # "idle" /\ Len(cas.ledger) = 0 /\ "remote" \in moved => push # From /\ refs.remote # From

CasInv ==
    /\ CasTypeOK /\ cas \in Command /\ receipt.ledger \in Seq(Surfaces)
    /\ OthersKeepTheirs /\ ReceiptIsTrue
    /\ LedgerFollows /\ LedgerIsMoved /\ FoundIsMoved /\ MovedByNow
    /\ LatePushIsAhead /\ NoPushBefore /\ NothingMovedYet /\ NotMovedBack

LEMMA LedgerFacts ==
  ASSUME NEW l \in Seq(Surfaces)
  PROVE  /\ Len(l) \in Nat /\ (Len(l) = 0 <=> l = <<>>)
         /\ Len(l) = 0 => ToSet(l) = {}
         /\ \A s \in Surfaces :
               /\ Append(l, s) \in Seq(Surfaces) /\ Len(Append(l, s)) = Len(l) + 1
               /\ ToSet(Append(l, s)) = ToSet(l) \cup {s}
<1>1. Len(l) \in Nat /\ (Len(l) = 0 <=> l = <<>>)
  OBVIOUS
<1>2. Len(l) = 0 => ToSet(l) = {}
  BY DEF ToSet
<1>3. ASSUME NEW s \in Surfaces
      PROVE  /\ Append(l, s) \in Seq(Surfaces) /\ Len(Append(l, s)) = Len(l) + 1
             /\ ToSet(Append(l, s)) = ToSet(l) \cup {s}
  <2>1. /\ Append(l, s) \in Seq(Surfaces) /\ Len(Append(l, s)) = Len(l) + 1
        /\ Append(l, s)[Len(l) + 1] = s /\ \A i \in 1..Len(l) : Append(l, s)[i] = l[i]
    OBVIOUS
  <2>2. DOMAIN Append(l, s) = 1..(Len(l) + 1) /\ DOMAIN l = 1..Len(l)
    BY <2>1
  <2> HIDE <1>2
  <2>3. ToSet(Append(l, s)) = ToSet(l) \cup {s}
    <3> DEFINE a == Append(l, s)
    <3> HIDE DEF a
    <3>1. /\ DOMAIN a = 1..(Len(l) + 1) /\ a[Len(l) + 1] = s /\ \A i \in 1..Len(l) : a[i] = l[i]
      BY <2>1, <2>2 DEF a
    <3>2. ToSet(a) = ToSet(l) \cup {s}
      BY <1>1, <2>2, <3>1 DEF ToSet
    <3> QED
      BY <3>2 DEF a
  <2> QED
    BY <2>1, <2>3
<1> QED
  BY <1>1, <1>2, <1>3

LEMMA InitCas == CasInit => CasInv
<1>1. <<>> \in Seq(Surfaces) /\ Len(<<>>) = 0 /\ ToSet(<<>>) = {}
  BY DEF ToSet
<1> QED
  BY <1>1 DEF CasInit, CasInv, Command, Working, Begun, BeforePush, From, To, FromOf, ToOf, Resting,
     NoReceipt, Nowhere, Unread, Surfaces, Holdings,
    CasTypeOK, OthersKeepTheirs, ReceiptIsTrue, LedgerFollows, LedgerIsMoved, FoundIsMoved, MovedByNow,
    LatePushIsAhead, NoPushBefore, NothingMovedYet, NotMovedBack

LEMMA IntendedIsAll ==
  ASSUME NEW verb \in {"forward", "restore"}
  PROVE  ToSet(Intended(verb)) = Surfaces
<1>1. /\ \A s \in Surfaces : \E i \in 1..4 : Intended(verb)[i] = s
      /\ \A i \in 1..4 : Intended(verb)[i] \in Surfaces
      /\ DOMAIN Intended(verb) = 1..4
  <2>1. CASE verb = "forward"
    BY <2>1 DEF Intended, Surfaces
  <2>2. CASE verb = "restore"
    BY <2>2 DEF Intended, Surfaces
  <2> QED
    BY <2>1, <2>2
<1> QED
  BY <1>1 DEF ToSet

LEMMA NextIs ==
  ASSUME NEW l, cas.verb \in {"forward", "restore"}
  PROVE  /\ Len(l) = 2 /\ cas.verb = "forward" => NextMutation(l) = "remote"
         /\ Len(l) = 3 => NextMutation(l) = "tracking"
         /\ Len(l) = 1 /\ cas.verb = "restore" => NextMutation(l) = "local"
<1>1. /\ Intended("forward")[3] = "remote" /\ Intended("forward")[4] = "tracking"
      /\ Intended("restore")[2] = "local" /\ Intended("restore")[4] = "tracking"
  BY DEF Intended
<1>2. \A n \in 1..3 : Len(l) = n => NextMutation(l) = Intended(cas.verb)[n + 1]
  BY DEF NextMutation
<1>3. Len(l) = 2 => NextMutation(l) = Intended(cas.verb)[2 + 1]
  BY <1>2
<1>4. Len(l) = 3 => NextMutation(l) = Intended(cas.verb)[3 + 1]
  BY <1>2
<1>5. Len(l) = 1 => NextMutation(l) = Intended(cas.verb)[1 + 1]
  BY <1>2
<1> QED
  BY <1>1, <1>3, <1>4, <1>5

LEMMA StepKeepsCas == CasInv /\ [CasNext]_casVars => CasInv'
<1> SUFFICES ASSUME CasInv, [CasNext]_casVars PROVE CasInv'
  OBVIOUS
<1> USE DEF CasInv, Working, BeforePush, Surfaces, From, To, FromOf, ToOf, Failing
<1>ledger.
      /\ Len(cas.ledger) \in Nat /\ (Len(cas.ledger) = 0 <=> cas.ledger = <<>>)
      /\ Len(cas.ledger) = 0 => ToSet(cas.ledger) = {}
      /\ \A s \in Surfaces :
            /\ Append(cas.ledger, s) \in Seq(Surfaces) /\ Len(Append(cas.ledger, s)) = Len(cas.ledger) + 1
            /\ ToSet(Append(cas.ledger, s)) = ToSet(cas.ledger) \cup {s}
  BY LedgerFacts DEF Command
<1>empty. <<>> \in Seq(Surfaces) /\ Len(<<>>) = 0 /\ ToSet(<<>>) = {}
  BY DEF ToSet
<1>types.
      /\ cas.at \in {"idle", "check", "failed"} \cup Working /\ cas.verb \in {"forward", "restore"}
      /\ cas.dry \in BOOLEAN /\ cas.tried \in BOOLEAN /\ cas.ledger \in Seq(Surfaces)
      /\ refs \in [Surfaces -> Holdings] /\ push \in {Nowhere, "prior", "candidate"}
      /\ moved \subseteq Surfaces /\ others \subseteq {"local", "remote"}
  BY DEF Command, CasTypeOK
<1>next.
      /\ Len(cas.ledger) = 2 /\ cas.verb = "forward" => NextMutation(cas.ledger) = "remote"
      /\ Len(cas.ledger) = 3 => NextMutation(cas.ledger) = "tracking"
      /\ Len(cas.ledger) = 2 /\ cas.verb = "forward" => NextMutation(Append(cas.ledger, "remote")) = "tracking"
      /\ Len(cas.ledger) = 0 /\ cas.verb = "restore" => NextMutation(Append(cas.ledger, "remote")) = "local"
  <2> DEFINE longer == Append(cas.ledger, "remote")
  <2>1. Len(cas.ledger) \in Nat /\ Len(longer) = Len(cas.ledger) + 1
    BY <1>ledger
  <2>3. (Len(cas.ledger) = 2 => Len(Append(cas.ledger, "remote")) = 3) /\ (Len(cas.ledger) = 0 => Len(Append(cas.ledger, "remote")) = 1)
    <3>1. \A n \in Nat : (n = 2 => n + 1 = 3) /\ (n = 0 => n + 1 = 1)
      OBVIOUS
    <3> QED
      BY <2>1, <3>1
  <2> HIDE DEF longer
  <2>2. /\ Len(longer) = 3 => NextMutation(longer) = "tracking"
        /\ Len(longer) = 1 /\ cas.verb = "restore" => NextMutation(longer) = "local"
    BY <1>types, NextIs
  <2>4. /\ Len(cas.ledger) = 2 /\ cas.verb = "forward" => NextMutation(cas.ledger) = "remote"
        /\ Len(cas.ledger) = 3 => NextMutation(cas.ledger) = "tracking"
    BY <1>types, NextIs
  <2> QED
    BY <2>2, <2>3, <2>4 DEF longer
<1>1. ASSUME NEW verb \in {"forward", "restore"}, NEW dry \in BOOLEAN, Start(verb, dry) PROVE CasInv'
  <2>1. /\ cas.at = "idle" /\ cas'.at = "check" /\ cas'.verb = verb /\ cas'.dry = dry
        /\ cas'.ledger = <<>> /\ cas'.tried = FALSE /\ moved' = {}
        /\ UNCHANGED <<refs, push, receipt, others>>
    BY <1>1 DEF Start, Resting
  <2>2. cas' \in Command
    BY <1>empty, <1>1 DEF Start, Resting, Command
  <2>10. CasTypeOK'
    BY <1>ledger, <1>empty, <1>types, <2>1 DEF CasTypeOK, Nowhere, Holdings
  <2>11. OthersKeepTheirs'
    BY <1>ledger, <1>empty, <1>types, <2>1 DEF OthersKeepTheirs, Holdings
  <2>12. ReceiptIsTrue'
    BY <1>ledger, <1>empty, <1>types, <2>1 DEF ReceiptIsTrue, LedgerFollows, Begun
  <2>13. LedgerFollows'
    BY <1>ledger, <1>empty, <1>types, <2>1 DEF LedgerFollows, Begun
  <2>14. LedgerIsMoved'
    BY <1>ledger, <1>empty, <1>types, <2>1 DEF LedgerIsMoved, FoundIsMoved, Begun
  <2>15. FoundIsMoved'
    BY <1>ledger, <1>empty, <1>types, <2>1 DEF FoundIsMoved, LedgerFollows, Begun
  <2>16. MovedByNow'
    BY <1>ledger, <1>empty, <1>types, <2>1 DEF MovedByNow, FoundIsMoved, Begun, LedgerFollows
  <2>17. LatePushIsAhead'
    BY <1>ledger, <1>empty, <1>types, <2>1 DEF LatePushIsAhead, NoPushBefore, Nowhere, LedgerFollows
  <2>18. NoPushBefore'
    BY <1>ledger, <1>empty, <1>types, <2>1 DEF NoPushBefore, LatePushIsAhead, LedgerFollows, Nowhere
  <2>19. NothingMovedYet'
    BY <1>ledger, <1>empty, <1>types, <2>1 DEF NothingMovedYet, NoPushBefore, LatePushIsAhead,
       LedgerFollows
  <2>20. NotMovedBack'
    BY <1>ledger, <1>empty, <1>types, <2>1 DEF NotMovedBack, NoPushBefore, LedgerFollows, Nowhere,
       NothingMovedYet
  <2> QED
    BY <2>1, <2>2, <2>10, <2>11, <2>12, <2>13, <2>14, <2>15, <2>16, <2>17, <2>18, <2>19, <2>20
<1>2. ASSUME Check PROVE CasInv'
  BY <1>ledger, <1>empty, <1>2 DEF Check, Command, Working, Begun, BeforePush, From, To, FromOf, ToOf,
     Resting, Failing, NoReceipt, Nowhere, Unread, Surfaces, Holdings, Moves, Refuses, NextMutation,
     Intended, MayPush, Expected,
     CasTypeOK, OthersKeepTheirs, ReceiptIsTrue, LedgerFollows, LedgerIsMoved, FoundIsMoved,
     MovedByNow, LatePushIsAhead, NoPushBefore, NothingMovedYet, NotMovedBack
<1>3. ASSUME CheckAgain PROVE CasInv'
  BY <1>ledger, <1>empty, <1>3 DEF CheckAgain, Command, Working, Begun, BeforePush, From, To, FromOf,
     ToOf, Resting, Failing, NoReceipt, Nowhere, Unread, Surfaces, Holdings, Moves, Refuses,
     NextMutation, Intended, MayPush, Expected,
     CasTypeOK, OthersKeepTheirs, ReceiptIsTrue, LedgerFollows, LedgerIsMoved, FoundIsMoved,
     MovedByNow, LatePushIsAhead, NoPushBefore, NothingMovedYet, NotMovedBack
<1>4. ASSUME LocalCas PROVE CasInv'
  <2>1. /\ cas.at = "local" /\ UNCHANGED <<push, receipt, others>>
        /\ cas'.verb = cas.verb /\ cas'.dry = cas.dry /\ cas'.tried = cas.tried
        /\ \/ cas'.at = "failed" /\ cas'.ledger = cas.ledger /\ UNCHANGED <<refs, moved>>
           \/ /\ refs' = [refs EXCEPT !["local"] = To] /\ moved' = moved \cup {"local"} /\ refs.local = From
              /\ \/ cas'.at = "failed" /\ cas'.ledger = cas.ledger
                 \/ cas'.at = "tree?" /\ cas'.ledger = Append(cas.ledger, "local")
    BY <1>4 DEF LocalCas, Moves, Refuses, Command
  <2>3. Len(cas.ledger) = IF cas.verb = "forward" THEN 0 ELSE 1
    BY <1>types, <2>1 DEF LedgerFollows
  <2>2. cas' \in Command
    BY <1>ledger, <1>types, <1>4 DEF LocalCas, Moves, Refuses, Command
  <2>10. CasTypeOK'
    <3>1. refs' \in [Surfaces -> Holdings]
      BY <1>types, <2>1 DEF Holdings
    <3>2. moved' \subseteq Surfaces /\ others' \subseteq {"local", "remote"}
      BY <1>types, <2>1
    <3> QED
      BY <1>types, <2>1, <3>1, <3>2 DEF CasTypeOK
  <2>11. OthersKeepTheirs'
    BY <1>ledger, <1>empty, <1>types, <2>1, <2>3 DEF OthersKeepTheirs, Holdings
  <2>12. ReceiptIsTrue'
    BY <1>ledger, <1>empty, <1>types, <2>1, <2>3 DEF ReceiptIsTrue, LedgerFollows, Begun
  <2>13. LedgerFollows'
    BY <1>ledger, <1>empty, <1>types, <2>1, <2>3 DEF LedgerFollows, Begun
  <2>14. LedgerIsMoved'
    BY <1>ledger, <1>empty, <1>types, <2>1, <2>3 DEF LedgerIsMoved, FoundIsMoved, Begun
  <2>15. FoundIsMoved'
    BY <1>ledger, <1>empty, <1>types, <2>1, <2>3 DEF FoundIsMoved, LedgerFollows, Begun
  <2>16. MovedByNow'
    BY <1>ledger, <1>empty, <1>types, <2>1, <2>3 DEF MovedByNow, FoundIsMoved, Begun, LedgerFollows
  <2>17. LatePushIsAhead'
    BY <1>ledger, <1>empty, <1>types, <2>1, <2>3 DEF LatePushIsAhead, NoPushBefore, Nowhere,
       LedgerFollows
  <2>18. NoPushBefore'
    BY <1>ledger, <1>empty, <1>types, <2>1, <2>3 DEF NoPushBefore, LatePushIsAhead, LedgerFollows,
       Nowhere
  <2>19. NothingMovedYet'
    BY <1>ledger, <1>empty, <1>types, <2>1, <2>3 DEF NothingMovedYet, NoPushBefore, LatePushIsAhead,
       LedgerFollows
  <2>20. NotMovedBack'
    BY <1>ledger, <1>empty, <1>types, <2>1, <2>3 DEF NotMovedBack, NoPushBefore, LedgerFollows,
       Nowhere, NothingMovedYet
  <2> QED
    BY <2>1, <2>2, <2>10, <2>11, <2>12, <2>13, <2>14, <2>15, <2>16, <2>17, <2>18, <2>19, <2>20
<1>5. ASSUME TrackingCas PROVE CasInv'
  <2>1. /\ cas.at = "tracking" /\ UNCHANGED <<push, receipt, others>>
        /\ cas'.verb = cas.verb /\ cas'.dry = cas.dry /\ cas'.tried = cas.tried
        /\ \/ cas'.at = "failed" /\ cas'.ledger = cas.ledger /\ UNCHANGED <<refs, moved>>
           \/ /\ refs' = [refs EXCEPT !["tracking"] = To] /\ moved' = moved \cup {"tracking"} /\ refs.tracking = From
              /\ \/ cas'.at = "failed" /\ cas'.ledger = cas.ledger
                 \/ cas'.at = "remote?" /\ cas'.ledger = Append(cas.ledger, "tracking")
    BY <1>5 DEF TrackingCas, Moves, Refuses, Command
  <2>3. Len(cas.ledger) = IF cas.verb = "forward" THEN 3 ELSE 3
    BY <1>types, <2>1 DEF LedgerFollows
  <2>2. cas' \in Command
    BY <1>ledger, <1>types, <1>5 DEF TrackingCas, Moves, Refuses, Command
  <2>10. CasTypeOK'
    <3>1. refs' \in [Surfaces -> Holdings]
      BY <1>types, <2>1 DEF Holdings
    <3>2. moved' \subseteq Surfaces /\ others' \subseteq {"local", "remote"}
      BY <1>types, <2>1
    <3> QED
      BY <1>types, <2>1, <3>1, <3>2 DEF CasTypeOK
  <2>11. OthersKeepTheirs'
    BY <1>ledger, <1>empty, <1>types, <2>1, <2>3 DEF OthersKeepTheirs, Holdings
  <2>12. ReceiptIsTrue'
    BY <1>ledger, <1>empty, <1>types, <2>1, <2>3 DEF ReceiptIsTrue, LedgerFollows, Begun
  <2>13. LedgerFollows'
    <3>1. Len(cas.ledger) \in Nat /\ Len(Append(cas.ledger, "tracking")) = Len(cas.ledger) + 1
      BY <1>ledger
    <3>2. cas'.ledger = cas.ledger \/ Len(cas'.ledger) = Len(cas.ledger) + 1
      BY <2>1, <3>1
    <3>3. cas'.at # "failed" => Len(cas'.ledger) = Len(cas.ledger) + 1
      BY <2>1, <3>1
    <3>4. cas'.at # "failed" => Len(cas'.ledger) = 4
      BY <1>types, <2>3, <3>1, <3>3
    <3>5. ~cas.dry
      BY <2>1 DEF LedgerFollows
    <3> QED
      BY <1>types, <2>1, <3>4, <3>5 DEF LedgerFollows
  <2>14. LedgerIsMoved'
    BY <1>ledger, <1>empty, <1>types, <2>1, <2>3 DEF LedgerIsMoved, FoundIsMoved, Begun
  <2>15. FoundIsMoved'
    BY <1>ledger, <1>empty, <1>types, <2>1, <2>3 DEF FoundIsMoved, LedgerFollows, Begun
  <2>16. MovedByNow'
    BY <1>ledger, <1>empty, <1>types, <2>1, <2>3 DEF MovedByNow, FoundIsMoved, Begun, LedgerFollows
  <2>17. LatePushIsAhead'
    BY <1>ledger, <1>empty, <1>types, <2>1, <2>3 DEF LatePushIsAhead, NoPushBefore, Nowhere,
       LedgerFollows
  <2>18. NoPushBefore'
    BY <1>ledger, <1>empty, <1>types, <2>1, <2>3 DEF NoPushBefore, LatePushIsAhead, LedgerFollows,
       Nowhere
  <2>19. NothingMovedYet'
    BY <1>ledger, <1>empty, <1>types, <2>1, <2>3 DEF NothingMovedYet, NoPushBefore, LatePushIsAhead,
       LedgerFollows
  <2>20. NotMovedBack'
    BY <1>ledger, <1>empty, <1>types, <2>1, <2>3 DEF NotMovedBack, NoPushBefore, LedgerFollows,
       Nowhere, NothingMovedYet
  <2> QED
    BY <2>1, <2>2, <2>10, <2>11, <2>12, <2>13, <2>14, <2>15, <2>16, <2>17, <2>18, <2>19, <2>20
<1>6. ASSUME BeforeAlignment PROVE CasInv'
  <2>1. /\ cas.at = "tree?" /\ UNCHANGED <<refs, push, receipt, moved, others>>
        /\ cas'.verb = cas.verb /\ cas'.dry = cas.dry /\ cas'.tried = cas.tried /\ cas'.ledger = cas.ledger
        /\ \/ cas'.at = "failed"
           \/ refs.local = To /\ cas'.at = "tree"
    BY <1>types, <1>6 DEF BeforeAlignment, Command
  <2>2. cas' \in Command
    <3>1. cas' = [cas EXCEPT !.at = "tree"] \/ cas' = [cas EXCEPT !.at = "failed"]
      BY <1>types, <1>6 DEF BeforeAlignment
    <3> QED
      BY <3>1 DEF Command
  <2>10. CasTypeOK'
    BY <1>ledger, <1>empty, <1>types, <2>1 DEF CasTypeOK, Nowhere, Holdings
  <2>11. OthersKeepTheirs'
    BY <1>ledger, <1>empty, <1>types, <2>1 DEF OthersKeepTheirs, Holdings
  <2>12. ReceiptIsTrue'
    BY <1>ledger, <1>empty, <1>types, <2>1 DEF ReceiptIsTrue, LedgerFollows, Begun
  <2>13. LedgerFollows'
    BY <1>ledger, <1>empty, <1>types, <2>1 DEF LedgerFollows, Begun
  <2>14. LedgerIsMoved'
    BY <1>ledger, <1>empty, <1>types, <2>1 DEF LedgerIsMoved, FoundIsMoved, Begun
  <2>15. FoundIsMoved'
    BY <1>ledger, <1>empty, <1>types, <2>1 DEF FoundIsMoved, LedgerFollows, Begun
  <2>16. MovedByNow'
    BY <1>ledger, <1>empty, <1>types, <2>1 DEF MovedByNow, FoundIsMoved, Begun, LedgerFollows
  <2>17. LatePushIsAhead'
    BY <1>ledger, <1>empty, <1>types, <2>1 DEF LatePushIsAhead, NoPushBefore, Nowhere, LedgerFollows
  <2>18. NoPushBefore'
    BY <1>ledger, <1>empty, <1>types, <2>1 DEF NoPushBefore, LatePushIsAhead, LedgerFollows, Nowhere
  <2>19. NothingMovedYet'
    BY <1>ledger, <1>empty, <1>types, <2>1 DEF NothingMovedYet, NoPushBefore, LatePushIsAhead,
       LedgerFollows
  <2>20. NotMovedBack'
    BY <1>ledger, <1>empty, <1>types, <2>1 DEF NotMovedBack, NoPushBefore, LedgerFollows, Nowhere,
       NothingMovedYet
  <2> QED
    BY <2>1, <2>2, <2>10, <2>11, <2>12, <2>13, <2>14, <2>15, <2>16, <2>17, <2>18, <2>19, <2>20
<1>7. ASSUME AlignTree PROVE CasInv'
  <2>1. /\ cas.at = "tree" /\ UNCHANGED <<push, receipt, others>>
        /\ cas'.verb = cas.verb /\ cas'.dry = cas.dry /\ cas'.tried = cas.tried
        /\ \/ cas'.at = "failed" /\ cas'.ledger = cas.ledger /\ UNCHANGED <<refs, moved>>
           \/ /\ refs' = [refs EXCEPT !["tree"] = To] /\ moved' = moved \cup {"tree"}
              /\ \/ cas'.at = "failed" /\ cas'.ledger = cas.ledger
                 \/ cas'.at = "aligned" /\ cas'.ledger = Append(cas.ledger, "tree")
    BY <1>7 DEF AlignTree, Moves, Refuses, Command
  <2>3. Len(cas.ledger) = IF cas.verb = "forward" THEN 1 ELSE 2
    BY <1>types, <2>1 DEF LedgerFollows
  <2>2. cas' \in Command
    BY <1>ledger, <1>types, <1>7 DEF AlignTree, Moves, Refuses, Command
  <2>10. CasTypeOK'
    <3>1. refs' \in [Surfaces -> Holdings]
      BY <1>types, <2>1 DEF Holdings
    <3>2. moved' \subseteq Surfaces /\ others' \subseteq {"local", "remote"}
      BY <1>types, <2>1
    <3> QED
      BY <1>types, <2>1, <3>1, <3>2 DEF CasTypeOK
  <2>11. OthersKeepTheirs'
    BY <1>ledger, <1>empty, <1>types, <2>1, <2>3 DEF OthersKeepTheirs, Holdings
  <2>12. ReceiptIsTrue'
    BY <1>ledger, <1>empty, <1>types, <2>1, <2>3 DEF ReceiptIsTrue, LedgerFollows, Begun
  <2>13. LedgerFollows'
    BY <1>ledger, <1>empty, <1>types, <2>1, <2>3 DEF LedgerFollows, Begun
  <2>14. LedgerIsMoved'
    BY <1>ledger, <1>empty, <1>types, <2>1, <2>3 DEF LedgerIsMoved, FoundIsMoved, Begun
  <2>15. FoundIsMoved'
    BY <1>ledger, <1>empty, <1>types, <2>1, <2>3 DEF FoundIsMoved, LedgerFollows, Begun
  <2>16. MovedByNow'
    BY <1>ledger, <1>empty, <1>types, <2>1, <2>3 DEF MovedByNow, FoundIsMoved, Begun, LedgerFollows
  <2>17. LatePushIsAhead'
    BY <1>ledger, <1>empty, <1>types, <2>1, <2>3 DEF LatePushIsAhead, NoPushBefore, Nowhere,
       LedgerFollows
  <2>18. NoPushBefore'
    BY <1>ledger, <1>empty, <1>types, <2>1, <2>3 DEF NoPushBefore, LatePushIsAhead, LedgerFollows,
       Nowhere
  <2>19. NothingMovedYet'
    BY <1>ledger, <1>empty, <1>types, <2>1, <2>3 DEF NothingMovedYet, NoPushBefore, LatePushIsAhead,
       LedgerFollows
  <2>20. NotMovedBack'
    BY <1>ledger, <1>empty, <1>types, <2>1, <2>3 DEF NotMovedBack, NoPushBefore, LedgerFollows,
       Nowhere, NothingMovedYet
  <2> QED
    BY <2>1, <2>2, <2>10, <2>11, <2>12, <2>13, <2>14, <2>15, <2>16, <2>17, <2>18, <2>19, <2>20
<1>8. ASSUME AfterAlignment PROVE CasInv'
  <2>3. cas.at = "aligned" /\ Len(cas.ledger) = IF cas.verb = "forward" THEN 2 ELSE 3
    BY <1>types, <1>8 DEF AfterAlignment, LedgerFollows
  <2>1. /\ cas.at = "aligned" /\ UNCHANGED <<refs, push, receipt, moved, others>>
        /\ cas'.verb = cas.verb /\ cas'.dry = cas.dry /\ cas'.tried = cas.tried /\ cas'.ledger = cas.ledger
        /\ \/ cas'.at = "failed"
           \/ /\ refs.local = To
              /\ cas'.at = IF cas.verb = "forward" THEN "remote" ELSE "tracking"
    BY <1>types, <1>next, <1>8, <2>3 DEF AfterAlignment, Command
  <2>2. cas' \in Command
    <3>1. cas' = [cas EXCEPT !.at = "remote"] \/ cas' = [cas EXCEPT !.at = "tracking"] \/ cas' = [cas EXCEPT !.at = "failed"]
      BY <1>types, <1>next, <1>8, <2>3 DEF AfterAlignment
    <3> QED
      BY <3>1 DEF Command
  <2>10. CasTypeOK'
    BY <1>ledger, <1>empty, <1>types, <2>1 DEF CasTypeOK, Nowhere, Holdings
  <2>11. OthersKeepTheirs'
    BY <1>ledger, <1>empty, <1>types, <2>1 DEF OthersKeepTheirs, Holdings
  <2>12. ReceiptIsTrue'
    BY <1>ledger, <1>empty, <1>types, <2>1 DEF ReceiptIsTrue, LedgerFollows, Begun
  <2>13. LedgerFollows'
    BY <1>ledger, <1>empty, <1>types, <2>1 DEF LedgerFollows, Begun
  <2>14. LedgerIsMoved'
    BY <1>ledger, <1>empty, <1>types, <2>1 DEF LedgerIsMoved, FoundIsMoved, Begun
  <2>15. FoundIsMoved'
    BY <1>ledger, <1>empty, <1>types, <2>1 DEF FoundIsMoved, LedgerFollows, Begun
  <2>16. MovedByNow'
    BY <1>ledger, <1>empty, <1>types, <2>1 DEF MovedByNow, FoundIsMoved, Begun, LedgerFollows
  <2>17. LatePushIsAhead'
    BY <1>ledger, <1>empty, <1>types, <2>1 DEF LatePushIsAhead, NoPushBefore, Nowhere, LedgerFollows
  <2>18. NoPushBefore'
    BY <1>ledger, <1>empty, <1>types, <2>1 DEF NoPushBefore, LatePushIsAhead, LedgerFollows, Nowhere
  <2>19. NothingMovedYet'
    BY <1>ledger, <1>empty, <1>types, <2>1 DEF NothingMovedYet, NoPushBefore, LatePushIsAhead,
       LedgerFollows
  <2>20. NotMovedBack'
    BY <1>ledger, <1>empty, <1>types, <2>1 DEF NotMovedBack, NoPushBefore, LedgerFollows, Nowhere,
       NothingMovedYet
  <2> QED
    BY <2>1, <2>2, <2>10, <2>11, <2>12, <2>13, <2>14, <2>15, <2>16, <2>17, <2>18, <2>19, <2>20
<1>9. ASSUME PushMain PROVE CasInv'
  <2>3. cas.at = "remote" /\ (refs.remote = To => "remote" \in moved) /\ ToSet(cas.ledger) \subseteq moved
        /\ Len(cas.ledger) = IF cas.verb = "forward" THEN 2 ELSE 0
    BY <1>types, <1>9 DEF PushMain, FoundIsMoved, Begun, LedgerIsMoved, LedgerFollows
  <2>1. /\ cas.at = "remote" /\ UNCHANGED <<receipt, others>>
        /\ cas'.verb = cas.verb /\ cas'.dry = cas.dry /\ cas'.tried = TRUE
        /\ \/ /\ refs.remote \in {From, To} /\ refs' = [refs EXCEPT !.remote = To] /\ UNCHANGED push
              /\ moved' = IF refs.remote = To THEN moved ELSE moved \cup {"remote"}
              /\ \/ cas'.at = "failed" /\ cas'.ledger = cas.ledger
                 \/ /\ cas'.at = IF cas.verb = "forward" THEN "tracking" ELSE "local"
                    /\ cas'.ledger = Append(cas.ledger, "remote")
           \/ /\ cas'.at = "failed" /\ cas'.ledger = cas.ledger
              /\ UNCHANGED <<refs, moved>> /\ push' \in {push, To}
    BY <1>types, <1>next, <1>9, <2>3 DEF PushMain, MayPush, Command
  <2>2. cas' \in Command
    <3>1. \/ cas' = [cas EXCEPT !.tried = TRUE, !.at = "failed"]
          \/ cas' = [cas EXCEPT !.tried = TRUE, !.ledger = Append(@, "remote"), !.at = "tracking"]
          \/ cas' = [cas EXCEPT !.tried = TRUE, !.ledger = Append(@, "remote"), !.at = "local"]
      BY <1>types, <1>next, <1>9, <2>3 DEF PushMain, Command
    <3> QED
      BY <1>ledger, <3>1 DEF Command
  <2>10. CasTypeOK'
    <3>1. refs' \in [Surfaces -> Holdings]
      BY <1>types, <2>1 DEF Holdings
    <3>2. moved' \subseteq Surfaces /\ others' \subseteq {"local", "remote"}
      BY <1>types, <2>1
    <3> QED
      BY <1>types, <2>1, <3>1, <3>2 DEF CasTypeOK
  <2>11. OthersKeepTheirs'
    BY <1>ledger, <1>empty, <1>types, <2>1, <2>3 DEF OthersKeepTheirs, Holdings
  <2>12. ReceiptIsTrue'
    BY <1>ledger, <1>empty, <1>types, <2>1, <2>3 DEF ReceiptIsTrue, LedgerFollows, Begun
  <2>13. LedgerFollows'
    <3>1. Len(cas.ledger) \in Nat /\ Len(Append(cas.ledger, "remote")) = Len(cas.ledger) + 1
      BY <1>ledger
    <3>2. cas'.ledger = cas.ledger \/ Len(cas'.ledger) = Len(cas.ledger) + 1
      BY <2>1, <3>1
    <3>3. cas'.at # "failed" => Len(cas'.ledger) = Len(cas.ledger) + 1
      BY <2>1, <3>1
    <3>4. cas'.at # "failed" => Len(cas'.ledger) = IF cas.verb = "forward" THEN 3 ELSE 1
      BY <1>types, <2>3, <3>1, <3>3
    <3>5. ~cas.dry
      BY <2>1 DEF LedgerFollows
    <3> QED
      BY <1>types, <2>1, <3>4, <3>5 DEF LedgerFollows
  <2>14. LedgerIsMoved'
    <3>1. ToSet(Append(cas.ledger, "remote")) = ToSet(cas.ledger) \cup {"remote"}
      BY <1>ledger
    <3>2. moved \subseteq moved' /\ (cas'.ledger # cas.ledger => "remote" \in moved')
      BY <2>1, <2>3
    <3> QED
      BY <2>1, <2>3, <3>1, <3>2 DEF LedgerIsMoved
  <2>15. FoundIsMoved'
    BY <1>ledger, <1>empty, <1>types, <2>1, <2>3 DEF FoundIsMoved, LedgerFollows, Begun
  <2>16. MovedByNow'
    BY <1>ledger, <1>empty, <1>types, <2>1, <2>3 DEF MovedByNow, FoundIsMoved, Begun, LedgerFollows
  <2>17. LatePushIsAhead'
    BY <1>ledger, <1>empty, <1>types, <2>1, <2>3 DEF LatePushIsAhead, NoPushBefore, Nowhere,
       LedgerFollows
  <2>18. NoPushBefore'
    BY <1>ledger, <1>empty, <1>types, <2>1, <2>3 DEF NoPushBefore, LatePushIsAhead, LedgerFollows,
       Nowhere
  <2>19. NothingMovedYet'
    BY <1>ledger, <1>empty, <1>types, <2>1, <2>3 DEF NothingMovedYet, NoPushBefore, LatePushIsAhead,
       LedgerFollows
  <2>20. NotMovedBack'
    BY <1>ledger, <1>empty, <1>types, <2>1, <2>3 DEF NotMovedBack, NoPushBefore, LedgerFollows,
       Nowhere, NothingMovedYet
  <2> QED
    BY <2>1, <2>2, <2>10, <2>11, <2>12, <2>13, <2>14, <2>15, <2>16, <2>17, <2>18, <2>19, <2>20
<1>10. ASSUME FinalRemote PROVE CasInv'
  <2>1. /\ cas.at = "remote?" /\ cas'.at \in {"failed", "local?"} /\ UNCHANGED <<refs, push, receipt, moved, others>>
        /\ cas'.verb = cas.verb /\ cas'.dry = cas.dry /\ cas'.tried = cas.tried /\ cas'.ledger = cas.ledger
    BY <1>10 DEF FinalRemote, Command
  <2>2. cas' \in Command
    BY <1>10 DEF FinalRemote, Command
  <2>10. CasTypeOK'
    BY <1>ledger, <1>empty, <1>types, <2>1 DEF CasTypeOK, Nowhere, Holdings
  <2>11. OthersKeepTheirs'
    BY <1>ledger, <1>empty, <1>types, <2>1 DEF OthersKeepTheirs, Holdings
  <2>12. ReceiptIsTrue'
    BY <1>ledger, <1>empty, <1>types, <2>1 DEF ReceiptIsTrue, LedgerFollows, Begun
  <2>13. LedgerFollows'
    BY <1>ledger, <1>empty, <1>types, <2>1 DEF LedgerFollows, Begun
  <2>14. LedgerIsMoved'
    BY <1>ledger, <1>empty, <1>types, <2>1 DEF LedgerIsMoved, FoundIsMoved, Begun
  <2>15. FoundIsMoved'
    BY <1>ledger, <1>empty, <1>types, <2>1 DEF FoundIsMoved, LedgerFollows, Begun
  <2>16. MovedByNow'
    BY <1>ledger, <1>empty, <1>types, <2>1 DEF MovedByNow, FoundIsMoved, Begun, LedgerFollows
  <2>17. LatePushIsAhead'
    BY <1>ledger, <1>empty, <1>types, <2>1 DEF LatePushIsAhead, NoPushBefore, Nowhere, LedgerFollows
  <2>18. NoPushBefore'
    BY <1>ledger, <1>empty, <1>types, <2>1 DEF NoPushBefore, LatePushIsAhead, LedgerFollows, Nowhere
  <2>19. NothingMovedYet'
    <3>1. cas.dry \/ Len(cas.ledger) = 4
      BY <1>types, <2>1 DEF LedgerFollows
    <3>2. cas.dry => moved \subseteq {"remote"}
      BY <2>1 DEF NothingMovedYet
    <3>3. cas'.at \notin {"check", "again", "local"} /\ cas'.dry = cas.dry /\ moved' = moved
      BY <2>1
    <3>4. Len(cas'.ledger) = 0 => cas.dry
      BY <2>1, <3>1
    <3> QED
      BY <3>2, <3>3, <3>4 DEF NothingMovedYet
  <2>20. NotMovedBack'
    BY <1>ledger, <1>empty, <1>types, <2>1 DEF NotMovedBack, NoPushBefore, LedgerFollows, Nowhere,
       NothingMovedYet
  <2> QED
    BY <2>1, <2>2, <2>10, <2>11, <2>12, <2>13, <2>14, <2>15, <2>16, <2>17, <2>18, <2>19, <2>20
<1>11. ASSUME Succeed PROVE CasInv'
  <2>1. cas'.at = "idle" /\ cas'.verb = "forward" /\ cas'.dry = FALSE /\ cas'.ledger = <<>> /\ cas'.tried = FALSE
        /\ UNCHANGED <<refs, push, moved, others>>
    BY <1>11 DEF Succeed, Writes, Resting
  <2>2. cas' \in Command
    BY <1>empty, <1>11 DEF Succeed, Writes, Resting, Command
  <2>3. /\ receipt'.outcome = OutcomeOf(cas.ledger, Expected, Expected, FALSE)
        /\ receipt'.ledger = cas.ledger /\ receipt'.tried = cas.tried
        /\ ~cas.dry => Len(cas.ledger) = 4 /\ refs.local = To
    BY <1>11 DEF Succeed, Writes, Expected, LedgerFollows
  <2>4. ReceiptIsTrue' /\ receipt'.ledger \in Seq(Surfaces)
    <3>1. ToSet(cas.ledger) \subseteq moved /\ cas.ledger \in Seq(Surfaces)
      BY <1>types, <1>11 DEF Succeed, LedgerIsMoved
    <3>2. CASE cas.dry
      <4>1. receipt'.outcome = "not-attempted" /\ moved \subseteq {"remote"}
        BY <1>11, <2>3, <3>2 DEF Succeed, OutcomeOf, NothingMovedYet
      <4> QED
        BY <2>1, <2>3, <3>1, <4>1 DEF ReceiptIsTrue
    <3>3. CASE ~cas.dry /\ cas.ledger = Intended(cas.verb)
      <4>1. receipt'.outcome = "succeeded"
        BY <2>3, <3>3 DEF Succeed, OutcomeOf, Expected
      <4>2. moved = Surfaces
        BY <1>types, <3>1, <3>3, IntendedIsAll
      <4> QED
        BY <2>1, <2>3, <3>1, <4>1, <4>2 DEF ReceiptIsTrue
    <3>4. CASE ~cas.dry /\ cas.ledger # Intended(cas.verb)
      <4>00. Len(cas.ledger) = 4
        BY <2>3, <3>4
      <4>0. cas.ledger # <<>>
        BY <1>ledger, <4>00
      <4>1. receipt'.outcome = "landed-verification-incomplete"
        BY <4>0, <2>3, <3>4 DEF OutcomeOf, Expected
      <4>2. {"local", "remote"} \subseteq moved
        BY <1>11, <3>4 DEF Succeed, MovedByNow
      <4> QED
        BY <2>1, <2>3, <3>1, <4>1, <4>2 DEF ReceiptIsTrue
    <3> QED
      BY <3>2, <3>3, <3>4
  <2>10. CasTypeOK'
    BY <1>empty, <1>types, <2>1 DEF CasTypeOK, Nowhere, Holdings
  <2>11. OthersKeepTheirs'
    BY <1>empty, <1>types, <2>1 DEF OthersKeepTheirs, Holdings
  <2>13. LedgerFollows'
    BY <1>empty, <1>types, <2>1 DEF LedgerFollows, Begun
  <2>14. LedgerIsMoved'
    BY <1>empty, <1>types, <2>1 DEF LedgerIsMoved, FoundIsMoved, Begun
  <2>15. FoundIsMoved'
    BY <1>empty, <1>types, <2>1 DEF FoundIsMoved, LedgerFollows, Begun
  <2>16. MovedByNow'
    BY <1>empty, <1>types, <2>1 DEF MovedByNow, FoundIsMoved, Begun, LedgerFollows
  <2>17. LatePushIsAhead'
    BY <1>empty, <1>types, <2>1 DEF LatePushIsAhead, NoPushBefore, Nowhere, LedgerFollows
  <2>18. NoPushBefore'
    BY <1>empty, <1>types, <2>1 DEF NoPushBefore, LatePushIsAhead, LedgerFollows, Nowhere
  <2>19. NothingMovedYet'
    BY <1>empty, <1>types, <2>1 DEF NothingMovedYet, NoPushBefore, LatePushIsAhead, LedgerFollows
  <2>20. NotMovedBack'
    BY <1>empty, <1>types, <2>1 DEF NotMovedBack, NoPushBefore, LedgerFollows, Nowhere, NothingMovedYet
  <2> QED
    BY <2>1, <2>2, <2>3, <2>4, <2>10, <2>11, <2>13, <2>14, <2>15, <2>16, <2>17, <2>18, <2>19, <2>20
<1>12. ASSUME FinalLocalFails PROVE CasInv'
  <2>1. /\ cas.at = "local?" /\ cas'.at = "failed" /\ UNCHANGED <<refs, push, receipt, moved, others>>
        /\ cas'.verb = cas.verb /\ cas'.dry = cas.dry /\ cas'.tried = cas.tried /\ cas'.ledger = cas.ledger
    BY <1>12 DEF FinalLocalFails, Command
  <2>2. cas' \in Command
    BY <1>12 DEF FinalLocalFails, Command
  <2>10. CasTypeOK'
    BY <1>ledger, <1>empty, <1>types, <2>1 DEF CasTypeOK, Nowhere, Holdings
  <2>11. OthersKeepTheirs'
    BY <1>ledger, <1>empty, <1>types, <2>1 DEF OthersKeepTheirs, Holdings
  <2>12. ReceiptIsTrue'
    BY <1>ledger, <1>empty, <1>types, <2>1 DEF ReceiptIsTrue, LedgerFollows, Begun
  <2>13. LedgerFollows'
    BY <1>ledger, <1>empty, <1>types, <2>1 DEF LedgerFollows, Begun
  <2>14. LedgerIsMoved'
    BY <1>ledger, <1>empty, <1>types, <2>1 DEF LedgerIsMoved, FoundIsMoved, Begun
  <2>15. FoundIsMoved'
    BY <1>ledger, <1>empty, <1>types, <2>1 DEF FoundIsMoved, LedgerFollows, Begun
  <2>16. MovedByNow'
    BY <1>ledger, <1>empty, <1>types, <2>1 DEF MovedByNow, FoundIsMoved, Begun, LedgerFollows
  <2>17. LatePushIsAhead'
    BY <1>ledger, <1>empty, <1>types, <2>1 DEF LatePushIsAhead, NoPushBefore, Nowhere, LedgerFollows
  <2>18. NoPushBefore'
    BY <1>ledger, <1>empty, <1>types, <2>1 DEF NoPushBefore, LatePushIsAhead, LedgerFollows, Nowhere
  <2>19. NothingMovedYet'
    <3>1. cas.dry \/ Len(cas.ledger) = 4
      BY <1>types, <2>1 DEF LedgerFollows
    <3>2. cas.dry => moved \subseteq {"remote"}
      BY <2>1 DEF NothingMovedYet
    <3>3. cas'.at \notin {"check", "again", "local"} /\ cas'.dry = cas.dry /\ moved' = moved
      BY <2>1
    <3>4. Len(cas'.ledger) = 0 => cas.dry
      BY <2>1, <3>1
    <3> QED
      BY <3>2, <3>3, <3>4 DEF NothingMovedYet
  <2>20. NotMovedBack'
    BY <1>ledger, <1>empty, <1>types, <2>1 DEF NotMovedBack, NoPushBefore, LedgerFollows, Nowhere,
       NothingMovedYet
  <2> QED
    BY <2>1, <2>2, <2>10, <2>11, <2>12, <2>13, <2>14, <2>15, <2>16, <2>17, <2>18, <2>19, <2>20
<1>13. ASSUME Report PROVE CasInv'
  <2>1. cas'.at = "idle" /\ cas'.verb = "forward" /\ cas'.dry = FALSE /\ cas'.ledger = <<>> /\ cas'.tried = FALSE
        /\ UNCHANGED <<refs, push, moved, others>>
    BY <1>13 DEF Report, Writes, Resting
  <2>2. cas' \in Command
    BY <1>empty, <1>13 DEF Report, Writes, Resting, Command
  <2>3. PICK local \in {refs.local, Unread}, remote \in {refs.remote, Unread} :
           Writes(OutcomeOf(ConfirmedLedger(cas.ledger, remote), local, remote, TRUE),
                  ConfirmedLedger(cas.ledger, remote), remote)
    BY <1>13 DEF Report
  <2>4. ReceiptIsTrue' /\ receipt'.ledger \in Seq(Surfaces)
    <3> DEFINE ledger == ConfirmedLedger(cas.ledger, remote)
               outcome == OutcomeOf(ledger, local, remote, TRUE)
    <3>1. /\ receipt'.ledger = ledger /\ receipt'.outcome = outcome /\ receipt'.tried = cas.tried
          /\ receipt'.remote = remote /\ receipt'.verb = cas.verb /\ cas.at = "failed"
      BY <1>13, <2>3 DEF Report, Writes
    <3>2. /\ ledger = cas.ledger \/ (ledger = Append(cas.ledger, "remote") /\ cas.tried /\ remote = To)
          /\ cas.tried /\ remote = To => ledger # <<>>
      <4>1. Contains(cas.ledger, "remote") => cas.ledger # <<>>
        BY <1>ledger, <1>types DEF Contains
      <4> QED
        BY <1>ledger, <1>types, <4>1 DEF ConfirmedLedger
    <3>3. ledger \in Seq(Surfaces) /\ ToSet(ledger) \subseteq moved
          /\ (ledger = <<>> => Len(cas.ledger) = 0) /\ (ledger # <<>> => Begun)
      <4>1. ToSet(cas.ledger) \subseteq moved
        BY <3>1 DEF LedgerIsMoved
      <4>2. CASE ledger = cas.ledger
        <5>1. Len(cas.ledger) > 0 => Begun
          BY DEF Begun
        <5> HIDE DEF ledger
        <5> QED
          BY <1>ledger, <1>types, <4>1, <4>2, <5>1
      <4>3. CASE ledger = Append(cas.ledger, "remote") /\ cas.tried /\ remote = To
        <5>1. Begun /\ "remote" \in moved
          BY <3>1, <4>3 DEF FoundIsMoved, Begun, Unread
        <5>2. /\ Append(cas.ledger, "remote") \in Seq(Surfaces)
              /\ ToSet(Append(cas.ledger, "remote")) = ToSet(cas.ledger) \cup {"remote"}
          BY <1>ledger
        <5>3. ledger # <<>>
          BY <3>2, <4>3
        <5> HIDE DEF ledger
        <5> QED
          BY <4>1, <4>3, <5>1, <5>2, <5>3
      <4> QED
        BY <3>2, <4>2, <4>3
    <3>4. ledger = Intended(cas.verb) => moved = Surfaces
      BY <1>types, <3>3, IntendedIsAll
    <3> HIDE DEF ledger
    <3>5. /\ outcome # "succeeded"
          /\ outcome = "not-attempted" => cas.dry
          /\ outcome = "target-already-present" => ledger = <<>> /\ local = To /\ remote = To
          /\ outcome = "landed-verification-incomplete"
             => (local = To /\ remote = To /\ ledger # <<>>) \/ ledger = Intended(cas.verb)
          /\ outcome = "not-landed" => ledger = <<>> /\ ~(cas.tried /\ remote = Unread)
      BY DEF OutcomeOf
    <3> HIDE DEF outcome
    <3>6. outcome = "landed-verification-incomplete" => {"local", "remote"} \subseteq moved
      BY <3>1, <3>3, <3>4, <3>5 DEF FoundIsMoved, Unread
    <3>7. outcome = "not-attempted" => moved \subseteq {"remote"}
      BY <3>1, <3>5 DEF NothingMovedYet
    <3>8. outcome = "target-already-present" => moved \subseteq {"remote"}
      BY <1>types, <3>1, <3>2, <3>3, <3>5 DEF NothingMovedYet, Unread
    <3>9. outcome = "not-landed" /\ cas.tried => remote \notin {To, Unread}
      BY <3>2, <3>5
    <3>10. outcome = "not-landed" /\ remote = From => "remote" \notin moved
      BY <1>types, <3>1, <3>3, <3>5 DEF NotMovedBack, Unread
    <3> QED
      BY <2>1, <3>1, <3>3, <3>4, <3>5, <3>6, <3>7, <3>8, <3>9, <3>10 DEF ReceiptIsTrue
  <2>10. CasTypeOK'
    BY <1>empty, <1>types, <2>1 DEF CasTypeOK, Nowhere, Holdings
  <2>11. OthersKeepTheirs'
    BY <1>empty, <1>types, <2>1 DEF OthersKeepTheirs, Holdings
  <2>13. LedgerFollows'
    BY <1>empty, <1>types, <2>1 DEF LedgerFollows, Begun
  <2>14. LedgerIsMoved'
    BY <1>empty, <1>types, <2>1 DEF LedgerIsMoved, FoundIsMoved, Begun
  <2>15. FoundIsMoved'
    BY <1>empty, <1>types, <2>1 DEF FoundIsMoved, LedgerFollows, Begun
  <2>16. MovedByNow'
    BY <1>empty, <1>types, <2>1 DEF MovedByNow, FoundIsMoved, Begun, LedgerFollows
  <2>17. LatePushIsAhead'
    BY <1>empty, <1>types, <2>1 DEF LatePushIsAhead, NoPushBefore, Nowhere, LedgerFollows
  <2>18. NoPushBefore'
    BY <1>empty, <1>types, <2>1 DEF NoPushBefore, LatePushIsAhead, LedgerFollows, Nowhere
  <2>19. NothingMovedYet'
    BY <1>empty, <1>types, <2>1 DEF NothingMovedYet, NoPushBefore, LatePushIsAhead, LedgerFollows
  <2>20. NotMovedBack'
    BY <1>empty, <1>types, <2>1 DEF NotMovedBack, NoPushBefore, LedgerFollows, Nowhere, NothingMovedYet
  <2> QED
    BY <2>1, <2>2, <2>3, <2>4, <2>10, <2>11, <2>13, <2>14, <2>15, <2>16, <2>17, <2>18, <2>19, <2>20
<1>14. ASSUME Undetermined PROVE CasInv'
  <2>1. cas'.at = "idle" /\ cas'.verb = "forward" /\ cas'.dry = FALSE /\ cas'.ledger = <<>> /\ cas'.tried = FALSE
        /\ UNCHANGED <<refs, push, moved, others>>
    BY <1>14 DEF Undetermined, Writes, Resting
  <2>2. cas' \in Command
    BY <1>empty, <1>14 DEF Undetermined, Writes, Resting, Command
  <2>3. receipt'.ledger = cas.ledger /\ receipt'.outcome = "undetermined"
    BY <1>14 DEF Undetermined, Writes
  <2>4. ReceiptIsTrue' /\ receipt'.ledger \in Seq(Surfaces)
    BY <1>ledger, <1>types, <1>14, <2>1, <2>3 DEF Undetermined, ReceiptIsTrue, LedgerIsMoved
  <2>10. CasTypeOK'
    BY <1>empty, <1>types, <2>1 DEF CasTypeOK, Nowhere, Holdings
  <2>11. OthersKeepTheirs'
    BY <1>empty, <1>types, <2>1 DEF OthersKeepTheirs, Holdings
  <2>13. LedgerFollows'
    BY <1>empty, <1>types, <2>1 DEF LedgerFollows, Begun
  <2>14. LedgerIsMoved'
    BY <1>empty, <1>types, <2>1 DEF LedgerIsMoved, FoundIsMoved, Begun
  <2>15. FoundIsMoved'
    BY <1>empty, <1>types, <2>1 DEF FoundIsMoved, LedgerFollows, Begun
  <2>16. MovedByNow'
    BY <1>empty, <1>types, <2>1 DEF MovedByNow, FoundIsMoved, Begun, LedgerFollows
  <2>17. LatePushIsAhead'
    BY <1>empty, <1>types, <2>1 DEF LatePushIsAhead, NoPushBefore, Nowhere, LedgerFollows
  <2>18. NoPushBefore'
    BY <1>empty, <1>types, <2>1 DEF NoPushBefore, LatePushIsAhead, LedgerFollows, Nowhere
  <2>19. NothingMovedYet'
    BY <1>empty, <1>types, <2>1 DEF NothingMovedYet, NoPushBefore, LatePushIsAhead, LedgerFollows
  <2>20. NotMovedBack'
    BY <1>empty, <1>types, <2>1 DEF NotMovedBack, NoPushBefore, LedgerFollows, Nowhere, NothingMovedYet
  <2> QED
    BY <2>1, <2>2, <2>3, <2>4, <2>10, <2>11, <2>13, <2>14, <2>15, <2>16, <2>17, <2>18, <2>19, <2>20
<1>15. ASSUME Killed PROVE CasInv'
  BY <1>ledger, <1>empty, <1>15 DEF Killed, Command, Working, Begun, BeforePush, From, To, FromOf,
     ToOf, Resting, Failing, NoReceipt, Nowhere, Unread, Surfaces, Holdings, Moves, Refuses,
     NextMutation, Intended, MayPush, Expected,
     CasTypeOK, OthersKeepTheirs, ReceiptIsTrue, LedgerFollows, LedgerIsMoved, FoundIsMoved,
     MovedByNow, LatePushIsAhead, NoPushBefore, NothingMovedYet, NotMovedBack
<1>16. ASSUME PushLands PROVE CasInv'
  BY <1>ledger, <1>empty, <1>16 DEF PushLands, Command, Working, Begun, BeforePush, From, To, FromOf,
     ToOf, Resting, Failing, NoReceipt, Nowhere, Unread, Surfaces, Holdings, Moves, Refuses,
     NextMutation, Intended, MayPush, Expected,
     CasTypeOK, OthersKeepTheirs, ReceiptIsTrue, LedgerFollows, LedgerIsMoved, FoundIsMoved,
     MovedByNow, LatePushIsAhead, NoPushBefore, NothingMovedYet, NotMovedBack
<1>17. ASSUME SomebodyPushes PROVE CasInv'
  BY <1>ledger, <1>empty, <1>17 DEF SomebodyPushes, Command, Working, Begun, BeforePush, From, To,
     FromOf, ToOf, Resting, Failing, NoReceipt, Nowhere, Unread, Surfaces, Holdings, Moves, Refuses,
     NextMutation, Intended, MayPush, Expected,
     CasTypeOK, OthersKeepTheirs, ReceiptIsTrue, LedgerFollows, LedgerIsMoved, FoundIsMoved,
     MovedByNow, LatePushIsAhead, NoPushBefore, NothingMovedYet, NotMovedBack
<1>18. ASSUME SomebodyCommits PROVE CasInv'
  <2>1. /\ refs' = [refs EXCEPT !.local = "other", !.tree = "other"] /\ others' = others \cup {"local"}
        /\ UNCHANGED <<cas, push, receipt, moved>>
    BY <1>18 DEF SomebodyCommits
  <2>2. cas' \in Command
    BY <2>1
  <2>10. CasTypeOK'
    BY <1>ledger, <1>empty, <1>types, <2>1 DEF CasTypeOK, Nowhere, Holdings
  <2>11. OthersKeepTheirs'
    BY <1>ledger, <1>empty, <1>types, <2>1 DEF OthersKeepTheirs, Holdings
  <2>12. ReceiptIsTrue'
    BY <1>ledger, <1>empty, <1>types, <2>1 DEF ReceiptIsTrue, LedgerFollows, Begun
  <2>13. LedgerFollows'
    BY <1>ledger, <1>empty, <1>types, <2>1 DEF LedgerFollows, Begun
  <2>14. LedgerIsMoved'
    BY <1>ledger, <1>empty, <1>types, <2>1 DEF LedgerIsMoved, FoundIsMoved, Begun
  <2>15. FoundIsMoved'
    BY <1>ledger, <1>empty, <1>types, <2>1 DEF FoundIsMoved, LedgerFollows, Begun
  <2>16. MovedByNow'
    BY <1>ledger, <1>empty, <1>types, <2>1 DEF MovedByNow, FoundIsMoved, Begun, LedgerFollows
  <2>17. LatePushIsAhead'
    BY <1>ledger, <1>empty, <1>types, <2>1 DEF LatePushIsAhead, NoPushBefore, Nowhere, LedgerFollows
  <2>18. NoPushBefore'
    BY <1>ledger, <1>empty, <1>types, <2>1 DEF NoPushBefore, LatePushIsAhead, LedgerFollows, Nowhere
  <2>19. NothingMovedYet'
    BY <1>ledger, <1>empty, <1>types, <2>1 DEF NothingMovedYet, NoPushBefore, LatePushIsAhead,
       LedgerFollows
  <2>20. NotMovedBack'
    BY <1>ledger, <1>empty, <1>types, <2>1 DEF NotMovedBack, NoPushBefore, LedgerFollows, Nowhere,
       NothingMovedYet
  <2> QED
    BY <2>1, <2>2, <2>10, <2>11, <2>12, <2>13, <2>14, <2>15, <2>16, <2>17, <2>18, <2>19, <2>20
<1>19. ASSUME SomebodyFetches PROVE CasInv'
  BY <1>ledger, <1>empty, <1>19 DEF SomebodyFetches, Command, Working, Begun, BeforePush, From, To,
     FromOf, ToOf, Resting, Failing, NoReceipt, Nowhere, Unread, Surfaces, Holdings, Moves, Refuses,
     NextMutation, Intended, MayPush, Expected,
     CasTypeOK, OthersKeepTheirs, ReceiptIsTrue, LedgerFollows, LedgerIsMoved, FoundIsMoved,
     MovedByNow, LatePushIsAhead, NoPushBefore, NothingMovedYet, NotMovedBack
<1>20. ASSUME UNCHANGED casVars PROVE CasInv'
  BY <1>20 DEF casVars, Command, Begun, CasTypeOK, OthersKeepTheirs, ReceiptIsTrue, LedgerFollows,
     LedgerIsMoved, FoundIsMoved, MovedByNow, LatePushIsAhead, NoPushBefore, NothingMovedYet,
     NotMovedBack
<1> QED
  BY <1>1, <1>2, <1>3, <1>4, <1>5, <1>6, <1>7, <1>8, <1>9, <1>10, <1>11, <1>12, <1>13, <1>14, <1>15,
     <1>16, <1>17, <1>18, <1>19, <1>20 DEF CasNext

LEMMA CasInvSuffices == CasInv => CasIsExact
BY DEF CasInv, CasIsExact

\* Whatever dies in between, whoever else moves the branch, and whenever a push lands that was
\* reported as failed: a transition of main overwrites nobody's commit, and its receipt says
\* what happened (canonical_ref_cas.py).
THEOREM CasHolds == CasSpec => []CasIsExact
BY InitCas, StepKeepsCas, CasInvSuffices, PTL DEF CasSpec

=============================================================================
