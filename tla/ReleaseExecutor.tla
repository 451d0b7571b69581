-------------------------- MODULE ReleaseExecutor --------------------------
(***************************************************************************)
(* A production release as the executor carries it out: ticks of           *)
(* prod_release_daemon.py (one at a time, by its lock) that claim a        *)
(* release, deploy its candidate to Pages and Worker, or restore the       *)
(* recorded base, die anywhere and are taken over when their lease is      *)
(* over; with the two providers, the recovery registry and the part of the *)
(* ledger they meet (ReleaseLedger has all of it).                         *)
(*                                                                         *)
(* A commit is a number, 0 the one production was bootstrapped with. An    *)
(* artifact is a commit and its number at its target. The paths, the       *)
(* checkout and the identifiers of providers are left out.                 *)
(***************************************************************************)
EXTENDS Naturals

CONSTANTS
    LastAttempt,   \* bound: releases
    LastFence,     \* bound: fencing tokens
    LastArtifact,  \* bound: artifacts of a target
    NoOperation,
    MayLinger      \* premise: provider operations end within their lease unless TRUE

ASSUME ExecutorAssumption ==
    LastAttempt \in Nat /\ LastFence \in Nat /\ LastArtifact \in Nat \ {0} /\ MayLinger \in BOOLEAN

VARIABLES
    order,     \* deployment_order of the CompatibilityGate
    attempt,   \* releases so far
    lane,      \* the newest release in the ledger
    fences,    \* tokens issued
    serving,   \* the artifact each target serves
    made,      \* artifacts made at each target
    registry,  \* the recovery registry: of a commit, the artifact of each target, or 0
    job,       \* the executor's tick
    stray      \* history: an operation whose process was killed, or NoOperation

executorVars == <<order, attempt, lane, fences, serving, made, registry, job, stray>>

Targets == {"pages", "worker"}
Shas == 0..LastAttempt
Deployed(t) == IF t = "pages" THEN "pages_deployed" ELSE "worker_deployed"
Milestones == {"pages_deployed", "worker_deployed", "verified", "complete"}
BeingExecuted == {"executing", "pages_deployed", "worker_deployed", "verified"}
NoEvent == [by |-> 0, id |-> 0]
Idle == [pc |-> "idle", mode |-> "none", fence |-> 0, todo |-> {}, artifact |-> 0]

ExecutorInit ==
    /\ order \in {<<"pages", "worker">>, <<"worker", "pages">>}
    /\ attempt = 0 /\ fences = 0 /\ job = Idle /\ stray = NoOperation
    /\ lane = [state |-> "none", schema |-> 1, base |-> 0, cand |-> 0, fence |-> 0,
                leased |-> FALSE, events |-> [e \in Milestones |-> NoEvent]]
    /\ serving = [t \in Targets |-> [sha |-> 0, no |-> 1]]
    /\ made = [t \in Targets |-> 1]
    /\ registry = [s \in Shas |-> [t \in Targets |-> IF s = 0 THEN 1 ELSE 0]]

-----------------------------------------------------------------------------
(* The ledger.                                                             *)

LastServed == IF lane.state = "complete" THEN lane.cand ELSE lane.base

\* A release is prepared and authorized: a commit beyond the served one, again after a
\* restore the one that was restored.
AuthorizeRelease(sha, schema) ==
    /\ lane.state \in {"none", "complete", "restored"} /\ attempt < LastAttempt
    /\ sha \in (LastServed + 1)..(attempt + 1)
    /\ attempt' = attempt + 1
    /\ lane' = [state |-> "authorized", schema |-> schema, base |-> LastServed, cand |-> sha,
                 fence |-> 0, leased |-> FALSE, events |-> [e \in Milestones |-> NoEvent]]
    /\ UNCHANGED <<order, fences, serving, made, registry, job, stray>>

\* The lease is over. Every operation gets one that covers its bound.
LeaseOver ==
    /\ lane.leased /\ (MayLinger \/ (stray = NoOperation /\ job.pc # "operating"))
    /\ lane' = [lane EXCEPT !.leased = FALSE]
    /\ UNCHANGED <<order, attempt, fences, serving, made, registry, job, stray>>

Fenced(state) == [lane EXCEPT !.state = state, !.fence = fences + 1, !.leased = TRUE]
HasLease == job.fence = lane.fence /\ lane.leased

NextStates(s) ==
    CASE s = "executing" -> {"pages_deployed", "worker_deployed", "failed_fenced"}
      [] s = "pages_deployed" -> {"worker_deployed", "verified", "failed_fenced"}
      [] s = "worker_deployed" -> {"pages_deployed", "verified", "failed_fenced"}
      [] s = "verified" -> {"complete", "failed_fenced"}
      [] s = "restoring" -> {"restored", "failed_fenced"}
      [] OTHER -> {}

\* transitionProductionRelease: replay of the same detail, which holds the token in
\* schema 2; otherwise the next state. (A lease matters while a release is executed or
\* restored only.)
OnRecord(s) == s \in Milestones /\ lane.events[s] # NoEvent
Replays(s, id) ==
    /\ HasLease /\ OnRecord(s)
    /\ lane.events[s].id = id /\ (lane.schema = 2 => lane.events[s].by = job.fence)
Advances(s) ==
    /\ HasLease /\ ~OnRecord(s) /\ s \in NextStates(lane.state)
    /\ s = "verified" => \A t \in Targets : OnRecord(Deployed(t))
Binding(id) == [by |-> job.fence, id |-> id]
Advanced(s, id) ==
    [lane EXCEPT !.state = s, !.leased = s \notin {"complete", "restored", "failed_fenced"},
                  !.events = IF s \notin Milestones THEN @
                             ELSE [@ EXCEPT ![s] = Binding(id)]]

-----------------------------------------------------------------------------
(* A tick of the executor.                                                 *)

Raised == [job EXCEPT !.pc = "fencing"]

\* Mutant: a restore goes in the order of the deployment.
SameWay(names) == names
Backwards(names) == <<names[2], names[1]>>

\* claimAuthorizedProductionRelease; the phases the claim returns are not run again.
ClaimToDeploy ==
    /\ job = Idle /\ fences < LastFence
    /\ \/ lane.state = "authorized" /\ lane' = Fenced("executing")
       \/ lane.state \in BeingExecuted /\ ~lane.leased /\ lane' = Fenced(lane.state)
    /\ fences' = fences + 1
    /\ job' = [Idle EXCEPT !.pc = "next", !.mode = "deploy", !.fence = fences + 1,
                   !.todo = {t \in Targets : ~OnRecord(Deployed(t))}]
    /\ UNCHANGED <<order, attempt, serving, made, registry, stray>>

\* claimProductionRestore, by an operator.
ClaimToRestore ==
    /\ job = Idle /\ fences < LastFence
    /\ lane.state = "failed_fenced" \/ (lane.state = "restoring" /\ ~lane.leased)
    /\ lane' = Fenced("restoring") /\ fences' = fences + 1
    /\ job' = [Idle EXCEPT !.pc = "next", !.mode = "restore", !.fence = fences + 1,
                   !.todo = Targets]
    /\ UNCHANGED <<order, attempt, serving, made, registry, stray>>

\* The next target, and those after it.
Way == IF job.mode = "deploy" THEN order ELSE Backwards(order)
Target == IF Way[1] \in job.todo THEN Way[1] ELSE Way[2]
Later == job.todo \ {Target}

LiveSha == serving[Target].sha
Registered(sha) == registry[sha][Target]

\* _provider_operation renews the lease for the bound of the operation first.
Operates(no) == job' = IF HasLease THEN [job EXCEPT !.pc = "operating", !.artifact = no] ELSE Raised

\* 0 stands for a new artifact.
DeployNext ==
    /\ job.pc = "next" /\ job.mode = "deploy" /\ job.todo # {}
    /\ IF Registered(lane.cand) = 0 THEN made[Target] < LastArtifact /\ Operates(0)
       ELSE IF LiveSha = lane.base THEN Operates(Registered(lane.cand))
       ELSE IF LiveSha = lane.cand
            THEN job' = [job EXCEPT !.pc = "event", !.artifact = Registered(lane.cand)]
            ELSE job' = Raised
    /\ UNCHANGED <<order, attempt, lane, fences, serving, made, registry, stray>>

RestoreNext ==
    /\ job.pc = "next" /\ job.mode = "restore" /\ job.todo # {}
    /\ IF LiveSha = lane.base THEN job' = [job EXCEPT !.todo = Later]
       ELSE IF LiveSha # lane.cand \/ \E t \in Targets : registry[lane.base][t] = 0
            THEN job' = Raised
       ELSE Operates(Registered(lane.base))
    /\ UNCHANGED <<order, attempt, lane, fences, serving, made, registry, stray>>

\* What the provider does: the target serves a new artifact, or a recorded one again.
NowServes(t, sha, no) ==
    /\ made' = IF no = 0 THEN [made EXCEPT ![t] = @ + 1] ELSE made
    /\ serving' = [serving EXCEPT ![t] = [sha |-> sha, no |-> IF no = 0 THEN made[t] + 1 ELSE no]]
WantedSha == IF job.mode = "deploy" THEN lane.cand ELSE lane.base

\* The operation returns; or it raises or times out, and may have worked.
OperationReturns ==
    /\ job.pc = "operating" /\ NowServes(Target, WantedSha, job.artifact)
    /\ job' = [job EXCEPT !.pc = IF job.artifact = 0 THEN "record" ELSE "check",
                            !.artifact = IF @ = 0 THEN made[Target] + 1 ELSE @]
    /\ UNCHANGED <<order, attempt, lane, fences, registry, stray>>

OperationRaises ==
    /\ job.pc = "operating" /\ job' = Raised
    /\ NowServes(Target, WantedSha, job.artifact) \/ UNCHANGED <<serving, made>>
    /\ UNCHANGED <<order, attempt, lane, fences, registry, stray>>

\* The renewal after an operation, then record_target.
RecordTarget ==
    /\ job.pc = "record"
    /\ IF HasLease /\ Registered(lane.cand) \in {0, job.artifact}
       THEN /\ registry' = [registry EXCEPT ![lane.cand][Target] = job.artifact]
            /\ job' = [job EXCEPT !.pc = "event"]
       ELSE job' = Raised /\ UNCHANGED registry
    /\ UNCHANGED <<order, attempt, lane, fences, serving, made, stray>>

\* The renewal and the provenance of a target that was activated again.
CheckTarget ==
    /\ job.pc = "check"
    /\ job' = IF ~HasLease \/ LiveSha # WantedSha THEN Raised
               ELSE IF job.mode = "deploy" THEN [job EXCEPT !.pc = "event"]
               ELSE [job EXCEPT !.pc = "next", !.todo = Later]
    /\ UNCHANGED <<order, attempt, lane, fences, serving, made, registry, stray>>

\* _event: the ledger answers, refuses, or its answer is lost.
Event(s, id, then) ==
    /\ \/ Advances(s) /\ lane' = Advanced(s, id) /\ job' \in {then, Raised}
       \/ Replays(s, id) /\ UNCHANGED lane /\ job' \in {then, Raised}
       \/ UNCHANGED lane /\ job' = Raised
    /\ UNCHANGED <<order, attempt, fences, serving, made, registry, stray>>

TargetEvent ==
    /\ job.pc = "event"
    /\ Event(Deployed(Target), job.artifact, [job EXCEPT !.pc = "next", !.todo = Later])

VerifiedEvent ==
    /\ job.pc = "next" /\ job.mode = "deploy" /\ job.todo = {}
    /\ \A t \in Targets : serving[t].sha = lane.cand
    /\ Event("verified", 0, [job EXCEPT !.pc = "verified"])

CompleteEvent == job.pc = "verified" /\ Event("complete", 0, Idle)

RestoredEvent ==
    /\ job.pc = "next" /\ job.mode = "restore" /\ job.todo = {}
    /\ Event("restored", 0, Idle)

\* The validator, a provenance read, a renewal or the registry fails.
Trouble ==
    /\ job.pc \in {"next", "record", "check"} /\ job' = Raised
    /\ UNCHANGED <<order, attempt, lane, fences, serving, made, registry, stray>>

\* The handler records failed_fenced, unless it is refused or lost.
FailedEvent ==
    /\ job.pc = "fencing" /\ job' = Idle
    /\ \/ Advances("failed_fenced") /\ lane' = Advanced("failed_fenced", 0)
       \/ UNCHANGED lane
    /\ UNCHANGED <<order, attempt, fences, serving, made, registry, stray>>

\* The process dies; the provider may still carry out what it was told.
JobKilled ==
    /\ job # Idle /\ job' = Idle
    /\ stray' = IF job.pc = "operating"
                 THEN [target |-> Target, sha |-> WantedSha, artifact |-> job.artifact] ELSE stray
    /\ UNCHANGED <<order, attempt, lane, fences, serving, made, registry>>

StrayEnds ==
    /\ stray # NoOperation /\ stray' = NoOperation
    /\ \/ UNCHANGED <<serving, made>>
       \/ NowServes(stray.target, stray.sha, stray.artifact)
    /\ UNCHANGED <<order, attempt, lane, fences, registry, job>>

ExecutorNext ==
    \/ \E sha \in Shas, schema \in {1, 2} : AuthorizeRelease(sha, schema)
    \/ LeaseOver \/ ClaimToDeploy \/ ClaimToRestore \/ DeployNext \/ RestoreNext
    \/ OperationReturns \/ OperationRaises \/ RecordTarget \/ CheckTarget
    \/ TargetEvent \/ VerifiedEvent \/ CompleteEvent \/ RestoredEvent
    \/ Trouble \/ FailedEvent \/ JobKilled \/ StrayEnds

ExecutorSpec == ExecutorInit /\ [][ExecutorNext]_executorVars

-----------------------------------------------------------------------------
(* Properties.                                                             *)

\* The variables have their types.
ExecutorTypeOK ==
    /\ attempt \in 0..LastAttempt /\ fences \in 0..LastFence
    /\ lane.state \in BeingExecuted \cup {"none", "authorized", "complete", "restored",
                                       "restoring", "failed_fenced"}
    /\ lane.cand \in Shas /\ lane.base \in Shas /\ lane.fence \in 0..fences
    /\ serving \in [Targets -> [sha : Shas, no : 1..LastArtifact]]
    /\ registry \in [Shas -> [Targets -> 0..LastArtifact]]
    /\ job.pc \in {"idle", "next", "operating", "record", "check", "event", "verified", "fencing"}

Serving(sha) == \A t \in Targets : serving[t].sha = sha

\* A release the ledger calls complete is what both targets serve, and the registry has
\* exactly what they serve, so that a later release can be restored to it.
CompleteIsServed ==
    lane.state = "complete" =>
        Serving(lane.cand) /\ \A t \in Targets : registry[lane.cand][t] = serving[t].no

\* A release the ledger calls restored left both targets at the artifacts they had before
\* it, however often it was interrupted.
RestoredIsServed ==
    lane.state \in {"restored", "authorized"} =>
        \A t \in Targets : serving[t] = [sha |-> lane.base, no |-> registry[lane.base][t]]

\* The targets never serve a mix the gate did not allow: the candidate is at the second
\* target only while it is at the first, on the way there and back.
MixIsCompatible == serving[order[2]].sha = lane.cand => serving[order[1]].sha = lane.cand

\* A release never gets stuck half way for want of something to restore.
BaseIsRecorded == \A t \in Targets : registry[lane.base][t] # 0

\* Whatever ticks die, are taken over or are interrupted by an operator, production is
\* what the ledger says, and the way back is known.
ProductionIsAsRecorded == CompleteIsServed /\ RestoredIsServed /\ MixIsCompatible /\ BaseIsRecorded
=============================================================================
