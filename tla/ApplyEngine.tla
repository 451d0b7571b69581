----------------------------- MODULE ApplyEngine -----------------------------
(***************************************************************************)
(* The apply transaction (tools/apply_suggestions.py, run_apply) against   *)
(* the suggestion store, the canonical git branch and the deployed editor  *)
(* map.                                                                    *)
(*                                                                         *)
(* One engine runs at a time (daemon_lock and apply_lock are flocks of one *)
(* host) and it is killed at any point: a crash also stands for an RPC     *)
(* whose reply is lost, a git command that fails and an ApplyError, all of *)
(* which end the run where it is.  Each action is one RPC or one git or    *)
(* deploy command together with the local computation that precedes it.    *)
(*                                                                         *)
(* A text is known by who wrote it: the original author, a suggestion, or  *)
(* a commit made outside the engine.  A rewrite replaces the text of its   *)
(* target; a structural row adds a block next to it and leaves the anchor. *)
(* Validator, build, parity and deploy succeed or fail arbitrarily.        *)
(***************************************************************************)
EXTENDS SuggestionStore

CONSTANTS
  Original, Outside,   \* texts no suggestion wrote
  MayCrash,            \* runs may be cut short
  MayOutliveLease,     \* the running batch's five-minute lease may run out
  MaySeize,            \* an admin may accept a row that is in flight
  MaxOutside           \* bound: commits made outside the engine

ASSUME EngineAssumption ==
  /\ MayCrash \in BOOLEAN /\ MayOutliveLease \in BOOLEAN /\ MaySeize \in BOOLEAN
  /\ MaxOutside \in Nat
  /\ {Original, Outside} \cap Suggestion = {}
  /\ Outcomes = [Suggestion -> Outcome \cup {"keep"}]   \* the store takes any call
  /\ FinalizePhase = Phase

VARIABLES
  rowHash,      \* original_hash of a row: the text the deployed map showed its editor
  deployedMap,  \* target -> text in the Worker's bundled editor map
  text,         \* target -> text on the canonical branch
  head,         \* commits on the canonical branch
  outside,      \* commits made outside the engine
  landed,       \* history: how many commits carried a row's change
  merged,       \* history: batches whose commit is on the canonical branch
  pc, batch, base, tree,      \* the run: its step, batch, base_sha and worktree texts
  patches, drifted, toHuman   \* the run's three lists of rows

gitVars == <<text, head, outside, landed, merged>>
runVars == <<pc, batch, base, tree, patches, drifted, toHuman>>
engineVars == <<rowHash, deployedMap, gitVars, runVars>>
storeVars == vars
allVars == <<storeVars, engineVars>>

Text == Suggestion \cup {Original, Outside}
Steps == {"idle", "reconciled", "claimed", "patched", "validated", "built",
          "parity_ok", "deploying", "deployed", "landed", "merged"}

-----------------------------------------------------------------------------
(* The world around the engine.                                            *)

\* The server takes the hash from the map it was deployed with.
SubmitRow(s) ==
  /\ Suggest(s)
  /\ rowHash' = [rowHash EXCEPT ![s] = deployedMap[Attr[s].target]]
  /\ UNCHANGED <<deployedMap, gitVars, runVars>>

\* The decide endpoint; its reanchor passes no new hash.
Review ==
  /\ \/ \E g \in Group, to \in {"accepted", "declined"} : DecideGroup(g, to)
     \/ \E s \in Suggestion, to \in {"accepted", "declined"} : DecideOne(s, to)
     \/ \E s \in Suggestion : Reanchor(s)
  /\ MaySeize \/ \A s \in Suggestion : status[s] = "in_flight" => status'[s] = "in_flight"
  /\ UNCHANGED engineVars

\* The Durable Object is constructed again, by a deploy or an eviction.
StoreRestarts == Reconcile /\ UNCHANGED engineVars

LeaseRunsOut(b) ==
  /\ MayOutliveLease \/ b # batch
  /\ LeaseExpires(b)
  /\ UNCHANGED engineVars

OutsideCommit(t) ==
  /\ outside < MaxOutside
  /\ text' = [text EXCEPT ![t] = Outside]
  /\ head' = head + 1
  /\ outside' = outside + 1
  /\ UNCHANGED <<storeVars, rowHash, deployedMap, landed, merged, runVars>>

\* A deploy of the canonical branch by hand.
Redeploy ==
  /\ deployedMap' = text
  /\ UNCHANGED <<storeVars, rowHash, gitVars, runVars>>

-----------------------------------------------------------------------------
(* Classifying the claimed rows.                                           *)

Rewrites(s) == Attr[s].kind # "structural"

\* Rows of the run that share s's fate.
Mates(s) == {r \in patches : r = s \/ (Attr[r].group # NoGroup /\ Attr[r].group = Attr[s].group)}

\* The drift gate compares the stored hash with the worktree, member by member.
HasDrifted(s) == rowHash[s] # tree[Attr[s].target]
DriftedGroups == {s \in patches : \E r \in Mates(s) : HasDrifted(r)}

\* The rows H that end up for a human: whole groups, for reasons of their own
\* (formatting, an unfit splice) or because they lost a target to another row.
HumanLists ==
  {H \in SUBSET patches :
     /\ \A s \in H : Mates(s) \subseteq H
     /\ \A r, s \in patches \ (H \cup DriftedGroups) :
          r # s /\ Rewrites(r) /\ Rewrites(s) => Attr[r].target # Attr[s].target}

Kept(H) == patches \ (H \cup DriftedGroups)

\* The worktree after patching.
Patched == [t \in Target |->
              LET writers == {s \in patches : Rewrites(s) /\ Attr[s].target = t}
              IN  IF writers = {} THEN tree[t] ELSE CHOOSE s \in writers : TRUE]

\* The outcome lists of a finalize call.
Nothing == [s \in Suggestion |-> "keep"]
Outcomes4(applied, blocked, human, drift) ==
  [s \in Suggestion |-> IF s \in applied THEN "applied"
                        ELSE IF s \in blocked THEN "accepted_blocked"
                        ELSE IF s \in human THEN "needs_human"
                        ELSE IF s \in drift THEN "drift" ELSE "keep"]

-----------------------------------------------------------------------------
(* run_apply, step by step.                                                *)

Stop ==
  /\ pc' = "idle" /\ batch' = NoBatch /\ base' = 0
  /\ tree' = [t \in Target |-> Original]
  /\ patches' = {} /\ drifted' = {} /\ toHuman' = {}

RollBack(to) == Finalize(batch, "rolled_back", to, FALSE) /\ Stop

Begin ==
  /\ pc = "idle"
  /\ Reconcile
  /\ pc' = "reconciled" /\ base' = head /\ tree' = text
  /\ UNCHANGED <<rowHash, deployedMap, gitVars, batch, patches, drifted, toHuman>>

Claim(b) ==
  /\ pc = "reconciled"
  /\ ClaimBatch(b, Suggestion)
  /\ pc' = "claimed" /\ batch' = b /\ patches' = Claimable(Suggestion)
  /\ UNCHANGED <<rowHash, deployedMap, gitVars, base, tree, drifted, toHuman>>

\* Nothing to claim; or the batch ids of the instance are used up.
NothingToClaim ==
  /\ pc = "reconciled"
  /\ Claimable(Suggestion) = {} \/ \A b \in Batch : phase[b] # "none"
  /\ Stop
  /\ UNCHANGED <<storeVars, rowHash, deployedMap, gitVars>>

Patch(H) ==
  /\ pc = "claimed"
  /\ Finalize(batch, "patched", Nothing, FALSE)
  /\ pc' = "patched" /\ patches' = Kept(H)
  /\ toHuman' = H /\ drifted' = DriftedGroups \ H
  /\ UNCHANGED <<rowHash, deployedMap, gitVars, batch, base, tree>>

\* Rolling one group's splice out made another one fail: none is kept.
ReplayFails(H) ==
  /\ pc = "claimed" /\ H # {} /\ Kept(H) # {}
  /\ RollBack(Outcomes4({}, {}, H \cup Kept(H), DriftedGroups))
  /\ UNCHANGED <<rowHash, deployedMap, gitVars>>

ValidatorRed ==
  /\ pc = "patched"
  /\ RollBack(Outcomes4({}, patches, toHuman, drifted))
  /\ UNCHANGED <<rowHash, deployedMap, gitVars>>

\* A step that succeeded is journalled before the next one starts.
Journal(from, ph) ==
  /\ pc = from
  /\ Finalize(batch, ph, Nothing, FALSE)
  /\ pc' = ph
  /\ UNCHANGED <<rowHash, deployedMap, gitVars, batch, base, tree, patches, drifted, toHuman>>

Validate == Journal("patched", "validated")
Build == Journal("validated", "built")
Parity == Journal("built", "parity_ok")

\* Build, parity or deploy failed: only the patched rows are finalized, the
\* others stay in flight until their lease runs out.
StepFails ==
  /\ pc \in {"validated", "built", "parity_ok"}
  /\ RollBack(Outcomes4({}, patches, {}, {}))
  /\ UNCHANGED <<rowHash, deployedMap, gitVars>>

\* APPLY_DEPLOY is not set: stop here, the patched rows stay in flight.
PlanOnly ==
  /\ pc = "parity_ok"
  /\ RollBack(Outcomes4({}, {}, toHuman, drifted))
  /\ UNCHANGED <<rowHash, deployedMap, gitVars>>

\* The Worker goes live with the map of the worktree, before the merge.
Deploy ==
  /\ pc = "parity_ok"
  /\ deployedMap' = Patched
  /\ pc' = "deploying"
  /\ UNCHANGED <<storeVars, rowHash, gitVars, batch, base, tree, patches, drifted, toHuman>>

JournalMergedEarly == Journal("deploying", "merged")   \* mutant: journalled before git
JournalDeployed == Journal("deploying", "deployed")

AnyMerge == TRUE   \* mutant: merge without --ff-only
FastForward == head = base

Merge ==
  /\ pc = "deployed" /\ FastForward
  /\ text' = Patched
  /\ head' = IF patches = {} THEN head ELSE head + 1
  /\ landed' = [s \in Suggestion |-> IF s \in patches THEN landed[s] + 1 ELSE landed[s]]
  /\ merged' = merged \cup {batch}
  /\ pc' = "landed"
  /\ UNCHANGED <<storeVars, rowHash, deployedMap, outside, batch, base, tree,
                 patches, drifted, toHuman>>

\* git refuses the fast-forward: the exception ends the run, nothing is finalized.
MergeRefused ==
  /\ pc = "deployed" /\ ~FastForward
  /\ Stop
  /\ UNCHANGED <<storeVars, rowHash, deployedMap, gitVars>>

JournalMerged == Journal("landed", "merged")

\* Mutant: every row the run claimed is reported applied.
DoneAppliesAll ==
  /\ pc = "merged"
  /\ Finalize(batch, "done", Outcomes4(patches \cup toHuman \cup drifted, {}, {}, {}), TRUE)
  /\ Stop
  /\ UNCHANGED <<rowHash, deployedMap, gitVars>>

Done ==
  /\ pc = "merged"
  /\ Finalize(batch, "done", Outcomes4(patches, {}, toHuman, drifted), TRUE)
  /\ Stop
  /\ UNCHANGED <<rowHash, deployedMap, gitVars>>

Crash ==
  /\ MayCrash /\ pc # "idle"
  /\ Stop
  /\ UNCHANGED <<storeVars, rowHash, deployedMap, gitVars>>

-----------------------------------------------------------------------------
EngineInit ==
  /\ Init
  /\ rowHash = [s \in Suggestion |-> Original]
  /\ deployedMap = [t \in Target |-> Original]
  /\ text = [t \in Target |-> Original]
  /\ head = 0 /\ outside = 0
  /\ landed = [s \in Suggestion |-> 0]
  /\ merged = {}
  /\ pc = "idle" /\ batch = NoBatch /\ base = 0
  /\ tree = [t \in Target |-> Original]
  /\ patches = {} /\ drifted = {} /\ toHuman = {}

Run ==
  \/ Begin \/ NothingToClaim \/ \E b \in Batch : Claim(b)
  \/ \E H \in HumanLists : Patch(H) \/ ReplayFails(H)
  \/ Validate \/ ValidatorRed \/ Build \/ Parity \/ StepFails \/ PlanOnly
  \/ Deploy \/ JournalDeployed \/ Merge \/ MergeRefused \/ JournalMerged \/ Done

World ==
  \/ \E s \in Suggestion : SubmitRow(s)
  \/ Review \/ StoreRestarts \/ Redeploy \/ Crash
  \/ \E b \in Batch : LeaseRunsOut(b)
  \/ \E t \in Target : OutsideCommit(t)

EngineNext == Run \/ World

EngineSpec == EngineInit /\ [][EngineNext]_allVars

\* The daemon's timer keeps starting runs and a run keeps going; leases run out.
EngineFairness ==
  /\ WF_allVars(Run)
  /\ \A b \in Batch : WF_allVars(LeaseRunsOut(b))

FairEngineSpec == EngineSpec /\ EngineFairness

-----------------------------------------------------------------------------
(* Properties.                                                             *)

\* The types; and a run gives every claimed row at most one outcome.
EngineTypeOK ==
  /\ TypeOK
  /\ rowHash \in [Suggestion -> Text]
  /\ deployedMap \in [Target -> Text]
  /\ text \in [Target -> Text]
  /\ tree \in [Target -> Text]
  /\ head \in Nat /\ base \in Nat /\ outside \in Nat
  /\ landed \in [Suggestion -> Nat]
  /\ merged \subseteq Batch
  /\ pc \in Steps
  /\ batch \in Batch \cup {NoBatch}
  /\ batch = NoBatch <=> pc \in {"idle", "reconciled"}
  /\ patches \subseteq Suggestion /\ drifted \subseteq Suggestion /\ toHuman \subseteq Suggestion
  /\ pc \in {"idle", "reconciled", "claimed"} => drifted = {} /\ toHuman = {}
  /\ patches \cap drifted = {} /\ patches \cap toHuman = {} /\ drifted \cap toHuman = {}

\* A change only ever lands on the text its editor was looking at, although the
\* map that showed it is deployed before the merge and may never reach the
\* branch, and although others commit while the engine runs.
LandsOnTextSeen ==
  [][\A s \in Suggestion : landed'[s] # landed[s] => rowHash[s] = text[Attr[s].target]]_allVars

\* The journal never claims a merge that did not happen, also not through a
\* reconcile that finds the batch after a crash.
JournalClaimsOnlyMerged ==
  \A b \in Batch : phase[b] \in {"merged", "done", "evidence_missing"} => b \in merged

\* No limbo: a claimed row leaves in_flight, whatever step the engine died in.
NoLimbo == \A s \in Suggestion : status[s] = "in_flight" ~> status[s] # "in_flight"

\* What the engine's documentation promises of a re-run after a crash: a change
\* is never applied twice.
AppliedAtMostOnce == \A s \in Suggestion : landed[s] <= 1

\* What the API contract means by applied: the change is on the branch.
AppliedMeansLanded == \A s \in Suggestion : status[s] = "applied" => landed[s] > 0

\* Both, for runs that are not cut short: whatever drifts, fails or waits, a row is
\* reported applied if its change is on the branch, and it is there once.
AppliedIsExact == AppliedAtMostOnce /\ AppliedMeansLanded
=============================================================================
