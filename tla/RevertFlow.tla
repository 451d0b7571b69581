----------------------------- MODULE RevertFlow -----------------------------
(***************************************************************************)
(* "Request revert" of the History browser, from the request to DEV: the   *)
(* rows and the journal of the Durable Object (editor-store-core.js), and  *)
(* the part of direct_apply_daemon.py's tick that drains approved reverts. *)
(*                                                                         *)
(* A commit is the request it inverts, or Other for every other commit of  *)
(* the canonical branch. live counts the commits DEV serves. An evidence   *)
(* record is the position of the commit: texts, hashes and the generator   *)
(* follow from it. A tick may die, and the object restart, between any two *)
(* steps; the object restarts when its Worker is deployed, before or after *)
(* the next call. The daemon's flock keeps ticks apart. An admin's hand on *)
(* /revert-resolve is taken to approve only; the daemon writes the         *)
(* terminal statuses.                                                      *)
(***************************************************************************)
EXTENDS Naturals, Sequences

CONSTANTS
    Requests,     \* ids of revert requests
    LastCommit,   \* bound: commits of the branch
    Other,        \* a commit that reverts nothing
    NoRequest

ASSUME RevertAssumption ==
    /\ LastCommit \in Nat
    /\ Other \notin Requests /\ NoRequest \notin Requests

VARIABLES
    request,     \* revert_requests.status, "unfiled" before the insert
    mutation,    \* canonical_mutations: position of the recorded commit, 0 without a row
    journal,     \* apply_batches.phase of the batch revert-<id>
    reviewed,    \* requests whose review revision is recorded
    production,  \* a production release has completed
    branch,      \* commits of the canonical branch in the daemon's checkout
    live,        \* how many of them DEV serves
    quarantine,  \* revert_completion_failures in the daemon's state file
    tick         \* the running tick: step, request, what it fetched and found out

storeVars == <<request, mutation, journal, reviewed, production>>
revertVars == <<request, mutation, journal, reviewed, production, branch, live, quarantine, tick>>

Statuses == {"unfiled", "requested", "approved", "done", "failed"}
DaemonSteps == {"off", "next", "commit", "record", "rebuild", "site", "worker", "complete", "refused", "flush"}

NoTick == [at |-> "off", req |-> NoRequest, todo |-> {}, merged |-> {}, commit |-> 0,
           base |-> FALSE, ok |-> TRUE]

RevertInit ==
    /\ request = [r \in Requests |-> "unfiled"] /\ mutation = [r \in Requests |-> 0]
    /\ journal = [r \in Requests |-> "none"] /\ reviewed = {} /\ production = FALSE
    /\ branch = <<>> /\ live = 0 /\ quarantine = {} /\ tick = NoTick

\* git log --grep "Revert-Request: <id>"
CommitsOf(r) == {i \in DOMAIN branch : branch[i] = r}
HasCommit(r) == CommitsOf(r) # {}
TerminalRequest == {"done", "failed"}

-----------------------------------------------------------------------------
(* Callers of the store.                                                   *)

\* fileRevertRequest: a known id is answered with its row.
FiledAs(r, status) ==
    IF request[r] = "unfiled" THEN [request EXCEPT ![r] = status] ELSE request

\* The endpoint draws a fresh id. An admin's request is approved as it is filed.
FileRequest(r) ==
    /\ request[r] = "unfiled"
    /\ \E status \in {"requested", "approved"} : request' = FiledAs(r, status)
    /\ UNCHANGED <<mutation, journal, reviewed, production, branch, live, quarantine, tick>>

ResolvedAs(r, status) ==
    IF request[r] \in TerminalRequest THEN request ELSE [request EXCEPT ![r] = status]

Approve(r) ==
    /\ request[r] # "unfiled"
    /\ request' = ResolvedAs(r, "approved")
    /\ UNCHANGED <<mutation, journal, reviewed, production, branch, live, quarantine, tick>>

ProductionCompletes ==
    /\ ~production /\ production' = TRUE
    /\ UNCHANGED <<request, mutation, journal, reviewed, branch, live, quarantine, tick>>

OtherCommit ==
    /\ Len(branch) < LastCommit /\ branch' = Append(branch, Other)
    /\ UNCHANGED <<request, mutation, journal, reviewed, production, live, quarantine, tick>>

\* reconcile() in the constructor: a journalled revert has no lease, so it counts as expired.
Swept == [r \in Requests |-> IF journal[r] = "merged" THEN "done" ELSE journal[r]]
ObjectRestarts ==
    /\ journal' = Swept
    /\ UNCHANGED <<request, mutation, reviewed, production, branch, live, quarantine, tick>>

-----------------------------------------------------------------------------
(* The tick.                                                               *)

\* Approved rows with their batch phases; an unreachable Worker counts as none.
Approved == {r \in Requests : request[r] = "approved"}

Fetch ==
    /\ tick.at = "off"
    /\ \E todo \in {{}, Approved} :
        tick' = [NoTick EXCEPT !.at = "next", !.todo = todo,
                               !.merged = {r \in todo : journal[r] = "merged"}]
    /\ UNCHANGED <<storeVars, branch, live, quarantine>>

\* A quarantined request is passed over. A refusing deploy guard ends the tick.
Take(r) ==
    /\ tick.at = "next" /\ r \in tick.todo
    /\ tick' = IF r \in quarantine THEN [tick EXCEPT !.todo = @ \ {r}]
               ELSE [tick EXCEPT !.at = "commit", !.req = r, !.todo = @ \ {r}]
    /\ UNCHANGED <<storeVars, branch, live, quarantine>>

GuardRefuses ==
    /\ tick.at = "commit"
    /\ tick' = NoTick
    /\ UNCHANGED <<storeVars, branch, live, quarantine>>

\* What the journal said when it was fetched is taken as it is.
Resume ==
    /\ tick.at = "commit" /\ tick.req \in tick.merged
    /\ tick' = [tick EXCEPT !.at = "record", !.commit = mutation[tick.req]]
    /\ UNCHANGED <<storeVars, branch, live, quarantine>>

\* execute_revert under the apply lock: an earlier commit of the request is its
\* evidence while it is HEAD, any later commit makes it ambiguous.
Execute ==
    LET r == tick.req
        refused == [tick EXCEPT !.at = "refused"]
    IN /\ tick.at = "commit" /\ r \notin tick.merged
       /\ IF HasCommit(r)
          THEN /\ tick' = IF Len(branch) \in CommitsOf(r)
                          THEN [tick EXCEPT !.at = "record", !.commit = Len(branch)] ELSE refused
               /\ UNCHANGED branch
          ELSE \/ /\ Len(branch) < LastCommit /\ branch' = Append(branch, r)
                  /\ tick' = [tick EXCEPT !.at = "record", !.commit = Len(branch) + 1]
               \/ tick' = refused /\ UNCHANGED branch  \* dirty tree, conflict, failed rebuild
       /\ UNCHANGED <<storeVars, live, quarantine>>

\* /revert-resolve failed; the answer is not read.
Refuse ==
    /\ tick.at = "refused"
    /\ request' \in {request, ResolvedAs(tick.req, "failed")}
    /\ tick' = [tick EXCEPT !.at = "next", !.req = NoRequest]
    /\ UNCHANGED <<mutation, journal, reviewed, production, branch, live, quarantine>>

\* revertRecordEndpoint hashes the texts of the commit; recordCanonicalMutation inserts
\* the row, or answers its replay with the same evidence, and names the production base
\* the revision will be built on.
Evidence == tick.commit
MayRecord(r) == request[r] = "approved" /\ mutation[r] \in {0, Evidence}

MutationRecorded(r) ==
    IF MayRecord(r) /\ mutation[r] = 0
    THEN mutation' = [mutation EXCEPT ![r] = Evidence] /\ journal' = [journal EXCEPT ![r] = "merged"]
    ELSE UNCHANGED <<mutation, journal>>

RecordMutation ==
    /\ tick.at = "record" /\ MutationRecorded(tick.req)
    /\ tick' \in {NoTick} \cup                     \* no answer, or a refusal: the tick ends
                 (IF MayRecord(tick.req) THEN {[tick EXCEPT !.at = "rebuild", !.base = production]} ELSE {})
    /\ UNCHANGED <<request, reviewed, production, branch, live, quarantine>>

\* All three run, whatever the others answered.
Rebuild ==
    /\ tick.at = "rebuild"
    /\ \E ok \in BOOLEAN : tick' = [tick EXCEPT !.at = "site", !.ok = ok]
    /\ UNCHANGED <<storeVars, branch, live, quarantine>>

DeploySite ==
    /\ tick.at = "site"
    /\ \/ live' = Len(branch) /\ tick' = [tick EXCEPT !.at = "worker"]
       \/ live' = live /\ tick' = [tick EXCEPT !.at = "worker", !.ok = FALSE]
    /\ UNCHANGED <<storeVars, branch, quarantine>>

DeployWorker ==
    /\ tick.at = "worker"
    /\ journal' \in {journal, Swept}
    /\ tick' \in {NoTick} \cup (IF tick.ok THEN {[tick EXCEPT !.at = "complete"]} ELSE {})
    /\ UNCHANGED <<request, mutation, reviewed, production, branch, live, quarantine>>

\* completeCanonicalMutation. The revision is sent if the record call named a base.
\* A batch that reconcile finished answers replay, and the request is left as it is.
NeedsRevision == production /\ ~tick.base
MutationCompleted(r) ==
    IF NeedsRevision THEN UNCHANGED <<request, journal, reviewed>>
    ELSE /\ reviewed' = IF tick.base THEN reviewed \cup {r} ELSE reviewed
         /\ journal' = [journal EXCEPT ![r] = "done"]
         /\ request' = IF journal[r] = "merged" /\ request[r] = "approved"
                       THEN [request EXCEPT ![r] = "done"] ELSE request

CompleteMutation ==
    LET r == tick.req
        onward == [tick EXCEPT !.at = "next", !.req = NoRequest]
    IN /\ tick.at = "complete" /\ MutationCompleted(r)
       /\ \/ /\ NeedsRevision                        \* a refusal is quarantined, then the loop goes on
             /\ quarantine' = quarantine \cup {r} /\ tick' = onward
          \/ ~NeedsRevision /\ tick' = onward /\ UNCHANGED quarantine
          \/ tick' = NoTick /\ UNCHANGED quarantine  \* no answer
       /\ UNCHANGED <<mutation, production, branch, live>>

\* The operator repairs the evidence and clears the quarantine entry.
Repair(r) ==
    /\ r \in quarantine /\ quarantine' = quarantine \ {r}
    /\ UNCHANGED <<storeVars, branch, live, tick>>

\* With the reverts drained, the tick flushes accepted suggestions and deploys.
Drained ==
    /\ tick.at = "next" /\ tick.todo = {} /\ tick' = [tick EXCEPT !.at = "flush"]
    /\ UNCHANGED <<storeVars, branch, live, quarantine>>
Flush ==
    /\ tick.at = "flush" /\ tick' = NoTick
    /\ \/ UNCHANGED <<branch, live, journal>>
       \/ /\ branch' \in {branch, Append(branch, Other)} /\ Len(branch') <= LastCommit
          /\ live' \in {live, Len(branch')} /\ journal' = Swept
    /\ UNCHANGED <<request, mutation, reviewed, production, quarantine>>

TickDies ==
    /\ tick.at # "off" /\ tick' = NoTick
    /\ UNCHANGED <<storeVars, branch, live, quarantine>>

RevertNext ==
    \/ \E r \in Requests : FileRequest(r) \/ Approve(r) \/ Take(r) \/ Repair(r)
    \/ ProductionCompletes \/ OtherCommit \/ ObjectRestarts
    \/ Fetch \/ GuardRefuses \/ Resume \/ Execute \/ Refuse \/ RecordMutation
    \/ Rebuild \/ DeploySite \/ DeployWorker \/ CompleteMutation \/ Drained \/ Flush \/ TickDies

RevertSpec == RevertInit /\ [][RevertNext]_revertVars

-----------------------------------------------------------------------------
(* Properties.                                                             *)

RevertTypeOK ==
    /\ request \in [Requests -> Statuses] /\ mutation \in [Requests -> 0..LastCommit]
    /\ journal \in [Requests -> {"none", "merged", "done"}]
    /\ reviewed \subseteq Requests /\ production \in BOOLEAN
    /\ branch \in Seq(Requests \cup {Other}) /\ Len(branch) <= LastCommit /\ live \in 0..Len(branch)
    /\ quarantine \subseteq Requests
    /\ tick \in [at : DaemonSteps, req : Requests \cup {NoRequest}, todo : SUBSET Requests,
                 merged : SUBSET Requests, commit : 0..LastCommit, base : BOOLEAN, ok : BOOLEAN]

\* However often ticks die, answers get lost and the object restarts, one request
\* inverts its run once, and the journal names that commit.
RevertedOnce ==
    \A r \in Requests : /\ \A i, j \in CommitsOf(r) : i = j
                        /\ mutation[r] # 0 => mutation[r] \in CommitsOf(r)

\* A request is done when DEV serves its inverse commit, and not earlier.
DoneMeansLive ==
    \A r \in Requests : request[r] = "done" => \E i \in CommitsOf(r) : i <= live

\* A requested revert happens once, and only what DEV serves counts as done.
RevertIsExact == RevertedOnce /\ DoneMeansLive

\* failed is "daemon could not revert (conflict/overlap) -- never partial": the branch
\* does not carry the inverse of a failed request.
FailedMeansUntouched ==
    \A r \in Requests : request[r] = "failed" => ~HasCommit(r)
=============================================================================
