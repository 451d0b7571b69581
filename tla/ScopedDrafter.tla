---------------------------- MODULE ScopedDrafter ----------------------------
(***************************************************************************)
(* The rows of scoped_requests and the drafter that works them off         *)
(* (tools/editor_scoped_drafts.py): it posts one review group per phase    *)
(* and moves a row on when its group landed.                               *)
(*                                                                         *)
(* One draft per block: its id is a function of request and block, so its  *)
(* group is, too. Group rows go through the states that review and the     *)
(* apply engine give them (see SuggestionStore); a row that is held,       *)
(* failed or claimed counts as accepted here, the drafter waits for all of *)
(* them. A pass may die before any of its calls: an RPC that fails or is   *)
(* refused raises, and the daemon kills a pass after 900 seconds.          *)
(***************************************************************************)
EXTENDS Naturals

CONSTANTS
    ScopedIds,      \* ids of scoped requests
    Blocks, Canary, \* blocks of a scope, and those of its first matter
    Drafters,       \* passes that may run at the same time: one, under the daemon's lock
    NoRow

VARIABLES
    scoped,      \* scoped_requests by id, NoRow before the insert
    groupRows,   \* status of the draft of each block, by request
    pass         \* the running pass of each drafter

drafterVars == <<scoped, groupRows, pass>>

\* A module or a course is phased, the other levels are not.
ScopedRows == [phased : BOOLEAN, phase : {"all", "canary", "remainder"},
               status : {"requested", "drafting", "drafted", "done", "failed", "declined"}]

ASSUME DrafterAssumption == Canary \subseteq Blocks /\ NoRow \notin ScopedIds \cup ScopedRows

NoPass == [at |-> "idle", todo |-> {}, id |-> NoRow, phase |-> "all", left |-> {}]

DrafterInit ==
    /\ scoped = [i \in ScopedIds |-> NoRow]
    /\ groupRows = [i \in ScopedIds |-> [b \in Blocks |-> "none"]]
    /\ pass = [d \in Drafters |-> NoPass]

\* fileScopedRequest, once the endpoint let it through (see ScopedDialog).
FileScopedRequest(i) ==
    /\ scoped[i] = NoRow
    /\ \E phased \in BOOLEAN :
          scoped' = [scoped EXCEPT ![i] = [phased |-> phased, status |-> "requested",
                                           phase |-> IF phased THEN "canary" ELSE "all"]]
    /\ UNCHANGED <<groupRows, pass>>

-----------------------------------------------------------------------------
(* Review and application of a group.                                      *)

\* enumerateScope, split by the canary.
PhaseBlocks(phase) ==
    CASE phase = "all" -> Blocks [] phase = "canary" -> Canary [] phase = "remainder" -> Blocks \ Canary
PhasesOf(i) == IF scoped[i].phased THEN {"canary", "remainder"} ELSE {"all"}
MembersOf(i, phase) == {b \in PhaseBlocks(phase) : groupRows[i][b] # "none"}

GroupMoves(i, phase, from, to) ==
    /\ scoped[i] # NoRow /\ phase \in PhasesOf(i) /\ MembersOf(i, phase) # {}
    /\ \A b \in MembersOf(i, phase) : groupRows[i][b] \in from
    /\ groupRows' = [groupRows EXCEPT ![i] =
                       [b \in Blocks |-> IF b \in MembersOf(i, phase) THEN to ELSE groupRows[i][b]]]
    /\ UNCHANGED <<scoped, pass>>

AcceptGroup(i, phase) == GroupMoves(i, phase, {"pending", "accepted"}, "accepted")
DeclineGroup(i, phase) == GroupMoves(i, phase, {"pending", "accepted", "declined"}, "declined")
LandGroup(i, phase) == GroupMoves(i, phase, {"accepted"}, "applied")

\* A member may be declined by itself.
DeclineMember(i, b) ==
    /\ groupRows[i][b] \in {"pending", "accepted"}
    /\ groupRows' = [groupRows EXCEPT ![i][b] = "declined"]
    /\ UNCHANGED <<scoped, pass>>

-----------------------------------------------------------------------------
(* The drafter.                                                            *)

InStatus(s) == {i \in ScopedIds : scoped[i] # NoRow /\ scoped[i].status = s}
Snapshot(ids) == {[id |-> i, phase |-> scoped[i].phase] : i \in ids}
Pass(d, p) == pass' = [pass EXCEPT ![d] = p]

\* claimScopedRequest.
ClaimRow(i) == scoped[i].status = "requested" /\ scoped' = [scoped EXCEPT ![i].status = "drafting"]

\* resolveScopedRequest.
Resolvable(i, s) ==
    \/ scoped[i].status = "drafting" /\ s \in {"drafted", "failed"}
    \/ scoped[i].status = "drafted" /\ s \in {"drafting", "done", "failed", "declined"}
Resolve(i, s, phase) ==
    Resolvable(i, s) /\ scoped' = [scoped EXCEPT ![i].status = s, ![i].phase = phase]

StartPass(d) ==
    /\ pass[d].at = "idle"
    /\ Pass(d, [NoPass EXCEPT !.at = "progress", !.todo = Snapshot(InStatus("drafted"))])
    /\ UNCHANGED <<scoped, groupRows>>

\* groupOutcome, read for one row of the list that may be old by now.
GroupLanded(i, phase) ==
    MembersOf(i, phase) # {} /\ \A b \in MembersOf(i, phase) : groupRows[i][b] = "applied"
HasDeclined(i, phase) == \E b \in MembersOf(i, phase) : groupRows[i][b] = "declined"

\* Mutant: an accepted canary counts as one that verified clean.
LandedWhenAccepted(i, phase) ==
    MembersOf(i, phase) # {} /\ \A b \in MembersOf(i, phase) : groupRows[i][b] \in {"accepted", "applied"}

Verified(i, phase) == GroupLanded(i, phase)

\* _progress_drafted, for the row r of the list.
Waits(d, r) ==
    /\ pass[d].at = "progress" /\ r \in pass[d].todo
    /\ ~HasDeclined(r.id, r.phase) /\ ~Verified(r.id, r.phase)
    /\ Pass(d, [pass[d] EXCEPT !.todo = @ \ {r}])
    /\ UNCHANGED <<scoped, groupRows>>

Settles(d, r) ==
    /\ pass[d].at = "progress" /\ r \in pass[d].todo
    /\ \/ HasDeclined(r.id, r.phase) /\ Resolve(r.id, "declined", scoped[r.id].phase)
       \/ /\ ~HasDeclined(r.id, r.phase) /\ Verified(r.id, r.phase) /\ r.phase # "canary"
          /\ Resolve(r.id, "done", scoped[r.id].phase)
    /\ Pass(d, [pass[d] EXCEPT !.todo = @ \ {r}])
    /\ UNCHANGED groupRows

StartRemainder(d, r) ==
    /\ pass[d].at = "progress" /\ r \in pass[d].todo
    /\ ~HasDeclined(r.id, r.phase) /\ Verified(r.id, r.phase) /\ r.phase = "canary"
    /\ Resolve(r.id, "drafting", "remainder")
    /\ Pass(d, [pass[d] EXCEPT !.at = "draft", !.todo = @ \ {r}, !.id = r.id, !.phase = "remainder"])
    /\ UNCHANGED groupRows

ListRequested(d) ==
    /\ pass[d].at = "progress" /\ pass[d].todo = {}
    /\ Pass(d, [NoPass EXCEPT !.at = "claim", !.todo = Snapshot(InStatus("requested"))])
    /\ UNCHANGED <<scoped, groupRows>>

ClaimRequest(d, r) ==
    /\ pass[d].at = "claim" /\ r \in pass[d].todo
    /\ ClaimRow(r.id)
    /\ Pass(d, [pass[d] EXCEPT !.at = "draft", !.todo = @ \ {r}, !.id = r.id, !.phase = r.phase])
    /\ UNCHANGED groupRows

Back(d) == [pass[d] EXCEPT !.at = IF pass[d].phase = "remainder" THEN "progress" ELSE "claim"]

\* The CLI drafts some of the blocks, or none, or fails. A first phase without drafts
\* has failed; a remainder without drafts is drafted, and done with a second call.
Draft(d) ==
    LET i == pass[d].id
        remainder == pass[d].phase = "remainder"
    IN /\ pass[d].at = "draft"
       /\ \/ /\ \E drafts \in SUBSET PhaseBlocks(pass[d].phase) \ {{}} :
                   Pass(d, [pass[d] EXCEPT !.at = "post", !.left = drafts])
             /\ UNCHANGED scoped
          \/ ~remainder /\ Resolve(i, "failed", scoped[i].phase) /\ Pass(d, Back(d))
          \/ remainder /\ Resolve(i, "drafted", "remainder") /\ Pass(d, [pass[d] EXCEPT !.at = "empty"])
       /\ UNCHANGED groupRows

EmptyRemainder(d) ==
    /\ pass[d].at = "empty"
    /\ Resolve(pass[d].id, "done", scoped[pass[d].id].phase) /\ Pass(d, Back(d))
    /\ UNCHANGED groupRows

\* systemSuggest, under an id that a second drafting of the block meets again.
Post(d, b) ==
    LET i == pass[d].id
    IN /\ pass[d].at = "post" /\ b \in pass[d].left
       /\ groupRows' = IF groupRows[i][b] = "none" THEN [groupRows EXCEPT ![i][b] = "pending"] ELSE groupRows
       /\ Pass(d, [pass[d] EXCEPT !.left = @ \ {b}])
       /\ UNCHANGED scoped

Drafted(d) ==
    /\ pass[d].at = "post" /\ pass[d].left = {}
    /\ Resolve(pass[d].id, "drafted", IF pass[d].phase = "remainder" THEN "remainder" ELSE scoped[pass[d].id].phase)
    /\ Pass(d, Back(d))
    /\ UNCHANGED groupRows

PassEnds(d) ==
    /\ pass[d].at = "claim" /\ pass[d].todo = {} /\ Pass(d, NoPass)
    /\ UNCHANGED <<scoped, groupRows>>

PassDies(d) ==
    /\ pass[d].at # "idle" /\ Pass(d, NoPass)
    /\ UNCHANGED <<scoped, groupRows>>

DrafterNext ==
    \/ \E i \in ScopedIds : \/ FileScopedRequest(i)
                            \/ \E phase \in {"all", "canary", "remainder"} :
                                  AcceptGroup(i, phase) \/ DeclineGroup(i, phase) \/ LandGroup(i, phase)
                            \/ \E b \in Blocks : DeclineMember(i, b)
    \/ \E d \in Drafters : \/ StartPass(d) \/ ListRequested(d) \/ Draft(d) \/ EmptyRemainder(d)
                           \/ Drafted(d) \/ PassEnds(d) \/ PassDies(d)
                           \/ \E r \in pass[d].todo :
                                 Waits(d, r) \/ Settles(d, r) \/ StartRemainder(d, r) \/ ClaimRequest(d, r)
                           \/ \E b \in Blocks : Post(d, b)

DrafterSpec == DrafterInit /\ [][DrafterNext]_drafterVars

-----------------------------------------------------------------------------
(* Properties.                                                             *)

Filings == {i \in ScopedIds : scoped[i] # NoRow}

\* The variables have their types.
DrafterTypeOK ==
    /\ scoped \in [ScopedIds -> ScopedRows \cup {NoRow}]
    /\ groupRows \in [ScopedIds -> [Blocks -> {"none", "pending", "accepted", "declined", "applied"}]]
    /\ pass \in [Drafters -> [at : {"idle", "progress", "claim", "draft", "empty", "post"},
                              todo : SUBSET [id : ScopedIds, phase : {"all", "canary", "remainder"}],
                              id : ScopedIds \cup {NoRow}, phase : {"all", "canary", "remainder"},
                              left : SUBSET Blocks]]

\* "Only after that canary group is fully applied does the remainder draft", and a
\* request is done when everything that was drafted for it has landed: also with old
\* lists and passes that die half way.
CanaryGoesFirst ==
    \A i \in Filings : /\ scoped[i].phased /\ MembersOf(i, "remainder") # {} => GroupLanded(i, "canary")
                       /\ scoped[i].status = "done" =>
                             \A phase \in PhasesOf(i) : MembersOf(i, phase) # {} => GroupLanded(i, phase)

\* Not run: "A scoped change applies atomically under a single group_id", no group lands in
\* part. Violated when members are accepted and applied while others are still posted.
GroupLandsWhole ==
    \A i \in Filings : \A phase \in PhasesOf(i) :
        (\E b \in MembersOf(i, phase) : groupRows[i][b] = "applied") => GroupLanded(i, phase)
=============================================================================
