---------------------------- MODULE EditorProofs ----------------------------
(***************************************************************************)
(* The editor's side, for any requests, blocks, callers, keys and slots.   *)
(* That the canary of a scoped change goes first, as long as the passes of *)
(* the drafter come one after the other; that what a dialog files is what  *)
(* was meant, once, and as wide as confirmed; that the door opens to whom  *)
(* it should; and that what is typed in a block or in a form is kept, and  *)
(* handed over once.                                                       *)
(***************************************************************************)
EXTENDS ScopedDrafter, ScopedDialog, EditorDoor, EditorClient, Composers, FiniteSetTheorems, TLAPS

-----------------------------------------------------------------------------
(* The drafter of scoped changes.                                          *)

OneAtATime == \A d, e \in Drafters : d = e

-----------------------------------------------------------------------------
(* The inductive invariant.                                                *)

\* What the row of a request says of its drafts. A phase that is closed has landed whole,
\* or nothing was drafted for it.
ClosedPhase(i, phase) == \A b \in MembersOf(i, phase) : groupRows[i][b] = "applied"

RowFits(i) ==
    LET row == scoped[i]
    IN IF row = NoRow THEN \A b \in Blocks : groupRows[i][b] = "none"
       ELSE /\ row.phase \in PhasesOf(i)
            /\ row.status = "requested" => /\ \A b \in Blocks : groupRows[i][b] = "none"
                                           /\ row.phase # "remainder"
            /\ row.phase = "canary" => MembersOf(i, "remainder") = {} /\ row.status # "done"
            /\ row.phase = "remainder" => GroupLanded(i, "canary")
            /\ row.status = "done" => ClosedPhase(i, row.phase)

\* What a pass knows of the rows it lists and of the one it drafts.
ListFits(d) ==
    \A r \in pass[d].todo :
        /\ r.id \in ScopedIds /\ scoped[r.id] # NoRow /\ scoped[r.id].phase = r.phase
        /\ pass[d].at \in {"progress", "claim"} \/ r.id # pass[d].id

\* The status of the rows of the first list, and of the second.
Listing(d) ==
    IF pass[d].at = "progress" \/ (pass[d].at # "claim" /\ pass[d].phase = "remainder")
    THEN "drafted" ELSE "requested"

DraftFits(d) ==
    LET i == pass[d].id
    IN pass[d].at \in {"draft", "empty", "post"} =>
          /\ i \in ScopedIds /\ scoped[i] # NoRow
          /\ scoped[i].phase = pass[d].phase
          /\ scoped[i].status = IF pass[d].at = "empty" THEN "drafted" ELSE "drafting"
          /\ pass[d].at # "post" => MembersOf(i, pass[d].phase) = {}
          /\ pass[d].left \subseteq PhaseBlocks(pass[d].phase)

PassFits(d) ==
    /\ ListFits(d) /\ \A r \in pass[d].todo : scoped[r.id].status = Listing(d)
    /\ DraftFits(d)
    /\ pass[d].at = "idle" => pass[d].todo = {}
    /\ pass[d].at # "post" => pass[d].left = {}
    /\ pass[d].at = "empty" => pass[d].phase = "remainder"

DrafterInv ==
    /\ DrafterTypeOK
    /\ \A i \in ScopedIds : RowFits(i)
    /\ \A d \in Drafters : PassFits(d)

-----------------------------------------------------------------------------
(* Lemmas.                                                                 *)

\* Review and application of drafts, none of which appears or is taken back once applied.
OnlyForward ==
    /\ groupRows' \in [ScopedIds -> [Blocks -> {"none", "pending", "accepted", "declined", "applied"}]]
    /\ \A i \in ScopedIds : \A b \in Blocks :
          /\ groupRows'[i][b] = "none" <=> groupRows[i][b] = "none"
          /\ groupRows[i][b] = "applied" => groupRows'[i][b] = "applied"

\* The blocks of a phase are blocks, and no block is in the canary and in the remainder.
LEMMA PhasesApart ==
    \A i, phase : /\ MembersOf(i, phase) = {b \in PhaseBlocks(phase) : groupRows[i][b] # "none"}
                  /\ phase \in {"all", "canary", "remainder"} => PhaseBlocks(phase) \subseteq Blocks
                  /\ PhaseBlocks("canary") = Canary
                  /\ PhaseBlocks("remainder") = Blocks \ Canary
BY DrafterAssumption DEF MembersOf, PhaseBlocks

\* Accepting, declining and applying a group goes forward (AcceptGroup to LandGroup).
LEMMA GroupsGoForward ==
    ASSUME DrafterTypeOK, NEW i \in ScopedIds, NEW phase \in {"all", "canary", "remainder"},
           NEW from, NEW to \in {"accepted", "declined", "applied"},
           "applied" \notin from, GroupMoves(i, phase, from, to)
    PROVE  OnlyForward
<1>1. MembersOf(i, phase) \subseteq Blocks
  BY PhasesApart
<1>2. \A b \in MembersOf(i, phase) : groupRows[i][b] # "none" /\ groupRows[i][b] # "applied"
  BY PhasesApart DEF GroupMoves
<1>3. groupRows' = [groupRows EXCEPT ![i] =
                       [b \in Blocks |-> IF b \in MembersOf(i, phase) THEN to ELSE groupRows[i][b]]]
  BY DEF GroupMoves
<1> QED
  BY <1>1, <1>2, <1>3 DEF OnlyForward, DrafterTypeOK

\* Going forward keeps the invariant.
LEMMA ForwardKeeps ==
    ASSUME DrafterInv, OnlyForward, UNCHANGED <<scoped, pass>>
    PROVE  DrafterInv'
<1> USE DEF DrafterInv
<1>1. DrafterTypeOK'
  BY DEF DrafterTypeOK, OnlyForward
<1>2. \A i \in ScopedIds : \A phase \in {"all", "canary", "remainder"} :
         /\ MembersOf(i, phase)' = MembersOf(i, phase)
         /\ ClosedPhase(i, phase) => ClosedPhase(i, phase)'
         /\ GroupLanded(i, phase) => GroupLanded(i, phase)'
  <2> TAKE i \in ScopedIds
  <2> TAKE phase \in {"all", "canary", "remainder"}
  <2>1. MembersOf(i, phase)' = MembersOf(i, phase)
    BY PhasesApart DEF OnlyForward, MembersOf
  <2>2. MembersOf(i, phase) \subseteq Blocks
    BY PhasesApart
  <2> QED
    BY <2>1, <2>2 DEF OnlyForward, ClosedPhase, GroupLanded
<1>3. ASSUME NEW i \in ScopedIds PROVE RowFits(i)'
  <2>1. RowFits(i)
    OBVIOUS
  <2>2. CASE scoped[i] = NoRow
    BY <2>1, <2>2 DEF RowFits, OnlyForward
  <2>3. CASE scoped[i] # NoRow
    <3>1. scoped[i].phase \in {"all", "canary", "remainder"}
      BY <2>3 DEF DrafterTypeOK, ScopedRows
    <3>2. PhasesOf(i)' = PhasesOf(i)
      BY DEF PhasesOf
    <3> QED
      BY <1>2, <2>1, <2>3, <3>1, <3>2 DEF RowFits, OnlyForward
  <2> QED
    BY <2>2, <2>3
<1>4. ASSUME NEW d \in Drafters PROVE PassFits(d)'
  <2>1. PassFits(d)
    OBVIOUS
  <2>2. pass[d].phase \in {"all", "canary", "remainder"}
    BY DEF DrafterTypeOK
  <2> QED
    BY <1>2, <2>1, <2>2 DEF PassFits, ListFits, Listing, DraftFits
<1> QED
  BY <1>1, <1>3, <1>4

\* A row that stays keeps fitting when its drafts stay.
LEMMA RowStays ==
    ASSUME NEW i \in ScopedIds, RowFits(i), scoped'[i] = scoped[i], groupRows'[i] = groupRows[i]
    PROVE  RowFits(i)'
BY DEF RowFits, ClosedPhase, GroupLanded, MembersOf, PhasesOf

\* Filing a request (FileScopedRequest).
LEMMA FilingKeeps ==
    ASSUME DrafterInv, NEW i \in ScopedIds, FileScopedRequest(i)
    PROVE  DrafterInv'
<1> USE DEF DrafterInv
<1>1. PICK phased \in BOOLEAN :
         scoped' = [scoped EXCEPT ![i] = [phased |-> phased, status |-> "requested",
                                          phase |-> IF phased THEN "canary" ELSE "all"]]
  BY DEF FileScopedRequest
<1>2. scoped[i] = NoRow /\ groupRows' = groupRows /\ pass' = pass
  BY DEF FileScopedRequest
<1> DEFINE row == [phased |-> phased, status |-> "requested", phase |-> IF phased THEN "canary" ELSE "all"]
<1>3. row \in ScopedRows
  BY DEF ScopedRows
<1>4. scoped'[i] = row /\ \A j \in ScopedIds : j # i => scoped'[j] = scoped[j]
  BY <1>1 DEF DrafterTypeOK
<1>5. DrafterTypeOK'
  BY <1>1, <1>2, <1>3 DEF DrafterTypeOK
<1>6. ASSUME NEW j \in ScopedIds PROVE RowFits(j)'
  <2>1. CASE j = i
    <3>1. \A b \in Blocks : groupRows'[i][b] = "none"
      BY <1>2 DEF RowFits
    <3>2. MembersOf(i, "remainder")' = {}
      BY <3>1, PhasesApart DEF MembersOf
    <3>3. scoped'[i] # NoRow
      BY <1>3, <1>4, DrafterAssumption
    <3> QED
      BY <1>4, <2>1, <3>1, <3>2, <3>3 DEF RowFits, PhasesOf
  <2>2. CASE j # i
    BY <1>2, <1>4, <2>2, RowStays
  <2> QED
    BY <2>1, <2>2
<1>7. ASSUME NEW d \in Drafters PROVE PassFits(d)'
  <2>1. PassFits(d)
    OBVIOUS
  <2>2. \A r \in pass[d].todo : r.id \in ScopedIds /\ scoped'[r.id] = scoped[r.id]
    BY <1>2, <1>4, <2>1 DEF PassFits, ListFits
  <2>3. pass[d].at \in {"draft", "empty", "post"} => scoped'[pass[d].id] = scoped[pass[d].id]
    BY <1>2, <1>4, <2>1 DEF PassFits, DraftFits
  <2> QED
    BY <1>2, <2>1, <2>2, <2>3 DEF PassFits, ListFits, Listing, DraftFits, MembersOf
<1> QED
  BY <1>5, <1>6, <1>7

\* Steps of a pass that change no row of the store: lists, waits, drafts, ends and deaths.
LEMMA PassOnlyKeeps ==
    ASSUME DrafterInv, OneAtATime, NEW d \in Drafters, UNCHANGED <<scoped, groupRows>>,
           NEW p, Pass(d, p), DrafterTypeOK', PassFits(d)'
    PROVE  DrafterInv'
<1>1. \A i \in ScopedIds : RowFits(i)'
  BY RowStays DEF DrafterInv
<1> QED
  BY <1>1 DEF DrafterInv, OneAtATime

LEMMA ListingKeeps ==
    ASSUME DrafterInv, OneAtATime, NEW d \in Drafters,
           \/ StartPass(d) \/ ListRequested(d) \/ PassEnds(d) \/ PassDies(d)
           \/ \E r \in pass[d].todo : Waits(d, r)
    PROVE  DrafterInv'
<1> USE DEF DrafterInv
<1>0. PassFits(d) /\ NoRow \notin ScopedIds
  BY DrafterAssumption
<1>s. \A st : Snapshot(InStatus(st)) \in SUBSET [id : ScopedIds, phase : {"all", "canary", "remainder"}]
         /\ \A r \in Snapshot(InStatus(st)) :
               /\ r.id \in ScopedIds /\ scoped[r.id] # NoRow
               /\ scoped[r.id].phase = r.phase /\ scoped[r.id].status = st
  BY DEF Snapshot, InStatus, DrafterTypeOK, ScopedRows
<1>1. CASE StartPass(d)
  <2> DEFINE p == [NoPass EXCEPT !.at = "progress", !.todo = Snapshot(InStatus("drafted"))]
  <2>1. Pass(d, p) /\ UNCHANGED <<scoped, groupRows>>
    BY <1>1 DEF StartPass
  <2>2. DrafterTypeOK'
    BY <2>1, <1>s DEF DrafterTypeOK, Pass, NoPass
  <2>3. pass'[d] = p
    BY <2>1 DEF Pass, DrafterTypeOK
  <2>4. PassFits(d)'
    BY <2>1, <2>3, <1>s DEF PassFits, ListFits, Listing, DraftFits, NoPass
  <2> QED
    BY <2>1, <2>2, <2>4, PassOnlyKeeps
<1>2. CASE ListRequested(d)
  <2> DEFINE p == [NoPass EXCEPT !.at = "claim", !.todo = Snapshot(InStatus("requested"))]
  <2>1. Pass(d, p) /\ UNCHANGED <<scoped, groupRows>>
    BY <1>2 DEF ListRequested
  <2>2. DrafterTypeOK'
    BY <2>1, <1>s DEF DrafterTypeOK, Pass, NoPass
  <2>3. pass'[d] = p
    BY <2>1 DEF Pass, DrafterTypeOK
  <2>4. PassFits(d)'
    BY <2>1, <2>3, <1>s DEF PassFits, ListFits, Listing, DraftFits, NoPass
  <2> QED
    BY <2>1, <2>2, <2>4, PassOnlyKeeps
<1>3. CASE PassEnds(d) \/ PassDies(d)
  <2>1. Pass(d, NoPass) /\ UNCHANGED <<scoped, groupRows>>
    BY <1>3 DEF PassEnds, PassDies
  <2>2. DrafterTypeOK'
    BY <2>1 DEF DrafterTypeOK, Pass, NoPass
  <2>3. pass'[d] = NoPass
    BY <2>1 DEF Pass, DrafterTypeOK
  <2>4. PassFits(d)'
    BY <2>1, <2>3 DEF PassFits, ListFits, Listing, DraftFits, NoPass
  <2> QED
    BY <2>1, <2>2, <2>4, PassOnlyKeeps
<1>4. CASE \E r \in pass[d].todo : Waits(d, r)
  <2>1. PICK r \in pass[d].todo : Waits(d, r)
    BY <1>4
  <2> DEFINE p == [pass[d] EXCEPT !.todo = @ \ {r}]
  <2>2. Pass(d, p) /\ UNCHANGED <<scoped, groupRows>> /\ pass[d].at = "progress"
    BY <2>1 DEF Waits
  <2>3. DrafterTypeOK'
    BY <2>2 DEF DrafterTypeOK, Pass
  <2>4. /\ pass'[d].todo \subseteq pass[d].todo /\ pass'[d].at = "progress"
        /\ pass'[d].left = pass[d].left
    BY <2>2 DEF Pass, DrafterTypeOK
  <2>5. PassFits(d)'
    BY <1>0, <2>2, <2>4 DEF PassFits, ListFits, Listing, DraftFits
  <2> QED
    BY <2>2, <2>3, <2>5, PassOnlyKeeps
<1> QED
  BY <1>1, <1>2, <1>3, <1>4

-----------------------------------------------------------------------------
(* The steps that move a request on.                                       *)

RowStatuses == {"requested", "drafting", "drafted", "done", "failed", "declined"}
DraftPhases == {"all", "canary", "remainder"}

\* What a request is after it moved (ClaimRow, Resolve).
RowMoved(i, s, phase) ==
    /\ scoped'[i] # NoRow /\ scoped'[i].status = s /\ scoped'[i].phase = phase
    /\ scoped'[i].phased = scoped[i].phased
    /\ \A j \in ScopedIds : j # i => scoped'[j] = scoped[j]
    /\ scoped' \in [ScopedIds -> ScopedRows \cup {NoRow}]

Passes == [at : {"idle", "progress", "claim", "draft", "empty", "post"},
           todo : SUBSET [id : ScopedIds, phase : DraftPhases],
           id : ScopedIds \cup {NoRow}, phase : DraftPhases, left : SUBSET Blocks]

LEMMA PassTyped ==
    DrafterTypeOK => pass \in [Drafters -> Passes]
BY DEF DrafterTypeOK, Passes, DraftPhases

LEMMA ResolveMoves ==
    ASSUME DrafterTypeOK, NEW i \in ScopedIds, scoped[i] # NoRow,
           NEW s \in RowStatuses, NEW phase \in DraftPhases, Resolve(i, s, phase)
    PROVE  RowMoved(i, s, phase)
<1>1. scoped' = [scoped EXCEPT ![i].status = s, ![i].phase = phase]
  BY DEF Resolve
<1>2. scoped[i] \in ScopedRows
  BY DEF DrafterTypeOK
<1>3. /\ scoped'[i].status = s /\ scoped'[i].phase = phase /\ scoped'[i].phased = scoped[i].phased
      /\ scoped'[i] \in ScopedRows
  BY <1>1, <1>2 DEF DrafterTypeOK, ScopedRows, RowStatuses, DraftPhases
<1>4. \A j \in ScopedIds : j # i => scoped'[j] = scoped[j]
  BY <1>1 DEF DrafterTypeOK
<1>5. DOMAIN scoped' = ScopedIds /\ scoped' = [j \in ScopedIds |-> scoped'[j]]
  BY <1>1 DEF DrafterTypeOK
<1>6. \A j \in ScopedIds : scoped'[j] \in ScopedRows \cup {NoRow}
  BY <1>3, <1>4 DEF DrafterTypeOK
<1> QED
  BY <1>3, <1>4, <1>5, <1>6, DrafterAssumption DEF RowMoved

LEMMA ClaimMoves ==
    ASSUME DrafterTypeOK, NEW i \in ScopedIds, scoped[i] # NoRow, ClaimRow(i)
    PROVE  RowMoved(i, "drafting", scoped[i].phase)
<1>1. scoped' = [scoped EXCEPT ![i].status = "drafting"]
  BY DEF ClaimRow
<1>2. scoped[i] \in ScopedRows
  BY DEF DrafterTypeOK
<1>3. /\ scoped'[i].status = "drafting" /\ scoped'[i].phase = scoped[i].phase
      /\ scoped'[i].phased = scoped[i].phased /\ scoped'[i] \in ScopedRows
  BY <1>1, <1>2 DEF DrafterTypeOK, ScopedRows
<1>4. \A j \in ScopedIds : j # i => scoped'[j] = scoped[j]
  BY <1>1 DEF DrafterTypeOK
<1>5. DOMAIN scoped' = ScopedIds /\ scoped' = [j \in ScopedIds |-> scoped'[j]]
  BY <1>1 DEF DrafterTypeOK
<1>6. \A j \in ScopedIds : scoped'[j] \in ScopedRows \cup {NoRow}
  BY <1>3, <1>4 DEF DrafterTypeOK
<1> QED
  BY <1>3, <1>4, <1>5, <1>6, DrafterAssumption DEF RowMoved

\* What is left to show of such a step: its own row and its own pass.
LEMMA MoveKeeps ==
    ASSUME DrafterInv, OneAtATime, NEW d \in Drafters, NEW i \in ScopedIds, NEW s, NEW phase,
           RowMoved(i, s, phase), UNCHANGED groupRows, RowFits(i)',
           NEW p, Pass(d, p),
           p \in Passes, pass'[d] = p => PassFits(d)'
    PROVE  DrafterInv'
<1> USE DEF DrafterInv
<1>1. DrafterTypeOK'
  BY DEF DrafterTypeOK, RowMoved, Pass, Passes, DraftPhases
<1>2. \A j \in ScopedIds : RowFits(j)'
  BY RowStays DEF RowMoved
<1>3. pass'[d] = p
  BY DEF Pass, DrafterTypeOK
<1> QED
  BY <1>1, <1>2, <1>3 DEF OneAtATime

\* The canary of a phased request and its remainder: a row that fits moves on in its phase.
LEMMA PhaseKept ==
    ASSUME DrafterInv, NEW i \in ScopedIds, scoped[i] # NoRow,
           NEW s \in RowStatuses \ {"requested"}, RowMoved(i, s, scoped[i].phase), UNCHANGED groupRows,
           s = "done" => scoped[i].phase # "canary" /\ ClosedPhase(i, scoped[i].phase)
    PROVE  RowFits(i)'
<1>1. RowFits(i)
  BY DEF DrafterInv
<1>2. \A phase : /\ MembersOf(i, phase)' = MembersOf(i, phase)
                 /\ ClosedPhase(i, phase)' = ClosedPhase(i, phase)
                 /\ GroupLanded(i, phase)' = GroupLanded(i, phase)
  BY DEF MembersOf, ClosedPhase, GroupLanded
<1>3. PhasesOf(i)' = PhasesOf(i)
  BY DEF PhasesOf, RowMoved
<1> QED
  BY <1>1, <1>2, <1>3 DEF RowFits, RowMoved

\* A list has a request once.
LEMMA ListedOnce ==
    ASSUME DrafterInv, NEW d \in Drafters, NEW r \in pass[d].todo,
           NEW q \in pass[d].todo \ {r}
    PROVE  q.id # r.id
<1> SUFFICES ASSUME q.id = r.id PROVE q = r
  OBVIOUS
<1>1. /\ q \in [id : ScopedIds, phase : {"all", "canary", "remainder"}]
      /\ r \in [id : ScopedIds, phase : {"all", "canary", "remainder"}]
  BY DEF DrafterInv, DrafterTypeOK
<1>2. q.phase = r.phase
  BY DEF DrafterInv, PassFits, ListFits
<1> QED
  BY <1>1, <1>2

\* Ending a request (Settles): declined, or done when its phase landed.
LEMMA SettlesKeeps ==
    ASSUME DrafterInv, OneAtATime, NEW d \in Drafters, NEW r \in pass[d].todo, Settles(d, r)
    PROVE  DrafterInv'
<1> USE DEF DrafterInv
<1> DEFINE i == r.id
           p == [pass[d] EXCEPT !.todo = @ \ {r}]
<1>1. /\ pass[d].at = "progress" /\ PassFits(d)
      /\ i \in ScopedIds /\ scoped[i] # NoRow /\ scoped[i].phase = r.phase
      /\ scoped[i].phase \in DraftPhases
  BY DEF Settles, PassFits, ListFits, DrafterTypeOK, ScopedRows, DraftPhases
<1>2. PICK s \in {"declined", "done"} :
         /\ Resolve(i, s, scoped[i].phase)
         /\ s = "done" => r.phase # "canary" /\ GroupLanded(i, r.phase)
  BY DEF Settles, Verified
<1>3. RowMoved(i, s, scoped[i].phase)
  BY <1>1, <1>2, ResolveMoves DEF RowStatuses
<1>4. RowFits(i)'
  BY <1>1, <1>2, <1>3, PhaseKept DEF RowStatuses, Settles, ClosedPhase, GroupLanded
<1>5. Pass(d, p) /\ UNCHANGED groupRows
  BY DEF Settles
<1>6. p \in Passes
  BY PassTyped DEF Passes
<1>7. p.todo = pass[d].todo \ {r} /\ p.at = "progress"
  BY <1>1 DEF DrafterTypeOK
<1>8. \A q \in p.todo : q.id # i
  BY <1>7, ListedOnce
<1>9. pass'[d] = p => PassFits(d)'
  BY <1>1, <1>3, <1>7, <1>8 DEF PassFits, ListFits, Listing, DraftFits, RowMoved
<1> HIDE DEF i, p
<1> QED
  BY <1>1, <1>3, <1>4, <1>5, <1>6, <1>9, MoveKeeps

\* The remainder starts when the canary landed (StartRemainder).
LEMMA StartKeeps ==
    ASSUME DrafterInv, OneAtATime, NEW d \in Drafters, NEW r \in pass[d].todo, StartRemainder(d, r)
    PROVE  DrafterInv'
<1> USE DEF DrafterInv
<1> DEFINE i == r.id
           p == [pass[d] EXCEPT !.at = "draft", !.todo = @ \ {r}, !.id = r.id, !.phase = "remainder"]
<1>1. /\ pass[d].at = "progress" /\ PassFits(d) /\ RowFits(i)
      /\ i \in ScopedIds /\ scoped[i] # NoRow /\ scoped[i].phase = "canary"
  BY DEF StartRemainder, PassFits, ListFits
<1>2. RowMoved(i, "drafting", "remainder")
  BY <1>1, ResolveMoves DEF RowStatuses, DraftPhases, StartRemainder
<1>3. /\ Pass(d, p) /\ UNCHANGED groupRows /\ GroupLanded(i, "canary")
      /\ MembersOf(i, "remainder") = {}
  BY <1>1 DEF StartRemainder, Verified, RowFits
<1>4. RowFits(i)'
  BY <1>1, <1>2, <1>3 DEF RowFits, RowMoved, MembersOf, GroupLanded, PhasesOf
<1>5. p \in Passes
  <2>1. pass[d] \in Passes
    BY PassTyped
  <2> QED
    BY <1>1, <2>1 DEF Passes, DraftPhases
<1>6. p.todo = pass[d].todo \ {r} /\ p.at = "draft" /\ p.id = i /\ p.phase = "remainder"
  BY DEF DrafterTypeOK
<1>7. \A q \in p.todo : q.id # i
  BY <1>6, ListedOnce
<1>8. p.left = {}
  BY <1>1 DEF PassFits, DrafterTypeOK
<1>9. pass'[d] = p => PassFits(d)'
  BY <1>1, <1>2, <1>3, <1>6, <1>7, <1>8 DEF PassFits, ListFits, Listing, DraftFits, RowMoved, MembersOf
<1> HIDE DEF i, p
<1> QED
  BY <1>1, <1>2, <1>3, <1>4, <1>5, <1>9, MoveKeeps

\* A requested row is claimed for its first phase (ClaimRequest).
LEMMA ClaimKeeps ==
    ASSUME DrafterInv, OneAtATime, NEW d \in Drafters, NEW r \in pass[d].todo, ClaimRequest(d, r)
    PROVE  DrafterInv'
<1> USE DEF DrafterInv
<1> DEFINE i == r.id
           p == [pass[d] EXCEPT !.at = "draft", !.todo = @ \ {r}, !.id = r.id, !.phase = r.phase]
<1>1. /\ pass[d].at = "claim" /\ PassFits(d) /\ RowFits(i)
      /\ i \in ScopedIds /\ scoped[i] # NoRow /\ scoped[i].phase = r.phase
      /\ scoped[i].status = "requested" /\ r.phase \in DraftPhases
  BY DEF ClaimRequest, PassFits, ListFits, ClaimRow, DrafterTypeOK, ScopedRows, DraftPhases
<1>2. RowMoved(i, "drafting", scoped[i].phase)
  BY <1>1, ClaimMoves DEF ClaimRequest
<1>3. /\ Pass(d, p) /\ UNCHANGED groupRows /\ r.phase # "remainder"
      /\ MembersOf(i, r.phase) = {}
  BY <1>1, PhasesApart DEF ClaimRequest, RowFits, DraftPhases
<1>4. RowFits(i)'
  BY <1>1, <1>2, <1>3, PhaseKept DEF RowStatuses
<1>5. p \in Passes
  <2>1. pass[d] \in Passes
    BY PassTyped
  <2> QED
    BY <1>1, <2>1 DEF Passes, DraftPhases
<1>6. p.todo = pass[d].todo \ {r} /\ p.at = "draft" /\ p.id = i /\ p.phase = r.phase
  BY DEF DrafterTypeOK
<1>7. \A q \in p.todo : q.id # i
  BY <1>6, ListedOnce
<1>8. p.left = {}
  BY <1>1 DEF PassFits, DrafterTypeOK
<1>9. pass'[d] = p => PassFits(d)'
  BY <1>1, <1>2, <1>3, <1>6, <1>7, <1>8 DEF PassFits, ListFits, Listing, DraftFits, RowMoved, MembersOf
<1> HIDE DEF i, p
<1> QED
  BY <1>1, <1>2, <1>3, <1>4, <1>5, <1>9, MoveKeeps

\* The pass goes back to its list, the request is drafted, failed or done.
LEMMA BackKeeps ==
    ASSUME DrafterInv, OneAtATime, NEW d \in Drafters,
           pass[d].at \in {"draft", "empty", "post"}, pass[d].left = {},
           NEW i \in ScopedIds, pass[d].id = i,
           NEW s \in {"drafted", "failed", "done"},
           RowMoved(i, s, scoped[i].phase),
           s = "done" => pass[d].at = "empty",
           UNCHANGED groupRows, Pass(d, Back(d))
    PROVE  DrafterInv'
<1> USE DEF DrafterInv
<1> DEFINE p == Back(d)
<1>1. /\ scoped[i] # NoRow /\ scoped[i].phase = pass[d].phase /\ PassFits(d)
      /\ pass[d].at = "empty" => /\ pass[d].phase = "remainder"
                                 /\ MembersOf(i, "remainder") = {}
  BY DEF PassFits, DraftFits
<1>2. RowFits(i)'
  BY <1>1, PhaseKept DEF RowStatuses, ClosedPhase
<1>3. p \in Passes
  <2>1. pass[d] \in Passes
    BY PassTyped
  <2> QED
    BY <2>1 DEF Passes, Back
<1>4. /\ p.todo = pass[d].todo /\ p.left = {}
      /\ p.at = IF pass[d].phase = "remainder" THEN "progress" ELSE "claim"
  BY DEF DrafterTypeOK, Back
<1>5. \A r \in p.todo : r.id \in ScopedIds /\ r.id # i
  BY <1>4 DEF PassFits, ListFits
<1>6. pass'[d] = p => PassFits(d)'
  BY <1>1, <1>4, <1>5 DEF PassFits, ListFits, Listing, DraftFits, RowMoved
<1> HIDE DEF p
<1>7. Pass(d, p)
  BY DEF p
<1> QED
  BY <1>1, <1>2, <1>3, <1>6, <1>7, MoveKeeps

\* Drafting and what follows it (Draft, EmptyRemainder, Drafted).
LEMMA DraftingKeeps ==
    ASSUME DrafterInv, OneAtATime, NEW d \in Drafters, Draft(d) \/ EmptyRemainder(d) \/ Drafted(d)
    PROVE  DrafterInv'
<1> USE DEF DrafterInv
<1>1. pass[d].at \in {"draft", "empty", "post"}
  BY DEF Draft, EmptyRemainder, Drafted
<1>2. PICK i \in ScopedIds : pass[d].id = i
  BY <1>1 DEF PassFits, DraftFits
<1>3. /\ scoped[i] # NoRow /\ scoped[i].phase = pass[d].phase /\ PassFits(d)
      /\ scoped[i].phase \in DraftPhases /\ pass[d] \in Passes
  BY <1>1, <1>2, PassTyped DEF PassFits, DraftFits, DrafterTypeOK, ScopedRows, DraftPhases
<1>4. ASSUME NEW s \in {"drafted", "failed", "done"}, Resolve(i, s, scoped[i].phase)
      PROVE  RowMoved(i, s, scoped[i].phase)
  BY <1>3, <1>4, ResolveMoves DEF RowStatuses
<1>5. CASE Drafted(d)
  <2>1. Resolve(i, "drafted", scoped[i].phase)
    BY <1>2, <1>3, <1>5 DEF Drafted
  <2> QED
    BY <1>1, <1>2, <1>4, <1>5, <2>1, BackKeeps DEF Drafted
<1>6. CASE EmptyRemainder(d)
  <2>1. pass[d].left = {} /\ pass[d].at = "empty" /\ Resolve(i, "done", scoped[i].phase)
    BY <1>2, <1>3, <1>6 DEF EmptyRemainder, PassFits
  <2> QED
    BY <1>1, <1>2, <1>4, <1>6, <2>1, BackKeeps DEF EmptyRemainder
<1>7. CASE Draft(d)
  <2>1. pass[d].at = "draft" /\ pass[d].left = {} /\ UNCHANGED groupRows
    BY <1>3, <1>7 DEF Draft, PassFits
  <2>2. CASE Resolve(i, "failed", scoped[i].phase) /\ Pass(d, Back(d))
    BY <1>1, <1>2, <1>4, <2>1, <2>2, BackKeeps
  <2>3. ASSUME NEW drafts \in SUBSET PhaseBlocks(pass[d].phase),
               Pass(d, [pass[d] EXCEPT !.at = "post", !.left = drafts]), UNCHANGED scoped
        PROVE  DrafterInv'
    <3> DEFINE p == [pass[d] EXCEPT !.at = "post", !.left = drafts]
    <3>1. drafts \subseteq Blocks
      BY <1>3, PhasesApart DEF DraftPhases
    <3>2. p \in Passes /\ p.at = "post" /\ p.left = drafts
          /\ p.todo = pass[d].todo /\ p.id = pass[d].id /\ p.phase = pass[d].phase
      BY <1>3, <3>1 DEF Passes
    <3>3. DrafterTypeOK' /\ pass'[d] = p
      BY <2>1, <2>3, <3>2 DEF DrafterTypeOK, Pass, Passes, DraftPhases
    <3>4. PassFits(d)'
      BY <1>3, <2>1, <2>3, <3>2, <3>3 DEF PassFits, ListFits, Listing, DraftFits
    <3> QED
      BY <2>1, <2>3, <3>3, <3>4, PassOnlyKeeps
  <2>4. CASE /\ pass[d].phase = "remainder" /\ Resolve(i, "drafted", "remainder")
             /\ Pass(d, [pass[d] EXCEPT !.at = "empty"])
    <3> DEFINE p == [pass[d] EXCEPT !.at = "empty"]
    <3>1. RowMoved(i, "drafted", scoped[i].phase)
      BY <1>3, <1>4, <2>4
    <3>2. RowFits(i)'
      BY <1>3, <2>1, <3>1, PhaseKept DEF RowStatuses
    <3>3. p \in Passes /\ p.at = "empty" /\ p.left = {}
          /\ p.todo = pass[d].todo /\ p.id = pass[d].id /\ p.phase = pass[d].phase
      BY <1>3, <2>1 DEF Passes
    <3>4. pass'[d] = p => PassFits(d)'
      BY <1>2, <1>3, <2>1, <2>4, <3>1, <3>3 DEF PassFits, ListFits, Listing, DraftFits, RowMoved,
         MembersOf
    <3> HIDE DEF p
    <3>5. Pass(d, p)
      BY <2>4 DEF p
    <3> QED
      BY <2>1, <3>1, <3>2, <3>3, <3>4, <3>5, MoveKeeps
  <2> QED
    BY <1>2, <1>7, <2>2, <2>3, <2>4 DEF Draft
<1> QED
  BY <1>5, <1>6, <1>7

\* A draft is posted (Post), in the phase that its request is in.
LEMMA PostKeeps ==
    ASSUME DrafterInv, OneAtATime, NEW d \in Drafters, NEW b \in Blocks, Post(d, b)
    PROVE  DrafterInv'
<1> USE DEF DrafterInv
<1> DEFINE p == [pass[d] EXCEPT !.left = @ \ {b}]
<1>1. pass[d].at = "post" /\ b \in pass[d].left /\ UNCHANGED scoped /\ Pass(d, p)
  BY DEF Post
<1>2. PICK i \in ScopedIds : pass[d].id = i
  BY <1>1 DEF PassFits, DraftFits
<1>3. /\ scoped[i] # NoRow /\ scoped[i].phase = pass[d].phase /\ scoped[i].status = "drafting"
      /\ PassFits(d) /\ pass[d] \in Passes /\ b \in PhaseBlocks(scoped[i].phase)
  BY <1>1, <1>2, PassTyped DEF PassFits, DraftFits
<1>4. p \in Passes /\ p.at = "post" /\ p.left = pass[d].left \ {b}
      /\ p.todo = pass[d].todo /\ p.id = i /\ p.phase = pass[d].phase
  BY <1>1, <1>2, <1>3 DEF Passes
<1>5. /\ groupRows' \in [ScopedIds -> [Blocks -> {"none", "pending", "accepted", "declined", "applied"}]]
      /\ \A j \in ScopedIds : \A c \in Blocks :
            (j # i \/ c # b \/ groupRows[j][c] # "none") => groupRows'[j][c] = groupRows[j][c]
  BY <1>2 DEF Post, DrafterTypeOK
<1>6. DrafterTypeOK' /\ pass'[d] = p
  BY <1>1, <1>4, <1>5 DEF DrafterTypeOK, Pass, Passes, DraftPhases
<1>7. ASSUME NEW j \in ScopedIds PROVE RowFits(j)'
  <2>1. CASE j # i
    <3>1. groupRows'[j] = groupRows[j]
      BY <1>2, <2>1 DEF Post, DrafterTypeOK
    <3> QED
      BY <1>1, <3>1, RowStays
  <2>2. CASE j = i
    <3>1. scoped[i].phase \in DraftPhases /\ RowFits(i)
      BY <1>3 DEF DrafterTypeOK, ScopedRows, DraftPhases
    <3>2. CASE scoped[i].phase = "remainder"
      <4>1. \A c \in Canary : groupRows'[i][c] = groupRows[i][c]
        BY <1>3, <1>5, <3>2, PhasesApart, DrafterAssumption
      <4>2. GroupLanded(i, "canary")'
        BY <1>1, <1>3, <3>1, <3>2, <4>1, PhasesApart DEF RowFits, GroupLanded, MembersOf
      <4> QED
        BY <1>1, <1>3, <2>2, <3>1, <3>2, <4>2 DEF RowFits, PhasesOf
    <3>3. CASE scoped[i].phase = "canary"
      <4>1. \A c \in Blocks \ Canary : groupRows'[i][c] = groupRows[i][c]
        BY <1>3, <1>5, <3>3, PhasesApart
      <4>2. MembersOf(i, "remainder")' = {}
        BY <1>3, <3>1, <3>3, <4>1, PhasesApart DEF RowFits, MembersOf
      <4> QED
        BY <1>1, <1>3, <2>2, <3>1, <3>3, <4>2 DEF RowFits, PhasesOf
    <3>4. CASE scoped[i].phase = "all"
      BY <1>1, <1>3, <2>2, <3>1, <3>4 DEF RowFits, PhasesOf
    <3> QED
      BY <3>1, <3>2, <3>3, <3>4 DEF DraftPhases
  <2> QED
    BY <2>1, <2>2
<1>8. PassFits(d)'
  BY <1>1, <1>2, <1>3, <1>4, <1>6 DEF PassFits, ListFits, Listing, DraftFits
<1> QED
  BY <1>6, <1>7, <1>8 DEF OneAtATime

-----------------------------------------------------------------------------
(* The theorem.                                                            *)

LEMMA DrafterInvInit ==
    DrafterInit => DrafterInv
<1> SUFFICES ASSUME DrafterInit PROVE DrafterInv
  OBVIOUS
<1>1. DrafterTypeOK
  BY DEF DrafterInit, DrafterTypeOK, NoPass
<1>2. \A i \in ScopedIds : RowFits(i)
  BY DEF DrafterInit, RowFits
<1>3. \A d \in Drafters : PassFits(d)
  BY DEF DrafterInit, PassFits, ListFits, DraftFits, NoPass
<1> QED
  BY <1>1, <1>2, <1>3 DEF DrafterInv

LEMMA DrafterInvNext ==
    ASSUME DrafterInv, OneAtATime, [DrafterNext]_drafterVars
    PROVE  DrafterInv'
<1>1. CASE UNCHANGED drafterVars
  <2>1. OnlyForward
    BY <1>1 DEF OnlyForward, drafterVars, DrafterInv, DrafterTypeOK
  <2> QED
    BY <1>1, <2>1, ForwardKeeps DEF drafterVars
<1>2. ASSUME NEW i \in ScopedIds, FileScopedRequest(i) PROVE DrafterInv'
  BY <1>2, FilingKeeps
<1>3. ASSUME NEW i \in ScopedIds, NEW phase \in {"all", "canary", "remainder"},
             AcceptGroup(i, phase) \/ DeclineGroup(i, phase) \/ LandGroup(i, phase)
      PROVE  DrafterInv'
  <2>1. OnlyForward
    BY <1>3, GroupsGoForward DEF AcceptGroup, DeclineGroup, LandGroup, DrafterInv
  <2>2. UNCHANGED <<scoped, pass>>
    BY <1>3 DEF AcceptGroup, DeclineGroup, LandGroup, GroupMoves
  <2> QED
    BY <2>1, <2>2, ForwardKeeps
<1>4. ASSUME NEW i \in ScopedIds, NEW b \in Blocks, DeclineMember(i, b) PROVE DrafterInv'
  <2>1. OnlyForward /\ UNCHANGED <<scoped, pass>>
    BY <1>4 DEF OnlyForward, DeclineMember, DrafterInv, DrafterTypeOK
  <2> QED
    BY <2>1, ForwardKeeps
<1>5. ASSUME NEW d \in Drafters, StartPass(d) \/ ListRequested(d) \/ PassEnds(d) \/ PassDies(d)
      PROVE  DrafterInv'
  BY <1>5, ListingKeeps
<1>6. ASSUME NEW d \in Drafters, Draft(d) \/ EmptyRemainder(d) \/ Drafted(d) PROVE DrafterInv'
  BY <1>6, DraftingKeeps
<1>7. ASSUME NEW d \in Drafters, NEW r \in pass[d].todo,
             Waits(d, r) \/ Settles(d, r) \/ StartRemainder(d, r) \/ ClaimRequest(d, r)
      PROVE  DrafterInv'
  BY <1>7, ListingKeeps, SettlesKeeps, StartKeeps, ClaimKeeps
<1>8. ASSUME NEW d \in Drafters, NEW b \in Blocks, Post(d, b) PROVE DrafterInv'
  BY <1>8, PostKeeps
<1> QED
  BY <1>1, <1>2, <1>3, <1>4, <1>5, <1>6, <1>7, <1>8 DEF DrafterNext

LEMMA DrafterInvSuffices ==
    DrafterInv => CanaryGoesFirst
<1> SUFFICES ASSUME DrafterInv, NEW i \in ScopedIds, scoped[i] # NoRow
             PROVE  /\ scoped[i].phased /\ MembersOf(i, "remainder") # {} => GroupLanded(i, "canary")
                    /\ scoped[i].status = "done" =>
                          \A phase \in PhasesOf(i) : MembersOf(i, phase) # {} => GroupLanded(i, phase)
  BY DEF CanaryGoesFirst, Filings
<1>1. RowFits(i)
  BY DEF DrafterInv
<1> QED
  BY <1>1 DEF RowFits, PhasesOf, ClosedPhase, GroupLanded

\* The remainder of a scoped change is drafted only when its canary landed, and a change is
\* done when everything drafted for it landed (editor_scoped_drafts.py, _progress_drafted):
\* with one pass at a time, whatever calls of it fail.
THEOREM CanaryLandsFirst ==
    OneAtATime => (DrafterSpec => []CanaryGoesFirst)
<1> SUFFICES ASSUME OneAtATime PROVE DrafterSpec => []CanaryGoesFirst
  OBVIOUS
<1>1. DrafterInv /\ [DrafterNext]_drafterVars => DrafterInv'
  BY DrafterInvNext
<1> QED
  BY <1>1, DrafterInvInit, DrafterInvSuffices, PTL DEF DrafterSpec

-----------------------------------------------------------------------------
(* The dialog of a scoped change.                                          *)

\* Request i stands somewhere for the payload p: in the row, the dialog, its draft or a call.
Bears(i, p) ==
    \/ filed[i] # Nothing /\ filed[i] = p
    \/ dialog # Nothing /\ dialog.id = i /\ dialog.payload = p
    \/ dialogDraft # Nothing /\ dialogDraft.id = i /\ dialogDraft.payload = p
    \/ call # Nothing /\ call.id = i /\ call.payload = p
    \/ \E m \in lateCalls : m.id = i /\ m.payload = p

\* A payload is written under one id, and goes everywhere under that id.
OneIdEach ==
    \A p \in Payloads : \A i, j \in RequestIds : Bears(i, p) /\ Bears(j, p) => i = j
WrittenFirst == \A p \in Payloads : \A i \in RequestIds : Bears(i, p) => p \in written

\* A token was signed in answer to a challenge.
TokensWereShown ==
    /\ dialog # Nothing => dialog.token \in challenged \cup {Nothing}
    /\ call # Nothing => call.token \in challenged \cup {Nothing}
    /\ \A m \in lateCalls : m.token \in challenged \cup {Nothing}

\* A handler that waits has its dialog.
CallHasDialog == call # Nothing => dialog # Nothing

DialogInv ==
    /\ DialogTypeOK /\ CallHasDialog
    /\ OneIdEach /\ WrittenFirst
    /\ TokensWereShown /\ WideIsConfirmed

USE DialogAssumption, NothingAssumption

LEMMA InitDialog == DialogInit => DialogInv
<1> SUFFICES ASSUME DialogInit PROVE DialogInv
  OBVIOUS
<1>1. \A i \in RequestIds, p \in Payloads : ~Bears(i, p)
  BY DEF DialogInit, Bears
<1>2. DialogTypeOK
  BY DEF DialogInit, DialogTypeOK
<1> QED
  BY <1>1, <1>2 DEF DialogInit, DialogInv, CallHasDialog, OneIdEach, WrittenFirst, TokensWereShown,
     WideIsConfirmed, FiledRequests

\* What stands for a payload after a step stood for it before, or is the id the payload was
\* just written under.
NothingAppears == \A i \in RequestIds, p \in Payloads : Bears(i, p)' => Bears(i, p)
Appears(id, new) ==
    \A i \in RequestIds, p \in Payloads : Bears(i, p)' => Bears(i, p) \/ (i = id /\ p = new)

LEMMA CopiesKeepIds ==
  ASSUME OneIdEach, WrittenFirst, NothingAppears, UNCHANGED written
  PROVE  OneIdEach' /\ WrittenFirst'
BY DEF OneIdEach, WrittenFirst, NothingAppears, RequestIds, Payloads

LEMMA NewIdKeepsIds ==
  ASSUME OneIdEach, WrittenFirst, NEW id, NEW new \in Payloads, new \notin written,
         Appears(id, new), written' = written \cup {new}
  PROVE  OneIdEach' /\ WrittenFirst'
BY DEF OneIdEach, WrittenFirst, Appears, RequestIds, Payloads

LEMMA FilingKeepsRows ==
  ASSUME DialogInv, NEW m \in Calls, Filed(m), m.token \in challenged \cup {Nothing},
         UNCHANGED <<challenged>>
  PROVE  /\ filed' \in [RequestIds -> Payloads \cup {Nothing}]
         /\ WideIsConfirmed'
         /\ \A i \in RequestIds : filed'[i] = filed[i] \/ (i = m.id /\ filed'[i] = m.payload)
<1>1. m.id \in RequestIds /\ m.payload \in Payloads
  BY DEF Calls
<1>2. filed \in [RequestIds -> Payloads \cup {Nothing}]
  BY DEF DialogInv, DialogTypeOK
<1>3. \A i \in RequestIds : filed'[i] = filed[i] \/ (i = m.id /\ filed'[i] = m.payload /\ ~Refused(m))
  BY <1>1, <1>2 DEF Filed
<1>4. ~Refused(m) /\ m.payload # Nothing /\ m.payload.level \in Wide => m.payload \in challenged
  BY DEF Refused, Confirmed
<1>5. WideIsConfirmed'
  BY <1>2, <1>3, <1>4 DEF WideIsConfirmed, FiledRequests, DialogInv
<1>6. filed' \in [RequestIds -> Payloads \cup {Nothing}]
  BY <1>1, <1>2 DEF Filed
<1> QED
  BY <1>3, <1>5, <1>6

LEMMA StepKeepsDialog == DialogInv /\ [DialogNext]_dialogVars => DialogInv'
<1> SUFFICES ASSUME DialogInv, [DialogNext]_dialogVars PROVE DialogInv'
  OBVIOUS
<1> USE DEF DialogInv
<1>1. ASSUME OpenDialog PROVE DialogInv'
  <2>1. PICK p \in Payloads \ written :
           /\ dialog' = Unconfirmed(idsUsed + 1, p)
           /\ dialogDraft' = Kept(dialog') /\ written' = written \cup {p}
    BY <1>1 DEF OpenDialog
  <2>2. idsUsed + 1 \in RequestIds
    BY <1>1 DEF OpenDialog, DialogTypeOK, RequestIds
  <2>3. dialog' \in Dialogs
    BY <2>1, <2>2 DEF Unconfirmed, Dialogs
  <2>4. DialogTypeOK'
    BY <1>1, <2>1, <2>2, <2>3 DEF OpenDialog, DialogTypeOK, Kept, Unconfirmed, RequestIds
  <2>5. Appears(idsUsed + 1, p)
    BY <1>1, <2>1 DEF OpenDialog, Appears, Bears, Kept, Unconfirmed
  <2>6. OneIdEach' /\ WrittenFirst'
    BY <2>1, <2>5, NewIdKeepsIds
  <2>7. TokensWereShown' /\ CallHasDialog' /\ WideIsConfirmed'
    BY <1>1, <2>1, <2>3 DEF OpenDialog, TokensWereShown, CallHasDialog, WideIsConfirmed, FiledRequests,
       Unconfirmed
  <2> QED
    BY <2>4, <2>6, <2>7
<1>2. ASSUME ReopenDialog PROVE DialogInv'
  <2>1. dialogDraft.id \in RequestIds /\ dialogDraft.payload \in Payloads
    BY <1>2 DEF ReopenDialog, DialogTypeOK
  <2>2. dialog' \in Dialogs
    BY <1>2, <2>1 DEF ReopenDialog, Unconfirmed, Dialogs
  <2>3. DialogTypeOK'
    BY <1>2, <2>2 DEF ReopenDialog, DialogTypeOK
  <2>4. NothingAppears /\ UNCHANGED written
    BY <1>2 DEF ReopenDialog, NothingAppears, Bears, Unconfirmed
  <2>5. TokensWereShown' /\ CallHasDialog' /\ WideIsConfirmed'
    BY <1>2, <2>2 DEF ReopenDialog, TokensWereShown, CallHasDialog, WideIsConfirmed, FiledRequests,
       Unconfirmed
  <2> QED
    BY <2>3, <2>4, <2>5, CopiesKeepIds
<1>3. ASSUME NEW p \in Payloads, Rewrite(p) PROVE DialogInv'
  <2>1. dialog \in Dialogs /\ p \notin written
    BY <1>3 DEF Rewrite, DialogTypeOK
  <2>2. CASE dialog.confirmed
    <3>1. dialog' = [Unconfirmed(idsUsed + 1, p) EXCEPT !.sent = dialog.sent]
          /\ idsUsed' = idsUsed + 1 /\ idsUsed < LastRequest
      BY <1>3, <2>2 DEF Rewrite
    <3>2. idsUsed + 1 \in RequestIds /\ idsUsed' \in 0..LastRequest
      BY <3>1 DEF DialogTypeOK, RequestIds
    <3>3. dialog' \in Dialogs /\ dialog'.id = idsUsed + 1 /\ dialog'.payload = p /\ dialog'.token = Nothing
      BY <2>1, <3>1, <3>2 DEF Unconfirmed, Dialogs
    <3>4. DialogTypeOK'
      BY <1>3, <3>2, <3>3 DEF Rewrite, DialogTypeOK, Kept
    <3>5. Appears(idsUsed + 1, p)
      BY <1>3, <3>3 DEF Rewrite, Appears, Bears, Kept
    <3>6. OneIdEach' /\ WrittenFirst'
      BY <1>3, <2>1, <3>5, NewIdKeepsIds DEF Rewrite
    <3>7. TokensWereShown' /\ CallHasDialog' /\ WideIsConfirmed'
      BY <1>3, <3>3 DEF Rewrite, TokensWereShown, CallHasDialog, WideIsConfirmed, FiledRequests
    <3> QED
      BY <3>4, <3>6, <3>7
  <2>3. CASE ~dialog.confirmed
    <3>1. dialog' = [dialog EXCEPT !.payload = p] /\ UNCHANGED idsUsed
      BY <1>3, <2>3 DEF Rewrite
    <3>2. dialog' \in Dialogs /\ dialog'.id = dialog.id /\ dialog'.payload = p /\ dialog'.token = dialog.token
      BY <2>1, <3>1 DEF Dialogs
    <3>3. DialogTypeOK'
      BY <1>3, <3>1, <3>2 DEF Rewrite, DialogTypeOK, Kept, Dialogs
    <3>4. Appears(dialog.id, p)
      BY <1>3, <3>2 DEF Rewrite, Appears, Bears, Kept
    <3>5. OneIdEach' /\ WrittenFirst'
      BY <1>3, <2>1, <3>4, NewIdKeepsIds DEF Rewrite
    <3>6. TokensWereShown' /\ CallHasDialog' /\ WideIsConfirmed'
      BY <1>3, <3>2 DEF Rewrite, TokensWereShown, CallHasDialog, WideIsConfirmed, FiledRequests
    <3> QED
      BY <3>3, <3>5, <3>6
  <2> QED
    BY <2>2, <2>3
<1>4. ASSUME Send PROVE DialogInv'
  <2>1. dialog \in Dialogs
    BY <1>4 DEF Send, DialogTypeOK
  <2>2. call' \in Calls /\ call'.id = dialog.id /\ call'.payload = dialog.payload
        /\ call'.token \in challenged \cup {Nothing}
    BY <1>4, <2>1 DEF Send, Dialogs, Calls, TokensWereShown
  <2>3. DialogTypeOK'
    BY <1>4, <2>2 DEF Send, DialogTypeOK
  <2>4. NothingAppears /\ UNCHANGED written
    BY <1>4, <2>2 DEF Send, NothingAppears, Bears
  <2>5. TokensWereShown' /\ CallHasDialog' /\ WideIsConfirmed'
    BY <1>4, <2>1, <2>2 DEF Send, TokensWereShown, CallHasDialog, WideIsConfirmed, FiledRequests
  <2> QED
    BY <2>3, <2>4, <2>5, CopiesKeepIds
<1>5. ASSUME CloseDialog PROVE DialogInv'
  <2>1. dialogDraft' = dialogDraft \/ dialogDraft' = Nothing
    BY <1>5 DEF CloseDialog
  <2>2. DialogTypeOK'
    BY <1>5, <2>1 DEF CloseDialog, DialogTypeOK
  <2>3. NothingAppears /\ UNCHANGED written
    BY <1>5, <2>1 DEF CloseDialog, NothingAppears, Bears
  <2>4. TokensWereShown' /\ CallHasDialog' /\ WideIsConfirmed'
    BY <1>5 DEF CloseDialog, TokensWereShown, CallHasDialog, WideIsConfirmed, FiledRequests
  <2> QED
    BY <2>2, <2>3, <2>4, CopiesKeepIds
<1>6. ASSUME PageGoes PROVE DialogInv'
  <2>1. lateCalls' \subseteq Calls /\ \A m \in lateCalls' : m \in lateCalls \/ (call # Nothing /\ m = call)
    BY <1>6 DEF PageGoes, DialogTypeOK
  <2>2. DialogTypeOK'
    BY <1>6, <2>1 DEF PageGoes, DialogTypeOK
  <2>3. NothingAppears /\ UNCHANGED written
    BY <1>6, <2>1 DEF PageGoes, NothingAppears, Bears
  <2>4. TokensWereShown' /\ CallHasDialog' /\ WideIsConfirmed'
    BY <1>6, <2>1 DEF PageGoes, TokensWereShown, CallHasDialog, WideIsConfirmed, FiledRequests
  <2> QED
    BY <2>2, <2>3, <2>4, CopiesKeepIds
<1>7. ASSUME Accepted PROVE DialogInv'
  <2>1. dialog # Nothing /\ dialog \in Dialogs /\ call \in Calls /\ call.token \in challenged \cup {Nothing}
    BY <1>7 DEF Accepted, DialogTypeOK, CallHasDialog, TokensWereShown
  <2>2. dialog' \in Dialogs /\ dialog'.id = dialog.id /\ dialog'.payload = dialog.payload
        /\ dialog'.token = dialog.token
    BY <1>7, <2>1 DEF Accepted, Dialogs
  <2>3. /\ filed' \in [RequestIds -> Payloads \cup {Nothing}]
        /\ WideIsConfirmed'
        /\ \A i \in RequestIds : filed'[i] = filed[i] \/ (i = call.id /\ filed'[i] = call.payload)
    BY <1>7, <2>1, FilingKeepsRows DEF Accepted
  <2>4. DialogTypeOK'
    BY <1>7, <2>2, <2>3 DEF Accepted, DialogTypeOK
  <2>5. NothingAppears /\ UNCHANGED written
    <3>1. dialog # Nothing
      BY <1>7 DEF Accepted, CallHasDialog
    <3> QED
      BY <1>7, <2>1, <2>2, <2>3, <3>1 DEF Accepted, NothingAppears, Bears
  <2>6. TokensWereShown' /\ CallHasDialog'
    BY <1>7, <2>1, <2>2 DEF Accepted, TokensWereShown, CallHasDialog
  <2> QED
    BY <2>3, <2>4, <2>5, <2>6, CopiesKeepIds
<1>8. ASSUME Challenged PROVE DialogInv'
  <2>1. dialog # Nothing /\ dialog \in Dialogs /\ call \in Calls
    BY <1>8 DEF Challenged, DialogTypeOK, CallHasDialog
  <2>2. call.id \in RequestIds /\ call.payload \in Payloads
    BY <2>1 DEF Calls
  <2>3. call.payload \in written
    <3>1. Bears(call.id, call.payload)
      BY <1>8 DEF Challenged, Bears
    <3> QED
      BY <2>2, <3>1 DEF WrittenFirst
  <2>4. dialog' \in Dialogs /\ dialog'.id = dialog.id /\ dialog'.payload = dialog.payload
        /\ dialog'.token = call.payload
    BY <1>8, <2>1, <2>2 DEF Challenged, Dialogs
  <2>5. DialogTypeOK'
    BY <1>8, <2>3, <2>4 DEF Challenged, DialogTypeOK
  <2>6. NothingAppears /\ UNCHANGED written
    BY <1>8, <2>1, <2>4 DEF Challenged, NothingAppears, Bears
  <2>7. TokensWereShown' /\ CallHasDialog' /\ WideIsConfirmed'
    BY <1>8, <2>4 DEF Challenged, TokensWereShown, CallHasDialog, WideIsConfirmed, FiledRequests
  <2> QED
    BY <2>5, <2>6, <2>7, CopiesKeepIds
<1>9. ASSUME CallFails PROVE DialogInv'
  <2>1. call \in Calls /\ call.token \in challenged \cup {Nothing}
    BY <1>9 DEF CallFails, DialogTypeOK, TokensWereShown
  <2>2. /\ filed' \in [RequestIds -> Payloads \cup {Nothing}]
        /\ WideIsConfirmed'
        /\ \A i \in RequestIds : filed'[i] = filed[i] \/ (i = call.id /\ filed'[i] = call.payload)
    <3>1. CASE Filed(call)
      BY <1>9, <2>1, <3>1, FilingKeepsRows DEF CallFails
    <3>2. CASE UNCHANGED filed
      BY <1>9, <3>2 DEF CallFails, DialogTypeOK, WideIsConfirmed, FiledRequests
    <3> QED
      BY <1>9, <3>1, <3>2 DEF CallFails
  <2>3. lateCalls' \subseteq lateCalls \cup {call}
    BY <1>9 DEF CallFails
  <2>4. DialogTypeOK'
    BY <1>9, <2>1, <2>2, <2>3 DEF CallFails, DialogTypeOK
  <2>5. NothingAppears /\ UNCHANGED written
    BY <1>9, <2>2, <2>3 DEF CallFails, NothingAppears, Bears
  <2>6. TokensWereShown' /\ CallHasDialog'
    BY <1>9, <2>1, <2>3 DEF CallFails, TokensWereShown, CallHasDialog
  <2> QED
    BY <2>2, <2>4, <2>5, <2>6, CopiesKeepIds
<1>10. ASSUME NEW m \in lateCalls, CallArrives(m) PROVE DialogInv'
  <2>1. m \in Calls /\ m.token \in challenged \cup {Nothing}
    BY DEF DialogTypeOK, TokensWereShown
  <2>2. /\ filed' \in [RequestIds -> Payloads \cup {Nothing}]
        /\ WideIsConfirmed'
        /\ \A i \in RequestIds : filed'[i] = filed[i] \/ (i = m.id /\ filed'[i] = m.payload)
    BY <1>10, <2>1, FilingKeepsRows DEF CallArrives
  <2>3. DialogTypeOK'
    BY <1>10, <2>2 DEF CallArrives, DialogTypeOK
  <2>4. NothingAppears /\ UNCHANGED written
    BY <1>10, <2>2 DEF CallArrives, NothingAppears, Bears
  <2>5. TokensWereShown' /\ CallHasDialog'
    BY <1>10 DEF CallArrives, TokensWereShown, CallHasDialog
  <2> QED
    BY <2>2, <2>3, <2>4, <2>5, CopiesKeepIds
<1>11. ASSUME UNCHANGED dialogVars PROVE DialogInv'
  <2>1. NothingAppears
    BY <1>11 DEF dialogVars, NothingAppears, Bears
  <2>2. DialogTypeOK' /\ TokensWereShown' /\ CallHasDialog' /\ WideIsConfirmed'
    BY <1>11 DEF dialogVars, DialogTypeOK, TokensWereShown, CallHasDialog, WideIsConfirmed,
       FiledRequests
  <2> QED
    BY <1>11, <2>1, <2>2, CopiesKeepIds DEF dialogVars
<1> QED
  BY <1>1, <1>2, <1>3, <1>4, <1>5, <1>6, <1>7, <1>8, <1>9, <1>10, <1>11 DEF DialogNext

LEMMA DialogInvSuffices == DialogInv => FiledAsMeant
BY DEF DialogInv, FiledAsMeant, FiledOnce, FiledRequests, OneIdEach, Bears, DialogTypeOK

\* However a dialog is rewritten, closed, reopened after a crash and sent again, and however
\* late its calls arrive: nothing is filed twice, nor wider than was shown and confirmed.
THEOREM DialogHolds == DialogSpec => []FiledAsMeant
BY InitDialog, StepKeepsDialog, DialogInvSuffices, PTL DEF DialogSpec

-----------------------------------------------------------------------------
(* The editor's door.                                                      *)

(* The inductive invariant.                                                *)

\* A cookie is what it was made for, and a slot's grants are numbers.
JarFits ==
    jar # NoOne => /\ jar.slot \in Slots /\ jar.under \in [Scopes -> Nat]
                   /\ jar.stamp = Stamp(jar.under)

\* A key that somebody learned at a time is published, or was withdrawn since.
LivedAt(k, at) ==
    k \in Published \/ (k < oldest /\ withdrawn[k] \in Times /\ withdrawn[k] >= at)

CacheIsFresh ==
    cache # NoOne => cache.at <= clock /\ \A k \in cache.keys : LivedAt(k, cache.at)

\* A request for the key set lasts at most one unit, and the reply knows the key asked
\* for, unless that was withdrawn before.
AsksAreFresh ==
    \A c \in Callers : asks[c] # NoOne =>
        /\ asks[c].since <= clock /\ clock <= asks[c].since + 1
        /\ asks[c].kid <= signing
        /\ \A k \in asks[c].reply : LivedAt(k, asks[c].since)
        /\ asks[c].reply # {} => asks[c].kid \in asks[c].reply \/ asks[c].kid < oldest

DoorInv == DoorTypeOK /\ JarFits /\ CacheIsFresh /\ AsksAreFresh

-----------------------------------------------------------------------------
(* Every step keeps it.                                                    *)

USE DoorAssumption

\* A stamp names the grants it was made of.
LEMMA StampTellsGrants ==
  ASSUME NEW g \in [Scopes -> Nat], NEW h \in [Scopes -> Nat], Stamp(g) = Stamp(h)
  PROVE  g = h
<1>1. \A o \in Early : g[o] = h[o]
  BY DEF Stamp, Early, Late
<1>2. \A o \in Late : g[o] # 0 <=> h[o] # 0
  <2> TAKE o \in Late
  <2>1. o \notin Early
    BY DEF Early, Late
  <2>2. DOMAIN Stamp(g) = Early \cup {l \in Late : g[l] # 0} /\ DOMAIN Stamp(h) = Early \cup {l \in Late : h[l] # 0}
    BY DEF Stamp
  <2> QED
    BY <2>1, <2>2
<1>3. \A o \in Late : g[o] # 0 => g[o] = h[o]
  <2> TAKE o \in Late
  <2> HAVE g[o] # 0
  <2>1. Stamp(g)[o] = g[o] /\ Stamp(h)[o] = h[o]
    BY <1>2 DEF Stamp
  <2> QED
    BY <2>1
<1>4. \A o \in Scopes : g[o] = h[o]
  BY <1>1, <1>2, <1>3 DEF Scopes
<1> QED
  BY <1>4

LEMMA CurrentIsTyped ==
  ASSUME DoorTypeOK
  PROVE  /\ Current \in Configurations
         /\ \A s \in Slots : Current.grants[s] \in [Scopes -> Nat]
<1>1. Current \in Configurations
  BY DEF DoorTypeOK, Current
<1> QED
  BY <1>1 DEF Configurations

LEMMA SlotOfLink ==
  ASSUME NEW cf, NEW link, HasSlot(cf, link)
  PROVE  SlotOf(cf, link) \in Configured(cf) /\ SlotOf(cf, link) \in Slots
<1>1. SlotsOf(cf, link) # {}
  <2>1. Cardinality({}) = 0
    BY FS_EmptySet
  <2>2. Cardinality(SlotsOf(cf, link)) # 0
    BY DEF HasSlot
  <2>3. SUFFICES ASSUME SlotsOf(cf, link) = {} PROVE FALSE
    OBVIOUS
  <2>4. Cardinality(SlotsOf(cf, link)) = Cardinality({})
    BY <2>3
  <2> QED
    BY <2>1, <2>2, <2>4
<1> QED
  BY <1>1 DEF SlotOf, SlotsOf, Configured

\* What a key lived to stays true while the key set only moves on.
LEMMA LivesOn ==
  ASSUME DoorTypeOK, NEW k \in Keys, NEW at \in Times, at <= clock, LivedAt(k, at),
         signing' \in Keys, signing <= signing',
         \/ oldest' = oldest /\ withdrawn' = withdrawn
         \/ /\ oldest < signing /\ oldest' = oldest + 1 /\ signing' = signing
            /\ withdrawn' = [withdrawn EXCEPT ![oldest] = clock]
  PROVE  LivedAt(k, at)'
<1>1. /\ oldest \in Nat /\ signing \in Nat /\ signing' \in Nat /\ k \in Nat /\ clock \in Times
      /\ withdrawn \in [Keys -> Times \cup {NoOne}] /\ oldest \in Keys
  BY DEF DoorTypeOK, Keys
<1>2. CASE oldest' = oldest /\ withdrawn' = withdrawn
  BY <1>1, <1>2 DEF LivedAt, Published
<1>3. CASE /\ oldest < signing /\ oldest' = oldest + 1 /\ signing' = signing
           /\ withdrawn' = [withdrawn EXCEPT ![oldest] = clock]
  <2>1. CASE k = oldest
    <3>1. withdrawn'[k] = clock /\ k < oldest'
      BY <1>1, <1>3, <2>1
    <3> QED
      BY <1>1, <3>1 DEF LivedAt, Times
  <2>2. CASE k # oldest
    <3>1. withdrawn'[k] = withdrawn[k]
      BY <1>1, <1>3, <2>2
    <3> QED
      BY <1>1, <1>3, <2>2, <3>1 DEF LivedAt, Published
  <2> QED
    BY <2>1, <2>2
<1> QED
  BY <1>2, <1>3

\* The caches and the requests under way do not notice the key set and the clock move on.
LEMMA SurroundingsMove ==
  ASSUME DoorInv, UNCHANGED <<deployed, cache, jar, asks>>, signing' \in Keys, signing <= signing',
         \/ oldest' = oldest /\ withdrawn' = withdrawn
         \/ /\ oldest < signing /\ oldest' = oldest + 1 /\ signing' = signing
            /\ withdrawn' = [withdrawn EXCEPT ![oldest] = clock],
         \/ clock' = clock
         \/ /\ clock < LastTime /\ \A c \in Callers : asks[c] # NoOne => asks[c].since = clock
            /\ clock' = clock + 1
  PROVE  DoorInv'
<1>0. /\ DoorTypeOK /\ oldest \in Nat /\ signing \in Nat /\ signing' \in Nat /\ clock \in Nat
      /\ oldest \in Keys /\ LastTime \in Nat
      /\ cache # NoOne => cache.at \in Times /\ cache.keys \subseteq Keys
      /\ \A c \in Callers : asks[c] # NoOne => /\ asks[c].since \in Times /\ asks[c].reply \subseteq Keys
                                               /\ asks[c].kid \in Nat
  BY DEF DoorInv, DoorTypeOK, Keys, Times
<1>1. /\ clock' \in Times /\ clock <= clock' /\ clock' <= clock + 1
  BY <1>0 DEF DoorTypeOK, Times
<1>2. DoorTypeOK'
  <2>1. oldest' \in 1..signing'
    BY <1>0 DEF DoorTypeOK, Keys
  <2>2. withdrawn' \in [Keys -> Times \cup {NoOne}]
    BY <1>0 DEF DoorTypeOK
  <2> QED
    BY <1>0, <1>1, <2>1, <2>2 DEF DoorTypeOK
<1>3. JarFits'
  BY DEF DoorInv, JarFits
<1>4. CacheIsFresh'
  <2> SUFFICES ASSUME cache # NoOne PROVE cache.at <= clock' /\ \A k \in cache.keys : LivedAt(k, cache.at)'
    BY DEF CacheIsFresh, LivedAt, Published
  <2>1. cache.at <= clock /\ \A k \in cache.keys : k \in Keys /\ LivedAt(k, cache.at)
    BY <1>0 DEF DoorInv, CacheIsFresh
  <2>2. cache.at <= clock'
    BY <1>0, <1>1, <2>1 DEF Times
  <2> QED
    BY <1>0, <2>1, <2>2, LivesOn
<1>5. AsksAreFresh'
  <2> SUFFICES ASSUME NEW c \in Callers, asks[c] # NoOne
               PROVE  /\ asks[c].since <= clock' /\ clock' <= asks[c].since + 1 /\ asks[c].kid <= signing'
                      /\ \A k \in asks[c].reply : LivedAt(k, asks[c].since)'
                      /\ asks[c].reply # {} => asks[c].kid \in asks[c].reply \/ asks[c].kid < oldest'
    BY DEF AsksAreFresh, LivedAt, Published
  <2>1. /\ asks[c].since <= clock /\ clock <= asks[c].since + 1 /\ asks[c].kid <= signing
        /\ \A k \in asks[c].reply : k \in Keys /\ LivedAt(k, asks[c].since)
        /\ asks[c].reply # {} => asks[c].kid \in asks[c].reply \/ asks[c].kid < oldest
        /\ asks[c].since \in Times /\ asks[c].since \in Nat
    BY <1>0 DEF DoorInv, AsksAreFresh, Times
  <2>2. asks[c].since <= clock' /\ clock' <= asks[c].since + 1
    BY <1>0, <1>1, <2>1 DEF Times
  <2>3. asks[c].kid <= signing' /\ (asks[c].kid < oldest => asks[c].kid < oldest')
    BY <1>0, <2>1
  <2>4. \A k \in asks[c].reply : LivedAt(k, asks[c].since)'
    BY <1>0, <2>1, LivesOn
  <2> QED
    BY <2>1, <2>2, <2>3, <2>4
<1> QED
  BY <1>2, <1>3, <1>4, <1>5 DEF DoorInv

LEMMA LinkKeepsDoor ==
  ASSUME DoorInv, NEW link, ClickLink(link)
  PROVE  DoorInv'
<1>1. PICK s \in Slots : jar' = [slot |-> s, stamp |-> Stamp(Current.grants[s]), under |-> Current.grants[s]]
  BY SlotOfLink DEF ClickLink
<1>2. Current.grants[s] \in [Scopes -> Nat]
  BY CurrentIsTyped DEF DoorInv
<1>3. UNCHANGED <<deployed, clock, signing, oldest, withdrawn, cache, asks>>
  BY DEF ClickLink
<1>4. DoorTypeOK' /\ JarFits'
  BY <1>1, <1>2, <1>3 DEF DoorInv, DoorTypeOK, JarFits
<1>5. CacheIsFresh' /\ AsksAreFresh'
  BY <1>3 DEF DoorInv, CacheIsFresh, AsksAreFresh, LivedAt, Published
<1> QED
  BY <1>4, <1>5 DEF DoorInv

\* A request arrives, gets its reply, returns or fails; what it leaves in the cache lived
\* when it was asked for.
LEMMA AskKeepsDoor ==
  ASSUME DoorInv, NEW c \in Callers,
         \/ EdgeReplies(c) \/ FetchReturns(c) \/ FetchFails(c)
         \/ \E kid \in 1..signing : Arrive(c, kid)
  PROVE  DoorInv'
<1>0. /\ DoorTypeOK /\ oldest \in Nat /\ signing \in Nat /\ clock \in Nat /\ clock \in Times
      /\ \A k \in Published : k \in Keys
      /\ asks[c] # NoOne => /\ asks[c] \in [kid : Keys, since : Times, reply : SUBSET Keys, warm : BOOLEAN]
                            /\ asks[c].kid \in Nat
  BY DEF DoorInv, DoorTypeOK, Keys, Times, Published
<1>1. UNCHANGED <<deployed, clock, signing, oldest, withdrawn, jar>>
  BY DEF EdgeReplies, FetchReturns, FetchFails, Arrive
<1>2. PICK new : /\ asks' = [asks EXCEPT ![c] = new]
                 /\ new # NoOne =>
                      /\ new \in [kid : Keys, since : Times, reply : SUBSET Keys, warm : BOOLEAN]
                      /\ new.since <= clock /\ clock <= new.since + 1 /\ new.kid <= signing
                      /\ \A k \in new.reply : LivedAt(k, new.since)
                      /\ new.reply # {} => new.kid \in new.reply \/ new.kid < oldest
  <2>1. CASE EdgeReplies(c)
    <3> DEFINE new == [asks[c] EXCEPT !.reply = Published]
    <3>1. asks' = [asks EXCEPT ![c] = new] /\ asks[c] # NoOne
      BY <2>1 DEF EdgeReplies
    <3>2. /\ new \in [kid : Keys, since : Times, reply : SUBSET Keys, warm : BOOLEAN]
          /\ new.since = asks[c].since /\ new.kid = asks[c].kid /\ new.reply = Published
      BY <1>0, <3>1
    <3>3. \A k \in Published : LivedAt(k, new.since)
      BY DEF LivedAt
    <3>4. asks[c].kid \in Published \/ asks[c].kid < oldest
      BY <1>0, <3>1 DEF Published, DoorInv, AsksAreFresh
    <3>5. asks[c].since <= clock /\ clock <= asks[c].since + 1 /\ asks[c].kid <= signing
      BY <3>1 DEF DoorInv, AsksAreFresh
    <3> HIDE DEF new
    <3> QED
      BY <3>1, <3>2, <3>3, <3>4, <3>5
  <2>2. CASE FetchReturns(c) \/ FetchFails(c)
    BY <2>2 DEF FetchReturns, FetchFails
  <2>3. ASSUME NEW kid \in 1..signing, Arrive(c, kid)
        PROVE  \E n : /\ asks' = [asks EXCEPT ![c] = n]
                      /\ n # NoOne =>
                           /\ n \in [kid : Keys, since : Times, reply : SUBSET Keys, warm : BOOLEAN]
                           /\ n.since <= clock /\ clock <= n.since + 1 /\ n.kid <= signing
                           /\ \A k \in n.reply : LivedAt(k, n.since)
                           /\ n.reply # {} => n.kid \in n.reply \/ n.kid < oldest
    <3> DEFINE n == [kid |-> kid, since |-> clock, reply |-> {}, warm |-> CacheIsWarm]
    <3>1. asks' = [asks EXCEPT ![c] = n]
      BY <2>3 DEF Arrive
    <3>2. kid \in Keys /\ kid <= signing /\ clock <= clock + 1 /\ CacheIsWarm \in BOOLEAN
      BY <1>0, <2>3 DEF DoorTypeOK, Keys, CacheIsWarm
    <3>3. n \in [kid : Keys, since : Times, reply : SUBSET Keys, warm : BOOLEAN]
      BY <1>0, <3>2
    <3>4. n.since = clock /\ n.kid = kid /\ n.reply = {}
      OBVIOUS
    <3>5. n.since <= clock /\ clock <= n.since + 1 /\ n.kid <= signing
      BY <1>0, <3>2, <3>4
    <3> HIDE DEF n
    <3> WITNESS n
    <3> QED
      BY <3>1, <3>3, <3>4, <3>5
  <2> QED
    BY <2>1, <2>2, <2>3
<1>3. cache' = cache \/ (asks[c] # NoOne /\ cache' = [keys |-> asks[c].reply, at |-> asks[c].since])
  BY DEF EdgeReplies, FetchReturns, FetchFails, Arrive
<1>4. asks' \in [Callers -> [kid : Keys, since : Times, reply : SUBSET Keys, warm : BOOLEAN] \cup {NoOne}]
  BY <1>0, <1>2 DEF DoorTypeOK
<1>5. DoorTypeOK'
  <2>1. cache' \in [keys : SUBSET Keys, at : Times] \cup {NoOne}
    BY <1>0, <1>3 DEF DoorTypeOK
  <2> QED
    BY <1>0, <1>1, <1>4, <2>1 DEF DoorTypeOK
<1>6. JarFits'
  BY <1>1 DEF DoorInv, JarFits
<1>7. CacheIsFresh'
  <2>1. CASE cache' = cache
    BY <1>1, <2>1 DEF DoorInv, CacheIsFresh, LivedAt, Published
  <2>2. CASE asks[c] # NoOne /\ cache' = [keys |-> asks[c].reply, at |-> asks[c].since]
    <3>1. asks[c].since <= clock /\ \A k \in asks[c].reply : LivedAt(k, asks[c].since)
      BY <2>2 DEF DoorInv, AsksAreFresh
    <3>2. cache'.keys = asks[c].reply /\ cache'.at = asks[c].since
      BY <2>2
    <3> QED
      BY <1>1, <3>1, <3>2 DEF CacheIsFresh, LivedAt, Published
  <2> QED
    BY <1>3, <2>1, <2>2
<1>8. AsksAreFresh'
  <2> SUFFICES ASSUME NEW d \in Callers, asks'[d] # NoOne
               PROVE  /\ asks'[d].since <= clock /\ clock <= asks'[d].since + 1 /\ asks'[d].kid <= signing
                      /\ \A k \in asks'[d].reply : LivedAt(k, asks'[d].since)
                      /\ asks'[d].reply # {} => asks'[d].kid \in asks'[d].reply \/ asks'[d].kid < oldest
    BY <1>1 DEF AsksAreFresh, LivedAt, Published
  <2>1. CASE d = c
    BY <1>0, <1>2, <2>1 DEF DoorTypeOK
  <2>2. CASE d # c
    <3>1. asks'[d] = asks[d]
      BY <1>0, <1>2, <2>2 DEF DoorTypeOK
    <3> QED
      BY <3>1 DEF DoorInv, AsksAreFresh
  <2> QED
    BY <2>1, <2>2
<1> QED
  BY <1>5, <1>6, <1>7, <1>8 DEF DoorInv

LEMMA DeployKeepsDoor ==
  ASSUME DoorInv, Deploy
  PROVE  DoorInv'
<1>1. /\ UNCHANGED <<clock, signing, oldest, withdrawn, jar>> /\ cache' = NoOne
      /\ asks' = [c \in Callers |-> NoOne] /\ deployed' \in DOMAIN Deployments
  BY DEF Deploy, DoorInv, DoorTypeOK
<1> QED
  BY <1>1 DEF DoorInv, DoorTypeOK, JarFits, CacheIsFresh, AsksAreFresh

LEMMA InitDoor == DoorInit => DoorInv
<1> SUFFICES ASSUME DoorInit PROVE DoorInv
  OBVIOUS
<1>1. 1 \in DOMAIN Deployments
  OBVIOUS
<1> QED
  BY <1>1 DEF DoorInit, DoorInv, DoorTypeOK, JarFits, CacheIsFresh, AsksAreFresh, Times, Keys

LEMMA StepKeepsDoor == DoorInv /\ [DoorNext]_doorVars => DoorInv'
<1> SUFFICES ASSUME DoorInv, [DoorNext]_doorVars PROVE DoorInv'
  OBVIOUS
<1>0. oldest \in Nat /\ signing \in Nat /\ LastKey \in Nat /\ signing \in Keys
  BY DEF DoorInv, DoorTypeOK, Keys
<1>1. ASSUME TimePasses \/ NewKey \/ KeyWithdrawn \/ UNCHANGED doorVars PROVE DoorInv'
  <2>1. /\ UNCHANGED <<deployed, cache, jar, asks>> /\ signing' \in Keys /\ signing <= signing'
        /\ \/ oldest' = oldest /\ withdrawn' = withdrawn
           \/ /\ oldest < signing /\ oldest' = oldest + 1 /\ signing' = signing
              /\ withdrawn' = [withdrawn EXCEPT ![oldest] = clock]
        /\ \/ clock' = clock
           \/ /\ clock < LastTime /\ \A c \in Callers : asks[c] # NoOne => asks[c].since = clock
              /\ clock' = clock + 1
    BY <1>0, <1>1 DEF TimePasses, NewKey, KeyWithdrawn, doorVars, Keys
  <2> QED
    BY <2>1, SurroundingsMove
<1>2. ASSUME NEW link, ClickLink(link) PROVE DoorInv'
  BY <1>2, LinkKeepsDoor
<1>3. ASSUME NEW c \in Callers,
             \/ EdgeReplies(c) \/ FetchReturns(c) \/ FetchFails(c)
             \/ \E kid \in 1..signing : Arrive(c, kid)
      PROVE  DoorInv'
  BY <1>3, AskKeepsDoor
<1>4. CASE Deploy
  BY <1>4, DeployKeepsDoor
<1> QED
  BY <1>1, <1>2, <1>3, <1>4 DEF DoorNext

-----------------------------------------------------------------------------
(* What every answer rests on.                                             *)

\* Grants of a slot that counts leave an observer nothing else, and no gate takes both
\* the assertion of the publisher and the bearer token of a service.
LEMMA SomebodyHasOneDuty ==
  ASSUME NEW cf, NEW s \in Configured(cf), NEW a, a.scopes = Granted(cf, s)
  PROVE  DutiesAreSeparate(a)
<1>2. ASSUME "release_observer" \in a.scopes PROVE a.scopes = {"release_observer"}
  BY <1>2 DEF Granted, Configured, Scopes, Late
<1>3. ASSUME a.scopes = {"release_observer"} PROVE Opens(a) \subseteq {"observe"}
  <2>1. \A r \in DOMAIN PageGates : "release_observer" \notin PageGates[r].needs
    BY DEF PageGates, Gate
  <2>2. \A r \in DOMAIN ApiGates : "release_observer" \in ApiGates[r].needs => r = "observe"
    BY DEF ApiGates, Gate
  <2> QED
    BY <1>3, <2>1, <2>2 DEF Opens
<1>4. "publish" \in Opens(a) => a.channel = "access"
  BY DEF Opens, PageGates, ApiGates, Gate
<1>5. a.channel = "access" => Opens(a) \cap {"release", "migrate"} = {}
  BY DEF Opens, PageGates, ApiGates, Gate
<1> QED
  BY <1>2, <1>3, <1>4, <1>5 DEF DutiesAreSeparate

LEMMA NobodyHasNoDuty ==
  ASSUME NEW a, a.scopes = {}
  PROVE  DutiesAreSeparate(a)
<1>1. Opens(a) = {}
  BY DEF Opens
<1> QED
  BY <1>1 DEF DutiesAreSeparate

Sound(a) == KeyIsAlive(a) /\ a.fair /\ CookieIsOfToday(a) /\ DutiesAreSeparate(a)

LEMMA CookieIsSound ==
  ASSUME DoorInv
  PROVE  \A a \in ByCookie : Sound(a)
<1> SUFFICES ASSUME Holds(jar) PROVE Sound(Somebody(Current, jar.slot, "cookie", jar))
  BY DEF ByCookie
<1> DEFINE a == Somebody(Current, jar.slot, "cookie", jar)
<1>1. /\ jar.slot \in Configured(Current) /\ jar.slot \in Slots /\ jar.under \in [Scopes -> Nat]
      /\ Stamp(jar.under) = Stamp(Current.grants[jar.slot])
  BY DEF Holds, DoorInv, JarFits
<1>2. Current.grants[jar.slot] \in [Scopes -> Nat]
  BY <1>1, CurrentIsTyped DEF DoorInv
<1>3. jar.under = Current.grants[jar.slot]
  BY <1>1, <1>2, StampTellsGrants
<1>4. DutiesAreSeparate(a)
  BY <1>1, SomebodyHasOneDuty DEF Somebody
<1>5. a.channel = "cookie" /\ a.fair = TRUE /\ a.on = jar /\ a.slot = jar.slot
  BY DEF Somebody
<1> QED
  BY <1>3, <1>4, <1>5 DEF Sound, KeyIsAlive, CookieIsOfToday

LEMMA BearerIsSound == \A a \in ByBearer : Sound(a)
<1>1. Sound(Unidentified)
  BY NobodyHasNoDuty DEF Sound, Unidentified, KeyIsAlive, CookieIsOfToday
<1>2. ASSUME NEW link, HasSlot(Current, link) PROVE Sound(Somebody(Current, SlotOf(Current, link), "bearer", link))
  <2> DEFINE a == Somebody(Current, SlotOf(Current, link), "bearer", link)
  <2>1. DutiesAreSeparate(a)
    BY <1>2, SlotOfLink, SomebodyHasOneDuty DEF Somebody
  <2>2. a.channel = "bearer" /\ a.fair = TRUE
    BY DEF Somebody
  <2> QED
    BY <2>1, <2>2 DEF Sound, KeyIsAlive, CookieIsOfToday
<1> QED
  BY <1>1, <1>2 DEF ByBearer

\* An assertion checked against keys that are published, or were within a full TTL.
LEMMA AssertionIsSound ==
  ASSUME DoorInv, NEW c, NEW kid, NEW keys, NEW exp,
         \A k \in keys : k \in Published \/ clock - withdrawn[k] < Ttl
  PROVE  LET a == Identify(c, Current, kid, keys, exp)
         IN  /\ Sound([a EXCEPT !.fair = TRUE])
             /\ kid \in keys \/ kid \notin Published => Sound(a)
<1> DEFINE a == Identify(c, Current, kid, keys, exp)
<1>1. CASE kid \in keys /\ Identified(c, Current, exp)
  <2>1. a = Somebody(Current, Current.emails[c], "access", kid) /\ Current.emails[c] \in Configured(Current)
    BY <1>1 DEF Identify, Identified
  <2> DEFINE e == [a EXCEPT !.fair = TRUE]
  <2>2. /\ a.channel = "access" /\ a.fair = TRUE /\ a.on = kid /\ a.scopes = Granted(Current, Current.emails[c])
        /\ e.channel = "access" /\ e.fair = TRUE /\ e.on = kid /\ e.scopes = Granted(Current, Current.emails[c])
    BY <2>1 DEF Somebody
  <2> HIDE DEF a, e
  <2>3. DutiesAreSeparate(a) /\ DutiesAreSeparate(e)
    BY <2>1, <2>2, SomebodyHasOneDuty
  <2>4. Sound(a) /\ Sound(e)
    BY <1>1, <2>2, <2>3 DEF Sound, KeyIsAlive, CookieIsOfToday
  <2> QED
    BY <2>4 DEF a, e
<1>2. CASE ~(kid \in keys /\ Identified(c, Current, exp))
  <2> DEFINE fair == kid \notin Published \/ ~Identified(c, Current, exp)
             e == [a EXCEPT !.fair = TRUE]
  <2>1. a = [channel |-> "none", slot |-> NoOne, scopes |-> {}, on |-> kid, fair |-> fair]
    BY <1>2 DEF Identify, Unidentified
  <2>2. /\ a.channel = "none" /\ a.scopes = {} /\ a.fair = fair
        /\ e.channel = "none" /\ e.scopes = {} /\ e.fair = TRUE
    BY <2>1
  <2> HIDE DEF a, e
  <2>3. Sound(e)
    BY <2>2, NobodyHasNoDuty DEF Sound, KeyIsAlive, CookieIsOfToday
  <2>4. a.fair => Sound(a)
    BY <2>2, NobodyHasNoDuty DEF Sound, KeyIsAlive, CookieIsOfToday
  <2>5. kid \in keys \/ kid \notin Published => a.fair
    BY <1>2, <2>2
  <2> QED
    BY <2>3, <2>4, <2>5 DEF a, e
<1> QED
  BY <1>1, <1>2

\* A warm cache holds no key that was withdrawn a full TTL ago.
LEMMA WarmKeysAreAlive ==
  ASSUME DoorInv, CacheIsWarm
  PROVE  \A k \in cache.keys : k \in Published \/ clock - withdrawn[k] < Ttl
<1> TAKE k \in cache.keys
<1>1. cache # NoOne /\ clock - cache.at < Ttl /\ LivedAt(k, cache.at)
  BY DEF CacheIsWarm, DoorInv, CacheIsFresh
<1>2. cache.at \in Nat /\ clock \in Nat
  BY <1>1 DEF DoorInv, DoorTypeOK, Times
<1> QED
  BY <1>1, <1>2 DEF LivedAt, Times

LEMMA RepliesAreAlive ==
  ASSUME DoorInv, NEW c \in Callers, asks[c] # NoOne
  PROVE  \A k \in asks[c].reply : k \in Published \/ clock - withdrawn[k] < Ttl
<1> TAKE k \in asks[c].reply
<1>1. clock <= asks[c].since + 1 /\ LivedAt(k, asks[c].since)
  BY DEF DoorInv, AsksAreFresh
<1>2. asks[c].since \in Nat /\ clock \in Nat
  BY DEF DoorInv, DoorTypeOK, Times
<1> QED
  BY <1>1, <1>2 DEF LivedAt, Times

LEMMA DoorInvSuffices == DoorInv => DoorIsSound
<1> SUFFICES ASSUME DoorInv PROVE DoorIsSound
  OBVIOUS
<1>1. \A a \in ByCookie \cup ByBearer : Sound(a)
  BY CookieIsSound, BearerIsSound
<1>2. \A a \in ByCache : Sound(a)
  <2> SUFFICES ASSUME NEW c \in Callers, NEW kid, HasKey(kid), NEW exp \in Times
               PROVE  Sound(Identify(c, Current, kid, cache.keys, exp))
    BY DEF ByCache
  <2> QED
    BY WarmKeysAreAlive, AssertionIsSound DEF HasKey
<1>3. ASSUME NEW c \in Callers, asks[c] # NoOne, asks[c].reply # {} PROVE \A a \in BySet(c) : Sound(a)
  <2> SUFFICES ASSUME NEW exp \in Times PROVE Sound(Identify(c, Current, asks[c].kid, asks[c].reply, exp))
    BY DEF BySet
  <2>1. asks[c].kid \in asks[c].reply \/ asks[c].kid < oldest
    BY <1>3 DEF DoorInv, AsksAreFresh
  <2>2. asks[c].kid \in Nat /\ oldest \in Nat
    BY <1>3 DEF DoorInv, DoorTypeOK, Keys
  <2>3. asks[c].kid \in asks[c].reply \/ asks[c].kid \notin Published
    BY <2>1, <2>2 DEF Published
  <2> QED
    BY <1>3, <2>3, RepliesAreAlive, AssertionIsSound
<1>4. ASSUME NEW c \in Callers, asks[c] # NoOne PROVE \A a \in ByLeftKeys(c) : Sound(a)
  <2> SUFFICES ASSUME NEW exp \in Times
               PROVE  Sound([Identify(c, Current, asks[c].kid, LeftKeys(c), exp) EXCEPT !.fair = TRUE])
    BY DEF ByLeftKeys
  <2>1. \A k \in LeftKeys(c) : k \in Published \/ clock - withdrawn[k] < Ttl
    BY WarmKeysAreAlive DEF LeftKeys
  <2> QED
    BY <2>1, AssertionIsSound
<1>5. \A a \in EdgeAnswers : Sound(a)
  <2> SUFFICES ASSUME NEW a \in EdgeAnswers PROVE Sound(a)
    OBVIOUS
  <2>1. \/ a \in ByCookie \/ a \in ByBearer \/ a \in ByCache
        \/ \E c \in Callers : asks[c] # NoOne /\ asks[c].reply # {} /\ a \in BySet(c)
        \/ \E c \in Callers : asks[c] # NoOne /\ a \in ByLeftKeys(c)
    BY DEF EdgeAnswers
  <2> QED
    BY <1>1, <1>2, <1>3, <1>4, <2>1
<1> QED
  BY <1>5 DEF DoorIsSound, Sound

\* However keys rotate, fetches overtake one another and slots are configured: no assertion
\* is accepted on a key withdrawn a full TTL ago or refused on a published one that the key
\* set named, no cookie outlives the grants it was made for, and duties stay apart.
THEOREM DoorHolds == DoorSpec => []DoorIsSound
BY InitDoor, StepKeepsDoor, DoorInvSuffices, PTL DEF DoorSpec

-----------------------------------------------------------------------------
(* Writing in a block.                                                     *)

\* Ids are used as they are minted.
IdsAreMinted ==
    /\ page.id <= minted
    /\ \A m \in sends \cup strays : m.id <= minted
    /\ \A i \in DOMAIN rows : rows[i].id <= minted

\* What is typed is later than what the page said, and an unsent edit is the draft.
TextGrows == page.hash <= page.original /\ page.original <= page.snapshot
DirtyIsTold == page.dirty <=> page.snapshot # page.original
DirtyIsKept ==
    /\ page.dirty <=> kept # NoDraft
    /\ kept # NoDraft => /\ kept.hash = page.hash /\ kept.id = page.id /\ kept.id # 0
                         /\ kept.text = page.snapshot /\ typed = page.snapshot

\* One request at a time, for the id and hash of the page, of something typed in it.
OneSend == \A m, n \in sends : m = n
SendIsOfPage ==
    \A m \in sends :
        /\ page.state = "SAVING" /\ page.dirty /\ m.id = page.id
        /\ page.hash <= m.text /\ m.text <= page.snapshot
        /\ ~m.auto => m.text = page.snapshot

\* What the server has answered is so.
RepliesAreTrue ==
    \A m \in sends :
        /\ m.reply = "ok" => \E i \in DOMAIN rows : rows[i].id = m.id /\ rows[i].text = m.text
        /\ m.reply = "id_conflict" => \E i \in DOMAIN rows : rows[i].id = m.id

\* A request that may still arrive is for an id that was given up, that is stored, or that
\* is the page's unsent edit's.
StraysAreKnown ==
    \A m \in strays : \/ m.id \in givenUp
                      \/ \E i \in DOMAIN rows : rows[i].id = m.id
                      \/ page.dirty /\ m.id = page.id

\* Behind the row of the page's id, and of what was delivered, only what was given up came.
OnlyGivenUpAfter(i) == \A j \in DOMAIN rows : i < j => rows[j].id \in givenUp
PageRowIsNewest == \A i \in DOMAIN rows : rows[i].id = page.id => OnlyGivenUpAfter(i)
DeliveredIsNewest ==
    ~page.dirty /\ typed # NoText => \E i \in DOMAIN rows : rows[i].text = typed /\ OnlyGivenUpAfter(i)

ClientInv ==
    /\ ClientTypeOK /\ IdsAreMinted /\ TextGrows /\ DirtyIsTold /\ DirtyIsKept /\ OneSend /\ SendIsOfPage
    /\ RepliesAreTrue /\ StraysAreKnown /\ PageRowIsNewest /\ DeliveredIsNewest

-----------------------------------------------------------------------------

LEMMA ClientTyped ==
  ASSUME ClientTypeOK
  PROVE  /\ page \in Pages /\ kept \in BlockDrafts \cup {NoDraft} /\ NoDraft \notin BlockDrafts
         /\ sends \subseteq Sends /\ strays \subseteq SentRequests /\ rows \in Seq(SuggestionRow)
         /\ Len(rows) \in Nat /\ DOMAIN rows = 1..Len(rows)
         /\ \A i \in DOMAIN rows : rows[i] \in SuggestionRow /\ rows[i].id \in 1..LastId /\ rows[i].text \in Wordings
         /\ LastId \in Nat /\ LastWording \in Nat /\ LastVersion \in Nat /\ 0 \in Wordings
         /\ NoText \notin Wordings /\ Wordings \subseteq Nat
         /\ minted \in 0..LastId /\ minted \in Nat /\ served \in Wordings /\ version \in 0..LastVersion
         /\ typed \in Wordings \cup {NoText} /\ givenUp \subseteq 1..LastId
         /\ \A p \in Pages : /\ p.hash \in Wordings /\ p.original \in Wordings /\ p.snapshot \in Wordings
                             /\ p.shown \in Wordings /\ p.id \in 0..LastId
                             /\ p.dirty \in BOOLEAN
         /\ \A d \in BlockDrafts : d.hash \in Wordings /\ d.id \in 0..LastId /\ d.text \in Wordings
         /\ \A m \in Sends : /\ m.id \in 1..LastId /\ m.text \in Wordings /\ m.hash \in Wordings
                             /\ m.auto \in BOOLEAN
         /\ \A m \in SentRequests : m.id \in 1..LastId /\ m.text \in Wordings /\ m.hash \in Wordings
<1>1. LastId \in Nat /\ LastWording \in Nat /\ LastVersion \in Nat
  BY EditorAssumption
<1>2. 0 \in Wordings /\ NoText \notin Wordings /\ Wordings \subseteq Nat
  BY <1>1 DEF Wordings, NoText
<1>3. /\ page \in Pages /\ kept \in BlockDrafts \cup {NoDraft}
      /\ sends \subseteq Sends /\ strays \subseteq SentRequests /\ rows \in Seq(SuggestionRow)
      /\ minted \in 0..LastId /\ served \in Wordings /\ version \in 0..LastVersion
      /\ typed \in Wordings \cup {NoText} /\ givenUp \subseteq 1..LastId
  BY DEF ClientTypeOK
<1>4. Len(rows) \in Nat /\ DOMAIN rows = 1..Len(rows) /\ \A i \in DOMAIN rows : rows[i] \in SuggestionRow
  BY <1>3
<1>5. \A r \in SuggestionRow : r.id \in 1..LastId /\ r.text \in Wordings
  BY DEF SuggestionRow
<1>6. \A p \in Pages : /\ p.hash \in Wordings /\ p.original \in Wordings /\ p.snapshot \in Wordings
                       /\ p.shown \in Wordings /\ p.id \in 0..LastId /\ p.dirty \in BOOLEAN
  BY DEF Pages
<1>7. \A d \in BlockDrafts : d.hash \in Wordings /\ d.id \in 0..LastId /\ d.text \in Wordings
  BY DEF BlockDrafts
<1>8. \A m \in Sends : m.id \in 1..LastId /\ m.text \in Wordings /\ m.hash \in Wordings /\ m.auto \in BOOLEAN
  BY DEF Sends
<1>9. \A m \in SentRequests : m.id \in 1..LastId /\ m.text \in Wordings /\ m.hash \in Wordings
  BY DEF SentRequests
<1>10. minted \in Nat
  BY <1>1, <1>3
<1> QED
  BY <1>1, <1>2, <1>3, <1>4, <1>5, <1>6, <1>7, <1>8, <1>9, <1>10, NoDraftAssumption

\* What a step leaves of the page that the invariant looks at.
SamePage(q, p) ==
    /\ q.hash = p.hash /\ q.original = p.original /\ q.snapshot = p.snapshot
    /\ q.state = p.state /\ q.id = p.id /\ q.dirty = p.dirty

\* A poll paints, no more.
LEMMA PaintingKeeps ==
  ASSUME ClientTypeOK, NEW p \in Pages, NEW d
  PROVE  Hydrated(p, d) \in Pages /\ SamePage(Hydrated(p, d), p)
<1>1. CASE Hydratable(p, d)
  <2>1. rows[Len(rows)].text \in Wordings
    BY <1>1, ClientTyped DEF Hydratable, Live
  <2>2. Hydrated(p, d) = [p EXCEPT !.shown = rows[Len(rows)].text, !.hydrated = TRUE]
    BY <1>1 DEF Hydrated
  <2> QED
    BY <2>1, <2>2 DEF Pages, SamePage
<1>2. CASE ~Hydratable(p, d) /\ p.hydrated /\ AtRest(p, d)
  <2>1. Hydrated(p, d) = [p EXCEPT !.shown = p.original, !.hydrated = FALSE]
    BY <1>2 DEF Hydrated
  <2> QED
    BY <2>1 DEF Pages, SamePage
<1>3. CASE ~Hydratable(p, d) /\ ~(p.hydrated /\ AtRest(p, d))
  BY <1>3 DEF Hydrated, SamePage
<1> QED
  BY <1>1, <1>2, <1>3

\* A draft of the page's text comes back as it was.
LEMMA DraftComesBack ==
  ASSUME ClientTypeOK, NEW p \in Pages, kept \in BlockDrafts, kept.hash = p.hash,
         kept.text # p.original, kept.id # 0
  PROVE  /\ Reconciled(p) \in Pages /\ ReconciledDraft(p) = kept
         /\ Reconciled(p).hash = p.hash /\ Reconciled(p).original = p.original
         /\ Reconciled(p).snapshot = kept.text /\ Reconciled(p).id = kept.id
         /\ Reconciled(p).state = p.state /\ Reconciled(p).dirty = TRUE
         /\ ~NeedsId(p)
         /\ Forgets(p) => typed' = typed /\ givenUp' = givenUp
<1>1. kept # NoDraft /\ kept.id \in 0..LastId /\ kept.text \in Wordings
  BY ClientTyped
<1>2. ~DraftIsStale(p) /\ DraftIsValid(p) /\ ~NeedsId(p)
  BY <1>1 DEF DraftIsStale, DraftIsMoot, DraftIsValid, NeedsId
<1>3. Reconciled(p) = [p EXCEPT !.id = kept.id, !.snapshot = kept.text, !.shown = kept.text, !.dirty = TRUE]
  BY <1>2 DEF Reconciled
<1>4. /\ Reconciled(p) \in Pages
      /\ Reconciled(p).hash = p.hash /\ Reconciled(p).original = p.original
      /\ Reconciled(p).snapshot = kept.text /\ Reconciled(p).id = kept.id
      /\ Reconciled(p).state = p.state /\ Reconciled(p).dirty = TRUE
  BY <1>1, <1>3 DEF Pages
<1> QED
  BY <1>2, <1>4 DEF ReconciledDraft, Forgets

LEMMA NothingComesBack ==
  ASSUME kept = NoDraft, NEW p
  PROVE  /\ Reconciled(p) = p /\ ReconciledDraft(p) = NoDraft /\ ~NeedsId(p)
         /\ Forgets(p) => typed' = typed /\ givenUp' = givenUp
BY DEF DraftIsStale, DraftIsMoot, DraftIsValid, NeedsId, Reconciled, ReconciledDraft, Forgets

LEMMA StaleDraftGoes ==
  ASSUME ClientTypeOK, NEW p \in Pages, kept # NoDraft, kept.hash # p.hash
  PROVE  /\ Reconciled(p) \in Pages /\ ReconciledDraft(p) = NoDraft
         /\ Reconciled(p).hash = p.hash /\ Reconciled(p).original = p.original
         /\ Reconciled(p).snapshot = p.original /\ Reconciled(p).id = 0
         /\ Reconciled(p).dirty = FALSE /\ ~NeedsId(p)
         /\ Forgets(p) => typed' = NoText /\ givenUp' = givenUp \cup ({kept.id, p.id} \ {0})
<1>1. DraftIsStale(p) /\ ~DraftIsValid(p) /\ ~NeedsId(p)
  BY DEF DraftIsStale, DraftIsValid, NeedsId
<1>2. 0 \in 0..LastId
  BY ClientTyped
<1>3. Reconciled(p) = [p EXCEPT !.id = 0, !.snapshot = p.original, !.shown = p.original,
                                !.dirty = FALSE, !.state = "IDLE"]
  BY <1>1 DEF Reconciled
<1>4. /\ Reconciled(p) \in Pages
      /\ Reconciled(p).hash = p.hash /\ Reconciled(p).original = p.original
      /\ Reconciled(p).snapshot = p.original /\ Reconciled(p).id = 0
      /\ Reconciled(p).dirty = FALSE
  BY <1>2, <1>3 DEF Pages
<1> QED
  BY <1>1, <1>4 DEF ReconciledDraft, Forgets

-----------------------------------------------------------------------------
(* The steps.                                                              *)

LEMMA InitClient == ClientInit => ClientInv
<1> SUFFICES ASSUME ClientInit PROVE ClientInv
  OBVIOUS
<1>1. /\ page = FreshPage(0) /\ kept = NoDraft /\ sends = {} /\ strays = {} /\ rows = <<>>
      /\ minted = 0 /\ typed = NoText /\ givenUp = {} /\ served = 0 /\ version = 0
  BY DEF ClientInit
<1>2. /\ LastId \in Nat /\ LastWording \in Nat /\ LastVersion \in Nat
  BY EditorAssumption
<1>3. page \in Pages /\ page.id = 0 /\ page.hash = 0 /\ page.original = 0 /\ page.snapshot = 0 /\ page.dirty = FALSE
  BY <1>1, <1>2 DEF FreshPage, Pages, Wordings
<1>4. ClientTypeOK
  <2>1. rows \in Seq(SuggestionRow)
    BY <1>1
  <2> QED
    BY <1>1, <1>2, <1>3, <2>1 DEF ClientTypeOK, Wordings
<1>5. IdsAreMinted /\ TextGrows /\ DirtyIsTold /\ DirtyIsKept
  BY <1>1, <1>3 DEF IdsAreMinted, TextGrows, DirtyIsTold, DirtyIsKept
<1>6. OneSend /\ SendIsOfPage /\ RepliesAreTrue /\ StraysAreKnown /\ PageRowIsNewest /\ DeliveredIsNewest
  BY <1>1 DEF OneSend, SendIsOfPage, RepliesAreTrue, StraysAreKnown, PageRowIsNewest, DeliveredIsNewest
<1> QED
  BY <1>4, <1>5, <1>6 DEF ClientInv

\* What the wire and the store are left alone by.
LEMMA LookingKeeps ==
  ASSUME ClientInv, page' \in Pages, SamePage(page', page), served' \in Wordings, version' \in 0..LastVersion,
         UNCHANGED <<kept, sends, strays, rows, minted, typed, givenUp>>
  PROVE  ClientInv'
<1>1. ClientTypeOK'
  BY DEF ClientInv, ClientTypeOK
<1>2. IdsAreMinted' /\ TextGrows' /\ DirtyIsTold' /\ DirtyIsKept'
  BY DEF ClientInv, IdsAreMinted, TextGrows, DirtyIsTold, DirtyIsKept, SamePage
<1>3. OneSend' /\ SendIsOfPage' /\ RepliesAreTrue'
  BY DEF ClientInv, OneSend, SendIsOfPage, RepliesAreTrue, SamePage
<1>4. StraysAreKnown' /\ PageRowIsNewest' /\ DeliveredIsNewest'
  BY DEF ClientInv, StraysAreKnown, PageRowIsNewest, DeliveredIsNewest, OnlyGivenUpAfter, SamePage
<1> QED
  BY <1>1, <1>2, <1>3, <1>4 DEF ClientInv

\* The page keeps its edit, or takes an id nobody used: no handler waits any more, and what
\* was sent may still arrive.
LEMMA MovingOnKeeps ==
  ASSUME ClientInv, page' \in Pages,
         page'.hash = page.hash, page'.original = page.original, page'.snapshot = page.snapshot,
         page'.dirty = page.dirty,
         \/ page'.id = page.id /\ minted' = minted
         \/ ~page.dirty /\ page'.id = minted + 1 /\ minted' = minted + 1 /\ minted < LastId,
         sends' = {}, strays' \subseteq SentRequests,
         \A m \in strays' : m \in strays \/ (page.dirty /\ m.id = page.id),
         UNCHANGED <<kept, rows, served, version, typed, givenUp>>
  PROVE  ClientInv'
<1>1. ClientTypeOK /\ minted \in 0..LastId /\ minted \in Nat /\ LastId \in Nat
  BY ClientTyped DEF ClientInv
<1>2. minted' \in 0..LastId /\ minted <= minted' /\ page'.id <= minted'
  BY <1>1 DEF ClientInv, IdsAreMinted
<1>3. ClientTypeOK'
  BY <1>1, <1>2 DEF ClientTypeOK
<1>4. page.id <= minted /\ \A m \in strays' : m.id <= minted
  BY DEF ClientInv, IdsAreMinted
<1>5. IdsAreMinted'
  <2>1. \A m \in strays' : m.id \in Int
    BY <1>1 DEF SentRequests
  <2>2. \A k \in DOMAIN rows : rows[k].id \in Int /\ rows[k].id <= minted
    BY <1>1, ClientTyped DEF ClientInv, IdsAreMinted
  <2> QED
    BY <1>1, <1>2, <1>4, <2>1, <2>2 DEF IdsAreMinted
<1>6. TextGrows' /\ DirtyIsTold'
  BY DEF ClientInv, TextGrows, DirtyIsTold
<1>7. DirtyIsKept'
  BY DEF ClientInv, DirtyIsKept
<1>8. OneSend' /\ SendIsOfPage' /\ RepliesAreTrue'
  BY DEF OneSend, SendIsOfPage, RepliesAreTrue
<1>9. StraysAreKnown'
  BY DEF ClientInv, StraysAreKnown
<1>10. PageRowIsNewest'
  <2>1. \A k \in DOMAIN rows : rows[k].id # minted + 1
    BY <1>1, ClientTyped DEF ClientInv, IdsAreMinted
  <2> QED
    BY <2>1 DEF ClientInv, PageRowIsNewest, OnlyGivenUpAfter
<1>11. DeliveredIsNewest'
  BY DEF ClientInv, DeliveredIsNewest, OnlyGivenUpAfter
<1> QED
  BY <1>3, <1>5, <1>6, <1>7, <1>8, <1>9, <1>10, <1>11 DEF ClientInv

\* The edit is given up, and the editor knows.
LEMMA GivingUpKeeps ==
  ASSUME ClientInv, page' \in Pages, page'.hash <= page'.original, page'.snapshot = page'.original,
         page'.dirty = FALSE, page'.id = 0, kept' = NoDraft, typed' = NoText,
         givenUp \subseteq givenUp', givenUp' \subseteq 1..LastId, page.dirty => page.id \in givenUp',
         sends' = {}, strays' \subseteq SentRequests,
         \A m \in strays' : m \in strays \/ (page.dirty /\ m.id = page.id),
         UNCHANGED <<rows, served, version, minted>>
  PROVE  ClientInv'
<1>1. ClientTypeOK /\ minted \in Nat
  BY ClientTyped DEF ClientInv
<1>2. ClientTypeOK'
  BY <1>1 DEF ClientTypeOK
<1>3. IdsAreMinted'
  BY <1>1 DEF ClientInv, IdsAreMinted
<1>4. TextGrows' /\ DirtyIsTold' /\ DirtyIsKept'
  <2>1. page'.original <= page'.original
    BY DEF Pages, Wordings
  <2> QED
    BY <2>1 DEF TextGrows, DirtyIsTold, DirtyIsKept
<1>5. OneSend' /\ SendIsOfPage' /\ RepliesAreTrue'
  BY DEF OneSend, SendIsOfPage, RepliesAreTrue
<1>6. StraysAreKnown'
  BY DEF ClientInv, StraysAreKnown
<1>7. PageRowIsNewest' /\ DeliveredIsNewest'
  <2>1. \A k \in DOMAIN rows : rows[k].id # 0
    BY <1>1, ClientTyped
  <2> QED
    BY <2>1 DEF PageRowIsNewest, DeliveredIsNewest
<1> QED
  BY <1>2, <1>3, <1>4, <1>5, <1>6, <1>7 DEF ClientInv

\* The ids given up are ids.
LEMMA GivenUpAreIds ==
  ASSUME NEW given \in SUBSET (1..LastId), NEW a \in 0..LastId, NEW b \in 0..LastId
  PROVE  /\ given \cup ({a, b} \ {0}) \in SUBSET (1..LastId)
         /\ a # 0 => a \in given \cup ({a, b} \ {0})
<1>1. \A x \in 0..LastId : x # 0 => x \in 1..LastId
  BY EditorAssumption
<1> QED
  BY <1>1

\* An unsent edit has its id and its draft.
LEMMA DirtyHasDraft ==
  ASSUME ClientInv, page.dirty
  PROVE  /\ kept # NoDraft /\ kept \in BlockDrafts /\ kept = DraftOf(page) /\ page.id # 0
         /\ typed = page.snapshot /\ kept.hash = page.hash /\ kept.id = page.id
         /\ kept.text = page.snapshot /\ page.snapshot # page.original
<1>1. /\ kept # NoDraft /\ page.id # 0 /\ typed = page.snapshot /\ page.snapshot # page.original
      /\ kept.hash = page.hash /\ kept.id = page.id /\ kept.text = page.snapshot
  BY DEF ClientInv, DirtyIsKept, DirtyIsTold
<1>2. kept \in BlockDrafts
  BY <1>1, ClientTyped DEF ClientInv
<1>3. kept = DraftOf(page)
  BY <1>1, <1>2 DEF DraftOf, BlockDrafts
<1> QED
  BY <1>1, <1>2, <1>3

LEMMA SendingKeeps ==
  ASSUME ClientInv, NEW p \in Pages, SamePage(p, page), NEW auto \in BOOLEAN, SendFrom(p, auto)
  PROVE  ClientInv'
<1> DEFINE m == [id |-> p.id, text |-> p.snapshot, hash |-> p.hash, auto |-> auto, reply |-> "none"]
<1>1. ClientTypeOK /\ page \in Pages
  BY ClientTyped DEF ClientInv
<1>2. p.dirty /\ p.state # "SAVING" /\ page.dirty /\ page.state # "SAVING"
  BY DEF SendFrom, SamePage
<1>3. p.id # 0 /\ p.id \in 1..LastId /\ p.snapshot \in Wordings /\ p.hash \in Wordings
  BY <1>1, <1>2, DirtyHasDraft, ClientTyped DEF SamePage
<1>4. WithId(p) = p /\ Minted(p) = minted
  BY <1>3 DEF WithId, Minted
<1>5. sends = {}
  BY <1>2 DEF ClientInv, SendIsOfPage
<1>6. /\ page' = [p EXCEPT !.state = "SAVING", !.debounce = FALSE] /\ minted' = minted
      /\ sends' = {m} /\ UNCHANGED <<kept, strays, rows, served, version, typed, givenUp>>
  BY <1>4, <1>5 DEF SendFrom
<1>7. /\ page' \in Pages /\ page'.hash = page.hash /\ page'.original = page.original
      /\ page'.snapshot = page.snapshot /\ page'.id = page.id /\ page'.dirty = page.dirty
      /\ page'.state = "SAVING"
  BY <1>6 DEF Pages, SamePage
<1>8. m \in Sends /\ m.id = page.id /\ m.text = page.snapshot /\ m.reply = "none"
  BY <1>3 DEF Sends, SamePage
<1> HIDE DEF m
<1>9. ClientTypeOK'
  BY <1>1, <1>6, <1>7, <1>8 DEF ClientTypeOK
<1>10. IdsAreMinted'
  BY <1>6, <1>7, <1>8 DEF ClientInv, IdsAreMinted
<1>11. TextGrows' /\ DirtyIsTold' /\ DirtyIsKept'
  BY <1>6, <1>7 DEF ClientInv, TextGrows, DirtyIsTold, DirtyIsKept
<1>12. OneSend' /\ RepliesAreTrue'
  BY <1>6, <1>8 DEF OneSend, RepliesAreTrue
<1>13. SendIsOfPage'
  <2>1. page.hash <= page.snapshot /\ page.snapshot <= page.snapshot
    BY <1>1, ClientTyped DEF ClientInv, TextGrows
  <2> QED
    BY <1>2, <1>6, <1>7, <1>8, <2>1 DEF SendIsOfPage
<1>14. StraysAreKnown' /\ PageRowIsNewest' /\ DeliveredIsNewest'
  BY <1>6, <1>7 DEF ClientInv, StraysAreKnown, PageRowIsNewest, DeliveredIsNewest, OnlyGivenUpAfter
<1> QED
  BY <1>9, <1>10, <1>11, <1>12, <1>13, <1>14 DEF ClientInv

\* The timers and buttons that send, or find nothing to send.
LEMMA TimersKeep ==
  ASSUME ClientInv, AutoSave \/ Retry \/ Done \/ RefreshAndSend
  PROVE  ClientInv'
<1>1. ClientTypeOK /\ page \in Pages /\ served \in Wordings /\ version \in 0..LastVersion
  BY ClientTyped DEF ClientInv
<1>2. ASSUME NEW p \in Pages, SamePage(p, page), page' = p,
             UNCHANGED <<kept, sends, strays, rows, served, version, minted, typed, givenUp>>
      PROVE  ClientInv'
  BY <1>1, <1>2, LookingKeeps
<1>3. CASE AutoSave
  <2> DEFINE p == [page EXCEPT !.debounce = FALSE]
  <2>1. p \in Pages /\ SamePage(p, page)
    BY <1>1 DEF Pages, SamePage
  <2>2. SendFrom(p, TRUE) \/ (page' = p /\ UNCHANGED <<kept, sends, strays, rows, served, version, minted, typed, givenUp>>)
    BY <1>3 DEF AutoSave
  <2> QED
    BY <1>2, <2>1, <2>2, SendingKeeps
<1>4. CASE Retry
  <2> DEFINE p == [page EXCEPT !.retry = FALSE]
  <2>1. p \in Pages /\ SamePage(p, page)
    BY <1>1 DEF Pages, SamePage
  <2>2. SendFrom(p, TRUE) \/ (page' = p /\ UNCHANGED <<kept, sends, strays, rows, served, version, minted, typed, givenUp>>)
    BY <1>4 DEF Retry
  <2> QED
    BY <1>2, <2>1, <2>2, SendingKeeps
<1>5. CASE Done
  <2> DEFINE p == [page EXCEPT !.editable = FALSE]
             q == IF p.dirty THEN [p EXCEPT !.debounce = FALSE, !.retry = FALSE] ELSE p
  <2>1. p \in Pages /\ SamePage(p, page)
    BY <1>1 DEF Pages, SamePage
  <2>2. q \in Pages /\ SamePage(q, page)
    BY <2>1 DEF Pages, SamePage
  <2>3. SendFrom(q, FALSE) \/ (page' = q /\ UNCHANGED <<kept, sends, strays, rows, served, version, minted, typed, givenUp>>)
    BY <1>5 DEF Done
  <2> HIDE DEF q
  <2> QED
    BY <1>2, <2>2, <2>3, SendingKeeps
<1>6. CASE RefreshAndSend
  <2> DEFINE p == [page EXCEPT !.reauth = FALSE]
  <2>1. p \in Pages /\ SamePage(p, page)
    BY <1>1 DEF Pages, SamePage
  <2> QED
    BY <1>6, <2>1, SendingKeeps DEF RefreshAndSend
<1> QED
  BY <1>3, <1>4, <1>5, <1>6

-----------------------------------------------------------------------------
(* What the editor does in the block.                                      *)

LEMMA EditKeeps == ASSUME ClientInv, Edit PROVE ClientInv'
<1>1. ClientTypeOK /\ page \in Pages /\ minted \in Nat /\ LastId \in Nat /\ minted \in 0..LastId
  BY ClientTyped DEF ClientInv
<1>2. CASE page.state # "IDLE"
  <2>1. page' = [page EXCEPT !.editable = TRUE] /\ UNCHANGED <<kept, sends, strays, rows, served, version, minted, typed, givenUp>>
    BY <1>2 DEF Edit
  <2>2. page' \in Pages /\ SamePage(page', page) /\ served' \in Wordings /\ version' \in 0..LastVersion
    BY <1>1, <2>1, ClientTyped DEF Pages, SamePage
  <2> QED
    BY <2>1, <2>2, LookingKeeps
<1>3. CASE page.state = "IDLE"
  <2> DEFINE p == [WithId(page) EXCEPT !.state = "EDITING", !.editable = TRUE, !.reauth = FALSE]
  <2>1. /\ MintFor(page) /\ page' = Reconciled(p) /\ kept' = ReconciledDraft(p)
        /\ minted' = Minted(page) /\ Forgets(p) /\ UNCHANGED <<sends, strays, rows, served, version>>
    BY <1>3 DEF Edit
  <2>2. sends = {}
    BY <1>3 DEF ClientInv, SendIsOfPage
  <2>3. WithId(page) \in Pages
    BY <1>1, <2>1 DEF WithId, MintFor, Pages
  <2>4. /\ p \in Pages /\ p.hash = page.hash /\ p.original = page.original /\ p.snapshot = page.snapshot
        /\ p.dirty = page.dirty
        /\ \/ p.id = page.id /\ page.id # 0
           \/ page.id = 0 /\ p.id = minted + 1
    <3>1. p \in Pages /\ p.id = WithId(page).id /\ p.hash = WithId(page).hash /\ p.original = WithId(page).original
          /\ p.snapshot = WithId(page).snapshot /\ p.dirty = WithId(page).dirty
      BY <2>3 DEF Pages
    <3>2. WithId(page).hash = page.hash /\ WithId(page).original = page.original
          /\ WithId(page).snapshot = page.snapshot /\ WithId(page).dirty = page.dirty
      BY <1>1 DEF WithId, Pages
    <3>3. (page.id # 0 /\ WithId(page).id = page.id) \/ (page.id = 0 /\ WithId(page).id = minted + 1)
      BY <1>1 DEF WithId, Pages
    <3> QED
      BY <3>1, <3>2, <3>3
  <2>5. (page.id # 0 /\ minted' = minted) \/ (page.id = 0 /\ minted' = minted + 1 /\ minted < LastId)
    BY <2>1 DEF Minted, MintFor
  <2> HIDE DEF p
  <2>6. /\ page' \in Pages /\ page'.hash = p.hash /\ page'.original = p.original
        /\ page'.snapshot = p.snapshot /\ page'.dirty = p.dirty /\ page'.id = p.id
        /\ UNCHANGED <<kept, typed, givenUp>>
    <3>1. CASE page.dirty
      <4>1. /\ kept \in BlockDrafts /\ kept.hash = p.hash /\ kept.text # p.original /\ kept.id # 0
            /\ kept.text = p.snapshot /\ kept.id = p.id
        BY <2>4, <3>1, DirtyHasDraft
      <4> QED
        BY <1>1, <2>1, <2>4, <3>1, <4>1, DraftComesBack
    <3>2. CASE ~page.dirty
      <4>1. kept = NoDraft
        BY <3>2 DEF ClientInv, DirtyIsKept
      <4> QED
        BY <2>1, <2>4, <4>1, NothingComesBack
    <3> QED
      BY <3>1, <3>2
  <2>7. page.dirty => page.id # 0
    BY DirtyHasDraft
  <2>8. strays' \subseteq SentRequests /\ \A m \in strays' : m \in strays
    BY <1>1, <2>1, ClientTyped
  <2> QED
    BY <2>1, <2>2, <2>4, <2>5, <2>6, <2>7, <2>8, MovingOnKeeps
<1> QED
  BY <1>2, <1>3

LEMMA BlurKeeps == ASSUME ClientInv, Blur PROVE ClientInv'
BY DirtyHasDraft DEF Blur

LEMMA TypeKeeps ==
  ASSUME ClientInv, NEW w \in Wordings, Type(w), ~MayRetype, ~MayTypeWhileSaving
  PROVE  ClientInv'
<1> DEFINE p == WithId(page)
<1>1. ClientTypeOK /\ page \in Pages /\ minted \in Nat /\ LastId \in Nat /\ minted \in 0..LastId
  BY ClientTyped DEF ClientInv
<1>2. /\ MintFor(page) /\ minted' = Minted(page) /\ page.state # "IDLE"
      /\ page' = [p EXCEPT !.snapshot = w, !.shown = w, !.dirty = (w # p.original), !.debounce = (w # p.original)]
      /\ kept' = DraftOf(page') /\ typed' = w
      /\ UNCHANGED <<sends, strays, rows, served, version, givenUp>>
  BY DEF Type, Typing
<1>3. w > page.snapshot /\ \A m \in sends : m.auto /\ w > m.text
  BY <1>1, ClientTyped DEF Type, MayType, Fresh, ExplicitUnderWay
<1>4. (page.id # 0 /\ minted' = minted) \/ (page.id = 0 /\ minted' = minted + 1 /\ minted < LastId)
  BY <1>2 DEF Minted, MintFor
<1>5. /\ p \in Pages /\ p.hash = page.hash /\ p.original = page.original /\ p.state = page.state
      /\ (page.id # 0 /\ p.id = page.id) \/ (page.id = 0 /\ p.id = minted + 1)
  BY <1>1, <1>2 DEF WithId, MintFor, Pages
<1> HIDE DEF p
<1>6. page.hash <= page.original /\ page.original <= page.snapshot /\ w # page.original
      /\ page.hash <= w /\ page.original <= w
  BY <1>1, <1>3, ClientTyped DEF ClientInv, TextGrows
<1>7. page' \in Pages
  <2>1. (w # p.original) \in BOOLEAN
    OBVIOUS
  <2> QED
    BY <1>2, <1>5, <2>1 DEF Pages
<1>8. /\ page'.hash = page.hash /\ page'.original = page.original /\ page'.state = page.state
      /\ page'.snapshot = w /\ page'.id = p.id
  BY <1>2, <1>5 DEF Pages
<1>9. page'.dirty = TRUE
  BY <1>2, <1>5, <1>6 DEF Pages
<1>10. page'.id # 0 /\ minted' \in 0..LastId /\ minted <= minted' /\ page'.id <= minted'
  BY <1>1, <1>4, <1>5, <1>8, ClientTyped DEF ClientInv, IdsAreMinted
<1>11. kept' \in BlockDrafts /\ kept'.hash = page'.hash /\ kept'.id = page'.id /\ kept'.text = page'.snapshot
  BY <1>2, <1>7 DEF DraftOf, BlockDrafts, Pages
<1>12. ClientTypeOK'
  BY <1>1, <1>2, <1>7, <1>10, <1>11 DEF ClientTypeOK
<1>13. IdsAreMinted'
  <2>1. /\ \A m \in sends \cup strays : m.id \in Int /\ m.id <= minted
        /\ \A k \in DOMAIN rows : rows[k].id \in Int /\ rows[k].id <= minted
    <3>1. sends \subseteq Sends /\ strays \subseteq SentRequests
      BY <1>1, ClientTyped
    <3> QED
      BY <1>1, <3>1, ClientTyped DEF ClientInv, IdsAreMinted
  <2>2. minted' \in Int
    BY <1>10
  <2> QED
    BY <1>1, <1>2, <1>10, <2>1, <2>2 DEF IdsAreMinted
<1>14. TextGrows' /\ DirtyIsTold' /\ DirtyIsKept'
  <2>1. kept' # NoDraft
    BY <1>11, NoDraftAssumption
  <2> QED
    BY <1>2, <1>6, <1>8, <1>9, <1>10, <1>11, <2>1 DEF TextGrows, DirtyIsTold, DirtyIsKept
<1>15. OneSend' /\ RepliesAreTrue'
  BY <1>2 DEF ClientInv, OneSend, RepliesAreTrue
<1>16. page.dirty => page'.id = page.id
  BY <1>5, <1>8, DirtyHasDraft
<1>17. SendIsOfPage'
  <2> SUFFICES ASSUME NEW m \in sends
               PROVE  /\ page'.state = "SAVING" /\ page'.dirty /\ m.id = page'.id
                      /\ page'.hash <= m.text /\ m.text <= page'.snapshot
                      /\ ~m.auto => m.text = page'.snapshot
    BY <1>2 DEF SendIsOfPage
  <2>1. page.state = "SAVING" /\ page.dirty /\ m.id = page.id /\ page.hash <= m.text /\ m.text \in Wordings
    BY <1>1, ClientTyped DEF ClientInv, SendIsOfPage
  <2>2. m.auto /\ m.text <= w
    BY <1>1, <1>3, <2>1, ClientTyped
  <2> QED
    BY <1>8, <1>9, <1>16, <2>1, <2>2
<1>18. StraysAreKnown'
  BY <1>2, <1>9, <1>16 DEF ClientInv, StraysAreKnown
<1>19. PageRowIsNewest'
  <2>1. \A k \in DOMAIN rows : rows[k].id # minted + 1
    BY <1>1, ClientTyped DEF ClientInv, IdsAreMinted
  <2> QED
    BY <1>2, <1>5, <1>8, <2>1 DEF ClientInv, PageRowIsNewest, OnlyGivenUpAfter
<1>20. DeliveredIsNewest'
  BY <1>9 DEF DeliveredIsNewest
<1> QED
  BY <1>12, <1>13, <1>14, <1>15, <1>17, <1>18, <1>19, <1>20 DEF ClientInv

LEMMA UndoKeeps == ASSUME ClientInv, Undo PROVE ClientInv'
<1> DEFINE p == [page EXCEPT !.state = "IDLE", !.snapshot = page.original, !.shown = page.original,
                           !.editable = FALSE, !.dirty = FALSE, !.id = 0, !.reauth = FALSE, !.hydrated = FALSE,
                           !.debounce = FALSE, !.retry = FALSE]
<1>1. ClientTypeOK /\ page \in Pages /\ 0 \in 0..LastId
  BY ClientTyped DEF ClientInv
<1>2. /\ p \in Pages /\ p.hash = page.hash /\ p.original = page.original /\ p.snapshot = page.original
      /\ p.dirty = FALSE /\ p.id = 0
  BY <1>1 DEF Pages
<1> HIDE DEF p
<1>3. /\ page' = Hydrated(p, NoDraft) /\ kept' = NoDraft /\ typed' = NoText
      /\ givenUp' = givenUp \cup ({page.id} \ {0}) /\ page.state = "EDITING"
      /\ UNCHANGED <<sends, strays, rows, served, version, minted>>
  BY DEF Undo, p
<1>4. page' \in Pages /\ SamePage(page', p)
  BY <1>1, <1>2, <1>3, PaintingKeeps
<1>5. sends' = {}
  BY <1>3 DEF ClientInv, SendIsOfPage
<1>6. page.id \in 0..LastId /\ givenUp \subseteq 1..LastId /\ LastId \in Nat
  BY <1>1, ClientTyped
<1>7. givenUp \subseteq givenUp' /\ givenUp' \subseteq 1..LastId /\ (page.dirty => page.id \in givenUp')
  <2>1. page.dirty => page.id # 0
    BY DirtyHasDraft
  <2>2. givenUp' = givenUp \cup ({page.id, page.id} \ {0})
    BY <1>3
  <2> QED
    BY <1>6, <2>1, <2>2, GivenUpAreIds
<1>8. strays' \subseteq SentRequests /\ \A m \in strays' : m \in strays
  BY <1>1, <1>3, ClientTyped
<1>9. /\ page'.hash <= page'.original /\ page'.snapshot = page'.original
      /\ page'.dirty = FALSE /\ page'.id = 0
  BY <1>2, <1>4 DEF SamePage, ClientInv, TextGrows
<1> QED
  BY <1>3, <1>4, <1>5, <1>7, <1>8, <1>9, GivingUpKeeps

-----------------------------------------------------------------------------
(* The server.                                                             *)

\* What a request that arrives does to the store.
LEMMA Storing ==
  ASSUME ClientTypeOK, NEW m, m.id \in 1..LastId, m.text \in Wordings, Stores(m)
  PROVE  /\ rows' \in Seq(SuggestionRow) /\ DOMAIN rows \subseteq DOMAIN rows'
         /\ \A i \in DOMAIN rows : rows'[i] = rows[i]
         /\ \A j \in DOMAIN rows' \ DOMAIN rows :
               /\ rows'[j].id = m.id /\ rows'[j].text = m.text /\ RowOf(m) = {}
               /\ \A k \in DOMAIN rows' : k <= j
         /\ ReplyTo(m) = "ok" => \E i \in DOMAIN rows' : rows'[i].id = m.id /\ rows'[i].text = m.text
         /\ ReplyTo(m) = "id_conflict" => \E i \in DOMAIN rows' : rows'[i].id = m.id
<1> DEFINE r == [id |-> m.id, text |-> m.text, base |-> served, applied |-> FALSE]
<1>1. rows \in Seq(SuggestionRow) /\ served \in Wordings /\ Len(rows) \in Nat /\ DOMAIN rows = 1..Len(rows)
  BY ClientTyped
<1>2. CASE ReplyTo(m) = "ok" /\ RowOf(m) = {}
  <2>1. rows' = Append(rows, r)
    BY <1>2 DEF Stores
  <2>2. r \in SuggestionRow /\ r.id = m.id /\ r.text = m.text
    BY <1>1 DEF SuggestionRow
  <2> HIDE DEF r
  <2>3. rows' \in Seq(SuggestionRow) /\ DOMAIN rows' = 1..(Len(rows) + 1) /\ rows'[Len(rows) + 1] = r
        /\ \A i \in DOMAIN rows : rows'[i] = rows[i]
    BY <1>1, <2>1, <2>2
  <2>4. \A j \in DOMAIN rows' \ DOMAIN rows : j = Len(rows) + 1
    BY <1>1, <2>3
  <2> QED
    BY <1>1, <1>2, <2>2, <2>3, <2>4
<1>3. CASE ~(ReplyTo(m) = "ok" /\ RowOf(m) = {})
  <2>1. rows' = rows
    BY <1>3 DEF Stores
  <2>2. ReplyTo(m) = "ok" => \E i \in DOMAIN rows : rows[i].id = m.id /\ rows[i].text = m.text
    BY <1>3 DEF ReplyTo, RowOf
  <2>3. ReplyTo(m) = "id_conflict" => \E i \in DOMAIN rows : rows[i].id = m.id
    BY DEF ReplyTo, RowOf
  <2> QED
    BY <1>1, <2>1, <2>2, <2>3
<1> QED
  BY <1>2, <1>3

\* A request that is the page's, or one of a stray's ids, may be stored at any time.
LEMMA StoringKeeps ==
  ASSUME ClientInv, NEW m, m.id \in 1..LastId, m.text \in Wordings, m.id <= minted,
         Stores(m) \/ rows' = rows,
         \/ m.id \in givenUp \/ \E i \in DOMAIN rows : rows[i].id = m.id
         \/ page.dirty /\ m.id = page.id,
         UNCHANGED <<page, typed, givenUp, minted>>
  PROVE  /\ \A i \in DOMAIN rows' : rows'[i].id <= minted
         /\ PageRowIsNewest' /\ DeliveredIsNewest'
         /\ DOMAIN rows \subseteq DOMAIN rows' /\ \A i \in DOMAIN rows : rows'[i] = rows[i]
<1>1. ClientTypeOK
  BY DEF ClientInv
<1>2. /\ DOMAIN rows \subseteq DOMAIN rows' /\ \A i \in DOMAIN rows : rows'[i] = rows[i]
      /\ \A j \in DOMAIN rows' \ DOMAIN rows :
               /\ rows'[j].id = m.id /\ rows'[j].text = m.text /\ RowOf(m) = {}
               /\ \A k \in DOMAIN rows' : k <= j
      /\ DOMAIN rows' \subseteq Int
  <2>1. CASE Stores(m)
    <3>1. rows' \in Seq(SuggestionRow)
      BY <1>1, <2>1, Storing
    <3>2. DOMAIN rows' = 1..Len(rows')
      BY <3>1
    <3> QED
      BY <1>1, <2>1, <3>2, Storing
  <2>2. CASE rows' = rows
    BY <1>1, <2>2, ClientTyped
  <2> QED
    BY <2>1, <2>2
<1>3. \A i \in DOMAIN rows' : rows'[i].id <= minted
  BY <1>2 DEF ClientInv, IdsAreMinted
<1>4. PageRowIsNewest'
  <2> SUFFICES ASSUME NEW i \in DOMAIN rows', rows'[i].id = page.id, NEW j \in DOMAIN rows', i < j
               PROVE  rows'[j].id \in givenUp
    BY DEF PageRowIsNewest, OnlyGivenUpAfter
  <2>1. i \in DOMAIN rows
    BY <1>2
  <2>2. CASE j \in DOMAIN rows
    BY <1>2, <2>1, <2>2 DEF ClientInv, PageRowIsNewest, OnlyGivenUpAfter
  <2>3. CASE j \notin DOMAIN rows
    <3>1. rows'[j].id = m.id /\ RowOf(m) = {}
      BY <1>2, <2>3
    <3>2. m.id # page.id /\ \A k \in DOMAIN rows : rows[k].id # m.id
      BY <1>2, <2>1, <3>1 DEF RowOf
    <3> QED
      BY <3>1, <3>2
  <2> QED
    BY <2>2, <2>3
<1>5. DeliveredIsNewest'
  <2> SUFFICES ASSUME ~page.dirty, typed # NoText
               PROVE  \E i \in DOMAIN rows' : rows'[i].text = typed /\ \A j \in DOMAIN rows' : i < j => rows'[j].id \in givenUp
    BY DEF DeliveredIsNewest, OnlyGivenUpAfter
  <2>1. PICK i \in DOMAIN rows : rows[i].text = typed /\ \A j \in DOMAIN rows : i < j => rows[j].id \in givenUp
    BY DEF ClientInv, DeliveredIsNewest, OnlyGivenUpAfter
  <2>2. \A j \in DOMAIN rows' \ DOMAIN rows : rows'[j].id \in givenUp
    BY <1>2 DEF RowOf
  <2> QED
    BY <1>2, <2>1, <2>2
<1> QED
  BY <1>2, <1>3, <1>4, <1>5

LEMMA ServeKeeps == ASSUME ClientInv, NEW m \in sends, Serve(m) PROVE ClientInv'
<1>1. ClientTypeOK /\ m \in Sends
  BY ClientTyped DEF ClientInv
<1>2. m.id \in 1..LastId /\ m.text \in Wordings /\ m.id <= minted /\ page.dirty /\ m.id = page.id
  BY <1>1, ClientTyped DEF ClientInv, SendIsOfPage, IdsAreMinted
<1>3. UNCHANGED <<page, kept, strays, served, version, minted, typed, givenUp>>
  BY DEF Serve
<1>4. PICK answer \in Replies :
        /\ sends' = (sends \ {m}) \cup {[m EXCEPT !.reply = answer]}
        /\ \/ answer = ReplyTo(m) /\ Stores(m)
           \/ answer \in {"no_edit_auth", "validation_error", "ceiling"} /\ rows' = rows
  BY DEF Serve, Replies, ReplyTo
<1> DEFINE n == [m EXCEPT !.reply = answer]
<1>5. /\ n \in Sends /\ n.id = m.id /\ n.text = m.text /\ n.auto = m.auto /\ n.reply = answer
  BY <1>1 DEF Sends
<1>6. sends' = {n}
  BY <1>4 DEF ClientInv, OneSend
<1> HIDE DEF n
<1>7. /\ \A i \in DOMAIN rows' : rows'[i].id <= minted
      /\ PageRowIsNewest' /\ DeliveredIsNewest'
      /\ DOMAIN rows \subseteq DOMAIN rows' /\ \A i \in DOMAIN rows : rows'[i] = rows[i]
  BY <1>2, <1>3, <1>4, StoringKeeps
<1>8. rows' \in Seq(SuggestionRow)
  BY <1>1, <1>2, <1>4, Storing, ClientTyped
<1>9. ClientTypeOK'
  BY <1>1, <1>3, <1>5, <1>6, <1>8 DEF ClientTypeOK
<1>10. IdsAreMinted'
  BY <1>2, <1>3, <1>5, <1>6, <1>7 DEF ClientInv, IdsAreMinted
<1>11. TextGrows' /\ DirtyIsTold' /\ DirtyIsKept'
  BY <1>3 DEF ClientInv, TextGrows, DirtyIsTold, DirtyIsKept
<1>12. OneSend' /\ SendIsOfPage'
  BY <1>3, <1>5, <1>6 DEF ClientInv, OneSend, SendIsOfPage
<1>13. RepliesAreTrue'
  <2>1. CASE answer = ReplyTo(m) /\ Stores(m)
    <3>1. /\ answer = "ok" => \E i \in DOMAIN rows' : rows'[i].id = m.id /\ rows'[i].text = m.text
          /\ answer = "id_conflict" => \E i \in DOMAIN rows' : rows'[i].id = m.id
      BY <1>1, <1>2, <2>1, Storing
    <3> QED
      BY <1>5, <1>6, <3>1 DEF RepliesAreTrue
  <2>2. CASE answer \in {"no_edit_auth", "validation_error", "ceiling"}
    BY <1>5, <1>6, <2>2 DEF RepliesAreTrue
  <2> QED
    BY <1>4, <2>1, <2>2
<1>14. StraysAreKnown'
  BY <1>3, <1>7 DEF ClientInv, StraysAreKnown
<1> QED
  BY <1>7, <1>9, <1>10, <1>11, <1>12, <1>13, <1>14 DEF ClientInv

LEMMA StrayKeeps == ASSUME ClientInv, NEW m \in strays, StrayArrives(m) PROVE ClientInv'
<1>1. ClientTypeOK /\ m \in SentRequests
  BY ClientTyped DEF ClientInv
<1>2. m.id \in 1..LastId /\ m.text \in Wordings /\ m.id <= minted
  BY <1>1, ClientTyped DEF ClientInv, IdsAreMinted
<1>3. strays' = strays \ {m} /\ Stores(m) /\ UNCHANGED <<page, kept, sends, served, version, minted, typed, givenUp>>
  BY DEF StrayArrives
<1>4. \/ m.id \in givenUp \/ \E i \in DOMAIN rows : rows[i].id = m.id
      \/ page.dirty /\ m.id = page.id
  BY DEF ClientInv, StraysAreKnown
<1>5. /\ \A i \in DOMAIN rows' : rows'[i].id <= minted
      /\ PageRowIsNewest' /\ DeliveredIsNewest'
      /\ DOMAIN rows \subseteq DOMAIN rows' /\ \A i \in DOMAIN rows : rows'[i] = rows[i]
  BY <1>2, <1>3, <1>4, StoringKeeps
<1>6. rows' \in Seq(SuggestionRow)
  BY <1>1, <1>2, <1>3, Storing
<1>7. ClientTypeOK'
  BY <1>1, <1>3, <1>6 DEF ClientTypeOK
<1>8. IdsAreMinted'
  BY <1>3, <1>5 DEF ClientInv, IdsAreMinted
<1>9. TextGrows' /\ DirtyIsTold' /\ DirtyIsKept' /\ OneSend' /\ SendIsOfPage'
  BY <1>3 DEF ClientInv, TextGrows, DirtyIsTold, DirtyIsKept, OneSend, SendIsOfPage
<1>10. RepliesAreTrue'
  BY <1>3, <1>5 DEF ClientInv, RepliesAreTrue
<1>11. StraysAreKnown'
  BY <1>3, <1>5 DEF ClientInv, StraysAreKnown
<1> QED
  BY <1>5, <1>7, <1>8, <1>9, <1>10, <1>11 DEF ClientInv

LEMMA PublishKeeps == ASSUME ClientInv, Publish PROVE ClientInv'
<1>1. ClientTypeOK /\ rows \in Seq(SuggestionRow) /\ Len(rows) \in Nat /\ DOMAIN rows = 1..Len(rows)
  BY ClientTyped DEF ClientInv
<1>2. /\ served' = rows[Len(rows)].text /\ rows' = [rows EXCEPT ![Len(rows)].applied = TRUE]
      /\ version' = version + 1 /\ version < LastVersion /\ rows # <<>>
      /\ UNCHANGED <<page, kept, sends, strays, minted, typed, givenUp>>
  BY DEF Publish, Live
<1>3. Len(rows) \in DOMAIN rows /\ version \in 0..LastVersion /\ LastVersion \in Nat
  BY <1>1, <1>2, ClientTyped
<1>4. rows' \in Seq(SuggestionRow)
  <2>1. [rows[Len(rows)] EXCEPT !.applied = TRUE] \in SuggestionRow
    <3>1. rows[Len(rows)] \in SuggestionRow
      BY <1>1, <1>3
    <3> QED
      BY <3>1 DEF SuggestionRow
  <2>2. rows' = [rows EXCEPT ![Len(rows)] = [rows[Len(rows)] EXCEPT !.applied = TRUE]]
    BY <1>2
  <2> QED
    BY <1>1, <1>3, <2>1, <2>2
<1>5. DOMAIN rows' = DOMAIN rows /\ \A i \in DOMAIN rows : rows'[i].id = rows[i].id /\ rows'[i].text = rows[i].text
  <2>1. \A i \in DOMAIN rows : rows[i] \in SuggestionRow
    BY <1>1
  <2> QED
    BY <1>2, <2>1 DEF SuggestionRow
<1>6. served' \in Wordings /\ version' \in 0..LastVersion
  <2>1. rows[Len(rows)].text \in Wordings
    BY <1>1, <1>3, ClientTyped
  <2>2. version + 1 \in 0..LastVersion
    BY <1>2, <1>3
  <2> QED
    BY <1>2, <2>1, <2>2
<1>7. ClientTypeOK'
  BY <1>1, <1>2, <1>4, <1>6 DEF ClientTypeOK
<1>8. IdsAreMinted'
  BY <1>2, <1>5 DEF ClientInv, IdsAreMinted
<1>9. TextGrows' /\ DirtyIsTold' /\ DirtyIsKept' /\ OneSend' /\ SendIsOfPage'
  BY <1>2 DEF ClientInv, TextGrows, DirtyIsTold, DirtyIsKept, OneSend, SendIsOfPage
<1>10. RepliesAreTrue' /\ StraysAreKnown'
  BY <1>2, <1>5 DEF ClientInv, RepliesAreTrue, StraysAreKnown
<1>11. PageRowIsNewest' /\ DeliveredIsNewest'
  BY <1>2, <1>5 DEF ClientInv, PageRowIsNewest, DeliveredIsNewest, OnlyGivenUpAfter
<1> QED
  BY <1>7, <1>8, <1>9, <1>10, <1>11 DEF ClientInv

LEMMA OthersKeep == ASSUME ClientInv, NEW w \in Wordings, OthersPublish(w) PROVE ClientInv'
<1>1. page \in Pages /\ version \in 0..LastVersion /\ LastVersion \in Nat
  BY ClientTyped DEF ClientInv
<1>2. /\ served' = w /\ version' = version + 1 /\ version < LastVersion
      /\ UNCHANGED <<page, kept, sends, strays, rows, minted, typed, givenUp>>
  BY DEF OthersPublish
<1> QED
  BY <1>1, <1>2, LookingKeeps DEF SamePage

-----------------------------------------------------------------------------
(* The replies.                                                            *)

LEMMA OkKeeps == ASSUME ClientInv, NEW m \in sends, AnswerOk(m) PROVE ClientInv'
<1> DEFINE p == Delivered(m)
           more == m.auto /\ p.dirty
           q == IF more THEN [WithId(p) EXCEPT !.debounce = TRUE] ELSE p
<1>1. /\ ClientTypeOK /\ page \in Pages /\ m \in Sends /\ minted \in Nat /\ LastId \in Nat /\ minted \in 0..LastId
      /\ m.auto \in BOOLEAN /\ m.text \in Wordings /\ rows \in Seq(SuggestionRow)
  BY ClientTyped DEF ClientInv
<1>2. /\ m.reply = "ok" /\ (more => MintFor(p))
      /\ page' = IF m.auto THEN [q EXCEPT !.state = "EDITING"]
                 ELSE [q EXCEPT !.state = "IDLE", !.editable = FALSE]
      /\ kept' = IF more THEN DraftOf(page') ELSE NoDraft
      /\ minted' = IF more THEN Minted(p) ELSE minted
      /\ sends' = sends \ {m} /\ UNCHANGED <<strays, rows, served, version, typed, givenUp>>
  BY DEF AnswerOk
<1>3. sends' = {}
  BY <1>2 DEF ClientInv, OneSend
<1>4. page.dirty /\ m.id = page.id /\ page.hash <= m.text /\ m.text <= page.snapshot
      /\ (~m.auto => m.text = page.snapshot) /\ typed = page.snapshot
  BY DirtyHasDraft DEF ClientInv, SendIsOfPage
<1>5. PICK i \in DOMAIN rows : rows[i].id = m.id /\ rows[i].text = m.text
  BY <1>2 DEF ClientInv, RepliesAreTrue
<1>6. \A j \in DOMAIN rows : i < j => rows[j].id \in givenUp
  BY <1>4, <1>5 DEF ClientInv, PageRowIsNewest, OnlyGivenUpAfter
<1>7. /\ p \in Pages /\ p.id = 0 /\ p.hash = page.hash /\ p.original = m.text
      /\ p.snapshot = page.snapshot /\ p.dirty = (page.snapshot # m.text)
  <2>1. (page.snapshot # m.text) \in BOOLEAN /\ 0 \in 0..LastId
    BY <1>1
  <2> QED
    BY <1>1, <2>1 DEF Delivered, Pages
<1>8. \A k \in DOMAIN rows : rows[k].id # minted + 1 /\ rows[k].id # 0
  BY <1>1, ClientTyped DEF ClientInv, IdsAreMinted
<1>9. /\ OneSend' /\ SendIsOfPage' /\ RepliesAreTrue'
  BY <1>3 DEF OneSend, SendIsOfPage, RepliesAreTrue
<1>10. StraysAreKnown'
  BY <1>2, <1>4, <1>5 DEF ClientInv, StraysAreKnown
<1>11. CASE more
  <2>1. /\ MintFor(p) /\ minted' = Minted(p) /\ kept' = DraftOf(page')
        /\ page' = [[WithId(p) EXCEPT !.debounce = TRUE] EXCEPT !.state = "EDITING"]
    BY <1>2, <1>11
  <2>2. minted < LastId /\ minted' = minted + 1 /\ minted' \in 0..LastId
    BY <1>1, <1>7, <2>1 DEF MintFor, Minted
  <2>3. WithId(p) = [p EXCEPT !.id = minted + 1]
    BY <1>7 DEF WithId
  <2>4. p \in Pages /\ p.dirty = TRUE
    BY <1>7, <1>11
  <2> HIDE DEF p, q, more
  <2>5. minted + 1 \in 0..LastId
    BY <1>1, <2>2
  <2>6. /\ page' \in Pages /\ page'.id = minted + 1 /\ page'.dirty = TRUE /\ page'.hash = p.hash
        /\ page'.original = p.original /\ page'.snapshot = p.snapshot
    <3>1. /\ WithId(p) \in Pages /\ WithId(p).id = minted + 1 /\ WithId(p).dirty = TRUE /\ WithId(p).hash = p.hash
          /\ WithId(p).original = p.original /\ WithId(p).snapshot = p.snapshot
      BY <2>3, <2>4, <2>5 DEF Pages
    <3> HIDE DEF WithId
    <3> QED
      BY <2>1, <3>1 DEF Pages
  <2>7. /\ kept' \in BlockDrafts /\ kept'.hash = page'.hash /\ kept'.id = page'.id /\ kept'.text = page'.snapshot
        /\ kept' # NoDraft
    <3>1. kept' \in BlockDrafts /\ kept'.hash = page'.hash /\ kept'.id = page'.id /\ kept'.text = page'.snapshot
      BY <2>1, <2>6 DEF DraftOf, BlockDrafts, Pages
    <3> QED
      BY <3>1, NoDraftAssumption
  <2>8. ClientTypeOK'
    BY <1>1, <1>2, <1>3, <2>2, <2>6, <2>7 DEF ClientTypeOK
  <2>9. IdsAreMinted'
    <3>1. /\ \A n \in strays : n.id \in Int /\ n.id <= minted
          /\ \A k \in DOMAIN rows : rows[k].id \in Int /\ rows[k].id <= minted
      BY <1>1, ClientTyped DEF ClientInv, IdsAreMinted, SentRequests
    <3> QED
      BY <1>1, <1>2, <1>3, <2>2, <2>6, <3>1 DEF IdsAreMinted
  <2>10. TextGrows' /\ DirtyIsTold' /\ DirtyIsKept'
    <3>1. page.snapshot # m.text
      BY <1>7, <2>4
    <3>2. minted + 1 # 0
      BY <1>1
    <3> QED
      BY <1>2, <1>4, <1>7, <2>6, <2>7, <3>1, <3>2 DEF TextGrows, DirtyIsTold, DirtyIsKept
  <2>11. PageRowIsNewest' /\ DeliveredIsNewest'
    BY <1>2, <1>8, <2>6 DEF PageRowIsNewest, DeliveredIsNewest
  <2> QED
    BY <1>9, <1>10, <2>8, <2>9, <2>10, <2>11 DEF ClientInv
<1>12. CASE ~more
  <2>1. page.snapshot = m.text /\ p.dirty = FALSE
    BY <1>1, <1>4, <1>7, <1>12
  <2>2. /\ kept' = NoDraft /\ minted' = minted
        /\ page' = IF m.auto THEN [p EXCEPT !.state = "EDITING"]
                   ELSE [p EXCEPT !.state = "IDLE", !.editable = FALSE]
    BY <1>2, <1>12
  <2> HIDE DEF p, q, more
  <2>3. /\ page' \in Pages /\ page'.id = 0 /\ page'.dirty = FALSE /\ page'.hash = page.hash
        /\ page'.original = m.text /\ page'.snapshot = m.text
    <3>1. CASE m.auto
      BY <1>7, <2>1, <2>2, <3>1 DEF Pages
    <3>2. CASE ~m.auto
      BY <1>7, <2>1, <2>2, <3>2 DEF Pages
    <3> QED
      BY <3>1, <3>2
  <2>4. ClientTypeOK'
    BY <1>1, <1>2, <1>3, <2>2, <2>3 DEF ClientTypeOK
  <2>5. IdsAreMinted'
    BY <1>1, <1>2, <1>3, <2>2, <2>3 DEF ClientInv, IdsAreMinted
  <2>6. TextGrows' /\ DirtyIsTold' /\ DirtyIsKept'
    <3>1. m.text <= m.text
      BY <1>1 DEF Wordings
    <3> QED
      BY <1>4, <2>2, <2>3, <3>1 DEF TextGrows, DirtyIsTold, DirtyIsKept
  <2>7. PageRowIsNewest'
    BY <1>2, <1>8, <2>3 DEF PageRowIsNewest
  <2>8. DeliveredIsNewest'
    BY <1>2, <1>4, <1>5, <1>6, <2>1 DEF DeliveredIsNewest, OnlyGivenUpAfter
  <2> QED
    BY <1>9, <1>10, <2>4, <2>5, <2>6, <2>7, <2>8 DEF ClientInv
<1> QED
  BY <1>11, <1>12

LEMMA ConflictKeeps == ASSUME ClientInv, NEW m \in sends, AnswerConflict(m) PROVE ClientInv'
<1> DEFINE p == [page EXCEPT !.state = "SAVING", !.id = minted + 1, !.debounce = FALSE]
           again == [id |-> p.id, text |-> p.snapshot, hash |-> p.hash, auto |-> TRUE, reply |-> "none"]
<1>1. /\ ClientTypeOK /\ page \in Pages /\ minted \in Nat /\ LastId \in Nat /\ minted \in 0..LastId
  BY ClientTyped DEF ClientInv
<1>2. page.dirty /\ m.id = page.id /\ typed = page.snapshot /\ page.snapshot # page.original
  BY DirtyHasDraft DEF ClientInv, SendIsOfPage
<1>3. /\ m.reply = "id_conflict" /\ minted < LastId /\ kept' = DraftOf(p) /\ minted' = p.id
      /\ page' = p /\ sends' = (sends \ {m}) \cup {again}
      /\ UNCHANGED <<strays, rows, served, version, typed, givenUp>>
  BY <1>2 DEF AnswerConflict
<1>4. sends' = {again}
  BY <1>3 DEF ClientInv, OneSend
<1>5. minted + 1 \in 1..LastId
  BY <1>1, <1>3
<1>6. /\ p \in Pages /\ p.id = minted + 1 /\ p.state = "SAVING" /\ p.dirty = page.dirty /\ p.hash = page.hash
      /\ p.original = page.original /\ p.snapshot = page.snapshot
  <2>1. minted + 1 \in 0..LastId
    BY <1>1, <1>5
  <2> QED
    BY <1>1, <2>1 DEF Pages
<1>7. /\ again \in Sends /\ again.id = minted + 1 /\ again.text = page.snapshot /\ again.auto = TRUE
      /\ again.reply = "none"
  <2>1. /\ p.id \in 1..LastId /\ p.snapshot \in Wordings /\ p.hash \in Wordings
    BY <1>5, <1>6, ClientTyped, <1>1
  <2> HIDE DEF p
  <2> QED
    BY <1>6, <2>1 DEF Sends
<1> HIDE DEF p, again
<1>8. /\ kept' \in BlockDrafts /\ kept'.hash = page.hash /\ kept'.id = minted + 1 /\ kept'.text = page.snapshot
      /\ kept' # NoDraft
  <2>1. kept' \in BlockDrafts /\ kept'.hash = p.hash /\ kept'.id = p.id /\ kept'.text = p.snapshot
    BY <1>3, <1>6 DEF DraftOf, BlockDrafts, Pages
  <2> QED
    BY <1>6, <2>1, NoDraftAssumption
<1>9. ClientTypeOK'
  BY <1>1, <1>3, <1>4, <1>5, <1>6, <1>7, <1>8 DEF ClientTypeOK
<1>10. IdsAreMinted'
  <2>1. /\ \A n \in strays : n.id \in Int /\ n.id <= minted
        /\ \A k \in DOMAIN rows : rows[k].id \in Int /\ rows[k].id <= minted
    BY <1>1, ClientTyped DEF ClientInv, IdsAreMinted, SentRequests
  <2> QED
    BY <1>1, <1>3, <1>4, <1>6, <1>7, <2>1 DEF IdsAreMinted
<1>11. TextGrows' /\ DirtyIsTold' /\ DirtyIsKept'
  <2>1. minted + 1 # 0
    BY <1>1
  <2> QED
    BY <1>2, <1>3, <1>6, <1>8, <2>1 DEF ClientInv, TextGrows, DirtyIsTold, DirtyIsKept
<1>12. OneSend' /\ RepliesAreTrue'
  BY <1>4, <1>7 DEF OneSend, RepliesAreTrue
<1>13. SendIsOfPage'
  <2>1. page.hash <= page.snapshot /\ page.snapshot <= page.snapshot
    BY <1>1, ClientTyped DEF ClientInv, TextGrows
  <2> QED
    BY <1>2, <1>3, <1>4, <1>6, <1>7, <2>1 DEF SendIsOfPage
<1>14. StraysAreKnown'
  <2>1. \E k \in DOMAIN rows : rows[k].id = page.id
    BY <1>2, <1>3 DEF ClientInv, RepliesAreTrue
  <2> QED
    BY <1>3, <2>1 DEF ClientInv, StraysAreKnown
<1>15. PageRowIsNewest'
  <2>1. \A k \in DOMAIN rows : rows[k].id # minted + 1
    BY <1>1, ClientTyped DEF ClientInv, IdsAreMinted
  <2> QED
    BY <1>3, <1>6, <2>1 DEF PageRowIsNewest
<1>16. DeliveredIsNewest'
  BY <1>2, <1>3, <1>6 DEF DeliveredIsNewest
<1> QED
  BY <1>9, <1>10, <1>11, <1>12, <1>13, <1>14, <1>15, <1>16 DEF ClientInv

LEMMA StaleKeeps == ASSUME ClientInv, NEW m \in sends, AnswerStale(m) PROVE ClientInv'
<1>1. /\ ClientTypeOK /\ page \in Pages /\ 0 \in 0..LastId /\ page.id \in 0..LastId /\ givenUp \subseteq 1..LastId
      /\ LastId \in Nat
  BY ClientTyped DEF ClientInv
<1>2. page.dirty /\ m.id = page.id /\ page.id # 0
  BY DirtyHasDraft DEF ClientInv, SendIsOfPage
<1>3. /\ page' = [page EXCEPT !.state = "IDLE", !.snapshot = page.original, !.shown = page.original,
                            !.dirty = FALSE, !.id = 0, !.editable = FALSE]
      /\ kept' = NoDraft /\ typed' = NoText /\ givenUp' = givenUp \cup ({m.id, page.id} \ {0})
      /\ sends' = sends \ {m} /\ UNCHANGED <<strays, rows, served, version, minted>>
  BY DEF AnswerStale
<1>4. /\ page' \in Pages /\ page'.hash = page.hash /\ page'.original = page.original
      /\ page'.snapshot = page.original /\ page'.dirty = FALSE /\ page'.id = 0
  BY <1>1, <1>3 DEF Pages
<1>5. sends' = {}
  BY <1>3 DEF ClientInv, OneSend
<1>6. givenUp \subseteq givenUp' /\ givenUp' \subseteq 1..LastId /\ page.id \in givenUp'
  BY <1>1, <1>2, <1>3
<1>7. strays' \subseteq SentRequests /\ \A n \in strays' : n \in strays
  BY <1>1, <1>3, ClientTyped
<1>8. page'.hash <= page'.original
  BY <1>4 DEF ClientInv, TextGrows
<1> QED
  BY <1>3, <1>4, <1>5, <1>6, <1>7, <1>8, GivingUpKeeps

LEMMA FailingKeeps ==
  ASSUME ClientInv, NEW m \in sends, AnswerFailure(m) \/ NetworkFails(m)
  PROVE  ClientInv'
<1>1. /\ ClientTypeOK /\ page \in Pages /\ m \in Sends /\ strays \subseteq SentRequests /\ m.auto \in BOOLEAN
  BY ClientTyped DEF ClientInv
<1>2. page.dirty /\ m.id = page.id /\ kept = DraftOf(page)
  BY DirtyHasDraft DEF ClientInv, SendIsOfPage
<1>3. /\ kept' = kept /\ sends' = sends \ {m}
      /\ UNCHANGED <<rows, served, version, minted, typed, givenUp>>
  BY <1>2 DEF AnswerFailure, NetworkFails
<1>4. sends' = {}
  BY <1>3 DEF ClientInv, OneSend
<1>5. /\ page' \in Pages /\ page'.hash = page.hash /\ page'.original = page.original
      /\ page'.snapshot = page.snapshot /\ page'.dirty = page.dirty /\ page'.id = page.id
  <2>1. CASE AnswerFailure(m)
    <3> DEFINE b == page.reauth \/ m.reply = "no_edit_auth"
               c == page.retry \/ (m.reply = "ceiling" /\ m.auto)
    <3>1. b \in BOOLEAN /\ c \in BOOLEAN
      OBVIOUS
    <3>2. page' = [page EXCEPT !.state = "EDITING", !.reauth = b, !.retry = c]
      BY <2>1 DEF AnswerFailure
    <3> HIDE DEF b, c
    <3> QED
      BY <1>1, <3>1, <3>2 DEF Pages
  <2>2. CASE NetworkFails(m)
    <3> DEFINE c == page.retry \/ m.auto
    <3>1. c \in BOOLEAN
      OBVIOUS
    <3>2. page' = [page EXCEPT !.state = "EDITING", !.retry = c]
      BY <2>2 DEF NetworkFails
    <3> HIDE DEF c
    <3> QED
      BY <1>1, <3>1, <3>2 DEF Pages
  <2> QED
    BY <2>1, <2>2
<1>6. AsRequest(m) \in SentRequests /\ AsRequest(m).id = m.id
  BY <1>1 DEF AsRequest, SentRequests, Sends
<1>7. strays' \subseteq strays \cup {AsRequest(m)}
  BY DEF AnswerFailure, NetworkFails
<1>8. strays' \subseteq SentRequests /\ \A n \in strays' : n \in strays \/ (page.dirty /\ n.id = page.id)
  BY <1>1, <1>2, <1>6, <1>7
<1> QED
  BY <1>3, <1>4, <1>5, <1>8, MovingOnKeeps

-----------------------------------------------------------------------------
(* The life of the page.                                                   *)

LEMMA HideKeeps == ASSUME ClientInv, Hide PROVE ClientInv'
<1>1. ClientTypeOK /\ page \in Pages /\ page.id \in 0..LastId /\ page.snapshot \in Wordings /\ page.hash \in Wordings
  BY ClientTyped DEF ClientInv
<1>2. page.dirty /\ page.state # "SAVING" /\ page.id # 0 /\ kept = DraftOf(page)
  BY DirtyHasDraft DEF Hide
<1>3. WithId(page) = page /\ Minted(page) = minted
  BY <1>2 DEF WithId, Minted
<1>4. /\ page' = page /\ kept' = kept /\ minted' = minted
      /\ strays' = strays \cup {[id |-> page.id, text |-> page.snapshot, hash |-> page.hash]}
      /\ UNCHANGED <<sends, rows, served, version, typed, givenUp>>
  BY <1>2, <1>3 DEF Hide
<1>5. sends' = {}
  BY <1>2, <1>4 DEF ClientInv, SendIsOfPage
<1>6. strays' \subseteq SentRequests /\ \A n \in strays' : n \in strays \/ n.id = page.id
  <2>1. LastId \in Nat /\ strays \subseteq SentRequests /\ page.id \in 1..LastId
    BY <1>1, <1>2, ClientTyped
  <2> QED
    BY <1>1, <1>4, <2>1 DEF SentRequests
<1> QED
  BY <1>1, <1>2, <1>4, <1>5, <1>6, MovingOnKeeps

LEMMA PollKeeps == ASSUME ClientInv, Poll PROVE ClientInv'
<1>1. ClientTypeOK /\ page \in Pages /\ served \in Wordings /\ version \in 0..LastVersion
  BY ClientTyped DEF ClientInv
<1>2. page' = Hydrated(page, kept) /\ UNCHANGED <<kept, sends, strays, rows, served, version, minted, typed, givenUp>>
  BY DEF Poll
<1>3. page' \in Pages /\ SamePage(page', page)
  BY <1>1, <1>2, PaintingKeeps
<1> QED
  BY <1>1, <1>2, <1>3, LookingKeeps

\* The page that comes back finds its own draft, or none: its text has not changed under it.
LEMMA ReturningKeeps ==
  ASSUME ClientInv, NEW p \in Pages, p.hash = page.hash, p.original = page.original,
         p.snapshot = page.snapshot, p.dirty = page.dirty, p.id = page.id, Returns(p)
  PROVE  /\ page' \in Pages /\ page'.hash = page.hash /\ page'.original = page.original
         /\ page'.snapshot = page.snapshot /\ page'.dirty = page.dirty /\ page'.id = page.id
         /\ page'.state = p.state /\ UNCHANGED <<kept, minted, typed, givenUp>>
<1>1. ClientTypeOK
  BY DEF ClientInv
<1>2. /\ Reconciled(p) \in Pages /\ Reconciled(p).hash = p.hash /\ Reconciled(p).original = p.original
      /\ Reconciled(p).snapshot = p.snapshot /\ Reconciled(p).dirty = p.dirty /\ Reconciled(p).id = p.id
      /\ Reconciled(p).state = p.state /\ ReconciledDraft(p) = kept /\ ~NeedsId(p)
      /\ typed' = typed /\ givenUp' = givenUp
  <2>1. CASE page.dirty
    <3>1. /\ kept \in BlockDrafts /\ kept.hash = p.hash /\ kept.text # p.original /\ kept.id # 0
          /\ kept.text = p.snapshot /\ kept.id = p.id
      BY <2>1, DirtyHasDraft
    <3>2. Forgets(p)
      BY DEF Returns
    <3> QED
      BY <1>1, <2>1, <3>1, <3>2, DraftComesBack
  <2>2. CASE ~page.dirty
    <3>1. kept = NoDraft
      BY <2>2 DEF ClientInv, DirtyIsKept
    <3>2. Forgets(p)
      BY DEF Returns
    <3> QED
      BY <3>1, <3>2, NothingComesBack
  <2> QED
    BY <2>1, <2>2
<1>3. page' = Hydrated(Reconciled(p), kept) /\ kept' = kept /\ minted' = minted
  BY <1>2 DEF Returns
<1>4. page' \in Pages /\ SamePage(page', Reconciled(p))
  BY <1>1, <1>2, <1>3, PaintingKeeps
<1> QED
  BY <1>2, <1>3, <1>4 DEF SamePage

LEMMA VisibleKeeps == ASSUME ClientInv, Visible PROVE ClientInv'
<1>1. page \in Pages /\ served \in Wordings /\ version \in 0..LastVersion
  BY ClientTyped DEF ClientInv
<1>2. /\ page' \in Pages /\ SamePage(page', page) /\ UNCHANGED <<kept, minted, typed, givenUp>>
  BY <1>1, ReturningKeeps DEF Visible, SamePage
<1> QED
  BY <1>1, <1>2, LookingKeeps DEF Visible

\* What was on its way when the handlers went.
LEMMA LettingGo ==
  ASSUME ClientInv
  PROVE  LetGo \subseteq SentRequests /\ \A n \in LetGo : n \in strays \/ (page.dirty /\ n.id = page.id)
<1>1. strays \subseteq SentRequests /\ sends \subseteq Sends
  BY ClientTyped DEF ClientInv
<1>2. \A m \in sends : AsRequest(m) \in SentRequests /\ AsRequest(m).id = m.id
  BY <1>1 DEF AsRequest, SentRequests, Sends
<1>3. \A m \in sends : page.dirty /\ m.id = page.id
  BY DEF ClientInv, SendIsOfPage
<1> QED
  BY <1>1, <1>2, <1>3 DEF LetGo

LEMMA FromCacheKeeps == ASSUME ClientInv, FromCache PROVE ClientInv'
<1> DEFINE p == [page EXCEPT !.state = "EDITING"]
<1>1. page \in Pages
  BY ClientTyped DEF ClientInv
<1>2. p \in Pages /\ p.hash = page.hash /\ p.original = page.original
      /\ p.snapshot = page.snapshot /\ p.dirty = page.dirty /\ p.id = page.id
  BY <1>1 DEF Pages
<1>3. Returns(p) /\ sends' = {} /\ strays' = LetGo /\ UNCHANGED <<rows, served, version>>
  BY DEF FromCache
<1> HIDE DEF p
<1>4. /\ page' \in Pages /\ page'.hash = page.hash /\ page'.original = page.original
      /\ page'.snapshot = page.snapshot /\ page'.dirty = page.dirty /\ page'.id = page.id
      /\ UNCHANGED <<kept, minted, typed, givenUp>>
  BY <1>2, <1>3, ReturningKeeps
<1> QED
  BY <1>3, <1>4, LettingGo, MovingOnKeeps

LEMMA LoadKeeps == ASSUME ClientInv, Load PROVE ClientInv'
<1> DEFINE p == FreshPage(served)
<1>1. /\ ClientTypeOK /\ served \in Wordings /\ 0 \in 0..LastId /\ served <= served /\ page \in Pages
      /\ page.id \in 0..LastId /\ givenUp \subseteq 1..LastId /\ LastId \in Nat
  BY ClientTyped DEF ClientInv
<1>2. /\ p \in Pages /\ p.hash = served /\ p.original = served /\ p.snapshot = served
      /\ p.dirty = FALSE /\ p.id = 0
  BY <1>1 DEF FreshPage, Pages
<1>3. Returns(p) /\ sends' = {} /\ strays' = LetGo /\ UNCHANGED <<rows, served, version>>
  BY DEF Load
<1> HIDE DEF p
<1>4. /\ Forgets(p) /\ kept' = ReconciledDraft(p) /\ page' = Hydrated(Reconciled(p), ReconciledDraft(p))
      /\ minted' = IF NeedsId(p) THEN minted + 1 ELSE minted
  BY <1>3 DEF Returns
<1>5. /\ strays' \subseteq SentRequests /\ \A n \in strays' : n \in strays \/ (page.dirty /\ n.id = page.id)
  BY <1>3, LettingGo
<1>6. CASE kept # NoDraft /\ kept.hash # served
  <2>1. page.dirty /\ kept.id = page.id /\ page.id # 0
    BY <1>6, DirtyHasDraft DEF ClientInv, DirtyIsKept
  <2>2. /\ Reconciled(p) \in Pages /\ ReconciledDraft(p) = NoDraft
        /\ Reconciled(p).hash = served /\ Reconciled(p).original = served
        /\ Reconciled(p).snapshot = served /\ Reconciled(p).id = 0
        /\ Reconciled(p).dirty = FALSE /\ ~NeedsId(p)
        /\ typed' = NoText /\ givenUp' = givenUp \cup ({kept.id, p.id} \ {0})
    BY <1>1, <1>2, <1>4, <1>6, StaleDraftGoes
  <2>3. page' \in Pages /\ SamePage(page', Reconciled(p))
    BY <1>1, <1>4, <2>2, PaintingKeeps
  <2>4. givenUp \subseteq givenUp' /\ givenUp' \subseteq 1..LastId /\ page.id \in givenUp'
    BY <1>1, <1>2, <2>1, <2>2, GivenUpAreIds
  <2> QED
    BY <1>1, <1>3, <1>4, <1>5, <2>2, <2>3, <2>4, GivingUpKeeps DEF SamePage
<1>7. CASE kept # NoDraft /\ kept.hash = served
  <2>1. page.dirty
    BY <1>7 DEF ClientInv, DirtyIsKept
  <2>2. /\ kept \in BlockDrafts /\ kept.id = page.id /\ page.id # 0 /\ typed = page.snapshot /\ page.hash = served
        /\ kept.text = page.snapshot /\ page.snapshot # page.original
    BY <1>7, <2>1, DirtyHasDraft
  <2>3. served <= page.snapshot /\ page.snapshot # served
    BY <1>1, <2>2, ClientTyped DEF ClientInv, TextGrows
  <2>4. /\ Reconciled(p) \in Pages /\ ReconciledDraft(p) = kept /\ Reconciled(p).hash = served
        /\ Reconciled(p).original = served /\ Reconciled(p).snapshot = page.snapshot
        /\ Reconciled(p).id = page.id /\ Reconciled(p).dirty = TRUE /\ ~NeedsId(p)
        /\ typed' = typed /\ givenUp' = givenUp
    BY <1>1, <1>2, <1>4, <1>7, <2>2, <2>3, DraftComesBack
  <2>5. page' \in Pages /\ SamePage(page', Reconciled(p)) /\ kept' = kept /\ minted' = minted
    BY <1>1, <1>4, <2>4, PaintingKeeps
  <2>6. /\ page'.hash = served /\ page'.original = served /\ page'.snapshot = page.snapshot
        /\ page'.id = page.id /\ page'.dirty = TRUE
    BY <2>4, <2>5 DEF SamePage
  <2>7. ClientTypeOK'
    BY <1>1, <1>3, <1>5, <2>4, <2>5 DEF ClientTypeOK
  <2>8. IdsAreMinted'
    BY <1>3, <1>5, <2>5, <2>6 DEF ClientInv, IdsAreMinted
  <2>9. TextGrows' /\ DirtyIsTold'
    BY <1>1, <2>3, <2>6 DEF TextGrows, DirtyIsTold
  <2>10. DirtyIsKept'
    BY <1>7, <2>2, <2>4, <2>5, <2>6 DEF DirtyIsKept
  <2>11. OneSend' /\ SendIsOfPage' /\ RepliesAreTrue'
    BY <1>3 DEF OneSend, SendIsOfPage, RepliesAreTrue
  <2>12. StraysAreKnown'
    BY <1>3, <1>5, <2>4, <2>6 DEF ClientInv, StraysAreKnown
  <2>13. PageRowIsNewest' /\ DeliveredIsNewest'
    BY <1>3, <2>4, <2>6 DEF ClientInv, PageRowIsNewest, DeliveredIsNewest, OnlyGivenUpAfter
  <2> QED
    BY <2>7, <2>8, <2>9, <2>10, <2>11, <2>12, <2>13 DEF ClientInv
<1>8. CASE kept = NoDraft
  <2>1. ~page.dirty
    BY <1>8 DEF ClientInv, DirtyIsKept
  <2>2. Reconciled(p) = p /\ kept' = NoDraft /\ minted' = minted /\ typed' = typed /\ givenUp' = givenUp
    BY <1>4, <1>8, NothingComesBack
  <2>3. page' \in Pages /\ SamePage(page', p)
    BY <1>1, <1>2, <1>4, <2>2, PaintingKeeps
  <2>4. /\ page'.hash = served /\ page'.original = served /\ page'.snapshot = served
        /\ page'.id = 0 /\ page'.dirty = FALSE
    BY <1>2, <2>3 DEF SamePage
  <2>5. ClientTypeOK'
    BY <1>1, <1>3, <1>5, <2>2, <2>3 DEF ClientTypeOK
  <2>6. IdsAreMinted'
    BY <1>1, <1>3, <1>5, <2>1, <2>2, <2>4, ClientTyped DEF ClientInv, IdsAreMinted
  <2>7. TextGrows' /\ DirtyIsTold' /\ DirtyIsKept'
    BY <1>1, <2>2, <2>4 DEF TextGrows, DirtyIsTold, DirtyIsKept
  <2>8. OneSend' /\ SendIsOfPage' /\ RepliesAreTrue'
    BY <1>3 DEF OneSend, SendIsOfPage, RepliesAreTrue
  <2>9. StraysAreKnown'
    BY <1>3, <1>5, <2>1, <2>2 DEF ClientInv, StraysAreKnown
  <2>10. PageRowIsNewest'
    <3>1. \A k \in DOMAIN rows : rows[k].id # 0
      BY <1>1, ClientTyped
    <3> QED
      BY <1>3, <2>4, <3>1 DEF PageRowIsNewest
  <2>11. DeliveredIsNewest'
    BY <1>3, <2>1, <2>2 DEF ClientInv, DeliveredIsNewest, OnlyGivenUpAfter
  <2> QED
    BY <2>5, <2>6, <2>7, <2>8, <2>9, <2>10, <2>11 DEF ClientInv
<1> QED
  BY <1>6, <1>7, <1>8

LEMMA StepKeepsClient ==
  ~MayRetype /\ ~MayTypeWhileSaving /\ ClientInv /\ [ClientNext]_clientVars => ClientInv'
<1> SUFFICES ASSUME ~MayRetype, ~MayTypeWhileSaving, ClientInv, [ClientNext]_clientVars PROVE ClientInv'
  OBVIOUS
<1>1. CASE Edit \/ Blur \/ Undo
  BY <1>1, EditKeeps, BlurKeeps, UndoKeeps
<1>2. CASE AutoSave \/ Retry \/ Done \/ RefreshAndSend
  BY <1>2, TimersKeep
<1>3. CASE \E w \in Wordings : Type(w) \/ OthersPublish(w)
  BY <1>3, TypeKeeps, OthersKeep
<1>4. CASE \E m \in sends : Serve(m) \/ AnswerOk(m) \/ AnswerConflict(m) \/ AnswerStale(m)
                              \/ AnswerFailure(m) \/ NetworkFails(m)
  BY <1>4, ServeKeeps, OkKeeps, ConflictKeeps, StaleKeeps, FailingKeeps
<1>5. CASE \E m \in strays : StrayArrives(m)
  BY <1>5, StrayKeeps
<1>6. CASE Publish \/ Poll \/ Hide \/ Visible \/ FromCache \/ Load
  BY <1>6, PublishKeeps, PollKeeps, HideKeeps, VisibleKeeps, FromCacheKeeps, LoadKeeps
<1>7. CASE UNCHANGED clientVars
  <2>1. page' \in Pages /\ SamePage(page', page) /\ served' \in Wordings /\ version' \in 0..LastVersion
        /\ UNCHANGED <<kept, sends, strays, rows, minted, typed, givenUp>>
    BY <1>7, ClientTyped DEF clientVars, SamePage, ClientInv
  <2> QED
    BY <2>1, LookingKeeps
<1> QED
  BY <1>1, <1>2, <1>3, <1>4, <1>5, <1>6, <1>7 DEF ClientNext

LEMMA ClientInvSuffices == ClientInv => ClientTypeOK /\ WritingIsSafe
<1> SUFFICES ASSUME ClientInv PROVE ClientTypeOK /\ WritingIsSafe
  OBVIOUS
<1>1. ClientTypeOK
  BY DEF ClientInv
<1>2. TypedIsKept
  <2>1. CASE page.dirty
    BY <2>1, DirtyHasDraft DEF TypedIsKept
  <2>2. CASE ~page.dirty
    BY <2>2 DEF ClientInv, DeliveredIsNewest, TypedIsKept
  <2> QED
    BY <2>1, <2>2
<1>3. CleanMeansDelivered
  <2> SUFFICES ASSUME ~page.dirty, typed # NoText
               PROVE  rows # <<>> /\ (rows[Len(rows)].text = typed \/ rows[Len(rows)].id \in givenUp)
    BY DEF CleanMeansDelivered
  <2>1. PICK i \in DOMAIN rows : rows[i].text = typed /\ \A j \in DOMAIN rows : i < j => rows[j].id \in givenUp
    BY DEF ClientInv, DeliveredIsNewest, OnlyGivenUpAfter
  <2>2. Len(rows) \in Nat /\ DOMAIN rows = 1..Len(rows) /\ rows \in Seq(SuggestionRow)
    BY <1>1, ClientTyped
  <2>3. i <= Len(rows) /\ Len(rows) \in DOMAIN rows /\ rows # <<>>
    BY <2>2
  <2> QED
    BY <2>1, <2>2, <2>3
<1> QED
  BY <1>1, <1>2, <1>3 DEF WritingIsSafe

\* An editor who types no earlier wording again, and nothing while an explicit send is under
\* way, never loses what was typed: it is the draft, or it was handed over.
THEOREM WritingHolds ==
  ~MayRetype /\ ~MayTypeWhileSaving => (ClientSpec => [](ClientTypeOK /\ WritingIsSafe))
<1> SUFFICES ASSUME ~MayRetype /\ ~MayTypeWhileSaving PROVE ClientSpec => [](ClientTypeOK /\ WritingIsSafe)
  OBVIOUS
<1>1. ClientInv /\ [ClientNext]_clientVars => ClientInv'
  BY StepKeepsClient
<1> QED
  BY <1>1, InitClient, ClientInvSuffices, PTL DEF ClientSpec

-----------------------------------------------------------------------------
(* Writing in a form.                                                      *)

\* A written form that draws its id once has it; the fact box and the block are never closed.
FormsHaveIds ==
    slate # Blank => /\ form \in {"note", "fact"} => slate.id # 0
                     /\ form = "reach" /\ slate.line # 0 => slate.id # 0
KeptFormsAreOpen == IsKept => slate # Blank

\* What is kept is what is on the screen.
KeptIsShown == keptBox # Blank => IsKept /\ keptBox = slate

\* What is sent and stored is what the form of this behaviour asks for.
Fits(m) == IF m.kind = "order" THEN form = "paragraph" /\ m.line = 0
                               ELSE m.kind \in Asked /\ m.line # 0
AllFit ==
    /\ \A m \in posted \cup adrift : Fits(m)
    /\ \A i \in Slips : slips[i] # Blank => Fits(slips[i])

\* A new line is nowhere yet.
WrittenOnly ==
    /\ slate # Blank => slate.line \in lines \cup {0}
    /\ \A m \in posted \cup adrift : m.line \in lines \cup {0}
    /\ \A i \in Slips : slips[i] # Blank => slips[i].line \in lines \cup {0}

\* A line of a comment or a fact has one id, on the screen, on its way and in the store.
BearsLine(i, l) ==
    \/ slate # Blank /\ slate.id = i /\ slate.line = l
    \/ \E m \in posted \cup adrift : m.id = i /\ m.line = l
    \/ i \in Slips /\ slips[i] # Blank /\ slips[i].line = l
OneIdPerLine ==
    form \in {"note", "fact"} =>
        \A i, j \in 0..LastSlip : \A l \in Lines \ {0} : BearsLine(i, l) /\ BearsLine(j, l) => i = j

RowsInv ==
    /\ ComposerTypeOK /\ FormsHaveIds /\ KeptFormsAreOpen /\ KeptIsShown /\ AllFit
    /\ WrittenOnly /\ OneIdPerLine /\ SaidIsStored

\* As long as nobody goes on while a form is sent: one form is sent at a time, it is still on
\* the screen, and so is whatever is unsettled.
OneFormIsSent == \A m, n \in posted : m.kind # "order" => m = n
SentIsShown ==
    \A m \in posted :
        IF m.kind = "order" THEN slate = Blank
        ELSE slate # Blank /\ slate.line = m.line /\ slate.place = m.place
UnsettledIsShown ==
    \A l \in unsettled : l # 0 /\ slate # Blank /\ slate.line = l /\ (IsKept => keptBox # Blank)

CalmInv == OneFormIsSent /\ SentIsShown /\ UnsettledIsShown


-----------------------------------------------------------------------------

LEMMA FormsTyped ==
  ASSUME ComposerTypeOK
  PROVE  /\ LastSlip \in Nat /\ LastLine \in Nat /\ 1 \in Slips /\ 0 \in Lines
         /\ \A b \in Boxes : b # Blank /\ b.id \in 0..LastSlip /\ b.place \in Places /\ b.line \in Lines
         /\ \A m \in Posts : /\ m.id \in Slips /\ m.place \in Places /\ m.line \in Lines
                             /\ m.kind \in RowKinds
         /\ \A r \in SlipRow : r # Blank /\ r.line \in Lines
         /\ \A i \in 0..LastSlip : Loaded(i) \in Boxes /\ Loaded(i).line = 0 /\ Loaded(i).id = i
         /\ Blank \notin SlipRow /\ drawn \in Nat
<1>1. LastSlip \in Nat /\ LastLine \in Nat /\ 1 \in Slips /\ 0 \in Lines
  BY ComposersAssumption DEF Slips, Lines
<1>2. (CHOOSE p \in Places : TRUE) \in Places
  BY ComposersAssumption
<1>3. \A i \in 0..LastSlip : Loaded(i) \in Boxes /\ Loaded(i).line = 0 /\ Loaded(i).id = i
  BY <1>1, <1>2 DEF Loaded, Boxes
<1>4. /\ \A b \in Boxes : b # Blank /\ b.id \in 0..LastSlip /\ b.place \in Places /\ b.line \in Lines
      /\ \A r \in SlipRow : r # Blank /\ r.line \in Lines
      /\ Blank \notin SlipRow
  BY BlankAssumption DEF Boxes, SlipRow
<1>5. \A m \in Posts : /\ m.id \in Slips /\ m.place \in Places /\ m.line \in Lines
                       /\ m.kind \in RowKinds
  BY DEF Posts
<1>6. drawn \in Nat
  BY <1>1 DEF ComposerTypeOK
<1> QED
  BY <1>1, <1>3, <1>4, <1>5, <1>6

\* A row is stored where there was none, and stays.
LEMMA RowsStay ==
  ASSUME ComposerTypeOK, NEW m \in Posts, Store(m)
  PROVE  /\ slips' \in [Slips -> SlipRow \cup {Blank}]
         /\ RowFor(m) \in SlipRow /\ RowFor(m) # Blank
         /\ slips'[m.id] # Blank
         /\ \A i \in Slips : \/ slips'[i] = slips[i]
                             \/ i = m.id /\ slips[i] = Blank /\ slips'[i] = RowFor(m)
         /\ ~Clashes(m) => slips'[m.id] = RowFor(m)
<1>1. slips \in [Slips -> SlipRow \cup {Blank}] /\ m.id \in Slips /\ Blank \notin SlipRow
  BY FormsTyped DEF ComposerTypeOK
<1>2. RowFor(m) \in SlipRow /\ RowFor(m) # Blank
  BY <1>1 DEF RowFor, SlipRow, Posts
<1>3. \A r \in SlipRow : Payload(r) = r
  BY DEF Payload, SlipRow
<1>4. CASE slips[m.id] = Blank
  BY <1>1, <1>2, <1>4 DEF Store
<1>5. CASE slips[m.id] # Blank
  <2>1. slips' = slips /\ slips[m.id] \in SlipRow
    BY <1>1, <1>5 DEF Store
  <2>2. ~Clashes(m) => slips[m.id] = RowFor(m)
    BY <1>3, <1>5, <2>1 DEF Clashes, Payload, RowFor
  <2> QED
    BY <1>1, <1>2, <1>5, <2>1, <2>2
<1> QED
  BY <1>4, <1>5

\* What a step keeps that writes no line and sends nothing.
LEMMA QuietStep ==
  ASSUME RowsInv, form' = form, lines' = lines,
         posted' \subseteq posted \cup adrift, adrift' \subseteq posted \cup adrift,
         slips' = slips \/ \E m \in posted \cup adrift : Store(m),
         slate' # Blank => \/ slate'.line = 0
                           \/ /\ slate # Blank /\ slate'.line = slate.line
                              /\ form \in {"note", "fact"} => slate'.id = slate.id
  PROVE  /\ slips' \in [Slips -> SlipRow \cup {Blank}]
         /\ AllFit' /\ WrittenOnly' /\ OneIdPerLine' /\ Stored \subseteq Stored'
<1>1. ComposerTypeOK /\ AllFit /\ WrittenOnly /\ OneIdPerLine
  BY DEF RowsInv
<1>2. posted \subseteq Posts /\ adrift \subseteq Posts /\ slips \in [Slips -> SlipRow \cup {Blank}]
  BY <1>1 DEF ComposerTypeOK
<1>3. slips' \in [Slips -> SlipRow \cup {Blank}]
  BY <1>1, <1>2, RowsStay
<1>4. \A i \in Slips : \/ slips'[i] = slips[i]
                       \/ slips[i] = Blank /\ \E m \in posted \cup adrift : m.id = i /\ slips'[i] = RowFor(m)
  BY <1>1, <1>2, RowsStay
<1>41. \A m : RowFor(m).line = m.line
  BY DEF RowFor
<1>42. \A i \in Slips : slips'[i] # Blank =>
         \/ slips[i] # Blank /\ slips[i].line = slips'[i].line
         \/ \E m \in posted \cup adrift : m.id = i /\ m.line = slips'[i].line
  BY <1>4, <1>41
<1>5. AllFit'
  <2>1. \A m : Fits(m)' <=> Fits(m)
    BY DEF Fits, Asked
  <2>2. \A m : Fits(RowFor(m)) <=> Fits(m)
    BY DEF Fits, RowFor
  <2>3. \A m \in posted' \cup adrift' : Fits(m)
    BY <1>1 DEF AllFit
  <2>4. \A i \in Slips : slips'[i] # Blank => Fits(slips'[i])
    BY <1>1, <1>4, <2>2 DEF AllFit
  <2> QED
    BY <2>1, <2>3, <2>4 DEF AllFit
<1>6. WrittenOnly'
  <2>1. slate' # Blank => slate'.line \in lines \cup {0}
    BY <1>1 DEF WrittenOnly
  <2>2. \A m \in posted' \cup adrift' : m.line \in lines \cup {0}
    BY <1>1 DEF WrittenOnly
  <2>3. \A i \in Slips : slips'[i] # Blank => slips'[i].line \in lines \cup {0}
    BY <1>1, <1>42 DEF WrittenOnly
  <2> QED
    BY <2>1, <2>2, <2>3 DEF WrittenOnly
<1>7. OneIdPerLine'
  <2> SUFFICES ASSUME form \in {"note", "fact"}
               PROVE  \A i \in 0..LastSlip : \A l \in Lines \ {0} : BearsLine(i, l)' => BearsLine(i, l)
    BY <1>1 DEF OneIdPerLine
  <2> TAKE i \in 0..LastSlip
  <2> TAKE l \in Lines \ {0}
  <2> HAVE BearsLine(i, l)'
  <2>1. CASE slate' # Blank /\ slate'.id = i /\ slate'.line = l
    BY <2>1 DEF BearsLine
  <2>2. CASE \E m \in posted' \cup adrift' : m.id = i /\ m.line = l
    BY <2>2 DEF BearsLine
  <2>3. CASE i \in Slips /\ slips'[i] # Blank /\ slips'[i].line = l
    BY <1>42, <2>3 DEF BearsLine
  <2> QED
    BY <2>1, <2>2, <2>3 DEF BearsLine
<1>8. Stored \subseteq Stored'
  BY <1>4 DEF Stored
<1> QED
  BY <1>3, <1>5, <1>6, <1>7, <1>8

LEMMA FormsStart == ComposerInit => RowsInv /\ CalmInv
<1> SUFFICES ASSUME ComposerInit PROVE RowsInv /\ CalmInv
  OBVIOUS
<1>1. form \in FormKinds /\ drawn \in 0..LastSlip /\ LastSlip \in Nat
  BY ComposersAssumption DEF ComposerInit
<1>2. (CHOOSE p \in Places : TRUE) \in Places
  BY ComposersAssumption
<1>3. /\ 0 \in 0..LastSlip /\ 1 \in 0..LastSlip /\ 0 \in Lines
  BY ComposersAssumption DEF Lines
<1>4. \A i \in 0..LastSlip : Loaded(i) \in Boxes /\ Loaded(i).line = 0 /\ Loaded(i).id = i
  BY <1>2, <1>3 DEF Loaded, Boxes
<1>5. /\ form = "fact" => slate = Loaded(1)
      /\ form = "reach" => slate = Loaded(0)
      /\ form \in {"note", "paragraph"} => slate = Blank
  BY <1>1 DEF ComposerInit, FormKinds
<1>6. slate \in Boxes \cup {Blank} /\ (slate # Blank => slate.line = 0)
  BY <1>1, <1>3, <1>4, <1>5 DEF FormKinds
<1>7. /\ keptBox = Blank /\ posted = {} /\ adrift = {} /\ lines = {} /\ unsettled = {} /\ said = {}
      /\ \A i \in Slips : slips[i] = Blank
  BY DEF ComposerInit
<1>8. ComposerTypeOK
  BY <1>1, <1>6 DEF ComposerInit, ComposerTypeOK
<1>9. FormsHaveIds
  BY <1>3, <1>4, <1>5, <1>6 DEF FormsHaveIds
<1>13. KeptIsShown /\ AllFit /\ WrittenOnly /\ SaidIsStored
  BY <1>6, <1>7 DEF KeptIsShown, AllFit, WrittenOnly, SaidIsStored
<1>10. KeptFormsAreOpen
  BY <1>3, <1>4, <1>5, BlankAssumption DEF KeptFormsAreOpen, IsKept
<1>11. OneIdPerLine
  BY <1>6, <1>7 DEF OneIdPerLine, BearsLine
<1>12. CalmInv
  BY <1>7 DEF CalmInv, OneFormIsSent, SentIsShown, UnsettledIsShown
<1> QED
  BY <1>8, <1>9, <1>10, <1>11, <1>12, <1>13 DEF RowsInv

\* Where the invariant of the rows is left to show after a quiet step.
LEMMA QuietKeepsRows ==
  ASSUME RowsInv, form' = form, lines' = lines,
         posted' \subseteq posted \cup adrift, adrift' \subseteq posted \cup adrift,
         slips' = slips \/ \E m \in posted \cup adrift : Store(m),
         \/ slate' = slate
         \/ slate' = Blank /\ ~IsKept
         \/ \E i \in 0..LastSlip : slate' = Loaded(i) /\ keptBox' = Blank /\ (form \in {"note", "fact"} => i # 0)
         \/ ~IsKept /\ \E i \in 0..LastSlip, p \in Places :
               slate' = [id |-> i, place |-> p, line |-> 0] /\ (form \in {"note", "fact"} => i # 0)
         \/ /\ form = "reach" /\ keptBox' = slate'
            /\ \E i \in 1..LastSlip : slate' = [slate EXCEPT !.id = i],
         \/ keptBox' = Blank
         \/ keptBox' = keptBox /\ (slate' = slate \/ ~IsKept)
         \/ keptBox' = slate' /\ form = "reach",
         unsettled' \subseteq unsettled, drawn' \in 0..LastSlip,
         said' \subseteq said \cup (Stored' \cap SlipRow)
  PROVE  RowsInv'
<1>1. /\ ComposerTypeOK /\ FormsHaveIds /\ KeptFormsAreOpen /\ KeptIsShown /\ SaidIsStored
  BY DEF RowsInv
<1>2. /\ slate \in Boxes \cup {Blank} /\ keptBox \in Boxes \cup {Blank} /\ form \in FormKinds
      /\ posted \subseteq Posts /\ adrift \subseteq Posts /\ lines \subseteq Lines
      /\ unsettled \subseteq Lines /\ said \subseteq SlipRow
  BY <1>1 DEF ComposerTypeOK
<1>3. /\ \A i \in 0..LastSlip : Loaded(i) \in Boxes /\ Loaded(i).line = 0 /\ Loaded(i).id = i
      /\ \A b \in Boxes : b # Blank /\ b.line \in Lines
      /\ 0 \in Lines /\ LastSlip \in Nat
  BY <1>1, FormsTyped
<1>4. \A i \in 0..LastSlip, p \in Places :
         /\ [id |-> i, place |-> p, line |-> 0] \in Boxes
         /\ [id |-> i, place |-> p, line |-> 0].line = 0
  BY <1>3 DEF Boxes
<1>5. form = "reach" => slate \in Boxes
  BY <1>1, <1>2 DEF KeptFormsAreOpen, IsKept
<1>6. \A i \in 1..LastSlip : form = "reach" =>
         /\ [slate EXCEPT !.id = i] \in Boxes
         /\ [slate EXCEPT !.id = i].line = slate.line /\ [slate EXCEPT !.id = i].id = i
  BY <1>3, <1>5 DEF Boxes
<1>7. /\ slate' \in Boxes \cup {Blank}
      /\ slate' # Blank => \/ slate'.line = 0 /\ (form \in {"note", "fact"} => slate'.id # 0)
                           \/ slate' = slate
                           \/ /\ form = "reach" /\ slate # Blank /\ slate'.line = slate.line
                              /\ slate'.id \in 1..LastSlip
      /\ IsKept => slate' # Blank
  <2>1. CASE slate' = slate
    BY <1>1, <1>2, <2>1 DEF KeptFormsAreOpen
  <2>2. CASE slate' = Blank /\ ~IsKept
    BY <2>2
  <2>3. CASE \E i \in 0..LastSlip : slate' = Loaded(i) /\ keptBox' = Blank /\ (form \in {"note", "fact"} => i # 0)
    BY <1>3, <2>3 DEF IsKept
  <2>4. CASE ~IsKept /\ \E i \in 0..LastSlip, p \in Places :
          slate' = [id |-> i, place |-> p, line |-> 0] /\ (form \in {"note", "fact"} => i # 0)
    BY <1>2, <1>3, <1>4, <2>4
  <2>5. CASE form = "reach" /\ \E i \in 1..LastSlip : slate' = [slate EXCEPT !.id = i]
    BY <1>3, <1>5, <1>6, <2>5
  <2> QED
    BY <2>1, <2>2, <2>3, <2>4, <2>5
<1>8. /\ slips' \in [Slips -> SlipRow \cup {Blank}]
      /\ AllFit' /\ WrittenOnly' /\ OneIdPerLine' /\ Stored \subseteq Stored'
  <2>1. slate' # Blank => \/ slate'.line = 0
                          \/ /\ slate # Blank /\ slate'.line = slate.line
                             /\ form \in {"note", "fact"} => slate'.id = slate.id
    BY <1>7
  <2> QED
    BY <2>1, QuietStep
<1>9. keptBox' \in Boxes \cup {Blank} /\ KeptIsShown'
  BY <1>1, <1>2, <1>7 DEF KeptIsShown, IsKept
<1>10. ComposerTypeOK'
  <2>1. posted' \subseteq Posts /\ adrift' \subseteq Posts /\ said' \subseteq SlipRow
    BY <1>2
  <2> QED
    BY <1>2, <1>7, <1>8, <1>9, <2>1 DEF ComposerTypeOK
<1>11. FormsHaveIds'
  BY <1>1, <1>3, <1>7 DEF FormsHaveIds
<1>12. KeptFormsAreOpen'
  BY <1>7 DEF KeptFormsAreOpen, IsKept
<1>13. SaidIsStored'
  BY <1>1, <1>8 DEF SaidIsStored
<1> QED
  BY <1>8, <1>9, <1>10, <1>11, <1>12, <1>13 DEF RowsInv

LEMMA ReloadKeepsRows == RowsInv /\ PageReloads => RowsInv'
<1> SUFFICES ASSUME RowsInv, PageReloads PROVE RowsInv'
  OBVIOUS
<1>1. ComposerTypeOK /\ KeptIsShown
  BY DEF RowsInv
<1>2. drawn \in 0..LastSlip /\ LastSlip \in Nat /\ form \in FormKinds /\ 0 \in 0..LastSlip
  BY <1>1, FormsTyped DEF ComposerTypeOK
<1>3. /\ form' = form /\ lines' = lines /\ posted' = {} /\ adrift' = adrift \cup posted
      /\ slips' = slips /\ said' = said /\ keptBox' = keptBox /\ unsettled' \subseteq unsettled
  BY DEF PageReloads
<1>4. CASE IsKept /\ keptBox # Blank
  <2>1. slate' = slate /\ drawn' = drawn
    BY <1>1, <1>4 DEF PageReloads, KeptIsShown
  <2> QED
    BY <1>2, <1>3, <2>1, QuietKeepsRows
<1>5. CASE form = "fact" /\ keptBox = Blank
  <2>1. slate' = Loaded(drawn + 1) /\ drawn' = drawn + 1 /\ drawn < LastSlip
    BY <1>5 DEF PageReloads, IsKept
  <2>2. drawn + 1 \in 0..LastSlip /\ drawn + 1 # 0
    BY <1>2, <2>1
  <2>3. \E i \in 0..LastSlip : slate' = Loaded(i) /\ keptBox' = Blank /\ (form \in {"note", "fact"} => i # 0)
    BY <1>3, <1>5, <2>1, <2>2
  <2> QED
    BY <1>3, <1>5, <2>1, <2>2, <2>3, QuietKeepsRows
<1>6. CASE form = "reach" /\ keptBox = Blank
  <2>1. slate' = Loaded(0) /\ drawn' = drawn
    BY <1>6 DEF PageReloads, IsKept
  <2>2. \E i \in 0..LastSlip : slate' = Loaded(i) /\ keptBox' = Blank /\ (form \in {"note", "fact"} => i # 0)
    BY <1>2, <1>3, <1>6, <2>1
  <2> QED
    BY <1>2, <1>3, <1>6, <2>1, <2>2, QuietKeepsRows
<1>7. CASE ~IsKept
  <2>1. slate' = Blank /\ drawn' = drawn
    BY <1>7 DEF PageReloads, IsKept
  <2> QED
    BY <1>2, <1>3, <1>7, <2>1, QuietKeepsRows
<1> QED
  BY <1>2, <1>4, <1>5, <1>6, <1>7 DEF IsKept, FormKinds

LEMMA AnswerKeepsRows ==
  ASSUME RowsInv, NEW m \in posted,
         AnswerRecorded(m) \/ AnswerClash(m) \/ AnswerReset(m) \/ SendFails(m)
  PROVE  RowsInv'
<1>1. ComposerTypeOK /\ KeptIsShown /\ KeptFormsAreOpen
  BY DEF RowsInv
<1>2. /\ drawn \in 0..LastSlip /\ LastSlip \in Nat /\ 0 \in 0..LastSlip /\ m \in Posts
      /\ slips \in [Slips -> SlipRow \cup {Blank}] /\ m.id \in Slips
  BY <1>1, FormsTyped DEF ComposerTypeOK
<1>3. form' = form /\ lines' = lines /\ posted' = posted \ {m}
  BY DEF AnswerRecorded, AnswerClash, AnswerReset, SendFails
<1>4. CASE AnswerRecorded(m)
  <2>1. Store(m) /\ ~Clashes(m) /\ adrift' = adrift /\ unsettled' \subseteq unsettled
        /\ said' = said \cup {RowFor(m)}
    BY <1>4 DEF AnswerRecorded
  <2>2. RowFor(m) \in Stored' /\ RowFor(m) \in SlipRow
    BY <1>1, <1>2, <2>1, RowsStay DEF Stored
  <2>3. CASE m.kind = "order"
    <3>1. slate' = slate /\ keptBox' = keptBox /\ drawn' = drawn
      BY <1>4, <2>3 DEF AnswerRecorded
    <3> QED
      BY <1>2, <1>3, <2>1, <2>2, <3>1, QuietKeepsRows
  <2>4. CASE m.kind # "order" /\ form = "fact"
    <3>1. keptBox' = Blank /\ drawn' = drawn + 1 /\ drawn < LastSlip /\ slate' = Loaded(drawn + 1)
      BY <1>4, <2>4 DEF AnswerRecorded
    <3>2. drawn + 1 \in 0..LastSlip /\ drawn + 1 # 0
      BY <1>2, <3>1
    <3>3. \E i \in 0..LastSlip : slate' = Loaded(i) /\ keptBox' = Blank /\ (form \in {"note", "fact"} => i # 0)
      BY <3>1, <3>2
    <3> QED
      BY <1>3, <2>1, <2>2, <3>1, <3>2, <3>3, QuietKeepsRows
  <2>5. CASE m.kind # "order" /\ form = "reach"
    <3>1. keptBox' = Blank /\ drawn' = drawn /\ slate' = Loaded(0)
      BY <1>4, <2>5 DEF AnswerRecorded
    <3>2. \E i \in 0..LastSlip : slate' = Loaded(i) /\ keptBox' = Blank /\ (form \in {"note", "fact"} => i # 0)
      BY <1>2, <2>5, <3>1
    <3> QED
      BY <1>2, <1>3, <2>1, <2>2, <3>1, <3>2, QuietKeepsRows
  <2>6. CASE m.kind # "order" /\ form \notin {"fact", "reach"}
    <3>1. keptBox' = Blank /\ drawn' = drawn /\ slate' = Blank /\ ~IsKept
      BY <1>4, <2>6 DEF AnswerRecorded, IsKept
    <3> QED
      BY <1>2, <1>3, <2>1, <2>2, <3>1, QuietKeepsRows
  <2> QED
    BY <2>3, <2>4, <2>5, <2>6
<1>5. CASE AnswerClash(m)
  <2>1. slips' = slips /\ adrift' = adrift /\ unsettled' = unsettled /\ said' = said
    BY <1>5 DEF AnswerClash
  <2>2. CASE form = "reach"
    <3>1. /\ drawn' = drawn + 1 /\ drawn < LastSlip
          /\ slate' = [slate EXCEPT !.id = drawn + 1] /\ keptBox' = slate'
      BY <1>5, <2>2 DEF AnswerClash
    <3>2. drawn + 1 \in 1..LastSlip /\ drawn + 1 \in 0..LastSlip /\ drawn + 1 # 0
      BY <1>2, <3>1
    <3>3. \E i \in 1..LastSlip : slate' = [slate EXCEPT !.id = i]
      BY <3>1, <3>2
    <3> QED
      BY <1>3, <2>1, <2>2, <3>1, <3>2, <3>3, QuietKeepsRows
  <2>3. CASE form # "reach"
    <3>1. slate' = slate /\ keptBox' = keptBox /\ drawn' = drawn
      BY <1>5, <2>3 DEF AnswerClash
    <3> QED
      BY <1>2, <1>3, <2>1, <3>1, QuietKeepsRows
  <2> QED
    BY <2>2, <2>3
<1>6. CASE AnswerReset(m)
  <2>1. /\ slips' = slips /\ adrift' = adrift /\ unsettled' \subseteq unsettled /\ said' = said
        /\ slate' = Loaded(0) /\ keptBox' = Blank /\ drawn' = drawn
    BY <1>6 DEF AnswerReset
  <2>2. \E i \in 0..LastSlip : slate' = Loaded(i) /\ keptBox' = Blank /\ (form \in {"note", "fact"} => i # 0)
    BY <1>2, <1>6, <2>1 DEF AnswerReset
  <2> QED
    BY <1>2, <1>3, <2>1, <2>2, QuietKeepsRows
<1>7. CASE SendFails(m)
  <2>1. /\ slate' = slate /\ keptBox' = keptBox /\ drawn' = drawn /\ unsettled' = unsettled
        /\ said' = said
        /\ slips' = slips \/ Store(m)
        /\ adrift' \subseteq adrift \cup {m}
    BY <1>7 DEF SendFails
  <2> QED
    BY <1>2, <1>3, <2>1, QuietKeepsRows
<1> QED
  BY <1>4, <1>5, <1>6, <1>7

LEMMA LateKeepsRows ==
  ASSUME RowsInv, NEW m \in adrift, LateArrives(m)
  PROVE  RowsInv'
<1>1. drawn \in 0..LastSlip
  BY DEF RowsInv, ComposerTypeOK
<1>2. /\ form' = form /\ lines' = lines /\ posted' = posted /\ adrift' = adrift \ {m}
      /\ slate' = slate /\ keptBox' = keptBox /\ drawn' = drawn /\ unsettled' = unsettled
      /\ said' = said /\ (slips' = slips \/ Store(m))
  BY DEF LateArrives
<1> QED
  BY <1>1, <1>2, QuietKeepsRows

\* Opening and closing.
LEMMA OpeningKeepsRows ==
  ASSUME RowsInv, NEW p \in Places,
         OpenPanel(p) \/ ClosePanel \/ OpenComposer(p) \/ CancelComposer
  PROVE  RowsInv'
<1>1. drawn \in 0..LastSlip /\ LastSlip \in Nat /\ 0 \in 0..LastSlip
  BY FormsTyped DEF RowsInv, ComposerTypeOK
<1>2. /\ form' = form /\ lines' = lines /\ posted' = posted /\ adrift' = adrift
      /\ keptBox' = keptBox /\ slips' = slips /\ said' = said /\ unsettled' \subseteq unsettled
      /\ ~IsKept /\ form \in {"note", "paragraph"}
  BY DEF OpenPanel, ClosePanel, OpenComposer, CancelComposer, IsKept
<1>3. drawn' \in 0..LastSlip /\ (OpenPanel(p) => drawn' # 0)
  BY <1>1 DEF OpenPanel, ClosePanel, OpenComposer, CancelComposer
<1>4. CASE OpenPanel(p)
  <2>1. \E i \in 0..LastSlip, q \in Places :
          slate' = [id |-> i, place |-> q, line |-> 0] /\ (form \in {"note", "fact"} => i # 0)
    BY <1>3, <1>4 DEF OpenPanel
  <2> QED
    BY <1>2, <1>3, <2>1, QuietKeepsRows
<1>5. CASE OpenComposer(p)
  <2>1. \E i \in 0..LastSlip, q \in Places :
          slate' = [id |-> i, place |-> q, line |-> 0] /\ (form \in {"note", "fact"} => i # 0)
    BY <1>1, <1>5 DEF OpenComposer
  <2> QED
    BY <1>2, <1>3, <2>1, QuietKeepsRows
<1>6. CASE ClosePanel \/ CancelComposer
  <2>1. slate' = Blank
    BY <1>6 DEF ClosePanel, CancelComposer
  <2> QED
    BY <1>2, <1>3, <2>1, QuietKeepsRows
<1> QED
  BY <1>4, <1>5, <1>6

\* A new line is written where no other line of the behaviour is.
LEMMA WriteKeepsRows ==
  ASSUME RowsInv, NEW p \in Places, NEW l \in Lines, Write(p, l)
  PROVE  RowsInv'
<1>1. /\ ComposerTypeOK /\ FormsHaveIds /\ KeptFormsAreOpen /\ KeptIsShown /\ AllFit
      /\ WrittenOnly /\ OneIdPerLine /\ SaidIsStored
  BY DEF RowsInv
<1>2. /\ slate \in Boxes /\ slate # Blank /\ l \notin lines /\ l # 0
      /\ form' = form /\ slips' = slips /\ posted' = posted /\ adrift' = adrift /\ said' = said
      /\ lines' = lines \cup {l} /\ unsettled' \subseteq unsettled \cup {l}
      /\ keptBox' = KeptAs(slate)'
  BY <1>1 DEF Write, ComposerTypeOK, KeptAs, IsKept
<1>3. drawn \in 0..LastSlip /\ LastSlip \in Nat
  BY <1>1, FormsTyped DEF ComposerTypeOK
<1>4. /\ slate' \in Boxes /\ slate'.line = l
      /\ slate'.id \in 0..LastSlip /\ drawn' \in 0..LastSlip
      /\ form # "reach" => slate'.id = slate.id
      /\ form = "reach" => slate'.id # 0
  <2>1. CASE form = "reach" /\ slate.id = 0
    <3>1. drawn < LastSlip /\ drawn' = drawn + 1 /\ slate' = [id |-> drawn + 1, place |-> p, line |-> l]
      BY <2>1 DEF Write
    <3> QED
      BY <1>2, <1>3, <2>1, <3>1 DEF Boxes
  <2>2. CASE ~(form = "reach" /\ slate.id = 0)
    <3>1. drawn' = drawn /\ slate' = [slate EXCEPT !.place = p, !.line = l]
      BY <2>2 DEF Write
    <3> QED
      BY <1>2, <1>3, <2>2, <3>1 DEF Boxes
  <2> QED
    BY <2>1, <2>2
<1>5. slate' # Blank
  BY <1>1, <1>4, FormsTyped
<1>6. ComposerTypeOK'
  <2>1. keptBox' \in Boxes \cup {Blank}
    BY <1>2, <1>4, <1>5 DEF KeptAs
  <2>2. lines' \subseteq Lines /\ unsettled' \subseteq Lines
    BY <1>1, <1>2 DEF ComposerTypeOK
  <2> QED
    BY <1>1, <1>2, <1>4, <1>5, <2>1, <2>2 DEF ComposerTypeOK
<1>7. FormsHaveIds'
  <2>1. form # "reach" => slate'.id = slate.id /\ (form # "paragraph" => slate.id # 0)
    BY <1>1, <1>2, <1>4 DEF FormsHaveIds, ComposerTypeOK, FormKinds
  <2> QED
    BY <1>2, <1>4, <2>1 DEF FormsHaveIds
<1>8. KeptFormsAreOpen'
  BY <1>5 DEF KeptFormsAreOpen
<1>9. KeptIsShown'
  BY <1>2 DEF KeptIsShown, KeptAs
<1>10. AllFit'
  BY <1>1, <1>2 DEF AllFit, Fits, Asked
<1>11. WrittenOnly'
  BY <1>1, <1>2, <1>4, <1>5 DEF WrittenOnly
<1>12. OneIdPerLine'
  <2> SUFFICES ASSUME form \in {"note", "fact"}, NEW i \in 0..LastSlip, NEW j \in 0..LastSlip,
                      NEW k \in Lines \ {0}, BearsLine(i, k)', BearsLine(j, k)'
               PROVE  i = j
    BY <1>2 DEF OneIdPerLine
  <2>1. \A h \in 0..LastSlip : BearsLine(h, k)' =>
           \/ h = slate.id /\ k = l
           \/ BearsLine(h, k) /\ k # l
    BY <1>1, <1>2, <1>4, <1>5 DEF BearsLine, WrittenOnly
  <2> QED
    BY <1>1, <2>1 DEF OneIdPerLine
<1>13. SaidIsStored'
  BY <1>1, <1>2 DEF SaidIsStored, Stored
<1> QED
  BY <1>6, <1>7, <1>8, <1>9, <1>10, <1>11, <1>12, <1>13 DEF RowsInv

LEMMA SendKeepsRows ==
  ASSUME RowsInv, NEW k \in RowKinds, SendForm(k)
  PROVE  RowsInv'
<1>1. /\ ComposerTypeOK /\ FormsHaveIds /\ KeptFormsAreOpen /\ KeptIsShown /\ AllFit
      /\ WrittenOnly /\ OneIdPerLine /\ SaidIsStored
  BY DEF RowsInv
<1> DEFINE new == [id |-> slate'.id, place |-> slate.place, line |-> slate.line, kind |-> k]
<1>2. /\ slate \in Boxes /\ slate # Blank /\ slate.line # 0 /\ k \in Asked
      /\ form' = form /\ slips' = slips /\ keptBox' = keptBox /\ adrift' = adrift /\ said' = said
      /\ lines' = lines /\ unsettled' = unsettled /\ posted' = posted \cup {new}
  BY <1>1 DEF SendForm, ComposerTypeOK
<1>3. drawn \in 0..LastSlip /\ LastSlip \in Nat
  BY <1>1, FormsTyped DEF ComposerTypeOK
<1>4. /\ slate' \in Boxes /\ slate'.id \in Slips /\ slate'.line = slate.line /\ drawn' \in 0..LastSlip
      /\ form # "paragraph" => slate' = slate
  <2>1. CASE form = "paragraph"
    <3>1. drawn < LastSlip /\ drawn' = drawn + 1 /\ slate' = [slate EXCEPT !.id = drawn + 1]
      BY <2>1 DEF SendForm, DrawsPerClick
    <3> QED
      BY <1>2, <1>3, <2>1, <3>1 DEF Boxes, Slips
  <2>2. CASE form # "paragraph"
    <3>1. drawn' = drawn /\ slate' = slate
      BY <2>2 DEF SendForm, DrawsPerClick
    <3>2. slate.id # 0
        BY <1>1, <1>2, <2>2 DEF FormsHaveIds, ComposerTypeOK, FormKinds
    <3> QED
      BY <1>2, <1>3, <3>1, <3>2 DEF Boxes, Slips
  <2> QED
    BY <2>1, <2>2
<1>5. slate' # Blank
  BY <1>1, <1>4, FormsTyped
<1>6. new \in Posts /\ new.id = slate'.id /\ new.line = slate.line /\ new.kind = k
  BY <1>2, <1>4 DEF Posts, Boxes
<1> HIDE DEF new
<1>7. ComposerTypeOK'
  BY <1>1, <1>2, <1>4, <1>6 DEF ComposerTypeOK
<1>8. FormsHaveIds'
  BY <1>1, <1>2, <1>4 DEF FormsHaveIds
<1>9. KeptFormsAreOpen'
  BY <1>5 DEF KeptFormsAreOpen
<1>10. KeptIsShown'
  BY <1>1, <1>2, <1>4 DEF KeptIsShown, IsKept
<1>11. AllFit'
  <2>1. k # "order"
    BY <1>1, <1>2 DEF Asked, ComposerTypeOK, FormKinds
  <2>2. Fits(new)
    BY <1>2, <1>6, <2>1 DEF Fits
  <2>3. \A m : Fits(m)' <=> Fits(m)
    BY <1>2 DEF Fits, Asked
  <2> QED
    BY <1>1, <1>2, <2>2, <2>3 DEF AllFit
<1>12. WrittenOnly'
  BY <1>1, <1>2, <1>4, <1>6 DEF WrittenOnly
<1>13. OneIdPerLine'
  <2> SUFFICES ASSUME form \in {"note", "fact"}
               PROVE  \A i \in 0..LastSlip : \A l \in Lines \ {0} : BearsLine(i, l)' => BearsLine(i, l)
    BY <1>1, <1>2 DEF OneIdPerLine
  <2> QED
    BY <1>2, <1>4, <1>6 DEF BearsLine
<1>14. SaidIsStored'
  BY <1>1, <1>2 DEF SaidIsStored, Stored
<1> QED
  BY <1>7, <1>8, <1>9, <1>10, <1>11, <1>12, <1>13, <1>14 DEF RowsInv

LEMMA OrderKeepsRows ==
  ASSUME RowsInv, NEW p \in Places, Order(p)
  PROVE  RowsInv'
<1>1. /\ ComposerTypeOK /\ FormsHaveIds /\ KeptFormsAreOpen /\ KeptIsShown /\ AllFit
      /\ WrittenOnly /\ OneIdPerLine /\ SaidIsStored
  BY DEF RowsInv
<1> DEFINE new == [id |-> drawn', place |-> p, line |-> 0, kind |-> "order"]
<1>2. /\ form = "paragraph" /\ slate = Blank /\ drawn < LastSlip /\ drawn' = drawn + 1
      /\ form' = form /\ slate' = slate /\ slips' = slips /\ keptBox' = keptBox /\ adrift' = adrift
      /\ said' = said /\ lines' = lines /\ unsettled' = unsettled /\ posted' = posted \cup {new}
  BY DEF Order
<1>3. drawn \in 0..LastSlip /\ LastSlip \in Nat /\ 0 \in Lines
  BY <1>1, FormsTyped DEF ComposerTypeOK
<1>4. /\ drawn' \in 0..LastSlip
      /\ new \in Posts /\ new.line = 0 /\ new.kind = "order"
  BY <1>2, <1>3 DEF Posts, Slips, RowKinds
<1> HIDE DEF new
<1>5. ComposerTypeOK'
  BY <1>1, <1>2, <1>4 DEF ComposerTypeOK
<1>6. FormsHaveIds' /\ KeptFormsAreOpen' /\ KeptIsShown'
  BY <1>1, <1>2 DEF FormsHaveIds, KeptFormsAreOpen, KeptIsShown, IsKept
<1>7. AllFit'
  <2>1. Fits(new)
    BY <1>2, <1>4 DEF Fits
  <2>2. \A m : Fits(m)' <=> Fits(m)
    BY <1>2 DEF Fits, Asked
  <2> QED
    BY <1>1, <1>2, <2>1, <2>2 DEF AllFit
<1>8. WrittenOnly'
  BY <1>1, <1>2, <1>4 DEF WrittenOnly
<1>9. OneIdPerLine' /\ SaidIsStored'
  BY <1>1, <1>2 DEF OneIdPerLine, SaidIsStored, Stored
<1> QED
  BY <1>5, <1>6, <1>7, <1>8, <1>9 DEF RowsInv

LEMMA StepKeepsRows == RowsInv /\ [ComposerNext]_composerVars => RowsInv'
<1>1. RowsInv /\ UNCHANGED composerVars => RowsInv'
  BY DEF RowsInv, composerVars, ComposerTypeOK, FormsHaveIds, KeptFormsAreOpen, KeptIsShown,
     AllFit, Fits, Asked, WrittenOnly, OneIdPerLine, BearsLine, SaidIsStored, Stored, IsKept
<1>2. ASSUME RowsInv, ComposerNext PROVE RowsInv'
  <2>1. CASE \E p \in Places : OpenPanel(p) \/ OpenComposer(p)
    BY <1>2, <2>1, OpeningKeepsRows
  <2>2. CASE ClosePanel \/ CancelComposer
    BY <1>2, <2>2, ComposersAssumption, OpeningKeepsRows
  <2>3. CASE \E p \in Places : Order(p) \/ \E l \in Lines : Write(p, l)
    BY <1>2, <2>3, OrderKeepsRows, WriteKeepsRows
  <2>4. CASE \E k \in RowKinds : SendForm(k)
    BY <1>2, <2>4, SendKeepsRows
  <2>5. CASE PageReloads
    BY <1>2, <2>5, ReloadKeepsRows
  <2>6. CASE \E m \in posted : AnswerRecorded(m) \/ AnswerClash(m) \/ AnswerReset(m) \/ SendFails(m)
    BY <1>2, <2>6, AnswerKeepsRows
  <2>7. CASE \E m \in adrift : LateArrives(m)
    BY <1>2, <2>7, LateKeepsRows
  <2> QED
    BY <1>2, <2>1, <2>2, <2>3, <2>4, <2>5, <2>6, <2>7 DEF ComposerNext
<1> QED
  BY <1>1, <1>2

\* Nobody goes on while a form is sent: one form is sent at a time and stays on the screen.
LEMMA StepKeepsCalm ==
  ASSUME ~MayGoOn, RowsInv, CalmInv, [ComposerNext]_composerVars
  PROVE  CalmInv'
<1>1. OneFormIsSent /\ SentIsShown /\ UnsettledIsShown
  BY DEF CalmInv
<1>2. ComposerTypeOK /\ KeptFormsAreOpen /\ KeptIsShown /\ AllFit
  BY DEF RowsInv
<1>3. /\ \A b \in Boxes : b # Blank
      /\ \A i \in 0..LastSlip : Loaded(i) # Blank
      /\ \A i \in 0..LastSlip, p \in Places, l \in Lines : [id |-> i, place |-> p, line |-> l] # Blank
  BY <1>2, FormsTyped DEF Boxes
<1>4. /\ slate \in Boxes \cup {Blank} /\ drawn \in 0..LastSlip /\ LastSlip \in Nat /\ 0 \in Lines
      /\ form \in FormKinds
  BY <1>2, FormsTyped DEF ComposerTypeOK
<1>5. CASE UNCHANGED composerVars
  BY <1>1, <1>5 DEF composerVars, CalmInv, OneFormIsSent, SentIsShown, UnsettledIsShown, IsKept
<1>6. ASSUME NEW p \in Places, OpenPanel(p) \/ OpenComposer(p) PROVE CalmInv'
  <2>1. posted' = {} /\ unsettled' = {}
    BY <1>1, <1>6 DEF OpenPanel, OpenComposer, Free, UnsettledIsShown
  <2> QED
    BY <2>1 DEF CalmInv, OneFormIsSent, SentIsShown, UnsettledIsShown
<1>7. CASE ClosePanel \/ CancelComposer
  <2>1. posted' = {} /\ unsettled' = {}
    BY <1>1, <1>7 DEF ClosePanel, CancelComposer, Free, UnsettledIsShown
  <2> QED
    BY <2>1 DEF CalmInv, OneFormIsSent, SentIsShown, UnsettledIsShown
<1>8. CASE PageReloads
  <2>1. posted' = {} /\ form' = form /\ keptBox' = keptBox
        /\ (IsKept => unsettled' = unsettled) /\ (~IsKept => unsettled' = {})
    BY <1>8 DEF PageReloads
  <2>2. IsKept /\ keptBox # Blank => slate' = slate
    BY <1>2, <1>8 DEF PageReloads, KeptIsShown
  <2> QED
    BY <1>1, <2>1, <2>2 DEF CalmInv, OneFormIsSent, SentIsShown, UnsettledIsShown, IsKept
<1>9. ASSUME NEW p \in Places, NEW l \in Lines, Write(p, l) PROVE CalmInv'
  <2>1. /\ posted' = {} /\ slate # Blank /\ l # 0 /\ form' = form /\ keptBox' = KeptAs(slate)'
        /\ unsettled' = (unsettled \ {slate.line}) \cup {l}
    BY <1>9 DEF Write, Free, KeptAs, IsKept
  <2>2. slate' # Blank /\ slate'.line = l
    <3>1. slate \in Boxes
      BY <1>4, <2>1
    <3>2. CASE form = "reach" /\ slate.id = 0
      <4>1. slate' = [id |-> drawn + 1, place |-> p, line |-> l] /\ drawn + 1 \in 0..LastSlip
        BY <1>4, <1>9, <3>2 DEF Write
      <4> QED
        BY <1>3, <4>1
    <3>3. CASE ~(form = "reach" /\ slate.id = 0)
      <4>1. slate' = [slate EXCEPT !.place = p, !.line = l]
        BY <1>9, <3>3 DEF Write
      <4>2. slate' \in Boxes /\ slate'.line = l
        BY <3>1, <4>1 DEF Boxes
      <4> QED
        BY <1>3, <4>2
    <3> QED
      BY <3>2, <3>3
  <2>3. unsettled' = {l}
    BY <1>1, <2>1 DEF UnsettledIsShown
  <2>4. UnsettledIsShown'
    BY <2>1, <2>2, <2>3 DEF UnsettledIsShown, KeptAs, IsKept
  <2> QED
    BY <2>1, <2>4 DEF CalmInv, OneFormIsSent, SentIsShown
<1>10. ASSUME NEW k \in RowKinds, SendForm(k) PROVE CalmInv'
  <2> DEFINE new == [id |-> slate'.id, place |-> slate.place, line |-> slate.line, kind |-> k]
  <2>1. /\ slate \in Boxes /\ slate # Blank /\ slate.line # 0 /\ k \in Asked
        /\ form' = form /\ keptBox' = keptBox /\ unsettled' = unsettled
        /\ posted' = posted \cup {new}
    BY <1>4, <1>10 DEF SendForm
  <2>2. posted = {}
    BY <1>1, <1>4, <1>10, <2>1 DEF SendForm, SentIsShown
  <2>3. slate' \in Boxes /\ slate'.line = slate.line /\ slate'.place = slate.place
    <3>1. CASE form = "paragraph"
      <4>1. drawn + 1 \in 0..LastSlip /\ slate' = [slate EXCEPT !.id = drawn + 1]
        BY <1>4, <1>10, <3>1 DEF SendForm, DrawsPerClick
      <4> QED
        BY <2>1, <4>1 DEF Boxes
    <3>2. CASE form # "paragraph"
      BY <1>10, <2>1, <3>2 DEF SendForm, DrawsPerClick
    <3> QED
      BY <3>1, <3>2
  <2>4. slate' # Blank
    BY <1>3, <2>3
  <2>5. new.line = slate.line /\ new.place = slate.place /\ new.kind # "order"
    BY <1>4, <2>1 DEF Asked, FormKinds
  <2> HIDE DEF new
  <2>6. OneFormIsSent' /\ SentIsShown'
    BY <2>1, <2>2, <2>3, <2>4, <2>5 DEF OneFormIsSent, SentIsShown
  <2>7. UnsettledIsShown'
    BY <1>1, <2>1, <2>3, <2>4 DEF UnsettledIsShown, IsKept
  <2> QED
    BY <2>6, <2>7 DEF CalmInv
<1>11. ASSUME NEW p \in Places, Order(p) PROVE CalmInv'
  <2> DEFINE new == [id |-> drawn', place |-> p, line |-> 0, kind |-> "order"]
  <2>1. /\ slate = Blank /\ form' = form /\ slate' = slate /\ keptBox' = keptBox
        /\ unsettled' = unsettled /\ posted' = posted \cup {new} /\ new.kind = "order"
    BY <1>11 DEF Order
  <2> HIDE DEF new
  <2>2. \A m \in posted' : m.kind = "order"
    BY <1>1, <2>1 DEF SentIsShown
  <2>3. OneFormIsSent' /\ SentIsShown'
    BY <2>1, <2>2 DEF OneFormIsSent, SentIsShown
  <2>4. UnsettledIsShown'
    BY <1>1, <2>1 DEF UnsettledIsShown, IsKept
  <2> QED
    BY <2>3, <2>4 DEF CalmInv
<1>12. ASSUME NEW m \in posted, AnswerRecorded(m) \/ AnswerClash(m) \/ AnswerReset(m) \/ SendFails(m)
       PROVE  CalmInv'
  <2>1. form' = form /\ posted' = posted \ {m}
    BY <1>12 DEF AnswerRecorded, AnswerClash, AnswerReset, SendFails
  <2>2. OneFormIsSent'
    BY <1>1, <2>1 DEF OneFormIsSent
  <2>3. CASE m.kind = "order"
    <3>1. form = "paragraph"
      BY <1>2, <2>3 DEF AllFit, Fits
    <3>2. slate' = slate /\ keptBox' = keptBox /\ unsettled' \subseteq unsettled
      BY <1>12, <2>3, <3>1 DEF AnswerRecorded, AnswerClash, AnswerReset, SendFails
    <3> QED
      BY <1>1, <2>1, <2>2, <3>2 DEF CalmInv, SentIsShown, UnsettledIsShown, IsKept
  <2>4. CASE m.kind # "order"
    <3>1. posted' = {} /\ slate # Blank /\ slate.line = m.line
      BY <1>1, <2>1, <2>4 DEF OneFormIsSent, SentIsShown
    <3>2. CASE AnswerRecorded(m) \/ AnswerReset(m)
      <4>1. unsettled' = {}
        BY <1>1, <3>1, <3>2 DEF AnswerRecorded, AnswerReset, UnsettledIsShown
      <4> QED
        BY <3>1, <4>1 DEF CalmInv, OneFormIsSent, SentIsShown, UnsettledIsShown
    <3>3. CASE AnswerClash(m) /\ form = "reach"
      <4>1. /\ slate' = [slate EXCEPT !.id = drawn + 1] /\ drawn + 1 \in 0..LastSlip
            /\ keptBox' = slate' /\ unsettled' = unsettled
        BY <1>4, <3>3 DEF AnswerClash
      <4>2. slate' \in Boxes /\ slate'.line = slate.line
        BY <1>4, <3>1, <4>1 DEF Boxes
      <4> QED
        BY <1>1, <1>3, <3>1, <4>1, <4>2 DEF CalmInv, OneFormIsSent, SentIsShown, UnsettledIsShown
    <3>4. CASE SendFails(m) \/ (AnswerClash(m) /\ form # "reach")
      <4>1. slate' = slate /\ keptBox' = keptBox /\ unsettled' = unsettled
        BY <3>4 DEF AnswerClash, SendFails
      <4> QED
        BY <1>1, <2>1, <3>1, <4>1 DEF CalmInv, OneFormIsSent, SentIsShown, UnsettledIsShown, IsKept
    <3> QED
      BY <1>12, <3>2, <3>3, <3>4
  <2> QED
    BY <2>3, <2>4
<1>13. ASSUME NEW m \in adrift, LateArrives(m) PROVE CalmInv'
  <2>1. /\ form' = form /\ slate' = slate /\ keptBox' = keptBox /\ posted' = posted
        /\ unsettled' = unsettled
    BY <1>13 DEF LateArrives
  <2> QED
    BY <1>1, <2>1 DEF CalmInv, OneFormIsSent, SentIsShown, UnsettledIsShown, IsKept
<1> QED
  BY <1>5, <1>6, <1>7, <1>8, <1>9, <1>10, <1>11, <1>12, <1>13 DEF ComposerNext

-----------------------------------------------------------------------------

LEMMA RowsInvSuffices == RowsInv => ComposerTypeOK /\ SaidIsStored /\ OneRowPerWish
<1> SUFFICES ASSUME RowsInv PROVE OneRowPerWish
  BY DEF RowsInv
<1>1. ComposerTypeOK /\ AllFit /\ OneIdPerLine
  BY DEF RowsInv
<1> SUFFICES ASSUME NEW i \in Slips, NEW j \in Slips, slips[i] = slips[j], slips[i] # Blank,
                    slips[i].kind \in {"note", "fact"}
             PROVE  i = j
  BY DEF OneRowPerWish
<1>2. slips[i] \in SlipRow /\ i \in 0..LastSlip /\ j \in 0..LastSlip
  BY <1>1 DEF ComposerTypeOK, Slips
<1>3. slips[i].line \in Lines \ {0} /\ form \in {"note", "fact"}
  BY <1>1, <1>2 DEF AllFit, Fits, Asked, SlipRow
<1>4. BearsLine(i, slips[i].line) /\ BearsLine(j, slips[i].line)
  BY DEF BearsLine
<1> QED
  BY <1>1, <1>2, <1>3, <1>4 DEF OneIdPerLine

LEMMA CalmInvSuffices == RowsInv /\ CalmInv => NothingIsForgotten
<1> SUFFICES ASSUME RowsInv, CalmInv, NEW l \in unsettled
             PROVE  IF IsKept THEN keptBox # Blank /\ keptBox.line = l
                    ELSE (slate # Blank /\ slate.line = l) \/ \E m \in posted : m.line = l
  BY DEF NothingIsForgotten
<1>1. slate # Blank /\ slate.line = l /\ (IsKept => keptBox # Blank)
  BY DEF CalmInv, UnsettledIsShown
<1>2. keptBox # Blank => keptBox = slate
  BY DEF RowsInv, KeptIsShown
<1> QED
  BY <1>1, <1>2

\* What the editor is told is recorded is in the store as it was told, and a comment or a
\* fact is one row, however it is lost, repeated, reloaded or overtaken and whatever the
\* editor does meanwhile (editor.js against the recorded ids of editor-store-core.js).
THEOREM RowsAreAsTold ==
  ComposerSpec => [](ComposerTypeOK /\ SaidIsStored /\ OneRowPerWish)
<1>1. ComposerInit => RowsInv
  BY FormsStart
<1> QED
  BY <1>1, StepKeepsRows, RowsInvSuffices, PTL DEF ComposerSpec

FormsInv == RowsInv /\ (~MayGoOn => CalmInv)

LEMMA InitForms == ComposerInit => FormsInv
BY FormsStart DEF FormsInv

LEMMA StepKeepsForms == FormsInv /\ [ComposerNext]_composerVars => FormsInv'
BY StepKeepsRows, StepKeepsCalm DEF FormsInv

LEMMA FormsInvSuffices == FormsInv => (~MayGoOn => FormsKeepTheirWord)
BY RowsInvSuffices, CalmInvSuffices DEF FormsInv, FormsKeepTheirWord

\* As long as the editor does not go on while a form is sent, nothing that is written and
\* neither given up nor reported is forgotten either.
THEOREM FormsHold == ~MayGoOn => (ComposerSpec => []FormsKeepTheirWord)
<1> SUFFICES ASSUME ~MayGoOn PROVE ComposerSpec => []FormsKeepTheirWord
  OBVIOUS
<1>1. FormsInv => FormsKeepTheirWord
  BY FormsInvSuffices
<1> QED
  BY <1>1, InitForms, StepKeepsForms, PTL DEF ComposerSpec

=============================================================================
