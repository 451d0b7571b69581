# Formal models of the Sonsteng practicum's editing, release and budget systems

The repository serves a law practicum as static pages, together with the
programs that let a few named editors change the pages in place, that apply
those changes to the git repository without a human at the keyboard, that
release them to production after a human Publisher authorized it, and that
answer learners with hosted language models against a daily budget, in the
browser's pages as well as in the Worker behind them. This directory holds TLA+ models of those programs, TLC runs that check them on small
instances, and proofs that TLAPS checks for every instance.

Paths below are relative to the repository root.

## 1. The system

### 1.1 Parts, state and operations

| Part | Where | State it keeps | Operations |
| --- | --- | --- | --- |
| Suggestion store | `app/worker/src/editor-store-core.js`, `editor-status.js`, inside the Durable Object `EditorStore` | `suggestions` (status, group, batch, lease), `apply_batches` (phase, lease, commit, generator), `audit_log` | suggest, systemSuggest, decide, markDrift, reanchor, claimBatch, finalize, reconcile |
| Release ledger | the same object | `production_releases` with batches, events and fencing, `suggestions.production_release_id` | prepare (two schemas), backfill, authorize, claim, claimRestore, renew, transition |
| Publisher review | the same object, `editor-review.js` | change units, revisions, drafts, submissions, operation frontier | stage, submit, hold, release, verify |
| Canonical mutations | the same object | revert requests, mutation rows | request, claim, complete, fail, quarantine |
| Scoped changes | the same object, `scoped-confirmation.js` | scoped requests in canary and remainder phases | confirm, claim, finish |
| Budget counter | `app/worker/src/budget-core.js` inside `BudgetCounter` | budget row, `sessions`, `persona_turns`, one-shot reservations and settlements | preflight, settle, fail, rollback, reserveOneShot, settleOneShot, checkPool, charge |
| Chat, debrief, critique handlers | `index.js`, `chat-stream.js`, `debrief.js` | the request in progress | the calls above around a provider call |
| Apply engine | `tools/apply_suggestions.py` | its worktree, the three lists of rows, the canonical branch | reconcile, claim, patch, validate, build, parity, deploy, merge, done |
| Apply daemon | `tools/direct_apply_daemon.py` | a lock file, a state file | tick: reverts, engine, editorial pass, redeploys |
| Release executor and daemon | `tools/prod_release_executor.py`, `prod_release_daemon.py` | recovery registry, what the two targets serve | claim, deploy Pages and Worker, verify, restore, all under a heartbeat lease |
| Canonical ref CAS | `tools/canonical_ref_cas.py` | local main, the worktree, remote main, the tracking ref, a receipt | forward, restore, rehearsal |
| Scoped drafter | `tools/editor_scoped_drafts.py` | none but its pass | progress, claim, draft, post, resolve |
| Editor page | `app/editor/editor.js` | block sessions, drafts in web storage, suggestion ids, the dialog, the forms | type, auto-save, send, retry, conflict, reload |
| Interview page and galley | `app/chat/chat.js`, `critique.js` | transcript in session storage, the session token, the widget | mint, send, retry, stream, reload |
| Assessment records and review page | `assessment-*.js`, `panel.js`, `editor-store.js` | audit records, overrides, a retention alarm | record, override, delete, expire |
| The editor's door | `editor-auth.js`, `access-jwt.js`, `editor.js` | link cookies, the cached key set of an isolate | resolve a credential, open a route |

The other parts (HTML injection, prompts, site build, patching algorithms,
read-only pages, deploy scripts, the one-off migration) keep no state of
their own that outlives a call; `PROJECT.json` lists each with the reason it is
not modelled.

### 1.2 How they interact

* Browsers and the apply engine call the store over HTTP. A Durable Object is
  single threaded and each core method is one synchronous read-modify-write, so
  an RPC is atomic; nothing else is. The object runs `reconcile` whenever it is
  constructed, and that happens after every Worker deploy, that is, also in the
  middle of an apply run that deploys.
* The engine works on three systems that share no transaction: the store's
  journal, git, and the deployed Worker. It journals a phase after each step.
* Only one engine runs at a time (two `flock`s on one host), but leases in the
  store are wall-clock times, five minutes and never renewed, so the store may
  take the rows of an engine that is still running.
* The release ledger reads the apply journal: a release freezes the `done`
  batches after the last published one. Executors hold a fencing token and a
  lease; the next one takes over when the lease is past.
* A finished apply batch records a review revision of each source it changed. The
  Publisher's submissions decide which operations the executor may build a
  candidate from; prepare, authorize and claim each look at the review again.
* The History page files a revert request; the daemon's tick commits the inverse,
  records it as an apply batch and a review revision, deploys it (which
  restarts the object) and completes the request.
* A bigger change goes from a dialog over a signed confirmation to a
  `scoped_requests` row; the drafter turns it into suggestion groups, the canary
  first, which the store and the engine treat like any others.
* The budget object is called by handlers that may lose an acknowledgment, be
  evicted between two calls, or meet midnight there; each RPC starts with a
  rollover to the new day.

### 1.3 What is hard

Deployed before merged; merged before journalled; a lease that runs out under a
live run; a reconcile that starts inside a run; groups whose rows must share
one fate; a suggestion written against a map that never reached the branch; an
edit superseded by a later one while it is claimed; two executors, one with an
old token; a batch on the branch that is never `done`; a settle that commits
and is not acknowledged; overlapping turns of one session in one row. On the
browser's side: a lost answer and the id that must or must not be used again; a
tab that crashes, is reloaded or comes back from the back-forward cache with a
frozen handler; a stream cut at any byte; a widget that stays silent. In
releases: a process that dies between a deploy and its record, a second executor
on an old lease, a push that lands after it was reported as failed. The `hazards` of
`PROJECT.json` name 40 of these at their lines.

### 1.4 What makes each part correct

* Store: no text is lost by last-edit-wins; nothing a human must review enters
  the queue unreviewed; a claimed row can always be found again; terminal rows
  stay terminal.
* Engine: a change lands only on the text its editor looked at, at most once;
  the journal never runs ahead of git; `applied` means on the branch; no row
  stays in flight.
* Budget: the pool's cap and a session's turn limit hold under concurrency,
  every reserve is released once and every price booked once, a finished turn is
  not refused as in progress, a replay returns the turn's own answer.
* Review: a store that only its own requests wrote always passes its integrity
  gate; what ships was accepted, is current when claimed, and continues what its
  source shipped before.
* Executor: a release called complete or restored is what both targets serve, and
  the way back is on record.
* Reverts and ref transitions: the branch moves once for a request, nobody
  else's commit is overwritten, and the record left behind is true.
* Pages: what somebody typed is not lost, is filed once, and is what the page says
  it is; an interview's transcript pairs each question with its own answer.
* Door: a withdrawn key or a rotated grant opens nothing, a good one is not
  refused, and no slot unites duties that are to be separate.
* Ledger: one release under way; each starts where production stands; nothing is
  completed unauthorized or unverified; members are marked exactly once; what
  ships is listed.

## 2. The modules

| Module | Models | Extends or instantiates |
| --- | --- | --- |
| `SuggestionStore` | suggestion table and apply journal | - |
| `ApplyEngine` | `run_apply`, git, the deployed map, crashes | extends `SuggestionStore` and runs its actions |
| `Budget` | budget object and the three kinds of handlers | - |
| `ReleaseLedger` | releases over the apply journal | instantiates `ReleaseTrain` |
| `ReleaseTrain` | what the ledger promises, abstractly | - |
| `PublisherReview` | revisions, submissions, operation releases | - |
| `ReviewCoverage` | the evidence that accounts for every applied row | - |
| `RevertFlow` | a revert request from the History page to DEV | - |
| `ReleaseExecutor` | one production release as it is carried out | - |
| `CanonicalRefCas` | moving canonical main by one commit | - |
| `EditorClient`, `Composers`, `ScopedDialog` | the editor's page: a block, the forms, the dialog | - |
| `ScopedDrafter` | the drafter of scoped changes | - |
| `ChatRoom`, `ChatStream`, `SessionGate` | the interview: page and session row, one stream, opening a session | - |
| `AssessmentAudit` | assessment records and their review page | - |
| `EditorDoor` | credentials, keys, roles and routes under `/edit` | - |
| `ApplyEngineProofs` | theorems about the store, and about the engine over it | extends `ApplyEngine` |
| `BudgetProofs` | about turns and money | extends `Budget` |
| `ReleaseLedgerProofs` | about the ledger, the refinement among them | extends `ReleaseLedger` |
| `ReviewProofs` | about the publisher review and its evidence | extends `PublisherReview`, `ReviewCoverage` |
| `ShippingProofs` | about the executor, reverts and ref transitions | extends `ReleaseExecutor`, `RevertFlow`, `CanonicalRefCas` |
| `EditorProofs` | about the drafter, the dialog, the door, a block and the forms | extends `ScopedDrafter`, `ScopedDialog`, `EditorDoor`, `EditorClient`, `Composers` |
| `StudentProofs` | about opening a session, the records, the interview page and a stream | extends `SessionGate`, `AssessmentAudit`, `ChatRoom`, `ChatStream` |
| `OfficeProofs` | the same as properties of the office | extends `MCOffice` and the four before it |
| `MCOffice` | composes the fourteen flows above for one run | all of them |
| other `MC*` | instances for TLC | the module they are named after |

A definition whose comment starts with "Mutant:" (or that carries "mutant" at
the end of its line) is a plausible wrong version of the definition after it. No
specification uses it; `PROJECT.json` pairs each with the property it breaks.

### 2.1 SuggestionStore

One action per RPC of `EditorStoreCore`: `Suggest`, `DecideGroup` and
`DecideOne` (decide for a group and for one row), `MarkDrift`, `Reanchor`,
`ClaimBatch`, `Finalize`, `Reconcile`; `LeaseExpires` is the clock. `Allowed`
is the table of `editor-status.js`. The callers are arbitrary: every RPC may come
at any time, `Finalize` with any phase and any lists, so what is checked and
proved here does not depend on the engine behaving.

Abstractions. An id's editor, target, kind, origin and group are fixed by
`Attr` (the code refuses a second submission with another payload; such a call
changes no row). `created` is a rank and no time. A lease is a member of
`leased` and its batch's end either is past or not; rows and their batch get the
same end in the code. `decided` is a history variable.

### 2.2 ApplyEngine

`run_apply` step by step. `Begin` (reconcile, note the base, make the worktree),
`Claim`, `Patch`, `Validate`, `Build`, `Parity`, `Deploy`, `JournalDeployed`,
`Merge`, `JournalMerged`, `Done`, each with the way it ends early:
`NothingToClaim`, `ReplayFails`, `ValidatorRed`, `StepFails`, `PlanOnly`,
`MergeRefused`, and `Crash` at every step. A page block is known by who wrote its
text, which is all the drift gate tells apart. The gate compares the hash the
*server* stored at submission, taken from the deployed map, with the worktree.
`HumanLists` leaves open which groups the patchers give up on, and requires only
what the code ensures: whole groups, and at most one surviving rewrite of a
target.

Around it: submissions, review, redeploys, commits by others, and the store
restarting.

### 2.3 Budget

The tables of `budget-core.js` and, for each request, where its handler stands.
A chat request is admitted, refused or replayed; its provider call ends in
`Settle`, `SettleUnacknowledged` (committed, acknowledgment lost, the stream's
`flush` calls fail next), `Fail` or `Vanish`. A one-shot reserves and settles with
up to `MaxTries` attempts, each of which may commit unacknowledged. A critique
checks the pool and charges after its provider call. Each RPC includes the
rollover (`Spent`, `Swept`, `Book`). Prices are cents, an answer is the turn it
was computed for. `mixed` is a history variable: the sessions that ever had two
requests running at once.

### 2.4 ReleaseLedger and ReleaseTrain

Batches are numbered in `created_at` order, and a commit is the number of its
batch: the engine and the revert path both advance the branch by fast-forward
only, so the branch has the batches' commits in that order (`NotOvertaken`, `InOrder`).
`LateMerge` is the run that merges although its rows were already given
back; its batch is done without rows and never publishable. Over this journal the
release RPCs: `Prepare`, `PrepareOperations`, `Backfill`, `Authorize`, `Claim`,
`ClaimRestore`, `Transition`; `LeaseExpires` and `ReviewAdvances` are the
environment. A renewal of a live lease and a replay of a recorded event change nothing
the model sees and are stuttering. The operation members of a schema 2 release
are opaque; its base is any commit that was served when its builder looked.

`ReleaseTrain` is the abstract promise: the published frontier moves forward
only, one release is under way at a time, and nothing ships that was not
approved. `RunsLikeATrain` is the refinement, under the mapping frontier =
target of the last completed release, platform = the state of the active
release, begun = something was prepared.

### 2.5 PublisherReview

What `editor-store-core.js` keeps of a Publisher's granular review, and the
operation releases cut from it. `RecordRevision` is the evidence of an apply
batch, `SaveDraft` and `Submit` the page (`Submit` for several sources at once, all
or nothing), `BuildCandidate`, `Abandon` and `Prepare` the executor's side,
then `Authorize`, `Claim`, `Fail`, `Restore`, `Complete`. What the code derives
by SQL at every call is derived here by operators with the same names of ideas:
`Stale`, `Wanted`, `Projected`, `DeferredToDev`, `HeldGroups`, `Frozen`,
`Eligible`, `StoreHeld`; `FrontierIsIntact` is the gate the code runs before each
projection. Digests are equalities of what they digest.

### 2.6 ReviewCoverage

How every applied suggestion is accounted for before anything ships: the
evidence of `finalize done` (`FinishBatch`), the two migrations (`Backfill`,
`LegacyReconcile`), the no-op reconciliation (`NoopReconcile`) and the audit's four
counts. `FinishBare` is a batch finished before the review tables were deployed.
Texts are what a comparison of them says (`Kinds`); `MatchesToday` is the
code's rendered comparison, against the map as it is on the day of the call.

### 2.7 RevertFlow

A History request from filing to DEV. `FileRequest`, `Approve`, `Take`, `Repair` are
people; `Fetch` to `Drained` one tick of the daemon, one action for each call
it makes, with `TickDies` between any two; `ObjectRestarts` is the constructor's
reconcile, which may finish the batch of a revert that is still being completed.

### 2.8 ReleaseExecutor

The claim of a release, `DeployNext`/`RestoreNext` for each target in the order of the
compatibility gate, the operation at the provider (`OperationReturns`,
`OperationRaises`, or a process killed in it whose operation ends by itself:
`StrayEnds`), the registry entry (`RecordTarget`), the probes (`CheckTarget`), the events with
their idempotency keys and tokens, failure, restore, and takeover after `LeaseOver`.

### 2.9 CanonicalRefCas

The mutations of `forward` and `restore` in their two orders, each of which may work
and be reported as failed; the verification before, between and after;
`OutcomeOf` and `ConfirmedLedger`, which decide what the receipt says. Around it other
people push, commit and fetch, and a push without a client may land at any later time.

### 2.10 The editor's page: EditorClient, Composers, ScopedDialog

`EditorClient` is the session of one block: typing, leaving the block, auto-save,
explicit send and retry, the conflict and stale-page answers, Undo, the flush when
the page is hidden, reload, the back-forward cache, and the hydration of pending
text by polling. A request has three fates: its answer is handled, its handler is
gone and it arrives late, or it is lost; the store's side of `/suggest` is `Serve`.
`Composers` has the forms beside the block and what each keeps
for a second try (id, text, draft); a behaviour uses one of the forms.
`ScopedDialog` is the dialog for a bigger change with its signed confirmation.

### 2.11 ScopedDrafter

The other end: a pass lists the filed requests, claims one, drafts and posts a group
block by block, and moves the request when its group landed. A pass may die
between any two calls, and its list may be old where passes overlap. The run has one
pass at a time, as `dispatch_scoped_drafts` (`direct_apply_daemon.py:919`) starts it
under the daemon's lock; `Drafters` is a parameter because the tool itself takes no lock.

### 2.12 The interview: ChatRoom, ChatStream, SessionGate

`ChatRoom` puts the page's transcript and its runs of `send` beside the
session row that answers them: requests that arrive twice or late, answers that are
lost in the middle, reloads, and a page that comes back frozen with its
handlers. `ChatStream` looks into one streamed turn: frames cut anywhere, the
transform that settles or fails the turn, and the reader. `SessionGate` opens the
session: the Turnstile widget, the mint, the galley in the same tab.

### 2.13 AssessmentAudit

Records, overrides and the one alarm of the Durable Object that forgets them; the review page
that posts overrides, is told or not told, and refreshes.

### 2.14 EditorDoor

`EdgeAnswers` is every answer `resolveAuth` may give in a state, over the three
channels; the state is what it depends on: deployed configuration, clock, Access's
keys and the isolate's cache of them with fetches under way. `PageGates` and
`ApiGates` are the routes.

### 2.15 MCOffice

The fourteen flows of 2.5 to 2.14 share no state with one another in the
code's terms (what they share, the suggestion store, is modelled in each as far
as it answers), so their product would show nothing that each alone does not.
One run therefore explores them one after the other: `part` picks the flow, the
variables of all others rest. Each property is about its own flow.

## 3. The runs

| Run | Instance | Shows |
| --- | --- | --- |
| `store` | 3 rows (two competing human edits, one companion in a group), 1 batch, ceilings 1 and 2 | no text vanishes, nothing unreviewed is queued, claims are journalled, `TerminalIsForever`, under arbitrary callers |
| `engine_faults` | 2 editors' edits of one block, 2 batches, crashes, outlived leases, fairness | `JournalClaimsOnlyMerged`, and `NoLimbo`: a claimed row leaves `in_flight` |
| `engine_calm` | a structural row and a two-member group, 2 batches, 1 foreign commit, no crash, no outlived lease, no admin seizing a claimed row | `AppliedIsExact`, `LandsOnTextSeen` |
| `engine_twice` | 1 structural row, 2 batches, crashes | violation of `AppliedAtMostOnce` |
| `engine_ghost` | a prose and a structural row, 1 batch, crashes, 1 foreign commit | violation of `AppliedMeansLanded` |
| `budget` | 1 session, 2 turn ids of 2 personas, 3 chat requests (one with its own key), a one-shot, a critique, 2 days | `CapHolds`, `CountsHold`, `InFlightHasOwner`, `OwnAnswerWhenSequential`, `BooksBalance` |
| `budget_overlap` | the chat part of it, 1 day | violation of `OwnAnswer` |
| `ledger` | 3 batches (two generators), 2 releases, 3 tokens | four invariants and the refinement of `ReleaseTrain` |
| `ledger_gap` | 2 batches, 1 release, 1 token | violation of `NothingUnlistedShips` |
| `office` | each of the fourteen flows, bounds below | the properties of section 3.1 |
| `review_blocked` | the review of `office` | violation of `HeldIndividually` |
| `revert_failed` | the reverts of `office` | violation of `FailedMeansUntouched` |

Where a theorem of section 4 says that the types of a module hold, no run of its own
repeats it.

### 3.1 The properties of `office`

| Property | Flow | Says |
| --- | --- | --- |
| `IntegrityHolds`, `ShippedWasAccepted`, `SourceHistoryIsLinear`, `ShippedOnFrontier`, `ClaimedReviewIsCurrent` | `PublisherReview` | the gate never fails; what ships was accepted, continues what its source shipped before, starts at production, and was current when claimed |
| `CoverageStaysSound` | `ReviewCoverage` | no suggestion is accounted for twice, no real change is covered as a no-op, a finished run leaves only what renders alike |
| `WritingStaysSafe` | `EditorClient` | what was typed last survives the tab; a clean block has been handed over |
| `FormsStayTrue` | `Composers` | what the page says is recorded is; a wish is one row; nothing unsettled is forgotten |
| `ScopedChangesAreSound` | `ScopedDialog`, `ScopedDrafter` | what is filed above the ceiling was shown to its editor and is filed once; the remainder waits for the canary, done means landed |
| `BranchMovesAreExact` | `RevertFlow`, `CanonicalRefCas` | a request inverts its run once and is done when DEV serves that; nobody's commit is overwritten and a receipt is true |
| `ProductionStaysRecorded` | `ReleaseExecutor` | complete and restored are what both targets serve, a mix is a compatible one, the way back is on record |
| `InterviewIsHonest` | `ChatRoom`, `ChatStream` | one record for a turn, each answer with its question, in order, fetchable; a stored reply is the whole reply |
| `GateStaysPassable` | `SessionGate` | a token is offered once, waiting ends, one session at a time |
| `AuditStaysHonest` | `AssessmentAudit` | records are forgotten in time with their overrides, a page at rest is what a reload shows |
| `DoorStaysSound` | `EditorDoor` | a withdrawn key or rotated scope opens nothing, a good assertion is refused only on its own failed fetch, duties stay separate |

### 3.2 Why the bounds are enough

* Two competing rows are what superseding and the same-target rule need. A
  ceiling of 1 is reached with one row; a third row never adds a case to a
  predicate that compares two. A group needs two members for a partial failure;
  `engine_calm` has it.
* Two batches are the least for a row that is requeued and claimed again, which
  is how every double application comes about; in `store`, where any finalize may
  hit any row, one batch already closes and stays named by its rows.
* Three chat requests over two turn ids are a turn, its retry and an overlapping
  other turn. With `Reserve` 2 and `Cap` 3, the pool is nearly full after one
  admission and full after two; with `MaxTurns` 2 the limit is reached as well.
* Two releases with three tokens give a takeover, a restore and the next release
  after a completed one; three batches with two generators are needed for a
  membership of two and for the generator check to refuse.
* Review: two sources that share a group, one with a structural edit beside
  its prose; three revisions (a source revised again while the other waits), two
  releases (one ships, the next builds on it).
* Coverage: three rows of which two share a source, three batches, two commits after
  production; a migration needs a chain of two.
* Editor page: three ids and three wordings, one late request beside those under
  way; the served text changes once. Forms: two places and three ids.
* Reverts: two requests and a foreign commit. Executor: two releases, five tokens,
  four artifacts of a target (a deploy, its repetition, a restore and the next
  release).
* Interview: three questions, one too long, four runs of `send`; a stream of three
  frames cut anywhere, for a provider that puts text, usage and stop in separate
  frames and one that puts them in one. Gate: two tokens, four mints.
* Audit: two records with retentions of one and two days, two overrides that
  compete for a heading. Door: four configurations (a new publisher,
  a take-over, a split of duties, a link shared by two slots), two keys, a cache life
  of two units of time.
* The transitions of the canonical ref have no bound.

`CHECK_DEADLOCK FALSE`: every instance uses up its ids (rows, batches, requests,
releases), and the real system too may simply have nothing to do.

### 3.3 Fairness

Used by `engine_faults` only. `WF(Run)`: the daemon's timer starts a
run again and again and a run that is not killed goes on; crashes
are allowed infinitely often. `WF(LeaseRunsOut(b))`: clocks advance. No fairness
is assumed of editors, admins or restarts. The property needs no more because
every run starts with a reconcile.

### 3.4 Premises

These are stated as constants rather than hidden. With the other value the property
named is violated by what the code does.

| Premise | Property | Without it |
| --- | --- | --- |
| `MayCrash`, `MayOutliveLease`, `MaySeize` FALSE in `engine_calm` | `AppliedIsExact` | runs `engine_twice`, `engine_ghost` |
| no overlapping requests (`mixed`) | `OwnAnswerWhenSequential`, `BooksBalance` | run `budget_overlap` |
| `MayRetryAcrossMidnight` FALSE | `CapHolds` | a client that repeats a turn id on the next day while the first request still runs takes another's reserve (in an instance whose requests all use the pool: `ByokCalls = {}`) |
| `MayRetype` FALSE | `WritingStaysSafe` | typing a text back after the flush on hide leaves the flushed row pending under a clean block |
| `MayTypeWhileSaving` FALSE | `WritingStaysSafe` | text typed while an explicit send is under way may be replaced on the screen |
| `MayReword` FALSE | `InterviewIsHonest` | a recovered question that is changed before it is sent again is answered with the reply to the old one |
| `MayOverlap` FALSE | `InterviewIsHonest` | a retry that meets its own first request is refused as a validation error and the page drops the turn |
| `MayFailInChallenge` FALSE | `GateStaysPassable` | after an error reported during an interactive challenge a later mint waits without a timer |
| `MayMigrateLate` FALSE | `CoverageStaysSound` | a migration after no-op receipts covers the same rows again |
| `CarefulOperator` TRUE | `CoverageStaysSound` | a rendered match compares a deployed change with itself and covers it as a no-op |
| `MayGoOn` FALSE | `FormsStayTrue` | the reply to a closed comment panel closes the next one with its text |
| `MayLinger` FALSE | `ProductionStaysRecorded` | a provider operation that outlives its lease undoes a restore |
| one `Drafter` | `ScopedChangesAreSound` | with two passes at once the remainder may be drafted from an old list |

## 4. The proofs

Every invariant and every action property a run checks is also a theorem, for all values
of the constants; so is the refinement of `ReleaseTrain`. What is left to TLC alone is at
the end of this section. The assumptions are the named `ASSUME`s of the modules (bounds
are natural numbers, tables well typed, a "none" is none of the values it stands beside),
which TLC evaluates in the runs, and for some theorems the premises of 3.4, which are
then the hypothesis of the theorem.

### 4.1 Store and engine: `ApplyEngineProofs`

Under `StoreAssumption` (finitely many ids, well-typed `Attr`), `StoreInv` is inductive:

* `TypeCorrect` is inductive by itself.
* `NoEditVanishes` needs `RanksInOrder`: a superseded row's successor has a
  greater rank, and a new row gets the greatest, so the successor may itself be
  superseded and the chain still ends in a later row.
* `ReviewBoundary` follows row by row from what the status machine
  lets through (`TransitionFacts`): a row that is queued or beyond came through
  `accepted`, and only `Suggest` of a prose row or an admin's decision puts it there.
* `JournalCoversClaims`: a claim stamps batch and lease, finalize drops
  the lease only of rows it moves, reconcile only of rows it frees.
* `TerminalStays` from `LegalMoves`: every step leaves a row, creates it, or
  makes a move of `Allowed`; terminal statuses have none.

Under `EngineAssumption`:

* `EngineImplementsStore`: `EngineSpec => Spec`. Each engine step is one store RPC
  or leaves the store's variables alone (`EngineStepIsStoreStep`), so
  `EngineKeepsStoreInv` carries the store's theorems over.
* `JournalTellsTheTruth`: `JournalClaimsOnlyMerged` strengthened with
  `MergedFirst`, that a run past its merge has its batch in `merged`; without it
  the step `JournalMerged` could not be justified.
* `LandsOnSeen`: strengthened with `WorktreeIsBase` (while head is still the run's
  base, worktree and branch agree) and `PatchesFit` (what the
  run kept has the stored hash of the worktree). The fast-forward condition of
  `Merge` then gives the property. It holds for any number of rows, targets,
  foreign commits, crashes and late leases.
* `CalmRunsApplyExactly`: `AppliedIsExact` under `Calm`, the premises of `engine_calm`
  (`engine_twice` and `engine_ghost` show why crashes have to be left out). `CalmInv`
  counts exactly: a change is on the branch once if its row is applied or its run is
  about to say so (`LandedIsReported`), and not at all otherwise. It needs that a run's
  rows stay in flight under a live lease (`MineAreInFlight`) and that no batch is in
  `merged` without its run (`NoneLeftMerged`), so that reconcile completes nothing.

### 4.2 Budget: `BudgetProofs`

For any sessions, personas, requests (finitely many), turn ids, limits, prices and days.
`BudgetInv` has the types, `TriesLeft` (a one-shot that tries again has an attempt left)
and, about turns,

* `OneRunner`, `RunnerHasRow` and `ResultIsOwn`: in a session whose requests never
  overlapped one request runs at most and the row is about it, so nobody else can
  settle or undo it; `OwnAnswerWhenSequential` follows;
* `InFlightHasOwner` by itself, because `fail` clears the turn id it gives back and
  does nothing only where the row is no longer its own;
* `NoStaleTwin` and `TurnsCover`, which give the limit also where requests overlap: a
  row of today that holds a running request's turn counts this request, so a turn is
  given back once for each request that left the count. `NoStaleTwin` is what
  `MayRetryAcrossMidnight` breaks, so `BothCountsHold` assumes its negation;
* `PersonaIsCounted`, so a persona row that starts over at midnight misses nobody.

One lemma for each kind of step (`AdmitKeepsChat`, `SettleKeepsChat`, `UndoKeepsChat`,
`AsideKeepsChat`, `MidnightKeepsChat`, `QuietKeepsChat`) rests on `OthersStay`, that a
step moves one request only, and on the library's theorems about cardinality.

`MoneyInv` is about the sums. `BooksAreExact` is `BooksBalance` for the books as they
stand, also before the first call of a day; `PoolsCover` says that a pool and what is
exposed in it stay within the cap and one reserve, which gives `CapHolds`. They need that
nothing is booked for a later day than the books are of (`BooksAreLatest`), that a
one-shot is settled by its own calls (`SettledLast`), and that a turn's row knows its
pool and its reserve while the request runs (`RowHasMoney`). A sum is a fold over a finite
set; what it obeys is proved from the definition of the fold: there is a function on the
subsets that the fold's equation determines, and two such functions agree, by a
minimal counterexample (a set of numbers without a least element is empty, which is
induction without a predicate as a parameter). `Follows` then splits each step into what
it adds to the pool and what it adds to the sum.

### 4.3 Ledger: `ReleaseLedgerProofs`

Under `LedgerAssumption` (the bounds on batches, releases and tokens are natural numbers,
the constant tables well typed), `LedgerInv` is inductive. It joins types and the four
safety properties of the run with

* `Numbered`, releases exist exactly up to `prepared`, so a new row is unused;
* `LogIsComplete`, the log holds completed releases only, so a row in it never
  changes and the frontier moves only when the log grows;
* `ActiveIsAhead`, the release under way has all its members and its target
  beyond the frontier, and has been authorized once it left `prepared`. Without it
  completing a release could mark a batch twice or move the frontier back;
* `VerifiedIsProved`, a verified row has both deployments and the evidence
  recorded, which is what completion needs and its guard does not look at;
* `PublishedIsBehind`, no batch beyond the frontier is marked.

The step is proved in two halves. `NextShape` classifies the actions by what they
do to the releases: `Quiet` (the journal, leases, reviews), `Enlists` (both
preparations), `AdoptsLive` (backfill), `Advances` (authorize, claims, transitions
short of completion) and `Completes`. One lemma for each shape then shows
that it keeps the invariant, and `TrainStep` that it is a step of
`ReleaseTrain` or a stutter, which gives `LedgerImplementsTrain`; the mapping needs
`PlatformView`, that the one release under way determines the platform.

### 4.4 Review and evidence: `ReviewProofs`

For any units, sources, groups, publishers and bounds `ReviewInv` is inductive. Beside
the types and the properties it has

* `MembersAreAccepted`, what a release lists was accepted in a submitted review;
  with it `ShippedWasAccepted` follows when markers are written;
* `ActiveIsLast` and `BuiltOnFrontier`, one release is under way and both it and a
  candidate that waits start at the frontier, which gives `ShippedOnFrontier`
  although the code never compares the two bases of an operation release;
* `ExecutingIsCurrent`, the base of a release that executes is still what its
  sources shipped last, which gives `SourceHistoryIsLinear` at completion;
* `SupersededIsOutdated`, needed by the integrity gate: what a submission takes
  out of the projection has a later revision.

`PublishedAs` is a greatest element, which exists by well-founded induction
(`GreatestExists`). `ClaimsAreCurrent` is the action property.

`EverythingIsAccountedFor`, for any suggestions, batches and commits, under
`~MayMigrateLate` and `CarefulOperator`: in `CoverInv`, `RowsFit` says that a suggestion is
where its batch's phase puts it and `EvidenceIsLate` that a receipt, an exclusion or a
review comes only to a finished batch, which is never finished again: so evidence that
exists stays true, and new evidence is for suggestions that had none.

### 4.5 Executor, reverts, transitions: `ShippingProofs`

`ProductionIsRecorded`, for any number of releases, tokens and artifacts, under
`~MayLinger`: `ExecutorInv` is inductive and gives `ProductionIsAsRecorded`. It needs

* `ServingFits`, that a target serves the base or the candidate and of either the
  artifact on record, and the candidate once its event is recorded;
* `Assigned` and `PlacesFit`, what a tick still has to do and knows at each place, a
  candidate's unrecorded artifact among it;
* `StrayFits`, that what a dead tick left running is the next operation on the way
  (`MayDo`) and keeps everybody out by its lease. This is what `MayLinger` breaks.

`OperationKeeps` shows once, for a live tick and a stray, what an operation does.
`NumbersFit` adds the numbers: no lease is of a token that was not issued, and what is
served, recorded or activated again was made. Its step uses that one operation is under
way at most, so that the artifact a tick is about to make is still the next.

`RevertHolds`, for any requests and commits of others, without a premise: a commit is on
the branch once (`RevertInv`), a tick at work on a request has its commit in hand
(`TickCarriesCommit`), a journal entry that says so has its mutation
(`JournalHasMutation`), and who completes a request has seen DEV serve it
(`CompleteIsLive`). A commit on the branch stays where it is (`BranchGrows`).

`CasHolds`, without bound or premise: for `OthersKeepTheirs`, `LatePushIsAhead` (a push of
the candidate that outlived its client was made when main had it and the remote did not)
and `NoPushBefore` (none is on its way when a command has seen every surface in place)
keep a late push from overwriting anything. For `ReceiptIsTrue`, `LedgerFollows` fixes how
long the ledger is at each step, `LedgerIsMoved` and `MovedByNow` what has happened by
then, `FoundIsMoved` that what is found in place was moved by this command, and
`NothingMovedYet` and `NotMovedBack` what a receipt that claims little may rely on.

### 4.6 The editor's side: `EditorProofs`

* `CanaryLandsFirst`, for any requests and blocks, under `OneAtATime`. `RowFits` says what
  a row tells of its drafts (a remainder only over a landed canary); `PassFits` that the
  list of a pass is not old and that what it drafts is still empty, which two passes at a
  time break.
* `DialogHolds`, for any payloads, ids and sizes. `OneIdEach`: whatever stands for a
  payload, in the row, the dialog, its draft or a call on its way, stands there under one
  id, so the store's replay rule files it once. `TokensWereShown` and `WideIsConfirmed`
  carry the confirmation. `WrittenFirst` keeps an id that is drawn now from having been
  used. `NothingAppears` classifies the steps: most make nothing stand anywhere new.
* `DoorHolds`, for any slots, keys and configurations: `DoorIsSound`. `JarFits` says what a cookie is stamped with and
  that stamps are never of grants to come; `CacheIsFresh` and `AsksAreFresh` that a key in
  the cache, or in an answer under way, was published when it was asked for or withdrawn
  since (`LivedAt`), so an accepted key is younger than the cache's life.
* `WritingHolds`, for any wordings, ids, versions and requests, under `~MayRetype` and
  `~MayTypeWhileSaving`. `DirtyIsKept` is the heart: an unsent edit has an id and is the
  stored draft. It needs `SendIsOfPage` (what is under way is the page's edit, and one
  request at a time, `OneSend`), `StraysAreKnown` (a request nobody waits for is of an id
  given up, stored or the page's own) and `PageRowIsNewest` and `DeliveredIsNewest`, that
  behind the page's row only what was given up arrives, so nothing supersedes it.
* `RowsAreAsTold`, without a premise, and `FormsHold` under `~MayGoOn`. `OneIdPerLine`
  says that a comment or a fact stands under one id wherever it stands, `UnsettledIsShown`
  and `SentIsShown` (`CalmInv`) that what is unsettled is still on the screen, which
  is what going on to another form breaks.

### 4.7 The student's side: `StudentProofs`

* `GateHolds`, for any tokens, mints, submits and ceilings, under `~MayFailInChallenge`:
  `TimerIsArmed` (who waits has a timer unless a challenge is on the screen),
  `ChallengeIsKnown`, `HeldTokenIsFresh` (a token to come was never offered) and
  `IssuedByMint` (a request is served once). An error in the middle of a challenge breaks
  `ChallengeIsKnown`.
* `AuditHolds`, for any headings, records, panels and retention: `CardsAreCurrent` and
  `LogIsCurrent` are what "at rest" says without being at rest: a heading that is neither
  in doubt nor about to be refreshed shows what a reload would. `UnderWayIsDoubted` puts
  every post on its way into doubt. The score of a panel is on its scale
  (`AggregateIsTyped`), by least and greatest elements.
* `ChatHolds`, for any questions, turn limit and number of sends, under `~MayReword` and
  `~MayOverlap`. `OneOpen`: at most the last turn of a transcript is without an answer.
  `OpenIsHeld`, `WaitingRoom` and `ResendFits` say who has its question: a handler, the
  composer or a draft. `AnswerFits`, `JobFits` and `LastFits` relate an answer on its way,
  the Worker's work and its stored answer to that turn, and `CommittedIsCounted` the
  transcript to what the Worker counted.
* `StreamHolds`, for any number of frames in both dialects, without a premise:
  `HeardInOrder` says that what the Worker has not handled yet, in its buffer and on the
  wire, are the frames after those it has, cut somewhere; `ReadInOrder` the same of the
  page and what the Worker says. `SettlesTheWhole` is that a stored answer is all of
  them and `ClosedIsFree` that a stream closed with an error left the turn free.
  A loop over what has arrived is a fold from the left over the complete frames; it is
  unfolded to iterates (`IterationExists`, with `CountingUp` as induction over numbers in
  the form of a set), and `FramesGrow`, `LastGapEndsAFrame` and `CutKeepsFrames`
  are the arithmetic of pieces and frames.

### 4.8 The office: `OfficeProofs`

`EachInItsFlow`: a step of the office is a step of the flow it is in, and the variable
`part` never changes. So for each flow the invariant above is one of the office
(`...InOffice`), and each property of 3.1 is a theorem of `OfficeSpec` under the premises
of its flow. `OfficeIsTyped` joins them: all variables of all flows keep their types.

### 4.9 What was changed in the models for a proof

`Budget` names the weights its sums add (`CallWorth`, `ShotWorth`); `AssessmentAudit`
keeps overrides by record and takes the median as an element of the panel; `ChatRoom`
names the places a question is in; `ChatStream` handles what has arrived by folds, with
`CellAssumption`; `ScopedDialog` has `NothingAssumption`; `ReleaseExecutor` assumes that
there is room for the artifact that production starts with. None of it changes what a
step does.

### 4.10 Only model-checked

The liveness property `NoLimbo` (a claimed row leaves `in_flight`): the provers have
neither `ENABLED` nor the temporal induction that fairness needs. Where a premise is
assumed, what happens without it is said in 3.4 and shown by TLC, not proved.

## 5. Where the code and its documents disagree

### 5.1 Shown by a run

Each is a run that TLC must find violated; `PROJECT.json` quotes the lines.

1. `engine_twice`. "Rerunning after a crash mid-sequence never double-applies"
   (`docs/direct-apply-daemon.md:207`): killed between `git merge` and its journal
   entry, the batch looks unmerged, is rolled back by reconcile, and a structural
   row is inserted again.
2. `engine_ghost`. "`applied` means canonical + DEV application"
   (`app/worker/API-CONTRACTS.md:613`): killed between the merged and the done
   entry, rows the engine put aside as drifted are marked applied by reconcile.
3. `budget_overlap`. "Replaying the same turn_id returns the stored result"
   (`app/worker/API-CONTRACTS.md:222`): the settle of an overlapping older turn
   writes its answer into the newer turn's row.
4. `ledger_gap`. "A release covers every apply batch after the last verified PROD
   frontier ... rejecting gaps" (the taxonomy publisher plan, KTD4a): a batch
   merged but not done is skipped, although the candidate contains its commit.
5. `review_blocked`. "Accepted changes become production-eligible; every other
   change remains held individually" (granular review plan, F2): as soon as an
   accepted operation is held as structural, stale or with its group, the
   executor's held list differs from the store's and every prepare is refused.
6. `revert_failed`. FAILED is "never partial" (`editor-store-core.js:369`): a tick
   that dies after committing the inverse, with another commit behind it, is
   followed by one that marks the request failed while the branch carries it.

### 5.2 Stated in a module, not run

Formulas marked "Not run" state what a document or comment promises and the model
refutes; they stand beside the properties for whoever changes the code.

| Formula | What happens |
| --- | --- |
| `PublisherReview!CountsAgree` | the page's eligible count leaves out rejected operations that hold others back, the machine context does not (rollout plan R4) |
| `PublisherReview!CurrentBaseIsReviewable` | a source that the last release did not ship is stale when edited against production as it stands |
| `PublisherReview!GroupsShipWhole` | a group ships in part while its other member's revision is not submitted (granular review plan R17) |
| `ReviewCoverage!CanBeReconciled` | rows of a run that died between merged and done are applied, unreviewed, and no endpoint accounts for them: a rollout stop for good |
| `EditorClient!UnsentStaysOnScreen` | text typed while a send is under way may be hydrated away |
| `Composers!OneRowPerOrder` | a click after a lost answer files a second structural order, against the comment at `editor.js:737` |
| `Composers!FactIsSendable` | a fact rewritten after a lost answer is refused as `id_conflict` for ever |
| `ScopedDrafter!GroupLandsWhole` | a group is applied in part when it is accepted while the drafter still posts |
| `EditorDoor!LandingLeadsIn` | an instructor without the edit scope is sent to a page that answers 404 |

### 5.3 Met while modelling

Recorded at their lines in the hazards or here, not stated as formulas:

* A prepared operation release whose review goes stale can be neither authorized
  nor discarded.
* After a takeover in state verified the executor sends `verified` again under its new
  token; the ledger calls that an idempotency conflict and the release fails although
  both targets are live.
* A push that timed out may land after a receipt that said `not-landed`; the
  local inverse of the runbook then meets a remote it does not expect.
* Superseding looks at editor and source only: a comment supersedes the same
  editor's pending text edit.
* An explicit send that fails says it will be retried, but only auto-save arms the retry;
  `too_large`, `pending_ceiling` and `daily_cap` are not known to the page and are tried
  for ever.
* A lost answer to an override says it was not recorded; the next try draws a
  new id and records a second one.
* A failed completion of a revert returns from the tick, so it holds back the accepted
  flush.
* The galley opened directly asks for a session without a challenge token, which the
  gate refuses.

## 6. The plan

Written in this order: the store, the engine over it, the budget, the ledger with its
abstract specification, the publisher review with its proofs, reverts, the
executor, the pages, the interview, the door, coverage, the transitions of the
ref. What would come next:

1. `ReleaseExecutor` shown to implement the executor's part of `ReleaseLedger`, which
   needs one numbering of commits for both.
2. `RevertFlow` and `ApplyEngine` over one branch and one journal.
3. Pure algorithms as functions checked against a reference: block id stamping,
   structural operations.

## 7. Not modelled

Pure text algorithms (HTML and JSON patching, hashing, prompts), rendering, rate
limits (a model takes what they let through as given), audit texts, the bodies of
provider requests, the one-off migration tooling, build scripts and shell. Signatures
are what they promise. Time is what the code compares: leases past or not, the UTC
day, a key cache's age. Store `purge` has no caller. `PROJECT.json` has the
reason for each part with status `not_modelled`, and for `partly` what is left out.

## 8. Running

    tlc -workers 2 -config MCSuggestionStore.cfg MCSuggestionStore.tla
    tlapm ApplyEngineProofs.tla

`PROJECT.json` pairs every `.cfg` with its module. The longest runs are `office` (1.7
million distinct states), `store` (0.6 million distinct, 52 million generated),
`budget` (4.4 million distinct) and `ledger` (2.4 million); each takes less than three
minutes with two workers. `StudentProofs` takes `tlapm`
about six minutes, `ShippingProofs` and `EditorProofs` four each, `BudgetProofs` two, the
others about one or less.
