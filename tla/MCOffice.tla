------------------------------ MODULE MCOffice ------------------------------
(***************************************************************************)
(* The flows around the suggestion store that share no state with one      *)
(* another: publisher review and its coverage, the editor page and its     *)
(* forms, history reverts, scoped changes at their two ends, the interview *)
(* page, its gate and its stream, the assessment records, the door of the  *)
(* editor, the executor of production releases, the transitions of the     *)
(* canonical ref. A behaviour picks one of them and stays in it, so that   *)
(* one run explores each by itself.                                        *)
(***************************************************************************)
EXTENDS MCPublisherReview, EditorClient, RevertFlow, ScopedDialog, ScopedDrafter, ChatRoom,
        AssessmentAudit, SessionGate, EditorDoor, ReviewCoverage, Composers, ChatStream,
        ReleaseExecutor, CanonicalRefCas

\* Scoped changes: a matter is below the ceiling, the course above it.
MCLevels == {"matter", "course"}
MCWide == {"course"}

\* Assessments: two scorecards that agree on one heading and contest the other.
Card(facts, law) == [h \in Headings |-> IF h = "facts" THEN facts ELSE law]
MCScorecards == {Card(1, 2), Card(3, 2)}

\* The door: duties are given to a new publisher, taken over, and split; a link that
\* two slots share.
NoGrants == [o \in Scopes |-> 0]
Editor == [NoGrants EXCEPT !["edit"] = 1, !["instructor"] = 1]
Admin == [NoGrants EXCEPT !["edit"] = 1, !["admin"] = 1]
Each(john, dam) == [s \in Slots |-> IF s = "john" THEN john ELSE dam]
OwnSlots == [c \in Callers |-> IF c = "j" THEN "john" ELSE "dam"]
MCDeployments == <<
    [grants |-> Each(Editor, Admin), secret |-> Each(1, 2), emails |-> OwnSlots],
    [grants |-> Each(Editor, [Admin EXCEPT !["publisher"] = 1]), secret |-> Each(1, 2), emails |-> OwnSlots],
    [grants |-> Each([NoGrants EXCEPT !["release_observer"] = 1],
                     [Admin EXCEPT !["publisher"] = 2, !["release_service"] = 1]),
     secret |-> Each(1, 2), emails |-> [OwnSlots EXCEPT !["j"] = NoOne]],
    [grants |-> Each([Editor EXCEPT !["release_observer"] = 1], [Admin EXCEPT !["publisher"] = 2]),
     secret |-> Each(2, 2), emails |-> [c \in Callers |-> "john"]] >>

\* Coverage: a change and two rows without one, the third for the spot of the first.
MCKinds == <<"change", "same", "alike">>
MCSpotOf == <<"x", "y", "x">>

\* The stream: a provider with a frame for each thing it says, and one that ends its
\* answer in the frame of its last text.
MCDialects == {{{"text"}, {"usage"}, {"stop"}, {"error"}},
               {{"text"}, {"text", "usage", "stop"}, {"error"}}}

VARIABLE part   \* the flow this behaviour is in

Flows == {"review", "client", "revert", "dialog", "drafter", "chat",
          "audit", "gate", "door", "coverage", "forms", "stream", "release", "refs"}

\* The variables of a flow that this behaviour is not in hold nothing.
OfficeInit ==
    /\ part \in Flows /\ Init
    /\ IF part = "client" THEN ClientInit ELSE
         page = 0 /\ kept = 0 /\ sends = 0 /\ strays = 0 /\ rows = 0 /\ served = 0
         /\ version = 0 /\ minted = 0 /\ typed = 0 /\ givenUp = 0
    /\ IF part = "revert" THEN RevertInit ELSE
         request = 0 /\ mutation = 0 /\ journal = 0 /\ reviewed = 0 /\ production = 0
         /\ branch = 0 /\ live = 0 /\ quarantine = 0 /\ tick = 0
    /\ IF part = "dialog" THEN DialogInit ELSE
         dialog = 0 /\ dialogDraft = 0 /\ call = 0 /\ lateCalls = 0 /\ filed = 0
         /\ idsUsed = 0 /\ written = 0 /\ challenged = 0
    /\ IF part = "drafter" THEN DrafterInit ELSE
         scoped = 0 /\ groupRows = 0 /\ pass = 0
    /\ IF part = "chat" THEN ChatInit ELSE
         room = 0 /\ turns = 0 /\ handlers = 0 /\ lost = 0 /\ jobs = 0 /\ last = 0
         /\ counted = 0 /\ expired = 0 /\ sendings = 0
    /\ IF part = "audit" THEN AuditInit ELSE
         day = 0 /\ audits = 0 /\ overrides = 0 /\ alarm = 0 /\ sheet = 0 /\ posts = 0
         /\ assessed = 0 /\ drawnIds = 0 /\ doubt = 0
    /\ IF part = "gate" THEN GateInit ELSE
         widget = 0 /\ solved = 0 /\ held = 0 /\ minting = 0 /\ offered = 0
         /\ followUp = 0 /\ view = 0 /\ inHand = 0 /\ stored = 0 /\ entry = 0
         /\ queued = 0 /\ sent = 0 /\ mints = 0 /\ spent = 0 /\ issued = 0
         /\ voided = 0 /\ offers = 0
    /\ IF part = "door" THEN DoorInit ELSE
         deployed = 0 /\ clock = 0 /\ signing = 0 /\ oldest = 0 /\ withdrawn = 0
         /\ cache = 0 /\ jar = 0 /\ asks = 0
    /\ IF part = "coverage" THEN CoverInit ELSE
         head = 0 /\ reviewing = 0 /\ frontier = 0 /\ row = 0 /\ batch = 0
         /\ revisions = 0 /\ receipts = 0 /\ excluded = 0 /\ migrated = 0
    /\ IF part = "forms" THEN ComposerInit ELSE
         form = 0 /\ slate = 0 /\ keptBox = 0 /\ posted = 0 /\ adrift = 0 /\ slips = 0
         /\ drawn = 0 /\ lines = 0 /\ unsettled = 0 /\ said = 0
    /\ IF part = "stream" THEN StreamInit ELSE
         dialect = 0 /\ source = 0 /\ script = 0 /\ wire = 0 /\ worker = 0
         /\ wireOut = 0 /\ reader = 0 /\ turnRow = 0 /\ replay = 0
    /\ IF part = "release" THEN ExecutorInit ELSE
         order = 0 /\ attempt = 0 /\ lane = 0 /\ fences = 0 /\ serving = 0 /\ made = 0
         /\ registry = 0 /\ job = 0 /\ stray = 0
    /\ IF part = "refs" THEN CasInit ELSE
         refs = 0 /\ cas = 0 /\ push = 0 /\ receipt = 0 /\ moved = 0 /\ others = 0

\* The variables of every flow but this behaviour's stay as they are.
Rest(flow) ==
    /\ part = flow
    /\ flow # "review" => UNCHANGED vars
    /\ flow # "client" => UNCHANGED clientVars
    /\ flow # "revert" => UNCHANGED revertVars
    /\ flow # "dialog" => UNCHANGED dialogVars
    /\ flow # "drafter" => UNCHANGED drafterVars
    /\ flow # "chat" => UNCHANGED chatVars
    /\ flow # "audit" => UNCHANGED auditVars
    /\ flow # "gate" => UNCHANGED gateVars
    /\ flow # "door" => UNCHANGED doorVars
    /\ flow # "coverage" => UNCHANGED coverVars
    /\ flow # "forms" => UNCHANGED composerVars
    /\ flow # "stream" => UNCHANGED streamVars
    /\ flow # "release" => UNCHANGED executorVars
    /\ flow # "refs" => UNCHANGED casVars

ReviewMoves == Rest("review") /\ Next
ClientMoves == Rest("client") /\ ClientNext
RevertMoves == Rest("revert") /\ RevertNext
DialogMoves == Rest("dialog") /\ DialogNext
DrafterMoves == Rest("drafter") /\ DrafterNext
ChatMoves == Rest("chat") /\ ChatNext
AuditMoves == Rest("audit") /\ AuditNext
GateMoves == Rest("gate") /\ GateNext
DoorMoves == Rest("door") /\ DoorNext
CoverMoves == Rest("coverage") /\ CoverNext
FormMoves == Rest("forms") /\ ComposerNext
StreamMoves == Rest("stream") /\ StreamNext
ReleaseMoves == Rest("release") /\ ExecutorNext
RefMoves == Rest("refs") /\ CasNext

OfficeNext ==
    /\ UNCHANGED part
    /\ \/ ReviewMoves \/ ClientMoves \/ RevertMoves \/ DialogMoves \/ DrafterMoves \/ ChatMoves
       \/ AuditMoves \/ GateMoves \/ DoorMoves \/ CoverMoves \/ FormMoves
       \/ StreamMoves \/ ReleaseMoves \/ RefMoves

OfficeSpec ==
    OfficeInit /\ [][OfficeNext]_<<part, vars, clientVars, revertVars, dialogVars, drafterVars,
                                  chatVars, auditVars, gateVars, doorVars, coverVars,
                                  composerVars, streamVars, executorVars, casVars>>

\* The variables of the flow have their types.
OfficeTypeOK ==
    CASE part = "review" -> ReviewTypeOK
      [] part = "client" -> ClientTypeOK
      [] part = "revert" -> RevertTypeOK
      [] part = "dialog" -> DialogTypeOK
      [] part = "drafter" -> DrafterTypeOK
      [] part = "chat" -> ChatTypeOK
      [] part = "audit" -> AuditTypeOK
      [] part = "gate" -> GateTypeOK
      [] part = "door" -> DoorTypeOK
      [] part = "coverage" -> CoverTypeOK
      [] part = "forms" -> ComposerTypeOK
      [] part = "stream" -> StreamTypeOK
      [] part = "release" -> ExecutorTypeOK
      [] part = "refs" -> CasTypeOK

\* Each promise is looked at in the behaviours of its own flow.

\* The two ends of a scoped change: what is filed is what an editor meant, as wide as
\* confirmed, and its drafts land canary first.
ScopedChangesAreSound ==
    (part = "dialog" => FiledAsMeant) /\ (part = "drafter" => CanaryGoesFirst)

\* The canonical branch moves by what was asked for: a requested revert happens once and
\* counts when DEV serves it, a bounded transition of main leaves a true receipt.
BranchMovesAreExact ==
    (part = "revert" => RevertIsExact) /\ (part = "refs" => CasIsExact)

\* An interview keeps its word whether its answers are streamed or not: the page against
\* the session row, and the stream of one turn between the provider and the page.
InterviewIsHonest ==
    (part = "chat" => ChatIsHonest) /\ (part = "stream" => StreamIsHonest)

\* What an editor writes in a block is kept and handed over (editor.js).
WritingStaysSafe == part = "client" => WritingIsSafe

\* Assessment records are shown as they are and forgotten in time (editor-store.js).
AuditStaysHonest == part = "audit" => AuditIsKeptHonestly

\* Opening a session costs one challenge, ends, and happens once (chat.js).
GateStaysPassable == part = "gate" => GateIsPassable

\* The door of the editor lets in whom it should, on every channel (editor-auth.js).
DoorStaysSound == part = "door" => DoorIsSound

\* Every applied suggestion is accounted for once and truthfully (editor-store-core.js).
CoverageStaysSound == part = "coverage" => CoverageIsSound

\* What is written in a form is kept, filed once, and filed as reported (editor.js).
FormsStayTrue == part = "forms" => FormsKeepTheirWord

\* Production is what the ledger says, and the way back is known (prod_release_executor.py).
ProductionStaysRecorded == part = "release" => ProductionIsAsRecorded
=============================================================================
