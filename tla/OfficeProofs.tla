---------------------------- MODULE OfficeProofs ----------------------------
(***************************************************************************)
(* What is proved of each flow, as the properties of the office that a run *)
(* checks: a step of the office is a step of the flow it is in, and the    *)
(* inductive invariant of that flow carries over.                          *)
(***************************************************************************)
EXTENDS MCOffice, ReviewProofs, ShippingProofs, EditorProofs, StudentProofs

officeVars == <<part, vars, clientVars, revertVars, dialogVars, drafterVars,
                chatVars, auditVars, gateVars, doorVars, coverVars,
                composerVars, streamVars, executorVars, casVars>>

\* A step of the office is a step of the flow it is in.
LEMMA EachInItsFlow ==
  OfficeNext =>
    /\ part = "review" => Next
    /\ part = "stream" => StreamNext
    /\ part = "revert" => RevertNext
    /\ part = "refs" => CasNext
    /\ part = "dialog" => DialogNext
    /\ part = "drafter" => DrafterNext
    /\ part = "door" => DoorNext
    /\ part = "coverage" => CoverNext
    /\ part = "release" => ExecutorNext
    /\ part = "gate" => GateNext
    /\ part = "audit" => AuditNext
    /\ part = "forms" => ComposerNext
    /\ part = "chat" => ChatNext
    /\ part = "client" => ClientNext
BY DEF OfficeNext, Rest, CoverMoves, ReviewMoves, ClientMoves, RevertMoves, DialogMoves, DrafterMoves,
   ChatMoves,
       AuditMoves, GateMoves, DoorMoves, FormMoves, StreamMoves, ReleaseMoves, RefMoves

LEMMA ReviewInOffice ==
  OfficeSpec => [](part = "review" => ReviewInv)
<1> DEFINE Inv == part = "review" => ReviewInv
<1>1. OfficeInit => Inv
  BY ReviewInvInit DEF OfficeInit
<1>2. Inv /\ [OfficeNext]_officeVars => Inv'
  <2> SUFFICES ASSUME part' = "review", Inv, [OfficeNext]_officeVars PROVE ReviewInv'
    OBVIOUS
  <2>1. part = "review" /\ [Next]_vars
    BY EachInItsFlow DEF OfficeNext, officeVars
  <2> QED
    BY <2>1, ReviewInvStep
<1> QED
  BY <1>1, <1>2, PTL DEF OfficeSpec, officeVars

LEMMA StreamInOffice ==
  OfficeSpec => [](part = "stream" => StreamInv)
<1> DEFINE Inv == part = "stream" => StreamInv
<1>1. OfficeInit => Inv
  BY InitStream DEF OfficeInit
<1>2. Inv /\ [OfficeNext]_officeVars => Inv'
  <2> SUFFICES ASSUME part' = "stream", Inv, [OfficeNext]_officeVars PROVE StreamInv'
    OBVIOUS
  <2>1. part = "stream" /\ [StreamNext]_streamVars
    BY EachInItsFlow DEF OfficeNext, officeVars
  <2> QED
    BY <2>1, StepKeepsStream
<1> QED
  BY <1>1, <1>2, PTL DEF OfficeSpec, officeVars

LEMMA RevertInOffice ==
  OfficeSpec => [](part = "revert" => RevertInv)
<1> DEFINE Inv == part = "revert" => RevertInv
<1>1. OfficeInit => Inv
  BY InitRevert DEF OfficeInit
<1>2. Inv /\ [OfficeNext]_officeVars => Inv'
  <2> SUFFICES ASSUME part' = "revert", Inv, [OfficeNext]_officeVars PROVE RevertInv'
    OBVIOUS
  <2>1. part = "revert" /\ [RevertNext]_revertVars
    BY EachInItsFlow DEF OfficeNext, officeVars
  <2> QED
    BY <2>1, StepKeepsRevert
<1> QED
  BY <1>1, <1>2, PTL DEF OfficeSpec, officeVars

LEMMA CasInOffice ==
  OfficeSpec => [](part = "refs" => CasInv)
<1> DEFINE Inv == part = "refs" => CasInv
<1>1. OfficeInit => Inv
  BY InitCas DEF OfficeInit
<1>2. Inv /\ [OfficeNext]_officeVars => Inv'
  <2> SUFFICES ASSUME part' = "refs", Inv, [OfficeNext]_officeVars PROVE CasInv'
    OBVIOUS
  <2>1. part = "refs" /\ [CasNext]_casVars
    BY EachInItsFlow DEF OfficeNext, officeVars
  <2> QED
    BY <2>1, StepKeepsCas
<1> QED
  BY <1>1, <1>2, PTL DEF OfficeSpec, officeVars

LEMMA DialogInOffice ==
  OfficeSpec => [](part = "dialog" => DialogInv)
<1> DEFINE Inv == part = "dialog" => DialogInv
<1>1. OfficeInit => Inv
  BY InitDialog DEF OfficeInit
<1>2. Inv /\ [OfficeNext]_officeVars => Inv'
  <2> SUFFICES ASSUME part' = "dialog", Inv, [OfficeNext]_officeVars PROVE DialogInv'
    OBVIOUS
  <2>1. part = "dialog" /\ [DialogNext]_dialogVars
    BY EachInItsFlow DEF OfficeNext, officeVars
  <2> QED
    BY <2>1, StepKeepsDialog
<1> QED
  BY <1>1, <1>2, PTL DEF OfficeSpec, officeVars

LEMMA DrafterInOffice ==
  OneAtATime => (OfficeSpec => [](part = "drafter" => DrafterInv))
<1> DEFINE Inv == part = "drafter" => DrafterInv
<1> SUFFICES ASSUME OneAtATime PROVE OfficeSpec => []Inv
  OBVIOUS
<1>1. OfficeInit => Inv
  BY DrafterInvInit DEF OfficeInit
<1>2. Inv /\ [OfficeNext]_officeVars => Inv'
  <2> SUFFICES ASSUME part' = "drafter", Inv, [OfficeNext]_officeVars PROVE DrafterInv'
    OBVIOUS
  <2>1. part = "drafter" /\ [DrafterNext]_drafterVars
    BY EachInItsFlow DEF OfficeNext, officeVars
  <2> QED
    BY <2>1, DrafterInvNext
<1> QED
  BY <1>1, <1>2, PTL DEF OfficeSpec, officeVars

LEMMA DoorInOffice ==
  OfficeSpec => [](part = "door" => DoorInv)
<1> DEFINE Inv == part = "door" => DoorInv
<1>1. OfficeInit => Inv
  BY InitDoor DEF OfficeInit
<1>2. Inv /\ [OfficeNext]_officeVars => Inv'
  <2> SUFFICES ASSUME part' = "door", Inv, [OfficeNext]_officeVars PROVE DoorInv'
    OBVIOUS
  <2>1. part = "door" /\ [DoorNext]_doorVars
    BY EachInItsFlow DEF OfficeNext, officeVars
  <2> QED
    BY <2>1, StepKeepsDoor
<1> QED
  BY <1>1, <1>2, PTL DEF OfficeSpec, officeVars

LEMMA CoverInOffice ==
  ~MayMigrateLate /\ CarefulOperator => (OfficeSpec => [](part = "coverage" => (CoverInv /\ ReviewsAreOfCommits)))
<1> DEFINE Inv == part = "coverage" => (CoverInv /\ ReviewsAreOfCommits)
<1> SUFFICES ASSUME ~MayMigrateLate, CarefulOperator PROVE OfficeSpec => []Inv
  OBVIOUS
<1>1. OfficeInit => Inv
  BY InitRuns, InitEvidence, InitReviews DEF OfficeInit, CoverInv
<1>2. Inv /\ [OfficeNext]_officeVars => Inv'
  <2> SUFFICES ASSUME part' = "coverage", Inv, [OfficeNext]_officeVars PROVE (CoverInv /\ ReviewsAreOfCommits)'
    OBVIOUS
  <2>1. part = "coverage" /\ [CoverNext]_coverVars
    BY EachInItsFlow DEF OfficeNext, officeVars
  <2> QED
    BY <2>1, StepKeepsCover, ReviewsKeepCommits
<1> QED
  BY <1>1, <1>2, PTL DEF OfficeSpec, officeVars

LEMMA ExecutorInOffice ==
  ~MayLinger => (OfficeSpec => [](part = "release" => (ExecutorInv /\ NumbersFit)))
<1> DEFINE Inv == part = "release" => (ExecutorInv /\ NumbersFit)
<1> SUFFICES ASSUME ~MayLinger PROVE OfficeSpec => []Inv
  OBVIOUS
<1>1. OfficeInit => Inv
  BY InitExecutor, InitNumbers DEF OfficeInit
<1>2. Inv /\ [OfficeNext]_officeVars => Inv'
  <2> SUFFICES ASSUME part' = "release", Inv, [OfficeNext]_officeVars PROVE (ExecutorInv /\ NumbersFit)'
    OBVIOUS
  <2>1. part = "release" /\ [ExecutorNext]_executorVars
    BY EachInItsFlow DEF OfficeNext, officeVars
  <2> QED
    BY <2>1, StepKeepsExecutor, NumbersStayFit
<1> QED
  BY <1>1, <1>2, PTL DEF OfficeSpec, officeVars

LEMMA GateInOffice ==
  OfficeSpec => [](part = "gate" => GateInv)
<1> DEFINE Inv == part = "gate" => GateInv
<1>1. OfficeInit => Inv
  BY InitGate DEF OfficeInit
<1>2. Inv /\ [OfficeNext]_officeVars => Inv'
  <2> SUFFICES ASSUME part' = "gate", Inv, [OfficeNext]_officeVars PROVE GateInv'
    OBVIOUS
  <2>1. part = "gate" /\ [GateNext]_gateVars
    BY EachInItsFlow DEF OfficeNext, officeVars
  <2> QED
    BY <2>1, StepKeepsGate
<1> QED
  BY <1>1, <1>2, PTL DEF OfficeSpec, officeVars

LEMMA AuditInOffice ==
  OfficeSpec => [](part = "audit" => AuditInv)
<1> DEFINE Inv == part = "audit" => AuditInv
<1>1. OfficeInit => Inv
  BY InitAudit DEF OfficeInit
<1>2. Inv /\ [OfficeNext]_officeVars => Inv'
  <2> SUFFICES ASSUME part' = "audit", Inv, [OfficeNext]_officeVars PROVE AuditInv'
    OBVIOUS
  <2>1. part = "audit" /\ [AuditNext]_auditVars
    BY EachInItsFlow DEF OfficeNext, officeVars
  <2> QED
    BY <2>1, StepKeepsAudit
<1> QED
  BY <1>1, <1>2, PTL DEF OfficeSpec, officeVars

LEMMA FormsInOffice ==
  OfficeSpec => [](part = "forms" => FormsInv)
<1> DEFINE Inv == part = "forms" => FormsInv
<1>1. OfficeInit => Inv
  BY InitForms DEF OfficeInit
<1>2. Inv /\ [OfficeNext]_officeVars => Inv'
  <2> SUFFICES ASSUME part' = "forms", Inv, [OfficeNext]_officeVars PROVE FormsInv'
    OBVIOUS
  <2>1. part = "forms" /\ [ComposerNext]_composerVars
    BY EachInItsFlow DEF OfficeNext, officeVars
  <2> QED
    BY <2>1, StepKeepsForms
<1> QED
  BY <1>1, <1>2, PTL DEF OfficeSpec, officeVars

LEMMA ChatInOffice ==
  ~MayReword /\ ~MayOverlap => (OfficeSpec => [](part = "chat" => ChatInv))
<1> DEFINE Inv == part = "chat" => ChatInv
<1> SUFFICES ASSUME ~MayReword, ~MayOverlap PROVE OfficeSpec => []Inv
  OBVIOUS
<1>1. OfficeInit => Inv
  BY InitChat DEF OfficeInit
<1>2. Inv /\ [OfficeNext]_officeVars => Inv'
  <2> SUFFICES ASSUME part' = "chat", Inv, [OfficeNext]_officeVars PROVE ChatInv'
    OBVIOUS
  <2>1. part = "chat" /\ [ChatNext]_chatVars
    BY EachInItsFlow DEF OfficeNext, officeVars
  <2> QED
    BY <2>1, StepKeepsChat
<1> QED
  BY <1>1, <1>2, PTL DEF OfficeSpec, officeVars

LEMMA ClientInOffice ==
  ~MayRetype /\ ~MayTypeWhileSaving => (OfficeSpec => [](part = "client" => ClientInv))
<1> DEFINE Inv == part = "client" => ClientInv
<1> SUFFICES ASSUME ~MayRetype, ~MayTypeWhileSaving PROVE OfficeSpec => []Inv
  OBVIOUS
<1>1. OfficeInit => Inv
  BY InitClient DEF OfficeInit
<1>2. Inv /\ [OfficeNext]_officeVars => Inv'
  <2> SUFFICES ASSUME part' = "client", Inv, [OfficeNext]_officeVars PROVE ClientInv'
    OBVIOUS
  <2>1. part = "client" /\ [ClientNext]_clientVars
    BY EachInItsFlow DEF OfficeNext, officeVars
  <2> QED
    BY <2>1, StepKeepsClient
<1> QED
  BY <1>1, <1>2, PTL DEF OfficeSpec, officeVars



\* With one migration and a careful operator every applied suggestion is accounted for once
\* and truthfully, in the office as in the flow by itself (editor-store-core.js).
THEOREM SuggestionsAreAccountedFor ==
  ~MayMigrateLate /\ CarefulOperator => (OfficeSpec => []CoverageStaysSound)
<1>1. CoverInv => CoverageIsSound
  BY CoverInvSuffices
<1> QED
  BY <1>1, CoverInOffice, PTL DEF CoverageStaysSound

\* Where no provider operation outlives its lease, production is what the ledger says and
\* the way back known (prod_release_executor.py).
THEOREM ProductionIsOnRecord == ~MayLinger => (OfficeSpec => []ProductionStaysRecorded)
<1>1. ExecutorInv => ProductionIsAsRecorded
  BY ExecutorInvSuffices
<1> QED
  BY <1>1, ExecutorInOffice, PTL DEF ProductionStaysRecorded

\* The canonical branch moves by what was asked for: a requested revert is on it once and
\* done when DEV serves it (direct_apply_daemon.py), and the receipt of a transition of main says
\* what happened (canonical_ref_cas.py).
THEOREM BranchMovesExactly == OfficeSpec => []BranchMovesAreExact
<1>1. (RevertInv => RevertIsExact) /\ (CasInv => CasIsExact)
  BY RevertInvSuffices, CasInvSuffices
<1>2. OfficeSpec => []((part = "revert" => RevertInv) /\ (part = "refs" => CasInv))
  BY RevertInOffice, CasInOffice, PTL
<1>3. (part = "revert" => RevertInv) /\ (part = "refs" => CasInv) => BranchMovesAreExact
  BY <1>1 DEF BranchMovesAreExact
<1> QED
  BY <1>2, <1>3, PTL

\* What is filed of a scoped change is what an editor meant, once and as wide as confirmed
\* (scoped-confirmation.js), and with one pass at a time its canary lands first
\* (editor_scoped_drafts.py).
THEOREM ScopedChangesLandAsMeant == OneAtATime => (OfficeSpec => []ScopedChangesAreSound)
<1>1. (DialogInv => FiledAsMeant) /\ (DrafterInv => CanaryGoesFirst)
  BY DialogInvSuffices, DrafterInvSuffices
<1>2. OneAtATime => (OfficeSpec => []((part = "dialog" => DialogInv) /\ (part = "drafter" => DrafterInv)))
  BY DialogInOffice, DrafterInOffice, PTL
<1>3. (part = "dialog" => DialogInv) /\ (part = "drafter" => DrafterInv) => ScopedChangesAreSound
  BY <1>1 DEF ScopedChangesAreSound
<1> QED
  BY <1>2, <1>3, PTL

\* The door of the editor lets in whom it should, on every channel (editor-auth.js).
THEOREM DoorOpensToWhomItShould == OfficeSpec => []DoorStaysSound
<1>1. (part = "door" => DoorInv) => DoorStaysSound
  BY DoorInvSuffices DEF DoorStaysSound
<1> QED
  BY <1>1, DoorInOffice, PTL

\* Without an error in the middle of a challenge, opening a session costs one challenge,
\* ends, and happens once (chat.js).
THEOREM SessionsOpen == ~MayFailInChallenge => (OfficeSpec => []GateStaysPassable)
<1> SUFFICES ASSUME ~MayFailInChallenge PROVE OfficeSpec => []GateStaysPassable
  OBVIOUS
<1>1. (part = "gate" => GateInv) => GateStaysPassable
  BY GateInvSuffices DEF GateStaysPassable
<1> QED
  BY <1>1, GateInOffice, PTL

\* Assessment records are shown as they are and forgotten in time (editor-store.js).
THEOREM RecordsStayHonest == OfficeSpec => []AuditStaysHonest
<1>1. (part = "audit" => AuditInv) => AuditStaysHonest
  BY AuditInvSuffices DEF AuditStaysHonest
<1> QED
  BY <1>1, AuditInOffice, PTL

\* A form that is not left while its request is under way keeps what is written in it, files
\* it once, and tells what was filed (editor.js).
THEOREM FormsAreTrue == ~MayGoOn => (OfficeSpec => []FormsStayTrue)
<1> SUFFICES ASSUME ~MayGoOn PROVE OfficeSpec => []FormsStayTrue
  OBVIOUS
<1>1. (part = "forms" => FormsInv) => FormsStayTrue
  BY FormsInvSuffices DEF FormsStayTrue
<1> QED
  BY <1>1, FormsInOffice, PTL

\* What an editor types in a block is kept and handed over, if no earlier wording is typed
\* again, and nothing while an explicit send is under way (editor.js).
THEOREM WritingIsKept ==
  ~MayRetype /\ ~MayTypeWhileSaving => (OfficeSpec => []WritingStaysSafe)
<1> SUFFICES ASSUME ~MayRetype, ~MayTypeWhileSaving PROVE OfficeSpec => []WritingStaysSafe
  OBVIOUS
<1>1. (part = "client" => ClientInv) => WritingStaysSafe
  BY ClientInvSuffices DEF WritingStaysSafe
<1> QED
  BY <1>1, ClientInOffice, PTL

\* As long as a recovered question is sent again as it was, and no request of a turn overtakes
\* another, the page of an interview keeps every question with its answer (chat.js). And
\* wherever the stream of an answer is cut: what is stored is whole, what the page takes for the
\* answer is what is stored, and a failure it retries by itself finds the turn free
\* (chat-stream.js).
THEOREM InterviewsAreHonest ==
  ~MayReword /\ ~MayOverlap => (OfficeSpec => []InterviewIsHonest)
<1> SUFFICES ASSUME ~MayReword, ~MayOverlap PROVE OfficeSpec => []InterviewIsHonest
  OBVIOUS
<1>1. (part = "chat" => ChatInv) /\ (part = "stream" => StreamInv) => InterviewIsHonest
  BY ChatInvSuffices, StreamInvSuffices DEF InterviewIsHonest
<1> QED
  BY <1>1, ChatInOffice, StreamInOffice, PTL

\* The variables of every flow keep their types, as long as each flow is run as its own
\* theorem asks.
THEOREM OfficeIsTyped ==
  /\ OneAtATime /\ ~MayMigrateLate /\ CarefulOperator /\ ~MayLinger
  /\ ~MayReword /\ ~MayOverlap /\ ~MayRetype /\ ~MayTypeWhileSaving
  => (OfficeSpec => []OfficeTypeOK)
<1> SUFFICES ASSUME OneAtATime, ~MayMigrateLate, CarefulOperator, ~MayLinger,
                    ~MayReword, ~MayOverlap, ~MayRetype, ~MayTypeWhileSaving
             PROVE  OfficeSpec => []OfficeTypeOK
  OBVIOUS
<1>1. OfficeSpec => [](part \in Flows)
  <2>1. OfficeInit => part \in Flows
    BY DEF OfficeInit
  <2>2. part \in Flows /\ [OfficeNext]_officeVars => (part \in Flows)'
    BY DEF OfficeNext, officeVars
  <2> QED
    BY <2>1, <2>2, PTL DEF OfficeSpec, officeVars
<1> DEFINE HeldA ==
             /\ part = "review" => ReviewInv
             /\ part = "client" => ClientInv
             /\ part = "revert" => RevertInv
             /\ part = "dialog" => DialogInv
           HeldB ==
             /\ part = "drafter" => DrafterInv
             /\ part = "chat" => ChatInv
             /\ part = "audit" => AuditInv
             /\ part = "gate" => GateInv
           HeldC ==
             /\ part = "door" => DoorInv
             /\ part = "coverage" => CoverInv /\ ReviewsAreOfCommits
             /\ part = "forms" => FormsInv
           HeldD ==
             /\ part = "stream" => StreamInv
             /\ part = "release" => ExecutorInv /\ NumbersFit
             /\ part = "refs" => CasInv
<1>2. (OfficeSpec => []HeldA) /\ (OfficeSpec => []HeldB) /\ (OfficeSpec => []HeldC) /\ (OfficeSpec => []HeldD)
  <2>1. OfficeSpec => []HeldA
    BY ReviewInOffice, ClientInOffice, RevertInOffice, DialogInOffice, PTL
  <2>2. OfficeSpec => []HeldB
    BY DrafterInOffice, ChatInOffice, AuditInOffice, GateInOffice, PTL
  <2>3. OfficeSpec => []HeldC
    BY DoorInOffice, CoverInOffice, FormsInOffice, PTL
  <2>4. OfficeSpec => []HeldD
    BY StreamInOffice, ExecutorInOffice, CasInOffice, PTL
  <2> QED
    BY <2>1, <2>2, <2>3, <2>4
<1>3. /\ ReviewInv => ReviewTypeOK
      /\ RevertInv => RevertTypeOK
      /\ DialogInv => DialogTypeOK
      /\ DrafterInv => DrafterTypeOK
      /\ AuditInv => AuditTypeOK
      /\ GateInv => GateTypeOK
      /\ DoorInv => DoorTypeOK
      /\ CasInv => CasTypeOK
  BY DEF ReviewInv, RevertInv, DialogInv, DrafterInv, AuditInv, GateInv, DoorInv, CasInv
<1>4. (ClientInv => ClientTypeOK) /\ (ChatInv => ChatTypeOK) /\ (StreamInv => StreamTypeOK)
  BY ClientInvSuffices, ChatInvSuffices, StreamInvSuffices
<1>5. FormsInv => ComposerTypeOK
  BY RowsInvSuffices DEF FormsInv
<1>6. CoverInv /\ ReviewsAreOfCommits => CoverTypeOK
  BY CoverIsTyped
<1>7. ExecutorInv /\ NumbersFit => ExecutorTypeOK
  BY ExecutorIsTyped
<1>8. part \in Flows /\ HeldA /\ HeldB /\ HeldC /\ HeldD => OfficeTypeOK
  <2> SUFFICES ASSUME part \in Flows, HeldA, HeldB, HeldC, HeldD PROVE OfficeTypeOK
    OBVIOUS
  <2>1. CASE part = "review"
    BY <1>3, <2>1 DEF OfficeTypeOK
  <2>2. CASE part = "client"
    BY <1>4, <2>2 DEF OfficeTypeOK
  <2>3. CASE part = "revert"
    BY <1>3, <2>3 DEF OfficeTypeOK
  <2>4. CASE part = "dialog"
    BY <1>3, <2>4 DEF OfficeTypeOK
  <2>5. CASE part = "drafter"
    BY <1>3, <2>5 DEF OfficeTypeOK
  <2>6. CASE part = "chat"
    BY <1>4, <2>6 DEF OfficeTypeOK
  <2>7. CASE part = "audit"
    BY <1>3, <2>7 DEF OfficeTypeOK
  <2>8. CASE part = "gate"
    BY <1>3, <2>8 DEF OfficeTypeOK
  <2>9. CASE part = "door"
    BY <1>3, <2>9 DEF OfficeTypeOK
  <2>10. CASE part = "coverage"
    BY <1>6, <2>10 DEF OfficeTypeOK
  <2>11. CASE part = "forms"
    BY <1>5, <2>11 DEF OfficeTypeOK
  <2>12. CASE part = "stream"
    BY <1>4, <2>12 DEF OfficeTypeOK
  <2>13. CASE part = "release"
    BY <1>7, <2>13 DEF OfficeTypeOK
  <2>14. CASE part = "refs"
    BY <1>3, <2>14 DEF OfficeTypeOK
  <2> QED
    BY <2>1, <2>2, <2>3, <2>4, <2>5, <2>6, <2>7,
       <2>8, <2>9, <2>10, <2>11, <2>12, <2>13, <2>14 DEF Flows
<1> HIDE DEF HeldA, HeldB, HeldC, HeldD
<1> QED
  BY <1>1, <1>2, <1>8, PTL


=============================================================================
