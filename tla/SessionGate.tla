----------------------------- MODULE SessionGate ----------------------------
(***************************************************************************)
(* Opening a session: the Turnstile widget and mintSession of chat.js, the *)
(* galley of critique.js that shares the tab's token, GET /v1/session with *)
(* turnstile.js and session.js, and mint of BudgetCore.                    *)
(*                                                                         *)
(* One browser tab, without the bypass parameter, on a deployment with the *)
(* gate enabled. A Turnstile token is a number, 0 is the empty token; the  *)
(* widget is external and may do what its callbacks allow. A session token *)
(* is its number; a changed signing key makes the earlier ones invalid.    *)
(***************************************************************************)
EXTENDS Naturals, FiniteSets

CONSTANTS
    LastToken, LastMint, LastText,  \* bounds: tokens solved, GET /v1/session, submits
    MintCeiling,                    \* sessions of a day, or of an address
    MayFailInChallenge              \* the widget may report an error with the challenge still on

ASSUME GateAssumption ==
    /\ LastToken \in Nat /\ LastMint \in Nat /\ LastText \in Nat /\ MintCeiling \in Nat
    /\ MayFailInChallenge \in BOOLEAN

VARIABLES
    widget,    \* external: absent, running, challenge (on screen), resting, failed
    solved,    \* tokens the widget has given
    held,      \* token, settled, interactive and the timer of the turnstile object
    minting,   \* no, token (waits in turnstile.get), request
    offered,   \* the token of the request under way
    followUp,  \* a callback waits for minting to end
    view,      \* chat or galley
    inHand,    \* the session of the page, 0 for none
    stored,    \* the session in the tab's storage, 0 for none
    entry, queued,  \* the composer and queuedSubmission, 0 for nothing
    sent,      \* texts given to send
    mints,     \* requests to /v1/session
    spent,     \* tokens siteverify has accepted
    issued,    \* sessions minted
    voided,    \* sessions up to this one were signed with an old key
    offers     \* history: how often each token was offered

gateVars == <<widget, solved, held, minting, offered, followUp, view, inHand, stored,
              entry, queued, sent, mints, spent, issued, voided, offers>>
pageVars == <<view, inHand, stored, entry, queued, sent>>
serverVars == <<spent, issued, voided>>
mintVars == <<minting, offered, followUp, mints, offers>>

Tokens == 0..LastToken
Sessions == 0..LastMint
NewWidget == [token |-> 0, settled |-> FALSE, interactive |-> FALSE, timer |-> FALSE]

\* armTimer.
Armed(h) == [h EXCEPT !.timer = ~h.settled /\ ~h.interactive]

GateInit ==
    /\ widget = "absent" /\ solved = 0 /\ held = Armed(NewWidget)
    /\ minting = "token" /\ offered = 0 /\ followUp = FALSE
    /\ view = "chat" /\ inHand = 0 /\ stored = 0 /\ entry = 0 /\ queued = 0 /\ sent = {}
    /\ mints = 0 /\ spent = {} /\ issued = 0 /\ voided = 0
    /\ offers = [t \in 1..LastToken |-> 0]

-----------------------------------------------------------------------------
(* turnstile.get and settle, and the request they release.                 *)

Offer(t) ==
    /\ minting' = "request" /\ offered' = t /\ mints' = mints + 1
    /\ offers' = [u \in 1..LastToken |-> IF u = t THEN offers[u] + 1 ELSE offers[u]]

\* The waiter, if there is one, takes the token away.
Settle(h, t) ==
    IF minting = "token"
    THEN /\ held' = [h EXCEPT !.token = 0, !.settled = TRUE, !.timer = FALSE] /\ Offer(t)
    ELSE /\ held' = [h EXCEPT !.token = t, !.settled = TRUE, !.timer = FALSE]
         /\ UNCHANGED <<minting, offered, mints, offers>>

\* Mutant: a settled token is handed out and kept.
TakeAndKeep == Offer(held.token) /\ UNCHANGED held

\* A settled token is handed out once.
HandOver == Offer(held.token) /\ held' = [held EXCEPT !.token = 0]

CanMint == view = "chat" /\ inHand = 0 /\ minting = "no" /\ mints < LastMint

\* mintSession: nothing when a session is there or on its way.
Mint ==
    IF held.settled /\ held.token = 0 /\ widget # "absent"
    THEN /\ widget' = "running" /\ held' = Armed([held EXCEPT !.settled = FALSE])
         /\ minting' = "token" /\ UNCHANGED <<offered, mints, offers>>
    ELSE /\ UNCHANGED widget
         /\ IF held.settled THEN HandOver
            ELSE minting' = "token" /\ UNCHANGED <<held, offered, mints, offers>>

-----------------------------------------------------------------------------
(* The callbacks of the widget.                                            *)

Unmoved == UNCHANGED <<view, inHand, stored, entry, queued, sent, spent, issued, voided>>

\* api.js calls onloadTurnstileCallback.
ScriptLoads ==
    /\ view = "chat" /\ widget = "absent" /\ widget' = "running"
    /\ UNCHANGED <<solved, held>> /\ UNCHANGED mintVars /\ Unmoved

ChallengeOpens ==
    /\ widget = "running" /\ widget' = "challenge"
    /\ held' = [token |-> 0, settled |-> FALSE, interactive |-> TRUE, timer |-> FALSE]
    /\ UNCHANGED solved /\ UNCHANGED mintVars /\ Unmoved

ChallengeCloses ==
    /\ widget = "challenge" /\ widget' = "running"
    /\ held' = Armed([held EXCEPT !.interactive = FALSE])
    /\ UNCHANGED solved /\ UNCHANGED mintVars /\ Unmoved

\* A token nobody waited for is minted with once the mint under way has failed.
Solves ==
    /\ widget \in {"running", "challenge"} /\ solved < LastToken
    /\ minting = "token" => mints < LastMint
    /\ widget' = "resting" /\ solved' = solved + 1
    /\ Settle([held EXCEPT !.interactive = FALSE], solved')
    /\ followUp' = (inHand = 0)
    /\ Unmoved

\* error-callback leaves interactive as it is. The widget may try again by itself.
WidgetFails ==
    /\ widget = "running" \/ (widget = "challenge" /\ MayFailInChallenge)
    /\ minting = "token" => mints < LastMint
    /\ widget' \in {"failed", "running"}
    /\ Settle(held, 0)
    /\ UNCHANGED <<solved, followUp>> /\ Unmoved

\* Whether the token was taken or not.
TokenExpires ==
    /\ widget = "resting" /\ widget' = "running"
    /\ held' = Armed([held EXCEPT !.settled = FALSE, !.token = 0])
    /\ UNCHANGED solved /\ UNCHANGED mintVars /\ Unmoved

\* Eight seconds without a token: go on without one.
TimerFires ==
    /\ held.timer
    /\ minting = "token" => mints < LastMint
    /\ Settle(held, 0)
    /\ UNCHANGED <<widget, solved, followUp>> /\ Unmoved

FollowUp ==
    /\ followUp /\ minting = "no" /\ followUp' = FALSE
    /\ IF CanMint /\ held.token # 0 THEN Mint
       ELSE UNCHANGED <<widget, held, minting, offered, mints, offers>>
    /\ UNCHANGED solved /\ Unmoved

-----------------------------------------------------------------------------
(* The Worker.                                                             *)

\* gateSessionMint: siteverify takes a token once; it may also be out of reach.
Verifies(t) == t # 0 /\ t \notin spent

\* mint of BudgetCore.
BelowCeiling == issued < MintCeiling

\* handleSession: both, then a signed token.
Serves(t, reachable) ==
    IF reachable /\ Verifies(t)
    THEN /\ spent' = spent \cup {t}
         /\ issued' = IF BelowCeiling THEN issued + 1 ELSE issued
    ELSE UNCHANGED <<spent, issued>>

\* The session is stored; a question that is still in the box is sent.
SessionOpens ==
    /\ minting = "request" /\ Serves(offered, TRUE) /\ issued' # issued
    /\ inHand' = issued' /\ stored' = issued'
    /\ sent' = IF queued # 0 /\ entry = queued THEN sent \cup {queued} ELSE sent
    /\ entry' = IF queued # 0 /\ entry = queued THEN 0 ELSE entry
    /\ queued' = 0 /\ minting' = "no"
    /\ UNCHANGED <<widget, solved, held, offered, followUp, mints, offers, view, voided>>

\* A refusal, or no answer within 15 seconds although the Worker may mint.
MintFails ==
    /\ minting = "request" /\ minting' = "no"
    /\ \/ \E reachable \in BOOLEAN :
             Serves(offered, reachable) /\ issued' = issued
       \/ Serves(offered, TRUE)
    /\ UNCHANGED <<widget, solved, held, offered, followUp, mints, offers, voided>>
    /\ UNCHANGED pageVars

KeyChanges ==
    /\ voided # issued /\ voided' = issued
    /\ UNCHANGED <<widget, solved, held, spent, issued>> /\ UNCHANGED mintVars
    /\ UNCHANGED pageVars

-----------------------------------------------------------------------------
(* The pages of the tab.                                                   *)

\* A question is typed once and sent from the box; while there is no session it waits.
AskQuestion ==
    /\ view = "chat"
    /\ \E text \in {entry} \cup {t \in 1..LastText : t \notin sent} :
          /\ text # 0
          /\ IF inHand # 0
             THEN /\ sent' = sent \cup {text} /\ entry' = 0
                  /\ UNCHANGED <<queued, widget, held, minting, offered, mints, offers>>
             ELSE /\ entry' = text /\ queued' = text /\ UNCHANGED sent
                  /\ IF CanMint THEN Mint
                     ELSE UNCHANGED <<widget, held, minting, offered, mints, offers>>
    /\ UNCHANGED <<solved, followUp, view, inHand, stored>> /\ UNCHANGED serverVars

\* The student changes what is in the box.
Retype ==
    /\ view = "chat" /\ entry' \in 0..LastText \ ({entry} \cup sent)
    /\ UNCHANGED <<widget, solved, held, view, inHand, stored, queued, sent>>
    /\ UNCHANGED mintVars /\ UNCHANGED serverVars

\* A request that is left behind may be served or not.
LeftBehind ==
    IF minting = "request" THEN \E delivered \in BOOLEAN : Serves(offered, delivered)
    ELSE UNCHANGED <<spent, issued>>

\* boot: the session of the tab is taken over as it is, else one is minted.
OpenRoom ==
    /\ widget' = "absent" /\ held' = Armed(NewWidget) /\ followUp' = FALSE
    /\ view' = "chat" /\ inHand' = stored /\ entry' = 0 /\ queued' = 0
    /\ minting' = IF stored = 0 THEN "token" ELSE "no"
    /\ UNCHANGED <<solved, offered, mints, offers, stored, sent, voided>>
    /\ LeftBehind

\* critique.js: ensureSession asks without a Turnstile token.
OpenGalley ==
    /\ view = "chat" /\ view' = "galley"
    /\ widget' = "absent" /\ held' = NewWidget /\ followUp' = FALSE /\ minting' = "no"
    /\ inHand' = 0 /\ entry' = 0 /\ queued' = 0
    /\ UNCHANGED <<solved, offered, mints, offers, stored, sent, voided>>
    /\ LeftBehind

EnsureSession ==
    /\ view = "galley" /\ stored = 0 /\ minting = "no" /\ mints < LastMint
    /\ Offer(0)
    /\ UNCHANGED <<widget, solved, held, followUp>> /\ Unmoved

\* A submission with a token the Worker does not take drops the token.
SessionRefused ==
    /\ view = "galley" /\ minting = "no" /\ stored # 0 /\ stored <= voided
    /\ stored' = 0
    /\ UNCHANGED <<widget, solved, held, view, inHand, entry, queued, sent>>
    /\ UNCHANGED mintVars /\ UNCHANGED serverVars

GateNext ==
    \/ ScriptLoads \/ ChallengeOpens \/ ChallengeCloses \/ Solves \/ WidgetFails
    \/ TokenExpires \/ TimerFires \/ FollowUp
    \/ SessionOpens \/ MintFails \/ KeyChanges
    \/ AskQuestion \/ Retype \/ OpenRoom \/ OpenGalley \/ EnsureSession \/ SessionRefused

GateSpec == GateInit /\ [][GateNext]_gateVars

-----------------------------------------------------------------------------
(* Properties.                                                             *)

\* The variables have their types.
GateTypeOK ==
    /\ widget \in {"absent", "running", "challenge", "resting", "failed"}
    /\ solved \in Tokens
    /\ held \in [token : Tokens, settled : BOOLEAN, interactive : BOOLEAN, timer : BOOLEAN]
    /\ minting \in {"no", "token", "request"} /\ offered \in Tokens /\ followUp \in BOOLEAN
    /\ view \in {"chat", "galley"} /\ inHand \in Sessions /\ stored \in Sessions
    /\ entry \in 0..LastText /\ queued \in 0..LastText /\ sent \subseteq 1..LastText
    /\ mints \in 0..LastMint /\ spent \subseteq 1..LastToken /\ issued \in Sessions
    /\ voided \in Sessions /\ offers \in [1..LastToken -> Nat]

\* Turnstile takes a token once: the page never offers one twice, though a token may
\* come with nobody waiting, during a mint or after one has failed.
TokensAreOfferedOnce == \A t \in 1..LastToken : offers[t] <= 1

\* The consultation view never hangs on a silent widget (the comment above armTimer): who
\* waits for a token has a timer running, or a challenge to complete on the screen.
WaitingEnds == minting = "token" => held.timer \/ widget = "challenge"

\* The page never opens a session it does not use: a second mint starts only without one.
OneSessionAtATime == view = "chat" /\ inHand # 0 => minting = "no"

\* Opening a session costs one challenge, ends, and happens once.
GateIsPassable == TokensAreOfferedOnce /\ WaitingEnds /\ OneSessionAtATime
=============================================================================
