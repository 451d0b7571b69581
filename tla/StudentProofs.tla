--------------------------- MODULE StudentProofs ---------------------------
(***************************************************************************)
(* The student's side. That opening a session costs one challenge, ends and*)
(* happens once, for any number of tokens, mints and submits; that the     *)
(* assessment records are shown as they are and forgotten in time; and that*)
(* the interview page keeps every question with its own answer, once and in*)
(* order, whatever breaks, is reloaded or comes late, and wherever the     *)
(* stream of an answer is cut.                                             *)
(***************************************************************************)
EXTENDS SessionGate, AssessmentAudit, ChatRoom, ChatStream, FiniteSetTheorems, SequenceTheorems,
        WellFoundedInduction, TLAPS

-----------------------------------------------------------------------------
(* Opening a session.                                                      *)

\* A token that was not handed out yet was never offered, nor were tokens to come.
HeldTokenIsFresh ==
    /\ held.token <= solved
    /\ \A t \in 1..LastToken : t > solved \/ t = held.token => offers[t] = 0

\* The consultation page has a timer exactly while nothing is settled or on the screen; the
\* galley has no widget and waits for no token.
TimerIsArmed ==
    /\ view = "chat" => (held.timer <=> ~held.settled /\ ~held.interactive)
    /\ view = "galley" => widget = "absent" /\ minting # "token" /\ ~followUp /\ ~held.timer

\* A challenge is on the screen exactly while the page thinks so, and settles nothing.
ChallengeIsKnown ==
    (held.interactive <=> widget = "challenge") /\ (widget = "challenge" => ~held.settled)

\* A request is served once.
IssuedByMint == issued <= mints /\ (minting = "request" => issued < mints)

GateInv ==
    /\ GateTypeOK /\ HeldTokenIsFresh /\ TokensAreOfferedOnce /\ IssuedByMint
    /\ TimerIsArmed /\ OneSessionAtATime
    /\ ~MayFailInChallenge => ChallengeIsKnown /\ WaitingEnds

Held == [token : Tokens, settled : BOOLEAN, interactive : BOOLEAN, timer : BOOLEAN]

USE GateAssumption

\* What the four ways to change the turnstile object do to its fields.
LEMMA HeldMoves ==
  ASSUME NEW h \in Held
  PROVE  /\ Armed(h) \in Held /\ Armed(h).token = h.token /\ (Armed(h).settled <=> h.settled)
         /\ (Armed(h).interactive <=> h.interactive) /\ (Armed(h).timer <=> ~h.settled /\ ~h.interactive)
         /\ LET g == [h EXCEPT !.settled = FALSE]
            IN g \in Held /\ g.token = h.token /\ ~g.settled /\ (g.interactive <=> h.interactive)
         /\ LET g == [h EXCEPT !.interactive = FALSE]
            IN g \in Held /\ g.token = h.token /\ (g.settled <=> h.settled) /\ ~g.interactive
         /\ LET g == [h EXCEPT !.settled = FALSE, !.token = 0]
            IN g \in Held /\ g.token = 0 /\ ~g.settled /\ (g.interactive <=> h.interactive)
         /\ LET g == [h EXCEPT !.token = 0]
            IN /\ g \in Held /\ g.token = 0 /\ (g.settled <=> h.settled)
               /\ (g.interactive <=> h.interactive) /\ (g.timer <=> h.timer)
         /\ \A t \in Tokens :
               LET g == [h EXCEPT !.token = t, !.settled = TRUE, !.timer = FALSE]
               IN g \in Held /\ g.token = t /\ g.settled /\ ~g.timer /\ (g.interactive <=> h.interactive)
<1> USE DEF Held, Tokens
<1>1. /\ Armed(h) \in Held /\ Armed(h).token = h.token /\ (Armed(h).settled <=> h.settled)
      /\ (Armed(h).interactive <=> h.interactive) /\ (Armed(h).timer <=> ~h.settled /\ ~h.interactive)
  BY DEF Armed
<1>2. LET g == [h EXCEPT !.settled = FALSE]
      IN g \in Held /\ g.token = h.token /\ ~g.settled /\ (g.interactive <=> h.interactive)
  OBVIOUS
<1>3. LET g == [h EXCEPT !.interactive = FALSE]
      IN g \in Held /\ g.token = h.token /\ (g.settled <=> h.settled) /\ ~g.interactive
  OBVIOUS
<1>4. LET g == [h EXCEPT !.settled = FALSE, !.token = 0]
      IN g \in Held /\ g.token = 0 /\ ~g.settled /\ (g.interactive <=> h.interactive)
  <2> DEFINE g == [h EXCEPT !.settled = FALSE, !.token = 0]
  <2>1. g \in Held
    <3> DEFINE f == [h EXCEPT !.settled = FALSE]
    <3>1. f \in Held
      OBVIOUS
    <3>2. g = [f EXCEPT !.token = 0] /\ 0 \in Tokens
      OBVIOUS
    <3> HIDE DEF f, g
    <3> QED
      BY <3>1, <3>2
  <2>2. g.token = 0 /\ g.settled = FALSE /\ g.interactive = h.interactive
    OBVIOUS
  <2> QED
    BY <2>1, <2>2
<1>5. LET g == [h EXCEPT !.token = 0]
      IN /\ g \in Held /\ g.token = 0 /\ (g.settled <=> h.settled)
         /\ (g.interactive <=> h.interactive) /\ (g.timer <=> h.timer)
  OBVIOUS
<1>6. ASSUME NEW t \in Tokens
      PROVE  LET g == [h EXCEPT !.token = t, !.settled = TRUE, !.timer = FALSE]
             IN g \in Held /\ g.token = t /\ g.settled /\ ~g.timer /\ (g.interactive <=> h.interactive)
  <2> DEFINE g == [h EXCEPT !.token = t, !.settled = TRUE, !.timer = FALSE]
  <2>1. g \in Held
    OBVIOUS
  <2>2. g.token = t /\ g.settled = TRUE /\ g.timer = FALSE /\ g.interactive = h.interactive
    OBVIOUS
  <2> QED
    BY <2>1, <2>2
<1> QED
  BY <1>1, <1>2, <1>3, <1>4, <1>5, <1>6

LEMMA NewWidgetIsHeld ==
  /\ NewWidget \in Held /\ NewWidget.token = 0 /\ ~NewWidget.settled /\ ~NewWidget.interactive
  /\ ~NewWidget.timer
BY DEF NewWidget, Held, Tokens

LEMMA InitGate == GateInit => GateInv
<1> SUFFICES ASSUME GateInit PROVE GateInv
  OBVIOUS
<1>1. /\ held \in Held /\ held.token = 0 /\ ~held.settled /\ ~held.interactive /\ held.timer
  BY NewWidgetIsHeld, HeldMoves DEF GateInit
<1>2. offers \in [1..LastToken -> Nat] /\ \A t \in 1..LastToken : offers[t] = 0
  BY DEF GateInit
<1>3. GateTypeOK
  <2>1. 0 \in 0..LastToken /\ 0 \in 0..LastMint /\ 0 \in 0..LastText
    OBVIOUS
  <2>2. /\ widget = "absent" /\ solved = 0 /\ minting = "token" /\ offered = 0 /\ followUp = FALSE
        /\ view = "chat" /\ inHand = 0 /\ stored = 0 /\ entry = 0 /\ queued = 0 /\ sent = {}
        /\ mints = 0 /\ spent = {} /\ issued = 0 /\ voided = 0
    BY DEF GateInit
  <2> QED
    BY <1>1, <1>2, <2>1, <2>2 DEF GateTypeOK, Held, Tokens, Sessions
<1> QED
  BY <1>1, <1>2, <1>3 DEF GateInit, GateInv, HeldTokenIsFresh, TokensAreOfferedOnce, IssuedByMint,
     TimerIsArmed,
     OneSessionAtATime, ChallengeIsKnown, WaitingEnds

\* An offer of a token that was not offered before, or of none.
LEMMA OfferIsFresh ==
  ASSUME GateTypeOK, TokensAreOfferedOnce, NEW t \in Tokens, t # 0 => offers[t] = 0, Offer(t), mints < LastMint
  PROVE  /\ offers' \in [1..LastToken -> Nat] /\ TokensAreOfferedOnce'
         /\ \A u \in 1..LastToken : u # t => offers'[u] = offers[u]
         /\ minting' = "request" /\ offered' = t /\ mints' = mints + 1 /\ mints' \in 0..LastMint
<1>1. /\ mints \in Nat /\ offers \in [1..LastToken -> Nat]
      /\ offers' = [u \in 1..LastToken |-> IF u = t THEN offers[u] + 1 ELSE offers[u]]
  BY DEF GateTypeOK, Offer
<1>2. \A u \in 1..LastToken : offers'[u] = IF u = t THEN offers[u] + 1 ELSE offers[u]
  BY <1>1
<1>3. ASSUME NEW u \in 1..LastToken PROVE offers'[u] <= 1 /\ offers'[u] \in Nat
  <2>1. offers[u] \in Nat /\ offers[u] <= 1
    BY <1>1 DEF TokensAreOfferedOnce
  <2>2. u = t => offers[u] = 0
    BY <1>3
  <2> QED
    BY <1>2, <2>1, <2>2
<1>4. offers' \in [1..LastToken -> Nat]
  BY <1>1, <1>3
<1>5. mints' = mints + 1 /\ mints' \in 0..LastMint
  BY <1>1 DEF Offer
<1> QED
  BY <1>2, <1>3, <1>4, <1>5 DEF Offer, TokensAreOfferedOnce

LEMMA SettleKeeps ==
  ASSUME GateInv, NEW h \in Held, NEW t \in Tokens, Settle(h, t), minting = "token" => mints < LastMint,
         t # 0 => offers[t] = 0
  PROVE  /\ held' \in Held /\ held'.settled /\ ~held'.timer /\ (held'.interactive <=> h.interactive)
         /\ offers' \in [1..LastToken -> Nat] /\ TokensAreOfferedOnce'
         /\ \A u \in 1..LastToken : u # t => offers'[u] = offers[u]
         /\ mints' \in 0..LastMint /\ offered' \in Tokens
         /\ \/ /\ minting = "token" /\ minting' = "request" /\ mints' = mints + 1 /\ held'.token = 0
            \/ /\ minting # "token" /\ UNCHANGED <<minting, mints, offers>> /\ held'.token = t
<1>1. CASE minting = "token"
  <2>1. held' = [h EXCEPT !.token = 0, !.settled = TRUE, !.timer = FALSE] /\ Offer(t)
    BY <1>1 DEF Settle
  <2>2. /\ offers' \in [1..LastToken -> Nat] /\ TokensAreOfferedOnce'
        /\ \A u \in 1..LastToken : u # t => offers'[u] = offers[u]
        /\ minting' = "request" /\ offered' = t /\ mints' = mints + 1 /\ mints' \in 0..LastMint
    BY <1>1, <2>1, OfferIsFresh DEF GateInv
  <2>3. 0 \in Tokens
    BY DEF Tokens
  <2> QED
    BY <1>1, <2>1, <2>2, <2>3, HeldMoves
<1>2. CASE minting # "token"
  <2>1. held' = [h EXCEPT !.token = t, !.settled = TRUE, !.timer = FALSE] /\ UNCHANGED <<minting, offered, mints, offers>>
    BY <1>2 DEF Settle
  <2> QED
    BY <1>2, <2>1, HeldMoves DEF GateInv, GateTypeOK, TokensAreOfferedOnce
<1> QED
  BY <1>1, <1>2

\* A request for a session, made or prepared.
LEMMA MintKeeps ==
  ASSUME GateInv, CanMint, Mint
  PROVE  /\ held' \in Held /\ held'.token \in {0, held.token} /\ (held'.interactive <=> held.interactive)
         /\ (held'.timer <=> ~held'.settled /\ ~held'.interactive)
         /\ offers' \in [1..LastToken -> Nat] /\ TokensAreOfferedOnce'
         /\ \A u \in 1..LastToken : u # held.token => offers'[u] = offers[u]
         /\ held'.token # 0 => UNCHANGED offers
         /\ mints' \in 0..LastMint /\ offered' \in Tokens
         /\ widget' = widget \/ (widget' = "running" /\ held.settled /\ ~held'.settled)
         /\ held'.settled => held.settled
         /\ \/ minting' = "request" /\ mints' = mints + 1
            \/ minting' = "token" /\ mints' = mints /\ ~held'.settled
<1>1. held \in Held /\ view = "chat" /\ (held.timer <=> ~held.settled /\ ~held.interactive) /\ mints < LastMint
      /\ held.token \in Tokens /\ mints \in 0..LastMint /\ offered \in Tokens /\ offers \in [1..LastToken -> Nat]
  BY DEF CanMint, GateInv, GateTypeOK, TimerIsArmed, Held
<1>2. CASE held.settled /\ held.token = 0 /\ widget # "absent"
  <2>1. /\ widget' = "running" /\ held' = Armed([held EXCEPT !.settled = FALSE])
        /\ minting' = "token" /\ UNCHANGED <<offered, mints, offers>>
    BY <1>2 DEF Mint
  <2> DEFINE g == [held EXCEPT !.settled = FALSE]
  <2>2. g \in Held /\ g.token = held.token /\ ~g.settled /\ (g.interactive <=> held.interactive)
    BY <1>1, HeldMoves
  <2>3. held' = Armed(g)
    BY <2>1
  <2> HIDE DEF g
  <2>4. /\ held' \in Held /\ held'.token = held.token /\ ~held'.settled
        /\ (held'.interactive <=> held.interactive) /\ (held'.timer <=> ~held'.interactive)
    BY <2>2, <2>3, HeldMoves
  <2> QED
    BY <1>1, <1>2, <2>1, <2>4 DEF GateInv, TokensAreOfferedOnce
<1>3. CASE ~(held.settled /\ held.token = 0 /\ widget # "absent") /\ held.settled
  <2>1. UNCHANGED widget /\ Offer(held.token) /\ held' = [held EXCEPT !.token = 0]
    BY <1>3 DEF Mint, HandOver
  <2>2. held.token # 0 => offers[held.token] = 0
    BY <1>1 DEF GateInv, HeldTokenIsFresh, Tokens
  <2>3. /\ offers' \in [1..LastToken -> Nat] /\ TokensAreOfferedOnce'
        /\ \A u \in 1..LastToken : u # held.token => offers'[u] = offers[u]
        /\ minting' = "request" /\ offered' = held.token /\ mints' = mints + 1 /\ mints' \in 0..LastMint
    BY <1>1, <2>1, <2>2, OfferIsFresh DEF GateInv
  <2>4. /\ held' \in Held /\ held'.token = 0 /\ (held'.settled <=> held.settled)
        /\ (held'.interactive <=> held.interactive) /\ (held'.timer <=> held.timer)
    BY <1>1, <2>1, HeldMoves
  <2> QED
    BY <1>1, <2>1, <2>3, <2>4
<1>4. CASE ~held.settled
  <2>1. UNCHANGED widget /\ minting' = "token" /\ UNCHANGED <<held, offered, mints, offers>>
    BY <1>4 DEF Mint
  <2> QED
    BY <1>1, <1>4, <2>1 DEF GateInv, TokensAreOfferedOnce
<1> QED
  BY <1>2, <1>3, <1>4

\* A token is spent once, and a session issued for it at most.
LEMMA ServesKeeps ==
  ASSUME GateInv, minting = "request", NEW reachable \in BOOLEAN, Serves(offered, reachable)
  PROVE  /\ spent' \subseteq 1..LastToken /\ issued' \in {issued, issued + 1}
         /\ issued' \in Sessions /\ issued' <= mints
<1>1. /\ offered \in Tokens /\ spent \subseteq 1..LastToken /\ issued \in 0..LastMint /\ mints \in 0..LastMint
      /\ issued < mints
  BY DEF GateInv, GateTypeOK, IssuedByMint, Sessions
<1>2. spent' \subseteq 1..LastToken /\ issued' \in {issued, issued + 1}
  <2>1. CASE reachable /\ Verifies(offered)
    <3>1. spent' = spent \cup {offered} /\ issued' \in {issued, issued + 1}
      BY <2>1 DEF Serves
    <3>2. offered \in 1..LastToken
      BY <1>1, <2>1 DEF Verifies, Tokens
    <3> QED
      BY <1>1, <3>1, <3>2
  <2>2. CASE ~(reachable /\ Verifies(offered))
    BY <1>1, <2>2 DEF Serves
  <2> QED
    BY <2>1, <2>2
<1> QED
  BY <1>1, <1>2 DEF Sessions

LEMMA StepKeepsGate == GateInv /\ [GateNext]_gateVars => GateInv'
<1> SUFFICES ASSUME GateInv, [GateNext]_gateVars PROVE GateInv'
  OBVIOUS
<1> USE DEF GateInv
<1>types.
      /\ widget \in {"absent", "running", "challenge", "resting", "failed"} /\ solved \in 0..LastToken
      /\ held \in Held /\ held.token \in 0..LastToken
      /\ minting \in {"no", "token", "request"} /\ offered \in 0..LastToken /\ followUp \in BOOLEAN
      /\ view \in {"chat", "galley"} /\ inHand \in 0..LastMint /\ stored \in 0..LastMint
      /\ entry \in 0..LastText /\ queued \in 0..LastText /\ sent \subseteq 1..LastText
      /\ mints \in 0..LastMint /\ spent \subseteq 1..LastToken /\ issued \in 0..LastMint
      /\ voided \in 0..LastMint /\ offers \in [1..LastToken -> Nat]
  BY DEF GateTypeOK, Held, Tokens, Sessions
<1>fresh. held.token # 0 => offers[held.token] = 0
  BY <1>types DEF HeldTokenIsFresh
<1>1. ASSUME ScriptLoads PROVE GateInv'
  <2>1. /\ view = "chat" /\ widget = "absent" /\ widget' = "running" /\ UNCHANGED <<solved, held>>
        /\ UNCHANGED <<minting, offered, followUp, mints, offers>> /\ UNCHANGED <<view, inHand, stored, entry, queued, sent, spent, issued, voided>>
    BY <1>1 DEF ScriptLoads, mintVars, pageVars, serverVars, Unmoved
  <2>10. GateTypeOK'
    BY <1>types, <2>1 DEF GateTypeOK, Held, Tokens, Sessions
  <2>11. HeldTokenIsFresh'
    BY <1>types, <2>1 DEF HeldTokenIsFresh
  <2>12. TokensAreOfferedOnce'
    BY <1>types, <2>1 DEF TokensAreOfferedOnce
  <2>13. IssuedByMint'
    BY <1>types, <2>1 DEF IssuedByMint
  <2>14. TimerIsArmed'
    BY <1>types, <2>1 DEF TimerIsArmed
  <2>15. OneSessionAtATime'
    BY <1>types, <2>1 DEF OneSessionAtATime, TimerIsArmed
  <2>16. ASSUME ~MayFailInChallenge PROVE ChallengeIsKnown' /\ WaitingEnds'
    BY <1>types, <2>1, <2>16 DEF ChallengeIsKnown, WaitingEnds, TimerIsArmed
  <2> QED
    BY <2>10, <2>11, <2>12, <2>13, <2>14, <2>15, <2>16
<1>2. ASSUME ChallengeOpens PROVE GateInv'
  <2>1. /\ widget = "running" /\ widget' = "challenge" /\ UNCHANGED solved
        /\ UNCHANGED <<minting, offered, followUp, mints, offers>> /\ UNCHANGED <<view, inHand, stored, entry, queued, sent, spent, issued, voided>>
    BY <1>2 DEF ChallengeOpens, mintVars, pageVars, serverVars, Unmoved
  <2>2. /\ held' \in Held /\ held'.token = 0 /\ ~held'.settled /\ held'.interactive /\ ~held'.timer
    BY <1>2 DEF ChallengeOpens, Held, Tokens
  <2>10. GateTypeOK'
    BY <1>types, <2>1, <2>2 DEF GateTypeOK, Held, Tokens, Sessions
  <2>11. HeldTokenIsFresh'
    BY <1>types, <2>1, <2>2 DEF HeldTokenIsFresh
  <2>12. TokensAreOfferedOnce'
    BY <1>types, <2>1, <2>2 DEF TokensAreOfferedOnce
  <2>13. IssuedByMint'
    BY <1>types, <2>1, <2>2 DEF IssuedByMint
  <2>14. TimerIsArmed'
    BY <1>types, <2>1, <2>2 DEF TimerIsArmed
  <2>15. OneSessionAtATime'
    BY <1>types, <2>1, <2>2 DEF OneSessionAtATime, TimerIsArmed
  <2>16. ASSUME ~MayFailInChallenge PROVE ChallengeIsKnown' /\ WaitingEnds'
    BY <1>types, <2>1, <2>2, <2>16 DEF ChallengeIsKnown, WaitingEnds, TimerIsArmed
  <2> QED
    BY <2>10, <2>11, <2>12, <2>13, <2>14, <2>15, <2>16
<1>3. ASSUME ChallengeCloses PROVE GateInv'
  <2>1. /\ widget = "challenge" /\ widget' = "running" /\ UNCHANGED solved
        /\ UNCHANGED <<minting, offered, followUp, mints, offers>> /\ UNCHANGED <<view, inHand, stored, entry, queued, sent, spent, issued, voided>>
    BY <1>3 DEF ChallengeCloses, mintVars, Unmoved
  <2>2. /\ held' \in Held /\ held'.token = held.token /\ (held'.settled <=> held.settled) /\ ~held'.interactive
        /\ (held'.timer <=> ~held'.settled)
    <3> DEFINE g == [held EXCEPT !.interactive = FALSE]
    <3>1. held' = Armed(g)
      BY <1>3 DEF ChallengeCloses
    <3>2. g \in Held /\ g.token = held.token /\ (g.settled <=> held.settled) /\ ~g.interactive
      BY <1>types, HeldMoves
    <3> HIDE DEF g
    <3> QED
      BY <3>1, <3>2, HeldMoves
  <2>10. GateTypeOK'
    BY <1>types, <2>1, <2>2 DEF GateTypeOK, Held, Tokens, Sessions
  <2>11. HeldTokenIsFresh'
    BY <1>types, <2>1, <2>2 DEF HeldTokenIsFresh
  <2>12. TokensAreOfferedOnce'
    BY <1>types, <2>1, <2>2 DEF TokensAreOfferedOnce
  <2>13. IssuedByMint'
    BY <1>types, <2>1, <2>2 DEF IssuedByMint
  <2>14. TimerIsArmed'
    BY <1>types, <2>1, <2>2 DEF TimerIsArmed
  <2>15. OneSessionAtATime'
    BY <1>types, <2>1, <2>2 DEF OneSessionAtATime, TimerIsArmed
  <2>16. ASSUME ~MayFailInChallenge PROVE ChallengeIsKnown' /\ WaitingEnds'
    BY <1>types, <2>1, <2>2, <2>16 DEF ChallengeIsKnown, WaitingEnds, TimerIsArmed
  <2> QED
    BY <2>10, <2>11, <2>12, <2>13, <2>14, <2>15, <2>16
<1>4. ASSUME Solves PROVE GateInv'
  <2>h. [held EXCEPT !.interactive = FALSE] \in Held /\ ~[held EXCEPT !.interactive = FALSE].interactive
    BY <1>types, HeldMoves
  <2>s. solved + 1 \in Tokens /\ offers[solved + 1] = 0 /\ Settle([held EXCEPT !.interactive = FALSE], solved + 1)
        /\ (minting = "token" => mints < LastMint)
    BY <1>4, <1>types DEF Solves, Tokens, HeldTokenIsFresh
  <2>1. /\ widget \in {"running", "challenge"} /\ widget' = "resting" /\ solved' = solved + 1 /\ solved' \in 0..LastToken
        /\ UNCHANGED <<view, inHand, stored, entry, queued, sent, spent, issued, voided>>
    BY <1>types, <1>4 DEF Solves, Unmoved
  <2>3. followUp' \in BOOLEAN
    BY <1>4 DEF Solves
  <2>2. /\ held' \in Held /\ held'.settled /\ ~held'.timer /\ ~held'.interactive
        /\ offers' \in [1..LastToken -> Nat] /\ TokensAreOfferedOnce'
        /\ \A u \in 1..LastToken : u # solved + 1 => offers'[u] = offers[u]
        /\ mints' \in 0..LastMint /\ offered' \in 0..LastToken
        /\ \/ /\ minting = "token" /\ minting' = "request" /\ mints' = mints + 1 /\ held'.token = 0
           \/ /\ minting # "token" /\ UNCHANGED <<minting, mints, offers>> /\ held'.token = solved + 1
    <3> DEFINE h == [held EXCEPT !.interactive = FALSE]
    <3>1. h \in Held /\ ~h.interactive /\ Settle(h, solved + 1)
      BY <2>h, <2>s
    <3> HIDE DEF h
    <3> QED
      BY <2>s, <3>1, SettleKeeps DEF Tokens
  <2>10. GateTypeOK'
    BY <1>types, <2>1, <2>2, <2>3 DEF GateTypeOK, Held, Tokens, Sessions
  <2>11. HeldTokenIsFresh'
    BY <1>types, <2>1, <2>2, <2>3 DEF HeldTokenIsFresh
  <2>12. TokensAreOfferedOnce'
    BY <1>types, <2>1, <2>2, <2>3 DEF TokensAreOfferedOnce
  <2>13. IssuedByMint'
    BY <1>types, <2>1, <2>2, <2>3 DEF IssuedByMint
  <2>14. TimerIsArmed'
    BY <1>types, <2>1, <2>2, <2>3 DEF TimerIsArmed
  <2>15. OneSessionAtATime'
    BY <1>types, <2>1, <2>2, <2>3 DEF OneSessionAtATime, TimerIsArmed
  <2>16. ASSUME ~MayFailInChallenge PROVE ChallengeIsKnown' /\ WaitingEnds'
    BY <1>types, <2>1, <2>2, <2>3, <2>16 DEF ChallengeIsKnown, WaitingEnds, TimerIsArmed
  <2> QED
    BY <2>10, <2>11, <2>12, <2>13, <2>14, <2>15, <2>16
<1>5. ASSUME WidgetFails PROVE GateInv'
  <2>1. /\ (widget = "running" \/ (widget = "challenge" /\ MayFailInChallenge)) /\ widget' \in {"failed", "running"} /\ UNCHANGED <<solved, followUp>> /\ UNCHANGED <<view, inHand, stored, entry, queued, sent, spent, issued, voided>>
    BY <1>5 DEF WidgetFails, Unmoved
  <2>2. /\ held' \in Held /\ held'.settled /\ ~held'.timer /\ (held'.interactive <=> held.interactive)
        /\ offers' \in [1..LastToken -> Nat] /\ TokensAreOfferedOnce'
        /\ \A u \in 1..LastToken : u # 0 => offers'[u] = offers[u]
        /\ mints' \in 0..LastMint /\ offered' \in 0..LastToken
        /\ \/ /\ minting = "token" /\ minting' = "request" /\ mints' = mints + 1 /\ held'.token = 0
           \/ /\ minting # "token" /\ UNCHANGED <<minting, mints, offers>> /\ held'.token = 0
    <3>1. 0 \in Tokens /\ Settle(held, 0) /\ (minting = "token" => mints < LastMint)
      BY <1>5 DEF WidgetFails, Tokens
    <3> QED
      BY <1>types, <3>1, SettleKeeps DEF Tokens
  <2>10. GateTypeOK'
    BY <1>types, <2>1, <2>2 DEF GateTypeOK, Held, Tokens, Sessions
  <2>11. HeldTokenIsFresh'
    BY <1>types, <2>1, <2>2 DEF HeldTokenIsFresh
  <2>12. TokensAreOfferedOnce'
    BY <1>types, <2>1, <2>2 DEF TokensAreOfferedOnce
  <2>13. IssuedByMint'
    BY <1>types, <2>1, <2>2 DEF IssuedByMint
  <2>14. TimerIsArmed'
    BY <1>types, <2>1, <2>2 DEF TimerIsArmed
  <2>15. OneSessionAtATime'
    BY <1>types, <2>1, <2>2 DEF OneSessionAtATime, TimerIsArmed
  <2>16. ASSUME ~MayFailInChallenge PROVE ChallengeIsKnown' /\ WaitingEnds'
    BY <1>types, <2>1, <2>2, <2>16 DEF ChallengeIsKnown, WaitingEnds, TimerIsArmed
  <2> QED
    BY <2>10, <2>11, <2>12, <2>13, <2>14, <2>15, <2>16
<1>6. ASSUME TokenExpires PROVE GateInv'
  <2>1. /\ widget = "resting" /\ widget' = "running" /\ UNCHANGED solved
        /\ UNCHANGED <<minting, offered, followUp, mints, offers>> /\ UNCHANGED <<view, inHand, stored, entry, queued, sent, spent, issued, voided>>
    BY <1>6 DEF TokenExpires, mintVars, Unmoved
  <2>2. /\ held' \in Held /\ held'.token = 0 /\ ~held'.settled /\ (held'.interactive <=> held.interactive)
        /\ (held'.timer <=> ~held'.interactive)
    <3> DEFINE g == [held EXCEPT !.settled = FALSE, !.token = 0]
    <3>1. held' = Armed(g)
      BY <1>6 DEF TokenExpires
    <3>2. g \in Held /\ g.token = 0 /\ ~g.settled /\ (g.interactive <=> held.interactive)
      BY <1>types, HeldMoves
    <3> HIDE DEF g
    <3> QED
      BY <3>1, <3>2, HeldMoves
  <2>10. GateTypeOK'
    BY <1>types, <2>1, <2>2 DEF GateTypeOK, Held, Tokens, Sessions
  <2>11. HeldTokenIsFresh'
    BY <1>types, <2>1, <2>2 DEF HeldTokenIsFresh
  <2>12. TokensAreOfferedOnce'
    BY <1>types, <2>1, <2>2 DEF TokensAreOfferedOnce
  <2>13. IssuedByMint'
    BY <1>types, <2>1, <2>2 DEF IssuedByMint
  <2>14. TimerIsArmed'
    BY <1>types, <2>1, <2>2 DEF TimerIsArmed
  <2>15. OneSessionAtATime'
    BY <1>types, <2>1, <2>2 DEF OneSessionAtATime, TimerIsArmed
  <2>16. ASSUME ~MayFailInChallenge PROVE ChallengeIsKnown' /\ WaitingEnds'
    BY <1>types, <2>1, <2>2, <2>16 DEF ChallengeIsKnown, WaitingEnds, TimerIsArmed
  <2> QED
    BY <2>10, <2>11, <2>12, <2>13, <2>14, <2>15, <2>16
<1>7. ASSUME TimerFires PROVE GateInv'
  <2>1. /\ held.timer /\ UNCHANGED widget /\ UNCHANGED <<solved, followUp>> /\ UNCHANGED <<view, inHand, stored, entry, queued, sent, spent, issued, voided>>
    BY <1>7 DEF TimerFires, Unmoved
  <2>2. /\ held' \in Held /\ held'.settled /\ ~held'.timer /\ (held'.interactive <=> held.interactive)
        /\ offers' \in [1..LastToken -> Nat] /\ TokensAreOfferedOnce'
        /\ \A u \in 1..LastToken : u # 0 => offers'[u] = offers[u]
        /\ mints' \in 0..LastMint /\ offered' \in 0..LastToken
        /\ \/ /\ minting = "token" /\ minting' = "request" /\ mints' = mints + 1 /\ held'.token = 0
           \/ /\ minting # "token" /\ UNCHANGED <<minting, mints, offers>> /\ held'.token = 0
    <3>1. 0 \in Tokens /\ Settle(held, 0) /\ (minting = "token" => mints < LastMint)
      BY <1>7 DEF TimerFires, Tokens
    <3> QED
      BY <1>types, <3>1, SettleKeeps DEF Tokens
  <2>10. GateTypeOK'
    BY <1>types, <2>1, <2>2 DEF GateTypeOK, Held, Tokens, Sessions
  <2>11. HeldTokenIsFresh'
    BY <1>types, <2>1, <2>2 DEF HeldTokenIsFresh
  <2>12. TokensAreOfferedOnce'
    BY <1>types, <2>1, <2>2 DEF TokensAreOfferedOnce
  <2>13. IssuedByMint'
    BY <1>types, <2>1, <2>2 DEF IssuedByMint
  <2>14. TimerIsArmed'
    BY <1>types, <2>1, <2>2 DEF TimerIsArmed
  <2>15. OneSessionAtATime'
    BY <1>types, <2>1, <2>2 DEF OneSessionAtATime, TimerIsArmed
  <2>16. ASSUME ~MayFailInChallenge PROVE ChallengeIsKnown' /\ WaitingEnds'
    BY <1>types, <2>1, <2>2, <2>16 DEF ChallengeIsKnown, WaitingEnds, TimerIsArmed
  <2> QED
    BY <2>10, <2>11, <2>12, <2>13, <2>14, <2>15, <2>16
<1>8. ASSUME FollowUp PROVE GateInv'
  <2>1. followUp /\ followUp' = FALSE /\ UNCHANGED solved /\ UNCHANGED <<view, inHand, stored, entry, queued, sent, spent, issued, voided>>
    BY <1>8 DEF FollowUp, Unmoved
  <2>2. \/ UNCHANGED <<widget, held, minting, offered, mints, offers>>
        \/ /\ view = "chat" /\ inHand = 0 /\ minting = "no"
           /\ held' \in Held /\ held'.token \in {0, held.token} /\ (held'.interactive <=> held.interactive)
           /\ (held'.timer <=> ~held'.settled /\ ~held'.interactive)
           /\ offers' \in [1..LastToken -> Nat] /\ TokensAreOfferedOnce'
           /\ \A u \in 1..LastToken : u # held.token => offers'[u] = offers[u]
           /\ held'.token # 0 => UNCHANGED offers
           /\ mints' \in 0..LastMint /\ offered' \in 0..LastToken
           /\ widget' = widget \/ (widget' = "running" /\ held.settled /\ ~held'.settled)
           /\ held'.settled => held.settled
           /\ \/ minting' = "request" /\ mints' = mints + 1
              \/ minting' = "token" /\ mints' = mints /\ ~held'.settled
    <3>1. CASE CanMint /\ Mint
      BY <3>1, MintKeeps DEF CanMint, Tokens
    <3> QED
      BY <1>8, <3>1 DEF FollowUp
  <2>10. GateTypeOK'
    BY <1>types, <2>1, <2>2 DEF GateTypeOK, Held, Tokens, Sessions
  <2>11. HeldTokenIsFresh'
    <3>1. CASE UNCHANGED <<held, offers>>
      BY <2>1, <3>1 DEF HeldTokenIsFresh
    <3>2. CASE ~UNCHANGED <<held, offers>>
      <4>1. /\ held'.token = 0 \/ (held'.token = held.token /\ UNCHANGED offers)
            /\ \A u \in 1..LastToken : u # held.token => offers'[u] = offers[u]
        BY <2>2, <3>2
      <4>2. \A u \in 1..LastToken : u > solved => u # held.token
        BY <1>types DEF HeldTokenIsFresh
      <4> QED
        BY <1>types, <2>1, <4>1, <4>2 DEF HeldTokenIsFresh
    <3> QED
      BY <3>1, <3>2
  <2>12. TokensAreOfferedOnce'
    BY <1>types, <2>1, <2>2 DEF TokensAreOfferedOnce
  <2>13. IssuedByMint'
    BY <1>types, <2>1, <2>2 DEF IssuedByMint
  <2>14. TimerIsArmed'
    BY <1>types, <2>1, <2>2 DEF TimerIsArmed
  <2>15. OneSessionAtATime'
    BY <1>types, <2>1, <2>2 DEF OneSessionAtATime, TimerIsArmed
  <2>16. ASSUME ~MayFailInChallenge PROVE ChallengeIsKnown' /\ WaitingEnds'
    BY <1>types, <2>1, <2>2, <2>16 DEF ChallengeIsKnown, WaitingEnds, TimerIsArmed
  <2> QED
    BY <2>10, <2>11, <2>12, <2>13, <2>14, <2>15, <2>16
<1>9. ASSUME SessionOpens PROVE GateInv'
  <2>1. /\ minting = "request" /\ minting' = "no" /\ UNCHANGED <<widget, solved, held, offered, followUp, mints, offers, view, voided>>
        /\ inHand' = issued' /\ stored' = issued' /\ queued' = 0
    BY <1>9 DEF SessionOpens
  <2>2. /\ spent' \subseteq 1..LastToken /\ issued' \in 0..LastMint /\ issued' <= mints
        /\ entry' \in 0..LastText /\ sent' \subseteq 1..LastText
    <3>1. spent' \subseteq 1..LastToken /\ issued' \in 0..LastMint /\ issued' <= mints
      BY <1>9, ServesKeeps DEF SessionOpens, Sessions
    <3>2. entry' \in 0..LastText /\ sent' \subseteq 1..LastText
      BY <1>9, <1>types DEF SessionOpens
    <3> QED
      BY <3>1, <3>2
  <2>10. GateTypeOK'
    BY <1>types, <2>1, <2>2 DEF GateTypeOK, Held, Tokens, Sessions
  <2>11. HeldTokenIsFresh'
    BY <1>types, <2>1, <2>2 DEF HeldTokenIsFresh
  <2>12. TokensAreOfferedOnce'
    BY <1>types, <2>1, <2>2 DEF TokensAreOfferedOnce
  <2>13. IssuedByMint'
    BY <1>types, <2>1, <2>2 DEF IssuedByMint
  <2>14. TimerIsArmed'
    BY <1>types, <2>1, <2>2 DEF TimerIsArmed
  <2>15. OneSessionAtATime'
    BY <1>types, <2>1, <2>2 DEF OneSessionAtATime, TimerIsArmed
  <2>16. ASSUME ~MayFailInChallenge PROVE ChallengeIsKnown' /\ WaitingEnds'
    BY <1>types, <2>1, <2>2, <2>16 DEF ChallengeIsKnown, WaitingEnds, TimerIsArmed
  <2> QED
    BY <2>10, <2>11, <2>12, <2>13, <2>14, <2>15, <2>16
<1>10. ASSUME MintFails PROVE GateInv'
  <2>1. /\ minting = "request" /\ minting' = "no" /\ UNCHANGED <<widget, solved, held, offered, followUp, mints, offers, voided>>
        /\ UNCHANGED <<view, inHand, stored, entry, queued, sent>>
    BY <1>10 DEF MintFails, pageVars
  <2>2. spent' \subseteq 1..LastToken /\ issued' \in 0..LastMint /\ issued' <= mints
    <3>1. \E reachable \in BOOLEAN : Serves(offered, reachable)
      BY <1>10 DEF MintFails
    <3> QED
      BY <2>1, <3>1, ServesKeeps DEF Sessions
  <2>10. GateTypeOK'
    BY <1>types, <2>1, <2>2 DEF GateTypeOK, Held, Tokens, Sessions
  <2>11. HeldTokenIsFresh'
    BY <1>types, <2>1, <2>2 DEF HeldTokenIsFresh
  <2>12. TokensAreOfferedOnce'
    BY <1>types, <2>1, <2>2 DEF TokensAreOfferedOnce
  <2>13. IssuedByMint'
    BY <1>types, <2>1, <2>2 DEF IssuedByMint
  <2>14. TimerIsArmed'
    BY <1>types, <2>1, <2>2 DEF TimerIsArmed
  <2>15. OneSessionAtATime'
    BY <1>types, <2>1, <2>2 DEF OneSessionAtATime, TimerIsArmed
  <2>16. ASSUME ~MayFailInChallenge PROVE ChallengeIsKnown' /\ WaitingEnds'
    BY <1>types, <2>1, <2>2, <2>16 DEF ChallengeIsKnown, WaitingEnds, TimerIsArmed
  <2> QED
    BY <2>10, <2>11, <2>12, <2>13, <2>14, <2>15, <2>16
<1>11. ASSUME KeyChanges PROVE GateInv'
  <2>1. /\ voided' = issued /\ UNCHANGED <<widget, solved, held, spent, issued>> /\ UNCHANGED <<minting, offered, followUp, mints, offers>>
        /\ UNCHANGED <<view, inHand, stored, entry, queued, sent>>
    BY <1>11 DEF KeyChanges, mintVars, pageVars, serverVars, Unmoved
  <2>10. GateTypeOK'
    BY <1>types, <2>1 DEF GateTypeOK, Held, Tokens, Sessions
  <2>11. HeldTokenIsFresh'
    BY <1>types, <2>1 DEF HeldTokenIsFresh
  <2>12. TokensAreOfferedOnce'
    BY <1>types, <2>1 DEF TokensAreOfferedOnce
  <2>13. IssuedByMint'
    BY <1>types, <2>1 DEF IssuedByMint
  <2>14. TimerIsArmed'
    BY <1>types, <2>1 DEF TimerIsArmed
  <2>15. OneSessionAtATime'
    BY <1>types, <2>1 DEF OneSessionAtATime, TimerIsArmed
  <2>16. ASSUME ~MayFailInChallenge PROVE ChallengeIsKnown' /\ WaitingEnds'
    BY <1>types, <2>1, <2>16 DEF ChallengeIsKnown, WaitingEnds, TimerIsArmed
  <2> QED
    BY <2>10, <2>11, <2>12, <2>13, <2>14, <2>15, <2>16
<1>12. ASSUME AskQuestion PROVE GateInv'
  <2>1. /\ view = "chat" /\ UNCHANGED <<solved, followUp, view, inHand, stored, spent, issued, voided>>
        /\ entry' \in 0..LastText /\ queued' \in 0..LastText /\ sent' \subseteq 1..LastText
    <3>1. PICK text \in {entry} \cup {t \in 1..LastText : t \notin sent} :
             /\ text # 0
             /\ \/ sent' = sent \cup {text} /\ entry' = 0 /\ UNCHANGED queued
                \/ entry' = text /\ queued' = text /\ UNCHANGED sent
      BY <1>12 DEF AskQuestion
    <3>2. text \in 1..LastText
      BY <1>types, <3>1
    <3> QED
      <4>1. view = "chat" /\ UNCHANGED <<solved, followUp, view, inHand, stored, spent, issued, voided>>
        BY <1>12 DEF AskQuestion, serverVars
      <4>2. entry' \in 0..LastText /\ queued' \in 0..LastText /\ sent' \subseteq 1..LastText
        <5>1. 0 \in 0..LastText /\ text \in 0..LastText
          BY <3>2
        <5>2. CASE sent' = sent \cup {text} /\ entry' = 0 /\ UNCHANGED queued
          BY <1>types, <3>2, <5>1, <5>2
        <5>3. CASE entry' = text /\ queued' = text /\ UNCHANGED sent
          BY <1>types, <5>1, <5>3
        <5> QED
          BY <3>1, <5>2, <5>3
      <4> QED
        BY <4>1, <4>2
  <2>2. \/ UNCHANGED <<widget, held, minting, offered, mints, offers>>
        \/ /\ view = "chat" /\ inHand = 0 /\ minting = "no"
           /\ held' \in Held /\ held'.token \in {0, held.token} /\ (held'.interactive <=> held.interactive)
           /\ (held'.timer <=> ~held'.settled /\ ~held'.interactive)
           /\ offers' \in [1..LastToken -> Nat] /\ TokensAreOfferedOnce'
           /\ \A u \in 1..LastToken : u # held.token => offers'[u] = offers[u]
           /\ held'.token # 0 => UNCHANGED offers
           /\ mints' \in 0..LastMint /\ offered' \in 0..LastToken
           /\ widget' = widget \/ (widget' = "running" /\ held.settled /\ ~held'.settled)
           /\ held'.settled => held.settled
           /\ \/ minting' = "request" /\ mints' = mints + 1
              \/ minting' = "token" /\ mints' = mints /\ ~held'.settled
    <3>1. CASE CanMint /\ Mint
      BY <3>1, MintKeeps DEF CanMint, Tokens
    <3> QED
      BY <1>12, <3>1 DEF AskQuestion
  <2>10. GateTypeOK'
    BY <1>types, <2>1, <2>2 DEF GateTypeOK, Held, Tokens, Sessions
  <2>11. HeldTokenIsFresh'
    <3>1. CASE UNCHANGED <<held, offers>>
      BY <2>1, <3>1 DEF HeldTokenIsFresh
    <3>2. CASE ~UNCHANGED <<held, offers>>
      <4>1. /\ held'.token = 0 \/ (held'.token = held.token /\ UNCHANGED offers)
            /\ \A u \in 1..LastToken : u # held.token => offers'[u] = offers[u]
        BY <2>2, <3>2
      <4>2. \A u \in 1..LastToken : u > solved => u # held.token
        BY <1>types DEF HeldTokenIsFresh
      <4> QED
        BY <1>types, <2>1, <4>1, <4>2 DEF HeldTokenIsFresh
    <3> QED
      BY <3>1, <3>2
  <2>12. TokensAreOfferedOnce'
    BY <1>types, <2>1, <2>2 DEF TokensAreOfferedOnce
  <2>13. IssuedByMint'
    BY <1>types, <2>1, <2>2 DEF IssuedByMint
  <2>14. TimerIsArmed'
    BY <1>types, <2>1, <2>2 DEF TimerIsArmed
  <2>15. OneSessionAtATime'
    BY <1>types, <2>1, <2>2 DEF OneSessionAtATime, TimerIsArmed
  <2>16. ASSUME ~MayFailInChallenge PROVE ChallengeIsKnown' /\ WaitingEnds'
    BY <1>types, <2>1, <2>2, <2>16 DEF ChallengeIsKnown, WaitingEnds, TimerIsArmed
  <2> QED
    BY <2>10, <2>11, <2>12, <2>13, <2>14, <2>15, <2>16
<1>13. ASSUME Retype PROVE GateInv'
  <2>1. /\ entry' \in 0..LastText /\ UNCHANGED <<widget, solved, held, view, inHand, stored, queued, sent>> /\ UNCHANGED <<minting, offered, followUp, mints, offers>>
        /\ UNCHANGED <<spent, issued, voided>>
    BY <1>13 DEF Retype, mintVars, pageVars, serverVars, Unmoved
  <2>10. GateTypeOK'
    BY <1>types, <2>1 DEF GateTypeOK, Held, Tokens, Sessions
  <2>11. HeldTokenIsFresh'
    BY <1>types, <2>1 DEF HeldTokenIsFresh
  <2>12. TokensAreOfferedOnce'
    BY <1>types, <2>1 DEF TokensAreOfferedOnce
  <2>13. IssuedByMint'
    BY <1>types, <2>1 DEF IssuedByMint
  <2>14. TimerIsArmed'
    BY <1>types, <2>1 DEF TimerIsArmed
  <2>15. OneSessionAtATime'
    BY <1>types, <2>1 DEF OneSessionAtATime, TimerIsArmed
  <2>16. ASSUME ~MayFailInChallenge PROVE ChallengeIsKnown' /\ WaitingEnds'
    BY <1>types, <2>1, <2>16 DEF ChallengeIsKnown, WaitingEnds, TimerIsArmed
  <2> QED
    BY <2>10, <2>11, <2>12, <2>13, <2>14, <2>15, <2>16
<1>14. ASSUME OpenRoom PROVE GateInv'
  <2>3. spent' \subseteq 1..LastToken /\ issued' \in 0..LastMint /\ issued' <= mints
    <3>1. CASE minting = "request"
      <4>1. \E delivered \in BOOLEAN : Serves(offered, delivered)
        BY <1>14, <3>1 DEF OpenRoom, LeftBehind
      <4> QED
        BY <3>1, <4>1, ServesKeeps DEF Sessions
    <3>2. CASE minting # "request"
      <4>1. UNCHANGED <<spent, issued>>
        BY <1>14, <3>2 DEF OpenRoom, LeftBehind
      <4> QED
        BY <1>types, <3>2, <4>1 DEF IssuedByMint
    <3> QED
      BY <3>1, <3>2
  <2>1. /\ widget' = "absent" /\ followUp' = FALSE /\ view' = "chat" /\ inHand' = stored /\ entry' = 0 /\ queued' = 0
        /\ minting' = IF stored = 0 THEN "token" ELSE "no"
        /\ UNCHANGED <<solved, offered, mints, offers, stored, sent, voided>>
    BY <1>14 DEF OpenRoom
  <2>4. 0 \in 0..LastMint /\ 0 \in 0..LastText /\ minting' \in {"no", "token"}
    BY <2>1
  <2>2. held' \in Held /\ held'.token = 0 /\ ~held'.settled /\ ~held'.interactive /\ held'.timer
    BY <1>14, NewWidgetIsHeld, HeldMoves DEF OpenRoom
  <2>10. GateTypeOK'
    BY <1>types, <2>1, <2>2, <2>3, <2>4 DEF GateTypeOK, Held, Tokens, Sessions
  <2>11. HeldTokenIsFresh'
    BY <1>types, <2>1, <2>2, <2>3, <2>4 DEF HeldTokenIsFresh
  <2>12. TokensAreOfferedOnce'
    BY <1>types, <2>1, <2>2, <2>3, <2>4 DEF TokensAreOfferedOnce
  <2>13. IssuedByMint'
    BY <1>types, <2>1, <2>2, <2>3, <2>4 DEF IssuedByMint
  <2>14. TimerIsArmed'
    BY <1>types, <2>1, <2>2, <2>3, <2>4 DEF TimerIsArmed
  <2>15. OneSessionAtATime'
    BY <1>types, <2>1, <2>2, <2>3, <2>4 DEF OneSessionAtATime, TimerIsArmed
  <2>16. ASSUME ~MayFailInChallenge PROVE ChallengeIsKnown' /\ WaitingEnds'
    BY <1>types, <2>1, <2>2, <2>3, <2>4, <2>16 DEF ChallengeIsKnown, WaitingEnds, TimerIsArmed
  <2> QED
    BY <2>10, <2>11, <2>12, <2>13, <2>14, <2>15, <2>16
<1>15. ASSUME OpenGalley PROVE GateInv'
  <2>3. spent' \subseteq 1..LastToken /\ issued' \in 0..LastMint /\ issued' <= mints
    <3>1. CASE minting = "request"
      <4>1. \E delivered \in BOOLEAN : Serves(offered, delivered)
        BY <1>15, <3>1 DEF OpenGalley, LeftBehind
      <4> QED
        BY <3>1, <4>1, ServesKeeps DEF Sessions
    <3>2. CASE minting # "request"
      <4>1. UNCHANGED <<spent, issued>>
        BY <1>15, <3>2 DEF OpenGalley, LeftBehind
      <4> QED
        BY <1>types, <3>2, <4>1 DEF IssuedByMint
    <3> QED
      BY <3>1, <3>2
  <2>1. /\ widget' = "absent" /\ followUp' = FALSE /\ view' = "galley" /\ inHand' = 0 /\ entry' = 0 /\ queued' = 0
        /\ minting' = "no"
        /\ UNCHANGED <<solved, offered, mints, offers, stored, sent, voided>>
    BY <1>15 DEF OpenGalley
  <2>4. 0 \in 0..LastMint /\ 0 \in 0..LastText
    OBVIOUS
  <2>2. held' \in Held /\ held'.token = 0 /\ ~held'.settled /\ ~held'.interactive /\ ~held'.timer
    BY <1>15, NewWidgetIsHeld DEF OpenGalley
  <2>10. GateTypeOK'
    BY <1>types, <2>1, <2>2, <2>3, <2>4 DEF GateTypeOK, Held, Tokens, Sessions
  <2>11. HeldTokenIsFresh'
    BY <1>types, <2>1, <2>2, <2>3, <2>4 DEF HeldTokenIsFresh
  <2>12. TokensAreOfferedOnce'
    BY <1>types, <2>1, <2>2, <2>3, <2>4 DEF TokensAreOfferedOnce
  <2>13. IssuedByMint'
    BY <1>types, <2>1, <2>2, <2>3, <2>4 DEF IssuedByMint
  <2>14. TimerIsArmed'
    BY <1>types, <2>1, <2>2, <2>3, <2>4 DEF TimerIsArmed
  <2>15. OneSessionAtATime'
    BY <1>types, <2>1, <2>2, <2>3, <2>4 DEF OneSessionAtATime, TimerIsArmed
  <2>16. ASSUME ~MayFailInChallenge PROVE ChallengeIsKnown' /\ WaitingEnds'
    BY <1>types, <2>1, <2>2, <2>3, <2>4, <2>16 DEF ChallengeIsKnown, WaitingEnds, TimerIsArmed
  <2> QED
    BY <2>10, <2>11, <2>12, <2>13, <2>14, <2>15, <2>16
<1>16. ASSUME EnsureSession PROVE GateInv'
  <2>1. /\ view = "galley" /\ minting = "no" /\ UNCHANGED <<widget, solved, held, followUp>> /\ UNCHANGED <<view, inHand, stored, entry, queued, sent, spent, issued, voided>>
    BY <1>16 DEF EnsureSession, Unmoved
  <2>2. /\ offers' \in [1..LastToken -> Nat] /\ TokensAreOfferedOnce'
        /\ \A u \in 1..LastToken : offers'[u] = offers[u]
        /\ minting' = "request" /\ offered' = 0 /\ mints' = mints + 1 /\ mints' \in 0..LastMint
    <3>1. 0 \in Tokens /\ Offer(0) /\ mints < LastMint
      BY <1>16 DEF EnsureSession, Tokens
    <3> QED
      BY <3>1, OfferIsFresh
  <2>10. GateTypeOK'
    BY <1>types, <2>1, <2>2 DEF GateTypeOK, Held, Tokens, Sessions
  <2>11. HeldTokenIsFresh'
    BY <1>types, <2>1, <2>2 DEF HeldTokenIsFresh
  <2>12. TokensAreOfferedOnce'
    BY <1>types, <2>1, <2>2 DEF TokensAreOfferedOnce
  <2>13. IssuedByMint'
    BY <1>types, <2>1, <2>2 DEF IssuedByMint
  <2>14. TimerIsArmed'
    BY <1>types, <2>1, <2>2 DEF TimerIsArmed
  <2>15. OneSessionAtATime'
    BY <1>types, <2>1, <2>2 DEF OneSessionAtATime, TimerIsArmed
  <2>16. ASSUME ~MayFailInChallenge PROVE ChallengeIsKnown' /\ WaitingEnds'
    BY <1>types, <2>1, <2>2, <2>16 DEF ChallengeIsKnown, WaitingEnds, TimerIsArmed
  <2> QED
    BY <2>10, <2>11, <2>12, <2>13, <2>14, <2>15, <2>16
<1>17. ASSUME SessionRefused PROVE GateInv'
  <2>1. /\ stored' = 0 /\ UNCHANGED <<widget, solved, held, view, inHand, entry, queued, sent>> /\ UNCHANGED <<minting, offered, followUp, mints, offers>>
        /\ UNCHANGED <<spent, issued, voided>>
    BY <1>17 DEF SessionRefused, mintVars, pageVars, serverVars, Unmoved
  <2>10. GateTypeOK'
    BY <1>types, <2>1 DEF GateTypeOK, Held, Tokens, Sessions
  <2>11. HeldTokenIsFresh'
    BY <1>types, <2>1 DEF HeldTokenIsFresh
  <2>12. TokensAreOfferedOnce'
    BY <1>types, <2>1 DEF TokensAreOfferedOnce
  <2>13. IssuedByMint'
    BY <1>types, <2>1 DEF IssuedByMint
  <2>14. TimerIsArmed'
    BY <1>types, <2>1 DEF TimerIsArmed
  <2>15. OneSessionAtATime'
    BY <1>types, <2>1 DEF OneSessionAtATime, TimerIsArmed
  <2>16. ASSUME ~MayFailInChallenge PROVE ChallengeIsKnown' /\ WaitingEnds'
    BY <1>types, <2>1, <2>16 DEF ChallengeIsKnown, WaitingEnds, TimerIsArmed
  <2> QED
    BY <2>10, <2>11, <2>12, <2>13, <2>14, <2>15, <2>16
<1>18. ASSUME UNCHANGED gateVars PROVE GateInv'
  BY <1>18 DEF gateVars, GateTypeOK, HeldTokenIsFresh, TokensAreOfferedOnce, IssuedByMint, TimerIsArmed,
     OneSessionAtATime, ChallengeIsKnown, WaitingEnds
<1> QED
  BY <1>1, <1>2, <1>3, <1>4, <1>5, <1>6, <1>7, <1>8, <1>9, <1>10, <1>11, <1>12, <1>13, <1>14, <1>15,
     <1>16, <1>17, <1>18 DEF GateNext

\* GateInv is what the proof carries; without an error in the middle of a challenge it is enough.
LEMMA GateInvSuffices == ~MayFailInChallenge /\ GateInv => GateIsPassable
BY DEF GateInv, GateIsPassable

\* Without an error in the middle of a challenge, opening a session costs one challenge, ends
\* and happens once, for every number of tokens, mints and submits and every ceiling.
THEOREM GateHolds == ~MayFailInChallenge => (GateSpec => []GateIsPassable)
<1>1. ASSUME ~MayFailInChallenge PROVE GateSpec => []GateIsPassable
  <2>1. GateInv => GateIsPassable
    BY <1>1, GateInvSuffices
  <2> QED
    BY <2>1, InitGate, StepKeepsGate, PTL DEF GateSpec
<1> QED
  BY <1>1

HIDE GateAssumption

-----------------------------------------------------------------------------
(* The assessment records.                                                 *)

\* Records get the ids that were minted.
KeptWasMinted == \A a \in KeptAudits : a <= assessed
SheetWasMinted == sheet # Nobody => sheet.audit <= assessed

\* What is saved is an override of the record on the page.
SavesItsOwn == sheet # Nobody /\ sheet.saving # Nobody => sheet.saving.audit = sheet.audit

\* An override waits for the refresh of its heading.
Refreshing(h) == sheet.saving # Nobody /\ sheet.recorded /\ sheet.saving.heading = h

\* A heading with a post still on its way is in doubt.
UnderWayIsDoubted == sheet # Nobody => UnderWay(sheet.audit) \subseteq doubt

\* A heading that is neither in doubt nor about to be refreshed is shown as a reload would
\* show it, and so is the log.
CardsAreCurrent ==
    sheet # Nobody /\ sheet.audit \in KeptAudits =>
        \A h \in Headings \ doubt : Refreshing(h) \/ sheet.cards[h] = Shown(sheet.audit, h)
LogIsCurrent ==
    sheet # Nobody /\ sheet.audit \in KeptAudits /\ doubt = {} =>
        (\E h \in Headings : Refreshing(h)) \/ sheet.log = LogOf(sheet.audit)

AuditInv ==
    /\ AuditTypeOK /\ KeptWasMinted /\ SheetWasMinted /\ SavesItsOwn /\ UnderWayIsDoubted
    /\ AlarmCoversRecords /\ OverridesHaveRecords /\ CardsAreCurrent /\ LogIsCurrent

-----------------------------------------------------------------------------
(* Least and greatest numbers.                                             *)

LEMMA MinIsLeast ==
  ASSUME NEW S \in SUBSET Nat, S # {}
  PROVE  Min(S) \in S /\ \A y \in S : Min(S) <= y
<1> DEFINE R == {p \in Nat \X Nat : p[1] < p[2]}
<1>1. IsWellFoundedOn(R, Nat)
  BY NatLessThanWellFounded DEF OpToRel
<1>2. PICK x \in S : \A y \in S : <<y, x>> \notin R
  <2> HIDE DEF R
  <2> QED
    BY <1>1, WFMin
<1>3. ASSUME NEW y \in S PROVE x <= y
  <2>1. x \in Nat /\ y \in Nat
    OBVIOUS
  <2>2. ~(y < x)
    BY <1>2, <2>1
  <2> QED
    BY <2>1, <2>2
<1> QED
  BY <1>3 DEF Min

LEMMA MaxIsGreatest ==
  ASSUME NEW n \in Nat, NEW S \in SUBSET (0..n), S # {}
  PROVE  Max(S) \in S /\ \A y \in S : y <= Max(S)
<1> DEFINE T == {n - x : x \in S}
<1>1. T \in SUBSET Nat /\ T # {}
  <2>1. \A x \in S : x \in 0..n /\ n - x \in Nat
    OBVIOUS
  <2> QED
    BY <2>1
<1> HIDE DEF T
<1>2. PICK t \in T : \A u \in T : t <= u
  BY <1>1, MinIsLeast
<1> USE DEF T
<1>3. PICK x \in S : t = n - x
  BY <1>2
<1>4. \A y \in S : y <= x
  <2> SUFFICES ASSUME NEW y \in S PROVE y <= x
    OBVIOUS
  <2>1. n - y \in T /\ x \in 0..n /\ y \in 0..n
    OBVIOUS
  <2>2. n - x <= n - y
    BY <1>2, <1>3, <2>1
  <2> QED
    BY <2>1, <2>2
<1> QED
  BY <1>4 DEF Max

\* A panel's scores are on the scale.
LEMMA AggregateIsTyped ==
  ASSUME NEW cards \in Panels, NEW proposed \in [Contested(cards) -> Scores]
  PROVE  Aggregate(cards, proposed) \in Results
<1>1. PICK n \in PanelSizes : cards \in [1..n -> Scorecards]
  BY DEF Panels
<1>2. n \in Nat \ {0} /\ TopScore \in Nat \ {0} /\ Scorecards \subseteq [Headings -> Scores]
  BY AuditAssumption DEF Scores
<1> SUFFICES ASSUME NEW h \in Headings
             PROVE  /\ h \in Contested(cards) =>
                          Min({Max(Given(cards, h)), Max({Min(Given(cards, h)), proposed[h]})}) \in Scores
                    /\ Median(cards, h) \in Scores
  BY DEF Aggregate, Results
<1> DEFINE G == Given(cards, h)
<1>3. \A i \in 1..n : cards[i][h] \in Scores
  BY <1>1, <1>2
<1>4. G \subseteq Scores /\ cards[1][h] \in G /\ DOMAIN cards = 1..n
  BY <1>1, <1>2, <1>3 DEF Given
<1> HIDE DEF G
<1>5. G # {} /\ G \in SUBSET Nat /\ G \in SUBSET (0..TopScore) /\ Scores \in SUBSET Nat /\ Scores \in SUBSET (0..TopScore)
  BY <1>2, <1>4 DEF Scores
<1>6. Max(G) \in Scores /\ Min(G) \in Scores /\ \A y \in G : y <= Max(G)
  BY <1>2, <1>4, <1>5, MinIsLeast, MaxIsGreatest
<1>7. ASSUME h \in Contested(cards)
      PROVE  Min({Max(G), Max({Min(G), proposed[h]})}) \in Scores
  <2>1. proposed[h] \in Scores
    BY <1>7
  <2>2. Max({Min(G), proposed[h]}) \in Scores
    BY <1>2, <1>5, <1>6, <2>1, MaxIsGreatest
  <2> QED
    BY <1>5, <1>6, <2>2, MinIsLeast
<1>8. Median(cards, h) \in Scores
  <2> DEFINE Below(s) == {i \in DOMAIN cards : cards[i][h] <= s}
             H == {s \in G : Len(cards) <= 2 * Cardinality(Below(s))}
  <2>1. Below(Max(G)) = 1..n
    BY <1>4, <1>6 DEF G, Given
  <2>2. Cardinality(1..n) = n
    BY <1>2, FS_Interval
  <2>3. Len(cards) = n
    BY <1>1, <1>2
  <2>4. Max(G) \in H
    <3>1. Max(G) \in G
      BY <1>2, <1>5, MaxIsGreatest
    <3>2. n <= 2 * n
      BY <1>2
    <3> HIDE DEF Below
    <3> QED
      BY <2>1, <2>2, <2>3, <3>1, <3>2
  <2>5. H \in SUBSET Nat /\ H # {}
    BY <1>5, <2>4
  <2> HIDE DEF H, Below
  <2>6. Min(H) \in H
    BY <2>5, MinIsLeast
  <2>7. Min(H) \in Scores
    BY <1>4, <2>6 DEF H
  <2> QED
    BY <2>7 DEF H, G, Below, Median
<1> QED
  BY <1>7, <1>8 DEF G

-----------------------------------------------------------------------------
(* The store.                                                              *)

LEMMA AuditTyped ==
  ASSUME AuditTypeOK
  PROVE  /\ day \in Nat /\ alarm \in Nat \cup {Nobody} /\ assessed \in 0..LastAudit
         /\ LastAudit \in Nat /\ Nobody \notin Nat /\ Nobody \notin Overrides /\ Nobody \notin Reviews
         /\ audits \in [AuditIds -> Records \cup {Nobody}] /\ overrides \in [AuditIds -> Seq(Overrides)]
         /\ posts \subseteq Overrides /\ sheet \in Reviews \cup {Nobody}
         /\ \A r \in Records : r # Nobody /\ r.expires \in Nat
         /\ \A o \in Overrides : o.audit \in AuditIds /\ o.heading \in Headings
         /\ \A a \in KeptAudits : a \in AuditIds /\ audits[a] \in Records /\ audits[a].expires \in Nat
         /\ sheet # Nobody => /\ sheet \in Reviews /\ sheet.audit \in AuditIds
                              /\ sheet.cards \in [Headings -> Scores]
                              /\ sheet.saving \in Overrides \cup {Nobody}
                              /\ sheet.recorded \in BOOLEAN
<1>1. /\ audits \in [AuditIds -> Records \cup {Nobody}] /\ overrides \in [AuditIds -> Seq(Overrides)]
      /\ posts \subseteq Overrides /\ sheet \in Reviews \cup {Nobody} /\ day \in 0..LastDay
      /\ alarm \in Nat \cup {Nobody} /\ assessed \in 0..LastAudit
  BY DEF AuditTypeOK
<1>2. LastAudit \in Nat /\ LastDay \in Nat /\ day \in Nat
  BY <1>1, AuditAssumption
<1>3. Nobody \notin Nat /\ Nobody \notin Records /\ Nobody \notin Overrides /\ Nobody \notin Reviews
  BY NobodyAssumption
<1>4. \A r \in Records : r # Nobody /\ r.expires \in Nat
  BY <1>3 DEF Records
<1>5. \A o \in Overrides : o.audit \in AuditIds /\ o.heading \in Headings
  BY DEF Overrides
<1>6. \A a \in KeptAudits : a \in AuditIds /\ audits[a] \in Records
  BY <1>1 DEF KeptAudits
<1>7. sheet \in Reviews => /\ sheet.audit \in AuditIds /\ sheet.cards \in [Headings -> Scores]
                           /\ sheet.saving \in Overrides \cup {Nobody} /\ sheet.recorded \in BOOLEAN
  BY DEF Reviews, Results
<1> QED
  BY <1>1, <1>2, <1>3, <1>4, <1>5, <1>6, <1>7

\* What one record shows depends on nothing else.
LEMMA ShownStays ==
  \A a : audits'[a] = audits[a] /\ overrides'[a] = overrides[a] =>
            LogOf(a)' = LogOf(a) /\ \A h : Shown(a, h)' = Shown(a, h)
BY DEF Shown, LogOf

\* Where no record is added and the alarm stays, it still covers them all.
Spared(a) == a \in KeptAudits /\ audits'[a] = audits[a] /\ overrides'[a] = overrides[a]
LEMMA ForgetSpares ==
  ASSUME AuditTypeOK, OverridesHaveRecords, NEW gone \in SUBSET AuditIds, Forget(gone)
  PROVE  /\ audits' \in [AuditIds -> Records \cup {Nobody}]
         /\ overrides' \in [AuditIds -> Seq(Overrides)]
         /\ OverridesHaveRecords'
         /\ KeptAudits' = KeptAudits \ gone
         /\ \A a \in KeptAudits' : Spared(a)
<1>1. /\ audits \in [AuditIds -> Records \cup {Nobody}] /\ overrides \in [AuditIds -> Seq(Overrides)]
  BY AuditTyped
<1>2. <<>> \in Seq(Overrides)
  OBVIOUS
<1>3. /\ audits' = [a \in AuditIds |-> IF a \in gone THEN Nobody ELSE audits[a]]
      /\ overrides' = [a \in AuditIds |-> IF a \in gone THEN <<>> ELSE overrides[a]]
  BY DEF Forget
<1>4. /\ audits' \in [AuditIds -> Records \cup {Nobody}]
      /\ overrides' \in [AuditIds -> Seq(Overrides)]
  BY <1>1, <1>2, <1>3
<1>5. KeptAudits' = KeptAudits \ gone
  BY <1>1, <1>3 DEF KeptAudits
<1>6. \A a \in KeptAudits' : Spared(a)
  BY <1>3, <1>5 DEF Spared, KeptAudits
<1>7. OverridesHaveRecords'
  BY <1>3, <1>5 DEF OverridesHaveRecords
<1> QED
  BY <1>4, <1>5, <1>6, <1>7

\* Scheduling after records were forgotten or written.
LEMMA ScheduleCovers ==
  ASSUME audits' \in [AuditIds -> Records \cup {Nobody}],
         NEW before \in Nat \cup {Nobody}, Schedule(before)
  PROVE  alarm' \in Nat \cup {Nobody} /\ AlarmCoversRecords'
<1> DEFINE left == {a \in AuditIds : audits'[a] # Nobody}
           due == {audits'[a].expires : a \in left}
<1>1. KeptAudits' = left
  BY DEF KeptAudits
<1>2. \A a \in left : audits'[a] \in Records /\ audits'[a].expires \in Nat
  BY DEF Records
<1>3. alarm' = IF left = {} THEN before ELSE Min(due)
  BY DEF Schedule
<1>4. due \in SUBSET Nat /\ (left # {} => due # {}) /\ \A a \in left : audits'[a].expires \in due
  BY <1>2
<1>5. Nobody \notin Nat
  BY NobodyAssumption
<1> HIDE DEF left, due
<1>6. CASE left = {}
  BY <1>1, <1>3, <1>6 DEF AlarmCoversRecords
<1>7. CASE left # {}
  <2>1. alarm' \in due /\ \A y \in due : alarm' <= y
    BY <1>3, <1>4, <1>7, MinIsLeast
  <2>2. alarm' \in Nat /\ alarm' # Nobody
    BY <1>4, <1>5, <2>1
  <2>3. \A a \in left : alarm' # Nobody /\ alarm' <= audits'[a].expires
    BY <1>4, <2>1, <2>2
  <2> QED
    BY <1>1, <2>2, <2>3 DEF AlarmCoversRecords
<1> QED
  BY <1>6, <1>7

\* An override is added to its record, or the record goes.
LEMMA OverrideKeeps ==
  ASSUME AuditTypeOK, OverridesHaveRecords, NEW m \in Overrides, Override(m)
  PROVE  /\ audits' \in [AuditIds -> Records \cup {Nobody}]
         /\ overrides' \in [AuditIds -> Seq(Overrides)]
         /\ OverridesHaveRecords'
         /\ \A a \in KeptAudits' :
               /\ a \in KeptAudits /\ audits'[a] = audits[a] /\ (a = m.audit => Takes(m))
               /\ a # m.audit => LogOf(a)' = LogOf(a)
               /\ \A h : a # m.audit \/ h # m.heading => Shown(a, h)' = Shown(a, h)
         /\ Takes(m) => KeptAudits' = KeptAudits
<1>1. /\ audits \in [AuditIds -> Records \cup {Nobody}] /\ overrides \in [AuditIds -> Seq(Overrides)]
      /\ m.audit \in AuditIds
  BY AuditTyped
<1>2. CASE ~Takes(m)
  <2>1. Forget({m.audit})
    BY <1>2 DEF Override
  <2>2. m.audit \notin KeptAudits'
    BY <1>1, <2>1, ForgetSpares
  <2> QED
    BY <1>1, <1>2, <2>1, <2>2, ForgetSpares, ShownStays DEF Spared
<1>3. CASE Takes(m)
  <2>1. /\ overrides' = [overrides EXCEPT ![m.audit] = Append(overrides[m.audit], m)]
        /\ audits' = audits /\ m.audit \in KeptAudits
    BY <1>1, <1>3 DEF Override, Takes, KeptAudits
  <2>2. KeptAudits' = KeptAudits
    BY <2>1 DEF KeptAudits
  <2> DEFINE log == overrides[m.audit]
  <2>3. log \in Seq(Overrides) /\ overrides'[m.audit] = Append(log, m)
    BY <1>1, <2>1
  <2>4. /\ overrides' \in [AuditIds -> Seq(Overrides)]
        /\ \A a \in AuditIds : a # m.audit => overrides'[a] = overrides[a]
    BY <1>1, <2>1
  <2>5. OverridesHaveRecords'
    BY <2>1, <2>2, <2>4 DEF OverridesHaveRecords
  <2>6. \A h : h # m.heading => Shown(m.audit, h)' = Shown(m.audit, h)
    <3> SUFFICES ASSUME NEW h, h # m.heading
                 PROVE  Shown(m.audit, h)' = Shown(m.audit, h)
      OBVIOUS
    <3> DEFINE mine == {i \in DOMAIN log : log[i].heading = h}
               late == {i \in DOMAIN Append(log, m) : Append(log, m)[i].heading = h}
    <3>1. late = mine
      BY <2>3
    <3>2. mine # {} => Max(mine) \in mine
      <4>1. Len(log) \in Nat /\ mine \in SUBSET (0..Len(log))
        BY <2>3
      <4> HIDE DEF mine
      <4> QED
        BY <4>1, MaxIsGreatest
    <3>3. \A i \in mine : Append(log, m)[i] = log[i]
      BY <2>3
    <3>4. Shown(m.audit, h) = IF mine = {} THEN audits[m.audit].scores[h] ELSE log[Max(mine)].score
      BY DEF Shown, LogOf
    <3>5. Shown(m.audit, h)' =
             LET these == {i \in DOMAIN overrides'[m.audit] : overrides'[m.audit][i].heading = h}
             IN  IF these = {} THEN audits'[m.audit].scores[h] ELSE overrides'[m.audit][Max(these)].score
      BY DEF Shown, LogOf
    <3>6. {i \in DOMAIN overrides'[m.audit] : overrides'[m.audit][i].heading = h} = late
      BY <2>3
    <3>7. Shown(m.audit, h)' = IF late = {} THEN audits[m.audit].scores[h]
                               ELSE overrides'[m.audit][Max(late)].score
      BY <2>1, <3>5, <3>6
    <3> HIDE DEF mine, late, log
    <3>8. mine # {} => overrides'[m.audit][Max(mine)] = log[Max(mine)]
      BY <2>3, <3>2, <3>3
    <3> QED
      BY <3>1, <3>4, <3>7, <3>8
  <2>7. \A a \in KeptAudits' : a # m.audit =>
           LogOf(a)' = LogOf(a) /\ \A h : Shown(a, h)' = Shown(a, h)
    BY <2>1, <2>4, ShownStays DEF KeptAudits
  <2> QED
    BY <1>1, <1>3, <2>1, <2>2, <2>4, <2>5, <2>6, <2>7
<1> QED
  BY <1>2, <1>3

-----------------------------------------------------------------------------
(* The steps.                                                              *)

LEMMA InitAudit == AuditInit => AuditInv
<1> SUFFICES ASSUME AuditInit PROVE AuditInv
  OBVIOUS
<1>1. /\ KeptAudits = {} /\ sheet = Nobody /\ posts = {} /\ \A a \in AuditIds : overrides[a] = <<>>
  BY DEF AuditInit, KeptAudits
<1>2. AuditTypeOK
  <2>1. <<>> \in Seq(Overrides)
    OBVIOUS
  <2> QED
    BY <2>1, AuditAssumption DEF AuditInit, AuditTypeOK
<1>3. KeptWasMinted /\ SheetWasMinted /\ SavesItsOwn /\ UnderWayIsDoubted
  BY <1>1 DEF KeptWasMinted, SheetWasMinted, SavesItsOwn, UnderWayIsDoubted
<1>4. AlarmCoversRecords /\ OverridesHaveRecords /\ CardsAreCurrent /\ LogIsCurrent
  BY <1>1 DEF AlarmCoversRecords, OverridesHaveRecords, CardsAreCurrent, LogIsCurrent
<1> QED
  BY <1>2, <1>3, <1>4 DEF AuditInv

PageInv == SheetWasMinted /\ SavesItsOwn /\ UnderWayIsDoubted /\ CardsAreCurrent /\ LogIsCurrent

\* A step that leaves the page alone, and of its record everything but what is in doubt.
LEMMA PageStays ==
  ASSUME AuditInv, sheet' = sheet, doubt' = doubt, posts' \subseteq posts,
         assessed' \in Nat, assessed <= assessed',
         sheet # Nobody /\ sheet.audit \in KeptAudits' =>
            /\ sheet.audit \in KeptAudits
            /\ \A h \in Headings \ doubt : Shown(sheet.audit, h)' = Shown(sheet.audit, h)
            /\ doubt = {} => LogOf(sheet.audit)' = LogOf(sheet.audit)
  PROVE  PageInv'
<1>1. AuditTypeOK /\ SheetWasMinted /\ SavesItsOwn /\ UnderWayIsDoubted /\ CardsAreCurrent /\ LogIsCurrent
  BY DEF AuditInv
<1>2. SheetWasMinted'
  <2>1. sheet # Nobody => sheet.audit \in Nat /\ assessed \in Nat
    BY <1>1, AuditTyped DEF AuditIds
  <2> QED
    BY <1>1, <2>1 DEF SheetWasMinted
<1>3. SavesItsOwn' /\ UnderWayIsDoubted'
  BY <1>1 DEF SavesItsOwn, UnderWayIsDoubted, UnderWay
<1>4. \A h : Refreshing(h)' <=> Refreshing(h)
  BY DEF Refreshing
<1>5. CardsAreCurrent' /\ LogIsCurrent'
  BY <1>1, <1>4 DEF CardsAreCurrent, LogIsCurrent
<1> QED
  BY <1>2, <1>3, <1>5 DEF PageInv

\* The records: what is left to show of a step that adds none.
StoreInv == KeptWasMinted /\ AlarmCoversRecords /\ OverridesHaveRecords

LEMMA StoreStays ==
  ASSUME AuditInv, OverridesHaveRecords', assessed' = assessed,
         \A a \in KeptAudits' : a \in KeptAudits /\ audits'[a] = audits[a],
         alarm' = alarm
  PROVE  StoreInv'
BY DEF AuditInv, StoreInv, KeptWasMinted, AlarmCoversRecords

LEMMA AssessKeeps ==
  ASSUME AuditInv, NEW cards \in Panels, Assess(cards)
  PROVE  AuditInv'
<1>1. AuditTypeOK /\ KeptWasMinted /\ SheetWasMinted /\ OverridesHaveRecords
  BY DEF AuditInv
<1>2. /\ assessed < LastAudit /\ assessed' = assessed + 1 /\ Schedule(alarm)
      /\ day' = day /\ overrides' = overrides /\ sheet' = sheet /\ posts' = posts
      /\ drawnIds' = drawnIds /\ doubt' = doubt
  BY DEF Assess
<1>3. PICK proposed \in [Contested(cards) -> Scores], d \in Retentions :
         audits' = [audits EXCEPT ![assessed'] = [scores |-> Aggregate(cards, proposed), expires |-> day + d]]
  BY DEF Assess
<1> DEFINE new == [scores |-> Aggregate(cards, proposed), expires |-> day + d]
<1>4. new \in Records
  <2>1. day + d \in Nat
    BY <1>1, AuditTyped, AuditAssumption
  <2> QED
    BY <2>1, AggregateIsTyped DEF Records
<1> HIDE DEF new
<1>5. assessed' \in AuditIds /\ assessed' \in 0..LastAudit /\ assessed \in Nat /\ assessed' \in Nat
  BY <1>1, <1>2, AuditTyped DEF AuditIds
<1>6. audits' = [audits EXCEPT ![assessed'] = new]
  BY <1>3 DEF new
<1>7. /\ audits \in [AuditIds -> Records \cup {Nobody}]
      /\ audits' \in [AuditIds -> Records \cup {Nobody}]
      /\ audits'[assessed'] = new /\ new # Nobody
      /\ \A a \in AuditIds : a # assessed' => audits'[a] = audits[a]
  BY <1>1, <1>4, <1>5, <1>6, AuditTyped
<1>8. KeptAudits' = KeptAudits \cup {assessed'}
  BY <1>5, <1>7 DEF KeptAudits
<1>9. alarm' \in Nat \cup {Nobody} /\ AlarmCoversRecords'
  BY <1>1, <1>2, <1>7, ScheduleCovers, AuditTyped
<1>10. AuditTypeOK'
  BY <1>1, <1>2, <1>5, <1>7, <1>9 DEF AuditTypeOK
<1>11. KeptWasMinted'
  <2>1. \A a \in KeptAudits : a \in Nat
    BY DEF KeptAudits, AuditIds
  <2> QED
    BY <1>1, <1>2, <1>5, <1>8, <2>1 DEF KeptWasMinted
<1>12. OverridesHaveRecords'
  BY <1>1, <1>2, <1>8 DEF OverridesHaveRecords
<1>13. PageInv'
  <2>1. ASSUME sheet # Nobody PROVE sheet.audit \in AuditIds /\ sheet.audit # assessed'
    BY <1>1, <1>2, <1>5, <2>1, AuditTyped DEF SheetWasMinted, AuditIds
  <2>2. ASSUME sheet # Nobody
        PROVE  /\ LogOf(sheet.audit)' = LogOf(sheet.audit)
               /\ \A h : Shown(sheet.audit, h)' = Shown(sheet.audit, h)
    BY <1>2, <1>7, <2>1, <2>2, ShownStays
  <2> QED
    BY <1>2, <1>5, <1>8, <2>1, <2>2, PageStays
<1> QED
  BY <1>9, <1>10, <1>11, <1>12, <1>13 DEF AuditInv, PageInv

LEMMA ExpiryKeeps ==
  ASSUME AuditInv, AlarmRings \/ AuditStoreRestarts
  PROVE  AuditInv'
<1>1. AuditTypeOK /\ KeptWasMinted /\ OverridesHaveRecords
  BY DEF AuditInv
<1> DEFINE gone == {a \in KeptAudits : Expired(a)}
<1>2. /\ Forget(gone) /\ gone \in SUBSET AuditIds /\ (Schedule(alarm) \/ Schedule(Nobody))
      /\ day' = day /\ sheet' = sheet /\ posts' = posts /\ assessed' = assessed
      /\ drawnIds' = drawnIds /\ doubt' = doubt
  BY DEF AlarmRings, AuditStoreRestarts, ForgetExpired, KeptAudits
<1> HIDE DEF gone
<1>3. /\ audits' \in [AuditIds -> Records \cup {Nobody}]
      /\ overrides' \in [AuditIds -> Seq(Overrides)]
      /\ OverridesHaveRecords'
      /\ \A a \in KeptAudits' : Spared(a)
  BY <1>1, <1>2, ForgetSpares
<1>4. alarm' \in Nat \cup {Nobody} /\ AlarmCoversRecords'
  BY <1>1, <1>2, <1>3, ScheduleCovers, AuditTyped
<1>5. AuditTypeOK'
  BY <1>1, <1>2, <1>3, <1>4 DEF AuditTypeOK
<1>6. KeptWasMinted'
  BY <1>1, <1>2, <1>3 DEF KeptWasMinted, Spared
<1>7. PageInv'
  <2>1. assessed \in Nat
    BY <1>1, AuditTyped
  <2>2. \A a \in KeptAudits' : a \in KeptAudits /\ LogOf(a)' = LogOf(a) /\ \A h : Shown(a, h)' = Shown(a, h)
    BY <1>3, ShownStays DEF Spared
  <2> QED
    BY <1>2, <2>1, <2>2, PageStays
<1> QED
  BY <1>3, <1>4, <1>5, <1>6, <1>7 DEF AuditInv, PageInv

LEMMA DayKeeps ==
  ASSUME AuditInv, DayPasses
  PROVE  AuditInv'
<1>1. AuditTypeOK /\ OverridesHaveRecords
  BY DEF AuditInv
<1>2. /\ day' = day + 1 /\ day < LastDay
      /\ UNCHANGED <<audits, overrides, alarm, sheet, posts, assessed, drawnIds, doubt>>
  BY DEF DayPasses
<1>3. AuditTypeOK'
  <2>1. day' \in 0..LastDay
    BY <1>1, <1>2, AuditAssumption DEF AuditTypeOK
  <2> QED
    BY <1>1, <1>2, <2>1 DEF AuditTypeOK
<1>4. KeptAudits' = KeptAudits /\ assessed \in Nat
  BY <1>1, <1>2, AuditTyped DEF KeptAudits
<1>5. StoreInv'
  BY <1>1, <1>2, <1>4, StoreStays DEF OverridesHaveRecords
<1>6. PageInv'
  BY <1>2, <1>4, ShownStays, PageStays
<1> QED
  BY <1>3, <1>5, <1>6 DEF AuditInv, PageInv, StoreInv

\* An override that arrives when nobody waits for it.
LEMMA ArrivalKeeps ==
  ASSUME AuditInv, NEW m \in posts, PostArrives(m)
  PROVE  AuditInv'
<1>1. AuditTypeOK /\ OverridesHaveRecords /\ UnderWayIsDoubted
  BY DEF AuditInv
<1>2. /\ Override(m) /\ posts' = posts \ {m} /\ m \in Overrides /\ assessed \in Nat
      /\ day' = day /\ alarm' = alarm /\ sheet' = sheet /\ assessed' = assessed
      /\ drawnIds' = drawnIds /\ doubt' = doubt
  BY <1>1, AuditTyped DEF PostArrives
<1>3. /\ audits' \in [AuditIds -> Records \cup {Nobody}]
      /\ overrides' \in [AuditIds -> Seq(Overrides)]
      /\ OverridesHaveRecords'
      /\ \A a \in KeptAudits' :
            /\ a \in KeptAudits /\ audits'[a] = audits[a]
            /\ a # m.audit => LogOf(a)' = LogOf(a)
            /\ \A h : a # m.audit \/ h # m.heading => Shown(a, h)' = Shown(a, h)
  BY <1>1, <1>2, OverrideKeeps
<1>4. AuditTypeOK'
  BY <1>1, <1>2, <1>3 DEF AuditTypeOK
<1>5. StoreInv'
  BY <1>2, <1>3, StoreStays
<1>6. sheet # Nobody /\ sheet.audit = m.audit => m.heading \in doubt
  BY <1>1 DEF UnderWayIsDoubted, UnderWay
<1>7. PageInv'
  BY <1>2, <1>3, <1>6, PageStays
<1> QED
  BY <1>4, <1>5, <1>7 DEF AuditInv, PageInv, StoreInv

\* What a page shows is a score.
LEMMA ShownTyped ==
  ASSUME AuditTypeOK, NEW a \in KeptAudits, NEW h \in Headings
  PROVE  Shown(a, h) \in Scores /\ LogOf(a) \in Seq(Overrides)
<1>1. a \in AuditIds /\ audits[a] \in Records /\ overrides[a] \in Seq(Overrides)
  BY AuditTyped
<1> DEFINE log == overrides[a]
           mine == {i \in DOMAIN log : log[i].heading = h}
<1>2. audits[a].scores[h] \in Scores
  BY <1>1 DEF Records, Results
<1>3. mine \in SUBSET (0..Len(log)) /\ mine \in SUBSET (1..Len(log)) /\ Len(log) \in Nat
  BY <1>1
<1>4. \A i \in 1..Len(log) : log[i] \in Overrides /\ log[i].score \in Scores
  <2>1. \A i \in 1..Len(log) : log[i] \in Overrides
    BY <1>1
  <2>2. \A o \in Overrides : o.score \in Scores
    BY DEF Overrides
  <2> QED
    BY <2>1, <2>2
<1>5. Shown(a, h) = IF mine = {} THEN audits[a].scores[h] ELSE log[Max(mine)].score
  BY DEF Shown, LogOf
<1>6. LogOf(a) \in Seq(Overrides)
  BY <1>1 DEF LogOf
<1> HIDE DEF mine, log
<1>7. mine # {} => Max(mine) \in 1..Len(log)
  BY <1>3, MaxIsGreatest
<1> QED
  BY <1>2, <1>4, <1>5, <1>6, <1>7

LEMMA OpenKeeps ==
  ASSUME AuditInv, NEW a \in AuditIds, OpenReview(a)
  PROVE  AuditInv'
<1>1. AuditTypeOK /\ KeptWasMinted /\ OverridesHaveRecords
  BY DEF AuditInv
<1>2. /\ sheet = Nobody /\ a \in KeptAudits
      /\ day' = day /\ alarm' = alarm /\ posts' = posts /\ assessed' = assessed /\ drawnIds' = drawnIds
  BY DEF OpenReview, KeptAudits
<1>3. CASE Expired(a)
  <2>1. Forget({a}) /\ sheet' = sheet /\ doubt' = doubt
    BY <1>3 DEF OpenReview
  <2>2. /\ audits' \in [AuditIds -> Records \cup {Nobody}]
        /\ overrides' \in [AuditIds -> Seq(Overrides)]
        /\ OverridesHaveRecords'
        /\ \A b \in KeptAudits' : Spared(b)
    BY <1>1, <2>1, ForgetSpares
  <2>3. AuditTypeOK'
    BY <1>1, <1>2, <2>1, <2>2 DEF AuditTypeOK
  <2>4. StoreInv'
    BY <1>2, <2>2, StoreStays DEF Spared
  <2>5. PageInv'
    BY <1>2, <2>1 DEF PageInv, SheetWasMinted, SavesItsOwn, UnderWayIsDoubted, CardsAreCurrent,
       LogIsCurrent
  <2> QED
    BY <2>3, <2>4, <2>5 DEF AuditInv, PageInv, StoreInv
<1>4. CASE ~Expired(a)
  <2>1. /\ sheet' = [audit |-> a, cards |-> [h \in Headings |-> Shown(a, h)],
                     log |-> LogOf(a), saving |-> Nobody, recorded |-> FALSE]
        /\ doubt' = UnderWay(a) /\ audits' = audits /\ overrides' = overrides
    BY <1>4 DEF OpenReview
  <2>2. /\ [h \in Headings |-> Shown(a, h)] \in Results /\ LogOf(a) \in Seq(Overrides)
    <3>1. \A h \in Headings : Shown(a, h) \in Scores
      BY <1>1, <1>2, ShownTyped
    <3>2. LogOf(a) \in Seq(Overrides)
      BY <1>1, <1>2, AuditTyped DEF LogOf
    <3> QED
      BY <3>1, <3>2 DEF Results
  <2>3. /\ sheet' \in Reviews /\ sheet'.audit = a /\ sheet'.saving = Nobody
        /\ sheet'.log = LogOf(a) /\ sheet'.cards = [h \in Headings |-> Shown(a, h)]
    <3> DEFINE cards == [h \in Headings |-> Shown(a, h)]
    <3>1. cards \in Results
      BY <2>2
    <3> HIDE DEF cards
    <3> QED
      BY <2>1, <2>2, <3>1 DEF Reviews, cards
  <2>4. KeptAudits' = KeptAudits /\ LogOf(a)' = LogOf(a) /\ \A h : Shown(a, h)' = Shown(a, h)
    BY <2>1, ShownStays DEF KeptAudits
  <2>5. doubt' \subseteq Headings
    <3>1. posts \subseteq Overrides
      BY <1>1, AuditTyped
    <3> QED
      BY <2>1, <3>1 DEF UnderWay, Overrides
  <2>6. AuditTypeOK'
    BY <1>1, <1>2, <2>1, <2>3, <2>5 DEF AuditTypeOK
  <2>7. StoreInv'
    BY <1>1, <1>2, <2>1, <2>4, StoreStays DEF OverridesHaveRecords
  <2>8. SheetWasMinted' /\ SavesItsOwn'
    BY <1>1, <1>2, <2>3 DEF SheetWasMinted, SavesItsOwn, KeptWasMinted
  <2>9. UnderWayIsDoubted'
    BY <1>2, <2>1, <2>3 DEF UnderWayIsDoubted, UnderWay
  <2>10. CardsAreCurrent' /\ LogIsCurrent'
    BY <2>3, <2>4 DEF CardsAreCurrent, LogIsCurrent
  <2> QED
    BY <2>6, <2>7, <2>8, <2>9, <2>10 DEF AuditInv, StoreInv
<1> QED
  BY <1>3, <1>4

LEMMA EntryKeeps ==
  ASSUME AuditInv, NEW h \in Headings, NEW s \in Entered, PostOverride(h, s)
  PROVE  AuditInv'
<1>1. /\ AuditTypeOK /\ KeptWasMinted /\ OverridesHaveRecords /\ SheetWasMinted /\ SavesItsOwn
      /\ UnderWayIsDoubted /\ CardsAreCurrent /\ LogIsCurrent
  BY DEF AuditInv
<1> DEFINE new == [id |-> drawnIds', audit |-> sheet.audit, heading |-> h, score |-> s]
<1>2. /\ sheet # Nobody /\ sheet.saving = Nobody /\ drawnIds < LastOverride /\ drawnIds' = drawnIds + 1
      /\ sheet' = [sheet EXCEPT !.recorded = FALSE, !.saving = new]
      /\ UNCHANGED <<day, audits, overrides, alarm, posts, assessed, doubt>>
  BY DEF PostOverride
<1>3. sheet \in Reviews /\ sheet.audit \in AuditIds
  BY <1>1, <1>2, AuditTyped
<1>4. drawnIds' \in 1..LastOverride /\ drawnIds' \in 0..LastOverride /\ s \in Scores
  BY <1>1, <1>2, AuditAssumption DEF AuditTypeOK, Scores
<1>5. new \in Overrides /\ new.audit = sheet.audit
  BY <1>3, <1>4 DEF Overrides
<1> HIDE DEF new
<1>6. /\ sheet' \in Reviews /\ sheet'.audit = sheet.audit /\ sheet'.saving = new
      /\ sheet'.cards = sheet.cards /\ sheet'.log = sheet.log /\ sheet'.recorded = FALSE
  BY <1>2, <1>3, <1>5 DEF Reviews
<1>7. KeptAudits' = KeptAudits /\ \A a : LogOf(a)' = LogOf(a) /\ \A k : Shown(a, k)' = Shown(a, k)
  BY <1>2, ShownStays DEF KeptAudits
<1>8. AuditTypeOK'
  BY <1>1, <1>2, <1>4, <1>6 DEF AuditTypeOK
<1>9. StoreInv'
  BY <1>1, <1>2, <1>7, StoreStays DEF OverridesHaveRecords
<1>10. SheetWasMinted' /\ SavesItsOwn'
  BY <1>1, <1>2, <1>5, <1>6 DEF SheetWasMinted, SavesItsOwn
<1>11. UnderWayIsDoubted'
  BY <1>1, <1>2, <1>6 DEF UnderWayIsDoubted, UnderWay
<1>12. CardsAreCurrent' /\ LogIsCurrent'
  BY <1>1, <1>2, <1>6, <1>7 DEF CardsAreCurrent, LogIsCurrent, Refreshing
<1> QED
  BY <1>8, <1>9, <1>10, <1>11, <1>12 DEF AuditInv, StoreInv

LEMMA AnsweredKeeps ==
  ASSUME AuditInv, PostAnswered
  PROVE  AuditInv'
<1>1. /\ AuditTypeOK /\ KeptWasMinted /\ OverridesHaveRecords /\ SheetWasMinted /\ SavesItsOwn
      /\ UnderWayIsDoubted /\ CardsAreCurrent /\ LogIsCurrent
  BY DEF AuditInv
<1> DEFINE m == sheet.saving
<1>2. /\ sheet # Nobody /\ m # Nobody /\ ~sheet.recorded /\ Override(m)
      /\ sheet' = IF Takes(m) THEN [sheet EXCEPT !.recorded = TRUE] ELSE [sheet EXCEPT !.saving = Nobody]
      /\ UNCHANGED <<day, alarm, posts, assessed, drawnIds, doubt>>
  BY DEF PostAnswered, Posting
<1>3. sheet \in Reviews /\ m \in Overrides /\ m.audit = sheet.audit /\ m.heading \in Headings
  BY <1>1, <1>2, AuditTyped DEF SavesItsOwn
<1> HIDE DEF m
<1>4. /\ audits' \in [AuditIds -> Records \cup {Nobody}]
      /\ overrides' \in [AuditIds -> Seq(Overrides)]
      /\ OverridesHaveRecords'
      /\ \A a \in KeptAudits' :
            /\ a \in KeptAudits /\ audits'[a] = audits[a] /\ (a = m.audit => Takes(m))
            /\ \A h : a # m.audit \/ h # m.heading => Shown(a, h)' = Shown(a, h)
  BY <1>1, <1>2, <1>3, OverrideKeeps
<1>5. /\ sheet' \in Reviews /\ sheet'.audit = sheet.audit /\ sheet'.cards = sheet.cards
      /\ sheet'.saving = IF Takes(m) THEN m ELSE Nobody
      /\ Takes(m) => sheet'.recorded
  <2>1. CASE Takes(m)
    <3>1. sheet' = [sheet EXCEPT !.recorded = TRUE]
      BY <1>2, <2>1
    <3> QED
      BY <1>3, <2>1, <3>1 DEF Reviews, m
  <2>2. CASE ~Takes(m)
    <3>1. sheet' = [sheet EXCEPT !.saving = Nobody]
      BY <1>2, <2>2
    <3> QED
      BY <1>3, <2>2, <3>1 DEF Reviews
  <2> QED
    BY <2>1, <2>2
<1>6. AuditTypeOK'
  BY <1>1, <1>2, <1>4, <1>5 DEF AuditTypeOK
<1>7. StoreInv'
  BY <1>2, <1>4, StoreStays
<1>8. SheetWasMinted' /\ SavesItsOwn'
  BY <1>1, <1>2, <1>3, <1>5 DEF SheetWasMinted, SavesItsOwn
<1>9. UnderWayIsDoubted'
  BY <1>1, <1>2, <1>5 DEF UnderWayIsDoubted, UnderWay
<1>10. sheet.audit \in KeptAudits' =>
          sheet'.recorded /\ sheet'.saving = m /\ \A h : h = m.heading => Refreshing(h)'
  <2> SUFFICES ASSUME sheet.audit \in KeptAudits'
               PROVE  sheet'.recorded /\ sheet'.saving = m
    BY <1>2, <1>3 DEF Refreshing
  <2>1. Takes(m)
    BY <1>3, <1>4
  <2> QED
    BY <1>5, <2>1
<1>11. CardsAreCurrent'
  <2> SUFFICES ASSUME sheet.audit \in KeptAudits', NEW h \in Headings \ doubt, h # m.heading
               PROVE  sheet.cards[h] = Shown(sheet.audit, h)'
    BY <1>2, <1>5, <1>10 DEF CardsAreCurrent
  <2>1. ~Refreshing(h) /\ sheet.audit \in KeptAudits
    BY <1>2, <1>4 DEF Refreshing
  <2> QED
    BY <1>1, <1>2, <1>4, <2>1 DEF CardsAreCurrent
<1>12. LogIsCurrent'
  BY <1>3, <1>5, <1>10 DEF LogIsCurrent
<1> QED
  BY <1>6, <1>7, <1>8, <1>9, <1>11, <1>12 DEF AuditInv, StoreInv

LEMMA FailureKeeps ==
  ASSUME AuditInv, PostFails
  PROVE  AuditInv'
<1>1. /\ AuditTypeOK /\ KeptWasMinted /\ OverridesHaveRecords /\ SheetWasMinted /\ SavesItsOwn
      /\ UnderWayIsDoubted /\ CardsAreCurrent /\ LogIsCurrent
  BY DEF AuditInv
<1> DEFINE m == sheet.saving
<1>2. /\ sheet # Nobody /\ m # Nobody /\ ~sheet.recorded
      /\ Override(m) \/ (audits' = audits /\ overrides' = overrides)
      /\ posts' \subseteq posts \cup {m}
      /\ sheet' = [sheet EXCEPT !.saving = Nobody] /\ doubt' = doubt \cup {m.heading}
      /\ UNCHANGED <<day, alarm, assessed, drawnIds>>
  BY DEF PostFails, Posting
<1>3. sheet \in Reviews /\ m \in Overrides /\ m.audit = sheet.audit /\ m.heading \in Headings
  BY <1>1, <1>2, AuditTyped DEF SavesItsOwn
<1>4. /\ sheet' \in Reviews /\ sheet'.audit = sheet.audit /\ sheet'.cards = sheet.cards
      /\ sheet'.saving = Nobody
  BY <1>2, <1>3 DEF Reviews
<1>5. posts \subseteq Overrides /\ doubt \subseteq Headings
  BY <1>1 DEF AuditTypeOK
<1> HIDE DEF m
<1>6. /\ audits' \in [AuditIds -> Records \cup {Nobody}]
      /\ overrides' \in [AuditIds -> Seq(Overrides)]
      /\ OverridesHaveRecords'
      /\ \A a \in KeptAudits' :
            /\ a \in KeptAudits /\ audits'[a] = audits[a]
            /\ \A h : a # m.audit \/ h # m.heading => Shown(a, h)' = Shown(a, h)
  <2>1. CASE Override(m)
    BY <1>1, <1>3, <2>1, OverrideKeeps
  <2>2. CASE audits' = audits /\ overrides' = overrides
    BY <1>1, <2>2, ShownStays, AuditTyped DEF KeptAudits, OverridesHaveRecords
  <2> QED
    BY <1>2, <2>1, <2>2
<1>7. AuditTypeOK'
  BY <1>1, <1>2, <1>3, <1>4, <1>5, <1>6 DEF AuditTypeOK
<1>8. StoreInv'
  BY <1>2, <1>6, StoreStays
<1>9. SheetWasMinted' /\ SavesItsOwn'
  BY <1>1, <1>2, <1>4 DEF SheetWasMinted, SavesItsOwn
<1>10. UnderWayIsDoubted'
  BY <1>1, <1>2, <1>4 DEF UnderWayIsDoubted, UnderWay
<1>11. CardsAreCurrent'
  <2> SUFFICES ASSUME sheet.audit \in KeptAudits', NEW h \in Headings \ doubt, h # m.heading
               PROVE  sheet.cards[h] = Shown(sheet.audit, h)'
    BY <1>2, <1>4 DEF CardsAreCurrent
  <2>1. ~Refreshing(h) /\ sheet.audit \in KeptAudits
    BY <1>2, <1>6 DEF Refreshing
  <2> QED
    BY <1>1, <1>2, <1>6, <2>1 DEF CardsAreCurrent
<1>12. LogIsCurrent'
  BY <1>2 DEF LogIsCurrent
<1> QED
  BY <1>7, <1>8, <1>9, <1>10, <1>11, <1>12 DEF AuditInv, StoreInv

LEMMA RefreshKeeps ==
  ASSUME AuditInv, RefreshAnswered
  PROVE  AuditInv'
<1>1. /\ AuditTypeOK /\ KeptWasMinted /\ OverridesHaveRecords /\ SheetWasMinted /\ SavesItsOwn
      /\ UnderWayIsDoubted /\ CardsAreCurrent /\ LogIsCurrent
  BY DEF AuditInv
<1> DEFINE hd == sheet.saving.heading
           a == sheet.audit
<1>2. /\ sheet # Nobody /\ sheet.saving # Nobody
      /\ UNCHANGED <<day, alarm, posts, assessed, drawnIds>>
  BY DEF RefreshAnswered
<1>3. sheet \in Reviews /\ a \in KeptAudits /\ hd \in Headings /\ sheet.cards \in Results
  BY <1>1, <1>2, AuditTyped DEF RefreshAnswered, KeptAudits, Results
<1>4. CASE Expired(a)
  <2>1. Forget({a}) /\ sheet' = Nobody /\ doubt' = {}
    BY <1>4 DEF RefreshAnswered
  <2>2. /\ audits' \in [AuditIds -> Records \cup {Nobody}]
        /\ overrides' \in [AuditIds -> Seq(Overrides)]
        /\ OverridesHaveRecords'
        /\ \A b \in KeptAudits' : Spared(b)
    BY <1>1, <1>3, <2>1, ForgetSpares DEF KeptAudits
  <2>3. AuditTypeOK'
    BY <1>1, <1>2, <2>1, <2>2 DEF AuditTypeOK
  <2>4. StoreInv'
    BY <1>2, <2>2, StoreStays DEF Spared
  <2>5. PageInv'
    BY <2>1 DEF PageInv, SheetWasMinted, SavesItsOwn, UnderWayIsDoubted, CardsAreCurrent, LogIsCurrent
  <2> QED
    BY <2>3, <2>4, <2>5 DEF AuditInv, PageInv, StoreInv
<1>5. CASE ~Expired(a)
  <2>1. /\ sheet' = [sheet EXCEPT !.cards = [sheet.cards EXCEPT ![hd] = Shown(a, hd)],
                                  !.log = LogOf(a), !.saving = Nobody]
        /\ doubt' = doubt \ ({hd} \ UnderWay(a))
        /\ audits' = audits /\ overrides' = overrides
    BY <1>5 DEF RefreshAnswered, Refreshed
  <2> DEFINE cards == [sheet.cards EXCEPT ![hd] = Shown(a, hd)]
  <2>2. /\ cards \in Results /\ cards[hd] = Shown(a, hd) /\ LogOf(a) \in Seq(Overrides)
        /\ \A h \in Headings : h # hd => cards[h] = sheet.cards[h]
    BY <1>1, <1>3, ShownTyped DEF Results
  <2>3. sheet' = [sheet EXCEPT !.cards = cards, !.log = LogOf(a), !.saving = Nobody]
    BY <2>1
  <2> HIDE DEF cards, hd
  <2>4. /\ sheet' \in Reviews /\ sheet'.audit = a /\ sheet'.cards = cards
        /\ sheet'.log = LogOf(a) /\ sheet'.saving = Nobody
    BY <1>3, <2>2, <2>3 DEF Reviews
  <2>5. KeptAudits' = KeptAudits /\ LogOf(a)' = LogOf(a) /\ \A h : Shown(a, h)' = Shown(a, h)
    BY <2>1, ShownStays DEF KeptAudits
  <2>6. AuditTypeOK'
    BY <1>1, <1>2, <2>1, <2>4 DEF AuditTypeOK
  <2>7. StoreInv'
    BY <1>1, <1>2, <2>1, <2>5, StoreStays DEF OverridesHaveRecords
  <2>8. SheetWasMinted' /\ SavesItsOwn'
    BY <1>1, <1>2, <2>4 DEF SheetWasMinted, SavesItsOwn
  <2>9. UnderWayIsDoubted'
    BY <1>1, <1>2, <2>1, <2>4 DEF UnderWayIsDoubted, UnderWay
  <2>10. CardsAreCurrent'
    <3> SUFFICES ASSUME NEW h \in Headings \ doubt' PROVE cards[h] = Shown(a, h)
      BY <2>4, <2>5 DEF CardsAreCurrent
    <3>1. h # hd => h \in Headings \ doubt /\ ~Refreshing(h)
      BY <2>1 DEF Refreshing, hd
    <3> QED
      BY <1>1, <1>2, <1>3, <2>2, <3>1 DEF CardsAreCurrent
  <2>11. LogIsCurrent'
    BY <2>4, <2>5 DEF LogIsCurrent
  <2> QED
    BY <2>6, <2>7, <2>8, <2>9, <2>10, <2>11 DEF AuditInv, StoreInv
<1> QED
  BY <1>4, <1>5

LEMMA CloseKeeps ==
  ASSUME AuditInv, CloseReview
  PROVE  AuditInv'
<1>1. AuditTypeOK /\ KeptWasMinted /\ OverridesHaveRecords
  BY DEF AuditInv
<1>2. /\ sheet # Nobody /\ sheet' = Nobody /\ doubt' = {}
      /\ posts' \subseteq posts \cup (IF Posting THEN {sheet.saving} ELSE {})
      /\ UNCHANGED <<day, audits, overrides, alarm, assessed, drawnIds>>
  BY DEF CloseReview
<1>3. posts' \subseteq Overrides
  BY <1>1, <1>2, AuditTyped DEF Posting
<1>4. AuditTypeOK'
  BY <1>1, <1>2, <1>3 DEF AuditTypeOK
<1>5. StoreInv'
  BY <1>1, <1>2, StoreStays DEF OverridesHaveRecords, KeptAudits
<1>6. PageInv'
  BY <1>2 DEF PageInv, SheetWasMinted, SavesItsOwn, UnderWayIsDoubted, CardsAreCurrent, LogIsCurrent
<1> QED
  BY <1>4, <1>5, <1>6 DEF AuditInv, PageInv, StoreInv

LEMMA StepKeepsAudit == AuditInv /\ [AuditNext]_auditVars => AuditInv'
<1>1. ASSUME AuditInv, AuditNext PROVE AuditInv'
  <2>1. CASE \E cards \in Panels : Assess(cards)
    BY <1>1, <2>1, AssessKeeps
  <2>2. CASE \E a \in AuditIds : OpenReview(a)
    BY <1>1, <2>2, OpenKeeps
  <2>3. CASE AlarmRings \/ AuditStoreRestarts
    BY <1>1, <2>3, ExpiryKeeps
  <2>4. CASE DayPasses
    BY <1>1, <2>4, DayKeeps
  <2>5. CASE \E h \in Headings, s \in Entered : PostOverride(h, s)
    BY <1>1, <2>5, EntryKeeps
  <2>6. CASE PostAnswered
    BY <1>1, <2>6, AnsweredKeeps
  <2>7. CASE PostFails
    BY <1>1, <2>7, FailureKeeps
  <2>8. CASE RefreshAnswered
    BY <1>1, <2>8, RefreshKeeps
  <2>9. CASE CloseReview
    BY <1>1, <2>9, CloseKeeps
  <2>10. CASE \E m \in posts : PostArrives(m)
    BY <1>1, <2>10, ArrivalKeeps
  <2> QED
    BY <1>1, <2>1, <2>2, <2>3, <2>4, <2>5, <2>6, <2>7, <2>8, <2>9, <2>10 DEF AuditNext
<1>2. ASSUME AuditInv, UNCHANGED auditVars PROVE AuditInv'
  <2>1. \A a : LogOf(a)' = LogOf(a) /\ \A h : Shown(a, h)' = Shown(a, h)
    BY <1>2, ShownStays DEF auditVars
  <2>2. KeptAudits' = KeptAudits /\ UnderWay(sheet.audit)' = UnderWay(sheet.audit)
        /\ \A h : Refreshing(h)' <=> Refreshing(h)
    BY <1>2 DEF auditVars, KeptAudits, UnderWay, Refreshing
  <2> QED
    BY <1>2, <2>1, <2>2 DEF auditVars, AuditInv, AuditTypeOK, KeptWasMinted, SheetWasMinted,
       SavesItsOwn,
       UnderWayIsDoubted, AlarmCoversRecords, OverridesHaveRecords, CardsAreCurrent, LogIsCurrent
<1> QED
  BY <1>1, <1>2

LEMMA AuditInvSuffices == AuditInv => AuditTypeOK /\ AuditIsKeptHonestly
<1> SUFFICES ASSUME AuditInv PROVE PageIsAReload
  BY DEF AuditInv, AuditIsKeptHonestly
<1> QED
  BY DEF AuditInv, CardsAreCurrent, LogIsCurrent, Refreshing, PageIsAReload

\* Whatever is lost or arrives late, records are forgotten in time with everything entered
\* about them, and a page at rest shows what a reload would show (editor-store.js,
\* assessment-review.js); for any records, overrides, panels and retention.
THEOREM AuditHolds == AuditSpec => [](AuditTypeOK /\ AuditIsKeptHonestly)
BY InitAudit, StepKeepsAudit, AuditInvSuffices, PTL DEF AuditSpec

-----------------------------------------------------------------------------
(* The interview page.                                                     *)

IsOpen(i) == turns[i].status # "committed"

\* At most one question is without an answer, and it is the last one. Nobody asks anything
\* else before it has one.
OneOpen == \A i, j \in DOMAIN turns : IsOpen(i) => j <= i
OneHandler == \A h, g \in handlers : h = g
AskedIsOpen ==
    \A m \in handlers \cup jobs \cup lost :
        \E i \in DOMAIN turns : turns[i].id = m.id /\ turns[i].user = m.text /\ IsOpen(i)
OpenIsHeld ==
    \A i \in DOMAIN turns :
        IsOpen(i) => room.resend = turns[i].id \/ \E h \in handlers : h.id = turns[i].id

\* Places and ids are given once, and in order.
IdsAreDrawn ==
    /\ DOMAIN turns \subseteq 1..sendings /\ \A i \in DOMAIN turns : turns[i].id <= sendings
    /\ last.id <= sendings /\ room.resend <= sendings

\* The composer of a page that waits is empty, or holds the question that is under way;
\* under a turn id it holds the question of that turn.
WaitingRoom ==
    \A h \in handlers : \/ room.resend = h.id
                        \/ room.resend = 0 /\ room.input = NoWords /\ room.state \in {"SENDING", "RETRYING"}
ResendFits ==
    room.resend # 0 =>
        /\ room.input # NoWords
        /\ \A i \in DOMAIN turns :
              turns[i].id = room.resend => turns[i].user = room.input /\ \A j \in DOMAIN turns : j <= i
        /\ last.done /\ last.id = room.resend => last.text = room.input

\* An answer that is not a broken connection comes when nothing else is under way, and says
\* what the session row says.
AnswerFits ==
    \A h \in handlers :
        /\ h.at = "running" => lost = {}
        /\ h.at = "replied" /\ h.code # "interrupted" => jobs = {} /\ lost = {}
        /\ h.code = "ok" => /\ h.at = "replied" /\ last.done /\ last.id = h.id
                            /\ h.reply = last.text /\ h.turn = last.turn
        /\ h.code \in {"invalid", "cap", "over"} => h.at = "replied" /\ last.id # h.id
        /\ h.code = "expired" => expired

\* The Worker works on one request, for the turn its row is at.
JobFits ==
    /\ \A j, k \in jobs : j = k
    /\ \A j \in jobs : j.id = last.id /\ ~last.done /\ j.turn = counted /\ j.text \notin TooLong
    /\ last.id # 0 /\ ~last.done => jobs # {}

\* The row is at the last turn that was counted; its stored answer is to the question on record.
LastFits ==
    /\ last.id # 0 => last.turn = counted
    /\ last.done =>
          /\ last.id # 0 /\ last.text \in Questions \ TooLong
          /\ expired \/ PositionsOf(last.id) # {}
          /\ \A i \in DOMAIN turns : turns[i].id = last.id => turns[i].user = last.text

\* What was committed was counted, and everything but the row's own turn before it.
CommittedIsCounted ==
    \A i \in DOMAIN turns :
        ~IsOpen(i) => /\ turns[i].turn <= counted
                      /\ last.id # 0 /\ turns[i].id # last.id => turns[i].turn < counted

ChatInv ==
    /\ ChatTypeOK /\ OneRecordPerTurn /\ AnswersItsQuestion /\ TranscriptInOrder
    /\ OneOpen /\ OneHandler /\ AskedIsOpen /\ OpenIsHeld /\ IdsAreDrawn /\ WaitingRoom /\ ResendFits
    /\ AnswerFits /\ JobFits /\ LastFits /\ CommittedIsCounted

-----------------------------------------------------------------------------

LEMMA ChatTyped ==
  ASSUME ChatInv
  PROVE  /\ room \in Rooms /\ turns \in [DOMAIN turns -> TurnRecords] /\ DOMAIN turns \subseteq Nat
         /\ handlers \subseteq Handlers /\ jobs \subseteq Jobs /\ lost \subseteq Requested
         /\ sendings \in 0..LastSend /\ sendings \in Nat /\ LastSend \in Nat /\ MaxTurns \in Nat \ {0}
         /\ counted \in 0..MaxTurns /\ counted \in Nat /\ expired \in BOOLEAN
         /\ last \in [id : TurnIds \cup {0}, done : BOOLEAN, text : Texts, turn : 0..MaxTurns]
         /\ last.id \in Nat /\ last.id \in TurnIds \cup {0} /\ last.done \in BOOLEAN /\ last.text \in Texts
         /\ last.turn \in 0..MaxTurns
         /\ TurnIds \subseteq Nat \ {0} /\ NoWords \notin Questions /\ Questions \subseteq Texts
         /\ \A i \in DOMAIN turns : /\ turns[i] \in TurnRecords /\ turns[i].id \in TurnIds /\ i \in Nat
                                    /\ turns[i].user \in Questions /\ turns[i].turn \in 0..MaxTurns
         /\ \A r \in Rooms : /\ r.state \in RoomStates /\ r.open \in BOOLEAN /\ r.input \in Texts
                             /\ r.resend \in TurnIds \cup {0} /\ r.resend \in Nat
         /\ \A m \in Handlers \cup Jobs \cup Requested : m.id \in TurnIds /\ m.text \in Questions
                                                        /\ m.key \in TurnIds /\ m.try \in {0, 1}
<1>1. /\ LastSend \in Nat /\ MaxTurns \in Nat \ {0} /\ NoWords \notin Questions /\ Questions \subseteq Texts
  BY ChatAssumption DEF Texts
<1>2. TurnIds \subseteq Nat \ {0}
  BY <1>1 DEF TurnIds
<1>3. ChatTypeOK
  BY DEF ChatInv
<1>4. /\ room \in Rooms /\ turns \in [DOMAIN turns -> TurnRecords] /\ DOMAIN turns \subseteq Nat
      /\ handlers \subseteq Handlers /\ jobs \subseteq Jobs /\ lost \subseteq Requested
      /\ sendings \in 0..LastSend /\ counted \in 0..MaxTurns /\ expired \in BOOLEAN
      /\ last \in [id : TurnIds \cup {0}, done : BOOLEAN, text : Texts, turn : 0..MaxTurns]
  BY <1>3 DEF ChatTypeOK
<1>5. /\ last.id \in TurnIds \cup {0} /\ last.done \in BOOLEAN /\ last.text \in Texts /\ last.turn \in 0..MaxTurns
  BY <1>4
<1>6. (\A x \in TurnIds \cup {0} : x \in Nat) /\ last.id \in Nat
  <2>1. \A x \in TurnIds \cup {0} : x \in Nat
    BY <1>2
  <2> QED
    BY <1>5, <2>1
<1>7. sendings \in Nat /\ counted \in Nat
  BY <1>1, <1>4
<1>8. \A i \in DOMAIN turns : turns[i] \in TurnRecords
  BY <1>4
<1>9. \A t \in TurnRecords : t.id \in TurnIds /\ t.user \in Questions /\ t.turn \in 0..MaxTurns
  BY DEF TurnRecords
<1>10. \A r \in Rooms : r.state \in RoomStates /\ r.open \in BOOLEAN /\ r.input \in Texts
                        /\ r.resend \in TurnIds \cup {0}
  BY DEF Rooms
<1>11. \A r \in Rooms : r.resend \in Nat
  BY <1>6, <1>10
<1>12. \A m \in Handlers \cup Jobs \cup Requested : m.id \in TurnIds /\ m.text \in Questions
                                                  /\ m.key \in TurnIds /\ m.try \in {0, 1}
  BY DEF Handlers, Jobs, Requested
<1>13. \A i \in DOMAIN turns : i \in Nat
  BY <1>4
<1> QED
  BY <1>1, <1>2, <1>4, <1>5, <1>6, <1>7, <1>8, <1>9, <1>10, <1>11, <1>12, <1>13

\* What a handler, a job and a request on its way ask is one question.
LEMMA SameQuestion ==
  ASSUME ChatInv, NEW m \in handlers \cup jobs \cup lost, NEW n \in handlers \cup jobs \cup lost
  PROVE  m.id = n.id /\ m.text = n.text
<1>1. PICK i \in DOMAIN turns : turns[i].id = m.id /\ turns[i].user = m.text /\ IsOpen(i)
  BY DEF ChatInv, AskedIsOpen
<1>2. PICK j \in DOMAIN turns : turns[j].id = n.id /\ turns[j].user = n.text /\ IsOpen(j)
  BY DEF ChatInv, AskedIsOpen
<1>3. j <= i /\ i <= j
  BY <1>1, <1>2 DEF ChatInv, OneOpen
<1>4. i = j
  BY <1>3, ChatTyped
<1> QED
  BY <1>1, <1>2, <1>4

\* Every id has one place.
LEMMA PlaceIsUnique ==
  ASSUME ChatInv, NEW i \in DOMAIN turns
  PROVE  PositionsOf(turns[i].id) = {i} /\ PlaceOf(turns[i].id) = i
<1>1. PositionsOf(turns[i].id) = {i}
  BY DEF ChatInv, OneRecordPerTurn, PositionsOf
<1>2. i <= i
  BY ChatTyped
<1>3. Min({i}) = i
  BY <1>2 DEF Min
<1> QED
  BY <1>1, <1>3 DEF PlaceOf

\* The end is behind every place.
LEMMA EndIsFree ==
  ASSUME ChatInv
  PROVE  TheEnd \in 1..(sendings + 1) /\ \A i \in DOMAIN turns : i < TheEnd
<1> DEFINE S == {0} \cup DOMAIN turns
<1>1. sendings \in Nat /\ \A x \in S : x \in 0..sendings
  BY ChatTyped DEF ChatInv, IdsAreDrawn
<1>2. S \in SUBSET (0..sendings) /\ S # {}
  BY <1>1
<1> HIDE DEF S
<1>3. Max(S) \in S /\ \A y \in S : Max(S) >= y
  <2>1. Max(S) \in S /\ \A y \in S : y <= Max(S)
    BY <1>1, <1>2, MaxIsGreatest
  <2> QED
    BY <1>1, <2>1
<1>4. TheEnd = Max(S) + 1
  BY DEF TheEnd, S
<1>5. Max(S) \in 0..sendings
  BY <1>1, <1>3
<1>6. \A i \in DOMAIN turns : i \in S
  BY DEF S
<1>7. \A i \in DOMAIN turns : i \in 0..sendings /\ Max(S) >= i
  BY <1>1, <1>3, <1>6
<1> QED
  BY <1>1, <1>4, <1>5, <1>7

\* The questions without an answer that a page finds are the one there is.
LEMMA StuckIsOpen ==
  ASSUME ChatInv, NEW i \in DOMAIN turns, IsOpen(i)
  PROVE  Stuck(turns, {"pending", "unresolved"}) = {i} /\ LastOf({i}) = i
<1>1. \A j \in DOMAIN turns : turns[j].status \in {"pending", "committed", "unresolved"}
  BY ChatTyped DEF TurnRecords
<1>2. \A j \in DOMAIN turns : IsOpen(j) => i = j
  <2> SUFFICES ASSUME NEW j \in DOMAIN turns, IsOpen(j) PROVE i = j
    OBVIOUS
  <2>1. j <= i /\ i <= j
    BY DEF ChatInv, OneOpen
  <2> QED
    BY <2>1, ChatTyped
<1>3. Stuck(turns, {"pending", "unresolved"}) = {i}
  BY <1>1, <1>2 DEF Stuck, IsOpen
<1>4. i >= i
  BY ChatTyped
<1> QED
  BY <1>3, <1>4 DEF LastOf, Max

-----------------------------------------------------------------------------
(* The steps.                                                              *)

LEMMA InitChat == ChatInit => ChatInv
<1> SUFFICES ASSUME ChatInit PROVE ChatInv
  OBVIOUS
<1>1. /\ room = EmptyRoom /\ turns = <<>> /\ handlers = {} /\ lost = {} /\ jobs = {}
      /\ last = NoTurn /\ counted = 0 /\ expired = FALSE /\ sendings = 0
  BY DEF ChatInit
<1>2. LastSend \in Nat /\ MaxTurns \in Nat \ {0}
  BY ChatAssumption
<1>3. DOMAIN turns = {} /\ turns = [i \in {} |-> 0]
  BY <1>1
<1>4. /\ room \in Rooms /\ room.resend = 0
  BY <1>1 DEF EmptyRoom, Rooms, RoomStates, Texts
<1>5. /\ last \in [id : TurnIds \cup {0}, done : BOOLEAN, text : Texts, turn : 0..MaxTurns]
      /\ last.id = 0 /\ last.done = FALSE
  BY <1>1, <1>2 DEF NoTurn, Texts
<1>6. turns \in [DOMAIN turns -> TurnRecords] /\ DOMAIN turns \subseteq Nat
  BY <1>3
<1>7. ChatTypeOK
  <2>1. counted \in 0..MaxTurns /\ sendings \in 0..LastSend
    BY <1>1, <1>2
  <2>3. expired \in BOOLEAN
    BY <1>1
  <2>2. handlers \subseteq Handlers /\ jobs \subseteq Jobs /\ lost \subseteq Requested
    BY <1>1
  <2> QED
    BY <1>4, <1>5, <1>6, <2>1, <2>2, <2>3 DEF ChatTypeOK
<1>8. OneRecordPerTurn /\ AnswersItsQuestion /\ TranscriptInOrder /\ OneOpen /\ OneHandler /\ AskedIsOpen
  BY <1>1, <1>3 DEF OneRecordPerTurn, AnswersItsQuestion, TranscriptInOrder, OneOpen, OneHandler,
     AskedIsOpen
<1>9. OpenIsHeld /\ IdsAreDrawn /\ WaitingRoom /\ ResendFits
  BY <1>1, <1>3, <1>4, <1>5 DEF OpenIsHeld, IdsAreDrawn, WaitingRoom, ResendFits
<1>10. AnswerFits /\ JobFits /\ LastFits /\ CommittedIsCounted
  BY <1>1, <1>3, <1>5 DEF AnswerFits, JobFits, LastFits, CommittedIsCounted
<1> QED
  BY <1>7, <1>8, <1>9, <1>10 DEF ChatInv

\* The records say what they said, committed or not.
SameTurns ==
    /\ turns' \in [DOMAIN turns -> TurnRecords] /\ DOMAIN turns' = DOMAIN turns
    /\ \A i \in DOMAIN turns :
          /\ turns'[i].id = turns[i].id /\ turns'[i].user = turns[i].user
          /\ turns'[i].reply = turns[i].reply /\ turns'[i].turn = turns[i].turn
          /\ turns'[i].status = "committed" <=> turns[i].status = "committed"

\* The page and the wire move, and the Worker's row stays.
LEMMA PageKeeps ==
  ASSUME ChatInv, SameTurns, UNCHANGED <<jobs, last, counted, sendings>>,
         expired' \in BOOLEAN, expired => expired',
         room' \in Rooms, room'.resend <= sendings,
         handlers' \subseteq Handlers, lost' \subseteq Requested,
         \A g \in handlers' \cup lost' : \E m \in handlers \cup jobs \cup lost : g.id = m.id /\ g.text = m.text,
         OneHandler', OpenIsHeld', WaitingRoom', ResendFits', AnswerFits'
  PROVE  ChatInv'
<1>1. ChatTypeOK'
  BY ChatTyped DEF ChatInv, ChatTypeOK, SameTurns
<1>2. \A i \in DOMAIN turns : IsOpen(i)' <=> IsOpen(i)
  BY DEF IsOpen, SameTurns
<1>3. OneRecordPerTurn' /\ AnswersItsQuestion' /\ TranscriptInOrder'
  BY DEF ChatInv, OneRecordPerTurn, AnswersItsQuestion, TranscriptInOrder, SameTurns
<1>4. OneOpen'
  BY <1>2 DEF ChatInv, OneOpen, SameTurns
<1>5. AskedIsOpen'
  <2> SUFFICES ASSUME NEW g \in handlers' \cup jobs \cup lost'
               PROVE  \E i \in DOMAIN turns : turns'[i].id = g.id /\ turns'[i].user = g.text /\ IsOpen(i)'
    BY DEF AskedIsOpen, SameTurns
  <2>1. PICK m \in handlers \cup jobs \cup lost : g.id = m.id /\ g.text = m.text
    OBVIOUS
  <2>2. PICK i \in DOMAIN turns : turns[i].id = m.id /\ turns[i].user = m.text /\ IsOpen(i)
    BY DEF ChatInv, AskedIsOpen
  <2> QED
    BY <1>2, <2>1, <2>2 DEF SameTurns
<1>6. IdsAreDrawn'
  BY DEF ChatInv, IdsAreDrawn, SameTurns
<1>7. JobFits'
  BY DEF ChatInv, JobFits
<1>8. PositionsOf(last.id)' = PositionsOf(last.id)
  BY DEF PositionsOf, SameTurns
<1>9. LastFits'
  BY <1>8 DEF ChatInv, LastFits, SameTurns
<1>10. CommittedIsCounted'
  BY <1>2 DEF ChatInv, CommittedIsCounted, SameTurns
<1> QED
  BY <1>1, <1>3, <1>4, <1>5, <1>6, <1>7, <1>9, <1>10 DEF ChatInv

LEMMA TurnsStay ==
  ASSUME ChatInv, turns' = turns
  PROVE  SameTurns
BY ChatTyped DEF SameTurns
LEMMA TypingKeeps ==
  ASSUME ChatInv, ~MayReword, NEW q \in Texts, TypeQuestion(q)
  PROVE  ChatInv'
<1>1. /\ room.open /\ room.state = "IDLE" /\ room.resend = 0 /\ room' = [room EXCEPT !.input = q]
      /\ UNCHANGED <<turns, handlers, lost, jobs, last, counted, expired, sendings>>
  BY DEF TypeQuestion
<1>2. room \in Rooms /\ 0 <= sendings
  BY ChatTyped
<1>3. room' \in Rooms /\ room'.resend = 0
  BY <1>1, <1>2 DEF Rooms
<1>4. handlers = {}
  BY <1>1, ChatTyped DEF ChatInv, WaitingRoom
<1>5. OpenIsHeld' /\ WaitingRoom' /\ ResendFits' /\ AnswerFits' /\ OneHandler'
  <2>1. \A i \in DOMAIN turns : turns[i].id # 0
    BY ChatTyped
  <2>2. \A i \in DOMAIN turns : ~IsOpen(i)
    BY <1>1, <1>4, <2>1 DEF ChatInv, OpenIsHeld
  <2> QED
    BY <1>1, <1>3, <1>4, <2>2 DEF OpenIsHeld, WaitingRoom, ResendFits, AnswerFits, OneHandler, IsOpen
<1>6. SameTurns
  BY <1>1, TurnsStay
<1> QED
  BY <1>1, <1>2, <1>3, <1>4, <1>5, <1>6, ChatTyped, PageKeeps

LEMMA TokenExpiryKeeps == ASSUME ChatInv, SessionExpires PROVE ChatInv'
<1>1. expired' = TRUE /\ UNCHANGED <<room, turns, handlers, lost, jobs, last, counted, sendings>>
  BY DEF SessionExpires
<1>2. OpenIsHeld' /\ WaitingRoom' /\ ResendFits' /\ OneHandler'
  BY <1>1 DEF ChatInv, OpenIsHeld, WaitingRoom, ResendFits, OneHandler, IsOpen
<1>3. AnswerFits'
  BY <1>1 DEF ChatInv, AnswerFits
<1>4. room' \in Rooms /\ handlers' \subseteq Handlers /\ lost' \subseteq Requested /\ expired' \in BOOLEAN
      /\ room'.resend <= sendings
  BY <1>1, ChatTyped DEF ChatInv, IdsAreDrawn
<1>5. SameTurns
  BY <1>1, TurnsStay
<1> QED
  BY <1>1, <1>2, <1>3, <1>4, <1>5, PageKeeps

-----------------------------------------------------------------------------
(* The wire.                                                               *)

\* The one handler goes on, and the page shows that it does.
LEMMA HandlerKeeps ==
  ASSUME ChatInv, NEW h \in handlers, NEW g \in Handlers, g.id = h.id, g.text = h.text,
         handlers' = (handlers \ {h}) \cup {g},
         room' \in Rooms, room'.input = room.input, room'.resend = room.resend,
         room'.state = room.state \/ room'.state = "RETRYING",
         lost' \subseteq lost \cup {AsLost(h)},
         UNCHANGED <<turns, jobs, last, counted, expired, sendings>>,
         g.at = "running" => lost' = {},
         g.at = "replied" /\ g.code # "interrupted" => jobs = {} /\ lost' = {},
         g.code = "ok" => /\ g.at = "replied" /\ last.done /\ last.id = g.id
                          /\ g.reply = last.text /\ g.turn = last.turn,
         g.code \in {"invalid", "cap", "over"} => g.at = "replied" /\ last.id # g.id,
         g.code = "expired" => expired
  PROVE  ChatInv'
<1>1. handlers' = {g}
  BY DEF ChatInv, OneHandler
<1>2. AsLost(h) \in Requested /\ AsLost(h).id = h.id /\ AsLost(h).text = h.text
  <2>1. h \in Handlers
    BY ChatTyped
  <2>2. h.key \in TurnIds /\ h.try \in {0, 1} /\ h.id \in TurnIds /\ h.text \in Questions
    BY <2>1 DEF Handlers
  <2> QED
    BY <2>2 DEF AsLost, Requested
<1>3. handlers' \subseteq Handlers /\ lost' \subseteq Requested
  BY <1>1, <1>2, ChatTyped
<1>4. \A n \in handlers' \cup lost' : \E m \in handlers \cup jobs \cup lost : n.id = m.id /\ n.text = m.text
  BY <1>1, <1>2
<1>5. OneHandler'
  BY <1>1 DEF OneHandler
<1>6. OpenIsHeld'
  <2>1. \A i \in DOMAIN turns : IsOpen(i)' <=> IsOpen(i)
    BY DEF IsOpen
  <2>2. \A f \in handlers : f.id = g.id
    BY DEF ChatInv, OneHandler
  <2> QED
    BY <1>1, <2>1, <2>2 DEF ChatInv, OpenIsHeld
<1>7. WaitingRoom'
  BY <1>1 DEF ChatInv, WaitingRoom
<1>8. ResendFits'
  BY DEF ChatInv, ResendFits
<1>9. AnswerFits'
  BY <1>1 DEF AnswerFits
<1>10. SameTurns
  BY TurnsStay
<1>11. expired' \in BOOLEAN /\ room'.resend <= sendings
  BY ChatTyped DEF ChatInv, IdsAreDrawn
<1> QED
  BY <1>3, <1>4, <1>5, <1>6, <1>7, <1>8, <1>9, <1>10, <1>11, PageKeeps

LEMMA HandlerTyped ==
  ASSUME ChatInv, NEW h \in handlers
  PROVE  /\ h \in Handlers /\ h.id \in TurnIds /\ h.key \in TurnIds /\ h.text \in Questions /\ h.try \in {0, 1}
         /\ \A a \in {"out", "running", "replied"}, c \in ReplyCodes, t \in {0, 1} :
               [h EXCEPT !.at = a, !.code = c, !.try = t] \in Handlers
<1>1. h \in Handlers
  BY ChatTyped
<1> QED
  BY <1>1 DEF Handlers

\* An answer with a code.
LEMMA ReplyTyped ==
  ASSUME ChatInv, NEW h \in handlers, NEW c \in ReplyCodes
  PROVE  /\ Replied(h, c) \in Handlers /\ Replied(h, c).id = h.id /\ Replied(h, c).text = h.text
         /\ Replied(h, c).at = "replied" /\ Replied(h, c).code = c
<1>1. h \in Handlers
  BY ChatTyped
<1> QED
  BY <1>1 DEF Handlers, Replied

LEMMA NothingElse ==
  ASSUME ChatInv, ~MayOverlap, NEW h \in handlers, Arrives(h)
  PROVE  jobs = {} /\ lost = {} /\ h.at = "out"
<1>1. \A m \in jobs \cup lost : m.id = h.id
  BY SameQuestion
<1> QED
  BY <1>1 DEF Arrives, Outstanding

LEMMA WorkerReplyKeeps ==
  ASSUME ChatInv, ~MayOverlap, NEW h \in handlers, ArriveAnswered(h)
  PROVE  ChatInv'
<1>1. jobs = {} /\ lost = {} /\ h.at = "out"
  BY NothingElse DEF ArriveAnswered
<1>2. PICK g \in WorkerAnswers(h) : handlers' = (handlers \ {h}) \cup {g}
  BY DEF ArriveAnswered, Swap
<1>3. UNCHANGED <<room, turns, lost, jobs, last, counted, expired, sendings>>
  BY DEF ArriveAnswered
<1>4. h.id \in TurnIds /\ h.text \in Questions /\ room \in Rooms
  BY ChatTyped
<1>5. PICK i \in DOMAIN turns : turns[i].id = h.id /\ turns[i].user = h.text
  BY DEF ChatInv, AskedIsOpen
<1>6. last.id = h.id => last.done /\ last.text = h.text /\ h.text \notin TooLong
  <2>1. last.id = h.id => last.done
    BY <1>1, <1>4, ChatTyped DEF ChatInv, JobFits
  <2> QED
    BY <1>5, <2>1 DEF ChatInv, LastFits
<1>7. CASE g \in {Replied(h, c) : c \in {"interrupted"}}
  <2>1. g = Replied(h, "interrupted") /\ "interrupted" \in ReplyCodes
    BY <1>7 DEF ReplyCodes
  <2>2. g \in Handlers /\ g.id = h.id /\ g.text = h.text /\ g.at = "replied" /\ g.code = "interrupted"
    BY <2>1, ReplyTyped
  <2> QED
    BY <1>1, <1>2, <1>3, <1>4, <2>2, HandlerKeeps
<1>8. CASE expired /\ g = Replied(h, "expired")
  <2>1. "expired" \in ReplyCodes
    BY DEF ReplyCodes
  <2>2. g \in Handlers /\ g.id = h.id /\ g.text = h.text /\ g.at = "replied" /\ g.code = "expired"
    BY <1>8, <2>1, ReplyTyped
  <2> QED
    BY <1>1, <1>2, <1>3, <1>4, <1>8, <2>2, HandlerKeeps
<1>9. CASE last.id # h.id /\ \E c \in {"invalid", "cap", "over"} : g = Replied(h, c)
  <2>1. PICK c \in {"invalid", "cap", "over"} : g = Replied(h, c)
    BY <1>9
  <2>2. c \in ReplyCodes
    BY DEF ReplyCodes
  <2>3. g \in Handlers /\ g.id = h.id /\ g.text = h.text /\ g.at = "replied" /\ g.code = c
    BY <2>1, <2>2, ReplyTyped
  <2> QED
    BY <1>1, <1>2, <1>3, <1>4, <1>9, <2>3, HandlerKeeps
<1>10. CASE last.id = h.id /\ g = [Replied(h, "ok") EXCEPT !.reply = last.text, !.turn = last.turn]
  <2>1. "ok" \in ReplyCodes /\ last.text \in Texts /\ last.turn \in 0..MaxTurns
    BY ChatTyped DEF ReplyCodes
  <2>2. /\ Replied(h, "ok") \in Handlers /\ Replied(h, "ok").id = h.id /\ Replied(h, "ok").text = h.text
        /\ Replied(h, "ok").at = "replied" /\ Replied(h, "ok").code = "ok"
    BY <2>1, ReplyTyped
  <2>3. /\ g \in Handlers /\ g.id = h.id /\ g.text = h.text /\ g.at = "replied" /\ g.code = "ok"
        /\ g.reply = last.text /\ g.turn = last.turn
    <3> HIDE DEF Replied
    <3> QED
      BY <1>10, <2>1, <2>2 DEF Handlers
  <2> QED
    BY <1>1, <1>2, <1>3, <1>4, <1>6, <1>10, <2>3, HandlerKeeps
<1>11. \/ g \in {Replied(h, c) : c \in {"interrupted"}}
       \/ expired /\ g = Replied(h, "expired")
       \/ last.id # h.id /\ \E c \in {"invalid", "cap", "over"} : g = Replied(h, c)
       \/ last.id = h.id /\ g = [Replied(h, "ok") EXCEPT !.reply = last.text, !.turn = last.turn]
  <2> HIDE DEF Replied
  <2>1. CASE expired
    BY <1>2, <2>1 DEF WorkerAnswers
  <2>2. CASE ~expired /\ h.text \in TooLong
    BY <1>2, <1>6, <2>2 DEF WorkerAnswers
  <2>3. CASE ~expired /\ h.text \notin TooLong /\ last.id = h.id
    BY <1>2, <1>6, <2>3 DEF WorkerAnswers
  <2>4. CASE ~expired /\ h.text \notin TooLong /\ last.id # h.id
    BY <1>2, <2>4 DEF WorkerAnswers
  <2> QED
    BY <2>1, <2>2, <2>3, <2>4
<1> QED
  BY <1>7, <1>8, <1>9, <1>10, <1>11

LEMMA TransportKeeps ==
  ASSUME ChatInv, NEW h \in handlers, ConnectionBreaks(h) \/ StreamBreaks(h) \/ TryAgain(h)
  PROVE  ChatInv'
<1>1. room \in Rooms /\ h \in Handlers /\ "interrupted" \in ReplyCodes /\ "none" \in ReplyCodes
  BY ChatTyped DEF ReplyCodes
<1>2. UNCHANGED <<turns, jobs, last, counted, expired, sendings>> /\ lost' \subseteq lost \cup {AsLost(h)}
  BY DEF ConnectionBreaks, StreamBreaks, TryAgain
<1>3. CASE Again(h)
  <2> DEFINE g == [h EXCEPT !.try = 1, !.at = "out", !.code = "none"]
  <2>1. g \in Handlers /\ g.id = h.id /\ g.text = h.text /\ g.at = "out" /\ g.code = "none"
    BY <1>1 DEF Handlers
  <2>2. handlers' = (handlers \ {h}) \cup {g} /\ room' = [room EXCEPT !.state = "RETRYING"]
    BY <1>3 DEF Again, Swap
  <2>3. /\ room' \in Rooms /\ room'.input = room.input /\ room'.resend = room.resend
        /\ room'.state = "RETRYING"
    BY <1>1, <2>2 DEF Rooms, RoomStates
  <2> HIDE DEF g
  <2> QED
    BY <1>2, <2>1, <2>2, <2>3, HandlerKeeps
<1>4. CASE Swap(h, Replied(h, "interrupted")) /\ UNCHANGED room
  <2> DEFINE g == Replied(h, "interrupted")
  <2>1. g \in Handlers /\ g.id = h.id /\ g.text = h.text /\ g.at = "replied" /\ g.code = "interrupted"
    BY <1>1, ReplyTyped
  <2>2. handlers' = (handlers \ {h}) \cup {g}
    BY <1>4 DEF Swap
  <2> HIDE DEF g
  <2> QED
    BY <1>1, <1>2, <1>4, <2>1, <2>2, HandlerKeeps
<1>5. Again(h) \/ (Swap(h, Replied(h, "interrupted")) /\ UNCHANGED room)
  BY DEF ConnectionBreaks, StreamBreaks, TryAgain
<1> QED
  BY <1>3, <1>4, <1>5

-----------------------------------------------------------------------------
(* The page.                                                               *)

LEMMA UnresolvedIsSame ==
  ASSUME ChatInv, NEW id, turns' = Unresolved(id)
  PROVE  SameTurns
<1> DEFINE New(i) == IF turns[i].id = id /\ turns[i].status # "committed"
                     THEN [turns[i] EXCEPT !.status = "unresolved"] ELSE turns[i]
<1>1. turns' = [i \in DOMAIN turns |-> New(i)]
  BY DEF Unresolved
<1>2. ASSUME NEW i \in DOMAIN turns
      PROVE  /\ New(i) \in TurnRecords /\ New(i).id = turns[i].id /\ New(i).user = turns[i].user
             /\ New(i).reply = turns[i].reply /\ New(i).turn = turns[i].turn
             /\ New(i).status = "committed" <=> turns[i].status = "committed"
  <2>1. turns[i] \in TurnRecords
    BY ChatTyped
  <2> QED
    BY <2>1 DEF TurnRecords
<1> HIDE DEF New
<1> QED
  BY <1>1, <1>2 DEF SameTurns

LEMMA StuckAreOpen ==
  ASSUME ChatInv, NEW i \in Stuck(turns, {"pending", "unresolved"})
  PROVE  i \in DOMAIN turns /\ IsOpen(i) /\ Stuck(turns, {"pending", "unresolved"}) = {i} /\ LastOf({i}) = i
<1>1. i \in DOMAIN turns /\ IsOpen(i)
  BY DEF Stuck, IsOpen
<1> QED
  BY <1>1, StuckIsOpen

\* The question without an answer goes into the composer.
LEMMA HeldInComposer ==
  ASSUME ChatInv, SameTurns, NEW i \in DOMAIN turns, IsOpen(i), handlers' \subseteq handlers,
         UNCHANGED <<last>>, room'.resend = turns[i].id, room'.input = turns[i].user
  PROVE  OpenIsHeld' /\ WaitingRoom' /\ ResendFits'
<1>1. \A j \in DOMAIN turns : IsOpen(j)' => j = i
  <2> SUFFICES ASSUME NEW j \in DOMAIN turns, IsOpen(j) PROVE j = i
    BY DEF SameTurns, IsOpen
  <2>1. j <= i /\ i <= j
    BY DEF ChatInv, OneOpen
  <2> QED
    BY <2>1, ChatTyped
<1>2. OpenIsHeld'
  BY <1>1 DEF OpenIsHeld, SameTurns
<1>3. WaitingRoom'
  <2> SUFFICES ASSUME NEW h \in handlers' PROVE room'.resend = h.id
    BY DEF WaitingRoom
  <2>1. PICK j \in DOMAIN turns : turns[j].id = h.id /\ IsOpen(j)
    BY DEF ChatInv, AskedIsOpen
  <2>2. IsOpen(j)'
    BY <2>1 DEF SameTurns, IsOpen
  <2> QED
    BY <1>1, <2>1, <2>2
<1>4. ResendFits'
  <2>1. turns[i].user \in Questions /\ NoWords \notin Questions
    BY ChatTyped
  <2>2. \A j \in DOMAIN turns : turns[j].id = turns[i].id => j = i
    BY DEF ChatInv, OneRecordPerTurn
  <2>3. \A j \in DOMAIN turns : j <= i
    BY DEF ChatInv, OneOpen
  <2>4. last.done /\ last.id = turns[i].id => last.text = turns[i].user
    BY DEF ChatInv, LastFits
  <2> QED
    BY <2>1, <2>2, <2>3, <2>4 DEF ResendFits, SameTurns
<1> QED
  BY <1>2, <1>3, <1>4

LEMMA RecoverKeeps == ASSUME ChatInv, NEW h \in handlers, Recover(h) PROVE ChatInv'
<1>1. /\ turns' = Unresolved(h.id) /\ handlers' = handlers \ {h}
      /\ room' = [state |-> "IDLE", open |-> TRUE, input |-> h.text, resend |-> h.id]
      /\ UNCHANGED <<lost, jobs, last, counted, expired, sendings>>
  BY DEF Recover
<1>2. handlers' = {}
  BY <1>1 DEF ChatInv, OneHandler
<1>3. PICK i \in DOMAIN turns : turns[i].id = h.id /\ turns[i].user = h.text /\ IsOpen(i)
  BY DEF ChatInv, AskedIsOpen
<1>4. SameTurns
  BY <1>1, UnresolvedIsSame
<1>5. room' \in Rooms /\ room'.resend = h.id /\ room'.input = h.text
  <2>1. h.text \in Texts /\ h.id \in TurnIds
    BY ChatTyped
  <2> QED
    BY <1>1, <2>1 DEF Rooms, RoomStates
<1>6. OpenIsHeld' /\ WaitingRoom' /\ ResendFits'
  BY <1>1, <1>2, <1>3, <1>4, <1>5, HeldInComposer
<1>7. OneHandler' /\ AnswerFits'
  BY <1>2 DEF OneHandler, AnswerFits
<1>8. room'.resend <= sendings
  BY <1>3, <1>5 DEF ChatInv, IdsAreDrawn
<1>9. expired' \in BOOLEAN /\ (expired => expired') /\ handlers' \subseteq Handlers /\ lost' \subseteq Requested
  BY <1>1, <1>2, ChatTyped
<1> QED
  BY <1>1, <1>2, <1>4, <1>5, <1>6, <1>7, <1>8, <1>9, PageKeeps

LEMMA AsLostTyped ==
  ASSUME ChatInv, NEW h \in handlers
  PROVE  AsLost(h) \in Requested /\ AsLost(h).id = h.id /\ AsLost(h).text = h.text
<1>1. h.key \in TurnIds /\ h.try \in {0, 1} /\ h.id \in TurnIds /\ h.text \in Questions
  BY ChatTyped
<1> QED
  BY <1>1 DEF AsLost, Requested

LEMMA ReloadKeeps == ASSUME ChatInv, Reload PROVE ChatInv'
<1> DEFINE stuck == Stuck(turns, {"pending", "unresolved"})
           t == turns[LastOf(stuck)]
<1>1. /\ handlers' = {} /\ UNCHANGED <<jobs, last, counted, expired, sendings>>
      /\ lost' \subseteq lost \cup {AsLost(h) : h \in handlers}
      /\ stuck = {} => room' = EmptyRoom /\ turns' = turns
      /\ stuck # {} => /\ room' = [EmptyRoom EXCEPT !.input = t.user, !.resend = t.id]
                       /\ turns' = Unresolved(t.id)
  BY DEF Reload
<1>2. /\ lost' \subseteq Requested
      /\ \A g \in lost' : \E m \in handlers \cup jobs \cup lost : g.id = m.id /\ g.text = m.text
  <2>1. \A g \in {AsLost(h) : h \in handlers} :
           g \in Requested /\ \E m \in handlers : g.id = m.id /\ g.text = m.text
    BY AsLostTyped
  <2> QED
    BY <1>1, <2>1, ChatTyped
<1>3. OneHandler' /\ AnswerFits' /\ expired' \in BOOLEAN /\ (expired => expired') /\ handlers' \subseteq Handlers
  BY <1>1, ChatTyped DEF OneHandler, AnswerFits
<1>4. CASE stuck = {}
  <2>1. room' = EmptyRoom /\ SameTurns /\ turns' = turns
    BY <1>1, <1>4, TurnsStay
  <2>2. room' \in Rooms /\ room'.resend = 0
    BY <2>1 DEF EmptyRoom, Rooms, RoomStates, Texts
  <2>3. \A i \in DOMAIN turns : ~IsOpen(i)
    BY <1>4, StuckIsOpen
  <2>4. OpenIsHeld' /\ WaitingRoom' /\ ResendFits'
    BY <1>1, <2>1, <2>2, <2>3 DEF OpenIsHeld, WaitingRoom, ResendFits, IsOpen
  <2>5. room'.resend <= sendings
    BY <2>2, ChatTyped
  <2> QED
    BY <1>1, <1>2, <1>3, <2>1, <2>2, <2>4, <2>5, PageKeeps
<1>5. CASE stuck # {}
  <2>1. PICK i \in stuck : TRUE
    BY <1>5
  <2>2. i \in DOMAIN turns /\ IsOpen(i) /\ t = turns[i]
    BY <2>1, StuckAreOpen
  <2>3. /\ room' = [EmptyRoom EXCEPT !.input = turns[i].user, !.resend = turns[i].id]
        /\ turns' = Unresolved(turns[i].id)
    BY <1>1, <1>5, <2>2
  <2>4. turns[i].user \in Texts /\ turns[i].id \in TurnIds /\ turns[i].id <= sendings
    BY <2>2, ChatTyped DEF ChatInv, IdsAreDrawn
  <2> HIDE DEF stuck, t
  <2>5. room' \in Rooms /\ room'.resend = turns[i].id /\ room'.input = turns[i].user
    BY <2>3, <2>4 DEF EmptyRoom, Rooms, RoomStates
  <2>6. SameTurns
    BY <2>3, UnresolvedIsSame
  <2>7. OpenIsHeld' /\ WaitingRoom' /\ ResendFits'
    BY <1>1, <2>2, <2>5, <2>6, HeldInComposer
  <2> QED
    BY <1>1, <1>2, <1>3, <2>4, <2>5, <2>6, <2>7, PageKeeps
<1> QED
  BY <1>4, <1>5

LEMMA FrozenPageKeeps == ASSUME ChatInv, FromBackForwardCache PROVE ChatInv'
<1> DEFINE New(i) == IF turns[i].status = "pending"
                     THEN [turns[i] EXCEPT !.status = "unresolved"] ELSE turns[i]
           ts == [i \in DOMAIN turns |-> IF turns[i].status = "pending"
                                         THEN [turns[i] EXCEPT !.status = "unresolved"] ELSE turns[i]]
           stuck == Stuck(ts, {"unresolved"})
           t == ts[LastOf(stuck)]
           r == IF room.state \in {"SENDING", "RETRYING"}
                THEN [room EXCEPT !.state = "IDLE", !.open = TRUE] ELSE room
<1>1. /\ room' = IF stuck # {} /\ r.input = NoWords THEN [r EXCEPT !.input = t.user, !.resend = t.id] ELSE r
      /\ turns' = ts /\ UNCHANGED <<handlers, lost, jobs, last, counted, expired, sendings>>
  BY DEF FromBackForwardCache
<1>2. ASSUME NEW i \in DOMAIN turns
      PROVE  /\ New(i) \in TurnRecords /\ New(i).id = turns[i].id /\ New(i).user = turns[i].user
             /\ New(i).reply = turns[i].reply /\ New(i).turn = turns[i].turn
             /\ New(i).status = "committed" <=> turns[i].status = "committed"
             /\ New(i).status = "unresolved" <=> turns[i].status \in {"pending", "unresolved"}
  <2>1. turns[i] \in TurnRecords
    BY ChatTyped
  <2> QED
    BY <2>1 DEF TurnRecords
<1>3. DOMAIN ts = DOMAIN turns /\ \A i \in DOMAIN turns : ts[i] = New(i)
  OBVIOUS
<1> HIDE DEF New, ts
<1>4. SameTurns
  <2>1. ts = [i \in DOMAIN ts |-> ts[i]]
    BY DEF ts
  <2>2. ts \in [DOMAIN turns -> TurnRecords]
    BY <1>2, <1>3, <2>1
  <2> QED
    BY <1>1, <1>2, <1>3, <2>2 DEF SameTurns
<1>5. stuck = Stuck(turns, {"pending", "unresolved"})
  BY <1>2, <1>3 DEF Stuck
<1>6. /\ r \in Rooms /\ r.input = room.input /\ r.resend = room.resend
  <2>1. room \in Rooms
    BY ChatTyped
  <2> QED
    BY <2>1 DEF Rooms, RoomStates
<1> HIDE DEF r
<1>7. OneHandler' /\ AnswerFits' /\ expired' \in BOOLEAN /\ (expired => expired')
      /\ handlers' \subseteq Handlers /\ lost' \subseteq Requested
  BY <1>1, ChatTyped DEF ChatInv, OneHandler, AnswerFits
<1>8. CASE stuck # {} /\ r.input = NoWords
  <2>1. PICK i \in stuck : TRUE
    BY <1>8
  <2>2. i \in DOMAIN turns /\ IsOpen(i) /\ stuck = {i} /\ LastOf({i}) = i
    BY <1>5, <2>1, StuckAreOpen
  <2>3. t.user = turns[i].user /\ t.id = turns[i].id
    BY <1>2, <1>3, <2>2
  <2>4. turns[i].user \in Texts /\ turns[i].id \in TurnIds /\ turns[i].id <= sendings
    BY <2>2, ChatTyped DEF ChatInv, IdsAreDrawn
  <2>5. room' = [r EXCEPT !.input = turns[i].user, !.resend = turns[i].id]
    BY <1>1, <1>8, <2>3
  <2> HIDE DEF stuck, t
  <2>6. room' \in Rooms /\ room'.resend = turns[i].id /\ room'.input = turns[i].user
    BY <1>6, <2>4, <2>5 DEF Rooms
  <2>7. OpenIsHeld' /\ WaitingRoom' /\ ResendFits'
    BY <1>1, <1>4, <2>2, <2>6, HeldInComposer
  <2> QED
    BY <1>1, <1>4, <1>7, <2>4, <2>6, <2>7, PageKeeps
<1>9. CASE ~(stuck # {} /\ r.input = NoWords)
  <2>1. room' \in Rooms /\ room'.input = room.input /\ room'.resend = room.resend
    BY <1>1, <1>6, <1>9
  <2>2. \A i \in DOMAIN turns : IsOpen(i)' <=> IsOpen(i)
    BY <1>4 DEF IsOpen, SameTurns
  <2>3. OpenIsHeld'
    BY <1>1, <1>4, <2>1, <2>2 DEF ChatInv, OpenIsHeld, SameTurns
  <2>4. WaitingRoom'
    <3> SUFFICES ASSUME NEW h \in handlers PROVE room.resend = h.id
      BY <1>1, <2>1 DEF WaitingRoom
    <3>1. PICK i \in DOMAIN turns : IsOpen(i)
      BY DEF ChatInv, AskedIsOpen
    <3>2. stuck # {}
      BY <1>5, <3>1, StuckIsOpen
    <3>3. room.input # NoWords
      BY <1>6, <1>9, <3>2
    <3> QED
      BY <3>3 DEF ChatInv, WaitingRoom
  <2>5. ResendFits'
    BY <1>1, <1>4, <2>1 DEF ChatInv, ResendFits, SameTurns
  <2>6. room'.resend <= sendings
    BY <2>1 DEF ChatInv, IdsAreDrawn
  <2> QED
    BY <1>1, <1>4, <1>7, <2>1, <2>3, <2>4, <2>5, <2>6, PageKeeps
<1> QED
  BY <1>8, <1>9

-----------------------------------------------------------------------------
(* The Worker.                                                             *)

\* The row moves, and the page stays.
LEMMA RowKeeps ==
  ASSUME ChatInv, UNCHANGED <<room, turns, expired, sendings>>,
         handlers' \subseteq Handlers, jobs' \subseteq Jobs, lost' \subseteq lost,
         \A g \in handlers' : \E h \in handlers : g.id = h.id /\ g.text = h.text,
         \A h \in handlers : \E g \in handlers' : g.id = h.id,
         \A j \in jobs' : \E m \in handlers \cup jobs \cup lost : j.id = m.id /\ j.text = m.text,
         counted' \in 0..MaxTurns, last'.id <= sendings,
         last' \in [id : TurnIds \cup {0}, done : BOOLEAN, text : Texts, turn : 0..MaxTurns],
         OneHandler', ResendFits', AnswerFits', JobFits', LastFits', CommittedIsCounted'
  PROVE  ChatInv'
<1>1. ChatTypeOK'
  BY ChatTyped DEF ChatTypeOK
<1>2. \A i \in DOMAIN turns : IsOpen(i)' <=> IsOpen(i)
  BY DEF IsOpen
<1>3. OneRecordPerTurn' /\ AnswersItsQuestion' /\ TranscriptInOrder' /\ OneOpen'
  BY <1>2 DEF ChatInv, OneRecordPerTurn, AnswersItsQuestion, TranscriptInOrder, OneOpen
<1>4. AskedIsOpen'
  <2> SUFFICES ASSUME NEW g \in handlers' \cup jobs' \cup lost'
               PROVE  \E i \in DOMAIN turns : turns[i].id = g.id /\ turns[i].user = g.text /\ IsOpen(i)
    BY <1>2 DEF AskedIsOpen
  <2>1. PICK m \in handlers \cup jobs \cup lost : g.id = m.id /\ g.text = m.text
    OBVIOUS
  <2> QED
    BY <2>1 DEF ChatInv, AskedIsOpen
<1>5. OpenIsHeld'
  <2> SUFFICES ASSUME NEW i \in DOMAIN turns, IsOpen(i)
               PROVE  room.resend = turns[i].id \/ \E g \in handlers' : g.id = turns[i].id
    BY <1>2 DEF OpenIsHeld
  <2>1. room.resend = turns[i].id \/ \E h \in handlers : h.id = turns[i].id
    BY DEF ChatInv, OpenIsHeld
  <2> QED
    BY <2>1
<1>6. IdsAreDrawn'
  BY DEF ChatInv, IdsAreDrawn
<1>7. WaitingRoom'
  <2> SUFFICES ASSUME NEW g \in handlers'
               PROVE  \/ room.resend = g.id
                      \/ room.resend = 0 /\ room.input = NoWords /\ room.state \in {"SENDING", "RETRYING"}
    BY DEF WaitingRoom
  <2>1. PICK h \in handlers : g.id = h.id
    OBVIOUS
  <2> QED
    BY <2>1 DEF ChatInv, WaitingRoom
<1> QED
  BY <1>1, <1>3, <1>4, <1>5, <1>6, <1>7 DEF ChatInv

\* The request that was admitted.
JobOf(m) == [key |-> m.key, try |-> m.try, id |-> m.id, text |-> m.text, turn |-> counted + 1]

\* A request is admitted when the Worker has nothing else to do, and is the turn it is at.
LEMMA AdmittedFits ==
  ASSUME ChatInv, NEW m \in handlers \cup lost, Admits(m), Admitted(m), UNCHANGED <<room, turns, expired>>
  PROVE  /\ jobs = {} /\ jobs' = {JobOf(m)} /\ JobOf(m) \in Jobs
         /\ JobOf(m).id = m.id /\ JobOf(m).text = m.text
         /\ counted' \in 0..MaxTurns /\ last'.id \in TurnIds /\ last'.id <= sendings
         /\ last' \in [id : TurnIds \cup {0}, done : BOOLEAN, text : Texts, turn : 0..MaxTurns]
         /\ ResendFits' /\ JobFits' /\ LastFits' /\ CommittedIsCounted'
<1>1. /\ jobs' = jobs \cup {JobOf(m)} /\ counted' = counted + 1
      /\ last' = [id |-> m.id, done |-> FALSE, text |-> NoWords, turn |-> counted + 1]
      /\ ~expired /\ m.text \notin TooLong /\ last.id # m.id /\ counted < MaxTurns
  BY DEF Admits, Admitted, JobOf
<1>2. jobs = {}
  <2>1. \A j \in jobs : j.id = m.id
    BY SameQuestion
  <2> QED
    BY <1>1, <2>1 DEF ChatInv, JobFits
<1>3. m.key \in TurnIds /\ m.try \in {0, 1} /\ m.id \in TurnIds /\ m.text \in Questions
  BY ChatTyped
<1>4. counted \in Nat /\ MaxTurns \in Nat
  BY ChatTyped
<1>5. counted + 1 \in 1..MaxTurns /\ counted + 1 \in 0..MaxTurns
  BY <1>1, <1>4
<1>6. JobOf(m) \in Jobs /\ JobOf(m).id = m.id /\ JobOf(m).text = m.text /\ JobOf(m).turn = counted + 1
  BY <1>3, <1>5 DEF JobOf, Jobs
<1>7. last'.id = m.id /\ last'.done = FALSE /\ last'.turn = counted + 1
  BY <1>1
<1>8. last' \in [id : TurnIds \cup {0}, done : BOOLEAN, text : Texts, turn : 0..MaxTurns]
  BY <1>1, <1>3, <1>5 DEF Texts
<1>9. m.id <= sendings
  BY DEF ChatInv, AskedIsOpen, IdsAreDrawn
<1>10. JobFits'
  BY <1>1, <1>2, <1>6, <1>7 DEF JobFits
<1>11. LastFits' /\ ResendFits'
  <2>1. ~last'.done /\ last'.turn = counted'
    BY <1>1, <1>7
  <2>2. LastFits'
    BY <2>1 DEF LastFits
  <2>3. ResendFits'
    <3>1. room' = room /\ turns' = turns
      OBVIOUS
    <3> QED
      BY <2>1, <3>1 DEF ChatInv, ResendFits
  <2> QED
    BY <2>2, <2>3
<1>12. CommittedIsCounted'
  <2> SUFFICES ASSUME NEW i \in DOMAIN turns, ~IsOpen(i)
               PROVE  turns[i].turn <= counted + 1 /\ turns[i].turn < counted + 1
    BY <1>1 DEF CommittedIsCounted, IsOpen
  <2>1. turns[i].turn <= counted /\ turns[i].turn \in 0..MaxTurns
    BY ChatTyped DEF ChatInv, CommittedIsCounted
  <2> QED
    BY <1>4, <2>1
<1> QED
  BY <1>1, <1>2, <1>3, <1>5, <1>6, <1>7, <1>8, <1>9, <1>10, <1>11, <1>12

LEMMA AdmittedKeeps ==
  ASSUME ChatInv, ~MayOverlap, NEW h \in handlers, ArriveAdmitted(h)
  PROVE  ChatInv'
<1> DEFINE g == [h EXCEPT !.at = "running"]
<1>1. /\ Admits(h) /\ Admitted(h) /\ handlers' = (handlers \ {h}) \cup {g}
      /\ UNCHANGED <<room, turns, lost, expired, sendings>>
  BY DEF ArriveAdmitted, Swap
<1>2. lost = {} /\ h.at = "out"
  BY NothingElse DEF ArriveAdmitted
<1>3. g \in Handlers /\ g.id = h.id /\ g.text = h.text /\ g.at = "running" /\ g.code = h.code
  <2>1. h \in Handlers
    BY ChatTyped
  <2> QED
    BY <2>1 DEF Handlers
<1> HIDE DEF g
<1>4. handlers = {h} /\ handlers' = {g}
  BY <1>1 DEF ChatInv, OneHandler
<1>5. OneHandler'
  BY <1>4 DEF OneHandler
<1>6. h.code \notin {"ok", "invalid", "cap", "over", "expired"}
  <2>1. ~expired
    BY <1>1 DEF Admits
  <2> QED
    BY <1>2, <2>1 DEF ChatInv, AnswerFits
<1>7. AnswerFits'
  BY <1>1, <1>2, <1>3, <1>4, <1>6 DEF AnswerFits
<1>8. /\ jobs' = {JobOf(h)} /\ JobOf(h) \in Jobs /\ JobOf(h).id = h.id /\ JobOf(h).text = h.text
      /\ counted' \in 0..MaxTurns /\ last'.id <= sendings
      /\ last' \in [id : TurnIds \cup {0}, done : BOOLEAN, text : Texts, turn : 0..MaxTurns]
      /\ ResendFits' /\ JobFits' /\ LastFits' /\ CommittedIsCounted'
  BY <1>1, AdmittedFits
<1> QED
  BY <1>1, <1>3, <1>4, <1>5, <1>7, <1>8, RowKeeps

LEMMA LostKeeps ==
  ASSUME ChatInv, NEW m \in lost, LostArrives(m)
  PROVE  ChatInv'
<1>1. /\ lost' = lost \ {m} /\ UNCHANGED <<room, turns, handlers, expired, sendings>>
      /\ Admits(m) => Admitted(m)
      /\ ~Admits(m) => UNCHANGED <<jobs, last, counted>>
  BY DEF LostArrives
<1>2. handlers' \subseteq Handlers /\ OneHandler'
  BY <1>1, ChatTyped DEF ChatInv, OneHandler
<1>3. CASE Admits(m)
  <2>1. /\ jobs' = {JobOf(m)} /\ JobOf(m) \in Jobs /\ JobOf(m).id = m.id /\ JobOf(m).text = m.text
        /\ counted' \in 0..MaxTurns /\ last'.id <= sendings
        /\ last' \in [id : TurnIds \cup {0}, done : BOOLEAN, text : Texts, turn : 0..MaxTurns]
        /\ ResendFits' /\ JobFits' /\ LastFits' /\ CommittedIsCounted'
    BY <1>1, <1>3, AdmittedFits
  <2>2. AnswerFits'
    <3>1. \A h \in handlers : h.at # "running" /\ (h.at = "replied" => h.code = "interrupted")
      BY DEF ChatInv, AnswerFits
    <3>2. \A h \in handlers : h.code \notin {"ok", "invalid", "cap", "over"}
      BY <3>1 DEF ChatInv, AnswerFits
    <3>3. \A h \in handlers : h.code # "expired"
      BY <1>3 DEF ChatInv, AnswerFits, Admits
    <3> QED
      BY <1>1, <3>1, <3>2, <3>3 DEF AnswerFits
  <2> QED
    BY <1>1, <1>2, <2>1, <2>2, RowKeeps
<1>4. CASE ~Admits(m)
  <2>1. UNCHANGED <<room, turns, handlers, expired, sendings, jobs, last, counted>> /\ lost' \subseteq lost
    BY <1>1, <1>4
  <2>2. /\ room \in Rooms /\ room.resend <= sendings /\ last.id <= sendings /\ counted \in 0..MaxTurns
        /\ last \in [id : TurnIds \cup {0}, done : BOOLEAN, text : Texts, turn : 0..MaxTurns]
        /\ jobs \subseteq Jobs
    BY ChatTyped DEF ChatInv, IdsAreDrawn
  <2>3. ResendFits'
    BY <2>1 DEF ChatInv, ResendFits
  <2>4. AnswerFits'
    BY <2>1 DEF ChatInv, AnswerFits
  <2>5. JobFits'
    BY <2>1 DEF ChatInv, JobFits
  <2>6. LastFits'
    BY <2>1 DEF ChatInv, LastFits, PositionsOf
  <2>7. CommittedIsCounted'
    BY <2>1 DEF ChatInv, CommittedIsCounted, IsOpen
  <2> QED
    BY <1>2, <2>1, <2>2, <2>3, <2>4, <2>5, <2>6, <2>7, RowKeeps
<1> QED
  BY <1>3, <1>4

\* What is known while the Worker works.
LEMMA WhileItWorks ==
  ASSUME ChatInv, NEW j \in jobs
  PROVE  /\ jobs = {j} /\ j.id = last.id /\ ~last.done /\ j.turn = counted /\ last.id \in TurnIds
         /\ j.text \in Questions \ TooLong /\ counted \in 1..MaxTurns
         /\ \A h \in handlers : h.id = j.id /\ (h.at = "running" => lost = {})
         /\ \A h \in handlers : h.at = "replied" => h.code = "interrupted"
         /\ \A h \in handlers : h.code \notin {"ok", "invalid", "cap", "over"}
         /\ \E i \in DOMAIN turns : turns[i].id = j.id /\ turns[i].user = j.text /\ IsOpen(i)
<1>1. jobs = {j} /\ j.id = last.id /\ ~last.done /\ j.turn = counted /\ j.text \notin TooLong
  BY DEF ChatInv, JobFits
<1>2. j.id \in TurnIds /\ j.text \in Questions
  BY ChatTyped
<1>3. j.turn \in 1..MaxTurns
  BY ChatTyped DEF Jobs
<1>4. \A h \in handlers : h.id = j.id
  BY SameQuestion
<1>5. \A h \in handlers : h.at = "replied" => h.code = "interrupted"
  BY DEF ChatInv, AnswerFits
<1>6. \A h \in handlers : h.code \notin {"ok", "invalid", "cap", "over"}
  BY <1>5 DEF ChatInv, AnswerFits
<1>7. \A h \in handlers : h.at = "running" => lost = {}
  BY DEF ChatInv, AnswerFits
<1>8. \E i \in DOMAIN turns : turns[i].id = j.id /\ turns[i].user = j.text /\ IsOpen(i)
  BY DEF ChatInv, AskedIsOpen
<1> QED
  BY <1>1, <1>2, <1>3, <1>4, <1>5, <1>6, <1>7, <1>8

\* At most the one handler waits for it.
LEMMA WhoWaits ==
  ASSUME ChatInv, NEW j \in jobs
  PROVE  \/ WaitingFor(j) = {}
         \/ \E h \in handlers : h.at = "running" /\ handlers = {h} /\ WaitingFor(j) = {h}
<1> SUFFICES ASSUME WaitingFor(j) # {}
             PROVE  \E h \in handlers : h.at = "running" /\ handlers = {h} /\ WaitingFor(j) = {h}
  OBVIOUS
<1>1. PICK h \in handlers : h \in WaitingFor(j) /\ h.at = "running"
  BY DEF WaitingFor
<1>2. handlers = {h} /\ WaitingFor(j) = {h}
  BY <1>1 DEF ChatInv, OneHandler, WaitingFor
<1> QED
  BY <1>1, <1>2

LEMMA SettlingKeeps == ASSUME ChatInv, NEW j \in jobs, JobAnswers(j) PROVE ChatInv'
<1> DEFINE Answer(h) == [Replied(h, "ok") EXCEPT !.reply = j.text, !.turn = j.turn]
<1>1. /\ jobs' = jobs \ {j} /\ last' = [last EXCEPT !.done = TRUE, !.text = j.text, !.turn = j.turn]
      /\ handlers' = (handlers \ WaitingFor(j)) \cup {Answer(h) : h \in WaitingFor(j)}
      /\ UNCHANGED <<room, turns, lost, counted, expired, sendings>>
  BY DEF JobAnswers
<1>2. \/ handlers' = handlers
      \/ \E h \in handlers : h.at = "running" /\ handlers' = {Answer(h)}
  <2> HIDE DEF Answer
  <2> QED
    BY <1>1, WhoWaits
<1>3. jobs' = {}
  BY <1>1, WhileItWorks
<1>4. /\ last'.id = last.id /\ last'.done /\ last'.text = j.text /\ last'.turn = counted /\ last.id = j.id
      /\ last' \in [id : TurnIds \cup {0}, done : BOOLEAN, text : Texts, turn : 0..MaxTurns]
      /\ last'.id \in TurnIds /\ last'.id <= sendings
  <2>1. /\ last \in [id : TurnIds \cup {0}, done : BOOLEAN, text : Texts, turn : 0..MaxTurns]
        /\ counted \in 0..MaxTurns /\ last.id <= sendings
    BY ChatTyped DEF ChatInv, IdsAreDrawn
  <2>2. j.text \in Texts /\ j.turn = counted /\ last.id = j.id /\ last.id \in TurnIds
    BY WhileItWorks DEF Texts
  <2> QED
    BY <1>1, <2>1, <2>2
<1>5. PICK i \in DOMAIN turns : turns[i].id = j.id /\ turns[i].user = j.text /\ IsOpen(i)
  BY WhileItWorks
<1>6. ResendFits'
  BY <1>1, <1>4, <1>5 DEF ChatInv, ResendFits
<1>7. JobFits'
  BY <1>3, <1>4 DEF JobFits
<1>8. LastFits'
  <2>1. j.text \in Questions \ TooLong /\ last'.id # 0
    BY <1>4, WhileItWorks, ChatTyped
  <2>2. \A k \in DOMAIN turns : turns[k].id = j.id => turns[k].user = j.text
    BY <1>5 DEF ChatInv, OneRecordPerTurn
  <2>3. PositionsOf(last.id)' # {}
    BY <1>1, <1>4, <1>5 DEF PositionsOf
  <2> QED
    BY <1>1, <1>4, <2>1, <2>2, <2>3 DEF LastFits
<1>9. CommittedIsCounted'
  BY <1>1, <1>4 DEF ChatInv, CommittedIsCounted, IsOpen
<1>10. counted' \in 0..MaxTurns /\ jobs' \subseteq Jobs
  BY <1>1, <1>3, ChatTyped
<1>11. CASE handlers' = handlers
  <2>1. handlers' \subseteq Handlers /\ OneHandler'
    BY <1>11, ChatTyped DEF ChatInv, OneHandler
  <2>2. AnswerFits'
    BY <1>1, <1>3, <1>11, WhileItWorks DEF ChatInv, AnswerFits
  <2> QED
    BY <1>1, <1>3, <1>4, <1>6, <1>7, <1>8, <1>9, <1>10, <1>11, <2>1, <2>2, RowKeeps
<1>12. ASSUME NEW h \in handlers, h.at = "running", handlers' = {Answer(h)} PROVE ChatInv'
  <2> DEFINE g == Answer(h)
  <2>1. "ok" \in ReplyCodes /\ j.text \in Texts /\ j.turn \in 0..MaxTurns /\ j.turn = counted
    BY WhileItWorks, ChatTyped DEF ReplyCodes
  <2>2. /\ Replied(h, "ok") \in Handlers /\ Replied(h, "ok").id = h.id /\ Replied(h, "ok").text = h.text
        /\ Replied(h, "ok").at = "replied" /\ Replied(h, "ok").code = "ok"
    BY <2>1, ReplyTyped
  <2>3. /\ g \in Handlers /\ g.id = h.id /\ g.text = h.text /\ g.at = "replied" /\ g.code = "ok"
        /\ g.reply = j.text /\ g.turn = counted
    <3> HIDE DEF Replied
    <3> QED
      BY <2>1, <2>2 DEF Handlers
  <2> HIDE DEF g, Answer
  <2>4. handlers' = {g} /\ handlers = {h} /\ lost = {} /\ h.id = j.id
    BY <1>12, WhileItWorks DEF ChatInv, OneHandler, g
  <2>5. AnswerFits'
    BY <1>1, <1>3, <1>4, <2>3, <2>4 DEF AnswerFits
  <2>6. OneHandler' /\ handlers' \subseteq Handlers
    BY <2>3, <2>4 DEF OneHandler
  <2> QED
    BY <1>1, <1>3, <1>4, <1>6, <1>7, <1>8, <1>9, <1>10, <2>3, <2>4, <2>5, <2>6, RowKeeps
<1> QED
  BY <1>2, <1>11, <1>12

LEMMA RollbackKeeps == ASSUME ChatInv, NEW j \in jobs, JobFails(j) PROVE ChatInv'
<1> DEFINE Answer(h) == Replied(h, "unavailable")
<1>1. /\ jobs' = jobs \ {j}
      /\ last.id = j.id /\ ~last.done => last' = NoTurn /\ counted' = counted - 1
      /\ handlers' = (handlers \ WaitingFor(j)) \cup {Answer(h) : h \in WaitingFor(j)}
      /\ UNCHANGED <<room, turns, lost, expired, sendings>>
  BY DEF JobFails
<1>2. \/ handlers' = handlers
      \/ \E h \in handlers : h.at = "running" /\ handlers' = {Answer(h)}
  <2> HIDE DEF Answer
  <2> QED
    BY <1>1, WhoWaits
<1>3. jobs' = {}
  BY <1>1, WhileItWorks
<1>4. /\ last' = NoTurn /\ counted' = counted - 1 /\ counted \in 1..MaxTurns /\ MaxTurns \in Nat
      /\ last.id = j.id /\ last.id # 0
  BY <1>1, WhileItWorks, ChatTyped
<1>5. /\ last'.id = 0 /\ last'.done = FALSE /\ counted' \in 0..MaxTurns /\ last'.id <= sendings
      /\ last' \in [id : TurnIds \cup {0}, done : BOOLEAN, text : Texts, turn : 0..MaxTurns]
  <2>1. last'.id = 0 /\ last'.done = FALSE
    BY <1>4 DEF NoTurn
  <2>2. counted' \in 0..MaxTurns
    BY <1>4
  <2>3. 0 <= sendings /\ 0 \in 0..MaxTurns
    BY ChatTyped
  <2>4. last' \in [id : TurnIds \cup {0}, done : BOOLEAN, text : Texts, turn : 0..MaxTurns]
    BY <1>4, <2>3 DEF NoTurn, Texts
  <2> QED
    BY <2>1, <2>2, <2>3, <2>4
<1>6. ResendFits'
  BY <1>1, <1>5 DEF ChatInv, ResendFits
<1>7. JobFits' /\ LastFits'
  BY <1>3, <1>5 DEF JobFits, LastFits
<1>8. CommittedIsCounted'
  <2> SUFFICES ASSUME NEW i \in DOMAIN turns, ~IsOpen(i) PROVE turns[i].turn <= counted - 1
    BY <1>1, <1>4, <1>5 DEF CommittedIsCounted, IsOpen
  <2>1. PICK k \in DOMAIN turns : turns[k].id = j.id /\ IsOpen(k)
    BY WhileItWorks
  <2>2. turns[i].id # last.id
    BY <1>4, <2>1 DEF ChatInv, OneRecordPerTurn, IsOpen
  <2>3. turns[i].turn < counted
    BY <1>4, <2>2 DEF ChatInv, CommittedIsCounted
  <2>4. turns[i].turn \in 0..MaxTurns
    BY ChatTyped
  <2> QED
    BY <1>4, <2>3, <2>4
<1>9. jobs' \subseteq Jobs
  BY <1>3
<1>10. CASE handlers' = handlers
  <2>1. handlers' \subseteq Handlers /\ OneHandler'
    BY <1>10, ChatTyped DEF ChatInv, OneHandler
  <2>2. AnswerFits'
    BY <1>1, <1>3, <1>10, WhileItWorks DEF ChatInv, AnswerFits
  <2> QED
    BY <1>1, <1>3, <1>5, <1>6, <1>7, <1>8, <1>9, <1>10, <2>1, <2>2, RowKeeps
<1>11. ASSUME NEW h \in handlers, h.at = "running", handlers' = {Answer(h)} PROVE ChatInv'
  <2> DEFINE g == Answer(h)
  <2>1. "unavailable" \in ReplyCodes
    BY DEF ReplyCodes
  <2>2. g \in Handlers /\ g.id = h.id /\ g.text = h.text /\ g.at = "replied" /\ g.code = "unavailable"
    BY <2>1, ReplyTyped
  <2> HIDE DEF g, Answer
  <2>3. handlers' = {g} /\ handlers = {h} /\ lost = {}
    BY <1>11, WhileItWorks DEF ChatInv, OneHandler, g
  <2>4. AnswerFits'
    BY <1>1, <1>3, <2>2, <2>3 DEF AnswerFits
  <2>5. OneHandler' /\ handlers' \subseteq Handlers
    BY <2>2, <2>3 DEF OneHandler
  <2> QED
    BY <1>1, <1>3, <1>5, <1>6, <1>7, <1>8, <1>9, <2>2, <2>3, <2>4, <2>5, RowKeeps
<1> QED
  BY <1>2, <1>10, <1>11

-----------------------------------------------------------------------------
(* The transcript.                                                         *)

\* When send ends for good, nothing is under way any more.
LEMMA WhenItEnds ==
  ASSUME ChatInv, NEW h \in handlers, h.at = "replied", h.code # "interrupted"
  PROVE  /\ handlers = {h} /\ jobs = {} /\ lost = {}
         /\ \E i \in DOMAIN turns : /\ turns[i].id = h.id /\ turns[i].user = h.text /\ IsOpen(i)
                                    /\ PlaceOf(h.id) = i /\ PositionsOf(h.id) = {i}
                                    /\ \A k \in DOMAIN turns : k # i => ~IsOpen(k) /\ k < i /\ turns[k].id # h.id
<1>1. handlers = {h} /\ jobs = {} /\ lost = {}
  BY DEF ChatInv, OneHandler, AnswerFits
<1>2. PICK i \in DOMAIN turns : turns[i].id = h.id /\ turns[i].user = h.text /\ IsOpen(i)
  BY DEF ChatInv, AskedIsOpen
<1>3. PlaceOf(h.id) = i /\ PositionsOf(h.id) = {i}
  BY <1>2, PlaceIsUnique
<1>4. ASSUME NEW k \in DOMAIN turns, k # i PROVE ~IsOpen(k) /\ k < i /\ turns[k].id # h.id
  <2>1. k <= i /\ k \in Nat /\ i \in Nat
    BY <1>2, ChatTyped DEF ChatInv, OneOpen
  <2>2. IsOpen(k) => i <= k
    BY DEF ChatInv, OneOpen
  <2>3. turns[k].id # h.id
    BY <1>2, <1>4 DEF ChatInv, OneRecordPerTurn
  <2> QED
    BY <1>4, <2>1, <2>2, <2>3
<1> QED
  BY <1>1, <1>2, <1>3, <1>4

LEMMA CommitKeeps == ASSUME ChatInv, NEW h \in handlers, Commit(h) PROVE ChatInv'
<1> DEFINE rec == RecordOf(h.id, "committed", h.text, h.reply, h.turn)
<1>1. /\ h.at = "replied" /\ h.code = "ok" /\ turns' = Written(rec) /\ handlers' = handlers \ {h}
      /\ UNCHANGED <<lost, jobs, last, counted, expired, sendings>>
      /\ \/ room' = [room EXCEPT !.state = "ENDED", !.open = FALSE]
         \/ room' = [room EXCEPT !.state = "IDLE", !.open = TRUE]
  BY DEF Commit, Ends
<1>2. handlers = {h} /\ jobs = {} /\ lost = {} /\ handlers' = {}
  BY <1>1, WhenItEnds
<1>3. PICK i \in DOMAIN turns :
         /\ turns[i].id = h.id /\ turns[i].user = h.text /\ IsOpen(i) /\ PlaceOf(h.id) = i
         /\ \A k \in DOMAIN turns : k # i => ~IsOpen(k) /\ k < i /\ turns[k].id # h.id
  BY <1>1, WhenItEnds
<1>4. /\ last.done /\ last.id = h.id /\ h.reply = last.text /\ h.turn = last.turn
      /\ last.turn = counted /\ last.text = h.text /\ last.id # 0
  <2>1. last.done /\ last.id = h.id /\ h.reply = last.text /\ h.turn = last.turn
    BY <1>1 DEF ChatInv, AnswerFits
  <2>2. last.id # 0
    BY <2>1 DEF ChatInv, LastFits
  <2> QED
    BY <1>3, <2>1, <2>2 DEF ChatInv, LastFits
<1>5. /\ rec \in TurnRecords /\ rec.id = h.id /\ rec.user = h.text /\ rec.reply = h.text
      /\ rec.turn = counted /\ rec.status = "committed"
  <2>1. h.id \in TurnIds /\ h.text \in Questions /\ h.text \in Texts /\ counted \in 0..MaxTurns
    BY ChatTyped
  <2> QED
    BY <1>4, <2>1 DEF RecordOf, TurnRecords
<1> HIDE DEF rec
<1>6. /\ DOMAIN turns' = DOMAIN turns /\ turns'[i] = rec
      /\ \A k \in DOMAIN turns : k # i => turns'[k] = turns[k]
  BY <1>1, <1>3, <1>5 DEF Written
<1>7. turns' \in [DOMAIN turns' -> TurnRecords]
  <2>1. \A k \in DOMAIN turns : turns'[k] \in TurnRecords
    BY <1>5, <1>6, ChatTyped
  <2>2. turns' = [k \in DOMAIN turns' |-> turns'[k]]
    BY <1>1 DEF Written
  <2> QED
    BY <1>6, <2>1, <2>2
<1>8. room' \in Rooms /\ room'.input = room.input /\ room'.resend = room.resend
  <2>1. room \in Rooms
    BY ChatTyped
  <2> QED
    BY <1>1, <2>1 DEF Rooms, RoomStates
<1>9. ChatTypeOK'
  BY <1>1, <1>2, <1>6, <1>7, <1>8, ChatTyped DEF ChatTypeOK
<1>10. \A k \in DOMAIN turns : ~IsOpen(k)'
  BY <1>3, <1>5, <1>6 DEF IsOpen
<1>11. \A k \in DOMAIN turns : turns'[k].id = turns[k].id /\ turns'[k].user = turns[k].user
  BY <1>3, <1>5, <1>6
<1>12. OneRecordPerTurn'
  BY <1>6, <1>11 DEF ChatInv, OneRecordPerTurn
<1>13. AnswersItsQuestion'
  BY <1>5, <1>6 DEF ChatInv, AnswersItsQuestion
<1>14. \A k \in DOMAIN turns : k # i => turns[k].turn < counted /\ turns[k].turn <= counted
  BY <1>3, <1>4 DEF ChatInv, CommittedIsCounted
<1>15. TranscriptInOrder'
  <2> SUFFICES ASSUME NEW k \in DOMAIN turns, NEW l \in DOMAIN turns, k < l PROVE turns'[k].turn < turns'[l].turn
    BY <1>6 DEF TranscriptInOrder
  <2>1. k \in Nat /\ l \in Nat /\ i \in Nat
    BY ChatTyped
  <2>2. k # i
    BY <1>3, <2>1
  <2>3. CASE l = i
    BY <1>5, <1>6, <1>14, <2>2, <2>3
  <2>4. CASE l # i
    BY <1>3, <1>6, <2>2, <2>4 DEF ChatInv, TranscriptInOrder, IsOpen
  <2> QED
    BY <2>3, <2>4
<1>16. OneOpen' /\ OpenIsHeld'
  BY <1>6, <1>10 DEF OneOpen, OpenIsHeld
<1>17. OneHandler' /\ AskedIsOpen' /\ WaitingRoom' /\ AnswerFits'
  BY <1>1, <1>2 DEF OneHandler, AskedIsOpen, WaitingRoom, AnswerFits
<1>18. IdsAreDrawn'
  BY <1>1, <1>6, <1>8, <1>11 DEF ChatInv, IdsAreDrawn
<1>19. ResendFits'
  BY <1>1, <1>6, <1>8, <1>11 DEF ChatInv, ResendFits
<1>20. JobFits'
  BY <1>1 DEF ChatInv, JobFits
<1>21. LastFits'
  <2>1. PositionsOf(last.id)' = PositionsOf(last.id)
    BY <1>1, <1>6, <1>11 DEF PositionsOf
  <2> QED
    BY <1>1, <1>6, <1>11, <2>1 DEF ChatInv, LastFits
<1>22. CommittedIsCounted'
  <2> SUFFICES ASSUME NEW k \in DOMAIN turns
               PROVE  turns'[k].turn <= counted /\ (turns'[k].id # last.id => turns'[k].turn < counted)
    BY <1>1, <1>6 DEF CommittedIsCounted
  <2>1. CASE k = i
    BY <1>4, <1>5, <1>6, <2>1, ChatTyped
  <2>2. CASE k # i
    BY <1>6, <1>14, <2>2
  <2> QED
    BY <2>1, <2>2
<1> QED
  BY <1>9, <1>12, <1>13, <1>15, <1>16, <1>17, <1>18, <1>19, <1>20, <1>21, <1>22 DEF ChatInv

LEMMA DropKeeps == ASSUME ChatInv, NEW h \in handlers, Drop(h) PROVE ChatInv'
<1>1. /\ h.at = "replied" /\ h.code \in {"invalid", "cap", "over", "expired"}
      /\ turns' = Dropped(h.id) /\ handlers' = handlers \ {h}
      /\ UNCHANGED <<lost, jobs, last, counted, expired, sendings>>
  BY DEF Drop, Ends
<1>2. handlers = {h} /\ jobs = {} /\ lost = {} /\ handlers' = {}
  BY <1>1, WhenItEnds
<1>3. PICK i \in DOMAIN turns :
         /\ turns[i].id = h.id /\ PositionsOf(h.id) = {i}
         /\ \A k \in DOMAIN turns : k # i => ~IsOpen(k) /\ k < i /\ turns[k].id # h.id
  BY <1>1, WhenItEnds
<1>4. /\ DOMAIN turns' = DOMAIN turns \ {i} /\ \A k \in DOMAIN turns' : turns'[k] = turns[k]
      /\ turns' = [k \in DOMAIN turns \ {i} |-> turns[k]]
  BY <1>1, <1>3 DEF Dropped
<1>5. turns' \in [DOMAIN turns' -> TurnRecords] /\ DOMAIN turns' \subseteq Nat
  <2>1. \A k \in DOMAIN turns \ {i} : turns[k] \in TurnRecords /\ k \in Nat
    BY ChatTyped
  <2> QED
    BY <1>4, <2>1
<1>6. room' \in Rooms /\ room'.input = room.input /\ room'.resend = room.resend
  <2>1. room \in Rooms
    BY ChatTyped
  <2>2. \E s \in RoomStates, o \in BOOLEAN : room' = [room EXCEPT !.state = s, !.open = o]
    BY DEF Drop, Ends, RoomStates
  <2> QED
    BY <2>1, <2>2 DEF Rooms
<1>7. ChatTypeOK'
  BY <1>1, <1>2, <1>5, <1>6, ChatTyped DEF ChatTypeOK
<1>8. \A k \in DOMAIN turns' : k \in DOMAIN turns /\ ~IsOpen(k)' /\ ~IsOpen(k)
  BY <1>3, <1>4 DEF IsOpen
<1>9. OneRecordPerTurn' /\ AnswersItsQuestion' /\ TranscriptInOrder'
  BY <1>4, <1>8 DEF ChatInv, OneRecordPerTurn, AnswersItsQuestion, TranscriptInOrder
<1>10. OneOpen' /\ OpenIsHeld'
  BY <1>8 DEF OneOpen, OpenIsHeld
<1>11. OneHandler' /\ AskedIsOpen' /\ WaitingRoom' /\ AnswerFits'
  BY <1>1, <1>2 DEF OneHandler, AskedIsOpen, WaitingRoom, AnswerFits
<1>12. IdsAreDrawn'
  BY <1>1, <1>4, <1>6, <1>8 DEF ChatInv, IdsAreDrawn
<1>13. ResendFits'
  BY <1>1, <1>4, <1>6, <1>8 DEF ChatInv, ResendFits
<1>14. JobFits'
  BY <1>1 DEF ChatInv, JobFits
<1>15. LastFits'
  <2>1. last.done => expired \/ PositionsOf(last.id)' # {}
    <3> SUFFICES ASSUME last.done, ~expired PROVE PositionsOf(last.id)' # {}
      OBVIOUS
    <3>1. last.id # h.id
      BY <1>1 DEF ChatInv, AnswerFits
    <3>2. PICK k \in PositionsOf(last.id) : TRUE
      BY DEF ChatInv, LastFits
    <3>3. k \in DOMAIN turns' /\ turns'[k].id = last.id
      BY <1>3, <1>4, <3>1, <3>2 DEF PositionsOf
    <3> QED
      BY <1>1, <3>3 DEF PositionsOf
  <2> QED
    BY <1>1, <1>4, <1>8, <2>1 DEF ChatInv, LastFits
<1>16. CommittedIsCounted'
  BY <1>1, <1>4, <1>8 DEF ChatInv, CommittedIsCounted
<1> QED
  BY <1>7, <1>9, <1>10, <1>11, <1>12, <1>13, <1>14, <1>15, <1>16 DEF ChatInv

\* Where a question is written when it is sent: a new one behind everything else, one that
\* is sent again over itself, and then it is the last one.
LEMMA WhereItIsWritten ==
  ASSUME ChatInv, handlers = {}, NEW id \in TurnIds, room.input \in Questions,
         id = IF room.resend # 0 THEN room.resend ELSE sendings + 1
  PROVE  /\ PlaceOf(id) \in 1..(sendings + 1) /\ id <= sendings + 1
         /\ \A k \in DOMAIN turns : k # PlaceOf(id) => ~IsOpen(k) /\ k < PlaceOf(id) /\ turns[k].id # id
         /\ \A k \in DOMAIN turns : k = PlaceOf(id) => turns[k].id = id
         /\ \A m \in jobs \cup lost : m.id = id /\ m.text = room.input
         /\ last.done /\ last.id = id => last.text = room.input
<1>1. sendings \in Nat /\ room.resend \in Nat /\ room.resend <= sendings /\ last.id <= sendings /\ last.id \in Nat
  BY ChatTyped DEF ChatInv, IdsAreDrawn
<1>2. id <= sendings + 1
  BY <1>1
<1>3. \A k \in DOMAIN turns : turns[k].id \in TurnIds /\ turns[k].id \in Nat \ {0} /\ turns[k].id <= sendings
                              /\ k \in Nat /\ k \in 1..sendings
  BY ChatTyped DEF ChatInv, IdsAreDrawn
<1>4. \A k \in DOMAIN turns : IsOpen(k) => turns[k].id = room.resend /\ turns[k].id = id
  BY <1>3 DEF ChatInv, OpenIsHeld
<1>5. last.done /\ last.id = id => last.text = room.input
  <2>1. CASE room.resend = 0
    BY <1>1, <2>1
  <2>2. CASE room.resend # 0
    BY <2>2 DEF ChatInv, ResendFits
  <2> QED
    BY <2>1, <2>2
<1>6. CASE PositionsOf(id) = {}
  <2>1. \A k \in DOMAIN turns : turns[k].id # id
    BY <1>6 DEF PositionsOf
  <2>2. \A k \in DOMAIN turns : ~IsOpen(k)
    BY <1>4, <2>1
  <2>3. PlaceOf(id) = TheEnd
    BY <1>6 DEF PlaceOf
  <2>4. jobs = {} /\ lost = {}
    BY <2>2 DEF ChatInv, AskedIsOpen
  <2> QED
    <3>1. \A k \in DOMAIN turns : k < TheEnd /\ k # TheEnd
      BY <1>3, EndIsFree
    <3> QED
      BY <1>2, <1>5, <2>1, <2>2, <2>3, <2>4, <3>1, EndIsFree
<1>7. CASE PositionsOf(id) # {}
  <2>1. PICK i \in DOMAIN turns : turns[i].id = id
    BY <1>7 DEF PositionsOf
  <2>2. PlaceOf(id) = i
    BY <2>1, PlaceIsUnique
  <2>3. room.resend # 0 /\ room.resend = id
    BY <1>1, <1>3, <2>1
  <2>4. turns[i].user = room.input /\ \A k \in DOMAIN turns : k <= i
    BY <2>1, <2>3 DEF ChatInv, ResendFits
  <2>5. \A k \in DOMAIN turns : turns[k].id = id => k = i
    BY <2>1 DEF ChatInv, OneRecordPerTurn
  <2>6. ASSUME NEW k \in DOMAIN turns, k # i PROVE ~IsOpen(k) /\ k < i /\ turns[k].id # id
    <3>1. k \in Nat /\ i \in Nat /\ k <= i
      BY <1>3, <2>4
    <3> QED
      BY <1>4, <2>5, <2>6, <3>1
  <2>7. i \in 1..(sendings + 1)
    BY <1>1, <1>3
  <2>8. \A m \in jobs \cup lost : m.id = id /\ m.text = room.input
    BY <1>4, <2>4, <2>5 DEF ChatInv, AskedIsOpen
  <2> QED
    BY <1>2, <1>5, <2>1, <2>2, <2>6, <2>7, <2>8
<1> QED
  BY <1>6, <1>7

LEMMA AskingKeeps == ASSUME ChatInv, ~MayOverlap, SendQuestion PROVE ChatInv'
<1> DEFINE id == IF room.resend # 0 THEN room.resend ELSE sendings + 1
           q == room.input
           p == PlaceOf(id)
           rec == RecordOf(id, "pending", q, NoWords, 0)
           h == [key |-> sendings + 1, id |-> id, text |-> q, try |-> 0,
                 at |-> "out", code |-> "none", reply |-> NoWords, turn |-> 0]
<1>1. /\ handlers = {} /\ q # NoWords /\ sendings < LastSend /\ sendings' = sendings + 1
      /\ turns' = Written(rec) /\ handlers' = {h}
      /\ room' = [state |-> "SENDING", open |-> FALSE, input |-> NoWords, resend |-> 0]
      /\ UNCHANGED <<lost, jobs, last, counted, expired>>
  BY DEF SendQuestion, PendingRecord
<1>2. /\ sendings \in Nat /\ LastSend \in Nat /\ MaxTurns \in Nat
      /\ room.resend \in TurnIds \cup {0} /\ q \in Questions
  BY <1>1, ChatTyped DEF Texts
<1>3. sendings + 1 \in TurnIds /\ sendings + 1 \in 0..LastSend
  BY <1>1, <1>2 DEF TurnIds
<1>4. id \in TurnIds
  BY <1>2, <1>3
<1>5. /\ p \in 1..(sendings + 1) /\ id <= sendings + 1
      /\ \A k \in DOMAIN turns : k # p => ~IsOpen(k) /\ k < p /\ turns[k].id # id
      /\ \A k \in DOMAIN turns : k = p => turns[k].id = id
      /\ \A m \in jobs \cup lost : m.id = id /\ m.text = q
      /\ last.done /\ last.id = id => last.text = q
  BY <1>1, <1>2, <1>4, WhereItIsWritten
<1> HIDE DEF id, q
<1>6. /\ rec \in TurnRecords /\ rec.id = id /\ rec.user = q /\ rec.status = "pending"
  BY <1>2, <1>4 DEF RecordOf, TurnRecords, Texts
<1>7. /\ h \in Handlers /\ h.id = id /\ h.text = q /\ h.at = "out" /\ h.code = "none"
  BY <1>2, <1>3, <1>4 DEF Handlers, ReplyCodes, Texts
<1> HIDE DEF rec, h
<1>8. /\ DOMAIN turns' = DOMAIN turns \cup {p} /\ turns'[p] = rec
      /\ \A k \in DOMAIN turns : k # p => turns'[k] = turns[k]
  BY <1>1, <1>6 DEF Written
<1> HIDE DEF p
<1>9. turns' \in [DOMAIN turns' -> TurnRecords] /\ DOMAIN turns' \subseteq Nat
  <2>1. \A k \in DOMAIN turns' : turns'[k] \in TurnRecords /\ k \in Nat
    BY <1>2, <1>5, <1>6, <1>8, ChatTyped
  <2>2. turns' = [k \in DOMAIN turns' |-> turns'[k]]
    BY <1>1 DEF Written
  <2> QED
    BY <2>1, <2>2
<1>10. room' \in Rooms /\ room'.resend = 0 /\ room'.input = NoWords /\ room'.state = "SENDING"
  BY <1>1 DEF Rooms, RoomStates, Texts
<1>11. ChatTypeOK'
  BY <1>1, <1>3, <1>7, <1>9, <1>10, ChatTyped DEF ChatTypeOK
<1>12. \A k \in DOMAIN turns' : k # p => k \in DOMAIN turns /\ turns'[k] = turns[k] /\ turns'[k].id # id
                                         /\ k < p /\ turns'[k].status = "committed"
  BY <1>5, <1>8 DEF IsOpen
<1>13. OneRecordPerTurn'
  BY <1>6, <1>8, <1>12 DEF ChatInv, OneRecordPerTurn
<1>14. AnswersItsQuestion'
  BY <1>6, <1>8, <1>12 DEF ChatInv, AnswersItsQuestion
<1>15. TranscriptInOrder'
  BY <1>6, <1>8, <1>12 DEF ChatInv, TranscriptInOrder
<1>16. OneOpen'
  <2> SUFFICES ASSUME NEW k \in DOMAIN turns' PROVE k <= p
    BY <1>12 DEF OneOpen, IsOpen
  <2>1. k \in Nat /\ p \in Nat
    BY <1>2, <1>5, <1>9
  <2> QED
    BY <1>12, <2>1
<1>17. OneHandler'
  BY <1>1 DEF OneHandler
<1>18. AskedIsOpen'
  <2>1. \A m \in handlers' \cup jobs' \cup lost' : m.id = id /\ m.text = q
    BY <1>1, <1>5, <1>7
  <2> QED
    BY <1>6, <1>8, <2>1 DEF AskedIsOpen, IsOpen
<1>19. OpenIsHeld'
  BY <1>1, <1>6, <1>7, <1>8, <1>12 DEF OpenIsHeld, IsOpen
<1>20. IdsAreDrawn'
  <2>1. DOMAIN turns \subseteq 1..sendings /\ last.id <= sendings /\ last.id \in Nat
    BY ChatTyped DEF ChatInv, IdsAreDrawn
  <2>2. DOMAIN turns' \subseteq 1..(sendings + 1)
    BY <1>2, <1>5, <1>8, <2>1
  <2>3. ASSUME NEW k \in DOMAIN turns' PROVE turns'[k].id <= sendings + 1
    <3>1. CASE k = p
      BY <1>5, <1>6, <1>8, <3>1
    <3>2. CASE k # p
      <4>1. turns[k].id <= sendings /\ turns[k].id \in TurnIds /\ turns'[k] = turns[k]
        BY <1>12, <3>2, ChatTyped DEF ChatInv, IdsAreDrawn
      <4>2. turns[k].id \in Nat
        BY <4>1, ChatTyped
      <4> QED
        BY <1>2, <4>1, <4>2
    <3> QED
      BY <3>1, <3>2
  <2>4. last.id <= sendings + 1 /\ 0 <= sendings + 1
    BY <1>2, <2>1
  <2> QED
    BY <1>1, <1>10, <2>2, <2>3, <2>4 DEF IdsAreDrawn
<1>21. WaitingRoom' /\ ResendFits'
  BY <1>10 DEF WaitingRoom, ResendFits
<1>22. AnswerFits'
  BY <1>1, <1>7 DEF AnswerFits
<1>23. JobFits'
  BY <1>1 DEF ChatInv, JobFits
<1>24. LastFits'
  <2>1. last.done => \A k \in DOMAIN turns' : turns'[k].id = last.id => turns'[k].user = last.text
    BY <1>5, <1>6, <1>8, <1>12 DEF ChatInv, LastFits
  <2>2. last.done => expired \/ PositionsOf(last.id)' # {}
    <3> SUFFICES ASSUME last.done, ~expired PROVE PositionsOf(last.id)' # {}
      OBVIOUS
    <3>1. PICK k \in DOMAIN turns : turns[k].id = last.id
      BY DEF ChatInv, LastFits, PositionsOf
    <3>2. k \in DOMAIN turns' /\ turns'[k].id = last.id
      BY <1>5, <1>6, <1>8, <3>1
    <3> QED
      BY <1>1, <3>2 DEF PositionsOf
  <2> QED
    BY <1>1, <2>1, <2>2 DEF ChatInv, LastFits
<1>25. CommittedIsCounted'
  BY <1>1, <1>6, <1>8, <1>12 DEF ChatInv, CommittedIsCounted, IsOpen
<1> QED
  BY <1>11, <1>13, <1>14, <1>15, <1>16, <1>17, <1>18, <1>19, <1>20, <1>21, <1>22, <1>23, <1>24, <1>25
     DEF ChatInv

-----------------------------------------------------------------------------

LEMMA StepKeepsChat == ~MayReword /\ ~MayOverlap /\ ChatInv /\ [ChatNext]_chatVars => ChatInv'
<1> SUFFICES ASSUME ~MayReword, ~MayOverlap, ChatInv, [ChatNext]_chatVars PROVE ChatInv'
  OBVIOUS
<1>1. CASE \E q \in Texts : TypeQuestion(q)
  BY <1>1, TypingKeeps
<1>2. CASE SendQuestion
  BY <1>2, AskingKeeps
<1>3. CASE SessionExpires
  BY <1>3, TokenExpiryKeeps
<1>4. CASE Reload
  BY <1>4, ReloadKeeps
<1>5. CASE FromBackForwardCache
  BY <1>5, FrozenPageKeeps
<1>6. ASSUME NEW h \in handlers, ArriveAdmitted(h) PROVE ChatInv'
  BY <1>6, AdmittedKeeps
<1>7. ASSUME NEW h \in handlers, ArriveAnswered(h) PROVE ChatInv'
  BY <1>7, WorkerReplyKeeps
<1>8. ASSUME NEW h \in handlers, ConnectionBreaks(h) \/ StreamBreaks(h) \/ TryAgain(h) PROVE ChatInv'
  BY <1>8, TransportKeeps
<1>9. ASSUME NEW h \in handlers, Commit(h) PROVE ChatInv'
  BY <1>9, CommitKeeps
<1>10. ASSUME NEW h \in handlers, Recover(h) PROVE ChatInv'
  BY <1>10, RecoverKeeps
<1>11. ASSUME NEW h \in handlers, Drop(h) PROVE ChatInv'
  BY <1>11, DropKeeps
<1>12. ASSUME NEW m \in lost, LostArrives(m) PROVE ChatInv'
  BY <1>12, LostKeeps
<1>13. ASSUME NEW j \in jobs, JobAnswers(j) PROVE ChatInv'
  BY <1>13, SettlingKeeps
<1>14. ASSUME NEW j \in jobs, JobFails(j) PROVE ChatInv'
  BY <1>14, RollbackKeeps
<1>15. CASE UNCHANGED chatVars
  <2>1. UNCHANGED <<room, turns, handlers, lost, jobs, last, counted, expired, sendings>>
    BY <1>15 DEF chatVars
  <2>2. ChatTypeOK' /\ IdsAreDrawn' /\ OneOpen' /\ OneHandler'
    BY <2>1 DEF ChatInv, ChatTypeOK, IdsAreDrawn, OneOpen, OneHandler, IsOpen
  <2>3. OneRecordPerTurn' /\ AnswersItsQuestion' /\ TranscriptInOrder'
    BY <2>1 DEF ChatInv, OneRecordPerTurn, AnswersItsQuestion, TranscriptInOrder
  <2>4. AskedIsOpen' /\ OpenIsHeld' /\ WaitingRoom' /\ ResendFits'
    BY <2>1 DEF ChatInv, AskedIsOpen, OpenIsHeld, WaitingRoom, ResendFits, IsOpen
  <2>5. AnswerFits' /\ JobFits'
    BY <2>1 DEF ChatInv, AnswerFits, JobFits
  <2>6. LastFits' /\ CommittedIsCounted'
    BY <2>1 DEF ChatInv, LastFits, CommittedIsCounted, PositionsOf, IsOpen
  <2> QED
    BY <2>2, <2>3, <2>4, <2>5, <2>6 DEF ChatInv
<1> QED
  BY <1>1, <1>2, <1>3, <1>4, <1>5, <1>6, <1>7, <1>8, <1>9, <1>10, <1>11, <1>12, <1>13, <1>14, <1>15
     DEF ChatNext

LEMMA ChatInvSuffices == ChatInv => ChatTypeOK /\ ChatIsHonest
<1> SUFFICES ASSUME ChatInv PROVE ChatTypeOK /\ ChatIsHonest
  OBVIOUS
<1>1. AnswerCanBeFetched
  BY DEF ChatInv, LastFits, AnswerCanBeFetched
<1> QED
  BY <1>1 DEF ChatInv, ChatIsHonest

\* As long as a recovered question is sent again as it was, and the Worker has ended with a
\* request before the next one of its turn arrives, no turn id has two records, every answer
\* stands under its own question, the answered turns stand in the order in which the Worker
\* counted them, and an answer it counted is on the page or its question is.
THEOREM ChatHolds == ~MayReword /\ ~MayOverlap => (ChatSpec => [](ChatTypeOK /\ ChatIsHonest))
<1> SUFFICES ASSUME ~MayReword, ~MayOverlap PROVE ChatSpec => [](ChatTypeOK /\ ChatIsHonest)
  OBVIOUS
<1>1. ChatInv /\ [ChatNext]_chatVars => ChatInv'
  BY StepKeepsChat
<1> QED
  BY <1>1, InitChat, ChatInvSuffices, PTL DEF ChatSpec

-----------------------------------------------------------------------------
(* A streamed turn.                                                        *)

\* The cells are the frames after k, cut anywhere at the end.
Framed(cells, k, frames) ==
    \A q \in Nat :
        /\ 3 * q + 1 <= Len(cells) => cells[3 * q + 1] # Gap /\ cells[3 * q + 1].half = 1
        /\ 3 * q + 2 <= Len(cells) =>
              /\ cells[3 * q + 2] # Gap /\ cells[3 * q + 2].half = 2
              /\ cells[3 * q + 2].of = frames[k + q + 1]
        /\ 3 * q + 3 <= Len(cells) => cells[3 * q + 3] = Gap

\* A frame says its own number.
FramesAreNumbered == \A i \in 1..Len(script) : script[i].no = i

\* The worker has handled k frames.
Heard(w, k) ==
    ~w.error =>
        /\ {w.full[i] : i \in 1..Len(w.full)} = {i \in 1..k : "text" \in script[i].marks}
        /\ \A i, j \in 1..Len(w.full) : i < j => w.full[i] < w.full[j]
        /\ \A i \in 1..k : "error" \notin script[i].marks
        /\ w.terminal => \E i \in 1..k : "stop" \in script[i].marks

\* What it has not handled are the frames after these.
Unheard == worker.buffer \o wire
HeardInOrder ==
    worker.phase = "open" =>
        /\ source # "broken"
        /\ \E k \in 0..Len(script) :
              /\ Heard(worker, k) /\ Framed(Unheard, k, script)
              /\ Len(Unheard) \in (3 * (Len(script) - k) - 1)..(3 * (Len(script) - k) + 1)
              /\ source = "open" => Len(Unheard) = 3 * (Len(script) - k)

SettlesTheWhole ==
    worker.phase = "settling" => source = "ended" /\ Heard(worker, Len(script)) /\ IsWhole(worker)

\* What the worker says, in order, and how much of it it has said.
Spoken(w) ==
    [i \in 1..(Len(w.full) + 1) |->
        IF i <= Len(w.full) THEN [event |-> "delta", what |-> w.full[i]]
        ELSE IF w.error THEN [event |-> "error", what |-> 0]
        ELSE [event |-> "done", what |-> w.full]]
Told(w, n) ==
    \/ n = Len(w.full) /\ ~w.error
    \/ n = Len(w.full) + 1 /\ w.error
    \/ /\ n = Len(w.full) + 1 /\ ~w.error
       /\ w.phase = "closed" /\ turnRow = "answered" /\ replay = w.full

\* The page has read r of these.
HasRead(rd, w, r) ==
    /\ Len(rd.shown) = IF r <= Len(w.full) THEN r ELSE Len(w.full)
    /\ \A i \in 1..Len(rd.shown) : rd.shown[i] = w.full[i]
    /\ rd.final # NoReply => r = Len(w.full) + 1 /\ ~w.error /\ rd.final = w.full
ReadsOn(w, out) ==
    reader.result = "none" =>
        \E r, n \in Nat :
            /\ Told(w, n) /\ r <= n /\ HasRead(reader, w, r)
            /\ Framed(reader.buffer \o out, r, Spoken(w))
            /\ Len(reader.buffer \o out) = 3 * (n - r)
ReadInOrder == ReadsOn(worker, wireOut)

AnsweredAtTheEnd == turnRow = "answered" => source = "ended"
ClosedIsFree ==
    /\ worker.phase = "closed" => turnRow # "in_flight"
    /\ reader.result \in {"ok", "failed"} => worker.phase = "closed"

StreamInv ==
    /\ StreamTypeOK /\ FramesAreNumbered /\ HeardInOrder /\ SettlesTheWhole
    /\ ReadInOrder /\ AnsweredAtTheEnd /\ StoredIsWhole /\ AnswerIsTheReplay /\ ClosedIsFree


-----------------------------------------------------------------------------
(* Counting, and folds from the left.                                      *)

LEMMA CountingUp ==
  ASSUME NEW T \in SUBSET Nat, 0 \in T, \A n \in T : n + 1 \in T
  PROVE  T = Nat
<1> DEFINE U == Nat \ T
<1> SUFFICES ASSUME U # {} PROVE FALSE
  OBVIOUS
<1>1. Min(U) \in U /\ \A y \in U : Min(U) <= y
  BY MinIsLeast
<1>2. PICK m \in U : \A y \in U : m <= y
  BY <1>1
<1>3. m \in Nat /\ m # 0 /\ m - 1 \in Nat /\ ~(m <= m - 1)
  OBVIOUS
<1>4. m - 1 \in T
  BY <1>2, <1>3
<1>5. (m - 1) + 1 \in T
  BY <1>4
<1> QED
  BY <1>3, <1>5

LEMMA Thirds == \A n \in Nat : \E q \in Nat : n = 3 * q \/ n = 3 * q + 1 \/ n = 3 * q + 2
<1> DEFINE T == {n \in Nat : \E q \in Nat : n = 3 * q \/ n = 3 * q + 1 \/ n = 3 * q + 2}
<1>1. 0 \in T
  <2>1. 0 \in Nat /\ 0 = 3 * 0
    OBVIOUS
  <2> QED
    BY <2>1
<1>2. ASSUME NEW n \in T PROVE n + 1 \in T
  <2>1. PICK q \in Nat : n = 3 * q \/ n = 3 * q + 1 \/ n = 3 * q + 2
    OBVIOUS
  <2>2. n \in Nat /\ q + 1 \in Nat
    OBVIOUS
  <2>3. \E r \in Nat : n + 1 = 3 * r \/ n + 1 = 3 * r + 1 \/ n + 1 = 3 * r + 2
    <3>1. CASE n = 3 * q + 2
      <4>1. PICK r \in Nat : r = q + 1
        BY <2>2
      <4>2. n + 1 = 3 * r
        BY <2>2, <3>1, <4>1
      <4> QED
        BY <4>2
    <3>2. CASE n = 3 * q \/ n = 3 * q + 1
      <4>1. n + 1 = 3 * q + 1 \/ n + 1 = 3 * q + 2
        BY <2>2, <3>2
      <4> QED
        BY <4>1
    <3> QED
      BY <2>1, <3>1, <3>2
  <2>4. n + 1 \in Nat
    BY <2>2
  <2> QED
    BY <2>3, <2>4
<1> HIDE DEF T
<1>3. T \in SUBSET Nat
  BY DEF T
<1>4. T = Nat
  BY <1>1, <1>2, <1>3, CountingUp
<1> QED
  BY <1>4 DEF T

\* What a fold from the left is, for a step that is a function.
Iterates(h, step, base, n) ==
    h = [s \in SUBSET (1..n) |->
            IF s = {} THEN base ELSE step[<<h[s \ {Max(s)}], Max(s)>>]]

LEMMA LastIsMax ==
  ASSUME NEW n \in Nat, NEW s \in SUBSET (1..n), s # {}
  PROVE  /\ Max(s) \in s /\ s \ {Max(s)} \in SUBSET (1..n)
         /\ n \in s => Max(s) = n /\ s \ {Max(s)} \in SUBSET (1..(n - 1))
<1>1. s \in SUBSET (0..n)
  OBVIOUS
<1>2. Max(s) \in s /\ \A y \in s : y <= Max(s)
  BY <1>1, MaxIsGreatest
<1>3. ASSUME n \in s PROVE Max(s) = n
  <2>1. Max(s) \in 1..n /\ n <= Max(s)
    BY <1>2, <1>3
  <2> QED
    BY <2>1
<1>4. ASSUME n \in s PROVE s \ {n} \in SUBSET (1..(n - 1))
  <2>1. \A x \in 1..n : x # n => x \in 1..(n - 1)
    OBVIOUS
  <2> QED
    BY <2>1
<1> QED
  BY <1>2, <1>3, <1>4

LEMMA IterationExists ==
  ASSUME NEW V, NEW n \in Nat, NEW step \in [V \X (1..n) -> V], NEW base \in V
  PROVE  \E h \in [SUBSET (1..n) -> V] : Iterates(h, step, base, n)
<1> DEFINE Ok(j) == j <= n => \E h \in [SUBSET (1..j) -> V] : Iterates(h, step, base, j)
           T == {j \in Nat : Ok(j)}
<1>1. 0 \in T
  <2> DEFINE h == [s \in SUBSET (1..0) |-> base]
  <2>1. \A s \in SUBSET (1..0) : s = {}
    OBVIOUS
  <2>2. h \in [SUBSET (1..0) -> V] /\ Iterates(h, step, base, 0)
    BY <2>1 DEF Iterates
  <2> QED
    BY <2>2
<1>2. ASSUME NEW j \in T PROVE j + 1 \in T
  <2> SUFFICES ASSUME j + 1 <= n PROVE \E h \in [SUBSET (1..(j + 1)) -> V] : Iterates(h, step, base, j + 1)
    <3>1. j + 1 \in Nat
      OBVIOUS
    <3> QED
      BY <3>1
  <2>1. j \in Nat /\ j <= n /\ j + 1 \in 1..n /\ (j + 1) - 1 = j /\ j + 1 \in Nat
    OBVIOUS
  <2>2. PICK h \in [SUBSET (1..j) -> V] : Iterates(h, step, base, j)
    BY <2>1
  <2> DEFINE g == [s \in SUBSET (1..(j + 1)) |->
                      IF j + 1 \in s THEN step[<<h[s \ {j + 1}], j + 1>>] ELSE h[s]]
             Next(s) == IF s = {} THEN base ELSE step[<<g[s \ {Max(s)}], Max(s)>>]
  <2>3. \A s \in SUBSET (1..(j + 1)) :
           IF j + 1 \in s THEN s \ {j + 1} \in SUBSET (1..j) ELSE s \in SUBSET (1..j)
    <3>1. \A x \in 1..(j + 1) : x # j + 1 => x \in 1..j
      BY <2>1
    <3> QED
      BY <3>1
  <2>4. \A s \in SUBSET (1..j) : s \in SUBSET (1..(j + 1)) /\ j + 1 \notin s /\ g[s] = h[s]
    <3>1. \A x \in 1..j : x \in 1..(j + 1) /\ x # j + 1
      BY <2>1
    <3> QED
      BY <3>1
  <2>5. g \in [SUBSET (1..(j + 1)) -> V]
    BY <2>1, <2>3
  <2>6. ASSUME NEW s \in SUBSET (1..(j + 1)) PROVE g[s] = Next(s)
    <3>1. CASE j + 1 \in s
      <4>1. s # {} /\ Max(s) = j + 1 /\ s \ {j + 1} \in SUBSET (1..j)
        BY <2>1, <2>3, <3>1, LastIsMax
      <4>2. g[s \ {j + 1}] = h[s \ {j + 1}]
        BY <2>4, <4>1
      <4>3. g[s] = step[<<h[s \ {j + 1}], j + 1>>]
        BY <3>1
      <4> HIDE DEF g
      <4> QED
        BY <4>1, <4>2, <4>3
    <3>2. CASE j + 1 \notin s
      <4>1. s \in SUBSET (1..j)
        BY <2>3, <3>2
      <4>2. g[s] = h[s] /\ h[s] = IF s = {} THEN base ELSE step[<<h[s \ {Max(s)}], Max(s)>>]
        BY <2>2, <2>4, <4>1 DEF Iterates
      <4>3. s # {} => g[s \ {Max(s)}] = h[s \ {Max(s)}]
        BY <2>1, <2>4, <4>1, LastIsMax
      <4> HIDE DEF g
      <4> QED
        BY <4>2, <4>3
    <3> QED
      BY <3>1, <3>2
  <2>7. Iterates(g, step, base, j + 1)
    <3>1. g = [s \in SUBSET (1..(j + 1)) |-> g[s]]
      OBVIOUS
    <3> HIDE DEF g
    <3>2. g = [s \in SUBSET (1..(j + 1)) |-> Next(s)]
      BY <2>6, <3>1
    <3> QED
      BY <3>2 DEF Iterates
  <2> HIDE DEF g
  <2> QED
    BY <2>5, <2>7
<1> HIDE DEF T
<1>3. T \in SUBSET Nat
  BY DEF T
<1>4. T = Nat
  BY <1>1, <1>2, <1>3, CountingUp
<1>5. Ok(n)
  <2> HIDE DEF Ok
  <2> QED
    BY <1>4 DEF T
<1>6. n <= n
  OBVIOUS
<1> HIDE DEF T
<1> QED
  BY <1>5, <1>6

Transforms == [holds : Workers, sent : Seq(Pieces)]

HearFold(f, cells) ==
    f = [s \in SUBSET DOMAIN cells |->
            IF s = {} THEN Transform ELSE Hears(f[s \ {Max(s)}], cells[Max(s)])]
ReadFold(f, cells) ==
    f = [s \in SUBSET DOMAIN cells |->
            IF s = {} THEN reader ELSE Reads(f[s \ {Max(s)}], cells[Max(s)])]

LEMMA HearsIsFold == \A cells : HearsAll(cells) = (CHOOSE f : HearFold(f, cells))[DOMAIN cells]
BY DEF HearsAll, FoldLeft, MapThenFoldSet, HearFold

LEMMA ReadsIsFold == \A cells : ReadsAll(cells) = (CHOOSE f : ReadFold(f, cells))[DOMAIN cells]
BY DEF ReadsAll, FoldLeft, MapThenFoldSet, ReadFold

-----------------------------------------------------------------------------
(* Types.                                                                  *)

LEMMA CellsTyped ==
  ASSUME NEW E, NEW x \in E
  PROVE  /\ Cells(x) \in Seq({Gap} \cup [of : E, half : 1..2]) /\ Len(Cells(x)) = 3
         /\ Cells(x)[1] = [of |-> x, half |-> 1] /\ Cells(x)[2] = [of |-> x, half |-> 2]
         /\ Cells(x)[3] = Gap
<1>1. [of |-> x, half |-> 1] \in [of : E, half : 1..2] /\ [of |-> x, half |-> 2] \in [of : E, half : 1..2]
  OBVIOUS
<1> QED
  BY <1>1 DEF Cells

LEMMA SaysTyped ==
  /\ Says("error", 0) \in Seq(Pieces)
  /\ \A i \in 1..LastFrame : Says("delta", i) \in Seq(Pieces)
  /\ \A a \in Numbers : Says("done", a) \in Seq(Pieces)
<1>1. [event |-> "error", what |-> 0] \in PageEvents
  BY DEF PageEvents
<1>2. \A i \in 1..LastFrame : [event |-> "delta", what |-> i] \in PageEvents
  BY DEF PageEvents
<1>3. \A a \in Numbers : [event |-> "done", what |-> a] \in PageEvents
  BY DEF PageEvents
<1> QED
  BY <1>1, <1>2, <1>3, CellsTyped DEF Says, Pieces

LEMMA HearsTyped ==
  ASSUME NEW t \in Transforms, NEW c \in Parts
  PROVE  Hears(t, c) \in Transforms /\ Hears(t, c).holds.phase = t.holds.phase
<1> DEFINE w == t.holds
           used == w.usage \/ "usage" \in c.of.marks
           heard == [w EXCEPT !.usage = used, !.terminal = @ \/ ("stop" \in c.of.marks /\ used)]
<1>1. t \in [holds : Workers, sent : Seq(Pieces)] /\ w \in Workers /\ t.sent \in Seq(Pieces)
  BY DEF Transforms
<1>2. CASE ~Whole(c) \/ w.error
  BY <1>2 DEF Hears
<1>3. CASE ~(~Whole(c) \/ w.error) /\ "error" \in c.of.marks
  <2>1. Hears(t, c) = [holds |-> [w EXCEPT !.error = TRUE], sent |-> t.sent \o Says("error", 0)]
    BY <1>3 DEF Hears
  <2> DEFINE v == [w EXCEPT !.error = TRUE]
  <2>2. v \in Workers /\ v.phase = w.phase
    BY <1>1 DEF Workers
  <2>3. t.sent \o Says("error", 0) \in Seq(Pieces)
    BY <1>1, SaysTyped, ConcatProperties
  <2>4. Hears(t, c) = [holds |-> v, sent |-> t.sent \o Says("error", 0)]
    BY <2>1
  <2> HIDE DEF v, w
  <2>5. Hears(t, c) \in Transforms /\ Hears(t, c).holds = v
    BY <2>2, <2>3, <2>4 DEF Transforms
  <2> QED
    BY <2>2, <2>5 DEF w
<1>4. CASE ~(~Whole(c) \/ w.error) /\ "error" \notin c.of.marks
  <2>1. Hears(t, c) = IF "text" \notin c.of.marks THEN [t EXCEPT !.holds = heard]
                      ELSE [holds |-> [heard EXCEPT !.full = Append(@, c.of.no)],
                            sent |-> t.sent \o Says("delta", c.of.no)]
    BY <1>4 DEF Hears
  <2>2. used \in BOOLEAN /\ (w.terminal \/ ("stop" \in c.of.marks /\ used)) \in BOOLEAN
    BY <1>1 DEF Workers
  <2>3. heard \in Workers /\ heard.phase = w.phase
    BY <1>1, <2>2 DEF Workers
  <2>4. c.of.no \in 1..LastFrame
    BY <1>4 DEF Whole, Parts, Frames
  <2> HIDE DEF heard
  <2>5. Append(heard.full, c.of.no) \in Numbers
    BY <2>3, <2>4 DEF Workers, Numbers
  <2>6. [heard EXCEPT !.full = Append(@, c.of.no)] \in Workers
        /\ [heard EXCEPT !.full = Append(@, c.of.no)].phase = w.phase
    BY <2>3, <2>5 DEF Workers
  <2>7. t.sent \o Says("delta", c.of.no) \in Seq(Pieces)
    BY <1>1, <2>4, SaysTyped, ConcatProperties
  <2>8. [t EXCEPT !.holds = heard] \in Transforms /\ [t EXCEPT !.holds = heard].holds = heard
    BY <1>1, <2>3 DEF Transforms
  <2> QED
    BY <2>1, <2>3, <2>6, <2>7, <2>8 DEF Transforms
<1> QED
  BY <1>2, <1>3, <1>4

LEMMA ReadsTyped ==
  ASSUME NEW r \in Readers, NEW c \in Pieces
  PROVE  Reads(r, c) \in Readers /\ Reads(r, c).result = r.result /\ Reads(r, c).buffer = r.buffer
<1>1. CASE ~Whole(c)
  BY <1>1 DEF Reads
<1>2. CASE Whole(c)
  <2>1. c.of \in PageEvents
    BY <1>2 DEF Whole, Pieces
  <2>2. CASE c.of.event = "delta" /\ c.of.what \in 1..LastFrame
    <3>1. Reads(r, c) = [r EXCEPT !.shown = Append(@, c.of.what)]
      BY <1>2, <2>2 DEF Reads
    <3>2. Append(r.shown, c.of.what) \in Numbers
      BY <2>2 DEF Readers, Numbers
    <3> QED
      BY <3>1, <3>2 DEF Readers
  <2>3. CASE c.of.event = "done" /\ c.of.what \in Numbers
    <3>1. Reads(r, c) = [r EXCEPT !.final = c.of.what]
      BY <1>2, <2>3 DEF Reads
    <3> QED
      BY <2>3, <3>1 DEF Readers
  <2>4. CASE c.of.event = "error"
    <3>1. Reads(r, c) = [r EXCEPT !.error = TRUE]
      BY <1>2, <2>4 DEF Reads
    <3> QED
      BY <3>1 DEF Readers
  <2> QED
    BY <2>1, <2>2, <2>3, <2>4 DEF PageEvents
<1> QED
  BY <1>1, <1>2

\* Handling cells one after the other.
LEMMA HearsOneByOne ==
  ASSUME Transform \in Transforms, NEW cells \in Seq(Parts)
  PROVE  \E f : /\ f[0] = Transform /\ f[Len(cells)] = HearsAll(cells)
                /\ \A i \in 1..Len(cells) : f[i] = Hears(f[i - 1], cells[i])
<1> DEFINE n == Len(cells)
           step == [p \in Transforms \X (1..n) |-> Hears(p[1], cells[p[2]])]
<1>1. n \in Nat /\ DOMAIN cells = 1..n /\ \A i \in 1..n : cells[i] \in Parts
  OBVIOUS
<1>2. step \in [Transforms \X (1..n) -> Transforms]
  BY <1>1, HearsTyped
<1>3. \A a \in Transforms, i \in 1..n : step[<<a, i>>] = Hears(a, cells[i])
  BY <1>1
<1> HIDE DEF step, n
<1>4. PICK h \in [SUBSET (1..n) -> Transforms] : Iterates(h, step, Transform, n)
  BY <1>1, <1>2, IterationExists
<1>5. HearFold(h, cells)
  <2>1. \A s \in SUBSET (1..n) : s # {} =>
           step[<<h[s \ {Max(s)}], Max(s)>>] = Hears(h[s \ {Max(s)}], cells[Max(s)])
    BY <1>1, <1>3, <1>4, LastIsMax
  <2>2. h = [s \in SUBSET (1..n) |-> IF s = {} THEN Transform ELSE step[<<h[s \ {Max(s)}], Max(s)>>]]
    BY <1>4 DEF Iterates
  <2>3. h = [s \in SUBSET (1..n) |-> IF s = {} THEN Transform ELSE Hears(h[s \ {Max(s)}], cells[Max(s)])]
    BY <2>1, <2>2
  <2> QED
    BY <1>1, <2>3 DEF HearFold
<1> DEFINE g == CHOOSE f : HearFold(f, cells)
           f == [i \in 0..n |-> g[1..i]]
<1>6. HearFold(g, cells)
  BY <1>5
<1>7. HearsAll(cells) = g[1..n]
  BY <1>1, HearsIsFold
<1> HIDE DEF g
<1>8. f[0] = Transform
  <2>1. 1..0 = {} /\ {} \in SUBSET (1..n) /\ 0 \in 0..n
    BY <1>1
  <2> QED
    BY <1>1, <1>6, <2>1 DEF HearFold
<1>9. ASSUME NEW i \in 1..n PROVE f[i] = Hears(f[i - 1], cells[i])
  <2>1. /\ 1..i \in SUBSET (1..n) /\ 1..i # {} /\ i \in 1..i /\ i \in Nat /\ i - 1 \in 0..n /\ i \in 0..n
        /\ (1..i) \ {i} = 1..(i - 1)
    BY <1>1
  <2>2. Max(1..i) = i
    BY <2>1, LastIsMax
  <2>3. g[1..i] = Hears(g[(1..i) \ {Max(1..i)}], cells[Max(1..i)])
    BY <1>1, <1>6, <2>1 DEF HearFold
  <2> QED
    BY <2>1, <2>2, <2>3
<1>10. f[n] = g[1..n]
  BY <1>1
<1> HIDE DEF f
<1> QED
  BY <1>7, <1>8, <1>9, <1>10 DEF n

LEMMA ReadsOneByOne ==
  ASSUME reader \in Readers, NEW cells \in Seq(Pieces)
  PROVE  \E f : /\ f[0] = reader /\ f[Len(cells)] = ReadsAll(cells)
                /\ \A i \in 1..Len(cells) : f[i] = Reads(f[i - 1], cells[i])
<1> DEFINE n == Len(cells)
           step == [p \in Readers \X (1..n) |-> Reads(p[1], cells[p[2]])]
<1>1. n \in Nat /\ DOMAIN cells = 1..n /\ \A i \in 1..n : cells[i] \in Pieces
  OBVIOUS
<1>2. step \in [Readers \X (1..n) -> Readers]
  BY <1>1, ReadsTyped
<1>3. \A a \in Readers, i \in 1..n : step[<<a, i>>] = Reads(a, cells[i])
  BY <1>1
<1> HIDE DEF step, n
<1>4. PICK h \in [SUBSET (1..n) -> Readers] : Iterates(h, step, reader, n)
  BY <1>1, <1>2, IterationExists
<1>5. ReadFold(h, cells)
  <2>1. \A s \in SUBSET (1..n) : s # {} =>
           step[<<h[s \ {Max(s)}], Max(s)>>] = Reads(h[s \ {Max(s)}], cells[Max(s)])
    BY <1>1, <1>3, <1>4, LastIsMax
  <2>2. h = [s \in SUBSET (1..n) |-> IF s = {} THEN reader ELSE step[<<h[s \ {Max(s)}], Max(s)>>]]
    BY <1>4 DEF Iterates
  <2>3. h = [s \in SUBSET (1..n) |-> IF s = {} THEN reader ELSE Reads(h[s \ {Max(s)}], cells[Max(s)])]
    BY <2>1, <2>2
  <2> QED
    BY <1>1, <2>3 DEF ReadFold
<1> DEFINE g == CHOOSE f : ReadFold(f, cells)
           f == [i \in 0..n |-> g[1..i]]
<1>6. ReadFold(g, cells)
  BY <1>5
<1>7. ReadsAll(cells) = g[1..n]
  BY <1>1, ReadsIsFold
<1> HIDE DEF g
<1>8. f[0] = reader
  <2>1. 1..0 = {} /\ {} \in SUBSET (1..n) /\ 0 \in 0..n
    BY <1>1
  <2> QED
    BY <1>1, <1>6, <2>1 DEF ReadFold
<1>9. ASSUME NEW i \in 1..n PROVE f[i] = Reads(f[i - 1], cells[i])
  <2>1. /\ 1..i \in SUBSET (1..n) /\ 1..i # {} /\ i \in 1..i /\ i \in Nat /\ i - 1 \in 0..n /\ i \in 0..n
        /\ (1..i) \ {i} = 1..(i - 1)
    BY <1>1
  <2>2. Max(1..i) = i
    BY <2>1, LastIsMax
  <2>3. g[1..i] = Reads(g[(1..i) \ {Max(1..i)}], cells[Max(1..i)])
    BY <1>1, <1>6, <2>1 DEF ReadFold
  <2> QED
    BY <2>1, <2>2, <2>3
<1>10. f[n] = g[1..n]
  BY <1>1
<1> HIDE DEF f
<1> QED
  BY <1>7, <1>8, <1>9, <1>10 DEF n

-----------------------------------------------------------------------------
(* Cells in frames.                                                        *)

LEMMA PieceOf ==
  ASSUME NEW S, NEW s \in Seq(S), NEW m \in Nat, NEW n \in Nat, m <= n, n <= Len(s)
  PROVE  /\ SubSeq(s, m + 1, n) \in Seq(S) /\ Len(SubSeq(s, m + 1, n)) = n - m
         /\ \A i \in 1..(n - m) : SubSeq(s, m + 1, n)[i] = s[m + i]
<1> DEFINE l == m + 1
<1>1. l \in Int /\ n \in Int /\ \A i \in l..n : s[i] \in S
  OBVIOUS
<1>2. n - l + 1 = n - m /\ (l <= n => n - m # 0) /\ (~(l <= n) => n - m = 0)
  OBVIOUS
<1>3. \A i \in 1..(n - m) : l + i - 1 = m + i
  OBVIOUS
<1> HIDE DEF l
<1>4. /\ SubSeq(s, l, n) \in Seq(S) /\ Len(SubSeq(s, l, n)) = IF l <= n THEN n - l + 1 ELSE 0
      /\ \A i \in 1..(n - l + 1) : SubSeq(s, l, n)[i] = s[l + i - 1]
  BY <1>1, SubSeqProperties
<1>5. Len(SubSeq(s, l, n)) = n - m
  BY <1>2, <1>4
<1>6. \A i \in 1..(n - m) : SubSeq(s, l, n)[i] = s[m + i]
  BY <1>2, <1>3, <1>4
<1> QED
  BY <1>4, <1>5, <1>6 DEF l

LEMMA ElementOf == \A S : \A s \in Seq(S) : \A i \in 1..Len(s) : s[i] \in S
OBVIOUS

LEMMA Regroup == \A S : \A s, t, u \in Seq(S) : (s \o t) \o u = s \o (t \o u)
BY ConcatAssociative

\* The frames k+1 to n are a; c cells of x are next, with x the next of the frames G.
NextOf(a, x, c, k, n, F, G) ==
    /\ k \in Nat /\ n \in Nat /\ k <= n /\ c \in 0..3
    /\ Len(a) = 3 * (n - k) /\ Framed(a, k, F)
    /\ \A i \in 1..n : G[i] = F[i]
    /\ c >= 2 => G[n + 1] = x
    /\ Gap # [of |-> x, half |-> 1] /\ Gap # [of |-> x, half |-> 2]

LEMMA FramesGrow ==
  ASSUME NEW S, NEW a \in Seq(S), NEW x, Cells(x) \in Seq(S), NEW c, NEW k, NEW n, NEW F, NEW G,
         NextOf(a, x, c, k, n, F, G)
  PROVE  /\ Framed(a \o SubSeq(Cells(x), 1, c), k, G)
         /\ Len(a \o SubSeq(Cells(x), 1, c)) = Len(a) + c
<1> DEFINE b == SubSeq(Cells(x), 1, c)
           z == a \o b
           d == n - k
<1>0. /\ k \in Nat /\ n \in Nat /\ k <= n /\ c \in 0..3
      /\ Len(a) = 3 * (n - k) /\ Framed(a, k, F)
      /\ \A i \in 1..n : G[i] = F[i]
      /\ c >= 2 => G[n + 1] = x
      /\ Gap # [of |-> x, half |-> 1] /\ Gap # [of |-> x, half |-> 2]
  BY DEF NextOf
<1>c. c \in 0..3
  BY <1>0
<1>1. /\ Cells(x) \in Seq(S) /\ Len(Cells(x)) = 3
      /\ Cells(x)[1] = [of |-> x, half |-> 1] /\ Cells(x)[2] = [of |-> x, half |-> 2] /\ Cells(x)[3] = Gap
  BY DEF Cells
<1>2. [of |-> x, half |-> 1] # Gap /\ [of |-> x, half |-> 2] # Gap
  BY <1>0
<1>3. b \in Seq(S) /\ Len(b) = c /\ \A i \in 1..c : b[i] = Cells(x)[i]
  <2>1. \A i \in 1..c : Cells(x)[i] \in S
    <3>1. \A i \in 1..Len(Cells(x)) : Cells(x)[i] \in S
      BY <1>0, <1>1, ElementOf
    <3>2. \A i \in 1..c : i \in 1..3
      BY <1>0
    <3> QED
      BY <1>0, <1>1, <3>1, <3>2
  <2>2. 1 \in Int /\ c \in Int /\ (IF 1 <= c THEN c - 1 + 1 ELSE 0) = c /\ c - 1 + 1 = c
        /\ \A i \in 1..c : 1 + i - 1 = i
    BY <1>0
  <2> QED
    BY <1>0, <2>1, <2>2, SubSeqProperties
<1> HIDE DEF b
<1>4. /\ Len(z) = Len(a) + c
      /\ \A i \in 1..(Len(a) + c) : z[i] = IF i <= Len(a) THEN a[i] ELSE b[i - Len(a)]
  BY <1>0, <1>3, ConcatProperties
<1> HIDE DEF z
<1>5. d \in Nat /\ Len(a) = 3 * d
  BY <1>0
<1>6. ASSUME NEW q \in Nat
      PROVE  /\ 3 * q + 1 <= Len(z) => z[3 * q + 1] # Gap /\ z[3 * q + 1].half = 1
             /\ 3 * q + 2 <= Len(z) => /\ z[3 * q + 2] # Gap /\ z[3 * q + 2].half = 2
                                       /\ z[3 * q + 2].of = G[k + q + 1]
             /\ 3 * q + 3 <= Len(z) => z[3 * q + 3] = Gap
  <2>1. CASE q < d
    <3>1. 3 * q + 3 <= Len(a) /\ k + q + 1 \in 1..n
      BY <1>0, <1>5, <2>1
    <3>2. z[3 * q + 1] = a[3 * q + 1] /\ z[3 * q + 2] = a[3 * q + 2] /\ z[3 * q + 3] = a[3 * q + 3]
      BY <1>0, <1>4, <1>5, <3>1
    <3>3. G[k + q + 1] = F[k + q + 1]
      BY <1>0, <3>1
    <3>4. /\ a[3 * q + 1] # Gap /\ a[3 * q + 1].half = 1
          /\ a[3 * q + 2] # Gap /\ a[3 * q + 2].half = 2 /\ a[3 * q + 2].of = F[k + q + 1]
          /\ a[3 * q + 3] = Gap
      BY <1>0, <1>5, <3>1 DEF Framed
    <3> QED
      BY <1>0, <3>2, <3>3, <3>4
  <2>2. CASE q = d
    <3>1. k + q + 1 = n + 1 /\ 3 * q = Len(a)
      BY <1>0, <1>5, <2>2
    <3>2. c >= 1 => z[3 * q + 1] = b[1]
      <4>0. Len(a) \in Nat
        BY <1>5
      <4>1. c >= 1 => Len(a) + 1 \in 1..(Len(a) + c) /\ ~(Len(a) + 1 <= Len(a)) /\ (Len(a) + 1) - Len(a) = 1
        BY <1>c, <4>0
      <4> QED
        BY <1>0, <1>4, <3>1, <4>1
    <3>3. c >= 2 => z[3 * q + 2] = b[2]
      <4>0. Len(a) \in Nat
        BY <1>5
      <4>1. c >= 2 => Len(a) + 2 \in 1..(Len(a) + c) /\ ~(Len(a) + 2 <= Len(a)) /\ (Len(a) + 2) - Len(a) = 2
        BY <1>c, <4>0
      <4> QED
        BY <1>0, <1>4, <3>1, <4>1
    <3>4. c >= 3 => z[3 * q + 3] = b[3]
      <4>0. Len(a) \in Nat
        BY <1>5
      <4>1. c >= 3 => Len(a) + 3 \in 1..(Len(a) + c) /\ ~(Len(a) + 3 <= Len(a)) /\ (Len(a) + 3) - Len(a) = 3
        BY <1>c, <4>0
      <4> QED
        BY <1>0, <1>4, <3>1, <4>1
    <3>5. (c >= 1 => b[1] = [of |-> x, half |-> 1]) /\ (c >= 2 => b[2] = [of |-> x, half |-> 2]) /\ (c >= 3 => b[3] = Gap)
      BY <1>0, <1>1, <1>3
    <3>6. /\ 3 * q + 1 <= Len(z) => c >= 1
          /\ 3 * q + 2 <= Len(z) => c >= 2
          /\ 3 * q + 3 <= Len(z) => c >= 3
      <4>1. Len(z) = 3 * q + c
        BY <1>0, <1>4, <3>1
      <4> QED
        BY <1>0, <4>1
    <3>7. c >= 2 => G[k + q + 1] = x
      BY <1>0, <3>1
    <3> QED
      BY <1>0, <1>2, <3>2, <3>3, <3>4, <3>5, <3>6, <3>7
  <2>3. CASE q > d
    <3>1. ~(3 * q + 1 <= Len(z)) /\ ~(3 * q + 2 <= Len(z)) /\ ~(3 * q + 3 <= Len(z))
      BY <1>c, <1>4, <1>5, <2>3
    <3> QED
      BY <1>0, <3>1
  <2> QED
    BY <1>0, <1>5, <2>1, <2>2, <2>3
<1> QED
  BY <1>0, <1>4, <1>6 DEF Framed, z, b

LEMMA LastGapEndsAFrame ==
  ASSUME NEW S, NEW a \in Seq(S), NEW k, NEW F, Framed(a, k, F)
  PROVE  \E m \in Nat : LastGap(a) = 3 * m /\ 3 * m <= Len(a) /\ Len(a) <= 3 * m + 2
<1> DEFINE gaps == {0} \cup {i \in DOMAIN a : a[i] = Gap}
           g == LastGap(a)
<1>1. DOMAIN a = 1..Len(a) /\ Len(a) \in Nat
  OBVIOUS
<1>2. gaps \in SUBSET (0..Len(a)) /\ gaps # {}
  BY <1>1
<1>3. g \in gaps /\ \A i \in gaps : i <= g
  BY <1>1, <1>2, MaxIsGreatest DEF LastGap
<1> HIDE DEF g
<1>4. g \in Nat /\ g <= Len(a) /\ (g = 0 \/ a[g] = Gap)
  BY <1>1, <1>3
<1>5. PICK m \in Nat : g = 3 * m
  <2>1. PICK q \in Nat : g = 3 * q \/ g = 3 * q + 1 \/ g = 3 * q + 2
    BY <1>4, Thirds
  <2>2. g # 3 * q + 1
    <3>1. g = 3 * q + 1 => g # 0 /\ a[g] # Gap
      <4>1. 3 * q + 1 <= Len(a) => a[3 * q + 1] # Gap
        BY DEF Framed
      <4>2. g = 3 * q + 1 => g # 0
        BY <1>4
      <4> QED
        BY <1>4, <4>1, <4>2
    <3> QED
      BY <1>4, <3>1
  <2>3. g # 3 * q + 2
    <3>1. g = 3 * q + 2 => g # 0 /\ a[g] # Gap
      <4>1. 3 * q + 2 <= Len(a) => a[3 * q + 2] # Gap
        BY DEF Framed
      <4>2. g = 3 * q + 2 => g # 0
        BY <1>4
      <4> QED
        BY <1>4, <4>1, <4>2
    <3> QED
      BY <1>4, <3>1
  <2> QED
    BY <2>1, <2>2, <2>3
<1>6. Len(a) <= 3 * m + 2
  <2> SUFFICES ASSUME 3 * m + 3 <= Len(a) PROVE FALSE
    BY <1>1
  <2>1. a[3 * m + 3] = Gap /\ 3 * m + 3 \in 1..Len(a)
    <3>1. \A q \in Nat : 3 * q + 3 <= Len(a) => a[3 * q + 3] = Gap
      BY DEF Framed
    <3>2. a[3 * m + 3] = Gap
      BY <1>1, <3>1
    <3>3. 3 * m + 3 \in 1..Len(a)
      BY <1>1
    <3> QED
      BY <3>2, <3>3
  <2>2. 3 * m + 3 \in gaps
    BY <1>1, <2>1
  <2>3. 3 * m + 3 <= 3 * m
    BY <1>3, <1>5, <2>2
  <2> QED
    BY <2>3
<1> QED
  BY <1>4, <1>5, <1>6 DEF g

\* A cut after m frames.
CutAt(a, b, S, k, F, m) ==
    /\ Ready(a) \in Seq(S) /\ Len(Ready(a)) = 3 * m /\ Framed(Ready(a), k, F)
    /\ Left(a) \in Seq(S) /\ 3 * m <= Len(a)
    /\ Framed(Left(a) \o b, k + m, F) /\ Len(Left(a) \o b) = Len(a \o b) - 3 * m

LEMMA CutKeepsFrames ==
  ASSUME NEW S, NEW a \in Seq(S), NEW b \in Seq(S), NEW k \in Nat, NEW F, Framed(a \o b, k, F)
  PROVE  \E m \in Nat : CutAt(a, b, S, k, F, m)
<1> DEFINE z == a \o b
<1>1. /\ Len(a) \in Nat /\ Len(b) \in Nat /\ Len(z) = Len(a) + Len(b)
      /\ \A i \in 1..(Len(a) + Len(b)) : z[i] = IF i <= Len(a) THEN a[i] ELSE b[i - Len(a)]
  BY ConcatProperties
<1> HIDE DEF z
<1>2. \A i \in 1..Len(a) : z[i] = a[i]
  BY <1>1
<1>f. \A q \in Nat :
        /\ 3 * q + 1 <= Len(z) => z[3 * q + 1] # Gap /\ z[3 * q + 1].half = 1
        /\ 3 * q + 2 <= Len(z) =>
              z[3 * q + 2] # Gap /\ z[3 * q + 2].half = 2 /\ z[3 * q + 2].of = F[k + q + 1]
        /\ 3 * q + 3 <= Len(z) => z[3 * q + 3] = Gap
  BY DEF Framed, z
<1>3. ASSUME NEW c, Len(c) \in Nat, Len(c) <= Len(a), \A i \in 1..Len(c) : c[i] = a[i]
      PROVE  Framed(c, k, F)
  <2>1. \A i \in 1..Len(c) : c[i] = z[i]
    BY <1>1, <1>2, <1>3
  <2>2. \A q \in Nat : \A r \in {1, 2, 3} : 3 * q + r <= Len(c) => c[3 * q + r] = z[3 * q + r] /\ 3 * q + r <= Len(z)
    BY <1>1, <1>3, <2>1
  <2> QED
    BY <1>f, <2>2 DEF Framed
<1>4. Framed(a, k, F)
  BY <1>1, <1>3
<1>5. PICK m \in Nat : LastGap(a) = 3 * m /\ 3 * m <= Len(a) /\ Len(a) <= 3 * m + 2
  BY <1>4, LastGapEndsAFrame
<1>6. Ready(a) \in Seq(S) /\ Len(Ready(a)) = 3 * m /\ \A i \in 1..(3 * m) : Ready(a)[i] = a[i]
  <2>1. \A i \in 1..(3 * m) : a[i] \in S
    BY <1>1, <1>5
  <2>2. 1 \in Int /\ 3 * m \in Int /\ (IF 1 <= 3 * m THEN 3 * m - 1 + 1 ELSE 0) = 3 * m
        /\ 3 * m - 1 + 1 = 3 * m /\ \A i \in 1..(3 * m) : 1 + i - 1 = i
    OBVIOUS
  <2>3. Ready(a) = SubSeq(a, 1, 3 * m)
    BY <1>5 DEF Ready
  <2> QED
    BY <2>1, <2>2, <2>3, SubSeqProperties
<1>7. Framed(Ready(a), k, F)
  BY <1>1, <1>3, <1>5, <1>6
<1> DEFINE l == Len(a) - 3 * m
<1>8. l \in Nat /\ Left(a) \in Seq(S) /\ Len(Left(a)) = l /\ \A i \in 1..l : Left(a)[i] = a[3 * m + i]
  <2>1. 3 * m \in Nat /\ l \in Nat
    BY <1>1, <1>5
  <2>2. Left(a) = SubSeq(a, 3 * m + 1, Len(a))
    BY <1>5 DEF Left
  <2> DEFINE g == 3 * m
  <2>3. g \in Nat /\ g <= Len(a) /\ Left(a) = SubSeq(a, g + 1, Len(a)) /\ l = Len(a) - g /\ Len(a) <= Len(a)
    BY <1>1, <1>5, <2>1, <2>2
  <2> HIDE DEF g, l
  <2>4. /\ Left(a) \in Seq(S) /\ Len(Left(a)) = l
        /\ \A i \in 1..l : Left(a)[i] = a[g + i]
    BY <1>1, <2>3, PieceOf
  <2> QED
    BY <2>1, <2>4 DEF g
<1> HIDE DEF l
<1> DEFINE y == Left(a) \o b
<1>9. /\ Len(y) = l + Len(b)
      /\ \A i \in 1..(l + Len(b)) : y[i] = IF i <= l THEN Left(a)[i] ELSE b[i - l]
  BY <1>8, ConcatProperties
<1> HIDE DEF y
<1>10. Len(y) = Len(z) - 3 * m /\ Len(y) \in Nat
  BY <1>1, <1>5, <1>8, <1>9 DEF l
<1>11. ASSUME NEW i \in 1..Len(y) PROVE y[i] = z[3 * m + i] /\ 3 * m + i \in 1..Len(z)
  <2>1. i \in 1..(l + Len(b)) /\ 3 * m + i \in 1..(Len(a) + Len(b)) /\ (i <= l <=> 3 * m + i <= Len(a))
        /\ (3 * m + i) - Len(a) = i - l
    BY <1>1, <1>5, <1>8, <1>9 DEF l
  <2>2. i <= l => Left(a)[i] = a[3 * m + i]
    BY <1>8
  <2> QED
    BY <1>1, <1>9, <2>1, <2>2
<1>12. Framed(y, k + m, F)
  <2> SUFFICES ASSUME NEW q \in Nat
               PROVE  /\ 3 * q + 1 <= Len(y) => y[3 * q + 1] # Gap /\ y[3 * q + 1].half = 1
                      /\ 3 * q + 2 <= Len(y) =>
                           y[3 * q + 2] # Gap /\ y[3 * q + 2].half = 2 /\ y[3 * q + 2].of = F[(k + m) + q + 1]
                      /\ 3 * q + 3 <= Len(y) => y[3 * q + 3] = Gap
    BY DEF Framed
  <2> DEFINE p == m + q
  <2>1. /\ p \in Nat /\ k + p + 1 = (k + m) + q + 1
        /\ 3 * m + (3 * q + 1) = 3 * p + 1 /\ 3 * m + (3 * q + 2) = 3 * p + 2 /\ 3 * m + (3 * q + 3) = 3 * p + 3
    OBVIOUS
  <2> HIDE DEF p
  <2>2. 3 * q + 1 <= Len(y) => y[3 * q + 1] = z[3 * p + 1] /\ 3 * p + 1 <= Len(z)
    <3> HAVE 3 * q + 1 <= Len(y)
    <3>1. 3 * q + 1 \in 1..Len(y)
      BY <1>10
    <3>2. y[3 * q + 1] = z[3 * m + (3 * q + 1)] /\ 3 * m + (3 * q + 1) \in 1..Len(z)
      BY <1>11, <3>1
    <3>3. 3 * p + 1 \in 1..Len(z) /\ y[3 * q + 1] = z[3 * p + 1]
      BY <2>1, <3>2
    <3> QED
      BY <1>1, <3>3
  <2>3. 3 * q + 2 <= Len(y) => y[3 * q + 2] = z[3 * p + 2] /\ 3 * p + 2 <= Len(z)
    <3> HAVE 3 * q + 2 <= Len(y)
    <3>1. 3 * q + 2 \in 1..Len(y)
      BY <1>10
    <3>2. y[3 * q + 2] = z[3 * m + (3 * q + 2)] /\ 3 * m + (3 * q + 2) \in 1..Len(z)
      BY <1>11, <3>1
    <3>3. 3 * p + 2 \in 1..Len(z) /\ y[3 * q + 2] = z[3 * p + 2]
      BY <2>1, <3>2
    <3> QED
      BY <1>1, <3>3
  <2>4. 3 * q + 3 <= Len(y) => y[3 * q + 3] = z[3 * p + 3] /\ 3 * p + 3 <= Len(z)
    <3> HAVE 3 * q + 3 <= Len(y)
    <3>1. 3 * q + 3 \in 1..Len(y)
      BY <1>10
    <3>2. y[3 * q + 3] = z[3 * m + (3 * q + 3)] /\ 3 * m + (3 * q + 3) \in 1..Len(z)
      BY <1>11, <3>1
    <3>3. 3 * p + 3 \in 1..Len(z) /\ y[3 * q + 3] = z[3 * p + 3]
      BY <2>1, <3>2
    <3> QED
      BY <1>1, <3>3
  <2> QED
    BY <1>f, <2>1, <2>2, <2>3, <2>4
<1>13. CutAt(a, b, S, k, F, m)
  BY <1>5, <1>6, <1>7, <1>8, <1>10, <1>12 DEF y, z, CutAt
<1> QED
  BY <1>13

-----------------------------------------------------------------------------
(* Handling frames.                                                        *)

\* Of the worker's record this depends on what was said only.
LEMMA SameWords ==
  ASSUME NEW w, NEW v, v.full = w.full, v.error = w.error, v.phase = w.phase
  PROVE  \A out : ReadsOn(w, out) => ReadsOn(v, out)
<1>1. Spoken(v) = Spoken(w)
  BY DEF Spoken
<1>2. \A n : Told(w, n) => Told(v, n)
  BY DEF Told
<1>3. \A rd, r : HasRead(rd, w, r) => HasRead(rd, v, r)
  BY DEF HasRead
<1> QED
  BY <1>1, <1>2, <1>3 DEF ReadsOn

LEMMA SaysMore ==
  ASSUME reader \in Readers, NEW out \in Seq(Pieces), NEW w \in Workers, NEW v \in Workers,
         ReadsOn(w, out), ~w.error, w.phase # "closed",
         NEW e \in PageEvents, Spoken(v)[Len(w.full) + 1] = e,
         \A i \in 1..Len(w.full) : Spoken(v)[i] = Spoken(w)[i],
         \A r \in 0..Len(w.full) : HasRead(reader, w, r) => HasRead(reader, v, r)
  PROVE  reader.result = "none" =>
            \E r \in Nat :
               /\ r <= Len(w.full) + 1 /\ HasRead(reader, v, r)
               /\ Framed(reader.buffer \o (out \o Cells(e)), r, Spoken(v))
               /\ Len(reader.buffer \o (out \o Cells(e))) = 3 * ((Len(w.full) + 1) - r)
<1> SUFFICES ASSUME reader.result = "none"
             PROVE  \E r \in Nat :
               /\ r <= Len(w.full) + 1 /\ HasRead(reader, v, r)
               /\ Framed(reader.buffer \o (out \o Cells(e)), r, Spoken(v))
               /\ Len(reader.buffer \o (out \o Cells(e))) = 3 * ((Len(w.full) + 1) - r)
  OBVIOUS
<1> DEFINE L == Len(w.full)
           b == reader.buffer
<1>1. L \in Nat /\ b \in Seq(Pieces)
  BY DEF Workers, Readers, Numbers
<1>2. PICK r, n \in Nat : /\ Told(w, n) /\ r <= n /\ HasRead(reader, w, r)
                          /\ Framed(b \o out, r, Spoken(w)) /\ Len(b \o out) = 3 * (n - r)
  BY DEF ReadsOn
<1>3. n = L
  BY <1>2 DEF Told
<1>4. r \in 0..L
  BY <1>1, <1>2, <1>3
<1>5. HasRead(reader, v, r)
  BY <1>2, <1>4
<1>6. Gap \notin {[of |-> e, half |-> 1], [of |-> e, half |-> 2]}
  <2>1. [of |-> e, half |-> 1] \in [of : Frames \cup PageEvents, half : 1..2]
        /\ [of |-> e, half |-> 2] \in [of : Frames \cup PageEvents, half : 1..2]
    OBVIOUS
  <2> QED
    BY <2>1, CellAssumption
<1>7. b \o out \in Seq(Pieces)
  BY <1>1, ConcatProperties
<1>8. Cells(e) \in Seq(Pieces) /\ Len(Cells(e)) = 3 /\ SubSeq(Cells(e), 1, 3) = Cells(e)
  <2>1. Cells(e) \in Seq(Pieces) /\ Len(Cells(e)) = 3
    BY CellsTyped DEF Pieces
  <2>2. SubSeq(Cells(e), 1, Len(Cells(e))) = Cells(e)
    BY <2>1, SubSeqFull
  <2> QED
    BY <2>1, <2>2
<1> DEFINE z == b \o out
<1>9. Framed(z \o Cells(e), r, Spoken(v)) /\ Len(z \o Cells(e)) = Len(z) + 3
  <2>1. 3 \in 0..3 /\ (3 >= 2 => Spoken(v)[n + 1] = e) /\ \A i \in 1..n : Spoken(v)[i] = Spoken(w)[i]
    BY <1>3
  <2>2. z \in Seq(Pieces) /\ Len(z) = 3 * (n - r) /\ Framed(z, r, Spoken(w)) /\ r <= n /\ r \in Nat /\ n \in Nat
    BY <1>2, <1>7
  <2> HIDE DEF z
  <2>3. Framed(z \o SubSeq(Cells(e), 1, 3), r, Spoken(v)) /\ Len(z \o SubSeq(Cells(e), 1, 3)) = Len(z) + 3
    <3>1. NextOf(z, e, 3, r, n, Spoken(w), Spoken(v))
      BY <1>6, <2>1, <2>2 DEF NextOf
    <3> QED
      BY <1>8, <2>2, <3>1, FramesGrow
  <2> QED
    BY <1>8, <2>3
<1>10. (b \o out) \o Cells(e) = b \o (out \o Cells(e))
  <2>1. PICK s1, s2, s3 : s1 = b /\ s2 = out /\ s3 = Cells(e)
    OBVIOUS
  <2>2. s1 \in Seq(Pieces) /\ s2 \in Seq(Pieces) /\ s3 \in Seq(Pieces)
    BY <1>1, <1>8, <2>1
  <2>3. (s1 \o s2) \o s3 = s1 \o (s2 \o s3)
    BY <2>2, Regroup
  <2> QED
    BY <2>1, <2>3
<1>11. Len(b \o out) + 3 = 3 * ((L + 1) - r) /\ r <= L + 1
  BY <1>1, <1>2, <1>3
<1> QED
  BY <1>5, <1>9, <1>10, <1>11

HeardAt(t, k) ==
    /\ t \in Transforms /\ t.holds.phase = "open"
    /\ Heard(t.holds, k) /\ ReadsOn(t.holds, t.sent)

LEMMA HearsFrame ==
  ASSUME StreamTypeOK, FramesAreNumbered, NEW k \in Nat, k + 1 \in 1..Len(script),
         NEW t, HeardAt(t, k), NEW c \in Parts, Whole(c), c.of = script[k + 1]
  PROVE  HeardAt(Hears(t, c), k + 1)
<1> DEFINE w == t.holds
           used == w.usage \/ "usage" \in c.of.marks
           heard == [w EXCEPT !.usage = used, !.terminal = @ \/ ("stop" \in c.of.marks /\ used)]
           L == Len(w.full)
           u == Hears(t, c)
<1>1. /\ t \in Transforms /\ w \in Workers /\ t.sent \in Seq(Pieces) /\ w.phase = "open"
      /\ Heard(w, k) /\ ReadsOn(w, t.sent) /\ L \in Nat /\ w.full \in Numbers
      /\ w.error \in BOOLEAN /\ w.terminal \in BOOLEAN /\ w.usage \in BOOLEAN
  BY DEF HeardAt, Transforms, Workers, Numbers
<1>2. u \in Transforms /\ u.holds.phase = "open" /\ u.holds \in Workers
  BY <1>1, HearsTyped DEF Transforms
<1>3. c.of.no = k + 1 /\ c.of.marks = script[k + 1].marks
  BY DEF FramesAreNumbered
<1>4. CASE w.error
  <2>1. u = t
    BY <1>4 DEF Hears
  <2> QED
    BY <1>1, <1>4, <2>1 DEF HeardAt, Heard
<1>5. CASE ~w.error /\ "error" \in c.of.marks
  <2> DEFINE v == [w EXCEPT !.error = TRUE]
             e == [event |-> "error", what |-> 0]
  <2>1. u = [holds |-> v, sent |-> t.sent \o Cells(e)]
    BY <1>5 DEF Hears, Says
  <2>2. v \in Workers /\ v.full = w.full /\ v.error = TRUE /\ v.phase = "open"
    BY <1>1 DEF Workers
  <2> HIDE DEF v
  <2>3. Spoken(v)[L + 1] = e /\ \A i \in 1..L : Spoken(v)[i] = Spoken(w)[i]
    BY <1>1, <2>2 DEF Spoken
  <2>4. \A r \in 0..L : HasRead(reader, w, r) => HasRead(reader, v, r)
    <3> TAKE r \in 0..L
    <3> HAVE HasRead(reader, w, r)
    <3>1. reader.final = NoReply
      BY <1>1 DEF HasRead
    <3> QED
      BY <2>2, <3>1 DEF HasRead
  <2>5. e \in PageEvents /\ reader \in Readers /\ w.phase # "closed"
    BY <1>1 DEF PageEvents, StreamTypeOK
  <2> HIDE DEF e
  <2>6. Told(v, L + 1)
    BY <2>2 DEF Told
  <2>7. ReadsOn(v, t.sent \o Cells(e))
    <3>1. reader.result = "none" =>
            \E r \in Nat :
               /\ r <= L + 1 /\ HasRead(reader, v, r)
               /\ Framed(reader.buffer \o (t.sent \o Cells(e)), r, Spoken(v))
               /\ Len(reader.buffer \o (t.sent \o Cells(e))) = 3 * ((L + 1) - r)
      BY <1>1, <1>5, <2>2, <2>3, <2>4, <2>5, SaysMore
    <3>2. L + 1 \in Nat
      BY <1>1
    <3> HIDE DEF L
    <3> QED
      BY <2>6, <3>1, <3>2 DEF ReadsOn
  <2>8. Heard(v, k + 1)
    BY <2>2 DEF Heard
  <2> QED
    BY <1>2, <2>1, <2>7, <2>8 DEF HeardAt
<1>6. CASE ~w.error /\ "error" \notin c.of.marks
  <2>1. heard \in Workers /\ heard.full = w.full /\ heard.error = w.error /\ heard.phase = "open"
        /\ (heard.terminal => w.terminal \/ "stop" \in c.of.marks)
    <3>1. used \in BOOLEAN /\ (w.terminal \/ ("stop" \in c.of.marks /\ used)) \in BOOLEAN
      BY <1>1
    <3>2. heard \in Workers /\ heard.full = w.full /\ heard.error = w.error /\ heard.phase = "open"
      BY <1>1, <3>1 DEF Workers
    <3>3. heard.terminal = (w.terminal \/ ("stop" \in c.of.marks /\ used))
      BY <1>1 DEF Workers
    <3> QED
      BY <3>2, <3>3
  <2>2. u = IF "text" \notin c.of.marks THEN [t EXCEPT !.holds = heard]
            ELSE [holds |-> [heard EXCEPT !.full = Append(@, c.of.no)],
                  sent |-> t.sent \o Cells([event |-> "delta", what |-> c.of.no])]
    BY <1>6 DEF Hears, Says
  <2> HIDE DEF heard
  <2>3. /\ {w.full[i] : i \in 1..L} = {i \in 1..k : "text" \in script[i].marks}
        /\ \A i, j \in 1..L : i < j => w.full[i] < w.full[j]
        /\ \A i \in 1..k : "error" \notin script[i].marks
        /\ w.terminal => \E i \in 1..k : "stop" \in script[i].marks
    BY <1>1, <1>6 DEF Heard
  <2>4. \A i \in 1..(k + 1) : i \in 1..k \/ i = k + 1
    OBVIOUS
  <2>5. /\ \A i \in 1..(k + 1) : "error" \notin script[i].marks
        /\ heard.terminal => \E i \in 1..(k + 1) : "stop" \in script[i].marks
    <3>1. \A i \in 1..(k + 1) : "error" \notin script[i].marks
      BY <1>3, <1>6, <2>3, <2>4
    <3>2. ASSUME heard.terminal PROVE \E i \in 1..(k + 1) : "stop" \in script[i].marks
      <4>1. CASE w.terminal
        <5>1. PICK i \in 1..k : "stop" \in script[i].marks
          BY <2>3, <4>1
        <5>2. i \in 1..(k + 1)
          OBVIOUS
        <5> QED
          BY <5>1, <5>2
      <4>2. CASE "stop" \in c.of.marks
        BY <1>3, <4>2
      <4> QED
        BY <2>1, <3>2, <4>1, <4>2
    <3> QED
      BY <3>1, <3>2
  <2>6. CASE "text" \notin c.of.marks
    <3>1. u.holds = heard /\ u.sent = t.sent
      BY <1>1, <2>1, <2>2, <2>6 DEF Transforms
    <3>2. ReadsOn(heard, t.sent)
      BY <1>1, <2>1, SameWords
    <3>3. {i \in 1..k : "text" \in script[i].marks} = {i \in 1..(k + 1) : "text" \in script[i].marks}
      <4>1. \A i \in 1..k : i \in 1..(k + 1)
        OBVIOUS
      <4> QED
        BY <1>3, <2>4, <2>6, <4>1
    <3>4. Heard(heard, k + 1)
      BY <2>1, <2>3, <2>5, <3>3 DEF Heard
    <3> QED
      BY <1>2, <3>1, <3>2, <3>4 DEF HeardAt
  <2>7. CASE "text" \in c.of.marks
    <3> DEFINE v == [heard EXCEPT !.full = Append(@, c.of.no)]
               e == [event |-> "delta", what |-> c.of.no]
    <3>1. u = [holds |-> v, sent |-> t.sent \o Cells(e)]
      BY <2>2, <2>7
    <3>2. k + 1 \in 1..LastFrame
      BY StreamAssumption DEF StreamTypeOK
    <3>3. /\ Append(w.full, k + 1) \in Numbers /\ Len(Append(w.full, k + 1)) = L + 1
          /\ \A i \in 1..L : Append(w.full, k + 1)[i] = w.full[i]
          /\ Append(w.full, k + 1)[L + 1] = k + 1
      BY <1>1, <3>2, AppendProperties DEF Numbers
    <3>4. v \in Workers /\ v.full = Append(w.full, k + 1) /\ v.error = w.error /\ v.phase = "open"
          /\ v.terminal = heard.terminal
      BY <1>3, <2>1, <3>3 DEF Workers
    <3> HIDE DEF v
    <3>5. Len(v.full) = L + 1 /\ (\A i \in 1..L : v.full[i] = w.full[i]) /\ v.full[L + 1] = k + 1
      BY <3>3, <3>4
    <3>6. Spoken(v)[L + 1] = e /\ \A i \in 1..L : Spoken(v)[i] = Spoken(w)[i]
      <4>1. L + 1 \in 1..(Len(v.full) + 1) /\ L + 1 <= Len(v.full)
        BY <1>1, <3>5
      <4>2. \A i \in 1..L : i \in 1..(Len(v.full) + 1) /\ i <= Len(v.full) /\ i \in 1..(L + 1) /\ i <= L
        BY <1>1, <3>5
      <4>3. \A i \in 1..L : Spoken(v)[i] = [event |-> "delta", what |-> v.full[i]]
        BY <4>2 DEF Spoken
      <4>4. \A i \in 1..L : Spoken(w)[i] = [event |-> "delta", what |-> w.full[i]]
        BY <4>2 DEF Spoken
      <4>5. Spoken(v)[L + 1] = [event |-> "delta", what |-> v.full[L + 1]]
        BY <4>1 DEF Spoken
      <4> QED
        BY <1>3, <3>5, <4>3, <4>4, <4>5
    <3>7. \A r \in 0..L : HasRead(reader, w, r) => HasRead(reader, v, r)
      <4> TAKE r \in 0..L
      <4> HAVE HasRead(reader, w, r)
      <4>1. reader.final = NoReply /\ Len(reader.shown) = r
        BY <1>1 DEF HasRead
      <4>2. \A i \in 1..Len(reader.shown) : reader.shown[i] = v.full[i]
        <5>1. \A i \in 1..r : i \in 1..L
          BY <1>1
        <5> QED
          BY <3>5, <4>1, <5>1 DEF HasRead
      <4>3. r <= Len(v.full)
        BY <1>1, <3>5
      <4> QED
        BY <4>1, <4>2, <4>3 DEF HasRead
    <3>8. e \in PageEvents /\ reader \in Readers /\ w.phase # "closed"
      BY <1>1, <1>3, <3>2 DEF PageEvents, StreamTypeOK
    <3> HIDE DEF e
    <3>9. Told(v, L + 1)
      BY <1>6, <3>4, <3>5 DEF Told
    <3>10. ReadsOn(v, t.sent \o Cells(e))
      <4>1. reader.result = "none" =>
              \E r \in Nat :
                 /\ r <= L + 1 /\ HasRead(reader, v, r)
                 /\ Framed(reader.buffer \o (t.sent \o Cells(e)), r, Spoken(v))
                 /\ Len(reader.buffer \o (t.sent \o Cells(e))) = 3 * ((L + 1) - r)
        BY <1>1, <1>6, <3>4, <3>6, <3>7, <3>8, SaysMore
      <4>2. L + 1 \in Nat
        BY <1>1
      <4> HIDE DEF L
      <4> QED
        BY <3>9, <4>1, <4>2 DEF ReadsOn
    <3>11. {v.full[i] : i \in 1..Len(v.full)} = {i \in 1..(k + 1) : "text" \in script[i].marks}
      <4>1. \A i \in 1..(L + 1) : i \in 1..L \/ i = L + 1
        BY <1>1
      <4>2. \A i \in 1..L : i \in 1..(L + 1)
        BY <1>1
      <4>3. L + 1 \in 1..(L + 1)
        BY <1>1
      <4>4. {v.full[i] : i \in 1..(L + 1)} = {w.full[i] : i \in 1..L} \cup {k + 1}
        BY <3>5, <4>1, <4>2, <4>3
      <4>5. \A i \in 1..k : i \in 1..(k + 1)
        OBVIOUS
      <4>6. {i \in 1..(k + 1) : "text" \in script[i].marks} = {i \in 1..k : "text" \in script[i].marks} \cup {k + 1}
        BY <1>3, <2>4, <2>7, <4>5
      <4> QED
        BY <2>3, <3>5, <4>4, <4>6
    <3>12. \A i, j \in 1..Len(v.full) : i < j => v.full[i] < v.full[j]
      <4> SUFFICES ASSUME NEW i \in 1..(L + 1), NEW j \in 1..(L + 1), i < j PROVE v.full[i] < v.full[j]
        BY <3>5
      <4>1. i \in 1..L
        BY <1>1
      <4>2. w.full[i] \in 1..k
        BY <2>3, <4>1
      <4>3. CASE j = L + 1
        <5>1. w.full[i] < k + 1
          BY <4>2
        <5> QED
          BY <3>5, <4>1, <4>3, <5>1
      <4>4. CASE j \in 1..L
        BY <2>3, <3>5, <4>1, <4>4
      <4> QED
        BY <1>1, <4>3, <4>4
    <3>13. Heard(v, k + 1)
      BY <2>5, <3>4, <3>11, <3>12 DEF Heard
    <3> QED
      BY <1>2, <3>1, <3>10, <3>13 DEF HeardAt
  <2> QED
    BY <2>6, <2>7
<1> QED
  BY <1>1, <1>4, <1>5, <1>6

LEMMA HearsCells ==
  ASSUME StreamTypeOK, FramesAreNumbered, NEW cells \in Seq(Parts), NEW k \in Nat, NEW q \in Nat,
         k + q <= Len(script), Framed(cells, k, script), HeardAt(Transform, k),
         3 * q - 1 <= Len(cells), Len(cells) <= 3 * q + 1
  PROVE  HeardAt(HearsAll(cells), k + q)
<1> DEFINE n == Len(cells)
<1>1. Transform \in Transforms /\ n \in Nat /\ Len(script) \in Nat /\ \A i \in 1..n : cells[i] \in Parts
  BY DEF HeardAt, StreamTypeOK
<1>2. PICK f : /\ f[0] = Transform /\ f[n] = HearsAll(cells)
               /\ \A i \in 1..n : f[i] = Hears(f[i - 1], cells[i])
  BY <1>1, HearsOneByOne
<1> DEFINE Ok(i) == \A p \in Nat : i <= n /\ 3 * p - 1 <= i /\ i <= 3 * p + 1 => HeardAt(f[i], k + p)
           T == {i \in Nat : Ok(i)}
<1>3. 0 \in T
  <2>1. \A p \in Nat : 3 * p - 1 <= 0 => p = 0
    OBVIOUS
  <2>2. k + 0 = k
    OBVIOUS
  <2> QED
    BY <1>2, <2>1, <2>2
<1>4. ASSUME NEW i \in T PROVE i + 1 \in T
  <2> SUFFICES ASSUME NEW p \in Nat, i + 1 <= n, 3 * p - 1 <= i + 1, i + 1 <= 3 * p + 1
               PROVE  HeardAt(f[i + 1], k + p)
    OBVIOUS
  <2> DEFINE c == cells[i + 1]
  <2>0. i \in Nat /\ \A r \in Nat : i <= n /\ 3 * r - 1 <= i /\ i <= 3 * r + 1 => HeardAt(f[i], k + r)
    OBVIOUS
  <2>1. i + 1 \in 1..n /\ (i + 1) - 1 = i /\ i <= n
    BY <1>1, <2>0
  <2>2. f[i + 1] = Hears(f[i], c) /\ c \in Parts
    BY <1>1, <1>2, <2>1
  <2>3. CASE i + 1 = 3 * p - 1
    <3> DEFINE r == p - 1
    <3>1. r \in Nat /\ i + 1 = 3 * r + 2 /\ k + p = (k + r) + 1 /\ 3 * r - 1 <= i /\ i <= 3 * r + 1 /\ k + r \in Nat
      BY <2>0, <2>3
    <3>2. (k + r) + 1 \in 1..Len(script)
      <4>1. p <= q
        BY <1>1, <2>1, <2>3
      <4> QED
        BY <1>1, <3>1, <4>1
    <3> HIDE DEF r
    <3>3. c # Gap /\ c.half = 2 /\ c.of = script[k + r + 1]
      BY <3>1 DEF Framed
    <3>4. HeardAt(f[i], k + r)
      BY <2>0, <2>1, <3>1
    <3> HIDE DEF c
    <3>5. HeardAt(Hears(f[i], c), (k + r) + 1)
      BY <2>2, <3>1, <3>2, <3>3, <3>4, HearsFrame DEF Whole
    <3> QED
      BY <2>2, <3>1, <3>5
  <2>4. CASE i + 1 = 3 * p \/ i + 1 = 3 * p + 1
    <3>1. ~Whole(c)
      <4>1. CASE i + 1 = 3 * p
        <5>1. p - 1 \in Nat /\ i + 1 = 3 * (p - 1) + 3
          BY <2>0, <4>1
        <5> QED
          BY <5>1 DEF Framed, Whole
      <4>2. CASE i + 1 = 3 * p + 1
        <5>1. c.half = 1
          BY <4>2 DEF Framed
        <5> QED
          BY <5>1 DEF Whole
      <4> QED
        BY <2>4, <4>1, <4>2
    <3>2. Hears(f[i], c) = f[i]
      BY <3>1 DEF Hears
    <3>3. 3 * p - 1 <= i /\ i <= 3 * p + 1
      BY <2>0, <2>4
    <3> QED
      BY <2>0, <2>1, <2>2, <3>2, <3>3
  <2> QED
    BY <2>0, <2>3, <2>4
<1> HIDE DEF T
<1>5. T \in SUBSET Nat
  BY DEF T
<1>6. T = Nat
  BY <1>3, <1>4, <1>5, CountingUp
<1>7. Ok(n)
  BY <1>1, <1>6 DEF T
<1> QED
  BY <1>1, <1>2, <1>7

LEMMA ReadsEvent ==
  ASSUME worker \in Workers, NEW n \in Nat, Told(worker, n), NEW r \in Nat, r + 1 <= n,
         NEW rd \in Readers, HasRead(rd, worker, r),
         NEW c \in Pieces, Whole(c), c.of = Spoken(worker)[r + 1]
  PROVE  Reads(rd, c) \in Readers /\ HasRead(Reads(rd, c), worker, r + 1)
<1> DEFINE L == Len(worker.full)
           x == Reads(rd, c)
<1>1. L \in Nat /\ worker.full \in Numbers /\ rd.shown \in Numbers /\ (n = L \/ n = L + 1) /\ r <= L
  BY DEF Workers, Readers, Numbers, Told
<1>2. x \in Readers
  BY ReadsTyped
<1>3. rd.final = NoReply /\ Len(rd.shown) = r /\ \A i \in 1..r : rd.shown[i] = worker.full[i]
  BY <1>1 DEF HasRead
<1>4. CASE r + 1 <= L
  <2>1. c.of = [event |-> "delta", what |-> worker.full[r + 1]]
    BY <1>1, <1>4 DEF Spoken
  <2>2. x = [rd EXCEPT !.shown = Append(@, worker.full[r + 1])]
    BY <2>1 DEF Reads
  <2>3. worker.full[r + 1] \in 1..LastFrame
    <3>1. r + 1 \in 1..L
      BY <1>1, <1>4
    <3>2. \A S : \A a \in Seq(S) : \A i \in 1..Len(a) : a[i] \in S
      BY ElementOf
    <3>3. worker.full \in Seq(1..LastFrame)
      BY <1>1 DEF Numbers
    <3>4. \A i \in 1..Len(worker.full) : worker.full[i] \in 1..LastFrame
      BY <3>2, <3>3, Zenon
    <3> QED
      BY <3>1, <3>4
  <2>4. /\ Len(Append(rd.shown, worker.full[r + 1])) = r + 1
        /\ \A i \in 1..r : Append(rd.shown, worker.full[r + 1])[i] = rd.shown[i]
        /\ Append(rd.shown, worker.full[r + 1])[r + 1] = worker.full[r + 1]
    BY <1>1, <1>3, <2>3, AppendProperties DEF Numbers
  <2>5. x.shown = Append(rd.shown, worker.full[r + 1]) /\ x.final = NoReply
    BY <1>3, <2>2 DEF Readers
  <2>6. \A i \in 1..(r + 1) : i \in 1..r \/ i = r + 1
    OBVIOUS
  <2>7. \A i \in 1..(r + 1) : x.shown[i] = worker.full[i]
    BY <1>3, <2>4, <2>5, <2>6
  <2> QED
    BY <1>2, <1>4, <2>4, <2>5, <2>7 DEF HasRead
<1>5. CASE r = L
  <2>1. n = L + 1 /\ ~(r + 1 <= L) /\ r + 1 \in 1..(L + 1)
    BY <1>1, <1>5
  <2>2. CASE worker.error
    <3>1. c.of = [event |-> "error", what |-> 0]
      BY <2>1, <2>2 DEF Spoken
    <3>2. x = [rd EXCEPT !.error = TRUE]
      BY <3>1 DEF Reads
    <3>3. x.shown = rd.shown /\ x.final = NoReply
      BY <1>3, <3>2 DEF Readers
    <3> QED
      BY <1>2, <1>3, <1>5, <2>1, <3>3 DEF HasRead
  <2>3. CASE ~worker.error
    <3>1. c.of = [event |-> "done", what |-> worker.full]
      BY <2>1, <2>3 DEF Spoken
    <3>2. x = [rd EXCEPT !.final = worker.full]
      BY <3>1 DEF Reads
    <3>3. x.shown = rd.shown /\ x.final = worker.full
      BY <3>2 DEF Readers
    <3> QED
      BY <1>2, <1>3, <1>5, <2>1, <2>3, <3>3 DEF HasRead
  <2> QED
    BY <2>2, <2>3
<1> QED
  BY <1>1, <1>4, <1>5

LEMMA ReadsCells ==
  ASSUME worker \in Workers, reader \in Readers, NEW cells \in Seq(Pieces), NEW r \in Nat, NEW q \in Nat,
         NEW n \in Nat, Told(worker, n), r + q <= n, HasRead(reader, worker, r),
         Framed(cells, r, Spoken(worker)), Len(cells) = 3 * q
  PROVE  /\ ReadsAll(cells) \in Readers /\ ReadsAll(cells).result = reader.result
         /\ HasRead(ReadsAll(cells), worker, r + q)
<1> DEFINE l == Len(cells)
           At(rd, p) == rd \in Readers /\ rd.result = reader.result /\ HasRead(rd, worker, r + p)
<1>1. l \in Nat /\ l = 3 * q /\ \A i \in 1..l : cells[i] \in Pieces
  OBVIOUS
<1>2. PICK f : /\ f[0] = reader /\ f[l] = ReadsAll(cells)
               /\ \A i \in 1..l : f[i] = Reads(f[i - 1], cells[i])
  BY ReadsOneByOne
<1> HIDE DEF l
<1> DEFINE Ok(i) == \A p \in Nat : i <= l /\ 3 * p - 1 <= i /\ i <= 3 * p + 1 => At(f[i], p)
           T == {i \in Nat : Ok(i)}
<1>3. 0 \in T
  <2>1. \A p \in Nat : 3 * p - 1 <= 0 => p = 0
    OBVIOUS
  <2>2. r + 0 = r
    OBVIOUS
  <2> QED
    BY <1>2, <2>1, <2>2
<1>4. ASSUME NEW i \in T PROVE i + 1 \in T
  <2> SUFFICES ASSUME NEW p \in Nat, i + 1 <= l, 3 * p - 1 <= i + 1, i + 1 <= 3 * p + 1
               PROVE  At(f[i + 1], p)
    OBVIOUS
  <2> DEFINE c == cells[i + 1]
  <2>0. i \in Nat /\ \A m \in Nat : i <= l /\ 3 * m - 1 <= i /\ i <= 3 * m + 1 => At(f[i], m)
    OBVIOUS
  <2> HIDE DEF At
  <2>1. i + 1 \in 1..l /\ (i + 1) - 1 = i /\ i <= l
    BY <1>1, <2>0
  <2>2. f[i + 1] = Reads(f[i], c) /\ c \in Pieces
    BY <1>1, <1>2, <2>1
  <2>3. CASE i + 1 = 3 * p - 1
    <3> DEFINE m == p - 1
    <3>1. m \in Nat /\ i + 1 = 3 * m + 2 /\ r + p = (r + m) + 1 /\ 3 * m - 1 <= i /\ i <= 3 * m + 1 /\ r + m \in Nat
      BY <2>0, <2>3
    <3>2. (r + m) + 1 <= n
      <4>1. p <= q
        BY <1>1, <2>1, <2>3
      <4> QED
        BY <3>1, <4>1
    <3> HIDE DEF m
    <3>3. c # Gap /\ c.half = 2 /\ c.of = Spoken(worker)[r + m + 1]
      BY <2>1, <3>1 DEF Framed, l
    <3>4. f[i] \in Readers /\ f[i].result = reader.result /\ HasRead(f[i], worker, r + m)
      BY <2>0, <2>1, <3>1 DEF At
    <3> HIDE DEF c
    <3>5. Reads(f[i], c) \in Readers /\ HasRead(Reads(f[i], c), worker, (r + m) + 1)
      BY <2>2, <3>1, <3>2, <3>3, <3>4, ReadsEvent DEF Whole
    <3>6. Reads(f[i], c).result = reader.result
      BY <2>2, <3>4, ReadsTyped
    <3> QED
      BY <2>2, <3>1, <3>5, <3>6 DEF At
  <2>4. CASE i + 1 = 3 * p \/ i + 1 = 3 * p + 1
    <3>1. ~Whole(c)
      <4>1. CASE i + 1 = 3 * p
        <5>1. p - 1 \in Nat /\ i + 1 = 3 * (p - 1) + 3
          BY <2>0, <4>1
        <5> QED
          BY <2>1, <5>1 DEF Framed, Whole, l
      <4>2. CASE i + 1 = 3 * p + 1
        <5>1. c.half = 1
          BY <2>1, <4>2 DEF Framed, l
        <5> QED
          BY <5>1 DEF Whole
      <4> QED
        BY <2>4, <4>1, <4>2
    <3>2. Reads(f[i], c) = f[i]
      BY <3>1 DEF Reads
    <3>3. 3 * p - 1 <= i /\ i <= 3 * p + 1
      BY <2>0, <2>4
    <3> QED
      BY <2>0, <2>1, <2>2, <3>2, <3>3
  <2> QED
    BY <2>0, <2>3, <2>4
<1> HIDE DEF T
<1>5. T \in SUBSET Nat
  BY DEF T
<1>6. T = Nat
  BY <1>3, <1>4, <1>5, CountingUp
<1>7. At(f[l], q)
  <2>1. Ok(l)
    BY <1>1, <1>6 DEF T
  <2>2. l <= l /\ 3 * q - 1 <= l /\ l <= 3 * q + 1
    BY <1>1
  <2> QED
    BY <2>1, <2>2
<1> QED
  BY <1>2, <1>7

-----------------------------------------------------------------------------
(* The steps.                                                              *)

LEMMA InitStream == StreamInit => StreamInv
<1> SUFFICES ASSUME StreamInit PROVE StreamInv
  OBVIOUS
<1>0. /\ source = "open" /\ script = <<>> /\ wire = <<>> /\ wireOut = <<>> /\ turnRow = "in_flight"
      /\ replay = NoReply /\ dialect \in Dialects
      /\ worker = [phase |-> "open", buffer |-> <<>>, full |-> <<>>,
                   usage |-> FALSE, terminal |-> FALSE, error |-> FALSE]
      /\ reader = [buffer |-> <<>>, shown |-> <<>>, final |-> NoReply, error |-> FALSE,
                   result |-> "none"]
  BY DEF StreamInit
<1>1. StreamTypeOK
  <2>1. worker \in Workers
    BY <1>0 DEF Workers, Numbers
  <2>2. reader \in Readers
    BY <1>0 DEF Readers, Numbers
  <2>3. 0 <= LastFrame
    BY StreamAssumption
  <2> QED
    BY <1>0, <2>1, <2>2, <2>3 DEF StreamTypeOK
<1>2. FramesAreNumbered
  BY <1>0 DEF FramesAreNumbered
<1>3. HeardInOrder
  <2>1. Unheard = <<>> /\ Len(Unheard) = 0 /\ Len(script) = 0
    BY <1>0 DEF Unheard
  <2>2. Heard(worker, 0)
    BY <1>0 DEF Heard
  <2>3. Framed(Unheard, 0, script)
    BY <2>1 DEF Framed
  <2>4. 0 \in 0..Len(script) /\ Len(Unheard) \in (3 * (Len(script) - 0) - 1)..(3 * (Len(script) - 0) + 1)
        /\ Len(Unheard) = 3 * (Len(script) - 0) /\ source # "broken"
    BY <1>0, <2>1
  <2> QED
    BY <2>2, <2>3, <2>4 DEF HeardInOrder
<1>4. ReadInOrder
  <2>1. reader.buffer \o wireOut = <<>> /\ Len(reader.buffer \o wireOut) = 0
    BY <1>0
  <2>2. Told(worker, 0) /\ HasRead(reader, worker, 0)
    BY <1>0 DEF Told, HasRead
  <2>3. Framed(reader.buffer \o wireOut, 0, Spoken(worker))
    BY <2>1 DEF Framed
  <2>4. 0 \in Nat /\ 0 <= 0 /\ Len(reader.buffer \o wireOut) = 3 * (0 - 0)
    BY <2>1
  <2> QED
    BY <2>2, <2>3, <2>4 DEF ReadInOrder, ReadsOn
<1>5. SettlesTheWhole /\ AnsweredAtTheEnd /\ StoredIsWhole /\ AnswerIsTheReplay /\ ClosedIsFree
  BY <1>0 DEF SettlesTheWhole, AnsweredAtTheEnd, StoredIsWhole, AnswerIsTheReplay, ClosedIsFree
<1> QED
  BY <1>1, <1>2, <1>3, <1>4, <1>5 DEF StreamInv

\* The provider sends a frame, or the beginning of one at the end of its body.
LEMMA FrameSendingKeeps ==
  ASSUME StreamInv, source = "open", NEW marks \in dialect, NEW c \in 0..3,
         c # 0 => Len(script) < LastFrame,
         script' = IF c >= 2 THEN Append(script, NextFrame(marks)) ELSE script,
         wire' = wire \o SubSeq(Cells(NextFrame(marks)), 1, c),
         source' \in {"open", "ended"}, source' = "open" => c = 3,
         UNCHANGED <<dialect, worker, wireOut, reader, turnRow, replay>>
  PROVE  StreamInv'
<1> DEFINE x == NextFrame(marks)
           L == Len(script)
<1>0. /\ StreamTypeOK /\ FramesAreNumbered /\ HeardInOrder /\ SettlesTheWhole
      /\ ReadInOrder /\ AnsweredAtTheEnd /\ StoredIsWhole /\ AnswerIsTheReplay /\ ClosedIsFree
  BY DEF StreamInv
<1>1. script \in Seq(Frames) /\ L \in Nat /\ L <= LastFrame /\ LastFrame \in Nat /\ wire \in Seq(Parts)
  BY <1>0, StreamAssumption DEF StreamTypeOK
<1>2. c # 0 => x \in Frames
  <2>1. marks \in SUBSET Marks
    BY <1>0, StreamAssumption DEF StreamTypeOK
  <2>2. c # 0 => L + 1 \in 1..LastFrame
    BY <1>1
  <2> QED
    BY <2>1, <2>2 DEF NextFrame, Frames
<1>3. /\ script' \in Seq(Frames) /\ Len(script') = IF c >= 2 THEN L + 1 ELSE L
      /\ \A i \in 1..L : script'[i] = script[i]
      /\ c >= 2 => script'[L + 1] = x
  BY <1>1, <1>2, AppendProperties
<1>4. SubSeq(Cells(x), 1, c) \in Seq(Parts)
  <2>1. CASE c = 0
    <3>1. SubSeq(Cells(x), 1, c) = <<>>
      BY <2>1, SubSeqEmpty
    <3>2. <<>> \in Seq(Parts)
      OBVIOUS
    <3> QED
      BY <3>1, <3>2
  <2>2. CASE c # 0
    <3>1. Cells(x) \in Seq(Parts) /\ Len(Cells(x)) = 3
      BY <1>2, <2>2, CellsTyped DEF Parts
    <3>2. \A i \in 1..Len(Cells(x)) : Cells(x)[i] \in Parts
      BY <3>1, ElementOf
    <3>6. \A i \in 1..c : i \in 1..3
      OBVIOUS
    <3>3. \A i \in 1..c : Cells(x)[i] \in Parts
      BY <3>1, <3>2, <3>6
    <3>4. 1 \in Int /\ c \in Int
      OBVIOUS
    <3> QED
      BY <3>3, <3>4, SubSeqProperties
  <2> QED
    BY <2>1, <2>2
<1>5. StreamTypeOK'
  <2>1. wire' \in Seq(Parts)
    BY <1>1, <1>4, ConcatProperties
  <2>2. Len(script') <= LastFrame
    BY <1>1, <1>3
  <2> QED
    BY <1>0, <1>3, <2>1, <2>2 DEF StreamTypeOK
<1>6. FramesAreNumbered'
  <2>1. \A i \in 1..Len(script') : i \in 1..L \/ (c >= 2 /\ i = L + 1)
    BY <1>1, <1>3
  <2>2. x.no = L + 1
    BY DEF NextFrame
  <2> QED
    BY <1>0, <1>3, <2>1, <2>2 DEF FramesAreNumbered
<1>7. ASSUME worker.phase = "open" PROVE HeardInOrder'
  <2>1. PICK k \in 0..L : /\ Heard(worker, k) /\ Framed(Unheard, k, script)
                          /\ Len(Unheard) = 3 * (L - k)
    BY <1>0, <1>7 DEF HeardInOrder
  <2>2. k \in Nat /\ k <= L /\ k \in 0..Len(script')
    BY <1>1, <1>3
  <2>3. worker.buffer \in Seq(Parts) /\ Unheard \in Seq(Parts)
    <3>1. worker.buffer \in Seq(Parts)
      BY <1>0 DEF StreamTypeOK, Workers
    <3> QED
      BY <1>1, <3>1, ConcatProperties DEF Unheard
  <2>4. Unheard' = Unheard \o SubSeq(Cells(x), 1, c)
    <3>1. (worker.buffer \o wire) \o SubSeq(Cells(x), 1, c) = worker.buffer \o (wire \o SubSeq(Cells(x), 1, c))
      <4>1. PICK s1, s2, s3 : s1 = worker.buffer /\ s2 = wire /\ s3 = SubSeq(Cells(x), 1, c)
        OBVIOUS
      <4>2. s1 \in Seq(Parts) /\ s2 \in Seq(Parts) /\ s3 \in Seq(Parts)
        BY <1>1, <1>4, <2>3, <4>1
      <4>3. (s1 \o s2) \o s3 = s1 \o (s2 \o s3)
        BY <4>2, Regroup
      <4> QED
        BY <4>1, <4>3
    <3>2. worker'.buffer = worker.buffer
      OBVIOUS
    <3> QED
      BY <3>1, <3>2, Zenon DEF Unheard
  <2>5. Framed(Unheard', k, script') /\ Len(Unheard') = 3 * (L - k) + c
    <3>1. CASE c = 0
      <4>1. SubSeq(Cells(x), 1, c) = <<>> /\ script' = script
        BY <3>1, SubSeqEmpty
      <4>2. Unheard' = Unheard
        BY <2>3, <2>4, <4>1, ConcatEmptySeq
      <4>3. 3 * (L - k) + 0 = 3 * (L - k)
        BY <1>1, <2>2
      <4> QED
        BY <2>1, <3>1, <4>1, <4>2, <4>3
    <3>2. CASE c # 0
      <4>1. x \in Frames /\ Cells(x) \in Seq(Parts)
        <5>1. x \in Frames
          BY <1>2, <3>2
        <5> QED
          BY <5>1, CellsTyped DEF Parts
      <4>2. Gap \notin {[of |-> x, half |-> 1], [of |-> x, half |-> 2]}
        <5>1. [of |-> x, half |-> 1] \in [of : Frames \cup PageEvents, half : 1..2]
              /\ [of |-> x, half |-> 2] \in [of : Frames \cup PageEvents, half : 1..2]
          BY <4>1
        <5> QED
          BY <5>1, CellAssumption
      <4> HIDE DEF x, L
      <4>3. /\ Framed(Unheard \o SubSeq(Cells(x), 1, c), k, script')
            /\ Len(Unheard \o SubSeq(Cells(x), 1, c)) = Len(Unheard) + c
        <5>1. PICK u, F, G, y, l : u = Unheard /\ F = script /\ G = script' /\ y = x /\ l = L
          OBVIOUS
        <5>2. u \in Seq(Parts) /\ Framed(u, k, F) /\ Len(u) = 3 * (l - k) /\ k <= l /\ l \in Nat /\ k \in Nat
          BY <1>1, <2>1, <2>2, <2>3, <5>1
        <5>3. (\A i \in 1..l : G[i] = F[i]) /\ (c >= 2 => G[l + 1] = y)
          BY <1>3, <5>1
        <5>4. Cells(y) \in Seq(Parts) /\ Gap \notin {[of |-> y, half |-> 1], [of |-> y, half |-> 2]}
          BY <4>1, <4>2, <5>1
        <5>5. Framed(u \o SubSeq(Cells(y), 1, c), k, G) /\ Len(u \o SubSeq(Cells(y), 1, c)) = Len(u) + c
          <6>1. NextOf(u, y, c, k, l, F, G)
            BY <5>2, <5>3, <5>4 DEF NextOf
          <6> QED
            BY <5>2, <5>4, <6>1, FramesGrow
        <5> QED
          BY <5>1, <5>5
      <4> QED
        BY <2>1, <2>4, <4>3
    <3> QED
      BY <3>1, <3>2
  <2>6. Heard(worker, k)'
    <3>1. \A i \in 1..k : script'[i] = script[i]
      BY <1>1, <1>3, <2>2
    <3>2. {i \in 1..k : "text" \in script[i].marks} = {i \in 1..k : "text" \in script'[i].marks}
      BY <3>1
    <3> QED
      BY <2>1, <3>1, <3>2 DEF Heard
  <2>7. /\ Len(Unheard') \in (3 * (Len(script') - k) - 1)..(3 * (Len(script') - k) + 1)
        /\ source' = "open" => Len(Unheard') = 3 * (Len(script') - k)
    <3>1. CASE c >= 2
      <4>1. 3 * (L + 1 - k) = 3 * (L - k) + 3 /\ (c = 2 \/ c = 3) /\ 3 * (L - k) \in Nat
        BY <1>1, <2>2, <3>1
      <4>2. Len(script') = L + 1 /\ Len(Unheard') = 3 * (L - k) + c
        BY <1>3, <2>5, <3>1
      <4>3. 3 * (Len(script') - k) = 3 * (L - k) + 3
        BY <4>1, <4>2
      <4> DEFINE d == 3 * (L - k)
                 d1 == 3 * (Len(script') - k)
      <4>4. d \in Nat /\ d1 = d + 3 /\ Len(Unheard') = d + c /\ (source' = "open" => c = 3)
        BY <4>1, <4>2, <4>3
      <4> HIDE DEF d, d1
      <4>5. Len(Unheard') \in (d1 - 1)..(d1 + 1) /\ (source' = "open" => Len(Unheard') = d1)
        BY <4>1, <4>4
      <4> QED
        BY <4>5 DEF d1
    <3>2. CASE ~(c >= 2)
      BY <1>1, <1>3, <2>2, <2>5, <3>2
    <3> QED
      BY <3>1, <3>2
  <2> QED
    BY <2>2, <2>5, <2>6, <2>7 DEF HeardInOrder
<1>8. HeardInOrder'
  BY <1>7 DEF HeardInOrder
<1>9. SettlesTheWhole' /\ AnsweredAtTheEnd' /\ StoredIsWhole'
  BY <1>0 DEF SettlesTheWhole, AnsweredAtTheEnd, StoredIsWhole
<1>10. ReadInOrder' /\ AnswerIsTheReplay' /\ ClosedIsFree'
  BY <1>0 DEF ReadInOrder, ReadsOn, Told, HasRead, AnswerIsTheReplay, ClosedIsFree
<1> QED
  BY <1>5, <1>6, <1>8, <1>9, <1>10 DEF StreamInv

LEMMA ProviderKeeps ==
  ASSUME StreamInv, NEW marks \in dialect,
         ProviderWrites(marks) \/ \E cells \in 0..2 : ProviderEnds(cells, marks)
  PROVE  StreamInv'
<1>1. CASE ProviderWrites(marks)
  <2> DEFINE x == NextFrame(marks)
  <2>1. Cells(x) = SubSeq(Cells(x), 1, 3)
    <3>1. Cells(x) \in Seq({Gap} \cup [of : {x}, half : 1..2]) /\ Len(Cells(x)) = 3
      BY CellsTyped
    <3> HIDE DEF x
    <3>2. SubSeq(Cells(x), 1, Len(Cells(x))) = Cells(x)
      BY <3>1, SubSeqFull
    <3> QED
      BY <3>1, <3>2
  <2>2. 3 \in 0..3 /\ 3 >= 2
    OBVIOUS
  <2>3. /\ source = "open" /\ source' = "open" /\ Len(script) < LastFrame
        /\ script' = Append(script, x) /\ wire' = wire \o SubSeq(Cells(x), 1, 3)
        /\ UNCHANGED <<dialect, worker, wireOut, reader, turnRow, replay>>
    BY <1>1, <2>1 DEF ProviderWrites
  <2> QED
    BY <2>2, <2>3, FrameSendingKeeps
<1>2. ASSUME NEW cells \in 0..2, ProviderEnds(cells, marks) PROVE StreamInv'
  <2>1. cells \in 0..3 /\ (cells >= 2 <=> cells = 2)
    OBVIOUS
  <2>2. /\ source = "open" /\ source' = "ended" /\ (cells # 0 => Len(script) < LastFrame)
        /\ script' = (IF cells >= 2 THEN Append(script, NextFrame(marks)) ELSE script)
        /\ wire' = wire \o SubSeq(Cells(NextFrame(marks)), 1, cells)
        /\ UNCHANGED <<dialect, worker, wireOut, reader, turnRow, replay>>
    BY <1>2, <2>1 DEF ProviderEnds
  <2> QED
    BY <2>1, <2>2, FrameSendingKeeps
<1> QED
  BY <1>1, <1>2

\* What the page is to read stays, when the worker neither says nor forgets anything.
LEMMA ReadingGoesOn ==
  ASSUME ReadInOrder, worker'.full = worker.full, worker'.error = worker.error,
         UNCHANGED <<wireOut, reader>>,
         worker.phase = "closed" => UNCHANGED <<worker, turnRow, replay>>
  PROVE  ReadInOrder'
<1>1. Spoken(worker)' = Spoken(worker)
  BY DEF Spoken
<1>2. \A n : Told(worker, n) => Told(worker, n)'
  BY DEF Told
<1>3. \A r : HasRead(reader, worker, r) => HasRead(reader, worker, r)'
  BY DEF HasRead
<1> QED
  BY <1>1, <1>2, <1>3 DEF ReadInOrder, ReadsOn

\* The worker leaves what it does, with what becomes of the turn.
LEMMA WorkerMoves ==
  ASSUME StreamInv, NEW p \in {"failing", "aborting", "closed", "aborted", "dead"},
         worker' = [worker EXCEPT !.phase = p], worker.phase # "closed",
         UNCHANGED <<dialect, script, reader>>,
         \/ UNCHANGED <<source, wire>>
         \/ source = "open" /\ source' = "broken" /\ wire' = <<>>,
         \/ UNCHANGED <<turnRow, replay>>
         \/ turnRow = "in_flight" /\ turnRow' = "given_back" /\ UNCHANGED replay
         \/ worker.phase = "settling" /\ SettleTurn /\ UNCHANGED source,
         p = "closed" => turnRow' # "in_flight",
         wireOut' \in Seq(Pieces)
  PROVE  ReadInOrder' => StreamInv'
<1>0. /\ StreamTypeOK /\ FramesAreNumbered /\ HeardInOrder /\ SettlesTheWhole
      /\ ReadInOrder /\ AnsweredAtTheEnd /\ StoredIsWhole /\ AnswerIsTheReplay /\ ClosedIsFree
  BY DEF StreamInv
<1>1. worker \in Workers /\ worker' \in Workers /\ worker'.phase = p /\ worker.full \in Numbers
  BY <1>0 DEF StreamTypeOK, Workers
<1>2. StreamTypeOK'
  <2>1. turnRow' \in {"in_flight", "answered", "given_back"} /\ replay' \in Numbers \cup {NoReply}
    <3>1. turnRow \in {"in_flight", "answered", "given_back"} /\ replay \in Numbers \cup {NoReply}
      BY <1>0 DEF StreamTypeOK
    <3> QED
      BY <1>1, <3>1 DEF SettleTurn
  <2>2. source' \in {"open", "ended", "broken"} /\ wire' \in Seq(Parts)
    <3>1. source \in {"open", "ended", "broken"} /\ wire \in Seq(Parts)
      BY <1>0 DEF StreamTypeOK
    <3>2. CASE UNCHANGED <<source, wire>>
      BY <3>1, <3>2
    <3>3. CASE source' = "broken" /\ wire' = <<>>
      <4>1. <<>> \in Seq(Parts)
        OBVIOUS
      <4> QED
        BY <3>3, <4>1
    <3> QED
      BY <3>2, <3>3
  <2> QED
    BY <1>0, <1>1, <2>1, <2>2 DEF StreamTypeOK
<1>3. FramesAreNumbered' /\ HeardInOrder' /\ SettlesTheWhole'
  BY <1>0, <1>1 DEF FramesAreNumbered, HeardInOrder, SettlesTheWhole
<1>4. AnsweredAtTheEnd'
  BY <1>0 DEF AnsweredAtTheEnd, SettlesTheWhole, SettleTurn
<1>5. StoredIsWhole'
  <2>1. CASE worker.phase = "settling" /\ SettleTurn
    <3>1. Heard(worker, Len(script)) /\ ~worker.error /\ worker.terminal
      BY <1>0, <2>1 DEF SettlesTheWhole, IsWhole
    <3>2. DOMAIN script = 1..Len(script) /\ DOMAIN worker.full = 1..Len(worker.full)
      BY <1>0, <1>1 DEF StreamTypeOK, Numbers
    <3>3. HoldsEveryText(worker.full)
      BY <3>1, <3>2 DEF Heard, HoldsEveryText, ToSet
    <3>4. /\ \E i \in DOMAIN script : "stop" \in script[i].marks
          /\ \A i \in DOMAIN script : "error" \notin script[i].marks
      BY <3>1, <3>2 DEF Heard
    <3>5. HoldsEveryText(replay)'
      BY <2>1, <3>3 DEF HoldsEveryText, SettleTurn
    <3> QED
      BY <3>4, <3>5 DEF StoredIsWhole
  <2>2. CASE UNCHANGED replay /\ (turnRow' = "answered" => turnRow = "answered")
    BY <1>0, <2>2 DEF StoredIsWhole, HoldsEveryText
  <2> QED
    BY <2>1, <2>2
<1>6. AnswerIsTheReplay'
  BY <1>0 DEF AnswerIsTheReplay, ClosedIsFree
<1>7. ClosedIsFree'
  BY <1>0, <1>1 DEF ClosedIsFree
<1> QED
  BY <1>2, <1>3, <1>4, <1>5, <1>6, <1>7 DEF StreamInv

LEMMA WorkerStops ==
  ASSUME StreamInv,
         ProviderBreaks \/ SettleLost \/ FailAcked \/ FailLost \/ WorkerEvicted \/ LossNoticed
  PROVE  StreamInv'
<1>0. worker \in Workers /\ wireOut \in Seq(Pieces) /\ ReadInOrder
      /\ turnRow \in {"in_flight", "answered", "given_back"}
  BY DEF StreamInv, StreamTypeOK
<1> DEFINE Ways == {"failing", "aborting", "closed", "aborted", "dead"}
<1>1. \E p \in Ways :
         /\ worker' = [worker EXCEPT !.phase = p] /\ worker.phase # "closed"
         /\ UNCHANGED <<dialect, script, reader, wireOut>>
         /\ \/ UNCHANGED <<source, wire>>
            \/ source = "open" /\ source' = "broken" /\ wire' = <<>>
         /\ \/ UNCHANGED <<turnRow, replay>>
            \/ turnRow = "in_flight" /\ turnRow' = "given_back" /\ UNCHANGED replay
            \/ worker.phase = "settling" /\ SettleTurn /\ UNCHANGED source
         /\ p = "closed" => turnRow' # "in_flight"
  <2>1. CASE ProviderBreaks
    BY <2>1 DEF ProviderBreaks
  <2>2. CASE SettleLost
    BY <2>2 DEF SettleLost
  <2>3. CASE FailAcked
    BY <1>0, <2>3 DEF FailAcked, GiveBack
  <2>4. CASE FailLost
    BY <1>0, <2>4 DEF FailLost, GiveBack
  <2>5. CASE WorkerEvicted
    BY <2>5 DEF WorkerEvicted
  <2>6. CASE LossNoticed
    BY <2>6 DEF LossNoticed
  <2> QED
    BY <2>1, <2>2, <2>3, <2>4, <2>5, <2>6
<1>2. PICK p \in Ways :
         /\ worker' = [worker EXCEPT !.phase = p] /\ worker.phase # "closed"
         /\ UNCHANGED <<dialect, script, reader, wireOut>>
         /\ \/ UNCHANGED <<source, wire>>
            \/ source = "open" /\ source' = "broken" /\ wire' = <<>>
         /\ \/ UNCHANGED <<turnRow, replay>>
            \/ turnRow = "in_flight" /\ turnRow' = "given_back" /\ UNCHANGED replay
            \/ worker.phase = "settling" /\ SettleTurn /\ UNCHANGED source
         /\ p = "closed" => turnRow' # "in_flight"
  BY <1>1
<1>3. worker'.full = worker.full /\ worker'.error = worker.error
  BY <1>0, <1>2 DEF Workers
<1>4. ReadInOrder'
  BY <1>0, <1>2, <1>3, ReadingGoesOn
<1> QED
  BY <1>0, <1>2, <1>4, WorkerMoves

LEMMA SettleAckedKeeps == ASSUME StreamInv, SettleAcked PROVE StreamInv'
<1>0. worker \in Workers /\ wireOut \in Seq(Pieces) /\ reader \in Readers /\ ReadInOrder /\ SettlesTheWhole
  BY DEF StreamInv, StreamTypeOK
<1>1. /\ worker.phase = "settling" /\ turnRow' = "answered" /\ replay' = worker.full /\ SettleTurn
      /\ UNCHANGED <<dialect, source, script, wire, reader>>
  BY DEF SettleAcked, SettleTurn
<1>2. CASE reader.result = "lost"
  <2>1. worker' = [worker EXCEPT !.phase = "aborting"] /\ UNCHANGED wireOut
    BY <1>2 DEF SettleAcked
  <2>2. worker'.full = worker.full /\ worker'.error = worker.error
    BY <1>0, <2>1 DEF Workers
  <2>3. ReadInOrder'
    BY <1>0, <1>1, <2>1, <2>2, ReadingGoesOn
  <2> QED
    BY <1>0, <1>1, <2>1, <2>3, WorkerMoves
<1>3. CASE reader.result # "lost"
  <2> DEFINE L == Len(worker.full)
             e == [event |-> "done", what |-> worker.full]
  <2>1. worker' = [worker EXCEPT !.phase = "closed"] /\ wireOut' = wireOut \o Cells(e)
    BY <1>3 DEF SettleAcked, Says
  <2>2. /\ worker' \in Workers /\ worker'.full = worker.full /\ worker'.error = worker.error
        /\ worker'.phase = "closed" /\ worker.full \in Numbers /\ L \in Nat
    BY <1>0, <2>1 DEF Workers, Numbers
  <2>3. ~worker.error
    BY <1>0, <1>1 DEF SettlesTheWhole, IsWhole
  <2>4. e \in PageEvents /\ Cells(e) \in Seq(Pieces)
    <3>1. e \in PageEvents
      BY <2>2 DEF PageEvents
    <3> QED
      BY <3>1, CellsTyped DEF Pieces
  <2>5. wireOut' \in Seq(Pieces)
    BY <1>0, <2>1, <2>4, ConcatProperties
  <2>6. ReadInOrder'
    <3>1. Spoken(worker') = Spoken(worker)
      BY <2>2 DEF Spoken
    <3>2. Spoken(worker')[L + 1] = e
      BY <2>2, <2>3 DEF Spoken
    <3>3. \A r \in 0..L : HasRead(reader, worker, r) => HasRead(reader, worker', r)
      BY <2>2 DEF HasRead
    <3>4. ReadsOn(worker, wireOut) /\ worker.phase # "closed"
      BY <1>0, <1>1 DEF ReadInOrder
    <3>5. \A i \in 1..L : Spoken(worker')[i] = Spoken(worker)[i]
      BY <3>1
    <3> HIDE DEF e
    <3>6. reader.result = "none" =>
            \E r \in Nat :
               /\ r <= L + 1 /\ HasRead(reader, worker', r)
               /\ Framed(reader.buffer \o (wireOut \o Cells(e)), r, Spoken(worker'))
               /\ Len(reader.buffer \o (wireOut \o Cells(e))) = 3 * ((L + 1) - r)
      BY <1>0, <2>2, <2>3, <2>4, <3>2, <3>3, <3>4, <3>5, SaysMore
    <3>7. PICK N \in Nat : N = L + 1
      BY <2>2
    <3>8. reader' = reader
      BY <1>1
    <3>9. \A r : HasRead(reader, worker', r) => HasRead(reader, worker, r)'
      BY <3>8 DEF HasRead
    <3>10. Spoken(worker)' = Spoken(worker')
      BY DEF Spoken
    <3> HIDE DEF L
    <3> DEFINE out == wireOut \o Cells(e)
    <3>11. Told(worker, N)' /\ wireOut' = out
      BY <1>1, <2>1, <2>2, <2>3, <3>7 DEF Told, L
    <3>12. ASSUME reader.result = "none"
           PROVE  \E r \in Nat :
               /\ r <= N /\ HasRead(reader, worker, r)'
               /\ Framed(reader.buffer \o out, r, Spoken(worker)')
               /\ Len(reader.buffer \o out) = 3 * (N - r)
      BY <3>6, <3>7, <3>9, <3>10, <3>12
    <3> HIDE DEF out
    <3>13. ReadInOrder' = (reader'.result = "none" =>
        \E r, n \in Nat :
            /\ Told(worker, n)' /\ r <= n /\ HasRead(reader, worker, r)'
            /\ Framed(reader'.buffer \o wireOut', r, Spoken(worker)')
            /\ Len(reader'.buffer \o wireOut') = 3 * (n - r))
      BY DEF ReadInOrder, ReadsOn, Framed
    <3>14. ASSUME reader.result = "none"
           PROVE  \E r, n \in Nat :
            /\ Told(worker, n)' /\ r <= n /\ HasRead(reader, worker, r)'
            /\ Framed(reader.buffer \o out, r, Spoken(worker)')
            /\ Len(reader.buffer \o out) = 3 * (n - r)
      <4>1. PICK r \in Nat :
               /\ r <= N /\ HasRead(reader, worker, r)'
               /\ Framed(reader.buffer \o out, r, Spoken(worker)')
               /\ Len(reader.buffer \o out) = 3 * (N - r)
        BY <3>12, <3>14
      <4> QED
        BY <3>11, <4>1
    <3>15. reader'.result = reader.result /\ reader'.buffer \o wireOut' = reader.buffer \o out
      BY <3>8, <3>11
    <3> QED
      BY <3>13, <3>14, <3>15
  <2> QED
    BY <1>0, <1>1, <2>1, <2>5, <2>6, WorkerMoves
<1> QED
  BY <1>2, <1>3

\* What follows for the others from what the transform does.
LEMMA HandlingKeeps ==
  ASSUME StreamInv, worker.phase = "open", NEW t, NEW k \in 0..Len(script), HeardAt(t, k),
         worker' \in Workers, worker'.full = t.holds.full, worker'.error = t.holds.error,
         worker'.terminal = t.holds.terminal,
         \/ worker'.phase = "open"
         \/ worker'.phase = "failing"
         \/ worker'.phase = "settling" /\ k = Len(script) /\ source = "ended" /\ IsWhole(worker'),
         wireOut' = t.sent, wire' \in Seq(Parts),
         UNCHANGED <<dialect, source, script, reader, turnRow, replay>>
  PROVE  /\ HeardInOrder' => StreamInv'
         /\ Heard(worker', k)
<1>0. /\ StreamTypeOK /\ FramesAreNumbered /\ HeardInOrder /\ SettlesTheWhole
      /\ ReadInOrder /\ AnsweredAtTheEnd /\ StoredIsWhole /\ AnswerIsTheReplay /\ ClosedIsFree
  BY DEF StreamInv
<1>1. t \in Transforms /\ t.holds.phase = "open" /\ Heard(t.holds, k) /\ ReadsOn(t.holds, t.sent)
  BY DEF HeardAt
<1>2. Heard(worker', k)
  BY <1>1 DEF Heard
<1>3. StreamTypeOK'
  BY <1>0, <1>1 DEF StreamTypeOK, Transforms
<1>4. SettlesTheWhole'
  <2>1. SettlesTheWhole' = (worker'.phase = "settling" => source' = "ended" /\ Heard(worker', Len(script)) /\ IsWhole(worker'))
    BY DEF SettlesTheWhole, Heard, IsWhole
  <2> QED
    BY <1>2, <2>1
<1>5. ReadInOrder'
  <2>1. Spoken(worker)' = Spoken(t.holds)
    BY DEF Spoken
  <2>2. \A n : Told(t.holds, n) => Told(worker, n)'
    BY <1>1 DEF Told
  <2>3. \A r : HasRead(reader, t.holds, r) => HasRead(reader, worker, r)'
    BY DEF HasRead
  <2> QED
    BY <1>1, <2>1, <2>2, <2>3 DEF ReadInOrder, ReadsOn
<1>6. FramesAreNumbered' /\ AnsweredAtTheEnd' /\ StoredIsWhole' /\ AnswerIsTheReplay'
  BY <1>0 DEF FramesAreNumbered, AnsweredAtTheEnd, StoredIsWhole, HoldsEveryText, AnswerIsTheReplay
<1>7. ClosedIsFree'
  BY <1>0 DEF ClosedIsFree
<1> QED
  BY <1>2, <1>3, <1>4, <1>5, <1>6, <1>7 DEF StreamInv

LEMMA BeforeHandling ==
  ASSUME StreamInv, worker.phase = "open"
  PROVE  \E k \in 0..Len(script) :
            /\ HeardAt(Transform, k) /\ Framed(Unheard, k, script)
            /\ Len(Unheard) \in (3 * (Len(script) - k) - 1)..(3 * (Len(script) - k) + 1)
            /\ source = "open" => Len(Unheard) = 3 * (Len(script) - k)
<1>1. Transform \in Transforms /\ Transform.holds = worker /\ Transform.sent = wireOut
  BY DEF StreamInv, StreamTypeOK, Transform, Transforms
<1>2. ReadsOn(worker, wireOut)
  BY DEF StreamInv, ReadInOrder
<1>3. PICK k \in 0..Len(script) :
            /\ Heard(worker, k) /\ Framed(Unheard, k, script)
            /\ Len(Unheard) \in (3 * (Len(script) - k) - 1)..(3 * (Len(script) - k) + 1)
            /\ source = "open" => Len(Unheard) = 3 * (Len(script) - k)
  BY DEF StreamInv, HeardInOrder
<1>4. HeardAt(Transform, k)
  BY <1>1, <1>2, <1>3 DEF HeardAt
<1> QED
  BY <1>3, <1>4

\* A sequence is its two halves.
LEMMA Halves ==
  ASSUME NEW S, NEW s \in Seq(S), NEW n \in Nat, n <= Len(s)
  PROVE  /\ SubSeq(s, 1, n) \in Seq(S) /\ SubSeq(s, n + 1, Len(s)) \in Seq(S)
         /\ SubSeq(s, 1, n) \o SubSeq(s, n + 1, Len(s)) = s
<1>1. Len(s) \in Nat /\ \A i \in 1..Len(s) : s[i] \in S
  OBVIOUS
<1>2. SubSeq(s, 1, n) \in Seq(S)
  <2>1. \A i \in 1..n : s[i] \in S
    BY <1>1
  <2> QED
    BY <2>1, SubSeqProperties
<1>3. SubSeq(s, n + 1, Len(s)) \in Seq(S)
  <2>1. n + 1 \in Int /\ Len(s) \in Int /\ \A i \in (n + 1)..Len(s) : s[i] \in S
    BY <1>1
  <2> QED
    BY <2>1, SubSeqProperties
<1>4. SubSeq(s, 1, n) \o SubSeq(s, n + 1, Len(s)) = SubSeq(s, 1, Len(s))
  <2>1. 1 \in 1..(Len(s) + 1) /\ n \in 0..Len(s) /\ 1 - 1 = 0 /\ Len(s) \in n..Len(s)
    BY <1>1
  <2>2. n \in (1 - 1)..Len(s)
    BY <2>1
  <2> QED
    BY <2>1, <2>2, ConcatAdjacentSubSeq
<1> QED
  BY <1>2, <1>3, <1>4, SubSeqFull

LEMMA ChunkKeeps == ASSUME StreamInv, NEW n \in Nat, Chunk(n) PROVE StreamInv'
<1> DEFINE a == worker.buffer \o SubSeq(wire, 1, n)
           b == SubSeq(wire, n + 1, Len(wire))
           t == HearsAll(Ready(a))
<1>0. /\ worker.phase = "open" /\ n <= Len(wire) /\ worker' = [t.holds EXCEPT !.buffer = Left(a)]
      /\ wire' = b /\ wireOut' = t.sent
      /\ UNCHANGED <<dialect, source, script, reader, turnRow, replay>>
  BY DEF Chunk
<1>1. /\ StreamTypeOK /\ FramesAreNumbered /\ HeardInOrder /\ worker.buffer \in Seq(Parts) /\ wire \in Seq(Parts)
      /\ Len(script) \in Nat
  BY DEF StreamInv, StreamTypeOK, Workers
<1>2. SubSeq(wire, 1, n) \in Seq(Parts) /\ b \in Seq(Parts) /\ SubSeq(wire, 1, n) \o b = wire
  BY <1>0, <1>1, Halves
<1> HIDE DEF b
<1>3. a \in Seq(Parts) /\ a \o b = Unheard
  <2>1. a \in Seq(Parts)
    BY <1>1, <1>2, ConcatProperties
  <2>2. (worker.buffer \o SubSeq(wire, 1, n)) \o b = worker.buffer \o (SubSeq(wire, 1, n) \o b)
    <3>1. PICK s1, s2, s3 : s1 = worker.buffer /\ s2 = SubSeq(wire, 1, n) /\ s3 = b
      OBVIOUS
    <3>2. s1 \in Seq(Parts) /\ s2 \in Seq(Parts) /\ s3 \in Seq(Parts)
      BY <1>1, <1>2, <3>1
    <3>3. (s1 \o s2) \o s3 = s1 \o (s2 \o s3)
      BY <3>2, Regroup
    <3> QED
      BY <3>1, <3>3
  <2> QED
    BY <1>2, <2>1, <2>2, Zenon DEF Unheard
<1> HIDE DEF a, t
<1>4. PICK k \in 0..Len(script) :
            /\ HeardAt(Transform, k) /\ Framed(Unheard, k, script)
            /\ Len(Unheard) \in (3 * (Len(script) - k) - 1)..(3 * (Len(script) - k) + 1)
            /\ source = "open" => Len(Unheard) = 3 * (Len(script) - k)
  BY <1>0, BeforeHandling
<1>5. k \in Nat
  BY <1>1
<1>6. PICK m \in Nat :
            /\ Ready(a) \in Seq(Parts) /\ Len(Ready(a)) = 3 * m /\ Framed(Ready(a), k, script)
            /\ Left(a) \in Seq(Parts) /\ 3 * m <= Len(a)
            /\ Framed(Left(a) \o b, k + m, script) /\ Len(Left(a) \o b) = Len(Unheard) - 3 * m
  <2>1. Framed(a \o b, k, script)
    BY <1>3, <1>4
  <2>2. PICK x, y, F : x = a /\ y = b /\ F = script
    OBVIOUS
  <2>3. x \in Seq(Parts) /\ y \in Seq(Parts) /\ Framed(x \o y, k, F)
    BY <1>2, <1>3, <2>1, <2>2
  <2>4. PICK m \in Nat : CutAt(x, y, Parts, k, F, m)
    BY <1>5, <2>3, CutKeepsFrames
  <2>5. CutAt(a, b, Parts, k, F, m) /\ F = script
    BY <2>2, <2>4
  <2> WITNESS m \in Nat
  <2> QED
    BY <1>3, <2>5 DEF CutAt
<1>7. k + m \in 0..Len(script) /\ k + m <= Len(script) /\ Len(Left(a) \o b) \in Nat /\ Len(Unheard) \in Nat
  <2>1. Len(Left(a) \o b) \in Nat /\ Len(Unheard) \in Nat
    <3>1. Left(a) \o b \in Seq(Parts) /\ Unheard \in Seq(Parts)
      BY <1>1, <1>2, <1>6, ConcatProperties DEF Unheard
    <3> QED
      BY <3>1
  <2>2. 3 * m <= 3 * (Len(script) - k) + 1
    BY <1>1, <1>4, <1>5, <1>6, <2>1
  <2> QED
    BY <1>1, <1>4, <1>5, <2>1, <2>2
<1>8. HeardAt(t, k + m)
  <2>1. 3 * m - 1 <= Len(Ready(a)) /\ Len(Ready(a)) <= 3 * m + 1
    BY <1>6
  <2> QED
    BY <1>1, <1>4, <1>5, <1>6, <1>7, <2>1, HearsCells DEF t
<1>9. t.holds \in Workers /\ t.holds.phase = "open"
  BY <1>8 DEF HeardAt, Transforms
<1>10. /\ worker' \in Workers /\ worker'.full = t.holds.full /\ worker'.error = t.holds.error
       /\ worker'.terminal = t.holds.terminal /\ worker'.phase = "open" /\ worker'.buffer = Left(a)
  BY <1>0, <1>6, <1>9 DEF Workers
<1>11. (HeardInOrder' => StreamInv') /\ Heard(worker', k + m)
  BY <1>0, <1>2, <1>7, <1>8, <1>10, HandlingKeeps
<1>12. Unheard' = Left(a) \o b
  BY <1>0, <1>10 DEF Unheard
<1>13. HeardInOrder'
  <2>1. Heard(worker, k + m)'
    BY <1>0, <1>11 DEF Heard
  <2>2. Framed(Unheard', k + m, script')
    BY <1>0, <1>6, <1>12
  <2>3. /\ Len(Unheard') \in (3 * (Len(script) - (k + m)) - 1)..(3 * (Len(script) - (k + m)) + 1)
        /\ source = "open" => Len(Unheard') = 3 * (Len(script) - (k + m))
    <3> DEFINE d == 3 * (Len(script) - k)
               d1 == 3 * (Len(script) - (k + m))
               g == 3 * m
    <3>1. d \in Int /\ g \in Int /\ d1 = d - g
      BY <1>1, <1>4, <1>5
    <3>2. /\ Len(Unheard') = Len(Unheard) - g /\ Len(Unheard) \in Nat
          /\ Len(Unheard) \in (d - 1)..(d + 1) /\ (source = "open" => Len(Unheard) = d)
      BY <1>4, <1>6, <1>7, <1>12
    <3> HIDE DEF d, d1, g
    <3>3. Len(Unheard') \in (d1 - 1)..(d1 + 1) /\ (source = "open" => Len(Unheard') = d1)
      BY <3>1, <3>2
    <3> QED
      BY <3>3 DEF d1
  <2>4. source # "broken"
    BY <1>0, <1>1 DEF HeardInOrder
  <2> QED
    BY <1>0, <1>7, <2>1, <2>2, <2>3, <2>4 DEF HeardInOrder
<1> QED
  BY <1>11, <1>13

LEMMA BodyEndsKeeps == ASSUME StreamInv, BodyEnds PROVE StreamInv'
<1> DEFINE a == worker.buffer
           t == HearsAll(a)
           p == IF IsWhole(t.holds) THEN "settling" ELSE "failing"
<1>0. /\ worker.phase = "open" /\ source = "ended" /\ wire = <<>>
      /\ worker' = [t.holds EXCEPT !.buffer = <<>>, !.phase = p] /\ wireOut' = t.sent
      /\ UNCHANGED <<dialect, source, script, wire, reader, turnRow, replay>>
  BY DEF BodyEnds
<1>1. /\ StreamTypeOK /\ FramesAreNumbered /\ a \in Seq(Parts) /\ wire \in Seq(Parts)
      /\ Len(script) \in Nat
  BY DEF StreamInv, StreamTypeOK, Workers
<1>2. Unheard = a
  BY <1>0, <1>1, ConcatEmptySeq DEF Unheard
<1> HIDE DEF a, t
<1>3. PICK k \in 0..Len(script) :
            /\ HeardAt(Transform, k) /\ Framed(a, k, script)
            /\ Len(a) \in (3 * (Len(script) - k) - 1)..(3 * (Len(script) - k) + 1)
  BY <1>0, <1>2, BeforeHandling
<1> DEFINE q == Len(script) - k
<1>4. k \in Nat /\ q \in Nat /\ k + q = Len(script) /\ 3 * q - 1 <= Len(a) /\ Len(a) <= 3 * q + 1
      /\ Len(script) \in 0..Len(script)
  BY <1>1, <1>3
<1> HIDE DEF q
<1>5. HeardAt(t, Len(script))
  <2>1. k + q <= Len(script)
    BY <1>1, <1>4
  <2> QED
    BY <1>1, <1>3, <1>4, <2>1, HearsCells DEF t
<1>6. t.holds \in Workers
  BY <1>5 DEF HeardAt, Transforms
<1>7. /\ worker' \in Workers /\ worker'.full = t.holds.full /\ worker'.error = t.holds.error
      /\ worker'.terminal = t.holds.terminal /\ worker'.phase = p
  <2>1. p \in {"settling", "failing"} /\ <<>> \in Seq(Parts)
    OBVIOUS
  <2> HIDE DEF p
  <2>2. worker' \in Workers
    BY <1>0, <1>6, <2>1 DEF Workers
  <2>3. worker'.full = t.holds.full /\ worker'.error = t.holds.error
        /\ worker'.terminal = t.holds.terminal /\ worker'.phase = p
    BY <1>0, <1>6 DEF Workers
  <2> QED
    BY <2>2, <2>3
<1>8. p = "settling" => IsWhole(worker')
  BY <1>7 DEF IsWhole
<1>9. p = "settling" \/ p = "failing"
  OBVIOUS
<1> HIDE DEF p
<1>10. HeardInOrder' => StreamInv'
  BY <1>0, <1>1, <1>4, <1>5, <1>7, <1>8, <1>9, HandlingKeeps
<1>11. HeardInOrder'
  BY <1>7, <1>9 DEF HeardInOrder
<1> QED
  BY <1>10, <1>11

\* The page moves; the worker and the turn stay.
LEMMA PageMoves ==
  ASSUME StreamInv, reader' \in Readers, wireOut' \in Seq(Pieces),
         UNCHANGED <<dialect, source, script, wire, worker, turnRow, replay>>,
         reader'.result \in {"ok", "failed"} => worker.phase = "closed",
         AnswerIsTheReplay', ReadInOrder'
  PROVE  StreamInv'
<1>0. /\ StreamTypeOK /\ FramesAreNumbered /\ HeardInOrder /\ SettlesTheWhole
      /\ AnsweredAtTheEnd /\ StoredIsWhole /\ ClosedIsFree
  BY DEF StreamInv
<1>1. StreamTypeOK'
  BY <1>0 DEF StreamTypeOK
<1>2. FramesAreNumbered' /\ AnsweredAtTheEnd' /\ StoredIsWhole'
  BY <1>0 DEF FramesAreNumbered, AnsweredAtTheEnd, StoredIsWhole, HoldsEveryText
<1>3. HeardInOrder'
  <2>1. Unheard' = Unheard
    BY DEF Unheard
  <2>2. \A k : Heard(worker, k) => Heard(worker, k)'
    BY DEF Heard
  <2> QED
    BY <1>0, <2>1, <2>2 DEF HeardInOrder
<1>4. SettlesTheWhole'
  BY <1>0 DEF SettlesTheWhole, Heard, IsWhole
<1>5. ClosedIsFree'
  BY <1>0 DEF ClosedIsFree
<1> QED
  BY <1>1, <1>2, <1>3, <1>4, <1>5 DEF StreamInv

LEMMA PageStops == ASSUME StreamInv, ReadRejected \/ PageLost PROVE StreamInv'
<1> DEFINE x == reader'.result
<1>1. /\ reader' \in Readers /\ x \in {"network", "lost"} /\ wireOut' = <<>>
      /\ UNCHANGED <<dialect, source, script, wire, worker, turnRow, replay>>
  BY DEF ReadRejected, PageLost, StreamInv, StreamTypeOK, Readers
<1>2. wireOut' \in Seq(Pieces)
  BY <1>1
<1>3. AnswerIsTheReplay' /\ ReadInOrder'
  BY <1>1 DEF AnswerIsTheReplay, ReadInOrder, ReadsOn
<1> QED
  BY <1>1, <1>2, <1>3, PageMoves

LEMMA PageReadsKeeps == ASSUME StreamInv, NEW n \in Nat, PageReads(n) PROVE StreamInv'
<1> DEFINE a == reader.buffer \o SubSeq(wireOut, 1, n)
           b == SubSeq(wireOut, n + 1, Len(wireOut))
           rd == ReadsAll(Ready(a))
<1>0. /\ reader.result = "none" /\ n <= Len(wireOut) /\ reader' = [rd EXCEPT !.buffer = Left(a)]
      /\ wireOut' = b
      /\ UNCHANGED <<dialect, source, script, wire, worker, turnRow, replay>>
  BY DEF PageReads, Reading
<1>1. /\ reader \in Readers /\ worker \in Workers /\ reader.buffer \in Seq(Pieces) /\ wireOut \in Seq(Pieces)
      /\ ReadInOrder
  BY DEF StreamInv, StreamTypeOK, Readers
<1>2. SubSeq(wireOut, 1, n) \in Seq(Pieces) /\ b \in Seq(Pieces) /\ SubSeq(wireOut, 1, n) \o b = wireOut
  BY <1>0, <1>1, Halves
<1> HIDE DEF b
<1>3. a \in Seq(Pieces) /\ a \o b = reader.buffer \o wireOut
  <2>1. a \in Seq(Pieces)
    BY <1>1, <1>2, ConcatProperties
  <2>2. (reader.buffer \o SubSeq(wireOut, 1, n)) \o b = reader.buffer \o (SubSeq(wireOut, 1, n) \o b)
    <3>1. PICK s1, s2, s3 : s1 = reader.buffer /\ s2 = SubSeq(wireOut, 1, n) /\ s3 = b
      OBVIOUS
    <3>2. s1 \in Seq(Pieces) /\ s2 \in Seq(Pieces) /\ s3 \in Seq(Pieces)
      BY <1>1, <1>2, <3>1
    <3>3. (s1 \o s2) \o s3 = s1 \o (s2 \o s3)
      BY <3>2, Regroup
    <3> QED
      BY <3>1, <3>3
  <2> QED
    BY <1>2, <2>1, <2>2, Zenon
<1> HIDE DEF a, rd
<1>4. PICK r, l \in Nat :
            /\ Told(worker, l) /\ r <= l /\ HasRead(reader, worker, r)
            /\ Framed(a \o b, r, Spoken(worker)) /\ Len(a \o b) = 3 * (l - r)
  BY <1>0, <1>1, <1>3 DEF ReadInOrder, ReadsOn
<1>5. PICK m \in Nat :
            /\ Ready(a) \in Seq(Pieces) /\ Len(Ready(a)) = 3 * m /\ Framed(Ready(a), r, Spoken(worker))
            /\ Left(a) \in Seq(Pieces) /\ 3 * m <= Len(a)
            /\ Framed(Left(a) \o b, r + m, Spoken(worker)) /\ Len(Left(a) \o b) = Len(a \o b) - 3 * m
  <2>1. a \in Seq(Pieces) /\ b \in Seq(Pieces) /\ r \in Nat /\ Framed(a \o b, r, Spoken(worker))
    BY <1>2, <1>3, <1>4
  <2>2. PICK x, y, F : x = a /\ y = b /\ F = Spoken(worker)
    OBVIOUS
  <2>3. x \in Seq(Pieces) /\ y \in Seq(Pieces) /\ Framed(x \o y, r, F)
    BY <2>1, <2>2
  <2>4. PICK m \in Nat : CutAt(x, y, Pieces, r, F, m)
    BY <2>1, <2>3, CutKeepsFrames
  <2>5. CutAt(a, b, Pieces, r, F, m) /\ F = Spoken(worker)
    BY <2>2, <2>4
  <2> WITNESS m \in Nat
  <2> QED
    BY <2>5 DEF CutAt
<1>6. r + m <= l /\ Len(Left(a) \o b) = 3 * (l - (r + m)) /\ r + m \in Nat
  <2>1. Len(Left(a) \o b) \in Nat
    <3>1. Left(a) \o b \in Seq(Pieces)
      BY <1>2, <1>5, ConcatProperties
    <3> QED
      BY <3>1
  <2> QED
    BY <1>4, <1>5, <2>1
<1>7. rd \in Readers /\ rd.result = "none" /\ HasRead(rd, worker, r + m)
  BY <1>0, <1>1, <1>4, <1>5, <1>6, ReadsCells DEF rd
<1>8. /\ reader' \in Readers /\ reader'.result = "none" /\ reader'.shown = rd.shown
      /\ reader'.final = rd.final /\ reader'.buffer = Left(a)
  BY <1>0, <1>5, <1>7 DEF Readers
<1>9. ReadInOrder'
  <2>1. Spoken(worker)' = Spoken(worker)
    BY <1>0 DEF Spoken
  <2>2. Told(worker, l)'
    BY <1>0, <1>4 DEF Told
  <2>3. HasRead(reader, worker, r + m)'
    BY <1>0, <1>7, <1>8 DEF HasRead
  <2> QED
    BY <1>0, <1>5, <1>6, <1>8, <2>1, <2>2, <2>3 DEF ReadInOrder, ReadsOn
<1>10. AnswerIsTheReplay'
  BY <1>8 DEF AnswerIsTheReplay
<1> QED
  BY <1>0, <1>2, <1>8, <1>9, <1>10, PageMoves

LEMMA PageEndsKeeps == ASSUME StreamInv, PageEnds PROVE StreamInv'
<1> DEFINE a == reader.buffer
           rd == ReadsAll(a)
           x == IF ~rd.error /\ rd.final # NoReply THEN "ok" ELSE "failed"
<1>0. /\ reader.result = "none" /\ worker.phase = "closed" /\ wireOut = <<>>
      /\ reader' = [rd EXCEPT !.buffer = <<>>, !.result = x]
      /\ UNCHANGED <<dialect, source, script, wire, worker, wireOut, turnRow, replay>>
  BY DEF PageEnds, Reading
<1>1. /\ reader \in Readers /\ worker \in Workers /\ a \in Seq(Pieces) /\ wireOut \in Seq(Pieces)
      /\ ReadInOrder /\ worker.full \in Numbers
  BY DEF StreamInv, StreamTypeOK, Readers, Workers
<1>2. a \o wireOut = a
  BY <1>0, <1>1, ConcatEmptySeq
<1>3. PICK r, l \in Nat :
            /\ Told(worker, l) /\ r <= l /\ HasRead(reader, worker, r)
            /\ Framed(a, r, Spoken(worker)) /\ Len(a) = 3 * (l - r)
  BY <1>0, <1>1, <1>2 DEF ReadInOrder, ReadsOn
<1> HIDE DEF rd
<1> DEFINE q == l - r
<1>4. q \in Nat /\ r + q = l /\ Len(a) = 3 * q
  BY <1>3
<1> HIDE DEF q
<1>5. rd \in Readers /\ HasRead(rd, worker, l)
  <2>1. r + q <= l
    BY <1>3, <1>4
  <2> QED
    BY <1>1, <1>3, <1>4, <2>1, ReadsCells DEF rd
<1>6. /\ reader' \in Readers /\ reader'.result = x /\ reader'.shown = rd.shown /\ reader'.final = rd.final
  <2>1. x \in {"ok", "failed"} /\ <<>> \in Seq(Pieces)
    OBVIOUS
  <2> HIDE DEF x
  <2>2. reader' \in Readers
    BY <1>0, <1>5, <2>1 DEF Readers
  <2>3. reader'.result = x /\ reader'.shown = rd.shown /\ reader'.final = rd.final
    BY <1>0, <1>5 DEF Readers
  <2> QED
    BY <2>2, <2>3
<1>7. AnswerIsTheReplay'
  <2> SUFFICES ASSUME x = "ok"
               PROVE  turnRow = "answered" /\ rd.final = replay /\ rd.shown = replay
    BY <1>0, <1>6 DEF AnswerIsTheReplay
  <2>1. rd.final # NoReply
    OBVIOUS
  <2>2. l = Len(worker.full) + 1 /\ ~worker.error /\ rd.final = worker.full
    BY <1>5, <2>1 DEF HasRead
  <2>3. turnRow = "answered" /\ replay = worker.full
    <3>1. l # Len(worker.full)
      BY <1>1, <2>2 DEF Numbers
    <3> QED
      BY <1>3, <2>2, <3>1 DEF Told
  <2>4. rd.shown = worker.full
    <3>1. ~(l <= Len(worker.full))
      BY <1>1, <2>2 DEF Numbers
    <3>2. Len(rd.shown) = Len(worker.full) /\ \A i \in 1..Len(rd.shown) : rd.shown[i] = worker.full[i]
      BY <1>5, <3>1 DEF HasRead
    <3>3. rd.shown \in Numbers
      BY <1>5 DEF Readers
    <3> QED
      BY <1>1, <3>2, <3>3, SeqEqual DEF Numbers
  <2> QED
    BY <2>2, <2>3, <2>4
<1>8. ReadInOrder'
  <2>1. reader'.result # "none"
    BY <1>6
  <2> QED
    BY <2>1 DEF ReadInOrder, ReadsOn
<1> QED
  BY <1>0, <1>1, <1>6, <1>7, <1>8, PageMoves

LEMMA StepKeepsStream == StreamInv /\ [StreamNext]_streamVars => StreamInv'
<1> SUFFICES ASSUME StreamInv, [StreamNext]_streamVars PROVE StreamInv'
  OBVIOUS
<1>1. ASSUME NEW marks \in dialect,
             ProviderWrites(marks) \/ \E cells \in 0..2 : ProviderEnds(cells, marks)
      PROVE  StreamInv'
  BY <1>1, ProviderKeeps
<1>2. ASSUME NEW n \in 1..(3 * LastFrame), Chunk(n) \/ PageReads(n) PROVE StreamInv'
  <2>1. n \in Nat
    OBVIOUS
  <2> QED
    BY <1>2, <2>1, ChunkKeeps, PageReadsKeeps
<1>3. CASE ProviderBreaks \/ SettleLost \/ FailAcked \/ FailLost \/ WorkerEvicted \/ LossNoticed
  BY <1>3, WorkerStops
<1>4. CASE BodyEnds
  BY <1>4, BodyEndsKeeps
<1>5. CASE SettleAcked
  BY <1>5, SettleAckedKeeps
<1>6. CASE PageEnds
  BY <1>6, PageEndsKeeps
<1>7. CASE ReadRejected \/ PageLost
  BY <1>7, PageStops
<1>8. CASE UNCHANGED streamVars
  <2>1. /\ UNCHANGED <<dialect, source, script, wire, worker, turnRow, replay>>
        /\ UNCHANGED <<wireOut, reader>>
    BY <1>8 DEF streamVars
  <2>2. /\ reader' \in Readers /\ wireOut' \in Seq(Pieces) /\ ReadInOrder /\ AnswerIsTheReplay
        /\ reader.result \in {"ok", "failed"} => worker.phase = "closed"
    BY <2>1 DEF StreamInv, StreamTypeOK, ClosedIsFree
  <2>3. ReadInOrder'
    BY <2>1, <2>2, ReadingGoesOn
  <2>4. AnswerIsTheReplay'
    BY <2>1, <2>2 DEF AnswerIsTheReplay
  <2> QED
    BY <2>1, <2>2, <2>3, <2>4, PageMoves
<1> QED
  BY <1>1, <1>2, <1>3, <1>4, <1>5, <1>6, <1>7, <1>8 DEF StreamNext

LEMMA StreamInvSuffices == StreamInv => StreamTypeOK /\ StreamIsHonest
<1> SUFFICES ASSUME StreamInv PROVE StreamTypeOK /\ StreamIsHonest
  OBVIOUS
<1>1. RetryFindsTurnFree
  BY DEF StreamInv, ClosedIsFree, RetryFindsTurnFree
<1> QED
  BY <1>1 DEF StreamInv, StreamIsHonest

\* Wherever a stream is cut, and whatever breaks: what the page takes for an answer is what it
\* rendered and what a replay gives, a stored answer is whole, and a failure the page retries
\* by itself finds the turn free (chat-stream.js, index.js, chat.js).
THEOREM StreamHolds == StreamSpec => [](StreamTypeOK /\ StreamIsHonest)
<1>1. StreamInv => StreamTypeOK /\ StreamIsHonest
  BY StreamInvSuffices
<1> QED
  BY <1>1, InitStream, StepKeepsStream, PTL DEF StreamSpec

=============================================================================
