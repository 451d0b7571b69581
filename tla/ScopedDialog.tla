---------------------------- MODULE ScopedDialog ----------------------------
(***************************************************************************)
(* The dialog "Ask for a bigger change" of app/editor/editor.js, with its  *)
(* draft in web storage, and POST /edit/v1/scoped-request with the         *)
(* confirmation of scoped-confirmation.js and the insert of the store.     *)
(*                                                                         *)
(* A payload is a level and a wording. A confirmation token is the payload *)
(* it was signed for, and may expire at any time. The radius of a scope is *)
(* whether its level is above the ceiling. Wording checks are left out.    *)
(***************************************************************************)
EXTENDS Naturals, FiniteSets

CONSTANTS
    LastRequest,    \* bound: request ids the browser mints
    LastPhrase,     \* bound: wordings typed
    LastLate,       \* bound: requests on their way that nobody waits for
    Levels, Wide,   \* scope levels, and those above the ceiling
    Nothing

ASSUME DialogAssumption ==
    /\ LastRequest \in Nat /\ LastPhrase \in Nat /\ LastLate \in Nat
    /\ Wide \subseteq Levels

RequestIds == 1..LastRequest
Payloads == [level : Levels, text : 1..LastPhrase]

VARIABLES
    dialog,      \* the open dialog, or Nothing
    dialogDraft, \* its draft in storage, or Nothing
    call,        \* the request whose handler waits in the dialog, or Nothing
    lateCalls,   \* requests nobody waits for any more
    filed,       \* the payload of each row of scoped_requests, or Nothing
    idsUsed,     \* request ids minted
    written,     \* history: payloads written in the dialog
    challenged   \* history: payloads whose radius the editor was shown

dialogVars == <<dialog, dialogDraft, call, lateCalls, filed, idsUsed, written, challenged>>

Dialogs == [id : RequestIds, payload : Payloads, confirmed : BOOLEAN,
            token : Payloads \cup {Nothing}, sent : BOOLEAN]
Calls == [id : RequestIds, payload : Payloads, token : Payloads \cup {Nothing}]

ASSUME NothingAssumption == Nothing \notin Dialogs

DialogInit ==
    /\ dialog = Nothing /\ dialogDraft = Nothing /\ call = Nothing /\ lateCalls = {}
    /\ filed = [i \in RequestIds |-> Nothing]
    /\ idsUsed = 0 /\ written = {} /\ challenged = {}

-----------------------------------------------------------------------------
(* The dialog.                                                             *)

Kept(d) == [id |-> d.id, payload |-> d.payload]
Unconfirmed(id, p) == [id |-> id, payload |-> p, confirmed |-> FALSE, token |-> Nothing, sent |-> FALSE]

\* A kept draft comes back with its id, never with its confirmation.
ReopenDialog ==
    /\ dialog = Nothing /\ dialogDraft # Nothing
    /\ dialog' = Unconfirmed(dialogDraft.id, dialogDraft.payload)
    /\ UNCHANGED <<dialogDraft, call, lateCalls, filed, idsUsed, written, challenged>>

\* Every payload is written once: a request for the same change again is another wish.
OpenDialog ==
    /\ dialog = Nothing /\ dialogDraft = Nothing /\ idsUsed < LastRequest
    /\ \E p \in Payloads \ written :
          /\ dialog' = Unconfirmed(idsUsed + 1, p)
          /\ dialogDraft' = Kept(dialog') /\ written' = written \cup {p}
    /\ idsUsed' = idsUsed + 1
    /\ UNCHANGED <<call, lateCalls, filed, challenged>>

\* resetConfirmation: a confirmation and its id end with the payload they were given
\* for. The fields stay open while a request is under way.
Rewrite(p) ==
    /\ dialog # Nothing /\ p \notin written
    /\ IF dialog.confirmed
       THEN /\ idsUsed < LastRequest /\ idsUsed' = idsUsed + 1
            /\ dialog' = [Unconfirmed(idsUsed + 1, p) EXCEPT !.sent = dialog.sent]
       ELSE dialog' = [dialog EXCEPT !.payload = p] /\ UNCHANGED idsUsed
    /\ dialogDraft' = Kept(dialog') /\ written' = written \cup {p}
    /\ UNCHANGED <<call, lateCalls, filed, challenged>>

Send ==
    /\ dialog # Nothing /\ call = Nothing /\ ~dialog.sent
    /\ call' = [id |-> dialog.id, payload |-> dialog.payload,
                token |-> IF dialog.confirmed THEN dialog.token ELSE Nothing]
    /\ UNCHANGED <<dialog, dialogDraft, lateCalls, filed, idsUsed, written, challenged>>

\* Cancel forgets the draft, Escape keeps it; both wait for the send button. A dialog
\* that was sent closes by itself.
CloseDialog ==
    /\ dialog # Nothing /\ call = Nothing
    /\ dialog' = Nothing
    /\ dialogDraft' \in IF dialog.sent THEN {dialogDraft} ELSE {dialogDraft, Nothing}
    /\ UNCHANGED <<call, lateCalls, filed, idsUsed, written, challenged>>

\* A reload or a crash of the browser.
PageGoes ==
    /\ dialog # Nothing /\ dialog' = Nothing /\ call' = Nothing
    /\ lateCalls' = IF call = Nothing THEN lateCalls ELSE lateCalls \cup {call}
    /\ Cardinality(lateCalls') <= LastLate
    /\ UNCHANGED <<dialogDraft, filed, idsUsed, written, challenged>>

-----------------------------------------------------------------------------
(* The endpoint.                                                           *)

\* verifyScopedConfirmation, for a token that has not expired.
Confirmed(m) == m.token = m.payload
Refused(m) == m.payload.level \in Wide /\ ~Confirmed(m)

\* fileScopedRequest: a known id is answered with the row it has.
Filed(m) ==
    filed' = IF Refused(m) \/ filed[m.id] # Nothing THEN filed ELSE [filed EXCEPT ![m.id] = m.payload]

\* The answer: Sent, with the draft forgotten, ...
Accepted ==
    /\ call # Nothing /\ ~Refused(call) /\ Filed(call)
    /\ dialog' = [dialog EXCEPT !.sent = TRUE] /\ dialogDraft' = Nothing /\ call' = Nothing
    /\ UNCHANGED <<lateCalls, idsUsed, written, challenged>>

\* ... or the radius and a token for it. An expired token is challenged again.
Challenged ==
    /\ call # Nothing /\ call.payload.level \in Wide
    /\ dialog' = [dialog EXCEPT !.confirmed = TRUE, !.token = call.payload]
    /\ challenged' = challenged \cup {call.payload} /\ call' = Nothing
    /\ UNCHANGED <<dialogDraft, lateCalls, filed, idsUsed, written>>

\* No answer: the request was not delivered, is done, or is still on its way.
CallFails ==
    /\ call # Nothing /\ call' = Nothing
    /\ \/ Filed(call) /\ UNCHANGED lateCalls
       \/ Cardinality(lateCalls) < LastLate /\ lateCalls' = lateCalls \cup {call} /\ UNCHANGED filed
       \/ UNCHANGED <<lateCalls, filed>>
    /\ UNCHANGED <<dialog, dialogDraft, idsUsed, written, challenged>>

CallArrives(m) ==
    /\ Filed(m) /\ lateCalls' = lateCalls \ {m}
    /\ UNCHANGED <<dialog, dialogDraft, call, idsUsed, written, challenged>>

DialogNext ==
    \/ OpenDialog \/ ReopenDialog \/ Send \/ CloseDialog \/ PageGoes
    \/ Accepted \/ Challenged \/ CallFails
    \/ \E p \in Payloads : Rewrite(p)
    \/ \E m \in lateCalls : CallArrives(m)

DialogSpec == DialogInit /\ [][DialogNext]_dialogVars

-----------------------------------------------------------------------------
(* Properties.                                                             *)

\* The variables have their types.
DialogTypeOK ==
    /\ dialog \in Dialogs \cup {Nothing} /\ call \in Calls \cup {Nothing} /\ lateCalls \subseteq Calls
    /\ dialogDraft \in [id : RequestIds, payload : Payloads] \cup {Nothing}
    /\ filed \in [RequestIds -> Payloads \cup {Nothing}]
    /\ idsUsed \in 0..LastRequest /\ written \subseteq Payloads /\ challenged \subseteq written

FiledRequests == {i \in RequestIds : filed[i] # Nothing}

\* The ceiling of the scoped changes, from the browser to the row: what is filed above
\* it is exactly a payload whose radius its editor was shown, though the fields stay
\* open while the challenge is on its way and calls arrive late.
WideIsConfirmed ==
    \A i \in FiledRequests : filed[i].level \in Wide => filed[i] \in challenged

\* A payload is filed once, whatever answers get lost and however often it is sent,
\* reopened after a crash or confirmed.
FiledOnce ==
    \A i, j \in FiledRequests : filed[i] = filed[j] => i = j

\* What reaches the drafter is what an editor meant, as wide as the editor confirmed.
FiledAsMeant == WideIsConfirmed /\ FiledOnce
=============================================================================
