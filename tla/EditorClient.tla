---------------------------- MODULE EditorClient ----------------------------
(***************************************************************************)
(* The editing session of one block in app/editor/editor.js, with the      *)
(* draft in web storage, the requests on the wire and the rows that        *)
(* POST /edit/v1/suggest keeps for this editor and block.                  *)
(*                                                                         *)
(* Wordings are numbers; a wording stands for its hash as well. Suggestion *)
(* ids are numbered as they are minted, 0 is null. The page's own send     *)
(* keeps a handler waiting for its reply; a keepalive flush, or a send     *)
(* whose page is gone, is a stray: it may still reach the server, at any   *)
(* time or never. A wording is published, or changed by somebody else, by  *)
(* programs outside the browser. _queued is written and never read, and is *)
(* left out; so are comments, page-only copies and the dialogs (one of     *)
(* them is ScopedDialog).                                                  *)
(***************************************************************************)
EXTENDS Integers, Sequences

CONSTANTS
    LastWording,        \* bound: wordings 0..LastWording, 0 is served at first
    LastId,             \* bound: ids ever minted
    LastVersion,        \* bound: changes of the served text
    MayRetype,          \* an earlier wording may be typed again
    MayTypeWhileSaving, \* the block may be edited while an explicit send is under way
    NoDraft

ASSUME EditorAssumption ==
    /\ LastWording \in Nat /\ LastId \in Nat /\ LastVersion \in Nat
    /\ MayRetype \in BOOLEAN /\ MayTypeWhileSaving \in BOOLEAN

Wordings == 0..LastWording
NoText == -1

VARIABLES
    page,      \* the session of the block in the open page
    kept,      \* its draft in session and local storage, or NoDraft
    sends,     \* requests whose handler waits in the page
    strays,    \* requests nobody waits for
    rows,      \* this editor's suggestions of the block, in created_at order
    served,    \* the block's text in the deployed map
    version,   \* how often it changed
    minted,    \* uuids drawn
    typed,     \* history: the wording last typed and not given up, or NoText
    givenUp    \* history: ids dropped by Undo or by a reset the editor is told of

clientVars == <<page, kept, sends, strays, rows, served, version, minted, typed, givenUp>>

Pages == [hash : Wordings, original : Wordings, snapshot : Wordings, shown : Wordings,
          state : {"IDLE", "EDITING", "SAVING"}, id : 0..LastId, dirty : BOOLEAN,
          debounce : BOOLEAN, retry : BOOLEAN, editable : BOOLEAN, reauth : BOOLEAN,
          hydrated : BOOLEAN]
BlockDrafts == [hash : Wordings, id : 0..LastId, text : Wordings]
Replies == {"ok", "id_conflict", "stale_page", "no_edit_auth", "validation_error", "ceiling"}
SentRequests == [id : 1..LastId, text : Wordings, hash : Wordings]
Sends == [id : 1..LastId, text : Wordings, hash : Wordings, auto : BOOLEAN,
          reply : Replies \cup {"none"}]
SuggestionRow == [id : 1..LastId, text : Wordings, base : Wordings, applied : BOOLEAN]

ASSUME NoDraftAssumption == NoDraft \notin BlockDrafts

FreshPage(text) ==
    [hash |-> text, original |-> text, snapshot |-> text, shown |-> text, state |-> "IDLE",
     id |-> 0, dirty |-> FALSE, debounce |-> FALSE, retry |-> FALSE, editable |-> FALSE,
     reauth |-> FALSE, hydrated |-> FALSE]

ClientInit ==
    /\ page = FreshPage(0) /\ kept = NoDraft
    /\ sends = {} /\ strays = {}
    /\ rows = <<>> /\ served = 0 /\ version = 0
    /\ minted = 0 /\ typed = NoText /\ givenUp = {}

-----------------------------------------------------------------------------
(* Drafts and ids.                                                         *)

DraftOf(p) == [hash |-> p.hash, id |-> p.id, text |-> p.snapshot]

\* uuid(), when the session has no id yet.
WithId(p) == IF p.id = 0 THEN [p EXCEPT !.id = minted + 1] ELSE p
MintFor(p) == p.id = 0 => minted < LastId
Minted(p) == IF p.id = 0 THEN minted + 1 ELSE minted

\* Against the page's own hash: a draft of another text is set aside with a note,
\* one that says what the page says is dropped, any other is put on the screen.
DraftIsStale(p) == kept # NoDraft /\ kept.hash # p.hash
DraftIsMoot(p) == kept # NoDraft /\ ~DraftIsStale(p) /\ kept.text = p.original
DraftIsValid(p) == kept # NoDraft /\ ~DraftIsStale(p) /\ ~DraftIsMoot(p)
NeedsId(p) == DraftIsValid(p) /\ kept.id = 0 /\ p.id = 0

Reconciled(p) ==
    IF DraftIsStale(p)
    THEN [p EXCEPT !.id = 0, !.snapshot = p.original, !.shown = p.original, !.dirty = FALSE, !.state = "IDLE"]
    ELSE IF DraftIsValid(p)
    THEN [p EXCEPT !.id = IF kept.id # 0 THEN kept.id ELSE IF p.id # 0 THEN p.id ELSE minted + 1,
                   !.snapshot = kept.text, !.shown = kept.text, !.dirty = TRUE]
    ELSE p
ReconciledDraft(p) == IF DraftIsValid(p) THEN kept ELSE NoDraft
Forgets(p) ==
    IF DraftIsStale(p)
    THEN typed' = NoText /\ givenUp' = givenUp \cup ({kept.id, p.id} \ {0})
    ELSE UNCHANGED <<typed, givenUp>>

\* The row the page would paint into the block, and what a poll leaves on the screen.
Live == rows # <<>> /\ ~rows[Len(rows)].applied
AtRest(p, d) == p.state = "IDLE" /\ (d = NoDraft \/ d.hash # p.hash)
Hydratable(p, d) == Live /\ AtRest(p, d) /\ rows[Len(rows)].base = p.hash
Hydrated(p, d) ==
    IF Hydratable(p, d) THEN [p EXCEPT !.shown = rows[Len(rows)].text, !.hydrated = TRUE]
    ELSE IF p.hydrated /\ AtRest(p, d) THEN [p EXCEPT !.shown = p.original, !.hydrated = FALSE]
    ELSE p

-----------------------------------------------------------------------------
(* What the editor does in the block.                                      *)

\* The pencil, or a click: enterEdit reconciles the draft again.
Edit ==
    /\ IF page.state # "IDLE"
       THEN /\ page' = [page EXCEPT !.editable = TRUE]
            /\ UNCHANGED <<kept, minted, typed, givenUp>>
       ELSE LET p == [WithId(page) EXCEPT !.state = "EDITING", !.editable = TRUE, !.reauth = FALSE]
            IN /\ MintFor(page)
               /\ page' = Reconciled(p) /\ kept' = ReconciledDraft(p)
               /\ minted' = Minted(page)
               /\ Forgets(p)
    /\ UNCHANGED <<sends, strays, rows, served, version>>

ExplicitUnderWay == \E m \in sends : ~m.auto
Fresh(w) ==
    /\ w > served /\ w > page.snapshot
    /\ \A m \in sends \cup strays : w > m.text
    /\ \A i \in DOMAIN rows : w > rows[i].text
MayType(w) ==
    /\ page.editable /\ w # page.snapshot
    /\ MayRetype \/ Fresh(w)
    /\ MayTypeWhileSaving \/ ~ExplicitUnderWay

\* The input handler, an edit session having been entered.
Typing(w, p) ==
    /\ page' = [p EXCEPT !.snapshot = w, !.shown = w, !.dirty = (w # p.original), !.debounce = (w # p.original)]
    /\ kept' = DraftOf(page')
    /\ typed' = w

\* Mutant: the draft is written when the block is left only.
TypeWithoutDraft(w) ==
    /\ MayType(w) /\ page.state # "IDLE" /\ MintFor(page)
    /\ page' = [WithId(page) EXCEPT !.snapshot = w, !.shown = w, !.dirty = (w # page.original), !.debounce = (w # page.original)]
    /\ typed' = w /\ minted' = Minted(page)
    /\ UNCHANGED <<kept, sends, strays, rows, served, version, givenUp>>

Type(w) ==
    /\ MayType(w) /\ page.state # "IDLE" /\ MintFor(page)
    /\ Typing(w, WithId(page))
    /\ minted' = Minted(page)
    /\ UNCHANGED <<sends, strays, rows, served, version, givenUp>>

Blur ==
    /\ page.dirty /\ kept # DraftOf(page)
    /\ kept' = DraftOf(page)
    /\ UNCHANGED <<page, sends, strays, rows, served, version, minted, typed, givenUp>>

\* The only control that discards.
Undo ==
    /\ page.state = "EDITING" /\ page.editable
    /\ page' = Hydrated([page EXCEPT !.state = "IDLE", !.snapshot = page.original, !.shown = page.original,
                           !.editable = FALSE, !.dirty = FALSE, !.id = 0, !.reauth = FALSE, !.hydrated = FALSE,
                           !.debounce = FALSE, !.retry = FALSE], NoDraft)
    /\ kept' = NoDraft /\ typed' = NoText
    /\ givenUp' = givenUp \cup ({page.id} \ {0})
    /\ UNCHANGED <<sends, strays, rows, served, version, minted>>

-----------------------------------------------------------------------------
(* Sending: the critical section before the request leaves.                *)

SendFrom(p, auto) ==
    /\ p.state # "SAVING" /\ p.dirty /\ MintFor(p)
    /\ page' = [WithId(p) EXCEPT !.state = "SAVING", !.debounce = FALSE]
    /\ sends' = sends \cup {[id |-> WithId(p).id, text |-> p.snapshot, hash |-> p.hash,
                             auto |-> auto, reply |-> "none"]}
    /\ minted' = Minted(p)
    /\ UNCHANGED <<kept, strays, rows, served, version, typed, givenUp>>

\* The debounce runs out: nothing is sent behind a running send or a shown prompt.
AutoSave ==
    LET p == [page EXCEPT !.debounce = FALSE]
    IN /\ page.debounce
       /\ IF p.dirty /\ p.state # "SAVING" /\ ~p.reauth
          THEN SendFrom(p, TRUE)
          ELSE page' = p /\ UNCHANGED <<kept, sends, strays, rows, served, version, minted, typed, givenUp>>

Retry ==
    LET p == [page EXCEPT !.retry = FALSE]
    IN /\ page.retry
       /\ IF p.dirty /\ p.state # "SAVING"
          THEN SendFrom(p, TRUE)
          ELSE page' = p /\ UNCHANGED <<kept, sends, strays, rows, served, version, minted, typed, givenUp>>

\* The timers stop; a send under way is not repeated.
Done ==
    LET p == [page EXCEPT !.editable = FALSE]
        q == IF p.dirty THEN [p EXCEPT !.debounce = FALSE, !.retry = FALSE] ELSE p
    IN /\ page.state # "IDLE" /\ page.editable
       /\ IF q.dirty /\ q.state # "SAVING"
          THEN SendFrom(q, FALSE)
          ELSE page' = q /\ UNCHANGED <<kept, sends, strays, rows, served, version, minted, typed, givenUp>>

RefreshAndSend == page.reauth /\ SendFrom([page EXCEPT !.reauth = FALSE], FALSE)

-----------------------------------------------------------------------------
(* The server, for a request that reaches it.                              *)

RowOf(m) == {i \in DOMAIN rows : rows[i].id = m.id}

ReplyTo(m) ==
    IF m.hash # served THEN "stale_page"
    ELSE IF \E i \in RowOf(m) : rows[i].text # m.text THEN "id_conflict"
    ELSE "ok"

Stores(m) ==
    rows' = IF ReplyTo(m) = "ok" /\ RowOf(m) = {}
            THEN Append(rows, [id |-> m.id, text |-> m.text, base |-> served, applied |-> FALSE])
            ELSE rows

Serve(m) ==
    /\ m.reply = "none"
    /\ \/ sends' = (sends \ {m}) \cup {[m EXCEPT !.reply = ReplyTo(m)]} /\ Stores(m)
       \/ /\ \E refusal \in {"no_edit_auth", "validation_error", "ceiling"} :
                sends' = (sends \ {m}) \cup {[m EXCEPT !.reply = refusal]}
          /\ UNCHANGED rows
    /\ UNCHANGED <<page, kept, strays, served, version, minted, typed, givenUp>>

StrayArrives(m) ==
    /\ strays' = strays \ {m} /\ Stores(m)
    /\ UNCHANGED <<page, kept, sends, served, version, minted, typed, givenUp>>

\* The apply engine lands the live row, or somebody else's change is deployed.
\* A deployed text is new to the page's readers.
Publish ==
    /\ Live /\ version < LastVersion
    /\ served' = rows[Len(rows)].text
    /\ rows' = [rows EXCEPT ![Len(rows)].applied = TRUE]
    /\ version' = version + 1
    /\ UNCHANGED <<page, kept, sends, strays, minted, typed, givenUp>>

OthersPublish(w) ==
    /\ w # served /\ version < LastVersion
    /\ served' = w /\ version' = version + 1
    /\ UNCHANGED <<page, kept, sends, strays, rows, minted, typed, givenUp>>

-----------------------------------------------------------------------------
(* The reply.                                                              *)

Delivered(m) ==
    [page EXCEPT !.retry = FALSE, !.original = m.text, !.id = 0, !.dirty = (page.snapshot # m.text)]

\* An auto-save keeps the block open; text typed meanwhile starts a new burst.
AnswerOk(m) ==
    LET p == Delivered(m)
        more == m.auto /\ p.dirty
        q == IF more THEN [WithId(p) EXCEPT !.debounce = TRUE] ELSE p
    IN /\ m.reply = "ok" /\ (more => MintFor(p))
       /\ page' = IF m.auto THEN [q EXCEPT !.state = "EDITING"]
                  ELSE [q EXCEPT !.state = "IDLE", !.editable = FALSE]
       /\ kept' = IF more THEN DraftOf(page') ELSE NoDraft
       /\ minted' = IF more THEN Minted(p) ELSE minted
       /\ sends' = sends \ {m}
       /\ UNCHANGED <<strays, rows, served, version, typed, givenUp>>

\* The newer wording takes a new id and is sent at once.
AnswerConflict(m) ==
    LET p == [page EXCEPT !.state = "SAVING", !.id = minted + 1, !.debounce = FALSE]
        again == [id |-> p.id, text |-> p.snapshot, hash |-> p.hash, auto |-> TRUE, reply |-> "none"]
    IN /\ m.reply = "id_conflict" /\ minted < LastId
       /\ kept' = DraftOf(p) /\ minted' = p.id
       /\ IF page.dirty
          THEN page' = p /\ sends' = (sends \ {m}) \cup {again}
          ELSE page' = [p EXCEPT !.state = "EDITING", !.debounce = page.debounce] /\ sends' = sends \ {m}
       /\ UNCHANGED <<strays, rows, served, version, typed, givenUp>>

\* The block is reset, with a note that asks for a reload.
AnswerStale(m) ==
    /\ m.reply = "stale_page"
    /\ page' = [page EXCEPT !.state = "IDLE", !.snapshot = page.original, !.shown = page.original,
                            !.dirty = FALSE, !.id = 0, !.editable = FALSE]
    /\ kept' = NoDraft /\ typed' = NoText
    /\ givenUp' = givenUp \cup ({m.id, page.id} \ {0})
    /\ sends' = sends \ {m}
    /\ UNCHANGED <<strays, rows, served, version, minted>>

\* Every other failure keeps draft and id. A shown prompt stops auto-saves; a code
\* the client does not know counts as a network failure, and only those are retried.
AnswerFailure(m) ==
    /\ m.reply \in {"no_edit_auth", "validation_error", "ceiling"}
    /\ page' = [page EXCEPT !.state = "EDITING",
                            !.reauth = page.reauth \/ m.reply = "no_edit_auth",
                            !.retry = page.retry \/ (m.reply = "ceiling" /\ m.auto)]
    /\ kept' = DraftOf(page)
    /\ sends' = sends \ {m}
    /\ UNCHANGED <<strays, rows, served, version, minted, typed, givenUp>>

AsRequest(m) == [id |-> m.id, text |-> m.text, hash |-> m.hash]

\* The connection breaks before or after the server did its part.
NetworkFails(m) ==
    /\ page' = [page EXCEPT !.state = "EDITING", !.retry = page.retry \/ m.auto]
    /\ kept' = DraftOf(page)
    /\ sends' = sends \ {m}
    /\ strays' \in IF m.reply = "none" THEN {strays, strays \cup {AsRequest(m)}} ELSE {strays}
    /\ UNCHANGED <<rows, served, version, minted, typed, givenUp>>

-----------------------------------------------------------------------------
(* The life of the page.                                                   *)

\* visibilitychange to hidden, or pagehide: a keepalive request without a handler.
Hide ==
    LET p == WithId(page)
    IN /\ page.dirty /\ page.state # "SAVING" /\ MintFor(page)
       /\ page' = p /\ kept' = DraftOf(p) /\ minted' = Minted(page)
       /\ strays' = strays \cup {[id |-> p.id, text |-> p.snapshot, hash |-> p.hash]}
       /\ UNCHANGED <<sends, rows, served, version, typed, givenUp>>

\* The reply of GET /pending, at boot, after a send and on return.
Poll ==
    /\ page' = Hydrated(page, kept)
    /\ UNCHANGED <<kept, sends, strays, rows, served, version, minted, typed, givenUp>>

Returns(p) ==
    /\ NeedsId(p) => minted < LastId
    /\ page' = Hydrated(Reconciled(p), ReconciledDraft(p))
    /\ kept' = ReconciledDraft(p)
    /\ minted' = IF NeedsId(p) THEN minted + 1 ELSE minted
    /\ Forgets(p)

LetGo == strays \cup {AsRequest(m) : m \in {n \in sends : n.reply = "none"}}

\* Visible again, with a poll. A page from the back-forward cache leaves SAVING: the
\* handler of a request that was frozen with it does not run.
Visible == Returns(page) /\ UNCHANGED <<sends, strays, rows, served, version>>
FromCache ==
    /\ page.state = "SAVING"
    /\ Returns([page EXCEPT !.state = "EDITING"])
    /\ sends' = {} /\ strays' = LetGo
    /\ UNCHANGED <<rows, served, version>>

\* A reload, or a new tab after a crash: handlers are gone, their requests may not be.
Load ==
    /\ Returns(FreshPage(served))
    /\ sends' = {} /\ strays' = LetGo
    /\ UNCHANGED <<rows, served, version>>

ClientNext ==
    \/ Edit \/ Blur \/ Undo \/ AutoSave \/ Retry \/ Done \/ RefreshAndSend
    \/ \E w \in Wordings : Type(w) \/ OthersPublish(w)
    \/ \E m \in sends : Serve(m) \/ AnswerOk(m) \/ AnswerConflict(m) \/ AnswerStale(m)
                            \/ AnswerFailure(m) \/ NetworkFails(m)
    \/ \E m \in strays : StrayArrives(m)
    \/ Publish \/ Poll \/ Hide \/ Visible \/ FromCache \/ Load

ClientSpec == ClientInit /\ [][ClientNext]_clientVars

-----------------------------------------------------------------------------
(* Properties.                                                             *)

\* The variables have their types.
ClientTypeOK ==
    /\ page \in Pages /\ kept \in BlockDrafts \cup {NoDraft}
    /\ sends \subseteq Sends /\ strays \subseteq SentRequests
    /\ rows \in Seq(SuggestionRow)
    /\ served \in Wordings /\ version \in 0..LastVersion /\ minted \in 0..LastId
    /\ typed \in Wordings \cup {NoText} /\ givenUp \subseteq 1..LastId

\* Whatever was typed last, and not taken back, survives the tab: it is the draft, or
\* a row of the store, or what the page said before.
TypedIsKept ==
    typed = NoText \/ typed = page.hash \/ (kept # NoDraft /\ kept.text = typed)
        \/ \E i \in DOMAIN rows : rows[i].text = typed

\* A block that is clean and has no request under way has handed over what was typed
\* last: the store's newest row says it, unless a request for an edit that had been
\* given up arrived later.
CleanMeansDelivered ==
    ~page.dirty /\ page.state # "SAVING" /\ typed # NoText =>
        \/ typed = page.hash /\ rows = <<>>
        \/ rows # <<>> /\ (rows[Len(rows)].text = typed \/ rows[Len(rows)].id \in givenUp)

\* What the editor writes in a block is safe, across lost answers, crashed tabs,
\* reloads, text that changes under the page, and requests that arrive late.
WritingIsSafe == TypedIsKept /\ CleanMeansDelivered

\* Not run: clearHydration "never yanks text out from under a live edit or an unsent draft":
\* the block shows what was typed while it is unsent. Violated with MayTypeWhileSaving.
UnsentStaysOnScreen == page.dirty => page.shown = page.snapshot
=============================================================================
