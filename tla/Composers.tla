----------------------------- MODULE Composers -----------------------------
(***************************************************************************)
(* The forms of app/editor/editor.js that file a suggestion beside the     *)
(* block's own editing session: the comment panel, the box "Add this       *)
(* fact", the composer of a new paragraph, the orders without text         *)
(* (remove, move, return to the shared text), and the choice whether a     *)
(* shared passage changes on this page only or everywhere.                 *)
(*                                                                         *)
(* The forms share nothing but the store, so a behaviour uses one of them. *)
(* A place is a block, or the short name of a fact. Lines are numbered, 0  *)
(* is an empty field; each line is written once. What the store keeps of a *)
(* row is what it compares when an id comes back. An answer is applied in  *)
(* the step that serves its request.                                       *)
(***************************************************************************)
EXTENDS Naturals

CONSTANTS
    Places,
    LastLine,   \* bound: lines written
    LastSlip,   \* bound: suggestion ids drawn
    MayGoOn,    \* the editor may write on, close a form or open another while one is sent
    Blank

ASSUME ComposersAssumption ==
    /\ LastLine \in Nat /\ LastSlip \in Nat \ {0} /\ MayGoOn \in BOOLEAN
    /\ Places # {}

Slips == 1..LastSlip
Lines == 0..LastLine
FormKinds == {"note", "fact", "paragraph", "reach"}
RowKinds == {"note", "fact", "paragraph", "order", "copy", "text"}
SlipRow == [place : Places, line : Lines, kind : RowKinds]

VARIABLES
    form,     \* the form this behaviour uses
    slate,    \* the open form, or Blank
    keptBox,  \* its draft in web storage, or Blank
    posted,   \* requests whose handler waits in the page
    adrift,   \* requests nobody waits for
    slips,    \* the row stored under each id, or Blank
    drawn,    \* ids drawn
    lines,    \* history: lines written
    unsettled, \* history: lines neither given up nor reported recorded
    said      \* history: what the editor was told is recorded

composerVars == <<form, slate, keptBox, posted, adrift, slips, drawn, lines, unsettled, said>>

Boxes == [id : 0..LastSlip, place : Places, line : Lines]
Posts == [id : Slips, place : Places, line : Lines, kind : RowKinds]

ASSUME BlankAssumption == Blank \notin Boxes \cup SlipRow

\* Facts and block texts are kept in web storage, comments and paragraphs are not.
IsKept == form \in {"fact", "reach"}
KeptAs(b) == IF IsKept THEN b ELSE Blank

\* A page that has just loaded: the fact box and the block are there, the rest is closed.
\* A fact draws its id at once, the block when it is first written in.
Loaded(id) == [id |-> id, place |-> CHOOSE p \in Places : TRUE, line |-> 0]

ComposerInit ==
    /\ form \in FormKinds
    /\ slate = CASE form = "fact" -> Loaded(1) [] form = "reach" -> Loaded(0) [] OTHER -> Blank
    /\ drawn = IF form = "fact" THEN 1 ELSE 0
    /\ keptBox = Blank /\ posted = {} /\ adrift = {} /\ slips = [i \in Slips |-> Blank]
    /\ lines = {} /\ unsettled = {} /\ said = {}

-----------------------------------------------------------------------------
(* Writing.                                                                *)

Free == posted = {} \/ MayGoOn

\* openBubble: a new id with every panel; a panel that is open is replaced, its text
\* given up.
OpenPanel(p) ==
    /\ form = "note" /\ Free /\ drawn < LastSlip /\ drawn' = drawn + 1
    /\ slate' = [id |-> drawn', place |-> p, line |-> 0]
    /\ unsettled' = unsettled \ (IF slate = Blank THEN {} ELSE {slate.line})
    /\ UNCHANGED <<form, keptBox, posted, adrift, slips, lines, said>>

ClosePanel ==
    /\ form = "note" /\ slate # Blank /\ Free
    /\ slate' = Blank /\ unsettled' = unsettled \ {slate.line}
    /\ UNCHANGED <<form, keptBox, posted, adrift, slips, drawn, lines, said>>

\* openComposer: an open composer is only focused. Cancel is disabled while it is sent.
OpenComposer(p) ==
    /\ form = "paragraph" /\ Free /\ slate = Blank
    /\ slate' = [id |-> 0, place |-> p, line |-> 0]
    /\ UNCHANGED <<form, keptBox, posted, adrift, slips, drawn, lines, unsettled, said>>

CancelComposer ==
    /\ form = "paragraph" /\ slate # Blank /\ posted = {}
    /\ slate' = Blank /\ unsettled' = unsettled \ {slate.line}
    /\ UNCHANGED <<form, keptBox, posted, adrift, slips, drawn, lines, said>>

\* A shared block is not editable while its page-only copy is sent. Other blocks keep
\* their place; a fact may change its short name.
Write(p, l) ==
    /\ slate # Blank /\ l \notin lines \cup {0}
    /\ IF form = "reach" THEN posted = {} ELSE Free
    /\ form # "fact" => p = slate.place
    /\ IF form = "reach" /\ slate.id = 0
       THEN drawn < LastSlip /\ drawn' = drawn + 1 /\ slate' = [id |-> drawn + 1, place |-> p, line |-> l]
       ELSE UNCHANGED drawn /\ slate' = [slate EXCEPT !.place = p, !.line = l]
    /\ keptBox' = KeptAs(slate')
    /\ lines' = lines \cup {l} /\ unsettled' = (unsettled \ {slate.line}) \cup {l}
    /\ UNCHANGED <<form, posted, adrift, slips, said>>

-----------------------------------------------------------------------------
(* Sending.                                                                *)

\* The row a form asks for. The reach of a shared text is chosen with every send.
Asked == IF form = "reach" THEN {"copy", "text"} ELSE {form}

\* Mutant: every click is a request of its own.
DrawsAlways == TRUE

\* sendStructural draws an id with every click, the other forms keep theirs until the
\* row is recorded.
DrawsPerClick == form = "paragraph"

SendForm(k) ==
    /\ slate # Blank /\ slate.line # 0 /\ k \in Asked
    /\ IF form = "note" THEN \A m \in posted : m.place # slate.place ELSE posted = {}
    /\ IF DrawsPerClick
       THEN drawn < LastSlip /\ drawn' = drawn + 1 /\ slate' = [slate EXCEPT !.id = drawn + 1]
       ELSE UNCHANGED <<drawn, slate>>
    /\ posted' = posted \cup {[id |-> slate'.id, place |-> slate.place, line |-> slate.line, kind |-> k]}
    /\ UNCHANGED <<form, keptBox, adrift, slips, lines, unsettled, said>>

\* Remove, move and return to the shared text: a request without a form.
Order(p) ==
    /\ form = "paragraph" /\ slate = Blank /\ drawn < LastSlip
    /\ drawn' = drawn + 1
    /\ posted' = posted \cup {[id |-> drawn', place |-> p, line |-> 0, kind |-> "order"]}
    /\ UNCHANGED <<form, slate, keptBox, adrift, slips, lines, unsettled, said>>

-----------------------------------------------------------------------------
(* The store, and the answers.                                             *)

\* What _fingerprint compares: place, text and comment. The comment of a page-only copy
\* is its attribution.
Payload(m) == [place |-> m.place, line |-> m.line, kind |-> m.kind]

RowFor(m) == [place |-> m.place, line |-> m.line, kind |-> m.kind]
Clashes(m) == slips[m.id] # Blank /\ Payload(slips[m.id]) # Payload(m)
Store(m) == slips' = IF slips[m.id] = Blank THEN [slips EXCEPT ![m.id] = RowFor(m)] ELSE slips

\* Recorded, or recorded before. The panel that is open closes, whichever it is; the
\* fact box is emptied and takes a new id; the block takes its id when it is next
\* written in.
AnswerRecorded(m) ==
    /\ ~Clashes(m) /\ Store(m)
    /\ posted' = posted \ {m}
    /\ IF m.kind = "order"
       THEN UNCHANGED <<slate, keptBox, drawn>>
       ELSE /\ keptBox' = Blank
            /\ IF form = "fact"
               THEN drawn < LastSlip /\ drawn' = drawn + 1 /\ slate' = Loaded(drawn + 1)
               ELSE UNCHANGED drawn /\ slate' = IF form = "reach" THEN Loaded(0) ELSE Blank
    /\ unsettled' = unsettled \ {m.line} /\ said' = said \cup {RowFor(m)}
    /\ UNCHANGED <<form, adrift, lines>>

\* Refused: the same id with another payload. The block takes a new id and asks for its
\* reach again; the other forms say that it was not sent.
AnswerClash(m) ==
    /\ Clashes(m) /\ posted' = posted \ {m}
    /\ IF form = "reach"
       THEN /\ drawn < LastSlip /\ drawn' = drawn + 1
            /\ slate' = [slate EXCEPT !.id = drawn + 1] /\ keptBox' = slate'
       ELSE UNCHANGED <<slate, keptBox, drawn>>
    /\ UNCHANGED <<form, adrift, slips, lines, unsettled, said>>

\* The page is stale: the block is reset, with a note; the other forms stay.
AnswerReset(m) ==
    /\ form = "reach" /\ posted' = posted \ {m}
    /\ slate' = Loaded(0) /\ keptBox' = Blank /\ unsettled' = unsettled \ {m.line}
    /\ UNCHANGED <<form, adrift, slips, drawn, lines, said>>

\* No answer: the request was refused or lost, was recorded, or is still on its way.
SendFails(m) ==
    /\ posted' = posted \ {m}
    /\ \/ UNCHANGED <<adrift, slips>>
       \/ ~Clashes(m) /\ Store(m) /\ UNCHANGED adrift
       \/ adrift' = adrift \cup {m} /\ UNCHANGED slips
    /\ UNCHANGED <<form, slate, keptBox, drawn, lines, unsettled, said>>

LateArrives(m) ==
    /\ adrift' = adrift \ {m}
    /\ IF Clashes(m) THEN UNCHANGED slips ELSE Store(m)
    /\ UNCHANGED <<form, slate, keptBox, posted, drawn, lines, unsettled, said>>

\* A reload or a crash: what is kept comes back with its id, what is sent stays on its way.
PageReloads ==
    /\ posted' = {} /\ adrift' = adrift \cup posted
    /\ CASE IsKept /\ keptBox # Blank -> slate' = keptBox
         [] form = "fact" /\ keptBox = Blank -> drawn < LastSlip /\ slate' = Loaded(drawn + 1)
         [] form = "reach" /\ keptBox = Blank -> slate' = Loaded(0)
         [] OTHER -> slate' = Blank
    /\ drawn' = IF form = "fact" /\ keptBox = Blank THEN drawn + 1 ELSE drawn
    /\ unsettled' = IF IsKept THEN unsettled ELSE {}
    /\ UNCHANGED <<form, keptBox, slips, lines, said>>

ComposerNext ==
    \/ \E p \in Places : OpenPanel(p) \/ OpenComposer(p) \/ Order(p) \/ \E l \in Lines : Write(p, l)
    \/ \E k \in RowKinds : SendForm(k)
    \/ ClosePanel \/ CancelComposer \/ PageReloads
    \/ \E m \in posted : AnswerRecorded(m) \/ AnswerClash(m) \/ AnswerReset(m) \/ SendFails(m)
    \/ \E m \in adrift : LateArrives(m)

ComposerSpec == ComposerInit /\ [][ComposerNext]_composerVars

-----------------------------------------------------------------------------
(* Properties.                                                             *)

\* The variables have their types.
ComposerTypeOK ==
    /\ form \in FormKinds /\ slate \in Boxes \cup {Blank} /\ keptBox \in Boxes \cup {Blank}
    /\ posted \subseteq Posts /\ adrift \subseteq Posts
    /\ slips \in [Slips -> SlipRow \cup {Blank}] /\ drawn \in 0..LastSlip
    /\ lines \subseteq Lines /\ unsettled \subseteq Lines /\ said \subseteq SlipRow

Stored == {slips[i] : i \in Slips} \ {Blank}

\* What the editor is told is recorded is in the store with that text, for that place
\* and with that reach, although an id is used again after lost answers, by another
\* form of reach, and after a reload.
SaidIsStored == said \subseteq Stored

\* A comment or a fact is one row, however often it is sent, answered by nobody, sent
\* again after a reload or overtaken by its own late request.
OneRowPerWish ==
    \A i, j \in Slips :
        slips[i] = slips[j] /\ slips[i] # Blank /\ slips[i].kind \in {"note", "fact"} => i = j

\* What is written and neither given up nor reported is on the screen, under way, or,
\* for a fact and a shared text, in web storage, where a crash does not reach it.
NothingIsForgotten ==
    \A l \in unsettled :
        IF IsKept THEN keptBox # Blank /\ keptBox.line = l
                  ELSE (slate # Blank /\ slate.line = l) \/ \E m \in posted : m.line = l

\* What is written in a form is kept, filed once, and filed as reported.
FormsKeepTheirWord == SaidIsStored /\ OneRowPerWish /\ NothingIsForgotten

\* Not run: a paragraph and an order are one row too. Violated: sendStructural draws an
\* id with every click, and a click after a lost answer files a second one.
OneRowPerOrder ==
    \A i, j \in Slips : slips[i] = slips[j] /\ slips[i] # Blank /\ slips[i].line # 0 => i = j

\* Not run: a fact that is on the screen can be recorded. Violated: after a lost answer a
\* fact that is rewritten keeps the id of the recorded one and is refused for ever.
FactIsSendable ==
    form = "fact" /\ slate.line # 0 /\ slips[slate.id] # Blank => slips[slate.id].line = slate.line
=============================================================================
