------------------------------ MODULE ChatRoom ------------------------------
(***************************************************************************)
(* The interview page app/chat/chat.js: the send flow with its retry, the  *)
(* transcript in session storage, reloads and the back-forward cache, and  *)
(* the session row of BudgetCore that answers it (see Budget for money,    *)
(* personas and days).                                                     *)
(*                                                                         *)
(* A reply is the question it was computed for. The page saves its turns   *)
(* on every change, so they are one variable; a dropped record leaves its  *)
(* place empty, only the order of places counts. A handler is one run of   *)
(* send that waits for its answer; a job is a request the Worker works on, *)
(* with or without somebody waiting. Rendering, the debrief and the        *)
(* scripted sample (which saves nothing) are left out.                     *)
(***************************************************************************)
EXTENDS Integers, FiniteSetsExt

CONSTANTS
    Questions,    \* texts the student types
    TooLong,      \* the ones the Worker does not take
    NoWords,      \* an empty composer, no reply
    MaxTurns,     \* turns of a session
    LastSend,     \* bound: how often send runs
    MayReword,    \* a recovered question may be changed before it is sent again
    MayOverlap    \* a request may reach the Worker before an earlier one of its turn has ended

ASSUME ChatAssumption ==
    /\ MaxTurns \in Nat \ {0} /\ LastSend \in Nat /\ TooLong \subseteq Questions
    /\ MayReword \in BOOLEAN /\ MayOverlap \in BOOLEAN /\ NoWords \notin Questions

VARIABLES
    room,      \* the open page: state, composer, recovered turn id
    turns,     \* the transcript records of the tab
    handlers,  \* runs of send
    lost,      \* requests that may reach the Worker without a handler
    jobs,      \* requests the Worker waits for the provider for
    last,      \* last_turn_id and last_result of the session row
    counted,   \* its turn count
    expired,   \* the session token has expired
    sendings   \* how often send ran

chatVars == <<room, turns, handlers, lost, jobs, last, counted, expired, sendings>>

TurnIds == 1..LastSend
Texts == Questions \cup {NoWords}
RoomStates == {"IDLE", "SENDING", "RETRYING", "CAPPED", "ENDED"}
Rooms == [state : RoomStates, open : BOOLEAN, input : Texts, resend : TurnIds \cup {0}]
TurnRecords == [id : TurnIds, status : {"pending", "committed", "unresolved"}, user : Questions,
                reply : Texts, turn : 0..MaxTurns]
ReplyCodes == {"none", "ok", "unavailable", "interrupted", "invalid", "cap", "over", "expired"}
Requested == [key : TurnIds, try : {0, 1}, id : TurnIds, text : Questions]
Handlers == [key : TurnIds, id : TurnIds, text : Questions, try : {0, 1},
             at : {"out", "running", "replied"}, code : ReplyCodes, reply : Texts, turn : 0..MaxTurns]
Jobs == [key : TurnIds, try : {0, 1}, id : TurnIds, text : Questions, turn : 1..MaxTurns]

EmptyRoom == [state |-> "IDLE", open |-> TRUE, input |-> NoWords, resend |-> 0]
NoTurn == [id |-> 0, done |-> FALSE, text |-> NoWords, turn |-> 0]

ChatInit ==
    /\ room = EmptyRoom /\ turns = <<>>
    /\ handlers = {} /\ lost = {} /\ jobs = {}
    /\ last = NoTurn /\ counted = 0 /\ expired = FALSE /\ sendings = 0

-----------------------------------------------------------------------------
(* Records: writePending, commitTurn, markUnresolved, dropTurn.            *)

PositionsOf(id) == {i \in DOMAIN turns : turns[i].id = id}
RecordOf(id, status, text, reply, n) ==
    [id |-> id, status |-> status, user |-> text, reply |-> reply, turn |-> n]

\* The first record of the id is written in place, a new id goes to the end.
TheEnd == Max({0} \cup DOMAIN turns) + 1
PlaceOf(id) == IF PositionsOf(id) = {} THEN TheEnd ELSE Min(PositionsOf(id))
Written(rec) ==
    [i \in DOMAIN turns \cup {PlaceOf(rec.id)} |-> IF i = PlaceOf(rec.id) THEN rec ELSE turns[i]]

PendingRecord(id, text) == Written(RecordOf(id, "pending", text, NoWords, 0))
Unresolved(id) ==
    [i \in DOMAIN turns |->
       IF turns[i].id = id /\ turns[i].status # "committed" THEN [turns[i] EXCEPT !.status = "unresolved"]
       ELSE turns[i]]
Dropped(id) == [i \in DOMAIN turns \ PositionsOf(id) |-> turns[i]]

-----------------------------------------------------------------------------
(* The student.                                                            *)

TypeQuestion(q) ==
    /\ room.open /\ room.state = "IDLE" /\ q # room.input
    /\ MayReword \/ room.resend = 0
    /\ room' = [room EXCEPT !.input = q]
    /\ UNCHANGED <<turns, handlers, lost, jobs, last, counted, expired, sendings>>

\* submit and the synchronous part of send.
SendQuestion ==
    LET id == IF room.resend # 0 THEN room.resend ELSE sendings + 1
    IN /\ room.state = "IDLE" /\ room.open /\ room.input # NoWords
       /\ MayOverlap \/ handlers = {}
       /\ sendings < LastSend /\ sendings' = sendings + 1
       /\ turns' = PendingRecord(id, room.input)
       /\ handlers' = handlers \cup {[key |-> sendings + 1, id |-> id, text |-> room.input, try |-> 0,
                                      at |-> "out", code |-> "none", reply |-> NoWords, turn |-> 0]}
       /\ room' = [state |-> "SENDING", open |-> FALSE, input |-> NoWords, resend |-> 0]
       /\ UNCHANGED <<lost, jobs, last, counted, expired>>

-----------------------------------------------------------------------------
(* The Worker.                                                             *)

Replied(h, code) == [h EXCEPT !.at = "replied", !.code = code]
Swap(h, g) == handlers' = (handlers \ {h}) \cup {g}

Admits(m) == ~expired /\ m.text \notin TooLong /\ last.id # m.id /\ counted < MaxTurns
Admitted(m) ==
    /\ jobs' = jobs \cup {[key |-> m.key, try |-> m.try, id |-> m.id, text |-> m.text, turn |-> counted + 1]}
    /\ last' = [id |-> m.id, done |-> FALSE, text |-> NoWords, turn |-> counted + 1]
    /\ counted' = counted + 1

\* The Worker has, or may still get, an earlier request of the turn.
Outstanding(id) == \E m \in jobs \cup lost : m.id = id
Arrives(h) == h.at = "out" /\ (MayOverlap \/ ~Outstanding(h.id))

ArriveAdmitted(h) ==
    /\ Arrives(h) /\ Admits(h)
    /\ Admitted(h)
    /\ Swap(h, [h EXCEPT !.at = "running"])
    /\ UNCHANGED <<room, turns, lost, expired, sendings>>

\* The other answers, in the order of the checks: an expired session, a message that is
\* not taken, no key or a busy provider, the stored result, "already in progress" (which
\* has the code of a message that is not taken), a spent budget, the turn limit.
WorkerAnswers(h) ==
    IF expired THEN {Replied(h, "expired")}
    ELSE IF h.text \in TooLong THEN {Replied(h, "invalid")}
    ELSE {Replied(h, "interrupted")} \cup
         (IF last.id = h.id
          THEN {IF last.done THEN [Replied(h, "ok") EXCEPT !.reply = last.text, !.turn = last.turn]
                ELSE Replied(h, "invalid")}
          ELSE {Replied(h, "cap")} \cup (IF counted < MaxTurns THEN {} ELSE {Replied(h, "over")}))

ArriveAnswered(h) ==
    /\ Arrives(h)
    /\ \E g \in WorkerAnswers(h) : Swap(h, g)
    /\ UNCHANGED <<room, turns, lost, jobs, last, counted, expired, sendings>>

SessionExpires ==
    /\ ~expired /\ expired' = TRUE
    /\ UNCHANGED <<room, turns, handlers, lost, jobs, last, counted, sendings>>

LostArrives(m) ==
    /\ lost' = lost \ {m}
    /\ IF Admits(m) THEN Admitted(m) ELSE UNCHANGED <<jobs, last, counted>>
    /\ UNCHANGED <<room, turns, handlers, expired, sendings>>

WaitingFor(j) == {h \in handlers : h.key = j.key /\ h.try = j.try /\ h.at = "running"}

\* settle writes the result into the session row, whatever turn that row is at.
JobAnswers(j) ==
    /\ jobs' = jobs \ {j}
    /\ last' = [last EXCEPT !.done = TRUE, !.text = j.text, !.turn = j.turn]
    /\ handlers' = (handlers \ WaitingFor(j)) \cup
                     {[Replied(h, "ok") EXCEPT !.reply = j.text, !.turn = j.turn] : h \in WaitingFor(j)}
    /\ UNCHANGED <<room, turns, lost, counted, expired, sendings>>

\* rollback, unless the row has moved on.
JobFails(j) ==
    /\ jobs' = jobs \ {j}
    /\ IF last.id = j.id /\ ~last.done
       THEN last' = NoTurn /\ counted' = counted - 1 ELSE UNCHANGED <<last, counted>>
    /\ handlers' = (handlers \ WaitingFor(j)) \cup {Replied(h, "unavailable") : h \in WaitingFor(j)}
    /\ UNCHANGED <<room, turns, lost, expired, sendings>>

-----------------------------------------------------------------------------
(* The transport: runWithRetry and readChatStream.                         *)

AsLost(h) == [key |-> h.key, try |-> h.try, id |-> h.id, text |-> h.text]

Again(h) ==
    /\ Swap(h, [h EXCEPT !.try = 1, !.at = "out", !.code = "none"])
    /\ room' = [room EXCEPT !.state = "RETRYING"]

\* fetch throws, before or after the request arrived.
ConnectionBreaks(h) ==
    /\ h.at \in {"out", "running"}
    /\ IF h.try = 0 THEN Again(h) ELSE Swap(h, Replied(h, "interrupted")) /\ UNCHANGED room
    /\ lost' \in IF h.at = "out" THEN {lost, lost \cup {AsLost(h)}} ELSE {lost}
    /\ UNCHANGED <<turns, jobs, last, counted, expired, sendings>>

\* A stream that breaks after its first token is not tried again.
StreamBreaks(h) ==
    /\ h.at = "running" /\ Swap(h, Replied(h, "interrupted"))
    /\ UNCHANGED <<room, turns, lost, jobs, last, counted, expired, sendings>>

TryAgain(h) ==
    /\ h.at = "replied" /\ h.code = "unavailable" /\ h.try = 0 /\ Again(h)
    /\ UNCHANGED <<turns, lost, jobs, last, counted, expired, sendings>>

-----------------------------------------------------------------------------
(* The end of send.                                                        *)

Ends(h, state, open) ==
    /\ handlers' = handlers \ {h}
    /\ room' = [room EXCEPT !.state = state, !.open = open]
    /\ UNCHANGED <<lost, jobs, last, counted, expired, sendings>>

Commit(h) ==
    /\ h.at = "replied" /\ h.code = "ok"
    /\ turns' = Written(RecordOf(h.id, "committed", h.text, h.reply, h.turn))
    /\ IF h.turn >= MaxTurns THEN Ends(h, "ENDED", FALSE) ELSE Ends(h, "IDLE", TRUE)

\* The question goes back into the composer, under its turn id.
Recover(h) ==
    /\ h.at = "replied"
    /\ h.code = "interrupted" \/ (h.code = "unavailable" /\ h.try = 1)
    /\ turns' = Unresolved(h.id)
    /\ handlers' = handlers \ {h}
    /\ room' = [state |-> "IDLE", open |-> TRUE, input |-> h.text, resend |-> h.id]
    /\ UNCHANGED <<lost, jobs, last, counted, expired, sendings>>

Drop(h) ==
    /\ h.at = "replied" /\ h.code \in {"invalid", "cap", "over", "expired"}
    /\ turns' = Dropped(h.id)
    /\ Ends(h, CASE h.code = "invalid" -> "IDLE" [] h.code = "cap" -> "CAPPED" [] OTHER -> "ENDED",
            h.code = "invalid")

-----------------------------------------------------------------------------
(* The life of the page.                                                   *)

Stuck(ts, statuses) == {i \in DOMAIN ts : ts[i].status \in statuses}
LastOf(positions) == Max(positions)

\* A reload: handlers are gone, their requests may not be. rehydrate pulls the last
\* question that has no answer back into the composer.
Reload ==
    LET stuck == Stuck(turns, {"pending", "unresolved"})
        t == turns[LastOf(stuck)]
    IN /\ IF stuck = {} THEN room' = EmptyRoom /\ UNCHANGED turns
          ELSE /\ room' = [EmptyRoom EXCEPT !.input = t.user, !.resend = t.id]
               /\ turns' = Unresolved(t.id)
       /\ handlers' = {}
       /\ lost' \in {lost, lost \cup {AsLost(h) : h \in {g \in handlers : g.at = "out"}}}
       /\ UNCHANGED <<jobs, last, counted, expired, sendings>>

\* pageshow of a page that was frozen: its handlers go on.
FromBackForwardCache ==
    LET ts == [i \in DOMAIN turns |-> IF turns[i].status = "pending"
                                      THEN [turns[i] EXCEPT !.status = "unresolved"] ELSE turns[i]]
        stuck == Stuck(ts, {"unresolved"})
        t == ts[LastOf(stuck)]
        r == IF room.state \in {"SENDING", "RETRYING"}
             THEN [room EXCEPT !.state = "IDLE", !.open = TRUE] ELSE room
    IN /\ room' = IF stuck # {} /\ r.input = NoWords THEN [r EXCEPT !.input = t.user, !.resend = t.id] ELSE r
       /\ turns' = ts
       /\ UNCHANGED <<handlers, lost, jobs, last, counted, expired, sendings>>

ChatNext ==
    \/ \E q \in Texts : TypeQuestion(q)
    \/ SendQuestion \/ SessionExpires \/ Reload \/ FromBackForwardCache
    \/ \E h \in handlers : \/ ArriveAdmitted(h) \/ ArriveAnswered(h)
                           \/ ConnectionBreaks(h) \/ StreamBreaks(h) \/ TryAgain(h)
                           \/ Commit(h) \/ Recover(h) \/ Drop(h)
    \/ \E m \in lost : LostArrives(m)
    \/ \E j \in jobs : JobAnswers(j) \/ JobFails(j)

ChatSpec == ChatInit /\ [][ChatNext]_chatVars

-----------------------------------------------------------------------------
(* Properties.                                                             *)

\* The variables have their types.
ChatTypeOK ==
    /\ room \in Rooms /\ turns \in [DOMAIN turns -> TurnRecords] /\ DOMAIN turns \subseteq Nat
    /\ handlers \subseteq Handlers /\ jobs \subseteq Jobs /\ lost \subseteq Requested
    /\ last \in [id : TurnIds \cup {0}, done : BOOLEAN, text : Texts, turn : 0..MaxTurns]
    /\ expired \in BOOLEAN
    /\ counted \in 0..MaxTurns /\ sendings \in 0..LastSend

\* writePending's promise: no turn id has two records, of which only one would ever be
\* answered while the other comes back as a phantom on every reload.
OneRecordPerTurn == \A i, j \in DOMAIN turns : turns[i].id = turns[j].id => i = j

\* The transcript pairs every question with the answer to it.
AnswersItsQuestion ==
    \A i \in DOMAIN turns : turns[i].status = "committed" => turns[i].reply = turns[i].user

\* Committed turns stand in the order in which the Worker took them, which is the
\* order in which they are sent back as context.
TranscriptInOrder ==
    \A i, j \in DOMAIN turns :
        i < j /\ turns[i].status = "committed" /\ turns[j].status = "committed" => turns[i].turn < turns[j].turn

\* An answer the Worker has counted is in the transcript, or its question is, and can
\* be sent again for it.
AnswerCanBeFetched ==
    last.done /\ last.id # 0 /\ ~expired =>
        \/ PositionsOf(last.id) # {}
        \/ \E h \in handlers : h.id = last.id /\ h.code = "ok"

ChatIsHonest == OneRecordPerTurn /\ AnswersItsQuestion /\ TranscriptInOrder /\ AnswerCanBeFetched
=============================================================================
