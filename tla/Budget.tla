------------------------------- MODULE Budget -------------------------------
(***************************************************************************)
(* The spend and turn accounting of the practicum Worker: BudgetCore, the  *)
(* single SQLite Durable Object behind every hosted model call, with the   *)
(* three kinds of handlers that call it.                                   *)
(*                                                                         *)
(*   - a chat turn: preflight, the provider call, settle or fail           *)
(*     (index.js handleChat, chat-stream.js);                              *)
(*   - a one-shot call (debrief, memo assessment): reserveOneShot, the     *)
(*     provider call, settleOneShot (debrief.js completeBudgetedOneShot);  *)
(*   - a critique: checkPool, the provider call, charge.                   *)
(*                                                                         *)
(* Each RPC is atomic (the object is single threaded); handlers interleave *)
(* between RPCs, answers of RPCs are lost, Workers die, midnight passes.   *)
(* An answer is abstracted to the turn id it was computed for, a usage     *)
(* record to its price in cents.                                           *)
(***************************************************************************)
EXTENDS Integers, FiniteSets, FiniteSetsExt

CONSTANTS
    Sessions, Personas, Turns,   \* session ids, persona ids, client turn ids
    Calls, ByokCalls,            \* chat requests; those that bring their own key
    OneShots, Critiques,         \* one-shot and critique requests
    PersonaOf,                   \* the persona a turn id was drawn for (chat.js)
    PoolOf,                      \* the spend pool a session or request bills
    Cap, Reserve, Costs,         \* daily cap, worst case of a call, prices seen
    MaxTurns,                    \* turns a session may take in a day
    MaxTries,                    \* attempts of a budget RPC of a one-shot
    MaxDay,                      \* bound: days that pass
    MayRetryAcrossMidnight,      \* a turn id is sent again on the next day while
                                 \* its first request still runs
    None

Pools == {"public", "demo"}
Days == 0..MaxDay

ASSUME BudgetAssumption ==
    /\ Cap \in Nat /\ Reserve \in Nat \ {0} /\ MaxTurns \in Nat \ {0}
    /\ MaxTries \in Nat \ {0} /\ MaxDay \in Nat
    /\ Costs \subseteq 0..Reserve
    /\ IsFiniteSet(Calls) /\ ByokCalls \subseteq Calls
    /\ PersonaOf \in [Turns -> Personas]
    /\ PoolOf \in [Sessions \cup OneShots \cup Critiques -> Pools]
    /\ None \notin Turns \cup Pools \cup Sessions \cup Personas /\ None \notin Days
    /\ MayRetryAcrossMidnight \in BOOLEAN

ASSUME FiniteAssumption == IsFiniteSet(OneShots) /\ IsFiniteSet(Critiques)

VARIABLES
    today,      \* the UTC date
    budget,     \* the budget row: its day and the cents spent per pool
    sessions,   \* the sessions table
    personas,   \* the persona_turns table
    shots,      \* one_shot_reservations and one_shot_settlements, by id
    call, shot, critique,   \* the handlers: where each request stands
    mixed       \* sessions that had two chat requests running at once

vars == <<today, budget, sessions, personas, shots, call, shot, critique, mixed>>
store == <<sessions, personas>>

Budgets == [day : Days, spent : [Pools -> Nat]]
SessionRows == [day : Days \cup {None}, turns : 0..MaxTurns, turn : Turns \cup {None},
                reserve : {0, Reserve}, pool : Pools \cup {None}, result : Turns \cup {None}]
PersonaRows == [day : Days \cup {None}, turns : Nat]
ShotRows == [row : {"none", "reserved", "settled"}, day : Days]

\* A chat request: day and end are the days it was admitted and finalized.
CallStates == [pc : {"idle", "running", "unsure", "settled", "recovered", "failed",
                     "refused", "replayed", "vanished"},
               sid : Sessions \cup {None}, turn : Turns \cup {None},
               answer : Turns \cup {None},
               day : Days, end : Days, cost : 0..Reserve]
ShotStates == [pc : {"reserving", "calling", "settling", "done", "refused", "gave_up"},
               tries : 0..MaxTries, cost : 0..Reserve]
CritiqueStates == [pc : {"idle", "gated", "charged", "refused"}, cost : 0..Reserve, day : Days]

Init ==
    /\ today = 0
    /\ budget = [day |-> 0, spent |-> [p \in Pools |-> 0]]
    /\ sessions = [s \in Sessions |-> [day |-> None, turns |-> 0, turn |-> None,
                                       reserve |-> 0, pool |-> None, result |-> None]]
    /\ personas = [s \in Sessions |-> [p \in Personas |-> [day |-> None, turns |-> 0]]]
    /\ shots = [o \in OneShots |-> [row |-> "none", day |-> 0]]
    /\ call = [c \in Calls |-> [pc |-> "idle", sid |-> None, turn |-> None,
                                answer |-> None, day |-> 0, end |-> 0, cost |-> 0]]
    /\ shot = [o \in OneShots |-> [pc |-> "reserving", tries |-> 0, cost |-> 0]]
    /\ critique = [k \in Critiques |-> [pc |-> "idle", cost |-> 0, day |-> 0]]
    /\ mixed = {}

-----------------------------------------------------------------------------
(* Every RPC starts with _rollover: a new UTC day zeroes the pools and      *)
(* deletes the one-shot rows of other days.                                *)
Spent == IF budget.day = today THEN budget.spent ELSE [p \in Pools |-> 0]

Swept == [o \in OneShots |->
            IF budget.day # today /\ shots[o].day # today
            THEN [shots[o] EXCEPT !.row = "none"] ELSE shots[o]]

Book(spent) == budget' = [day |-> today, spent |-> spent]

\* col = MAX(0, col - released + cost)
Adjusted(p, released, cost) ==
    [Spent EXCEPT ![p] = IF @ - released + cost < 0 THEN 0 ELSE @ - released + cost]

Less(n) == IF n = 0 THEN 0 ELSE n - 1

-----------------------------------------------------------------------------
(* Chat turns                                                              *)

Today(s) == sessions[s].day = today
TurnsToday(s) == IF Today(s) THEN sessions[s].turns ELSE 0
Holds(s, t) == Today(s) /\ sessions[s].turn = t     \* the row is about this turn
Byok(c) == c \in ByokCalls
ReserveOf(c) == IF Byok(c) THEN 0 ELSE Reserve

TurnsLeft(s) == TurnsToday(s) < MaxTurns
Running(s) == {c \in Calls : call[c].pc \in {"running", "unsure"} /\ call[c].sid = s}

Arrives(c, s, t) ==
    /\ call[c].pc = "idle"
    /\ MayRetryAcrossMidnight
         \/ ~\E d \in Running(s) : call[d].turn = t /\ call[d].day # today

\* preflight, same turn id with a stored result: the answer is replayed.
Replay(c, s, t) ==
    /\ Arrives(c, s, t)
    /\ Holds(s, t) /\ sessions[s].result # None
    /\ call' = [call EXCEPT ![c] = [@ EXCEPT !.pc = "replayed", !.sid = s, !.turn = t,
                                    !.answer = sessions[s].result]]
    /\ Book(Spent) /\ shots' = Swept
    /\ UNCHANGED <<today, store, shot, critique, mixed>>

\* preflight says no: still in flight, pool exhausted, or out of turns.
Refuse(c, s, t) ==
    /\ Arrives(c, s, t)
    /\ \/ Holds(s, t) /\ sessions[s].result = None
       \/ ~Holds(s, t) /\ ~Byok(c) /\ Spent[PoolOf[s]] >= Cap
       \/ ~Holds(s, t) /\ ~TurnsLeft(s)
    /\ call' = [call EXCEPT ![c].pc = "refused"]
    /\ Book(Spent) /\ shots' = Swept
    /\ UNCHANGED <<today, store, shot, critique, mixed>>

\* Mutant: the answer of the turn before stays in the row.
EnteredWithOldAnswer(s, t, c) ==
    [day |-> today, turns |-> TurnsToday(s) + 1, turn |-> t,
     reserve |-> ReserveOf(c), pool |-> PoolOf[s], result |-> sessions[s].result]
Entered(s, t, c) ==
    [day |-> today, turns |-> TurnsToday(s) + 1, turn |-> t,
     reserve |-> ReserveOf(c), pool |-> PoolOf[s], result |-> None]

Counted(s, p) ==
    [personas EXCEPT ![s][p] = [day |-> today, turns |-> IF @.day = today THEN @.turns + 1 ELSE 1]]

\* Mutant: the pool is charged by settle alone.
ReservedLater(s, c) == Spent
Reserved(s, c) == Adjusted(PoolOf[s], 0, ReserveOf(c))

\* preflight admits the turn: counted, reserved, and recorded as in flight.
Admit(c, s, t) ==
    /\ Arrives(c, s, t)
    /\ ~Holds(s, t)
    /\ Byok(c) \/ Spent[PoolOf[s]] < Cap
    /\ TurnsLeft(s)
    /\ sessions' = [sessions EXCEPT ![s] = Entered(s, t, c)]
    /\ personas' = Counted(s, PersonaOf[t])
    /\ Book(Reserved(s, c)) /\ shots' = Swept
    /\ call' = [call EXCEPT ![c] = [@ EXCEPT !.pc = "running", !.sid = s, !.turn = t,
                                    !.day = today]]
    /\ mixed' = IF Running(s) = {} THEN mixed ELSE mixed \cup {s}
    /\ UNCHANGED <<today, shot, critique>>

BilledPool(row) == IF row.pool = None THEN "public" ELSE row.pool

\* settle: the reserve of the row, if it is this turn's, gives way to the price,
\* and the answer is stored for replay.
SettleRow(c, cost) ==
    LET s == call[c].sid
        released == IF Holds(s, call[c].turn) THEN sessions[s].reserve ELSE 0
    IN  /\ Book(Adjusted(BilledPool(sessions[s]), released, cost))
        /\ sessions' = [sessions EXCEPT ![s].reserve = 0, ![s].result = call[c].turn]
        /\ shots' = Swept

PriceOf(c, cost) == cost = 0 \/ ~Byok(c)

\* The provider answered; settle commits and is acknowledged, or the response is
\* not a stream and its loss ends the request as a server error.
Settle(c, cost) ==
    /\ call[c].pc = "running" /\ PriceOf(c, cost)
    /\ SettleRow(c, cost)
    /\ call' = [call EXCEPT ![c] = [@ EXCEPT !.pc = "settled", !.cost = cost, !.end = today,
                                    !.answer = call[c].turn]]
    /\ UNCHANGED <<today, personas, shot, critique, mixed>>

\* The same on a stream whose settle acknowledgment is lost: flush calls fail next.
SettleUnacknowledged(c, cost) ==
    /\ call[c].pc = "running" /\ PriceOf(c, cost)
    /\ SettleRow(c, cost)
    /\ call' = [call EXCEPT ![c] = [@ EXCEPT !.pc = "unsure", !.cost = cost, !.end = today]]
    /\ UNCHANGED <<today, personas, shot, critique, mixed>>

\* Mutant: a stored answer does not stop the undo.
UndoesAnswered(c) == Holds(call[c].sid, call[c].turn)
Undoable(c) == Holds(call[c].sid, call[c].turn) /\ sessions[call[c].sid].result = None

\* Mutant: the turn id stays in the row.
GivenBackWithTurn(row) ==
    [row EXCEPT !.turns = Less(@), !.reserve = 0, !.pool = None, !.result = None]
GivenBack(row) ==
    [row EXCEPT !.turns = Less(@), !.reserve = 0, !.turn = None, !.pool = None, !.result = None]

Uncounted(s, p) ==
    IF personas[s][p].day = today THEN [personas EXCEPT ![s][p].turns = Less(@)] ELSE personas

\* fail: a no-op unless the row is this turn's and holds no result.
FailRow(c, cost) ==
    LET s == call[c].sid
        row == sessions[s]
    IN  /\ shots' = Swept
        /\ IF Undoable(c)
           THEN /\ Book(Adjusted(BilledPool(row), row.reserve, cost))
                /\ sessions' = [sessions EXCEPT ![s] = GivenBack(row)]
                /\ personas' = Uncounted(s, PersonaOf[call[c].turn])
           ELSE Book(Spent) /\ UNCHANGED store

\* The provider failed, with a known price or none; rollback is fail without usage.
Fail(c, cost) ==
    /\ call[c].pc = "running" /\ PriceOf(c, cost)
    /\ FailRow(c, cost)
    /\ call' = [call EXCEPT ![c] = [@ EXCEPT !.pc = "failed", !.cost = cost, !.end = today]]
    /\ UNCHANGED <<today, shot, critique, mixed>>

\* The fallback after an unacknowledged settle.
FailAfterSettle(c) ==
    /\ call[c].pc = "unsure"
    /\ FailRow(c, call[c].cost)
    /\ call' = [call EXCEPT ![c].pc = "recovered"]
    /\ UNCHANGED <<today, shot, critique, mixed>>

\* The Worker is evicted, or preflight's acknowledgment is lost.
Vanish(c) ==
    /\ call[c].pc = "running"
    /\ call' = [call EXCEPT ![c].pc = "vanished"]
    /\ UNCHANGED <<today, budget, store, shots, shot, critique, mixed>>

-----------------------------------------------------------------------------
(* One-shot calls                                                          *)

\* reserveOneShot: a stored row with this id is a replay.
ReserveRow(o) ==
    IF Swept[o].row # "none"
    THEN Book(Spent) /\ shots' = Swept
    ELSE /\ Book(Adjusted(PoolOf[o], 0, Reserve))
         /\ shots' = [Swept EXCEPT ![o] = [row |-> "reserved", day |-> today]]

ShotFits(o) == Swept[o].row # "none" \/ Spent[PoolOf[o]] + Reserve <= Cap

ReserveShot(o) ==
    /\ shot[o].pc = "reserving" /\ ShotFits(o)
    /\ ReserveRow(o)
    /\ shot' = [shot EXCEPT ![o] = [@ EXCEPT !.pc = "calling", !.tries = 0]]
    /\ UNCHANGED <<today, store, call, critique, mixed>>

\* The reservation commits and its acknowledgment is lost: one more attempt, then
\* the request is given up.
ReserveUnacknowledged(o) ==
    /\ shot[o].pc = "reserving" /\ ShotFits(o)
    /\ ReserveRow(o)
    /\ shot' = [shot EXCEPT ![o] =
         [@ EXCEPT !.tries = shot[o].tries + 1,
                   !.pc = IF shot[o].tries + 1 = MaxTries THEN "gave_up" ELSE "reserving"]]
    /\ UNCHANGED <<today, store, call, critique, mixed>>

RefuseShot(o) ==
    /\ shot[o].pc = "reserving" /\ ~ShotFits(o)
    /\ Book(Spent) /\ shots' = Swept
    /\ shot' = [shot EXCEPT ![o] = [@ EXCEPT !.pc = "refused", !.tries = 0]]
    /\ UNCHANGED <<today, store, call, critique, mixed>>

\* The provider call ended: the price includes what is retained for lost answers.
ShotAnswered(o, cost) ==
    /\ shot[o].pc = "calling"
    /\ shot' = [shot EXCEPT ![o] = [@ EXCEPT !.pc = "settling", !.cost = cost]]
    /\ UNCHANGED <<today, budget, store, shots, call, critique, mixed>>

\* Mutant: every settle adjusts the pool.
SettlesAgain(o) ==
    /\ Book(Adjusted(PoolOf[o], Reserve, shot[o].cost))
    /\ shots' = [Swept EXCEPT ![o].row = "settled"]

\* settleOneShot: the first settlement of a reservation that still exists counts.
SettleShotRow(o) ==
    IF Swept[o].row = "reserved"
    THEN /\ Book(Adjusted(PoolOf[o], Reserve, shot[o].cost))
         /\ shots' = [Swept EXCEPT ![o].row = "settled"]
    ELSE Book(Spent) /\ shots' = Swept

SettleShot(o) ==
    /\ shot[o].pc = "settling"
    /\ SettleShotRow(o)
    /\ shot' = [shot EXCEPT ![o] = [@ EXCEPT !.pc = "done", !.tries = 0]]
    /\ UNCHANGED <<today, store, call, critique, mixed>>

SettleShotUnacknowledged(o) ==
    /\ shot[o].pc = "settling"
    /\ SettleShotRow(o)
    /\ shot' = [shot EXCEPT ![o] =
         [@ EXCEPT !.tries = shot[o].tries + 1,
                   !.pc = IF shot[o].tries + 1 = MaxTries THEN "gave_up" ELSE "settling"]]
    /\ UNCHANGED <<today, store, call, critique, mixed>>

-----------------------------------------------------------------------------
(* Critiques                                                               *)

CheckPool(k) ==
    /\ critique[k].pc = "idle"
    /\ critique' = [critique EXCEPT ![k].pc = IF Spent[PoolOf[k]] < Cap THEN "gated" ELSE "refused"]
    /\ Book(Spent) /\ shots' = Swept
    /\ UNCHANGED <<today, store, call, shot, mixed>>

Charge(k, cost) ==
    /\ critique[k].pc = "gated"
    /\ Book(Adjusted(PoolOf[k], 0, cost)) /\ shots' = Swept
    /\ critique' = [critique EXCEPT ![k] = [pc |-> "charged", cost |-> cost, day |-> today]]
    /\ UNCHANGED <<today, store, call, shot, mixed>>

-----------------------------------------------------------------------------
Midnight ==
    /\ today < MaxDay
    /\ today' = today + 1
    /\ UNCHANGED <<budget, store, shots, call, shot, critique, mixed>>

ChatStep(c) ==
    \/ \E s \in Sessions, t \in Turns :
         Replay(c, s, t) \/ Refuse(c, s, t) \/ Admit(c, s, t)
    \/ \E cost \in Costs \cup {0} :
         Settle(c, cost) \/ SettleUnacknowledged(c, cost) \/ Fail(c, cost)
    \/ FailAfterSettle(c)
    \/ Vanish(c)

ShotStep(o) ==
    \/ ReserveShot(o) \/ ReserveUnacknowledged(o) \/ RefuseShot(o)
    \/ \E cost \in Costs \cup {0} : ShotAnswered(o, cost)
    \/ SettleShot(o) \/ SettleShotUnacknowledged(o)

CritiqueStep(k) == CheckPool(k) \/ \E cost \in Costs : Charge(k, cost)

Next ==
    \/ \E c \in Calls : ChatStep(c)
    \/ \E o \in OneShots : ShotStep(o)
    \/ \E k \in Critiques : CritiqueStep(k)
    \/ Midnight

Spec == Init /\ [][Next]_vars

-----------------------------------------------------------------------------
(* Properties                                                              *)

\* The Durable Object's tables and the handlers are well formed: in particular no
\* session row counts more turns than the limit and no pool is negative.
BudgetTypeOK ==
    /\ today \in Days /\ budget \in Budgets
    /\ sessions \in [Sessions -> SessionRows]
    /\ personas \in [Sessions -> [Personas -> PersonaRows]]
    /\ shots \in [OneShots -> ShotRows]
    /\ call \in [Calls -> CallStates] /\ shot \in [OneShots -> ShotStates]
    /\ critique \in [Critiques -> CritiqueStates]
    /\ mixed \subseteq Sessions

Admitted == {"running", "unsure", "settled", "recovered", "vanished"}
AdmittedToday(s) ==
    {c \in Calls : call[c].pc \in Admitted /\ call[c].sid = s /\ call[c].day = today}
AdmittedFor(s, p) == {c \in AdmittedToday(s) : PersonaOf[call[c].turn] = p}

\* Two requests of one session at once are harmless by themselves. Together with a
\* lost settle acknowledgment, the fallback may undo the row of a third request;
\* together with a key of the learner's own, a request without reserve may release
\* the reserve of another.
SettleLost == \E c \in Calls : call[c].pc \in {"unsure", "recovered"}
OwnKeyUsed == \E c \in ByokCalls : call[c].pc \in Admitted \cup {"failed"}

\* What a request admitted today may cost the pool, or is known to have cost it.
CallWorth == [c \in Calls |-> IF call[c].pc \in {"running", "vanished"} THEN ReserveOf(c)
                              ELSE call[c].cost]
ShotWorth == [o \in OneShots |-> IF shots[o].row = "reserved" THEN Reserve ELSE shot[o].cost]
Total(worth, S) == MapThenSumSet(LAMBDA x : worth[x], S)

CallsToday(p) == {c \in Calls : /\ call[c].pc \in Admitted \cup {"failed"}
                                /\ PoolOf[call[c].sid] = p /\ call[c].day = today}
ShotsToday(p) == {o \in OneShots : /\ shots[o].row # "none" /\ shots[o].day = today
                                   /\ PoolOf[o] = p}

Exposure(p) == Total(CallWorth, CallsToday(p)) + Total(ShotWorth, ShotsToday(p))

\* However requests interleave, what the turns and one-shots admitted in a day can
\* cost a pool stays below its cap plus one call ("bounds overshoot to ~one turn").
CapHolds ==
    mixed = {} \/ ~(SettleLost \/ OwnKeyUsed)
      => \A p \in Pools : Exposure(p) < Cap + Reserve

\* However requests interleave, a session gets no more answers in a day than its
\* turn limit; a failed turn is given back, an answered one never is.
TurnLimitHolds ==
    mixed = {} \/ ~SettleLost
      => \A s \in Sessions : Cardinality(AdmittedToday(s)) <= MaxTurns

\* A turn id is refused as "already in progress" only while a request for it is in
\* progress, or its Worker died: no finished turn stays blocked.
InFlightHasOwner ==
    \A s \in Sessions :
      Today(s) /\ sessions[s].turn # None /\ sessions[s].result = None
        => \E c \in Calls : /\ call[c].pc \in {"running", "vanished"} /\ call[c].sid = s
                            /\ call[c].turn = sessions[s].turn

\* Replaying a turn id returns the answer to that turn, in every session whose
\* requests do not overlap.
OwnAnswerWhenSequential ==
    \A c \in Calls : call[c].pc = "replayed" /\ call[c].sid \notin mixed
                       => call[c].answer = call[c].turn

\* The same of every session: what the API contract says.
OwnAnswer == \A c \in Calls : call[c].pc = "replayed" => call[c].answer = call[c].turn

BookedCalls(p) ==
    {c \in Calls : /\ call[c].pc \in Admitted \cup {"failed"} /\ PoolOf[call[c].sid] = p
                   /\ \/ call[c].pc \in {"running", "vanished"} /\ call[c].day = today
                      \/ call[c].pc \in {"unsure", "settled", "recovered"} /\ call[c].end = today
                      \/ call[c].pc = "failed" /\ call[c].day = today /\ call[c].end = today}
CritiqueWorth == [k \in Critiques |-> critique[k].cost]
Critiqued(p) == {k \in Critiques : /\ critique[k].pc = "charged" /\ critique[k].day = today
                                   /\ PoolOf[k] = p}

\* While no session's requests overlap, a pool's counter is exactly the reserves of
\* the calls still out plus the prices of those that ended today: nothing leaks,
\* nothing is billed twice, across lost acknowledgments, retries and midnight.
BooksBalance ==
    mixed = {} /\ budget.day = today =>
      \A p \in Pools :
        budget.spent[p] = Total(CallWorth, BookedCalls(p)) + Total(ShotWorth, ShotsToday(p))
                            + Total(CritiqueWorth, Critiqued(p))

\* The count that opens the debrief is the number of turns of this persona admitted
\* today and not given back.
DebriefCountsTurns ==
    \A s \in Sessions \ mixed, p \in Personas :
      personas[s][p].day = today =>
        personas[s][p].turns = Cardinality(AdmittedFor(s, p))

\* Both counts a page relies on, through failures, retries and midnight: the turns a
\* session has left, and those that open the debrief.
CountsHold == TurnLimitHolds /\ DebriefCountsTurns
=============================================================================
