----------------------------- MODULE ChatStream -----------------------------
(***************************************************************************)
(* One streamed turn of an interview (STREAMING on): the frames of the     *)
(* provider through the transform of chat-stream.js, with settle and fail  *)
(* of the turn, to the reader readChatStream of chat.js.                   *)
(*                                                                         *)
(* Bytes arrive in pieces cut anywhere. A frame is two halves and the gap  *)
(* (the blank line) that ends it; a half alone does not parse. The marks   *)
(* of a frame are what the adapter of the provider finds in it: text, the  *)
(* terminal usage, the end of the answer, an error. A text is the number   *)
(* of its frame. Tokens of a stream and their price are in Budget, what    *)
(* the page does with the result is in ChatRoom.                           *)
(***************************************************************************)
EXTENDS Naturals, FiniteSetsExt, SequencesExt

CONSTANTS
    Dialects,    \* of each provider, the marks its frames can have
    LastFrame,   \* bound: frames of the provider
    Gap, NoReply

Marks == {"text", "usage", "stop", "error"}

ASSUME StreamAssumption == Dialects \subseteq SUBSET SUBSET Marks /\ LastFrame \in Nat

VARIABLES
    dialect,   \* the provider's
    source,    \* the provider's body: open, ended, broken
    script,    \* history: the whole frames it sent
    wire,      \* what the transform has not read
    worker,    \* phase, buffer, full text, usage seen, terminal, error seen
    wireOut,   \* what the page has not read
    reader,    \* the page: buffer, shown, final, error, result
    turnRow,   \* the turn in the session row: in_flight, answered, given_back
    replay     \* its stored reply, or NoReply

streamVars == <<dialect, source, script, wire, worker, wireOut, reader, turnRow, replay>>

Frames == [no : 1..LastFrame, marks : SUBSET Marks]
Cells(f) == <<[of |-> f, half |-> 1], [of |-> f, half |-> 2], Gap>>

\* What the page is sent.
Numbers == Seq(1..LastFrame)
PageEvents == [event : {"delta"}, what : 1..LastFrame] \cup [event : {"done"}, what : Numbers]
              \cup [event : {"error"}, what : {0}]

ASSUME CellAssumption ==
    Gap \notin [of : Frames \cup PageEvents, half : 1..2] /\ NoReply \notin Numbers

StreamInit ==
    /\ dialect \in Dialects /\ source = "open" /\ script = <<>>
    /\ wire = <<>> /\ wireOut = <<>>
    /\ worker = [phase |-> "open", buffer |-> <<>>, full |-> <<>>,
                 usage |-> FALSE, terminal |-> FALSE, error |-> FALSE]
    /\ reader = [buffer |-> <<>>, shown |-> <<>>, final |-> NoReply, error |-> FALSE,
                 result |-> "none"]
    /\ turnRow = "in_flight" /\ replay = NoReply

-----------------------------------------------------------------------------
(* Cutting a buffer into frames, on both sides: with its second half a     *)
(* frame is there, and up to the last gap it is handled.                   *)

Whole(c) == c # Gap /\ c.half = 2
LastGap(buffer) == Max({0} \cup {i \in DOMAIN buffer : buffer[i] = Gap})
Ready(buffer) == SubSeq(buffer, 1, LastGap(buffer))
Left(buffer) == SubSeq(buffer, LastGap(buffer) + 1, Len(buffer))

-----------------------------------------------------------------------------
(* The provider.                                                           *)

NextFrame(marks) == [no |-> Len(script) + 1, marks |-> marks]

ProviderWrites(marks) ==
    /\ source = "open" /\ worker.phase = "open" /\ Len(script) < LastFrame
    /\ script' = Append(script, NextFrame(marks))
    /\ wire' = wire \o Cells(NextFrame(marks))
    /\ UNCHANGED <<dialect, source, worker, wireOut, reader, turnRow, replay>>

\* A clean end, also in the middle of a frame or without its blank line.
ProviderEnds(cells, marks) ==
    /\ source = "open" /\ source' = "ended"
    /\ cells # 0 => Len(script) < LastFrame
    /\ script' = IF cells = 2 THEN Append(script, NextFrame(marks)) ELSE script
    /\ wire' = wire \o SubSeq(Cells(NextFrame(marks)), 1, cells)
    /\ UNCHANGED <<dialect, worker, wireOut, reader, turnRow, replay>>

\* The connection breaks or PROVIDER_TIMEOUT_MS is over: what was not read is lost.
ProviderBreaks ==
    /\ source = "open" /\ worker.phase = "open"
    /\ source' = "broken" /\ wire' = <<>>
    /\ worker' = [worker EXCEPT !.phase = "aborting"]
    /\ UNCHANGED <<dialect, script, wireOut, reader, turnRow, replay>>

-----------------------------------------------------------------------------
(* The transform.                                                          *)

\* What the transform holds, and what it has sent.
Transform == [holds |-> worker, sent |-> wireOut]
Says(event, what) == Cells([event |-> event, what |-> what])

\* handleFrame: nothing is read after an error.
Hears(t, c) ==
    LET w == t.holds
        used == w.usage \/ "usage" \in c.of.marks
    IN IF ~Whole(c) \/ w.error THEN t
       ELSE IF "error" \in c.of.marks
       THEN [holds |-> [w EXCEPT !.error = TRUE], sent |-> t.sent \o Says("error", 0)]
       ELSE LET heard == [w EXCEPT !.usage = used, !.terminal = @ \/ ("stop" \in c.of.marks /\ used)]
            IN IF "text" \notin c.of.marks THEN [t EXCEPT !.holds = heard]
               ELSE [holds |-> [heard EXCEPT !.full = Append(@, c.of.no)],
                     sent |-> t.sent \o Says("delta", c.of.no)]
HearsAll(cells) == FoldLeft(Hears, Transform, cells)

Chunk(n) ==
    LET buffer == worker.buffer \o SubSeq(wire, 1, n)
        after == HearsAll(Ready(buffer))
    IN  /\ worker.phase = "open" /\ n <= Len(wire)
        /\ worker' = [after.holds EXCEPT !.buffer = Left(buffer)]
        /\ wire' = SubSeq(wire, n + 1, Len(wire))
        /\ wireOut' = after.sent
        /\ UNCHANGED <<dialect, source, script, reader, turnRow, replay>>

\* Mutant: an answer is complete when there is some text.
CompleteWithText(w) == ~w.error /\ w.full # <<>>
IsWhole(w) == ~w.error /\ w.terminal

\* flush: the tail without its blank line, then settle or fail.
BodyEnds ==
    LET after == HearsAll(worker.buffer)
    IN  /\ worker.phase = "open" /\ source = "ended" /\ wire = <<>>
        /\ worker' = [after.holds EXCEPT !.buffer = <<>>,
                          !.phase = IF IsWhole(after.holds) THEN "settling" ELSE "failing"]
        /\ wireOut' = after.sent
        /\ UNCHANGED <<dialect, source, script, wire, reader, turnRow, replay>>

SettleTurn == turnRow' = "answered" /\ replay' = worker.full

\* The page has gone: done cannot be sent, and the pipe fails.
SettleAcked ==
    /\ worker.phase = "settling" /\ SettleTurn
    /\ IF reader.result = "lost"
       THEN worker' = [worker EXCEPT !.phase = "aborting"] /\ UNCHANGED wireOut
       ELSE /\ worker' = [worker EXCEPT !.phase = "closed"]
            /\ wireOut' = wireOut \o Says("done", worker.full)
    /\ UNCHANGED <<dialect, source, script, wire, reader>>

SettleLost ==
    /\ worker.phase = "settling" /\ worker' = [worker EXCEPT !.phase = "failing"]
    /\ SettleTurn \/ UNCHANGED <<turnRow, replay>>
    /\ UNCHANGED <<dialect, source, script, wire, wireOut, reader>>

\* fail: an answered turn stays as it is.
GiveBack == turnRow' = IF turnRow = "in_flight" THEN "given_back" ELSE turnRow

FailAcked ==
    /\ worker.phase \in {"failing", "aborting"} /\ GiveBack
    /\ worker' = [worker EXCEPT !.phase = IF @ = "failing" THEN "closed" ELSE "aborted"]
    /\ UNCHANGED <<dialect, source, script, wire, wireOut, reader, replay>>

\* A failure in flush breaks the pipe, which fails the turn once more.
FailLost ==
    /\ worker.phase \in {"failing", "aborting"} /\ (GiveBack \/ UNCHANGED turnRow)
    /\ worker' = [worker EXCEPT !.phase = IF @ = "failing" THEN "aborting" ELSE "aborted"]
    /\ UNCHANGED <<dialect, source, script, wire, wireOut, reader, replay>>

WorkerEvicted ==
    /\ worker.phase \notin {"closed", "aborted", "dead"}
    /\ worker' = [worker EXCEPT !.phase = "dead"]
    /\ UNCHANGED <<dialect, source, script, wire, wireOut, reader, turnRow, replay>>

-----------------------------------------------------------------------------
(* The page.                                                               *)

Reading == reader.result = "none"

\* handleFrame of readChatStream: every delta is rendered.
Reads(r, c) ==
    IF ~Whole(c) THEN r
    ELSE CASE c.of.event = "delta" -> [r EXCEPT !.shown = Append(@, c.of.what)]
           [] c.of.event = "done" -> [r EXCEPT !.final = c.of.what]
           [] c.of.event = "error" -> [r EXCEPT !.error = TRUE]
ReadsAll(cells) == FoldLeft(Reads, reader, cells)

PageReads(n) ==
    LET buffer == reader.buffer \o SubSeq(wireOut, 1, n)
    IN  /\ Reading /\ n <= Len(wireOut)
        /\ reader' = [ReadsAll(Ready(buffer)) EXCEPT !.buffer = Left(buffer)]
        /\ wireOut' = SubSeq(wireOut, n + 1, Len(wireOut))
        /\ UNCHANGED <<dialect, source, script, wire, worker, turnRow, replay>>

\* settle: an error is final even beside a done. failed is upstream_unavailable.
PageEnds ==
    /\ Reading /\ worker.phase = "closed" /\ wireOut = <<>>
    /\ LET after == ReadsAll(reader.buffer)
       IN  reader' = [after EXCEPT !.buffer = <<>>,
                         !.result = IF ~after.error /\ after.final # NoReply THEN "ok" ELSE "failed"]
    /\ UNCHANGED <<dialect, source, script, wire, worker, wireOut, turnRow, replay>>

\* The read is rejected: aborted by the Worker, or evicted.
ReadRejected ==
    /\ Reading /\ worker.phase \in {"aborted", "dead"}
    /\ reader' = [reader EXCEPT !.result = "network"] /\ wireOut' = <<>>
    /\ UNCHANGED <<dialect, source, script, wire, worker, turnRow, replay>>

\* The page's own connection breaks, or the page goes.
PageLost ==
    /\ Reading /\ reader' = [reader EXCEPT !.result = "lost"] /\ wireOut' = <<>>
    /\ UNCHANGED <<dialect, source, script, wire, worker, turnRow, replay>>

\* The Worker may notice it.
LossNoticed ==
    /\ reader.result = "lost" /\ worker.phase = "open"
    /\ worker' = [worker EXCEPT !.phase = "aborting"]
    /\ UNCHANGED <<dialect, source, script, wire, wireOut, reader, turnRow, replay>>

StreamNext ==
    \/ \E marks \in dialect :
          ProviderWrites(marks) \/ \E cells \in 0..2 : ProviderEnds(cells, marks)
    \/ ProviderBreaks
    \/ \E n \in 1..(3 * LastFrame) : Chunk(n) \/ PageReads(n)
    \/ BodyEnds \/ SettleAcked \/ SettleLost \/ FailAcked \/ FailLost \/ WorkerEvicted
    \/ PageEnds \/ ReadRejected \/ PageLost \/ LossNoticed

StreamSpec == StreamInit /\ [][StreamNext]_streamVars

-----------------------------------------------------------------------------
(* Properties.                                                             *)

Parts == {Gap} \cup [of : Frames, half : 1..2]
Pieces == {Gap} \cup [of : PageEvents, half : 1..2]
Workers == [phase : {"open", "settling", "failing", "aborting", "closed", "aborted", "dead"},
            buffer : Seq(Parts), full : Numbers, usage : BOOLEAN, terminal : BOOLEAN, error : BOOLEAN]
Readers == [buffer : Seq(Pieces), shown : Numbers, final : Numbers \cup {NoReply}, error : BOOLEAN,
            result : {"none", "ok", "failed", "network", "lost"}]

\* The variables have their types.
StreamTypeOK ==
    /\ dialect \in Dialects /\ source \in {"open", "ended", "broken"}
    /\ script \in Seq(Frames) /\ Len(script) <= LastFrame
    /\ wire \in Seq(Parts) /\ wireOut \in Seq(Pieces)
    /\ worker \in Workers /\ reader \in Readers
    /\ turnRow \in {"in_flight", "answered", "given_back"}
    /\ replay \in Numbers \cup {NoReply}

\* The text of every frame, in order and once.
HoldsEveryText(reply) ==
    /\ ToSet(reply) = {i \in DOMAIN script : "text" \in script[i].marks}
    /\ \A i, j \in DOMAIN reply : i < j => reply[i] < reply[j]

\* What the page takes for the answer is what it rendered piece by piece and what a
\* replay of the turn would give, wherever the stream was cut.
AnswerIsTheReplay ==
    reader.result = "ok" =>
        turnRow = "answered" /\ reader.final = replay /\ reader.shown = replay

\* Only a whole answer is stored: no piece is lost at a cut, and a stream that ended
\* early or declared an error is never kept as a reply.
StoredIsWhole ==
    turnRow = "answered" =>
        /\ HoldsEveryText(replay)
        /\ \E i \in DOMAIN script : "stop" \in script[i].marks
        /\ \A i \in DOMAIN script : "error" \notin script[i].marks

\* "A same-turn retry cannot race the in-flight marker" (flush of makeChatTransform): a
\* failure the page retries by itself has given the turn back, or answered it.
RetryFindsTurnFree == reader.result = "failed" => turnRow # "in_flight"

\* A streamed turn ends as a turn without streaming does.
StreamIsHonest == AnswerIsTheReplay /\ StoredIsWhole /\ RetryFindsTurnFree
=============================================================================
