--------------------------- MODULE AssessmentAudit --------------------------
(***************************************************************************)
(* The memo assessments: the grading panel of panel.js, the audit records, *)
(* overrides and retention alarm of the EditorStore, and the page on which *)
(* a reviewer overrides scores (assessment-view.js, assessment-review.js). *)
(*                                                                         *)
(* A scorecard is a score for each heading; evidence, provenance and the   *)
(* redaction of credentials are left out. Ids are minted afresh for every  *)
(* call, so the replay and id_conflict answers of a record cannot happen.  *)
(* The overrides of a record are kept in the order of created_at. Time is  *)
(* in days. One reviewer has one page open; a refresh reads in one step.   *)
(***************************************************************************)
EXTENDS Naturals, Sequences, FiniteSetsExt

CONSTANTS
    Headings, Nobody,
    TopScore,       \* bound: the scale is 1..7 in the code
    Scorecards,     \* what a grader may answer
    Entered,        \* scores the reviewer enters
    PanelSizes,     \* graders of a panel: one hosted, or one per provider
    Retentions,     \* days a record is kept, as configured when it is written
    LastDay, LastAudit, LastOverride   \* bounds

ASSUME AuditAssumption ==
    /\ TopScore \in Nat \ {0} /\ Scorecards \subseteq [Headings -> 1..TopScore]
    /\ Entered \subseteq 1..TopScore /\ PanelSizes \subseteq Nat \ {0}
    /\ Retentions \subseteq Nat \ {0}
    /\ LastDay \in Nat /\ LastAudit \in Nat /\ LastOverride \in Nat

AuditIds == 1..LastAudit
Scores == 1..TopScore
Results == [Headings -> Scores]

VARIABLES
    day,        \* the clock
    audits,     \* assessment_audit_records: scores and expiry, or Nobody
    overrides,  \* assessment_audit_overrides, by record
    alarm,      \* the day of the object's alarm, or Nobody
    sheet,      \* the reviewer's page, or Nobody
    posts,      \* overrides on their way whose handler is gone
    assessed,   \* record ids minted
    drawnIds,   \* override ids minted
    doubt       \* history: headings with a post whose fate the page does not know

auditVars == <<day, audits, overrides, alarm, sheet, posts, assessed, drawnIds, doubt>>

Records == [scores : Results, expires : Nat]
Overrides == [id : 1..LastOverride, audit : AuditIds, heading : Headings, score : Scores]
Reviews == [audit : AuditIds, cards : Results, log : Seq(Overrides),
            saving : Overrides \cup {Nobody}, recorded : BOOLEAN]

ASSUME NobodyAssumption == Nobody \notin Nat \cup Records \cup Overrides \cup Reviews

AuditInit ==
    /\ day = 0 /\ alarm = Nobody /\ sheet = Nobody
    /\ audits = [a \in AuditIds |-> Nobody] /\ overrides = [a \in AuditIds |-> <<>>]
    /\ posts = {} /\ assessed = 0 /\ drawnIds = 0 /\ doubt = {}

-----------------------------------------------------------------------------
(* The panel.                                                              *)

Given(cards, h) == {cards[i][h] : i \in DOMAIN cards}
Contested(cards) == {h \in Headings : Max(Given(cards, h)) - Min(Given(cards, h)) >= 2}

\* discreteMedian: the least score that half the graders do not exceed, the lower middle
\* of an even panel.
Median(cards, h) ==
    Min({s \in Given(cards, h) :
            Len(cards) <= 2 * Cardinality({i \in DOMAIN cards : cards[i][h] <= s})})

\* aggregateMemoPanel: the second pass decides the contested headings, within what the
\* graders gave.
Aggregate(cards, proposed) ==
    [h \in Headings |->
        IF h \in Contested(cards)
        THEN Min({Max(Given(cards, h)), Max({Min(Given(cards, h)), proposed[h]})})
        ELSE Median(cards, h)]

\* runFormativeMemoPanel: one card of every grader, or no assessment at all.
Panels == UNION {[1..n -> Scorecards] : n \in PanelSizes}

-----------------------------------------------------------------------------
(* The store.                                                              *)

KeptAudits == {a \in AuditIds : audits[a] # Nobody}
Expired(a) == audits[a].expires <= day

\* _deleteAssessmentAudits: the overrides go with their record.
Forget(gone) ==
    /\ audits' = [a \in AuditIds |-> IF a \in gone THEN Nobody ELSE audits[a]]
    /\ overrides' = [a \in AuditIds |-> IF a \in gone THEN <<>> ELSE overrides[a]]

\* Mutant: the alarm is set when there is none.
ScheduleOnce(before) ==
    LET left == {a \in AuditIds : audits'[a] # Nobody}
    IN  alarm' = IF left = {} \/ before # Nobody THEN before
                 ELSE Min({audits'[a].expires : a \in left})

\* _scheduleAssessmentExpiry: an alarm is left alone when nothing is kept.
Schedule(before) ==
    LET left == {a \in AuditIds : audits'[a] # Nobody}
    IN  alarm' = IF left = {} THEN before ELSE Min({audits'[a].expires : a \in left})

\* handleMemoAssessment: when every grader has answered, and the second pass if one is
\* needed, the record is written before the learner gets the result. An assessment
\* that fails on the way leaves nothing.
Assess(cards) ==
    /\ assessed < LastAudit /\ assessed' = assessed + 1
    /\ \E proposed \in [Contested(cards) -> Scores], d \in Retentions :
          audits' = [audits EXCEPT ![assessed'] = [scores |-> Aggregate(cards, proposed),
                                                   expires |-> day + d]]
    /\ Schedule(alarm)
    /\ UNCHANGED <<day, overrides, sheet, posts, drawnIds, doubt>>

ForgetExpired == Forget({a \in KeptAudits : Expired(a)})

AlarmRings ==
    /\ alarm # Nobody /\ alarm <= day
    /\ ForgetExpired /\ Schedule(Nobody)
    /\ UNCHANGED <<day, sheet, posts, assessed, drawnIds, doubt>>

AuditStoreRestarts ==
    /\ ForgetExpired /\ Schedule(alarm)
    /\ UNCHANGED <<day, sheet, posts, assessed, drawnIds, doubt>>

DayPasses ==
    /\ day < LastDay /\ day' = day + 1
    /\ UNCHANGED <<audits, overrides, alarm, sheet, posts, assessed, drawnIds, doubt>>

\* recordAssessmentOverride. A record found expired goes at once.
Takes(m) == audits[m.audit] # Nobody /\ ~Expired(m.audit)
Override(m) ==
    IF Takes(m)
    THEN overrides' = [overrides EXCEPT ![m.audit] = Append(@, m)] /\ UNCHANGED audits
    ELSE Forget({m.audit})

-----------------------------------------------------------------------------
(* The reviewer's page.                                                    *)

LogOf(a) == overrides[a]

\* assessmentViewModel: the latest override of a heading is its score.
Shown(a, h) ==
    LET mine == {i \in DOMAIN LogOf(a) : LogOf(a)[i].heading = h}
    IN  IF mine = {} THEN audits[a].scores[h] ELSE LogOf(a)[Max(mine)].score

\* Headings of a with a post still on its way.
UnderWay(a) == {m.heading : m \in {m \in posts : m.audit = a}}

OpenReview(a) ==
    /\ sheet = Nobody /\ audits[a] # Nobody
    /\ IF Expired(a)
       THEN Forget({a}) /\ UNCHANGED <<sheet, doubt>>
       ELSE /\ sheet' = [audit |-> a, cards |-> [h \in Headings |-> Shown(a, h)],
                          log |-> LogOf(a), saving |-> Nobody, recorded |-> FALSE]
            /\ doubt' = UnderWay(a)
            /\ UNCHANGED <<audits, overrides>>
    /\ UNCHANGED <<day, alarm, posts, assessed, drawnIds>>

\* One submission at a time: the lock is held until the card is refreshed.
PostOverride(h, s) ==
    /\ sheet # Nobody /\ sheet.saving = Nobody /\ drawnIds < LastOverride
    /\ drawnIds' = drawnIds + 1
    /\ sheet' = [sheet EXCEPT !.recorded = FALSE,
                     !.saving = [id |-> drawnIds', audit |-> sheet.audit, heading |-> h, score |-> s]]
    /\ UNCHANGED <<day, audits, overrides, alarm, posts, assessed, doubt>>

Posting == sheet # Nobody /\ sheet.saving # Nobody /\ ~sheet.recorded

PostAnswered ==
    /\ Posting /\ Override(sheet.saving)
    /\ sheet' = IF Takes(sheet.saving) THEN [sheet EXCEPT !.recorded = TRUE]
                 ELSE [sheet EXCEPT !.saving = Nobody]
    /\ UNCHANGED <<day, alarm, posts, assessed, drawnIds, doubt>>

\* "Was not recorded, try again": it may have been, may be later or never.
PostFails ==
    /\ Posting
    /\ \/ Override(sheet.saving) /\ UNCHANGED posts
       \/ posts' = posts \cup {sheet.saving} /\ UNCHANGED <<audits, overrides>>
       \/ UNCHANGED <<audits, overrides, posts>>
    /\ sheet' = [sheet EXCEPT !.saving = Nobody]
    /\ doubt' = doubt \cup {sheet.saving.heading}
    /\ UNCHANGED <<day, alarm, assessed, drawnIds>>

PostArrives(m) ==
    /\ Override(m) /\ posts' = posts \ {m}
    /\ UNCHANGED <<day, alarm, sheet, assessed, drawnIds, doubt>>

\* refreshFromServer: the card of this heading and the whole log are swapped in.
Refreshed ==
    [sheet EXCEPT !.cards[sheet.saving.heading] = Shown(sheet.audit, sheet.saving.heading),
                   !.log = LogOf(sheet.audit), !.saving = Nobody]

RefreshAnswered ==
    /\ sheet # Nobody /\ sheet.recorded /\ sheet.saving # Nobody /\ audits[sheet.audit] # Nobody
    /\ IF Expired(sheet.audit)
       THEN Forget({sheet.audit}) /\ sheet' = Nobody /\ doubt' = {}
       ELSE /\ sheet' = Refreshed
            /\ doubt' = doubt \ ({sheet.saving.heading} \ UnderWay(sheet.audit))
            /\ UNCHANGED <<audits, overrides>>
    /\ UNCHANGED <<day, alarm, posts, assessed, drawnIds>>

\* The page goes: left, or reloaded because the refresh failed. A post may go on.
CloseReview ==
    /\ sheet # Nobody /\ sheet' = Nobody /\ doubt' = {}
    /\ posts' \in IF Posting THEN {posts, posts \cup {sheet.saving}} ELSE {posts}
    /\ UNCHANGED <<day, audits, overrides, alarm, assessed, drawnIds>>

AuditNext ==
    \/ \E cards \in Panels : Assess(cards)
    \/ \E a \in AuditIds : OpenReview(a)
    \/ AlarmRings \/ AuditStoreRestarts \/ DayPasses
    \/ \E h \in Headings, s \in Entered : PostOverride(h, s)
    \/ PostAnswered \/ PostFails \/ RefreshAnswered \/ CloseReview
    \/ \E m \in posts : PostArrives(m)

AuditSpec == AuditInit /\ [][AuditNext]_auditVars

-----------------------------------------------------------------------------
(* Properties.                                                             *)

\* The variables have their types.
AuditTypeOK ==
    /\ day \in 0..LastDay /\ assessed \in 0..LastAudit /\ drawnIds \in 0..LastOverride
    /\ doubt \subseteq Headings
    /\ audits \in [AuditIds -> Records \cup {Nobody}]
    /\ overrides \in [AuditIds -> Seq(Overrides)] /\ posts \subseteq Overrides
    /\ alarm \in Nat \cup {Nobody} /\ sheet \in Reviews \cup {Nobody}

\* Every record is forgotten in time: whatever was recorded, read, deleted or restarted
\* in between, an alarm is set no later than its expiry.
AlarmCoversRecords ==
    \A a \in KeptAudits : alarm # Nobody /\ alarm <= audits[a].expires

\* No override outlives the record it is about, also one that arrives late.
OverridesHaveRecords ==
    \A a \in AuditIds : overrides[a] # <<>> => a \in KeptAudits

\* The comment on top of assessment-review.js: a page at rest shows what a reload would
\* show, except for headings with a post that failed.
PageIsAReload ==
    sheet # Nobody /\ sheet.saving = Nobody /\ sheet.audit \in KeptAudits =>
        /\ \A h \in Headings \ doubt : sheet.cards[h] = Shown(sheet.audit, h)
        /\ doubt = {} => sheet.log = LogOf(sheet.audit)

\* The audit is what the reviewer saw and nothing of it stays too long.
AuditIsKeptHonestly == AlarmCoversRecords /\ OverridesHaveRecords /\ PageIsAReload
=============================================================================
