-------------------------- MODULE CanonicalRefCas --------------------------
(***************************************************************************)
(* tools/canonical_ref_cas.py: it moves canonical main by one commit, from *)
(* the prior to the candidate (forward) or back (restore), over four       *)
(* surfaces that no transaction spans, and leaves a receipt.               *)
(*                                                                         *)
(* A surface holds the prior, the candidate or somebody else's commit. A   *)
(* git command may work and still be reported as failed, be interrupted,   *)
(* or time out; a timed out push may land when its client is long gone.    *)
(* Others commit in the daemon's checkout, push and fetch at any time. The *)
(* checks of coordinates, URLs, worktrees and other refs are one step that *)
(* may refuse.                                                             *)
(***************************************************************************)
EXTENDS Naturals, Sequences, SequencesExt

VARIABLES
    refs,      \* what each surface holds
    cas,       \* the running command
    push,      \* a push without a client: where it leads, or Nowhere
    receipt,   \* the last receipt
    moved,     \* surfaces the command has moved, whether it knows it or not
    others     \* surfaces somebody else has moved

casVars == <<refs, cas, push, receipt, moved, others>>

Surfaces == {"local", "tree", "remote", "tracking"}
Holdings == {"prior", "candidate", "other"}
Nowhere == "nowhere"
Unread == "unread"
NoReceipt ==
    [outcome |-> "none", verb |-> "forward", ledger |-> <<>>, tried |-> FALSE, remote |-> Unread]
Resting == [at |-> "idle", verb |-> "forward", dry |-> FALSE, ledger |-> <<>>, tried |-> FALSE]

CasInit ==
    /\ refs = [s \in Surfaces |-> "prior"] /\ cas = Resting /\ push = Nowhere
    /\ receipt = NoReceipt /\ moved = {} /\ others = {}

\* _intended_mutations, FORWARD_MUTATIONS and RESTORE_MUTATIONS.
Intended(verb) ==
    IF verb = "forward" THEN <<"local", "tree", "remote", "tracking">>
    ELSE <<"remote", "local", "tree", "tracking">>

FromOf(verb) == IF verb = "forward" THEN "prior" ELSE "candidate"
ToOf(verb) == IF verb = "forward" THEN "candidate" ELSE "prior"
From == FromOf(cas.verb)
To == ToOf(cas.verb)
Failing == [cas EXCEPT !.at = "failed"]
NextMutation(ledger) == IF Len(ledger) = 4 THEN "remote?" ELSE Intended(cas.verb)[Len(ledger) + 1]

-----------------------------------------------------------------------------
(* The command.                                                            *)

\* forward and restore, for real or as a rehearsal.
Start(verb, dry) ==
    /\ cas.at = "idle"
    /\ cas' = [Resting EXCEPT !.at = "check", !.verb = verb, !.dry = dry]
    /\ moved' = {}
    /\ UNCHANGED <<refs, push, receipt, others>>

\* Every surface is at from, and the tree is clean.
Check ==
    /\ cas.at = "check"
    /\ \/ cas' = Failing
       \/ /\ \A s \in Surfaces : refs[s] = From
          /\ cas' = [cas EXCEPT !.at = IF cas.dry THEN "remote?" ELSE "again"]
    /\ UNCHANGED <<refs, push, receipt, moved, others>>

\* The local proof is repeated before the first mutation.
CheckAgain ==
    /\ cas.at = "again"
    /\ cas' = IF refs.local = From /\ refs.tracking = From
               THEN [cas EXCEPT !.at = NextMutation(<<>>)] ELSE Failing
    /\ UNCHANGED <<refs, push, receipt, moved, others>>

\* A mutation is in the ledger once its command has returned.
Moves(s, then) ==
    /\ refs' = [refs EXCEPT ![s] = To] /\ moved' = moved \cup {s}
    /\ cas' \in {[cas EXCEPT !.ledger = Append(@, s), !.at = then], Failing}
Refuses == cas' = Failing /\ UNCHANGED <<refs, moved>>

\* Mutant: update-ref without the old value.
LocalMove ==
    /\ cas.at = "local" /\ (Moves("local", "tree?") \/ Refuses)
    /\ UNCHANGED <<push, receipt, others>>

\* update-ref with the old value, for main and for the tracking ref.
LocalCas ==
    /\ cas.at = "local"
    /\ \/ refs.local = From /\ Moves("local", "tree?")
       \/ Refuses
    /\ UNCHANGED <<push, receipt, others>>

TrackingCas ==
    /\ cas.at = "tracking"
    /\ \/ refs.tracking = From /\ Moves("tracking", "remote?")
       \/ Refuses
    /\ UNCHANGED <<push, receipt, others>>

\* main is read again before and after read-tree; in between it may move.
BeforeAlignment ==
    /\ cas.at = "tree?"
    /\ cas' = IF refs.local = To THEN [cas EXCEPT !.at = "tree"] ELSE Failing
    /\ UNCHANGED <<refs, push, receipt, moved, others>>

AlignTree ==
    /\ cas.at = "tree" /\ (Moves("tree", "aligned") \/ Refuses)
    /\ UNCHANGED <<push, receipt, others>>

AfterAlignment ==
    /\ cas.at = "aligned"
    /\ cas' = IF refs.local = To THEN [cas EXCEPT !.at = NextMutation(cas.ledger)] ELSE Failing
    /\ UNCHANGED <<refs, push, receipt, moved, others>>

MayPush == refs.remote \in {From, To}

\* push --force-with-lease: what is there already counts as pushed. remote_main_attempted
\* is set before it.
PushMain ==
    LET tried == [cas EXCEPT !.tried = TRUE]
    IN /\ cas.at = "remote"
       /\ \/ /\ MayPush
             /\ refs' = [refs EXCEPT !.remote = To]
             /\ moved' = IF refs.remote = To THEN moved ELSE moved \cup {"remote"}
             /\ cas' \in {[tried EXCEPT !.ledger = Append(@, "remote"),
                                        !.at = NextMutation(Append(cas.ledger, "remote"))],
                          [tried EXCEPT !.at = "failed"]}
             /\ UNCHANGED push
          \/ /\ cas' = [tried EXCEPT !.at = "failed"] /\ UNCHANGED <<refs, moved>>
             /\ push' \in {push, To}
       /\ UNCHANGED <<receipt, others>>

\* _require_final_state: the remote first, then everything local.
Expected == IF cas.dry THEN From ELSE To
FinalRemote ==
    /\ cas.at = "remote?"
    /\ cas' = Failing \/ (refs.remote = Expected /\ cas' = [cas EXCEPT !.at = "local?"])
    /\ UNCHANGED <<refs, push, receipt, moved, others>>

-----------------------------------------------------------------------------
(* The receipt.                                                            *)

\* _execute: a push reported as failed is reconciled with what the remote holds.
ConfirmedLedger(ledger, remote) ==
    IF cas.tried /\ ~Contains(ledger, "remote") /\ remote = To
    THEN Append(ledger, "remote") ELSE ledger

\* _transition_outcome.
OutcomeOf(ledger, local, remote, surprised) ==
    LET observed == local = To /\ remote = To
        complete == ledger = Intended(cas.verb)
    IN IF cas.dry THEN "not-attempted"
       ELSE IF complete /\ observed /\ ~surprised THEN "succeeded"
       ELSE IF ledger = <<>> /\ observed THEN "target-already-present"
       ELSE IF observed \/ (complete /\ {local, remote} \subseteq {To, Unread})
            THEN "landed-verification-incomplete"
       ELSE IF ledger = <<>> /\ ~(cas.tried /\ remote = Unread) THEN "not-landed"
       ELSE "incomplete"

Writes(outcome, ledger, remote) ==
    /\ receipt' = [outcome |-> outcome, verb |-> cas.verb, ledger |-> ledger,
                    tried |-> cas.tried, remote |-> remote]
    /\ cas' = Resting /\ UNCHANGED <<refs, push, moved, others>>

Succeed ==
    /\ cas.at = "local?"
    /\ \A s \in Surfaces : s # "remote" => refs[s] = Expected
    /\ Writes(OutcomeOf(cas.ledger, Expected, Expected, FALSE), cas.ledger, Expected)

FinalLocalFails ==
    /\ cas.at = "local?" /\ cas' = Failing
    /\ UNCHANGED <<refs, push, receipt, moved, others>>

\* The handler reads what it can. (HEAD is main, so both are read as one.)
Report ==
    /\ cas.at = "failed"
    /\ \E local \in {refs.local, Unread}, remote \in {refs.remote, Unread} :
          LET ledger == ConfirmedLedger(cas.ledger, remote)
          IN Writes(OutcomeOf(ledger, local, remote, TRUE), ledger, remote)

\* It is interrupted itself: nothing is claimed.
Undetermined == cas.at = "failed" /\ Writes("undetermined", cas.ledger, Unread)

\* The process is killed, or the receipt cannot be published.
Killed ==
    /\ cas.at # "idle" /\ cas' = Resting /\ receipt' = NoReceipt
    /\ push' \in {push} \cup (IF cas.at = "remote" THEN {To} ELSE {})
    /\ UNCHANGED <<refs, moved, others>>

-----------------------------------------------------------------------------
(* Everybody else.                                                         *)

\* A late push of an earlier command counts as this one's if both want the same.
PushLands ==
    /\ push # Nowhere /\ push' = Nowhere
    /\ IF refs.remote \in {"prior", "candidate"} \ {push}
       THEN /\ refs' = [refs EXCEPT !.remote = push]
            /\ moved' = IF cas.at # "idle" /\ push = To THEN moved \cup {"remote"} ELSE moved
       ELSE UNCHANGED <<refs, moved>>
    /\ UNCHANGED <<cas, receipt, others>>

SomebodyPushes ==
    /\ refs' = [refs EXCEPT !.remote = "other"] /\ others' = others \cup {"remote"}
    /\ UNCHANGED <<cas, push, receipt, moved>>

SomebodyCommits ==
    /\ refs' = [refs EXCEPT !.local = "other", !.tree = "other"] /\ others' = others \cup {"local"}
    /\ UNCHANGED <<cas, push, receipt, moved>>

SomebodyFetches ==
    /\ refs' = [refs EXCEPT !.tracking = refs.remote]
    /\ UNCHANGED <<cas, push, receipt, moved, others>>

CasNext ==
    \/ \E verb \in {"forward", "restore"}, dry \in BOOLEAN : Start(verb, dry)
    \/ Check \/ CheckAgain \/ LocalCas \/ TrackingCas \/ BeforeAlignment \/ AlignTree
    \/ AfterAlignment \/ PushMain \/ FinalRemote \/ Succeed \/ FinalLocalFails
    \/ Report \/ Undetermined \/ Killed
    \/ PushLands \/ SomebodyPushes \/ SomebodyCommits \/ SomebodyFetches

CasSpec == CasInit /\ [][CasNext]_casVars

-----------------------------------------------------------------------------
(* Properties.                                                             *)

\* The variables have their types.
CasTypeOK ==
    /\ refs \in [Surfaces -> Holdings] /\ push \in {Nowhere, "prior", "candidate"}
    /\ cas.at \in {"idle", "check", "again", "local", "tree?", "tree", "aligned", "remote",
                   "tracking", "remote?", "local?", "failed"}
    /\ moved \subseteq Surfaces /\ others \subseteq {"local", "remote"}

\* Nobody's commit is overwritten, whenever it was made: main and the remote are left
\* where somebody else has put them.
OthersKeepTheirs == \A s \in others : refs[s] = "other"

\* What the receipt may be trusted for, until the next command starts: its ledger lists
\* nothing that did not happen; "succeeded" and the verdict that forbids a compensation
\* mean that main has moved here and at the remote; a rehearsal has moved nothing, nor has
\* a command that found its target; and "not-landed" after a push is said only of a remote
\* that was read elsewhere, and of one that is where it was only if the push did not land.
ReceiptIsTrue ==
    cas.at = "idle" =>
        LET Says(o) == receipt.outcome = o
        IN /\ ToSet(receipt.ledger) \subseteq moved
           /\ Says("succeeded") => moved = Surfaces
           /\ Says("landed-verification-incomplete") => {"local", "remote"} \subseteq moved
           /\ Says("not-attempted") \/ Says("target-already-present") => moved \subseteq {"remote"}
           /\ Says("not-landed") /\ receipt.tried
              => receipt.remote \notin {ToOf(receipt.verb), Unread}
           /\ Says("not-landed") /\ receipt.remote = FromOf(receipt.verb) => "remote" \notin moved

\* A transition of the canonical ref is bounded and leaves a true receipt.
CasIsExact == OthersKeepTheirs /\ ReceiptIsTrue
=============================================================================
