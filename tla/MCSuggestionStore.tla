-------------------------- MODULE MCSuggestionStore --------------------------
(* A small instance of the suggestion store: a human editor with two competing *)
(* edits of one block, and a companion the service slot proposed on another. *)
EXTENDS SuggestionStore, TLC

CONSTANTS h1, h2, c1, john, svc, t1, t2, g1

MCAttr ==
  [s \in {h1, h2, c1} |->
     CASE s \in {h1, h2} -> [editor |-> john, target |-> t1, origin |-> "human",
                             kind |-> "prose", group |-> NoGroup]
       [] s = c1 -> [editor |-> svc, target |-> t2, origin |-> "system",
                             kind |-> "prose", group |-> g1]]

\* A call lists at most one row; longer lists are sequences of such calls.
Keep == [s \in Suggestion |-> "keep"]
MCOutcomes == {Keep} \cup
  {[Keep EXCEPT ![s] = o] : s \in Suggestion, o \in Outcome}

\* Rows with equal columns are interchangeable.
MCSymmetry == Permutations({h1, h2})
=============================================================================
