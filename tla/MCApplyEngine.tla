---------------------------- MODULE MCApplyEngine ----------------------------
(* Small instances of the apply engine.  On one block t1: two editors' prose   *)
(* edits p1 and p2, and a block i1 inserted next to it, which an admin has to  *)
(* accept.  With a second block t2: the companions c1 and c2 of one group.     *)
EXTENDS ApplyEngine, TLC

CONSTANTS p1, p2, i1, c1, c2, john, mary, svc, t1, t2, g1

Columns1(e, t, o, k, g) == [editor |-> e, target |-> t, origin |-> o, kind |-> k, group |-> g]

MCAttr ==
  [s \in Suggestion |->
     CASE s = p1 -> Columns1(john, t1, "human", "prose", NoGroup)
       [] s = p2 -> Columns1(mary, t1, "human", "prose", NoGroup)
       [] s = i1 -> Columns1(john, t1, "human", "structural", NoGroup)
       [] s = c1 -> Columns1(svc, t1, "system", "prose", g1)
       [] s = c2 -> Columns1(svc, t2, "system", "prose", g1)]

MCOutcomes == [Suggestion -> Outcome \cup {"keep"}]
MCPhases == Phase

\* Batch ids are interchangeable; used by the safety runs only.
MCSymmetry == Permutations(Batch)
=============================================================================
