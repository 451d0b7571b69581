------------------------- MODULE MCPublisherReview -------------------------
(***************************************************************************)
(* Two sources that share an atomic group, the second with a structural    *)
(* edit beside its prose.                                                  *)
(***************************************************************************)
EXTENDS PublisherReview

MCSourceOf == [u \in Units |-> IF u = "a" THEN "s1" ELSE "s2"]
MCGroupOf == [u \in Units |-> IF u = "d" THEN NoGroup ELSE "g"]
=============================================================================
