--------------------------- MODULE MCSubscription ---------------------------
(* Instances of Subscription for TLC. *)
EXTENDS Subscription, TLC

CONSTANTS a, b, k1, k2

(* Two overlapping topics, as "x/**" and "x/y": b is matched by fewer keys. *)
OverlappingMatch == [t \in {a, b} |-> IF t = a THEN Key ELSE Key \ {k2}]

(* One topic that matches both keys. *)
SingleMatch == [t \in {a} |-> Key]
=============================================================================
