----------------------------- MODULE MCFindQuery -----------------------------
(* Two targets: enough for answers that overtake each other.                *)
EXTENDS FindQuery

CONSTANTS t1, t2

MCTargets == {t1, t2}
=============================================================================
