----------------------------- MODULE MCLifecycle -----------------------------
(* Processes for model checking Lifecycle: a parent and its prefork child,   *)
(* which migrate, and another parent on the same database, which does not.   *)
EXTENDS Lifecycle

CONSTANTS parent, child, other

Family == [p \in {parent, child, other} |-> IF p = child THEN parent ELSE Absent]
=============================================================================
