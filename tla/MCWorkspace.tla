----------------------------- MODULE MCWorkspace -----------------------------
(* Small tables and symmetry for model checking Workspace. *)
EXTENDS Workspace, TLC

CONSTANTS u1, u2, n1, n2

Private(u, n) == [owner |-> u, name |-> n, desc |-> Absent,
                  public |-> FALSE, deleted |-> FALSE]

OneRow  == << Private(u1, n1) >>
TwoRows == << Private(u1, n1), Private(u2, n1) >>

\* A workspace that was published.
PublicRow == << [Private(u1, n1) EXCEPT !.public = TRUE] >>

\* Requests differ in nothing but their identity; users and names do, because
\* the initial tables mention them.
RequestSymmetry == Permutations(Requests)
=============================================================================
