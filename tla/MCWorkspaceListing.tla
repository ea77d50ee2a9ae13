-------------------------- MODULE MCWorkspaceListing --------------------------
(* Query-string values for model checking WorkspaceListing. *)
EXTENDS WorkspaceListing

\* A page or limit that is missing or not a number reads as 0 here: the handler
\* falls back to its default for both.  31 is the largest integer.
SomePages  == {-1, 0, 1, 2, 3, 11, 12, 22, 23, 31}
SomeLimits == {0, 1, 2, 3, 4}
=============================================================================
