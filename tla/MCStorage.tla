------------------------------ MODULE MCStorage ------------------------------
(* Calls, their path and their sizes for model checking Storage. *)
EXTENDS Storage

CONSTANTS up1, up2, del, read, path

\* All calls meet at one path.
OnePath == [c \in Calls |-> path]

\* Bodies of different length: the shorter one may end up inside the longer one.
Sizes == [u \in Uploads |-> IF u = up1 THEN 2 ELSE 1]
=============================================================================
