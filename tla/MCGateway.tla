------------------------------ MODULE MCGateway ------------------------------
(* Subjects, tables and symmetry for model checking Gateway. *)
EXTENDS Gateway, TLC

CONSTANTS s1, s2

\* Every subject has an address of its own, and none has an account yet.
OwnEmail == [s \in Subs |-> s]
Nobody   == << >>

\* Requests of one route are alike, and so are browsers and subjects.
LoginSymmetry ==
  Permutations(Logins) \cup Permutations(Callbacks) \cup Permutations(Mes)
  \cup Permutations(Logouts) \cup Permutations(Others) \cup Permutations(Browsers)
  \cup Permutations(Subs)
=============================================================================
