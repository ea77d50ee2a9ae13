SPECIFICATION Spec
CONSTANTS
  u1 = u1
  u2 = u2
  n1 = n1
  n2 = n2
  Absent = Absent
  Requests = {r1, r2}
  Users = {u1, u2}
  Names = {n1, n2}
  Descs = {d1}
  Ids = {1, 2}
  InitRows <- TwoRows
  Faults = TRUE
  Lost = FALSE
SYMMETRY RequestSymmetry
INVARIANT CheckStillHolds CreatesAccounted DeletionsAccounted PublishedByOwner NamesHaveAuthor
CHECK_DEADLOCK FALSE
