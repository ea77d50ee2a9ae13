SPECIFICATION Spec
CONSTANTS
  u1 = u1
  u2 = u2
  n1 = n1
  n2 = n2
  Absent = Absent
  Requests = {r1, r2, r3}
  Users = {u1}
  Names = {n1, n2}
  Descs = {}
  Ids = {1}
  InitRows <- OneRow
  Faults = TRUE
  Lost = TRUE
SYMMETRY RequestSymmetry
INVARIANT TypeOK LiveNamesUnique
PROPERTY ImplementsRegistry
CHECK_DEADLOCK FALSE
