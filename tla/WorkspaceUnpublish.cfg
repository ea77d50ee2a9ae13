SPECIFICATION Spec
CONSTANTS
  u1 = u1
  u2 = u2
  n1 = n1
  n2 = n2
  Absent = Absent
  Requests = {r1}
  Users = {u1}
  Names = {n1, n2}
  Descs = {}
  Ids = {1}
  InitRows <- PublicRow
  Faults = FALSE
  Lost = FALSE
PROPERTY UnpublishTakesEffect
CHECK_DEADLOCK FALSE
