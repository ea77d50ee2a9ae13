SPECIFICATION Spec
CONSTANTS
  u1 = u1
  u2 = u2
  n1 = n1
  n2 = n2
  Absent = Absent
  Requests = {r1, r2}
  Users = {u1}
  Names = {n1, n2}
  Descs = {}
  Ids = {1}
  InitRows <- OneRow
  Faults = FALSE
  Lost = FALSE
PROPERTY FreeNameIsGranted
CHECK_DEADLOCK FALSE
