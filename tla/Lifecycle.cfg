SPECIFICATION FairSpec
CONSTANTS
  parent = parent
  child = child
  other = other
  Absent = Absent
  Procs = {parent, child, other}
  ParentOf <- Family
  Servers = {child}
  Migrators = {parent, child}
  Requests = {q1}
  TableCount = 2
  InitTables = {}
  Faults = TRUE
INVARIANT TypeOK StopLosesNothing MigrationCompletes
PROPERTY StopEnds
CHECK_DEADLOCK FALSE
