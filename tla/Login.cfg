SPECIFICATION GatewaySpec
CONSTANTS
  s1 = s1
  s2 = s2
  Absent = Absent
  Logins = {l1, l2}
  Callbacks = {c1, c2}
  Mes = {}
  Logouts = {}
  Others = {w1}
  Stores = {k1}
  Browsers = {b1, b2}
  Subs = {s1, s2}
  EmailOf <- OwnEmail
  InitUsers <- Nobody
  Faults = TRUE
  Expiry = FALSE
  Accounts = {1, 2}
  Names = {"n"}
  Descs = {}
  InitRows <- Nobody
  Lost = FALSE
SYMMETRY LoginSymmetry
INVARIANT TypeOK SessionsAreGranted SessionsDoNotCross OneAccountPerSub FlowCompletesOnce WritesAreGranted
CHECK_DEADLOCK FALSE
