SPECIFICATION GatewayFairSpec
CONSTANTS
  s1 = s1
  s2 = s2
  Absent = Absent
  Logins = {l1}
  Callbacks = {c1, c2}
  Mes = {m1}
  Logouts = {o1}
  Others = {}
  Stores = {k1, k2}
  Browsers = {b1}
  Subs = {s1}
  EmailOf <- OwnEmail
  InitUsers <- Nobody
  Faults = FALSE
  Expiry = TRUE
  Accounts = {1, 2}
  Names = {"n"}
  Descs = {}
  InitRows <- Nobody
  Lost = FALSE
INVARIANT SessionsAreGranted
PROPERTY LoginCompletes
CHECK_DEADLOCK FALSE
