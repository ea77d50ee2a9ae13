SPECIFICATION GatewaySpec
CONSTANTS
  s1 = s1
  s2 = s2
  Absent = Absent
  Logins = {l1, l2}
  Callbacks = {c1}
  Mes = {}
  Logouts = {o1}
  Others = {}
  Stores = {k1}
  Browsers = {b1}
  Subs = {s1}
  EmailOf <- OwnEmail
  InitUsers <- Nobody
  Faults = FALSE
  Expiry = FALSE
  Accounts = {1, 2}
  Names = {"n"}
  Descs = {}
  InitRows <- Nobody
  Lost = FALSE
PROPERTY LogoutEndsSession
CHECK_DEADLOCK FALSE
