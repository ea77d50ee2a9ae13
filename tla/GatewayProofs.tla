----------------------------- MODULE GatewayProofs -----------------------------
(***************************************************************************)
(* Proofs about Gateway, for any table of workspaces: the invariant of     *)
(* OidcLogin survives the requests of the workspace module, and every      *)
(* verdict and every changed row goes to an account that was granted.      *)
(***************************************************************************)
EXTENDS Gateway, OidcLoginProofs

Verdicts == [verdict: {"open", "refused", "accepted"}, by: UserIds \cup {Absent}]

GatewayInv == /\ IInv
              /\ table \in Seq(Registry!Row)
              /\ outcome \in [Others -> Verdicts]
              /\ \A r \in Others : outcome[r] # Registry!Open => pc[r] # "new"
              /\ WritesAreGranted

\* A row of a table that is new, unchanged, or somebody's to whom it was granted.
RowOK(i) == \/ i \in DOMAIN InitRows /\ table[i] = InitRows[i]
            \/ \E b \in Browsers : Granted(b, table[i].owner)

LEMMA GatewayInitInv == GatewayInit => GatewayInv
<1> SUFFICES ASSUME GatewayInit PROVE GatewayInv
  OBVIOUS
<1>1. IInv
  BY InitInv DEF GatewayInit
<1>2. table = InitRows /\ outcome = [r \in Others |-> Registry!Open]
  BY DEF GatewayInit, Registry!Init
<1>3. Registry!Open \in Verdicts
  BY DEF Registry!Open, Verdicts
<1>4. QED
  BY <1>1, <1>2, <1>3, TableAssumption DEF GatewayInv, WritesAreGranted

\* A step of OidcLogin: what was granted stays granted.
LEMMA LoginStepInv ==
  ASSUME GatewayInv, [Next]_vars, UNCHANGED regVars
  PROVE  GatewayInv'
<1> USE DEF regVars
<1>1. IInv /\ IInv' /\ Grow
  BY NextInv, NextGrows DEF GatewayInv
<1>2. ASSUME NEW r \in Others, outcome[r] # Registry!Open
      PROVE  pc'[r] # "new" /\ Granted(from[r], outcome[r].by)'
  <2>1. pc[r] # "new" /\ Granted(from[r], outcome[r].by) /\ r \in Requests
    BY <1>2 DEF GatewayInv, WritesAreGranted, Requests
  <2>2. from[r] \in Browsers /\ pc'[r] # "new" /\ from'[r] = from[r]
    BY <1>1, <2>1 DEF IInv, RequestOK, Sent, Grow
  <2>3. QED
    BY <1>1, <2>1, <2>2, GrantedStays DEF Granted
<1>3. ASSUME NEW i \in DOMAIN table PROVE RowOK(i)'
  <2>1. RowOK(i)
    BY DEF RowOK, GatewayInv, WritesAreGranted
  <2>2. ASSUME NEW b \in Browsers, Granted(b, table[i].owner)
        PROVE  Granted(b, table[i].owner)'
    BY <1>1, <2>2, GrantedStays DEF Granted
  <2>3. QED
    BY <2>1, <2>2 DEF RowOK
<1>4. WritesAreGranted'
  BY <1>2, <1>3 DEF WritesAreGranted, RowOK, Registry!Open
<1>5. QED
  BY <1>1, <1>2, <1>4 DEF GatewayInv, Registry!Open

\* A request for a workspace is decided for the user that RequireAuth granted it.
LEMMA ServeInv ==
  ASSUME GatewayInv, NEW r \in Others, Serve(r)
  PROVE  GatewayInv'
<1> DEFINE u == uid[r]
<1>1. /\ r \in Requests /\ pc[r] = "next" /\ IInv
      /\ UNCHANGED <<server, grant, client, sess, uid>>
      /\ Decides(r, u) /\ outcome'[r].by = u
  BY DEF Serve, Requests, GatewayInv
<1>2. from[r] \in Browsers /\ Granted(from[r], u) /\ u \in UserIds
  <2>1. Granted(from[r], u) /\ from[r] \in Browsers
    BY <1>1 DEF IInv, RequestOK, Sent, OwnUser, Named
  <2>2. QED
    BY <1>1, <2>1 DEF Granted, IInv, TypeOK, UserIds
<1>3. IInv' /\ pc'[r] = "replied" /\ \A q \in Requests \ {r} : pc'[q] = pc[q]
  <2>1. PICK s \in {200, 400} : Reply(r, s, "keep")
    BY DEF Serve
  <2>2. r \notin Mes
    BY RoutesAssumption
  <2>3. IInv'
    BY <1>1, <2>1, <2>2, RefuseInv
  <2>4. QED
    BY <1>1, <2>1, <2>3, ReplyTypes DEF IInv
<1>4. \A b, v : Granted(b, v)' <=> Granted(b, v)
  BY <1>1 DEF Granted, server, client
<1>5. PICK v \in Verdicts : outcome' = [outcome EXCEPT ![r] = v]
  <2>1. /\ \A w \in Accounts \cup {Absent} : Registry!Refused(w) \in Verdicts
        /\ Registry!Accepted(u) \in Verdicts /\ Registry!Refused(u) \in Verdicts
    BY <1>2, AccountsAssumption DEF Registry!Refused, Registry!Accepted, Verdicts
  <2>2. \A w \in Registry!Told(u) : w \in Verdicts
    BY <2>1 DEF Registry!Told
  <2>3. QED
    BY <1>1, <2>1, <2>2
    DEF Decides, Registry!Register, Registry!Amend, Registry!Retire, Registry!NoEffect,
        Registry!Refuse, Registry!Decide
<1>6. /\ outcome' \in [Others -> Verdicts] /\ outcome'[r].by = u
      /\ \A q \in Others \ {r} : outcome'[q] = outcome[q]
  BY <1>1, <1>5 DEF GatewayInv
<1>7. /\ table' \in Seq(Registry!Row)
      /\ \A i \in DOMAIN table' :
           \/ i \in DOMAIN table /\ table'[i] = table[i]
           \/ table'[i].owner = u
  <2> DEFINE Row == Registry!Row
             Goal == /\ table' \in Seq(Row)
                     /\ \A i \in DOMAIN table' :
                          \/ i \in DOMAIN table /\ table'[i] = table[i]
                          \/ table'[i].owner = u
  <2>1. table \in Seq(Row)
    BY DEF GatewayInv
  <2>2. ASSUME UNCHANGED table PROVE Goal
    BY <2>1, <2>2
  <2>3. ASSUME NEW row \in Row, row.owner = u, table' = Append(table, row)
        PROVE  Goal
    <3> HIDE DEF Row
    <3>1. QED
      BY <2>1, <2>3
  <2>4. ASSUME NEW i \in DOMAIN table, NEW row \in Row, row.owner = u,
               table' = [table EXCEPT ![i] = row]
        PROVE  Goal
    <3> HIDE DEF Row
    <3>1. QED
      BY <2>1, <2>4
  <2>5. ASSUME Registry!Retire(r, u) PROVE Goal
    <3>1. PICK i \in DOMAIN table : /\ table[i].owner = u
                                    /\ table' = [table EXCEPT ![i].deleted = TRUE]
      BY <2>5 DEF Registry!Retire
    <3> DEFINE row == [table[i] EXCEPT !.deleted = TRUE]
    <3>2. table[i] \in Row
      BY <2>1
    <3>3. row \in Row /\ row.owner = u
      BY <3>1, <3>2 DEF Registry!Row
    <3>4. table' = [table EXCEPT ![i] = row]
      BY <3>1
    <3>5. QED
      BY <2>4, <3>3, <3>4
  <2>6. QED
    BY <1>1, <2>2, <2>3, <2>4, <2>5
    DEF Decides, Registry!Register, Registry!Amend, Registry!NoEffect, Registry!Refuse
<1>8. WritesAreGranted'
  <2>1. ASSUME NEW q \in Others, outcome'[q] # Registry!Open
        PROVE  Granted(from[q], outcome[q].by)'
    <3>1. from' = from
      BY <1>1 DEF client
    <3>2. Granted(from[q], outcome'[q].by)
      BY <1>2, <1>6, <2>1 DEF GatewayInv, WritesAreGranted
    <3>3. QED
      BY <3>1, <3>2, <1>1 DEF Granted, server, client
  <2>2. ASSUME NEW i \in DOMAIN table'
        PROVE  RowOK(i)'
    <3>1. CASE i \in DOMAIN table /\ table'[i] = table[i]
      BY <1>4, <3>1 DEF GatewayInv, WritesAreGranted, RowOK
    <3>2. CASE table'[i].owner = u
      BY <1>1, <1>2, <3>2 DEF RowOK, Granted, server, client
    <3>3. QED
      BY <1>7, <3>1, <3>2
  <2>3. QED
    BY <2>1, <2>2 DEF WritesAreGranted, RowOK, Registry!Open
<1>9. QED
  BY <1>1, <1>3, <1>6, <1>7, <1>8 DEF GatewayInv, Requests, Registry!Open

LEMMA GatewayInvariance == GatewaySpec => []GatewayInv
<1>1. GatewayInv /\ [GatewayNext]_<<vars, regVars>> => GatewayInv'
  BY LoginStepInv, ServeInv DEF GatewayNext, regVars
<1>2. QED
  BY <1>1, GatewayInitInv, PTL DEF GatewaySpec

-----------------------------------------------------------------------------
\* Whatever becomes of the session between RequireAuth and the handler, a request
\* for a workspace is decided for an account granted to its browser, and only such
\* an account gets a new or a changed row (middleware/auth.go:36-53).
THEOREM DecidedAsGranted == GatewaySpec => []WritesAreGranted
<1>1. GatewayInv => WritesAreGranted
  BY DEF GatewayInv
<1>2. QED
  BY <1>1, GatewayInvariance, PTL

\* The requests of the workspace module leave all promises about sessions, flows
\* and accounts as they are.
THEOREM LoginUndisturbed ==
  GatewaySpec => [](SessionsAreGranted /\ SessionsDoNotCross /\ OneAccountPerSub
                    /\ FlowCompletesOnce)
<1>1. GatewayInv => /\ SessionsAreGranted /\ SessionsDoNotCross /\ OneAccountPerSub
                    /\ FlowCompletesOnce
  BY Implications DEF GatewayInv
<1>2. QED
  BY <1>1, GatewayInvariance, PTL
=============================================================================
