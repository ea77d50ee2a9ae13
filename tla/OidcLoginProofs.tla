---------------------------- MODULE OidcLoginProofs ----------------------------
(***************************************************************************)
(* Proofs about OidcLogin, for any number of requests, browsers, processes *)
(* and subjects, with and without failing calls and expiring sessions:     *)
(* typing, one account for a subject, sessions that belong to the browser  *)
(* they were granted to and that do not cross, and flows that complete at  *)
(* most once, whatever codes and states the callbacks bring.               *)
(***************************************************************************)
EXTENDS OidcLogin, TLAPS

\* Rows of the table differ in their address, hence in their subject.
EmailsUnique ==
  \A i, j \in DOMAIN users : EmailOf[users[i]] = EmailOf[users[j]] => i = j

\* A stored session waits for no other flow than that of the login that minted its
\* id, and belongs to its browser.
SessionOK(k, s) ==
  store[k][s] # Absent =>
    /\ from[s] \in Browsers
    /\ store[k][s].flow \in {Absent, s}
    /\ store[k][s].user # Absent => Granted(from[s], store[k][s].user)

CookieOK(b) == cookie[b] # Absent => from[cookie[b]] = b

\* Where a handler of each route can be.
Route(r) ==
  /\ r \in Logins => pc[r] \in {"new", "get", "regenerate", "save", "replied", "delivered"}
  /\ r \in Callbacks => pc[r] \in {"new", "get", "exchange", "find", "update", "create",
                                   "save", "replied", "delivered"}
  /\ r \in Mes => pc[r] \in {"new", "auth", "get", "find", "replied", "delivered"}
  /\ r \in Logouts => pc[r] \in {"new", "auth", "get", "destroy", "replied", "delivered"}
  /\ r \in Others => pc[r] \in {"new", "auth", "next", "replied", "delivered"}

\* What a request has before and after it was sent.
Sent(r) ==
  /\ pc[r] = "new" => /\ from[r] = Absent /\ sid[r] = Absent
                      /\ code[r] = Absent /\ state[r] = Absent
                      /\ sess[r] = Fresh /\ setc[r] = "keep" /\ status[r] = 0
  /\ pc[r] # "new" => from[r] \in Browsers /\ at[r] \in Stores

\* Every id that a request holds was minted for its browser, and its copy of a
\* session waits for the flow of its id.
OwnIds(r) ==
  /\ sid[r] # Absent => from[sid[r]] = from[r]
  /\ sess[r].id # Absent => from[sess[r].id] = from[r]
  /\ sess[r].flow \in {Absent, sess[r].id}
  /\ setc[r] \in Logins => from[setc[r]] = from[r]

\* The code that a callback carries is of a flow somebody approved.
Issued(r) == code[r] # Absent => grant[code[r]].sub # Absent

\* The callback has exchanged its code, and nothing refused it since: the code was
\* of a flow that its own browser started.
Exchanged == {"find", "update", "create", "save"}
Claims(r) == r \in Callbacks /\ (pc[r] \in Exchanged \/ status[r] = 302)

ClaimOK(r) == Claims(r) => /\ code[r] # Absent
                           /\ grant[code[r]].spent
                           /\ from[code[r]] = from[r]

ClaimsOnce ==
  \A q, r \in Callbacks : Claims(q) /\ Claims(r) /\ code[q] = code[r] => q = r

\* Whoever is about to save has a session to save.
HasSession(r) ==
  (r \in Logins /\ pc[r] = "save") \/ (r \in Callbacks /\ pc[r] \in Exchanged)
  => sess[r].id # Absent

\* Handlers in whose name a user stands in uid.
Named(r) == \/ r \in Callbacks /\ pc[r] \in {"update", "save"}
            \/ r \in Mes /\ status[r] = 200
            \/ r \in Others /\ pc[r] = "next"

\* The users that a handler holds were granted to its browser.
OwnUser(r) == /\ sess[r].user # Absent => Granted(from[r], sess[r].user)
              /\ Named(r) => Granted(from[r], uid[r])

RequestOK(r) == /\ Route(r) /\ Sent(r) /\ OwnIds(r) /\ Issued(r) /\ ClaimOK(r)
                /\ HasSession(r) /\ OwnUser(r)

IInv == /\ TypeOK
        /\ EmailsUnique
        /\ \A k \in Stores, s \in Logins : SessionOK(k, s)
        /\ \A b \in Browsers : CookieOK(b)
        /\ \A r \in Requests : RequestOK(r)
        /\ ClaimsOnce

-----------------------------------------------------------------------------
(* What only grows. *)

\* A request that was sent keeps its browser and its process, an approval and a
\* spent code stay, and so do the rows of the table.
Grow ==
  /\ \A r \in Requests : pc[r] # "new" => /\ pc'[r] # "new"
                                          /\ from'[r] = from[r] /\ at'[r] = at[r]
  /\ \A f \in Logins : /\ grant[f].sub # Absent => grant'[f].sub = grant[f].sub
                       /\ grant[f].spent => grant'[f].spent
  /\ DOMAIN users \subseteq DOMAIN users'
  /\ \A i \in DOMAIN users : users'[i] = users[i]

\* Nothing about request q changes.
Same(q) == /\ pc'[q] = pc[q] /\ from'[q] = from[q] /\ at'[q] = at[q]
           /\ sid'[q] = sid[q] /\ code'[q] = code[q] /\ state'[q] = state[q]
           /\ sess'[q] = sess[q]
           /\ uid'[q] = uid[q] /\ status'[q] = status[q] /\ setc'[q] = setc[q]

\* A login whose browser is known was sent, so it keeps it.
LEMMA KnownStays ==
  ASSUME IInv, Grow, NEW s \in Requests, from[s] \in Browsers
  PROVE  from'[s] = from[s]
<1>1. pc[s] # "new"
  BY AbsentAssumption DEF IInv, RequestOK, Sent
<1>2. QED
  BY <1>1 DEF Grow

\* What was granted stays granted.
LEMMA GrantedStays ==
  ASSUME IInv, Grow, NEW b \in Browsers, NEW u, Granted(b, u)
  PROVE  Granted(b, u)'
<1>1. PICK f \in Logins : from[f] = b /\ grant[f].spent /\ grant[f].sub = users[u]
  BY DEF Granted
<1>2. u \in DOMAIN users /\ users[u] \in Subs
  BY DEF Granted, IInv, TypeOK
<1>3. from'[f] = b
  BY <1>1, KnownStays DEF Requests
<1>4. grant'[f].spent /\ grant'[f].sub = users'[u]
  BY <1>1, <1>2, AbsentAssumption DEF Grow
<1>5. QED
  BY <1>2, <1>3, <1>4 DEF Granted, Grow

\* A stored session that does not change stays in order.
LEMMA SessionStays ==
  ASSUME IInv, Grow, NEW k \in Stores, NEW s \in Logins, store'[k][s] \in {store[k][s], Absent}
  PROVE  SessionOK(k, s)'
<1> SUFFICES ASSUME store'[k][s] # Absent
             PROVE  SessionOK(k, s)'
  BY DEF SessionOK
<1>1. store'[k][s] = store[k][s] /\ SessionOK(k, s)
  BY DEF IInv
<1>2. from'[s] = from[s] /\ from[s] \in Browsers
  BY <1>1, KnownStays DEF SessionOK, Requests
<1>3. QED
  BY <1>1, <1>2, GrantedStays DEF SessionOK

\* A cookie that does not change stays one of its browser.
LEMMA CookieStays ==
  ASSUME IInv, Grow, NEW b \in Browsers, cookie'[b] = cookie[b]
  PROVE  CookieOK(b)'
<1> SUFFICES ASSUME cookie[b] # Absent PROVE from'[cookie[b]] = b
  BY DEF CookieOK
<1>1. cookie[b] \in Logins /\ from[cookie[b]] = b
  BY DEF IInv, TypeOK, CookieOK
<1>2. QED
  BY <1>1, KnownStays DEF Requests

\* A request that takes no step stays in order.
LEMMA RequestStays ==
  ASSUME IInv, Grow, NEW q \in Requests, Same(q)
  PROVE  RequestOK(q)'
<1> USE DEF Same
<1>1. RequestOK(q)
  BY DEF IInv
<1>2. Route(q)' /\ Sent(q)' /\ HasSession(q)'
  BY <1>1 DEF RequestOK, Route, Sent, HasSession
<1>3. CASE pc[q] = "new"
  <2>1. /\ sid[q] = Absent /\ code[q] = Absent /\ sess[q] = Fresh /\ setc[q] = "keep"
        /\ status[q] = 0
    BY <1>1, <1>3 DEF RequestOK, Sent
  <2>2. ~Claims(q)' /\ ~Named(q)'
    BY <1>3, <2>1 DEF Claims, Named, Exchanged
  <2>3. QED
    BY <1>1, <1>2, <2>1, <2>2, AbsentAssumption
    DEF RequestOK, OwnIds, Issued, ClaimOK, OwnUser, Fresh
<1>4. CASE pc[q] # "new"
  <2>1. from[q] \in Browsers /\ from'[q] = from[q] /\ at'[q] = at[q]
    BY <1>1, <1>4 DEF RequestOK, Sent
  <2>2. /\ sid[q] \in Logins \cup {Absent} /\ code[q] \in Logins \cup {Absent}
        /\ sess[q].id \in Logins \cup {Absent}
    BY DEF IInv, TypeOK, Copy
  <2>3. \A s \in Logins : from[s] = from[q] => from'[s] = from[s]
    BY <2>1, KnownStays DEF Requests
  <2>4. OwnIds(q)'
    BY <1>1, <2>1, <2>2, <2>3 DEF RequestOK, OwnIds
  <2>5. Issued(q)' /\ ClaimOK(q)'
    BY <1>1, <2>1, <2>2, <2>3
    DEF RequestOK, Issued, ClaimOK, Claims, Grow
  <2>6. OwnUser(q)'
    BY <1>1, <2>1, GrantedStays DEF RequestOK, OwnUser, Named
  <2>7. QED
    BY <1>2, <2>4, <2>5, <2>6 DEF RequestOK
<1>5. QED
  BY <1>3, <1>4

\* It suffices to look at the request that takes the step.
LEMMA Undisturbed ==
  ASSUME IInv, Grow, TypeOK', NEW r \in Requests, \A q \in Requests \ {r} : Same(q),
         RequestOK(r)', EmailsUnique', UNCHANGED cookie,
         \A k \in Stores, s \in Logins : SessionOK(k, s)',
         Claims(r)' => /\ code'[r] = code[r]
                       /\ Claims(r) \/ (code[r] \in Logins /\ ~grant[code[r]].spent)
  PROVE  IInv'
<1>1. \A q \in Requests : RequestOK(q)'
  BY RequestStays
<1>2. \A b \in Browsers : CookieOK(b)'
  BY CookieStays
<1>3. ClaimsOnce'
  <2>1. \A q \in Callbacks \ {r} : /\ Claims(q)' => Claims(q) /\ ClaimOK(q)
                                   /\ code'[q] = code[q]
    BY DEF Claims, Same, Requests, IInv, RequestOK
  <2>2. QED
    BY <2>1 DEF ClaimsOnce, IInv, ClaimOK
<1>4. QED
  BY <1>1, <1>2, <1>3 DEF IInv

\* A handler that does not write: only its own request changes.
Quiet(r) == /\ UNCHANGED <<server, grant, client>>
            /\ pc[r] # "new" /\ pc'[r] # "new"
            /\ \A q \in Requests \ {r} : Same(q)

LEMMA QuietInv ==
  ASSUME IInv, TypeOK', NEW r \in Requests, Quiet(r), RequestOK(r)', Claims(r)' => Claims(r)
  PROVE  IInv'
<1> USE DEF Quiet, server, client
<1>1. Grow
  BY DEF Grow, Same
<1>2. EmailsUnique'
  BY DEF EmailsUnique, IInv
<1>3. \A k \in Stores, s \in Logins : SessionOK(k, s)'
  BY <1>1, SessionStays
<1>4. QED
  BY <1>1, <1>2, <1>3, Undisturbed

-----------------------------------------------------------------------------
(* Pieces of the handlers. *)

LEMMA GotoTypes ==
  ASSUME TypeOK, NEW r \in Requests, NEW l \in Labels, Goto(r, l)
  PROVE  /\ pc' \in [Requests -> Labels] /\ pc'[r] = l
         /\ \A q \in Requests \ {r} : pc'[q] = pc[q]
         /\ status' = status /\ setc' = setc
BY DEF TypeOK, Goto

LEMMA ReplyTypes ==
  ASSUME TypeOK, NEW r \in Requests, NEW c \in Logins \cup {Absent, "keep"},
         NEW s \in {0, 200, 302, 400, 401, 500}, Reply(r, s, c)
  PROVE  /\ pc' \in [Requests -> Labels] /\ pc'[r] = "replied"
         /\ status' \in [Requests -> {0, 200, 302, 400, 401, 500}] /\ status'[r] = s
         /\ setc' \in [Requests -> Logins \cup {Absent, "keep"}] /\ setc'[r] = c
         /\ \A q \in Requests \ {r} : /\ pc'[q] = pc[q] /\ status'[q] = status[q]
                                      /\ setc'[q] = setc[q]
BY DEF TypeOK, Reply, Labels

\* The session that a request loads is its browser's.
LEMMA LoadedOwn ==
  ASSUME IInv, NEW r \in Requests, pc[r] # "new"
  PROVE  /\ Loaded(r) \in Copy
         /\ Loaded(r).id # Absent => from[Loaded(r).id] = from[r]
         /\ Loaded(r).flow \in {Absent, Loaded(r).id}
         /\ Loaded(r).user # Absent => Granted(from[r], Loaded(r).user)
<1> DEFINE s == sid[r]
           k == at[r]
<1>1. CASE s # Absent /\ store[k][s] # Absent
  <2>1. s \in Logins /\ k \in Stores /\ from[s] = from[r]
    BY <1>1 DEF IInv, TypeOK, RequestOK, Sent, OwnIds
  <2>2. SessionOK(k, s) /\ store[k][s] \in Data
    BY <1>1, <2>1 DEF IInv, TypeOK
  <2>3. Loaded(r) = [id |-> s, user |-> store[k][s].user, flow |-> store[k][s].flow]
    BY <1>1 DEF Loaded
  <2>4. QED
    BY <1>1, <2>1, <2>2, <2>3 DEF SessionOK, Data, Copy
<1>2. CASE ~(s # Absent /\ store[k][s] # Absent)
  BY <1>2 DEF Loaded, Fresh, Copy
<1>3. QED
  BY <1>1, <1>2

\* A reply that sets no cookie and names no user.
LEMMA RefuseInv ==
  ASSUME IInv, NEW r \in Requests, pc[r] # "new",
         NEW s \in {0, 200, 400, 401, 500}, s = 200 => r \notin Mes,
         Reply(r, s, "keep"), UNCHANGED <<server, grant, client, sess, uid>>
  PROVE  IInv'
<1> USE DEF server, client
<1>1. /\ pc' \in [Requests -> Labels] /\ pc'[r] = "replied"
      /\ status' \in [Requests -> {0, 200, 302, 400, 401, 500}] /\ status'[r] = s
      /\ setc' \in [Requests -> Logins \cup {Absent, "keep"}] /\ setc'[r] = "keep"
      /\ \A q \in Requests \ {r} : /\ pc'[q] = pc[q] /\ status'[q] = status[q]
                                   /\ setc'[q] = setc[q]
  BY ReplyTypes DEF IInv
<1>2. TypeOK' /\ Quiet(r)
  BY <1>1 DEF IInv, TypeOK, Quiet, Same
<1>3. ~Claims(r)' /\ ~Named(r)'
  BY <1>1 DEF Claims, Named, Exchanged
<1>4. RequestOK(r) /\ "keep" \notin Logins
  BY AbsentAssumption DEF IInv
<1>5. Route(r)' /\ Sent(r)' /\ HasSession(r)'
  BY <1>1, <1>4 DEF RequestOK, Route, Sent, HasSession, Exchanged
<1>6. OwnIds(r)' /\ Issued(r)'
  BY <1>1, <1>4 DEF RequestOK, OwnIds, Issued
<1>7. OwnUser(r)'
  BY <1>3, <1>4 DEF RequestOK, OwnUser, Granted
<1>8. RequestOK(r)'
  BY <1>3, <1>5, <1>6, <1>7 DEF RequestOK, ClaimOK
<1>9. QED
  BY <1>2, <1>3, <1>8, QuietInv

\* What a handler does first: it loads the session, or fails.
LEMMA GetInv ==
  ASSUME IInv, NEW r \in Requests, pc[r] = "get", NEW next, NEW asks, Get(r, asks, next),
         \/ r \in Logins /\ next = "regenerate"
         \/ r \in Callbacks /\ next = "exchange"
         \/ r \in Mes /\ next = "find"
         \/ r \in Logouts /\ next = "destroy"
  PROVE  IInv'
<1> USE DEF server, client
<1>1. CASE (Reply(r, 401, "keep") \/ Reply(r, 500, "keep")) /\ UNCHANGED sess
  BY <1>1, RefuseInv DEF Get
<1>2. CASE Goto(r, next) /\ sess' = [sess EXCEPT ![r] = Loaded(r)]
  <2>1. /\ pc' \in [Requests -> Labels] /\ pc'[r] = next
        /\ \A q \in Requests \ {r} : pc'[q] = pc[q]
        /\ status' = status /\ setc' = setc
    BY <1>2, GotoTypes DEF IInv, Labels
  <2>2. /\ Loaded(r) \in Copy
        /\ Loaded(r).id # Absent => from[Loaded(r).id] = from[r]
        /\ Loaded(r).flow \in {Absent, Loaded(r).id}
        /\ Loaded(r).user # Absent => Granted(from[r], Loaded(r).user)
    BY LoadedOwn
  <2> HIDE DEF Loaded
  <2>3. sess' \in [Requests -> Copy] /\ sess'[r] = Loaded(r)
        /\ \A q \in Requests \ {r} : sess'[q] = sess[q]
    BY <1>2, <2>2 DEF IInv, TypeOK
  <2>4. TypeOK' /\ Quiet(r)
    BY <2>1, <2>3 DEF IInv, TypeOK, Quiet, Same, Get
  <2>5. RequestOK(r) /\ code' = code /\ uid' = uid /\ from' = from /\ at' = at /\ sid' = sid
        /\ users' = users /\ grant' = grant
    BY DEF IInv, Get
  <2>6. Claims(r)' => Claims(r)
    BY <2>1, RoutesAssumption DEF Claims, Exchanged
  <2>7. Named(r)' => Named(r)
    BY <2>1, RoutesAssumption DEF Named
  <2>8. Route(r)' /\ Sent(r)' /\ HasSession(r)'
    BY <2>1, <2>5, RoutesAssumption DEF RequestOK, Route, Sent, HasSession, Exchanged
  <2>9. OwnIds(r)' /\ Issued(r)' /\ ClaimOK(r)'
    BY <2>1, <2>2, <2>3, <2>5, <2>6 DEF RequestOK, OwnIds, Issued, ClaimOK
  <2>10. OwnUser(r)'
    BY <2>2, <2>3, <2>5, <2>7 DEF RequestOK, OwnUser, Granted
  <2>11. QED
    BY <2>4, <2>6, <2>8, <2>9, <2>10, QuietInv DEF RequestOK
<1>3. QED
  BY <1>1, <1>2 DEF Get

\* What a deletion and a write leave in the store.
LEMMA WithoutTypes ==
  ASSUME TypeOK, NEW r \in Requests, at[r] \in Stores, NEW id \in Logins \cup {Absent}
  PROVE  /\ Without(r, id) \in [Stores -> [Logins -> Data \cup {Absent}]]
         /\ \A k \in Stores, s \in Logins : Without(r, id)[k][s] \in {store[k][s], Absent}
<1>1. CASE id = Absent
  BY <1>1 DEF Without, TypeOK
<1>2. CASE id \in Logins
  <2>1. Without(r, id) = [store EXCEPT ![at[r]][id] = Absent]
    BY <1>2, AbsentAssumption DEF Without, Requests
  <2>2. [store[at[r]] EXCEPT ![id] = Absent] \in [Logins -> Data \cup {Absent}]
    BY DEF TypeOK
  <2>3. QED
    BY <2>1, <2>2 DEF TypeOK
<1>3. QED
  BY <1>1, <1>2

LEMMA WithTypes ==
  ASSUME TypeOK, NEW r \in Requests, at[r] \in Stores, NEW id \in Logins, NEW data \in Data
  PROVE  /\ With(r, id, data) \in [Stores -> [Logins -> Data \cup {Absent}]]
         /\ With(r, id, data)[at[r]][id] = data
         /\ \A k \in Stores, s \in Logins :
              k # at[r] \/ s # id => With(r, id, data)[k][s] = store[k][s]
<1>1. /\ [store[at[r]] EXCEPT ![id] = data] \in [Logins -> Data \cup {Absent}]
      /\ With(r, id, data) = [store EXCEPT ![at[r]] = [store[at[r]] EXCEPT ![id] = data]]
  BY DEF TypeOK, With
<1>2. QED
  BY <1>1 DEF TypeOK

\* The provider takes a code: the flow's approval stays.
LEMMA SpendTypes ==
  ASSUME TypeOK, NEW f \in Logins, grant' = [grant EXCEPT ![f].spent = TRUE]
  PROVE  /\ grant' \in [Logins -> [sub: Subs \cup {Absent}, spent: BOOLEAN]]
         /\ \A g \in Logins : grant'[g].sub = grant[g].sub
                              /\ (grant[g].spent => grant'[g].spent)
         /\ grant'[f].spent
<1> DEFINE R == [sub: Subs \cup {Absent}, spent: BOOLEAN]
           g == [grant[f] EXCEPT !.spent = TRUE]
<1>1. grant \in [Logins -> R]
  BY DEF TypeOK
<1>2. grant[f] \in R
  BY <1>1
<1>3. g \in R /\ g.sub = grant[f].sub /\ g.spent
  BY <1>2
<1>4. grant' = [grant EXCEPT ![f] = g]
  OBVIOUS
<1> HIDE DEF g, R
<1>5. grant' \in [Logins -> R] /\ grant'[f] = g /\ \A h \in Logins \ {f} : grant'[h] = grant[h]
  BY <1>1, <1>3, <1>4
<1>6. QED
  BY <1>3, <1>5 DEF R

-----------------------------------------------------------------------------
(* The steps. *)

LEMMA LoginRegenerateInv ==
  ASSUME IInv, NEW r \in Requests, LoginRegenerate(r)
  PROVE  IInv'
<1> USE DEF server, client
<1>1. r \in Logins /\ pc[r] = "regenerate" /\ at[r] \in Stores /\ RequestOK(r)
  BY DEF LoginRegenerate, IInv, RequestOK, Route, Sent, Requests
<1>2. CASE Reply(r, 500, "keep") /\ UNCHANGED <<store, sess>>
  BY <1>1, <1>2, RefuseInv DEF LoginRegenerate
<1>3. CASE /\ store' = Without(r, sess[r].id)
           /\ sess' = [sess EXCEPT ![r].id = r, ![r].flow = r]
           /\ Goto(r, "save")
  <2>1. /\ pc' \in [Requests -> Labels] /\ pc'[r] = "save"
        /\ \A q \in Requests \ {r} : pc'[q] = pc[q]
        /\ status' = status /\ setc' = setc
    BY <1>3, GotoTypes DEF IInv, Labels
  <2>2. sess[r] \in Copy
    BY DEF IInv, TypeOK
  <2>3. /\ store' \in [Stores -> [Logins -> Data \cup {Absent}]]
        /\ \A k \in Stores, s \in Logins : store'[k][s] \in {store[k][s], Absent}
    BY <1>1, <1>3, <2>2, WithoutTypes DEF IInv, Copy
  <2>4. /\ sess' \in [Requests -> Copy]
        /\ sess'[r].id = r /\ sess'[r].flow = r /\ sess'[r].user = sess[r].user
        /\ \A q \in Requests \ {r} : sess'[q] = sess[q]
    <3> DEFINE first == [sess[r] EXCEPT !.id = r]
               mid == [sess EXCEPT ![r] = first]
               second == [mid[r] EXCEPT !.flow = r]
    <3>1. /\ first \in Copy /\ first.id = r
          /\ first.flow = sess[r].flow /\ first.user = sess[r].user
      BY <1>1, <2>2 DEF Copy
    <3>2. sess' = [mid EXCEPT ![r] = second]
      BY <1>3
    <3> HIDE DEF first
    <3>3. /\ mid \in [Requests -> Copy] /\ mid[r] = first
          /\ \A q \in Requests \ {r} : mid[q] = sess[q]
      BY <3>1 DEF IInv, TypeOK
    <3> HIDE DEF mid
    <3>4. /\ second \in Copy /\ second.id = r /\ second.flow = r
          /\ second.user = sess[r].user
      BY <1>1, <3>1, <3>3 DEF Copy
    <3> HIDE DEF second
    <3>5. QED
      BY <3>2, <3>3, <3>4
  <2>5. UNCHANGED <<users, grant, client, uid>>
    BY DEF LoginRegenerate
  <2>6. Grow /\ TypeOK' /\ EmailsUnique' /\ \A q \in Requests \ {r} : Same(q)
    BY <1>1, <2>1, <2>3, <2>4, <2>5 DEF IInv, TypeOK, Grow, Same, EmailsUnique
  <2>7. \A k \in Stores, s \in Logins : SessionOK(k, s)'
    BY <2>3, <2>6, SessionStays
  <2>8. ~Claims(r)' /\ ~Named(r)'
    BY <1>1, <2>1, RoutesAssumption DEF Claims, Named
  <2>9. Route(r)' /\ Sent(r)' /\ HasSession(r)'
    BY <1>1, <2>1, <2>4, <2>5, RoutesAssumption, AbsentAssumption
    DEF RequestOK, Route, Sent, HasSession, Exchanged
  <2>10. OwnIds(r)' /\ Issued(r)' /\ OwnUser(r)'
    BY <1>1, <2>1, <2>4, <2>5, <2>8 DEF RequestOK, OwnIds, Issued, OwnUser, Granted
  <2>11. QED
    BY <2>5, <2>6, <2>7, <2>8, <2>9, <2>10, Undisturbed DEF RequestOK, ClaimOK
<1>4. QED
  BY <1>3, <1>2 DEF LoginRegenerate

\* The write of a session that is its browser's, and the reply that names it.
LEMMA SaveInv ==
  ASSUME IInv, NEW r \in Logins \cup Callbacks, pc[r] = "save", NEW data \in Data,
         Save(r, data, 302), UNCHANGED <<users, grant, client, sess, uid>>,
         data.flow \in {Absent, sess[r].id},
         data.user # Absent => Granted(from[r], data.user)
  PROVE  IInv'
<1> USE DEF client
<1> DEFINE id == sess[r].id
<1>1. r \in Requests /\ RequestOK(r) /\ at[r] \in Stores
  BY DEF IInv, Requests, RequestOK, Sent
<1>2. /\ id \in Logins /\ from[id] = from[r] /\ from[r] \in Browsers
  <2>1. sess[r].id \in Logins \cup {Absent} /\ sess[r].id # Absent
    BY <1>1 DEF IInv, TypeOK, Copy, RequestOK, HasSession, Exchanged
  <2>2. QED
    BY <1>1, <2>1 DEF RequestOK, OwnIds, Sent
<1>3. PICK s \in {302, 500} : Reply(r, s, id)
  BY DEF Save
<1>4. /\ pc' \in [Requests -> Labels] /\ pc'[r] = "replied"
      /\ status' \in [Requests -> {0, 200, 302, 400, 401, 500}] /\ status'[r] = s
      /\ setc' \in [Requests -> Logins \cup {Absent, "keep"}] /\ setc'[r] = id
      /\ \A q \in Requests \ {r} : /\ pc'[q] = pc[q] /\ status'[q] = status[q]
                                   /\ setc'[q] = setc[q]
  <2>1. id \in Logins \cup {Absent, "keep"} /\ s \in {0, 200, 302, 400, 401, 500} /\ TypeOK
    BY <1>2 DEF IInv
  <2>2. QED
    BY <1>1, <1>3, <2>1, ReplyTypes
<1>5. /\ store' \in [Stores -> [Logins -> Data \cup {Absent}]]
      /\ store'[at[r]][id] \in {store[at[r]][id], data}
      /\ \A k \in Stores, l \in Logins : k # at[r] \/ l # id => store'[k][l] = store[k][l]
  <2>1. CASE store' = With(r, id, data)
    BY <1>1, <1>2, <2>1, WithTypes DEF IInv
  <2>2. CASE store' = store
    BY <2>2 DEF IInv, TypeOK
  <2>3. QED
    BY <2>1, <2>2 DEF Save
<1> HIDE DEF id
<1>6. Grow /\ TypeOK' /\ EmailsUnique' /\ \A q \in Requests \ {r} : Same(q)
  BY <1>4, <1>5 DEF IInv, TypeOK, Grow, Same, EmailsUnique
<1>7. \A k \in Stores, l \in Logins : SessionOK(k, l)'
  <2> SUFFICES ASSUME NEW k \in Stores, NEW l \in Logins PROVE SessionOK(k, l)'
    OBVIOUS
  <2>1. CASE store'[k][l] = store[k][l]
    BY <1>6, <2>1, SessionStays
  <2>2. CASE k = at[r] /\ l = id /\ store'[k][l] = data
    BY <1>2, <2>2 DEF SessionOK, Granted, id
  <2>3. QED
    BY <1>5, <2>1, <2>2
<1>8. Claims(r)' => Claims(r) /\ code'[r] = code[r]
  BY DEF Claims, Exchanged
<1>9. ~Named(r)'
  BY <1>4, RoutesAssumption DEF Named
<1>10. Route(r)' /\ Sent(r)' /\ HasSession(r)'
  BY <1>1, <1>4, RoutesAssumption DEF RequestOK, Route, Sent, HasSession, Exchanged
<1>11. OwnIds(r)' /\ Issued(r)' /\ ClaimOK(r)'
  BY <1>1, <1>2, <1>4, <1>8 DEF RequestOK, OwnIds, Issued, ClaimOK
<1>12. OwnUser(r)'
  BY <1>1, <1>9 DEF RequestOK, OwnUser, Granted
<1>13. QED
  BY <1>1, <1>6, <1>7, <1>8, <1>10, <1>11, <1>12, Undisturbed DEF RequestOK

LEMMA LoginSaveInv ==
  ASSUME IInv, NEW r \in Requests, LoginSave(r)
  PROVE  IInv'
<1>1. r \in Logins /\ sess[r] \in Copy /\ RequestOK(r)
  BY DEF LoginSave, IInv, TypeOK
<1>2. [user |-> sess[r].user, flow |-> sess[r].flow] \in Data
  BY <1>1 DEF Copy, Data
<1>3. QED
  BY <1>1, <1>2, SaveInv DEF LoginSave, RequestOK, OwnIds, OwnUser

LEMMA CallbackSaveInv ==
  ASSUME IInv, NEW r \in Requests, CallbackSave(r)
  PROVE  IInv'
<1>1. r \in Callbacks /\ Granted(from[r], uid[r])
  BY DEF CallbackSave, IInv, RequestOK, OwnUser, Named
<1>2. [user |-> uid[r], flow |-> Absent] \in Data
  BY DEF IInv, TypeOK, Data
<1>3. QED
  BY <1>1, <1>2, SaveInv DEF CallbackSave

LEMMA CallbackGetInv ==
  ASSUME IInv, NEW r \in Requests, CallbackGet(r)
  PROVE  IInv'
BY GetInv DEF CallbackGet

\* The exchange: of all callbacks with one code the first claims its flow.
LEMMA CallbackExchangeInv ==
  ASSUME IInv, NEW r \in Requests, CallbackExchange(r)
  PROVE  IInv'
<1> USE DEF server, client
<1> DEFINE f == code[r]
<1>1. r \in Callbacks /\ pc[r] = "exchange" /\ RequestOK(r) /\ TypeOK
      /\ UNCHANGED <<server, client, sess, uid>>
  BY DEF CallbackExchange, IInv, RequestOK, Route, Requests
<1>2. CASE Reply(r, 401, "keep") /\ UNCHANGED grant
  BY <1>1, <1>2, RefuseInv
<1>3. ASSUME f # Absent, sess[r].flow = f, ~grant[f].spent,
             grant' = [grant EXCEPT ![f].spent = TRUE],
             Goto(r, "find") \/ Reply(r, 401, "keep")
      PROVE  IInv'
  <2>1. f \in Logins /\ sess[r].id = f /\ from[f] = from[r]
    BY <1>1, <1>3 DEF TypeOK, RequestOK, OwnIds
  <2>2. /\ grant' \in [Logins -> [sub: Subs \cup {Absent}, spent: BOOLEAN]]
        /\ \A g \in Logins : grant'[g].sub = grant[g].sub
                             /\ (grant[g].spent => grant'[g].spent)
        /\ grant'[f].spent
    BY <1>1, <1>3, <2>1, SpendTypes
  <2>3. /\ pc' \in [Requests -> Labels] /\ pc'[r] \in {"find", "replied"}
        /\ status' \in [Requests -> {0, 200, 302, 400, 401, 500}] /\ status'[r] \in {status[r], 401}
        /\ pc'[r] = "replied" => status'[r] = 401
        /\ setc' \in [Requests -> Logins \cup {Absent, "keep"}] /\ setc'[r] \in {setc[r], "keep"}
        /\ \A q \in Requests \ {r} : /\ pc'[q] = pc[q] /\ status'[q] = status[q]
                                     /\ setc'[q] = setc[q]
    <3>1. CASE Goto(r, "find")
      BY <1>1, <3>1, GotoTypes DEF Labels, TypeOK
    <3>2. CASE Reply(r, 401, "keep")
      BY <1>1, <3>2, ReplyTypes
    <3>3. QED
      BY <1>3, <3>1, <3>2
  <2>4. Grow /\ TypeOK' /\ EmailsUnique' /\ \A q \in Requests \ {r} : Same(q)
    BY <1>1, <2>2, <2>3 DEF IInv, TypeOK, Grow, Same, EmailsUnique
  <2>5. \A k \in Stores, s \in Logins : SessionOK(k, s)'
    BY <1>1, <2>4, SessionStays
  <2>6. ~Named(r)' /\ "keep" \notin Logins
    BY <1>1, <2>3, RoutesAssumption, AbsentAssumption DEF Named
  <2>7. Route(r)' /\ Sent(r)' /\ HasSession(r)'
    BY <1>1, <2>1, <2>3, RoutesAssumption, AbsentAssumption
    DEF RequestOK, Route, Sent, HasSession, Requests
  <2>8. OwnIds(r)' /\ Issued(r)' /\ ClaimOK(r)'
    BY <1>1, <1>3, <2>1, <2>2, <2>3, <2>6, AbsentAssumption
    DEF RequestOK, OwnIds, Issued, ClaimOK, Claims, Requests
  <2>9. OwnUser(r)'
    BY <1>1, <2>4, <2>6, GrantedStays DEF RequestOK, OwnUser, Sent
  <2>10. QED
    BY <1>1, <1>3, <2>1, <2>4, <2>5, <2>7, <2>8, <2>9, Undisturbed DEF RequestOK
<1>4. QED
  BY <1>2, <1>3 DEF CallbackExchange

\* A handler that goes on, with another user in uid perhaps.
LEMMA GoOnInv ==
  ASSUME IInv, NEW r \in Requests, pc[r] # "new", NEW l \in Labels, Goto(r, l),
         UNCHANGED <<server, grant, client, sess>>,
         NEW u \in UserIds \cup {Absent}, uid' = [uid EXCEPT ![r] = u],
         \/ r \in Callbacks /\ pc[r] \in Exchanged /\ l \in Exchanged
         \/ r \in Others /\ l = "next"
         \/ r \in Mes \cup Logouts /\ l = "get" /\ u = uid[r],
         (Named(r)' /\ (r \notin Mes \/ u # uid[r])) => Granted(from[r], u)
  PROVE  IInv'
<1> USE DEF server, client
<1>1. /\ pc' \in [Requests -> Labels] /\ pc'[r] = l
      /\ \A q \in Requests \ {r} : pc'[q] = pc[q]
      /\ status' = status /\ setc' = setc
  BY GotoTypes DEF IInv
<1>2. /\ uid' \in [Requests -> UserIds \cup {Absent}] /\ uid'[r] = u
      /\ \A q \in Requests \ {r} : uid'[q] = uid[q]
  BY DEF IInv, TypeOK
<1>3. RequestOK(r) /\ l # "new"
  BY DEF IInv, Exchanged
<1>4. TypeOK' /\ Quiet(r)
  BY <1>1, <1>2, <1>3 DEF IInv, TypeOK, Quiet, Same
<1>5. Claims(r)' => Claims(r)
  BY <1>1, RoutesAssumption DEF Claims
<1>6. Route(r)' /\ Sent(r)' /\ HasSession(r)'
  BY <1>1, <1>3, RoutesAssumption DEF RequestOK, Route, Sent, HasSession, Exchanged
<1>7. OwnIds(r)' /\ Issued(r)' /\ ClaimOK(r)'
  BY <1>1, <1>3, <1>5 DEF RequestOK, OwnIds, Issued, ClaimOK
<1>8. OwnUser(r)'
  <2>1. Named(r)' => Granted(from[r], u)
    <3>1. r \in Mes /\ Named(r)' => Named(r)
      BY <1>1, RoutesAssumption DEF Named
    <3>2. QED
      BY <1>3, <3>1 DEF RequestOK, OwnUser
  <2>2. QED
    BY <1>2, <1>3, <2>1 DEF RequestOK, OwnUser, Granted
<1>9. QED
  BY <1>4, <1>5, <1>6, <1>7, <1>8, QuietInv DEF RequestOK

LEMMA CallbackFindInv ==
  ASSUME IInv, NEW r \in Requests, CallbackFind(r)
  PROVE  IInv'
<1> DEFINE f == code[r]
<1>1. r \in Callbacks /\ pc[r] = "find" /\ UNCHANGED <<server, grant, client, sess>>
      /\ uid[r] \in UserIds \cup {Absent}
  BY DEF CallbackFind, IInv, TypeOK
<1>2. f \in Logins /\ grant[f].spent /\ from[f] = from[r]
  BY <1>1 DEF IInv, TypeOK, RequestOK, ClaimOK, Claims, Exchanged, Issued
<1>3. ASSUME NEW i \in Found(grant[f].sub), uid' = [uid EXCEPT ![r] = i], Goto(r, "update")
      PROVE  IInv'
  <2>1. i \in UserIds /\ Granted(from[r], i)
    BY <1>2, <1>3 DEF Found, Granted, IInv, TypeOK, UserIds
  <2>2. QED
    BY <1>1, <1>3, <2>1, GoOnInv DEF Labels, Exchanged
<1>4. CASE Goto(r, "create") /\ UNCHANGED uid
  <2>1. uid' = [uid EXCEPT ![r] = uid[r]] /\ ~Named(r)'
    BY <1>1, <1>4, RoutesAssumption DEF IInv, TypeOK, Named, Goto
  <2>2. QED
    BY <1>1, <1>4, <2>1, GoOnInv DEF Labels, Exchanged
<1>5. QED
  BY <1>3, <1>4 DEF CallbackFind

LEMMA CallbackUpdateInv ==
  ASSUME IInv, NEW r \in Requests, CallbackUpdate(r)
  PROVE  IInv'
<1>1. r \in Callbacks /\ pc[r] = "update" /\ UNCHANGED <<server, grant, client, sess, uid>>
  BY DEF CallbackUpdate, IInv, RequestOK, Route, Requests
<1>2. CASE Goto(r, "save")
  <2>1. /\ uid' = [uid EXCEPT ![r] = uid[r]] /\ uid[r] \in UserIds \cup {Absent}
        /\ Granted(from[r], uid[r])
    BY <1>1 DEF IInv, TypeOK, RequestOK, OwnUser, Named
  <2>2. QED
    BY <1>1, <1>2, <2>1, GoOnInv DEF Labels, Exchanged
<1>3. CASE Reply(r, 401, "keep")
  BY <1>1, <1>3, RefuseInv
<1>4. QED
  BY <1>2, <1>3 DEF CallbackUpdate

\* The new row is the account of the flow's subject, and its address is new.
LEMMA CallbackCreateInv ==
  ASSUME IInv, NEW r \in Requests, CallbackCreate(r)
  PROVE  IInv'
<1> USE DEF server, client
<1> DEFINE f == code[r]
           sub == grant[f].sub
<1>1. r \in Callbacks /\ pc[r] = "create" /\ UNCHANGED <<store, grant, client, sess>>
      /\ RequestOK(r) /\ TypeOK
  BY DEF CallbackCreate, IInv, RequestOK, Route, Requests
<1>2. f \in Logins /\ grant[f].spent /\ from[f] = from[r] /\ sub \in Subs
  BY <1>1 DEF TypeOK, RequestOK, ClaimOK, Claims, Exchanged, Issued
<1>3. CASE Reply(r, 401, "keep") /\ UNCHANGED <<users, uid>>
  BY <1>1, <1>3, RefuseInv
<1>4. ASSUME Insertable(sub), users' = Append(users, sub),
             \/ Goto(r, "save") /\ uid' = [uid EXCEPT ![r] = Len(users) + 1]
             \/ Reply(r, 401, "keep") /\ UNCHANGED uid
      PROVE  IInv'
  <2>1. /\ users' \in Seq(Subs) /\ Len(users) \in Nat
        /\ DOMAIN users = 1..Len(users) /\ DOMAIN users' = 1..(Len(users) + 1)
        /\ \A i \in DOMAIN users : users'[i] = users[i]
        /\ users'[Len(users) + 1] = sub
    BY <1>1, <1>2, <1>4 DEF TypeOK
  <2>2. EmailsUnique'
    <3>1. \A i \in DOMAIN users' : i \in DOMAIN users \/ i = Len(users) + 1
      BY <2>1
    <3>2. \A i, j \in DOMAIN users : EmailOf[users[i]] = EmailOf[users[j]] => i = j
      BY DEF IInv, EmailsUnique
    <3>3. \A i \in DOMAIN users : EmailOf[users[i]] # EmailOf[sub]
      BY <1>4 DEF Insertable
    <3>4. QED
      BY <2>1, <3>1, <3>2, <3>3 DEF EmailsUnique
  <2>3. /\ pc' \in [Requests -> Labels] /\ pc'[r] \in {"save", "replied"}
        /\ status' \in [Requests -> {0, 200, 302, 400, 401, 500}] /\ status'[r] \in {status[r], 401}
        /\ pc'[r] = "replied" => status'[r] = 401
        /\ setc' \in [Requests -> Logins \cup {Absent, "keep"}] /\ setc'[r] \in {setc[r], "keep"}
        /\ uid' \in [Requests -> UserIds \cup {Absent}]
        /\ pc'[r] = "save" => uid'[r] = Len(users) + 1
        /\ \A q \in Requests \ {r} : /\ pc'[q] = pc[q] /\ status'[q] = status[q]
                                     /\ setc'[q] = setc[q] /\ uid'[q] = uid[q]
    <3>1. CASE Goto(r, "save") /\ uid' = [uid EXCEPT ![r] = Len(users) + 1]
      <4>1. Len(users) + 1 \in UserIds
        BY <2>1 DEF UserIds
      <4>2. /\ pc' \in [Requests -> Labels] /\ pc'[r] = "save"
            /\ \A q \in Requests \ {r} : pc'[q] = pc[q]
            /\ status' = status /\ setc' = setc
        BY <1>1, <3>1, GotoTypes DEF Labels
      <4>3. /\ uid' \in [Requests -> UserIds \cup {Absent}] /\ uid'[r] = Len(users) + 1
            /\ \A q \in Requests \ {r} : uid'[q] = uid[q]
        <5> DEFINE n == Len(users) + 1
        <5>1. n \in UserIds /\ uid' = [uid EXCEPT ![r] = n]
          BY <3>1, <4>1
        <5> HIDE DEF n
        <5>2. uid'[r] = n
          BY <1>1, <5>1 DEF TypeOK
        <5>3. QED
          BY <1>1, <5>1, <5>2 DEF TypeOK, n
      <4>4. QED
        BY <1>1, <4>2, <4>3 DEF TypeOK
    <3>2. CASE Reply(r, 401, "keep") /\ UNCHANGED uid
      BY <1>1, <3>2, ReplyTypes DEF TypeOK
    <3>3. QED
      BY <1>4, <3>1, <3>2
  <2>4. Grow /\ TypeOK' /\ \A q \in Requests \ {r} : Same(q)
    BY <1>1, <2>1, <2>3 DEF TypeOK, Grow, Same
  <2>5. \A k \in Stores, s \in Logins : SessionOK(k, s)'
    BY <1>1, <2>4, SessionStays
  <2>6. Claims(r) /\ "keep" \notin Logins
    BY <1>1, AbsentAssumption DEF Claims, Exchanged
  <2>7. Route(r)' /\ Sent(r)' /\ HasSession(r)'
    BY <1>1, <2>3, RoutesAssumption DEF RequestOK, Route, Sent, HasSession, Exchanged
  <2>8. OwnIds(r)' /\ Issued(r)' /\ ClaimOK(r)'
    BY <1>1, <2>3, <2>6 DEF RequestOK, OwnIds, Issued, ClaimOK
  <2>9. OwnUser(r)'
    <3>1. sess[r].user # Absent => Granted(from[r], sess[r].user)'
      BY <1>1, <2>4, GrantedStays DEF RequestOK, OwnUser, Sent
    <3>2. pc'[r] = "save" => Granted(from[r], uid[r])'
      BY <1>1, <1>2, <2>1, <2>3 DEF Granted
    <3>3. Named(r)' => pc'[r] = "save"
      BY <1>1, <2>3, RoutesAssumption DEF Named
    <3>4. QED
      BY <1>1, <3>1, <3>2, <3>3 DEF OwnUser, Granted
  <2>10. QED
    BY <1>1, <2>2, <2>4, <2>5, <2>6, <2>7, <2>8, <2>9, Undisturbed DEF RequestOK
<1>5. QED
  BY <1>3, <1>4 DEF CallbackCreate

LEMMA RequireAuthInv ==
  ASSUME IInv, NEW r \in Requests, RequireAuth(r)
  PROVE  IInv'
<1>1. /\ r \in Mes \cup Logouts \cup Others /\ pc[r] = "auth"
      /\ UNCHANGED <<server, grant, client, sess>> /\ uid[r] \in UserIds \cup {Absent}
      /\ uid = [uid EXCEPT ![r] = uid[r]]
  BY DEF RequireAuth, IInv, TypeOK, RequestOK, Route, Requests
<1>2. Loaded(r) \in Copy /\ (Loaded(r).user # Absent => Granted(from[r], Loaded(r).user))
  BY <1>1, LoadedOwn
<1>3. CASE Loaded(r).user # Absent /\ r \in Others /\ Goto(r, "next")
           /\ uid' = [uid EXCEPT ![r] = Loaded(r).user]
  <2>1. Loaded(r).user \in UserIds \cup {Absent}
    BY <1>2 DEF Copy
  <2>2. QED
    BY <1>1, <1>2, <1>3, <2>1, GoOnInv DEF Labels
<1>4. CASE r \notin Others /\ Goto(r, "get") /\ uid' = uid
  <2>1. r \in Logouts => ~Named(r)'
    BY RoutesAssumption DEF Named
  <2>2. QED
    BY <1>1, <1>4, <2>1, GoOnInv DEF Labels
<1>5. CASE Reply(r, 401, "keep") /\ UNCHANGED uid
  BY <1>1, <1>5, RefuseInv
<1>6. QED
  BY <1>3, <1>4, <1>5 DEF RequireAuth

LEMMA MeGetInv ==
  ASSUME IInv, NEW r \in Requests, MeGet(r)
  PROVE  IInv'
BY GetInv DEF MeGet

LEMMA LogoutGetInv ==
  ASSUME IInv, NEW r \in Requests, LogoutGet(r)
  PROVE  IInv'
BY GetInv DEF LogoutGet

LEMMA LoginGetInv ==
  ASSUME IInv, NEW r \in Requests, LoginGet(r)
  PROVE  IInv'
BY GetInv DEF LoginGet

\* The profile names the user of the copy.
LEMMA MeFindInv ==
  ASSUME IInv, NEW r \in Requests, MeFind(r)
  PROVE  IInv'
<1> USE DEF server, client
<1>1. r \in Mes /\ pc[r] = "find" /\ UNCHANGED <<server, grant, client, sess>>
      /\ RequestOK(r) /\ TypeOK /\ "keep" \notin Logins
  BY AbsentAssumption DEF MeFind, IInv
<1>2. CASE Reply(r, 500, "keep") /\ UNCHANGED uid
  BY <1>1, <1>2, RefuseInv
<1>3. CASE /\ sess[r].user \in DOMAIN users
           /\ uid' = [uid EXCEPT ![r] = sess[r].user]
           /\ Reply(r, 200, "keep")
  <2>1. /\ pc' \in [Requests -> Labels] /\ pc'[r] = "replied"
        /\ status' \in [Requests -> {0, 200, 302, 400, 401, 500}] /\ status'[r] = 200
        /\ setc' \in [Requests -> Logins \cup {Absent, "keep"}] /\ setc'[r] = "keep"
        /\ \A q \in Requests \ {r} : /\ pc'[q] = pc[q] /\ status'[q] = status[q]
                                     /\ setc'[q] = setc[q]
    BY <1>1, <1>3, ReplyTypes
  <2>2. sess[r].user # Absent /\ sess[r].user \in UserIds
    BY <1>1, <1>3, AbsentAssumption DEF TypeOK, UserIds
  <2>3. /\ uid' \in [Requests -> UserIds \cup {Absent}] /\ uid'[r] = sess[r].user
        /\ \A q \in Requests \ {r} : uid'[q] = uid[q]
    BY <1>1, <1>3, <2>2 DEF TypeOK
  <2>4. TypeOK' /\ Quiet(r)
    BY <1>1, <2>1, <2>3 DEF TypeOK, Quiet, Same
  <2>5. ~Claims(r)'
    BY <1>1, RoutesAssumption DEF Claims
  <2>6. Route(r)' /\ Sent(r)' /\ HasSession(r)'
    BY <1>1, <2>1, RoutesAssumption DEF RequestOK, Route, Sent, HasSession, Exchanged
  <2>7. OwnIds(r)' /\ Issued(r)' /\ ClaimOK(r)' /\ OwnUser(r)'
    BY <1>1, <2>1, <2>2, <2>3, <2>5
    DEF RequestOK, OwnIds, Issued, ClaimOK, OwnUser, Granted
  <2>8. QED
    BY <1>1, <2>4, <2>5, <2>6, <2>7, QuietInv DEF RequestOK
<1>4. QED
  BY <1>2, <1>3 DEF MeFind

LEMMA LogoutDestroyInv ==
  ASSUME IInv, NEW r \in Requests, LogoutDestroy(r)
  PROVE  IInv'
<1> USE DEF server, client
<1>1. r \in Logouts /\ pc[r] = "destroy" /\ UNCHANGED <<users, grant, client, sess, uid>>
      /\ RequestOK(r) /\ TypeOK /\ at[r] \in Stores /\ Absent \notin Logins
  BY AbsentAssumption DEF LogoutDestroy, IInv, RequestOK, Route, Sent, Requests
<1>2. CASE Reply(r, 500, "keep") /\ UNCHANGED store
  BY <1>1, <1>2, RefuseInv
<1>3. CASE store' = Without(r, sess[r].id) /\ Reply(r, 200, Absent)
  <2>1. /\ pc' \in [Requests -> Labels] /\ pc'[r] = "replied"
        /\ status' \in [Requests -> {0, 200, 302, 400, 401, 500}] /\ status'[r] = 200
        /\ setc' \in [Requests -> Logins \cup {Absent, "keep"}] /\ setc'[r] = Absent
        /\ \A q \in Requests \ {r} : /\ pc'[q] = pc[q] /\ status'[q] = status[q]
                                     /\ setc'[q] = setc[q]
    BY <1>1, <1>3, ReplyTypes
  <2>2. /\ store' \in [Stores -> [Logins -> Data \cup {Absent}]]
        /\ \A k \in Stores, s \in Logins : store'[k][s] \in {store[k][s], Absent}
    <3>1. sess[r].id \in Logins \cup {Absent}
      BY <1>1 DEF TypeOK, Copy
    <3>2. QED
      BY <1>1, <1>3, <3>1, WithoutTypes
  <2>3. Grow /\ TypeOK' /\ EmailsUnique' /\ \A q \in Requests \ {r} : Same(q)
    BY <1>1, <2>1, <2>2 DEF IInv, TypeOK, Grow, Same, EmailsUnique
  <2>4. \A k \in Stores, s \in Logins : SessionOK(k, s)'
    BY <2>2, <2>3, SessionStays
  <2>5. ~Claims(r)' /\ ~Named(r)'
    BY <1>1, <2>1, RoutesAssumption DEF Claims, Named
  <2>6. Route(r)' /\ Sent(r)' /\ HasSession(r)'
    BY <1>1, <2>1, RoutesAssumption DEF RequestOK, Route, Sent, HasSession, Exchanged
  <2>7. OwnIds(r)' /\ Issued(r)' /\ ClaimOK(r)' /\ OwnUser(r)'
    BY <1>1, <2>1, <2>5 DEF RequestOK, OwnIds, Issued, ClaimOK, OwnUser, Granted
  <2>8. QED
    BY <1>1, <2>3, <2>4, <2>5, <2>6, <2>7, Undisturbed DEF RequestOK
<1>4. QED
  BY <1>2, <1>3 DEF LogoutDestroy

-----------------------------------------------------------------------------
(* The browsers and the provider. *)

\* A request is sent with the cookie of its browser, which was minted for it.
LEMMA SendInv ==
  ASSUME IInv, NEW r \in Requests, NEW b \in Browsers, Send(r, b),
         NEW f \in Logins \cup {Absent}, code' = [code EXCEPT ![r] = f],
         f # Absent => grant[f].sub # Absent,
         NEW g \in Logins \cup {Absent}, state' = [state EXCEPT ![r] = g]
  PROVE  IInv'
<1> USE DEF server, client
<1>1. /\ pc[r] = "new" /\ RequestOK(r) /\ TypeOK
      /\ UNCHANGED <<server, grant, cookie, sess, uid>>
      /\ from' = [from EXCEPT ![r] = b] /\ sid' = [sid EXCEPT ![r] = cookie[b]]
  BY DEF Send, IInv
<1>2. PICK k \in Stores : at' = [at EXCEPT ![r] = k]
  BY DEF Send
<1>3. PICK l \in {"get", "auth"} : Goto(r, l) /\ (l = "get" <=> r \in Logins \cup Callbacks)
  BY DEF Send
<1>4. /\ pc' \in [Requests -> Labels] /\ pc'[r] = l
      /\ \A q \in Requests \ {r} : pc'[q] = pc[q]
      /\ status' = status /\ setc' = setc
  BY <1>1, <1>3, GotoTypes DEF Labels
<1>5. /\ cookie[b] \in Logins \cup {Absent}
      /\ cookie[b] # Absent => from[cookie[b]] = b
  BY <1>1 DEF IInv, TypeOK, CookieOK
<1>6. TypeOK'
  BY <1>1, <1>2, <1>4, <1>5 DEF TypeOK
<1>7. from'[r] = b /\ sid'[r] = cookie[b] /\ at'[r] = k /\ code'[r] = f
  BY <1>1, <1>2 DEF TypeOK
<1>8. Grow /\ EmailsUnique' /\ \A q \in Requests \ {r} : Same(q)
  BY <1>1, <1>2, <1>4 DEF IInv, TypeOK, Grow, Same, EmailsUnique
<1>9. \A i \in Stores, s \in Logins : SessionOK(i, s)'
  BY <1>1, <1>8, SessionStays
<1>10. sess[r] = Fresh /\ setc[r] = "keep" /\ status[r] = 0 /\ "keep" \notin Logins
  BY <1>1, AbsentAssumption DEF RequestOK, Sent
<1>11. ~Claims(r)' /\ ~Named(r)'
  BY <1>4, <1>10 DEF Claims, Named, Exchanged
<1>12. Route(r)' /\ Sent(r)' /\ HasSession(r)'
  BY <1>3, <1>4, <1>7, RoutesAssumption DEF Route, Sent, HasSession, Exchanged, Requests
<1>13. \A s \in Logins : from[s] = b => from'[s] = b
  BY <1>8, KnownStays DEF Requests
<1>14. OwnIds(r)' /\ Issued(r)' /\ OwnUser(r)'
  BY <1>1, <1>4, <1>5, <1>7, <1>10, <1>11, <1>13 DEF OwnIds, Issued, OwnUser, Fresh
<1>15. QED
  BY <1>1, <1>6, <1>8, <1>9, <1>11, <1>12, <1>14, Undisturbed DEF RequestOK, ClaimOK

LEMMA SendOtherInv ==
  ASSUME IInv, NEW r \in Requests, NEW b \in Browsers, SendOther(r, b)
  PROVE  IInv'
<1>1. /\ code[r] = Absent /\ code' = [code EXCEPT ![r] = code[r]]
      /\ state[r] = Absent /\ state' = [state EXCEPT ![r] = state[r]]
  BY DEF SendOther, Send, IInv, TypeOK, RequestOK, Sent
<1>2. QED
  BY <1>1, SendInv DEF SendOther

LEMMA SendCallbackInv ==
  ASSUME IInv, NEW r \in Requests, NEW b \in Browsers, SendCallback(r, b)
  PROVE  IInv'
<1>1. PICK f \in {l \in Logins : grant[l].sub # Absent} \cup {Absent} :
        code' = [code EXCEPT ![r] = f]
  BY DEF SendCallback
<1>2. PICK g \in {l \in Logins : status[l] = 302} \cup {Absent} :
        state' = [state EXCEPT ![r] = g]
  BY DEF SendCallback
<1>3. /\ f \in Logins \cup {Absent} /\ (f # Absent => grant[f].sub # Absent)
      /\ g \in Logins \cup {Absent} /\ Send(r, b)
  BY DEF SendCallback
<1>4. QED
  BY <1>1, <1>2, <1>3, SendInv

\* The cookie that a reply sets was minted for the browser it reaches.
LEMMA DeliverInv ==
  ASSUME IInv, NEW r \in Requests, Deliver(r)
  PROVE  IInv'
<1> USE DEF server, client
<1>1. /\ pc[r] = "replied" /\ setc[r] # "keep" /\ RequestOK(r) /\ TypeOK
      /\ UNCHANGED <<server, grant, from, at, sid, code, state, sess, uid>>
      /\ cookie' = [cookie EXCEPT ![from[r]] = setc[r]]
  BY DEF Deliver, IInv
<1>2. /\ pc' \in [Requests -> Labels] /\ pc'[r] = "delivered"
      /\ \A q \in Requests \ {r} : pc'[q] = pc[q]
      /\ status' = status /\ setc' = setc
  BY <1>1, GotoTypes DEF Deliver, Labels
<1>3. from[r] \in Browsers /\ setc[r] \in Logins \cup {Absent}
      /\ (setc[r] # Absent => from[setc[r]] = from[r])
  BY <1>1, AbsentAssumption DEF TypeOK, RequestOK, Sent, OwnIds
<1>4. TypeOK' /\ Grow /\ EmailsUnique' /\ \A q \in Requests \ {r} : Same(q)
  BY <1>1, <1>2, <1>3 DEF IInv, TypeOK, Grow, Same, EmailsUnique
<1>5. \A k \in Stores, s \in Logins : SessionOK(k, s)'
  BY <1>1, <1>4, SessionStays
<1>6. \A b \in Browsers : CookieOK(b)'
  <2>1. \A b \in Browsers : CookieOK(b)
    BY DEF IInv
  <2>2. QED
    BY <1>1, <1>3, <2>1 DEF TypeOK, CookieOK
<1>7. (Claims(r)' => Claims(r)) /\ (Named(r)' => Named(r))
  BY <1>1, <1>2 DEF Claims, Named, Exchanged
<1>8. RequestOK(r)'
  <2>1. Route(r)' /\ Sent(r)' /\ HasSession(r)'
    BY <1>1, <1>2, RoutesAssumption DEF RequestOK, Route, Sent, HasSession, Exchanged
  <2>2. OwnIds(r)' /\ Issued(r)' /\ ClaimOK(r)' /\ OwnUser(r)'
    BY <1>1, <1>2, <1>7 DEF RequestOK, OwnIds, Issued, ClaimOK, OwnUser, Granted
  <2>3. QED
    BY <2>1, <2>2 DEF RequestOK
<1>9. \A q \in Requests : RequestOK(q)'
  BY <1>4, <1>8, RequestStays
<1>10. ClaimsOnce'
  <2>1. \A q \in Callbacks : (Claims(q)' => Claims(q)) /\ code'[q] = code[q]
    BY <1>1, <1>4, <1>7 DEF Claims, Same, Requests
  <2>2. QED
    BY <2>1 DEF IInv, ClaimsOnce
<1>11. QED
  BY <1>4, <1>5, <1>6, <1>9, <1>10 DEF IInv

\* Steps in which no request takes part.
LEMMA OutsideInv ==
  ASSUME IInv, TypeOK', Grow, EmailsUnique', UNCHANGED <<client, handlers>>,
         \A k \in Stores, s \in Logins : store'[k][s] \in {store[k][s], Absent}
  PROVE  IInv'
<1> USE DEF client, handlers
<1>1. \A k \in Stores, s \in Logins : SessionOK(k, s)'
  BY SessionStays
<1>2. \A b \in Browsers : CookieOK(b)'
  BY CookieStays
<1>3. \A q \in Requests : RequestOK(q)'
  BY RequestStays DEF Same
<1>4. ClaimsOnce'
  BY DEF IInv, ClaimsOnce, Claims
<1>5. QED
  BY <1>1, <1>2, <1>3, <1>4 DEF IInv

LEMMA ApproveInv ==
  ASSUME IInv, NEW f \in Logins, NEW sub \in Subs, Approve(f, sub)
  PROVE  IInv'
<1> USE DEF server, client, handlers
<1> DEFINE g == [grant[f] EXCEPT !.sub = sub]
<1>1. grant[f] \in [sub: Subs \cup {Absent}, spent: BOOLEAN] /\ grant[f].sub = Absent
      /\ UNCHANGED <<server, client, handlers>>
  BY DEF Approve, IInv, TypeOK
<1>2. g \in [sub: Subs \cup {Absent}, spent: BOOLEAN] /\ g.spent = grant[f].spent
  BY <1>1
<1>3. grant' = [grant EXCEPT ![f] = g]
  BY DEF Approve
<1> HIDE DEF g
<1>4. TypeOK' /\ Grow /\ EmailsUnique'
  BY <1>1, <1>2, <1>3 DEF IInv, TypeOK, Grow, EmailsUnique
<1>5. QED
  BY <1>1, <1>4, OutsideInv

LEMMA ExpireInv ==
  ASSUME IInv, NEW k \in Stores, NEW s \in Logins, Expire(k, s)
  PROVE  IInv'
<1> USE DEF server, client, handlers
<1> DEFINE left == [store[k] EXCEPT ![s] = Absent]
<1>1. left \in [Logins -> Data \cup {Absent}] /\ UNCHANGED <<users, grant, client, handlers>>
      /\ \A l \in Logins : left[l] \in {store[k][l], Absent}
  BY DEF Expire, IInv, TypeOK
<1>2. store' = [store EXCEPT ![k] = left]
  BY DEF Expire
<1> HIDE DEF left
<1>3. TypeOK' /\ Grow /\ EmailsUnique'
      /\ \A i \in Stores, l \in Logins : store'[i][l] \in {store[i][l], Absent}
  BY <1>1, <1>2 DEF IInv, TypeOK, Grow, EmailsUnique
<1>4. QED
  BY <1>1, <1>3, OutsideInv

-----------------------------------------------------------------------------
LEMMA InitInv == Init => IInv
<1> SUFFICES ASSUME Init PROVE IInv
  OBVIOUS
<1>1. TypeOK
  BY UsersAssumption DEF Init, TypeOK, Labels, Copy, Fresh
<1>2. EmailsUnique
  BY UsersAssumption DEF Init, EmailsUnique
<1>3. \A k \in Stores, s \in Logins : SessionOK(k, s)
  BY DEF Init, SessionOK
<1>4. \A b \in Browsers : CookieOK(b)
  BY DEF Init, CookieOK
<1>5. \A r \in Requests : RequestOK(r) /\ ~Claims(r)
  <2> TAKE r \in Requests
  <2>1. ~Claims(r) /\ ~Named(r) /\ "keep" \notin Logins
    BY AbsentAssumption DEF Init, Claims, Named, Exchanged
  <2>2. QED
    BY <2>1 DEF Init, RequestOK, Route, Sent, OwnIds, Issued, ClaimOK, HasSession,
                OwnUser, Exchanged, Fresh
<1>6. QED
  BY <1>1, <1>2, <1>3, <1>4, <1>5 DEF IInv, ClaimsOnce, Requests

LEMMA HandleInv ==
  ASSUME IInv, NEW r \in Requests, Handle(r)
  PROVE  IInv'
BY LoginGetInv, LoginRegenerateInv, LoginSaveInv, CallbackGetInv, CallbackExchangeInv,
   CallbackFindInv, CallbackUpdateInv, CallbackCreateInv, CallbackSaveInv,
   RequireAuthInv, MeGetInv, MeFindInv, LogoutGetInv, LogoutDestroyInv
DEF Handle

LEMMA NextInv == IInv /\ [Next]_vars => IInv'
<1> SUFFICES ASSUME IInv, [Next]_vars PROVE IInv'
  OBVIOUS
<1>1. CASE UNCHANGED vars
  <2>1. TypeOK' /\ Grow /\ EmailsUnique'
    BY <1>1 DEF vars, server, client, handlers, IInv, TypeOK, Grow, EmailsUnique
  <2>2. QED
    BY <1>1, <2>1, OutsideInv DEF vars, server
<1>2. CASE Next
  BY <1>2, SendOtherInv, SendCallbackInv, DeliverInv, HandleInv, ApproveInv, ExpireInv
  DEF Next
<1>3. QED
  BY <1>1, <1>2

\* Every step lets only grow what is known of browsers, flows and accounts.
LEMMA NextGrows ==
  ASSUME IInv, [Next]_vars
  PROVE  Grow
<1> USE DEF server, client, handlers
<1>1. ASSUME UNCHANGED <<grant, from, at, users>>, \A q \in Requests : pc[q] # "new" => pc'[q] # "new"
      PROVE  Grow
  BY <1>1 DEF Grow
<1>2. CASE UNCHANGED vars
  BY <1>1, <1>2 DEF vars
<1>3. ASSUME NEW r \in Requests, NEW b \in Browsers, Send(r, b) PROVE Grow
  BY <1>3 DEF Send, Goto, IInv, TypeOK, Grow
<1>4. ASSUME NEW r \in Requests, Deliver(r) PROVE Grow
  BY <1>1, <1>4 DEF Deliver, Goto, IInv, TypeOK
<1>5. ASSUME NEW f \in Logins, NEW sub \in Subs, Approve(f, sub) PROVE Grow
  <2>1. grant[f] \in [sub: Subs \cup {Absent}, spent: BOOLEAN]
    BY DEF IInv, TypeOK
  <2>2. \A g \in Logins : /\ grant[g].sub # Absent => grant'[g].sub = grant[g].sub
                          /\ grant[g].spent => grant'[g].spent
    BY <1>5, <2>1 DEF Approve, IInv, TypeOK
  <2>3. QED
    BY <1>5, <2>2 DEF Approve, Grow
<1>6. ASSUME NEW k \in Stores, NEW s \in Logins, Expire(k, s) PROVE Grow
  BY <1>1, <1>6 DEF Expire
<1>7. ASSUME NEW r \in Requests, Handle(r) PROVE Grow
  <2>1. \A q \in Requests : pc[q] # "new" => pc'[q] # "new"
    BY <1>7 DEF Handle, LoginGet, LoginRegenerate, LoginSave, CallbackGet, CallbackExchange,
                CallbackFind, CallbackUpdate, CallbackCreate, CallbackSave, RequireAuth,
                MeGet, MeFind, LogoutGet, LogoutDestroy, Get, Save, Goto, Reply, IInv, TypeOK
  <2>2. UNCHANGED <<from, at>>
    BY <1>7 DEF Handle, LoginGet, LoginRegenerate, LoginSave, CallbackGet, CallbackExchange,
                CallbackFind, CallbackUpdate, CallbackCreate, CallbackSave, RequireAuth,
                MeGet, MeFind, LogoutGet, LogoutDestroy, Get
  <2>3. CASE CallbackExchange(r)
    <3>1. grant' = grant \/ (code[r] \in Logins /\ grant' = [grant EXCEPT ![code[r]].spent = TRUE])
      BY <2>3 DEF CallbackExchange, IInv, TypeOK
    <3>2. \A g \in Logins : /\ grant'[g].sub = grant[g].sub
                            /\ grant[g].spent => grant'[g].spent
      BY <3>1, SpendTypes DEF IInv
    <3>3. users' = users
      BY <2>3 DEF CallbackExchange
    <3>4. QED
      BY <2>1, <2>2, <3>2, <3>3 DEF Grow
  <2>4. CASE CallbackCreate(r)
    <3>1. users' = users \/ users' = Append(users, grant[code[r]].sub)
      BY <2>4 DEF CallbackCreate
    <3>2. code[r] \in Logins /\ grant[code[r]].sub \in Subs \cup {Absent}
      BY <2>4 DEF CallbackCreate, IInv, TypeOK, RequestOK, Route, ClaimOK, Claims, Exchanged,
                  Requests
    <3>3. users \in Seq(Subs \cup {Absent})
      BY DEF IInv, TypeOK
    <3>4. DOMAIN users \subseteq DOMAIN users' /\ \A i \in DOMAIN users : users'[i] = users[i]
      BY <3>1, <3>2, <3>3
    <3>5. QED
      BY <2>1, <2>2, <2>4, <3>4 DEF CallbackCreate, Grow
  <2>5. CASE ~CallbackExchange(r) /\ ~CallbackCreate(r)
    <3>1. UNCHANGED <<grant, users>>
      BY <1>7, <2>5 DEF Handle, LoginGet, LoginRegenerate, LoginSave, CallbackGet, CallbackFind,
                  CallbackUpdate, CallbackSave, RequireAuth, MeGet, MeFind, LogoutGet,
                  LogoutDestroy, Get
    <3>2. QED
      BY <1>1, <2>1, <2>2, <3>1
  <2>6. QED
    BY <2>3, <2>4, <2>5
<1>8. QED
  BY <1>2, <1>3, <1>4, <1>5, <1>6, <1>7 DEF Next, SendOther, SendCallback

LEMMA Invariance == Spec => []IInv
BY InitInv, NextInv, PTL DEF Spec

-----------------------------------------------------------------------------
(* The properties. *)

LEMMA Implications ==
  IInv => /\ OneAccountPerSub /\ SessionsAreGranted /\ SessionsDoNotCross
          /\ FlowCompletesOnce
<1> SUFFICES ASSUME IInv
             PROVE  /\ OneAccountPerSub /\ SessionsAreGranted /\ SessionsDoNotCross
                    /\ FlowCompletesOnce
  OBVIOUS
<1> USE DEF IInv
<1>1. OneAccountPerSub
  BY DEF OneAccountPerSub, EmailsUnique
<1>2. SessionsAreGranted
  <2>1. \A r \in Mes : status[r] = 200 => Granted(from[r], uid[r])
    BY DEF RequestOK, OwnUser, Named, Requests
  <2>2. QED
    BY <2>1 DEF SessionsAreGranted, SessionOK
<1>3. SessionsDoNotCross
  BY DEF SessionsDoNotCross, CookieOK, RequestOK, OwnIds, SessionOK
<1>4. FlowCompletesOnce
  BY DEF FlowCompletesOnce, ClaimsOnce, Claims
<1>5. QED
  BY <1>1, <1>2, <1>3, <1>4

\* Every variable keeps its type: in particular no handler saves a session
\* without an id, and a user id is never one of nobody.
THEOREM TypeCorrect == Spec => []TypeOK
<1>1. IInv => TypeOK
  BY DEF IInv
<1>2. QED
  BY <1>1, Invariance, PTL

\* However many callbacks of a subject are between their SELECT and their INSERT,
\* it has one account (auth_service.go:186-199).
THEOREM AccountsUnique == Spec => []OneAccountPerSub
BY Implications, Invariance, PTL

\* Sessions are signed in as granted, whatever codes and states callbacks bring,
\* apart, foreign or empty, and whatever snapshots are saved over each other
\* (auth_controller.go:55-62,78-87,116, auth_service.go:144,160).
THEOREM SignedInAsGranted == Spec => []SessionsAreGranted
BY Implications, Invariance, PTL

\* Session ids and flows stay with the browser and the login they were minted for
\* (auth_controller.go:55-60).
THEOREM NothingCrosses == Spec => []SessionsDoNotCross
BY Implications, Invariance, PTL

\* Of all callbacks of one flow at most one gets through (auth_service.go:144,160).
THEOREM FlowsCompleteOnce == Spec => []FlowCompletesOnce
BY Implications, Invariance, PTL
=============================================================================
