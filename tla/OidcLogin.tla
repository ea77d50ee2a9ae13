------------------------------ MODULE OidcLogin ------------------------------
(***************************************************************************)
(* Signing in and out: the handlers of /auth, the RequireAuth middleware,  *)
(* the session store (redis or memory) and the table of users, with the    *)
(* browsers and the identity provider around them.                         *)
(*                                                                         *)
(* A session lives in the store under the id its cookie carries.  A        *)
(* handler loads a SNAPSHOT of it, works on that copy while other requests *)
(* of the same browser do the same, and saves the copy as a whole.  An     *)
(* action is one call to the store, the database or the provider with the  *)
(* Go code around it; a browser sends requests in parallel (tabs, reloads) *)
(* and the replies arrive in any order or never.                           *)
(*                                                                         *)
(* With prefork every child process has a memory store of its own; a       *)
(* request is served by the child that accepted it.  Redis, or a single    *)
(* process, is one store.                                                  *)
(*                                                                         *)
(* A session id is minted by Login only, and so are a state and its        *)
(* verifier, so the login request itself names all three, and the code     *)
(* that the provider makes of them too.  Two Logins never draw the same    *)
(* state: the clock seed of GenerateRandomString is not modelled.          *)
(***************************************************************************)
EXTENDS Naturals, Sequences

CONSTANTS Logins, Callbacks, Mes, Logouts,  \* one-shot requests, by route
          Others,    \* requests for other modules, behind RequireAuth
          Stores,    \* session stores: one, or one of each child
          Browsers,
          Subs,      \* subjects at the identity provider
          EmailOf,   \* the e-mail claim of each subject
          InitUsers, \* the subjects that have accounts already
          Absent,    \* nothing: no cookie, no session, no user
          Faults,    \* may store, database and provider calls fail?
          Expiry     \* may a stored session expire?

Requests == Logins \cup Callbacks \cup Mes \cup Logouts \cup Others

ASSUME RoutesAssumption ==
  /\ Logins \cap Callbacks = {} /\ Logins \cap Mes = {} /\ Logins \cap Logouts = {}
  /\ Callbacks \cap Mes = {} /\ Callbacks \cap Logouts = {} /\ Mes \cap Logouts = {}
  /\ Others \cap (Logins \cup Callbacks \cup Mes \cup Logouts) = {}
ASSUME AbsentAssumption ==
  Absent \notin Requests /\ Absent \notin Browsers /\ Absent \notin Subs
  /\ Absent \notin Stores
  /\ Absent \notin Nat /\ "keep" \notin Logins \cup {Absent}
ASSUME FlagsAssumption == Faults \in BOOLEAN /\ Expiry \in BOOLEAN
ASSUME EmailAssumption == DOMAIN EmailOf = Subs
ASSUME UsersAssumption ==
  /\ InitUsers \in Seq(Subs)
  /\ \A i, j \in DOMAIN InitUsers : EmailOf[InitUsers[i]] = EmailOf[InitUsers[j]] => i = j

VARIABLES store,   \* the stored sessions, by store and id
          users,   \* table users: the subject of each row, index = id
          grant,   \* provider: who approved a flow, and is its code spent
          cookie,  \* browser: the session id it sends
          pc,      \* request: what happens next
          from,    \* request: the browser that sent it
          at,      \* request: the store of the process that serves it
          sid,     \* request: the cookie it was sent with
          code,    \* callback: the flow the code in its query belongs to
          state,   \* callback: the login that drew the state in its query
          sess,    \* request: its copy of the session
          uid,     \* the user a callback or me found, or Locals("user_id")
          status,  \* request: the HTTP status replied
          setc     \* request: the cookie its reply sets ("keep": none)

server   == <<store, users>>
client   == <<cookie, from, at, sid, code, state>>
handlers == <<pc, sess, uid, status, setc>>
vars     == <<server, grant, client, handlers>>

UserIds == Nat \ {0}
Data    == [user: UserIds \cup {Absent}, flow: Logins \cup {Absent}]
Copy    == [id: Logins \cup {Absent}, user: UserIds \cup {Absent},
            flow: Logins \cup {Absent}]
Fresh   == [id |-> Absent, user |-> Absent, flow |-> Absent]
Labels  == {"new", "get", "regenerate", "exchange", "find", "update", "create",
            "save", "auth", "destroy", "next", "replied", "delivered"}

-----------------------------------------------------------------------------
(* Pieces of the handlers. *)

Goto(r, label) == /\ pc' = [pc EXCEPT ![r] = label]
                  /\ UNCHANGED <<status, setc>>

\* The handler returns: its status and its Set-Cookie.
Reply(r, s, c) == /\ pc' = [pc EXCEPT ![r] = "replied"]
                  /\ status' = [status EXCEPT ![r] = s]
                  /\ setc' = [setc EXCEPT ![r] = c]

\* store.Get: the session of the request's cookie, or an empty one under an id
\* nobody has seen.
Loaded(r) == LET id == sid[r] IN
             IF id # Absent /\ store[at[r]][id] # Absent
             THEN [id |-> id, user |-> store[at[r]][id].user, flow |-> store[at[r]][id].flow]
             ELSE Fresh

\* Storage.Delete and Storage.Set, by the process that serves r.
Without(r, id) == IF id = Absent THEN store ELSE [store EXCEPT ![at[r]][id] = Absent]
With(r, id, data) == [store EXCEPT ![at[r]][id] = data]

\* Variant: the table has no unique index.
UsersUnindexed(sub) == TRUE

\* The unique indexes on logto_sub and on email.
Insertable(sub) ==
  \A i \in DOMAIN users : users[i] # sub /\ EmailOf[users[i]] # EmailOf[sub]

\* SELECT ... WHERE logto_sub = ?
Found(sub) == {i \in DOMAIN users : users[i] = sub}

-----------------------------------------------------------------------------
(* The browsers and the provider. *)

Init == /\ store = [k \in Stores |-> [s \in Logins |-> Absent]]
        /\ users = InitUsers
        /\ grant = [f \in Logins |-> [sub |-> Absent, spent |-> FALSE]]
        /\ cookie = [b \in Browsers |-> Absent]
        /\ pc = [r \in Requests |-> "new"]
        /\ from = [r \in Requests |-> Absent]
        /\ at = [r \in Requests |-> Absent]
        /\ sid = [r \in Requests |-> Absent]
        /\ code = [r \in Requests |-> Absent]
        /\ state = [r \in Requests |-> Absent]
        /\ sess = [r \in Requests |-> Fresh]
        /\ uid = [r \in Requests |-> Absent]
        /\ status = [r \in Requests |-> 0]
        /\ setc = [r \in Requests |-> "keep"]

\* A browser sends a request with the cookie it has now, and some process accepts
\* it.  All but /auth/login and /auth/callback pass RequireAuth first.
Send(r, b) ==
  /\ pc[r] = "new"
  /\ from' = [from EXCEPT ![r] = b]
  /\ sid' = [sid EXCEPT ![r] = cookie[b]]
  /\ \E k \in Stores : at' = [at EXCEPT ![r] = k]
  /\ Goto(r, IF r \in Logins \cup Callbacks THEN "get" ELSE "auth")
  /\ UNCHANGED <<server, grant, cookie, sess, uid>>

SendOther(r, b) == r \notin Callbacks /\ Send(r, b) /\ UNCHANGED <<code, state>>

\* The provider sends the browser to /auth/callback, with the code and state of a
\* flow; a reload repeats it.  The two are query parameters of whoever follows
\* the link: any code the provider has handed out, of another browser's flow too,
\* with any state that a login has drawn, and each of them may be missing.
SendCallback(r, b) ==
  /\ r \in Callbacks
  /\ \E f \in {l \in Logins : grant[l].sub # Absent} \cup {Absent} :
       code' = [code EXCEPT ![r] = f]
  /\ \E f \in {l \in Logins : status[l] = 302} \cup {Absent} :
       state' = [state EXCEPT ![r] = f]
  /\ Send(r, b)

\* A reply reaches its browser, which obeys the Set-Cookie.  (One that sets no
\* cookie makes no difference here.)
Deliver(r) ==
  /\ pc[r] = "replied" /\ setc[r] # "keep"
  /\ cookie' = [cookie EXCEPT ![from[r]] = setc[r]]
  /\ Goto(r, "delivered")
  /\ UNCHANGED <<server, grant, from, at, sid, code, state, sess, uid>>

\* The user behind a browser that was redirected to the provider signs in there.
Approve(f, sub) ==
  /\ pc[f] = "delivered" /\ status[f] = 302 /\ grant[f].sub = Absent
  /\ grant' = [grant EXCEPT ![f].sub = sub]
  /\ UNCHANGED <<server, client, handlers>>

\* A stored session reaches its expiration.
Expire(k, s) ==
  /\ Expiry /\ store[k][s] # Absent
  /\ store' = [store EXCEPT ![k][s] = Absent]
  /\ UNCHANGED <<users, grant, client, handlers>>

-----------------------------------------------------------------------------
(* GET /auth/login *)

\* store.Get, then what the handler asks of the session.  A failing store is a 500
\* whatever is in it.
Get(r, asks, next) ==
  /\ \/ asks /\ Goto(r, next) /\ sess' = [sess EXCEPT ![r] = Loaded(r)]
     \/ ~asks /\ Reply(r, 401, "keep") /\ UNCHANGED sess
     \/ Faults /\ Reply(r, 500, "keep") /\ UNCHANGED sess
  /\ UNCHANGED <<server, grant, client, uid>>

LoginGet(r) == r \in Logins /\ pc[r] = "get" /\ Get(r, TRUE, "regenerate")

\* Variant: the handler does not set the state.
RegenerateForgetsState(r) ==
  /\ pc[r] = "regenerate"
  /\ store' = Without(r, sess[r].id)
  /\ sess' = [sess EXCEPT ![r].id = r]
  /\ Goto(r, "save")
  /\ UNCHANGED <<users, grant, client, uid>>

\* Variant: a state that is there already is kept.
RegenerateKeepsState(r) ==
  /\ pc[r] = "regenerate"
  /\ store' = Without(r, sess[r].id)
  /\ sess' = [sess EXCEPT ![r].id = r, ![r].flow = IF @ = Absent THEN r ELSE @]
  /\ Goto(r, "save")
  /\ UNCHANGED <<users, grant, client, uid>>

\* sess.Regenerate deletes the old id, mints a new one and KEEPS the data;
\* then the handler sets state and verifier in its copy.
LoginRegenerate(r) ==
  /\ pc[r] = "regenerate"
  /\ \/ /\ store' = Without(r, sess[r].id)
        /\ sess' = [sess EXCEPT ![r].id = r, ![r].flow = r]
        /\ Goto(r, "save")
     \/ Faults /\ Reply(r, 500, "keep") /\ UNCHANGED <<store, sess>>
  /\ UNCHANGED <<users, grant, client, uid>>

\* sess.Save sets the cookie before it writes, so a failed write leaves a
\* cookie without a session.
Save(r, data, ok) ==
  \/ store' = With(r, sess[r].id, data) /\ Reply(r, ok, sess[r].id)
  \/ Faults /\ Reply(r, 500, sess[r].id) /\ UNCHANGED store

LoginSave(r) == /\ r \in Logins /\ pc[r] = "save"
                /\ Save(r, [user |-> sess[r].user, flow |-> sess[r].flow], 302)
                /\ UNCHANGED <<users, grant, client, sess, uid>>

-----------------------------------------------------------------------------
(* GET /auth/callback *)

\* Get, and the comparison of the state in the query with the session's: none in
\* both is equal too.
CallbackGet(r) ==
  /\ r \in Callbacks /\ pc[r] = "get"
  /\ Get(r, Loaded(r).flow = state[r], "exchange")

\* Variant: no verifier is sent, and none is asked for.
ExchangeUnverified(r) ==
  /\ pc[r] = "exchange"
  /\ code[r] # Absent /\ ~grant[code[r]].spent
  /\ grant' = [grant EXCEPT ![code[r]].spent = TRUE]
  /\ Goto(r, "find")
  /\ UNCHANGED <<server, client, sess, uid>>

\* Variant: the error of the exchange is not looked at.
ExchangeErrorDropped(r) ==
  /\ pc[r] = "exchange"
  /\ code[r] # Absent
  /\ grant' = [grant EXCEPT ![code[r]].spent = TRUE]
  /\ Goto(r, "find")
  /\ UNCHANGED <<server, client, sess, uid>>

\* NewProvider, Exchange with the session's verifier, Verify.  The provider
\* takes a code once, and only with the verifier of its flow, so not with the
\* empty one of a session that waits for no flow; when an answer is lost or does
\* not verify the code may be spent for nothing.
CallbackExchange(r) ==
  LET f == code[r]
      valid == f # Absent /\ sess[r].flow = f /\ ~grant[f].spent IN
  /\ pc[r] = "exchange"
  /\ \/ /\ valid
        /\ grant' = [grant EXCEPT ![f].spent = TRUE]
        /\ Goto(r, "find") \/ (Faults /\ Reply(r, 401, "keep"))
     \/ /\ ~valid \/ Faults
        /\ Reply(r, 401, "keep")
        /\ UNCHANGED grant
  /\ UNCHANGED <<server, client, sess, uid>>

\* Variant: the error is not looked at, and the user that was not found has id 0.
FindErrorDropped(r) ==
  /\ r \in Callbacks /\ pc[r] = "find"
  /\ Goto(r, "update")
  /\ uid' = [uid EXCEPT ![r] = CHOOSE i \in 0..Len(users) :
                                 i \in Found(grant[code[r]].sub) \/ (Found(grant[code[r]].sub) = {} /\ i = 0)]
  /\ UNCHANGED <<server, grant, client, sess>>

\* FindUserByLogtoSub: ANY error, not only "not found", leads to a create.
CallbackFind(r) ==
  LET sub == grant[code[r]].sub IN
  /\ r \in Callbacks /\ pc[r] = "find"
  /\ \/ \E i \in Found(sub) : /\ uid' = [uid EXCEPT ![r] = i]
                              /\ Goto(r, "update")
     \/ /\ Found(sub) = {} \/ Faults
        /\ Goto(r, "create")
        /\ UNCHANGED uid
  /\ UNCHANGED <<server, grant, client, sess>>

\* UpdateUser stores the time of this login.
CallbackUpdate(r) ==
  /\ pc[r] = "update"
  /\ Goto(r, "save") \/ (Faults /\ Reply(r, 401, "keep"))
  /\ UNCHANGED <<server, grant, client, sess, uid>>

\* Variant: the id of the new row is read before the INSERT.
CreateOffByOne(r) ==
  /\ pc[r] = "create"
  /\ Insertable(grant[code[r]].sub)
  /\ users' = Append(users, grant[code[r]].sub)
  /\ uid' = [uid EXCEPT ![r] = Len(users)]
  /\ Goto(r, "save")
  /\ UNCHANGED <<store, grant, client, sess>>

\* CreateUser: the new row, unless an index or a fault refuses it; the row may
\* be there although its answer was lost.
CallbackCreate(r) ==
  LET sub == grant[code[r]].sub IN
  /\ pc[r] = "create"
  /\ \/ /\ Insertable(sub)
        /\ users' = Append(users, sub)
        /\ \/ Goto(r, "save") /\ uid' = [uid EXCEPT ![r] = Len(users) + 1]
           \/ Faults /\ Reply(r, 401, "keep") /\ UNCHANGED uid
     \/ /\ ~Insertable(sub) \/ Faults
        /\ Reply(r, 401, "keep")
        /\ UNCHANGED <<users, uid>>
  /\ UNCHANGED <<store, grant, client, sess>>

\* The user goes into the handler's copy, state and verifier out of it, and the
\* copy is saved under the id it was loaded from, deleted meanwhile or not.
CallbackSave(r) ==
  /\ r \in Callbacks /\ pc[r] = "save"
  /\ Save(r, [user |-> uid[r], flow |-> Absent], 302)
  /\ UNCHANGED <<users, grant, client, sess, uid>>

-----------------------------------------------------------------------------
(* RequireAuth, GET /auth/me, POST /auth/logout *)

\* The middleware reads the session once and leaves its user in Locals; the
\* handlers of /auth read the session again instead, the others (pc "next") take
\* the user from there (GetUserID).
RequireAuth(r) ==
  /\ pc[r] = "auth"
  /\ \/ /\ Loaded(r).user # Absent
        /\ Goto(r, IF r \in Others THEN "next" ELSE "get")
        /\ uid' = IF r \in Others THEN [uid EXCEPT ![r] = Loaded(r).user] ELSE uid
     \/ /\ Loaded(r).user = Absent \/ Faults
        /\ Reply(r, 401, "keep")
        /\ UNCHANGED uid
  /\ UNCHANGED <<server, grant, client, sess>>

MeGet(r) == r \in Mes /\ pc[r] = "get" /\ Get(r, Loaded(r).user # Absent, "find")

\* FindUserByID; users are never deleted, but a query may fail.
MeFind(r) ==
  /\ r \in Mes /\ pc[r] = "find"
  /\ \/ /\ sess[r].user \in DOMAIN users
        /\ uid' = [uid EXCEPT ![r] = sess[r].user]
        /\ Reply(r, 200, "keep")
     \/ /\ sess[r].user \notin DOMAIN users \/ Faults
        /\ Reply(r, 500, "keep")
        /\ UNCHANGED uid
  /\ UNCHANGED <<server, grant, client, sess>>

LogoutGet(r) == r \in Logouts /\ pc[r] = "get" /\ Get(r, TRUE, "destroy")

\* sess.Destroy deletes the session and expires the cookie.
LogoutDestroy(r) ==
  /\ pc[r] = "destroy"
  /\ \/ store' = Without(r, sess[r].id) /\ Reply(r, 200, Absent)
     \/ Faults /\ Reply(r, 500, "keep") /\ UNCHANGED store
  /\ UNCHANGED <<users, grant, client, sess, uid>>

-----------------------------------------------------------------------------
\* What the goroutine of a request that was sent does next.
Handle(r) ==
  \/ LoginGet(r)    \/ LoginRegenerate(r)  \/ LoginSave(r)
  \/ CallbackGet(r) \/ CallbackExchange(r) \/ CallbackFind(r)
  \/ CallbackUpdate(r) \/ CallbackCreate(r) \/ CallbackSave(r)
  \/ RequireAuth(r) \/ MeGet(r) \/ MeFind(r) \/ LogoutGet(r) \/ LogoutDestroy(r)

Next ==
  \/ \E r \in Requests : \/ \E b \in Browsers : SendOther(r, b) \/ SendCallback(r, b)
                         \/ Deliver(r) \/ Handle(r)
  \/ \E f \in Logins : \/ \E k \in Stores : Expire(k, f)
                       \/ \E sub \in Subs : Approve(f, sub)

Spec == Init /\ [][Next]_vars

\* Go runs every runnable goroutine, and a call to the store, the database or
\* the provider returns, with a result or with an error.  Users and browsers
\* need not do anything, and a session need not expire.
FairSpec == Spec /\ \A r \in Requests : WF_vars(Handle(r))

-----------------------------------------------------------------------------
(* Properties. *)

\* Types.
TypeOK ==
  /\ store \in [Stores -> [Logins -> Data \cup {Absent}]]
  /\ users \in Seq(Subs)
  /\ grant \in [Logins -> [sub: Subs \cup {Absent}, spent: BOOLEAN]]
  /\ cookie \in [Browsers -> Logins \cup {Absent}]
  /\ pc \in [Requests -> Labels]
  /\ from \in [Requests -> Browsers \cup {Absent}]
  /\ at \in [Requests -> Stores \cup {Absent}]
  /\ sid \in [Requests -> Logins \cup {Absent}]
  /\ code \in [Requests -> Logins \cup {Absent}]
  /\ state \in [Requests -> Logins \cup {Absent}]
  /\ sess \in [Requests -> Copy]
  /\ uid \in [Requests -> UserIds \cup {Absent}]
  /\ status \in [Requests -> {0, 200, 302, 400, 401, 500}]
  /\ setc \in [Requests -> Logins \cup {Absent, "keep"}]

\* A subject has one account, however many callbacks of it are between their
\* SELECT and their INSERT, and although a failed SELECT is taken for "no
\* account" (auth_service.go:186-199).
OneAccountPerSub ==
  \A i, j \in DOMAIN users : users[i] = users[j] => i = j

\* Browser b was granted account u: it started a flow that the user of u's
\* subject approved and whose code was exchanged.
Granted(b, u) ==
  /\ u \in DOMAIN users
  /\ \E f \in Logins : from[f] = b /\ grant[f].spent /\ grant[f].sub = users[u]

\* A session is signed in, and /auth/me names an account, only for an account
\* that was granted to the very browser that holds the session, whatever code and
\* state a callback brings, a foreign code and no state in a session without a
\* flow included, and whatever snapshots were saved over each other
\* (auth_controller.go:55-62,78-87,116, auth_service.go:144,160).
SessionsAreGranted ==
  /\ \A k \in Stores, s \in Logins :
       (store[k][s] # Absent /\ store[k][s].user # Absent)
       => Granted(from[s], store[k][s].user)
  /\ \A r \in Mes : status[r] = 200 => Granted(from[r], uid[r])

\* A browser only ever holds session ids that were minted for it, and a flow
\* waits in no other session than the one its login created: sessions and
\* flows never cross browsers or logins, although ids, snapshots and data are
\* carried from one to another (auth_controller.go:55-60).
SessionsDoNotCross ==
  /\ \A b \in Browsers : cookie[b] # Absent => from[cookie[b]] = b
  /\ \A r \in Requests : sid[r] # Absent => from[sid[r]] = from[r]
  /\ \A k \in Stores, s \in Logins : store[k][s] # Absent => store[k][s].flow \in {Absent, s}

\* A flow is completed at most once: of all callbacks that carry its code at
\* most one is redirected to the frontend (auth_service.go:144,160).
FlowCompletesOnce ==
  \A q, r \in Callbacks : (status[q] = 302 /\ status[r] = 302 /\ code[q] = code[r])
                          => q = r

\* A callback that brings the code and state of flow f in the session that waits
\* for f, to the process that has it.
Arrives(r, f) ==
  /\ pc[r] = "get" /\ sid[r] = f /\ at[r] = at[f]
  /\ code[r] = f /\ state[r] = f /\ ~grant[f].spent

\* Such a callback signs its session in, unless that session is gone before it is
\* read, logged out or expired, or the browser has started another login (where no
\* call fails).
LoginCompletes ==
  \A f \in Logins :
     (\E r \in Callbacks : Arrives(r, f))
     ~> \/ \E k \in Stores :
             k = at[f] /\ (store[k][f] = Absent \/ store[k][f].user # Absent)
        \/ \E l \in Logins \ {f} : from[l] = from[f]

-----------------------------------------------------------------------------
(* What comments and messages of the code say, and the code does not do. *)

\* "Logout success": a session whose logout was answered so is gone.  A login of
\* the same browser that read it before must not bring its user back.
LogoutEndsSession ==
  [][\A r \in Logins, o \in Logouts :
       (/\ pc[r] = "save" /\ pc'[r] = "replied" /\ status[o] = 200
        /\ sid[o] = sid[r] /\ at[o] = at[r] /\ store'[at[r]][r] # Absent)
       => store'[at[r]][r].user = Absent]_vars
=============================================================================
