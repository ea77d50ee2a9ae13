------------------------------ MODULE Workspace ------------------------------
(***************************************************************************)
(* The workspace module: controller, service and repository of             *)
(* /api/v1/workspaces, over the table `workspaces`.                        *)
(*                                                                         *)
(* Every HTTP request runs in a goroutine of its own.  The service keeps   *)
(* no state and opens no transaction, so what two requests share is the    *)
(* table, and what is atomic is ONE SQL statement: an action below is one  *)
(* statement with the Go code around it, and statements of different       *)
(* requests interleave freely.  A row read by one statement may be stale   *)
(* when the next one writes it.                                            *)
(*                                                                         *)
(* Left out: time stamps, the texts of messages, ListWorkspaces (it writes *)
(* nothing), and the gaps a refused INSERT leaves in the id sequence.      *)
(***************************************************************************)
EXTENDS Naturals, Sequences, FiniteSets

CONSTANTS Requests,  \* HTTP requests, each handled once
          Users,     \* user ids RequireAuth may put in the context
          Names,     \* workspace names that pass validation
          Descs,     \* descriptions
          Ids,       \* ids clients put in a URL
          Absent,    \* a nil pointer: field not in the request, or SQL NULL
          InitRows,  \* rows present before the first request
          Faults,    \* may a statement fail other than by the unique index?
          Lost       \* may a statement take effect and its answer be lost?

VARIABLES rows,    \* the table: index = primary key, soft-deleted rows stay
          pc,      \* what each handler does next
          call,    \* the decoded request
          ws,      \* the handler's *schema.Workspace, then the reply's body
          status   \* HTTP status replied, 0 before

vars == <<rows, pc, call, ws, status>>

Row == [owner: Users, name: Names, desc: Descs \cup {Absent},
        public: BOOLEAN, deleted: BOOLEAN]

Calls ==
  [op: {"create"}, user: Users, id: {0}, name: Names,
   desc: Descs \cup {Absent}, public: {Absent}]
  \cup
  [op: {"update"}, user: Users, id: Ids, name: Names \cup {Absent},
   desc: Descs \cup {Absent}, public: BOOLEAN \cup {Absent}]
  \cup
  [op: {"get", "delete"}, user: Users, id: Ids, name: {Absent},
   desc: {Absent}, public: {Absent}]

Refusals == {400, 401, 403, 404, 422, 500}
Statuses == {0, 200, 201} \cup Refusals

-----------------------------------------------------------------------------
(* The table as the statements see it. *)

\* Variant: the index does not exist.
IndexIgnored(t) == TRUE

\* idx_workspace_owner_name covers deleted rows too: it is not a partial index.
IndexHolds(t) ==
  \A i, j \in DOMAIN t :
     (t[i].owner = t[j].owner /\ t[i].name = t[j].name) => i = j

ASSUME RowsAssumption == /\ InitRows \in Seq(Row)
                         /\ \A i, j \in DOMAIN InitRows :
                              (/\ InitRows[i].owner = InitRows[j].owner
                               /\ InitRows[i].name = InitRows[j].name) => i = j
ASSUME ConstantsAssumption == /\ Ids \subseteq Nat
                              /\ Faults \in BOOLEAN /\ Lost \in BOOLEAN
                              /\ Absent \notin Names /\ Absent \notin Descs
                              /\ Absent \notin Calls

\* SELECT ... WHERE id = ? AND deleted_at IS NULL finds a row.
Live(id) == id \in DOMAIN rows /\ ~rows[id].deleted

\* Variant: deleted rows are written too.
AffectedEvenDeleted(id) == {i \in DOMAIN rows : i = id}
\* Variant: the WHERE id = ? is missing.
AffectedAnyId(id) == {i \in DOMAIN rows : ~rows[i].deleted}

\* The rows an UPDATE ... WHERE id = ? AND deleted_at IS NULL touches: none is
\* no error.
Affected(id) == {i \in DOMAIN rows : i = id /\ ~rows[i].deleted}

\* COUNT(*) over the live rows of `owner` with that name, without `exclude`.
NameTaken(name, owner, exclude) ==
  \E i \in DOMAIN rows : /\ rows[i].name = name /\ rows[i].owner = owner
                         /\ ~rows[i].deleted /\ i # exclude

\* CheckNameExists drops the error of its COUNT: a failed one answers "no".
CheckNameExists(name, owner, exclude) ==
  {NameTaken(name, owner, exclude)} \cup (IF Faults THEN {FALSE} ELSE {})

-----------------------------------------------------------------------------
(* Pieces of the handlers. *)

\* A handler ends: the status it replies.
Reply(r, s) == /\ pc' = [pc EXCEPT ![r] = "done"]
               /\ status' = [status EXCEPT ![r] = s]

\* The answer to a write that took effect: `ok`, or, when the driver reports an
\* error after the commit, the status of the handler's error path.
ReplyWritten(r, ok, err) == Reply(r, ok) \/ (Lost /\ Reply(r, err))

Goto(r, label) == /\ pc' = [pc EXCEPT ![r] = label]
                  /\ UNCHANGED status

\* Variant: no owner check.
OwnsAny(r) == TRUE

Owns(r) == rows[call[r].id].owner = call[r].user

\* FindByID did not give a row the caller may use; dberr: status of any other
\* error than ErrRecordNotFound.
FindRefused(r, allowed, dberr) ==
  /\ \/ Faults /\ Reply(r, dberr)
     \/ ~Live(call[r].id) /\ Reply(r, 404)
     \/ Live(call[r].id) /\ ~allowed /\ Reply(r, 403)
  /\ UNCHANGED <<rows, call, ws>>

\* Variant: a nil name is assigned.
MergeNil(w, c) == [w EXCEPT !.name = c.name,
                            !.desc = IF c.desc = Absent THEN @ ELSE c.desc,
                            !.public = IF c.public = Absent THEN @ ELSE c.public]
\* Variant: an absent is_public publishes.
MergePublic(w, c) == [w EXCEPT !.name = IF c.name = Absent THEN @ ELSE c.name,
                               !.public = c.public # FALSE]

\* The fields of the request assigned to the row that was read.
Merge(w, c) == [w EXCEPT !.name = IF c.name = Absent THEN @ ELSE c.name,
                         !.desc = IF c.desc = Absent THEN @ ELSE c.desc,
                         !.public = IF c.public = Absent THEN @ ELSE c.public]

\* Updates(struct) sets every column whose field is not the zero value: the
\* name just read is written back, FALSE and nil are not written.
Stored(old, w) == [old EXCEPT !.owner = w.owner,
                              !.name = w.name,
                              !.desc = IF w.desc = Absent THEN @ ELSE w.desc,
                              !.public = @ \/ w.public]

-----------------------------------------------------------------------------
(* Actions. *)

Init == /\ rows = InitRows
        /\ pc = [r \in Requests |-> "new"]
        /\ call = [r \in Requests |-> Absent]
        /\ ws = [r \in Requests |-> Absent]
        /\ status = [r \in Requests |-> 0]

FirstStep == [create |-> "check", update |-> "find",
              get |-> "find", delete |-> "find"]

\* A request that passes authentication, id parsing, body parsing, validation.
Receive(r) ==
  /\ pc[r] = "new"
  /\ \E c \in Calls : /\ call' = [call EXCEPT ![r] = c]
                      /\ Goto(r, FirstStep[c.op])
  /\ UNCHANGED <<rows, ws>>

\* No user in the context, a bad id or body, or a field that does not validate.
Reject(r) == /\ pc[r] = "new"
             /\ \E s \in {401, 400, 422} : Reply(r, s)
             /\ UNCHANGED <<rows, call, ws>>

\* CreateWorkspace: the name check, then the row it will insert.
CreateCheck(r) ==
  LET c == call[r] IN
  /\ pc[r] = "check" /\ c.op = "create"
  /\ \E taken \in CheckNameExists(c.name, c.user, 0) :
       \/ /\ taken
          /\ Reply(r, 400)
          /\ UNCHANGED ws
       \/ /\ ~taken
          /\ ws' = [ws EXCEPT ![r] = [owner |-> c.user, name |-> c.name,
                                      desc |-> c.desc, public |-> FALSE,
                                      deleted |-> FALSE]]
          /\ Goto(r, "write")
  /\ UNCHANGED <<rows, call>>

\* Variant: the error of the INSERT is not looked at.
CreateWriteUnchecked(r) ==
  /\ pc[r] = "write" /\ call[r].op = "create"
  /\ rows' = IF IndexHolds(Append(rows, ws[r])) THEN Append(rows, ws[r])
                                                ELSE rows
  /\ Reply(r, 201)
  /\ UNCHANGED <<call, ws>>

\* The INSERT: a duplicate key, or any error, is a 400.
CreateWrite(r) ==
  /\ pc[r] = "write" /\ call[r].op = "create"
  /\ \/ /\ IndexHolds(Append(rows, ws[r]))
        /\ rows' = Append(rows, ws[r])
        /\ ReplyWritten(r, 201, 400)
     \/ /\ Faults \/ ~IndexHolds(Append(rows, ws[r]))
        /\ Reply(r, 400)
        /\ UNCHANGED rows
  /\ UNCHANGED <<call, ws>>

\* GetWorkspace: one SELECT; the owner, or anyone if the row is public.
GetFind(r) ==
  LET id == call[r].id
      allowed == Owns(r) \/ rows[id].public IN
  /\ pc[r] = "find" /\ call[r].op = "get"
  /\ \/ FindRefused(r, allowed, 500)
     \/ /\ Live(id) /\ allowed
        /\ ws' = [ws EXCEPT ![r] = rows[id]]
        /\ Reply(r, 200)
        /\ UNCHANGED <<rows, call>>

\* UpdateWorkspace: the SELECT and the owner check.
UpdateFind(r) ==
  LET c == call[r] IN
  /\ pc[r] = "find" /\ c.op = "update"
  /\ \/ FindRefused(r, Owns(r), 400)
     \/ /\ Live(c.id) /\ Owns(r)
        /\ ws' = [ws EXCEPT ![r] = rows[c.id]]
        /\ Goto(r, IF c.name = Absent THEN "write" ELSE "check")
        /\ UNCHANGED <<rows, call>>

\* The name check of an update that carries a name.
UpdateCheck(r) ==
  LET c == call[r] IN
  /\ pc[r] = "check" /\ c.op = "update"
  /\ \E taken \in CheckNameExists(c.name, c.user, c.id) :
       \/ taken /\ Reply(r, 400)
       \/ ~taken /\ Goto(r, "write")
  /\ UNCHANGED <<rows, call, ws>>

\* Merge the request into the row read before, and the UPDATE.
UpdateWrite(r) ==
  LET c == call[r]
      w == Merge(ws[r], c)
      after == [i \in DOMAIN rows |-> IF i \in Affected(c.id)
                                     THEN Stored(rows[i], w) ELSE rows[i]] IN
  /\ pc[r] = "write" /\ c.op = "update"
  /\ \/ /\ IndexHolds(after)
        /\ rows' = after
        /\ ws' = [ws EXCEPT ![r] = w]
        /\ ReplyWritten(r, 200, 400)
     \/ /\ Faults \/ ~IndexHolds(after)
        /\ Reply(r, 400)
        /\ UNCHANGED <<rows, ws>>
  /\ UNCHANGED call

\* DeleteWorkspace: the SELECT and the owner check.
DeleteFind(r) ==
  /\ pc[r] = "find" /\ call[r].op = "delete"
  /\ \/ FindRefused(r, Owns(r), 500)
     \/ /\ Live(call[r].id) /\ Owns(r)
        /\ Goto(r, "write")
        /\ UNCHANGED <<rows, call, ws>>

\* The soft delete: UPDATE ... SET deleted_at WHERE id = ?.
DeleteWrite(r) ==
  /\ pc[r] = "write" /\ call[r].op = "delete"
  /\ \/ /\ rows' = [i \in DOMAIN rows |->
                    IF i \in Affected(call[r].id)
                    THEN [rows[i] EXCEPT !.deleted = TRUE] ELSE rows[i]]
        /\ ReplyWritten(r, 200, 500)
     \/ /\ Faults
        /\ Reply(r, 500)
        /\ UNCHANGED rows
  /\ UNCHANGED <<call, ws>>

\* What the goroutine of a received request does next.
Handle(r) == \/ CreateCheck(r) \/ CreateWrite(r)
             \/ GetFind(r)
             \/ UpdateFind(r)  \/ UpdateCheck(r) \/ UpdateWrite(r)
             \/ DeleteFind(r)  \/ DeleteWrite(r)

Next == \E r \in Requests : Receive(r) \/ Reject(r) \/ Handle(r)

Spec == Init /\ [][Next]_vars

-----------------------------------------------------------------------------
(* Properties. *)

\* Types.  A row's desc may be NULL, its name never.
TypeOK ==
  /\ rows \in Seq(Row)
  /\ pc \in [Requests -> {"new", "check", "find", "write", "done"}]
  /\ call \in [Requests -> Calls \cup {Absent}]
  /\ ws \in [Requests -> Row \cup {Absent}]
  /\ status \in [Requests -> Statuses]

Done(r, op, s) == pc[r] = "done" /\ status[r] = s /\ call[r].op = op

\* No user ever owns two live workspaces of one name, however the check of
\* CheckNameExists and the write after it interleave with other requests, and
\* although a failed check is taken for "free" (workspace_service.go:42,131).
LiveNamesUnique ==
  \A i, j \in DOMAIN rows :
     /\ ~rows[i].deleted /\ ~rows[j].deleted
     /\ rows[i].owner = rows[j].owner /\ rows[i].name = rows[j].name
     => i = j

\* Replies account for the table: as many rows as were there plus one for
\* every 201, so no 201 is given for nothing and no row appears unanswered
\* (workspace_controller.go:54-66).
CreatesAccounted ==
  Len(rows) = Len(InitRows) + Cardinality({r \in Requests : status[r] = 201})

\* Every row deleted since the start was deleted by an accepted DELETE on its
\* id by its owner (workspace_service.go:164, workspace_repository.go:74).
DeletionsAccounted ==
  \A i \in DOMAIN rows :
     rows[i].deleted =>
       \/ i \in DOMAIN InitRows /\ InitRows[i].deleted
       \/ \E r \in Requests : /\ Done(r, "delete", 200)
                              /\ call[r].id = i /\ call[r].user = rows[i].owner

\* A workspace is public only because it was, or because an accepted update by
\* its owner asked for it: no stale copy that is written back, and no absent
\* field, publishes one (workspace_service.go:141, workspace_repository.go:70).
PublishedByOwner ==
  \A i \in DOMAIN rows :
     rows[i].public =>
       \/ i \in DOMAIN InitRows /\ InitRows[i].public
       \/ \E r \in Requests : /\ Done(r, "update", 200) /\ call[r].public = TRUE
                              /\ call[r].id = i /\ call[r].user = rows[i].owner

\* A row's name is its first one or one that an accepted update of that row by
\* its owner carried.  Updates write back names read earlier, so a row may return to an
\* old name; it never gets one nobody gave it (workspace_service.go:134).
NamesHaveAuthor ==
  \A i \in DOMAIN rows :
     \/ i \in DOMAIN InitRows /\ InitRows[i].name = rows[i].name
     \/ \E r \in Requests : /\ Done(r, "create", 201) /\ ws[r].name = rows[i].name
                            /\ call[r].user = rows[i].owner
     \/ \E r \in Requests : /\ Done(r, "update", 200) /\ call[r].user = rows[i].owner
                            /\ call[r].id = i /\ call[r].name = rows[i].name

\* The owner check of an update or a delete still holds when the statement that
\* relies on it runs, whatever ran in between: rows neither disappear nor change
\* hands (workspace_service.go:124-147,164-168).
CheckStillHolds ==
  \A r \in Requests :
     /\ pc[r] \in {"check", "find", "write"} => call[r] \in Calls
     /\ (pc[r] = "write" /\ call[r].op = "create") =>
          /\ ws[r] \in Row /\ ws[r].owner = call[r].user
          /\ ~ws[r].public /\ ~ws[r].deleted
     /\ (pc[r] \in {"check", "write"} /\ call[r].op \in {"update", "delete"}) =>
          /\ call[r].id \in DOMAIN rows
          /\ rows[call[r].id].owner = call[r].user
     /\ (pc[r] \in {"check", "write"} /\ call[r].op = "update") =>
          /\ ws[r] \in Row /\ ws[r].owner = call[r].user /\ ~ws[r].deleted

\* The strengthening that makes LiveNamesUnique and the refinement inductive.
IInv == TypeOK /\ IndexHolds(rows) /\ CheckStillHolds

\* Each request is one indivisible, owner-only change of the table, or none:
\* the outcome is the reply, and the interleaved statements implement it.
Outcome ==
  [r \in Requests |->
     IF pc[r] # "done" THEN [verdict |-> "open", by |-> Absent]
     ELSE [verdict |-> IF status[r] \in Refusals THEN "refused" ELSE "accepted",
           by |-> IF call[r] = Absent THEN Absent ELSE call[r].user]]

Registry == INSTANCE WorkspaceRegistry WITH table <- rows, outcome <- Outcome

\* The module keeps the promise of WorkspaceRegistry: a request changes at most
\* one live row, its caller's, in one step, a refused one leaves no trace unless
\* the answer to its write was lost, and deleted rows stay as they are (all of
\* workspace_service.go).
ImplementsRegistry == Registry!Spec

-----------------------------------------------------------------------------
(* What comments and messages of the code say, and the code does not do. *)

\* "Update fields jika ada": an accepted update with is_public = false leaves
\* its workspace not public (workspace_service.go:141).
UnpublishTakesEffect ==
  [][\A r \in Requests :
       (/\ pc[r] = "write" /\ pc'[r] = "done" /\ status'[r] = 200
        /\ call[r].op = "update" /\ call[r].public = FALSE /\ Live(call[r].id))
       => ~rows'[call[r].id].public]_vars

\* "Update fields jika ada": an update without a name leaves the name alone.
UnsentNameKept ==
  [][\A r \in Requests :
       (/\ pc[r] = "write" /\ pc'[r] = "done" /\ Live(call[r].id)
        /\ call[r].op = "update" /\ call[r].name = Absent)
       => rows'[call[r].id].name = rows[call[r].id].name]_vars

\* "Check if nama workspace sudah ada untuk user": a create is refused only if
\* the user has a workspace of that name (checked without statement faults).
FreeNameIsGranted ==
  [][\A r \in Requests :
       (/\ pc[r] \in {"check", "write"} /\ pc'[r] = "done"
        /\ call[r].op = "create" /\ status'[r] = 400)
       => NameTaken(call[r].name, call[r].user, 0)]_vars
=============================================================================
