---------------------------- MODULE WorkspaceProofs ----------------------------
(***************************************************************************)
(* Proofs about Workspace, for every set of requests, users, names,        *)
(* descriptions and ids and every initial table: typing, uniqueness of     *)
(* live names, the owner check that survives until its write, and the      *)
(* refinement of WorkspaceRegistry.                                        *)
(***************************************************************************)
EXTENDS Workspace, TLAPS

\* Rewriting elements of a sequence gives a sequence of the same length.
LEMMA RewriteSeq ==
  ASSUME NEW S, NEW s \in Seq(S), NEW t, t \in [DOMAIN s -> S]
  PROVE  t \in Seq(S) /\ Len(t) = Len(s) /\ DOMAIN t = DOMAIN s
<1>1. t \in [1..Len(s) -> S] /\ Len(s) \in Nat
  OBVIOUS
<1>2. QED
  BY <1>1

\* Appending a row keeps the others where they are.
LEMMA AppendRow ==
  ASSUME NEW S, NEW s \in Seq(S), NEW e \in S
  PROVE  /\ Append(s, e) \in Seq(S)
         /\ DOMAIN s \subseteq DOMAIN Append(s, e)
         /\ \A i \in DOMAIN s : Append(s, e)[i] = s[i]
  OBVIOUS

\* What a request may be, by kind.
LEMMA CallTypes ==
  ASSUME NEW c \in Calls
  PROVE  /\ c.op \in {"create", "update", "get", "delete"}
         /\ c.user \in Users
         /\ c.op = "create" => c.name \in Names
         /\ c.name \in Names \cup {Absent}
         /\ c.desc \in Descs \cup {Absent}
         /\ c.public \in BOOLEAN \cup {Absent}
  BY DEF Calls

\* The initial state satisfies the inductive invariant.
LEMMA InitInv == Init => IInv
<1> SUFFICES ASSUME Init PROVE IInv
  OBVIOUS
<1>1. TypeOK
  BY RowsAssumption DEF Init, TypeOK, Statuses
<1>2. IndexHolds(rows)
  BY RowsAssumption DEF Init, IndexHolds
<1>3. CheckStillHolds
  BY DEF Init, CheckStillHolds
<1>4. QED
  BY <1>1, <1>2, <1>3 DEF IInv

\* A merged row has the owner of the row that was read and is not deleted.
LEMMA MergeTypes ==
  ASSUME NEW w \in Row, NEW c \in Calls
  PROVE  /\ Merge(w, c) \in Row
         /\ Merge(w, c).owner = w.owner
         /\ Merge(w, c).deleted = w.deleted
<1>1. /\ c.name \in Names \cup {Absent} /\ c.desc \in Descs \cup {Absent}
      /\ c.public \in BOOLEAN \cup {Absent}
  BY CallTypes
<1>2. QED
  BY <1>1 DEF Merge, Row

\* The row an UPDATE leaves: the owner of the handler's copy, as deleted as it
\* was before.
LEMMA StoredTypes ==
  ASSUME NEW old \in Row, NEW w \in Row
  PROVE  /\ Stored(old, w) \in Row
         /\ Stored(old, w).owner = w.owner
         /\ Stored(old, w).deleted = old.deleted
  BY DEF Stored, Row

\* An answer is a status; a handler moves to one of its labels.
LEMMA ReplyTypes ==
  ASSUME TypeOK, NEW r \in Requests, NEW s \in Statuses, Reply(r, s)
  PROVE  /\ pc' \in [Requests -> {"new", "check", "find", "write", "done"}]
         /\ status' \in [Requests -> Statuses]
         /\ pc'[r] = "done"
         /\ \A q \in Requests \ {r} : pc'[q] = pc[q]
  BY DEF TypeOK, Reply

LEMMA GotoTypes ==
  ASSUME TypeOK, NEW r \in Requests, NEW l \in {"check", "find", "write"},
         Goto(r, l)
  PROVE  /\ pc' \in [Requests -> {"new", "check", "find", "write", "done"}]
         /\ status' \in [Requests -> Statuses]
         /\ pc'[r] = l
         /\ \A q \in Requests \ {r} : pc'[q] = pc[q]
  BY DEF TypeOK, Goto

\* A handler that ends, or takes a step of its own, disturbs no other handler as
\* long as rows neither disappear nor change hands.
LEMMA OthersUndisturbed ==
  ASSUME CheckStillHolds, NEW r \in Requests,
         DOMAIN rows \subseteq DOMAIN rows',
         \A i \in DOMAIN rows : rows'[i].owner = rows[i].owner,
         \A q \in Requests \ {r} : /\ pc'[q] = pc[q] /\ call'[q] = call[q]
                                   /\ ws'[q] = ws[q]
  PROVE  \A q \in Requests \ {r} :
     /\ pc'[q] \in {"check", "find", "write"} => call'[q] \in Calls
     /\ (pc'[q] = "write" /\ call'[q].op = "create") =>
          /\ ws'[q] \in Row /\ ws'[q].owner = call'[q].user
          /\ ~ws'[q].public /\ ~ws'[q].deleted
     /\ (pc'[q] \in {"check", "write"} /\ call'[q].op \in {"update", "delete"}) =>
          /\ call'[q].id \in DOMAIN rows'
          /\ rows'[call'[q].id].owner = call'[q].user
     /\ (pc'[q] \in {"check", "write"} /\ call'[q].op = "update") =>
          /\ ws'[q] \in Row /\ ws'[q].owner = call'[q].user /\ ~ws'[q].deleted
  BY DEF CheckStillHolds

\* A handler that ends leaves nothing to check but the other handlers.
LEMMA EndKeepsCheck ==
  ASSUME TypeOK, CheckStillHolds, NEW r \in Requests, NEW s \in Statuses,
         Reply(r, s),
         DOMAIN rows \subseteq DOMAIN rows',
         \A i \in DOMAIN rows : rows'[i].owner = rows[i].owner,
         call' = call, \A q \in Requests \ {r} : ws'[q] = ws[q]
  PROVE  CheckStillHolds'
<1>1. /\ pc'[r] = "done"
      /\ \A q \in Requests \ {r} : pc'[q] = pc[q]
  BY ReplyTypes
<1>2. QED
  BY <1>1, OthersUndisturbed DEF CheckStillHolds

LEMMA CreateWriteInv ==
  ASSUME IInv, NEW r \in Requests, CreateWrite(r)
  PROVE  IInv'
<1> USE DEF IInv
<1>1. ws[r] \in Row /\ call' = call /\ ws' = ws
  BY DEF CreateWrite, CheckStillHolds
<1>2. CASE /\ IndexHolds(Append(rows, ws[r]))
           /\ rows' = Append(rows, ws[r])
           /\ ReplyWritten(r, 201, 400)
  <2>1. PICK s \in Statuses : Reply(r, s)
    BY <1>2 DEF ReplyWritten, Statuses, Refusals
  <2>2. /\ rows' \in Seq(Row) /\ DOMAIN rows \subseteq DOMAIN rows'
        /\ \A i \in DOMAIN rows : rows'[i].owner = rows[i].owner
    BY <1>1, <1>2, AppendRow DEF TypeOK
  <2>3. TypeOK'
    BY <1>1, <2>1, <2>2, ReplyTypes DEF TypeOK
  <2>4. IndexHolds(rows)'
    BY <1>2 DEF IndexHolds
  <2>5. CheckStillHolds'
    BY <1>1, <2>1, <2>2, EndKeepsCheck
  <2>6. QED
    BY <2>3, <2>4, <2>5
<1>3. CASE Reply(r, 400) /\ UNCHANGED rows
  <2>1. TypeOK'
    BY <1>1, <1>3, ReplyTypes DEF TypeOK, Statuses, Refusals
  <2>2. IndexHolds(rows)'
    BY <1>3 DEF IndexHolds
  <2>3. CheckStillHolds'
    BY <1>1, <1>3, EndKeepsCheck DEF Statuses, Refusals
  <2>4. QED
    BY <2>1, <2>2, <2>3
<1>4. QED
  BY <1>2, <1>3 DEF CreateWrite

\* The UPDATE of an accepted or failed update: rows keep their owner because the
\* handler's copy has the owner of the row it was read from.
LEMMA UpdateWriteInv ==
  ASSUME IInv, NEW r \in Requests, UpdateWrite(r)
  PROVE  IInv'
<1> USE DEF IInv
<1> DEFINE c == call[r]
           w == Merge(ws[r], c)
           after == [i \in DOMAIN rows |-> IF i \in Affected(c.id)
                                          THEN Stored(rows[i], w) ELSE rows[i]]
<1>1. /\ c \in Calls /\ ws[r] \in Row /\ ws[r].owner = c.user
      /\ c.id \in DOMAIN rows /\ rows[c.id].owner = c.user /\ call' = call
  BY DEF UpdateWrite, CheckStillHolds
<1>2. w \in Row /\ w.owner = c.user
  BY <1>1, MergeTypes
<1>3. \A i \in DOMAIN rows :
        rows[i] \in Row /\ after[i] \in Row /\ after[i].owner = rows[i].owner
  <2> TAKE i \in DOMAIN rows
  <2>1. rows[i] \in Row
    BY DEF TypeOK
  <2>2. CASE i \in Affected(c.id)
    <3>1. i = c.id /\ after[i] = Stored(rows[i], w)
      BY <2>2 DEF Affected
    <3>2. QED
      BY <1>1, <1>2, <2>1, <3>1, StoredTypes
  <2>3. CASE i \notin Affected(c.id)
    BY <2>1, <2>3
  <2>4. QED
    BY <2>1, <2>2, <2>3
<1>4. after \in Seq(Row) /\ DOMAIN after = DOMAIN rows
  <2>1. rows \in Seq(Row) /\ after \in [DOMAIN rows -> Row]
    BY <1>3 DEF TypeOK
  <2>2. QED
    BY <2>1, RewriteSeq
<1>5. CASE IndexHolds(after) /\ rows' = after /\ ws' = [ws EXCEPT ![r] = w]
           /\ ReplyWritten(r, 200, 400)
  <2>1. PICK s \in Statuses : Reply(r, s)
    BY <1>5 DEF ReplyWritten, Statuses, Refusals
  <2> HIDE DEF after, w
  <2>2. TypeOK'
    BY <1>1, <1>2, <1>4, <1>5, <2>1, ReplyTypes DEF TypeOK
  <2>3. IndexHolds(rows)'
    BY <1>5 DEF IndexHolds
  <2>4. CheckStillHolds'
    <3>1. \A q \in Requests \ {r} : ws'[q] = ws[q]
      BY <1>5 DEF TypeOK
    <3>2. QED
      BY <1>1, <1>3, <1>4, <1>5, <2>1, <3>1, EndKeepsCheck
  <2>5. QED
    BY <2>2, <2>3, <2>4
<1>6. CASE Reply(r, 400) /\ UNCHANGED <<rows, ws>>
  <2>1. TypeOK'
    BY <1>1, <1>6, ReplyTypes DEF TypeOK, Statuses, Refusals
  <2>2. IndexHolds(rows)'
    BY <1>6 DEF IndexHolds
  <2>3. CheckStillHolds'
    BY <1>1, <1>6, EndKeepsCheck DEF Statuses, Refusals
  <2>4. QED
    BY <2>1, <2>2, <2>3
<1>7. QED
  BY <1>5, <1>6 DEF UpdateWrite

\* The soft delete moves no row out of the index.
LEMMA DeleteWriteInv ==
  ASSUME IInv, NEW r \in Requests, DeleteWrite(r)
  PROVE  IInv'
<1> USE DEF IInv
<1> DEFINE after == [i \in DOMAIN rows |->
                      IF i \in Affected(call[r].id)
                      THEN [rows[i] EXCEPT !.deleted = TRUE] ELSE rows[i]]
<1>1. call' = call /\ ws' = ws
  BY DEF DeleteWrite
<1>2. PICK s \in Statuses : Reply(r, s)
  BY DEF DeleteWrite, ReplyWritten, Statuses, Refusals
<1>3. \A i \in DOMAIN rows :
        after[i] \in Row /\ after[i].owner = rows[i].owner
                        /\ after[i].name = rows[i].name
  <2> TAKE i \in DOMAIN rows
  <2>1. rows[i] \in Row
    BY DEF TypeOK
  <2>2. QED
    BY <2>1 DEF Row
<1>4. after \in Seq(Row) /\ DOMAIN after = DOMAIN rows
  <2>1. rows \in Seq(Row) /\ after \in [DOMAIN rows -> Row]
    BY <1>3 DEF TypeOK
  <2>2. QED
    BY <2>1, RewriteSeq
<1>5. rows' = after \/ rows' = rows
  BY DEF DeleteWrite
<1> HIDE DEF after
<1>6. TypeOK'
  BY <1>1, <1>2, <1>4, <1>5, ReplyTypes DEF TypeOK
<1>7. IndexHolds(rows)'
  BY <1>3, <1>4, <1>5 DEF IndexHolds
<1>8. CheckStillHolds'
  BY <1>1, <1>2, <1>3, <1>4, <1>5, EndKeepsCheck
<1>9. QED
  BY <1>6, <1>7, <1>8

\* A handler that ends without a write keeps the invariant.
LEMMA EndInv ==
  ASSUME IInv, NEW r \in Requests, NEW s \in Statuses, Reply(r, s),
         rows' = rows, call' = call,
         NEW x \in Row \cup {Absent}, ws' \in {ws, [ws EXCEPT ![r] = x]}
  PROVE  IInv'
<1> USE DEF IInv
<1>1. /\ ws' \in [Requests -> Row \cup {Absent}]
      /\ \A q \in Requests \ {r} : ws'[q] = ws[q]
  BY DEF TypeOK
<1>2. TypeOK'
  BY <1>1, ReplyTypes DEF TypeOK
<1>3. IndexHolds(rows)'
  BY DEF IndexHolds
<1>4. CheckStillHolds'
  BY <1>1, EndKeepsCheck
<1>5. QED
  BY <1>2, <1>3, <1>4

\* FindByID gave no row the caller may use.
LEMMA FindRefusedInv ==
  ASSUME IInv, NEW r \in Requests, NEW allowed, NEW dberr \in {400, 500},
         FindRefused(r, allowed, dberr)
  PROVE  IInv'
<1>1. PICK s \in Statuses : Reply(r, s) /\ UNCHANGED <<rows, call, ws>>
  BY DEF FindRefused, Statuses, Refusals
<1>2. Absent \in Row \cup {Absent}
  OBVIOUS
<1>3. QED
  BY <1>1, <1>2, EndInv

LEMMA ReceiveInv ==
  ASSUME IInv, NEW r \in Requests, Receive(r) \/ Reject(r)
  PROVE  IInv'
<1> USE DEF IInv
<1>1. CASE Receive(r)
  <2>1. PICK x \in Calls : /\ call' = [call EXCEPT ![r] = x]
                           /\ Goto(r, FirstStep[x.op]) /\ ws' = ws /\ rows' = rows
    BY <1>1 DEF Receive
  <2>2. FirstStep[x.op] \in {"check", "find"}
        /\ (FirstStep[x.op] = "check" => x.op = "create")
    BY CallTypes DEF FirstStep
  <2>3. TypeOK'
    BY <2>1, <2>2, GotoTypes DEF TypeOK
  <2>4. call'[r] = x /\ \A q \in Requests \ {r} : call'[q] = call[q]
    BY <2>1 DEF TypeOK
  <2>5. /\ pc'[r] = FirstStep[x.op]
        /\ \A q \in Requests \ {r} : pc'[q] = pc[q]
    BY <2>1, <2>2, GotoTypes
  <2>6. CheckStillHolds'
    BY <2>1, <2>2, <2>4, <2>5, OthersUndisturbed DEF CheckStillHolds
  <2>7. QED
    BY <2>1, <2>3, <2>6 DEF IndexHolds
<1>2. CASE Reject(r)
  <2>1. PICK s \in Statuses : Reply(r, s) /\ UNCHANGED <<rows, call, ws>>
    BY <1>2 DEF Reject, Statuses, Refusals
  <2>2. QED
    BY <2>1, EndInv
<1>3. QED
  BY <1>1, <1>2

LEMMA CreateCheckInv ==
  ASSUME IInv, NEW r \in Requests, CreateCheck(r)
  PROVE  IInv'
<1> USE DEF IInv
<1> DEFINE c == call[r]
           new == [owner |-> c.user, name |-> c.name, desc |-> c.desc,
                   public |-> FALSE, deleted |-> FALSE]
<1>1. c \in Calls /\ c.op = "create"
  BY DEF CreateCheck, CheckStillHolds
<1>2. new \in Row
  BY <1>1, CallTypes DEF Row
<1>3. CASE Reply(r, 400) /\ UNCHANGED <<rows, call, ws>>
  BY <1>2, <1>3, EndInv DEF Statuses, Refusals
<1>4. CASE /\ ws' = [ws EXCEPT ![r] = new]
           /\ Goto(r, "write") /\ UNCHANGED <<rows, call>>
  <2>1. TypeOK'
    BY <1>2, <1>4, GotoTypes DEF TypeOK
  <2>2. /\ pc'[r] = "write" /\ ws'[r] = new
        /\ \A q \in Requests \ {r} : pc'[q] = pc[q] /\ ws'[q] = ws[q]
    BY <1>4, GotoTypes DEF TypeOK
  <2>3. CheckStillHolds'
    BY <1>1, <1>2, <1>4, <2>2, OthersUndisturbed DEF CheckStillHolds
  <2>4. QED
    BY <1>4, <2>1, <2>3 DEF IndexHolds
<1>5. QED
  BY <1>3, <1>4 DEF CreateCheck

LEMMA GetFindInv ==
  ASSUME IInv, NEW r \in Requests, GetFind(r)
  PROVE  IInv'
<1> DEFINE id == call[r].id
           allowed == Owns(r) \/ rows[id].public
<1>1. CASE FindRefused(r, allowed, 500)
  BY <1>1, FindRefusedInv
<1>2. CASE /\ Live(id)
           /\ ws' = [ws EXCEPT ![r] = rows[id]]
           /\ Reply(r, 200) /\ UNCHANGED <<rows, call>>
  <2>1. rows[id] \in Row
    BY <1>2 DEF Live, IInv, TypeOK
  <2>2. QED
    BY <1>2, <2>1, EndInv DEF Statuses
<1>3. QED
  BY <1>1, <1>2 DEF GetFind

\* An update or a delete found its row: from here on the owner check must hold.
LEMMA FoundInv ==
  ASSUME IInv, NEW r \in Requests,
         pc[r] = "find", call[r].op \in {"update", "delete"},
         Live(call[r].id), Owns(r), NEW l \in {"check", "write"}, Goto(r, l),
         IF call[r].op = "update" THEN ws' = [ws EXCEPT ![r] = rows[call[r].id]]
                                  ELSE ws' = ws,
         rows' = rows, call' = call
  PROVE  IInv'
<1> USE DEF IInv
<1>1. rows[call[r].id] \in Row /\ call[r] \in Calls
  BY DEF Live, TypeOK, CheckStillHolds
<1>2. TypeOK'
  BY <1>1, GotoTypes DEF TypeOK
<1>3. /\ pc'[r] = l
      /\ \A q \in Requests \ {r} : pc'[q] = pc[q] /\ ws'[q] = ws[q]
      /\ call[r].op = "update" => ws'[r] = rows[call[r].id]
  BY GotoTypes DEF TypeOK
<1>4. CheckStillHolds'
  BY <1>1, <1>3, OthersUndisturbed DEF CheckStillHolds, Live, Owns
<1>5. QED
  BY <1>2, <1>4 DEF IndexHolds

LEMMA UpdateFindInv ==
  ASSUME IInv, NEW r \in Requests, UpdateFind(r)
  PROVE  IInv'
<1>1. CASE FindRefused(r, Owns(r), 400)
  BY <1>1, FindRefusedInv
<1>2. CASE ~FindRefused(r, Owns(r), 400)
  BY <1>2, FoundInv DEF UpdateFind
<1>3. QED
  BY <1>1, <1>2

LEMMA DeleteFindInv ==
  ASSUME IInv, NEW r \in Requests, DeleteFind(r)
  PROVE  IInv'
<1>1. CASE FindRefused(r, Owns(r), 500)
  BY <1>1, FindRefusedInv
<1>2. CASE ~FindRefused(r, Owns(r), 500)
  BY <1>2, FoundInv DEF DeleteFind
<1>3. QED
  BY <1>1, <1>2

LEMMA UpdateCheckInv ==
  ASSUME IInv, NEW r \in Requests, UpdateCheck(r)
  PROVE  IInv'
<1> USE DEF IInv
<1>1. CASE Reply(r, 400) /\ UNCHANGED <<rows, call, ws>>
  <2>1. Absent \in Row \cup {Absent}
    OBVIOUS
  <2>2. QED
    BY <1>1, <2>1, EndInv DEF Statuses, Refusals
<1>2. CASE Goto(r, "write") /\ UNCHANGED <<rows, call, ws>>
  <2>1. TypeOK'
    BY <1>2, GotoTypes DEF TypeOK
  <2>2. pc'[r] = "write" /\ \A q \in Requests \ {r} : pc'[q] = pc[q]
    BY <1>2, GotoTypes
  <2>3. CheckStillHolds'
    BY <1>2, <2>2, OthersUndisturbed DEF CheckStillHolds, UpdateCheck
  <2>4. QED
    BY <1>2, <2>1, <2>3 DEF IndexHolds
<1>3. QED
  BY <1>1, <1>2 DEF UpdateCheck

\* Every step keeps the inductive invariant.
LEMMA NextInv == IInv /\ [Next]_vars => IInv'
<1> SUFFICES ASSUME IInv, [Next]_vars PROVE IInv'
  OBVIOUS
<1>1. CASE UNCHANGED vars
  BY <1>1 DEF vars, IInv, TypeOK, IndexHolds, CheckStillHolds
<1>2. ASSUME NEW r \in Requests, Receive(r) \/ Reject(r) \/ Handle(r)
      PROVE  IInv'
  BY <1>2, ReceiveInv, CreateCheckInv, CreateWriteInv, GetFindInv, UpdateFindInv,
     UpdateCheckInv, UpdateWriteInv, DeleteFindInv, DeleteWriteInv DEF Handle
<1>3. QED
  BY <1>1, <1>2 DEF Next

\* The inductive invariant holds in every reachable state of the module.
THEOREM Invariance == Spec => []IInv
<1>1. Init => IInv
  BY InitInv
<1>2. IInv /\ [Next]_vars => IInv'
  BY NextInv
<1>3. QED
  BY <1>1, <1>2, PTL DEF Spec

\* Types, for every choice of the constants.
THEOREM TypeCorrect == Spec => []TypeOK
<1>1. IInv => TypeOK
  BY DEF IInv
<1>2. QED
  BY <1>1, Invariance, PTL

\* No user ever owns two live workspaces of one name, for every number of
\* concurrent requests, with failing statements and lost answers.
THEOREM NamesUnique == Spec => []LiveNamesUnique
<1>1. IInv => LiveNamesUnique
  BY DEF IInv, IndexHolds, LiveNamesUnique
<1>2. QED
  BY <1>1, Invariance, PTL

\* The owner check of an update or a delete still holds at its write.
THEOREM OwnerCheckHolds == Spec => []CheckStillHolds
<1>1. IInv => CheckStillHolds
  BY DEF IInv
<1>2. QED
  BY <1>1, Invariance, PTL

-----------------------------------------------------------------------------
(* The refinement: a handler's last step is the request's one step of the     *)
(* registry, every other step stutters.                                       *)

Verdict(r, s) ==
  [verdict |-> IF s \in Refusals THEN "refused" ELSE "accepted",
   by |-> IF call[r] = Absent THEN Absent ELSE call[r].user]

\* A reply decides the request's outcome and no other.
LEMMA ReplyDecides ==
  ASSUME TypeOK, NEW r \in Requests, NEW s \in Statuses,
         pc[r] # "done", Reply(r, s), call' = call
  PROVE  /\ Outcome[r] = Registry!Open
         /\ Outcome' = [Outcome EXCEPT ![r] = Verdict(r, s)]
<1>1. /\ pc' = [pc EXCEPT ![r] = "done"] /\ status' = [status EXCEPT ![r] = s]
      /\ pc \in [Requests -> {"new", "check", "find", "write", "done"}]
      /\ status \in [Requests -> Statuses]
  BY DEF Reply, TypeOK
<1>2. \A q \in Requests \ {r} : Outcome'[q] = Outcome[q]
  BY <1>1 DEF Outcome
<1>3. Outcome'[r] = Verdict(r, s)
  BY <1>1 DEF Outcome, Verdict
<1>4. QED
  BY <1>2, <1>3 DEF Outcome, Registry!Open

\* A step that ends no handler decides nothing.
LEMMA GotoIsSilent ==
  ASSUME TypeOK, NEW r \in Requests, NEW l \in {"check", "find", "write"},
         pc[r] # "done", Goto(r, l),
         \A q \in Requests \ {r} : call'[q] = call[q]
  PROVE  Outcome' = Outcome
<1>1. /\ pc' = [pc EXCEPT ![r] = l] /\ status' = status
      /\ pc \in [Requests -> {"new", "check", "find", "write", "done"}]
  BY DEF Goto, TypeOK
<1>2. \A q \in Requests : Outcome'[q] = Outcome[q]
  BY <1>1 DEF Outcome
<1>3. QED
  BY <1>2 DEF Outcome

\* A refusal that left the table alone is the registry's Refuse.
LEMMA RefusalMaps ==
  ASSUME TypeOK, NEW r \in Requests, NEW s \in Refusals,
         pc[r] # "done", Reply(r, s), call' = call, rows' = rows
  PROVE  Registry!Next
<1>1. s \in Statuses
  BY DEF Statuses
<1>2. Verdict(r, s) \in {Registry!Refused(u) : u \in Users \cup {Absent}}
  <2>1. CASE call[r] = Absent
    BY <2>1 DEF Verdict, Registry!Refused
  <2>2. CASE call[r] # Absent
    <3>1. call[r].user \in Users
      BY <2>2, CallTypes DEF TypeOK
    <3>2. QED
      BY <2>2, <3>1 DEF Verdict, Registry!Refused
  <2>3. QED
    BY <2>1, <2>2
<1>3. Registry!Refuse(r)
  BY <1>1, <1>2, ReplyDecides DEF Registry!Refuse, Registry!Decide
<1>4. QED
  BY <1>3 DEF Registry!Next

\* What the caller of a write that took effect is told.
LEMMA WriteTells ==
  ASSUME TypeOK, NEW r \in Requests, NEW ok \in {200, 201}, NEW err \in {400, 500},
         pc[r] # "done", call[r] \in Calls, ReplyWritten(r, ok, err), call' = call
  PROVE  Registry!Decide(r, Registry!Told(call[r].user))
<1>1. call[r] # Absent
  BY ConstantsAssumption
<1>2. CASE Reply(r, ok)
  <2>1. Verdict(r, ok) = Registry!Accepted(call[r].user)
    BY <1>1 DEF Verdict, Registry!Accepted, Refusals
  <2>2. QED
    BY <1>2, <2>1, ReplyDecides DEF Registry!Decide, Registry!Told, Statuses
<1>3. CASE Lost /\ Reply(r, err)
  <2>1. Verdict(r, err) = Registry!Refused(call[r].user)
    BY <1>1 DEF Verdict, Registry!Refused, Refusals
  <2>2. QED
    BY <1>3, <2>1, ReplyDecides
       DEF Registry!Decide, Registry!Told, Statuses, Refusals
<1>4. QED
  BY <1>2, <1>3 DEF ReplyWritten

LEMMA IndexIsKeyOnce == \A t : IndexHolds(t) <=> Registry!KeyOnce(t)
  BY DEF IndexHolds, Registry!KeyOnce

\* A request that is accepted without a change of the table.
LEMMA AcceptanceMaps ==
  ASSUME TypeOK, NEW r \in Requests, pc[r] # "done", call[r] \in Calls,
         Reply(r, 200), call' = call, rows' = rows
  PROVE  Registry!Next
<1>1. call[r] # Absent /\ call[r].user \in Users
  BY ConstantsAssumption, CallTypes
<1>2. Verdict(r, 200) = Registry!Accepted(call[r].user)
  BY <1>1 DEF Verdict, Registry!Accepted, Refusals
<1>3. Registry!NoEffect(r, call[r].user)
  BY <1>2, ReplyDecides DEF Registry!NoEffect, Registry!Decide, Statuses
<1>4. QED
  BY <1>1, <1>3 DEF Registry!Next

LEMMA CreateWriteMaps ==
  ASSUME IInv, NEW r \in Requests, CreateWrite(r)
  PROVE  Registry!Next
<1> USE DEF IInv
<1>1. /\ call' = call /\ call[r] \in Calls /\ call[r].user \in Users
      /\ pc[r] # "done" /\ ws[r] \in Row /\ ws[r].owner = call[r].user
      /\ ~ws[r].public /\ ~ws[r].deleted
  BY CallTypes DEF CreateWrite, CheckStillHolds
<1>2. CASE /\ IndexHolds(Append(rows, ws[r])) /\ rows' = Append(rows, ws[r])
           /\ ReplyWritten(r, 201, 400)
  <2>1. Registry!Decide(r, Registry!Told(call[r].user))
    BY <1>1, <1>2, WriteTells
  <2>2. Registry!KeyOnce(rows')
    BY <1>2, IndexIsKeyOnce
  <2>3. Registry!Register(r, call[r].user)
    BY <1>1, <1>2, <2>1, <2>2 DEF Registry!Register, Registry!Row, Row
  <2>4. QED
    BY <1>1, <2>3 DEF Registry!Next
<1>3. CASE Reply(r, 400) /\ UNCHANGED rows
  BY <1>1, <1>3, RefusalMaps DEF Refusals
<1>4. QED
  BY <1>2, <1>3 DEF CreateWrite

\* The UPDATE changes the caller's live row, or none if it is gone by now.
LEMMA UpdateWriteMaps ==
  ASSUME IInv, NEW r \in Requests, UpdateWrite(r)
  PROVE  Registry!Next
<1> USE DEF IInv
<1> DEFINE c == call[r]
           id == c.id
           w == Merge(ws[r], c)
           after == [i \in DOMAIN rows |-> IF i \in Affected(id)
                                          THEN Stored(rows[i], w) ELSE rows[i]]
<1>1. /\ call' = call /\ c \in Calls /\ c.user \in Users /\ pc[r] # "done"
      /\ ws[r] \in Row /\ ws[r].owner = c.user
      /\ id \in DOMAIN rows /\ rows[id].owner = c.user /\ rows[id] \in Row
  BY CallTypes DEF UpdateWrite, CheckStillHolds, TypeOK
<1>2. w \in Row /\ w.owner = c.user
  BY <1>1, MergeTypes
<1>3. /\ Stored(rows[id], w) \in Row /\ Stored(rows[id], w).owner = c.user
      /\ Stored(rows[id], w).deleted = rows[id].deleted
  BY <1>1, <1>2, StoredTypes
<1>4. CASE IndexHolds(after) /\ rows' = after /\ ReplyWritten(r, 200, 400)
  <2>1. CASE rows[id].deleted
    <3>1. after = rows
      BY <1>1, <2>1 DEF Affected, TypeOK
    <3>2. CASE Reply(r, 200)
      BY <1>1, <1>4, <3>1, <3>2, AcceptanceMaps
    <3>3. CASE Reply(r, 400)
      BY <1>1, <1>4, <3>1, <3>3, RefusalMaps DEF Refusals
    <3>4. QED
      BY <1>4, <3>2, <3>3 DEF ReplyWritten
  <2>2. CASE ~rows[id].deleted
    <3>1. after = [rows EXCEPT ![id] = Stored(rows[id], w)]
      BY <1>1, <2>2 DEF Affected, TypeOK
    <3>2. Registry!Decide(r, Registry!Told(c.user))
      BY <1>1, <1>4, WriteTells
    <3>3. Registry!KeyOnce(rows')
      BY <1>4, IndexIsKeyOnce
    <3>4. Stored(rows[id], w) \in Registry!Row
      BY <1>3 DEF Registry!Row, Row
    <3> HIDE DEF w, after
    <3>5. Registry!Amend(r, c.user)
      BY <1>1, <1>3, <1>4, <2>2, <3>1, <3>2, <3>3, <3>4 DEF Registry!Amend
    <3>6. QED
      BY <1>1, <3>5 DEF Registry!Next
  <2>3. QED
    BY <2>1, <2>2
<1>5. CASE Reply(r, 400) /\ UNCHANGED <<rows, ws>>
  BY <1>1, <1>5, RefusalMaps DEF Refusals
<1>6. QED
  BY <1>4, <1>5 DEF UpdateWrite

LEMMA DeleteWriteMaps ==
  ASSUME IInv, NEW r \in Requests, DeleteWrite(r)
  PROVE  Registry!Next
<1> USE DEF IInv
<1> DEFINE id == call[r].id
           after == [i \in DOMAIN rows |->
                      IF i \in Affected(id)
                      THEN [rows[i] EXCEPT !.deleted = TRUE] ELSE rows[i]]
<1>1. /\ call' = call /\ call[r] \in Calls /\ call[r].user \in Users
      /\ pc[r] # "done"
      /\ id \in DOMAIN rows /\ rows[id].owner = call[r].user /\ rows[id] \in Row
  BY CallTypes DEF DeleteWrite, CheckStillHolds, TypeOK
<1>2. CASE rows' = after /\ ReplyWritten(r, 200, 500)
  <2>1. CASE rows[id].deleted
    <3>1. after = rows
      BY <1>1, <2>1 DEF Affected, TypeOK
    <3>2. CASE Reply(r, 200)
      BY <1>1, <1>2, <3>1, <3>2, AcceptanceMaps
    <3>3. CASE Reply(r, 500)
      BY <1>1, <1>2, <3>1, <3>3, RefusalMaps DEF Refusals
    <3>4. QED
      BY <1>2, <3>2, <3>3 DEF ReplyWritten
  <2>2. CASE ~rows[id].deleted
    <3>1. after = [rows EXCEPT ![id].deleted = TRUE]
      BY <1>1, <2>2 DEF Affected, TypeOK
    <3>2. Registry!Decide(r, Registry!Told(call[r].user))
      BY <1>1, <1>2, WriteTells
    <3>3. Registry!Retire(r, call[r].user)
      BY <1>1, <1>2, <2>2, <3>1, <3>2 DEF Registry!Retire
    <3>4. QED
      BY <1>1, <3>3 DEF Registry!Next
  <2>3. QED
    BY <2>1, <2>2
<1>3. CASE Reply(r, 500) /\ UNCHANGED rows
  BY <1>1, <1>3, RefusalMaps DEF Refusals
<1>4. QED
  BY <1>2, <1>3 DEF DeleteWrite

LEMMA FindRefusedMaps ==
  ASSUME IInv, NEW r \in Requests, NEW allowed, NEW dberr \in {400, 500},
         pc[r] # "done", FindRefused(r, allowed, dberr)
  PROVE  Registry!Next
<1>1. PICK s \in Refusals : Reply(r, s) /\ UNCHANGED <<rows, call, ws>>
  BY DEF FindRefused, Refusals
<1>2. QED
  BY <1>1, RefusalMaps DEF IInv

\* A step that only reads is a refusal, an acceptance, or a stutter.
LEMMA ReadMaps ==
  ASSUME IInv, NEW r \in Requests,
         \/ Receive(r) \/ Reject(r) \/ CreateCheck(r) \/ GetFind(r)
         \/ UpdateFind(r) \/ UpdateCheck(r) \/ DeleteFind(r)
  PROVE  Registry!Next \/ UNCHANGED <<rows, Outcome>>
<1> USE DEF IInv
<1>1. CASE Receive(r)
  <2>1. PICK x \in Calls : /\ call' = [call EXCEPT ![r] = x]
                           /\ Goto(r, FirstStep[x.op])
    BY <1>1 DEF Receive
  <2>2. FirstStep[x.op] \in {"check", "find"}
    BY CallTypes DEF FirstStep
  <2>3. \A q \in Requests \ {r} : call'[q] = call[q]
    BY <2>1 DEF TypeOK
  <2>4. pc[r] # "done" /\ rows' = rows
    BY <1>1 DEF Receive
  <2>5. QED
    BY <2>1, <2>2, <2>3, <2>4, GotoIsSilent
<1>2. CASE Reject(r)
  BY <1>2, RefusalMaps DEF Reject, Refusals
<1>3. CASE CreateCheck(r)
  <2>1. pc[r] # "done" /\ call' = call /\ rows' = rows
    BY <1>3 DEF CreateCheck
  <2>2. Reply(r, 400) \/ Goto(r, "write")
    BY <1>3 DEF CreateCheck
  <2>3. QED
    BY <2>1, <2>2, RefusalMaps, GotoIsSilent DEF Refusals
<1>4. CASE GetFind(r)
  <2>1. pc[r] # "done" /\ call[r] \in Calls
    BY <1>4 DEF GetFind, CheckStillHolds
  <2>2. CASE FindRefused(r, Owns(r) \/ rows[call[r].id].public, 500)
    BY <2>1, <2>2, FindRefusedMaps
  <2>3. CASE Reply(r, 200) /\ UNCHANGED <<rows, call>>
    BY <2>1, <2>3, AcceptanceMaps
  <2>4. QED
    BY <1>4, <2>2, <2>3 DEF GetFind
<1>5. CASE UpdateFind(r) \/ DeleteFind(r)
  <2>1. pc[r] # "done"
    BY <1>5 DEF UpdateFind, DeleteFind
  <2>2. CASE FindRefused(r, Owns(r), 400) \/ FindRefused(r, Owns(r), 500)
    BY <2>1, <2>2, FindRefusedMaps
  <2>3. CASE /\ Goto(r, "write") \/ Goto(r, "check")
             /\ UNCHANGED <<rows, call>>
    BY <2>1, <2>3, GotoIsSilent
  <2>4. QED
    BY <1>5, <2>2, <2>3 DEF UpdateFind, DeleteFind
<1>6. CASE UpdateCheck(r)
  <2>1. pc[r] # "done" /\ call' = call /\ rows' = rows
    BY <1>6 DEF UpdateCheck
  <2>2. Reply(r, 400) \/ Goto(r, "write")
    BY <1>6 DEF UpdateCheck
  <2>3. QED
    BY <2>1, <2>2, RefusalMaps, GotoIsSilent DEF Refusals
<1>7. QED
  BY <1>1, <1>2, <1>3, <1>4, <1>5, <1>6

\* The interleaved statements of the module implement the registry: every
\* request is one indivisible change made by the owner of the row, or none.
THEOREM Refinement == Spec => ImplementsRegistry
<1>1. Init => Registry!Init
  BY DEF Init, Registry!Init, Registry!Open, Outcome
<1>2. IInv /\ [Next]_vars => [Registry!Next]_(Registry!regVars)
  <2> SUFFICES ASSUME IInv, [Next]_vars PROVE [Registry!Next]_(Registry!regVars)
    OBVIOUS
  <2>1. CASE UNCHANGED vars
    BY <2>1 DEF vars, Outcome, Registry!regVars
  <2>2. ASSUME NEW r \in Requests, Receive(r) \/ Reject(r) \/ Handle(r)
        PROVE  Registry!Next \/ UNCHANGED <<rows, Outcome>>
    BY <2>2, ReadMaps, CreateWriteMaps, UpdateWriteMaps, DeleteWriteMaps
       DEF Handle
  <2>3. QED
    BY <2>1, <2>2 DEF Next, Registry!regVars
<1>3. QED
  BY <1>1, <1>2, Invariance, PTL DEF Spec, ImplementsRegistry, Registry!Spec
=============================================================================
