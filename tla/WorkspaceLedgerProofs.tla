------------------------- MODULE WorkspaceLedgerProofs -------------------------
(***************************************************************************)
(* Proofs about Workspace: what the replies say accounts for the table.    *)
(* Every row has its 201, every deleted row its DELETE, every public row   *)
(* and every name the update that asked for it, although an update writes  *)
(* back a copy read before other requests wrote.  No answer is lost here:  *)
(* a client that is told of a failure cannot account for the change.       *)
(***************************************************************************)
EXTENDS WorkspaceProofs, FiniteSetTheorems

-----------------------------------------------------------------------------
(* The inductive invariant. *)

\* An accepted DELETE on row i by its owner.
DeletedBy(r, i) == /\ Done(r, "delete", 200)
                   /\ call[r].id = i /\ call[r].user = rows[i].owner

Deleter(i) == \E r \in Requests : DeletedBy(r, i)

\* Row i was public from the start, or an accepted update by its owner published it.
PublishedFirst(i) == i \in DOMAIN InitRows /\ InitRows[i].public

PublishedBy(r, i) == /\ Done(r, "update", 200) /\ call[r].public = TRUE
                     /\ call[r].id = i /\ call[r].user = rows[i].owner

Publisher(i) == PublishedFirst(i) \/ \E r \in Requests : PublishedBy(r, i)

\* Row i had the name n from the start, or an accepted create or update by its
\* owner carried it.
NamedFirst(i, n) == i \in DOMAIN InitRows /\ InitRows[i].name = n

CreatedBy(r, i, n) == /\ Done(r, "create", 201) /\ ws[r].name = n
                      /\ call[r].user = rows[i].owner

NamedBy(r, i, n) == /\ Done(r, "update", 200) /\ call[r].user = rows[i].owner
                    /\ call[r].id = i /\ call[r].name = n

Author(i, n) == \/ NamedFirst(i, n)
                \/ \E r \in Requests : CreatedBy(r, i, n)
                \/ \E r \in Requests : NamedBy(r, i, n)

\* What an update that is under way will write back is accounted for already.
CopyAccounted(r) ==
  (pc[r] \in {"check", "write"} /\ call[r].op = "update") =>
     /\ ws[r].public => Publisher(call[r].id)
     /\ Author(call[r].id, ws[r].name)

\* The requests answered 201.
Granted == {r \in Requests : status[r] = 201}

RowsAccounted(i) == /\ rows[i].deleted =>
                         (i \in DOMAIN InitRows /\ InitRows[i].deleted) \/ Deleter(i)
                    /\ rows[i].public => Publisher(i)
                    /\ Author(i, rows[i].name)

LedgerInv ==
  /\ \A r \in Requests : pc[r] # "done" => status[r] = 0
  /\ IsFiniteSet(Granted) /\ Len(rows) = Len(InitRows) + Cardinality(Granted)
  /\ \A i \in DOMAIN rows : RowsAccounted(i)
  /\ \A r \in Requests : CopyAccounted(r)

LEMMA InitLedger == Init => LedgerInv
<1> SUFFICES ASSUME Init PROVE LedgerInv
  OBVIOUS
<1>1. Granted = {}
  BY DEF Init, Granted
<1>2. IsFiniteSet(Granted) /\ Cardinality(Granted) = 0
  BY <1>1, FS_EmptySet
<1>3. Len(rows) = Len(InitRows) + Cardinality(Granted)
  BY <1>2, RowsAssumption DEF Init
<1>4. \A i \in DOMAIN rows : RowsAccounted(i)
  BY DEF Init, RowsAccounted, Publisher, PublishedFirst, Author, NamedFirst
<1>5. \A r \in Requests : status[r] = 0 /\ CopyAccounted(r)
  BY DEF Init, CopyAccounted
<1> QED
  BY <1>2, <1>3, <1>4, <1>5 DEF LedgerInv

-----------------------------------------------------------------------------
(* What a step leaves as it is. *)

\* What a step leaves alone: the requests that are done, and the owners of rows.
Settled == /\ \A q \in Requests : pc[q] = "done" =>
                /\ pc'[q] = "done" /\ status'[q] = status[q]
                /\ call'[q] = call[q] /\ ws'[q] = ws[q]
           /\ DOMAIN rows \subseteq DOMAIN rows'
           /\ \A i \in DOMAIN rows : rows'[i].owner = rows[i].owner

\* A handler's step is about that handler.
LEMMA OnlyItself ==
  ASSUME TypeOK, NEW r \in Requests, Receive(r) \/ Reject(r) \/ Handle(r)
  PROVE  /\ pc[r] # "done"
         /\ \A q \in Requests \ {r} : /\ pc'[q] = pc[q] /\ status'[q] = status[q]
                                      /\ call'[q] = call[q] /\ ws'[q] = ws[q]
<1>1. /\ DOMAIN pc = Requests /\ DOMAIN status = Requests
      /\ DOMAIN call = Requests /\ DOMAIN ws = Requests
  BY DEF TypeOK
<1>2. pc[r] # "done"
  BY DEF Receive, Reject, Handle, CreateCheck, CreateWrite, GetFind, UpdateFind, UpdateCheck,
         UpdateWrite, DeleteFind, DeleteWrite
<1>3. /\ \E l : pc' = [pc EXCEPT ![r] = l]
      /\ status' = status \/ \E s : status' = [status EXCEPT ![r] = s]
  BY DEF Receive, Reject, Handle, CreateCheck, CreateWrite, GetFind, UpdateFind, UpdateCheck,
         UpdateWrite, DeleteFind, DeleteWrite, FindRefused, ReplyWritten, Reply, Goto
<1>4. /\ call' = call \/ \E c : call' = [call EXCEPT ![r] = c]
      /\ ws' = ws \/ \E w : ws' = [ws EXCEPT ![r] = w]
  BY DEF Receive, Reject, Handle, CreateCheck, CreateWrite, GetFind, UpdateFind, UpdateCheck,
         UpdateWrite, DeleteFind, DeleteWrite, FindRefused
<1> QED
  BY <1>1, <1>2, <1>3, <1>4

\* What accounted for a row goes on to account for it.
LEMMA AuthorsStay ==
  ASSUME Settled, NEW i \in DOMAIN rows
  PROVE  /\ Deleter(i) => Deleter(i)'
         /\ Publisher(i) => Publisher(i)'
         /\ \A n : Author(i, n) => Author(i, n)'
<1>1. ASSUME NEW r \in Requests, DeletedBy(r, i) PROVE DeletedBy(r, i)'
  BY <1>1 DEF Settled, DeletedBy, Done
<1>2. ASSUME NEW r \in Requests, PublishedBy(r, i) PROVE PublishedBy(r, i)'
  BY <1>2 DEF Settled, PublishedBy, Done
<1>3. ASSUME NEW n, NEW r \in Requests, CreatedBy(r, i, n) PROVE CreatedBy(r, i, n)'
  BY <1>3 DEF Settled, CreatedBy, Done
<1>4. ASSUME NEW n, NEW r \in Requests, NamedBy(r, i, n) PROVE NamedBy(r, i, n)'
  BY <1>4 DEF Settled, NamedBy, Done
<1> QED
  BY <1>1, <1>2, <1>3, <1>4 DEF Deleter, Publisher, PublishedFirst, Author, NamedFirst

\* A row that is as it was stays accounted for.
LEMMA RowStays ==
  ASSUME Settled, NEW i \in DOMAIN rows, rows'[i] = rows[i], RowsAccounted(i)
  PROVE  RowsAccounted(i)'
  BY AuthorsStay DEF RowsAccounted

\* The other updates under way keep their copies.
LEMMA CopiesStay ==
  ASSUME IInv, LedgerInv, Settled, NEW r \in Requests,
         NEW q \in Requests \ {r}, pc'[q] = pc[q], call'[q] = call[q], ws'[q] = ws[q]
  PROVE  CopyAccounted(q)'
<1> SUFFICES ASSUME pc[q] \in {"check", "write"}, call[q].op = "update"
             PROVE  /\ ws[q].public => Publisher(call[q].id)'
                    /\ Author(call[q].id, ws[q].name)'
  BY DEF CopyAccounted
<1>1. call[q].id \in DOMAIN rows
  BY DEF IInv, CheckStillHolds
<1>2. CopyAccounted(q)
  BY DEF LedgerInv
<1> QED
  BY <1>1, <1>2, AuthorsStay DEF CopyAccounted

-----------------------------------------------------------------------------
(* The steps. *)

\* A step that leaves the table alone, and grants nothing.
LEMMA QuietLedger ==
  ASSUME IInv, IInv', LedgerInv, NEW r \in Requests, Receive(r) \/ Reject(r) \/ Handle(r),
         rows' = rows, status'[r] # 201, pc'[r] # "done" => status'[r] = 0,
         (pc'[r] \in {"check", "write"} /\ call'[r].op = "update") =>
           /\ call'[r] = call[r] /\ call[r].id \in DOMAIN rows
           /\ \/ ws'[r] = rows[call[r].id]
              \/ pc[r] \in {"check", "write"} /\ ws'[r] = ws[r]
  PROVE  LedgerInv'
<1>1. /\ pc[r] # "done" /\ status[r] = 0
      /\ \A q \in Requests \ {r} : /\ pc'[q] = pc[q] /\ status'[q] = status[q]
                                   /\ call'[q] = call[q] /\ ws'[q] = ws[q]
  BY OnlyItself DEF IInv, LedgerInv
<1>2. Settled
  BY <1>1 DEF Settled
<1>3. Granted' = Granted
  BY <1>1 DEF Granted
<1>4. \A i \in DOMAIN rows' : RowsAccounted(i)'
  BY <1>2, RowStays DEF LedgerInv
<1>5. ASSUME NEW q \in Requests PROVE CopyAccounted(q)'
  <2>1. CASE q # r
    BY <1>1, <1>2, <2>1, CopiesStay
  <2>2. CASE q = r
    <3> SUFFICES ASSUME pc'[r] \in {"check", "write"}, call'[r].op = "update"
                 PROVE  CopyAccounted(r)'
      BY <2>2 DEF CopyAccounted
    <3> DEFINE id == call[r].id
    <3>1. call'[r] = call[r] /\ id \in DOMAIN rows
      OBVIOUS
    <3>2. CASE ws'[r] = rows[id]
      <4>1. RowsAccounted(id)
        BY <3>1 DEF LedgerInv
      <4>2. /\ rows[id].public => Publisher(id)
            /\ Author(id, rows[id].name)
        BY <4>1 DEF RowsAccounted
      <4>3. PICK i \in DOMAIN rows : i = id
        BY <3>1
      <4>4. /\ rows[i].public => Publisher(i)'
            /\ Author(i, rows[i].name)'
        BY <1>2, <4>2, <4>3, AuthorsStay
      <4> QED
        BY <3>1, <3>2, <4>3, <4>4 DEF CopyAccounted
    <3>3. CASE pc[r] \in {"check", "write"} /\ ws'[r] = ws[r]
      <4>1. /\ ws[r].public => Publisher(id)
            /\ Author(id, ws[r].name)
        BY <3>1, <3>3 DEF LedgerInv, CopyAccounted
      <4>2. PICK i \in DOMAIN rows : i = id
        BY <3>1
      <4>3. PICK n : n = ws[r].name
        OBVIOUS
      <4>4. (ws[r].public => Publisher(i)') /\ Author(i, n)'
        BY <1>2, <4>1, <4>2, <4>3, AuthorsStay
      <4> QED
        BY <3>1, <3>3, <4>2, <4>3, <4>4 DEF CopyAccounted
    <3> QED
      BY <3>2, <3>3
  <2> QED
    BY <2>1, <2>2
<1>6. \A q \in Requests : pc'[q] # "done" => status'[q] = 0
  BY <1>1 DEF LedgerInv
<1> QED
  BY <1>3, <1>4, <1>5, <1>6 DEF LedgerInv

\* An INSERT that took effect, and its 201.
LEMMA CreateLedger ==
  ASSUME IInv, IInv', LedgerInv, NEW r \in Requests, CreateWrite(r),
         rows' = Append(rows, ws[r]), Reply(r, 201)
  PROVE  LedgerInv'
<1>1. /\ pc[r] = "write" /\ call[r].op = "create" /\ status[r] = 0
      /\ \A q \in Requests \ {r} : /\ pc'[q] = pc[q] /\ status'[q] = status[q]
                                   /\ call'[q] = call[q] /\ ws'[q] = ws[q]
  BY OnlyItself DEF IInv, LedgerInv, Handle, CreateWrite
<1>2. /\ ws[r] \in Row /\ ws[r].owner = call[r].user
      /\ ~ws[r].public /\ ~ws[r].deleted
      /\ rows \in Seq(Row)
  BY <1>1 DEF IInv, TypeOK, CheckStillHolds
<1>3. pc'[r] = "done" /\ status'[r] = 201 /\ call'[r] = call[r] /\ ws'[r] = ws[r]
  BY DEF IInv, TypeOK, Reply, CreateWrite
<1>4. /\ DOMAIN rows' = DOMAIN rows \cup {Len(rows) + 1}
      /\ \A i \in DOMAIN rows : rows'[i] = rows[i]
      /\ rows'[Len(rows) + 1] = ws[r] /\ Len(rows') = Len(rows) + 1
      /\ Len(rows) \in Nat
  BY <1>2
<1>5. Settled
  BY <1>1, <1>4 DEF Settled
<1>6. Granted' = Granted \cup {r} /\ r \notin Granted
  BY <1>1, <1>3 DEF Granted
<1>7. IsFiniteSet(Granted') /\ Cardinality(Granted') = Cardinality(Granted) + 1
  BY <1>6, FS_AddElement DEF LedgerInv
<1>8. Len(rows') = Len(InitRows) + Cardinality(Granted')
  <2>1. Len(InitRows) \in Nat /\ Cardinality(Granted) \in Nat
    BY RowsAssumption, FS_CardinalityType DEF LedgerInv
  <2> QED
    BY <1>4, <1>7, <2>1 DEF LedgerInv
<1>9. ASSUME NEW i \in DOMAIN rows' PROVE RowsAccounted(i)'
  <2>1. CASE i \in DOMAIN rows
    BY <1>4, <1>5, <2>1, RowStays DEF LedgerInv
  <2>2. CASE i = Len(rows) + 1
    <3>1. rows'[i] = ws[r]
      BY <1>4, <2>2
    <3>2. CreatedBy(r, i, rows[i].name)'
      BY <1>1, <1>2, <1>3, <3>1 DEF CreatedBy, Done
    <3>3. Author(i, rows[i].name)'
      BY <3>2 DEF Author
    <3> QED
      BY <1>2, <3>1, <3>3 DEF RowsAccounted
  <2> QED
    BY <1>4, <2>1, <2>2
<1>10. ASSUME NEW q \in Requests PROVE CopyAccounted(q)'
  <2>1. CASE q # r
    BY <1>1, <1>5, <2>1, CopiesStay
  <2>2. CASE q = r
    BY <1>3, <2>2 DEF CopyAccounted
  <2> QED
    BY <2>1, <2>2
<1>11. \A q \in Requests : pc'[q] # "done" => status'[q] = 0
  BY <1>1, <1>3 DEF LedgerInv
<1> QED
  BY <1>7, <1>8, <1>9, <1>10, <1>11 DEF LedgerInv

\* A write of one row that took effect, and its 200.
LEMMA RewriteLedger ==
  ASSUME IInv, IInv', LedgerInv, NEW r \in Requests, UpdateWrite(r) \/ DeleteWrite(r),
         Reply(r, 200), call' = call,
         rows' \in Seq(Row), Len(rows') = Len(rows),
         \A i \in DOMAIN rows : /\ rows'[i].owner = rows[i].owner
                                /\ rows'[i] = rows[i] \/ RowsAccounted(i)'
  PROVE  LedgerInv'
<1>1. /\ pc[r] # "done" /\ status[r] = 0
      /\ \A q \in Requests \ {r} : /\ pc'[q] = pc[q] /\ status'[q] = status[q]
                                   /\ call'[q] = call[q] /\ ws'[q] = ws[q]
  BY OnlyItself DEF IInv, LedgerInv, Handle
<1>2. pc'[r] = "done" /\ status'[r] = 200
  BY DEF IInv, TypeOK, Reply
<1>3. DOMAIN rows' = DOMAIN rows
  BY DEF IInv, TypeOK
<1>4. Settled
  BY <1>1, <1>3 DEF Settled
<1>5. Granted' = Granted
  BY <1>1, <1>2 DEF Granted
<1>6. \A i \in DOMAIN rows' : RowsAccounted(i)'
  BY <1>3, <1>4, RowStays DEF LedgerInv
<1>7. ASSUME NEW q \in Requests PROVE CopyAccounted(q)'
  <2>1. CASE q # r
    BY <1>1, <1>4, <2>1, CopiesStay
  <2>2. CASE q = r
    BY <1>2, <2>2 DEF CopyAccounted
  <2> QED
    BY <2>1, <2>2
<1>8. \A q \in Requests : pc'[q] # "done" => status'[q] = 0
  BY <1>1, <1>2 DEF LedgerInv
<1> QED
  BY <1>5, <1>6, <1>7, <1>8 DEF LedgerInv

\* The UPDATE: what it writes is in the request, or in the copy.
LEMMA UpdateLedger ==
  ASSUME IInv, IInv', LedgerInv, NEW r \in Requests, UpdateWrite(r), Reply(r, 200),
         NEW w, w = Merge(ws[r], call[r]),
         rows' = [i \in DOMAIN rows |-> IF i \in Affected(call[r].id)
                                        THEN Stored(rows[i], w) ELSE rows[i]]
  PROVE  LedgerInv'
<1> DEFINE id == call[r].id
<1>1. /\ pc[r] = "write" /\ call[r].op = "update" /\ call' = call
      /\ ws[r] \in Row /\ ws[r].owner = call[r].user /\ call[r] \in Calls
      /\ id \in DOMAIN rows /\ rows[id].owner = call[r].user
      /\ rows \in Seq(Row)
  BY DEF UpdateWrite, IInv, TypeOK, CheckStillHolds
<1>2. w \in Row /\ w.owner = call[r].user
  BY <1>1, MergeTypes
<1>3. rows[id] \in Row
  BY <1>1
<1>4. /\ Stored(rows[id], w) \in Row /\ Stored(rows[id], w).owner = call[r].user
      /\ Stored(rows[id], w).deleted = rows[id].deleted
      /\ Stored(rows[id], w).name = w.name
      /\ Stored(rows[id], w).public = (rows[id].public \/ w.public)
  <2>1. /\ Stored(rows[id], w) \in Row /\ Stored(rows[id], w).owner = call[r].user
        /\ Stored(rows[id], w).deleted = rows[id].deleted
    BY <1>2, <1>3, StoredTypes
  <2>2. /\ Stored(rows[id], w).name = w.name
        /\ Stored(rows[id], w).public = (rows[id].public \/ w.public)
    BY <1>3 DEF Stored, Row
  <2> QED
    BY <2>1, <2>2
<1>5. /\ w.name = IF call[r].name = Absent THEN ws[r].name ELSE call[r].name
      /\ w.public = IF call[r].public = Absent THEN ws[r].public ELSE call[r].public
  BY <1>1 DEF Merge, Row
<1>6. \A i \in DOMAIN rows : i # id => rows'[i] = rows[i]
  BY DEF Affected
<1>7. rows'[id] = rows[id] \/ rows'[id] = Stored(rows[id], w)
  BY <1>1
<1>8. DOMAIN rows' = DOMAIN rows
  OBVIOUS
<1>9. rows' \in Seq(Row) /\ Len(rows') = Len(rows)
  <2>1. rows' \in [DOMAIN rows -> Row]
    <3>1. ASSUME NEW i \in DOMAIN rows PROVE rows'[i] \in Row
      BY <1>1, <1>3, <1>4, <1>6, <1>7
    <3> QED
      BY <3>1
  <2> QED
    BY <1>1, <2>1, RewriteSeq
<1>10. /\ pc'[r] = "done" /\ status'[r] = 200 /\ call'[r] = call[r]
       /\ pc[r] # "done"
       /\ \A q \in Requests \ {r} : /\ pc'[q] = pc[q] /\ status'[q] = status[q]
                                    /\ call'[q] = call[q] /\ ws'[q] = ws[q]
  BY <1>1, OnlyItself DEF IInv, TypeOK, Reply, Handle
<1>11. \A i \in DOMAIN rows : rows'[i].owner = rows[i].owner
  BY <1>1, <1>4, <1>6, <1>7
<1>12. Settled
  BY <1>8, <1>10, <1>11 DEF Settled
<1>13. ASSUME rows'[id] = Stored(rows[id], w) PROVE RowsAccounted(id)'
  <2>1. PICK i \in DOMAIN rows : i = id
    BY <1>1
  <2>2. RowsAccounted(i) /\ CopyAccounted(r)
    BY DEF LedgerInv
  <2>3. rows'[i].deleted => (i \in DOMAIN InitRows /\ InitRows[i].deleted) \/ Deleter(i)'
    BY <1>4, <1>12, <1>13, <2>1, <2>2, AuthorsStay DEF RowsAccounted
  <2>4. ASSUME rows'[i].public PROVE Publisher(i)'
    <3>1. rows[i].public \/ w.public
      BY <1>4, <1>13, <2>1, <2>4
    <3>2. CASE rows[i].public
      BY <1>12, <2>2, <3>2, AuthorsStay DEF RowsAccounted
    <3>3. CASE w.public /\ call[r].public = Absent
      <4>1. ws[r].public
        BY <1>5, <3>3
      <4>2. Publisher(i)
        BY <1>1, <2>1, <2>2, <4>1 DEF CopyAccounted
      <4> QED
        BY <1>12, <4>2, AuthorsStay
    <3>4. CASE w.public /\ call[r].public # Absent
      <4>1. call[r].public = TRUE
        BY <1>1, <1>5, <3>4, CallTypes
      <4>2. PublishedBy(r, i)'
        BY <1>1, <1>10, <1>11, <2>1, <4>1 DEF PublishedBy, Done
      <4> QED
        BY <4>2 DEF Publisher
    <3> QED
      BY <3>1, <3>2, <3>3, <3>4
  <2>5. Author(i, rows[i].name)'
    <3>1. rows'[i].name = w.name
      BY <1>4, <1>13, <2>1
    <3>2. CASE call[r].name = Absent
      <4>1. Author(i, ws[r].name)
        BY <1>1, <2>1, <2>2 DEF CopyAccounted
      <4>2. PICK n : n = ws[r].name
        OBVIOUS
      <4>3. Author(i, n)'
        BY <1>12, <4>1, <4>2, AuthorsStay
      <4> QED
        BY <1>5, <3>1, <3>2, <4>2, <4>3
    <3>3. CASE call[r].name # Absent
      <4>1. NamedBy(r, i, rows[i].name)'
        BY <1>1, <1>5, <1>10, <1>11, <2>1, <3>1, <3>3 DEF NamedBy, Done
      <4> QED
        BY <4>1 DEF Author
    <3> QED
      BY <3>2, <3>3
  <2>6. RowsAccounted(i)'
    BY <2>3, <2>4, <2>5 DEF RowsAccounted
  <2> QED
    BY <1>1, <2>1, <2>6
<1>14. ASSUME NEW i \in DOMAIN rows PROVE rows'[i] = rows[i] \/ RowsAccounted(i)'
  <2>1. CASE i # id \/ rows'[id] = rows[id]
    BY <1>6, <2>1
  <2>2. CASE i = id /\ rows'[id] = Stored(rows[id], w)
    BY <1>1, <1>13, <2>2
  <2> QED
    BY <1>7, <2>1, <2>2
<1> QED
  BY <1>1, <1>9, <1>11, <1>14, RewriteLedger

LEMMA SameDomain ==
  ASSUME NEW S, NEW s \in Seq(S), NEW t \in Seq(S), DOMAIN t = DOMAIN s
  PROVE  Len(t) = Len(s)
<1>1. DOMAIN s = 1..Len(s) /\ DOMAIN t = 1..Len(t) /\ Len(s) \in Nat /\ Len(t) \in Nat
  OBVIOUS
<1> QED
  BY <1>1

\* The soft delete.
LEMMA DeleteLedger ==
  ASSUME IInv, IInv', LedgerInv, NEW r \in Requests, DeleteWrite(r), Reply(r, 200),
         rows' = [i \in DOMAIN rows |-> IF i \in Affected(call[r].id)
                                        THEN [rows[i] EXCEPT !.deleted = TRUE] ELSE rows[i]]
  PROVE  LedgerInv'
<1> DEFINE id == call[r].id
<1>1. /\ pc[r] = "write" /\ call[r].op = "delete" /\ call' = call
      /\ id \in DOMAIN rows /\ rows[id].owner = call[r].user
      /\ rows \in Seq(Row) /\ rows[id] \in Row
  BY DEF DeleteWrite, IInv, TypeOK, CheckStillHolds
<1>2. \A i \in DOMAIN rows : i # id => rows'[i] = rows[i]
  BY DEF Affected
<1>3. rows'[id] = rows[id] \/ rows'[id] = [rows[id] EXCEPT !.deleted = TRUE]
  BY <1>1
<1>4. /\ rows'[id] \in Row /\ rows'[id].owner = rows[id].owner
      /\ rows'[id].name = rows[id].name /\ rows'[id].public = rows[id].public
  BY <1>1, <1>3 DEF Row
<1>5. rows' \in Seq(Row) /\ Len(rows') = Len(rows) /\ DOMAIN rows' = DOMAIN rows
  <2>1. DOMAIN rows' = DOMAIN rows
    OBVIOUS
  <2>2. rows' \in Seq(Row)
    BY DEF IInv, TypeOK
  <2>3. rows \in Seq(Row)
    BY <1>1
  <2> QED
    BY <2>1, <2>2, <2>3, SameDomain
<1>6. /\ pc'[r] = "done" /\ status'[r] = 200 /\ call'[r] = call[r]
      /\ pc[r] # "done"
      /\ \A q \in Requests \ {r} : /\ pc'[q] = pc[q] /\ status'[q] = status[q]
                                   /\ call'[q] = call[q] /\ ws'[q] = ws[q]
  BY <1>1, OnlyItself DEF IInv, TypeOK, Reply, Handle
<1>7. \A i \in DOMAIN rows : rows'[i].owner = rows[i].owner
  BY <1>2, <1>4
<1>8. Settled
  BY <1>5, <1>6, <1>7 DEF Settled
<1>9. RowsAccounted(id)'
  <2>1. PICK i \in DOMAIN rows : i = id
    BY <1>1
  <2>2. RowsAccounted(i)
    BY DEF LedgerInv
  <2>3. DeletedBy(r, i)'
    BY <1>1, <1>4, <1>6, <2>1 DEF DeletedBy, Done
  <2>4. PICK n : n = rows[i].name
    OBVIOUS
  <2>5. (rows[i].public => Publisher(i)') /\ Author(i, n)'
    BY <1>8, <2>2, <2>4, AuthorsStay DEF RowsAccounted
  <2>6. RowsAccounted(i)'
    BY <1>4, <2>1, <2>3, <2>4, <2>5 DEF RowsAccounted, Deleter
  <2> QED
    BY <1>1, <2>1, <2>6
<1>10. ASSUME NEW i \in DOMAIN rows PROVE rows'[i] = rows[i] \/ RowsAccounted(i)'
  <2>1. CASE i # id
    BY <1>2, <2>1
  <2>2. CASE i = id
    BY <1>1, <1>9, <2>2
  <2> QED
    BY <2>1, <2>2
<1> QED
  BY <1>1, <1>5, <1>7, <1>10, RewriteLedger

\* The steps that only read, and the writes that fail.
LEMMA ReadLedger ==
  ASSUME IInv, IInv', LedgerInv, NEW r \in Requests,
         \/ Receive(r) \/ Reject(r) \/ CreateCheck(r) \/ GetFind(r)
         \/ UpdateFind(r) \/ UpdateCheck(r) \/ DeleteFind(r)
  PROVE  LedgerInv'
<1>1. pc[r] # "done" /\ status[r] = 0 /\ TypeOK
  BY OnlyItself DEF IInv, LedgerInv, Handle
<1>2. /\ DOMAIN pc = Requests /\ DOMAIN status = Requests
      /\ DOMAIN call = Requests /\ DOMAIN ws = Requests
  BY <1>1 DEF TypeOK
<1>3. rows' = rows
  BY DEF Receive, Reject, CreateCheck, GetFind, UpdateFind, UpdateCheck, DeleteFind,
         FindRefused
<1>4. \/ pc'[r] # "done" /\ status' = status
      \/ pc'[r] = "done" /\ \E s \in {200} \cup Refusals : status' = [status EXCEPT ![r] = s]
  <2>1. ASSUME NEW s, Reply(r, s)
        PROVE  pc'[r] = "done" /\ status' = [status EXCEPT ![r] = s]
    BY <1>2, <2>1 DEF Reply
  <2>2. ASSUME NEW l \in {"check", "find", "write"}, Goto(r, l)
        PROVE  pc'[r] # "done" /\ status' = status
    BY <1>2, <2>2 DEF Goto
  <2>3. CASE Receive(r)
    <3>1. PICK c \in Calls : Goto(r, FirstStep[c.op])
      BY <2>3 DEF Receive
    <3>2. FirstStep[c.op] \in {"check", "find", "write"}
      BY CallTypes DEF FirstStep
    <3> QED
      BY <2>2, <3>1, <3>2
  <2>4. CASE ~Receive(r)
    <3>1. \/ \E s \in {200} \cup Refusals : Reply(r, s)
          \/ \E l \in {"check", "find", "write"} : Goto(r, l)
      BY <2>4 DEF Reject, CreateCheck, GetFind, UpdateFind, UpdateCheck, DeleteFind,
                  FindRefused, Refusals
    <3> QED
      BY <2>1, <2>2, <3>1
  <2> QED
    BY <2>3, <2>4
<1>5. status'[r] # 201 /\ (pc'[r] # "done" => status'[r] = 0)
  BY <1>1, <1>2, <1>4 DEF Refusals
<1>6. ASSUME pc'[r] \in {"check", "write"}, call'[r].op = "update"
      PROVE  /\ call'[r] = call[r] /\ call[r].id \in DOMAIN rows
             /\ \/ ws'[r] = rows[call[r].id]
                \/ pc[r] \in {"check", "write"} /\ ws'[r] = ws[r]
  <2>1. ~Receive(r)
    <3>1. ASSUME Receive(r) PROVE FALSE
      <4>1. PICK c \in Calls : call' = [call EXCEPT ![r] = c] /\ Goto(r, FirstStep[c.op])
        BY <3>1 DEF Receive
      <4>2. call'[r] = c /\ pc'[r] = FirstStep[c.op]
        BY <1>2, <4>1 DEF Goto
      <4> QED
        BY <1>6, <4>2 DEF FirstStep
    <3> QED
      BY <3>1
  <2>2. call' = call /\ call[r].op = "update"
    BY <1>6, <2>1 DEF Reject, CreateCheck, GetFind, UpdateFind, UpdateCheck, DeleteFind,
                      FindRefused
  <2>3. UpdateFind(r) \/ UpdateCheck(r)
    <3>1. ~Reject(r)
      BY <1>2, <1>6 DEF Reject, Reply
    <3> QED
      BY <2>1, <2>2, <3>1 DEF CreateCheck, GetFind, DeleteFind
  <2>4. CASE UpdateFind(r)
    <3>1. ~FindRefused(r, Owns(r), 400)
      BY <1>2, <1>6 DEF FindRefused, Reply
    <3>2. Live(call[r].id) /\ ws' = [ws EXCEPT ![r] = rows[call[r].id]]
      BY <2>4, <3>1 DEF UpdateFind
    <3> QED
      BY <1>2, <2>2, <3>2 DEF Live
  <2>5. CASE UpdateCheck(r)
    BY <2>2, <2>5 DEF UpdateCheck, IInv, CheckStillHolds
  <2> QED
    BY <2>3, <2>4, <2>5
<1> QED
  BY <1>3, <1>5, <1>6, QuietLedger DEF Handle

LEMMA FailedLedger ==
  ASSUME IInv, IInv', LedgerInv, NEW r \in Requests, Handle(r),
         NEW s \in Refusals, Reply(r, s), rows' = rows
  PROVE  LedgerInv'
<1>1. pc'[r] = "done" /\ status'[r] = s /\ s # 201
  BY DEF IInv, TypeOK, Reply, Refusals
<1> QED
  BY <1>1, QuietLedger

LEMMA WriteLedger ==
  ASSUME ~Lost, IInv, IInv', LedgerInv, NEW r \in Requests,
         CreateWrite(r) \/ UpdateWrite(r) \/ DeleteWrite(r)
  PROVE  LedgerInv'
<1>1. CASE CreateWrite(r)
  <2>1. CASE rows' = Append(rows, ws[r]) /\ ReplyWritten(r, 201, 400)
    BY <1>1, <2>1, CreateLedger DEF ReplyWritten
  <2>2. CASE Reply(r, 400) /\ UNCHANGED rows
    BY <1>1, <2>2, FailedLedger DEF Handle, Refusals
  <2> QED
    BY <1>1, <2>1, <2>2 DEF CreateWrite
<1>2. CASE UpdateWrite(r)
  <2> DEFINE after == [i \in DOMAIN rows |-> IF i \in Affected(call[r].id)
                                            THEN Stored(rows[i], Merge(ws[r], call[r]))
                                            ELSE rows[i]]
  <2>1. CASE rows' = after /\ ReplyWritten(r, 200, 400)
    BY <1>2, <2>1, UpdateLedger DEF ReplyWritten
  <2>2. CASE Reply(r, 400) /\ UNCHANGED rows
    BY <1>2, <2>2, FailedLedger DEF Handle, Refusals
  <2> QED
    BY <1>2, <2>1, <2>2 DEF UpdateWrite
<1>3. CASE DeleteWrite(r)
  <2> DEFINE after == [i \in DOMAIN rows |-> IF i \in Affected(call[r].id)
                                            THEN [rows[i] EXCEPT !.deleted = TRUE]
                                            ELSE rows[i]]
  <2>1. CASE rows' = after /\ ReplyWritten(r, 200, 500)
    BY <1>3, <2>1, DeleteLedger DEF ReplyWritten
  <2>2. CASE Reply(r, 500) /\ UNCHANGED rows
    BY <1>3, <2>2, FailedLedger DEF Handle, Refusals
  <2> QED
    BY <1>3, <2>1, <2>2 DEF DeleteWrite
<1> QED
  BY <1>1, <1>2, <1>3

LEMMA NextLedger == ~Lost /\ IInv /\ IInv' /\ LedgerInv /\ [Next]_vars => LedgerInv'
<1> SUFFICES ASSUME ~Lost, IInv, IInv', LedgerInv, [Next]_vars PROVE LedgerInv'
  OBVIOUS
<1>1. CASE UNCHANGED vars
  <2>1. \A i \in DOMAIN rows : RowsAccounted(i)'
    BY <1>1 DEF vars, LedgerInv, RowsAccounted, Deleter, DeletedBy, Publisher, PublishedFirst,
                PublishedBy, Author, NamedFirst, CreatedBy, NamedBy, Done
  <2>2. \A r \in Requests : CopyAccounted(r)'
    BY <1>1 DEF vars, LedgerInv, CopyAccounted, Publisher, PublishedFirst,
                PublishedBy, Author, NamedFirst, CreatedBy, NamedBy, Done
  <2>3. Granted' = Granted
    BY <1>1 DEF vars, Granted
  <2> QED
    BY <1>1, <2>1, <2>2, <2>3 DEF vars, LedgerInv
<1>2. ASSUME NEW r \in Requests, Receive(r) \/ Reject(r) \/ Handle(r)
      PROVE  LedgerInv'
  BY <1>2, ReadLedger, WriteLedger DEF Handle
<1> QED
  BY <1>1, <1>2 DEF Next

-----------------------------------------------------------------------------
(* The theorems. *)

LEMMA Ledger == ~Lost => (Spec => []LedgerInv)
<1> SUFFICES ASSUME ~Lost PROVE Spec => []LedgerInv
  OBVIOUS
<1>1. IInv /\ IInv' /\ LedgerInv /\ [Next]_vars => LedgerInv'
  BY NextLedger
<1> QED
  BY <1>1, InitLedger, Invariance, PTL DEF Spec

\* Unless answers are lost, as many rows were added as requests were answered 201,
\* whatever the checks and inserts of other requests do in between
\* (workspace_controller.go:54-66).
THEOREM EveryCreateAnswered == ~Lost => (Spec => []CreatesAccounted)
<1>1. LedgerInv => CreatesAccounted
  BY DEF LedgerInv, Granted, CreatesAccounted
<1> QED
  BY <1>1, Ledger, PTL

\* Unless answers are lost, every row deleted since the start was deleted by an
\* accepted DELETE of its owner (workspace_service.go:164-172).
THEOREM EveryDeletionAnswered == ~Lost => (Spec => []DeletionsAccounted)
<1>1. LedgerInv => DeletionsAccounted
  BY DEF LedgerInv, RowsAccounted, Deleter, DeletedBy, DeletionsAccounted
<1> QED
  BY <1>1, Ledger, PTL

\* Unless answers are lost, a workspace is public only because it was or because
\* an accepted update of its owner asked for it: the copy an update writes back,
\* however old, publishes nothing (workspace_service.go:141-149).
THEOREM OnlyOwnersPublish == ~Lost => (Spec => []PublishedByOwner)
<1>1. LedgerInv => PublishedByOwner
  BY DEF LedgerInv, RowsAccounted, Publisher, PublishedFirst, PublishedBy, PublishedByOwner
<1> QED
  BY <1>1, Ledger, PTL

\* Unless answers are lost, a workspace's name is one its owner gave it, although
\* updates without a name write back the one they read (workspace_service.go:134).
THEOREM OnlyOwnersName == ~Lost => (Spec => []NamesHaveAuthor)
<1>1. LedgerInv => NamesHaveAuthor
  BY DEF LedgerInv, RowsAccounted, Author, NamedFirst, CreatedBy, NamedBy, NamesHaveAuthor
<1> QED
  BY <1>1, Ledger, PTL
=============================================================================
