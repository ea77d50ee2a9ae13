----------------------------- MODULE StorageProofs -----------------------------
(***************************************************************************)
(* Proofs about Storage, for every set of calls, names and bodies and      *)
(* every choice of drivers: success means that the whole body is there, a  *)
(* torn file and a torn read have a cause, no SFTP call leaves a           *)
(* connection behind, an upload that returned changes no file any more,    *)
(* and the S3 driver implements AtomicStorage.                             *)
(***************************************************************************)
EXTENDS Storage, TLAPS

Labels == {"begin", "copying", "reading", "returned", "client", "create", "operate", "select",
           "closing", "deleting", "answering"}

\* A call has a connection between its begin and its return only, and only where
\* the driver is the SFTP driver.
CallInv ==
  /\ pc \in [Calls -> Labels]
  /\ result \in [Calls -> {Absent, "ok", "error", "canceled", "closed"}]
  /\ copied \in [Uploads -> Nat]
  /\ ch \in [Uploads -> {Absent, "ok", "error"}]
  /\ copier \in [Uploads -> {"none", "copying", "ok", "error", "ended"}]
  /\ conn \in [Calls -> {"none", "dialed", "open"}]
  /\ \A c \in Calls : pc[c] \in {"begin", "returned"} => conn[c] = "none"
  /\ driver # "ftp" => \A c \in Calls : conn[c] = "none"

LEMMA InitInv == Init => CallInv
<1> SUFFICES ASSUME Init PROVE CallInv
  OBVIOUS
<1> QED
  BY DEF Init, Ftp!Init, Ftp!CallsInit, Ftp!Calls, Calls, CallInv, Labels

-----------------------------------------------------------------------------
LEMMA LocalInv ==
  ASSUME CallInv, driver = "local", UNCHANGED <<driver, sftpVars>>, Local!Next
  PROVE  CallInv'
<1> PICK c \in Calls : Local!Serve(c)
  BY DEF Local!Next, Local!Calls, Calls
<1> USE DEF CallInv, sftpVars, Labels, Local!Goto, Local!Returned
<1>1. CASE Local!Create(c)
  BY <1>1 DEF Local!Create
<1>2. CASE Local!CopyChunk(c)
  BY <1>2 DEF Local!CopyChunk, Local!FsWrite
<1>3. CASE Local!CopyEnd(c)
  BY <1>3 DEF Local!CopyEnd
<1>4. CASE Local!Delete(c)
  BY <1>4 DEF Local!Delete
<1>5. CASE Local!Open(c)
  BY <1>5 DEF Local!Open
<1>6. CASE c \in Reads /\ Local!ReadChunk(c)
  BY <1>6 DEF Local!ReadChunk
<1>7. CASE c \in Reads /\ Local!ReadEnd(c)
  BY <1>7 DEF Local!ReadEnd
<1>8. QED
  BY <1>1, <1>2, <1>3, <1>4, <1>5, <1>6, <1>7 DEF Local!Serve

LEMMA S3Inv ==
  ASSUME CallInv, driver = "s3", UNCHANGED <<driver, sftpVars>>, S3!Next
  PROVE  CallInv'
<1> PICK c \in Calls : \/ S3!Begin(c) \/ S3!CopyChunk(c) \/ S3!Complete(c) \/ S3!Delete(c)
                       \/ S3!Fetch(c) \/ S3!Answer(c) \/ S3!Fail(c)
  BY DEF S3!Next, S3!Calls, Calls
<1> USE DEF CallInv, sftpVars, Labels, S3!Goto, S3!Returned
<1>1. CASE S3!Begin(c)
  BY <1>1 DEF S3!Begin
<1>2. CASE S3!CopyChunk(c)
  BY <1>2 DEF S3!CopyChunk
<1>3. CASE S3!Complete(c)
  BY <1>3 DEF S3!Complete
<1>4. CASE S3!Delete(c)
  BY <1>4 DEF S3!Delete
<1>5. CASE S3!Fetch(c)
  BY <1>5 DEF S3!Fetch
<1>6. CASE S3!Answer(c)
  BY <1>6 DEF S3!Answer
<1>7. CASE S3!Fail(c)
  BY <1>7 DEF S3!Fail
<1>8. QED
  BY <1>1, <1>2, <1>3, <1>4, <1>5, <1>6, <1>7

LEMMA FtpInv ==
  ASSUME CallInv, driver = "ftp", UNCHANGED driver, Ftp!Next
  PROVE  CallInv'
<1> USE DEF CallInv, Labels, Calls, Ftp!Goto, Ftp!Returned, Ftp!Return,
            Ftp!callVars, Ftp!fsVars, Ftp!sftpVars
<1>1. ASSUME NEW c \in Calls, Ftp!Dial(c) \/ Ftp!NewClient(c) PROVE CallInv'
  BY <1>1 DEF Ftp!Dial, Ftp!NewClient
<1>2. ASSUME NEW u \in Uploads, Ftp!Create(u) PROVE CallInv'
  BY <1>2 DEF Ftp!Create
<1>3. ASSUME NEW u \in Uploads, Ftp!SelectCopied(u) PROVE CallInv'
  BY <1>3 DEF Ftp!SelectCopied
<1>4. ASSUME NEW u \in Uploads, Ftp!SelectDone(u) \/ Ftp!CloseCanceled(u) PROVE CallInv'
  BY <1>4 DEF Ftp!SelectDone, Ftp!CloseCanceled
<1>5. ASSUME NEW c \in Calls, Ftp!Delete(c) PROVE CallInv'
  BY <1>5 DEF Ftp!Delete
<1>6. ASSUME NEW c \in Calls, Ftp!Open(c) PROVE CallInv'
  BY <1>6 DEF Ftp!Open
<1>7. ASSUME NEW u \in Uploads, Ftp!CopyChunk(u) PROVE CallInv'
  BY <1>7 DEF Ftp!CopyChunk, Ftp!FsWrite
<1>8. ASSUME NEW u \in Uploads, Ftp!CopyEnd(u) \/ Ftp!Send(u) \/ Ftp!Cancel(u) PROVE CallInv'
  BY <1>8 DEF Ftp!CopyEnd, Ftp!Send, Ftp!Cancel
<1>9. ASSUME NEW r \in Reads, Ftp!ReadChunk(r) \/ Ftp!Close(r) PROVE CallInv'
  BY <1>9 DEF Ftp!ReadChunk, Ftp!Close
<1>10. QED
  BY <1>1, <1>2, <1>3, <1>4, <1>5, <1>6, <1>7, <1>8, <1>9 DEF Ftp!Next, Ftp!Serve, Ftp!Calls

LEMMA NextInv == CallInv /\ [Next]_vars => CallInv'
<1> SUFFICES ASSUME CallInv, [Next]_vars PROVE CallInv'
  OBVIOUS
<1>1. CASE UNCHANGED vars
  BY <1>1 DEF vars, ftpVars, callVars, fsVars, sftpVars, CallInv
<1>2. CASE Next
  BY <1>2, LocalInv, S3Inv, FtpInv DEF Next, Step
<1>3. QED
  BY <1>1, <1>2

LEMMA Invariance == FairSpec => []CallInv
<1>1. QED
  BY InitInv, NextInv, PTL DEF FairSpec

-----------------------------------------------------------------------------
\* Every SFTP call closes its connection on every path, whatever fails: also one that
\* was dialed and got no client (ftp.go:54-57,70,106,148,167).
THEOREM NoConnectionIsLeft == FairSpec => []NoConnectionLeaks
<1>1. CallInv => NoConnectionLeaks
  BY DEF CallInv, NoConnectionLeaks
<1>2. QED
  BY <1>1, Invariance, PTL

\* An upload that has returned changes no file any more, although its goroutine
\* may still be copying: the connection under it is closed (ftp.go:70-71,106-108).
THEOREM ReturnedIsSilent == FairSpec => SilentAfterReturn
<1>1. ASSUME CallInv, [Next]_vars
      PROVE  [\A u \in Uploads : (pc[u] = "returned" /\ copied'[u] # copied[u])
                                 => data' = data]_vars
  <2> SUFFICES ASSUME Next, NEW u \in Uploads, pc[u] = "returned", copied'[u] # copied[u]
               PROVE  FALSE
    BY <1>1
  <2> USE <1>1
  <2>1. conn[u] = "none"
    BY DEF CallInv, Calls
  <2>2. CASE driver = "local" /\ Local!Next
    <3> PICK c \in Calls : Local!Serve(c)
      BY <2>2 DEF Local!Next, Local!Calls, Calls
    <3>1. Local!CopyChunk(c)
      BY DEF Local!Serve, Local!Create, Local!CopyEnd, Local!Delete, Local!Open,
             Local!ReadChunk, Local!ReadEnd
    <3>2. QED
      BY <3>1 DEF Local!CopyChunk, Local!FsWrite, CallInv
  <2>3. CASE driver = "s3" /\ S3!Next
    <3> PICK c \in Calls : \/ S3!Begin(c) \/ S3!CopyChunk(c) \/ S3!Complete(c)
                           \/ S3!Delete(c) \/ S3!Fetch(c) \/ S3!Answer(c) \/ S3!Fail(c)
      BY <2>3 DEF S3!Next, S3!Calls, Calls
    <3>1. S3!CopyChunk(c)
      BY DEF S3!Begin, S3!Complete, S3!Delete, S3!Fetch, S3!Answer, S3!Fail
    <3>2. QED
      BY <3>1 DEF S3!CopyChunk, CallInv
  <2>4. CASE driver = "ftp" /\ Ftp!Next
    <3>1. PICK v \in Uploads : Ftp!CopyChunk(v)
      BY <2>4 DEF Ftp!Next, Ftp!Serve, Ftp!Dial, Ftp!NewClient, Ftp!Create,
                  Ftp!SelectCopied, Ftp!SelectDone, Ftp!CloseCanceled, Ftp!Delete, Ftp!Open,
                  Ftp!CopyEnd, Ftp!Send, Ftp!Cancel,
                  Ftp!ReadChunk, Ftp!Close, Ftp!callVars, Ftp!Calls
    <3>2. QED
      BY <2>1, <3>1 DEF Ftp!CopyChunk, Ftp!FsWrite, CallInv
  <2>5. QED
    BY <2>2, <2>3, <2>4 DEF Next, Step
<1>2. QED
  BY <1>1, Invariance, PTL DEF FairSpec, SilentAfterReturn

-----------------------------------------------------------------------------
\* Behind the S3 driver only deletes are deleting and only reads are reading.
PlaceInv ==
  driver = "s3" => \A c \in Calls : /\ pc[c] = "deleting" => c \in Deletes
                                    /\ pc[c] = "reading" => c \in Reads

LEMMA PlaceStep == CallInv /\ PlaceInv /\ [Next]_vars => PlaceInv'
<1> SUFFICES ASSUME CallInv, PlaceInv, [Next]_vars, driver = "s3", driver' = "s3"
             PROVE  PlaceInv'
  BY DEF PlaceInv, Next, vars
<1>1. CASE UNCHANGED vars
  BY <1>1 DEF vars, ftpVars, callVars, PlaceInv
<1>2. CASE S3!Next
  <2> PICK c \in Calls : \/ S3!Begin(c) \/ S3!CopyChunk(c) \/ S3!Complete(c) \/ S3!Delete(c)
                         \/ S3!Fetch(c) \/ S3!Answer(c) \/ S3!Fail(c)
    BY <1>2 DEF S3!Next, S3!Calls, Calls
  <2> USE DEF CallInv, PlaceInv
  <2>1. CASE S3!Begin(c)
    BY <2>1 DEF S3!Begin, S3!Goto, Calls
  <2>2. CASE S3!CopyChunk(c)
    BY <2>2 DEF S3!CopyChunk
  <2>3. CASE S3!Complete(c) \/ S3!Delete(c) \/ S3!Fetch(c)
    BY <2>3 DEF S3!Complete, S3!Delete, S3!Fetch, S3!Goto
  <2>4. CASE S3!Answer(c) \/ S3!Fail(c)
    BY <2>4 DEF S3!Answer, S3!Fail, S3!Returned
  <2>5. QED
    BY <2>1, <2>2, <2>3, <2>4
<1>3. QED
  BY <1>1, <1>2 DEF Next, Step

\* How a change of one label shows to the caller.
LEMMA Unchanged ==
  ASSUME CallInv, NEW c \in Calls, NEW to, pc' = [pc EXCEPT ![c] = to], UNCHANGED result,
         pc[c] \notin {"answering", "returned"}, to \notin {"answering", "returned"}
  PROVE  S3!Phase' = S3!Phase
BY DEF CallInv, S3!Phase, S3!Calls, Calls

LEMMA Effective ==
  ASSUME CallInv, NEW c \in Calls, S3!Goto(c, "answering"),
         pc[c] \notin {"answering", "returned"}
  PROVE  S3!Atomic!Turn(c, "open", "effective")
BY DEF CallInv, S3!Phase, S3!Calls, Calls, S3!Goto, S3!Atomic!Turn

LEMMA Answered ==
  ASSUME CallInv, NEW c \in Calls, NEW res, S3!Returned(c, res), pc[c] = "answering"
  PROVE  S3!Atomic!Turn(c, "effective", res)
BY DEF CallInv, S3!Phase, S3!Calls, Calls, S3!Returned, S3!Atomic!Turn

LEMMA Failed ==
  ASSUME CallInv, NEW c \in Calls, NEW res, S3!Returned(c, res),
         pc[c] \notin {"answering", "returned"}
  PROVE  S3!Atomic!Turn(c, "open", res)
BY DEF CallInv, S3!Phase, S3!Calls, Calls, S3!Returned, S3!Atomic!Turn

LEMMA S3Step ==
  ASSUME CallInv, PlaceInv, driver = "s3", S3!Next
  PROVE  S3!Atomic!Next \/ UNCHANGED <<objects, S3!Phase, got>>
<1> PICK c \in Calls : \/ S3!Begin(c) \/ S3!CopyChunk(c) \/ S3!Complete(c) \/ S3!Delete(c)
                       \/ S3!Fetch(c) \/ S3!Answer(c) \/ S3!Fail(c)
  BY DEF S3!Next, S3!Calls, Calls
<1> USE DEF S3!Atomic!Next, S3!Atomic!Calls, Calls
<1>1. CASE S3!Begin(c)
  <2> DEFINE to == IF c \in Uploads THEN "copying"
                   ELSE IF c \in Reads THEN "reading" ELSE "deleting"
  <2>1. pc' = [pc EXCEPT ![c] = to] /\ pc[c] = "begin" /\ UNCHANGED <<result, got, objects>>
    BY <1>1 DEF S3!Begin, S3!Goto
  <2>2. to \notin {"answering", "returned"}
    OBVIOUS
  <2> HIDE DEF to
  <2>3. UNCHANGED S3!Phase
    BY <2>1, <2>2, Unchanged
  <2>4. QED
    BY <2>1, <2>3
<1>2. CASE S3!CopyChunk(c)
  BY <1>2 DEF S3!CopyChunk, S3!Phase
<1>3. CASE S3!Complete(c)
  <2>1. S3!Atomic!Put(c)
    BY <1>3, Effective DEF S3!Complete, S3!Atomic!Put
  <2>2. QED
    BY <1>3, <2>1 DEF S3!Complete
<1>4. CASE S3!Delete(c)
  <2>1. c \in Deletes
    BY <1>4 DEF S3!Delete, PlaceInv
  <2>2. S3!Atomic!Remove(c)
    BY <1>4, Effective DEF S3!Delete, S3!Atomic!Remove
  <2>3. QED
    BY <2>1, <2>2
<1>5. CASE S3!Fetch(c)
  <2>1. c \in Reads
    BY <1>5 DEF S3!Fetch, PlaceInv
  <2>2. S3!Atomic!Fetch(c)
    BY <1>5, Effective DEF S3!Fetch, S3!Atomic!Fetch
  <2>3. QED
    BY <2>1, <2>2
<1>6. CASE S3!Answer(c)
  <2>1. S3!Atomic!Answer(c)
    BY <1>6, Answered DEF S3!Answer, S3!Atomic!Answer
  <2>2. QED
    BY <2>1
<1>7. CASE S3!Fail(c)
  <2>1. S3!Atomic!Fail(c)
    BY <1>7, Failed DEF S3!Fail, S3!Atomic!Fail
  <2>2. QED
    BY <2>1
<1>8. QED
  BY <1>1, <1>2, <1>3, <1>4, <1>5, <1>6, <1>7

\* Whatever the calls, their order and the answers that get lost, the S3 driver
\* implements AtomicStorage: each of its steps is one of a storage of
\* indivisible calls, or invisible (s3.go:36-64).
THEOREM S3ImplementsAtomic == FairSpec => S3IsAtomic
<1>1. Init => PlaceInv
  BY DEF Init, S3!Init, S3!CallsInit, S3!Calls, Calls, PlaceInv
<1>2. ASSUME CallInv, PlaceInv, [Next]_vars
      PROVE  [driver = "s3" => S3!Atomic!Next]_<<driver, objects, S3!Phase, got>>
  <2>1. CASE UNCHANGED vars
    BY <2>1 DEF vars, ftpVars, callVars, S3!Phase
  <2>2. CASE Next /\ driver = "s3"
    BY <1>2, <2>2, S3Step DEF Next, Step
  <2>3. CASE Next /\ driver # "s3"
    BY <2>3
  <2>4. QED
    BY <1>2, <2>1, <2>2, <2>3
<1>3. QED
  BY <1>1, <1>2, PlaceStep, Invariance, PTL DEF FairSpec, S3IsAtomic

-----------------------------------------------------------------------------
(* What a file holds, behind the local and the SFTP driver.  The argument  *)
(* follows the upload that began last under a name: as long as nobody      *)
(* disturbs it, its file is the one under the name and holds what it has   *)
(* copied; once it has succeeded, the file stays as it left it until the   *)
(* next upload begins.                                                     *)

\* An upload of that name failed, was canceled or was disturbed.
Excused(n) == \E u \in Uploads : /\ NameOf[u] = n
                                 /\ u \in raced \/ result[u] \in {"error", "canceled"}

\* Where an upload that has its file is, until it returns.
AtWork == {"copying", "select", "closing"}

\* A name's files are of that name, and who writes or reads holds one of its own.
HandlesInv ==
  /\ dir \in [Names -> Uploads \cup {Absent}]
  /\ data \in [Uploads -> Contents]
  /\ handle \in [Uploads \cup Reads -> Uploads \cup {Absent}]
  /\ \A n \in Names : dir[n] # Absent => NameOf[dir[n]] = n
  /\ \A c \in Uploads \cup Reads : handle[c] # Absent => NameOf[handle[c]] = NameOf[c]
  /\ \A u \in Uploads : pc[u] \in AtWork => handle[u] # Absent
  /\ \A r \in Reads : pc[r] = "reading" => handle[r] # Absent

\* Where each call is, and what it has returned by then.
PlacesInv ==
  /\ pc \in [Calls -> {"begin", "client", "create", "operate", "reading", "returned"} \cup AtWork]
  /\ result \in [Calls -> {Absent, "ok", "error", "canceled", "closed"}]
  /\ copied \in [Uploads -> Nat] /\ got \in [Reads -> Contents]
  /\ \A u \in Uploads : pc[u] \in {"begin", "client", "create", "returned"} \cup AtWork
  /\ \A r \in Reads : pc[r] \in {"begin", "client", "operate", "reading", "returned"}
  /\ \A c \in Calls : pc[c] # "returned" => result[c] = Absent
  /\ \A u \in Uploads : pc[u] = "returned" => result[u] \in {"ok", "error", "canceled"}
  /\ \A u \in Uploads : pc[u] \in {"begin", "client", "create"} => copied[u] = 0
  /\ \A u \in Uploads : copied[u] <= SizeOf[u]
  /\ \A r \in Reads : pc[r] \in {"begin", "client", "operate"} => got[r] = << >>

\* The goroutine of an upload copies only while its upload is at work or has
\* returned, and reports a success only at the end of the reader.
CopierInv ==
  /\ \A u \in Uploads :
       pc[u] \in {"begin", "client", "create"} => copier[u] = "none" /\ ch[u] = Absent
  /\ \A u \in Uploads : copier[u] = "ok" \/ ch[u] = "ok" => copied[u] = SizeOf[u]

\* An upload that is writing, undisturbed.
WriterInv ==
  \A u \in Writing \ raced :
     /\ last[NameOf[u]] = u
     /\ dir[NameOf[u]] = handle[u]
     /\ data[handle[u]] = [k \in 1..copied[u] |-> u]
     /\ \A v \in Writing : NameOf[v] = NameOf[u] => v = u

\* The upload that began last under a name.
LastInv ==
  /\ last \in [Names -> Uploads \cup {Absent}]
  /\ \A n \in Names : dir[n] # Absent => last[n] # Absent
  /\ \A n \in Names : last[n] # Absent =>
       NameOf[last[n]] = n /\ pc[last[n]] \in AtWork \cup {"returned"}
  /\ \A n \in Names : (last[n] # Absent /\ last[n] \notin raced /\ result[last[n]] = "ok") =>
       /\ \A v \in Writing : NameOf[v] # n
       /\ dir[n] # Absent => data[dir[n]] = Body(last[n])

\* A read that no writer has met.
ReaderInv ==
  /\ \A r \in Reads : (pc[r] = "reading" /\ r \notin raced) =>
       /\ \A v \in Writing : NameOf[v] # NameOf[r]
       /\ Len(got[r]) <= Len(data[handle[r]])
       /\ \A k \in 1..Len(got[r]) : got[r][k] = data[handle[r]][k]
       /\ data[handle[r]] \in Bodies \/ Excused(NameOf[r])
  /\ \A r \in Reads : (result[r] = "ok" /\ r \notin raced) =>
       got[r] \in Bodies \/ Excused(NameOf[r])

FileInv == HandlesInv /\ PlacesInv /\ WriterInv /\ LastInv /\ ReaderInv

\* What the object store holds, behind the S3 driver.
ObjectInv ==
  /\ objects \in [Names -> Bodies \cup {Absent}] /\ got \in [Reads -> Contents]
  /\ \A u \in Uploads : (pc[u] = "answering" /\ u \notin raced) => objects[NameOf[u]] = Body(u)
  /\ \A r \in Reads : pc[r] = "answering" \/ result[r] = "ok" => got[r] \in Bodies

HistoryInv == raced \subseteq Uploads \cup Reads

StorageInv ==
  /\ HistoryInv
  /\ driver # "s3" => FileInv
  /\ driver = "ftp" => CopierInv
  /\ driver = "s3" => ObjectInv

-----------------------------------------------------------------------------
(* The steps of both drivers, as their files show them. *)

\* A call gets its connection, or a client on it; a canceled upload closes its file.
Passes(c, to) == /\ \/ /\ pc[c] \in {"begin", "client"}
                       /\ to \in {"client", IF c \in Uploads THEN "create" ELSE "operate"}
                    \/ c \in Uploads /\ pc[c] \in AtWork /\ to = "closing"
                 /\ Goto(c, to)
                 /\ UNCHANGED <<copied, got, fsVars>>

\* An upload opens its file, for good or for nothing.
Starts(u) == /\ u \in Uploads /\ pc[u] \in {"begin", "create"}
             /\ FsCreate(u)
             /\ Goto(u, "copying") \/ Goto(u, "select")
             /\ UNCHANGED <<copied, got>>

Fumbles(u) == /\ u \in Uploads /\ pc[u] = "create"
              /\ FsCreate(u)
              /\ Returned(u, "error")
              /\ UNCHANGED <<copied, got>>

Copies(u) == /\ u \in Uploads /\ pc[u] \in AtWork /\ copied[u] < SizeOf[u]
             /\ FsWrite(u)
             /\ UNCHANGED <<pc, result, got, dir, handle>>

\* A call returns.
Ends(c, res) ==
  /\ pc[c] # "returned" /\ res \in {"ok", "error", "canceled", "closed"}
  /\ c \in Uploads => res # "closed"
  /\ (c \in Uploads /\ res = "ok") => pc[c] \in AtWork /\ copied[c] = SizeOf[c]
  /\ (c \in Reads /\ res = "ok") => pc[c] = "reading" /\ AtEnd(c)
  /\ Returned(c, res)
  /\ UNCHANGED <<copied, got, fsVars>>

Removes(d, res) == /\ d \in Deletes /\ pc[d] # "returned" /\ res \in {"ok", "error"}
                   /\ FsRemove(NameOf[d])
                   /\ Returned(d, res)
                   /\ UNCHANGED <<copied, got, data, handle>>

Opens(r) == /\ r \in Reads /\ pc[r] \in {"begin", "operate"} /\ Exists(NameOf[r])
            /\ FsOpen(r)
            /\ Goto(r, "reading") \/ Returned(r, "closed")
            /\ UNCHANGED <<copied, got, dir, data>>

ReadsOn(r) == /\ r \in Reads /\ pc[r] = "reading"
              /\ FsRead(r)
              /\ UNCHANGED <<pc, result, copied, fsVars>>

FileStep ==
  \/ \E c \in Calls : \/ \E to \in {"client", "create", "operate", "closing"} : Passes(c, to)
                      \/ \E res \in {"ok", "error", "canceled", "closed"} : Ends(c, res)
  \/ \E u \in Uploads : Starts(u) \/ Fumbles(u) \/ Copies(u)
  \/ \E d \in Deletes : \E res \in {"ok", "error"} : Removes(d, res)
  \/ \E r \in Reads : Opens(r) \/ ReadsOn(r)
  \/ UNCHANGED <<callVars, fsVars>>

LEMMA CallFacts ==
  /\ \A c \in Calls : NameOf[c] \in Names
  /\ Uploads \subseteq Calls /\ Deletes \subseteq Calls /\ Reads \subseteq Calls
  /\ \A c \in Calls : c \in Uploads \/ c \in Deletes \/ c \in Reads
  /\ \A u \in Uploads : u \notin Deletes /\ u \notin Reads /\ SizeOf[u] \in Nat
  /\ \A d \in Deletes : d \notin Reads
  /\ Absent \notin Uploads /\ Absent \notin Seq(Uploads)
  /\ Absent \notin {"ok", "error", "canceled", "closed"}
  BY CallsAssumption DEF Calls

LEMMA LocalFileStep ==
  ASSUME PlacesInv, Local!Next
  PROVE  FileStep
<1> PICK c \in Calls : Local!Serve(c)
  BY DEF Local!Next, Local!Calls, Calls
<1> USE CallFacts
<1>1. CASE Local!Create(c)
  BY <1>1 DEF Local!Create, FileStep, Starts, Ends, Local!FsCreate, FsCreate, Local!Exists, Exists,
              Local!Goto, Goto, Local!Returned, Returned, Local!fsVars, fsVars
<1>2. CASE Local!CopyChunk(c)
  BY <1>2 DEF Local!CopyChunk, FileStep, Copies, Local!FsWrite, FsWrite, AtWork
<1>3. CASE Local!CopyEnd(c)
  BY <1>3 DEF Local!CopyEnd, FileStep, Ends, Local!Returned, Returned, Local!fsVars, fsVars, AtWork
<1>4. CASE Local!Delete(c)
  BY <1>4 DEF Local!Delete, FileStep, Ends, Removes, Local!FsRemove, FsRemove,
              Local!Returned, Returned, Local!fsVars, fsVars
<1>5. CASE Local!Open(c)
  BY <1>5 DEF Local!Open, FileStep, Ends, Opens, Local!FsOpen, FsOpen, Local!Exists, Exists,
              Local!Goto, Goto, Local!Returned, Returned, Local!fsVars, fsVars
<1>6. CASE c \in Reads /\ Local!ReadChunk(c)
  BY <1>6 DEF Local!ReadChunk, FileStep, ReadsOn, Local!FsRead, FsRead, Local!fsVars, fsVars
<1>7. CASE c \in Reads /\ Local!ReadEnd(c)
  BY <1>7 DEF Local!ReadEnd, FileStep, Ends, Local!AtEnd, AtEnd, Local!Returned, Returned,
              Local!fsVars, fsVars
<1>8. QED
  BY <1>1, <1>2, <1>3, <1>4, <1>5, <1>6, <1>7 DEF Local!Serve

LEMMA FtpFileStep ==
  ASSUME CallInv, PlacesInv, CopierInv, Ftp!Next
  PROVE  FileStep
<1> USE CallFacts
<1>1. ASSUME NEW c \in Calls, Ftp!Dial(c) \/ Ftp!NewClient(c) PROVE FileStep
  BY <1>1 DEF Ftp!Dial, Ftp!NewClient, FileStep, Passes, Ends, Ftp!Goto, Goto, Ftp!Return,
              Ftp!Returned, Returned, Ftp!fsVars, fsVars
<1>2. ASSUME NEW u \in Uploads, Ftp!Create(u) PROVE FileStep
  BY <1>2 DEF Ftp!Create, FileStep, Starts, Fumbles, Ends, Ftp!FsCreate, FsCreate,
              Ftp!Exists, Exists, Ftp!Goto, Goto, Ftp!Return, Ftp!Returned, Returned,
              Ftp!fsVars, fsVars
<1>3. ASSUME NEW u \in Uploads, Ftp!SelectCopied(u) PROVE FileStep
  <2>1. ch[u] \in {"ok", "error"} /\ pc[u] = "select" /\ (ch[u] = "ok" => copied[u] = SizeOf[u])
    BY <1>3 DEF Ftp!SelectCopied, CallInv, CopierInv
  <2>2. PICK res \in {"ok", "error"} : res = ch[u]
    BY <2>1
  <2>3. Ends(u, res)
    BY <1>3, <2>1, <2>2 DEF Ftp!SelectCopied, Ends, AtWork, Ftp!Return, Ftp!Returned, Returned,
                            Ftp!fsVars, fsVars
  <2> QED
    BY <2>3 DEF FileStep
<1>4. ASSUME NEW u \in Uploads, Ftp!SelectDone(u) \/ Ftp!CloseCanceled(u) PROVE FileStep
  BY <1>4 DEF Ftp!SelectDone, Ftp!CloseCanceled, FileStep, Passes, Ends, AtWork, Ftp!Goto, Goto,
              Ftp!Return, Ftp!Returned, Returned, Ftp!fsVars, fsVars
<1>5. ASSUME NEW c \in Calls, Ftp!Delete(c) PROVE FileStep
  BY <1>5 DEF Ftp!Delete, FileStep, Ends, Removes, Ftp!FsRemove, FsRemove,
              Ftp!Return, Ftp!Returned, Returned, Ftp!fsVars, fsVars
<1>6. ASSUME NEW c \in Calls, Ftp!Open(c) PROVE FileStep
  BY <1>6 DEF Ftp!Open, FileStep, Ends, Opens, Ftp!FsOpen, FsOpen, Ftp!Exists, Exists,
              Ftp!Goto, Goto, Ftp!Return, Ftp!Returned, Returned, Ftp!fsVars, fsVars
<1>7. ASSUME NEW u \in Uploads, Ftp!CopyChunk(u) PROVE FileStep
  <2>1. pc[u] \in AtWork
    BY <1>7 DEF Ftp!CopyChunk, CallInv, PlacesInv, CopierInv
  <2> QED
    BY <1>7, <2>1 DEF Ftp!CopyChunk, FileStep, Copies, Ftp!FsWrite, FsWrite
<1>8. ASSUME NEW u \in Uploads, Ftp!CopyEnd(u) \/ Ftp!Send(u) \/ Ftp!Cancel(u) PROVE FileStep
  BY <1>8 DEF Ftp!CopyEnd, Ftp!Send, Ftp!Cancel, FileStep, Ftp!callVars, callVars,
              Ftp!fsVars, fsVars
<1>9. ASSUME NEW r \in Reads, Ftp!ReadChunk(r) PROVE FileStep
  BY <1>9 DEF Ftp!ReadChunk, FileStep, ReadsOn, Ftp!FsRead, FsRead, Ftp!fsVars, fsVars
<1>10. ASSUME NEW r \in Reads, Ftp!Close(r) PROVE FileStep
  BY <1>10 DEF Ftp!Close, FileStep, Ends, Ftp!AtEnd, AtEnd, Ftp!Return, Ftp!Returned, Returned,
               Ftp!fsVars, fsVars
<1>11. QED
  BY <1>1, <1>2, <1>3, <1>4, <1>5, <1>6, <1>7, <1>8, <1>9, <1>10
     DEF Ftp!Next, Ftp!Serve, Ftp!Calls, Calls

\* What CopierInv says is kept by every step of the SFTP driver.
LEMMA CopierStep ==
  ASSUME CallInv, PlacesInv, CopierInv, Ftp!Next
  PROVE  CopierInv'
<1> USE CallFacts DEF CallInv, PlacesInv, CopierInv, Ftp!Goto, Ftp!Returned, Ftp!Return,
                      Ftp!callVars, Ftp!fsVars, Ftp!sftpVars
<1>1. ASSUME NEW c \in Calls, Ftp!Dial(c) \/ Ftp!NewClient(c) PROVE CopierInv'
  BY <1>1 DEF Ftp!Dial, Ftp!NewClient
<1>2. ASSUME NEW u \in Uploads, Ftp!Create(u) PROVE CopierInv'
  BY <1>2 DEF Ftp!Create
<1>3. ASSUME NEW u \in Uploads, Ftp!SelectCopied(u) PROVE CopierInv'
  BY <1>3 DEF Ftp!SelectCopied
<1>4. ASSUME NEW u \in Uploads, Ftp!SelectDone(u) \/ Ftp!CloseCanceled(u) PROVE CopierInv'
  BY <1>4 DEF Ftp!SelectDone, Ftp!CloseCanceled, AtWork
<1>5. ASSUME NEW c \in Calls, Ftp!Delete(c) PROVE CopierInv'
  BY <1>5 DEF Ftp!Delete
<1>6. ASSUME NEW c \in Calls, Ftp!Open(c) PROVE CopierInv'
  BY <1>6 DEF Ftp!Open
<1>7. ASSUME NEW u \in Uploads, Ftp!CopyChunk(u) PROVE CopierInv'
  BY <1>7 DEF Ftp!CopyChunk, Ftp!FsWrite
<1>8. ASSUME NEW u \in Uploads, Ftp!CopyEnd(u) \/ Ftp!Send(u) \/ Ftp!Cancel(u) PROVE CopierInv'
  BY <1>8 DEF Ftp!CopyEnd, Ftp!Send, Ftp!Cancel
<1>9. ASSUME NEW r \in Reads, Ftp!ReadChunk(r) \/ Ftp!Close(r) PROVE CopierInv'
  BY <1>9 DEF Ftp!ReadChunk, Ftp!Close
<1>10. QED
  BY <1>1, <1>2, <1>3, <1>4, <1>5, <1>6, <1>7, <1>8, <1>9 DEF Ftp!Next, Ftp!Serve, Ftp!Calls, Calls

-----------------------------------------------------------------------------
(* The history that a step writes. *)

Chronicle ==
  /\ raced' = raced \cup {c \in Writing' \cup Reading' : Disturbed(c)}
  /\ last' = [n \in Names |-> IF \E u \in Uploads : NameOf[u] = n /\ Begins(u)
                              THEN CHOOSE u \in Uploads : NameOf[u] = n /\ Begins(u)
                              ELSE last[n]]

\* What is under a name, behind the two drivers that have a file system.
Held(n) == IF dir[n] # Absent THEN data[dir[n]] ELSE Absent

LEMMA HoldsIsHeld ==
  ASSUME driver # "s3", driver' = driver, NEW n
  PROVE  Holds(n) = Held(n) /\ Holds(n)' = Held(n)'
  BY DEF Holds, Held, Exists

LEMMA RacedGrows == ASSUME Chronicle PROVE raced \subseteq raced'
  BY DEF Chronicle

LEMMA RacedTypes ==
  ASSUME Chronicle, HistoryInv
  PROVE  HistoryInv'
  BY DEF Chronicle, HistoryInv, Writing, Reading

LEMMA Meets ==
  ASSUME Chronicle, NEW c, c \in Writing' \cup Reading',
         NEW u, u \in Writing' \/ (u \in Uploads /\ Begins(u)), u # c, NameOf[u] = NameOf[c]
  PROVE  c \in raced'
  BY DEF Chronicle, Disturbed

LEMMA MeetsRemoval ==
  ASSUME Chronicle, NEW u \in Uploads, u \in Writing',
         Holds(NameOf[u]) # Absent, Holds(NameOf[u])' = Absent
  PROVE  u \in raced'
  BY DEF Chronicle, Disturbed

LEMMA NoneBegins ==
  ASSUME Chronicle, last \in [Names -> Uploads \cup {Absent}], \A u \in Uploads : ~Begins(u)
  PROVE  last' = last
  BY DEF Chronicle

LEMMA OneBegins ==
  ASSUME Chronicle, NEW u \in Uploads, Begins(u), \A v \in Uploads : Begins(v) => v = u
  PROVE  last' = [n \in Names |-> IF n = NameOf[u] THEN u ELSE last[n]]
<1>1. ASSUME NEW n \in Names, n # NameOf[u]
      PROVE  ~\E v \in Uploads : NameOf[v] = n /\ Begins(v)
  BY <1>1
<1>2. (CHOOSE v \in Uploads : NameOf[v] = NameOf[u] /\ Begins(v)) = u
  <2>1. PICK w : w = CHOOSE v \in Uploads : NameOf[v] = NameOf[u] /\ Begins(v)
    OBVIOUS
  <2>2. w \in Uploads /\ Begins(w)
    BY <2>1
  <2> QED
    BY <2>1, <2>2
<1>3. ASSUME NEW n \in Names
      PROVE  (IF \E v \in Uploads : NameOf[v] = n /\ Begins(v)
              THEN CHOOSE v \in Uploads : NameOf[v] = n /\ Begins(v)
              ELSE last[n]) = (IF n = NameOf[u] THEN u ELSE last[n])
  <2>1. CASE n = NameOf[u]
    BY <1>2, <2>1
  <2>2. CASE n # NameOf[u]
    BY <1>1, <2>2
  <2> QED
    BY <2>1, <2>2
<1> QED
  BY <1>3 DEF Chronicle

\* Nobody begins in a step in which the files and the uploads that do not write
\* stay as they are.
LEMMA QuietStep ==
  ASSUME driver # "s3", driver' = driver, Chronicle, last \in [Names -> Uploads \cup {Absent}],
         \A n \in Names : Held(n)' = Held(n), Writing' \subseteq Writing
  PROVE  last' = last
<1>1. ASSUME NEW u \in Uploads PROVE ~Begins(u)
  <2>1. NameOf[u] \in Names
    BY CallFacts
  <2>2. Holds(NameOf[u])' = Holds(NameOf[u])
    BY <2>1, HoldsIsHeld
  <2> QED
    BY <2>2 DEF Begins
<1> QED
  BY <1>1, NoneBegins

\* An excuse stays one.
LEMMA ExcusedStays ==
  ASSUME PlacesInv, raced \subseteq raced', NEW n, Excused(n),
         \A u \in Uploads : pc[u] = "returned" => result'[u] = result[u]
  PROVE  Excused(n)'
<1>1. PICK u \in Uploads : NameOf[u] = n /\ (u \in raced \/ result[u] \in {"error", "canceled"})
  BY DEF Excused
<1>2. result[u] \in {"error", "canceled"} => result'[u] = result[u]
  BY CallFacts DEF PlacesInv
<1> QED
  BY <1>1, <1>2 DEF Excused

\* The calls of the file drivers that write or read.
LEMMA Busy ==
  ASSUME PlacesInv
  PROVE  /\ Writing = {u \in Uploads : pc[u] \in AtWork}
         /\ Reading = {r \in Reads : pc[r] = "reading"}
  BY DEF PlacesInv, Writing, Reading, AtWork

LEMMA BusyNext ==
  ASSUME PlacesInv'
  PROVE  /\ Writing' = {u \in Uploads : pc'[u] \in AtWork}
         /\ Reading' = {r \in Reads : pc'[r] = "reading"}
  BY DEF PlacesInv, Writing, Reading, AtWork

LEMMA SameReaders ==
  ASSUME PlacesInv, PlacesInv', \A r \in Reads : pc'[r] = "reading" <=> pc[r] = "reading"
  PROVE  Reading' = Reading
<1>1. Reading = {r \in Reads : pc[r] = "reading"} /\ Reading' = {r \in Reads : pc'[r] = "reading"}
  BY Busy, BusyNext
<1> QED
  BY <1>1

LEMMA SameWriters ==
  ASSUME PlacesInv, PlacesInv',
         \A u \in Uploads : pc'[u] \in AtWork <=> pc[u] \in AtWork
  PROVE  Writing' = Writing
<1>1. /\ Writing = {u \in Uploads : pc[u] \in AtWork}
      /\ Writing' = {u \in Uploads : pc'[u] \in AtWork}
  BY Busy, BusyNext
<1> QED
  BY <1>1

-----------------------------------------------------------------------------
(* A file being written. *)

LEMMA BodyFacts ==
  ASSUME NEW u \in Uploads, NEW k \in Nat
  PROVE  /\ [j \in 1..k |-> u] \in Seq(Uploads) /\ [j \in 1..k |-> u] \in Contents
         /\ Len([j \in 1..k |-> u]) = k
         /\ [j \in 1..k |-> u] # Absent
  BY CallFacts DEF Contents, Chunk

LEMMA WriteType ==
  ASSUME NEW u \in Uploads, NEW old \in Contents, NEW k \in Nat, NEW len \in Nat
  PROVE  [j \in 1..len |-> IF j = k THEN u ELSE IF j <= Len(old) THEN old[j] ELSE Absent] \in Contents
<1>1. ASSUME NEW j \in 1..len
      PROVE  (IF j = k THEN u ELSE IF j <= Len(old) THEN old[j] ELSE Absent) \in Chunk
  BY DEF Contents, Chunk
<1> QED
  BY <1>1 DEF Contents

\* A chunk after its own ones.
LEMMA WriteOwn ==
  ASSUME NEW u \in Uploads, NEW c \in Nat, NEW old, old = [j \in 1..c |-> u]
  PROVE  [j \in 1..(IF c + 1 > Len(old) THEN c + 1 ELSE Len(old)) |->
            IF j = c + 1 THEN u ELSE IF j <= Len(old) THEN old[j] ELSE Absent]
           = [j \in 1..(c + 1) |-> u]
<1>1. Len(old) = c
  BY BodyFacts
<1>2. (IF c + 1 > Len(old) THEN c + 1 ELSE Len(old)) = c + 1
  BY <1>1
<1>3. ASSUME NEW j \in 1..(c + 1)
      PROVE  (IF j = c + 1 THEN u ELSE IF j <= Len(old) THEN old[j] ELSE Absent) = u
  BY <1>1
<1> QED
  BY <1>2, <1>3

-----------------------------------------------------------------------------
(* The types, step by step. *)

LEMMA PlacesStep ==
  ASSUME HandlesInv, PlacesInv, FileStep
  PROVE  PlacesInv'
<1> USE CallFacts DEF Goto, Returned
<1>1. ASSUME NEW c \in Calls, NEW to, Passes(c, to) PROVE PlacesInv'
  BY <1>1 DEF Passes, PlacesInv, AtWork
<1>2. ASSUME NEW c \in Calls, NEW res, Ends(c, res) PROVE PlacesInv'
  BY <1>2 DEF Ends, PlacesInv
<1>3. ASSUME NEW u \in Uploads, Starts(u) PROVE PlacesInv'
  BY <1>3 DEF Starts, PlacesInv, AtWork
<1>4. ASSUME NEW u \in Uploads, Fumbles(u) PROVE PlacesInv'
  BY <1>4 DEF Fumbles, PlacesInv
<1>5. ASSUME NEW u \in Uploads, Copies(u) PROVE PlacesInv'
  <2>1. /\ pc' = pc /\ result' = result /\ got' = got
        /\ copied' = [copied EXCEPT ![u] = copied[u] + 1]
        /\ pc[u] \in AtWork /\ copied[u] < SizeOf[u]
    BY <1>5 DEF Copies, FsWrite
  <2> QED
    BY <2>1 DEF PlacesInv, AtWork
<1>6. ASSUME NEW d \in Deletes, NEW res \in {"ok", "error"}, Removes(d, res) PROVE PlacesInv'
  BY <1>6 DEF Removes, PlacesInv
<1>7. ASSUME NEW r \in Reads, Opens(r) PROVE PlacesInv'
  BY <1>7 DEF Opens, PlacesInv
<1>8. ASSUME NEW r \in Reads, ReadsOn(r) PROVE PlacesInv'
  <2>1. PICK text : text = data[handle[r]]
    OBVIOUS
  <2>2. text \in Contents /\ got[r] \in Contents
    BY <1>8, <2>1 DEF ReadsOn, HandlesInv, PlacesInv
  <2>3. PICK k : k = Len(got[r]) + 1
    OBVIOUS
  <2>4. k \in 1..Len(text) /\ text[k] \in Chunk
    BY <1>8, <2>1, <2>2, <2>3 DEF ReadsOn, FsRead, Contents
  <2>5. Append(got[r], text[k]) \in Contents
    BY <2>2, <2>4 DEF Contents
  <2>6. got' = [got EXCEPT ![r] = Append(got[r], text[k])] /\ UNCHANGED <<pc, result, copied>>
    BY <1>8, <2>1, <2>3 DEF ReadsOn, FsRead
  <2>7. pc[r] = "reading"
    BY <1>8 DEF ReadsOn
  <2> QED
    BY <2>5, <2>6, <2>7 DEF PlacesInv
<1>9. CASE UNCHANGED <<callVars, fsVars>>
  BY <1>9 DEF callVars, PlacesInv
<1>10. QED
  BY <1>1, <1>2, <1>3, <1>4, <1>5, <1>6, <1>7, <1>8, <1>9 DEF FileStep

\* What opening a file for an upload does.
LEMMA CreateFacts ==
  ASSUME HandlesInv, NEW u \in Uploads, FsCreate(u)
  PROVE  \E f \in Uploads :
           /\ f = (IF dir[NameOf[u]] # Absent THEN dir[NameOf[u]] ELSE u)
           /\ NameOf[f] = NameOf[u]
           /\ dir' = [dir EXCEPT ![NameOf[u]] = f]
           /\ handle' = [handle EXCEPT ![u] = f]
           /\ data' = [data EXCEPT ![f] = << >>]
<1>1. PICK f : f = (IF dir[NameOf[u]] # Absent THEN dir[NameOf[u]] ELSE u)
  OBVIOUS
<1>2. NameOf[u] \in Names
  BY CallFacts
<1>3. f \in Uploads /\ NameOf[f] = NameOf[u]
  BY <1>1, <1>2 DEF HandlesInv
<1>4. /\ dir' = [dir EXCEPT ![NameOf[u]] = f] /\ handle' = [handle EXCEPT ![u] = f]
      /\ data' = [data EXCEPT ![f] = << >>]
  BY <1>1 DEF FsCreate, Exists
<1> QED
  BY <1>1, <1>3, <1>4

LEMMA HandlesCreate ==
  ASSUME HandlesInv, NEW u \in Uploads, FsCreate(u), PlacesInv,
         \A c \in Calls : c # u => pc'[c] = pc[c]
  PROVE  HandlesInv'
<1>1. PICK f \in Uploads : /\ NameOf[f] = NameOf[u]
                           /\ dir' = [dir EXCEPT ![NameOf[u]] = f]
                           /\ handle' = [handle EXCEPT ![u] = f]
                           /\ data' = [data EXCEPT ![f] = << >>]
  BY CreateFacts
<1>2. << >> \in Contents
  BY DEF Contents
<1> QED
  BY <1>1, <1>2, CallFacts DEF HandlesInv

LEMMA HandlesStep ==
  ASSUME HandlesInv, PlacesInv, FileStep
  PROVE  HandlesInv'
<1> USE CallFacts DEF Goto, Returned
<1>1. ASSUME NEW c \in Calls, NEW to, Passes(c, to) PROVE HandlesInv'
  BY <1>1 DEF Passes, HandlesInv, PlacesInv, AtWork, fsVars
<1>2. ASSUME NEW c \in Calls, NEW res, Ends(c, res) PROVE HandlesInv'
  BY <1>2 DEF Ends, HandlesInv, PlacesInv, fsVars, AtWork
<1>3. ASSUME NEW u \in Uploads, Starts(u) PROVE HandlesInv'
  <2>1. FsCreate(u) /\ \A c \in Calls : c # u => pc'[c] = pc[c]
    BY <1>3 DEF Starts, PlacesInv
  <2> QED
    BY <2>1, HandlesCreate
<1>4. ASSUME NEW u \in Uploads, Fumbles(u) PROVE HandlesInv'
  <2>1. FsCreate(u) /\ \A c \in Calls : c # u => pc'[c] = pc[c]
    BY <1>4 DEF Fumbles, PlacesInv
  <2> QED
    BY <2>1, HandlesCreate
<1>5. ASSUME NEW u \in Uploads, Copies(u) PROVE HandlesInv'
  <2>1. PICK f : f = handle[u]
    OBVIOUS
  <2>2. PICK k \in Nat : k = copied[u] + 1
    BY DEF PlacesInv
  <2>3. f \in Uploads /\ data[f] \in Contents
    BY <1>5, <2>1 DEF Copies, HandlesInv
  <2>4. PICK old \in Contents : old = data[f]
    BY <2>3
  <2>5. PICK len \in Nat : len = IF k > Len(old) THEN k ELSE Len(old)
    BY <2>4 DEF Contents
  <2>6. PICK new \in Contents :
          new = [j \in 1..len |-> IF j = k THEN u ELSE IF j <= Len(old) THEN old[j] ELSE Absent]
    BY <2>4, <2>5, WriteType
  <2>7. data' = [data EXCEPT ![f] = new] /\ UNCHANGED <<pc, dir, handle>>
    BY <1>5, <2>1, <2>2, <2>4, <2>5, <2>6 DEF Copies, FsWrite
  <2> QED
    BY <2>3, <2>7 DEF HandlesInv
<1>6. ASSUME NEW d \in Deletes, NEW res \in {"ok", "error"}, Removes(d, res) PROVE HandlesInv'
  BY <1>6 DEF Removes, FsRemove, HandlesInv, PlacesInv
<1>7. ASSUME NEW r \in Reads, Opens(r) PROVE HandlesInv'
  <2>1. PICK f \in Uploads : f = dir[NameOf[r]] /\ NameOf[f] = NameOf[r]
    BY <1>7 DEF Opens, Exists, HandlesInv
  <2>2. handle' = [handle EXCEPT ![r] = f] /\ dir' = dir /\ data' = data
    BY <1>7, <2>1 DEF Opens, FsOpen
  <2>3. \A c \in Calls : c # r => pc'[c] = pc[c]
    BY <1>7 DEF Opens, PlacesInv
  <2> QED
    BY <2>1, <2>2, <2>3 DEF HandlesInv
<1>8. ASSUME NEW r \in Reads, ReadsOn(r) PROVE HandlesInv'
  BY <1>8 DEF ReadsOn, fsVars, HandlesInv
<1>9. CASE UNCHANGED <<callVars, fsVars>>
  BY <1>9 DEF callVars, fsVars, HandlesInv
<1>10. QED
  BY <1>1, <1>2, <1>3, <1>4, <1>5, <1>6, <1>7, <1>8, <1>9 DEF FileStep

LEMMA SameText ==
  ASSUME NEW s \in Contents, NEW t \in Contents, Len(s) <= Len(t), Len(s) >= Len(t),
         \A k \in 1..Len(s) : s[k] = t[k]
  PROVE  s = t
<1>1. Len(s) = Len(t) /\ Len(s) \in Nat
  BY DEF Contents
<1> QED
  BY <1>1 DEF Contents

LEMMA AppendFacts ==
  ASSUME NEW s \in Contents, NEW e
  PROVE  /\ Len(Append(s, e)) = Len(s) + 1
         /\ \A j \in 1..Len(s) : Append(s, e)[j] = s[j]
         /\ Append(s, e)[Len(s) + 1] = e
  BY DEF Contents
-----------------------------------------------------------------------------
(* Writers, last writers and readers, step by step. *)

Context == /\ FileInv /\ HistoryInv /\ PlacesInv' /\ HandlesInv'
           /\ driver # "s3" /\ driver' = driver /\ Chronicle

\* Steps that touch no file and after which nobody writes who did not.
LEMMA UntouchedFacts ==
  ASSUME Context, UNCHANGED fsVars, Writing' \subseteq Writing
  PROVE  /\ dir' = dir /\ data' = data /\ handle' = handle
         /\ last' = last /\ raced \subseteq raced'
<1>1. dir' = dir /\ data' = data /\ handle' = handle
  BY DEF fsVars
<1>2. \A n \in Names : Held(n)' = Held(n)
  BY <1>1 DEF Held
<1> QED
  BY <1>1, <1>2, QuietStep, RacedGrows DEF Context, FileInv, LastInv

LEMMA IdleKeeps ==
  ASSUME Context, UNCHANGED <<callVars, fsVars>>
  PROVE  WriterInv' /\ LastInv' /\ ReaderInv'
<1>1. pc' = pc /\ result' = result /\ copied' = copied /\ got' = got
  BY DEF callVars
<1>2. Writing' = Writing
  BY <1>1 DEF Writing
<1>3. /\ dir' = dir /\ data' = data /\ handle' = handle
      /\ last' = last /\ raced \subseteq raced'
  BY <1>2, UntouchedFacts
<1>4. \A n : Excused(n) => Excused(n)'
  BY <1>1, <1>3, ExcusedStays DEF Context, FileInv
<1> USE DEF Context, FileInv
<1>5. WriterInv'
  BY <1>1, <1>2, <1>3 DEF WriterInv
<1>6. LastInv'
  BY <1>1, <1>2, <1>3 DEF LastInv, Body
<1>7. ReaderInv'
  BY <1>1, <1>2, <1>3, <1>4 DEF ReaderInv, Bodies, Body
<1> QED
  BY <1>5, <1>6, <1>7

LEMMA PassesKeeps ==
  ASSUME Context, NEW c \in Calls, NEW to, Passes(c, to)
  PROVE  WriterInv' /\ LastInv' /\ ReaderInv'
<1> USE DEF Context, FileInv
<1>1. /\ pc' = [pc EXCEPT ![c] = to] /\ result' = result /\ copied' = copied /\ got' = got
      /\ UNCHANGED fsVars
  BY DEF Passes, Goto
<1>2. /\ pc'[c] \in AtWork <=> pc[c] \in AtWork
      /\ pc[c] \notin {"reading", "returned"} /\ to \notin {"reading", "returned"}
      /\ pc'[c] = to /\ \A u \in Calls : u # c => pc'[u] = pc[u]
  BY <1>1 DEF Passes, PlacesInv, AtWork
<1>3. Writing' = Writing /\ Reading' = Reading
  BY <1>2, SameWriters, SameReaders, CallFacts
<1>4. /\ dir' = dir /\ data' = data /\ handle' = handle
      /\ last' = last /\ raced \subseteq raced'
  BY <1>1, <1>3, UntouchedFacts
<1>5. \A n : Excused(n) => Excused(n)'
  BY <1>1, <1>4, ExcusedStays
<1>6. WriterInv'
  BY <1>1, <1>3, <1>4 DEF WriterInv
<1>7. LastInv'
  <2>1. ASSUME NEW n \in Names, last[n] # Absent PROVE pc'[last[n]] \in AtWork \cup {"returned"}
    <3>1. PICK u \in Uploads : u = last[n] /\ pc[u] \in AtWork \cup {"returned"}
      BY <2>1 DEF LastInv
    <3> QED
      BY <1>2, <3>1, CallFacts
  <2> QED
    BY <1>1, <1>3, <1>4, <2>1 DEF LastInv, Body
<1>8. ReaderInv'
  <2>1. \A r \in Reads : pc'[r] = "reading" => pc[r] = "reading"
    BY <1>2, CallFacts
  <2> QED
    BY <1>1, <1>3, <1>4, <1>5, <2>1 DEF ReaderInv, Bodies, Body
<1> QED
  BY <1>6, <1>7, <1>8

\* An undisturbed upload that returns without error leaves its body under its name,
\* and an undisturbed read that has reached the end has all of its file.
LEMMA EndsKeeps ==
  ASSUME Context, NEW c \in Calls, NEW res, Ends(c, res)
  PROVE  WriterInv' /\ LastInv' /\ ReaderInv'
<1> USE DEF Context, FileInv
<1>1. /\ pc[c] # "returned" /\ res \in {"ok", "error", "canceled", "closed"}
      /\ (c \in Uploads /\ res = "ok") => c \in Writing /\ copied[c] = SizeOf[c]
      /\ (c \in Reads /\ res = "ok") => pc[c] = "reading" /\ AtEnd(c)
      /\ pc' = [pc EXCEPT ![c] = "returned"] /\ result' = [result EXCEPT ![c] = res]
      /\ copied' = copied /\ got' = got /\ UNCHANGED fsVars
  BY DEF Ends, Returned, Writing, AtWork
<1>2. Writing' = Writing \ {c} /\ Reading' = Reading \ {c}
  BY <1>1, Busy, BusyNext, CallFacts DEF PlacesInv, AtWork
<1>3. /\ dir' = dir /\ data' = data /\ handle' = handle
      /\ last' = last /\ raced \subseteq raced'
  BY <1>1, <1>2, UntouchedFacts
<1>4. \A u \in Calls : u # c => pc'[u] = pc[u] /\ result'[u] = result[u]
  BY <1>1 DEF PlacesInv
<1>5. pc'[c] = "returned" /\ result'[c] = res
  BY <1>1 DEF PlacesInv
<1>6. \A n : Excused(n) => Excused(n)'
  BY <1>1, <1>3, <1>4, CallFacts, ExcusedStays
<1>7. WriterInv'
  BY <1>1, <1>2, <1>3 DEF WriterInv
<1>8. LastInv'
  <2>1. last' \in [Names -> Uploads \cup {Absent}]
        /\ \A n \in Names : dir'[n] # Absent => last'[n] # Absent
    BY <1>3 DEF LastInv
  <2>2. ASSUME NEW n \in Names, last[n] # Absent
        PROVE  NameOf[last[n]] = n /\ pc'[last[n]] \in AtWork \cup {"returned"}
    BY <1>4, <1>5, <2>2, CallFacts DEF LastInv
  <2>3. ASSUME NEW n \in Names, last[n] # Absent, last[n] \notin raced', result'[last[n]] = "ok"
        PROVE  /\ \A v \in Writing' : NameOf[v] # n
               /\ dir[n] # Absent => data[dir[n]] = Body(last[n])
    <3>1. PICK u \in Uploads : u = last[n] /\ NameOf[u] = n /\ u \notin raced
      BY <1>3, <2>3 DEF LastInv
    <3>2. CASE u = c
      <4>1. u \in Writing /\ copied[u] = SizeOf[u]
        BY <1>1, <1>5, <2>3, <3>1, <3>2
      <4>2. /\ dir[n] = handle[u] /\ data[handle[u]] = [k \in 1..copied[u] |-> u]
            /\ \A v \in Writing : NameOf[v] = n => v = u
        BY <3>1, <4>1 DEF WriterInv
      <4> QED
        BY <1>2, <3>1, <3>2, <4>1, <4>2 DEF Body
    <3>3. CASE u # c
      <4>1. result[u] = "ok"
        BY <1>4, <2>3, <3>1, <3>3, CallFacts
      <4> QED
        BY <1>2, <2>3, <3>1, <4>1 DEF LastInv
    <3> QED
      BY <3>2, <3>3
  <2> QED
    BY <1>3, <2>1, <2>2, <2>3 DEF LastInv, Body
<1>9. ReaderInv'
  <2>1. ASSUME NEW r \in Reads, pc'[r] = "reading", r \notin raced'
        PROVE  /\ \A v \in Writing' : NameOf[v] # NameOf[r]
               /\ Len(got[r]) <= Len(data[handle[r]])
               /\ \A k \in 1..Len(got[r]) : got[r][k] = data[handle[r]][k]
               /\ data[handle[r]] \in Bodies \/ Excused(NameOf[r])'
    <3>1. pc[r] = "reading" /\ r \notin raced
      BY <1>3, <1>4, <1>5, <2>1, CallFacts
    <3> QED
      BY <1>2, <1>6, <3>1 DEF ReaderInv
  <2>2. ASSUME NEW r \in Reads, result'[r] = "ok", r \notin raced'
        PROVE  got[r] \in Bodies \/ Excused(NameOf[r])'
    <3>1. r \notin raced
      BY <1>3, <2>2
    <3>2. CASE r # c
      <4>1. result[r] = "ok"
        BY <1>4, <2>2, <3>2, CallFacts
      <4> QED
        BY <1>6, <3>1, <4>1 DEF ReaderInv
    <3>3. CASE r = c
      <4>1. pc[r] = "reading" /\ AtEnd(r)
        BY <1>1, <1>5, <2>2, <3>3
      <4>2. PICK text : text = data[handle[r]]
        OBVIOUS
      <4>3. text \in Contents /\ got[r] \in Contents
        BY <4>1, <4>2 DEF HandlesInv, PlacesInv
      <4>4. /\ Len(got[r]) <= Len(text) /\ Len(got[r]) >= Len(text)
            /\ \A k \in 1..Len(got[r]) : got[r][k] = text[k]
            /\ text \in Bodies \/ Excused(NameOf[r])
        BY <3>1, <4>1, <4>2 DEF ReaderInv, AtEnd
      <4>5. got[r] = text
        BY <4>3, <4>4, SameText
      <4> QED
        BY <1>6, <4>4, <4>5
    <3> QED
      BY <3>2, <3>3
  <2> QED
    BY <1>1, <1>3, <2>1, <2>2 DEF ReaderInv, Bodies, Body
<1> QED
  BY <1>7, <1>8, <1>9

LEMMA ReadsOnKeeps ==
  ASSUME Context, NEW r \in Reads, ReadsOn(r)
  PROVE  WriterInv' /\ LastInv' /\ ReaderInv'
<1> USE DEF Context, FileInv
<1>1. /\ pc[r] = "reading" /\ pc' = pc /\ result' = result /\ copied' = copied
      /\ UNCHANGED fsVars
  BY DEF ReadsOn
<1>2. Writing' = Writing /\ Reading' = Reading
  BY <1>1 DEF Writing, Reading
<1>3. /\ dir' = dir /\ data' = data /\ handle' = handle
      /\ last' = last /\ raced \subseteq raced'
  BY <1>1, <1>2, UntouchedFacts
<1>4. \A n : Excused(n) => Excused(n)'
  BY <1>1, <1>3, ExcusedStays
<1>5. WriterInv'
  BY <1>1, <1>2, <1>3 DEF WriterInv
<1>6. LastInv'
  BY <1>1, <1>2, <1>3 DEF LastInv, Body
<1>7. PICK text : text = data[handle[r]]
  OBVIOUS
<1>8. text \in Contents /\ got[r] \in Contents
  BY <1>1, <1>7 DEF HandlesInv, PlacesInv
<1>9. PICK k \in Nat : k = Len(got[r])
  BY <1>8 DEF Contents
<1>10. k + 1 <= Len(text) /\ got' = [got EXCEPT ![r] = Append(got[r], text[k + 1])]
  BY <1>7, <1>9 DEF ReadsOn, FsRead
<1>11. /\ Len(Append(got[r], text[k + 1])) = k + 1
       /\ \A j \in 1..k : Append(got[r], text[k + 1])[j] = got[r][j]
       /\ Append(got[r], text[k + 1])[k + 1] = text[k + 1]
  BY <1>8, <1>9, AppendFacts
<1>12. PICK longer : longer = Append(got[r], text[k + 1])
  OBVIOUS
<1>13. got' = [got EXCEPT ![r] = longer]
  BY <1>10, <1>12
<1>14. ASSUME NEW q \in Reads, pc[q] = "reading", q \notin raced'
       PROVE  /\ \A v \in Writing : NameOf[v] # NameOf[q]
              /\ Len(got'[q]) <= Len(data[handle[q]])
              /\ \A j \in 1..Len(got'[q]) : got'[q][j] = data[handle[q]][j]
              /\ data[handle[q]] \in Bodies \/ Excused(NameOf[q])'
  <2>1. /\ \A v \in Writing : NameOf[v] # NameOf[q]
        /\ Len(got[q]) <= Len(data[handle[q]])
        /\ \A j \in 1..Len(got[q]) : got[q][j] = data[handle[q]][j]
        /\ data[handle[q]] \in Bodies \/ Excused(NameOf[q])'
    BY <1>3, <1>4, <1>14 DEF ReaderInv
  <2>2. CASE q # r
    <3>1. got'[q] = got[q]
      BY <1>13, <2>2 DEF PlacesInv
    <3> QED
      BY <2>1, <3>1
  <2>3. CASE q = r
    <3>1. got'[q] = longer
      BY <1>13, <2>3 DEF PlacesInv
    <3>2. /\ Len(longer) = k + 1 /\ \A j \in 1..k : longer[j] = got[r][j]
          /\ longer[k + 1] = text[k + 1]
      BY <1>11, <1>12
    <3>3. \A j \in 1..k : got[r][j] = text[j]
      BY <1>7, <1>9, <2>1, <2>3
    <3>4. \A j \in 1..(k + 1) : longer[j] = text[j]
      BY <3>2, <3>3
    <3> QED
      BY <1>7, <1>10, <2>1, <2>3, <3>1, <3>2, <3>4
  <2> QED
    BY <2>2, <2>3
<1>15. ASSUME NEW q \in Reads, result[q] = "ok", q \notin raced'
       PROVE  got'[q] \in Bodies \/ Excused(NameOf[q])'
  <2>1. q # r
    BY <1>1, <1>15, CallFacts DEF PlacesInv
  <2>2. got'[q] = got[q]
    BY <1>13, <2>1 DEF PlacesInv
  <2> QED
    BY <1>3, <1>4, <1>15, <2>2 DEF ReaderInv
<1>16. ReaderInv'
  BY <1>1, <1>2, <1>3, <1>14, <1>15 DEF ReaderInv, Bodies, Body
<1> QED
  BY <1>5, <1>6, <1>16

\* An upload that begins meets whoever writes or reads under its name, and they it.
LEMMA StartsKeeps ==
  ASSUME Context, NEW u \in Uploads, Starts(u)
  PROVE  WriterInv' /\ LastInv' /\ ReaderInv'
<1> USE DEF Context, FileInv
<1>1. PICK to \in {"copying", "select"} : pc' = [pc EXCEPT ![u] = to]
  BY DEF Starts, Goto
<1>2. /\ pc[u] \in {"begin", "create"} /\ result' = result /\ copied' = copied /\ got' = got
      /\ FsCreate(u)
  BY DEF Starts, Goto
<1>3. PICK n \in Names : n = NameOf[u]
  BY CallFacts
<1>4. PICK f \in Uploads : /\ NameOf[f] = n
                           /\ dir' = [dir EXCEPT ![n] = f]
                           /\ handle' = [handle EXCEPT ![u] = f]
                           /\ data' = [data EXCEPT ![f] = << >>]
  BY <1>2, <1>3, CreateFacts
<1>5. u \in Calls /\ u \notin Reads /\ pc'[u] \in AtWork
      /\ \A c \in Calls : c # u => pc'[c] = pc[c]
  BY <1>1, CallFacts DEF PlacesInv
<1>6. u \notin Writing /\ Writing' = Writing \cup {u}
  <2>1. /\ Writing = {v \in Uploads : pc[v] \in AtWork}
        /\ Writing' = {v \in Uploads : pc'[v] \in AtWork}
    BY Busy, BusyNext
  <2>2. \A v \in Uploads : v # u => pc'[v] = pc[v]
    BY <1>5, CallFacts
  <2>3. u \notin Writing /\ u \in Writing'
    BY <1>2, <1>5, <2>1 DEF AtWork
  <2>4. \A v : v \in Writing' <=> v \in Writing \/ v = u
    BY <2>1, <2>2, <2>3
  <2> QED
    BY <2>3, <2>4
<1>7. Reading' = Reading
  BY <1>5, CallFacts, SameReaders
<1>8. Begins(u) /\ \A v \in Uploads : Begins(v) => v = u
  <2>1. Begins(u)
    BY <1>2, <1>6 DEF Begins
  <2>2. ASSUME NEW v \in Uploads, v # u PROVE ~Begins(v)
    <3>1. pc'[v] = pc[v]
      BY <1>5, <2>2, CallFacts
    <3> QED
      BY <1>6, <2>2, <3>1 DEF Begins
  <2> QED
    BY <2>1, <2>2
<1>9. last' = [m \in Names |-> IF m = n THEN u ELSE last[m]]
  BY <1>3, <1>8, OneBegins
<1>10. raced \subseteq raced' /\ u \in Writing'
  BY <1>6, RacedGrows
<1>11. \A c \in Writing \cup Reading : NameOf[c] = n => c \in raced'
  <2>1. SUFFICES ASSUME NEW c \in Writing \cup Reading, NameOf[c] = n PROVE c \in raced'
    OBVIOUS
  <2>2. c # u /\ c \in Writing' \cup Reading'
    BY <1>5, <1>6, <1>7 DEF Reading
  <2> QED
    BY <1>3, <1>10, <2>1, <2>2, Meets
<1>12. \A v \in Writing : NameOf[v] = n => u \in raced'
  <2>1. SUFFICES ASSUME NEW v \in Writing, NameOf[v] = n PROVE u \in raced'
    OBVIOUS
  <2> QED
    BY <1>3, <1>6, <2>1, Meets
<1>13. \A m : Excused(m) => Excused(m)'
  BY <1>2, <1>10, ExcusedStays
<1>14. WriterInv'
  <2>1. SUFFICES ASSUME NEW w \in Writing', w \notin raced'
                 PROVE  /\ last'[NameOf[w]] = w
                        /\ dir'[NameOf[w]] = handle'[w]
                        /\ data'[handle'[w]] = [k \in 1..copied'[w] |-> w]
                        /\ \A v \in Writing' : NameOf[v] = NameOf[w] => v = w
    BY DEF WriterInv
  <2>2. CASE w = u
    <3>1. copied'[w] = 0
      BY <1>2, <2>2 DEF PlacesInv
    <3>2. dir'[n] = f /\ handle'[u] = f /\ data'[f] = << >> /\ last'[n] = u
      BY <1>4, <1>9 DEF HandlesInv
    <3>3. [k \in 1..0 |-> w] = << >>
      OBVIOUS
    <3>4. \A v \in Writing' : NameOf[v] = n => v = u
      BY <1>6, <1>12, <2>1, <2>2
    <3> QED
      BY <1>3, <2>2, <3>1, <3>2, <3>3, <3>4
  <2>3. CASE w # u
    <3>1. w \in Writing /\ w \notin raced /\ NameOf[w] # n
      BY <1>6, <1>10, <1>11, <2>1, <2>3
    <3>2. /\ last[NameOf[w]] = w /\ dir[NameOf[w]] = handle[w]
          /\ data[handle[w]] = [k \in 1..copied[w] |-> w]
          /\ \A v \in Writing : NameOf[v] = NameOf[w] => v = w
      BY <3>1 DEF WriterInv
    <3>3. w \in Uploads /\ NameOf[w] \in Names /\ handle[w] # Absent /\ NameOf[handle[w]] = NameOf[w]
          /\ handle[w] \in Uploads
      BY <3>1, Busy, CallFacts DEF HandlesInv
    <3>4. handle'[w] = handle[w] /\ handle[w] # f
      BY <1>4, <2>3, <3>1, <3>3 DEF HandlesInv
    <3>5. data'[handle[w]] = data[handle[w]] /\ dir'[NameOf[w]] = dir[NameOf[w]]
      BY <1>4, <3>1, <3>3, <3>4 DEF HandlesInv
    <3>6. last'[NameOf[w]] = last[NameOf[w]]
      BY <1>9, <3>1, <3>3
    <3>7. \A v \in Writing' : NameOf[v] = NameOf[w] => v = w
      BY <1>3, <1>6, <3>1, <3>2
    <3> QED
      BY <1>2, <3>2, <3>4, <3>5, <3>6, <3>7
  <2> QED
    BY <2>2, <2>3
<1>15. LastInv'
  <2>1. last' \in [Names -> Uploads \cup {Absent}]
    BY <1>9 DEF LastInv
  <2>2. ASSUME NEW m \in Names, m = n
        PROVE  last'[m] = u /\ result'[u] = Absent /\ u # Absent
    BY <1>2, <1>5, <1>9, <2>2, CallFacts DEF PlacesInv
  <2>3. ASSUME NEW m \in Names, m # n
        PROVE  last'[m] = last[m] /\ dir'[m] = dir[m]
    BY <1>4, <1>9, <2>3 DEF HandlesInv
  <2>4. ASSUME NEW m \in Names, dir'[m] # Absent PROVE last'[m] # Absent
    BY <2>2, <2>3, <2>4 DEF LastInv
  <2>5. ASSUME NEW m \in Names, last'[m] # Absent
        PROVE  NameOf[last'[m]] = m /\ pc'[last'[m]] \in AtWork \cup {"returned"}
    <3>1. CASE m = n
      BY <1>3, <1>5, <2>2, <3>1
    <3>2. CASE m # n
      BY <1>3, <1>5, <2>3, <2>5, <3>2, CallFacts DEF LastInv
    <3> QED
      BY <3>1, <3>2
  <2>6. ASSUME NEW m \in Names, last'[m] # Absent, last'[m] \notin raced', result'[last'[m]] = "ok"
        PROVE  /\ \A v \in Writing' : NameOf[v] # m
               /\ dir'[m] # Absent => data'[dir'[m]] = Body(last'[m])
    <3>1. m # n
      BY <2>2, <2>6, CallFacts
    <3>2. /\ \A v \in Writing : NameOf[v] # m
          /\ dir[m] # Absent => data[dir[m]] = Body(last[m])
      BY <1>2, <1>10, <2>3, <2>6, <3>1 DEF LastInv
    <3>3. dir[m] # Absent => data'[dir[m]] = data[dir[m]]
      BY <1>4, <3>1 DEF HandlesInv
    <3> QED
      BY <1>3, <1>6, <2>3, <3>1, <3>2, <3>3
  <2> QED
    BY <2>1, <2>4, <2>5, <2>6 DEF LastInv, Body
<1>16. ReaderInv'
  <2>1. ASSUME NEW r \in Reads, pc'[r] = "reading", r \notin raced'
        PROVE  /\ \A v \in Writing' : NameOf[v] # NameOf[r]
               /\ Len(got[r]) <= Len(data'[handle'[r]])
               /\ \A k \in 1..Len(got[r]) : got[r][k] = data'[handle'[r]][k]
               /\ data'[handle'[r]] \in Bodies \/ Excused(NameOf[r])'
    <3>1. pc[r] = "reading" /\ r \in Reading /\ r \notin raced /\ NameOf[r] # n /\ r # u
      BY <1>5, <1>10, <1>11, <2>1, Busy, CallFacts
    <3>2. handle[r] \in Uploads /\ NameOf[handle[r]] = NameOf[r]
      BY <3>1 DEF HandlesInv
    <3>3. handle'[r] = handle[r] /\ data'[handle[r]] = data[handle[r]]
      BY <1>4, <3>1, <3>2 DEF HandlesInv
    <3> QED
      BY <1>3, <1>6, <1>13, <3>1, <3>3 DEF ReaderInv
  <2> QED
    BY <1>2, <1>10, <1>13, <2>1 DEF ReaderInv, Bodies, Body
<1> QED
  BY <1>14, <1>15, <1>16

\* An upload that fails to begin may still have emptied the file: then it is the one
\* that began last, and whoever is at the file has met it.
LEMMA FumblesKeeps ==
  ASSUME Context, NEW u \in Uploads, Fumbles(u)
  PROVE  WriterInv' /\ LastInv' /\ ReaderInv'
<1> USE DEF Context, FileInv
<1>1. /\ pc[u] = "create" /\ pc' = [pc EXCEPT ![u] = "returned"]
      /\ result' = [result EXCEPT ![u] = "error"] /\ copied' = copied /\ got' = got
      /\ FsCreate(u)
  BY DEF Fumbles, Returned
<1>2. PICK n \in Names : n = NameOf[u]
  BY CallFacts
<1>3. PICK f \in Uploads : /\ f = (IF dir[n] # Absent THEN dir[n] ELSE u)
                           /\ NameOf[f] = n
                           /\ dir' = [dir EXCEPT ![n] = f]
                           /\ handle' = [handle EXCEPT ![u] = f]
                           /\ data' = [data EXCEPT ![f] = << >>]
  BY <1>1, <1>2, CreateFacts
<1>4. /\ u \in Calls /\ u \notin Reads /\ pc'[u] = "returned" /\ result'[u] = "error"
      /\ \A c \in Calls : c # u => pc'[c] = pc[c] /\ result'[c] = result[c]
  BY <1>1, CallFacts DEF PlacesInv
<1>5. Writing' = Writing
  BY <1>1, <1>4, CallFacts, SameWriters DEF AtWork
<1>6. Reading' = Reading
  BY <1>4, CallFacts, SameReaders
<1>7. u \notin Writing
  BY <1>1, Busy DEF AtWork
<1>8. \A v \in Uploads : Begins(v) => v = u
  <2>1. SUFFICES ASSUME NEW v \in Uploads, v # u PROVE ~Begins(v)
    OBVIOUS
  <2>2. pc'[v] = pc[v]
    BY <1>4, <2>1, CallFacts
  <2> QED
    BY <1>5, <2>2 DEF Begins
<1>9. raced \subseteq raced'
  BY RacedGrows
<1>10. \A m : Excused(m) => Excused(m)'
  BY <1>1, <1>4, <1>9, CallFacts, ExcusedStays
\* Either it began, or its file is what it was.
<1>11. CASE Begins(u)
  <2>1. last' = [m \in Names |-> IF m = n THEN u ELSE last[m]]
    BY <1>2, <1>8, <1>11, OneBegins
  <2>2. \A c \in Writing \cup Reading : NameOf[c] = n => c \in raced'
    <3>1. SUFFICES ASSUME NEW c \in Writing \cup Reading, NameOf[c] = n PROVE c \in raced'
      OBVIOUS
    <3>2. c # u /\ c \in Writing' \cup Reading'
      BY <1>4, <1>5, <1>6, <1>7 DEF Reading
    <3> QED
      BY <1>2, <1>11, <3>1, <3>2, Meets
  <2>3. WriterInv'
    <3>1. SUFFICES ASSUME NEW w \in Writing', w \notin raced'
                   PROVE  /\ last'[NameOf[w]] = w
                          /\ dir'[NameOf[w]] = handle'[w]
                          /\ data'[handle'[w]] = [k \in 1..copied'[w] |-> w]
                          /\ \A v \in Writing' : NameOf[v] = NameOf[w] => v = w
      BY DEF WriterInv
    <3>2. w \in Writing /\ w \notin raced /\ NameOf[w] # n /\ w # u
      BY <1>5, <1>7, <1>9, <2>2, <3>1
    <3>3. /\ last[NameOf[w]] = w /\ dir[NameOf[w]] = handle[w]
          /\ data[handle[w]] = [k \in 1..copied[w] |-> w]
          /\ \A v \in Writing : NameOf[v] = NameOf[w] => v = w
      BY <3>2 DEF WriterInv
    <3>4. w \in Uploads /\ NameOf[w] \in Names /\ NameOf[handle[w]] = NameOf[w]
          /\ handle[w] \in Uploads
      BY <3>2, Busy, CallFacts DEF HandlesInv
    <3>5. handle'[w] = handle[w] /\ handle[w] # f
      BY <1>3, <3>2, <3>4 DEF HandlesInv
    <3>6. data'[handle[w]] = data[handle[w]] /\ dir'[NameOf[w]] = dir[NameOf[w]]
      BY <1>3, <3>2, <3>4, <3>5 DEF HandlesInv
    <3>7. last'[NameOf[w]] = last[NameOf[w]]
      BY <2>1, <3>2, <3>4
    <3> QED
      BY <1>1, <1>5, <3>3, <3>5, <3>6, <3>7
  <2>4. LastInv'
    <3>1. last' \in [Names -> Uploads \cup {Absent}]
      BY <2>1 DEF LastInv
    <3>2. ASSUME NEW m \in Names, m = n
          PROVE  last'[m] = u /\ result'[u] = "error" /\ u # Absent
      BY <1>4, <2>1, <3>2, CallFacts
    <3>3. ASSUME NEW m \in Names, m # n
          PROVE  last'[m] = last[m] /\ dir'[m] = dir[m]
      BY <1>3, <2>1, <3>3 DEF HandlesInv
    <3>4. ASSUME NEW m \in Names, dir'[m] # Absent PROVE last'[m] # Absent
      BY <3>2, <3>3, <3>4 DEF LastInv
    <3>5. ASSUME NEW m \in Names, last'[m] # Absent
          PROVE  NameOf[last'[m]] = m /\ pc'[last'[m]] \in AtWork \cup {"returned"}
      <4>1. CASE m = n
        BY <1>2, <1>4, <3>2, <4>1
      <4>2. CASE m # n
        BY <1>2, <1>4, <3>3, <3>5, <4>2, CallFacts DEF LastInv
      <4> QED
        BY <4>1, <4>2
    <3>6. ASSUME NEW m \in Names, last'[m] # Absent, last'[m] \notin raced', result'[last'[m]] = "ok"
          PROVE  /\ \A v \in Writing' : NameOf[v] # m
                 /\ dir'[m] # Absent => data'[dir'[m]] = Body(last'[m])
      <4>1. m # n
        BY <3>2, <3>6
      <4>2. PICK w \in Uploads : w = last[m] /\ NameOf[w] = m /\ w # u
        BY <1>2, <3>3, <3>6, <4>1, CallFacts DEF LastInv
      <4>3. result[w] = "ok" /\ w \notin raced
        BY <1>4, <1>9, <3>3, <3>6, <4>1, <4>2, CallFacts
      <4>4. /\ \A v \in Writing : NameOf[v] # m
            /\ dir[m] # Absent => data[dir[m]] = Body(last[m])
        BY <4>2, <4>3, CallFacts DEF LastInv
      <4>5. dir[m] # Absent => data'[dir[m]] = data[dir[m]]
        BY <1>3, <4>1 DEF HandlesInv
      <4> QED
        BY <1>5, <3>3, <4>1, <4>4, <4>5
    <3> QED
      BY <3>1, <3>4, <3>5, <3>6 DEF LastInv, Body
  <2>5. ASSUME NEW r \in Reads, pc'[r] = "reading", r \notin raced'
        PROVE  /\ \A v \in Writing' : NameOf[v] # NameOf[r]
               /\ Len(got[r]) <= Len(data'[handle'[r]])
               /\ \A k \in 1..Len(got[r]) : got[r][k] = data'[handle'[r]][k]
               /\ data'[handle'[r]] \in Bodies \/ Excused(NameOf[r])'
    <3>1. pc[r] = "reading" /\ r # u
      BY <1>4, <2>5, CallFacts
    <3>2. r \in Reading
      BY <3>1, Busy
    <3>3. r \notin raced /\ NameOf[r] # n
      BY <1>9, <2>2, <2>5, <3>2
    <3>4. handle[r] \in Uploads /\ NameOf[handle[r]] = NameOf[r]
      BY <3>1 DEF HandlesInv
    <3>5. handle'[r] = handle[r] /\ data'[handle[r]] = data[handle[r]]
      BY <1>3, <3>1, <3>3, <3>4 DEF HandlesInv
    <3> QED
      BY <1>5, <1>10, <3>1, <3>3, <3>5 DEF ReaderInv
  <2>6. ASSUME NEW r \in Reads, result'[r] = "ok", r \notin raced'
        PROVE  got[r] \in Bodies \/ Excused(NameOf[r])'
    <3>1. result[r] = "ok" /\ r \notin raced
      BY <1>4, <1>9, <2>6, CallFacts
    <3> QED
      BY <1>10, <3>1 DEF ReaderInv
  <2>7. ReaderInv'
    BY <1>1, <2>5, <2>6 DEF ReaderInv, Bodies, Body
  <2> QED
    BY <2>3, <2>4, <2>7
<1>12. CASE ~Begins(u)
  <2>1. last' = last
    BY <1>8, <1>12, NoneBegins DEF LastInv
  <2>2. dir[n] # Absent /\ data[dir[n]] = << >> /\ f = dir[n]
    <3>1. Holds(n)' = Holds(n)
      BY <1>1, <1>2, <1>4, <1>7, <1>12 DEF Begins
    <3>2. Held(n)' = Held(n)
      BY <3>1, HoldsIsHeld
    <3>3. dir'[n] = f /\ data'[f] = << >> /\ f # Absent /\ << >> # Absent
      <4>1. << >> \in Seq(Uploads)
        OBVIOUS
      <4>2. f # Absent
        BY CallFacts
      <4>3. << >> # Absent
        BY <4>1, CallFacts
      <4>4. dir'[n] = f /\ data'[f] = << >>
        BY <1>3 DEF HandlesInv
      <4> QED
        BY <4>2, <4>3, <4>4
    <3>4. Held(n)' = << >>
      BY <3>3 DEF Held
    <3> QED
      BY <1>3, <3>2, <3>3, <3>4 DEF Held
  <2>3. dir' = dir /\ data' = data
    BY <1>3, <2>2 DEF HandlesInv
  <2>4. \A c \in Writing \cup Reading : handle'[c] = handle[c]
    <3>1. SUFFICES ASSUME NEW c \in Writing \cup Reading PROVE handle'[c] = handle[c]
      OBVIOUS
    <3>2. c \in Uploads \cup Reads /\ c # u
      BY <1>4, <1>7 DEF Writing, Reading
    <3> QED
      BY <1>3, <3>2 DEF HandlesInv
  <2>5. WriterInv'
    BY <1>1, <1>5, <1>9, <2>1, <2>3, <2>4 DEF WriterInv
  <2>6. ASSUME NEW m \in Names, last[m] # Absent
        PROVE  pc'[last[m]] = pc[last[m]] /\ result'[last[m]] = result[last[m]]
    <3>1. PICK w \in Uploads : w = last[m] /\ pc[w] \in AtWork \cup {"returned"}
      BY <2>6 DEF LastInv
    <3>2. w # u /\ w \in Calls
      BY <1>1, <3>1, CallFacts DEF AtWork
    <3> QED
      BY <1>4, <3>1, <3>2
  <2>7. LastInv'
    BY <1>5, <1>9, <2>1, <2>3, <2>6 DEF LastInv, Body
  <2>8. \A r \in Reads : pc'[r] = pc[r] /\ result'[r] = result[r]
    BY <1>4, CallFacts
  <2>9. \A r \in Reads : pc[r] = "reading" => handle'[r] = handle[r]
    BY <2>4, Busy
  <2>10. ReaderInv'
    BY <1>1, <1>5, <1>9, <1>10, <2>3, <2>8, <2>9 DEF ReaderInv, Bodies, Body
  <2> QED
    BY <2>5, <2>7, <2>10
<1> QED
  BY <1>11, <1>12

\* Who writes to a file meets whoever else writes or reads under its name.
LEMMA CopiesKeeps ==
  ASSUME Context, NEW u \in Uploads, Copies(u)
  PROVE  WriterInv' /\ LastInv' /\ ReaderInv'
<1> USE DEF Context, FileInv
<1>1. /\ pc[u] \in AtWork /\ copied[u] < SizeOf[u] /\ FsWrite(u)
      /\ pc' = pc /\ result' = result /\ got' = got /\ dir' = dir /\ handle' = handle
  BY DEF Copies
<1>2. Writing' = Writing /\ Reading' = Reading /\ u \in Writing
  BY <1>1 DEF Writing, Reading, AtWork
<1>3. last' = last
  <2>1. \A v \in Uploads : ~Begins(v)
    BY <1>1, <1>2 DEF Begins
  <2> QED
    BY <2>1, NoneBegins DEF LastInv
<1>4. raced \subseteq raced'
  BY RacedGrows
<1>5. PICK n \in Names : n = NameOf[u]
  BY CallFacts
<1>6. \A c \in Writing \cup Reading : (NameOf[c] = n /\ c # u) => c \in raced'
  BY <1>2, <1>5, Meets
<1>7. PICK f \in Uploads : f = handle[u] /\ NameOf[f] = n
  BY <1>1, <1>5 DEF HandlesInv
<1>8. PICK new : data' = [data EXCEPT ![f] = new]
  BY <1>1, <1>7 DEF FsWrite
<1>9. \A m : Excused(m) => Excused(m)'
  BY <1>1, <1>4, ExcusedStays
<1>10. \A g \in Uploads : NameOf[g] # n => data'[g] = data[g]
  BY <1>7, <1>8 DEF HandlesInv
<1>11. WriterInv'
  <2>1. SUFFICES ASSUME NEW w \in Writing, w \notin raced'
                 PROVE  /\ last[NameOf[w]] = w
                        /\ dir[NameOf[w]] = handle[w]
                        /\ data'[handle[w]] = [k \in 1..copied'[w] |-> w]
                        /\ \A v \in Writing : NameOf[v] = NameOf[w] => v = w
    BY <1>1, <1>2, <1>3 DEF WriterInv
  <2>2. /\ last[NameOf[w]] = w /\ dir[NameOf[w]] = handle[w]
        /\ data[handle[w]] = [k \in 1..copied[w] |-> w]
        /\ \A v \in Writing : NameOf[v] = NameOf[w] => v = w
    BY <1>4, <2>1 DEF WriterInv
  <2>3. CASE w = u
    <3>1. PICK c \in Nat : c = copied[u]
      BY DEF PlacesInv
    <3>2. PICK old : old = data[f]
      OBVIOUS
    <3>3. old = [k \in 1..c |-> u]
      BY <1>7, <2>2, <2>3, <3>1, <3>2
    <3>4. /\ data'[f] = [j \in 1..(IF c + 1 > Len(old) THEN c + 1 ELSE Len(old)) |->
                           IF j = c + 1 THEN u ELSE IF j <= Len(old) THEN old[j] ELSE Absent]
          /\ copied'[u] = c + 1
      BY <1>1, <1>7, <3>1, <3>2 DEF FsWrite, HandlesInv, PlacesInv
    <3>5. data'[f] = [k \in 1..(c + 1) |-> u]
      BY <3>3, <3>4, WriteOwn
    <3> QED
      BY <1>7, <2>2, <2>3, <3>4, <3>5
  <2>4. CASE w # u
    <3>1. NameOf[w] # n /\ w \in Uploads
      BY <1>6, <2>1, <2>4 DEF Writing
    <3>2. handle[w] \in Uploads /\ NameOf[handle[w]] = NameOf[w]
      BY <2>1, <3>1, Busy DEF HandlesInv
    <3>3. copied'[w] = copied[w]
      BY <1>1, <2>4, <3>1 DEF FsWrite, PlacesInv
    <3> QED
      BY <1>10, <2>2, <3>1, <3>2, <3>3
  <2> QED
    BY <2>3, <2>4
<1>12. LastInv'
  <2>1. ASSUME NEW m \in Names, last[m] # Absent, last[m] \notin raced', result[last[m]] = "ok"
        PROVE  /\ \A v \in Writing : NameOf[v] # m
               /\ dir[m] # Absent => data'[dir[m]] = Body(last[m])
    <3>1. /\ \A v \in Writing : NameOf[v] # m
          /\ dir[m] # Absent => data[dir[m]] = Body(last[m])
      BY <1>4, <2>1 DEF LastInv
    <3>2. m # n
      BY <1>2, <1>5, <3>1
    <3>3. dir[m] # Absent => data'[dir[m]] = data[dir[m]]
      BY <1>10, <3>2 DEF HandlesInv
    <3> QED
      BY <3>1, <3>3
  <2> QED
    BY <1>1, <1>2, <1>3, <2>1 DEF LastInv, Body
<1>13. ReaderInv'
  <2>1. ASSUME NEW r \in Reads, pc[r] = "reading", r \notin raced'
        PROVE  /\ \A v \in Writing : NameOf[v] # NameOf[r]
               /\ Len(got[r]) <= Len(data'[handle[r]])
               /\ \A k \in 1..Len(got[r]) : got[r][k] = data'[handle[r]][k]
               /\ data'[handle[r]] \in Bodies \/ Excused(NameOf[r])'
    <3>1. r \in Reading /\ r # u
      BY <1>1, <2>1, Busy, CallFacts
    <3>2. NameOf[r] # n
      BY <1>6, <2>1, <3>1
    <3>3. handle[r] \in Uploads /\ NameOf[handle[r]] = NameOf[r]
      BY <2>1 DEF HandlesInv
    <3>4. data'[handle[r]] = data[handle[r]]
      BY <1>10, <3>2, <3>3
    <3> QED
      BY <1>4, <1>9, <2>1, <3>4 DEF ReaderInv
  <2> QED
    BY <1>1, <1>2, <1>4, <1>9, <2>1 DEF ReaderInv, Bodies, Body
<1> QED
  BY <1>11, <1>12, <1>13

\* Removing a name disturbs the upload that writes under it, and leaves open files
\* what they are.
LEMMA RemovesKeeps ==
  ASSUME Context, NEW d \in Deletes, NEW res \in {"ok", "error"}, Removes(d, res)
  PROVE  WriterInv' /\ LastInv' /\ ReaderInv'
<1> USE DEF Context, FileInv
<1>1. PICK n \in Names : n = NameOf[d]
  BY CallFacts
<1>2. /\ pc' = [pc EXCEPT ![d] = "returned"] /\ result' = [result EXCEPT ![d] = res]
      /\ dir' = [dir EXCEPT ![n] = Absent]
      /\ copied' = copied /\ got' = got /\ data' = data /\ handle' = handle
  BY <1>1 DEF Removes, Returned, FsRemove
<1>3. /\ \A u \in Uploads : pc'[u] = pc[u] /\ result'[u] = result[u]
      /\ \A r \in Reads : pc'[r] = pc[r] /\ result'[r] = result[r]
  BY <1>2, CallFacts DEF PlacesInv
<1>4. Writing' = Writing /\ Reading' = Reading
  BY <1>3 DEF Writing, Reading
<1>5. last' = last
  <2>1. \A v \in Uploads : ~Begins(v)
    BY <1>3, <1>4 DEF Begins
  <2> QED
    BY <2>1, NoneBegins DEF LastInv
<1>6. raced \subseteq raced'
  BY RacedGrows
<1>7. \A m : Excused(m) => Excused(m)'
  BY <1>3, <1>6, ExcusedStays
<1>8. dir'[n] = Absent /\ \A m \in Names : m # n => dir'[m] = dir[m]
  BY <1>2 DEF HandlesInv
<1>9. WriterInv'
  <2>1. SUFFICES ASSUME NEW w \in Writing, w \notin raced'
                 PROVE  /\ last[NameOf[w]] = w
                        /\ dir'[NameOf[w]] = handle[w]
                        /\ data[handle[w]] = [k \in 1..copied[w] |-> w]
                        /\ \A v \in Writing : NameOf[v] = NameOf[w] => v = w
    BY <1>2, <1>4, <1>5 DEF WriterInv
  <2>2. /\ last[NameOf[w]] = w /\ dir[NameOf[w]] = handle[w]
        /\ data[handle[w]] = [k \in 1..copied[w] |-> w]
        /\ \A v \in Writing : NameOf[v] = NameOf[w] => v = w
    BY <1>6, <2>1 DEF WriterInv
  <2>3. w \in Uploads /\ handle[w] # Absent /\ copied[w] \in Nat /\ NameOf[w] \in Names
    BY <2>1, Busy, CallFacts DEF HandlesInv, PlacesInv
  <2>4. NameOf[w] # n
    <3>1. SUFFICES ASSUME NameOf[w] = n PROVE FALSE
      OBVIOUS
    <3>2. Held(n) # Absent
      BY <2>2, <2>3, <3>1, BodyFacts DEF Held
    <3>3. Held(n)' = Absent
      BY <1>8 DEF Held
    <3>4. Holds(n) # Absent /\ Holds(n)' = Absent
      BY <3>2, <3>3, HoldsIsHeld
    <3> QED
      BY <1>4, <2>1, <2>3, <3>1, <3>4, MeetsRemoval
  <2> QED
    BY <1>8, <2>2, <2>3, <2>4
<1>10. LastInv'
  <2>1. \A m \in Names : dir'[m] # Absent => dir'[m] = dir[m]
    BY <1>8
  <2>2. \A m \in Names : last[m] # Absent => last[m] \in Uploads
    BY DEF LastInv
  <2> QED
    BY <1>2, <1>3, <1>4, <1>5, <1>6, <2>1, <2>2 DEF LastInv, Body
<1>11. ReaderInv'
  BY <1>2, <1>3, <1>4, <1>6, <1>7 DEF ReaderInv, Bodies, Body
<1> QED
  BY <1>9, <1>10, <1>11

\* A read that opens a file which nobody writes finds what the last upload left.
LEMMA OpensKeeps ==
  ASSUME Context, NEW r \in Reads, Opens(r)
  PROVE  WriterInv' /\ LastInv' /\ ReaderInv'
<1> USE DEF Context, FileInv
<1>1. /\ pc[r] \in {"begin", "operate"} /\ dir[NameOf[r]] # Absent
      /\ handle' = [handle EXCEPT ![r] = dir[NameOf[r]]]
      /\ copied' = copied /\ got' = got /\ dir' = dir /\ data' = data
      /\ Goto(r, "reading") \/ Returned(r, "closed")
  BY DEF Opens, FsOpen, Exists
<1>2. PICK n \in Names : n = NameOf[r]
  BY CallFacts
<1>3. PICK f \in Uploads : f = dir[n]
  BY <1>1, <1>2 DEF HandlesInv
<1>4. /\ \A c \in Calls : c # r => pc'[c] = pc[c] /\ result'[c] = result[c]
      /\ result'[r] \in {Absent, "closed"}
  BY <1>1, CallFacts DEF Goto, Returned, PlacesInv
<1>5. \A u \in Uploads : u # r /\ u \in Calls /\ pc'[u] = pc[u] /\ result'[u] = result[u]
  BY <1>4, CallFacts
<1>6. Writing' = Writing
  BY <1>5 DEF Writing
<1>7. last' = last
  <2>1. \A v \in Uploads : ~Begins(v)
    BY <1>5, <1>6 DEF Begins
  <2> QED
    BY <2>1, NoneBegins DEF LastInv
<1>8. raced \subseteq raced'
  BY RacedGrows
<1>9. \A m : Excused(m) => Excused(m)'
  BY <1>5, <1>8, ExcusedStays
<1>10. handle'[r] = f /\ \A c \in Uploads \cup Reads : c # r => handle'[c] = handle[c]
  BY <1>1, <1>2, <1>3 DEF HandlesInv
<1>11. \A u \in Writing : handle'[u] = handle[u]
  BY <1>5, <1>10 DEF Writing
<1>12. WriterInv'
  BY <1>1, <1>6, <1>7, <1>8, <1>11 DEF WriterInv
<1>13. LastInv'
  <2>1. \A m \in Names : last[m] # Absent => last[m] \in Uploads
    BY DEF LastInv
  <2> QED
    BY <1>1, <1>5, <1>6, <1>7, <1>8, <2>1 DEF LastInv, Body
<1>14. ASSUME pc'[r] = "reading", r \notin raced'
       PROVE  /\ \A v \in Writing : NameOf[v] # n
              /\ data[f] \in Bodies \/ Excused(n)'
  <2>1. ASSUME NEW v \in Writing PROVE NameOf[v] # n
    <3>1. r \in Reading' /\ v # r /\ v \in Writing'
      BY <1>5, <1>6, <1>14, BusyNext DEF Writing
    <3> QED
      BY <1>2, <1>14, <3>1, Meets
  <2>2. PICK w \in Uploads : w = last[n] /\ NameOf[w] = n /\ pc[w] \in AtWork \cup {"returned"}
    BY <1>1, <1>2 DEF LastInv
  <2>3. pc[w] = "returned"
    BY <2>1, <2>2, Busy
  <2>4. result[w] \in {"ok", "error", "canceled"}
    BY <2>3 DEF PlacesInv
  <2>5. CASE w \in raced \/ result[w] \in {"error", "canceled"}
    <3>1. Excused(n)
      BY <2>2, <2>5 DEF Excused
    <3> QED
      BY <1>9, <2>1, <3>1
  <2>6. CASE w \notin raced /\ result[w] = "ok"
    <3>1. data[dir[n]] = Body(w)
      BY <1>1, <1>2, <2>2, <2>6, CallFacts DEF LastInv
    <3> QED
      BY <1>3, <2>1, <3>1 DEF Bodies
  <2> QED
    BY <2>4, <2>5, <2>6
<1>15. ASSUME NEW q \in Reads, pc'[q] = "reading", q \notin raced'
       PROVE  /\ \A v \in Writing' : NameOf[v] # NameOf[q]
              /\ Len(got[q]) <= Len(data[handle'[q]])
              /\ \A k \in 1..Len(got[q]) : got[q][k] = data[handle'[q]][k]
              /\ data[handle'[q]] \in Bodies \/ Excused(NameOf[q])'
  <2>1. CASE q = r
    <3>1. got[q] = << >> /\ data[f] \in Contents
      BY <1>1, <2>1 DEF PlacesInv, HandlesInv
    <3>2. Len(got[q]) = 0 /\ Len(got[q]) <= Len(data[f])
      BY <3>1 DEF Contents
    <3>3. \A k \in 1..Len(got[q]) : got[q][k] = data[f][k]
      BY <3>2
    <3> QED
      BY <1>2, <1>6, <1>10, <1>14, <1>15, <2>1, <3>2, <3>3
  <2>2. CASE q # r
    <3>1. pc[q] = "reading" /\ handle'[q] = handle[q] /\ q \notin raced
      BY <1>4, <1>8, <1>10, <1>15, <2>2, CallFacts
    <3> QED
      BY <1>6, <1>9, <3>1 DEF ReaderInv
  <2> QED
    BY <2>1, <2>2
<1>16. ASSUME NEW q \in Reads, result'[q] = "ok", q \notin raced'
       PROVE  got[q] \in Bodies \/ Excused(NameOf[q])'
  <2>1. q # r
    BY <1>4, <1>16, CallFacts
  <2>2. result[q] = "ok" /\ q \notin raced
    BY <1>4, <1>8, <1>16, <2>1, CallFacts
  <2> QED
    BY <1>9, <2>2 DEF ReaderInv
<1>17. ReaderInv'
  BY <1>1, <1>15, <1>16 DEF ReaderInv, Bodies, Body
<1> QED
  BY <1>12, <1>13, <1>17

-----------------------------------------------------------------------------
(* The files, from state to state. *)

LEMMA FilesStep ==
  ASSUME CallInv, HistoryInv, FileInv, driver = "ftp" => CopierInv, driver # "s3", Next
  PROVE  FileInv'
<1> USE DEF FileInv
<1>1. FileStep
  <2>1. CASE driver = "local"
    BY <2>1, LocalFileStep DEF Next, Step
  <2>2. CASE driver = "ftp"
    BY <2>2, FtpFileStep DEF Next, Step
  <2> QED
    BY <2>1, <2>2 DEF Next, Step
<1>2. HandlesInv' /\ PlacesInv'
  BY <1>1, HandlesStep, PlacesStep
<1>3. Context
  BY <1>2 DEF Context, Next, Chronicle
<1>4. WriterInv' /\ LastInv' /\ ReaderInv'
  BY <1>1, <1>3, IdleKeeps, PassesKeeps, EndsKeeps, StartsKeeps, FumblesKeeps, CopiesKeeps,
     RemovesKeeps, OpensKeeps, ReadsOnKeeps DEF FileStep
<1> QED
  BY <1>2, <1>4

-----------------------------------------------------------------------------
(* The objects, behind the S3 driver. *)

\* What Chronicle notes of a step that puts or removes the object of a name.
LEMMA ObjectsStep ==
  ASSUME CallInv, PlaceInv, HistoryInv, ObjectInv, driver = "s3", driver' = driver,
         CallInv', Chronicle, S3!Next
  PROVE  ObjectInv'
<1> PICK c \in Calls : \/ S3!Begin(c) \/ S3!CopyChunk(c) \/ S3!Complete(c) \/ S3!Delete(c)
                       \/ S3!Fetch(c) \/ S3!Answer(c) \/ S3!Fail(c)
  BY DEF S3!Next, S3!Calls, Calls
<1>1. raced \subseteq raced'
  BY RacedGrows
<1>2. pc \in [Calls -> Labels] /\ result \in [Calls -> {Absent, "ok", "error", "canceled", "closed"}]
  BY DEF CallInv
<1>3. \A u \in Uploads : (pc'[u] = "answering") => u \in Writing'
  BY DEF Writing
\* Steps that leave the objects, and what was read, alone.
<1>4. ASSUME objects' = objects, got' = got,
             \A b \in Calls : pc'[b] = "answering" => pc[b] = "answering",
             \A b \in Calls : result'[b] = "ok" => result[b] = "ok" \/ pc[b] = "answering"
      PROVE  ObjectInv'
  BY <1>1, <1>4, CallFacts DEF ObjectInv, Bodies, Body
<1>5. CASE S3!Begin(c)
  BY <1>2, <1>4, <1>5 DEF S3!Begin, S3!Goto
<1>6. CASE S3!CopyChunk(c)
  BY <1>2, <1>4, <1>6 DEF S3!CopyChunk
<1>7. CASE S3!Answer(c)
  BY <1>2, <1>4, <1>7 DEF S3!Answer, S3!Returned
<1>8. CASE S3!Fail(c)
  BY <1>2, <1>4, <1>8, CallFacts DEF S3!Fail, S3!Returned
<1>9. CASE S3!Complete(c)
  <2>1. PICK u \in Uploads : u = c
    BY <1>9 DEF S3!Complete
  <2>2. PICK n \in Names : n = NameOf[u]
    BY CallFacts
  <2>3. /\ objects' = [objects EXCEPT ![n] = Body(u)] /\ pc' = [pc EXCEPT ![u] = "answering"]
        /\ result' = result /\ got' = got
    BY <1>9, <2>1, <2>2 DEF S3!Complete, S3!Goto, S3!Body, Body
  <2>4. /\ pc'[u] = "answering" /\ u \notin Reads
        /\ \A b \in Calls : b # u => pc'[b] = pc[b]
    BY <1>2, <2>3, CallFacts
  <2>5. objects \in [Names -> Bodies \cup {Absent}]
    BY DEF ObjectInv
  <2>6. Body(u) \in Bodies
    BY DEF Bodies
  <2>7. objects' \in [Names -> Bodies \cup {Absent}]
    BY <2>3, <2>5, <2>6
  <2>8. ASSUME NEW v \in Uploads, pc'[v] = "answering", v \notin raced'
        PROVE  objects'[NameOf[v]] = Body(v)
    <3>1. CASE v = u
      BY <2>2, <2>3, <2>5, <3>1
    <3>2. CASE v # u
      <4>1. NameOf[v] # n
        <5>1. v \in Writing' /\ u \in Writing'
          BY <1>3, <2>4, <2>8
        <5> QED
          BY <2>2, <2>8, <3>2, <5>1, Meets
      <4>2. pc[v] = "answering" /\ v \notin raced
        BY <1>1, <2>4, <2>8, <3>2, CallFacts
      <4>3. objects'[NameOf[v]] = objects[NameOf[v]]
        BY <2>3, <2>5, <4>1, CallFacts
      <4> QED
        BY <4>2, <4>3 DEF ObjectInv
    <3> QED
      BY <3>1, <3>2
  <2>9. \A r \in Reads : pc'[r] = "answering" \/ result'[r] = "ok" => got'[r] \in Bodies
    BY <2>3, <2>4, CallFacts DEF ObjectInv
  <2> QED
    BY <2>3, <2>7, <2>8, <2>9 DEF ObjectInv, Bodies, Body
<1>10. CASE S3!Delete(c)
  <2>1. PICK d \in Deletes : d = c
    BY <1>10 DEF S3!Delete, PlaceInv
  <2>2. PICK n \in Names : n = NameOf[d]
    BY CallFacts
  <2>3. /\ objects' = [objects EXCEPT ![n] = Absent] /\ pc' = [pc EXCEPT ![d] = "answering"]
        /\ result' = result /\ got' = got
    BY <1>10, <2>1, <2>2 DEF S3!Delete, S3!Goto
  <2>4. /\ \A v \in Uploads : pc'[v] = pc[v]
        /\ \A r \in Reads : pc'[r] = pc[r]
    BY <1>2, <2>3, CallFacts
  <2>5. objects \in [Names -> Bodies \cup {Absent}]
    BY DEF ObjectInv
  <2>6. objects' \in [Names -> Bodies \cup {Absent}]
    BY <2>3, <2>5
  <2>7. ASSUME NEW v \in Uploads, pc'[v] = "answering", v \notin raced'
        PROVE  objects'[NameOf[v]] = Body(v)
    <3>1. objects[NameOf[v]] = Body(v) /\ NameOf[v] \in Names
      BY <1>1, <2>4, <2>7, CallFacts DEF ObjectInv
    <3>2. NameOf[v] # n
      <4>1. SUFFICES ASSUME NameOf[v] = n PROVE FALSE
        OBVIOUS
      <4>2. Body(v) # Absent
        BY BodyFacts, CallFacts DEF Body
      <4>3. Holds(NameOf[v]) # Absent
        BY <3>1, <4>2 DEF Holds
      <4>4. Holds(NameOf[v])' = Absent
        BY <2>3, <2>5, <4>1 DEF Holds
      <4> QED
        BY <1>3, <2>7, <4>3, <4>4, MeetsRemoval
    <3> QED
      BY <2>3, <2>5, <3>1, <3>2
  <2>8. \A r \in Reads : pc'[r] = "answering" \/ result'[r] = "ok" => got'[r] \in Bodies
    BY <2>3, <2>4 DEF ObjectInv
  <2> QED
    BY <2>3, <2>6, <2>7, <2>8 DEF ObjectInv, Bodies, Body
<1>11. CASE S3!Fetch(c)
  <2>1. PICK r \in Reads : r = c
    BY <1>11 DEF S3!Fetch, PlaceInv
  <2>2. PICK n \in Names : n = NameOf[r]
    BY CallFacts
  <2>3. /\ objects[n] # Absent /\ got' = [got EXCEPT ![r] = objects[n]]
        /\ pc' = [pc EXCEPT ![r] = "answering"] /\ result' = result /\ objects' = objects
    BY <1>11, <2>1, <2>2 DEF S3!Fetch, S3!Goto
  <2>4. /\ \A v \in Uploads : pc'[v] = pc[v]
        /\ \A q \in Reads : q # r => pc'[q] = pc[q]
    BY <1>2, <2>3, CallFacts
  <2>5. objects[n] \in Bodies /\ objects[n] \in Contents
    <3>1. objects[n] \in Bodies
      BY <2>3 DEF ObjectInv
    <3>2. PICK u \in Uploads : objects[n] = Body(u)
      BY <3>1 DEF Bodies
    <3> QED
      BY <3>1, <3>2, BodyFacts, CallFacts DEF Body
  <2>6. ASSUME NEW q \in Reads, pc'[q] = "answering" \/ result'[q] = "ok"
        PROVE  got'[q] \in Bodies
    <3>1. CASE q = r
      BY <2>3, <2>5, <3>1 DEF ObjectInv
    <3>2. CASE q # r
      BY <2>3, <2>4, <2>6, <3>2 DEF ObjectInv
    <3> QED
      BY <3>1, <3>2
  <2> QED
    BY <1>1, <2>3, <2>4, <2>5, <2>6 DEF ObjectInv, Bodies, Body
<1> QED
  BY <1>5, <1>6, <1>7, <1>8, <1>9, <1>10, <1>11

-----------------------------------------------------------------------------
(* The state of the driver in use. *)

KindInv ==
  /\ driver \in Drivers
  /\ driver = "local" => pc \in [Calls -> {"begin", "copying", "reading", "returned"}]
  /\ driver = "ftp" =>
       /\ pc \in [Calls -> {"begin", "client", "create", "operate", "select", "closing",
                        "reading", "returned"}]
       /\ done \in [Uploads -> BOOLEAN]
  /\ driver = "s3" =>
       /\ pc \in [Calls -> {"begin", "copying", "deleting", "reading", "answering", "returned"}]
       /\ \A u \in Uploads : copied[u] <= SizeOf[u]
       /\ last \in [Names -> Uploads \cup {Absent}]

LEMMA LastTypes ==
  ASSUME Chronicle, last \in [Names -> Uploads \cup {Absent}]
  PROVE  last' \in [Names -> Uploads \cup {Absent}]
<1>1. ASSUME NEW n \in Names
      PROVE  (IF \E u \in Uploads : NameOf[u] = n /\ Begins(u)
              THEN CHOOSE u \in Uploads : NameOf[u] = n /\ Begins(u)
              ELSE last[n]) \in Uploads \cup {Absent}
  <2>1. CASE \E u \in Uploads : NameOf[u] = n /\ Begins(u)
    <3>1. PICK w : w = CHOOSE u \in Uploads : NameOf[u] = n /\ Begins(u)
      OBVIOUS
    <3>2. w \in Uploads
      BY <2>1, <3>1
    <3> QED
      BY <2>1, <3>1, <3>2
  <2>2. CASE ~\E u \in Uploads : NameOf[u] = n /\ Begins(u)
    BY <2>2
  <2> QED
    BY <2>1, <2>2
<1> QED
  BY <1>1 DEF Chronicle

LEMMA KindStep ==
  ASSUME CallInv, KindInv, Next
  PROVE  KindInv'
<1>1. driver' = driver /\ driver \in Drivers /\ Chronicle
  BY DEF Next, Chronicle, KindInv
<1>2. CASE driver = "local"
  <2>1. PICK c \in Calls : Local!Serve(c)
    BY <1>2 DEF Next, Step, Local!Next, Local!Calls, Calls
  <2> QED
    BY <1>1, <1>2, <2>1
       DEF KindInv, Local!Serve, Local!Create, Local!CopyChunk, Local!CopyEnd, Local!Delete,
           Local!Open, Local!ReadChunk, Local!ReadEnd, Local!Goto, Local!Returned
<1>3. CASE driver = "ftp"
  <2> USE <1>1, <1>3 DEF KindInv, Calls, Ftp!Goto, Ftp!Returned, Ftp!Return, Ftp!callVars,
                         Ftp!fsVars, Ftp!sftpVars
  <2>1. ASSUME NEW c \in Calls,
               Ftp!Dial(c) \/ Ftp!NewClient(c) \/ Ftp!Delete(c) \/ Ftp!Open(c)
        PROVE  KindInv'
    BY <2>1 DEF Ftp!Dial, Ftp!NewClient, Ftp!Delete, Ftp!Open
  <2>2. ASSUME NEW u \in Uploads,
               Ftp!Create(u) \/ Ftp!SelectCopied(u) \/ Ftp!SelectDone(u) \/ Ftp!CloseCanceled(u)
        PROVE  KindInv'
    BY <2>2 DEF Ftp!Create, Ftp!SelectCopied, Ftp!SelectDone, Ftp!CloseCanceled
  <2>3. ASSUME NEW u \in Uploads, Ftp!CopyChunk(u) \/ Ftp!CopyEnd(u) \/ Ftp!Send(u) \/ Ftp!Cancel(u)
        PROVE  KindInv'
    BY <2>3 DEF Ftp!CopyChunk, Ftp!CopyEnd, Ftp!Send, Ftp!Cancel
  <2>4. ASSUME NEW r \in Reads, Ftp!ReadChunk(r) \/ Ftp!Close(r) PROVE KindInv'
    BY <2>4 DEF Ftp!ReadChunk, Ftp!Close
  <2>5. Ftp!Next
    BY DEF Next, Step
  <2> QED
    BY <2>1, <2>2, <2>3, <2>4, <2>5 DEF Ftp!Next, Ftp!Serve, Ftp!Calls
<1>4. CASE driver = "s3"
  <2>1. PICK c \in Calls : \/ S3!Begin(c) \/ S3!CopyChunk(c) \/ S3!Complete(c) \/ S3!Delete(c)
                           \/ S3!Fetch(c) \/ S3!Answer(c) \/ S3!Fail(c)
    BY <1>4 DEF Next, Step, S3!Next, S3!Calls, Calls
  <2>2. last' \in [Names -> Uploads \cup {Absent}]
    BY <1>1, <1>4, LastTypes DEF KindInv
  <2>3. pc' \in [Calls -> {"begin", "copying", "deleting", "reading", "answering", "returned"}]
    BY <1>4, <2>1
       DEF KindInv, S3!Begin, S3!CopyChunk, S3!Complete, S3!Delete, S3!Fetch, S3!Answer, S3!Fail,
           S3!Goto, S3!Returned
  <2>4. ASSUME NEW u \in Uploads PROVE copied'[u] <= SizeOf[u]
    <3>1. copied[u] <= SizeOf[u] /\ SizeOf[u] \in Nat /\ copied \in [Uploads -> Nat]
      BY <1>4, CallFacts DEF KindInv, CallInv
    <3>2. CASE copied' = copied
      BY <3>1, <3>2
    <3>3. CASE S3!CopyChunk(c)
      BY <3>1, <3>3 DEF S3!CopyChunk
    <3> QED
      BY <2>1, <3>2, <3>3 DEF S3!Begin, S3!Complete, S3!Delete, S3!Fetch, S3!Answer, S3!Fail
  <2> QED
    BY <1>1, <1>4, <2>2, <2>3, <2>4 DEF KindInv
<1> QED
  BY <1>2, <1>3, <1>4 DEF Next, Step

-----------------------------------------------------------------------------
(* All of it, from the first state on. *)

Inv == CallInv /\ PlaceInv /\ KindInv /\ StorageInv

LEMMA InvInit == Init => Inv
<1> SUFFICES ASSUME Init PROVE Inv
  OBVIOUS
<1> USE CallFacts DEF Init, Ftp!Init, Ftp!CallsInit, Ftp!FsInit, Ftp!Calls, S3!Init, S3!CallsInit,
                      S3!Calls, Calls
<1>1. CallInv /\ PlaceInv
  BY InitInv DEF PlaceInv
<1>2. << >> \in Contents
  BY DEF Contents
<1>3. KindInv
  BY DEF KindInv
<1>4. /\ \A c \in Calls : pc[c] = "begin" /\ result[c] = Absent
      /\ pc \in [Calls -> {"begin"}] /\ result \in [Calls -> {Absent}]
      /\ copied \in [Uploads -> Nat] /\ \A u \in Uploads : copied[u] = 0
      /\ got \in [Reads -> Contents] /\ \A r \in Reads : got[r] = << >>
      /\ raced = {}
  BY <1>2
<1>5. \A u \in Uploads : u \notin Writing
  BY <1>4 DEF Writing
<1>6. FileInv
  <2>1. HandlesInv
    BY <1>2, <1>4 DEF HandlesInv, AtWork
  <2>2. PlacesInv
    BY <1>4 DEF PlacesInv
  <2>3. WriterInv
    BY <1>5 DEF WriterInv, Writing
  <2>4. LastInv
    BY DEF LastInv
  <2>5. ReaderInv
    BY <1>4 DEF ReaderInv
  <2> QED
    BY <2>1, <2>2, <2>3, <2>4, <2>5 DEF FileInv
<1>7. CopierInv
  BY DEF CopierInv
<1>8. ObjectInv
  BY <1>4 DEF ObjectInv
<1> QED
  BY <1>1, <1>3, <1>4, <1>6, <1>7, <1>8 DEF Inv, StorageInv, HistoryInv

LEMMA InvStep == Inv /\ [Next]_vars => Inv'
<1> SUFFICES ASSUME Inv, [Next]_vars PROVE Inv'
  OBVIOUS
<1>1. CallInv' /\ PlaceInv'
  BY NextInv, PlaceStep DEF Inv
<1>2. CASE UNCHANGED vars
  <2> USE <1>2 DEF vars, ftpVars, callVars, fsVars, sftpVars
  <2>1. KindInv'
    BY DEF Inv, KindInv
  <2>2. Writing' = Writing
    BY DEF Writing
  <2>3. HistoryInv' /\ (driver = "ftp" => CopierInv')
    BY DEF Inv, StorageInv, HistoryInv, CopierInv
  <2>4. ASSUME driver # "s3" PROVE FileInv'
    <3>1. HandlesInv' /\ PlacesInv'
      BY <2>4 DEF Inv, StorageInv, FileInv, HandlesInv, PlacesInv
    <3>2. WriterInv' /\ LastInv'
      BY <2>2, <2>4 DEF Inv, StorageInv, FileInv, WriterInv, LastInv, Body
    <3>3. ReaderInv'
      BY <2>2, <2>4 DEF Inv, StorageInv, FileInv, ReaderInv, Bodies, Body, Excused
    <3> QED
      BY <3>1, <3>2, <3>3 DEF FileInv
  <2>5. ASSUME driver = "s3" PROVE ObjectInv'
    BY <2>5 DEF Inv, StorageInv, ObjectInv, Bodies, Body
  <2>6. StorageInv'
    BY <2>3, <2>4, <2>5 DEF StorageInv
  <2> QED
    BY <1>1, <2>1, <2>6 DEF Inv
<1>3. CASE Next
  <2>1. driver' = driver /\ Chronicle
    BY <1>3 DEF Next, Chronicle
  <2>2. KindInv'
    BY <1>3, KindStep DEF Inv
  <2>3. HistoryInv'
    BY <2>1, RacedTypes DEF Inv, StorageInv
  <2>4. driver # "s3" => FileInv'
    BY <1>3, FilesStep DEF Inv, StorageInv
  <2>5. driver = "ftp" => CopierInv'
    BY <1>3, CopierStep DEF Inv, StorageInv, FileInv, Next, Step
  <2>6. driver = "s3" => ObjectInv'
    BY <1>1, <1>3, <2>1, ObjectsStep DEF Inv, StorageInv, Next, Step
  <2>7. StorageInv'
    BY <2>1, <2>3, <2>4, <2>5, <2>6 DEF StorageInv
  <2> QED
    BY <1>1, <2>2, <2>7 DEF Inv
<1> QED
  BY <1>2, <1>3

LEMMA InvAlways == FairSpec => []Inv
<1>1. QED
  BY InvInit, InvStep, PTL DEF FairSpec

-----------------------------------------------------------------------------
\* The types of the calls, of the driver in use and of the history.
THEOREM TypeCorrect == FairSpec => []TypeOK
<1>1. Inv => TypeOK
  <2> SUFFICES ASSUME Inv PROVE TypeOK
    OBVIOUS
  <2> USE DEF Inv, CallInv, KindInv, StorageInv, HistoryInv
  <2>1. driver \in {"local", "ftp", "s3"}
    BY DriversAssumption
  <2>2. CASE driver = "local"
    <3>1. Local!TypeOK
      BY <2>2 DEF FileInv, HandlesInv, PlacesInv, Local!TypeOK, Local!CallsTypeOK, Local!FsTypeOK,
                  Local!Calls, Calls, Local!Contents, Local!Chunk, Contents, Chunk
    <3> QED
      BY <2>2, <3>1 DEF TypeOK, FileInv, LastInv
  <2>3. CASE driver = "ftp"
    <3>1. Ftp!TypeOK
      BY <2>3 DEF FileInv, HandlesInv, PlacesInv, Ftp!TypeOK, Ftp!CallsTypeOK, Ftp!FsTypeOK,
                  Ftp!Calls, Calls, Ftp!Contents, Ftp!Chunk, Contents, Chunk
    <3> QED
      BY <2>3, <3>1 DEF TypeOK, FileInv, LastInv
  <2>4. CASE driver = "s3"
    <3>1. \A u \in Uploads : Body(u) \in Contents
      BY BodyFacts, CallFacts DEF Body
    <3>2. objects \in [Names -> Contents \cup {Absent}]
      BY <2>4, <3>1 DEF ObjectInv, Bodies
    <3>3. S3!TypeOK
      BY <2>4, <3>2 DEF ObjectInv, S3!TypeOK, S3!CallsTypeOK, S3!Calls, Calls,
                        S3!Contents, S3!Chunk, Contents, Chunk
    <3> QED
      BY <2>4, <3>3 DEF TypeOK
  <2> QED
    BY <2>1, <2>2, <2>3, <2>4
<1> QED
  BY <1>1, InvAlways, PTL

\* A torn file has a cause: behind every driver, a name holds the body of one upload
\* unless the upload that began last there is under way, failed, was canceled or was
\* disturbed (local.go:27-37, ftp.go:86-118).
THEOREM TornIsExplained == FairSpec => []TornHasCause
<1>1. Inv => TornHasCause
  <2> SUFFICES ASSUME Inv, NEW n \in Names, Holds(n) \notin Bodies \cup {Absent}
               PROVE  /\ driver # "s3"
                      /\ last[n] \in Writing \cup raced \/ result[last[n]] \in {"error", "canceled"}
    BY DEF TornHasCause
  <2>1. driver # "s3"
    BY DEF Holds, Inv, StorageInv, ObjectInv
  <2>2. FileInv
    BY <2>1 DEF Inv, StorageInv
  <2>3. dir[n] # Absent /\ data[dir[n]] \notin Bodies
    BY <2>1 DEF Holds, Exists
  <2>4. PICK u \in Uploads : u = last[n] /\ pc[u] \in AtWork \cup {"returned"}
    BY <2>2, <2>3 DEF FileInv, LastInv
  <2>5. CASE pc[u] # "returned"
    BY <2>1, <2>4, <2>5 DEF Writing, AtWork
  <2>6. CASE pc[u] = "returned"
    <3>1. result[u] \in {"ok", "error", "canceled"}
      BY <2>2, <2>6 DEF FileInv, PlacesInv
    <3>2. ASSUME result[u] = "ok", u \notin raced PROVE FALSE
      <4>1. data[dir[n]] = Body(u)
        BY <2>2, <2>3, <2>4, <3>2, CallFacts DEF FileInv, LastInv
      <4> QED
        BY <2>3, <4>1 DEF Bodies
    <3> QED
      BY <2>1, <2>4, <3>1, <3>2
  <2> QED
    BY <2>5, <2>6
<1> QED
  BY <1>1, InvAlways, PTL

\* A read that reached the end and met no writer got all of one upload, or an upload
\* of that name had gone wrong (local.go:51, ftp.go:155, s3.go:54).
THEOREM QuietReadsGetBodies == FairSpec => []QuietReadsAreWhole
<1>1. Inv => QuietReadsAreWhole
  <2> SUFFICES ASSUME Inv, NEW r \in Reads, result[r] = "ok", r \notin raced, got[r] \notin Bodies
               PROVE  driver # "s3" /\ Excused(NameOf[r])
    BY DEF QuietReadsAreWhole, Excused
  <2>1. driver # "s3"
    BY DEF Inv, StorageInv, ObjectInv
  <2> QED
    BY <2>1 DEF Inv, StorageInv, FileInv, ReaderInv
<1> QED
  BY <1>1, InvAlways, PTL

\* The step that returns without error.
LEMMA OkStep ==
  ASSUME Inv, Next, NEW u \in Uploads, result[u] # "ok", result'[u] = "ok", u \notin raced'
  PROVE  Holds(NameOf[u])' = Body(u)
<1>1. driver' = driver /\ u \notin raced /\ u \in Calls
  BY CallFacts DEF Next
<1>2. PICK n \in Names : n = NameOf[u]
  BY CallFacts
<1>3. result \in [Calls -> {Absent, "ok", "error", "canceled", "closed"}]
  BY DEF Inv, CallInv
<1>4. CASE driver # "s3"
  <2>1. FileInv
    BY <1>4 DEF Inv, StorageInv
  <2>2. FileStep
    <3>1. CASE driver = "local"
      BY <2>1, <3>1, LocalFileStep DEF Next, Step, FileInv
    <3>2. CASE driver = "ftp"
      BY <2>1, <3>2, FtpFileStep DEF Next, Step, Inv, StorageInv, FileInv
    <3> QED
      BY <1>4, <3>1, <3>2 DEF Next, Step
  <2>3. Ends(u, "ok")
    <3>1. ASSUME NEW c \in Calls, NEW to, Passes(c, to) PROVE FALSE
      BY <3>1 DEF Passes, Goto
    <3>2. ASSUME NEW c \in Calls, NEW res, Ends(c, res) PROVE Ends(u, "ok")
      BY <1>1, <1>3, <3>2 DEF Ends, Returned
    <3>3. ASSUME NEW v \in Uploads, Starts(v) \/ Fumbles(v) \/ Copies(v) PROVE FALSE
      BY <1>1, <1>3, <3>3 DEF Starts, Fumbles, Copies, Goto, Returned
    <3>4. ASSUME NEW d \in Deletes, NEW res, Removes(d, res) PROVE FALSE
      BY <1>1, <1>3, <3>4, CallFacts DEF Removes, Returned
    <3>5. ASSUME NEW r \in Reads, Opens(r) \/ ReadsOn(r) PROVE FALSE
      BY <1>1, <1>3, <3>5, CallFacts DEF Opens, ReadsOn, Goto, Returned
    <3>6. CASE UNCHANGED <<callVars, fsVars>>
      BY <3>6 DEF callVars
    <3> QED
      BY <2>2, <3>1, <3>2, <3>3, <3>4, <3>5, <3>6 DEF FileStep
  <2>4. u \in Writing /\ copied[u] = SizeOf[u] /\ UNCHANGED fsVars
    BY <2>3 DEF Ends, Writing, AtWork
  <2>5. dir[n] = handle[u] /\ data[handle[u]] = Body(u)
    BY <1>1, <1>2, <2>1, <2>4 DEF FileInv, WriterInv, Body
  <2>6. handle[u] # Absent
    BY <2>1, <2>4, Busy DEF FileInv, HandlesInv
  <2>7. Held(n)' = Body(u)
    BY <2>4, <2>5, <2>6 DEF Held, fsVars
  <2> QED
    BY <1>1, <1>2, <1>4, <2>7, HoldsIsHeld
<1>5. CASE driver = "s3"
  <2>1. PICK c \in Calls : \/ S3!Begin(c) \/ S3!CopyChunk(c) \/ S3!Complete(c) \/ S3!Delete(c)
                           \/ S3!Fetch(c) \/ S3!Answer(c) \/ S3!Fail(c)
    BY <1>5 DEF Next, Step, S3!Next, S3!Calls, Calls
  <2>2. c = u /\ pc[u] = "answering" /\ objects' = objects
    BY <1>1, <1>3, <2>1, CallFacts
       DEF S3!Begin, S3!CopyChunk, S3!Complete, S3!Delete, S3!Fetch, S3!Answer, S3!Fail,
           S3!Goto, S3!Returned
  <2> QED
    BY <1>1, <1>5, <2>2 DEF Inv, StorageInv, ObjectInv, Holds
<1> QED
  BY <1>4, <1>5

\* Success means the whole body, whichever driver took the upload: the step that
\* returns without error leaves all of the reader under the name (local.go:34,
\* ftp.go:104-118, s3.go:37).
THEOREM SuccessIsWhole == FairSpec => OkMeansWhole
<1>1. ASSUME Inv, [Next]_vars
      PROVE  [\A u \in Uploads : result[u] # "ok" /\ result'[u] = "ok" /\ u \notin raced'
                => Holds(NameOf[u])' = Body(u)]_vars
  <2>1. CASE UNCHANGED vars
    BY <2>1
  <2>2. CASE Next
    BY <1>1, <2>2, OkStep
  <2> QED
    BY <1>1, <2>1, <2>2
<1> QED
  BY <1>1, InvAlways, PTL DEF FairSpec, OkMeansWhole
=============================================================================
