------------------------------- MODULE Storage -------------------------------
(***************************************************************************)
(* The storage service: the driver that the configuration names, fixed when*)
(* NewStorage runs, and calls of the Storage interface that it serves.     *)
(* What callers may rely on whichever driver they got is stated here once  *)
(* for all three.                                                          *)
(*                                                                         *)
(* raced and last are history: no code reads them.                         *)
(***************************************************************************)
EXTENDS FileSystem, FiniteSets

CONSTANTS Drivers,  \* drivers a configuration may name
          MaxCalls  \* bound: how many of the calls are made

\* NewStorage refuses any other name.
ASSUME DriversAssumption == Drivers \subseteq {"local", "ftp", "s3"}

VARIABLES driver, objects, conn, done, copier, ch,
          raced,  \* uploads and reads that another writer of the name overlapped
          last    \* name: the upload that began last to write it

Local == INSTANCE LocalStorage
Ftp   == INSTANCE SftpStorage
S3    == INSTANCE S3Storage

sftpVars == <<conn, done, copier, ch>>
ftpVars == <<callVars, fsVars, sftpVars>>
vars == <<ftpVars, objects, driver, raced, last>>

\* What a reader who comes now would find under a name.
Holds(n) == IF driver = "s3" THEN objects[n]
            ELSE IF Exists(n) THEN data[dir[n]] ELSE Absent

Bodies == {Body(u) : u \in Uploads}

\* Uploads that are under way, reads that have their file open.
Writing == {u \in Uploads : pc[u] \in {"copying", "select", "closing", "answering"}}
Reading == {r \in Reads : pc[r] \in {"reading", "answering"}}

\* In this step u began to write, or failed to, but not without a trace.
Begins(u) == /\ u \notin Writing /\ pc[u] # "returned"
             /\ u \in Writing' \/ (pc'[u] = "returned" /\ Holds(NameOf[u])' # Holds(NameOf[u]))

\* In this step somebody disturbs a call about n that is under way.
Disturbed(c) ==
  \/ \E u \in Writing' \ {c} : NameOf[u] = NameOf[c]
  \/ \E u \in Uploads \ {c} : NameOf[u] = NameOf[c] /\ Begins(u)
  \/ c \in Uploads /\ Holds(NameOf[c]) # Absent /\ Holds(NameOf[c])' = Absent

\* NewStorage
Init == /\ driver \in Drivers
        /\ Ftp!Init /\ S3!Init
        /\ raced = {}
        /\ last = [n \in Names |-> Absent]

Step == \/ driver = "local" /\ Local!Next /\ UNCHANGED <<objects, sftpVars>>
        \/ driver = "ftp"   /\ Ftp!Next   /\ UNCHANGED objects
        \/ driver = "s3"    /\ S3!Next    /\ UNCHANGED <<fsVars, sftpVars>>

Next == /\ UNCHANGED driver
        /\ Step
        /\ Cardinality({c \in Calls : pc'[c] # "begin"}) <= MaxCalls
        /\ raced' = raced \cup {c \in Writing' \cup Reading' : Disturbed(c)}
        /\ last' = [n \in Names |->
             IF \E u \in Uploads : NameOf[u] = n /\ Begins(u)
             THEN CHOOSE u \in Uploads : NameOf[u] = n /\ Begins(u)
             ELSE last[n]]

FairSpec == /\ Init /\ [][Next]_vars
            /\ \A c \in Calls : WF_ftpVars(driver = "ftp" /\ pc[c] # "begin" /\ ~Ftp!Locked(c)
                                            /\ Ftp!Serve(c))
            /\ \A u \in Uploads : WF_ftpVars(driver = "ftp" /\ Ftp!Send(u))

-----------------------------------------------------------------------------
(* Properties. *)

\* Types, and the state of the two drivers that are not in use.
TypeOK ==
  /\ driver \in Drivers
  /\ raced \subseteq Uploads \cup Reads
  /\ last \in [Names -> Uploads \cup {Absent}]
  /\ CASE driver = "local" -> Local!TypeOK
       [] driver = "ftp"   -> Ftp!TypeOK
       [] driver = "s3"    -> S3!TypeOK

\* When an upload that nobody disturbed returns without error, its name holds all
\* of its reader, whichever driver took it: an error of the copy, and a cancel
\* that races its end, are never taken for success (local.go:34, ftp.go:104-118,
\* s3.go:37).
OkMeansWhole ==
  [][\A u \in Uploads : result[u] # "ok" /\ result'[u] = "ok" /\ u \notin raced'
       => Holds(NameOf[u])' = Body(u)]_vars

\* A file is torn (cut off, mixed or with gaps) only while the upload that began
\* last is under way, or because that one failed, was canceled or was disturbed:
\* an upload that succeeded alone repairs whatever was there before.  The object
\* store never holds a torn object (local.go:27-37, ftp.go:86-118).
TornHasCause ==
  \A n \in Names :
     Holds(n) \notin Bodies \cup {Absent} =>
       /\ driver # "s3"
       /\ last[n] \in Writing \cup raced \/ result[last[n]] \in {"error", "canceled"}

\* A read that reached the end and met no writer got all of one upload, or some
\* earlier upload had gone wrong (local.go:51, ftp.go:155, s3.go:54).
QuietReadsAreWhole ==
  \A r \in Reads :
     result[r] = "ok" /\ r \notin raced =>
       \/ got[r] \in Bodies
       \/ /\ driver # "s3"
          /\ \E u \in Uploads : /\ NameOf[u] = NameOf[r]
                                /\ u \in raced \/ result[u] \in {"error", "canceled"}

\* Behind the S3 driver every call takes effect as a whole, at one moment, or has
\* none: it implements AtomicStorage (s3.go:36-64).
S3IsAtomic ==
  [][driver = "s3" => S3!Atomic!Next]_<<driver, objects, S3!Phase, got>>

\* Once an SFTP upload has returned, by whatever branch, its goroutine, still
\* copying or not, does not change any file: another writer of the name is
\* undisturbed (ftp.go:70-71,91,106-108).
SilentAfterReturn ==
  [][\A u \in Uploads : (pc[u] = "returned" /\ copied'[u] # copied[u]) => data' = data]_vars

\* No SFTP call leaves its connection open, wherever it fails, with a client on it
\* or only dialed (ftp.go:54-57,70,106,148,167).
NoConnectionLeaks == \A c \in Calls : pc[c] = "returned" => conn[c] = "none"

\* A copying goroutine that is done copying ends, also when nobody waits for its
\* result any more (ftp.go:97).
CopierEnds == \A u \in Uploads : copier[u] \in {"ok", "error"} ~> copier[u] = "ended"
=============================================================================
