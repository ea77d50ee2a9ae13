------------------------------ MODULE FileSystem ------------------------------
(***************************************************************************)
(* The file system under the local and the SFTP driver, as its calls show  *)
(* it: names, the files they stand for, and the handles that calls hold.   *)
(* It is no part of the program.                                           *)
(*                                                                         *)
(* A handle stays on its file when the name goes, so two handles are on    *)
(* one file, or on two files that had one name, one after the other.  A    *)
(* file is named for the upload that made it.                              *)
(***************************************************************************)
EXTENDS StorageCalls

VARIABLES dir,    \* name: the file it stands for
          data,   \* file: its contents
          handle  \* upload, read: the file it has open

fsVars == <<dir, data, handle>>

FsInit == /\ dir = [n \in Names |-> Absent]
          /\ data = [f \in Uploads |-> << >>]
          /\ handle = [c \in Uploads \cup Reads |-> Absent]

Exists(n) == dir[n] # Absent

\* Variant: an existing file is opened as it is.
FsCreateKeeps(u) ==
  LET n == NameOf[u]
      f == IF Exists(n) THEN dir[n] ELSE u IN
  /\ dir' = [dir EXCEPT ![n] = f]
  /\ handle' = [handle EXCEPT ![u] = f]
  /\ UNCHANGED data

\* O_CREATE | O_TRUNC: a new file, or the one of that name, emptied.
FsCreate(u) ==
  LET n == NameOf[u]
      f == IF Exists(n) THEN dir[n] ELSE u IN
  /\ dir' = [dir EXCEPT ![n] = f]
  /\ handle' = [handle EXCEPT ![u] = f]
  /\ data' = [data EXCEPT ![f] = << >>]

\* The next chunk of an upload at the offset its handle has reached; a file that
\* was emptied meanwhile gets a gap.
FsWrite(u) ==
  LET k == copied[u] + 1
      old == data[handle[u]]
      len == IF k > Len(old) THEN k ELSE Len(old) IN
  /\ data' = [data EXCEPT ![handle[u]] =
       [j \in 1..len |-> IF j = k THEN u ELSE IF j <= Len(old) THEN old[j] ELSE Absent]]
  /\ copied' = [copied EXCEPT ![u] = k]

\* The name goes; open handles keep the file.
FsRemove(n) == dir' = [dir EXCEPT ![n] = Absent]

FsOpen(r) == handle' = [handle EXCEPT ![r] = dir[NameOf[r]]]

\* The next chunk of an open file, which others may be writing.
FsRead(r) ==
  LET text == data[handle[r]]
      k == Len(got[r]) + 1 IN
  k <= Len(text) /\ got' = [got EXCEPT ![r] = Append(@, text[k])]

AtEnd(r) == Len(got[r]) >= Len(data[handle[r]])

FsTypeOK ==
  /\ dir \in [Names -> Uploads \cup {Absent}]
  /\ data \in [Uploads -> Contents]
  /\ handle \in [Uploads \cup Reads -> Uploads \cup {Absent}]
=============================================================================
