----------------------------- MODULE LocalStorage -----------------------------
(***************************************************************************)
(* The local storage driver.  Upload creates the file under its final name *)
(* and copies the reader into it; Open hands out the file itself, and      *)
(* fiber's Static serves the same directory, so a file is read while it is *)
(* being written.  The context of Upload is not looked at.                 *)
(***************************************************************************)
EXTENDS FileSystem

vars == <<callVars, fsVars>>

Init == CallsInit /\ FsInit

\* os.Create, which leaves the file alone if it fails.
Create(u) ==
  /\ u \in Uploads /\ pc[u] = "begin"
  /\ \/ FsCreate(u) /\ Goto(u, "copying")
     \/ Faults /\ Returned(u, "error") /\ UNCHANGED fsVars
  /\ UNCHANGED <<copied, got>>

\* io.Copy moves a chunk.
CopyChunk(u) ==
  /\ u \in Uploads /\ pc[u] = "copying" /\ copied[u] < SizeOf[u]
  /\ FsWrite(u)
  /\ UNCHANGED <<pc, result, got, dir, handle>>

\* Variant: the error of the copy is not looked at.
CopyEndUnchecked(u) ==
  /\ u \in Uploads /\ pc[u] = "copying"
  /\ copied[u] = SizeOf[u] \/ Faults
  /\ Returned(u, "ok")
  /\ UNCHANGED <<copied, got, fsVars>>

\* io.Copy ends: at the end of the reader, or with an error of the reader or of
\* the disk, which leaves the chunks that were written under the final name.
CopyEnd(u) ==
  /\ u \in Uploads /\ pc[u] = "copying"
  /\ \/ copied[u] = SizeOf[u] /\ Returned(u, "ok")
     \/ Faults /\ Returned(u, "error")
  /\ UNCHANGED <<copied, got, fsVars>>

\* os.Remove
Delete(d) ==
  LET n == NameOf[d] IN
  /\ d \in Deletes /\ pc[d] = "begin"
  /\ \/ Exists(n) /\ FsRemove(n) /\ Returned(d, "ok")
     \/ (Faults \/ ~Exists(n)) /\ Returned(d, "error") /\ UNCHANGED dir
  /\ UNCHANGED <<copied, got, data, handle>>

\* os.Open, and os.Stat, which ends there.
Open(r) ==
  /\ r \in Reads /\ pc[r] = "begin"
  /\ \/ /\ Exists(NameOf[r]) /\ FsOpen(r)
        /\ Goto(r, "reading") \/ Returned(r, "closed")
     \/ (Faults \/ ~Exists(NameOf[r])) /\ Returned(r, "error") /\ UNCHANGED handle
  /\ UNCHANGED <<copied, got, dir, data>>

\* The caller reads, chunk by chunk, to the end or until it closes the file.
ReadChunk(r) == /\ pc[r] = "reading" /\ FsRead(r)
                /\ UNCHANGED <<pc, result, copied, fsVars>>

ReadEnd(r) == /\ pc[r] = "reading"
              /\ (AtEnd(r) /\ Returned(r, "ok")) \/ Returned(r, "closed")
              /\ UNCHANGED <<copied, got, fsVars>>

Serve(c) == Create(c) \/ CopyChunk(c) \/ CopyEnd(c) \/ Delete(c)
            \/ Open(c) \/ (c \in Reads /\ (ReadChunk(c) \/ ReadEnd(c)))

Next == \E c \in Calls : Serve(c)

Spec == Init /\ [][Next]_vars

\* Types.
TypeOK == /\ CallsTypeOK /\ FsTypeOK
          /\ pc \in [Calls -> {"begin", "copying", "reading", "returned"}]
=============================================================================
