------------------------------ MODULE SftpStorage ------------------------------
(***************************************************************************)
(* The SFTP storage driver.  Every call dials a connection of its own and  *)
(* opens an SFTP client on it.  Upload starts a goroutine that copies the  *)
(* reader into the remote file and waits for it or for the end of its      *)
(* context, whichever select picks; the goroutine may outlive the call.    *)
(*                                                                         *)
(* Closing a remote file is a request to the server, and takes the lock    *)
(* that the copy holds (File.ReadFrom of pkg/sftp), perhaps for as long as *)
(* the reader blocks.  A write is applied before the call that makes it    *)
(* returns.                                                                *)
(***************************************************************************)
EXTENDS FileSystem

VARIABLES conn,    \* call: its connection, with a client on it when "open"
          done,    \* upload: its context is done
          copier,  \* upload: its copying goroutine
          ch       \* upload: the channel of capacity 1

sftpVars == <<conn, done, copier, ch>>

vars == <<callVars, fsVars, sftpVars>>

Init == /\ CallsInit /\ FsInit
        /\ conn = [c \in Calls |-> "none"]
        /\ done = [u \in Uploads |-> FALSE]
        /\ copier = [u \in Uploads |-> "none"]
        /\ ch = [u \in Uploads |-> Absent]

-----------------------------------------------------------------------------
\* Variant: the deferred Close calls are missing.
ReturnOpen(c, res) == Returned(c, res) /\ UNCHANGED conn

\* The call returns and its deferred functions close what it opened (no copy is
\* running then, so nothing holds the lock of the file).
Return(c, res) == /\ Returned(c, res)
                  /\ conn' = [conn EXCEPT ![c] = "none"]

\* connect, first half: ssh.Dial, up to the handshake of SSH.
Dial(c) ==
  /\ pc[c] = "begin"
  /\ \/ /\ conn' = [conn EXCEPT ![c] = "dialed"]
        /\ Goto(c, "client")
     \/ /\ Faults
        /\ Returned(c, "error") /\ UNCHANGED conn
  /\ UNCHANGED <<copied, got, fsVars, done, copier, ch>>

\* Variant: a failing NewClient leaves the SSH connection as it is.
NewClientLeaks(c) ==
  /\ pc[c] = "client"
  /\ \/ /\ conn' = [conn EXCEPT ![c] = "open"]
        /\ Goto(c, IF c \in Uploads THEN "create" ELSE "operate")
     \/ Faults /\ ReturnOpen(c, "error")
  /\ UNCHANGED <<copied, got, fsVars, done, copier, ch>>

\* connect, second half: sftp.NewClient on the dialed connection, which is closed
\* when it fails.
NewClient(c) ==
  /\ pc[c] = "client"
  /\ \/ /\ conn' = [conn EXCEPT ![c] = "open"]
        /\ Goto(c, IF c \in Uploads THEN "create" ELSE "operate")
     \/ Faults /\ Return(c, "error")
  /\ UNCHANGED <<copied, got, fsVars, done, copier, ch>>

\* Upload: MkdirAll, Create, and the goroutine is started.  A failing Create may
\* have been carried out.
Create(u) ==
  /\ pc[u] = "create"
  /\ \/ /\ FsCreate(u)
        /\ copier' = [copier EXCEPT ![u] = "copying"]
        /\ Goto(u, "select")
        /\ UNCHANGED conn
     \/ /\ Faults
        /\ UNCHANGED fsVars \/ FsCreate(u)
        /\ Return(u, "error")
        /\ UNCHANGED copier
  /\ UNCHANGED <<copied, got, done, ch>>

\* Variant: the end of the reader is not noticed.
CopyPastEnd(u) ==
  /\ copier[u] = "copying" /\ conn[u] = "open" /\ copied[u] <= SizeOf[u]
  /\ FsWrite(u)
  /\ UNCHANGED <<pc, result, got, dir, handle, sftpVars>>

\* io.Copy moves a chunk.
CopyChunk(u) ==
  /\ copier[u] = "copying" /\ conn[u] = "open" /\ copied[u] < SizeOf[u]
  /\ FsWrite(u)
  /\ UNCHANGED <<pc, result, got, dir, handle, sftpVars>>

\* io.Copy ends: at the end of the reader, or with an error of the reader, the
\* network or the closed connection.
CopyEnd(u) ==
  /\ copier[u] = "copying"
  /\ \/ /\ copied[u] = SizeOf[u] /\ conn[u] = "open"
        /\ copier' = [copier EXCEPT ![u] = "ok"]
     \/ /\ Faults \/ conn[u] # "open"
        /\ copier' = [copier EXCEPT ![u] = "error"]
  /\ UNCHANGED <<callVars, fsVars, conn, done, ch>>

\* Variant: the channel has no buffer.
SendUnbuffered(u) ==
  /\ copier[u] \in {"ok", "error"} /\ pc[u] = "select"
  /\ ch' = [ch EXCEPT ![u] = copier[u]]
  /\ copier' = [copier EXCEPT ![u] = "ended"]
  /\ UNCHANGED <<callVars, fsVars, conn, done>>

\* The goroutine reports into the buffered channel and ends.
Send(u) ==
  /\ copier[u] \in {"ok", "error"} /\ ch[u] = Absent
  /\ ch' = [ch EXCEPT ![u] = copier[u]]
  /\ copier' = [copier EXCEPT ![u] = "ended"]
  /\ UNCHANGED <<callVars, fsVars, conn, done>>

\* Variant: the error of the copy is not looked at.
SelectCopiedUnchecked(u) ==
  /\ pc[u] = "select" /\ ch[u] # Absent
  /\ ch' = [ch EXCEPT ![u] = Absent]
  /\ Return(u, "ok")
  /\ UNCHANGED <<copied, got, fsVars, done, copier>>

\* select: the copy is over.
SelectCopied(u) ==
  /\ pc[u] = "select" /\ ch[u] # Absent
  /\ ch' = [ch EXCEPT ![u] = Absent]
  /\ Return(u, ch[u])
  /\ UNCHANGED <<copied, got, fsVars, done, copier>>

\* select: the context is done, which it may pick although the copy is over, and
\* the remote file is asked to close.
SelectDone(u) ==
  /\ pc[u] = "select" /\ done[u]
  /\ Goto(u, "closing")
  /\ UNCHANGED <<copied, got, fsVars, sftpVars>>

\* The file is closed, with it the client and the connection, and Upload returns.
CloseCanceled(u) ==
  /\ pc[u] = "closing"
  /\ Return(u, "canceled")
  /\ UNCHANGED <<copied, got, fsVars, done, copier, ch>>

\* The closing waits for the lock that the copy holds.  (A copy that writes chunk
\* by chunk, of an io.WriterTo, gives it back in between.)
Locked(c) == pc[c] = "closing" /\ copier[c] = "copying"

\* The caller cancels, or the deadline passes; before the select nothing looks at
\* the context.
Cancel(u) == /\ ~done[u] /\ pc[u] = "select"
             /\ done' = [done EXCEPT ![u] = TRUE]
             /\ UNCHANGED <<callVars, fsVars, conn, copier, ch>>

Delete(d) ==
  LET n == NameOf[d] IN
  /\ d \in Deletes /\ pc[d] = "operate"
  /\ \/ Exists(n) /\ FsRemove(n) /\ Return(d, "ok")
     \/ Faults /\ (FsRemove(n) \/ UNCHANGED dir) /\ Return(d, "error")
     \/ ~Exists(n) /\ Return(d, "error") /\ UNCHANGED dir
  /\ UNCHANGED <<copied, got, data, handle, done, copier, ch>>

\* Open, which closes the connection when it fails, and Stat, which ends here.
Open(r) ==
  /\ r \in Reads /\ pc[r] = "operate"
  /\ \/ Exists(NameOf[r]) /\ FsOpen(r) /\ Goto(r, "reading") /\ UNCHANGED conn
     \/ Exists(NameOf[r]) /\ Return(r, "closed") /\ UNCHANGED handle
     \/ (Faults \/ ~Exists(NameOf[r])) /\ Return(r, "error") /\ UNCHANGED handle
  /\ UNCHANGED <<copied, got, dir, data, done, copier, ch>>

\* The caller reads a chunk of the file that Open returned.
ReadChunk(r) == /\ pc[r] = "reading" /\ FsRead(r)
                /\ UNCHANGED <<pc, result, copied, fsVars, sftpVars>>

\* It closes the file, at the end or before it, and with it the client and the
\* connection (sftpFileWrapper).
Close(r) == /\ pc[r] = "reading"
            /\ (AtEnd(r) /\ Return(r, "ok")) \/ Return(r, "closed")
            /\ UNCHANGED <<copied, got, fsVars, done, copier, ch>>

Serve(c) == \/ Dial(c) \/ NewClient(c)
            \/ c \in Uploads /\ (Create(c) \/ SelectCopied(c))
            \/ c \in Uploads /\ (SelectDone(c) \/ CloseCanceled(c))
            \/ Delete(c) \/ Open(c)

Next == \/ \E c \in Calls : Serve(c)
        \/ \E u \in Uploads : CopyChunk(u) \/ CopyEnd(u) \/ Send(u) \/ Cancel(u)
        \/ \E r \in Reads : ReadChunk(r) \/ Close(r)

\* Goroutines run, and the calls that were made to the server return.  The reader
\* of an upload may block for ever, and a caller may keep a file open, so neither
\* the copy itself nor a closing that waits for it, nor reading, is fair.
Fairness == /\ \A c \in Calls : WF_vars(pc[c] # "begin" /\ ~Locked(c) /\ Serve(c))
            /\ \A u \in Uploads : WF_vars(Send(u))

FairSpec == Init /\ [][Next]_vars /\ Fairness

-----------------------------------------------------------------------------
\* Types.
TypeOK ==
  /\ CallsTypeOK /\ FsTypeOK
  /\ pc \in [Calls -> {"begin", "client", "create", "operate", "select", "closing",
                   "reading", "returned"}]
  /\ conn \in [Calls -> {"none", "dialed", "open"}]
  /\ done \in [Uploads -> BOOLEAN]
  /\ copier \in [Uploads -> {"none", "copying", "ok", "error", "ended"}]
  /\ ch \in [Uploads -> {Absent, "ok", "error"}]
=============================================================================
