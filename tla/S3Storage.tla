------------------------------- MODULE S3Storage -------------------------------
(***************************************************************************)
(* The S3 storage driver: requests to an object store, made by the minio   *)
(* client.  PutObject with an unknown size sends the reader in parts, and  *)
(* the object appears when the last request completes them; GetObject      *)
(* makes no request before its object is read.  The context of Upload is   *)
(* not looked at: every request runs under one that never ends.            *)
(*                                                                         *)
(* The object store is external: a request takes effect at once, as a      *)
(* whole, and its answer may be lost.                                      *)
(***************************************************************************)
EXTENDS StorageCalls

VARIABLE objects  \* name: the contents of its object

vars == <<callVars, objects>>

Init == CallsInit /\ objects = [n \in Names |-> Absent]

\* PutObject begins a multipart upload, or deleting and reading begin.
Begin(c) == /\ pc[c] = "begin"
            /\ Goto(c, IF c \in Uploads THEN "copying"
                       ELSE IF c \in Reads THEN "reading" ELSE "deleting")
            /\ UNCHANGED <<copied, got, objects>>

\* A part is sent; nobody can see it.
CopyChunk(u) == /\ u \in Uploads /\ pc[u] = "copying" /\ copied[u] < SizeOf[u]
                /\ copied' = [copied EXCEPT ![u] = @ + 1]
                /\ UNCHANGED <<pc, result, got, objects>>

\* Variant: every part is an object.
CompleteEarly(u) ==
  /\ u \in Uploads /\ pc[u] = "copying"
  /\ objects' = [objects EXCEPT ![NameOf[u]] = [k \in 1..copied[u] |-> u]]
  /\ IF copied[u] = SizeOf[u] THEN Goto(u, "answering") ELSE UNCHANGED <<pc, result>>
  /\ UNCHANGED <<copied, got>>

\* All parts were sent: the object of that name is replaced.
Complete(u) == /\ u \in Uploads /\ pc[u] = "copying" /\ copied[u] = SizeOf[u]
               /\ objects' = [objects EXCEPT ![NameOf[u]] = Body(u)]
               /\ Goto(u, "answering")
               /\ UNCHANGED <<copied, got>>

\* RemoveObject, which is content with an object that is not there.
Delete(d) == /\ pc[d] = "deleting"
             /\ objects' = [objects EXCEPT ![NameOf[d]] = Absent]
             /\ Goto(d, "answering")
             /\ UNCHANGED <<copied, got>>

\* The first Read of the object: one request for all of it.
Fetch(r) == /\ pc[r] = "reading"
            /\ objects[NameOf[r]] # Absent
            /\ got' = [got EXCEPT ![r] = objects[NameOf[r]]]
            /\ Goto(r, "answering")
            /\ UNCHANGED <<copied, objects>>

\* The answer arrives, or it does not.
Answer(c) == /\ pc[c] = "answering"
             /\ Returned(c, "ok") \/ (Faults /\ Returned(c, "error"))
             /\ UNCHANGED <<copied, got, objects>>

\* A request or the reader fails (the parts are thrown away), there is no object
\* to read, or the caller closes it unread, or asks StatObject only.
Fail(c) == /\ \/ Faults /\ pc[c] \in {"copying", "deleting", "reading"}
                 /\ Returned(c, "error")
              \/ /\ pc[c] = "reading"
                 /\ (objects[NameOf[c]] = Absent /\ Returned(c, "error"))
                    \/ Returned(c, "closed")
           /\ UNCHANGED <<copied, got, objects>>

Next == \E c \in Calls : \/ Begin(c) \/ CopyChunk(c) \/ Complete(c) \/ Delete(c)
                         \/ Fetch(c) \/ Answer(c) \/ Fail(c)

Spec == Init /\ [][Next]_vars

\* Types.
TypeOK == /\ CallsTypeOK
          /\ pc \in [Calls -> {"begin", "copying", "deleting", "reading",
                               "answering", "returned"}]
          /\ objects \in [Names -> Contents \cup {Absent}]

-----------------------------------------------------------------------------
\* Where a call stands as its caller could know it.
Phase == [c \in Calls |-> CASE pc[c] = "answering" -> "effective"
                            [] pc[c] = "returned"  -> result[c]
                            [] OTHER               -> "open"]

Atomic == INSTANCE AtomicStorage WITH
            stored <- objects, phase <- Phase,
            BodyOf <- [u \in Uploads |-> Body(u)],
            Nothing <- Absent, Unread <- << >>
=============================================================================
