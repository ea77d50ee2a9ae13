----------------------------- MODULE StorageCalls -----------------------------
(***************************************************************************)
(* The calls of the Storage interface (storage.go), whichever driver       *)
(* serves them: uploads, deletes, and reads (Open ... Close, and Stat),    *)
(* each about one name.                                                    *)
(*                                                                         *)
(* The contents of a file is a sequence of chunks, and a chunk is known by *)
(* the upload whose reader it came from; Absent stands for a gap that no   *)
(* upload wrote.                                                           *)
(***************************************************************************)
EXTENDS Naturals, Sequences

CONSTANTS Uploads, Deletes, Reads,  \* calls, each made once
          Names,                    \* file names
          NameOf,                   \* the name each call is about
          SizeOf,                   \* chunks in the reader of each upload
          Absent,
          Faults                    \* may a disk, network, server or reader fail?

Calls == Uploads \cup Deletes \cup Reads

ASSUME CallsAssumption ==
  /\ NameOf \in [Calls -> Names] /\ SizeOf \in [Uploads -> Nat]
  /\ Uploads \cap Deletes = {} /\ Uploads \cap Reads = {} /\ Deletes \cap Reads = {}
  /\ Absent \notin Uploads /\ Absent \notin Seq(Uploads) /\ Faults \in BOOLEAN
  /\ Absent \notin {"ok", "error", "canceled", "closed"}

VARIABLES pc,      \* call: what its goroutine does next
          result,  \* call: what it returned
          copied,  \* upload: chunks taken from its reader
          got      \* read: the chunks its caller received

callVars == <<pc, result, copied, got>>

Chunk    == Uploads \cup {Absent}
Contents == Seq(Chunk)

\* All that the reader of an upload holds.
Body(u) == [k \in 1..SizeOf[u] |-> u]

CallsInit == /\ pc = [c \in Calls |-> "begin"]
             /\ result = [c \in Calls |-> Absent]
             /\ copied = [u \in Uploads |-> 0]
             /\ got = [r \in Reads |-> << >>]

Goto(c, label) == pc' = [pc EXCEPT ![c] = label] /\ UNCHANGED result

Returned(c, res) == /\ pc' = [pc EXCEPT ![c] = "returned"]
                    /\ result' = [result EXCEPT ![c] = res]

\* What a call may hold, whoever serves it.
CallsTypeOK ==
  /\ result \in [Calls -> {Absent, "ok", "error", "canceled", "closed"}]
  /\ copied \in [Uploads -> Nat] /\ \A u \in Uploads : copied[u] <= SizeOf[u]
  /\ got \in [Reads -> Contents]
=============================================================================
