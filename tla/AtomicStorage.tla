---------------------------- MODULE AtomicStorage ----------------------------
(***************************************************************************)
(* The strongest storage a caller could hope for: every call takes effect  *)
(* as a whole, at one moment between its begin and its return, or has no   *)
(* effect at all.  An upload that returned without error took effect, and  *)
(* a read gets what one upload stored.  A call that returned an error may  *)
(* have taken effect (its answer was lost).                                *)
(***************************************************************************)
EXTENDS Naturals

CONSTANTS Uploads, Deletes, Reads, Names, NameOf,
          BodyOf,   \* what each upload stores
          Nothing,  \* where nothing is stored
          Unread    \* what a read has before it takes effect

VARIABLES stored,  \* name: what is stored
          phase,   \* call: open, effective, or what it returned
          got      \* read: what it got

Calls == Uploads \cup Deletes \cup Reads

Init == /\ stored = [n \in Names |-> Nothing]
        /\ phase = [c \in Calls |-> "open"]
        /\ got = [r \in Reads |-> Unread]

Turn(c, from, to) == phase[c] = from /\ phase' = [phase EXCEPT ![c] = to]

Put(u) == /\ Turn(u, "open", "effective")
          /\ stored' = [stored EXCEPT ![NameOf[u]] = BodyOf[u]]
          /\ UNCHANGED got

Remove(d) == /\ Turn(d, "open", "effective")
             /\ stored' = [stored EXCEPT ![NameOf[d]] = Nothing]
             /\ UNCHANGED got

Fetch(r) == /\ Turn(r, "open", "effective")
            /\ stored[NameOf[r]] # Nothing
            /\ got' = [got EXCEPT ![r] = stored[NameOf[r]]]
            /\ UNCHANGED stored

\* The call returns.
Answer(c) == /\ \E res \in {"ok", "error", "closed"} : Turn(c, "effective", res)
             /\ UNCHANGED <<stored, got>>

\* It returns without having had any effect.
Fail(c) == /\ \E res \in {"error", "closed"} : Turn(c, "open", res)
           /\ UNCHANGED <<stored, got>>

Next == \/ \E u \in Uploads : Put(u)
        \/ \E d \in Deletes : Remove(d)
        \/ \E r \in Reads : Fetch(r)
        \/ \E c \in Calls : Answer(c) \/ Fail(c)

Spec == Init /\ [][Next]_<<stored, phase, got>>
=============================================================================
