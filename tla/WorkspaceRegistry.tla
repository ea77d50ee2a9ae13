-------------------------- MODULE WorkspaceRegistry --------------------------
(***************************************************************************)
(* What the workspace module promises its callers, with no handler, no     *)
(* statement and no interleaving in sight: a table of workspaces, and for  *)
(* every request one verdict.  A request takes effect in ONE indivisible   *)
(* step, the step that decides its verdict; a refused request leaves the   *)
(* table alone, unless the answer to its change was lost; only the owner   *)
(* of a row changes it; a deleted row is never touched again; an (owner,   *)
(* name) pair occurs once.                                                 *)
(***************************************************************************)
EXTENDS Naturals, Sequences

CONSTANTS Requests,  \* the requests clients make
          Users,     \* user ids
          Names,     \* workspace names
          Descs,     \* descriptions
          Absent,    \* a nil pointer
          InitRows,  \* the table before the first request
          Lost       \* may a request take effect and be told it failed?

VARIABLES table,     \* sequence of rows; the id of a row is its index
          outcome    \* the verdict on each request

regVars == <<table, outcome>>

Row == [owner: Users, name: Names, desc: Descs \cup {Absent},
        public: BOOLEAN, deleted: BOOLEAN]

Open        == [verdict |-> "open",     by |-> Absent]
Refused(u)  == [verdict |-> "refused",  by |-> u]
Accepted(u) == [verdict |-> "accepted", by |-> u]

\* What the caller of a change that was made may be told.
Told(u) == {Accepted(u)} \cup (IF Lost THEN {Refused(u)} ELSE {})

KeyOnce(t) == \A i, j \in DOMAIN t :
                (t[i].owner = t[j].owner /\ t[i].name = t[j].name) => i = j

Decide(r, verdicts) == /\ outcome[r] = Open
                       /\ \E v \in verdicts : outcome' = [outcome EXCEPT ![r] = v]

Init == /\ table = InitRows
        /\ outcome = [r \in Requests |-> Open]

\* A create is accepted: a private row of the caller appears.
Register(r, u) ==
  /\ Decide(r, Told(u))
  /\ \E row \in Row :
       /\ row.owner = u /\ ~row.public /\ ~row.deleted
       /\ table' = Append(table, row)
       /\ KeyOnce(table')

\* An update is accepted: one live row of the caller gets new contents.
Amend(r, u) ==
  /\ Decide(r, Told(u))
  /\ \E i \in DOMAIN table, row \in Row :
       /\ table[i].owner = u /\ ~table[i].deleted
       /\ row.owner = u /\ ~row.deleted
       /\ table' = [table EXCEPT ![i] = row]
       /\ KeyOnce(table')

\* A delete is accepted: one live row of the caller is marked deleted.
Retire(r, u) ==
  /\ Decide(r, Told(u))
  /\ \E i \in DOMAIN table :
       /\ table[i].owner = u /\ ~table[i].deleted
       /\ table' = [table EXCEPT ![i].deleted = TRUE]

\* A read, or a write that found its row already gone.
NoEffect(r, u) == Decide(r, {Accepted(u)}) /\ UNCHANGED table

\* Nobody's request (not authenticated, malformed) or somebody's is refused.
Refuse(r) == /\ Decide(r, {Refused(u) : u \in Users \cup {Absent}})
             /\ UNCHANGED table

Next == \E r \in Requests :
          \/ Refuse(r)
          \/ \E u \in Users : \/ Register(r, u) \/ Amend(r, u)
                              \/ Retire(r, u)   \/ NoEffect(r, u)

Spec == Init /\ [][Next]_regVars
=============================================================================
