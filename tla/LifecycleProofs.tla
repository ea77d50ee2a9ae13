---------------------------- MODULE LifecycleProofs ----------------------------
(***************************************************************************)
(* Proofs about Lifecycle, for any number of processes, requests and       *)
(* tables, whatever fails: a stop loses no request that was accepted       *)
(* before it, and processes that migrate side by side leave a complete     *)
(* schema.                                                                 *)
(***************************************************************************)
EXTENDS Lifecycle, TLAPS

-----------------------------------------------------------------------------
(* The stop. *)

\* A process has a handle, good or not, between its connect and its stop.
HandleOfHook(p) ==
  /\ hook[p] \in {"listen", "connect"} => handle[p] = "nil"
  /\ hook[p] \in {"has", "create", "started", "shutdown", "drain", "close"}
       => handle[p] \in {"open", "bad", "poolless"}
  /\ handle[p] = "closed" => hook[p] \in {"stopped", "exited", "crashed"}

\* A listener is closed by the shutdown only.
ListenerOfHook(p) ==
  /\ hook[p] = "listen" => listener[p] = "none"
  /\ hook[p] = "drain" => listener[p] = "closed"
  /\ listener[p] = "closed" => hook[p] \in {"drain", "close", "stopped", "exited", "crashed"}

\* A migration in progress is at one of the tables.
TableOfHook(p) ==
  /\ hook[p] \in {"listen", "connect"} => next[p] = 1
  /\ hook[p] \in {"has", "create"} => next[p] <= TableCount

\* A request was accepted by a process that listened.  If it was not late, it is
\* answered when the drain ends.  No process that ended runs any.
Accepted(q) ==
  /\ at[q] = Absent <=> reply[q] = "unsent"
  /\ at[q] # Absent => listener[at[q]] \in {"listening", "closed"}
  /\ at[q] # Absent /\ reply[q] = "open" => Alive(at[q])
  /\ at[q] # Absent /\ ~late[q] =>
       /\ hook[at[q]] \in {"close", "stopped"} => reply[q] # "open"
       /\ reply[q] = "lost" => hook[at[q]] = "crashed"
       /\ reply[q] # "handle closed"

StopInv == /\ TypeOK
           /\ \A p \in Procs : HandleOfHook(p) /\ ListenerOfHook(p) /\ TableOfHook(p)
           /\ \A q \in Requests : Accepted(q)

LEMMA InitStop == Init => StopInv
<1> SUFFICES ASSUME Init PROVE StopInv
  OBVIOUS
<1>1. TypeOK
  BY ProcsAssumption, TablesAssumption DEF Init, TypeOK, Models
<1>2. \A p \in Procs : HandleOfHook(p) /\ ListenerOfHook(p) /\ TableOfHook(p)
  BY DEF Init, HandleOfHook, ListenerOfHook, TableOfHook
<1>3. \A q \in Requests : Accepted(q)
  BY DEF Init, Accepted, Alive
<1> QED
  BY <1>1, <1>2, <1>3 DEF StopInv

\* What a step of one process may disturb is about that process and the requests
\* it accepted.
LEMMA OneProcess ==
  ASSUME StopInv, TypeOK', NEW p \in Procs,
         \A r \in Procs \ {p} : /\ hook'[r] = hook[r] /\ listener'[r] = listener[r]
                                /\ handle'[r] = handle[r] /\ next'[r] = next[r],
         \A q \in Requests : at'[q] # p => /\ at'[q] = at[q] /\ late'[q] = late[q]
                                           /\ reply'[q] = reply[q],
         HandleOfHook(p)', ListenerOfHook(p)', TableOfHook(p)',
         \A q \in Requests : at'[q] = p => Accepted(q)'
  PROVE  StopInv'
<1>1. ASSUME NEW r \in Procs
      PROVE  HandleOfHook(r)' /\ ListenerOfHook(r)' /\ TableOfHook(r)'
  <2>1. CASE r = p
    BY <2>1
  <2>2. CASE r # p
    BY <2>2 DEF StopInv, HandleOfHook, ListenerOfHook, TableOfHook
  <2> QED
    BY <2>1, <2>2
<1>2. ASSUME NEW q \in Requests PROVE Accepted(q)'
  <2>0. Accepted(q)
    BY DEF StopInv
  <2>1. CASE at'[q] = p
    BY <2>1
  <2>2. CASE at'[q] # p /\ at'[q] = Absent
    BY <2>0, <2>2 DEF Accepted
  <2>3. CASE at'[q] # p /\ at'[q] # Absent
    <3>1. at[q] \in Procs \ {p} /\ at'[q] = at[q]
      BY <2>3 DEF StopInv, TypeOK
    <3>2. hook'[at[q]] = hook[at[q]] /\ listener'[at[q]] = listener[at[q]]
      BY <3>1
    <3>3. late'[q] = late[q] /\ reply'[q] = reply[q]
      BY <2>3
    <3> QED
      BY <2>0, <2>3, <3>1, <3>2, <3>3 DEF Accepted, Alive
  <2> QED
    BY <2>1, <2>2, <2>3
<1> QED
  BY <1>1, <1>2 DEF StopInv

\* What is known of one process, and of a request it accepted.
LEMMA Known ==
  ASSUME StopInv, NEW p \in Procs
  PROVE  /\ TypeOK /\ HandleOfHook(p) /\ ListenerOfHook(p) /\ TableOfHook(p)
         /\ \A q \in Requests : Accepted(q)
         /\ p # Absent
  BY ProcsAssumption DEF StopInv

\* The end of a process, in order or not.
LEMMA EndStop ==
  ASSUME StopInv, NEW p \in Procs, NEW h \in {"exited", "crashed"},
         hook' = [hook EXCEPT ![p] = h],
         h = "exited" => hook[p] = "stopped",
         Alive(p), EndProcess(p),
         UNCHANGED <<listener, handle, migration, recovers, at, late>>
  PROVE  StopInv'
<1> USE DEF migration
<1>0. /\ TypeOK /\ HandleOfHook(p) /\ ListenerOfHook(p) /\ TableOfHook(p)
      /\ \A s \in Requests : Accepted(s)
      /\ p # Absent
  BY Known
<1>1. /\ hook'[p] = h /\ \A r \in Procs \ {p} : hook'[r] = hook[r]
      /\ hook' \in [Procs -> {"listen", "connect", "has", "create", "started", "shutdown",
                              "drain", "close", "stopped", "exited", "crashed"}]
  BY <1>0 DEF TypeOK
<1>2. \A s \in Requests : reply'[s] = IF at[s] = p /\ reply[s] = "open" THEN "lost"
                                                                       ELSE reply[s]
  BY DEF EndProcess, InProgress
<1>3. reply' \in [Requests -> {"unsent", "open", "ok", "error", "panic",
                               "handle closed", "lost"}]
  BY <1>0 DEF TypeOK, EndProcess
<1>4. TypeOK'
  BY <1>0, <1>1, <1>3 DEF TypeOK, Models
<1>5. HandleOfHook(p)' /\ ListenerOfHook(p)' /\ TableOfHook(p)'
  BY <1>0, <1>1 DEF HandleOfHook, ListenerOfHook, TableOfHook, Alive
<1>6. ASSUME NEW s \in Requests, at'[s] = p PROVE Accepted(s)'
  <2>1. Accepted(s) /\ at[s] = p /\ at'[s] = p /\ late'[s] = late[s]
    BY <1>0, <1>6
  <2>2. CASE reply[s] = "open"
    <3>1. reply'[s] = "lost"
      BY <1>2, <2>1, <2>2
    <3> QED
      BY <1>0, <1>1, <2>1, <2>2, <3>1 DEF Accepted
  <2>3. CASE reply[s] # "open"
    <3>1. reply'[s] = reply[s]
      BY <1>2, <2>3
    <3> QED
      BY <1>0, <1>1, <2>1, <2>3, <3>1 DEF Accepted, Alive
  <2> QED
    BY <2>2, <2>3
<1>7. \A s \in Requests : at'[s] # p => /\ at'[s] = at[s] /\ late'[s] = late[s]
                                        /\ reply'[s] = reply[s]
  BY <1>2
<1> QED
  BY <1>1, <1>4, <1>5, <1>6, <1>7, OneProcess

LEMMA DiesStop == ASSUME StopInv, NEW p \in Procs, Alive(p), Dies(p) PROVE StopInv'
  BY EndStop DEF Dies

\* The actions of the start.
LEMMA ListenStop == ASSUME StopInv, NEW p \in Procs, Listen(p) PROVE StopInv'
<1> USE DEF Listen, Step, migration, serving
<1>0. /\ TypeOK /\ HandleOfHook(p) /\ ListenerOfHook(p) /\ TableOfHook(p)
      /\ \A q \in Requests : Accepted(q)
      /\ p # Absent
  BY Known
<1>1. TypeOK'
  BY <1>0 DEF TypeOK
<1>2. hook'[p] = "connect" /\ listener'[p] = "starting"
  BY <1>0 DEF TypeOK
<1>3. HandleOfHook(p)' /\ ListenerOfHook(p)' /\ TableOfHook(p)'
  BY <1>0, <1>2 DEF HandleOfHook, ListenerOfHook, TableOfHook
<1>4. ASSUME NEW q \in Requests, at'[q] = p PROVE Accepted(q)'
  BY <1>0, <1>4 DEF Accepted, Alive, ListenerOfHook
<1>5. \A r \in Procs \ {p} : hook'[r] = hook[r] /\ listener'[r] = listener[r]
  BY <1>0 DEF TypeOK
<1> QED
  BY <1>1, <1>3, <1>4, <1>5, OneProcess

LEMMA BindStop == ASSUME StopInv, NEW p \in Procs, Bind(p) PROVE StopInv'
<1> USE DEF Bind, Alive, migration, serving
<1>0. /\ TypeOK /\ HandleOfHook(p) /\ ListenerOfHook(p) /\ TableOfHook(p)
      /\ \A q \in Requests : Accepted(q)
      /\ p # Absent
  BY Known
<1>1. PICK l \in {"listening", "failed"} : listener' = [listener EXCEPT ![p] = l]
  OBVIOUS
<1>2. TypeOK'
  BY <1>0, <1>1 DEF TypeOK
<1>3. listener'[p] = l /\ \A r \in Procs \ {p} : listener'[r] = listener[r]
  BY <1>0, <1>1 DEF TypeOK
<1>4. HandleOfHook(p)' /\ ListenerOfHook(p)' /\ TableOfHook(p)'
  BY <1>0, <1>3 DEF HandleOfHook, ListenerOfHook, TableOfHook
<1>5. ASSUME NEW q \in Requests, at'[q] = p PROVE Accepted(q)'
  BY <1>0, <1>5 DEF Accepted, Alive
<1> QED
  BY <1>2, <1>3, <1>4, <1>5, OneProcess

LEMMA ConnectStop == ASSUME StopInv, NEW p \in Procs, Connect(p) PROVE StopInv'
<1> USE DEF Connect, Step, migration, serving
<1>0. /\ TypeOK /\ HandleOfHook(p) /\ ListenerOfHook(p) /\ TableOfHook(p)
      /\ \A q \in Requests : Accepted(q)
      /\ p # Absent
  BY Known
<1>1. PICK h \in {"open", "bad", "poolless"} : handle' = [handle EXCEPT ![p] = h]
  OBVIOUS
<1>2. PICK s \in {"has", "started"} : hook' = [hook EXCEPT ![p] = s]
  OBVIOUS
<1>3. TypeOK'
  BY <1>0, <1>1, <1>2 DEF TypeOK
<1>4. /\ hook'[p] = s /\ handle'[p] = h
      /\ \A r \in Procs \ {p} : hook'[r] = hook[r] /\ handle'[r] = handle[r]
  BY <1>0, <1>1, <1>2 DEF TypeOK
<1>5. HandleOfHook(p)' /\ ListenerOfHook(p)'
  BY <1>0, <1>4 DEF HandleOfHook, ListenerOfHook
<1>6. TableOfHook(p)'
  BY <1>0, <1>4, TablesAssumption DEF TableOfHook
<1>7. ASSUME NEW q \in Requests, at'[q] = p PROVE Accepted(q)'
  BY <1>0, <1>4, <1>7 DEF Accepted, Alive
<1> QED
  BY <1>3, <1>4, <1>5, <1>6, <1>7, OneProcess

\* How a step of the migration goes on or ends.
LEMMA NextTableType ==
  ASSUME TypeOK, NEW p \in Procs, TableOfHook(p), NEW from \in {"has", "create"},
         NextTable(p, from)
  PROVE  /\ next' \in [Procs -> 1..(TableCount + 1)]
         /\ next' = [next EXCEPT ![p] = next[p] + 1]
         /\ next[p] \in 1..TableCount
         /\ hook[p] = from
         /\ \/ next[p] = TableCount /\ hook' = [hook EXCEPT ![p] = "started"]
            \/ next[p] < TableCount /\ hook' = [hook EXCEPT ![p] = "has"]
<1>1. hook[p] = from
  BY DEF NextTable, Step
<1>2. next \in [Procs -> 1..(TableCount + 1)] /\ TableCount \in Nat \ {0}
  BY TablesAssumption DEF TypeOK
<1>3. next[p] <= TableCount
  BY <1>1 DEF TableOfHook
<1>4. next[p] \in 1..TableCount
  BY <1>2, <1>3
<1>5. next' = [next EXCEPT ![p] = next[p] + 1]
  BY DEF NextTable
<1>6. next[p] + 1 \in 1..(TableCount + 1)
  BY <1>2, <1>4
<1>7. next' \in [Procs -> 1..(TableCount + 1)]
  BY <1>2, <1>5, <1>6
<1>8. \/ next[p] = TableCount /\ hook' = [hook EXCEPT ![p] = "started"]
      \/ next[p] < TableCount /\ hook' = [hook EXCEPT ![p] = "has"]
  <2>1. CASE next[p] = TableCount
    BY <2>1 DEF NextTable, Step
  <2>2. CASE next[p] # TableCount
    BY <1>2, <1>4, <2>2 DEF NextTable, Step
  <2> QED
    BY <2>1, <2>2
<1> QED
  BY <1>1, <1>4, <1>5, <1>7, <1>8

LEMMA AbandonType ==
  ASSUME TypeOK, NEW p \in Procs, NEW from \in {"has", "create"},
         NEW error \in {"exists", "fault"}, Abandon(p, from, error)
  PROVE  /\ logged' \in [Procs -> {"nothing", "exists", "fault"}]
         /\ logged' = [logged EXCEPT ![p] = "fault"] \/ logged' = [logged EXCEPT ![p] = error]
         /\ hook[p] = from
         /\ hook' = [hook EXCEPT ![p] = "started"]
<1>1. logged' = [logged EXCEPT ![p] = "fault"] \/ logged' = [logged EXCEPT ![p] = error]
  BY DEF Abandon
<1> QED
  BY <1>1 DEF TypeOK, Abandon, Step

\* A step of the migration, however it goes, is between two of its hooks.
LEMMA MigratingStop ==
  ASSUME StopInv, NEW p \in Procs,
         hook[p] \in {"has", "create"},
         NEW h \in {"has", "create", "started"}, hook' = [hook EXCEPT ![p] = h],
         next' \in [Procs -> 1..(TableCount + 1)],
         \A r \in Procs \ {p} : next'[r] = next[r],
         h \in {"has", "create"} => next'[p] <= TableCount,
         logged' \in [Procs -> {"nothing", "exists", "fault"}],
         tables' \subseteq Models,
         UNCHANGED <<listener, handle, serving>>
  PROVE  StopInv'
<1> USE DEF serving
<1>0. /\ TypeOK /\ HandleOfHook(p) /\ ListenerOfHook(p)
      /\ \A q \in Requests : Accepted(q)
      /\ p # Absent
  BY Known
<1>1. TypeOK'
  BY <1>0 DEF TypeOK, Models
<1>2. hook'[p] = h /\ \A r \in Procs \ {p} : hook'[r] = hook[r]
  BY <1>0 DEF TypeOK
<1>3. HandleOfHook(p)' /\ ListenerOfHook(p)' /\ TableOfHook(p)'
  BY <1>0, <1>2 DEF HandleOfHook, ListenerOfHook, TableOfHook
<1>4. ASSUME NEW q \in Requests, at'[q] = p PROVE Accepted(q)'
  BY <1>0, <1>2, <1>4 DEF Accepted, Alive
<1> QED
  BY <1>1, <1>2, <1>3, <1>4, OneProcess

LEMMA HasTableStop == ASSUME StopInv, NEW p \in Procs, HasTable(p) PROVE StopInv'
<1>0. TypeOK /\ TableOfHook(p)
  BY Known
<1>1. CASE /\ NextTable(p, "has") /\ UNCHANGED logged
           /\ UNCHANGED <<listener, handle, tables, serving>>
  <2>1. /\ next' \in [Procs -> 1..(TableCount + 1)]
        /\ next' = [next EXCEPT ![p] = next[p] + 1]
        /\ next[p] \in 1..TableCount
        /\ hook[p] = "has"
        /\ \/ next[p] = TableCount /\ hook' = [hook EXCEPT ![p] = "started"]
           \/ next[p] < TableCount /\ hook' = [hook EXCEPT ![p] = "has"]
    BY <1>0, <1>1, NextTableType
  <2>2. next'[p] = next[p] + 1 /\ \A r \in Procs \ {p} : next'[r] = next[r]
    BY <1>0, <2>1 DEF TypeOK
  <2>3. PICK h \in {"has", "started"} : /\ hook' = [hook EXCEPT ![p] = h]
                                        /\ h = "has" => next[p] < TableCount
    BY <2>1
  <2>4. h = "has" => next'[p] <= TableCount
    BY <2>1, <2>2, <2>3, TablesAssumption
  <2> QED
    BY <1>0, <1>1, <2>1, <2>2, <2>3, <2>4, MigratingStop DEF TypeOK
<1>2. CASE /\ Abandon(p, "has", "fault") /\ UNCHANGED next
           /\ UNCHANGED <<listener, handle, tables, serving>>
  <2>1. /\ logged' \in [Procs -> {"nothing", "exists", "fault"}]
        /\ hook[p] = "has"
        /\ hook' = [hook EXCEPT ![p] = "started"]
    BY <1>0, <1>2, AbandonType
  <2> QED
    BY <1>0, <1>2, <2>1, MigratingStop DEF TypeOK
<1>3. CASE /\ Step(p, "has", "create") /\ UNCHANGED next
           /\ UNCHANGED logged \/ logged' = [logged EXCEPT ![p] = "fault"]
           /\ UNCHANGED <<listener, handle, tables, serving>>
  <2>1. logged' \in [Procs -> {"nothing", "exists", "fault"}]
    BY <1>0, <1>3 DEF TypeOK
  <2>2. next'[p] <= TableCount
    BY <1>0, <1>3 DEF TableOfHook, Step
  <2> QED
    BY <1>0, <1>3, <2>1, <2>2, MigratingStop DEF TypeOK, Step
<1>4. CASE hook[p] = "has" /\ Dies(p)
  BY <1>4, DiesStop DEF Alive
<1> QED
  BY <1>1, <1>2, <1>3, <1>4 DEF HasTable

LEMMA CreateTableStop == ASSUME StopInv, NEW p \in Procs, CreateTable(p) PROVE StopInv'
<1>0. TypeOK /\ TableOfHook(p) /\ UNCHANGED <<listener, handle, serving>>
  BY Known DEF CreateTable
<1>1. CASE /\ tables' = tables \cup {next[p]}
           /\ NextTable(p, "create") /\ UNCHANGED logged
  <2>1. /\ next' \in [Procs -> 1..(TableCount + 1)]
        /\ next' = [next EXCEPT ![p] = next[p] + 1]
        /\ next[p] \in 1..TableCount
        /\ hook[p] = "create"
        /\ \/ next[p] = TableCount /\ hook' = [hook EXCEPT ![p] = "started"]
           \/ next[p] < TableCount /\ hook' = [hook EXCEPT ![p] = "has"]
    BY <1>0, <1>1, NextTableType
  <2>2. next'[p] = next[p] + 1 /\ \A r \in Procs \ {p} : next'[r] = next[r]
    BY <1>0, <2>1 DEF TypeOK
  <2>3. PICK h \in {"has", "started"} : /\ hook' = [hook EXCEPT ![p] = h]
                                        /\ h = "has" => next[p] < TableCount
    BY <2>1
  <2>4. h = "has" => next'[p] <= TableCount
    BY <2>1, <2>2, <2>3, TablesAssumption
  <2>5. tables' \subseteq Models
    BY <1>0, <1>1, <2>1 DEF TypeOK, Models
  <2> QED
    BY <1>0, <1>1, <2>1, <2>2, <2>3, <2>4, <2>5, MigratingStop DEF TypeOK
<1>2. CASE \E error \in {"exists", "fault"} :
             Abandon(p, "create", error) /\ UNCHANGED <<next, tables>>
  <2>1. /\ logged' \in [Procs -> {"nothing", "exists", "fault"}]
        /\ hook[p] = "create"
        /\ hook' = [hook EXCEPT ![p] = "started"]
    BY <1>0, <1>2, AbandonType
  <2> QED
    BY <1>0, <1>2, <2>1, MigratingStop DEF TypeOK
<1> QED
  BY <1>1, <1>2 DEF CreateTable

LEMMA StartDeadlineStop == ASSUME StopInv, NEW p \in Procs, StartDeadline(p) PROVE StopInv'
  BY DiesStop DEF StartDeadline, Alive

LEMMA OrphanedStop == ASSUME StopInv, NEW p \in Procs, Orphaned(p) PROVE StopInv'
  BY DiesStop DEF Orphaned

-----------------------------------------------------------------------------
(* Requests and the stop. *)

LEMMA AcceptStop ==
  ASSUME StopInv, NEW p \in Procs, NEW q \in Requests, Accept(q, p) PROVE StopInv'
<1> USE DEF Accept, Alive, migration
<1>0. /\ TypeOK /\ HandleOfHook(p) /\ ListenerOfHook(p) /\ TableOfHook(p)
      /\ \A s \in Requests : Accepted(s)
      /\ p # Absent
  BY Known
<1>1. /\ at'[q] = p /\ late'[q] = (hook[p] \in {"close", "stopped"}) /\ reply'[q] = "open"
      /\ \A s \in Requests \ {q} : /\ at'[s] = at[s] /\ late'[s] = late[s]
                                   /\ reply'[s] = reply[s]
  BY <1>0 DEF TypeOK
<1>2. TypeOK'
  <2>0. late' \in [Requests -> BOOLEAN]
    <3> DEFINE ending == hook[p] \in {"close", "stopped"}
    <3>1. ending \in BOOLEAN
      OBVIOUS
    <3>2. late' = [late EXCEPT ![q] = ending] /\ late \in [Requests -> BOOLEAN]
      BY <1>0 DEF TypeOK
    <3> HIDE DEF ending
    <3> QED
      BY <3>1, <3>2
  <2>1. at' \in [Requests -> Procs \cup {Absent}]
    BY <1>0 DEF TypeOK
  <2>2. reply' \in [Requests -> {"unsent", "open", "ok", "error", "panic",
                                 "handle closed", "lost"}]
    BY <1>0 DEF TypeOK
  <2> QED
    BY <1>0, <2>0, <2>1, <2>2 DEF TypeOK
<1>3. HandleOfHook(p)' /\ ListenerOfHook(p)' /\ TableOfHook(p)'
  BY <1>0 DEF HandleOfHook, ListenerOfHook, TableOfHook
<1>4. ASSUME NEW s \in Requests, at'[s] = p PROVE Accepted(s)'
  <2>1. CASE s = q
    <3>1. /\ hook' = hook /\ listener' = listener /\ listener[p] = "listening"
          /\ hook[p] \notin {"exited", "crashed"}
      OBVIOUS
    <3>2. ~late'[q] => hook'[p] \notin {"close", "stopped"}
      BY <1>1, <3>1
    <3>3. reply'[q] = "open" /\ at'[q] = p
      BY <1>1
    <3> QED
      BY <1>0, <2>1, <3>1, <3>2, <3>3 DEF Accepted
  <2>2. CASE s # q
    <3>1. Accepted(s) /\ at'[s] = at[s] /\ late'[s] = late[s] /\ reply'[s] = reply[s]
      BY <1>0, <1>1, <2>2
    <3> QED
      BY <3>1 DEF Accepted
  <2> QED
    BY <2>1, <2>2
<1>5. \A s \in Requests : at'[s] # p => /\ at'[s] = at[s] /\ late'[s] = late[s]
                                        /\ reply'[s] = reply[s]
  BY <1>1
<1> QED
  BY <1>2, <1>3, <1>4, <1>5, OneProcess

LEMMA ServeStop == ASSUME StopInv, NEW q \in Requests, Serve(q) PROVE StopInv'
<1>a. Accepted(q) /\ at[q] \in Procs \cup {Absent} /\ reply[q] = "open"
  BY DEF StopInv, Serve, TypeOK
<1>b. at[q] \in Procs /\ Alive(at[q])
  BY <1>a DEF Accepted
<1>0. PICK p \in Procs : p = at[q] /\ Alive(p)
  BY <1>b
<1>1. /\ TypeOK /\ HandleOfHook(p) /\ ListenerOfHook(p) /\ TableOfHook(p)
      /\ \A s \in Requests : Accepted(s)
      /\ p # Absent
  BY Known
<1>2. CASE /\ \E answer \in {"panic", "error", "handle closed", "ok"} :
                 /\ reply' = [reply EXCEPT ![q] = answer]
                 /\ answer = "handle closed" => handle[p] = "closed"
           /\ UNCHANGED <<hook, listener, handle, migration, recovers, at, late>>
  <2> USE DEF migration
  <2>1. PICK answer \in {"panic", "error", "handle closed", "ok"} :
               /\ reply' = [reply EXCEPT ![q] = answer]
               /\ answer = "handle closed" => handle[p] = "closed"
    BY <1>2
  <2>2. TypeOK'
    BY <1>1, <1>2, <2>1 DEF TypeOK
  <2>3. reply'[q] = answer /\ \A s \in Requests \ {q} : reply'[s] = reply[s]
    BY <1>1, <2>1 DEF TypeOK
  <2>4. HandleOfHook(p)' /\ ListenerOfHook(p)' /\ TableOfHook(p)'
    BY <1>1, <1>2 DEF HandleOfHook, ListenerOfHook, TableOfHook
  <2>5. Accepted(q)'
    <3>1. ~late[q] => answer # "handle closed"
      BY <1>a, <1>0, <1>1, <2>1 DEF Accepted, HandleOfHook, Alive
    <3> QED
      BY <1>a, <1>0, <1>1, <1>2, <2>3, <3>1 DEF Accepted, Alive
  <2>6. ASSUME NEW s \in Requests, at'[s] = p PROVE Accepted(s)'
    <3>1. CASE s = q
      BY <2>5, <3>1
    <3>2. CASE s # q
      <4>1. Accepted(s) /\ reply'[s] = reply[s]
        BY <1>1, <2>3, <3>2
      <4> QED
        BY <1>2, <4>1 DEF Accepted, Alive
    <3> QED
      BY <3>1, <3>2
  <2>7. \A s \in Requests : at'[s] # p => reply'[s] = reply[s]
    BY <1>0, <1>2, <2>3
  <2> QED
    BY <1>2, <2>2, <2>4, <2>6, <2>7, OneProcess
<1>3. CASE Dies(p)
  BY <1>0, <1>3, DiesStop
<1>4. \A answer \in CASE NoPool(p)            -> {"panic"}
                      [] handle[p] = "bad"    -> {"error"}
                      [] handle[p] = "closed" -> {"handle closed"}
                      [] OTHER -> {"error"} \cup (IF tables = Models THEN {"ok"} ELSE {}) :
         /\ answer \in {"panic", "error", "handle closed", "ok"}
         /\ answer = "handle closed" => handle[p] = "closed"
  BY DEF NoPool
<1> QED
  BY <1>0, <1>2, <1>3, <1>4 DEF Serve

\* A step of the stop before its end.
LEMMA StoppingStop ==
  ASSUME StopInv, NEW p \in Procs,
         NEW h \in {"shutdown", "drain", "close"}, hook' = [hook EXCEPT ![p] = h],
         hook[p] \in {"started", "shutdown", "drain"},
         NEW l \in {"none", "starting", "listening", "failed", "closed"},
         listener' = [listener EXCEPT ![p] = l],
         l = listener[p] \/ l = "closed",
         h = "shutdown" => l # "closed",
         h = "drain" => l = "closed",
         h = "close" => \A q \in Requests : at[q] = p => reply[q] # "open",
         UNCHANGED <<handle, migration, serving>>
  PROVE  StopInv'
<1> USE DEF migration, serving
<1>0. /\ TypeOK /\ HandleOfHook(p) /\ ListenerOfHook(p) /\ TableOfHook(p)
      /\ \A s \in Requests : Accepted(s)
      /\ p # Absent
  BY Known
<1>1. /\ hook'[p] = h /\ listener'[p] = l
      /\ \A r \in Procs \ {p} : hook'[r] = hook[r] /\ listener'[r] = listener[r]
  BY <1>0 DEF TypeOK
<1>2. TypeOK'
  BY <1>0 DEF TypeOK, Models
<1>3. HandleOfHook(p)' /\ ListenerOfHook(p)' /\ TableOfHook(p)'
  BY <1>0, <1>1 DEF HandleOfHook, ListenerOfHook, TableOfHook
<1>4. ASSUME NEW s \in Requests, at'[s] = p PROVE Accepted(s)'
  BY <1>0, <1>1, <1>4 DEF Accepted, Alive
<1> QED
  BY <1>1, <1>2, <1>3, <1>4, OneProcess

LEMMA SignalStop == ASSUME StopInv, NEW p \in Procs, Signal(p) PROVE StopInv'
<1>1. /\ TypeOK /\ ListenerOfHook(p)
      /\ hook[p] = "started" /\ hook' = [hook EXCEPT ![p] = "shutdown"]
      /\ UNCHANGED <<listener, handle, migration, serving>>
  BY Known DEF Signal, Step
<1>2. /\ listener' = [listener EXCEPT ![p] = listener[p]] /\ listener[p] # "closed"
      /\ listener[p] \in {"none", "starting", "listening", "failed", "closed"}
  BY <1>1 DEF TypeOK, ListenerOfHook
<1> QED
  BY <1>1, <1>2, StoppingStop

LEMMA ShutdownStop == ASSUME StopInv, NEW p \in Procs, Shutdown(p) PROVE StopInv'
<1>0. /\ TypeOK /\ ListenerOfHook(p) /\ \A q \in Requests : Accepted(q)
      /\ p # Absent
      /\ hook[p] = "shutdown" /\ UNCHANGED <<handle, migration, serving>>
  BY Known DEF Shutdown, Step
<1>1. CASE /\ listener[p] = "listening" /\ listener' = [listener EXCEPT ![p] = "closed"]
           /\ hook' = [hook EXCEPT ![p] = "drain"]
  BY <1>0, <1>1, StoppingStop
<1>2. CASE /\ listener[p] # "listening" /\ hook' = [hook EXCEPT ![p] = "close"]
           /\ UNCHANGED listener
  <2>1. listener[p] # "closed"
    BY <1>0 DEF ListenerOfHook
  <2>2. \A q \in Requests : at[q] # p
    BY <1>0, <1>2, <2>1 DEF Accepted
  <2>3. /\ listener' = [listener EXCEPT ![p] = listener[p]]
        /\ listener[p] \in {"none", "starting", "listening", "failed", "closed"}
    BY <1>0, <1>2 DEF TypeOK
  <2> QED
    BY <1>0, <1>2, <2>2, <2>3, StoppingStop
<1> QED
  BY <1>1, <1>2 DEF Shutdown, Step

LEMMA DrainedStop == ASSUME StopInv, NEW p \in Procs, Drained(p) PROVE StopInv'
<1>1. /\ TypeOK /\ hook[p] = "drain" /\ hook' = [hook EXCEPT ![p] = "close"]
      /\ UNCHANGED <<listener, handle, migration, serving>>
  BY Known DEF Drained, Step
<1>2. \A q \in Requests : at[q] = p => reply[q] # "open"
  BY DEF Drained, InProgress
<1>3. /\ listener' = [listener EXCEPT ![p] = listener[p]]
      /\ listener[p] \in {"none", "starting", "listening", "failed", "closed"}
  BY <1>1 DEF TypeOK
<1> QED
  BY <1>1, <1>2, <1>3, StoppingStop

LEMMA DeadlineStop == ASSUME StopInv, NEW p \in Procs, Deadline(p) PROVE StopInv'
  BY DiesStop DEF Deadline, Alive

LEMMA ExitStop == ASSUME StopInv, NEW p \in Procs, Exit(p) PROVE StopInv'
<1>1. hook[p] = "stopped" /\ hook' = [hook EXCEPT ![p] = "exited"]
  BY DEF Exit, Step
<1> QED
  BY <1>1, EndStop DEF Exit, Alive

LEMMA CloseDatabaseStop == ASSUME StopInv, NEW p \in Procs, CloseDatabase(p) PROVE StopInv'
<1>0. /\ TypeOK /\ HandleOfHook(p) /\ ListenerOfHook(p) /\ TableOfHook(p)
      /\ \A q \in Requests : Accepted(q)
      /\ p # Absent
      /\ hook[p] = "close"
  BY Known DEF CloseDatabase, Step
<1>1. CASE /\ hook' = [hook EXCEPT ![p] = "stopped"]
           /\ handle' = [handle EXCEPT ![p] = "closed"]
           /\ UNCHANGED <<listener, migration, serving>>
  <2> USE DEF migration, serving
  <2>1. /\ hook'[p] = "stopped" /\ handle'[p] = "closed"
        /\ \A r \in Procs \ {p} : hook'[r] = hook[r] /\ handle'[r] = handle[r]
    BY <1>0, <1>1 DEF TypeOK
  <2>2. TypeOK'
    BY <1>0, <1>1 DEF TypeOK, Models
  <2>3. HandleOfHook(p)' /\ ListenerOfHook(p)' /\ TableOfHook(p)'
    BY <1>0, <1>1, <2>1 DEF HandleOfHook, ListenerOfHook, TableOfHook
  <2>4. ASSUME NEW q \in Requests, at'[q] = p PROVE Accepted(q)'
    BY <1>0, <1>1, <2>1, <2>4 DEF Accepted, Alive
  <2> QED
    BY <1>0, <1>1, <2>1, <2>2, <2>3, <2>4, OneProcess
<1>2. CASE Dies(p)
  BY <1>0, <1>2, DiesStop DEF Alive
<1> QED
  BY <1>1, <1>2 DEF CloseDatabase, Step

LEMMA NextStop == StopInv /\ [Next]_vars => StopInv'
<1> SUFFICES ASSUME StopInv, [Next]_vars PROVE StopInv'
  OBVIOUS
<1>1. CASE UNCHANGED vars
  <2>1. TypeOK'
    BY <1>1 DEF vars, migration, serving, StopInv, TypeOK
  <2>2. \A p \in Procs : HandleOfHook(p)' /\ ListenerOfHook(p)' /\ TableOfHook(p)'
    BY <1>1 DEF vars, migration, serving, StopInv, HandleOfHook, ListenerOfHook, TableOfHook
  <2>3. \A q \in Requests : Accepted(q)'
    BY <1>1 DEF vars, migration, serving, StopInv, Accepted, Alive
  <2> QED
    BY <2>1, <2>2, <2>3 DEF StopInv
<1>2. ASSUME NEW p \in Procs,
             \/ Listen(p) \/ Bind(p) \/ Connect(p)
             \/ HasTable(p) \/ CreateTable(p) \/ StartDeadline(p)
      PROVE  StopInv'
  BY <1>2, ListenStop, BindStop, ConnectStop, HasTableStop, CreateTableStop,
     StartDeadlineStop
<1>3. ASSUME NEW p \in Procs, Signal(p) \/ Stop(p) \/ Orphaned(p) PROVE StopInv'
  BY <1>3, SignalStop, ShutdownStop, DrainedStop, DeadlineStop, CloseDatabaseStop, ExitStop,
     OrphanedStop DEF Stop
<1>4. ASSUME NEW q \in Requests, Serve(q) \/ \E p \in Procs : Accept(q, p) PROVE StopInv'
  BY <1>4, ServeStop, AcceptStop
<1> QED
  BY <1>1, <1>2, <1>3, <1>4 DEF Next

LEMMA AlwaysStop == Spec => []StopInv
  BY InitStop, NextStop, PTL DEF Spec

\* Types.
THEOREM TypeCorrect == Spec => []TypeOK
  BY AlwaysStop, PTL DEF StopInv

\* However the starts, the stops, the binds, the deadlines and the requests of any
\* number of processes interleave, a request accepted before its process began to
\* stop never meets a closed handle, and is lost only if the process is ended by a
\* panic, a deadline or the exit of its parent (webserver.go:96,128-138).
THEOREM StopIsGraceful == Spec => []StopLosesNothing
<1>1. StopInv => StopLosesNothing
  BY DEF StopInv, Accepted, StopLosesNothing
<1> QED
  BY <1>1, AlwaysStop, PTL

-----------------------------------------------------------------------------
(* The migration. *)

\* The tables before the one a process is at exist, and all of them do when its
\* migration is over without an error, unless the process was ended.  A process that
\* gave up is done.
Done(p) ==
  /\ 1..(next[p] - 1) \subseteq tables
  /\ handle[p] = "nil" => next[p] = 1 /\ logged[p] = "nothing"
  /\ p \notin Migrators => hook[p] \notin {"has", "create"} /\ logged[p] = "nothing"
  /\ hook[p] \in {"has", "create"} => logged[p] # "exists"
  /\ (/\ p \in Migrators /\ handle[p] # "nil" /\ logged[p] = "nothing"
      /\ hook[p] \notin {"has", "create", "crashed"}) => next[p] = TableCount + 1

\* Somebody else is past the table that p is at.
Passed(p) == \E q \in Migrators : next[q] > next[p]

\* p was beaten to a table, or is about to find out.
Beaten(p) == \/ logged[p] = "exists"
             \/ hook[p] = "create" /\ logged[p] = "nothing" /\ next[p] \in tables

\* Nobody is further than this one.
Leader(m) == m \in Migrators /\ \A p \in Migrators : next[p] <= next[m]

\* Whoever was beaten was beaten by a process that went on.
MigrationInv == /\ \A p \in Procs : Done(p) /\ (Beaten(p) => Passed(p))
                /\ Migrators # {} => \E m \in Procs : Leader(m)

LEMMA InitMigration == Init => MigrationInv
<1> SUFFICES ASSUME Init PROVE MigrationInv
  OBVIOUS
<1>1. ASSUME NEW p \in Procs PROVE Done(p) /\ ~Beaten(p)
  <2>1. /\ hook[p] = "listen" /\ handle[p] = "nil" /\ next[p] = 1 /\ logged[p] = "nothing"
    BY DEF Init
  <2>2. 1..(next[p] - 1) = {}
    BY <2>1
  <2> QED
    BY <2>1, <2>2 DEF Done, Beaten
<1>2. \A m \in Migrators : Leader(m)
  BY ProcsAssumption DEF Init, Leader
<1> QED
  BY <1>1, <1>2, ProcsAssumption DEF MigrationInv

\* What a process is at.
LEMMA Places ==
  ASSUME TypeOK
  PROVE  /\ DOMAIN hook = Procs /\ DOMAIN handle = Procs
         /\ DOMAIN next = Procs /\ DOMAIN logged = Procs
         /\ \A p \in Procs : /\ next[p] \in 1..(TableCount + 1) /\ next[p] \in Nat
                           /\ logged[p] \in {"nothing", "exists", "fault"}
<1>1. /\ DOMAIN hook = Procs /\ DOMAIN handle = Procs
      /\ DOMAIN next = Procs /\ DOMAIN logged = Procs
  BY DEF TypeOK
<1>2. \A p \in Procs : next[p] \in 1..(TableCount + 1)
  BY DEF TypeOK
<1>3. ASSUME NEW p \in Procs PROVE next[p] \in Nat
  <2>1. next[p] \in 1..(TableCount + 1) /\ TableCount \in Nat
    BY <1>2, TablesAssumption
  <2> QED
    BY <2>1
<1>4. \A p \in Procs : logged[p] \in {"nothing", "exists", "fault"}
  BY DEF TypeOK
<1> QED
  BY <1>1, <1>2, <1>3, <1>4

\* A process that goes on disturbs nobody's place but its own.
LEMMA OneMigrator ==
  ASSUME TypeOK, MigrationInv, NEW p \in Procs,
         \A r \in Procs \ {p} : /\ hook'[r] = hook[r] /\ handle'[r] = handle[r]
                                /\ next'[r] = next[r] /\ logged'[r] = logged[r],
         tables \subseteq tables',
         next'[p] \in Nat, next'[p] >= next[p],
         Done(p)', Beaten(p)' => Passed(p)',
         \A r \in Procs \ {p} : Beaten(r)' => Beaten(r) \/ Passed(r)'
  PROVE  MigrationInv'
<1>0. /\ \A r \in Procs : next[r] \in Nat /\ next'[r] \in Nat /\ next[r] <= next'[r]
      /\ Migrators \subseteq Procs
  <2>1. \A r \in Procs : next[r] \in Nat /\ next'[r] \in Nat
    BY Places
  <2> QED
    BY <2>1, ProcsAssumption
<1>1. ASSUME NEW r \in Procs PROVE Done(r)'
  BY DEF MigrationInv, Done
<1>2. ASSUME NEW r \in Procs, Beaten(r)' PROVE Passed(r)'
  <2>1. CASE r = p \/ Passed(r)'
    BY <1>2, <2>1
  <2>2. CASE r # p /\ Beaten(r)
    <3>1. PICK q \in Migrators : next[q] > next[r]
      BY <2>2 DEF MigrationInv, Passed
    <3>2. next'[r] = next[r] /\ next'[q] >= next[q]
      BY <1>0, <2>2
    <3> QED
      BY <1>0, <3>1, <3>2 DEF Passed
  <2> QED
    BY <1>2, <2>1, <2>2
<1>3. ASSUME Migrators # {} PROVE \E m \in Procs : Leader(m)'
  <2>1. PICK m \in Migrators : \A r \in Migrators : next[r] <= next[m]
    BY <1>3 DEF MigrationInv, Leader
  <2>2. CASE p \in Migrators /\ next'[p] > next'[m]
    <3>1. ASSUME NEW r \in Migrators PROVE next'[r] <= next'[p]
      BY <1>0, <2>1, <2>2
    <3> QED
      BY <2>2, <3>1 DEF Leader
  <2>3. CASE ~(p \in Migrators /\ next'[p] > next'[m])
    <3>1. ASSUME NEW r \in Migrators PROVE next'[r] <= next'[m]
      BY <1>0, <2>1, <2>3
    <3> QED
      BY <1>0, <3>1 DEF Leader
  <2> QED
    BY <2>2, <2>3
<1> QED
  BY <1>1, <1>2, <1>3 DEF MigrationInv

\* All but the migration's own steps, and the connect: they may end a migration, and
\* start none.
LEMMA QuietMigration ==
  ASSUME MigrationInv, UNCHANGED migration,
         \A r \in Procs : /\ hook'[r] = "has" => hook[r] = "has"
                          /\ hook'[r] = "create" => hook[r] = "create"
                          /\ hook[r] \in {"has", "create", "crashed"}
                               => hook'[r] \in {hook[r], "crashed"}
                          /\ handle'[r] = "nil" <=> handle[r] = "nil"
  PROVE  MigrationInv'
<1> USE DEF migration
<1>1. ASSUME NEW r \in Procs PROVE Done(r)' /\ (Beaten(r)' => Passed(r)')
  BY DEF MigrationInv, Done, Beaten, Passed
<1>2. ASSUME NEW m \in Procs, Leader(m) PROVE Leader(m)'
  BY <1>2 DEF Leader
<1> QED
  BY <1>1, <1>2 DEF MigrationInv

LEMMA DiesMigration ==
  ASSUME StopInv, MigrationInv, NEW p \in Procs, Dies(p) PROVE MigrationInv'
<1>1. /\ hook \in [Procs -> {"listen", "connect", "has", "create", "started", "shutdown",
                             "drain", "close", "stopped", "exited", "crashed"}]
      /\ hook' = [hook EXCEPT ![p] = "crashed"] /\ UNCHANGED <<handle, migration>>
  BY DEF StopInv, TypeOK, Dies
<1> QED
  BY <1>1, QuietMigration

LEMMA ConnectMigration ==
  ASSUME StopInv, StopInv', MigrationInv, NEW p \in Procs, Connect(p)
  PROVE  MigrationInv'
<1>0. TypeOK /\ HandleOfHook(p) /\ HandleOfHook(p)'
  BY DEF StopInv
<1>p. /\ DOMAIN hook = Procs /\ DOMAIN handle = Procs
      /\ DOMAIN next = Procs /\ DOMAIN logged = Procs
      /\ \A r \in Procs : /\ next[r] \in 1..(TableCount + 1) /\ next[r] \in Nat
                        /\ logged[r] \in {"nothing", "exists", "fault"}
  BY Places DEF StopInv
<1>1. /\ hook[p] = "connect" /\ handle[p] = "nil"
      /\ handle'[p] \in {"open", "bad", "poolless"}
      /\ hook'[p] = IF p \in Migrators THEN "has" ELSE "started"
      /\ UNCHANGED migration
      /\ \A r \in Procs \ {p} : hook'[r] = hook[r] /\ handle'[r] = handle[r]
  BY <1>0, <1>p DEF HandleOfHook, Connect, Step
<1>2. Done(p) /\ \A r \in Procs : Beaten(r) => Passed(r)
  BY DEF MigrationInv
<1>3. Done(p)' /\ ~Beaten(p)'
  BY <1>1, <1>2 DEF Done, Beaten, migration
<1>4. next'[p] \in Nat /\ next'[p] >= next[p]
  BY <1>p, <1>1 DEF migration
<1>5. \A r \in Procs \ {p} : Beaten(r)' => Beaten(r)
  BY <1>1 DEF Beaten, migration
<1> QED
  BY <1>0, <1>1, <1>3, <1>4, <1>5, OneMigrator DEF migration

LEMMA HasTableMigration ==
  ASSUME StopInv, StopInv', MigrationInv, NEW p \in Procs, HasTable(p)
  PROVE  MigrationInv'
<1>0. TypeOK /\ HandleOfHook(p) /\ TableOfHook(p) /\ Done(p)
  BY DEF StopInv, MigrationInv
<1>p. /\ DOMAIN hook = Procs /\ DOMAIN handle = Procs
      /\ DOMAIN next = Procs /\ DOMAIN logged = Procs
      /\ \A r \in Procs : /\ next[r] \in 1..(TableCount + 1) /\ next[r] \in Nat
                        /\ logged[r] \in {"nothing", "exists", "fault"}
  BY Places DEF StopInv
<1>1. /\ hook[p] = "has"
      /\ next[p] \in 1..TableCount /\ handle[p] # "nil"
      /\ p \in Migrators /\ logged[p] # "exists"
  <2>1. hook[p] = "has"
    BY DEF HasTable, NextTable, Abandon, Step
  <2>2. next[p] \in 1..TableCount
    BY <1>0, <1>p, <2>1, TablesAssumption DEF TableOfHook
  <2> QED
    BY <1>0, <2>1, <2>2 DEF HandleOfHook, Done
<1>2. CASE /\ next[p] \in tables /\ NextTable(p, "has") /\ UNCHANGED logged
           /\ UNCHANGED <<handle, tables>>
  <2>1. /\ next' = [next EXCEPT ![p] = next[p] + 1]
        /\ \/ next[p] = TableCount /\ hook' = [hook EXCEPT ![p] = "started"]
           \/ next[p] < TableCount /\ hook' = [hook EXCEPT ![p] = "has"]
    BY <1>0, <1>2, NextTableType
  <2>2. /\ next'[p] = next[p] + 1
        /\ hook'[p] = "has" \/ (hook'[p] = "started" /\ next[p] = TableCount)
        /\ \A r \in Procs \ {p} : hook'[r] = hook[r] /\ next'[r] = next[r]
    BY <1>p, <2>1
  <2>3. 1..(next'[p] - 1) \subseteq tables'
    <3>1. 1..(next[p] - 1) \subseteq tables
      BY <1>0 DEF Done
    <3> QED
      BY <1>1, <1>2, <2>2, <3>1
  <2>4. Done(p)' /\ ~Beaten(p)'
    BY <1>1, <1>2, <2>2, <2>3 DEF Done, Beaten
  <2>5. next'[p] \in Nat /\ next'[p] >= next[p]
    BY <1>1, <2>2
  <2>6. \A r \in Procs \ {p} : Beaten(r)' => Beaten(r)
    BY <1>1, <1>2, <2>2 DEF Beaten
  <2> QED
    BY <1>0, <1>1, <1>2, <2>2, <2>4, <2>5, <2>6, OneMigrator
<1>3. CASE /\ Abandon(p, "has", "fault") /\ UNCHANGED next
           /\ UNCHANGED <<handle, tables>>
  <2>1. /\ logged' = [logged EXCEPT ![p] = "fault"]
        /\ hook' = [hook EXCEPT ![p] = "started"]
    BY <1>0, <1>3, AbandonType
  <2>2. /\ logged'[p] = "fault" /\ hook'[p] = "started"
        /\ \A r \in Procs \ {p} : hook'[r] = hook[r] /\ logged'[r] = logged[r]
    BY <1>p, <2>1
  <2>3. Done(p)' /\ ~Beaten(p)'
    BY <1>0, <1>1, <1>3, <2>2 DEF Done, Beaten
  <2>4. \A r \in Procs \ {p} : Beaten(r)' => Beaten(r)
    BY <1>1, <1>3, <2>2 DEF Beaten
  <2>5. next'[p] \in Nat /\ next'[p] >= next[p]
    BY <1>1, <1>3
  <2> QED
    BY <1>0, <1>1, <1>3, <2>2, <2>3, <2>4, <2>5, OneMigrator
<1>4. CASE /\ Step(p, "has", "create") /\ UNCHANGED next
           /\ \/ next[p] \notin tables /\ UNCHANGED logged
              \/ logged' = [logged EXCEPT ![p] = "fault"]
           /\ UNCHANGED <<handle, tables>>
  <2>1. /\ hook'[p] = "create" /\ logged'[p] \in {logged[p], "fault"}
        /\ logged'[p] = "nothing" => next[p] \notin tables
        /\ \A r \in Procs \ {p} : hook'[r] = hook[r] /\ logged'[r] = logged[r]
    BY <1>p, <1>4 DEF Step
  <2>2. Done(p)' /\ ~Beaten(p)'
    BY <1>0, <1>1, <1>4, <2>1 DEF Done, Beaten
  <2>3. \A r \in Procs \ {p} : Beaten(r)' => Beaten(r)
    BY <1>1, <1>4, <2>1 DEF Beaten
  <2>4. next'[p] \in Nat /\ next'[p] >= next[p]
    BY <1>1, <1>4
  <2> QED
    BY <1>0, <1>1, <1>4, <2>1, <2>2, <2>3, <2>4, OneMigrator
<1>5. CASE Dies(p)
  BY <1>5, DiesMigration
<1> QED
  BY <1>2, <1>3, <1>4, <1>5 DEF HasTable

LEMMA CreateTableMigration ==
  ASSUME StopInv, StopInv', MigrationInv, NEW p \in Procs, CreateTable(p)
  PROVE  MigrationInv'
<1>0. TypeOK /\ HandleOfHook(p) /\ TableOfHook(p) /\ Done(p)
      /\ (Beaten(p) => Passed(p))
  BY DEF StopInv, MigrationInv
<1>p. /\ DOMAIN hook = Procs /\ DOMAIN handle = Procs
      /\ DOMAIN next = Procs /\ DOMAIN logged = Procs
      /\ \A r \in Procs : /\ next[r] \in 1..(TableCount + 1) /\ next[r] \in Nat
                        /\ logged[r] \in {"nothing", "exists", "fault"}
  BY Places DEF StopInv
<1>1. /\ UNCHANGED handle /\ hook[p] = "create"
      /\ next[p] \in 1..TableCount /\ handle[p] # "nil"
      /\ p \in Migrators /\ logged[p] # "exists"
  <2>1. hook[p] = "create" /\ UNCHANGED handle
    BY DEF CreateTable, NextTable, Abandon, Step
  <2>2. next[p] \in 1..TableCount
    BY <1>0, <1>p, <2>1, TablesAssumption DEF TableOfHook
  <2> QED
    BY <1>0, <2>1, <2>2 DEF HandleOfHook, Done
<1>2. CASE /\ tables' = tables \cup {next[p]} /\ NextTable(p, "create")
           /\ UNCHANGED logged
  <2>1. /\ next' = [next EXCEPT ![p] = next[p] + 1]
        /\ \/ next[p] = TableCount /\ hook' = [hook EXCEPT ![p] = "started"]
           \/ next[p] < TableCount /\ hook' = [hook EXCEPT ![p] = "has"]
    BY <1>0, <1>2, NextTableType
  <2>2. /\ next'[p] = next[p] + 1
        /\ hook'[p] = "has" \/ (hook'[p] = "started" /\ next[p] = TableCount)
        /\ \A r \in Procs \ {p} : hook'[r] = hook[r] /\ next'[r] = next[r]
    BY <1>p, <2>1
  <2>3. 1..(next'[p] - 1) \subseteq tables'
    <3>1. 1..(next[p] - 1) \subseteq tables
      BY <1>0 DEF Done
    <3> QED
      BY <1>1, <1>2, <2>2, <3>1
  <2>4. Done(p)' /\ ~Beaten(p)'
    BY <1>1, <1>2, <2>2, <2>3 DEF Done, Beaten
  <2>5. next'[p] \in Nat /\ next'[p] >= next[p]
    BY <1>1, <2>2
  <2>6. ASSUME NEW r \in Procs \ {p}, Beaten(r)', ~Beaten(r) PROVE Passed(r)'
    <3>1. next[r] = next[p] /\ next'[r] = next[r]
      BY <1>2, <2>2, <2>6 DEF Beaten
    <3>2. next'[p] > next'[r]
      BY <1>1, <2>2, <3>1
    <3> QED
      BY <1>1, <3>2 DEF Passed
  <2> QED
    BY <1>0, <1>1, <1>2, <2>2, <2>4, <2>5, <2>6, OneMigrator
<1>3. CASE /\ Abandon(p, "create", "exists") /\ next[p] \in tables
           /\ UNCHANGED <<next, tables>>
  <2>1. /\ \/ logged' = [logged EXCEPT ![p] = "fault"]
           \/ logged' = [logged EXCEPT ![p] = "exists"]
        /\ hook' = [hook EXCEPT ![p] = "started"]
    BY <1>0, <1>3, AbandonType
  <2>2. logged[p] = "fault" => logged' = [logged EXCEPT ![p] = "fault"]
    BY <1>3 DEF Abandon
  <2>3. /\ logged'[p] \in {"fault", "exists"} /\ hook'[p] = "started"
        /\ logged[p] = "fault" => logged'[p] = "fault"
        /\ \A r \in Procs \ {p} : hook'[r] = hook[r] /\ logged'[r] = logged[r]
    BY <1>p, <2>1, <2>2
  <2>4. Done(p)'
    BY <1>0, <1>1, <1>3, <2>3 DEF Done
  <2>5. ASSUME Beaten(p)' PROVE Passed(p)'
    <3>1. logged[p] = "nothing"
      BY <1>p, <1>1, <2>3, <2>5 DEF Beaten
    <3>2. Passed(p)
      BY <1>0, <1>1, <1>3, <3>1 DEF Beaten
    <3> QED
      BY <1>3, <3>2 DEF Passed
  <2>6. \A r \in Procs \ {p} : Beaten(r)' => Beaten(r)
    BY <1>1, <1>3, <2>3 DEF Beaten
  <2>7. next'[p] \in Nat /\ next'[p] >= next[p]
    BY <1>1, <1>3
  <2> QED
    BY <1>0, <1>1, <1>3, <2>3, <2>4, <2>5, <2>6, <2>7, OneMigrator
<1>4. CASE Abandon(p, "create", "fault") /\ UNCHANGED <<next, tables>>
  <2>1. /\ logged' = [logged EXCEPT ![p] = "fault"]
        /\ hook' = [hook EXCEPT ![p] = "started"]
    BY <1>0, <1>4, AbandonType
  <2>2. /\ logged'[p] = "fault" /\ hook'[p] = "started"
        /\ \A r \in Procs \ {p} : hook'[r] = hook[r] /\ logged'[r] = logged[r]
    BY <1>p, <2>1
  <2>3. Done(p)' /\ ~Beaten(p)'
    BY <1>0, <1>1, <1>4, <2>2 DEF Done, Beaten
  <2>4. \A r \in Procs \ {p} : Beaten(r)' => Beaten(r)
    BY <1>1, <1>4, <2>2 DEF Beaten
  <2>5. next'[p] \in Nat /\ next'[p] >= next[p]
    BY <1>1, <1>4
  <2> QED
    BY <1>0, <1>1, <1>4, <2>2, <2>3, <2>4, <2>5, OneMigrator
<1> QED
  BY <1>2, <1>3, <1>4 DEF CreateTable

\* A step of another kind leaves the hooks of the migration alone, or ends the process.
LEMMA OtherMigration ==
  ASSUME StopInv, MigrationInv, NEW p \in Procs,
         \/ Listen(p) \/ Bind(p) \/ StartDeadline(p)
         \/ Signal(p) \/ Stop(p) \/ Orphaned(p)
  PROVE  MigrationInv'
<1>0. TypeOK /\ HandleOfHook(p)
  BY DEF StopInv
<1> DEFINE Outside == {"listen", "connect", "started", "shutdown", "drain", "close",
                       "stopped", "exited"}
<1>1. \/ Dies(p)
      \/ /\ UNCHANGED migration
         /\ \/ UNCHANGED <<hook, handle>>
            \/ /\ hook[p] \in Outside
               /\ \E h \in Outside : hook' = [hook EXCEPT ![p] = h]
               /\ \/ UNCHANGED handle
                  \/ hook[p] = "close" /\ handle' = [handle EXCEPT ![p] = "closed"]
  BY DEF Listen, Bind, StartDeadline, Signal, Stop, Shutdown, Drained, Deadline,
         CloseDatabase, Exit, Orphaned, Step
<1>2. CASE Dies(p)
  BY <1>2, DiesMigration
<1>3. CASE ~Dies(p)
  <2>1. ASSUME NEW r \in Procs
        PROVE  /\ hook'[r] = "has" => hook[r] = "has"
               /\ hook'[r] = "create" => hook[r] = "create"
               /\ hook[r] \in {"has", "create", "crashed"} => hook'[r] = hook[r]
               /\ handle'[r] = "nil" <=> handle[r] = "nil"
    BY <1>0, <1>1, <1>3 DEF TypeOK, HandleOfHook
  <2> QED
    BY <1>1, <1>3, <2>1, QuietMigration
<1> QED
  BY <1>2, <1>3

LEMMA RequestMigration ==
  ASSUME StopInv, MigrationInv, NEW q \in Requests,
         Serve(q) \/ \E p \in Procs : Accept(q, p)
  PROVE  MigrationInv'
<1>1. CASE UNCHANGED <<hook, handle, migration>>
  BY <1>1, QuietMigration
<1>2. CASE Serve(q) /\ Dies(at[q])
  <2>1. Accepted(q) /\ at[q] \in Procs \cup {Absent} /\ reply[q] = "open"
    BY <1>2 DEF StopInv, Serve, TypeOK
  <2>2. at[q] \in Procs
    BY <2>1 DEF Accepted
  <2> QED
    BY <1>2, <2>2, DiesMigration
<1> QED
  BY <1>1, <1>2 DEF Serve, Accept

LEMMA NextMigration == StopInv /\ StopInv' /\ MigrationInv /\ [Next]_vars => MigrationInv'
<1> SUFFICES ASSUME StopInv, StopInv', MigrationInv, [Next]_vars PROVE MigrationInv'
  OBVIOUS
<1>1. CASE UNCHANGED vars
  BY <1>1, QuietMigration DEF vars
<1>2. ASSUME NEW p \in Procs, Connect(p) \/ HasTable(p) \/ CreateTable(p)
      PROVE  MigrationInv'
  BY <1>2, ConnectMigration, HasTableMigration, CreateTableMigration
<1>3. ASSUME NEW p \in Procs,
             \/ Listen(p) \/ Bind(p) \/ StartDeadline(p)
             \/ Signal(p) \/ Stop(p) \/ Orphaned(p)
      PROVE  MigrationInv'
  BY <1>3, OtherMigration
<1>4. ASSUME NEW q \in Requests, Serve(q) \/ \E p \in Procs : Accept(q, p)
      PROVE  MigrationInv'
  BY <1>4, RequestMigration
<1> QED
  BY <1>1, <1>2, <1>3, <1>4 DEF Next

\* The leader of the migrations was not beaten, so it went to the end.
LEMMA LeaderCompletes == StopInv /\ MigrationInv => MigrationCompletes
<1> SUFFICES ASSUME StopInv, MigrationInv,
                    NEW p \in Migrators, handle[p] # "nil",
                    \A r \in Migrators : hook[r] \notin {"has", "create"}
                                         /\ logged[r] # "fault",
                    \A r \in Migrators : ~Interrupted(r)
             PROVE  tables = Models
  BY DEF MigrationCompletes
<1>0. TypeOK /\ Migrators \subseteq Procs /\ TableCount \in Nat \ {0}
  BY ProcsAssumption, TablesAssumption DEF StopInv
<1>1. PICK m \in Migrators : \A r \in Migrators : next[r] <= next[m]
  BY DEF MigrationInv, Leader
<1>2. \A r \in Migrators : /\ Done(r) /\ (Beaten(r) => Passed(r))
                           /\ next[r] \in 1..(TableCount + 1)
                           /\ logged[r] \in {"nothing", "exists"}
  BY <1>0 DEF MigrationInv, TypeOK
<1>o. ASSUME NEW r \in Migrators, handle[r] # "nil", logged[r] = "nothing"
      PROVE  next[r] = TableCount + 1
  <2>1. CASE hook[r] = "crashed"
    <3>1. ~(next[r] <= TableCount)
      BY <1>o, <2>1 DEF Interrupted
    <3> QED
      BY <1>0, <1>2, <3>1
  <2>2. CASE hook[r] # "crashed"
    BY <1>o, <1>2, <2>2 DEF Done
  <2> QED
    BY <2>1, <2>2
<1>3. \E r \in Migrators : next[r] > 1
  <2>1. CASE logged[p] = "nothing"
    BY <1>0, <1>o, <2>1
  <2>2. CASE logged[p] = "exists"
    <3>1. PICK q \in Migrators : next[q] > next[p]
      BY <1>2, <2>2 DEF Beaten, Passed
    <3> QED
      BY <1>2, <3>1
  <2> QED
    BY <1>2, <2>1, <2>2
<1>4. next[m] > 1
  BY <1>1, <1>2, <1>3
<1>5. handle[m] # "nil"
  BY <1>2, <1>4 DEF Done
<1>6. logged[m] = "nothing"
  <2>1. ~Passed(m)
    BY <1>1, <1>2 DEF Passed
  <2> QED
    BY <1>2, <2>1 DEF Beaten
<1>7. next[m] = TableCount + 1 /\ 1..(next[m] - 1) \subseteq tables
  BY <1>o, <1>2, <1>5, <1>6 DEF Done
<1> QED
  <2>1. 1..TableCount \subseteq tables
    BY <1>0, <1>7
  <2> QED
    BY <1>0, <2>1 DEF TypeOK, Models

\* However the migrations of any number of processes interleave, and although each
\* of them gives up at the first table somebody else created meanwhile, the schema
\* is complete when none runs, none met another error and none was interrupted by a
\* deadline, a panic or the exit of its parent (database.go:82-88).
THEOREM MigrationsJoin == Spec => []MigrationCompletes
<1>1. StopInv /\ StopInv' /\ MigrationInv /\ [Next]_vars => MigrationInv'
  BY NextMigration
<1> QED
  BY <1>1, InitMigration, AlwaysStop, LeaderCompletes, PTL DEF Spec
=============================================================================
