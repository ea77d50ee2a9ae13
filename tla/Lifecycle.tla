------------------------------- MODULE Lifecycle -------------------------------
(***************************************************************************)
(* Starting and stopping: the fx hooks of bootstrap.Start, the goroutine   *)
(* that listens, the handle on the database and the migration, in every    *)
(* process that shares the database (prefork children, replicas).          *)
(*                                                                         *)
(* OnStart starts the listener in a goroutine and connects afterwards, so  *)
(* requests may arrive while the handle is nil.  AutoMigrate (gorm) asks   *)
(* of each table in turn whether it exists, and creates it if not; its     *)
(* first error ends it and is only logged.  OnStop waits for the requests  *)
(* in progress, until the deadline of its context, and closes the handle.  *)
(* fx ends a process whose OnStart takes longer than 15 seconds.           *)
(*                                                                         *)
(* Left out: a configuration without any DSN (a panic before anything is   *)
(* shared), the seeding (no seeder is registered), the startup messages,   *)
(* and the parent of prefork children killing them when one of them ends.  *)
(***************************************************************************)
EXTENDS Naturals

CONSTANTS Procs,
          ParentOf,    \* process: the one that preforked it, or Absent
          Servers,     \* those that listen: the parent of prefork children does not
          Migrators,   \* those started with the migrate flag
          Requests,
          TableCount,  \* the number of Models()
          InitTables,  \* tables of an earlier version
          Faults,      \* may the network or the database fail?
          Absent

ASSUME ProcsAssumption == Servers \subseteq Procs /\ Migrators \subseteq Procs
                          /\ Absent \notin Procs
ASSUME ParentAssumption == ParentOf \in [Procs -> (Procs \ Servers) \cup {Absent}]
ASSUME TablesAssumption == TableCount \in Nat \ {0} /\ InitTables \subseteq 1..TableCount
ASSUME FaultsAssumption == Faults \in BOOLEAN

VARIABLES hook,      \* process: where its start or stop hook is
          listener,  \* process: the goroutine that listens
          handle,    \* process: Database.DB, see Connect
          next,      \* process: the table its migration is at
          logged,    \* process: the error its migration logged
          tables,    \* the tables that exist
          recovers,  \* server: is its recover middleware enabled?
          at,        \* request: the process it was accepted by
          late,      \* request: was it accepted after that process began to stop?
          reply      \* request: what became of it

serving == <<recovers, at, late, reply>>
migration == <<next, logged, tables>>
vars == <<hook, listener, handle, migration, serving>>

Models == 1..TableCount

Step(p, from, to) == hook[p] = from /\ hook' = [hook EXCEPT ![p] = to]

Alive(p) == hook[p] \notin {"exited", "crashed"}

InProgress(p) == {q \in Requests : at[q] = p /\ reply[q] = "open"}

\* A process ends, and with it the requests it has not answered.
EndProcess(p) == reply' = [q \in Requests |-> IF q \in InProgress(p) THEN "lost"
                                                               ELSE reply[q]]

\* It ends by a panic, by a deadline or by another process, not by its own main.
Dies(p) == /\ hook' = [hook EXCEPT ![p] = "crashed"]
           /\ EndProcess(p)
           /\ UNCHANGED <<listener, handle, migration, recovers, at, late>>

Init == /\ hook = [p \in Procs |-> "listen"]
        /\ listener = [p \in Procs |-> "none"]
        /\ handle = [p \in Procs |-> "nil"]
        /\ next = [p \in Procs |-> 1]
        /\ logged = [p \in Procs |-> "nothing"]
        /\ tables = InitTables
        /\ recovers \in [Servers -> BOOLEAN]
        /\ at = [q \in Requests |-> Absent]
        /\ late = [q \in Requests |-> FALSE]
        /\ reply = [q \in Requests |-> "unsent"]

-----------------------------------------------------------------------------
(* OnStart *)

\* Middlewares and routes are registered, and the goroutine is started, which in the
\* parent starts the children.
Listen(p) ==
  /\ ParentOf[p] # Absent => listener[ParentOf[p]] = "starting" /\ Alive(ParentOf[p])
  /\ Step(p, "listen", "connect")
  /\ listener' = [listener EXCEPT ![p] = "starting"]
  /\ UNCHANGED <<handle, migration, serving>>

\* Listen binds the port, or fails, which is logged and no more.
Bind(p) == /\ p \in Servers /\ listener[p] = "starting" /\ Alive(p)
           /\ \E l \in {"listening"} \cup (IF Faults THEN {"failed"} ELSE {}) :
                listener' = [listener EXCEPT ![p] = l]
           /\ UNCHANGED <<hook, handle, migration, serving>>

\* ConnectDatabase: the handle is assigned although gorm.Open failed.  It has no
\* connection pool then if the DSN is malformed, a closed one ("bad") if MySQL did
\* not answer, and is a good one after a failing ping.
Connect(p) == /\ Step(p, "connect", IF p \in Migrators THEN "has" ELSE "started")
              /\ \E h \in {"open"} \cup (IF Faults THEN {"bad", "poolless"} ELSE {}) :
                   handle' = [handle EXCEPT ![p] = h]
              /\ UNCHANGED <<listener, migration, serving>>

\* A statement panics.
NoPool(p) == handle[p] \in {"nil", "poolless"}

\* Variant: the loop is left after its first table.
NextTableNone(p, from) == /\ Step(p, from, "started")
                          /\ next' = [next EXCEPT ![p] = @ + 1]
\* Variant: the loop runs past the last table.
NextTablePastEnd(p, from) ==
  /\ Step(p, from, IF next[p] > TableCount THEN "started" ELSE "has")
  /\ next' = [next EXCEPT ![p] = @ + 1]

\* The migration goes on with the next table, or is over.
NextTable(p, from) == /\ Step(p, from, IF next[p] = TableCount THEN "started" ELSE "has")
                      /\ next' = [next EXCEPT ![p] = @ + 1]

\* An error ends the migration and is logged; OnStart returns nil all the same.
Abandon(p, from, error) == /\ Step(p, from, "started")
                           /\ logged' = [logged EXCEPT ![p] = IF @ = "fault" THEN @ ELSE error]

\* HasTable logs an error and takes it for "no".  A table that exists is altered
\* if need be.
HasTable(p) ==
  \/ /\ ~NoPool(p)
     /\ \/ /\ next[p] \in tables /\ handle[p] = "open"
           /\ \/ NextTable(p, "has") /\ UNCHANGED logged
              \/ Faults /\ Abandon(p, "has", "fault") /\ UNCHANGED next
        \/ /\ Step(p, "has", "create")
           /\ \/ next[p] \notin tables /\ handle[p] = "open" /\ UNCHANGED logged
              \/ Faults /\ logged' = [logged EXCEPT ![p] = "fault"]
           /\ UNCHANGED next
     /\ UNCHANGED <<listener, handle, tables, serving>>
  \/ hook[p] = "has" /\ NoPool(p) /\ Dies(p)

\* CREATE TABLE, which fails if another process was faster.
CreateTable(p) ==
  /\ \/ /\ handle[p] = "open" /\ next[p] \notin tables
        /\ tables' = tables \cup {next[p]}
        /\ NextTable(p, "create")
        /\ UNCHANGED logged
     \/ /\ handle[p] = "open" /\ next[p] \in tables
        /\ Abandon(p, "create", "exists")
        /\ UNCHANGED <<next, tables>>
     \/ /\ handle[p] = "bad" \/ Faults
        /\ Abandon(p, "create", "fault")
        /\ UNCHANGED <<next, tables>>
  /\ UNCHANGED <<listener, handle, serving>>

\* The deadline of fx for the start passes while the hook connects or migrates.
StartDeadline(p) == hook[p] \in {"connect", "has", "create"} /\ Dies(p)

-----------------------------------------------------------------------------
(* Requests *)

Accept(q, p) ==
  /\ reply[q] = "unsent" /\ listener[p] = "listening" /\ Alive(p)
  /\ at' = [at EXCEPT ![q] = p]
  /\ late' = [late EXCEPT ![q] = hook[p] \in {"close", "stopped"}]
  /\ reply' = [reply EXCEPT ![q] = "open"]
  /\ UNCHANGED <<hook, listener, handle, migration, recovers>>

\* A handler's statement.  A panic is an answer with 500 if the recover middleware is
\* there, else the end of the process.
Serve(q) ==
  LET p == at[q] IN
  /\ reply[q] = "open"
  /\ \/ /\ ~NoPool(p) \/ recovers[p]
        /\ \E answer \in CASE NoPool(p)              -> {"panic"}
                           [] handle[p] = "bad"      -> {"error"}
                           [] handle[p] = "closed"   -> {"handle closed"}
                           [] OTHER -> {"error"} \cup (IF tables = Models THEN {"ok"} ELSE {}) :
             reply' = [reply EXCEPT ![q] = answer]
        /\ UNCHANGED <<hook, listener, handle, migration, recovers, at, late>>
     \/ NoPool(p) /\ ~recovers[p] /\ Dies(p)

-----------------------------------------------------------------------------
(* OnStop *)

\* A signal reaches a process that has started.
Signal(p) == Step(p, "started", "shutdown")
             /\ UNCHANGED <<listener, handle, migration, serving>>

\* ShutdownWithContext closes the listener; without one there is nothing to
\* wait for, even if the goroutine is about to bind the port.
Shutdown(p) ==
  /\ \/ /\ listener[p] = "listening"
        /\ listener' = [listener EXCEPT ![p] = "closed"]
        /\ Step(p, "shutdown", "drain")
     \/ /\ listener[p] # "listening"
        /\ Step(p, "shutdown", "close")
        /\ UNCHANGED listener
  /\ UNCHANGED <<handle, migration, serving>>

\* Variant: the shutdown does not wait.
DrainedAtOnce(p) == Step(p, "drain", "close")
                    /\ UNCHANGED <<listener, handle, migration, serving>>

Drained(p) == /\ InProgress(p) = {}
              /\ Step(p, "drain", "close")
              /\ UNCHANGED <<listener, handle, migration, serving>>

\* Variant: the context has no deadline.
DeadlineNever(p) == FALSE /\ UNCHANGED vars

\* The context of OnStop ends first: log.Panic, and the handle is never closed.
Deadline(p) == hook[p] = "drain" /\ Dies(p)

\* ShutdownDatabase.  A handle without a pool has no *sql.DB, and closing nil panics.
CloseDatabase(p) ==
  \/ /\ ~NoPool(p) /\ Step(p, "close", "stopped")
     /\ handle' = [handle EXCEPT ![p] = "closed"]
     /\ UNCHANGED <<listener, migration, serving>>
  \/ hook[p] = "close" /\ NoPool(p) /\ Dies(p)

\* Run returns, and main.
Exit(p) == /\ Step(p, "stopped", "exited")
           /\ EndProcess(p)
           /\ UNCHANGED <<listener, handle, migration, recovers, at, late>>

\* A prefork child that listens looks for its parent, and ends when that is gone.
Orphaned(p) == /\ ParentOf[p] # Absent /\ ~Alive(ParentOf[p])
               /\ Alive(p) /\ listener[p] \in {"listening", "closed"}
               /\ Dies(p)

Stop(p) == Shutdown(p) \/ Drained(p) \/ Deadline(p) \/ CloseDatabase(p) \/ Exit(p)

Next == \/ \E p \in Procs : \/ Listen(p) \/ Bind(p) \/ Connect(p)
                            \/ HasTable(p) \/ CreateTable(p) \/ StartDeadline(p)
                            \/ Signal(p) \/ Stop(p) \/ Orphaned(p)
        \/ \E q \in Requests : Serve(q) \/ \E p \in Procs : Accept(q, p)

Spec == Init /\ [][Next]_vars

\* The stop hook runs, and its context ends in time; handlers may block.
FairSpec == Spec /\ \A p \in Procs : WF_vars(Stop(p))

-----------------------------------------------------------------------------
(* Properties. *)

\* Types.
TypeOK ==
  /\ hook \in [Procs -> {"listen", "connect", "has", "create", "started", "shutdown",
                         "drain", "close", "stopped", "exited", "crashed"}]
  /\ listener \in [Procs -> {"none", "starting", "listening", "failed", "closed"}]
  /\ handle \in [Procs -> {"nil", "open", "bad", "poolless", "closed"}]
  /\ next \in [Procs -> 1..(TableCount + 1)]
  /\ logged \in [Procs -> {"nothing", "exists", "fault"}]
  /\ tables \subseteq Models
  /\ recovers \in [Servers -> BOOLEAN]
  /\ at \in [Requests -> Procs \cup {Absent}]
  /\ late \in [Requests -> BOOLEAN]
  /\ reply \in [Requests -> {"unsent", "open", "ok", "error", "panic",
                             "handle closed", "lost"}]

\* Every request that a process accepted before its shutdown passed finds the
\* handle open as long as it runs, and is answered before a process that ends in
\* order exits: one is lost only by a panic, a deadline of fx, for the start or the
\* stop, or the exit of the parent that preforked the process.  (A goroutine that
\* binds the port after the shutdown accepts late ones: webserver.go:96,128-138.)
StopLosesNothing ==
  \A q \in Requests :
     (at[q] # Absent /\ ~late[q]) =>
       /\ reply[q] # "handle closed"
       /\ reply[q] = "lost" => hook[at[q]] = "crashed"

\* A process that ended in the middle of its migration, before it logged an error.
Interrupted(p) == /\ hook[p] = "crashed" /\ handle[p] # "nil"
                  /\ next[p] <= TableCount /\ logged[p] = "nothing"

\* Processes that migrate side by side do the whole migration between them: a
\* process that loses a CREATE TABLE gives up, and yet, when no migration runs,
\* none was interrupted and none met an error of another kind, all tables exist
\* (database.go:82-88).
MigrationCompletes ==
  (/\ \E p \in Migrators : handle[p] # "nil"
   /\ \A p \in Migrators : hook[p] \notin {"has", "create"} /\ logged[p] # "fault"
   /\ \A p \in Migrators : ~Interrupted(p))
  => tables = Models

\* A process that was told to stop ends, though its handlers may block for ever
\* (webserver.go:131).
StopEnds == \A p \in Procs : hook[p] = "shutdown" ~> ~Alive(p)
=============================================================================
