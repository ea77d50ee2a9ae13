--------------------------------- MODULE Boot ---------------------------------
(***************************************************************************)
(* How the processes of the application come up: the configuration is      *)
(* found, parsed and validated, the session store is built, the middleware *)
(* is registered, the port is bound, and the rest of the start hook        *)
(* connects to the database, which fx allows 15 seconds.  With prefork the *)
(* parent starts children that run main again, each of which reads the     *)
(* configuration for itself, from files that an operator may have edited   *)
(* meanwhile.                                                              *)
(*                                                                         *)
(* A configuration is a record of what Validate and the start look at; a   *)
(* required text is known by whether it was given.  Durations are counted  *)
(* in ticks (nanoseconds in Go).                                           *)
(***************************************************************************)
EXTENDS Integers, Sequences

CONSTANTS Parent, Children,
          Configs,              \* configurations that files may hold
          Candidates,           \* sequence of places, in the order they are tried
          Missing, Malformed, Empty,  \* what else may be at a place
          Edits,                \* bound: what an operator may put there later
          NoConfig,             \* of a process that has read none
          NumberOf,             \* token of an address: its number, or NotANumber
          NotANumber, MaxPort,
          Ephemeral,            \* ports that the system picks from, if asked for 0
          Second, Day, Threshold,  \* ticks in a second, seconds in a day, 1000000
          MinSecret             \* 32

Processes == {Parent} \cup Children
Places    == {Candidates[i] : i \in DOMAIN Candidates}
Files     == Configs \cup {Missing, Malformed, Empty}

\* What a Config is known by: given texts, addresses taken apart at their colons,
\* the data sources and other fields that were given, and the length of the secret.
IsConfig(c) ==
  /\ c.addr \in Seq(DOMAIN NumberOf) /\ Len(c.addr) > 0
  /\ {c.named, c.prefork} \subseteq BOOLEAN /\ c.secret \in Nat
  /\ c.dsns \subseteq {"postgres", "mysql"}
  /\ c.tls.enable \in BOOLEAN /\ c.tls.given \subseteq {"cert", "key"}
  /\ {c.session.enable, c.session.named, c.session.host} \subseteq BOOLEAN
  /\ c.session.expiration \in Int
  /\ c.storage.given \subseteq {"path", "bucket", "keys", "host"}

ASSUME BootAssumption ==
  /\ \A c \in Configs : IsConfig(c)
  /\ NumberOf \in [DOMAIN NumberOf -> Int] /\ NotANumber \in Int \ (0..MaxPort)
  /\ Ephemeral \subseteq 1..MaxPort /\ Edits \subseteq Files
  /\ Parent \notin Children /\ NoConfig \notin Configs
  /\ {Missing, Malformed, Empty} \cap Configs = {}
  /\ Second \in Nat /\ Day \in Nat /\ Threshold \in Nat
  /\ 0 < Day /\ Day < Threshold /\ Threshold < Second

VARIABLES disk,    \* place: the file there
          edited,  \* somebody edited a file after the parent had read its own
          phase,   \* process: how far it has come
          conf,    \* process: the configuration it has read
          port,    \* process: the number it has bound, NotANumber before
          started  \* processes whose start hook has returned

vars == <<disk, edited, phase, conf, port, started>>

-----------------------------------------------------------------------------
(* Config.Validate. *)

\* Variant: the part before the colon is looked at.
CheckedHost(addr) == addr[1]

\* The part of an address that is checked: Split(addr, ":")[1], or all of it.
CheckedPart(addr) == IF Len(addr) > 1 THEN addr[2] ELSE addr[1]

RequiredBy(driver) == CASE driver = "local" -> {"path"}
                        [] driver = "s3"    -> {"bucket", "keys"}
                        [] driver = "ftp"   -> {"host"}
                        [] OTHER            -> {}

\* The fields that are complained about.
Errors(c) ==
  LET wrong == [
        name    |-> ~c.named,
        port    |-> c.addr = <<"">> \/ NumberOf[CheckedPart(c.addr)] = NotANumber,
        db      |-> c.dsns = {},
        secret  |-> ~c.session.enable /\ c.secret < MinSecret,
        tls     |-> c.tls.enable /\ ~{"cert", "key"} \subseteq c.tls.given,
        session |-> c.session.enable /\ ~c.session.named,
        driver  |-> c.storage.driver \notin {"", "local", "ftp", "s3"},
        storage |-> ~RequiredBy(c.storage.driver) \subseteq c.storage.given]
  IN {field \in DOMAIN wrong : wrong[field]}

-----------------------------------------------------------------------------
(* What the start makes of a configuration. *)

\* Variant: the number is taken as it is.
ExpirationInTicks(raw) == raw

\* NewStore: zero is a day, a small number counts seconds, a large one ticks.
Expiration(raw) == IF raw = 0 THEN Day * Second
                   ELSE IF raw < Threshold THEN raw * Second ELSE raw

\* fiber's session takes a day for anything below a second.
Lifetime(raw) == LET e == Expiration(raw) IN
                 IF e \div Second <= 0 THEN Day * Second ELSE e

UsesRedis(c) == c.session.driver = "redis" /\ c.session.host

\* Register: the URL of the frontend overrides the configured origins.
Origins(c) == IF c.frontend # "" THEN c.frontend ELSE c.origins

\* cors.New takes no origin for all of them, and panics over all of them together
\* with credentials, which are always allowed here, and over an origin without a
\* scheme ("bare"), whether CORS is enabled or not.
Refused == {"", "*", "bare"}

CorsPanics(c) == Origins(c) \in Refused

\* A number alone gets a colon in front of it.
ListenAddress(addr) == IF Len(addr) = 1 THEN <<"", addr[1]>> ELSE addr

\* net.Listen wants a host, which may be empty, and a port.
Bindable(addr) == Len(addr) = 2 /\ NumberOf[addr[2]] \in 0..MaxPort

-----------------------------------------------------------------------------
Init == /\ disk \in [Places -> Files]
        /\ edited = FALSE
        /\ phase = [p \in Processes |-> IF p = Parent THEN "begin" ELSE "unborn"]
        /\ conf = [p \in Processes |-> NoConfig]
        /\ port = [p \in Processes |-> NotANumber]
        /\ started = {}

Goto(p, there) == phase' = [phase EXCEPT ![p] = there]

\* ParseConfig: the first file that can be read counts, whatever it holds.
Found == LET readable == {i \in DOMAIN Candidates : disk[Candidates[i]] # Missing} IN
         IF readable = {} THEN Missing
         ELSE disk[Candidates[CHOOSE i \in readable : \A j \in readable : i <= j]]

\* Variant: a configuration that does not validate is only logged.
LoadLax(p) == /\ phase[p] = "begin"
              /\ IF Found \in Configs
                 THEN conf' = [conf EXCEPT ![p] = Found] /\ Goto(p, "configured")
                 ELSE Goto(p, "ended") /\ UNCHANGED conf
              /\ UNCHANGED <<disk, edited, port, started>>

\* NewConfig.  The parent panics when there is no configuration or a wrong one.
\* A child only logs: without a configuration it panics in Validate then, with a
\* wrong one it goes on.
Load(p) == /\ phase[p] = "begin"
           /\ IF Found \in Configs
              THEN /\ conf' = [conf EXCEPT ![p] = Found]
                   /\ Goto(p, IF p = Parent /\ Errors(Found) # {} THEN "ended" ELSE "configured")
              ELSE Goto(p, "ended") /\ UNCHANGED conf
           /\ UNCHANGED <<disk, edited, port, started>>

\* NewStore: memory, or redis, whose constructor panics when it finds no server.
BuildStore(p) == /\ phase[p] = "configured"
                 /\ Goto(p, "built") \/ (UsesRedis(conf[p]) /\ Goto(p, "ended"))
                 /\ UNCHANGED <<disk, edited, conf, port, started>>

\* Start calls Register, in the start hook.
Register(p) == /\ phase[p] = "built"
               /\ Goto(p, IF CorsPanics(conf[p]) THEN "ended" ELSE "registered")
               /\ UNCHANGED <<disk, edited, conf, port, started>>

\* Variant: a port that is taken is no error.
ListenTaken(p) ==
  LET addr == ListenAddress(conf[p].addr) IN
  /\ phase[p] = "registered" /\ (p = Parent => ~conf[p].prefork)
  /\ Bindable(addr)
  /\ Goto(p, "listening")
  /\ UNCHANGED <<disk, edited, conf, port, started>>

\* The ports that p may bind where number is asked for: the system picks a free one
\* for 0, and any other is shared only by processes that prefork.
Ports(p, number) ==
  IF number = 0
  THEN {n \in Ephemeral : \A q \in Processes \ {p} : port[q] # n}
  ELSE {n \in {number} : \A q \in Processes \ {p} :
                           port[q] = n => conf[p].prefork /\ conf[q].prefork}

\* The listener's goroutine: binds, or logs an error (port, certificate, host), and
\* the process stays up.
Listen(p) ==
  LET addr == ListenAddress(conf[p].addr) IN
  /\ phase[p] = "registered" /\ (p = Parent => ~conf[p].prefork)
  /\ \/ /\ Bindable(addr)
        /\ \E n \in Ports(p, NumberOf[addr[2]]) : port' = [port EXCEPT ![p] = n]
        /\ Goto(p, "listening")
     \/ Goto(p, "deaf") /\ UNCHANGED port
  /\ UNCHANGED <<disk, edited, conf, started>>

\* The listener of a parent that preforks: children are started, or not.
Fork == /\ phase[Parent] = "registered" /\ conf[Parent].prefork
        /\ \/ phase' = [p \in Processes |-> IF p = Parent THEN "forking" ELSE "begin"]
           \/ Goto(Parent, "deaf")
        /\ UNCHANGED <<disk, edited, conf, port, started>>

\* A process ends, and what it has bound is free.
End(p) == Goto(p, "ended") /\ port' = [port EXCEPT ![p] = NotANumber]

\* The rest of the start hook, beside the listener: ConnectDatabase, which panics
\* without a DSN, and the migration, which panics over a handle without a pool.  It
\* returns, or the process ends, by a panic or by the deadline for the start.
FinishStart(p) ==
  /\ phase[p] \in {"registered", "listening", "forking", "deaf"} /\ p \notin started
  /\ \/ /\ conf[p].dsns # {}
        /\ started' = started \cup {p}
        /\ UNCHANGED <<phase, port>>
     \/ End(p) /\ UNCHANGED started
  /\ UNCHANGED <<disk, edited, conf>>

\* Variant: the others are left alone.
ReapOne == /\ phase[Parent] = "forking" /\ \E c \in Children : phase[c] = "ended"
           /\ Goto(Parent, "deaf")
           /\ UNCHANGED <<disk, edited, conf, port, started>>

\* Its Listen ends when a child has ended: it kills the others, and the parent
\* stays up.
Reap == /\ phase[Parent] = "forking" /\ \E c \in Children : phase[c] = "ended"
        /\ phase' = [p \in Processes |-> IF p = Parent THEN "deaf" ELSE "ended"]
        /\ port' = [p \in Processes |-> NotANumber]
        /\ UNCHANGED <<disk, edited, conf, started>>

\* A child that listens notices that its parent is gone, and ends.
Orphaned(c) == /\ phase[Parent] = "ended" /\ phase[c] = "listening"
               /\ End(c)
               /\ UNCHANGED <<disk, edited, conf, started>>

\* A child dies.
Crash(c) == /\ phase[Parent] = "forking" /\ phase[c] # "ended"
            /\ End(c)
            /\ UNCHANGED <<disk, edited, conf, started>>

\* An operator edits a file while the application runs; once, in this model.
Edit == /\ ~edited /\ phase[Parent] # "begin"
        /\ \E place \in Places, file \in Edits :
             disk' = [disk EXCEPT ![place] = file]
        /\ edited' = TRUE
        /\ UNCHANGED <<phase, conf, port, started>>

Boots(p) == Load(p) \/ BuildStore(p) \/ Register(p) \/ Listen(p)

Next == \/ \E p \in Processes : Boots(p) \/ FinishStart(p)
        \/ Fork \/ Reap \/ Edit
        \/ \E c \in Children : Orphaned(c) \/ Crash(c)

\* Processes run.
FairSpec == /\ Init /\ [][Next]_vars /\ WF_vars(Fork \/ Reap)
            /\ \A p \in Processes : WF_vars(Boots(p))
            /\ \A c \in Children : WF_vars(Orphaned(c))

-----------------------------------------------------------------------------
(* Properties. *)

\* Types.
TypeOK == /\ disk \in [Places -> Files]
          /\ edited \in BOOLEAN
          /\ phase \in [Processes -> {"unborn", "begin", "configured", "built", "registered",
                                      "listening", "forking", "deaf", "ended"}]
          /\ conf \in [Processes -> Configs \cup {NoConfig}]
          /\ \A p \in Processes : port[p] # NotANumber <=> phase[p] = "listening"
          /\ started \subseteq Processes

\* Unless somebody edited a file after the parent had read its own, all processes
\* that listen have one configuration, and it validates; a child takes any
\* configuration, but one that validated just before (config.go:295-315).
ListenersValidated ==
  \A p, q \in Processes :
     phase[p] = "listening" /\ phase[q] = "listening" =>
       \/ conf[p] = conf[q] /\ Errors(conf[p]) = {}
       \/ edited /\ Parent \notin {p, q}

\* The number that a process binds is the one that Validate looked at, although
\* the two take addresses apart by different rules; for 0, which Validate lets pass,
\* it is one that the system picked (config.go:176-180, webserver.go:83-86).
BoundPortIsChecked ==
  \A p \in Processes :
     phase[p] = "listening" /\ Errors(conf[p]) = {} =>
       LET checked == NumberOf[CheckedPart(conf[p].addr)]
       IN IF checked = 0 THEN port[p] \in Ephemeral ELSE port[p] = checked

\* A session never outlives the seconds that were configured, although a large
\* number is not taken for seconds and a tiny duration is replaced by a day
\* (session.go:49-55).
LifetimeNeverLonger ==
  \A p \in Processes :
     LET raw == conf[p].session.expiration IN
     phase[p] \in {"built", "registered", "listening", "forking", "deaf"} /\ raw > 0 =>
       Lifetime(raw) <= raw * Second

\* One death takes the service down: soon after a process has ended nobody listens
\* any more, its siblings killed by the parent and its children having noticed, while
\* a parent that lost a child stays up without a listener (webserver.go:96-110).
DeathStopsService ==
  \A p \in Processes : phase[p] = "ended" ~> \A q \in Processes : phase[q] # "listening"
=============================================================================
