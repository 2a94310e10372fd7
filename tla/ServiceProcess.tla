--------------------------- MODULE ServiceProcess ---------------------------
(***************************************************************************)
(* The processes of the three gRPC services, from their start to a         *)
(* graceful stop: configuration, migrations, the connection pool, serving, *)
(* draining.  A step that fails ends the process with Fatal (os.Exit(1),   *)
(* which skips every deferred call); the restart policy starts it again.   *)
(* The schema a process leaves behind is the only thing that outlives it.  *)
(***************************************************************************)
EXTENDS Naturals

CONSTANTS
  Calls,     \* calls of the gRPC methods; each is made once
  Bundled,   \* services whose migration files are where the binary looks
  Extended,  \* services that register a second description of their name
  Faults,    \* the kinds of failure that may happen
  MaxFaults  \* bound: signals, kills, failed scripts, outages in a behaviour

\* "signal": SIGTERM; "kill": the process ends at once; "script": a migration
\* reports an error; "outage": the database is not there for a while.
FaultKinds == {"signal", "kill", "script", "outage"}
Services   == {"user", "room", "payment"}

ASSUME BundledAssumption  == Bundled \subseteq Services
ASSUME ExtendedAssumption == Extended \subseteq Services
ASSUME FaultsAssumption   == Faults \subseteq FaultKinds
ASSUME BoundAssumption    == MaxFaults \in Nat

VARIABLES
  db,         \* whether the database accepts connections
  schema,     \* schema_migrations: version and dirty, one database a service
  applied,    \* the migrations whose script has run to its end
  phase,      \* the step of main each process is at
  pool,       \* whether the connection pool is open
  signalled,  \* whether the context of main is cancelled
  running,    \* the calls whose handler runs
  answered,   \* the calls the service has answered
  faults,     \* how often a fault has happened
  kills       \* and how often that was a kill

process == <<phase, pool, signalled, running>>
stored  == <<schema, applied>>
vars    == <<db, stored, process, answered, faults, kills>>

Phases == {"down", "migrate", "migrating", "connect", "listen", "serving", "draining"}

\* The highest version among the migration files of a service.
Latest == [s \in Services |-> IF s = "user" THEN 2 ELSE 1]
Migrated(s) == applied[s] = 1 .. Latest[s]

-----------------------------------------------------------------------------
(* Start.                                                                   *)

\* The steps of each main up to Serve: what follows what.
UserMain    == [down |-> "connect", connect |-> "migrate",
                migrate |-> "listen", listen |-> "serving"]
RoomMain    == [down |-> "migrate", migrate |-> "connect",
                connect |-> "listen", listen |-> "serving"]
PaymentMain == [down |-> "migrate", migrate |-> "connect",
                connect |-> "listen", listen |-> "serving"]
After(s, p) == CASE s = "user"    -> UserMain[p]
                 [] s = "room"    -> RoomMain[p]
                 [] s = "payment" -> PaymentMain[p]
Goto(s, p) == phase' = [phase EXCEPT ![s] = p]

Count(kind) ==
  /\ kind \in Faults /\ faults < MaxFaults
  /\ faults' = faults + 1

\* os.Exit, or the return of main.
Exit(s) ==
  /\ Goto(s, "down")
  /\ pool'      = [pool EXCEPT ![s] = FALSE]
  /\ signalled' = [signalled EXCEPT ![s] = FALSE]
  /\ running'   = [running EXCEPT ![s] = {}]

Start(s) ==
  /\ phase[s] = "down"
  /\ Goto(s, After(s, "down"))
  /\ UNCHANGED <<db, stored, pool, signalled, running, answered, faults, kills>>

\* Mutation: Up goes on from a dirty version.
ReadyToMigrateDirty(s) == db /\ s \in Bundled

\* migrate.New and the checks of Up: the files, the database, a clean version.
ReadyToMigrate(s) == db /\ s \in Bundled /\ ~schema[s].dirty

\* Mutation: ErrNoChange is an error like any other.
NoChangeFails(s) ==
  /\ phase[s] = "migrate" /\ ReadyToMigrate(s)
  /\ schema[s].version = Latest[s]
  /\ Exit(s)
  /\ UNCHANGED <<db, stored, answered, faults, kills>>

\* Nothing is left to apply (ErrNoChange, or the last one is done).
NoChange(s) ==
  /\ phase[s] = "migrate" /\ ReadyToMigrate(s)
  /\ schema[s].version = Latest[s]
  /\ Goto(s, After(s, "migrate"))
  /\ UNCHANGED <<db, stored, pool, signalled, running, answered, faults, kills>>

\* Mutation: the bound on the versions is off by one.
MarkDirtyOffByOne(s) ==
  /\ phase[s] = "migrate" /\ ReadyToMigrate(s)
  /\ schema[s].version <= Latest[s]
  /\ schema' = [schema EXCEPT ![s] = [version |-> @.version + 1, dirty |-> TRUE]]
  /\ Goto(s, "migrating")
  /\ UNCHANGED <<db, applied, pool, signalled, running, answered, faults, kills>>

\* A version is marked dirty before its script runs ...
MarkDirty(s) ==
  /\ phase[s] = "migrate" /\ ReadyToMigrate(s)
  /\ schema[s].version < Latest[s]
  /\ schema' = [schema EXCEPT ![s] = [version |-> @.version + 1, dirty |-> TRUE]]
  /\ Goto(s, "migrating")
  /\ UNCHANGED <<db, applied, pool, signalled, running, answered, faults, kills>>

\* ... and clean after it.
RunScript(s) ==
  /\ phase[s] = "migrating" /\ db
  /\ schema'  = [schema EXCEPT ![s].dirty = FALSE]
  /\ applied' = [applied EXCEPT ![s] = @ \cup {schema[s].version}]
  /\ Goto(s, "migrate")
  /\ UNCHANGED <<db, pool, signalled, running, answered, faults, kills>>

MigrateFatal(s) ==
  /\ \/ phase[s] = "migrate" /\ ~ReadyToMigrate(s) /\ UNCHANGED faults
     \/ phase[s] = "migrating" /\ ~db /\ UNCHANGED faults
     \/ phase[s] = "migrating" /\ Count("script")
  /\ Exit(s)
  /\ UNCHANGED <<db, stored, answered, kills>>

\* The ping uses the context of main: a signal before it is an error, too.
Connect(s) ==
  /\ phase[s] = "connect"
  /\ IF db /\ ~signalled[s]
     THEN /\ pool' = [pool EXCEPT ![s] = TRUE]
          /\ Goto(s, After(s, "connect"))
          /\ UNCHANGED <<signalled, running>>
     ELSE Exit(s)
  /\ UNCHANGED <<db, stored, answered, faults, kills>>

\* A second description under a registered name is fatal to grpc.
Listen(s) ==
  /\ phase[s] = "listen"
  /\ IF s \in Extended THEN Exit(s)
     ELSE Goto(s, After(s, "listen")) /\ UNCHANGED <<pool, signalled, running>>
  /\ UNCHANGED <<db, stored, answered, faults, kills>>

-----------------------------------------------------------------------------
(* Calls and the end of a process.                                          *)

\* The interceptor passes the call on to the handler.
Accept(s, c) ==
  /\ phase[s] = "serving"
  /\ running' = [running EXCEPT ![s] = @ \cup {c}]
  /\ UNCHANGED <<db, stored, phase, pool, signalled, answered, faults, kills>>

Answer(s, c) ==
  /\ c \in running[s]
  /\ running'  = [running EXCEPT ![s] = @ \ {c}]
  /\ answered' = answered \cup {c}
  /\ UNCHANGED <<db, stored, phase, pool, signalled, faults, kills>>

Signal(s) ==
  /\ phase[s] # "down" /\ ~signalled[s]
  /\ Count("signal")
  /\ signalled' = [signalled EXCEPT ![s] = TRUE]
  /\ UNCHANGED <<db, stored, phase, pool, running, answered, kills>>

\* Mutation: Stop instead of GracefulStop.
StopAtOnce(s) ==
  /\ phase[s] = "serving" /\ signalled[s]
  /\ Goto(s, "draining")
  /\ running' = [running EXCEPT ![s] = {}]
  /\ UNCHANGED <<db, stored, pool, signalled, answered, faults, kills>>

\* GracefulStop: no new calls, ...
GracefulStop(s) ==
  /\ phase[s] = "serving" /\ signalled[s]
  /\ Goto(s, "draining")
  /\ UNCHANGED <<db, stored, pool, signalled, running, answered, faults, kills>>

\* ... and main returns when those that run have been answered.
Drained(s) ==
  /\ phase[s] = "draining" /\ running[s] = {}
  /\ Exit(s)
  /\ UNCHANGED <<db, stored, answered, faults, kills>>

Kill(s) ==
  /\ phase[s] # "down"
  /\ Count("kill") /\ kills' = kills + 1
  /\ Exit(s)
  /\ UNCHANGED <<db, stored, answered>>

Outage ==
  /\ db /\ Count("outage")
  /\ db' = FALSE
  /\ UNCHANGED <<stored, process, answered, kills>>

Recover == ~db /\ db' = TRUE /\ UNCHANGED <<stored, process, answered, faults, kills>>

-----------------------------------------------------------------------------
Init ==
  /\ db        = TRUE
  /\ schema    = [s \in Services |-> [version |-> 0, dirty |-> FALSE]]
  /\ applied   = [s \in Services |-> {}]
  /\ phase     = [s \in Services |-> "down"]
  /\ pool      = [s \in Services |-> FALSE]
  /\ signalled = [s \in Services |-> FALSE]
  /\ running   = [s \in Services |-> {}]
  /\ answered = {} /\ faults = 0 /\ kills = 0

\* Every start is over: where a client of a running system finds it.
Serving ==
  /\ db        = TRUE
  /\ schema    = [s \in Services |-> [version |-> Latest[s], dirty |-> FALSE]]
  /\ applied   = [s \in Services |-> 1 .. Latest[s]]
  /\ phase     = [s \in Services |-> "serving"]
  /\ pool      = [s \in Services |-> TRUE]
  /\ signalled = [s \in Services |-> FALSE]
  /\ running   = [s \in Services |-> {}]
  /\ answered = {} /\ faults = 0 /\ kills = 0

\* A client makes each call once, to any service.
Made == answered \cup UNION {running[s] : s \in Services}
Arrive(s) == \E c \in Calls \ Made : Accept(s, c)

\* What main, grpc and the restart policy do by themselves.
Continue(s) ==
  \/ Start(s) \/ NoChange(s) \/ MarkDirty(s) \/ RunScript(s)
  \/ Connect(s) \/ Listen(s) \/ GracefulStop(s) \/ Drained(s)
  \/ phase[s] = "migrate" /\ MigrateFatal(s)

Fault(s) == Signal(s) \/ Kill(s) \/ MigrateFatal(s)

Next ==
  \/ \E s \in Services :
       \/ Continue(s) \/ Fault(s) \/ Arrive(s)
       \/ \E c \in Calls : Answer(s, c)
  \/ Outage \/ Recover

Spec == Init /\ [][Next]_vars

\* Processes run and are restarted, handlers return, the database comes back.
FairSpec ==
  /\ Spec
  /\ \A s \in Services : WF_vars(Continue(s))
  /\ \A s \in Services, c \in Calls : WF_vars(Answer(s, c))
  /\ WF_vars(Recover)

-----------------------------------------------------------------------------
(* Properties.                                                              *)

\* The variables keep their types, and no version is beyond the files there are.
TypeOK ==
  /\ db \in BOOLEAN
  /\ \A s \in Services : schema[s].version <= Latest[s]
  /\ schema    \in [Services -> [version : Nat, dirty : BOOLEAN]]
  /\ applied   \in [Services -> SUBSET Nat]
  /\ phase     \in [Services -> Phases]
  /\ pool      \in [Services -> BOOLEAN]
  /\ signalled \in [Services -> BOOLEAN]
  /\ running   \in [Services -> SUBSET Calls]
  /\ answered \subseteq Calls
  /\ faults \in Nat /\ kills \in Nat

\* A handler only ever runs when every migration of its service has run to its
\* end and the pool is open: also after restarts in the middle of a migration,
\* and in the calls a stopping process has still to answer.
HandlersAreBacked ==
  \A s \in Services : running[s] # {} => pool[s] /\ Migrated(s)

\* An accepted call is answered before its service ends, unless the process is
\* killed: a SIGTERM at any moment, failed scripts and outages lose none.
StopsLoseNoCall ==
  [][kills' = kills =>
       \A s \in Services : running[s] \ running'[s] \subseteq answered']_vars

\* A service that can start serves again after every stop, kill and outage, as
\* long as no migration of it was cut off: that one needs an operator.
ServesAgain ==
  \A s \in Bundled \ Extended :
    []<>(phase[s] = "serving" \/ (schema[s].dirty /\ phase[s] # "migrating"))
=============================================================================
