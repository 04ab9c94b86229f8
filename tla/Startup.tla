------------------------------- MODULE Startup -------------------------------
(***************************************************************************)
(* The service from main to its errgroup: several replicas that start      *)
(* together on one database.  run loads the configuration, sets up         *)
(* telemetry, opens the pool and migrates; an error at any point unwinds   *)
(* what was set up and ends the process.  A replica is one process; once   *)
(* it serves, ServiceShutdown takes over.                                  *)
(*                                                                         *)
(* The migration runs on one connection that also holds the advisory lock. *)
(* The server keeps that session, its lock and its COMMIT, until it has    *)
(* noticed that the process on the other end is gone.                      *)
(***************************************************************************)
EXTENDS Naturals

CONSTANTS
    Replicas,
    Reliable,       \* replicas that no fault strikes
    Environments,   \* environments a replica may be started in
    Last,           \* the migrations are 1 .. Last
    Free,           \* nobody holds the advisory lock
    Faults          \* what may go wrong, see FaultKinds

FaultKinds == {"signal",     \* SIGINT or SIGTERM cancels the context of run
               "telemetry",  \* otelx.Setup fails
               "db",         \* any database call fails, executed or not
               "slow",       \* the locker runs out of attempts
               "crash"}      \* the process stops between two steps

ASSUME ReliableAssumption == Reliable \subseteq Replicas
ASSUME LastAssumption == Last \in Nat
ASSUME FreeAssumption == Free \notin Replicas

Environment == [dsn: {"unset", "garbled", "good"},
                level: {"unknown", "known"},
                poll: {"garbled", "nonpositive", "positive"},
                timeout: {"garbled", "good"}]

ASSUME EnvironmentsAssumption == Environments \subseteq Environment

VARIABLES
    env,         \* the environment of each replica
    at,          \* where run is in each replica
    signalled,   \* replicas whose context is cancelled
    running,     \* what run has set up and must take down
    up,          \* the members of the errgroup that have started
    next,        \* the migration each replica applies next
    lock,        \* the session that holds the advisory lock
    commit,      \* the COMMIT of each replica's session
    schema,      \* the migrations applied, in goose_db_version
    abandoned    \* sessions whose client is gone

vars == <<env, at, signalled, running, up, next, lock, commit, schema, abandoned>>

Versions == 1..Last

Migrating == {"check", "lock", "list", "apply", "await"}
Ended == {"exited", "panicked", "dead"}

TypeOK ==
    /\ env \in [Replicas -> Environments]
    /\ at \in [Replicas -> {"load", "setup", "pool", "serve", "closing", "flush"}
                             \cup Migrating \cup Ended]
    /\ signalled \subseteq Replicas
    /\ running \in [Replicas -> SUBSET {"tracer", "pool"}]
    /\ up \in [Replicas -> SUBSET {"publisher", "server"}]
    /\ next \in [Replicas -> 1..(Last + 1)]
    /\ lock \in Replicas \cup {Free}
    /\ commit \in [Replicas -> {"none", "sent", "done"}]
    /\ schema \subseteq Versions
    /\ abandoned \subseteq Replicas

Init ==
    /\ env \in [Replicas -> Environments]
    /\ at = [r \in Replicas |-> "load"]
    /\ signalled = {} /\ abandoned = {}
    /\ running = [r \in Replicas |-> {}]
    /\ up = [r \in Replicas |-> {}]
    /\ next = [r \in Replicas |-> 1]
    /\ lock = Free
    /\ commit = [r \in Replicas |-> "none"]
    /\ schema \in {1..n : n \in 0..Last}

-----------------------------------------------------------------------------
(* Mutated forms of definitions below, as a plausible slip would write them; *)
(* the runs are checked to notice each of them.                              *)

\* The durations are not looked at for errors, only the other two.
LoadErrorLenient(e) == e.dsn = "unset" \/ e.level = "unknown"

\* Setup returns the error and leaves the batch processor running.
LeftBySetup == {"tracer"}

\* goose without a session locker.
LockIsTaken(r) == TRUE

\* The list made before the lock is the one that is applied.
ListedBefore(n) == 1

\* A lock that outlives its session, as a row in a table would.
LockOfDead(r) == lock

-----------------------------------------------------------------------------
(* Helpers *)

Strikes(fault, r) == fault \in Faults /\ r \notin Reliable

Goto(r, to) == at' = [at EXCEPT ![r] = to]

\* config.Load: what it refuses.  A duration that parses is good, however
\* small: zero and negative ones reach NewTicker.
LoadError(e) ==
    \/ e.dsn = "unset"
    \/ e.level = "unknown"
    \/ e.poll = "garbled"
    \/ e.timeout = "garbled"

\* What a failed Setup leaves running.
SetupLeaves == {}

\* Where run goes when Migrate returns an error: to its deferred calls.
MigrateFailed == "closing"

-----------------------------------------------------------------------------
(* run, up to Migrate *)

Load(r) ==
    /\ at[r] = "load"
    /\ Goto(r, IF LoadError(env[r]) THEN "exited" ELSE "setup")
    /\ UNCHANGED <<env, signalled, running, up, next, lock, commit, schema, abandoned>>

\* NotifyContext: from here on a signal cancels the context.
Signal(r) ==
    /\ Strikes("signal", r)
    /\ at[r] \in {"setup", "pool"} \cup Migrating
    /\ signalled' = signalled \cup {r}
    /\ UNCHANGED <<env, at, running, up, next, lock, commit, schema, abandoned>>

Setup(r) ==
    /\ at[r] = "setup"
    /\ running' = [running EXCEPT ![r] = @ \cup {"tracer"}]
    /\ Goto(r, "pool")
    /\ UNCHANGED <<env, signalled, up, next, lock, commit, schema, abandoned>>

SetupFails(r) ==
    /\ at[r] = "setup"
    /\ Strikes("telemetry", r)
    /\ running' = [running EXCEPT ![r] = @ \cup SetupLeaves]
    /\ Goto(r, "exited")
    /\ UNCHANGED <<env, signalled, up, next, lock, commit, schema, abandoned>>

\* NewPool, its Ping included; it closes the pool that does not answer.
OpenPool(r) ==
    /\ at[r] = "pool"
    /\ env[r].dsn = "good"
    /\ r \notin signalled
    /\ running' = [running EXCEPT ![r] = @ \cup {"pool"}]
    /\ Goto(r, "check")
    /\ UNCHANGED <<env, signalled, up, next, lock, commit, schema, abandoned>>

OpenPoolFails(r) ==
    /\ at[r] = "pool"
    /\ env[r].dsn # "good" \/ r \in signalled \/ Strikes("db", r)
    /\ Goto(r, "flush")
    /\ UNCHANGED <<env, signalled, running, up, next, lock, commit, schema, abandoned>>

-----------------------------------------------------------------------------
(* Migrate: goose's Up with a session locker *)

\* Up looks for pending migrations without the lock first.
CheckPending(r) ==
    /\ at[r] = "check"
    /\ r \notin signalled
    /\ Goto(r, IF schema = Versions THEN "serve" ELSE "lock")
    /\ UNCHANGED <<env, signalled, running, up, next, lock, commit, schema, abandoned>>

\* pg_try_advisory_lock, repeated until it is granted.
LockGranted(r) == lock = Free

TakeLock(r) ==
    /\ at[r] = "lock"
    /\ LockGranted(r)
    /\ r \notin signalled
    /\ lock' = r
    /\ Goto(r, "list")
    /\ UNCHANGED <<env, signalled, running, up, next, commit, schema, abandoned>>

\* The attempts are used up.
GiveUpLock(r) ==
    /\ at[r] = "lock"
    /\ lock # Free
    /\ Strikes("slow", r)
    /\ Goto(r, MigrateFailed)
    /\ UNCHANGED <<env, signalled, running, up, next, lock, commit, schema, abandoned>>

\* The migrations are listed again, under the lock.
FirstMissing(n) == n + 1

List(r) ==
    /\ at[r] = "list"
    /\ r \notin signalled
    /\ \E n \in 0..Last :
         /\ schema = 1..n
         /\ next' = [next EXCEPT ![r] = FirstMissing(n)]
    /\ Goto(r, "apply")
    /\ UNCHANGED <<env, signalled, running, up, lock, commit, schema, abandoned>>

\* One migration with its row in goose_db_version, in one transaction.
Apply(r) ==
    /\ at[r] = "apply"
    /\ next[r] \in Versions
    /\ r \notin signalled
    /\ commit' = [commit EXCEPT ![r] = "sent"]
    /\ Goto(r, "await")
    /\ UNCHANGED <<env, signalled, running, up, next, lock, schema, abandoned>>

Applied(r) ==
    /\ at[r] = "await"
    /\ commit[r] = "done"
    /\ commit' = [commit EXCEPT ![r] = "none"]
    /\ next' = [next EXCEPT ![r] = @ + 1]
    /\ Goto(r, "apply")
    /\ UNCHANGED <<env, signalled, running, up, lock, schema, abandoned>>

\* Nothing is missing: the lock is given back, and Migrate returns nil.
Unlock(r) ==
    /\ at[r] = "apply"
    /\ next[r] \notin Versions
    /\ lock' = Free
    /\ Goto(r, "serve")
    /\ UNCHANGED <<env, signalled, running, up, next, commit, schema, abandoned>>

\* A call fails: run returns the error, and the session ends with its
\* connection, some time later.  The lock may have been granted all the same.
MigrateFails(r) ==
    /\ at[r] \in Migrating
    /\ r \in signalled \/ Strikes("db", r)
    /\ abandoned' = abandoned \cup {r}
    /\ \/ UNCHANGED lock
       \/ at[r] = "lock" /\ lock = Free /\ lock' = r
    /\ Goto(r, MigrateFailed)
    /\ UNCHANGED <<env, signalled, running, up, next, commit, schema>>

-----------------------------------------------------------------------------
(* run, after Migrate *)

StartServer(r) ==
    /\ at[r] = "serve"
    /\ "server" \notin up[r]
    /\ up' = [up EXCEPT ![r] = @ \cup {"server"}]
    /\ UNCHANGED <<env, at, signalled, running, next, lock, commit, schema, abandoned>>

\* NewTicker panics in the publisher's goroutine for an interval that is not
\* positive, and the process is gone without its deferred calls.
StartPublisher(r) ==
    /\ at[r] = "serve"
    /\ "publisher" \notin up[r]
    /\ IF env[r].poll = "positive"
         THEN up' = [up EXCEPT ![r] = @ \cup {"publisher"}] /\ UNCHANGED at
         ELSE up' = [up EXCEPT ![r] = {}] /\ Goto(r, "panicked")
    /\ UNCHANGED <<env, signalled, running, next, lock, commit, schema, abandoned>>

\* The deferred calls of a start that failed, last one first.
ClosePool(r) ==
    /\ at[r] = "closing"
    /\ running' = [running EXCEPT ![r] = @ \ {"pool"}]
    /\ Goto(r, "flush")
    /\ UNCHANGED <<env, signalled, up, next, lock, commit, schema, abandoned>>

Flush(r) ==
    /\ at[r] = "flush"
    /\ running' = [running EXCEPT ![r] = @ \ {"tracer"}]
    /\ Goto(r, "exited")
    /\ UNCHANGED <<env, signalled, up, next, lock, commit, schema, abandoned>>

\* A request for the lock that is under way may be granted after all.
Crash(r) ==
    /\ Strikes("crash", r)
    /\ at[r] \notin Ended
    /\ abandoned' = abandoned \cup {r}
    /\ \/ UNCHANGED lock
       \/ at[r] = "lock" /\ lock = Free /\ lock' = r
    /\ up' = [up EXCEPT ![r] = {}]
    /\ Goto(r, "dead")
    /\ UNCHANGED <<env, signalled, running, next, commit, schema>>

-----------------------------------------------------------------------------
(* PostgreSQL, as goose relies on it *)

CommitApplies(r) ==
    /\ commit[r] = "sent"
    /\ schema' = schema \cup {next[r]}
    /\ commit' = [commit EXCEPT ![r] = "done"]
    /\ UNCHANGED <<env, at, signalled, running, up, next, lock, abandoned>>

CommitLost(r) ==
    /\ commit[r] = "sent"
    /\ r \in abandoned
    /\ commit' = [commit EXCEPT ![r] = "none"]
    /\ UNCHANGED <<env, at, signalled, running, up, next, lock, schema, abandoned>>

\* A session takes its advisory lock with it.
LockAfter(r) == IF lock = r THEN Free ELSE lock

SessionEnds(r) ==
    /\ r \in abandoned
    /\ commit[r] # "sent"
    /\ lock' = LockAfter(r)
    /\ commit' = [commit EXCEPT ![r] = "none"]
    /\ abandoned' = abandoned \ {r}
    /\ UNCHANGED <<env, at, signalled, running, up, next, schema>>

-----------------------------------------------------------------------------
(* The specification *)

Run(r) ==
    \/ Load(r) \/ Setup(r) \/ OpenPool(r)
    \/ CheckPending(r) \/ TakeLock(r) \/ List(r) \/ Apply(r) \/ Applied(r) \/ Unlock(r)
    \/ StartServer(r) \/ StartPublisher(r) \/ ClosePool(r) \/ Flush(r)

Fault(r) ==
    \/ Signal(r) \/ SetupFails(r) \/ OpenPoolFails(r)
    \/ GiveUpLock(r) \/ MigrateFails(r) \/ Crash(r)

Database(r) == CommitApplies(r) \/ CommitLost(r) \/ SessionEnds(r)

\* Every replica serves, has ended or still polls for the lock, and the server
\* has nothing to resolve.
Started(r) == at[r] = "serve" /\ up[r] = {"publisher", "server"}

Quiet ==
    /\ abandoned = {}
    /\ \A r \in Replicas : at[r] \in Ended \cup {"lock"} \/ Started(r)
    /\ UNCHANGED vars

Next ==
    \/ \E r \in Replicas : Run(r) \/ Fault(r) \/ Database(r)
    \/ Quiet

Spec == Init /\ [][Next]_vars

\* run keeps running, with the failures it cannot avoid, and the server
\* resolves what it was sent and notices dead sessions.
MustFail(r) ==
    \/ (env[r].dsn # "good" \/ r \in signalled) /\ OpenPoolFails(r)
    \/ r \in signalled /\ MigrateFails(r)

FairSpec ==
    /\ Spec
    /\ \A r \in Replicas : WF_vars(Run(r) \/ MustFail(r)) /\ WF_vars(Database(r))

-----------------------------------------------------------------------------
(* Properties *)

\* Migrate, "holds a Postgres session advisory lock for the duration, so
\* replicas starting at the same time do not race each other": whatever fails
\* or crashes in between, a migration is only ever committed by the session
\* that holds the lock, once, and after all that come before it.
MigrationsApart ==
    \A r \in Replicas : commit[r] = "sent" =>
        lock = r /\ schema = 1..(next[r] - 1)

\* run: no replica listens before the schema it needs is complete.
ServesMigrated ==
    \A r \in Replicas : up[r] # {} => schema = Versions

\* Setup, "stop it rather than leaking it", NewPool and the deferred calls of
\* run: a start that fails, at whatever point, takes down what it had set up
\* before it reports its error.
FailedStartCleansUp ==
    \A r \in Replicas : at[r] = "exited" => running[r] = {}

\* Load, "or that holds a malformed value", and NewTicker: a replica whose
\* variables all hold what they should always comes to serve, whatever happens
\* to the others while they hold the lock.
WellConfigured(r) ==
    env[r] = [dsn |-> "good", level |-> "known", poll |-> "positive", timeout |-> "good"]

ReliableStarts ==
    \A r \in Reliable : WellConfigured(r) ~> Started(r)

\* Load: a value it should have refused never gets a process as far as its
\* database; and what it lets through ends a process only by way of NewTicker,
\* when nothing is left to migrate and nobody waits for this replica's lock.
BadValuesAreHarmless ==
    \A r \in Replicas :
        /\ env[r].poll = "garbled" \/ env[r].timeout = "garbled" \/ env[r].level = "unknown" =>
             running[r] = {}
        /\ at[r] = "panicked" => schema = Versions /\ lock # r

-----------------------------------------------------------------------------
(* What makes them inductive *)

\* The session that migrates is the one with the lock, and knows the schema.
LockedAndListed ==
    \A r \in Replicas :
        /\ at[r] \in {"load", "setup", "pool", "check", "lock"} => lock # r /\ r \notin abandoned
        /\ at[r] \in {"list", "apply", "await"} => lock = r /\ r \notin abandoned
        /\ at[r] = "apply" => schema = 1..(next[r] - 1) /\ commit[r] = "none"
        /\ at[r] = "await" => commit[r] # "none"
        /\ commit[r] # "none" => /\ lock = r /\ next[r] \in Versions
                                 /\ at[r] = "await" \/ r \in abandoned
        /\ commit[r] = "done" => schema = 1..next[r]
        /\ lock = r => at[r] \in {"list", "apply", "await"} \/ r \in abandoned

\* What is set up where.
SetUp(r) ==
    /\ at[r] \in {"load", "setup", "exited"} => running[r] = {}
    /\ at[r] \in {"pool", "flush"} => running[r] \subseteq {"tracer"}
    /\ up[r] # {} => at[r] = "serve"
    /\ at[r] \in {"serve", "panicked"} => schema = Versions /\ lock # r
    /\ at[r] \in Ended \cup {"load"} \/ ~LoadError(env[r])
    /\ LoadError(env[r]) => running[r] = {} /\ at[r] # "panicked"

SetUps == \A r \in Replicas : SetUp(r)

Prefix == \E n \in 0..Last : schema = 1..n

StartupInv == TypeOK /\ Prefix /\ MigrationsApart /\ LockedAndListed /\ SetUps

=============================================================================
