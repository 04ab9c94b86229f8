--------------------------- MODULE ServiceShutdown ---------------------------
(***************************************************************************)
(* The life of one process of the order service (cmd/order/main.go): the   *)
(* errgroup of the publisher and the HTTP server, Server.Run with its      *)
(* shutdown timeout, and the deferred pool.Close, while requests are in    *)
(* flight.  A request is reduced to what a shutdown can interrupt: its     *)
(* claim, its transaction and its release, each on a connection of the     *)
(* pool.  Clients may be arbitrarily slow and may leave at any moment; the *)
(* database may fail a statement, with or without effect, but answers.     *)
(***************************************************************************)
EXTENDS Naturals, FiniteSets

CONSTANTS
    Requests,
    Publisher,       \* the publisher's goroutine, as a user of the pool
    MaxConns,        \* connections of the pool
    ListenMayFail    \* whether ListenAndServe may fail

ASSUME PublisherAssumption == Publisher \notin Requests
ASSUME MaxConnsAssumption == MaxConns \in Nat \ {0}
ASSUME ListenAssumption == ListenMayFail \in BOOLEAN

VARIABLES
    signalled,   \* SIGINT or SIGTERM has cancelled ctx
    main,        \* where run is
    server,      \* where Server.Run is
    listener,    \* where the goroutine of ListenAndServe is
    errCh,       \* the value in the channel between the two
    publisher,   \* where Publisher.Run is
    pool,        \* "open", or "closed" to new users
    conns,       \* who holds a connection
    phase,       \* where each request is
    key,         \* the idempotency key of each request
    erred        \* the requests whose Claim or Release reported an error

vars == <<signalled, main, server, listener, errCh, publisher, pool, conns, phase, key, erred>>

Users == Requests \cup {Publisher}

TypeOK ==
    /\ signalled \in BOOLEAN
    /\ main \in {"wait", "closing", "flush", "exited"}
    /\ server \in {"select", "drain", "await", "ok", "failed"}
    /\ listener \in {"starting", "serving", "closed", "ended"}
    /\ errCh \in {"empty", "nil", "err"}
    /\ publisher \in {"select", "begin", "batch", "returned"}
    /\ pool \in {"open", "closed"}
    /\ conns \subseteq Users
    /\ phase \in [Requests -> {"new", "body", "claim", "claiming", "handler", "tx",
                               "release", "releasing", "answer", "done"}]
    /\ key \in [Requests -> {"none", "in_progress", "completed"}]
    /\ erred \subseteq Requests

Init ==
    /\ signalled = FALSE
    /\ main = "wait" /\ server = "select" /\ listener = "starting"
    /\ errCh = "empty" /\ publisher = "select"
    /\ pool = "open" /\ conns = {}
    /\ phase = [r \in Requests |-> "new"]
    /\ key = [r \in Requests |-> "none"]
    /\ erred = {}

-----------------------------------------------------------------------------
(* Mutated forms of definitions below, as a plausible slip would write them; *)
(* the runs are checked to notice each of them.                              *)

\* The publisher and the server are given ctx instead of groupCtx.
CancelledBySignal == signalled

\* The error of Shutdown is dropped.
GivesUpSilently ==
    /\ server = "drain"
    /\ server' = "await"
    /\ UNCHANGED <<signalled, main, listener, errCh, publisher, pool, conns, phase, key, erred>>

\* Shutdown is given a context without a timeout.
NeverGivesUp == FALSE /\ UNCHANGED vars

\* run exits through os.Exit, past its deferred calls.
ExitsAtOnce == "flush"

\* The connection of the transaction is not given back.
EndTxLeaking(r) ==
    /\ phase[r] = "tx"
    /\ key' = [key EXCEPT ![r] = "completed"]
    /\ phase' = [phase EXCEPT ![r] = "answer"]
    /\ UNCHANGED <<signalled, main, server, listener, errCh, publisher, pool, conns, erred>>

\* Complete takes a connection of its own while the transaction holds one.
TxNeedsAnother(r) == Cardinality(conns) < MaxConns

-----------------------------------------------------------------------------
(* Helpers *)

\* groupCtx is done: by the signal, or by the first error in the group.
Cancelled == signalled \/ server = "failed"

\* Both members of the group have returned.
GroupDone == server \in {"ok", "failed"} /\ publisher = "returned"

\* What run does when the group is done: its deferred pool.Close comes first.
AfterWait == "closing"

\* What Server.Run returns for a value received from errCh.
Result(value) == IF value = "nil" THEN "ok" ELSE "failed"

\* Shutdown has been called.
ShuttingDown == server \notin {"select"}

\* The statements of the transaction run on the connection it holds.
TxCanEnd(r) == r \in conns

Running == main # "exited"

Move(r, to) == phase' = [phase EXCEPT ![r] = to]

-----------------------------------------------------------------------------
(* The pool *)

CanAcquire == pool = "open" /\ Cardinality(conns) < MaxConns

Acquire(u) == CanAcquire /\ conns' = conns \cup {u}

\* A closed pool refuses, whoever was waiting already included.
Refused == pool = "closed"

Return(u) == conns' = conns \ {u}

-----------------------------------------------------------------------------
(* A request *)

Accept(r) ==
    /\ Running /\ listener = "serving"
    /\ phase[r] = "new"
    /\ Move(r, "body")
    /\ UNCHANGED <<signalled, main, server, listener, errCh, publisher, pool, conns, key, erred>>

\* The client has sent the whole body.
ReadBody(r) ==
    /\ Running /\ phase[r] = "body"
    /\ Move(r, "claim")
    /\ UNCHANGED <<signalled, main, server, listener, errCh, publisher, pool, conns, key, erred>>

\* A statement of its own, or the transaction, gets a connection.
Connect(r) ==
    /\ Running
    /\ \/ phase[r] = "claim" /\ Move(r, "claiming")
       \/ phase[r] = "handler" /\ Move(r, "tx")
       \/ phase[r] = "release" /\ Move(r, "releasing")
    /\ Acquire(r)
    /\ UNCHANGED <<signalled, main, server, listener, errCh, publisher, pool, key, erred>>

\* 500 without a claim, or a failed handler, or an error of Release, dropped.
ConnectFails(r) ==
    /\ Running /\ Refused
    /\ \/ phase[r] = "claim" /\ Move(r, "answer")
       \/ phase[r] = "handler" /\ Move(r, "release")
       \/ phase[r] = "release" /\ Move(r, "answer")
    /\ UNCHANGED <<signalled, main, server, listener, errCh, publisher, pool, conns, key, erred>>

\* What the statements of Claim and Release do; a completed key stays.
Taken(r) == [key EXCEPT ![r] = "in_progress"]
Freed(r) == [key EXCEPT ![r] = IF @ = "in_progress" THEN "none" ELSE @]

Claims(r) ==
    /\ Running /\ phase[r] = "claiming"
    /\ key' = Taken(r)
    /\ Return(r)
    /\ Move(r, "handler")
    /\ UNCHANGED <<signalled, main, server, listener, errCh, publisher, pool, erred>>

\* The client leaves while its body is read, or while Claim waits for a connection.
Leaves(r) ==
    /\ Running /\ phase[r] \in {"body", "claim"}
    /\ Move(r, "answer")
    /\ UNCHANGED <<signalled, main, server, listener, errCh, publisher, pool, conns, key, erred>>

\* Claim reports an error, since the client has left or the database fails, and
\* nothing is deferred yet; or Release does, to nobody.  Either may have taken
\* effect all the same.
Errs(r) ==
    /\ Running
    /\ \/ phase[r] = "claiming" /\ key' \in {key, Taken(r)}
       \/ phase[r] = "releasing" /\ key' \in {key, Freed(r)}
    /\ erred' = erred \cup {r}
    /\ Return(r)
    /\ Move(r, "answer")
    /\ UNCHANGED <<signalled, main, server, listener, errCh, publisher, pool>>

\* A 4xx of the handler.
Refuses(r) ==
    /\ Running /\ phase[r] = "handler"
    /\ Move(r, "release")
    /\ UNCHANGED <<signalled, main, server, listener, errCh, publisher, pool, conns, key, erred>>

\* The transaction commits, key included, and says so or not, or is rolled back.
EndTx(r) ==
    /\ Running /\ phase[r] = "tx"
    /\ TxCanEnd(r)
    /\ \/ key' = [key EXCEPT ![r] = "completed"] /\ (Move(r, "answer") \/ Move(r, "release"))
       \/ UNCHANGED key /\ Move(r, "release")
    /\ Return(r)
    /\ UNCHANGED <<signalled, main, server, listener, errCh, publisher, pool, erred>>

Releases(r) ==
    /\ Running /\ phase[r] = "releasing"
    /\ key' = Freed(r)
    /\ Return(r)
    /\ Move(r, "answer")
    /\ UNCHANGED <<signalled, main, server, listener, errCh, publisher, pool, erred>>

\* The answer is small and buffered: net/http sends it after the handler.
Answer(r) ==
    /\ Running /\ phase[r] = "answer"
    /\ Move(r, "done")
    /\ UNCHANGED <<signalled, main, server, listener, errCh, publisher, pool, conns, key, erred>>

-----------------------------------------------------------------------------
(* Publisher.Run, seen from the pool *)

\* select may take the tick although ctx is done.
Tick ==
    /\ Running /\ publisher = "select"
    /\ publisher' = "begin"
    /\ UNCHANGED <<signalled, main, server, listener, errCh, pool, conns, phase, key, erred>>

BeginBatch ==
    /\ Running /\ publisher = "begin"
    /\ ~Cancelled
    /\ Acquire(Publisher)
    /\ publisher' = "batch"
    /\ UNCHANGED <<signalled, main, server, listener, errCh, pool, phase, key, erred>>

BeginFails ==
    /\ Running /\ publisher = "begin"
    /\ Cancelled \/ Refused
    /\ publisher' = "select"
    /\ UNCHANGED <<signalled, main, server, listener, errCh, pool, conns, phase, key, erred>>

EndBatch ==
    /\ Running /\ publisher = "batch"
    /\ Return(Publisher)
    /\ publisher' = "select"
    /\ UNCHANGED <<signalled, main, server, listener, errCh, pool, phase, key, erred>>

PublisherReturns ==
    /\ Running /\ publisher = "select"
    /\ Cancelled
    /\ publisher' = "returned"
    /\ UNCHANGED <<signalled, main, server, listener, errCh, pool, conns, phase, key, erred>>

-----------------------------------------------------------------------------
(* Server.Run and the goroutine it starts *)

\* ListenAndServe listens, or finds that Shutdown was called before it.
Listen ==
    /\ Running /\ listener = "starting"
    /\ IF ShuttingDown
         THEN listener' = "ended" /\ errCh' = "nil"
         ELSE listener' = "serving" /\ UNCHANGED errCh
    /\ UNCHANGED <<signalled, main, server, publisher, pool, conns, phase, key, erred>>

ListenFails ==
    /\ Running /\ ListenMayFail
    /\ listener \in {"starting", "serving"}
    /\ listener' = "ended" /\ errCh' = "err"
    /\ UNCHANGED <<signalled, main, server, publisher, pool, conns, phase, key, erred>>

\* ErrServerClosed, once Shutdown has closed the listener.
ListenReturns ==
    /\ Running /\ listener = "closed"
    /\ listener' = "ended" /\ errCh' = "nil"
    /\ UNCHANGED <<signalled, main, server, publisher, pool, conns, phase, key, erred>>

ShutdownBegins ==
    /\ Running /\ server = "select"
    /\ Cancelled
    /\ server' = "drain"
    /\ listener' = IF listener = "serving" THEN "closed" ELSE listener
    /\ UNCHANGED <<signalled, main, errCh, publisher, pool, conns, phase, key, erred>>

\* Shutdown returns nil.
Drained ==
    /\ Running /\ server = "drain"
    /\ \A r \in Requests : phase[r] \in {"new", "done"}
    /\ server' = "await"
    /\ UNCHANGED <<signalled, main, listener, errCh, publisher, pool, conns, phase, key, erred>>

\* The shutdown timeout: Run returns its error, the requests go on.
GivesUp ==
    /\ Running /\ server = "drain"
    /\ server' = "failed"
    /\ UNCHANGED <<signalled, main, listener, errCh, publisher, pool, conns, phase, key, erred>>

\* Run returns what the listener's goroutine sent, before or after Shutdown.
Receive ==
    /\ Running /\ server \in {"select", "await"}
    /\ errCh # "empty"
    /\ server' = Result(errCh)
    /\ errCh' = "empty"
    /\ UNCHANGED <<signalled, main, listener, publisher, pool, conns, phase, key, erred>>

-----------------------------------------------------------------------------
(* run *)

\* A second signal changes nothing: NotifyContext keeps taking them.
Signal ==
    /\ Running /\ ~signalled
    /\ signalled' = TRUE
    /\ UNCHANGED <<main, server, listener, errCh, publisher, pool, conns, phase, key, erred>>

\* group.Wait returns, and pool.Close refuses new users from now on ...
Waited ==
    /\ main = "wait"
    /\ GroupDone
    /\ main' = AfterWait
    /\ pool' = IF AfterWait = "closing" THEN "closed" ELSE pool
    /\ UNCHANGED <<signalled, server, listener, errCh, publisher, conns, phase, key, erred>>

\* ... and returns when those it has come back.
PoolClosed ==
    /\ main = "closing"
    /\ conns = {}
    /\ main' = "flush"
    /\ UNCHANGED <<signalled, server, listener, errCh, publisher, pool, conns, phase, key, erred>>

\* The telemetry is flushed, for at most five seconds, and the process exits
\* with what the group returned.
Exit ==
    /\ main = "flush"
    /\ main' = "exited"
    /\ UNCHANGED <<signalled, server, listener, errCh, publisher, pool, conns, phase, key, erred>>

ExitCode == IF server = "failed" THEN 1 ELSE 0

-----------------------------------------------------------------------------
(* The specification *)

OnDatabase(r) == ConnectFails(r) \/ Claims(r) \/ EndTx(r) \/ Releases(r)

\* What nobody has to do.  The client decides when it sends, what it sends, when
\* it reads and whether it leaves.
OnClient(r) ==
    Accept(r) \/ ReadBody(r) \/ Refuses(r) \/ Answer(r) \/ Leaves(r) \/ Errs(r)

Publish == BeginBatch \/ BeginFails \/ EndBatch
Serve == ShutdownBegins \/ Drained \/ GivesUp \/ Receive
Run == Waited \/ PoolClosed \/ Exit

Exited == main = "exited" /\ UNCHANGED vars

Next ==
    \/ \E r \in Requests : OnClient(r) \/ Connect(r) \/ OnDatabase(r)
    \/ Tick \/ Publish \/ PublisherReturns
    \/ Listen \/ ListenFails \/ ListenReturns \/ Serve
    \/ Signal \/ Run \/ Exited

Spec == Init /\ [][Next]_vars

\* Goroutines that can run do, the database answers, and Shutdown times out.
\* Nothing is assumed of clients.  The pool serves those who wait in turn, and
\* a select that is asked again and again takes each of its ready cases.
Fairness ==
    /\ \A r \in Requests : SF_vars(Connect(r)) /\ WF_vars(OnDatabase(r))
    /\ WF_vars(Publish) /\ SF_vars(PublisherReturns)
    /\ WF_vars(Listen) /\ WF_vars(ListenReturns) /\ WF_vars(Serve)
    /\ WF_vars(Run)

FairSpec == Spec /\ Fairness

-----------------------------------------------------------------------------
(* Properties *)

\* Server.Run, "drains in-flight requests within the shutdown timeout. It
\* returns nil on a clean shutdown": a process that exits with 0 has answered
\* every request it accepted, and has left a key in progress behind only where
\* Claim or Release reported an error: most of all of a client that left while
\* Claim's INSERT was executed, whose key nobody releases, shutdown or not.
ExitZeroIsClean ==
    main = "exited" /\ ExitCode = 0 =>
        \A r \in Requests :
            phase[r] \in {"new", "done"} /\ (key[r] = "in_progress" => r \in erred)

\* run: the pool is closed behind the publisher, never under it.
PoolOutlivesPublisher ==
    pool = "closed" => publisher = "returned" /\ Publisher \notin conns

\* run: even when the shutdown timeout has passed, the process does not exit in
\* the middle of a transaction, since pool.Close waits for its connection.
NoTransactionCut ==
    main = "exited" => \A r \in Requests : phase[r] \notin {"claiming", "tx", "releasing"}

\* run: once it is signalled, or cannot listen, the process exits, however slow
\* its clients are and wherever its requests stand.
SignalEndsProcess == signalled ~> main = "exited"
ListenFailureEndsProcess == errCh = "err" ~> main = "exited" /\ ExitCode = 1

\* A request never holds a connection while it waits for another one, so the
\* pool, however small, gets every request to its answer.
RequestsGetConnections ==
    \A r \in Requests : phase[r] = "claim" ~> phase[r] \in {"answer", "done"} \/ main = "exited"

-----------------------------------------------------------------------------
(* The inductive invariant that the safety theorems rest on *)

\* Connections are held exactly where the code is between taking one and giving
\* it back.
ConnsMatch ==
    /\ Publisher \in conns <=> publisher = "batch"
    /\ \A r \in Requests :
         r \in conns <=> phase[r] \in {"claiming", "tx", "releasing"}

\* The deferred calls come in their order.
CloseInOrder ==
    /\ pool = "closed" <=> main # "wait"
    /\ main # "wait" => GroupDone
    /\ main \in {"flush", "exited"} => conns = {}

\* Once Shutdown has returned nil, and as long as Run returns nil, nothing is in
\* flight and nothing can come.
DrainedMeansIdle ==
    /\ errCh # "empty" => listener = "ended"
    /\ errCh = "nil" \/ listener = "closed" => ShuttingDown
    /\ ShuttingDown => listener # "serving"
    /\ server \in {"await", "ok"} => \A r \in Requests : phase[r] \in {"new", "done"}

\* A key is left in progress only behind an error of Claim or Release, or by a
\* request that finds the pool closed, after Shutdown has given up.
KeysReleased ==
    \A r \in Requests : key[r] = "in_progress" =>
        \/ phase[r] \in {"handler", "tx", "release", "releasing"}
        \/ r \in erred \/ server = "failed"

ShutdownInv ==
    /\ TypeOK
    /\ ConnsMatch
    /\ CloseInOrder
    /\ DrainedMeansIdle
    /\ KeysReleased

==============================================================================
