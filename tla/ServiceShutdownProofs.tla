----------------------- MODULE ServiceShutdownProofs -----------------------
(* Theorems about ServiceShutdown, for any number of requests and            *)
(* connections.                                                              *)
EXTENDS ServiceShutdown, TLAPS

\* The process starts with nothing in flight.
LEMMA InitShutdown == Init => ShutdownInv
  BY PublisherAssumption
     DEF Init, ShutdownInv, TypeOK, Users, ConnsMatch, CloseInOrder, DrainedMeansIdle,
         KeysReleased, ShuttingDown

\* A step of a request, with the connection it takes or gives back.
LEMMA RequestStep ==
    ASSUME ShutdownInv, NEW r \in Requests,
           OnClient(r) \/ Connect(r) \/ OnDatabase(r)
    PROVE  ShutdownInv'
<1> USE DEF ShutdownInv
<1>1. /\ UNCHANGED <<signalled, main, server, listener, errCh, publisher, pool>>
      /\ phase' \in [Requests -> {"new", "body", "claim", "claiming", "handler", "tx",
                                  "release", "releasing", "answer", "done"}]
      /\ key' \in [Requests -> {"none", "in_progress", "completed"}]
      /\ \A q \in Requests : q # r => phase'[q] = phase[q] /\ key'[q] = key[q]
      /\ erred \subseteq erred' /\ erred' \subseteq Requests
  BY DEF OnClient, Connect, OnDatabase, Accept, ReadBody, Refuses, Answer, Leaves, Errs,
         ConnectFails, Claims, EndTx, Releases, Taken, Freed, Move, TypeOK
<1>2. /\ conns' \subseteq Users
      /\ Publisher \in conns' <=> Publisher \in conns
      /\ \A q \in Requests : q # r => (q \in conns' <=> q \in conns)
      /\ r \in conns' <=> phase'[r] \in {"claiming", "tx", "releasing"}
  BY PublisherAssumption
     DEF OnClient, Connect, OnDatabase, Accept, ReadBody, Refuses, Answer, Leaves, Errs,
         ConnectFails, Claims, EndTx, Releases, Move, Acquire, Return, TypeOK, ConnsMatch, Users
<1>3. TypeOK'
  BY <1>1, <1>2 DEF TypeOK
<1>4. ConnsMatch'
  BY <1>1, <1>2 DEF ConnsMatch
<1>5. CloseInOrder'
  <2>1. conns' \subseteq conns \/ pool = "open"
    BY DEF OnClient, Connect, OnDatabase, Accept, ReadBody, Refuses, Answer, Leaves, Errs,
        ConnectFails, Claims, EndTx, Releases, Acquire, CanAcquire, Return
  <2> QED
    BY <1>1, <2>1 DEF CloseInOrder, GroupDone
<1>6. DrainedMeansIdle'
  <2>1. server \in {"await", "ok"} => phase'[r] = phase[r]
    BY DEF OnClient, Connect, OnDatabase, Accept, ReadBody, Refuses, Answer, Leaves, Errs,
        ConnectFails, Claims, EndTx, Releases, DrainedMeansIdle, ShuttingDown
  <2> QED
    BY <1>1, <2>1 DEF DrainedMeansIdle, ShuttingDown
<1>7. KeysReleased'
  <2>1. ASSUME key'[r] = "in_progress", server # "failed"
        PROVE  phase'[r] \in {"handler", "tx", "release", "releasing"} \/ r \in erred'
    <3>1. CASE ConnectFails(r)
      <4>1. server = "ok"
        BY <2>1, <3>1 DEF ConnectFails, Refused, CloseInOrder, GroupDone
      <4> QED
        BY <3>1, <4>1 DEF ConnectFails, DrainedMeansIdle
    <3>2. CASE OnClient(r) \/ Connect(r) \/ Claims(r) \/ EndTx(r) \/ Releases(r)
      BY <2>1, <3>2 DEF OnClient, Connect, Accept, ReadBody, Refuses, Answer, Leaves, Errs,
         Claims, EndTx, Releases, Taken, Freed, Move, TypeOK, KeysReleased
    <3> QED
      BY <3>1, <3>2 DEF OnDatabase
  <2> QED
    BY <1>1, <2>1 DEF KeysReleased
<1> QED
  BY <1>3, <1>4, <1>5, <1>6, <1>7

\* A step of the publisher.
LEMMA PublisherStep ==
    ASSUME ShutdownInv, Tick \/ Publish \/ PublisherReturns
    PROVE  ShutdownInv'
<1> USE DEF ShutdownInv
<1>1. UNCHANGED <<signalled, main, server, listener, errCh, pool, phase, key, erred>>
  BY DEF Tick, Publish, BeginBatch, BeginFails, EndBatch, PublisherReturns
<1>2. /\ publisher' \in {"select", "begin", "batch", "returned"}
      /\ publisher # "returned"
      /\ conns' \subseteq Users
      /\ Publisher \in conns' <=> publisher' = "batch"
      /\ \A r \in Requests : r \in conns' <=> r \in conns
  BY PublisherAssumption
     DEF Tick, Publish, BeginBatch, BeginFails, EndBatch, PublisherReturns, Acquire,
         Return, ConnsMatch, TypeOK, Users
<1>3. TypeOK' /\ ConnsMatch'
  BY <1>1, <1>2 DEF TypeOK, ConnsMatch
<1>4. CloseInOrder'
  BY <1>1, <1>2 DEF CloseInOrder, GroupDone
<1>5. DrainedMeansIdle' /\ KeysReleased'
  BY <1>1 DEF DrainedMeansIdle, KeysReleased, ShuttingDown
<1> QED
  BY <1>3, <1>4, <1>5

\* A step of the server or of the goroutine that listens.
LEMMA ServerStep ==
    ASSUME ShutdownInv, Listen \/ ListenFails \/ ListenReturns \/ Serve
    PROVE  ShutdownInv'
<1> USE DEF ShutdownInv
<1>1. UNCHANGED <<signalled, main, publisher, pool, conns, phase, key, erred>>
  BY DEF Listen, ListenFails, ListenReturns, Serve, ShutdownBegins, Drained, GivesUp, Receive
<1>2. TypeOK'
  BY <1>1 DEF Listen, ListenFails, ListenReturns, Serve, ShutdownBegins, Drained, GivesUp,
     Receive, Result, TypeOK
<1>3. ConnsMatch'
  BY <1>1 DEF ConnsMatch
<1>4. GroupDone => server' = server
  BY DEF GroupDone, Listen, ListenFails, ListenReturns, Serve, ShutdownBegins, Drained,
         GivesUp, Receive
<1>5. CloseInOrder'
  BY <1>1, <1>4 DEF CloseInOrder, GroupDone
<1>6. DrainedMeansIdle'
  BY <1>1 DEF DrainedMeansIdle, ShuttingDown, Listen, ListenFails, ListenReturns, Serve,
     ShutdownBegins, Drained, GivesUp, Receive, Result, TypeOK
<1>7. server = "failed" => server' = "failed"
  BY DEF Listen, ListenFails, ListenReturns, Serve, ShutdownBegins, Drained, GivesUp, Receive
<1>8. KeysReleased'
  BY <1>1, <1>7 DEF KeysReleased
<1> QED
  BY <1>2, <1>3, <1>5, <1>6, <1>8

\* A signal, or a step of run.
LEMMA RunStep ==
    ASSUME ShutdownInv, Signal \/ Run
    PROVE  ShutdownInv'
<1> USE DEF ShutdownInv
<1>1. UNCHANGED <<server, listener, errCh, publisher, conns, phase, key, erred>>
  BY DEF Signal, Run, Waited, PoolClosed, Exit
<1>2. TypeOK'
  <2>1. signalled' \in BOOLEAN /\ main' \in {"wait", "closing", "flush", "exited"}
    BY Zenon DEF Signal, Run, Waited, PoolClosed, Exit, AfterWait, TypeOK
  <2>2. pool' \in {"open", "closed"}
    BY DEF Signal, Run, Waited, PoolClosed, Exit, TypeOK
  <2> QED
    BY <1>1, <2>1, <2>2 DEF TypeOK
<1>3. ConnsMatch' /\ DrainedMeansIdle' /\ KeysReleased'
  BY <1>1 DEF ConnsMatch, DrainedMeansIdle, KeysReleased, ShuttingDown
<1>4. CloseInOrder'
  BY <1>1 DEF CloseInOrder, GroupDone, Signal, Run, Waited, PoolClosed, Exit, AfterWait
<1> QED
  BY <1>2, <1>3, <1>4

\* Every step keeps the invariant.
LEMMA NextShutdown == ShutdownInv /\ [Next]_vars => ShutdownInv'
<1> SUFFICES ASSUME ShutdownInv, [Next]_vars PROVE ShutdownInv'
  OBVIOUS
<1>1. CASE UNCHANGED vars
  BY <1>1 DEF vars, ShutdownInv, TypeOK, ConnsMatch, CloseInOrder, GroupDone,
     DrainedMeansIdle, ShuttingDown, KeysReleased
<1> QED
  BY <1>1, RequestStep, PublisherStep, ServerStep, RunStep DEF Next, Exited

\* run, Server.Run, Publisher.Run and the requests in flight: types, connections
\* and the order of the deferred calls.
THEOREM ShutdownInvariant == Spec => []ShutdownInv
  BY InitShutdown, NextShutdown, PTL DEF Spec

\* Every variable of the process keeps its type, in every order of signal,
\* failure and answers.
THEOREM TypeCorrect == Spec => []TypeOK
<1>1. ShutdownInv => TypeOK
  BY DEF ShutdownInv
<1> QED
  BY <1>1, ShutdownInvariant, PTL

\* Server.Run: a process that exits with 0 has answered every request, and left a
\* key in progress only behind an error of Claim or Release.
THEOREM CleanExit == Spec => []ExitZeroIsClean
<1>1. ShutdownInv => ExitZeroIsClean
  <2> SUFFICES ASSUME ShutdownInv, main = "exited", ExitCode = 0, NEW r \in Requests
               PROVE  /\ phase[r] \in {"new", "done"}
                      /\ key[r] = "in_progress" => r \in erred
    BY DEF ExitZeroIsClean
  <2>1. server = "ok"
    BY DEF ShutdownInv, CloseInOrder, GroupDone, ExitCode
  <2> QED
    BY <2>1 DEF ShutdownInv, DrainedMeansIdle, KeysReleased
<1> QED
  BY <1>1, ShutdownInvariant, PTL

\* run: the deferred pool.Close comes after the publisher's last batch.
THEOREM PoolClosesLast == Spec => []PoolOutlivesPublisher
<1>1. ShutdownInv => PoolOutlivesPublisher
  BY DEF ShutdownInv, CloseInOrder, GroupDone, ConnsMatch, PoolOutlivesPublisher
<1> QED
  BY <1>1, ShutdownInvariant, PTL

\* run: no exit, timely or not, cuts a transaction.
THEOREM ExitsBetweenTransactions == Spec => []NoTransactionCut
<1>1. ShutdownInv => NoTransactionCut
  BY DEF ShutdownInv, CloseInOrder, ConnsMatch, NoTransactionCut
<1> QED
  BY <1>1, ShutdownInvariant, PTL
==============================================================================
