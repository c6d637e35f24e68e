------------------------- MODULE RuntimeServerProofs -------------------------
(***************************************************************************)
(* The safety of RuntimeServer, for any set of requests, any part of them  *)
(* that comes through the gateway or goes to the worker, and any           *)
(* priorities.                                                             *)
(***************************************************************************)
EXTENDS RuntimeServer, TLAPS

-----------------------------------------------------------------------------
(* The inductive invariant                                                 *)

\* A gRPC server that has not begun to serve, or has drained, has no handlers.
ServerInv == grpc \in {"new", "refused", "stopped"} => InFlight = {}

\* The cache's lock is held exactly by the handler that opens the connection,
\* and nothing is cached as long as one does.
CacheInv(r) == (pc[r] = "opening" <=> lock = r) /\ (lock = r => cached = None)

\* The connection is had by a handler that reads from the catalog, by a job that
\* runs, or by the rows of a job that has ended; a job is with the worker as
\* long as its handler is in Execute.
ConnInv(r) ==
  /\ pc[r] = "ended" => r \in done
  /\ r \in Queries =>
       /\ status[r] = "queued" => pc[r] = "executing"
       /\ status[r] = "running" => pc[r] \in {"executing", "ended"}
  /\ conn = r =>
       \/ pc[r] = "reading"
       \/ /\ r \in Queries /\ pc[r] \in {"executing", "ended"}
          /\ status[r] \in {"running", "done"}

IInv == TypeOK /\ ServerInv /\ \A r \in Requests : CacheInv(r) /\ ConnInv(r)

USE DEF servers, handlers, driver

-----------------------------------------------------------------------------
(* Type correctness                                                        *)

\* Every variable has its type at the start and keeps it in every step.
LEMMA TypeStep == TypeOK /\ [Next]_vars => TypeOK'
<1> SUFFICES ASSUME TypeOK, [Next]_vars PROVE TypeOK'
  OBVIOUS
<1> USE RequestsAssumption DEF TypeOK, Worker!Status
<1>1. ASSUME Terminate \/ FailGRPC \/ FailHTTP PROVE TypeOK'
  BY <1>1 DEF Terminate, FailGRPC, FailHTTP, Unserved
<1>2. CASE ServerStep
  <2> USE DEF Unserved
  <2>1. CASE StartGRPC BY <2>1 DEF StartGRPC
  <2>2. CASE StopGRPC BY <2>2 DEF StopGRPC
  <2>3. CASE EndGRPC BY <2>3 DEF EndGRPC
  <2>4. CASE StartHTTP BY <2>4 DEF StartHTTP
  <2>5. CASE StopHTTP BY <2>5 DEF StopHTTP
  <2>6. CASE EndHTTP BY <2>6 DEF EndHTTP
  <2>7. CASE CloseGateway BY <2>7 DEF CloseGateway
  <2> QED BY <1>2, <2>1, <2>2, <2>3, <2>4, <2>5, <2>6, <2>7 DEF ServerStep
<1>3. CASE WorkerStep
  <2> SUFFICES ASSUME NEW r \in Queries,
                      StartJob(r) \/ TakeConnection(r) \/ CancelStatement(r) \/ EndStatement(r)
               PROVE  TypeOK'
    BY <1>3 DEF WorkerStep
  <2> USE DEF Undisturbed
  <2>1. CASE StartJob(r) BY <2>1 DEF StartJob, Worker!Start
  <2>2. CASE TakeConnection(r) BY <2>2 DEF TakeConnection
  <2>3. CASE CancelStatement(r) BY <2>3 DEF CancelStatement, Worker!Finish
  <2>4. CASE EndStatement(r) BY <2>4 DEF EndStatement, Worker!Finish
  <2> QED BY <2>1, <2>2, <2>3, <2>4
<1>4. ASSUME NEW r \in Requests, Arrive(r) \/ Leave(r) \/ CloseAbandoned(r) PROVE TypeOK'
  BY <1>4 DEF Arrive, Leave, CloseAbandoned, PcIs, Undisturbed
<1>5. ASSUME NEW r \in Requests, HandlerStep(r) PROVE TypeOK'
  <2> USE DEF PcIs, Return, Execute, Worker!Submit
  <2>1. CASE Forward(r) BY <2>1 DEF Forward
  <2>2. CASE Open(r) BY <2>2 DEF Open
  <2>3. CASE Opened(r) BY <2>3 DEF Opened, Unlocked
  <2>4. CASE RunDirect(r) BY <2>4 DEF RunDirect
  <2>5. CASE GiveUp(r) BY <2>5 DEF GiveUp
  <2>6. CASE Processed(r) BY <2>6 DEF Processed, Worker!Drop
  <2>7. CASE CloseRows(r) BY <2>7 DEF CloseRows
  <2> QED BY <1>5, <2>1, <2>2, <2>3, <2>4, <2>5, <2>6, <2>7 DEF HandlerStep
<1>6. CASE UNCHANGED vars
  BY <1>6 DEF vars
<1> QED
  BY <1>1, <1>2, <1>3, <1>4, <1>5, <1>6 DEF Next

LEMMA InitType == Init => TypeOK
BY DEF Init, TypeOK, Worker!Init, Worker!Status

\* Every variable of the server keeps its type.
THEOREM TypeCorrect == Spec => []TypeOK
BY InitType, TypeStep, PTL DEF Spec

-----------------------------------------------------------------------------
(* The invariant is inductive                                              *)

LEMMA InitInv == Init => IInv
<1> SUFFICES ASSUME Init PROVE IInv
  OBVIOUS
<1>1. TypeOK
  BY InitType
<1>2. ServerInv
  BY DEF Init, ServerInv, InFlight
<1>3. ASSUME NEW r \in Requests PROVE CacheInv(r) /\ ConnInv(r)
  BY NoneAssumption, RequestsAssumption DEF Init, CacheInv, ConnInv, Worker!Init
<1> QED BY <1>1, <1>2, <1>3 DEF IInv

LEMMA InvStep == IInv /\ [Next]_vars => IInv'
<1> SUFFICES ASSUME IInv, [Next]_vars PROVE IInv'
  OBVIOUS
<1>1. TypeOK /\ TypeOK'
  BY TypeStep DEF IInv
<1> USE <1>1, NoneAssumption, RequestsAssumption
<1>2. ServerInv'
  <2> USE DEF IInv, TypeOK, ServerInv, InFlight
  <2>1. ASSUME Terminate \/ FailGRPC \/ FailHTTP PROVE ServerInv'
    BY <2>1 DEF Terminate, FailGRPC, FailHTTP, Unserved
  <2>2. CASE ServerStep
    BY <2>2 DEF ServerStep, StartGRPC, StopGRPC, EndGRPC, Drained, StartHTTP, StopHTTP, EndHTTP,
                CloseGateway, Unserved
  <2>3. CASE WorkerStep
    BY <2>3 DEF WorkerStep, StartJob, TakeConnection, CancelStatement, EndStatement, Undisturbed
  <2>4. ASSUME NEW r \in Requests, Arrive(r) PROVE ServerInv'
    BY <2>4 DEF Arrive, PcIs
  <2>5. ASSUME NEW r \in Requests, Leave(r) \/ CloseAbandoned(r) PROVE ServerInv'
    BY <2>5 DEF Leave, CloseAbandoned, Undisturbed
  <2>6. ASSUME NEW r \in Requests, HandlerStep(r) PROVE ServerInv'
    <3>1. CASE Forward(r) BY <3>1 DEF Forward, PcIs, Return
    <3>2. CASE ~Forward(r)
      <4>1. pc[r] \notin {"none", "forward", "ended"} /\ grpc' = grpc
        BY <2>6, <3>2 DEF HandlerStep, Open, Opened, RunDirect, GiveUp, Processed, CloseRows,
                          Return, Execute, PcIs
      <4>2. r \in InFlight
        BY <4>1
      <4> QED BY <4>1, <4>2
    <3> QED BY <3>1, <3>2
  <2>7. CASE UNCHANGED vars
    BY <2>7 DEF vars
  <2> QED BY <2>1, <2>2, <2>3, <2>4, <2>5, <2>6, <2>7 DEF Next
<1>3. ASSUME NEW s \in Requests PROVE CacheInv(s)'
  <2>0. CacheInv(s) /\ \A r \in Requests : CacheInv(r)
    BY DEF IInv
  <2> USE DEF TypeOK, CacheInv
  <2>1. ASSUME Terminate \/ FailGRPC \/ FailHTTP PROVE CacheInv(s)'
    BY <2>0, <2>1 DEF Terminate, FailGRPC, FailHTTP, Unserved
  <2>2. CASE ServerStep
    BY <2>0, <2>2 DEF ServerStep, StartGRPC, StopGRPC, EndGRPC, StartHTTP, StopHTTP, EndHTTP,
                      CloseGateway, Unserved
  <2>3. CASE WorkerStep
    BY <2>0, <2>3 DEF WorkerStep, StartJob, TakeConnection, CancelStatement, EndStatement,
                      Undisturbed
  <2>4. ASSUME NEW r \in Requests, Arrive(r) \/ Leave(r) \/ CloseAbandoned(r) PROVE CacheInv(s)'
    BY <2>0, <2>4 DEF Arrive, Leave, CloseAbandoned, PcIs, Undisturbed
  <2>5. ASSUME NEW r \in Requests, HandlerStep(r) PROVE CacheInv(s)'
    <3> USE DEF PcIs, Return, Execute
    <3>1. CASE Forward(r) BY <2>0, <3>1 DEF Forward
    <3>2. CASE Open(r) BY <2>0, <3>2 DEF Open, LockTaken
    <3>3. CASE Opened(r) BY <2>0, <3>3 DEF Opened, Unlocked
    <3>4. CASE RunDirect(r) \/ GiveUp(r) BY <2>0, <3>4 DEF RunDirect, GiveUp
    <3>5. CASE Processed(r) BY <2>0, <3>5 DEF Processed
    <3>6. CASE CloseRows(r) BY <2>0, <3>6 DEF CloseRows
    <3> QED BY <2>5, <3>1, <3>2, <3>3, <3>4, <3>5, <3>6 DEF HandlerStep
  <2>6. CASE UNCHANGED vars
    BY <2>0, <2>6 DEF vars
  <2> QED BY <2>1, <2>2, <2>3, <2>4, <2>5, <2>6 DEF Next
<1>4. ASSUME NEW s \in Requests PROVE ConnInv(s)'
  <2>0. ConnInv(s) /\ \A r \in Requests : ConnInv(r)
    BY DEF IInv
  <2> USE DEF TypeOK, ConnInv, Worker!Status
  <2>1. ASSUME Terminate \/ FailGRPC \/ FailHTTP PROVE ConnInv(s)'
    BY <2>0, <2>1 DEF Terminate, FailGRPC, FailHTTP, Unserved
  <2>2. CASE ServerStep
    BY <2>0, <2>2 DEF ServerStep, StartGRPC, StopGRPC, EndGRPC, StartHTTP, StopHTTP, EndHTTP,
                      CloseGateway, Unserved
  <2>3. CASE WorkerStep
    <3> SUFFICES ASSUME NEW r \in Queries,
                        StartJob(r) \/ TakeConnection(r) \/ CancelStatement(r) \/ EndStatement(r)
                 PROVE  ConnInv(s)'
      BY <2>3 DEF WorkerStep
    <3> USE DEF Undisturbed
    <3>1. CASE StartJob(r) BY <2>0, <3>1 DEF StartJob, Worker!Start
    <3>2. CASE TakeConnection(r) BY <2>0, <3>2 DEF TakeConnection
    <3>3. CASE CancelStatement(r) BY <2>0, <3>3 DEF CancelStatement, Worker!Finish
    <3>4. CASE EndStatement(r) BY <2>0, <3>4 DEF EndStatement, Worker!Finish
    <3> QED BY <3>1, <3>2, <3>3, <3>4
  <2>4. ASSUME NEW r \in Requests, Arrive(r) \/ Leave(r) \/ CloseAbandoned(r) PROVE ConnInv(s)'
    BY <2>0, <2>4 DEF Arrive, Leave, CloseAbandoned, PcIs, Undisturbed
  <2>5. ASSUME NEW r \in Requests, HandlerStep(r) PROVE ConnInv(s)'
    <3> USE DEF PcIs, Return, Execute, Worker!Submit
    <3>1. CASE Forward(r) BY <2>0, <3>1 DEF Forward
    <3>2. CASE Open(r) BY <2>0, <3>2 DEF Open
    <3>3. CASE Opened(r)
      <4>1. CASE Return(r) /\ UNCHANGED <<status, conn>> BY <2>0, <3>3, <4>1 DEF Opened
      <4>2. CASE Execute(r) /\ UNCHANGED conn BY <2>0, <3>3, <4>2 DEF Opened
      <4> QED BY <3>3, <4>1, <4>2 DEF Opened
    <3>4. CASE RunDirect(r) \/ GiveUp(r) BY <2>0, <3>4 DEF RunDirect, GiveUp
    <3>5. CASE Processed(r) BY <2>0, <3>5 DEF Processed, Worker!Drop
    <3>6. CASE CloseRows(r) BY <2>0, <3>6 DEF CloseRows
    <3> QED BY <2>5, <3>1, <3>2, <3>3, <3>4, <3>5, <3>6 DEF HandlerStep
  <2>6. CASE UNCHANGED vars
    BY <2>0, <2>6 DEF vars
  <2> QED BY <2>1, <2>2, <2>3, <2>4, <2>5, <2>6 DEF Next
<1> QED BY <1>1, <1>2, <1>3, <1>4 DEF IInv

LEMMA Invariance == Spec => []IInv
BY InitInv, InvStep, PTL DEF Spec

-----------------------------------------------------------------------------
(* What follows from it                                                    *)

\* When Serve has returned without a gRPC server that failed by itself, no
\* handler is in progress: GracefulStop has waited for all of them, and nothing
\* lets one in afterwards, neither a caller nor the gateway.
THEOREM NothingAfterServe == Spec => []Quiesces
<1>1. IInv => Quiesces
  BY DEF IInv, ServerInv, Quiesces, Served
<1> QED BY <1>1, Invariance, PTL

\* An instance's connection is opened once, and once cached it is never
\* replaced: the lock covers the look-up and everything up to the caching.
THEOREM OpenedOnce == Spec => ConnectionKept
<1>1. IInv /\ [Next]_vars => [cached # None => cached' = cached]_vars
  <2> SUFFICES ASSUME IInv, Next, cached # None PROVE cached' = cached
    BY DEF vars
  <2> USE DEF IInv, TypeOK, CacheInv
  <2>1. ASSUME Terminate \/ FailGRPC \/ FailHTTP \/ ServerStep PROVE cached' = cached
    BY <2>1 DEF Terminate, FailGRPC, FailHTTP, ServerStep, StartGRPC, StopGRPC, EndGRPC,
                StartHTTP, StopHTTP, EndHTTP, CloseGateway, Unserved
  <2>2. CASE WorkerStep
    BY <2>2 DEF WorkerStep, StartJob, TakeConnection, CancelStatement, EndStatement, Undisturbed
  <2>3. ASSUME NEW r \in Requests, Arrive(r) \/ Leave(r) \/ CloseAbandoned(r)
        PROVE  cached' = cached
    BY <2>3 DEF Arrive, Leave, CloseAbandoned, Undisturbed
  <2>4. ASSUME NEW r \in Requests, HandlerStep(r) PROVE cached' = cached
    BY <2>4 DEF HandlerStep, Forward, Open, Opened, RunDirect, GiveUp, Processed, CloseRows
  <2> QED BY <2>1, <2>2, <2>3, <2>4 DEF Next
<1> QED BY <1>1, Invariance, PTL DEF Spec, ConnectionKept

\* The pooled connection is never with somebody who will not give it back: a
\* statement that runs, a handler that reads, or rows whose context is done.
THEOREM NoLeakedRows == Spec => []ConnectionOwned
<1>1. IInv => ConnectionOwned
  BY DEF IInv, TypeOK, ConnInv, ConnectionOwned
<1> QED BY <1>1, Invariance, PTL

\* The server uses the worker as its specification allows: it hands a job over
\* before it is started and abandons it only while it is queued.
THEOREM WorkerUsed == Spec => Worker!Spec
<1>1. Init => Worker!Init
  BY DEF Init
<1>2. TypeOK /\ [Next]_vars => [Worker!Next]_status
  <2> SUFFICES ASSUME TypeOK, Next PROVE Worker!Next \/ UNCHANGED status
    BY DEF vars
  <2>1. ASSUME Terminate \/ FailGRPC \/ FailHTTP \/ ServerStep PROVE UNCHANGED status
    BY <2>1 DEF Terminate, FailGRPC, FailHTTP, ServerStep, StartGRPC, StopGRPC, EndGRPC,
                StartHTTP, StopHTTP, EndHTTP, CloseGateway, Unserved
  <2>2. ASSUME NEW r \in Queries,
               StartJob(r) \/ TakeConnection(r) \/ CancelStatement(r) \/ EndStatement(r)
        PROVE  Worker!Next \/ UNCHANGED status
    BY <2>2 DEF StartJob, TakeConnection, CancelStatement, EndStatement, Worker!Next
  <2>3. ASSUME NEW r \in Requests, Arrive(r) \/ Leave(r) \/ CloseAbandoned(r)
        PROVE  UNCHANGED status
    BY <2>3 DEF Arrive, Leave, CloseAbandoned
  <2>4. ASSUME NEW r \in Requests, HandlerStep(r) PROVE Worker!Next \/ UNCHANGED status
    <3>1. CASE Forward(r) \/ RunDirect(r) \/ GiveUp(r) \/ CloseRows(r)
      BY <3>1 DEF Forward, RunDirect, GiveUp, CloseRows
    <3>2. CASE Open(r) \/ Opened(r)
      BY <3>2 DEF Open, Opened, Execute, Worker!Next
    <3>3. CASE Processed(r)
      <4>1. r \in Queries \/ UNCHANGED status
        <5>1. ASSUME r \notin Queries, Worker!Drop(r) PROVE UNCHANGED status
          BY <5>1 DEF Worker!Drop, TypeOK
        <5> QED BY <3>3, <5>1 DEF Processed
      <4> QED BY <3>3, <4>1 DEF Processed, Worker!Next
    <3> QED BY <2>4, <3>1, <3>2, <3>3 DEF HandlerStep
  <2> QED BY <2>1, <2>2, <2>3, <2>4 DEF Next, WorkerStep
<1> QED BY <1>1, <1>2, TypeCorrect, PTL DEF Spec, Worker!Spec
=============================================================================
