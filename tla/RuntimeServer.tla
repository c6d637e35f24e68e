---------------------------- MODULE RuntimeServer ----------------------------
(***************************************************************************)
(* The Go runtime as a process: Server.Serve starts a gRPC server and an   *)
(* HTTP gateway to it (server.go) and shuts both down when the context of  *)
(* main is cancelled or one of them fails (pkg/graceful).  Its requests    *)
(* open the connection of their instance once (cache.go), and run their    *)
(* statements on the single connection of DuckDB's pool: through the       *)
(* worker (olap.go; here its specification, SerialExecutor) or, for the    *)
(* catalog, directly.  The rows of a query keep the connection until they  *)
(* are closed or the context of the request is done.                       *)
(*                                                                         *)
(* One instance, which exists and is not evicted from the cache; one       *)
(* statement per request.                                                  *)
(***************************************************************************)
EXTENDS Integers

CONSTANTS
  Requests,
  Rest,      \* those that come through the HTTP gateway
  Queries,   \* those that run a statement through the worker
  Priority,  \* of the statements
  None

ASSUME RequestsAssumption == Rest \subseteq Requests /\ Queries \subseteq Requests
ASSUME PriorityAssumption == Priority \in [Queries -> Int]
ASSUME NoneAssumption == None \notin Requests

VARIABLES
  ctx,     \* the context of main is cancelled
  err,     \* the errgroup has an error
  grpc,    \* where ServeGRPC is
  http,    \* where ServeHTTP is
  gateway, \* the gateway's client connection to the gRPC server is open
  pc,      \* where the handler of each request is
  done,    \* requests whose context is done: they are answered, or nobody waits
  lock,    \* who has connectionCache.lock
  cached,  \* the request that opened the cached connection
  status,  \* the worker's jobs
  conn     \* the request whose statement or rows have the pooled connection

servers == <<ctx, err, grpc, http>>
handlers == <<pc, done>>
driver == <<lock, cached, status, conn>>
vars == <<servers, gateway, handlers, driver>>

Worker == INSTANCE SerialExecutor WITH Jobs <- Queries

Init ==
  /\ ctx = FALSE /\ err = FALSE /\ grpc = "new" /\ http = "new" /\ gateway = TRUE
  /\ pc = [r \in Requests |-> "none"]
  /\ done = {} /\ lock = None /\ cached = None /\ conn = None
  /\ Worker!Init

PcIs(r, where) == pc' = [pc EXCEPT ![r] = where]

-----------------------------------------------------------------------------
(* Serve, ServeGRPC and ServeHTTP                                          *)

\* The context of the group: a server that returns an error cancels it.
Done == ctx \/ err
Served == grpc \in {"refused", "stopped", "failed"} /\ http \in {"stopped", "failed"}

Unserved == UNCHANGED <<gateway, handlers, driver>>

\* SIGINT or SIGTERM.
Terminate == ~ctx /\ ctx' = TRUE /\ UNCHANGED <<err, grpc, http>> /\ Unserved

\* Requests whose caller waits, and handlers in progress.
Waiting == {r \in Requests : pc[r] # "none"} \ done
InFlight == {r \in Requests : pc[r] \notin {"none", "forward", "ended"}}

StartGRPC ==
  /\ grpc = "new"
  /\ \/ grpc' = "serving" /\ UNCHANGED err
     \/ grpc' = "refused" /\ err' = TRUE
  /\ UNCHANGED <<ctx, http>> /\ Unserved

\* Serve returns an error by itself: the handlers go on.
FailGRPC ==
  /\ grpc = "serving"
  /\ grpc' = "failed" /\ err' = TRUE
  /\ UNCHANGED <<ctx, http>> /\ Unserved

\* GracefulStop begins, and ends when there are no handlers.
Drained_mutStop == TRUE
Drained == InFlight = {}
StopGRPC ==
  /\ grpc = "serving" /\ Done
  /\ grpc' = "stopping"
  /\ UNCHANGED <<ctx, err, http>> /\ Unserved
EndGRPC ==
  /\ grpc = "stopping" /\ Drained
  /\ grpc' = "stopped"
  /\ UNCHANGED <<ctx, err, http>> /\ Unserved

StartHTTP ==
  /\ http = "new"
  /\ \/ http' = "serving" /\ UNCHANGED err
     \/ http' = "failed" /\ err' = TRUE
  /\ UNCHANGED <<ctx, grpc>> /\ Unserved

FailHTTP ==
  /\ http = "serving"
  /\ http' = "failed" /\ err' = TRUE
  /\ UNCHANGED <<ctx, grpc>> /\ Unserved

StopHTTP ==
  /\ http = "serving" /\ Done
  /\ http' = "stopping"
  /\ UNCHANGED <<ctx, err, grpc>> /\ Unserved

\* Shutdown has waited for the HTTP requests.  Its result and the
\* ErrServerClosed that Serve returns meanwhile are written to serveErr by two
\* goroutines.
EndHTTP ==
  /\ http = "stopping" /\ Rest \cap Waiting = {}
  /\ http' = "stopped" /\ err' \in {err, TRUE}
  /\ UNCHANGED <<ctx, grpc>> /\ Unserved

\* RegisterRuntimeServiceHandlerFromEndpoint closes the gateway's connection
\* when the context of main is done: its requests fail, and their handlers'
\* contexts are done.
CloseGateway ==
  /\ gateway /\ ctx
  /\ gateway' = FALSE
  /\ done' = done \cup (Rest \cap Waiting)
  /\ UNCHANGED <<servers, pc, driver>>

-----------------------------------------------------------------------------
(* A request                                                               *)

Arrive(r) ==
  /\ pc[r] = "none"
  /\ IF r \in Rest THEN http = "serving" ELSE grpc = "serving"
  /\ PcIs(r, IF r \in Rest THEN "forward" ELSE "open")
  /\ UNCHANGED <<servers, gateway, done, driver>>

\* The caller goes away.
Leave(r) ==
  /\ r \in Waiting
  /\ done' = done \cup {r}
  /\ UNCHANGED <<servers, gateway, pc, driver>>

\* The handler returns, and gRPC cancels its context.
Return(r) ==
  /\ PcIs(r, "ended")
  /\ done' = done \cup {r}
  /\ UNCHANGED <<servers, gateway>>

\* The gateway calls the gRPC server, or answers that it is unavailable.
Forward(r) ==
  /\ pc[r] = "forward"
  /\ \/ /\ gateway /\ grpc = "serving" /\ r \notin done
        /\ PcIs(r, "open")
        /\ UNCHANGED <<servers, gateway, done>>
     \/ (~gateway \/ grpc # "serving" \/ r \in done) /\ Return(r)
  /\ UNCHANGED driver

\* Execute hands a job to the worker; a statement on the catalog waits for the
\* connection itself.
Execute(r) ==
  /\ IF r \in Queries
     THEN PcIs(r, "executing") /\ Worker!Submit(r)
     ELSE PcIs(r, "direct") /\ UNCHANGED status
  /\ UNCHANGED <<servers, gateway, done>>

\* openAndMigrate
LockTaken_mutIgnored == FALSE
LockTaken == lock # None
Open(r) ==
  /\ pc[r] = "open" /\ ~LockTaken
  /\ \/ cached # None /\ Execute(r) /\ UNCHANGED lock
     \/ /\ cached = None /\ PcIs(r, "opening") /\ lock' = r
        /\ UNCHANGED <<servers, gateway, done, status>>
  /\ UNCHANGED <<cached, conn>>

\* The lock is released on every return.
Unlocked_mutKept(failed) == IF failed THEN lock ELSE None
Unlocked(failed) == None

\* Open or Migrate fails, or the connection is cached.
Opened(r) ==
  /\ pc[r] = "opening"
  /\ \/ Return(r) /\ lock' = Unlocked(TRUE) /\ UNCHANGED <<cached, status>>
     \/ r \notin done /\ Execute(r) /\ lock' = Unlocked(FALSE) /\ cached' = r
  /\ UNCHANGED conn

\* The catalog's statement and its rows, which are closed on return.
RunDirect(r) ==
  /\ pc[r] = "direct" /\ conn = None
  /\ PcIs(r, "reading") /\ conn' = r
  /\ UNCHANGED <<servers, gateway, done, lock, cached, status>>
GiveUp(r) ==
  /\ pc[r] = "direct" /\ r \in done
  /\ Return(r)
  /\ UNCHANGED driver

\* Process returns: with the result of the job (rows that have the connection),
\* or early.  Execute fails if the rows' schema is not supported.
Processed(r) ==
  /\ pc[r] = "executing"
  /\ \/ /\ status[r] = "done" /\ conn = r
        /\ PcIs(r, "reading")
        /\ UNCHANGED <<servers, gateway, done, status>>
     \/ status[r] = "done" /\ Return(r) /\ UNCHANGED status
     \/ r \in done /\ status[r] = "queued" /\ Return(r) /\ Worker!Drop(r)
     \/ r \in done /\ status[r] = "running" /\ Return(r) /\ UNCHANGED status
  /\ UNCHANGED <<lock, cached, conn>>

\* The rows have been read (or reading them has failed) and are closed.
CloseRows(r) ==
  /\ pc[r] = "reading"
  /\ Return(r)
  /\ conn' = IF conn = r THEN None ELSE conn
  /\ UNCHANGED <<lock, cached, status>>

-----------------------------------------------------------------------------
(* The worker and the pool                                                 *)

Undisturbed == UNCHANGED <<servers, gateway, handlers, lock, cached>>

\* Of the jobs that have been handed to it.
StartJob(r) == status[r] = "queued" /\ Worker!Start(r) /\ UNCHANGED conn /\ Undisturbed

\* executeQuery waits for the connection or until the context is done.
TakeConnection(r) ==
  /\ status[r] = "running" /\ conn = None
  /\ conn' = r
  /\ UNCHANGED status /\ Undisturbed
CancelStatement(r) ==
  /\ status[r] = "running" /\ conn # r /\ r \in done
  /\ Worker!Finish(r)
  /\ UNCHANGED conn /\ Undisturbed

\* The statement fails or has rows.
EndStatement(r) ==
  /\ status[r] = "running" /\ conn = r
  /\ Worker!Finish(r)
  /\ conn' \in {r, None}
  /\ Undisturbed

\* database/sql closes the rows of a context that is done.
RowsOf_mutNoContext(r) == FALSE
RowsOf(r) == conn = r /\ r \in done /\ (r \in Queries => status[r] = "done")
CloseAbandoned(r) ==
  /\ RowsOf(r)
  /\ conn' = None
  /\ UNCHANGED status /\ Undisturbed

-----------------------------------------------------------------------------
ServerStep ==
  \/ StartGRPC \/ StopGRPC \/ EndGRPC \/ StartHTTP \/ StopHTTP \/ EndHTTP \/ CloseGateway
HandlerStep(r) ==
  \/ Forward(r) \/ Open(r) \/ Opened(r) \/ RunDirect(r) \/ GiveUp(r)
  \/ Processed(r) \/ CloseRows(r)
WorkerStep == \E r \in Queries : StartJob(r) \/ TakeConnection(r) \/ CancelStatement(r) \/ EndStatement(r)

Next ==
  \/ Terminate \/ FailGRPC \/ FailHTTP
  \/ ServerStep \/ WorkerStep
  \/ \E r \in Requests : Arrive(r) \/ Leave(r) \/ HandlerStep(r) \/ CloseAbandoned(r)

Spec == Init /\ [][Next]_vars

\* Goroutines run, and statements end.
FairSpec ==
  /\ Spec
  /\ WF_vars(ServerStep) /\ WF_vars(WorkerStep)
  /\ \A r \in Requests : WF_vars(HandlerStep(r)) /\ WF_vars(CloseAbandoned(r))

-----------------------------------------------------------------------------
TypeOK ==
  /\ {ctx, err, gateway} \subseteq BOOLEAN
  /\ {grpc, http} \subseteq {"new", "serving", "stopping", "stopped", "refused", "failed"}
  /\ pc \in [Requests -> {"none", "forward", "open", "opening", "executing", "direct",
                          "reading", "ended"}]
  /\ done \subseteq Requests /\ {lock, cached, conn} \subseteq Requests \cup {None}
  /\ status \in [Queries -> Worker!Status]

\* One connection, and one worker, for all requests of an instance, however
\* many of them find the cache empty.
ConnectionKept == [][cached # None => cached' = cached]_vars

\* When Serve has returned no request is in progress, whichever server has
\* failed first; but a gRPC server that fails by itself leaves its own behind.
Quiesces == Served /\ grpc # "failed" => InFlight = {}

\* Whoever has the pooled connection has a statement that runs, or rows that it
\* still reads, or rows that database/sql closes because its context is done.
ConnectionOwned ==
  conn # None =>
    \/ pc[conn] \in {"executing", "reading"}
    \/ conn \in Queries /\ status[conn] = "running"
    \/ conn \in done

\* The pooled connection always comes back: also from a request that is
\* cancelled while its statement runs, or that fails with its rows open.
ConnectionReturns == conn # None ~> conn = None

\* Every request ends, and Serve returns after a signal or a failure, although
\* requests wait for each other's rows and locks.
EverythingEnds ==
  /\ []<>(\A r \in Requests : pc[r] \in {"none", "ended"})
  /\ Done ~> Served
=============================================================================
