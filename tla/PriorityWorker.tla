--------------------------- MODULE PriorityWorker ---------------------------
(***************************************************************************)
(* runtime/pkg/priorityworker/priorityworker.go: a worker that runs one    *)
(* job at a time, highest priority first.                                  *)
(*                                                                         *)
(* Processes: one caller of Process per job, the worker's event loop       *)
(* work(), one handle() goroutine per started job, one caller of Stop and  *)
(* one caller of Pause/Unpause.  The three channels are unbuffered, so a   *)
(* send and its receive are one step, taken by the event loop with a       *)
(* sender that is blocked on the channel.                                  *)
(*                                                                         *)
(* The heap is the set pq of queued jobs: heap.Pop takes a job of highest  *)
(* priority, whichever one when there are several, and job.index >= 0 is   *)
(* membership of pq.  The array is the standard library's container/heap.  *)
(***************************************************************************)
EXTENDS Integers

CONSTANTS Jobs,         \* one call of Process each
          Priority,     \* the priority each call passes
          Cancellable,  \* jobs whose ctx may be cancelled
          MayStop,      \* whether the owner ever calls Stop
          NoJob         \* a nil currentDoneCh

ASSUME JobsAssumption     == NoJob \notin Jobs
ASSUME PriorityAssumption == Priority \in [Jobs -> Int]
ASSUME CancelAssumption   == Cancellable \subseteq Jobs
ASSUME StopAssumption     == MayStop \in BOOLEAN

VARIABLES
  caller,     \* where each call of Process is
  cancelled,  \* jobs whose ctx.Done() is closed
  err,        \* job.err
  closed,     \* jobs whose doneCh is closed
  ret,        \* what each call of Process returned
  handler,    \* where the handle goroutine of each job is
  loop,       \* where the event loop is
  pq,         \* the jobs in the heap
  current,    \* the job whose doneCh is currentDoneCh
  paused,
  stopper,    \* where the call of Stop is
  toggle      \* the value a blocked Pause or Unpause is sending, if any

jobVars    == <<err, closed>>
callerVars == <<caller, cancelled, ret>>
loopVars   == <<loop, pq, current, paused>>
vars == <<caller, cancelled, err, closed, ret, handler, loop, pq, current,
          paused, stopper, toggle>>

CallerPc  == {"new", "sending", "waiting", "cancelling", "cancelled",
              "reading", "done"}
HandlerPc == {"none", "spawned", "running", "closing", "exited", "bailed"}
LoopPc    == {"select", "stopping", "exited"}
StopperPc == {"idle", "locking", "waiting", "done"}
Errors    == {"nil", "failed", "stopped", "canceled"}

\* pw.stopped: set under the write lock, and enqueueJobCh is closed next.
\* No caller reads pw.stopped before the lock is released.
stopped == stopper \in {"waiting", "done"}

\* Callers between RLock and RUnlock.
Readers == {j \in Jobs : caller[j] = "sending"}

\* The jobs handed to a handle goroutine that has not closed doneCh yet.
Started == {j \in Jobs : handler[j] \in {"spawned", "running", "closing"}}

-----------------------------------------------------------------------------
Init ==
  /\ caller = [j \in Jobs |-> "new"]
  /\ cancelled = {}
  /\ err = [j \in Jobs |-> "nil"]
  /\ closed = {}
  /\ ret = [j \in Jobs |-> "none"]
  /\ handler = [j \in Jobs |-> "none"]
  /\ loop = "select"
  /\ pq = {}
  /\ current = NoJob
  /\ paused = FALSE
  /\ stopper = "idle"
  /\ toggle = "none"

-----------------------------------------------------------------------------
(* Process                                                                 *)

\* Call Process.  RLock waits for a writer that is waiting for or holds the
\* lock; a stopped worker fails the job at once.
Process(j) ==
  /\ caller[j] = "new"
  /\ stopper # "locking"
  /\ IF stopped
     THEN /\ caller' = [caller EXCEPT ![j] = "waiting"]
          /\ err' = [err EXCEPT ![j] = "stopped"]
          /\ closed' = closed \cup {j}
     ELSE /\ caller' = [caller EXCEPT ![j] = "sending"]
          /\ UNCHANGED jobVars
  /\ UNCHANGED <<cancelled, ret, handler, loopVars, stopper, toggle>>

\* select, case <-job.doneCh: nothing else writes job.err any more.
ReturnDone(j) ==
  /\ caller[j] = "waiting"
  /\ j \in closed
  /\ caller' = [caller EXCEPT ![j] = "done"]
  /\ ret' = [ret EXCEPT ![j] = err[j]]
  /\ UNCHANGED <<cancelled, jobVars, handler, loopVars, stopper, toggle>>

\* select, case <-ctx.Done(): the caller blocks on cancelJobCh, even when
\* doneCh is closed as well (select picks any ready case).
SeeCancelled(j) ==
  /\ caller[j] = "waiting"
  /\ j \in cancelled
  /\ caller' = [caller EXCEPT ![j] = "cancelling"]
  /\ UNCHANGED <<cancelled, ret, jobVars, handler, loopVars, stopper, toggle>>

\* The error of a cancelled call is context.Canceled whatever ended its ctx.
CtxErr_mutDeadline == "deadline"
CtxErr == "canceled"

\* job.err = context.Canceled, unsynchronised with the handle goroutine.
WriteCanceled(j) ==
  /\ caller[j] = "cancelled"
  /\ caller' = [caller EXCEPT ![j] = "reading"]
  /\ err' = [err EXCEPT ![j] = CtxErr]
  /\ UNCHANGED <<cancelled, ret, closed, handler, loopVars, stopper, toggle>>

\* return job.err
ReturnErr(j) ==
  /\ caller[j] = "reading"
  /\ caller' = [caller EXCEPT ![j] = "done"]
  /\ ret' = [ret EXCEPT ![j] = err[j]]
  /\ UNCHANGED <<cancelled, jobVars, handler, loopVars, stopper, toggle>>

\* The owner of the context cancels it.
CancelCtx(j) ==
  /\ j \in Cancellable \ cancelled
  /\ cancelled' = cancelled \cup {j}
  /\ UNCHANGED <<caller, ret, jobVars, handler, loopVars, stopper, toggle>>

-----------------------------------------------------------------------------
(* Stop, Pause and Unpause                                                 *)

\* stoppedMu.Lock(): from here on no new reader gets in.
Stop ==
  /\ MayStop
  /\ stopper = "idle"
  /\ stopper' = "locking"
  /\ UNCHANGED <<callerVars, jobVars, handler, loopVars, toggle>>

LockFree_mutNoLock == TRUE
LockFree == Readers = {}

\* The lock is granted once there is no reader; stopped is set, the lock
\* released and enqueueJobCh closed.
StopLocked ==
  /\ stopper = "locking"
  /\ LockFree
  /\ stopper' = "waiting"
  /\ UNCHANGED <<callerVars, jobVars, handler, loopVars, toggle>>

\* <-pw.stopDoneCh
StopReturns ==
  /\ stopper = "waiting"
  /\ loop = "exited"
  /\ stopper' = "done"
  /\ UNCHANGED <<callerVars, jobVars, handler, loopVars, toggle>>

\* Pause() and Unpause() block on pausedToggleCh.
Pause ==
  /\ toggle = "none"
  /\ toggle' = "pause"
  /\ UNCHANGED <<callerVars, jobVars, handler, loopVars, stopper>>

Unpause ==
  /\ toggle = "none"
  /\ toggle' = "unpause"
  /\ UNCHANGED <<callerVars, jobVars, handler, loopVars, stopper>>

-----------------------------------------------------------------------------
(* The event loop                                                          *)

\* What heap.Pop may return: a job that no queued job outranks.
Highest_mutLess(S) == {j \in S : \A k \in S : Priority[k] >= Priority[j]}
Highest(S) == {j \in S : \A k \in S : Priority[k] <= Priority[j]}

\* A received job may be started at once.
Idle == ~paused /\ current = NoJob

\* go pw.handle(job), and remember its doneCh
StartJob(j) ==
  /\ current' = j
  /\ handler' = [handler EXCEPT ![j] = "spawned"]

\* case job := <-enqueueJobCh.  The caller also releases its read lock.
Enqueue(j) ==
  /\ loop = "select"
  /\ caller[j] = "sending"
  /\ caller' = [caller EXCEPT ![j] = "waiting"]
  /\ IF Idle
     THEN StartJob(j) /\ UNCHANGED pq
     ELSE pq' = pq \cup {j} /\ UNCHANGED <<current, handler>>
  /\ UNCHANGED <<cancelled, ret, jobVars, loop, paused, stopper, toggle>>

CancelReady_mutQueuedOnly(j) == loop = "select" /\ caller[j] = "cancelling" /\ j \in pq
CancelReady(j) == loop = "select" /\ caller[j] = "cancelling"

WithoutJob_mutKept(j) == pq
WithoutJob(j) == pq \ {j}

\* case job := <-cancelJobCh: heap.Remove when job.index >= 0.
ReceiveCancel(j) ==
  /\ CancelReady(j)
  /\ caller' = [caller EXCEPT ![j] = "cancelled"]
  /\ pq' = WithoutJob(j)
  /\ UNCHANGED <<cancelled, ret, jobVars, handler, loop, current, paused,
                 stopper, toggle>>

\* case <-currentDoneCh: start the next job or go idle.
CurrentDone ==
  /\ loop = "select"
  /\ current \in closed
  /\ IF ~paused /\ pq # {}
     THEN \E j \in Highest(pq) : StartJob(j) /\ pq' = pq \ {j}
     ELSE current' = NoJob /\ UNCHANGED <<pq, handler>>
  /\ UNCHANGED <<callerVars, jobVars, loop, paused, stopper, toggle>>

\* Unpausing an idle worker has to start the first queued job itself.
ResumeQueue_mutNever == FALSE
ResumeQueue == ~paused' /\ current = NoJob /\ pq # {}

\* case p := <-pausedToggleCh
TogglePaused ==
  /\ loop = "select"
  /\ toggle # "none"
  /\ toggle' = "none"
  /\ paused' = (toggle = "pause")
  /\ IF ResumeQueue
     THEN \E j \in Highest(pq) : StartJob(j) /\ pq' = pq \ {j}
     ELSE UNCHANGED <<pq, current, handler>>
  /\ UNCHANGED <<callerVars, jobVars, loop, stopper>>

\* enqueueJobCh is closed: the loop leaves the select for good.
SeeStopped ==
  /\ loop = "select"
  /\ stopped
  /\ loop' = "stopping"
  /\ UNCHANGED <<callerVars, jobVars, handler, pq, current, paused, stopper,
                 toggle>>

Outstanding_mutCurrent == (pq \cup {current}) \ closed
Outstanding == pq \ closed

\* for _, job := range pq: fail the next queued job.  They stay in pq.
FailQueued(j) ==
  /\ loop = "stopping"
  /\ j \in Outstanding
  /\ err' = [err EXCEPT ![j] = "stopped"]
  /\ closed' = closed \cup {j}
  /\ UNCHANGED <<callerVars, handler, loopVars, stopper, toggle>>

\* if currentDoneCh != nil { <-currentDoneCh }: a nil channel never delivers.
CurrentFinished_mutNoWait == TRUE
CurrentFinished_mutNilChannel == current \in closed
CurrentFinished == current \in closed \cup {NoJob}

\* Every queued job has failed and the current one is done: close stopDoneCh.
ExitLoop ==
  /\ loop = "stopping"
  /\ Outstanding = {}
  /\ CurrentFinished
  /\ loop' = "exited"
  /\ UNCHANGED <<callerVars, jobVars, handler, pq, current, paused, stopper,
                 toggle>>

-----------------------------------------------------------------------------
(* handle                                                                  *)

\* Bail out of a job whose ctx is cancelled: doneCh is closed, err untouched.
Bail(j) ==
  /\ handler[j] = "spawned"
  /\ j \in cancelled
  /\ handler' = [handler EXCEPT ![j] = "bailed"]
  /\ closed' = closed \cup {j}
  /\ UNCHANGED <<callerVars, err, loopVars, stopper, toggle>>

Run(j) ==
  /\ handler[j] = "spawned"
  /\ j \notin cancelled
  /\ handler' = [handler EXCEPT ![j] = "running"]
  /\ UNCHANGED <<callerVars, jobVars, loopVars, stopper, toggle>>

\* The handler returns and its result is written to job.err.
HandlerReturns(j) ==
  /\ handler[j] = "running"
  /\ handler' = [handler EXCEPT ![j] = "closing"]
  /\ \E e \in {"nil", "failed"} : err' = [err EXCEPT ![j] = e]
  /\ UNCHANGED <<callerVars, closed, loopVars, stopper, toggle>>

CloseDone(j) ==
  /\ handler[j] = "closing"
  /\ handler' = [handler EXCEPT ![j] = "exited"]
  /\ closed' = closed \cup {j}
  /\ UNCHANGED <<callerVars, err, loopVars, stopper, toggle>>

-----------------------------------------------------------------------------
CallerStep(j)  == \/ ReturnDone(j) \/ SeeCancelled(j)
                  \/ WriteCanceled(j) \/ ReturnErr(j)
HandlerStep(j) == Bail(j) \/ Run(j) \/ HandlerReturns(j) \/ CloseDone(j)
StopperStep    == StopLocked \/ StopReturns
Environment    == \/ Stop \/ Pause \/ Unpause
                  \/ \E j \in Jobs : Process(j) \/ CancelCtx(j)
LoopStep       == \/ CurrentDone \/ TogglePaused \/ SeeStopped \/ ExitLoop
                  \/ \E j \in Jobs : \/ Enqueue(j) \/ ReceiveCancel(j)
                                     \/ FailQueued(j)

Next == \/ Environment \/ LoopStep \/ StopperStep
        \/ \E j \in Jobs : CallerStep(j) \/ HandlerStep(j)

Spec == Init /\ [][Next]_vars

\* Goroutines are scheduled fairly, a handler returns, and Go's select takes
\* a case that stays ready (it picks among the ready ones at random).  The
\* callers of Process, Stop, Pause and Unpause and the owners of the contexts
\* owe nothing.
Fairness ==
  /\ WF_vars(CurrentDone) /\ WF_vars(TogglePaused)
  /\ WF_vars(SeeStopped) /\ WF_vars(ExitLoop) /\ WF_vars(StopperStep)
  /\ \A j \in Jobs : /\ WF_vars(Enqueue(j)) /\ WF_vars(ReceiveCancel(j))
                     /\ WF_vars(FailQueued(j))
                     /\ WF_vars(CallerStep(j)) /\ WF_vars(HandlerStep(j))

FairSpec == Spec /\ Fairness

-----------------------------------------------------------------------------
(* Properties                                                              *)

TypeOK ==
  /\ caller \in [Jobs -> CallerPc]
  /\ cancelled \subseteq Jobs
  /\ err \in [Jobs -> Errors]
  /\ closed \subseteq Jobs
  /\ ret \in [Jobs -> Errors \cup {"none"}]
  /\ handler \in [Jobs -> HandlerPc]
  /\ loop \in LoopPc
  /\ pq \subseteq Jobs
  /\ current \in Jobs \cup {NoJob}
  /\ paused \in BOOLEAN
  /\ stopper \in StopperPc
  /\ toggle \in {"none", "pause", "unpause"}

\* The handler is never running for two jobs at once (DuckDB is opened with a
\* single connection and relies on it), whatever Pause, Unpause, Stop and
\* cancellations do around the moment a job ends.
OneAtATime == \A j, k \in Started : j = k

\* The worker never sits idle on a non-empty queue: while it is in its select,
\* not paused and without a current job, nothing is queued.
NoLostWakeup == (loop = "select" /\ ~paused /\ current = NoJob) => pq = {}

\* No channel operation panics: a doneCh that a goroutine is still going to
\* close is open, and has one goroutine to close it, and nobody is sending on
\* enqueueJobCh once Stop has closed it.
ChannelsSafe ==
  /\ Started \cap (pq \cup closed) = {}
  /\ loop = "select" => pq \cap closed = {}
  /\ stopped => Readers = {}

\* Once Stop has returned no handler is running or will run, and every call of
\* Process that is still waiting is about to return.
StopQuiesces ==
  stopper = "done" =>
    /\ Started = {}
    /\ \A j \in Jobs : caller[j] = "waiting" => j \in closed

\* ErrStopped means the job was not started ("returned for outstanding items
\* when the queue is stopped"), so a caller may retry it elsewhere; and without
\* a cancelled ctx a nil error means that the handler did run.
ErrorsHonest ==
  \A j \in Jobs :
    /\ ret[j] = "stopped" => handler[j] = "none"
    /\ ret[j] \in {"nil", "failed"} /\ j \notin cancelled => handler[j] = "exited"

\* A job is started only while its call of Process is still in progress: a
\* call that returned, cancelled or not, leaves nothing behind in the queue.
StartOnlyAwaited ==
  [][\A j \in Jobs :
       handler[j] = "none" /\ handler'[j] = "spawned" =>
         caller'[j] \in {"waiting", "cancelling"}]_vars

\* No queued job outranks one that is being started, also when the worker
\* starts a newly received job without looking at its queue.
StartHighest ==
  [][\A j \in Jobs :
       handler[j] = "none" /\ handler'[j] = "spawned" =>
         \A k \in pq : Priority[k] <= Priority[j]]_vars

\* Stop returns: whoever holds the read lock is served and the current job
\* finishes.
StopTerminates == (stopper = "locking") ~> (stopper = "done")

\* Unless the worker is paused for good, a call of Process whose own ctx is not
\* cancelled returns: neither a pause in the middle of a job, nor Stop, nor the
\* cancellation of another job strands it.
ProcessReturns ==
  <>[]~paused => \A j \in Jobs : (caller[j] = "sending")
                                   ~> (caller[j] = "done" \/ j \in cancelled)

\* A call whose ctx is cancelled returns, even on a worker that stays paused,
\* as long as nobody stops the worker.
CancelReturnsRunning ==
  \A j \in Jobs : (caller[j] \in {"sending", "waiting"} /\ j \in cancelled)
                    ~> (caller[j] = "done" \/ stopper # "idle")

\* "It returns early if ctx is cancelled or the worker is stopped": the same
\* with Stop.
CancelReturns ==
  \A j \in Jobs : (caller[j] \in {"sending", "waiting"} /\ j \in cancelled)
                    ~> (caller[j] = "done")

-----------------------------------------------------------------------------
(* The abstract executor this worker implements                            *)

StatusOf(j) ==
  CASE j \in Started                       -> "running"
    [] handler[j] \in {"exited", "bailed"} -> "done"
    [] j \in pq \ closed                   -> "queued"
    [] caller[j] \in {"new", "sending"}    -> "new"
    [] OTHER                               -> "dropped"

jobStatus == [j \in Jobs |-> StatusOf(j)]

Executor == INSTANCE SerialExecutor WITH status <- jobStatus

\* Every step of the worker, its callers and its handle goroutines is a step of
\* the abstract executor or changes nothing it can see.
ImplementsExecutor == Executor!Spec

-----------------------------------------------------------------------------
(* The inductive invariant behind the safety properties                    *)

\* What is known of a job from where its caller, its goroutine and the loop are.
JobInv(j) ==
  /\ caller[j] \in {"new", "sending"} =>
       handler[j] = "none" /\ j \notin pq /\ j \notin closed
  /\ caller[j] = "waiting" => j \in pq \cup closed \cup Started
  /\ caller[j] \in {"cancelling", "cancelled", "reading"} => j \in cancelled
  /\ j \in pq => handler[j] = "none"
  /\ j \in pq /\ loop = "select" =>
       j \notin closed /\ caller[j] \in {"waiting", "cancelling"}
  /\ j \in Started => j = current /\ j \notin closed
  /\ handler[j] \in {"exited", "bailed"} => j \in closed
  /\ handler[j] = "bailed" => j \in cancelled
  /\ "stopped" \in {err[j], ret[j]} => j \in closed /\ handler[j] = "none"
  /\ j \in closed /\ handler[j] = "none" /\ j \notin cancelled => err[j] = "stopped"
  /\ ret[j] \in {"nil", "failed"} /\ j \notin cancelled => handler[j] = "exited"

LoopInv ==
  /\ current # NoJob => handler[current] # "none"
  /\ NoLostWakeup
  /\ loop # "select" => stopped
  /\ loop = "exited" => pq \subseteq closed /\ current \in closed \cup {NoJob}
  /\ stopper = "done" => loop = "exited"
  /\ stopped => Readers = {}

IInv == TypeOK /\ LoopInv /\ \A j \in Jobs : JobInv(j)
=============================================================================
