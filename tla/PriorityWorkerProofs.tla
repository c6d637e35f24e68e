------------------------ MODULE PriorityWorkerProofs ------------------------
(***************************************************************************)
(* Proofs about PriorityWorker for any set of jobs, any priorities and any *)
(* set of cancellable contexts.                                            *)
(***************************************************************************)
EXTENDS PriorityWorker, TLAPS

USE DEF CallerPc, HandlerPc, LoopPc, StopperPc, Errors

-----------------------------------------------------------------------------
(* Type correctness                                                        *)

\* Every variable keeps its type in every step.
LEMMA TypeStep == TypeOK /\ [Next]_vars => TypeOK'
<1> SUFFICES ASSUME TypeOK, [Next]_vars PROVE TypeOK'
  OBVIOUS
<1> USE DEF TypeOK, jobVars, callerVars, loopVars, CtxErr, WithoutJob, ResumeQueue
<1>1. ASSUME NEW j \in Jobs, Process(j) PROVE TypeOK'
  BY <1>1 DEF Process
<1>2. ASSUME NEW j \in Jobs, ReturnDone(j) PROVE TypeOK'
  BY <1>2 DEF ReturnDone
<1>3. ASSUME NEW j \in Jobs, SeeCancelled(j) PROVE TypeOK'
  BY <1>3 DEF SeeCancelled
<1>4. ASSUME NEW j \in Jobs, WriteCanceled(j) PROVE TypeOK'
  BY <1>4 DEF WriteCanceled
<1>5. ASSUME NEW j \in Jobs, ReturnErr(j) PROVE TypeOK'
  BY <1>5 DEF ReturnErr
<1>6. ASSUME NEW j \in Jobs, CancelCtx(j) PROVE TypeOK'
  BY <1>6 DEF CancelCtx
<1>7. ASSUME NEW j \in Jobs, Enqueue(j) PROVE TypeOK'
  BY <1>7 DEF Enqueue, StartJob
<1>8. ASSUME NEW j \in Jobs, ReceiveCancel(j) PROVE TypeOK'
  BY <1>8 DEF ReceiveCancel
<1>9. ASSUME NEW j \in Jobs, FailQueued(j) PROVE TypeOK'
  BY <1>9 DEF FailQueued
<1>10. ASSUME NEW j \in Jobs, Bail(j) PROVE TypeOK'
  BY <1>10 DEF Bail
<1>11. ASSUME NEW j \in Jobs, Run(j) PROVE TypeOK'
  BY <1>11 DEF Run
<1>12. ASSUME NEW j \in Jobs, HandlerReturns(j) PROVE TypeOK'
  BY <1>12 DEF HandlerReturns
<1>13. ASSUME NEW j \in Jobs, CloseDone(j) PROVE TypeOK'
  BY <1>13 DEF CloseDone
<1>14. CASE Stop
  BY <1>14 DEF Stop
<1>15. CASE StopLocked
  BY <1>15 DEF StopLocked
<1>16. CASE StopReturns
  BY <1>16 DEF StopReturns
<1>17. CASE Pause
  BY <1>17 DEF Pause
<1>18. CASE Unpause
  BY <1>18 DEF Unpause
<1>19. CASE CurrentDone
  BY <1>19 DEF CurrentDone, StartJob, Highest
<1>20. CASE TogglePaused
  BY <1>20 DEF TogglePaused, StartJob, Highest
<1>21. CASE SeeStopped
  BY <1>21 DEF SeeStopped
<1>22. CASE ExitLoop
  BY <1>22 DEF ExitLoop
<1>23. CASE UNCHANGED vars
  BY <1>23 DEF vars
<1>24. QED
  BY <1>1, <1>2, <1>3, <1>4, <1>5, <1>6, <1>7, <1>8, <1>9, <1>10, <1>11, <1>12, <1>13, <1>14, <1>15, <1>16, <1>17, <1>18, <1>19, <1>20, <1>21, <1>22, <1>23
     DEF Next, Environment, LoopStep, StopperStep, CallerStep, HandlerStep

LEMMA InitType == Init => TypeOK
<1> SUFFICES ASSUME Init PROVE TypeOK
  OBVIOUS
<1> USE DEF Init
<1>1. caller \in [Jobs -> CallerPc] /\ handler \in [Jobs -> HandlerPc]
  OBVIOUS
<1>2. err \in [Jobs -> Errors]
  OBVIOUS
<1>3. ret \in [Jobs -> Errors \cup {"none"}]
  OBVIOUS
<1> QED
  BY <1>1, <1>2, <1>3 DEF TypeOK

\* The variables of the worker always have their types.
THEOREM TypeCorrect == Spec => []TypeOK
BY InitType, TypeStep, PTL DEF Spec

-----------------------------------------------------------------------------
(* The inductive invariant                                                 *)

LEMMA InitIInv == Init => IInv
<1> SUFFICES ASSUME Init PROVE IInv
  OBVIOUS
<1>1. TypeOK
  BY InitType
<1>2. LoopInv
  BY DEF Init, LoopInv, NoLostWakeup, stopped, Readers
<1>3. ASSUME NEW j \in Jobs PROVE JobInv(j)
  BY DEF Init, JobInv, Started
<1> QED
  BY <1>1, <1>2, <1>3 DEF IInv

\* Every step of the callers, the goroutines, the loop and Stop preserves it.
LEMMA StepIInv == IInv /\ [Next]_vars => IInv'
<1> SUFFICES ASSUME IInv, [Next]_vars PROVE LoopInv' /\ \A i \in Jobs : JobInv(i)'
  BY TypeStep DEF IInv
<1>0. TypeOK /\ TypeOK'
  BY TypeStep DEF IInv
<1> USE <1>0, JobsAssumption DEF IInv, TypeOK, LoopInv, NoLostWakeup, JobInv,
        Started, Readers, stopped, jobVars, callerVars, loopVars, CtxErr,
        LockFree, Idle, CancelReady, WithoutJob, ResumeQueue, Outstanding,
        CurrentFinished
<1>1. ASSUME NEW j \in Jobs, Process(j) PROVE LoopInv' /\ \A i \in Jobs : JobInv(i)'
  <2>1. LoopInv'
    BY <1>1 DEF Process
  <2>2. ASSUME NEW i \in Jobs PROVE JobInv(i)'
    BY <1>1 DEF Process
  <2> QED
    BY <2>1, <2>2
<1>2. ASSUME NEW j \in Jobs, ReturnDone(j) PROVE LoopInv' /\ \A i \in Jobs : JobInv(i)'
  <2>1. LoopInv'
    BY <1>2 DEF ReturnDone
  <2>2. ASSUME NEW i \in Jobs PROVE JobInv(i)'
    BY <1>2 DEF ReturnDone
  <2> QED
    BY <2>1, <2>2
<1>3. ASSUME NEW j \in Jobs, SeeCancelled(j) PROVE LoopInv' /\ \A i \in Jobs : JobInv(i)'
  <2>1. LoopInv'
    BY <1>3 DEF SeeCancelled
  <2>2. ASSUME NEW i \in Jobs PROVE JobInv(i)'
    BY <1>3 DEF SeeCancelled
  <2> QED
    BY <2>1, <2>2
<1>4. ASSUME NEW j \in Jobs, WriteCanceled(j) PROVE LoopInv' /\ \A i \in Jobs : JobInv(i)'
  <2>1. LoopInv'
    BY <1>4 DEF WriteCanceled
  <2>2. ASSUME NEW i \in Jobs PROVE JobInv(i)'
    BY <1>4 DEF WriteCanceled
  <2> QED
    BY <2>1, <2>2
<1>5. ASSUME NEW j \in Jobs, ReturnErr(j) PROVE LoopInv' /\ \A i \in Jobs : JobInv(i)'
  <2>1. LoopInv'
    BY <1>5 DEF ReturnErr
  <2>2. ASSUME NEW i \in Jobs PROVE JobInv(i)'
    BY <1>5 DEF ReturnErr
  <2> QED
    BY <2>1, <2>2
<1>6. ASSUME NEW j \in Jobs, CancelCtx(j) PROVE LoopInv' /\ \A i \in Jobs : JobInv(i)'
  <2>1. LoopInv'
    BY <1>6 DEF CancelCtx
  <2>2. ASSUME NEW i \in Jobs PROVE JobInv(i)'
    BY <1>6 DEF CancelCtx
  <2> QED
    BY <2>1, <2>2
<1>7. ASSUME NEW j \in Jobs, Enqueue(j) PROVE LoopInv' /\ \A i \in Jobs : JobInv(i)'
  <2>1. LoopInv'
    BY <1>7 DEF Enqueue, StartJob
  <2>2. ASSUME NEW i \in Jobs PROVE JobInv(i)'
    BY <1>7 DEF Enqueue, StartJob
  <2> QED
    BY <2>1, <2>2
<1>8. ASSUME NEW j \in Jobs, ReceiveCancel(j) PROVE LoopInv' /\ \A i \in Jobs : JobInv(i)'
  <2>1. LoopInv'
    BY <1>8 DEF ReceiveCancel
  <2>2. ASSUME NEW i \in Jobs PROVE JobInv(i)'
    BY <1>8 DEF ReceiveCancel
  <2> QED
    BY <2>1, <2>2
<1>9. ASSUME NEW j \in Jobs, FailQueued(j) PROVE LoopInv' /\ \A i \in Jobs : JobInv(i)'
  <2>1. LoopInv'
    BY <1>9 DEF FailQueued
  <2>2. ASSUME NEW i \in Jobs PROVE JobInv(i)'
    BY <1>9 DEF FailQueued
  <2> QED
    BY <2>1, <2>2
<1>10. ASSUME NEW j \in Jobs, Bail(j) PROVE LoopInv' /\ \A i \in Jobs : JobInv(i)'
  <2>1. LoopInv'
    BY <1>10 DEF Bail
  <2>2. ASSUME NEW i \in Jobs PROVE JobInv(i)'
    BY <1>10 DEF Bail
  <2> QED
    BY <2>1, <2>2
<1>11. ASSUME NEW j \in Jobs, Run(j) PROVE LoopInv' /\ \A i \in Jobs : JobInv(i)'
  <2>1. LoopInv'
    BY <1>11 DEF Run
  <2>2. ASSUME NEW i \in Jobs PROVE JobInv(i)'
    BY <1>11 DEF Run
  <2> QED
    BY <2>1, <2>2
<1>12. ASSUME NEW j \in Jobs, HandlerReturns(j) PROVE LoopInv' /\ \A i \in Jobs : JobInv(i)'
  <2>1. LoopInv'
    BY <1>12 DEF HandlerReturns
  <2>2. ASSUME NEW i \in Jobs PROVE JobInv(i)'
    BY <1>12 DEF HandlerReturns
  <2> QED
    BY <2>1, <2>2
<1>13. ASSUME NEW j \in Jobs, CloseDone(j) PROVE LoopInv' /\ \A i \in Jobs : JobInv(i)'
  <2>1. LoopInv'
    BY <1>13 DEF CloseDone
  <2>2. ASSUME NEW i \in Jobs PROVE JobInv(i)'
    BY <1>13 DEF CloseDone
  <2> QED
    BY <2>1, <2>2
<1>14. CASE Stop
  <2>1. LoopInv'
    BY <1>14 DEF Stop
  <2>2. ASSUME NEW i \in Jobs PROVE JobInv(i)'
    BY <1>14 DEF Stop
  <2> QED
    BY <2>1, <2>2
<1>15. CASE StopLocked
  <2>1. LoopInv'
    BY <1>15 DEF StopLocked
  <2>2. ASSUME NEW i \in Jobs PROVE JobInv(i)'
    BY <1>15 DEF StopLocked
  <2> QED
    BY <2>1, <2>2
<1>16. CASE StopReturns
  <2>1. LoopInv'
    BY <1>16 DEF StopReturns
  <2>2. ASSUME NEW i \in Jobs PROVE JobInv(i)'
    BY <1>16 DEF StopReturns
  <2> QED
    BY <2>1, <2>2
<1>17. CASE Pause
  <2>1. LoopInv'
    BY <1>17 DEF Pause
  <2>2. ASSUME NEW i \in Jobs PROVE JobInv(i)'
    BY <1>17 DEF Pause
  <2> QED
    BY <2>1, <2>2
<1>18. CASE Unpause
  <2>1. LoopInv'
    BY <1>18 DEF Unpause
  <2>2. ASSUME NEW i \in Jobs PROVE JobInv(i)'
    BY <1>18 DEF Unpause
  <2> QED
    BY <2>1, <2>2
<1>19. CASE CurrentDone
  <2>1. LoopInv'
    BY <1>19 DEF CurrentDone, StartJob, Highest
  <2>2. ASSUME NEW i \in Jobs PROVE JobInv(i)'
    BY <1>19 DEF CurrentDone, StartJob, Highest
  <2> QED
    BY <2>1, <2>2
<1>20. CASE TogglePaused
  <2>1. LoopInv'
    BY <1>20 DEF TogglePaused, StartJob, Highest
  <2>2. ASSUME NEW i \in Jobs PROVE JobInv(i)'
    BY <1>20 DEF TogglePaused, StartJob, Highest
  <2> QED
    BY <2>1, <2>2
<1>21. CASE SeeStopped
  <2>1. LoopInv'
    BY <1>21 DEF SeeStopped
  <2>2. ASSUME NEW i \in Jobs PROVE JobInv(i)'
    BY <1>21 DEF SeeStopped
  <2> QED
    BY <2>1, <2>2
<1>22. CASE ExitLoop
  <2>1. LoopInv'
    BY <1>22 DEF ExitLoop
  <2>2. ASSUME NEW i \in Jobs PROVE JobInv(i)'
    BY <1>22 DEF ExitLoop
  <2> QED
    BY <2>1, <2>2
<1>23. CASE UNCHANGED vars
  BY <1>23 DEF vars
<1> QED
  BY [Next]_vars, <1>1, <1>2, <1>3, <1>4, <1>5, <1>6, <1>7, <1>8, <1>9,
     <1>10, <1>11, <1>12, <1>13, <1>14, <1>15, <1>16, <1>17, <1>18, <1>19,
     <1>20, <1>21, <1>22, <1>23
     DEF Next, Environment, LoopStep, StopperStep, CallerStep, HandlerStep

\* IInv holds in every reachable state.
THEOREM Invariance == Spec => []IInv
BY InitIInv, StepIInv, PTL DEF Spec

-----------------------------------------------------------------------------
(* What follows from it                                                    *)

\* The handler never runs for two jobs at once.
THEOREM MutualExclusion == Spec => []OneAtATime
<1>1. IInv => OneAtATime
  BY DEF IInv, JobInv, OneAtATime, Started
<1> QED
  BY <1>1, Invariance, PTL

\* An idle worker that is not paused has nothing queued.
THEOREM NeverIdleWithWork == Spec => []NoLostWakeup
<1>1. IInv => NoLostWakeup
  BY DEF IInv, LoopInv
<1> QED
  BY <1>1, Invariance, PTL

\* No goroutine closes a closed doneCh or sends on a closed enqueueJobCh.
THEOREM NoChannelPanic == Spec => []ChannelsSafe
<1>1. IInv => ChannelsSafe
  BY DEF IInv, TypeOK, LoopInv, JobInv, ChannelsSafe, Started
<1> QED
  BY <1>1, Invariance, PTL

\* When Stop has returned nothing runs, and no caller waits for a job that
\* nobody will finish.
THEOREM StopIsQuiescent == Spec => []StopQuiesces
<1>1. IInv => StopQuiesces
  <2> SUFFICES ASSUME IInv, stopper = "done" PROVE StopQuiesces
    BY DEF StopQuiesces
  <2>1. pq \subseteq closed /\ current \in closed \cup {NoJob}
    BY DEF IInv, LoopInv
  <2>2. Started = {}
    BY <2>1, JobsAssumption DEF IInv, JobInv, Started
  <2> QED
    BY <2>1, <2>2 DEF IInv, JobInv, StopQuiesces
<1> QED
  BY <1>1, Invariance, PTL

\* ErrStopped means not started; nil without a cancellation means processed.
THEOREM ErrorsAreHonest == Spec => []ErrorsHonest
<1>1. IInv => ErrorsHonest
  BY DEF IInv, JobInv, ErrorsHonest
<1> QED
  BY <1>1, Invariance, PTL

\* No job is started once its call of Process has returned, and none over the
\* head of a queued job of higher priority.
THEOREM StartsAreSound == Spec => StartOnlyAwaited /\ StartHighest
<1> DEFINE Sound(j) ==
      handler[j] = "none" /\ handler'[j] = "spawned" =>
        /\ caller'[j] \in {"waiting", "cancelling"}
        /\ \A k \in pq : Priority[k] <= Priority[j]
<1>1. ASSUME IInv, [Next]_vars, NEW j \in Jobs PROVE Sound(j)
  <2> USE <1>1 DEF IInv, TypeOK, LoopInv, NoLostWakeup, JobInv, jobVars,
          callerVars, loopVars, Idle, ResumeQueue
  <2>1. ASSUME NEW i \in Jobs, Enqueue(i) PROVE Sound(j)
    BY <2>1 DEF Enqueue, StartJob
  <2>2. CASE CurrentDone
    BY <2>2 DEF CurrentDone, StartJob, Highest
  <2>3. CASE TogglePaused
    BY <2>3 DEF TogglePaused, StartJob, Highest
  <2>4. ASSUME NEW i \in Jobs, HandlerStep(i) PROVE Sound(j)
    BY <2>4 DEF HandlerStep, Bail, Run, HandlerReturns, CloseDone
  <2>5. CASE UNCHANGED handler
    BY <2>5
  <2> QED
    BY <2>1, <2>2, <2>3, <2>4, <2>5
       DEF Next, Environment, LoopStep, StopperStep, CallerStep, Process,
           ReturnDone, SeeCancelled, WriteCanceled, ReturnErr, CancelCtx, Stop,
           StopLocked, StopReturns, Pause, Unpause, ReceiveCancel, SeeStopped,
           FailQueued, ExitLoop, vars
<1>2. IInv /\ [Next]_vars =>
        /\ [\A j \in Jobs : handler[j] = "none" /\ handler'[j] = "spawned" =>
              caller'[j] \in {"waiting", "cancelling"}]_vars
        /\ [\A j \in Jobs : handler[j] = "none" /\ handler'[j] = "spawned" =>
              \A k \in pq : Priority[k] <= Priority[j]]_vars
  BY <1>1
<1> QED
  BY <1>2, Invariance, PTL DEF Spec, StartOnlyAwaited, StartHighest

-----------------------------------------------------------------------------
(* The worker implements the abstract executor                             *)

\* One job moves to status x and the others stay where they are.
LEMMA OneMoves ==
  ASSUME NEW j \in Jobs, NEW x, StatusOf(j)' = x,
         \A k \in Jobs \ {j} : StatusOf(k)' = StatusOf(k)
  PROVE  jobStatus' = [jobStatus EXCEPT ![j] = x]
BY DEF jobStatus

LEMMA NoneMoves ==
  ASSUME \A k \in Jobs : StatusOf(k)' = StatusOf(k)
  PROVE  UNCHANGED jobStatus
BY DEF jobStatus

\* The step that starts a job: the executor is free and nothing queued outranks
\* the job.
LEMMA StartImplements ==
  ASSUME NEW j \in Jobs, TypeOK, PriorityAssumption,
         StatusOf(j) \in {"new", "queued"},
         \A k \in Jobs : StatusOf(k) # "running",
         \A k \in Jobs : StatusOf(k) = "queued" => Priority[k] <= Priority[j],
         StatusOf(j)' = "running",
         \A k \in Jobs \ {j} : StatusOf(k)' = StatusOf(k)
  PROVE  Executor!Next
<1>1. jobStatus' = [jobStatus EXCEPT ![j] = "running"]
  BY OneMoves
<1>2. Executor!Start(j)
  BY <1>1 DEF Executor!Start, jobStatus
<1> QED
  BY <1>2 DEF Executor!Next

LEMMA StepImplements == IInv /\ [Next]_vars => [Executor!Next]_jobStatus
<1> SUFFICES ASSUME IInv, [Next]_vars PROVE Executor!Next \/ UNCHANGED jobStatus
  OBVIOUS
<1> USE JobsAssumption, PriorityAssumption DEF IInv, TypeOK, LoopInv,
        NoLostWakeup, JobInv, Started, jobVars, callerVars, loopVars, Idle,
        CancelReady, WithoutJob, ResumeQueue, Outstanding
<1>1. ASSUME NEW j \in Jobs, Process(j)
      PROVE  Executor!Next \/ UNCHANGED jobStatus
  <2>1. \A k \in Jobs \ {j} : StatusOf(k)' = StatusOf(k)
    BY <1>1 DEF Process, StatusOf
  <2>2. CASE stopped
    <3>1. StatusOf(j) = "new" /\ StatusOf(j)' = "dropped"
      BY <1>1, <2>2 DEF Process, StatusOf
    <3>2. Executor!Drop(j)
      BY <2>1, <3>1, OneMoves DEF Executor!Drop, jobStatus
    <3> QED
      BY <3>2 DEF Executor!Next
  <2>3. CASE ~stopped
    <3>1. StatusOf(j)' = StatusOf(j)
      BY <1>1, <2>3 DEF Process, StatusOf
    <3> QED
      BY <2>1, <3>1, NoneMoves
  <2> QED
    BY <2>2, <2>3
<1>2. ASSUME NEW j \in Jobs, CallerStep(j) PROVE UNCHANGED jobStatus
  <2>1. \A k \in Jobs : StatusOf(k)' = StatusOf(k)
    BY <1>2 DEF CallerStep, ReturnDone, SeeCancelled, WriteCanceled, ReturnErr,
                StatusOf
  <2> QED
    BY <2>1, NoneMoves
<1>3. ASSUME NEW j \in Jobs, Enqueue(j) PROVE Executor!Next
  <2>1. StatusOf(j) = "new"
    BY <1>3 DEF Enqueue, StatusOf
  <2>2. CASE ~paused /\ current = NoJob
    <3>1. \A k \in Jobs \ {j} : StatusOf(k)' = StatusOf(k)
      BY <1>3, <2>2 DEF Enqueue, StartJob, StatusOf
    <3>2. StatusOf(j)' = "running"
      BY <1>3, <2>2 DEF Enqueue, StartJob, StatusOf
    <3>3. \A k \in Jobs : StatusOf(k) \notin {"running", "queued"}
      BY <1>3, <2>2 DEF Enqueue, StatusOf
    <3> QED
      BY <2>1, <3>1, <3>2, <3>3, StartImplements
  <2>3. CASE ~(~paused /\ current = NoJob)
    <3>1. \A k \in Jobs \ {j} : StatusOf(k)' = StatusOf(k)
      BY <1>3, <2>3 DEF Enqueue, StatusOf
    <3>2. StatusOf(j)' = "queued"
      BY <1>3, <2>3 DEF Enqueue, StatusOf
    <3>3. Executor!Submit(j)
      BY <2>1, <3>1, <3>2, OneMoves DEF Executor!Submit, jobStatus
    <3> QED
      BY <3>3 DEF Executor!Next
  <2> QED
    BY <2>2, <2>3
<1>4. ASSUME NEW j \in Jobs, ReceiveCancel(j)
      PROVE  Executor!Next \/ UNCHANGED jobStatus
  <2>1. \A k \in Jobs \ {j} : StatusOf(k)' = StatusOf(k)
    BY <1>4 DEF ReceiveCancel, StatusOf
  <2>2. CASE j \in pq
    <3>1. StatusOf(j) = "queued" /\ StatusOf(j)' = "dropped"
      BY <1>4, <2>2 DEF ReceiveCancel, StatusOf
    <3>2. Executor!Drop(j)
      BY <2>1, <3>1, OneMoves DEF Executor!Drop, jobStatus
    <3> QED
      BY <3>2 DEF Executor!Next
  <2>3. CASE j \notin pq
    <3>1. StatusOf(j)' = StatusOf(j)
      BY <1>4, <2>3 DEF ReceiveCancel, StatusOf
    <3> QED
      BY <2>1, <3>1, NoneMoves
  <2> QED
    BY <2>2, <2>3
<1>5. ASSUME NEW j \in Jobs, FailQueued(j) PROVE Executor!Next
  <2>1. \A k \in Jobs \ {j} : StatusOf(k)' = StatusOf(k)
    BY <1>5 DEF FailQueued, StatusOf
  <2>2. StatusOf(j) = "queued" /\ StatusOf(j)' = "dropped"
    BY <1>5 DEF FailQueued, StatusOf
  <2>3. Executor!Drop(j)
    BY <2>1, <2>2, OneMoves DEF Executor!Drop, jobStatus
  <2> QED
    BY <2>3 DEF Executor!Next
<1>6. ASSUME NEW j \in Jobs, Bail(j) \/ CloseDone(j) PROVE Executor!Next
  <2>1. \A k \in Jobs \ {j} : StatusOf(k)' = StatusOf(k)
    BY <1>6 DEF Bail, CloseDone, StatusOf
  <2>2. StatusOf(j) = "running" /\ StatusOf(j)' = "done"
    BY <1>6 DEF Bail, CloseDone, StatusOf
  <2>3. Executor!Finish(j)
    BY <2>1, <2>2, OneMoves DEF Executor!Finish, jobStatus
  <2> QED
    BY <2>3 DEF Executor!Next
<1>7. ASSUME NEW j \in Jobs, Run(j) \/ HandlerReturns(j) PROVE UNCHANGED jobStatus
  <2>1. \A k \in Jobs : StatusOf(k)' = StatusOf(k)
    BY <1>7 DEF Run, HandlerReturns, StatusOf
  <2> QED
    BY <2>1, NoneMoves
<1>8. ASSUME NEW j \in Highest(pq), StartJob(j), pq' = pq \ {j},
             loop = "select", current \in closed \cup {NoJob},
             UNCHANGED <<callerVars, jobVars>>
      PROVE  Executor!Next
  <2>1. j \in Jobs /\ j \in pq /\ \A k \in pq : Priority[k] <= Priority[j]
    BY <1>8 DEF Highest
  <2>2. \A k \in Jobs \ {j} : StatusOf(k)' = StatusOf(k)
    BY <1>8, <2>1 DEF StartJob, StatusOf
  <2>3. StatusOf(j) = "queued" /\ StatusOf(j)' = "running"
    BY <1>8, <2>1 DEF StartJob, StatusOf
  <2>4. \A k \in Jobs : /\ StatusOf(k) # "running"
                        /\ StatusOf(k) = "queued" => k \in pq
    BY <1>8 DEF StatusOf
  <2> QED
    BY <2>1, <2>2, <2>3, <2>4, StartImplements
<1>9. CASE CurrentDone
  BY <1>8, <1>9, NoneMoves DEF CurrentDone, StatusOf
<1>10. CASE TogglePaused
  BY <1>8, <1>10, NoneMoves DEF TogglePaused, StatusOf
<1>11. CASE UNCHANGED <<caller, handler, pq, closed>>
  BY <1>11, NoneMoves DEF StatusOf
<1> QED
  BY <1>1, <1>2, <1>3, <1>4, <1>5, <1>6, <1>7, <1>9, <1>10, <1>11
     DEF Next, Environment, LoopStep, StopperStep, HandlerStep, CancelCtx,
         Stop, StopLocked, StopReturns, Pause, Unpause, SeeStopped, ExitLoop,
         vars

\* Every behaviour of the worker is one of the abstract executor: serial, by
\* priority, each job at most once.
THEOREM Implementation == Spec => ImplementsExecutor
<1>1. Init => Executor!Init
  BY DEF Init, Executor!Init, jobStatus, StatusOf, Started
<1> QED
  BY <1>1, StepImplements, Invariance, PTL
     DEF Spec, ImplementsExecutor, Executor!Spec
=============================================================================
