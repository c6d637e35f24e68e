--------------------------- MODULE SerialExecutor ---------------------------
(***************************************************************************)
(* What a PriorityWorker promises the callers of Process, without its      *)
(* goroutines, channels and locks: jobs run one at a time and at most      *)
(* once, each started job outranks (or ties with) every job queued at that *)
(* moment, and a job leaves the queue only to run or to be dropped for     *)
(* good.                                                                   *)
(***************************************************************************)
EXTENDS Integers

CONSTANTS Jobs, Priority

VARIABLE status

Status == {"new", "queued", "running", "done", "dropped"}

Init == status = [j \in Jobs |-> "new"]

Submit(j) ==
  /\ status[j] = "new"
  /\ status' = [status EXCEPT ![j] = "queued"]

\* An idle executor starts a new job without queueing it.
Start(j) ==
  /\ status[j] \in {"new", "queued"}
  /\ \A k \in Jobs : /\ status[k] # "running"
                     /\ status[k] = "queued" => Priority[k] <= Priority[j]
  /\ status' = [status EXCEPT ![j] = "running"]

Finish(j) ==
  /\ status[j] = "running"
  /\ status' = [status EXCEPT ![j] = "done"]

\* Cancelled while queued, or not served because the executor stops.
Drop(j) ==
  /\ status[j] \in {"new", "queued"}
  /\ status' = [status EXCEPT ![j] = "dropped"]

Next == \E j \in Jobs : Submit(j) \/ Start(j) \/ Finish(j) \/ Drop(j)

Spec == Init /\ [][Next]_status
=============================================================================
