---------------------------- MODULE ActionQueue ----------------------------
(***************************************************************************)
(* web-local/src/common/priority-action-queue: ActionQueueOrchestrator and *)
(* its PriorityActionQueue, which hand database actions to DuckDB one at a *)
(* time.  JavaScript runs one callback at a time, so a step is what runs   *)
(* between two awaits: run() up to its next dispatch, or a call of         *)
(* enqueue, clearQueue or updatePriority by some action of the server.     *)
(*                                                                         *)
(* Actions are numbered in the order in which they are enqueued.  The heap *)
(* of entries is that of module Heap: its ids are the entity ids (and      *)
(* column keys), its priorities are DatabaseActionQueuePriority.           *)
(***************************************************************************)
EXTENDS Heap

CONSTANT MaxActions   \* bound: how many actions are enqueued

ASSUME MaxActionsAssumption == MaxActions \in Nat

Actions == 1..MaxActions

VARIABLES
  queue,     \* entry.actions of each id
  enqueued,  \* how many actions have been enqueued
  running,   \* this.running
  timers,    \* pending setTimeout(() => this.run())
  inflight,  \* actions whose dispatch is being awaited
  outcome    \* how each action's promise was settled

vars == <<heapVars, queue, enqueued, running, timers, inflight, outcome>>

Outcomes == {"none", "resolved", "rejected", "cancelled"}

Elems(s) == {s[i] : i \in DOMAIN s}
Queued == UNION {Elems(queue[id]) : id \in Ids}

\* heapEntryMap: the ids in the heap
entries == Contents(array)
Live == {id \in entries : queue[id] # <<>>}

Init ==
  /\ HeapInit
  /\ queue = [id \in Ids |-> <<>>]
  /\ enqueued = 0
  /\ running = FALSE
  /\ timers = 0
  /\ inflight = {}
  /\ outcome = [a \in Actions |-> "none"]

-----------------------------------------------------------------------------
(* PriorityActionQueue.dequeue and run()                                   *)

\* while (topItem.actions.length === 0): an emptied entry on top of the heap is
\* popped.
DropOnce(h) ==
  IF h.array # <<>> /\ queue[h.array[1]] = <<>> THEN TakenOut(prio, h, 1) ELSE h
Drops ==
  LET h[n \in Nat] == IF n = 0 THEN heap ELSE DropOnce(h[n - 1]) IN h
Dropped == Drops[Len(array)]

\* topItem.actions.shift()
Oldest_mutNewest(id) == queue[id][Len(queue[id])]
Oldest(id) == Head(queue[id])

\* dequeue finds an action and run() dispatches it, or run() ends.
DispatchNext(rest) ==
  IF Dropped.array # <<>>
  THEN LET id == Dropped.array[1] IN
       /\ queue' = [queue EXCEPT ![id] = Tail(@)]
       /\ Becomes(IF Len(queue[id]) = 1 THEN TakenOut(prio, Dropped, 1) ELSE Dropped)
       /\ inflight' = rest \cup {Oldest(id)}
       /\ running' = TRUE
  ELSE /\ Becomes(Dropped)
       /\ inflight' = rest
       /\ running' = FALSE
       /\ UNCHANGED queue

\* if (this.running) return
AlreadyRunning_mutUnguarded == FALSE
AlreadyRunning == running

\* A timer calls run().
TimerFires == timers > 0 /\ timers' = timers - 1
Run ==
  /\ TimerFires
  /\ IF AlreadyRunning THEN UNCHANGED <<array, idxOf, queue, inflight, running>>
                       ELSE DispatchNext(inflight)
  /\ UNCHANGED <<prio, enqueued, outcome>>

\* The awaited dispatch of a resolves or throws; run() settles the promise of
\* the action and takes the next one.
Answered(a) ==
  a \in inflight /\ \E o \in {"resolved", "rejected"} : outcome' = [outcome EXCEPT ![a] = o]
Complete(a) ==
  /\ Answered(a)
  /\ DispatchNext(inflight \ {a})
  /\ UNCHANGED <<prio, enqueued, timers>>

-----------------------------------------------------------------------------
(* enqueue, clearQueue and updatePriority                                  *)

\* if (!this.running) setTimeout(() => this.run())
WakeUp_mutTwice == IF running THEN timers ELSE timers + 2
WakeUp_mutOnce == IF enqueued = 0 THEN timers + 1 ELSE timers
WakeUp == IF running THEN timers ELSE timers + 1

\* An existing entry keeps its priority, even one that clearQueue has emptied.
Enqueue(id, p) ==
  /\ enqueued < MaxActions
  /\ enqueued' = enqueued + 1
  /\ queue' = [queue EXCEPT ![id] = Append(@, enqueued + 1)]
  /\ IF id \in entries THEN UpdateItem(id, prio[id]) ELSE Push(id, p)
  /\ timers' = WakeUp
  /\ UNCHANGED <<running, inflight, outcome>>

\* existingItem.actions = []
Emptied_mutKept(id) == queue
Emptied(id) == [queue EXCEPT ![id] = <<>>]

\* Reject the queued actions of an id; the entry stays in the heap.
ClearQueue(id) ==
  /\ id \in entries
  /\ outcome' = [a \in Actions |->
                   IF a \in Elems(queue[id]) THEN "cancelled" ELSE outcome[a]]
  /\ queue' = Emptied(id)
  /\ UNCHANGED <<heapVars, enqueued, running, timers, inflight>>

UpdatePriority(id, p) ==
  /\ id \in entries
  /\ UpdateItem(id, p)
  /\ UNCHANGED <<queue, enqueued, running, timers, inflight, outcome>>

Next ==
  \/ Run
  \/ \E a \in Actions : Complete(a)
  \/ \E id \in Ids : \/ ClearQueue(id)
                     \/ \E p \in Priorities : Enqueue(id, p) \/ UpdatePriority(id, p)

Spec == Init /\ [][Next]_vars

\* Timers fire and DuckDB answers.  Run is enabled when TimerFires is, and Complete
\* when Answered is: what they do with the heap always has a result.
Fairness == WF_timers(TimerFires) /\ \A a \in Actions : WF_outcome(Answered(a))

FairSpec == Spec /\ Fairness

-----------------------------------------------------------------------------
TypeOK ==
  /\ HeapInv
  /\ queue \in [Ids -> Seq(Actions)]
  /\ enqueued \in 0..MaxActions
  /\ running \in BOOLEAN
  /\ timers \in 0..enqueued
  /\ inflight \subseteq Actions
  /\ outcome \in [Actions -> Outcomes]

\* No promise is forgotten or settled early: an enqueued action is unsettled
\* exactly while it waits in the entry of its id or is being dispatched, and it
\* waits in one entry of the heap only.
PromisesKept ==
  /\ \A a \in 1..enqueued : outcome[a] = "none" <=> a \in Queued \cup inflight
  /\ Queued \cap inflight = {}
  /\ \A id \in Ids : queue[id] # <<>> => id \in entries

\* Queued work always has somebody to run it: the loop, or a timer that will
\* start one (enqueue sets no timer while the loop is awaiting a dispatch).
NoLostWakeup == Live # {} => running \/ timers > 0

\* DuckDB gets one action at a time although every enqueue on an idle queue
\* sets a timer of its own.
OneInFlight == \A a, b \in inflight : a = b

\* The action that is dispatched is the oldest one of an id that no waiting id
\* outranks by its current priority.
BestFirst ==
  [][\A a \in inflight' \ inflight : \E id \in Ids :
       /\ a \in Elems(queue[id])
       /\ \A b \in Elems(queue[id]) : a <= b
       /\ \A other \in Ids : queue[other] # <<>> => prio[id] <= prio[other]]_vars

\* What clearQueue has cancelled stays cancelled and is never dispatched.
CancelledForGood ==
  [][\A a \in Actions : outcome[a] = "cancelled" =>
       outcome'[a] = "cancelled" /\ a \notin inflight']_vars

\* The heap with its emptied and revived entries, the timers and the loop are
\* together nothing but a queue that serves or cancels each action once.
Waiting == [id \in Ids |-> Elems(queue[id])]
Promises == INSTANCE PromiseQueue WITH asked <- enqueued, waiting <- Waiting, level <- prio, current <- inflight
ImplementsPromises == Promises!Spec

\* The inductive invariant.  The heap is in order, an entry holds its actions in
\* the order of their numbers, no action waits in two places, and an action that is
\* waiting or being dispatched is unsettled; the loop runs exactly while it awaits one.
Ordered(s) == \A i, j \in DOMAIN s : i < j => s[i] < s[j]
QueueInv ==
  /\ \A id \in Ids :
       /\ Ordered(queue[id])
       /\ queue[id] # <<>> => id \in entries
       /\ Elems(queue[id]) \subseteq 1..enqueued
       /\ Elems(queue[id]) \cap inflight = {}
       /\ \A a \in Elems(queue[id]) : outcome[a] = "none"
  /\ \A id, other \in Ids : id # other => Elems(queue[id]) \cap Elems(queue[other]) = {}
  /\ inflight \subseteq 1..enqueued
  /\ \A a \in inflight : outcome[a] = "none"
  /\ \A a \in 1..enqueued : outcome[a] = "none" => a \in Queued \cup inflight
  /\ \A a \in Actions : a > enqueued => outcome[a] = "none"
LoopInv == running = (inflight # {}) /\ OneInFlight /\ NoLostWakeup
IInv == TypeOK /\ InOrder(prio, array) /\ QueueInv /\ LoopInv

\* Every enqueued action is settled.
EverySettled == \A a \in Actions : (a <= enqueued) ~> (outcome[a] # "none")
=============================================================================
