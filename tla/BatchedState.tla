---------------------------- MODULE BatchedState ----------------------------
(***************************************************************************)
(* web-local/src/common/data-modeler-state-service: how the updates of one *)
(* entity state service reach its store and the clients.                   *)
(* DataModelerStateService.dispatch applies most updates at once; those of *)
(* ThrottleActions are collected by BatchedStateUpdate and applied as one  *)
(* batch when a timer fires, when another update of the service calls      *)
(* through, or in an immediate callback set by waitForAllUpdates.  An      *)
(* update whose callback throws aborts the whole batch it is in.           *)
(*                                                                         *)
(* Updates are numbered in the order of their dispatch; the store is the   *)
(* sequence of the updates that produced it.  A message to the client is   *)
(* the initial state or the patches of one batch (SocketServer), and a     *)
(* client that disconnects loses what is under way.                        *)
(***************************************************************************)
EXTENDS Integers, SequencesExt

CONSTANTS MaxUpdates,   \* bound: how many updates are dispatched
          MaxConnects,  \* bound: how often the client connects
          Waiters,      \* calls of waitForAllUpdates
          MayThrow      \* whether the callback of an update can throw

ASSUME BoundsAssumption == MaxUpdates \in Nat /\ MaxConnects \in Nat
ASSUME MayThrowAssumption == MayThrow \in BOOLEAN

Updates == 1..MaxUpdates

VARIABLES
  dispatched,  \* how many updates have been dispatched
  pending,     \* callbacksByType of the service
  timer,       \* debounceMap has a timer for the service
  store,       \* the updates in the store
  lost,        \* updates that a throwing callback has discarded
  immediates,  \* pending setImmediate callbacks of waitForAllUpdates
  wait,        \* state of each waiter
  since,       \* `dispatched' when the waiter called
  connects, connected,
  channel,     \* messages on their way to the client
  client       \* the client's copy of the store

updateVars == <<dispatched, pending, timer, store, lost>>
waitVars == <<immediates, wait, since>>
clientVars == <<connects, connected, channel, client>>
vars == <<updateVars, waitVars, clientVars>>

Init ==
  /\ dispatched = 0 /\ pending = <<>> /\ timer = FALSE /\ store = <<>> /\ lost = {}
  /\ immediates = 0
  /\ wait = [w \in Waiters |-> "new"]
  /\ since = [w \in Waiters |-> 0]
  /\ connects = 0 /\ connected = FALSE /\ channel = <<>> /\ client = <<>>

-----------------------------------------------------------------------------
\* A batch has patches for the clients unless it is empty.
Patch(updates) ==
  IF updates = <<>> THEN <<>> ELSE << [kind |-> "patch", updates |-> updates] >>

Emit(messages) == channel' = IF connected THEN channel \o messages ELSE channel

\* A batch that is applied sets a timer to resolve the waiters there are.
Resolved == {w \in Waiters : wait[w] = "waiting"}
ResolveWaiters == wait' = [w \in Waiters |-> IF w \in Resolved THEN "resolving" ELSE wait[w]]

\* batchUpdateState: the callbacks and the timer are cleared first.
BatchUpdateState ==
  /\ pending' = <<>> /\ timer' = FALSE
  /\ \/ /\ store' = store \o pending
        /\ Emit(Patch(pending))
        /\ ResolveWaiters
        /\ UNCHANGED lost
     \/ /\ MayThrow
        /\ lost' = lost \cup ToSet(pending)
        /\ UNCHANGED <<store, channel, wait>>

\* if (this.debounceMap.has(id)) return
Debounced_mutNeverDeleted == timer \/ dispatched = 0
Debounced == TRUE

\* updateColumnSummary, updateNullCount
DispatchThrottled ==
  /\ dispatched < MaxUpdates
  /\ dispatched' = dispatched + 1
  /\ pending' = Append(pending, dispatched + 1)
  /\ timer' = Debounced
  /\ UNCHANGED <<store, lost, waitVars, clientVars>>

\* "call through for to make sure state is up-to-date"
Flushed_mutNone == <<>>
Flushed == pending

\* Any other update.  Its own callback may throw after the batch is applied; if
\* the batch throws it is not called.
DispatchDirect ==
  LET u    == dispatched + 1
      rest == SubSeq(pending, Len(Flushed) + 1, Len(pending))
  IN  /\ dispatched < MaxUpdates
      /\ dispatched' = u
      /\ pending' = rest
      /\ timer' = (timer /\ rest # <<>>)
      /\ \/ /\ store' = Append(store \o Flushed, u)
            /\ Emit(Patch(Flushed) \o Patch(<<u>>))
            /\ IF Flushed # <<>> THEN ResolveWaiters ELSE UNCHANGED wait
            /\ UNCHANGED lost
         \/ /\ MayThrow
            /\ store' = store \o Flushed
            /\ Emit(Patch(Flushed))
            /\ IF Flushed # <<>> THEN ResolveWaiters ELSE UNCHANGED wait
            /\ lost' = lost \cup {u}
         \/ /\ MayThrow /\ Flushed # <<>>
            /\ lost' = lost \cup ToSet(Flushed) \cup {u}
            /\ UNCHANGED <<store, channel, wait>>
      /\ UNCHANGED <<immediates, since, connects, connected, client>>

TimerFires ==
  /\ timer
  /\ BatchUpdateState
  /\ UNCHANGED <<dispatched, immediates, since, connects, connected, client>>

-----------------------------------------------------------------------------
\* waitForNextUpdate: if (!this.callbacksByType.get(key)?.length) return
NothingPending_mutAssumed == TRUE
NothingPending == pending = <<>>

\* setImmediate in waitForAllUpdates
Scheduled == immediates + 1

WaitForAllUpdates(w) ==
  /\ wait[w] = "new"
  /\ immediates' = Scheduled
  /\ since' = [since EXCEPT ![w] = dispatched]
  /\ wait' = [wait EXCEPT ![w] = IF NothingPending THEN "returned" ELSE "waiting"]
  /\ UNCHANGED <<updateVars, clientVars>>

Immediate ==
  /\ immediates > 0
  /\ immediates' = immediates - 1
  /\ IF pending = <<>> THEN UNCHANGED <<pending, timer, store, lost, wait, channel>>
                       ELSE BatchUpdateState
  /\ UNCHANGED <<dispatched, since, connects, connected, client>>

\* The 5 ms after the batch are over.
Resolve(w) ==
  /\ wait[w] = "resolving"
  /\ wait' = [wait EXCEPT ![w] = "returned"]
  /\ UNCHANGED <<immediates, since, updateVars, clientVars>>

-----------------------------------------------------------------------------
\* The first message on a connection.
Welcome_mutNone == <<>>
Welcome == <<[kind |-> "initialState", updates |-> store]>>

Connect ==
  /\ ~connected /\ connects < MaxConnects
  /\ connected' = TRUE /\ connects' = connects + 1
  /\ channel' = Welcome
  /\ UNCHANGED <<client, updateVars, waitVars>>

Disconnect ==
  /\ connected
  /\ connected' = FALSE /\ channel' = <<>>
  /\ UNCHANGED <<connects, client, updateVars, waitVars>>

Received(copy, m) == IF m.kind = "patch" THEN copy \o m.updates ELSE m.updates

Deliver ==
  /\ channel # <<>>
  /\ client' = Received(client, Head(channel))
  /\ channel' = Tail(channel)
  /\ UNCHANGED <<connects, connected, updateVars, waitVars>>

Next == \/ DispatchThrottled \/ DispatchDirect \/ TimerFires \/ Immediate
        \/ \E w \in Waiters : WaitForAllUpdates(w) \/ Resolve(w)
        \/ Connect \/ Disconnect \/ Deliver

Spec == Init /\ [][Next]_vars

\* Node runs its timers and immediates, and messages arrive.
FairSpec == Spec /\ WF_vars(TimerFires) /\ WF_vars(Immediate) /\ WF_vars(Deliver)
                 /\ \A w \in Waiters : WF_vars(Resolve(w))

-----------------------------------------------------------------------------
Message == [kind : {"patch", "initialState"}, updates : Seq(Updates)]
TypeOK ==
  /\ dispatched \in 0..MaxUpdates /\ lost \subseteq Updates
  /\ pending \in Seq(Updates) /\ store \in Seq(Updates) /\ client \in Seq(Updates)
  /\ timer \in BOOLEAN /\ connected \in BOOLEAN
  /\ immediates \in Nat
  /\ wait \in [Waiters -> {"new", "waiting", "resolving", "returned"}]
  /\ since \in [Waiters -> 0..MaxUpdates]
  /\ connects \in 0..MaxConnects /\ channel \in Seq(Message)

Increasing(s) == \A i, j \in DOMAIN s : i < j => s[i] < s[j]

\* The updates of a service are applied in the order of their dispatch, each
\* once, although some of them wait: nobody sees a column summary overwrite a
\* later change of the profile.
AppliedInOrder ==
  /\ Increasing(store \o pending)
  /\ ToSet(store \o pending) \cup lost = 1..dispatched
  /\ ToSet(store \o pending) \cap lost = {}

\* When waitForAllUpdates has returned, the updates dispatched before the call
\* are in the store (or were discarded).
WaitSeesUpdates ==
  \A w \in Waiters : wait[w] = "returned" =>
     \A u \in 1..since[w] : u \in ToSet(store) \cup lost

\* The copies that a client has and will have are prefixes of the store up to the
\* whole of it; only what a client had before the initial state is any.
Prefix(st, n) == SubSeq(st, 1, n)
Follows(st, messages, copy) ==
  \E cut \in [0..Len(messages) -> 0..Len(st)] :
    /\ copy = Prefix(st, cut[0]) \/ (messages # <<>> /\ messages[1].kind = "initialState")
    /\ \A i \in 1..Len(messages) :
         Received(Prefix(st, cut[i - 1]), messages[i]) = Prefix(st, cut[i])
    /\ cut[Len(messages)] = Len(st)

\* What a connected client has, and will have when the messages under way have
\* arrived, is the store: however batches, connections and losses overlap, no
\* patch is applied to a state it was not made for.
ClientFollows == connected => Follows(store, channel, client)

\* Every batch ends: an update is applied or was discarded by a throwing callback,
\* and waitForAllUpdates returns unless updates made before the call were
\* discarded (a waiter whose batch throws stays until the service's next batch).
BatchesEnd ==
  /\ \A u \in Updates : (dispatched >= u) ~> (u \in ToSet(store) \cup lost)
  /\ \A w \in Waiters : (wait[w] # "new") ~>
                          (wait[w] = "returned" \/ \E u \in lost : u <= since[w])
=============================================================================
