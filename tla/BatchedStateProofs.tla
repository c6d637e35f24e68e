------------------------- MODULE BatchedStateProofs -------------------------
(***************************************************************************)
(* The safety of BatchedState, for any number of updates, waiters and      *)
(* connections, whether or not callbacks throw.                            *)
(***************************************************************************)
EXTENDS BatchedState, TLAPS, SequenceTheorems

-----------------------------------------------------------------------------
(* Sequences of updates                                                    *)

\* The elements of a concatenation are those of its parts.
LEMMA ToSetConcat ==
  ASSUME NEW S, NEW s \in Seq(S), NEW t \in Seq(S)
  PROVE  ToSet(s \o t) = ToSet(s) \cup ToSet(t)
<1>1. /\ DOMAIN s = 1..Len(s) /\ DOMAIN t = 1..Len(t) /\ Len(s) \in Nat /\ Len(t) \in Nat
      /\ DOMAIN (s \o t) = 1..(Len(s) + Len(t))
      /\ \A i \in 1..(Len(s) + Len(t)) : (s \o t)[i] = IF i <= Len(s) THEN s[i] ELSE t[i - Len(s)]
  BY ConcatProperties, LenProperties, SMTT(30)
<1>2. ASSUME NEW x \in ToSet(s \o t) PROVE x \in ToSet(s) \cup ToSet(t)
  <2>1. PICK i \in 1..(Len(s) + Len(t)) : x = (s \o t)[i]
    BY <1>1 DEF ToSet
  <2>2. CASE i <= Len(s)
    BY <1>1, <2>1, <2>2 DEF ToSet
  <2>3. CASE i > Len(s)
    <3>1. i - Len(s) \in 1..Len(t) /\ x = t[i - Len(s)]
      BY <1>1, <2>1, <2>3
    <3> QED BY <1>1, <3>1 DEF ToSet
  <2> QED BY <1>1, <2>2, <2>3
<1>3. ASSUME NEW x \in ToSet(s) PROVE x \in ToSet(s \o t)
  <2>1. PICK i \in 1..Len(s) : x = s[i]
    BY <1>1, <1>3 DEF ToSet
  <2>2. i \in 1..(Len(s) + Len(t)) /\ (s \o t)[i] = x
    BY <1>1, <2>1
  <2> QED BY <1>1, <2>2 DEF ToSet
<1>4. ASSUME NEW x \in ToSet(t) PROVE x \in ToSet(s \o t)
  <2>1. PICK i \in 1..Len(t) : x = t[i]
    BY <1>1, <1>4 DEF ToSet
  <2>2. i + Len(s) \in 1..(Len(s) + Len(t)) /\ (s \o t)[i + Len(s)] = x
    BY <1>1, <2>1
  <2> QED BY <1>1, <2>2 DEF ToSet
<1> QED BY <1>2, <1>3, <1>4

\* A new update goes behind all others.
LEMMA NextUpdate ==
  ASSUME NEW s \in Seq(Nat), NEW d \in Nat, Increasing(s), ToSet(s) \subseteq 1..d
  PROVE  /\ Increasing(Append(s, d + 1))
         /\ ToSet(Append(s, d + 1)) = ToSet(s) \cup {d + 1}
<1>1. /\ DOMAIN s = 1..Len(s) /\ Len(s) \in Nat
      /\ DOMAIN Append(s, d + 1) = 1..(Len(s) + 1)
      /\ \A i \in 1..Len(s) : Append(s, d + 1)[i] = s[i]
      /\ Append(s, d + 1)[Len(s) + 1] = d + 1
  BY AppendProperties, LenProperties
<1>2. \A i \in 1..Len(s) : s[i] \in Nat /\ s[i] < d + 1
  BY <1>1 DEF ToSet
<1>3. Increasing(Append(s, d + 1))
  BY <1>1, <1>2 DEF Increasing
<1> DEFINE t == << d + 1 >>
<1>4. Append(s, d + 1) = s \o t /\ t \in Seq(Nat)
  BY AppendIsConcat
<1>5. ToSet(t) = {d + 1}
  BY DEF ToSet
<1> HIDE DEF t
<1>6. ToSet(s \o t) = ToSet(s) \cup ToSet(t)
  BY <1>4, ToSetConcat
<1> QED BY <1>3, <1>4, <1>5, <1>6

\* The part of an increasing sequence before a discarded batch.
LEMMA IncreasingPrefix ==
  ASSUME NEW s \in Seq(Nat), NEW t \in Seq(Nat), Increasing(s \o t)
  PROVE  Increasing(s)
<1>1. /\ DOMAIN s = 1..Len(s) /\ Len(s) \in Nat /\ Len(t) \in Nat
      /\ DOMAIN (s \o t) = 1..(Len(s) + Len(t))
      /\ \A i \in 1..Len(s) : (s \o t)[i] = s[i]
  BY ConcatProperties, LenProperties, SMTT(30)
<1> QED BY <1>1 DEF Increasing

\* The applied updates and those of a discarded batch have none in common.
LEMMA IncreasingDisjoint ==
  ASSUME NEW s \in Seq(Nat), NEW t \in Seq(Nat), Increasing(s \o t)
  PROVE  ToSet(s) \cap ToSet(t) = {}
<1>1. /\ DOMAIN s = 1..Len(s) /\ DOMAIN t = 1..Len(t) /\ Len(s) \in Nat /\ Len(t) \in Nat
      /\ DOMAIN (s \o t) = 1..(Len(s) + Len(t))
      /\ \A i \in 1..(Len(s) + Len(t)) : (s \o t)[i] = IF i <= Len(s) THEN s[i] ELSE t[i - Len(s)]
  BY ConcatProperties, LenProperties, SMTT(30)
<1>2. SUFFICES ASSUME NEW i \in 1..Len(s), NEW j \in 1..Len(t), s[i] = t[j] PROVE FALSE
  BY <1>1 DEF ToSet
<1>3. (s \o t)[i] = s[i] /\ (s \o t)[j + Len(s)] = t[j]
  BY <1>1
<1>4. i < j + Len(s) /\ i \in 1..(Len(s) + Len(t)) /\ j + Len(s) \in 1..(Len(s) + Len(t))
  BY <1>1
<1>5. s[i] \in Nat /\ s[i] < t[j]
  <2>1. (s \o t)[i] < (s \o t)[j + Len(s)]
    BY <1>1, <1>4 DEF Increasing
  <2> QED BY <1>1, <1>3, <2>1
<1> QED BY <1>2, <1>5

-----------------------------------------------------------------------------
(* What a client follows                                                   *)

\* Prefixes of the store stay what they are when it grows.
LEMMA PrefixOfLonger ==
  ASSUME NEW S, NEW s \in Seq(S), NEW b \in Seq(S), NEW n \in 0..Len(s)
  PROVE  /\ Prefix(s \o b, n) = Prefix(s, n)
         /\ Prefix(s, n) \in Seq(S)
         /\ Prefix(s, Len(s)) = s
         /\ Prefix(s \o b, Len(s \o b)) = s \o b
<1>1. Prefix(s \o b, n) = Prefix(s, n)
  <2>1. CASE n = 0
    BY <2>1, SubSeqEmpty DEF Prefix
  <2>2. CASE n \in 1..Len(s)
    <3>1. 1 \in 1..Len(s) /\ n \in 1..Len(s)
      BY <2>2, LenProperties
    <3> QED BY <3>1, SubSeqOfConcat1 DEF Prefix
  <2> QED BY <2>1, <2>2, LenProperties
<1>2. Prefix(s, n) \in Seq(S)
  <2>1. \A i \in 1..n : s[i] \in S
    BY ElementOfSeq, LenProperties
  <2> QED BY <2>1, SubSeqProperties DEF Prefix
<1> QED BY <1>1, <1>2, SubSeqFull, ConcatProperties DEF Prefix

\* A client that follows the store and is sent the patches of a batch follows
\* the store with this batch.
LEMMA FollowsPatch ==
  ASSUME NEW S, NEW st \in Seq(S), NEW b \in Seq(S), NEW T,
         NEW ms \in Seq(T), NEW copy, NEW m \in T,
         m.kind = "patch", m.updates = b, Follows(st, ms, copy)
  PROVE  Follows(st \o b, Append(ms, m), copy)
<1> DEFINE n == Len(ms)
           st2 == st \o b
           ms2 == Append(ms, m)
<1>1. /\ n \in Nat /\ Len(st) \in Nat /\ Len(st2) \in Nat /\ Len(st) <= Len(st2)
      /\ st2 \in Seq(S)
  BY ConcatProperties, LenProperties, SMTT(30)
<1>2. Len(ms2) = n + 1 /\ ms2 # <<>> /\ ms2[n + 1] = m /\ \A i \in 1..n : ms2[i] = ms[i]
  BY AppendProperties
<1>3. PICK cut \in [0..n -> 0..Len(st)] :
        /\ copy = Prefix(st, cut[0]) \/ (ms # <<>> /\ ms[1].kind = "initialState")
        /\ \A i \in 1..n : Received(Prefix(st, cut[i - 1]), ms[i]) = Prefix(st, cut[i])
        /\ cut[n] = Len(st)
  BY DEF Follows
<1> DEFINE cut2 == [i \in 0..(n + 1) |-> IF i = n + 1 THEN Len(st2) ELSE cut[i]]
<1>4. cut2 \in [0..(n + 1) -> 0..Len(st2)]
  BY <1>1
<1>5. ASSUME NEW k \in 0..n PROVE cut2[k] = cut[k] /\ Prefix(st2, cut2[k]) = Prefix(st, cut[k])
  <2>1. cut2[k] = cut[k]
    BY <1>1
  <2>2. cut[k] \in 0..Len(st)
    BY <1>3
  <2>3. Prefix(st \o b, cut[k]) = Prefix(st, cut[k])
    BY <2>2, PrefixOfLonger
  <2> QED BY <2>1, <2>3
<1>6. copy = Prefix(st2, cut2[0]) \/ (ms2 # <<>> /\ ms2[1].kind = "initialState")
  <2>1. CASE copy = Prefix(st, cut[0])
    <3>1. 0 \in 0..n
      BY <1>1
    <3> QED BY <1>5, <2>1, <3>1
  <2>2. CASE ms # <<>> /\ ms[1].kind = "initialState"
    <3>1. 1 \in 1..n
      BY <2>2, EmptySeq
    <3> QED BY <1>2, <2>2, <3>1
  <2> QED BY <1>3, <2>1, <2>2
<1>7. ASSUME NEW i \in 1..(n + 1)
      PROVE  Received(Prefix(st2, cut2[i - 1]), ms2[i]) = Prefix(st2, cut2[i])
  <2>1. CASE i \in 1..n
    <3>1. i - 1 \in 0..n /\ i \in 0..n
      BY <1>1, <2>1
    <3> QED BY <1>2, <1>3, <1>5, <2>1, <3>1
  <2>2. CASE i = n + 1
    <3>1. Prefix(st2, cut2[i - 1]) = st
      <4>1. n \in 0..n /\ i - 1 = n
        BY <1>1, <2>2
      <4>2. Prefix(st2, cut2[n]) = Prefix(st, Len(st))
        BY <1>3, <1>5, <4>1
      <4>3. Prefix(st, Len(st)) = st
        <5>1. 0 \in 0..Len(st)
          BY <1>1
        <5> QED BY <5>1, PrefixOfLonger
      <4> QED BY <4>1, <4>2, <4>3
    <3>2. Prefix(st2, cut2[i]) = st \o b
      <4>1. cut2[i] = Len(st2)
        BY <1>1, <2>2
      <4>2. Prefix(st \o b, Len(st \o b)) = st \o b
        <5>1. 0 \in 0..Len(st)
          BY <1>1
        <5> QED BY <5>1, PrefixOfLonger
      <4> QED BY <4>1, <4>2
    <3> QED BY <1>2, <2>2, <3>1, <3>2 DEF Received
  <2> QED BY <1>1, <2>1, <2>2
<1>8. cut2[n + 1] = Len(st2)
  BY <1>1
<1> QED
  BY <1>2, <1>4, <1>6, <1>7, <1>8 DEF Follows

\* The same for a batch that may be empty.
LEMMA FollowsBatch ==
  ASSUME NEW st \in Seq(Updates), NEW b \in Seq(Updates),
         NEW ms \in Seq(Message), NEW copy, Follows(st, ms, copy)
  PROVE  /\ Follows(st \o b, ms \o Patch(b), copy)
         /\ ms \o Patch(b) \in Seq(Message)
<1>1. CASE b = <<>>
  BY <1>1, ConcatEmptySeq DEF Patch
<1>2. CASE b # <<>>
  <2> DEFINE m == [kind |-> "patch", updates |-> b]
  <2>1. m \in Message /\ Patch(b) = << m >> /\ m.kind = "patch" /\ m.updates = b
    BY <1>2 DEF Patch, Message
  <2>2. ms \o << m >> = Append(ms, m) /\ Append(ms, m) \in Seq(Message)
    BY <2>1, AppendIsConcat, AppendProperties
  <2>3. Follows(st \o b, Append(ms, m), copy)
    BY <2>1, FollowsPatch
  <2> QED BY <2>1, <2>2, <2>3
<1> QED BY <1>1, <1>2

-----------------------------------------------------------------------------
(* The inductive invariant                                                 *)

\* A waiter that is about to return, or has, sees the updates before its call.
WaitInv(w) ==
  /\ since[w] <= dispatched
  /\ wait[w] \in {"resolving", "returned"} =>
       1..since[w] \subseteq ToSet(store) \cup lost

IInv == TypeOK /\ AppliedInOrder /\ ClientFollows /\ \A w \in Waiters : WaitInv(w)

USE BoundsAssumption DEF updateVars, waitVars, clientVars

\* The elements of a sequence of updates are updates.
LEMMA ToSetOfUpdates ==
  ASSUME NEW s \in Seq(Updates)
  PROVE  ToSet(s) \subseteq Updates /\ s \in Seq(Nat)
<1>1. \A i \in 1..Len(s) : s[i] \in Updates
  BY ElementOfSeq
<1>2. s \in Seq(Nat)
  <2>1. Updates \subseteq Nat
    BY DEF Updates
  <2> QED BY <2>1, SeqMonotonic
<1> QED BY <1>1, <1>2, LenProperties DEF ToSet

\* A patch is a sequence of messages.
LEMMA PatchType ==
  ASSUME NEW b \in Seq(Updates)
  PROVE  Patch(b) \in Seq(Message)
<1>1. [kind |-> "patch", updates |-> b] \in Message
  BY DEF Message
<1> QED BY <1>1 DEF Patch

\* Nothing is left of a batch that was flushed before a direct update.
LEMMA NothingLeft ==
  ASSUME TypeOK
  PROVE  SubSeq(pending, Len(Flushed) + 1, Len(pending)) = <<>>
BY SubSeqEmpty, LenProperties DEF TypeOK, Flushed

-----------------------------------------------------------------------------
(* Type correctness                                                        *)

\* What applying or discarding the batch does to the types.
LEMMA BatchTypes ==
  ASSUME TypeOK
  PROVE  /\ store \o pending \in Seq(Updates)
         /\ channel \o Patch(pending) \in Seq(Message)
         /\ lost \cup ToSet(pending) \subseteq Updates
         /\ [w \in Waiters |-> IF w \in Resolved THEN "resolving" ELSE wait[w]]
              \in [Waiters -> {"new", "waiting", "resolving", "returned"}]
BY ConcatProperties, PatchType, ToSetOfUpdates DEF TypeOK

LEMMA BatchTypeStep ==
  ASSUME TypeOK, BatchUpdateState, UNCHANGED <<dispatched, since, connects, connected, client>>,
         immediates' \in Nat
  PROVE  TypeOK'
<1>1. <<>> \in Seq(Updates)
  OBVIOUS
<1> QED BY BatchTypes, <1>1 DEF BatchUpdateState, Emit, ResolveWaiters, TypeOK

LEMMA TypeStep == TypeOK /\ [Next]_vars => TypeOK'
<1> SUFFICES ASSUME TypeOK, [Next]_vars PROVE TypeOK'
  OBVIOUS
<1>1. CASE DispatchThrottled
  <2>1. dispatched + 1 \in Updates /\ dispatched + 1 \in 0..MaxUpdates
    BY <1>1 DEF DispatchThrottled, TypeOK, Updates
  <2>2. Append(pending, dispatched + 1) \in Seq(Updates)
    BY <2>1, AppendProperties DEF TypeOK
  <2> QED BY <1>1, <2>1, <2>2 DEF DispatchThrottled, Debounced, TypeOK
<1>2. CASE DispatchDirect
  <2> DEFINE u == dispatched + 1
  <2>1. u \in Updates /\ u \in 0..MaxUpdates
    BY <1>2 DEF DispatchDirect, TypeOK, Updates
  <2>2. /\ Append(store \o pending, u) \in Seq(Updates)
        /\ <<u>> \in Seq(Updates)
    BY <2>1, BatchTypes, AppendProperties
  <2>3. channel \o (Patch(pending) \o Patch(<<u>>)) \in Seq(Message)
    <3>1. Patch(pending) \in Seq(Message) /\ Patch(<<u>>) \in Seq(Message)
      BY <2>2, PatchType DEF TypeOK
    <3> QED BY <3>1, ConcatProperties DEF TypeOK
  <2>4. /\ pending' \in Seq(Updates) /\ timer' \in BOOLEAN /\ dispatched' = u
        /\ UNCHANGED <<immediates, since, connects, connected, client>>
    BY <1>2, NothingLeft DEF DispatchDirect, TypeOK
  <2>5. store' \in {Append(store \o pending, u), store \o pending, store}
    BY <1>2 DEF DispatchDirect, Flushed
  <2>6. lost' \subseteq Updates
    BY <1>2, <2>1, BatchTypes DEF DispatchDirect, Flushed, TypeOK
  <2>7. channel' \in Seq(Message)
    BY <1>2, <2>3, BatchTypes DEF DispatchDirect, Flushed, Emit, TypeOK
  <2>8. wait' \in [Waiters -> {"new", "waiting", "resolving", "returned"}]
    BY <1>2, BatchTypes DEF DispatchDirect, ResolveWaiters, TypeOK
  <2> QED BY <2>1, <2>2, <2>4, <2>5, <2>6, <2>7, <2>8, BatchTypes DEF TypeOK
<1>3. CASE TimerFires
  BY <1>3, BatchTypeStep DEF TimerFires, TypeOK
<1>4. CASE Immediate
  <2>1. immediates' \in Nat /\ UNCHANGED <<dispatched, since, connects, connected, client>>
    BY <1>4 DEF Immediate, TypeOK
  <2>2. CASE BatchUpdateState
    BY <2>1, <2>2, BatchTypeStep
  <2>3. CASE UNCHANGED <<pending, timer, store, lost, wait, channel>>
    BY <2>1, <2>3 DEF TypeOK
  <2> QED BY <1>4, <2>2, <2>3 DEF Immediate
<1>5. ASSUME NEW w \in Waiters, WaitForAllUpdates(w) PROVE TypeOK'
  BY <1>5 DEF WaitForAllUpdates, Scheduled, NothingPending, TypeOK
<1>6. ASSUME NEW w \in Waiters, Resolve(w) PROVE TypeOK'
  BY <1>6 DEF Resolve, TypeOK
<1>7. CASE Connect
  <2>1. [kind |-> "initialState", updates |-> store] \in Message
    BY DEF Message, TypeOK
  <2>2. Welcome \in Seq(Message)
    BY <2>1 DEF Welcome
  <2> QED BY <1>7, <2>2 DEF Connect, TypeOK
<1>8. CASE Disconnect
  <2>1. <<>> \in Seq(Message)
    OBVIOUS
  <2> QED BY <1>8, <2>1 DEF Disconnect, TypeOK
<1>9. CASE Deliver
  <2>1. Tail(channel) \in Seq(Message) /\ Head(channel) \in Message
    BY <1>9, HeadTailProperties DEF Deliver, TypeOK
  <2>2. Head(channel).updates \in Seq(Updates)
    BY <2>1 DEF Message
  <2>3. client \o Head(channel).updates \in Seq(Updates)
    BY <2>2, ConcatProperties DEF TypeOK
  <2> QED BY <1>9, <2>1, <2>2, <2>3 DEF Deliver, Received, TypeOK
<1>10. CASE UNCHANGED vars
  BY <1>10 DEF vars, TypeOK
<1> QED
  BY <1>1, <1>2, <1>3, <1>4, <1>5, <1>6, <1>7, <1>8, <1>9, <1>10 DEF Next

LEMMA InitType == Init => TypeOK
<1> SUFFICES ASSUME Init PROVE TypeOK
  OBVIOUS
<1>1. <<>> \in Seq(Updates) /\ <<>> \in Seq(Message)
  OBVIOUS
<1>2. 0 \in 0..MaxUpdates /\ 0 \in 0..MaxConnects
  OBVIOUS
<1>3. /\ wait \in [Waiters -> {"new", "waiting", "resolving", "returned"}]
      /\ since \in [Waiters -> 0..MaxUpdates]
  BY <1>2 DEF Init
<1>4. /\ dispatched = 0 /\ lost = {} /\ pending = <<>> /\ store = <<>> /\ client = <<>>
      /\ timer = FALSE /\ connected = FALSE /\ immediates = 0 /\ connects = 0 /\ channel = <<>>
  BY DEF Init
<1> QED BY <1>1, <1>2, <1>3, <1>4 DEF TypeOK

\* Every variable keeps its type.
THEOREM TypeCorrect == Spec => []TypeOK
BY InitType, TypeStep, PTL DEF Spec

-----------------------------------------------------------------------------
(* Each conjunct is kept                                                   *)

\* A batch that is applied stays in order, and one that is discarded is lost.
LEMMA BatchOrder ==
  ASSUME TypeOK, AppliedInOrder, BatchUpdateState, UNCHANGED dispatched
  PROVE  AppliedInOrder'
<1>1. store \in Seq(Nat) /\ pending \in Seq(Nat)
  BY ToSetOfUpdates DEF TypeOK
<1>2. ToSet(store \o pending) = ToSet(store) \cup ToSet(pending)
  BY <1>1, ToSetConcat
<1>3. CASE store' = store \o pending /\ lost' = lost /\ pending' = <<>>
  <2>1. store' \o pending' = store \o pending
    BY <1>1, <1>3, ConcatProperties, ConcatEmptySeq
  <2> QED BY <1>3, <2>1 DEF AppliedInOrder
<1>4. CASE store' = store /\ lost' = lost \cup ToSet(pending) /\ pending' = <<>>
  <2>1. store' \o pending' = store
    BY <1>1, <1>4, ConcatEmptySeq
  <2>2. Increasing(store) /\ ToSet(store) \cap ToSet(pending) = {}
    BY <1>1, IncreasingPrefix, IncreasingDisjoint DEF AppliedInOrder
  <2> QED BY <1>2, <1>4, <2>1, <2>2 DEF AppliedInOrder
<1> QED BY <1>3, <1>4 DEF BatchUpdateState

\* The next update goes behind the applied and the pending ones.
LEMMA DispatchOrder ==
  ASSUME TypeOK, AppliedInOrder
  PROVE  /\ Increasing(Append(store \o pending, dispatched + 1))
         /\ ToSet(Append(store \o pending, dispatched + 1)) =
              ToSet(store \o pending) \cup {dispatched + 1}
<1>1. store \in Seq(Nat) /\ pending \in Seq(Nat)
  BY ToSetOfUpdates DEF TypeOK
<1>2. store \o pending \in Seq(Nat) /\ dispatched \in Nat
  BY <1>1, ConcatProperties DEF TypeOK
<1> QED BY <1>2, NextUpdate DEF AppliedInOrder

LEMMA OrderStep == TypeOK /\ AppliedInOrder /\ [Next]_vars => AppliedInOrder'
<1> SUFFICES ASSUME TypeOK, AppliedInOrder, [Next]_vars PROVE AppliedInOrder'
  OBVIOUS
<1> DEFINE u == dispatched + 1
<1>0. /\ store \in Seq(Nat) /\ pending \in Seq(Nat) /\ u \in Nat /\ dispatched \in Nat
      /\ lost \subseteq 1..dispatched
      /\ 1..u = (1..dispatched) \cup {u} /\ u \notin 1..dispatched
  BY ToSetOfUpdates DEF TypeOK, AppliedInOrder
<1>1. CASE DispatchThrottled
  <2>1. store \o Append(pending, u) = Append(store \o pending, u)
    BY <1>0, AppendIsConcat, ConcatAssociative, ConcatProperties
  <2> QED BY <1>0, <1>1, <2>1, DispatchOrder DEF DispatchThrottled, AppliedInOrder
<1>2. CASE DispatchDirect
  <2>1. pending' = <<>> /\ dispatched' = u
    BY <1>2, NothingLeft DEF DispatchDirect
  <2>2. ToSet(store \o pending) = ToSet(store) \cup ToSet(pending)
    BY <1>0, ToSetConcat
  <2>3. /\ store \o pending \in Seq(Nat) /\ Append(store \o pending, u) \in Seq(Nat)
    BY <1>0, ConcatProperties, AppendProperties
  <2>4. CASE store' = Append(store \o pending, u) /\ lost' = lost
    <3>1. store' \o pending' = Append(store \o pending, u)
      BY <2>1, <2>3, <2>4, ConcatEmptySeq
    <3> QED BY <1>0, <2>1, <2>4, <3>1, DispatchOrder DEF AppliedInOrder
  <2>5. CASE store' = store \o pending /\ lost' = lost \cup {u}
    <3>1. store' \o pending' = store \o pending
      BY <2>1, <2>3, <2>5, ConcatEmptySeq
    <3> QED BY <1>0, <2>1, <2>5, <3>1 DEF AppliedInOrder
  <2>6. CASE store' = store /\ lost' = lost \cup ToSet(pending) \cup {u}
    <3>1. store' \o pending' = store
      BY <1>0, <2>1, <2>6, ConcatEmptySeq
    <3>2. Increasing(store) /\ ToSet(store) \cap ToSet(pending) = {}
      BY <1>0, IncreasingPrefix, IncreasingDisjoint DEF AppliedInOrder
    <3> QED BY <1>0, <2>1, <2>2, <2>6, <3>1, <3>2 DEF AppliedInOrder
  <2> QED BY <1>2, <2>4, <2>5, <2>6 DEF DispatchDirect, Flushed
<1>3. CASE TimerFires
  BY <1>3, BatchOrder DEF TimerFires
<1>4. CASE Immediate
  <2>1. CASE BatchUpdateState
    BY <1>4, <2>1, BatchOrder DEF Immediate
  <2>2. CASE UNCHANGED <<pending, timer, store, lost, wait, channel>>
    BY <1>4, <2>2 DEF Immediate, AppliedInOrder
  <2> QED BY <1>4, <2>1, <2>2 DEF Immediate
<1>5. CASE UNCHANGED updateVars
  BY <1>5 DEF AppliedInOrder
<1> QED
  BY <1>1, <1>2, <1>3, <1>4, <1>5
     DEF Next, WaitForAllUpdates, Resolve, Connect, Disconnect, Deliver, vars

\* While a batch is applied or discarded the updates before a call stay where the
\* waiter sees them, and a batch that is applied shows it all of them.
LEMMA WaitStep ==
  TypeOK /\ AppliedInOrder /\ (\A w \in Waiters : WaitInv(w)) /\ [Next]_vars
    => \A w \in Waiters : WaitInv(w)'
<1> SUFFICES ASSUME TypeOK, AppliedInOrder, \A w \in Waiters : WaitInv(w), [Next]_vars,
                    NEW w \in Waiters
             PROVE  WaitInv(w)'
  OBVIOUS
<1> DEFINE u == dispatched + 1
<1>0. /\ dispatched \in Nat /\ since[w] \in Nat /\ since[w] <= dispatched
      /\ WaitInv(w)
      /\ 1..since[w] \subseteq 1..dispatched
  BY DEF TypeOK, WaitInv
<1>1. /\ ToSet(store \o pending) = ToSet(store) \cup ToSet(pending)
      /\ 1..dispatched = ToSet(store) \cup ToSet(pending) \cup lost
  BY ToSetConcat DEF TypeOK, AppliedInOrder
\* The three outcomes of a batch, for a waiter and the direct update behind it.
<1>2. ASSUME ToSet(store \o pending) \subseteq ToSet(store'), lost \subseteq lost',
             since' = since, dispatched' >= dispatched, dispatched' \in Nat
      PROVE  WaitInv(w)'
  BY <1>0, <1>1, <1>2 DEF WaitInv
<1>3. ASSUME ToSet(store) \cup lost \subseteq (ToSet(store) \cup lost)',
             wait' = wait, since' = since, dispatched' >= dispatched, dispatched' \in Nat
      PROVE  WaitInv(w)'
  BY <1>0, <1>3 DEF WaitInv
<1>4. CASE DispatchThrottled
  BY <1>0, <1>3, <1>4 DEF DispatchThrottled
<1>5. CASE DispatchDirect
  <2>1. since' = since /\ dispatched' = u
    BY <1>5 DEF DispatchDirect
  <2>2. ASSUME store' = Append(store \o pending, u) PROVE ToSet(store \o pending) \subseteq ToSet(store')
    <3>1. store \o pending \in Seq(Updates) /\ u \in Updates
      BY <1>5, BatchTypes DEF DispatchDirect, TypeOK, Updates
    <3>3. ToSet((store \o pending) \o <<u>>) = ToSet(store \o pending) \cup ToSet(<<u>>)
      <4> DEFINE s == store \o pending
                 t == <<u>>
      <4>1. s \in Seq(Updates) /\ t \in Seq(Updates)
        BY <3>1
      <4> HIDE DEF s, t
      <4>2. ToSet(s \o t) = ToSet(s) \cup ToSet(t)
        BY <4>1, ToSetConcat
      <4> QED BY <4>2 DEF s, t
    <3>4. store' = (store \o pending) \o <<u>>
      BY <2>2, <3>1, AppendIsConcat
    <3> QED BY <3>3, <3>4
  <2>3. CASE store' \in {Append(store \o pending, u), store \o pending} /\ lost \subseteq lost'
    <3>1. ToSet(store \o pending) \subseteq ToSet(store')
      <4>1. CASE store' = store \o pending
        BY <4>1
      <4> QED BY <2>2, <2>3, <4>1
    <3>2. since' = since /\ dispatched' >= dispatched /\ dispatched' \in Nat
      BY <1>0, <2>1
    <3> QED BY <1>2, <2>3, <3>1, <3>2
  <2>4. CASE store' = store /\ wait' = wait /\ lost \subseteq lost'
    BY <1>0, <1>3, <2>1, <2>4
  <2> QED BY <1>5, <2>3, <2>4 DEF DispatchDirect, Flushed
<1>6. ASSUME BatchUpdateState, UNCHANGED <<dispatched, since>> PROVE WaitInv(w)'
  <2>1. CASE store' = store \o pending /\ lost' = lost
    BY <1>0, <1>2, <1>6, <2>1
  <2>2. CASE store' = store /\ wait' = wait /\ lost \subseteq lost'
    BY <1>0, <1>3, <1>6, <2>2
  <2> QED BY <1>6, <2>1, <2>2 DEF BatchUpdateState
<1>7. CASE TimerFires
  BY <1>6, <1>7 DEF TimerFires
<1>8. CASE Immediate
  BY <1>0, <1>3, <1>6, <1>8 DEF Immediate
<1>9. ASSUME NEW v \in Waiters, WaitForAllUpdates(v) PROVE WaitInv(w)'
  <2>1. CASE v # w
    BY <1>0, <1>9, <2>1 DEF WaitForAllUpdates, TypeOK, WaitInv
  <2>2. CASE v = w
    <3>1. since'[w] = dispatched /\ dispatched' = dispatched /\ store' = store /\ lost' = lost
      BY <1>9, <2>2 DEF WaitForAllUpdates, TypeOK
    <3>2. wait'[w] \in {"resolving", "returned"} => pending = <<>>
      BY <1>9, <2>2 DEF WaitForAllUpdates, NothingPending, TypeOK
    <3>3. pending = <<>> => ToSet(pending) = {}
      BY DEF ToSet
    <3> QED BY <1>0, <1>1, <3>1, <3>2, <3>3 DEF WaitInv
  <2> QED BY <2>1, <2>2
<1>10. ASSUME NEW v \in Waiters, Resolve(v) PROVE WaitInv(w)'
  BY <1>0, <1>10 DEF Resolve, TypeOK, WaitInv
<1>11. CASE UNCHANGED <<updateVars, waitVars>>
  BY <1>0, <1>11 DEF WaitInv
<1> QED
  BY <1>4, <1>5, <1>7, <1>8, <1>9, <1>10, <1>11 DEF Next, Connect, Disconnect, Deliver, vars

\* A connection that is made, loses its messages, or delivers one.
LEMMA ClientStep == TypeOK /\ ClientFollows /\ [Next]_vars => ClientFollows'
<1> SUFFICES ASSUME TypeOK, ClientFollows, [Next]_vars, connected' PROVE Follows(store, channel, client)'
  BY DEF ClientFollows
<1> USE DEF ClientFollows
<1>0. /\ store \in Seq(Updates) /\ pending \in Seq(Updates) /\ channel \in Seq(Message)
      /\ connected => Follows(store, channel, client)
  BY DEF TypeOK
<1>1. CASE DispatchDirect
  <2> DEFINE u == dispatched + 1
  <2>0. <<u>> \in Seq(Updates) /\ u \in Updates
    BY <1>1 DEF DispatchDirect, TypeOK, Updates
  <2>1. client' = client /\ connected
    BY <1>1 DEF DispatchDirect
  <2>2. CASE store' = Append(store \o pending, u) /\ channel' = channel \o (Patch(pending) \o Patch(<<u>>))
    <3>1. /\ Follows(store \o pending, channel \o Patch(pending), client)
          /\ channel \o Patch(pending) \in Seq(Message)
      BY <1>0, <2>1, FollowsBatch
    <3>2. store \o pending \in Seq(Updates)
      BY BatchTypes
    <3>3. Follows((store \o pending) \o <<u>>, (channel \o Patch(pending)) \o Patch(<<u>>), client)
      <4> DEFINE st == store \o pending
                 ms == channel \o Patch(pending)
                 b  == <<u>>
      <4>1. st \in Seq(Updates) /\ b \in Seq(Updates) /\ ms \in Seq(Message) /\ Follows(st, ms, client)
        BY <2>0, <3>1, <3>2
      <4> HIDE DEF st, ms, b
      <4>2. Follows(st \o b, ms \o Patch(b), client)
        BY <4>1, FollowsBatch, Zenon
      <4> QED BY <4>2 DEF st, ms, b
    <3>4. (channel \o Patch(pending)) \o Patch(<<u>>) = channel'
      <4>1. Patch(pending) \in Seq(Message) /\ Patch(<<u>>) \in Seq(Message)
        BY <1>0, <2>0, PatchType
      <4>2. (channel \o Patch(pending)) \o Patch(<<u>>) = channel \o (Patch(pending) \o Patch(<<u>>))
        BY <1>0, <4>1, ConcatAssociative
      <4> QED BY <2>2, <4>2
    <3>5. (store \o pending) \o <<u>> = store'
      BY <2>0, <2>2, <3>2, AppendIsConcat
    <3> QED BY <2>1, <3>3, <3>4, <3>5
  <2>3. CASE store' = store \o pending /\ channel' = channel \o Patch(pending)
    BY <1>0, <2>1, <2>3, FollowsBatch
  <2>4. CASE store' = store /\ channel' = channel
    BY <1>0, <2>1, <2>4
  <2> QED BY <1>1, <2>1, <2>2, <2>3, <2>4 DEF DispatchDirect, Flushed, Emit
<1>2. ASSUME BatchUpdateState, UNCHANGED <<connected, client>> PROVE Follows(store, channel, client)'
  <2>1. CASE store' = store \o pending /\ channel' = channel \o Patch(pending)
    BY <1>0, <1>2, <2>1, FollowsBatch
  <2>2. CASE store' = store /\ channel' = channel
    BY <1>0, <1>2, <2>2
  <2> QED BY <1>2, <2>1, <2>2 DEF BatchUpdateState, Emit
<1>3. CASE TimerFires
  BY <1>2, <1>3 DEF TimerFires
<1>4. CASE Immediate
  BY <1>0, <1>2, <1>4 DEF Immediate
<1>5. CASE Connect
  <2> DEFINE first == [kind |-> "initialState", updates |-> store]
             cut == [i \in 0..1 |-> IF i = 0 THEN 0 ELSE Len(store)]
  <2>1. channel' = <<first>> /\ store' = store
    BY <1>5 DEF Connect, Welcome
  <2>2. Len(<<first>>) = 1 /\ <<first>>[1] = first /\ <<first>> # <<>> /\ Len(store) \in Nat
    BY LenProperties, <1>0
  <2>3. cut \in [0..1 -> 0..Len(store)] /\ cut[1] = Len(store)
    BY <2>2
  <2>4. Prefix(store, Len(store)) = store
    BY <1>0, SubSeqFull DEF Prefix
  <2>5. \A i \in 1..1 : Received(Prefix(store, cut[i - 1]), <<first>>[i]) = Prefix(store, cut[i])
    <3>1. Received(Prefix(store, cut[0]), first) = store
      BY DEF Received
    <3> QED BY <2>2, <2>3, <2>4, <3>1
  <2> QED BY <2>1, <2>2, <2>3, <2>5 DEF Follows
<1>6. CASE Deliver
  <2>0. connected /\ store' = store /\ channel # <<>>
    BY <1>6 DEF Deliver
  <2> DEFINE n == Len(channel)
             ms == Tail(channel)
  <2>1. /\ n \in Nat \ {0} /\ Len(ms) = n - 1 /\ \A i \in 1..(n - 1) : ms[i] = channel[i + 1]
        /\ Head(channel) = channel[1]
    BY <1>0, <2>0, HeadTailProperties, EmptySeq
  <2>2. PICK cut \in [0..n -> 0..Len(store)] :
          /\ client = Prefix(store, cut[0]) \/ channel[1].kind = "initialState"
          /\ \A i \in 1..n : Received(Prefix(store, cut[i - 1]), channel[i]) = Prefix(store, cut[i])
          /\ cut[n] = Len(store)
    BY <1>0, <2>0 DEF Follows
  <2> DEFINE cut2 == [i \in 0..(n - 1) |-> cut[i + 1]]
  <2>3. cut2 \in [0..(n - 1) -> 0..Len(store)] /\ \A i \in 0..(n - 1) : cut2[i] = cut[i + 1]
    BY <2>1
  <2>4. client' = Prefix(store, cut2[0])
    <3>1. client' = Received(client, channel[1])
      BY <1>6, <2>1 DEF Deliver
    <3>2. Received(Prefix(store, cut[0]), channel[1]) = Prefix(store, cut[1])
      BY <2>1, <2>2
    <3>3. channel[1].kind = "initialState" =>
            Received(client, channel[1]) = Received(Prefix(store, cut[0]), channel[1])
      BY DEF Received
    <3>4. cut2[0] = cut[1]
      BY <2>1
    <3> QED BY <2>2, <3>1, <3>2, <3>3, <3>4
  <2>5. ASSUME NEW i \in 1..(n - 1)
        PROVE  Received(Prefix(store, cut2[i - 1]), ms[i]) = Prefix(store, cut2[i])
    <3>1. i - 1 \in 0..(n - 1) /\ i \in 0..(n - 1) /\ i + 1 \in 1..n /\ (i + 1) - 1 = i /\ (i - 1) + 1 = i
      BY <2>1
    <3>2. cut2[i - 1] = cut[i] /\ cut2[i] = cut[i + 1] /\ ms[i] = channel[i + 1]
      BY <2>1, <2>3, <3>1
    <3>3. Received(Prefix(store, cut[(i + 1) - 1]), channel[i + 1]) = Prefix(store, cut[i + 1])
      BY <2>2, <3>1
    <3> QED BY <3>1, <3>2, <3>3
  <2>6. cut2[n - 1] = Len(store)
    BY <2>1, <2>2
  <2>7. Follows(store, ms, client')
    BY <2>1, <2>3, <2>4, <2>5, <2>6 DEF Follows
  <2> QED BY <1>6, <2>0, <2>7 DEF Deliver
<1>7. CASE UNCHANGED <<store, connected, channel, client>>
  BY <1>0, <1>7
<1> QED
  BY <1>1, <1>3, <1>4, <1>5, <1>6, <1>7
     DEF Next, DispatchThrottled, WaitForAllUpdates, Resolve, Disconnect, vars

-----------------------------------------------------------------------------
(* The theorems                                                            *)

LEMMA InitInv == Init => IInv
<1> SUFFICES ASSUME Init PROVE IInv
  OBVIOUS
<1>1. TypeOK
  BY InitType
<1>2. AppliedInOrder
  <2>1. store \o pending = <<>> /\ dispatched = 0 /\ lost = {}
    BY DEF Init
  <2>2. ToSet(<<>>) = {} /\ Increasing(<<>>)
    BY DEF ToSet, Increasing
  <2> QED BY <2>1, <2>2 DEF AppliedInOrder
<1>3. ClientFollows
  BY DEF Init, ClientFollows
<1>4. \A w \in Waiters : WaitInv(w)
  BY DEF Init, WaitInv
<1> QED BY <1>1, <1>2, <1>3, <1>4 DEF IInv

LEMMA Invariance == Spec => []IInv
<1>1. IInv /\ [Next]_vars => IInv'
  BY TypeStep, OrderStep, WaitStep, ClientStep DEF IInv
<1> QED BY <1>1, InitInv, PTL DEF Spec

\* However throttled and direct updates, timers and throwing callbacks overlap,
\* the updates of a service are applied in the order of their dispatch and once,
\* and none is forgotten: it is in the store, in the batch, or discarded.
THEOREM UpdatesInOrder == Spec => []AppliedInOrder
BY Invariance, PTL DEF IInv

\* A call of waitForAllUpdates that has returned sees every update dispatched
\* before it.
THEOREM WaitersSeeUpdates == Spec => []WaitSeesUpdates
<1>1. IInv => WaitSeesUpdates
  BY DEF IInv, WaitInv, WaitSeesUpdates
<1> QED BY <1>1, Invariance, PTL

\* A connected client goes through prefixes of the store to the whole of it.
THEOREM ClientIsReplica == Spec => []ClientFollows
BY Invariance, PTL DEF IInv
=============================================================================
