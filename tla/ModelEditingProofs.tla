------------------------- MODULE ModelEditingProofs -------------------------
(***************************************************************************)
(* Proofs about ModelEditing: the status of a model always has a call that *)
(* will reset it, a call never cancels a job of the newest edit, and at    *)
(* rest the model shows its last query.                                    *)
(*                                                                         *)
(* All of them rest on what is pending.  A busy call has a pending job for *)
(* each of its parts.  The newest edit e is followed from its validation   *)
(* over its view and its columns to its profile, and each stage bounds     *)
(* what the calls before it, which were not stopped, may still do.         *)
(***************************************************************************)
EXTENDS ModelEditing, SequenceTheorems, TLAPS

-----------------------------------------------------------------------------
(* The inductive invariant                                                 *)

\* Jobs whose call has not gone on: they wait, run or are settled.
Pending == ToSet(queue) \cup columnJobs \cup ({running} \ {NoJob}) \cup {r.job : r \in settled}

\* No job is pending twice.
OnePlace ==
  /\ IsInjective(queue)
  /\ ToSet(queue) \cap columnJobs = {}
  /\ running \notin ToSet(queue) \cup columnJobs
  /\ \A r \in settled : r.job \notin ToSet(queue) \cup columnJobs \cup {running}
  /\ \A r, x \in settled : r.job = x.job => r = x

\* A call has one job at a time until its parallel part.
Exclusive == \A i, j \in Pending : i.call = j.call /\ i.kind \notin PartKinds => i = j

\* Each busy call waits for a pending job, in its parallel part for each of
\* the parts; and a status other than Idle has an edit that will reset it.
BusyInv ==
  /\ \A c \in Calls : pc[c] = "busy" =>
       /\ \E j \in Pending : j.call = c
       /\ \A k \in parts[c] : \E j \in Pending : j.call = c /\ j.kind = k
  /\ \A j \in Pending : j.call <= arrived /\ (j.kind \notin PartKinds => pc[j.call] = "busy")
  /\ \A c \in Calls : c > arrived => parts[c] = {}
  /\ model.exists /\ model.status # "Idle" =>
       \E j \in Pending : j.kind # "rename" /\ pc[j.call] = "busy"

\* What is known of pending jobs and calls.  The derived entity goes last.
CallsInv == TypeOK /\ OnePlace /\ Exclusive /\ BusyInv /\ (model.listed => model.exists)

Done(r) == r.res # "cancelled"

\* e is the newest edit: no call has a job behind it.
JobsUpTo(e) ==
  /\ \A j \in Pending : j.kind # "rename" /\ j.call <= e /\ j.name = model.name
  /\ \A j \in columnJobs : j.kind \in ColumnNames

\* One job is completed at a time, and only earlier ones are cancelled.
SettledBefore(e) == \A r \in settled : IF Done(r) THEN settled = {r} ELSE r.job.call < e

\* The validation of e has replaced all jobs of the queue.
WaitsFirst(e) ==
  \A j \in ToSet(queue) : j.kind = "validate" =>
    /\ j.call = e /\ j.query = model.query /\ queue = <<j>>
    /\ running # NoJob => running.call # e
    /\ \A i \in columnJobs : i.call # e
    /\ \A r \in settled : ~ Done(r)

\* While a validation runs, e waits for it or for its own.
RunsFirst(e) ==
  running # NoJob /\ running.kind = "validate" =>
    /\ running.call = e => running.query = model.query
    /\ \A i \in columnJobs : i.call # e
    /\ \A r \in settled : r.job.call # e
    /\ \A j \in ToSet(queue) : j.call = e =>
         queue = <<j>> /\ running.call # e /\ \A r \in settled : ~ Done(r)

\* What a validated call cancels is not a job of e.
CancelsOlder(e) ==
  \A r \in settled : Done(r) /\ r.job.kind = "validate" =>
    \A j \in ToSet(queue) \cup columnJobs : j.call # e

Newest(e) ==
  e \in 0..arrived /\ JobsUpTo(e) /\ SettledBefore(e) /\ WaitsFirst(e) /\ RunsFirst(e) /\ CancelsOlder(e)

\* The views that will still be created are those of the last query, unless
\* its edit is still to be validated.
ViewsOf(q) ==
  /\ \A j \in ToSet(queue) : j.kind = "view" => j.query = q
  /\ running # NoJob /\ running.kind = "view" =>
       running.query = q \/ \E j \in ToSet(queue) : j.kind = "validate"

HasJob(e, kind) == \E j \in Pending : j.call = e /\ j.kind = kind
OnlyJobs(e, kinds) == \A j \in Pending : j.call = e => j.kind \in kinds

Validating(e, q) ==
  /\ \E j \in Pending : j.call = e /\ j.kind = "validate" /\ j.query = q
  /\ OnlyJobs(e, {"validate"})
  /\ \A r \in settled : r.job.call = e => r.res = "ok"
  /\ pc[e] = "busy"

\* Nobody will empty the queue any more.
Validated ==
  /\ \A j \in ToSet(queue) \cup ({running} \ {NoJob}) : j.kind # "validate"
  /\ \A r \in settled : Done(r) => r.job.kind # "validate"

CreatingView(e, q) ==
  /\ Validated
  /\ \E j \in Pending : j.call = e /\ j.kind = "view" /\ j.query = q
  /\ \A j \in Pending : j.call = e => j.kind = "view" /\ j.query = q
  /\ \A r \in settled : r.job.call = e => r.res = "ok" /\ view[model.name] = q
  /\ pc[e] = "busy"

\* The view is the one of the last query: whatever runs on it, for whichever
\* edit, is right.
ViewIs(q) ==
  /\ Validated
  /\ view[model.name] = q
  /\ \A r \in settled : Done(r) /\ r.got = q /\ (r.res = "ok" \/ r.job.kind \in ColumnNames)

ReadingColumns(e) == HasJob(e, "columns") /\ OnlyJobs(e, {"view", "columns"}) /\ pc[e] = "busy"

Shown(q) == model.error = NoQuery /\ (q \in ModelCopies \/ model.profile = q)
Profiling(e, q) ==
  /\ Shown(q)
  /\ \/ q \in ModelCopies
     \/ HasJob(e, "copyPreview")
     \/ /\ e \in Calls /\ pc[e] = "busy" /\ parts[e] # {}
        /\ \A k \in parts[e] : HasJob(e, k)
        /\ "preview" \in parts[e] \/ model.preview = q
     \/ model.preview = q /\ model.profiled

\* Where the newest edit e is, if its query is a good one.
Stage(e) ==
  LET q == model.query IN
  Good => \/ Validating(e, q)
          \/ CreatingView(e, q)
          \/ ViewIs(q) /\ (ReadingColumns(e) \/ Profiling(e, q))

EditOf(e) == Newest(e) /\ ViewsOf(model.query) /\ Stage(e)

\* The newest edit goes through its stages while no late result has broken it
\* off and the model is not deleted.
Going == model.listed /\ current # 0
EditInv ==
  model.exists /\ ~ renamed =>
    \E e \in 0..MaxCalls : Newest(e) /\ (Going => e = current /\ EditOf(e))

IInv == CallsInv /\ EditInv

-----------------------------------------------------------------------------
(* Sequences                                                               *)

LEMMA SetOfSeq ==
  ASSUME NEW S, NEW s \in Seq(S)
  PROVE  /\ ToSet(s) \subseteq S
         /\ s = <<>> => ToSet(s) = {}
         /\ s # <<>> => Head(s) \in S /\ Tail(s) \in Seq(S) /\ ToSet(s) = {Head(s)} \cup ToSet(Tail(s))
<1>1. Len(s) \in Nat /\ DOMAIN s = 1..Len(s) /\ \A i \in 1..Len(s) : s[i] \in S
  OBVIOUS
<1>2. ToSet(s) = {s[i] : i \in 1..Len(s)}
  BY <1>1 DEF ToSet
<1>3. ASSUME s # <<>>
      PROVE  Head(s) \in S /\ Tail(s) \in Seq(S) /\ ToSet(s) = {Head(s)} \cup ToSet(Tail(s))
  <2> DEFINE t == Tail(s)
  <2>1. Len(s) \in Nat \ {0} /\ Head(s) = s[1]
    BY <1>3, EmptySeq
  <2>2. /\ t \in Seq(S) /\ Len(t) = Len(s) - 1 /\ DOMAIN t = 1..(Len(s) - 1)
        /\ \A i \in 1..(Len(s) - 1) : t[i] = s[i + 1]
    BY <1>3, HeadTailProperties
  <2> HIDE DEF t
  <2>3. ToSet(t) = {t[i] : i \in 1..(Len(s) - 1)}
    BY <2>2 DEF ToSet
  <2>4. ASSUME NEW x \in ToSet(s) PROVE x \in {s[1]} \cup ToSet(t)
    <3>1. PICK i \in 1..Len(s) : s[i] = x
      BY <1>2
    <3>2. CASE i # 1
      <4>1. i - 1 \in 1..(Len(s) - 1) /\ t[i - 1] = x
        BY <2>1, <2>2, <3>1, <3>2
      <4> QED BY <2>3, <4>1
    <3> QED BY <3>1, <3>2
  <2>5. ASSUME NEW x \in {s[1]} \cup ToSet(t) PROVE x \in ToSet(s)
    <3>1. CASE x \in ToSet(t)
      <4>1. PICK i \in 1..(Len(s) - 1) : t[i] = x
        BY <2>3, <3>1
      <4>2. i + 1 \in 1..Len(s) /\ s[i + 1] = x
        BY <2>1, <2>2, <4>1
      <4> QED BY <1>2, <4>2
    <3> QED BY <1>2, <2>1, <3>1
  <2>6. s[1] \in S
    BY <1>1, <2>1
  <2> QED BY <2>1, <2>2, <2>4, <2>5, <2>6 DEF t
<1>4. s = <<>> => ToSet(s) = {}
  BY DEF ToSet
<1> QED BY <1>1, <1>2, <1>3, <1>4

LEMMA SetOfOne == ASSUME NEW x PROVE ToSet(<<x>>) = {x}
BY DEF ToSet

LEMMA SetOfAppend ==
  ASSUME NEW S, NEW s \in Seq(S), NEW x \in S
  PROVE  Append(s, x) \in Seq(S) /\ ToSet(Append(s, x)) = ToSet(s) \cup {x}
<1> DEFINE t == Append(s, x)
<1>1. /\ Len(s) \in Nat /\ DOMAIN s = 1..Len(s) /\ t \in Seq(S) /\ DOMAIN t = 1..(Len(s) + 1)
      /\ t[Len(s) + 1] = x /\ \A i \in 1..Len(s) : t[i] = s[i]
  BY AppendProperties
<1> HIDE DEF t
<1>2. ASSUME NEW y \in ToSet(t) PROVE y \in ToSet(s) \cup {x}
  BY <1>1 DEF ToSet
<1>3. ASSUME NEW y \in ToSet(s) PROVE y \in ToSet(t)
  <2>1. PICK i \in 1..Len(s) : s[i] = y
    BY <1>1 DEF ToSet
  <2>2. i \in DOMAIN t /\ t[i] = y
    BY <1>1, <2>1
  <2> QED BY <2>2 DEF ToSet
<1>4. x \in ToSet(t)
  <2>1. Len(s) + 1 \in DOMAIN t
    BY <1>1
  <2> QED BY <1>1, <2>1 DEF ToSet
<1> QED BY <1>1, <1>2, <1>3, <1>4 DEF t

LEMMA SetOfTwoMore ==
  ASSUME NEW S, NEW s \in Seq(S), NEW x \in S, NEW y \in S
  PROVE  /\ s \o <<x, y>> = Append(Append(s, x), y)
         /\ (s \o <<x, y>>) \in Seq(S) /\ ToSet(s \o <<x, y>>) = ToSet(s) \cup {x, y}
<1>1. s \o <<x, y>> = Append(Append(s, x), y)
  <2>1. <<x, y>> \in Seq(S) /\ Len(<<x, y>>) = 2 /\ <<x, y>>[1] = x /\ <<x, y>>[2] = y
    OBVIOUS
  <2>2. Append(s, x) \in Seq(S) /\ Len(Append(s, x)) = Len(s) + 1
    OBVIOUS
  <2> DEFINE u == s \o <<x, y>>
             v == Append(Append(s, x), y)
  <2>3. /\ u \in Seq(S) /\ v \in Seq(S) /\ Len(s) \in Nat
        /\ Len(u) = Len(s) + 2 /\ Len(v) = Len(s) + 2
    BY <2>1, <2>2, ConcatProperties
  <2>4. ASSUME NEW i \in 1..(Len(s) + 2) PROVE u[i] = v[i]
    <3>1. CASE i \in 1..Len(s)
      BY <2>2, <3>1
    <3>2. CASE i = Len(s) + 1
      BY <2>2, <2>3, <3>2
    <3>3. CASE i = Len(s) + 2
      BY <2>2, <2>3, <3>3
    <3> QED BY <2>3, <3>1, <3>2, <3>3
  <2> HIDE DEF u, v
  <2>5. u = v
    BY <2>3, <2>4, SeqEqual
  <2> QED BY <2>5 DEF u, v
<1>2. Append(s, x) \in Seq(S) /\ ToSet(Append(s, x)) = ToSet(s) \cup {x}
  BY SetOfAppend
<1> DEFINE t == Append(s, x)
<1>3. Append(t, y) \in Seq(S) /\ ToSet(Append(t, y)) = ToSet(t) \cup {y}
  <2>1. t \in Seq(S)
    BY <1>2
  <2> HIDE DEF t
  <2> QED BY <2>1, SetOfAppend
<1> QED BY <1>1, <1>2, <1>3

LEMMA Injective ==
  ASSUME NEW S, NEW s \in Seq(S), IsInjective(s)
  PROVE  /\ s # <<>> => IsInjective(Tail(s)) /\ Head(s) \notin ToSet(Tail(s))
         /\ \A x \in S \ ToSet(s) : IsInjective(Append(s, x))
<1>1. ASSUME s # <<>>
      PROVE  IsInjective(Tail(s)) /\ Head(s) \notin ToSet(Tail(s))
  <2> DEFINE t == Tail(s)
  <2>1. Len(s) \in Nat \ {0} /\ Head(s) = s[1] /\ DOMAIN s = 1..Len(s)
    BY <1>1, EmptySeq
  <2>2. DOMAIN t = 1..(Len(s) - 1) /\ \A i \in 1..(Len(s) - 1) : t[i] = s[i + 1]
    BY <1>1, HeadTailProperties
  <2> HIDE DEF t
  <2>3. \A i \in DOMAIN t : i + 1 \in DOMAIN s /\ i + 1 # 1 /\ t[i] = s[i + 1] /\ i \in Nat
    BY <2>1, <2>2
  <2>4. \A a, b \in DOMAIN s : s[a] = s[b] => a = b
    BY DEF IsInjective
  <2>5. \A a, b \in DOMAIN t : t[a] = t[b] => a = b
    BY <2>3, <2>4
  <2>6. Head(s) \notin ToSet(t)
    <3>1. 1 \in DOMAIN s
      BY <2>1
    <3> QED BY <2>1, <2>3, <2>4, <3>1 DEF ToSet
  <2> QED BY <2>5, <2>6 DEF t, IsInjective
<1>2. ASSUME NEW x \in S \ ToSet(s)
      PROVE  IsInjective(Append(s, x))
  <2> DEFINE t == Append(s, x)
  <2>1. /\ Len(s) \in Nat /\ DOMAIN s = 1..Len(s) /\ DOMAIN t = 1..(Len(s) + 1)
        /\ t[Len(s) + 1] = x /\ \A i \in 1..Len(s) : t[i] = s[i]
    BY AppendProperties
  <2> HIDE DEF t
  <2>2. \A a, b \in 1..Len(s) : s[a] = s[b] => a = b
    BY <2>1 DEF IsInjective
  <2>3. \A i \in 1..Len(s) : s[i] # x
    BY <1>2, <2>1 DEF ToSet
  <2>4. \A a \in DOMAIN t : a \in 1..Len(s) \/ a = Len(s) + 1
    BY <2>1
  <2>5. \A a, b \in DOMAIN t : t[a] = t[b] => a = b
    BY <2>1, <2>2, <2>3, <2>4
  <2> QED BY <2>5 DEF t, IsInjective
<1> QED BY <1>1, <1>2

LEMMA InjectiveOne == ASSUME NEW x PROVE IsInjective(<<x>>)
BY DEF IsInjective

-----------------------------------------------------------------------------
(* Types                                                                   *)

\* What run() takes next was waiting, and everything else stays.
LEMMA Dispatched ==
  ASSUME TypeOK, DispatchNext
  PROVE  /\ queue' \in Seq(Jobs) /\ columnJobs' \subseteq Jobs /\ running' \in Jobs \cup {NoJob}
         /\ ToSet(queue') \subseteq ToSet(queue) /\ columnJobs' \subseteq columnJobs
         /\ ToSet(queue) \cup columnJobs = ToSet(queue') \cup columnJobs' \cup ({running'} \ {NoJob})
         /\ \/ queue # <<>> /\ running' = Head(queue) /\ running' \in ToSet(queue) /\ queue' = Tail(queue)
            \/ running' \in columnJobs /\ queue' = queue /\ (queue # <<>> => Head(queue).kind = "rename")
            \/ running' = NoJob /\ queue' = <<>> /\ columnJobs' = {}
<1>1. queue \in Seq(Jobs) /\ columnJobs \subseteq Jobs /\ NoJob \notin Jobs
  BY JobsAssumption DEF TypeOK
<1>2. /\ ToSet(queue) \subseteq Jobs
      /\ queue # <<>> => /\ Head(queue) \in Jobs /\ Tail(queue) \in Seq(Jobs)
                         /\ ToSet(queue) = {Head(queue)} \cup ToSet(Tail(queue))
      /\ queue = <<>> => ToSet(queue) = {}
  BY <1>1, SetOfSeq
<1>3. CASE queue # <<>> /\ running' = Head(queue) /\ queue' = Tail(queue) /\ UNCHANGED columnJobs
  BY <1>1, <1>2, <1>3
<1>4. CASE /\ queue # <<>> => Head(queue).kind = "rename"
           /\ \E j \in columnJobs : running' = j /\ columnJobs' = columnJobs \ {j}
           /\ UNCHANGED queue
  BY <1>1, <1>2, <1>4
<1>5. CASE /\ queue = <<>> /\ columnJobs = {}
           /\ running' = NoJob /\ UNCHANGED <<queue, columnJobs>>
  BY <1>1, <1>2, <1>5
<1> QED BY <1>3, <1>4, <1>5 DEF DispatchNext

LEMMA RecordFacts ==
  /\ \A j \in Jobs : /\ j.call \in Calls /\ j.kind \in JobKinds /\ j.query \in Queries \cup {NoQuery}
                     /\ j.name \in Names /\ j.to \in Names
  /\ \A r \in Results : /\ r.job \in Jobs /\ r.res \in {"ok", "fail", "empty", "cancelled"}
                        /\ r.got \in Queries \cup {NoQuery}
BY DEF Jobs, Results

\* A job that continues another one.
LEMMA NextJob ==
  ASSUME NEW j \in Jobs, NEW kind \in JobKinds
  PROVE  LET i == [j EXCEPT !.kind = kind] IN
         i \in Jobs /\ i.call = j.call /\ i.kind = kind /\ i.query = j.query /\ i.name = j.name
BY DEF Jobs

LEMMA NewJob ==
  ASSUME NEW c \in Calls, NEW kind \in JobKinds, NEW q \in Queries \cup {NoQuery}, NEW n \in Names,
         NEW to \in Names
  PROVE  LET j == Job(c, kind, q, n, to) IN
         j \in Jobs /\ j.call = c /\ j.kind = kind /\ j.query = q /\ j.name = n
BY DEF Jobs, Job

\* The parallel part of a query: its preview, its cardinality and its columns.
LEMMA ColumnsFacts ==
  /\ \A q \in Queries \cup {NoQuery} : ColumnsOf(q) \subseteq ColumnNames
  /\ ColumnNames \subseteq PartKinds /\ {"preview", "cardinality"} \subseteq PartKinds
  /\ PartKinds \subseteq JobKinds
  /\ {"validate", "view", "columns", "copyPreview", "rename"} \cap PartKinds = {}
BY ColumnsAssumption DEF ColumnsOf, PartKinds, JobKinds

LEMMA DroppedTypes ==
  ASSUME TypeOK
  PROVE  /\ Dropped \subseteq Jobs /\ Dropped = ToSet(queue) \cup (Dropped \cap columnJobs)
         /\ Cancelled(Dropped) \subseteq Results
         /\ \A r \in Cancelled(Dropped) : r.job \in Dropped /\ r.res = "cancelled"
         /\ \A j \in Dropped : \E r \in Cancelled(Dropped) : r.job = j
<1>1. ToSet(queue) \subseteq Jobs /\ columnJobs \subseteq Jobs
  BY SetOfSeq DEF TypeOK
<1>2. Dropped \subseteq Jobs
  BY <1>1 DEF Dropped
<1>3. Dropped = ToSet(queue) \cup (Dropped \cap columnJobs)
  BY DEF Dropped
<1>4. \A r \in Cancelled(Dropped) : r \in Results /\ r.job \in Dropped /\ r.res = "cancelled"
  BY <1>2 DEF Cancelled, Results
<1>5. ASSUME NEW j \in Dropped PROVE \E r \in Cancelled(Dropped) : r.job = j
  <2> DEFINE r == [job |-> j, res |-> "cancelled", got |-> NoQuery]
  <2>1. r \in Cancelled(Dropped) /\ r.job = j
    BY DEF Cancelled
  <2> QED BY <2>1
<1> QED BY <1>2, <1>3, <1>4, <1>5

LEMMA AnswerTypes == \A j : Answer(j) \in {"ok", "fail", "empty"}
BY DEF Answer

LEMMA InitType == Init => TypeOK
<1> SUFFICES ASSUME Init PROVE TypeOK
  OBVIOUS
<1>1. model \in ModelRecords
  BY QueriesAssumption, NamesAssumption DEF Init, ModelRecords
<1>2. parts \in [Calls -> SUBSET PartKinds] /\ pc \in [Calls -> {"none", "busy", "done"}]
  BY DEF Init
<1>3. view \in [Names -> Queries \cup {NoQuery}] /\ queue \in Seq(Jobs) /\ columnJobs \subseteq Jobs
  BY DEF Init
<1>4. /\ running = NoJob /\ settled = {} /\ arrived = 0 /\ renamed = FALSE /\ late = FALSE
      /\ current = 0
  BY DEF Init
<1>5. arrived \in 0..MaxCalls /\ current \in 0..MaxCalls
  BY <1>4, MaxCallsAssumption
<1> QED BY <1>1, <1>2, <1>3, <1>4, <1>5 DEF TypeOK

\* What a request may do.
LEMMA RequestTypes ==
  ASSUME TypeOK, NEW c \in Calls, Request(c)
  PROVE  TypeOK'
<1>1. /\ model \in ModelRecords /\ model.name \in Names /\ arrived' = c /\ view' = view /\ running' = running
      /\ parts' = parts
  BY DEF TypeOK, ModelRecords, Request, UpdateModelName, UpdateModelQuery, UpdateUnchanged, DeleteModel, Arrive
<1>2. c \in 0..MaxCalls
  BY MaxCallsAssumption DEF Calls
<1>3. columnJobs' \subseteq columnJobs /\ pc' \in [Calls -> {"none", "busy", "done"}]
  BY DEF TypeOK, Request, UpdateModelName, UpdateModelQuery, UpdateUnchanged, DeleteModel, ReplaceJobs, PcIs
<1>4. settled' = settled \/ settled' = Cancelled(Dropped)
  BY DEF Request, UpdateModelName, UpdateModelQuery, UpdateUnchanged, DeleteModel
<1>5. queue' \in Seq(Jobs)
  <2>1. ASSUME NEW n \in Names, UpdateModelName(c, n) PROVE queue' \in Seq(Jobs)
    <3>1. Job(c, "rename", NoQuery, model.name, n) \in Jobs
      BY <1>1, NewJob DEF JobKinds
    <3> QED BY <2>1, <3>1 DEF UpdateModelName, TypeOK
  <2>2. ASSUME NEW q \in Queries, UpdateModelQuery(c, q) PROVE queue' \in Seq(Jobs)
    <3>1. Job(c, "validate", q, model.name, model.name) \in Jobs
      BY <1>1, NewJob DEF JobKinds
    <3> DEFINE j == Job(c, "validate", q, model.name, model.name)
    <3>2. queue' = <<j>> \/ queue' = <<>>
      BY <2>2 DEF UpdateModelQuery, ReplaceJobs
    <3> HIDE DEF j
    <3>3. <<j>> \in Seq(Jobs) /\ <<>> \in Seq(Jobs)
      BY <3>1 DEF j
    <3> QED BY <3>2, <3>3, Zenon
  <2>3. ASSUME UpdateUnchanged(c) \/ DeleteModel(c) PROVE queue' \in Seq(Jobs)
    <3>1. queue' = queue \/ queue' = <<>>
      BY <2>3 DEF UpdateUnchanged, DeleteModel, ReplaceJobs
    <3>2. queue \in Seq(Jobs) /\ <<>> \in Seq(Jobs)
      BY DEF TypeOK
    <3> QED BY <3>1, <3>2, Zenon
  <2> QED BY <2>1, <2>2, <2>3 DEF Request
<1>6. model' \in ModelRecords
  <2>1. CASE \E n \in Names : UpdateModelName(c, n)
    BY <1>1, <2>1 DEF UpdateModelName
  <2>2. CASE (\E q \in Queries : UpdateModelQuery(c, q)) \/ UpdateUnchanged(c)
    BY <1>1, <2>2, ZenonT(60) DEF UpdateModelQuery, UpdateUnchanged, ModelRecords, StatusAfter
  <2>3. CASE DeleteModel(c)
    <3>1. model' = [model EXCEPT !.listed = FALSE, !.exists = late] /\ late \in BOOLEAN
      BY <2>3 DEF DeleteModel, TypeOK
    <3> QED BY <1>1, <3>1 DEF ModelRecords
  <2> QED BY <2>1, <2>2, <2>3 DEF Request
<1>7. renamed' \in BOOLEAN /\ late' \in BOOLEAN /\ current' \in 0..MaxCalls
  <2>1. renamed' \in BOOLEAN /\ late' \in BOOLEAN
    BY DEF Request, UpdateModelName, UpdateModelQuery, UpdateUnchanged, DeleteModel, TypeOK
  <2>2. current' = 0 \/ current' = c \/ current' = current
    BY DEF Request, UpdateModelName, UpdateModelQuery, UpdateUnchanged, DeleteModel
  <2>3. 0 \in 0..MaxCalls /\ current \in 0..MaxCalls
    BY MaxCallsAssumption DEF TypeOK
  <2> QED BY <1>2, <2>1, <2>2, <2>3
<1> QED BY <1>1, <1>2, <1>3, <1>4, <1>5, <1>6, <1>7, DroppedTypes DEF TypeOK

LEMMA CompleteTypes ==
  ASSUME TypeOK, Complete, UNCHANGED <<renamed, current>>
  PROVE  TypeOK'
<1>1. running \in Jobs /\ DispatchNext
  BY DEF TypeOK, Complete, RunGoesOn
<1>2. settled' \subseteq Results
  <2>1. view[running.name] \in Queries \cup {NoQuery}
    BY <1>1, RecordFacts DEF TypeOK
  <2> QED BY <1>1, <2>1, AnswerTypes DEF Complete, Results
<1>3. view' \in [Names -> Queries \cup {NoQuery}]
  <2>1. running.kind = "view" /\ Answer(running) = "ok" => running.query \in Queries \cup {NoQuery}
    BY <1>1, RecordFacts
  <2> QED BY <1>1, <2>1, RecordFacts DEF Complete, TypeOK
<1> QED BY <1>1, <1>2, <1>3, Dispatched DEF TypeOK, Complete

LEMMA ContinueTypes ==
  ASSUME TypeOK, NEW r \in settled, Continue(r), renamed' = renamed
  PROVE  TypeOK'
<1>1. /\ r \in Results /\ r.job \in Jobs /\ r.job.call \in Calls /\ r.got \in Queries \cup {NoQuery}
      /\ model \in ModelRecords /\ r.job.to \in Names /\ r.job.query \in Queries \cup {NoQuery}
      /\ model.name \in Names /\ model.query \in Queries
  BY RecordFacts DEF TypeOK, ModelRecords
<1>2. view' = view /\ running' = running /\ arrived' = arrived
  BY DEF Continue, ModelGone, BrokenOff, QueryError, EmptyQuery, CollectModelInfo, ViewCreated, ColumnsKnown,
         CopyPreview, Part, Renamed, Resume
<1>3. settled' \subseteq Results
  BY DroppedTypes DEF TypeOK, Continue, ModelGone, BrokenOff, QueryError, EmptyQuery, CollectModelInfo,
         ViewCreated, ColumnsKnown, CopyPreview, Part, Renamed, Resumed
<1>4. pc' \in [Calls -> {"none", "busy", "done"}]
  BY <1>1 DEF TypeOK, Continue, ModelGone, BrokenOff, QueryError, EmptyQuery, CollectModelInfo, ViewCreated,
         ColumnsKnown, NoTable, CopyProfile, Profile, CopyPreview, Part, Renamed, PcIs
<1>5. parts' \in [Calls -> SUBSET PartKinds]
  <2>1. {"preview", "cardinality"} \cup ColumnsOf(r.got) \subseteq PartKinds
    BY <1>1, ColumnsFacts
  <2>2. StillAwaited(r) \subseteq PartKinds
    BY <1>1 DEF StillAwaited, TypeOK
  <2> HIDE DEF PartKinds
  <2>3. CASE ModelGone(r) \/ Part(r)
    BY <1>1, <2>2, <2>3 DEF TypeOK, ModelGone, Part
  <2>4. CASE ColumnsKnown(r)
    BY <1>1, <2>1, <2>4 DEF TypeOK, ColumnsKnown, NoTable, CopyProfile, Profile
  <2>5. CASE parts' = parts
    BY <2>5 DEF TypeOK
  <2> QED BY <2>3, <2>4, <2>5 DEF Continue, BrokenOff, QueryError, EmptyQuery, CollectModelInfo, ViewCreated,
         CopyPreview, Renamed
<1>6. queue' \in Seq(Jobs) /\ columnJobs' \subseteq Jobs
  <2>1. CASE CollectModelInfo(r)
    <3>1. Job(r.job.call, "view", model.query, model.name, model.name) \in Jobs
      BY <1>1, NewJob DEF JobKinds
    <3> DEFINE j == Job(r.job.call, "view", model.query, model.name, model.name)
    <3>2. /\ queue' = queue \/ queue' = <<j>> \/ queue' = <<>>
          /\ columnJobs' \subseteq columnJobs
      BY <2>1 DEF CollectModelInfo, ReplaceJobs
    <3> HIDE DEF j
    <3>3. j \in Jobs
      BY <3>1 DEF j
    <3>4. queue \in Seq(Jobs) /\ columnJobs \subseteq Jobs /\ <<j>> \in Seq(Jobs) /\ <<>> \in Seq(Jobs)
      BY <3>3 DEF TypeOK
    <3> QED BY <3>2, <3>4, Zenon
  <2>2. CASE ViewCreated(r)
    <3>1. [r.job EXCEPT !.kind = "columns"] \in Jobs
      BY <1>1, NextJob DEF JobKinds
    <3> QED BY <2>2, <3>1 DEF ViewCreated, TypeOK
  <2>3. CASE ColumnsKnown(r)
    <3> DEFINE As(kind) == [r.job EXCEPT !.kind = kind]
    <3>1. \A kind \in JobKinds : As(kind) \in Jobs
      BY <1>1, NextJob
    <3>2. As("copyPreview") \in Jobs /\ As("preview") \in Jobs /\ As("cardinality") \in Jobs
      BY <3>1 DEF JobKinds, PartKinds
    <3>3. {As(column) : column \in ColumnsOf(r.got)} \subseteq Jobs
      BY <1>1, <3>1, ColumnsFacts DEF JobKinds
    <3>4. /\ Append(queue, As("copyPreview")) \in Seq(Jobs)
          /\ (queue \o <<As("preview"), As("cardinality")>>) \in Seq(Jobs)
      BY <3>2, SetOfAppend, SetOfTwoMore DEF TypeOK
    <3> DEFINE more == {As(column) : column \in ColumnsOf(r.got)}
    <3>5. \/ queue' = queue /\ columnJobs' = columnJobs
          \/ queue' = Append(queue, As("copyPreview")) /\ columnJobs' = columnJobs
          \/ queue' = queue \o <<As("preview"), As("cardinality")>> /\ columnJobs' = columnJobs \cup more
      BY <2>3, ZenonT(30) DEF ColumnsKnown, NoTable, CopyProfile, Profile
    <3>6. more \subseteq Jobs
      BY <3>3
    <3> HIDE DEF As, more
    <3> QED BY <3>4, <3>5, <3>6 DEF TypeOK
  <2>4. CASE UNCHANGED <<queue, columnJobs>>
    BY <2>4 DEF TypeOK
  <2> QED BY <2>1, <2>2, <2>3, <2>4
          DEF Continue, ModelGone, BrokenOff, QueryError, EmptyQuery, CopyPreview, Part, Renamed
<1>7. model' \in ModelRecords
  <2>1. CASE ModelGone(r)
    BY <1>1, <2>1 DEF ModelGone
  <2>2. CASE BrokenOff(r) \/ QueryError(r) \/ EmptyQuery(r) \/ ViewCreated(r)
    BY <1>1, <2>2, ZenonT(60) DEF BrokenOff, QueryError, EmptyQuery, ViewCreated, ModelRecords, StatusAfter
  <2>3. CASE CollectModelInfo(r)
    BY <1>1, <2>3, ZenonT(60) DEF CollectModelInfo, ModelRecords, StatusAfter
  <2>4. CASE ColumnsKnown(r)
    BY <1>1, <2>4, ZenonT(60)
       DEF ColumnsKnown, NoTable, CopyProfile, Profile, ModelRecords, ErrorAfterColumns, StatusAfter
  <2>5. CASE CopyPreview(r) \/ Renamed(r)
    BY <1>1, <2>5, ZenonT(60) DEF CopyPreview, Renamed, ModelRecords, StatusAfter
  <2>6. CASE Part(r)
    <3>1. \E shown, error \in Queries \cup {NoQuery}, whole, over \in BOOLEAN :
            model' = [model EXCEPT !.preview = shown, !.error = error,
                                   !.profiled = @ \/ whole,
                                   !.status = IF over THEN StatusAfter ELSE @]
      <4>1. model.preview \in Queries \cup {NoQuery} /\ model.error \in Queries \cup {NoQuery}
        BY <1>1 DEF ModelRecords
      <4> QED BY <1>1, <2>6, <4>1, ZenonT(60) DEF Part
    <3>2. PICK shown, error \in Queries \cup {NoQuery}, whole, over \in BOOLEAN :
            model' = [model EXCEPT !.preview = shown, !.error = error,
                                   !.profiled = @ \/ whole,
                                   !.status = IF over THEN StatusAfter ELSE @]
      BY <3>1
    <3>3. /\ (model.profiled \/ whole) \in BOOLEAN
          /\ (IF over THEN "Idle" ELSE model.status) \in {"Idle", "Validating", "Profiling"}
      BY <1>1 DEF ModelRecords
    <3> QED BY <1>1, <3>2, <3>3, ZenonT(60) DEF ModelRecords, StatusAfter
  <2> QED BY <2>1, <2>2, <2>3, <2>4, <2>5, <2>6 DEF Continue
<1>8. late' \in BOOLEAN /\ current' \in 0..MaxCalls
  <2>1. late' \in BOOLEAN
    BY DEF TypeOK, Continue, ModelGone, BrokenOff, QueryError, EmptyQuery, CollectModelInfo, ViewCreated,
           ColumnsKnown, CopyPreview, Part, Renamed, Updates
  <2>2. current' = 0 \/ current' = current
    BY DEF Continue, ModelGone, BrokenOff, QueryError, EmptyQuery, CollectModelInfo, ViewCreated,
           ColumnsKnown, CopyPreview, Part, Renamed, Updates
  <2> QED BY <2>1, <2>2, MaxCallsAssumption DEF TypeOK
<1> QED BY <1>2, <1>3, <1>4, <1>5, <1>6, <1>7, <1>8 DEF TypeOK

LEMMA TypeStep == TypeOK /\ [Next]_vars => TypeOK'
<1> SUFFICES ASSUME TypeOK, [Next]_vars PROVE TypeOK'
  OBVIOUS
<1>1. CASE StartRun /\ UNCHANGED <<renamed, current>>
  <2>1. DispatchNext
    BY <1>1 DEF StartRun
  <2> QED BY <1>1, <2>1, Dispatched DEF StartRun, TypeOK
<1>2. CASE OtherBatch /\ UNCHANGED <<renamed, current>>
  BY <1>2 DEF OtherBatch, TypeOK
<1>3. CASE UNCHANGED vars
  BY <1>3 DEF vars, state, TypeOK
<1> QED BY <1>1, <1>2, <1>3, CompleteTypes, ContinueTypes, RequestTypes DEF Next

-----------------------------------------------------------------------------
(* What is pending                                                         *)

LEMMA PendingFacts ==
  ASSUME TypeOK
  PROVE  /\ Pending \subseteq Jobs /\ ToSet(queue) \subseteq Pending /\ columnJobs \subseteq Pending
         /\ running # NoJob => running \in Pending /\ running \in Jobs
         /\ \A r \in settled : r.job \in Pending /\ r \in Results
         /\ \A j \in Pending : /\ j.call \in Calls /\ j.kind \in JobKinds /\ j.name \in Names
                               /\ \/ j \in ToSet(queue) \cup columnJobs
                                  \/ running # NoJob /\ running = j
                                  \/ \E r \in settled : r.job = j
<1>1. ToSet(queue) \subseteq Jobs
  BY SetOfSeq DEF TypeOK
<1>2. Pending \subseteq Jobs
  BY <1>1, RecordFacts DEF TypeOK, Pending
<1> QED BY <1>2, RecordFacts DEF TypeOK, Pending

\* Starting a job and completing one take nothing away.
LEMMA DispatchedOnce ==
  ASSUME TypeOK, OnePlace, DispatchNext
  PROVE  /\ IsInjective(queue') /\ ToSet(queue') \cap columnJobs' = {}
         /\ running' \notin ToSet(queue') \cup columnJobs'
<1>1. queue \in Seq(Jobs) /\ columnJobs \subseteq Jobs /\ NoJob \notin Jobs
  BY JobsAssumption DEF TypeOK
<1>2. IsInjective(queue) /\ ToSet(queue) \cap columnJobs = {}
  BY DEF OnePlace
<1>3. queue # <<>> => /\ IsInjective(Tail(queue)) /\ Head(queue) \notin ToSet(Tail(queue))
                      /\ Head(queue) \in ToSet(queue) /\ ToSet(Tail(queue)) \subseteq ToSet(queue)
  BY <1>1, <1>2, Injective, SetOfSeq
<1>4. CASE queue # <<>> /\ running' = Head(queue) /\ queue' = Tail(queue) /\ UNCHANGED columnJobs
  BY <1>2, <1>3, <1>4
<1>5. CASE /\ \E j \in columnJobs : running' = j /\ columnJobs' = columnJobs \ {j}
           /\ UNCHANGED queue
  BY <1>2, <1>5
<1>6. CASE /\ queue = <<>> /\ columnJobs = {}
           /\ running' = NoJob /\ UNCHANGED <<queue, columnJobs>>
  <2>1. ToSet(queue) = {}
    BY <1>1, <1>6, SetOfSeq
  <2> QED BY <1>2, <1>6, <2>1
<1> QED BY <1>4, <1>5, <1>6 DEF DispatchNext

LEMMA StartMoves ==
  ASSUME TypeOK, OnePlace, StartRun
  PROVE  /\ settled = {} /\ settled' = {} /\ running = NoJob /\ Pending' = Pending /\ DispatchNext
         /\ UNCHANGED <<model, view, arrived, pc, parts>>
         /\ OnePlace'
<1>1. DispatchNext /\ settled = {} /\ settled' = {} /\ running = NoJob /\ UNCHANGED <<model, view, arrived, pc, parts>>
  BY DEF StartRun, Calm
<1>2. ToSet(queue) \cup columnJobs = ToSet(queue') \cup columnJobs' \cup ({running'} \ {NoJob})
  BY <1>1, Dispatched
<1>3. OnePlace'
  BY <1>1, DispatchedOnce DEF OnePlace
<1> QED BY <1>1, <1>2, <1>3 DEF Pending

LEMMA CompleteMoves ==
  ASSUME TypeOK, OnePlace, Complete
  PROVE  /\ settled = {} /\ running # NoJob /\ Pending' = Pending /\ DispatchNext
         /\ \E r \in Results : /\ settled' = {r} /\ r.job = running /\ r.res = Answer(running)
                               /\ r.got = view[running.name]
         /\ UNCHANGED <<model, arrived, pc, parts>>
         /\ OnePlace'
<1> DEFINE r == [job |-> running, res |-> Answer(running), got |-> view[running.name]]
<1>1. /\ DispatchNext /\ settled = {} /\ settled' = {r} /\ running # NoJob /\ UNCHANGED <<model, arrived, pc, parts>>
  BY DEF Complete, Calm, RunGoesOn
<1>2. /\ ToSet(queue) \cup columnJobs = ToSet(queue') \cup columnJobs' \cup ({running'} \ {NoJob})
      /\ ToSet(queue') \subseteq ToSet(queue) /\ columnJobs' \subseteq columnJobs
  BY <1>1, Dispatched
<1>3. r \in Results
  <2>1. running \in Jobs /\ view[running.name] \in Queries \cup {NoQuery}
    BY <1>1, RecordFacts DEF TypeOK
  <2> QED BY <2>1, AnswerTypes DEF Results
<1>4. r.job = running /\ r.res = Answer(running) /\ r.got = view[running.name]
  OBVIOUS
<1> HIDE DEF r
<1>5. {x.job : x \in settled'} = {running} /\ {x.job : x \in settled} = {}
  BY <1>1, <1>4
<1>6. Pending' = Pending
  BY <1>1, <1>2, <1>5 DEF Pending
<1>7. running \notin ToSet(queue) \cup columnJobs
  BY DEF OnePlace
<1>8. running \notin ToSet(queue') \cup columnJobs' \cup {running'}
  BY <1>1, <1>2, <1>7
<1>9. OnePlace'
  BY <1>1, <1>4, <1>8, DispatchedOnce DEF OnePlace
<1> QED BY <1>1, <1>3, <1>4, <1>6, <1>9

\* When a call goes on, the job it goes on from leaves, and others of the
\* call may come.
LEMMA PlainMoves ==
  ASSUME TypeOK, OnePlace, NEW r \in settled, UNCHANGED <<queue, columnJobs, running>>, settled' = settled \ {r}
  PROVE  Pending' = Pending \ {r.job} /\ OnePlace'
<1>1. \A x \in settled : x # r => x.job # r.job
  BY DEF OnePlace
<1>2. {x.job : x \in settled'} = {x.job : x \in settled} \ {r.job}
  BY <1>1
<1>3. r.job \notin ToSet(queue) \cup columnJobs \cup {running}
  BY DEF OnePlace
<1>4. Pending' = Pending \ {r.job}
  BY <1>2, <1>3 DEF Pending
<1>5. OnePlace'
  BY DEF OnePlace
<1> QED BY <1>4, <1>5

\* The queue is emptied into Dropped, and the jobs s are enqueued.
LEMMA ReplaceMoves ==
  ASSUME TypeOK, OnePlace, NEW s \in Seq(Jobs), IsInjective(s), ToSet(s) \cap Pending = {},
         queue' = s, columnJobs' = columnJobs \ Dropped, running' = running,
         NEW kept \in SUBSET settled, settled' = kept \cup Cancelled(Dropped)
  PROVE  /\ Pending' = (Pending \ {r.job : r \in settled \ kept}) \cup ToSet(s)
         /\ OnePlace'
<1>1. /\ \A r \in Cancelled(Dropped) : r.job \in Dropped /\ r = [job |-> r.job, res |-> "cancelled", got |-> NoQuery]
      /\ {r.job : r \in Cancelled(Dropped)} = Dropped
      /\ Dropped \subseteq ToSet(queue) \cup columnJobs /\ ToSet(queue) \subseteq Dropped
  <2>1. Dropped \subseteq ToSet(queue) \cup columnJobs /\ ToSet(queue) \subseteq Dropped
    BY DEF Dropped
  <2>2. \A r \in Cancelled(Dropped) : r.job \in Dropped /\ r = [job |-> r.job, res |-> "cancelled", got |-> NoQuery]
    BY DEF Cancelled
  <2>3. \A j \in Dropped : \E r \in Cancelled(Dropped) : r.job = j
    BY DroppedTypes
  <2> QED BY <2>1, <2>2, <2>3
<1>2. /\ \A r \in settled : r.job \notin ToSet(queue) \cup columnJobs \cup {running}
      /\ \A r, x \in settled : r.job = x.job => r = x
      /\ running \notin ToSet(queue) \cup columnJobs
  BY DEF OnePlace
<1>3. {r.job : r \in kept} = {r.job : r \in settled} \ {r.job : r \in settled \ kept}
  BY <1>2
<1>4. {r.job : r \in settled'} = {r.job : r \in kept} \cup Dropped
  BY <1>1
<1>5. {r.job : r \in settled \ kept} \cap (ToSet(queue) \cup columnJobs \cup {running}) = {}
  BY <1>2
<1>6. Pending' = (Pending \ {r.job : r \in settled \ kept}) \cup ToSet(s)
  BY <1>1, <1>3, <1>4, <1>5 DEF Pending
<1>7. \A r \in settled : r.job \in Pending
  BY DEF Pending
<1>8. columnJobs \subseteq Pending /\ ToSet(queue) \subseteq Pending
  BY DEF Pending
<1>9. running \notin ToSet(s)
  BY SetOfSeq, JobsAssumption DEF Pending, TypeOK
<1>10. OnePlace'
  <2>1. ToSet(queue') \cap columnJobs' = {}
    BY <1>8
  <2>2. running' \notin ToSet(queue') \cup columnJobs'
    BY <1>2, <1>9
  <2>3. ASSUME NEW x \in settled' PROVE x.job \notin ToSet(queue') \cup columnJobs' \cup {running'}
    <3>1. CASE x \in kept
      BY <1>2, <1>7, <3>1
    <3>2. CASE x \in Cancelled(Dropped)
      <4>1. x.job \in Dropped
        BY <1>1, <3>2
      <4> QED BY <1>1, <1>2, <1>8, <4>1
    <3> QED BY <3>1, <3>2
  <2>4. ASSUME NEW x \in settled', NEW y \in settled', x.job = y.job PROVE x = y
    <3>1. CASE x \in kept /\ y \in kept
      BY <1>2, <2>4, <3>1
    <3>2. CASE x \in Cancelled(Dropped) /\ y \in Cancelled(Dropped)
      BY <1>1, <2>4, <3>2
    <3>3. \A z \in kept, w \in Cancelled(Dropped) : z.job # w.job
      BY <1>1, <1>2
    <3> QED BY <2>4, <3>1, <3>2, <3>3
  <2> QED BY <2>1, <2>2, <2>3, <2>4 DEF OnePlace
<1> QED BY <1>6, <1>10

\* New jobs are enqueued behind the others.
LEMMA EnqueueMoves ==
  ASSUME TypeOK, OnePlace, NEW kept \in SUBSET settled, settled' = kept, running' = running,
         NEW new \in SUBSET (Jobs \ Pending), NEW more \in SUBSET (Jobs \ Pending), new \cap more = {},
         IsInjective(queue'), ToSet(queue') = ToSet(queue) \cup new, columnJobs' = columnJobs \cup more
  PROVE  /\ Pending' = (Pending \ {r.job : r \in settled \ kept}) \cup (new \cup more)
         /\ OnePlace'
<1>1. /\ \A r \in settled : r.job \notin ToSet(queue) \cup columnJobs \cup {running}
      /\ \A r, x \in settled : r.job = x.job => r = x
      /\ running \notin ToSet(queue) \cup columnJobs
      /\ ToSet(queue) \cap columnJobs = {}
  BY DEF OnePlace
<1>2. {r.job : r \in kept} = {r.job : r \in settled} \ {r.job : r \in settled \ kept}
  BY <1>1
<1>3. {r.job : r \in settled \ kept} \cap (ToSet(queue) \cup columnJobs \cup {running}) = {}
  BY <1>1
<1>4. Pending' = (Pending \ {r.job : r \in settled \ kept}) \cup (new \cup more)
  BY <1>2, <1>3 DEF Pending
<1>5. /\ ToSet(queue) \subseteq Pending /\ columnJobs \subseteq Pending /\ \A r \in settled : r.job \in Pending
      /\ running = NoJob \/ running \in Pending
  BY DEF Pending
<1>6. running \notin new \cup more
  BY <1>5, JobsAssumption
<1>7. OnePlace'
  BY <1>1, <1>5, <1>6 DEF OnePlace
<1> QED BY <1>4, <1>7

\* A validated call starts over with the query the model has now.
LEMMA CollectMoves ==
  ASSUME TypeOK, OnePlace, Exclusive, NEW r \in settled, CollectModelInfo(r), model.query # Empty,
         model.listed
  PROVE  LET j == Job(r.job.call, "view", model.query, model.name, model.name) IN
         /\ j \in Jobs /\ j.call = r.job.call /\ j.kind = "view" /\ j.query = model.query /\ j.name = model.name
         /\ ToSet(queue') = {j} /\ columnJobs' = columnJobs \ Dropped
         /\ settled' = (settled \ {r}) \cup Cancelled(Dropped)
         /\ Pending' = (Pending \ {r.job}) \cup {j}
         /\ OnePlace'
<1> DEFINE j == Job(r.job.call, "view", model.query, model.name, model.name)
<1>1. j \in Jobs /\ j.call = r.job.call /\ j.kind = "view" /\ j.query = model.query /\ j.name = model.name
  <2>1. /\ r.job.call \in Calls /\ model.query \in Queries \cup {NoQuery} /\ model.name \in Names
        /\ "view" \in JobKinds
    BY RecordFacts DEF TypeOK, ModelRecords, JobKinds
  <2> QED BY <2>1 DEF Jobs, Job
<1>2. /\ queue' = <<j>> /\ columnJobs' = columnJobs \ Dropped /\ running' = running
      /\ settled' = (settled \ {r}) \cup Cancelled(Dropped) /\ r.job.kind = "validate"
  BY DEF CollectModelInfo, ReplaceJobs, Resume, Resumed
<1> HIDE DEF j
<1>3. ToSet(<<j>>) = {j} /\ <<j>> \in Seq(Jobs) /\ IsInjective(<<j>>)
  BY <1>1, SetOfOne, InjectiveOne
<1>4. j \notin Pending
  <2>1. r.job \in Pending /\ r.job.kind \notin PartKinds
    BY <1>2, ColumnsFacts DEF Pending
  <2> QED BY <1>1, <1>2, <2>1 DEF Exclusive
<1>5. (settled \ {r}) \in SUBSET settled /\ {x.job : x \in settled \ (settled \ {r})} = {r.job}
  OBVIOUS
<1>6. /\ Pending' = (Pending \ {x.job : x \in settled \ (settled \ {r})}) \cup ToSet(<<j>>)
      /\ OnePlace'
  BY <1>2, <1>3, <1>4, <1>5, ReplaceMoves
<1> QED BY <1>1, <1>2, <1>3, <1>5, <1>6 DEF j

\* Without the persistent entity it only empties the queue.
LEMMA EmptiedMoves ==
  ASSUME TypeOK, OnePlace, queue' = <<>>, columnJobs' = columnJobs \ Dropped,
         running' = running, NEW kept \in SUBSET settled, settled' = kept \cup Cancelled(Dropped)
  PROVE  /\ ToSet(queue') = {} /\ OnePlace'
         /\ Pending' = Pending \ {x.job : x \in settled \ kept}
<1> DEFINE s == <<>>
<1>1. s \in Seq(Jobs) /\ IsInjective(s) /\ ToSet(s) = {} /\ queue' = s
  BY DEF ToSet, IsInjective
<1> HIDE DEF s
<1>2. Pending' = (Pending \ {x.job : x \in settled \ kept}) \cup ToSet(s) /\ OnePlace'
  BY <1>1, ReplaceMoves
<1> QED BY <1>1, <1>2

LEMMA ViewMoves ==
  ASSUME TypeOK, OnePlace, Exclusive, NEW r \in settled, ViewCreated(r)
  PROVE  LET j == [r.job EXCEPT !.kind = "columns"] IN
         /\ j \in Jobs /\ j.call = r.job.call /\ j.kind = "columns" /\ j.name = r.job.name
         /\ ToSet(queue') = ToSet(queue) \cup {j} /\ columnJobs' = columnJobs /\ settled' = settled \ {r}
         /\ Pending' = (Pending \ {r.job}) \cup {j}
         /\ OnePlace'
<1> DEFINE j == [r.job EXCEPT !.kind = "columns"]
<1>1. j \in Jobs /\ j.call = r.job.call /\ j.kind = "columns" /\ j.name = r.job.name
  <2>1. r.job \in Jobs /\ "columns" \in JobKinds
    BY RecordFacts DEF TypeOK, JobKinds
  <2> QED BY <2>1, NextJob
<1>2. /\ queue' = Append(queue, j) /\ columnJobs' = columnJobs /\ running' = running /\ settled' = settled \ {r}
      /\ r.job.kind = "view"
  BY DEF ViewCreated, Resume, Resumed
<1> HIDE DEF j
<1>3. queue \in Seq(Jobs) /\ IsInjective(queue) /\ ToSet(queue) \subseteq Pending
  BY DEF TypeOK, OnePlace, Pending
<1>4. j \notin Pending
  <2>1. r.job \in Pending /\ r.job.kind \notin PartKinds
    BY <1>2, ColumnsFacts DEF Pending
  <2> QED BY <1>1, <1>2, <2>1 DEF Exclusive
<1>5. ToSet(queue') = ToSet(queue) \cup {j} /\ IsInjective(queue')
  <2>1. ToSet(Append(queue, j)) = ToSet(queue) \cup {j}
    BY <1>1, <1>3, SetOfAppend
  <2>2. j \in Jobs \ ToSet(queue)
    BY <1>1, <1>3, <1>4
  <2> QED BY <1>2, <1>3, <2>1, <2>2, Injective
<1>6. Pending' = (Pending \ {r.job}) \cup {j} /\ OnePlace'
  <2> DEFINE kept == settled \ {r}
             new  == {j}
             more == {}
  <2>1. /\ kept \in SUBSET settled /\ settled' = kept /\ {x.job : x \in settled \ kept} = {r.job}
        /\ new \in SUBSET (Jobs \ Pending) /\ more \in SUBSET (Jobs \ Pending) /\ new \cap more = {}
        /\ ToSet(queue') = ToSet(queue) \cup new /\ columnJobs' = columnJobs \cup more
        /\ new \cup more = {j}
    BY <1>1, <1>2, <1>4, <1>5
  <2> HIDE DEF kept, new, more
  <2>2. Pending' = (Pending \ {x.job : x \in settled \ kept}) \cup (new \cup more) /\ OnePlace'
    BY <1>2, <1>5, <2>1, EnqueueMoves
  <2> QED BY <2>1, <2>2
<1> QED BY <1>1, <1>2, <1>5, <1>6 DEF j

\* The job that follows the columns of a copied profile.
LEMMA CopyMoves ==
  ASSUME TypeOK, OnePlace, Exclusive, NEW r \in settled, ColumnsKnown(r), CopyProfile(r)
  PROVE  \E j \in Jobs :
           /\ j.call = r.job.call /\ j.name = r.job.name /\ j.kind = "copyPreview"
           /\ settled' = settled \ {r} /\ parts' = parts
           /\ ToSet(queue') = ToSet(queue) \cup {j} /\ columnJobs' = columnJobs
           /\ Pending' = (Pending \ {r.job}) \cup {j}
           /\ OnePlace'
<1> DEFINE y == [r.job EXCEPT !.kind = "copyPreview"]
<1>1. /\ settled' = settled \ {r} /\ running' = running /\ r.job.kind = "columns" /\ r.job \in Jobs
      /\ queue' = Append(queue, y) /\ columnJobs' = columnJobs /\ parts' = parts
  BY RecordFacts DEF ColumnsKnown, CopyProfile, Resume, Resumed, TypeOK
<1>2. y \in Jobs /\ y.call = r.job.call /\ y.name = r.job.name /\ y.kind = "copyPreview"
  BY <1>1, NextJob DEF JobKinds
<1> HIDE DEF y
<1>3. queue \in Seq(Jobs) /\ IsInjective(queue) /\ ToSet(queue) \subseteq Pending
  BY DEF TypeOK, OnePlace, Pending
<1>4. y \notin Pending
  <2>1. r.job \in Pending /\ r.job.kind \notin PartKinds
    BY <1>1, ColumnsFacts DEF Pending
  <2> QED BY <1>1, <1>2, <2>1 DEF Exclusive
<1>5. ToSet(queue') = ToSet(queue) \cup {y} /\ IsInjective(queue')
  <2>1. ToSet(Append(queue, y)) = ToSet(queue) \cup {y}
    BY <1>2, <1>3, SetOfAppend
  <2>2. y \in Jobs \ ToSet(queue)
    BY <1>2, <1>3, <1>4
  <2> QED BY <1>1, <1>3, <2>1, <2>2, Injective
<1> DEFINE kept == settled \ {r}
           new  == {y}
           more == {}
<1>6. /\ kept \in SUBSET settled /\ settled' = kept /\ {x.job : x \in settled \ kept} = {r.job}
      /\ new \in SUBSET (Jobs \ Pending) /\ more \in SUBSET (Jobs \ Pending) /\ new \cap more = {}
      /\ ToSet(queue') = ToSet(queue) \cup new /\ columnJobs' = columnJobs \cup more
      /\ new \cup more = {y}
  BY <1>1, <1>2, <1>4, <1>5
<1> HIDE DEF kept, new, more
<1>7. Pending' = (Pending \ {x.job : x \in settled \ kept}) \cup (new \cup more) /\ OnePlace'
  BY <1>1, <1>5, <1>6, EnqueueMoves
<1> QED BY <1>1, <1>2, <1>5, <1>6, <1>7

\* The jobs of the parallel part: one for each of the parts.
PartsOf(r) == {"preview", "cardinality"} \cup ColumnsOf(r.got)

LEMMA ProfileMoves ==
  ASSUME TypeOK, OnePlace, Exclusive, NEW r \in settled, ColumnsKnown(r), Profile(r)
  PROVE  \E new, more :
           /\ settled' = settled \ {r}
           /\ parts' = [parts EXCEPT ![r.job.call] = PartsOf(r)]
           /\ ToSet(queue') = ToSet(queue) \cup new /\ columnJobs' = columnJobs \cup more
           /\ Pending' = (Pending \ {r.job}) \cup (new \cup more)
           /\ \A j \in new \cup more : j.call = r.job.call /\ j.name = r.job.name
           /\ \A j \in more : j.kind \in ColumnNames
           /\ \A j \in new : j.kind \in {"preview", "cardinality"}
           /\ \A k \in PartsOf(r) : \E j \in new \cup more : j.kind = k
           /\ OnePlace'
<1> DEFINE As(kind) == [r.job EXCEPT !.kind = kind]
           p  == As("preview")
           q  == As("cardinality")
           ms == {As(column) : column \in ColumnsOf(r.got)}
           ps == PartsOf(r)
<1>1. /\ settled' = settled \ {r} /\ running' = running /\ r.job.kind = "columns" /\ r.job \in Jobs
      /\ r.got \in Queries \cup {NoQuery}
      /\ queue' = queue \o <<p, q>> /\ columnJobs' = columnJobs \cup ms
      /\ parts' = [parts EXCEPT ![r.job.call] = ps]
  BY RecordFacts DEF ColumnsKnown, Profile, PartsOf, Resume, Resumed, TypeOK
<1>2. ColumnsOf(r.got) \subseteq ColumnNames /\ ps \subseteq PartKinds /\ ps \subseteq JobKinds
  BY <1>1, ColumnsFacts DEF PartsOf
<1>3. \A kind \in ps : /\ As(kind) \in Jobs /\ As(kind).call = r.job.call
                       /\ As(kind).name = r.job.name /\ As(kind).kind = kind
  BY <1>1, <1>2, NextJob
<1>4. /\ p \in Jobs /\ p.call = r.job.call /\ p.name = r.job.name /\ p.kind = "preview"
      /\ q \in Jobs /\ q.call = r.job.call /\ q.name = r.job.name /\ q.kind = "cardinality"
      /\ \A j \in ms : j \in Jobs /\ j.call = r.job.call /\ j.name = r.job.name /\ j.kind \in ColumnNames
      /\ \A k \in ColumnsOf(r.got) : \E j \in ms : j.kind = k
  <2>1. "preview" \in ps /\ "cardinality" \in ps /\ ColumnsOf(r.got) \subseteq ps
    BY DEF PartsOf
  <2> HIDE DEF As, ps
  <2> QED BY <1>2, <1>3, <2>1
<1>5. "preview" \in ps /\ ps = {"preview", "cardinality"} \cup ColumnsOf(r.got) /\ ps = PartsOf(r)
  BY DEF PartsOf
<1> HIDE DEF As, p, q, ms, ps
<1>6. queue \in Seq(Jobs) /\ IsInjective(queue) /\ ToSet(queue) \subseteq Pending
  BY DEF TypeOK, OnePlace, Pending
<1>7. /\ p \notin Pending /\ q \notin Pending /\ ms \cap Pending = {}
      /\ p \notin ms /\ q \notin ms /\ p # q
  <2>1. r.job \in Pending /\ r.job.kind \notin PartKinds
    BY <1>1, ColumnsFacts DEF Pending
  <2>2. \A j \in {p, q} \cup ms : j.call = r.job.call /\ j.kind # r.job.kind
    BY <1>1, <1>4, <2>1, ColumnsFacts
  <2>3. \A j \in {p, q} \cup ms : j \notin Pending
    BY <2>1, <2>2 DEF Exclusive
  <2>4. "preview" \notin ColumnNames /\ "cardinality" \notin ColumnNames
    BY ColumnsAssumption
  <2> QED BY <1>4, <2>3, <2>4
<1>8. ToSet(queue') = ToSet(queue) \cup {p, q} /\ IsInjective(queue')
  <2> DEFINE t == Append(queue, p)
  <2>1. ToSet(queue \o <<p, q>>) = ToSet(queue) \cup {p, q} /\ queue \o <<p, q>> = Append(t, q)
    BY <1>4, <1>6, SetOfTwoMore
  <2>2. t \in Seq(Jobs) /\ ToSet(t) = ToSet(queue) \cup {p} /\ IsInjective(t)
    BY <1>4, <1>6, <1>7, SetOfAppend, Injective
  <2> HIDE DEF t
  <2>3. q \in Jobs \ ToSet(t)
    BY <1>4, <1>6, <1>7, <2>2
  <2>4. IsInjective(Append(t, q))
    BY <2>2, <2>3, Injective
  <2> QED BY <1>1, <2>1, <2>4
<1> DEFINE kept == settled \ {r}
           new  == {p, q}
<1>9. /\ kept \in SUBSET settled /\ settled' = kept /\ {x.job : x \in settled \ kept} = {r.job}
      /\ new \in SUBSET (Jobs \ Pending) /\ ms \in SUBSET (Jobs \ Pending) /\ new \cap ms = {}
      /\ ToSet(queue') = ToSet(queue) \cup new /\ columnJobs' = columnJobs \cup ms
  BY <1>1, <1>4, <1>7, <1>8
<1>10. /\ \A j \in new \cup ms : j.call = r.job.call /\ j.name = r.job.name
       /\ \A j \in ms : j.kind \in ColumnNames
       /\ \A j \in new : j.kind \in {"preview", "cardinality"}
       /\ \A k \in ps : \E j \in new \cup ms : j.kind = k
  BY <1>4, <1>5
<1> HIDE DEF kept, new
<1>11. Pending' = (Pending \ {x.job : x \in settled \ kept}) \cup (new \cup ms) /\ OnePlace'
  BY <1>1, <1>8, <1>9, EnqueueMoves
<1>12. Pending' = (Pending \ {r.job}) \cup (new \cup ms)
  BY <1>9, <1>11
<1>13. /\ settled' = settled \ {r}
       /\ parts' = [parts EXCEPT ![r.job.call] = PartsOf(r)]
       /\ ToSet(queue') = ToSet(queue) \cup new /\ columnJobs' = columnJobs \cup ms
       /\ Pending' = (Pending \ {r.job}) \cup (new \cup ms)
       /\ \A j \in new \cup ms : j.call = r.job.call /\ j.name = r.job.name
       /\ \A j \in ms : j.kind \in ColumnNames
       /\ \A j \in new : j.kind \in {"preview", "cardinality"}
       /\ \A k \in PartsOf(r) : \E j \in new \cup ms : j.kind = k
       /\ OnePlace'
  BY <1>1, <1>2, <1>5, <1>9, <1>10, <1>11, <1>12
<1> QED BY <1>13

-----------------------------------------------------------------------------
(* Busy calls                                                              *)

\* A call goes on: what its next jobs have to be.
LEMMA ExclusiveOn ==
  ASSUME Exclusive, NEW r \in settled, NEW fresh, Pending' = (Pending \ {r.job}) \cup fresh,
         \A j \in fresh : j.call = r.job.call,
         fresh = {} \/ r.job.kind \notin PartKinds,
         (\E j : fresh = {j}) \/ \A j \in fresh : j.kind \in PartKinds
  PROVE  Exclusive'
<1>1. SUFFICES ASSUME NEW i \in Pending', NEW j \in Pending', i.call = j.call, i.kind \notin PartKinds
               PROVE  i = j
  BY DEF Exclusive
<1>2. r.job \in Pending
  BY DEF Pending
<1>3. CASE i \in fresh /\ j \in fresh
  BY <1>1, <1>3
<1>4. CASE i \notin fresh /\ j \in fresh
  BY <1>1, <1>2, <1>4 DEF Exclusive
<1>5. CASE i \in fresh /\ j \notin fresh
  BY <1>1, <1>2, <1>5 DEF Exclusive
<1>6. CASE i \notin fresh /\ j \notin fresh
  BY <1>1, <1>6 DEF Exclusive
<1> QED BY <1>3, <1>4, <1>5, <1>6

\* The same of the call itself, which is left at w and awaits the parts ps.
LEMMA BusyOn ==
  ASSUME TypeOK, Exclusive, BusyInv,
         NEW r \in settled, NEW fresh, Pending' = (Pending \ {r.job}) \cup fresh,
         \A j \in fresh : j.call = r.job.call /\ j.kind # "rename",
         arrived' = arrived,
         NEW w, NEW ps, pc' = [pc EXCEPT ![r.job.call] = w], parts' = [parts EXCEPT ![r.job.call] = ps],
         w = "busy" => /\ r.job.kind # "rename"
                       /\ \E j \in Pending' : j.call = r.job.call
                       /\ \A k \in ps : \E j \in Pending' : j.call = r.job.call /\ j.kind = k,
         fresh # {} => w = "busy",
         model.exists' /\ model.status' # "Idle" =>
           /\ model.exists
           /\ \/ w = "busy"
              \/ model.status # "Idle" /\ (pc[r.job.call] # "busy" \/ r.job.kind = "rename")
  PROVE  BusyInv'
<1> DEFINE c == r.job.call
<1>1. /\ r.job \in Pending /\ c \in Calls
      /\ pc \in [Calls -> {"none", "busy", "done"}] /\ parts \in [Calls -> SUBSET PartKinds]
  BY PendingFacts DEF TypeOK
<1>2. /\ \A d \in Calls : d # c => pc'[d] = pc[d] /\ parts'[d] = parts[d]
      /\ pc'[c] = w /\ parts'[c] = ps
  BY <1>1
<1> HIDE DEF c
<1>3. c = r.job.call
  BY DEF c
<1>4. \A j \in Pending' : j \in Pending \/ (j \in fresh /\ j.call = c /\ j.kind # "rename")
  BY <1>3
<1>5. ASSUME NEW d \in Calls, pc'[d] = "busy"
      PROVE  /\ \E j \in Pending' : j.call = d
             /\ \A k \in parts'[d] : \E j \in Pending' : j.call = d /\ j.kind = k
  <2>1. CASE d = c
    BY <1>2, <1>3, <1>5, <2>1
  <2>2. CASE d # c
    <3>1. pc[d] = "busy" /\ parts'[d] = parts[d]
      BY <1>2, <1>5, <2>2
    <3>2. /\ \E j \in Pending : j.call = d
          /\ \A k \in parts[d] : \E j \in Pending : j.call = d /\ j.kind = k
      BY <3>1 DEF BusyInv
    <3>3. \A j \in Pending : j.call = d => j \in Pending'
      BY <1>3, <2>2
    <3> QED BY <3>1, <3>2, <3>3
  <2> QED BY <2>1, <2>2
<1>6. ASSUME NEW j \in Pending'
      PROVE  j.call <= arrived' /\ (j.kind \notin PartKinds => pc'[j.call] = "busy")
  <2>1. CASE j \in fresh
    BY <1>1, <1>2, <1>3, <2>1 DEF BusyInv
  <2>2. CASE j \notin fresh
    <3>1. j \in Pending /\ j # r.job
      BY <2>2
    <3>2. j.call \in Calls /\ j.call <= arrived /\ (j.kind \notin PartKinds => pc[j.call] = "busy")
      BY <3>1, PendingFacts DEF BusyInv
    <3>3. j.kind \notin PartKinds => j.call # c
      BY <1>1, <1>3, <3>1 DEF Exclusive
    <3> QED BY <1>2, <3>2, <3>3
  <2> QED BY <2>1, <2>2
<1>7. ASSUME NEW d \in Calls, d > arrived' PROVE parts'[d] = {}
  <2>1. c <= arrived
    BY <1>1, <1>3 DEF BusyInv
  <2>2. d # c
    <3>1. arrived \in Int /\ c \in Int /\ d \in Int
      BY <1>1, MaxCallsAssumption DEF Calls, TypeOK
    <3> QED BY <1>7, <2>1, <3>1
  <2> QED BY <1>2, <1>7, <2>2 DEF BusyInv
<1>8. ASSUME model.exists', model.status' # "Idle"
      PROVE  \E j \in Pending' : j.kind # "rename" /\ pc'[j.call] = "busy"
  <2>1. CASE w = "busy"
    <3>1. PICK j \in Pending' : j.call = c
      BY <1>3, <2>1
    <3>2. j.kind # "rename"
      <4>1. CASE j \in fresh
        BY <4>1
      <4>2. CASE j \notin fresh
        <5>1. j \in Pending /\ "rename" \notin PartKinds
          BY <4>2, ColumnsFacts
        <5> QED BY <1>1, <1>3, <2>1, <3>1, <5>1 DEF Exclusive
      <4> QED BY <4>1, <4>2
    <3> QED BY <1>2, <2>1, <3>1, <3>2
  <2>2. CASE w # "busy"
    <3>1. model.exists /\ model.status # "Idle" /\ (pc[c] # "busy" \/ r.job.kind = "rename")
      BY <1>3, <1>8, <2>2
    <3>2. PICK j \in Pending : j.kind # "rename" /\ pc[j.call] = "busy"
      BY <3>1 DEF BusyInv
    <3>3. j.call # c
      <4>1. "rename" \notin PartKinds
        BY ColumnsFacts
      <4> QED BY <1>1, <1>3, <3>1, <3>2, <4>1 DEF Exclusive
    <3>4. j \in Pending' /\ j.call \in Calls
      BY <1>3, <3>3, PendingFacts
    <3> QED BY <1>2, <3>2, <3>3, <3>4
  <2> QED BY <2>1, <2>2
<1> QED BY <1>5, <1>6, <1>7, <1>8 DEF BusyInv

\* A call goes on without a new job.
LEMMA LeavesOn ==
  ASSUME CallsInv, NEW r \in settled, Pending' = Pending \ {r.job}, arrived' = arrived,
         pc' = [pc EXCEPT ![r.job.call] = "done"], parts' = parts, OnePlace',
         model.status' = "Idle"
  PROVE  OnePlace' /\ Exclusive' /\ BusyInv'
<1> DEFINE fresh == {}
<1>0. parts' = [parts EXCEPT ![r.job.call] = parts[r.job.call]]
  BY DEF CallsInv, TypeOK
<1>1. /\ Pending' = (Pending \ {r.job}) \cup fresh /\ fresh = {}
      /\ \A j \in fresh : j.call = r.job.call
      /\ \A j \in fresh : j.call = r.job.call /\ j.kind # "rename"
      /\ \A j \in fresh : j.kind \in PartKinds
  OBVIOUS
<1> HIDE DEF fresh
<1>2. Exclusive'
  BY <1>1, ExclusiveOn DEF CallsInv
<1>3. BusyInv'
  BY <1>0, <1>1, BusyOn DEF CallsInv
<1> QED BY <1>2, <1>3

LEMMA PlainOn ==
  ASSUME CallsInv, NEW r \in settled, UNCHANGED <<queue, columnJobs, running, arrived>>, settled' = settled \ {r},
         NEW w, NEW ps, pc' = [pc EXCEPT ![r.job.call] = w], parts' = [parts EXCEPT ![r.job.call] = ps],
         w = "busy" => /\ r.job.kind # "rename"
                       /\ \E j \in Pending' : j.call = r.job.call
                       /\ \A k \in ps : \E j \in Pending' : j.call = r.job.call /\ j.kind = k,
         model.exists' /\ model.status' # "Idle" =>
           /\ model.exists
           /\ \/ w = "busy"
              \/ model.status # "Idle" /\ (pc[r.job.call] # "busy" \/ r.job.kind = "rename")
  PROVE  OnePlace' /\ Exclusive' /\ BusyInv'
<1>1. Pending' = (Pending \ {r.job}) \cup {} /\ OnePlace'
  BY PlainMoves DEF CallsInv
<1> DEFINE fresh == {}
<1>2. /\ Pending' = (Pending \ {r.job}) \cup fresh /\ fresh = {}
      /\ \A j \in fresh : j.call = r.job.call
      /\ \A j \in fresh : j.call = r.job.call /\ j.kind # "rename"
      /\ \A j \in fresh : j.kind \in PartKinds
  BY <1>1
<1> HIDE DEF fresh
<1>3. Exclusive'
  BY <1>1, <1>2, ExclusiveOn DEF CallsInv
<1>4. BusyInv'
  BY <1>1, <1>2, BusyOn DEF CallsInv
<1> QED BY <1>1, <1>3, <1>4

\* A call that is over.
LEMMA OverOn ==
  ASSUME CallsInv, NEW r \in settled, UNCHANGED <<queue, columnJobs, running, arrived, parts>>,
         settled' = settled \ {r}, PcIs(r.job.call, "done"),
         model.exists' /\ model.status' # "Idle" =>
           model.exists /\ model.status # "Idle" /\ r.job.kind = "rename"
  PROVE  OnePlace' /\ Exclusive' /\ BusyInv'
<1>1. pc' = [pc EXCEPT ![r.job.call] = "done"]
  BY DEF PcIs
<1>2. parts' = [parts EXCEPT ![r.job.call] = parts[r.job.call]]
  BY DEF CallsInv, TypeOK
<1> QED BY <1>1, <1>2, PlainOn

\* A call that goes on with new jobs, and has no part yet.
LEMMA MoreOn ==
  ASSUME CallsInv, NEW r \in settled, r.job.kind \in {"validate", "view", "columns"},
         NEW fresh, Pending' = (Pending \ {r.job}) \cup fresh, fresh # {},
         \A j \in fresh : j.call = r.job.call /\ j.kind # "rename",
         (\E j : fresh = {j}) \/ \A j \in fresh : j.kind \in PartKinds,
         arrived' = arrived, pc' = pc, model.exists' => model.exists,
         \/ parts' = parts
         \/ \E ps : /\ parts' = [parts EXCEPT ![r.job.call] = ps]
                    /\ \A k \in ps : \E j \in fresh : j.kind = k
  PROVE  Exclusive' /\ BusyInv'
<1> DEFINE c == r.job.call
<1>0. TypeOK /\ Exclusive /\ BusyInv
  BY DEF CallsInv
<1>1. /\ r.job \in Pending /\ c \in Calls /\ r.job.kind \notin PartKinds /\ r.job.kind # "rename"
      /\ pc \in [Calls -> {"none", "busy", "done"}] /\ parts \in [Calls -> SUBSET PartKinds]
  BY <1>0, PendingFacts, ColumnsFacts DEF TypeOK
<1>2. pc[c] = "busy"
  BY <1>0, <1>1 DEF BusyInv
<1>3. pc' = [pc EXCEPT ![c] = "busy"]
  BY <1>1, <1>2
<1>4. \A k \in parts[c] : \E j \in Pending' : j.call = c /\ j.kind = k
  <2>1. \A k \in parts[c] : \E j \in Pending : j.call = c /\ j.kind = k
    BY <1>0, <1>1, <1>2 DEF BusyInv
  <2>2. \A k \in parts[c] : k # r.job.kind
    BY <1>1
  <2> QED BY <2>1, <2>2
<1>5. \E ps : /\ parts' = [parts EXCEPT ![c] = ps]
              /\ \A k \in ps : \E j \in Pending' : j.call = c /\ j.kind = k
  <2>1. CASE parts' = parts
    <3>1. parts' = [parts EXCEPT ![c] = parts[c]]
      BY <1>1, <2>1
    <3> QED BY <1>4, <3>1
  <2>2. CASE \E ps : /\ parts' = [parts EXCEPT ![c] = ps]
                    /\ \A k \in ps : \E j \in fresh : j.kind = k
    BY <2>2
  <2> QED BY <2>1, <2>2
<1>6. PICK ps : /\ parts' = [parts EXCEPT ![c] = ps]
                /\ \A k \in ps : \E j \in Pending' : j.call = c /\ j.kind = k
  BY <1>5
<1>7. \E j \in Pending' : j.call = c
  OBVIOUS
<1>8. Exclusive'
  BY <1>0, <1>1, ExclusiveOn
<1>9. BusyInv'
  BY <1>0, <1>1, <1>3, <1>6, <1>7, BusyOn
<1> QED BY <1>8, <1>9

LEMMA ContinueCalls ==
  ASSUME CallsInv, NEW r \in settled, Continue(r)
  PROVE  OnePlace' /\ Exclusive' /\ BusyInv'
<1> DEFINE c == r.job.call
<1>0. TypeOK /\ OnePlace /\ Exclusive /\ BusyInv
  BY DEF CallsInv
<1>1. /\ r.job \in Pending /\ c \in Calls /\ model \in ModelRecords
      /\ pc \in [Calls -> {"none", "busy", "done"}] /\ parts \in [Calls -> SUBSET PartKinds]
  BY <1>0, PendingFacts DEF TypeOK
<1>2. ASSUME settled' = settled \ {r}, UNCHANGED <<queue, columnJobs, running>>,
             NEW left \in SUBSET parts[c], pc[c] = "busy", r.job.kind \in PartKinds,
             r.job.kind \notin left, left # {}
      PROVE  /\ \E j \in Pending' : j.call = c
             /\ \A k \in left : \E j \in Pending' : j.call = c /\ j.kind = k
  <2>1. Pending' = Pending \ {r.job}
    BY <1>0, <1>2, PlainMoves
  <2>2. \A k \in left : \E j \in Pending : j.call = c /\ j.kind = k
    BY <1>0, <1>1, <1>2 DEF BusyInv
  <2>3. \A k \in left : \E j \in Pending' : j.call = c /\ j.kind = k
    BY <1>2, <2>1, <2>2
  <2> QED BY <1>2, <2>3
<1>3. CASE ModelGone(r)
  <2> DEFINE left == IF r.job.kind \in ColumnNames /\ pc[c] = "busy" THEN StillAwaited(r) ELSE {}
             w    == IF left = {} THEN "done" ELSE "busy"
  <2>1. /\ settled' = settled \ {r} /\ UNCHANGED <<queue, columnJobs, running, arrived>> /\ ~ model.exists'
        /\ parts' = [parts EXCEPT ![c] = left] /\ pc' = [pc EXCEPT ![c] = w]
    BY <1>3 DEF ModelGone, Resume, Resumed, PcIs
  <2>2. w = "busy" => /\ r.job.kind # "rename"
                      /\ \E j \in Pending' : j.call = c
                      /\ \A k \in left : \E j \in Pending' : j.call = c /\ j.kind = k
    <3>1. SUFFICES ASSUME w = "busy"
               PROVE  /\ r.job.kind # "rename"
                      /\ \E j \in Pending' : j.call = c
                      /\ \A k \in left : \E j \in Pending' : j.call = c /\ j.kind = k
      OBVIOUS
    <3>2. left # {} /\ r.job.kind \in ColumnNames /\ pc[c] = "busy" /\ left = StillAwaited(r)
      BY <3>1
    <3> HIDE DEF left
    <3>3. left \in SUBSET parts[c] /\ r.job.kind \notin left /\ r.job.kind \in PartKinds /\ r.job.kind # "rename"
      BY <3>2, ColumnsFacts DEF StillAwaited
    <3> QED BY <1>2, <2>1, <3>2, <3>3
  <2> HIDE DEF left, w
  <2> QED BY <2>1, <2>2, PlainOn
<1>4. CASE BrokenOff(r) \/ QueryError(r) \/ EmptyQuery(r) \/ CopyPreview(r)
  <2>1. /\ UNCHANGED <<queue, columnJobs, running, arrived, parts>> /\ settled' = settled \ {r}
        /\ PcIs(c, "done")
    BY <1>4 DEF BrokenOff, QueryError, EmptyQuery, CopyPreview, Resume, Resumed
  <2>2. model.status' = "Idle"
    BY <1>1, <1>4 DEF BrokenOff, QueryError, EmptyQuery, CopyPreview, StatusAfter, ModelRecords
  <2> QED BY <2>1, <2>2, OverOn
<1>5. CASE Renamed(r)
  <2>1. /\ UNCHANGED <<queue, columnJobs, running, arrived, parts>> /\ settled' = settled \ {r}
        /\ PcIs(c, "done") /\ r.job.kind = "rename" /\ model.exists
    BY <1>5 DEF Renamed, Resume, Resumed
  <2>2. model.status' = model.status
    BY <1>1, <1>5 DEF Renamed, ModelRecords
  <2> QED BY <2>1, <2>2, OverOn
<1>6. CASE CollectModelInfo(r)
  <2>0. arrived' = arrived /\ parts' = parts /\ running' = running /\ model.exists /\ r.job.kind = "validate"
    BY <1>6 DEF CollectModelInfo, Resume, Updates
  <2>1. CASE model.query = Empty
    <3>1. /\ UNCHANGED <<queue, columnJobs, running, arrived, parts>> /\ settled' = settled \ {r}
          /\ PcIs(c, "done")
      BY <1>6, <2>0, <2>1 DEF CollectModelInfo, Resumed
    <3>2. model.status' = "Idle"
      BY <1>1, <1>6, <2>1 DEF CollectModelInfo, StatusAfter, ModelRecords
    <3> QED BY <3>1, <3>2, OverOn
  <2>2. CASE model.query # Empty /\ model.listed
    <3>1. PICK j \in Jobs : j.call = c /\ j.kind = "view" /\ Pending' = (Pending \ {r.job}) \cup {j} /\ OnePlace'
      BY <1>0, <1>6, <2>2, CollectMoves
    <3>2. pc' = pc
      BY <1>6, <2>2 DEF CollectModelInfo
    <3>3. (\A i \in {j} : i.call = c /\ i.kind # "rename") /\ {j} # {}
      BY <3>1
    <3> QED BY <2>0, <3>1, <3>2, <3>3, MoreOn
  <2>3. CASE model.query # Empty /\ ~ model.listed
    <3>1. /\ queue' = <<>> /\ columnJobs' = columnJobs \ Dropped
          /\ settled' = (settled \ {r}) \cup Cancelled(Dropped) /\ pc' = [pc EXCEPT ![c] = "done"]
      BY <1>6, <2>3 DEF CollectModelInfo, ReplaceJobs, PcIs
    <3>2. model.status' = "Idle"
      BY <1>1, <1>6, <2>3 DEF CollectModelInfo, StatusAfter, ModelRecords
    <3>3. (settled \ {r}) \in SUBSET settled /\ {x.job : x \in settled \ (settled \ {r})} = {r.job}
      OBVIOUS
    <3>4. Pending' = Pending \ {x.job : x \in settled \ (settled \ {r})} /\ OnePlace'
      BY <1>0, <2>0, <3>1, <3>3, EmptiedMoves
    <3>5. Pending' = Pending \ {r.job}
      BY <3>3, <3>4
    <3> QED BY <2>0, <3>1, <3>2, <3>4, <3>5, LeavesOn
  <2> QED BY <1>6, <2>1, <2>2, <2>3 DEF CollectModelInfo
<1>7. CASE ViewCreated(r)
  <2>1. PICK j \in Jobs : j.call = c /\ j.kind = "columns" /\ Pending' = (Pending \ {r.job}) \cup {j} /\ OnePlace'
    BY <1>0, <1>7, ViewMoves
  <2>2. arrived' = arrived /\ pc' = pc /\ parts' = parts /\ model.exists /\ r.job.kind = "view"
    BY <1>7 DEF ViewCreated, Resume, Updates
  <2>3. (\A i \in {j} : i.call = c /\ i.kind # "rename") /\ {j} # {}
    BY <2>1
  <2> QED BY <2>1, <2>2, <2>3, MoreOn
<1>8. CASE ColumnsKnown(r)
  <2>1. /\ arrived' = arrived /\ running' = running /\ model.exists /\ r.job.kind = "columns"
        /\ settled' = settled \ {r}
    BY <1>8 DEF ColumnsKnown, Resume, Resumed, Updates
  <2>2. CASE NoTable(r)
    <3>1. UNCHANGED <<queue, columnJobs, parts>> /\ PcIs(c, "done")
      BY <2>2 DEF NoTable
    <3>2. model.status' = "Idle"
      BY <1>1, <2>2 DEF NoTable, StatusAfter, ModelRecords
    <3> QED BY <2>1, <3>1, <3>2, OverOn
  <2>3. CASE CopyProfile(r)
    <3>1. PICK j \in Jobs : /\ j.call = c /\ j.kind = "copyPreview" /\ parts' = parts
                           /\ Pending' = (Pending \ {r.job}) \cup {j} /\ OnePlace'
      BY <1>0, <1>8, <2>3, CopyMoves
    <3>2. pc' = pc
      BY <2>3 DEF CopyProfile
    <3>3. (\A i \in {j} : i.call = c /\ i.kind # "rename") /\ {j} # {}
      BY <3>1
    <3> QED BY <2>1, <3>1, <3>2, <3>3, MoreOn
  <2>4. CASE Profile(r)
    <3>1. PICK new, more :
           /\ settled' = settled \ {r}
           /\ parts' = [parts EXCEPT ![c] = PartsOf(r)]
           /\ ToSet(queue') = ToSet(queue) \cup new /\ columnJobs' = columnJobs \cup more
           /\ Pending' = (Pending \ {r.job}) \cup (new \cup more)
           /\ \A j \in new \cup more : j.call = c /\ j.name = r.job.name
           /\ \A j \in more : j.kind \in ColumnNames
           /\ \A j \in new : j.kind \in {"preview", "cardinality"}
           /\ \A k \in PartsOf(r) : \E j \in new \cup more : j.kind = k
           /\ OnePlace'
      BY <1>0, <1>8, <2>4, ProfileMoves
    <3>2. pc' = pc
      BY <2>4 DEF Profile
    <3> DEFINE fresh == new \cup more
    <3>3. /\ \A j \in fresh : j.call = c /\ j.kind # "rename"
          /\ \A j \in fresh : j.kind \in PartKinds
          /\ fresh # {}
          /\ parts' = [parts EXCEPT ![c] = PartsOf(r)]
          /\ \A k \in PartsOf(r) : \E j \in fresh : j.kind = k
      <4>1. "preview" \in PartsOf(r)
        BY DEF PartsOf
      <4> QED BY <3>1, <4>1, ColumnsFacts
    <3>4. Pending' = (Pending \ {r.job}) \cup fresh
      BY <3>1
    <3> HIDE DEF fresh
    <3>5. \/ parts' = parts
          \/ \E xs : /\ parts' = [parts EXCEPT ![c] = xs]
                     /\ \A k \in xs : \E j \in fresh : j.kind = k
      BY <3>3
    <3>6. model.exists' => model.exists
      BY <2>1
    <3> QED BY <2>1, <3>1, <3>2, <3>3, <3>4, <3>5, <3>6, MoreOn, ZenonT(60)
  <2> QED BY <1>8, <2>2, <2>3, <2>4 DEF ColumnsKnown
<1>9. CASE Part(r)
  <2> DEFINE left    == StillAwaited(r)
             column  == r.job.kind \in ColumnNames
             awaited == pc[c] = "busy"
             lost    == awaited /\ ~ column /\ (r.res # "ok" \/ late)
             whole   == awaited /\ ~ lost /\ left = {}
             w       == IF lost \/ whole THEN "done" ELSE pc[c]
  <2>1. /\ settled' = settled \ {r} /\ UNCHANGED <<queue, columnJobs, running, arrived>> /\ model.exists
        /\ parts' = [parts EXCEPT ![c] = left] /\ pc' = [pc EXCEPT ![c] = w]
        /\ r.job.kind \in PartKinds
    BY <1>9 DEF Part, Resume, Resumed, PcIs
  <2>2. model.status' = IF lost \/ whole THEN "Idle" ELSE model.status
    BY <1>1, <1>9 DEF Part, StatusAfter, ModelRecords
  <2>3. left \in SUBSET parts[c] /\ r.job.kind \notin left
    BY DEF StillAwaited
  <2> HIDE DEF left
  <2>4. w = "busy" => /\ r.job.kind # "rename"
                      /\ \E j \in Pending' : j.call = c
                      /\ \A k \in left : \E j \in Pending' : j.call = c /\ j.kind = k
    <3>1. "rename" \notin PartKinds
      BY ColumnsFacts
    <3>2. w = "busy" => pc[c] = "busy" /\ left # {}
      OBVIOUS
    <3> QED BY <1>2, <2>1, <2>3, <3>1, <3>2
  <2>5. model.exists' /\ model.status' # "Idle" =>
           /\ model.exists
           /\ \/ w = "busy"
              \/ model.status # "Idle" /\ (pc[c] # "busy" \/ r.job.kind = "rename")
    BY <2>1, <2>2
  <2> HIDE DEF w
  <2> QED BY <2>1, <2>4, <2>5, PlainOn
<1> QED BY <1>3, <1>4, <1>5, <1>6, <1>7, <1>8, <1>9 DEF Continue

\* A request adds at most one job, of its own call.
LEMMA RequestOn ==
  ASSUME CallsInv, NEW c \in Calls, c = arrived + 1, arrived' = c, NEW fresh, Pending' = Pending \cup fresh,
         NEW w, pc' = [pc EXCEPT ![c] = w], parts' = parts,
         \/ fresh = {} /\ w # "busy"
         \/ w = "busy" /\ \E j : fresh = {j} /\ j.call = c,
         model.exists' /\ model.status' # "Idle" =>
           \/ model.exists /\ model.status # "Idle"
           \/ \E j \in fresh : j.kind # "rename"
  PROVE  Exclusive' /\ BusyInv'
<1>0. /\ Exclusive /\ BusyInv /\ arrived \in Nat /\ Calls \subseteq Nat
      /\ pc \in [Calls -> {"none", "busy", "done"}] /\ parts \in [Calls -> SUBSET PartKinds]
  BY MaxCallsAssumption DEF CallsInv, TypeOK, Calls
<1>1. \A j \in Pending : j.call \in Calls /\ j.call <= arrived /\ j.call # c
  BY <1>0, PendingFacts DEF CallsInv, BusyInv
<1>2. /\ \A d \in Calls : d # c => pc'[d] = pc[d]
      /\ pc'[c] = w /\ \A j \in fresh : j.call = c
  BY <1>0
<1>3. Exclusive'
  BY <1>0, <1>1, <1>2 DEF Exclusive
<1>4. parts[c] = {} /\ \A d \in Calls : d > arrived' => parts'[d] = {}
  <2>1. c > arrived /\ \A d \in Calls : d > arrived' => d > arrived
    BY <1>0
  <2> QED BY <1>0, <2>1 DEF BusyInv
<1>5. \A d \in Calls : pc'[d] = "busy" =>
        /\ \E j \in Pending' : j.call = d
        /\ \A k \in parts'[d] : \E j \in Pending' : j.call = d /\ j.kind = k
  BY <1>0, <1>2, <1>4 DEF BusyInv
<1>6. ASSUME NEW j \in Pending'
      PROVE  j.call <= arrived' /\ (j.kind \notin PartKinds => pc'[j.call] = "busy")
  <2>1. CASE j \in fresh
    BY <1>0, <1>2, <2>1
  <2>2. CASE j \in Pending
    <3>1. j.call \in Calls /\ j.call <= arrived /\ j.call # c /\ (j.kind \notin PartKinds => pc[j.call] = "busy")
      BY <1>0, <1>1, <2>2 DEF BusyInv
    <3>2. j.call <= arrived'
      <4>1. j.call \in Nat /\ arrived \in Nat /\ j.call <= arrived /\ arrived' = arrived + 1
        BY <1>0, <3>1
      <4> QED BY <4>1
    <3> QED BY <1>2, <3>1, <3>2
  <2> QED BY <2>1, <2>2
<1>7. model.exists' /\ model.status' # "Idle" =>
        \E j \in Pending' : j.kind # "rename" /\ pc'[j.call] = "busy"
  <2>1. CASE model.exists /\ model.status # "Idle"
    <3>1. PICK j \in Pending : j.kind # "rename" /\ pc[j.call] = "busy"
      BY <1>0, <2>1 DEF BusyInv
    <3> QED BY <1>1, <1>2, <3>1
  <2>2. CASE \E j \in fresh : j.kind # "rename"
    BY <1>2, <2>2
  <2> QED BY <2>1, <2>2
<1> QED BY <1>3, <1>4, <1>5, <1>6, <1>7 DEF BusyInv

\* The job of a request, and where the jobs before it are.
LEMMA UpdateMoves ==
  ASSUME CallsInv, NEW c \in Calls, NEW q \in Queries, UpdateModelQuery(c, q), ~ late
  PROVE  LET j == Job(c, "validate", q, model.name, model.name) IN
         /\ j \in Jobs /\ j.call = c /\ j.kind = "validate" /\ j.query = q /\ j.name = model.name
         /\ queue' = <<j>> /\ ToSet(queue') = {j} /\ columnJobs' = columnJobs \ Dropped
         /\ settled = {} /\ settled' = Cancelled(Dropped)
         /\ Pending' = Pending \cup {j}
         /\ OnePlace'
<1> DEFINE j == Job(c, "validate", q, model.name, model.name)
<1>0. TypeOK /\ OnePlace /\ BusyInv
  BY DEF CallsInv
<1>1. j \in Jobs /\ j.call = c /\ j.kind = "validate" /\ j.query = q /\ j.name = model.name
  <2>1. model.name \in Names
    BY <1>0 DEF TypeOK, ModelRecords
  <2> QED BY <2>1, NewJob DEF JobKinds
<1>2. /\ queue' = <<j>> /\ columnJobs' = columnJobs \ Dropped /\ running' = running
      /\ settled = {} /\ settled' = {} \cup Cancelled(Dropped) /\ c = arrived + 1
  BY DEF UpdateModelQuery, ReplaceJobs, Arrive, Calm
<1> HIDE DEF j
<1>3. ToSet(<<j>>) = {j} /\ <<j>> \in Seq(Jobs) /\ IsInjective(<<j>>)
  BY <1>1, SetOfOne, InjectiveOne
<1>4. j \notin Pending
  BY <1>0, <1>1, <1>2, MaxCallsAssumption DEF BusyInv, TypeOK
<1>5. {} \in SUBSET settled /\ {x.job : x \in settled \ {}} = {}
  BY <1>2
<1>6. Pending' = (Pending \ {x.job : x \in settled \ {}}) \cup ToSet(<<j>>) /\ OnePlace'
  BY <1>0, <1>2, <1>3, <1>4, <1>5, ReplaceMoves
<1> QED BY <1>1, <1>2, <1>3, <1>5, <1>6 DEF j

\* A request that only empties the queue.
LEMMA ClearMoves ==
  ASSUME TypeOK, OnePlace, settled = {}, queue' = <<>>, columnJobs' = columnJobs \ Dropped,
         running' = running, settled' = Cancelled(Dropped)
  PROVE  ToSet(queue') = {} /\ Pending' = Pending /\ OnePlace'
<1> DEFINE kept == {}
<1>1. /\ kept \in SUBSET settled /\ settled' = kept \cup Cancelled(Dropped)
      /\ {x.job : x \in settled \ kept} = {}
  OBVIOUS
<1> HIDE DEF kept
<1>2. ToSet(queue') = {} /\ Pending' = Pending \ {x.job : x \in settled \ kept} /\ OnePlace'
  BY <1>1, EmptiedMoves
<1> QED BY <1>1, <1>2

LEMMA RenameMoves ==
  ASSUME CallsInv, NEW c \in Calls, NEW n \in Names, UpdateModelName(c, n)
  PROVE  OnePlace' /\ \E j \in Jobs : j.call = c /\ Pending' = Pending \cup {j}
<1> DEFINE j == Job(c, "rename", NoQuery, model.name, n)
<1>0. TypeOK /\ OnePlace /\ BusyInv
  BY DEF CallsInv
<1>1. j \in Jobs /\ j.call = c
  <2>1. model.name \in Names
    BY <1>0 DEF TypeOK, ModelRecords
  <2>2. "rename" \in JobKinds /\ NoQuery \in Queries \cup {NoQuery}
    BY DEF JobKinds
  <2> QED BY <2>1, <2>2, NewJob
<1>2. /\ queue' = Append(queue, j) /\ columnJobs' = columnJobs /\ running' = running
      /\ settled = {} /\ settled' = {} /\ c = arrived + 1
  BY DEF UpdateModelName, Arrive, Calm
<1> HIDE DEF j
<1>3. j \notin Pending
  BY <1>0, <1>1, <1>2, MaxCallsAssumption DEF BusyInv, TypeOK
<1>4. queue \in Seq(Jobs) /\ IsInjective(queue) /\ ToSet(queue) \subseteq Pending
  BY <1>0 DEF TypeOK, OnePlace, Pending
<1>5. ToSet(queue') = ToSet(queue) \cup {j} /\ IsInjective(queue')
  <2>1. ToSet(Append(queue, j)) = ToSet(queue) \cup {j}
    BY <1>1, <1>4, SetOfAppend
  <2>2. j \in Jobs \ ToSet(queue)
    BY <1>1, <1>3, <1>4
  <2> QED BY <1>2, <1>4, <2>1, <2>2, Injective
<1>6. {} \in SUBSET settled /\ {x.job : x \in settled \ {}} = {}
  BY <1>2
<1>7. {j} \in SUBSET (Jobs \ Pending) /\ {} \in SUBSET (Jobs \ Pending) /\ {j} \cap {} = {} /\ columnJobs' = columnJobs \cup {}
  BY <1>1, <1>2, <1>3
<1>8. Pending' = (Pending \ {x.job : x \in settled \ {}}) \cup ({j} \cup {}) /\ OnePlace'
  BY <1>0, <1>2, <1>5, <1>6, <1>7, EnqueueMoves
<1> QED BY <1>1, <1>6, <1>8

LEMMA RequestCalls ==
  ASSUME CallsInv, NEW c \in Calls, Request(c)
  PROVE  OnePlace' /\ Exclusive' /\ BusyInv'
<1>0. TypeOK /\ OnePlace /\ model \in ModelRecords
  BY DEF CallsInv, TypeOK
<1>1. c = arrived + 1 /\ arrived' = c /\ parts' = parts /\ running' = running /\ settled = {}
  BY DEF Request, UpdateModelName, UpdateModelQuery, UpdateUnchanged, DeleteModel, Arrive, Calm
<1>2. ASSUME NEW n \in Names, UpdateModelName(c, n) PROVE OnePlace' /\ Exclusive' /\ BusyInv'
  <2>1. pc' = [pc EXCEPT ![c] = "busy"] /\ model' = model
    BY <1>2 DEF UpdateModelName, PcIs
  <2> QED BY <1>1, <1>2, <2>1, RenameMoves, RequestOn
<1>3. ASSUME NEW q \in Queries, UpdateModelQuery(c, q) PROVE OnePlace' /\ Exclusive' /\ BusyInv'
  <2>0. model.exists
    BY <1>3 DEF CallsInv, UpdateModelQuery
  <2>1. CASE ~ late
    <3>1. PICK j \in Jobs : j.call = c /\ j.kind = "validate" /\ Pending' = Pending \cup {j} /\ OnePlace'
      BY <1>3, <2>1, UpdateMoves
    <3>2. pc' = [pc EXCEPT ![c] = "busy"]
      BY <1>3, <2>1 DEF UpdateModelQuery, PcIs
    <3>3. \E i \in {j} : i.kind # "rename"
      BY <3>1
    <3> QED BY <1>1, <3>1, <3>2, <3>3, RequestOn
  <2>2. CASE late
    <3>1. /\ pc' = [pc EXCEPT ![c] = "done"] /\ model.status' = "Idle"
          /\ queue' = <<>> /\ columnJobs' = columnJobs \ Dropped /\ settled' = Cancelled(Dropped)
      BY <1>0, <1>3, <2>2 DEF UpdateModelQuery, ReplaceJobs, PcIs, StatusAfter, ModelRecords
    <3>2. Pending' = Pending \cup {} /\ OnePlace'
      BY <1>0, <1>1, <3>1, ClearMoves
    <3> QED BY <1>1, <3>1, <3>2, RequestOn
  <2> QED BY <2>1, <2>2
<1>4. CASE UpdateUnchanged(c)
  <2>1. /\ pc' = [pc EXCEPT ![c] = "done"] /\ UNCHANGED <<queue, columnJobs, settled, running>>
        /\ model.status' = "Idle"
    BY <1>0, <1>4 DEF UpdateUnchanged, PcIs, Arrive, StatusAfter, ModelRecords
  <2>2. Pending' = Pending \cup {} /\ OnePlace'
    BY <1>0, <2>1 DEF Pending, OnePlace
  <2> QED BY <1>1, <2>1, <2>2, RequestOn
<1>5. CASE DeleteModel(c)
  <2>1. /\ pc' = [pc EXCEPT ![c] = "done"] /\ model.exists /\ model.status' = model.status
        /\ queue' = <<>> /\ columnJobs' = columnJobs \ Dropped /\ settled' = Cancelled(Dropped)
    BY <1>0, <1>5 DEF DeleteModel, ReplaceJobs, PcIs, ModelRecords, CallsInv
  <2>2. Pending' = Pending \cup {} /\ OnePlace'
    BY <1>0, <1>1, <2>1, ClearMoves
  <2> QED BY <1>1, <2>1, <2>2, RequestOn
<1> QED BY <1>2, <1>3, <1>4, <1>5 DEF Request

LEMMA InitCalls == Init => CallsInv
<1> SUFFICES ASSUME Init PROVE CallsInv
  OBVIOUS
<1>1. TypeOK
  BY InitType
<1>2. queue = <<>> /\ columnJobs = {} /\ running = NoJob /\ settled = {} /\ model.status = "Idle"
  BY DEF Init
<1>3. ToSet(queue) = {} /\ IsInjective(queue)
  BY <1>2 DEF ToSet, IsInjective
<1>4. Pending = {}
  BY <1>2, <1>3 DEF Pending
<1>5. \A c \in Calls : pc[c] = "none" /\ parts[c] = {}
  BY DEF Init
<1>6. OnePlace /\ Exclusive
  BY <1>2, <1>3, <1>4 DEF OnePlace, Exclusive
<1>7. BusyInv
  BY <1>2, <1>4, <1>5 DEF BusyInv
<1>8. model.exists
  BY DEF Init
<1> QED BY <1>1, <1>6, <1>7, <1>8 DEF CallsInv

\* The derived entity is never deleted alone.
LEMMA ListedStep ==
  ASSUME TypeOK, model.listed => model.exists, [Next]_vars
  PROVE  (model.listed => model.exists)'
<1>0. model \in ModelRecords
  BY DEF TypeOK
<1>1. CASE model' = model
  BY <1>1
<1>2. ASSUME NEW r \in settled, Continue(r)
      PROVE  model'.listed = model.listed /\ model'.exists = model.exists
  <2>1. CASE ModelGone(r) \/ BrokenOff(r) \/ QueryError(r) \/ EmptyQuery(r) \/ CollectModelInfo(r)
    BY <1>0, <2>1 DEF ModelGone, BrokenOff, QueryError, EmptyQuery, CollectModelInfo, ModelRecords
  <2>2. CASE ViewCreated(r) \/ ColumnsKnown(r)
    BY <1>0, <2>2 DEF ViewCreated, ColumnsKnown, NoTable, CopyProfile, Profile, ModelRecords
  <2>3. CASE CopyPreview(r) \/ Renamed(r)
    BY <1>0, <2>3 DEF CopyPreview, Renamed, ModelRecords
  <2>4. CASE Part(r)
    BY <1>0, <2>4 DEF Part, ModelRecords
  <2> QED BY <1>2, <2>1, <2>2, <2>3, <2>4 DEF Continue
<1>3. ASSUME NEW c \in Calls, Request(c) PROVE (model.listed => model.exists)'
  <2>1. CASE DeleteModel(c)
    BY <1>0, <2>1 DEF DeleteModel, ModelRecords
  <2>2. CASE \E q \in Queries : UpdateModelQuery(c, q)
    BY <1>0, <2>2 DEF UpdateModelQuery, ModelRecords
  <2>3. CASE UpdateUnchanged(c) \/ \E n \in Names : UpdateModelName(c, n)
    BY <1>0, <2>3 DEF UpdateUnchanged, UpdateModelName, ModelRecords
  <2> QED BY <1>3, <2>1, <2>2, <2>3 DEF Request
<1> QED BY <1>1, <1>2, <1>3 DEF Next, StartRun, Complete, OtherBatch, vars, state

LEMMA CallsStep == CallsInv /\ [Next]_vars => CallsInv'
<1> SUFFICES ASSUME CallsInv, [Next]_vars PROVE CallsInv'
  OBVIOUS
<1>0. TypeOK /\ OnePlace /\ Exclusive /\ BusyInv
  BY DEF CallsInv
<1>1. TypeOK' /\ (model.listed => model.exists)'
  BY <1>0, TypeStep, ListedStep DEF CallsInv
<1>2. ASSUME Pending' = Pending, OnePlace', UNCHANGED <<model, arrived, pc, parts>>
      PROVE  CallsInv'
  BY <1>0, <1>1, <1>2 DEF CallsInv, Exclusive, BusyInv
<1>3. CASE StartRun
  BY <1>0, <1>2, <1>3, StartMoves
<1>4. CASE Complete
  BY <1>0, <1>2, <1>4, CompleteMoves
<1>5. ASSUME NEW r \in settled, Continue(r) PROVE CallsInv'
  BY <1>1, <1>5, ContinueCalls DEF CallsInv
<1>6. ASSUME NEW c \in Calls, Request(c) PROVE CallsInv'
  BY <1>1, <1>6, RequestCalls DEF CallsInv
<1>7. CASE OtherBatch \/ UNCHANGED vars
  <2>1. UNCHANGED <<model, queue, columnJobs, running, settled, arrived, pc, parts>>
    BY <1>7 DEF OtherBatch, vars, state
  <2>2. Pending' = Pending /\ OnePlace'
    BY <1>0, <2>1 DEF Pending, OnePlace
  <2> QED BY <1>2, <2>1, <2>2
<1> QED BY <1>3, <1>4, <1>5, <1>6, <1>7 DEF Next

-----------------------------------------------------------------------------
(* The newest edit                                                         *)

\* What waits and what runs when DuckDB has answered.
LEMMA DoneFacts ==
  ASSUME NEW e, Newest(e), NEW r \in settled, Done(r)
  PROVE  /\ settled = {r} /\ settled \ {r} = {}
         /\ \A j \in ToSet(queue) : j.kind # "validate"
         /\ running # NoJob /\ running.kind = "validate" =>
              /\ r.job.call # e
              /\ \A j \in ToSet(queue) \cup columnJobs : j.call # e
BY DEF Newest, SettledBefore, WaitsFirst, RunsFirst

\* A validation that waits is what run() takes.
LEMMA ValidateNext ==
  ASSUME TypeOK, NEW e, Newest(e), DispatchNext
  PROVE  /\ \A j \in ToSet(queue') : j.kind # "validate"
         /\ \A j \in ToSet(queue) : j.call = e /\ queue = <<j>> => j \notin ToSet(queue')
         /\ running' # NoJob /\ running'.kind = "validate" =>
              running' \in ToSet(queue) /\ ToSet(queue') = {}
         /\ running' # NoJob /\ running'.kind = "view" => running' \in ToSet(queue)
<1>1. /\ ToSet(queue') \subseteq ToSet(queue)
      /\ \/ queue # <<>> /\ running' = Head(queue) /\ running' \in ToSet(queue) /\ queue' = Tail(queue)
         \/ running' \in columnJobs /\ queue' = queue /\ (queue # <<>> => Head(queue).kind = "rename")
         \/ running' = NoJob /\ queue' = <<>> /\ columnJobs' = {}
  BY Dispatched
<1>2. /\ queue \in Seq(Jobs)
      /\ queue # <<>> => Head(queue) \in ToSet(queue)
      /\ ToSet(<<>>) = {}
  BY SetOfSeq DEF TypeOK, ToSet
<1>3. /\ \A j \in columnJobs : j.kind \in ColumnNames
      /\ \A j \in ToSet(queue) : j.kind # "rename"
  BY DEF Newest, JobsUpTo, Pending
<1>4. ASSUME NEW j \in ToSet(queue), queue = <<j>> PROVE ToSet(queue') = {}
  <2>1. queue # <<>> /\ Tail(queue) = <<>>
    BY <1>4
  <2> QED BY <1>1, <1>2, <1>3, <2>1
<1>5. \A j \in ToSet(queue) : j.kind = "validate" => queue = <<j>>
  BY DEF Newest, WaitsFirst
<1>6. \A j \in ToSet(queue') : j.kind # "validate"
  BY <1>1, <1>4, <1>5
<1>7. running' # NoJob /\ running'.kind \in {"validate", "view"} => running' \in ToSet(queue)
  BY <1>1, <1>3, ColumnsFacts
<1> QED BY <1>4, <1>5, <1>6, <1>7

LEMMA StartNewest ==
  ASSUME CallsInv, NEW e, Newest(e), StartRun
  PROVE  Newest(e)'
<1>0. TypeOK /\ OnePlace
  BY DEF CallsInv
<1>1. /\ settled = {} /\ settled' = {} /\ running = NoJob /\ Pending' = Pending /\ DispatchNext
      /\ UNCHANGED <<model, view, arrived, pc, parts>>
  BY <1>0, StartMoves
<1>2. /\ ToSet(queue') \subseteq ToSet(queue) /\ columnJobs' \subseteq columnJobs
      /\ ToSet(queue) \cup columnJobs = ToSet(queue') \cup columnJobs' \cup ({running'} \ {NoJob})
  BY <1>0, <1>1, Dispatched
<1>3. /\ \A j \in ToSet(queue') : j.kind # "validate"
      /\ running' # NoJob /\ running'.kind = "validate" => running' \in ToSet(queue) /\ ToSet(queue') = {}
  BY <1>0, <1>1, ValidateNext
<1>4. e \in 0..arrived' /\ JobsUpTo(e)' /\ SettledBefore(e)' /\ WaitsFirst(e)' /\ CancelsOlder(e)'
  BY <1>0, <1>1, <1>2, <1>3 DEF Newest, JobsUpTo, SettledBefore, WaitsFirst, CancelsOlder
<1>5. RunsFirst(e)'
  BY <1>0, <1>1, <1>2, <1>3 DEF Newest, WaitsFirst, RunsFirst
<1> QED BY <1>4, <1>5 DEF Newest

LEMMA StartEdit ==
  ASSUME CallsInv, NEW e, EditOf(e), StartRun
  PROVE  EditOf(e)'
<1>0. TypeOK /\ OnePlace /\ Newest(e)
  BY DEF CallsInv, EditOf
<1>1. /\ settled = {} /\ settled' = {} /\ running = NoJob /\ Pending' = Pending /\ DispatchNext
      /\ UNCHANGED <<model, view, arrived, pc, parts>>
  BY <1>0, StartMoves
<1>2. /\ ToSet(queue') \subseteq ToSet(queue) /\ columnJobs' \subseteq columnJobs
      /\ ToSet(queue) \cup columnJobs = ToSet(queue') \cup columnJobs' \cup ({running'} \ {NoJob})
  BY <1>0, <1>1, Dispatched
<1>3. /\ \A j \in ToSet(queue') : j.kind # "validate"
      /\ running' # NoJob /\ running'.kind = "validate" => running' \in ToSet(queue) /\ ToSet(queue') = {}
      /\ running' # NoJob /\ running'.kind = "view" => running' \in ToSet(queue)
  BY <1>0, <1>1, ValidateNext
<1>4. Newest(e)'
  BY <1>0, StartNewest
<1>5. ViewsOf(model.query)'
  BY <1>1, <1>2, <1>3 DEF EditOf, ViewsOf
<1>6. Validated => Validated'
  <2>1. \A j \in columnJobs : j.kind \in ColumnNames
    BY <1>0 DEF Newest, JobsUpTo
  <2> QED BY <1>1, <1>2, <2>1, ColumnsFacts DEF Validated
<1>7. Stage(e)'
  <2> SUFFICES ASSUME Good PROVE Stage(e)'
    BY <1>1 DEF Stage, Good
  <2> DEFINE q == model.query
  <2>1. CASE Validating(e, q)
    <3>1. Validating(e, q)'
      BY <1>1, <2>1 DEF Validating, OnlyJobs
    <3> QED BY <1>1, <3>1 DEF Stage
  <2>2. CASE CreatingView(e, q)
    <3>1. CreatingView(e, q)'
      BY <1>1, <1>6, <2>2 DEF CreatingView
    <3> QED BY <1>1, <3>1 DEF Stage
  <2>3. CASE ViewIs(q) /\ (ReadingColumns(e) \/ Profiling(e, q))
    <3>1. ViewIs(q)'
      BY <1>1, <1>6, <2>3 DEF ViewIs
    <3>2. ReadingColumns(e) => ReadingColumns(e)'
      BY <1>1 DEF ReadingColumns, HasJob, OnlyJobs
    <3>3. Profiling(e, q) => Profiling(e, q)'
      BY <1>1 DEF Profiling, HasJob, Shown
    <3> QED BY <1>1, <2>3, <3>1, <3>2, <3>3 DEF Stage
  <2> QED BY <2>1, <2>2, <2>3 DEF EditOf, Stage
<1> QED BY <1>4, <1>5, <1>7 DEF EditOf

LEMMA CompleteNewest ==
  ASSUME CallsInv, NEW e, Newest(e), Complete
  PROVE  Newest(e)'
<1>0. TypeOK /\ OnePlace
  BY DEF CallsInv
<1>1. /\ settled = {} /\ running # NoJob /\ Pending' = Pending /\ DispatchNext
      /\ UNCHANGED <<model, arrived, pc, parts>>
  BY <1>0, CompleteMoves
<1>2. PICK r \in Results : settled' = {r} /\ r.job = running /\ r.res = Answer(running)
  BY <1>0, CompleteMoves
<1>3. /\ ToSet(queue') \subseteq ToSet(queue) /\ columnJobs' \subseteq columnJobs
      /\ ToSet(queue) \cup columnJobs = ToSet(queue') \cup columnJobs' \cup ({running'} \ {NoJob})
  BY <1>0, <1>1, Dispatched
<1>4. /\ \A j \in ToSet(queue') : j.kind # "validate"
      /\ \A j \in ToSet(queue) : j.call = e /\ queue = <<j>> => j \notin ToSet(queue')
      /\ running' # NoJob /\ running'.kind = "validate" => running' \in ToSet(queue) /\ ToSet(queue') = {}
  BY <1>0, <1>1, ValidateNext
<1>5. Done(r)
  BY <1>2, AnswerTypes DEF Done
<1>6. e \in 0..arrived' /\ JobsUpTo(e)' /\ SettledBefore(e)' /\ WaitsFirst(e)'
  BY <1>0, <1>1, <1>2, <1>3, <1>4, <1>5 DEF Newest, JobsUpTo, SettledBefore, WaitsFirst, Done
<1>7. RunsFirst(e)'
  BY <1>0, <1>1, <1>2, <1>3, <1>4 DEF Newest, WaitsFirst, RunsFirst
<1>8. CancelsOlder(e)'
  BY <1>0, <1>1, <1>2, <1>3, <1>4 DEF Newest, RunsFirst, CancelsOlder
<1> QED BY <1>6, <1>7, <1>8 DEF Newest

LEMMA CompleteEdit ==
  ASSUME CallsInv, NEW e, EditOf(e), Complete
  PROVE  EditOf(e)'
<1>0. /\ TypeOK /\ OnePlace /\ Newest(e) /\ ViewsOf(model.query) /\ model.query \in Queries /\ model.name \in Names
      /\ view \in [Names -> Queries \cup {NoQuery}]
  BY DEF CallsInv, EditOf, TypeOK, ModelRecords
<1>1. /\ settled = {} /\ running # NoJob /\ Pending' = Pending /\ DispatchNext
      /\ UNCHANGED <<model, arrived, pc, parts>>
  BY <1>0, CompleteMoves
<1>2. PICK r \in Results : settled' = {r} /\ r.job = running /\ r.res = Answer(running) /\ r.got = view[running.name]
  BY <1>0, CompleteMoves
<1>3. /\ ToSet(queue') \subseteq ToSet(queue) /\ columnJobs' \subseteq columnJobs
      /\ ToSet(queue) \cup columnJobs = ToSet(queue') \cup columnJobs' \cup ({running'} \ {NoJob})
  BY <1>0, <1>1, Dispatched
<1>4. /\ \A j \in ToSet(queue') : j.kind # "validate"
      /\ \A j \in ToSet(queue) : j.call = e /\ queue = <<j>> => j \notin ToSet(queue')
      /\ running' # NoJob /\ running'.kind = "validate" => running' \in ToSet(queue) /\ ToSet(queue') = {}
      /\ running' # NoJob /\ running'.kind = "view" => running' \in ToSet(queue)
  BY <1>0, <1>1, ValidateNext
<1>5. /\ Done(r) /\ running \in Pending /\ running \in Jobs /\ running.name = model.name /\ running.kind # "rename"
  <2>1. Done(r)
    BY <1>2, AnswerTypes DEF Done
  <2>2. running \in Pending /\ running \in Jobs
    BY <1>0, <1>1, PendingFacts
  <2> QED BY <1>0, <2>1, <2>2 DEF Newest, JobsUpTo
<1>6. Newest(e)'
  BY <1>0, CompleteNewest
<1>7. ViewsOf(model.query)'
  BY <1>0, <1>1, <1>3, <1>4 DEF ViewsOf
<1>8. Validated => Validated'
  <2>1. \A j \in columnJobs : j.kind \in ColumnNames
    BY <1>0 DEF Newest, JobsUpTo
  <2> QED BY <1>1, <1>2, <1>3, <2>1, ColumnsFacts DEF Validated
<1>9. view' = IF running.kind = "view" /\ r.res = "ok" THEN [view EXCEPT ![model.name] = running.query] ELSE view
  BY <1>2, <1>5 DEF Complete
<1>10. Stage(e)'
  <2> SUFFICES ASSUME Good PROVE Stage(e)'
    BY <1>1 DEF Stage, Good
  <2> DEFINE q == model.query
  <2>0. q \notin Invalid \cup Failing \cup {Empty} /\ q # NoQuery /\ q \in Queries
    BY <1>0, QueriesAssumption DEF Good
  <2>1. CASE Validating(e, q)
    <3>1. r.job.call = e => r.res = "ok"
      <4>1. SUFFICES ASSUME running.call = e PROVE Answer(running) = "ok"
        BY <1>2
      <4>2. running.kind = "validate"
        BY <1>5, <2>1, <4>1 DEF Validating, OnlyJobs
      <4>3. running.query = q
        BY <1>0, <1>1, <4>1, <4>2 DEF Newest, RunsFirst
      <4> QED BY <2>0, <4>2, <4>3, ColumnsAssumption DEF Answer
    <3>2. Validating(e, q)'
      BY <1>1, <1>2, <2>1, <3>1 DEF Validating, OnlyJobs
    <3> QED BY <1>1, <3>2 DEF Stage
  <2>2. CASE CreatingView(e, q)
    <3>1. r.job.call = e => r.res = "ok" /\ view'[model.name] = q
      <4>1. SUFFICES ASSUME running.call = e PROVE r.res = "ok" /\ view'[model.name] = q
        BY <1>2
      <4>2. running.kind = "view" /\ running.query = q
        BY <1>5, <2>2, <4>1 DEF CreatingView
      <4>3. r.res = "ok"
        BY <1>2, <2>0, <4>2, ColumnsAssumption DEF Answer
      <4> QED BY <1>0, <1>9, <4>2, <4>3
    <3>2. CreatingView(e, q)'
      BY <1>1, <1>2, <1>8, <2>2, <3>1 DEF CreatingView
    <3> QED BY <1>1, <3>2 DEF Stage
  <2>3. CASE ViewIs(q) /\ (ReadingColumns(e) \/ Profiling(e, q))
    <3>1. running.kind # "validate" /\ (running.kind = "view" => running.query = q)
      BY <1>0, <1>1, <2>3 DEF ViewIs, Validated, ViewsOf
    <3>2. view'[model.name] = q
      BY <1>0, <1>9, <2>3, <3>1 DEF ViewIs
    <3>3. r.got = q /\ (r.res = "ok" \/ r.job.kind \in ColumnNames)
      <4>1. r.got = q /\ view[running.name] = q
        BY <1>2, <1>5, <2>3 DEF ViewIs
      <4>2. CASE running.kind = "view"
        BY <1>2, <2>0, <3>1, <4>1, <4>2, ColumnsAssumption DEF Answer
      <4>3. CASE running.kind # "view" /\ running.kind \notin ColumnNames
        <5>1. Answer(running) = IF Runs(running.name) THEN "ok" ELSE "fail"
          BY <1>5, <3>1, <4>3 DEF Answer
        <5> QED BY <1>2, <2>0, <4>1, <5>1 DEF Runs
      <4> QED BY <1>2, <4>1, <4>2, <4>3
    <3>4. ViewIs(q)'
      BY <1>1, <1>2, <1>5, <1>8, <2>3, <3>2, <3>3 DEF ViewIs, Done
    <3>5. ReadingColumns(e) => ReadingColumns(e)'
      BY <1>1 DEF ReadingColumns, HasJob, OnlyJobs
    <3>6. Profiling(e, q) => Profiling(e, q)'
      BY <1>1 DEF Profiling, HasJob, Shown
    <3> QED BY <1>1, <2>3, <3>4, <3>5, <3>6 DEF Stage
  <2> QED BY <2>1, <2>2, <2>3 DEF EditOf, Stage
<1> QED BY <1>6, <1>7, <1>10 DEF EditOf

\* A new query makes its call the newest edit.
LEMMA UpdateEdit ==
  ASSUME CallsInv, NEW e, Newest(e), NEW c \in Calls, NEW q \in Queries, UpdateModelQuery(c, q), ~ late
  PROVE  EditOf(c)'
<1>0. /\ TypeOK /\ model \in ModelRecords /\ c = arrived + 1 /\ arrived \in Nat /\ Calls \subseteq Nat
      /\ pc \in [Calls -> {"none", "busy", "done"}]
  BY MaxCallsAssumption DEF CallsInv, TypeOK, UpdateModelQuery, Arrive, Calls
<1>1. /\ arrived' = c /\ running' = running /\ view' = view /\ pc' = [pc EXCEPT ![c] = "busy"]
      /\ model' = [model EXCEPT !.query = q, !.status = "Validating"]
  BY DEF UpdateModelQuery, Arrive, PcIs
<1>2. PICK j \in Jobs :
        /\ j.call = c /\ j.kind = "validate" /\ j.query = q /\ j.name = model.name
        /\ queue' = <<j>> /\ ToSet(queue') = {j} /\ columnJobs' = columnJobs \ Dropped
        /\ settled' = Cancelled(Dropped)
        /\ Pending' = Pending \cup {j}
  BY UpdateMoves
<1>3. \A i \in Pending : i.call < c /\ i.call # c /\ i.kind # "rename" /\ i.name = model.name
  <2>1. \A i \in Pending : i.call \in Calls /\ i.call <= arrived
    BY <1>0, PendingFacts DEF CallsInv, BusyInv
  <2>2. \A i \in Pending : i.call < c /\ i.call # c
    <3>1. \A n \in Nat : n <= arrived => n < arrived + 1 /\ n # arrived + 1
      BY <1>0
    <3> QED BY <1>0, <2>1, <3>1
  <2>3. \A i \in Pending : i.kind # "rename" /\ i.name = model.name
    BY <1>0 DEF Newest, JobsUpTo
  <2> QED BY <2>2, <2>3
<1>4. model'.query = q /\ model'.name = model.name
  BY <1>0, <1>1 DEF ModelRecords
<1>5. /\ \A r \in settled' : ~ Done(r) /\ r.job \in Pending
      /\ \A i \in columnJobs : i \in Pending /\ i.kind \in ColumnNames
      /\ running # NoJob => running \in Pending
  <2>1. \A r \in Cancelled(Dropped) : r.job \in Dropped /\ r.res = "cancelled"
    BY <1>0, DroppedTypes
  <2>2. Dropped \subseteq Pending
    BY DEF Dropped, Pending
  <2>3. \A i \in columnJobs : i \in Pending /\ i.kind \in ColumnNames
    BY <1>0 DEF Pending, Newest, JobsUpTo
  <2> QED BY <1>0, <1>2, <2>1, <2>2, <2>3, PendingFacts DEF Done
<1>6. Newest(c)'
  <2>1. c \in 0..arrived'
    BY <1>0, <1>1
  <2>2. JobsUpTo(c)'
    <3>1. \A i \in Pending' : i.kind # "rename" /\ i.call <= c /\ i.name = model'.name
      <4>1. \A i \in Pending : i.call <= c
        <5>1. \A i \in Pending : i.call \in Nat
          BY <1>0, PendingFacts
        <5>2. \A n \in Nat : n < c => n <= c
          BY <1>0
        <5> QED BY <1>3, <5>1, <5>2
      <4>2. c <= c
        BY <1>0
      <4> QED BY <1>2, <1>3, <1>4, <4>1, <4>2
    <3> QED BY <1>2, <1>5, <3>1 DEF JobsUpTo
  <2>3. SettledBefore(c)' /\ CancelsOlder(c)'
    BY <1>3, <1>5 DEF SettledBefore, CancelsOlder, Done
  <2>4. WaitsFirst(c)'
    BY <1>1, <1>2, <1>3, <1>4, <1>5 DEF WaitsFirst, Done
  <2>5. RunsFirst(c)'
    BY <1>1, <1>2, <1>3, <1>5 DEF RunsFirst, Done
  <2> QED BY <2>1, <2>2, <2>3, <2>4, <2>5 DEF Newest
<1>7. ViewsOf(model.query)'
  BY <1>2 DEF ViewsOf
<1>8. Stage(c)'
  <2>1. Validating(c, q)'
    <3>1. pc'[c] = "busy"
      BY <1>0, <1>1
    <3> QED BY <1>2, <1>3, <1>5, <3>1 DEF Validating, OnlyJobs
  <2> QED BY <1>4, <2>1 DEF Stage
<1> QED BY <1>6, <1>7, <1>8 DEF EditOf

\* A request that only empties the queue is newer than any of its jobs.
LEMMA ClearNewest ==
  ASSUME CallsInv, NEW e, Newest(e), NEW c \in Calls, c = arrived + 1, arrived' = c, settled = {},
         queue' = <<>>, columnJobs' = columnJobs \ Dropped, running' = running,
         settled' = Cancelled(Dropped), model'.name = model.name
  PROVE  Newest(c)'
<1>0. TypeOK /\ OnePlace /\ arrived \in Nat /\ Calls \subseteq Nat
  BY MaxCallsAssumption DEF CallsInv, TypeOK, Calls
<1>1. ToSet(queue') = {} /\ Pending' = Pending
  BY <1>0, ClearMoves
<1>2. \A i \in Pending : i.call < c /\ i.call <= c /\ i.call # c
  <2>1. \A i \in Pending : i.call \in Nat /\ i.call <= arrived
    BY <1>0, PendingFacts DEF CallsInv, BusyInv
  <2>2. \A n \in Nat : n <= arrived => n < arrived + 1 /\ n <= arrived + 1 /\ n # arrived + 1
    BY <1>0
  <2> QED BY <2>1, <2>2
<1>3. /\ \A r \in settled' : ~ Done(r) /\ r.job \in Pending
      /\ \A i \in columnJobs : i \in Pending /\ i.kind \in ColumnNames
      /\ running # NoJob => running \in Pending
  <2>1. \A r \in Cancelled(Dropped) : r.job \in Dropped /\ r.res = "cancelled"
    BY <1>0, DroppedTypes
  <2>2. Dropped \subseteq Pending
    BY DEF Dropped, Pending
  <2>3. \A i \in columnJobs : i \in Pending /\ i.kind \in ColumnNames
    BY DEF Pending, Newest, JobsUpTo
  <2> QED BY <1>0, <2>1, <2>2, <2>3, PendingFacts DEF Done
<1>4. c \in 0..arrived'
  BY <1>0
<1>5. JobsUpTo(c)'
  <2>1. \A i \in Pending' : i.kind # "rename" /\ i.call <= c /\ i.name = model'.name
    BY <1>1, <1>2 DEF Newest, JobsUpTo
  <2> QED BY <1>3, <2>1 DEF JobsUpTo
<1>6. SettledBefore(c)' /\ CancelsOlder(c)' /\ WaitsFirst(c)'
  BY <1>1, <1>2, <1>3 DEF SettledBefore, CancelsOlder, WaitsFirst, Done
<1>7. RunsFirst(c)'
  BY <1>1, <1>2, <1>3 DEF RunsFirst, Done
<1> QED BY <1>4, <1>5, <1>6, <1>7 DEF Newest

\* The same query again, which returns at once.
LEMMA UnchangedNewest ==
  ASSUME CallsInv, NEW e, Newest(e), NEW c \in Calls, UpdateUnchanged(c)
  PROVE  Newest(e)' /\ e # c
<1>0. /\ TypeOK /\ model \in ModelRecords /\ c = arrived + 1 /\ arrived \in Nat
  BY MaxCallsAssumption DEF CallsInv, TypeOK, UpdateUnchanged, Arrive
<1>1. /\ arrived' = c /\ UNCHANGED <<running, queue, columnJobs, settled>>
      /\ model' = [model EXCEPT !.status = "Idle"]
  BY DEF UpdateUnchanged, Arrive, StatusAfter
<1>2. model'.query = model.query /\ model'.name = model.name
  BY <1>0, <1>1 DEF ModelRecords
<1>3. Pending' = Pending
  BY <1>1 DEF Pending
<1>4. e \in 0..arrived' /\ e # c
  BY <1>0, <1>1 DEF Newest
<1> QED BY <1>0, <1>1, <1>2, <1>3, <1>4
        DEF Newest, JobsUpTo, SettledBefore, WaitsFirst, RunsFirst, CancelsOlder, Done

LEMMA UnchangedEdit ==
  ASSUME CallsInv, NEW e, EditOf(e), NEW c \in Calls, UpdateUnchanged(c)
  PROVE  EditOf(e)'
<1>0. /\ TypeOK /\ Newest(e) /\ model \in ModelRecords /\ c = arrived + 1 /\ arrived \in Nat /\ Calls \subseteq Nat
      /\ pc \in [Calls -> {"none", "busy", "done"}]
  BY MaxCallsAssumption DEF CallsInv, EditOf, TypeOK, UpdateUnchanged, Arrive, Calls
<1>1. /\ arrived' = c /\ UNCHANGED <<running, view, parts, queue, columnJobs, settled>>
      /\ pc' = [pc EXCEPT ![c] = "done"] /\ model' = [model EXCEPT !.status = "Idle"]
  BY DEF UpdateUnchanged, Arrive, PcIs, StatusAfter
<1>2. /\ model'.query = model.query /\ model'.name = model.name /\ model'.profile = model.profile
      /\ model'.error = model.error /\ model'.preview = model.preview /\ model'.profiled = model.profiled
  BY <1>0, <1>1 DEF ModelRecords
<1>3. Pending' = Pending
  BY <1>1 DEF Pending
<1>4. e # c
  BY <1>0, UnchangedNewest
<1>5. Newest(e)'
  BY <1>0, UnchangedNewest
<1>6. ViewsOf(model.query)'
  BY <1>1, <1>2 DEF EditOf, ViewsOf
<1>7. Stage(e)'
  <2> SUFFICES ASSUME Good PROVE Stage(e)'
    BY <1>2 DEF Stage, Good
  <2> DEFINE q == model.query
  <2>0. e \in Calls => pc'[e] = pc[e]
    BY <1>0, <1>1, <1>4
  <2>1. CASE Validating(e, q)
    <3>1. e \in Calls
      BY <1>0, <2>1, PendingFacts DEF Validating
    <3>2. Validating(e, q)'
      BY <1>1, <1>3, <2>0, <2>1, <3>1 DEF Validating, OnlyJobs
    <3> QED BY <1>2, <3>2 DEF Stage
  <2>2. CASE CreatingView(e, q)
    <3>1. e \in Calls
      BY <1>0, <2>2, PendingFacts DEF CreatingView
    <3>2. CreatingView(e, q)'
      BY <1>1, <1>2, <1>3, <2>0, <2>2, <3>1 DEF CreatingView, Validated, Done
    <3> QED BY <1>2, <3>2 DEF Stage
  <2>3. CASE ViewIs(q) /\ (ReadingColumns(e) \/ Profiling(e, q))
    <3>1. ViewIs(q)'
      BY <1>1, <1>2, <2>3 DEF ViewIs, Validated, Done
    <3>2. ReadingColumns(e) => ReadingColumns(e)'
      <4>1. ReadingColumns(e) => e \in Calls
        BY <1>0, PendingFacts DEF ReadingColumns, HasJob
      <4> QED BY <1>3, <2>0, <4>1 DEF ReadingColumns, HasJob, OnlyJobs
    <3>3. Profiling(e, q) => Profiling(e, q)'
      BY <1>1, <1>2, <1>3, <2>0 DEF Profiling, HasJob, Shown
    <3> QED BY <1>2, <2>3, <3>1, <3>2, <3>3 DEF Stage
  <2> QED BY <2>1, <2>2, <2>3 DEF EditOf, Stage
<1> QED BY <1>5, <1>6, <1>7 DEF EditOf

\* A call goes on and enqueues nothing.
LEMMA PlainNewest ==
  ASSUME CallsInv, NEW e, Newest(e), NEW r \in settled, settled' = settled \ {r},
         UNCHANGED <<queue, columnJobs, running, arrived>>,
         model'.query = model.query, model'.name = model.name
  PROVE  /\ Newest(e)' /\ Pending' = Pending \ {r.job}
         /\ ViewsOf(model.query) => ViewsOf(model.query)'
         /\ Validated => Validated'
<1>0. TypeOK /\ OnePlace
  BY DEF CallsInv
<1>1. Pending' = Pending \ {r.job}
  BY <1>0, PlainMoves
<1>2. e \in 0..arrived' /\ JobsUpTo(e)' /\ WaitsFirst(e)' /\ RunsFirst(e)' /\ CancelsOlder(e)'
  BY <1>0, <1>1 DEF Newest, JobsUpTo, WaitsFirst, RunsFirst, CancelsOlder, Done
<1>3. SettledBefore(e)'
  BY <1>0 DEF Newest, SettledBefore, Done
<1>4. ViewsOf(model.query) => ViewsOf(model.query)'
  BY DEF ViewsOf
<1>5. Validated => Validated'
  BY DEF Validated, Done
<1> QED BY <1>1, <1>2, <1>3, <1>4, <1>5 DEF Newest

\* A call whose job is done goes on and enqueues behind the others.
LEMMA BehindNewest ==
  ASSUME CallsInv, NEW e, Newest(e), NEW r \in settled, Done(r), settled' = settled \ {r},
         UNCHANGED <<running, arrived>>, model'.query = model.query, model'.name = model.name,
         NEW new, NEW more, ToSet(queue') = ToSet(queue) \cup new, columnJobs' = columnJobs \cup more,
         Pending' = (Pending \ {r.job}) \cup (new \cup more),
         \A j \in new \cup more : j.call = r.job.call /\ j.name = r.job.name,
         \A j \in new \cup more : j.kind \notin {"rename", "validate", "view"},
         \A j \in more : j.kind \in ColumnNames
  PROVE  /\ Newest(e)' /\ settled' = {}
         /\ ViewsOf(model.query) => ViewsOf(model.query)'
         /\ Validated => Validated'
<1>1. r.job \in Pending
  BY DEF Pending
<1>2. /\ settled = {r} /\ settled' = {}
      /\ \A j \in ToSet(queue) : j.kind # "validate"
      /\ running # NoJob /\ running.kind = "validate" =>
           r.job.call # e /\ \A j \in ToSet(queue) \cup columnJobs : j.call # e
  BY DoneFacts
<1>3. e \in 0..arrived' /\ JobsUpTo(e)'
  BY <1>1 DEF Newest, JobsUpTo
<1>4. SettledBefore(e)' /\ WaitsFirst(e)' /\ CancelsOlder(e)'
  BY <1>2 DEF SettledBefore, WaitsFirst, CancelsOlder
<1>5. RunsFirst(e)'
  BY <1>2 DEF Newest, RunsFirst
<1>6. ViewsOf(model.query) => ViewsOf(model.query)'
  <2>1. \A j \in ToSet(queue') : j.kind = "view" => j \in ToSet(queue)
    OBVIOUS
  <2>2. ToSet(queue) \subseteq ToSet(queue')
    OBVIOUS
  <2> QED BY <2>1, <2>2 DEF ViewsOf
<1>7. Validated => Validated'
  <2>1. \A j \in ToSet(queue') : j.kind = "validate" => j \in ToSet(queue)
    OBVIOUS
  <2> QED BY <1>2, <2>1 DEF Validated
<1> QED BY <1>2, <1>3, <1>4, <1>5, <1>6, <1>7 DEF Newest

\* The same if the stage of e is not that of the call: nothing of it changes.
LEMMA EarlierStage ==
  ASSUME NEW e, NEW r \in settled, NEW w, TypeOK, r.job.call # e, settled' = settled \ {r},
         view' = view, model'.name = model.name, NEW q,
         pc' = [pc EXCEPT ![r.job.call] = w],
         \A j \in Pending : j # r.job => j \in Pending',
         \A j \in Pending' : j \in Pending \/ j.call = r.job.call,
         Validated => Validated'
  PROVE  /\ Validating(e, q) => Validating(e, q)'
         /\ CreatingView(e, q) => CreatingView(e, q)'
         /\ ReadingColumns(e) => ReadingColumns(e)'
         /\ \A kind : HasJob(e, kind) => HasJob(e, kind)'
         /\ e \in Calls => pc'[e] = pc[e]
<1>0. /\ pc \in [Calls -> {"none", "busy", "done"}]
      /\ \A j \in Pending : j.call \in Calls
  BY PendingFacts DEF TypeOK
<1>1. e \in Calls => pc'[e] = pc[e]
  BY <1>0
<1>2. \A kind : HasJob(e, kind) => HasJob(e, kind)'
  BY DEF HasJob
<1>3. \A j \in Pending' : j.call = e => j \in Pending
  OBVIOUS
<1>4. Validating(e, q) => Validating(e, q)'
  <2> SUFFICES ASSUME Validating(e, q) PROVE Validating(e, q)'
    OBVIOUS
  <2>1. e \in Calls
    BY <1>0 DEF Validating
  <2>2. \E j \in Pending' : j.call = e /\ j.kind = "validate" /\ j.query = q
    BY DEF Validating
  <2>3. OnlyJobs(e, {"validate"})'
    BY <1>3 DEF Validating, OnlyJobs
  <2> QED BY <1>1, <2>1, <2>2, <2>3 DEF Validating
<1>5. CreatingView(e, q) => CreatingView(e, q)'
  <2> SUFFICES ASSUME CreatingView(e, q) PROVE CreatingView(e, q)'
    OBVIOUS
  <2>1. e \in Calls
    BY <1>0 DEF CreatingView
  <2>2. \E j \in Pending' : j.call = e /\ j.kind = "view" /\ j.query = q
    BY DEF CreatingView
  <2>3. \A j \in Pending' : j.call = e => j.kind = "view" /\ j.query = q
    BY <1>3 DEF CreatingView
  <2> QED BY <1>1, <2>1, <2>2, <2>3 DEF CreatingView
<1>6. ReadingColumns(e) => ReadingColumns(e)'
  <2> SUFFICES ASSUME ReadingColumns(e) PROVE ReadingColumns(e)'
    OBVIOUS
  <2>1. e \in Calls
    BY <1>0 DEF ReadingColumns, HasJob
  <2>2. OnlyJobs(e, {"view", "columns"})'
    BY <1>3 DEF ReadingColumns, OnlyJobs
  <2> QED BY <1>1, <1>2, <2>1, <2>2 DEF ReadingColumns
<1> QED BY <1>1, <1>2, <1>4, <1>5, <1>6

\* A call that fails is not the newest, if the query is good.
LEMMA FailedEdit ==
  ASSUME CallsInv, NEW e, EditOf(e), NEW r \in settled, QueryError(r) \/ EmptyQuery(r)
  PROVE  EditOf(e)'
<1>0. TypeOK /\ model \in ModelRecords /\ Newest(e) /\ ViewsOf(model.query)
  BY DEF CallsInv, TypeOK, EditOf
<1>1. /\ settled' = settled \ {r} /\ UNCHANGED <<queue, columnJobs, running, view, arrived, parts>>
      /\ pc' = [pc EXCEPT ![r.job.call] = "done"]
      /\ \/ r.res \in {"fail", "cancelled"} /\ r.job.kind \in {"validate", "view", "columns"}
         \/ r.res = "empty" /\ r.job.kind = "validate"
      /\ model'.query = model.query /\ model'.name = model.name
  BY <1>0 DEF QueryError, EmptyQuery, Resume, Resumed, PcIs, ModelRecords
<1>2. /\ Newest(e)' /\ ViewsOf(model.query)' /\ Pending' = Pending \ {r.job}
      /\ Validated => Validated'
  BY <1>0, <1>1, PlainNewest
<1>3. Stage(e)'
  <2> SUFFICES ASSUME Good PROVE Stage(e)'
    BY <1>1 DEF Stage, Good
  <2> DEFINE q == model.query
  <2>1. CASE Validating(e, q) \/ CreatingView(e, q)
    <3>1. r.job.call # e
      BY <1>1, <2>1 DEF Validating, CreatingView
    <3>2. Validating(e, q)' \/ CreatingView(e, q)'
      BY <1>0, <1>1, <1>2, <2>1, <3>1, EarlierStage
    <3> QED BY <1>1, <3>2 DEF Stage
  <2>2. ~ ViewIs(q)
    BY <1>1, ColumnsFacts DEF ViewIs
  <2> QED BY <2>1, <2>2 DEF EditOf, Stage
<1> QED BY <1>2, <1>3 DEF EditOf

\* A late result breaks a call off before it has changed anything.
LEMMA BrokenOffEdit ==
  ASSUME CallsInv, NEW e, EditOf(e), NEW r \in settled, BrokenOff(r), r.job.call # e
  PROVE  EditOf(e)'
<1>0. TypeOK /\ model \in ModelRecords /\ Newest(e) /\ ViewsOf(model.query)
  BY DEF CallsInv, TypeOK, EditOf
<1>1. /\ settled' = settled \ {r} /\ UNCHANGED <<queue, columnJobs, running, view, arrived, parts>>
      /\ pc' = [pc EXCEPT ![r.job.call] = "done"]
      /\ model'.query = model.query /\ model'.name = model.name /\ model'.profile = model.profile
      /\ model'.error = model.error /\ model'.preview = model.preview /\ model'.profiled = model.profiled
  BY <1>0 DEF BrokenOff, Resume, Resumed, PcIs, ModelRecords
<1>2. /\ Newest(e)' /\ ViewsOf(model.query)' /\ Pending' = Pending \ {r.job}
      /\ Validated => Validated'
  BY <1>0, <1>1, PlainNewest
<1>3. Stage(e)'
  <2> SUFFICES ASSUME Good PROVE Stage(e)'
    BY <1>1 DEF Stage, Good
  <2> DEFINE q == model.query
  <2>1. /\ Validating(e, q) => Validating(e, q)'
        /\ CreatingView(e, q) => CreatingView(e, q)'
        /\ ReadingColumns(e) => ReadingColumns(e)'
        /\ \A kind : HasJob(e, kind) => HasJob(e, kind)'
        /\ e \in Calls => pc'[e] = pc[e]
    BY <1>0, <1>1, <1>2, EarlierStage
  <2>2. ViewIs(q) => ViewIs(q)'
    BY <1>1, <1>2 DEF ViewIs, Done
  <2>3. Profiling(e, q) => Profiling(e, q)'
    BY <1>1, <2>1 DEF Profiling, Shown
  <2> QED BY <1>1, <2>1, <2>2, <2>3 DEF EditOf, Stage
<1> QED BY <1>2, <1>3 DEF EditOf

\* A validated call cancels what is older than the newest edit.
LEMMA CollectNewest ==
  ASSUME CallsInv, NEW e, Newest(e), NEW r \in settled, CollectModelInfo(r)
  PROVE  /\ Newest(e)'
         /\ model.query # Empty => \A x \in settled' : ~ Done(x) /\ x.job.call # e
<1>0. TypeOK /\ OnePlace /\ Exclusive /\ model \in ModelRecords /\ e \in Int
  BY DEF CallsInv, TypeOK, Newest
<1>1. /\ UNCHANGED <<running, view, arrived, parts>> /\ r.res = "ok" /\ r.job.kind = "validate"
      /\ model'.query = model.query /\ model'.name = model.name
  BY <1>0 DEF CollectModelInfo, Resume, ModelRecords
<1>2. /\ settled = {r} /\ settled \ {r} = {} /\ Done(r)
      /\ \A j \in ToSet(queue) : j.kind # "validate"
      /\ running # NoJob /\ running.kind = "validate" => r.job.call # e
      /\ \A j \in ToSet(queue) \cup columnJobs : j.call # e
  <2>1. Done(r)
    BY <1>1 DEF Done
  <2> QED BY <1>0, <1>1, <2>1, DoneFacts DEF Newest, CancelsOlder
<1>3. CASE model.query = Empty
  <2>1. settled' = settled \ {r} /\ UNCHANGED <<queue, columnJobs>>
    BY <1>3 DEF CollectModelInfo, Resumed
  <2> QED BY <1>1, <1>3, <2>1, PlainNewest
<1>4. CASE model.query # Empty
  <2>1. columnJobs' = columnJobs \ Dropped /\ settled' = (settled \ {r}) \cup Cancelled(Dropped)
    BY <1>4 DEF CollectModelInfo, ReplaceJobs
  <2>2. \E fresh :
         /\ \A j \in fresh : j.call = r.job.call /\ j.kind = "view" /\ j.name = model.name
         /\ ToSet(queue') = fresh
         /\ Pending' = (Pending \ {r.job}) \cup fresh
    <3>1. CASE model.listed
      BY <1>0, <1>4, <3>1, CollectMoves
    <3>2. CASE ~ model.listed
      <4>1. queue' = <<>>
        BY <1>4, <3>2 DEF CollectModelInfo, ReplaceJobs
      <4>2. (settled \ {r}) \in SUBSET settled /\ {x.job : x \in settled \ (settled \ {r})} = {r.job}
        OBVIOUS
      <4>3. ToSet(queue') = {} /\ Pending' = Pending \ {x.job : x \in settled \ (settled \ {r})}
        BY <1>0, <1>1, <2>1, <4>1, <4>2, EmptiedMoves
      <4> DEFINE fresh == {}
      <4>4. /\ \A j \in fresh : j.call = r.job.call /\ j.kind = "view" /\ j.name = model.name
            /\ ToSet(queue') = fresh /\ Pending' = (Pending \ {r.job}) \cup fresh
        BY <4>2, <4>3
      <4> HIDE DEF fresh
      <4> QED BY <4>4
    <3> QED BY <3>1, <3>2
  <2>3. PICK fresh :
         /\ \A j \in fresh : j.call = r.job.call /\ j.kind = "view" /\ j.name = model.name
         /\ ToSet(queue') = fresh
         /\ Pending' = (Pending \ {r.job}) \cup fresh
    BY <2>2
  <2>4. \A x \in settled' : ~ Done(x) /\ x.job.call < e /\ x.job.call # e
    <3>1. \A x \in Cancelled(Dropped) : x.job \in Dropped /\ x.res = "cancelled"
      BY <1>0, DroppedTypes
    <3>2. \A i \in Dropped : i \in ToSet(queue) \cup columnJobs /\ i \in Pending
      BY DEF Dropped, Pending
    <3>3. \A i \in Pending : i.call \in Int /\ i.call <= e
      <4>1. Calls \subseteq Int
        BY MaxCallsAssumption DEF Calls
      <4> QED BY <1>0, <4>1, PendingFacts DEF Newest, JobsUpTo
    <3>4. \A i \in Dropped : i.call < e /\ i.call # e
      <4>1. \A n \in Int : n <= e /\ n # e => n < e
        BY <1>0
      <4> QED BY <1>2, <3>2, <3>3, <4>1
    <3> QED BY <1>2, <2>1, <3>1, <3>4 DEF Done
  <2>5. e \in 0..arrived'
    BY <1>0, <1>1 DEF Newest
  <2>6. JobsUpTo(e)'
    <3>1. r.job \in Pending
      BY DEF Pending
    <3> QED BY <1>0, <1>1, <2>1, <2>3, <3>1 DEF Newest, JobsUpTo
  <2>7. SettledBefore(e)' /\ WaitsFirst(e)' /\ CancelsOlder(e)'
    BY <2>3, <2>4 DEF SettledBefore, WaitsFirst, CancelsOlder, Done
  <2>8. RunsFirst(e)'
    <3>1. \A j \in columnJobs' : j.call # e
      BY <1>2, <2>1
    <3> QED BY <1>0, <1>1, <1>2, <2>3, <2>4, <3>1 DEF Newest, RunsFirst, Done
  <2> QED BY <1>4, <2>4, <2>5, <2>6, <2>7, <2>8 DEF Newest
<1> QED BY <1>3, <1>4

\* It creates the view of the last query, for the newest edit or ahead of it.
LEMMA CollectEdit ==
  ASSUME CallsInv, NEW e, EditOf(e), NEW r \in settled, CollectModelInfo(r), model.listed
  PROVE  EditOf(e)'
<1>0. TypeOK /\ OnePlace /\ Exclusive /\ model \in ModelRecords /\ Newest(e) /\ ViewsOf(model.query)
  BY DEF CallsInv, TypeOK, EditOf
<1>1. /\ UNCHANGED <<running, view, arrived, parts>> /\ r.res = "ok" /\ r.job.kind = "validate"
      /\ model'.query = model.query /\ model'.name = model.name
  BY <1>0 DEF CollectModelInfo, Resume, ModelRecords
<1>2. /\ settled = {r} /\ settled \ {r} = {} /\ Done(r)
      /\ \A j \in ToSet(queue) : j.kind # "validate"
      /\ running # NoJob /\ running.kind = "validate" => r.job.call # e
  <2>1. Done(r)
    BY <1>1 DEF Done
  <2> QED BY <1>0, <1>1, <2>1, DoneFacts
<1>3. CASE model.query = Empty
  <2>1. settled' = settled \ {r} /\ UNCHANGED <<queue, columnJobs>>
    BY <1>3 DEF CollectModelInfo, Resumed
  <2>2. Newest(e)' /\ ViewsOf(model.query)'
    BY <1>0, <1>1, <2>1, PlainNewest
  <2>3. ~ Good'
    BY <1>1, <1>3 DEF Good
  <2> QED BY <2>2, <2>3 DEF EditOf, Stage
<1>4. CASE model.query # Empty
  <2>1. PICK j \in Jobs :
         /\ j.call = r.job.call /\ j.kind = "view" /\ j.query = model.query /\ j.name = model.name
         /\ ToSet(queue') = {j} /\ columnJobs' = columnJobs \ Dropped
         /\ Pending' = (Pending \ {r.job}) \cup {j}
    BY <1>0, <1>4, CollectMoves
  <2>2. Newest(e)' /\ \A x \in settled' : ~ Done(x) /\ x.job.call # e
    BY <1>0, <1>4, CollectNewest
  <2>4. ViewsOf(model.query)'
    BY <1>0, <1>1, <1>2, <2>1 DEF ViewsOf
  <2>5. Stage(e)'
    <3> SUFFICES ASSUME Good PROVE Stage(e)'
      BY <1>1 DEF Stage, Good
    <3> DEFINE q == model.query
    <3>1. Validating(e, q)
      BY <1>1, <1>2 DEF EditOf, Stage, CreatingView, ViewIs, Validated
    <3>2. pc' = pc
      BY <1>4 DEF CollectModelInfo
    <3>3. CASE r.job.call # e
      <4>1. \E i \in Pending' : i.call = e /\ i.kind = "validate" /\ i.query = q
        BY <2>1, <3>1, <3>3 DEF Validating
      <4>2. \A i \in Pending' : i.call = e => i.kind = "validate"
        BY <2>1, <3>1, <3>3 DEF Validating, OnlyJobs
      <4>3. Validating(e, q)'
        <5>1. pc'[e] = "busy"
          BY <3>1, <3>2 DEF Validating
        <5>2. \A x \in settled' : x.job.call = e => x.res = "ok"
          BY <2>2
        <5> QED BY <1>1, <4>1, <4>2, <5>1, <5>2 DEF Validating, OnlyJobs
      <4> QED BY <1>1, <4>3 DEF Stage
    <3>4. CASE r.job.call = e
      <4>1. Validated'
        BY <1>1, <1>2, <2>1, <2>2, <3>4 DEF Validated, Done
      <4>2. \A i \in Pending : i.call = e => i = r.job
        <5>1. r.job \in Pending /\ r.job.kind \notin PartKinds
          BY <1>1, ColumnsFacts DEF Pending
        <5> QED BY <1>0, <3>4, <5>1 DEF Exclusive
      <4>3. /\ \E i \in Pending' : i.call = e /\ i.kind = "view" /\ i.query = q
            /\ \A i \in Pending' : i.call = e => i.kind = "view" /\ i.query = q
        BY <2>1, <3>4, <4>2
      <4>4. pc'[e] = "busy"
        BY <3>1, <3>2 DEF Validating
      <4>5. CreatingView(e, q)'
        <5>1. \A x \in settled' : x.job.call = e => x.res = "ok" /\ view'[model'.name] = q
          BY <2>2
        <5> QED BY <1>1, <4>1, <4>3, <4>4, <5>1 DEF CreatingView
      <4> QED BY <1>1, <4>5 DEF Stage
    <3> QED BY <3>3, <3>4
  <2> QED BY <2>2, <2>4, <2>5 DEF EditOf
<1> QED BY <1>3, <1>4

\* What comes after the view and after the columns waits behind the other jobs.
LEMMA ViewNewest ==
  ASSUME CallsInv, NEW e, Newest(e), NEW r \in settled, ViewCreated(r)
  PROVE  /\ Newest(e)' /\ settled' = {}
         /\ ViewsOf(model.query) => ViewsOf(model.query)'
         /\ Validated => Validated'
<1>0. /\ TypeOK /\ OnePlace /\ Exclusive /\ model \in ModelRecords
  BY DEF CallsInv, TypeOK
<1>1. /\ UNCHANGED <<running, arrived>> /\ Done(r)
      /\ model'.query = model.query /\ model'.name = model.name
  BY <1>0 DEF ViewCreated, Resume, ModelRecords, Done
<1>2. PICK j \in Jobs :
       /\ j.call = r.job.call /\ j.kind = "columns" /\ j.name = r.job.name
       /\ ToSet(queue') = ToSet(queue) \cup {j} /\ columnJobs' = columnJobs /\ settled' = settled \ {r}
       /\ Pending' = (Pending \ {r.job}) \cup {j}
  BY <1>0, ViewMoves
<1> DEFINE new  == {j}
           more == {}
<1>3. /\ ToSet(queue') = ToSet(queue) \cup new /\ columnJobs' = columnJobs \cup more
      /\ Pending' = (Pending \ {r.job}) \cup (new \cup more)
      /\ \A i \in new \cup more : i.call = r.job.call /\ i.name = r.job.name
      /\ \A i \in new \cup more : i.kind \notin {"rename", "validate", "view"}
      /\ \A i \in more : i.kind \in ColumnNames
  BY <1>2
<1> HIDE DEF new, more
<1> QED BY <1>1, <1>2, <1>3, BehindNewest

LEMMA ColumnsNewest ==
  ASSUME CallsInv, NEW e, Newest(e), NEW r \in settled, ColumnsKnown(r)
  PROVE  /\ Newest(e)' /\ settled' = {}
         /\ ViewsOf(model.query) => ViewsOf(model.query)'
         /\ Validated => Validated'
<1>0. /\ TypeOK /\ OnePlace /\ Exclusive /\ model \in ModelRecords
  BY DEF CallsInv, TypeOK
<1>1. /\ UNCHANGED <<running, arrived>> /\ Done(r) /\ settled' = settled \ {r}
      /\ model'.query = model.query /\ model'.name = model.name
  BY <1>0, ZenonT(60) DEF ColumnsKnown, NoTable, CopyProfile, Profile, Resume, Resumed, ModelRecords, Done
<1>2. CASE NoTable(r)
  <2>1. UNCHANGED <<queue, columnJobs>>
    BY <1>2 DEF NoTable
  <2>2. settled' = {}
    BY <1>1, DoneFacts
  <2> QED BY <1>1, <2>1, <2>2, PlainNewest
<1>3. CASE CopyProfile(r)
  <2>1. PICK j \in Jobs :
         /\ j.call = r.job.call /\ j.name = r.job.name /\ j.kind = "copyPreview"
         /\ ToSet(queue') = ToSet(queue) \cup {j} /\ columnJobs' = columnJobs
         /\ Pending' = (Pending \ {r.job}) \cup {j}
    BY <1>0, <1>3, CopyMoves
  <2> DEFINE new  == {j}
             more == {}
  <2>2. /\ ToSet(queue') = ToSet(queue) \cup new /\ columnJobs' = columnJobs \cup more
        /\ Pending' = (Pending \ {r.job}) \cup (new \cup more)
        /\ \A i \in new \cup more : i.call = r.job.call /\ i.name = r.job.name
        /\ \A i \in new \cup more : i.kind \notin {"rename", "validate", "view"}
        /\ \A i \in more : i.kind \in ColumnNames
    BY <2>1
  <2> HIDE DEF new, more
  <2> QED BY <1>1, <2>2, BehindNewest
<1>4. CASE Profile(r)
  <2>1. PICK new, more :
         /\ ToSet(queue') = ToSet(queue) \cup new /\ columnJobs' = columnJobs \cup more
         /\ Pending' = (Pending \ {r.job}) \cup (new \cup more)
         /\ \A j \in new \cup more : j.call = r.job.call /\ j.name = r.job.name
         /\ \A j \in more : j.kind \in ColumnNames
         /\ \A j \in new : j.kind \in {"preview", "cardinality"}
    BY <1>0, <1>4, ProfileMoves
  <2>2. \A i \in new \cup more : i.kind \notin {"rename", "validate", "view"}
    BY <2>1, ColumnsFacts
  <2> QED BY <1>1, <2>1, <2>2, BehindNewest
<1> QED BY <1>2, <1>3, <1>4 DEF ColumnsKnown

\* Once the view of the newest edit is there, it is the one of the query.
LEMMA ViewEdit ==
  ASSUME CallsInv, NEW e, EditOf(e), NEW r \in settled, ViewCreated(r)
  PROVE  EditOf(e)'
<1>0. /\ TypeOK /\ OnePlace /\ Exclusive /\ model \in ModelRecords /\ Newest(e) /\ ViewsOf(model.query)
      /\ r.job \in Pending
  BY DEF CallsInv, TypeOK, EditOf, Pending
<1>1. /\ UNCHANGED <<running, view, arrived, parts, pc>> /\ r.res = "ok" /\ r.job.kind = "view"
      /\ model'.query = model.query /\ model'.name = model.name /\ model'.profile = model.profile
      /\ model'.error = model.error /\ model'.preview = model.preview /\ model'.profiled = model.profiled
  BY <1>0 DEF ViewCreated, Resume, ModelRecords
<1>3. PICK j \in Jobs :
       /\ j.call = r.job.call /\ j.kind = "columns" /\ settled' = settled \ {r}
       /\ Pending' = (Pending \ {r.job}) \cup {j}
  BY <1>0, ViewMoves
<1>4. Newest(e)' /\ settled' = {} /\ ViewsOf(model.query)' /\ (Validated => Validated')
  BY <1>0, ViewNewest
<1>8. Stage(e)'
  <2> SUFFICES ASSUME Good PROVE Stage(e)'
    BY <1>1 DEF Stage, Good
  <2> DEFINE q == model.query
  <2>0. /\ \A i \in Pending : i # r.job => i \in Pending'
        /\ \A i \in Pending' : i \in Pending \/ i.call = r.job.call
    BY <1>3
  <2>1. pc' = [pc EXCEPT ![r.job.call] = pc[r.job.call]]
    BY <1>0, <1>1 DEF TypeOK
  <2>2. CASE Validating(e, q) \/ (CreatingView(e, q) /\ r.job.call # e)
    <3>1. r.job.call # e
      BY <1>0, <1>1, <2>2 DEF Validating, OnlyJobs
    <3>2. Validating(e, q)' \/ CreatingView(e, q)'
      BY <1>0, <1>1, <1>3, <1>4, <2>0, <2>1, <2>2, <3>1, EarlierStage
    <3> QED BY <1>1, <3>2 DEF Stage
  <2>3. CASE CreatingView(e, q) /\ r.job.call = e
    <3>1. ViewIs(q)'
      BY <1>1, <1>4, <2>3 DEF CreatingView, ViewIs
    <3>2. HasJob(e, "columns")'
      BY <1>3, <2>3 DEF HasJob
    <3>3. OnlyJobs(e, {"view", "columns"})'
      BY <1>3, <2>3 DEF CreatingView, OnlyJobs
    <3>4. ReadingColumns(e)'
      BY <1>1, <2>3, <3>2, <3>3 DEF CreatingView, ReadingColumns
    <3> QED BY <1>1, <3>1, <3>4 DEF Stage
  <2>4. CASE ViewIs(q) /\ (ReadingColumns(e) \/ Profiling(e, q))
    <3>1. ViewIs(q)'
      BY <1>1, <1>4, <2>4 DEF ViewIs
    <3>2. \A kind \in PartKinds \cup {"columns", "copyPreview"} : HasJob(e, kind) => HasJob(e, kind)'
      BY <1>1, <2>0, ColumnsFacts DEF HasJob
    <3>3. ReadingColumns(e) => ReadingColumns(e)'
      <4>1. OnlyJobs(e, {"view", "columns"}) => OnlyJobs(e, {"view", "columns"})'
        BY <1>3 DEF OnlyJobs
      <4> QED BY <1>1, <3>2, <4>1 DEF ReadingColumns
    <3>4. Profiling(e, q) => Profiling(e, q)'
      <4>1. e \in Calls => parts[e] \subseteq PartKinds
        BY <1>0 DEF TypeOK
      <4> QED BY <1>1, <3>2, <4>1 DEF Profiling, Shown
    <3> QED BY <1>1, <2>4, <3>1, <3>3, <3>4 DEF Stage
  <2> QED BY <2>2, <2>3, <2>4 DEF EditOf, Stage
<1> QED BY <1>4, <1>8 DEF EditOf

\* The columns, read for whichever edit, are those of the view.
LEMMA ColumnsEdit ==
  ASSUME CallsInv, NEW e, EditOf(e), NEW r \in settled, ColumnsKnown(r)
  PROVE  EditOf(e)'
<1>0. /\ TypeOK /\ OnePlace /\ Exclusive /\ model \in ModelRecords /\ Newest(e) /\ ViewsOf(model.query)
      /\ r.job \in Pending /\ r.job.call \in Calls
      /\ pc \in [Calls -> {"none", "busy", "done"}] /\ parts \in [Calls -> SUBSET PartKinds]
  BY PendingFacts DEF CallsInv, TypeOK, EditOf, Pending
<1>1. /\ UNCHANGED <<running, view, arrived>> /\ r.res = "ok" /\ r.job.kind = "columns" /\ Done(r)
      /\ model'.query = model.query /\ model'.name = model.name /\ model'.error = NoQuery
      /\ NoTable(r) => model.query \in ModelCopies
      /\ CopyProfile(r) => model'.profile = model.query
      /\ Profile(r) => model'.profile = r.got
      /\ model'.preview = model.preview /\ model'.profiled = model.profiled
  BY <1>0, ZenonT(60)
     DEF ColumnsKnown, NoTable, CopyProfile, Profile, Resume, ModelRecords, ErrorAfterColumns, Done
<1>2. Newest(e)' /\ settled' = {} /\ ViewsOf(model.query)' /\ (Validated => Validated')
  BY <1>0, ColumnsNewest
<1>3. \E w, ps, fresh :
         /\ settled' = settled \ {r}
         /\ pc' = [pc EXCEPT ![r.job.call] = w] /\ parts' = [parts EXCEPT ![r.job.call] = ps]
         /\ Pending' = (Pending \ {r.job}) \cup fresh
         /\ \A j \in fresh : j.call = r.job.call
         /\ \/ model.query \in ModelCopies
            \/ \E j \in fresh : j.kind = "copyPreview"
            \/ w = pc[r.job.call] /\ "preview" \in ps /\ \A k \in ps : \E j \in fresh : j.kind = k
  <2>1. /\ settled' = settled \ {r}
        /\ pc = [pc EXCEPT ![r.job.call] = pc[r.job.call]]
        /\ parts = [parts EXCEPT ![r.job.call] = parts[r.job.call]]
    BY <1>0 DEF ColumnsKnown, Resumed
  <2>2. CASE NoTable(r)
    <3>1. /\ UNCHANGED <<queue, columnJobs, parts>> /\ pc' = [pc EXCEPT ![r.job.call] = "done"]
      BY <2>2 DEF NoTable, PcIs
    <3>2. Pending' = Pending \ {r.job}
      BY <1>0, <1>1, <2>1, <3>1, PlainMoves
    <3> DEFINE fresh == {}
    <3>3. Pending' = (Pending \ {r.job}) \cup fresh /\ \A j \in fresh : j.call = r.job.call
      BY <3>2
    <3> HIDE DEF fresh
    <3> QED BY <1>1, <2>1, <2>2, <3>1, <3>3
  <2>3. CASE CopyProfile(r)
    <3>1. PICK j \in Jobs :
           /\ j.call = r.job.call /\ j.kind = "copyPreview"
           /\ parts' = parts /\ Pending' = (Pending \ {r.job}) \cup {j}
      BY <1>0, <2>3, CopyMoves
    <3>2. pc' = pc
      BY <2>3 DEF CopyProfile
    <3> DEFINE fresh == {j}
    <3>3. /\ Pending' = (Pending \ {r.job}) \cup fresh /\ \A i \in fresh : i.call = r.job.call
          /\ \E i \in fresh : i.kind = "copyPreview"
      BY <3>1
    <3> HIDE DEF fresh
    <3> QED BY <2>1, <3>1, <3>2, <3>3
  <2>4. CASE Profile(r)
    <3>1. PICK new, more :
           /\ settled' = settled \ {r}
           /\ parts' = [parts EXCEPT ![r.job.call] = PartsOf(r)]
           /\ ToSet(queue') = ToSet(queue) \cup new /\ columnJobs' = columnJobs \cup more
           /\ Pending' = (Pending \ {r.job}) \cup (new \cup more)
           /\ \A j \in new \cup more : j.call = r.job.call /\ j.name = r.job.name
           /\ \A j \in more : j.kind \in ColumnNames
           /\ \A j \in new : j.kind \in {"preview", "cardinality"}
           /\ \A k \in PartsOf(r) : \E j \in new \cup more : j.kind = k
           /\ OnePlace'
      BY <1>0, <2>4, ProfileMoves
    <3>2. pc' = pc
      BY <2>4 DEF Profile
    <3> DEFINE fresh == new \cup more
               ps    == PartsOf(r)
    <3>3. /\ Pending' = (Pending \ {r.job}) \cup fresh /\ \A i \in fresh : i.call = r.job.call
          /\ \A k \in ps : \E i \in fresh : i.kind = k
      BY <3>1
    <3>4. /\ pc' = [pc EXCEPT ![r.job.call] = pc[r.job.call]]
          /\ parts' = [parts EXCEPT ![r.job.call] = ps] /\ "preview" \in ps
      BY <2>1, <3>1, <3>2 DEF PartsOf
    <3> HIDE DEF fresh, ps
    <3>5. /\ settled' = settled \ {r}
          /\ pc' = [pc EXCEPT ![r.job.call] = pc[r.job.call]] /\ parts' = [parts EXCEPT ![r.job.call] = ps]
          /\ Pending' = (Pending \ {r.job}) \cup fresh
          /\ \A j \in fresh : j.call = r.job.call
          /\ \/ model.query \in ModelCopies
             \/ \E j \in fresh : j.kind = "copyPreview"
             \/ /\ pc[r.job.call] = pc[r.job.call] /\ "preview" \in ps
                /\ \A k \in ps : \E j \in fresh : j.kind = k
      BY <2>1, <3>3, <3>4
    <3> QED BY <3>5
  <2> QED BY <2>2, <2>3, <2>4 DEF ColumnsKnown
<1>4. PICK w, ps, fresh :
         /\ settled' = settled \ {r}
         /\ pc' = [pc EXCEPT ![r.job.call] = w] /\ parts' = [parts EXCEPT ![r.job.call] = ps]
         /\ Pending' = (Pending \ {r.job}) \cup fresh
         /\ \A j \in fresh : j.call = r.job.call
         /\ \/ model.query \in ModelCopies
            \/ \E j \in fresh : j.kind = "copyPreview"
            \/ w = pc[r.job.call] /\ "preview" \in ps /\ \A k \in ps : \E j \in fresh : j.kind = k
  BY <1>3
<1>5. Stage(e)'
  <2> SUFFICES ASSUME Good PROVE Stage(e)'
    BY <1>1 DEF Stage, Good
  <2> DEFINE q == model.query
  <2>0. /\ settled' = settled \ {r} /\ view' = view /\ model'.name = model.name /\ model'.query = q
        /\ \A i \in Pending : i # r.job => i \in Pending'
        /\ \A i \in Pending' : i \in Pending \/ i.call = r.job.call
    BY <1>1, <1>4
  <2>1. CASE Validating(e, q) \/ CreatingView(e, q)
    <3>1. r.job.call # e
      BY <1>0, <1>1, <2>1 DEF Validating, OnlyJobs, CreatingView
    <3>2. Validating(e, q)' \/ CreatingView(e, q)'
      BY <1>0, <1>2, <1>4, <2>0, <2>1, <3>1, EarlierStage
    <3> QED BY <1>1, <3>2 DEF Stage
  <2>2. CASE ViewIs(q) /\ (ReadingColumns(e) \/ Profiling(e, q))
    <3>1. ViewIs(q)'
      BY <1>1, <1>2, <2>2 DEF ViewIs
    <3>2. Shown(q)'
      <4>1. r.got = q
        BY <1>1, <2>2 DEF ViewIs
      <4> QED BY <1>1, <4>1 DEF ColumnsKnown, Shown
    <3>3. CASE q \in ModelCopies
      <4>1. Profiling(e, q)'
        BY <1>1, <3>2, <3>3 DEF Profiling
      <4> QED BY <1>1, <3>1, <4>1 DEF Stage
    <3>4. CASE q \notin ModelCopies /\ r.job.call # e
      <4>1. /\ ReadingColumns(e) => ReadingColumns(e)'
            /\ \A kind : HasJob(e, kind) => HasJob(e, kind)'
            /\ e \in Calls => pc'[e] = pc[e]
        BY <1>0, <1>2, <1>4, <2>0, <3>4, EarlierStage
      <4>2. e \in Calls => parts'[e] = parts[e]
        BY <1>0, <1>4, <3>4
      <4>3. Profiling(e, q) => Profiling(e, q)'
        BY <1>1, <3>2, <3>4, <4>1, <4>2 DEF Profiling
      <4> QED BY <1>1, <2>2, <3>1, <4>1, <4>3 DEF Stage
    <3>5. CASE q \notin ModelCopies /\ r.job.call = e
      <4>0. \A i \in Pending : i.call = e => i = r.job
        <5>1. "columns" \notin PartKinds
          BY ColumnsFacts
        <5> QED BY <1>0, <1>1, <3>5, <5>1 DEF Exclusive
      <4>1. CASE Profiling(e, q)
        <5>1. \A kind : HasJob(e, kind) => kind = "columns"
          BY <1>1, <4>0 DEF HasJob
        <5>2. e \in Calls => parts[e] \subseteq PartKinds /\ "columns" \notin PartKinds
          BY <1>0, ColumnsFacts
        <5>3. model.preview = q /\ model.profiled
          <6>1. ~ HasJob(e, "copyPreview")
            BY <5>1
          <6>2. e \in Calls /\ parts[e] # {} => ~ \A k \in parts[e] : HasJob(e, k)
            BY <5>1, <5>2
          <6> QED BY <3>5, <4>1, <6>1, <6>2 DEF Profiling
        <5>4. Profiling(e, q)'
          BY <1>1, <3>2, <5>3 DEF Profiling
        <5> QED BY <1>1, <3>1, <5>4 DEF Stage
      <4>2. CASE ReadingColumns(e)
        <5>1. CASE \E j \in fresh : j.kind = "copyPreview"
          <6>1. HasJob(e, "copyPreview")'
            BY <1>4, <3>5, <5>1 DEF HasJob
          <6>2. Profiling(e, q)'
            BY <3>2, <6>1 DEF Profiling
          <6> QED BY <1>1, <3>1, <6>2 DEF Stage
        <5>2. CASE w = pc[e] /\ "preview" \in ps /\ \A k \in ps : \E j \in fresh : j.kind = k
          <6>1. e \in Calls /\ parts'[e] = ps /\ pc'[e] = "busy"
            BY <1>0, <1>4, <3>5, <4>2, <5>2 DEF ReadingColumns
          <6>2. \A k \in ps : HasJob(e, k)'
            BY <1>4, <3>5, <5>2 DEF HasJob
          <6>3. ps # {}
            BY <5>2
          <6>4. Profiling(e, q)'
            BY <3>2, <5>2, <6>1, <6>2, <6>3 DEF Profiling
          <6> QED BY <1>1, <3>1, <6>4 DEF Stage
        <5> QED BY <1>4, <3>5, <5>1, <5>2
      <4> QED BY <2>2, <4>1, <4>2
    <3> QED BY <3>3, <3>4, <3>5
  <2> QED BY <2>1, <2>2 DEF EditOf, Stage
<1> QED BY <1>2, <1>5 DEF EditOf

\* A copied profile is complete with its preview.
LEMMA CopyEdit ==
  ASSUME CallsInv, NEW e, EditOf(e), NEW r \in settled, CopyPreview(r)
  PROVE  EditOf(e)'
<1>0. TypeOK /\ model \in ModelRecords /\ Newest(e) /\ ViewsOf(model.query)
  BY DEF CallsInv, TypeOK, EditOf
<1>1. /\ settled' = settled \ {r} /\ UNCHANGED <<queue, columnJobs, running, view, arrived, parts>>
      /\ pc' = [pc EXCEPT ![r.job.call] = "done"] /\ r.job.kind = "copyPreview"
      /\ model'.query = model.query /\ model'.name = model.name /\ model'.profile = model.profile
      /\ model'.error = model.error
      /\ r.res = "ok" => model'.preview = r.got /\ model'.profiled
  BY <1>0 DEF CopyPreview, Resume, Resumed, PcIs, ModelRecords
<1>2. /\ Newest(e)' /\ ViewsOf(model.query)' /\ Pending' = Pending \ {r.job}
      /\ Validated => Validated'
  BY <1>0, <1>1, PlainNewest
<1>3. r.job \in Pending
  BY DEF Pending
<1>4. Stage(e)'
  <2> SUFFICES ASSUME Good PROVE Stage(e)'
    BY <1>1 DEF Stage, Good
  <2> DEFINE q == model.query
  <2>1. CASE Validating(e, q) \/ CreatingView(e, q)
    <3>1. r.job.call # e
      BY <1>1, <1>3, <2>1 DEF Validating, OnlyJobs, CreatingView
    <3>2. Validating(e, q)' \/ CreatingView(e, q)'
      BY <1>0, <1>1, <1>2, <2>1, <3>1, EarlierStage
    <3> QED BY <1>1, <3>2 DEF Stage
  <2>2. CASE ViewIs(q) /\ (ReadingColumns(e) \/ Profiling(e, q))
    <3>1. ViewIs(q)'
      BY <1>1, <1>2, <2>2 DEF ViewIs, Done
    <3>2. r.got = q /\ r.res = "ok"
      BY <1>1, <2>2, ColumnsFacts DEF ViewIs
    <3>3. CASE Profiling(e, q)
      <4>1. Profiling(e, q)'
        BY <1>1, <3>2, <3>3 DEF Profiling, Shown
      <4> QED BY <1>1, <3>1, <4>1 DEF Stage
    <3>4. CASE ReadingColumns(e)
      <4>1. r.job.call # e
        BY <1>1, <1>3, <3>4 DEF ReadingColumns, OnlyJobs
      <4>2. ReadingColumns(e)'
        BY <1>0, <1>1, <1>2, <3>4, <4>1, EarlierStage
      <4> QED BY <1>1, <3>1, <4>2 DEF Stage
    <3> QED BY <2>2, <3>3, <3>4
  <2> QED BY <2>1, <2>2 DEF EditOf, Stage
<1> QED BY <1>2, <1>4 DEF EditOf

\* A part of whichever edit, that has run on the view of the query.
LEMMA PartEdit ==
  ASSUME CallsInv, NEW e, EditOf(e), NEW r \in settled, Part(r), e = current, current' # 0
  PROVE  EditOf(e)'
<1> DEFINE c       == r.job.call
           left    == StillAwaited(r)
           ok      == r.res = "ok"
           column  == r.job.kind \in ColumnNames
           awaited == pc[c] = "busy"
           bad     == late \/ (column /\ ok /\ r.job.kind \notin ProfileColumns)
           lost    == awaited /\ ~ column /\ (~ ok \/ late)
           whole   == awaited /\ ~ lost /\ left = {}
<1>0. /\ TypeOK /\ model \in ModelRecords /\ Newest(e) /\ ViewsOf(model.query)
      /\ pc \in [Calls -> {"none", "busy", "done"}] /\ parts \in [Calls -> SUBSET PartKinds]
      /\ r.job \in Pending /\ c \in Calls
  BY PendingFacts DEF CallsInv, TypeOK, Pending, EditOf
<1>1. /\ settled' = settled \ {r} /\ UNCHANGED <<queue, columnJobs, running, view, arrived>>
      /\ pc' = [pc EXCEPT ![c] = IF lost \/ whole THEN "done" ELSE pc[c]]
      /\ parts' = [parts EXCEPT ![c] = left]
      /\ r.job.kind \in PartKinds
  BY DEF Part, Resume, Resumed, PcIs
<1>2. /\ model'.query = model.query /\ model'.name = model.name /\ model'.profile = model.profile
      /\ model'.preview = IF r.job.kind = "preview" /\ ok /\ ~ late THEN r.got ELSE model.preview
      /\ model.error = NoQuery /\ (ok \/ ~ lost) => model'.error = NoQuery
      /\ model'.profiled = (model.profiled \/ (whole /\ ~ bad))
      /\ c = e => ~ (bad /\ (lost \/ whole))
  BY <1>0 DEF Part, ModelRecords
<1>3. /\ Newest(e)' /\ ViewsOf(model.query)' /\ Pending' = Pending \ {r.job}
      /\ Validated => Validated'
  BY <1>0, <1>1, <1>2, PlainNewest
<1>4. Stage(e)'
  <2> SUFFICES ASSUME Good PROVE Stage(e)'
    BY <1>2 DEF Stage, Good
  <2> DEFINE q == model.query
  <2>0. r.job.kind \notin {"validate", "view", "columns", "copyPreview"}
    BY <1>1, ColumnsFacts
  <2>1. CASE Validating(e, q) \/ CreatingView(e, q)
    <3>1. r.job.call # e
      BY <1>0, <2>0, <2>1 DEF Validating, OnlyJobs, CreatingView
    <3>2. Validating(e, q)' \/ CreatingView(e, q)'
      BY <1>0, <1>1, <1>2, <1>3, <2>1, <3>1, EarlierStage
    <3> QED BY <1>2, <3>2 DEF Stage
  <2>2. CASE ViewIs(q) /\ (ReadingColumns(e) \/ Profiling(e, q))
    <3>1. ViewIs(q)'
      BY <1>1, <1>2, <1>3, <2>2 DEF ViewIs, Done
    <3>2. r.got = q /\ (ok \/ column)
      BY <2>2 DEF ViewIs
    <3>5. column => ~ lost /\ r.job.kind # "preview"
      BY ColumnsAssumption
    <3>3. CASE ReadingColumns(e)
      <4>1. c # e
        BY <1>0, <2>0, <3>3 DEF ReadingColumns, OnlyJobs
      <4>2. ReadingColumns(e)'
        BY <1>0, <1>1, <1>2, <1>3, <3>3, <4>1, EarlierStage
      <4> QED BY <1>2, <3>1, <4>2 DEF Stage
    <3>4. CASE Profiling(e, q)
      <4>1. Shown(q)'
        BY <1>2, <3>2, <3>4, <3>5 DEF Profiling, Shown
      <4>2. model.preview = q => model'.preview = q
        BY <1>2, <3>2
      <4>3. \A kind : HasJob(e, kind) /\ (kind # r.job.kind \/ c # e) => HasJob(e, kind)'
        BY <1>3 DEF HasJob
      <4>7. CASE q \in ModelCopies
        <5>1. Profiling(e, q)'
          BY <1>2, <4>1, <4>7 DEF Profiling
        <5> QED BY <1>2, <3>1, <5>1 DEF Stage
      <4>4. CASE HasJob(e, "copyPreview")
        <5>1. Profiling(e, q)'
          BY <2>0, <4>1, <4>3, <4>4 DEF Profiling
        <5> QED BY <1>2, <3>1, <5>1 DEF Stage
      <4>5. CASE model.preview = q /\ model.profiled
        <5>1. Profiling(e, q)'
          BY <1>2, <4>1, <4>2, <4>5 DEF Profiling
        <5> QED BY <1>2, <3>1, <5>1 DEF Stage
      <4>6. CASE /\ e \in Calls /\ pc[e] = "busy" /\ parts[e] # {}
                 /\ \A k \in parts[e] : HasJob(e, k)
                 /\ "preview" \in parts[e] \/ model.preview = q
        <5>1. CASE c # e
          <6>1. pc'[e] = pc[e] /\ parts'[e] = parts[e]
            BY <1>0, <1>1, <4>6, <5>1
          <6>2. Profiling(e, q)'
            BY <1>2, <4>1, <4>2, <4>3, <4>6, <5>1, <6>1 DEF Profiling
          <6> QED BY <1>2, <3>1, <6>2 DEF Stage
        <5>2. CASE c = e
          <6>0. ~ lost /\ (whole => ~ bad)
            BY <1>2, <3>2, <3>5, <5>2
          <6>1. "preview" \in left \/ model'.preview = q
            <7>1. CASE r.job.kind = "preview"
              <8>1. ok /\ ~ late
                BY <3>2, <3>5, <4>6, <5>2, <6>0, <7>1
              <8> QED BY <1>2, <3>2, <7>1, <8>1
            <7>2. CASE r.job.kind # "preview" /\ "preview" \in parts[e]
              BY <5>2, <7>2, ColumnsAssumption DEF StillAwaited
            <7> QED BY <4>2, <4>6, <7>1, <7>2
          <6>2. CASE left = {}
            <7>1. model'.preview = q /\ model'.profiled
              BY <1>2, <4>6, <5>2, <6>0, <6>1, <6>2
            <7>2. Profiling(e, q)'
              BY <1>2, <4>1, <7>1 DEF Profiling
            <7> QED BY <1>2, <3>1, <7>2 DEF Stage
          <6>3. CASE left # {}
            <7>1. pc'[e] = "busy" /\ parts'[e] = left
              BY <1>0, <1>1, <4>6, <5>2, <6>0, <6>3
            <7>2. \A k \in left : HasJob(e, k)'
              BY <4>3, <4>6, <5>2 DEF StillAwaited
            <7> HIDE DEF left
            <7>3. Profiling(e, q)'
              BY <1>2, <4>1, <4>6, <6>1, <6>3, <7>1, <7>2 DEF Profiling
            <7> QED BY <1>2, <3>1, <7>3 DEF Stage
          <6> QED BY <6>2, <6>3
        <5> QED BY <5>1, <5>2
      <4> QED BY <3>4, <4>4, <4>5, <4>6, <4>7 DEF Profiling
    <3> QED BY <2>2, <3>3, <3>4
  <2> QED BY <2>1, <2>2 DEF EditOf, Stage
<1> QED BY <1>3, <1>4 DEF EditOf

LEMMA InitEdit == Init => EditInv
<1> SUFFICES ASSUME Init PROVE Newest(0) /\ ~ Going /\ 0 \in 0..MaxCalls
  BY DEF EditInv
<1>1. queue = <<>> /\ columnJobs = {} /\ running = NoJob /\ settled = {} /\ arrived = 0 /\ current = 0
  BY DEF Init
<1>2. ToSet(queue) = {}
  BY <1>1 DEF ToSet
<1>3. Pending = {}
  BY <1>1, <1>2 DEF Pending
<1>4. Newest(0)
  BY <1>1, <1>2, <1>3 DEF Newest, JobsUpTo, SettledBefore, WaitsFirst, RunsFirst, CancelsOlder
<1> QED BY <1>1, <1>4, MaxCallsAssumption DEF Going

\* A call that goes on leaves the newest edit where it is or takes it further.
LEMMA ContinueEdit ==
  ASSUME CallsInv, NEW e \in 0..MaxCalls, Newest(e), Going => e = current /\ EditOf(e),
         NEW r \in settled, Continue(r), model'.exists
  PROVE  Newest(e)' /\ (Going' => e = current' /\ EditOf(e)')
<1>0. TypeOK /\ model \in ModelRecords
  BY DEF CallsInv, TypeOK
<1>1. ~ ModelGone(r) /\ ~ Renamed(r)
  <2>1. ~ Renamed(r)
    BY DEF Newest, JobsUpTo, Pending, Renamed, Resume
  <2> QED BY <2>1 DEF ModelGone
<1>2. CASE BrokenOff(r)
  <2>1. /\ settled' = settled \ {r} /\ UNCHANGED <<queue, columnJobs, running, arrived>>
        /\ model'.query = model.query /\ model'.name = model.name /\ model'.listed = model.listed
        /\ current' = IF r.job.call = current THEN 0 ELSE current
    BY <1>0, <1>2 DEF BrokenOff, Resume, Resumed, ModelRecords
  <2>2. Newest(e)'
    BY <2>1, PlainNewest
  <2>3. Going' => Going /\ current' = current /\ r.job.call # e
    BY <2>1 DEF Going
  <2> QED BY <1>2, <2>2, <2>3, BrokenOffEdit
<1>3. CASE QueryError(r) \/ EmptyQuery(r) \/ CopyPreview(r)
  <2>1. /\ settled' = settled \ {r} /\ UNCHANGED <<queue, columnJobs, running, arrived>>
        /\ model'.query = model.query /\ model'.name = model.name /\ model'.listed = model.listed
        /\ current' = current
    BY <1>0, <1>3 DEF QueryError, EmptyQuery, CopyPreview, Updates, Resume, Resumed, ModelRecords
  <2>2. Newest(e)'
    BY <2>1, PlainNewest
  <2> QED BY <1>3, <2>1, <2>2, FailedEdit, CopyEdit DEF Going
<1>4. CASE CollectModelInfo(r)
  <2>1. model'.listed = model.listed /\ current' = current
    BY <1>0, <1>4 DEF CollectModelInfo, Updates, ModelRecords
  <2>2. Newest(e)'
    BY <1>4, CollectNewest
  <2> QED BY <1>4, <2>1, <2>2, CollectEdit DEF Going
<1>5. CASE ViewCreated(r)
  <2>1. model'.listed = model.listed /\ current' = current
    BY <1>0, <1>5 DEF ViewCreated, Updates, ModelRecords
  <2>2. Newest(e)'
    BY <1>5, ViewNewest
  <2> QED BY <1>5, <2>1, <2>2, ViewEdit DEF Going
<1>6. CASE ColumnsKnown(r)
  <2>1. model'.listed = model.listed /\ current' = current
    BY <1>0, <1>6 DEF ColumnsKnown, NoTable, CopyProfile, Profile, Updates, ModelRecords
  <2>2. Newest(e)'
    BY <1>6, ColumnsNewest
  <2> QED BY <1>6, <2>1, <2>2, ColumnsEdit DEF Going
<1>7. CASE Part(r)
  <2>1. /\ settled' = settled \ {r} /\ UNCHANGED <<queue, columnJobs, running, arrived>>
        /\ model'.query = model.query /\ model'.name = model.name /\ model'.listed = model.listed
        /\ current' = 0 \/ current' = current
    BY <1>0, <1>7 DEF Part, Resume, Resumed, ModelRecords
  <2>2. Newest(e)'
    BY <2>1, PlainNewest
  <2>3. Going' => Going /\ current' = current /\ current' # 0
    BY <2>1 DEF Going
  <2> QED BY <1>7, <2>2, <2>3, PartEdit
<1> QED BY <1>1, <1>2, <1>3, <1>4, <1>5, <1>6, <1>7 DEF Continue

LEMMA EditStep == CallsInv /\ EditInv /\ [Next]_vars => EditInv'
<1> SUFFICES ASSUME CallsInv, EditInv, [Next]_vars, model'.exists, ~ renamed'
             PROVE  \E e \in 0..MaxCalls : Newest(e)' /\ (Going' => e = current' /\ EditOf(e)')
  BY DEF EditInv
<1>0. TypeOK /\ model \in ModelRecords
  BY DEF CallsInv, TypeOK
<1>1. CASE (OtherBatch /\ UNCHANGED <<renamed, current>>) \/ UNCHANGED vars
  <2>1. UNCHANGED <<model, view, queue, columnJobs, running, settled, arrived, pc, parts, renamed, current>>
    BY <1>1 DEF OtherBatch, vars, state
  <2>2. PICK e \in 0..MaxCalls : Newest(e) /\ (Going => e = current /\ EditOf(e))
    BY <2>1 DEF EditInv
  <2>3. Newest(e)'
    BY <2>1, <2>2 DEF Newest, JobsUpTo, SettledBefore, WaitsFirst, RunsFirst, CancelsOlder, Done, Pending
  <2>4. EditOf(e) => EditOf(e)'
    BY <2>1, <2>3 DEF EditOf, ViewsOf, Stage,
         Validating, CreatingView, ViewIs, ReadingColumns, Profiling, HasJob, OnlyJobs, Validated, Shown, Done,
         Pending, Good
  <2> QED BY <2>1, <2>2, <2>3, <2>4 DEF Going
<1>2. CASE (StartRun \/ Complete) /\ UNCHANGED <<renamed, current>>
  <2>1. model' = model
    BY <1>2 DEF StartRun, Complete
  <2>2. PICK e \in 0..MaxCalls : Newest(e) /\ (Going => e = current /\ EditOf(e))
    BY <1>2, <2>1 DEF EditInv
  <2>3. Newest(e)' /\ (EditOf(e) => EditOf(e)')
    BY <1>2, <2>2, StartNewest, CompleteNewest, StartEdit, CompleteEdit
  <2> QED BY <1>2, <2>1, <2>2, <2>3 DEF Going
<1>3. ASSUME NEW r \in settled, Continue(r), UNCHANGED renamed
      PROVE  \E e \in 0..MaxCalls : Newest(e)' /\ (Going' => e = current' /\ EditOf(e)')
  <2>1. model.exists
    BY <1>0, <1>3 DEF Continue, ModelGone, BrokenOff, QueryError, EmptyQuery, CollectModelInfo, ViewCreated,
         ColumnsKnown, CopyPreview, Part, Renamed, Updates
  <2>2. PICK e \in 0..MaxCalls : Newest(e) /\ (Going => e = current /\ EditOf(e))
    BY <1>3, <2>1 DEF EditInv
  <2> QED BY <1>3, <2>2, ContinueEdit
<1>4. ASSUME NEW c \in Calls, Request(c)
      PROVE  \E e \in 0..MaxCalls : Newest(e)' /\ (Going' => e = current' /\ EditOf(e)')
  <2>1. /\ model.exists /\ UNCHANGED renamed /\ ~ \E n \in Names : UpdateModelName(c, n)
        /\ c = arrived + 1 /\ arrived' = c /\ settled = {} /\ running' = running
    BY <1>0, <1>4
       DEF Request, UpdateModelName, UpdateModelQuery, UpdateUnchanged, DeleteModel, Arrive, Calm, CallsInv
  <2>2. PICK e \in 0..MaxCalls : Newest(e) /\ (Going => e = current /\ EditOf(e))
    BY <2>1 DEF EditInv
  <2>3. c \in 0..MaxCalls /\ c # 0
    BY MaxCallsAssumption DEF Calls
  <2>4. ASSUME NEW q \in Queries, UpdateModelQuery(c, q), ~ late
        PROVE  Newest(c)' /\ (Going' => c = current' /\ EditOf(c)')
    <3>1. EditOf(c)' /\ current' = c
      BY <2>2, <2>4, UpdateEdit DEF UpdateModelQuery
    <3> QED BY <3>1 DEF EditOf
  <2>5. ASSUME NEW q \in Queries, (UpdateModelQuery(c, q) /\ late) \/ DeleteModel(c)
        PROVE  Newest(c)' /\ ~ Going'
    <3>1. /\ queue' = <<>> /\ columnJobs' = columnJobs \ Dropped /\ settled' = Cancelled(Dropped)
          /\ model'.name = model.name /\ (current' = 0 \/ ~ model'.listed)
      BY <1>0, <2>5 DEF UpdateModelQuery, DeleteModel, ReplaceJobs, ModelRecords
    <3>2. Newest(c)'
      BY <2>1, <2>2, <3>1, ClearNewest
    <3> QED BY <3>1, <3>2 DEF Going
  <2>6. CASE UpdateUnchanged(c)
    <3>1. model'.listed = model.listed /\ current' = current
      BY <1>0, <2>6 DEF UpdateUnchanged, ModelRecords
    <3>2. Newest(e)'
      BY <2>2, <2>6, UnchangedNewest
    <3> QED BY <2>2, <2>6, <3>1, <3>2, UnchangedEdit DEF Going
  <2>7. Empty \in Queries
    BY QueriesAssumption
  <2> QED BY <1>4, <2>1, <2>3, <2>4, <2>5, <2>6, <2>7 DEF Request
<1> QED BY <1>1, <1>2, <1>3, <1>4 DEF Next

-----------------------------------------------------------------------------
(* The theorems                                                            *)

LEMMA Invariance == Spec => []IInv
<1>1. Init => IInv
  BY InitCalls, InitEdit DEF IInv
<1>2. IInv /\ [Next]_vars => IInv'
  BY CallsStep, EditStep DEF IInv
<1> QED BY <1>1, <1>2, PTL DEF Spec

\* The types of TypeOK: the model's record (stateTables.ts), the queue of its
\* id and what each call of ModelActions.ts may leave behind.
THEOREM TypeCorrect == Spec => []TypeOK
<1>1. IInv => TypeOK
  BY DEF IInv, CallsInv
<1> QED BY <1>1, Invariance, PTL

LEMMA NothingPending == TypeOK /\ AtRest => Pending = {}
<1> SUFFICES ASSUME AtRest PROVE Pending = {}
  OBVIOUS
<1>1. queue = <<>> /\ columnJobs = {} /\ running = NoJob /\ settled = {}
  BY DEF AtRest
<1>2. ToSet(queue) = {}
  BY <1>1 DEF ToSet
<1> QED BY <1>1, <1>2 DEF Pending

\* Whatever edits, renames and cancellations overlap, when no job is left all
\* calls have returned and the status of the model is Idle (the
\* ResetStateToIdle decorator), because the busy call behind any other status
\* always has a job to be woken by.
THEOREM ReturnsToIdle == Spec => []IdleAtRest
<1>1. IInv => IdleAtRest
  <2> SUFFICES ASSUME IInv, AtRest, model.exists
               PROVE  model.status = "Idle" /\ \A c \in Calls : pc[c] # "busy"
    BY DEF IdleAtRest
  <2>1. BusyInv /\ Pending = {}
    BY NothingPending DEF IInv, CallsInv
  <2> QED BY <2>1 DEF BusyInv
<1> QED BY <1>1, Invariance, PTL

\* collectModelInfo of an abandoned edit, which goes on after its validation
\* and clears the queue, never rejects a job of the newest call.
THEOREM NewestNeverCancelled == Spec => []NewestKept
<1>1. IInv => NewestKept
  <2> SUFFICES ASSUME IInv, NEW r \in settled, r.res = "cancelled", model.exists, ~ renamed
               PROVE  r.job.call < arrived
    BY DEF NewestKept
  <2>1. PICK e \in 0..MaxCalls : Newest(e)
    BY DEF IInv, EditInv
  <2>2. r.job.call < e /\ e \in 0..arrived
    BY <2>1 DEF Newest, SettledBefore, Done
  <2>3. r.job.call \in Int /\ arrived \in Int
    <3>1. TypeOK
      BY DEF IInv, CallsInv
    <3>2. r.job.call \in Calls
      BY <3>1, PendingFacts
    <3> QED BY <3>1, <3>2, MaxCallsAssumption DEF TypeOK, Calls
  <2> QED BY <2>2, <2>3
<1> QED BY <1>1, Invariance, PTL

\* When no job is left and the query is a good one, the view, the columns, the
\* preview and the error are those of the last query: the abandoned calls that
\* go on behind it have only repeated its work.  A copy of a relation without a
\* Table entity (ModelActions.ts:274) has its view and no profile, and nothing
\* is claimed of an edit that a late result of a column has broken off
\* (ProfileColumnStateActions.ts:52) nor once a rename was requested.
THEOREM LastQueryShown == Spec => []ProfileAtRest
<1>1. IInv => ProfileAtRest
  <2> SUFFICES ASSUME IInv, AtRest, model.listed, Good, current # 0, ~ renamed
               PROVE  /\ view[model.name] = model.query /\ model.error = NoQuery
                      /\ model.query \notin ModelCopies =>
                           model.profile = model.query /\ model.preview = model.query /\ model.profiled
    BY DEF ProfileAtRest
  <2>1. TypeOK /\ Pending = {} /\ model.exists
    BY NothingPending DEF IInv, CallsInv
  <2>2. PICK e \in 0..MaxCalls : Stage(e)
    BY <2>1 DEF IInv, EditInv, EditOf, Going
  <2>3. \A kind : ~ HasJob(e, kind)
    BY <2>1 DEF HasJob
  <2>4. ViewIs(model.query) /\ Profiling(e, model.query)
    BY <2>1, <2>2, <2>3 DEF Stage, Validating, CreatingView, ReadingColumns
  <2> QED BY <2>3, <2>4 DEF ViewIs, Profiling, Shown
<1> QED BY <1>1, Invariance, PTL
=============================================================================
