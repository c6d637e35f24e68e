----------------------- MODULE CatalogMigrationProofs -----------------------
(***************************************************************************)
(* The safety of CatalogMigration, for any number of requests and any      *)
(* names, properties and foreign tables.                                   *)
(*                                                                         *)
(* A handler that nobody disturbs knows what its earlier statements left   *)
(* at its names.  What it knows depends on its request, the statements it  *)
(* has left, and the object and the table of one key only, so that a step  *)
(* of another handler, which leaves that key alone, keeps it.              *)
(***************************************************************************)
EXTENDS CatalogMigration, TLAPS, SequenceTheorems, FiniteSetTheorems

-----------------------------------------------------------------------------
(* What a handler is about to do                                           *)

DeletePlan(n) == <<Drop(n), DeleteObject(n)>>
RefreshPlan(row) == <<Ingest(row.name, row.sql), UpdateObject(row)>>
IngestPlan(row, last) == <<Ingest(row.name, row.sql), Lookup(row.name), last>>
MovePlan(row, n) == <<CreateObject(row), DeleteObject(n), Alter(n, row.name)>>
IngestMovePlan(row, n) ==
  <<Ingest(row.name, row.sql), Lookup(row.name), CreateObject(row), DeleteObject(n), DropIfExists(n)>>

\* The statements of a sync.
SyncStatements ==
  [op : {"create", "update"}, row : TableRows] \cup [op : {"delete"}, name : Names]

\* What is left of a plan of which the first statements have run.
Left(s, plan) ==
  Len(s) \in 1..Len(plan) /\ \A i \in 1..Len(s) : s[i] = plan[(Len(plan) - Len(s)) + i]

\* The statements of a request that runs.
PlanShape(q, s) ==
  CASE q.kind = "delete" -> \E n \in Names : Lower[n] = Lower[q.name] /\ Left(s, DeletePlan(n))
    [] q.kind = "refresh" -> \E row \in SourceRows :
         Lower[row.name] = Lower[q.name] /\ Left(s, RefreshPlan(row))
    [] q.kind = "migrate" -> \E row \in SourceRows :
         /\ row.name = q.name /\ row.sql = q.props
         /\ IF q.from = None
            THEN \E last \in {CreateObject(row), UpdateObject(row)} : Left(s, IngestPlan(row, last))
            ELSE \E n \in Names : /\ Lower[n] = Lower[q.from]
                                  /\ Left(s, MovePlan(row, n)) \/ Left(s, IngestMovePlan(row, n))
    [] q.kind = "sync" -> s \in Seq(SyncStatements) \ {<<>>}
    [] OTHER -> FALSE

Shape(r) ==
  /\ Idle(r) <=> req[r] = NoRequest
  /\ r \in clashed => ~ Idle(r)
  /\ phase[r] = "findFrom" => req[r].kind = "migrate" /\ req[r].from # None
  /\ phase[r] = "readSchema" => req[r].kind = "sync"
  /\ phase[r] # "readSchema" => objs[r] = {}
  /\ phase[r] = "run" => PlanShape(req[r], todo[r])

-----------------------------------------------------------------------------
(* Who disturbs whom                                                       *)

\* Two handlers that work for one key know of it, unless they are a sync and a
\* refresh.
Overlap(r1, r2) ==
  \A k \in Touches(req[r1]) \cap Touches(req[r2]) :
    \/ {req[r1].kind, req[r2].kind} = {"sync", "refresh"}
    \/ /\ r1 \in clashed /\ r2 \in clashed
       /\ k \in troubled \/ {req[r1].kind, req[r2].kind} = {"sync"}

\* Since r began, no other request and no foreign client has touched k.
Alone(r, k) == k \in Touches(req[r]) /\ (r \notin clashed \/ k \notin troubled)

-----------------------------------------------------------------------------
(* What a handler that is alone knows of a key                             *)

IsSource(c, sql) == c # NoRow /\ c.type = "source" /\ c.sql = sql

\* q is the request, s what is left, c and t the object and the table of k.
Known(q, s, k, c, t) ==
  LET n == Len(s)  last == s[Len(s)] IN
  CASE q.kind = "delete" -> c # NoRow /\ c.name = last.name /\ (n = 1 => t = NoTable)
    [] q.kind = "refresh" ->
         /\ c # NoRow /\ c.type = "source" /\ c.name = last.row.name
         /\ n = 1 => t # NoTable /\ t.data = last.row.sql
    [] q.kind = "migrate" ->
         /\ k = Lower[q.name] /\ last.op # "alter" =>
              (n < (IF q.from = None THEN 3 ELSE 5) => t = [name |-> q.name, data |-> q.props])
         /\ last.op = "update" => c # NoRow
         /\ k = Lower[q.name] /\ q.from # None /\ n < 3 => IsSource(c, q.props)
         /\ q.from # None /\ k = Lower[q.from] =>
              /\ k # Lower[q.name]
              /\ IF n = 1 THEN c = NoRow ELSE c # NoRow /\ c.name = last.name
    [] OTHER -> TRUE

Knows(r) ==
  \A k \in Keys : Alone(r, k) =>
    /\ phase[r] = "run" => Known(req[r], todo[r], k, catalog[k], tables[k])
    /\ phase[r] = "findFrom" /\ k = Lower[req[r].name] => catalog[k] = NoRow

-----------------------------------------------------------------------------
(* What a sync knows                                                       *)

\* The name a source that is being refreshed keeps.
Refreshed(r) ==
  req[r].kind = "refresh" /\ phase[r] = "run" =>
    LET row == todo[r][Len(todo[r])].row  c == catalog[Lower[row.name]] IN
    c # NoRow /\ c.type = "source" /\ c.name = row.name

\* A sync o will leave the object of k alone.
Spares(o, k) ==
  /\ \A row \in objs[o] : Lower[row.name] = k => row.type = "source"
  /\ \A i \in 1..Len(todo[o]) :
       /\ todo[o][i].op = "update" => Lower[todo[o][i].row.name] # k
       /\ todo[o][i].op = "delete" => Lower[todo[o][i].name] # k

\* The objects that an undisturbed sync has read are those there are, but for
\* what a refresh changes.
ReadObjects(o) ==
  /\ \A k \in Keys : catalog[k] # NoRow => \E row \in objs[o] : row.name = catalog[k].name
  /\ \A row \in objs[o] :
       LET c == catalog[Lower[row.name]] IN
       /\ c # NoRow /\ c.name = row.name /\ c.type = row.type
       /\ c.type = "table" => c = row

Writes(o, s) == \E i \in 1..Len(todo[o]) : todo[o][i] = s
InTables(t) == tables[Lower[t.name]] = [name |-> t.name, data |-> t.schema]

\* Wherever catalog and tables disagree there is a statement for it, and the
\* statements are about what is there.
ReadTables(o) ==
  /\ \A k \in Keys :
       LET c == catalog[k]  t == tables[k] IN
       /\ t # NoTable /\ (c = NoRow \/ c.name # t.name) => Writes(o, CreateObject(Table(t.name, t.data)))
       /\ t # NoTable /\ c # NoRow /\ c.type = "table" /\ c.name = t.name /\ c.schema # t.data
            => Writes(o, UpdateObject(Table(t.name, t.data)))
       /\ t = NoTable /\ c # NoRow /\ c.type = "table" => Writes(o, DeleteObject(c.name))
  /\ \A i \in 1..Len(todo[o]) :
       LET s == todo[o][i] IN
       /\ s.op = "create" => InTables(s.row) \/ catalog[Lower[s.row.name]].type = "source"
       /\ s.op = "update" => InTables(s.row) /\ catalog[Lower[s.row.name]].type # "source"
       /\ s.op = "delete" =>
            LET k == Lower[s.name] IN
            catalog[k].type # "source" /\ (tables[k] = NoTable \/ tables[k].name # s.name)

SyncKnows(o) ==
  req[o].kind = "sync" =>
    /\ o \notin clashed =>
         /\ \A r \in Requests : Refreshed(r)
         /\ phase[o] = "readSchema" => ReadObjects(o)
         /\ phase[o] = "run" => ReadTables(o)
    /\ \A r \in Requests : \A k \in Keys :
         req[r].kind = "refresh" /\ Alone(r, k) => Spares(o, k)

-----------------------------------------------------------------------------
Pairs == \A r1, r2 \in Requests : r1 # r2 => Overlap(r1, r2)
Shapes == \A r \in Requests : Shape(r)

IInv ==
  /\ TypeOK /\ SourceHasTable /\ Shapes /\ Pairs
  /\ \A r \in Requests : Knows(r) /\ SyncKnows(r)

-----------------------------------------------------------------------------
(* Keys, requests and steps                                                *)

LEMMA KeyFacts ==
  /\ \A n \in Names : Lower[n] \in Keys /\ Lower[n] \in Names
  /\ None \notin Names /\ None \notin Data
BY NamesAssumption, DataAssumption DEF Keys, Data

LEMMA RowFacts ==
  /\ \A row \in Rows : row # NoRow /\ row.name \in Names
  /\ \A t \in [name : Names, data : Data] : t # NoTable
  /\ SourceRows \subseteq Rows /\ TableRows \subseteq Rows
<1>1. ASSUME NEW row \in Rows PROVE row # NoRow /\ row.name \in Names
  BY DEF Rows, SourceRows, TableRows, NoRow
<1>2. ASSUME NEW t \in [name : Names, data : Data] PROVE t # NoTable
  BY KeyFacts DEF NoTable
<1> QED BY <1>1, <1>2 DEF Rows

\* The keys of a request.
LEMMA TouchesFacts ==
  ASSUME NEW q \in Request \cup {NoRequest}
  PROVE  /\ Touches(q) \subseteq Keys
         /\ q.kind = "none" => Touches(q) = {}
         /\ q.kind = "sync" => Touches(q) = Keys
         /\ q.kind \in {"delete", "refresh"} => q.name \in Names /\ Touches(q) = {Lower[q.name]}
         /\ q.kind = "migrate" =>
              /\ q.name \in Names /\ q.from \in Names \cup {None} /\ q.props \in Props
              /\ Touches(q) = {Lower[q.name]} \cup (IF q.from = None THEN {} ELSE {Lower[q.from]})
         /\ q.kind \in {"none", "sync", "delete", "refresh", "migrate"}
         /\ q.kind = "none" <=> q = NoRequest
<1>1. CASE q = NoRequest
  BY <1>1 DEF Touches, NoRequest
<1>2. CASE q \in [kind : {"sync"}]
  BY <1>2, KeyFacts DEF Touches, NoRequest
<1>3. CASE q \in [kind : {"delete", "refresh"}, name : Names]
  <2>1. q.kind \in {"delete", "refresh"} /\ q.name \in Names /\ q # NoRequest
    BY <1>3 DEF NoRequest
  <2>2. Touches(q) = {Lower[q.name]}
    BY <2>1 DEF Touches
  <2> QED BY <2>1, <2>2, KeyFacts
<1>4. CASE q \in [kind : {"migrate"}, name : Names, props : Props, from : Names \cup {None}]
  <2>1. /\ q.kind = "migrate" /\ q.name \in Names /\ q.from \in Names \cup {None} /\ q.props \in Props
        /\ q # NoRequest
    BY <1>4 DEF NoRequest
  <2>2. Touches(q) = {Lower[n] : n \in {q.name, q.from} \ {None}}
    BY <2>1 DEF Touches
  <2>3. Touches(q) = {Lower[q.name]} \cup (IF q.from = None THEN {} ELSE {Lower[q.from]})
    BY <2>1, <2>2, KeyFacts
  <2> QED BY <2>1, <2>3, KeyFacts
<1> QED BY <1>1, <1>2, <1>3, <1>4 DEF Request

Step(r) == Arrive(r) \/ FindRenamed(r) \/ ReadSchema(r) \/ Statement(r) \/ Fail(r)

\* A step of r leaves the other handlers where they are.
Locally(r) ==
  /\ req' = [req EXCEPT ![r] = req'[r]] /\ phase' = [phase EXCEPT ![r] = phase'[r]]
  /\ todo' = [todo EXCEPT ![r] = todo'[r]] /\ objs' = [objs EXCEPT ![r] = objs'[r]]

LEMMA LocallyFacts ==
  ASSUME TypeOK, NEW r \in Requests, Locally(r)
  PROVE  \A o \in Requests \ {r} :
           req'[o] = req[o] /\ phase'[o] = phase[o] /\ todo'[o] = todo[o] /\ objs'[o] = objs[o]
BY DEF TypeOK, Locally

\* A handler begins, goes on, or returns.
LEMMA StepForm ==
  ASSUME TypeOK, NEW r \in Requests, Step(r)
  PROVE  /\ Locally(r)
         /\ \/ (\E q \in Request : Begin(r, q)) /\ UNCHANGED stores
            \/ ~ Idle(r) /\ phase'[r] = "run" /\ UNCHANGED <<req, history>>
            \/ ~ Idle(r) /\ \E res \in {"ok", "error"} : Return(r, res)
<1>0. /\ req \in [Requests -> Request \cup {NoRequest}]
      /\ phase \in [Requests -> {"idle", "ok", "findFrom", "readSchema", "run"}]
      /\ todo \in [Requests -> Seq(Statements)]
      /\ objs \in [Requests -> SUBSET Rows]
  BY DEF TypeOK
<1>1. ASSUME GoOn(r), ~ Idle(r)
      PROVE  /\ Locally(r)
             /\ \/ phase'[r] = "run" /\ UNCHANGED <<req, history>>
                \/ \E res \in {"ok", "error"} : Return(r, res)
  BY <1>0, <1>1 DEF GoOn, Return, Run, Plan, Locally
<1>2. CASE Arrive(r)
  <2>1. PICK q \in Request : \/ \E replace \in BOOLEAN : FindExisting(r, q, replace)
                             \/ FindDeleted(r, q) \/ FindRefreshed(r, q) \/ FindObjects(r, q)
    BY <1>2 DEF Arrive
  <2>2. Begin(r, q) /\ UNCHANGED stores
    BY <2>1 DEF FindExisting, FindDeleted, FindRefreshed, FindObjects, Begin
  <2>3. req' = [req EXCEPT ![r] = q]
    BY <2>2 DEF Begin
  <2>4. /\ phase' = [phase EXCEPT ![r] = phase'[r]] /\ todo' = [todo EXCEPT ![r] = todo'[r]]
        /\ objs' = [objs EXCEPT ![r] = objs'[r]]
    BY <1>0, <2>1 DEF FindExisting, FindDeleted, FindRefreshed, FindObjects, Plan
  <2> QED BY <1>0, <2>2, <2>3, <2>4 DEF Locally
<1>3. CASE FindRenamed(r)
  BY <1>0, <1>3 DEF FindRenamed, Run, Plan, Locally, Idle
<1>4. CASE ReadSchema(r)
  <2>1. ~ Idle(r)
    BY <1>4 DEF ReadSchema, Idle
  <2>2. (\E s : Run(r, s)) \/ Return(r, "ok")
    BY <1>4 DEF ReadSchema
  <2> QED BY <1>0, <2>1, <2>2 DEF Return, Run, Plan, Locally
<1>5. CASE Statement(r)
  <2>1. ~ Idle(r)
    BY <1>5, ZenonT(60) DEF Statement, RunIngest, RunLookup, RunCreate, RunUpdate, RunDelete, RunAlter, RunDrop, Is, Idle
  <2>2. CASE RunLookup(r)
    BY <1>0, <2>1, <2>2 DEF RunLookup, Run, Plan, Locally
  <2>3. CASE GoOn(r)
    BY <1>1, <2>1, <2>3
  <2> QED BY <1>5, <2>2, <2>3, ZenonT(60) DEF Statement, RunIngest, RunCreate, RunUpdate, RunDelete, RunAlter, RunDrop
<1>6. CASE Fail(r)
  BY <1>0, <1>6 DEF Fail, Return, Locally
<1> QED BY <1>2, <1>3, <1>4, <1>5, <1>6 DEF Step

\* Only what succeeds undisturbed, and is no sync, makes a key good again.
LEMMA History ==
  ASSUME TypeOK, NEW r \in Requests, Step(r)
  PROVE  /\ clashed \ {r} \subseteq clashed'
         /\ \A k \in troubled \ troubled' :
              k \in Touches(req[r]) /\ r \notin clashed /\ req[r].kind # "sync"
<1>1. ASSUME NEW q \in Request, Begin(r, q) PROVE clashed \subseteq clashed' /\ troubled \subseteq troubled'
  BY <1>1 DEF Begin
<1>2. ASSUME NEW res, Return(r, res)
      PROVE  /\ clashed' = clashed \ {r}
             /\ troubled \ troubled' \subseteq Repaired(r, res)
  BY <1>2 DEF Return
<1> QED BY <1>1, <1>2, StepForm DEF Repaired, history

\* Handlers that work for one key go on knowing of each other.
LEMMA PairStep ==
  ASSUME TypeOK, Shapes, Pairs, NEW r \in Requests, Step(r)
  PROVE  Pairs'
<1>1. SUFFICES ASSUME NEW r1 \in Requests, NEW r2 \in Requests, r1 # r2,
                      NEW k \in Touches(req'[r1]) \cap Touches(req'[r2])
               PROVE  \/ {req'[r1].kind, req'[r2].kind} = {"sync", "refresh"}
                      \/ /\ r1 \in clashed' /\ r2 \in clashed'
                         /\ k \in troubled' \/ {req'[r1].kind, req'[r2].kind} = {"sync"}
  BY DEF Pairs, Overlap
<1>0. /\ req \in [Requests -> Request \cup {NoRequest}]
      /\ \A o \in Requests \ {r} : req'[o] = req[o]
  BY StepForm, LocallyFacts DEF TypeOK
\* The two handlers are others than r.
<1>2. CASE r1 # r /\ r2 # r
  <2>1. Overlap(r1, r2) /\ Overlap(r1, r) /\ Overlap(r2, r)
    BY <1>1, <1>2 DEF Pairs
  <2>2. CASE {req[r1].kind, req[r2].kind} = {"sync", "refresh"}
    BY <1>0, <1>2, <2>2
  <2>3. CASE /\ r1 \in clashed /\ r2 \in clashed
             /\ k \in troubled \/ {req[r1].kind, req[r2].kind} = {"sync"}
    <3>1. r1 \in clashed' /\ r2 \in clashed'
      BY <1>2, <2>3, History
    <3>2. CASE k \notin troubled \/ k \in troubled'
      BY <1>0, <1>2, <2>3, <3>1, <3>2
    <3>3. CASE k \in troubled /\ k \notin troubled'
      <4>1. k \in Touches(req[r]) /\ r \notin clashed /\ req[r].kind # "sync"
        BY <3>3, History
      <4>2. {req[r1].kind, req[r].kind} = {"sync", "refresh"} /\ {req[r2].kind, req[r].kind} = {"sync", "refresh"}
        BY <1>0, <1>1, <1>2, <2>1, <4>1 DEF Overlap
      <4>3. req[r1].kind = "sync" /\ req[r2].kind = "sync"
        BY <4>1, <4>2
      <4> QED BY <1>0, <1>2, <3>1, <4>3
    <3> QED BY <3>2, <3>3
  <2> QED BY <1>0, <1>1, <1>2, <2>1, <2>2, <2>3 DEF Overlap
\* One of them is r, and it begins with the other under way, or goes on.
<1>3. ASSUME NEW o \in Requests \ {r}, NEW j \in Touches(req'[r]) \cap Touches(req'[o])
      PROVE  \/ {req'[r].kind, req'[o].kind} = {"sync", "refresh"}
             \/ /\ r \in clashed' /\ o \in clashed'
                /\ j \in troubled' \/ {req'[r].kind, req'[o].kind} = {"sync"}
  <2>1. ASSUME NEW q \in Request, Begin(r, q)
        PROVE  \/ {q.kind, req[o].kind} = {"sync", "refresh"}
               \/ r \in clashed' /\ o \in clashed' /\ j \in troubled'
    <3>1. req'[r] = q /\ j \in Touches(req[o]) \cap Touches(q)
      BY <1>0, <1>3, <2>1 DEF Begin
    <3>2. CASE Clash(o, q)
      BY <2>1, <3>1, <3>2 DEF Begin
    <3>3. CASE ~ Clash(o, q)
      BY <3>1, <3>3 DEF Clash
    <3> QED BY <3>2, <3>3
  <2>2. ASSUME NEW q \in Request, Begin(r, q) PROVE req'[r] = q
    BY <1>0, <2>2 DEF Begin
  <2>3. CASE UNCHANGED <<req, history>>
    <3>1. Overlap(r, o)
      BY DEF Pairs
    <3> QED BY <1>3, <2>3, <3>1 DEF Overlap, history
  <2>4. ASSUME NEW res, Return(r, res) PROVE FALSE
    BY <1>0, <1>3, <2>4, TouchesFacts DEF Return, NoRequest
  <2> QED BY <1>0, <1>3, <2>1, <2>2, <2>3, <2>4, StepForm
<1> QED BY <1>1, <1>2, <1>3

\* A handler that is alone at a key has been so since it began.
LEMMA AloneBefore ==
  ASSUME TypeOK, Pairs, NEW r \in Requests, Step(r), NEW o \in Requests \ {r}, NEW k,
         req[o].kind # "sync", Alone(o, k)'
  PROVE  Alone(o, k)
<1>1. req'[o] = req[o] /\ k \in Touches(req[o])
  BY StepForm, LocallyFacts DEF Alone
<1>2. CASE o \notin clashed'
  BY <1>1, <1>2, History DEF Alone
<1>3. CASE k \notin troubled'
  <2>1. CASE k \in troubled
    <3>1. k \in Touches(req[r]) /\ r \notin clashed /\ req[r].kind # "sync"
      BY <1>3, <2>1, History
    <3>2. Overlap(r, o)
      BY DEF Pairs
    <3> QED BY <1>1, <3>1, <3>2 DEF Overlap
  <2> QED BY <1>1, <2>1 DEF Alone
<1> QED BY <1>2, <1>3 DEF Alone

-----------------------------------------------------------------------------
(* Sequences and sets                                                      *)

\* Where a handler is in its plan.
LEMMA LeftFacts ==
  ASSUME NEW S, NEW s \in Seq(S), NEW plan, Len(plan) \in Nat, Left(s, plan)
  PROVE  /\ s # <<>> /\ Len(s) \in 1..Len(plan) /\ Head(s) \in S
         /\ Head(s) = plan[(Len(plan) - Len(s)) + 1] /\ Head(s) = s[1]
         /\ s[Len(s)] = plan[Len(plan)]
         /\ Tail(s) \in Seq(S) /\ Len(Tail(s)) = Len(s) - 1
         /\ \A i \in 1..(Len(s) - 1) : Tail(s)[i] = s[i + 1]
         /\ Tail(s) # <<>> => Len(s) > 1 /\ Left(Tail(s), plan) /\ Tail(s)[Len(s) - 1] = s[Len(s)]
         /\ Tail(s) = <<>> => Len(s) = 1
<1>1. Len(s) \in 1..Len(plan) /\ Len(s) \in Nat /\ s # <<>>
  BY LenProperties, EmptySeq DEF Left
<1>2. /\ Head(s) \in S /\ Tail(s) \in Seq(S) /\ Len(Tail(s)) = Len(s) - 1 /\ Head(s) = s[1]
      /\ \A i \in 1..(Len(s) - 1) : Tail(s)[i] = s[i + 1]
  BY <1>1, HeadTailProperties
<1>3. Head(s) = plan[(Len(plan) - Len(s)) + 1] /\ s[Len(s)] = plan[Len(plan)]
  <2>1. 1 \in 1..Len(s) /\ Len(s) \in 1..Len(s) /\ (Len(plan) - Len(s)) + Len(s) = Len(plan)
    BY <1>1
  <2> QED BY <1>2, <2>1 DEF Left
<1>4. Tail(s) = <<>> => Len(s) = 1
  BY <1>1, <1>2, EmptySeq
<1>5. ASSUME Tail(s) # <<>>
      PROVE  Len(s) > 1 /\ Left(Tail(s), plan) /\ Tail(s)[Len(s) - 1] = s[Len(s)]
  <2>1. Len(Tail(s)) \in Nat \ {0}
    BY <1>2, <1>5, EmptySeq
  <2>2. Len(s) > 1 /\ Len(Tail(s)) \in 1..Len(plan)
    BY <1>1, <1>2, <2>1
  <2>3. ASSUME NEW i \in 1..Len(Tail(s))
        PROVE  Tail(s)[i] = plan[(Len(plan) - Len(Tail(s))) + i]
    <3>1. i + 1 \in 1..Len(s) /\ (Len(plan) - Len(s)) + (i + 1) = (Len(plan) - Len(Tail(s))) + i
      BY <1>1, <1>2
    <3> QED BY <1>2, <3>1 DEF Left
  <2>4. Tail(s)[Len(s) - 1] = s[Len(s)]
    <3>1. Len(s) - 1 \in 1..(Len(s) - 1) /\ (Len(s) - 1) + 1 = Len(s)
      BY <1>1, <2>2
    <3> QED BY <1>2, <3>1
  <2> QED BY <2>2, <2>3, <2>4 DEF Left
<1> QED BY <1>1, <1>2, <1>3, <1>4, <1>5

LEMMA LastOfTail ==
  ASSUME NEW S, NEW s \in Seq(S), s # <<>>, Tail(s) # <<>>
  PROVE  Len(s) \in Nat /\ Len(s) > 1 /\ Tail(s)[Len(Tail(s))] = s[Len(s)]
<1>1. /\ Tail(s) \in Seq(S) /\ Len(Tail(s)) = Len(s) - 1 /\ Len(s) \in Nat
      /\ \A i \in 1..Len(Tail(s)) : Tail(s)[i] = s[i + 1]
  BY HeadTailProperties, LenProperties
<1>2. Len(Tail(s)) \in Nat \ {0}
  BY <1>1, EmptySeq
<1>3. Len(Tail(s)) \in 1..Len(Tail(s)) /\ Len(Tail(s)) + 1 = Len(s)
  BY <1>1, <1>2
<1> QED BY <1>1, <1>2, <1>3

\* A sequence of a finite set has all its elements.
LEMMA SeqsOfSet ==
  ASSUME NEW S, IsFiniteSet(S), NEW s \in SetToSeqs(S)
  PROVE  s \in Seq(S) /\ \A x \in S : \E i \in 1..Len(s) : s[i] = x
<1> DEFINE n == Cardinality(S)
<1>1. n \in Nat
  BY FS_CardinalityType
<1>2. s \in [1..n -> S] /\ s \in Injection(1..n, S)
  BY DEF SetToSeqs, Injection, IsInjective
<1>3. s \in Surjection(1..n, S)
  <2>1. Cardinality(1..n) = n
    BY <1>1, FS_Interval
  <2> QED BY <1>2, <2>1, FS_Injection
<1>4. s \in Seq(S) /\ Len(s) = n
  BY <1>1, <1>2
<1> QED BY <1>3, <1>4 DEF Surjection

LEMMA FiniteImage ==
  ASSUME NEW S, IsFiniteSet(S), NEW f, DOMAIN f = S, f = [x \in S |-> f[x]]
  PROVE  IsFiniteSet({f[x] : x \in S})
<1>1. f \in Surjection(S, {f[x] : x \in S})
  BY DEF Surjection
<1> QED BY <1>1, FS_Surjection

LEMMA SyncSets ==
  ASSUME TypeOK, NEW os \in SUBSET Rows, NEW ts, ts = {tables[k] : k \in Keys} \ {NoTable}
  PROVE  /\ SyncTables(os, ts) \subseteq SyncStatements /\ IsFiniteSet(SyncTables(os, ts))
         /\ SyncRemoved(os, ts) \subseteq SyncStatements /\ IsFiniteSet(SyncRemoved(os, ts))
<1>1. ts \subseteq [name : Names, data : Data]
  BY DEF TypeOK
<1>2. IsFiniteSet(ts)
  <2>1. IsFiniteSet(Keys)
    <3>1. IsFiniteSet({Lower[n] : n \in Names})
      BY NamesAssumption, FiniteImage
    <3> QED BY <3>1 DEF Keys
  <2>2. IsFiniteSet({tables[k] : k \in Keys})
    BY <2>1, FiniteImage DEF TypeOK
  <2>3. ts \in SUBSET {tables[k] : k \in Keys}
    OBVIOUS
  <2> QED BY <2>2, <2>3, FS_Subset
<1>3. ASSUME NEW t \in ts PROVE Table(t.name, t.data) \in TableRows
  BY <1>1 DEF Table, TableRows
<1>4. SyncTables(os, ts) \subseteq SyncStatements
  BY <1>3 DEF SyncTables, SyncStatements, CreateObject, UpdateObject
<1>5. IsFiniteSet(SyncTables(os, ts))
  <2> DEFINE T1 == {t \in ts : \A o \in os : o.name # t.name}
             T2 == {t \in ts : \E o \in os : o.name = t.name /\ o.type = "table" /\ o.schema # t.data}
             f1 == [t \in T1 |-> CreateObject(Table(t.name, t.data))]
             f2 == [t \in T2 |-> UpdateObject(Table(t.name, t.data))]
  <2>1. IsFiniteSet(T1) /\ IsFiniteSet(T2)
    <3>1. T1 \in SUBSET ts /\ T2 \in SUBSET ts
      OBVIOUS
    <3> QED BY <1>2, <3>1, FS_Subset
  <2>2. IsFiniteSet({f1[t] : t \in T1}) /\ IsFiniteSet({f2[t] : t \in T2})
    <3>1. DOMAIN f1 = T1 /\ f1 = [t \in T1 |-> f1[t]] /\ DOMAIN f2 = T2 /\ f2 = [t \in T2 |-> f2[t]]
      OBVIOUS
    <3> HIDE DEF f1, f2, T1, T2
    <3> QED BY <2>1, <3>1, FiniteImage
  <2>3. SyncTables(os, ts) = {f1[t] : t \in T1} \cup {f2[t] : t \in T2}
    BY DEF SyncTables
  <2>4. IsFiniteSet({f1[t] : t \in T1} \cup {f2[t] : t \in T2})
    <3> HIDE DEF f1, f2, T1, T2
    <3> QED BY <2>2, FS_Union
  <2> QED BY <2>3, <2>4
<1>6. SyncRemoved(os, ts) \subseteq SyncStatements
  BY RowFacts DEF SyncRemoved, SyncStatements, DeleteObject
<1>7. IsFiniteSet(SyncRemoved(os, ts))
  <2> DEFINE f == [n \in Names |-> DeleteObject(n)]
  <2>1. IsFiniteSet({f[n] : n \in Names})
    <3>1. DOMAIN f = Names /\ f = [n \in Names |-> f[n]]
      OBVIOUS
    <3> HIDE DEF f
    <3> QED BY <3>1, NamesAssumption, FiniteImage
  <2>2. SyncRemoved(os, ts) \in SUBSET {f[n] : n \in Names}
    BY RowFacts DEF SyncRemoved
  <2> QED BY <2>1, <2>2, FS_Subset
<1> QED BY <1>4, <1>5, <1>6, <1>7

-----------------------------------------------------------------------------
(* Plans and statements                                                    *)

LEMMA StatementFacts ==
  ASSUME NEW s \in Statements
  PROVE  /\ s.op = "ingest" => s.name \in Names /\ s.data \in Props
         /\ s.op \in {"lookup", "delete", "drop", "dropIfExists"} => s.name \in Names
         /\ s.op \in {"create", "update"} => s.row \in Rows
         /\ s.op = "alter" => s.name \in Names /\ s.to \in Names
         /\ s.op \in {"ingest", "lookup", "delete", "drop", "dropIfExists", "create", "update", "alter"}
BY DEF Statements

LEMMA PlanTypes ==
  ASSUME NEW row \in SourceRows, NEW n \in Names
  PROVE  /\ row \in Rows /\ row.name \in Names /\ row.sql \in Props /\ row.type = "source"
         /\ CreateObject(row) \in Statements /\ UpdateObject(row) \in Statements
         /\ DeleteObject(n) \in Statements /\ DropIfExists(n) \in Statements /\ Drop(n) \in Statements
         /\ Ingest(row.name, row.sql) \in Statements /\ Lookup(row.name) \in Statements
         /\ Alter(n, row.name) \in Statements
<1>1. row \in Rows /\ row.name \in Names /\ row.sql \in Props /\ row.type = "source"
  BY DEF Rows, SourceRows
<1> QED
  BY <1>1 DEF Statements, CreateObject, UpdateObject, DeleteObject, DropIfExists, Drop, Ingest, Lookup, Alter

LEMMA SyncStatementTypes == SyncStatements \subseteq Statements
<1>1. [op : {"create", "update"}, row : TableRows] \subseteq [op : {"create", "update"}, row : Rows]
  BY DEF Rows
<1> QED BY <1>1 DEF SyncStatements, Statements

\* What is found under a key is a source's object or a table's.
LEMMA FoundFacts ==
  ASSUME TypeOK, NEW n \in Names, Found(n) # NoRow
  PROVE  /\ Found(n) \in Rows /\ Found(n).name \in Names /\ Lower[Found(n).name] = Lower[n]
         /\ Found(n).type = "source" => Found(n) \in SourceRows
<1>1. Found(n) \in Rows /\ Lower[Found(n).name] = Lower[n]
  BY KeyFacts DEF TypeOK, Found
<1>2. \A row \in TableRows : row.type # "source"
  BY DEF TableRows
<1> QED BY <1>1, <1>2, RowFacts DEF Rows

\* A plan that has just been made.
LEMMA PlanIsLeft ==
  ASSUME NEW plan, Len(plan) \in Nat \ {0}
  PROVE  Left(plan, plan)
BY DEF Left

LEMMA TwoParts ==
  ASSUME NEW a, NEW b, NEW c, NEW d, NEW e
  PROVE  <<a, b, c>> \o <<d, e>> = <<a, b, c, d, e>>
<1> DEFINE S == {a, b, c, d, e}
           s == <<a, b, c>>
           t == <<d, e>>
           u == <<a, b, c, d, e>>
<1>1. s \in Seq(S) /\ t \in Seq(S) /\ u \in Seq(S)
  OBVIOUS
<1>2. Len(s) = 3 /\ Len(t) = 2 /\ Len(u) = 5
  OBVIOUS
<1>3. \A i \in 1..5 : u[i] = IF i <= 3 THEN s[i] ELSE t[i - 3]
  OBVIOUS
<1> HIDE DEF S, s, t, u
<1>4. /\ s \o t \in Seq(S) /\ Len(s \o t) = 5
      /\ \A i \in 1..5 : (s \o t)[i] = IF i <= 3 THEN s[i] ELSE t[i - 3]
  <2>1. /\ s \o t \in Seq(S) /\ Len(s \o t) = Len(s) + Len(t)
        /\ \A i \in 1..Len(s) + Len(t) : (s \o t)[i] = IF i <= Len(s) THEN s[i] ELSE t[i - Len(s)]
    BY <1>1, ConcatProperties
  <2> QED BY <1>2, <2>1
<1>5. s \o t = u
  BY <1>1, <1>2, <1>3, <1>4, SeqEqual, SMTT(30)
<1> QED BY <1>5 DEF s, t, u

\* The row of a request.
LEMMA SourceRow ==
  ASSUME NEW n \in Names, NEW p \in Props
  PROVE  Source(n, p) \in SourceRows /\ Source(n, p).name = n /\ Source(n, p).sql = p
BY DEF Source, SourceRows

\* A handler that begins to run, or finds what it renames, has a plan.
LEMMA NewPlan ==
  ASSUME TypeOK, NEW r \in Requests, Shape(r),
         Arrive(r) \/ FindRenamed(r), phase'[r] = "run"
  PROVE  /\ req'[r] \in Request
         /\ todo'[r] \in Seq(Statements) /\ todo'[r] # <<>> /\ PlanShape(req'[r], todo'[r])
<1>0. /\ req \in [Requests -> Request \cup {NoRequest}]
      /\ phase \in [Requests -> {"idle", "ok", "findFrom", "readSchema", "run"}]
      /\ todo \in [Requests -> Seq(Statements)]
  BY DEF TypeOK
<1>1. ASSUME NEW s, Plan(r, s) PROVE todo'[r] = s
  BY <1>0, <1>1 DEF Plan
<1>2. ASSUME NEW q \in Request, Begin(r, q) PROVE req'[r] = q
  BY <1>0, <1>2 DEF Begin
<1>3. ASSUME NEW q \in Request, NEW replace \in BOOLEAN, FindExisting(r, q, replace) PROVE
             todo'[r] \in Seq(Statements) /\ todo'[r] # <<>> /\ PlanShape(q, todo'[r])
  <2>1. q.kind = "migrate" /\ q.name \in Names /\ q.props \in Props
    BY <1>3, TouchesFacts DEF FindExisting
  <2>2. q.from = None
    BY <1>0, <1>3 DEF FindExisting
  <2> DEFINE row == Source(q.name, q.props)
  <2>3. row \in SourceRows /\ row.name = q.name /\ row.sql = q.props
    BY <2>1, SourceRow
  <2>4. todo'[r] \in {CreatePlan(q), ReplacePlan(q)}
    BY <1>1, <1>3, <2>2 DEF FindExisting
  <2>5. \E last \in {CreateObject(row), UpdateObject(row)} : todo'[r] = IngestPlan(row, last)
    BY <2>3, <2>4 DEF CreatePlan, ReplacePlan, IngestPlan
  <2>6. PICK last \in {CreateObject(row), UpdateObject(row)} : todo'[r] = IngestPlan(row, last)
    BY <2>5
  <2>7. IngestPlan(row, last) \in Seq(Statements) /\ IngestPlan(row, last) # <<>> /\ Len(IngestPlan(row, last)) = 3
    <3>1. /\ Ingest(row.name, row.sql) \in Statements /\ Lookup(row.name) \in Statements
          /\ last \in Statements
      BY <2>1, <2>3, <2>6, PlanTypes
    <3> HIDE DEF row
    <3> QED BY <3>1 DEF IngestPlan
  <2>8. Left(todo'[r], IngestPlan(row, last))
    BY <2>6, <2>7, PlanIsLeft
  <2>9. PlanShape(q, todo'[r])
    <3> HIDE DEF row
    <3> QED BY <2>1, <2>2, <2>3, <2>8 DEF PlanShape
  <2> QED BY <2>6, <2>7, <2>9
<1>4. ASSUME NEW q \in Request, FindDeleted(r, q) PROVE
             todo'[r] \in Seq(Statements) /\ todo'[r] # <<>> /\ PlanShape(q, todo'[r])
  <2>1. q.kind = "delete" /\ q.name \in Names /\ Found(q.name) # NoRow
    BY <1>4, TouchesFacts DEF FindDeleted
  <2>2. PICK n \in Names : n = Found(q.name).name /\ Lower[n] = Lower[q.name]
    BY <2>1, FoundFacts
  <2>3. todo'[r] = DeletePlan(n)
    BY <1>1, <1>4, <2>2 DEF FindDeleted, DeletePlan
  <2>4. DeletePlan(n) \in Seq(Statements) /\ DeletePlan(n) # <<>> /\ Len(DeletePlan(n)) = 2
    <3>1. Drop(n) \in Statements /\ DeleteObject(n) \in Statements
      BY DEF Drop, DeleteObject, Statements
    <3> QED BY <3>1 DEF DeletePlan
  <2>5. Left(todo'[r], DeletePlan(n))
    BY <2>3, <2>4, PlanIsLeft
  <2> QED BY <2>1, <2>2, <2>3, <2>4, <2>5 DEF PlanShape
<1>5. ASSUME NEW q \in Request, FindRefreshed(r, q) PROVE
             todo'[r] \in Seq(Statements) /\ todo'[r] # <<>> /\ PlanShape(q, todo'[r])
  <2>1. q.kind = "refresh" /\ q.name \in Names /\ Found(q.name) # NoRow /\ Found(q.name).type = "source"
    BY <1>5, TouchesFacts DEF FindRefreshed
  <2>2. PICK row \in SourceRows : row = Found(q.name) /\ Lower[row.name] = Lower[q.name]
    BY <2>1, FoundFacts
  <2>3. todo'[r] = RefreshPlan(row)
    BY <1>1, <1>5, <2>2 DEF FindRefreshed, RefreshPlan
  <2>4. RefreshPlan(row) \in Seq(Statements) /\ RefreshPlan(row) # <<>> /\ Len(RefreshPlan(row)) = 2
    <3>1. Ingest(row.name, row.sql) \in Statements /\ UpdateObject(row) \in Statements
      BY <2>1, PlanTypes
    <3> QED BY <3>1 DEF RefreshPlan
  <2>5. Left(todo'[r], RefreshPlan(row))
    BY <2>3, <2>4, PlanIsLeft
  <2> QED BY <2>1, <2>2, <2>3, <2>4, <2>5 DEF PlanShape
<1>6. CASE FindRenamed(r)
  <2> DEFINE q == req[r]
  <2>1. /\ q \in Request /\ q.kind = "migrate" /\ q.from \in Names /\ q.name \in Names /\ q.props \in Props
        /\ Found(q.from) # NoRow /\ req'[r] = q
    <3>1. q.kind = "migrate" /\ q.from # None /\ Found(q.from) # NoRow /\ req'[r] = q
      BY <1>6 DEF FindRenamed, Shape, Run
    <3>2. q \in Request
      BY <1>0, <3>1 DEF NoRequest
    <3> QED BY <3>1, <3>2, TouchesFacts
  <2>2. PICK n \in Names : n = Found(q.from).name /\ Lower[n] = Lower[q.from]
    BY <2>1, FoundFacts
  <2> DEFINE row == Source(q.name, q.props)
  <2>3. row \in SourceRows /\ row.name = q.name /\ row.sql = q.props
    BY <2>1, SourceRow, SMTT(30)
  <2>4. todo'[r] \in {MovePlan(row, n), IngestMovePlan(row, n)}
    <3>1. todo'[r] = RenamePlan(q, Found(q.from))
      BY <1>1, <1>6 DEF FindRenamed, Run
    <3>2. CreatePlan(q) \o <<DeleteObject(n), DropIfExists(n)>> = IngestMovePlan(row, n)
      BY <2>3, TwoParts DEF CreatePlan, IngestMovePlan
    <3> QED BY <2>2, <2>3, <3>1, <3>2 DEF RenamePlan, MovePlan
  <2>5. /\ MovePlan(row, n) \in Seq(Statements) /\ MovePlan(row, n) # <<>> /\ Len(MovePlan(row, n)) = 3
        /\ IngestMovePlan(row, n) \in Seq(Statements) /\ IngestMovePlan(row, n) # <<>> /\ Len(IngestMovePlan(row, n)) = 5
    <3>1. /\ Ingest(row.name, row.sql) \in Statements /\ Lookup(row.name) \in Statements
          /\ CreateObject(row) \in Statements /\ DeleteObject(n) \in Statements
          /\ DropIfExists(n) \in Statements /\ Alter(n, row.name) \in Statements
      BY <2>3, PlanTypes
    <3> HIDE DEF row
    <3> QED BY <3>1 DEF IngestMovePlan, MovePlan
  <2>6. Left(todo'[r], MovePlan(row, n)) \/ Left(todo'[r], IngestMovePlan(row, n))
    BY <2>4, <2>5, PlanIsLeft
  <2>7. PlanShape(req'[r], todo'[r])
    <3> HIDE DEF row
    <3> QED BY <2>1, <2>2, <2>3, <2>6, KeyFacts DEF PlanShape
  <2> QED BY <2>1, <2>4, <2>5, <2>7
<1>7. ASSUME Arrive(r), ~ FindRenamed(r)
      PROVE  \E q \in Request : req'[r] = q /\ todo'[r] \in Seq(Statements) /\ todo'[r] # <<>>
                                 /\ PlanShape(q, todo'[r])
  <2>1. PICK q \in Request : \/ \E replace \in BOOLEAN : FindExisting(r, q, replace)
                             \/ FindDeleted(r, q) \/ FindRefreshed(r, q) \/ FindObjects(r, q)
    BY <1>7 DEF Arrive
  <2>2. req'[r] = q
    BY <1>2, <2>1 DEF FindExisting, FindDeleted, FindRefreshed, FindObjects
  <2>3. ~ FindObjects(r, q)
    BY <1>0 DEF FindObjects
  <2> QED BY <1>3, <1>4, <1>5, <2>1, <2>2, <2>3
<1> QED BY <1>6, <1>7

LEMMA PlanLengths ==
  \A n, row, last :
    /\ Len(DeletePlan(n)) = 2 /\ Len(RefreshPlan(row)) = 2 /\ Len(IngestPlan(row, last)) = 3
    /\ Len(MovePlan(row, n)) = 3 /\ Len(IngestMovePlan(row, n)) = 5
BY DEF DeletePlan, RefreshPlan, IngestPlan, MovePlan, IngestMovePlan

\* What is left after a statement is left of the same plan.
LEMMA TailShape ==
  ASSUME NEW q, NEW s \in Seq(Statements), s # <<>>, PlanShape(q, s), Tail(s) # <<>>
  PROVE  PlanShape(q, Tail(s))
<1>1. CASE q.kind = "sync"
  <2>1. s \in Seq(SyncStatements)
    BY <1>1 DEF PlanShape
  <2>2. Tail(s) \in Seq(SyncStatements)
    BY <2>1, HeadTailProperties
  <2> QED BY <1>1, <2>2 DEF PlanShape
<1>2. ASSUME NEW plan, Len(plan) \in Nat, Left(s, plan) PROVE Left(Tail(s), plan)
  BY <1>2, LeftFacts
<1>3. CASE q.kind = "delete"
  BY <1>2, <1>3, PlanLengths DEF PlanShape
<1>4. CASE q.kind = "refresh"
  BY <1>2, <1>4, PlanLengths DEF PlanShape
<1>5. CASE q.kind = "migrate"
  <2>1. PICK row \in SourceRows :
          /\ row.name = q.name /\ row.sql = q.props
          /\ IF q.from = None
             THEN \E last \in {CreateObject(row), UpdateObject(row)} : Left(s, IngestPlan(row, last))
             ELSE \E n \in Names : /\ Lower[n] = Lower[q.from]
                                   /\ Left(s, MovePlan(row, n)) \/ Left(s, IngestMovePlan(row, n))
    BY <1>5 DEF PlanShape
  <2>2. CASE q.from = None
    <3>1. \E last \in {CreateObject(row), UpdateObject(row)} : Left(Tail(s), IngestPlan(row, last))
      BY <1>2, <2>1, <2>2, PlanLengths
    <3> QED BY <1>5, <2>1, <2>2, <3>1 DEF PlanShape
  <2>3. CASE q.from # None
    <3>1. \E n \in Names : /\ Lower[n] = Lower[q.from]
                           /\ Left(Tail(s), MovePlan(row, n)) \/ Left(Tail(s), IngestMovePlan(row, n))
      BY <1>2, <2>1, <2>3, PlanLengths
    <3> QED BY <1>5, <2>1, <2>3, <3>1 DEF PlanShape
  <2> QED BY <2>2, <2>3
<1> QED BY <1>1, <1>3, <1>4, <1>5 DEF PlanShape

\* Where s is in a plan.
LEMMA PlanPlaces ==
  ASSUME NEW s \in Seq(Statements), NEW plan, Left(s, plan)
  PROVE  LET n == Len(s) IN
         /\ Len(plan) = 2 => /\ n \in 1..2 /\ s[n] = plan[2] /\ s # <<>> /\ Head(s) = s[1]
                             /\ n = 2 => s[1] = plan[1]
         /\ Len(plan) = 3 => /\ n \in 1..3 /\ s[n] = plan[3] /\ s # <<>> /\ Head(s) = s[1]
                             /\ n = 3 => s[1] = plan[1]
                             /\ n = 2 => s[1] = plan[2]
         /\ Len(plan) = 5 => /\ n \in 1..5 /\ s[n] = plan[5] /\ s # <<>> /\ Head(s) = s[1]
                             /\ n = 5 => s[1] = plan[1]
                             /\ n = 4 => s[1] = plan[2]
                             /\ n = 3 => s[1] = plan[3]
                             /\ n = 2 => s[1] = plan[4]
<1> DEFINE n == Len(s)
<1>1. ASSUME NEW m \in {2, 3, 5}, Len(plan) = m
      PROVE  /\ s # <<>> /\ Head(s) = s[1] /\ n \in 1..m /\ s[n] = plan[m]
             /\ \A j \in 1..m : n = j => s[1] = plan[(m - j) + 1]
  <2>1. /\ s # <<>> /\ Len(s) \in 1..Len(plan) /\ Head(s) = s[1] /\ s[Len(s)] = plan[Len(plan)]
        /\ Head(s) = plan[(Len(plan) - Len(s)) + 1]
    BY <1>1, LeftFacts
  <2> QED BY <1>1, <2>1
<1>2. CASE Len(plan) = 2
  BY <1>1, <1>2
<1>3. CASE Len(plan) = 3
  BY <1>1, <1>3
<1>4. CASE Len(plan) = 5
  BY <1>1, <1>4
<1> QED BY <1>2, <1>3, <1>4

\* The operations of a plan, by how many statements are left.
LEMMA PlanOps ==
  ASSUME NEW q, NEW s \in Seq(Statements), PlanShape(q, s), q.kind # "sync"
  PROVE  LET n == Len(s)  last == s[Len(s)] IN
         /\ s # <<>> /\ Head(s) = s[1] /\ n \in 1..5
         /\ q.kind = "delete" =>
              /\ n \in 1..2 /\ last.op = "delete" /\ last.name \in Names /\ Lower[last.name] = Lower[q.name]
              /\ n = 2 => s[1].op = "drop" /\ s[1].name = last.name
         /\ q.kind = "refresh" =>
              /\ n \in 1..2 /\ last.op = "update" /\ last.row \in SourceRows
              /\ Lower[last.row.name] = Lower[q.name]
              /\ n = 2 => s[1].op = "ingest" /\ s[1].name = last.row.name /\ s[1].data = last.row.sql
         /\ q.kind = "migrate" /\ q.from = None =>
              /\ n \in 1..3 /\ last.op \in {"create", "update"} /\ last.row \in SourceRows
              /\ last.row.name = q.name /\ last.row.sql = q.props
              /\ n = 2 => s[1].op = "lookup" /\ s[1].name = q.name
              /\ n = 3 => s[1].op = "ingest" /\ s[1].name = q.name /\ s[1].data = q.props
         /\ q.kind = "migrate" /\ q.from # None =>
              /\ last.op \in {"alter", "dropIfExists"} /\ last.name \in Names /\ Lower[last.name] = Lower[q.from]
              /\ last.op = "alter" => n \in 1..3 /\ last.to = q.name
              /\ n = 2 => s[1].op = "delete" /\ s[1].name = last.name
              /\ n = 3 => /\ s[1].op = "create" /\ s[1].row \in SourceRows
                          /\ s[1].row.name = q.name /\ s[1].row.sql = q.props
              /\ n = 4 => s[1].op = "lookup" /\ s[1].name = q.name
              /\ n = 5 => s[1].op = "ingest" /\ s[1].name = q.name /\ s[1].data = q.props
<1> DEFINE n == Len(s)
           last == s[Len(s)]
<1>1. CASE q.kind = "delete"
  <2>1. PICK m \in Names : Lower[m] = Lower[q.name] /\ Left(s, DeletePlan(m))
    BY <1>1 DEF PlanShape
  <2>2. /\ s # <<>> /\ Head(s) = s[1] /\ n \in 1..2
        /\ last = DeletePlan(m)[2] /\ (n = 2 => s[1] = DeletePlan(m)[1])
    BY <2>1, PlanLengths, PlanPlaces
  <2>3. last = DeleteObject(m) /\ (n = 2 => s[1] = Drop(m))
    BY <2>2 DEF DeletePlan
  <2> QED BY <1>1, <2>1, <2>2, <2>3 DEF DeleteObject, Drop
<1>2. CASE q.kind = "refresh"
  <2>1. PICK row \in SourceRows : Lower[row.name] = Lower[q.name] /\ Left(s, RefreshPlan(row))
    BY <1>2 DEF PlanShape
  <2>2. /\ s # <<>> /\ Head(s) = s[1] /\ n \in 1..2
        /\ last = RefreshPlan(row)[2] /\ (n = 2 => s[1] = RefreshPlan(row)[1])
    BY <2>1, PlanLengths, PlanPlaces
  <2>3. last = UpdateObject(row) /\ (n = 2 => s[1] = Ingest(row.name, row.sql))
    BY <2>2 DEF RefreshPlan
  <2> QED BY <1>2, <2>1, <2>2, <2>3 DEF UpdateObject, Ingest
<1>3. CASE q.kind = "migrate" /\ q.from = None
  <2>1. PICK row \in SourceRows, end \in Statements :
          /\ row.name = q.name /\ row.sql = q.props /\ Left(s, IngestPlan(row, end))
          /\ end \in {CreateObject(row), UpdateObject(row)}
    <3>1. PICK row \in SourceRows : 
            /\ row.name = q.name /\ row.sql = q.props
            /\ \E end \in {CreateObject(row), UpdateObject(row)} : Left(s, IngestPlan(row, end))
      BY <1>3 DEF PlanShape
    <3>2. CreateObject(row) \in Statements /\ UpdateObject(row) \in Statements
      BY DEF CreateObject, UpdateObject, Statements, Rows
    <3> QED BY <3>1, <3>2
  <2>2. /\ s # <<>> /\ Head(s) = s[1] /\ n \in 1..3
        /\ last = IngestPlan(row, end)[3]
        /\ n = 3 => s[1] = IngestPlan(row, end)[1]
        /\ n = 2 => s[1] = IngestPlan(row, end)[2]
    BY <2>1, PlanLengths, PlanPlaces
  <2>3. last = end /\ (n = 2 => s[1] = Lookup(row.name)) /\ (n = 3 => s[1] = Ingest(row.name, row.sql))
    BY <2>2 DEF IngestPlan
  <2> QED BY <1>3, <2>1, <2>2, <2>3 DEF CreateObject, UpdateObject, Ingest, Lookup
<1>4. CASE q.kind = "migrate" /\ q.from # None
  <2>1. PICK row \in SourceRows, m \in Names :
          /\ row.name = q.name /\ row.sql = q.props /\ Lower[m] = Lower[q.from]
          /\ Left(s, MovePlan(row, m)) \/ Left(s, IngestMovePlan(row, m))
    BY <1>4 DEF PlanShape
  <2>2. CASE Left(s, MovePlan(row, m))
    <3>1. /\ s # <<>> /\ Head(s) = s[1] /\ n \in 1..3
          /\ last = MovePlan(row, m)[3]
          /\ n = 3 => s[1] = MovePlan(row, m)[1]
          /\ n = 2 => s[1] = MovePlan(row, m)[2]
      BY <2>2, PlanLengths, PlanPlaces
    <3>2. /\ last = Alter(m, row.name) /\ (n = 2 => s[1] = DeleteObject(m))
          /\ n = 3 => s[1] = CreateObject(row)
      BY <3>1 DEF MovePlan
    <3>3. /\ last.op = "alter" /\ last.name = m /\ last.to = q.name
          /\ n = 2 => s[1].op = "delete" /\ s[1].name = m
          /\ n = 3 => s[1].op = "create" /\ s[1].row = row
      BY <2>1, <3>2 DEF Alter, DeleteObject, CreateObject
    <3>4. n \in 1..3
      BY <2>2, PlanLengths, PlanPlaces
    <3>5. n # 4 /\ n # 5 /\ n \in 1..5
      <4>1. ASSUME NEW i \in 1..3 PROVE i # 4 /\ i # 5 /\ i \in 1..5
        OBVIOUS
      <4> QED BY <3>4, <4>1
    <3>6. s # <<>> /\ Head(s) = s[1]
      BY <3>1
    <3> QED BY <1>4, <2>1, <3>3, <3>4, <3>5, <3>6
  <2>3. CASE Left(s, IngestMovePlan(row, m))
    <3>1. /\ s # <<>> /\ Head(s) = s[1] /\ n \in 1..5
          /\ last = IngestMovePlan(row, m)[5]
          /\ n = 5 => s[1] = IngestMovePlan(row, m)[1]
          /\ n = 4 => s[1] = IngestMovePlan(row, m)[2]
          /\ n = 3 => s[1] = IngestMovePlan(row, m)[3]
          /\ n = 2 => s[1] = IngestMovePlan(row, m)[4]
      BY <2>3, PlanLengths, PlanPlaces
    <3>2. /\ last = DropIfExists(m) /\ (n = 2 => s[1] = DeleteObject(m))
          /\ n = 3 => s[1] = CreateObject(row)
          /\ n = 4 => s[1] = Lookup(row.name)
          /\ n = 5 => s[1] = Ingest(row.name, row.sql)
      BY <3>1 DEF IngestMovePlan
    <3> QED BY <1>4, <2>1, <3>1, <3>2 DEF DropIfExists, DeleteObject, CreateObject, Ingest, Lookup
  <2> QED BY <2>1, <2>2, <2>3
<1> QED BY <1>1, <1>2, <1>3, <1>4 DEF PlanShape

\* The schema that is looked up goes into a row.
LEMMA WithSchema ==
  ASSUME NEW row \in SourceRows, NEW d \in Data
  PROVE  LET row2 == [row EXCEPT !.schema = d] IN
         /\ row2 \in SourceRows /\ row2.name = row.name /\ row2.sql = row.sql
         /\ [CreateObject(row) EXCEPT !.row.schema = d] = CreateObject(row2)
         /\ [UpdateObject(row) EXCEPT !.row.schema = d] = UpdateObject(row2)
<1> DEFINE row2 == [row EXCEPT !.schema = d]
<1>1. row2 \in SourceRows /\ row2.name = row.name /\ row2.sql = row.sql
  BY DEF SourceRows
<1>2. [CreateObject(row) EXCEPT !.row = row2] = CreateObject(row2)
  BY DEF CreateObject
<1>3. [UpdateObject(row) EXCEPT !.row = row2] = UpdateObject(row2)
  BY DEF UpdateObject
<1>4. CreateObject(row).row = row /\ UpdateObject(row).row = row
  BY DEF CreateObject, UpdateObject
<1> QED BY <1>1, <1>2, <1>3, <1>4

LEMMA LookedUp ==
  ASSUME NEW q, q.kind # "sync", NEW s \in Seq(Statements), PlanShape(q, s), Head(s).op = "lookup",
         NEW d \in Data
  PROVE  LET new == [Tail(s) EXCEPT ![1].row.schema = d] IN
         /\ q.kind = "migrate" /\ s # <<>> /\ Len(s) = (IF q.from = None THEN 2 ELSE 4)
         /\ new \in Seq(Statements) /\ new # <<>> /\ Len(new) = Len(s) - 1
         /\ PlanShape(q, new)
         /\ new[Len(new)].op = s[Len(s)].op
         /\ q.from # None => new[Len(new)].name = s[Len(s)].name
<1> DEFINE rest == Tail(s)
           new == [rest EXCEPT ![1].row.schema = d]
<1>1. /\ s # <<>> /\ s[1].op = "lookup" /\ q.kind = "migrate" /\ Len(s) \in Nat
      /\ Len(s) = (IF q.from = None THEN 2 ELSE 4)
  <2>1. s # <<>> /\ s[1].op = "lookup" /\ Len(s) \in 1..5
    BY PlanOps
  <2>2. q.kind = "migrate"
    <3>1. CASE q.kind = "delete"
      <4>1. Len(s) \in 1..2
        BY <3>1, PlanOps
      <4>2. s[Len(s)].op = "delete" /\ (Len(s) = 2 => s[1].op = "drop")
        BY <3>1, PlanOps
      <4> QED BY <2>1, <4>1, <4>2
    <3>2. CASE q.kind = "refresh"
      <4>1. Len(s) \in 1..2
        BY <3>2, PlanOps
      <4>2. s[Len(s)].op = "update" /\ (Len(s) = 2 => s[1].op = "ingest")
        BY <3>2, PlanOps
      <4> QED BY <2>1, <4>1, <4>2
    <3> QED BY <3>1, <3>2 DEF PlanShape
  <2>3. CASE q.from = None
    <3>1. Len(s) \in 1..3
      BY <2>2, <2>3, PlanOps
    <3>2. s[Len(s)].op \in {"create", "update"} /\ (Len(s) = 3 => s[1].op = "ingest")
      BY <2>2, <2>3, PlanOps
    <3> QED BY <2>1, <2>2, <2>3, <3>1, <3>2, SMTT(30)
  <2>4. CASE q.from # None
    <3>1. /\ s[Len(s)].op \in {"alter", "dropIfExists"}
          /\ Len(s) = 2 => s[1].op = "delete"
          /\ Len(s) = 3 => s[1].op = "create"
          /\ Len(s) = 5 => s[1].op = "ingest"
      BY <2>2, <2>4, PlanOps
    <3> QED BY <2>1, <2>2, <2>4, <3>1
  <2> QED BY <2>3, <2>4
<1>2. /\ rest \in Seq(Statements) /\ Len(rest) = Len(s) - 1
      /\ \A i \in 1..(Len(s) - 1) : rest[i] = s[i + 1]
  BY <1>1, HeadTailProperties
<1>3. 1 \in 1..Len(rest) /\ Len(rest) \in Nat
  BY <1>1, <1>2
<1>7. rest[1] = s[2] /\ (Len(s) = 4 => rest[2] = s[3] /\ rest[3] = s[4])
  <2> HIDE DEF rest
  <2>1. rest[1] = s[2]
    <3>1. 1 \in 1..(Len(s) - 1)
      BY <1>2, <1>3
    <3> QED BY <1>2, <3>1
  <2>2. ASSUME Len(s) = 4 PROVE rest[2] = s[3] /\ rest[3] = s[4]
    <3>1. 2 \in 1..(Len(s) - 1) /\ 3 \in 1..(Len(s) - 1)
      BY <2>2
    <3> QED BY <1>2, <3>1
  <2> QED BY <2>1, <2>2
<1>4. ASSUME [rest[1] EXCEPT !.row.schema = d] \in Statements
      PROVE  /\ new \in Seq(Statements) /\ new # <<>> /\ Len(new) = Len(s) - 1
             /\ new[1] = [rest[1] EXCEPT !.row.schema = d]
             /\ \A i \in 2..(Len(s) - 1) : new[i] = s[i + 1]
  <2> DEFINE e == [rest[1] EXCEPT !.row.schema = d]
  <2>1. /\ [rest EXCEPT ![1] = e] \in Seq(Statements)
        /\ Len([rest EXCEPT ![1] = e]) = Len(rest)
        /\ \A j \in 1..Len(rest) : [rest EXCEPT ![1] = e][j] = IF j = 1 THEN e ELSE rest[j]
    <3> HIDE DEF e, rest
    <3> QED BY <1>2, <1>3, <1>4, ExceptSeq DEF e
  <2>2. new = [rest EXCEPT ![1] = e]
    OBVIOUS
  <2> HIDE DEF e, new, rest
  <2>3. new # <<>>
    BY <1>3, <2>1, <2>2, EmptySeq
  <2> QED BY <1>2, <1>3, <2>1, <2>2, <2>3 DEF e
<1>5. CASE q.from = None
  <2>1. PICK row \in SourceRows :
          /\ row.name = q.name /\ row.sql = q.props
          /\ \E last \in {CreateObject(row), UpdateObject(row)} : Left(s, IngestPlan(row, last))
    BY <1>1, <1>5 DEF PlanShape
  <2>2. PICK last \in {CreateObject(row), UpdateObject(row)} : Left(s, IngestPlan(row, last))
    BY <2>1
  <2> DEFINE row2 == [row EXCEPT !.schema = d]
  <2>3. rest[1] = last /\ s[Len(s)] = last
    <3>1. s[Len(s)] = IngestPlan(row, last)[3]
      BY <2>2, PlanLengths, PlanPlaces
    <3>2. IngestPlan(row, last)[3] = last
      BY DEF IngestPlan
    <3>3. Len(s) = 2
      BY <1>1, <1>5
    <3>4. s[2] = last
      BY <3>1, <3>2, <3>3
    <3> QED BY <1>7, <3>3, <3>4
  <2>4. PICK last2 \in {CreateObject(row2), UpdateObject(row2)} :
          last2 = [rest[1] EXCEPT !.row.schema = d] /\ last2.op = last.op
    <3>1. /\ [CreateObject(row) EXCEPT !.row.schema = d] = CreateObject(row2)
          /\ [UpdateObject(row) EXCEPT !.row.schema = d] = UpdateObject(row2)
      BY WithSchema
    <3>2. /\ CreateObject(row2).op = CreateObject(row).op
          /\ UpdateObject(row2).op = UpdateObject(row).op
      BY DEF CreateObject, UpdateObject
    <3> HIDE DEF row2, rest
    <3>3. CASE last = CreateObject(row)
      BY <2>3, <3>1, <3>2, <3>3
    <3>4. CASE last = UpdateObject(row)
      BY <2>3, <3>1, <3>2, <3>4
    <3> QED BY <2>2, <3>3, <3>4
  <2>5. row2 \in SourceRows /\ row2.name = q.name /\ row2.sql = q.props /\ last2 \in Statements
    <3>1. row2 \in SourceRows /\ row2.name = row.name /\ row2.sql = row.sql
      BY WithSchema
    <3> HIDE DEF row2
    <3>2. CreateObject(row2) \in Statements /\ UpdateObject(row2) \in Statements
      BY <3>1, KeyFacts DEF CreateObject, UpdateObject, Statements, Rows
    <3> QED BY <2>1, <2>4, <3>1, <3>2
  <2>6. /\ new \in Seq(Statements) /\ new # <<>> /\ Len(new) = 1 /\ new[1] = last2
    <3>1. [rest[1] EXCEPT !.row.schema = d] \in Statements
      BY <2>4, <2>5
    <3>2. Len(s) - 1 = 1
      BY <1>1, <1>5
    <3>3. /\ new \in Seq(Statements) /\ new # <<>> /\ Len(new) = Len(s) - 1
          /\ new[1] = [rest[1] EXCEPT !.row.schema = d]
      BY <1>4, <3>1
    <3> HIDE DEF new, rest, row2
    <3> QED BY <2>4, <3>2, <3>3
  <2>7. Left(new, IngestPlan(row2, last2))
    <3>1. IngestPlan(row2, last2)[3] = last2
      BY DEF IngestPlan
    <3> HIDE DEF new, row2
    <3> QED BY <2>6, <3>1, PlanLengths DEF Left
  <2>8. PlanShape(q, new)
    <3> HIDE DEF new, row2
    <3> QED BY <1>1, <1>5, <2>4, <2>5, <2>7 DEF PlanShape
  <2> HIDE DEF new
  <2>9. new[Len(new)].op = s[Len(s)].op /\ Len(new) = Len(s) - 1
    BY <1>1, <1>5, <2>3, <2>4, <2>6
  <2>10. /\ q.kind = "migrate" /\ s # <<>> /\ Len(s) = (IF q.from = None THEN 2 ELSE 4)
         /\ new \in Seq(Statements) /\ new # <<>> /\ Len(new) = Len(s) - 1
         /\ PlanShape(q, new) /\ new[Len(new)].op = s[Len(s)].op
         /\ q.from # None => new[Len(new)].name = s[Len(s)].name
    BY <1>1, <1>5, <2>6, <2>8, <2>9
  <2> QED BY <2>10 DEF new
<1>6. CASE q.from # None
  <2>1. PICK row \in SourceRows, n \in Names :
          /\ row.name = q.name /\ row.sql = q.props /\ Lower[n] = Lower[q.from]
          /\ Left(s, MovePlan(row, n)) \/ Left(s, IngestMovePlan(row, n))
    BY <1>1, <1>6 DEF PlanShape
  <2> DEFINE row2 == [row EXCEPT !.schema = d]
             plan == IngestMovePlan(row, n)
  <2>2. Left(s, plan)
    BY <1>1, <1>6, <2>1, PlanLengths, SMTT(30) DEF Left
  <2>3. \A i \in 1..4 : s[i] = plan[(5 - 4) + i]
    BY <1>1, <1>6, <2>2, PlanLengths DEF Left
  <2>4. s[2] = CreateObject(row) /\ s[3] = DeleteObject(n) /\ s[4] = DropIfExists(n)
    <3>1. plan[3] = CreateObject(row) /\ plan[4] = DeleteObject(n) /\ plan[5] = DropIfExists(n)
      BY DEF IngestMovePlan
    <3>2. s[2] = plan[3] /\ s[3] = plan[4] /\ s[4] = plan[5]
      <4> HIDE DEF plan
      <4> QED BY <2>3
    <3> QED BY <3>1, <3>2
  <2>5. rest[1] = CreateObject(row)
    BY <1>7, <2>4
  <2>6. [rest[1] EXCEPT !.row.schema = d] = CreateObject(row2)
    BY <2>5, WithSchema
  <2>7. row2 \in SourceRows /\ row2.name = q.name /\ row2.sql = q.props /\ CreateObject(row2) \in Statements
    BY <2>1, WithSchema, PlanTypes
  <2>8. /\ new \in Seq(Statements) /\ new # <<>> /\ Len(new) = 3
        /\ new[1] = CreateObject(row2) /\ new[2] = DeleteObject(n) /\ new[3] = DropIfExists(n)
    <3>1. [rest[1] EXCEPT !.row.schema = d] \in Statements
      BY <2>6, <2>7
    <3>2. Len(s) = 4
      BY <1>1, <1>6
    <3>3. /\ new \in Seq(Statements) /\ new # <<>> /\ Len(new) = Len(s) - 1
          /\ new[1] = [rest[1] EXCEPT !.row.schema = d]
          /\ \A i \in 2..(Len(s) - 1) : new[i] = s[i + 1]
      BY <1>4, <3>1
    <3> HIDE DEF new, row2, rest
    <3>4. new[2] = s[3] /\ new[3] = s[4]
      <4>1. 2 \in 2..(Len(s) - 1) /\ 3 \in 2..(Len(s) - 1)
        BY <3>2
      <4> QED BY <3>3, <4>1
    <3> QED BY <2>4, <2>6, <3>2, <3>3, <3>4
  <2>9. Left(new, IngestMovePlan(row2, n))
    <3> DEFINE plan2 == IngestMovePlan(row2, n)
    <3>1. plan2[3] = CreateObject(row2) /\ plan2[4] = DeleteObject(n) /\ plan2[5] = DropIfExists(n)
      BY DEF IngestMovePlan
    <3>2. Len(plan2) = 5
      BY PlanLengths
    <3>3. \A i \in 1..3 : new[i] = plan2[(5 - 3) + i]
      <4> HIDE DEF plan2, new, row2
      <4>1. \A i \in 1..3 : i = 1 \/ i = 2 \/ i = 3
        OBVIOUS
      <4> QED BY <2>8, <3>1, <4>1
    <3> HIDE DEF plan2, new
    <3>4. Left(new, plan2)
      BY <2>8, <3>2, <3>3 DEF Left
    <3> QED BY <3>4 DEF plan2
  <2>10. PlanShape(q, new)
    <3> HIDE DEF new, row2
    <3> QED BY <1>1, <1>6, <2>1, <2>7, <2>9 DEF PlanShape
  <2> HIDE DEF new
  <2>11. new[Len(new)] = s[Len(s)]
    BY <1>1, <1>6, <2>4, <2>8
  <2>12. /\ q.kind = "migrate" /\ s # <<>> /\ Len(s) = (IF q.from = None THEN 2 ELSE 4)
         /\ new \in Seq(Statements) /\ new # <<>> /\ Len(new) = Len(s) - 1
         /\ PlanShape(q, new) /\ new[Len(new)].op = s[Len(s)].op
         /\ q.from # None => new[Len(new)].name = s[Len(s)].name
    BY <1>1, <1>6, <2>8, <2>10, <2>11
  <2> QED BY <2>12 DEF new
<1> QED BY <1>5, <1>6

-----------------------------------------------------------------------------
(* Types, and handlers and what they have left                             *)

\* A handler that runs a statement and goes on.
LEMMA RunStep ==
  ASSUME TypeOK, NEW r \in Requests, Shape(r), Statement(r), phase'[r] = "run"
  PROVE  LET s == todo[r]  new == todo'[r] IN
         /\ UNCHANGED <<req, history>>
         /\ new \in Seq(Statements) /\ new # <<>> /\ Len(new) = Len(s) - 1 /\ Len(s) \in Nat
         /\ PlanShape(req[r], new)
         /\ Head(s).op # "lookup" => new = Tail(s) /\ new[Len(new)] = s[Len(s)]
         /\ Head(s).op = "lookup" =>
              /\ req[r].kind = "migrate" /\ new[Len(new)].op = s[Len(s)].op
              /\ req[r].from # None => new[Len(new)].name = s[Len(s)].name
         /\ objs'[r] = {}
<1> DEFINE s == todo[r]
<1>0. /\ req \in [Requests -> Request \cup {NoRequest}]
      /\ phase \in [Requests -> {"idle", "ok", "findFrom", "readSchema", "run"}]
      /\ todo \in [Requests -> Seq(Statements)] /\ objs \in [Requests -> SUBSET Rows]
      /\ s \in Seq(Statements)
  BY DEF TypeOK
<1>1. phase[r] = "run" /\ PlanShape(req[r], s) /\ s # <<>>
  BY Zenon DEF Statement, RunIngest, RunLookup, RunCreate, RunUpdate, RunDelete, RunAlter, RunDrop, Is, Shape, TypeOK
<1>2. ASSUME NEW new, Run(r, new)
      PROVE  todo'[r] = new /\ objs'[r] = {} /\ UNCHANGED <<req, history>>
  BY <1>0, <1>2 DEF Run, Plan
<1>3. CASE RunLookup(r)
  <2> DEFINE t == tables[Lower[Head(s).name]]
             new == [Tail(s) EXCEPT ![1].row.schema = t.data]
  <2>1. Head(s).op = "lookup" /\ t # NoTable /\ Run(r, new)
    BY <1>3 DEF RunLookup, Is
  <2>2. Head(s) \in Statements
    BY <1>0, <1>1, HeadTailProperties
  <2>3. t.data \in Data
    <3>1. Lower[Head(s).name] \in Keys
      BY <2>1, <2>2, StatementFacts, KeyFacts
    <3> QED BY <2>1, <3>1 DEF TypeOK
  <2>4. req[r].kind # "sync"
    <3>1. ASSUME req[r].kind = "sync" PROVE FALSE
      <4>1. s \in Seq(SyncStatements)
        BY <1>1, <3>1 DEF PlanShape
      <4>2. Head(s) \in SyncStatements
        BY <1>1, <4>1, HeadTailProperties
      <4> QED BY <2>1, <4>2 DEF SyncStatements
    <3> QED BY <3>1
  <2>5. /\ req[r].kind = "migrate" /\ Len(s) = (IF req[r].from = None THEN 2 ELSE 4)
        /\ new \in Seq(Statements) /\ new # <<>> /\ Len(new) = Len(s) - 1
        /\ PlanShape(req[r], new) /\ new[Len(new)].op = s[Len(s)].op
        /\ req[r].from # None => new[Len(new)].name = s[Len(s)].name
    <3> HIDE DEF t, s
    <3> QED BY <1>0, <1>1, <2>1, <2>3, <2>4, LookedUp
  <2>6. todo'[r] = new
    BY <1>2, <2>1
  <2>7. /\ todo'[r] \in Seq(Statements) /\ todo'[r] # <<>> /\ Len(todo'[r]) = Len(s) - 1
        /\ PlanShape(req[r], todo'[r]) /\ todo'[r][Len(todo'[r])].op = s[Len(s)].op
        /\ req[r].from # None => todo'[r][Len(todo'[r])].name = s[Len(s)].name
        /\ req[r].kind = "migrate" /\ Len(s) \in Nat
    <3> HIDE DEF new, t
    <3> QED BY <1>0, <2>5, <2>6, LenProperties
  <2>8. UNCHANGED <<req, history>> /\ objs'[r] = {}
    BY <1>2, <2>1
  <2> QED BY <2>1, <2>7, <2>8
<1>4. CASE ~ RunLookup(r)
  <2>1. GoOn(r) /\ Head(s).op # "lookup"
    BY <1>4, Zenon DEF Statement, RunIngest, RunCreate, RunUpdate, RunDelete, RunAlter, RunDrop, Is
  <2>2. Tail(s) # <<>> /\ Run(r, Tail(s))
    BY <1>0, <2>1 DEF GoOn, Return
  <2>3. PlanShape(req[r], Tail(s))
    BY <1>0, <1>1, <2>2, TailShape
  <2>4. /\ Tail(s) \in Seq(Statements) /\ Len(Tail(s)) = Len(s) - 1 /\ Len(s) \in Nat
    BY <1>0, <1>1, HeadTailProperties, LenProperties
  <2>5. Tail(s)[Len(Tail(s))] = s[Len(s)]
    BY <1>0, <1>1, <2>2, LastOfTail
  <2> QED BY <1>2, <2>1, <2>2, <2>3, <2>4, <2>5, Zenon
<1> QED BY <1>3, <1>4

\* A sync that has something to do.
LEMMA ReadSchemaPlan ==
  ASSUME TypeOK, NEW r \in Requests, ReadSchema(r)
  PROVE  LET ts == {tables[k] : k \in Keys} \ {NoTable}
             all == SyncTables(objs[r], ts) \cup SyncRemoved(objs[r], ts) IN
         /\ all \subseteq SyncStatements
         /\ \E s \in Seq(all) : /\ \A x \in all : \E i \in 1..Len(s) : s[i] = x
                                /\ IF s = <<>> THEN Return(r, "ok") ELSE Run(r, s)
<1> DEFINE ts == {tables[k] : k \in Keys} \ {NoTable}
           A == SyncTables(objs[r], ts)
           B == SyncRemoved(objs[r], ts)
<1>1. A \subseteq SyncStatements /\ B \subseteq SyncStatements /\ IsFiniteSet(A) /\ IsFiniteSet(B)
  BY SyncSets DEF TypeOK
<1>2. PICK s1 \in SetToSeqs(A), s2 \in SetToSeqs(B) :
        IF s1 \o s2 = <<>> THEN Return(r, "ok") ELSE Run(r, s1 \o s2)
  BY DEF ReadSchema
<1>3. /\ s1 \in Seq(A) /\ \A x \in A : \E i \in 1..Len(s1) : s1[i] = x
      /\ s2 \in Seq(B) /\ \A x \in B : \E i \in 1..Len(s2) : s2[i] = x
  <2> HIDE DEF A, B
  <2> QED BY <1>1, SeqsOfSet
<1> HIDE DEF A, B
<1>4. s1 \in Seq(A \cup B) /\ s2 \in Seq(A \cup B)
  BY <1>3, SeqMonotonic
<1> DEFINE s == s1 \o s2
<1>5. /\ s \in Seq(A \cup B) /\ Len(s) = Len(s1) + Len(s2)
      /\ \A i \in 1..(Len(s1) + Len(s2)) : s[i] = IF i <= Len(s1) THEN s1[i] ELSE s2[i - Len(s1)]
      /\ Len(s1) \in Nat /\ Len(s2) \in Nat
  BY <1>4, ConcatProperties, LenProperties
<1> HIDE DEF s
<1>6. ASSUME NEW x \in A \cup B PROVE \E i \in 1..Len(s) : s[i] = x
  <2>1. CASE x \in A
    <3>1. PICK i \in 1..Len(s1) : s1[i] = x
      BY <1>3, <2>1
    <3>2. i \in 1..Len(s) /\ s[i] = x
      BY <1>5, <3>1
    <3> QED BY <3>2
  <2>2. CASE x \in B
    <3>1. PICK i \in 1..Len(s2) : s2[i] = x
      BY <1>3, <2>2
    <3>2. i + Len(s1) \in 1..Len(s) /\ s[i + Len(s1)] = x
      BY <1>5, <3>1
    <3> QED BY <3>2
  <2> QED BY <1>6, <2>1, <2>2
<1> QED BY <1>1, <1>2, <1>5, <1>6 DEF A, B, s

\* Where the handler that takes a step is after it.
LEMMA OwnStep ==
  ASSUME TypeOK, NEW r \in Requests, Shape(r), Step(r)
  PROVE  /\ req'[r] \in Request \cup {NoRequest}
         /\ phase'[r] \in {"idle", "ok", "findFrom", "readSchema", "run"}
         /\ todo'[r] \in Seq(Statements) /\ (todo'[r] # <<>> <=> phase'[r] = "run")
         /\ objs'[r] \subseteq Rows
         /\ Shape(r)'
<1>0. /\ req \in [Requests -> Request \cup {NoRequest}]
      /\ phase \in [Requests -> {"idle", "ok", "findFrom", "readSchema", "run"}]
      /\ todo \in [Requests -> Seq(Statements)] /\ objs \in [Requests -> SUBSET Rows]
      /\ todo[r] # <<>> <=> phase[r] = "run"
      /\ NoRequest \notin Request
  BY DEF TypeOK, NoRequest, Request
<1>1. ASSUME NEW res \in {"ok", "error"}, Return(r, res)
      PROVE  /\ req'[r] = NoRequest /\ phase'[r] \in {"idle", "ok"} /\ todo'[r] = <<>> /\ objs'[r] = {}
             /\ clashed' = clashed \ {r}
  BY <1>0, <1>1 DEF Return
<1>2. CASE \E res \in {"ok", "error"} : Return(r, res)
  <2>1. <<>> \in Seq(Statements)
    OBVIOUS
  <2> QED BY <1>1, <1>2, <2>1 DEF Shape, Idle
\* It has a plan.
<1>3. ASSUME phase'[r] = "run", req'[r] \in Request,
             todo'[r] \in Seq(Statements) \ {<<>>}, PlanShape(req'[r], todo'[r]), objs'[r] = {}
      PROVE  /\ req'[r] \in Request \cup {NoRequest}
             /\ phase'[r] \in {"idle", "ok", "findFrom", "readSchema", "run"}
             /\ todo'[r] \in Seq(Statements) /\ (todo'[r] # <<>> <=> phase'[r] = "run")
             /\ objs'[r] \subseteq Rows
             /\ Shape(r)'
  BY <1>0, <1>3 DEF Shape, Idle
<1>4. ASSUME NEW s, Plan(r, s) PROVE phase'[r] = "run" /\ todo'[r] = s /\ objs'[r] = {}
  BY <1>0, <1>4 DEF Plan
<1>5. CASE Arrive(r)
  <2>1. PICK q \in Request : \/ \E replace \in BOOLEAN : FindExisting(r, q, replace)
                             \/ FindDeleted(r, q) \/ FindRefreshed(r, q) \/ FindObjects(r, q)
    BY <1>5 DEF Arrive
  <2>2. req'[r] = q /\ Idle(r)
    BY <1>0, <2>1 DEF FindExisting, FindDeleted, FindRefreshed, FindObjects, Begin
  <2>3. CASE phase'[r] = "run"
    <3>1. objs'[r] = {}
      BY <1>0, <1>4, <2>1, <2>3 DEF FindExisting, FindDeleted, FindRefreshed, FindObjects
    <3> QED BY <1>3, <1>5, <2>2, <2>3, <3>1, NewPlan
  <2>4. CASE phase'[r] # "run"
    <3>1. todo'[r] = todo[r] /\ todo[r] = <<>>
      BY <1>0, <1>4, <2>1, <2>2, <2>4 DEF FindExisting, FindDeleted, FindRefreshed, FindObjects, Idle
    <3>2. \/ phase'[r] = "findFrom" /\ q.kind = "migrate" /\ q.from # None /\ objs'[r] = objs[r]
          \/ /\ phase'[r] = "readSchema" /\ q.kind = "sync"
             /\ objs'[r] = {catalog[k] : k \in Keys} \ {NoRow}
      BY <1>0, <1>4, <2>1, <2>4 DEF FindExisting, FindDeleted, FindRefreshed, FindObjects
    <3>3. objs'[r] \subseteq Rows
      BY <1>0, <3>2 DEF TypeOK
    <3>4. objs[r] = {}
      BY <2>2 DEF Shape, Idle
    <3> QED BY <1>0, <2>2, <3>1, <3>2, <3>3, <3>4 DEF Shape, Idle
  <2> QED BY <2>3, <2>4
<1>6. CASE FindRenamed(r)
  <2>1. phase'[r] = "run" /\ objs'[r] = {}
    BY <1>4, <1>6 DEF FindRenamed, Run
  <2> QED BY <1>3, <1>6, <2>1, NewPlan
<1>7. CASE ReadSchema(r)
  <2>1. PICK s \in Seq(SyncStatements) : IF s = <<>> THEN Return(r, "ok") ELSE Run(r, s)
    BY <1>7, ReadSchemaPlan, SeqMonotonic
  <2>2. CASE s # <<>>
    <3>1. phase'[r] = "run" /\ todo'[r] = s /\ objs'[r] = {} /\ req'[r] = req[r]
      BY <1>4, <2>1, <2>2 DEF Run
    <3>2. req[r].kind = "sync" /\ req[r] \in Request
      BY <1>0, <1>7 DEF ReadSchema, Shape, NoRequest
    <3>3. s \in Seq(Statements) /\ PlanShape(req[r], s)
      BY <2>2, <3>2, SyncStatementTypes, SeqMonotonic DEF PlanShape
    <3> QED BY <1>3, <2>2, <3>1, <3>2, <3>3
  <2> QED BY <1>2, <2>1, <2>2
<1>8. CASE Statement(r)
  <2>1. phase[r] = "run"
    BY <1>8, Zenon DEF Statement, RunIngest, RunLookup, RunCreate, RunUpdate, RunDelete, RunAlter, RunDrop, Is
  <2>2. req[r] \in Request
    BY <1>0, <2>1 DEF Shape, Idle
  <2>3. CASE phase'[r] = "run"
    BY <1>3, <1>8, <2>2, <2>3, RunStep
  <2>4. CASE phase'[r] # "run"
    <3>1. Run(r, Tail(todo[r])) => phase'[r] = "run"
      BY <1>4 DEF Run
    <3>2. \A s : Run(r, s) => phase'[r] = "run"
      BY <1>4 DEF Run
    <3> QED
      BY <1>2, <1>8, <2>4, <3>2, Zenon DEF Statement, RunIngest, RunLookup, RunCreate, RunUpdate, RunDelete, RunAlter, RunDrop, GoOn
  <2> QED BY <2>3, <2>4
<1>9. CASE Fail(r)
  BY <1>2, <1>9 DEF Fail
<1> QED BY <1>5, <1>6, <1>7, <1>8, <1>9 DEF Step

-----------------------------------------------------------------------------
(* What a step does to the catalog and the tables                          *)

StoreTypes ==
  /\ catalog \in [Keys -> Rows \cup {NoRow}]
  /\ tables \in [Keys -> [name : Names, data : Data] \cup {NoTable}]
  /\ \A k \in Keys : /\ catalog[k] # NoRow => Lower[catalog[k].name] = k
                     /\ tables[k] # NoTable => Lower[tables[k].name] = k

LEMMA OnlyStatements ==
  ASSUME NEW r, Step(r), ~ Statement(r)
  PROVE  UNCHANGED stores
BY ZenonT(60) DEF Step, Arrive, FindExisting, FindDeleted, FindRefreshed, FindObjects, Begin, FindRenamed, ReadSchema, Fail

\* A statement runs on a key.
LEMMA Effect ==
  ASSUME TypeOK, NEW r \in Requests, Statement(r)
  PROVE  LET s == Head(todo[r]) IN
         /\ phase[r] = "run" /\ s \in Statements
         /\ catalog' \in [Keys -> {catalog'[k] : k \in Keys}] /\ tables' \in [Keys -> {tables'[k] : k \in Keys}]
         /\ s.op \in {"ingest", "lookup", "alter", "drop", "dropIfExists"} => catalog' = catalog
         /\ s.op \in {"lookup", "create", "update", "delete"} => tables' = tables
         /\ s.op = "create" => catalog[Lower[s.row.name]] = NoRow
         /\ s.op = "alter" => tables[Lower[s.name]] # NoTable /\ tables[Lower[s.to]] = NoTable
         /\ s.op = "drop" => tables[Lower[s.name]] # NoTable
         /\ \A k \in Keys :
              /\ s.op = "ingest" => tables'[k] = IF k = Lower[s.name] THEN [name |-> s.name, data |-> s.data]
                                                                     ELSE tables[k]
              /\ s.op = "create" => catalog'[k] = IF k = Lower[s.row.name] THEN s.row ELSE catalog[k]
              /\ s.op = "update" =>
                   catalog'[k] = IF k = Lower[s.row.name] /\ HasName(s.row.name) THEN s.row ELSE catalog[k]
              /\ s.op = "delete" =>
                   catalog'[k] = IF k = Lower[s.name] /\ HasName(s.name) THEN NoRow ELSE catalog[k]
              /\ s.op = "alter" =>
                   tables'[k] = IF k = Lower[s.to] THEN [name |-> s.to, data |-> tables[Lower[s.name]].data]
                                ELSE IF k = Lower[s.name] THEN NoTable ELSE tables[k]
              /\ s.op \in {"drop", "dropIfExists"} =>
                   tables'[k] = IF k = Lower[s.name] THEN NoTable ELSE tables[k]
<1> DEFINE s == Head(todo[r])
<1>0. /\ DOMAIN catalog = Keys /\ DOMAIN tables = Keys
      /\ catalog = [k \in Keys |-> catalog[k]] /\ tables = [k \in Keys |-> tables[k]]
      /\ phase[r] = "run"
  BY Zenon DEF TypeOK, Statement, RunIngest, RunLookup, RunCreate, RunUpdate, RunDelete, RunAlter, RunDrop, Is
<1>1. s \in Statements
  BY <1>0, HeadTailProperties, SMTT(30) DEF TypeOK
<1> HIDE DEF s
<1>2. CASE RunIngest(r)
  BY <1>0, <1>1, <1>2, ZenonT(60) DEF RunIngest, Is, s
<1>3. CASE RunLookup(r)
  BY <1>0, <1>1, <1>3, Zenon DEF RunLookup, Is, s, stores
<1>4. CASE RunCreate(r)
  BY <1>0, <1>1, <1>4, ZenonT(60) DEF RunCreate, Is, s
<1>5. CASE RunUpdate(r)
  BY <1>0, <1>1, <1>5, ZenonT(60) DEF RunUpdate, Is, s
<1>6. CASE RunDelete(r)
  BY <1>0, <1>1, <1>6, Zenon DEF RunDelete, Is, s
<1>7. CASE RunAlter(r)
  BY <1>0, <1>1, <1>7, ZenonT(60) DEF RunAlter, Is, s
<1>8. CASE RunDrop(r)
  BY <1>0, <1>1, <1>8, Zenon DEF RunDrop, Is, s
<1> QED BY <1>2, <1>3, <1>4, <1>5, <1>6, <1>7, <1>8, Zenon DEF Statement

\* What it does to one key.
LEMMA EffectAt ==
  ASSUME TypeOK, NEW r \in Requests, Statement(r), NEW k \in Keys
  PROVE  LET s == Head(todo[r]) IN
         /\ s.op \in {"ingest", "lookup", "alter", "drop", "dropIfExists"} => catalog'[k] = catalog[k]
         /\ s.op \in {"lookup", "create", "update", "delete"} => tables'[k] = tables[k]
         /\ s.op = "ingest" => tables'[k] = IF k = Lower[s.name] THEN [name |-> s.name, data |-> s.data]
                                                                ELSE tables[k]
         /\ s.op = "create" => catalog'[k] = IF k = Lower[s.row.name] THEN s.row ELSE catalog[k]
         /\ s.op = "update" =>
              catalog'[k] = IF k = Lower[s.row.name] /\ HasName(s.row.name) THEN s.row ELSE catalog[k]
         /\ s.op = "delete" =>
              catalog'[k] = IF k = Lower[s.name] /\ HasName(s.name) THEN NoRow ELSE catalog[k]
         /\ s.op = "alter" =>
              tables'[k] = IF k = Lower[s.to] THEN [name |-> s.to, data |-> tables[Lower[s.name]].data]
                           ELSE IF k = Lower[s.name] THEN NoTable ELSE tables[k]
         /\ s.op \in {"drop", "dropIfExists"} =>
              tables'[k] = IF k = Lower[s.name] THEN NoTable ELSE tables[k]
<1>1. /\ Head(todo[r]).op \in {"ingest", "lookup", "alter", "drop", "dropIfExists"} => catalog'[k] = catalog[k]
      /\ Head(todo[r]).op \in {"lookup", "create", "update", "delete"} => tables'[k] = tables[k]
  BY Effect, ZenonT(60)
<1>2. LET s == Head(todo[r]) IN
      /\ s.op = "ingest" => tables'[k] = IF k = Lower[s.name] THEN [name |-> s.name, data |-> s.data] ELSE tables[k]
      /\ s.op = "create" => catalog'[k] = IF k = Lower[s.row.name] THEN s.row ELSE catalog[k]
      /\ s.op = "update" =>
           catalog'[k] = IF k = Lower[s.row.name] /\ HasName(s.row.name) THEN s.row ELSE catalog[k]
  BY Effect, ZenonT(60)
<1>3. LET s == Head(todo[r]) IN
      /\ s.op = "delete" => catalog'[k] = IF k = Lower[s.name] /\ HasName(s.name) THEN NoRow ELSE catalog[k]
      /\ s.op = "alter" =>
           tables'[k] = IF k = Lower[s.to] THEN [name |-> s.to, data |-> tables[Lower[s.name]].data]
                        ELSE IF k = Lower[s.name] THEN NoTable ELSE tables[k]
      /\ s.op \in {"drop", "dropIfExists"} =>
           tables'[k] = IF k = Lower[s.name] THEN NoTable ELSE tables[k]
  BY Effect, ZenonT(60)
<1> QED BY <1>1, <1>2, <1>3, Zenon

\* The next statement is about names of the request.
LEMMA HeadKeys ==
  ASSUME TypeOK, NEW r \in Requests, Shape(r), phase[r] = "run"
  PROVE  LET s == Head(todo[r])  T == Touches(req[r]) IN
         /\ s.op \in {"ingest", "lookup", "delete", "drop", "dropIfExists", "alter"} => Lower[s.name] \in T
         /\ s.op \in {"create", "update"} => Lower[s.row.name] \in T
         /\ s.op = "alter" => Lower[s.to] \in T
         /\ req[r].kind = "sync" => s \in SyncStatements
<1> DEFINE s == todo[r]
           q == req[r]
<1>0. s \in Seq(Statements) /\ s # <<>> /\ PlanShape(q, s) /\ q \in Request \cup {NoRequest}
  BY DEF TypeOK, Shape
<1>1. Head(s) \in Statements
  BY <1>0, HeadTailProperties
<1> HIDE DEF s, q
<1>2. CASE q.kind = "sync"
  <2>1. Touches(q) = Keys
    BY <1>0, <1>2, TouchesFacts
  <2>2. Head(s) \in SyncStatements
    <3>1. s \in Seq(SyncStatements)
      BY <1>0, <1>2 DEF PlanShape
    <3> QED BY <1>0, <3>1, HeadTailProperties
  <2>3. /\ Head(s).op \in {"create", "update"} => Head(s).row \in TableRows /\ Head(s).row.name \in Names
        /\ Head(s).op = "delete" => Head(s).name \in Names
        /\ Head(s).op \in {"create", "update", "delete"}
    BY <2>2 DEF SyncStatements, TableRows
  <2> QED BY <1>2, <2>1, <2>2, <2>3, KeyFacts DEF s, q
<1>3. CASE q.kind = "delete"
  <2>1. Touches(q) = {Lower[q.name]}
    BY <1>0, <1>3, TouchesFacts
  <2>2. Head(s).op \in {"delete", "drop"} /\ Lower[Head(s).name] = Lower[q.name]
    BY <1>0, <1>3, PlanOps
  <2> QED BY <1>3, <2>1, <2>2 DEF s, q
<1>4. CASE q.kind = "refresh"
  <2>1. Touches(q) = {Lower[q.name]}
    BY <1>0, <1>4, TouchesFacts
  <2>2. \/ Head(s).op = "update" /\ Lower[Head(s).row.name] = Lower[q.name]
        \/ Head(s).op = "ingest" /\ Lower[Head(s).name] = Lower[q.name]
    BY <1>0, <1>4, PlanOps
  <2> QED BY <1>4, <2>1, <2>2 DEF s, q
<1>5. CASE q.kind = "migrate" /\ q.from = None
  <2>1. Touches(q) = {Lower[q.name]}
    BY <1>0, <1>5, TouchesFacts
  <2>2. \/ Head(s).op \in {"create", "update"} /\ Head(s).row.name = q.name
        \/ Head(s).op \in {"ingest", "lookup"} /\ Head(s).name = q.name
    BY <1>0, <1>5, PlanOps
  <2> QED BY <1>5, <2>1, <2>2 DEF s, q
<1>6. CASE q.kind = "migrate" /\ q.from # None
  <2>1. Lower[q.name] \in Touches(q) /\ Lower[q.from] \in Touches(q)
    BY <1>0, <1>6, TouchesFacts
  <2>2. Len(s) \in 1..5 /\ Head(s) = s[1]
    BY <1>0, <1>6, PlanOps
  <2>3. CASE Len(s) = 1
    <3>1. /\ Head(s).op \in {"alter", "dropIfExists"} /\ Lower[Head(s).name] = Lower[q.from]
          /\ Head(s).op = "alter" => Head(s).to = q.name
      BY <1>0, <1>6, <2>2, <2>3, PlanOps
    <3> QED BY <1>6, <2>1, <3>1 DEF s, q
  <2>4. CASE Len(s) # 1
    <3>1. \/ Head(s).op = "delete" /\ Lower[Head(s).name] = Lower[q.from]
          \/ Head(s).op = "create" /\ Head(s).row.name = q.name
          \/ Head(s).op \in {"lookup", "ingest"} /\ Head(s).name = q.name
      <4>1. Len(s) = 2 \/ Len(s) = 3 \/ Len(s) = 4 \/ Len(s) = 5
        BY <2>2, <2>4
      <4> QED BY <1>0, <1>6, <2>2, <4>1, PlanOps
    <3> QED BY <1>6, <2>1, <3>1 DEF s, q
  <2> QED BY <2>3, <2>4
<1>7. q.kind \in {"sync", "delete", "refresh", "migrate"}
  BY <1>0 DEF PlanShape
<1> QED BY <1>2, <1>3, <1>4, <1>5, <1>6, <1>7

\* A handler changes nothing but the names of its request.
LEMMA OwnKeys ==
  ASSUME TypeOK, NEW r \in Requests, Shape(r), Step(r), NEW k \in Keys \ Touches(req[r])
  PROVE  catalog'[k] = catalog[k] /\ tables'[k] = tables[k]
<1>1. CASE ~ Statement(r)
  BY <1>1, OnlyStatements DEF stores
<1>2. CASE Statement(r)
  <2>1. phase[r] = "run"
    BY <1>2, Effect
  <2> DEFINE s == Head(todo[r])
  <2>2. s \in Statements
    BY <1>2, Effect
  <2>3. /\ s.op \in {"ingest", "lookup", "delete", "drop", "dropIfExists", "alter"} => Lower[s.name] # k
        /\ s.op \in {"create", "update"} => Lower[s.row.name] # k
        /\ s.op = "alter" => Lower[s.to] # k
    BY <2>1, HeadKeys
  <2>4. s.op \in {"ingest", "lookup", "delete", "drop", "dropIfExists", "create", "update", "alter"}
    BY <2>2, StatementFacts
  <2>5. catalog'[k] = catalog[k]
    BY <1>2, <2>3, <2>4, EffectAt
  <2>6. tables'[k] = tables[k]
    BY <1>2, <2>3, <2>4, EffectAt
  <2> QED BY <2>5, <2>6
<1> QED BY <1>1, <1>2

LEMMA StoreStep ==
  ASSUME TypeOK, NEW r \in Requests, Step(r)
  PROVE  StoreTypes'
<1>1. CASE ~ Statement(r)
  BY <1>1, OnlyStatements DEF stores, StoreTypes, TypeOK
<1>2. CASE Statement(r)
  <2> DEFINE s == Head(todo[r])
             T == [name : Names, data : Data]
  <2>1. /\ s \in Statements /\ StoreTypes
        /\ catalog' \in [Keys -> {catalog'[k] : k \in Keys}] /\ tables' \in [Keys -> {tables'[k] : k \in Keys}]
    BY <1>2, Effect DEF StoreTypes, TypeOK
  <2>2. SUFFICES ASSUME NEW k \in Keys
                 PROVE  /\ catalog'[k] \in Rows \cup {NoRow} /\ (catalog'[k] # NoRow => Lower[catalog'[k].name] = k)
                        /\ tables'[k] \in T \cup {NoTable} /\ (tables'[k] # NoTable => Lower[tables'[k].name] = k)
    BY <2>1 DEF StoreTypes
  <2>3. catalog'[k] \in Rows \cup {NoRow} /\ (catalog'[k] # NoRow => Lower[catalog'[k].name] = k)
    <3>1. \/ catalog'[k] = catalog[k] \/ catalog'[k] = NoRow
          \/ s.op \in {"create", "update"} /\ catalog'[k] = s.row /\ k = Lower[s.row.name]
      BY <1>2, <2>1, StatementFacts, Effect
    <3> QED BY <2>1, <3>1, StatementFacts DEF StoreTypes
  <2>4. tables'[k] \in T \cup {NoTable} /\ (tables'[k] # NoTable => Lower[tables'[k].name] = k)
    <3>1. \/ tables'[k] = tables[k] \/ tables'[k] = NoTable
          \/ s.op = "ingest" /\ tables'[k] = [name |-> s.name, data |-> s.data] /\ k = Lower[s.name]
          \/ /\ s.op = "alter" /\ tables'[k] = [name |-> s.to, data |-> tables[Lower[s.name]].data]
             /\ k = Lower[s.to] /\ tables[Lower[s.name]] # NoTable
      BY <1>2, <2>1, StatementFacts, Effect
    <3>2. s.op = "ingest" => [name |-> s.name, data |-> s.data] \in T
      BY <2>1, StatementFacts DEF Data
    <3>3. s.op = "alter" /\ tables[Lower[s.name]] # NoTable => [name |-> s.to, data |-> tables[Lower[s.name]].data] \in T
      BY <2>1, StatementFacts, KeyFacts DEF StoreTypes
    <3> QED BY <2>1, <3>1, <3>2, <3>3 DEF StoreTypes
  <2> QED BY <2>3, <2>4
<1> QED BY <1>1, <1>2

LEMMA TypeStep == TypeOK /\ Shapes /\ [Next]_vars => TypeOK' /\ Shapes'
<1> SUFFICES ASSUME TypeOK, Shapes, [Next]_vars PROVE TypeOK' /\ Shapes'
  OBVIOUS
<1>1. ASSUME NEW r \in Requests, Step(r) PROVE TypeOK' /\ Shapes'
  <2>1. StoreTypes'
    BY <1>1, StoreStep
  <2>2. /\ req'[r] \in Request \cup {NoRequest}
        /\ phase'[r] \in {"idle", "ok", "findFrom", "readSchema", "run"}
        /\ todo'[r] \in Seq(Statements) /\ (todo'[r] # <<>> <=> phase'[r] = "run")
        /\ objs'[r] \subseteq Rows /\ Shape(r)'
    BY <1>1, OwnStep DEF Shapes
  <2>3. Locally(r)
    BY <1>1, StepForm
  <2>4. /\ req' \in [Requests -> Request \cup {NoRequest}]
        /\ phase' \in [Requests -> {"idle", "ok", "findFrom", "readSchema", "run"}]
        /\ todo' \in [Requests -> Seq(Statements)] /\ objs' \in [Requests -> SUBSET Rows]
        /\ \A o \in Requests : todo'[o] # <<>> <=> phase'[o] = "run"
    BY <2>2, <2>3 DEF Locally, TypeOK
  <2>5. /\ arrived' \in 0..MaxArrivals /\ foreign' \in 0..MaxForeign
        /\ clashed' \subseteq Requests /\ troubled' \subseteq Keys
        /\ \A o \in Requests \ {r} : o \in clashed' => o \in clashed \/ Touches(req[o]) # {}
    <3>1. ASSUME NEW q \in Request, Begin(r, q)
          PROVE  /\ arrived' \in 0..MaxArrivals /\ foreign' \in 0..MaxForeign
                 /\ clashed' \subseteq Requests /\ troubled' \subseteq Keys
                 /\ \A o \in Requests \ {r} : o \in clashed' => o \in clashed \/ Touches(req[o]) # {}
      <4>1. Touches(q) \subseteq Keys
        BY TouchesFacts
      <4> QED BY <3>1, <4>1, BoundsAssumption DEF Begin, TypeOK, Clash
    <3>2. ASSUME NEW res \in {"ok", "error"}, Return(r, res)
          PROVE  /\ arrived' \in 0..MaxArrivals /\ foreign' \in 0..MaxForeign
                 /\ clashed' \subseteq clashed /\ troubled' \subseteq Keys
      <4>1. Touches(req[r]) \subseteq Keys
        BY TouchesFacts DEF TypeOK
      <4> QED BY <3>2, <4>1 DEF Return, Interrupted, TypeOK
    <3>3. CASE UNCHANGED <<req, history>>
      BY <3>3 DEF history, TypeOK
    <3> QED BY <1>1, <3>1, <3>2, <3>3, StepForm DEF TypeOK
  <2>6. ASSUME NEW o \in Requests \ {r} PROVE Shape(o)'
    <3>1. /\ req'[o] = req[o] /\ phase'[o] = phase[o] /\ todo'[o] = todo[o] /\ objs'[o] = objs[o]
          /\ Shape(o)
      BY <2>3, LocallyFacts DEF Shapes
    <3>2. Touches(req[o]) # {} => req[o] # NoRequest
      BY TouchesFacts
    <3>3. o \in clashed' => ~ Idle(o)
      BY <2>5, <3>1, <3>2 DEF Shape
    <3> QED BY <3>1, <3>3 DEF Shape, Idle
  <2> QED BY <2>1, <2>2, <2>4, <2>5, <2>6 DEF TypeOK, Shapes, StoreTypes
<1>2. ASSUME NEW n \in Names, NEW d \in Foreign \cup {None}, ForeignChange(n, d) PROVE TypeOK' /\ Shapes'
  <2>1. Lower[n] \in Keys
    BY KeyFacts
  <2>2. d # None => [name |-> n, data |-> d] \in [name : Names, data : Data]
    BY DEF Data
  <2>3. TypeOK'
    BY <1>2, <2>1, <2>2, BoundsAssumption DEF ForeignChange, TypeOK
  <2>4. ASSUME NEW o \in Requests, o \in clashed' PROVE o \in clashed \/ Touches(req[o]) # {}
    BY <1>2, <2>4 DEF ForeignChange
  <2>5. ASSUME NEW o \in Requests PROVE Shape(o)'
    <3>1. /\ req'[o] = req[o] /\ phase'[o] = phase[o] /\ todo'[o] = todo[o] /\ objs'[o] = objs[o]
          /\ Shape(o)
      BY <1>2 DEF ForeignChange, Shapes
    <3>2. Touches(req[o]) # {} => req[o] # NoRequest
      BY TouchesFacts
    <3>3. o \in clashed' => ~ Idle(o)
      BY <2>4, <3>1, <3>2 DEF Shape
    <3> QED BY <3>1, <3>3 DEF Shape, Idle
  <2> QED BY <2>3, <2>5 DEF Shapes
<1>3. CASE UNCHANGED vars
  BY <1>3 DEF vars, stores, history, TypeOK, Shapes, Shape, Idle
<1> QED BY <1>1, <1>2, <1>3 DEF Next, Step

-----------------------------------------------------------------------------
(* What a handler that is alone knows                                      *)

\* Knowledge of a key, before and after one of the handler's own statements.
LEMMA KnownAfter ==
  ASSUME TypeOK, NEW r \in Requests, Shape(r), Statement(r), phase'[r] = "run",
         NEW k \in Touches(req[r]), Known(req[r], todo[r], k, catalog[k], tables[k])
  PROVE  Known(req[r], todo'[r], k, catalog'[k], tables'[k])
<1> DEFINE q == req[r]
           s == todo[r]
           new == todo'[r]
           c == catalog[k]
           t == tables[k]
           c2 == catalog'[k]
           t2 == tables'[k]
<1>0. /\ s \in Seq(Statements) /\ PlanShape(q, s) /\ q \in Request \cup {NoRequest}
      /\ k \in Keys
  <2>1. q \in Request \cup {NoRequest}
    BY DEF TypeOK
  <2>2. k \in Keys
    BY <2>1, TouchesFacts
  <2> QED BY <2>1, <2>2, Effect DEF TypeOK, Shape
<1>1. /\ new \in Seq(Statements) /\ new # <<>> /\ Len(new) = Len(s) - 1 /\ Len(s) \in Nat
      /\ PlanShape(q, new)
      /\ Head(s).op # "lookup" => new[Len(new)] = s[Len(s)]
      /\ Head(s).op = "lookup" =>
           /\ q.kind = "migrate" /\ new[Len(new)].op = s[Len(s)].op
           /\ q.from # None => new[Len(new)].name = s[Len(s)].name
  BY RunStep
<1>2. Len(new) \in Nat \ {0}
  BY <1>1, EmptySeq
<1>3. /\ Head(s).op \in {"ingest", "lookup", "alter", "drop", "dropIfExists"} => c2 = c
      /\ Head(s).op \in {"lookup", "create", "update", "delete"} => t2 = t
      /\ Head(s).op = "ingest" => t2 = IF k = Lower[Head(s).name] THEN [name |-> Head(s).name, data |-> Head(s).data]
                                       ELSE t
      /\ Head(s).op = "create" => c2 = IF k = Lower[Head(s).row.name] THEN Head(s).row ELSE c
      /\ Head(s).op = "delete" =>
                   c2 = IF k = Lower[Head(s).name] /\ HasName(Head(s).name) THEN NoRow ELSE c
      /\ Head(s).op \in {"drop", "dropIfExists"} => t2 = IF k = Lower[Head(s).name] THEN NoTable ELSE t
  BY <1>0, EffectAt
<1>4. Known(q, s, k, c, t)
  OBVIOUS
<1>5. q.kind \in {"sync", "delete", "refresh", "migrate"}
  BY <1>0 DEF PlanShape
<1> HIDE DEF q, s, new, c, t, c2, t2
<1>6. CASE q.kind = "sync"
  BY <1>6 DEF Known, q, s, new, c2, t2
<1>7. CASE q.kind = "delete"
  <2>1. Touches(q) = {Lower[q.name]}
    BY <1>0, <1>7, TouchesFacts
  <2>2. k = Lower[q.name]
    BY <2>1 DEF q
  <2>3. Len(s) \in 1..2 /\ s[Len(s)].op = "delete" /\ Lower[s[Len(s)].name] = Lower[q.name]
    BY <1>0, <1>7, PlanOps
  <2>4. Len(s) = 2 /\ Len(new) = 1
    BY <1>1, <1>2, <2>3
  <2>5. Head(s).op = "drop" /\ Head(s).name = s[Len(s)].name
    BY <1>0, <1>7, <2>4, PlanOps
  <2>6. c2 = c /\ t2 = NoTable /\ new[Len(new)] = s[Len(s)]
    BY <1>1, <1>3, <2>2, <2>3, <2>5
  <2>7. Known(q, new, k, c2, t2)
    BY <1>4, <1>7, <2>6 DEF Known
  <2> QED BY <2>7 DEF q, new, c2, t2
<1>8. CASE q.kind = "refresh"
  <2>1. Touches(q) = {Lower[q.name]}
    BY <1>0, <1>8, TouchesFacts
  <2>2. k = Lower[q.name]
    BY <2>1 DEF q
  <2>3. Len(s) \in 1..2 /\ s[Len(s)].row \in SourceRows /\ Lower[s[Len(s)].row.name] = Lower[q.name]
    BY <1>0, <1>8, PlanOps
  <2>4. Len(s) = 2 /\ Len(new) = 1
    BY <1>1, <1>2, <2>3
  <2>5. Head(s).op = "ingest" /\ Head(s).name = s[Len(s)].row.name /\ Head(s).data = s[Len(s)].row.sql
    BY <1>0, <1>8, <2>4, PlanOps
  <2>6. c2 = c /\ t2 = [name |-> Head(s).name, data |-> Head(s).data] /\ new[Len(new)] = s[Len(s)]
    BY <1>1, <1>3, <2>2, <2>3, <2>5
  <2>7. t2 # NoTable /\ t2.data = new[Len(new)].row.sql
    <3>1. Head(s).data \in Props
      BY <2>3, <2>5 DEF SourceRows
    <3>2. None \notin Props
      BY DataAssumption
    <3> QED BY <2>5, <2>6, <3>1, <3>2 DEF NoTable
  <2>8. Known(q, new, k, c2, t2)
    BY <1>4, <1>8, <2>6, <2>7 DEF Known
  <2> QED BY <2>8 DEF q, new, c2, t2
<1>9. CASE q.kind = "migrate" /\ q.from = None
  <2>1. Touches(q) = {Lower[q.name]}
    BY <1>0, <1>9, TouchesFacts
  <2>2. k = Lower[q.name]
    BY <2>1 DEF q
  <2>3. Len(s) \in 1..3 /\ s[Len(s)].op \in {"create", "update"}
    BY <1>0, <1>9, PlanOps
  <2>4. (Len(s) = 2 /\ Len(new) = 1) \/ (Len(s) = 3 /\ Len(new) = 2)
    BY <1>1, <1>2, <2>3
  <2>5. /\ Len(s) = 2 => Head(s).op = "lookup"
        /\ Len(s) = 3 => Head(s).op = "ingest" /\ Head(s).name = q.name /\ Head(s).data = q.props
    BY <1>0, <1>9, PlanOps
  <2>6. new[Len(new)].op = s[Len(s)].op
    BY <1>1
  <2>7. c2 = c /\ t2 = [name |-> q.name, data |-> q.props]
    <3>1. CASE Len(s) = 2
      BY <1>3, <1>4, <1>9, <2>2, <2>3, <2>5, <3>1 DEF Known
    <3>2. CASE Len(s) = 3
      BY <1>3, <2>2, <2>5, <3>2
    <3> QED BY <2>4, <3>1, <3>2
  <2>8. Known(q, new, k, c2, t2)
    BY <1>4, <1>9, <2>6, <2>7 DEF Known
  <2> QED BY <2>8 DEF q, new, c2, t2
<1>10. CASE q.kind = "migrate" /\ q.from # None
  <2> DEFINE n == Len(s)
             last == s[Len(s)]
             last2 == new[Len(new)]
             m == Lower[q.name]
             f == Lower[q.from]
  <2>1. k \in {m, f}
    <3>1. Touches(q) = {m, f}
      BY <1>0, <1>10, TouchesFacts
    <3> QED BY <3>1 DEF q
  <2>2. n \in 1..5 /\ last.op \in {"alter", "dropIfExists"} /\ Lower[last.name] = f /\ (last.op = "alter" => n \in 1..3)
    BY <1>0, <1>10, PlanOps
  <2>3. /\ n = 2 => Head(s).op = "delete" /\ Head(s).name = last.name
        /\ n = 3 => /\ Head(s).op = "create" /\ Head(s).row \in SourceRows
                    /\ Head(s).row.name = q.name /\ Head(s).row.sql = q.props
        /\ n = 4 => Head(s).op = "lookup"
        /\ n = 5 => Head(s).op = "ingest" /\ Head(s).name = q.name /\ Head(s).data = q.props
    BY <1>0, <1>10, PlanOps
  <2>4. last2.op = last.op /\ last2.name = last.name
    BY <1>1, <1>10
  <2>5. n = 2 \/ n = 3 \/ n = 4 \/ n = 5
    BY <1>1, <1>2, <2>2
  <2>6. /\ k = m /\ last.op # "alter" => (n < 5 => t = [name |-> q.name, data |-> q.props])
        /\ k = m /\ n < 3 => IsSource(c, q.props)
        /\ k = f => k # m /\ IF n = 1 THEN c = NoRow ELSE c # NoRow /\ c.name = last.name
    BY <1>4, <1>10 DEF Known
  <2>7. Len(new) = n - 1
    BY <1>1
  <2>8. /\ k = m /\ last.op # "alter" => (n < 6 => t2 = [name |-> q.name, data |-> q.props])
        /\ k = m /\ n < 4 => IsSource(c2, q.props)
        /\ k = f => k # m /\ IF n = 2 THEN c2 = NoRow ELSE c2 # NoRow /\ c2.name = last.name
    <3>1. CASE n = 2
      <4>1. k = f => HasName(last.name)
        BY <2>2, <2>6, <3>1 DEF HasName, HasKey, c
      <4>2. k = m => k # f
        BY <2>1, <2>6
      <4> QED BY <1>3, <2>2, <2>3, <2>6, <3>1, <4>1, <4>2
    <3>2. CASE n = 3
      <4>1. IsSource(Head(s).row, q.props)
        BY <2>3, <3>2, RowFacts DEF IsSource, SourceRows
      <4> QED BY <1>3, <2>2, <2>3, <2>6, <3>2, <4>1
    <3>3. CASE n = 4
      BY <1>3, <2>2, <2>3, <2>6, <3>3
    <3>4. CASE n = 5
      BY <1>3, <2>2, <2>3, <2>6, <3>4
    <3> QED BY <2>5, <3>1, <3>2, <3>3, <3>4
  <2>9. Known(q, new, k, c2, t2)
    <3>1. last2.op # "update"
      BY <2>2, <2>4
    <3>2. /\ Len(new) < 5 <=> n < 6
          /\ Len(new) < 3 <=> n < 4
          /\ Len(new) = 1 <=> n = 2
      BY <2>2, <2>7
    <3> HIDE DEF n, last, m, f
    <3> QED BY <1>10, <2>4, <2>8, <3>1, <3>2 DEF Known, m, f
  <2> QED BY <2>9 DEF q, new, c2, t2
<1> QED BY <1>5, <1>6, <1>7, <1>8, <1>9, <1>10

\* What a handler finds, and plans for, it knows.
LEMMA KnownAtFirst ==
  ASSUME TypeOK, NEW r \in Requests, Shape(r), Knows(r), Arrive(r) \/ FindRenamed(r)
  PROVE  Knows(r)'
<1>0. /\ req \in [Requests -> Request \cup {NoRequest}]
      /\ phase \in [Requests -> {"idle", "ok", "findFrom", "readSchema", "run"}]
      /\ todo \in [Requests -> Seq(Statements)]
  BY DEF TypeOK
<1>1. UNCHANGED stores
  BY DEF Arrive, FindExisting, FindDeleted, FindRefreshed, FindObjects, Begin, FindRenamed
<1>2. SUFFICES ASSUME NEW k \in Keys, Alone(r, k)'
               PROVE  /\ phase'[r] = "run" => Known(req'[r], todo'[r], k, catalog[k], tables[k])
                      /\ phase'[r] = "findFrom" /\ k = Lower[req'[r].name] => catalog[k] = NoRow
  BY <1>1 DEF Knows, stores
<1>3. k \in Touches(req'[r])
  BY <1>2 DEF Alone
<1>4. ASSUME NEW s, Plan(r, s) PROVE phase'[r] = "run" /\ todo'[r] = s
  BY <1>0, <1>4 DEF Plan
<1>5. ASSUME NEW q \in Request, NEW replace \in BOOLEAN, FindExisting(r, q, replace), req'[r] = q
      PROVE  /\ phase'[r] = "run" => Known(q, todo'[r], k, catalog[k], tables[k])
             /\ phase'[r] = "findFrom" /\ k = Lower[q.name] => catalog[k] = NoRow
  <2>1. q.kind = "migrate" /\ (Found(q.name) # NoRow => q.from = None)
    BY <1>5 DEF FindExisting
  <2>2. CASE q.from # None
    <3>1. phase'[r] = "findFrom" /\ Found(q.name) = NoRow
      BY <1>0, <1>5, <2>1, <2>2 DEF FindExisting
    <3> QED BY <3>1 DEF Found
  <2>3. CASE q.from = None
    <3>1. /\ phase'[r] = "run"
          /\ todo'[r] = IF Found(q.name) = NoRow THEN CreatePlan(q) ELSE ReplacePlan(q)
      BY <1>4, <1>5, <2>3 DEF FindExisting
    <3>2. k = Lower[q.name]
      BY <1>3, <1>5, <2>1, <2>3, TouchesFacts
    <3>3. /\ Len(CreatePlan(q)) = 3 /\ CreatePlan(q)[3].op = "create"
          /\ Len(ReplacePlan(q)) = 3 /\ ReplacePlan(q)[3].op = "update"
      BY DEF CreatePlan, ReplacePlan, CreateObject, UpdateObject
    <3>4. /\ Len(todo'[r]) = 3 /\ todo'[r][3].op = "update" => catalog[k] # NoRow
          /\ Len(todo'[r]) = 3
      BY <3>1, <3>2, <3>3 DEF Found
    <3> QED BY <2>1, <2>3, <3>1, <3>4 DEF Known
  <2> QED BY <2>2, <2>3
<1>6. ASSUME NEW q \in Request, FindDeleted(r, q), req'[r] = q
      PROVE  phase'[r] = "run" /\ Known(q, todo'[r], k, catalog[k], tables[k])
  <2>1. /\ q.kind = "delete" /\ Found(q.name) # NoRow /\ phase'[r] = "run"
        /\ todo'[r] = <<Drop(Found(q.name).name), DeleteObject(Found(q.name).name)>>
    BY <1>4, <1>6 DEF FindDeleted
  <2>2. k = Lower[q.name]
    BY <1>3, <1>6, <2>1, TouchesFacts
  <2>3. Len(todo'[r]) = 2 /\ todo'[r][2].name = Found(q.name).name
    BY <2>1 DEF DeleteObject
  <2> QED BY <2>1, <2>2, <2>3 DEF Known, Found
<1>7. ASSUME NEW q \in Request, FindRefreshed(r, q), req'[r] = q
      PROVE  phase'[r] = "run" /\ Known(q, todo'[r], k, catalog[k], tables[k])
  <2>1. /\ q.kind = "refresh" /\ Found(q.name) # NoRow /\ Found(q.name).type = "source" /\ phase'[r] = "run"
        /\ todo'[r] = <<Ingest(Found(q.name).name, Found(q.name).sql), UpdateObject(Found(q.name))>>
    BY <1>4, <1>7 DEF FindRefreshed
  <2>2. k = Lower[q.name]
    BY <1>3, <1>7, <2>1, TouchesFacts
  <2>3. Len(todo'[r]) = 2 /\ todo'[r][2].row = Found(q.name)
    BY <2>1 DEF UpdateObject
  <2> QED BY <2>1, <2>2, <2>3 DEF Known, Found
<1>8. CASE FindRenamed(r)
  <2> DEFINE q == req[r]
             old == Found(q.from)
  <2>1. /\ q.kind = "migrate" /\ q.from # None /\ old # NoRow /\ phase[r] = "findFrom"
        /\ req'[r] = q /\ phase'[r] = "run" /\ todo'[r] = RenamePlan(q, old) /\ UNCHANGED <<req, history>>
    BY <1>4, <1>8 DEF FindRenamed, Run, Shape
  <2>2. Touches(q) = {Lower[q.name], Lower[q.from]}
    BY <1>0, <2>1, TouchesFacts
  <2>3. Alone(r, k)
    BY <1>2, <2>1 DEF Alone, history
  <2>4. k = Lower[q.name] => catalog[k] = NoRow
    BY <2>1, <2>3 DEF Knows
  <2>5. k = Lower[q.from] => k # Lower[q.name] /\ catalog[k] # NoRow
    BY <2>1, <2>4 DEF Found
  <2>6. \/ /\ Len(todo'[r]) = 3 /\ todo'[r][3].op = "alter" /\ todo'[r][3].name = old.name
        \/ /\ Len(todo'[r]) = 5 /\ todo'[r][5].op = "dropIfExists" /\ todo'[r][5].name = old.name
    <3>1. CASE q.props = old.sql
      <4>1. todo'[r] = <<CreateObject(Source(q.name, q.props)), DeleteObject(old.name), Alter(old.name, q.name)>>
        BY <2>1, <3>1 DEF RenamePlan
      <4> QED BY <4>1 DEF Alter
    <3>2. CASE q.props # old.sql
      <4>1. todo'[r] = <<Ingest(q.name, q.props), Lookup(q.name), CreateObject(Source(q.name, q.props)),
                         DeleteObject(old.name), DropIfExists(old.name)>>
        BY <2>1, <3>2, TwoParts DEF RenamePlan, CreatePlan
      <4> QED BY <4>1 DEF DropIfExists
    <3> QED BY <3>1, <3>2
  <2>7. k = Lower[q.from] => catalog[k].name = old.name
    BY DEF Found
  <2> HIDE DEF q, old
  <2>8. ASSUME NEW c, NEW t, NEW s, NEW n \in {3, 5},
               Len(s) = n, s[n].name = old.name,
               (n = 3 /\ s[n].op = "alter") \/ (n = 5 /\ s[n].op = "dropIfExists"),
               k = Lower[q.from] => k # Lower[q.name] /\ c # NoRow /\ c.name = old.name
        PROVE  Known(q, s, k, c, t)
    BY <2>1, <2>8 DEF Known
  <2>9. Known(q, todo'[r], k, catalog[k], tables[k])
    BY <2>5, <2>6, <2>7, <2>8
  <2> QED BY <2>1, <2>9
<1>9. ASSUME NEW q \in Request, FindObjects(r, q) PROVE phase'[r] = "readSchema"
  BY <1>0, <1>9 DEF FindObjects
<1>10. ASSUME NEW q \in Request, Begin(r, q) PROVE req'[r] = q
  BY <1>0, <1>10 DEF Begin
<1>11. CASE Arrive(r)
  <2>1. PICK q \in Request : \/ \E replace \in BOOLEAN : FindExisting(r, q, replace)
                             \/ FindDeleted(r, q) \/ FindRefreshed(r, q) \/ FindObjects(r, q)
    BY <1>11 DEF Arrive
  <2>2. req'[r] = q
    BY <1>10, <2>1 DEF FindExisting, FindDeleted, FindRefreshed, FindObjects
  <2> QED BY <1>5, <1>6, <1>7, <1>9, <2>1, <2>2
<1> QED BY <1>8, <1>11

\* A handler goes on knowing what it knows after its own step.
LEMMA OwnKnows ==
  ASSUME TypeOK, NEW r \in Requests, Shape(r), Knows(r), Step(r)
  PROVE  Knows(r)'
<1>1. CASE Arrive(r) \/ FindRenamed(r)
  BY <1>1, KnownAtFirst
<1>2. ASSUME NEW res, Return(r, res) PROVE Knows(r)'
  <2>1. req'[r] = NoRequest
    BY <1>2 DEF Return, TypeOK
  <2>2. Touches(req'[r]) = {}
    BY <2>1, TouchesFacts DEF NoRequest
  <2> QED BY <2>2 DEF Knows, Alone
<1>3. CASE ReadSchema(r)
  <2>1. CASE Return(r, "ok")
    BY <1>2, <2>1
  <2>2. CASE \E s : Run(r, s)
    <3>1. req'[r].kind = "sync" /\ phase'[r] = "run"
      BY <1>3, <2>2 DEF ReadSchema, Shape, Run, Plan, TypeOK
    <3> QED BY <3>1 DEF Knows, Known
  <2> QED BY <1>3, <2>1, <2>2 DEF ReadSchema
<1>4. CASE Statement(r)
  <2>1. phase[r] = "run"
    BY <1>4, Effect
  <2>2. CASE phase'[r] = "run"
    <3>1. UNCHANGED <<req, history>>
      BY <1>4, <2>2, RunStep
    <3>2. SUFFICES ASSUME NEW k \in Keys, Alone(r, k)'
                   PROVE  Known(req'[r], todo'[r], k, catalog'[k], tables'[k])
      BY <2>2 DEF Knows
    <3>3. Alone(r, k)
      BY <3>1, <3>2 DEF Alone, history
    <3>4. Known(req[r], todo[r], k, catalog[k], tables[k]) /\ k \in Touches(req[r])
      BY <2>1, <3>3 DEF Knows, Alone
    <3>5. Known(req[r], todo'[r], k, catalog'[k], tables'[k])
      BY <1>4, <2>2, <3>4, KnownAfter
    <3> QED BY <3>1, <3>5
  <2>3. CASE phase'[r] # "run"
    <3>1. \E res \in {"ok", "error"} : Return(r, res)
      <4>1. ~ \E q \in Request : Begin(r, q)
        BY <2>1 DEF Begin, Idle
      <4> QED BY <2>3, <4>1, StepForm
    <3> QED BY <1>2, <3>1
  <2> QED BY <2>2, <2>3
<1>5. CASE Fail(r)
  BY <1>2, <1>5 DEF Fail
<1> QED BY <1>1, <1>3, <1>4, <1>5 DEF Step

\* The object of a key is not the concern of a sync that spares it.
LEMMA SyncSpares ==
  ASSUME TypeOK, NEW r \in Requests, Shape(r), Step(r), req[r].kind = "sync",
         NEW k \in Keys, catalog[k] # NoRow, Spares(r, k)
  PROVE  catalog'[k] = catalog[k] /\ tables'[k] = tables[k]
<1>1. CASE ~ Statement(r)
  BY <1>1, OnlyStatements DEF stores
<1>2. CASE Statement(r)
  <2> DEFINE s == Head(todo[r])
  <2>1. phase[r] = "run" /\ todo[r] \in Seq(Statements) /\ todo[r] # <<>>
    BY <1>2, Effect DEF TypeOK
  <2>2. s = todo[r][1] /\ 1 \in 1..Len(todo[r])
    <3>1. Len(todo[r]) \in Nat \ {0}
      BY <2>1, EmptySeq, LenProperties
    <3> QED BY <2>1, <3>1, HeadTailProperties
  <2>3. s \in SyncStatements
    BY <2>1, HeadKeys
  <2>4. s.op \in {"create", "update", "delete"}
    BY <2>3 DEF SyncStatements
  <2>5. /\ s.op = "update" => Lower[s.row.name] # k
        /\ s.op = "delete" => Lower[s.name] # k
    BY <2>2 DEF Spares
  <2>6. s.op = "create" => Lower[s.row.name] # k
    <3>1. s.op = "create" => catalog[Lower[s.row.name]] = NoRow
      BY <1>2, Effect
    <3> QED BY <3>1
  <2>7. tables' = tables
    BY <1>2, <2>4, Effect
  <2>8. catalog'[k] = catalog[k]
    BY <1>2, <2>4, <2>5, <2>6, EffectAt, ZenonT(60)
  <2> QED BY <2>7, <2>8
<1> QED BY <1>1, <1>2

\* A handler that works for a refresh runs its plan.
LEMMA RefreshRuns ==
  ASSUME TypeOK, NEW r \in Requests, Shape(r), req[r].kind = "refresh"
  PROVE  /\ phase[r] = "run" /\ Touches(req[r]) = {Lower[req[r].name]}
         /\ LET last == todo[r][Len(todo[r])] IN
            last.op = "update" /\ last.row \in SourceRows /\ Lower[last.row.name] = Lower[req[r].name]
<1>1. req[r] \in Request \cup {NoRequest} /\ phase[r] \in {"idle", "ok", "findFrom", "readSchema", "run"}
  BY DEF TypeOK
<1>2. phase[r] = "run"
  BY <1>1 DEF Shape, Idle, NoRequest
<1>3. todo[r] \in Seq(Statements) /\ PlanShape(req[r], todo[r])
  BY <1>2 DEF TypeOK, Shape
<1> QED BY <1>1, <1>2, <1>3, TouchesFacts, PlanOps

\* The steps of the others change nothing of what a handler knows.
LEMMA OthersKnow ==
  ASSUME TypeOK, Shapes, Pairs, NEW r \in Requests, Step(r), SyncKnows(r),
         NEW o \in Requests \ {r}, Knows(o)
  PROVE  Knows(o)'
<1>0. /\ req \in [Requests -> Request \cup {NoRequest}]
      /\ req'[o] = req[o] /\ phase'[o] = phase[o] /\ todo'[o] = todo[o]
      /\ Shape(o) /\ Shape(r)
  BY StepForm, LocallyFacts DEF TypeOK, Shapes
<1>1. CASE req[o].kind = "sync"
  BY <1>0, <1>1 DEF Knows, Known, Shape
<1>2. CASE req[o].kind # "sync"
  <2>1. SUFFICES ASSUME NEW k \in Keys, Alone(o, k)'
                 PROVE  Alone(o, k) /\ catalog'[k] = catalog[k] /\ tables'[k] = tables[k]
    BY <1>0 DEF Knows
  <2>2. Alone(o, k)
    BY <1>2, <2>1, AloneBefore
  <2>3. CASE k \notin Touches(req[r])
    BY <1>0, <2>2, <2>3, OwnKeys
  <2>4. CASE k \in Touches(req[r])
    <3>1. Overlap(o, r)
      BY DEF Pairs
    <3>2. req[o].kind = "refresh" /\ req[r].kind = "sync"
      BY <1>2, <2>2, <2>4, <3>1 DEF Overlap, Alone
    <3>3. Known(req[o], todo[o], k, catalog[k], tables[k])
      BY <1>0, <2>2, <3>2, RefreshRuns DEF Knows
    <3>4. catalog[k] # NoRow
      BY <3>2, <3>3 DEF Known
    <3>5. Spares(r, k)
      BY <2>2, <3>2 DEF SyncKnows
    <3> QED BY <1>0, <2>2, <3>2, <3>4, <3>5, SyncSpares
  <2> QED BY <2>3, <2>4
<1> QED BY <1>1, <1>2

\* A foreign client's change of a table.
LEMMA ForeignStep ==
  ASSUME TypeOK, Shapes, Pairs, SourceHasTable, \A r \in Requests : Knows(r) /\ SyncKnows(r),
         NEW n \in Names, NEW d \in Foreign \cup {None}, ForeignChange(n, d)
  PROVE  Pairs' /\ SourceHasTable' /\ \A r \in Requests : Knows(r)' /\ SyncKnows(r)'
<1> DEFINE m == Lower[n]
<1>0. /\ UNCHANGED <<catalog, req, phase, todo, objs>>
      /\ clashed \subseteq clashed' /\ troubled \subseteq troubled'
      /\ \A r \in Requests : m \in Touches(req[r]) => r \in clashed' /\ m \in troubled'
      /\ \A k \in Keys \ {m} : tables'[k] = tables[k]
      /\ m \in Keys
  BY KeyFacts DEF ForeignChange, TypeOK
<1>1. Pairs'
  BY <1>0 DEF Pairs, Overlap
<1>2. ASSUME NEW r \in Requests, NEW k \in Keys, Alone(r, k)'
      PROVE  Alone(r, k) /\ k # m
  BY <1>0, <1>2 DEF Alone
<1>3. ASSUME NEW r \in Requests PROVE Knows(r)'
  BY <1>0, <1>2 DEF Knows
<1>4. ASSUME NEW o \in Requests PROVE SyncKnows(o)'
  <2>1. req[o].kind = "sync" => o \in clashed'
    <3>1. req[o] \in Request \cup {NoRequest}
      BY DEF TypeOK
    <3> QED BY <1>0, <3>1, TouchesFacts
  <2>2. ASSUME NEW k \in Keys, Spares(o, k) PROVE Spares(o, k)'
    BY <1>0, <2>2 DEF Spares
  <2>3. SyncKnows(o)
    OBVIOUS
  <2> QED BY <1>0, <1>2, <2>1, <2>2, <2>3 DEF SyncKnows
<1>5. SourceHasTable'
  <2>1. ASSUME NEW k \in Keys, catalog[k].type = "source", tables'[k] = NoTable
        PROVE  tables[k] = NoTable
    <3>1. CASE k = m
      <4>1. tables[m] = NoTable
        BY <2>1, <3>1 DEF ForeignChange
      <4> QED BY <3>1, <4>1
    <3> QED BY <1>0, <2>1, <3>1
  <2> QED BY <1>0, <2>1 DEF SourceHasTable
<1> QED BY <1>1, <1>3, <1>4, <1>5

-----------------------------------------------------------------------------
(* Syncs and refreshes                                                     *)

LEMMA RowTypes ==
  ASSUME TypeOK, NEW k \in Keys
  PROVE  /\ catalog[k] = NoRow <=> catalog[k].type = "none"
         /\ catalog[k] # NoRow <=> catalog[k].type \in {"source", "table"}
         /\ catalog[k].type = "table" => catalog[k] \in TableRows
         /\ catalog[k] # NoRow => Lower[catalog[k].name] = k
         /\ tables[k] # NoTable => Lower[tables[k].name] = k
<1>1. /\ catalog[k] \in SourceRows \cup TableRows \cup {NoRow}
      /\ catalog[k] # NoRow => Lower[catalog[k].name] = k
      /\ tables[k] # NoTable => Lower[tables[k].name] = k
  BY DEF TypeOK, Rows
<1>2. catalog[k] \in SourceRows => catalog[k].type = "source"
  BY DEF SourceRows
<1>3. catalog[k] \in TableRows => catalog[k].type = "table"
  BY DEF TableRows
<1>4. NoRow.type = "none"
  BY DEF NoRow
<1> QED BY <1>1, <1>2, <1>3, <1>4

\* What a refresh may do to the object and the table of a key.
SourceStep(k) ==
  /\ catalog'[k].type = catalog[k].type
  /\ catalog[k].type # "none" => catalog'[k].name = catalog[k].name
  /\ catalog[k].type # "source" => catalog'[k] = catalog[k] /\ tables'[k] = tables[k]
  /\ tables'[k] # tables[k] => tables'[k] # NoTable /\ tables'[k].name = catalog[k].name

\* An ingestion replaces one table.
LEMMA IngestEffect ==
  ASSUME TypeOK, NEW r \in Requests, Statement(r), NEW k \in Keys
  PROVE  LET s == Head(todo[r]) IN
         s.op = "ingest" => tables'[k] = IF k = Lower[s.name] THEN [name |-> s.name, data |-> s.data] ELSE tables[k]
<1>1. Head(todo[r]).op = "ingest" => RunIngest(r)
  BY Zenon DEF Statement, RunLookup, RunCreate, RunUpdate, RunDelete, RunAlter, RunDrop, Is
<1> QED BY <1>1 DEF RunIngest, TypeOK

LEMMA RefreshEffect ==
  ASSUME TypeOK, NEW r \in Requests, Shape(r), Step(r), req[r].kind = "refresh", Refreshed(r),
         NEW k \in Keys
  PROVE  SourceStep(k)
<1>1. CASE ~ Statement(r)
  <2>1. UNCHANGED <<catalog, tables>>
    BY <1>1, OnlyStatements DEF stores
  <2> QED BY <2>1 DEF SourceStep
<1>2. CASE Statement(r)
  <2>0. LET s == Head(todo[r]) IN
        s.op = "ingest" => tables'[k] = IF k = Lower[s.name] THEN [name |-> s.name, data |-> s.data] ELSE tables[k]
    BY <1>2, IngestEffect
  <2> DEFINE s == todo[r]
             row == s[Len(s)].row
             j == Lower[row.name]
  <2>1. /\ s \in Seq(Statements) /\ PlanShape(req[r], s) /\ phase[r] = "run"
        /\ row \in SourceRows
    BY <1>2, RefreshRuns, Effect DEF TypeOK, Shape
  <2>2. /\ row.name \in Names /\ row # NoRow /\ row.type = "source" /\ row.sql \in Props
        /\ j \in Keys
    BY <2>1, PlanTypes, RowFacts, KeyFacts, SMTT(30)
  <2>3. catalog[j] # NoRow /\ catalog[j].type = "source" /\ catalog[j].name = row.name
    BY <2>1 DEF Refreshed
  <2>4. \/ Head(s).op = "ingest" /\ Head(s).name = row.name /\ Head(s).data = row.sql
        \/ Head(s).op = "update" /\ Head(s).row = row
    <3>1. Len(s) = 1 \/ Len(s) = 2
      BY <2>1, PlanOps
    <3> HIDE DEF s
    <3>2. /\ Head(s) = s[1] /\ s[Len(s)].op = "update"
          /\ Len(s) = 2 => s[1].op = "ingest" /\ s[1].name = row.name /\ s[1].data = row.sql
      BY <2>1, PlanOps
    <3> QED BY <3>1, <3>2
  <2>5. CASE Head(s).op = "ingest"
    <3>1. catalog'[k] = catalog[k]
      BY <1>2, <2>5, EffectAt
    <3>2. tables'[k] = IF k = Lower[Head(s).name] THEN [name |-> Head(s).name, data |-> Head(s).data] ELSE tables[k]
      BY <2>0, <2>5
    <3> HIDE DEF s, row
    <3>3. k # j => tables'[k] = tables[k]
      BY <2>4, <2>5, <3>2
    <3>4. tables'[j] = [name |-> row.name, data |-> row.sql] \/ k # j
      BY <2>4, <2>5, <3>2
    <3>5. [name |-> row.name, data |-> row.sql] # NoTable
      BY <2>2 DEF NoTable
    <3> HIDE DEF j
    <3> QED BY <2>3, <3>1, <3>3, <3>4, <3>5 DEF SourceStep
  <2>6. CASE Head(s).op = "update"
    <3>1. tables'[k] = tables[k]
      BY <1>2, <2>6, EffectAt
    <3>2. catalog'[k] = catalog[k] \/ (k = Lower[Head(s).row.name] /\ catalog'[k] = Head(s).row)
      BY <1>2, <2>6, EffectAt
    <3> HIDE DEF s, row
    <3>3. catalog'[k] = catalog[k] \/ (k = j /\ catalog'[k] = row)
      BY <2>4, <2>6, <3>2
    <3> HIDE DEF j
    <3> QED BY <2>2, <2>3, <3>1, <3>3 DEF SourceStep
  <2> QED BY <2>4, <2>5, <2>6
<1> QED BY <1>1, <1>2

\* A refresh goes on finding its object, whatever is written to it.
LEMMA RefreshedKeeps ==
  ASSUME TypeOK, NEW r \in Requests, Shape(r), Refreshed(r),
         req'[r] = req[r], phase'[r] = phase[r], todo'[r] = todo[r],
         \A k \in Keys : catalog[k].type = "source" =>
                           catalog'[k].type = "source" /\ catalog'[k].name = catalog[k].name
  PROVE  Refreshed(r)'
<1>1. SUFFICES ASSUME req[r].kind = "refresh", phase[r] = "run"
               PROVE  LET row == todo[r][Len(todo[r])].row  c == catalog'[Lower[row.name]] IN
                      c # NoRow /\ c.type = "source" /\ c.name = row.name
  BY DEF Refreshed
<1> DEFINE row == todo[r][Len(todo[r])].row
           k == Lower[row.name]
<1>2. k \in Keys
  BY <1>1, RefreshRuns, PlanTypes, RowFacts, KeyFacts, SMTT(30)
<1>3. catalog[k] # NoRow /\ catalog[k].type = "source" /\ catalog[k].name = row.name
  BY <1>1 DEF Refreshed
<1> HIDE DEF row, k
<1>4. catalog'[k].type = "source" /\ catalog'[k].name = row.name
  BY <1>2, <1>3
<1>5. catalog'[k] # NoRow
  BY <1>4 DEF NoRow
<1> QED BY <1>4, <1>5, SMTT(30) DEF row, k

LEMMA ReadObjectsKeeps ==
  ASSUME TypeOK, TypeOK', \A k \in Keys : SourceStep(k), NEW o \in Requests, objs'[o] = objs[o],
         ReadObjects(o)
  PROVE  ReadObjects(o)'
<1>1. ASSUME NEW k \in Keys, catalog'[k] # NoRow
      PROVE  \E row \in objs[o] : row.name = catalog'[k].name
  <2>1. catalog'[k].type # "none"
    <3>1. catalog'[k] \in SourceRows \cup TableRows
      BY <1>1 DEF TypeOK, Rows
    <3> QED BY <3>1 DEF SourceRows, TableRows
  <2>2. catalog[k].type # "none" /\ catalog'[k].name = catalog[k].name
    BY <2>1 DEF SourceStep
  <2> QED BY <2>2, RowTypes DEF ReadObjects
<1>2. ASSUME NEW row \in objs[o]
      PROVE  LET c == catalog'[Lower[row.name]] IN
             /\ c # NoRow /\ c.name = row.name /\ c.type = row.type
             /\ c.type = "table" => c = row
  <2> DEFINE k == Lower[row.name]
             c == catalog[k]
  <2>1. k \in Keys
    BY RowFacts, KeyFacts DEF TypeOK
  <2>2. c # NoRow /\ c.name = row.name /\ c.type = row.type /\ (c.type = "table" => c = row)
    BY DEF ReadObjects
  <2>3. c.type \in {"source", "table"}
    BY <2>1, <2>2, RowTypes
  <2>4. SourceStep(k)
    BY <2>1
  <2> HIDE DEF k
  <2>5. catalog'[k].type = c.type /\ catalog'[k].name = c.name /\ (c.type # "source" => catalog'[k] = c)
    BY <2>3, <2>4 DEF SourceStep
  <2>6. catalog'[k] # NoRow
    BY <2>3, <2>5 DEF NoRow
  <2>7. catalog'[k].type = "table" => catalog'[k] = row
    BY <2>2, <2>5
  <2> QED BY <2>2, <2>5, <2>6, <2>7 DEF k
<1> QED BY <1>1, <1>2 DEF ReadObjects

InTablesAfter(t) == tables'[Lower[t.name]] = [name |-> t.name, data |-> t.schema]

LEMMA ReadTablesKeeps ==
  ASSUME TypeOK, TypeOK', \A k \in Keys : SourceStep(k), NEW o \in Requests, todo'[o] = todo[o],
         ReadTables(o)
  PROVE  ReadTables(o)'
<1> DEFINE s == todo[o]
<1>1. ASSUME NEW k \in Keys
      PROVE  LET c == catalog'[k]  t == tables'[k] IN
             /\ t # NoTable /\ (c = NoRow \/ c.name # t.name) => Writes(o, CreateObject(Table(t.name, t.data)))
             /\ t # NoTable /\ c # NoRow /\ c.type = "table" /\ c.name = t.name /\ c.schema # t.data
                  => Writes(o, UpdateObject(Table(t.name, t.data)))
             /\ t = NoTable /\ c # NoRow /\ c.type = "table" => Writes(o, DeleteObject(c.name))
  <2>1. /\ SourceStep(k)
        /\ catalog[k] # NoRow <=> catalog[k].type \in {"source", "table"}
        /\ catalog[k] = NoRow <=> catalog[k].type = "none"
    BY RowTypes
  <2>2. CASE catalog[k].type # "source"
    BY <2>1, <2>2 DEF SourceStep, ReadTables
  <2>3. CASE catalog[k].type = "source"
    <3>1. catalog'[k].type = "source" /\ catalog'[k].name = catalog[k].name /\ catalog[k] # NoRow
      BY <2>1, <2>3 DEF SourceStep
    <3>2. catalog'[k] # NoRow
      BY <3>1 DEF NoRow
    <3>3. tables'[k] # NoTable /\ tables'[k].name # catalog[k].name => tables'[k] = tables[k]
      BY <2>1 DEF SourceStep
    <3> QED BY <3>1, <3>2, <3>3 DEF ReadTables
  <2> QED BY <2>2, <2>3
<1>2. ASSUME NEW i \in 1..Len(s)
      PROVE  /\ s[i].op = "create" =>
                  InTablesAfter(s[i].row) \/ catalog'[Lower[s[i].row.name]].type = "source"
             /\ s[i].op = "update" => InTablesAfter(s[i].row) /\ catalog'[Lower[s[i].row.name]].type # "source"
             /\ s[i].op = "delete" =>
                  LET k == Lower[s[i].name] IN
                  catalog'[k].type # "source" /\ (tables'[k] = NoTable \/ tables'[k].name # s[i].name)
  <2>1. s[i] \in Statements
    <3>1. s \in Seq(Statements)
      BY SMTT(30) DEF TypeOK
    <3> QED BY <3>1, ElementOfSeq
  <2> DEFINE x == s[i]
  <2>2. /\ x.op = "create" => InTables(x.row) \/ catalog[Lower[x.row.name]].type = "source"
        /\ x.op = "update" => InTables(x.row) /\ catalog[Lower[x.row.name]].type # "source"
        /\ x.op = "delete" =>
             LET k == Lower[x.name] IN
             catalog[k].type # "source" /\ (tables[k] = NoTable \/ tables[k].name # x.name)
    BY DEF ReadTables
  <2> HIDE DEF s
  <2>3. ASSUME NEW row \in Rows
        PROVE  /\ Lower[row.name] \in Keys
               /\ catalog'[Lower[row.name]].type = catalog[Lower[row.name]].type
               /\ catalog[Lower[row.name]].type # "source" => (InTables(row) => InTablesAfter(row))
    BY RowFacts, KeyFacts DEF SourceStep, InTables, InTablesAfter
  <2>4. ASSUME NEW n \in Names
        PROVE  LET k == Lower[n] IN
               /\ catalog'[k].type = catalog[k].type
               /\ catalog[k].type # "source" => tables'[k] = tables[k]
    BY KeyFacts DEF SourceStep
  <2>5. x.op = "create" => InTablesAfter(x.row) \/ catalog'[Lower[x.row.name]].type = "source"
    BY <2>1, <2>2, <2>3, StatementFacts
  <2>6. x.op = "update" => InTablesAfter(x.row) /\ catalog'[Lower[x.row.name]].type # "source"
    BY <2>1, <2>2, <2>3, StatementFacts
  <2>7. x.op = "delete" =>
             LET k == Lower[x.name] IN
             catalog'[k].type # "source" /\ (tables'[k] = NoTable \/ tables'[k].name # x.name)
    BY <2>1, <2>2, <2>4, StatementFacts
  <2> QED BY <2>5, <2>6, <2>7 DEF x
<1>3. ASSUME NEW y PROVE Writes(o, y)' <=> Writes(o, y)
  BY SMTT(30) DEF Writes
<1> QED BY <1>1, <1>2, <1>3, ZenonT(60) DEF ReadTables, InTables, InTablesAfter

\* A statement of a sync: what it does to the object of a key.
LEMMA SyncEffect ==
  ASSUME TypeOK, NEW o \in Requests, Shape(o), Statement(o), req[o].kind = "sync", ReadTables(o)
  PROVE  LET x == Head(todo[o]) IN
         /\ tables' = tables
         /\ x \in SyncStatements
         /\ x.op = "create" =>
              /\ Lower[x.row.name] \in Keys /\ catalog[Lower[x.row.name]] = NoRow
              /\ catalog'[Lower[x.row.name]] = x.row
         /\ x.op = "update" /\ HasName(x.row.name) =>
              Lower[x.row.name] \in Keys /\ catalog'[Lower[x.row.name]] = x.row
         /\ x.op = "delete" /\ HasName(x.name) => Lower[x.name] \in Keys /\ catalog'[Lower[x.name]] = NoRow
         /\ \A k \in Keys :
              \/ catalog'[k] = catalog[k]
              \/ /\ x.op \in {"create", "update"} /\ x.row \in TableRows /\ k = Lower[x.row.name]
                 /\ catalog'[k] = x.row /\ InTables(x.row) /\ catalog[k].type # "source"
              \/ /\ x.op = "delete" /\ k = Lower[x.name] /\ catalog'[k] = NoRow
                 /\ catalog[k] # NoRow /\ catalog[k].name = x.name /\ catalog[k].type # "source"
                 /\ tables[k] = NoTable \/ tables[k].name # x.name
<1> DEFINE x == Head(todo[o])
<1>1. phase[o] = "run" /\ todo[o] \in Seq(Statements) /\ todo[o] # <<>>
  BY Effect DEF TypeOK
<1>2. x \in SyncStatements
  BY <1>1, HeadKeys
<1>3. /\ x.op \in {"create", "update", "delete"}
      /\ x.op \in {"create", "update"} => x.row \in TableRows /\ Lower[x.row.name] \in Keys
      /\ x.op = "delete" => Lower[x.name] \in Keys
  <2>1. x.op \in {"create", "update"} => x.row \in TableRows
    BY <1>2 DEF SyncStatements
  <2>2. x.op = "delete" => x.name \in Names
    BY <1>2 DEF SyncStatements
  <2>3. x.op \in {"create", "update", "delete"}
    BY <1>2 DEF SyncStatements
  <2> QED BY <2>1, <2>2, <2>3, RowFacts, KeyFacts
<1>4. tables' = tables
  BY <1>3, Effect
<1>5. /\ x.op = "create" => InTables(x.row) \/ catalog[Lower[x.row.name]].type = "source"
      /\ x.op = "update" => InTables(x.row) /\ catalog[Lower[x.row.name]].type # "source"
      /\ x.op = "delete" =>
           LET k == Lower[x.name] IN
           catalog[k].type # "source" /\ (tables[k] = NoTable \/ tables[k].name # x.name)
  <2>1. x = todo[o][1] /\ 1 \in 1..Len(todo[o])
    <3>1. Len(todo[o]) \in Nat \ {0}
      BY <1>1, EmptySeq, LenProperties
    <3> QED BY <1>1, <3>1, HeadTailProperties
  <2> QED BY <2>1 DEF ReadTables
<1>6. x.op = "create" => RunCreate(o)
  BY ZenonT(60) DEF Statement, RunIngest, RunLookup, RunCreate, RunUpdate, RunDelete, RunAlter, RunDrop, Is
<1>7. x.op = "update" => RunUpdate(o)
  BY ZenonT(60) DEF Statement, RunIngest, RunLookup, RunCreate, RunUpdate, RunDelete, RunAlter, RunDrop, Is
<1>8. x.op = "delete" => RunDelete(o)
  BY Zenon DEF Statement, RunIngest, RunLookup, RunCreate, RunUpdate, RunDelete, RunAlter, RunDrop, Is
<1>9. catalog = [k \in Keys |-> catalog[k]]
  BY DEF TypeOK
<1>10. NoRow.type # "source"
  BY DEF NoRow
<1> DEFINE row == x.row
           n == x.name
<1>11. CASE x.op = "create"
  <2>1. catalog[Lower[row.name]] = NoRow /\ catalog' = [catalog EXCEPT ![Lower[row.name]] = row]
    BY <1>6, <1>11 DEF RunCreate
  <2> HIDE DEF x
  <2> QED BY <1>2, <1>3, <1>4, <1>5, <1>9, <1>10, <1>11, <2>1, Zenon DEF x
<1>12. CASE x.op = "update"
  <2>1. catalog' = IF HasName(row.name) THEN [catalog EXCEPT ![Lower[row.name]] = row] ELSE catalog
    BY <1>7, <1>12 DEF RunUpdate
  <2> HIDE DEF x
  <2> QED BY <1>2, <1>3, <1>4, <1>5, <1>9, <1>12, <2>1, Zenon DEF x
<1>13. CASE x.op = "delete"
  <2>1. catalog' = IF HasName(n) THEN [catalog EXCEPT ![Lower[n]] = NoRow] ELSE catalog
    BY <1>8, <1>13 DEF RunDelete
  <2>2. HasName(n) => catalog[Lower[n]] # NoRow /\ catalog[Lower[n]].name = n
    BY DEF HasName, HasKey
  <2> HIDE DEF x
  <2> QED BY <1>2, <1>3, <1>4, <1>5, <1>9, <1>13, <2>1, <2>2, Zenon DEF x
<1> QED BY <1>3, <1>11, <1>12, <1>13

WritesAfter(o, s) == \E i \in 1..Len(todo'[o]) : todo'[o][i] = s

\* After its statement a sync has the rest to do; the objects of sources stay.
LEMMA OwnReadTables ==
  ASSUME TypeOK, NEW o \in Requests, Shape(o), Statement(o), req[o].kind = "sync", ReadTables(o),
         todo'[o] = Tail(todo[o])
  PROVE  /\ ReadTables(o)'
         /\ \A k \in Keys : catalog[k].type = "source" => catalog'[k] = catalog[k]
<1> DEFINE s == todo[o]
           x == Head(s)
<1>1. s \in Seq(Statements) /\ s # <<>>
  BY Effect DEF TypeOK
<1>2. /\ x = s[1] /\ Len(s) \in Nat /\ Len(Tail(s)) = Len(s) - 1
      /\ \A i \in 1..Len(Tail(s)) : Tail(s)[i] = s[i + 1] /\ i + 1 \in 1..Len(s)
  <2>1. Len(s) \in Nat \ {0}
    BY <1>1, EmptySeq, LenProperties
  <2>2. Len(Tail(s)) = Len(s) - 1 /\ x = s[1] /\ \A i \in 1..(Len(s) - 1) : Tail(s)[i] = s[i + 1]
    BY <1>1, HeadTailProperties
  <2> HIDE DEF s
  <2> QED BY <2>1, <2>2
<1>3. ASSUME NEW y, y # x, Writes(o, y) PROVE WritesAfter(o, y)
  <2>1. PICK i \in 1..Len(s) : s[i] = y
    BY <1>3 DEF Writes
  <2>2. i # 1
    BY <1>2, <1>3, <2>1
  <2>3. i - 1 \in 1..Len(Tail(s)) /\ (i - 1) + 1 = i
    BY <1>2, <2>2
  <2>4. Tail(s)[i - 1] = y
    BY <1>2, <2>1, <2>3
  <2>5. \E j \in 1..Len(Tail(s)) : Tail(s)[j] = y
    BY <2>3, <2>4
  <2>6. \E j \in 1..Len(todo'[o]) : todo'[o][j] = y
    BY <2>5
  <2> QED BY <2>6 DEF WritesAfter
<1>4. /\ tables' = tables /\ x \in SyncStatements
      /\ x.op = "create" =>
           /\ Lower[x.row.name] \in Keys /\ catalog[Lower[x.row.name]] = NoRow
           /\ catalog'[Lower[x.row.name]] = x.row
      /\ x.op = "update" /\ HasName(x.row.name) =>
           Lower[x.row.name] \in Keys /\ catalog'[Lower[x.row.name]] = x.row
      /\ x.op = "delete" /\ HasName(x.name) => Lower[x.name] \in Keys /\ catalog'[Lower[x.name]] = NoRow
  BY SyncEffect
<1>5. ASSUME NEW k \in Keys
      PROVE  \/ catalog'[k] = catalog[k]
             \/ /\ x.op \in {"create", "update"} /\ x.row \in TableRows /\ k = Lower[x.row.name]
                /\ catalog'[k] = x.row /\ InTables(x.row) /\ catalog[k].type # "source"
             \/ /\ x.op = "delete" /\ k = Lower[x.name] /\ catalog'[k] = NoRow
                /\ catalog[k] # NoRow /\ catalog[k].name = x.name /\ catalog[k].type # "source"
                /\ tables[k] = NoTable \/ tables[k].name # x.name
  BY SyncEffect
<1> HIDE DEF x
<1>6. ASSUME NEW k \in Keys PROVE /\ catalog[k].type = "source" => catalog'[k] = catalog[k]
                                  /\ catalog[k].type # "source" => catalog'[k].type # "source"
  BY <1>5 DEF TableRows, NoRow
<1>7. ASSUME NEW k \in Keys
      PROVE  LET c == catalog'[k]  t == tables[k] IN
             /\ t # NoTable /\ (c = NoRow \/ c.name # t.name) => WritesAfter(o, CreateObject(Table(t.name, t.data)))
             /\ t # NoTable /\ c # NoRow /\ c.type = "table" /\ c.name = t.name /\ c.schema # t.data
                  => WritesAfter(o, UpdateObject(Table(t.name, t.data)))
             /\ t = NoTable /\ c # NoRow /\ c.type = "table" => WritesAfter(o, DeleteObject(c.name))
  <2> DEFINE t == tables[k]
             c == catalog[k]
             create == CreateObject(Table(t.name, t.data))
             update == UpdateObject(Table(t.name, t.data))
             delete == DeleteObject(c.name)
  <2>1. /\ create.op = "create" /\ create.row.name = t.name /\ create.row.schema = t.data
        /\ update.op = "update" /\ update.row.name = t.name /\ update.row.schema = t.data
        /\ delete.op = "delete" /\ delete.name = c.name
    BY DEF CreateObject, UpdateObject, DeleteObject, Table
  <2>2. /\ t # NoTable /\ (c = NoRow \/ c.name # t.name) => Writes(o, create)
        /\ t # NoTable /\ c # NoRow /\ c.type = "table" /\ c.name = t.name /\ c.schema # t.data => Writes(o, update)
        /\ t = NoTable /\ c # NoRow /\ c.type = "table" => Writes(o, delete)
    BY DEF ReadTables
  <2>3. (t # NoTable => Lower[t.name] = k) /\ (c # NoRow => Lower[c.name] = k)
    BY RowTypes
  <2> HIDE DEF t, c, create, update, delete
  <2>4. CASE catalog'[k] = c
    <3>1. t # NoTable /\ (c = NoRow \/ c.name # t.name) => create # x
      <4>1. ASSUME t # NoTable, create = x PROVE c # NoRow /\ c.name = t.name
        <5>1. catalog[k] = NoRow /\ catalog'[k] = x.row /\ x.row \in Rows
          BY <1>4, <2>1, <2>3, <4>1, RowFacts DEF SyncStatements
        <5> QED BY <2>4, <5>1, RowFacts DEF c
      <4> QED BY <4>1
    <3>2. t # NoTable /\ c # NoRow /\ c.name = t.name /\ c.schema # t.data => update # x
      <4>1. ASSUME t # NoTable, c # NoRow, c.name = t.name, update = x PROVE c.schema = t.data
        <5>1. HasName(t.name)
          BY <2>3, <4>1 DEF HasName, HasKey, c
        <5>2. catalog'[k] = x.row
          BY <1>4, <2>1, <2>3, <4>1, <5>1
        <5> QED BY <2>1, <2>4, <4>1, <5>2
      <4> QED BY <4>1
    <3>3. c # NoRow => delete # x
      <4>1. ASSUME c # NoRow, delete = x PROVE FALSE
        <5>1. HasName(c.name)
          BY <2>3, <4>1 DEF HasName, HasKey, c
        <5>2. catalog'[k] = NoRow
          BY <1>4, <2>1, <2>3, <4>1, <5>1
        <5> QED BY <2>4, <4>1, <5>2
      <4> QED BY <4>1
    <3>4. t # NoTable /\ (c = NoRow \/ c.name # t.name) => WritesAfter(o, create)
      BY <1>3, <2>2, <3>1
    <3>5. t # NoTable /\ c # NoRow /\ c.type = "table" /\ c.name = t.name /\ c.schema # t.data => WritesAfter(o, update)
      BY <1>3, <2>2, <3>2
    <3>6. t = NoTable /\ c # NoRow /\ c.type = "table" => WritesAfter(o, delete)
      BY <1>3, <2>2, <3>3
    <3> QED BY <2>4, <3>4, <3>5, <3>6 DEF t, create, update, delete
  <2>5. CASE catalog'[k] # c
    <3>1. CASE x.op \in {"create", "update"}
      <4>1. catalog'[k] = x.row /\ InTables(x.row) /\ k = Lower[x.row.name] /\ x.row \in Rows
        BY <1>5, <2>5, <3>1, RowFacts DEF c
      <4>2. t = [name |-> x.row.name, data |-> x.row.schema]
        BY <4>1 DEF InTables, t
      <4>3. t.name = x.row.name /\ t.data = x.row.schema
        BY <4>2
      <4>4. t # NoTable
        BY <4>2 DEF NoTable
      <4> QED BY <4>1, <4>3, <4>4, RowFacts DEF t
    <3>2. CASE x.op = "delete"
      <4>1. /\ catalog'[k] = NoRow /\ c # NoRow /\ c.name = x.name /\ (t = NoTable \/ t.name # x.name)
        BY <1>5, <2>5, <3>2 DEF c, t
      <4>2. t # NoTable => Writes(o, create)
        BY <2>2, <4>1
      <4>3. create # x
        BY <2>1, <3>2
      <4>4. t # NoTable => WritesAfter(o, create)
        BY <1>3, <4>2, <4>3
      <4> QED BY <4>1, <4>4 DEF t, create
    <3> QED BY <1>4, <3>1, <3>2 DEF SyncStatements
  <2> QED BY <2>4, <2>5
<1>8. ASSUME NEW i \in 1..Len(Tail(s))
      PROVE  LET y == Tail(s)[i] IN
             /\ y.op = "create" => InTablesAfter(y.row) \/ catalog'[Lower[y.row.name]].type = "source"
             /\ y.op = "update" => InTablesAfter(y.row) /\ catalog'[Lower[y.row.name]].type # "source"
             /\ y.op = "delete" =>
                  LET k == Lower[y.name] IN
                  catalog'[k].type # "source" /\ (tables'[k] = NoTable \/ tables'[k].name # y.name)
  <2> DEFINE y == s[i + 1]
  <2>1. Tail(s)[i] = y /\ i + 1 \in 1..Len(s)
    BY <1>2, SMTT(30)
  <2>2. /\ y.op = "create" => InTables(y.row) \/ catalog[Lower[y.row.name]].type = "source"
        /\ y.op = "update" => InTables(y.row) /\ catalog[Lower[y.row.name]].type # "source"
        /\ y.op = "delete" =>
             LET k == Lower[y.name] IN
             catalog[k].type # "source" /\ (tables[k] = NoTable \/ tables[k].name # y.name)
    BY <2>1 DEF ReadTables
  <2>3. y \in Statements
    BY <1>1, <2>1, ElementOfSeq
  <2> HIDE DEF y, s
  <2>4. /\ y.op \in {"create", "update"} => Lower[y.row.name] \in Keys
        /\ y.op = "delete" => Lower[y.name] \in Keys
    BY <2>3, StatementFacts, RowFacts, KeyFacts
  <2>5. InTables(y.row) => InTablesAfter(y.row)
    BY <1>4 DEF InTables, InTablesAfter
  <2> QED BY <1>4, <1>6, <2>1, <2>2, <2>4, <2>5, SMTT(30)
<1>9. ReadTables(o)'
  <2>1. /\ tables' = tables /\ todo'[o] = Tail(s)
    BY <1>4
  <2>2. ASSUME NEW k \in Keys
        PROVE  LET c == catalog'[k]  t == tables'[k] IN
               /\ t # NoTable /\ (c = NoRow \/ c.name # t.name) => WritesAfter(o, CreateObject(Table(t.name, t.data)))
               /\ t # NoTable /\ c # NoRow /\ c.type = "table" /\ c.name = t.name /\ c.schema # t.data
                    => WritesAfter(o, UpdateObject(Table(t.name, t.data)))
               /\ t = NoTable /\ c # NoRow /\ c.type = "table" => WritesAfter(o, DeleteObject(c.name))
    BY <1>7, <2>1, SMTT(30)
  <2>3. ASSUME NEW i \in 1..Len(todo'[o])
        PROVE  LET y == todo'[o][i] IN
               /\ y.op = "create" => InTablesAfter(y.row) \/ catalog'[Lower[y.row.name]].type = "source"
               /\ y.op = "update" => InTablesAfter(y.row) /\ catalog'[Lower[y.row.name]].type # "source"
               /\ y.op = "delete" =>
                    LET k == Lower[y.name] IN
                    catalog'[k].type # "source" /\ (tables'[k] = NoTable \/ tables'[k].name # y.name)
    BY <1>8, <2>1
  <2> QED BY <2>2, <2>3, ZenonT(60) DEF ReadTables, InTables, InTablesAfter, Writes, WritesAfter
<1> QED BY <1>6, <1>9

\* What a sync decides to do from the objects it has read.
LEMMA ReadSchemaKnows ==
  ASSUME TypeOK, NEW o \in Requests, ReadSchema(o)
  PROVE  /\ UNCHANGED stores /\ objs'[o] = {}
         /\ ReadObjects(o) => ReadTables(o)'
         /\ \A k \in Keys : Spares(o, k) => Spares(o, k)'
<1> DEFINE ts == {tables[k] : k \in Keys} \ {NoTable}
           all == SyncTables(objs[o], ts) \cup SyncRemoved(objs[o], ts)
<1>1. PICK s \in Seq(all) : /\ \A x \in all : \E i \in 1..Len(s) : s[i] = x
                            /\ IF s = <<>> THEN Return(o, "ok") ELSE Run(o, s)
  BY ReadSchemaPlan
<1>2. UNCHANGED <<catalog, tables>> /\ objs'[o] = {} /\ todo'[o] = s
  BY <1>1 DEF ReadSchema, stores, Return, Run, Plan, TypeOK
<1>3. \A i \in 1..Len(s) : s[i] \in all
  BY ElementOfSeq
<1>4. /\ \A t \in ts : t # NoTable /\ t = tables[Lower[t.name]] /\ Lower[t.name] \in Keys
      /\ \A k \in Keys : tables[k] # NoTable => tables[k] \in ts
  BY DEF TypeOK
<1>5. \A row \in objs[o] : Lower[row.name] \in Keys
  BY RowFacts, KeyFacts DEF TypeOK
<1>6. ASSUME NEW x \in all
      PROVE  \/ \E t \in ts : x = CreateObject(Table(t.name, t.data))
             \/ \E t \in ts : /\ x = UpdateObject(Table(t.name, t.data))
                              /\ \E row \in objs[o] : row.name = t.name /\ row.type = "table"
             \/ \E row \in objs[o] : /\ x = DeleteObject(row.name) /\ row.type = "table"
                                     /\ \A t \in ts : t.name # row.name
  <2> HIDE DEF ts
  <2> QED BY DEF SyncTables, SyncRemoved
<1>7. ASSUME NEW k \in Keys, Spares(o, k) PROVE Spares(o, k)'
  <2>1. \A row \in objs[o] : Lower[row.name] = k => row.type = "source"
    BY <1>7 DEF Spares
  <2>2. ASSUME NEW x \in all
        PROVE  /\ x.op = "update" => Lower[x.row.name] # k
               /\ x.op = "delete" => Lower[x.name] # k
    <3> HIDE DEF ts, all
    <3> QED BY <1>6, <2>1, <2>2 DEF CreateObject, UpdateObject, DeleteObject, Table
  <2>3. \A i \in 1..Len(s) : /\ s[i].op = "update" => Lower[s[i].row.name] # k
                             /\ s[i].op = "delete" => Lower[s[i].name] # k
    <3> HIDE DEF ts, all
    <3> QED BY <1>3, <2>2
  <2> QED BY <1>2, <2>3 DEF Spares
<1>8. ASSUME ReadObjects(o) PROVE ReadTables(o)'
  <2>1. ASSUME NEW x \in all PROVE WritesAfter(o, x)
    <3> HIDE DEF all
    <3> QED BY <1>1, <1>2, <2>1 DEF WritesAfter
  <2>2. ASSUME NEW row \in objs[o]
        PROVE  LET c == catalog[Lower[row.name]] IN
               /\ c # NoRow /\ c.name = row.name /\ c.type = row.type
               /\ c.type = "table" => c = row
    BY <1>8 DEF ReadObjects
  <2>3. ASSUME NEW k \in Keys
        PROVE  LET c == catalog[k]  t == tables[k] IN
               /\ t # NoTable /\ (c = NoRow \/ c.name # t.name) => WritesAfter(o, CreateObject(Table(t.name, t.data)))
               /\ t # NoTable /\ c # NoRow /\ c.type = "table" /\ c.name = t.name /\ c.schema # t.data
                    => WritesAfter(o, UpdateObject(Table(t.name, t.data)))
               /\ t = NoTable /\ c # NoRow /\ c.type = "table" => WritesAfter(o, DeleteObject(c.name))
    <3> DEFINE c == catalog[k]
               t == tables[k]
    <3>1. (c # NoRow => Lower[c.name] = k) /\ (t # NoTable => Lower[t.name] = k /\ t \in ts)
      BY RowTypes
    <3> HIDE DEF ts
    <3>2. ASSUME t # NoTable, c = NoRow \/ c.name # t.name
          PROVE  CreateObject(Table(t.name, t.data)) \in all
      <4>1. \A row \in objs[o] : row.name # t.name
        BY <2>2, <3>1, <3>2
      <4> QED BY <3>1, <3>2, <4>1 DEF SyncTables
    <3>3. ASSUME t # NoTable, c # NoRow, c.type = "table", c.name = t.name, c.schema # t.data
          PROVE  UpdateObject(Table(t.name, t.data)) \in all
      <4>1. PICK row \in objs[o] : row.name = c.name
        BY <1>8, <3>3 DEF ReadObjects
      <4>2. c = row
        BY <2>2, <3>1, <3>3, <4>1
      <4> QED BY <3>1, <3>3, <4>2 DEF SyncTables
    <3>4. ASSUME t = NoTable, c # NoRow, c.type = "table"
          PROVE  DeleteObject(c.name) \in all
      <4>1. PICK row \in objs[o] : row.name = c.name
        BY <1>8, <3>4 DEF ReadObjects
      <4>2. c = row
        BY <2>2, <3>1, <3>4, <4>1
      <4>3. \A u \in ts : u.name # c.name
        BY <1>4, <3>1, <3>4
      <4> QED BY <3>4, <4>2, <4>3 DEF SyncRemoved
    <3> HIDE DEF all
    <3> QED BY <2>1, <3>2, <3>3, <3>4
  <2>4. ASSUME NEW x \in all
        PROVE  /\ x.op = "create" => InTablesAfter(x.row)
               /\ x.op = "update" => InTablesAfter(x.row) /\ catalog[Lower[x.row.name]].type # "source"
               /\ x.op = "delete" =>
                    LET k == Lower[x.name] IN
                    catalog[k].type # "source" /\ (tables[k] = NoTable \/ tables[k].name # x.name)
    <3> HIDE DEF all
    <3>1. ASSUME NEW t \in ts, x \in {CreateObject(Table(t.name, t.data)), UpdateObject(Table(t.name, t.data))}
          PROVE  InTablesAfter(x.row) /\ x.row.name = t.name /\ x.op \in {"create", "update"}
      <4>1. x.row = Table(t.name, t.data) /\ x.op \in {"create", "update"}
        BY <3>1 DEF CreateObject, UpdateObject
      <4>2. x.row.name = t.name /\ x.row.schema = t.data
        BY <4>1 DEF Table
      <4>3. t = [name |-> t.name, data |-> t.data]
        BY DEF TypeOK
      <4>4. tables'[Lower[t.name]] = t
        BY <1>2, <1>4
      <4> QED BY <4>1, <4>2, <4>3, <4>4 DEF InTablesAfter
    <3>2. ASSUME NEW t \in ts, x = UpdateObject(Table(t.name, t.data)),
                 NEW row \in objs[o], row.name = t.name, row.type = "table"
          PROVE  catalog[Lower[x.row.name]].type # "source"
      BY <2>2, <3>1, <3>2
    <3>3. ASSUME NEW row \in objs[o], x = DeleteObject(row.name), row.type = "table", \A t \in ts : t.name # row.name
          PROVE  /\ x.op = "delete"
                 /\ LET k == Lower[x.name] IN
                    catalog[k].type # "source" /\ (tables[k] = NoTable \/ tables[k].name # x.name)
      <4>1. x.name = row.name /\ x.op = "delete"
        BY <3>3 DEF DeleteObject
      <4> HIDE DEF ts
      <4>2. catalog[Lower[row.name]].type # "source"
        BY <2>2, <3>3
      <4>3. tables[Lower[row.name]] = NoTable \/ tables[Lower[row.name]].name # row.name
        BY <1>4, <1>5, <3>3
      <4> QED BY <4>1, <4>2, <4>3
    <3> HIDE DEF ts
    <3>4. \A t : /\ CreateObject(Table(t.name, t.data)).op = "create"
                 /\ UpdateObject(Table(t.name, t.data)).op = "update"
      BY DEF CreateObject, UpdateObject
    <3> QED BY <1>6, <2>4, <3>1, <3>2, <3>3, <3>4
  <2>5. \A i \in 1..Len(s) : s[i] \in all
    BY <1>3
  <2> HIDE DEF all, ts
  <2> QED BY <1>2, <2>3, <2>4, <2>5 DEF ReadTables, InTables, InTablesAfter, Writes, WritesAfter
<1> QED BY <1>2, <1>7, <1>8 DEF stores

\* A sync that goes on has the rest of its statements to run.
LEMMA SyncGoesOn ==
  ASSUME TypeOK, NEW o \in Requests, Shape(o), Statement(o), req[o].kind = "sync"
  PROVE  /\ todo'[o] = Tail(todo[o]) \/ (req'[o] = NoRequest /\ todo'[o] = <<>>)
         /\ objs'[o] = {} /\ objs[o] = {} /\ todo[o] \in Seq(Statements) /\ todo[o] # <<>>
         /\ GoOn(o)
<1>1. phase[o] = "run" /\ todo[o] \in Seq(Statements) /\ todo[o] # <<>> /\ objs[o] = {}
  BY Effect, Zenon DEF TypeOK, Shape
<1>2. Head(todo[o]) \in SyncStatements
  BY <1>1, HeadKeys
<1>3. Head(todo[o]).op \in {"create", "update", "delete"}
  BY <1>2 DEF SyncStatements
<1>4. GoOn(o)
  BY <1>3, Zenon DEF Statement, RunIngest, RunLookup, RunCreate, RunUpdate, RunDelete, RunAlter, RunDrop, Is
<1>5. /\ todo'[o] = Tail(todo[o]) \/ (req'[o] = NoRequest /\ todo'[o] = <<>>)
      /\ objs'[o] = {}
  BY <1>4 DEF GoOn, Return, Run, Plan, TypeOK
<1> QED BY <1>1, <1>4, <1>5

\* The kind of a new request.
LEMMA Arrives ==
  ASSUME TypeOK, NEW r \in Requests, Arrive(r)
  PROVE  \E q \in Request :
           /\ Begin(r, q) /\ req'[r] = q /\ Idle(r)
           /\ q.kind = "sync" => FindObjects(r, q)
           /\ q.kind = "refresh" => FindRefreshed(r, q)
<1>1. PICK q \in Request : \/ \E replace \in BOOLEAN : FindExisting(r, q, replace)
                           \/ FindDeleted(r, q) \/ FindRefreshed(r, q) \/ FindObjects(r, q)
  BY DEF Arrive
<1>2. Begin(r, q)
  BY <1>1 DEF FindExisting, FindDeleted, FindRefreshed, FindObjects
<1>3. req'[r] = q /\ Idle(r)
  BY <1>2 DEF Begin, TypeOK
<1>4. /\ q.kind = "sync" => FindObjects(r, q)
      /\ q.kind = "refresh" => FindRefreshed(r, q)
  BY <1>1 DEF FindExisting, FindDeleted, FindRefreshed, FindObjects
<1> QED BY <1>2, <1>3, <1>4

\* A sync that nobody disturbs and that works spares the objects of sources.
LEMMA SparesSources ==
  ASSUME TypeOK, NEW o \in Requests, Shape(o), SyncKnows(o), req[o].kind = "sync", o \notin clashed,
         NEW k \in Keys, catalog[k].type = "source"
  PROVE  Spares(o, k)
<1>1. phase[o] \in {"readSchema", "run"}
  BY DEF TypeOK, Shape, Idle, NoRequest
<1>2. CASE phase[o] = "readSchema"
  <2>1. todo[o] = <<>> /\ ReadObjects(o)
    BY <1>2 DEF TypeOK, SyncKnows
  <2>2. \A row \in objs[o] : Lower[row.name] = k => row.type = "source"
    BY <2>1 DEF ReadObjects
  <2>3. Len(todo[o]) = 0
    BY <2>1
  <2> QED BY <2>2, <2>3 DEF Spares
<1>3. CASE phase[o] = "run"
  BY <1>3 DEF Shape, SyncKnows, ReadTables, Spares
<1> QED BY <1>1, <1>2, <1>3

\* A sync spares the objects that are being refreshed by a handler that is alone.
LEMMA SpareStep ==
  ASSUME TypeOK, Shapes, Pairs, \A r \in Requests : Knows(r) /\ SyncKnows(r),
         NEW p \in Requests, Step(p), NEW o \in Requests, NEW r \in Requests,
         req'[o].kind = "sync", req'[r].kind = "refresh", NEW k \in Keys, Alone(r, k)'
  PROVE  Spares(o, k)'
<1>0. /\ req \in [Requests -> Request \cup {NoRequest}]
      /\ \A h \in Requests \ {p} : req'[h] = req[h] /\ todo'[h] = todo[h] /\ objs'[h] = objs[h]
      /\ o # r /\ k \in Touches(req'[r])
  BY StepForm, LocallyFacts DEF TypeOK, Alone
<1>1. ASSUME p # o, Spares(o, k) PROVE Spares(o, k)'
  BY <1>0, <1>1 DEF Spares
<1>2. ASSUME p # r PROVE Alone(r, k) /\ req[r].kind = "refresh"
  BY <1>0, <1>2, AloneBefore
<1>3. CASE p # o /\ p # r
  BY <1>0, <1>1, <1>2, <1>3 DEF SyncKnows
<1>4. CASE p = o
  <2>1. Alone(r, k) /\ req[r].kind = "refresh"
    BY <1>0, <1>2, <1>4
  <2>2. catalog[k].type = "source"
    <3>1. Known(req[r], todo[r], k, catalog[k], tables[k])
      BY <2>1, RefreshRuns DEF Knows, Shapes
    <3> QED BY <2>1, <3>1 DEF Known
  <2>3. req[o].kind = "sync" => Spares(o, k)
    BY <2>1 DEF SyncKnows
  <2>4. CASE Arrive(o)
    <3>1. PICK q \in Request : req'[o] = q /\ Idle(o) /\ (q.kind = "sync" => FindObjects(o, q))
      BY <2>4, Arrives
    <3>2. objs'[o] = {catalog[j] : j \in Keys} \ {NoRow} /\ todo'[o] = <<>>
      BY <3>1 DEF FindObjects, TypeOK, Idle
    <3>3. \A row \in objs'[o] : Lower[row.name] = k => row.type = "source"
      BY <2>2, <3>2, RowTypes
    <3>4. Len(todo'[o]) = 0
      BY <3>2
    <3> QED BY <3>3, <3>4 DEF Spares
  <2>5. CASE FindRenamed(o)
    BY <2>5 DEF FindRenamed, Run, Shapes, Shape
  <2>6. CASE ReadSchema(o)
    <3>1. req[o].kind = "sync"
      BY <2>6 DEF ReadSchema, Shapes, Shape
    <3> QED BY <2>3, <2>6, <3>1, ReadSchemaKnows
  <2>7. CASE Statement(o)
    <3>1. req[o].kind = "sync"
      <4>1. req'[o] = req[o] \/ req'[o] = NoRequest
        BY <2>7, Zenon DEF Statement, RunIngest, RunLookup, RunCreate, RunUpdate, RunDelete, RunAlter, RunDrop,
                    GoOn, Return, Run, TypeOK
      <4> QED BY <4>1 DEF NoRequest
    <3>2. Spares(o, k)
      BY <2>3, <3>1
    <3>3. /\ todo'[o] = Tail(todo[o]) /\ objs'[o] = {} /\ todo[o] \in Seq(Statements) /\ todo[o] # <<>>
      BY <2>7, <3>1, SyncGoesOn DEF Shapes, NoRequest
    <3>4. Len(Tail(todo[o])) = Len(todo[o]) - 1 /\ \A i \in 1..(Len(todo[o]) - 1) : Tail(todo[o])[i] = todo[o][i + 1]
      BY <3>3, HeadTailProperties
    <3>5. Len(todo[o]) \in Nat
      BY <3>3, LenProperties
    <3>6. \A i \in 1..Len(Tail(todo[o])) : i + 1 \in 1..Len(todo[o]) /\ Tail(todo[o])[i] = todo[o][i + 1]
      BY <3>4, <3>5
    <3> QED BY <3>2, <3>3, <3>6 DEF Spares
  <2>8. CASE Fail(o)
    BY <2>8 DEF Fail, Return, TypeOK, NoRequest
  <2> QED BY <1>4, <2>4, <2>5, <2>6, <2>7, <2>8 DEF Step
<1>5. CASE p = r
  <2>1. req[o].kind = "sync"
    BY <1>0, <1>5
  <2>2. CASE Arrive(r)
    <3>1. PICK q \in Request : Begin(r, q) /\ req'[r] = q /\ (q.kind = "refresh" => FindRefreshed(r, q))
      BY <2>2, Arrives
    <3>2. ~ Clash(o, q)
      <4>1. k \in Touches(req[o]) \cap Touches(q)
        BY <1>0, <2>1, <3>1, TouchesFacts
      <4>2. Clash(o, q) => r \in clashed' /\ k \in troubled'
        BY <1>0, <3>1, <4>1 DEF Begin
      <4> QED BY <4>2 DEF Alone
    <3>3. o \notin clashed
      <4>1. k \in Touches(req[o]) \cap Touches(q)
        BY <1>0, <2>1, <3>1, TouchesFacts
      <4> QED BY <3>2, <4>1 DEF Clash
    <3>4. catalog[k].type = "source"
      <4>1. k = Lower[q.name]
        BY <1>0, <3>1, TouchesFacts
      <4> QED BY <3>1, <4>1 DEF FindRefreshed, Found
    <3> QED BY <1>0, <1>1, <1>5, <2>1, <3>3, <3>4, SparesSources DEF Shapes
  <2>3. CASE ~ Arrive(r)
    <3>1. UNCHANGED <<req, history>>
      <4>1. ~ \E q \in Request : Begin(r, q)
        <5>1. ~ Idle(r)
          BY <1>5, <2>3, Zenon DEF Step, FindRenamed, ReadSchema, Statement, RunIngest, RunLookup, RunCreate, RunUpdate,
                       RunDelete, RunAlter, RunDrop, Is, Fail, Idle
        <5> QED BY <5>1 DEF Begin
      <4>2. ~ \E res \in {"ok", "error"} : Return(r, res)
        BY DEF Return, TypeOK, NoRequest
      <4> QED BY <1>5, <4>1, <4>2, StepForm
    <3>2. Alone(r, k) /\ req[r].kind = "refresh"
      BY <3>1 DEF Alone, history
    <3> QED BY <1>0, <1>1, <1>5, <2>1, <3>2 DEF SyncKnows
  <2> QED BY <2>2, <2>3
<1> QED BY <1>3, <1>4, <1>5

\* An undisturbed sync goes on knowing what it has read, when another handler
\* takes a step.
LEMMA OthersKeepSync ==
  ASSUME TypeOK, TypeOK', Shapes, Pairs,
         NEW p \in Requests, Step(p), NEW o \in Requests \ {p}, SyncKnows(o),
         req'[o].kind = "sync", o \notin clashed'
  PROVE  /\ \A r \in Requests : Refreshed(r)'
         /\ phase'[o] = "readSchema" => ReadObjects(o)'
         /\ phase'[o] = "run" => ReadTables(o)'
<1>0. /\ req \in [Requests -> Request \cup {NoRequest}]
      /\ \A h \in Requests \ {p} : /\ req'[h] = req[h] /\ phase'[h] = phase[h]
                                   /\ todo'[h] = todo[h] /\ objs'[h] = objs[h]
      /\ \A h \in Requests : Shape(h)
  BY StepForm, LocallyFacts DEF TypeOK, Shapes
<1>1. req[o].kind = "sync" /\ o \notin clashed
  BY <1>0, History
<1>2. /\ \A r \in Requests : Refreshed(r)
      /\ phase[o] = "readSchema" => ReadObjects(o)
      /\ phase[o] = "run" => ReadTables(o)
  BY <1>1 DEF SyncKnows
<1>3. ASSUME NEW k \in Keys PROVE SourceStep(k)
  <2>1. CASE k \in Touches(req[p])
    <3>1. k \in Touches(req[o])
      BY <1>0, <1>1, TouchesFacts
    <3>2. Overlap(p, o)
      BY DEF Pairs
    <3>3. req[p].kind = "refresh"
      BY <1>1, <2>1, <3>1, <3>2 DEF Overlap
    <3> QED BY <1>0, <1>2, <3>3, RefreshEffect
  <2>2. CASE k \notin Touches(req[p])
    <3>1. catalog'[k] = catalog[k] /\ tables'[k] = tables[k]
      BY <1>0, <2>2, OwnKeys
    <3> QED BY <3>1 DEF SourceStep
  <2> QED BY <2>1, <2>2
<1>4. \A k \in Keys : catalog[k].type = "source" =>
                        catalog'[k].type = "source" /\ catalog'[k].name = catalog[k].name
  BY <1>3 DEF SourceStep
<1>5. ASSUME NEW r \in Requests \ {p} PROVE Refreshed(r)'
  BY <1>0, <1>2, <1>4, RefreshedKeeps
<1>6. Refreshed(p)'
  <2>1. SUFFICES ASSUME req'[p].kind = "refresh", phase'[p] = "run" PROVE Refreshed(p)'
    BY DEF Refreshed
  <2>2. CASE Arrive(p)
    <3>1. PICK q \in Request : req'[p] = q /\ FindRefreshed(p, q)
      BY <2>1, <2>2, Arrives
    <3> DEFINE found == Found(q.name)
    <3>2. /\ todo'[p] = <<Ingest(found.name, found.sql), UpdateObject(found)>>
          /\ catalog' = catalog /\ found # NoRow /\ found.type = "source" /\ q.kind = "refresh"
      BY <3>1 DEF FindRefreshed, Plan, Begin, stores, TypeOK
    <3>3. found = catalog[Lower[found.name]]
      <4>1. q.name \in Names
        BY <3>1, <3>2, TouchesFacts
      <4>2. Lower[found.name] = Lower[q.name]
        BY <3>2, <4>1, FoundFacts
      <4> QED BY <4>2 DEF Found
    <3> HIDE DEF found
    <3>4. todo'[p][Len(todo'[p])].row = found
      BY <3>2 DEF UpdateObject
    <3> QED BY <3>2, <3>3, <3>4 DEF Refreshed
  <2>3. CASE FindRenamed(p)
    BY <1>0, <2>1, <2>3 DEF FindRenamed, Run, Shape
  <2>4. CASE ReadSchema(p)
    <3>1. req[p].kind = "sync" /\ (req'[p] = req[p] \/ req'[p] = NoRequest)
      BY <1>0, <2>4 DEF ReadSchema, Return, Run, Shape
    <3> QED BY <2>1, <3>1 DEF NoRequest
  <2>5. CASE Statement(p)
    <3> DEFINE row == todo[p][Len(todo[p])].row
               k == Lower[row.name]
    <3>1. /\ req'[p] = req[p] /\ req[p].kind = "refresh" /\ phase[p] = "run"
          /\ todo'[p][Len(todo'[p])] = todo[p][Len(todo[p])]
      <4>1. /\ UNCHANGED <<req, history>>
            /\ Head(todo[p]).op # "lookup" => todo'[p][Len(todo'[p])] = todo[p][Len(todo[p])]
            /\ Head(todo[p]).op = "lookup" => req[p].kind = "migrate"
        BY <1>0, <2>1, <2>5, RunStep
      <4> QED BY <2>1, <2>5, <4>1, Effect
    <3>2. k \in Keys
      BY <1>0, <3>1, RefreshRuns, PlanTypes, RowFacts, KeyFacts, SMTT(30)
    <3>3. catalog[k] # NoRow /\ catalog[k].type = "source" /\ catalog[k].name = row.name
      BY <1>2, <3>1, SMTT(30) DEF Refreshed
    <3>4. catalog'[k].type = "source" /\ catalog'[k].name = row.name
      BY <1>4, <3>2, <3>3
    <3>5. catalog'[k] # NoRow
      BY <3>4 DEF NoRow
    <3>6. todo'[p][Len(todo'[p])].row = row
      BY <3>1
    <3> HIDE DEF row
    <3> QED BY <3>4, <3>5, <3>6 DEF Refreshed
  <2>6. CASE Fail(p)
    BY <2>1, <2>6 DEF Fail, Return, TypeOK, NoRequest
  <2> QED BY <2>2, <2>3, <2>4, <2>5, <2>6, SMTT(30) DEF Step
<1>7. phase'[o] = "readSchema" => ReadObjects(o)'
  BY <1>0, <1>2, <1>3, ReadObjectsKeeps
<1>8. phase'[o] = "run" => ReadTables(o)'
  BY <1>0, <1>2, <1>3, ReadTablesKeeps
<1> QED BY <1>5, <1>6, <1>7, <1>8

\* An undisturbed sync knows what it reads, and what it leaves.
LEMMA OwnKeepsSync ==
  ASSUME TypeOK, Shapes, Pairs, \A r \in Requests : Knows(r) /\ SyncKnows(r),
         NEW o \in Requests, Step(o), req'[o].kind = "sync", o \notin clashed'
  PROVE  /\ \A r \in Requests : Refreshed(r)'
         /\ phase'[o] = "readSchema" => ReadObjects(o)'
         /\ phase'[o] = "run" => ReadTables(o)'
<1>0. /\ req \in [Requests -> Request \cup {NoRequest}]
      /\ phase \in [Requests -> {"idle", "ok", "findFrom", "readSchema", "run"}]
      /\ \A h \in Requests \ {o} : /\ req'[h] = req[h] /\ phase'[h] = phase[h]
                                   /\ todo'[h] = todo[h] /\ objs'[h] = objs[h]
      /\ \A h \in Requests : Shape(h)
  BY StepForm, LocallyFacts DEF TypeOK, Shapes
<1>1. ASSUME \A r \in Requests \ {o} : Refreshed(r),
             \A k \in Keys : catalog[k].type = "source" => catalog'[k] = catalog[k]
      PROVE  \A r \in Requests : Refreshed(r)'
  <2>1. ASSUME NEW r \in Requests \ {o} PROVE Refreshed(r)'
    BY <1>0, <1>1, RefreshedKeeps
  <2>2. Refreshed(o)'
    BY DEF Refreshed
  <2> QED BY <2>1, <2>2
<1>2. CASE Arrive(o)
  <2>1. PICK q \in Request : Begin(o, q) /\ req'[o] = q /\ FindObjects(o, q)
    BY <1>2, Arrives
  <2>2. /\ q.kind = "sync" /\ catalog' = catalog /\ phase'[o] = "readSchema"
        /\ objs'[o] = {catalog[k] : k \in Keys} \ {NoRow}
    BY <1>0, <2>1 DEF FindObjects, Begin, stores, TypeOK
  <2>3. ASSUME NEW r \in Requests \ {o} PROVE Refreshed(r)
    <3>1. SUFFICES ASSUME req[r].kind = "refresh", phase[r] = "run" PROVE Refreshed(r)
      BY DEF Refreshed
    <3> DEFINE k == Lower[req[r].name]
               last == todo[r][Len(todo[r])]
    <3>2. Touches(req[r]) = {k} /\ k \in Keys /\ Lower[last.row.name] = k
      <4>1. Touches(req[r]) = {k} /\ Lower[last.row.name] = k
        BY <1>0, <3>1, RefreshRuns
      <4>2. Touches(req[r]) \subseteq Keys
        BY <1>0, TouchesFacts
      <4> QED BY <4>1, <4>2
    <3>3. ~ Clash(r, q)
      BY <2>1 DEF Begin
    <3>4. r \notin clashed
      BY <2>2, <3>2, <3>3, TouchesFacts DEF Clash
    <3>5. Known(req[r], todo[r], k, catalog[k], tables[k])
      BY <3>1, <3>2, <3>4 DEF Alone, Knows
    <3>6. catalog[k] # NoRow /\ catalog[k].type = "source" /\ catalog[k].name = last.row.name
      BY <3>1, <3>5 DEF Known
    <3> QED BY <3>2, <3>6, SMTT(30) DEF Refreshed
  <2>4. \A r \in Requests : Refreshed(r)'
    BY <1>1, <2>2, <2>3
  <2>5. ReadObjects(o)'
    <3>1. ASSUME NEW k \in Keys, catalog[k] # NoRow PROVE \E row \in objs'[o] : row.name = catalog[k].name
      BY <2>2, <3>1
    <3>2. ASSUME NEW row \in objs'[o] PROVE row # NoRow /\ catalog[Lower[row.name]] = row
      BY <2>2, RowTypes
    <3> QED BY <2>2, <3>1, <3>2 DEF ReadObjects
  <2> QED BY <2>2, <2>4, <2>5
<1>3. ASSUME ~ Arrive(o)
      PROVE  UNCHANGED <<req, history>> /\ req[o].kind = "sync" /\ o \notin clashed /\ ~ Fail(o)
  <2>1. ~ Idle(o)
    BY <1>3, Zenon DEF Step, FindRenamed, ReadSchema, Statement, RunIngest, RunLookup, RunCreate, RunUpdate,
                RunDelete, RunAlter, RunDrop, Is, Fail, Idle
  <2>2. ~ \E res \in {"ok", "error"} : Return(o, res)
    BY <1>0 DEF Return, NoRequest
  <2>3. UNCHANGED <<req, history>>
    BY <2>1, <2>2, StepForm DEF Begin
  <2> QED BY <2>2, <2>3 DEF Fail, history
<1>4. ASSUME ~ Arrive(o)
      PROVE  /\ \A r \in Requests : Refreshed(r)
             /\ phase[o] = "readSchema" => ReadObjects(o)
             /\ phase[o] = "run" => ReadTables(o)
  BY <1>3, <1>4 DEF SyncKnows
<1>5. CASE ReadSchema(o) /\ ~ Arrive(o)
  <2>1. phase[o] = "readSchema" /\ catalog' = catalog
    BY <1>5 DEF ReadSchema, stores
  <2>2. ReadTables(o)'
    BY <1>4, <1>5, <2>1, ReadSchemaKnows
  <2>3. phase'[o] # "readSchema"
    BY <1>0, <1>5 DEF ReadSchema, Return, Run, Plan
  <2> QED BY <1>1, <1>4, <1>5, <2>1, <2>2, <2>3
<1>6. CASE Statement(o) /\ ~ Arrive(o)
  <2>1. phase[o] = "run"
    BY <1>6, Effect
  <2>2. todo'[o] = Tail(todo[o]) /\ GoOn(o)
    BY <1>0, <1>3, <1>6, SyncGoesOn DEF NoRequest
  <2>3. /\ ReadTables(o)'
        /\ \A k \in Keys : catalog[k].type = "source" => catalog'[k] = catalog[k]
    BY <1>0, <1>3, <1>4, <1>6, <2>1, <2>2, OwnReadTables
  <2>4. phase'[o] # "readSchema"
    BY <1>0, <2>2 DEF GoOn, Return, Run, Plan
  <2> QED BY <1>1, <1>4, <1>6, <2>3, <2>4
<1>7. CASE FindRenamed(o) /\ ~ Arrive(o)
  BY <1>0, <1>3, <1>7 DEF FindRenamed, Shape
<1> QED BY <1>2, <1>3, <1>5, <1>6, <1>7 DEF Step

-----------------------------------------------------------------------------
(* Sources and their tables                                                *)

\* A delete or a rename of the key runs.
Removing(r, k) ==
  /\ k \in Touches(req[r]) /\ phase[r] = "run"
  /\ req[r].kind = "delete" \/ (req[r].kind = "migrate" /\ req[r].from # None)

\* Of what runs alone, only a delete or a rename leaves a source without a
\* table, and not by its last statement.
LEMMA OwnTables ==
  ASSUME TypeOK, NEW r \in Requests, Shape(r), Knows(r), Statement(r), req[r].kind # "sync",
         NEW k \in Keys, Alone(r, k), catalog'[k].type = "source", tables'[k] = NoTable
  PROVE  Removing(r, k) /\ Len(todo[r]) # 1
<1> DEFINE q == req[r]
           s == todo[r]
           c == catalog[k]
           t == tables[k]
<1>0. /\ s \in Seq(Statements) /\ PlanShape(q, s) /\ q \in Request \cup {NoRequest} /\ phase[r] = "run"
      /\ Known(q, s, k, c, t) /\ k \in Touches(q) /\ q.kind # "sync"
  <2>1. phase[r] = "run"
    BY Effect
  <2> QED BY <2>1 DEF TypeOK, Shape, Knows, Alone
<1>1. NoRow.type # "source"
  BY DEF NoRow
<1>2. /\ Head(s).op \in {"ingest", "lookup", "alter", "drop", "dropIfExists"} => catalog'[k] = c
      /\ Head(s).op \in {"lookup", "create", "update", "delete"} => tables'[k] = t
  BY EffectAt
<1>3. Head(s).op = "ingest" => tables'[k] = IF k = Lower[Head(s).name] THEN [name |-> Head(s).name, data |-> Head(s).data]
                                            ELSE t
  BY IngestEffect
<1>4. Head(s).op = "delete" => (k = Lower[Head(s).name] /\ HasName(Head(s).name) => catalog'[k] = NoRow)
  <2>1. Head(s).op = "delete" => RunDelete(r)
    BY ZenonT(60) DEF Statement, RunIngest, RunLookup, RunCreate, RunUpdate, RunDelete, RunAlter, RunDrop, Is
  <2> QED BY <2>1 DEF RunDelete, TypeOK
<1>5. Head(s).op = "alter" => /\ k = Lower[Head(s).to] =>
                                   tables'[k] = [name |-> Head(s).to, data |-> tables[Lower[Head(s).name]].data]
  BY EffectAt, ZenonT(60)
<1>6. Head(s).op = "dropIfExists" => (k # Lower[Head(s).name] => tables'[k] = t)
  <2>1. Head(s).op = "dropIfExists" => RunDrop(r)
    BY Zenon DEF Statement, RunIngest, RunLookup, RunCreate, RunUpdate, RunDelete, RunAlter, RunDrop, Is
  <2> QED BY <2>1 DEF RunDrop, TypeOK
<1>7. tables'[k] = NoTable /\ catalog'[k].type = "source"
  OBVIOUS
<1>8. \A n, d : d \in Data => [name |-> n, data |-> d] # NoTable
  BY KeyFacts DEF NoTable
<1> DEFINE last == s[Len(s)]
<1> HIDE DEF q, s, c, t
<1>9. CASE q.kind = "delete"
  <2>1. k = Lower[q.name]
    BY <1>0, <1>9, TouchesFacts
  <2>2. last.op = "delete" /\ Lower[last.name] = Lower[q.name] /\ Head(s) = s[1]
    BY <1>0, <1>9, PlanOps
  <2>3. c # NoRow /\ c.name = last.name
    BY <1>0, <1>9 DEF Known
  <2>4. HasName(last.name)
    BY <2>1, <2>2, <2>3 DEF HasName, HasKey, c
  <2>5. Len(s) # 1
    <3>1. ASSUME Len(s) = 1 PROVE FALSE
      <4>1. Head(s) = last
        BY <2>2, <3>1
      <4> QED BY <1>1, <1>4, <1>7, <2>1, <2>2, <2>4, <4>1
    <3> QED BY <3>1
  <2> QED BY <1>0, <1>9, <2>5 DEF Removing, q, s
<1>10. CASE q.kind = "refresh"
  <2>1. k = Lower[q.name]
    BY <1>0, <1>10, TouchesFacts
  <2>2. /\ Len(s) \in 1..2 /\ Head(s) = s[1] /\ last.op = "update" /\ last.row \in SourceRows
        /\ Lower[last.row.name] = Lower[q.name]
        /\ Len(s) = 2 => s[1].op = "ingest" /\ s[1].name = last.row.name /\ s[1].data = last.row.sql
    BY <1>0, <1>10, PlanOps
  <2>3. CASE Len(s) = 1
    <3>1. t # NoTable
      BY <1>0, <1>10, <2>3 DEF Known
    <3>2. tables'[k] = t
      BY <1>2, <2>2, <2>3
    <3> QED BY <1>7, <3>1, <3>2
  <2>4. CASE Len(s) = 2
    <3>1. tables'[k] = [name |-> last.row.name, data |-> last.row.sql]
      BY <1>3, <2>1, <2>2, <2>4
    <3>2. last.row.sql \in Data
      BY <2>2 DEF SourceRows, Data
    <3> QED BY <1>7, <1>8, <3>1, <3>2
  <2> QED BY <2>2, <2>3, <2>4
<1>11. CASE q.kind = "migrate" /\ q.from = None
  <2>1. k = Lower[q.name] /\ q.props \in Data
    BY <1>0, <1>11, TouchesFacts DEF Data
  <2>2. /\ Len(s) \in 1..3 /\ Head(s) = s[1] /\ last.op \in {"create", "update"}
        /\ Len(s) = 2 => s[1].op = "lookup"
        /\ Len(s) = 3 => s[1].op = "ingest" /\ s[1].name = q.name /\ s[1].data = q.props
    BY <1>0, <1>11, PlanOps
  <2>3. Len(s) < 3 => t = [name |-> q.name, data |-> q.props]
    BY <1>0, <1>11, <2>1, <2>2 DEF Known
  <2>4. tables'[k] = [name |-> q.name, data |-> q.props]
    <3>1. CASE Len(s) = 1
      BY <1>2, <2>2, <2>3, <3>1
    <3>2. CASE Len(s) = 2
      BY <1>2, <2>2, <2>3, <3>2
    <3>3. CASE Len(s) = 3
      BY <1>3, <2>1, <2>2, <3>3
    <3> QED BY <2>2, <3>1, <3>2, <3>3
  <2> QED BY <1>7, <1>8, <2>1, <2>4
<1>12. CASE q.kind = "migrate" /\ q.from # None
  <2> DEFINE m == Lower[q.name]
             f == Lower[q.from]
  <2>1. k \in {m, f} /\ q.props \in Data
    BY <1>0, <1>12, TouchesFacts DEF Data
  <2>2. Len(s) # 1
    <3>1. SUFFICES ASSUME Len(s) = 1 PROVE FALSE
      OBVIOUS
    <3>2. /\ Head(s) = last /\ last.op \in {"alter", "dropIfExists"} /\ Lower[last.name] = f
          /\ last.op = "alter" => last.to = q.name
      BY <1>0, <1>12, <3>1, PlanOps
    <3>3. /\ k = m /\ last.op # "alter" => t = [name |-> q.name, data |-> q.props]
          /\ k = f => k # m /\ c = NoRow
      BY <1>0, <1>12, <3>1, <3>2 DEF Known
    <3>4. k # f
      BY <1>1, <1>2, <1>7, <3>2, <3>3
    <3>5. last.op # "alter"
      <4>1. ASSUME last.op = "alter" PROVE FALSE
        <5>1. tables'[k] = [name |-> Head(s).to, data |-> tables[Lower[Head(s).name]].data]
          BY <1>5, <2>1, <3>2, <3>4, <4>1
        <5>2. tables[Lower[Head(s).name]].data \in Data
          <6>1. tables[Lower[Head(s).name]] # NoTable /\ Lower[Head(s).name] \in Keys
            <7>1. RunAlter(r)
              BY <3>2, <4>1, Zenon DEF Statement, RunIngest, RunLookup, RunCreate, RunUpdate, RunDelete, RunAlter,
                                RunDrop, Is, s
            <7>2. last.name \in Names
              BY <1>0, <1>12, PlanOps
            <7> QED BY <3>2, <7>1, <7>2, KeyFacts DEF RunAlter, s
          <6> QED BY <6>1 DEF TypeOK
        <5> QED BY <1>7, <1>8, <5>1, <5>2
      <4> QED BY <4>1
    <3>6. tables'[k] = t
      BY <1>6, <3>2, <3>4, <3>5
    <3> QED BY <1>7, <1>8, <2>1, <3>3, <3>4, <3>5, <3>6
  <2> QED BY <1>0, <1>12, <2>2 DEF Removing, q, s
<1>13. q.kind \in {"delete", "refresh", "migrate"}
  BY <1>0 DEF PlanShape
<1> QED BY <1>9, <1>10, <1>11, <1>12, <1>13

\* A sync does not touch tables, and writes objects of tables only.
LEMMA SyncTablesStay ==
  ASSUME TypeOK, NEW r \in Requests, Shape(r), Statement(r), req[r].kind = "sync",
         NEW k \in Keys, catalog'[k].type = "source"
  PROVE  catalog'[k] = catalog[k] /\ tables'[k] = tables[k]
<1> DEFINE x == Head(todo[r])
<1>1. x \in SyncStatements
  BY Effect, HeadKeys
<1>2. /\ x.op \in {"create", "update", "delete"}
      /\ x.op \in {"create", "update"} => x.row.type = "table"
  BY <1>1 DEF SyncStatements, TableRows
<1>3. tables'[k] = tables[k]
  BY <1>2, EffectAt
<1>4. \/ catalog'[k] = catalog[k] \/ catalog'[k] = NoRow
      \/ x.op \in {"create", "update"} /\ catalog'[k] = x.row
  BY <1>2, EffectAt
<1> QED BY <1>2, <1>3, <1>4 DEF NoRow

LEMMA SourceStays ==
  ASSUME TypeOK, SourceHasTable, Shapes, Pairs, NEW r \in Requests, Knows(r), Step(r)
  PROVE  SourceHasTable'
<1>0. /\ req \in [Requests -> Request \cup {NoRequest}]
      /\ \A o \in Requests \ {r} : req'[o] = req[o] /\ phase'[o] = phase[o]
      /\ Shape(r)
  BY StepForm, LocallyFacts DEF TypeOK, Shapes
<1>1. SUFFICES ASSUME NEW k \in Keys, catalog'[k] # NoRow, catalog'[k].type = "source", tables'[k] = NoTable,
                      k \notin troubled'
               PROVE  \E o \in Requests :
                        /\ k \in Touches(req'[o]) /\ phase'[o] = "run"
                        /\ req'[o].kind = "delete" \/ (req'[o].kind = "migrate" /\ req'[o].from # None)
  BY DEF SourceHasTable
<1>2. ASSUME catalog[k] = catalog'[k], tables[k] = tables'[k]
      PROVE  k \in troubled \/ \E o \in Requests : Removing(o, k)
  BY <1>1, <1>2 DEF SourceHasTable, Removing
<1>3. k \notin troubled \/ (k \in Touches(req[r]) /\ r \notin clashed /\ req[r].kind # "sync")
  BY <1>1, History
<1>4. ASSUME NEW o \in Requests \ {r}, Removing(o, k)
      PROVE  \E h \in Requests :
               /\ k \in Touches(req'[h]) /\ phase'[h] = "run"
               /\ req'[h].kind = "delete" \/ (req'[h].kind = "migrate" /\ req'[h].from # None)
  BY <1>0, <1>4 DEF Removing
<1>5. ASSUME Return(r, "error") PROVE troubled' = troubled \cup Interrupted(r, "error")
  BY <1>5 DEF Return, Repaired
<1>6. CASE ~ Statement(r)
  <2>1. k \in troubled \/ \E o \in Requests : Removing(o, k)
    BY <1>2, <1>6, OnlyStatements DEF stores
  <2>2. k \notin troubled
    <3>1. SUFFICES ASSUME k \in troubled PROVE FALSE
      OBVIOUS
    <3>2. CASE Arrive(r)
      BY <1>1, <3>1, <3>2, Arrives DEF Begin
    <3>3. CASE FindRenamed(r)
      BY <1>1, <3>1, <3>3 DEF FindRenamed, Run, history
    <3>4. CASE ReadSchema(r)
      BY <1>0, <1>3, <3>1, <3>4 DEF ReadSchema, Shape
    <3>5. CASE Fail(r)
      BY <1>1, <1>5, <3>1, <3>5 DEF Fail
    <3> QED BY <1>6, <3>2, <3>3, <3>4, <3>5 DEF Step
  <2>3. ~ Removing(r, k)
    <3>1. SUFFICES ASSUME Removing(r, k) PROVE FALSE
      OBVIOUS
    <3>2. Fail(r)
      <4>1. phase[r] = "run"
        BY <3>1 DEF Removing
      <4>2. ~ Arrive(r)
        BY <4>1, Arrives DEF Idle
      <4> QED BY <1>6, <4>1, <4>2 DEF Step, FindRenamed, ReadSchema
    <3> QED BY <1>1, <1>5, <3>1, <3>2 DEF Fail, Interrupted, Removing
  <2> QED BY <1>4, <2>1, <2>2, <2>3
<1>7. CASE Statement(r) /\ (k \notin Touches(req[r]) \/ req[r].kind = "sync")
  <2>1. catalog[k] = catalog'[k] /\ tables[k] = tables'[k]
    BY <1>0, <1>1, <1>7, OwnKeys, SyncTablesStay
  <2>2. ~ Removing(r, k)
    BY <1>7 DEF Removing
  <2> QED BY <1>2, <1>3, <1>4, <1>7, <2>1, <2>2
<1>8. CASE Statement(r) /\ k \in Touches(req[r]) /\ req[r].kind # "sync"
  <2>1. Alone(r, k)
    BY <1>3, <1>8 DEF Alone
  <2>2. Removing(r, k) /\ Len(todo[r]) # 1
    BY <1>0, <1>1, <1>8, <2>1, OwnTables
  <2>3. ~ Return(r, "error")
    BY <1>1, <1>5, <2>2 DEF Interrupted, Removing
  <2>4. Tail(todo[r]) # <<>>
    <3>1. todo[r] \in Seq(Statements) /\ todo[r] # <<>>
      BY <1>8, Effect DEF TypeOK
    <3>2. /\ Len(Tail(todo[r])) = Len(todo[r]) - 1 /\ Len(todo[r]) \in Nat
          /\ Tail(todo[r]) \in Seq(Statements)
      BY <3>1, HeadTailProperties, LenProperties
    <3>3. Len(todo[r]) # 1
      BY <2>2
    <3>4. Len(Tail(todo[r])) # 0
      BY <3>2, <3>3
    <3> QED BY <3>2, <3>4, EmptySeq
  <2>5. \E s : Run(r, s)
    BY <1>8, <2>3, <2>4, Zenon DEF Statement, RunIngest, RunLookup, RunCreate, RunUpdate, RunDelete, RunAlter, RunDrop, GoOn
  <2>6. phase'[r] = "run" /\ req'[r] = req[r]
    BY <2>5 DEF Run, Plan, TypeOK
  <2> QED BY <2>2, <2>6 DEF Removing
<1> QED BY <1>6, <1>7, <1>8

-----------------------------------------------------------------------------
(* The invariant                                                           *)

LEMMA InitInv == Init => IInv
<1> SUFFICES ASSUME Init PROVE IInv
  OBVIOUS
<1>1. /\ \A k \in Keys : catalog[k] = NoRow /\ tables[k] = NoTable
      /\ \A r \in Requests : /\ req[r] = NoRequest /\ phase[r] = "idle" /\ todo[r] = <<>> /\ objs[r] = {}
                             /\ r \notin clashed
  BY DEF Init
<1>2. TypeOK
  BY BoundsAssumption DEF Init, TypeOK
<1>3. SourceHasTable
  BY <1>1 DEF SourceHasTable
<1>4. Shapes
  BY <1>1 DEF Shapes, Shape, Idle
<1>5. \A r \in Requests : Touches(req[r]) = {} /\ req[r].kind = "none"
  BY <1>1, TouchesFacts DEF NoRequest
<1>6. Pairs
  BY <1>5 DEF Pairs, Overlap
<1>7. \A r \in Requests : Knows(r) /\ SyncKnows(r)
  BY <1>5 DEF Knows, SyncKnows, Alone
<1> QED BY <1>2, <1>3, <1>4, <1>6, <1>7 DEF IInv

LEMMA Inductive == IInv /\ [Next]_vars => IInv'
<1> SUFFICES ASSUME IInv, [Next]_vars PROVE IInv'
  OBVIOUS
<1>0. /\ TypeOK /\ SourceHasTable /\ Shapes /\ Pairs
      /\ \A r \in Requests : Knows(r) /\ SyncKnows(r)
  BY DEF IInv
<1>1. TypeOK' /\ Shapes'
  BY <1>0, TypeStep
<1>2. ASSUME NEW r \in Requests, Step(r) PROVE IInv'
  <2>1. Pairs'
    BY <1>0, <1>2, PairStep
  <2>2. SourceHasTable'
    BY <1>0, <1>2, SourceStays
  <2>3. ASSUME NEW o \in Requests PROVE Knows(o)'
    <3>1. CASE o = r
      BY <1>0, <1>2, <3>1, OwnKnows DEF Shapes
    <3>2. CASE o # r
      BY <1>0, <1>2, <3>2, OthersKnow
    <3> QED BY <3>1, <3>2
  <2>4. ASSUME NEW o \in Requests PROVE SyncKnows(o)'
    <3>1. ASSUME req'[o].kind = "sync", o \notin clashed'
          PROVE  /\ \A h \in Requests : Refreshed(h)'
                 /\ phase'[o] = "readSchema" => ReadObjects(o)'
                 /\ phase'[o] = "run" => ReadTables(o)'
      <4>1. CASE o = r
        BY <1>0, <1>2, <3>1, <4>1, OwnKeepsSync
      <4>2. CASE o # r
        BY <1>0, <1>1, <1>2, <3>1, <4>2, OthersKeepSync
      <4> QED BY <4>1, <4>2
    <3>2. ASSUME req'[o].kind = "sync", NEW h \in Requests, NEW k \in Keys,
                 req'[h].kind = "refresh", Alone(h, k)'
          PROVE  Spares(o, k)'
      BY <1>0, <1>2, <3>2, SpareStep
    <3> QED BY <3>1, <3>2 DEF SyncKnows
  <2> QED BY <1>1, <2>1, <2>2, <2>3, <2>4 DEF IInv
<1>3. ASSUME NEW n \in Names, NEW d \in Foreign \cup {None}, ForeignChange(n, d) PROVE IInv'
  <2>1. Pairs' /\ SourceHasTable' /\ \A r \in Requests : Knows(r)' /\ SyncKnows(r)'
    BY <1>0, <1>3, ForeignStep
  <2> QED BY <1>1, <2>1 DEF IInv
<1>4. CASE UNCHANGED vars
  <2>1. SourceHasTable' /\ Pairs'
    BY <1>0, <1>4 DEF vars, stores, history, SourceHasTable, Pairs, Overlap
  <2>2. ASSUME NEW r \in Requests PROVE Knows(r)'
    BY <1>0, <1>4 DEF vars, stores, history, Knows, Alone
  <2>3. ASSUME NEW o \in Requests PROVE SyncKnows(o)'
    <3>1. (ReadObjects(o) => ReadObjects(o)') /\ (ReadTables(o) => ReadTables(o)')
      BY <1>4, ZenonT(60) DEF vars, stores, ReadObjects, ReadTables, Writes, InTables
    <3>2. ASSUME NEW r \in Requests PROVE Refreshed(r) => Refreshed(r)'
      BY <1>4 DEF vars, stores, Refreshed
    <3>3. ASSUME NEW k \in Keys PROVE Spares(o, k) => Spares(o, k)'
      BY <1>4 DEF vars, Spares
    <3>4. ASSUME NEW r \in Requests, NEW k \in Keys PROVE Alone(r, k)' => Alone(r, k)
      BY <1>4 DEF vars, history, Alone
    <3>5. SyncKnows(o) /\ UNCHANGED <<req, phase, clashed>>
      BY <1>0, <1>4 DEF vars, history
    <3> QED BY <3>1, <3>2, <3>3, <3>4, <3>5 DEF SyncKnows
  <2> QED BY <1>1, <2>1, <2>2, <2>3 DEF IInv
<1> QED BY <1>2, <1>3, <1>4 DEF Next, Step

LEMMA Invariance == Spec => []IInv
BY InitInv, Inductive, PTL DEF Spec

\* Types, and every object and every table stands under the lower-case form of
\* its own name, whatever requests, failures and foreign clients do.
THEOREM TypeCorrect == Spec => []TypeOK
<1>1. IInv => TypeOK
  BY DEF IInv
<1> QED BY <1>1, Invariance, PTL

\* No failing creation, replacement, refresh or sync leaves a source whose
\* table is missing (migrations.go:205-243).
THEOREM SourcesHaveTables == Spec => []SourceHasTable
<1>1. IInv => SourceHasTable
  BY DEF IInv
<1> QED BY <1>1, Invariance, PTL

-----------------------------------------------------------------------------
(* What a request leaves                                                   *)

\* A request succeeds with its last statement, or with a sync that has nothing
\* to do.
LEMMA Success ==
  ASSUME IInv, Next, NEW r \in Requests, Succeeds(r)
  PROVE  \/ ReadSchema(r) /\ req[r].kind = "sync" /\ phase[r] = "readSchema"
         \/ Statement(r) /\ Len(todo[r]) = 1 /\ Tail(todo[r]) = <<>>
<1>0. TypeOK /\ Shape(r) /\ ~ Idle(r) /\ phase'[r] = "ok" /\ phase[r] # "ok"
  BY DEF IInv, Shapes, Succeeds, Idle
<1>1. Step(r)
  <2>1. ASSUME NEW o \in Requests \ {r}, Step(o) PROVE FALSE
    BY <1>0, <2>1, StepForm, LocallyFacts
  <2>2. ASSUME NEW n \in Names, NEW d \in Foreign \cup {None}, ForeignChange(n, d) PROVE FALSE
    BY <1>0, <2>2 DEF ForeignChange
  <2> QED BY <2>1, <2>2 DEF Next, Step
<1>2. ASSUME NEW s, Run(r, s) PROVE FALSE
  BY <1>0, <1>2 DEF Run, Plan, TypeOK
<1>3. ~ Return(r, "error")
  BY <1>0 DEF Return, TypeOK
<1>4. ~ Arrive(r) /\ ~ FindRenamed(r) /\ ~ Fail(r)
  BY <1>0, <1>2, <1>3, Arrives DEF FindRenamed, Fail
<1>5. CASE ReadSchema(r)
  BY <1>0, <1>5, ZenonT(60) DEF ReadSchema, Shape
<1>6. CASE Statement(r)
  <2>1. Tail(todo[r]) = <<>>
    BY <1>2, <1>3, <1>6, Zenon DEF Statement, RunIngest, RunLookup, RunCreate, RunUpdate, RunDelete, RunAlter, RunDrop, GoOn
  <2>2. todo[r] \in Seq(Statements) /\ todo[r] # <<>>
    BY <1>0, <1>6, Effect DEF TypeOK
  <2>3. Len(Tail(todo[r])) = Len(todo[r]) - 1 /\ Len(todo[r]) \in Nat /\ Tail(todo[r]) \in Seq(Statements)
    BY <2>2, HeadTailProperties, LenProperties
  <2>4. Len(Tail(todo[r])) = 0
    BY <2>1, <2>3, EmptySeq
  <2> QED BY <1>6, <2>1, <2>3, <2>4
<1> QED BY <1>1, <1>4, <1>5, <1>6 DEF Step

\* What single statements do, by the names they are about.
LEMMA Effects ==
  ASSUME TypeOK, NEW r \in Requests, Statement(r)
  PROVE  LET x == Head(todo[r]) IN
         /\ x.op = "create" /\ Lower[x.row.name] \in Keys =>
              catalog'[Lower[x.row.name]] = x.row /\ tables' = tables
         /\ x.op = "update" /\ HasName(x.row.name) /\ Lower[x.row.name] \in Keys =>
              catalog'[Lower[x.row.name]] = x.row
         /\ x.op = "update" => tables' = tables
         /\ x.op = "delete" /\ HasName(x.name) /\ Lower[x.name] \in Keys => catalog'[Lower[x.name]] = NoRow
         /\ x.op = "delete" => tables' = tables
         /\ x.op \in {"alter", "drop", "dropIfExists"} => catalog' = catalog
         /\ x.op = "alter" /\ Lower[x.to] \in Keys /\ Lower[x.name] \in Keys =>
              /\ tables'[Lower[x.to]] = [name |-> x.to, data |-> tables[Lower[x.name]].data]
              /\ tables[Lower[x.name]] # NoTable
              /\ Lower[x.name] # Lower[x.to] => tables'[Lower[x.name]] = NoTable
         /\ x.op \in {"drop", "dropIfExists"} /\ Lower[x.name] \in Keys =>
              /\ tables'[Lower[x.name]] = NoTable
              /\ \A k \in Keys \ {Lower[x.name]} : tables'[k] = tables[k]
<1> DEFINE x == Head(todo[r])
<1>1. /\ x.op = "create" => RunCreate(r)
      /\ x.op = "update" => RunUpdate(r)
      /\ x.op = "delete" => RunDelete(r)
      /\ x.op = "alter" => RunAlter(r)
      /\ x.op \in {"drop", "dropIfExists"} => RunDrop(r)
  BY Zenon DEF Statement, RunIngest, RunLookup, RunCreate, RunUpdate, RunDelete, RunAlter, RunDrop, Is
<1>2. /\ catalog = [k \in Keys |-> catalog[k]] /\ tables = [k \in Keys |-> tables[k]]
      /\ \A n \in Names : Lower[n] \in Keys
  BY KeyFacts, SMTT(30) DEF TypeOK
<1>3. CASE x.op = "create"
  BY <1>1, <1>2, <1>3, SMTT(30) DEF RunCreate
<1>4. CASE x.op = "update"
  BY <1>1, <1>2, <1>4, SMTT(30) DEF RunUpdate
<1>5. CASE x.op = "delete"
  BY <1>1, <1>2, <1>5, SMTT(30) DEF RunDelete
<1>6. CASE x.op = "alter"
  BY <1>1, <1>2, <1>6, SMTT(30) DEF RunAlter
<1>7. CASE x.op \in {"drop", "dropIfExists"}
  BY <1>1, <1>2, <1>7 DEF RunDrop
<1> QED BY <1>3, <1>4, <1>5, <1>6, <1>7, ZenonT(60)

\* The last statement of a request that was alone leaves what it asks for.
LEMMA LastStatement ==
  ASSUME TypeOK, NEW r \in Requests, Shape(r), Knows(r), Statement(r), Len(todo[r]) = 1,
         r \notin clashed, req[r].kind # "sync", SameSpelling(r)
  PROVE  Agreed(req[r], Head(todo[r]).op = "alter", catalog', tables')
<1> DEFINE q == req[r]
           s == todo[r]
           x == Head(s)
<1>0. /\ s \in Seq(Statements) /\ PlanShape(q, s) /\ q \in Request \cup {NoRequest} /\ q.kind # "sync"
      /\ x = s[Len(s)]
  <2>1. phase[r] = "run" /\ s \in Seq(Statements) /\ PlanShape(q, s)
    BY Effect DEF TypeOK, Shape
  <2>2. Head(s) = s[1]
    BY <2>1, PlanOps
  <2> QED BY <2>1, <2>2 DEF TypeOK
<1>1. ASSUME NEW k \in Touches(q)
      PROVE  k \in Keys /\ Known(q, s, k, catalog[k], tables[k])
  <2>1. k \in Keys /\ phase[r] = "run"
    BY <1>0, <1>1, TouchesFacts, Effect
  <2> QED BY <1>1, <2>1 DEF Knows, Alone
<1>2. CASE q.kind = "delete"
  <2> DEFINE k == Lower[q.name]
  <2>1. k \in Touches(q)
    BY <1>0, <1>2, TouchesFacts
  <2>2. x.op = "delete" /\ Lower[x.name] = k
    BY <1>0, <1>2, PlanOps
  <2>3. catalog[k] # NoRow /\ catalog[k].name = x.name /\ tables[k] = NoTable /\ k \in Keys
    BY <1>0, <1>1, <1>2, <2>1 DEF Known
  <2>4. HasName(x.name)
    BY <2>2, <2>3 DEF HasName, HasKey
  <2>5. catalog'[k] = NoRow /\ tables'[k] = NoTable
    BY <2>2, <2>3, <2>4, Effects, Zenon
  <2> QED BY <1>2, <2>5 DEF Agreed
<1>3. CASE q.kind = "refresh"
  <2> DEFINE k == Lower[q.name]
  <2>1. k \in Touches(q)
    BY <1>0, <1>3, TouchesFacts
  <2>2. x.op = "update" /\ Lower[x.row.name] = k
    BY <1>0, <1>3, PlanOps
  <2>3. catalog[k] # NoRow /\ catalog[k].name = x.row.name /\ tables[k].data = x.row.sql /\ k \in Keys
    BY <1>0, <1>1, <1>3, <2>1 DEF Known
  <2>4. HasName(x.row.name)
    BY <2>2, <2>3 DEF HasName, HasKey
  <2>5. catalog'[k] = x.row /\ tables'[k] = tables[k]
    BY <2>2, <2>3, <2>4, Effects, Zenon
  <2> QED BY <1>3, <2>3, <2>5 DEF Agreed
<1>4. CASE q.kind = "migrate" /\ q.from = None
  <2> DEFINE k == Lower[q.name]
  <2>1. k \in Touches(q) /\ q.props \in Data
    BY <1>0, <1>4, TouchesFacts DEF Data
  <2>2. /\ x.op \in {"create", "update"} /\ x.row \in SourceRows /\ x.row.name = q.name /\ x.row.sql = q.props
    BY <1>0, <1>4, PlanOps
  <2>3. /\ k \in Keys /\ tables[k] = [name |-> q.name, data |-> q.props]
        /\ x.op = "update" => catalog[k] # NoRow
    BY <1>0, <1>1, <1>4, <2>1, <2>2 DEF Known
  <2>4. x.op = "update" => HasName(x.row.name)
    BY <1>4, <2>2, <2>3 DEF SameSpelling, Replaces, HasKey
  <2>5. catalog'[k] = x.row /\ tables'[k] = tables[k]
    <3> HIDE DEF s
    <3>1. CASE x.op = "create"
      BY <2>2, <2>3, <3>1, Effects, ZenonT(60) DEF s
    <3>2. CASE x.op = "update"
      BY <2>2, <2>3, <2>4, <3>2, Effects, Zenon DEF s
    <3> QED BY <2>2, <3>1, <3>2
  <2>6. x.row # NoRow /\ x.row.type = "source"
    BY <2>2, RowFacts DEF SourceRows
  <2>7. tables[k] # NoTable
    BY <2>1, <2>3, KeyFacts DEF NoTable
  <2> QED BY <1>4, <2>2, <2>3, <2>5, <2>6, <2>7 DEF Agreed
<1>5. CASE q.kind = "migrate" /\ q.from # None
  <2> DEFINE m == Lower[q.name]
             f == Lower[q.from]
  <2>1. m \in Touches(q) /\ f \in Touches(q) /\ q.props \in Data /\ q.name \in Names
    BY <1>0, <1>5, TouchesFacts DEF Data
  <2>2. /\ x.op \in {"alter", "dropIfExists"} /\ Lower[x.name] = f
        /\ x.op = "alter" => x.to = q.name
    BY <1>0, <1>5, PlanOps
  <2>3. /\ m \in Keys /\ IsSource(catalog[m], q.props)
        /\ x.op # "alter" => tables[m] = [name |-> q.name, data |-> q.props]
    BY <1>0, <1>1, <1>5, <2>1 DEF Known
  <2>4. f \in Keys /\ f # m /\ catalog[f] = NoRow
    BY <1>0, <1>1, <1>5, <2>1, SMTT(30) DEF Known
  <2>5. catalog' = catalog
    BY <2>2, Effects
  <2>6. CASE x.op = "alter"
    <3>1. tables'[m] = [name |-> q.name, data |-> tables[f].data] /\ tables[f] # NoTable /\ tables'[f] = NoTable
      BY <2>2, <2>3, <2>4, <2>6, Effects, ZenonT(60)
    <3>2. tables[f].data \in Data
      BY <2>4, <3>1 DEF TypeOK
    <3>3. tables'[m] # NoTable /\ tables'[m].name = q.name
      BY <3>1, <3>2, KeyFacts DEF NoTable
    <3> QED BY <1>5, <2>3, <2>4, <2>5, <2>6, <3>1, <3>3 DEF Agreed, IsSource
  <2>7. CASE x.op = "dropIfExists"
    <3>1. tables'[m] = [name |-> q.name, data |-> q.props] /\ tables'[f] = NoTable
      BY <2>2, <2>3, <2>4, <2>7, Effects, Zenon
    <3>2. tables'[m] # NoTable /\ tables'[m].name = q.name /\ tables'[m].data = q.props
      BY <2>1, <3>1, KeyFacts DEF NoTable
    <3> QED BY <1>5, <2>3, <2>4, <2>5, <2>7, <3>1, <3>2 DEF Agreed, IsSource
  <2> QED BY <2>2, <2>6, <2>7
<1>6. q.kind \in {"delete", "refresh", "migrate"}
  BY <1>0 DEF PlanShape
<1> QED BY <1>2, <1>3, <1>4, <1>5, <1>6

\* A sync that has nothing left to do has made catalog and tables agree.
LEMMA NothingToDo ==
  ASSUME TypeOK', NEW o \in Requests, ReadTables(o)', todo'[o] = <<>>,
         NEW q, q.kind = "sync", NEW pureRename
  PROVE  Agreed(q, pureRename, catalog', tables')
<1>1. \A y : ~ WritesAfter(o, y)
  BY DEF WritesAfter
<1>2. ASSUME NEW k \in Keys
      PROVE  LET c == catalog'[k]  t == tables'[k] IN
             /\ t # NoTable => c # NoRow
             /\ t # NoTable /\ c # NoRow /\ c.type = "table" => t.data = c.schema
             /\ c # NoRow /\ c.type = "table" => t # NoTable
  BY <1>1 DEF ReadTables, Writes, WritesAfter
<1>3. ASSUME NEW k \in Keys
      PROVE  /\ tables'[k] # NoTable => catalog'[k] # NoRow
             /\ catalog'[k] # NoRow /\ catalog'[k].type = "table" =>
                  tables'[k] # NoTable /\ tables'[k].data = catalog'[k].schema
  BY <1>2
<1> QED BY <1>3 DEF Agreed

\* A request that overlaps no other one for its names, and succeeds, leaves
\* object and table as it asks for (migrations.go:87, catalog.go:72).
THEOREM Effective == Spec => TakesEffect
<1>1. ASSUME IInv, Next, NEW r \in Requests, Succeeds(r), SameSpelling(r)
      PROVE  Agreed(req[r], phase[r] = "run" /\ Head(todo[r]).op = "alter", catalog', tables')
  <2>0. /\ TypeOK /\ Shape(r) /\ Knows(r) /\ SyncKnows(r) /\ r \notin clashed
        /\ phase'[r] = "ok" /\ TypeOK'
    <3>1. [Next]_vars
      BY <1>1
    <3>2. IInv'
      BY <1>1, <3>1, Inductive
    <3> QED BY <1>1, <3>2 DEF IInv, Shapes, Succeeds
  <2>1. todo'[r] = <<>>
    <3>1. TypeOK'
      BY <2>0
    <3> QED BY <2>0, <3>1 DEF TypeOK
  <2>2. CASE ReadSchema(r) /\ req[r].kind = "sync" /\ phase[r] = "readSchema"
    <3>1. ReadTables(r)'
      BY <2>0, <2>2, ReadSchemaKnows DEF SyncKnows
    <3> QED BY <2>0, <2>1, <2>2, <3>1, NothingToDo
  <2>3. CASE Statement(r) /\ Len(todo[r]) = 1 /\ Tail(todo[r]) = <<>>
    <3>1. phase[r] = "run"
      BY <2>0, <2>3, Effect
    <3>2. CASE req[r].kind = "sync"
      <4>1. ReadTables(r)'
        BY <2>0, <2>1, <2>3, <3>1, <3>2, OwnReadTables DEF SyncKnows
      <4> QED BY <2>0, <2>1, <3>2, <4>1, NothingToDo
    <3>3. CASE req[r].kind # "sync"
      <4>1. Agreed(req[r], Head(todo[r]).op = "alter", catalog', tables')
        BY <1>1, <2>0, <2>3, <3>3, LastStatement
      <4>2. (phase[r] = "run" /\ Head(todo[r]).op = "alter") = (Head(todo[r]).op = "alter")
        BY <3>1
      <4> QED BY <4>1, <4>2
    <3> QED BY <3>2, <3>3
  <2> QED BY <1>1, <2>2, <2>3, Success
<1>2. IInv /\ [Next]_vars =>
        [\A r \in Requests : Succeeds(r) /\ SameSpelling(r) =>
           Agreed(req[r], phase[r] = "run" /\ Head(todo[r]).op = "alter", catalog', tables')]_vars
  BY <1>1
<1> QED BY <1>2, Invariance, PTL DEF Spec, TakesEffect

\* A rename that overlaps no other request removes the old table only when the
\* new name has its object and its table (migrations.go:205-243).
THEOREM RenameLosesNothing == Spec => NothingLost
<1>1. ASSUME IInv, Next, NEW r \in Requests, NEW k \in Keys,
             phase[r] = "run", todo'[r] # todo[r], r \notin clashed,
             req[r].kind = "migrate", tables[k] # NoTable, tables'[k] = NoTable
      PROVE  catalog'[Lower[req[r].name]] # NoRow /\ tables'[Lower[req[r].name]] # NoTable
  <2> DEFINE q == req[r]
             s == todo[r]
             x == Head(s)
             m == Lower[q.name]
             f == Lower[q.from]
  <2>0. TypeOK /\ Shape(r) /\ Knows(r) /\ q \in Request \cup {NoRequest} /\ s \in Seq(Statements) /\ PlanShape(q, s)
    BY <1>1 DEF IInv, Shapes, Shape, TypeOK
  <2>1. Step(r)
    <3>1. ASSUME NEW o \in Requests \ {r}, Step(o) PROVE FALSE
      BY <1>1, <2>0, <3>1, StepForm, LocallyFacts
    <3>2. ASSUME NEW n \in Names, NEW d \in Foreign \cup {None}, ForeignChange(n, d) PROVE FALSE
      BY <1>1, <3>2 DEF ForeignChange
    <3> QED BY <1>1, <3>1, <3>2 DEF Next, Step
  <2>2. Statement(r)
    <3>1. ~ Statement(r) => tables' = tables
      BY <2>1, OnlyStatements DEF stores
    <3> QED BY <1>1, <3>1
  <2>3. x \in Statements /\ x.op \notin {"lookup", "create", "update", "delete"}
    <3>1. x.op \in {"lookup", "create", "update", "delete"} => tables' = tables
      BY <2>0, <2>2, Effect
    <3> QED BY <1>1, <2>0, <2>2, <3>1, Effect
  <2>4. x.op # "ingest"
    <3>1. x.op = "ingest" => tables'[k] = IF k = Lower[x.name] THEN [name |-> x.name, data |-> x.data] ELSE tables[k]
      BY <2>0, <2>2, IngestEffect
    <3>2. x.op = "ingest" => x.data \in Props
      BY <2>3, StatementFacts
    <3> HIDE DEF x
    <3> QED BY <1>1, <3>1, <3>2, DataAssumption DEF NoTable
  <2>5. q.from # None /\ Len(s) = 1
    <3>1. ASSUME q.from = None PROVE FALSE
      <4>1. Len(s) \in 1..3 /\ Head(s) = s[1]
        BY <1>1, <2>0, <3>1, PlanOps
      <4>2. /\ Len(s) = 1 => x.op \in {"create", "update"}
            /\ Len(s) = 2 => x.op = "lookup"
            /\ Len(s) = 3 => x.op = "ingest"
        BY <1>1, <2>0, <3>1, PlanOps
      <4> QED BY <2>3, <2>4, <4>1, <4>2
    <3>2. ASSUME q.from # None, Len(s) # 1 PROVE FALSE
      <4>1. Len(s) \in 1..5 /\ Head(s) = s[1]
        BY <1>1, <2>0, <3>2, PlanOps
      <4>2. /\ Len(s) = 2 => x.op = "delete"
            /\ Len(s) = 3 => x.op = "create"
            /\ Len(s) = 4 => x.op = "lookup"
            /\ Len(s) = 5 => x.op = "ingest"
        BY <1>1, <2>0, <3>2, <4>1, PlanOps
      <4> QED BY <2>3, <2>4, <3>2, <4>1, <4>2
    <3> QED BY <3>1, <3>2
  <2>6. /\ x.op \in {"alter", "dropIfExists"} /\ Lower[x.name] = f /\ (x.op = "alter" => x.to = q.name)
        /\ x = s[Len(s)]
    BY <1>1, <2>0, <2>5, PlanOps
  <2>7. m \in Touches(q) /\ f \in Touches(q) /\ m \in Keys /\ f \in Keys /\ q.props \in Data
    BY <1>1, <2>0, <2>5, TouchesFacts DEF Data
  <2>8. Known(q, s, m, catalog[m], tables[m]) /\ Known(q, s, f, catalog[f], tables[f])
    BY <1>1, <2>0, <2>7 DEF Knows, Alone
  <2>9. /\ IsSource(catalog[m], q.props) /\ f # m
        /\ x.op # "alter" => tables[m] = [name |-> q.name, data |-> q.props]
    BY <1>1, <2>5, <2>6, <2>8, SMTT(30) DEF Known
  <2>10. catalog' = catalog
    BY <2>0, <2>2, <2>6, Effects
  <2>11. CASE x.op = "alter"
    <3>1. tables'[m] = [name |-> q.name, data |-> tables[f].data] /\ tables[f] # NoTable
      BY <2>0, <2>2, <2>6, <2>7, <2>11, Effects, Zenon
    <3>2. tables[f].data \in Data
      BY <2>0, <2>7, <3>1 DEF TypeOK
    <3>3. tables'[m] # NoTable
      BY <3>1, <3>2, KeyFacts DEF NoTable
    <3> QED BY <2>9, <2>10, <3>3 DEF IsSource
  <2>12. CASE x.op = "dropIfExists"
    <3>1. tables'[m] = [name |-> q.name, data |-> q.props]
      BY <2>0, <2>2, <2>6, <2>7, <2>9, <2>12, Effects, Zenon
    <3>2. tables'[m] # NoTable
      BY <2>7, <3>1, KeyFacts DEF NoTable
    <3> QED BY <2>9, <2>10, <3>2 DEF IsSource
  <2> QED BY <2>6, <2>11, <2>12
<1>2. IInv /\ [Next]_vars =>
        [\A r \in Requests, k \in Keys :
           /\ phase[r] = "run" /\ todo'[r] # todo[r] /\ r \notin clashed
           /\ req[r].kind = "migrate" /\ tables[k] # NoTable /\ tables'[k] = NoTable
           => catalog'[Lower[req[r].name]] # NoRow /\ tables'[Lower[req[r].name]] # NoTable]_vars
  BY <1>1
<1> QED BY <1>2, Invariance, PTL DEF Spec, NothingLost
=============================================================================
