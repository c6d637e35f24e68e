-------------------------- MODULE CatalogMigration --------------------------
(***************************************************************************)
(* runtime/server/migrations.go and catalog.go over the embedded catalog   *)
(* of runtime/drivers/duckdb: requests that create, replace, rename,       *)
(* delete and refresh sources, and the sync of the catalog with the tables *)
(* of the database.                                                        *)
(*                                                                         *)
(* The catalog and the tables are two stores.  A handler looks objects up, *)
(* decides what to do and then runs one statement after the other; no      *)
(* transaction or lock spans two of them, so requests interleave between   *)
(* any two statements, and a statement that fails, or a request that is    *)
(* cancelled, leaves what the earlier ones did.                            *)
(*                                                                         *)
(* Names keep their letter case.  DuckDB's tables and the catalog's unique *)
(* index ignore it, FindObject does too, and UPDATE, DELETE and Lookup     *)
(* compare the exact name.                                                 *)
(***************************************************************************)
EXTENDS Integers, Sequences, SequencesExt, FiniteSets

CONSTANTS
  Requests,       \* bound: how many requests run at a time
  MaxArrivals,    \* bound: how many requests arrive
  MaxForeign,     \* bound: how often another client changes a table
  Names,          \* names of sources and tables
  Lower,          \* [Names -> Names], the lower-case form of a name
  Props,          \* properties of sources, which stand for the data they read
  Foreign,        \* contents of tables that are not sources
  None

ASSUME NamesAssumption ==
  /\ Lower \in [Names -> Names]
  /\ \A n \in Names : Lower[Lower[n]] = Lower[n]
  /\ IsFiniteSet(Names) /\ None \notin Names
ASSUME DataAssumption == Props \cap Foreign = {} /\ None \notin Props \cup Foreign
ASSUME BoundsAssumption == MaxArrivals \in Nat /\ MaxForeign \in Nat

Keys == {Lower[n] : n \in Names}
Data == Props \cup Foreign
NoRow == [type |-> "none"]
NoTable == [data |-> None]

VARIABLES
  catalog,     \* rill.catalog by lower-case name
  tables,      \* the tables of schema main by lower-case name
  req,         \* the request each handler works for
  phase,       \* where each handler is
  todo,        \* the statements it still has to run
  objs,        \* the objects a sync has read
  arrived, foreign,  \* how many requests and foreign changes there were
  clashed,     \* handlers whose request overlapped one for the same name
  troubled     \* keys that an interrupted delete or rename, or a clash, touched

stores == <<catalog, tables>>
history == <<arrived, foreign, clashed, troubled>>
vars == <<catalog, tables, req, phase, todo, objs, history>>

-----------------------------------------------------------------------------
(* Objects, statements and requests                                        *)

Source(n, p) == [name |-> n, type |-> "source", sql |-> p, schema |-> None]
Table(n, d) == [name |-> n, type |-> "table", sql |-> None, schema |-> d]
SourceRows == [name : Names, type : {"source"}, sql : Props, schema : Data \cup {None}]
TableRows == [name : Names, type : {"table"}, sql : {None}, schema : Data]
Rows == SourceRows \cup TableRows

Ingest(n, p) == [op |-> "ingest", name |-> n, data |-> p]
Lookup(n) == [op |-> "lookup", name |-> n]
CreateObject(row) == [op |-> "create", row |-> row]
UpdateObject(row) == [op |-> "update", row |-> row]
DeleteObject(n) == [op |-> "delete", name |-> n]
Alter(n, to) == [op |-> "alter", name |-> n, to |-> to]
Drop(n) == [op |-> "drop", name |-> n]
DropIfExists(n) == [op |-> "dropIfExists", name |-> n]

Statements ==
  [op : {"ingest"}, name : Names, data : Props] \cup
  [op : {"lookup", "delete", "drop", "dropIfExists"}, name : Names] \cup
  [op : {"create", "update"}, row : Rows] \cup
  [op : {"alter"}, name : Names, to : Names]

Request ==
  [kind : {"migrate"}, name : Names, props : Props, from : Names \cup {None}] \cup
  [kind : {"delete", "refresh"}, name : Names] \cup [kind : {"sync"}]
NoRequest == [kind |-> "none"]

\* The keys a request is about.
Touches(q) ==
  CASE q.kind = "migrate" -> {Lower[n] : n \in {q.name, q.from} \ {None}}
    [] q.kind = "sync" -> Keys
    [] q.kind = "none" -> {}
    [] OTHER -> {Lower[q.name]}
\* A new request for names that o works for.  A sync leaves sources alone, and a
\* refresh all else: they do not clash, if what the first has read still holds.
Clash(o, q) ==
  /\ Touches(req[o]) \cap Touches(q) # {}
  /\ {req[o].kind, q.kind} = {"sync", "refresh"} => o \in clashed

Init ==
  /\ catalog = [k \in Keys |-> NoRow]
  /\ tables = [k \in Keys |-> NoTable]
  /\ req = [r \in Requests |-> NoRequest]
  /\ phase = [r \in Requests |-> "idle"]
  /\ todo = [r \in Requests |-> <<>>]
  /\ objs = [r \in Requests |-> {}]
  /\ arrived = 0 /\ foreign = 0 /\ clashed = {} /\ troubled = {}

\* A handler that works for no request; "ok" if its last one succeeded.
Idle(r) == phase[r] \in {"idle", "ok"}

\* A request arrives and makes its first lookup, which fixes whether it
\* overlaps others.  One that is refused by it changes nothing, like a dry run.
Begin(r, q) ==
  LET others == {o \in Requests \ {r} : Clash(o, q)} IN
  /\ Idle(r) /\ arrived < MaxArrivals
  /\ arrived' = arrived + 1
  /\ req' = [req EXCEPT ![r] = q]
  /\ clashed' = clashed \cup others \cup (IF others # {} THEN {r} ELSE {})
  /\ troubled' = troubled \cup UNION {Touches(req[o]) \cap Touches(q) : o \in others}
  /\ UNCHANGED <<stores, foreign>>

-----------------------------------------------------------------------------
(* How a handler goes on                                                   *)

\* A delete or a rename that ends in an error after it has begun.
Interrupted(r, res) ==
  IF res = "error" /\ phase[r] = "run" /\
     (req[r].kind = "delete" \/ (req[r].kind = "migrate" /\ req[r].from # None))
  THEN Touches(req[r]) ELSE {}
\* What succeeds on its own repairs its names.
Repaired(r, res) ==
  IF res = "ok" /\ r \notin clashed /\ req[r].kind # "sync" THEN Touches(req[r]) ELSE {}

Return(r, res) ==
  /\ req' = [req EXCEPT ![r] = NoRequest]
  /\ phase' = [phase EXCEPT ![r] = IF res = "ok" THEN "ok" ELSE "idle"]
  /\ todo' = [todo EXCEPT ![r] = <<>>]
  /\ objs' = [objs EXCEPT ![r] = {}]
  /\ clashed' = clashed \ {r}
  /\ troubled' = (troubled \cup Interrupted(r, res)) \ Repaired(r, res)
  /\ UNCHANGED <<arrived, foreign>>

\* The handler runs these statements next.
Plan(r, statements) ==
  /\ phase' = [phase EXCEPT ![r] = "run"]
  /\ todo' = [todo EXCEPT ![r] = statements]
  /\ objs' = [objs EXCEPT ![r] = {}]
Run(r, statements) == Plan(r, statements) /\ UNCHANGED <<req, history>>

\* A lookup, a statement or the context fails before it has any effect.
Fail(r) ==
  /\ ~ Idle(r)
  /\ Return(r, "error")
  /\ UNCHANGED stores

-----------------------------------------------------------------------------
(* Lookups and decisions                                                   *)

\* FindObject: WHERE LOWER(name) = ?
Found(n) == catalog[Lower[n]]

CreatePlan_mutEarly(q) ==
  <<CreateObject(Source(q.name, q.props)), Ingest(q.name, q.props)>>
CreatePlan(q) == <<Ingest(q.name, q.props), Lookup(q.name), CreateObject(Source(q.name, q.props))>>
ReplacePlan(q) == <<Ingest(q.name, q.props), Lookup(q.name), UpdateObject(Source(q.name, q.props))>>
RenamePlan_mutDropFirst(q, old) ==
  IF q.props = old.sql
  THEN <<CreateObject(Source(q.name, q.props)), DeleteObject(old.name), Alter(old.name, q.name)>>
  ELSE <<DropIfExists(old.name)>> \o CreatePlan(q) \o <<DeleteObject(old.name)>>
RenamePlan_mutNoDelete(q, old) ==
  IF q.props = old.sql
  THEN <<CreateObject(Source(q.name, q.props)), Alter(old.name, q.name)>>
  ELSE CreatePlan(q) \o <<DeleteObject(old.name), DropIfExists(old.name)>>
RenamePlan(q, old) ==
  IF q.props = old.sql
  THEN <<CreateObject(Source(q.name, q.props)), DeleteObject(old.name), Alter(old.name, q.name)>>
  ELSE CreatePlan(q) \o <<DeleteObject(old.name), DropIfExists(old.name)>>

FindExisting(r, q, replace) ==
  LET found == Found(q.name) IN
  /\ Begin(r, q)
  /\ q.kind = "migrate"
  /\ found # NoRow => replace /\ found.type = "source" /\ q.from = None
  /\ IF q.from # None
     THEN phase' = [phase EXCEPT ![r] = "findFrom"] /\ UNCHANGED <<todo, objs>>
     ELSE Plan(r, IF found = NoRow THEN CreatePlan(q) ELSE ReplacePlan(q))

FindRenamed(r) ==
  LET found == Found(req[r].from) IN
  /\ phase[r] = "findFrom"
  /\ found # NoRow /\ found.type = "source"
  /\ Run(r, RenamePlan(req[r], found))
  /\ UNCHANGED stores

FindDeleted(r, q) ==
  LET found == Found(q.name) IN
  /\ Begin(r, q)
  /\ q.kind = "delete"
  /\ found # NoRow /\ found.type = "source"
  /\ Plan(r, <<Drop(found.name), DeleteObject(found.name)>>)

FindRefreshed(r, q) ==
  LET found == Found(q.name) IN
  /\ Begin(r, q)
  /\ q.kind = "refresh"
  /\ found # NoRow /\ found.type = "source"
  /\ Plan(r, <<Ingest(found.name, found.sql), UpdateObject(found)>>)

\* TriggerSync reads the whole catalog ...
FindObjects(r, q) ==
  /\ Begin(r, q)
  /\ q.kind = "sync"
  /\ objs' = [objs EXCEPT ![r] = {catalog[k] : k \in Keys} \ {NoRow}]
  /\ phase' = [phase EXCEPT ![r] = "readSchema"]
  /\ UNCHANGED todo

\* ... then the information schema, and compares the two by exact name.
SyncTables(os, ts) ==
  {CreateObject(Table(t.name, t.data)) : t \in {t \in ts : \A o \in os : o.name # t.name}} \cup
  {UpdateObject(Table(t.name, t.data)) :
     t \in {t \in ts : \E o \in os : o.name = t.name /\ o.type = "table" /\ o.schema # t.data}}
SyncRemoved(os, ts) ==
  {DeleteObject(o.name) : o \in {o \in os : o.type = "table" /\ \A t \in ts : t.name # o.name}}

ReadSchema(r) ==
  LET ts == {tables[k] : k \in Keys} \ {NoTable} IN
  /\ phase[r] = "readSchema"
  /\ \E s1 \in SetToSeqs(SyncTables(objs[r], ts)), s2 \in SetToSeqs(SyncRemoved(objs[r], ts)) :
       IF s1 \o s2 = <<>> THEN Return(r, "ok") ELSE Run(r, s1 \o s2)
  /\ UNCHANGED stores

-----------------------------------------------------------------------------
(* Statements                                                              *)

\* The statement was the last one, there are others, or the error comes after
\* its effect: the answer is lost when the context is cancelled.
GoOn(r) ==
  \/ IF Tail(todo[r]) = <<>> THEN Return(r, "ok") ELSE Run(r, Tail(todo[r]))
  \/ Return(r, "error")

Is(r, op) == phase[r] = "run" /\ Head(todo[r]).op = op

\* CREATE OR REPLACE TABLE
RunIngest(r) ==
  LET s == Head(todo[r]) IN
  /\ Is(r, "ingest")
  /\ tables' = [tables EXCEPT ![Lower[s.name]] = [name |-> s.name, data |-> s.data]]
  /\ UNCHANGED catalog
  /\ GoOn(r)

\* The schema of the new table goes into the object that is written next.
RunLookup(r) ==
  LET s == Head(todo[r])  t == tables[Lower[s.name]]
      rest == Tail(todo[r]) IN
  /\ Is(r, "lookup")
  /\ t # NoTable /\ t.name = s.name
  /\ Run(r, [rest EXCEPT ![1].row.schema = t.data])
  /\ UNCHANGED stores

\* INSERT, which the unique index on lower(name) refuses for a name that is there.
RunCreate(r) ==
  LET row == Head(todo[r]).row IN
  /\ Is(r, "create")
  /\ catalog[Lower[row.name]] = NoRow
  /\ catalog' = [catalog EXCEPT ![Lower[row.name]] = row]
  /\ UNCHANGED tables
  /\ GoOn(r)

HasKey(n) == catalog[Lower[n]] # NoRow
HasName(n) == HasKey(n) /\ catalog[Lower[n]].name = n

\* UPDATE and DELETE ... WHERE name = ?
RunUpdate(r) ==
  LET row == Head(todo[r]).row IN
  /\ Is(r, "update")
  /\ catalog' = IF HasName(row.name) THEN [catalog EXCEPT ![Lower[row.name]] = row] ELSE catalog
  /\ UNCHANGED tables
  /\ GoOn(r)

RunDelete(r) ==
  LET n == Head(todo[r]).name IN
  /\ Is(r, "delete")
  /\ catalog' = IF HasName(n) THEN [catalog EXCEPT ![Lower[n]] = NoRow] ELSE catalog
  /\ UNCHANGED tables
  /\ GoOn(r)

RunAlter_mutOldName(r) ==
  LET s == Head(todo[r]) IN
  /\ Is(r, "alter")
  /\ tables[Lower[s.name]] # NoTable /\ tables[Lower[s.to]] = NoTable
  /\ tables' = [tables EXCEPT ![Lower[s.name]] = NoTable,
                              ![Lower[s.to]] = tables[Lower[s.name]]]
  /\ UNCHANGED catalog
  /\ GoOn(r)
RunAlter(r) ==
  LET s == Head(todo[r]) IN
  /\ Is(r, "alter")
  /\ tables[Lower[s.name]] # NoTable /\ tables[Lower[s.to]] = NoTable
  /\ tables' = [tables EXCEPT ![Lower[s.name]] = NoTable,
                              ![Lower[s.to]] = [name |-> s.to, data |-> tables[Lower[s.name]].data]]
  /\ UNCHANGED catalog
  /\ GoOn(r)

RunDrop(r) ==
  LET s == Head(todo[r]) IN
  /\ \/ Is(r, "dropIfExists")
     \/ Is(r, "drop") /\ tables[Lower[s.name]] # NoTable
  /\ tables' = [tables EXCEPT ![Lower[s.name]] = NoTable]
  /\ UNCHANGED catalog
  /\ GoOn(r)

\* Another client creates a table, or changes or drops one that is not a source's.
ForeignChange(n, d) ==
  LET k == Lower[n]
      near == {r \in Requests : k \in Touches(req[r])} IN
  /\ foreign < MaxForeign
  /\ tables[k] = NoTable => d # None
  /\ tables[k].data \notin Props /\ tables[k].data # d
  /\ tables[k] # NoTable => catalog[k].type # "source"
  /\ tables' = [tables EXCEPT ![k] = IF d = None THEN NoTable ELSE [name |-> n, data |-> d]]
  /\ foreign' = foreign + 1
  /\ clashed' = clashed \cup near
  /\ troubled' = IF near # {} THEN troubled \cup {k} ELSE troubled
  /\ UNCHANGED <<catalog, req, phase, todo, objs, arrived>>

Arrive(r) ==
  \E q \in Request :
    \/ \E replace \in BOOLEAN : FindExisting(r, q, replace)
    \/ FindDeleted(r, q) \/ FindRefreshed(r, q) \/ FindObjects(r, q)

Statement(r) ==
  \/ RunIngest(r) \/ RunLookup(r) \/ RunCreate(r) \/ RunUpdate(r) \/ RunDelete(r)
  \/ RunAlter(r) \/ RunDrop(r)

Next ==
  \/ \E r \in Requests :
       Arrive(r) \/ FindRenamed(r) \/ ReadSchema(r) \/ Statement(r) \/ Fail(r)
  \/ \E n \in Names, d \in Foreign \cup {None} : ForeignChange(n, d)

Spec == Init /\ [][Next]_vars

-----------------------------------------------------------------------------
(* Properties                                                              *)

\* Types, and each object and table stands under its own lower-case name.
TypeOK ==
  /\ catalog \in [Keys -> Rows \cup {NoRow}]
  /\ tables \in [Keys -> [name : Names, data : Data] \cup {NoTable}]
  /\ \A k \in Keys : /\ catalog[k] # NoRow => Lower[catalog[k].name] = k
                     /\ tables[k] # NoTable => Lower[tables[k].name] = k
  /\ req \in [Requests -> Request \cup {NoRequest}]
  /\ phase \in [Requests -> {"idle", "ok", "findFrom", "readSchema", "run"}]
  /\ todo \in [Requests -> Seq(Statements)] /\ objs \in [Requests -> SUBSET Rows]
  /\ \A r \in Requests : todo[r] # <<>> <=> phase[r] = "run"
  /\ arrived \in 0..MaxArrivals /\ foreign \in 0..MaxForeign
  /\ clashed \subseteq Requests /\ troubled \subseteq Keys

\* What a request leaves that has run to its end: c and t are the catalog and
\* the tables after it, found is the object that had its name.
Agreed(q, pureRename, c, t) ==
  CASE q.kind = "migrate" ->
         LET k == Lower[q.name] IN
         /\ c[k] # NoRow /\ c[k].type = "source" /\ c[k].sql = q.props
         /\ t[k] # NoTable /\ t[k].name = q.name /\ (t[k].data = q.props \/ pureRename)
         /\ q.from # None => c[Lower[q.from]] = NoRow /\ t[Lower[q.from]] = NoTable
    [] q.kind = "delete" -> c[Lower[q.name]] = NoRow /\ t[Lower[q.name]] = NoTable
    [] q.kind = "refresh" -> c[Lower[q.name]].sql = t[Lower[q.name]].data
    [] q.kind = "sync" -> \A k \in Keys :
         /\ t[k] # NoTable => c[k] # NoRow
         /\ c[k] # NoRow /\ c[k].type = "table" => t[k] # NoTable /\ t[k].data = c[k].schema

\* The request of r runs to its end in this step, and overlapped none for its names.
Succeeds(r) == ~ Idle(r) /\ phase'[r] = "ok" /\ r \notin clashed
Replaces(r) == req[r].kind = "migrate" /\ HasKey(req[r].name)
SameSpelling(r) == Replaces(r) => HasName(req[r].name)

\* Whatever earlier requests left half done, a request that overlaps no other
\* one for its names and succeeds leaves object and table as it asks for
\* (migrations.go:87, catalog.go:72).  That it can succeed is not claimed: a delete
\* that was interrupted after its table had gone fails when it is sent again.  A
\* replacement spelt unlike its object is left out, see ReplacementRecorded.
TakesEffect ==
  [][\A r \in Requests : Succeeds(r) /\ SameSpelling(r) =>
       Agreed(req[r], phase[r] = "run" /\ Head(todo[r]).op = "alter", catalog', tables')]_vars

\* A rename removes the old table only when the new name has its object and the
\* table stays under it or has been ingested: a rename that fails at any
\* statement loses no data (migrations.go:205-243).
NothingLost ==
  [][\A r \in Requests, k \in Keys :
       /\ phase[r] = "run" /\ todo'[r] # todo[r] /\ r \notin clashed
       /\ req[r].kind = "migrate" /\ tables[k] # NoTable /\ tables'[k] = NoTable
       => catalog'[Lower[req[r].name]] # NoRow /\ tables'[Lower[req[r].name]] # NoTable]_vars

\* A source has a table, unless a delete or a rename of its name is under way
\* or was interrupted, or requests for it clashed: no failing creation,
\* replacement, refresh or sync leaves an object whose table is missing.
SourceHasTable ==
  \A k \in Keys :
    catalog[k] # NoRow /\ catalog[k].type = "source" /\ tables[k] = NoTable =>
      \/ k \in troubled
      \/ \E r \in Requests :
           /\ k \in Touches(req[r]) /\ phase[r] = "run"
           /\ req[r].kind = "delete" \/ (req[r].kind = "migrate" /\ req[r].from # None)

\* A replacement that succeeds is recorded: the object of the name has its SQL
\* (catalog.go:23 of the DuckDB driver: "the checks should be case-insensitive").
ReplacementRecorded ==
  [][\A r \in Requests : Succeeds(r) /\ Replaces(r) =>
       catalog'[Lower[req[r].name]].sql = req[r].props]_vars
=============================================================================
