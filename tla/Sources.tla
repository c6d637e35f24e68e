------------------------------- MODULE Sources -------------------------------
(***************************************************************************)
(* The sources of the node server: web-local/src/common/connection/        *)
(* DuckDbConnection.ts polls the runtime for its sources every 500 ms and  *)
(* makes the table entities follow them, through data-modeler-service/     *)
(* TableActions.ts, which imports, profiles, renames and drops them.       *)
(*                                                                         *)
(* Nothing keeps a poll from starting while an earlier one runs, and the   *)
(* user interface calls the same actions.  A call is suspended while the   *)
(* runtime answers, while a database action of its own waits in the action *)
(* queue (module ActionQueue) or runs, or while its last state update      *)
(* waits to be applied; between two suspensions it runs alone (`Calm').    *)
(*                                                                         *)
(* The jobs of one profile run in the order of their queue entry, and      *)
(* getDestinationSize and getFirstNOfTable stand under                     *)
(* getCardinalityOfTable.  Jobs of different calls run one at a time in    *)
(* any order.  Batched updates (module BatchedState) are applied at once.  *)
(***************************************************************************)
EXTENDS Integers, SequencesExt

CONSTANTS
  Polls,      \* bound: how many polls overlap
  UI,         \* the call the user interface is waiting for
  Names,      \* names of sources
  Contents,   \* what a table holds: pairs of a row count and columns
  First,      \* the source that the server starts with, and what it holds
  None,
  MaxChanges  \* bound: how often the runtime and the user interface act

ASSUME CallersAssumption == UI \notin Polls /\ IsFiniteSet(Polls)
ASSUME ValuesAssumption ==
  /\ First \in Names \X Contents
  /\ None \notin Names /\ None \notin Contents
ASSUME MaxChangesAssumption == MaxChanges \in Nat

Callers == Polls \cup {UI}

VARIABLES
  sources,   \* names of the sources in the runtime's catalog
  data,      \* DuckDB's tables: what each name holds
  tables,    \* persistent entities; `to' is previousTableName
  derived,   \* derived entities; rows and cols are their profile
  call,      \* where each call is
  changes,
  misfired   \* a removal missed one of the two entities of a source, which
             \* was not there any more or had another name

runtime == <<sources, data>>
entities == <<tables, derived>>
vars == <<runtime, entities, call, changes, misfired>>

Entity(id, n) == [id |-> id, name |-> n, to |-> None]
NoProfile == [rows |-> None, cols |-> None]
Derived(id, status) == [id |-> id, status |-> status, profile |-> NoProfile]
ProfileOf(c) == [rows |-> c[1], cols |-> c[2]]
NoCall == [at |-> "idle", job |-> "none", cats |-> {}, todo |-> <<>>, adding |-> FALSE,
           id |-> 0, name |-> None, cols |-> None, content |-> None, original |-> None]

\* The server after its first poll, which found one source.
Init ==
  /\ sources = {First[1]}
  /\ data = [n \in Names |-> IF n = First[1] THEN First[2] ELSE None]
  /\ tables = <<Entity(1, First[1])>>
  /\ derived = <<[Derived(1, "Idle") EXCEPT !.profile = ProfileOf(First[2])]>>
  /\ call = [c \in Callers |-> NoCall]
  /\ changes = 0 /\ misfired = FALSE

-----------------------------------------------------------------------------
(* Entity states and the queue                                             *)

Ids(s) == {s[i].id : i \in DOMAIN s}
\* getById, and getByField("tableName", n): the first that is found.
ById(s, id) == s[CHOOSE i \in DOMAIN s : s[i].id = id]
Taken(n) == \E i \in DOMAIN tables : tables[i].name = n
Named(n) == tables[CHOOSE i \in DOMAIN tables :
                     tables[i].name = n /\ \A j \in 1..(i - 1) : tables[j].name # n]

\* updateEntityField; it throws if there is no such entity.
WithStatus(s, id, status) ==
  [i \in DOMAIN s |-> IF s[i].id = id THEN [s[i] EXCEPT !.status = status] ELSE s[i]]
Renamed(id, n, to) ==
  [i \in DOMAIN tables |-> IF tables[i].id = id THEN [tables[i] EXCEPT !.name = n, !.to = to]
                           ELSE tables[i]]

\* deleteEntity of a store: findIndex and splice, and splice(-1, 1) removes
\* the last entity when there is none with this id.
Without(s, id) ==
  IF id \in Ids(s) THEN RemoveAt(s, CHOOSE i \in DOMAIN s : s[i].id = id)
  ELSE IF s = <<>> THEN s ELSE Front(s)

\* A guid.
Used == Ids(tables) \cup Ids(derived)
        \cup UNION {{call[c].id} \cup Ids(call[c].todo) : c \in Callers}
NewId == CHOOSE i \in 1..(Cardinality(Used) + 1) : i \notin Used

\* clearQueue and clearColumnProfilePriority: waiting jobs are cancelled.
Cleared(calls, id) ==
  [c \in Callers |-> IF calls[c].id = id /\ calls[c].job = "waits"
                     THEN [calls[c] EXCEPT !.job = "cancelled"] ELSE calls[c]]

\* No call can go on: the event loop takes the next event.
Calm == \A c \in Callers : call[c].at # "loop" /\ call[c].job # "cancelled"

-----------------------------------------------------------------------------
(* How a call goes on                                                      *)

\* The action a poll has dispatched has returned or thrown, and the poll goes
\* on with the next source; a call of the user interface is over.
Over(c, r) == IF c \in Polls THEN [NoCall EXCEPT !.at = "loop", !.cats = r.cats, !.todo = r.todo]
              ELSE NoCall
Ends(c) == call' = [call EXCEPT ![c] = Over(c, @)]

\* The call puts its next job into the queue.
NextJob(c, at) == call' = [call EXCEPT ![c].at = at, ![c].job = "waits"]

\* collectTableInfo up to its first job, for the entities `ts' and `ds'.  It
\* returns if there is no persistent entity, and setEntityStatus throws if
\* there is no derived one.
CollectTableInfo(c, id, ts, ds, calls) ==
  IF id \in Ids(ts) \cap Ids(ds)
  THEN /\ derived' = WithStatus(ds, id, "Profiling")
       /\ call' = [Cleared(calls, id) EXCEPT ![c] =
            [@ EXCEPT !.at = "profileCols", !.job = "waits", !.id = id, !.name = ById(ts, id).name]]
  ELSE /\ derived' = WithStatus(ds, id, "Idle")
       /\ call' = [calls EXCEPT ![c] = Over(c, @)]

\* The end of collectTableInfo: the ResetStateToIdle decorator, which then
\* waits for the updates.
StatusAfter_mutKept == "Profiling"
StatusAfter == "Idle"
EndProfile(c) ==
  /\ derived' = WithStatus(derived, call[c].id, StatusAfter)
  /\ call' = [call EXCEPT ![c] = IF @.id \in Ids(derived)
                                 THEN [@ EXCEPT !.at = "wait", !.job = "none"] ELSE Over(c, @)]

\* dropTable and deleteEntity: the first entity of this name goes.
DropTable_mutPersistent(n, calls) ==
  IF ~Taken(n) THEN call' = calls /\ UNCHANGED <<entities, misfired>>
  ELSE /\ call' = Cleared(calls, Named(n).id)
       /\ tables' = Without(tables, Named(n).id)
       /\ UNCHANGED <<derived, misfired>>
DropTable(n, calls) ==
  IF ~Taken(n) THEN call' = calls /\ UNCHANGED <<entities, misfired>>
  ELSE LET id == Named(n).id IN
       /\ call' = Cleared(calls, id)
       /\ tables' = Without(tables, id)
       /\ derived' = Without(derived, id)
       /\ misfired' = (misfired \/ id \notin Ids(derived))

-----------------------------------------------------------------------------
(* A poll                                                                  *)

\* setInterval has called sync, and the runtime lists its sources for it.  (A
\* poll that the runtime fails to answer ends without a change.)
ListCatalogObjects(p) ==
  /\ call[p].at = "idle"
  /\ call' = [call EXCEPT ![p].at = "answered", ![p].cats = sources]
  /\ UNCHANGED <<runtime, entities, changes, misfired>>

\* The entities the loop goes over are those of this moment.
ReceiveCatalog_mutLast(p) ==
  /\ Calm /\ call[p].at = "answered"
  /\ call' = [call EXCEPT ![p].at = "loop", ![p].todo = IF tables = <<>> THEN tables ELSE Front(tables)]
  /\ UNCHANGED <<runtime, entities, changes, misfired>>
ReceiveCatalog(p) ==
  /\ Calm /\ call[p].at = "answered"
  /\ call' = [call EXCEPT ![p].at = "loop", ![p].todo = tables]
  /\ UNCHANGED <<runtime, entities, changes, misfired>>

Looping(p) == call[p].at = "loop" /\ UNCHANGED <<runtime, changes>>
AtEntity(p) == Looping(p) /\ call[p].todo # <<>>
At(p) == Head(call[p].todo)
\* The poll with n taken from its map and the entity from its list.
Passed(p, n) == [call EXCEPT ![p].todo = Tail(@), ![p].cats = @ \ {n}]
RenameDone(p) == At(p).to # None /\ At(p).to \in call[p].cats

\* "here we get confirmation that rename finished"; it throws, and the poll is
\* over, if the entity is gone.
ConfirmRename(p) ==
  /\ AtEntity(p) /\ RenameDone(p)
  /\ tables' = Renamed(At(p).id, At(p).to, None)
  /\ call' = IF At(p).id \in Ids(tables) THEN Passed(p, At(p).to)
             ELSE [call EXCEPT ![p] = NoCall]
  /\ UNCHANGED <<derived, misfired>>

DropAbsent(p) ==
  /\ AtEntity(p) /\ ~RenameDone(p) /\ At(p).name \notin call[p].cats
  /\ DropTable(At(p).name, Passed(p, At(p).name))

\* syncTable up to its first job.
Skipped(id) == id \notin Ids(tables) \cap Ids(derived) \/ ById(derived, id).status = "Profiling"
SyncTable(p) ==
  /\ AtEntity(p) /\ ~RenameDone(p) /\ At(p).name \in call[p].cats
  /\ LET id == At(p).id IN
     call' = IF Skipped(id) THEN Passed(p, At(p).name)
             ELSE [Passed(p, At(p).name) EXCEPT ![p] =
                     [@ EXCEPT !.at = "syncRows", !.job = "waits", !.id = id,
                               !.name = ById(tables, id).name]]
  /\ UNCHANGED <<entities, misfired>>

\* addOrSyncTableFromDB for a source without an entity, or one that has got
\* one meanwhile, and collectTableInfo, which replaces its status Importing in
\* the same tick.
AddOrSync(p, n) ==
  LET isNew == ~Taken(n)
      id    == IF isNew THEN NewId ELSE Named(n).id
      ts    == IF isNew THEN Append(tables, Entity(id, n)) ELSE tables
  IN  /\ Looping(p) /\ call[p].todo = <<>> /\ n \in call[p].cats
      /\ tables' = ts
      /\ CollectTableInfo(p, id, ts, IF isNew THEN Append(derived, Derived(id, "Importing")) ELSE derived,
                          [call EXCEPT ![p].cats = @ \ {n}, ![p].adding = TRUE])
      /\ UNCHANGED misfired

EndPoll(p) ==
  /\ Looping(p) /\ call[p].todo = <<>> /\ call[p].cats = {}
  /\ call' = [call EXCEPT ![p] = NoCall]
  /\ UNCHANGED <<entities, misfired>>

-----------------------------------------------------------------------------
(* Jobs                                                                    *)

RunJob(c) ==
  /\ Calm /\ call[c].job = "waits" /\ \A o \in Callers : call[o].job # "runs"
  /\ call' = [call EXCEPT ![c].job = "runs"]
  /\ UNCHANGED <<runtime, entities, changes, misfired>>

\* The call's job has ended: "ok", "fail" or "cancelled".
Settled(c, at) ==
  /\ call[c].at \in at
  /\ call[c].job = "cancelled" \/ (Calm /\ call[c].job = "runs")
Result(c) == IF call[c].job = "cancelled" THEN "cancelled"
             ELSE IF data[call[c].name] = None THEN "fail" ELSE "ok"
Got(c) == ProfileOf(data[call[c].name])
Known(c) == call[c].id \in Ids(derived)
Has(c) == ById(derived, call[c].id).profile

\* "check row count"; every error is swallowed by dispatch.
SyncRows_mutInverted(c) ==
  /\ Settled(c, {"syncRows"})
  /\ IF Result(c) = "ok" /\ Known(c) /\ Got(c).rows = Has(c).rows THEN NextJob(c, "syncCols")
     ELSE Ends(c)
  /\ UNCHANGED <<runtime, entities, changes, misfired>>
SyncRows(c) ==
  /\ Settled(c, {"syncRows"})
  /\ IF Result(c) = "ok" /\ Known(c) /\ Got(c).rows # Has(c).rows THEN NextJob(c, "syncCols")
     ELSE Ends(c)
  /\ UNCHANGED <<runtime, entities, changes, misfired>>

\* "check column count and names"
SyncCols(c) ==
  /\ Settled(c, {"syncCols"})
  /\ IF Result(c) = "ok" /\ Known(c) /\ Got(c).cols # Has(c).cols
     THEN CollectTableInfo(c, call[c].id, tables, derived, call)
     ELSE Ends(c) /\ UNCHANGED derived
  /\ UNCHANGED <<runtime, tables, changes, misfired>>

ProfileCols(c) ==
  /\ Settled(c, {"profileCols"})
  /\ IF Result(c) = "ok"
     THEN /\ call' = [call EXCEPT ![c].at = "profileRows", ![c].job = "waits",
                                  ![c].cols = Got(c).cols]
          /\ UNCHANGED derived
     ELSE EndProfile(c)
  /\ UNCHANGED <<runtime, tables, changes, misfired>>

\* updateEntity, which replaces the status too, and collectProfileColumns.
ProfileRows(c) ==
  /\ Settled(c, {"profileRows"})
  /\ IF Result(c) = "ok" /\ Known(c)
     THEN /\ derived' = [i \in DOMAIN derived |->
               IF derived[i].id # call[c].id THEN derived[i]
               ELSE [id |-> call[c].id, status |-> "Profiling",
                     profile |-> [rows |-> Got(c).rows, cols |-> call[c].cols]]]
          /\ NextJob(c, "summaries")
     ELSE EndProfile(c)
  /\ UNCHANGED <<runtime, tables, changes, misfired>>

\* The column summaries, whose errors collectProfileColumns swallows.
Summaries(c) ==
  /\ Settled(c, {"summaries"})
  /\ EndProfile(c)
  /\ UNCHANGED <<runtime, tables, changes, misfired>>

\* The updates are applied.  addOrUpdateTable sets its entity idle once more.
Updated(c) ==
  /\ Calm /\ call[c].at = "wait"
  /\ derived' = IF call[c].adding THEN WithStatus(derived, call[c].id, "Idle") ELSE derived
  /\ Ends(c)
  /\ UNCHANGED <<runtime, tables, changes, misfired>>

-----------------------------------------------------------------------------
(* The user interface                                                      *)

Change == Calm /\ changes < MaxChanges /\ changes' = changes + 1

\* Sent after a source was deleted.
DropTableRequest(n) ==
  /\ Change
  /\ DropTable(n, call)
  /\ UNCHANGED runtime

\* updateTableName: sent before the runtime renames a source.
UpdateTableName(id, n) ==
  /\ Change
  /\ id \in Ids(tables) /\ ~Taken(n)
  /\ tables' = Renamed(id, ById(tables, id).name, n)
  /\ UNCHANGED <<runtime, derived, call, misfired>>

\* updateTableName with "": the runtime did not rename it.
ResetTableName(id) ==
  /\ Change
  /\ id \in Ids(tables)
  /\ tables' = Renamed(id, ById(tables, id).name, None)
  /\ UNCHANGED <<runtime, derived, call, misfired>>

\* Sent after a source was refreshed.
CollectRequest(id) ==
  /\ Change
  /\ call[UI].at = "idle" /\ id \in Ids(tables)
  /\ CollectTableInfo(UI, id, tables, derived, call)
  /\ UNCHANGED <<runtime, tables, misfired>>

\* A file is uploaded: addOrUpdateTableFromFile up to its import.
Upload(n, content) ==
  LET isNew == ~Taken(n)
      id    == IF isNew THEN NewId ELSE Named(n).id
  IN  /\ Change
      /\ call[UI].at = "idle"
      /\ isNew \/ id \in Ids(derived)
      /\ tables' = IF isNew THEN Append(tables, Entity(id, n)) ELSE tables
      /\ derived' = IF isNew THEN Append(derived, Derived(id, "Importing"))
                    ELSE WithStatus(derived, id, "Importing")
      /\ call' = [call EXCEPT ![UI] = [@ EXCEPT
           !.at = "import", !.job = "waits", !.id = id, !.name = n, !.content = content,
           !.original = IF isNew THEN None ELSE Named(n)]]
      /\ UNCHANGED <<runtime, misfired>>

\* The import has succeeded, or was cancelled and nobody catches the error.
Imported ==
  /\ Settled(UI, {"import"})
  /\ IF call[UI].job = "cancelled" THEN UNCHANGED <<data, derived>>
     ELSE /\ data' = [data EXCEPT ![call[UI].name] = call[UI].content]
          /\ derived' = WithStatus(derived, call[UI].id, "Idle")
  /\ Ends(UI)
  /\ UNCHANGED <<sources, tables, changes, misfired>>

\* The import of a new table has failed: "Delete the table entirely."
RollBackNew ==
  LET n == call[UI].name IN
  /\ Settled(UI, {"import"}) /\ call[UI].job = "runs" /\ call[UI].original = None
  /\ derived' = Without(derived, call[UI].id)
  /\ tables' = IF Taken(n) THEN Without(tables, Named(n).id) ELSE tables
  /\ misfired' = (misfired \/ ~Known(UI) \/ ~Taken(n) \/ Named(n).id # call[UI].id)
  /\ Ends(UI)
  /\ UNCHANGED <<runtime, changes>>

\* The import over a known table has failed; updateEntity throws if it is gone.
RollBack ==
  LET old == call[UI].original IN
  /\ Settled(UI, {"import"}) /\ call[UI].job = "runs" /\ old # None
  /\ tables' = Renamed(old.id, old.name, old.to)
  /\ derived' = IF old.id \in Ids(tables) THEN WithStatus(derived, old.id, "Idle") ELSE derived
  /\ Ends(UI)
  /\ UNCHANGED <<runtime, changes, misfired>>

-----------------------------------------------------------------------------
(* The runtime (modules CatalogMigration and PriorityWorker)               *)

RuntimeChange(names, tab) ==
  /\ changes < MaxChanges /\ changes' = changes + 1
  /\ sources' = names /\ data' = tab
  /\ UNCHANGED <<entities, call, misfired>>

CreateOrRefresh(n, c) == RuntimeChange(sources \cup {n}, [data EXCEPT ![n] = c])
DeleteSource(n) == n \in sources /\ RuntimeChange(sources \ {n}, [data EXCEPT ![n] = None])
RenameSource(n, m) ==
  /\ n \in sources /\ m \notin sources
  /\ RuntimeChange((sources \ {n}) \cup {m}, [data EXCEPT ![m] = data[n], ![n] = None])

-----------------------------------------------------------------------------
PollStep(p) ==
  \/ ListCatalogObjects(p) \/ ReceiveCatalog(p) \/ ConfirmRename(p) \/ DropAbsent(p)
  \/ SyncTable(p) \/ (\E n \in Names : AddOrSync(p, n)) \/ EndPoll(p)

Goes(c) ==
  \/ SyncRows(c) \/ SyncCols(c) \/ ProfileCols(c) \/ ProfileRows(c) \/ Summaries(c) \/ Updated(c)
  \/ c = UI /\ (Imported \/ RollBackNew \/ RollBack)

Changes ==
  \/ \E n \in Names : DropTableRequest(n) \/ DeleteSource(n)
  \/ \E id \in Ids(tables) : ResetTableName(id) \/ CollectRequest(id)
                             \/ \E n \in Names : UpdateTableName(id, n)
  \/ \E n \in Names, c \in Contents : Upload(n, c) \/ CreateOrRefresh(n, c)
  \/ \E n, m \in Names : RenameSource(n, m)

CallStep(c) == RunJob(c) \/ Goes(c) \/ (c \in Polls /\ PollStep(c))

Next == (\E c \in Callers : CallStep(c)) \/ Changes

Spec == Init /\ [][Next]_vars

\* A call goes on in the end, however often others run before it: the timer
\* fires, the runtime answers, and a job's turn in the queue comes.
FairSpec == Spec /\ \A c \in Callers : SF_vars(CallStep(c))

-----------------------------------------------------------------------------
Statuses == {"Idle", "Importing", "Profiling"}
Profiles == [rows : {c[1] : c \in Contents}, cols : {c[2] : c \in Contents}] \cup {NoProfile}
Entities == [id : Nat, name : Names, to : Names \cup {None}]
DerivedEntities == [id : Nat, status : Statuses, profile : Profiles]
Waiting == {"syncRows", "syncCols", "profileCols", "profileRows", "summaries", "import"}
CallStates ==
  [at : Waiting \cup {"idle", "answered", "loop", "wait"},
   job : {"none", "waits", "runs", "cancelled"},
   cats : SUBSET Names, todo : Seq(Entities), adding : BOOLEAN, id : Nat,
   name : Names \cup {None}, cols : {c[2] : c \in Contents} \cup {None},
   content : Contents \cup {None}, original : Entities \cup {None}]
UniqueIds(s) == IsInjective([i \in DOMAIN s |-> s[i].id])
TypeOK ==
  /\ sources \subseteq Names
  /\ data \in [Names -> Contents \cup {None}]
  /\ \A n \in sources : data[n] # None
  /\ tables \in Seq(Entities) /\ UniqueIds(tables)
  /\ derived \in Seq(DerivedEntities) /\ UniqueIds(derived)
  /\ call \in [Callers -> CallStates]
  /\ changes \in Nat /\ misfired \in BOOLEAN

\* A source is shown as importing or profiling only while some call works on it
\* that will reset it: no error, cancellation or deletion on the way leaves it
\* spinning (the ResetStateToIdle decorator, TableActions.addOrUpdateTable).
NeverStuck ==
  \A d \in ToSet(derived) : d.status # "Idle" =>
    \E c \in Callers : call[c].id = d.id /\ call[c].at \in
      {"import", "profileCols", "profileRows", "summaries"}

\* Every source has a persistent and a derived entity, or neither, as long as
\* no removal has missed one of the two.
Paired == misfired \/ Ids(tables) = Ids(derived)

\* Overlapping and stale polls, renames, drops and uploads notwithstanding, in
\* the end each source of the runtime has exactly one entity, and no other name
\* has one.
SourcesFollow ==
  <>[](/\ IsInjective([i \in DOMAIN tables |-> tables[i].name])
       /\ {tables[i].name : i \in DOMAIN tables} = sources)

\* If calls stop cancelling each other's jobs, in the end the profile of each
\* source has its row count or its columns (syncTable is satisfied by either).
\* Without the premise two overlapping polls may start over for ever: each
\* cancels the other's profile, which sets the entity idle under it.
ProfilesFollow ==
  <>[](\A c \in Callers : call[c].job # "cancelled") =>
  <>[](misfired \/ \A d \in ToSet(derived) :
         LET n == ById(tables, d.id).name IN
         data[n] # None /\ (\/ d.profile.rows = ProfileOf(data[n]).rows
                            \/ d.profile.cols = ProfileOf(data[n]).cols))

=============================================================================
