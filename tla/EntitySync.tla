------------------------------ MODULE EntitySync ------------------------------
(***************************************************************************)
(* web-local/src/common/data-modeler-state-service/sync-service: the       *)
(* models of the node server's state, the state file they are saved to and *)
(* the folder of .sql files that the user may edit.  Every 500 ms          *)
(* EntityStateSyncService.sync reads the file and the folder and copies    *)
(* what is newer, by time stamps of the state, of each model and of each   *)
(* file.                                                                   *)
(*                                                                         *)
(* A sync is suspended while it reads or writes the state file; what it    *)
(* does in between runs alone, and so do the other calls.  The server may  *)
(* be killed and started at any moment.                                    *)
(*                                                                         *)
(* No two events have the same time.  The order of the models, the case of *)
(* their names and their derived states are left out.  Of the sources,     *)
(* which have a state file of their own, only the names matter: a model    *)
(* cannot take one.                                                        *)
(***************************************************************************)
EXTENDS Integers, FiniteSetsExt

CONSTANTS
  Syncs,      \* bound: how many syncs overlap
  Names,      \* names of models, and of their files
  SourceNames, \* those that a source may have
  Queries,
  Empty,      \* the query of a new model
  None, Partial,
  MaxEdits,   \* bound: how often models and files are edited
  MaxCrashes  \* bound: how often the server is killed

ASSUME ValuesAssumption == Empty \in Queries /\ None \notin Queries
\* No state of the models is one of the two values that stand for "no state".
ASSUME StatesAssumption ==
  /\ None # Partial
  /\ \A v \in {None, Partial} :
       v \notin [upd : Nat, models : SUBSET [id : Nat, name : Names, query : Queries, upd : Nat]]
ASSUME BoundsAssumption == MaxEdits \in Nat /\ MaxCrashes \in Nat

VARIABLES
  sources,   \* the names that sources have
  store,     \* the state in memory, None while the server is down
  file,      \* the state file: None, Partial (half written) or a state
  files,     \* the folder: None or what a file holds, when and by whom it was written
  known,     \* filesForEntities: the model of each file
  previous,  \* previousFilesForEntities
  sync,      \* where each sync is
  timers,    \* calls that a sync has put off by 5 ms
  throttled, \* calls made lately, and for how many more syncs they count
  renames,   \* renames that wait for DuckDB to rename the view
  clock, edits, crashes,
  torn       \* memory, state file and folder have come apart: the server was
             \* killed before everything was saved, a sync broke off with files
             \* left to remove, or two models have got one name

disk == <<file, files>>
memory == <<store, known, previous, timers, throttled>>
\* What a sync leaves alone.
others == <<sources, renames, edits, crashes>>
vars == <<memory, disk, sync, clock, others, torn>>

State(upd, models) == [upd |-> upd, models |-> models]
EmptyState == State(0, {})
Model(id, n, q, upd) == [id |-> id, name |-> n, query |-> q, upd |-> upd]
File(q, time, by) == [query |-> q, time |-> time, by |-> by]
NoFiles == [n \in Names |-> 0]
NoSync == [at |-> "idle", save |-> EmptyState, listed |-> <<>>]

Init ==
  /\ store = EmptyState /\ file = None
  /\ files = [n \in Names |-> None]
  /\ known = NoFiles /\ previous = NoFiles
  /\ sync = [s \in Syncs |-> NoSync] /\ timers = {} /\ throttled = {}
  /\ sources = {} /\ renames = {}
  /\ clock = 0 /\ edits = 0 /\ crashes = 0 /\ torn = FALSE

Up == store # None
\* Date.now() and the time a file is written at.
Now == clock + 1
Tick == clock' = IF <<store, disk>>' = <<store, disk>> THEN clock ELSE Now

Named(models, n) == {m \in models : m.name = n}
WithId(models, id) == {m \in models : m.id = id}
TheOne(models) == CHOOSE m \in models : TRUE
Distinct(models) == \A m, o \in models : m.name = o.name => m = o

-----------------------------------------------------------------------------
(* Edits by the user interface and of the folder                           *)

Edit == edits < MaxEdits /\ edits' = edits + 1 /\ UNCHANGED <<crashes, torn>>
Act(models) ==
  /\ Edit
  /\ store' = State(Now, models)
  /\ UNCHANGED <<known, previous, timers, throttled, disk, sync, sources, renames>>
  /\ Tick

\* checkDuplicateModel: no other model and no source has the name.
Free(n) == Named(store.models, n) = {} /\ n \notin sources

Ids(models) == {m.id : m \in models}
\* A guid.
NewId == Now

\* addModel; updateModelQuery stamps a model that has a query.
Added(models, n, q) == models \cup {Model(NewId, n, q, IF q = Empty THEN 0 ELSE Now)}
AddModel(n, q) == Up /\ Free(n) /\ Act(Added(store.models, n, q))
UpdateModelQuery(m, q) ==
  q # m.query /\ Act((store.models \ {m}) \cup {[m EXCEPT !.query = q, !.upd = Now]})
DeleteModel(m) == Act(store.models \ {m})

\* updateModelName looks for the name before it awaits renameView.
UpdateModelName(m, n) ==
  /\ Free(n)
  /\ Edit
  /\ renames' = renames \cup {[id |-> m.id, name |-> n]}
  /\ UNCHANGED <<memory, disk, sync, clock, sources>>

\* DuckDB has renamed the view or has failed.  The model may be gone, or the
\* name taken, meanwhile.
Renamed(r) ==
  /\ Up
  /\ renames' = renames \ {r}
  /\ \/ UNCHANGED store
     \/ \E m \in WithId(store.models, r.id) :
          store' = State(Now, (store.models \ {m}) \cup {[m EXCEPT !.name = r.name, !.upd = Now]})
  /\ torn' = (torn \/ ~Distinct(store'.models))
  /\ UNCHANGED <<known, previous, timers, throttled, disk, sync, sources, edits, crashes>>
  /\ Tick

\* A source is added, or renamed, and dropped.  A table that is found in DuckDB
\* may have the name of a model.
ChangeSources(names) ==
  /\ Up /\ Edit
  /\ sources' = names
  /\ UNCHANGED <<memory, disk, sync, clock, renames>>
AddSource(n) == n \notin sources /\ ChangeSources(sources \cup {n})
DropSource(n) == n \in sources /\ ChangeSources(sources \ {n})

EditFile(n, content) ==
  /\ Edit
  /\ files' = [files EXCEPT ![n] = content]
  /\ UNCHANGED <<memory, file, sync, sources, renames>>
  /\ Tick
WriteFile(n, q) == EditFile(n, File(q, Now, "user"))
RemoveFile(n) == files[n] # None /\ EditFile(n, None)

-----------------------------------------------------------------------------
(* The state file and the folder                                           *)

Present(fs) == {n \in Names : fs[n] # None}

\* save for each model.
Saved(fs, models) ==
  [n \in Names |-> IF Named(models, n) = {} THEN fs[n]
                   ELSE File(TheOne(Named(models, n)).query, Now, "server")]

\* saveAll up to the end of writeFile, which first empties the state file.
StartSave(s, at, state) ==
  /\ file' = Partial
  /\ sync' = [sync EXCEPT ![s].at = at, ![s].save = state]

\* getAll up to its readFile: the folder is listed with the models that the
\* files had, and the map of files is emptied.
List(s, fs) ==
  /\ sync' = [sync EXCEPT ![s].at = "read", ![s].listed = [n \in Present(fs) |-> known[n]]]
  /\ previous' = known /\ known' = NoFiles

\* update: a file that is missing is written for a model it was not known for,
\* and one that is newer than its model replaces the query.
Fresh(m, was) == files[m.name] = None /\ was[m.name] # m.id
Newer(m) ==
  files[m.name] # None /\ files[m.name].query # m.query /\ files[m.name].time > m.upd
Update(m) == IF Newer(m) THEN [m EXCEPT !.query = files[m.name].query, !.upd = Now] ELSE m
Updated(state) == [state EXCEPT !.models = {Update(m) : m \in state.models}]
Filled(state, was) == Saved(files, {m \in state.models : Fresh(m, was)})

\* "if lastUpdated of any entity has updated then update state's lastUpdated"
Stamped_mutNone(state) == state
Stamped(state) == [state EXCEPT !.upd = Max({@} \cup {m.upd : m \in state.models})]

\* The rest of getAll, for what it read and what it had listed: files of
\* renamed models are removed, calls are put off for files nobody knew and for
\* models whose file is gone.
Owner(state, n) == IF Named(state.models, n) = {} THEN 0 ELSE TheOne(Named(state.models, n)).id
Obsolete_mutNone(state, listed) == {}
Obsolete(state, listed) == {n \in DOMAIN listed : listed[n] # 0 /\ Owner(state, n) = 0}
PutOff(state, listed, was) ==
  {[call |-> "addModel", name |-> n] : n \in {n \in DOMAIN listed : listed[n] = 0 /\ Owner(state, n) = 0}}
  \cup {[call |-> "deleteModel", id |-> m.id] :
          m \in {m \in state.models : m.name \notin DOMAIN listed /\ was[m.name] = m.id}}

\* unlinkSync for each of them; it throws if one is gone meanwhile, which leaves
\* those that come after it in the list.
Unlinked(fs, obsolete) ==
  IF obsolete \subseteq Present(fs) THEN {obsolete} ELSE SUBSET (obsolete \cap Present(fs))
Cleaned(fs, gone) == [n \in Names |-> IF n \in gone THEN None ELSE fs[n]]

-----------------------------------------------------------------------------
(* A sync                                                                  *)

\* The timer of 500 ms: the calls put off by the last sync were made before.
BeginSync(s) ==
  /\ Up /\ sync[s].at = "idle" /\ timers = {}
  /\ throttled' = {[t EXCEPT !.left = 1] : t \in {t \in throttled : t.left = 2}}
  /\ IF file = None THEN StartSave(s, "create", store) /\ UNCHANGED <<known, previous>>
     ELSE List(s, files) /\ UNCHANGED file
  /\ UNCHANGED <<store, timers, files, clock, others, torn>>

\* syncSourceWithCurrent
Merged_mutTwice(state) ==
  State(Now, store.models \cup {[m EXCEPT !.upd = Now] : m \in state.models})
Merged(state) ==
  LET newer == {m \in state.models : \E o \in WithId(store.models, m.id) : m.upd > o.upd}
      added == {m \in state.models : WithId(store.models, m.id) = {}}
      kept  == {m \in store.models : m.id \notin Ids(newer)}
  IN  IF newer \cup added \cup kept = {} THEN store
      ELSE State(Now, kept \cup added \cup {[m EXCEPT !.upd = Now] : m \in newer})

\* The end of sync: the newer state replaces the older one.  The state file is
\* `written' meanwhile.
Compare(s, state, written) ==
  /\ store' = IF state.upd > store.upd THEN Merged(state) ELSE store
  /\ IF state.upd < store.upd THEN StartSave(s, "save", store)
     ELSE sync' = [sync EXCEPT ![s] = NoSync] /\ file' = written

\* getAll has read `state' and the folder is `fs'.  If unlinkSync throws, sync
\* goes on with the empty state.
Finish(s, state, fs) ==
  LET listed   == sync[s].listed
      obsolete == Obsolete(state, listed)
  IN  /\ known' = [n \in Names |-> Owner(state, n)]
      /\ timers' = timers \cup PutOff(state, listed, previous)
      /\ UNCHANGED <<previous, throttled>>
      /\ \E gone \in Unlinked(fs, obsolete) :
           /\ files' = Cleaned(fs, gone)
           /\ Compare(s, IF obsolete \subseteq Present(fs) THEN Stamped(state) ELSE EmptyState, state)
           /\ torn' = (torn \/ ~Distinct(store'.models) \/ (obsolete \cap Present(fs)) \ gone # {})

\* The state file has been read: it does not parse if it is half written.
Read(s) ==
  /\ sync[s].at = "read"
  /\ IF file = Partial
     THEN /\ Compare(s, EmptyState, file)
          /\ UNCHANGED <<known, previous, timers, throttled, files, torn>>
     ELSE IF Updated(file) # file
          THEN /\ StartSave(s, "update", Updated(file))
               /\ files' = Filled(file, previous)
               /\ UNCHANGED <<memory, torn>>
          ELSE Finish(s, file, Filled(file, previous))
  /\ UNCHANGED others
  /\ Tick

\* The state file is written, and then the files of its models.
EndSave(s, at) == sync[s].at = at /\ UNCHANGED others
AllSaved(s) == Saved(files, sync[s].save.models)

EndFirstSave(s) ==
  /\ EndSave(s, "create")
  /\ file' = sync[s].save /\ files' = AllSaved(s)
  /\ List(s, AllSaved(s))
  /\ UNCHANGED <<store, timers, throttled, torn>>
  /\ Tick

EndUpdate(s) == EndSave(s, "update") /\ Finish(s, sync[s].save, AllSaved(s)) /\ Tick

EndSync(s) ==
  /\ EndSave(s, "save")
  /\ file' = sync[s].save /\ files' = AllSaved(s)
  /\ sync' = [sync EXCEPT ![s] = NoSync]
  /\ UNCHANGED <<memory, torn>>
  /\ Tick

\* A call that getAll has put off, unless it was made during one of the last
\* two syncs (2 * syncInterval).  addModel refuses a name that is taken, and
\* nothing happens if the file or the model is gone.
Throttled(t) == \E r \in throttled : r.call = t
Call(t) ==
  LET models == store.models IN
  /\ timers' = timers \ {t}
  /\ throttled' = IF Throttled(t) THEN throttled ELSE throttled \cup {[call |-> t, left |-> 2]}
  /\ store' = IF Throttled(t) THEN store
              ELSE IF t.call = "deleteModel" /\ WithId(models, t.id) # {}
              THEN State(Now, models \ WithId(models, t.id))
              ELSE IF t.call = "addModel" /\ files[t.name] # None /\ Free(t.name)
              THEN State(Now, Added(models, t.name, files[t.name].query))
              ELSE store
  /\ UNCHANGED <<known, previous, disk, sync, others, torn>>
  /\ Tick

-----------------------------------------------------------------------------
(* The server is killed and started                                        *)

\* A file that somebody has put beside a source of its name: addModel refuses
\* it, and every sync puts the call off again.
Refused(n) == n \in sources /\ files[n] # None /\ files[n].by = "user"

\* Memory, state file and folder say the same, but for the files that are refused.
Agreed ==
  /\ Up /\ file \notin {None, Partial}
  /\ {[m EXCEPT !.upd = 0] : m \in store.models} = {[m EXCEPT !.upd = 0] : m \in file.models}
  /\ \A t \in timers : t.call = "addModel" /\ Refused(t.name)
  /\ \A n \in Names :
       IF Named(store.models, n) = {} THEN files[n] = None \/ Refused(n)
       ELSE files[n] # None /\ \E m \in store.models : m.name = n /\ m.query = files[n].query

\* A save that is under way is half done, or done but for the files.
CutOff ==
  /\ UNCHANGED files
  /\ file' \in {file} \cup {sync[s].save : s \in {s \in Syncs : sync[s].at \in {"create", "update", "save"}}}

Crash ==
  /\ Up /\ crashes < MaxCrashes /\ CutOff
  /\ crashes' = crashes + 1 /\ torn' = (torn \/ ~Agreed)
  /\ store' = None /\ known' = NoFiles /\ previous' = NoFiles /\ timers' = {} /\ throttled' = {}
  /\ sync' = [s \in Syncs |-> NoSync] /\ renames' = {}
  /\ UNCHANGED <<sources, edits>>
  /\ Tick

\* init: getAll with an empty map of files.
Restart ==
  /\ ~Up
  /\ IF file \in {None, Partial}
     THEN store' = EmptyState /\ UNCHANGED <<known, timers, disk>>
     ELSE LET state  == Updated(file)
              fs     == Filled(file, NoFiles)
              listed == [n \in Present(files) |-> 0]
          IN  /\ store' = Stamped(state)
              /\ known' = [n \in Names |-> Owner(state, n)]
              /\ timers' = PutOff(state, listed, NoFiles)
              /\ file' = state
              /\ files' = IF state # file THEN Saved(fs, state.models) ELSE fs
  /\ UNCHANGED <<previous, throttled, sync, others, torn>>
  /\ Tick

-----------------------------------------------------------------------------
SyncStep(s) == BeginSync(s) \/ Read(s) \/ EndFirstSave(s) \/ EndUpdate(s) \/ EndSync(s)

Edits ==
  \/ \E n \in Names, q \in Queries : AddModel(n, q) \/ WriteFile(n, q)
  \/ \E n \in Names : RemoveFile(n)
  \/ \E n \in SourceNames : AddSource(n) \/ DropSource(n)
  \/ Up /\ \E m \in store.models :
       \/ DeleteModel(m)
       \/ \E q \in Queries : UpdateModelQuery(m, q)
       \/ \E n \in Names : UpdateModelName(m, n)

Next ==
  \/ \E s \in Syncs : SyncStep(s)
  \/ \E t \in timers : Call(t)
  \/ \E r \in renames : Renamed(r)
  \/ Edits \/ Crash \/ Restart

Spec == Init /\ [][Next]_vars

\* The timers fire, files are read and written, and someone starts the server.
FairSpec ==
  /\ Spec
  /\ \A s \in Syncs : WF_vars(SyncStep(s))
  /\ WF_vars(\E t \in timers : Call(t)) /\ WF_vars(Restart)

-----------------------------------------------------------------------------
StateAt(st, time) ==
  /\ st \in [upd : 0..time, models : SUBSET [id : 1..time, name : Names, query : Queries, upd : 0..time]]
  /\ \A m, o \in st.models : m.id = o.id => m = o
FilesAt(fs, time) ==
  /\ DOMAIN fs = Names
  /\ \A n \in Names : fs[n] = None \/ fs[n] \in [query : Queries, time : 1..time, by : {"user", "server"}]
SyncAt(y, time) ==
  /\ y = [at |-> y.at, save |-> y.save, listed |-> y.listed]
  /\ y.at \in {"idle", "create", "read", "update", "save"}
  /\ StateAt(y.save, time)
  /\ DOMAIN y.listed \subseteq Names /\ \A n \in DOMAIN y.listed : y.listed[n] \in Nat
StatesOK ==
  /\ clock \in Nat
  /\ store = None \/ StateAt(store, clock)
  /\ file \in {None, Partial} \/ StateAt(file, clock)
  /\ FilesAt(files, clock)
  /\ known \in [Names -> Nat] /\ previous \in [Names -> Nat]
  /\ DOMAIN sync = Syncs /\ \A s \in Syncs : SyncAt(sync[s], clock)
  /\ \A t \in timers : t.call = "addModel" => t.name \in Names
RequestsOK == sources \subseteq SourceNames /\ renames \subseteq [id : Nat, name : Names]
TypeOK == StatesOK /\ RequestsOK

\* A model takes its query from a file, in a sync or at the start, and a new
\* model is put off for a file, only if somebody else has written the file: what
\* a sync saves late never comes back as an edit, and a deleted or renamed model
\* never comes back from the file it has left behind.  (Once they have come apart,
\* both happen.)
ByUser(n) == files[n] = None \/ files[n].by = "user"
OwnQuery(models) ==
  \A m \in models, o \in file.models : m.id = o.id /\ m.query # o.query => ByUser(m.name)
OwnFilesIgnored ==
  [][ \/ torn
      \/ /\ \A s \in Syncs :
              sync[s].at = "read" /\ sync'[s].at = "update" => OwnQuery(sync'[s].save.models)
         /\ ~Up /\ Up' /\ file \notin {None, Partial} => OwnQuery(store'.models)
         /\ \A t \in timers' \ timers : t.call = "addModel" => ByUser(t.name) ]_vars

\* In the end memory, state file and folder say the same, whoever edited what
\* and when, and the server stays up.  Only a file with the name of a source is
\* left as it is: it becomes a model when the source is dropped.
Converges == <>[](torn \/ (Up => Agreed))
=============================================================================
