---------------------------- MODULE ModelEditing ----------------------------
(***************************************************************************)
(* web-local/src/common/data-modeler-service/ModelActions.ts: what happens *)
(* to one model while its query is edited, the model is renamed or it is   *)
(* deleted, and earlier edits are still being validated and profiled.      *)
(*                                                                         *)
(* Every call is an async function that is suspended while a database      *)
(* action of its own waits in the action queue (module ActionQueue) or     *)
(* runs.  When an action ends, run() settles its promise and dispatches    *)
(* the next action in the same tick, before the suspended call goes on.    *)
(* Suspended calls whose promise is settled go on before the event loop    *)
(* takes another timer, database answer or request (`Calm').               *)
(*                                                                         *)
(* The queue is a sequence for the model id and a set for the keys of its  *)
(* columns.  The queries about one column are one job, and                 *)
(* getDestinationSize stands under getCardinalityOfTable.                  *)
(*                                                                         *)
(* The results of column jobs are batched (module BatchedState); every     *)
(* other update applies the batch first.  A result for a column that the   *)
(* profile no longer has makes the batch throw, and with it the update     *)
(* that applies it: `late' says that such a result waits in the batch.     *)
(***************************************************************************)
EXTENDS Integers, SequencesExt

CONSTANTS
  Queries,   \* sanitized queries
  Empty,     \* the empty query, which a new model has
  Invalid,   \* queries that do not parse or bind
  Failing,   \* queries that bind and fail when they are run
  Copies,    \* `select * from' a source
  ModelCopies, \* `select * from' a relation that is no source, e.g. a model
  ColumnNames, Columns, \* the columns of each query
  Names,     \* table names
  FirstName,
  NoQuery, NoJob,
  MaxCalls   \* bound: how many requests arrive

ASSUME QueriesAssumption ==
  /\ Empty \in Queries
  /\ Invalid \cup Failing \cup Copies \cup ModelCopies \subseteq Queries \ {Empty}
  /\ Invalid \cap Failing = {}
  /\ Copies \cap ModelCopies = {}
  /\ NoQuery \notin Queries
ASSUME ColumnsAssumption ==
  /\ Columns \in [Queries -> SUBSET ColumnNames]
  /\ ColumnNames \cap {"validate", "view", "columns", "copyPreview", "rename",
                       "preview", "cardinality"} = {}
ASSUME NamesAssumption == FirstName \in Names
ASSUME MaxCallsAssumption == MaxCalls \in Nat

Calls == 1..MaxCalls

VARIABLES
  model,       \* what the server's state has of the model (ModelRecords)
  view,        \* DuckDB's views: the query of each name
  queue,       \* waiting jobs of the model id
  columnJobs,  \* waiting jobs of the column keys
  running,     \* the job DuckDB has
  settled,     \* jobs whose promise is settled and whose call has not gone on
  arrived,     \* how many calls have been made
  pc,          \* where each call is
  parts,       \* what the Promise.all of collectModelInfo still awaits
  late,        \* the waiting batch has a result for a column that is gone
  renamed,     \* history: a rename has been requested
  current      \* history: the newest edit, or 0 if a late result broke it off

state == <<model, view, queue, columnJobs, running, settled, arrived, pc, parts, late>>
vars == <<state, renamed, current>>

\* error, profile and preview name the query they come from; the persistent
\* query and the derived sanitizedQuery always change together.  `listed' is the
\* persistent entity, `exists' the derived one.
ModelRecords ==
  [listed: BOOLEAN, exists: BOOLEAN, query: Queries, name: Names, status: {"Idle", "Validating", "Profiling"},
   error: Queries \cup {NoQuery}, profile: Queries \cup {NoQuery},
   preview: Queries \cup {NoQuery}, profiled: BOOLEAN]

Job(c, kind, q, n, to) == [call |-> c, kind |-> kind, query |-> q, name |-> n, to |-> to]
\* A column job's kind is its column.
PartKinds == {"preview", "cardinality"} \cup ColumnNames
JobKinds == {"validate", "view", "columns", "copyPreview", "rename"} \cup PartKinds
Jobs == [call: Calls, kind: JobKinds, query: Queries \cup {NoQuery}, name: Names, to: Names]
\* What the promise of a job is settled with; got is what the table held.
Results == [job: Jobs, res: {"ok", "fail", "empty", "cancelled"}, got: Queries \cup {NoQuery}]
ASSUME JobsAssumption == NoJob \notin Jobs

Init ==
  /\ model = [listed |-> TRUE, exists |-> TRUE, query |-> Empty, name |-> FirstName,
              status |-> "Idle", error |-> NoQuery, profile |-> NoQuery, preview |-> NoQuery, profiled |-> FALSE]
  /\ view = [n \in Names |-> NoQuery]
  /\ queue = <<>> /\ columnJobs = {} /\ running = NoJob /\ settled = {}
  /\ arrived = 0
  /\ pc = [c \in Calls |-> "none"]
  /\ parts = [c \in Calls |-> {}]
  /\ late = FALSE /\ renamed = FALSE /\ current = 0

\* No call can go on: the event loop takes the next event.
Calm == settled = {}

-----------------------------------------------------------------------------
(* The action queue and DuckDB                                             *)

\* clearQueue(modelId) and clearColumnProfilePriority: the jobs of the model
\* and those of the columns it has now are rejected.
ColumnsOf(q) == IF q = NoQuery THEN {} ELSE Columns[q]
ProfileColumns == ColumnsOf(model.profile)
Dropped == ToSet(queue) \cup {j \in columnJobs : j.kind \in ProfileColumns}

\* Their promises are rejected with QueryCancelledError.
Cancelled_mutSilent(jobs) == {}
Cancelled(jobs) == {[job |-> j, res |-> "cancelled", got |-> NoQuery] : j \in jobs}

\* run() takes the next job: the entry of the model outranks those of its
\* columns, unless it was made by a rename, which ties with them.
DispatchNext ==
  \/ /\ queue # <<>>
     /\ running' = Head(queue) /\ queue' = Tail(queue) /\ UNCHANGED columnJobs
  \/ /\ queue # <<>> => Head(queue).kind = "rename"
     /\ \E j \in columnJobs : running' = j /\ columnJobs' = columnJobs \ {j}
     /\ UNCHANGED queue
  \/ /\ queue = <<>> /\ columnJobs = {}
     /\ running' = NoJob /\ UNCHANGED <<queue, columnJobs>>

\* The loop of run() goes on before the promise's call does.
RunGoesOn_mutLater == running' = NoJob /\ UNCHANGED <<queue, columnJobs>>
RunGoesOn == DispatchNext

\* A timer set by enqueue starts run().
StartRun ==
  /\ Calm
  /\ running = NoJob
  /\ queue # <<>> \/ columnJobs # {}
  /\ DispatchNext
  /\ UNCHANGED <<model, view, settled, arrived, pc, parts, late>>

\* What DuckDB answers.
Runs(name) == view[name] \notin Failing \cup {NoQuery}
Answer(j) ==
  CASE j.kind = "validate" -> IF j.query = Empty THEN "empty"
                              ELSE IF j.query \in Invalid THEN "fail" ELSE "ok"
    [] j.kind = "view"     -> IF j.query \in Invalid THEN "fail" ELSE "ok"
    [] j.kind \in ColumnNames -> IF Runs(j.name) /\ j.kind \in ColumnsOf(view[j.name])
                                 THEN "ok" ELSE "fail"
    [] j.kind = "rename"   -> IF view[j.name] # NoQuery /\ view[j.to] = NoQuery
                              THEN "ok" ELSE "fail"
    [] OTHER               -> IF Runs(j.name) THEN "ok" ELSE "fail"

Complete ==
  /\ Calm
  /\ running # NoJob
  /\ settled' = {[job |-> running, res |-> Answer(running), got |-> view[running.name]]}
  /\ view' = IF Answer(running) # "ok" THEN view
             ELSE CASE running.kind = "view"   -> [view EXCEPT ![running.name] = running.query]
                    [] running.kind = "rename" -> [view EXCEPT ![running.to] = view[running.name],
                                                               ![running.name] = NoQuery]
                    [] OTHER -> view
  /\ RunGoesOn
  /\ UNCHANGED <<model, arrived, pc, parts, late>>

\* All models share one batch.  Another one's late result joins it; the timer or
\* an update of another model applies it, which throws elsewhere.
OtherBatch ==
  /\ Calm
  /\ late' = ~ late
  /\ UNCHANGED <<model, view, queue, columnJobs, running, settled, arrived, pc, parts>>

-----------------------------------------------------------------------------
(* Requests                                                                *)

Arrive(c) ==
  /\ Calm
  /\ arrived < MaxCalls /\ c = arrived + 1
  /\ arrived' = c
  /\ UNCHANGED <<view, running, parts>>

\* The queue is emptied into Dropped, and `jobs' are enqueued.
ReplaceJobs(jobs) == queue' = jobs /\ columnJobs' = columnJobs \ Dropped

PcIs(c, where) == pc' = [pc EXCEPT ![c] = where]

\* The ResetStateToIdle decorator sets the status of a call that is over.
StatusAfter_mutKept == model.status
StatusAfter == "Idle"

\* A new query, or the same one with force (a source of the model changed).
\* The edit is stored after an `await' that nothing else can use: the calls
\* whose jobs are rejected here read neither the query nor the queue.  If the
\* status cannot be set, the edit is lost after the queue has been emptied.
UpdateModelQuery(c, q) ==
  /\ Arrive(c) /\ model.listed
  /\ settled' = Cancelled(Dropped)
  /\ IF late
     THEN /\ ReplaceJobs(<<>>)
          /\ model' = [model EXCEPT !.status = StatusAfter]
          /\ PcIs(c, "done") /\ current' = 0
     ELSE /\ ReplaceJobs(<<Job(c, "validate", q, model.name, model.name)>>)
          /\ model' = [model EXCEPT !.query = q, !.status = "Validating"]
          /\ PcIs(c, "busy") /\ current' = c
  /\ late' = FALSE
  /\ UNCHANGED renamed

\* The same query again, without force, or any query for a model of which only
\* the derived entity is left.
UpdateUnchanged(c) ==
  /\ Arrive(c) /\ model.exists
  /\ model' = [model EXCEPT !.status = StatusAfter]
  /\ PcIs(c, "done") /\ late' = FALSE
  /\ UNCHANGED <<queue, columnJobs, settled, renamed, current>>

\* updateModelName to a name that no other entity has.
UpdateModelName(c, n) ==
  /\ Arrive(c) /\ model.listed
  /\ n # model.name
  /\ renamed' = TRUE
  /\ queue' = Append(queue, Job(c, "rename", NoQuery, model.name, n))
  /\ PcIs(c, "busy")
  /\ UNCHANGED <<model, columnJobs, settled, late, current>>

\* deleteModel: the view stays.  The persistent entity goes first, and the
\* derived one stays if the batch throws.
DeleteModel(c) ==
  /\ Arrive(c) /\ model.listed
  /\ settled' = Cancelled(Dropped)
  /\ ReplaceJobs(<<>>)
  /\ model' = [model EXCEPT !.listed = FALSE, !.exists = late]
  /\ PcIs(c, "done") /\ late' = FALSE
  /\ UNCHANGED <<renamed, current>>

-----------------------------------------------------------------------------
(* A call goes on with the result r of its job                             *)

Resume(r, kinds) ==
  /\ r \in settled /\ r.job.kind \in kinds
  /\ UNCHANGED <<view, running, arrived>>

Resumed(r) == settled' = settled \ {r}

\* What the Promise.all still awaits after r: collectProfileColumns is over when
\* one of its columns fails, and swallows the error.
StillAwaited(r) ==
  parts[r.job.call] \
    IF r.job.kind \in ColumnNames /\ r.res # "ok" THEN ColumnNames ELSE {r.job.kind}

\* Every state action throws for a model that is gone, and so does the call;
\* but collectProfileColumns only fills in what it can.
ModelGone(r) ==
  LET c    == r.job.call
      left == IF r.job.kind \in ColumnNames /\ pc[c] = "busy" THEN StillAwaited(r) ELSE {}
  IN  /\ ~model.exists
      /\ Resume(r, JobKinds) /\ Resumed(r)
      /\ parts' = [parts EXCEPT ![c] = left]
      /\ PcIs(c, IF left = {} THEN "done" ELSE "busy")
      /\ UNCHANGED <<model, queue, columnJobs, late, current>>

\* The first update of the call throws: a late result is in the batch.
BrokenOff(r) ==
  /\ model.exists /\ late
  /\ Resume(r, {"validate", "view", "columns", "copyPreview"}) /\ Resumed(r)
  /\ model' = [model EXCEPT !.status = StatusAfter]
  /\ PcIs(r.job.call, "done") /\ late' = FALSE
  /\ current' = IF r.job.call = current THEN 0 ELSE current
  /\ UNCHANGED <<queue, columnJobs, parts>>

\* It does not throw.
Updates == model.exists /\ ~late /\ UNCHANGED <<late, current>>

\* A failed or cancelled validation, view or column list is the model's error.
QueryError(r) ==
  /\ Updates
  /\ r.res \in {"fail", "cancelled"}
  /\ Resume(r, {"validate", "view", "columns"}) /\ Resumed(r)
  /\ model' = [model EXCEPT !.error = r.job.query, !.status = StatusAfter]
  /\ PcIs(r.job.call, "done")
  /\ UNCHANGED <<queue, columnJobs, parts>>

\* "No statement to prepare!"
EmptyQuery(r) ==
  /\ Updates
  /\ r.res = "empty"
  /\ Resume(r, {"validate"}) /\ Resumed(r)
  /\ model' = [model EXCEPT !.profile = NoQuery, !.preview = NoQuery, !.error = NoQuery,
                            !.status = StatusAfter]
  /\ PcIs(r.job.call, "done")
  /\ UNCHANGED <<queue, columnJobs, parts>>

\* The rest of updateModelQuery and collectModelInfo up to its first await: it
\* reads the model again, so the query may be that of a later edit.  Without the
\* persistent entity it ends with an error, after emptying the queue.
CollectModelInfo(r) ==
  /\ Updates
  /\ r.res = "ok"
  /\ Resume(r, {"validate"})
  /\ \/ /\ model.query = Empty
        /\ model' = [model EXCEPT !.error = NoQuery, !.status = StatusAfter]
        /\ PcIs(r.job.call, "done")
        /\ Resumed(r)
        /\ UNCHANGED <<queue, columnJobs>>
     \/ /\ model.query # Empty /\ model.listed
        /\ model' = [model EXCEPT !.error = NoQuery]
        /\ ReplaceJobs(<<Job(r.job.call, "view", model.query, model.name, model.name)>>)
        /\ settled' = (settled \ {r}) \cup Cancelled(Dropped)
        /\ UNCHANGED pc
     \/ /\ model.query # Empty /\ ~model.listed
        /\ model' = [model EXCEPT !.error = model.query, !.status = StatusAfter]
        /\ PcIs(r.job.call, "done")
        /\ ReplaceJobs(<<>>)
        /\ settled' = (settled \ {r}) \cup Cancelled(Dropped)
  /\ UNCHANGED parts

\* setModelStatus(Profiling) and the query for the columns.
ViewCreated(r) ==
  /\ Updates
  /\ r.res = "ok"
  /\ Resume(r, {"view"}) /\ Resumed(r)
  /\ model' = [model EXCEPT !.status = "Profiling"]
  /\ queue' = Append(queue, [r.job EXCEPT !.kind = "columns"])
  /\ UNCHANGED <<columnJobs, pc, parts>>

\* "clear any model error if we get this far"
ErrorAfterColumns_mutKept == model.error
ErrorAfterColumns == NoQuery

\* `select * from' a relation that has no Table entity: `table.id' throws.
NoTable(r) ==
  /\ model.query \in ModelCopies
  /\ model' = [model EXCEPT !.error = ErrorAfterColumns, !.status = StatusAfter]
  /\ PcIs(r.job.call, "done")
  /\ UNCHANGED <<queue, columnJobs, parts>>

\* `select * from' a source that is profiled.
CopyProfile(r) ==
  /\ model.query \in Copies
  /\ model' = [model EXCEPT !.error = ErrorAfterColumns, !.profile = model.query]
  /\ queue' = Append(queue, [r.job EXCEPT !.kind = "copyPreview"])
  /\ UNCHANGED <<columnJobs, parts, pc>>

\* Any other query, and a source that is not profiled: the parallel part.
Profile(r) ==
  LET As(kind) == [r.job EXCEPT !.kind = kind]
  IN  /\ r.job.query = model.query => model.query \notin ModelCopies
      /\ model' = [model EXCEPT !.error = ErrorAfterColumns, !.profile = r.got]
      /\ queue' = queue \o <<As("preview"), As("cardinality")>>
      /\ columnJobs' = columnJobs \cup {As(column) : column \in ColumnsOf(r.got)}
      /\ parts' = [parts EXCEPT ![r.job.call] = {"preview", "cardinality"} \cup ColumnsOf(r.got)]
      /\ UNCHANGED pc

\* The columns are known and the error is cleared.  Whether the profile of a
\* source will do depends on the first source of the call's query and on the
\* model's query, which may be a later one.
ColumnsKnown(r) ==
  /\ Updates
  /\ r.res = "ok"
  /\ Resume(r, {"columns"}) /\ Resumed(r)
  /\ NoTable(r) \/ CopyProfile(r) \/ Profile(r)

\* The preview of a copied profile; an error leaves through the decorator.
CopyPreview(r) ==
  /\ Updates
  /\ Resume(r, {"copyPreview"}) /\ Resumed(r)
  /\ model' = IF r.res = "ok"
              THEN [model EXCEPT !.preview = r.got, !.profiled = TRUE, !.status = StatusAfter]
              ELSE [model EXCEPT !.status = StatusAfter]
  /\ PcIs(r.job.call, "done")
  /\ UNCHANGED <<queue, columnJobs, parts>>

\* One of the parallel jobs.  Its result counts after the Promise.all has failed,
\* too.  A column's result joins the batch.  Any other update applies the batch:
\* a bad one costs the call its result, or its mark as profiled.
Part(r) ==
  LET c       == r.job.call
      ok      == r.res = "ok"
      column  == r.job.kind \in ColumnNames
      awaited == pc[c] = "busy"
      bad     == late \/ (column /\ ok /\ r.job.kind \notin ProfileColumns)
      lost    == awaited /\ ~column /\ (~ok \/ late)
      whole   == awaited /\ ~lost /\ StillAwaited(r) = {}
      applied == lost \/ whole \/ (~column /\ ok)
  IN  /\ model.exists
      /\ Resume(r, PartKinds) /\ Resumed(r)
      /\ model' = [model EXCEPT
           !.preview = IF r.job.kind = "preview" /\ ok /\ ~late THEN r.got ELSE @,
           !.error = IF lost /\ (ok \/ ~late) THEN NoQuery ELSE @,
           !.profiled = @ \/ (whole /\ ~bad),
           !.status = IF lost \/ whole THEN StatusAfter ELSE @]
      /\ parts' = [parts EXCEPT ![c] = StillAwaited(r)]
      /\ PcIs(c, IF lost \/ whole THEN "done" ELSE pc[c])
      /\ late' = (bad /\ ~applied)
      /\ current' = IF c = current /\ bad /\ (lost \/ whole) THEN 0 ELSE current
      /\ UNCHANGED <<queue, columnJobs>>

\* The persistent entity is updated, if it is there: not a matter of the batch.
Renamed(r) ==
  /\ model.exists
  /\ Resume(r, {"rename"}) /\ Resumed(r)
  /\ model' = IF r.res = "ok" /\ model.listed THEN [model EXCEPT !.name = r.job.to] ELSE model
  /\ PcIs(r.job.call, "done")
  /\ UNCHANGED <<queue, columnJobs, parts, late, current>>

Continue(r) ==
  \/ ModelGone(r) \/ BrokenOff(r) \/ QueryError(r) \/ EmptyQuery(r) \/ CollectModelInfo(r)
  \/ ViewCreated(r) \/ ColumnsKnown(r) \/ CopyPreview(r) \/ Part(r) \/ Renamed(r)

Request(c) ==
  \/ \E q \in Queries : UpdateModelQuery(c, q)
  \/ UpdateUnchanged(c)
  \/ \E n \in Names : UpdateModelName(c, n)
  \/ DeleteModel(c)

Next == \/ (StartRun \/ Complete \/ OtherBatch) /\ UNCHANGED <<renamed, current>>
        \/ (\E r \in settled : Continue(r)) /\ UNCHANGED renamed
        \/ \E c \in Calls : Request(c)

Spec == Init /\ [][Next]_vars

\* Timers fire, DuckDB answers and settled promises go on.
FairSpec == Spec /\ WF_state(StartRun) /\ WF_state(Complete)
                 /\ WF_state(\E r \in settled : Continue(r))

-----------------------------------------------------------------------------
TypeOK ==
  /\ model \in ModelRecords
  /\ view \in [Names -> Queries \cup {NoQuery}]
  /\ queue \in Seq(Jobs) /\ columnJobs \subseteq Jobs /\ running \in Jobs \cup {NoJob}
  /\ settled \subseteq Results
  /\ arrived \in 0..MaxCalls
  /\ pc \in [Calls -> {"none", "busy", "done"}]
  /\ parts \in [Calls -> SUBSET PartKinds]
  /\ late \in BOOLEAN /\ renamed \in BOOLEAN /\ current \in 0..MaxCalls

\* Nothing runs, waits or is about to go on.
AtRest == running = NoJob /\ queue = <<>> /\ columnJobs = {} /\ settled = {}
Good == model.query \notin Invalid \cup Failing \cup {Empty}

\* "Resets state to idle for the entity on exit": however edits overlap, once
\* the queue has drained every call has returned and the model is idle.
IdleAtRest ==
  AtRest /\ model.exists => model.status = "Idle" /\ \A c \in Calls : pc[c] # "busy"

\* The last edit wins: when the queue has drained and the query is a good one,
\* the view, the columns, the preview and the (absent) error are those of this
\* query, whatever the abandoned calls before it did after being cancelled.
\* (shouldUpdateModelQuery, shouldStopOlderQueriesOfModel)  The code keeps it with
\* these exceptions:
\*   - a copy of a relation without a Table entity has a view and no profile;
\*   - an edit that a late result of a column broke off (current = 0);
\*   - a rename that DuckDB runs under collectModelInfo, which has read the old
\*     name.
ProfileAtRest ==
  AtRest /\ model.listed /\ Good /\ current # 0 /\ ~renamed =>
    /\ view[model.name] = model.query
    /\ model.error = NoQuery
    /\ model.query \notin ModelCopies =>
         model.profile = model.query /\ model.preview = model.query /\ model.profiled

\* clearQueue stops older calls only: collectModelInfo of an abandoned edit
\* never cancels a job of the newest call.  (It does cancel a rename.)
NewestKept ==
  \A r \in settled : r.res = "cancelled" /\ model.exists /\ ~renamed => r.job.call < arrived

\* Every call returns, also one whose jobs were cancelled or whose model was
\* deleted under it.
CallsEnd == \A c \in Calls : pc[c] = "busy" ~> pc[c] = "done"
=============================================================================
